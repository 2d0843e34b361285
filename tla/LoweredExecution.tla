-------------------------- MODULE LoweredExecution -------------------------
(***************************************************************************)
(* A function lowered by MirLowering, executed by the virtual machine one  *)
(* instruction or terminator at a time, against its meaning in TreeWalk.   *)
(*                                                                         *)
(* compileBody lays blocks out one after the other and turns a region into *)
(* one handler range per protected block, in the order of the regions; an  *)
(* instruction is named here by its block and its index in it, and a range *)
(* by the set of its blocks.                                               *)
(***************************************************************************)
EXTENDS MirLowering

CONSTANTS
  Programs,      \* function bodies
  MaxDecisions,  \* bound: decisions that are not the default
  MaxTrace       \* bound: marks in one execution

VARIABLES
  program,       \* the function body under execution
  code,          \* its lowered form
  block, index,  \* instruction pointer; one past the code is the terminator
  errors,        \* error registers, by the handler they belong to
  trace,         \* the local variable every mark appends to
  decisions,     \* history: how conditions and calls went
  outcome        \* how the function ended, or Running

vars == <<program, code, block, index, errors, trace, decisions, outcome>>

Running == [kind |-> "running"]

ASSUME ExecutionAssumption == MaxDecisions \in Nat /\ MaxTrace \in Nat

Init ==
  /\ program \in Programs
  /\ code = LowerFunction(program)
  /\ block = 1 /\ index = 1
  /\ errors = <<>>
  /\ trace = <<>>
  /\ decisions = <<>>
  /\ outcome = Running

InBlock == outcome = Running /\ index <= Len(code.blocks[block].code)
Instruction == code.blocks[block].code[index]
Ending(op) ==
  /\ outcome = Running /\ index = Len(code.blocks[block].code) + 1
  /\ code.blocks[block].terminator.op = op
Terminator == code.blocks[block].terminator

(* A decision is recorded; when the bound is reached it is the default.    *)
Decide(d) ==
  IF Len(decisions) < MaxDecisions THEN decisions' = Append(decisions, d)
  ELSE ~d /\ UNCHANGED decisions

JumpTo(target) == block' = target /\ index' = 1
Advance == index' = index + 1 /\ UNCHANGED block

(* unwindError in this frame: the first region that protects the block.    *)
Protecting == {i \in DOMAIN code.regions : block \in code.regions[i].protected}
Raise(value) ==
  IF Protecting = {}
  THEN /\ outcome' = [kind |-> "throw", value |-> value]
       /\ UNCHANGED <<block, index, errors>>
  ELSE LET handler == code.regions[Min(Protecting)].handler
       IN /\ JumpTo(handler)
          /\ errors' = (handler :> value) @@ errors
          /\ UNCHANGED outcome

MarkStep ==
  /\ InBlock /\ Instruction.kind = "mark"
  /\ Len(trace) < MaxTrace
  /\ trace' = Append(trace, Instruction.id)
  /\ Advance
  /\ UNCHANGED <<program, code, errors, decisions, outcome>>

CallReturns ==
  /\ InBlock /\ Instruction.kind = "call"
  /\ Decide(FALSE)
  /\ Advance
  /\ UNCHANGED <<program, code, errors, trace, outcome>>

CallRaises ==
  /\ InBlock /\ Instruction.kind = "call"
  /\ Decide(TRUE)
  /\ Raise(<<Instruction.id>>)
  /\ UNCHANGED <<program, code, trace>>

GotoStep ==
  /\ Ending("goto")
  /\ JumpTo(Terminator.target)
  /\ UNCHANGED <<program, code, errors, trace, decisions, outcome>>

BranchStep(d) ==
  /\ Ending("branch")
  /\ Decide(d)
  /\ JumpTo(IF d THEN Terminator.yes ELSE Terminator.no)
  /\ UNCHANGED <<program, code, errors, trace, outcome>>

ThrowStep ==
  /\ Ending("throw")
  /\ Raise(<<Terminator.id>>)
  /\ UNCHANGED <<program, code, trace, decisions>>

RethrowStep ==
  /\ Ending("rethrow")
  /\ Raise(errors[Terminator.handler])
  /\ UNCHANGED <<program, code, trace, decisions>>

(* Return reads its register when it is executed.                          *)
ReturnStep ==
  /\ Ending("return")
  /\ outcome' = ReturnFlow(CASE Terminator.of = "trace" -> trace
                             [] Terminator.of = "constant" -> Constant
                             [] Terminator.of = "null" -> Null)
  /\ UNCHANGED <<program, code, block, index, errors, trace, decisions>>

Next ==
  \/ MarkStep
  \/ CallReturns
  \/ CallRaises
  \/ GotoStep
  \/ \E d \in BOOLEAN : BranchStep(d)
  \/ ThrowStep
  \/ RethrowStep
  \/ ReturnStep

(* execute() is a loop that nothing preempts.                              *)
Spec == Init /\ [][Next]_vars /\ WF_vars(Next)
-----------------------------------------------------------------------------
(***************************************************************************)
(* The programs on which the two engines are expected to agree: a finally  *)
(* branch neither raises nor leaves, a local is not returned past a        *)
(* finally branch, and break and continue do not name a target inside the  *)
(* try statement whose finally branch is active.                           *)
(* p holds the number of active cleanups, those numbers where each loop    *)
(* and each target of break was entered, and whether this is a finally.    *)
(***************************************************************************)
Outermost == [cleanups |-> 0, loops |-> <<>>, breaks |-> <<>>, final |-> FALSE]
EnterLoop(p, label) ==
  [p EXCEPT !.loops = Append(@, [label |-> label, cleanups |-> p.cleanups]),
            !.breaks = Append(@, p.cleanups)]
EnterSwitch(p) == [p EXCEPT !.breaks = Append(@, p.cleanups)]
EnterTry(p, finally) == IF finally = Absent THEN p ELSE [p EXCEPT !.cleanups = @ + 1]
EnterFinally(p) == [p EXCEPT !.loops = <<>>, !.breaks = <<>>, !.final = TRUE]

Labelled(p, label) ==
  IF label = "" THEN p.loops ELSE SelectSeq(p.loops, LAMBDA l : l.label = label)

(* Cleanups that were active where the target was entered.                 *)
AtTarget(s, p) ==
  IF s.kind = "break" /\ s.label = "" THEN p.breaks
  ELSE [i \in DOMAIN Labelled(p, s.label) |-> Labelled(p, s.label)[i].cleanups]

RECURSIVE Structured(_, _)
Structured(s, p) ==
  CASE s.kind \in {"absent", "mark"} -> TRUE
    [] s.kind \in {"call", "throw"}  -> ~p.final
    [] s.kind = "return"             -> ~p.final /\ (s.of = "trace" => p.cleanups = 0)
    [] s.kind \in {"break", "continue"} ->
         AtTarget(s, p) # <<>> /\ (Last(AtTarget(s, p)) = 0 \/ p.cleanups = 0)
    [] s.kind = "block"              -> \A i \in DOMAIN s.list : Structured(s.list[i], p)
    [] s.kind = "if"                 -> Structured(s.then, p) /\ Structured(s.else, p)
    [] s.kind = "loop"               -> /\ Structured(s.body, EnterLoop(p, s.label))
                                        /\ Structured(s.increment, p)
    [] s.kind = "switch"             -> /\ Structured(s.arm, EnterSwitch(p))
                                        /\ Structured(s.default, EnterSwitch(p))
    [] s.kind = "try"                -> /\ Structured(s.body, EnterTry(p, s.finally))
                                        /\ Structured(s.catch, EnterTry(p, s.finally))
                                        /\ Structured(s.finally, EnterFinally(p))
-----------------------------------------------------------------------------
(* What verifyMir demands of every body lowering produces: each block ends *)
(* in a terminator, jumps stay inside, no region is empty.  A body it      *)
(* rejects is reported to the user as an internal compiler defect.         *)
Verified ==
  /\ \A i \in DOMAIN code.blocks :
       LET t == code.blocks[i].terminator IN
       /\ t.op # "open"
       /\ t.op = "goto" => t.target \in DOMAIN code.blocks
       /\ t.op = "branch" => {t.yes, t.no} \subseteq DOMAIN code.blocks
  /\ \A i \in DOMAIN code.regions :
       /\ code.regions[i].protected # {}
       /\ code.regions[i].protected \cup {code.regions[i].handler} \subseteq DOMAIN code.blocks

(* Regions nest and an inner one comes before the one around it, so that   *)
(* the first match unwindError finds is the innermost handler; no handler  *)
(* is protected by its own region, or an error in it would never leave.    *)
InnerRegionsFirst ==
  \A i, j \in DOMAIN code.regions :
    LET inner == code.regions[i].protected
        outer == code.regions[j].protected
    IN /\ i < j => inner \cap outer = {} \/ inner \subseteq outer
       /\ code.regions[i].handler \notin inner

(* The lowered function does what the tree-walk interpreter does: the same *)
(* marks in the same order and the same result or error, however its       *)
(* conditions and calls go.                                                *)
AgreesWithTreeWalk ==
  outcome # Running =>
    [trace |-> trace, outcome |-> outcome] = Invoke(program, decisions)

(* A function whose conditions turn false ends: no copy of a finally       *)
(* branch leads back into what it leaves.                                  *)
Ends == <>(outcome # Running)
=============================================================================
