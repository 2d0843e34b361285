----------------------------- MODULE TreeWalk ------------------------------
(***************************************************************************)
(* The statements of Kyna and their meaning in the tree-walk interpreter   *)
(* (Interpreter::exec, statement_executor.cpp), which the repository calls *)
(* the compatibility reference.                                            *)
(*                                                                         *)
(* Expressions are abstracted to what control can observe of them: a mark  *)
(* appends to the local variable trace, a call may raise an error, and a   *)
(* condition is a decision.  Decisions come from a sequence of Booleans    *)
(* fixed from outside; when it is used up, every condition is false and    *)
(* every call succeeds.                                                    *)
(***************************************************************************)
EXTENDS Naturals, Sequences

Absent == [kind |-> "absent"]           \* no else, catch, finally, increment
Mark(id) == [kind |-> "mark", id |-> id]
Call(id) == [kind |-> "call", id |-> id]
Throw(id) == [kind |-> "throw", id |-> id]
ReturnConstant == [kind |-> "return", of |-> "constant"]
ReturnLocal == [kind |-> "return", of |-> "trace"]
Break(label) == [kind |-> "break", label |-> label]
Continue(label) == [kind |-> "continue", label |-> label]
Block(list) == [kind |-> "block", list |-> list]
If(then, else) == [kind |-> "if", then |-> then, else |-> else]
Loop(label, body, increment) ==
  [kind |-> "loop", label |-> label, body |-> body, increment |-> increment]
Switch(arm, default) == [kind |-> "switch", arm |-> arm, default |-> default]
Try(body, catch, finally) ==
  [kind |-> "try", body |-> body, catch |-> catch, finally |-> finally]

(***************************************************************************)
(* The state of an execution.  flow is the interpreter's member of that    *)
(* name, with a C++ exception in flight as one more kind of it.            *)
(***************************************************************************)
NoFlow == [kind |-> "none"]
ThrowFlow(id) == [kind |-> "throw", value |-> <<id>>]
ReturnFlow(value) == [kind |-> "return", value |-> value]
Constant == <<"constant">>
Null == <<"null">>

Start(decisions) == [trace |-> <<>>, flow |-> NoFlow, decisions |-> decisions]

Decision(st) == st.decisions # <<>> /\ Head(st.decisions)
Decided(st) == [st EXCEPT !.decisions = IF @ = <<>> THEN @ ELSE Tail(@)]
WithFlow(st, flow) == [st EXCEPT !.flow = flow]
Normal(st) == WithFlow(st, NoFlow)

(* A break or continue that this loop consumes.                            *)
Targets(flow, kind, loop) == flow.kind = kind /\ flow.label \in {"", loop.label}

RECURSIVE Exec(_, _), ExecAll(_, _), Iterate(_, _)

(* execBlock: statements in order until one leaves a flow.                 *)
ExecAll(list, st) ==
  IF list = <<>> \/ st.flow # NoFlow THEN st
  ELSE ExecAll(Tail(list), Exec(Head(list), st))

(* One look at the condition of a loop, its body, and what the flow the    *)
(* body left means to this loop.                                           *)
Iterate(loop, st) ==
  LET after == Exec(loop.body, Decided(st)) IN
  IF ~Decision(st) THEN Decided(st)
  ELSE IF Targets(after.flow, "break", loop) THEN Normal(after)
  ELSE IF after.flow = NoFlow \/ Targets(after.flow, "continue", loop)
       THEN LET next == Exec(loop.increment, Normal(after))
            IN IF next.flow = NoFlow THEN Iterate(loop, next) ELSE next
  ELSE after

(* catch takes an error of the try branch; finally runs on whatever flow   *)
(* was left and, unless it leaves one of its own, restores that flow.      *)
ExecTry(s, st) ==
  LET tried == Exec(s.body, st)
      caught == IF tried.flow.kind = "throw" /\ s.catch # Absent
                THEN Exec(s.catch, Normal(tried)) ELSE tried
      final == Exec(s.finally, Normal(caught))
  IN IF final.flow = NoFlow THEN WithFlow(final, caught.flow) ELSE final

ExecSwitch(s, st) ==
  LET after == Exec(IF Decision(st) THEN s.arm ELSE s.default, Decided(st))
  IN IF after.flow.kind = "break" /\ after.flow.label = "" THEN Normal(after) ELSE after

Exec(s, st) ==
  CASE s.kind = "absent"   -> st
    [] s.kind = "mark"     -> [st EXCEPT !.trace = Append(@, s.id)]
    [] s.kind = "call"     -> IF Decision(st) THEN WithFlow(Decided(st), ThrowFlow(s.id))
                              ELSE Decided(st)
    [] s.kind = "throw"    -> WithFlow(st, ThrowFlow(s.id))
    [] s.kind = "return"   -> WithFlow(st, ReturnFlow(IF s.of = "trace" THEN st.trace
                                                      ELSE Constant))
    [] s.kind \in {"break", "continue"} -> WithFlow(st, s)
    [] s.kind = "block"    -> ExecAll(s.list, st)
    [] s.kind = "if"       -> Exec(IF Decision(st) THEN s.then ELSE s.else, Decided(st))
    [] s.kind = "loop"     -> Iterate(s, st)
    [] s.kind = "switch"   -> ExecSwitch(s, st)
    [] s.kind = "try"      -> ExecTry(s, st)

(* Interpreter::invoke: what a function with this body comes to.           *)
Invoke(body, decisions) ==
  LET end == Exec(body, Start(decisions))
  IN [trace |-> end.trace,
      outcome |-> IF end.flow.kind \in {"return", "throw"} THEN end.flow
                  ELSE ReturnFlow(Null)]
=============================================================================
