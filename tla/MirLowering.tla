---------------------------- MODULE MirLowering ----------------------------
(***************************************************************************)
(* HirLowerer::lowerStatement (statement_lowering.cpp): statements become  *)
(* basic blocks, try statements become exception regions, and a finally    *)
(* branch is lowered once for every way out of its try statement.          *)
(*                                                                         *)
(* A builder b holds the blocks, the current one and the regions.  The     *)
(* stacks the code pushes and pops around a child (cleanups, loops,        *)
(* breaks) are the fields of the context c handed to it.                   *)
(***************************************************************************)
EXTENDS TreeWalk, SequencesExt

Open == [op |-> "open"]                     \* a block without terminator
Goto(target) == [op |-> "goto", target |-> target]
Branch(yes, no) == [op |-> "branch", yes |-> yes, no |-> no]
Return(of) == [op |-> "return", of |-> of]
ThrowOf(id) == [op |-> "throw", id |-> id]
Rethrow(handler) == [op |-> "rethrow", handler |-> handler]

EmptyBlock == [code |-> <<>>, terminator |-> Open]
NewBuilder == [blocks |-> <<EmptyBlock>>, current |-> 1, regions |-> <<>>]
NewContext == [cleanups |-> <<>>, loops |-> <<>>, breaks |-> <<>>]

Terminated(b) == b.blocks[b.current].terminator # Open
Emit(b, instruction) ==
  [b EXCEPT !.blocks[b.current].code = Append(@, instruction)]
Terminate(b, terminator) == [b EXCEPT !.blocks[b.current].terminator = terminator]
AddBlocks(b, n) == [b EXCEPT !.blocks = @ \o [i \in 1..n |-> EmptyBlock]]
At(b, block) == [b EXCEPT !.current = block]
FallTo(b, target) == IF Terminated(b) THEN b ELSE Terminate(b, Goto(target))
BlocksFrom(b, first) == first..Len(b.blocks)
(* Mutation of AddRegion: the region of an outer try statement comes first.*)
AddRegionInFront(b, protected, handler) ==
  [b EXCEPT !.regions = <<[protected |-> protected, handler |-> handler]>> \o @]

AddRegion(b, protected, handler) ==
  [b EXCEPT !.regions = Append(@, [protected |-> protected, handler |-> handler])]

(* loopTarget, breakTarget: the innermost loop with this label.            *)
LoopTarget(c, label) ==
  Last(IF label = "" THEN c.loops ELSE SelectSeq(c.loops, LAMBDA l : l.label = label))
BreakTarget(c, label) == IF label = "" THEN Last(c.breaks) ELSE LoopTarget(c, label).exit

(* Mutation of InLoop: continue goes to the body, past the condition.      *)
InLoopPastCondition(c, label, exit, continue) ==
  [c EXCEPT !.loops = Append(@, [label |-> label, exit |-> exit, continue |-> exit - 2]),
            !.breaks = Append(@, exit)]

InLoop(c, label, exit, continue) ==
  [c EXCEPT !.loops = Append(@, [label |-> label, exit |-> exit, continue |-> continue]),
            !.breaks = Append(@, exit)]
InSwitch(c, exit) == [c EXCEPT !.breaks = Append(@, exit)]
WithCleanup(c, finally) ==
  IF finally = Absent THEN c ELSE [c EXCEPT !.cleanups = Append(@, finally)]

RECURSIVE Lower(_, _, _), LowerAll(_, _, _), LowerActiveCleanups(_, _)

LowerAll(list, b, c) ==
  IF list = <<>> THEN b ELSE LowerAll(Tail(list), Lower(Head(list), b, c), c)

(* lowerActiveCleanups: every active finally branch, innermost first, each *)
(* with only those outside it active.                                      *)
LowerActiveCleanups(b, c) ==
  IF c.cleanups = <<>> \/ Terminated(b) THEN b
  ELSE LET outer == [c EXCEPT !.cleanups = Front(@)]
       IN LowerActiveCleanups(Lower(Last(c.cleanups), b, outer), outer)

(* Mutation of LowerExit: the cleanups are forgotten.                      *)
ExitWithoutCleanups(b, c, terminator) == Terminate(b, terminator)

(* return, break and continue: run the cleanups, then leave.               *)
LowerExit(b, c, terminator) ==
  LET cleaned == LowerActiveCleanups(b, c)
  IN IF Terminated(cleaned) THEN cleaned ELSE Terminate(cleaned, terminator)

LowerIf(s, b, c) ==
  LET n == Len(b.blocks)
      opened == Terminate(AddBlocks(b, 3), Branch(n + 1, n + 2))
      then == FallTo(Lower(s.then, At(opened, n + 1), c), n + 3)
      else == FallTo(Lower(s.else, At(then, n + 2), c), n + 3)
  IN At(else, n + 3)

(* HirLoopStatement; a while statement has no increment block.             *)
LowerLoop(s, b, c) ==
  LET n == Len(b.blocks)
      condition == n + 1
      body == n + 2
      increment == n + 3
      exit == n + 4
      entered == Terminate(AddBlocks(b, 4), Goto(condition))
      tested == Terminate(At(entered, condition), Branch(body, exit))
      looped == FallTo(Lower(s.body, At(tested, body), InLoop(c, s.label, exit, increment)),
                       increment)
      stepped == Terminate(Lower(s.increment, At(looped, increment), c), Goto(condition))
  IN At(stepped, exit)

(* A switch with one value arm and a default arm or none.                  *)
LowerSwitch(s, b, c) ==
  LET n == Len(b.blocks)
      exit == n + 1
      arm == n + 2
      default == n + 3
      test == n + 4
      entered == Terminate(AddBlocks(b, 4), Goto(test))
      tested == Terminate(At(entered, test), Branch(arm, default))
      first == FallTo(Lower(s.arm, At(tested, arm), InSwitch(c, exit)), exit)
      second == FallTo(Lower(s.default, At(first, default), InSwitch(c, exit)), exit)
  IN At(second, exit)

(* The finally branch at the end of a try or catch branch that completes,  *)
(* lowered into the block the branch ended in.                             *)
Complete(s, b, c, continuation) ==
  FallTo(Lower(s.finally, b, c), continuation)

(* The region of the catch branch, whose handler runs finally and throws   *)
(* the error on.                                                           *)
LowerRethrow(s, b, c, protected) ==
  LET handler == Len(b.blocks) + 1
      entered == At(AddRegion(AddBlocks(b, 1), protected, handler), handler)
      cleaned == Lower(s.finally, entered, c)
  IN IF Terminated(cleaned) THEN cleaned ELSE Terminate(cleaned, Rethrow(handler))

LowerCatch(s, b, c, handler, continuation) ==
  LET caught == Lower(s.catch, b, WithCleanup(c, s.finally))
      completed == Complete(s, caught, c, continuation)
  IN IF s.finally = Absent THEN completed
     ELSE LowerRethrow(s, completed, c, BlocksFrom(caught, handler))

LowerTry(s, b, c) ==
  LET continuation == Len(b.blocks) + 1
      entry == continuation + 1
      entered == At(Terminate(AddBlocks(b, 2), Goto(entry)), entry)
      tried == Lower(s.body, entered, WithCleanup(c, s.finally))
      completed == Complete(s, tried, c, continuation)
      handler == Len(completed.blocks) + 1
      handling == At(AddRegion(AddBlocks(completed, 1), BlocksFrom(tried, entry), handler),
                     handler)
      cleaned == Lower(s.finally, handling, c)
  IN At(IF s.catch # Absent THEN LowerCatch(s, handling, c, handler, continuation)
        ELSE IF Terminated(cleaned) THEN cleaned ELSE Terminate(cleaned, Rethrow(handler)),
        continuation)

Lower(s, b, c) ==
  IF Terminated(b) THEN b
  ELSE CASE s.kind = "absent"         -> b
         [] s.kind \in {"mark", "call"} -> Emit(b, s)
         [] s.kind = "throw"          -> Terminate(b, ThrowOf(s.id))
         [] s.kind = "return"         -> LowerExit(b, c, Return(s.of))
         [] s.kind = "break"          -> LowerExit(b, c, Goto(BreakTarget(c, s.label)))
         [] s.kind = "continue"       -> LowerExit(b, c, Goto(LoopTarget(c, s.label).continue))
         [] s.kind = "block"          -> LowerAll(s.list, b, c)
         [] s.kind = "if"             -> LowerIf(s, b, c)
         [] s.kind = "loop"           -> LowerLoop(s, b, c)
         [] s.kind = "switch"         -> LowerSwitch(s, b, c)
         [] s.kind = "try"            -> LowerTry(s, b, c)

(* Mutation of LowerFunction: finishFunction is forgotten.                 *)
FunctionWithoutReturn(body) == Lower(body, NewBuilder, NewContext)

(* lower of one function: a body that completes returns null.              *)
LowerFunction(body) ==
  LET b == Lower(body, NewBuilder, NewContext)
  IN IF Terminated(b) THEN b ELSE Terminate(b, Return("null"))
=============================================================================
