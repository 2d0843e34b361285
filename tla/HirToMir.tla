------------------------------ MODULE HirToMir ------------------------------
(***************************************************************************)
(* Lowering of HIR to MIR (class HirLowerer, kyna_mir).  Its member          *)
(* variables are the record m that every lowering function takes and        *)
(* returns, with the temporary of its result in t.  fault is set where the   *)
(* code looks up a capture that is not there (captureIndexes.at throws) or  *)
(* takes the last of no break targets (undefined behaviour).                *)
(***************************************************************************)
EXTENDS HirProgram, MirProgram, SequencesExt, FiniteSetsExt, TLC

NullValue == [kind |-> "Null", v |-> "null"]
BoolValue(b) == [kind |-> "Bool", v |-> IF b THEN "true" ELSE "false"]
nothing   == [n \in {} |-> 0]
(* activate: a body to lower into; breaks is the one member it leaves alone.  *)
activate(m, body) ==
    [m EXCEPT !.body = body, !.current = 1, !.locals = nothing, !.captureIndexes = nothing,
              !.loops = <<>>, !.cleanups = <<>>]
HirLowerer(hir) ==
    [hir |-> hir, functions |-> <<>>, body |-> MirFunction("", 0, <<>>), current |-> 1,
     locals |-> nothing, captureIndexes |-> nothing, loops |-> <<>>, breaks |-> <<>>,
     cleanups |-> <<>>, fault |-> FALSE, t |-> 0]

give(m, t)    == [m EXCEPT !.t = t]
temporary(m)  == [m EXCEPT !.body.temporaryCount = @ + 1, !.t = m.body.temporaryCount + 1]
terminated(m) == m.body.blocks[m.current].terminator # NoTerminator
emit(m, i) ==
    [m EXCEPT !.body.blocks[m.current].instructions = Append(@, i), !.t = i.destination]
compute(m, kind, first, second) ==
    LET d == temporary(m) IN emit(d, Instruction(kind, d.t, first, second))
move(m, target, source) == emit(m, Instruction("Move", target, source, 0))
constant(m, value) ==
    LET d == temporary(m)
    IN  emit(d, [Instruction("Constant", d.t, 0, 0) EXCEPT !.constant = value])
terminate(m, terminator) == [m EXCEPT !.body.blocks[m.current].terminator = terminator]
finally(m, terminator)   == IF terminated(m) THEN m ELSE terminate(m, terminator)
addBlocks(m, n) == [m EXCEPT !.body.blocks = @ \o [b \in 1..n |-> BasicBlock]]
nextBlock(m)    == Len(m.body.blocks) + 1
at(m, block)    == [m EXCEPT !.current = block]
finishFunction(m) ==
    IF terminated(m) THEN m
    ELSE LET c == constant(m, NullValue) IN terminate(c, ReturnTerminator(c.t))
captureIndex(m, local) ==
    IF local \in DOMAIN m.captureIndexes THEN m.captureIndexes[local] ELSE 0
faultUnless(ok, m) == [m EXCEPT !.fault = @ \/ ~ok]

Operation == [Plus |-> "Add", Minus |-> "Subtract", Star |-> "Multiply", Slash |-> "Divide",
              Percent |-> "Remainder", EqualEqual |-> "Equal", BangEqual |-> "NotEqual",
              Less |-> "Less", LessEqual |-> "LessEqual", Greater |-> "Greater",
              GreaterEqual |-> "GreaterEqual"]

-----------------------------------------------------------------------------
(* Expressions.  An invocation allocates its result before its operands when  *)
(* "into" says so, after them otherwise.  lowerNode, the one recursive        *)
(* operator, is lowerExpression or lowerStatement.                           *)
RECURSIVE lowerNode(_, _, _)
lowerExpression(e, m) == lowerNode("expression", e, m)
lowerStatement(s, m)  == lowerNode("statement", s, m)
operands(list, m) ==
    FoldLeft(LAMBDA d, e : LET x == lowerExpression(e, d.m) IN [m |-> x, ts |-> Append(d.ts, x.t)],
             [m |-> m, ts |-> <<>>], list)
into(list, m, Build(_, _)) ==
    LET target == temporary(m)
        o == operands(list, target)
    IN  emit(o.m, Build(target.t, o.ts))
after(list, m, Build(_, _)) ==
    LET o == operands(list, m)
        target == temporary(o.m)
    IN  emit(target, Build(target.t, o.ts))

lowerLocal(e, m) ==
    LET d == temporary(m)
        i == [Instruction("LoadCapture", d.t, 0, 0) EXCEPT !.capture = captureIndex(m, e.local)]
    IN  IF e.local \in DOMAIN m.locals THEN give(m, m.locals[e.local])
        ELSE faultUnless(e.local \in DOMAIN m.captureIndexes, emit(d, i))
(* The operand that short-circuits decides which block the branch takes first *)
yield(v, target, end) == terminate(move(v, target, v.t), GotoTerminator(end))
negated(m) == compute(m, "Not", m.t, 0)
shortCircuit(e, condition, m) ==
    LET isAnd == e.op = "AndAnd"
        right == nextBlock(m)
        short == right + 1
        b == terminate(addBlocks(m, 3), BranchTerminator(condition, IF isAnd THEN right ELSE short,
                                                         IF isAnd THEN short ELSE right))
        c == yield(constant(at(b, short), BoolValue(~isAnd)), m.t, right + 2)
        r == negated(negated(lowerExpression(e.right, at(c, right))))
    IN  give(at(yield(r, m.t, right + 2), right + 2), m.t)
lowerAndOr(e, m) ==
    LET left == lowerExpression(e.left, m) IN shortCircuit(e, left.t, temporary(left))
ifOf(e, condition, m) ==
    LET yes == nextBlock(m)
        Value(d, value) == IF terminated(d) THEN d
                           ELSE yield(lowerExpression(value, d), m.t, yes + 2)
        Arm(d, block, prelude, value) == Value(lowerStatement(prelude, at(d, block)), value)
        b == terminate(addBlocks(m, 3), BranchTerminator(condition, yes, yes + 1))
    IN  give(at(Arm(Arm(b, yes, e.thenPrelude, e.thenValue), yes + 1, e.elsePrelude, e.elseValue),
                yes + 2), m.t)
lowerIfExpression(e, m) ==
    LET c == lowerExpression(e.condition, m) IN ifOf(e, c.t, temporary(c))
(* d.done: an arm without a pattern has ended the match.                      *)
matchOf(e, subject, m) ==
    LET end == nextBlock(m)
        Value(value, d) == yield(lowerExpression(value, d), m.t, end)
        Test(value, matches, block) ==
            at(Value(value, at(terminate(addBlocks(matches, 2),
                                         BranchTerminator(matches.t, block, block + 1)), block)),
               block + 1)
        Compare(value, matches) == Test(value, matches, nextBlock(matches))
        Equal(pattern) == compute(pattern, "Equal", subject, pattern.t)
        Arm(d, arm) ==
            IF d.done THEN d
            ELSE IF arm.pattern = NoNode THEN [m |-> Value(arm.value, d.m), done |-> TRUE]
            ELSE [d EXCEPT !.m = Compare(arm.value, Equal(lowerExpression(arm.pattern, d.m)))]
        Unmatched(d) == IF d.done \/ terminated(d.m) THEN d.m
                        ELSE yield(constant(d.m, NullValue), m.t, end)
    IN  give(at(Unmatched(FoldLeft(Arm, [m |-> addBlocks(m, 1), done |-> FALSE], e.arms)), end),
             m.t)
lowerMatchExpression(e, m) ==
    LET s == lowerExpression(e.subject, m) IN matchOf(e, s.t, temporary(s))
lowerClosure(e, m) ==
    LET target   == temporary(m)
        captures == m.hir.functions[e.function].captures
        sources  == [n \in DOMAIN captures |->
            IF captures[n] \in DOMAIN m.locals
            THEN CaptureSource("Local", m.locals[captures[n]])
            ELSE CaptureSource("Capture", captureIndex(m, captures[n]))]
    IN  faultUnless(Range(captures) \subseteq DOMAIN m.locals \cup DOMAIN m.captureIndexes,
            emit(target, [Instruction("Closure", target.t, 0, 0) EXCEPT
                              !.function = e.function, !.sources = sources]))
lowerAssignLocal(e, m) ==
    LET s == lowerExpression(e.value, m)
    IN  IF e.local \in DOMAIN s.locals THEN move(s, s.locals[e.local], s.t)
        ELSE faultUnless(e.local \in DOMAIN s.captureIndexes,
                 emit(s, [Instruction("StoreCapture", s.t, s.t, 0) EXCEPT
                              !.capture = captureIndex(s, e.local)]))
lowerInvocation(e, m) ==
    CASE e.k = "AssignIndex"  -> into(<<e.object, e.index, e.value>>, m, LAMBDA t, ts :
             [Instruction("StoreIndex", t, 0, 0) EXCEPT !.arguments = ts])
      [] e.k = "AssignMember" -> into(<<e.object, e.value>>, m, LAMBDA t, ts :
             [Instruction("StoreMember", t, 0, 0) EXCEPT
                  !.arguments = ts, !.constant = NameConstant(e.member)])
      [] e.k = "HirMember"    -> into(<<e.object>>, m, LAMBDA t, ts :
             [Instruction("LoadMember", t, ts[1], 0) EXCEPT !.constant = NameConstant(e.member)])
      [] e.k = "BoundMethod"  -> into(<<e.receiver>>, m, LAMBDA t, ts :
             [Instruction("BindMethod", t, ts[1], 0) EXCEPT !.function = e.function])
      [] e.k = "NativeCall"   -> into(e.arguments, m, LAMBDA t, ts :
             [Instruction("CallNative", t, 0, 0) EXCEPT
                  !.arguments = ts, !.constant = NameConstant(e.name)])
      [] e.k = "HirIndex"     -> into(<<e.object, e.index>>, m, LAMBDA t, ts :
             Instruction("LoadIndex", t, ts[1], ts[2]))
      [] e.k = "HirArray"     -> into(e.elements, m, LAMBDA t, ts :
             [Instruction("MakeArray", t, 0, 0) EXCEPT !.arguments = ts])
      [] e.k = "HirObject"    -> into(e.values, m, LAMBDA t, ts :
             [Instruction("MakeObject", t, 0, 0) EXCEPT !.arguments = ts, !.names = e.names])
      [] e.k = "New"          -> into(e.arguments, m, LAMBDA t, ts :
             [Instruction("MakeInstance", t, 0, 0) EXCEPT
                  !.arguments = ts, !.function = e.class])
      [] e.k = "Closure"      -> lowerClosure(e, m)
      [] e.k = "AssignLocal"  -> lowerAssignLocal(e, m)
      [] e.k = "HirCall"      -> after(e.arguments, m, LAMBDA t, ts :
             [Instruction("Call", t, 0, 0) EXCEPT !.arguments = ts, !.function = e.function])
      [] e.k = "IndirectCall" -> after(<<e.callee>> \o e.arguments, m, LAMBDA t, ts :
             [Instruction("CallIndirect", t, ts[1], 0) EXCEPT !.arguments = Tail(ts)])

expressionOf(e, m) ==
    LET UnaryOf(kind, x) == LET o == lowerExpression(x, m) IN compute(o, kind, o.t, 0)
    IN  CASE e.k = "Constant"  -> constant(m, e.value)
          [] e.k = "Local"     -> lowerLocal(e, m)
          [] e.k = "FunctionReference" ->
                 LET d == temporary(m)
                 IN  emit(d, [Instruction("FunctionReference", d.t, 0, 0) EXCEPT
                                  !.function = e.function])
          [] e.k = "HirUnary"  -> UnaryOf(IF e.op = "Minus" THEN "Negate" ELSE "Not", e.operand)
          [] e.k = "HirAwait"  -> UnaryOf("Move", e.operand)
          [] e.k = "HirBinary" ->
                 IF e.op \in {"AndAnd", "OrOr"} THEN lowerAndOr(e, m)
                 ELSE after(<<e.left, e.right>>, m, LAMBDA t, ts :
                                Instruction(Operation[e.op], t, ts[1], ts[2]))
          [] e.k = "HirIf"     -> lowerIfExpression(e, m)
          [] e.k = "HirMatch"  -> lowerMatchExpression(e, m)
          [] OTHER             -> lowerInvocation(e, m)

-----------------------------------------------------------------------------
(* Statements.  Nothing is lowered into a block that has its terminator.      *)
LoopContext(label, breakTarget, continueTarget) ==
    [label |-> label, breakTarget |-> breakTarget, continueTarget |-> continueTarget]
loopTarget(m, label) ==
    LET labelled == {n \in DOMAIN m.loops : m.loops[n].label = label}
    IN  m.loops[IF label = "" \/ labelled = {} THEN Len(m.loops) ELSE Max(labelled)]
breakTarget(m, label) ==
    IF label # "" THEN loopTarget(m, label).breakTarget
    ELSE IF m.breaks = <<>> THEN 0 ELSE Last(m.breaks)
(* A jump out of the enclosing try statements runs their finally branches,    *)
(* innermost first, each without itself and the ones inside it to run again.  *)
leave(m, terminator) ==
    LET run == FoldLeft(LAMBDA d, n : IF terminated(d) THEN d
                   ELSE lowerStatement(m.cleanups[n],
                            [d EXCEPT !.cleanups = SubSeq(m.cleanups, 1, n - 1)]),
                        m, Reverse([n \in DOMAIN m.cleanups |-> n]))
    IN  [finally(run, terminator) EXCEPT !.cleanups = m.cleanups]
optional(s, m)  == IF s = NoNode THEN m ELSE lowerStatement(s, m)
withCleanup(s, cleanup, m) ==
    [lowerStatement(s, [m EXCEPT !.cleanups = IF cleanup = NoNode THEN @ ELSE Append(@, cleanup)])
        EXCEPT !.cleanups = m.cleanups]

lowerBindLocal(s, m) ==
    LET d == temporary(m)
        v == lowerExpression(s.initializer, [d EXCEPT !.locals = (s.local :> d.t) @@ @])
    IN  move(v, d.t, v.t)
lowerIf(s, m) ==
    LET c == lowerExpression(s.condition, m)
        yes == nextBlock(c)
        b == terminate(addBlocks(c, 3), BranchTerminator(c.t, yes, yes + 1))
        Branch(d, block, branch) == finally(optional(branch, at(d, block)), GotoTerminator(yes + 2))
    IN  at(Branch(Branch(b, yes, s.thenBranch), yes + 1, s.elseBranch), yes + 2)
(* The blocks of a loop: its condition, its body, its increment if it has    *)
(* one (a while does not), its exit.                                         *)
lowerLoopBody(s, m, hasIncrement) ==
    LET condition == nextBlock(m)
        body == condition + 1
        exit == condition + IF hasIncrement THEN 3 ELSE 2
        next == IF hasIncrement THEN condition + 2 ELSE condition
        entered == terminate(addBlocks(m, IF hasIncrement THEN 4 ELSE 3),
                             GotoTerminator(condition))
        c == lowerExpression(s.condition, at(entered, condition))
        inside == [terminate(c, BranchTerminator(c.t, body, exit)) EXCEPT
                      !.loops = Append(@, LoopContext(s.label, exit, next)),
                      !.breaks = Append(@, exit)]
        b == [lowerStatement(s.body, at(inside, body)) EXCEPT
                 !.loops = c.loops, !.breaks = c.breaks]
        again == finally(b, GotoTerminator(next))
        i == at(again, next)
        n == IF s.increment = NoNode THEN i ELSE lowerExpression(s.increment, i)
    IN  at(IF hasIncrement THEN terminate(n, GotoTerminator(condition)) ELSE again, exit)
lowerWhile(s, m) ==
    lowerLoopBody([condition |-> s.condition, body |-> s.body, label |-> s.label,
                   increment |-> NoNode], m, FALSE)
lowerLoop(s, m) ==
    LET i == optional(s.initializer, m)
    IN  IF terminated(i) THEN i ELSE lowerLoopBody(s, i, TRUE)
(* The subject is compared with the value of one arm after the other; an arm  *)
(* that does not match goes to the next test, the last to the default arm.    *)
switchOf(s, subject, m) ==
    LET arms    == Len(s.cases)
        tested  == SelectSeq([n \in 1..arms |-> n], LAMBDA n : s.cases[n].value # NoNode)
        default == {n \in 1..arms : s.cases[n].value = NoNode}
        end     == nextBlock(m)
        test(n) == end + arms + n
        otherwise == IF default = {} THEN end ELSE end + Max(default)
        Compare(e, n) == terminate(e, BranchTerminator(e.t, end + tested[n],
                                          IF n < Len(tested) THEN test(n + 1) ELSE otherwise))
        Equal(v, n) == Compare(compute(v, "Equal", subject, v.t), n)
        Test(d, n) == Equal(lowerExpression(s.cases[tested[n]].value, at(d, test(n))), n)
        entered == terminate(addBlocks(m, 1 + arms + Len(tested)),
                             GotoTerminator(IF tested = <<>> THEN otherwise ELSE test(1)))
        Bodies(d) == FoldLeft(LAMBDA b, n : finally(lowerStatement(s.cases[n].body, at(b, end + n)),
                                                    GotoTerminator(end)),
                              [d EXCEPT !.breaks = Append(@, end)], [n \in 1..arms |-> n])
    IN  at([Bodies(FoldLeft(Test, entered, [n \in DOMAIN tested |-> n])) EXCEPT
                !.breaks = m.breaks], end)
lowerSwitch(s, m) ==
    LET subject == temporary(m)
        value   == lowerExpression(s.subject, subject)
    IN  switchOf(s, subject.t, move(value, subject.t, value.t))
(* The try branch, and with a finally branch the catch branch too, is a       *)
(* protected region: the blocks added since its first.                       *)
protect(m, first, last) ==
    LET error   == temporary(m)
        handler == nextBlock(error)
    IN  at([addBlocks(error, 1) EXCEPT !.body.regions = Append(@,
                Region(first..last, handler, error.t))], handler)
complete(s, end, m) ==
    finally(IF terminated(m) THEN m ELSE optional(s.finallyBranch, m), GotoTerminator(end))
rethrow(s, end, m) == at(finally(lowerStatement(s.finallyBranch, m), ThrowTerminator(m.t)), end)
caught(s, end, handler, m) ==
    IF s.finallyBranch = NoNode THEN at(complete(s, end, m), end)
    ELSE rethrow(s, end, protect(complete(s, end, m), handler, Len(m.body.blocks)))
handle(s, end, m) ==
    IF s.catchBranch = NoNode
    THEN at(finally(optional(s.finallyBranch, m), ThrowTerminator(m.t)), end)
    ELSE caught(s, end, m.current,
                withCleanup(s.catchBranch, s.finallyBranch,
                            [m EXCEPT !.locals = (s.catchLocal :> m.t) @@ @]))
tried(s, end, m) ==
    handle(s, end, protect(complete(s, end, m), end + 1, Len(m.body.blocks)))
lowerTry(s, m) ==
    LET end == nextBlock(m)
    IN  tried(s, end, withCleanup(s.tryBranch, s.finallyBranch,
                  at(terminate(addBlocks(m, 2), GotoTerminator(end + 1)), end + 1)))

statementOf(s, m) ==
    LET Value(x) == lowerExpression(x, m)
    IN  CASE s.k = "BindLocal" -> lowerBindLocal(s, m)
          [] s.k = "Evaluate"  -> Value(s.expression)
          [] s.k = "HirReturn" ->
                 LET v == Value(s.expression) IN leave(v, ReturnTerminator(v.t))
          [] s.k = "HirBlock"  -> FoldLeft(LAMBDA d, x : lowerStatement(x, d), m, s.statements)
          [] s.k = "HirIfStatement" -> lowerIf(s, m)
          [] s.k = "HirWhile"  -> lowerWhile(s, m)
          [] s.k = "HirLoop"   -> lowerLoop(s, m)
          [] s.k = "HirBreak"  ->
                 leave(faultUnless(s.label # "" \/ m.breaks # <<>>, m),
                       GotoTerminator(breakTarget(m, s.label)))
          [] s.k = "HirContinue" ->
                 leave(m, GotoTerminator(loopTarget(m, s.label).continueTarget))
          [] s.k = "HirThrow"  ->
                 LET v == Value(s.value) IN terminate(v, ThrowTerminator(v.t))
          [] s.k = "HirSwitch" -> lowerSwitch(s, m)
          [] s.k = "HirTry"    -> lowerTry(s, m)
(* Nothing is lowered after a fault.                                         *)
lowerNode(kind, n, m) ==
    IF m.fault \/ (kind = "statement" /\ terminated(m)) THEN m
    ELSE IF kind = "expression" THEN expressionOf(n, m) ELSE statementOf(n, m)

-----------------------------------------------------------------------------
(* lower: the body of the module, then every function.                       *)
finished(m) == [m EXCEPT !.functions = Append(@, m.body)]
lowerFunction(m, f) ==
    LET a == activate(m, MirFunction(f.name, Len(f.parameters), f.captures))
        b == [a EXCEPT !.captureIndexes =
                 [l \in Range(f.captures) |-> Max({n \in DOMAIN f.captures : f.captures[n] = l})]]
        c == FoldLeft(LAMBDA d, l : LET t == temporary(d)
                                    IN  [t EXCEPT !.locals = (l :> t.t) @@ @], b, f.parameters)
    IN  IF m.fault THEN m
        ELSE finished(finishFunction(
                 lowerStatement(IF f.body = NoNode THEN m.hir.first ELSE f.body, c)))
mirProgram(body, m) == [fault |-> m.fault, mir |-> MirProgram(body, m.functions, m.hir.classes)]
lowerFunctions(module) ==
    mirProgram(module.body, FoldLeft(lowerFunction, module, module.hir.functions))
lowerHirToMir(hir) ==
    lowerFunctions(finishFunction(FoldLeft(LAMBDA d, s : lowerStatement(s, d),
        activate(HirLowerer(hir), MirFunction("<module>", 0, <<>>)), hir.body)))
=============================================================================
