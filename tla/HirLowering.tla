----------------------------- MODULE HirLowering ----------------------------
(***************************************************************************)
(* Lowering of the syntax tree to HIR (class SyntaxLowerer, kyna_hir).  Its  *)
(* member variables are the record h that every lowering function takes and *)
(* returns, with its result in t; NoNode there is a lowering that gave up,  *)
(* after a diagnostic.  fault is set where the code dereferences a null     *)
(* statement.                                                              *)
(***************************************************************************)
EXTENDS HirProgram, Integers, SequencesExt, FiniteSetsExt, TLC

CONSTANTS
  NativeFunctions,        \* HirLoweringOptions::nativeFunctions
  NativeMemberFunctions,  \* a record: namespace -> member -> native
  LiteralValues           \* what stoll, stod and decodeQuotedLiteral make of a lexeme

NullConstant  == [kind |-> "Null", v |-> "null"]
constantOf(literal) ==
    [kind |-> literal.kind, v |-> IF literal.lexeme \in DOMAIN LiteralValues
                                  THEN LiteralValues[literal.lexeme] ELSE literal.lexeme]
noScope == [names |-> [n \in {} |-> 0], nested |-> [n \in {} |-> 0]]
Lowerer ==
    [functions |-> <<>>, classes |-> <<>>, body |-> <<>>, functionIds |-> [n \in {} |-> 0],
     classIds |-> [n \in {} |-> 0], owners |-> <<>>, responses |-> <<>>, scopes |-> <<noScope>>,
     current |-> 0, self |-> 0, class |-> 0, labels |-> <<>>, switchDepth |-> 0,
     diagnostics |-> <<>>, first |-> NoNode, fault |-> FALSE, t |-> NoNode]

give(h, node)     == [h EXCEPT !.t = node]
giveIf(ok, h, node) == give(h, IF ok THEN node ELSE NoNode)
addStatement(h, s) == [h EXCEPT !.t = s, !.first = IF @ = NoNode THEN s ELSE @]
report(h, code)   == [h EXCEPT !.diagnostics = Append(@, code)]
unsupported(h)    == give(report(h, "KHIR1201"), NoNode)

pushScope(h)  == [h EXCEPT !.scopes = Append(@, noScope)]
popScope(h)   == [h EXCEPT !.scopes = Front(@)]
addNamedLocal(h, name) ==
    [h EXCEPT !.owners = Append(@, h.current), !.responses = Append(@, FALSE),
              !.scopes[Len(h.scopes)].names = (name :> Len(h.owners) + 1) @@ @]
lastLocal(h) == Len(h.owners)
findLocal(h, name) ==
    LET in == {i \in DOMAIN h.scopes : name \in DOMAIN h.scopes[i].names}
    IN  IF in = {} THEN 0 ELSE h.scopes[Max(in)].names[name]
(* Mutation: a local of the module is taken for a global.                    *)
captureUnlessGlobal(h, local) ==
    IF h.current = 0 \/ h.owners[local] = 0 THEN h
    ELSE IF h.owners[local] = h.current \/ Contains(h.functions[h.current].captures, local)
    THEN h ELSE [h EXCEPT !.functions[h.current].captures = Append(@, local)]
captureIfNeeded(h, local) ==
    IF h.current = 0 THEN h
    ELSE IF h.owners[local] = h.current \/ Contains(h.functions[h.current].captures, local)
    THEN h ELSE [h EXCEPT !.functions[h.current].captures = Append(@, local)]
useLocal(h, local) == give(captureIfNeeded(h, local), Local(local))

(* The calls whose result answers json() and text().                         *)
isFetchCall(e) ==
    LET call == IF e.k = "AwaitExpr" THEN e.operand ELSE e
    IN  /\ call.k = "Call" /\ call.callee.k = "Variable" /\ call.callee.name = "fetch"
isResponseExpression(h, e) ==
    \/ isFetchCall(e)
    \/ /\ e.k = "Variable" /\ findLocal(h, e.name) # 0
       /\ h.responses[findLocal(h, e.name)]
hasLoopTarget(h, label) ==
    h.labels # <<>> /\ (label = "" \/ Contains(h.labels, label))
hasBreakTarget(h, label) ==
    IF label # "" THEN hasLoopTarget(h, label) ELSE h.labels # <<>> \/ h.switchDepth > 0

(* The functions of a block get their numbers and their names before its     *)
(* first statement is lowered.                                               *)
predeclareNestedFunctions(statements, h) ==
    LET Predeclare(g, f) ==
            IF f.name \in DOMAIN Last(g.scopes).names THEN report(g, "KHIR1102")
            ELSE LET a == addNamedLocal([g EXCEPT !.functions = Append(@, HirFunction(f.name))],
                                        f.name)
                 IN  [a EXCEPT !.scopes[Len(a.scopes)].nested =
                         (f.name :> [function |-> Len(a.functions), local |-> lastLocal(a)]) @@ @]
    IN  FoldLeft(Predeclare, h, SelectSeq(statements, LAMBDA s : s.k = "FunctionDecl"))

-----------------------------------------------------------------------------
(* The one recursive operator: lowerExpression or lowerStatement.  Nothing is  *)
(* lowered after a fault.                                                    *)
RECURSIVE lowerNode(_, _, _)
lowerExpression(e, h) == lowerNode("expression", e, h)
lowerStatement(s, h)  == lowerNode("statement", s, h)
(* Several expressions from left to right, up to the first that fails.       *)
addValue(ts, x) == [h |-> x, ts |-> Append(ts, x.t), ok |-> x.t # NoNode]
lowerAll(list, h) ==
    FoldLeft(LAMBDA d, e : IF d.ok THEN addValue(d.ts, lowerExpression(e, d.h)) ELSE d,
             [h |-> h, ts |-> <<>>, ok |-> TRUE], list)
(* Both operands are lowered even when the first one fails.                  *)
pair(x, y, Node(_, _)) == giveIf(x.t # NoNode /\ y.t # NoNode, y, Node(x.t, y.t))
lowerPair(a, b, h, Node(_, _)) ==
    LET x == lowerExpression(a, h) IN pair(x, lowerExpression(b, x), Node)
(* The statements of a block; one that fails is left out.                    *)
addUnlessFailed(ts, x) ==
    [h |-> x, ts |-> IF x.t = NoNode THEN ts ELSE Append(ts, x.t)]
lowerStatements(list, h) ==
    FoldLeft(LAMBDA d, s : addUnlessFailed(d.ts, lowerStatement(s, d.h)),
             [h |-> h, ts |-> <<>>], list)
scopedStatements(statements, h) ==
    lowerStatements(statements, predeclareNestedFunctions(statements, pushScope(h)))
valueBlock(statements, v) ==
    IF v.t = NoNode THEN [h |-> popScope(v), ok |-> FALSE, prelude |-> NoNode, value |-> NoNode]
    ELSE LET s == addStatement(popScope(v), HirBlock(statements))
         IN  [h |-> s, ok |-> TRUE, prelude |-> s.t, value |-> v.t]
valueAfter(tail, d) == valueBlock(d.ts, lowerExpression(tail, d.h))
lowerValueBlock(block, h) == valueAfter(block.tail, scopedStatements(block.statements, h))

lowerVariable(n, h) ==
    CASE findLocal(h, n.name) # 0 -> useLocal(h, findLocal(h, n.name))
      [] findLocal(h, n.name) = 0 /\ n.name \in DOMAIN h.functionIds ->
             give(h, FunctionReference(h.functionIds[n.name]))
      [] OTHER -> unsupported(h)
(* super.name is bound to the nearest ancestor's method when it is lowered.  *)
RECURSIVE parentMethods(_, _, _)
parentMethods(h, cursor, name) ==
    IF cursor = 0 THEN <<>>
    ELSE SelectSeq(h.classes[cursor].methods, LAMBDA m : m.name = name)
         \o parentMethods(h, h.classes[cursor].parent, name)
lowerMember(n, h) ==
    LET parent == IF h.self = 0 \/ h.class = 0 THEN 0 ELSE h.classes[h.class].parent
        methods == parentMethods(h, parent, n.name)
        o == lowerExpression(n.object, h)
    IN  CASE n.object.k = "SuperExpr" /\ methods = <<>> -> unsupported(h)
          [] n.object.k = "SuperExpr" /\ methods # <<>> ->
                 give(captureIfNeeded(h, h.self), BoundMethod(Local(h.self), methods[1].function))
          [] OTHER -> giveIf(o.t # NoNode, o, HirMember(o.t, n.name))
lowerCall(n, h) ==
    LET args    == lowerAll(n.args, h)
        g       == args.h
        c       == n.callee
        named   == c.k = "Variable" /\ findLocal(g, c.name) = 0
        member  == c.k = "Member"
        answer  == member /\ c.name \in {"json", "text"} /\ isResponseExpression(g, c.object)
        receiver == lowerExpression(c.object, g)
        spaced  == /\ member /\ ~answer /\ c.object.k = "Variable"
                   /\ c.object.name \in DOMAIN NativeMemberFunctions
                   /\ c.name \in DOMAIN NativeMemberFunctions[c.object.name]
        callee  == lowerExpression(c, g)
    IN  CASE ~args.ok -> give(g, NoNode)
          [] args.ok /\ answer ->
                 giveIf(receiver.t # NoNode, receiver,
                        NativeCall(IF c.name = "json" THEN "responseJson" ELSE "responseText",
                                   <<receiver.t>> \o args.ts))
          [] args.ok /\ spaced ->
                 give(g, NativeCall(NativeMemberFunctions[c.object.name][c.name], args.ts))
          [] args.ok /\ named /\ c.name \in NativeFunctions \ DOMAIN g.functionIds ->
                 give(g, NativeCall(c.name, args.ts))
          [] args.ok /\ named /\ c.name \in DOMAIN g.functionIds ->
                 give(g, HirCall(g.functionIds[c.name], args.ts))
          [] OTHER -> giveIf(callee.t # NoNode, callee, IndirectCall(callee.t, args.ts))
lowerNew(n, h) ==
    LET args == lowerAll(n.args, h)
    IN  IF n.className \notin DOMAIN h.classIds THEN unsupported(h)
        ELSE giveIf(args.ok, args.h, New(h.classIds[n.className], args.ts))
(* The value is lowered before the object and the index it is assigned to.    *)
lowerAssign(n, h) ==
    LET v == lowerExpression(n.value, h)
        local == findLocal(h, n.target.name)
        o == lowerExpression(n.target.object, v)
    IN  CASE v.t = NoNode -> v
          [] v.t # NoNode /\ n.target.k = "Index" ->
                 lowerPair(n.target.object, n.target.index, v,
                           LAMBDA object, key : AssignIndex(object, key, v.t))
          [] v.t # NoNode /\ n.target.k = "Member" ->
                 giveIf(o.t # NoNode, o, AssignMember(o.t, n.target.name, v.t))
          [] v.t # NoNode /\ n.target.k = "Variable" ->
                 IF local = 0 THEN unsupported(v)
                 ELSE give(captureIfNeeded(v, local), AssignLocal(local, v.t))
          [] OTHER -> unsupported(v)
ifOf(c, yes, no) ==
    giveIf(c.t # NoNode /\ yes.ok /\ no.ok, no.h,
           HirIf(c.t, yes.prelude, yes.value, no.prelude, no.value))
elseOf(n, c, yes) == ifOf(c, yes, lowerValueBlock(n.elseBranch, yes.h))
thenOf(n, c)      == elseOf(n, c, lowerValueBlock(n.thenBranch, c))
lowerIfExpr(n, h) == thenOf(n, lowerExpression(n.condition, h))
lowerMatch(n, h) ==
    LET s == lowerExpression(n.subject, h)
        Arm(d, arm) ==
            LET p == IF arm.wildcard THEN give(d.h, NoNode) ELSE lowerExpression(arm.pattern, d.h)
                v == lowerExpression(arm.value, p)
            IN  IF ~d.ok THEN d
                ELSE [h |-> v, ok |-> (arm.wildcard \/ p.t # NoNode) /\ v.t # NoNode,
                      ts |-> Append(d.ts, HirArm(p.t, v.t))]
        arms == FoldLeft(Arm, [h |-> s, ts |-> <<>>, ok |-> s.t # NoNode], n.arms)
    IN  giveIf(arms.ok, arms.h, HirMatch(s.t, arms.ts))

Operators == {"Plus", "Minus", "Star", "Slash", "Percent", "EqualEqual", "BangEqual", "Less",
              "LessEqual", "Greater", "GreaterEqual", "AndAnd", "OrOr"}
expressionOf(e, h) ==
    LET Operand(x, Node(_)) == LET o == lowerExpression(x, h) IN giveIf(o.t # NoNode, o, Node(o.t))
        List(xs, Node(_)) == LET a == lowerAll(xs, h) IN giveIf(a.ok, a.h, Node(a.ts))
    IN  CASE e.k = "None"      -> give(h, Constant(NullConstant))
          [] e.k = "Literal"   -> give(h, Constant(constantOf(e)))
          [] e.k = "Variable"  -> lowerVariable(e, h)
          [] e.k = "SelfExpr"  -> IF h.self = 0 THEN unsupported(h) ELSE useLocal(h, h.self)
          [] e.k = "SuperExpr" -> unsupported(h)
          [] e.k = "Unary"     -> IF e.op \notin {"Minus", "Bang"} THEN unsupported(h)
                                  ELSE Operand(e.right, LAMBDA x : HirUnary(e.op, x))
          [] e.k = "AwaitExpr" -> Operand(e.operand, LAMBDA x : HirAwait(x))
          [] e.k = "Call"      -> lowerCall(e, h)
          [] e.k = "Binary"    -> IF e.op \notin Operators THEN unsupported(h)
                                  ELSE lowerPair(e.left, e.right, h,
                                                 LAMBDA l, r : HirBinary(l, e.op, r))
          [] e.k = "Member"    -> lowerMember(e, h)
          [] e.k = "Index"     -> lowerPair(e.object, e.index, h, LAMBDA o, i : HirIndex(o, i))
          [] e.k = "ArrayExpr" -> List(e.elements, LAMBDA xs : HirArray(xs))
          [] e.k = "NewExpr"   -> lowerNew(e, h)
          [] e.k = "ObjectExpr" ->
                 List([i \in DOMAIN e.fields |-> e.fields[i].value],
                      LAMBDA xs : HirObject([i \in DOMAIN e.fields |-> e.fields[i].name], xs))
          [] e.k = "Assign"    -> lowerAssign(e, h)
          [] e.k = "IfExpr"    -> lowerIfExpr(e, h)
          [] e.k = "MatchExpr" -> lowerMatch(e, h)

-----------------------------------------------------------------------------
(* A function gets the scopes it stands in when it is nested, a fresh stack   *)
(* otherwise; what it captures and does not own its parent captures too.     *)
captureTogether(h, id) == FoldLeft(captureIfNeeded, h, h.functions[id].captures)
leaveFunction(id, outer, b) ==
    captureTogether([b EXCEPT !.functions[id].body = IF b.t = NoNode THEN @ ELSE b.t,
                         !.current = outer.current, !.self = outer.self, !.class = outer.class,
                         !.labels = outer.labels, !.scopes = outer.scopes], id)
lowerFunction(id, f, preserveOuterScopes, owningClass, h) ==
    LET fresh == owningClass = 0 /\ ~preserveOuterScopes
        entry == [h EXCEPT !.labels = <<>>, !.current = id,
                     !.scopes = Append(IF preserveOuterScopes THEN @ ELSE <<>>, noScope),
                     !.self = IF fresh THEN 0 ELSE @,
                     !.class = IF owningClass # 0 THEN owningClass ELSE IF fresh THEN 0 ELSE @]
        Parameter(g, name) ==
            LET a == addNamedLocal(g, name)
            IN  [a EXCEPT !.functions[id].parameters = Append(@, lastLocal(a))]
        receiver == IF owningClass = 0 THEN entry
                    ELSE LET r == Parameter(entry, "self") IN [r EXCEPT !.self = lastLocal(r)]
    IN  leaveFunction(id, h, lowerStatement(f.body,
            FoldLeft(LAMBDA g, p : Parameter(g, p.name), receiver, f.params)))

lowerScoped(s, h) == popScope(lowerStatement(s, pushScope(h)))
(* A branch that need not be there: NoNode for one that is not.              *)
optionally(s, h, Lower(_, _)) == IF s = NoNode THEN give(h, NoNode) ELSE Lower(s, h)
failed(s, h) == s # NoNode /\ h.t = NoNode
inLoop(label, body, h, Lower(_, _)) ==
    [Lower(body, [h EXCEPT !.labels = Append(@, label)]) EXCEPT !.labels = h.labels]

blockOf(statements, v) ==
    IF v.t = NoNode THEN addStatement(popScope(v), HirBlock(statements))
    ELSE LET e == addStatement(v, Evaluate(v.t))
         IN  addStatement(popScope(e), HirBlock(Append(statements, e.t)))
tailOf(tail, d)  == blockOf(d.ts, optionally(tail, d.h, lowerExpression))
lowerBlock(s, h) == tailOf(s.tail, scopedStatements(s.statements, h))
lowerVarDecl(s, h) ==
    LET i == lowerExpression(s.initializer, h)
        a == addNamedLocal(i, s.name)
    IN  IF i.t = NoNode THEN i
        ELSE addStatement([a EXCEPT !.responses[lastLocal(a)] = isFetchCall(s.initializer)],
                          BindLocal(lastLocal(a), i.t))
lowerIf(s, h) ==
    LET c == lowerExpression(s.condition, h)
        yes == lowerScoped(s.thenBranch, c)
        no  == optionally(s.elseBranch, yes, lowerScoped)
    IN  IF c.t = NoNode \/ yes.t = NoNode \/ failed(s.elseBranch, no) THEN give(no, NoNode)
        ELSE addStatement(no, HirIfStatement(c.t, yes.t, no.t))
lowerWhile(s, h) ==
    LET c == lowerExpression(s.condition, h)
        b == inLoop(s.label, s.body, c, lowerScoped)
    IN  IF c.t = NoNode \/ b.t = NoNode THEN give(b, NoNode)
        ELSE addStatement(b, HirWhile(c.t, b.t, s.label))
lowerLoop(s, h) ==
    LET i == optionally(s.initializer, pushScope(h), lowerStatement)
        c == IF s.condition = NoNode THEN give(i, Constant([kind |-> "Bool", v |-> "true"]))
             ELSE lowerExpression(s.condition, i)
        n == optionally(s.increment, c, lowerExpression)
        b == popScope(inLoop(s.label, s.body, n, lowerStatement))
    IN  IF failed(s.initializer, i) \/ c.t = NoNode \/ failed(s.increment, n) \/ b.t = NoNode
        THEN give(b, NoNode) ELSE addStatement(b, HirLoop(i.t, c.t, n.t, b.t, s.label))
lowerSwitch(s, h) ==
    LET subject == lowerExpression(s.subject, h)
        Arm(d, arm) ==
            LET v == optionally(arm.value, d.h, lowerExpression)
                b == lowerScoped(arm.body, v)
            IN  IF ~d.ok THEN d
                ELSE IF failed(arm.value, v) THEN [d EXCEPT !.h = v, !.ok = FALSE]
                ELSE [h |-> b, ok |-> b.t # NoNode, ts |-> Append(d.ts, HirCase(v.t, b.t))]
        arms == FoldLeft(Arm, [h |-> [subject EXCEPT !.switchDepth = @ + 1], ok |-> TRUE,
                               ts |-> <<>>], s.cases)
        done == [arms.h EXCEPT !.switchDepth = @ - 1]
    IN  IF subject.t = NoNode \/ ~arms.ok THEN give(done, NoNode)
        ELSE addStatement(done, HirSwitch(subject.t, arms.ts))
lowerTry(s, h) ==
    LET t == lowerScoped(s.tryBranch, h)
        scoped == addNamedLocal(pushScope(t), s.catchName)
        c == IF s.catchBranch = NoNode THEN give(t, NoNode)
             ELSE popScope(lowerStatement(s.catchBranch, scoped))
        f == optionally(s.finallyBranch, c, lowerScoped)
    IN  IF t.t = NoNode \/ failed(s.catchBranch, c) \/ failed(s.finallyBranch, f)
        THEN give(f, NoNode)
        ELSE addStatement(f, HirTry(t.t, IF s.catchBranch = NoNode THEN 0 ELSE lastLocal(scoped),
                                    c.t, f.t))
lowerNestedFunction(s, h) ==
    IF s.name \notin DOMAIN Last(h.scopes).nested THEN unsupported(h)
    ELSE LET ids == Last(h.scopes).nested[s.name]
             once == [h EXCEPT !.scopes[Len(h.scopes)].nested =
                         [n \in DOMAIN @ \ {s.name} |-> @[n]]]
         IN  addStatement(lowerFunction(ids.function, s, TRUE, 0, once),
                          BindLocal(ids.local, Closure(ids.function)))

statementOf(s, h) ==
    LET Value(x, Node(_)) ==
            LET v == lowerExpression(x, h)
            IN  IF v.t = NoNode THEN v ELSE addStatement(v, Node(v.t))
    IN  CASE s.k = "None"         -> give([h EXCEPT !.fault = TRUE], NoNode)
          [] s.k = "VarDecl"      -> lowerVarDecl(s, h)
          [] s.k = "ExprStmt"     -> Value(s.expression, LAMBDA v : Evaluate(v))
          [] s.k = "ReturnStmt"   -> Value(s.value, LAMBDA v : HirReturn(v))
          [] s.k = "ThrowStmt"    -> Value(s.value, LAMBDA v : HirThrow(v))
          [] s.k = "BlockStmt"    -> lowerBlock(s, h)
          [] s.k = "IfStmt"       -> lowerIf(s, h)
          [] s.k = "WhileStmt"    -> lowerWhile(s, h)
          [] s.k = "LoopStmt"     -> lowerLoop(s, h)
          [] s.k = "SwitchStmt"   -> lowerSwitch(s, h)
          [] s.k = "BreakStmt"    -> IF hasBreakTarget(h, s.label)
                                     THEN addStatement(h, HirBreak(s.label)) ELSE unsupported(h)
          [] s.k = "ContinueStmt" -> IF hasLoopTarget(h, s.label)
                                     THEN addStatement(h, HirContinue(s.label)) ELSE unsupported(h)
          [] s.k = "TryStmt"      -> lowerTry(s, h)
          [] s.k = "FunctionDecl" -> lowerNestedFunction(s, h)
          [] s.k = "ImportDecl"   -> give(h, NoNode)
          [] s.k \in {"ClassDecl", "InterfaceDecl", "ExportDecl"} -> unsupported(h)
lowerNode(kind, n, h) ==
    IF h.fault THEN h
    ELSE IF kind = "expression" THEN expressionOf(n, h) ELSE statementOf(n, h)

-----------------------------------------------------------------------------
(* lower: numbers for every function, class and method of the module, then    *)
(* the parents, the bodies of the functions, of the methods, of the module.  *)
enter(h, s) ==
    LET taken == DOMAIN h.functionIds \cup DOMAIN h.classIds
        f == [h EXCEPT !.functions = Append(@, HirFunction(s.name)),
                       !.functionIds = (s.name :> Len(h.functions) + 1) @@ @]
        class == HirClass(s.name, [i \in DOMAIN s.fields |-> s.fields[i].name])
        Method(g, m) ==
            LET id == Len(g.functions) + 1
                at == Len(g.classes)
                a == [g EXCEPT !.functions = Append(@, HirFunction(s.name \o "." \o m.name))]
            IN  IF m.name = "init" THEN [a EXCEPT !.classes[at].constructor = id]
                ELSE [a EXCEPT !.classes[at].methods = Append(@, HirMethod(m.name, id))]
    IN  CASE s.k \notin {"FunctionDecl", "ClassDecl"} -> h
          [] s.k \in {"FunctionDecl", "ClassDecl"} /\ s.name \in taken -> report(h, "KHIR1101")
          [] s.k = "FunctionDecl" /\ s.name \notin taken -> f
          [] s.k = "ClassDecl" /\ s.name \notin taken ->
                 FoldLeft(Method, [h EXCEPT !.classes = Append(@, class),
                                      !.classIds = (s.name :> Len(h.classes) + 1) @@ @],
                          s.methods)
setParent(h, s) ==
    IF s.k = "ClassDecl" /\ {s.name, s.parent} \subseteq DOMAIN h.classIds
    THEN [h EXCEPT !.classes[h.classIds[s.name]].parent = h.classIds[s.parent]] ELSE h
(* A method is found again by its name: the last one of that name.            *)
lowerMethods(h, s) ==
    LET id == h.classIds[s.name]
        Named_(m) == SelectSeq(h.classes[id].methods, LAMBDA x : x.name = m.name)
        Number(m) == IF m.name = "init" THEN h.classes[id].constructor
                     ELSE Last(Named_(m)).function
    IN  FoldLeft(LAMBDA g, m : lowerFunction(Number(m), m, FALSE, id, g), h, s.methods)
declared(program) == FoldLeft(setParent, FoldLeft(enter, Lowerer, program), program)
lowerFunctions(program, h) ==
    FoldLeft(LAMBDA g, s : lowerFunction(g.functionIds[s.name], s, FALSE, 0, g), h,
             SelectSeq(program, LAMBDA s : s.k = "FunctionDecl"))
lowerClasses(program, h) ==
    FoldLeft(lowerMethods, h, SelectSeq(program, LAMBDA s : s.k = "ClassDecl"))
lowerModule(program, h) ==
    lowerStatements(SelectSeq(program, LAMBDA s : s.k \notin {"ImportDecl", "FunctionDecl",
                                                   "ClassDecl", "InterfaceDecl"}),
                    [h EXCEPT !.scopes = <<noScope>>])
withBody(d) == [d.h EXCEPT !.body = d.ts]
lowerDeclared(program, h) ==
    IF h.diagnostics # <<>> THEN h
    ELSE withBody(lowerModule(program, lowerClasses(program, lowerFunctions(program, h))))
lower(program) == lowerDeclared(program, declared(program))
=============================================================================
