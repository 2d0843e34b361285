------------------------------ MODULE Grammar -------------------------------
(***************************************************************************)
(* The tokens of a syntax tree: the grammar of the language written from    *)
(* the tree's side, against which the parser is checked.  It has nothing of *)
(* the parser in it: an operand is put between parentheses when it binds    *)
(* less tightly than its place asks for, and an expression statement when   *)
(* its first token would open a statement or a declaration.                 *)
(***************************************************************************)
EXTENDS Syntax, Integers, SequencesExt

T(kind)  == <<Token(kind, "")>>
Id(name) == <<Token("Identifier", name)>>
Separated(seqs, sep) ==
    IF seqs = <<>> THEN <<>>
    ELSE FoldLeft(LAMBDA text, s : text \o T(sep) \o s, Head(seqs), Tail(seqs))
Joined(seqs) == FlattenSeq(seqs)
Each(list, P(_)) == [i \in DOMAIN list |-> P(list[i])]

Precedence(op) ==
    CASE op = "OrOr" -> 1
      [] op = "AndAnd" -> 2
      [] op \in {"EqualEqual", "BangEqual"} -> 3
      [] op \in {"Less", "LessEqual", "Greater", "GreaterEqual"} -> 4
      [] op \in {"Plus", "Minus"} -> 5
      [] op \in {"Star", "Slash", "Percent"} -> 6
Binding(e) ==
    CASE e.k = "Assign" -> 0
      [] e.k = "Binary" -> Precedence(e.op)
      [] e.k \in {"Unary", "AwaitExpr"} -> 7
      [] e.k \in {"Call", "Member", "Index"} -> 8
      [] OTHER -> 9
Opens == {"If", "LeftBrace", "Var", "Const", "Fn", "Class", "While", "Loop", "Switch", "Try",
          "Throw", "Return", "Break", "Continue", "Import", "Export", "Intf"}
TypeKind(name) ==
    CASE name = "int" -> "IntType" [] name = "float" -> "FloatType" [] name = "num" -> "NumType"
      [] name = "str" -> "StrType" [] name = "char" -> "CharType" [] name = "bool" -> "BoolType"
      [] name = "void" -> "VoidType" [] name = "any" -> "AnyType" [] name = "null" -> "Null"
      [] OTHER -> "Identifier"
LiteralToken(e) ==
    IF e.kind = "Bool" THEN <<Token(IF e.lexeme = "true" THEN "True" ELSE "False", e.lexeme)>>
    ELSE <<Token(e.kind, e.lexeme)>>

(* The one recursive operator: TypeOf, ExprOf or StmtOf.                      *)
RECURSIVE Written(_, _, _)
TypeTokens(t)  == Written("type", t, 0)
Expr(e, least) == Written("expression", e, least)
Stmt(s)        == Written("statement", s, 0)
TypeOf(t) ==
    <<Token(TypeKind(t.name), t.name)>>
    \o (IF t.typeArgs = <<>> THEN <<>>
        ELSE T("Less") \o Separated(Each(t.typeArgs, TypeTokens), "Comma") \o T("Greater"))
    \o (IF t.nullable THEN T("Question") ELSE <<>>)
    \o Joined(Each(t.unionTypes, LAMBDA u : T("Pipe") \o TypeTokens(u)))
List(args) == Separated(Each(args, LAMBDA a : Expr(a, 0)), "Comma")
InParentheses(text) == T("LeftParen") \o text \o T("RightParen")
Alone(e) ==
    CASE e.k = "Literal"   -> LiteralToken(e)
      [] e.k = "Variable"  -> Id(e.name)
      [] e.k = "SelfExpr"  -> T("Self")
      [] e.k = "SuperExpr" -> T("Super")
      [] e.k = "Unary"     -> T(e.op) \o Expr(e.right, 7)
      [] e.k = "AwaitExpr" -> T("Await") \o Expr(e.operand, 7)
      [] e.k = "Binary"    -> Expr(e.left, Precedence(e.op)) \o T(e.op)
                              \o Expr(e.right, Precedence(e.op) + 1)
      [] e.k = "Assign"    -> Expr(e.target, 1) \o T("Equal") \o Expr(e.value, 0)
      [] e.k = "Call"      -> Expr(e.callee, 8) \o T("LeftParen") \o List(e.args)
                              \o T("RightParen")
      [] e.k = "Member"    -> Expr(e.object, 8) \o T("Dot") \o Id(e.name)
      [] e.k = "Index"     -> Expr(e.object, 8) \o T("LeftBracket") \o Expr(e.index, 0)
                              \o T("RightBracket")
      [] e.k = "ArrayExpr" -> T("LeftBracket") \o List(e.elements) \o T("RightBracket")
      [] e.k = "NewExpr"   -> T("New") \o Id(e.className) \o T("LeftParen")
                              \o List(e.args) \o T("RightParen")
      [] e.k = "ObjectExpr" ->
           T("LeftBrace")
           \o Separated(Each(e.fields, LAMBDA f : Id(f.name) \o T("Colon")
                                                  \o Expr(f.value, 0)), "Comma")
           \o T("RightBrace")
      [] e.k = "IfExpr"    -> T("If") \o T("LeftParen") \o Expr(e.condition, 0)
                              \o T("RightParen") \o Stmt(e.thenBranch) \o T("Else")
                              \o Stmt(e.elseBranch)
      [] e.k = "MatchExpr" ->
           T("Match") \o T("LeftParen") \o Expr(e.subject, 0) \o T("RightParen")
           \o T("LeftBrace")
           \o Joined(Each(e.arms, LAMBDA a :
                  (IF a.wildcard THEN Id("_") ELSE Expr(a.pattern, 0))
                  \o T("FatArrow") \o Expr(a.value, 0) \o T("Semicolon")))
           \o T("RightBrace")
ExprOf(e, least) == IF Binding(e) < least THEN InParentheses(Alone(e)) ELSE Alone(e)
(* An expression in the place of a statement.                               *)
Apart(text)  == IF text[1].k \in Opens THEN InParentheses(text) ELSE text
Standing(e)  == Apart(Expr(e, 0))

Optional(e, before, P(_)) == IF e = NoNode THEN <<>> ELSE before \o P(e)
Params(ps) == T("LeftParen")
              \o Separated(Each(ps, LAMBDA p : Id(p.name) \o T("Colon") \o TypeTokens(p.type)),
                           "Comma")
              \o T("RightParen")
Result(f) == IF f.hasReturnType THEN T("Colon") \o TypeTokens(f.returnType) ELSE <<>>
Mods(m)   == Joined(Each(m, T))
Clauses(s) ==
    IF s.initializer = NoNode /\ s.condition = NoNode /\ s.increment = NoNode THEN <<>>
    ELSE T("LeftParen")
         \o (IF s.initializer = NoNode THEN T("Semicolon") ELSE Stmt(s.initializer))
         \o Optional(s.condition, <<>>, LAMBDA e : Expr(e, 0)) \o T("Semicolon")
         \o Optional(s.increment, <<>>, LAMBDA e : Expr(e, 0)) \o T("RightParen")
Function(f, word, last) ==
    Mods(f.modifiers) \o word \o Params(f.params) \o Result(f) \o last
InterfaceTokens(d) ==
    T("Intf") \o Id(d.name)
    \o (IF d.typeParams = <<>> THEN <<>>
        ELSE T("Less") \o Separated(Each(d.typeParams, Id), "Comma") \o T("Greater"))
    \o (IF d.parents = <<>> THEN <<>>
        ELSE T("Extends") \o Separated(Each(d.parents, TypeTokens), "Comma"))
    \o T("LeftBrace")
    \o Joined(Each(d.fields, LAMBDA f :
           Id(f.name) \o (IF f.name \in d.optionalFields THEN T("Question") ELSE <<>>)
           \o T("Colon") \o TypeTokens(f.type) \o T("Semicolon")))
    \o Joined(Each(d.methods, LAMBDA m : Id(m.name) \o Params(m.params) \o Result(m)
                                         \o T("Semicolon")))
    \o Joined(Each(d.callSignatures, LAMBDA c :
           Params(c.params) \o T("Colon") \o TypeTokens(c.returnType) \o T("Semicolon")))
    \o Joined(Each(d.indexSignatures, LAMBDA x :
           T("LeftBracket") \o Id(x.keyName) \o T("Colon") \o TypeTokens(x.keyType)
           \o T("RightBracket") \o T("Colon") \o TypeTokens(x.valueType) \o T("Semicolon")))
    \o T("RightBrace")
ClassTokens(c) ==
    Mods(c.modifiers) \o T("Class") \o Id(c.name)
    \o (IF c.parent = "" THEN <<>> ELSE T("Extends") \o Id(c.parent))
    \o (IF c.interfaces = <<>> THEN <<>>
        ELSE T("Implements") \o Separated(Each(c.interfaces, TypeTokens), "Comma"))
    \o T("LeftBrace")
    \o Joined(Each(c.fields, LAMBDA f :
           Mods(f.modifiers) \o Id(f.name) \o T("Colon") \o TypeTokens(f.type)
           \o Optional(f.initializer, T("Equal"), LAMBDA e : Expr(e, 0)) \o T("Semicolon")))
    \o Joined(Each(c.methods, LAMBDA m :
           Function(m, IF m.name = "init" THEN T("Init") ELSE T("Fn") \o Id(m.name),
                    IF m.body = NoNode THEN T("Semicolon") ELSE Stmt(m.body))))
    \o T("RightBrace")
Specifiers(list) ==
    T("LeftBrace")
    \o Separated(Each(list, LAMBDA n : IF n.imported = n.local THEN Id(n.local)
                                       ELSE Id(n.imported) \o T("As") \o Id(n.local)), "Comma")
    \o T("RightBrace")
ImportTokens(d) ==
    LET path == <<Token("String", d.path)>> IN
    T("Import")
    \o (CASE d.namespace # "" -> T("Star") \o T("As") \o Id(d.namespace) \o T("From") \o path
          [] d.namespace = "" /\ d.default # "" ->
               Id(d.default)
               \o (IF d.named = <<>> THEN <<>> ELSE T("Comma") \o Specifiers(d.named))
               \o T("From") \o path
          [] d.namespace = "" /\ d.default = "" /\ d.named # <<>> ->
               Specifiers(d.named) \o T("From") \o path
          [] OTHER -> path \o T("As") \o Id(d.alias))
    \o T("Semicolon")
Jump(word, label) == T(word) \o (IF label = "" THEN <<>> ELSE Id(label)) \o T("Semicolon")
Plainly(s) ==
    CASE s.k = "VarDecl" ->
           T(IF s.mutableBinding THEN "Var" ELSE "Const") \o Id(s.name)
           \o (IF s.hasType THEN T("Colon") \o TypeTokens(s.type) ELSE <<>>)
           \o Optional(s.initializer, T("Equal"), LAMBDA e : Expr(e, 0)) \o T("Semicolon")
      [] s.k = "ExprStmt"  -> Standing(s.expression) \o T("Semicolon")
      [] s.k = "BlockStmt" -> T("LeftBrace") \o Joined(Each(s.statements, Stmt))
                              \o Optional(s.tail, <<>>, Standing) \o T("RightBrace")
      [] s.k = "IfStmt"    -> T("If") \o T("LeftParen") \o Expr(s.condition, 0)
                              \o T("RightParen") \o Stmt(s.thenBranch)
                              \o Optional(s.elseBranch, T("Else"), Stmt)
      [] s.k = "WhileStmt" -> T("While") \o T("LeftParen") \o Expr(s.condition, 0)
                              \o T("RightParen") \o Stmt(s.body)
      [] s.k = "LoopStmt"  -> (IF s.label = "" THEN <<>> ELSE Id(s.label) \o T("Colon"))
                              \o T("Loop") \o Clauses(s) \o Stmt(s.body)
      [] s.k = "SwitchStmt" ->
           T("Switch") \o T("LeftParen") \o Expr(s.subject, 0) \o T("RightParen")
           \o T("LeftBrace")
           \o Joined(Each(s.cases, LAMBDA c :
                  (IF c.isDefault THEN T("Default") ELSE T("Case") \o Expr(c.value, 0))
                  \o T("Colon") \o Stmt(c.body)))
           \o T("RightBrace")
      [] s.k = "BreakStmt"    -> Jump("Break", s.label)
      [] s.k = "ContinueStmt" -> Jump("Continue", s.label)
      [] s.k = "ReturnStmt"   -> T("Return") \o Optional(s.value, <<>>, LAMBDA e : Expr(e, 0))
                                 \o T("Semicolon")
      [] s.k = "ThrowStmt"    -> T("Throw") \o Expr(s.value, 0) \o T("Semicolon")
      [] s.k = "TryStmt" ->
           T("Try") \o Stmt(s.tryBranch)
           \o Optional(s.catchBranch, T("Catch") \o T("LeftParen") \o Id(s.catchName)
                                      \o T("RightParen"), Stmt)
           \o Optional(s.finallyBranch, T("Finally"), Stmt)
      [] s.k = "FunctionDecl"  -> Function(s, T("Fn") \o Id(s.name), Stmt(s.body))
      [] s.k = "ClassDecl"     -> ClassTokens(s)
      [] s.k = "InterfaceDecl" -> InterfaceTokens(s)
      [] s.k = "ImportDecl"    -> ImportTokens([alias |-> s.alias, path |-> s.path,
                                    default |-> s.defaultName, named |-> s.named,
                                    namespace |-> s.namespaceAlias])
      [] s.k = "ExportDecl"    -> T("Export") \o T("LeftBrace")
                                  \o Separated(Each(s.names, Id), "Comma")
                                  \o T("RightBrace") \o T("Semicolon")
StmtOf(s) ==
    (IF s.k \in Named /\ s.exported
     THEN T("Export") \o (IF s.isDefault THEN T("Default") ELSE <<>>) ELSE <<>>)
    \o Plainly(s)

Written(kind, n, least) ==
    CASE kind = "type"       -> TypeOf(n)
      [] kind = "expression" -> ExprOf(n, least)
      [] kind = "statement"  -> StmtOf(n)

(* The tokens of a module, and where each of its declarations ends.          *)
Tokens(program) == Joined(Each(program, Stmt)) \o T("End")
Ends(program)   == [n \in 0..Len(program) |-> Len(Joined(Each(SubSeq(program, 1, n), Stmt)))]
=============================================================================
