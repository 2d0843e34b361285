------------------------------- MODULE Parser -------------------------------
(***************************************************************************)
(* The recursive-descent parser of kyna_parsing over the tokens of one      *)
(* module.  Each operator below is the member function of Parser with the   *)
(* same name, as a function of the position it is called at; its result is  *)
(* the node and the position after it, or the diagnostic of the KynaError   *)
(* that leaves it and the position the parser is left at.  A run of         *)
(* consume and nonterminal calls is a shape, read left to right by parts.   *)
(* parseRecovering is a state machine: one step per declaration parsed or   *)
(* recovered from.                                                          *)
(***************************************************************************)
EXTENDS Syntax, Integers, SequencesExt

VARIABLES
    tokens,         \* the tokens of the module, the last one is End
    current,        \* index of the next token
    seenNonImport,  \* a declaration other than an import has been started
    declarations,   \* module.declarations
    exports,        \* module.exports
    diagnostics,    \* the codes of the errors, in order
    incomplete      \* a token was wanted where the input ends

parserVars == <<tokens, current, seenNonImport, declarations, exports, diagnostics,
                incomplete>>

Ok(v, i)           == [ok |-> TRUE, v |-> v, i |-> i]
Fail(code, i, end) == [ok |-> FALSE, code |-> code, i |-> i, end |-> end]
Then(r, F(_, _))   == IF r.ok THEN F(r.v, r.i) ELSE r
Build(r, F(_))     == IF r.ok THEN Ok(F(r.v), r.i) ELSE r

check(kind, i) == tokens[i].k = kind

(* consume: the lexeme of a token that carries one is a value of the shape. *)
Carries == {"Identifier", "String"}
consume(kind, i) ==
    IF check(kind, i)
    THEN Ok(IF kind \in Carries THEN <<tokens[i].x>> ELSE <<>>, i + 1)
    ELSE Fail("K2000", i, check("End", i))

ModifierKinds == {"Public", "Private", "Protected", "Static", "Override", "Final", "Abstract"}
TypeKinds == {"Identifier", "IntType", "FloatType", "NumType", "StrType", "CharType",
              "BoolType", "Null", "VoidType", "AnyType"}
LiteralKinds == {"Int", "Float", "String", "Char"}
ByLevel == << {"OrOr"}, {"AndAnd"}, {"EqualEqual", "BangEqual"},
              {"Less", "LessEqual", "Greater", "GreaterEqual"}, {"Plus", "Minus"},
              {"Star", "Slash", "Percent"} >>
StatementStarts == {"If", "While", "Loop", "Switch", "Break", "Continue", "Return", "Throw",
                    "Try", "LeftBrace"}

(* An import path or a literal keeps its lexeme; the quotes are no part of a *)
(* token's lexeme here, so that cutting them off is the identity.           *)
modifiers(i) ==
    LET after == CHOOSE j \in i..Len(tokens) :
                     /\ \A m \in i..(j - 1) : tokens[m].k \in ModifierKinds
                     /\ tokens[j].k \notin ModifierKinds
    IN  Ok(<<[m \in 1..(after - i) |-> tokens[i + m - 1].k]>>, after)

RECURSIVE node(_, _), shape(_, _), part(_, _), items(_, _), level(_, _), chain(_, _, _),
          postfix(_, _), arms(_), body(_, _), cases(_, _), typeArgs(_, _), unions(_, _),
          members(_, _), interfaceMembers(_, _), specifiers(_)

shape(parts, i) ==
    IF parts = <<>> THEN Ok(<<>>, i)
    ELSE Then(part(Head(parts), i), LAMBDA v, j :
              Build(shape(Tail(parts), j), LAMBDA rest : v \o rest))

(* do { item } while (match(Comma)), and the same behind a check that the    *)
(* closing token does not come first.                                       *)
items(kind, i) ==
    Then(part(kind, i), LAMBDA v, j :
         IF check("Comma", j)
         THEN Build(items(kind, j + 1), LAMBDA rest : v \o rest)
         ELSE Ok(v, j))
itemsUnless(close, kind, i) ==
    IF check(close, i) THEN Ok(<<<<>>>>, i)
    ELSE Build(items(kind, i), LAMBDA list : <<list>>)
optional(kind, rest, i) ==
    IF check(kind, i) THEN shape(rest, i + 1) ELSE Ok(<<NoNode>>, i)

(* The nonterminals of a shape; node calls one by its name, and the grammar   *)
(* is recursive through these calls.                                         *)
Nodes == {"expression", "block", "typeRef"}
One(r) == Build(r, LAMBDA v : <<v>>)
part(p, i) ==
    CASE p \in Nodes       -> One(node(p, i))
      [] p = "modifiers"   -> modifiers(i)
      [] p = "arguments"   -> itemsUnless("RightParen", "expression", i)
      [] p = "elements"    -> itemsUnless("RightBracket", "expression", i)
      [] p = "fields"      -> itemsUnless("RightBrace", "field", i)
      [] p = "parameters"  -> itemsUnless("RightParen", "param", i)
      [] p = "param"       -> Build(shape(<<"Identifier", "Colon", "typeRef">>, i),
                                    LAMBDA v : <<Param(v[1], v[2])>>)
      [] p = "field"       -> Build(shape(<<IF check("String", i) THEN "String"
                                            ELSE "Identifier", "Colon", "expression">>, i),
                                    LAMBDA v : <<ObjectField(v[1], v[2])>>)
      [] p = "annotation"  -> optional("Colon", <<"typeRef">>, i)
      [] p = "initializer" -> optional("Equal", <<"expression">>, i)
      [] p = "arms"        -> One(arms(i))
      [] p = "cases"       -> One(cases(i, FALSE))
      [] p = "specifiers"  -> One(specifiers(i))
      [] OTHER             -> consume(p, i)

-----------------------------------------------------------------------------
(* Expressions.  ByLevel lists the binary operators from the loosest level   *)
(* (logicOr) to the tightest (factor); every level associates to the left,   *)
(* assignment to the right, and any expression may stand left of '='.        *)
expression(i) ==
    Then(level(1, i), LAMBDA e, j :
         IF check("Equal", j)
         THEN Build(node("expression", j + 1), LAMBDA v : Assign(e, v))
         ELSE Ok(e, j))
level(n, i) ==
    IF n > Len(ByLevel) THEN node("unary", i)
    ELSE Then(level(n + 1, i), LAMBDA e, j : chain(n, e, j))
(* Mutation: the operators of a level associate to the right.                *)
chainRight(n, e, i) ==
    IF tokens[i].k \in ByLevel[n]
    THEN Build(level(n, i + 1), LAMBDA r : Binary(e, tokens[i].k, r))
    ELSE Ok(e, i)
chain(n, e, i) ==
    IF tokens[i].k \in ByLevel[n]
    THEN Then(level(n + 1, i + 1), LAMBDA r, j : chain(n, Binary(e, tokens[i].k, r), j))
    ELSE Ok(e, i)
unary(i) ==
    CASE check("Await", i) -> Build(node("unary", i + 1), LAMBDA e : AwaitExpr(e))
      [] tokens[i].k \in {"Bang", "Minus"} ->
             Build(node("unary", i + 1), LAMBDA e : Unary(tokens[i].k, e))
      [] OTHER -> node("call", i)
call(i) == Then(node("primary", i), LAMBDA e, j : postfix(e, j))
postfix(e, i) ==
    CASE check("LeftParen", i) ->
             Then(shape(<<"arguments", "RightParen">>, i + 1),
                  LAMBDA v, j : postfix(Call(e, v[1]), j))
      [] check("Dot", i) ->
             IF tokens[i + 1].k \in {"Identifier", "AnyType"}
             THEN postfix(Member(e, tokens[i + 1].x), i + 2)
             ELSE consume("Identifier", i + 1)
      [] check("LeftBracket", i) ->
             Then(shape(<<"expression", "RightBracket">>, i + 1),
                  LAMBDA v, j : postfix(Index(e, v[1]), j))
      [] OTHER -> Ok(e, i)

ifExpression(i) ==
    Then(shape(<<"LeftParen", "expression", "RightParen", "block">>, i + 1), LAMBDA v, j :
         IF check("Else", j)
         THEN Build(node("block", j + 1), LAMBDA no : IfExpr(v[1], v[2], no))
         ELSE Fail("", j, FALSE))
(* An identifier that opens an arm is taken before it is known to be "_": a   *)
(* pattern that starts with another identifier goes on without it.           *)
arms(i) ==
    IF check("RightBrace", i) THEN Ok(<<>>, i)
    ELSE LET wildcard == check("Identifier", i) /\ tokens[i].x = "_"
             start == IF check("Identifier", i) THEN i + 1 ELSE i
         IN  Then(IF wildcard THEN Ok(NoNode, start) ELSE node("expression", start),
                  LAMBDA p, j :
             Then(shape(<<"FatArrow", "expression", "Semicolon">>, j), LAMBDA v, l :
             Build(arms(l), LAMBDA rest : <<MatchArm(p, v[1], wildcard)>> \o rest)))
primary(i) ==
    LET t == tokens[i] IN
    CASE t.k \in LiteralKinds \cup {"Null"} -> Ok(Literal(t.k, t.x), i + 1)
      [] t.k \in {"True", "False"}          -> Ok(Literal("Bool", t.x), i + 1)
      [] t.k \in {"Identifier", "AnyType"}  -> Ok(Variable(t.x), i + 1)
      [] t.k = "Self"  -> Ok(SelfExpr, i + 1)
      [] t.k = "Super" -> Ok(SuperExpr, i + 1)
      [] t.k = "New"   ->
             Build(shape(<<"Identifier", "LeftParen", "arguments", "RightParen">>, i + 1),
                   LAMBDA v : NewExpr(v[1], v[2]))
      [] t.k = "LeftParen" ->
             Build(shape(<<"expression", "RightParen">>, i + 1), LAMBDA v : v[1])
      [] t.k = "LeftBracket" ->
             Build(shape(<<"elements", "RightBracket">>, i + 1), LAMBDA v : ArrayExpr(v[1]))
      [] t.k = "LeftBrace" ->
             Build(shape(<<"fields", "RightBrace">>, i + 1), LAMBDA v : ObjectExpr(v[1]))
      [] t.k = "If"    -> ifExpression(i)
      [] t.k = "Match" ->
             Build(shape(<<"LeftParen", "expression", "RightParen", "LeftBrace", "arms",
                           "RightBrace">>, i + 1),
                   LAMBDA v : MatchExpr(v[1], v[2]))
      [] OTHER -> Fail("", i, FALSE)

-----------------------------------------------------------------------------
(* Types: every further union member is parsed by typeRef, which takes the   *)
(* members after it too.                                                     *)
typeRef(i) ==
    IF tokens[i].k \notin TypeKinds THEN Fail("", i, FALSE)
    ELSE Then(typeArgs(Plain(tokens[i].x), i + 1), LAMBDA r, j :
              IF check("Question", j) THEN unions([r EXCEPT !.nullable = TRUE], j + 1)
              ELSE unions(r, j))
typeArgs(r, i) ==
    IF ~check("Less", i) THEN Ok(r, i)
    ELSE Then(items("typeRef", i + 1), LAMBDA a, j :
         Then(consume("Greater", j), LAMBDA v, l : typeArgs([r EXCEPT !.typeArgs = a], l)))
unions(r, i) ==
    IF ~check("Pipe", i) THEN Ok(r, i)
    ELSE Then(node("typeRef", i + 1), LAMBDA other, j :
              unions([r EXCEPT !.unionTypes = Append(@, other)], j))

(* Statements.                                                              *)
varDeclaration(i) ==
    Then(shape(<<"Identifier", "annotation">>, i + 1), LAMBDA v, j :
         LET typed == v[2] # NoNode
             type  == IF typed THEN v[2] ELSE VoidRef
         IN  IF ~check("Equal", j) /\ ~(typed /\ type.name = "any") THEN Fail("", j, FALSE)
             ELSE Build(shape(<<"initializer", "Semicolon">>, j), LAMBDA w :
                        VarDecl(check("Var", i), v[1], type, typed, w[1])))
functionRest(mods, i, last) ==
    Build(shape(<<"Identifier", "LeftParen", "parameters", "RightParen", "annotation",
                  last>>, i), LAMBDA v :
          FunctionDecl(v[1], v[2], IF v[3] = NoNode THEN VoidRef ELSE v[3], v[3] # NoNode,
                       IF last = "block" THEN v[4] ELSE NoNode, mods))
functionDeclaration(mods, i) == functionRest(mods, i, "block")

members(c, i) ==
    IF tokens[i].k \in {"RightBrace", "End"}
    THEN Build(consume("RightBrace", i), LAMBDA v : c)
    ELSE Then(modifiers(i), LAMBDA mods, j :
         CASE check("Fn", j) ->
                Then(functionRest(mods[1], j + 1,
                         IF "Abstract" \in Range(mods[1]) THEN "Semicolon" ELSE "block"),
                     LAMBDA f, l : members([c EXCEPT !.methods = Append(@, f)], l))
           [] check("Init", j) ->
                Then(shape(<<"LeftParen", "parameters", "RightParen", "annotation",
                     IF "Abstract" \in Range(mods[1]) THEN "Semicolon" ELSE "block">>, j + 1),
                     LAMBDA v, l : members([c EXCEPT !.methods = Append(@,
                         FunctionDecl("init", v[1],
                             IF v[2] = NoNode THEN VoidRef ELSE v[2], v[2] # NoNode,
                             IF Len(v) = 3 THEN v[3] ELSE NoNode, mods[1]))], l))
           [] OTHER ->
                Then(shape(<<"Identifier", "Colon", "typeRef", "initializer",
                             "Semicolon">>, j),
                     LAMBDA v, l : members([c EXCEPT !.fields = Append(@,
                         FieldDecl(v[1], v[2], v[3], mods[1]))], l)))
classDeclaration(mods, i) ==
    Then(consume("Identifier", i), LAMBDA name, j :
    Then(IF check("Extends", j) THEN consume("Identifier", j + 1) ELSE Ok(<<"">>, j),
         LAMBDA parent, l :
    Then(IF check("Implements", l) THEN items("typeRef", l + 1) ELSE Ok(<<>>, l),
         LAMBDA intfs, m :
    Then(consume("LeftBrace", m), LAMBDA v, n :
         members(ClassDecl(name[1], parent[1], <<>>, <<>>, mods, intfs), n)))))

(* Members of an interface: an index signature, a call signature, a method   *)
(* with or without 'fn', a field, an optional field.                         *)
interfaceMethod(i) ==
    Build(shape(<<"Identifier", "LeftParen", "parameters", "RightParen", "Colon", "typeRef",
                  "Semicolon">>, i),
          LAMBDA v : FunctionDecl(v[1], v[2], v[3], TRUE, NoNode, <<>>))
withMethod(d, f) == [d EXCEPT !.methods = Append(@, f)]
interfaceMembers(d, i) ==
    CASE tokens[i].k \in {"RightBrace", "End"} ->
           Build(consume("RightBrace", i), LAMBDA v : d)
      [] check("LeftBracket", i) ->
           Then(shape(<<"Identifier", "Colon", "typeRef", "RightBracket", "Colon",
                        "typeRef", "Semicolon">>, i + 1), LAMBDA v, j :
                interfaceMembers([d EXCEPT !.indexSignatures =
                    Append(@, IndexSignature(v[1], v[2], v[3]))], j))
      [] check("LeftParen", i) ->
           Then(shape(<<"parameters", "RightParen", "Colon", "typeRef", "Semicolon">>,
                      i + 1), LAMBDA v, j :
                interfaceMembers([d EXCEPT !.callSignatures =
                    Append(@, CallSignature(v[1], v[2]))], j))
      [] check("Fn", i) ->
           Then(interfaceMethod(i + 1), LAMBDA f, j : interfaceMembers(withMethod(d, f), j))
      [] check("Identifier", i) /\ tokens[i + 1].k \in {"Colon", "Question"} ->
           Then(shape(IF check("Colon", i + 1) THEN <<"Colon", "typeRef", "Semicolon">>
                      ELSE <<"Question", "Colon", "typeRef", "Semicolon">>, i + 1),
                LAMBDA v, j : interfaceMembers(
                    [d EXCEPT !.fields = Append(@, FieldDecl(tokens[i].x, v[1], NoNode, <<>>)),
                              !.optionalFields = IF check("Question", i + 1)
                                                 THEN @ \cup {tokens[i].x} ELSE @], j))
      [] OTHER ->
           Then(interfaceMethod(i), LAMBDA f, j : interfaceMembers(withMethod(d, f), j))
interfaceDeclaration(i) ==
    Then(consume("Identifier", i), LAMBDA name, j :
    Then(IF ~check("Less", j) THEN Ok(<<>>, j)
         ELSE Then(items("Identifier", j + 1), LAMBDA list, g :
                   Build(consume("Greater", g), LAMBDA v : list)), LAMBDA params, l :
    Then(IF check("Extends", l) THEN items("typeRef", l + 1) ELSE Ok(<<>>, l),
         LAMBDA parents, m :
    Then(consume("LeftBrace", m), LAMBDA v, n :
         interfaceMembers(InterfaceDecl(name[1], params, parents), n)))))

(* The declaration a keyword opens, or NoNode where none of them stands.     *)
namedDeclaration(mods, i) ==
    CASE check("Fn", i)    -> functionDeclaration(mods, i + 1)
      [] check("Class", i) -> classDeclaration(mods, i + 1)
      [] check("Intf", i)  -> interfaceDeclaration(i + 1)
      [] tokens[i].k \in {"Var", "Const"} -> varDeclaration(i)
      [] OTHER             -> Ok(NoNode, i)

body(i, list) ==
    CASE tokens[i].k \in {"RightBrace", "End"} ->
           Build(consume("RightBrace", i), LAMBDA v : BlockStmt(list, NoNode))
      [] tokens[i].k \in {"Var", "Const", "Fn", "Class"} ->
           Then(namedDeclaration(<<>>, i), LAMBDA s, j : body(j, Append(list, s)))
      [] tokens[i].k \in StatementStarts ->
           Then(node("statement", i), LAMBDA s, j : body(j, Append(list, s)))
      [] OTHER ->
           Then(node("expression", i), LAMBDA e, j :
           CASE check("Semicolon", j)  -> body(j + 1, Append(list, ExprStmt(e)))
             [] check("RightBrace", j) -> Ok(BlockStmt(list, e), j + 1)
             [] OTHER                  -> Fail("", j, FALSE))
block(i) == Then(consume("LeftBrace", i), LAMBDA v, j : body(j, <<>>))

(* The clauses of a loop: a declaration or an expression, or nothing, before *)
(* the first semicolon; a condition and an increment that may be missing.    *)
unless(close, i) == IF check(close, i) THEN Ok(<<NoNode>>, i) ELSE One(node("expression", i))
loopStart(i) ==
    CASE check("Semicolon", i) -> Ok(<<NoNode>>, i + 1)
      [] tokens[i].k \in {"Var", "Const"} -> One(varDeclaration(i))
      [] OTHER -> Build(shape(<<"expression", "Semicolon">>, i),
                        LAMBDA v : <<ExprStmt(v[1])>>)
loopClauses(i) ==
    IF ~check("LeftParen", i) THEN Ok(<<NoNode, NoNode, NoNode>>, i)
    ELSE Then(loopStart(i + 1), LAMBDA init, j :
         Then(unless("Semicolon", j), LAMBDA cond, l :
         Then(consume("Semicolon", l), LAMBDA v, m :
         Then(unless("RightParen", m), LAMBDA inc, n :
         Build(consume("RightParen", n), LAMBDA w : init \o cond \o inc)))))
loopStatement(label, i) ==
    Then(loopClauses(i), LAMBDA v, j :
         Build(node("block", j), LAMBDA b : LoopStmt(v[1], v[2], v[3], b, label)))

cases(i, seenDefault) ==
    CASE tokens[i].k \in {"RightBrace", "End"} -> Ok(<<>>, i)
      [] tokens[i].k \in {"Case", "Default"} /\ seenDefault -> Fail("", i + 1, FALSE)
      [] check("Case", i) ->
           Then(shape(<<"expression", "Colon", "block">>, i + 1), LAMBDA v, j :
           Build(cases(j, FALSE), LAMBDA rest : <<SwitchCase(v[1], v[2], FALSE)>> \o rest))
      [] check("Default", i) ->
           Then(shape(<<"Colon", "block">>, i + 1), LAMBDA v, j :
           Build(cases(j, TRUE), LAMBDA rest : <<SwitchCase(NoNode, v[1], TRUE)>> \o rest))
      [] OTHER -> Fail("", i, FALSE)
switchStatement(i) ==
    Then(shape(<<"LeftParen", "expression", "RightParen", "LeftBrace", "cases",
                 "RightBrace">>, i), LAMBDA v, j :
         IF v[2] = <<>> THEN Fail("", j, FALSE) ELSE Ok(SwitchStmt(v[1], v[2]), j))
tryStatement(i) ==
    Then(node("block", i), LAMBDA try, j :
    Then(IF check("Catch", j)
         THEN shape(<<"LeftParen", "Identifier", "RightParen", "block">>, j + 1)
         ELSE Ok(<<"", NoNode>>, j), LAMBDA v, l :
    Then(optional("Finally", <<"block">>, l), LAMBDA w, m :
         IF v[2] = NoNode /\ w[1] = NoNode THEN Fail("KPAR2401", m, FALSE)
         ELSE Ok(TryStmt(try, v[1], v[2], w[1]), m))))
jump(Node(_), i) ==
    LET labelled == check("Identifier", i)
    IN  Build(consume("Semicolon", IF labelled THEN i + 1 ELSE i),
              LAMBDA v : Node(IF labelled THEN tokens[i].x ELSE ""))
statement(i) ==
    LET k == tokens[i].k IN
    CASE k = "LeftBrace" -> node("block", i)
      [] k = "If" ->
           Then(shape(<<"LeftParen", "expression", "RightParen", "block">>, i + 1),
                LAMBDA v, j :
                Build(IF ~check("Else", j) THEN Ok(NoNode, j)
                      ELSE node(IF check("If", j + 1) THEN "statement" ELSE "block", j + 1),
                      LAMBDA no : IfStmt(v[1], v[2], no)))
      [] k = "While" ->
           Build(shape(<<"LeftParen", "expression", "RightParen", "block">>, i + 1),
                 LAMBDA v : WhileStmt(v[1], v[2]))
      [] k = "Identifier" /\ check("Colon", i + 1) ->
           IF check("Loop", i + 2) THEN loopStatement(tokens[i].x, i + 3)
           ELSE Fail("", i + 2, FALSE)
      [] k = "Loop"     -> loopStatement("", i + 1)
      [] k = "Switch"   -> switchStatement(i + 1)
      [] k = "Break"    -> jump(BreakStmt, i + 1)
      [] k = "Continue" -> jump(ContinueStmt, i + 1)
      [] k = "Try"      -> tryStatement(i + 1)
      [] k = "Throw"    -> Build(shape(<<"expression", "Semicolon">>, i + 1),
                                 LAMBDA v : ThrowStmt(v[1]))
      [] k = "Return"   -> Then(unless("Semicolon", i + 1), LAMBDA v, j :
                                Build(consume("Semicolon", j), LAMBDA w : ReturnStmt(v[1])))
      [] OTHER          -> Build(shape(<<"expression", "Semicolon">>, i),
                                 LAMBDA v : ExprStmt(v[1]))

-----------------------------------------------------------------------------
(* Declarations.                                                            *)
specifiers(i) ==
    IF check("RightBrace", i) THEN Ok(<<>>, i)
    ELSE Then(consume("Identifier", i), LAMBDA imported, j :
         Then(IF check("As", j) THEN consume("Identifier", j + 1) ELSE Ok(imported, j),
              LAMBDA local, l :
         LET this == <<ImportSpecifier(imported[1], local[1])>>
         IN  IF check("Comma", l)
             THEN Build(specifiers(l + 1), LAMBDA rest : this \o rest)
             ELSE Ok(this, l)))
importClause(i) ==
    CASE check("LeftBrace", i) ->
           Build(shape(<<"specifiers", "RightBrace">>, i + 1),
                 LAMBDA v : [default |-> "", named |-> v[1], namespace |-> ""])
      [] check("Star", i) ->
           Build(shape(<<"As", "Identifier">>, i + 1),
                 LAMBDA v : [default |-> "", named |-> <<>>, namespace |-> v[1]])
      [] OTHER ->
           Then(consume("Identifier", i), LAMBDA name, j :
                Build(optional("Comma", <<"LeftBrace", "specifiers", "RightBrace">>, j),
                      LAMBDA v : [default |-> name[1], namespace |-> "",
                                  named |-> IF check("Comma", j) THEN v[1] ELSE <<>>]))
importDeclaration(i) ==
    IF check("String", i + 1)
    THEN Build(shape(<<"String", "As", "Identifier", "Semicolon">>, i + 1),
               LAMBDA v : ImportDecl(v[1], v[2], "", <<>>, ""))
    ELSE Then(importClause(i + 1), LAMBDA c, j :
              Build(shape(<<"From", "String", "Semicolon">>, j), LAMBDA v :
                    ImportDecl(v[1], IF c.named # <<>> THEN c.named[1].local
                                     ELSE IF c.namespace # "" THEN c.namespace
                                     ELSE c.default,
                               c.default, c.named, c.namespace)))
RECURSIVE exportNames(_)
exportNames(i) ==
    IF check("RightBrace", i) THEN Ok(<<>>, i)
    ELSE Then(consume("Identifier", i), LAMBDA name, j :
         IF check("Comma", j)
         THEN Build(exportNames(j + 1), LAMBDA rest : name \o rest) ELSE Ok(name, j))
exportListDeclaration(i) ==
    Then(exportNames(i + 1), LAMBDA names, j :
         Build(shape(<<"RightBrace", "Semicolon">>, j), LAMBDA v : ExportDecl(names)))

defaultExportDeclaration(i) ==
    Then(modifiers(i), LAMBDA mods, j :
    Then(namedDeclaration(mods[1], j), LAMBDA d, l :
         IF d = NoNode THEN Fail("K2013", l, FALSE)
         ELSE Ok([d EXCEPT !.exported = TRUE, !.isDefault = TRUE], l)))
declaration(i) ==
    LET exported == check("Export", i)
        start    == IF exported THEN i + 1 ELSE i
    IN
    CASE check("Import", start) /\ exported      -> Fail("K2010", start + 1, FALSE)
      [] check("Import", start) /\ ~exported /\ seenNonImport -> Fail("K2011", start + 1, FALSE)
      [] check("Import", start) /\ ~exported /\ ~seenNonImport -> importDeclaration(start)
      [] check("LeftBrace", start) /\ exported   -> exportListDeclaration(start)
      [] check("Default", start) /\ exported     -> defaultExportDeclaration(start + 1)
      [] OTHER ->
           Then(modifiers(start), LAMBDA mods, j :
           Then(namedDeclaration(mods[1], j), LAMBDA d, l :
                CASE d # NoNode /\ exported -> Ok([d EXCEPT !.exported = TRUE], l)
                  [] d # NoNode /\ ~exported -> Ok(d, l)
                  [] d = NoNode /\ exported -> Fail("K2012", l, FALSE)
                  [] d = NoNode /\ ~exported /\ mods[1] # <<>> -> Fail("", l, FALSE)
                  [] OTHER -> node("statement", l)))

(* A nonterminal by its name.                                               *)
node(name, i) ==
    CASE name = "declaration" -> declaration(i)
      [] name = "statement"   -> statement(i)
      [] name = "block"       -> block(i)
      [] name = "expression"  -> expression(i)
      [] name = "unary"       -> unary(i)
      [] name = "call"        -> call(i)
      [] name = "primary"     -> primary(i)
      [] name = "typeRef"     -> typeRef(i)

-----------------------------------------------------------------------------
(* parseRecovering: a declaration, or the recovery from its error: skip past  *)
(* a semicolon or a closing brace or up to a token that starts a statement,  *)
(* and at least one token in all.                                            *)
SyncKinds == {"Import", "Export", "Var", "Const", "Fn", "Class", "Intf", "If", "While",
              "Loop", "Switch", "Return", "Throw", "Try"}
synchronize(i) ==
    LET Stops(j) == \/ check("End", j)
                    \/ j > 1 /\ check("Semicolon", j - 1)
                    \/ tokens[j].k \in SyncKinds \cup {"RightBrace"}
        stop == CHOOSE j \in i..Len(tokens) : Stops(j) /\ \A m \in i..(j - 1) : ~Stops(m)
        semicolon == stop > 1 /\ check("Semicolon", stop - 1)
    IN  IF check("RightBrace", stop) /\ ~semicolon THEN stop + 1 ELSE stop

ParserInit(input) ==
    /\ tokens = input
    /\ current = 1
    /\ seenNonImport = FALSE
    /\ declarations = <<>>
    /\ exports = {}
    /\ diagnostics = <<>>
    /\ incomplete = FALSE

(* Where the parser goes on: never where the declaration that failed began.  *)
(* Mutation: resumeAtStop goes on there.                                     *)
resumeAtStop(i) == synchronize(i)
resume(i) ==
    LET after == synchronize(i)
    IN  IF after = current /\ ~check("End", after) THEN after + 1 ELSE after

startsImport(i) == check("Import", IF check("Export", i) THEN i + 1 ELSE i)
accept(d, next) ==
    /\ declarations' = Append(declarations, d)
    /\ exports' = IF d.k \in Named /\ d.exported THEN exports \cup {d.name} ELSE exports
    /\ current' = next
    /\ UNCHANGED <<diagnostics, incomplete>>
recover(error) ==
    /\ diagnostics' = Append(diagnostics, error.code)
    /\ incomplete' = (incomplete \/ error.end)
    /\ current' = resume(error.i)
    /\ UNCHANGED <<declarations, exports>>
parseDeclaration(r) == r.ok /\ accept(r.v, r.i)
recoverFromError(r) == ~r.ok /\ recover(r)
parseNext ==
    /\ ~check("End", current)
    /\ \E r \in {node("declaration", current)} : parseDeclaration(r) \/ recoverFromError(r)
    /\ seenNonImport' = (seenNonImport \/ ~startsImport(current))
    /\ UNCHANGED tokens
parsed == check("End", current)
=============================================================================
