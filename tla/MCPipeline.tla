------------------------------ MODULE MCPipeline -----------------------------
(***************************************************************************)
(* Instance of Pipeline: the text of a program is the tokens that Grammar    *)
(* gives for its syntax tree, possibly spoilt.  Shapes are cut after every    *)
(* token and lose every token, for the parser; Programs are combined from    *)
(* contexts, wrappers and leaves, for the phases after it.                   *)
(***************************************************************************)
EXTENDS Pipeline

VARIABLES program, kept, whole

G == INSTANCE Grammar

MCBuiltins == [n \in {"print"} |-> [least |-> 0, most |-> 9, kinds |-> <<>>,
                                    result |-> Plain("void")]]
MCNativeFunctions       == {"print"}
MCNativeMemberFunctions == [n \in {} |-> 0]
MCLiteralValues         == [n \in {} |-> 0]

I(n)      == Literal("Int", n)
V(n)      == Variable(n)
a         == V("a")
p         == V("p")
Do(e)     == ExprStmt(e)
Block(s)  == BlockStmt(s, NoNode)
Value(s, e) == BlockStmt(s, e)
Let(n, e) == VarDecl(TRUE, n, VoidRef, FALSE, e)
Untyped(n)    == Param(n, Plain("any"))
Fn(n, params, s) == FunctionDecl(n, params, VoidRef, FALSE, Block(s), <<>>)
Method(n, params, s) == FunctionDecl(n, params, VoidRef, FALSE, Block(s), <<"Public">>)
Say(e)    == Do(Call(V("print"), <<e>>))
Run(n)    == Do(Call(V(n), <<>>))
Is(l, r)  == Binary(l, "EqualEqual", r)
One_      == I("1")

-----------------------------------------------------------------------------
(* Shapes: every form of the grammar.                                       *)
Expressions == {
    I("1"), Literal("Bool", "true"), Literal("Null", "null"), SelfExpr, Unary("Minus", a),
    Binary(a, "Plus", Binary(I("1"), "Star", p)), Binary(Binary(a, "Plus", I("1")), "Star", p),
    Binary(a, "Minus", Binary(a, "Minus", p)), Binary(Binary(a, "Minus", a), "Minus", p),
    Binary(Binary(a, "OrOr", p), "AndAnd", Unary("Bang", Is(a, p))),
    Binary(a, "OrOr", Binary(p, "AndAnd", Binary(a, "Less", p))),
    Assign(a, Assign(Index(p, I("0")), I("1"))), AwaitExpr(Call(a, <<>>)),
    Call(Member(a, "f"), <<I("1"), Assign(a, I("1"))>>), NewExpr("C", <<I("1")>>),
    ArrayExpr(<<>>), ArrayExpr(<<I("1"), a>>),
    ObjectExpr(<<ObjectField("x", I("1")), ObjectField("y", a)>>),
    IfExpr(a, Value(<<>>, I("1")), Value(<<Do(p)>>, I("2"))),
    MatchExpr(a, <<MatchArm(I("1"), p, FALSE), MatchArm(NoNode, a, TRUE)>>)}
Exported(d) == [d EXCEPT !.exported = TRUE]
Statements == {
    WhileStmt(a, Block(<<BreakStmt(""), ContinueStmt("")>>)),
    LoopStmt(Let("i", I("0")), a, p, Block(<<ContinueStmt("o")>>), "o"),
    LoopStmt(NoNode, NoNode, NoNode, Block(<<>>), ""),
    IfStmt(a, Block(<<>>), IfStmt(p, Block(<<>>), Block(<<ReturnStmt(NoNode)>>))),
    SwitchStmt(a, <<SwitchCase(I("1"), Block(<<>>), FALSE),
                    SwitchCase(NoNode, Block(<<>>), TRUE)>>),
    TryStmt(Block(<<ThrowStmt(a)>>), "e", Block(<<>>), Block(<<>>)),
    TryStmt(Block(<<>>), "", NoNode, Block(<<>>)),
    Exported(FunctionDecl("f", <<Param("q", TypeRef("C", TRUE, <<Plain("int")>>,
                                                    <<Plain("null")>>))>>,
                          Plain("int"), TRUE, Block(<<ReturnStmt(a)>>), <<>>)),
    ClassDecl("C", "D", <<FieldDecl("x", Plain("int"), I("1"), <<"Private">>)>>,
              <<FunctionDecl("init", <<>>, VoidRef, FALSE, Block(<<>>), <<>>),
                FunctionDecl("m", <<>>, VoidRef, FALSE, NoNode, <<"Abstract">>)>>,
              <<"Abstract">>, <<Plain("I")>>),
    [InterfaceDecl("I", <<"T">>, <<Plain("J")>>) EXCEPT
        !.fields = <<FieldDecl("x", Plain("int"), NoNode, <<>>)>>, !.optionalFields = {"x"},
        !.methods = <<FunctionDecl("m", <<>>, VoidRef, TRUE, NoNode, <<>>)>>,
        !.callSignatures = <<CallSignature(<<>>, VoidRef)>>,
        !.indexSignatures = <<IndexSignature("k", Plain("str"), Plain("int"))>>],
    ImportDecl("m", "n", "", <<>>, ""), ImportDecl("m", "n", "", <<>>, "n"),
    ImportDecl("m", "l", "", <<ImportSpecifier("x", "l")>>, ""),
    ImportDecl("m", "l", "d", <<ImportSpecifier("l", "l")>>, ""), ExportDecl(<<"a", "b">>)}
Shapes == {<<s>> : s \in Statements}
          \cup {<<Do(e)>> : e \in Expressions}
          \cup {<<VarDecl(FALSE, "v", Plain("any"), TRUE, e), Run("f")>> : e \in Expressions}

-----------------------------------------------------------------------------
(* Programs: the leaves, in wrappers, in a context where a and p are bound.  *)
Leaves == {
    <<Do(Assign(a, Binary(a, "Plus", p)))>>, <<Say(a)>>, <<BreakStmt("")>>,
    <<ContinueStmt("")>>, <<ReturnStmt(p)>>, <<ThrowStmt(p)>>,
    <<Fn("h", <<>>, <<ReturnStmt(a)>>), Run("h")>>,
    <<Fn("h", <<>>, <<Fn("i", <<>>, <<Do(Assign(a, p))>>), Run("i")>>), Run("h")>>,
    <<Fn("h", <<>>, <<Run("h")>>), Run("h")>>,
    <<Let("a", p), Say(a)>>, <<Let("z", p), Let("z", a)>>, <<Do(V("undefined"))>>,
    <<Do(Assign(a, SelfExpr))>>, <<Do(Assign(V("print"), a))>>,
    <<Let("z", IfExpr(Is(a, p), Value(<<Fn("h", <<>>, <<ReturnStmt(a)>>)>>, Call(V("h"), <<>>)),
                      Value(<<>>, p)))>>,
    <<Let("z", MatchExpr(a, <<MatchArm(One_, p, FALSE), MatchArm(NoNode, a, TRUE)>>))>>,
    <<Let("z", Binary(a, "AndAnd", Binary(p, "OrOr", a)))>>,
    <<Let("z", ObjectExpr(<<ObjectField("x", p)>>)), Do(Assign(Member(V("z"), "x"), a)),
      Do(Assign(Index(V("z"), Literal("String", "x")), ArrayExpr(<<a, p>>)))>>,
    <<Do(Assign(a, V("id"))), Do(Call(a, <<Call(V("id"), <<p>>)>>))>>,
    <<ClassDecl("L", "", <<>>, <<>>, <<>>, <<>>)>> }
Wrappers == {"none", "if", "while", "loop", "switch", "try", "catch", "tried", "finally",
             "function", "value"}
Wrapped(w, s) ==
    CASE w = "none"     -> s
      [] w = "if"       -> <<IfStmt(Is(a, p), Block(s), Block(<<Say(p)>>))>>
      [] w = "while"    -> <<WhileStmt(Is(a, p), Block(s))>>
      [] w = "loop"     -> <<LoopStmt(Let("i", I("0")), Binary(V("i"), "Less", I("2")),
                                      Assign(V("i"), Binary(V("i"), "Plus", I("1"))),
                                      Block(s), "")>>
      [] w = "switch"   -> <<SwitchStmt(a, <<SwitchCase(I("1"), Block(s), FALSE),
                                             SwitchCase(NoNode, Block(<<Say(p)>>), TRUE)>>)>>
      [] w = "try"      -> <<TryStmt(Block(s), "e", Block(<<Say(V("e"))>>), NoNode)>>
      [] w = "catch"    -> <<TryStmt(Block(<<ThrowStmt(p)>>), "e", Block(s), NoNode)>>
      [] w = "tried"    -> <<TryStmt(Block(s), "", NoNode, Block(<<Say(a)>>))>>
      [] w = "finally"  -> <<TryStmt(Block(<<Say(a)>>), "", NoNode, Block(s))>>
      [] w = "function" -> <<Fn("w", <<Untyped("v")>>, s), Do(Call(V("w"), <<p>>))>>
      [] w = "value"    -> <<Let("r", IfExpr(Is(a, p), Value(s, a), Value(<<>>, p)))>>
Contexts == {"module", "function", "closure", "method"}
InContext(c, s) ==
    <<Fn("id", <<Untyped("x")>>, <<ReturnStmt(V("x"))>>)>> \o
    CASE c = "module"   -> <<Let("p", I("2")), Let("a", I("1"))>> \o s
      [] c = "function" -> <<Fn("f", <<Untyped("p")>>, <<Let("a", I("1"))>> \o s),
                             Do(Call(V("f"), <<I("2")>>))>>
      [] c = "closure"  -> <<Fn("f", <<Untyped("p")>>, <<Let("a", I("1")),
                                 Fn("g", <<Untyped("q")>>, s), Do(Call(V("g"), <<a>>))>>),
                             Do(Call(V("f"), <<I("2")>>))>>
      [] c = "method"   -> <<ClassDecl("P", "",
                                 <<FieldDecl("x", Plain("any"), NoNode, <<"Protected">>)>>,
                                 <<Method("m", <<Untyped("p")>>, <<ReturnStmt(p)>>)>>, <<>>, <<>>),
                             ClassDecl("K", "P", <<>>,
                                 <<Method("init", <<Untyped("p")>>,
                                       <<Do(Assign(Member(SelfExpr, "x"), p))>>),
                                   Method("n", <<Untyped("p")>>,
                                       <<Let("a", Call(Member(SuperExpr, "m"), <<p>>))>> \o s)>>,
                                 <<>>, <<>>),
                             Do(Call(Member(NewExpr("K", <<I("1")>>), "n"), <<I("2")>>))>>
(* A wrapper in a wrapper in the context that has every kind of capture, one  *)
(* wrapper in the others.                                                    *)
Programs ==
    {InContext(c, Wrapped(w, s)) : c \in Contexts, w \in Wrappers, s \in Leaves}
    \cup {InContext("closure", Wrapped(o, Wrapped(w, s))) :
              o \in Wrappers \ {"none"}, w \in Wrappers \ {"none"}, s \in Leaves}
(* The accepted programs known to be lowered wrongly: a function of a block   *)
(* that is used before its declaration, a break from a function that stands   *)
(* in a switch, two functions of one name in a block of an if expression, a   *)
(* method without a body, two methods of one name.                           *)
EarlyUse == <<Run("h"), Fn("h", <<>>, <<>>)>>
Twice    == <<Fn("h", <<>>, <<>>), Fn("h", <<>>, <<>>)>>
WithMethods(list) == <<ClassDecl("Q", "", <<>>, list, <<"Abstract">>, <<>>)>>
Defective ==
    {InContext(c, Wrapped(w, EarlyUse)) :
         c \in Contexts \ {"module"}, w \in Wrappers}
    \cup {InContext(c, Wrapped("value", Twice)) : c \in Contexts}
    \cup {InContext(c, Wrapped("switch", Wrapped("function", <<BreakStmt("")>>))) :
              c \in Contexts}
    \cup {WithMethods(<<FunctionDecl("m", <<>>, VoidRef, FALSE, NoNode, <<"Abstract">>)>>),
          WithMethods(<<Method("m", <<>>, <<>>), Method("m", <<>>, <<>>)>>)}

-----------------------------------------------------------------------------
(* The declarations that end within the first n tokens.                      *)
Before(ends, n) == Max({m \in DOMAIN ends : ends[m] <= n})
Damaged(text, ends) ==
    \/ \E cut \in 0..(Len(text) - 1) :
          /\ kept = Before(ends, cut)
          /\ whole = (cut = Len(text) - 1)
          /\ PipelineInit(SubSeq(text, 1, cut) \o <<Token("End", "")>>)
    \/ \E lost \in 1..(Len(text) - 1) :
          /\ kept = Before(ends, lost - 1)
          /\ whole = FALSE
          /\ PipelineInit(RemoveAt(text, lost))
MCInit ==
    \/ /\ program \in Shapes
       /\ \E text \in {G!Tokens(program)}, ends \in {G!Ends(program)} : Damaged(text, ends)
    \/ /\ program \in Programs \cup Defective
       /\ kept = Len(program)
       /\ whole = TRUE
       /\ PipelineInit(G!Tokens(program))
MCNext == PipelineNext /\ UNCHANGED <<program, kept, whole>>
MCSpec == MCInit /\ [][MCNext]_<<pipelineVars, program, kept, whole>>

-----------------------------------------------------------------------------
(* The parser gives back the program its tokens were made of.  When the text  *)
(* is cut short or has lost a token, every declaration before the damage is  *)
(* still read as it was written, whatever parseRecovering skips after it     *)
(* (precedence and associativity in expression_parser.cpp, recovery in       *)
(* parser_core.cpp).  Grammar prints the tree without looking at Parser.     *)
RoundTrip ==
    phase # "parse" =>
        /\ IsPrefix(SubSeq(program, 1, kept), declarations)
        /\ whole => declarations = program /\ diagnostics = <<>> /\ ~incomplete
(* A program the analyzer accepts is run, as bytecode or by the tree walk:    *)
(* no phase after the check leaves its defined behaviour or finds fault with *)
(* what the phase before it made (mir_verifier.cpp:13 and the KBC codes      *)
(* speak of an internal compiler defect).  Two phases, the analyzer and the  *)
(* HIR lowering, resolve names by rules of their own.  The programs of       *)
(* Defective are the known exceptions, and exactly they are.  What is        *)
(* executed the machine can run: it checks neither operands nor captures, and*)
(* that no function with captures is called without them nobody validates.   *)
AcceptedIsRun ==
    /\ phase \in Ended => (phase \in {"fault", "reported"}) = (program \in Defective)
    /\ phase = "executed" => B!WellTyped(unit) /\ B!Runnable(unit)
(* A step that leaves the program in the same phase moves the parser forward: *)
(* after an error, too, parseRecovering never starts again at the token it   *)
(* failed at (parser_core.cpp:60), so that it ends on every text.            *)
Advances == [][phase' = phase => current' > current]_<<pipelineVars, program, kept, whole>>
=============================================================================
