------------------------------- MODULE Checker ------------------------------
(***************************************************************************)
(* The type checker (class Analyzer, kyna_typecheck) over one module with  *)
(* no imports.  Its member variables are the record c that every checking   *)
(* function takes and returns: the chain of scopes and of lexical scopes    *)
(* (innermost last), the top-level tables, the enclosing class, return type,*)
(* loop labels and switch depth, the codes of the errors so far, and in t   *)
(* the type the last expr returned.  Warnings are left out.                 *)
(***************************************************************************)
EXTENDS Syntax, Integers, SequencesExt, FiniteSetsExt, TLC

CONSTANT Builtins   \* standard-library symbols: name -> [least, most, kinds, result]

-----------------------------------------------------------------------------
(***************************************************************************)
(* The types the checker compares (kyna_types): typeFromRef turns a written *)
(* type into an interned type, and isAssignable says which values a slot   *)
(* takes.  A type is a record whose field k is its TypeKind; types that are *)
(* interned as one object are equal records.  Pointers, channels, tuples    *)
(* and the Interface kind are left out: no syntax tree of the model has     *)
(* them, and typeFromRef never builds the last.                             *)
(***************************************************************************)
Primitives == {"int", "float", "bool", "str", "char", "void", "null", "any", "object", "func",
               "array", "num", "class"}
Type(kind, name, of) == [k |-> kind, name |-> name, of |-> of]
Basic(name) == Type("Basic", name, <<>>)
isBasic(t, name) == t = Basic(name)
ClassPrefix == "class:"

RECURSIVE typeFromRef(_, _), assignableTo(_, _), isAssignable(_, _)
(* The name of a class and the value that is the class are one nominal type. *)
unionOf(arms) == CASE Len(arms) = 0 -> Basic("any")
                   [] Len(arms) = 1 -> arms[1]
                   [] OTHER -> Type("Union", "", arms)
nominal(name, classes) ==
    LET statics == {n \in classes : name = ClassPrefix \o n}
    IN  CASE statics # {} -> Type("Named", CHOOSE n \in statics : TRUE, <<>>)
          [] statics = {} /\ name \in Primitives -> Basic(name)
          [] OTHER -> Type("Named", name, <<>>)
baseType(ref, classes) ==
    LET Of(refs) == [i \in DOMAIN refs |-> typeFromRef(refs[i], classes)]
    IN  CASE ref.name = "array" /\ Len(ref.typeArgs) = 1 -> Type("Slice", "", Of(ref.typeArgs))
          [] ref.name = "map" /\ Len(ref.typeArgs) = 2 -> Type("Map", "", Of(ref.typeArgs))
          [] ref.name = "union" -> unionOf(Of(ref.typeArgs \o ref.unionTypes))
          [] ref.name = "string" -> Basic("str")
          [] OTHER -> nominal(ref.name, classes)
united(ref, type, classes) ==
    IF ref.unionTypes = <<>> \/ ref.name = "union" THEN type
    ELSE Type("Union", "", <<type>> \o [i \in DOMAIN ref.unionTypes |->
                                            typeFromRef(ref.unionTypes[i], classes)])
orNull(ref, type) == IF ref.nullable THEN Type("Nullable", "", <<type>>) ELSE type
typeFromRef(ref, classes) == orNull(ref, united(ref, baseType(ref, classes), classes))

(* The virtual isAssignableTo of each kind of type.                          *)
assignableTo(a, t) ==
    \/ a = t
    \/ CASE a.k = "Basic" -> \/ t = Basic("any")
                             \/ a = Basic("int") /\ t \in {Basic("float"), Basic("num")}
                             \/ a = Basic("float") /\ t = Basic("num")
         [] a.k \in {"Named", "Nullable", "Map"} -> t \in {Basic("any"), Basic("object")}
         [] a.k = "Slice" -> t \in {Basic("any"), Basic("array")}
         [] a.k = "Union" -> \A i \in DOMAIN a.of : assignableTo(a.of[i], t)

isAssignable(actual, expected) ==
    \/ isBasic(expected, "any") \/ isBasic(actual, "any")
    \/ assignableTo(actual, expected)
    \/ /\ expected.k = "Union"
       /\ \E i \in DOMAIN expected.of : isAssignable(actual, expected.of[i])
    \/ /\ expected.k = "Nullable"
       /\ \/ isBasic(actual, "null")
          \/ isAssignable(IF actual.k = "Nullable" THEN actual.of[1] ELSE actual, expected.of[1])
-----------------------------------------------------------------------------
AnyRef  == Plain("any")
Mode(type, mutable) == [type |-> type, mutable |-> mutable]
noNames == [n \in {} |-> Mode(AnyRef, FALSE)]
Fresh ==
    [types |-> <<noNames>>, lexical |-> << {} >>, functions |-> noNames, classes |-> noNames,
     interfaces |-> noNames, errors |-> <<>>, class |-> "", return |-> VoidRef,
     inFunction |-> FALSE, labels |-> <<>>, switchDepth |-> 0, t |-> AnyRef]

error(c, code)       == [c EXCEPT !.errors = Append(@, code)]
errorIf(bad, code, c) == IF bad THEN error(c, code) ELSE c
typed(c, type)       == [c EXCEPT !.t = type]
Top(stack)           == stack[Len(stack)]
hasModifier(mods, m) == m \in Range(mods)
visibility(mods) == CASE hasModifier(mods, "Public") -> 2
                      [] hasModifier(mods, "Protected") /\ ~hasModifier(mods, "Public") -> 1
                      [] OTHER -> 0

(* Scopes: a name is looked up from the innermost scope out.                 *)
bindingScope(c, n) == Max({0} \cup {i \in DOMAIN c.types : n \in DOMAIN c.types[i]})
bound(c, n)   == c.types[bindingScope(c, n)][n]
defined(c, n) == \/ bindingScope(c, n) > 0
                 \/ n \in DOMAIN c.functions \cup DOMAIN c.classes \cup DOMAIN Builtins
                 \/ \E i \in DOMAIN c.lexical : n \in c.lexical[i]
declare(c, n, mode) ==
    [c EXCEPT !.types[Len(c.types)] = (n :> mode) @@ @]
bindLexical(c, n)   == [c EXCEPT !.lexical[Len(c.lexical)] = @ \cup {n}]
pushScope(c)        == [c EXCEPT !.types = Append(@, noNames)]
pushLexical(c)      == [c EXCEPT !.lexical = Append(@, {})]
back(old, c)        == [c EXCEPT !.types = SubSeq(@, 1, Len(old.types)),
                                 !.lexical = SubSeq(@, 1, Len(old.lexical))]
Named_(list, n)     == {i \in DOMAIN list : list[i].name = n}
named(list, n)      == list[Min(Named_(list, n))]

RECURSIVE findMember(_, _, _)
(* findField and findMethod: the nearest declaration up the parent chain, or *)
(* NoNode (part is "fields" or "methods").                                   *)
findMember(c, klass, key) ==
    LET list == IF key[1] = "field" THEN klass.fields ELSE klass.methods IN
    CASE Named_(list, key[2]) # {} -> named(list, key[2])
      [] Named_(list, key[2]) = {} /\ klass.parent \in DOMAIN c.classes ->
             findMember(c, c.classes[klass.parent], key)
      [] OTHER -> NoNode

-----------------------------------------------------------------------------
(* Interfaces: the effective contract merges the parents' members, with the  *)
(* parents' type parameters replaced, then the interface's own; a class      *)
(* conforms when it or an ancestor has every required member.                *)
RECURSIVE remap(_, _, _), effective(_, _, _)
remap(ref, mapping, depth) ==
    LET Again(refs) == [i \in DOMAIN refs |-> remap(refs[i], mapping, depth + 1)]
        found == ref.name \in DOMAIN mapping
        out   == IF found THEN [mapping[ref.name] EXCEPT !.nullable = @ \/ ref.nullable,
                                                         !.unionTypes = Again(@)] ELSE ref
    IN  IF depth > 32 THEN ref
        ELSE [out EXCEPT !.typeArgs = Again(@), !.unionTypes = Again(@)]
remapParams(params, mapping) ==
    [i \in DOMAIN params |-> [params[i] EXCEPT !.type = remap(@, mapping, 0)]]
remapContract(d, mapping) ==
    [d EXCEPT
        !.fields  = [i \in DOMAIN @ |-> [@[i] EXCEPT !.type = remap(@, mapping, 0)]],
        !.methods = [i \in DOMAIN @ |-> [@[i] EXCEPT
            !.returnType = remap(@, mapping, 0), !.params = remapParams(@, mapping)]],
        !.callSignatures = [i \in DOMAIN @ |-> [@[i] EXCEPT
            !.returnType = remap(@, mapping, 0), !.params = remapParams(@, mapping)]],
        !.indexSignatures = [i \in DOMAIN @ |-> [@[i] EXCEPT
            !.keyType = remap(@, mapping, 0), !.valueType = remap(@, mapping, 0)]]]
unlessNamed(list, more) ==
    FoldLeft(LAMBDA l, x : IF Named_(l, x.name) = {} THEN Append(l, x) ELSE l, list, more)
mergeContract(d, source) ==
    [d EXCEPT !.fields = unlessNamed(@, source.fields),
              !.methods = unlessNamed(@, source.methods),
              !.callSignatures = @ \o source.callSignatures,
              !.indexSignatures = @ \o source.indexSignatures,
              !.optionalFields = @ \cup source.optionalFields]
withArguments(p, ref) ==
    LET n == Min({Len(p.typeParams), Len(ref.typeArgs)})
    IN  remapContract(p, [x \in {p.typeParams[i] : i \in 1..n} |->
            ref.typeArgs[Max({i \in 1..n : p.typeParams[i] = x})]])
effective(c, d, visited) ==
    IF d.name \in visited THEN InterfaceDecl("", <<>>, <<>>)
    ELSE LET Parent(merged, ref) ==
                 IF ref.name \notin DOMAIN c.interfaces THEN merged
                 ELSE mergeContract(merged, withArguments(
                          effective(c, c.interfaces[ref.name], visited \cup {d.name}), ref))
         IN  mergeContract(FoldLeft(Parent, InterfaceDecl(d.name, d.typeParams, <<>>),
                                    d.parents), d)
effectiveContract(c, d) == effective(c, d, {})

RECURSIVE substitute(_, _, _)
substitute(type, contract, ref) ==
    LET hits == {i \in 1..Min({Len(contract.typeParams), Len(ref.typeArgs)}) :
                    contract.typeParams[i] = type.name}
        Each(refs) == [i \in DOMAIN refs |-> substitute(refs[i], contract, ref)]
    IN  IF ref.typeArgs = <<>> THEN type
        ELSE [type EXCEPT !.name = IF hits = {} THEN @ ELSE ref.typeArgs[Min(hits)].name,
                          !.typeArgs = Each(@), !.unionTypes = Each(@)]

RECURSIVE compatible(_, _, _)
sameParameters(f, g) == /\ Len(f.params) = Len(g.params)
                        /\ \A i \in DOMAIN f.params : f.params[i].type = g.params[i].type
(* The required members of a contract that a class does not provide.         *)
membersMissing(c, klass, contract, ref, d) ==
    LET Field(f)  == findMember(c, klass, <<"field", f.name>>)
        Method(m) == findMember(c, klass, <<"method", m.name>>)
        Sub(m) == [m EXCEPT !.returnType = substitute(@, contract, ref),
                            !.params = [i \in DOMAIN @ |->
                                [@[i] EXCEPT !.type = substitute(@, contract, ref)]]]
    IN  SelectSeq(d.fields, LAMBDA f :
            /\ f.name \notin d.optionalFields
            /\ ~(/\ Field(f) # NoNode
                 /\ compatible(c, substitute(f.type, contract, ref), Field(f).type)))
        \o SelectSeq(d.methods, LAMBDA m :
            ~(/\ Method(m) # NoNode
              /\ sameParameters(Method(m), Sub(m))
              /\ compatible(c, Sub(m).returnType, Method(m).returnType)
              /\ visibility(Method(m).modifiers) = 2))
missingMembers(c, klass, contract, ref) ==
    membersMissing(c, klass, contract, ref, effectiveContract(c, contract))
compatible(c, e, a) ==
    CASE e.name \in DOMAIN c.interfaces /\ a.name \in DOMAIN c.classes ->
           missingMembers(c, c.classes[a.name],
               effectiveContract(c, c.interfaces[e.name]), e) = <<>>
      [] ~(e.name \in DOMAIN c.interfaces /\ a.name \in DOMAIN c.classes)
         /\ (e.typeArgs # <<>> \/ a.typeArgs # <<>>) ->
           \/ e.name = a.name /\ e.typeArgs = <<>> /\ e.name \in {"array", "map"}
           \/ IF e.name # a.name \/ Len(e.typeArgs) # Len(a.typeArgs)
              THEN e.name = "any" \/ a.name = "any"
              ELSE /\ \A i \in DOMAIN e.typeArgs : compatible(c, e.typeArgs[i], a.typeArgs[i])
                   /\ ~a.nullable \/ e.nullable \/ e.name = "null"
      [] OTHER -> isAssignable(typeFromRef(a, DOMAIN c.classes),
                               typeFromRef(e, DOMAIN c.classes))
(* An object literal conforms when it has every field that is not optional,   *)
(* with a compatible value, and nothing callable is asked of it.             *)
fieldsConform(c, object, ts, d) ==
    LET At(f) == Named_(object.fields, f.name)
    IN  /\ d.methods = <<>> /\ d.callSignatures = <<>>
        /\ \A i \in DOMAIN d.fields :
               LET f == d.fields[i]
               IN  IF At(f) = {} THEN f.name \in d.optionalFields
                   ELSE compatible(c, f.type, ts[Min(At(f))])
objectConforms(c, object, ts, contract) ==
    fieldsConform(c, object, ts, effectiveContract(c, contract))
mergeTypes(c, a, b) ==
    IF compatible(c, a, b) THEN a
    ELSE IF compatible(c, b, a) THEN b
    ELSE TypeRef("union", FALSE, <<a, b>>, <<>>)

-----------------------------------------------------------------------------
(* Expressions.  exprs checks a list from left to right and keeps the types. *)
(* The one recursive operator: checkExpr or checkStmt.                        *)
RECURSIVE checkNode(_, _, _)
expr(e, c) == checkNode("expression", e, c)
stmt(s, c) == checkNode("statement", s, c)
addType(ts, x) == [c |-> x, ts |-> Append(ts, x.t)]
exprs(list, c) ==
    FoldLeft(LAMBDA d, e : addType(d.ts, expr(e, d.c)), [c |-> c, ts |-> <<>>], list)
numeric == {"int", "float", "num", "any"}
NotBool(t) == t.name \notin {"bool", "any"}

LiteralType(kind) ==
    CASE kind = "Null" -> "null" [] kind = "Bool" -> "bool" [] kind = "Int" -> "int"
      [] kind = "Float" -> "float" [] kind = "String" -> "str" [] kind = "Char" -> "char"
checkVariable(n, c) ==
    typed(errorIf(~defined(c, n.name), "K0000", c),
          CASE bindingScope(c, n.name) > 0 -> bound(c, n.name).type
            [] bindingScope(c, n.name) = 0 /\ n.name \in DOMAIN c.functions -> Plain("func")
            [] bindingScope(c, n.name) = 0 /\ n.name \notin DOMAIN c.functions
               /\ n.name \in DOMAIN c.classes -> Plain(ClassPrefix \o n.name)
            [] OTHER -> AnyRef)
checkUnary(n, c) ==
    LET x == expr(n.right, c)
    IN  IF n.op = "Bang" THEN typed(x, Plain("bool"))
        ELSE errorIf(x.t.name \notin numeric, "K0000", x)
Truths == {"EqualEqual", "BangEqual", "AndAnd", "OrOr", "Less", "LessEqual", "Greater",
           "GreaterEqual"}
checkBinary(n, c) ==
    LET l == expr(n.left, c)
        r == expr(n.right, l)
        pair == {l.t.name, r.t.name}
    IN  CASE n.op \in Truths -> typed(r, Plain("bool"))
          [] n.op = "Plus" /\ "str" \in pair -> typed(r, Plain("str"))
          [] "any" \in pair /\ n.op \notin Truths /\ ~(n.op = "Plus" /\ "str" \in pair) ->
               typed(r, AnyRef)
          [] pair \subseteq numeric \ {"any"} /\ n.op \notin Truths ->
               typed(r, Plain(IF "float" \in pair THEN "float"
                              ELSE IF pair = {"int"} THEN "int" ELSE "num"))
          [] OTHER -> typed(error(r, "K0000"), AnyRef)
checkAssign(n, c) ==
    LET a == expr(n.target, c)
        b == expr(n.value, a)
        name == n.target.name
    IN  typed(CASE n.target.k = "Variable" ->
                     IF bindingScope(b, name) = 0 THEN b
                     ELSE errorIf(~compatible(b, bound(b, name).type, b.t), "K0000",
                          errorIf(~bound(b, name).mutable, "K0000", b))
                [] n.target.k \in {"Member", "Index"} -> b
                [] OTHER -> error(b, "K0000"),
              a.t)

accepts(kind, t) ==
    kind = "Any" \/ t.name = "any" \/ t.name = kind
(* A call by name is checked against the table of functions, then against    *)
(* the standard library, whatever the name is bound to where it stands.      *)
checkCall(n, c) ==
    LET callee == expr(n.callee, c)
        args   == exprs(n.args, callee)
        d      == args.c
        called == n.callee.k = "Variable"
        known  == called /\ n.callee.name \in DOMAIN d.functions
        native == called /\ ~known /\ n.callee.name \in DOMAIN Builtins
        f == d.functions[n.callee.name]
        b == Builtins[n.callee.name]
        Check(params, Good(_, _), code, e) ==
            FoldLeft(LAMBDA g, i : errorIf(~Good(params[i], args.ts[i]), code, g), e,
                     [i \in 1..Min({Len(params), Len(n.args)}) |-> i])
    IN  CASE known ->
               typed(Check(f.params, LAMBDA p, t : compatible(d, p.type, t), "KSEM1202",
                           errorIf(Len(f.params) # Len(n.args), "KSEM1201", d)),
                     IF f.hasReturnType THEN f.returnType ELSE AnyRef)
          [] native ->
               typed(Check(b.kinds, accepts, "KSEM1205",
                           errorIf(Len(n.args) \notin b.least..b.most, "KSEM1204", d)),
                     b.result)
          [] n.callee.k = "Member" -> typed(d, callee.t)
          [] OTHER -> typed(errorIf(callee.t.name \notin {"func", "any"}, "KSEM1203", d), AnyRef)

RECURSIVE ancestors(_, _)
ancestors(c, name) ==
    IF name \notin DOMAIN c.classes THEN <<>>
    ELSE <<name>> \o ancestors(c, c.classes[name].parent)
checkClassMember(n, className, static, c) ==
    LET line   == ancestors(c, className)
        Has(i) == \/ Named_(c.classes[line[i]].fields, n.name) # {}
                  \/ Named_(c.classes[line[i]].methods, n.name) # {}
        at     == {i \in DOMAIN line : Has(i)}
        owner  == line[Min(at)]
        isField == Named_(c.classes[owner].fields, n.name) # {}
        member == IF isField THEN named(c.classes[owner].fields, n.name)
                  ELSE named(c.classes[owner].methods, n.name)
        access == visibility(member.modifiers)
        inside == \E i \in DOMAIN ancestors(c, c.class) : ancestors(c, c.class)[i] = owner
    IN  IF at = {} THEN typed(error(c, "K0000"), AnyRef)
        ELSE typed(errorIf(access = 1 /\ ~inside /\ c.class # owner, "K0000",
                   errorIf(access = 0 /\ c.class # owner, "K0000",
                   errorIf(hasModifier(member.modifiers, "Static") # static, "K0000", c))),
                   IF isField THEN member.type
                   ELSE IF member.hasReturnType THEN member.returnType ELSE AnyRef)
checkContractMember(n, ref, c) ==
    LET contract == c.interfaces[ref.name]
        d == effectiveContract(c, contract)
        Sub(type) == substitute(type, contract, TypeRef(ref.name, ref.nullable, ref.typeArgs, <<>>))
    IN  CASE Named_(d.fields, n.name) # {} -> typed(c, Sub(named(d.fields, n.name).type))
          [] Named_(d.fields, n.name) = {} /\ Named_(d.methods, n.name) # {} ->
               typed(c, Sub(named(d.methods, n.name).returnType))
          [] OTHER -> typed(error(c, "K0000"), AnyRef)
checkMember(n, c) ==
    LET o == expr(n.object, c)
        statics == {x \in DOMAIN o.classes : o.t.name = ClassPrefix \o x}
        klass == IF statics # {} THEN CHOOSE x \in statics : TRUE ELSE o.t.name
    IN  CASE o.t.name = "null" -> typed(error(o, "KSEM2401"), AnyRef)
          [] o.t.name \in {"any", "object"} -> typed(o, AnyRef)
          [] o.t.name = "Error" ->
               CASE n.name \in {"message", "code"} -> typed(o, Plain("str"))
                 [] n.name = "cause" -> typed(o, AnyRef)
                 [] OTHER -> typed(error(o, "KSEM2404"), AnyRef)
          [] klass \in DOMAIN o.classes /\ klass \notin {"null", "any", "object", "Error"} ->
               checkClassMember(n, klass, statics # {}, o)
          [] klass \in DOMAIN o.interfaces \ (DOMAIN o.classes
                                             \cup {"null", "any", "object", "Error"}) ->
               checkContractMember(n, o.t, o)
          [] OTHER -> typed(error(o, "K0000"), AnyRef)
checkIndex(n, c) ==
    LET o == expr(n.object, c)
        x == expr(n.index, o)
        key == x.t.name
        args == o.t.typeArgs
        badKey == \/ o.t.name = "array" /\ key \notin {"int", "any"}
                  \/ o.t.name = "object" /\ key \notin {"str", "any"}
                  \/ o.t.name = "map" /\ Len(args) = 2 /\ ~compatible(x, args[1], x.t)
    IN  typed(errorIf(o.t.name \notin {"array", "object", "map", "any"}, "KSEM2402",
              errorIf(badKey, "KSEM2403", x)),
              CASE o.t.name = "array" /\ Len(args) = 1 -> args[1]
                [] o.t.name = "map" /\ Len(args) = 2 -> args[2]
                [] OTHER -> AnyRef)
construct(n, ts, c) ==
    LET init == findMember(c, c.classes[n.className], <<"method", "init">>)
        params == IF init = NoNode THEN <<>> ELSE init.params
        Bad(i) == ~compatible(c, params[i].type, ts[i])
    IN  errorIf(\E i \in 1..Min({Len(params), Len(ts)}) : Bad(i), "K0000",
        errorIf(Len(params) # Len(ts), "K0000", c))
created(n, d) == IF n.className \notin DOMAIN d.c.classes THEN error(d.c, "K0000")
                 ELSE construct(n, d.ts, d.c)
checkNew(n, c) == typed(created(n, exprs(n.args, c)), Plain(n.className))

(* The branch of an if expression gets a scope for its types, but no lexical *)
(* scope: its bindings stay defined names of the enclosing block.            *)
isFunction(s) == s.k = "FunctionDecl"
predeclare(list, c, code) ==
    FoldLeft(LAMBDA d, f : declare(errorIf(f.name \in DOMAIN Top(d.types), code, d), f.name,
                                   Mode(Plain("func"), FALSE)),
             c, SelectSeq(list, isFunction))
stmts(list, c) == FoldLeft(LAMBDA d, s : stmt(s, d), c, list)
leaveBranch(c, v) == [back(c, v) EXCEPT !.lexical = v.lexical]
branch(block, c) ==
    LET scoped == FoldLeft(LAMBDA d, f : declare(d, f.name, Mode(Plain("func"), FALSE)),
                           pushScope(c), SelectSeq(block.statements, isFunction))
        d == stmts(block.statements, scoped)
    IN  leaveBranch(c, IF block.tail = NoNode THEN typed(d, VoidRef) ELSE expr(block.tail, d))
merged(yes, no) == typed(no, mergeTypes(no, yes, no.t))
branches(n, yes) == merged(yes.t, branch(n.elseBranch, yes))
checkIfExpr(n, c) ==
    LET d == expr(n.condition, c)
    IN  branches(n, branch(n.thenBranch, errorIf(NotBool(d.t), "K0000", d)))

(* m: the checker and what the arms so far have covered.                     *)
armOf(m, wildcard, key, v) ==
    [c |-> v, wild |-> m.wild \/ wildcard, keys |-> m.keys \cup key, first |-> FALSE,
     t |-> IF m.first THEN v.t ELSE mergeTypes(v, m.t, v.t)]
matched(m, key, subject, p) ==
    errorIf(key # {} /\ key \subseteq m.keys, "KSEM1403",
    errorIf(~compatible(p, subject, p.t), "KSEM1404", p))
checkArm(m, arm, last, subject) ==
    LET lit == ~arm.wildcard /\ arm.pattern.k = "Literal"
        key == IF lit THEN {<<arm.pattern.kind, arm.pattern.lexeme>>} ELSE {}
        p == IF arm.wildcard THEN errorIf(m.wild \/ ~last, "KSEM1402", m.c)
             ELSE matched(m, key, subject, expr(arm.pattern, errorIf(m.wild, "KSEM1402", m.c)))
    IN  armOf(m, arm.wildcard, key, expr(arm.value, p))
exhaustive(subject, m) ==
    LET both == {<<"Bool", "true">>, <<"Bool", "false">>} \subseteq m.keys
    IN  typed(errorIf(~m.wild /\ ~(subject.name = "bool" /\ both), "KSEM1401", m.c), m.t)
checkMatch(n, c) ==
    LET s == expr(n.subject, c)
    IN  exhaustive(s.t, FoldLeft(LAMBDA d, i : checkArm(d, n.arms[i], i = Len(n.arms), s.t),
                            [c |-> s, wild |-> FALSE, keys |-> {}, first |-> TRUE, t |-> VoidRef],
                            [i \in DOMAIN n.arms |-> i]))

checkExpr(e, c) ==
    CASE e.k = "Literal"   -> typed(c, Plain(LiteralType(e.kind)))
      [] e.k = "Variable"  -> checkVariable(e, c)
      [] e.k = "SelfExpr"  -> typed(c, Plain(IF c.class = "" THEN "object" ELSE c.class))
      [] e.k = "SuperExpr" ->
           typed(c, IF c.class \in DOMAIN c.classes /\ c.classes[c.class].parent # ""
                    THEN Plain(c.classes[c.class].parent) ELSE Plain("object"))
      [] e.k = "Unary"     -> checkUnary(e, c)
      [] e.k = "AwaitExpr" -> expr(e.operand, c)
      [] e.k = "Binary"    -> checkBinary(e, c)
      [] e.k = "Assign"    -> checkAssign(e, c)
      [] e.k = "Call"      -> checkCall(e, c)
      [] e.k = "Member"    -> checkMember(e, c)
      [] e.k = "Index"     -> checkIndex(e, c)
      [] e.k = "ArrayExpr" ->
           LET d == exprs(e.elements, c)
           IN  typed(d.c, TypeRef("array", FALSE,
                   << IF d.ts = <<>> THEN AnyRef
                      ELSE FoldLeft(LAMBDA a, b : mergeTypes(d.c, a, b), d.ts[1], Tail(d.ts)) >>,
                   <<>>))
      [] e.k = "NewExpr"    -> checkNew(e, c)
      [] e.k = "ObjectExpr" ->
           typed(exprs([i \in DOMAIN e.fields |-> e.fields[i].value], c).c, Plain("object"))
      [] e.k = "IfExpr"     -> checkIfExpr(e, c)
      [] e.k = "MatchExpr"  -> checkMatch(e, c)

-----------------------------------------------------------------------------
(* Statements.                                                              *)
checkBlock(n, c) ==
    LET d == stmts(n.statements,
                   predeclare(n.statements, pushLexical(pushScope(c)), "KSEM1102"))
    IN  back(c, IF n.tail = NoNode THEN d ELSE expr(n.tail, d))
checkIf(n, c) ==
    LET d == expr(n.condition, c)
        yes == stmt(n.thenBranch, errorIf(NotBool(d.t), "K0000", d))
    IN  IF n.elseBranch = NoNode THEN yes ELSE stmt(n.elseBranch, yes)
inLoop(label, body, c) ==
    [stmt(body, [c EXCEPT !.labels = Append(@, label)]) EXCEPT !.labels = c.labels]
condition(e, c) ==
    LET d == expr(e, c) IN errorIf(NotBool(d.t), "KSEM1304", d)
checkWhile(n, c) == inLoop("", n.body, condition(n.condition, c))
(* The initializer of a loop is declared in the scope the loop stands in.    *)
checkLoop(n, c) ==
    LET a == errorIf(n.label # "" /\ n.label \in Range(c.labels), "KSEM1303", c)
        b == IF n.initializer = NoNode THEN a ELSE stmt(n.initializer, a)
        d == IF n.condition = NoNode THEN b ELSE condition(n.condition, b)
        e == IF n.increment = NoNode THEN d ELSE expr(n.increment, d)
    IN  inLoop(n.label, n.body, e)
checkBodies(n, c) ==
    LET twice == Cardinality({i \in DOMAIN n.cases : n.cases[i].isDefault}) > 1
    IN  [FoldLeft(LAMBDA d, arm : stmt(arm.body, d),
                  [errorIf(twice, "K0000", c) EXCEPT !.switchDepth = @ + 1], n.cases)
         EXCEPT !.switchDepth = @ - 1]
checkSwitch(n, c) ==
    LET s == expr(n.subject, c)
        Compare(v) == errorIf(~compatible(v, s.t, v.t), "K0000", v)
    IN  checkBodies(n, FoldLeft(LAMBDA d, arm : IF arm.isDefault THEN d
                                                ELSE Compare(expr(arm.value, d)), s, n.cases))
checkTry(n, c) ==
    LET t == stmt(n.tryBranch, c)
        scoped == declare(pushScope(t), n.catchName, Mode(Plain("Error"), FALSE))
        caught == IF n.catchBranch = NoNode THEN t ELSE back(t, stmt(n.catchBranch, scoped))
    IN  IF n.finallyBranch = NoNode THEN caught ELSE stmt(n.finallyBranch, caught)
checkJump(n, c, outside) ==
    errorIf(~outside /\ n.label # "" /\ n.label \notin Range(c.labels), "KSEM1302",
            errorIf(outside, "KSEM1301", c))
checkBreak(n, c)    == checkJump(n, c, c.labels = <<>> /\ c.switchDepth = 0)
checkContinue(n, c) == checkJump(n, c, c.labels = <<>>)
checkReturn(n, c) ==
    LET a == errorIf(~c.inFunction, "K0000", c)
        d == IF n.value = NoNode THEN typed(a, VoidRef) ELSE expr(n.value, a)
    IN  errorIf(d.inFunction /\ ~compatible(d, d.return, d.t), "K0000", d)

bind(n, type, c) == bindLexical(declare(c, n.name, Mode(type, n.mutableBinding)), n.name)
conforming(n, d, m) ==
    errorIf(~objectConforms(d, n.initializer, m.ts, d.interfaces[n.type.name]), "K0000",
            [m.c EXCEPT !.t = d.t])
initialized(n, i) ==
    IF n.hasType /\ n.type.name \in DOMAIN i.interfaces /\ n.initializer.k = "ObjectExpr"
    THEN conforming(n, i, exprs([j \in DOMAIN n.initializer.fields |->
                                    n.initializer.fields[j].value], i))
    ELSE i
bindValue(n, b) ==
    bind(n, IF n.hasType THEN n.type ELSE b.t,
         errorIf(n.hasType /\ ~compatible(b, n.type, b.t), "K0000", b))
checkVarDecl(n, c) ==
    LET a == errorIf(Len(c.types) = 1 /\ n.name \in DOMAIN c.functions \cup DOMAIN c.classes,
                     "KSEM1103",
             errorIf(n.name \in DOMAIN Top(c.types), "KSEM1102", c))
    IN  IF n.initializer # NoNode THEN bindValue(n, initialized(n, expr(n.initializer, a)))
        ELSE bind(n, n.type, errorIf(n.type.name # "any", "K0000", a))

RECURSIVE alwaysReturns(_)
alwaysReturns(s) ==
    CASE s.k \in {"ReturnStmt", "ThrowStmt"} -> TRUE
      [] s.k = "BlockStmt" -> \E i \in DOMAIN s.statements : alwaysReturns(s.statements[i])
      [] s.k = "IfStmt" -> alwaysReturns(s.thenBranch) /\ alwaysReturns(s.elseBranch)
      [] s.k = "TryStmt" -> \/ alwaysReturns(s.finallyBranch)
                            \/ /\ alwaysReturns(s.tryBranch)
                               /\ s.catchBranch = NoNode \/ alwaysReturns(s.catchBranch)
      [] s.k = "SwitchStmt" -> /\ \A i \in DOMAIN s.cases : alwaysReturns(s.cases[i].body)
                               /\ \E i \in DOMAIN s.cases : s.cases[i].isDefault
      [] OTHER -> FALSE

(* The body of a function or a method in a scope of its own that holds the   *)
(* names first (self and the fields) and then the parameters.                *)
inBody(f, names, class, c) ==
    LET repeated(i) == \E j \in 1..(i - 1) : f.params[j].name = f.params[i].name
        scoped == FoldLeft(LAMBDA d, i :
                      declare(errorIf(repeated(i), "KSEM1104", d), f.params[i].name,
                              Mode(f.params[i].type, FALSE)),
                      [pushScope(c) EXCEPT !.types[Len(c.types) + 1] = names],
                      [i \in DOMAIN f.params |-> i])
        d == stmt(f.body, [scoped EXCEPT !.inFunction = TRUE, !.class = class,
                              !.return = IF f.hasReturnType THEN f.returnType ELSE AnyRef])
        e == errorIf(f.hasReturnType /\ f.returnType.name # "void" /\ ~alwaysReturns(f.body),
                     "K0000", d)
    IN  [back(c, e) EXCEPT !.inFunction = c.inFunction, !.class = c.class,
                           !.return = c.return]
checkFunctionDecl(n, c) == inBody(n, noNames, c.class, c)

overrideErrors(c, m, base) ==
    LET Has == Named_(base.methods, m.name) # {}
        old == named(base.methods, m.name)
        over == hasModifier(m.modifiers, "Override")
        Bad == IF ~Has THEN {over}
               ELSE { ~over /\ m.name # "init", hasModifier(old.modifiers, "Final"),
                      m.hasReturnType /\ old.hasReturnType
                          /\ ~compatible(c, old.returnType, m.returnType),
                      ~sameParameters(m, old),
                      visibility(m.modifiers) < visibility(old.modifiers) }
    IN  TRUE \in Bad
checkMethod(n, m, c) ==
    LET abstract == hasModifier(m.modifiers, "Abstract")
        names == [x \in {n.fields[i].name : i \in DOMAIN n.fields} |->
                     Mode(n.fields[Max(Named_(n.fields, x))].type, TRUE)]
                 @@ ("self" :> Mode(Plain(n.name), FALSE))
        a == errorIf(abstract /\ ~hasModifier(n.modifiers, "Abstract"), "K0000",
             errorIf(abstract = (m.body # NoNode), "K0000", c))
    IN  IF m.body = NoNode THEN a ELSE inBody(m, names, n.name, a)
checkBase(n, c) ==
    IF n.parent \notin DOMAIN c.classes THEN c
    ELSE LET base == c.classes[n.parent]
         IN  FoldLeft(LAMBDA d, m : errorIf(overrideErrors(d, m, base), "K0000", d),
                      errorIf(hasModifier(base.modifiers, "Final"), "K0000", c), n.methods)
checkInterfaces(n, c) ==
    FoldLeft(LAMBDA d, ref :
                 errorIf(IF ref.name \notin DOMAIN c.interfaces THEN TRUE
                         ELSE missingMembers(d, n, c.interfaces[ref.name], ref) # <<>>,
                         "K0000", d),
             c, n.interfaces)
checkAbstract(n, c) ==
    LET hasBase == n.parent \in DOMAIN c.classes
        base == c.classes[n.parent]
        Unmet(m) == /\ hasModifier(m.modifiers, "Abstract")
                    /\ \/ Named_(n.methods, m.name) = {}
                       \/ hasModifier(named(n.methods, m.name).modifiers, "Abstract")
    IN  errorIf(n.parent # "" /\ ~hasBase, "K0000",
        errorIf(/\ hasBase /\ ~hasModifier(n.modifiers, "Abstract")
                /\ \E i \in DOMAIN base.methods : Unmet(base.methods[i]), "K0000", c))
checkClassDecl(n, c) ==
    LET a == errorIf({"Abstract", "Final"} \subseteq Range(n.modifiers), "K0000", c)
    IN  checkAbstract(n, FoldLeft(LAMBDA d, m : checkMethod(n, m, d),
                                  checkInterfaces(n, checkBase(n, a)), n.methods))

checkStmt(s, c) ==
    CASE s.k = "VarDecl"      -> checkVarDecl(s, c)
      [] s.k = "ExprStmt"     -> expr(s.expression, c)
      [] s.k = "BlockStmt"    -> checkBlock(s, c)
      [] s.k = "IfStmt"       -> checkIf(s, c)
      [] s.k = "WhileStmt"    -> checkWhile(s, c)
      [] s.k = "LoopStmt"     -> checkLoop(s, c)
      [] s.k = "SwitchStmt"   -> checkSwitch(s, c)
      [] s.k = "TryStmt"      -> checkTry(s, c)
      [] s.k = "BreakStmt"    -> checkBreak(s, c)
      [] s.k = "ContinueStmt" -> checkContinue(s, c)
      [] s.k = "ReturnStmt"   -> checkReturn(s, c)
      [] s.k = "ThrowStmt"    -> expr(s.value, c)
      [] s.k = "FunctionDecl" -> checkFunctionDecl(s, c)
      [] s.k = "ClassDecl"    -> checkClassDecl(s, c)
      [] s.k \in {"InterfaceDecl", "ImportDecl", "ExportDecl"} -> c
(* What comes before the node is computed before the node is visited: TLC     *)
(* would keep an argument for later.                                         *)
checkNode(kind, n, c) ==
    CHOOSE d \in {IF kind = "expression" THEN checkExpr(n, b) ELSE checkStmt(n, b) : b \in {c}} :
        TRUE

-----------------------------------------------------------------------------
(* analyze: first every function, class and interface of the module is       *)
(* entered, then the statements are checked in order.                        *)
enter(c, s) ==
    LET taken == DOMAIN c.functions \cup DOMAIN c.classes \cup DOMAIN c.types[1]
                 \cup DOMAIN c.interfaces
    IN  CASE s.k \notin {"FunctionDecl", "ClassDecl", "InterfaceDecl"} -> c
          [] s.k \in {"FunctionDecl", "ClassDecl", "InterfaceDecl"} /\ s.name \in taken ->
               error(c, "KSEM1101")
          [] s.k = "FunctionDecl" /\ s.name \notin taken ->
               bindLexical([c EXCEPT !.functions = (s.name :> s) @@ @], s.name)
          [] s.k = "ClassDecl" /\ s.name \notin taken ->
               bindLexical([c EXCEPT !.classes = (s.name :> s) @@ @], s.name)
          [] s.k = "InterfaceDecl" /\ s.name \notin taken ->
               [c EXCEPT !.interfaces = (s.name :> s) @@ @]
(* The classes whose parent chain comes back to a class it has been through. *)
cyclic(c) ==
    LET Parent(S) == S \cup {c.classes[n].parent : n \in S \cap DOMAIN c.classes}
        above == [n \in DOMAIN c.classes |->
                     FoldLeft(LAMBDA S, i : Parent(S), {c.classes[n].parent},
                              [i \in 1..Cardinality(DOMAIN c.classes) |-> i])]
    IN  {n \in DOMAIN c.classes : above[n] \subseteq DOMAIN c.classes}
analyze(program) ==
    LET c == FoldLeft(enter, Fresh, program)
        d == FoldLeft(LAMBDA e, n : error(e, "KSEM1043"), c, SetToSeq(cyclic(c)))
    IN  stmts(program, d).errors
=============================================================================
