----------------------------- MODULE HirProgram -----------------------------
(***************************************************************************)
(* The resolved program that HIR lowering produces (hir_program.hpp): names *)
(* are numbers of locals, functions and classes.  The tables of expressions *)
(* and statements are left out, a node holds its children themselves; what *)
(* was first in the table of statements is kept, because a function that is *)
(* never lowered keeps the id 0 and so runs it.  Numbers start at 1 and 0    *)
(* is an absent one.                                                       *)
(***************************************************************************)
EXTENDS Syntax

Constant(value)            == [k |-> "Constant", value |-> value]
Local(local)               == [k |-> "Local", local |-> local]
FunctionReference(f)       == [k |-> "FunctionReference", function |-> f]
Closure(f)                 == [k |-> "Closure", function |-> f]
HirUnary(op, operand)      == [k |-> "HirUnary", op |-> op, operand |-> operand]
HirAwait(operand)          == [k |-> "HirAwait", operand |-> operand]
HirBinary(left, op, right) ==
    [k |-> "HirBinary", left |-> left, op |-> op, right |-> right]
AssignLocal(local, value)  == [k |-> "AssignLocal", local |-> local, value |-> value]
AssignIndex(object, index, value) ==
    [k |-> "AssignIndex", object |-> object, index |-> index, value |-> value]
AssignMember(object, member, value) ==
    [k |-> "AssignMember", object |-> object, member |-> member, value |-> value]
HirCall(f, arguments)      == [k |-> "HirCall", function |-> f, arguments |-> arguments]
IndirectCall(callee, arguments) ==
    [k |-> "IndirectCall", callee |-> callee, arguments |-> arguments]
NativeCall(name, arguments) == [k |-> "NativeCall", name |-> name, arguments |-> arguments]
New(class, arguments)      == [k |-> "New", class |-> class, arguments |-> arguments]
HirMember(object, member)  == [k |-> "HirMember", object |-> object, member |-> member]
BoundMethod(receiver, f)   == [k |-> "BoundMethod", receiver |-> receiver, function |-> f]
HirIndex(object, index)    == [k |-> "HirIndex", object |-> object, index |-> index]
HirArray(elements)         == [k |-> "HirArray", elements |-> elements]
HirObject(names, values)   == [k |-> "HirObject", names |-> names, values |-> values]
HirIf(condition, yesPrelude, yes, noPrelude, no) ==
    [k |-> "HirIf", condition |-> condition, thenPrelude |-> yesPrelude, thenValue |-> yes,
     elsePrelude |-> noPrelude, elseValue |-> no]
HirArm(pattern, value)     == [pattern |-> pattern, value |-> value]
HirMatch(subject, arms)    == [k |-> "HirMatch", subject |-> subject, arms |-> arms]

BindLocal(local, initializer) ==
    [k |-> "BindLocal", local |-> local, initializer |-> initializer]
Evaluate(expression)       == [k |-> "Evaluate", expression |-> expression]
HirReturn(expression)      == [k |-> "HirReturn", expression |-> expression]
HirBlock(statements)       == [k |-> "HirBlock", statements |-> statements]
HirIfStatement(condition, yes, no) ==
    [k |-> "HirIfStatement", condition |-> condition, thenBranch |-> yes, elseBranch |-> no]
HirWhile(condition, body, label) ==
    [k |-> "HirWhile", condition |-> condition, body |-> body, label |-> label]
HirLoop(initializer, condition, increment, body, label) ==
    [k |-> "HirLoop", initializer |-> initializer, condition |-> condition,
     increment |-> increment, body |-> body, label |-> label]
HirCase(value, body)       == [value |-> value, body |-> body]
HirSwitch(subject, cases)  == [k |-> "HirSwitch", subject |-> subject, cases |-> cases]
HirBreak(label)            == [k |-> "HirBreak", label |-> label]
HirContinue(label)         == [k |-> "HirContinue", label |-> label]
HirThrow(value)            == [k |-> "HirThrow", value |-> value]
HirTry(try, catchLocal, catch, finally) ==
    [k |-> "HirTry", tryBranch |-> try, catchLocal |-> catchLocal, catchBranch |-> catch,
     finallyBranch |-> finally]

HirFunction(name) == [name |-> name, parameters |-> <<>>, body |-> NoNode, captures |-> <<>>]
HirMethod(name, f) == [name |-> name, function |-> f]
HirClass(name, fields) ==
    [name |-> name, parent |-> 0, fields |-> fields, methods |-> <<>>, constructor |-> 0]
=============================================================================
