------------------------------- MODULE Syntax -------------------------------
(***************************************************************************)
(* The syntax tree the parser builds and every later phase reads: one      *)
(* constructor per node structure of kyna_syntax.  A node is a record whose *)
(* field k names the C++ structure; an absent child (a null ExprPtr or     *)
(* StmtPtr) is NoNode.  Source spans are left out: no property is about    *)
(* them.  Names, labels and lexemes are strings that are only compared.    *)
(***************************************************************************)
EXTENDS Sequences

NoNode == [k |-> "None"]

(* Expressions (expression_nodes.hpp).                                     *)
Literal(kind, lexeme)    == [k |-> "Literal", kind |-> kind, lexeme |-> lexeme]
Variable(name)           == [k |-> "Variable", name |-> name]
SelfExpr                 == [k |-> "SelfExpr"]
SuperExpr                == [k |-> "SuperExpr"]
Unary(op, right)         == [k |-> "Unary", op |-> op, right |-> right]
AwaitExpr(operand)       == [k |-> "AwaitExpr", operand |-> operand]
Binary(left, op, right)  == [k |-> "Binary", left |-> left, op |-> op, right |-> right]
Assign(target, value)    == [k |-> "Assign", target |-> target, value |-> value]
Call(callee, args)       == [k |-> "Call", callee |-> callee, args |-> args]
Member(object, name)     == [k |-> "Member", object |-> object, name |-> name]
Index(object, index)     == [k |-> "Index", object |-> object, index |-> index]
ArrayExpr(elements)      == [k |-> "ArrayExpr", elements |-> elements]
NewExpr(class, args)     == [k |-> "NewExpr", className |-> class, args |-> args]
ObjectField(name, value) == [name |-> name, value |-> value]
ObjectExpr(fields)       == [k |-> "ObjectExpr", fields |-> fields]
IfExpr(condition, yes, no) ==
    [k |-> "IfExpr", condition |-> condition, thenBranch |-> yes, elseBranch |-> no]
MatchArm(pattern, value, wildcard) ==
    [pattern |-> pattern, value |-> value, wildcard |-> wildcard]
MatchExpr(subject, arms) == [k |-> "MatchExpr", subject |-> subject, arms |-> arms]

(* Statements (statement_nodes.hpp).                                       *)
ExprStmt(expression)     == [k |-> "ExprStmt", expression |-> expression]
BlockStmt(statements, tail) ==
    [k |-> "BlockStmt", statements |-> statements, tail |-> tail]
IfStmt(condition, yes, no) ==
    [k |-> "IfStmt", condition |-> condition, thenBranch |-> yes, elseBranch |-> no]
WhileStmt(condition, body) ==
    [k |-> "WhileStmt", condition |-> condition, body |-> body, label |-> ""]
LoopStmt(initializer, condition, increment, body, label) ==
    [k |-> "LoopStmt", initializer |-> initializer, condition |-> condition,
     increment |-> increment, body |-> body, label |-> label]
SwitchCase(value, body, isDefault) ==
    [value |-> value, body |-> body, isDefault |-> isDefault]
SwitchStmt(subject, cases) == [k |-> "SwitchStmt", subject |-> subject, cases |-> cases]
BreakStmt(label)         == [k |-> "BreakStmt", label |-> label]
ContinueStmt(label)      == [k |-> "ContinueStmt", label |-> label]
ReturnStmt(value)        == [k |-> "ReturnStmt", value |-> value]
ThrowStmt(value)         == [k |-> "ThrowStmt", value |-> value]
TryStmt(try, catchName, catch, finally) ==
    [k |-> "TryStmt", tryBranch |-> try, catchName |-> catchName,
     catchBranch |-> catch, finallyBranch |-> finally]

(* Types and declarations (type_model.hpp, declaration_nodes.hpp).         *)
TypeRef(name, nullable, args, unions) ==
    [name |-> name, nullable |-> nullable, typeArgs |-> args, unionTypes |-> unions]
Plain(name)              == TypeRef(name, FALSE, <<>>, <<>>)
VoidRef                  == Plain("void")
Param(name, type)        == [name |-> name, type |-> type]
CallSignature(params, result) == [params |-> params, returnType |-> result]
IndexSignature(name, key, value) ==
    [keyName |-> name, keyType |-> key, valueType |-> value]
ImportSpecifier(imported, local) == [imported |-> imported, local |-> local]
VarDecl(mutable, name, type, hasType, initializer) ==
    [k |-> "VarDecl", mutableBinding |-> mutable, name |-> name, type |-> type,
     hasType |-> hasType, initializer |-> initializer, exported |-> FALSE,
     isDefault |-> FALSE]
FunctionDecl(name, params, result, hasResult, body, modifiers) ==
    [k |-> "FunctionDecl", name |-> name, params |-> params, returnType |-> result,
     hasReturnType |-> hasResult, body |-> body, modifiers |-> modifiers,
     exported |-> FALSE, isDefault |-> FALSE]
FieldDecl(name, type, initializer, modifiers) ==
    [name |-> name, type |-> type, initializer |-> initializer, modifiers |-> modifiers]
ClassDecl(name, parent, fields, methods, modifiers, interfaces) ==
    [k |-> "ClassDecl", name |-> name, parent |-> parent, fields |-> fields,
     methods |-> methods, modifiers |-> modifiers, interfaces |-> interfaces,
     exported |-> FALSE, isDefault |-> FALSE]
InterfaceDecl(name, typeParams, parents) ==
    [k |-> "InterfaceDecl", name |-> name, typeParams |-> typeParams,
     parents |-> parents, fields |-> <<>>, methods |-> <<>>, callSignatures |-> <<>>,
     indexSignatures |-> <<>>, optionalFields |-> {}, exported |-> FALSE,
     isDefault |-> FALSE]
ImportDecl(path, alias, default, named, namespace) ==
    [k |-> "ImportDecl", path |-> path, alias |-> alias, defaultName |-> default,
     named |-> named, namespaceAlias |-> namespace]
ExportDecl(names)        == [k |-> "ExportDecl", names |-> names]

Named == {"VarDecl", "FunctionDecl", "ClassDecl", "InterfaceDecl"}
Token(kind, lexeme)      == [k |-> kind, x |-> lexeme]
=============================================================================
