----------------------------- MODULE MirProgram -----------------------------
(***************************************************************************)
(* The register code of basic blocks that MIR lowering produces            *)
(* (mir_program.hpp) and its verifier (mir_verifier.cpp).  Temporaries,     *)
(* blocks, functions and classes are numbered from 1; a function number of  *)
(* 0 is the body of the module.                                            *)
(***************************************************************************)
EXTENDS Integers, Sequences

NoConstant == [kind |-> "None", v |-> "none"]
Instruction(kind, destination, first, second) ==
    [k |-> kind, destination |-> destination, first |-> first, second |-> second,
     constant |-> NoConstant, function |-> 0, arguments |-> <<>>, capture |-> 0,
     sources |-> <<>>, names |-> <<>>]
NameConstant(name)        == [kind |-> "String", v |-> name]
CaptureSource(kind, index) == [kind |-> kind, index |-> index]

NoTerminator              == [k |-> "None"]
ReturnTerminator(value)   == [k |-> "Return", value |-> value]
GotoTerminator(target)    == [k |-> "Goto", target |-> target]
BranchTerminator(condition, yes, no) ==
    [k |-> "Branch", condition |-> condition, trueBlock |-> yes, falseBlock |-> no]
ThrowTerminator(value)    == [k |-> "Throw", value |-> value]

BasicBlock == [instructions |-> <<>>, terminator |-> NoTerminator]
Region(protected, handler, error) ==
    [protectedBlocks |-> protected, handler |-> handler, errorDestination |-> error]
(* Also the module: a body without parameters and captures.                  *)
MirFunction(name, parameters, captures) ==
    [name |-> name, parameterCount |-> parameters, captures |-> captures,
     temporaryCount |-> 0, blocks |-> <<BasicBlock>>, regions |-> <<>>]
MirProgram(module, functions, classes) ==
    [module |-> module, functions |-> functions, classes |-> classes]

-----------------------------------------------------------------------------
(* The verifier, as the set of the codes it reports.                        *)
BinaryKinds == {"Add", "Subtract", "Multiply", "Divide", "Remainder", "Equal", "NotEqual", "Less",
            "LessEqual", "Greater", "GreaterEqual", "LoadIndex"}
UnaryKinds == {"Negate", "Not", "Move"}
If(bad, code) == IF bad THEN {code} ELSE {}
(* The code for a first operand that is no temporary, by instruction kind.    *)
FirstCode == [k \in UnaryKinds \cup BinaryKinds \cup {"LoadMember", "BindMethod", "StoreCapture",
                                              "CallIndirect"} |->
    CASE k = "LoadMember"   -> "KMIR1129" [] k = "BindMethod"   -> "KMIR1139"
      [] k = "StoreCapture" -> "KMIR1119" [] k = "CallIndirect" -> "KMIR1115"
      [] OTHER -> "KMIR1103"]
ArgumentCode == [k \in {"CallNative", "MakeArray", "MakeObject", "MakeInstance", "StoreIndex",
                        "StoreMember", "Call", "CallIndirect"} |->
    CASE k = "CallNative" -> "KMIR1132" [] k = "Call" -> "KMIR1113"
      [] k = "CallIndirect" -> "KMIR1116" [] k \in {"StoreIndex", "StoreMember"} -> "KMIR1136"
      [] OTHER -> "KMIR1133"]
NameCode == [k \in {"LoadMember", "CallNative", "StoreMember"} |->
    CASE k = "LoadMember" -> "KMIR1130" [] k = "CallNative" -> "KMIR1131"
      [] k = "StoreMember" -> "KMIR1137"]
FunctionCode == [k \in {"BindMethod", "Call", "FunctionReference", "Closure"} |->
    CASE k = "BindMethod" -> "KMIR1140" [] k = "Call" -> "KMIR1111"
      [] k = "FunctionReference" -> "KMIR1114" [] k = "Closure" -> "KMIR1120"]

verifyInstruction(program, body, i) ==
    LET temporaries == 1..body.temporaryCount
        captures    == DOMAIN body.captures
        known       == i.function \in DOMAIN program.functions
        target      == program.functions[i.function]
        Source(s)   == IF s.kind = "Local" THEN If(s.index \notin temporaries, "KMIR1122")
                       ELSE If(s.index \notin captures, "KMIR1123")
    IN  UNION {
          If(i.destination \notin temporaries, "KMIR1102"),
          IF i.k \in DOMAIN FirstCode THEN If(i.first \notin temporaries, FirstCode[i.k]) ELSE {},
          If(i.k \in BinaryKinds /\ i.second \notin temporaries, "KMIR1104"),
          IF i.k \in DOMAIN ArgumentCode
          THEN If(\E n \in DOMAIN i.arguments : i.arguments[n] \notin temporaries,
                  ArgumentCode[i.k]) ELSE {},
          IF i.k \in DOMAIN NameCode THEN If(i.constant.kind # "String", NameCode[i.k]) ELSE {},
          IF i.k \in DOMAIN FunctionCode THEN If(~known, FunctionCode[i.k]) ELSE {},
          If(i.k = "Call" /\ known /\ Len(i.arguments) # target.parameterCount, "KMIR1112"),
          If(i.k = "Closure" /\ known /\ Len(i.sources) # Len(target.captures), "KMIR1121"),
          IF i.k = "Closure" THEN UNION {Source(i.sources[n]) : n \in DOMAIN i.sources} ELSE {},
          If(i.k = "LoadCapture" /\ i.capture \notin captures, "KMIR1117"),
          If(i.k = "StoreCapture" /\ i.capture \notin captures, "KMIR1118"),
          If(i.k = "MakeObject" /\ Len(i.names) # Len(i.arguments), "KMIR1134"),
          If(i.k = "MakeInstance" /\ i.function \notin DOMAIN program.classes, "KMIR1138"),
          If(i.k = "StoreIndex" /\ Len(i.arguments) # 3, "KMIR1135"),
          If(i.k = "StoreMember" /\ Len(i.arguments) # 2, "KMIR1135") }
verifyTerminator(body, t) ==
    LET Bad(n) == n \notin 1..body.temporaryCount
    IN  CASE t.k = "None"   -> {"KMIR1105"}
          [] t.k = "Return" -> If(Bad(t.value), "KMIR1106")
          [] t.k = "Goto"   -> If(t.target \notin DOMAIN body.blocks, "KMIR1107")
          [] t.k = "Throw"  -> If(Bad(t.value), "KMIR1124")
          [] t.k = "Branch" ->
               If(Bad(t.condition), "KMIR1108")
               \cup If(~({t.trueBlock, t.falseBlock} \subseteq DOMAIN body.blocks), "KMIR1109")
verifyRegion(body, r) ==
    LET Block(n) == n \in DOMAIN body.blocks
    IN  If(r.protectedBlocks = {}, "KMIR1125")
        \cup If(\E n \in r.protectedBlocks : ~Block(n), "KMIR1126")
        \cup If(~Block(r.handler), "KMIR1127")
        \cup If(r.errorDestination \notin 1..body.temporaryCount, "KMIR1128")
verifyBody(program, body) ==
    If(body.blocks = <<>>, "KMIR1101")
    \cup If(body.parameterCount > body.temporaryCount, "KMIR1110")
    \cup UNION {LET block == body.blocks[b]
                IN  verifyTerminator(body, block.terminator)
                    \cup UNION {verifyInstruction(program, body, block.instructions[n]) :
                                    n \in DOMAIN block.instructions} : b \in DOMAIN body.blocks}
    \cup UNION {verifyRegion(body, body.regions[r]) : r \in DOMAIN body.regions}
verifyClass(program, class) ==
    LET Function(n) == n \in DOMAIN program.functions
    IN  If(class.parent \notin {0} \cup DOMAIN program.classes, "KMIR1201")
        \cup If(class.constructor # 0 /\ ~Function(class.constructor), "KMIR1202")
        \cup If(\E n \in DOMAIN class.methods : ~Function(class.methods[n].function), "KMIR1203")
verifyMir(program) ==
    verifyBody(program, program.module)
    \cup UNION {verifyBody(program, program.functions[n]) : n \in DOMAIN program.functions}
    \cup UNION {verifyClass(program, program.classes[n]) : n \in DOMAIN program.classes}
=============================================================================
