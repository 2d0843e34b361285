------------------------------- MODULE Bytecode ------------------------------
(***************************************************************************)
(* The bytecode of a program (bytecode_module.hpp), its generation from MIR *)
(* (kyna_bytecode/generators) and its validator.  The module b holds the    *)
(* tables that the instructions index, all from 1; function 0 is the body of*)
(* the module, functions[f + 1] is function f.                             *)
(***************************************************************************)
EXTENDS MirProgram, SequencesExt, FiniteSetsExt, TLC

BytecodeInstruction(opcode, destination, first, second) ==
    [opcode |-> opcode, destination |-> destination, first |-> first, second |-> second]
ExceptionHandler(first, count, handler, error) ==
    [firstInstruction |-> first, instructionCount |-> count, handlerInstruction |-> handler,
     errorRegister |-> error]
BytecodeFunction(f) ==
    [name |-> f.name, registerCount |-> f.temporaryCount, parameterCount |-> f.parameterCount,
     captureCount |-> Len(f.captures), instructions |-> <<>>, exceptionHandlers |-> <<>>]
BytecodeModule(program) ==
    [constants |-> <<>>, callArguments |-> <<>>, nativeFunctions |-> <<>>,
     objectFieldNames |-> <<>>, closureCaptures |-> <<>>, classes |-> program.classes,
     functions |-> <<BytecodeFunction(program.module)>>
                   \o [n \in DOMAIN program.functions |-> BytecodeFunction(program.functions[n])]]

-----------------------------------------------------------------------------
(* compileBody: the blocks one after the other, a branch as two jumps.        *)
opcodeFor(kind) ==
    CASE kind = "Constant" -> "LoadConstant" [] kind = "FunctionReference" -> "LoadFunction"
      [] kind = "Closure" -> "MakeClosure" [] OTHER -> kind
WithArguments == {"Call", "CallIndirect", "CallNative", "MakeArray", "MakeObject",
                  "MakeInstance", "StoreIndex", "StoreMember"}
WithConstant  == {"Constant", "LoadMember", "StoreMember"}
(* The tables grow by what this instruction refers to.                       *)
enterTables(b, i) ==
    LET Grow(table, when, entry) == IF when THEN Append(table, entry) ELSE table
    IN  [b EXCEPT !.constants        = Grow(@, i.k \in WithConstant, i.constant),
                  !.callArguments    = Grow(@, i.k \in WithArguments, i.arguments),
                  !.nativeFunctions  = Grow(@, i.k = "CallNative", i.constant.v),
                  !.objectFieldNames = Grow(@, i.k = "MakeObject", i.names),
                  !.closureCaptures  = Grow(@, i.k = "Closure", i.sources)]
instructionFor(b, i) ==
    LET I(first, second) == BytecodeInstruction(opcodeFor(i.k), i.destination, first, second)
        arguments == Len(b.callArguments)
        constant  == Len(b.constants)
    IN  CASE i.k = "Constant"          -> I(constant, 0)
          [] i.k = "FunctionReference" -> I(i.function, 0)
          [] i.k = "Closure"           -> I(i.function, Len(b.closureCaptures))
          [] i.k = "LoadCapture"       -> I(i.capture, 0)
          [] i.k = "StoreCapture"      -> I(i.capture, i.first)
          [] i.k = "Call"              -> I(i.function, arguments)
          [] i.k = "CallIndirect"      -> I(i.first, arguments)
          [] i.k = "CallNative"        -> I(Len(b.nativeFunctions), arguments)
          [] i.k = "LoadMember"        -> I(i.first, constant)
          [] i.k = "BindMethod"        -> I(i.first, i.function)
          [] i.k = "MakeArray"         -> I(arguments, 0)
          [] i.k = "MakeObject"        -> I(arguments, Len(b.objectFieldNames))
          [] i.k = "MakeInstance"      -> I(i.function, arguments)
          [] i.k = "StoreIndex"        -> I(arguments, 0)
          [] i.k = "StoreMember"       -> I(arguments, constant)
          [] OTHER                     -> I(i.first, i.second)
terminatorSize(t) == IF t.k = "Branch" THEN 2 ELSE 1
jumpsFor(t, offsets) ==
    LET Jump(block) == BytecodeInstruction("Jump", 0, offsets[block], 0)
    IN  CASE t.k = "Return" -> <<BytecodeInstruction("Return", 0, t.value, 0)>>
          [] t.k = "Goto"   -> <<Jump(t.target)>>
          [] t.k = "Throw"  -> <<BytecodeInstruction("Throw", 0, t.value, 0)>>
          [] t.k = "Branch" -> <<BytecodeInstruction("JumpIfFalse", 0, t.condition,
                                                     offsets[t.falseBlock]),
                                 Jump(t.trueBlock)>>
compileBody(b, f, body) ==
    LET size(n) == Len(body.blocks[n].instructions) + terminatorSize(body.blocks[n].terminator)
        offsets == FoldLeft(LAMBDA o, n : Append(o, Last(o) + size(n)), <<1>>,
                            [n \in DOMAIN body.blocks |-> n])
        Emit(d, i) == LET e == enterTables(d, i)
                      IN  [e EXCEPT !.functions[f].instructions =
                              Append(@, instructionFor(e, i))]
        Block(d, block) ==
            [FoldLeft(Emit, d, block.instructions) EXCEPT
                !.functions[f].instructions = @ \o jumpsFor(block.terminator, offsets)]
        handlers(r) == [n \in 1..Cardinality(r.protectedBlocks) |->
            LET block == Min(r.protectedBlocks) + n - 1
            IN  ExceptionHandler(offsets[block], offsets[block + 1] - offsets[block],
                                 offsets[r.handler], r.errorDestination)]
    IN  [FoldLeft(Block, b, body.blocks) EXCEPT
            !.functions[f].exceptionHandlers =
                FlattenSeq([r \in DOMAIN body.regions |-> handlers(body.regions[r])])]
compile(program) ==
    FoldLeft(LAMBDA b, f : compileBody(b, f, IF f = 1 THEN program.module
                                             ELSE program.functions[f - 1]),
             BytecodeModule(program), [f \in 1..(Len(program.functions) + 1) |-> f])

-----------------------------------------------------------------------------
(* validateBytecode, as the set of the codes it reports.  The format version, *)
(* the entry function and a first function are fixed by the generator.       *)
registers(f)   == 1..f.registerCount
KnownFunction(b, f) == f \in 0..(Len(b.functions) - 1)
functionAt(b, f)    == b.functions[f + 1]
Computes == {"Add", "Subtract", "Multiply", "Divide", "Remainder", "Equal", "NotEqual", "Less",
             "LessEqual", "Greater", "GreaterEqual", "LoadIndex"}
NoDestination  == {"Jump", "JumpIfFalse", "Throw", "Return"}
FirstRegister  == Computes \cup {"Move", "Negate", "Not", "JumpIfFalse", "CallIndirect",
                                 "LoadMember", "BindMethod", "Throw", "Return"}
SecondRegister == Computes \cup {"StoreCapture"}
(* Where the index of an argument list stands, and the code for a bad one.    *)
ArgumentsInSecond == {"Call", "CallIndirect", "CallNative", "MakeInstance"}
ArgumentsInFirst  == {"MakeArray", "MakeObject", "StoreIndex", "StoreMember"}
ListCode(op) == CASE op \in {"Call", "CallIndirect", "CallNative"} -> "KBC1109"
                  [] op = "MakeInstance" -> "KBC1202"
                  [] op \in {"MakeArray", "MakeObject"} -> "KBC1126"
                  [] op \in {"StoreIndex", "StoreMember"} -> "KBC1128"
stringConstant(b, n) == n \in DOMAIN b.constants /\ b.constants[n].kind = "String"

validateFunctionUse(b, i) ==
    LET known == KnownFunction(b, i.first)
    IN  CASE i.opcode = "LoadFunction" -> If(~known, "KBC1112") \cup If(i.first = 0, "KBC1113")
          [] i.opcode = "MakeClosure"  -> If(~known, "KBC1114") \cup If(i.first = 0, "KBC1115")
          [] i.opcode = "Call"         -> If(~known, "KBC1108") \cup If(i.first = 0, "KBC1111")
          [] i.opcode = "BindMethod" ->
               IF ~KnownFunction(b, i.second) \/ i.second = 0 THEN {"KBC1209"}
               ELSE If(functionAt(b, i.second).parameterCount = 0, "KBC1210")
          [] i.opcode \notin {"LoadFunction", "MakeClosure", "Call", "BindMethod"} -> {}
validateClosure(b, f, i) ==
    LET sources == b.closureCaptures[i.second]
        Bad(s) == IF s.kind = "Local" THEN If(s.index \notin registers(f), "KBC1103")
                  ELSE If(s.index \notin 1..f.captureCount, "KBC1118")
    IN  IF i.opcode # "MakeClosure" \/ ~KnownFunction(b, i.first) THEN {}
        ELSE IF i.second \notin DOMAIN b.closureCaptures THEN {"KBC1116"}
        ELSE If(Len(sources) # functionAt(b, i.first).captureCount, "KBC1117")
             \cup UNION {Bad(sources[n]) : n \in DOMAIN sources}
validateArguments(b, f, i) ==
    LET list == IF i.opcode \in ArgumentsInSecond THEN i.second ELSE i.first
        arguments == b.callArguments[list]
        expected == CASE i.opcode = "StoreIndex" -> 3 [] i.opcode = "StoreMember" -> 2
                      [] OTHER -> Len(arguments)
    IN  IF i.opcode \notin ArgumentsInFirst \cup ArgumentsInSecond THEN {}
        ELSE IF i.opcode = "Call" /\ (~KnownFunction(b, i.first) \/ i.first = 0) THEN {}
        ELSE IF list \notin DOMAIN b.callArguments THEN {ListCode(i.opcode)}
        ELSE UNION {
          If(~(Range(arguments) \subseteq registers(f)), "KBC1103"),
          If(expected # Len(arguments), "KBC1129"),
          If(i.opcode = "Call" /\ Len(arguments) # functionAt(b, i.first).parameterCount,
             "KBC1110"),
          IF i.opcode = "MakeObject"
          THEN If(IF i.second \notin DOMAIN b.objectFieldNames THEN TRUE
                  ELSE Len(b.objectFieldNames[i.second]) # Len(arguments), "KBC1127") ELSE {} }
validateInstruction(b, f, i) ==
    LET Register(n) == If(n \notin registers(f), "KBC1103")
        Offset(n)   == If(n \notin DOMAIN f.instructions, "KBC1105")
    IN  UNION {
          IF i.opcode \in NoDestination THEN {} ELSE Register(i.destination),
          IF i.opcode \in FirstRegister THEN Register(i.first) ELSE {},
          IF i.opcode \in SecondRegister THEN Register(i.second) ELSE {},
          IF i.opcode = "Jump" THEN Offset(i.first) ELSE {},
          IF i.opcode = "JumpIfFalse" THEN Offset(i.second) ELSE {},
          If(i.opcode = "LoadConstant" /\ i.first \notin DOMAIN b.constants, "KBC1104"),
          If(i.opcode = "LoadCapture" /\ i.first \notin 1..f.captureCount, "KBC1119"),
          If(i.opcode = "StoreCapture" /\ i.first \notin 1..f.captureCount, "KBC1120"),
          If(i.opcode = "CallNative" /\ i.first \notin DOMAIN b.nativeFunctions, "KBC1125"),
          If(i.opcode = "MakeInstance" /\ i.first \notin DOMAIN b.classes, "KBC1201"),
          If(i.opcode = "LoadMember" /\ ~stringConstant(b, i.second), "KBC1124"),
          If(/\ i.opcode = "StoreMember" /\ i.first \in DOMAIN b.callArguments
             /\ ~stringConstant(b, i.second), "KBC1130"),
          validateFunctionUse(b, i), validateClosure(b, f, i), validateArguments(b, f, i) }
validateHandler(f, h) ==
    LET size == Len(f.instructions)
    IN  If(\/ h.instructionCount = 0 \/ h.firstInstruction > size
           \/ h.instructionCount > size - (h.firstInstruction - 1), "KBC1121")
        \cup If(h.handlerInstruction > size, "KBC1122")
        \cup If(h.errorRegister \notin registers(f), "KBC1123")
validateFunction(b, f) ==
    If(f.registerCount = 0, "KBC1101")
    \cup (IF f.instructions = <<>> THEN {"KBC1102"}
          ELSE UNION {
            If(f.parameterCount > f.registerCount, "KBC1107"),
            UNION {validateInstruction(b, f, f.instructions[n]) : n \in DOMAIN f.instructions},
            UNION {validateHandler(f, f.exceptionHandlers[n]) :
                       n \in DOMAIN f.exceptionHandlers},
            If(Last(f.instructions).opcode \notin {"Return", "Jump", "Throw"}, "KBC1106") })
(* The walk from any class of C to its parent never ends.                     *)
circle(b, C) == C # {} /\ \A c \in C : b.classes[c].parent \in C
validateClass(b, class) ==
    LET Receiver(f, unknown, none) ==
            IF ~KnownFunction(b, f) THEN {unknown}
            ELSE If(functionAt(b, f).parameterCount = 0, none)
    IN  UNION {
          If(class.parent \notin {0} \cup DOMAIN b.classes, "KBC1203"),
          IF class.constructor = 0 THEN {}
          ELSE Receiver(class.constructor, "KBC1204", "KBC1206"),
          UNION {Receiver(class.methods[n].function, "KBC1205", "KBC1207") :
                     n \in DOMAIN class.methods},
          If(\E C \in SUBSET DOMAIN b.classes : class.parent \in C /\ circle(b, C), "KBC1208") }
validateBytecode(b) ==
    If(b.functions[1].parameterCount # 0, "KBC1004")
    \cup (UNION {validateFunction(b, b.functions[n]) : n \in DOMAIN b.functions})
    \cup (UNION {validateClass(b, b.classes[n]) : n \in DOMAIN b.classes})
(* compileMirToBytecode: a module only when the verifier and the validator    *)
(* both find nothing.                                                        *)
compileMirToBytecode(program) ==
    LET bad == verifyMir(program)
        b == compile(program)
    IN  IF bad # {} THEN [diagnostics |-> bad, module |-> NoConstant]
        ELSE [diagnostics |-> validateBytecode(b), module |-> b]
-----------------------------------------------------------------------------
(* What executeFrames takes for granted: it indexes registers, captures and   *)
(* tables with the operands of an instruction and checks none of them.       *)
readRegisters(b, i) ==
    CASE i.opcode \in {"Move", "Not", "Negate", "JumpIfFalse", "LoadMember", "BindMethod",
                       "Throw", "Return"} -> {i.first}
      [] i.opcode \in {"Equal", "NotEqual", "Add", "Subtract", "Multiply", "Divide", "Remainder",
                       "Less", "LessEqual", "Greater", "GreaterEqual", "LoadIndex"}
             -> {i.first, i.second}
      [] i.opcode = "StoreCapture" -> {i.second}
      [] i.opcode = "CallIndirect" -> {i.first} \cup Range(b.callArguments[i.second])
      [] i.opcode \in {"Call", "CallNative", "MakeInstance"} -> Range(b.callArguments[i.second])
      [] i.opcode \in {"MakeArray", "MakeObject", "StoreIndex", "StoreMember"}
             -> Range(b.callArguments[i.first])
      [] OTHER -> {}
writtenRegisters(i) ==
    IF i.opcode \in {"Jump", "JumpIfFalse", "Throw", "Return"} THEN {} ELSE {i.destination}
(* The cell of a captured register is made in the frame, or handed on.        *)
captured(b, f, i) ==
    /\ i.second \in DOMAIN b.closureCaptures
    /\ \A s \in Range(b.closureCaptures[i.second]) :
          s.index \in IF s.kind = "Capture" THEN 1..f.captureCount ELSE registers(f)
inTables(b, f, i) ==
    CASE i.opcode = "LoadConstant" -> i.first \in DOMAIN b.constants
      [] i.opcode = "LoadFunction" -> KnownFunction(b, i.first)
      [] i.opcode = "BindMethod" -> KnownFunction(b, i.second)
      [] i.opcode = "MakeClosure" -> KnownFunction(b, i.first) /\ captured(b, f, i)
      [] i.opcode \in {"LoadCapture", "StoreCapture"} -> i.first \in 1..f.captureCount
      [] i.opcode = "Call" -> KnownFunction(b, i.first) /\ i.second \in DOMAIN b.callArguments
      [] i.opcode = "CallIndirect" -> i.second \in DOMAIN b.callArguments
      [] i.opcode = "CallNative" -> /\ i.first \in DOMAIN b.nativeFunctions
                                    /\ i.second \in DOMAIN b.callArguments
      [] i.opcode = "MakeInstance" -> /\ i.first \in DOMAIN b.classes
                                      /\ i.second \in DOMAIN b.callArguments
      [] i.opcode = "LoadMember" -> stringConstant(b, i.second)
      [] i.opcode = "MakeArray" -> i.first \in DOMAIN b.callArguments
      [] i.opcode = "MakeObject" ->
             /\ i.first \in DOMAIN b.callArguments /\ i.second \in DOMAIN b.objectFieldNames
             /\ Len(b.objectFieldNames[i.second]) <= Len(b.callArguments[i.first])
      [] i.opcode = "StoreIndex" -> /\ i.first \in DOMAIN b.callArguments
                                    /\ Len(b.callArguments[i.first]) >= 3
      [] i.opcode = "StoreMember" -> /\ i.first \in DOMAIN b.callArguments
                                     /\ Len(b.callArguments[i.first]) >= 2
                                     /\ stringConstant(b, i.second)
      [] OTHER -> TRUE
(* The head of the loop finds an instruction, and unwindError a handler.      *)
goesOn(f, n) ==
    LET i == f.instructions[n]
    IN  CASE i.opcode = "Jump" -> i.first \in DOMAIN f.instructions
          [] i.opcode = "JumpIfFalse" -> {n + 1, i.second} \subseteq DOMAIN f.instructions
          [] i.opcode \in {"Throw", "Return"} -> TRUE
          [] OTHER -> n + 1 \in DOMAIN f.instructions
catches(f, h) ==
    /\ h.errorRegister \in registers(f)
    /\ h.handlerInstruction \in DOMAIN f.instructions
(* A frame has the function's registers, the arguments in the first of them.  *)
canBeEntered(f) == f.instructions # <<>> /\ f.parameterCount \in 0..f.registerCount
hasParts(b, class) ==
    /\ class.parent \in {0} \cup DOMAIN b.classes
    /\ KnownFunction(b, class.constructor)
    /\ \A m \in Range(class.methods) : KnownFunction(b, m.function)
(* Every frame but that of a closure has no captures, whatever it runs.       *)
enteredWithoutCaptures(b) ==
    LET all == UNION {Range(b.functions[n].instructions) : n \in DOMAIN b.functions}
    IN  {0} \cup {i.first : i \in {i \in all : i.opcode \in {"Call", "LoadFunction"}}}
        \cup {i.second : i \in {i \in all : i.opcode = "BindMethod"}}
        \cup {class.constructor : class \in Range(b.classes)}
        \cup UNION {{m.function : m \in Range(class.methods)} : class \in Range(b.classes)}
closuresAreComplete(b) ==
    \A n \in DOMAIN b.functions : \A i \in Range(b.functions[n].instructions) :
        i.opcode = "MakeClosure" =>
            Len(b.closureCaptures[i.second]) = functionAt(b, i.first).captureCount
capturesAreThere(b) ==
    /\ closuresAreComplete(b)
    /\ \A f \in enteredWithoutCaptures(b) : functionAt(b, f).captureCount = 0

(* The types of bytecode_module.hpp; positions are counted from 1.             *)
InstructionType == [opcode : STRING, destination : Nat, first : Nat, second : Nat]
HandlerType == [firstInstruction : Nat \ {0}, instructionCount : Nat,
                handlerInstruction : Nat \ {0}, errorRegister : Nat]
SourceType == [kind : {"Local", "Capture"}, index : Nat]
WellTyped(b) ==
    /\ Len(b.functions) \in Nat \ {0} /\ DOMAIN b.functions = 1..Len(b.functions)
    /\ \A n \in DOMAIN b.functions :
          LET f == b.functions[n]
          IN  /\ f.instructions \in Seq(InstructionType)
              /\ f.exceptionHandlers \in Seq(HandlerType)
              /\ {f.registerCount, f.parameterCount, f.captureCount} \subseteq Nat
    /\ b.callArguments \in Seq(Seq(Nat)) /\ b.objectFieldNames \in Seq(Seq(STRING))
    /\ b.closureCaptures \in Seq(Seq(SourceType))

(* Every operand that the machine does not check is right, and its searches   *)
(* through the parents of a class end.                                        *)
InRange(b) ==
    /\ \A k \in DOMAIN b.functions :
          LET f == b.functions[k]
          IN  /\ canBeEntered(f)
              /\ \A n \in DOMAIN f.instructions :
                    LET i == f.instructions[n]
                    IN  /\ inTables(b, f, i) /\ goesOn(f, n)
                        /\ readRegisters(b, i) \cup writtenRegisters(i) \subseteq registers(f)
              /\ \A n \in DOMAIN f.exceptionHandlers : catches(f, f.exceptionHandlers[n])
    /\ \A n \in DOMAIN b.classes : hasParts(b, b.classes[n])
    /\ \A C \in SUBSET DOMAIN b.classes : ~circle(b, C)
(* ... and so are the captures.                                               *)
Runnable(b) == InRange(b) /\ capturesAreThere(b)
=============================================================================
