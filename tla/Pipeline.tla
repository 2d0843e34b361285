------------------------------- MODULE Pipeline ------------------------------
(***************************************************************************)
(* LanguageSession::runSource for a program that is not interactive: parse,  *)
(* check, and the attempt to run it as bytecode (executeBytecodeSubset),     *)
(* which hands the program back to the tree walk when HIR lowering finds     *)
(* nothing but unsupported constructs.  One action per phase; each phase is  *)
(* an instance of its module.  fault is a phase that left the defined        *)
(* behaviour of the program: a null dereference, an exception nobody         *)
(* catches, an element of an empty vector.                                   *)
(***************************************************************************)
EXTENDS Parser

CONSTANTS Builtins, NativeFunctions, NativeMemberFunctions, LiteralValues

ASSUME BuiltinsAssumption ==
    \A n \in DOMAIN Builtins : Builtins[n].least \in Nat /\ Builtins[n].most \in Nat

C == INSTANCE Checker
H == INSTANCE HirLowering
M == INSTANCE HirToMir
B == INSTANCE Bytecode

VARIABLES
    phase,      \* "parse", "check", "hir", "mir", "bytecode", then how it ended
    unit,       \* what the last phase made of the program, the module that is run
    reported    \* the codes of the diagnostics the session returns

pipelineVars == <<parserVars, phase, unit, reported>>

Ended == {"rejected", "reported", "fault", "treeWalk", "executed"}
end(how, codes) == phase' = how /\ reported' = codes /\ unit' = NoNode
continue(next, made) == phase' = next /\ unit' = made /\ UNCHANGED reported

PipelineInit(input) ==
    /\ ParserInit(input)
    /\ phase = "parse"
    /\ unit = NoNode
    /\ reported = {}

Parse == phase = "parse" /\ parseNext /\ UNCHANGED <<phase, unit, reported>>
EndParse ==
    /\ phase = "parse"
    /\ parsed
    /\ IF diagnostics # <<>> THEN end("rejected", Range(diagnostics))
       ELSE continue("check", NoNode)
    /\ UNCHANGED parserVars
checked(errors) ==
    IF errors # <<>> THEN end("rejected", Range(errors)) ELSE continue("hir", NoNode)
Check == phase = "check" /\ checked(C!analyze(declarations)) /\ UNCHANGED parserVars
onlyUnsupported(codes) == codes = {"KHIR1201"}
loweredToHir(h) ==
    LET codes == Range(h.diagnostics)
    IN  CASE h.fault -> end("fault", {})
          [] ~h.fault /\ onlyUnsupported(codes) -> end("treeWalk", {})
          [] ~h.fault /\ codes # {} /\ ~onlyUnsupported(codes) -> end("reported", codes)
          [] OTHER -> continue("mir", [functions |-> h.functions, classes |-> h.classes,
                                       body |-> h.body, first |-> h.first])
LowerToHir == phase = "hir" /\ loweredToHir(H!lower(declarations)) /\ UNCHANGED parserVars
verified(mir, codes) ==
    IF codes # {} THEN end("reported", codes) ELSE continue("bytecode", mir)
loweredToMir(m) ==
    IF m.fault THEN end("fault", {}) ELSE verified(m.mir, B!verifyMir(m.mir))
LowerToMir == phase = "mir" /\ loweredToMir(M!lowerHirToMir(unit)) /\ UNCHANGED parserVars
compiled(b) ==
    IF b.diagnostics # {} THEN end("reported", b.diagnostics)
    ELSE continue("executed", b.module)
CompileBytecode ==
    phase = "bytecode" /\ compiled(B!compileMirToBytecode(unit)) /\ UNCHANGED parserVars

PipelineNext == Parse \/ EndParse \/ Check \/ LowerToHir \/ LowerToMir \/ CompileBytecode
=============================================================================
