----------------------------- MODULE CallStack -----------------------------
(***************************************************************************)
(* The control part of the bytecode virtual machine                        *)
(* (bytecode_virtual_machine.cpp): calls, returns, natives that call back  *)
(* into the machine, and unwindError, which decides where an error goes    *)
(* from nothing but the instruction pointers of the frames.                *)
(*                                                                         *)
(* A program is given by the length and the exception handlers of every    *)
(* function; any instruction may sit at any index, except that the last    *)
(* one never falls through (validateBytecode).  Indices start at 0, as in  *)
(* the code.  executeFrames runs once for the program and once more for    *)
(* every callback a native is waiting for: those C++ activations are the   *)
(* sequence activations.                                                   *)
(***************************************************************************)
EXTENDS Integers, Sequences

CONSTANTS
  Functions,
  Entry,          \* the entry function
  Length,         \* number of instructions of a function
  Handlers,       \* its exception handlers, in matching order
  MaxFrames,      \* MaximumCallFrames (4096 in the code)
  MaxNativeDepth  \* 64 in the code

(* What validateBytecode guarantees of the functions of a module.          *)
Program(functions, entry, length, handlers) ==
  /\ entry \in functions
  /\ length \in [functions -> Nat \ {0}]
  /\ handlers \in [functions -> Seq([first : Nat, count : Nat, handler : Nat])]
  /\ \A f \in functions : \A h \in 1..Len(handlers[f]) : handlers[f][h].handler < length[f]

ASSUME StackAssumption ==
  /\ Program(Functions, Entry, Length, Handlers)
  /\ MaxFrames \in Nat \ {0}
  /\ MaxNativeDepth \in Nat

VARIABLES
  frames,             \* [function, instructionPointer, at]: see below
  activations,        \* [base, saved]: baseDepth and savedBoundary
  exceptionBoundary,
  nativeDepth,
  phase               \* who runs: see Phase

vars == <<frames, activations, exceptionBoundary, nativeDepth, phase>>

(* interpreting: the loop of the innermost executeFrames; native: a native *)
(* called by the last frame; failing: that native, its callback having     *)
(* failed; halted: execute has returned.                                   *)
Phase == {"interpreting", "native", "failing", "halted"}

(* at is a history variable: the index of the instruction the frame is in  *)
(* the middle of, whatever was done to its instructionPointer.             *)
Frame == [function : Functions, instructionPointer : Nat, at : Nat]
Activation == [base : Nat, saved : Nat]

NewFrame(f) == [function |-> f, instructionPointer |-> 0, at |-> 0]

Depth == Len(frames)
Top == frames[Depth]
Base == activations[Len(activations)].base

(* The last frame goes on at instruction n.                                *)
ContinueAt(fs, n) ==
  [fs EXCEPT ![Len(fs)] = [function |-> @.function, instructionPointer |-> n, at |-> n]]

(* The first d frames: frames.resize(d).                                   *)
Resized(d) == SubSeq(frames, 1, d)

(* An instruction that is not the last of its function.                    *)
MayFallThrough == Top.instructionPointer + 1 < Length[Top.function]

Interpreting == phase = "interpreting"
-----------------------------------------------------------------------------
Init ==
  /\ frames = <<NewFrame(Entry)>>
  /\ activations = <<[base |-> 0, saved |-> 0]>>
  /\ exceptionBoundary = 0
  /\ nativeDepth = 0
  /\ phase = "interpreting"

(* Any instruction without control flow, and a jump that is not taken.     *)
Advance ==
  /\ Interpreting /\ MayFallThrough
  /\ frames' = ContinueAt(frames, Top.instructionPointer + 1)
  /\ UNCHANGED <<activations, exceptionBoundary, nativeDepth, phase>>

Jump(target) ==
  /\ Interpreting
  /\ target \in 0..(Length[Top.function] - 1)
  /\ frames' = ContinueAt(frames, target)
  /\ UNCHANGED <<activations, exceptionBoundary, nativeDepth, phase>>

(* Mutation of Call: the caller's instruction pointer stays at the call.   *)
CallInPlace(f) ==
  /\ Interpreting /\ MayFallThrough
  /\ Depth < MaxFrames
  /\ frames' = Append(frames, NewFrame(f))
  /\ UNCHANGED <<activations, exceptionBoundary, nativeDepth, phase>>

(* Call, CallIndirect and MakeInstance with a constructor: the caller's    *)
(* instruction pointer moves on before the called frame is pushed.         *)
Call(f) ==
  /\ Interpreting /\ MayFallThrough
  /\ Depth < MaxFrames
  /\ frames' = Append([frames EXCEPT ![Depth].instructionPointer = @ + 1], NewFrame(f))
  /\ UNCHANGED <<activations, exceptionBoundary, nativeDepth, phase>>

(* CallNative leaves the instruction pointer at the call while the native  *)
(* runs, and moves it on when the native has returned.                     *)
CallNative ==
  /\ Interpreting /\ MayFallThrough
  /\ phase' = "native"
  /\ UNCHANGED <<frames, activations, exceptionBoundary, nativeDepth>>

NativeReturn ==
  /\ phase = "native"
  /\ phase' = "interpreting"
  /\ frames' = ContinueAt(frames, Top.instructionPointer + 1)
  /\ UNCHANGED <<activations, exceptionBoundary, nativeDepth>>

(* callbacks.invoke                                                        *)
NativeInvoke(f) ==
  /\ phase = "native"
  /\ Depth < MaxFrames /\ nativeDepth < MaxNativeDepth
  /\ activations' = Append(activations, [base |-> Depth, saved |-> exceptionBoundary])
  /\ exceptionBoundary' = Depth
  /\ nativeDepth' = nativeDepth + 1
  /\ frames' = Append(frames, NewFrame(f))
  /\ phase' = "interpreting"

(* Mutation of LeaveActivation: the boundary is not restored.              *)
LeaveKeepsBoundary ==
  LET ended == activations[Len(activations)]
  IN  /\ frames' = Resized(ended.base)
      /\ exceptionBoundary' = exceptionBoundary
      /\ nativeDepth' = nativeDepth - 1
      /\ activations' = SubSeq(activations, 1, Len(activations) - 1)

(* The end of callbacks.invoke, whatever executeFrames returned.           *)
LeaveActivation ==
  LET ended == activations[Len(activations)]
  IN  /\ frames' = Resized(ended.base)
      /\ exceptionBoundary' = ended.saved
      /\ nativeDepth' = nativeDepth - 1
      /\ activations' = SubSeq(activations, 1, Len(activations) - 1)

(* Return to the calling frame, out of a callback, or out of the program.  *)
Return ==
  /\ Interpreting /\ Depth > Base + 1
  /\ LET rest == Resized(Depth - 1)
     IN  frames' = ContinueAt(rest, rest[Len(rest)].instructionPointer)
  /\ UNCHANGED <<activations, exceptionBoundary, nativeDepth, phase>>

ReturnFromCallback ==
  /\ Interpreting /\ Depth = Base + 1
  /\ nativeDepth > 0
  /\ LeaveActivation
  /\ phase' = "native"

Finish ==
  /\ Interpreting /\ Depth = Base + 1
  /\ nativeDepth = 0
  /\ phase' = "halted"
  /\ UNCHANGED <<frames, activations, exceptionBoundary, nativeDepth>>
-----------------------------------------------------------------------------
(* Mutations of FaultInstruction: no frame, or every frame, is taken to    *)
(* have moved past the instruction it is in.                               *)
FaultAtPointer(k) == frames[k].instructionPointer

FaultBeforePointer(k) == frames[k].instructionPointer - 1

(* unwindError: the instruction blamed for the error in frame k is the one *)
(* its instruction pointer is at, or, in a frame that waits for a call,    *)
(* the one before; the first handler around it takes the error, in the     *)
(* innermost frame that has one.                                           *)
FaultInstruction(k) ==
  IF k = Depth THEN frames[k].instructionPointer ELSE frames[k].instructionPointer - 1

Covers(handler, i) == i >= handler.first /\ i - handler.first < handler.count

Matching(k) ==
  {h \in 1..Len(Handlers[frames[k].function]) :
     Covers(Handlers[frames[k].function][h], FaultInstruction(k))}

(* Mutation of Handling: the frames of the callback's callers are searched *)
(* as well.                                                                *)
HandlingAnywhere == {k \in 1..Depth : Matching(k) # {}}

Handling == {k \in (exceptionBoundary + 1)..Depth : Matching(k) # {}}

Failing == phase \in {"interpreting", "native", "failing"}

(* raise, Throw, and the failure of a native.                              *)
Catch(k, h) ==
  /\ Failing
  /\ k \in Handling /\ \A l \in Handling : l <= k
  /\ h \in Matching(k) /\ \A g \in Matching(k) : h <= g
  /\ frames' = ContinueAt(Resized(k), Handlers[frames[k].function][h].handler)
  /\ phase' = "interpreting"
  /\ UNCHANGED <<activations, exceptionBoundary, nativeDepth>>

(* Nothing above the boundary takes it: the callback fails, and with it    *)
(* the native that waits for it, ...                                       *)
EscapeCallback ==
  /\ Failing /\ Handling = {}
  /\ nativeDepth > 0
  /\ LeaveActivation
  /\ phase' = "failing"

(* ... or the program ends with a diagnostic.                              *)
Uncaught ==
  /\ Failing /\ Handling = {}
  /\ nativeDepth = 0
  /\ phase' = "halted"
  /\ UNCHANGED <<frames, activations, exceptionBoundary, nativeDepth>>

Next ==
  \/ Advance
  \/ \E f \in Functions : \E target \in 0..(Length[f] - 1) : Jump(target)
  \/ \E f \in Functions : Call(f) \/ NativeInvoke(f)
  \/ CallNative \/ NativeReturn
  \/ Return \/ ReturnFromCallback \/ Finish
  \/ \E k \in 1..Depth : \E h \in Matching(k) : Catch(k, h)
  \/ EscapeCallback \/ Uncaught

Spec == Init /\ [][Next]_vars
-----------------------------------------------------------------------------
TypeOK ==
  /\ frames \in Seq(Frame) /\ frames # <<>>
  /\ activations \in Seq(Activation) /\ activations # <<>>
  /\ exceptionBoundary \in Nat
  /\ nativeDepth \in Nat
  /\ phase \in Phase

(* exceptionBoundary and nativeDepth, saved and restored by hand around    *)
(* every callback, always describe the innermost callback in progress, and *)
(* every callback has at least one frame of its own.                       *)
BoundariesNested ==
  /\ nativeDepth = Len(activations) - 1
  /\ exceptionBoundary = Base
  /\ Base < Depth
  /\ activations[1].base = 0
  /\ \A i \in 2..Len(activations) : activations[i].saved = activations[i - 1].base
  /\ \A i, j \in 1..Len(activations) : i < j => activations[i].base < activations[j].base

(* A frame waits for its call at the instruction after it, unless it is a  *)
(* native it waits for: then at the call itself.  No instruction pointer   *)
(* leaves its function (KVM2099 is unreachable).                           *)
WaitsForNative(k) == \E i \in 2..Len(activations) : activations[i].base = k

SuspendedAtCall ==
  \A k \in 1..Depth :
    /\ frames[k].instructionPointer < Length[frames[k].function]
    /\ frames[k].instructionPointer =
         IF k = Depth \/ WaitsForNative(k) THEN frames[k].at ELSE frames[k].at + 1
    /\ (k < Depth \/ phase \in {"native", "failing"}) =>
          frames[k].at + 1 < Length[frames[k].function]

(* An error is taken by the innermost frame of the running activation that *)
(* was executing, or waiting in, a protected instruction, and there by the *)
(* first handler around that instruction.                                  *)
Protects(k, h) == Covers(Handlers[frames[k].function][h], frames[k].at)

TakenBy(k, h) ==
  /\ k > Base
  /\ Protects(k, h)
  /\ \A g \in 1..(h - 1) : ~Protects(k, g)
  /\ \A l \in (k + 1)..Depth : \A g \in 1..Len(Handlers[frames[l].function]) : ~Protects(l, g)

InnermostHandler ==
  [][\A k \in 1..Depth : \A h \in Matching(k) : Catch(k, h) => TakenBy(k, h)]_vars

(* An error leaves a callback, or the program, only if no frame of the     *)
(* activation was executing a protected instruction.                       *)
NoHandlerSkipped ==
  [][(EscapeCallback \/ Uncaught) =>
       \A k \in (Base + 1)..Depth : \A h \in 1..Len(Handlers[frames[k].function]) : ~Protects(k, h)]_vars

(* While a native waits for a callback, nothing changes the frames below   *)
(* it, whatever the callback calls, throws or catches.                     *)
CallersUntouched ==
  [][/\ Len(activations') >= Len(activations) => Len(frames') > Base
     /\ \A k \in 1..Base : k <= Len(frames') /\ frames'[k] = frames[k]]_vars
=============================================================================
