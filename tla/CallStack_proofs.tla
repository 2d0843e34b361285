-------------------------- MODULE CallStack_proofs --------------------------
(***************************************************************************)
(* Proofs about CallStack for every program: any number of functions, any  *)
(* lengths, any exception handlers, any limits.  The last part is about    *)
(* the programs: what the validator of Bytecode accepts is what the        *)
(* machine takes for granted.                                              *)
(***************************************************************************)
EXTENDS CallStack, SequenceTheorems, TLAPS

Code == INSTANCE Bytecode

(* The assumption on the program, clause by clause.                        *)
LEMMA ProgramFacts ==
  /\ Entry \in Functions
  /\ Length \in [Functions -> Nat \ {0}]
  /\ Handlers \in [Functions -> Seq([first : Nat, count : Nat, handler : Nat])]
  /\ \A f \in Functions : \A h \in 1..Len(Handlers[f]) : Handlers[f][h].handler < Length[f]
  /\ MaxFrames \in Nat \ {0} /\ MaxNativeDepth \in Nat
BY StackAssumption DEF Program

(* The state of the machine that every step preserves.                     *)
StackInv == TypeOK /\ BoundariesNested /\ SuspendedAtCall
-----------------------------------------------------------------------------
(* Sequences as the steps change them.                                     *)
LEMMA SequenceFacts ==
  ASSUME TypeOK
  PROVE  /\ Depth \in Nat \ {0} /\ Top \in Frame
         /\ \A k \in 1..Depth : frames[k] \in Frame
         /\ Len(activations) \in Nat \ {0} /\ Base \in Nat
         /\ \A i \in 1..Len(activations) : activations[i] \in Activation
<1>1. Depth \in Nat \ {0} /\ Len(activations) \in Nat \ {0}
  BY EmptySeq DEF TypeOK, Depth
<1>2. \A k \in 1..Depth : frames[k] \in Frame
  BY ElementOfSeq DEF TypeOK, Depth
<1>3. \A i \in 1..Len(activations) : activations[i] \in Activation
  BY ElementOfSeq DEF TypeOK
<1>4. QED  BY <1>1, <1>2, <1>3 DEF Top, Base, Activation

LEMMA Resizing ==
  ASSUME NEW S, NEW s \in Seq(S), NEW d \in 1..Len(s)
  PROVE  /\ SubSeq(s, 1, d) \in Seq(S) /\ SubSeq(s, 1, d) # <<>>
         /\ Len(SubSeq(s, 1, d)) = d
         /\ \A k \in 1..d : SubSeq(s, 1, d)[k] = s[k]
<1>1. Len(s) \in Nat  BY LenProperties
<1>2. \A i \in 1..d : s[i] \in S  BY <1>1, ElementOfSeq
<1>3. /\ SubSeq(s, 1, d) \in Seq(S)
      /\ Len(SubSeq(s, 1, d)) = d
      /\ \A k \in 1..d : SubSeq(s, 1, d)[k] = s[k]
  BY <1>1, <1>2, SubSeqProperties
<1>4. QED  BY <1>1, <1>3, EmptySeq

LEMMA Continuing ==
  ASSUME NEW fs \in Seq(Frame), fs # <<>>, NEW n \in Nat
  PROVE  /\ ContinueAt(fs, n) \in Seq(Frame)
         /\ ContinueAt(fs, n) # <<>>
         /\ Len(ContinueAt(fs, n)) = Len(fs)
         /\ ContinueAt(fs, n)[Len(fs)] =
              [function |-> fs[Len(fs)].function, instructionPointer |-> n, at |-> n]
         /\ \A k \in 1..(Len(fs) - 1) : ContinueAt(fs, n)[k] = fs[k]
<1> DEFINE last == Len(fs)
           new == [function |-> fs[last].function, instructionPointer |-> n, at |-> n]
<1>1. last \in Nat \ {0} /\ fs[last] \in Frame
  BY EmptySeq, ElementOfSeq
<1>2. new \in Frame
  BY <1>1 DEF Frame
<1>3. ContinueAt(fs, n) = [fs EXCEPT ![last] = new]
  BY DEF ContinueAt
<1>4. last \in 1..Len(fs)
  BY <1>1
<1>5. /\ [fs EXCEPT ![last] = new] \in Seq(Frame)
      /\ Len([fs EXCEPT ![last] = new]) = Len(fs)
      /\ \A k \in 1..Len(fs) : [fs EXCEPT ![last] = new][k] = IF k = last THEN new ELSE fs[k]
  BY <1>2, <1>4, ExceptSeq
<1>6. QED  BY <1>1, <1>3, <1>5, EmptySeq
-----------------------------------------------------------------------------
(* What a step that makes frame d the last one and lets it go on at n does *)
(* to the frames.                                                          *)
LEMMA ResumedAt ==
  ASSUME TypeOK, NEW d \in 1..Depth, NEW n \in Nat
  PROVE  /\ ContinueAt(Resized(d), n) \in Seq(Frame)
         /\ ContinueAt(Resized(d), n) # <<>>
         /\ Len(ContinueAt(Resized(d), n)) = d
         /\ ContinueAt(Resized(d), n)[d] =
              [function |-> frames[d].function, instructionPointer |-> n, at |-> n]
         /\ \A k \in 1..(d - 1) : ContinueAt(Resized(d), n)[k] = frames[k]
<1>1. frames \in Seq(Frame) /\ d \in 1..Len(frames)
  BY DEF TypeOK, Depth
<1>2. /\ Resized(d) \in Seq(Frame) /\ Resized(d) # <<>>
      /\ Len(Resized(d)) = d
      /\ \A k \in 1..d : Resized(d)[k] = frames[k]
  BY <1>1, Resizing DEF Resized
<1>3. d \in 1..d /\ \A k \in 1..(d - 1) : k \in 1..d
  BY <1>1, SequenceFacts
<1>4. QED  BY <1>2, <1>3, Continuing

(* The frames at and below a base wait for natives or calls; above the     *)
(* base of the running activation nobody waits for a native.               *)
LEMMA BasesBelow ==
  ASSUME TypeOK, BoundariesNested
  PROVE  /\ Base \in 0..(Depth - 1)
         /\ \A k \in 1..Depth : WaitsForNative(k) => k <= Base
         /\ nativeDepth > 0 => Base \in 1..Depth /\ WaitsForNative(Base)
         /\ nativeDepth > 0 <=> Len(activations) >= 2
<1>1. /\ Depth \in Nat \ {0} /\ Base \in Nat /\ Len(activations) \in Nat \ {0}
      /\ \A i \in 1..Len(activations) : activations[i].base \in Nat
  BY SequenceFacts DEF Activation
<1>2. \A i \in 2..Len(activations) : activations[i].base <= Base /\ activations[i].base > 0
  BY <1>1 DEF BoundariesNested, Base
<1>3. QED  BY <1>1, <1>2 DEF BoundariesNested, WaitsForNative, Base

(* A step that leaves the activations alone and lets frame d, which is     *)
(* above the base, go on at n keeps the invariant.                         *)
LEMMA Resume ==
  ASSUME StackInv, NEW d \in (Base + 1)..Depth, NEW n \in Nat,
         n < Length[frames[d].function],
         frames' = ContinueAt(Resized(d), n),
         UNCHANGED <<activations, exceptionBoundary, nativeDepth>>,
         phase' = "interpreting"
  PROVE  StackInv'
<1>1. TypeOK /\ BoundariesNested /\ SuspendedAtCall
  BY DEF StackInv
<1>2. Depth \in Nat /\ Base \in Nat /\ d \in 1..Depth
  BY <1>1, SequenceFacts
<1>3. /\ frames' \in Seq(Frame) /\ frames' # <<>> /\ Len(frames') = d
      /\ frames'[d] = [function |-> frames[d].function, instructionPointer |-> n, at |-> n]
      /\ \A k \in 1..(d - 1) : frames'[k] = frames[k]
  BY <1>1, <1>2, ResumedAt
<1>4. Depth' = d /\ Base' = Base
  BY <1>3 DEF Depth, Base
<1>5. TypeOK'
  BY <1>1, <1>3 DEF TypeOK, Phase
<1>6. BoundariesNested'
  BY <1>1, <1>2, <1>4 DEF BoundariesNested
<1>7. SuspendedAtCall'
  <2> SUFFICES ASSUME NEW k \in 1..d
               PROVE /\ frames'[k].instructionPointer < Length[frames'[k].function]
                     /\ frames'[k].instructionPointer =
                          IF k = d \/ WaitsForNative(k) THEN frames'[k].at ELSE frames'[k].at + 1
                     /\ k < d => frames'[k].at + 1 < Length[frames'[k].function]
    BY <1>4 DEF SuspendedAtCall, WaitsForNative
  <2>1. CASE k = d
    BY <1>2, <1>3, <2>1
  <2>2. CASE k # d
    <3>1. k \in 1..(d - 1) /\ k \in 1..Depth /\ k < Depth
      BY <1>2, <2>2
    <3>2. frames'[k] = frames[k]
      BY <1>3, <3>1
    <3>3. QED  BY <1>1, <1>2, <2>2, <3>1, <3>2 DEF SuspendedAtCall
  <2>3. QED  BY <2>1, <2>2
<1>8. QED  BY <1>5, <1>6, <1>7 DEF StackInv

LEMMA ResizedWhole ==
  ASSUME TypeOK
  PROVE  Resized(Depth) = frames
BY SubSeqFull DEF TypeOK, Resized, Depth

(* A step that only changes who runs.  A native may be called at any       *)
(* instruction but the last.                                               *)
LEMMA OnlyPhase ==
  ASSUME StackInv, UNCHANGED <<frames, activations, exceptionBoundary, nativeDepth>>,
         phase' \in Phase,
         phase' \in {"native", "failing"} =>
           phase \in {"native", "failing"} \/ MayFallThrough
  PROVE  StackInv'
<1>1. TypeOK /\ BoundariesNested /\ SuspendedAtCall
  BY DEF StackInv
<1>2. Depth' = Depth /\ Base' = Base /\ Depth \in Nat \ {0}
  BY <1>1, SequenceFacts DEF Depth, Base
<1>3. TypeOK' /\ BoundariesNested'
  BY <1>1, <1>2 DEF TypeOK, BoundariesNested
<1>4. SuspendedAtCall'
  <2>1. \A k \in 1..Depth : WaitsForNative(k)' <=> WaitsForNative(k)
    BY DEF WaitsForNative
  <2>2. phase' \in {"native", "failing"} => frames[Depth].at + 1 < Length[frames[Depth].function]
    BY <1>1, <1>2 DEF SuspendedAtCall, MayFallThrough, Top
  <2>3. QED  BY <1>1, <1>2, <2>1, <2>2 DEF SuspendedAtCall
<1>5. QED  BY <1>3, <1>4 DEF StackInv

(* Pushing a frame on a caller whose instruction pointer is moved on.      *)
LEMMA CallStep ==
  ASSUME StackInv, NEW f \in Functions, Call(f)
  PROVE  StackInv'
<1> DEFINE caller == [frames[Depth] EXCEPT !.instructionPointer = @ + 1]
           moved == [frames EXCEPT ![Depth] = caller]
<1>1. TypeOK /\ BoundariesNested /\ SuspendedAtCall
  BY DEF StackInv
<1>2. /\ Depth \in Nat \ {0} /\ Base \in 0..(Depth - 1) /\ frames[Depth] \in Frame
      /\ \A k \in 1..Depth : WaitsForNative(k) => k <= Base
  BY <1>1, SequenceFacts, BasesBelow
<1>3. caller \in Frame /\ NewFrame(f) \in Frame
  BY <1>2 DEF Frame, NewFrame
<1>4. /\ moved \in Seq(Frame) /\ Len(moved) = Depth
      /\ \A k \in 1..Depth : moved[k] = IF k = Depth THEN caller ELSE frames[k]
  <2>1. frames \in Seq(Frame) /\ Depth \in 1..Len(frames)
    BY <1>1, <1>2 DEF TypeOK, Depth
  <2> HIDE DEF caller
  <2>2. /\ moved \in Seq(Frame) /\ Len(moved) = Len(frames)
        /\ \A k \in 1..Len(frames) : moved[k] = IF k = Depth THEN caller ELSE frames[k]
    BY <1>3, <2>1, ExceptSeq
  <2>3. QED  BY <2>2 DEF Depth
<1>5. frames' = Append(moved, NewFrame(f))
  BY DEF Call
<1>6. /\ frames' \in Seq(Frame) /\ frames' # <<>> /\ Len(frames') = Depth + 1
      /\ frames'[Depth + 1] = NewFrame(f)
      /\ \A k \in 1..Depth : frames'[k] = moved[k]
  <2> HIDE DEF moved
  <2>1. /\ frames' \in Seq(Frame) /\ Len(frames') = Depth + 1
        /\ frames'[Depth + 1] = NewFrame(f)
        /\ \A k \in 1..Depth : frames'[k] = moved[k]
    BY <1>2, <1>3, <1>4, <1>5, AppendProperties
  <2>2. QED  BY <1>2, <2>1, EmptySeq
<1>7. /\ Depth' = Depth + 1 /\ Base' = Base
      /\ UNCHANGED <<activations, exceptionBoundary, nativeDepth, phase>>
  BY <1>6 DEF Call, Depth, Base
<1>8. TypeOK' /\ BoundariesNested'
  BY <1>1, <1>2, <1>6, <1>7, ProgramFacts DEF TypeOK, BoundariesNested, Call
<1>9. SuspendedAtCall'
  <2> SUFFICES ASSUME NEW k \in 1..(Depth + 1)
               PROVE /\ frames'[k].instructionPointer < Length[frames'[k].function]
                     /\ frames'[k].instructionPointer =
                          IF k = Depth + 1 \/ WaitsForNative(k) THEN frames'[k].at
                                                                ELSE frames'[k].at + 1
                     /\ k < Depth + 1 => frames'[k].at + 1 < Length[frames'[k].function]
    <3>1. phase' = "interpreting"  BY DEF Call, Interpreting
    <3>2. \A k \in 1..Depth' : WaitsForNative(k)' <=> WaitsForNative(k)
      BY <1>7 DEF WaitsForNative
    <3>3. QED  BY <1>7, <3>1, <3>2 DEF SuspendedAtCall
  <2>1. CASE k = Depth + 1
    BY <1>2, <1>6, <2>1, ProgramFacts DEF NewFrame
  <2>2. CASE k = Depth
    <3>1. frames'[k] = caller  BY <1>2, <1>4, <1>6, <2>2
    <3>2. /\ caller.function = frames[Depth].function /\ caller.at = frames[Depth].at
          /\ caller.instructionPointer = frames[Depth].instructionPointer + 1
      BY <1>2 DEF Frame
    <3>3. frames[Depth].instructionPointer = frames[Depth].at
      BY <1>1, <1>2 DEF SuspendedAtCall
    <3>4. frames[Depth].instructionPointer + 1 < Length[frames[Depth].function]
      BY DEF Call, MayFallThrough, Top
    <3>5. ~WaitsForNative(k)  BY <1>2, <2>2
    <3> HIDE DEF caller
    <3>6. QED  BY <1>2, <2>2, <3>1, <3>2, <3>3, <3>4, <3>5
  <2>3. CASE k < Depth
    <3>1. k \in 1..Depth /\ frames'[k] = frames[k]
      BY <1>2, <1>4, <1>6, <2>3
    <3>2. QED  BY <1>1, <1>2, <2>3, <3>1 DEF SuspendedAtCall
  <2>4. QED  BY <1>2, <2>1, <2>2, <2>3
<1>10. QED  BY <1>8, <1>9 DEF StackInv

(* A native calls back: its own frame becomes the boundary.                *)
LEMMA InvokeStep ==
  ASSUME StackInv, NEW f \in Functions, NativeInvoke(f)
  PROVE  StackInv'
<1> DEFINE entered == [base |-> Depth, saved |-> exceptionBoundary]
           n == Len(activations)
<1>1. TypeOK /\ BoundariesNested /\ SuspendedAtCall
  BY DEF StackInv
<1>2. /\ Depth \in Nat \ {0} /\ Base \in 0..(Depth - 1) /\ n \in Nat \ {0}
      /\ \A k \in 1..Depth : WaitsForNative(k) => k <= Base
      /\ \A i \in 1..n : activations[i] \in Activation
  BY <1>1, SequenceFacts, BasesBelow
<1>3. NewFrame(f) \in Frame /\ entered \in Activation
  BY <1>1, <1>2 DEF Frame, NewFrame, Activation, TypeOK
<1>4. /\ frames' \in Seq(Frame) /\ frames' # <<>> /\ Len(frames') = Depth + 1
      /\ frames'[Depth + 1] = NewFrame(f)
      /\ \A k \in 1..Depth : frames'[k] = frames[k]
  <2>1. frames' = Append(frames, NewFrame(f)) /\ Depth = Len(frames) /\ frames \in Seq(Frame)
    BY <1>1 DEF NativeInvoke, TypeOK, Depth
  <2>2. /\ frames' \in Seq(Frame) /\ Len(frames') = Depth + 1
        /\ frames'[Depth + 1] = NewFrame(f)
        /\ \A k \in 1..Depth : frames'[k] = frames[k]
    BY <1>2, <1>3, <2>1, AppendProperties
  <2>3. QED  BY <1>2, <2>2, EmptySeq
<1>5. /\ activations' \in Seq(Activation) /\ activations' # <<>> /\ Len(activations') = n + 1
      /\ activations'[n + 1] = entered
      /\ \A i \in 1..n : activations'[i] = activations[i]
  <2>1. activations' = Append(activations, entered) /\ activations \in Seq(Activation)
    BY <1>1 DEF NativeInvoke, TypeOK
  <2> HIDE DEF entered
  <2>2. /\ activations' \in Seq(Activation) /\ Len(activations') = n + 1
        /\ activations'[n + 1] = entered
        /\ \A i \in 1..n : activations'[i] = activations[i]
    BY <1>2, <1>3, <2>1, AppendProperties
  <2>3. QED  BY <1>2, <2>2, EmptySeq
<1>6. /\ Depth' = Depth + 1 /\ Base' = Depth
      /\ exceptionBoundary' = Depth /\ nativeDepth' = nativeDepth + 1
      /\ phase' = "interpreting" /\ phase = "native"
      /\ Depth < MaxFrames /\ nativeDepth < MaxNativeDepth
  BY <1>4, <1>5 DEF NativeInvoke, Depth, Base
<1>7. TypeOK'
  BY <1>1, <1>2, <1>4, <1>5, <1>6 DEF TypeOK, Phase
<1>8. BoundariesNested'
  <2>1. nativeDepth' = Len(activations') - 1 /\ exceptionBoundary' = Base' /\ Base' < Depth'
    BY <1>1, <1>2, <1>5, <1>6 DEF BoundariesNested
  <2>2. activations'[1].base = 0
    BY <1>1, <1>2, <1>5 DEF BoundariesNested
  <2>3. \A i \in 2..(n + 1) : activations'[i].saved = activations'[i - 1].base
    <3>1. \A i \in 2..n : activations'[i].saved = activations'[i - 1].base
      BY <1>1, <1>2, <1>5 DEF BoundariesNested
    <3>2. activations'[n + 1].saved = activations'[n].base
      BY <1>1, <1>2, <1>5 DEF BoundariesNested, Base
    <3>3. QED  BY <1>2, <3>1, <3>2
  <2>4. \A i, j \in 1..(n + 1) : i < j => activations'[i].base < activations'[j].base
    <3>1. \A i \in 1..n : activations[i].base <= Base
      BY <1>1, <1>2 DEF BoundariesNested, Base, Activation
    <3>2. \A i \in 1..n : activations'[i].base < activations'[n + 1].base
      <4>1. activations'[n + 1].base = Depth  BY <1>5
      <4>2. \A i \in 1..n : activations'[i].base = activations[i].base /\ activations[i].base \in Nat
        BY <1>2, <1>5 DEF Activation
      <4>3. QED  BY <1>2, <3>1, <4>1, <4>2
    <3>3. \A i, j \in 1..n : i < j => activations'[i].base < activations'[j].base
      BY <1>1, <1>5 DEF BoundariesNested
    <3>4. QED  BY <1>2, <3>2, <3>3
  <2>5. QED  BY <1>5, <2>1, <2>2, <2>3, <2>4 DEF BoundariesNested
<1>9. SuspendedAtCall'
  <2>1. \A k \in 1..(Depth + 1) : WaitsForNative(k)' <=> WaitsForNative(k) \/ k = Depth
    <3>1. activations'[n + 1].base = Depth  BY <1>5
    <3>2. \A i \in 2..n : activations'[i].base = activations[i].base
      BY <1>2, <1>5
    <3>3. \A k : WaitsForNative(k)' <=> \E i \in 2..(n + 1) : activations'[i].base = k
      BY <1>5 DEF WaitsForNative
    <3>4. \A k : WaitsForNative(k) <=> \E i \in 2..n : activations[i].base = k
      BY DEF WaitsForNative
    <3>5. \A i : i \in 2..(n + 1) <=> i \in 2..n \/ i = n + 1
      BY <1>2
    <3> HIDE DEF n
    <3>6. QED  BY <3>1, <3>2, <3>3, <3>4, <3>5
  <2> SUFFICES ASSUME NEW k \in 1..(Depth + 1)
               PROVE /\ frames'[k].instructionPointer < Length[frames'[k].function]
                     /\ frames'[k].instructionPointer =
                          IF k = Depth + 1 \/ WaitsForNative(k) \/ k = Depth
                          THEN frames'[k].at ELSE frames'[k].at + 1
                     /\ k < Depth + 1 => frames'[k].at + 1 < Length[frames'[k].function]
    BY <1>6, <2>1 DEF SuspendedAtCall
  <2>2. CASE k = Depth + 1
    BY <1>2, <1>4, <2>2, ProgramFacts DEF NewFrame
  <2>3. CASE k # Depth + 1
    <3>1. k \in 1..Depth /\ frames'[k] = frames[k]  BY <1>2, <1>4, <2>3
    <3>2. QED  BY <1>1, <1>2, <1>6, <2>3, <3>1 DEF SuspendedAtCall
  <2>4. QED  BY <2>2, <2>3
<1>10. QED  BY <1>7, <1>8, <1>9 DEF StackInv

(* The end of a callback: the native that waited for it runs again, at the *)
(* instruction that called it.                                             *)
LEMMA LeaveStep ==
  ASSUME StackInv, nativeDepth > 0, LeaveActivation, phase' \in {"native", "failing"}
  PROVE  StackInv'
<1> DEFINE n == Len(activations)
<1>1. TypeOK /\ BoundariesNested /\ SuspendedAtCall
  BY DEF StackInv
<1>2. /\ Depth \in Nat \ {0} /\ Base \in 1..(Depth - 1) /\ n \in Nat /\ n >= 2
      /\ WaitsForNative(Base)
      /\ \A i \in 1..n : activations[i] \in Activation
  BY <1>1, SequenceFacts, BasesBelow
<1>3. /\ frames' \in Seq(Frame) /\ frames' # <<>> /\ Len(frames') = Base
      /\ \A k \in 1..Base : frames'[k] = frames[k]
  <2>1. frames' = SubSeq(frames, 1, Base)
    BY DEF LeaveActivation, Resized, Base
  <2>2. frames \in Seq(Frame) /\ Base \in 1..Len(frames)
    BY <1>1, <1>2 DEF TypeOK, Depth
  <2>3. QED  BY <2>1, <2>2, Resizing
<1>4. /\ activations' \in Seq(Activation) /\ activations' # <<>> /\ Len(activations') = n - 1
      /\ \A i \in 1..(n - 1) : activations'[i] = activations[i]
  <2>1. activations' = SubSeq(activations, 1, n - 1)
    BY DEF LeaveActivation
  <2>2. activations \in Seq(Activation) /\ n - 1 \in 1..Len(activations)
    BY <1>1, <1>2 DEF TypeOK
  <2>3. QED  BY <2>1, <2>2, Resizing
<1>5. /\ Depth' = Base /\ Base' = activations[n - 1].base
      /\ exceptionBoundary' = activations[n].saved /\ nativeDepth' = nativeDepth - 1
  BY <1>2, <1>3, <1>4 DEF LeaveActivation, Depth, Base
<1>6. activations[n].saved = activations[n - 1].base /\ activations[n - 1].base < activations[n].base
  BY <1>1, <1>2 DEF BoundariesNested
<1>7. TypeOK'
  <2>1. exceptionBoundary' \in Nat  BY <1>2, <1>5 DEF Activation
  <2>2. nativeDepth' \in Nat  BY <1>1, <1>5 DEF TypeOK
  <2>3. QED  BY <1>3, <1>4, <2>1, <2>2 DEF TypeOK, Phase
<1>8. BoundariesNested'
  <2>1. nativeDepth' = Len(activations') - 1 /\ exceptionBoundary' = Base' /\ Base' < Depth'
    BY <1>1, <1>2, <1>4, <1>5, <1>6 DEF BoundariesNested, Base
  <2>2. activations'[1].base = 0
    BY <1>1, <1>2, <1>4 DEF BoundariesNested
  <2>3. \A i \in 2..(n - 1) : activations'[i].saved = activations'[i - 1].base
    BY <1>1, <1>2, <1>4 DEF BoundariesNested
  <2>4. \A i, j \in 1..(n - 1) : i < j => activations'[i].base < activations'[j].base
    <3> SUFFICES ASSUME NEW i \in 1..(n - 1), NEW j \in 1..(n - 1), i < j
                 PROVE  activations'[i].base < activations'[j].base
      OBVIOUS
    <3>1. i \in 1..n /\ j \in 1..n  BY <1>2
    <3>2. activations[i].base < activations[j].base  BY <1>1, <3>1 DEF BoundariesNested
    <3>3. QED  BY <1>4, <3>2
  <2>5. QED  BY <1>4, <2>1, <2>2, <2>3, <2>4 DEF BoundariesNested
<1>9. SuspendedAtCall'
  <2>1. \A k \in 1..(Base - 1) : WaitsForNative(k)' <=> WaitsForNative(k)
    <3>1. \A k \in 1..(Base - 1) : activations[n].base # k
      BY <1>2 DEF Base
    <3>2. QED  BY <1>2, <1>4, <3>1 DEF WaitsForNative
  <2> SUFFICES ASSUME NEW k \in 1..Base
               PROVE /\ frames[k].instructionPointer < Length[frames[k].function]
                     /\ frames[k].instructionPointer =
                          IF k = Base \/ WaitsForNative(k) THEN frames[k].at ELSE frames[k].at + 1
                     /\ frames[k].at + 1 < Length[frames[k].function]
    BY <1>2, <1>3, <1>5, <2>1 DEF SuspendedAtCall
  <2>2. k \in 1..Depth /\ k < Depth
    BY <1>2
  <2>3. QED  BY <1>1, <1>2, <2>2 DEF SuspendedAtCall
<1>10. QED  BY <1>7, <1>8, <1>9 DEF StackInv

LEMMA StackInvStep == StackInv /\ [Next]_vars => StackInv'
<1> SUFFICES ASSUME StackInv, [Next]_vars PROVE StackInv'
  OBVIOUS
<1>1. /\ TypeOK /\ BoundariesNested /\ SuspendedAtCall
      /\ Depth \in Nat \ {0} /\ Base \in 0..(Depth - 1) /\ Top \in Frame
      /\ Resized(Depth) = frames
      /\ Top.instructionPointer \in Nat
  BY SequenceFacts, BasesBelow, ResizedWhole DEF StackInv, Frame
<1>2. Depth \in (Base + 1)..Depth
  BY <1>1
<1>3. ASSUME Advance PROVE StackInv'
  <2>1. /\ frames' = ContinueAt(Resized(Depth), Top.instructionPointer + 1)
        /\ Top.instructionPointer + 1 < Length[frames[Depth].function]
        /\ phase' = "interpreting"
        /\ UNCHANGED <<activations, exceptionBoundary, nativeDepth>>
    BY <1>1, <1>3 DEF Advance, MayFallThrough, Interpreting, Top
  <2>2. QED  BY <1>1, <1>2, <2>1, Resume
<1>4. ASSUME NEW n \in Nat, Jump(n) PROVE StackInv'
  <2>1. /\ frames' = ContinueAt(Resized(Depth), n)
        /\ n < Length[frames[Depth].function]
        /\ phase' = "interpreting"
        /\ UNCHANGED <<activations, exceptionBoundary, nativeDepth>>
    BY <1>1, <1>4, ProgramFacts DEF Jump, Interpreting, Top, Frame
  <2>2. QED  BY <1>1, <1>2, <2>1, Resume
<1>5. ASSUME NativeReturn PROVE StackInv'
  <2>1. /\ frames' = ContinueAt(Resized(Depth), Top.instructionPointer + 1)
        /\ phase' = "interpreting" /\ phase = "native"
        /\ UNCHANGED <<activations, exceptionBoundary, nativeDepth>>
    BY <1>1, <1>5 DEF NativeReturn
  <2>2. Top.instructionPointer + 1 < Length[frames[Depth].function]
    BY <1>1, <2>1 DEF SuspendedAtCall, Top
  <2>3. QED  BY <1>1, <1>2, <2>1, <2>2, Resume
<1>6. ASSUME Return PROVE StackInv'
  <2> DEFINE d == Depth - 1
             n == frames[d].instructionPointer
  <2>1. d \in (Base + 1)..Depth /\ d \in 1..Depth
    BY <1>1, <1>6 DEF Return
  <2>2. frames \in Seq(Frame) /\ d \in 1..Len(frames) /\ frames[d] \in Frame
    BY <1>1, <2>1, SequenceFacts DEF TypeOK, Depth
  <2>3. Len(Resized(d)) = d /\ Resized(d)[d] = frames[d]
    BY <2>1, <2>2, <1>1, Resizing DEF Resized
  <2>4. /\ frames' = ContinueAt(Resized(d), n)
        /\ phase' = "interpreting"
        /\ UNCHANGED <<activations, exceptionBoundary, nativeDepth>>
    BY <1>6, <2>3 DEF Return, Interpreting
  <2>5. n \in Nat /\ n < Length[frames[d].function]
    BY <1>1, <2>1, <2>2 DEF SuspendedAtCall, Frame
  <2> HIDE DEF d, n
  <2>6. QED  BY <2>1, <2>4, <2>5, Resume DEF n
<1>7. ASSUME NEW k \in 1..Depth, NEW h \in Matching(k), Catch(k, h) PROVE StackInv'
  <2> DEFINE n == Handlers[frames[k].function][h].handler
  <2>1. k \in (Base + 1)..Depth
    BY <1>1, <1>7 DEF Catch, Handling, BoundariesNested
  <2>2. frames[k] \in Frame  BY <1>1, SequenceFacts
  <2>3. n \in Nat /\ n < Length[frames[k].function]
    <3>1. /\ frames[k].function \in Functions
          /\ h \in 1..Len(Handlers[frames[k].function])
      BY <2>2 DEF Frame, Matching
    <3>2. Handlers[frames[k].function] \in Seq([first : Nat, count : Nat, handler : Nat])
      BY <3>1, ProgramFacts
    <3>3. Handlers[frames[k].function][h] \in [first : Nat, count : Nat, handler : Nat]
      BY <3>1, <3>2, ElementOfSeq
    <3>4. QED  BY <3>1, <3>3, ProgramFacts
  <2>4. /\ frames' = ContinueAt(Resized(k), n)
        /\ phase' = "interpreting"
        /\ UNCHANGED <<activations, exceptionBoundary, nativeDepth>>
    BY <1>7 DEF Catch
  <2> HIDE DEF n
  <2>5. QED  BY <2>1, <2>3, <2>4, Resume
<1>8. ASSUME NEW f \in Functions, Call(f) PROVE StackInv'
  BY <1>8, CallStep
<1>9. ASSUME NEW f \in Functions, NativeInvoke(f) PROVE StackInv'
  BY <1>9, InvokeStep
<1>10. CASE CallNative
  BY <1>10, OnlyPhase DEF CallNative, Phase
<1>11. CASE Finish \/ Uncaught
  BY <1>11, OnlyPhase DEF Finish, Uncaught, Phase
<1>12. CASE ReturnFromCallback \/ EscapeCallback
  BY <1>12, LeaveStep DEF ReturnFromCallback, EscapeCallback
<1>13. CASE UNCHANGED vars
  <2>1. /\ UNCHANGED <<frames, activations, exceptionBoundary, nativeDepth>>
        /\ phase' = phase
    BY <1>13 DEF vars
  <2>2. phase' \in Phase  BY <1>1, <2>1 DEF TypeOK
  <2>3. QED  BY <2>1, <2>2, OnlyPhase
<1>14. QED
  <2>1. \A f \in Functions : 0..(Length[f] - 1) \subseteq Nat
    BY ProgramFacts
  <2>2. QED
    BY <1>3, <1>4, <1>5, <1>6, <1>7, <1>8, <1>9, <1>10, <1>11, <1>12, <1>13, <2>1 DEF Next

LEMMA StackInvHolds == Init => StackInv
<1> SUFFICES ASSUME Init PROVE StackInv
  OBVIOUS
<1> DEFINE a == [base |-> 0, saved |-> 0]
<1>1. NewFrame(Entry) \in Frame /\ a \in Activation
  BY ProgramFacts DEF NewFrame, Frame, Activation
<1>2. /\ frames = <<NewFrame(Entry)>> /\ activations = <<a>>
      /\ Len(frames) = 1 /\ Len(activations) = 1
  BY DEF Init
<1>3. TypeOK
  BY <1>1, <1>2 DEF TypeOK, Init, Phase
<1>4. BoundariesNested
  BY <1>2 DEF BoundariesNested, Base, Depth, Init
<1>5. SuspendedAtCall
  BY <1>2, ProgramFacts DEF SuspendedAtCall, Depth, Init, NewFrame
<1>6. QED  BY <1>3, <1>4, <1>5 DEF StackInv

THEOREM StackInvariant == Spec => []StackInv
BY StackInvHolds, StackInvStep, PTL DEF Spec

(* Every variable keeps its type.                                          *)
THEOREM TypeCorrect == Spec => []TypeOK
<1>1. StackInv => TypeOK  BY DEF StackInv
<1>2. QED  BY <1>1, StackInvariant, PTL

(* exceptionBoundary, nativeDepth and the saved boundaries always describe *)
(* the callbacks in progress.                                              *)
THEOREM BoundariesCorrect == Spec => []BoundariesNested
<1>1. StackInv => BoundariesNested  BY DEF StackInv
<1>2. QED  BY <1>1, StackInvariant, PTL

(* The instruction pointer of a suspended frame tells which instruction it *)
(* waits in, and none ever leaves its function.                            *)
THEOREM SuspensionCorrect == Spec => []SuspendedAtCall
<1>1. StackInv => SuspendedAtCall  BY DEF StackInv
<1>2. QED  BY <1>1, StackInvariant, PTL
-----------------------------------------------------------------------------
(* unwindError blames the instruction the frame was in the middle of.      *)
LEMMA FaultIsExact ==
  ASSUME StackInv, NEW k \in (Base + 1)..Depth
  PROVE  FaultInstruction(k) = frames[k].at
<1>1. TypeOK /\ BoundariesNested /\ SuspendedAtCall
  BY DEF StackInv
<1>2. Depth \in Nat /\ Base \in Nat /\ k \in 1..Depth /\ frames[k] \in Frame
  BY <1>1, SequenceFacts
<1>3. ~WaitsForNative(k)
  BY <1>1, <1>2, BasesBelow
<1>4. QED  BY <1>1, <1>2, <1>3 DEF FaultInstruction, SuspendedAtCall, Frame

LEMMA MatchingIsProtecting ==
  ASSUME StackInv, NEW k \in (Base + 1)..Depth
  PROVE  Matching(k) = {h \in 1..Len(Handlers[frames[k].function]) : Protects(k, h)}
BY FaultIsExact DEF Matching, Protects

(* Every error goes to the innermost frame of the running activation that  *)
(* was executing a protected instruction, and there to the first handler   *)
(* around it.                                                              *)
THEOREM HandlerIsInnermost == Spec => InnermostHandler
<1>1. StackInv /\ [Next]_vars =>
        [\A k \in 1..Depth : \A h \in Matching(k) : Catch(k, h) => TakenBy(k, h)]_vars
  <2> SUFFICES ASSUME StackInv, NEW k \in 1..Depth, NEW h \in Matching(k), Catch(k, h)
               PROVE  TakenBy(k, h)
    OBVIOUS
  <2>1. exceptionBoundary = Base /\ Base \in Nat /\ Depth \in Nat
    BY SequenceFacts DEF StackInv, BoundariesNested
  <2>2. k \in (Base + 1)..Depth
    BY <2>1 DEF Catch, Handling
  <2>3. Matching(k) = {g \in 1..Len(Handlers[frames[k].function]) : Protects(k, g)}
    BY <2>2, MatchingIsProtecting
  <2>4. Len(Handlers[frames[k].function]) \in Nat
    <3>1. frames[k].function \in Functions
      BY SequenceFacts DEF StackInv, Frame
    <3>2. QED  BY <3>1, ProgramFacts, LenProperties
  <2>5. \A g \in 1..(h - 1) : ~Protects(k, g)
    BY <2>3, <2>4 DEF Catch
  <2>6. ASSUME NEW l \in (k + 1)..Depth, NEW g \in 1..Len(Handlers[frames[l].function])
        PROVE  ~Protects(l, g)
    <3>1. l \in (Base + 1)..Depth /\ ~(l <= k)
      BY <2>1, <2>2
    <3>2. l \notin Handling
      BY <3>1 DEF Catch
    <3>3. Matching(l) = {}
      BY <2>1, <3>1, <3>2 DEF Handling
    <3>4. QED  BY <3>1, <3>3, MatchingIsProtecting
  <2>7. QED  BY <2>1, <2>2, <2>3, <2>5, <2>6 DEF TakenBy
<1>2. QED  BY <1>1, StackInvariant, PTL DEF Spec, InnermostHandler

(* An error leaves a callback or the program only if nothing in it was     *)
(* protected.                                                              *)
THEOREM HandlersAreTried == Spec => NoHandlerSkipped
<1>1. StackInv /\ [Next]_vars =>
        [(EscapeCallback \/ Uncaught) =>
           \A k \in (Base + 1)..Depth :
             \A h \in 1..Len(Handlers[frames[k].function]) : ~Protects(k, h)]_vars
  <2> SUFFICES ASSUME StackInv, EscapeCallback \/ Uncaught, NEW k \in (Base + 1)..Depth,
                      NEW h \in 1..Len(Handlers[frames[k].function])
               PROVE  ~Protects(k, h)
    OBVIOUS
  <2>1. exceptionBoundary = Base
    BY DEF StackInv, BoundariesNested
  <2>2. Matching(k) = {}
    BY <2>1 DEF EscapeCallback, Uncaught, Handling
  <2>3. QED  BY <2>2, MatchingIsProtecting
<1>2. QED  BY <1>1, StackInvariant, PTL DEF Spec, NoHandlerSkipped

(* While a native waits, the frames at and below it stay as they are.      *)
LEMMA CallersStay ==
  ASSUME StackInv, Next
  PROVE  /\ Len(activations') >= Len(activations) => Len(frames') > Base
         /\ \A k \in 1..Base : k <= Len(frames') /\ frames'[k] = frames[k]
<1> DEFINE Untouched == /\ Len(frames') > Base
                        /\ \A k \in 1..Base : k <= Len(frames') /\ frames'[k] = frames[k]
<1>1. /\ TypeOK /\ BoundariesNested
      /\ Depth \in Nat \ {0} /\ Base \in 0..(Depth - 1) /\ Len(activations) \in Nat \ {0}
      /\ Resized(Depth) = frames /\ frames \in Seq(Frame) /\ Len(frames) = Depth
      /\ \A k \in 1..Depth : frames[k] \in Frame
  BY SequenceFacts, BasesBelow, ResizedWhole DEF StackInv, TypeOK, Depth
<1>2. ASSUME NEW d \in (Base + 1)..Depth, NEW n, frames' = ContinueAt(Resized(d), n)
      PROVE  Untouched
  <2>1. Len(Resized(d)) = d /\ (\A k \in 1..d : Resized(d)[k] = frames[k])
    BY <1>1, Resizing DEF Resized
  <2>2. Resized(d) \in Seq(Frame)
    BY <1>1, Resizing DEF Resized
  <2>3. DOMAIN Resized(d) = 1..d /\ d \in Nat
    BY <1>1, <2>1, <2>2, LenProperties
  <2> HIDE DEF Resized
  <2>4. /\ DOMAIN frames' = 1..d
        /\ \A k \in 1..(d - 1) : frames'[k] = frames[k]
    BY <1>2, <2>1, <2>3 DEF ContinueAt
  <2>5. Len(frames') = d
    <3>1. StackInv'  BY StackInvStep
    <3>2. frames' \in Seq(Frame)  BY <3>1 DEF StackInv, TypeOK
    <3>3. DOMAIN frames' = 1..Len(frames') /\ Len(frames') \in Nat  BY <3>2, LenProperties
    <3>4. QED  BY <2>3, <2>4, <3>3
  <2>6. QED  BY <1>1, <2>3, <2>4, <2>5
<1>3. ASSUME NEW f \in Functions, Call(f) PROVE Untouched
  <2> DEFINE caller == [frames[Depth] EXCEPT !.instructionPointer = @ + 1]
             moved == [frames EXCEPT ![Depth] = caller]
  <2>1. caller \in Frame /\ NewFrame(f) \in Frame
    <3>1. Depth \in 1..Depth /\ frames[Depth] \in Frame  BY <1>1
    <3>2. caller \in Frame  BY <3>1 DEF Frame
    <3>3. QED  BY <3>2 DEF Frame, NewFrame
  <2> HIDE DEF caller
  <2>2. /\ moved \in Seq(Frame) /\ Len(moved) = Depth
        /\ \A k \in 1..Depth : moved[k] = IF k = Depth THEN caller ELSE frames[k]
    BY <1>1, <2>1, ExceptSeq
  <2>3. frames' = Append(moved, NewFrame(f))
    BY <1>3 DEF Call, caller
  <2> HIDE DEF moved
  <2>4. Len(frames') = Depth + 1 /\ \A k \in 1..Depth : frames'[k] = moved[k]
    BY <2>1, <2>2, <2>3, AppendProperties
  <2>5. QED  BY <1>1, <2>2, <2>4
<1>4. ASSUME NEW f \in Functions, NativeInvoke(f) PROVE Untouched
  <2>1. NewFrame(f) \in Frame
    BY DEF Frame, NewFrame
  <2>2. frames' = Append(frames, NewFrame(f))
    BY <1>4 DEF NativeInvoke
  <2>3. Len(frames') = Depth + 1 /\ \A k \in 1..Depth : frames'[k] = frames[k]
    BY <1>1, <2>1, <2>2, AppendProperties
  <2>4. QED  BY <1>1, <2>3
<1>5. ASSUME nativeDepth > 0, LeaveActivation
      PROVE  /\ Len(activations') < Len(activations)
             /\ \A k \in 1..Base : k <= Len(frames') /\ frames'[k] = frames[k]
  <2>1. Len(activations) >= 2 /\ Base \in 1..Len(frames)
    BY <1>1, <1>5, BasesBelow
  <2>2. frames' = SubSeq(frames, 1, Base) /\ activations' = SubSeq(activations, 1, Len(activations) - 1)
    BY <1>5 DEF LeaveActivation, Resized, Base
  <2>3. Len(frames') = Base /\ \A k \in 1..Base : frames'[k] = frames[k]
    BY <1>1, <2>1, <2>2, Resizing
  <2>4. Len(activations') = Len(activations) - 1
    <3>1. activations \in Seq(Activation) /\ Len(activations) - 1 \in 1..Len(activations)
      BY <1>1, <2>1 DEF TypeOK
    <3>2. QED  BY <2>2, <3>1, Resizing
  <2>5. QED  BY <1>1, <2>3, <2>4
<1>6. CASE UNCHANGED frames
  BY <1>1, <1>6
<1>7. CASE Return
  <2>1. Depth - 1 \in (Base + 1)..Depth /\ \E n : frames' = ContinueAt(Resized(Depth - 1), n)
    BY <1>1, <1>7 DEF Return
  <2>2. QED  BY <1>2, <2>1
<1>8. ASSUME NEW k \in 1..Depth, NEW h, Catch(k, h) PROVE Untouched
  <2>1. k \in (Base + 1)..Depth /\ \E n : frames' = ContinueAt(Resized(k), n)
    BY <1>1, <1>8 DEF Catch, Handling, BoundariesNested
  <2>2. QED  BY <1>2, <2>1
<1>9. ASSUME NEW n, Advance \/ Jump(n) \/ NativeReturn PROVE Untouched
  <2>1. Depth \in (Base + 1)..Depth /\ \E m : frames' = ContinueAt(Resized(Depth), m)
    BY <1>1, <1>9 DEF Advance, Jump, NativeReturn
  <2>2. QED  BY <1>2, <2>1
<1>10. QED
  BY <1>3, <1>4, <1>5, <1>6, <1>7, <1>8, <1>9
  DEF Next, CallNative, Finish, Uncaught, ReturnFromCallback, EscapeCallback

(* A callback can neither see nor move the frames of its callers.          *)
THEOREM CallersAreSafe == Spec => CallersUntouched
<1>1. StackInv /\ [Next]_vars =>
        [/\ Len(activations') >= Len(activations) => Len(frames') > Base
         /\ \A k \in 1..Base : k <= Len(frames') /\ frames'[k] = frames[k]]_vars
  BY CallersStay
<1>2. QED  BY <1>1, StackInvariant, PTL DEF Spec, CallersUntouched
-----------------------------------------------------------------------------
(* What validateBytecode checks, part by part, when it reports nothing.    *)
LEMMA RegistersFit ==
  ASSUME NEW b, NEW f, NEW i, Code!validateInstruction(b, f, i) = {}
  PROVE  /\ i.opcode \notin Code!NoDestination => i.destination \in Code!registers(f)
         /\ i.opcode \in Code!FirstRegister => i.first \in Code!registers(f)
         /\ i.opcode \in Code!SecondRegister => i.second \in Code!registers(f)
BY DEF Code!validateInstruction, Code!If

LEMMA TargetsFit ==
  ASSUME NEW b, NEW f, NEW i, Code!validateInstruction(b, f, i) = {}
  PROVE  /\ i.opcode = "Jump" => i.first \in DOMAIN f.instructions
         /\ i.opcode = "JumpIfFalse" => i.second \in DOMAIN f.instructions
BY DEF Code!validateInstruction, Code!If

LEMMA TablesFit ==
  ASSUME NEW b, NEW f, NEW i, Code!validateInstruction(b, f, i) = {}
  PROVE  /\ i.opcode = "LoadConstant" => i.first \in DOMAIN b.constants
         /\ i.opcode \in {"LoadCapture", "StoreCapture"} => i.first \in 1 .. f.captureCount
         /\ i.opcode = "CallNative" => i.first \in DOMAIN b.nativeFunctions
         /\ i.opcode = "MakeInstance" => i.first \in DOMAIN b.classes
         /\ i.opcode = "LoadMember" => Code!stringConstant(b, i.second)
         /\ i.opcode = "StoreMember" /\ i.first \in DOMAIN b.callArguments
              => Code!stringConstant(b, i.second)
         /\ Code!validateFunctionUse(b, i) = {}
         /\ Code!validateClosure(b, f, i) = {}
         /\ Code!validateArguments(b, f, i) = {}
BY DEF Code!validateInstruction, Code!If

LEMMA FunctionsFit ==
  ASSUME NEW b, NEW i, Code!validateFunctionUse(b, i) = {}
  PROVE  /\ i.opcode \in {"LoadFunction", "MakeClosure", "Call"} =>
              Code!KnownFunction(b, i.first) /\ i.first # 0
         /\ i.opcode = "BindMethod" => Code!KnownFunction(b, i.second) /\ i.second # 0
BY DEF Code!validateFunctionUse, Code!If

LEMMA CapturesFit ==
  ASSUME NEW b, NEW f, NEW i, i.opcode = "MakeClosure", Code!KnownFunction(b, i.first),
         Code!validateClosure(b, f, i) = {},
         b.closureCaptures \in Seq(Seq(Code!SourceType))
  PROVE  /\ Code!captured(b, f, i)
         /\ Len(b.closureCaptures[i.second]) = Code!functionAt(b, i.first).captureCount
<1> DEFINE sources == b.closureCaptures[i.second]
<1>1. i.second \in DOMAIN b.closureCaptures
  BY DEF Code!validateClosure
<1>2. Code!If(Len(sources) # Code!functionAt(b, i.first).captureCount, "KBC1117") = {}
  BY <1>1 DEF Code!validateClosure
<1>3. ASSUME NEW n \in DOMAIN sources
      PROVE  sources[n].index \in IF sources[n].kind = "Capture" THEN 1..f.captureCount
                                  ELSE Code!registers(f)
  <2>1. (IF sources[n].kind = "Local"
         THEN Code!If(sources[n].index \notin Code!registers(f), "KBC1103")
         ELSE Code!If(sources[n].index \notin 1..f.captureCount, "KBC1118")) = {}
    BY <1>1 DEF Code!validateClosure
  <2>2. sources \in Seq(Code!SourceType)
    BY <1>1
  <2>3. n \in 1 .. Len(sources)
    BY <2>2
  <2>4. sources[n] \in Code!SourceType
    BY <2>2, <2>3, ElementOfSeq
  <2>5. sources[n].kind \in {"Local", "Capture"}
    BY <2>4 DEF Code!SourceType
  <2>6. QED  BY <2>1, <2>5 DEF Code!If
<1>4. QED  BY <1>1, <1>2, <1>3 DEF Code!captured, Code!Range, Code!If

LEMMA ArgumentsFit ==
  ASSUME NEW b, NEW f, NEW i, Code!validateArguments(b, f, i) = {},
         i.opcode \in Code!ArgumentsInFirst \cup Code!ArgumentsInSecond,
         i.opcode = "Call" => Code!KnownFunction(b, i.first) /\ i.first # 0,
         NEW list, list = IF i.opcode \in Code!ArgumentsInSecond THEN i.second ELSE i.first
  PROVE  /\ list \in DOMAIN b.callArguments
         /\ Code!Range(b.callArguments[list]) \subseteq Code!registers(f)
         /\ i.opcode = "StoreIndex" => Len(b.callArguments[list]) = 3
         /\ i.opcode = "StoreMember" => Len(b.callArguments[list]) = 2
         /\ i.opcode = "MakeObject" =>
              /\ i.second \in DOMAIN b.objectFieldNames
              /\ Len(b.objectFieldNames[i.second]) = Len(b.callArguments[list])
BY DEF Code!validateArguments, Code!If

LEMMA ListsFit ==
  ASSUME NEW b, NEW f, NEW i, Code!validateInstruction(b, f, i) = {}
  PROVE  /\ i.opcode \in {"Call", "CallIndirect", "CallNative", "MakeInstance"} =>
              /\ i.second \in DOMAIN b.callArguments
              /\ Code!Range(b.callArguments[i.second]) \subseteq Code!registers(f)
         /\ i.opcode \in {"MakeArray", "MakeObject", "StoreIndex", "StoreMember"} =>
              /\ i.first \in DOMAIN b.callArguments
              /\ Code!Range(b.callArguments[i.first]) \subseteq Code!registers(f)
         /\ i.opcode = "StoreIndex" => Len(b.callArguments[i.first]) = 3
         /\ i.opcode = "StoreMember" => Len(b.callArguments[i.first]) = 2
         /\ i.opcode = "MakeObject" =>
              /\ i.second \in DOMAIN b.objectFieldNames
              /\ Len(b.objectFieldNames[i.second]) = Len(b.callArguments[i.first])
<1>1. /\ Code!validateArguments(b, f, i) = {}
      /\ i.opcode = "Call" => Code!KnownFunction(b, i.first) /\ i.first # 0
  BY TablesFit, FunctionsFit
<1>2. CASE i.opcode \in {"Call", "CallIndirect", "CallNative", "MakeInstance"}
  BY <1>1, <1>2, ArgumentsFit DEF Code!ArgumentsInSecond
<1>3. CASE i.opcode \in {"MakeArray", "MakeObject", "StoreIndex", "StoreMember"}
  BY <1>1, <1>3, ArgumentsFit DEF Code!ArgumentsInSecond, Code!ArgumentsInFirst
<1>4. QED  BY <1>2, <1>3

LEMMA LastInstruction ==
  ASSUME NEW b, NEW f, Code!validateFunction(b, f) = {},
         f.instructions \in Seq(Code!InstructionType)
  PROVE  /\ f.instructions # <<>> /\ f.instructions \in Seq(Code!InstructionType)
         /\ f.instructions[Len(f.instructions)].opcode \in {"Return", "Jump", "Throw"}
<1>1. f.instructions # <<>>
  BY DEF Code!validateFunction
<1>2. Code!If(Code!Last(f.instructions).opcode \notin {"Return", "Jump", "Throw"}, "KBC1106") = {}
  BY <1>1 DEF Code!validateFunction
<1>3. QED  BY <1>1, <1>2 DEF Code!If, Code!Last

LEMMA FunctionParts ==
  ASSUME NEW b, NEW f, Code!validateFunction(b, f) = {},
         {f.registerCount, f.parameterCount} \subseteq Nat
  PROVE  /\ Code!canBeEntered(f)
         /\ \A n \in DOMAIN f.instructions :
               Code!validateInstruction(b, f, f.instructions[n]) = {}
         /\ \A n \in DOMAIN f.exceptionHandlers :
               Code!validateHandler(f, f.exceptionHandlers[n]) = {}
<1>1. f.instructions # <<>>
  BY DEF Code!validateFunction
<1>2. Code!If(f.parameterCount > f.registerCount, "KBC1107") = {}
  BY <1>1 DEF Code!validateFunction
<1>3. UNION {Code!validateInstruction(b, f, f.instructions[n]) : n \in DOMAIN f.instructions} = {}
  BY <1>1 DEF Code!validateFunction
<1>4. UNION {Code!validateHandler(f, f.exceptionHandlers[n]) : n \in DOMAIN f.exceptionHandlers} = {}
  BY <1>1 DEF Code!validateFunction
<1>5. Code!canBeEntered(f)
  BY <1>1, <1>2 DEF Code!canBeEntered, Code!If
<1>6. QED  BY <1>3, <1>4, <1>5

LEMMA ClassParts ==
  ASSUME NEW b, NEW class, Code!validateClass(b, class) = {}, Code!KnownFunction(b, 0)
  PROVE  /\ Code!hasParts(b, class)
         /\ class.constructor # 0 =>
              Code!functionAt(b, class.constructor).parameterCount # 0
         /\ \A n \in DOMAIN class.methods :
              Code!functionAt(b, class.methods[n].function).parameterCount # 0
<1>1. class.parent \in {0} \cup DOMAIN b.classes
  BY DEF Code!validateClass, Code!If
<1>2. class.constructor # 0 => /\ Code!KnownFunction(b, class.constructor)
                               /\ Code!functionAt(b, class.constructor).parameterCount # 0
  BY DEF Code!validateClass, Code!If
<1>3. ASSUME NEW n \in DOMAIN class.methods
      PROVE  /\ Code!KnownFunction(b, class.methods[n].function)
             /\ Code!functionAt(b, class.methods[n].function).parameterCount # 0
  BY DEF Code!validateClass, Code!If
<1>4. QED  BY <1>1, <1>2, <1>3 DEF Code!hasParts, Code!Range

LEMMA Validated ==
  ASSUME NEW b, Code!validateBytecode(b) = {}
  PROVE  /\ b.functions[1].parameterCount = 0
         /\ \A n \in DOMAIN b.functions : Code!validateFunction(b, b.functions[n]) = {}
         /\ \A n \in DOMAIN b.classes : Code!validateClass(b, b.classes[n]) = {}
BY DEF Code!validateBytecode, Code!If

LEMMA InstructionInTables ==
  ASSUME NEW b, NEW f, NEW i, Code!validateInstruction(b, f, i) = {},
         b.callArguments \in Seq(Seq(Nat)), b.objectFieldNames \in Seq(Seq(STRING)),
         b.closureCaptures \in Seq(Seq(Code!SourceType))
  PROVE  Code!inTables(b, f, i)
<1> DEFINE op == i.opcode
<1>1. CASE op \in {"LoadConstant", "LoadCapture", "StoreCapture", "LoadMember"}
  BY <1>1, TablesFit DEF Code!inTables
<1>2. CASE op \in {"LoadFunction", "BindMethod"}
  BY <1>2, TablesFit, FunctionsFit DEF Code!inTables
<1>3. CASE op = "MakeClosure"
  BY <1>3, TablesFit, FunctionsFit, CapturesFit DEF Code!inTables
<1>4. CASE op = "Call"
  BY <1>4, TablesFit, FunctionsFit, ListsFit DEF Code!inTables
<1>5. CASE op \in {"CallIndirect", "CallNative", "MakeInstance", "MakeArray"}
  BY <1>5, TablesFit, ListsFit DEF Code!inTables
<1>6. CASE op = "MakeObject"
  <2>1. /\ i.first \in DOMAIN b.callArguments /\ i.second \in DOMAIN b.objectFieldNames
        /\ Len(b.objectFieldNames[i.second]) = Len(b.callArguments[i.first])
    BY <1>6, ListsFit
  <2>2. b.callArguments[i.first] \in Seq(Nat)
    BY <2>1
  <2>3. Len(b.callArguments[i.first]) \in Nat
    BY <2>2, LenProperties
  <2>4. Len(b.objectFieldNames[i.second]) <= Len(b.callArguments[i.first])
    BY <2>1, <2>3
  <2>5. QED  BY <1>6, <2>1, <2>4 DEF Code!inTables
<1>7. CASE op = "StoreIndex"
  <2>1. i.first \in DOMAIN b.callArguments /\ Len(b.callArguments[i.first]) = 3
    BY <1>7, ListsFit
  <2>2. Len(b.callArguments[i.first]) >= 3
    BY <2>1
  <2>3. QED  BY <1>7, <2>1, <2>2 DEF Code!inTables
<1>8. CASE op = "StoreMember"
  <2>1. /\ i.first \in DOMAIN b.callArguments /\ Len(b.callArguments[i.first]) = 2
        /\ Code!stringConstant(b, i.second)
    BY <1>8, TablesFit, ListsFit
  <2>2. Len(b.callArguments[i.first]) >= 2
    BY <2>1
  <2>3. QED  BY <1>8, <2>1, <2>2 DEF Code!inTables
<1>9. QED  BY <1>1, <1>2, <1>3, <1>4, <1>5, <1>6, <1>7, <1>8 DEF Code!inTables

LEMMA InstructionInRegisters ==
  ASSUME NEW b, NEW f, NEW i, Code!validateInstruction(b, f, i) = {}
  PROVE  Code!readRegisters(b, i) \cup Code!writtenRegisters(i) \subseteq Code!registers(f)
<1> DEFINE op == i.opcode
<1>1. Code!writtenRegisters(i) \subseteq Code!registers(f)
  BY RegistersFit DEF Code!writtenRegisters, Code!NoDestination
<1>2. Code!readRegisters(b, i) \subseteq Code!registers(f)
  <2>1. CASE op \in {"Move", "Not", "Negate", "JumpIfFalse", "LoadMember", "BindMethod",
                     "Throw", "Return", "StoreCapture"}
    BY <2>1, RegistersFit DEF Code!readRegisters, Code!FirstRegister, Code!SecondRegister
  <2>2. CASE op \in Code!Computes
    BY <2>2, RegistersFit
    DEF Code!readRegisters, Code!FirstRegister, Code!SecondRegister, Code!Computes
  <2>3. CASE op \in {"CallIndirect", "CallNative", "MakeInstance", "Call"}
    BY <2>3, RegistersFit, ListsFit DEF Code!readRegisters, Code!FirstRegister
  <2>4. CASE op \in {"MakeArray", "MakeObject", "StoreIndex", "StoreMember"}
    BY <2>4, ListsFit DEF Code!readRegisters
  <2>5. QED  BY <2>1, <2>2, <2>3, <2>4 DEF Code!readRegisters, Code!Computes
<1>3. QED  BY <1>1, <1>2

LEMMA InstructionGoesOn ==
  ASSUME NEW b, NEW f, Code!validateFunction(b, f) = {},
         {f.registerCount, f.parameterCount} \subseteq Nat,
         f.instructions \in Seq(Code!InstructionType), NEW n \in DOMAIN f.instructions
  PROVE  Code!goesOn(f, n)
<1>1. n \in 1 .. Len(f.instructions) /\ Len(f.instructions) \in Nat
  OBVIOUS
<1>2. Code!validateInstruction(b, f, f.instructions[n]) = {}
  BY FunctionParts
<1>3. f.instructions[n].opcode \notin {"Return", "Jump", "Throw"} => n + 1 \in DOMAIN f.instructions
  BY <1>1, LastInstruction
<1>4. QED  BY <1>2, <1>3, TargetsFit DEF Code!goesOn

(* Whatever module the validator accepts: no instruction of it indexes a       *)
(* register, a capture or a table out of range, falls off the end of its      *)
(* function or jumps out of it, no error register or handler is out of range, *)
(* and no search for a method or constructor goes round in a circle.          *)
THEOREM ValidatedIsInRange ==
  ASSUME NEW b, Code!WellTyped(b), Code!validateBytecode(b) = {}
  PROVE  Code!InRange(b)
<1>1. ASSUME NEW k \in DOMAIN b.functions
      PROVE  LET f == b.functions[k]
             IN  /\ Code!canBeEntered(f)
                 /\ \A n \in DOMAIN f.instructions :
                      LET i == f.instructions[n]
                      IN  /\ Code!inTables(b, f, i) /\ Code!goesOn(f, n)
                          /\ Code!readRegisters(b, i) \cup Code!writtenRegisters(i)
                               \subseteq Code!registers(f)
                 /\ \A n \in DOMAIN f.exceptionHandlers : Code!catches(f, f.exceptionHandlers[n])
  <2> DEFINE f == b.functions[k]
  <2>1. /\ Code!validateFunction(b, f) = {}
        /\ {f.registerCount, f.parameterCount} \subseteq Nat
        /\ f.instructions \in Seq(Code!InstructionType)
        /\ f.exceptionHandlers \in Seq(Code!HandlerType)
    BY Validated DEF Code!WellTyped
  <2>2. /\ Code!canBeEntered(f)
        /\ \A n \in DOMAIN f.instructions :
              Code!validateInstruction(b, f, f.instructions[n]) = {}
        /\ \A n \in DOMAIN f.exceptionHandlers :
              Code!validateHandler(f, f.exceptionHandlers[n]) = {}
    BY <2>1, FunctionParts
  <2>3. ASSUME NEW n \in DOMAIN f.exceptionHandlers
        PROVE  Code!catches(f, f.exceptionHandlers[n])
    <3>1. f.exceptionHandlers[n] \in Code!HandlerType
      BY <2>1
    <3>2. Code!validateHandler(f, f.exceptionHandlers[n]) = {}
      BY <2>2
    <3>3. /\ f.exceptionHandlers[n].errorRegister \in Code!registers(f)
          /\ ~(f.exceptionHandlers[n].handlerInstruction > Len(f.instructions))
      BY <3>2 DEF Code!validateHandler, Code!If
    <3>4. f.exceptionHandlers[n].handlerInstruction \in Nat \ {0}
      BY <3>1 DEF Code!HandlerType
    <3>5. DOMAIN f.instructions = 1 .. Len(f.instructions) /\ Len(f.instructions) \in Nat
      BY <2>1
    <3>6. \A position \in Nat \ {0}, size \in Nat : ~(position > size) => position \in 1 .. size
      OBVIOUS
    <3>7. QED  BY <3>3, <3>4, <3>5, <3>6 DEF Code!catches
  <2>4. ASSUME NEW n \in DOMAIN f.instructions
        PROVE  LET i == f.instructions[n]
               IN  /\ Code!inTables(b, f, i) /\ Code!goesOn(f, n)
                   /\ Code!readRegisters(b, i) \cup Code!writtenRegisters(i)
                        \subseteq Code!registers(f)
    BY <2>1, <2>2, InstructionInTables, InstructionInRegisters, InstructionGoesOn
    DEF Code!WellTyped
  <2>5. QED  BY <2>2, <2>3, <2>4
<1>2. Code!KnownFunction(b, 0)
  BY DEF Code!WellTyped, Code!KnownFunction
<1>3. \A n \in DOMAIN b.classes : Code!hasParts(b, b.classes[n])
  BY <1>2, Validated, ClassParts
<1>4. ASSUME NEW C \in SUBSET DOMAIN b.classes, Code!circle(b, C)
      PROVE  FALSE
  <2>1. PICK c \in C : b.classes[c].parent \in C
    BY <1>4 DEF Code!circle
  <2>2. Code!validateClass(b, b.classes[c]) = {}
    BY Validated
  <2>3. "KBC1208" \in Code!validateClass(b, b.classes[c])
    BY <1>4, <2>1 DEF Code!validateClass, Code!If
  <2>4. QED  BY <2>2, <2>3
<1>5. QED  BY <1>1, <1>3, <1>4 DEF Code!InRange

(* The module runs once: no instruction and no class refers to its body, so   *)
(* that no call, closure, bound method or constructor starts it again.        *)
THEOREM EntryRunsOnce ==
  ASSUME NEW b, Code!WellTyped(b), Code!validateBytecode(b) = {}
  PROVE  /\ \A k \in DOMAIN b.functions : \A n \in DOMAIN b.functions[k].instructions :
              LET i == b.functions[k].instructions[n]
              IN  /\ i.opcode \in {"Call", "LoadFunction", "MakeClosure"} => i.first # 0
                  /\ i.opcode = "BindMethod" => i.second # 0
         /\ \A c \in DOMAIN b.classes : \A m \in DOMAIN b.classes[c].methods :
              b.classes[c].methods[m].function # 0
<1>1. ASSUME NEW k \in DOMAIN b.functions, NEW n \in DOMAIN b.functions[k].instructions
      PROVE  LET i == b.functions[k].instructions[n]
             IN  /\ i.opcode \in {"Call", "LoadFunction", "MakeClosure"} => i.first # 0
                 /\ i.opcode = "BindMethod" => i.second # 0
  <2>1. Code!validateInstruction(b, b.functions[k], b.functions[k].instructions[n]) = {}
    BY Validated, FunctionParts DEF Code!WellTyped
  <2>2. QED  BY <2>1, TablesFit, FunctionsFit
<1>2. ASSUME NEW c \in DOMAIN b.classes, NEW m \in DOMAIN b.classes[c].methods
      PROVE  b.classes[c].methods[m].function # 0
  <2>1. Code!KnownFunction(b, 0)
    BY DEF Code!WellTyped, Code!KnownFunction
  <2>2. Code!validateClass(b, b.classes[c]) = {}
    BY Validated
  <2>3. Code!functionAt(b, b.classes[c].methods[m].function).parameterCount # 0
    BY <2>1, <2>2, ClassParts
  <2>4. Code!functionAt(b, 0).parameterCount = 0
    BY Validated DEF Code!functionAt
  <2>5. QED  BY <2>3, <2>4
<1>3. QED  BY <1>1, <1>2

(* A closure is made with as many captures as its function reads.             *)
THEOREM ClosuresAreComplete ==
  ASSUME NEW b, Code!WellTyped(b), Code!validateBytecode(b) = {}
  PROVE  Code!closuresAreComplete(b)
<1> SUFFICES ASSUME NEW k \in DOMAIN b.functions, NEW n \in DOMAIN b.functions[k].instructions,
                    b.functions[k].instructions[n].opcode = "MakeClosure"
             PROVE  LET i == b.functions[k].instructions[n]
                    IN  Len(b.closureCaptures[i.second]) = Code!functionAt(b, i.first).captureCount
  BY DEF Code!closuresAreComplete, Code!Range
<1>1. Code!validateInstruction(b, b.functions[k], b.functions[k].instructions[n]) = {}
  BY Validated, FunctionParts DEF Code!WellTyped
<1>2. QED  BY <1>1, TablesFit, FunctionsFit, CapturesFit DEF Code!WellTyped

(* What this module assumes of a program holds of every module the validator  *)
(* accepts, with positions counted from 0.                                    *)
LengthsOf(b) == [k \in DOMAIN b.functions |-> Len(b.functions[k].instructions)]
HandlersOf(b) ==
  [k \in DOMAIN b.functions |->
    [n \in DOMAIN b.functions[k].exceptionHandlers |->
      LET h == b.functions[k].exceptionHandlers[n]
      IN  [first |-> h.firstInstruction - 1, count |-> h.instructionCount,
           handler |-> h.handlerInstruction - 1]]]
THEOREM ValidatedIsAProgram ==
  ASSUME NEW b, Code!WellTyped(b), Code!validateBytecode(b) = {}
  PROVE  Program(DOMAIN b.functions, 1, LengthsOf(b), HandlersOf(b))
<1>1. 1 \in DOMAIN b.functions
  BY DEF Code!WellTyped
<1>2. ASSUME NEW k \in DOMAIN b.functions
      PROVE  /\ Len(b.functions[k].instructions) \in Nat \ {0}
             /\ HandlersOf(b)[k] \in Seq([first : Nat, count : Nat, handler : Nat])
             /\ \A n \in 1 .. Len(HandlersOf(b)[k]) :
                   HandlersOf(b)[k][n].handler < Len(b.functions[k].instructions)
  <2> DEFINE f == b.functions[k]
             Zero(h) == [first |-> h.firstInstruction - 1, count |-> h.instructionCount,
                         handler |-> h.handlerInstruction - 1]
  <2>1. /\ f.instructions \in Seq(Code!InstructionType)
        /\ f.exceptionHandlers \in Seq(Code!HandlerType)
    BY DEF Code!WellTyped
  <2>2. Code!canBeEntered(f)
        /\ \A n \in DOMAIN f.exceptionHandlers : Code!catches(f, f.exceptionHandlers[n])
    BY ValidatedIsInRange DEF Code!InRange
  <2>3. Len(f.instructions) \in Nat \ {0}
    BY <2>1, <2>2, EmptySeq DEF Code!canBeEntered
  <2>4. HandlersOf(b)[k] = [n \in DOMAIN f.exceptionHandlers |-> Zero(f.exceptionHandlers[n])]
    BY DEF HandlersOf
  <2>5. ASSUME NEW n \in DOMAIN f.exceptionHandlers
        PROVE  /\ Zero(f.exceptionHandlers[n]) \in [first : Nat, count : Nat, handler : Nat]
               /\ Zero(f.exceptionHandlers[n]).handler < Len(f.instructions)
    <3>1. f.exceptionHandlers[n] \in Code!HandlerType
      BY <2>1
    <3>2. f.exceptionHandlers[n].handlerInstruction \in 1 .. Len(f.instructions)
      BY <2>1, <2>2 DEF Code!catches
    <3>3. QED  BY <2>3, <3>1, <3>2 DEF Code!HandlerType
  <2>6. DOMAIN f.exceptionHandlers = 1 .. Len(f.exceptionHandlers) /\ Len(f.exceptionHandlers) \in Nat
    BY <2>1
  <2> HIDE DEF Zero
  <2>7. /\ HandlersOf(b)[k] \in Seq([first : Nat, count : Nat, handler : Nat])
        /\ DOMAIN HandlersOf(b)[k] = 1 .. Len(HandlersOf(b)[k])
    BY <2>4, <2>5, <2>6
  <2>8. QED  BY <2>3, <2>4, <2>5, <2>7
<1>3. LengthsOf(b) \in [DOMAIN b.functions -> Nat \ {0}]
  BY <1>2 DEF LengthsOf
<1>4. HandlersOf(b) \in [DOMAIN b.functions -> Seq([first : Nat, count : Nat, handler : Nat])]
  BY <1>2 DEF HandlersOf
<1>5. QED  BY <1>1, <1>2, <1>3, <1>4 DEF Program, LengthsOf
=============================================================================
