--------------------------- MODULE VmMemory_proofs ---------------------------
(***************************************************************************)
(* Proofs about VmMemory for any number of cells, registers, frames and    *)
(* natives: what the machine can still read was neither freed nor handed   *)
(* out again.                                                              *)
(*                                                                         *)
(* Every opcode is a composition of a few changes: a cell is allocated or  *)
(* overwritten, a frame is pushed, dropped or written to, a native is      *)
(* pushed, popped or given something to protect, or everything no root     *)
(* reaches is freed.  The invariant is stated over the four parts of the   *)
(* machine, so that one lemma says of each change that it keeps it.        *)
(***************************************************************************)
EXTENDS VmMemory, SequenceTheorems, TLAPS

(* References of heap h that are good to follow: values, and boxes of      *)
(* captured variables.                                                     *)
Pointers(h) == {r \in Pointer : h[r.at].kind = r.tag}
Boxes(h) == {r \in Box : h[r.at].kind = "cell"}
Values(h) == Pointers(h) \cup {Null}
Errors(h) == {r \in Pointers(h) : r.tag = "error"}

(* What a cell of heap h may hold: a closure holds boxes, every other cell *)
(* values.                                                                 *)
Holdable(h, kind) ==
  IF kind = "free" THEN {} ELSE IF kind = "closure" THEN Boxes(h) ELSE Pointers(h)

SoundHeap(h) ==
  /\ h \in [Cells -> [kind : ValueKind \cup {"cell", "free"}, holds : SUBSET Reference]]
  /\ \A c \in Cells : h[c].holds \subseteq Holdable(h, h[c].kind)

FrameOver(h) ==
  [registers      : [Registers -> Values(h)],
   registerCells  : [Registers -> Boxes(h) \cup {Null}],
   captures       : SUBSET Boxes(h),
   returnOverride : Values(h)]

NativeOver(h) ==
  [base : Nat \ {0}, arguments : SUBSET Pointers(h), element : SUBSET Pointers(h),
   output : Values(h)]

(* The natives on the C++ stack were called from different frames, the     *)
(* outermost from the lowest.                                              *)
BasesNested(fs, ns) ==
  /\ \A k \in DOMAIN ns : ns[k].base <= Len(fs)
  /\ \A k, l \in DOMAIN ns : k < l => ns[k].base < ns[l].base

DistinctBoxes(fs) ==
  \A k, l \in DOMAIN fs : \A i, j \in Registers :
    (fs[k].registerCells[i] # Null /\ fs[k].registerCells[i] = fs[l].registerCells[j])
      => k = l /\ i = j

(* The machine is sound: every reference a frame, a native, the error on   *)
(* its way or a cell has is good, and a register holds a value, never the  *)
(* box of a captured variable.                                             *)
Sound(h, fs, ns, t) ==
  /\ SoundHeap(h)
  /\ fs \in Seq(FrameOver(h))
  /\ ns \in Seq(NativeOver(h))
  /\ t \in Errors(h) \cup {Null}
  /\ BasesNested(fs, ns)
  /\ DistinctBoxes(fs)

MemoryInv == Sound(heap, frames, natives, thrown)
-----------------------------------------------------------------------------
(* References.                                                             *)
LEMMA NullIsNoReference == Null \notin Reference
<1>1. Reference \subseteq [tag : {"object", "closure", "bound", "error", "cell"}, at : Cells]
  BY DEF Reference, Pointer, Box, ValueKind
<1>2. QED  BY <1>1, VmAssumption

(* A heap in which every allocated cell is still of its kind keeps what    *)
(* was good.                                                               *)
SameKinds(h, g) == \A c \in Cells : h[c].kind # "free" => g[c].kind = h[c].kind

LEMMA GoodStaysGood ==
  ASSUME NEW h, NEW g, SameKinds(h, g)
  PROVE  /\ Pointers(h) \subseteq Pointers(g) /\ Boxes(h) \subseteq Boxes(g)
         /\ Values(h) \subseteq Values(g) /\ Errors(h) \subseteq Errors(g)
         /\ FrameOver(h) \subseteq FrameOver(g)
         /\ NativeOver(h) \subseteq NativeOver(g)
         /\ \A kind : Holdable(h, kind) \subseteq Holdable(g, kind)
<1>1. \A r \in Pointer : r.tag # "free" /\ r.at \in Cells
  BY DEF Pointer, ValueKind
<1>2. \A r \in Box : r.tag # "free" /\ r.at \in Cells
  BY DEF Box
<1>3. Pointers(h) \subseteq Pointers(g)
  BY <1>1 DEF SameKinds, Pointers
<1>4. Boxes(h) \subseteq Boxes(g)
  BY <1>2 DEF SameKinds, Boxes
<1>5. Values(h) \subseteq Values(g) /\ Errors(h) \subseteq Errors(g)
  BY <1>3 DEF Values, Errors
<1>6. FrameOver(h) \subseteq FrameOver(g)
  <2>1. /\ [Registers -> Values(h)] \subseteq [Registers -> Values(g)]
        /\ [Registers -> Boxes(h) \cup {Null}] \subseteq [Registers -> Boxes(g) \cup {Null}]
    BY <1>4, <1>5
  <2>2. QED  BY <2>1, <1>4, <1>5 DEF FrameOver
<1>7. NativeOver(h) \subseteq NativeOver(g)
  BY <1>3, <1>5 DEF NativeOver
<1>8. \A kind : Holdable(h, kind) \subseteq Holdable(g, kind)
  BY <1>3, <1>4 DEF Holdable
<1>9. QED  BY <1>3, <1>4, <1>5, <1>6, <1>7, <1>8

LEMMA HeapStaysUsed ==
  ASSUME NEW h, NEW g, NEW fs, NEW ns, NEW t,
         Sound(h, fs, ns, t), SameKinds(h, g), SoundHeap(g)
  PROVE  Sound(g, fs, ns, t)
<1>1. fs \in Seq(FrameOver(g))
  BY GoodStaysGood, SeqMonotonic DEF Sound
<1>2. ns \in Seq(NativeOver(g))
  BY GoodStaysGood, SeqMonotonic DEF Sound
<1>3. t \in Errors(g) \cup {Null}
  BY GoodStaysGood DEF Sound
<1>4. QED  BY <1>1, <1>2, <1>3 DEF Sound

(* Allocating a cell for references that are good.                         *)
LEMMA Allocating ==
  ASSUME NEW h, NEW fs, NEW ns, NEW t, Sound(h, fs, ns, t),
         NEW c \in Cells, h[c].kind = "free",
         NEW kind \in ValueKind \cup {"cell"}, NEW refs \in SUBSET Holdable(h, kind)
  PROVE  /\ Sound(Put(h, c, kind, refs), fs, ns, t)
         /\ SameKinds(h, Put(h, c, kind, refs))
         /\ kind # "cell" => Ref(kind, c) \in Pointers(Put(h, c, kind, refs))
<1> DEFINE g == Put(h, c, kind, refs)
<1>1. h \in [Cells -> [kind : ValueKind \cup {"cell", "free"}, holds : SUBSET Reference]]
  BY DEF Sound, SoundHeap
<1>2. refs \subseteq Reference
  BY DEF Holdable, Reference, Pointers, Boxes
<1>3. g \in [Cells -> [kind : ValueKind \cup {"cell", "free"}, holds : SUBSET Reference]]
  BY <1>1, <1>2 DEF Put
<1>4. /\ g[c].kind = kind /\ g[c].holds = refs
      /\ \A d \in Cells \ {c} : g[d] = h[d]
  BY <1>1 DEF Put
<1>5. SameKinds(h, g)
  BY <1>4 DEF SameKinds
<1>6. \A d \in Cells : g[d].holds \subseteq Holdable(g, g[d].kind)
  <2>1. \A k : Holdable(h, k) \subseteq Holdable(g, k)
    BY <1>5, GoodStaysGood
  <2>2. \A d \in Cells : h[d].holds \subseteq Holdable(h, h[d].kind)
    BY DEF Sound, SoundHeap
  <2>3. QED  BY <1>4, <2>1, <2>2
<1>7. SoundHeap(g)
  BY <1>3, <1>6 DEF SoundHeap
<1>8. kind # "cell" => Ref(kind, c) \in Pointers(g)
  BY <1>4 DEF Ref, Pointers, Pointer, ValueKind
<1>9. QED  BY <1>5, <1>7, <1>8, HeapStaysUsed

(* Overwriting what a cell holds with references that are good.            *)
LEMMA Storing ==
  ASSUME NEW h, NEW fs, NEW ns, NEW t, Sound(h, fs, ns, t),
         NEW c \in Cells, NEW refs \in SUBSET Holdable(h, h[c].kind)
  PROVE  /\ Sound([h EXCEPT ![c].holds = refs], fs, ns, t)
         /\ SameKinds(h, [h EXCEPT ![c].holds = refs])
<1> DEFINE g == [h EXCEPT ![c].holds = refs]
<1>1. h \in [Cells -> [kind : ValueKind \cup {"cell", "free"}, holds : SUBSET Reference]]
  BY DEF Sound, SoundHeap
<1>2. refs \subseteq Reference
  BY DEF Holdable, Reference, Pointers, Boxes
<1>3. g \in [Cells -> [kind : ValueKind \cup {"cell", "free"}, holds : SUBSET Reference]]
  BY <1>1, <1>2
<1>4. /\ g[c].kind = h[c].kind /\ g[c].holds = refs
      /\ \A d \in Cells \ {c} : g[d] = h[d]
  BY <1>1
<1>5. SameKinds(h, g)
  BY <1>4 DEF SameKinds
<1>6. \A d \in Cells : g[d].holds \subseteq Holdable(g, g[d].kind)
  <2>1. \A k : Holdable(h, k) \subseteq Holdable(g, k)
    BY <1>5, GoodStaysGood
  <2>2. \A d \in Cells : h[d].holds \subseteq Holdable(h, h[d].kind)
    BY DEF Sound, SoundHeap
  <2>3. QED  BY <1>4, <2>1, <2>2
<1>7. QED  BY <1>3, <1>5, <1>6, HeapStaysUsed DEF SoundHeap
-----------------------------------------------------------------------------
(* A safepoint.  What is kept is closed: it has what the roots refer to    *)
(* and what a kept cell refers to.                                         *)
LEMMA KeptIsClosed ==
  ASSUME NEW h, SoundHeap(h), NEW refs \in SUBSET Reference
  PROVE  /\ \A r \in refs : r.at \in Kept(h, refs)
         /\ \A c \in Kept(h, refs) : \A r \in h[c].holds : r.at \in Kept(h, refs)
<1> DEFINE first == {r.at : r \in refs}
           next == [c \in Cells |-> {r.at : r \in h[c].holds}]
           closed == {S \in SUBSET Cells : first \subseteq S /\ \A c \in S : next[c] \subseteq S}
<1>1. Kept(h, refs) = {c \in Cells : \A S \in closed : c \in S}
  BY DEF Kept
<1>2. \A r \in Reference : r.at \in Cells
  BY DEF Reference, Pointer, Box
<1>3. \A r \in refs : r.at \in Kept(h, refs)
  BY <1>1, <1>2
<1>4. ASSUME NEW c \in Kept(h, refs), NEW r \in h[c].holds
      PROVE  r.at \in Kept(h, refs)
  <2>1. c \in Cells /\ \A S \in closed : c \in S
    BY <1>1
  <2>2. r \in Reference /\ r.at \in next[c]
    BY <2>1 DEF SoundHeap
  <2>3. \A S \in closed : r.at \in S
    BY <2>1, <2>2
  <2>4. QED  BY <1>1, <1>2, <2>2, <2>3
<1>5. QED  BY <1>3, <1>4

LEMMA SequenceOver ==
  ASSUME NEW S, NEW T, NEW s \in Seq(S), \A k \in 1..Len(s) : s[k] \in T
  PROVE  s \in Seq(T)
<1>1. Len(s) \in Nat /\ s \in [1..Len(s) -> S]
  BY LenProperties
<1>2. s \in [1..Len(s) -> T]
  BY <1>1
<1>3. QED  BY <1>1, <1>2, SeqDef

LEMMA SequenceElements ==
  ASSUME NEW S, NEW s \in Seq(S)
  PROVE  /\ Len(s) \in Nat /\ DOMAIN s = 1..Len(s)
         /\ \A k \in 1..Len(s) : s[k] \in S
         /\ s # <<>> => Len(s) \in 1..Len(s)
         /\ Len(s) = 0 => s = <<>>
<1>1. Len(s) \in Nat /\ DOMAIN s = 1..Len(s)
  BY LenProperties
<1>2. \A k \in 1..Len(s) : s[k] \in S
  BY ElementOfSeq
<1>3. s # <<>> => Len(s) \in 1..Len(s)
  BY EmptySeq
<1>4. QED  BY <1>1, <1>2, <1>3, EmptySeq

(* Frames and natives all of whose references are good in g.               *)
LEMMA FrameWithGoodReferences ==
  ASSUME NEW h, NEW g, NEW f \in FrameOver(h),
         \A r \in FrameRefs(f) : r \in Pointers(h) \cup Boxes(h) => r \in Pointers(g) \cup Boxes(g)
  PROVE  f \in FrameOver(g)
<1>1. /\ f.registers \in [Registers -> Values(h)]
      /\ f.registerCells \in [Registers -> Boxes(h) \cup {Null}]
      /\ f.captures \in SUBSET Boxes(h) /\ f.returnOverride \in Values(h)
      /\ f = [registers |-> f.registers, registerCells |-> f.registerCells,
              captures |-> f.captures, returnOverride |-> f.returnOverride]
  BY DEF FrameOver
<1>2. \A r \in Pointers(h) : r \notin Boxes(g)
  BY DEF Pointers, Boxes, Pointer, Box, ValueKind
<1>3. \A r \in Boxes(h) : r \notin Pointers(g)
  BY DEF Pointers, Boxes, Pointer, Box, ValueKind
<1>4. /\ \A i \in Registers : f.registers[i] # Null => f.registers[i] \in FrameRefs(f)
      /\ \A i \in Registers : f.registerCells[i] # Null => f.registerCells[i] \in FrameRefs(f)
      /\ f.returnOverride # Null => f.returnOverride \in FrameRefs(f)
  BY DEF FrameRefs
<1>5. \A r \in f.captures : r \in FrameRefs(f)
  <2>1. \A r \in f.captures : r # Null
    BY <1>1, NullIsNoReference DEF Boxes, Reference
  <2>2. QED  BY <2>1 DEF FrameRefs
<1>6. f.registers \in [Registers -> Values(g)]
  BY <1>1, <1>2, <1>4 DEF Values
<1>7. f.registerCells \in [Registers -> Boxes(g) \cup {Null}]
  BY <1>1, <1>3, <1>4
<1>8. f.captures \in SUBSET Boxes(g)
  BY <1>1, <1>3, <1>5
<1>9. f.returnOverride \in Values(g)
  BY <1>1, <1>2, <1>4 DEF Values
<1>10. QED  BY <1>1, <1>6, <1>7, <1>8, <1>9 DEF FrameOver

LEMMA NativeWithGoodReferences ==
  ASSUME NEW h, NEW g, NEW n \in NativeOver(h),
         \A r \in NativeRefs(n) : r \in Pointers(h) => r \in Pointers(g)
  PROVE  n \in NativeOver(g)
<1>1. /\ n.base \in Nat \ {0} /\ n.arguments \in SUBSET Pointers(h)
      /\ n.element \in SUBSET Pointers(h) /\ n.output \in Values(h)
      /\ n = [base |-> n.base, arguments |-> n.arguments, element |-> n.element,
              output |-> n.output]
  BY DEF NativeOver
<1>2. n.arguments \in SUBSET Pointers(g) /\ n.element \in SUBSET Pointers(g)
  BY <1>1 DEF NativeRefs
<1>3. n.output \in Values(g)
  BY <1>1 DEF NativeRefs, Values, Some
<1>4. QED  BY <1>1, <1>2, <1>3 DEF NativeOver

LEMMA RootsAre ==
  ASSUME NEW fs, NEW ns, NEW r
  PROVE  r \in SafepointRoots(fs, ns) <=>
           \/ \E k \in DOMAIN fs : r \in FrameRefs(fs[k])
           \/ \E k \in DOMAIN ns : r \in NativeRefs(ns[k])
BY DEF SafepointRoots

LEMMA Collecting ==
  ASSUME NEW h, NEW fs, NEW ns, Sound(h, fs, ns, Null)
  PROVE  Sound(Collected(h, fs, ns), fs, ns, Null)
<1> DEFINE refs == SafepointRoots(fs, ns)
           kept == Kept(h, refs)
           g == Collected(h, fs, ns)
<1> SUFFICES Sound(g, fs, ns, Null)
  OBVIOUS
<1>1. /\ Len(fs) \in Nat /\ DOMAIN fs = 1..Len(fs)
      /\ \A k \in 1..Len(fs) : fs[k] \in FrameOver(h)
      /\ Len(ns) \in Nat /\ DOMAIN ns = 1..Len(ns)
      /\ \A k \in 1..Len(ns) : ns[k] \in NativeOver(h)
  BY SequenceElements DEF Sound
<1>2. \A k \in DOMAIN fs : FrameRefs(fs[k]) \subseteq refs
  BY RootsAre
<1>3. \A k \in DOMAIN ns : NativeRefs(ns[k]) \subseteq refs
  BY RootsAre
<1>4. refs \in SUBSET Reference
  <2>1. \A f \in FrameOver(h) : FrameRefs(f) \subseteq Reference
    BY DEF FrameOver, FrameRefs, Values, Boxes, Pointers, Reference
  <2>2. \A n \in NativeOver(h) : NativeRefs(n) \subseteq Reference
    BY DEF NativeOver, NativeRefs, Values, Pointers, Reference, Some
  <2>3. /\ \A k \in DOMAIN fs : FrameRefs(fs[k]) \subseteq Reference
        /\ \A k \in DOMAIN ns : NativeRefs(ns[k]) \subseteq Reference
    <3>1. \A k \in DOMAIN fs : fs[k] \in FrameOver(h)
      BY <1>1
    <3>2. \A k \in DOMAIN ns : ns[k] \in NativeOver(h)
      BY <1>1
    <3>3. QED  BY <2>1, <2>2, <3>1, <3>2
  <2>4. QED  BY <2>3, RootsAre
<1>5. SoundHeap(h)
  BY DEF Sound
<1>6. /\ \A r \in refs : r.at \in kept
      /\ \A c \in kept : \A r \in h[c].holds : r.at \in kept
  BY <1>4, <1>5, KeptIsClosed
<1>7. \A c \in Cells : g[c] = IF c \in kept THEN h[c] ELSE Free
  BY DEF Collected
<1>8. kept \subseteq Cells
  BY DEF Kept
<1>9. \A r : r.at \in kept =>
         /\ r \in Pointers(h) => r \in Pointers(g)
         /\ r \in Boxes(h) => r \in Boxes(g)
  BY <1>7, <1>8 DEF Pointers, Boxes
<1>10. fs \in Seq(FrameOver(g))
  <2>1. \A k \in 1..Len(fs) : fs[k] \in FrameOver(g)
    BY <1>1, <1>2, <1>6, <1>9, FrameWithGoodReferences
  <2>2. fs \in Seq(FrameOver(h))
    BY DEF Sound
  <2>3. QED  BY <2>1, <2>2, SequenceOver
<1>11. ns \in Seq(NativeOver(g))
  <2>1. \A k \in 1..Len(ns) : ns[k] \in NativeOver(g)
    BY <1>1, <1>3, <1>6, <1>9, NativeWithGoodReferences
  <2>2. ns \in Seq(NativeOver(h))
    BY DEF Sound
  <2>3. QED  BY <2>1, <2>2, SequenceOver
<1>12. SoundHeap(g)
  <2>1. g \in [Cells -> [kind : ValueKind \cup {"cell", "free"}, holds : SUBSET Reference]]
    <3>1. Free \in [kind : ValueKind \cup {"cell", "free"}, holds : SUBSET Reference]
      BY DEF Free
    <3>2. \A c \in Cells :
            h[c] \in [kind : ValueKind \cup {"cell", "free"}, holds : SUBSET Reference]
      BY <1>5 DEF SoundHeap
    <3>3. QED  BY <3>1, <3>2 DEF Collected
  <2>2. ASSUME NEW c \in Cells
        PROVE  g[c].holds \subseteq Holdable(g, g[c].kind)
    <3>1. CASE c \in kept
      <4>1. g[c] = h[c] /\ h[c].holds \subseteq Holdable(h, h[c].kind)
        BY <1>5, <1>7, <3>1 DEF SoundHeap
      <4>2. \A r \in h[c].holds : r.at \in kept
        BY <1>6, <3>1
      <4>3. QED  BY <1>9, <4>1, <4>2 DEF Holdable
    <3>2. CASE c \notin kept
      BY <1>7, <3>2 DEF Free
    <3>3. QED  BY <3>1, <3>2
  <2>3. QED  BY <2>1, <2>2 DEF SoundHeap
<1>13. QED  BY <1>10, <1>11, <1>12 DEF Sound

LEMMA AtSafepoint ==
  ASSUME NEW h, NEW fs, NEW ns, Sound(h, fs, ns, Null), NEW g \in Safepoint(h, fs, ns)
  PROVE  Sound(g, fs, ns, Null)
BY Collecting DEF Safepoint
-----------------------------------------------------------------------------
(* Frames: dropped, pushed, written to.                                    *)
LEMMA Dropping ==
  ASSUME NEW h, NEW fs, NEW ns, NEW t, Sound(h, fs, ns, t),
         NEW k \in 0..Len(fs), \A n \in DOMAIN ns : ns[n].base <= k
  PROVE  /\ Sound(h, SubSeq(fs, 1, k), ns, t)
         /\ Len(SubSeq(fs, 1, k)) = k
         /\ \A j \in 1..k : SubSeq(fs, 1, k)[j] = fs[j]
<1> DEFINE rest == SubSeq(fs, 1, k)
<1>1. Len(fs) \in Nat /\ DOMAIN fs = 1..Len(fs) /\ \A j \in 1..Len(fs) : fs[j] \in FrameOver(h)
  BY SequenceElements DEF Sound
<1>2. /\ rest \in Seq(FrameOver(h)) /\ Len(rest) = k
      /\ \A j \in 1..k : rest[j] = fs[j]
  <2>1. \A j \in 1..k : fs[j] \in FrameOver(h)
    BY <1>1
  <2>2. QED  BY <1>1, <2>1, SubSeqProperties
<1>3. DOMAIN rest = 1..k
  BY <1>2, SequenceElements
<1>4. BasesNested(rest, ns)
  BY <1>2 DEF Sound, BasesNested
<1>5. DistinctBoxes(rest)
  <2>1. \A j \in 1..k : j \in DOMAIN fs
    BY <1>1
  <2>2. QED  BY <1>2, <1>3, <2>1 DEF Sound, DistinctBoxes
<1>6. QED  BY <1>2, <1>4, <1>5 DEF Sound

LEMMA Pushing ==
  ASSUME NEW h, NEW fs, NEW ns, NEW t, Sound(h, fs, ns, t),
         NEW f \in FrameOver(h), \A i \in Registers : f.registerCells[i] = Null
  PROVE  Sound(h, Append(fs, f), ns, t)
<1> DEFINE gs == Append(fs, f)
<1>1. Len(fs) \in Nat /\ DOMAIN fs = 1..Len(fs)
  BY SequenceElements DEF Sound
<1>2. /\ gs \in Seq(FrameOver(h)) /\ Len(gs) = Len(fs) + 1
      /\ \A j \in 1..Len(fs) : gs[j] = fs[j]
      /\ gs[Len(fs) + 1] = f
  BY AppendProperties DEF Sound
<1>3. DOMAIN gs = 1..(Len(fs) + 1)
  BY <1>2, SequenceElements
<1>4. BasesNested(gs, ns)
  <2>1. \A k \in DOMAIN ns : ns[k] \in NativeOver(h)
    BY SequenceElements DEF Sound
  <2>2. \A k \in DOMAIN ns : ns[k].base \in Nat
    BY <2>1 DEF NativeOver
  <2>3. QED  BY <1>1, <1>2, <2>2 DEF Sound, BasesNested
<1>5. DistinctBoxes(gs)
  <2>1. \A j \in DOMAIN gs : j \in DOMAIN fs \/ j = Len(fs) + 1
    BY <1>1, <1>3
  <2>2. \A j \in DOMAIN gs, i \in Registers :
          gs[j].registerCells[i] # Null => j \in DOMAIN fs /\ gs[j] = fs[j]
    BY <1>1, <1>2, <2>1
  <2>3. QED  BY <2>2 DEF Sound, DistinctBoxes
<1>6. QED  BY <1>2, <1>4, <1>5 DEF Sound

(* The last frame is replaced by one with the same boxes.                  *)
LEMMA Replacing ==
  ASSUME NEW h, NEW fs, NEW ns, NEW t, Sound(h, fs, ns, t), fs # <<>>,
         NEW f \in FrameOver(h), f.registerCells = fs[Len(fs)].registerCells
  PROVE  /\ Sound(h, [fs EXCEPT ![Len(fs)] = f], ns, t)
         /\ Len([fs EXCEPT ![Len(fs)] = f]) = Len(fs)
<1> DEFINE gs == [fs EXCEPT ![Len(fs)] = f]
<1>1. Len(fs) \in 1..Len(fs) /\ DOMAIN fs = 1..Len(fs)
  BY SequenceElements DEF Sound
<1>2. /\ gs \in Seq(FrameOver(h)) /\ Len(gs) = Len(fs)
      /\ \A j \in 1..Len(fs) : gs[j] = IF j = Len(fs) THEN f ELSE fs[j]
  BY <1>1, ExceptSeq DEF Sound
<1>3. DOMAIN gs = DOMAIN fs
  BY <1>1, <1>2, SequenceElements
<1>4. \A j \in DOMAIN gs : gs[j].registerCells = fs[j].registerCells
  BY <1>1, <1>2, <1>3
<1>5. DistinctBoxes(gs)
  BY <1>3, <1>4 DEF Sound, DistinctBoxes
<1>6. BasesNested(gs, ns)
  BY <1>2 DEF Sound, BasesNested
<1>7. QED  BY <1>2, <1>5, <1>6 DEF Sound

(* writeRegister of a value: the register, and the cell of a boxed one.    *)
LEMMA Writing ==
  ASSUME NEW h, NEW fs, NEW ns, NEW t, Sound(h, fs, ns, t), fs # <<>>,
         NEW i \in Registers, NEW v \in Values(h)
  PROVE  /\ Sound(WriteCell(h, fs[Len(fs)], i, v), Wrote(fs, i, v), ns, t)
         /\ Len(Wrote(fs, i, v)) = Len(fs)
<1> DEFINE f == fs[Len(fs)]
           g == WriteCell(h, f, i, v)
<1>1. f \in FrameOver(h)
  BY SequenceElements DEF Sound
<1>2. Sound(g, fs, ns, t) /\ SameKinds(h, g)
  <2>1. CASE f.registerCells[i] = Null
    BY <2>1 DEF WriteCell, SameKinds
  <2>2. CASE f.registerCells[i] # Null
    <3>1. f.registerCells[i] \in Boxes(h)
      BY <1>1, <2>2 DEF FrameOver
    <3>2. /\ f.registerCells[i].at \in Cells
          /\ Some(v) \in SUBSET Holdable(h, h[f.registerCells[i].at].kind)
      BY <3>1 DEF Boxes, Box, Some, Values, Holdable
    <3>3. QED  BY <2>2, <3>2, Storing DEF WriteCell
  <2>3. QED  BY <2>1, <2>2
<1>3. f \in FrameOver(g) /\ v \in Values(g)
  BY <1>1, <1>2, GoodStaysGood
<1>4. /\ WriteFrame(f, i, v) \in FrameOver(g)
      /\ WriteFrame(f, i, v).registerCells = f.registerCells
  BY <1>3 DEF WriteFrame, FrameOver
<1>5. QED  BY <1>1, <1>2, <1>4, Replacing DEF Wrote
-----------------------------------------------------------------------------
(* Natives: pushed, popped, given something to protect.                    *)
LEMMA LastNative ==
  ASSUME NEW h, NEW fs, NEW ns, NEW t, Sound(h, fs, ns, t), ns # <<>>
  PROVE  /\ Len(ns) \in 1..Len(ns) /\ DOMAIN ns = 1..Len(ns)
         /\ ns[Len(ns)] \in NativeOver(h) /\ ns[Len(ns)].base \in 1..Len(fs)
         /\ \A k \in DOMAIN ns : ns[k].base <= ns[Len(ns)].base
<1>1. Len(ns) \in 1..Len(ns) /\ DOMAIN ns = 1..Len(ns) /\ Len(fs) \in Nat
  BY SequenceElements DEF Sound
<1>2. \A k \in DOMAIN ns : ns[k] \in NativeOver(h)
  BY SequenceElements DEF Sound
<1>3. \A k \in DOMAIN ns : ns[k].base \in Nat \ {0}
  BY <1>2 DEF NativeOver
<1>4. QED  BY <1>1, <1>2, <1>3 DEF Sound, BasesNested

LEMMA EnteringNative ==
  ASSUME NEW h, NEW fs, NEW ns, NEW t, Sound(h, fs, ns, t),
         NEW n \in NativeOver(h), n.base = Len(fs),
         \A k \in DOMAIN ns : ns[k].base < n.base
  PROVE  Sound(h, fs, Append(ns, n), t)
<1> DEFINE ms == Append(ns, n)
<1>1. Len(ns) \in Nat /\ DOMAIN ns = 1..Len(ns) /\ Len(fs) \in Nat
  BY SequenceElements DEF Sound
<1>2. /\ ms \in Seq(NativeOver(h)) /\ Len(ms) = Len(ns) + 1
      /\ \A k \in 1..Len(ns) : ms[k] = ns[k]
      /\ ms[Len(ns) + 1] = n
  BY AppendProperties DEF Sound
<1>3. DOMAIN ms = 1..(Len(ns) + 1)
  BY <1>2, SequenceElements
<1>4. BasesNested(fs, ms)
  BY <1>1, <1>2, <1>3 DEF Sound, BasesNested
<1>5. QED  BY <1>2, <1>4 DEF Sound

LEMMA LeavingNative ==
  ASSUME NEW h, NEW fs, NEW ns, NEW t, Sound(h, fs, ns, t), ns # <<>>
  PROVE  /\ Sound(h, fs, SubSeq(ns, 1, Len(ns) - 1), t)
         /\ \A k \in DOMAIN SubSeq(ns, 1, Len(ns) - 1) :
              SubSeq(ns, 1, Len(ns) - 1)[k].base < ns[Len(ns)].base
<1> DEFINE rest == SubSeq(ns, 1, Len(ns) - 1)
<1>1. Len(ns) \in Nat \ {0} /\ DOMAIN ns = 1..Len(ns)
      /\ \A k \in 1..Len(ns) : ns[k] \in NativeOver(h)
  BY SequenceElements DEF Sound
<1>2. /\ rest \in Seq(NativeOver(h)) /\ Len(rest) = Len(ns) - 1
      /\ \A k \in 1..(Len(ns) - 1) : rest[k] = ns[k]
  BY <1>1, SubSeqProperties
<1>3. DOMAIN rest = 1..(Len(ns) - 1)
  BY <1>2, SequenceElements
<1>4. BasesNested(fs, rest) /\ \A k \in DOMAIN rest : rest[k].base < ns[Len(ns)].base
  BY <1>1, <1>2, <1>3 DEF Sound, BasesNested
<1>5. QED  BY <1>2, <1>4 DEF Sound

LEMMA Protecting ==
  ASSUME NEW h, NEW fs, NEW ns, NEW t, Sound(h, fs, ns, t), ns # <<>>,
         NEW n \in NativeOver(h), n.base = ns[Len(ns)].base
  PROVE  Sound(h, fs, [ns EXCEPT ![Len(ns)] = n], t)
<1> DEFINE ms == [ns EXCEPT ![Len(ns)] = n]
<1>1. Len(ns) \in 1..Len(ns) /\ DOMAIN ns = 1..Len(ns)
  BY LastNative
<1>2. /\ ms \in Seq(NativeOver(h)) /\ Len(ms) = Len(ns)
      /\ \A k \in 1..Len(ns) : ms[k] = IF k = Len(ns) THEN n ELSE ns[k]
  BY <1>1, ExceptSeq DEF Sound
<1>3. DOMAIN ms = DOMAIN ns
  BY <1>1, <1>2, SequenceElements
<1>4. \A k \in DOMAIN ms : ms[k].base = ns[k].base
  BY <1>1, <1>2, <1>3
<1>5. BasesNested(fs, ms)
  BY <1>3, <1>4 DEF Sound, BasesNested
<1>6. QED  BY <1>2, <1>5 DEF Sound
-----------------------------------------------------------------------------
(* What the running frame reads.                                           *)
LEMMA HoldsPointers ==
  ASSUME MemoryInv, NEW c \in Cells, heap[c].kind # "closure"
  PROVE  heap[c].holds \subseteq Pointers(heap) /\ Held(c) \in Values(heap)
<1>1. heap[c].holds \subseteq Holdable(heap, heap[c].kind)
  BY DEF MemoryInv, Sound, SoundHeap
<1>2. heap[c].holds \subseteq Pointers(heap)
  BY <1>1 DEF Holdable
<1>3. QED  BY <1>2 DEF Held, Values

LEMMA HoldsPointersOf ==
  ASSUME MemoryInv, NEW r \in Pointers(heap), r.tag # "closure"
  PROVE  /\ r.at \in Cells /\ heap[r.at].kind = r.tag
         /\ heap[r.at].holds \subseteq Pointers(heap)
         /\ Held(r.at) \in Values(heap)
         /\ Holdable(heap, heap[r.at].kind) = Pointers(heap)
<1>1. r.at \in Cells /\ heap[r.at].kind = r.tag /\ r.tag \in ValueKind
  BY DEF Pointers, Pointer
<1>2. Holdable(heap, heap[r.at].kind) = Pointers(heap)
  BY <1>1 DEF Holdable, ValueKind
<1>3. QED  BY <1>1, <1>2, HoldsPointers

LEMMA Reading ==
  ASSUME MemoryInv, frames # <<>>
  PROVE  /\ Top \in FrameOver(heap)
         /\ \A i \in Registers : Read(i) \in Values(heap)
<1>1. Top \in FrameOver(heap)
  BY SequenceElements DEF MemoryInv, Sound, Top
<1>2. ASSUME NEW i \in Registers
      PROVE  Read(i) \in Values(heap)
  <2>1. CASE Top.registerCells[i] = Null
    BY <1>1, <2>1 DEF Read, FrameOver
  <2>2. CASE Top.registerCells[i] # Null
    <3>1. Top.registerCells[i] \in Boxes(heap)
      BY <1>1, <2>2 DEF FrameOver
    <3>2. Top.registerCells[i].at \in Cells /\ heap[Top.registerCells[i].at].kind = "cell"
      BY <3>1 DEF Boxes, Box
    <3>3. QED  BY <2>2, <3>2, HoldsPointers DEF Read
  <2>3. QED  BY <2>1, <2>2
<1>3. QED  BY <1>1, <1>2

LEMMA NewFrameIs ==
  ASSUME NEW h, NEW arguments \in [Registers -> Values(h)], NEW captures \in SUBSET Boxes(h),
         NEW override \in Values(h)
  PROVE  /\ NewFrame(arguments, captures, override) \in FrameOver(h)
         /\ \A i \in Registers : NewFrame(arguments, captures, override).registerCells[i] = Null
BY DEF NewFrame, FrameOver

LEMMA CalledFrameIs ==
  ASSUME MemoryInv, NEW v \in Values(heap), Callable(v),
         NEW arguments \in [Registers -> Values(heap)]
  PROVE  /\ CalledFrame(v, arguments) \in FrameOver(heap)
         /\ \A i \in Registers : CalledFrame(v, arguments).registerCells[i] = Null
<1> DEFINE registers == IF Callee(v).receiver = Null THEN arguments
                        ELSE [arguments EXCEPT ![FirstRegister] = Callee(v).receiver]
<1>1. Callee(v).receiver \in Values(heap) /\ Callee(v).captures \in SUBSET Boxes(heap)
  <2>1. CASE v = Null
    <3>1. Callee(v) = [receiver |-> Null, captures |-> {}]
      BY <2>1 DEF Callee, IsA
    <3>2. QED  BY <3>1 DEF Values
  <2>2. CASE IsA(v, "closure")
    <3>1. v \in Pointers(heap) /\ v # Null /\ v.tag = "closure"
      BY <2>2 DEF IsA, Values
    <3>2. v.at \in Cells /\ heap[v.at].kind = "closure"
      BY <3>1 DEF Pointers, Pointer
    <3>3. heap[v.at].holds \subseteq Boxes(heap)
      BY <3>2 DEF MemoryInv, Sound, SoundHeap, Holdable
    <3>4. Callee(v) = [receiver |-> Null, captures |-> heap[v.at].holds]
      BY <2>2, <3>1 DEF Callee, IsA
    <3>5. QED  BY <3>3, <3>4 DEF Values
  <2>3. CASE IsA(v, "bound")
    <3>1. v \in Pointers(heap) /\ v # Null /\ v.tag = "bound"
      BY <2>3 DEF IsA, Values
    <3>2. Held(v.at) \in Values(heap)
      BY <3>1, HoldsPointersOf
    <3>3. Callee(v) = [receiver |-> Held(v.at), captures |-> {}]
      BY <3>1 DEF Callee, IsA
    <3>4. QED  BY <3>2, <3>3
  <2>4. QED  BY <2>1, <2>2, <2>3 DEF Callable
<1>2. FirstRegister \in Registers /\ Null \in Values(heap)
  BY VmAssumption DEF Values
<1>3. registers \in [Registers -> Values(heap)]
  BY <1>1, <1>2
<1>4. CalledFrame(v, arguments) = NewFrame(registers, Callee(v).captures, Null)
  BY DEF CalledFrame
<1> HIDE DEF registers
<1>5. QED  BY <1>1, <1>2, <1>3, <1>4, NewFrameIs

LEMMA ArgumentsAre ==
  ASSUME MemoryInv, frames # <<>>, NEW p \in Passing
  PROVE  Arguments(p) \in [Registers -> Values(heap)]
<1>1. \A i \in Registers : p[i] \in Registers \cup {Null}
  BY DEF Passing
<1>2. \A i \in Registers : (IF p[i] = Null THEN Null ELSE Read(p[i])) \in Values(heap)
  BY <1>1, Reading DEF Values
<1>3. QED  BY <1>2 DEF Arguments

(* A value that is not Null refers to a cell; a set of values holds good   *)
(* references beside Null.                                                 *)
LEMMA ValueFacts ==
  ASSUME NEW h
  PROVE  /\ \A v \in Values(h) : Some(v) \subseteq Pointers(h)
         /\ \A S : (\A v \in S : v \in Values(h)) => S \ {Null} \subseteq Pointers(h)
         /\ \A v \in Values(h) : \A kind : IsA(v, kind) => v \in Pointers(h) /\ v.tag = kind
         /\ Null \in Values(h)
BY DEF Values, Some, IsA
-----------------------------------------------------------------------------
(* The instructions of the running function.                               *)
LEMMA WhileExecuting ==
  ASSUME MemoryInv, Executing
  PROVE  /\ frames # <<>> /\ thrown = Null /\ Len(frames) \in 1..Len(frames)
         /\ Sound(heap, frames, natives, Null)
         /\ \A k \in DOMAIN natives : natives[k].base < Len(frames)
<1>1. frames # <<>> /\ thrown = Null /\ Sound(heap, frames, natives, Null)
  BY DEF Executing, MemoryInv
<1>2. Len(frames) \in 1..Len(frames)
  BY <1>1, SequenceElements DEF Sound
<1>3. ASSUME NEW k \in DOMAIN natives
      PROVE  natives[k].base < Len(frames)
  <2>1. natives # <<>>
    BY EmptySeq
  <2>2. natives[Len(natives)].base # Len(frames)
    BY <2>1 DEF Executing, InNative
  <2>3. /\ natives[Len(natives)].base \in 1..Len(frames)
        /\ natives[k].base <= natives[Len(natives)].base
    BY <1>1, <2>1, LastNative
  <2>4. natives[k].base \in Nat
    <3>1. natives[k] \in NativeOver(heap)
      BY <1>1, SequenceElements DEF Sound
    <3>2. QED  BY <3>1 DEF NativeOver
  <2>5. QED  BY <1>2, <2>2, <2>3, <2>4
<1>4. QED  BY <1>1, <1>2, <1>3

LEMMA AssignKeeps ==
  ASSUME frames # <<>>, NEW h, Sound(h, frames, natives, thrown),
         NEW i \in Registers, NEW v \in Values(h), Assign(h, i, v)
  PROVE  MemoryInv'
<1>1. Sound(WriteCell(h, frames[Len(frames)], i, v), Wrote(frames, i, v), natives, thrown)
  BY Writing
<1>2. QED  BY <1>1 DEF Assign, MemoryInv, Top

LEMMA AssignAtSafepointKeeps ==
  ASSUME frames # <<>>, thrown = Null, NEW h, Sound(h, frames, natives, Null),
         NEW i \in Registers, NEW v \in Values(h), AssignAtSafepoint(h, i, v)
  PROVE  MemoryInv'
<1>1. Sound(WriteCell(h, frames[Len(frames)], i, v), Wrote(frames, i, v), natives, Null)
  BY Writing
<1>2. Sound(heap', Wrote(frames, i, v), natives, Null)
  BY <1>1, AtSafepoint DEF AssignAtSafepoint, Top
<1>3. QED  BY <1>2 DEF AssignAtSafepoint, MemoryInv

LEMMA LoadConstantKeeps ==
  ASSUME MemoryInv, NEW d \in Registers, LoadConstant(d)
  PROVE  MemoryInv'
BY WhileExecuting, ValueFacts, AssignKeeps DEF LoadConstant

LEMMA MoveKeeps ==
  ASSUME MemoryInv, NEW d \in Registers, NEW i \in Registers, Move(d, i)
  PROVE  MemoryInv'
BY WhileExecuting, Reading, AssignKeeps DEF Move

LEMMA CapturesAre ==
  ASSUME MemoryInv, frames # <<>>, NEW box \in Top.captures
  PROVE  /\ box \in Boxes(heap) /\ box.at \in Cells
         /\ Held(box.at) \in Values(heap)
         /\ Holdable(heap, heap[box.at].kind) = Pointers(heap)
<1>1. box \in Boxes(heap)
  BY Reading DEF FrameOver
<1>2. box.at \in Cells /\ heap[box.at].kind = "cell"
  BY <1>1 DEF Boxes, Box
<1>3. QED  BY <1>1, <1>2, HoldsPointers DEF Holdable

LEMMA LoadCaptureKeeps ==
  ASSUME MemoryInv, NEW d \in Registers, NEW box \in Box, LoadCapture(d, box)
  PROVE  MemoryInv'
BY WhileExecuting, CapturesAre, AssignKeeps DEF LoadCapture

LEMMA StoreCaptureKeeps ==
  ASSUME MemoryInv, NEW d \in Registers, NEW i \in Registers, NEW box \in Box,
         StoreCapture(d, i, box)
  PROVE  MemoryInv'
<1> DEFINE v == Read(i)
           h == [heap EXCEPT ![box.at].holds = Some(v)]
<1>1. Executing /\ box \in Top.captures /\ Assign(h, d, v)
  BY DEF StoreCapture
<1>2. frames # <<>> /\ thrown = Null /\ Sound(heap, frames, natives, thrown)
  BY <1>1, WhileExecuting
<1>3. v \in Values(heap)
  BY <1>2, Reading
<1>4. box.at \in Cells /\ Some(v) \in SUBSET Holdable(heap, heap[box.at].kind)
  BY <1>1, <1>2, <1>3, CapturesAre, ValueFacts
<1>5. Sound(h, frames, natives, thrown) /\ SameKinds(heap, h)
  BY <1>2, <1>4, Storing
<1>6. v \in Values(h)
  BY <1>3, <1>5, GoodStaysGood
<1>7. QED  BY <1>1, <1>2, <1>5, <1>6, AssignKeeps

LEMMA MakeObjectKeeps ==
  ASSUME MemoryInv, NEW d \in Registers, NEW new \in FreeCells,
         NEW operands \in SUBSET Registers, MakeObject(d, new, operands)
  PROVE  MemoryInv'
<1> DEFINE refs == {Read(i) : i \in operands} \ {Null}
           h == Put(heap, new, "object", refs)
<1>1. Executing /\ AssignAtSafepoint(h, d, Ref("object", new))
  BY DEF MakeObject
<1>2. frames # <<>> /\ thrown = Null /\ Sound(heap, frames, natives, Null)
  BY <1>1, WhileExecuting
<1>3. refs \in SUBSET Holdable(heap, "object")
  <2>1. \A r \in refs : r \in Values(heap) /\ r # Null
    BY <1>2, Reading
  <2>2. QED  BY <2>1 DEF Values, Holdable
<1>4. new \in Cells /\ heap[new].kind = "free" /\ "object" \in ValueKind \cup {"cell"}
  BY DEF FreeCells, ValueKind
<1> HIDE DEF refs
<1>5. Sound(h, frames, natives, Null) /\ Ref("object", new) \in Pointers(h)
  BY <1>2, <1>3, <1>4, Allocating
<1>6. Ref("object", new) \in Values(h)
  BY <1>5 DEF Values
<1>7. QED  BY <1>1, <1>2, <1>5, <1>6, AssignAtSafepointKeeps

LEMMA LoadSlotKeeps ==
  ASSUME MemoryInv, NEW d \in Registers, NEW i \in Registers, LoadSlot(d, i)
  PROVE  MemoryInv'
<1>1. frames # <<>> /\ Sound(heap, frames, natives, thrown)
  BY WhileExecuting DEF LoadSlot
<1>2. Read(i) \in Values(heap)
  BY <1>1, Reading
<1>3. Read(i) \in Pointers(heap) /\ Read(i).tag # "closure"
  <2>1. IsA(Read(i), "object") \/ IsA(Read(i), "error")
    BY DEF LoadSlot
  <2>2. QED  BY <1>2, <2>1 DEF Values, IsA
<1>4. PICK v \in heap[Read(i).at].holds \cup {Null} : Assign(heap, d, v)
  BY DEF LoadSlot
<1>5. v \in Values(heap)
  BY <1>3, <1>4, HoldsPointersOf DEF Values
<1>6. QED  BY <1>1, <1>4, <1>5, AssignKeeps

LEMMA BindMethodKeeps ==
  ASSUME MemoryInv, NEW d \in Registers, NEW i \in Registers, NEW new \in FreeCells,
         BindMethod(d, i, new)
  PROVE  MemoryInv'
<1> DEFINE h == Put(heap, new, "bound", {Read(i)})
<1>1. Executing /\ IsA(Read(i), "object") /\ Assign(h, d, Ref("bound", new))
  BY DEF BindMethod
<1>2. frames # <<>> /\ Sound(heap, frames, natives, thrown)
  BY <1>1, WhileExecuting
<1>3. Read(i) \in Pointers(heap)
  BY <1>1, <1>2, Reading DEF Values, IsA
<1>4. new \in Cells /\ heap[new].kind = "free" /\ "bound" \in ValueKind \cup {"cell"}
      /\ {Read(i)} \in SUBSET Holdable(heap, "bound")
  BY <1>3 DEF FreeCells, ValueKind, Holdable
<1>5. Sound(h, frames, natives, thrown) /\ Ref("bound", new) \in Pointers(h)
  BY <1>2, <1>4, Allocating
<1>6. QED  BY <1>1, <1>2, <1>5, AssignKeeps DEF Values

LEMMA StoreSlotKeeps ==
  ASSUME MemoryInv, NEW d \in Registers, NEW i \in Registers, NEW j \in Registers,
         StoreSlot(d, i, j)
  PROVE  MemoryInv'
<1>1. Executing /\ IsA(Read(i), "object")
  BY DEF StoreSlot
<1>2. frames # <<>> /\ Sound(heap, frames, natives, thrown)
  BY <1>1, WhileExecuting
<1>3. Read(i) \in Pointers(heap) /\ Read(i).tag # "closure" /\ Read(j) \in Values(heap)
  BY <1>1, <1>2, Reading DEF Values, IsA
<1>4. /\ Read(i).at \in Cells
      /\ heap[Read(i).at].holds \subseteq Pointers(heap)
      /\ Holdable(heap, heap[Read(i).at].kind) = Pointers(heap)
  BY <1>3, HoldsPointersOf
<1>5. PICK old \in heap[Read(i).at].holds \cup {Null} :
        Assign([heap EXCEPT ![Read(i).at].holds =
                  (heap[Read(i).at].holds \ {old}) \cup Some(Read(j))], d, Read(j))
  BY DEF StoreSlot
<1> DEFINE refs == (heap[Read(i).at].holds \ {old}) \cup Some(Read(j))
           h == [heap EXCEPT ![Read(i).at].holds = refs]
<1>6. refs \in SUBSET Holdable(heap, heap[Read(i).at].kind)
  BY <1>3, <1>4, ValueFacts
<1> HIDE DEF refs
<1>7. Sound(h, frames, natives, thrown) /\ SameKinds(heap, h)
  BY <1>2, <1>4, <1>6, Storing
<1>8. Read(j) \in Values(h)
  BY <1>3, <1>7, GoodStaysGood
<1>9. Assign(h, d, Read(j))
  BY <1>5 DEF refs
<1>10. QED  BY <1>2, <1>7, <1>8, <1>9, AssignKeeps

(* MakeClosure: the registers in unboxed get fresh boxes ...               *)
Boxed(h, f, unboxed, fresh) ==
  [c \in Cells |->
     IF \E i \in unboxed : fresh[i] = c
     THEN [kind |-> "cell",
           holds |-> Some(f.registers[CHOOSE i \in unboxed : fresh[i] = c])]
     ELSE h[c]]

LEMMA Boxing ==
  ASSUME NEW h, NEW fs, NEW ns, NEW t, Sound(h, fs, ns, t), NEW f \in FrameOver(h),
         NEW unboxed \in SUBSET Registers, NEW free \in SUBSET {c \in Cells : h[c].kind = "free"},
         NEW fresh \in [unboxed -> free]
  PROVE  /\ Sound(Boxed(h, f, unboxed, fresh), fs, ns, t)
         /\ SameKinds(h, Boxed(h, f, unboxed, fresh))
         /\ \A i \in unboxed : Ref("cell", fresh[i]) \in Boxes(Boxed(h, f, unboxed, fresh))
<1> DEFINE g == Boxed(h, f, unboxed, fresh)
           owner(c) == CHOOSE i \in unboxed : fresh[i] = c
           used(c) == \E i \in unboxed : fresh[i] = c
<1>1. /\ \A c \in Cells : used(c) =>
           owner(c) \in unboxed /\ fresh[owner(c)] = c /\ h[c].kind = "free"
      /\ \A i \in unboxed : fresh[i] \in Cells /\ used(fresh[i])
  OBVIOUS
<1>2. \A c \in Cells :
        g[c] = IF used(c) THEN [kind |-> "cell", holds |-> Some(f.registers[owner(c)])]
                          ELSE h[c]
  BY DEF Boxed
<1>3. \A i \in Registers : Some(f.registers[i]) \subseteq Pointers(h)
  BY ValueFacts DEF FrameOver
<1> HIDE DEF owner, used
<1>4. SameKinds(h, g)
  BY <1>1, <1>2 DEF SameKinds
<1>5. \A c \in Cells : g[c] \in [kind : ValueKind \cup {"cell", "free"}, holds : SUBSET Reference]
  <2>1. Pointers(h) \subseteq Reference
    BY DEF Pointers, Reference
  <2>2. \A c \in Cells : h[c] \in [kind : ValueKind \cup {"cell", "free"}, holds : SUBSET Reference]
    BY DEF Sound, SoundHeap
  <2>3. \A c \in Cells : used(c) => Some(f.registers[owner(c)]) \in SUBSET Reference
    BY <1>1, <1>3, <2>1
  <2>4. ASSUME NEW c \in Cells
        PROVE  g[c] \in [kind : ValueKind \cup {"cell", "free"}, holds : SUBSET Reference]
    <3>1. CASE used(c)
      <4>1. g[c] = [kind |-> "cell", holds |-> Some(f.registers[owner(c)])]
        BY <1>2, <3>1
      <4>2. QED  BY <2>3, <3>1, <4>1
    <3>2. CASE ~used(c)
      BY <1>2, <2>2, <3>2
    <3>3. QED  BY <3>1, <3>2
  <2>5. QED  BY <2>4
<1>6. \A c \in Cells : g[c].holds \subseteq Holdable(g, g[c].kind)
  <2>1. \A kind : Holdable(h, kind) \subseteq Holdable(g, kind)
    BY <1>4, GoodStaysGood
  <2>2. \A c \in Cells : h[c].holds \subseteq Holdable(h, h[c].kind)
    BY DEF Sound, SoundHeap
  <2>3. Pointers(h) \subseteq Holdable(h, "cell")
    BY DEF Holdable
  <2>4. \A c \in Cells : used(c) => Some(f.registers[owner(c)]) \subseteq Holdable(g, "cell")
    BY <1>1, <1>3, <2>1, <2>3
  <2>5. ASSUME NEW c \in Cells
        PROVE  g[c].holds \subseteq Holdable(g, g[c].kind)
    <3>1. CASE used(c)
      <4>1. g[c].kind = "cell" /\ g[c].holds = Some(f.registers[owner(c)])
        <5>1. g[c] = [kind |-> "cell", holds |-> Some(f.registers[owner(c)])]
          BY <1>2, <3>1
        <5>2. QED  BY <5>1
      <4>2. QED  BY <2>4, <3>1, <4>1
    <3>2. CASE ~used(c)
      <4>1. g[c] = h[c]
        BY <1>2, <3>2
      <4>2. QED  BY <2>1, <2>2, <4>1
    <3>3. QED  BY <3>1, <3>2
  <2>6. QED  BY <2>5
<1>7. SoundHeap(g)
  <2>1. g \in [Cells -> [kind : ValueKind \cup {"cell", "free"}, holds : SUBSET Reference]]
    BY <1>5 DEF Boxed
  <2>2. QED  BY <1>6, <2>1 DEF SoundHeap
<1>8. \A i \in unboxed : Ref("cell", fresh[i]) \in Boxes(g)
  <2>1. \A i \in unboxed : fresh[i] \in Cells /\ g[fresh[i]].kind = "cell"
    <3> TAKE i \in unboxed
    <3>1. fresh[i] \in Cells /\ used(fresh[i])
      BY <1>1
    <3>2. g[fresh[i]] = [kind |-> "cell", holds |-> Some(f.registers[owner(fresh[i])])]
      BY <1>2, <3>1
    <3>3. QED  BY <3>1, <3>2
  <2>2. QED  BY <2>1 DEF Ref, Boxes, Box
<1>9. QED  BY <1>4, <1>7, <1>8, HeapStaysUsed

(* ... which no other register has.                                        *)
LEMMA FreshBoxesAreDistinct ==
  ASSUME NEW h, NEW fs, NEW ns, NEW t, Sound(h, fs, ns, t), fs # <<>>,
         NEW unboxed, unboxed \subseteq {i \in Registers : fs[Len(fs)].registerCells[i] = Null},
         NEW fresh, \A i \in unboxed : fresh[i] \in Cells /\ h[fresh[i]].kind = "free",
         \A i, j \in unboxed : fresh[i] = fresh[j] => i = j,
         NEW g, SoundHeap(g), SameKinds(h, g), NEW f \in FrameOver(g),
         \A i \in Registers :
           f.registerCells[i] = IF i \in unboxed THEN Ref("cell", fresh[i])
                                ELSE fs[Len(fs)].registerCells[i]
  PROVE  Sound(g, [fs EXCEPT ![Len(fs)] = f], ns, t)
<1> DEFINE gs == [fs EXCEPT ![Len(fs)] = f]
<1>1. Sound(g, fs, ns, t)
  BY HeapStaysUsed
<1>2. Len(fs) \in 1..Len(fs) /\ DOMAIN fs = 1..Len(fs)
  BY SequenceElements DEF Sound
<1>3. /\ gs \in Seq(FrameOver(g)) /\ Len(gs) = Len(fs)
      /\ \A j \in 1..Len(fs) : gs[j] = IF j = Len(fs) THEN f ELSE fs[j]
  BY <1>1, <1>2, ExceptSeq DEF Sound
<1>4. DOMAIN gs = DOMAIN fs
  BY <1>2, <1>3, SequenceElements
<1>5. BasesNested(gs, ns)
  BY <1>3 DEF Sound, BasesNested
<1> DEFINE new(k, i) == k = Len(fs) /\ i \in unboxed
<1>6. \A k \in DOMAIN gs, i \in Registers :
        gs[k].registerCells[i] = IF new(k, i) THEN Ref("cell", fresh[i])
                                 ELSE fs[k].registerCells[i]
  BY <1>2, <1>3, <1>4
<1>7. \A k \in DOMAIN fs, i \in Registers, j \in unboxed :
        fs[k].registerCells[i] # Ref("cell", fresh[j])
  <2>1. \A k \in DOMAIN fs : fs[k] \in FrameOver(h)
    BY SequenceElements DEF Sound
  <2>2. \A k \in DOMAIN fs, i \in Registers :
          fs[k].registerCells[i] = Null \/ h[fs[k].registerCells[i].at].kind = "cell"
    BY <2>1 DEF FrameOver, Boxes
  <2>3. \A j \in unboxed : Ref("cell", fresh[j]).at = fresh[j] /\ Ref("cell", fresh[j]) # Null
    <3>1. \A j \in unboxed : Ref("cell", fresh[j]) \in Reference
      BY DEF Ref, Reference, Box
    <3>2. QED  BY <3>1, NullIsNoReference DEF Ref
  <2>4. QED  BY <2>2, <2>3
<1>8. \A i, j \in unboxed : Ref("cell", fresh[i]) = Ref("cell", fresh[j]) => i = j
  BY DEF Ref
<1>9. DistinctBoxes(gs)
  <2> SUFFICES ASSUME NEW k \in DOMAIN gs, NEW l \in DOMAIN gs,
                      NEW i \in Registers, NEW j \in Registers,
                      gs[k].registerCells[i] # Null,
                      gs[k].registerCells[i] = gs[l].registerCells[j]
               PROVE  k = l /\ i = j
    BY DEF DistinctBoxes
  <2>1. CASE new(k, i) /\ new(l, j)
    BY <1>6, <1>8, <2>1
  <2>2. CASE new(k, i) /\ ~new(l, j)
    BY <1>4, <1>6, <1>7, <2>2
  <2>3. CASE ~new(k, i) /\ new(l, j)
    BY <1>4, <1>6, <1>7, <2>3
  <2>4. CASE ~new(k, i) /\ ~new(l, j)
    <3>1. fs[k].registerCells[i] # Null /\ fs[k].registerCells[i] = fs[l].registerCells[j]
      BY <1>6, <2>4
    <3>2. QED  BY <1>4, <3>1 DEF Sound, DistinctBoxes
  <2>5. QED  BY <2>1, <2>2, <2>3, <2>4
<1>10. QED  BY <1>1, <1>3, <1>5, <1>9 DEF Sound

LEMMA MakeClosureKeeps ==
  ASSUME MemoryInv, NEW d \in Registers, NEW closure \in FreeCells,
         NEW captured \in SUBSET Registers, NEW inherited \in SUBSET Box,
         MakeClosure(d, closure, captured, inherited)
  PROVE  MemoryInv'
<1> DEFINE unboxed == Unboxed(captured)
<1>1. Executing /\ inherited \subseteq Top.captures
  BY DEF MakeClosure
<1>2. /\ frames # <<>> /\ thrown = Null /\ Len(frames) \in 1..Len(frames)
      /\ Sound(heap, frames, natives, Null)
      /\ Top \in FrameOver(heap)
  BY <1>1, WhileExecuting, Reading
<1> DEFINE boxes(fresh) == [i \in Registers |-> IF i \in unboxed THEN Ref("cell", fresh[i])
                                                ELSE Top.registerCells[i]]
           boxed(fresh) == [Top EXCEPT !.registerCells = boxes(fresh)]
           filled(fresh) == Boxed(heap, Top, unboxed, fresh)
           refs(fresh) == {boxes(fresh)[i] : i \in captured} \cup inherited
           made(fresh) == Put(filled(fresh), closure, "closure", refs(fresh))
           v == Ref("closure", closure)
<1>3. PICK fresh \in [unboxed -> FreeCells \ {closure}] :
        /\ \A i, j \in unboxed : fresh[i] = fresh[j] => i = j
        /\ frames' = [frames EXCEPT ![Len(frames)] = WriteFrame(boxed(fresh), d, v)]
        /\ heap' \in Safepoint(WriteCell(made(fresh), boxed(fresh), d, v), frames', natives)
        /\ UNCHANGED <<natives, thrown>>
  BY DEF MakeClosure, Boxed
<1> DEFINE free == FreeCells \ {closure}
           g == filled(fresh)
           all == refs(fresh)
           h == Put(g, closure, "closure", all)
           f == boxed(fresh)
<1>4. free \in SUBSET {c \in Cells : heap[c].kind = "free"} /\ unboxed \in SUBSET Registers
  BY DEF FreeCells, Unboxed
<1>5. /\ Sound(g, frames, natives, Null) /\ SameKinds(heap, g)
      /\ \A i \in unboxed : Ref("cell", fresh[i]) \in Boxes(g)
  BY <1>2, <1>3, <1>4, Boxing
<1>6. closure \in Cells /\ g[closure].kind = "free" /\ "closure" \in ValueKind \cup {"cell"}
  BY <1>3 DEF FreeCells, Boxed, ValueKind
<1>7. \A i \in Registers : Top.registerCells[i] \in Boxes(g) \cup {Null}
  BY <1>2, <1>5, GoodStaysGood DEF FrameOver
<1>8. all \in SUBSET Holdable(g, "closure")
  <2>1. \A i \in captured : boxes(fresh)[i] \in Boxes(g)
    BY <1>5, <1>7 DEF Unboxed
  <2>2. inherited \subseteq Boxes(g)
    <3>1. Boxes(heap) \subseteq Boxes(g)
      BY <1>5, GoodStaysGood
    <3>2. Top.captures \subseteq Boxes(heap)
      BY <1>2 DEF FrameOver
    <3>3. QED  BY <1>1, <3>1, <3>2
  <2>3. QED  BY <2>1, <2>2 DEF Holdable
<1>9. Sound(h, frames, natives, Null) /\ SameKinds(g, h) /\ v \in Pointers(h)
  <2> HIDE DEF g, all
  <2>1. QED  BY <1>5, <1>6, <1>8, Allocating
<1>10. SameKinds(heap, h)
  <2>1. \A c \in Cells : heap[c].kind # "free" => g[c].kind # "free"
    BY <1>2, <1>5 DEF SameKinds, Sound, SoundHeap
  <2>2. QED  BY <1>5, <1>9, <2>1 DEF SameKinds
<1>11. f \in FrameOver(h)
  <2>1. Top \in FrameOver(h)
    BY <1>2, <1>10, GoodStaysGood
  <2>2. boxes(fresh) \in [Registers -> Boxes(h) \cup {Null}]
    <3>1. Boxes(g) \subseteq Boxes(h)
      <4> HIDE DEF g, h
      <4>1. QED  BY <1>9, GoodStaysGood
    <3>2. \A i \in Registers : boxes(fresh)[i] \in Boxes(h) \cup {Null}
      BY <1>5, <1>7, <3>1
    <3>3. QED  BY <3>2
  <2>3. QED  BY <2>1, <2>2 DEF FrameOver
<1>12. \A i \in Registers :
         f.registerCells[i] = IF i \in unboxed THEN Ref("cell", fresh[i])
                              ELSE frames[Len(frames)].registerCells[i]
  BY <1>2 DEF FrameOver, Top
<1> DEFINE gs == [frames EXCEPT ![Len(frames)] = f]
<1>13. Sound(h, gs, natives, Null)
  <2>1. \A i \in unboxed : fresh[i] \in Cells /\ heap[fresh[i]].kind = "free"
    BY <1>3, <1>4
  <2>2. unboxed \subseteq {i \in Registers : frames[Len(frames)].registerCells[i] = Null}
    BY DEF Top, Unboxed
  <2>3. SoundHeap(h)
    BY <1>9 DEF Sound
  <2>4. \A i, j \in unboxed : fresh[i] = fresh[j] => i = j
    BY <1>3
  <2>5. Sound(heap, frames, natives, Null) /\ frames # <<>>
    BY <1>2
  <2> HIDE DEF h, f, unboxed
  <2>6. QED  BY <1>10, <1>11, <1>12, <2>1, <2>2, <2>3, <2>4, <2>5, FreshBoxesAreDistinct, ZenonT(60)
<1> HIDE DEF h, f
<1>14. gs # <<>> /\ Len(gs) = Len(frames) /\ gs[Len(gs)] = f
       /\ Wrote(gs, d, v) = [frames EXCEPT ![Len(frames)] = WriteFrame(f, d, v)]
  <2>1. frames \in Seq(FrameOver(h))
    BY <1>9 DEF Sound
  <2>2. Len(gs) = Len(frames) /\ gs[Len(frames)] = f
    BY <1>2, <1>11, <2>1, ExceptSeq
  <2>3. DOMAIN frames = 1..Len(frames)
    BY <2>1, SequenceElements
  <2>4. gs # <<>>
    BY <1>2, <2>2
  <2>5. QED  BY <1>2, <2>2, <2>3, <2>4 DEF Wrote
<1>15. v \in Values(h)
  BY <1>9 DEF Values
<1>16. Sound(WriteCell(h, f, d, v), Wrote(gs, d, v), natives, Null)
  BY <1>13, <1>14, <1>15, Writing
<1>17. frames' = Wrote(gs, d, v) /\ natives' = natives /\ thrown' = Null
  BY <1>2, <1>3, <1>14 DEF f
<1>18. heap' \in Safepoint(WriteCell(h, f, d, v), Wrote(gs, d, v), natives)
  BY <1>3, <1>17 DEF h, f
<1>19. Sound(heap', Wrote(gs, d, v), natives, Null)
  BY <1>16, <1>18, AtSafepoint
<1>20. QED  BY <1>17, <1>19 DEF MemoryInv

LEMMA CallKeeps ==
  ASSUME MemoryInv, NEW i \in Registers, NEW p \in Passing, Call(i, p)
  PROVE  MemoryInv'
<1>1. Executing /\ Callable(Read(i)) /\ UNCHANGED <<heap, natives, thrown>>
      /\ frames' = Append(frames, CalledFrame(Read(i), Arguments(p)))
  BY DEF Call
<1>2. frames # <<>> /\ Sound(heap, frames, natives, thrown)
  BY <1>1, WhileExecuting
<1>3. Read(i) \in Values(heap) /\ Arguments(p) \in [Registers -> Values(heap)]
  BY <1>2, Reading, ArgumentsAre
<1>4. /\ CalledFrame(Read(i), Arguments(p)) \in FrameOver(heap)
      /\ \A j \in Registers : CalledFrame(Read(i), Arguments(p)).registerCells[j] = Null
  BY <1>1, <1>3, CalledFrameIs
<1>5. Sound(heap, Append(frames, CalledFrame(Read(i), Arguments(p))), natives, thrown)
  BY <1>2, <1>4, Pushing
<1>6. QED  BY <1>1, <1>5 DEF MemoryInv

LEMMA ConstructKeeps ==
  ASSUME MemoryInv, NEW new \in FreeCells, NEW p \in Passing, Construct(new, p)
  PROVE  MemoryInv'
<1> DEFINE instance == Ref("object", new)
           arguments == [Arguments(p) EXCEPT ![FirstRegister] = instance]
           f == NewFrame(arguments, {}, instance)
           h == Put(heap, new, "object", {})
<1>1. Executing /\ heap' = h /\ frames' = Append(frames, f) /\ UNCHANGED <<natives, thrown>>
  BY DEF Construct
<1>2. frames # <<>> /\ Sound(heap, frames, natives, thrown)
  BY <1>1, WhileExecuting
<1>3. new \in Cells /\ heap[new].kind = "free" /\ "object" \in ValueKind \cup {"cell"}
      /\ {} \in SUBSET Holdable(heap, "object")
  BY DEF FreeCells, ValueKind
<1>4. Sound(h, frames, natives, thrown) /\ SameKinds(heap, h) /\ instance \in Pointers(h)
  BY <1>2, <1>3, Allocating
<1>5. instance \in Values(h) /\ arguments \in [Registers -> Values(h)]
  <2>1. Arguments(p) \in [Registers -> Values(heap)]
    BY <1>2, ArgumentsAre
  <2>2. instance \in Values(h) /\ Values(heap) \subseteq Values(h)
    BY <1>4, GoodStaysGood DEF Values
  <2> HIDE DEF h, instance
  <2>3. QED  BY <2>1, <2>2
<1>6. f \in FrameOver(h) /\ \A i \in Registers : f.registerCells[i] = Null
  <2> HIDE DEF h, instance, arguments
  <2>1. QED  BY <1>5, NewFrameIs
<1>7. Sound(h, Append(frames, f), natives, thrown)
  <2> HIDE DEF h, f
  <2>1. QED  BY <1>4, <1>6, Pushing
<1>8. QED  BY <1>1, <1>7 DEF MemoryInv

LEMMA ResultIs ==
  ASSUME MemoryInv, frames # <<>>, NEW i \in Registers
  PROVE  Result(i) \in Values(heap)
BY Reading DEF Result, FrameOver

LEMMA ReturnKeeps ==
  ASSUME MemoryInv, NEW i \in Registers, NEW d \in Registers, Return(i, d)
  PROVE  MemoryInv'
<1>1. Executing /\ UNCHANGED <<natives, thrown>>
  BY DEF Return
<1>2. /\ frames # <<>> /\ Len(frames) \in 1..Len(frames)
      /\ Sound(heap, frames, natives, thrown)
      /\ \A k \in DOMAIN natives : natives[k].base < Len(frames)
  BY <1>1, WhileExecuting
<1>3. \A k \in DOMAIN natives : natives[k].base \in Nat \ {0}
  <2>1. \A k \in DOMAIN natives : natives[k] \in NativeOver(heap)
    BY <1>2, SequenceElements DEF Sound
  <2>2. QED  BY <2>1 DEF NativeOver
<1>4. CASE Len(frames) = 1
  <2>1. frames' = <<>> /\ heap' = heap
    BY <1>4 DEF Return
  <2>2. Sound(heap, SubSeq(frames, 1, 0), natives, thrown) /\ Len(SubSeq(frames, 1, 0)) = 0
    <3>1. \A k \in DOMAIN natives : natives[k].base <= 0
      BY <1>2, <1>3, <1>4
    <3>2. QED  BY <1>2, <1>4, <3>1, Dropping
  <2>3. SubSeq(frames, 1, 0) = <<>>
    BY <2>2, SequenceElements DEF Sound
  <2>4. QED  BY <1>1, <2>1, <2>2, <2>3 DEF MemoryInv
<1>5. CASE Len(frames) # 1
  <2> DEFINE rest == SubSeq(frames, 1, Len(frames) - 1)
  <2>1. frames' = Wrote(rest, d, Result(i)) /\ heap' = WriteCell(heap, rest[Len(rest)], d, Result(i))
    BY <1>5 DEF Return
  <2>2. Sound(heap, rest, natives, thrown) /\ Len(rest) = Len(frames) - 1
    <3> DEFINE last == Len(frames) - 1
    <3>1. last \in 0..Len(frames)
      BY <1>2
    <3>2. \A k \in DOMAIN natives : natives[k].base <= last
      BY <1>2, <1>3
    <3> HIDE DEF last
    <3>3. Sound(heap, SubSeq(frames, 1, last), natives, thrown) /\ Len(SubSeq(frames, 1, last)) = last
      BY <1>2, <3>1, <3>2, Dropping
    <3>4. QED  BY <3>3 DEF last
  <2>3. rest # <<>>
    BY <1>2, <1>5, <2>2, EmptySeq
  <2>4. Result(i) \in Values(heap)
    BY <1>2, ResultIs
  <2> HIDE DEF rest
  <2>5. Sound(heap', frames', natives, thrown)
    BY <2>1, <2>2, <2>3, <2>4, Writing
  <2>6. QED  BY <1>1, <2>5 DEF MemoryInv
<1>6. QED  BY <1>4, <1>5

LEMMA CallNativeKeeps ==
  ASSUME MemoryInv, NEW operands \in SUBSET Registers, CallNative(operands)
  PROVE  MemoryInv'
<1> DEFINE arguments == {Read(i) : i \in operands} \ {Null}
           n == [base |-> Len(frames), arguments |-> arguments, element |-> {}, output |-> Null]
<1>1. Executing /\ natives' = Append(natives, n) /\ UNCHANGED <<heap, frames, thrown>>
  BY DEF CallNative
<1>2. /\ frames # <<>> /\ Len(frames) \in 1..Len(frames)
      /\ Sound(heap, frames, natives, thrown)
      /\ \A k \in DOMAIN natives : natives[k].base < Len(frames)
  BY <1>1, WhileExecuting
<1>3. arguments \in SUBSET Pointers(heap)
  <2>1. \A r \in arguments : r \in Values(heap) /\ r # Null
    BY <1>2, Reading
  <2>2. QED  BY <2>1 DEF Values
<1> HIDE DEF arguments
<1>4. n \in NativeOver(heap) /\ n.base = Len(frames)
  BY <1>2, <1>3 DEF NativeOver, Values
<1> HIDE DEF n
<1>5. Sound(heap, frames, Append(natives, n), thrown)
  BY <1>2, <1>4, EnteringNative
<1>6. QED  BY <1>1, <1>5 DEF MemoryInv
-----------------------------------------------------------------------------
(* The steps of a native.                                                  *)
LEMMA WhileNativeRuns ==
  ASSUME MemoryInv, InNative
  PROVE  /\ natives # <<>> /\ frames # <<>> /\ Native.base = Len(frames)
         /\ Len(frames) \in 1..Len(frames) /\ Len(natives) \in 1..Len(natives)
         /\ DOMAIN natives = 1..Len(natives)
         /\ Sound(heap, frames, natives, thrown)
         /\ Native \in NativeOver(heap)
         /\ Elements \subseteq Pointers(heap)
         /\ InHand \subseteq Values(heap)
         /\ \A r \in Inputs : r \in Pointers(heap) /\ r.tag = "object"
<1>1. natives # <<>> /\ Native.base = Len(frames) /\ Sound(heap, frames, natives, thrown)
  BY DEF InNative, Native, MemoryInv
<1>2. /\ Len(natives) \in 1..Len(natives) /\ DOMAIN natives = 1..Len(natives)
      /\ Native \in NativeOver(heap)
      /\ Native.base \in 1..Len(frames)
  BY <1>1, LastNative DEF Native
<1>3. frames # <<>>
  BY <1>1, <1>2, EmptySeq
<1>4. \A r \in Inputs : r \in Pointers(heap) /\ r.tag = "object"
  BY <1>2 DEF Inputs, NativeOver
<1>5. Elements \subseteq Pointers(heap)
  <2>1. \A r \in Inputs : heap[r.at].holds \subseteq Pointers(heap)
    BY <1>4, HoldsPointersOf
  <2>2. QED  BY <2>1 DEF Elements
<1>6. InHand \subseteq Values(heap)
  BY <1>2, <1>5 DEF InHand, NativeOver, Values
<1>7. QED  BY <1>1, <1>2, <1>3, <1>4, <1>5, <1>6

LEMMA NativeAllocateKeeps ==
  ASSUME MemoryInv, NEW new \in FreeCells, NEW copy \in BOOLEAN, NativeAllocate(new, copy)
  PROVE  MemoryInv'
<1> DEFINE refs == IF copy THEN Elements ELSE {}
           h == Put(heap, new, "object", refs)
           n == [Native EXCEPT !.output = Ref("object", new)]
<1>1. /\ InNative /\ heap' = h /\ UNCHANGED <<frames, thrown>>
      /\ natives' = [natives EXCEPT ![Len(natives)].output = Ref("object", new)]
  BY DEF NativeAllocate, NativeRuns
<1>2. natives' = [natives EXCEPT ![Len(natives)] = n]
  BY <1>1 DEF Native
<1>3. natives # <<>> /\ Sound(heap, frames, natives, thrown) /\ Native \in NativeOver(heap)
      /\ Elements \subseteq Pointers(heap)
  BY <1>1, WhileNativeRuns
<1>4. new \in Cells /\ heap[new].kind = "free" /\ "object" \in ValueKind \cup {"cell"}
      /\ refs \in SUBSET Holdable(heap, "object")
  BY <1>3 DEF FreeCells, ValueKind, Holdable
<1> HIDE DEF refs
<1>5. Sound(h, frames, natives, thrown) /\ SameKinds(heap, h) /\ Ref("object", new) \in Pointers(h)
  BY <1>3, <1>4, Allocating
<1> HIDE DEF h
<1>6. Native \in NativeOver(h) /\ Ref("object", new) \in Values(h)
  BY <1>3, <1>5, GoodStaysGood DEF Values
<1>7. n \in NativeOver(h) /\ n.base = natives[Len(natives)].base
  BY <1>6 DEF NativeOver, Native
<1> HIDE DEF n
<1>8. Sound(h, frames, [natives EXCEPT ![Len(natives)] = n], thrown)
  BY <1>3, <1>5, <1>7, Protecting
<1>9. QED  BY <1>1, <1>2, <1>8 DEF MemoryInv

LEMMA NativeInvokeKeeps ==
  ASSUME MemoryInv, NEW protect \in BOOLEAN, NativeInvoke(protect)
  PROVE  MemoryInv'
<1>1. InNative /\ UNCHANGED <<heap, thrown>>
  BY DEF NativeInvoke, NativeRuns
<1>2. PICK callee \in Native.arguments \cup {Null}, values \in [Registers -> InHand] :
        /\ Callable(callee)
        /\ frames' = Append(frames, CalledFrame(callee, values))
        /\ natives' = [natives EXCEPT ![Len(natives)].element =
                         IF protect THEN {values[i] : i \in Registers} \ {Null} ELSE {}]
  BY DEF NativeInvoke
<1> DEFINE element == IF protect THEN {values[i] : i \in Registers} \ {Null} ELSE {}
           n == [Native EXCEPT !.element = element]
<1>3. natives' = [natives EXCEPT ![Len(natives)] = n]
  BY <1>2 DEF Native
<1>4. natives # <<>> /\ Sound(heap, frames, natives, thrown) /\ Native \in NativeOver(heap)
      /\ InHand \subseteq Values(heap)
  BY <1>1, WhileNativeRuns
<1>5. values \in [Registers -> Values(heap)] /\ callee \in Values(heap)
  BY <1>2, <1>4 DEF NativeOver, Values
<1>6. /\ CalledFrame(callee, values) \in FrameOver(heap)
      /\ \A i \in Registers : CalledFrame(callee, values).registerCells[i] = Null
  BY <1>2, <1>5, CalledFrameIs
<1>7. element \in SUBSET Pointers(heap)
  <2>1. \A r \in element : r \in Values(heap) /\ r # Null
    BY <1>5
  <2>2. QED  BY <2>1 DEF Values
<1> HIDE DEF element
<1>8. n \in NativeOver(heap) /\ n.base = natives[Len(natives)].base
  BY <1>4, <1>7 DEF NativeOver, Native
<1> HIDE DEF n
<1>9. Sound(heap, frames, [natives EXCEPT ![Len(natives)] = n], thrown)
  BY <1>4, <1>8, Protecting
<1>10. Sound(heap, frames', natives', thrown)
  BY <1>2, <1>3, <1>6, <1>9, Pushing
<1>11. QED  BY <1>1, <1>10 DEF MemoryInv

LEMMA CallbackReturnKeeps ==
  ASSUME MemoryInv, NEW i \in Registers, NEW use \in {"append", "accumulate", "test"},
         CallbackReturn(i, use)
  PROVE  MemoryInv'
<1> DEFINE result == Result(i)
           done == [Native EXCEPT !.element = {}]
           accumulated == [done EXCEPT !.output = result]
           rest == SubSeq(frames, 1, Native.base)
<1>1. Executing /\ EnteredByNative /\ frames' = rest /\ UNCHANGED thrown
  BY DEF CallbackReturn
<1>2. natives # <<>> /\ frames # <<>> /\ Sound(heap, frames, natives, thrown)
  BY <1>1, WhileExecuting DEF EnteredByNative
<1>3. /\ Native \in NativeOver(heap) /\ Native.base \in 1..Len(frames)
      /\ Len(frames) \in Nat
      /\ \A k \in DOMAIN natives : natives[k].base <= Native.base
  BY <1>2, LastNative, SequenceElements DEF Native, Sound
<1>4. result \in Values(heap)
  BY <1>2, ResultIs
<1>5. Sound(heap, rest, natives, thrown)
  BY <1>2, <1>3, Dropping
<1>6. /\ done \in NativeOver(heap) /\ done.base = natives[Len(natives)].base
      /\ accumulated \in NativeOver(heap) /\ accumulated.base = natives[Len(natives)].base
      /\ done.output = Native.output
  BY <1>3, <1>4 DEF NativeOver, Native
<1> HIDE DEF rest, result
<1>7. CASE /\ IsA(Native.output, "object")
           /\ heap' = [heap EXCEPT ![Native.output.at].holds = @ \cup Some(result)]
           /\ natives' = [natives EXCEPT ![Len(natives)] = done]
  <2> DEFINE refs == heap[Native.output.at].holds \cup Some(result)
             h == [heap EXCEPT ![Native.output.at].holds = refs]
  <2>1. Native.output \in Pointers(heap) /\ Native.output.tag # "closure"
    BY <1>3, <1>7 DEF NativeOver, Values, IsA
  <2>2. Native.output.at \in Cells /\ refs \in SUBSET Holdable(heap, heap[Native.output.at].kind)
    BY <1>4, <2>1, HoldsPointersOf, ValueFacts
  <2> HIDE DEF refs
  <2>3. Sound(h, rest, natives, thrown) /\ SameKinds(heap, h)
    BY <1>5, <2>2, Storing
  <2>4. heap' = h
    BY <1>7 DEF refs
  <2> HIDE DEF h, done
  <2>5. done \in NativeOver(h)
    BY <1>6, <2>3, GoodStaysGood
  <2>6. Sound(h, rest, [natives EXCEPT ![Len(natives)] = done], thrown)
    BY <1>2, <1>6, <2>3, <2>5, Protecting
  <2>7. QED  BY <1>1, <1>7, <2>4, <2>6 DEF MemoryInv
<1>8. CASE heap' = heap /\ natives' = [natives EXCEPT ![Len(natives)] = accumulated]
  <2> HIDE DEF accumulated
  <2>1. Sound(heap, rest, [natives EXCEPT ![Len(natives)] = accumulated], thrown)
    BY <1>2, <1>5, <1>6, Protecting
  <2>2. QED  BY <1>1, <1>8, <2>1 DEF MemoryInv
<1>9. CASE heap' = heap /\ natives' = [natives EXCEPT ![Len(natives)] = done]
  <2> HIDE DEF done
  <2>1. Sound(heap, rest, [natives EXCEPT ![Len(natives)] = done], thrown)
    BY <1>2, <1>5, <1>6, Protecting
  <2>2. QED  BY <1>1, <1>9, <2>1 DEF MemoryInv
<1>10. QED  BY <1>7, <1>8, <1>9 DEF CallbackReturn, result

LEMMA NativeCollectKeeps ==
  ASSUME MemoryInv, NativeCollect
  PROVE  MemoryInv'
<1>1. thrown = Null /\ heap' = Collected(heap, frames, natives)
      /\ UNCHANGED <<frames, natives, thrown>>
  BY DEF NativeCollect, NativeRuns
<1>2. Sound(heap, frames, natives, Null)
  BY <1>1 DEF MemoryInv
<1>3. QED  BY <1>1, <1>2, Collecting DEF MemoryInv

LEMMA NativeReturnKeeps ==
  ASSUME MemoryInv, NativeRuns, NEW h, Sound(h, frames, natives, Null), SameKinds(heap, h),
         NEW result \in Values(h), NEW d \in Registers, NativeReturn(h, result, d)
  PROVE  MemoryInv'
<1> DEFINE rest == SubSeq(natives, 1, Len(natives) - 1)
           returned == [Native EXCEPT !.element = {}, !.output = Null]
           g == WriteCell(h, Top, d, result)
           fs == Wrote(frames, d, result)
<1>1. /\ frames' = fs /\ natives' = rest /\ UNCHANGED thrown
      /\ heap' \in Safepoint(g, fs, Append(rest, returned))
  BY DEF NativeReturn
<1>2. /\ natives # <<>> /\ frames # <<>> /\ Native.base = Len(frames) /\ Native \in NativeOver(heap)
      /\ thrown = Null
  BY WhileNativeRuns DEF NativeRuns
<1>3. Sound(g, fs, natives, Null) /\ Len(fs) = Len(frames)
  BY <1>2, Writing DEF Top
<1> HIDE DEF g, fs
<1>4. /\ Sound(g, fs, rest, Null)
      /\ \A k \in DOMAIN rest : rest[k].base < Native.base
  BY <1>2, <1>3, LeavingNative DEF Native
<1>5. returned \in NativeOver(g) /\ returned.base = Native.base /\ Len(fs) = Len(frames)
  <2>1. natives[Len(natives)] \in NativeOver(g)
    BY <1>2, <1>3, LastNative
  <2>2. returned \in NativeOver(g) /\ returned.base = Native.base
    BY <2>1 DEF NativeOver, Native, Values
  <2>3. QED  BY <1>3, <2>2
<1> HIDE DEF rest, returned
<1>6. Sound(g, fs, Append(rest, returned), Null)
  BY <1>2, <1>4, <1>5, EnteringNative
<1>7. Sound(heap', fs, Append(rest, returned), Null)
  BY <1>1, <1>6, AtSafepoint
<1>8. Sound(heap', fs, rest, Null)
  <2>1. SoundHeap(heap') /\ fs \in Seq(FrameOver(heap'))
    BY <1>7 DEF Sound
  <2>2. rest \in Seq(NativeOver(heap'))
    <3>1. rest \in Seq(NativeOver(g)) /\ Append(rest, returned) \in Seq(NativeOver(heap'))
      BY <1>4, <1>7 DEF Sound
    <3>2. /\ Len(rest) \in Nat /\ Len(Append(rest, returned)) = Len(rest) + 1
          /\ \A k \in 1..Len(rest) : Append(rest, returned)[k] = rest[k]
      BY <1>5, <3>1, AppendProperties, SequenceElements
    <3>3. \A k \in 1..Len(rest) : rest[k] \in NativeOver(heap')
      BY <3>1, <3>2, SequenceElements
    <3>4. QED  BY <3>1, <3>3, SequenceOver
  <2>3. QED  BY <1>4, <2>1, <2>2 DEF Sound
<1>9. QED  BY <1>1, <1>2, <1>8 DEF MemoryInv

LEMMA NativeResultKeeps ==
  ASSUME MemoryInv, NEW d \in Registers, NativeResult(d)
  PROVE  MemoryInv'
<1>1. NativeRuns /\ InNative /\ thrown = Null
  BY DEF NativeResult, NativeRuns
<1>2. PICK result \in InHand : NativeReturn(heap, result, d)
  BY DEF NativeResult
<1>3. result \in Values(heap) /\ Sound(heap, frames, natives, Null) /\ SameKinds(heap, heap)
  BY <1>1, WhileNativeRuns DEF SameKinds
<1>4. QED  BY <1>1, <1>2, <1>3, NativeReturnKeeps

LEMMA NativeStoreKeeps ==
  ASSUME MemoryInv, NEW d \in Registers, NativeStore(d)
  PROVE  MemoryInv'
<1>1. NativeRuns /\ InNative /\ thrown = Null
  BY DEF NativeStore, NativeRuns
<1>0. PICK object \in Inputs, v \in Native.arguments \cup {Null} :
        \E old \in heap[object.at].holds \cup {Null}, result \in InHand :
          NativeReturn([heap EXCEPT ![object.at].holds =
                          (heap[object.at].holds \ {old}) \cup Some(v)], result, d)
  BY DEF NativeStore
<1>2. PICK old \in heap[object.at].holds \cup {Null}, result \in InHand :
        NativeReturn([heap EXCEPT ![object.at].holds =
                        (heap[object.at].holds \ {old}) \cup Some(v)], result, d)
  BY <1>0
<1> DEFINE refs == (heap[object.at].holds \ {old}) \cup Some(v)
           h == [heap EXCEPT ![object.at].holds = refs]
<1>3. /\ Sound(heap, frames, natives, Null) /\ Native \in NativeOver(heap)
      /\ object \in Pointers(heap) /\ object.tag # "closure" /\ result \in Values(heap)
  BY <1>1, WhileNativeRuns
<1>4. object.at \in Cells /\ refs \in SUBSET Holdable(heap, heap[object.at].kind)
  <2>1. v \in Values(heap)
    BY <1>3 DEF NativeOver, Values
  <2>2. QED  BY <1>3, <2>1, HoldsPointersOf, ValueFacts
<1> HIDE DEF refs
<1>5. Sound(h, frames, natives, Null) /\ SameKinds(heap, h)
  BY <1>3, <1>4, Storing
<1>6. NativeReturn(h, result, d)
  BY <1>2 DEF refs
<1> HIDE DEF h
<1>7. result \in Values(h)
  BY <1>3, <1>5, GoodStaysGood
<1>8. QED  BY <1>1, <1>5, <1>6, <1>7, NativeReturnKeeps
-----------------------------------------------------------------------------
(* Errors.                                                                 *)
LEMMA Allocated ==
  ASSUME MemoryInv, NEW new \in FreeCells, NEW refs \in SUBSET Pointers(heap)
  PROVE  /\ Sound(Put(heap, new, "error", refs), frames, natives, Null)
         /\ SameKinds(heap, Put(heap, new, "error", refs))
         /\ Ref("error", new) \in Errors(Put(heap, new, "error", refs))
<1>1. new \in Cells /\ heap[new].kind = "free" /\ "error" \in ValueKind \cup {"cell"}
      /\ refs \in SUBSET Holdable(heap, "error")
  BY DEF FreeCells, ValueKind, Holdable
<1>2. Sound(heap, frames, natives, Null)
  BY DEF MemoryInv, Sound
<1>3. /\ Sound(Put(heap, new, "error", refs), frames, natives, Null)
      /\ SameKinds(heap, Put(heap, new, "error", refs))
      /\ Ref("error", new) \in Pointers(Put(heap, new, "error", refs))
  BY <1>1, <1>2, Allocating
<1>4. QED  BY <1>3 DEF Errors, Ref

LEMMA Throwing ==
  ASSUME NEW h, NEW fs, NEW ns, Sound(h, fs, ns, Null), NEW t \in Errors(h) \cup {Null}
  PROVE  Sound(h, fs, ns, t)
BY DEF Sound

LEMMA RaiseKeeps ==
  ASSUME MemoryInv, NEW new \in FreeCells, Raise(new)
  PROVE  MemoryInv'
<1>1. Executing /\ thrown' = Ref("error", new) /\ UNCHANGED <<frames, natives>>
  BY DEF Raise
<1>2. PICK cause \in {Read(i) : i \in Registers} \cup {Null} :
        heap' = Put(heap, new, "error", Some(cause))
  BY DEF Raise
<1>3. frames # <<>>
  BY <1>1, WhileExecuting
<1>4. Some(cause) \in SUBSET Pointers(heap)
  BY <1>2, <1>3, Reading, ValueFacts
<1>5. Sound(heap', frames, natives, thrown')
  BY <1>1, <1>2, <1>4, Allocated, Throwing
<1>6. QED  BY <1>1, <1>5 DEF MemoryInv

LEMMA RaiseInMakeInstanceKeeps ==
  ASSUME MemoryInv, NEW instance \in FreeCells, NEW new \in FreeCells,
         RaiseInMakeInstance(instance, new)
  PROVE  MemoryInv'
<1> DEFINE object == Ref("object", instance)
           h == Put(heap, instance, "object", {})
           g == Put(h, new, "error", {object})
<1>1. /\ Executing /\ instance # new /\ heap' = g /\ thrown' = Ref("error", new)
      /\ UNCHANGED <<frames, natives>>
  BY DEF RaiseInMakeInstance
<1>2. Sound(heap, frames, natives, Null)
  BY <1>1, WhileExecuting
<1>3. /\ instance \in Cells /\ heap[instance].kind = "free"
      /\ "object" \in ValueKind \cup {"cell"} /\ "error" \in ValueKind \cup {"cell"}
      /\ {} \in SUBSET Holdable(heap, "object")
      /\ new \in Cells /\ heap[new].kind = "free"
  BY DEF FreeCells, ValueKind
<1>4. Sound(h, frames, natives, Null) /\ object \in Pointers(h)
  BY <1>2, <1>3, Allocating
<1>5. h[new].kind = "free"
  BY <1>1, <1>2, <1>3 DEF Put, Sound, SoundHeap
<1>6. {object} \in SUBSET Holdable(h, "error")
  BY <1>4 DEF Holdable
<1> HIDE DEF h, object
<1>7. Sound(g, frames, natives, Null) /\ Ref("error", new) \in Pointers(g)
  BY <1>3, <1>4, <1>5, <1>6, Allocating
<1>8. Ref("error", new) \in Errors(g)
  BY <1>7 DEF Errors, Ref
<1>9. Sound(g, frames, natives, Ref("error", new))
  BY <1>7, <1>8, Throwing
<1>10. QED  BY <1>1, <1>9 DEF MemoryInv

LEMMA RethrowKeeps ==
  ASSUME MemoryInv, NEW i \in Registers, Rethrow(i)
  PROVE  MemoryInv'
<1>1. Executing /\ IsA(Read(i), "error") /\ thrown' = Read(i)
      /\ UNCHANGED <<heap, frames, natives>>
  BY DEF Rethrow
<1>2. frames # <<>> /\ Sound(heap, frames, natives, Null)
  BY <1>1, WhileExecuting
<1>3. Read(i) \in Errors(heap)
  BY <1>1, <1>2, Reading, ValueFacts DEF Errors
<1>4. QED  BY <1>1, <1>2, <1>3, Throwing DEF MemoryInv

LEMMA NativeFailKeeps ==
  ASSUME MemoryInv, NEW new \in FreeCells, NativeFail(new)
  PROVE  MemoryInv'
<1> DEFINE rest == SubSeq(natives, 1, Len(natives) - 1)
<1>1. InNative /\ thrown' = Ref("error", new) /\ natives' = rest /\ UNCHANGED frames
  BY DEF NativeFail, NativeRuns
<1>2. PICK cause \in InHand : heap' = Put(heap, new, "error", Some(cause))
  BY DEF NativeFail
<1>3. natives # <<>> /\ cause \in Values(heap)
  BY <1>1, WhileNativeRuns
<1>4. Some(cause) \in SUBSET Pointers(heap)
  BY <1>3, ValueFacts
<1>5. Sound(heap', frames, natives, Null) /\ thrown' \in Errors(heap')
  BY <1>1, <1>2, <1>4, Allocated
<1>6. Sound(heap', frames, rest, Null)
  BY <1>3, <1>5, LeavingNative
<1>7. Sound(heap', frames, rest, thrown')
  BY <1>5, <1>6, Throwing
<1>8. QED  BY <1>1, <1>7 DEF MemoryInv

LEMMA CatchKeeps ==
  ASSUME MemoryInv, NEW k \in DOMAIN frames, NEW d \in Registers, Catch(k, d)
  PROVE  MemoryInv'
<1> DEFINE rest == SubSeq(frames, 1, k)
           g == WriteCell(heap, rest[k], d, thrown)
           fs == Wrote(rest, d, thrown)
<1>1. /\ thrown # Null /\ k \in (exceptionBoundary + 1)..Len(frames)
      /\ frames' = fs /\ thrown' = Null /\ UNCHANGED natives
      /\ heap' \in Safepoint(g, fs, natives)
  BY DEF Catch
<1>2. Sound(heap, frames, natives, Null) /\ thrown \in Values(heap)
  BY <1>1 DEF MemoryInv, Sound, Errors, Values
<1>3. k \in 0..Len(frames) /\ k \in Nat \ {0} /\ Len(frames) \in Nat
  BY <1>2, SequenceElements DEF Sound
<1>4. \A n \in DOMAIN natives : natives[n].base <= k
  <2>1. CASE natives = <<>>
    BY <2>1
  <2>2. CASE natives # <<>>
    <3>1. /\ Native.base \in 1..Len(frames)
          /\ \A n \in DOMAIN natives : natives[n].base <= Native.base
          /\ \A n \in DOMAIN natives : natives[n] \in NativeOver(heap)
      BY <1>2, <2>2, LastNative, SequenceElements DEF Native, Sound
    <3>2. \A n \in DOMAIN natives : natives[n].base \in Nat
      BY <3>1 DEF NativeOver
    <3>3. Native.base + 1 <= k
      BY <1>1, <2>2, <3>1 DEF exceptionBoundary
    <3>4. QED  BY <1>3, <3>1, <3>2, <3>3
  <2>3. QED  BY <2>1, <2>2
<1>5. Sound(heap, rest, natives, Null) /\ Len(rest) = k
  BY <1>2, <1>3, <1>4, Dropping
<1>6. rest # <<>>
  BY <1>3, <1>5, EmptySeq
<1> HIDE DEF rest
<1>7. Sound(g, fs, natives, Null)
  BY <1>2, <1>5, <1>6, Writing
<1>8. Sound(heap', fs, natives, Null)
  BY <1>1, <1>7, AtSafepoint
<1>9. QED  BY <1>1, <1>8 DEF MemoryInv

LEMMA EscapeKeeps ==
  ASSUME MemoryInv, NEW new \in FreeCells, Escape(new)
  PROVE  MemoryInv'
<1> DEFINE rest == SubSeq(frames, 1, Native.base)
           outer == SubSeq(natives, 1, Len(natives) - 1)
<1>1. /\ thrown # Null /\ natives # <<>>
      /\ frames' = rest /\ natives' = outer /\ thrown' = Ref("error", new)
      /\ heap' = Put(heap, new, "error", heap[thrown.at].holds)
  BY DEF Escape
<1>2. thrown \in Pointers(heap) /\ thrown.tag # "closure"
  BY <1>1 DEF MemoryInv, Sound, Errors
<1>3. heap[thrown.at].holds \in SUBSET Pointers(heap)
  BY <1>2, HoldsPointersOf
<1>4. Sound(heap', frames, natives, Null) /\ thrown' \in Errors(heap')
  BY <1>1, <1>3, Allocated
<1>5. /\ Native.base \in 1..Len(frames) /\ Len(frames) \in Nat
      /\ \A k \in DOMAIN natives : natives[k].base <= Native.base
  BY <1>1, <1>4, LastNative, SequenceElements DEF Native, Sound
<1>6. Sound(heap', rest, natives, Null)
  BY <1>4, <1>5, Dropping
<1>7. Sound(heap', rest, outer, Null)
  BY <1>1, <1>6, LeavingNative
<1>8. Sound(heap', rest, outer, thrown')
  BY <1>4, <1>7, Throwing
<1>9. QED  BY <1>1, <1>8 DEF MemoryInv

LEMMA UncaughtKeeps ==
  ASSUME MemoryInv, Uncaught
  PROVE  MemoryInv'
<1>1. frames' = <<>> /\ thrown' = Null /\ natives = <<>> /\ UNCHANGED <<heap, natives>>
  BY DEF Uncaught
<1>2. <<>> \in Seq(FrameOver(heap)) /\ <<>> \in Seq(NativeOver(heap))
  BY EmptySeq
<1>3. BasesNested(<<>>, <<>>) /\ DistinctBoxes(<<>>)
  BY DEF BasesNested, DistinctBoxes
<1>4. Sound(heap, <<>>, <<>>, Null)
  BY <1>2, <1>3 DEF MemoryInv, Sound
<1>5. QED  BY <1>1, <1>4 DEF MemoryInv
-----------------------------------------------------------------------------
LEMMA InitSound == Init => MemoryInv
<1> SUFFICES ASSUME Init PROVE MemoryInv
  OBVIOUS
<1> DEFINE f == NewFrame([i \in Registers |-> Null], {}, Null)
<1>1. heap = [c \in Cells |-> Free] /\ frames = <<f>> /\ natives = <<>> /\ thrown = Null
  BY DEF Init
<1>2. SoundHeap(heap)
  BY <1>1 DEF SoundHeap, Free
<1>3. f \in FrameOver(heap) /\ \A i \in Registers : f.registerCells[i] = Null
  BY NewFrameIs DEF Values
<1> HIDE DEF f
<1>4. frames \in Seq(FrameOver(heap)) /\ DOMAIN frames = {1} /\ frames[1] = f
  BY <1>1, <1>3
<1>5. natives \in Seq(NativeOver(heap)) /\ DOMAIN natives = {}
  BY <1>1, EmptySeq
<1>6. BasesNested(frames, natives)
  BY <1>5 DEF BasesNested
<1>7. DistinctBoxes(frames)
  BY <1>3, <1>4 DEF DistinctBoxes
<1>8. QED  BY <1>1, <1>2, <1>4, <1>5, <1>6, <1>7 DEF MemoryInv, Sound

LEMMA StepSound == MemoryInv /\ [Next]_vars => MemoryInv'
<1> SUFFICES ASSUME MemoryInv, [Next]_vars PROVE MemoryInv'
  OBVIOUS
<1>1. CASE Instruction
  <2>1. \A d \in Registers, new \in FreeCells, captured \in SUBSET Registers,
           inherited \in SUBSET Box : MakeClosure(d, new, captured, inherited) => MemoryInv'
    BY MakeClosureKeeps
  <2>2. \A d \in Registers, new \in FreeCells :
          (\E operands \in SUBSET Registers : MakeObject(d, new, operands))
            \/ (\E i \in Registers : BindMethod(d, i, new)) => MemoryInv'
    BY MakeObjectKeeps, BindMethodKeeps
  <2>3. \A d \in Registers : LoadConstant(d) => MemoryInv'
    BY LoadConstantKeeps
  <2>4. \A d, i \in Registers : Move(d, i) \/ LoadSlot(d, i) \/ Return(d, i) => MemoryInv'
    BY MoveKeeps, LoadSlotKeeps, ReturnKeeps
  <2>5. \A d \in Registers, box \in Box :
          LoadCapture(d, box) \/ (\E i \in Registers : StoreCapture(d, i, box)) => MemoryInv'
    BY LoadCaptureKeeps, StoreCaptureKeeps
  <2>6. \A d, i, j \in Registers : StoreSlot(d, i, j) => MemoryInv'
    BY StoreSlotKeeps
  <2>7. \A i \in Registers, p \in Passing : Call(i, p) => MemoryInv'
    BY CallKeeps
  <2>8. \A new \in FreeCells, p \in Passing : Construct(new, p) => MemoryInv'
    BY ConstructKeeps
  <2>9. \A operands \in SUBSET Registers : CallNative(operands) => MemoryInv'
    BY CallNativeKeeps
  <2>10. QED
    BY <1>1, <2>1, <2>2, <2>3, <2>4, <2>5, <2>6, <2>7, <2>8, <2>9 DEF Instruction
<1>2. CASE NativeStep
  BY <1>2, NativeAllocateKeeps, NativeInvokeKeeps, CallbackReturnKeeps, NativeCollectKeeps,
     NativeResultKeeps, NativeStoreKeeps DEF NativeStep
<1>3. CASE Failing
  BY <1>3, RaiseInMakeInstanceKeeps, RethrowKeeps, RaiseKeeps, NativeFailKeeps, EscapeKeeps,
     CatchKeeps, UncaughtKeeps DEF Failing
<1>4. CASE UNCHANGED vars
  BY <1>4 DEF vars, MemoryInv
<1>5. QED  BY <1>1, <1>2, <1>3, <1>4 DEF Next

(* The machine is sound after any interleaving of instructions, natives,   *)
(* callbacks, errors and safepoints.                                       *)
THEOREM MachineSound == Spec => []MemoryInv
BY InitSound, StepSound, PTL DEF Spec

(* A suspended frame finds its registers, boxes, captures and its instance *)
(* as it left them, whatever collections ran meanwhile: collectAtSafepoint *)
(* passes everything the frames refer to.                                  *)
THEOREM FramesStayIntact == Spec => []FramesIntact
<1>1. MemoryInv => FramesIntact
  <2> SUFFICES ASSUME MemoryInv, NEW k \in DOMAIN frames, NEW r \in FrameRefs(frames[k])
               PROVE  Good(r)
    BY DEF FramesIntact
  <2>1. frames[k] \in FrameOver(heap)
    BY SequenceElements DEF MemoryInv, Sound
  <2>2. r \in Pointers(heap) \cup Boxes(heap)
    BY <2>1 DEF FrameOver, FrameRefs, Values
  <2>3. QED  BY <2>2 DEF Good, Pointers, Boxes, Box
<1>2. QED  BY <1>1, MachineSound, PTL

(* So do a native whose callback runs, and an error on its way.            *)
THEOREM NativesStayIntact == Spec => []NativesIntact
<1>1. MemoryInv => NativesIntact
  <2> SUFFICES ASSUME MemoryInv PROVE NativesIntact
    OBVIOUS
  <2>1. ASSUME NEW k \in DOMAIN natives, NEW r \in NativeRefs(natives[k])
        PROVE  Good(r)
    <3>1. natives[k] \in NativeOver(heap)
      BY SequenceElements DEF MemoryInv, Sound
    <3>2. r \in Pointers(heap)
      BY <3>1 DEF NativeOver, NativeRefs, Values, Some
    <3>3. QED  BY <3>2 DEF Good, Pointers
  <2>2. thrown # Null => Good(thrown)
    BY DEF MemoryInv, Sound, Errors, Pointers, Good
  <2>3. QED  BY <2>1, <2>2 DEF NativesIntact
<1>2. QED  BY <1>1, MachineSound, PTL

(* No cell refers to one that was freed or handed out again.               *)
THEOREM HeapStaysIntact == Spec => []HeapIntact
<1>1. MemoryInv => HeapIntact
  <2> SUFFICES ASSUME MemoryInv, NEW c \in Cells, NEW r \in heap[c].holds
               PROVE  Good(r)
    BY DEF HeapIntact
  <2>1. r \in Pointers(heap) \cup Boxes(heap)
    BY DEF MemoryInv, Sound, SoundHeap, Holdable
  <2>2. QED  BY <2>1 DEF Good, Pointers, Boxes, Box
<1>2. QED  BY <1>1, MachineSound, PTL

-----------------------------------------------------------------------------
(* The changes a step makes to the frames, and what they leave alone: the  *)
(* boxes and the captures of every frame that stays.                       *)
Keeps(fs, gs) ==
  \A k \in DOMAIN fs \cap DOMAIN gs :
    /\ \A i \in Registers :
         fs[k].registerCells[i] # Null => gs[k].registerCells[i] = fs[k].registerCells[i]
    /\ gs[k].captures = fs[k].captures

LEMMA FramesAre ==
  ASSUME MemoryInv
  PROVE  /\ frames \in Seq(FrameOver(heap)) /\ Len(frames) \in Nat
         /\ DOMAIN frames = 1..Len(frames)
         /\ \A k \in DOMAIN frames : frames[k] \in FrameOver(heap)
BY SequenceElements DEF MemoryInv, Sound

(* One frame is replaced by one with the same captures and boxes, or more  *)
(* boxes.                                                                  *)
LEMMA ReplacingKeeps ==
  ASSUME NEW F, NEW fs \in Seq(F), NEW m \in DOMAIN fs, NEW f,
         f.captures = fs[m].captures,
         \A i \in Registers :
            fs[m].registerCells[i] # Null => f.registerCells[i] = fs[m].registerCells[i]
  PROVE  Keeps(fs, [fs EXCEPT ![m] = f])
BY DEF Keeps

LEMMA WritingKeeps ==
  ASSUME NEW h, NEW fs \in Seq(FrameOver(h)), fs # <<>>, NEW i \in Registers, NEW v
  PROVE  Keeps(fs, Wrote(fs, i, v))
<1>1. Len(fs) \in DOMAIN fs /\ fs[Len(fs)] \in FrameOver(h)
  BY SequenceElements, EmptySeq
<1> DEFINE f == WriteFrame(fs[Len(fs)], i, v)
<1>2. f.captures = fs[Len(fs)].captures /\ f.registerCells = fs[Len(fs)].registerCells
  BY <1>1 DEF WriteFrame, FrameOver
<1> HIDE DEF f
<1>3. Keeps(fs, [fs EXCEPT ![Len(fs)] = f])
  BY <1>1, <1>2, ReplacingKeeps
<1>4. QED  BY <1>3 DEF Wrote, f

LEMMA PushingKeeps ==
  ASSUME NEW F, NEW fs \in Seq(F), NEW f
  PROVE  Keeps(fs, Append(fs, f))
<1>1. DOMAIN fs = 1..Len(fs) /\ \A k \in 1..Len(fs) : Append(fs, f)[k] = fs[k]
  BY SequenceElements
<1>2. QED  BY <1>1 DEF Keeps

LEMMA DroppingKeeps ==
  ASSUME NEW h, NEW fs \in Seq(FrameOver(h)), NEW k \in 0..Len(fs)
  PROVE  /\ Keeps(fs, SubSeq(fs, 1, k))
         /\ k > 0 => \A i \in Registers : \A v : Keeps(fs, Wrote(SubSeq(fs, 1, k), i, v))
<1> DEFINE rest == SubSeq(fs, 1, k)
<1>1. Len(fs) \in Nat /\ DOMAIN fs = 1..Len(fs) /\ \A j \in 1..Len(fs) : fs[j] \in FrameOver(h)
  BY SequenceElements
<1>2. /\ rest \in Seq(FrameOver(h)) /\ Len(rest) = k
      /\ \A j \in 1..k : rest[j] = fs[j]
  <2>1. \A j \in 1..k : fs[j] \in FrameOver(h)
    BY <1>1
  <2>2. QED  BY <1>1, <2>1, SubSeqProperties
<1>3. DOMAIN rest = 1..k
  BY <1>2, SequenceElements
<1>4. Keeps(fs, rest)
  BY <1>2, <1>3 DEF Keeps
<1> HIDE DEF rest
<1>5. ASSUME k > 0, NEW i \in Registers, NEW v
      PROVE  Keeps(fs, Wrote(rest, i, v))
  <2>1. rest # <<>>
    BY <1>2, <1>5, EmptySeq
  <2>2. Keeps(rest, Wrote(rest, i, v))
    BY <1>2, <2>1, WritingKeeps
  <2>3. DOMAIN Wrote(rest, i, v) = DOMAIN rest
    BY DEF Wrote
  <2>4. \A j \in DOMAIN fs \cap DOMAIN rest : rest[j] = fs[j]
    BY <1>2, <1>3
  <2>5. QED  BY <2>2, <2>3, <2>4 DEF Keeps
<1>6. QED  BY <1>4, <1>5 DEF rest

(* MakeClosure boxes only registers that have no box.                      *)
LEMMA BoxingKeeps ==
  ASSUME MemoryInv, NEW d \in Registers, NEW closure \in FreeCells,
         NEW captured \in SUBSET Registers, NEW inherited \in SUBSET Box,
         MakeClosure(d, closure, captured, inherited)
  PROVE  Keeps(frames, frames')
<1> DEFINE unboxed == Unboxed(captured)
<1>1. frames # <<>>
  BY DEF MakeClosure, Executing
<1>2. frames \in Seq(FrameOver(heap)) /\ Len(frames) \in DOMAIN frames /\ Top \in FrameOver(heap)
  BY <1>1, FramesAre, SequenceElements, EmptySeq DEF Top
<1> DEFINE boxes(fresh) == [i \in Registers |-> IF i \in unboxed THEN Ref("cell", fresh[i])
                                                ELSE Top.registerCells[i]]
           boxed(fresh) == [Top EXCEPT !.registerCells = boxes(fresh)]
           f(fresh) == WriteFrame(boxed(fresh), d, Ref("closure", closure))
<1>3. PICK fresh \in [unboxed -> FreeCells \ {closure}] :
        frames' = [frames EXCEPT ![Len(frames)] = f(fresh)]
  BY DEF MakeClosure
<1>4. f(fresh).captures = Top.captures /\ f(fresh).registerCells = boxes(fresh)
  BY <1>2 DEF WriteFrame, FrameOver
<1>5. \A i \in Registers : Top.registerCells[i] # Null => boxes(fresh)[i] = Top.registerCells[i]
  BY DEF Unboxed
<1>6. \A i \in Registers :
         Top.registerCells[i] # Null => f(fresh).registerCells[i] = Top.registerCells[i]
  BY <1>4, <1>5
<1> HIDE DEF f
<1>7. QED  BY <1>2, <1>3, <1>4, <1>6, ReplacingKeeps DEF Top

LEMMA StepKeepsBoxes ==
  ASSUME MemoryInv, [Next]_vars
  PROVE  SameBoxes
<1> USE FramesAre
<1>1. (\E i \in Registers : \E v : frames # <<>> /\ frames' = Wrote(frames, i, v))
        => Keeps(frames, frames')
  BY WritingKeeps
<1>2. (\E f : frames' = Append(frames, f)) => Keeps(frames, frames')
  BY PushingKeeps
<1>3. \A k \in 0..Len(frames) :
        \/ frames' = SubSeq(frames, 1, k)
        \/ k > 0 /\ \E i \in Registers : \E v : frames' = Wrote(SubSeq(frames, 1, k), i, v)
        => Keeps(frames, frames')
  BY DroppingKeeps
<1>4. frames' = frames \/ frames' = <<>> => Keeps(frames, frames')
  BY EmptySeq DEF Keeps
<1>5. CASE Instruction
  <2>1. \A d \in Registers, new \in FreeCells, captured \in SUBSET Registers,
           inherited \in SUBSET Box :
             MakeClosure(d, new, captured, inherited) => Keeps(frames, frames')
    BY BoxingKeeps
  <2>2. \A d \in Registers, new \in FreeCells :
          (\E operands \in SUBSET Registers : MakeObject(d, new, operands))
            \/ (\E i \in Registers : BindMethod(d, i, new)) => Keeps(frames, frames')
    BY <1>1 DEF MakeObject, BindMethod, Assign, AssignAtSafepoint, Executing
  <2>3. \A d \in Registers : LoadConstant(d) => Keeps(frames, frames')
    BY <1>1 DEF LoadConstant, Assign, Executing
  <2>4. \A d, i \in Registers : Move(d, i) \/ LoadSlot(d, i) => Keeps(frames, frames')
    BY <1>1 DEF Move, LoadSlot, Assign, Executing
  <2>5. ASSUME NEW i \in Registers, NEW d \in Registers, Return(i, d)
        PROVE  Keeps(frames, frames')
    <3>1. Len(frames) \in Nat \ {0}
      BY <2>5, EmptySeq DEF Return, Executing
    <3>2. CASE Len(frames) = 1
      BY <1>4, <2>5, <3>2 DEF Return
    <3>3. CASE Len(frames) # 1
      <4>1. Len(frames) - 1 \in 0..Len(frames) /\ Len(frames) - 1 > 0
        BY <3>1, <3>3
      <4>2. frames' = Wrote(SubSeq(frames, 1, Len(frames) - 1), d, Result(i))
        BY <2>5, <3>3 DEF Return
      <4>3. QED  BY <1>3, <4>1, <4>2
    <3>4. QED  BY <3>2, <3>3
  <2>6. \A d \in Registers, box \in Box :
          LoadCapture(d, box) \/ (\E i \in Registers : StoreCapture(d, i, box))
            => Keeps(frames, frames')
    BY <1>1 DEF LoadCapture, StoreCapture, Assign, Executing
  <2>7. \A d, i, j \in Registers : StoreSlot(d, i, j) => Keeps(frames, frames')
    BY <1>1 DEF StoreSlot, Assign, Executing
  <2>8. \A i \in Registers, p \in Passing : Call(i, p) => Keeps(frames, frames')
    BY <1>2 DEF Call
  <2>9. \A new \in FreeCells, p \in Passing : Construct(new, p) => Keeps(frames, frames')
    BY <1>2 DEF Construct
  <2>10. \A operands \in SUBSET Registers : CallNative(operands) => Keeps(frames, frames')
    BY <1>4 DEF CallNative
  <2>11. QED
    BY <1>5, <2>1, <2>2, <2>3, <2>4, <2>5, <2>6, <2>7, <2>8, <2>9, <2>10 DEF Instruction, Keeps, SameBoxes
<1>6. CASE NativeStep
  <2>1. \A new \in FreeCells, copy \in BOOLEAN : NativeAllocate(new, copy) => Keeps(frames, frames')
    BY <1>4 DEF NativeAllocate
  <2>2. \A protect \in BOOLEAN : NativeInvoke(protect) => Keeps(frames, frames')
    BY <1>2 DEF NativeInvoke
  <2>3. ASSUME NEW i \in Registers, NEW use \in {"append", "accumulate", "test"},
               CallbackReturn(i, use)
        PROVE  Keeps(frames, frames')
    <3>1. natives # <<>> /\ Sound(heap, frames, natives, thrown)
      BY <2>3 DEF CallbackReturn, EnteredByNative, MemoryInv
    <3>2. Native.base \in 0..Len(frames)
      BY <3>1, LastNative DEF Native
    <3>3. QED  BY <1>3, <2>3, <3>2 DEF CallbackReturn
  <2>4. NativeCollect => Keeps(frames, frames')
    BY <1>4 DEF NativeCollect
  <2>5. \A d \in Registers : NativeResult(d) \/ NativeStore(d) => Keeps(frames, frames')
    <3>1. NativeRuns => frames # <<>>
      <4>1. NativeRuns => natives # <<>> /\ Native.base = Len(frames)
        BY DEF NativeRuns, InNative, Native
      <4>2. natives # <<>> => Native.base \in 1..Len(frames)
        BY LastNative DEF MemoryInv, Native
      <4>3. QED  BY <4>1, <4>2, EmptySeq
    <3>2. QED  BY <1>1, <3>1 DEF NativeResult, NativeStore, NativeReturn
  <2>6. QED  BY <1>6, <2>1, <2>2, <2>3, <2>4, <2>5 DEF NativeStep, Keeps, SameBoxes
<1>7. CASE Failing
  <2>1. (\E instance, new \in FreeCells : RaiseInMakeInstance(instance, new))
          => Keeps(frames, frames')
    BY <1>4 DEF RaiseInMakeInstance
  <2>2. \A i \in Registers : Rethrow(i) => Keeps(frames, frames')
    BY <1>4 DEF Rethrow
  <2>3. \A new \in FreeCells : Raise(new) \/ NativeFail(new) => Keeps(frames, frames')
    BY <1>4 DEF Raise, NativeFail
  <2>4. ASSUME NEW new \in FreeCells, Escape(new)
        PROVE  Keeps(frames, frames')
    <3>1. natives # <<>> /\ Sound(heap, frames, natives, thrown)
      BY <2>4 DEF Escape, MemoryInv
    <3>2. Native.base \in 0..Len(frames)
      BY <3>1, LastNative DEF Native
    <3>3. QED  BY <1>3, <2>4, <3>2 DEF Escape
  <2>5. \A k \in DOMAIN frames, d \in Registers : Catch(k, d) => Keeps(frames, frames')
    <3>1. \A k \in DOMAIN frames : k \in 0..Len(frames) /\ k > 0
      OBVIOUS
    <3>2. QED  BY <1>3, <3>1 DEF Catch
  <2>6. Uncaught => Keeps(frames, frames')
    BY <1>4 DEF Uncaught
  <2>7. QED  BY <1>7, <2>1, <2>2, <2>3, <2>4, <2>5, <2>6 DEF Failing, Keeps, SameBoxes
<1>8. CASE UNCHANGED vars
  BY <1>4, <1>8 DEF vars, Keeps, SameBoxes
<1>9. QED  BY <1>5, <1>6, <1>7, <1>8 DEF Next

(* A captured variable has one box for good: MakeClosure boxes a register  *)
(* once, no other instruction touches the boxes of a frame that stays, and *)
(* a called frame starts without boxes.                                    *)
THEOREM BoxesStayForGood == Spec => OneBoxForGood
<1>1. MemoryInv /\ [Next]_vars => SameBoxes
  BY StepKeepsBoxes
<1>2. MemoryInv /\ [Next]_vars => BoxesDistinct'
  BY StepSound DEF MemoryInv, Sound, DistinctBoxes, BoxesDistinct
<1>3. MemoryInv /\ [Next]_vars => [SameBoxes /\ BoxesDistinct']_vars
  BY <1>1, <1>2
<1>4. QED  BY <1>3, MachineSound, PTL DEF Spec, OneBoxForGood
=============================================================================
