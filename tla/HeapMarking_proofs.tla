------------------------- MODULE HeapMarking_proofs -------------------------
(***************************************************************************)
(* The worklist loop of Heap::collectRoots marks exactly the reachable     *)
(* nodes, on every graph and from every set of roots, and so implements    *)
(* the atomic collector.                                                   *)
(***************************************************************************)
EXTENDS HeapMarking, TLAPS

(* The atomic collector again, with what is proved about it.               *)
Proved == INSTANCE ManagedHeap_proofs WITH Managed <- Objects \cup CaptureCells,
                                           Hosted <- Environments \cup HostValues

(* Every node is of one of the four kinds, so that a worklist takes it.    *)
KindsInv ==
  /\ phase \in {"idle", "marking"}
  /\ pendingEnvironments \subseteq Environments
  /\ pendingCaptureCells \subseteq CaptureCells
  /\ pendingValues \subseteq Values
  /\ marked \subseteq Node

CollectorInv == Proved!HeapInv /\ KindsInv /\ MarkingInv
-----------------------------------------------------------------------------
(* Heap and Proved are instances of the same definitions.                  *)
LEMMA SameNode == Proved!Node = Node /\ Heap!Node = Node
BY DEF Proved!Node, Heap!Node, Node

LEMMA SameAssumption == Proved!HeapAssumption
BY MarkingAssumption DEF Heap!HeapAssumption, Proved!HeapAssumption

LEMMA SameState ==
  /\ Proved!RootSet = Heap!RootSet
  /\ Proved!Reachable(edges, Heap!RootSet) = Heap!Reachable(edges, Heap!RootSet)
  /\ Proved!TypeOK <=> Heap!TypeOK
  /\ Proved!Init <=> Heap!Init
BY DEF Proved!RootSet, Heap!RootSet, Proved!Protected, Heap!Protected,
       Proved!Reachable, Heap!Reachable, Proved!Closed, Heap!Closed, Proved!Node, Heap!Node,
       Proved!TypeOK, Heap!TypeOK, Proved!Init, Heap!Init

LEMMA SameCardinality == \A S : Heap!Cardinality(S) = Proved!Cardinality(S)
BY DEF Heap!Cardinality, Proved!Cardinality, Heap!IsFiniteSet, Proved!IsFiniteSet

LEMMA SameSweep == \A m : Heap!Sweep(m) <=> Proved!Sweep(m)
BY SameCardinality
DEF Heap!Sweep, Proved!Sweep, Heap!Node, Proved!Node, Heap!LiveCount, Proved!LiveCount,
       Heap!Larger, Proved!Larger, Heap!clientVars, Proved!clientVars

LEMMA SameClient == Heap!Client => Proved!Client
<1> USE SameState, SameNode, SameCardinality
    DEF Heap!clientVars, Proved!clientVars, Heap!heapBookkeeping, Proved!heapBookkeeping,
        Heap!Larger, Proved!Larger
<1>1. \A new, refs : Heap!Allocate(new, refs) => Proved!Allocate(new, refs)
  BY DEF Heap!Allocate, Proved!Allocate
<1>2. \A t : Heap!SetThreshold(t) => Proved!SetThreshold(t)
  BY DEF Heap!SetThreshold, Proved!SetThreshold
<1>3. Heap!OpenScope => Proved!OpenScope
  BY DEF Heap!OpenScope, Proved!OpenScope
<1>4. \A v : Heap!Protect(v) => Proved!Protect(v)
  BY DEF Heap!Protect, Proved!Protect
<1>5. \A i, v : Heap!AssignProtected(i, v) => Proved!AssignProtected(i, v)
  BY DEF Heap!AssignProtected, Proved!AssignProtected
<1>6. Heap!CloseScope => Proved!CloseScope
  BY DEF Heap!CloseScope, Proved!CloseScope
<1>7. \A from, value : Heap!Load(from, value) => Proved!Load(from, value)
  BY DEF Heap!Load, Proved!Load
<1>8. \A into, refs : Heap!Store(into, refs) => Proved!Store(into, refs)
  BY DEF Heap!Store, Proved!Store
<1>9. \A v : Heap!Drop(v) => Proved!Drop(v)
  BY DEF Heap!Drop, Proved!Drop
<1>10. \A h : Heap!NewHosted(h) => Proved!NewHosted(h)
  BY DEF Heap!NewHosted, Proved!NewHosted
<1>11. QED
  BY <1>1, <1>2, <1>3, <1>4, <1>5, <1>6, <1>7, <1>8, <1>9, <1>10
  DEF Heap!Client, Proved!Client
-----------------------------------------------------------------------------
(* What the loop needs to know about Reachable.                            *)
LEMMA RootsReachable ==
  ASSUME Proved!TypeOK
  PROVE  /\ Heap!RootSet \subseteq Node
         /\ Heap!RootSet \subseteq Heap!Reachable(edges, Heap!RootSet)
         /\ edges \in [Node -> SUBSET Node]
         /\ \A n \in Heap!Reachable(edges, Heap!RootSet) :
               n \in Node /\ edges[n] \subseteq Heap!Reachable(edges, Heap!RootSet)
<1>1. Heap!RootSet \in SUBSET Node  BY Proved!RootSetType, SameAssumption, SameState, SameNode
<1>2. edges \in [Node -> SUBSET Node]  BY SameNode DEF Proved!TypeOK
<1>3. /\ Heap!RootSet \subseteq Proved!Reachable(edges, Heap!RootSet)
      /\ Proved!Reachable(edges, Heap!RootSet) \subseteq Node
  BY <1>1, Proved!ReachableContains, SameAssumption, SameNode
<1>4. Proved!Closed(edges, Proved!Reachable(edges, Heap!RootSet))
  BY <1>2, Proved!ReachableClosed, SameAssumption, SameNode
<1>5. QED  BY <1>1, <1>2, <1>3, <1>4, SameState DEF Proved!Closed

LEMMA ClosedContainsReachable ==
  ASSUME NEW S \in SUBSET Node, Heap!RootSet \subseteq S, \A n \in S : edges[n] \subseteq S
  PROVE  Heap!Reachable(edges, Heap!RootSet) \subseteq S
BY Proved!ReachableLeast, SameAssumption, SameState, SameNode DEF Proved!Closed

(* When the worklists are empty, exactly the reachable nodes are marked.   *)
LEMMA MarkedIsReachable ==
  ASSUME MarkingInv, KindsInv, phase = "marking", Pending = {}
  PROVE  marked = Heap!Reachable(edges, Heap!RootSet)
<1>1. marked \in SUBSET Node /\ Heap!RootSet \subseteq marked
      /\ \A n \in marked : edges[n] \subseteq marked
  BY DEF MarkingInv, KindsInv
<1>2. Heap!Reachable(edges, Heap!RootSet) \subseteq marked
  BY <1>1, ClosedContainsReachable
<1>3. marked \subseteq Heap!Reachable(edges, Heap!RootSet)
  BY DEF MarkingInv
<1>4. QED  BY <1>2, <1>3

LEMMA FinishIsCollectRoots ==
  ASSUME MarkingInv, KindsInv, Finish
  PROVE  Heap!CollectRoots
BY MarkedIsReachable DEF Finish, Heap!CollectRoots
-----------------------------------------------------------------------------
(* The loop reads the heap and does not change it before the sweep.        *)
LEMMA HeapStays ==
  ASSUME UNCHANGED heapVars, Proved!HeapInv
  PROVE  /\ Proved!HeapInv'
         /\ UNCHANGED Heap!vars
         /\ Heap!RootSet' = Heap!RootSet
         /\ Heap!Reachable(edges, Heap!RootSet)' = Heap!Reachable(edges, Heap!RootSet)
<1>1. UNCHANGED Proved!vars /\ UNCHANGED Heap!vars
  BY DEF heapVars, Proved!vars, Proved!clientVars, Heap!vars, Heap!clientVars
<1>2. Heap!RootSet' = Heap!RootSet
  BY DEF heapVars, Heap!RootSet, Heap!Protected
<1>3. Heap!Reachable(edges, Heap!RootSet)' = Heap!Reachable(edges, Heap!RootSet)
  BY <1>2 DEF heapVars, Heap!Reachable, Heap!Closed, Heap!Node
<1>4. QED  BY <1>1, <1>2, <1>3, Proved!HeapInvStep, SameAssumption

(* The marking of one popped node.                                         *)
LEMMA ScanStep ==
  ASSUME CollectorInv, NEW n \in Pending, phase = "marking", Scan(n)
  PROVE  CollectorInv'
<1>1. /\ UNCHANGED heapVars /\ phase' = "marking"
      /\ Proved!TypeOK /\ Proved!HeapInv
  BY DEF Scan, CollectorInv, Proved!HeapInv
<1>2. /\ Proved!HeapInv'
      /\ Heap!RootSet' = Heap!RootSet /\ edges' = edges
      /\ Heap!Reachable(edges, Heap!RootSet)' = Heap!Reachable(edges, Heap!RootSet)
  BY <1>1, HeapStays DEF heapVars
<1>3. KindsInv'
  <2>1. n \in Node
    BY DEF CollectorInv, KindsInv, Pending, Values, Node, Heap!Node
  <2>2. QED  BY <1>1, <2>1 DEF CollectorInv, KindsInv, Scan
<1>4. marked' = marked \cup {n}
  BY DEF Scan
<1>5. marked \cup Pending \subseteq marked' \cup Pending'
  BY <1>4 DEF Scan, Pending
<1>6. edges[n] \subseteq marked' \cup Pending'
  <2>1. CASE n \in marked
    BY <1>1, <1>5, <2>1 DEF CollectorInv, MarkingInv
  <2>2. CASE n \notin marked
    <3>1. edges[n] \subseteq Environments \cup CaptureCells \cup Values
      BY <1>1, RootsReachable DEF CollectorInv, KindsInv, Pending, Values, Node, Heap!Node
    <3>2. QED  BY <2>2, <3>1 DEF Scan, Pending
  <2>3. QED  BY <2>1, <2>2
<1>7. marked' \cup Pending' \subseteq Heap!Reachable(edges, Heap!RootSet)
  <2>1. marked \cup Pending \subseteq Heap!Reachable(edges, Heap!RootSet)
    BY DEF CollectorInv, MarkingInv
  <2>2. edges[n] \subseteq Heap!Reachable(edges, Heap!RootSet)
    BY <1>1, <2>1, RootsReachable
  <2>3. QED  BY <1>4, <2>1, <2>2 DEF Scan, Pending
<1>8. MarkingInv'
  <2>1. Heap!RootSet' \subseteq marked' \cup Pending'
    BY <1>2, <1>5 DEF CollectorInv, MarkingInv
  <2>2. \A m \in marked' : edges'[m] \subseteq marked' \cup Pending'
    BY <1>2, <1>4, <1>5, <1>6 DEF CollectorInv, MarkingInv
  <2>3. QED  BY <1>2, <1>7, <2>1, <2>2 DEF MarkingInv
<1>9. QED  BY <1>2, <1>3, <1>8 DEF CollectorInv

LEMMA BeginStep ==
  ASSUME CollectorInv, NEW force \in BOOLEAN, Begin(force)
  PROVE  CollectorInv'
<1>1. UNCHANGED heapVars /\ Proved!TypeOK /\ Proved!HeapInv
  BY DEF Begin, CollectorInv, Proved!HeapInv
<1>2. /\ Proved!HeapInv'
      /\ Heap!RootSet' = Heap!RootSet
      /\ Heap!Reachable(edges, Heap!RootSet)' = Heap!Reachable(edges, Heap!RootSet)
  BY <1>1, HeapStays
<1>3. KindsInv'
  BY DEF Begin, KindsInv
<1>4. marked' = {} /\ Pending' = Heap!RootSet
  <2>1. Heap!RootSet \subseteq Environments \cup CaptureCells \cup Values
    BY <1>1, RootsReachable DEF Node, Heap!Node, Values
  <2>2. QED  BY <2>1 DEF Begin, Pending
<1>5. MarkingInv'
  BY <1>1, <1>2, <1>4, RootsReachable DEF MarkingInv
<1>6. QED  BY <1>2, <1>3, <1>5 DEF CollectorInv

LEMMA MutateStep ==
  ASSUME CollectorInv, Mutate
  PROVE  CollectorInv'
<1>1. Proved!HeapInv'
  BY SameClient, Proved!HeapInvStep, SameAssumption DEF CollectorInv, Mutate, Proved!Next
<1>2. KindsInv' /\ phase' = "idle"
  BY SameNode DEF CollectorInv, KindsInv, Mutate, markVars, Node, Heap!Node
<1>3. QED  BY <1>1, <1>2 DEF CollectorInv, MarkingInv

LEMMA FinishStep ==
  ASSUME CollectorInv, Finish
  PROVE  CollectorInv'
<1>1. Proved!CollectRoots
  BY MarkedIsReachable, SameSweep, SameState DEF CollectorInv, Finish, Proved!CollectRoots
<1>2. Proved!HeapInv'
  BY <1>1, Proved!HeapInvStep, SameAssumption DEF CollectorInv, Proved!Next
<1>3. KindsInv' /\ phase' = "idle"
  BY DEF CollectorInv, KindsInv, Finish
<1>4. QED  BY <1>2, <1>3 DEF CollectorInv, MarkingInv

LEMMA CollectorInvStep == CollectorInv /\ [Next]_vars => CollectorInv'
<1> SUFFICES ASSUME CollectorInv, [Next]_vars PROVE CollectorInv'
  OBVIOUS
<1>1. CASE Mutate  BY <1>1, MutateStep
<1>2. ASSUME NEW force \in BOOLEAN, Begin(force) PROVE CollectorInv'
  BY <1>2, BeginStep
<1>3. ASSUME NEW n, PopEnvironment(n) \/ PopCaptureCell(n) \/ PopValue(n)
      PROVE  CollectorInv'
  BY <1>3, ScanStep DEF PopEnvironment, PopCaptureCell, PopValue, Pending
<1>4. CASE Finish  BY <1>4, FinishStep
<1>5. CASE UNCHANGED vars
  <2>1. UNCHANGED heapVars /\ UNCHANGED markVars /\ Proved!HeapInv
    BY <1>5 DEF vars, CollectorInv
  <2>2. /\ Proved!HeapInv'
        /\ Heap!RootSet' = Heap!RootSet
        /\ Heap!Reachable(edges, Heap!RootSet)' = Heap!Reachable(edges, Heap!RootSet)
    BY <2>1, HeapStays
  <2>3. KindsInv' /\ MarkingInv'
    BY <2>1, <2>2, SameNode
    DEF CollectorInv, KindsInv, MarkingInv, markVars, heapVars, Pending, Node, Heap!Node
  <2>4. QED  BY <2>2, <2>3 DEF CollectorInv
<1>6. QED  BY <1>1, <1>2, <1>3, <1>4, <1>5 DEF Next, Collector

LEMMA CollectorInvHolds == Init => CollectorInv
<1> SUFFICES ASSUME Init PROVE CollectorInv
  OBVIOUS
<1>1. Proved!HeapInv
  BY SameState, Proved!InitHolds, SameAssumption DEF Init, Proved!HeapInv
<1>2. QED  BY <1>1 DEF Init, CollectorInv, KindsInv, MarkingInv

THEOREM CollectorInvariant == Spec => []CollectorInv
BY CollectorInvHolds, CollectorInvStep, PTL DEF Spec

(* The tri-colour invariant holds throughout every collection, whatever    *)
(* the graph, the roots and the order in which the worklists are drained.  *)
THEOREM MarkingCorrect == Spec => []MarkingInv
<1>1. CollectorInv => MarkingInv  BY DEF CollectorInv
<1>2. QED  BY <1>1, CollectorInvariant, PTL

(* The worklist collector implements the atomic one: Finish frees exactly  *)
(* the managed nodes that the roots do not reach, and every step of the    *)
(* marking leaves the heap as it is.                                       *)
THEOREM Refinement == Spec => ImplementsManagedHeap
<1>1. Init => Heap!Init  BY DEF Init
<1>2. CollectorInv /\ [Next]_vars => [Heap!Next]_(Heap!vars)
  <2> SUFFICES ASSUME CollectorInv, [Next]_vars PROVE [Heap!Next]_(Heap!vars)
    OBVIOUS
  <2>1. CASE Mutate  BY <2>1 DEF Mutate, Heap!Next
  <2>2. CASE Finish
    BY <2>2, FinishIsCollectRoots DEF CollectorInv, Heap!Next
  <2>3. CASE UNCHANGED heapVars
    BY <2>3, HeapStays DEF CollectorInv
  <2>4. [Next]_vars => Mutate \/ Finish \/ UNCHANGED heapVars
    BY DEF Next, Collector, Begin, PopEnvironment, PopCaptureCell, PopValue, Scan, vars
  <2>5. QED  BY <2>1, <2>2, <2>3, <2>4
<1>3. QED  BY <1>1, <1>2, CollectorInvariant, PTL DEF Spec, Heap!Spec, ImplementsManagedHeap
-----------------------------------------------------------------------------
(* A step of a collection marks a node that was not, or takes one off the  *)
(* worklists and marks none, or ends the collection.  There are finitely   *)
(* many nodes.                                                             *)
Narrows ==
  /\ marked \subseteq marked'
  /\ \/ \E n \in Node : n \in marked' \ marked
     \/ Pending' \subseteq Pending /\ Pending' # Pending
MarkingNarrows == phase = "marking" => (Narrows \/ phase' = "idle")

(* The worklists are disjoint: a popped node is on none of them.           *)
LEMMA Popped ==
  ASSUME KindsInv, NEW n \in Pending, Scan(n)
  PROVE  Narrows
<1>1. n \in Node /\ marked' = marked \cup {n}
  BY DEF Scan, KindsInv, Pending, Values, Node, Heap!Node
<1>2. CASE n \notin marked
  BY <1>1, <1>2 DEF Narrows
<1>3. CASE n \in marked
  <2>1. /\ pendingEnvironments' = pendingEnvironments \ {n}
        /\ pendingCaptureCells' = pendingCaptureCells \ {n}
        /\ pendingValues' = pendingValues \ {n}
    BY <1>3 DEF Scan
  <2>2. Pending' = Pending \ {n}
    BY <2>1 DEF Pending
  <2>3. QED  BY <1>1, <2>2 DEF Narrows
<1>4. QED  BY <1>2, <1>3

(* The marking comes to an end on every graph, cyclic ones included: no    *)
(* step of the loop leaves as much to do as it found, and the client does  *)
(* not run before the sweep.                                               *)
THEOREM MarkingComesToAnEnd == Spec => [][MarkingNarrows]_vars
<1>1. CollectorInv /\ [Next]_vars => [MarkingNarrows]_vars
  <2> SUFFICES ASSUME CollectorInv, Next, phase = "marking"
               PROVE  Narrows \/ phase' = "idle"
    BY DEF MarkingNarrows
  <2>1. CASE Finish
    BY <2>1 DEF Finish
  <2>2. ASSUME NEW n, PopEnvironment(n) \/ PopCaptureCell(n) \/ PopValue(n)
        PROVE  Narrows
    BY <2>2, Popped
    DEF PopEnvironment, PopCaptureCell, PopValue, Pending, CollectorInv, KindsInv
  <2>3. ~Mutate /\ ~\E force \in BOOLEAN : Begin(force)
    BY DEF Mutate, Begin
  <2>4. QED  BY <2>1, <2>2, <2>3 DEF Next, Collector
<1>2. QED  BY <1>1, CollectorInvariant, PTL DEF Spec
=============================================================================
