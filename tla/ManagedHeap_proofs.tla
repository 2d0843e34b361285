------------------------- MODULE ManagedHeap_proofs -------------------------
(***************************************************************************)
(* Proofs about ManagedHeap for every set of addresses, of hosted nodes    *)
(* and of thresholds.                                                      *)
(***************************************************************************)
EXTENDS ManagedHeap, FiniteSetTheorems, SequenceTheorems, TLAPS

(* The counters and the finiteness they need to mean anything.             *)
CountingInv == IsFiniteSet(live) /\ Accounting

(* The threshold leaves room for as many nodes as survived, and one more.  *)
ThresholdInv == nextThreshold >= 2 * survivors + 1
-----------------------------------------------------------------------------
(* What Reachable means: it contains its roots, is closed under the        *)
(* references of its members, and is contained in every such set.          *)
LEMMA ReachableLeast ==
  ASSUME NEW graph, NEW from, NEW S \in SUBSET Node, from \subseteq S, Closed(graph, S)
  PROVE  Reachable(graph, from) \subseteq S
BY DEF Reachable

LEMMA ReachableContains ==
  ASSUME NEW graph, NEW from \in SUBSET Node
  PROVE  from \subseteq Reachable(graph, from) /\ Reachable(graph, from) \subseteq Node
BY DEF Reachable

LEMMA ReachableClosed ==
  ASSUME NEW graph \in [Node -> SUBSET Node], NEW from
  PROVE  Closed(graph, Reachable(graph, from))
<1> SUFFICES ASSUME NEW n \in Reachable(graph, from), NEW m \in graph[n]
             PROVE  m \in Reachable(graph, from)
  BY DEF Closed
<1>1. n \in Node /\ m \in Node
  BY DEF Reachable
<1>2. ASSUME NEW S \in SUBSET Node, from \subseteq S, Closed(graph, S)
      PROVE  m \in S
  <2>1. n \in S  BY <1>2 DEF Reachable
  <2>2. QED  BY <2>1, <1>2 DEF Closed
<1>3. QED  BY <1>1, <1>2 DEF Reachable

(* A client that only moves references it already reaches, or references   *)
(* to the nodes in extra, reaches nothing else afterwards.                 *)
LEMMA ReachableConfined ==
  ASSUME NEW old, NEW new, NEW from \in SUBSET Node, NEW to, NEW extra \in SUBSET Node,
         to \subseteq Reachable(old, from) \cup extra,
         \A n \in Reachable(old, from) \cup extra :
            new[n] \subseteq Reachable(old, from) \cup extra
  PROVE  Reachable(new, to) \subseteq Reachable(old, from) \cup extra
<1> DEFINE S == Reachable(old, from) \cup extra
<1>1. S \in SUBSET Node  BY ReachableContains
<1>2. Closed(new, S)  BY DEF Closed
<1> HIDE DEF S
<1>3. to \subseteq S  BY DEF S
<1>4. QED  BY <1>1, <1>2, <1>3, ReachableLeast DEF S
-----------------------------------------------------------------------------
LEMMA RootSetType == TypeOK => RootSet \subseteq Node
BY ElementOfSeq DEF TypeOK, RootSet, Protected

LEMMA SweepType ==
  ASSUME TypeOK, IsFiniteSet(live), NEW marked, Sweep(marked)
  PROVE  TypeOK'
<1>1. IsFiniteSet(live') /\ Cardinality(live') <= Cardinality(live)
  <2>1. live' \in SUBSET live  BY DEF Sweep
  <2>2. QED  BY <2>1, FS_Subset
<1>2. Cardinality(live) \in Nat /\ Cardinality(live') \in Nat
  BY <1>1, FS_CardinalityType
<1>3. live' \subseteq Managed /\ edges' \in [Node -> SUBSET Node]
  BY DEF TypeOK, Sweep
<1>4. reclaimedCount' \in Nat /\ nextThreshold' \in Nat \ {0} /\ survivors' \in Nat
  BY <1>1, <1>2 DEF TypeOK, Sweep, LiveCount, Larger
<1>5. QED  BY <1>3, <1>4 DEF TypeOK, Sweep, clientVars

LEMMA CloseScopeType ==
  ASSUME TypeOK, ScopesNested, CloseScope
  PROVE  /\ temporaryRoots' \in Seq(Node \cup {NoRef})
         /\ scopes' \in Seq(Nat)
         /\ Len(temporaryRoots') = scopes[Len(scopes)]
         /\ Len(scopes') = Len(scopes) - 1
         /\ \A i \in 1..Len(temporaryRoots') : temporaryRoots'[i] = temporaryRoots[i]
         /\ \A i \in 1..Len(scopes') : scopes'[i] = scopes[i]
<1> DEFINE k == Len(scopes)
<1>1. k \in Nat \ {0} /\ DOMAIN scopes = 1..k /\ scopes[k] \in Nat
  BY EmptySeq, LenProperties, ElementOfSeq DEF TypeOK, CloseScope
<1>2. scopes[k] <= Len(temporaryRoots) /\ Len(temporaryRoots) \in Nat
  BY <1>1, LenProperties DEF ScopesNested, TypeOK
<1>3. \A i \in 1..scopes[k] : temporaryRoots[i] \in Node \cup {NoRef}
  BY <1>1, <1>2, ElementOfSeq DEF TypeOK
<1>4. \A i \in 1..(k - 1) : scopes[i] \in Nat
  BY <1>1, ElementOfSeq DEF TypeOK
<1>5. temporaryRoots' = SubSeq(temporaryRoots, 1, scopes[k]) /\ scopes' = SubSeq(scopes, 1, k - 1)
  BY DEF CloseScope
<1> HIDE DEF k
<1>6. /\ temporaryRoots' \in Seq(Node \cup {NoRef})
      /\ Len(temporaryRoots') = IF 1 <= scopes[k] THEN scopes[k] - 1 + 1 ELSE 0
      /\ \A i \in 1..(scopes[k] - 1 + 1) : temporaryRoots'[i] = temporaryRoots[1 + i - 1]
  BY <1>1, <1>3, <1>5, SubSeqProperties
<1>7. /\ scopes' \in Seq(Nat)
      /\ Len(scopes') = IF 1 <= k - 1 THEN k - 1 - 1 + 1 ELSE 0
      /\ \A i \in 1..(k - 1 - 1 + 1) : scopes'[i] = scopes[1 + i - 1]
  <2> DEFINE j == k - 1
  <2>1. j \in Int /\ \A i \in 1..j : scopes[i] \in Nat  BY <1>1, <1>4
  <2>2. scopes' = SubSeq(scopes, 1, j)  BY <1>5
  <2> HIDE DEF j
  <2>3. /\ scopes' \in Seq(Nat)
        /\ Len(scopes') = IF 1 <= j THEN j - 1 + 1 ELSE 0
        /\ \A i \in 1..(j - 1 + 1) : scopes'[i] = scopes[1 + i - 1]
    BY <2>1, <2>2, SubSeqProperties
  <2>4. QED  BY <2>3 DEF j
<1>8. \A i \in 1..scopes[k] : temporaryRoots'[i] = temporaryRoots[i]
  BY <1>1, <1>6
<1>9. \A i \in 1..(k - 1) : scopes'[i] = scopes[i]
  BY <1>1, <1>7
<1>10. Len(temporaryRoots') = scopes[k] /\ Len(scopes') = k - 1
  BY <1>1, <1>6, <1>7
<1>11. QED  BY <1>6, <1>7, <1>8, <1>9, <1>10 DEF k
-----------------------------------------------------------------------------
(* Type correctness.  CloseScope needs ScopesNested (it cuts temporaryRoots *)
(* where the innermost scope says) and Sweep needs live to be finite (its  *)
(* counters subtract cardinalities), so the three are carried together.    *)
LEMMA InitHolds == Init => TypeOK /\ CountingInv /\ ScopesNested /\ ThresholdInv /\ NoDangling
<1> SUFFICES ASSUME Init PROVE TypeOK /\ CountingInv /\ ScopesNested /\ ThresholdInv /\ NoDangling
  OBVIOUS
<1> USE HeapAssumption
<1>1. TypeOK
  <2>1. edges \in [Node -> SUBSET Node]  BY DEF Init
  <2>2. temporaryRoots \in Seq(Node \cup {NoRef}) /\ scopes \in Seq(Nat)
    BY EmptySeq DEF Init
  <2>3. roots \subseteq Node  BY DEF Init, Node
  <2>4. QED  BY <2>1, <2>2, <2>3 DEF Init, TypeOK
<1>2. CountingInv
  BY FS_EmptySet DEF Init, CountingInv, Accounting, LiveCount
<1>3. ScopesNested
  BY DEF Init, ScopesNested
<1>4. ThresholdInv
  BY DEF Init, ThresholdInv
<1>5. NoDangling
  <2>1. roots \subseteq Hosted /\ Protected = {}
    BY DEF Init, Protected
  <2>2. Hosted \in SUBSET Node /\ RootSet \subseteq Hosted /\ Closed(edges, Hosted)
    BY <2>1 DEF Init, RootSet, Node, Closed
  <2>3. Reachable(edges, RootSet) \subseteq Hosted
    BY <2>2, ReachableLeast
  <2>4. QED  BY <2>3 DEF NoDangling
<1>6. QED  BY <1>1, <1>2, <1>3, <1>4, <1>5

LEMMA TypeStep ==
  ASSUME TypeOK, IsFiniteSet(live), ScopesNested, [Next]_vars
  PROVE  TypeOK'
<1> USE HeapAssumption
<1>1. RootSet \subseteq Node  BY RootSetType
<1>2. ASSUME NEW new \in Managed, NEW refs \in SUBSET RootSet, Allocate(new, refs)
      PROVE  TypeOK'
  <2>1. new \in Node /\ refs \in SUBSET Node  BY <1>1 DEF Node
  <2>2. live' \subseteq Managed /\ roots' \subseteq Node /\ edges' \in [Node -> SUBSET Node]
    BY <1>2, <2>1 DEF TypeOK, Allocate
  <2>3. allocatedCount' \in 0..MaxAllocations
    BY <1>2 DEF TypeOK, Allocate
  <2>4. peakLiveCount' \in Nat
    <3>1. IsFiniteSet(live')  BY <1>2, FS_AddElement DEF Allocate
    <3>2. Cardinality(live') \in Nat  BY <3>1, FS_CardinalityType
    <3>3. QED  BY <1>2, <3>2 DEF TypeOK, Allocate, Larger
  <2>5. QED  BY <1>2, <2>2, <2>3, <2>4 DEF TypeOK, Allocate
<1>3. ASSUME NEW t \in Thresholds, SetThreshold(t) PROVE TypeOK'
  BY <1>3 DEF TypeOK, SetThreshold, Larger, clientVars
<1>4. CASE OpenScope
  <2>1. Len(temporaryRoots) \in Nat  BY LenProperties DEF TypeOK
  <2>2. scopes' \in Seq(Nat)  BY <1>4, <2>1, AppendProperties DEF TypeOK, OpenScope
  <2>3. QED  BY <1>4, <2>2 DEF TypeOK, OpenScope
<1>5. ASSUME NEW v \in Node \cup {NoRef}, Protect(v) PROVE TypeOK'
  <2>1. temporaryRoots' \in Seq(Node \cup {NoRef})
    BY <1>5, AppendProperties DEF TypeOK, Protect
  <2>2. QED  BY <1>5, <2>1 DEF TypeOK, Protect
<1>6. ASSUME NEW i \in DOMAIN temporaryRoots, NEW v \in Node \cup {NoRef}, AssignProtected(i, v)
      PROVE  TypeOK'
  <2>1. temporaryRoots' \in Seq(Node \cup {NoRef})
    BY <1>6, ExceptSeq DEF TypeOK, AssignProtected
  <2>2. QED  BY <1>6, <2>1 DEF TypeOK, AssignProtected
<1>7. CASE CloseScope
  <2>1. temporaryRoots' \in Seq(Node \cup {NoRef}) /\ scopes' \in Seq(Nat)
    BY <1>7, CloseScopeType
  <2>2. QED  BY <1>7, <2>1 DEF TypeOK, CloseScope
<1>8. ASSUME NEW from \in Node, NEW value \in Node, Load(from, value) PROVE TypeOK'
  BY <1>8 DEF TypeOK, Load, heapBookkeeping
<1>9. ASSUME NEW into \in Node, NEW refs \in SUBSET RootSet, Store(into, refs) PROVE TypeOK'
  <2>1. edges' \in [Node -> SUBSET Node]  BY <1>1, <1>9 DEF TypeOK, Store
  <2>2. QED  BY <1>9, <2>1 DEF TypeOK, Store, clientVars, heapBookkeeping
<1>10. ASSUME NEW v \in Node, Drop(v) PROVE TypeOK'
  BY <1>10 DEF TypeOK, Drop, heapBookkeeping
<1>11. ASSUME NEW h \in Hosted, NewHosted(h) PROVE TypeOK'
  BY <1>11 DEF TypeOK, NewHosted, heapBookkeeping, Node
<1>12. ASSUME NEW marked, Sweep(marked) PROVE TypeOK'
  BY <1>12, SweepType
<1>13. CASE UNCHANGED vars
  BY <1>13 DEF TypeOK, vars, clientVars
<1>14. QED
  BY <1>2, <1>3, <1>4, <1>5, <1>6, <1>7, <1>8, <1>9, <1>10, <1>11, <1>12, <1>13
  DEF Next, Client, MaybeCollectRoots, CollectRoots

(* Only Allocate, the sweep and setThreshold touch the counters.           *)
LEMMA CountingStep ==
  ASSUME TypeOK, CountingInv, [Next]_vars
  PROVE  CountingInv'
<1> DEFINE kept == <<live, allocatedCount, reclaimedCount, peakLiveCount>>
<1>1. Cardinality(live) \in Nat  BY FS_CardinalityType DEF CountingInv
<1> allocatedCount \in Nat /\ reclaimedCount \in Nat /\ peakLiveCount \in Nat
  BY HeapAssumption DEF TypeOK
<1>2. ASSUME NEW new \in Managed, NEW refs \in SUBSET RootSet, Allocate(new, refs)
      PROVE  CountingInv'
  <2>1. IsFiniteSet(live') /\ Cardinality(live') = Cardinality(live) + 1
    BY <1>2, FS_AddElement DEF Allocate, CountingInv
  <2>2. QED
    BY <1>1, <1>2, <2>1 DEF CountingInv, Accounting, LiveCount, Allocate, Larger
<1>3. ASSUME NEW marked, Sweep(marked) PROVE CountingInv'
  <2>1. live' \in SUBSET live  BY <1>3 DEF Sweep
  <2>2. IsFiniteSet(live') /\ Cardinality(live') <= Cardinality(live)
    BY <2>1, FS_Subset DEF CountingInv
  <2>3. Cardinality(live') \in Nat  BY <2>2, FS_CardinalityType
  <2>4. QED
    BY <1>1, <1>3, <2>2, <2>3 DEF CountingInv, Accounting, LiveCount, Sweep
<1>4. CASE UNCHANGED kept
  BY <1>4 DEF CountingInv, Accounting, LiveCount
<1>5. QED
  <2>1. [Next]_vars => \/ UNCHANGED kept
                       \/ \E new \in Managed, refs \in SUBSET RootSet : Allocate(new, refs)
                       \/ \E marked : Sweep(marked)
    BY DEF Next, Client, vars, clientVars, heapBookkeeping, MaybeCollectRoots, CollectRoots,
           SetThreshold, OpenScope, Protect, AssignProtected, CloseScope, Load, Store, Drop, NewHosted
  <2>2. QED  BY <1>2, <1>3, <1>4, <2>1

LEMMA ThresholdStep ==
  ASSUME TypeOK, CountingInv, ThresholdInv, [Next]_vars
  PROVE  ThresholdInv'
<1>1. ASSUME NEW t \in Thresholds, SetThreshold(t) PROVE ThresholdInv'
  BY <1>1, HeapAssumption DEF ThresholdInv, SetThreshold, Larger
<1>2. ASSUME NEW marked, Sweep(marked) PROVE ThresholdInv'
  <2>1. live' \in SUBSET live  BY <1>2 DEF Sweep
  <2>2. Cardinality(live') \in Nat  BY <2>1, FS_Subset, FS_CardinalityType DEF CountingInv
  <2>3. QED  BY <1>2, <2>2 DEF ThresholdInv, Sweep, Larger, TypeOK
<1>3. CASE UNCHANGED <<nextThreshold, survivors>>
  BY <1>3 DEF ThresholdInv
<1>4. QED
  <2>1. [Next]_vars => \/ UNCHANGED <<nextThreshold, survivors>>
                       \/ \E t \in Thresholds : SetThreshold(t)
                       \/ \E marked : Sweep(marked)
    BY DEF Next, Client, vars, clientVars, heapBookkeeping, MaybeCollectRoots, CollectRoots,
           Allocate, OpenScope, Protect, AssignProtected, CloseScope, Load, Store, Drop, NewHosted
  <2>2. QED  BY <1>1, <1>2, <1>3, <2>1

(* Scopes are opened at the end of temporaryRoots, and only the innermost  *)
(* one is closed.                                                          *)
LEMMA ScopesStep ==
  ASSUME TypeOK, ScopesNested, [Next]_vars
  PROVE  ScopesNested'
<1>1. Len(temporaryRoots) \in Nat /\ \A i \in DOMAIN scopes : scopes[i] \in Nat
  BY LenProperties, ElementOfSeq DEF TypeOK
<1>2. DOMAIN scopes = 1..Len(scopes) /\ Len(scopes) \in Nat
  BY LenProperties DEF TypeOK
<1>3. CASE OpenScope
  <2>1. /\ scopes' = Append(scopes, Len(temporaryRoots))
        /\ temporaryRoots' = temporaryRoots
    BY <1>3 DEF OpenScope
  <2>2. /\ Len(scopes') = Len(scopes) + 1
        /\ DOMAIN scopes' = 1..(Len(scopes) + 1)
        /\ \A i \in 1..Len(scopes) : scopes'[i] = scopes[i]
        /\ scopes'[Len(scopes) + 1] = Len(temporaryRoots)
    BY <1>1, <1>2, <2>1, AppendProperties DEF TypeOK
  <2>3. \A i \in DOMAIN scopes' : scopes'[i] <= Len(temporaryRoots')
    BY <1>1, <1>2, <2>1, <2>2 DEF ScopesNested
  <2>4. \A i, j \in DOMAIN scopes' : i <= j => scopes'[i] <= scopes'[j]
    <3> SUFFICES ASSUME NEW i \in DOMAIN scopes', NEW j \in DOMAIN scopes', i <= j
                 PROVE  scopes'[i] <= scopes'[j]
      OBVIOUS
    <3>1. CASE j = Len(scopes) + 1
      BY <2>1, <2>2, <2>3, <3>1
    <3>2. CASE j # Len(scopes) + 1
      <4>1. i \in DOMAIN scopes /\ j \in DOMAIN scopes  BY <1>2, <2>2, <3>2
      <4>2. QED  BY <1>2, <2>2, <4>1 DEF ScopesNested
    <3>3. QED  BY <3>1, <3>2
  <2>5. QED  BY <2>3, <2>4 DEF ScopesNested
<1>4. ASSUME NEW v, Protect(v) PROVE ScopesNested'
  <2>1. Len(temporaryRoots') = Len(temporaryRoots) + 1 /\ scopes' = scopes
    <3>1. v \in Node \cup {NoRef}
      BY <1>4, RootSetType DEF Protect
    <3>2. QED  BY <1>4, <3>1, AppendProperties DEF Protect, TypeOK
  <2>2. QED  BY <1>1, <2>1 DEF ScopesNested
<1>5. ASSUME NEW i, NEW v, AssignProtected(i, v) PROVE ScopesNested'
  <2>1. Len(temporaryRoots') = Len(temporaryRoots) /\ scopes' = scopes
    <3>1. v \in Node \cup {NoRef} /\ i \in 1..Len(temporaryRoots)
      BY <1>5, RootSetType, LenProperties DEF AssignProtected, TypeOK
    <3>2. QED  BY <1>5, <3>1, ExceptSeq, LenProperties DEF AssignProtected, TypeOK
  <2>2. QED  BY <2>1 DEF ScopesNested
<1>6. CASE CloseScope
  <2>1. /\ Len(temporaryRoots') = scopes[Len(scopes)]
        /\ Len(scopes') = Len(scopes) - 1
        /\ scopes' \in Seq(Nat)
        /\ \A i \in 1..Len(scopes') : scopes'[i] = scopes[i]
    BY <1>6, CloseScopeType
  <2>2. DOMAIN scopes' = 1..(Len(scopes) - 1)
    BY <2>1, LenProperties
  <2>3. \A i \in DOMAIN scopes' : i \in DOMAIN scopes /\ i <= Len(scopes) /\ scopes'[i] = scopes[i]
    BY <1>2, <2>1, <2>2
  <2>4. \A i \in DOMAIN scopes' : Len(scopes) \in DOMAIN scopes
    BY <1>2, <2>2
  <2>5. QED  BY <2>1, <2>3, <2>4 DEF ScopesNested
<1>7. CASE UNCHANGED <<temporaryRoots, scopes>>
  BY <1>7 DEF ScopesNested
<1>8. QED
  <2>1. [Next]_vars => \/ UNCHANGED <<temporaryRoots, scopes>>
                       \/ OpenScope
                       \/ \E v \in Node \cup {NoRef} : Protect(v)
                       \/ \E i \in DOMAIN temporaryRoots, v \in Node \cup {NoRef} : AssignProtected(i, v)
                       \/ CloseScope
    BY DEF Next, Client, vars, clientVars, heapBookkeeping, MaybeCollectRoots, CollectRoots, Sweep,
           SetThreshold, Allocate, Load, Store, Drop, NewHosted
  <2>2. QED  BY <1>3, <1>4, <1>5, <1>6, <1>7, <2>1
-----------------------------------------------------------------------------
(* No dangling reference.  Whatever a step makes reachable was reachable   *)
(* before it or is the node it creates; a collection keeps every reachable *)
(* node and touches the references of none of them.                        *)
LEMMA NoNewReachable ==
  ASSUME TypeOK, NoDangling, live \subseteq live', NEW extra \in SUBSET Node,
         extra \cap Managed \subseteq live',
         RootSet' \subseteq Reachable(edges, RootSet) \cup extra,
         \A n \in Reachable(edges, RootSet) \cup extra :
            edges'[n] \subseteq Reachable(edges, RootSet) \cup extra
  PROVE  NoDangling'
<1>1. RootSet \in SUBSET Node  BY RootSetType
<1>2. Reachable(edges', RootSet') \subseteq Reachable(edges, RootSet) \cup extra
  BY <1>1, ReachableConfined
<1>3. Reachable(edges, RootSet)  \cap Managed \subseteq live'
  BY DEF NoDangling
<1>4. QED  BY <1>2, <1>3 DEF NoDangling

LEMMA NoDanglingSweep ==
  ASSUME TypeOK, NoDangling, CollectRoots
  PROVE  NoDangling'
<1> DEFINE R == Reachable(edges, RootSet)
<1>1. RootSet \in SUBSET Node  BY RootSetType
<1>2. RootSet \subseteq R /\ R \subseteq Node /\ Closed(edges, R)
  BY <1>1, ReachableContains, ReachableClosed DEF TypeOK
<1>3. live' = live \cap R /\ RootSet' = RootSet
  BY DEF CollectRoots, Sweep, clientVars, RootSet, Protected
<1>4. R \cap Managed \subseteq live'
  BY <1>3 DEF NoDangling
<1>5. \A n \in R : edges'[n] = edges[n]
  BY <1>2, <1>4 DEF CollectRoots, Sweep
<1>6. Closed(edges', R)
  BY <1>2, <1>5 DEF Closed
<1> HIDE DEF R
<1>7. Reachable(edges', RootSet') \subseteq R
  BY <1>2, <1>3, <1>6, ReachableLeast
<1>8. QED  BY <1>4, <1>7 DEF NoDangling

LEMMA NoDanglingStep ==
  ASSUME TypeOK, TypeOK', ScopesNested, NoDangling, [Next]_vars
  PROVE  NoDangling'
<1> DEFINE R == Reachable(edges, RootSet)
<1>1. RootSet \in SUBSET Node /\ RootSet' \in SUBSET Node
  BY RootSetType DEF TypeOK, RootSet, Protected
<1>2. RootSet \subseteq R /\ R \in SUBSET Node /\ \A n \in R : edges[n] \subseteq R
  BY <1>1, ReachableContains, ReachableClosed DEF TypeOK, Closed
<1>3. R \cap Managed \subseteq live
  BY DEF NoDangling
<1>4. ASSUME NEW new \in Managed, NEW refs \in SUBSET RootSet, Allocate(new, refs)
      PROVE  NoDangling'
  <2>1. new \notin R /\ live' = live \cup {new}  BY <1>3, <1>4 DEF Allocate
  <2>2. RootSet' \subseteq R \cup {new}
    BY <1>2, <1>4 DEF Allocate, RootSet, Protected
  <2>3. edges'[new] = refs /\ \A n \in R : edges'[n] = edges[n]
    BY <1>2, <1>4, <2>1 DEF Allocate, TypeOK, Node
  <2>4. \A n \in R \cup {new} : edges'[n] \subseteq R \cup {new}
    BY <1>2, <2>3
  <2>5. {new} \in SUBSET Node /\ {new} \cap Managed \subseteq live'
    BY <2>1 DEF Node
  <2>6. QED  BY <2>1, <2>2, <2>4, <2>5, NoNewReachable
<1>5. ASSUME NEW h \in Hosted, NewHosted(h) PROVE NoDangling'
  <2>1. h \notin R /\ live' = live  BY <1>5 DEF NewHosted
  <2>2. RootSet' \subseteq R \cup {h}
    BY <1>2, <1>5 DEF NewHosted, RootSet, Protected
  <2>3. \A n \in R \cup {h} : edges'[n] \subseteq R \cup {h}
    BY <1>2, <1>5, <2>1 DEF NewHosted, TypeOK, Node
  <2>4. {h} \in SUBSET Node /\ {h} \cap Managed \subseteq live'
    BY HeapAssumption DEF Node
  <2>5. QED  BY <2>1, <2>2, <2>3, <2>4, NoNewReachable
<1>6. ASSUME RootSet' \subseteq R, live' = live, \A n \in R : edges'[n] \subseteq R
      PROVE  NoDangling'
  <2>1. QED  BY <1>6, NoNewReachable, {} \in SUBSET Node
<1>7. ASSUME NEW from \in Node, NEW value \in Node, Load(from, value) PROVE NoDangling'
  <2>1. RootSet' \subseteq R  BY <1>2, <1>7 DEF Load, RootSet, Protected
  <2>2. QED  BY <1>2, <1>6, <1>7, <2>1 DEF Load
<1>8. ASSUME NEW into \in Node, NEW refs \in SUBSET RootSet, Store(into, refs) PROVE NoDangling'
  <2>1. RootSet' = RootSet  BY <1>8 DEF Store, clientVars, RootSet, Protected
  <2>2. \A n \in R : edges'[n] \subseteq R  BY <1>2, <1>8 DEF Store, TypeOK
  <2>3. QED  BY <1>2, <1>6, <1>8, <2>1, <2>2 DEF Store
<1>9. ASSUME NEW v, Protect(v) PROVE NoDangling'
  <2>1. v \in Node \cup {NoRef} /\ v \in RootSet \cup {NoRef}
    BY <1>1, <1>9 DEF Protect
  <2>2. \A i \in DOMAIN temporaryRoots' : temporaryRoots'[i] \in RootSet \cup {NoRef}
    <3>1. /\ DOMAIN temporaryRoots' = 1..(Len(temporaryRoots) + 1)
          /\ \A i \in 1..Len(temporaryRoots) : temporaryRoots'[i] = temporaryRoots[i]
          /\ temporaryRoots'[Len(temporaryRoots) + 1] = v
      BY <1>9, <2>1, AppendProperties, LenProperties DEF Protect, TypeOK
    <3>2. DOMAIN temporaryRoots = 1..Len(temporaryRoots) /\ Len(temporaryRoots) \in Nat
      BY LenProperties DEF TypeOK
    <3>3. QED  BY <2>1, <3>1, <3>2 DEF RootSet, Protected
  <2>3. RootSet' \subseteq RootSet  BY <1>9, <2>2 DEF Protect, RootSet, Protected
  <2>4. QED  BY <1>2, <1>6, <1>9, <2>3 DEF Protect
<1>10. ASSUME NEW i, NEW v, AssignProtected(i, v) PROVE NoDangling'
  <2>1. \A j \in DOMAIN temporaryRoots' : temporaryRoots'[j] \in RootSet \cup {NoRef}
    BY <1>10 DEF AssignProtected, RootSet, Protected
  <2>2. RootSet' \subseteq RootSet  BY <1>10, <2>1 DEF AssignProtected, RootSet, Protected
  <2>3. QED  BY <1>2, <1>6, <1>10, <2>2 DEF AssignProtected
<1>11. CASE CloseScope
  <2>1. /\ temporaryRoots' \in Seq(Node \cup {NoRef})
        /\ Len(temporaryRoots') = scopes[Len(scopes)]
        /\ \A i \in 1..Len(temporaryRoots') : temporaryRoots'[i] = temporaryRoots[i]
    BY <1>11, CloseScopeType
  <2>2. scopes[Len(scopes)] <= Len(temporaryRoots)
    BY <1>11, EmptySeq, LenProperties DEF ScopesNested, TypeOK, CloseScope
  <2>3. \A i \in DOMAIN temporaryRoots' :
          i \in DOMAIN temporaryRoots /\ temporaryRoots'[i] = temporaryRoots[i]
    <3>1. /\ DOMAIN temporaryRoots' = 1..Len(temporaryRoots')
          /\ DOMAIN temporaryRoots = 1..Len(temporaryRoots)
          /\ Len(temporaryRoots') \in Nat /\ Len(temporaryRoots) \in Nat
      BY <2>1, LenProperties DEF TypeOK
    <3>2. QED  BY <2>1, <2>2, <3>1
  <2>4. RootSet' \subseteq RootSet  BY <1>11, <2>3 DEF CloseScope, RootSet, Protected
  <2>5. QED  BY <1>2, <1>6, <1>11, <2>4 DEF CloseScope
<1>12. ASSUME UNCHANGED <<live, edges, temporaryRoots>>, roots' \subseteq roots
       PROVE  NoDangling'
  <2>1. RootSet' \subseteq RootSet  BY <1>12 DEF RootSet, Protected
  <2>2. QED  BY <1>2, <1>6, <1>12, <2>1
<1>13. CASE CollectRoots
  BY <1>13, NoDanglingSweep
<1>14. QED
  <2>1. [Next]_vars =>
          \/ UNCHANGED <<live, edges, temporaryRoots>> /\ roots' \subseteq roots
          \/ CollectRoots
          \/ \E new \in Managed, refs \in SUBSET RootSet : Allocate(new, refs)
          \/ \E v \in Node \cup {NoRef} : Protect(v)
          \/ \E i \in DOMAIN temporaryRoots, v \in Node \cup {NoRef} : AssignProtected(i, v)
          \/ CloseScope
          \/ \E from \in Node, value \in Node : Load(from, value)
          \/ \E into \in Node, refs \in SUBSET RootSet : Store(into, refs)
          \/ \E h \in Hosted : NewHosted(h)
    BY DEF Next, Client, vars, clientVars, MaybeCollectRoots, SetThreshold, OpenScope, Drop
  <2>2. QED
    BY <1>4, <1>5, <1>7, <1>8, <1>9, <1>10, <1>11, <1>12, <1>13, <2>1
-----------------------------------------------------------------------------
(* The inductive invariant.                                                *)
HeapInv == TypeOK /\ CountingInv /\ ScopesNested /\ ThresholdInv /\ NoDangling

LEMMA HeapInvStep == HeapInv /\ [Next]_vars => HeapInv'
<1> SUFFICES ASSUME HeapInv, [Next]_vars PROVE HeapInv'
  OBVIOUS
<1>1. TypeOK'        BY TypeStep DEF HeapInv, CountingInv
<1>2. CountingInv'   BY CountingStep DEF HeapInv
<1>3. ScopesNested'  BY ScopesStep DEF HeapInv
<1>4. ThresholdInv'  BY ThresholdStep DEF HeapInv
<1>5. NoDangling'    BY <1>1, NoDanglingStep DEF HeapInv
<1>6. QED  BY <1>1, <1>2, <1>3, <1>4, <1>5 DEF HeapInv

THEOREM HeapInvariant == Spec => []HeapInv
<1>1. Init => HeapInv
  BY InitHolds DEF HeapInv
<1>2. QED  BY <1>1, HeapInvStep, PTL DEF Spec

(* Every variable keeps its type: in particular no counter goes below zero *)
(* and the threshold never reaches 0, which would collect on every call.   *)
THEOREM TypeCorrect == Spec => []TypeOK
<1>1. HeapInv => TypeOK  BY DEF HeapInv
<1>2. QED  BY <1>1, HeapInvariant, PTL

(* No node that the client can still reach is ever freed.                  *)
THEOREM NoDanglingReferences == Spec => []NoDangling
<1>1. HeapInv => NoDangling  BY DEF HeapInv
<1>2. QED  BY <1>1, HeapInvariant, PTL

(* allocated = reclaimed + live, and peakLive lies between live and        *)
(* allocated, after any number of collections.                             *)
THEOREM CountersAgree == Spec => []Accounting
<1>1. HeapInv => Accounting  BY DEF HeapInv, CountingInv
<1>2. QED  BY <1>1, HeapInvariant, PTL

(* No RootScope destructor drops the roots of an enclosing scope.          *)
THEOREM ScopesStayNested == Spec => []ScopesNested
<1>1. HeapInv => ScopesNested  BY DEF HeapInv
<1>2. QED  BY <1>1, HeapInvariant, PTL

(* An automatic collection needs the heap to have more than doubled.       *)
THEOREM CollectionsAreAmortised == Spec => GrowthBeforeCollection
<1>1. HeapInv /\ [Next]_vars => [MaybeCollectRoots => LiveCount > 2 * survivors]_vars
  <2> SUFFICES ASSUME HeapInv, MaybeCollectRoots PROVE LiveCount > 2 * survivors
    OBVIOUS
  <2>1. LiveCount \in Nat
    BY FS_CardinalityType DEF HeapInv, CountingInv, LiveCount
  <2>2. LiveCount >= nextThreshold /\ nextThreshold >= 2 * survivors + 1
    BY DEF HeapInv, ThresholdInv, MaybeCollectRoots, CollectionDue
  <2>3. QED  BY <2>1, <2>2 DEF HeapInv, TypeOK
<1>2. QED  BY <1>1, HeapInvariant, PTL DEF Spec, GrowthBeforeCollection
=============================================================================
