---------------------------- MODULE ManagedHeap ----------------------------
(***************************************************************************)
(* The tracing heap of the Kyna runtime (class Heap, tracing_heap.hpp and  *)
(* managed_heap.cpp) under an arbitrary client.                            *)
(*                                                                         *)
(* A node is either managed (Object, Array, VmCaptureCell, VmClosure,      *)
(* VmBoundMethod, ErrorObject: owned by the heap, freed by the sweep) or   *)
(* hosted (Environment, Function, Class, ModuleNamespace: owned by         *)
(* shared_ptr, traversed by the marking and never freed by it).  A managed *)
(* name stands for an address: once freed it may be allocated again, so a  *)
(* reference that outlives its target is a real dangling pointer.          *)
(*                                                                         *)
(* A collection is one atomic step here; HeapMarking refines it into the   *)
(* worklist loop of Heap::collectRoots.                                    *)
(***************************************************************************)
EXTENDS Integers, FiniteSets, Sequences

CONSTANTS
  Managed,           \* addresses the heap can hand out
  Hosted,            \* nodes owned by shared_ptr
  NoRef,             \* a Value that is no reference (null, number, string)
  InitialThreshold,  \* the default of minimumThreshold (256 in the code)
  Thresholds,        \* arguments given to setThreshold
  MaxAllocations,    \* bound: allocations in one behaviour
  MaxEdges,          \* bound: references stored in one node
  MaxProtected,      \* bound: temporary roots alive at once
  MaxScopes          \* bound: RootScopes alive at once

ASSUME HeapAssumption ==
  /\ Managed \cap Hosted = {}
  /\ NoRef \notin Managed \cup Hosted
  /\ InitialThreshold \in Nat \ {0}
  /\ Thresholds \subseteq Nat
  /\ MaxAllocations \in Nat
  /\ MaxEdges \in Nat
  /\ MaxProtected \in Nat
  /\ MaxScopes \in Nat

VARIABLES
  live,              \* managed nodes in the six storage vectors
  edges,             \* references held by each node
  roots,             \* nodes the client passes to a collection
  temporaryRoots,    \* contents of the Values registered by protect()
  scopes,            \* firstRoot of every open RootScope, outermost first
  allocatedCount,
  reclaimedCount,
  peakLiveCount,
  minimumThreshold,
  nextThreshold,
  survivors          \* history: live nodes when nextThreshold was last derived

clientVars == <<roots, temporaryRoots, scopes>>
vars == <<live, edges, clientVars, allocatedCount, reclaimedCount,
          peakLiveCount, minimumThreshold, nextThreshold, survivors>>

Node == Managed \cup Hosted

Larger(a, b) == IF a >= b THEN a ELSE b

(***************************************************************************)
(* What the marking must reach: the nodes that belong to every set that    *)
(* contains the roots and is closed under the references of its members.   *)
(***************************************************************************)
Closed(graph, S) == \A n \in S : graph[n] \subseteq S

Reachable(graph, from) ==
  {n \in Node : \A S \in SUBSET Node : from \subseteq S /\ Closed(graph, S) => n \in S}

Protected == {temporaryRoots[i] : i \in DOMAIN temporaryRoots} \ {NoRef}

RootSet == roots \cup Protected

LiveCount == Cardinality(live)
-----------------------------------------------------------------------------
Init ==
  /\ live = {}
  /\ edges = [n \in Node |-> {}]
  /\ roots \in {{}} \cup {{h} : h \in Hosted}  \* the global environment, if any
  /\ temporaryRoots = <<>>
  /\ scopes = <<>>
  /\ allocatedCount = 0
  /\ reclaimedCount = 0
  /\ peakLiveCount = 0
  /\ minimumThreshold = InitialThreshold
  /\ nextThreshold = InitialThreshold
  /\ survivors = 0

(* allocate, allocateArray, allocateCaptureCell, allocateClosure,          *)
(* allocateBoundMethod, allocateError: the new node starts with references *)
(* the client already holds, and the client stores it where it will pass   *)
(* it as a root.  No allocation collects.                                  *)
Allocate(new, refs) ==
  /\ allocatedCount < MaxAllocations
  /\ new \in Managed \ live
  /\ refs \subseteq RootSet /\ Cardinality(refs) <= MaxEdges
  /\ live' = live \cup {new}
  /\ edges' = [edges EXCEPT ![new] = refs]
  /\ roots' = roots \cup {new}
  /\ allocatedCount' = allocatedCount + 1
  /\ peakLiveCount' = Larger(peakLiveCount, Cardinality(live'))
  /\ UNCHANGED <<temporaryRoots, scopes, reclaimedCount, minimumThreshold,
                 nextThreshold, survivors>>

(* Mutations of Sweep: the counter is overwritten instead of advanced, the *)
(* threshold grows by one node instead of doubling.                        *)
SweepResetsReclaimed(marked) ==
  /\ live' = live \cap marked
  /\ edges' = [n \in Node |-> IF n \in Managed \ live' THEN {} ELSE edges[n]]
  /\ reclaimedCount' = LiveCount - Cardinality(live')
  /\ nextThreshold' = Larger(minimumThreshold, Cardinality(live') * 2 + 1)
  /\ survivors' = Cardinality(live')
  /\ UNCHANGED <<clientVars, allocatedCount, peakLiveCount, minimumThreshold>>

SweepGrowsByOne(marked) ==
  /\ live' = live \cap marked
  /\ edges' = [n \in Node |-> IF n \in Managed \ live' THEN {} ELSE edges[n]]
  /\ reclaimedCount' = reclaimedCount + (LiveCount - Cardinality(live'))
  /\ nextThreshold' = Larger(minimumThreshold, Cardinality(live') + 1)
  /\ survivors' = Cardinality(live')
  /\ UNCHANGED <<clientVars, allocatedCount, peakLiveCount, minimumThreshold>>

(* A sweep keeps the marked nodes of every storage vector, counts what it  *)
(* freed and derives the next threshold from what survived.                *)
Sweep(marked) ==
  /\ live' = live \cap marked
  /\ edges' = [n \in Node |-> IF n \in Managed \ live' THEN {} ELSE edges[n]]
  /\ reclaimedCount' = reclaimedCount + (LiveCount - Cardinality(live'))
  /\ nextThreshold' = Larger(minimumThreshold, Cardinality(live') * 2 + 1)
  /\ survivors' = Cardinality(live')
  /\ UNCHANGED <<clientVars, allocatedCount, peakLiveCount, minimumThreshold>>

(* Mutation of CollectRoots: protected Values are forgotten.               *)
CollectWithoutTemporaryRoots == Sweep(Reachable(edges, roots))

(* collect, collectRoots                                                   *)
CollectRoots == Sweep(Reachable(edges, RootSet))

(* maybeCollect, maybeCollectRoots                                         *)
CollectionDue == LiveCount >= nextThreshold

MaybeCollectRoots == CollectionDue /\ CollectRoots

SetThreshold(threshold) ==
  /\ minimumThreshold' = Larger(1, threshold)
  /\ nextThreshold' = minimumThreshold'
  /\ survivors' = 0
  /\ UNCHANGED <<live, edges, clientVars, allocatedCount, reclaimedCount, peakLiveCount>>

(* RootScope: the constructor remembers the number of temporary roots,     *)
(* protect registers one more Value, the owner of a protected Value may    *)
(* assign to it, and the destructor forgets what was registered since.     *)
OpenScope ==
  /\ Len(scopes) < MaxScopes
  /\ scopes' = Append(scopes, Len(temporaryRoots))
  /\ UNCHANGED <<live, edges, roots, temporaryRoots, allocatedCount, reclaimedCount,
                 peakLiveCount, minimumThreshold, nextThreshold, survivors>>

Protect(value) ==
  /\ scopes # <<>>
  /\ Len(temporaryRoots) < MaxProtected
  /\ value \in RootSet \cup {NoRef}
  /\ temporaryRoots' = Append(temporaryRoots, value)
  /\ UNCHANGED <<live, edges, roots, scopes, allocatedCount, reclaimedCount,
                 peakLiveCount, minimumThreshold, nextThreshold, survivors>>

AssignProtected(i, value) ==
  /\ i \in DOMAIN temporaryRoots
  /\ value \in RootSet \cup {NoRef}
  /\ temporaryRoots' = [temporaryRoots EXCEPT ![i] = value]
  /\ UNCHANGED <<live, edges, roots, scopes, allocatedCount, reclaimedCount,
                 peakLiveCount, minimumThreshold, nextThreshold, survivors>>

(* Mutation of CloseScope: the scope opened first is closed first, as when *)
(* a RootScope outlives the block it was opened in.                        *)
CloseOuterScope ==
  /\ scopes # <<>>
  /\ temporaryRoots' = SubSeq(temporaryRoots, 1, Head(scopes))
  /\ scopes' = Tail(scopes)
  /\ UNCHANGED <<live, edges, roots, allocatedCount, reclaimedCount,
                 peakLiveCount, minimumThreshold, nextThreshold, survivors>>

CloseScope ==
  /\ scopes # <<>>
  /\ temporaryRoots' = SubSeq(temporaryRoots, 1, scopes[Len(scopes)])
  /\ scopes' = SubSeq(scopes, 1, Len(scopes) - 1)
  /\ UNCHANGED <<live, edges, roots, allocatedCount, reclaimedCount,
                 peakLiveCount, minimumThreshold, nextThreshold, survivors>>

(* The client's own steps: read a reference out of a node it holds, write  *)
(* references it holds into such a node, forget a reference, and make a    *)
(* new hosted node (an environment for a call, a function, a class).       *)
heapBookkeeping == <<allocatedCount, reclaimedCount, peakLiveCount,
                     minimumThreshold, nextThreshold, survivors>>

Load(from, value) ==
  /\ from \in RootSet
  /\ value \in edges[from]
  /\ roots' = roots \cup {value}
  /\ UNCHANGED <<live, edges, temporaryRoots, scopes, heapBookkeeping>>

Store(into, refs) ==
  /\ into \in RootSet
  /\ refs \subseteq RootSet /\ Cardinality(refs) <= MaxEdges
  /\ edges' = [edges EXCEPT ![into] = refs]
  /\ UNCHANGED <<live, clientVars, heapBookkeeping>>

Drop(value) ==
  /\ value \in roots
  /\ roots' = roots \ {value}
  /\ UNCHANGED <<live, edges, temporaryRoots, scopes, heapBookkeeping>>

NewHosted(host) ==
  /\ host \in Hosted \ Reachable(edges, RootSet)
  /\ edges' = [edges EXCEPT ![host] = {}]
  /\ roots' = roots \cup {host}
  /\ UNCHANGED <<live, temporaryRoots, scopes, heapBookkeeping>>

Client ==
  \/ \E new \in Managed, refs \in SUBSET RootSet : Allocate(new, refs)
  \/ \E t \in Thresholds : SetThreshold(t)
  \/ OpenScope
  \/ \E v \in Node \cup {NoRef} : Protect(v)
  \/ \E i \in DOMAIN temporaryRoots, v \in Node \cup {NoRef} : AssignProtected(i, v)
  \/ CloseScope
  \/ \E from \in Node, value \in Node : Load(from, value)
  \/ \E into \in Node, refs \in SUBSET RootSet : Store(into, refs)
  \/ \E v \in Node : Drop(v)
  \/ \E h \in Hosted : NewHosted(h)

Next ==
  \/ Client
  \/ MaybeCollectRoots
  \/ CollectRoots

Spec == Init /\ [][Next]_vars
-----------------------------------------------------------------------------
TypeOK ==
  /\ live \subseteq Managed
  /\ edges \in [Node -> SUBSET Node]
  /\ roots \subseteq Node
  /\ temporaryRoots \in Seq(Node \cup {NoRef})
  /\ scopes \in Seq(Nat)
  /\ allocatedCount \in 0..MaxAllocations
  /\ reclaimedCount \in Nat
  /\ peakLiveCount \in Nat
  /\ minimumThreshold \in Nat \ {0}
  /\ nextThreshold \in Nat \ {0}
  /\ survivors \in Nat

(* No dangling reference: whatever the client can reach from the roots it  *)
(* passes and from the Values it protected is still stored in the heap,    *)
(* after any number of collections and of reuses of freed addresses.       *)
NoDangling == Reachable(edges, RootSet) \cap Managed \subseteq live

(* The counters of HeapStats agree with the storage vectors: every node    *)
(* ever allocated is live or was counted as reclaimed by exactly one       *)
(* collection, and peakLive bounds the live size from above.               *)
Accounting ==
  /\ allocatedCount = reclaimedCount + LiveCount
  /\ LiveCount <= peakLiveCount
  /\ peakLiveCount <= allocatedCount

(* RootScopes nest: an inner scope never starts below an outer one and no  *)
(* scope starts above the end of temporaryRoots, so that no destructor can *)
(* drop a root that belongs to a scope opened before it.                   *)
ScopesNested ==
  /\ \A i \in DOMAIN scopes : scopes[i] <= Len(temporaryRoots)
  /\ \A i, j \in DOMAIN scopes : i <= j => scopes[i] <= scopes[j]

(* The growth policy of collectRoots: unless setThreshold intervenes, an   *)
(* automatic collection happens only after the heap has more than doubled  *)
(* since the last one, so that marking is paid for by allocation.          *)
GrowthBeforeCollection == [][MaybeCollectRoots => LiveCount > 2 * survivors]_vars
=============================================================================
