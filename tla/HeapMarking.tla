---------------------------- MODULE HeapMarking ----------------------------
(***************************************************************************)
(* Heap::collectRoots step by step: the roots are put on three worklists,  *)
(* the worklists are drained in a fixed order, and the storage vectors are *)
(* swept against the mark sets.  The client of the heap does not run       *)
(* between the first and the last of these steps (one thread).             *)
(*                                                                         *)
(* The kind of a node decides which worklist a reference to it goes to.    *)
(* A worklist is a set here: the code's deques may hold a node twice, the  *)
(* second one is popped and skipped, and no property depends on the order  *)
(* in which one worklist is drained.                                       *)
(*                                                                         *)
(* Heap is the atomic collector that this one implements.                  *)
(***************************************************************************)
EXTENDS Integers, FiniteSets, Sequences

CONSTANTS
  Objects,       \* Object, Array, VmClosure, VmBoundMethod, ErrorObject
  CaptureCells,  \* VmCaptureCell
  Environments,  \* Environment
  HostValues,    \* Function, Class, ModuleNamespace
  NoRef, InitialThreshold, Thresholds, MaxAllocations, MaxEdges, MaxProtected, MaxScopes

VARIABLES
  live, edges, roots, temporaryRoots, scopes, allocatedCount, reclaimedCount,
  peakLiveCount, minimumThreshold, nextThreshold, survivors,
  phase,                \* "idle", or "marking" inside collectRoots
  pendingEnvironments,
  pendingCaptureCells,
  pendingValues,
  marked                \* the union of the mark sets

Heap == INSTANCE ManagedHeap WITH Managed <- Objects \cup CaptureCells,
                                  Hosted <- Environments \cup HostValues

ASSUME MarkingAssumption ==
  /\ Heap!HeapAssumption
  /\ Objects \cap CaptureCells = {}
  /\ Environments \cap HostValues = {}

markVars == <<phase, pendingEnvironments, pendingCaptureCells, pendingValues, marked>>
heapVars == <<live, edges, roots, temporaryRoots, scopes, allocatedCount, reclaimedCount,
              peakLiveCount, minimumThreshold, nextThreshold, survivors>>
vars == <<heapVars, markVars>>

Node == Heap!Node
Values == Objects \cup HostValues
Pending == pendingEnvironments \cup pendingCaptureCells \cup pendingValues

(* The references each kind of node has: variables and the enclosing       *)
(* environment; the boxed value; a closure's cells, fields, elements, a    *)
(* receiver or a cause; and for functions, classes and modules, bound      *)
(* receivers, static fields, methods and environments.                     *)
Targets(n) ==
  CASE n \in Environments -> Values \cup Environments
    [] n \in CaptureCells -> Values
    [] n \in Objects      -> Values \cup CaptureCells
    [] n \in HostValues   -> Values \cup Environments

WellKinded == \A n \in Node : edges[n] \subseteq Targets(n)

Init ==
  /\ Heap!Init
  /\ phase = "idle"
  /\ pendingEnvironments = {}
  /\ pendingCaptureCells = {}
  /\ pendingValues = {}
  /\ marked = {}

Mutate == phase = "idle" /\ Heap!Client /\ WellKinded' /\ UNCHANGED markVars

(* Mutation of Begin: protected Values are forgotten.                      *)
BeginWithoutTemporaryRoots(force) ==
  /\ phase = "idle"
  /\ force \/ Heap!CollectionDue
  /\ phase' = "marking"
  /\ pendingEnvironments' = roots \cap Environments
  /\ pendingCaptureCells' = roots \cap CaptureCells
  /\ pendingValues' = roots \cap Values
  /\ marked' = {}
  /\ UNCHANGED heapVars

(* Lines 83-94: every root, temporary roots included, is put on the        *)
(* worklist of its kind; maybeCollectRoots gets here only when it is due.  *)
Begin(force) ==
  /\ phase = "idle"
  /\ force \/ Heap!CollectionDue
  /\ phase' = "marking"
  /\ pendingEnvironments' = Heap!RootSet \cap Environments
  /\ pendingCaptureCells' = Heap!RootSet \cap CaptureCells
  /\ pendingValues' = Heap!RootSet \cap Values
  /\ marked' = {}
  /\ UNCHANGED heapVars

(* Mutations of Scan: an already marked node is scanned again, a closure's *)
(* cells are not followed.                                                 *)
ScanAgain(n) ==
  /\ pendingEnvironments' = (pendingEnvironments \ {n}) \cup (edges[n] \cap Environments)
  /\ pendingCaptureCells' = (pendingCaptureCells \ {n}) \cup (edges[n] \cap CaptureCells)
  /\ pendingValues' = (pendingValues \ {n}) \cup (edges[n] \cap Values)
  /\ marked' = marked \cup {n}
  /\ UNCHANGED <<phase, heapVars>>

ScanWithoutCells(n) ==
  LET refs == IF n \in marked THEN {} ELSE edges[n]
  IN  /\ pendingEnvironments' = (pendingEnvironments \ {n}) \cup (refs \cap Environments)
      /\ pendingCaptureCells' = pendingCaptureCells \ {n}
      /\ pendingValues' = (pendingValues \ {n}) \cup (refs \cap Values)
      /\ marked' = marked \cup {n}
      /\ UNCHANGED <<phase, heapVars>>

(* The worklists after n was popped and its references pushed, unless n    *)
(* had been marked before.                                                 *)
Scan(n) ==
  LET refs == IF n \in marked THEN {} ELSE edges[n]
  IN  /\ pendingEnvironments' = (pendingEnvironments \ {n}) \cup (refs \cap Environments)
      /\ pendingCaptureCells' = (pendingCaptureCells \ {n}) \cup (refs \cap CaptureCells)
      /\ pendingValues' = (pendingValues \ {n}) \cup (refs \cap Values)
      /\ marked' = marked \cup {n}
      /\ UNCHANGED <<phase, heapVars>>

PopEnvironment(e) == phase = "marking" /\ e \in pendingEnvironments /\ Scan(e)

PopCaptureCell(c) ==
  /\ phase = "marking" /\ pendingEnvironments = {}
  /\ c \in pendingCaptureCells
  /\ Scan(c)

PopValue(v) ==
  /\ phase = "marking" /\ pendingEnvironments = {} /\ pendingCaptureCells = {}
  /\ v \in pendingValues
  /\ Scan(v)

Finish ==
  /\ phase = "marking" /\ Pending = {}
  /\ Heap!Sweep(marked)
  /\ phase' = "idle"
  /\ marked' = {}
  /\ UNCHANGED <<pendingEnvironments, pendingCaptureCells, pendingValues>>

Collector ==
  \/ \E e \in Environments : PopEnvironment(e)
  \/ \E c \in CaptureCells : PopCaptureCell(c)
  \/ \E v \in Values : PopValue(v)
  \/ Finish

Next ==
  \/ Mutate
  \/ \E force \in BOOLEAN : Begin(force)
  \/ Collector

Spec == Init /\ [][Next]_vars

(* A collection runs to its end before anything else: the loop is plain    *)
(* sequential code.                                                        *)
FairSpec == Spec /\ WF_vars(Collector)
-----------------------------------------------------------------------------
(* The tri-colour invariant of the worklist loop: every root and every     *)
(* reference of a marked node is marked or still pending, and nothing is   *)
(* marked or pending that the roots do not reach.                          *)
MarkingInv ==
  phase = "marking" =>
    /\ Heap!RootSet \subseteq marked \cup Pending
    /\ \A n \in marked : edges[n] \subseteq marked \cup Pending
    /\ marked \cup Pending \subseteq Heap!Reachable(edges, Heap!RootSet)

(* The worklist collector implements the atomic one: it frees exactly the  *)
(* managed nodes that the roots do not reach, unreachable cycles and all,  *)
(* and keeps every other promise of ManagedHeap.                           *)
ImplementsManagedHeap == Heap!Spec

(* The loop ends on every graph, cyclic ones included.                     *)
CollectionEnds == phase = "marking" ~> phase = "idle"
=============================================================================
