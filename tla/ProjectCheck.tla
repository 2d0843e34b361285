----------------------------- MODULE ProjectCheck -----------------------------
(***************************************************************************)
(* `ky check`: a process reads the module graph of an entry, then analyses *)
(* the modules in initialization order.  The verdict on a module is        *)
(* remembered beside it, in a .kyc file that holds the size and time of    *)
(* the module's own source and of nothing else; a module whose stamp still *)
(* matches is skipped.  Several processes may check at once, sources may   *)
(* be saved at any time and a process may be interrupted between any two   *)
(* modules.                                                                *)
(***************************************************************************)
EXTENDS Workspace, Sequences

CONSTANTS
    Checkers,   \* the processes that may be checking at one time
    Entries,    \* the modules a check is started on
    Deps,       \* Deps[m]: the modules m imports
    Order,      \* Order[e]: the initialization order of the graph of entry e
    None        \* no stamp

ASSUME CheckAssumption ==
    /\ Entries \subseteq Modules
    /\ Deps \in [Modules -> SUBSET Modules]
    /\ Order \in [Entries -> Seq(Modules)]
    /\ None \notin 0 .. MaxWrites

(* What the loader promises of an order: every module of the graph once,   *)
(* after all that it imports, the entry last (ModuleGraph is its subject;  *)
(* a graph with a cycle is an error and nothing is analysed).              *)
ASSUME OrderAssumption ==
    \A e \in Entries :
        /\ Order[e] # <<>> /\ Order[e][Len(Order[e])] = e
        /\ \A i, j \in DOMAIN Order[e] : Order[e][i] = Order[e][j] => i = j
        /\ \A i \in DOMAIN Order[e] :
              \A d \in Deps[Order[e][i]] : \E j \in 1 .. i - 1 : Order[e][j] = d

VARIABLES
    stamps,     \* stamps[m]: the time recorded in m's .kyc file
    check,      \* check[p]: the state of the process p
    exposed     \* history: modules whose stamp may vouch for a stale verdict

checkVars == <<stamps, check, exposed>>

Idle == [phase |-> "idle"]

StampOf(m) == files[m].stamp

Graph(e) == {Order[e][i] : i \in DOMAIN Order[e]}

(* A named import of a member that the loaded dependency does not export.  *)
(* It is looked for in every module, skipped or not.                       *)
MissingImport(m, loaded) == \E d \in Deps[m] : loaded[d].offers = Gone

(* The analyzer's verdict on m against the loaded texts of what it imports *)
Accepts(m, loaded) == \A d \in Deps[m] : loaded[d].offers = loaded[m].needs

(* stampMatches: the .kyc file exists and repeats the source's time.       *)
StampMatches(m) == stamps[m] = StampOf(m)

(* The process loads every module of the graph.  The loader's own steps    *)
(* are the subject of ModuleGraph; here the graph is read at one instant.  *)
StartCheck(p, e) ==
    /\ check[p].phase = "idle"
    /\ check' = [check EXCEPT ![p] =
                    [phase |-> "analysing", entry |-> e, pos |-> 1,
                     loaded |-> [m \in Graph(e) |-> files[m]],
                     rechecked |-> {}, blind |-> {}, failed |-> FALSE]]
    /\ UNCHANGED <<workspaceVars, stamps, exposed>>

Current(p) == Order[check[p].entry][check[p].pos]

(* Mutation: a re-analysed dependency does not force its importers.        *)
SkippableAlone(p) ==
    LET m == Current(p) IN
    /\ m # check[p].entry
    /\ StampMatches(m)

Skippable(p) ==
    LET m == Current(p) IN
    /\ m # check[p].entry
    /\ Deps[m] \intersect check[p].rechecked = {}
    /\ StampMatches(m)

Advance(c, m) ==
    [c EXCEPT !.pos = @ + 1,
              !.failed = @ \/ MissingImport(m, c.loaded),
              !.phase = IF c.pos = Len(Order[c.entry]) THEN "done" ELSE @]

(* The stamp is taken from the disk now, whatever text was analysed; when  *)
(* they differ, or a dependency was saved since, the stamp vouches for     *)
(* what was not checked.                                                   *)
Vouched(p, m) ==
    \A n \in {m} \union Deps[m] : check[p].loaded[n].stamp = StampOf(n)

(* Importers of modules the process analysed again that it has not come    *)
(* to: they were checked, if at all, against the former text.              *)
PassedOver(p) ==
    IF check[p].phase = "idle" THEN {}
    ELSE {i \in Modules \ check[p].rechecked :
             (Deps[i] \intersect check[p].rechecked) \ {check[p].entry} # {}}

Exposed(p) == exposed \union UNION {PassedOver(q) : q \in Checkers \ {p}}

(* blind, a history too: the modules skipped while they were exposed.      *)
SkipModule(p) ==
    LET m == Current(p) IN
    /\ check[p].phase = "analysing"
    /\ Skippable(p)
    /\ check' = [check EXCEPT ![p] =
                    [Advance(check[p], m) EXCEPT !.blind = @ \union (Exposed(p) \intersect {m})]]
    /\ UNCHANGED <<workspaceVars, stamps, exposed>>

AcceptModule(p) ==
    LET m == Current(p) IN
    /\ check[p].phase = "analysing"
    /\ ~Skippable(p)
    /\ Accepts(m, check[p].loaded)
    /\ stamps' = IF m = check[p].entry THEN stamps ELSE [stamps EXCEPT ![m] = StampOf(m)]
    /\ check' = [check EXCEPT ![p] =
                    [Advance(check[p], m) EXCEPT !.rechecked = @ \union {m}]]
    /\ exposed' = IF m = check[p].entry THEN exposed
                  ELSE IF Vouched(p, m) THEN exposed \ {m}
                  ELSE exposed \union {m} \union {i \in Modules : m \in Deps[i]}
    /\ UNCHANGED workspaceVars

(* A module that fails loses its stamp.                                    *)
RejectModule(p) ==
    LET m == Current(p) IN
    /\ check[p].phase = "analysing"
    /\ ~Skippable(p)
    /\ ~Accepts(m, check[p].loaded)
    /\ stamps' = [stamps EXCEPT ![m] = None]
    /\ check' = [check EXCEPT ![p] =
                    [Advance(check[p], m) EXCEPT !.rechecked = @ \union {m}, !.failed = TRUE]]
    /\ UNCHANGED <<workspaceVars, exposed>>

(* Ctrl-C, or a crash, between two modules.  The .kyc file being written   *)
(* may be left truncated, which reads as no stamp.                         *)
InterruptCheck(p) ==
    /\ check[p].phase = "analysing"
    /\ check' = [check EXCEPT ![p] = Idle]
    /\ stamps' \in {stamps, [stamps EXCEPT ![Current(p)] = None]}
    /\ exposed' = exposed \union PassedOver(p)
    /\ UNCHANGED workspaceVars

(* The process exits and its verdict is read.                              *)
EndCheck(p) ==
    /\ check[p].phase = "done"
    /\ check' = [check EXCEPT ![p] = Idle]
    /\ exposed' = exposed \union PassedOver(p)
    /\ UNCHANGED <<workspaceVars, stamps>>

CheckStep(p) == SkipModule(p) \/ AcceptModule(p) \/ RejectModule(p)

(***************************************************************************)
(* A verdict "no errors" on sources nobody has saved since they were read  *)
(* is the verdict of a check without any cache,                            *)
(* except at modules skipped while exposed: their stamp was taken for a text   *)
(* saved while they were being checked, or a dependency of theirs was      *)
(* stamped again by a process that did not come to them, because it was    *)
(* interrupted, is still running, or was started on another entry.  (A     *)
(* process that re-analyses a dependency and does come to the importers    *)
(* re-analyses them too, by rechecked.)                                    *)
(***************************************************************************)
OnlyExposedGoStale ==
    \A p \in Checkers :
        check[p].phase = "done" /\ ~check[p].failed =>
            \A m \in Graph(check[p].entry) :
                \/ Accepts(m, check[p].loaded)
                \/ ~Vouched(p, m)
                \/ m \in check[p].blind
=============================================================================
