------------------------------ MODULE Workspace ------------------------------
(***************************************************************************)
(* The files of a Kyna project that several `ky` processes share: the      *)
(* sources, the manifest kyna.toml and the lock file kyna.lock.  A file's  *)
(* modification time is the value of clock when it was last written, so no *)
(* two writes carry the same time.                                         *)
(***************************************************************************)
EXTENDS Naturals, FiniteSets

CONSTANTS
    Modules,    \* the module files of the project
    Shapes,     \* the types a module may give its exported member
    Gone,       \* a module that no longer exports the member
    Versions,   \* Versions[m]: what may be saved in m, see Text
    MaxSaves,   \* bound: no source is saved after this many writes
    MaxWrites   \* bound: how many times the project's files are written

ASSUME WorkspaceAssumption ==
    /\ IsFiniteSet(Modules)
    /\ Gone \notin Shapes
    /\ Versions \in [Modules -> SUBSET [offers : Shapes \union {Gone}, needs : Shapes]]
    /\ MaxSaves \in Nat /\ MaxWrites \in Nat /\ MaxSaves =< MaxWrites

VARIABLES
    files,      \* files[m]: what the module file m holds
    manifest,   \* [stamp, deps]: kyna.toml
    lock,       \* [stamp, entries]: kyna.lock
    clock       \* the time of the last write

workspaceVars == <<files, manifest, lock, clock>>

(* A module's text, as far as its importers and its own check tell texts   *)
(* apart: what it exports, and the type it expects of what it imports.     *)
Text == [stamp : 0 .. MaxWrites, offers : Shapes \union {Gone}, needs : Shapes]

Saved(v, time) == [stamp |-> time, offers |-> v.offers, needs |-> v.needs]

(* The developer saves one module in an editor.                            *)
SaveSource(m) ==
    /\ clock < MaxSaves
    /\ clock' = clock + 1
    /\ \E v \in Versions[m] : files' = [files EXCEPT ![m] = Saved(v, clock + 1)]
    /\ UNCHANGED <<manifest, lock>>
=============================================================================
