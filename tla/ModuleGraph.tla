---------------------------- MODULE ModuleGraph ----------------------------
(***************************************************************************)
(* GraphLoader (filesystem_module_loader.cpp): depth-first loading of the  *)
(* modules a program imports.  A unit is a source file or a directory      *)
(* package; visit and ingestDirectoryPackage call each other recursively,  *)
(* and the stack of those calls is explicit here, one frame per unit being *)
(* loaded with a cursor into its sources and their imports.                *)
(*                                                                         *)
(* Paths are canonical already (resolveModulePath), a file is the list of  *)
(* its imports, and a diagnostic is its code.  Those of the lexer and the  *)
(* parser are left out: they do not change what is loaded.                 *)
(***************************************************************************)
EXTENDS Naturals, Sequences, FiniteSets

CONSTANTS
  Files,         \* source files
  Packages,      \* directories
  Missing,       \* what an import resolves to when nothing exists there
  Aliases,       \* names imports are bound to
  Members,       \* the sources of each package, tests left out, in order
  Unreadable,    \* files that exist but cannot be loaded
  Allowed,       \* <<file, unit>> pairs the rule for internal packages lets pass
  Tables,        \* the imports of every file: candidates for one program
  Entries        \* what ky may be asked to load

Unit == Files \cup Packages
Import == [alias : Aliases, target : Unit \cup {Missing}]

ASSUME GraphAssumption ==
  /\ Files \cap Packages = {}
  /\ Missing \notin Unit
  /\ Members \in [Packages -> Seq(Files)]
  /\ Unreadable \subseteq Files
  /\ Tables \subseteq [Files -> Seq(Import)]
  /\ Entries \subseteq Unit

VARIABLES
  imports,       \* the imports of every file of this program
  entry,         \* what is loaded
  state,         \* 0 not seen, 1 being loaded, 2 loaded
  stack,         \* calls in progress, outermost first
  modules,       \* dependencies of every loaded unit
  order,         \* initializationOrder
  diagnostics,
  started

vars == <<imports, entry, state, stack, modules, order, diagnostics, started>>

Sources(u) == IF u \in Packages THEN Members[u] ELSE <<u>>
Siblings(u) ==
  IF u \in Packages THEN {u} \cup {Members[u][i] : i \in DOMAIN Members[u]} ELSE {}
Ordered == {order[i] : i \in DOMAIN order}

(* A file unit was read before its frame exists; the sources of a package  *)
(* are read one by one, cursor 0 being a source that is not open yet.      *)
NewFrame(u) ==
  [unit |-> u, file |-> 1, next |-> IF u \in Packages THEN 0 ELSE 1,
   aliases |-> {}, dependencies |-> {}]

Top == stack[Len(stack)]
File == Sources(Top.unit)[Top.file]
Replaced(frame) == [stack EXCEPT ![Len(stack)] = frame]
Moved == [Top EXCEPT !.next = @ + 1]
Report(codes) == diagnostics' = diagnostics \cup codes
-----------------------------------------------------------------------------
Init ==
  /\ imports \in Tables
  /\ entry \in Entries
  /\ state = [u \in Unit |-> 0]
  /\ stack = <<>>
  /\ modules = [u \in Unit |-> {}]
  /\ order = <<>>
  /\ diagnostics = {}
  /\ started = FALSE

Loadable(u) == IF u \in Packages THEN Members[u] # <<>> ELSE u \notin Unreadable

(* Mutation: any unit seen before counts as a cycle.                       *)
VisitOnce(u, callers) ==
  /\ stack' = IF state[u] = 0 /\ Loadable(u)
              THEN Append(callers, NewFrame(u)) ELSE callers
  /\ state' = [state EXCEPT ![u] = IF @ = 0 /\ Loadable(u) THEN 1 ELSE @]
  /\ Report(IF state[u] # 0 THEN {"K4002"}
            ELSE IF Loadable(u) THEN {} ELSE {"K4000"})

(* visit, ingestDirectoryPackage up to the first source; callers is the    *)
(* stack of the call.                                                      *)
Visit(u, callers) ==
  \/ /\ state[u] = 2
     /\ stack' = callers
     /\ UNCHANGED <<state, diagnostics>>
  \/ /\ state[u] = 1
     /\ stack' = callers
     /\ Report({"K4002"})
     /\ UNCHANGED state
  \/ /\ state[u] = 0 /\ ~Loadable(u)
     /\ stack' = callers
     /\ Report({"K4000"})
     /\ UNCHANGED state
  \/ /\ state[u] = 0 /\ Loadable(u)
     /\ stack' = Append(callers, NewFrame(u))
     /\ state' = [state EXCEPT ![u] = 1]
     /\ UNCHANGED diagnostics

Load ==
  /\ ~started
  /\ started' = TRUE
  /\ Visit(entry, stack)
  /\ UNCHANGED <<imports, entry, modules, order>>

(* Mutation: continue without the next source.                             *)
OpenMemberAgain ==
  /\ stack # <<>> /\ Top.next = 0 /\ Top.file <= Len(Sources(Top.unit))
  /\ stack' = IF File \in Unreadable THEN stack ELSE Replaced(Moved)
  /\ Report(IF File \in Unreadable THEN {"K4000"} ELSE {})
  /\ UNCHANGED <<imports, entry, state, modules, order, started>>

(* The next source of a package.                                           *)
OpenMember ==
  /\ stack # <<>> /\ Top.next = 0 /\ Top.file <= Len(Sources(Top.unit))
  /\ IF File \in Unreadable
     THEN /\ stack' = Replaced([Top EXCEPT !.file = @ + 1])
          /\ Report({"K4000"})
     ELSE /\ stack' = Replaced(Moved)
          /\ UNCHANGED diagnostics
  /\ UNCHANGED <<imports, entry, state, modules, order, started>>

AtImport ==
  /\ stack # <<>> /\ Top.file <= Len(Sources(Top.unit))
  /\ Top.next \in DOMAIN imports[File]
Current == imports[File][Top.next]
Named == [Moved EXCEPT !.aliases = @ \cup {Current.alias}]

(* The early exits of an import, in the order of the code.                 *)
DuplicateAlias == Current.alias \in Top.aliases
Unresolved == ~DuplicateAlias /\ Current.target = Missing
Sibling == ~DuplicateAlias /\ ~Unresolved /\ Current.target \in Siblings(Top.unit)
NotAllowed ==
  /\ ~DuplicateAlias /\ ~Unresolved /\ ~Sibling
  /\ <<File, Current.target>> \notin Allowed

SkipImport ==
  /\ AtImport
  /\ \/ DuplicateAlias /\ Report({"K4003"})
     \/ Unresolved /\ Report({"K4001"})
     \/ Sibling /\ UNCHANGED diagnostics
     \/ NotAllowed /\ Report({"KSEM1042"})
  /\ stack' = Replaced(Named)
  /\ UNCHANGED <<imports, entry, state, modules, order, started>>

Depend ==
  /\ AtImport
  /\ ~DuplicateAlias /\ ~Unresolved /\ ~Sibling /\ ~NotAllowed
  /\ Visit(Current.target,
           Replaced([Named EXCEPT !.dependencies = @ \cup {Current.target}]))
  /\ UNCHANGED <<imports, entry, modules, order, started>>

(* Mutation: the last import is not looked at.                             *)
CloseSourceEarly ==
  /\ stack # <<>> /\ Top.file <= Len(Sources(Top.unit))
  /\ Top.next > 0 /\ Top.next >= Len(imports[File])
  /\ stack' = Replaced([Top EXCEPT !.file = @ + 1, !.next = 0])
  /\ UNCHANGED <<imports, entry, state, modules, order, diagnostics, started>>

CloseSource ==
  /\ stack # <<>> /\ Top.file <= Len(Sources(Top.unit))
  /\ Top.next > Len(imports[File])
  /\ stack' = Replaced([Top EXCEPT !.file = @ + 1, !.next = 0])
  /\ UNCHANGED <<imports, entry, state, modules, order, diagnostics, started>>

(* Mutation: a finished unit goes to the front of the order.               *)
FinishInFront ==
  /\ stack # <<>> /\ Top.file > Len(Sources(Top.unit))
  /\ stack' = SubSeq(stack, 1, Len(stack) - 1)
  /\ state' = [state EXCEPT ![Top.unit] = 2]
  /\ modules' = [modules EXCEPT ![Top.unit] = Top.dependencies]
  /\ order' = <<Top.unit>> \o order
  /\ UNCHANGED <<imports, entry, diagnostics, started>>

(* Mutation: the unit keeps the mark of one being loaded.                  *)
FinishKeepsMark ==
  /\ stack # <<>> /\ Top.file > Len(Sources(Top.unit))
  /\ stack' = SubSeq(stack, 1, Len(stack) - 1)
  /\ modules' = [modules EXCEPT ![Top.unit] = Top.dependencies]
  /\ order' = Append(order, Top.unit)
  /\ UNCHANGED <<imports, entry, state, diagnostics, started>>

Finish ==
  /\ stack # <<>> /\ Top.file > Len(Sources(Top.unit))
  /\ stack' = SubSeq(stack, 1, Len(stack) - 1)
  /\ state' = [state EXCEPT ![Top.unit] = 2]
  /\ modules' = [modules EXCEPT ![Top.unit] = Top.dependencies]
  /\ order' = Append(order, Top.unit)
  /\ UNCHANGED <<imports, entry, diagnostics, started>>

Next == Load \/ OpenMember \/ SkipImport \/ Depend \/ CloseSource \/ Finish

(* The loader is sequential code that nothing preempts.                    *)
Spec == Init /\ [][Next]_vars /\ WF_vars(Next)

Done == started /\ stack = <<>>
-----------------------------------------------------------------------------
Frame ==
  [unit : Unit, file : Nat \ {0}, next : Nat, aliases : SUBSET Aliases,
   dependencies : SUBSET Unit]

TypeOK ==
  /\ imports \in [Files -> Seq(Import)] /\ entry \in Unit
  /\ state \in [Unit -> 0..2]
  /\ stack \in Seq(Frame)
  /\ modules \in [Unit -> SUBSET Unit]
  /\ order \in Seq(Unit)
  /\ diagnostics \subseteq {"K4000", "K4001", "K4002", "K4003", "KSEM1042"}
  /\ started \in BOOLEAN

(* The marks tell a cycle from a diamond: a unit is marked as being loaded *)
(* exactly while a call for it is in progress, and as loaded exactly when  *)
(* it is in the order; and every call in progress was made for a           *)
(* dependency of the one below, so that the chain a cycle report prints is *)
(* one of imports.                                                         *)
StackMatchesStates ==
  /\ \A u \in Unit : state[u] = 1 <=> \E i \in DOMAIN stack : stack[i].unit = u
  /\ \A i, j \in DOMAIN stack : stack[i].unit = stack[j].unit => i = j
  /\ \A u \in Unit : state[u] = 2 <=> u \in Ordered
  /\ \A i, j \in DOMAIN order : order[i] = order[j] => i = j
  /\ \A i \in DOMAIN stack : i > 1 => stack[i].unit \in stack[i - 1].dependencies

(* Modules are initialized after what they import: a dependency of a       *)
(* loaded unit is earlier in the order, unless it cannot be loaded or is   *)
(* part of a cycle, which are reported; with a report nothing runs.        *)
DependenciesFirst ==
  \A i \in DOMAIN order : \A d \in modules[order[i]] :
    \/ \E j \in DOMAIN order : j < i /\ order[j] = d
    \/ ~Loadable(d) /\ "K4000" \in diagnostics
    \/ "K4002" \in diagnostics

(* What the program as written asks for, whatever the loader did.          *)
Targets(file) == {imports[file][k].target : k \in DOMAIN imports[file]}
Requested(u) == (UNION {Targets(Sources(u)[i]) : i \in DOMAIN Sources(u)}) \ Siblings(u)
(* The units the entry needs: the least set that has the entry and is      *)
(* closed under requests.                                                  *)
Closed(units) == \A u \in units : Requested(u) \cap Unit \subseteq units
Reachable ==
  LET closed == {units \in SUBSET Unit : entry \in units /\ Closed(units)}
  IN {u \in Unit : \A units \in closed : u \in units}

(* A load without a report has loaded what the entry needs, all of it and  *)
(* nothing else, and knows the imports of each module.                     *)
LoadsReachable ==
  Done /\ diagnostics = {} =>
    /\ Ordered = Reachable
    /\ \A u \in Ordered : modules[u] = Requested(u)

(* docs/modules.md: cycles are diagnosed.  A cycle is reported only if     *)
(* some unit imports itself, directly or not, never for a diamond, and no  *)
(* cycle passes unreported.  (Finitely many units have a cycle among them  *)
(* just when some of them each request another of these.)                  *)
Tangled(units) == units # {} /\ \A u \in units : Requested(u) \cap units # {}
CyclesReported ==
  Done => /\ "K4002" \in diagnostics => \E units \in SUBSET Reachable : Tangled(units)
          /\ diagnostics = {} => ~\E units \in SUBSET Reachable : Tangled(units)

(* docs/modules.md: one source file defines a module identity, and modules *)
(* are initialized once; so no file is a source of two loaded units.       *)
FilesLoadedOnce ==
  \A u, v \in Ordered : \A i \in DOMAIN Sources(u), j \in DOMAIN Sources(v) :
    Sources(u)[i] = Sources(v)[j] => u = v

(* However the imports are tangled, the loader comes to an end: nothing    *)
(* but the marks stops the mutual recursion of visit and                   *)
(* ingestDirectoryPackage.                                                 *)
Ends == <>Done

(* Why it does, step by step: no unit is forgotten that was seen, and      *)
(* unless a new one is, a call returns or the running call reads on, of    *)
(* its finitely many sources and their imports.  With finitely many units  *)
(* no load takes such steps for ever, not even one that reports cycles.    *)
Unseen == {u \in Unit : state[u] = 0}
ReadsOn ==
  /\ Len(stack') = Len(stack) /\ stack # <<>> /\ Top'.unit = Top.unit
  /\ Top.file <= Len(Sources(Top.unit))
  /\ \/ Top'.file > Top.file
     \/ /\ Top'.file = Top.file /\ Top'.next > Top.next
        /\ Top.next <= Len(imports[File])
Approaches ==
  /\ imports' = imports /\ started' /\ Unseen' \subseteq Unseen
  /\ ~started \/ Unseen' # Unseen \/ Len(stack') < Len(stack) \/ ReadsOn
ApproachesEnd == [][Approaches]_vars
=============================================================================
