------------------------------- MODULE Project -------------------------------
(***************************************************************************)
(* A developer at work on one project: sources are saved in an editor,     *)
(* `ky dev` runs in one terminal, checks and dependency commands are typed *)
(* in others, in any order.  To keep the product of all of it small a      *)
(* behaviour has one focus, a bound:                                       *)
(*   "dev"     sources are saved and a path dependency is added while      *)
(*             `ky dev` runs;                                              *)
(*   "check"   sources are saved while checks are typed in two terminals;  *)
(*   "depend"  dependency commands are typed, repositories change.         *)
(***************************************************************************)
EXTENDS DevServer, Dependencies

CONSTANTS
    Terminals,  \* the processes of the `ky check`s that are typed
    First,      \* First[m]: what m holds at the beginning
    MaxTyped    \* bound: how many checks are typed

ASSUME TerminalAssumption == Terminals \subseteq Checkers \ {Watcher, Server}

VARIABLES
    focus,
    typed       \* how many checks were typed

vars == <<workspaceVars, checkVars, devVars, dependVars, focus, typed>>

Init ==
    /\ focus \in {"dev", "check", "depend"}
    /\ files = [m \in Modules |-> Saved(First[m], 0)]
    /\ manifest = [stamp |-> 0, deps |-> <<>>]
    /\ lock = [stamp |-> 0, entries |-> <<>>]
    /\ clock = 0
    /\ stamps = [m \in Modules |-> None]
    /\ check = [p \in Checkers |-> Idle]
    /\ exposed = {}
    /\ typed = 0
    /\ DevInit(focus = "dev")
    /\ DependInit(IF focus = "depend" THEN BOOLEAN ELSE {FALSE})

Save == \E m \in Modules : SaveSource(m) /\ UNCHANGED checkVars

TypeCheck ==
    /\ typed < MaxTyped
    /\ typed' = typed + 1
    /\ \E p \in Terminals, e \in Entries : StartCheck(p, e)

RunCheck ==
    /\ \E p \in Terminals : CheckStep(p) \/ InterruptCheck(p) \/ EndCheck(p)
    /\ UNCHANGED typed

(* Bound: the dependency is added before any source is saved.              *)
AddPath ==
    \/ \E n \in NameSet : (clock = 0 /\ Add(n, Path)) \/ ResolvePath(n)
    \/ WriteLock

Next ==
    /\ \/ /\ focus = "dev"
          /\ \/ Save /\ UNCHANGED <<devVars, dependVars>>
             \/ DevNext /\ UNCHANGED dependVars
             \/ AddPath /\ UNCHANGED checkVars /\ UNCHANGED devVars
          /\ UNCHANGED typed
       \/ /\ focus = "check"
          /\ (Save /\ UNCHANGED typed) \/ TypeCheck \/ RunCheck
          /\ UNCHANGED <<devVars, dependVars>>
       \/ /\ focus = "depend"
          /\ DependNext
          /\ UNCHANGED <<checkVars, devVars, typed>>
    /\ UNCHANGED <<focus, gitFound>>

Spec == Init /\ [][Next]_vars /\ DevFairness
=============================================================================
