----------------------------- MODULE Dependencies -----------------------------
(***************************************************************************)
(* `ky add`, `ky remove` and `ky install`: a command reads the manifest,   *)
(* saves it when it changes it, resolves every dependency in the order of  *)
(* their names, and writes (or, with --locked, compares) the lock file.  A *)
(* Git dependency is resolved in a clone kept in the user's cache under    *)
(* the dependency's name; git itself and the remote repositories are       *)
(* outside the program.  A command may fail or be interrupted at any       *)
(* dependency, with the manifest already saved.                            *)
(***************************************************************************)
EXTENDS Workspace, Sequences

CONSTANTS
    Names,      \* dependency names, in the order a TOML table iterates over them
    Urls,       \* Git repositories
    Tags,       \* the revisions a manifest may ask for
    HeadRev,    \* no revision is asked for
    Path,       \* the specification of a path dependency
    Commits     \* bound: how many commits a repository gets

GitSpecs == [url : Urls, rev : Tags \union {HeadRev}]
Specs == GitSpecs \union {Path}

ASSUME DependencyAssumption ==
    /\ Names \in Seq(STRING)
    /\ HeadRev \notin Tags
    /\ Path \notin GitSpecs
    /\ Commits \in Nat

VARIABLES
    remote,     \* remote[u]: [head, tags] of the repository u
    clones,     \* clones[n]: the cached clone for the name n
    command,    \* the command that runs
    gitFound,   \* whether a file named git lies in the directory: runArgv spawns
                \* without a search of PATH.  It does not change.
    settled     \* history: none, or the one table of dependencies that the last
                \* command that succeeded resolved, as long as no command has
                \* resolved any of them otherwise since

dependVars == <<remote, clones, command, gitFound, settled>>

NoClone == [url |-> "none"]
NoCommand == [phase |-> "idle", result |-> "none"]

NameSet == {Names[i] : i \in DOMAIN Names}

Drop(f, n) == [k \in DOMAIN f \ {n} |-> f[k]]
Put(f, n, v) == [k \in DOMAIN f \union {n} |-> IF k = n THEN v ELSE f[k]]

(* The manifest is loaded; add and remove save it, changed, at once.  The  *)
(* lock text out is built in the order of the names, so that what it says  *)
(* of each name is all two of them can differ in.                          *)
Begin(deps, locked) ==
    command' = [phase |-> "resolve", todo |-> DOMAIN deps, deps |-> deps, out |-> <<>>,
                locked |-> locked, result |-> "running"]

Add(n, spec) ==
    /\ command.phase = "idle"
    /\ clock < MaxWrites
    /\ clock' = clock + 1
    /\ manifest' = [stamp |-> clock + 1, deps |-> Put(manifest.deps, n, spec)]
    /\ Begin(manifest'.deps, FALSE)
    /\ UNCHANGED <<files, lock, remote, clones, settled>>

Remove(n) ==
    /\ command.phase = "idle"
    /\ n \in DOMAIN manifest.deps
    /\ clock < MaxWrites
    /\ clock' = clock + 1
    /\ manifest' = [stamp |-> clock + 1, deps |-> Drop(manifest.deps, n)]
    /\ Begin(manifest'.deps, FALSE)
    /\ UNCHANGED <<files, lock, remote, clones, settled>>

(* Removing what the manifest does not list is an error.                   *)
RemoveUnknown(n) ==
    /\ command.phase = "idle"
    /\ n \notin DOMAIN manifest.deps
    /\ command' = [NoCommand EXCEPT !.result = "failed"]
    /\ UNCHANGED <<workspaceVars, remote, clones, settled>>

Install(locked) ==
    /\ command.phase = "idle"
    /\ Begin(manifest.deps, locked)
    /\ UNCHANGED <<workspaceVars, remote, clones, settled>>

(* n is the first of the names that are left.                              *)
Resolving(n) ==
    /\ command.phase = "resolve" /\ n \in command.todo
    /\ \E i \in DOMAIN Names :
          Names[i] = n /\ \A j \in 1 .. i - 1 : Names[j] \notin command.todo

Resolved(n, entry) == [command EXCEPT !.todo = @ \ {n}, !.out = Put(@, n, entry)]

Fail == command' = [NoCommand EXCEPT !.result = "failed"]

(* Another revision of a settled dependency moves its clone.               *)
Unsettled(n) ==
    settled' = {deps \in settled : n \in DOMAIN deps => deps[n] = command.deps[n]}

ResolvePath(n) ==
    /\ Resolving(n)
    /\ command.deps[n] = Path
    /\ command' = Resolved(n, [source |-> Path])
    /\ Unsettled(n)
    /\ UNCHANGED <<workspaceVars, remote, clones>>

(* git clone, when the cache has no clone for the name; it may fail, and   *)
(* does when git is not found.                                             *)
CloneOf(n, url) ==
    IF clones[n] # NoClone THEN clones[n]
    ELSE [url |-> url, head |-> remote[url].head, tags |-> remote[url].tags]

CloneFails(n) ==
    /\ Resolving(n)
    /\ command.deps[n] # Path
    /\ clones[n] = NoClone
    /\ Fail
    /\ UNCHANGED <<workspaceVars, remote, clones, settled>>

(* Mutation: the fetch also moves HEAD to the repository's.                *)
FetchedHead(clone, reached) ==
    IF reached THEN [clone EXCEPT !.head = remote[clone.url].head] ELSE clone

(* git fetch --tags brings tags the clone lacks, from the repository it    *)
(* was cloned from, and leaves its HEAD alone; its failure is ignored.     *)
Fetched(clone, reached) ==
    IF reached THEN [clone EXCEPT !.tags =
                        [t \in DOMAIN clone.tags \union DOMAIN remote[clone.url].tags |->
                            IF t \in DOMAIN clone.tags THEN clone.tags[t]
                            ELSE remote[clone.url].tags[t]]]
    ELSE clone

(* git checkout of HEAD stays where it is.                                 *)
CheckedOut(clone, rev) ==
    IF rev = HeadRev THEN clone ELSE [clone EXCEPT !.head = clone.tags[rev]]

(* The lock entry has the manifest's url and the clone's revision.         *)
ResolveGit(n) ==
    /\ Resolving(n)
    /\ command.deps[n] # Path
    /\ gitFound
    /\ \E reached \in BOOLEAN :
        LET spec == command.deps[n]
            clone == Fetched(CloneOf(n, spec.url), reached)
        IN IF spec.rev \in DOMAIN clone.tags \union {HeadRev}
           THEN LET tree == CheckedOut(clone, spec.rev) IN
                /\ clones' = [clones EXCEPT ![n] = tree]
                /\ command' = Resolved(n, [source |-> spec.url, revision |-> tree.head])
           ELSE clones' = [clones EXCEPT ![n] = clone] /\ Fail
    /\ Unsettled(n)
    /\ UNCHANGED <<workspaceVars, remote>>

(* The lock text is complete: it is compared, or written.                  *)
Resolution == command.phase = "resolve" /\ command.todo = {}

WriteLock ==
    /\ Resolution /\ ~command.locked
    /\ clock < MaxWrites
    /\ clock' = clock + 1
    /\ lock' = [stamp |-> clock + 1, entries |-> command.out]
    /\ command' = [NoCommand EXCEPT !.result = "ok"]
    /\ settled' = {command.deps}
    /\ UNCHANGED <<files, manifest, remote, clones>>

CompareLock ==
    /\ Resolution /\ command.locked
    /\ command' = IF lock.entries = command.out THEN [NoCommand EXCEPT !.result = "ok"]
                  ELSE [phase |-> "idle", result |-> "disagree", deps |-> command.deps]
    /\ UNCHANGED <<workspaceVars, remote, clones, settled>>

InterruptCommand ==
    /\ command.phase = "resolve"
    /\ Fail
    /\ UNCHANGED <<workspaceVars, remote, clones, settled>>

(* The world outside: a repository gets a commit, or a tag.                *)
Push(u) ==
    /\ remote[u].head < Commits
    /\ remote' = [remote EXCEPT ![u].head = @ + 1]
    /\ UNCHANGED <<workspaceVars, clones, command, settled>>

Release(u, t) ==
    /\ t \notin DOMAIN remote[u].tags
    /\ remote' = [remote EXCEPT ![u].tags = Put(@, t, remote[u].head)]
    /\ UNCHANGED <<workspaceVars, clones, command, settled>>

DependInit(found) ==
    /\ remote = [u \in Urls |-> [head |-> 0, tags |-> <<>>]]
    /\ clones = [n \in NameSet |-> NoClone]
    /\ command = NoCommand
    /\ gitFound \in found
    /\ settled = {}

ResolveStep(n) == ResolvePath(n) \/ CloneFails(n) \/ ResolveGit(n)

DependNext ==
    \/ \E n \in NameSet :
          \/ \E spec \in Specs : Add(n, spec)
          \/ Remove(n) \/ RemoveUnknown(n)
          \/ ResolveStep(n)
    \/ \E locked \in BOOLEAN : Install(locked)
    \/ WriteLock \/ CompareLock \/ InterruptCommand
    \/ \E u \in Urls : Push(u) \/ \E t \in Tags : Release(u, t)

(***************************************************************************)
(* `ky install --locked` agrees with the lock file of the last command     *)
(* that succeeded, whatever has happened to the repositories since, as     *)
(* long as the manifest asks for the same and no command has meanwhile     *)
(* resolved one of its dependencies otherwise: a clone's HEAD moves only   *)
(* by checkout.                                                            *)
(***************************************************************************)
LockedAgrees == command.result = "disagree" => command.deps \notin settled
=============================================================================
