--------------------------- MODULE Project_proofs ---------------------------
(***************************************************************************)
(* Proofs about Project, for any modules, imports and orders, any number   *)
(* of processes that check, any names, repositories and tags, and any      *)
(* bounds: what the lock file says of the dependencies, and what a stamp   *)
(* in the export cache vouches for.                                        *)
(***************************************************************************)
EXTENDS Project, SequenceTheorems, TLAPS

----------------------------------------------------------------------------
(* The lock file.                                                          *)

IsClone(c) == c = [url |-> c.url, head |-> c.head, tags |-> c.tags]

(* What the lock says of a dependency whose clone is c.                    *)
EntryOf(c, spec) ==
    IF spec = Path THEN [source |-> Path] ELSE [source |-> spec.url, revision |-> c.head]

(* The clone c stands where spec asks it to: asking again moves nothing.   *)
Stands(c, spec) ==
    spec # Path =>
        /\ c # NoClone
        /\ spec.rev = HeadRev \/ (spec.rev \in DOMAIN c.tags /\ c.tags[spec.rev] = c.head)

(* The entries repeat where the clones of these names of deps stand.       *)
Locks(entries, deps, names, kept) ==
    /\ names \subseteq DOMAIN deps /\ DOMAIN deps \subseteq NameSet
    /\ entries = [n \in names |-> EntryOf(kept[n], deps[n])]
    /\ \A n \in names : Stands(kept[n], deps[n])

LockTypes ==
    /\ clones = [n \in NameSet |-> clones[n]]
    /\ \A n \in NameSet : clones[n] = NoClone \/ IsClone(clones[n])
    /\ DOMAIN manifest.deps \subseteq NameSet

(* The table last settled would be locked again just as it was.            *)
SettledLocked == \A deps \in settled : Locks(lock.entries, deps, DOMAIN deps, clones)

Resolves ==
    /\ command.phase \in {"idle", "resolve"}
    /\ command.phase = "resolve" =>
          /\ command = [phase |-> "resolve", todo |-> command.todo, deps |-> command.deps,
                        out |-> command.out, locked |-> command.locked, result |-> "running"]
          /\ command.todo \subseteq DOMAIN command.deps
          /\ Locks(command.out, command.deps, DOMAIN command.deps \ command.todo, clones)

LockInv == LockTypes /\ SettledLocked /\ Resolves /\ LockedAgrees

LEMMA LockInitially == Init => LockInv
<1> SUFFICES ASSUME Init PROVE LockInv
  OBVIOUS
<1>1. DependInit(IF focus = "depend" THEN BOOLEAN ELSE {FALSE}) /\ manifest = [stamp |-> 0, deps |-> <<>>]
  BY DEF Init
<1>2. LockTypes
  BY <1>1 DEF DependInit, LockTypes
<1>3. SettledLocked /\ Resolves /\ LockedAgrees
  BY <1>1 DEF DependInit, SettledLocked, Resolves, LockedAgrees, NoCommand
<1> QED  BY <1>2, <1>3 DEF LockInv

(* Moving one clone disturbs no lock, when it stays where a lock has it.   *)
LEMMA MoveKeepsLocks ==
  ASSUME NEW kept, DOMAIN kept = NameSet, NEW n \in NameSet, NEW c,
         NEW entries, NEW deps, NEW names, Locks(entries, deps, names, kept),
         n \in names /\ deps[n] # Path => c.head = kept[n].head /\ Stands(c, deps[n])
  PROVE  Locks(entries, deps, names, [kept EXCEPT ![n] = c])
<1> DEFINE moved == [kept EXCEPT ![n] = c]
<1>1. \A k \in names : k # n => moved[k] = kept[k]
  BY DEF Locks
<1>2. moved[n] = c
  OBVIOUS
<1>3. \A k \in names : EntryOf(moved[k], deps[k]) = EntryOf(kept[k], deps[k])
  BY <1>1, <1>2 DEF EntryOf
<1>4. \A k \in names : Stands(moved[k], deps[k])
  BY <1>1, <1>2 DEF Locks, Stands
<1> HIDE DEF moved
<1>5. QED  BY <1>3, <1>4 DEF Locks, moved

(* One more name is locked.                                                *)
LEMMA OneMoreLocked ==
  ASSUME NEW kept, NEW n \in NameSet, NEW entries, NEW deps, NEW names, n \in DOMAIN deps,
         Locks(entries, deps, names, kept), Stands(kept[n], deps[n])
  PROVE  Locks(Put(entries, n, EntryOf(kept[n], deps[n])), deps, names \union {n}, kept)
<1> DEFINE entry(k) == EntryOf(kept[k], deps[k])
<1>1. entries = [k \in names |-> entry(k)]
  BY DEF Locks
<1>2. \A k \in names \union {n} : Stands(kept[k], deps[k])
  BY DEF Locks
<1>3. names \union {n} \subseteq DOMAIN deps /\ DOMAIN deps \subseteq NameSet
  BY DEF Locks
<1> HIDE DEF entry
<1>4. Put(entries, n, entry(n)) = [k \in names \union {n} |-> entry(k)]
  BY <1>1 DEF Put
<1>5. QED  BY <1>2, <1>3, <1>4 DEF Locks, entry

(* A fetch neither moves the clone nor any of its tags.                    *)
LEMMA FetchKeepsClone ==
  ASSUME NEW c, IsClone(c), NEW reached, NEW f, f = Fetched(c, reached)
  PROVE  /\ IsClone(f) /\ f.head = c.head /\ f # NoClone
         /\ DOMAIN c.tags \subseteq DOMAIN f.tags
         /\ \A t \in DOMAIN c.tags : f.tags[t] = c.tags[t]
<1> DEFINE more == [t \in DOMAIN c.tags \union DOMAIN remote[c.url].tags |->
                        IF t \in DOMAIN c.tags THEN c.tags[t] ELSE remote[c.url].tags[t]]
<1>1. f = c \/ f = [c EXCEPT !.tags = more]
  BY DEF Fetched
<1>2. DOMAIN c.tags \subseteq DOMAIN more /\ \A t \in DOMAIN c.tags : more[t] = c.tags[t]
  OBVIOUS
<1> HIDE DEF more
<1>3. f = c \/ f = [url |-> c.url, head |-> c.head, tags |-> more]
  BY <1>1 DEF IsClone
<1>4. IsClone(f) /\ f.head = c.head
  BY <1>3 DEF IsClone
<1>5. f.tags = c.tags \/ f.tags = more
  BY <1>3 DEF IsClone
<1>6. DOMAIN f = {"url", "head", "tags"}
  BY <1>4 DEF IsClone
<1>7. f # NoClone
  BY <1>6 DEF NoClone
<1>8. QED  BY <1>2, <1>4, <1>5, <1>7

LEMMA CheckoutStands ==
  ASSUME NEW f, IsClone(f), f # NoClone, NEW spec, spec # Path,
         spec.rev \in DOMAIN f.tags \union {HeadRev}
  PROVE  /\ IsClone(CheckedOut(f, spec.rev)) /\ CheckedOut(f, spec.rev) # NoClone
         /\ Stands(CheckedOut(f, spec.rev), spec)
<1>1. CASE spec.rev = HeadRev
  BY <1>1 DEF CheckedOut, Stands
<1>2. CASE spec.rev # HeadRev
  <2> DEFINE tree == [f EXCEPT !.head = f.tags[spec.rev]]
  <2>1. tree = [url |-> f.url, head |-> f.tags[spec.rev], tags |-> f.tags]
    BY DEF IsClone
  <2>2. IsClone(tree) /\ tree.head = f.tags[spec.rev] /\ tree.tags = f.tags
    BY <2>1 DEF IsClone
  <2>3. DOMAIN tree = {"url", "head", "tags"}
    BY <2>1
  <2>4. tree # NoClone
    BY <2>3 DEF NoClone
  <2> HIDE DEF tree
  <2>5. CheckedOut(f, spec.rev) = tree
    BY <1>2 DEF CheckedOut, tree
  <2>6. QED  BY <1>2, <2>2, <2>4, <2>5 DEF Stands
<1>3. QED  BY <1>1, <1>2

LEMMA LockStutters ==
  ASSUME LockInv, UNCHANGED <<manifest, lock, clones, command, settled>>
  PROVE  LockInv'
BY DEF LockInv, LockTypes, SettledLocked, Resolves, LockedAgrees

LEMMA BeginKeepsLock ==
  ASSUME LockInv, NEW deps, NEW locked, DOMAIN deps \subseteq NameSet,
         DOMAIN manifest'.deps \subseteq NameSet,
         Begin(deps, locked), UNCHANGED <<lock, clones, settled>>
  PROVE  LockInv'
<1>1. LockTypes' /\ SettledLocked'
  BY DEF LockInv, LockTypes, SettledLocked
<1>2. command' = [phase |-> "resolve", todo |-> DOMAIN deps, deps |-> deps, out |-> <<>>,
                  locked |-> locked, result |-> "running"]
  BY DEF Begin
<1>3. Locks(<<>>, deps, {}, clones)
  BY DEF Locks
<1>4. DOMAIN command'.deps \ command'.todo = {}
  BY <1>2
<1>5. Resolves' /\ LockedAgrees'
  BY <1>2, <1>3, <1>4 DEF Resolves, LockedAgrees
<1>6. QED  BY <1>1, <1>5 DEF LockInv

LEMMA AddKeepsLock ==
  ASSUME LockInv, NEW n \in NameSet, NEW spec, Add(n, spec)
  PROVE  LockInv'
<1>1. DOMAIN manifest'.deps = DOMAIN manifest.deps \union {n}
  BY DEF Add, Put
<1>2. DOMAIN manifest'.deps \subseteq NameSet
  BY <1>1 DEF LockInv, LockTypes
<1>3. QED  BY <1>2, BeginKeepsLock DEF Add

LEMMA RemoveKeepsLock ==
  ASSUME LockInv, NEW n \in NameSet, Remove(n)
  PROVE  LockInv'
<1>1. DOMAIN manifest'.deps = DOMAIN manifest.deps \ {n}
  BY DEF Remove, Drop
<1>2. DOMAIN manifest'.deps \subseteq NameSet
  BY <1>1 DEF LockInv, LockTypes
<1>3. QED  BY <1>2, BeginKeepsLock DEF Remove

LEMMA InstallKeepsLock ==
  ASSUME LockInv, NEW locked, Install(locked)
  PROVE  LockInv'
<1>1. manifest' = manifest /\ lock' = lock
  BY DEF Install, workspaceVars
<1>2. DOMAIN manifest.deps \subseteq NameSet
  BY DEF LockInv, LockTypes
<1>3. QED  BY <1>1, <1>2, BeginKeepsLock DEF Install

(* A command that fails leaves the clones where they stand.                *)
LEMMA FailKeepsLock ==
  ASSUME LockInv, command' = [NoCommand EXCEPT !.result = "failed"],
         UNCHANGED <<manifest, lock, clones, settled>>
  PROVE  LockInv'
<1>1. command'.phase = "idle" /\ command'.result = "failed"
  BY DEF NoCommand
<1>2. QED  BY <1>1 DEF LockInv, LockTypes, SettledLocked, Resolves, LockedAgrees

(* A dependency is resolved: no lock that is kept asks for other than what *)
(* the command does, so that none is disturbed.                            *)
LEMMA ResolvedKeepsLock ==
  ASSUME LockInv, NEW n \in NameSet, Resolving(n), NEW c, c = NoClone \/ IsClone(c),
         clones' = [clones EXCEPT ![n] = c], UNCHANGED <<manifest, lock>>, Unsettled(n),
         command.deps[n] # Path /\ Stands(clones[n], command.deps[n])
            => c.head = clones[n].head /\ Stands(c, command.deps[n])
  PROVE  /\ LockTypes' /\ SettledLocked'
         /\ Locks(command.out, command.deps, DOMAIN command.deps \ command.todo, clones')
<1> DEFINE spec == command.deps[n]
<1>1. DOMAIN clones = NameSet /\ \A k \in NameSet : clones[k] = NoClone \/ IsClone(clones[k])
  BY DEF LockInv, LockTypes
<1>2. LockTypes'
  <2>1. clones = [k \in NameSet |-> clones[k]]
    BY DEF LockInv, LockTypes
  <2>2. clones' = [k \in NameSet |-> IF k = n THEN c ELSE clones[k]]
    BY <2>1
  <2>3. QED  BY <1>1, <2>2 DEF LockInv, LockTypes
<1>3. ASSUME NEW entries, NEW deps, NEW names, Locks(entries, deps, names, clones),
             n \in names => deps[n] = spec
      PROVE  Locks(entries, deps, names, clones')
  <2>1. n \in names /\ deps[n] # Path => c.head = clones[n].head /\ Stands(c, deps[n])
    BY <1>3 DEF Locks
  <2> HIDE DEF spec
  <2>2. QED  BY <1>1, <1>3, <2>1, MoveKeepsLocks
<1>4. SettledLocked'
  <2>1. SUFFICES ASSUME NEW deps \in settled' PROVE Locks(lock.entries, deps, DOMAIN deps, clones')
    BY DEF SettledLocked
  <2>2. deps \in settled /\ (n \in DOMAIN deps => deps[n] = spec)
    BY DEF Unsettled
  <2>3. Locks(lock.entries, deps, DOMAIN deps, clones)
    BY <2>2 DEF LockInv, SettledLocked
  <2>4. QED  BY <1>3, <2>2, <2>3
<1>5. Locks(command.out, command.deps, DOMAIN command.deps \ command.todo, clones)
  BY DEF LockInv, Resolves, Resolving
<1>6. QED  BY <1>2, <1>3, <1>4, <1>5

(* ... and the lock text has gained its entry.                             *)
LEMMA EntryKeepsLock ==
  ASSUME LockInv, NEW n \in NameSet, Resolving(n), NEW kept, Stands(kept[n], command.deps[n]),
         Locks(command.out, command.deps, DOMAIN command.deps \ command.todo, kept),
         kept = clones',
         command' = Resolved(n, EntryOf(kept[n], command.deps[n]))
  PROVE  Resolves' /\ LockedAgrees'
<1> DEFINE done == DOMAIN command.deps \ command.todo
           out == Put(command.out, n, EntryOf(kept[n], command.deps[n]))
<1>1. /\ command = [phase |-> "resolve", todo |-> command.todo, deps |-> command.deps,
                    out |-> command.out, locked |-> command.locked, result |-> "running"]
      /\ command.todo \subseteq DOMAIN command.deps /\ n \in command.todo
  BY DEF LockInv, Resolves, Resolving
<1>2. n \in DOMAIN command.deps
  BY <1>1
<1>3. Locks(out, command.deps, done \union {n}, kept)
  BY <1>2, OneMoreLocked
<1>4. command' = [command EXCEPT !.todo = @ \ {n}, !.out = out]
  BY DEF Resolved
<1> HIDE DEF out
<1>5. command' = [phase |-> "resolve", todo |-> command.todo \ {n}, deps |-> command.deps,
                  out |-> out, locked |-> command.locked, result |-> "running"]
  <2> DEFINE todo == command.todo
             deps == command.deps
             old == command.out
             locked == command.locked
  <2>1. command = [phase |-> "resolve", todo |-> todo, deps |-> deps, out |-> old,
                   locked |-> locked, result |-> "running"]
    BY <1>1
  <2>2. command' = [command EXCEPT !.todo = todo \ {n}, !.out = out]
    BY <1>4
  <2> HIDE DEF todo, deps, old, locked
  <2>3. command' = [phase |-> "resolve", todo |-> todo \ {n}, deps |-> deps, out |-> out,
                    locked |-> locked, result |-> "running"]
    BY <2>1, <2>2
  <2>4. QED  BY <2>3 DEF todo, deps, locked
<1>6. DOMAIN command.deps \ (command.todo \ {n}) = done \union {n}
  BY <1>2
<1>7. QED  BY <1>1, <1>3, <1>5, <1>6 DEF Resolves, LockedAgrees

LEMMA ResolvePathKeepsLock ==
  ASSUME LockInv, NEW n \in NameSet, ResolvePath(n)
  PROVE  LockInv'
<1>1. /\ Resolving(n) /\ command.deps[n] = Path /\ Unsettled(n)
      /\ command' = Resolved(n, [source |-> Path])
      /\ UNCHANGED <<manifest, lock, clones>>
  BY DEF ResolvePath, workspaceVars
<1>2. clones = [k \in NameSet |-> clones[k]] /\ (clones[n] = NoClone \/ IsClone(clones[n]))
  BY DEF LockInv, LockTypes
<1>3. clones' = [clones EXCEPT ![n] = clones[n]]
  BY <1>1, <1>2
<1>4. /\ LockTypes' /\ SettledLocked'
      /\ Locks(command.out, command.deps, DOMAIN command.deps \ command.todo, clones')
  <2> DEFINE c == clones[n]
  <2>1. clones' = [clones EXCEPT ![n] = c] /\ (c = NoClone \/ IsClone(c))
    BY <1>2, <1>3
  <2> HIDE DEF c
  <2>2. QED  BY <1>1, <2>1, ResolvedKeepsLock
<1>5. EntryOf(clones'[n], command.deps[n]) = [source |-> Path] /\ Stands(clones'[n], command.deps[n])
  BY <1>1 DEF EntryOf, Stands
<1>6. Resolves' /\ LockedAgrees'
  <2> DEFINE kept == clones'
  <2>1. /\ Stands(kept[n], command.deps[n])
        /\ Locks(command.out, command.deps, DOMAIN command.deps \ command.todo, kept)
        /\ kept = clones' /\ command' = Resolved(n, EntryOf(kept[n], command.deps[n]))
    BY <1>1, <1>4, <1>5
  <2> HIDE DEF kept
  <2>2. QED  BY <1>1, <2>1, EntryKeepsLock
<1>7. QED  BY <1>4, <1>6 DEF LockInv

LEMMA ResolveGitKeepsLock ==
  ASSUME LockInv, NEW n \in NameSet, ResolveGit(n)
  PROVE  LockInv'
<1> DEFINE spec == command.deps[n]
           old == CloneOf(n, spec.url)
<1>1. PICK reached \in BOOLEAN :
        LET clone == Fetched(old, reached)
        IN IF spec.rev \in DOMAIN clone.tags \union {HeadRev}
           THEN LET tree == CheckedOut(clone, spec.rev) IN
                /\ clones' = [clones EXCEPT ![n] = tree]
                /\ command' = Resolved(n, [source |-> spec.url, revision |-> tree.head])
           ELSE clones' = [clones EXCEPT ![n] = clone] /\ Fail
  BY DEF ResolveGit
<1> DEFINE clone == Fetched(old, reached)
           tree == CheckedOut(clone, spec.rev)
<1>2. Resolving(n) /\ spec # Path /\ Unsettled(n) /\ UNCHANGED <<manifest, lock>>
  BY DEF ResolveGit, workspaceVars
<1>3. IsClone(old) /\ (clones[n] # NoClone => old = clones[n])
  <2>1. clones[n] = NoClone \/ IsClone(clones[n])
    BY DEF LockInv, LockTypes
  <2>2. QED  BY <2>1 DEF CloneOf, IsClone
<1> HIDE DEF old
<1>4. /\ IsClone(clone) /\ clone.head = old.head /\ clone # NoClone
      /\ DOMAIN old.tags \subseteq DOMAIN clone.tags
      /\ \A t \in DOMAIN old.tags : clone.tags[t] = old.tags[t]
  BY <1>3, FetchKeepsClone
<1> HIDE DEF clone
<1>5. Stands(clones[n], spec) => clone.head = clones[n].head /\ Stands(clone, spec)
  BY <1>2, <1>3, <1>4 DEF Stands
<1>6. CASE spec.rev \notin DOMAIN clone.tags \union {HeadRev}
  <2>1. clones' = [clones EXCEPT ![n] = clone] /\ Fail
    BY <1>1, <1>6 DEF clone
  <2>2. LockTypes' /\ SettledLocked'
    BY <1>2, <1>4, <1>5, <2>1, ResolvedKeepsLock
  <2>3. command'.phase = "idle" /\ command'.result = "failed"
    BY <2>1 DEF Fail, NoCommand
  <2>4. QED  BY <2>2, <2>3 DEF LockInv, Resolves, LockedAgrees
<1>7. CASE spec.rev \in DOMAIN clone.tags \union {HeadRev}
  <2>1. /\ clones' = [clones EXCEPT ![n] = tree]
        /\ command' = Resolved(n, [source |-> spec.url, revision |-> tree.head])
    BY <1>1, <1>7 DEF clone
  <2>2. IsClone(tree) /\ Stands(tree, spec)
    <3> HIDE DEF spec
    <3>1. QED  BY <1>2, <1>4, <1>7, CheckoutStands
  <2>3. Stands(clones[n], spec) => tree.head = clones[n].head
    <3>1. Stands(clones[n], spec) =>
             spec.rev = HeadRev \/ clone.tags[spec.rev] = clones[n].head
      BY <1>2, <1>3, <1>4 DEF Stands
    <3>2. spec.rev = HeadRev => tree = clone
      BY DEF CheckedOut
    <3>3. spec.rev # HeadRev => tree.head = clone.tags[spec.rev]
      BY <1>4 DEF CheckedOut, IsClone
    <3> HIDE DEF tree, spec
    <3>4. QED  BY <1>5, <3>1, <3>2, <3>3
  <2> HIDE DEF tree
  <2>4. /\ LockTypes' /\ SettledLocked'
        /\ Locks(command.out, command.deps, DOMAIN command.deps \ command.todo, clones')
    BY <1>2, <2>1, <2>2, <2>3, ResolvedKeepsLock
  <2>5. clones'[n] = tree
    BY <2>1 DEF LockInv, LockTypes
  <2>6. EntryOf(clones'[n], spec) = [source |-> spec.url, revision |-> tree.head]
    BY <1>2, <2>5 DEF EntryOf
  <2>7. Resolves' /\ LockedAgrees'
    <3> DEFINE kept == clones'
    <3>1. /\ Stands(kept[n], command.deps[n])
          /\ Locks(command.out, command.deps, DOMAIN command.deps \ command.todo, kept)
          /\ kept = clones' /\ command' = Resolved(n, EntryOf(kept[n], command.deps[n]))
      BY <2>1, <2>2, <2>4, <2>5, <2>6
    <3> HIDE DEF kept
    <3>2. QED  BY <1>2, <3>1, EntryKeepsLock
  <2>8. QED  BY <2>4, <2>7 DEF LockInv
<1>8. QED  BY <1>6, <1>7

LEMMA WriteKeepsLock ==
  ASSUME LockInv, WriteLock
  PROVE  LockInv'
<1>1. /\ command.phase = "resolve" /\ command.todo = {}
      /\ lock'.entries = command.out /\ settled' = {command.deps}
      /\ command' = [NoCommand EXCEPT !.result = "ok"]
      /\ UNCHANGED <<manifest, clones>>
  BY DEF WriteLock, Resolution
<1>2. Locks(command.out, command.deps, DOMAIN command.deps, clones)
  BY <1>1 DEF LockInv, Resolves
<1>3. SettledLocked'
  BY <1>1, <1>2 DEF SettledLocked
<1>4. command'.phase = "idle" /\ command'.result = "ok"
  BY <1>1 DEF NoCommand
<1>5. QED  BY <1>1, <1>3, <1>4 DEF LockInv, LockTypes, Resolves, LockedAgrees

(* The heart of it: what was settled is locked as it would be now.         *)
LEMMA CompareKeepsLock ==
  ASSUME LockInv, CompareLock
  PROVE  LockInv'
<1>1. /\ command.phase = "resolve" /\ command.todo = {}
      /\ UNCHANGED <<manifest, lock, clones, settled>>
      /\ command' = IF lock.entries = command.out THEN [NoCommand EXCEPT !.result = "ok"]
                    ELSE [phase |-> "idle", result |-> "disagree", deps |-> command.deps]
  BY DEF CompareLock, Resolution, workspaceVars
<1>2. Locks(command.out, command.deps, DOMAIN command.deps, clones)
  BY <1>1 DEF LockInv, Resolves
<1>3. command.deps \in settled => lock.entries = command.out
  BY <1>2 DEF LockInv, SettledLocked, Locks
<1>4. command'.phase = "idle" /\ LockedAgrees'
  BY <1>1, <1>3 DEF NoCommand, LockedAgrees
<1>5. QED  BY <1>1, <1>4 DEF LockInv, LockTypes, SettledLocked, Resolves

LEMMA DependKeepsLock ==
  ASSUME LockInv, DependNext
  PROVE  LockInv'
<1>1. ASSUME NEW n \in NameSet, NEW spec \in Specs, Add(n, spec) PROVE LockInv'
  BY <1>1, AddKeepsLock
<1>2. ASSUME NEW n \in NameSet, Remove(n) PROVE LockInv'
  BY <1>2, RemoveKeepsLock
<1>3. ASSUME NEW n \in NameSet, RemoveUnknown(n) PROVE LockInv'
  BY <1>3, FailKeepsLock DEF RemoveUnknown, workspaceVars
<1>4. ASSUME NEW n \in NameSet, ResolvePath(n) PROVE LockInv'
  BY <1>4, ResolvePathKeepsLock
<1>5. ASSUME NEW n \in NameSet, CloneFails(n) PROVE LockInv'
  BY <1>5, FailKeepsLock DEF CloneFails, Fail, workspaceVars
<1>6. ASSUME NEW n \in NameSet, ResolveGit(n) PROVE LockInv'
  BY <1>6, ResolveGitKeepsLock
<1>7. ASSUME NEW locked \in BOOLEAN, Install(locked) PROVE LockInv'
  BY <1>7, InstallKeepsLock
<1>8. CASE WriteLock
  BY <1>8, WriteKeepsLock
<1>9. CASE CompareLock
  BY <1>9, CompareKeepsLock
<1>10. CASE InterruptCommand
  BY <1>10, FailKeepsLock DEF InterruptCommand, Fail, workspaceVars
<1>11. ASSUME NEW u \in Urls, Push(u) \/ \E t \in Tags : Release(u, t) PROVE LockInv'
  <2>1. UNCHANGED <<manifest, lock, clones, command, settled>>
    BY <1>11 DEF Push, Release, workspaceVars
  <2>2. QED  BY <2>1, LockStutters
<1>12. QED
  BY <1>1, <1>2, <1>3, <1>4, <1>5, <1>6, <1>7, <1>8, <1>9, <1>10, <1>11
     DEF DependNext, ResolveStep

(* What the processes that check and serve do leaves dependencies alone.   *)
LEMMA ChecksKeepManifest ==
  ASSUME NEW p \in Checkers,
         CheckStep(p) \/ InterruptCheck(p) \/ EndCheck(p) \/ \E e \in Entries : StartCheck(p, e)
  PROVE  UNCHANGED workspaceVars
BY DEF CheckStep, SkipModule, AcceptModule, RejectModule, InterruptCheck, EndCheck, StartCheck

LEMMA DevKeepsManifest ==
  ASSUME DevNext
  PROVE  UNCHANGED workspaceVars
<1>1. CASE \/ DevFirstCheck \/ DevFirstVerdict \/ DevFingerprint \/ DevNotice \/ DevSettle
           \/ DevRecheck \/ DevVerdict \/ DevKilledCheck
  BY <1>1 DEF DevFirstCheck, DevFirstVerdict, DevFingerprint, DevNotice, DevSettle, DevRecheck,
     DevVerdict, DevKilledCheck, StartCheck, EndCheck
<1>2. CASE DevRestart \/ DevLeave \/ DevExit \/ ServerLoad \/ ServerListen
  BY <1>2 DEF DevRestart, DevLeave, DevExit, ServerLoad, ServerListen, StartCheck, EndCheck
<1>3. CASE ServerStop \/ ServerTaken \/ ServerReleased \/ Interrupt
  BY <1>3 DEF ServerStop, ServerTaken, ServerReleased, Interrupt, InterruptCheck, EndCheck
<1>4. CASE CheckStep(Watcher) \/ CheckStep(Server)
  BY <1>4, ChecksKeepManifest, WatcherAssumption
<1>5. QED  BY <1>1, <1>2, <1>3, <1>4 DEF DevNext

LEMMA LockKeeps == LockInv /\ [Next]_vars => LockInv'
<1> SUFFICES ASSUME LockInv, [Next]_vars PROVE LockInv'
  OBVIOUS
<1>1. CASE UNCHANGED vars
  BY <1>1, LockStutters DEF vars, workspaceVars, dependVars
<1>2. CASE Save /\ UNCHANGED dependVars
  BY <1>2, LockStutters DEF Save, SaveSource, dependVars
<1>3. CASE DevNext /\ UNCHANGED dependVars
  BY <1>3, LockStutters, DevKeepsManifest DEF workspaceVars, dependVars
<1>4. CASE AddPath
  BY <1>4, AddKeepsLock, ResolvePathKeepsLock, WriteKeepsLock DEF AddPath
<1>5. CASE (TypeCheck \/ RunCheck) /\ UNCHANGED dependVars
  <2>1. UNCHANGED workspaceVars
    BY <1>5, ChecksKeepManifest, TerminalAssumption DEF TypeCheck, RunCheck
  <2>2. QED  BY <1>5, <2>1, LockStutters DEF workspaceVars, dependVars
<1>6. CASE DependNext
  BY <1>6, DependKeepsLock
<1>7. QED  BY <1>1, <1>2, <1>3, <1>4, <1>5, <1>6 DEF Next

(* Whatever happens to the repositories, `ky install --locked` agrees with *)
(* the lock file of the last command that succeeded, as long as the        *)
(* manifest asks for the same and nothing resolved it otherwise meanwhile. *)
THEOREM LocksAreKept == Spec => []LockedAgrees
<1>1. LockInv => LockedAgrees
  BY DEF LockInv
<1>2. QED  BY <1>1, LockInitially, LockKeeps, PTL DEF Spec

----------------------------------------------------------------------------
(* The export cache.                                                       *)

Live == {p \in Checkers : check[p].phase # "idle"}

IsRun(c) ==
    c = [phase |-> c.phase, entry |-> c.entry, pos |-> c.pos, loaded |-> c.loaded,
         rechecked |-> c.rechecked, blind |-> c.blind, failed |-> c.failed]

(* The modules of its graph that p has come to, and those it skipped.      *)
Passed(p) == {Order[check[p].entry][i] : i \in 1 .. check[p].pos - 1}
Skipped(p) == Passed(p) \ check[p].rechecked

RunTypes(c) ==
    /\ IsRun(c)
    /\ c.phase \in {"analysing", "done"} /\ c.entry \in Entries /\ c.failed \in BOOLEAN
    /\ c.pos \in 1 .. Len(Order[c.entry]) + 1
    /\ c.phase = "analysing" => c.pos =< Len(Order[c.entry])
    /\ c.phase = "done" => c.pos = Len(Order[c.entry]) + 1
    /\ c.rechecked \subseteq {Order[c.entry][i] : i \in 1 .. c.pos - 1}

(* What c loaded is what the file holds, or an earlier text of it.         *)
Loaded(c, held) ==
    \A m \in Graph(c.entry) :
        /\ c.loaded[m].stamp \in Nat /\ c.loaded[m].stamp =< held[m].stamp
        /\ c.loaded[m].stamp = held[m].stamp => c.loaded[m] = held[m]

CheckTypes ==
    /\ clock \in 0 .. MaxWrites
    /\ files = [m \in Modules |-> files[m]] /\ \A m \in Modules : StampOf(m) \in 0 .. clock
    /\ stamps = [m \in Modules |-> stamps[m]]
    /\ \A m \in Modules : stamps[m] \in 0 .. clock \union {None}
    /\ check = [p \in Checkers |-> check[p]]
    /\ \A p \in Live : RunTypes(check[p]) /\ Loaded(check[p], files)

(* Of two processes one has loaded its graph after the other.              *)
NoLater(c, d) ==
    \A m \in Graph(c.entry) \intersect Graph(d.entry) : c.loaded[m].stamp =< d.loaded[m].stamp

LoadsInOrder == \A p, q \in Live : NoLater(check[p], check[q]) \/ NoLater(check[q], check[p])

(* m's stamp is that of its source, or was when a process skipped it and   *)
(* nobody has saved it since.                                              *)
Fresh(m) ==
    \/ stamps[m] = StampOf(m)
    \/ \E p \in Live : m \in Skipped(p) /\ check[p].loaded[m].stamp = StampOf(m)

(* p may yet find m at fault, or will leave it exposed.  An entry that p   *)
(* has loaded other than it is now is none of these: its verdict on the    *)
(* entry is of no consequence for the stamps.                              *)
Masks(p, m) == m \in PassedOver(p) /\ (m = check[p].entry => Vouched(p, m))

Trusted(m) == stamps[m] = StampOf(m) /\ m \notin exposed /\ \A p \in Live : ~Masks(p, m)

(* A stamp that is to be trusted is right.                                 *)
StampHolds(m) == Trusted(m) /\ (\A d \in Deps[m] : Fresh(d)) => Accepts(m, files)

(* The same for the entry of a process that saves have overtaken, where    *)
(* what it loaded and nobody saved counts as fresh.                        *)
EntryHolds(p) ==
    LET m == check[p].entry IN
    /\ Trusted(m) /\ ~Vouched(p, m)
    /\ \A d \in Deps[m] : Fresh(d) \/ check[p].loaded[d].stamp = StampOf(d)
    => Accepts(m, files)

Upheld(c, m) == Accepts(m, c.loaded) \/ m \in c.blind

VerdictHolds(p) ==
    ~check[p].failed => \A m \in Passed(p) : Upheld(check[p], m) \/ ~Vouched(p, m)

StampsHold ==
    /\ \A m \in Modules : StampHolds(m)
    /\ \A p \in Live : EntryHolds(p)

CheckInv == CheckTypes /\ LoadsInOrder /\ StampsHold /\ \A p \in Live : VerdictHolds(p)

(* The graph of an entry is closed under imports.                          *)
LEMMA GraphClosed ==
  ASSUME NEW e \in Entries
  PROVE  /\ Graph(e) \subseteq Modules /\ e \in Graph(e) /\ Len(Order[e]) \in Nat \ {0}
         /\ DOMAIN Order[e] = 1 .. Len(Order[e])
         /\ \A m \in Graph(e) : Deps[m] \subseteq Graph(e)
<1>1. Order[e] \in Seq(Modules) /\ Order[e] # <<>>
  BY CheckAssumption, OrderAssumption
<1>2. Len(Order[e]) \in Nat \ {0} /\ DOMAIN Order[e] = 1 .. Len(Order[e])
  BY <1>1, LenProperties, EmptySeq
<1>3. \A i \in DOMAIN Order[e] : Order[e][i] \in Modules
  BY <1>1, <1>2, ElementOfSeq
<1>4. e \in Graph(e)
  BY <1>2, OrderAssumption DEF Graph
<1>5. ASSUME NEW m \in Graph(e), NEW d \in Deps[m] PROVE d \in Graph(e)
  <2>1. PICK i \in DOMAIN Order[e] : m = Order[e][i]
    BY DEF Graph
  <2>2. PICK j \in 1 .. i - 1 : Order[e][j] = d
    BY <2>1, OrderAssumption
  <2>3. j \in DOMAIN Order[e]
    BY <1>2
  <2>4. QED  BY <2>2, <2>3 DEF Graph
<1>6. QED  BY <1>2, <1>3, <1>4, <1>5 DEF Graph

LEMMA RunFields ==
  ASSUME NEW w, NEW e, NEW p, NEW l, NEW r, NEW b, NEW f, NEW d,
         d = [phase |-> w, entry |-> e, pos |-> p, loaded |-> l, rechecked |-> r, blind |-> b,
              failed |-> f]
  PROVE  /\ IsRun(d) /\ d.phase = w /\ d.entry = e /\ d.pos = p /\ d.loaded = l
         /\ d.rechecked = r /\ d.blind = b /\ d.failed = f
BY DEF IsRun

LEMMA AdvanceShape ==
  ASSUME NEW c, IsRun(c), NEW m
  PROVE  /\ IsRun(Advance(c, m))
         /\ Advance(c, m).entry = c.entry /\ Advance(c, m).pos = c.pos + 1
         /\ Advance(c, m).phase = (IF c.pos = Len(Order[c.entry]) THEN "done" ELSE c.phase)
         /\ Advance(c, m).loaded = c.loaded /\ Advance(c, m).rechecked = c.rechecked
         /\ Advance(c, m).blind = c.blind
         /\ Advance(c, m).failed = (c.failed \/ MissingImport(m, c.loaded))
<1> DEFINE p == c.pos + 1
           f == c.failed \/ MissingImport(m, c.loaded)
           w == IF c.pos = Len(Order[c.entry]) THEN "done" ELSE c.phase
<1>1. Advance(c, m) = [c EXCEPT !.pos = p, !.failed = f, !.phase = w]
  BY DEF Advance
<1> HIDE DEF p, f, w
<1>2. Advance(c, m) = [phase |-> w, entry |-> c.entry, pos |-> p, loaded |-> c.loaded,
                       rechecked |-> c.rechecked, blind |-> c.blind, failed |-> f]
  BY <1>1 DEF IsRun
<1>3. QED  BY <1>2 DEF IsRun, p, f, w

(* What a step of the analysis does to the process that takes it.          *)
Analysed(c, d) ==
    /\ IsRun(d) /\ d.entry = c.entry /\ d.loaded = c.loaded /\ d.pos = c.pos + 1
    /\ d.phase = (IF c.pos = Len(Order[c.entry]) THEN "done" ELSE c.phase)
    /\ d.failed \in BOOLEAN /\ (c.failed => d.failed)

LEMMA SkipShape ==
  ASSUME NEW c, RunTypes(c), NEW m, NEW more, NEW d,
         d \in {[Advance(c, m) EXCEPT !.blind = @ \union more]}
  PROVE  Analysed(c, d) /\ d.rechecked = c.rechecked /\ d.blind = c.blind \union more
<1> DEFINE a == Advance(c, m)
           g == a.blind \union more
<1>1. /\ IsRun(a) /\ a.entry = c.entry /\ a.pos = c.pos + 1
      /\ a.phase = (IF c.pos = Len(Order[c.entry]) THEN "done" ELSE c.phase)
      /\ a.loaded = c.loaded /\ a.rechecked = c.rechecked /\ a.blind = c.blind
      /\ a.failed = (c.failed \/ MissingImport(m, c.loaded))
  BY AdvanceShape DEF RunTypes
<1>2. a.failed \in BOOLEAN /\ (c.failed => a.failed)
  BY <1>1, Zenon DEF RunTypes
<1> HIDE DEF a, g
<1>3. d = [a EXCEPT !.blind = g]
  BY DEF a, g
<1>4. PICK f \in {a.failed} :
        d = [phase |-> a.phase, entry |-> a.entry, pos |-> a.pos, loaded |-> a.loaded,
             rechecked |-> a.rechecked, blind |-> g, failed |-> f]
  BY <1>1, <1>3 DEF IsRun
<1>5. /\ IsRun(d) /\ d.phase = a.phase /\ d.entry = a.entry /\ d.pos = a.pos /\ d.loaded = a.loaded
      /\ d.rechecked = a.rechecked /\ d.blind = g /\ d.failed = f
  BY <1>4, RunFields
<1>6. QED  BY <1>1, <1>2, <1>5 DEF Analysed, g

LEMMA RecheckShape ==
  ASSUME NEW c, RunTypes(c), NEW m, NEW d,
         \/ d \in {[Advance(c, m) EXCEPT !.rechecked = @ \union {m}]}
         \/ d \in {[Advance(c, m) EXCEPT !.rechecked = @ \union {m}, !.failed = TRUE]}
  PROVE  Analysed(c, d) /\ d.rechecked = c.rechecked \union {m} /\ d.blind = c.blind
<1> DEFINE a == Advance(c, m)
           r == a.rechecked \union {m}
<1>1. /\ IsRun(a) /\ a.entry = c.entry /\ a.pos = c.pos + 1
      /\ a.phase = (IF c.pos = Len(Order[c.entry]) THEN "done" ELSE c.phase)
      /\ a.loaded = c.loaded /\ a.rechecked = c.rechecked /\ a.blind = c.blind
      /\ a.failed = (c.failed \/ MissingImport(m, c.loaded))
  BY AdvanceShape DEF RunTypes
<1>2. a.failed \in BOOLEAN /\ (c.failed => a.failed)
  BY <1>1, Zenon DEF RunTypes
<1> HIDE DEF a, r
<1>3. d = [a EXCEPT !.rechecked = r] \/ d = [a EXCEPT !.rechecked = r, !.failed = TRUE]
  BY DEF a, r
<1>4. PICK f \in {a.failed, TRUE} :
        d = [phase |-> a.phase, entry |-> a.entry, pos |-> a.pos, loaded |-> a.loaded,
             rechecked |-> r, blind |-> a.blind, failed |-> f]
  BY <1>1, <1>3 DEF IsRun
<1>5. IsRun(d) /\ d.phase = a.phase /\ d.entry = a.entry /\ d.pos = a.pos /\ d.loaded = a.loaded
      /\ d.rechecked = r /\ d.blind = a.blind /\ d.failed = f
  BY <1>4, RunFields
<1>6. QED  BY <1>1, <1>2, <1>5 DEF Analysed, r

LEMMA RunIn ==
  ASSUME NEW c, RunTypes(c)
  PROVE  /\ c.entry \in Entries /\ c.entry \in Modules /\ c.entry \in Graph(c.entry)
         /\ Graph(c.entry) \subseteq Modules /\ c.pos \in Nat \ {0}
         /\ DOMAIN Order[c.entry] = 1 .. Len(Order[c.entry]) /\ Len(Order[c.entry]) \in Nat
         /\ \A m \in Graph(c.entry) : Deps[m] \subseteq Graph(c.entry)
<1>1. c.entry \in Entries /\ c.pos \in 1 .. Len(Order[c.entry]) + 1
  BY DEF RunTypes
<1>2. QED  BY <1>1, GraphClosed

LEMMA LiveTypes ==
  ASSUME CheckTypes, NEW p \in Live
  PROVE  /\ p \in Checkers /\ RunTypes(check[p]) /\ Loaded(check[p], files)
         /\ check[p].entry \in Modules /\ check[p].entry \in Graph(check[p].entry)
         /\ Graph(check[p].entry) \subseteq Modules
         /\ \A m \in Graph(check[p].entry) : Deps[m] \subseteq Graph(check[p].entry)
BY RunIn DEF CheckTypes, Live

LEMMA DepsAreModules == \A m \in Modules : Deps[m] \subseteq Modules
BY CheckAssumption

(* Where less is trusted than before and less is fresh, the stamps hold.   *)
LEMMA LessToHold ==
  ASSUME CheckTypes, StampsHold, files' = files,
         \A m \in Modules : Trusted(m)' => Trusted(m) \/ Accepts(m, files),
         \A m \in Modules : Fresh(m)' => Fresh(m),
         \A p \in Live' :
            \/ p \in Live /\ check'[p].entry = check[p].entry /\ check'[p].loaded = check[p].loaded
            \/ Vouched(p, check[p].entry)'
  PROVE  StampsHold'
<1>1. ASSUME NEW m \in Modules PROVE StampHolds(m)'
  <2>1. StampHolds(m) /\ Deps[m] \subseteq Modules
    BY DepsAreModules DEF StampsHold
  <2>2. QED  BY <2>1 DEF StampHolds
<1>2. ASSUME NEW p \in Live' PROVE EntryHolds(p)'
  <2>1. CASE Vouched(p, check[p].entry)'
    BY <2>1 DEF EntryHolds
  <2>2. CASE /\ p \in Live /\ check'[p].entry = check[p].entry
             /\ check'[p].loaded = check[p].loaded
    <3>1. EntryHolds(p)
      BY <2>2 DEF StampsHold
    <3>2. check[p].entry \in Modules /\ Deps[check[p].entry] \subseteq Modules
      BY <2>2, LiveTypes, DepsAreModules
    <3>3. Vouched(p, check[p].entry)' <=> Vouched(p, check[p].entry)
      BY <2>2 DEF Vouched, StampOf
    <3>4. \A d : StampOf(d)' = StampOf(d)
      BY DEF StampOf
    <3>5. QED  BY <2>2, <3>1, <3>2, <3>3, <3>4 DEF EntryHolds
  <2>3. QED  BY <2>1, <2>2
<1>3. QED  BY <1>1, <1>2 DEF StampsHold

(* The module a process has come to, and what precedes it.                 *)
LEMMA CurrentIs ==
  ASSUME CheckTypes, NEW p \in Live, check[p].phase = "analysing"
  PROVE  /\ Current(p) \in Graph(check[p].entry) /\ Current(p) \in Modules
         /\ Current(p) \notin Passed(p) /\ Deps[Current(p)] \subseteq Passed(p)
         /\ Passed(p) \subseteq Graph(check[p].entry)
         /\ \A m \in Passed(p) : Deps[m] \subseteq Passed(p)
<1> DEFINE e == check[p].entry
           o == Order[e]
           at == check[p].pos
<1>1. e \in Entries /\ Graph(e) \subseteq Modules /\ DOMAIN o = 1 .. Len(o) /\ Len(o) \in Nat
  BY LiveTypes, RunIn
<1>2. at \in 1 .. Len(o)
  BY <1>1, LiveTypes DEF RunTypes
<1>3. /\ \A i, j \in DOMAIN o : o[i] = o[j] => i = j
      /\ \A i \in DOMAIN o : \A d \in Deps[o[i]] : \E j \in 1 .. i - 1 : o[j] = d
  BY <1>1, OrderAssumption
<1>4. Current(p) = o[at] /\ Passed(p) = {o[i] : i \in 1 .. at - 1} /\ Graph(e) = {o[i] : i \in DOMAIN o}
  BY DEF Current, Passed, Graph
<1> HIDE DEF e, o, at
<1>5. 1 .. at - 1 \subseteq DOMAIN o /\ at \in DOMAIN o /\ at \notin 1 .. at - 1
  BY <1>1, <1>2
<1>6. Current(p) \in Graph(e) /\ Current(p) \notin Passed(p) /\ Deps[Current(p)] \subseteq Passed(p)
  BY <1>3, <1>4, <1>5
<1>7. Passed(p) \subseteq Graph(e)
  BY <1>4, <1>5
<1>8. ASSUME NEW m \in Passed(p) PROVE Deps[m] \subseteq Passed(p)
  <2>1. PICK i \in 1 .. at - 1 : m = o[i]
    BY <1>4
  <2>2. 1 .. i - 1 \subseteq 1 .. at - 1
    BY <1>1, <1>2
  <2>3. QED  BY <1>3, <1>4, <1>5, <2>1, <2>2
<1>9. QED  BY <1>1, <1>6, <1>7, <1>8 DEF e

(* A step of the analysis, seen from outside.                              *)
Moved(p, d) ==
    /\ check[p].phase = "analysing"
    /\ Analysed(check[p], d)
    /\ d.rechecked \in {check[p].rechecked, check[p].rechecked \union {Current(p)}}
    /\ check' = [check EXCEPT ![p] = d]

LEMMA MoveFacts ==
  ASSUME CheckTypes, NEW p \in Checkers, NEW d, Moved(p, d)
  PROVE  /\ p \in Live /\ Live' = Live /\ check'[p] = d
         /\ \A q \in Checkers \ {p} : check'[q] = check[q]
         /\ \A q \in Live : /\ check'[q].entry = check[q].entry
                            /\ check'[q].loaded = check[q].loaded
         /\ Passed(p)' = Passed(p) \union {Current(p)}
         /\ \A q \in Checkers \ {p} : Passed(q)' = Passed(q) /\ Skipped(q)' = Skipped(q)
         /\ \A q \in Checkers \ {p} : PassedOver(q)' = PassedOver(q)
         /\ check[p].rechecked \subseteq Passed(p)
<1>1. check' = [q \in Checkers |-> IF q = p THEN d ELSE check[q]]
  BY DEF CheckTypes, Moved
<1>2. p \in Live
  BY DEF Live, Moved
<1>3. check'[p] = d /\ \A q \in Checkers \ {p} : check'[q] = check[q]
  BY <1>1
<1>4. d.entry = check[p].entry /\ d.loaded = check[p].loaded /\ d.pos = check[p].pos + 1
      /\ d.phase \in {"analysing", "done"}
  BY DEF Moved, Analysed
<1>5. Live' = Live
  BY <1>2, <1>3, <1>4 DEF Live
<1>6. \A q \in Live : check'[q].entry = check[q].entry /\ check'[q].loaded = check[q].loaded
  BY <1>3, <1>4 DEF Live
<1>7. Passed(p)' = Passed(p) \union {Current(p)}
  <2> DEFINE o == Order[check[p].entry]
             at == check[p].pos
  <2>1. at \in Nat \ {0}
    BY <1>2, LiveTypes, RunIn
  <2>2. check'[p].entry = check[p].entry /\ check'[p].pos - 1 = at
    BY <1>3, <1>4, <2>1
  <2>3. Passed(p)' = {o[i] : i \in 1 .. at}
    <3>1. Passed(p)' = {Order[check'[p].entry][i] : i \in 1 .. check'[p].pos - 1}
      BY DEF Passed
    <3>2. QED  BY <2>2, <3>1
  <2>4. Passed(p) = {o[i] : i \in 1 .. at - 1} /\ Current(p) = o[at]
    BY DEF Passed, Current
  <2> HIDE DEF o, at
  <2>5. 1 .. at = (1 .. at - 1) \union {at}
    BY <2>1
  <2>6. QED  BY <2>3, <2>4, <2>5
<1>8. \A q \in Checkers \ {p} : Passed(q)' = Passed(q) /\ Skipped(q)' = Skipped(q)
  BY <1>3 DEF Passed, Skipped
<1>9. \A q \in Checkers \ {p} : PassedOver(q)' = PassedOver(q)
  BY <1>3 DEF PassedOver
<1>10. check[p].rechecked \subseteq Passed(p)
  BY <1>2, LiveTypes DEF RunTypes, Passed
<1>11. QED  BY <1>2, <1>3, <1>5, <1>6, <1>7, <1>8, <1>9, <1>10

LEMMA MoveKeepsTypes ==
  ASSUME CheckTypes, NEW p \in Checkers, NEW d, Moved(p, d), UNCHANGED <<files, clock>>,
         stamps' = [m \in Modules |-> stamps'[m]],
         \A m \in Modules : stamps'[m] \in {stamps[m], StampOf(m), None}
  PROVE  CheckTypes'
<1>1. /\ p \in Live /\ Live' = Live /\ check'[p] = d
      /\ \A q \in Checkers \ {p} : check'[q] = check[q]
      /\ check[p].rechecked \subseteq Passed(p)
  BY MoveFacts
<1>2. RunTypes(check[p]) /\ Loaded(check[p], files)
  BY <1>1, LiveTypes
<1>3. RunTypes(d)
  <2> DEFINE e == check[p].entry
             at == check[p].pos
             r == check[p].rechecked
             o == Order[e]
  <2>1. /\ IsRun(d) /\ d.entry = e /\ d.pos = at + 1 /\ d.failed \in BOOLEAN
        /\ d.phase = (IF at = Len(o) THEN "done" ELSE "analysing")
        /\ d.rechecked \in {r, r \union {o[at]}}
    BY DEF Moved, Analysed, Current
  <2>2. e \in Entries /\ at \in 1 .. Len(o) /\ Len(o) \in Nat
    BY <1>2, RunIn DEF RunTypes, Moved
  <2>3. r \subseteq {o[i] : i \in 1 .. at - 1}
    BY <1>1 DEF Passed
  <2> HIDE DEF e, at, r, o
  <2>4. 1 .. at + 1 - 1 = (1 .. at - 1) \union {at} /\ at + 1 \in 1 .. Len(o) + 1
        /\ (at # Len(o) => at + 1 =< Len(o))
    BY <2>2
  <2>5. d.rechecked \subseteq {o[i] : i \in 1 .. at + 1 - 1}
    BY <2>1, <2>3, <2>4
  <2>6. d.phase \in {"analysing", "done"} /\ (d.phase = "analysing" => at + 1 =< Len(o))
        /\ (d.phase = "done" => at + 1 = Len(o) + 1)
    BY <2>1, <2>4
  <2>7. QED  BY <2>1, <2>2, <2>4, <2>5, <2>6 DEF RunTypes, o
<1>4. Loaded(d, files)
  BY <1>2 DEF Moved, Analysed, Loaded
<1>5. \A q \in Live : RunTypes(check'[q]) /\ Loaded(check'[q], files)
  BY <1>1, <1>3, <1>4, LiveTypes DEF Live
<1>6. check' = [q \in Checkers |-> check'[q]]
  BY DEF CheckTypes, Moved
<1>7. \A m \in Modules : stamps'[m] \in 0 .. clock \union {None}
  BY DEF CheckTypes
<1>8. QED  BY <1>1, <1>5, <1>6, <1>7 DEF CheckTypes, StampOf

LEMMA MoveKeepsOrder ==
  ASSUME CheckTypes, LoadsInOrder, NEW p \in Checkers, NEW d, Moved(p, d)
  PROVE  LoadsInOrder'
<1>1. Live' = Live /\ \A q \in Live : /\ check'[q].entry = check[q].entry
                                      /\ check'[q].loaded = check[q].loaded
  BY MoveFacts
<1>2. \A q, r \in Live : NoLater(check'[q], check'[r]) <=> NoLater(check[q], check[r])
  BY <1>1 DEF NoLater
<1>3. QED  BY <1>1, <1>2 DEF LoadsInOrder

(* A verdict holds on: nothing that was saved is as it was loaded again.   *)
LEMMA MoveKeepsVerdicts ==
  ASSUME CheckInv, NEW p \in Checkers, NEW d, Moved(p, d), files' = files,
         check[p].blind \subseteq d.blind,
         ~d.failed => Upheld(d, Current(p)) \/ ~Vouched(p, Current(p))
  PROVE  \A q \in Live' : VerdictHolds(q)'
<1>1. /\ Live' = Live /\ check'[p] = d /\ p \in Live
      /\ \A q \in Checkers \ {p} : check'[q] = check[q]
      /\ \A q \in Live : check'[q].loaded = check[q].loaded
      /\ Passed(p)' = Passed(p) \union {Current(p)}
      /\ \A q \in Checkers \ {p} : Passed(q)' = Passed(q)
  BY MoveFacts DEF CheckInv
<1>2. \A q \in Live : \A m : Vouched(q, m)' <=> Vouched(q, m)
  BY <1>1 DEF Vouched, StampOf
<1>3. ASSUME NEW q \in Live, q # p PROVE VerdictHolds(q)'
  <2>1. VerdictHolds(q) /\ q \in Checkers \ {p}
    BY <1>3 DEF CheckInv, Live
  <2>2. QED  BY <1>1, <1>2, <2>1 DEF VerdictHolds, Upheld
<1>4. VerdictHolds(p)'
  <2>1. d.failed \in BOOLEAN /\ (check[p].failed => d.failed) /\ d.loaded = check[p].loaded
    BY DEF Moved, Analysed
  <2>2. SUFFICES ASSUME ~d.failed, NEW m \in Passed(p)' PROVE Upheld(d, m) \/ ~Vouched(p, m)'
    BY <1>1 DEF VerdictHolds
  <2>3. CASE m = Current(p)
    BY <1>1, <1>2, <2>2, <2>3
  <2>4. CASE m \in Passed(p)
    <3>1. VerdictHolds(p) /\ ~check[p].failed
      BY <1>1, <2>1, <2>2 DEF CheckInv
    <3>2. Upheld(check[p], m) \/ ~Vouched(p, m)
      BY <2>4, <3>1 DEF VerdictHolds
    <3>3. Upheld(check[p], m) => Upheld(d, m)
      BY <2>1 DEF Upheld
    <3>4. QED  BY <1>1, <1>2, <3>2, <3>3
  <2>5. QED  BY <1>1, <2>3, <2>4
<1>5. QED  BY <1>1, <1>3, <1>4

(* The texts a process vouches for are those it loaded.                    *)
LEMMA VouchedIsLoaded ==
  ASSUME CheckTypes, NEW p \in Live, NEW m \in Graph(check[p].entry), Vouched(p, m)
  PROVE  Accepts(m, check[p].loaded) <=> Accepts(m, files)
<1>1. Deps[m] \subseteq Graph(check[p].entry) /\ Loaded(check[p], files)
  BY LiveTypes
<1>2. \A n \in {m} \union Deps[m] : check[p].loaded[n] = files[n]
  BY <1>1 DEF Vouched, Loaded, StampOf
<1>3. QED  BY <1>2 DEF Accepts

(* A skipped module whose stamp was not exposed need not be analysed: what *)
(* it imports was skipped before it.                                       *)
LEMMA SkipKeeps ==
  ASSUME CheckInv, NEW p \in Checkers, SkipModule(p)
  PROVE  CheckInv'
<1> DEFINE m == Current(p)
           d == [Advance(check[p], m) EXCEPT !.blind = @ \union (Exposed(p) \intersect {m})]
<1>1. check[p].phase = "analysing" /\ Skippable(p) /\ check' = [check EXCEPT ![p] = d]
      /\ UNCHANGED <<workspaceVars, stamps, exposed>>
  BY DEF SkipModule
<1>2. p \in Live /\ CheckTypes
  BY <1>1 DEF Live, CheckInv
<1>3. Analysed(check[p], d) /\ d.rechecked = check[p].rechecked
      /\ d.blind = check[p].blind \union (Exposed(p) \intersect {m})
  <2>1. RunTypes(check[p])
    BY <1>2, LiveTypes
  <2> DEFINE more == Exposed(p) \intersect {m}
  <2>2. d \in {[Advance(check[p], m) EXCEPT !.blind = @ \union more]}
    OBVIOUS
  <2> HIDE DEF more, d, m
  <2>3. Analysed(check[p], d) /\ d.rechecked = check[p].rechecked
        /\ d.blind = check[p].blind \union more
    BY <2>1, <2>2, SkipShape
  <2>4. QED  BY <2>3 DEF more
<1> HIDE DEF d
<1>4. Moved(p, d)
  BY <1>1, <1>3 DEF Moved
<1>5. /\ Live' = Live /\ check'[p] = d /\ \A q \in Checkers \ {p} : check'[q] = check[q]
      /\ \A q \in Live : check'[q].entry = check[q].entry /\ check'[q].loaded = check[q].loaded
      /\ Passed(p)' = Passed(p) \union {m}
      /\ \A q \in Checkers \ {p} : Skipped(q)' = Skipped(q) /\ PassedOver(q)' = PassedOver(q)
  BY <1>2, <1>4, MoveFacts
<1>6. m \in Modules /\ m \in Graph(check[p].entry) /\ m \notin Passed(p) /\ Deps[m] \subseteq Passed(p)
  BY <1>1, <1>2, CurrentIs
<1>7. stamps[m] = StampOf(m) /\ Deps[m] \intersect check[p].rechecked = {}
  BY <1>1 DEF Skippable, StampMatches
<1>8. files' = files /\ stamps' = stamps /\ exposed' = exposed /\ clock' = clock
  BY <1>1 DEF workspaceVars
<1>9. CheckTypes'
  BY <1>2, <1>4, <1>8, MoveKeepsTypes DEF CheckTypes
<1>10. StampsHold'
  <2>1. PassedOver(p)' = PassedOver(p)
    <3>1. check'[p].phase # "idle" /\ check'[p].rechecked = check[p].rechecked
          /\ check'[p].entry = check[p].entry
      BY <1>3, <1>5, <1>1 DEF Analysed
    <3>2. QED  BY <1>1, <3>1 DEF PassedOver
  <2>2. \A q \in Live : PassedOver(q)' = PassedOver(q)
    BY <1>5, <2>1 DEF Live
  <2>3. \A q \in Live : \A k : Masks(q, k)' <=> Masks(q, k)
    BY <1>5, <1>8, <2>2 DEF Masks, Vouched, StampOf
  <2>4. \A k : Trusted(k)' <=> Trusted(k)
    BY <1>5, <1>8, <2>3 DEF Trusted, StampOf
  <2>5. Skipped(p)' \subseteq Skipped(p) \union {m}
    BY <1>3, <1>5 DEF Skipped
  <2>6. \A k : Fresh(k)' => Fresh(k)
    <3>1. SUFFICES ASSUME NEW k, Fresh(k)', stamps[k] # StampOf(k) PROVE Fresh(k)
      BY DEF Fresh
    <3>2. PICK q \in Live : k \in Skipped(q)' /\ check'[q].loaded[k].stamp = StampOf(k)
      BY <1>5, <1>8, <3>1 DEF Fresh, StampOf
    <3>3. k # m
      BY <1>7, <3>1
    <3>4. k \in Skipped(q)
      BY <1>5, <2>5, <3>2, <3>3 DEF Live
    <3>5. QED  BY <1>5, <3>2, <3>4 DEF Fresh
  <2>7. QED  BY <1>2, <1>5, <1>8, <2>4, <2>6, LessToHold DEF CheckInv
<1>11. ~d.failed => Upheld(d, m) \/ ~Vouched(p, m)
  <2>1. SUFFICES ASSUME Vouched(p, m), m \notin d.blind PROVE Accepts(m, d.loaded)
    BY DEF Upheld
  <2>2. m \notin Exposed(p)
    BY <1>3, <2>1
  <2>3. m \notin exposed /\ \A q \in Checkers \ {p} : m \notin PassedOver(q)
    BY <2>2 DEF Exposed
  <2>4. m \notin PassedOver(p)
    BY <1>7 DEF PassedOver
  <2>5. Trusted(m)
    BY <1>7, <2>3, <2>4 DEF Trusted, Masks, Live
  <2>6. \A n \in Deps[m] : Fresh(n)
    <3>1. SUFFICES ASSUME NEW n \in Deps[m] PROVE Fresh(n)
      OBVIOUS
    <3>2. n \in Skipped(p)
      BY <1>6, <1>7 DEF Skipped
    <3>3. check[p].loaded[n].stamp = StampOf(n)
      BY <2>1 DEF Vouched
    <3>4. QED  BY <1>2, <3>2, <3>3 DEF Fresh
  <2>7. Accepts(m, files)
    BY <1>6, <2>5, <2>6 DEF CheckInv, StampsHold, StampHolds
  <2>8. Accepts(m, check[p].loaded)
    BY <1>2, <1>6, <2>1, <2>7, VouchedIsLoaded
  <2>9. QED  BY <1>3, <2>8 DEF Analysed
<1>12. LoadsInOrder'
  BY <1>2, <1>4, MoveKeepsOrder DEF CheckInv
<1>13. \A q \in Live' : VerdictHolds(q)'
  BY <1>3, <1>4, <1>8, <1>11, MoveKeepsVerdicts
<1>14. QED  BY <1>9, <1>10, <1>12, <1>13 DEF CheckInv

(* What the analysis of a module changes, accepted or not.                 *)
LEMMA RecheckFacts ==
  ASSUME CheckTypes, NEW p \in Live, NEW d, Moved(p, d),
         d.rechecked = check[p].rechecked \union {Current(p)}
  PROVE  /\ Skipped(p)' \subseteq Skipped(p)
         /\ PassedOver(p) \ {Current(p)} \subseteq PassedOver(p)'
         /\ Current(p) # check[p].entry =>
               \A i \in Modules : Current(p) \in Deps[i] => i \in PassedOver(p)'
<1> DEFINE m == Current(p)
<1>1. /\ check'[p] = d /\ Passed(p)' = Passed(p) \union {m} /\ check[p].rechecked \subseteq Passed(p)
      /\ p \in Checkers
  BY MoveFacts, LiveTypes
<1>2. d.phase # "idle" /\ d.entry = check[p].entry /\ check[p].phase # "idle"
  BY DEF Moved, Analysed
<1>3. Skipped(p)' \subseteq Skipped(p)
  BY <1>1 DEF Skipped
<1>4. PassedOver(p)' = {i \in Modules \ (check[p].rechecked \union {m}) :
         (Deps[i] \intersect (check[p].rechecked \union {m})) \ {check[p].entry} # {}}
  BY <1>1, <1>2 DEF PassedOver
<1>5. PassedOver(p) \ {m} \subseteq PassedOver(p)'
  BY <1>2, <1>4 DEF PassedOver
<1>6. ASSUME m # check[p].entry, NEW i \in Modules, m \in Deps[i] PROVE i \in PassedOver(p)'
  <2>1. m \notin Passed(p) /\ Deps[m] \subseteq Passed(p) /\ \A k \in Passed(p) : Deps[k] \subseteq Passed(p)
    BY CurrentIs DEF Moved
  <2>2. i # m /\ i \notin check[p].rechecked
    BY <1>1, <1>6, <2>1
  <2>3. QED  BY <1>4, <1>6, <2>2
<1>7. QED  BY <1>3, <1>5, <1>6

LEMMA RejectKeeps ==
  ASSUME CheckInv, NEW p \in Checkers, RejectModule(p)
  PROVE  CheckInv'
<1> DEFINE m == Current(p)
           d == [Advance(check[p], m) EXCEPT !.rechecked = @ \union {m}, !.failed = TRUE]
<1>1. /\ check[p].phase = "analysing" /\ check' = [check EXCEPT ![p] = d]
      /\ stamps' = [stamps EXCEPT ![m] = None] /\ UNCHANGED <<workspaceVars, exposed>>
  BY DEF RejectModule
<1>2. p \in Live /\ CheckTypes
  BY <1>1 DEF Live, CheckInv
<1>3. Analysed(check[p], d) /\ d.rechecked = check[p].rechecked \union {m}
      /\ d.blind = check[p].blind /\ d.failed
  <2>1. RunTypes(check[p])
    BY <1>2, LiveTypes
  <2>2. IsRun(Advance(check[p], m))
    BY <2>1, AdvanceShape DEF RunTypes
  <2>3. d.failed
    BY <2>2 DEF IsRun
  <2>4. d \in {[Advance(check[p], m) EXCEPT !.rechecked = @ \union {m}, !.failed = TRUE]}
    OBVIOUS
  <2> HIDE DEF m, d
  <2> DEFINE c == check[p]
  <2>5. RunTypes(c) /\ d \in {[Advance(c, m) EXCEPT !.rechecked = @ \union {m}, !.failed = TRUE]}
    BY <2>1, <2>4
  <2> HIDE DEF c
  <2>6. Analysed(c, d) /\ d.rechecked = c.rechecked \union {m} /\ d.blind = c.blind
    BY <2>5, RecheckShape, Zenon
  <2>7. QED  BY <2>3, <2>6 DEF c
<1> HIDE DEF d
<1>4. Moved(p, d)
  BY <1>1, <1>3 DEF Moved
<1>5. /\ Live' = Live /\ check'[p] = d /\ \A q \in Checkers \ {p} : check'[q] = check[q]
      /\ \A q \in Live : check'[q].entry = check[q].entry /\ check'[q].loaded = check[q].loaded
      /\ \A q \in Checkers \ {p} : Skipped(q)' = Skipped(q) /\ PassedOver(q)' = PassedOver(q)
  BY <1>2, <1>4, MoveFacts
<1>6. m \in Modules
  BY <1>1, <1>2, CurrentIs
<1>7. Skipped(p)' \subseteq Skipped(p) /\ PassedOver(p) \ {m} \subseteq PassedOver(p)'
  BY <1>2, <1>3, <1>4, RecheckFacts
<1>8. files' = files /\ exposed' = exposed /\ clock' = clock
  BY <1>1 DEF workspaceVars
<1>9. stamps' = [k \in Modules |-> IF k = m THEN None ELSE stamps[k]]
  BY <1>1, <1>2 DEF CheckTypes
<1>10. CheckTypes'
  <2>1. stamps' = [k \in Modules |-> stamps'[k]] /\ \A k \in Modules : stamps'[k] \in {stamps[k], StampOf(k), None}
    BY <1>9
  <2>2. QED  BY <1>2, <1>4, <1>8, <2>1, MoveKeepsTypes
<1>11. \A k \in Modules : StampOf(k) # None
  BY <1>2, CheckAssumption, WorkspaceAssumption DEF CheckTypes
<1>12. StampsHold'
  <2>1. \A q \in Live : \A k : k # m => (Masks(q, k) => Masks(q, k)')
    BY <1>5, <1>7, <1>8 DEF Masks, Vouched, StampOf, Live
  <2>2. \A k \in Modules : Trusted(k)' => Trusted(k)
    BY <1>5, <1>8, <1>9, <1>11, <2>1 DEF Trusted, StampOf
  <2>3. \A q \in Live : Skipped(q)' \subseteq Skipped(q)
    BY <1>5, <1>7 DEF Live
  <2>4. \A k \in Modules : Fresh(k)' => Fresh(k)
    BY <1>5, <1>8, <1>9, <1>11, <2>3 DEF Fresh, StampOf
  <2>5. QED  BY <1>2, <1>5, <1>8, <2>2, <2>4, LessToHold DEF CheckInv
<1>13. LoadsInOrder'
  BY <1>2, <1>4, MoveKeepsOrder DEF CheckInv
<1>14. \A q \in Live' : VerdictHolds(q)'
  BY <1>3, <1>4, <1>8, MoveKeepsVerdicts
<1>15. QED  BY <1>10, <1>12, <1>13, <1>14 DEF CheckInv

(* A module that is accepted is stamped with the time of the file as it is *)
(* now: either that is the text accepted, and what it imports is as it was *)
(* loaded, or it is exposed.  Its importers are masked until the process   *)
(* has come to them, but for an entry that saves have overtaken.           *)
LEMMA AcceptKeeps ==
  ASSUME CheckInv, NEW p \in Checkers, AcceptModule(p)
  PROVE  CheckInv'
<1> DEFINE m == Current(p)
           d == [Advance(check[p], m) EXCEPT !.rechecked = @ \union {m}]
<1>1. /\ check[p].phase = "analysing" /\ check' = [check EXCEPT ![p] = d]
      /\ Accepts(m, check[p].loaded)
      /\ stamps' = (IF m = check[p].entry THEN stamps ELSE [stamps EXCEPT ![m] = StampOf(m)])
      /\ exposed' = (IF m = check[p].entry THEN exposed
                     ELSE IF Vouched(p, m) THEN exposed \ {m}
                     ELSE exposed \union {m} \union {i \in Modules : m \in Deps[i]})
      /\ UNCHANGED workspaceVars
  BY DEF AcceptModule
<1>2. p \in Live /\ CheckTypes
  BY <1>1 DEF Live, CheckInv
<1>3. Analysed(check[p], d) /\ d.rechecked = check[p].rechecked \union {m}
      /\ d.blind = check[p].blind
  <2>1. RunTypes(check[p])
    BY <1>2, LiveTypes
  <2>2. d \in {[Advance(check[p], m) EXCEPT !.rechecked = @ \union {m}]}
    OBVIOUS
  <2> HIDE DEF m, d
  <2>3. QED  BY <2>1, <2>2, RecheckShape
<1> HIDE DEF d
<1>4. Moved(p, d)
  BY <1>1, <1>3 DEF Moved
<1>5. /\ Live' = Live /\ check'[p] = d /\ \A q \in Checkers \ {p} : check'[q] = check[q]
      /\ \A q \in Live : check'[q].entry = check[q].entry /\ check'[q].loaded = check[q].loaded
      /\ \A q \in Checkers \ {p} : Skipped(q)' = Skipped(q) /\ PassedOver(q)' = PassedOver(q)
  BY <1>2, <1>4, MoveFacts
<1>6. m \in Modules /\ m \in Graph(check[p].entry) /\ m \notin Passed(p) /\ Deps[m] \subseteq Passed(p)
  BY <1>1, <1>2, CurrentIs
<1>7. /\ Skipped(p)' \subseteq Skipped(p) /\ PassedOver(p) \ {m} \subseteq PassedOver(p)'
      /\ m # check[p].entry => \A i \in Modules : m \in Deps[i] => i \in PassedOver(p)'
  BY <1>2, <1>3, <1>4, RecheckFacts
<1>8. files' = files /\ clock' = clock
  BY <1>1 DEF workspaceVars
<1>9. /\ stamps' = [k \in Modules |-> stamps'[k]]
      /\ \A k \in Modules : stamps'[k] \in {stamps[k], StampOf(k), None}
      /\ \A k \in Modules : k # m => stamps'[k] = stamps[k]
      /\ m = check[p].entry => stamps' = stamps
  BY <1>1, <1>2 DEF CheckTypes
<1>10. CheckTypes'
  BY <1>2, <1>4, <1>8, <1>9, MoveKeepsTypes
<1>11. \A q \in Live : \A k : Vouched(q, k)' <=> Vouched(q, k)
  BY <1>5, <1>8 DEF Vouched, StampOf
<1>12. Vouched(p, m) => Accepts(m, files)
  BY <1>1, <1>2, <1>6, VouchedIsLoaded
<1>13. \A q \in Live : Skipped(q)' \subseteq Skipped(q)
  BY <1>5, <1>7 DEF Live
<1>14. \A k \in Modules : Fresh(k)' => Fresh(k) \/ (k = m /\ m # check[p].entry)
  <2>1. SUFFICES ASSUME NEW k \in Modules, Fresh(k)', ~(k = m /\ m # check[p].entry) PROVE Fresh(k)
    OBVIOUS
  <2>2. stamps'[k] = stamps[k]
    BY <1>9, <2>1
  <2>3. QED  BY <1>5, <1>8, <1>13, <2>1, <2>2 DEF Fresh, StampOf
<1>15. \A k \in Modules : k # m => (k \notin exposed' => k \notin exposed)
  BY <1>1
<1>16. \A k \in Modules : k # m /\ Trusted(k)' => Trusted(k)
  <2>1. \A q \in Live : \A k : k # m => (Masks(q, k) => Masks(q, k)')
    BY <1>5, <1>7, <1>11 DEF Masks, Live
  <2>2. QED  BY <1>5, <1>8, <1>9, <1>15, <2>1 DEF Trusted, StampOf
<1>17. ASSUME NEW k, k = m, Trusted(k)' PROVE Trusted(k) \/ Accepts(k, files)
  <2>2. CASE k # check[p].entry
    BY <1>1, <1>12, <1>17, <2>2 DEF Trusted
  <2>3. CASE k = check[p].entry /\ Vouched(p, k)
    BY <1>12, <1>17, <2>3
  <2>4. CASE k = check[p].entry /\ ~Vouched(p, k)
    <3>1. \A q \in Live : ~Masks(q, k)
      <4>1. ~Masks(p, k)
        BY <2>4 DEF Masks
      <4>2. \A q \in Live \ {p} : ~Masks(q, k)
        BY <1>5, <1>11, <1>17 DEF Trusted, Masks, Live
      <4>3. QED  BY <4>1, <4>2
    <3>2. stamps[k] = StampOf(k) /\ k \notin exposed
      BY <1>1, <1>8, <1>17, <2>4 DEF Trusted, StampOf
    <3>3. QED  BY <3>1, <3>2 DEF Trusted
  <2>5. QED  BY <2>2, <2>3, <2>4
<1>18. \A k \in Modules : Trusted(k)' => Trusted(k) \/ Accepts(k, files)
  BY <1>16, <1>17
(* An importer of m that is trusted afterwards is the entry of p, that     *)
(* saves have overtaken, and what p loaded counts.                         *)
<1>19. ASSUME m # check[p].entry, NEW k \in Modules, m \in Deps[k], Trusted(k)'
       PROVE  /\ Trusted(k) /\ k = check[p].entry /\ ~Vouched(p, k)
              /\ check[p].loaded[m].stamp = StampOf(m)
  <2>1. k \in PassedOver(p)'
    BY <1>7, <1>19
  <2>2. k = check[p].entry /\ ~Vouched(p, k)
    BY <1>2, <1>5, <1>11, <1>19, <2>1 DEF Trusted, Masks
  <2>3. Vouched(p, m)
    BY <1>1, <1>19 DEF Trusted
  <2>4. Trusted(k)
    BY <1>16, <1>19, <2>2
  <2>5. QED  BY <2>2, <2>3, <2>4 DEF Vouched
<1>20. StampsHold'
  <2>1. CASE m = check[p].entry
    <3>1. \A k \in Modules : Fresh(k)' => Fresh(k)
      BY <1>14, <2>1
    <3>2. QED  BY <1>2, <1>5, <1>8, <1>18, <3>1, LessToHold DEF CheckInv
  <2>2. CASE m # check[p].entry
    <3>1. ASSUME NEW k \in Modules, Trusted(k)', \A n \in Deps[k] : Fresh(n)' PROVE Accepts(k, files)
      <4>1. Deps[k] \subseteq Modules /\ StampHolds(k) /\ EntryHolds(p)
        BY <1>2, DepsAreModules DEF CheckInv, StampsHold
      <4>2. CASE m \notin Deps[k]
        <5>1. \A n \in Deps[k] : Fresh(n)
          BY <1>14, <3>1, <4>1, <4>2
        <5>2. QED  BY <1>18, <3>1, <4>1, <5>1 DEF StampHolds
      <4>3. CASE m \in Deps[k]
        <5>1. /\ Trusted(k) /\ k = check[p].entry /\ ~Vouched(p, k)
              /\ check[p].loaded[m].stamp = StampOf(m)
          BY <1>19, <2>2, <3>1, <4>3
        <5>2. \A n \in Deps[k] : Fresh(n) \/ check[p].loaded[n].stamp = StampOf(n)
          BY <1>14, <3>1, <4>1, <5>1
        <5>3. QED  BY <4>1, <5>1, <5>2 DEF EntryHolds
      <4>4. QED  BY <4>2, <4>3
    <3>2. ASSUME NEW q \in Live, NEW k, k = check[q].entry, Trusted(k)', ~Vouched(q, k),
                 \A n \in Deps[k] : Fresh(n)' \/ check[q].loaded[n].stamp = StampOf(n)
          PROVE  Accepts(k, files)
      <4>1. k \in Modules /\ Deps[k] \subseteq Modules /\ Deps[k] \subseteq Graph(k) /\ EntryHolds(q) /\ EntryHolds(p)
        BY <1>2, <3>2, LiveTypes, DepsAreModules DEF CheckInv, StampsHold
      <4>2. CASE \A n \in Deps[k] : Fresh(n) \/ check[q].loaded[n].stamp = StampOf(n)
        BY <1>18, <3>2, <4>1, <4>2 DEF EntryHolds
      <4>3. CASE \E n \in Deps[k] : ~Fresh(n) /\ check[q].loaded[n].stamp # StampOf(n)
        <5>1. m \in Deps[k] /\ check[q].loaded[m].stamp # StampOf(m)
          BY <1>14, <3>2, <4>1, <4>3
        <5>2. /\ Trusted(k) /\ k = check[p].entry /\ ~Vouched(p, k)
              /\ check[p].loaded[m].stamp = StampOf(m)
          BY <1>19, <2>2, <3>2, <4>1, <5>1
        <5>3. \A n \in Deps[k] : /\ check[q].loaded[n].stamp \in Nat /\ check[p].loaded[n].stamp \in Nat
                                 /\ StampOf(n) \in Nat
                                 /\ check[q].loaded[n].stamp =< StampOf(n)
                                 /\ check[p].loaded[n].stamp =< StampOf(n)
          <6>1. Loaded(check[p], files) /\ Loaded(check[q], files) /\ \A n \in Modules : StampOf(n) \in Nat
            BY <1>2, LiveTypes DEF CheckTypes
          <6>2. QED  BY <3>2, <4>1, <5>2, <6>1 DEF Loaded, StampOf
        <5>4. ~NoLater(check[p], check[q])
          BY <3>2, <4>1, <5>1, <5>2, <5>3 DEF NoLater
        <5>5. \A n \in Deps[k] : check[q].loaded[n].stamp =< check[p].loaded[n].stamp
          BY <1>2, <3>2, <4>1, <5>2, <5>4 DEF CheckInv, LoadsInOrder, NoLater
        <5>6. \A n \in Deps[k] : Fresh(n) \/ check[p].loaded[n].stamp = StampOf(n)
          BY <1>14, <3>2, <4>1, <5>2, <5>3, <5>5
        <5>7. QED  BY <4>1, <5>2, <5>6 DEF EntryHolds
      <4>4. QED  BY <4>2, <4>3
    <3>3. \A k \in Modules : StampHolds(k)'
      BY <1>8, <3>1 DEF StampHolds
    <3>4. \A q \in Live : EntryHolds(q)'
      <4>1. SUFFICES ASSUME NEW q \in Live PROVE EntryHolds(q)'
        OBVIOUS
      <4>2. check'[q].entry = check[q].entry /\ check'[q].loaded = check[q].loaded
        BY <1>5
      <4>3. \A n : StampOf(n)' = StampOf(n)
        BY <1>8 DEF StampOf
      <4>4. QED  BY <1>8, <1>11, <3>2, <4>2, <4>3 DEF EntryHolds
    <3>5. QED  BY <1>5, <3>3, <3>4 DEF StampsHold
  <2>3. QED  BY <2>1, <2>2
<1>21. LoadsInOrder'
  BY <1>2, <1>4, MoveKeepsOrder DEF CheckInv
<1>22. Upheld(d, m)
  BY <1>1, <1>3 DEF Upheld, Analysed
<1>23. \A q \in Live' : VerdictHolds(q)'
  BY <1>3, <1>4, <1>8, <1>22, MoveKeepsVerdicts
<1>24. QED  BY <1>10, <1>20, <1>21, <1>23 DEF CheckInv

(* A process that starts has loaded what the files hold, the latest of all.*)
LEMMA StartKeeps ==
  ASSUME CheckInv, NEW p \in Checkers, NEW e \in Entries, StartCheck(p, e)
  PROVE  CheckInv'
<1> DEFINE held == [m \in Graph(e) |-> files[m]]
           d == [phase |-> "analysing", entry |-> e, pos |-> 1, loaded |-> held,
                 rechecked |-> {}, blind |-> {}, failed |-> FALSE]
<1>1. /\ check[p].phase = "idle" /\ check' = [check EXCEPT ![p] = d]
      /\ files' = files /\ clock' = clock /\ stamps' = stamps /\ exposed' = exposed
  BY DEF StartCheck, workspaceVars
<1>2. CheckTypes
  BY DEF CheckInv
<1>3. /\ Graph(e) \subseteq Modules /\ e \in Graph(e) /\ Len(Order[e]) \in Nat \ {0}
      /\ Deps[e] \subseteq Graph(e)
  BY GraphClosed
<1>4. check'[p] = d /\ \A q \in Checkers \ {p} : check'[q] = check[q]
  BY <1>1, <1>2 DEF CheckTypes
<1>5. /\ d.entry = e /\ d.phase = "analysing" /\ d.pos = 1 /\ d.rechecked = {} /\ d.loaded = held
      /\ d.failed = FALSE
  OBVIOUS
<1>6. p \notin Live /\ Live' = Live \union {p} /\ \A q \in Live : check'[q] = check[q]
  BY <1>1, <1>4, <1>5 DEF Live
<1>7. RunTypes(d)
  <2>1. IsRun(d)
    BY DEF IsRun
  <2>2. d.failed \in BOOLEAN
    BY <1>5
  <2> HIDE DEF d
  <2>3. d.pos \in 1 .. Len(Order[d.entry]) + 1 /\ d.pos =< Len(Order[d.entry])
    BY <1>3, <1>5
  <2>4. QED  BY <1>5, <2>1, <2>2, <2>3 DEF RunTypes
<1> HIDE DEF d
<1>8. \A m \in Graph(e) : held[m] = files[m]
  OBVIOUS
<1> HIDE DEF held
<1>9. Loaded(d, files)
  <2>1. \A m \in Modules : files[m].stamp \in Nat
    BY <1>2 DEF CheckTypes, StampOf
  <2>2. \A m \in Graph(e) : d.loaded[m] = files[m] /\ files[m].stamp \in Nat
    BY <1>3, <1>5, <1>8, <2>1
  <2>3. QED  BY <1>5, <2>2 DEF Loaded
<1>10. CheckTypes'
  <2>1. check' = [q \in Checkers |-> check'[q]]
    BY <1>1, <1>2 DEF CheckTypes
  <2>2. \A q \in Live' : RunTypes(check'[q]) /\ Loaded(check'[q], files)
    BY <1>2, <1>4, <1>6, <1>7, <1>9, LiveTypes
  <2>3. QED  BY <1>1, <1>2, <2>1, <2>2 DEF CheckTypes, StampOf
<1>11. LoadsInOrder'
  <2>1. \A q \in Live : NoLater(check[q], d)
    <3>1. SUFFICES ASSUME NEW q \in Live, NEW m \in Graph(check[q].entry) \intersect Graph(e)
                   PROVE  check[q].loaded[m].stamp =< d.loaded[m].stamp
      BY <1>5 DEF NoLater
    <3>2. check[q].loaded[m].stamp =< files[m].stamp
      BY <1>2, LiveTypes DEF Loaded
    <3>3. QED  BY <1>5, <1>8, <3>2
  <2>2. NoLater(d, d)
    BY <1>9 DEF NoLater, Loaded
  <2>3. QED  BY <1>4, <1>6, <2>1, <2>2 DEF CheckInv, LoadsInOrder
<1>12. StampsHold'
  <2>1. PassedOver(p)' = {} /\ Skipped(p)' = {}
    <3>1. check'[p].phase # "idle" /\ check'[p].rechecked = {} /\ check'[p].pos = 1
      BY <1>4, <1>5
    <3>2. Passed(p)' = {}
      BY <3>1 DEF Passed
    <3>3. QED  BY <3>1, <3>2 DEF PassedOver, Skipped
  <2>2. \A q \in Live : \A k : /\ Masks(q, k)' <=> Masks(q, k)
                               /\ Skipped(q)' = Skipped(q)
    BY <1>1, <1>6 DEF Masks, PassedOver, Vouched, StampOf, Skipped, Passed
  <2>3. \A k : Trusted(k)' <=> Trusted(k)
    BY <1>1, <1>6, <2>1, <2>2 DEF Trusted, Masks, StampOf
  <2>4. \A k : Fresh(k)' <=> Fresh(k)
    BY <1>1, <1>6, <2>1, <2>2 DEF Fresh, StampOf
  <2>5. \A k \in {e} \union Deps[e] : check'[p].loaded[k].stamp = StampOf(k)'
    BY <1>1, <1>3, <1>4, <1>5, <1>8 DEF StampOf
  <2>6. Vouched(p, check[p].entry)'
    <3>1. check'[p].entry = e
      BY <1>4, <1>5
    <3>2. QED  BY <2>5, <3>1 DEF Vouched
  <2>7. \A q \in Live' :
          \/ q \in Live /\ check'[q].entry = check[q].entry /\ check'[q].loaded = check[q].loaded
          \/ Vouched(q, check[q].entry)'
    BY <1>6, <2>6
  <2>8. QED  BY <1>1, <1>2, <2>3, <2>4, <2>7, LessToHold DEF CheckInv
<1>13. \A q \in Live' : VerdictHolds(q)'
  <2>1. VerdictHolds(p)'
    <3>1. check'[p].pos = 1
      BY <1>4, <1>5
    <3>2. Passed(p)' = {}
      BY <3>1 DEF Passed
    <3>3. QED  BY <3>2 DEF VerdictHolds
  <2>2. \A q \in Live : VerdictHolds(q)'
    <3>1. \A q \in Live : VerdictHolds(q)
      BY DEF CheckInv
    <3>2. QED  BY <1>1, <1>6, <3>1 DEF VerdictHolds, Upheld, Passed, Vouched, StampOf
  <2>3. QED  BY <1>6, <2>1, <2>2
<1>14. QED  BY <1>10, <1>11, <1>12, <1>13 DEF CheckInv

(* A process that ends, or is killed, leaves exposed what it masked.       *)
LEMMA StopKeeps ==
  ASSUME CheckInv, NEW p \in Live, check' = [check EXCEPT ![p] = Idle],
         exposed' = exposed \union PassedOver(p), UNCHANGED <<files, clock>>,
         stamps' = [m \in Modules |-> stamps'[m]],
         \A m \in Modules : stamps'[m] \in {stamps[m], None}
  PROVE  CheckInv'
<1>1. CheckTypes /\ p \in Checkers
  BY DEF CheckInv, Live
<1>2. check'[p].phase = "idle" /\ \A q \in Checkers \ {p} : check'[q] = check[q]
  BY <1>1 DEF CheckTypes, Idle
<1>3. Live' = Live \ {p} /\ \A q \in Live' : check'[q] = check[q]
  BY <1>1, <1>2 DEF Live
<1>4. \A m \in Modules : StampOf(m) # None /\ StampOf(m)' = StampOf(m)
  BY <1>1, CheckAssumption, WorkspaceAssumption DEF CheckTypes, StampOf
<1>5. CheckTypes'
  <2>1. check' = [q \in Checkers |-> check'[q]]
    BY <1>1 DEF CheckTypes
  <2>2. \A q \in Live' : RunTypes(check'[q]) /\ Loaded(check'[q], files)
    BY <1>1, <1>3, LiveTypes
  <2>3. QED  BY <1>1, <1>3, <1>4, <2>1, <2>2 DEF CheckTypes
<1>6. LoadsInOrder'
  BY <1>3 DEF CheckInv, LoadsInOrder
<1>7. StampsHold'
  <2>1. \A q \in Live' : \A k : (Masks(q, k)' <=> Masks(q, k)) /\ Skipped(q)' = Skipped(q)
    BY <1>3 DEF Masks, PassedOver, Vouched, StampOf, Skipped, Passed
  <2>2. \A k \in Modules : Trusted(k)' => Trusted(k)
    <3>1. SUFFICES ASSUME NEW k \in Modules, Trusted(k)' PROVE Trusted(k)
      OBVIOUS
    <3>2. stamps[k] = StampOf(k) /\ k \notin exposed /\ k \notin PassedOver(p)
      BY <1>4, <3>1 DEF Trusted
    <3>3. \A q \in Live : ~Masks(q, k)
      <4>1. ~Masks(p, k)
        BY <3>2 DEF Masks
      <4>2. \A q \in Live' : ~Masks(q, k)
        BY <2>1, <3>1 DEF Trusted
      <4>3. QED  BY <1>3, <4>1, <4>2
    <3>4. QED  BY <3>2, <3>3 DEF Trusted
  <2>3. \A k \in Modules : Fresh(k)' => Fresh(k)
    BY <1>3, <1>4, <2>1 DEF Fresh
  <2>4. QED  BY <1>1, <1>3, <2>2, <2>3, LessToHold DEF CheckInv
<1>8. \A q \in Live' : VerdictHolds(q)'
  <2>1. \A q \in Live : VerdictHolds(q)
    BY DEF CheckInv
  <2>2. QED  BY <1>3, <2>1 DEF VerdictHolds, Upheld, Passed, Vouched, StampOf
<1>9. QED  BY <1>5, <1>6, <1>7, <1>8 DEF CheckInv

LEMMA EndKeeps ==
  ASSUME CheckInv, NEW p \in Checkers, EndCheck(p)
  PROVE  CheckInv'
<1>1. p \in Live
  BY DEF EndCheck, Live
<1>2. stamps' = stamps /\ stamps = [m \in Modules |-> stamps[m]]
  BY DEF EndCheck, CheckInv, CheckTypes
<1>3. QED  BY <1>1, <1>2, StopKeeps DEF EndCheck, workspaceVars

LEMMA InterruptKeeps ==
  ASSUME CheckInv, NEW p \in Checkers, InterruptCheck(p)
  PROVE  CheckInv'
<1>1. p \in Live
  BY DEF InterruptCheck, Live
<1>2. stamps = [m \in Modules |-> stamps[m]]
  BY DEF CheckInv, CheckTypes
<1>3. stamps' = [m \in Modules |-> stamps'[m]] /\ \A m \in Modules : stamps'[m] \in {stamps[m], None}
  BY <1>2 DEF InterruptCheck
<1>4. QED  BY <1>1, <1>3, StopKeeps DEF InterruptCheck, workspaceVars

(* Whatever a save makes stale has another time than its stamp, and than   *)
(* what any process loaded.                                                *)
LEMMA SaveKeeps ==
  ASSUME CheckInv, NEW m \in Modules, SaveSource(m), UNCHANGED checkVars
  PROVE  CheckInv'
<1>1. PICK v \in Versions[m] : files' = [files EXCEPT ![m] = Saved(v, clock + 1)]
  BY DEF SaveSource
<1>2. CheckTypes /\ clock < MaxSaves /\ clock' = clock + 1
      /\ stamps' = stamps /\ check' = check /\ exposed' = exposed
  BY DEF CheckInv, SaveSource, checkVars
<1>3. clock \in Nat /\ clock + 1 \in 0 .. MaxWrites
  BY <1>2, WorkspaceAssumption DEF CheckTypes
<1>4. /\ files' = [k \in Modules |-> files'[k]]
      /\ \A k \in Modules : k # m => files'[k] = files[k] /\ StampOf(k)' = StampOf(k)
      /\ StampOf(m)' = clock + 1
  BY <1>1, <1>2 DEF CheckTypes, StampOf, Saved
<1>5. Live' = Live
  BY <1>2 DEF Live
<1>6. \A p \in Live : \A k \in Graph(check[p].entry) :
        /\ check[p].loaded[k].stamp \in Nat /\ check[p].loaded[k].stamp =< clock
  <2>1. SUFFICES ASSUME NEW p \in Live, NEW k \in Graph(check[p].entry)
                 PROVE  check[p].loaded[k].stamp \in Nat /\ check[p].loaded[k].stamp =< clock
    OBVIOUS
  <2>2. k \in Modules /\ check[p].loaded[k].stamp \in Nat /\ check[p].loaded[k].stamp =< StampOf(k)
    BY <1>2, LiveTypes DEF Loaded, StampOf
  <2>3. StampOf(k) \in 0 .. clock
    BY <1>2, <2>2 DEF CheckTypes
  <2>4. QED  BY <1>3, <2>2, <2>3
<1>7. /\ stamps[m] # StampOf(m)'
      /\ \A p \in Live : m \in Graph(check[p].entry) => check[p].loaded[m].stamp # StampOf(m)'
  <2>1. stamps[m] \in 0 .. clock \union {None} /\ clock + 1 # None
    BY <1>2, <1>3, CheckAssumption DEF CheckTypes
  <2>2. QED  BY <1>3, <1>4, <1>6, <2>1
<1>8. \A p \in Live : Passed(p) \subseteq Graph(check[p].entry) /\ Passed(p)' = Passed(p)
                      /\ Skipped(p)' = Skipped(p) /\ PassedOver(p)' = PassedOver(p)
  <2>1. SUFFICES ASSUME NEW p \in Live PROVE Passed(p) \subseteq Graph(check[p].entry)
    BY <1>2 DEF Passed, Skipped, PassedOver
  <2> DEFINE o == Order[check[p].entry]
             at == check[p].pos
  <2>2. at \in 1 .. Len(o) + 1 /\ DOMAIN o = 1 .. Len(o) /\ Len(o) \in Nat
    BY <1>2, LiveTypes, RunIn DEF RunTypes
  <2>3. Passed(p) = {o[i] : i \in 1 .. at - 1} /\ Graph(check[p].entry) = {o[i] : i \in DOMAIN o}
    BY DEF Passed, Graph
  <2> HIDE DEF o, at
  <2>4. 1 .. at - 1 \subseteq DOMAIN o
    BY <2>2
  <2>5. QED  BY <2>3, <2>4
<1>9. ~Fresh(m)'
  BY <1>2, <1>5, <1>7, <1>8 DEF Fresh, Skipped
<1>10. \A k \in Modules : k # m => (Fresh(k)' <=> Fresh(k))
  BY <1>2, <1>4, <1>5, <1>8 DEF Fresh
<1>11. \A p \in Live : \A k \in Graph(check[p].entry) :
         IF m \in {k} \union Deps[k] THEN ~Vouched(p, k)' ELSE Vouched(p, k)' <=> Vouched(p, k)
  <2>1. SUFFICES ASSUME NEW p \in Live, NEW k \in Graph(check[p].entry)
                 PROVE  IF m \in {k} \union Deps[k] THEN ~Vouched(p, k)'
                        ELSE Vouched(p, k)' <=> Vouched(p, k)
    OBVIOUS
  <2>2. {k} \union Deps[k] \subseteq Graph(check[p].entry) /\ Graph(check[p].entry) \subseteq Modules
    BY <1>2, LiveTypes
  <2>3. CASE m \in {k} \union Deps[k]
    BY <1>2, <1>7, <2>2, <2>3 DEF Vouched
  <2>4. CASE m \notin {k} \union Deps[k]
    BY <1>2, <1>4, <2>2, <2>4 DEF Vouched
  <2>5. QED  BY <2>3, <2>4
<1>12. ASSUME NEW k \in Modules, m \notin {k} \union Deps[k]
       PROVE  /\ Trusted(k)' <=> Trusted(k)
              /\ Accepts(k, files)' <=> Accepts(k, files)
  <2>1. \A p \in Live : Masks(p, k)' <=> Masks(p, k)
    <3>1. \A p \in Live : k = check[p].entry => (Vouched(p, k)' <=> Vouched(p, k))
      BY <1>2, <1>11, <1>12, LiveTypes
    <3>2. QED  BY <1>2, <1>8, <3>1 DEF Masks
  <2>2. files'[k] = files[k] /\ \A d \in Deps[k] : files'[d] = files[d]
    BY <1>4, <1>12, DepsAreModules
  <2>3. QED  BY <1>2, <1>4, <1>5, <1>12, <2>1, <2>2 DEF Trusted, Accepts
<1>13. ~Trusted(m)'
  BY <1>2, <1>7 DEF Trusted
<1>14. CheckTypes'
  <2>1. \A k \in Modules : StampOf(k)' \in 0 .. clock + 1 /\ stamps[k] \in 0 .. clock + 1 \union {None}
    BY <1>2, <1>3, <1>4 DEF CheckTypes
  <2>2. \A p \in Live : Loaded(check[p], files')
    <3>1. SUFFICES ASSUME NEW p \in Live, NEW k \in Graph(check[p].entry)
                   PROVE  /\ check[p].loaded[k].stamp \in Nat
                          /\ check[p].loaded[k].stamp =< files'[k].stamp
                          /\ check[p].loaded[k].stamp = files'[k].stamp => check[p].loaded[k] = files'[k]
      BY DEF Loaded
    <3>2. Loaded(check[p], files) /\ k \in Modules
      BY <1>2, LiveTypes
    <3>3. CASE k = m
      BY <1>3, <1>4, <1>6, <1>7, <3>3 DEF StampOf
    <3>4. CASE k # m
      BY <1>4, <3>2, <3>4 DEF Loaded
    <3>5. QED  BY <3>3, <3>4
  <2>3. \A p \in Live : RunTypes(check[p])
    BY <1>2 DEF CheckTypes
  <2>4. QED  BY <1>2, <1>3, <1>4, <1>5, <2>1, <2>2, <2>3 DEF CheckTypes
<1>15. LoadsInOrder'
  BY <1>2, <1>5 DEF CheckInv, LoadsInOrder
<1>16. StampsHold'
  <2>1. ASSUME NEW k \in Modules PROVE StampHolds(k)'
    <3>1. StampHolds(k) /\ Deps[k] \subseteq Modules
      BY DepsAreModules DEF CheckInv, StampsHold
    <3>2. CASE k = m
      BY <1>13, <3>2 DEF StampHolds
    <3>3. CASE m \in Deps[k]
      BY <1>9, <3>3 DEF StampHolds
    <3>4. CASE m \notin {k} \union Deps[k]
      BY <1>10, <1>12, <3>1, <3>4 DEF StampHolds
    <3>5. QED  BY <3>2, <3>3, <3>4
  <2>2. ASSUME NEW p \in Live PROVE EntryHolds(p)'
    <3> DEFINE k == check[p].entry
    <3>1. EntryHolds(p) /\ k \in Modules /\ Deps[k] \subseteq Modules
          /\ k \in Graph(k) /\ Deps[k] \subseteq Graph(k)
      BY <1>2, LiveTypes, DepsAreModules DEF CheckInv, StampsHold
    <3>2. ASSUME k = m PROVE EntryHolds(p)'
      BY <1>2, <1>13, <3>2 DEF EntryHolds
    <3>3. ASSUME m \in Deps[k] PROVE EntryHolds(p)'
      BY <1>2, <1>7, <1>9, <3>1, <3>3 DEF EntryHolds
    <3>4. ASSUME m \notin {k} \union Deps[k] PROVE EntryHolds(p)'
      <4>1. /\ Trusted(k)' <=> Trusted(k)
            /\ Accepts(k, files') <=> Accepts(k, files)
            /\ Vouched(p, k)' <=> Vouched(p, k)
        BY <1>2, <1>11, <1>12, <3>1, <3>4
      <4>2. \A d \in Deps[k] : (Fresh(d)' <=> Fresh(d)) /\ StampOf(d)' = StampOf(d)
        BY <1>4, <1>10, <3>1, <3>4
      <4>3. QED  BY <1>2, <3>1, <4>1, <4>2 DEF EntryHolds
    <3>5. QED  BY <3>2, <3>3, <3>4
  <2>3. QED  BY <1>5, <2>1, <2>2 DEF StampsHold
<1>17. \A p \in Live' : VerdictHolds(p)'
  <2>1. SUFFICES ASSUME NEW p \in Live PROVE VerdictHolds(p)'
    BY <1>5
  <2>2. VerdictHolds(p)
    BY DEF CheckInv
  <2>3. \A k \in Passed(p) : Vouched(p, k)' => Vouched(p, k)
    BY <1>8, <1>11
  <2>4. QED  BY <1>2, <1>8, <2>2, <2>3 DEF VerdictHolds
<1>18. QED  BY <1>14, <1>15, <1>16, <1>17 DEF CheckInv

(* A write of the manifest or of the lock file only takes a time.          *)
LEMMA TickKeeps ==
  ASSUME CheckInv, clock' \in clock .. MaxWrites, UNCHANGED <<files, checkVars>>
  PROVE  CheckInv'
<1>1. stamps' = stamps /\ check' = check /\ exposed' = exposed /\ files' = files
  BY DEF checkVars
<1>2. clock \in 0 .. MaxWrites /\ 0 .. clock \subseteq 0 .. clock' /\ clock' \in 0 .. MaxWrites
  BY WorkspaceAssumption DEF CheckInv, CheckTypes
<1>3. CheckTypes'
  <2>1. \A m \in Modules : StampOf(m)' = StampOf(m)
    BY <1>1 DEF StampOf
  <2>2. Live' = Live
    BY <1>1 DEF Live
  <2>3. QED  BY <1>1, <1>2, <2>1, <2>2 DEF CheckInv, CheckTypes
<1>4. /\ \A p : /\ Vouched(p, check[p].entry)' <=> Vouched(p, check[p].entry)
                /\ PassedOver(p)' = PassedOver(p) /\ Passed(p)' = Passed(p)
                /\ \A m : Vouched(p, m)' <=> Vouched(p, m)
      /\ Live' = Live
  BY <1>1 DEF Vouched, PassedOver, Passed, StampOf, Live
<1>5. \A m : (Trusted(m)' <=> Trusted(m)) /\ (Fresh(m)' <=> Fresh(m))
  BY <1>1, <1>4 DEF Trusted, Masks, Fresh, Skipped, StampOf
<1>6. StampsHold'
  BY <1>1, <1>4, <1>5 DEF CheckInv, StampsHold, StampHolds, EntryHolds, StampOf
<1>7. LoadsInOrder'
  BY <1>1, <1>4 DEF CheckInv, LoadsInOrder
<1>8. \A p \in Live' : VerdictHolds(p)'
  BY <1>1, <1>4 DEF CheckInv, VerdictHolds
<1>9. QED  BY <1>3, <1>6, <1>7, <1>8 DEF CheckInv

(* What any process that checks may do.                                    *)
CheckEvent ==
    \E p \in Checkers :
        CheckStep(p) \/ InterruptCheck(p) \/ EndCheck(p) \/ \E e \in Entries : StartCheck(p, e)

LEMMA EventKeeps ==
  ASSUME CheckInv, CheckEvent
  PROVE  CheckInv'
<1>1. PICK p \in Checkers :
        CheckStep(p) \/ InterruptCheck(p) \/ EndCheck(p) \/ \E e \in Entries : StartCheck(p, e)
  BY DEF CheckEvent
<1>2. CASE SkipModule(p)
  BY <1>2, SkipKeeps
<1>3. CASE AcceptModule(p)
  BY <1>3, AcceptKeeps
<1>4. CASE RejectModule(p)
  BY <1>4, RejectKeeps
<1>5. CASE InterruptCheck(p)
  BY <1>5, InterruptKeeps
<1>6. CASE EndCheck(p)
  BY <1>6, EndKeeps
<1>7. CASE \E e \in Entries : StartCheck(p, e)
  BY <1>7, StartKeeps
<1>8. QED  BY <1>1, <1>2, <1>3, <1>4, <1>5, <1>6, <1>7 DEF CheckStep

(* The watcher and its server check like any other process.                *)
LEMMA DevChecks ==
  ASSUME DevNext
  PROVE  CheckEvent \/ UNCHANGED <<workspaceVars, checkVars>>
<1>1. Watcher \in Checkers /\ Server \in Checkers /\ Main \in Entries
  BY WatcherAssumption
<1>2. CASE DevFirstCheck \/ DevFirstVerdict \/ DevRecheck \/ DevVerdict \/ ServerLoad \/ ServerListen
  BY <1>1, <1>2 DEF DevFirstCheck, DevFirstVerdict, DevRecheck, DevVerdict, ServerLoad,
     ServerListen, CheckEvent
<1>3. CASE \/ DevFingerprint \/ DevNotice \/ DevSettle \/ DevKilledCheck \/ DevRestart
           \/ DevLeave \/ DevExit \/ ServerTaken \/ ServerReleased
  BY <1>3 DEF DevFingerprint, DevNotice, DevSettle, DevKilledCheck, DevRestart, DevLeave, DevExit,
     ServerTaken, ServerReleased
<1>4. CASE ServerStop \/ Interrupt
  BY <1>1, <1>4 DEF ServerStop, Interrupt, CheckEvent
<1>5. CASE CheckStep(Watcher) \/ CheckStep(Server)
  BY <1>1, <1>5 DEF CheckEvent
<1>6. QED  BY <1>2, <1>3, <1>4, <1>5 DEF DevNext

LEMMA CheckInitially == Init => CheckInv
<1> SUFFICES ASSUME Init PROVE CheckInv
  OBVIOUS
<1>1. /\ files = [m \in Modules |-> Saved(First[m], 0)] /\ clock = 0
      /\ stamps = [m \in Modules |-> None] /\ check = [p \in Checkers |-> Idle] /\ exposed = {}
  BY DEF Init
<1>2. Live = {}
  BY <1>1 DEF Live, Idle
<1>3. \A m \in Modules : StampOf(m) = 0 /\ stamps[m] = None
  BY <1>1 DEF StampOf, Saved
<1>4. 0 \in 0 .. MaxWrites /\ None # 0
  BY CheckAssumption, WorkspaceAssumption
<1>5. CheckTypes
  BY <1>1, <1>2, <1>3, <1>4 DEF CheckTypes
<1>6. StampsHold
  BY <1>2, <1>3, <1>4 DEF StampsHold, StampHolds, Trusted
<1>7. QED  BY <1>2, <1>5, <1>6 DEF CheckInv, LoadsInOrder

LEMMA CheckKeeps == CheckInv /\ [Next]_vars => CheckInv'
<1> SUFFICES ASSUME CheckInv, [Next]_vars PROVE CheckInv'
  OBVIOUS
<1>1. clock \in clock .. MaxWrites
  BY WorkspaceAssumption DEF CheckInv, CheckTypes
<1>2. CASE UNCHANGED <<workspaceVars, checkVars>>
  BY <1>1, <1>2, TickKeeps DEF workspaceVars
<1>3. CASE Save
  BY <1>3, SaveKeeps DEF Save
<1>4. CASE DevNext
  BY <1>2, <1>4, DevChecks, EventKeeps
<1>5. ASSUME clock' \in {clock, clock + 1}, clock' # clock => clock < MaxWrites,
             UNCHANGED <<files, checkVars>>
      PROVE  CheckInv'
  <2>1. clock' \in clock .. MaxWrites
    BY <1>1, <1>5, WorkspaceAssumption DEF CheckInv, CheckTypes
  <2>2. QED  BY <1>5, <2>1, TickKeeps
<1>6. CASE AddPath /\ UNCHANGED checkVars
  BY <1>5, <1>6 DEF AddPath, Add, ResolvePath, WriteLock, workspaceVars
<1>7. CASE TypeCheck \/ RunCheck
  BY <1>7, EventKeeps, TerminalAssumption DEF TypeCheck, RunCheck, CheckEvent
<1>8. CASE DependNext /\ UNCHANGED checkVars
  BY <1>5, <1>8 DEF DependNext, Add, Remove, RemoveUnknown, ResolveStep, ResolvePath, CloneFails,
     ResolveGit, Install, WriteLock, CompareLock, InterruptCommand, Push, Release, workspaceVars
<1>9. CASE UNCHANGED vars
  BY <1>2, <1>9 DEF vars
<1>10. QED  BY <1>3, <1>4, <1>6, <1>7, <1>8, <1>9 DEF Next

THEOREM ProjectSound == Spec => [](LockInv /\ CheckInv)
BY LockInitially, LockKeeps, CheckInitially, CheckKeeps, PTL DEF Spec

(* Of the modules of a check that finds no errors, only those that were    *)
(* skipped while exposed can be at fault: whatever is saved, and whatever  *)
(* other checks run, end or are killed meanwhile.                          *)
THEOREM TrustIsBounded == Spec => []OnlyExposedGoStale
<1>1. CheckInv => OnlyExposedGoStale
  <2>1. SUFFICES ASSUME CheckInv, NEW p \in Checkers, check[p].phase = "done", ~check[p].failed,
                        NEW m \in Graph(check[p].entry)
                 PROVE  Accepts(m, check[p].loaded) \/ ~Vouched(p, m) \/ m \in check[p].blind
    BY DEF OnlyExposedGoStale
  <2>2. p \in Live
    BY <2>1 DEF Live
  <2>3. Graph(check[p].entry) \subseteq Passed(p)
    <3> DEFINE o == Order[check[p].entry]
    <3>1. check[p].pos = Len(o) + 1 /\ Len(o) \in Nat /\ DOMAIN o = 1 .. Len(o)
      BY <2>1, <2>2, LiveTypes, RunIn DEF CheckInv, RunTypes
    <3>2. check[p].pos - 1 = Len(o)
      BY <3>1
    <3>3. QED  BY <3>1, <3>2 DEF Graph, Passed
  <2>4. VerdictHolds(p)
    BY <2>1, <2>2 DEF CheckInv
  <2>5. QED  BY <2>1, <2>3, <2>4 DEF VerdictHolds, Upheld
<1>2. QED  BY <1>1, ProjectSound, PTL

----------------------------------------------------------------------------
(* The watcher.                                                            *)

(* A check that finds errors is right about the texts it loaded, whatever  *)
(* it skipped.                                                             *)
Wrong(m, loaded) == ~Accepts(m, loaded) \/ MissingImport(m, loaded)
Blamed(c) == c.failed => \E m \in Graph(c.entry) : Wrong(m, c.loaded)
BlameHolds == \A p \in Live : Blamed(check[p])

DevStates == {"begin", "firstCheck", "fingerprint", "watch", "settle", "recheck", "checking",
              "stopping", "leaving", "exited"}
Watching == {"watch", "settle", "recheck", "checking", "stopping", "leaving"}

(* The times of all that a server reads, and of the lock: as they are, and *)
(* as they were when the last fingerprint was taken, of what it covers and *)
(* of what it passes over.                                                 *)
Full == <<[m \in Graph(Main) |-> StampOf(m)], manifest.stamp, lock.stamp>>
Seen == <<[m \in Graph(Main) |-> IF m \in Stamped THEN fingerprint[1][m] ELSE passedOver[m]],
          fingerprint[2], fingerprint[3]>>

(* They were taken before now.                                             *)
Taken(f) ==
    /\ f = <<[m \in Graph(Main) |-> f[1][m]], f[2], f[3]>>
    /\ \A m \in Graph(Main) : f[1][m] \in Nat /\ f[1][m] =< StampOf(m)
    /\ f[2] \in Nat /\ f[2] =< manifest.stamp
    /\ f[3] \in Nat /\ f[3] =< lock.stamp

(* Sources were loaded after it was.                                       *)
LoadedSince(sources, f) == \A m \in Graph(Main) : f[1][m] =< sources[m].stamp

(* What a server read is what the project holds, or something earlier.     *)
HasRead(r) ==
    /\ r = [manifest |-> r.manifest, sources |-> [m \in Graph(Main) |-> r.sources[m]]]
    /\ r.manifest \in Nat /\ r.manifest =< manifest.stamp
    /\ \A m \in Graph(Main) :
          /\ r.sources[m].stamp \in Nat /\ r.sources[m].stamp =< StampOf(m)
          /\ r.sources[m].stamp = StampOf(m) => r.sources[m] = files[m]

ServerTypes ==
    /\ server.state \in {"none", "starting", "exited"} \union HasLoaded
    /\ server.state \in HasLoaded => HasRead(server.read)
    /\ server.state \in HasLoaded =>
          server = [state |-> server.state, read |-> server.read]
    /\ server.state = "analysing" =>
          /\ check[Server].phase # "idle" /\ check[Server].entry = Main
          /\ check[Server].loaded = server.read.sources

StampTypes == manifest.stamp \in 0 .. clock /\ lock.stamp \in 0 .. clock

DevTypes ==
    /\ dev \in DevStates /\ interrupted \in BOOLEAN /\ unseen \in BOOLEAN
    /\ StampTypes
    /\ dev \in Watching => Taken(Seen)

(* The check the watcher waits for was started after the fingerprint.      *)
Rechecks ==
    (dev = "checking" /\ ~interrupted) => check[Watcher].phase # "idle"
RechecksLater ==
    (dev = "checking" /\ check[Watcher].phase # "idle") =>
        check[Watcher].entry = Main /\ LoadedSince(check[Watcher].loaded, Seen)

(* The server reads, or has read, what the fingerprint was taken of or     *)
(* something later.                                                        *)
ServesSince ==
    \/ server.state = "starting"
    \/ /\ server.state \in HasLoaded
       /\ Seen[2] =< server.read.manifest
       /\ LoadedSince(server.read.sources, Seen)

Noticed ==
    (dev = "watch" /\ ~interrupted /\ ~unseen) =>
        ServesSince \/ Full # Seen \/ ~SourcesAreGood

DevInv == DevTypes /\ ServerTypes /\ Rechecks /\ RechecksLater /\ Noticed

(* What a module of a run does to the run.                                 *)
GoesOnWith(c, m, d) ==
    \/ \E more : d = [Advance(c, m) EXCEPT !.blind = @ \union more]
    \/ d = [Advance(c, m) EXCEPT !.rechecked = @ \union {m}]
    \/ /\ d = [Advance(c, m) EXCEPT !.rechecked = @ \union {m}, !.failed = TRUE]
       /\ ~Accepts(m, c.loaded)

LEMMA MovedVerdict ==
  ASSUME NEW c, RunTypes(c), NEW m \in Graph(c.entry), NEW d, GoesOnWith(c, m, d), Blamed(c)
  PROVE  Blamed(d) /\ d.entry = c.entry /\ d.loaded = c.loaded /\ d.phase # "idle"
<1> DEFINE a == Advance(c, m)
<1>1. /\ IsRun(a) /\ a.entry = c.entry /\ a.loaded = c.loaded
      /\ a.phase = (IF c.pos = Len(Order[c.entry]) THEN "done" ELSE c.phase)
      /\ a.failed = (c.failed \/ MissingImport(m, c.loaded))
  BY AdvanceShape DEF RunTypes
<1>2. c.phase \in {"analysing", "done"}
  BY DEF RunTypes
<1> HIDE DEF a
<1>3. /\ d.entry = a.entry /\ d.loaded = a.loaded /\ d.phase = a.phase
      /\ d.failed = a.failed \/ ~Accepts(m, c.loaded)
  <2>1. CASE \E more : d = [a EXCEPT !.blind = @ \union more]
    BY <1>1, <2>1 DEF IsRun
  <2>2. CASE d = [a EXCEPT !.rechecked = @ \union {m}]
    BY <1>1, <2>2 DEF IsRun
  <2>3. CASE /\ d = [a EXCEPT !.rechecked = @ \union {m}, !.failed = TRUE]
             /\ ~Accepts(m, c.loaded)
    BY <1>1, <2>3 DEF IsRun
  <2>4. QED  BY <2>1, <2>2, <2>3 DEF a, GoesOnWith
<1>4. d.phase # "idle"
  BY <1>1, <1>2, <1>3
<1>5. d.failed => c.failed \/ Wrong(m, c.loaded)
  BY <1>1, <1>3, Zenon DEF Wrong
<1>6. QED  BY <1>1, <1>3, <1>4, <1>5 DEF Blamed

LEMMA StepGoesOn ==
  ASSUME CheckTypes, BlameHolds, NEW p \in Checkers, CheckStep(p)
  PROVE  /\ \A q \in Checkers \ {p} : check'[q] = check[q]
         /\ check'[p].phase # "idle" /\ check'[p].entry = check[p].entry
         /\ check'[p].loaded = check[p].loaded /\ Blamed(check'[p])
         /\ check[p].phase # "idle" /\ UNCHANGED <<files, manifest, lock, clock>>
<1>0. check = [q \in Checkers |-> check[q]] /\ UNCHANGED <<files, manifest, lock, clock>>
  BY DEF CheckTypes, CheckStep, SkipModule, AcceptModule, RejectModule, workspaceVars
<1> DEFINE c == check[p]
           m == Current(p)
           d == check'[p]
<1>1. c.phase = "analysing" /\ p \in Live
  BY DEF CheckStep, SkipModule, AcceptModule, RejectModule, Live
<1>2. RunTypes(c) /\ m \in Graph(c.entry) /\ Blamed(c)
  BY <1>1, LiveTypes, CurrentIs DEF BlameHolds
<1> DEFINE GoesOn == Blamed(d) /\ d.entry = c.entry /\ d.loaded = c.loaded /\ d.phase # "idle"
           Others == \A q \in Checkers \ {p} : check'[q] = check[q]
<1>3. ASSUME SkipModule(p)  PROVE Others /\ GoesOn
  <2>1. check' = [check EXCEPT ![p] =
                    [Advance(c, m) EXCEPT !.blind = @ \union (Exposed(p) \intersect {m})]]
    BY <1>3 DEF SkipModule
  <2>2. d = [Advance(c, m) EXCEPT !.blind = @ \union (Exposed(p) \intersect {m})] /\ Others
    BY <1>0, <2>1
  <2> HIDE DEF c, m, d, Others, GoesOn
  <2>3. GoesOnWith(c, m, d)
    BY <2>2 DEF GoesOnWith
  <2>4. GoesOn
    BY <1>2, <2>3, MovedVerdict DEF GoesOn
  <2>5. QED  BY <2>2, <2>4
<1>4. ASSUME AcceptModule(p)  PROVE Others /\ GoesOn
  <2>1. check' = [check EXCEPT ![p] = [Advance(c, m) EXCEPT !.rechecked = @ \union {m}]]
    BY <1>4 DEF AcceptModule
  <2>2. d = [Advance(c, m) EXCEPT !.rechecked = @ \union {m}] /\ Others
    BY <1>0, <2>1
  <2> HIDE DEF c, m, d, Others, GoesOn
  <2>3. GoesOnWith(c, m, d)
    BY <2>2 DEF GoesOnWith
  <2>4. GoesOn
    BY <1>2, <2>3, MovedVerdict DEF GoesOn
  <2>5. QED  BY <2>2, <2>4
<1>5. ASSUME RejectModule(p)  PROVE Others /\ GoesOn
  <2>1. check' = [check EXCEPT ![p] =
                    [Advance(c, m) EXCEPT !.rechecked = @ \union {m}, !.failed = TRUE]]
        /\ ~Accepts(m, c.loaded)
    BY <1>5 DEF RejectModule
  <2>2. d = [Advance(c, m) EXCEPT !.rechecked = @ \union {m}, !.failed = TRUE] /\ Others
    BY <1>0, <2>1
  <2> HIDE DEF c, m, d, Others, GoesOn
  <2>3. GoesOnWith(c, m, d)
    BY <2>1, <2>2 DEF GoesOnWith
  <2>4. GoesOn
    BY <1>2, <2>3, MovedVerdict DEF GoesOn
  <2>5. QED  BY <2>2, <2>4
<1>6. Others /\ GoesOn
  <2> HIDE DEF Others, GoesOn
  <2>1. QED  BY <1>3, <1>4, <1>5 DEF CheckStep
<1>7. QED  BY <1>0, <1>1, <1>6

LEMMA BlameStays ==
  ASSUME CheckTypes, BlameHolds, CheckEvent
  PROVE  BlameHolds'
<1>0. check = [q \in Checkers |-> check[q]]
  BY DEF CheckTypes
<1>1. PICK p \in Checkers :
        CheckStep(p) \/ InterruptCheck(p) \/ EndCheck(p) \/ \E e \in Entries : StartCheck(p, e)
  BY DEF CheckEvent
<1>2. SUFFICES /\ \A q \in Checkers \ {p} : check'[q] = check[q]
               /\ p \in Live' => Blamed(check'[p])
  <2>1. \A q \in Live' : q = p \/ (q \in Live /\ check'[q] = check[q])
    BY <1>2 DEF Live
  <2>2. QED  BY <1>2, <2>1 DEF BlameHolds, Blamed
<1>3. CASE InterruptCheck(p) \/ EndCheck(p)
  BY <1>0, <1>3 DEF InterruptCheck, EndCheck, Idle, Live
<1>4. CASE \E e \in Entries : StartCheck(p, e)
  BY <1>0, <1>4 DEF StartCheck, Blamed
<1>5. CASE CheckStep(p)
  BY <1>5, StepGoesOn
<1>6. QED  BY <1>1, <1>3, <1>4, <1>5

(* What a step does to the processes that check, told in one place.        *)
LEMMA StepsCheck ==
  ASSUME [Next]_vars
  PROVE  CheckEvent \/ check' = check
<1>1. CASE DevNext
  BY <1>1, DevChecks DEF checkVars
<1>2. CASE TypeCheck \/ RunCheck
  BY <1>2, TerminalAssumption DEF TypeCheck, RunCheck, CheckEvent
<1>3. CASE check' = check
  BY <1>3
<1>4. CASE UNCHANGED checkVars \/ Save \/ UNCHANGED vars
  BY <1>4 DEF checkVars, Save, vars
<1>5. QED  BY <1>1, <1>2, <1>4 DEF Next

LEMMA BlameKeeps == CheckInv /\ BlameHolds /\ [Next]_vars => BlameHolds'
BY StepsCheck, BlameStays DEF CheckInv, BlameHolds, Live

----------------------------------------------------------------------------
(* What happens to the files of the project: they are saved, later than    *)
(* all that was saved before.                                              *)
Later ==
    /\ \A m \in Modules : files'[m] = files[m] \/ StampOf(m)' > StampOf(m)
    /\ manifest'.stamp \in Nat /\ manifest'.stamp >= manifest.stamp
    /\ lock'.stamp \in Nat /\ lock'.stamp >= lock.stamp

LEMMA StepsSave ==
  ASSUME CheckTypes, StampTypes, [Next]_vars
  PROVE  Later /\ StampTypes'
<1>1. clock \in Nat /\ \A m \in Modules : StampOf(m) \in Nat /\ StampOf(m) =< clock
  BY WorkspaceAssumption DEF CheckTypes
<1>2. manifest.stamp \in Nat /\ lock.stamp \in Nat /\ manifest.stamp =< clock /\ lock.stamp =< clock
  BY <1>1 DEF StampTypes
<1>3. CASE Save
  <2>1. PICK m \in Modules : SaveSource(m)
    BY <1>3 DEF Save
  <2>2. PICK v \in Versions[m] : files' = [files EXCEPT ![m] = Saved(v, clock + 1)]
    BY <2>1 DEF SaveSource
  <2>3. files = [n \in Modules |-> files[n]]
    BY DEF CheckTypes
  <2>4. \A n \in Modules : n # m => files'[n] = files[n]
    BY <2>2, <2>3
  <2>5. StampOf(m)' = clock + 1
    BY <2>2, <2>3 DEF StampOf, Saved
  <2>6. \A n \in Modules : files'[n] = files[n] \/ StampOf(n)' > StampOf(n)
    BY <1>1, <2>4, <2>5
  <2>7. clock' = clock + 1 /\ manifest' = manifest /\ lock' = lock
    BY <2>1 DEF SaveSource
  <2>8. QED  BY <1>1, <1>2, <2>6, <2>7 DEF Later, StampTypes
<1>4. ASSUME files' = files,
             \/ UNCHANGED <<manifest, lock, clock>>
             \/ clock' = clock + 1 /\ manifest'.stamp = clock + 1 /\ lock' = lock
             \/ clock' = clock + 1 /\ lock'.stamp = clock + 1 /\ manifest' = manifest
      PROVE  Later /\ StampTypes'
  BY <1>1, <1>2, <1>4 DEF Later, StampTypes
<1>5. CASE UNCHANGED workspaceVars
  BY <1>4, <1>5 DEF workspaceVars
<1>6. CASE DevNext
  <2>1. CASE CheckEvent
    BY <1>5, <2>1 DEF CheckEvent, CheckStep, SkipModule, AcceptModule, RejectModule, InterruptCheck,
       EndCheck, StartCheck
  <2>2. QED  BY <1>5, <1>6, <2>1, DevChecks
<1>7. CASE TypeCheck \/ RunCheck
  BY <1>5, <1>7 DEF TypeCheck, RunCheck, CheckStep, SkipModule, AcceptModule, RejectModule,
     InterruptCheck, EndCheck, StartCheck
<1>8. CASE AddPath \/ DependNext
  <2>1. CASE \E n \in NameSet : \/ \E spec : Add(n, spec)
                               \/ Remove(n)
    <3>1. PICK n \in NameSet : (\E spec : Add(n, spec)) \/ Remove(n)
      BY <2>1
    <3>2. \E deps : manifest' = [stamp |-> clock + 1, deps |-> deps]
      BY <3>1 DEF Add, Remove
    <3>3. files' = files /\ clock' = clock + 1 /\ lock' = lock
      BY <3>1 DEF Add, Remove
    <3>4. manifest'.stamp = clock + 1
      BY <3>2
    <3>5. QED  BY <1>4, <3>3, <3>4
  <2>2. CASE WriteLock
    BY <1>4, <2>2 DEF WriteLock
  <2>3. CASE UNCHANGED workspaceVars
    BY <1>5, <2>3
  <2>4. QED
    BY <1>8, <2>1, <2>2, <2>3 DEF AddPath, DependNext, RemoveUnknown, ResolveStep, ResolvePath,
       CloneFails, ResolveGit, Install, CompareLock, InterruptCommand, Push, Release, workspaceVars
<1>9. QED  BY <1>3, <1>5, <1>6, <1>7, <1>8 DEF Next, vars

LEMMA SeenStays == UNCHANGED <<fingerprint, passedOver>> => Seen' = Seen
BY DEF Seen

LEMMA FullStays == UNCHANGED <<files, manifest, lock>> => Full' = Full
BY DEF Full, StampOf

LEMMA FullIs ==
  /\ \A m \in Graph(Main) : Full[1][m] = StampOf(m)
  /\ Full[2] = manifest.stamp /\ Full[3] = lock.stamp
  /\ Full = <<[m \in Graph(Main) |-> Full[1][m]], Full[2], Full[3]>>
<1> DEFINE full == [m \in Graph(Main) |-> StampOf(m)]
<1>1. Full[1] = full /\ Full[2] = manifest.stamp /\ Full[3] = lock.stamp
      /\ Full = <<full, manifest.stamp, lock.stamp>>
  BY DEF Full
<1>2. \A m \in Graph(Main) : Full[1][m] = StampOf(m)
  BY <1>1
<1>3. full = [m \in Graph(Main) |-> Full[1][m]]
  BY <1>1
<1>4. QED  BY <1>1, <1>2, <1>3

(* Taking the fingerprint records it all.                                  *)
LEMMA SeesAll ==
  ASSUME fingerprint' = Watched, passedOver' = Unwatched
  PROVE  Seen' = Full
<1> DEFINE f == fingerprint'
           p == passedOver'
           seen == [m \in Graph(Main) |-> IF m \in Stamped THEN f[1][m] ELSE p[m]]
           full == [m \in Graph(Main) |-> StampOf(m)]
<1>1. f[1] = SourceTimes /\ f[2] = manifest.stamp /\ f[3] = lock.stamp
  BY DEF Watched
<1>2. \A m \in Stamped : f[1][m] = StampOf(m)
  BY <1>1 DEF SourceTimes, StampOf
<1>3. \A m \in Graph(Main) \ Stamped : p[m] = StampOf(m)
  BY DEF Unwatched, StampOf
<1>4. seen = full
  BY <1>2, <1>3
<1>5. Seen' = <<seen, f[2], f[3]>>
  BY DEF Seen
<1>6. Full = <<full, manifest.stamp, lock.stamp>>
  BY DEF Full
<1> HIDE DEF seen, full
<1>7. QED  BY <1>1, <1>4, <1>5, <1>6

(* Where it still matches and nothing was overlooked, nothing was saved.   *)
LEMMA NothingSaved ==
  ASSUME Watched = fingerprint, ~Overlooked
  PROVE  Full = Seen
<1>1. fingerprint = Watched /\ passedOver = Unwatched
  BY DEF Overlooked
<1> DEFINE seen == [m \in Graph(Main) |-> IF m \in Stamped THEN fingerprint[1][m] ELSE passedOver[m]]
           full == [m \in Graph(Main) |-> StampOf(m)]
<1>2. fingerprint[1] = SourceTimes /\ fingerprint[2] = manifest.stamp /\ fingerprint[3] = lock.stamp
  BY <1>1 DEF Watched
<1>3. \A m \in Stamped : fingerprint[1][m] = StampOf(m)
  BY <1>2 DEF SourceTimes, StampOf
<1>4. \A m \in Graph(Main) \ Stamped : passedOver[m] = StampOf(m)
  BY <1>1 DEF Unwatched, StampOf
<1>5. seen = full
  BY <1>3, <1>4
<1>6. Seen = <<seen, fingerprint[2], fingerprint[3]>> /\ Full = <<full, manifest.stamp, lock.stamp>>
  BY DEF Seen, Full
<1> HIDE DEF seen, full
<1>7. QED  BY <1>2, <1>5, <1>6

(* What still is as it was seen has not been saved since.                  *)
LEMMA StillTaken ==
  ASSUME CheckTypes, CheckTypes', StampTypes, Later, UNCHANGED <<fingerprint, passedOver>>,
         Taken(Seen)
  PROVE  /\ Taken(Seen)'
         /\ (Full = Seen)' => Full = Seen /\ \A m \in Graph(Main) : files'[m] = files[m]
<1> DEFINE f == Seen
<1>0. f' = f /\ Graph(Main) \subseteq Modules
  BY SeenStays, GraphClosed, WatcherAssumption
<1> HIDE DEF f
<1>1. \A m \in Graph(Main) : StampOf(m) \in Nat /\ StampOf(m)' \in Nat
  BY <1>0, WorkspaceAssumption DEF CheckTypes
<1>2. \A m \in Graph(Main) : f[1][m] \in Nat /\ f[1][m] =< StampOf(m) /\ StampOf(m) =< StampOf(m)'
  BY <1>0, <1>1 DEF f, Taken, Later, StampOf
<1>3. f[2] \in Nat /\ f[2] =< manifest.stamp /\ f[3] \in Nat /\ f[3] =< lock.stamp
      /\ manifest.stamp \in Nat /\ lock.stamp \in Nat
      /\ f = <<[m \in Graph(Main) |-> f[1][m]], f[2], f[3]>>
  BY WorkspaceAssumption DEF f, Taken, StampTypes, CheckTypes
<1>4. Taken(Seen)'
  <2>1. \A m \in Graph(Main) : f[1][m] =< StampOf(m)'
    BY <1>1, <1>2
  <2>2. f[2] =< manifest'.stamp /\ f[3] =< lock'.stamp
    BY <1>3 DEF Later
  <2>3. Taken(f)'
    BY <1>0, <1>2, <1>3, <2>1, <2>2 DEF Taken
  <2>4. QED  BY <2>3 DEF f
<1>5. ASSUME (Full = Seen)'
      PROVE  Full = Seen /\ \A m \in Graph(Main) : files'[m] = files[m]
  <2>0. Full' = f
    BY <1>0, <1>5 DEF f
  <2>1. /\ \A m \in Graph(Main) : Full'[1][m] = StampOf(m)'
        /\ Full'[2] = manifest'.stamp /\ Full'[3] = lock'.stamp
    BY FullIs DEF Full, StampOf
  <2>2. f[2] = manifest'.stamp /\ f[3] = lock'.stamp /\ \A m \in Graph(Main) : f[1][m] = StampOf(m)'
    BY <2>0, <2>1
  <2>3. \A m \in Graph(Main) : StampOf(m) = StampOf(m)' /\ StampOf(m) = f[1][m]
    BY <1>1, <1>2, <2>2
  <2>4. manifest.stamp = f[2] /\ lock.stamp = f[3]
    BY <1>3, <2>2 DEF Later
  <2>5. \A m \in Graph(Main) : files'[m] = files[m]
    BY <1>0, <1>1, <2>3 DEF Later
  <2>6. [m \in Graph(Main) |-> f[1][m]] = [m \in Graph(Main) |-> StampOf(m)]
    BY <2>3
  <2>7. Full = f
    BY <1>3, <2>4, <2>6 DEF Full
  <2>8. QED  BY <2>5, <2>7 DEF f
<1>6. QED  BY <1>4, <1>5

(* The sources of the graph decide whether it is good.                     *)
LEMMA GoodnessStays ==
  ASSUME \A m \in Graph(Main) : files'[m] = files[m]
  PROVE  SourcesAreGood' <=> SourcesAreGood
<1>1. \A m \in Graph(Main) : Deps[m] \subseteq Graph(Main)
  BY GraphClosed, WatcherAssumption
<1>2. QED  BY <1>1 DEF SourcesAreGood, Accepts, MissingImport

LEMMA StillRead ==
  ASSUME CheckTypes, CheckTypes', StampTypes, Later, server' = server, HasRead(server.read)
  PROVE  HasRead(server.read)'
<1> DEFINE r == server.read
<1>1. \A m \in Modules : StampOf(m) \in Nat /\ StampOf(m)' \in Nat
  BY WorkspaceAssumption DEF CheckTypes
<1>2. Graph(Main) \subseteq Modules
  BY GraphClosed, WatcherAssumption
<1>3. \A m \in Graph(Main) :
        /\ r.sources[m].stamp \in Nat /\ r.sources[m].stamp =< StampOf(m)
        /\ r.sources[m].stamp = StampOf(m) => r.sources[m] = files[m]
        /\ files'[m] = files[m] \/ StampOf(m)' > StampOf(m)
  BY <1>2 DEF HasRead, Later
<1>4. \A m \in Graph(Main) :
        /\ r.sources[m].stamp =< StampOf(m)'
        /\ r.sources[m].stamp = StampOf(m)' => r.sources[m] = files'[m]
  BY <1>1, <1>2, <1>3 DEF StampOf
<1>5. r.manifest =< manifest'.stamp
  BY WorkspaceAssumption DEF HasRead, Later, StampTypes, CheckTypes
<1>6. QED  BY <1>3, <1>4, <1>5 DEF HasRead

----------------------------------------------------------------------------
LEMMA DevInitially == Init => DevInv
<1> SUFFICES ASSUME Init PROVE DevInv
  OBVIOUS
<1>1. /\ dev \in {"begin", "exited"} /\ server = NoServer /\ interrupted = FALSE /\ unseen = FALSE
      /\ manifest.stamp = 0 /\ lock.stamp = 0 /\ clock = 0
  BY DEF Init, DevInit
<1>2. DevTypes
  <2>1. interrupted \in BOOLEAN /\ unseen \in BOOLEAN
    BY <1>1, Zenon
  <2>2. StampTypes
    BY <1>1 DEF StampTypes
  <2>3. QED  BY <1>1, <2>1, <2>2, Zenon DEF DevTypes, DevStates, Watching
<1>3. server.state = "none"
  BY <1>1 DEF NoServer
<1>4. QED  BY <1>1, <1>2, <1>3 DEF DevInv, ServerTypes, HasLoaded, Serving, Rechecks,
   RechecksLater, Noticed

(* A check that goes on, or is not the watcher's or the server's.          *)
SameChecks ==
    \A p \in {Watcher, Server} :
        check[p].phase # "idle" =>
            /\ check'[p].phase # "idle" /\ check'[p].entry = check[p].entry
            /\ check'[p].loaded = check[p].loaded

(* While the watcher sleeps or waits, saves and checks do not disturb it.  *)
LEMMA OthersKeepWatch ==
  ASSUME CheckTypes, CheckTypes', Later, StampTypes', DevInv, SameChecks, UNCHANGED devVars,
         check'[Watcher].phase = "idle" <=> check[Watcher].phase = "idle"
  PROVE  DevInv'
<1>1. UNCHANGED <<dev, fingerprint, server, interrupted, unseen, passedOver>> /\ StampTypes
  BY DEF devVars, DevInv, DevTypes
<1>2. DevTypes'
  <2>1. dev \in Watching => Taken(Seen)'
    BY <1>1, StillTaken DEF DevInv, DevTypes
  <2>2. QED  BY <1>1, <2>1 DEF DevInv, DevTypes, StampTypes
<1>3. ServerTypes'
  <2>1. server.state \in HasLoaded => HasRead(server.read)'
    BY <1>1, StillRead DEF DevInv, ServerTypes
  <2>2. QED  BY <1>1, <2>1 DEF DevInv, ServerTypes, SameChecks
<1>4. Rechecks' /\ RechecksLater'
  BY <1>1, SeenStays DEF DevInv, Rechecks, RechecksLater, SameChecks, LoadedSince
<1>5. Noticed'
  <2>1. SUFFICES ASSUME dev = "watch", ~interrupted, ~unseen, (Full = Seen)', SourcesAreGood'
                 PROVE  ServesSince'
    BY <1>1 DEF Noticed
  <2>2. Full = Seen /\ \A m \in Graph(Main) : files'[m] = files[m]
    BY <1>1, <2>1, StillTaken DEF DevInv, DevTypes, Watching
  <2>3. SourcesAreGood
    BY <2>1, <2>2, GoodnessStays
  <2>4. ServesSince
    BY <2>1, <2>2, <2>3 DEF DevInv, Noticed
  <2>5. QED  BY <1>1, <2>4, SeenStays DEF ServesSince, LoadedSince
<1>6. QED  BY <1>2, <1>3, <1>4, <1>5 DEF DevInv

LEMMA OneChecks ==
  ASSUME CheckTypes, NEW p \in Checkers,
         EndCheck(p) \/ InterruptCheck(p) \/ \E e \in Entries : StartCheck(p, e)
  PROVE  /\ \A q \in Checkers \ {p} : check'[q] = check[q]
         /\ UNCHANGED <<files, manifest, lock, clock>>
         /\ \A e \in Entries : StartCheck(p, e) =>
               /\ check'[p].phase = "analysing" /\ check'[p].entry = e
               /\ check'[p].loaded = [m \in Graph(e) |-> files[m]]
         /\ EndCheck(p) \/ InterruptCheck(p) => check'[p].phase = "idle"
<1>1. check = [q \in Checkers |-> check[q]]
  BY DEF CheckTypes
<1>2. ASSUME NEW e \in Entries, StartCheck(p, e)
      PROVE  /\ check'[p].phase = "analysing" /\ check'[p].entry = e
             /\ check'[p].loaded = [m \in Graph(e) |-> files[m]]
             /\ \A q \in Checkers \ {p} : check'[q] = check[q]
             /\ UNCHANGED <<files, manifest, lock, clock>>
  BY <1>1, <1>2 DEF StartCheck, workspaceVars
<1>3. ASSUME EndCheck(p) \/ InterruptCheck(p)
      PROVE  /\ check'[p].phase = "idle"
             /\ \A q \in Checkers \ {p} : check'[q] = check[q]
             /\ UNCHANGED <<files, manifest, lock, clock>>
  BY <1>1, <1>3 DEF EndCheck, InterruptCheck, Idle, workspaceVars
<1>4. \A e \in Entries : StartCheck(p, e) => ~(EndCheck(p) \/ InterruptCheck(p))
  BY DEF StartCheck, EndCheck, InterruptCheck
<1>5. QED  BY <1>2, <1>3, <1>4

LEMMA TakenNow ==
  ASSUME CheckTypes, StampTypes
  PROVE  /\ Taken(Full) /\ HasRead(Reading)
         /\ Reading.manifest = manifest.stamp
         /\ \A m \in Graph(Main) : Reading.sources[m] = files[m] /\ m \in Modules
<1>1. Graph(Main) \subseteq Modules
  BY GraphClosed, WatcherAssumption
<1>2. \A m \in Modules : StampOf(m) \in Nat
  BY WorkspaceAssumption DEF CheckTypes
<1>3. manifest.stamp \in Nat /\ lock.stamp \in Nat
  BY WorkspaceAssumption DEF StampTypes, CheckTypes
<1>4. Taken(Full)
  <2>1. \A m \in Graph(Main) : Full[1][m] \in Nat /\ Full[1][m] =< StampOf(m)
    BY <1>1, <1>2, FullIs
  <2>2. Full[2] \in Nat /\ Full[2] =< manifest.stamp /\ Full[3] \in Nat /\ Full[3] =< lock.stamp
    BY <1>3, FullIs
  <2>3. QED  BY <2>1, <2>2, FullIs DEF Taken
<1>5. HasRead(Reading)
  BY <1>1, <1>2, <1>3 DEF HasRead, Reading, StampOf
<1>6. QED  BY <1>1, <1>4, <1>5 DEF Reading

(* A check of what is still there that fails has found an error.           *)
LEMMA FailsForCause ==
  ASSUME CheckTypes, BlameHolds, NEW p \in Live, check[p].entry = Main, check[p].failed,
         LoadedSince(check[p].loaded, Seen), Taken(Seen), Full = Seen
  PROVE  ~SourcesAreGood
<1> DEFINE c == check[p]
<1>1. Loaded(c, files) /\ RunTypes(c) /\ Graph(Main) \subseteq Modules
      /\ \A m \in Graph(Main) : Deps[m] \subseteq Graph(Main)
  BY LiveTypes
<1>2. \A m \in Graph(Main) : Seen[1][m] = StampOf(m) /\ StampOf(m) \in Nat
  BY <1>1, FullIs, WorkspaceAssumption DEF CheckTypes
<1>3. \A m \in Graph(Main) : c.loaded[m] = files[m]
  BY <1>1, <1>2 DEF Loaded, LoadedSince, StampOf
<1>4. PICK m \in Graph(Main) : Wrong(m, c.loaded)
  BY DEF BlameHolds, Blamed
<1>5. ~Accepts(m, files) \/ MissingImport(m, files)
  BY <1>1, <1>3, <1>4 DEF Wrong, Accepts, MissingImport
<1>6. QED  BY <1>5 DEF SourcesAreGood

(* The first check, and the first fingerprint.                             *)
LEMMA FirstsKeepWatch ==
  ASSUME CheckTypes, DevInv, DevFirstCheck \/ DevFirstVerdict \/ DevFingerprint
  PROVE  DevInv'
<1>0. Watcher \in Checkers /\ Server \in Checkers \ {Watcher} /\ Main \in Entries
  BY WatcherAssumption
<1>1. DevTypes /\ ServerTypes
  BY DEF DevInv
<1>2. CASE DevFirstCheck \/ DevFirstVerdict
  <2>1. /\ check'[Server] = check[Server] /\ UNCHANGED <<files, manifest, lock, clock>>
    BY <1>0, <1>2, OneChecks DEF DevFirstCheck, DevFirstVerdict
  <2>2. /\ dev' \in {"firstCheck", "exited", "fingerprint"}
        /\ server' = server \/ server' = StartServer
        /\ UNCHANGED <<interrupted, unseen, passedOver>>
    BY <1>2 DEF DevFirstCheck, DevFirstVerdict
  <2>3. DevTypes'
    BY <1>1, <2>1, <2>2, Zenon DEF DevTypes, DevStates, Watching, StampTypes
  <2>4. ServerTypes'
    BY <1>1, <2>1, <2>2 DEF ServerTypes, HasLoaded, Serving, StartServer, HasRead, StampOf
  <2>5. QED  BY <2>2, <2>3, <2>4 DEF DevInv, Rechecks, RechecksLater, Noticed
<1>3. CASE DevFingerprint
  <2>1. /\ dev' = "watch" /\ Seen' = Full
        /\ unseen' = CASE server.state = "starting" -> FALSE
                       [] server.state \in HasLoaded -> server.read # Reading
                       [] OTHER -> TRUE
        /\ UNCHANGED <<files, manifest, lock, clock, check, server, interrupted>>
    BY <1>3, SeesAll DEF DevFingerprint, workspaceVars, checkVars
  <2>2. Taken(Seen)'
    <3>1. Taken(Full)
      BY <1>1, TakenNow DEF DevTypes
    <3>2. QED  BY <2>1, <3>1 DEF Taken, StampOf
  <2>3. unseen' \in BOOLEAN
    BY <2>1
  <2>4. DevTypes'
    BY <1>1, <2>1, <2>2, <2>3, Zenon DEF DevTypes, DevStates, StampTypes
  <2>5. ServerTypes'
    BY <1>1, <2>1 DEF ServerTypes, HasRead, StampOf
  <2>6. ASSUME ~unseen' PROVE ServesSince'
    <3>1. CASE server.state = "starting"
      BY <2>1, <3>1 DEF ServesSince
    <3>2. CASE server.state \in HasLoaded
      <4>1. server.read = Reading
        BY <2>1, <2>6, <3>2 DEF HasLoaded, Serving
      <4>2. \A m \in Graph(Main) : server.read.sources[m] = files[m] /\ m \in Modules
        BY <1>1, <4>1, TakenNow DEF DevTypes
      <4>3. \A m \in Modules : StampOf(m) \in Nat
        BY WorkspaceAssumption DEF CheckTypes
      <4>4. LoadedSince(server.read.sources, Seen)'
        BY <2>1, <4>2, <4>3, FullIs DEF LoadedSince, StampOf
      <4>5. Seen'[2] = manifest.stamp /\ server.read.manifest = manifest.stamp
            /\ manifest.stamp \in Nat
        BY <1>1, <2>1, <4>1, WorkspaceAssumption, TakenNow, FullIs
           DEF DevTypes, StampTypes, CheckTypes
      <4>6. QED  BY <2>1, <3>2, <4>4, <4>5 DEF ServesSince
    <3>3. QED  BY <2>1, <2>6, <3>1, <3>2
  <2>7. QED  BY <2>1, <2>4, <2>5, <2>6 DEF DevInv, Rechecks, RechecksLater, Noticed
<1>4. QED  BY <1>2, <1>3

(* The watcher's loop, and its end.                                        *)
LEMMA LoopKeepsTypes ==
  ASSUME CheckTypes, DevInv, check'[Server] = check[Server],
         UNCHANGED <<files, manifest, lock, clock, interrupted, unseen>>,
         dev' \in DevStates, dev \in Watching \/ dev' \notin Watching,
         Seen' = Seen \/ Seen' = Full,
         server' = server \/ server' = StartServer
  PROVE  DevTypes' /\ ServerTypes'
<1>1. DevTypes /\ ServerTypes
  BY DEF DevInv
<1>2. dev' \in Watching => Taken(Seen)'
  <2>1. CASE Seen' = Seen
    BY <1>1, <2>1 DEF DevTypes, Taken, StampOf
  <2>2. CASE Seen' = Full
    <3>1. Taken(Full)
      BY <1>1, TakenNow DEF DevTypes
    <3>2. QED  BY <2>2, <3>1 DEF Taken, StampOf
  <2>3. QED  BY <2>1, <2>2
<1>3. interrupted' \in BOOLEAN /\ unseen' \in BOOLEAN /\ StampTypes'
  BY <1>1 DEF DevTypes, StampTypes
<1>4. DevTypes'
  BY <1>2, <1>3, Zenon DEF DevTypes
<1>5. ServerTypes'
  BY <1>1 DEF ServerTypes, HasLoaded, Serving, StartServer, HasRead, StampOf
<1>6. QED  BY <1>4, <1>5

LEMMA LoopKeepsWatch ==
  ASSUME CheckTypes, BlameHolds, DevInv,
         \/ DevNotice \/ DevSettle \/ DevRecheck \/ DevVerdict \/ DevKilledCheck \/ DevRestart
         \/ DevLeave \/ DevExit
  PROVE  DevInv'
<1>0. Watcher \in Checkers /\ Server \in Checkers \ {Watcher} /\ Main \in Entries
  BY WatcherAssumption
<1>1. DevTypes /\ ServerTypes /\ Noticed
  BY DEF DevInv
<1>2. CASE DevNotice \/ DevLeave \/ DevExit
  <2>1. /\ UNCHANGED <<files, manifest, lock, clock, check, Seen, server, interrupted, unseen>>
        /\ dev \in {"watch", "leaving"} /\ dev' \in {"settle", "leaving", "exited"}
    BY <1>2, SeenStays DEF DevNotice, DevLeave, DevExit, workspaceVars, checkVars
  <2>2. DevTypes' /\ ServerTypes'
    BY <2>1, LoopKeepsTypes DEF DevStates, Watching
  <2>3. QED  BY <2>1, <2>2 DEF DevInv, Rechecks, RechecksLater, Noticed
<1>3. CASE DevSettle
  <2>1. /\ UNCHANGED <<files, manifest, lock, clock, check, server, interrupted, unseen>>
        /\ dev = "settle" /\ dev' = "recheck" /\ Seen' = Full
    BY <1>3, SeesAll DEF DevSettle, workspaceVars, checkVars
  <2>2. DevTypes' /\ ServerTypes'
    BY <2>1, LoopKeepsTypes DEF DevStates, Watching
  <2>3. QED  BY <2>1, <2>2 DEF DevInv, Rechecks, RechecksLater, Noticed
<1>4. CASE DevRecheck
  <2>1. /\ check'[Watcher].phase = "analysing" /\ check'[Watcher].entry = Main
        /\ check'[Watcher].loaded = [m \in Graph(Main) |-> files[m]]
        /\ check'[Server] = check[Server] /\ UNCHANGED <<files, manifest, lock, clock>>
    BY <1>0, <1>4, OneChecks DEF DevRecheck
  <2>2. /\ UNCHANGED <<Seen, server, interrupted, unseen>>
        /\ dev = "recheck" /\ dev' = "checking"
    BY <1>4, SeenStays DEF DevRecheck
  <2>3. DevTypes' /\ ServerTypes'
    BY <2>1, <2>2, LoopKeepsTypes DEF DevStates, Watching
  <2>4. Rechecks' /\ Noticed'
    BY <2>1, <2>2 DEF Rechecks, Noticed
  <2>5. RechecksLater'
    <3>1. \A m \in Graph(Main) : Seen[1][m] =< StampOf(m)
      BY <1>1, <2>2 DEF DevTypes, Watching, Taken
    <3>2. Graph(Main) \subseteq Modules
      BY <1>0, GraphClosed
    <3>3. \A m \in Graph(Main) : Seen[1][m] =< check'[Watcher].loaded[m].stamp
      BY <2>1, <3>1, <3>2 DEF StampOf
    <3>4. QED  BY <2>1, <2>2, <3>3 DEF RechecksLater, LoadedSince
  <2>6. QED  BY <2>3, <2>4, <2>5 DEF DevInv
<1>5. CASE DevVerdict
  <2>1. /\ check[Watcher].phase = "done" /\ check'[Watcher].phase = "idle"
        /\ check'[Server] = check[Server] /\ UNCHANGED <<files, manifest, lock, clock>>
    BY <1>0, <1>5, OneChecks DEF DevVerdict, EndCheck
  <2>2. /\ UNCHANGED <<Seen, server, interrupted, unseen>>
        /\ dev = "checking" /\ dev' = (IF check[Watcher].failed THEN "watch" ELSE "stopping")
    BY <1>5, SeenStays DEF DevVerdict
  <2>3. DevTypes' /\ ServerTypes'
    BY <2>1, <2>2, LoopKeepsTypes DEF DevStates, Watching
  <2>4. Rechecks' /\ RechecksLater'
    BY <2>2 DEF Rechecks, RechecksLater
  <2>5. check[Watcher].failed => Full # Seen \/ ~SourcesAreGood
    <3>1. Watcher \in Live
      BY <1>0, <2>1 DEF Live
    <3>2. check[Watcher].entry = Main /\ LoadedSince(check[Watcher].loaded, Seen)
      BY <2>1, <2>2 DEF DevInv, RechecksLater
    <3>3. Taken(Seen)
      BY <1>1, <2>2 DEF DevTypes, Watching
    <3>4. QED  BY <3>1, <3>2, <3>3, FailsForCause
  <2>6. Noticed'
    BY <2>1, <2>2, <2>5, FullStays, GoodnessStays DEF Noticed
  <2>7. QED  BY <2>3, <2>4, <2>6 DEF DevInv
<1>6. CASE DevKilledCheck
  <2>1. /\ UNCHANGED <<files, manifest, lock, clock, check, Seen, server, interrupted, unseen>>
        /\ check[Watcher].phase = "idle"
        /\ \/ dev = "firstCheck" /\ dev' = "exited"
           \/ dev = "checking" /\ dev' = "watch"
    BY <1>6, SeenStays DEF DevKilledCheck, workspaceVars, checkVars
  <2>2. DevTypes' /\ ServerTypes'
    BY <2>1, LoopKeepsTypes DEF DevStates, Watching
  <2>3. dev = "checking" => interrupted
    BY <2>1 DEF DevInv, Rechecks
  <2>4. QED  BY <2>1, <2>2, <2>3 DEF DevInv, Rechecks, RechecksLater, Noticed
<1>7. CASE DevRestart
  <2>1. /\ UNCHANGED <<files, manifest, lock, clock, check, Seen, interrupted, unseen>>
        /\ dev = "stopping" /\ dev' = "watch" /\ server' = StartServer
    BY <1>7, SeenStays DEF DevRestart, workspaceVars, checkVars
  <2>2. DevTypes' /\ ServerTypes'
    BY <2>1, LoopKeepsTypes DEF DevStates, Watching
  <2>3. ServesSince'
    BY <2>1 DEF ServesSince, StartServer
  <2>4. QED  BY <2>1, <2>2, <2>3 DEF DevInv, Rechecks, RechecksLater, Noticed
<1>8. QED  BY <1>2, <1>3, <1>4, <1>5, <1>6, <1>7

(* The server, and Control-C.                                              *)
LEMMA ServerKeepsWatch ==
  ASSUME CheckTypes, BlameHolds, DevInv,
         ServerLoad \/ ServerListen \/ ServerStop \/ ServerTaken \/ ServerReleased
  PROVE  DevInv'
<1>0. Watcher \in Checkers /\ Server \in Checkers /\ Watcher # Server /\ Main \in Entries
  BY WatcherAssumption
<1>1. DevTypes /\ ServerTypes /\ Noticed /\ Rechecks /\ RechecksLater
  BY DEF DevInv
<1>2. /\ check'[Watcher] = check[Watcher]
      /\ UNCHANGED <<files, manifest, lock, clock, dev, Seen, interrupted, unseen>>
  <2>1. CASE /\ ServerStop \/ ServerTaken \/ ServerReleased
             /\ UNCHANGED <<workspaceVars, checkVars>>
    BY <2>1, SeenStays DEF ServerStop, ServerTaken, ServerReleased, workspaceVars, checkVars
  <2>2. CASE StartCheck(Server, Main) \/ EndCheck(Server) \/ InterruptCheck(Server)
    <3>1. check'[Watcher] = check[Watcher] /\ UNCHANGED <<files, manifest, lock, clock>>
      BY <1>0, <2>2, OneChecks
    <3>2. QED  BY <2>2, <3>1, SeenStays DEF ServerLoad, ServerListen, ServerStop, ServerTaken,
       ServerReleased, workspaceVars, checkVars
  <2>3. QED  BY <2>1, <2>2 DEF ServerLoad, ServerListen, ServerStop, ServerTaken, ServerReleased
<1>3. DevTypes'
  BY <1>1, <1>2 DEF DevTypes, StampTypes, Taken, StampOf
<1>4. Rechecks' /\ RechecksLater'
  BY <1>1, <1>2 DEF Rechecks, RechecksLater
<1>5. (Full = Seen)' <=> Full = Seen
  BY <1>2, FullStays
<1>6. SourcesAreGood' <=> SourcesAreGood
  BY <1>2, GoodnessStays
<1>7. CASE ServerLoad
  <2>1. /\ server.state = "starting" /\ server' = [state |-> "analysing", read |-> Reading]
        /\ check'[Server].phase = "analysing" /\ check'[Server].entry = Main
        /\ check'[Server].loaded = [m \in Graph(Main) |-> files[m]]
    BY <1>0, <1>7, OneChecks DEF ServerLoad
  <2>2. HasRead(Reading) /\ Reading.manifest = manifest.stamp
        /\ \A m \in Graph(Main) : Reading.sources[m] = files[m] /\ m \in Modules
    BY <1>1, TakenNow DEF DevTypes
  <2>3. HasRead(server.read)'
    BY <1>2, <2>1, <2>2 DEF HasRead, StampOf
  <2>4. ServerTypes'
    BY <2>1, <2>3 DEF ServerTypes, HasLoaded, Serving, Reading
  <2>5. dev = "watch" => ServesSince'
    <3>1. SUFFICES ASSUME dev = "watch" PROVE ServesSince'
      OBVIOUS
    <3>2. Taken(Seen)
      BY <1>1, <3>1 DEF DevTypes, Watching
    <3>3. server'.state = "analysing" /\ server'.read = Reading
      BY <2>1
    <3>4. Seen[2] =< Reading.manifest
      BY <2>2, <3>2 DEF Taken
    <3>5. \A m \in Graph(Main) : Seen[1][m] =< Reading.sources[m].stamp
      BY <2>2, <3>2 DEF Taken, StampOf
    <3>6. QED  BY <1>2, <3>3, <3>4, <3>5 DEF ServesSince, HasLoaded, LoadedSince
  <2>6. QED  BY <1>2, <1>3, <1>4, <2>4, <2>5 DEF DevInv, Noticed
<1>8. CASE ServerListen
  <2>1. /\ server.state = "analysing" /\ check[Server].phase = "done"
        /\ server' = (IF check[Server].failed THEN [state |-> "exited"]
                      ELSE [state |-> "listening", read |-> server.read])
    BY <1>8 DEF ServerListen, EndCheck
  <2>2. ServerTypes'
    BY <1>1, <1>2, <2>1 DEF ServerTypes, HasLoaded, Serving, HasRead, StampOf
  <2>3. SUFFICES ASSUME dev = "watch", ~interrupted, ~unseen, Full = Seen, SourcesAreGood
                 PROVE  ServesSince'
    BY <1>2, <1>3, <1>4, <1>5, <1>6, <2>2 DEF DevInv, Noticed
  <2>4. ServesSince
    BY <1>1, <2>3 DEF Noticed
  <2>5. ~check[Server].failed
    <3>1. Server \in Live
      BY <1>0, <2>1 DEF Live
    <3>2. check[Server].entry = Main /\ LoadedSince(check[Server].loaded, Seen)
      BY <1>1, <2>1, <2>4 DEF ServerTypes, ServesSince
    <3>3. Taken(Seen)
      BY <1>1, <2>3 DEF DevTypes, Watching
    <3>4. QED  BY <2>3, <3>1, <3>2, <3>3, FailsForCause
  <2>6. server'.state = "listening" /\ server'.read = server.read
    BY <2>1, <2>5
  <2>7. QED  BY <1>2, <2>1, <2>4, <2>6 DEF ServesSince, HasLoaded, Serving, LoadedSince
<1>9. CASE ServerStop
  <2>1. server'.state = "exited" /\ Signalled
    BY <1>9 DEF ServerStop
  <2>2. ServerTypes'
    BY <2>1 DEF ServerTypes, HasLoaded, Serving
  <2>3. dev # "watch" \/ interrupted
    BY <2>1 DEF Signalled, Terminating
  <2>4. QED  BY <1>2, <1>3, <1>4, <2>2, <2>3 DEF DevInv, Noticed
<1>10. CASE ServerTaken \/ ServerReleased
  <2>1. /\ server.state \in Serving
        /\ \/ server'.state \in Serving /\ server' = [state |-> server'.state, read |-> server.read]
           \/ server'.state = "exited" /\ Signalled
    <3>1. server.state \in Serving
      BY <1>10 DEF ServerTaken, ServerReleased, Serving
    <3>2. server = [state |-> server.state, read |-> server.read]
      BY <1>1, <3>1 DEF ServerTypes, HasLoaded
    <3>3. QED  BY <1>10, <3>1, <3>2 DEF ServerTaken, ServerReleased, Serving
  <2>2. ServerTypes'
    BY <1>1, <1>2, <2>1 DEF ServerTypes, HasLoaded, Serving, HasRead, StampOf
  <2>3. CASE /\ server'.state \in Serving
             /\ server' = [state |-> server'.state, read |-> server.read]
    <3>1. ServesSince => ServesSince'
      BY <1>2, <2>1, <2>3 DEF ServesSince, LoadedSince, HasLoaded, Serving
    <3>2. QED  BY <1>1, <1>2, <1>3, <1>4, <1>5, <1>6, <2>2, <3>1 DEF DevInv, Noticed
  <2>4. CASE Signalled
    <3>1. dev # "watch" \/ interrupted
      BY <2>4 DEF Signalled, Terminating
    <3>2. QED  BY <1>2, <1>3, <1>4, <2>2, <3>1 DEF DevInv, Noticed
  <2>5. QED  BY <2>1, <2>3, <2>4
<1>11. QED  BY <1>7, <1>8, <1>9, <1>10

LEMMA InterruptKeepsWatch ==
  ASSUME CheckTypes, DevInv, Interrupt
  PROVE  DevInv'
<1>1. /\ check'[Server] = check[Server] /\ UNCHANGED <<files, manifest, lock, clock>>
      /\ check'[Watcher].phase # "idle" => check' = check
  <2>1. CASE InterruptCheck(Watcher)
    <3>1. Watcher \in Checkers /\ Server \in Checkers \ {Watcher}
      BY WatcherAssumption
    <3>2. QED  BY <2>1, <3>1, OneChecks
  <2>2. CASE UNCHANGED <<workspaceVars, checkVars>>
    BY <2>2 DEF workspaceVars, checkVars
  <2>3. QED  BY <2>1, <2>2 DEF Interrupt
<1>2. interrupted' = TRUE /\ UNCHANGED <<dev, Seen, server, unseen>>
  BY SeenStays DEF Interrupt
<1>3. interrupted' \in BOOLEAN
  BY <1>2, Zenon
<1>4. Taken(Seen)' <=> Taken(Seen)
  BY <1>1, <1>2 DEF Taken, StampOf
<1>5. DevTypes'
  BY <1>1, <1>2, <1>3, <1>4 DEF DevInv, DevTypes, StampTypes
<1>6. ServerTypes'
  BY <1>1, <1>2 DEF DevInv, ServerTypes, HasRead, StampOf
<1>7. RechecksLater'
  BY <1>1, <1>2 DEF DevInv, RechecksLater
<1>8. QED  BY <1>2, <1>5, <1>6, <1>7 DEF DevInv, Rechecks, Noticed

LEMMA WatchKeeps == CheckInv /\ BlameHolds /\ DevInv /\ [Next]_vars => DevInv'
<1> SUFFICES ASSUME CheckInv, BlameHolds, DevInv, [Next]_vars PROVE DevInv'
  OBVIOUS
<1>0. Watcher \in Checkers /\ Server \in Checkers /\ Watcher # Server /\ Main \in Entries
  BY WatcherAssumption
<1>1. CheckTypes /\ CheckTypes' /\ StampTypes
  BY CheckKeeps DEF CheckInv, DevInv, DevTypes
<1>2. Later /\ StampTypes'
  BY <1>1, StepsSave
<1>3. CASE UNCHANGED <<devVars, check>>
  BY <1>1, <1>2, <1>3, OthersKeepWatch DEF SameChecks
<1>4. CASE DevNext
  <2>1. ASSUME NEW p \in {Watcher, Server}, CheckStep(p), UNCHANGED devVars
        PROVE  DevInv'
    <3>1. /\ \A q \in Checkers \ {p} : check'[q] = check[q]
          /\ check'[p].phase # "idle" /\ check'[p].entry = check[p].entry
          /\ check'[p].loaded = check[p].loaded /\ check[p].phase # "idle"
      BY <1>0, <1>1, <2>1, StepGoesOn
    <3>2. SameChecks /\ (check'[Watcher].phase = "idle" <=> check[Watcher].phase = "idle")
      BY <1>0, <3>1 DEF SameChecks
    <3>3. QED  BY <1>1, <1>2, <2>1, <3>2, OthersKeepWatch
  <2>2. CASE DevFirstCheck \/ DevFirstVerdict \/ DevFingerprint
    BY <1>1, <2>2, FirstsKeepWatch
  <2>3. CASE \/ DevNotice \/ DevSettle \/ DevRecheck \/ DevVerdict \/ DevKilledCheck
             \/ DevRestart \/ DevLeave \/ DevExit
    BY <1>1, <2>3, LoopKeepsWatch
  <2>4. CASE ServerLoad \/ ServerListen \/ ServerStop \/ ServerTaken \/ ServerReleased
    BY <1>1, <2>4, ServerKeepsWatch
  <2>5. CASE Interrupt
    BY <1>1, <2>5, InterruptKeepsWatch
  <2>6. QED  BY <1>4, <2>1, <2>2, <2>3, <2>4, <2>5 DEF DevNext
<1>5. CASE (TypeCheck \/ RunCheck) /\ UNCHANGED devVars
  <2>1. PICK p \in Terminals :
          CheckStep(p) \/ InterruptCheck(p) \/ EndCheck(p) \/ \E e \in Entries : StartCheck(p, e)
    BY <1>5 DEF TypeCheck, RunCheck
  <2>2. p \in Checkers /\ p # Watcher /\ p # Server
    BY TerminalAssumption
  <2>3. \A q \in Checkers \ {p} : check'[q] = check[q]
    BY <1>1, <2>1, <2>2, StepGoesOn, OneChecks
  <2>4. SameChecks /\ check'[Watcher] = check[Watcher]
    BY <1>0, <2>2, <2>3 DEF SameChecks
  <2>5. QED  BY <1>1, <1>2, <1>5, <2>4, OthersKeepWatch
<1>6. QED
  BY <1>3, <1>4, <1>5 DEF Next, Save, checkVars, vars

(* The verdict of every check in progress, and what the watcher and its    *)
(* server know of the project, hold in every reachable state.              *)
THEOREM WatchSound == Spec => [](CheckInv /\ BlameHolds /\ DevInv)
<1>1. Init => CheckInv /\ BlameHolds /\ DevInv
  <2>1. Init => BlameHolds
    BY DEF Init, BlameHolds, Live, Idle
  <2>2. QED  BY <2>1, CheckInitially, DevInitially
<1>2. CheckInv /\ BlameHolds /\ DevInv /\ [Next]_vars => (CheckInv /\ BlameHolds /\ DevInv)'
  BY CheckKeeps, BlameKeeps, WatchKeeps
<1>3. QED  BY <1>1, <1>2, PTL DEF Spec

(* No save the watcher covers is missed: as long as it sees no change, the *)
(* server has read, or is going to read, the whole project as it was last  *)
(* saved, if that is free of errors, the watcher has not been interrupted, *)
(* no save fell before the first fingerprint and no module the fingerprint *)
(* leaves out was saved after the last one; whatever is saved, checked or  *)
(* killed in between, and whoever holds the server.                        *)
THEOREM SavesAreNoticed == Spec => []NoticedOrServed
<1>1. CheckInv /\ DevInv => NoticedOrServed
  <2>1. SUFFICES ASSUME CheckInv, DevInv, dev = "watch", Watched = fingerprint, ~interrupted,
                        ~unseen, ~Overlooked, SourcesAreGood, server.state # "starting"
                 PROVE  server.state \in HasLoaded /\ server.read = Reading
    BY DEF NoticedOrServed
  <2> DEFINE r == server.read
  <2>2. Full = Seen
    BY <2>1, NothingSaved
  <2>3. /\ server.state \in HasLoaded /\ HasRead(r)
        /\ Seen[2] =< r.manifest /\ LoadedSince(r.sources, Seen)
    BY <2>1, <2>2 DEF DevInv, Noticed, ServesSince, ServerTypes
  <2>4. \A m \in Graph(Main) : Seen[1][m] = StampOf(m) /\ StampOf(m) \in Nat
    BY <2>1, <2>2, FullIs, GraphClosed, WatcherAssumption, WorkspaceAssumption
       DEF CheckInv, CheckTypes
  <2>5. Seen[2] = manifest.stamp /\ manifest.stamp \in Nat
    BY <2>1, <2>2, FullIs, WorkspaceAssumption DEF DevInv, DevTypes, StampTypes, CheckInv, CheckTypes
  <2>6. r.manifest = manifest.stamp
    BY <2>3, <2>5 DEF HasRead
  <2>7. \A m \in Graph(Main) : r.sources[m] = files[m]
    BY <2>3, <2>4 DEF HasRead, LoadedSince
  <2>8. r = Reading
    BY <2>3, <2>6, <2>7 DEF HasRead, Reading
  <2>9. QED  BY <2>3, <2>8
<1>2. QED  BY <1>1, WatchSound, PTL
=============================================================================
