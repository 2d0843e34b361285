------------------------------- MODULE Installer -------------------------------
(***************************************************************************)
(* `ky self update` and `ky self uninstall`: install.sh and install.ps1    *)
(* download an archive and its checksums, keep the executables that are    *)
(* there, and put the new ones in their place; npm's installer replaces    *)
(* its own directory.  A step is one command of a script.  A copy is open  *)
(* between two steps; a run can be interrupted at any of them and started  *)
(* again.  One command runs at a time; releases are the publisher's.       *)
(***************************************************************************)
EXTENDS Naturals, Sequences, FiniteSets

CONSTANTS
    MaxReleases,    \* bound: how many releases are published
    MaxInstalls     \* bound: how many commands are typed

Executables == {"ky", "kyna"}
Names == Executables \union {"ky.previous", "kyna.previous", "ky.new", "kyna.new"}
Flavours == {"sh", "ps1", "npm"}

VARIABLES
    script,     \* which installer this machine uses
    latest,     \* the newest release
    files,      \* files[n]: [release, whole], or Missing
    manifest,   \* the names that install-manifest.txt lists, <<>> without one
    run,        \* the steps left and what was fetched
    installs,   \* how many commands were typed
    tidy,       \* no installation was left in the middle since the last one
                \* that was completed
    kept,       \* what the last uninstall failed to remove, without a word
    standing    \* "none" before the first executable is in place, "installed",
                \* "removing" since an uninstall has begun, "clean" after one
                \* that was begun when all was tidy

installVars == <<script, latest, files, manifest, run, installs, tidy, kept, standing>>

Missing == [release |-> 0, whole |-> FALSE]
Present(n) == files[n] # Missing
Intact(n) == Present(n) /\ files[n].whole
Idle == [steps |-> <<>>, archive |-> 0, into |-> "none", from |-> Missing]

InstallInit(flavours) ==
    /\ script \in flavours
    /\ latest = 1
    /\ files = [n \in Names |-> Missing]
    /\ manifest = <<>>
    /\ run = Idle
    /\ installs = 0
    /\ tidy = TRUE
    /\ kept = {}
    /\ standing = "none"

Publish ==
    /\ latest < MaxReleases
    /\ latest' = latest + 1
    /\ UNCHANGED <<script, files, manifest, run, installs, tidy, kept, standing>>

CopyTo(from, to) == [do |-> "copy", from |-> from, to |-> to]
MoveTo(from, to) == [do |-> "move", from |-> from, to |-> to]
Delete(n) == [do |-> "remove", from |-> n, to |-> n]
Step(name) == [do |-> name, from |-> "none", to |-> "none"]

(* Mutation: the new executable is copied over the old one.                *)
ReplacingInPlace(s) ==
    <<Step("archive"), Step("sums"), CopyTo("ky", "ky.previous"), CopyTo("kyna", "kyna.previous"),
      CopyTo("archive", "ky"), CopyTo("ky", "kyna"), Step("manifest")>>

(* The commands of each script that change anything outside its temporary  *)
(* directory, after the two downloads.                                     *)
Replacing(s) ==
    CASE s = "npm" -> <<Step("sums"), Step("archive"), Delete("ky"), CopyTo("archive", "ky")>>
      [] s = "sh" -> <<Step("archive"), Step("sums"),
                       CopyTo("ky", "ky.previous"), CopyTo("kyna", "kyna.previous"),
                       CopyTo("archive", "ky.new"), MoveTo("ky.new", "ky"),
                       CopyTo("ky", "kyna.new"), MoveTo("kyna.new", "kyna"), Step("manifest")>>
      [] s = "ps1" -> <<Step("archive"), Step("sums"),
                        CopyTo("ky", "ky.previous"), CopyTo("kyna", "kyna.previous"),
                        CopyTo("archive", "ky.new"), MoveTo("ky.new", "ky"),
                        CopyTo("ky", "kyna"), Step("manifest")>>

(* The files an uninstall removes: those of the manifest, the four known   *)
(* names when there is none.                                               *)
Removing ==
    LET listed == IF manifest = <<>> THEN <<"ky", "kyna", "ky.previous", "kyna.previous">>
                  ELSE manifest
    IN  Append([i \in DOMAIN listed |-> Delete(listed[i])], Step("forget"))

TypeCommand(steps) ==
    /\ installs < MaxInstalls
    /\ installs' = installs + 1
    /\ run.steps = <<>>
    /\ run' = [Idle EXCEPT !.steps = steps]
    /\ kept' = {}
    /\ UNCHANGED <<script, latest, files, manifest, tidy>>

(* npm selects a version and does not follow the newest release.           *)
SelfUpdate ==
    /\ TypeCommand(Replacing(script))
    /\ standing' = IF standing = "clean" THEN "none" ELSE standing
SelfUninstall ==
    /\ script # "npm"
    /\ TypeCommand(Removing)
    /\ standing' = "removing"

Due == Head(run.steps)
IsDue(what) == run.steps # <<>> /\ Due.do = what
Advance == [run EXCEPT !.steps = Tail(@)]

(* The archive and SHA256SUMS are two requests: a release between them     *)
(* makes them differ, and the script ends.  npm asks for its own tag.      *)
Download ==
    /\ \/ /\ IsDue("archive")
          /\ run' = [Advance EXCEPT !.archive = latest]
       \/ /\ IsDue("sums")
          /\ run' = IF script = "npm" \/ run.archive = latest THEN Advance ELSE Idle
    /\ UNCHANGED <<script, latest, files, manifest, installs, tidy, kept, standing>>

Source == IF Due.from = "archive" THEN [release |-> run.archive, whole |-> TRUE]
          ELSE files[Due.from]

(* A copy truncates its target and fills it; copies of executables that    *)
(* are not there are skipped.                                              *)
BeginCopy ==
    /\ IsDue("copy") /\ run.into = "none"
    /\ IF Source = Missing
       THEN /\ run' = Advance
            /\ UNCHANGED files
       ELSE /\ files' = [files EXCEPT ![Due.to] = [release |-> Source.release, whole |-> FALSE]]
            /\ run' = [run EXCEPT !.into = Due.to, !.from = Source]
    /\ UNCHANGED <<script, latest, manifest, installs, tidy, kept, standing>>

EndCopy ==
    /\ run.into # "none"
    /\ files' = [files EXCEPT ![run.into] = run.from]
    /\ run' = [Advance EXCEPT !.into = "none", !.from = Missing]
    /\ standing' = IF run.into = "ky" THEN "installed" ELSE standing
    /\ UNCHANGED <<script, latest, manifest, installs, tidy, kept>>

(* install.ps1: Move-Item -Force removes the target first.                 *)
BeginMove ==
    /\ IsDue("move") /\ script = "ps1" /\ Present(Due.to)
    /\ files' = [files EXCEPT ![Due.to] = Missing]
    /\ UNCHANGED <<script, latest, manifest, run, installs, tidy, kept, standing>>

(* install.sh: a rename takes the place of its target at once.             *)
MoveFile ==
    /\ IsDue("move") /\ (script = "ps1" => ~Present(Due.to))
    /\ files' = [files EXCEPT ![Due.to] = files[Due.from], ![Due.from] = Missing]
    /\ run' = Advance
    /\ standing' = IF Due.to = "ky" THEN "installed" ELSE standing
    /\ UNCHANGED <<script, latest, manifest, installs, tidy, kept>>

RemoveFile ==
    /\ IsDue("remove")
    /\ files' = [files EXCEPT ![Due.from] = Missing]
    /\ run' = Advance
    /\ UNCHANGED <<script, latest, manifest, installs, tidy, kept, standing>>

(* The error of a removal is not looked at; npm's installer ends by it.    *)
RemoveFails ==
    /\ IsDue("remove") /\ script # "npm" /\ Present(Due.from)
    /\ kept' = kept \union {Due.from}
    /\ run' = Advance
    /\ UNCHANGED <<script, latest, files, manifest, installs, tidy, standing>>

IfPresent(n) == IF Present(n) THEN <<n>> ELSE <<>>

(* The manifest is written over the old one: names of what is there.       *)
WriteManifest ==
    /\ IsDue("manifest")
    /\ manifest' = <<"ky", "kyna">> \o IfPresent("ky.previous") \o IfPresent("kyna.previous")
    /\ run' = Idle
    /\ tidy' = TRUE
    /\ UNCHANGED <<script, latest, files, installs, kept, standing>>

(* The manifest is removed last, or stays by an error as well.             *)
Forget ==
    /\ IsDue("forget")
    /\ manifest' \in {<<>>, manifest}
    /\ run' = Idle
    /\ standing' = IF tidy THEN "clean" ELSE "removing"
    /\ UNCHANGED <<script, latest, files, installs, tidy, kept>>

(* Control-C, a full disk, the end of the machine: a copy stays as it is,  *)
(* the manifest may have been begun.                                       *)
Interrupt ==
    /\ run.steps # <<>>
    /\ run' = Idle
    /\ manifest' \in IF Due.do = "manifest" THEN {manifest, <<>>, <<"ky">>} ELSE {manifest}
    /\ tidy' = (tidy /\ Due.do \in {"archive", "sums", "remove", "forget"})
    /\ UNCHANGED <<script, latest, files, installs, kept, standing>>

InstallNext ==
    \/ Publish \/ SelfUpdate \/ SelfUninstall
    \/ Download \/ BeginCopy \/ EndCopy \/ BeginMove \/ MoveFile
    \/ RemoveFile \/ RemoveFails \/ WriteManifest \/ Forget \/ Interrupt

(* However often a command is interrupted and typed again, from the first  *)
(* installation to an uninstall: under install.sh there is a ky, and it    *)
(* and kyna are never half a copy; under install.ps1 a ky that is there is *)
(* whole, and where it is missing, because a move ended between its two    *)
(* halves, ky.previous is whole.  An uninstall that no half-done           *)
(* installation precedes leaves none of the executables behind, but those  *)
(* whose removal failed.  npm's installer removes ky before it has the new *)
(* one, and nothing is claimed for it, nor for install.ps1's kyna.         *)
InstalledOrGone ==
    /\ (script = "sh") =>
          /\ (standing = "installed") => Present("ky")
          /\ \A n \in Executables : Present(n) => files[n].whole
    /\ (script = "ps1") =>
          /\ (standing = "installed") => Present("ky") \/ Intact("ky.previous")
          /\ Present("ky") => files["ky"].whole
    /\ (standing = "clean") => \A n \in Names : Present(n) => n \in kept

(* What docs/distribution.md says of both installers, that they install    *)
(* atomically: when none of them is running, an interrupted one included,  *)
(* each executable is whole, and ky there once it was installed.           *)
InstalledAtomically ==
    (script \in {"sh", "ps1"} /\ run.steps = <<>>) =>
        /\ (standing = "installed") => Present("ky")
        /\ \A n \in Executables : Present(n) => files[n].whole
=============================================================================
