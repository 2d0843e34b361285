-------------------------- MODULE Installer_proofs --------------------------
(***************************************************************************)
(* The invariant of an installation, for any number of releases, commands  *)
(* and interruptions: where in its script a run stands, which files that   *)
(* makes whole, and what a run that was left has to leave to the next.     *)
(***************************************************************************)
EXTENDS Installer, SequenceTheorems, TLAPS


Copies == [release : Nat, whole : BOOLEAN]
Commands ==
    {Step(what) : what \in {"archive", "sums", "manifest", "forget"}}
      \union {CopyTo(from, to) : from \in Names \union {"archive"}, to \in Names}
      \union {MoveTo(from, to) : from \in Names, to \in Names}
      \union {Delete(n) : n \in Names}

(* The names a manifest can list.                                          *)
Known == {"ky", "kyna", "ky.previous", "kyna.previous"}

Runs == [steps : Seq(Commands), archive : Nat, into : Names \union {"none"}, from : Copies]

InstallTypes ==
    /\ script \in Flavours
    /\ latest \in Nat
    /\ files \in [Names -> Copies]
    /\ manifest \in Seq(Known)
    /\ run \in Runs
    /\ tidy \in BOOLEAN
    /\ kept \in SUBSET Names
    /\ standing \in {"none", "installed", "removing", "clean"}

(* The names that an uninstall would remove.                               *)
Listed ==
    IF manifest = <<>> THEN Known
    ELSE {manifest[i] : i \in DOMAIN manifest}

(* An install.sh or install.ps1 from its k-th command on: the renames find *)
(* a whole executable, nothing stays where it waited for them, and a ky    *)
(* that is about to be replaced has a whole copy.                          *)
Installing(k) ==
    /\ k \in 1 .. Len(Replacing(script))
    /\ run.steps = SubSeq(Replacing(script), k, Len(Replacing(script)))
    /\ (k \in 4 .. 6 /\ Present("ky")) => Intact("ky.previous")
    /\ k = 6 => Intact("ky.new")
    /\ k >= 7 => Present("ky") /\ ~Present("ky.new")
    /\ script = "sh" => (k = 8 => Intact("kyna.new")) /\ (k = 9 => ~Present("kyna.new"))

(* An uninstall: what is left of it names everything that is there and     *)
(* that it has not failed to remove, when it was begun when all was tidy.  *)
Uninstalling ==
    /\ run.steps # <<>> /\ run.steps[Len(run.steps)] = Step("forget")
    /\ \A i \in 1 .. Len(run.steps) - 1 : \E n \in Names : run.steps[i] = Delete(n)
    /\ standing = "removing"
    /\ tidy => \A n \in Names : Present(n) =>
                  \/ n \in kept
                  \/ \E i \in 1 .. Len(run.steps) - 1 : run.steps[i] = Delete(n)

(* A copy under way is that of the command that is due.                    *)
Copying ==
    run.into # "none" => /\ run.steps # <<>> /\ Due.do = "copy" /\ Due.to = run.into
                     /\ run.from # Missing

Planned == run.steps = <<>> \/ (\E k \in 1 .. 9 : Installing(k)) \/ Uninstalling

InPlace ==
    /\ standing = "installed" =>
          Present("ky") \/ (script = "ps1" /\ Intact("ky.previous"))
    /\ Present("ky") => files["ky"].whole
    /\ (script = "sh" /\ Present("kyna")) => files["kyna"].whole
    /\ (script = "ps1") => ~Present("kyna.new")

Tidied ==
    (tidy /\ (run.steps = <<>> \/ Due.do \in {"archive", "sums", "remove", "forget"}))
        => \A n \in Names : Present(n) => n \in Listed

ByScript ==
    /\ Planned /\ InPlace /\ Tidied
    /\ run.into \in {"ky.new", "kyna.new", "ky.previous"} => run.from.whole
    /\ standing = "clean" => run.steps = <<>> /\ \A n \in Names : Present(n) => n \in kept

ByNpm ==
    /\ standing # "clean"
    /\ \A i \in 1 .. Len(run.steps) : run.steps[i].do # "forget"

InstallInv == InstallTypes /\ Copying /\ IF script = "npm" THEN ByNpm ELSE ByScript

LEMMA Fields ==
  /\ \A what : Step(what).do = what
  /\ \A from, to : /\ CopyTo(from, to).do = "copy" /\ CopyTo(from, to).from = from
                   /\ CopyTo(from, to).to = to
  /\ \A from, to : /\ MoveTo(from, to).do = "move" /\ MoveTo(from, to).from = from
                   /\ MoveTo(from, to).to = to
  /\ \A n : Delete(n).do = "remove" /\ Delete(n).from = n
BY DEF Step, CopyTo, MoveTo, Delete

LEMMA CommandFields ==
  /\ \A what \in {"archive", "sums", "manifest", "forget"} :
        Step(what) \in Commands /\ Step(what).do = what
  /\ \A from \in Names \union {"archive"}, to \in Names :
        /\ CopyTo(from, to) \in Commands
        /\ CopyTo(from, to).do = "copy" /\ CopyTo(from, to).from = from /\ CopyTo(from, to).to = to
  /\ \A from, to \in Names :
        /\ MoveTo(from, to) \in Commands
        /\ MoveTo(from, to).do = "move" /\ MoveTo(from, to).from = from /\ MoveTo(from, to).to = to
  /\ \A n \in Names :
        Delete(n) \in Commands /\ Delete(n).do = "remove" /\ Delete(n).from = n
  /\ \A c \in Commands :
        /\ c.do = "copy" => c.from \in Names \union {"archive"} /\ c.to \in Names
        /\ c.do = "move" => c.from \in Names /\ c.to \in Names
        /\ c.do = "remove" => c.from \in Names
<1> DEFINE A == {Step(what) : what \in {"archive", "sums", "manifest", "forget"}}
           B == {CopyTo(from, to) : from \in Names \union {"archive"}, to \in Names}
           C == {MoveTo(from, to) : from \in Names, to \in Names}
           D == {Delete(n) : n \in Names}
<1>1. Commands = A \union B \union C \union D
  BY DEF Commands
<1>2. /\ \A what \in {"archive", "sums", "manifest", "forget"} : Step(what) \in A
      /\ \A from \in Names \union {"archive"}, to \in Names : CopyTo(from, to) \in B
      /\ \A from, to \in Names : MoveTo(from, to) \in C
      /\ \A n \in Names : Delete(n) \in D
  OBVIOUS
<1>3. \A c \in A : c.do \notin {"copy", "move", "remove"}
  BY Fields
<1>4. \A c \in B : c.do = "copy" /\ c.from \in Names \union {"archive"} /\ c.to \in Names
  BY Fields
<1>5. \A c \in C : c.do = "move" /\ c.from \in Names /\ c.to \in Names
  BY Fields
<1>6. \A c \in D : c.do = "remove" /\ c.from \in Names
  BY Fields
<1> HIDE DEF A, B, C, D
<1>7. \A c \in Commands :
        /\ c.do = "copy" => c.from \in Names \union {"archive"} /\ c.to \in Names
        /\ c.do = "move" => c.from \in Names /\ c.to \in Names
        /\ c.do = "remove" => c.from \in Names
  BY <1>1, <1>3, <1>4, <1>5, <1>6
<1>8. QED  BY <1>1, <1>2, <1>7, Fields

LEMMA AllNames ==
  /\ "ky" \in Names /\ "kyna" \in Names /\ "ky.previous" \in Names /\ "kyna.previous" \in Names
  /\ "ky.new" \in Names /\ "kyna.new" \in Names
  /\ "archive" \notin Names /\ "none" \notin Names /\ Known \subseteq Names
BY DEF Names, Executables, Known

(* The commands of a script, one by one.                                   *)
LEMMA Sh ==
  /\ Replacing("sh") \in Seq(Commands) /\ Len(Replacing("sh")) = 9
  /\ Replacing("sh")[1] = Step("archive") /\ Replacing("sh")[2] = Step("sums")
  /\ Replacing("sh")[3] = CopyTo("ky", "ky.previous")
  /\ Replacing("sh")[4] = CopyTo("kyna", "kyna.previous")
  /\ Replacing("sh")[5] = CopyTo("archive", "ky.new")
  /\ Replacing("sh")[6] = MoveTo("ky.new", "ky")
  /\ Replacing("sh")[7] = CopyTo("ky", "kyna.new")
  /\ Replacing("sh")[8] = MoveTo("kyna.new", "kyna")
  /\ Replacing("sh")[9] = Step("manifest")
<1> DEFINE a == Step("archive")
           b == Step("sums")
           c == CopyTo("ky", "ky.previous")
           d == CopyTo("kyna", "kyna.previous")
           e == CopyTo("archive", "ky.new")
           f == MoveTo("ky.new", "ky")
           g == CopyTo("ky", "kyna.new")
           h == MoveTo("kyna.new", "kyna")
           i == Step("manifest")
<1>1. a \in Commands /\ b \in Commands /\ i \in Commands
  BY CommandFields
<1>2. c \in Commands /\ d \in Commands /\ e \in Commands /\ g \in Commands
  BY CommandFields, AllNames
<1>3. f \in Commands /\ h \in Commands
  BY CommandFields, AllNames
<1> DEFINE t == <<a, b, c, d, e, f, g, h, i>>
<1>4. Replacing("sh") = t
  BY DEF Replacing
<1> HIDE DEF a, b, c, d, e, f, g, h, i
<1>5. t \in Seq(Commands) /\ Len(t) = 9
  BY <1>1, <1>2, <1>3
<1>6. /\ t[1] = a /\ t[2] = b /\ t[3] = c /\ t[4] = d /\ t[5] = e
      /\ t[6] = f /\ t[7] = g /\ t[8] = h /\ t[9] = i
  OBVIOUS
<1> HIDE DEF t
<1>7. QED  BY <1>4, <1>5, <1>6 DEF a, b, c, d, e, f, g, h, i

LEMMA Ps1 ==
  /\ Replacing("ps1") \in Seq(Commands) /\ Len(Replacing("ps1")) = 8
  /\ Replacing("ps1")[1] = Step("archive") /\ Replacing("ps1")[2] = Step("sums")
  /\ Replacing("ps1")[3] = CopyTo("ky", "ky.previous")
  /\ Replacing("ps1")[4] = CopyTo("kyna", "kyna.previous")
  /\ Replacing("ps1")[5] = CopyTo("archive", "ky.new")
  /\ Replacing("ps1")[6] = MoveTo("ky.new", "ky")
  /\ Replacing("ps1")[7] = CopyTo("ky", "kyna")
  /\ Replacing("ps1")[8] = Step("manifest")
<1> DEFINE a == Step("archive")
           b == Step("sums")
           c == CopyTo("ky", "ky.previous")
           d == CopyTo("kyna", "kyna.previous")
           e == CopyTo("archive", "ky.new")
           f == MoveTo("ky.new", "ky")
           g == CopyTo("ky", "kyna")
           h == Step("manifest")
<1>1. a \in Commands /\ b \in Commands /\ h \in Commands
  BY CommandFields
<1>2. c \in Commands /\ d \in Commands /\ e \in Commands /\ g \in Commands
  BY CommandFields, AllNames
<1>3. f \in Commands
  BY CommandFields, AllNames
<1> DEFINE t == <<a, b, c, d, e, f, g, h>>
<1>4. Replacing("ps1") = t
  BY DEF Replacing
<1> HIDE DEF a, b, c, d, e, f, g, h
<1>5. t \in Seq(Commands) /\ Len(t) = 8
  BY <1>1, <1>2, <1>3
<1>6. /\ t[1] = a /\ t[2] = b /\ t[3] = c /\ t[4] = d /\ t[5] = e
      /\ t[6] = f /\ t[7] = g /\ t[8] = h
  OBVIOUS
<1> HIDE DEF t
<1>7. QED  BY <1>4, <1>5, <1>6 DEF a, b, c, d, e, f, g, h

LEMMA Npm ==
  /\ Replacing("npm") \in Seq(Commands)
  /\ \A i \in 1 .. Len(Replacing("npm")) : Replacing("npm")[i].do # "forget"
<1> DEFINE a == Step("sums")
           b == Step("archive")
           c == Delete("ky")
           d == CopyTo("archive", "ky")
<1>1. a \in Commands /\ b \in Commands /\ a.do # "forget" /\ b.do # "forget"
  BY CommandFields
<1>2. c \in Commands /\ d \in Commands /\ c.do # "forget" /\ d.do # "forget"
  BY CommandFields, AllNames
<1>3. Replacing("npm") = <<a, b, c, d>>
  BY DEF Replacing
<1> HIDE DEF a, b, c, d
<1>4. <<a, b, c, d>> \in Seq(Commands) /\ Len(<<a, b, c, d>>) = 4
  BY <1>1, <1>2
<1>5. \A i \in 1 .. 4 : <<a, b, c, d>>[i].do # "forget"
  BY <1>1, <1>2
<1>6. QED  BY <1>3, <1>4, <1>5

LEMMA Manifest ==
  ASSUME manifest \in Seq(Known)
  PROVE  /\ Removing \in Seq(Commands) /\ Removing # <<>>
         /\ Removing[Len(Removing)] = Step("forget")
         /\ \A i \in 1 .. Len(Removing) - 1 : \E n \in Names : Removing[i] = Delete(n)
         /\ \A n \in Listed : \E i \in 1 .. Len(Removing) - 1 : Removing[i] = Delete(n)
<1> DEFINE four == <<"ky", "kyna", "ky.previous", "kyna.previous">>
           listed == IF manifest = <<>> THEN four ELSE manifest
           r == [i \in DOMAIN listed |-> Delete(listed[i])]
<1>1. four \in Seq(Known) /\ \A n \in Known : \E i \in DOMAIN four : four[i] = n
  <2>1. four \in Seq(Known)
    <3> DEFINE a == "ky"
               b == "kyna"
               c == "ky.previous"
               d == "kyna.previous"
    <3>1. a \in Known /\ b \in Known /\ c \in Known /\ d \in Known
      BY DEF Known
    <3>2. four = <<a, b, c, d>>
      OBVIOUS
    <3> HIDE DEF a, b, c, d
    <3>3. <<a, b, c, d>> \in Seq(Known)
      BY <3>1
    <3>4. QED  BY <3>2, <3>3
  <2>2. DOMAIN four = 1 .. 4 /\ four[1] = "ky" /\ four[2] = "kyna" /\ four[3] = "ky.previous"
        /\ four[4] = "kyna.previous"
    OBVIOUS
  <2> HIDE DEF four
  <2>3. QED  BY <2>1, <2>2 DEF Known
<1>2. listed \in Seq(Known) /\ \A n \in Listed : \E i \in DOMAIN listed : listed[i] = n
  BY <1>1 DEF Listed
<1>3. Removing = Append(r, Step("forget"))
  BY DEF Removing
<1> HIDE DEF listed, four
<1>4. DOMAIN listed = 1 .. Len(listed) /\ Len(listed) \in Nat /\ \A i \in DOMAIN listed : listed[i] \in Names
  BY <1>2, LenProperties, ElementOfSeq, AllNames
<1>5. /\ r \in Seq(Commands) /\ Len(r) = Len(listed)
      /\ \A i \in 1 .. Len(listed) : r[i] = Delete(listed[i])
  <2>1. r \in [1 .. Len(listed) -> Commands]
    BY <1>4, CommandFields
  <2>2. QED  BY <1>4, <2>1
<1> HIDE DEF r
<1>6. /\ Removing \in Seq(Commands) /\ Removing # <<>> /\ Len(Removing) = Len(listed) + 1
      /\ \A i \in 1 .. Len(listed) : Removing[i] = Delete(listed[i])
      /\ Removing[Len(listed) + 1] = Step("forget")
  BY <1>3, <1>5, AppendProperties, CommandFields
<1>7. Len(Removing) - 1 = Len(listed)
  BY <1>4, <1>6
<1>8. QED  BY <1>2, <1>4, <1>6, <1>7

LEMMA Standing ==
  /\ Missing \in Copies /\ Idle \in Runs
  /\ Idle.steps = <<>> /\ Idle.archive = 0 /\ Idle.into = "none" /\ Idle.from = Missing
<1>1. Missing \in Copies /\ <<>> \in Seq(Commands)
  BY EmptySeq DEF Missing, Copies
<1>2. QED  BY <1>1 DEF Idle, Runs

LEMMA Going ==
  ASSUME InstallTypes, run.steps # <<>>
  PROVE  /\ Due \in Commands /\ Due = run.steps[1] /\ Tail(run.steps) \in Seq(Commands)
         /\ Len(run.steps) \in Nat \ {0} /\ Len(Tail(run.steps)) = Len(run.steps) - 1
         /\ \A i \in 1 .. Len(run.steps) - 1 : Tail(run.steps)[i] = run.steps[i + 1]
         /\ Advance \in Runs /\ Advance.steps = Tail(run.steps) /\ Advance.archive = run.archive
         /\ Advance.into = run.into /\ Advance.from = run.from
<1>1. run.steps \in Seq(Commands)
  BY DEF InstallTypes, Runs
<1>2. /\ Due \in Commands /\ Due = run.steps[1] /\ Tail(run.steps) \in Seq(Commands)
      /\ Len(run.steps) \in Nat \ {0} /\ Len(Tail(run.steps)) = Len(run.steps) - 1
      /\ \A i \in 1 .. Len(run.steps) - 1 : Tail(run.steps)[i] = run.steps[i + 1]
  BY <1>1, HeadTailProperties, EmptySeq DEF Due
<1>3. QED  BY <1>2 DEF Advance, InstallTypes, Runs

LEMMA SourceTypes ==
  ASSUME InstallTypes, run.steps # <<>>, Due.do = "copy"
  PROVE  Source \in Copies /\ Due.to \in Names /\ Due.from \in Names \union {"archive"}
<1>1. Due.from \in Names \union {"archive"} /\ Due.to \in Names
  BY Going, CommandFields
<1>2. run.archive \in Nat
  BY DEF InstallTypes, Runs
<1>3. QED  BY <1>1, <1>2 DEF InstallTypes, Source, Copies

LEMMA InstallTypesKeep ==
  ASSUME InstallTypes, Copying, [InstallNext]_installVars
  PROVE  InstallTypes' /\ Copying'
<1>a. ASSUME UNCHANGED run PROVE Copying'
  BY <1>a DEF Copying, Due
<1>b. ASSUME run'.into = "none" PROVE Copying'
  BY <1>b DEF Copying
<1>c. ASSUME run.steps # <<>>, Due.do # "copy" PROVE run.into = "none" /\ Advance.into = "none"
  BY <1>c, Going DEF Copying
<1>1. CASE UNCHANGED installVars
  BY <1>1, <1>a DEF installVars, InstallTypes
<1>2. CASE Publish
  BY <1>2, <1>a DEF Publish, InstallTypes
<1>3. ASSUME NEW steps \in Seq(Commands), TypeCommand(steps),
             standing' \in {"none", "installed", "removing", "clean"}
      PROVE  InstallTypes' /\ Copying'
  <2>1. run' \in Runs /\ run'.into = "none"
    BY <1>3, Standing DEF TypeCommand, Runs
  <2>2. QED  BY <1>3, <1>b, <2>1 DEF TypeCommand, InstallTypes
<1>4. CASE SelfUpdate
  BY <1>3, <1>4, Sh, Ps1, Npm DEF SelfUpdate, InstallTypes, Flavours
<1>5. CASE SelfUninstall
  <2>1. Removing \in Seq(Commands)
    BY Manifest DEF InstallTypes
  <2>2. QED  BY <1>3, <1>5, <2>1 DEF SelfUninstall
<1>6. CASE Download
  <2>1. run.steps # <<>> /\ Due.do # "copy" /\ latest \in Nat
    BY <1>6 DEF Download, IsDue, InstallTypes
  <2>2. run' \in Runs /\ run'.into = "none"
    BY <1>6, <1>c, <2>1, Going, Standing DEF Download, Runs
  <2>3. QED  BY <1>6, <1>b, <2>2 DEF Download, InstallTypes
<1>7. CASE BeginCopy
  <2>1. run.steps # <<>> /\ Due.do = "copy" /\ run.into = "none"
    BY <1>7 DEF BeginCopy, IsDue
  <2>2. Source \in Copies /\ Due.to \in Names
    BY <2>1, SourceTypes
  <2>3. CASE Source = Missing
    BY <1>7, <1>b, <2>1, <2>3, Going DEF BeginCopy, InstallTypes
  <2>4. CASE Source # Missing
    <3>1. /\ files' = [files EXCEPT ![Due.to] = [release |-> Source.release, whole |-> FALSE]]
          /\ run' = [run EXCEPT !.into = Due.to, !.from = Source]
          /\ UNCHANGED <<script, latest, manifest, installs, tidy, kept, standing>>
      BY <1>7, <2>4 DEF BeginCopy
    <3>2. /\ run' \in Runs /\ run'.steps = run.steps /\ run'.into = Due.to /\ run'.from = Source
      BY <2>2, <3>1 DEF InstallTypes, Runs
    <3>3. files' \in [Names -> Copies]
      BY <2>2, <3>1 DEF InstallTypes, Copies
    <3>4. Copying'
      BY <2>1, <2>4, <3>2 DEF Copying, Due
    <3>5. QED  BY <3>1, <3>2, <3>3, <3>4 DEF InstallTypes
  <2>5. QED  BY <2>3, <2>4
<1>8. CASE EndCopy
  <2>1. /\ files' = [files EXCEPT ![run.into] = run.from]
        /\ run' = [Advance EXCEPT !.into = "none", !.from = Missing]
        /\ standing' \in {standing, "installed"}
        /\ UNCHANGED <<script, latest, manifest, installs, tidy, kept>>
        /\ run.steps # <<>> /\ run.from \in Copies
    BY <1>8 DEF EndCopy, Copying, InstallTypes, Runs
  <2>2. run' \in Runs /\ run'.into = "none"
    BY <2>1, Going, Standing DEF Runs
  <2>3. QED  BY <1>b, <2>1, <2>2 DEF InstallTypes
<1>9. CASE MoveFile
  <2>1. /\ files' = [files EXCEPT ![Due.to] = files[Due.from], ![Due.from] = Missing]
        /\ run' = Advance /\ standing' \in {standing, "installed"}
        /\ UNCHANGED <<script, latest, manifest, installs, tidy, kept>>
        /\ run.steps # <<>> /\ Due.do = "move"
    BY <1>9 DEF MoveFile, IsDue
  <2>2. Due.from \in Names /\ Due.to \in Names
    BY <2>1, Going, CommandFields
  <2>3. run' \in Runs /\ run'.into = "none"
    BY <1>c, <2>1, Going
  <2>4. files' \in [Names -> Copies]
    BY <2>1, <2>2, Standing DEF InstallTypes
  <2>5. QED  BY <1>b, <2>1, <2>3, <2>4 DEF InstallTypes
<1>10. CASE RemoveFile
  <2>1. /\ files' = [files EXCEPT ![Due.from] = Missing]
        /\ run' = Advance
        /\ UNCHANGED <<script, latest, manifest, installs, tidy, kept, standing>>
        /\ run.steps # <<>> /\ Due.do = "remove"
    BY <1>10 DEF RemoveFile, IsDue
  <2>2. run' \in Runs /\ run'.into = "none"
    BY <1>c, <2>1, Going
  <2>3. QED  BY <1>b, <2>1, <2>2, Standing DEF InstallTypes
<1>11. CASE BeginMove
  <2>1. Missing \in Copies
    BY Standing
  <2>2. QED  BY <1>11, <1>a, <2>1 DEF BeginMove, InstallTypes
<1>12. CASE RemoveFails
  <2>1. run.steps # <<>> /\ Due.do = "remove" /\ run' = Advance
    BY <1>12 DEF RemoveFails, IsDue
  <2>2. run' \in Runs /\ run'.into = "none" /\ Due.from \in Names
    BY <1>c, <2>1, Going, CommandFields
  <2>3. QED  BY <1>b, <1>12, <2>2 DEF RemoveFails, InstallTypes
<1>13. CASE WriteManifest \/ Forget \/ Interrupt
  <2>1. run' = Idle /\ run' \in Runs /\ run'.into = "none"
    BY <1>13, Standing DEF WriteManifest, Forget, Interrupt
  <2>2. manifest' \in Seq(Known)
    <3>1. ASSUME NEW n \in Known PROVE IfPresent(n) \in Seq(Known)
      BY EmptySeq DEF IfPresent
    <3>2. <<"ky", "kyna">> \in Seq(Known) /\ <<"ky">> \in Seq(Known) /\ <<>> \in Seq(Known)
      <4> DEFINE x == "ky"
                 y == "kyna"
      <4>1. x \in Known /\ y \in Known
        BY DEF Known
      <4> HIDE DEF x, y
      <4>2. <<x, y>> \in Seq(Known) /\ <<x>> \in Seq(Known) /\ <<>> \in Seq(Known)
        BY <4>1, EmptySeq
      <4>3. QED  BY <4>2 DEF x, y
    <3>3. CASE WriteManifest
      <4> DEFINE a == <<"ky", "kyna">>
                 b == IfPresent("ky.previous")
                 c == IfPresent("kyna.previous")
      <4>1. a \in Seq(Known) /\ b \in Seq(Known) /\ c \in Seq(Known)
        BY <3>1, <3>2 DEF Known
      <4>2. manifest' = a \o b \o c
        BY <3>3 DEF WriteManifest
      <4> HIDE DEF a, b, c
      <4>3. a \o b \in Seq(Known)
        BY <4>1, ConcatProperties
      <4>4. QED  BY <4>1, <4>2, <4>3, ConcatProperties
    <3>4. CASE Forget \/ Interrupt
      BY <3>2, <3>4 DEF Forget, Interrupt, InstallTypes
    <3>5. QED  BY <1>13, <3>3, <3>4
  <2>3. /\ UNCHANGED <<script, latest, files, installs, kept>> /\ tidy' \in BOOLEAN
        /\ standing' \in {standing, "clean", "removing"}
    BY <1>13 DEF WriteManifest, Forget, Interrupt, InstallTypes
  <2>4. QED  BY <1>b, <2>1, <2>2, <2>3 DEF InstallTypes
<1>14. QED
  BY <1>1, <1>2, <1>4, <1>5, <1>6, <1>7, <1>8, <1>9, <1>10, <1>13, <1>11, <1>12
     DEF InstallNext

LEMMA NpmKeeps ==
  ASSUME InstallTypes, Copying, script = "npm", ByNpm, [InstallNext]_installVars
  PROVE  ByNpm'
<1>1. run.steps # <<>> => \A i \in 1 .. Len(Tail(run.steps)) : Tail(run.steps)[i].do # "forget"
  BY Going DEF ByNpm
<1>2. run.steps # <<>> => Due.do # "forget"
  BY Going DEF ByNpm
<1>3. Len(<<>>) = 0 /\ Idle.steps = <<>>
  BY Standing
<1>4. CASE UNCHANGED <<run, standing>>
  BY <1>4 DEF ByNpm
<1>5. CASE SelfUpdate
  <2>1. run'.steps = Replacing("npm") /\ standing' # "clean"
    BY <1>5, Npm, Standing DEF SelfUpdate, TypeCommand, Runs, ByNpm
  <2>2. QED  BY <2>1, Npm DEF ByNpm
<1>6. ASSUME run' = Idle, standing' = standing PROVE ByNpm'
  BY <1>3, <1>6 DEF ByNpm
<1>7. ASSUME run'.steps = Tail(run.steps), run.steps # <<>>, standing' \in {standing, "installed"} PROVE ByNpm'
  BY <1>1, <1>7 DEF ByNpm
<1>8. CASE Download
  <2>1. run.steps # <<>> /\ standing' = standing
    BY <1>8 DEF Download, IsDue
  <2>2. run' = Idle \/ run'.steps = Tail(run.steps)
    BY <1>8, <2>1, Going DEF Download, Runs
  <2>3. QED  BY <1>6, <1>7, <2>1, <2>2
<1>9. CASE BeginCopy
  <2>1. run.steps # <<>> /\ standing' = standing
    BY <1>9 DEF BeginCopy, IsDue
  <2>2. run'.steps = Tail(run.steps) \/ run'.steps = run.steps
    BY <1>9, <2>1, Going DEF BeginCopy, InstallTypes, Runs
  <2>3. QED  BY <1>7, <2>1, <2>2 DEF ByNpm
<1>10. CASE EndCopy
  <2>1. run.steps # <<>> /\ run' = [Advance EXCEPT !.into = "none", !.from = Missing]
        /\ standing' \in {standing, "installed"}
    BY <1>10 DEF EndCopy, Copying
  <2>2. run'.steps = Tail(run.steps)
    BY <2>1, Going DEF Runs
  <2>3. QED  BY <1>7, <2>1, <2>2
<1>11. CASE MoveFile \/ RemoveFile
  BY <1>7, <1>11, Going DEF MoveFile, RemoveFile, IsDue
<1>12. CASE WriteManifest \/ Interrupt
  BY <1>6, <1>12 DEF WriteManifest, Interrupt
<1>13. QED
  BY <1>2, <1>4, <1>5, <1>8, <1>9, <1>10, <1>11, <1>12
     DEF InstallNext, installVars, Publish, SelfUninstall, BeginMove, RemoveFails, Forget, IsDue

(* The steps left of an installation, from the k-th command on.            *)
Left(s, k, steps) ==
    /\ s \in {"sh", "ps1"} /\ k \in 1 .. Len(Replacing(s))
    /\ steps = SubSeq(Replacing(s), k, Len(Replacing(s)))

(* The first of them: its kind, its place and, for a copy or a rename, its *)
(* two names.                                                              *)
Leads(s, k, steps) ==
    LET due == Head(steps) IN
    /\ steps # <<>> /\ k \in 1 .. 9 /\ (s = "ps1" => k # 9)
    /\ k = 1 => due.do = "archive"
    /\ k = 2 => due.do = "sums"
    /\ k = 3 => due.do = "copy" /\ due.from = "ky" /\ due.to = "ky.previous"
    /\ k = 4 => due.do = "copy" /\ due.from = "kyna" /\ due.to = "kyna.previous"
    /\ k = 5 => due.do = "copy" /\ due.from = "archive" /\ due.to = "ky.new"
    /\ k = 6 => due.do = "move" /\ due.from = "ky.new" /\ due.to = "ky"
    /\ k = 7 => /\ due.do = "copy" /\ due.from = "ky"
               /\ due.to = IF s = "sh" THEN "kyna.new" ELSE "kyna"
    /\ (k = 8 /\ s = "sh") => due.do = "move" /\ due.from = "kyna.new" /\ due.to = "kyna"
    /\ (k = 8 /\ s = "ps1") \/ k = 9 => due.do = "manifest"

LEMMA NextCommand ==
  ASSUME NEW s, NEW k, NEW steps, Left(s, k, steps)
  PROVE  /\ Leads(s, k, steps)
         /\ Head(steps).do # "manifest" => k \in 1 .. 8 /\ Left(s, k + 1, Tail(steps))
<1> DEFINE r == Replacing(s)
           n == Len(r)
           d == Head(steps)
<1>0. s \in {"sh", "ps1"}
  BY DEF Left
<1>1. r \in Seq(Commands) /\ n = IF s = "sh" THEN 9 ELSE 8
  BY <1>0, Sh, Ps1
<1>2. k \in 1 .. n /\ n \in Nat /\ steps = SubSeq(r, k, n)
  BY <1>1 DEF Left
<1> HIDE DEF n
<1>3. d = r[k] /\ Tail(steps) = SubSeq(r, k + 1, n)
  BY <1>1, <1>2, HeadTailOfSubSeq DEF n
<1>4. steps # <<>>
  <2>1. Len(SubSeq(r, k, n)) = n - k + 1
    BY <1>1, <1>2, SubSeqProperties, ElementOfSeq DEF n
  <2>2. Len(<<>>) = 0
    BY EmptySeq
  <2>3. n - k + 1 # 0
    BY <1>2
  <2>4. SubSeq(r, k, n) # <<>>
    BY <2>1, <2>2, <2>3, Zenon
  <2>5. QED  BY <1>2, <2>4, Zenon
<1>5. CASE s = "sh"
  <2>1. r[n] = Step("manifest") /\ n = 9
    BY <1>1, <1>5, Sh
  <2>2. k \in 1 .. 9
    BY <1>2, <2>1
  <2> HIDE DEF d
  <2>3. k = 1 => d.do = "archive"
    BY <1>3, <1>5, Sh, Fields
  <2>4. k = 2 => d.do = "sums"
    BY <1>3, <1>5, Sh, Fields
  <2>5. k = 3 => d.do = "copy" /\ d.from = "ky" /\ d.to = "ky.previous"
    BY <1>3, <1>5, Sh, Fields
  <2>6. k = 4 => d.do = "copy" /\ d.from = "kyna" /\ d.to = "kyna.previous"
    BY <1>3, <1>5, Sh, Fields
  <2>7. k = 5 => d.do = "copy" /\ d.from = "archive" /\ d.to = "ky.new"
    BY <1>3, <1>5, Sh, Fields
  <2>8. k = 6 => d.do = "move" /\ d.from = "ky.new" /\ d.to = "ky"
    BY <1>3, <1>5, Sh, Fields
  <2>9. k = 7 => d.do = "copy" /\ d.from = "ky" /\ d.to = "kyna.new"
    BY <1>3, <1>5, Sh, Fields
  <2>10. k = 8 => d.do = "move" /\ d.from = "kyna.new" /\ d.to = "kyna"
    BY <1>3, <1>5, Sh, Fields
  <2>11. k = 9 => d.do = "manifest"
    BY <1>3, <1>5, Sh, Fields
  <2>12. d.do # "manifest" => k \in 1 .. 8 /\ k + 1 \in 1 .. n
    BY <2>1, <2>2, <2>11
  <2>13. Leads(s, k, steps)
    BY <1>4, <1>5, <2>2, <2>3, <2>4, <2>5, <2>6, <2>7, <2>8, <2>9, <2>10, <2>11 DEF Leads, d
  <2>14. d.do # "manifest" => k \in 1 .. 8 /\ Left(s, k + 1, Tail(steps))
    BY <1>0, <1>3, <2>12 DEF n, Left
  <2>15. QED  BY <2>13, <2>14 DEF d
<1>6. CASE s = "ps1"
  <2>1. r[n] = Step("manifest") /\ n = 8
    BY <1>1, <1>6, Ps1
  <2>2. k \in 1 .. 8
    BY <1>2, <2>1
  <2> HIDE DEF d
  <2>3. k = 1 => d.do = "archive"
    BY <1>3, <1>6, Ps1, Fields
  <2>4. k = 2 => d.do = "sums"
    BY <1>3, <1>6, Ps1, Fields
  <2>5. k = 3 => d.do = "copy" /\ d.from = "ky" /\ d.to = "ky.previous"
    BY <1>3, <1>6, Ps1, Fields
  <2>6. k = 4 => d.do = "copy" /\ d.from = "kyna" /\ d.to = "kyna.previous"
    BY <1>3, <1>6, Ps1, Fields
  <2>7. k = 5 => d.do = "copy" /\ d.from = "archive" /\ d.to = "ky.new"
    BY <1>3, <1>6, Ps1, Fields
  <2>8. k = 6 => d.do = "move" /\ d.from = "ky.new" /\ d.to = "ky"
    BY <1>3, <1>6, Ps1, Fields
  <2>9. k = 7 => d.do = "copy" /\ d.from = "ky" /\ d.to = "kyna"
    BY <1>3, <1>6, Ps1, Fields
  <2>10. k = 8 => d.do = "manifest"
    BY <1>3, <1>6, Ps1, Fields
  <2>11. d.do # "manifest" => k \in 1 .. 8 /\ k + 1 \in 1 .. n
    BY <2>1, <2>2, <2>10
  <2>12. Leads(s, k, steps)
    BY <1>4, <1>6, <2>2, <2>3, <2>4, <2>5, <2>6, <2>7, <2>8, <2>9, <2>10 DEF Leads, d
  <2>13. d.do # "manifest" => k \in 1 .. 8 /\ Left(s, k + 1, Tail(steps))
    BY <1>0, <1>3, <2>11 DEF n, Left
  <2>14. QED  BY <2>12, <2>13 DEF d
<1>7. QED  BY <1>0, <1>5, <1>6

Scripted == InstallTypes /\ Copying /\ script \in {"sh", "ps1"} /\ ByScript

(* The command that is due where an installation stands.                   *)
LEMMA InstallingDue ==
  ASSUME script \in {"sh", "ps1"}, NEW k, Installing(k)
  PROVE  /\ Left(script, k, run.steps)
         /\ run.steps # <<>> /\ k \in 1 .. 9 /\ (script = "ps1" => k # 9)
         /\ k = 1 => Due.do = "archive"
         /\ k = 2 => Due.do = "sums"
         /\ k = 3 => Due.do = "copy" /\ Due.from = "ky" /\ Due.to = "ky.previous"
         /\ k = 4 => Due.do = "copy" /\ Due.from = "kyna" /\ Due.to = "kyna.previous"
         /\ k = 5 => Due.do = "copy" /\ Due.from = "archive" /\ Due.to = "ky.new"
         /\ k = 6 => Due.do = "move" /\ Due.from = "ky.new" /\ Due.to = "ky"
         /\ k = 7 => /\ Due.do = "copy" /\ Due.from = "ky"
                     /\ Due.to = IF script = "sh" THEN "kyna.new" ELSE "kyna"
         /\ (k = 8 /\ script = "sh") => Due.do = "move" /\ Due.from = "kyna.new" /\ Due.to = "kyna"
         /\ (k = 8 /\ script = "ps1") \/ k = 9 => Due.do = "manifest"
<1>1. Left(script, k, run.steps)
  BY DEF Installing, Left
<1>2. Leads(script, k, run.steps)
  BY <1>1, NextCommand
<1>3. QED  BY <1>1, <1>2 DEF Leads, Due

LEMMA UninstallingDue ==
  ASSUME InstallTypes, Uninstalling
  PROVE  /\ run.steps # <<>>
         /\ \/ Due.do = "remove" /\ Len(run.steps) > 1 /\ \E n \in Names : Due = Delete(n)
            \/ Due.do = "forget" /\ Len(run.steps) = 1
<1>1. run.steps # <<>> /\ Due = run.steps[1] /\ Len(run.steps) \in Nat \ {0}
  BY Going DEF Uninstalling
<1>2. CASE Len(run.steps) = 1
  BY <1>1, <1>2, Fields DEF Uninstalling
<1>3. CASE Len(run.steps) # 1
  <2> DEFINE n == Len(run.steps)
  <2>a. n \in Nat /\ n # 0 /\ n # 1
    BY <1>1, <1>3
  <2> HIDE DEF n
  <2>b. 1 \in 1 .. n - 1 /\ n > 1
    BY <2>a
  <2>1. 1 \in 1 .. Len(run.steps) - 1 /\ Len(run.steps) > 1
    BY <2>b DEF n
  <2>2. PICK file \in Names : run.steps[1] = Delete(file)
    BY <2>1 DEF Uninstalling
  <2>3. QED  BY <1>1, <2>1, <2>2, Fields
<1>4. QED  BY <1>2, <1>3

LEMMA Forgotten == Scripted /\ standing = "clean" => run.steps = <<>>
BY DEF Scripted, ByScript

(* A step of an installation goes to its next command.                     *)
LEMMA StepsOn ==
  ASSUME script \in {"sh", "ps1"}, script' = script, NEW k, Installing(k),
         Due.do # "manifest", run'.steps = Tail(run.steps), NEW q, q = k + 1
  PROVE  /\ run'.steps # <<>> /\ k \in 1 .. 8 /\ q \in 2 .. 9 /\ (script = "ps1" => q # 9)
         /\ q \in 1 .. Len(Replacing(script'))
         /\ run'.steps = SubSeq(Replacing(script'), q, Len(Replacing(script')))
         /\ q \in {3, 4, 5, 7} => Due'.do = "copy"
         /\ q = 6 => Due'.do = "move"
         /\ (q = 8 /\ script = "sh") => Due'.do = "move"
         /\ (q = 8 /\ script = "ps1") \/ q = 9 => Due'.do = "manifest"
<1>1. Left(script, k, run.steps) /\ Head(run.steps).do # "manifest"
  BY InstallingDue DEF Due
<1>2. k \in 1 .. 8 /\ Left(script, k + 1, Tail(run.steps))
  BY <1>1, NextCommand
<1>3. Left(script, q, run'.steps)
  BY <1>2
<1>4. Leads(script, q, run'.steps)
  BY <1>3, NextCommand
<1>5. /\ q \in 1 .. Len(Replacing(script'))
      /\ run'.steps = SubSeq(Replacing(script'), q, Len(Replacing(script')))
  BY <1>3 DEF Left
<1>6. /\ run'.steps # <<>> /\ (script = "ps1" => q # 9)
      /\ q \in {3, 4, 5, 7} => Due'.do = "copy"
      /\ q = 6 => Due'.do = "move"
      /\ (q = 8 /\ script = "sh") => Due'.do = "move"
      /\ (q = 8 /\ script = "ps1") \/ q = 9 => Due'.do = "manifest"
  <2>1. Due' = Head(run'.steps)
    BY DEF Due
  <2>2. QED  BY <1>4, <2>1 DEF Leads
<1>7. k \in 1 .. 8 /\ q \in 2 .. 9
  BY <1>2
<1>8. QED  BY <1>5, <1>6, <1>7

(* A step of a script that changes no file goes to its next command.       *)
LEMMA Proceeds ==
  ASSUME Scripted, NEW k \in 1 .. 4, Installing(k), k = 3 => ~Present("ky"),
         run'.steps = Tail(run.steps), run'.into = "none",
         UNCHANGED <<script, files, manifest, tidy, kept, standing>>
  PROVE  ByScript'
<1>1. script \in {"sh", "ps1"} /\ script' = script
  BY DEF Scripted
<1>2. Due.do # "manifest" /\ (k \in {1, 2} => Due.do \in {"archive", "sums"}) /\ run.steps # <<>>
  BY <1>1, InstallingDue
<1>3. PICK q \in 2 .. 5 : q = k + 1
  OBVIOUS
<1>4. /\ run'.steps # <<>> /\ q \in 2 .. 9 /\ q \in 1 .. Len(Replacing(script'))
      /\ run'.steps = SubSeq(Replacing(script'), q, Len(Replacing(script')))
      /\ q \in {3, 4, 5} => Due'.do = "copy"
  BY <1>1, <1>2, <1>3, StepsOn
<1>5. Installing(q)'
  <2>1. q # 6 /\ ~(q >= 7) /\ q # 8 /\ q # 9
    BY <1>3
  <2>2. (q \in 4 .. 6 /\ Present("ky")) => Intact("ky.previous")
    <3>1. SUFFICES ASSUME q \in 4 .. 6, Present("ky") PROVE Intact("ky.previous")
      OBVIOUS
    <3>2. k = 4
      BY <1>3, <3>1
    <3>3. QED  BY <3>1, <3>2 DEF Installing
  <2>3. UNCHANGED files /\ k \in 1 .. 4
    OBVIOUS
  <2>4. (q \in 4 .. 6 /\ Present("ky")') => Intact("ky.previous")'
    BY <2>2, <2>3 DEF Present, Intact
  <2>5. QED  BY <1>4, <2>1, <2>4 DEF Installing
<1>6. Planned'
  BY <1>4, <1>5 DEF Planned
<1>7. Tidied'
  <2>1. CASE q = 2
    <3>1. k = 1
      BY <1>3, <2>1
    <3>2. QED  BY <1>2, <3>1 DEF Scripted, ByScript, Tidied, Present, Listed
  <2>2. CASE q \in {3, 4, 5}
    BY <1>4, <2>2 DEF Tidied
  <2>3. QED  BY <1>3, <2>1, <2>2
<1>8. standing # "clean"
  BY <1>2, Forgotten
<1>9. QED  BY <1>6, <1>7, <1>8 DEF Scripted, ByScript, InPlace, Present, Intact

LEMMA QuietKeeps ==
  ASSUME Scripted, UNCHANGED <<script, files, manifest, run, tidy, kept, standing>>
  PROVE  ByScript'
<1>1. Planned'
  BY DEF Scripted, ByScript, Planned, Installing, Uninstalling, Present, Intact
<1>2. QED  BY <1>1 DEF Scripted, ByScript, InPlace, Tidied, Present, Intact, Listed, Due

LEMMA TypedKeeps ==
  ASSUME Scripted, SelfUpdate \/ SelfUninstall
  PROVE  ByScript'
<1>1. /\ run.steps = <<>> /\ UNCHANGED <<script, files, manifest, tidy>> /\ run'.into = "none"
      /\ script \in {"sh", "ps1"}
  BY Standing DEF SelfUpdate, SelfUninstall, TypeCommand, Scripted, Runs
<1>2. tidy => \A n \in Names : Present(n) => n \in Listed
  BY <1>1 DEF Scripted, ByScript, Tidied
<1>3. Tidied'
  BY <1>1, <1>2 DEF Tidied, Present, Listed
<1>4. CASE SelfUpdate
  <2>1. run'.steps = Replacing(script) /\ standing' # "clean" /\ (standing' = "installed" => standing = "installed")
    BY <1>4, Standing DEF SelfUpdate, TypeCommand, Runs
  <2>2. Replacing(script) = SubSeq(Replacing(script), 1, Len(Replacing(script)))
        /\ 1 \in 1 .. Len(Replacing(script))
    <3> DEFINE r == Replacing(script)
    <3>1. r \in Seq(Commands) /\ Len(r) \in {8, 9}
      BY <1>1, Sh, Ps1
    <3> HIDE DEF r
    <3>2. r = SubSeq(r, 1, Len(r)) /\ 1 \in 1 .. Len(r)
      BY <3>1, SubSeqFull
    <3>3. QED  BY <3>2 DEF r
  <2>3. Installing(1)'
    BY <1>1, <2>1, <2>2 DEF Installing
  <2>4. QED  BY <1>1, <1>3, <2>1, <2>3 DEF ByScript, Planned, InPlace, Scripted, Present, Intact
<1>5. CASE SelfUninstall
  <2>1. run'.steps = Removing /\ standing' = "removing"
    BY <1>5, Standing DEF SelfUninstall, TypeCommand, Runs
  <2>2. manifest \in Seq(Known)
    BY DEF Scripted, InstallTypes
  <2>3. Uninstalling'
    BY <1>1, <1>2, <2>1, <2>2, Manifest DEF Uninstalling, Present
  <2>4. QED  BY <1>1, <1>3, <2>1, <2>3 DEF ByScript, Planned, InPlace, Scripted, Present, Intact
<1>6. QED  BY <1>4, <1>5

LEMMA DownloadKeeps ==
  ASSUME Scripted, Download
  PROVE  ByScript'
<1>1. /\ run.steps # <<>> /\ Due.do \in {"archive", "sums"} /\ InstallTypes /\ script \in {"sh", "ps1"}
      /\ UNCHANGED <<script, files, manifest, tidy, kept, standing>>
  BY DEF Download, IsDue, Scripted
<1>2. PICK k \in 1 .. 9 : Installing(k)
  BY <1>1, UninstallingDue DEF Scripted, ByScript, Planned
<1>3. k \in 1 .. 4 /\ k \in {1, 2}
  BY <1>1, <1>2, InstallingDue
<1>4. run.into = "none"
  BY <1>1 DEF Scripted, Copying
<1>5. run' = Idle \/ (run'.steps = Tail(run.steps) /\ run'.into = "none")
  BY <1>1, <1>4, Going DEF Download, Runs
<1>6. CASE run' = Idle
  <2>1. standing # "clean"
    BY <1>1, Forgotten
  <2>2. tidy => \A n \in Names : Present(n) => n \in Listed
    BY <1>1 DEF Scripted, ByScript, Tidied
  <2>3. Tidied'
    BY <1>1, <2>2 DEF Tidied, Present, Listed
  <2>4. QED  BY <1>1, <1>6, <2>1, <2>3, Standing
             DEF Scripted, ByScript, Planned, InPlace, Present, Intact
<1>7. CASE run'.steps = Tail(run.steps) /\ run'.into = "none"
  BY <1>1, <1>2, <1>3, <1>7, Proceeds
<1>8. QED  BY <1>5, <1>6, <1>7

LEMMA CopyingAt ==
  ASSUME Scripted, run.steps # <<>>, Due.do = "copy"
  PROVE  \E k \in {3, 4, 5, 7} : Installing(k)
<1>1. PICK k \in 1 .. 9 : Installing(k)
  BY UninstallingDue DEF Scripted, ByScript, Planned
<1>2. k \in {3, 4, 5, 7}
  BY <1>1, InstallingDue DEF Scripted
<1>3. QED  BY <1>1, <1>2

(* What a copy may touch, and when.                                        *)
LEMMA CopyFacts ==
  ASSUME Scripted, NEW k \in {3, 4, 5, 7}, Installing(k)
  PROVE  /\ Due.do = "copy" /\ run.steps # <<>> /\ Due.to \in Names
         /\ Due.to \notin {"ky"} /\ (script = "sh" => Due.to # "kyna")
         /\ (script = "ps1" => Due.to # "kyna.new") /\ (k = 7 => Due.to # "ky.new")
         /\ Due.to = "ky.new" => k = 5
         /\ Due.to = "ky.previous" <=> k = 3
         /\ k = 3 => Due.from = "ky"
         /\ Due.to = "kyna.new" => k = 7 /\ Due.from = "ky"
         /\ k = 5 => Due.from = "archive" /\ Due.to = "ky.new"
         /\ k = 7 => Due.from = "ky" /\ (script = "sh" => Due.to = "kyna.new")
<1>1. script \in {"sh", "ps1"}
  BY DEF Scripted
<1>2. CASE k = 3
  BY <1>1, <1>2, InstallingDue, AllNames
<1>3. CASE k = 4
  BY <1>1, <1>3, InstallingDue, AllNames
<1>4. CASE k = 5
  BY <1>1, <1>4, InstallingDue, AllNames
<1>5. CASE k = 7
  BY <1>1, <1>5, InstallingDue, AllNames
<1>6. QED  BY <1>2, <1>3, <1>4, <1>5

LEMMA BeginCopyKeeps ==
  ASSUME Scripted, BeginCopy
  PROVE  ByScript'
<1>1. /\ run.steps # <<>> /\ Due.do = "copy" /\ run.into = "none"
      /\ UNCHANGED <<script, manifest, tidy, kept, standing>>
      /\ script \in {"sh", "ps1"} /\ InstallTypes
  BY DEF BeginCopy, IsDue, Scripted
<1>2. PICK k \in {3, 4, 5, 7} : Installing(k)
  BY <1>1, CopyingAt
<1>3. standing # "clean"
  BY <1>1, Forgotten
<1>4. CASE Source = Missing
  <2>1. k # 5
    BY <1>2, <1>4, CopyFacts DEF Source, Missing
  <2>2. k # 7
    <3>1. SUFFICES ASSUME k = 7 PROVE FALSE
      OBVIOUS
    <3>2. Due.from = "ky" /\ Present("ky")
      BY <1>2, <3>1, CopyFacts DEF Installing
    <3>3. QED  BY <1>4, <3>2 DEF Source, Present
  <2>3. k \in 1 .. 4
    BY <2>1, <2>2
  <2>4. run' = Advance /\ UNCHANGED files
    BY <1>4 DEF BeginCopy
  <2>5. run'.steps = Tail(run.steps) /\ run'.into = "none"
    BY <1>1, <2>4, Going
  <2>6. k = 3 => ~Present("ky")
    BY <1>2, <1>4, CopyFacts, AllNames DEF Source, Present
  <2>7. QED  BY <1>1, <1>2, <2>3, <2>4, <2>5, <2>6, Proceeds
<1>5. CASE Source # Missing
  <2>1. /\ files' = [files EXCEPT ![Due.to] = [release |-> Source.release, whole |-> FALSE]]
        /\ run' = [run EXCEPT !.into = Due.to, !.from = Source]
    BY <1>5 DEF BeginCopy
  <2>2. run'.steps = run.steps /\ run'.into = Due.to /\ run'.from = Source
    BY <1>1, <2>1 DEF InstallTypes, Runs
  <2>3. /\ files'["ky"] = files["ky"]
        /\ script = "sh" => files'["kyna"] = files["kyna"]
        /\ script = "ps1" => files'["kyna.new"] = files["kyna.new"]
        /\ k = 7 => files'["ky.new"] = files["ky.new"]
        /\ k # 3 => files'["ky.previous"] = files["ky.previous"]
    BY <1>1, <1>2, <2>1, CopyFacts, AllNames DEF InstallTypes
  <2>4. Installing(k)'
    <3>1. (k \in 4 .. 6 /\ Present("ky")') => Intact("ky.previous")'
      BY <1>2, <2>3 DEF Installing, Intact, Present
    <3>2. /\ k # 6 /\ k # 8 /\ k # 9
          /\ k >= 7 => Present("ky")' /\ ~Present("ky.new")'
      BY <1>2, <2>3 DEF Installing, Present
    <3>3. QED  BY <1>1, <1>2, <2>2, <3>1, <3>2 DEF Installing
  <2>5. Planned'
    BY <2>4 DEF Planned
  <2>6. InPlace'
    <3>1. k = 3 => Present("ky")
      BY <1>2, <1>5, CopyFacts, AllNames DEF Source, Present
    <3>2. QED  BY <1>1, <2>3, <3>1 DEF Scripted, ByScript, InPlace, Present, Intact
  <2>7. Tidied'
    <3>1. run'.steps # <<>> /\ Due'.do = "copy"
      BY <1>1, <2>2 DEF Due
    <3>2. QED  BY <3>1 DEF Tidied
  <2>8. run'.into \in {"ky.new", "kyna.new", "ky.previous"} => run'.from.whole
    <3>1. CASE Due.to = "ky.new"
      BY <1>2, <2>2, <3>1, CopyFacts DEF Source
    <3>2. CASE Due.to = "kyna.new"
      <4>1. k = 7 /\ Due.from = "ky"
        BY <1>2, <3>2, CopyFacts
      <4>2. Source = files["ky"] /\ Present("ky")
        BY <1>2, <4>1 DEF Source, Installing
      <4>3. files["ky"].whole
        BY <4>2 DEF Scripted, ByScript, InPlace
      <4>4. QED  BY <2>2, <4>2, <4>3
    <3>3. CASE Due.to = "ky.previous"
      <4>1. Source = files["ky"] /\ Present("ky")
        BY <1>2, <1>5, <3>3, CopyFacts, AllNames DEF Source, Present
      <4>2. files["ky"].whole
        BY <4>1 DEF Scripted, ByScript, InPlace
      <4>3. QED  BY <2>2, <4>1, <4>2
    <3>4. QED  BY <2>2, <3>1, <3>2, <3>3
  <2>9. QED  BY <1>1, <1>3, <2>5, <2>6, <2>7, <2>8 DEF ByScript
<1>6. QED  BY <1>4, <1>5

LEMMA EndCopyKeeps ==
  ASSUME Scripted, EndCopy
  PROVE  ByScript'
<1>1. /\ run.steps # <<>> /\ Due.do = "copy" /\ Due.to = run.into /\ run.into # "none"
      /\ run.from # Missing /\ script \in {"sh", "ps1"} /\ InstallTypes
  BY DEF EndCopy, Scripted, Copying
<1>2. PICK k \in {3, 4, 5, 7} : Installing(k)
  BY <1>1, CopyingAt
<1>3. /\ files' = [files EXCEPT ![Due.to] = run.from]
      /\ run' = [Advance EXCEPT !.into = "none", !.from = Missing]
      /\ UNCHANGED <<script, manifest, tidy, kept, standing>>
  BY <1>1, <1>2, CopyFacts DEF EndCopy
<1>4. run'.steps = Tail(run.steps) /\ run'.into = "none"
  BY <1>1, <1>3, Going DEF Runs
<1>5. PICK q \in {4, 5, 6, 8} : q = k + 1
  OBVIOUS
<1>6. /\ run'.steps # <<>> /\ q \in 1 .. Len(Replacing(script'))
      /\ run'.steps = SubSeq(Replacing(script'), q, Len(Replacing(script')))
      /\ q = 4 => Due'.do = "copy"
      /\ q = 5 => Due'.do = "copy"
      /\ q = 6 => Due'.do = "move"
      /\ q = 8 => Due'.do = "move" \/ Due'.do = "manifest"
  <2>1. Due.do # "manifest"
    BY <1>1
  <2>2. QED  BY <1>1, <1>2, <1>3, <1>4, <1>5, <2>1, StepsOn
<1>7. /\ files'["ky"] = files["ky"]
      /\ script = "sh" => files'["kyna"] = files["kyna"]
      /\ script = "ps1" => files'["kyna.new"] = files["kyna.new"]
      /\ k = 7 => files'["ky.new"] = files["ky.new"]
      /\ k # 3 => files'["ky.previous"] = files["ky.previous"]
      /\ files'[Due.to] = run.from
  BY <1>1, <1>2, <1>3, CopyFacts, AllNames DEF InstallTypes
<1>8. run.into \in {"ky.new", "kyna.new", "ky.previous"} => run.from.whole
  BY DEF Scripted, ByScript
<1>9. q = 6 => Intact("ky.new")'
  <2>1. SUFFICES ASSUME q = 6 PROVE Intact("ky.new")'
    OBVIOUS
  <2>2. Due.to = "ky.new"
    <3>1. k = 5
      BY <1>5, <2>1
    <3>2. QED  BY <1>2, <3>1, CopyFacts
  <2>3. QED  BY <1>1, <1>7, <1>8, <2>2 DEF Intact, Present
<1>10. q = 8 => Present("ky")' /\ ~Present("ky.new")' /\ (script = "sh" => Intact("kyna.new")')
  <2>1. SUFFICES ASSUME q = 8
                 PROVE  Present("ky")' /\ ~Present("ky.new")' /\ (script = "sh" => Intact("kyna.new")')
    OBVIOUS
  <2>2. k = 7 /\ Present("ky") /\ ~Present("ky.new")
    <3>1. k = 7
      BY <1>5, <2>1
    <3>2. QED  BY <1>2, <3>1 DEF Installing
  <2>3. script = "sh" => Due.to = "kyna.new"
    BY <1>2, <2>2, CopyFacts
  <2>4. QED  BY <1>1, <1>7, <1>8, <2>2, <2>3 DEF Intact, Present
<1>11. k = 3 => Intact("ky.previous")'
  BY <1>1, <1>2, <1>7, <1>8, CopyFacts DEF Intact, Present
<1>12. (q \in 4 .. 6 /\ Present("ky")') => Intact("ky.previous")'
  <2>1. CASE k = 3
    BY <1>11, <2>1
  <2>2. CASE k # 3
    <3>1. q \in 4 .. 6 => k \in 4 .. 6
      BY <1>5, <2>2
    <3>2. QED  BY <1>2, <1>7, <2>2, <3>1 DEF Installing, Present, Intact
  <2>3. QED  BY <2>1, <2>2
<1>13. Installing(q)'
  <2>1. CASE q \in {4, 5}
    <3>1. q # 6 /\ ~(q >= 7) /\ q # 8 /\ q # 9
      BY <2>1
    <3>2. QED  BY <1>6, <1>12, <3>1 DEF Installing
  <2>2. CASE q = 6
    BY <1>6, <1>9, <1>12, <2>2 DEF Installing
  <2>3. CASE q = 8
    BY <1>3, <1>6, <1>10, <2>3 DEF Installing
  <2>4. QED  BY <2>1, <2>2, <2>3
<1>14. Planned' /\ Tidied'
  BY <1>6, <1>13 DEF Planned, Tidied
<1>15. InPlace'
  BY <1>1, <1>3, <1>7, <1>11 DEF Scripted, ByScript, InPlace, Present, Intact
<1>16. standing # "clean"
  BY <1>1, Forgotten
<1>17. QED  BY <1>3, <1>4, <1>14, <1>15, <1>16 DEF ByScript

(* install.ps1's rename begins by removing the ky it replaces, which has   *)
(* its whole copy by then.                                                 *)
LEMMA BeginMoveKeeps ==
  ASSUME Scripted, BeginMove
  PROVE  ByScript'
<1>1. /\ run.steps # <<>> /\ Due.do = "move" /\ script = "ps1" /\ InstallTypes
      /\ Present(Due.to)
      /\ files' = [files EXCEPT ![Due.to] = Missing]
      /\ UNCHANGED <<script, manifest, run, tidy, kept, standing>>
  BY DEF BeginMove, IsDue, Scripted
<1>2. PICK k \in 1 .. 9 : Installing(k)
  BY <1>1, UninstallingDue DEF Scripted, ByScript, Planned
<1>3. k = 6 /\ Due.to = "ky"
  BY <1>1, <1>2, InstallingDue
<1>4. Intact("ky.previous") /\ Intact("ky.new")
  BY <1>1, <1>2, <1>3 DEF Installing
<1>5. /\ files'["ky"] = Missing
      /\ \A n \in Names \ {"ky"} : files'[n] = files[n]
  BY <1>1, <1>3, AllNames DEF InstallTypes
<1>6. ~Present("ky")' /\ Intact("ky.previous")' /\ Intact("ky.new")'
  BY <1>4, <1>5, AllNames DEF Present, Intact
<1>7. Installing(6)'
  BY <1>1, <1>2, <1>3, <1>6 DEF Installing
<1>8. InPlace'
  BY <1>1, <1>5, <1>6, AllNames DEF Scripted, ByScript, InPlace, Present
<1>9. standing # "clean"
  BY <1>1, Forgotten
<1>10. Tidied'
  BY <1>1 DEF Tidied, Due
<1>11. QED  BY <1>1, <1>7, <1>8, <1>9, <1>10 DEF Scripted, ByScript, Planned

LEMMA MoveKeeps ==
  ASSUME Scripted, MoveFile
  PROVE  ByScript'
<1>1. /\ run.steps # <<>> /\ Due.do = "move" /\ script \in {"sh", "ps1"} /\ InstallTypes
      /\ files' = [files EXCEPT ![Due.to] = files[Due.from], ![Due.from] = Missing]
      /\ run' = Advance
      /\ standing' = IF Due.to = "ky" THEN "installed" ELSE standing
      /\ UNCHANGED <<script, manifest, tidy, kept>>
  BY DEF MoveFile, IsDue, Scripted
<1>2. PICK k \in 1 .. 9 : Installing(k)
  BY <1>1, UninstallingDue DEF Scripted, ByScript, Planned
<1>3. k = 6 \/ (k = 8 /\ script = "sh")
  BY <1>1, <1>2, InstallingDue
<1>4. run'.steps = Tail(run.steps) /\ run'.into = "none"
  BY <1>1, Going DEF Scripted, Copying
<1>5. standing # "clean"
  BY <1>1, Forgotten
<1>6. Due.do # "manifest"
  BY <1>1
<1>7. PICK q \in {7, 9} : q = k + 1
  BY <1>3
<1>8. /\ run'.steps # <<>> /\ q \in 1 .. Len(Replacing(script'))
      /\ run'.steps = SubSeq(Replacing(script'), q, Len(Replacing(script')))
      /\ q = 7 => Due'.do = "copy"
      /\ q = 9 => Due'.do = "manifest"
  BY <1>1, <1>2, <1>4, <1>6, <1>7, StepsOn
<1>9. CASE k = 6
  <2>1. Due.from = "ky.new" /\ Due.to = "ky" /\ Intact("ky.new") /\ q = 7
    <3>1. q = 7
      BY <1>7, <1>9
    <3>2. Due.from = "ky.new" /\ Due.to = "ky"
      BY <1>1, <1>2, <1>9, InstallingDue
    <3>3. QED  BY <1>2, <1>9, <3>1, <3>2 DEF Installing
  <2>2. /\ files'["ky"] = files["ky.new"] /\ files'["ky.new"] = Missing
        /\ files'["kyna"] = files["kyna"] /\ files'["kyna.new"] = files["kyna.new"]
    BY <1>1, <2>1, AllNames DEF InstallTypes
  <2>3. Present("ky")' /\ ~Present("ky.new")' /\ files'["ky"].whole
    BY <2>1, <2>2 DEF Present, Intact
  <2>4. Installing(7)'
    BY <1>8, <2>1, <2>3 DEF Installing
  <2>5. InPlace'
    BY <1>1, <2>2, <2>3 DEF Scripted, ByScript, InPlace, Present, Intact
  <2>6. QED  BY <1>1, <1>4, <1>5, <1>8, <2>1, <2>4, <2>5 DEF ByScript, Planned, Tidied
<1>10. CASE k = 8 /\ script = "sh"
  <2>1. /\ Due.from = "kyna.new" /\ Due.to = "kyna" /\ Intact("kyna.new") /\ q = 9
        /\ Present("ky") /\ ~Present("ky.new")
    <3>1. q = 9
      BY <1>7, <1>10
    <3>2. Due.from = "kyna.new" /\ Due.to = "kyna"
      BY <1>1, <1>2, <1>10, InstallingDue
    <3>3. Intact("kyna.new") /\ Present("ky") /\ ~Present("ky.new")
      BY <1>2, <1>10 DEF Installing
    <3>4. QED  BY <3>1, <3>2, <3>3
  <2>2. /\ files'["kyna"] = files["kyna.new"] /\ files'["kyna.new"] = Missing
        /\ files'["ky"] = files["ky"] /\ files'["ky.new"] = files["ky.new"]
    BY <1>1, <2>1, AllNames DEF InstallTypes
  <2>3. Present("ky")' /\ ~Present("ky.new")' /\ files'["kyna"].whole /\ ~Present("kyna.new")'
    BY <2>1, <2>2 DEF Present, Intact
  <2>4. Installing(9)'
    BY <1>8, <2>1, <2>3 DEF Installing
  <2>5. InPlace'
    BY <1>1, <1>10, <2>1, <2>2, <2>3 DEF Scripted, ByScript, InPlace, Present, Intact
  <2>6. QED  BY <1>1, <1>4, <1>5, <1>8, <2>1, <2>4, <2>5 DEF ByScript, Planned, Tidied
<1>11. QED  BY <1>3, <1>9, <1>10

(* A removal, whether it succeeds or not: the file is gone or kept.        *)
LEMMA RemoveKeeps ==
  ASSUME Scripted, RemoveFile \/ RemoveFails
  PROVE  ByScript'
<1>1. /\ run.steps # <<>> /\ Due.do = "remove" /\ script \in {"sh", "ps1"} /\ InstallTypes
      /\ run' = Advance
      /\ UNCHANGED <<script, manifest, tidy, standing>>
  BY DEF RemoveFile, RemoveFails, IsDue, Scripted
<1>2. Uninstalling
  BY <1>1, InstallingDue DEF Scripted, ByScript, Planned
<1>3. /\ run'.steps = Tail(run.steps) /\ run'.into = "none" /\ Due = run.steps[1]
      /\ Len(run'.steps) = Len(run.steps) - 1 /\ run'.steps \in Seq(Commands)
      /\ \A i \in 1 .. Len(run.steps) - 1 : run'.steps[i] = run.steps[i + 1]
  BY <1>1, Going DEF Scripted, Copying
<1>4. Len(run.steps) > 1 /\ Len(run.steps) \in Nat
  BY <1>1, <1>2, UninstallingDue, Going
<1>5. PICK gone \in Names : Due = Delete(gone)
  BY <1>1, <1>2, UninstallingDue
<1>6. /\ \A n \in Names : Present(n)' => /\ files'[n] = files[n] /\ Present(n)
                                         /\ n = gone => n \in kept'
      /\ kept \subseteq kept'
  <2>1. Due.from = gone
    BY <1>5, Fields
  <2>2. CASE RemoveFile
    BY <1>1, <2>1, <2>2 DEF RemoveFile, InstallTypes, Present
  <2>3. CASE RemoveFails
    BY <2>1, <2>3 DEF RemoveFails, Present
  <2>4. QED  BY <2>2, <2>3
<1>7. Uninstalling'
  <2> DEFINE more == run.steps
             rest == run'.steps
             n == Len(more)
  <2>a. n \in Nat /\ n > 1 /\ Len(rest) = n - 1 /\ Due = more[1]
        /\ \A i \in 1 .. n - 1 : rest[i] = more[i + 1]
    BY <1>3, <1>4
  <2>b. /\ more[n] = Step("forget") /\ standing = "removing"
        /\ \A i \in 1 .. n - 1 : \E m \in Names : more[i] = Delete(m)
        /\ tidy => \A m \in Names : Present(m) =>
                      m \in kept \/ \E i \in 1 .. n - 1 : more[i] = Delete(m)
    BY <1>2 DEF Uninstalling
  <2> HIDE DEF more, rest, n
  <2>1. rest # <<>>
    <3>1. Len(<<>>) = 0
      BY EmptySeq
    <3>2. QED  BY <2>a, <3>1
  <2>2. rest[n - 1] = Step("forget")
    BY <2>a, <2>b
  <2>3. \A i \in 1 .. (n - 1) - 1 : \E m \in Names : rest[i] = Delete(m)
    <3>1. TAKE i \in 1 .. (n - 1) - 1
    <3>2. i \in 1 .. n - 1 /\ i + 1 \in 1 .. n - 1
      BY <2>a
    <3>3. QED  BY <2>a, <2>b, <3>2
  <2>4. ASSUME tidy, NEW m \in Names, Present(m)', m \notin kept'
        PROVE  \E i \in 1 .. (n - 1) - 1 : rest[i] = Delete(m)
    <3>1. m # gone /\ Present(m) /\ m \notin kept
      BY <1>6, <2>4
    <3>2. PICK i \in 1 .. n - 1 : more[i] = Delete(m)
      BY <2>4, <2>b, <3>1
    <3>3. i # 1
      <4>1. Delete(m) # Delete(gone)
        BY <3>1, Fields
      <4>2. QED  BY <1>5, <2>a, <3>2, <4>1
    <3>4. i - 1 \in 1 .. (n - 1) - 1 /\ i - 1 \in 1 .. n - 1 /\ (i - 1) + 1 = i
      BY <2>a, <3>3
    <3>5. rest[i - 1] = Delete(m)
      BY <2>a, <3>2, <3>4
    <3>6. QED  BY <3>4, <3>5
  <2>5. QED  BY <1>1, <2>a, <2>b, <2>1, <2>2, <2>3, <2>4 DEF Uninstalling, rest
<1>8. InPlace'
  <2>1. standing = "removing"
    BY <1>2 DEF Uninstalling
  <2>2. /\ Present("ky")' => files'["ky"] = files["ky"] /\ Present("ky")
        /\ Present("kyna")' => files'["kyna"] = files["kyna"] /\ Present("kyna")
        /\ Present("kyna.new")' => Present("kyna.new")
    BY <1>6, AllNames
  <2>3. QED  BY <1>1, <2>1, <2>2 DEF Scripted, ByScript, InPlace
<1>9. Tidied'
  <2>1. tidy => \A n \in Names : Present(n) => n \in Listed
    BY <1>1 DEF Scripted, ByScript, Tidied
  <2>2. QED  BY <1>1, <1>6, <2>1 DEF Tidied, Listed
<1>10. standing # "clean"
  BY <1>1, Forgotten
<1>11. QED  BY <1>1, <1>3, <1>7, <1>8, <1>9, <1>10 DEF ByScript, Planned

LEMMA ManifestKeeps ==
  ASSUME Scripted, WriteManifest
  PROVE  ByScript'
<1>1. /\ run.steps # <<>> /\ Due.do = "manifest" /\ script \in {"sh", "ps1"}
      /\ UNCHANGED <<script, files, kept, standing>> /\ run' = Idle
      /\ manifest' = <<"ky", "kyna">> \o IfPresent("ky.previous") \o IfPresent("kyna.previous")
  BY DEF WriteManifest, IsDue, Scripted
<1>2. PICK k \in 1 .. 9 : Installing(k)
  BY <1>1, UninstallingDue DEF Scripted, ByScript, Planned
<1>3. k = 9 \/ (k = 8 /\ script = "ps1")
  BY <1>1, <1>2, InstallingDue
<1>4. ~Present("ky.new") /\ ~Present("kyna.new")
  <2>1. ~Present("ky.new") /\ (k = 9 => script = "sh")
    <3>1. k >= 7
      BY <1>3
    <3>2. script = "ps1" => k # 9
      BY <1>1, <1>2, InstallingDue
    <3>3. QED  BY <1>1, <1>2, <3>1, <3>2 DEF Installing
  <2>2. CASE k = 9
    BY <1>2, <2>1, <2>2 DEF Installing
  <2>3. CASE k = 8 /\ script = "ps1"
    BY <2>1, <2>3 DEF Scripted, ByScript, InPlace
  <2>4. QED  BY <1>3, <2>1, <2>2, <2>3
<1>5. \A n \in Names : Present(n)' => n \in Listed'
  <2> DEFINE x == "ky"
             y == "kyna"
             u == "ky.previous"
             v == "kyna.previous"
             a == <<x, y>>
             b == IfPresent(u)
             c == IfPresent(v)
             ab == a \o b
             m == ab \o c
  <2>1. \A n \in Names : Present(n) => n = x \/ n = y \/ (n = u /\ Present(u)) \/ (n = v /\ Present(v))
    BY <1>4 DEF Names, Executables
  <2>2. x \in Known /\ y \in Known /\ u \in Known /\ v \in Known /\ manifest' = m
    BY <1>1 DEF Known
  <2> HIDE DEF x, y, u, v
  <2>3. a \in Seq(Known) /\ Len(a) = 2 /\ a[1] = x /\ a[2] = y
    BY <2>2
  <2>4. /\ b \in Seq(Known) /\ (Present(u) => Len(b) = 1 /\ b[1] = u)
    BY <2>2, EmptySeq DEF IfPresent
  <2>5. /\ c \in Seq(Known) /\ (Present(v) => Len(c) = 1 /\ c[1] = v)
    BY <2>2, EmptySeq DEF IfPresent
  <2> HIDE DEF a, b, c
  <2>6. /\ ab \in Seq(Known) /\ Len(ab) = Len(a) + Len(b)
        /\ \A i \in 1 .. Len(a) + Len(b) :
              ab[i] = IF i <= Len(a) THEN a[i] ELSE b[i - Len(a)]
    BY <2>3, <2>4, ConcatProperties, ZenonT(60)
  <2> HIDE DEF ab
  <2>7. /\ m \in Seq(Known) /\ Len(m) = Len(ab) + Len(c)
        /\ \A i \in 1 .. Len(ab) + Len(c) :
              m[i] = IF i <= Len(ab) THEN ab[i] ELSE c[i - Len(ab)]
    <3>1. ab \in Seq(Known) /\ c \in Seq(Known)
      BY <2>5, <2>6
    <3>2. QED  BY <3>1, ConcatProperties, ZenonT(60)
  <2> DEFINE lb == Len(b)
             lc == Len(c)
             lm == Len(m)
  <2>8. lb \in Nat /\ lc \in Nat /\ Len(ab) = 2 + lb
    BY <2>3, <2>4, <2>5, <2>6, LenProperties
  <2>9. lm = 2 + lb + lc /\ \A i \in 1 .. lm : m[i] = IF i <= 2 + lb THEN ab[i] ELSE c[i - (2 + lb)]
    BY <2>7, <2>8
  <2>10. \A i \in 1 .. 2 + lb : ab[i] = IF i <= 2 THEN a[i] ELSE b[i - 2]
    BY <2>3, <2>6
  <2>11. (Present(u) => lb = 1) /\ (Present(v) => lc = 1)
    BY <2>4, <2>5
  <2> HIDE DEF lb, lc, lm, m
  <2>12. m[1] = x /\ m[2] = y /\ lm >= 2 /\ lm \in Nat
    <3>1. 1 \in 1 .. lm /\ 2 \in 1 .. lm /\ lm \in Nat /\ 1 <= 2 + lb /\ 2 <= 2 + lb
      BY <2>8, <2>9
    <3>2. 1 \in 1 .. 2 + lb /\ 2 \in 1 .. 2 + lb
      BY <2>8
    <3>3. QED  BY <2>3, <2>9, <2>10, <3>1, <3>2
  <2>13. Present(u) => m[3] = u /\ lm >= 3
    <3>1. SUFFICES ASSUME Present(u) PROVE m[3] = u /\ lm >= 3
      OBVIOUS
    <3>2. lb = 1 /\ 3 \in 1 .. lm /\ 3 \in 1 .. 2 + lb /\ 3 <= 2 + lb /\ lm >= 3
      BY <2>8, <2>9, <2>11, <3>1
    <3>3. QED  BY <2>4, <2>9, <2>10, <3>1, <3>2
  <2>14. Present(v) => m[lm] = v
    <3>1. SUFFICES ASSUME Present(v) PROVE m[lm] = v
      OBVIOUS
    <3>2. lc = 1 /\ lm \in 1 .. lm /\ ~(lm <= 2 + lb) /\ lm - (2 + lb) = 1
      BY <2>8, <2>9, <2>11, <3>1
    <3>3. QED  BY <2>5, <2>9, <3>1, <3>2
  <2>15. DOMAIN m = 1 .. lm
    BY <2>7, LenProperties DEF lm
  <2>16. m # <<>> /\ Listed' = {m[i] : i \in 1 .. lm}
    <3>1. m # <<>>
      BY <2>12, EmptySeq DEF lm
    <3>2. QED  BY <2>2, <2>15, <3>1 DEF Listed
  <2>17. ASSUME NEW n \in Names, Present(n)' PROVE n \in Listed'
    <3>1. Present(n) /\ (n = x \/ n = y \/ (n = u /\ Present(u)) \/ (n = v /\ Present(v)))
      BY <1>1, <2>1, <2>17 DEF Present
    <3>2. \E i \in 1 .. lm : m[i] = n
      <4>1. 1 \in 1 .. lm /\ 2 \in 1 .. lm /\ lm \in 1 .. lm /\ (lm >= 3 => 3 \in 1 .. lm)
        BY <2>12
      <4>2. QED  BY <2>12, <2>13, <2>14, <3>1, <4>1
    <3>3. QED  BY <2>16, <3>2
  <2>18. QED  BY <2>17
<1>6. standing # "clean"
  BY <1>1, Forgotten
<1>7. InPlace'
  BY <1>1 DEF Scripted, ByScript, InPlace, Present, Intact
<1>8. QED  BY <1>1, <1>5, <1>6, <1>7, Standing DEF ByScript, Planned, Tidied

LEMMA ForgetKeeps ==
  ASSUME Scripted, Forget
  PROVE  ByScript'
<1>1. /\ run.steps # <<>> /\ Due.do = "forget" /\ script \in {"sh", "ps1"} /\ InstallTypes
      /\ UNCHANGED <<script, files, tidy, kept>> /\ run' = Idle
      /\ standing' = IF tidy THEN "clean" ELSE "removing"
  BY DEF Forget, IsDue, Scripted
<1>2. Uninstalling
  BY <1>1, InstallingDue DEF Scripted, ByScript, Planned
<1>3. Len(run.steps) = 1
  BY <1>1, <1>2, UninstallingDue
<1>4. tidy => \A n \in Names : Present(n) => n \in kept
  BY <1>2, <1>3 DEF Uninstalling
<1>5. tidy' => \A n \in Names : Present(n)' => n \in kept'
  BY <1>1, <1>4 DEF Present
<1>6. standing' = "clean" => tidy'
  BY <1>1
<1>7. InPlace'
  BY <1>1, <1>2 DEF Scripted, ByScript, InPlace, Uninstalling, Present
<1>8. Tidied'
  <2>1. Listed \subseteq Known
    <3>1. \A i \in DOMAIN manifest : manifest[i] \in Known
      BY <1>1 DEF InstallTypes
    <3>2. QED  BY <3>1 DEF Listed
  <2>2. tidy => \A n \in Names : Present(n) => n \in Listed
    BY <1>1 DEF Scripted, ByScript, Tidied
  <2>3. Listed' = Known \/ Listed' = Listed
    BY DEF Forget, Listed
  <2>4. QED  BY <1>1, <2>1, <2>2, <2>3 DEF Tidied, Present
<1>9. QED  BY <1>1, <1>5, <1>6, <1>7, <1>8, Standing DEF ByScript, Planned

LEMMA InterruptKeeps ==
  ASSUME Scripted, Interrupt
  PROVE  ByScript'
<1>1. /\ run.steps # <<>> /\ run' = Idle /\ UNCHANGED <<script, files, kept, standing>>
      /\ manifest' \in IF Due.do = "manifest" THEN {manifest, <<>>, <<"ky">>} ELSE {manifest}
      /\ tidy' = (tidy /\ Due.do \in {"archive", "sums", "remove", "forget"})
  BY DEF Interrupt
<1>2. Tidied'
  <2>1. SUFFICES ASSUME tidy' PROVE \A n \in Names : Present(n)' => n \in Listed'
    BY DEF Tidied
  <2>2. tidy /\ Due.do \in {"archive", "sums", "remove", "forget"}
    BY <1>1, <2>1, Zenon
  <2>3. manifest' = manifest
    BY <1>1, <2>2
  <2>4. \A n \in Names : Present(n) => n \in Listed
    BY <2>2 DEF Scripted, ByScript, Tidied
  <2>5. QED  BY <1>1, <2>3, <2>4 DEF Present, Listed
<1>3. standing # "clean"
  BY <1>1, Forgotten
<1>4. InPlace'
  BY <1>1 DEF Scripted, ByScript, InPlace, Present, Intact
<1>5. QED  BY <1>1, <1>2, <1>3, <1>4, Standing DEF ByScript, Planned

LEMMA InstallKeeps == InstallInv /\ [InstallNext]_installVars => InstallInv'
<1> SUFFICES ASSUME InstallInv, [InstallNext]_installVars PROVE InstallInv'
  OBVIOUS
<1>1. InstallTypes /\ Copying /\ script' = script /\ InstallTypes' /\ Copying'
  <2>1. InstallTypes /\ Copying
    BY DEF InstallInv
  <2>2. script' = script
    BY DEF InstallNext, installVars, Publish, SelfUpdate, SelfUninstall, TypeCommand, Download,
           BeginCopy, EndCopy, BeginMove, MoveFile, RemoveFile, RemoveFails, WriteManifest,
           Forget, Interrupt
  <2>3. QED  BY <2>1, <2>2, InstallTypesKeep
<1>2. CASE script = "npm"
  BY <1>1, <1>2, NpmKeeps DEF InstallInv
<1>3. CASE script # "npm"
  <2>1. Scripted
    BY <1>1, <1>3 DEF InstallInv, Scripted, InstallTypes, Flavours
  <2> SUFFICES ByScript'
    BY <1>1, <1>3 DEF InstallInv
  <2>2. CASE UNCHANGED installVars \/ Publish
    <3>1. UNCHANGED <<script, files, manifest, run, tidy, kept, standing>>
      BY <2>2 DEF installVars, Publish
    <3>2. QED  BY <2>1, <3>1, QuietKeeps
  <2>3. CASE SelfUpdate \/ SelfUninstall
    BY <2>1, <2>3, TypedKeeps
  <2>4. CASE Download \/ BeginCopy \/ EndCopy
    BY <2>1, <2>4, DownloadKeeps, BeginCopyKeeps, EndCopyKeeps
  <2>5. CASE BeginMove \/ MoveFile \/ RemoveFile \/ RemoveFails \/ WriteManifest
    BY <2>1, <2>5, BeginMoveKeeps, MoveKeeps, RemoveKeeps, ManifestKeeps
  <2>6. CASE Forget \/ Interrupt
    BY <2>1, <2>6, ForgetKeeps, InterruptKeeps
  <2>7. QED  BY <2>2, <2>3, <2>4, <2>5, <2>6 DEF InstallNext
<1>4. QED  BY <1>2, <1>3

LEMMA InstallInitially ==
  ASSUME NEW flavours \in SUBSET Flavours, InstallInit(flavours)
  PROVE  InstallInv
<1>1. /\ script \in Flavours /\ run = Idle /\ manifest = <<>> /\ tidy = TRUE /\ standing = "none"
      /\ kept = {} /\ files = [n \in Names |-> Missing] /\ latest = 1
  BY DEF InstallInit
<1>2. manifest \in Seq(Known) /\ Len(<<>>) = 0
  BY <1>1, EmptySeq
<1>3. InstallTypes /\ Copying
  BY <1>1, <1>2, Standing DEF InstallTypes, Copying
<1>4. \A n \in Names : ~Present(n)
  BY <1>1 DEF Present
<1>5. ByNpm
  BY <1>1, <1>2, Standing DEF ByNpm
<1>6. ByScript
  BY <1>1, <1>4, Standing, AllNames DEF ByScript, Planned, InPlace, Tidied
<1>7. QED  BY <1>3, <1>5, <1>6 DEF InstallInv

LEMMA InstallHolds == InstallInv => InstalledOrGone
<1> SUFFICES ASSUME InstallInv PROVE InstalledOrGone
  OBVIOUS
<1>1. CASE script = "npm"
  BY <1>1 DEF InstallInv, ByNpm, InstalledOrGone
<1>2. CASE script # "npm"
  <2>1. ByScript /\ script \in {"sh", "ps1"}
    BY <1>2 DEF InstallInv, InstallTypes, Flavours
  <2>2. QED  BY <1>2, <2>1 DEF ByScript, InPlace, InstalledOrGone, Executables, Intact
<1>3. QED  BY <1>1, <1>2
=============================================================================
