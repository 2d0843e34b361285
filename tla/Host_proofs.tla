----------------------------- MODULE Host_proofs -----------------------------
(***************************************************************************)
(* Proofs about Host, for any routes, requests, peers and programs that    *)
(* fetch, any child and any size of a pipe, any typed keys and lines, any  *)
(* number of releases and installations.  The parts do not share           *)
(* variables, so that each has an inductive invariant of its own.          *)
(***************************************************************************)
EXTENDS Host, Installer_proofs

Event == [stream : Streams, data : BOOLEAN, hangup : BOOLEAN]

CaptureTypes ==
    /\ parent \in [at : {"called", "poll", "handle", "wait", "done"}, ready : Seq(Event),
                   open : SUBSET Streams, text : [Streams -> Nat],
                   result : {"none", "failedToStart", "code", "128", "-1"}]
    /\ child \in [state : {"none", "runs", "exited", "killed"}, todo : Seq(Streams)]
    /\ pipe \in [Streams -> Nat] /\ wrote \in [Streams -> Nat]
    /\ held \in BOOLEAN /\ broken \in BOOLEAN

(* An event that poll has reported and that is still to be handled.        *)
StillTrue(e) == IF e.data THEN pipe[e.stream] > 0 ELSE pipe[e.stream] = 0 /\ NoWriter

(* What was written was read or is in its pipe.                            *)
Conserved == \A s \in Streams : parent.text[s] + pipe[s] = wrote[s]

NotStarted == parent.at = "called" => pipe = Nothing /\ ~broken /\ child.state = "none"

(* A pipe the parent has closed is empty, and nobody writes to it.         *)
ClosedIsEmpty ==
    Reading => /\ child.state # "none"
               /\ \A s \in Streams \ parent.open : pipe[s] = 0 /\ NoWriter

EventsHold ==
    parent.at = "handle" =>
        /\ \A i \in DOMAIN parent.ready :
              StillTrue(parent.ready[i]) /\ parent.ready[i].stream \in parent.open
        /\ \A i, j \in DOMAIN parent.ready :
              parent.ready[i].stream = parent.ready[j].stream => i = j

Drained ==
    /\ parent.at # "done" => parent.result = "none"
    /\ (parent.at \in {"wait", "done"} /\ parent.result # "failedToStart" /\ ~broken)
          => pipe = Nothing

CaptureInv ==
    CaptureTypes /\ Conserved /\ NotStarted /\ ClosedIsEmpty /\ EventsHold /\ Drained

LEMMA CaptureInitially == CaptureInit => CaptureInv
<1>1. SUFFICES ASSUME CaptureInit PROVE CaptureInv
  OBVIOUS
<1>2. Nothing \in [Streams -> Nat] /\ \A s \in Streams : Nothing[s] = 0
  BY DEF Nothing
<1>3. <<>> \in Seq(Event) /\ <<>> \in Seq(Streams)
  BY EmptySeq
<1>4. CaptureTypes
  BY <1>1, <1>2, <1>3 DEF CaptureInit, CaptureTypes
<1>5. Conserved
  BY <1>1, <1>2 DEF CaptureInit, Conserved
<1>6. QED
  BY <1>1, <1>4, <1>5 DEF CaptureInit, CaptureInv, NotStarted, ClosedIsEmpty, EventsHold, Drained, Reading

LEMMA SpawnKeeps ==
  ASSUME CaptureInv, SpawnFails \/ \E s \in Scripts, c \in BOOLEAN : Spawn(s, c)
  PROVE  CaptureInv'
<1>1. CASE SpawnFails
  BY <1>1 DEF CaptureInv, SpawnFails, CaptureTypes, Conserved, NotStarted, ClosedIsEmpty,
              EventsHold, Drained, Reading, NoWriter
<1>2. ASSUME NEW s \in Scripts, NEW c \in BOOLEAN, Spawn(s, c)
      PROVE  CaptureInv'
  <2>1. /\ parent' = [parent EXCEPT !.at = IF c THEN "poll" ELSE "wait",
                                    !.open = IF c THEN Streams ELSE {}]
        /\ child' = [state |-> "runs", todo |-> IF c THEN s ELSE <<>>]
        /\ UNCHANGED <<pipe, held, wrote, broken>> /\ parent.at = "called"
    BY <1>2 DEF Spawn
  <2>2. s \in Seq(Streams) /\ <<>> \in Seq(Streams)
    BY ScriptAssumption, EmptySeq
  <2>3. CaptureTypes'
    BY <2>1, <2>2 DEF CaptureInv, CaptureTypes
  <2>4. Conserved' /\ NotStarted' /\ EventsHold' /\ Drained'
    BY <2>1 DEF CaptureInv, CaptureTypes, Conserved, NotStarted, EventsHold, Drained
  <2>5. ClosedIsEmpty'
    BY <2>1 DEF CaptureInv, CaptureTypes, ClosedIsEmpty, Reading, NoWriter
  <2>6. QED  BY <2>3, <2>4, <2>5 DEF CaptureInv
<1>3. QED  BY <1>1, <1>2

LEMMA ChildKeeps ==
  ASSUME CaptureInv, ChildRuns \/ ChildEnds("killed") \/ Inherit \/ Release
  PROVE  CaptureInv'
<1>1. CASE ChildWrites
  <2> DEFINE s == Head(child.todo)
  <2>1. s \in Streams /\ Tail(child.todo) \in Seq(Streams)
    BY <1>1, HeadTailProperties DEF ChildWrites, CaptureInv, CaptureTypes
  <2>2. child.state = "runs" /\ UNCHANGED <<parent, held, broken>>
    BY <1>1 DEF ChildWrites
  <2>3. CASE Reading
    <3>1. /\ pipe' = [pipe EXCEPT ![s] = @ + 1] /\ wrote' = [wrote EXCEPT ![s] = @ + 1]
          /\ child' = [child EXCEPT !.todo = Tail(@)]
      BY <1>1, <2>3 DEF ChildWrites
    <3> HIDE DEF s
    <3>2. CaptureTypes'
      <4>1. pipe' \in [Streams -> Nat] /\ wrote' \in [Streams -> Nat]
        BY <2>1, <3>1 DEF CaptureInv, CaptureTypes
      <4>2. child' \in [state : {"none", "runs", "exited", "killed"}, todo : Seq(Streams)]
        BY <2>1, <3>1 DEF CaptureInv, CaptureTypes
      <4>3. QED  BY <2>2, <4>1, <4>2 DEF CaptureInv, CaptureTypes
    <3>3. Conserved'
      <4>1. \A x \in Streams : /\ pipe[x] \in Nat /\ wrote[x] \in Nat /\ parent.text[x] \in Nat
                               /\ pipe'[x] = IF x = s THEN pipe[x] + 1 ELSE pipe[x]
                               /\ wrote'[x] = IF x = s THEN wrote[x] + 1 ELSE wrote[x]
        BY <3>1 DEF CaptureInv, CaptureTypes
      <4>2. QED  BY <2>2, <4>1 DEF CaptureInv, Conserved
    <3>4. NotStarted' /\ Drained'
      BY <2>2, <2>3 DEF CaptureInv, NotStarted, Drained, Reading
    <3>5. child'.state = "runs" /\ ~NoWriter
      BY <2>2, <3>1 DEF CaptureInv, CaptureTypes, NoWriter
    <3>6. ClosedIsEmpty'
      BY <2>2, <2>3, <3>5 DEF CaptureInv, ClosedIsEmpty, Reading
    <3>7. EventsHold'
      <4>1. SUFFICES ASSUME parent.at = "handle", NEW i \in DOMAIN parent.ready
                     PROVE  StillTrue(parent.ready[i])'
        BY <2>2 DEF CaptureInv, EventsHold
      <4>2. parent.ready[i] \in Event
        BY <4>1, ElementOfSeq, LenProperties DEF CaptureInv, CaptureTypes
      <4>3. parent.ready[i].data /\ pipe[parent.ready[i].stream] > 0
        BY <4>1, <3>5 DEF CaptureInv, EventsHold, StillTrue
      <4>4. QED  BY <4>2, <4>3, <2>1, <2>2, <3>1 DEF StillTrue, Event, CaptureInv, CaptureTypes
    <3>8. QED  BY <3>2, <3>3, <3>4, <3>6, <3>7 DEF CaptureInv
  <2>4. CASE ~Reading
    BY <1>1, <2>4 DEF CaptureInv, ChildWrites, CaptureTypes, Conserved, NotStarted, ClosedIsEmpty,
                      EventsHold, Drained, Reading
  <2>5. QED  BY <2>3, <2>4
<1>2. ASSUME NEW how \in {"exited", "killed"}, ChildEnds(how)
      PROVE  CaptureInv'
  BY <1>2 DEF CaptureInv, ChildEnds, CaptureTypes, Conserved, NotStarted, ClosedIsEmpty,
              EventsHold, StillTrue, Drained, Reading, NoWriter
<1>3. CASE Inherit
  BY <1>3 DEF CaptureInv, Inherit, CaptureTypes, Conserved, NotStarted, ClosedIsEmpty,
              EventsHold, StillTrue, Drained, Reading, NoWriter
<1>4. CASE Release
  BY <1>4 DEF CaptureInv, Release, CaptureTypes, Conserved, NotStarted, ClosedIsEmpty,
              EventsHold, StillTrue, Drained, Reading, NoWriter
<1>5. QED  BY <1>1, <1>2, <1>3, <1>4 DEF ChildRuns

LEMMA PollKeeps ==
  ASSUME CaptureInv, Poll
  PROVE  CaptureInv'
<1>1. PICK ready \in {<<Events("out")>>, <<Events("err")>>, <<Events("out"), Events("err")>>} :
        /\ {ready[i].stream : i \in DOMAIN ready} = {s \in parent.open : Reported(s)}
        /\ parent' = [parent EXCEPT !.at = "handle", !.ready = ready]
  BY DEF Poll
<1>2. parent.at = "poll" /\ UNCHANGED <<child, pipe, held, wrote, broken>>
  BY DEF Poll
<1>3. \A s \in Streams : Events(s) \in Event
  BY DEF Events, Event, NoWriter, CaptureInv, CaptureTypes
<1>4. ready \in Seq(Event) /\ \A i \in DOMAIN ready : ready[i] \in {Events("out"), Events("err")}
  <2>1. Events("out") \in Event /\ Events("err") \in Event
    BY <1>3 DEF Streams
  <2> DEFINE out == Events("out")
             err == Events("err")
  <2> HIDE DEF out, err
  <2>2. <<out>> \in Seq(Event) /\ <<err>> \in Seq(Event) /\ <<out, err>> \in Seq(Event)
    BY <2>1 DEF out, err
  <2>3. \A i \in DOMAIN ready : ready[i] \in {out, err}
    BY <1>1 DEF out, err
  <2>4. QED  BY <1>1, <2>2, <2>3 DEF out, err
<1>5. \A i, j \in DOMAIN ready : ready[i].stream = ready[j].stream => i = j
  BY <1>1 DEF Events
<1>6. \A i \in DOMAIN ready : ready[i].stream \in Streams /\ Reported(ready[i].stream)
                              /\ ready[i] = Events(ready[i].stream)
                              /\ ready[i].stream \in parent.open
  BY <1>1, <1>4 DEF Events, Streams
<1>7. CaptureTypes'
  BY <1>1, <1>2, <1>4 DEF CaptureInv, CaptureTypes
<1>8. parent'.at = "handle" /\ parent'.open = parent.open /\ parent'.ready = ready
      /\ parent'.text = parent.text /\ parent'.result = parent.result
  BY <1>1 DEF CaptureInv, CaptureTypes
<1>9. Conserved' /\ NotStarted' /\ ClosedIsEmpty' /\ Drained'
  BY <1>2, <1>8 DEF CaptureInv, Conserved, NotStarted, ClosedIsEmpty, Drained, Reading, NoWriter
<1>10. \A i \in DOMAIN ready : StillTrue(ready[i])
  <2>1. ASSUME NEW s \in Streams, Reported(s) PROVE StillTrue(Events(s))
    <3>1. pipe[s] \in Nat
      BY DEF CaptureInv, CaptureTypes
    <3>2. Events(s) = [stream |-> s, data |-> pipe[s] > 0, hangup |-> NoWriter]
      BY DEF Events
    <3>3. CASE pipe[s] > 0
      <4> (pipe[s] > 0) = TRUE
        BY <3>3
      <4>. Events(s) = [stream |-> s, data |-> TRUE, hangup |-> NoWriter]
        BY Zenon DEF Events
      <4>1. Events(s).data = TRUE /\ Events(s).stream = s
        OBVIOUS
      <4>2. QED  BY <4>1, <3>3 DEF StillTrue
    <3>4. CASE ~(pipe[s] > 0)
      <4> (pipe[s] > 0) = FALSE
        BY <3>4
      <4>. Events(s) = [stream |-> s, data |-> FALSE, hangup |-> NoWriter]
        BY Zenon DEF Events
      <4>1. Events(s).data = FALSE /\ Events(s).stream = s
        OBVIOUS
      <4>2. NoWriter
        <5>1. SUFFICES ASSUME NoWriter = FALSE PROVE FALSE
          BY DEF NoWriter
        <5>2. Events(s) = [stream |-> s, data |-> FALSE, hangup |-> FALSE]
          BY <5>1
        <5>3. Events(s).data = FALSE /\ Events(s).hangup = FALSE
          BY <5>2
        <5>4. QED  BY <2>1, <5>3 DEF Reported
      <4>3. QED  BY <3>1, <3>4, <4>1, <4>2 DEF StillTrue
    <3>5. QED  BY <3>3, <3>4
  <2>2. QED  BY <1>6, <2>1
<1>11. EventsHold'
  BY <1>2, <1>5, <1>6, <1>8, <1>10 DEF EventsHold, StillTrue, NoWriter
<1>12. QED  BY <1>7, <1>9, <1>11 DEF CaptureInv

LEMMA HandleKeeps ==
  ASSUME CaptureInv, Handle
  PROVE  CaptureInv'
<1>1. CASE parent.ready = <<>>
  BY <1>1 DEF CaptureInv, Handle, CaptureTypes, Conserved, NotStarted, ClosedIsEmpty,
              EventsHold, Drained, Reading, NoWriter
<1>2. CASE parent.ready # <<>>
  <2> DEFINE e == Head(parent.ready)
             s == e.stream
             rest == Tail(parent.ready)
  <2>1. /\ e \in Event /\ rest \in Seq(Event) /\ 1 \in DOMAIN parent.ready /\ e = parent.ready[1]
        /\ \A i \in DOMAIN rest : i + 1 \in DOMAIN parent.ready /\ rest[i] = parent.ready[i + 1]
    <3>1. parent.ready \in Seq(Event)
      BY DEF CaptureInv, CaptureTypes
    <3>2. QED  BY <3>1, <1>2, HeadTailProperties, EmptySeq, LenProperties
  <2>2. s \in Streams /\ StillTrue(e)
    BY <2>1 DEF CaptureInv, EventsHold, Handle, Event
  <2>3. \A i \in DOMAIN rest : /\ StillTrue(rest[i]) /\ rest[i].stream # s
                               /\ rest[i].stream \in parent.open
    BY <2>1 DEF CaptureInv, EventsHold, Handle
  <2>4. \A i, j \in DOMAIN rest : rest[i].stream = rest[j].stream => i = j
    BY <2>1, LenProperties DEF CaptureInv, EventsHold, Handle
  <2>5. parent.at = "handle" /\ UNCHANGED <<child, held, wrote, broken>>
    BY DEF Handle
  <2>6. CASE e.data
    <3>1. /\ pipe' = [pipe EXCEPT ![s] = @ - 1]
          /\ parent' = [parent EXCEPT !.ready = rest, !.text[s] = @ + 1]
      BY <1>2, <2>6 DEF Handle
    <3> HIDE DEF e, s, rest
    <3>2. pipe[s] > 0
      BY <2>2, <2>6 DEF StillTrue, s
    <3> DEFINE text == [parent.text EXCEPT ![s] = @ + 1]
    <3>3. \A x \in Streams : /\ pipe[x] \in Nat /\ parent.text[x] \in Nat
                             /\ text[x] = IF x = s THEN parent.text[x] + 1 ELSE parent.text[x]
                             /\ pipe'[x] = IF x = s THEN pipe[x] - 1 ELSE pipe[x]
      BY <3>1 DEF CaptureInv, CaptureTypes
    <3>. text \in [Streams -> Nat] /\ pipe' \in [Streams -> Nat]
      BY <2>2, <3>1, <3>2, <3>3 DEF CaptureInv, CaptureTypes
    <3>a. parent' = [parent EXCEPT !.ready = rest, !.text = text]
      BY <3>1 DEF text, CaptureInv, CaptureTypes
    <3> HIDE DEF text
    <3>4. /\ CaptureTypes'
          /\ parent'.at = "handle" /\ parent'.open = parent.open /\ parent'.ready = rest
          /\ parent'.text = text /\ parent'.result = parent.result
      BY <2>1, <2>5, <3>a DEF CaptureInv, CaptureTypes
    <3>5. Conserved'
      <4>1. ASSUME NEW x \in Streams PROVE text[x] + pipe'[x] = wrote[x]
        BY <3>2, <3>3 DEF CaptureInv, Conserved
      <4>2. QED  BY <4>1, <2>5, <3>4 DEF Conserved
    <3>6. NotStarted' /\ Drained'
      BY <2>5, <3>4 DEF CaptureInv, NotStarted, Drained
    <3>7. ClosedIsEmpty'
      BY <2>2, <2>5, <3>1, <3>2, <3>4 DEF CaptureInv, CaptureTypes, ClosedIsEmpty, Reading, NoWriter
    <3>8. ASSUME NEW i \in DOMAIN rest PROVE rest[i].stream \in Streams
      <4>1. rest[i] \in Event
        BY <2>1, ElementOfSeq, LenProperties
      <4>2. QED  BY <4>1 DEF Event
    <3>9. EventsHold'
      BY <2>3, <2>4, <2>5, <3>1, <3>4, <3>8
         DEF EventsHold, StillTrue, NoWriter, CaptureInv, CaptureTypes
    <3>10. QED  BY <3>4, <3>5, <3>6, <3>7, <3>9 DEF CaptureInv
  <2>7. CASE ~e.data
    <3>1. /\ parent' = [parent EXCEPT !.ready = rest, !.open = @ \ {s}] /\ UNCHANGED pipe
      BY <1>2, <2>7 DEF Handle
    <3> HIDE DEF e, s, rest
    <3>2. pipe[s] = 0 /\ NoWriter
      BY <2>2, <2>7 DEF StillTrue, s
    <3>3. CaptureTypes'
      BY <2>1, <2>5, <3>1 DEF CaptureInv, CaptureTypes
    <3>4. /\ parent'.at = "handle" /\ parent'.open = parent.open \ {s} /\ parent'.ready = rest
          /\ parent'.text = parent.text /\ parent'.result = parent.result
      BY <2>5, <3>1 DEF CaptureInv, CaptureTypes
    <3>5. Conserved' /\ NotStarted' /\ Drained'
      BY <2>5, <3>1, <3>4 DEF CaptureInv, Conserved, NotStarted, Drained
    <3>6. ClosedIsEmpty'
      BY <2>5, <3>1, <3>2, <3>4 DEF CaptureInv, ClosedIsEmpty, Reading, NoWriter
    <3>7. EventsHold'
      BY <2>3, <2>4, <2>5, <3>1, <3>4 DEF EventsHold, StillTrue, NoWriter
    <3>8. QED  BY <3>3, <3>5, <3>6, <3>7 DEF CaptureInv
  <2>8. QED  BY <2>6, <2>7
<1>3. QED  BY <1>1, <1>2

LEMMA WaitKeeps ==
  ASSUME CaptureInv, AllClosed \/ Wait \/ PollInterrupted \/ WaitInterrupted
  PROVE  CaptureInv'
<1>1. CASE AllClosed
  <2>1. pipe = Nothing
    BY <1>1 DEF AllClosed, CaptureInv, CaptureTypes, ClosedIsEmpty, Reading, Nothing
  <2>2. QED
    BY <1>1, <2>1 DEF AllClosed, CaptureInv, CaptureTypes, Conserved, NotStarted, ClosedIsEmpty,
                      EventsHold, Drained, Reading
<1>2. CASE Wait \/ WaitInterrupted
  <2>1. PICK r \in {"code", "128", "-1"} : parent' = [parent EXCEPT !.at = "done", !.result = r]
    BY <1>2 DEF Wait, WaitInterrupted
  <2>2. parent.at = "wait" /\ UNCHANGED <<child, pipe, held, wrote, broken>>
    BY <1>2 DEF Wait, WaitInterrupted
  <2>3. QED
    BY <2>1, <2>2 DEF CaptureInv, CaptureTypes, Conserved, NotStarted, ClosedIsEmpty,
                      EventsHold, Drained, Reading
<1>3. CASE PollInterrupted
  BY <1>3 DEF PollInterrupted, CaptureInv, CaptureTypes, Conserved, NotStarted, ClosedIsEmpty,
              EventsHold, Drained, Reading
<1>4. QED  BY <1>1, <1>2, <1>3

LEMMA CaptureKeeps == CaptureInv /\ [CaptureNext]_captureVars => CaptureInv'
<1>1. SUFFICES ASSUME CaptureInv, [CaptureNext]_captureVars
               PROVE  CaptureInv'
  OBVIOUS
<1>2. CASE CaptureNext
  BY <1>1, <1>2, SpawnKeeps, ChildKeeps, PollKeeps, HandleKeeps, WaitKeeps DEF CaptureNext, ParentRuns
<1>3. CASE UNCHANGED captureVars
  BY <1>1, <1>3 DEF captureVars, CaptureInv, CaptureTypes, Conserved, NotStarted, ClosedIsEmpty,
                    EventsHold, StillTrue, Drained, Reading, NoWriter
<1>4. QED  BY <1>1, <1>2, <1>3

(* Parent and child never wait for each other: a pipe stays open as long   *)
(* as the child runs, and one that is full has something to read.          *)
LEMMA NeitherWaits == CaptureInv => OneGoes
<1> SUFFICES ASSUME CaptureInv, parent.at \in {"poll", "handle", "wait"}
             PROVE  ParentGoes \/ ChildGoes \/ (held /\ child.state # "runs")
  BY DEF OneGoes
<1>1. \A s \in Streams : pipe[s] \in Nat
  BY DEF CaptureInv, CaptureTypes
<1>2. \A s \in Streams : pipe[s] > 0 \/ NoWriter => Reported(s)
  <2>1. SUFFICES ASSUME NEW s \in Streams, pipe[s] > 0 \/ NoWriter
                 PROVE  Reported(s)
    OBVIOUS
  <2>2. Events(s).data = (pipe[s] > 0) /\ Events(s).hangup = NoWriter
    BY DEF Events
  <2>3. QED  BY <2>1, <2>2, Zenon DEF Reported
<1>3. CASE parent.at = "handle"
  BY <1>3 DEF ParentGoes
<1>4. CASE parent.at = "wait"
  BY <1>4 DEF ParentGoes, ChildGoes, Reading
<1>5. CASE parent.at = "poll" /\ child.state = "runs"
  <2> DEFINE s == Head(child.todo)
  <2>1. SUFFICES ASSUME child.todo # <<>> PROVE ParentGoes \/ ChildGoes
    BY <1>5 DEF ChildGoes
  <2>2. s \in Streams
    BY <2>1, HeadTailProperties DEF CaptureInv, CaptureTypes
  <2>3. s \in parent.open
    BY <1>5, <2>2 DEF CaptureInv, ClosedIsEmpty, Reading, NoWriter
  <2> HIDE DEF s
  <2>4. CASE pipe[s] > 0
    BY <1>2, <1>5, <2>2, <2>3, <2>4 DEF ParentGoes
  <2>5. CASE pipe[s] = 0
    <3>1. pipe[s] < Capacity
      BY <2>5, CapacityAssumption
    <3>2. QED  BY <1>5, <3>1 DEF ChildGoes, s
  <2>6. QED  BY <1>1, <2>2, <2>4, <2>5
<1>6. CASE parent.at = "poll" /\ child.state # "runs" /\ ~held
  <2>1. \A s \in parent.open : Reported(s)
    BY <1>2, <1>6 DEF NoWriter, CaptureInv, CaptureTypes
  <2>2. QED  BY <1>6, <2>1 DEF ParentGoes
<1>7. QED  BY <1>3, <1>4, <1>5, <1>6

LEMMA CaptureNearer == CaptureInv /\ CaptureNext => Nearer \/ Inherit \/ Release
<1> SUFFICES ASSUME CaptureInv, CaptureNext, ~Inherit, ~Release PROVE Nearer
  OBVIOUS
<1>0. /\ parent \in [at : {"called", "poll", "handle", "wait", "done"}, ready : Seq(Event),
                     open : SUBSET Streams, text : [Streams -> Nat],
                     result : {"none", "failedToStart", "code", "128", "-1"}]
      /\ child \in [state : {"none", "runs", "exited", "killed"}, todo : Seq(Streams)]
      /\ pipe \in [Streams -> Nat]
  BY DEF CaptureInv, CaptureTypes
<1>1. CASE SpawnFails \/ \E s \in Scripts, c \in BOOLEAN : Spawn(s, c)
  BY <1>0, <1>1 DEF SpawnFails, Spawn, Nearer
<1>2. CASE ChildWrites
  <2>1. Len(Tail(child.todo)) < Len(child.todo) /\ child.state = "runs" /\ UNCHANGED parent
    BY <1>0, <1>2, HeadTailProperties, LenProperties, EmptySeq DEF ChildWrites
  <2>2. child' = [child EXCEPT !.todo = Tail(@)] \/ child' = [child EXCEPT !.state = "killed"]
    BY <1>2 DEF ChildWrites
  <2>3. child'.todo = Tail(child.todo) \/ child'.state # "runs"
    BY <1>0, <2>2
  <2>4. QED  BY <2>1, <2>3 DEF Nearer, ChildNearer
<1>3. ASSUME NEW how \in {"exited", "killed"}, ChildEnds(how) PROVE Nearer
  BY <1>0, <1>3 DEF ChildEnds, Nearer, ChildNearer
<1>4. CASE Poll
  <2>1. PICK ready \in {<<Events("out")>>, <<Events("err")>>, <<Events("out"), Events("err")>>} :
          parent' = [parent EXCEPT !.at = "handle", !.ready = ready]
    BY <1>4 DEF Poll
  <2>2. ready # <<>>
    BY <2>1
  <2>3. parent.at = "poll" /\ UNCHANGED <<child, pipe>>
    BY <1>4 DEF Poll
  <2>4. parent'.at = "handle" /\ parent'.ready # <<>> /\ parent'.open = parent.open
    BY <1>0, <2>1, <2>2
  <2>5. Place = 3 /\ Place' = 2
    BY <2>3, <2>4 DEF Place
  <2>6. QED  BY <2>3, <2>4, <2>5 DEF Nearer, ParentNearer
<1>5. CASE Handle /\ parent.ready = <<>>
  <2>1. parent' = [parent EXCEPT !.at = "poll"] /\ parent.at = "handle" /\ UNCHANGED <<child, pipe>>
    BY <1>5 DEF Handle
  <2>2. parent'.at = "poll" /\ parent'.open = parent.open
    BY <1>0, <2>1
  <2>3. Place = 4 /\ Place' = 3
    BY <1>5, <2>1, <2>2 DEF Place
  <2>4. QED  BY <2>1, <2>2, <2>3 DEF Nearer, ParentNearer
<1>6. CASE Handle /\ parent.ready # <<>>
  <2> DEFINE e == Head(parent.ready)
             s == e.stream
             rest == Tail(parent.ready)
  <2>1. e \in Event /\ e = parent.ready[1] /\ 1 \in DOMAIN parent.ready
    BY <1>0, <1>6, HeadTailProperties, EmptySeq, LenProperties
  <2>2. s \in Streams /\ StillTrue(e) /\ parent.at = "handle" /\ UNCHANGED child
    BY <1>6, <2>1 DEF CaptureInv, EventsHold, Handle, Event
  <2>3. CASE e.data
    <3>1. /\ pipe' = [pipe EXCEPT ![s] = @ - 1]
          /\ \E text : parent' = [parent EXCEPT !.ready = rest, !.text = text]
      BY <1>6, <2>3, <1>0 DEF Handle
    <3> HIDE DEF e, s, rest
    <3>2. pipe[s] > 0 /\ pipe[s] \in Nat
      BY <1>0, <2>2, <2>3 DEF StillTrue, s
    <3>3. pipe'[s] < pipe[s] /\ \A r \in Streams \ {s} : pipe'[r] = pipe[r]
      BY <1>0, <2>2, <3>1, <3>2
    <3>4. parent'.at = "handle" /\ parent'.open = parent.open
      BY <1>0, <2>2, <3>1
    <3>5. QED  BY <2>2, <3>3, <3>4 DEF Nearer, ParentNearer
  <2>4. CASE ~e.data
    <3>1. parent' = [parent EXCEPT !.ready = rest, !.open = @ \ {s}] /\ UNCHANGED pipe
      BY <1>6, <2>4 DEF Handle
    <3> HIDE DEF e, s, rest
    <3>2. parent'.at = "handle" /\ parent'.open = parent.open \ {s}
      BY <1>0, <2>2, <3>1
    <3>3. s \in parent.open
      BY <2>1, <2>2 DEF CaptureInv, EventsHold, s
    <3>4. QED  BY <2>2, <3>1, <3>2, <3>3 DEF Nearer, ParentNearer
  <2>5. QED  BY <2>3, <2>4
<1>7. CASE AllClosed \/ Wait \/ WaitInterrupted
  <2>1. /\ UNCHANGED <<child, pipe>> /\ parent'.open = parent.open
        /\ \/ parent.at = "poll" /\ parent'.at = "wait"
           \/ parent.at = "wait" /\ parent'.at = "done"
    BY <1>0, <1>7 DEF AllClosed, Wait, WaitInterrupted
  <2>2. Place' < Place
    BY <2>1 DEF Place
  <2>3. QED  BY <2>1, <2>2 DEF Nearer, ParentNearer
<1>8. CASE PollInterrupted
  <2>1. UNCHANGED <<child, pipe>> /\ parent'.open = {} /\ parent.open # {} /\ parent'.at = "wait"
    BY <1>0, <1>8 DEF PollInterrupted
  <2>2. QED  BY <2>1 DEF Nearer, ParentNearer
<1>9. QED
  BY <1>1, <1>2, <1>3, <1>4, <1>5, <1>6, <1>7, <1>8 DEF CaptureNext, ChildRuns, ParentRuns

(* What can come back on a connection, and its two ends.                   *)
Replies ==
    {None, Reset} \union {Respond(r, k) : r \in Requests, k \in Connections}
      \union {Answer(s, None, k) : s \in {400, 413}, k \in Connections}
Ends == [sends : Sendable \union {None}, open : BOOLEAN, reads : BOOLEAN, reply : Replies]

HttpTypes ==
    /\ listener \in [at : {"head", "accept", "read", "write", "stopped"},
                     serves : Connections \union {None}, answer : Replies]
    /\ listener.at \in {"read", "write"} => listener.serves \in Connections
    /\ listener.at = "write" => listener.answer # None
    /\ backlog \in Seq(Connections)
    /\ wire \in [Connections -> Ends]

(* What comes back for a request is the routes' answer to it, and nothing  *)
(* comes back for a part of one.                                           *)
Answered ==
    \A k \in Connections :
        /\ wire[k].sends \in Requests => wire[k].reply \in {None, Reset, Respond(wire[k].sends, k)}
        /\ wire[k].sends = Partial => wire[k].reply \in {None, Reset}

(* What is being written will be that, for a peer that is still there.     *)
Writing ==
    listener.at = "write" =>
        LET w == wire[listener.serves] IN
        w.open => /\ w.sends # Partial
                  /\ w.sends \in Requests => listener.answer = Respond(w.sends, listener.serves)

HttpInv == HttpTypes /\ Answered /\ Writing

Calls == [phase : {"idle", "attempt", "waiting", "head", "body", "follow", "done"},
          request : Requests \union {None}, attempt : 0 .. Attempts, trail : Seq(Requests),
          headers : Seq(Replies), body : Seq(Replies), result : {"none", "response", "failure"}]

FetchTypes == fetch \in [Fetchers -> Calls]

(* The connection of the current attempt has been sent the request that    *)
(* the redirects led to, and the head that was received is its answer.     *)
Asked(f) ==
    /\ fetch[f].phase \in {"waiting", "head", "body"} => wire[Connection(f)].sends = Sent(f)
    /\ fetch[f].phase \in {"head", "body"} => Arrived(f) = Respond(Sent(f), Connection(f))

Given(f, call, h) == Respond(call.trail[h], <<f, call.attempt, h>>)

(* The redirects of an attempt, from the request on.                       *)
Chain(f, call) ==
    /\ call.attempt > 0 /\ Len(call.trail) \in 1 .. MaxRedirects + 1
    /\ call.trail[1] = call.request
    /\ \A h \in 2 .. Len(call.trail) :
          /\ Redirects(Given(f, call, h - 1))
          /\ call.trail[h] = Followed(call.trail[h - 1], Given(f, call, h - 1))

HasHeaders(f, call, n) == call.headers = [h \in 1 .. n |-> Given(f, call, h)]
HasBody(f, call) ==
    LET n == Len(call.trail) IN
    /\ HasHeaders(f, call, n) /\ ~Redirects(Given(f, call, n))
    /\ call.body = <<Given(f, call, n)>>

(* A call under way knows its request, has an attempt left before it makes *)
(* one, and has received nothing but answers of this attempt.              *)
UnderWay(f, call) ==
    /\ call.phase = "idle" => call.attempt = 0
    /\ call.phase # "idle" => call.request \in Requests
    /\ call.phase = "attempt" => call.attempt < Attempts
    /\ call.phase \in {"waiting", "follow"} =>
          Chain(f, call) /\ HasHeaders(f, call, Len(call.trail) - 1) /\ call.body = <<>>
    /\ call.phase = "head" =>
          Chain(f, call) /\ HasHeaders(f, call, Len(call.trail)) /\ call.body = <<>>
    /\ call.phase = "body" => Chain(f, call) /\ HasBody(f, call)
    /\ call.result = "response" => call.phase = "done" /\ Chain(f, call) /\ HasBody(f, call)

FetchInv ==
    HttpInv /\ FetchTypes /\ \A f \in Fetchers : Asked(f) /\ UnderWay(f, fetch[f])

LEMMA RepliesDiffer ==
  /\ None \in Replies /\ Reset \in Replies
  /\ \A r \in Requests, k \in Connections : Respond(r, k) \in Replies
  /\ \A k \in Connections, s \in {400, 413} : Answer(s, None, k) \in Replies
<1> DEFINE A == {Respond(r, k) : r \in Requests, k \in Connections}
           B == {Answer(s, None, k) : s \in {400, 413}, k \in Connections}
<1>1. Replies = {None, Reset} \union A \union B
  BY DEF Replies
<1>2. \A r \in Requests, k \in Connections : Respond(r, k) \in A
  OBVIOUS
<1>3. \A k \in Connections, s \in {400, 413} : Answer(s, None, k) \in B
  OBVIOUS
<1> HIDE DEF A, B
<1>4. QED  BY <1>1, <1>2, <1>3

LEMMA FetchInitially == HttpInit(command = "serve") /\ FetchInit => FetchInv
<1>1. SUFFICES ASSUME HttpInit(command = "serve"), FetchInit PROVE FetchInv
  OBVIOUS
<1>2. <<>> \in Seq(Connections) /\ <<>> \in Seq(Replies) /\ <<>> \in Seq(Requests)
  BY EmptySeq
<1>3. Unused \in Ends
  BY RepliesDiffer DEF Unused, Ends
<1>4. HttpTypes
  BY <1>1, <1>2, <1>3, RepliesDiffer DEF HttpInit, HttpTypes, Idling
<1>5. FetchTypes
  BY <1>1, <1>2, ConnectionAssumption DEF FetchInit, FetchTypes, Calls, Calling
<1>6. Answered /\ Writing
  <2>1. \A k \in Connections : wire[k].sends = None /\ wire[k].reply = None
    BY <1>1 DEF HttpInit, Unused
  <2>2. listener.at # "write"
    BY <1>1 DEF HttpInit, Idling
  <2>3. QED  BY <2>1, <2>2 DEF Answered, Writing
<1>7. ASSUME NEW f \in Fetchers PROVE Asked(f) /\ UnderWay(f, fetch[f])
  <2>1. fetch[f].phase = "idle" /\ fetch[f].attempt = 0 /\ fetch[f].result = "none"
    BY <1>1 DEF FetchInit, Calling
  <2>2. QED  BY <2>1 DEF Asked, UnderWay
<1>8. QED  BY <1>4, <1>5, <1>6, <1>7 DEF FetchInv, HttpInv

SameSends == \A x \in Connections : wire'[x].sends = wire[x].sends

LEMMA ConnectKeeps ==
  ASSUME HttpInv, NobodyForgotten, NEW k \in Connections, NEW s \in Sendable, NEW reads \in BOOLEAN,
         Connect(k, s, reads)
  PROVE  HttpInv' /\ wire'[k].sends = s /\ \A x \in Connections \ {k} : wire'[x] = wire[x]
<1> DEFINE r == IF listener.at = "stopped" THEN Reset ELSE None
           new == [sends |-> s, open |-> TRUE, reads |-> reads, reply |-> r]
<1>1. /\ wire' = [wire EXCEPT ![k] = new] /\ UNCHANGED listener /\ wire[k].sends = None
      /\ backlog' = backlog \/ backlog' = Append(backlog, k)
  BY DEF Connect, Unused
<1>2. new \in Ends /\ new.sends = s /\ new.reply \in {None, Reset}
  BY RepliesDiffer DEF Ends
<1> HIDE DEF new
<1>3. wire'[k] = new /\ \A x \in Connections \ {k} : wire'[x] = wire[x]
  BY <1>1 DEF HttpInv, HttpTypes
<1>4. HttpTypes'
  <2>1. backlog' \in Seq(Connections)
    BY <1>1, AppendProperties DEF HttpInv, HttpTypes
  <2>2. QED  BY <1>1, <1>2, <2>1 DEF HttpInv, HttpTypes
<1>5. Answered'
  BY <1>2, <1>3 DEF HttpInv, Answered
<1>6. Writing'
  <2>1. listener.at = "write" => listener.serves \in Connections \ {k}
    BY <1>1 DEF HttpInv, HttpTypes, NobodyForgotten, Served
  <2>2. QED  BY <1>1, <1>3, <2>1 DEF HttpInv, Writing
<1>7. QED  BY <1>2, <1>3, <1>4, <1>5, <1>6 DEF HttpInv

LEMMA SendKeeps ==
  ASSUME HttpInv, NEW k \in Connections, Send(k)
  PROVE  /\ HttpInv' /\ \A x \in Connections \ {k} : wire'[x] = wire[x]
         /\ \A x \in Connections : wire'[x].reply = wire[x].reply
         /\ wire[k].sends # None /\ wire'[k].sends # None /\ UNCHANGED <<listener, backlog>>
<1>1. PICK request \in Whole : wire' = [wire EXCEPT ![k].sends = request]
  BY DEF Send
<1>2. UNCHANGED <<listener, backlog>> /\ wire[k].open /\ wire[k].sends = Partial
  BY DEF Send
<1>3. request \in Sendable /\ request # Partial /\ request # None /\ Partial # None
  BY RequestAssumption DEF Whole, Sendable, Garbled, TooLarge, Partial
<1>4. /\ wire'[k].sends = request /\ wire'[k].open = wire[k].open
      /\ \A x \in Connections \ {k} : wire'[x] = wire[x]
      /\ \A x \in Connections : wire'[x].reply = wire[x].reply
  BY <1>1 DEF HttpInv, HttpTypes, Ends
<1>5. HttpTypes'
  BY <1>1, <1>2, <1>3 DEF HttpInv, HttpTypes, Ends
<1>6. Answered'
  BY <1>2, <1>3, <1>4 DEF HttpInv, Answered
<1>7. Writing'
  <2>1. listener.at = "write" => listener.serves \in Connections \ {k}
    BY <1>2 DEF HttpInv, HttpTypes, Writing
  <2>2. QED  BY <1>2, <1>4, <2>1 DEF HttpInv, Writing
<1>8. QED  BY <1>2, <1>3, <1>4, <1>5, <1>6, <1>7 DEF HttpInv

LEMMA HangUpKeeps ==
  ASSUME HttpInv, NEW k \in Connections, HangUp(k), UNCHANGED <<listener, backlog, stopFlag>>
  PROVE  HttpInv' /\ SameSends /\ \A x \in Connections : wire'[x].reply = wire[x].reply
<1>1. wire' = [wire EXCEPT ![k].open = FALSE]
  BY DEF HangUp
<1>2. HttpTypes' /\ \A x \in Connections : /\ wire'[x].sends = wire[x].sends
                                           /\ wire'[x].reply = wire[x].reply
                                           /\ wire'[x].open => wire[x].open
  BY <1>1 DEF HttpInv, HttpTypes, Ends
<1>3. Answered'
  BY <1>2 DEF HttpInv, Answered
<1>4. Writing'
  BY <1>2 DEF HttpInv, Writing, HttpTypes
<1>5. QED  BY <1>2, <1>3, <1>4 DEF HttpInv, SameSends

LEMMA CloseKeeps ==
  ASSUME HttpInv, Close
  PROVE  HttpInv' /\ SameSends
<1>1. /\ listener' = Idling("stopped") /\ backlog' = <<>>
      /\ wire' = [k \in Connections |-> IF \E i \in DOMAIN backlog : backlog[i] = k
                                        THEN [wire[k] EXCEPT !.reply = Reset] ELSE wire[k]]
  BY DEF Close
<1>2. ASSUME NEW k \in Connections
      PROVE  /\ wire'[k] \in Ends /\ wire'[k].sends = wire[k].sends
             /\ wire'[k].reply \in {wire[k].reply, Reset}
  <2>1. wire[k] \in Ends
    BY DEF HttpInv, HttpTypes
  <2>2. wire'[k] = wire[k] \/ wire'[k] = [wire[k] EXCEPT !.reply = Reset]
    BY <1>1
  <2>3. QED  BY <2>1, <2>2, RepliesDiffer DEF Ends
<1>3. wire' \in [Connections -> Ends]
  BY <1>1, <1>2
<1>4. HttpTypes'
  BY <1>1, <1>3, EmptySeq, RepliesDiffer DEF HttpTypes, Idling
<1>5. Answered'
  BY <1>2 DEF HttpInv, Answered
<1>6. Writing'
  BY <1>1 DEF Writing, Idling
<1>7. QED  BY <1>2, <1>4, <1>5, <1>6 DEF HttpInv, SameSends

LEMMA ReadKeeps ==
  ASSUME HttpInv, Read
  PROVE  HttpInv' /\ UNCHANGED <<wire, backlog>> /\ listener'.at = "write"
         /\ listener.at = "read" /\ listener'.serves = listener.serves
<1> DEFINE k == listener.serves
<1>1. PICK read \in Whole :
        /\ ReadEnds(k, read)
        /\ listener' = [listener EXCEPT !.at = "write",
                          !.answer = CASE read \in Requests -> Respond(read, k)
                                       [] read = TooLarge -> Answer(413, None, k)
                                       [] OTHER -> Answer(400, None, k)]
  BY DEF Read
<1> DEFINE answer == CASE read \in Requests -> Respond(read, k)
                       [] read = TooLarge -> Answer(413, None, k)
                       [] OTHER -> Answer(400, None, k)
<1>2. listener.at = "read" /\ k \in Connections /\ UNCHANGED <<wire, backlog>>
  BY DEF Read, HttpInv, HttpTypes
<1>3. answer \in Replies /\ answer # None
  <2>1. read \in Requests => Respond(read, k) \in Replies /\ Respond(read, k) # None
    BY <1>2, RepliesDiffer, AnswerAssumption
  <2>2. \A s \in {400, 413} : Answer(s, None, k) \in Replies /\ Answer(s, None, k) # None
    BY <1>2, RepliesDiffer, AnswerAssumption
  <2>3. QED  BY <2>1, <2>2
<1>4. read \in Requests => answer = Respond(read, k)
  <2>1. read \in Requests => read # TooLarge
    BY RequestAssumption
  <2>2. QED  BY <2>1
<1> HIDE DEF answer
<1>5. listener' = [listener EXCEPT !.at = "write", !.answer = answer]
  BY <1>1 DEF answer
<1> HIDE DEF k
<1>6. listener'.at = "write" /\ listener'.serves = k /\ listener'.answer = answer
  BY <1>5 DEF k, HttpInv, HttpTypes
<1>7. HttpTypes'
  BY <1>2, <1>3, <1>5 DEF k, HttpInv, HttpTypes
<1>8. wire[k].open => wire[k].sends = read /\ read # Partial
  BY <1>1, RequestAssumption DEF ReadEnds, Whole, Garbled, TooLarge, Partial
<1>9. Writing'
  BY <1>2, <1>4, <1>6, <1>8 DEF Writing
<1>10. Answered'
  BY <1>2 DEF HttpInv, Answered
<1>11. QED  BY <1>2, <1>6, <1>7, <1>9, <1>10 DEF HttpInv, k

LEMMA WrittenKeeps ==
  ASSUME HttpInv, listener.at = "write", Written
  PROVE  /\ HttpInv' /\ SameSends /\ UNCHANGED backlog /\ listener'.at = "head"
         /\ listener.serves \in Connections /\ wire'[listener.serves].reply # None
         /\ \A x \in Connections \ {listener.serves} : wire'[x] = wire[x]
<1> DEFINE k == listener.serves
           reply == IF wire[k].open THEN listener.answer ELSE Reset
<1>1. /\ wire' = [wire EXCEPT ![k].reply = reply] /\ listener' = Idling("head")
      /\ UNCHANGED backlog
  BY DEF Written
<1>2. k \in Connections /\ reply \in Replies /\ reply # None
  BY RepliesDiffer, AnswerAssumption DEF HttpInv, HttpTypes
<1>3. /\ wire[k].sends \in Requests => reply \in {Reset, Respond(wire[k].sends, k)}
      /\ wire[k].sends = Partial => reply = Reset
  BY DEF HttpInv, Writing
<1> HIDE DEF reply, k
<1>4. /\ wire'[k].reply = reply /\ wire'[k].sends = wire[k].sends
      /\ \A x \in Connections \ {k} : wire'[x] = wire[x]
  BY <1>1, <1>2 DEF HttpInv, HttpTypes, Ends
<1>5. HttpTypes'
  <2>1. wire' \in [Connections -> Ends]
    BY <1>1, <1>2 DEF HttpInv, HttpTypes, Ends
  <2>2. QED  BY <1>1, <2>1, RepliesDiffer DEF HttpInv, HttpTypes, Idling
<1>6. Answered'
  BY <1>3, <1>4 DEF HttpInv, Answered
<1>7. listener'.at = "head" /\ Writing'
  BY <1>1 DEF Writing, Idling
<1>8. SameSends
  BY <1>4 DEF SameSends
<1>9. QED  BY <1>1, <1>2, <1>4, <1>5, <1>6, <1>7, <1>8 DEF HttpInv, k

LEMMA AcceptKeeps ==
  ASSUME HttpInv, Accept
  PROVE  HttpInv' /\ UNCHANGED wire
<1>1. UNCHANGED wire /\ Answered'
  BY DEF Accept, HttpInv, Answered
<1>2. CASE backlog = <<>>
  BY <1>1, <1>2, RepliesDiffer DEF Accept, HttpInv, HttpTypes, Writing, Idling
<1>3. CASE backlog # <<>>
  <2>1. Head(backlog) \in Connections /\ Tail(backlog) \in Seq(Connections)
    BY <1>3, HeadTailProperties DEF HttpInv, HttpTypes
  <2>2. listener' = [at |-> "read", serves |-> Head(backlog), answer |-> None]
        /\ backlog' = Tail(backlog)
    BY <1>3 DEF Accept
  <2>3. QED  BY <1>1, <2>1, <2>2, RepliesDiffer DEF HttpInv, HttpTypes, Writing
<1>4. QED  BY <1>2, <1>3

(* What happens on the wire, whoever does it.                              *)
ServerEvent == Listen \/ AcceptFails \/ WriteShort
WireEvent ==
    \/ \E k \in Connections, s \in Sendable, reads \in BOOLEAN : Connect(k, s, reads)
    \/ \E k \in Connections : Send(k)
    \/ \E k \in Connections : HangUp(k) /\ UNCHANGED <<listener, backlog, stopFlag>>
    \/ ServerEvent
    \/ UNCHANGED <<listener, backlog, wire>>

LEMMA ServerKeeps ==
  ASSUME HttpInv, ServerEvent
  PROVE  HttpInv' /\ SameSends
<1>1. CASE LoopHead
  <2>1. CASE stopFlag
    BY <1>1, <2>1, CloseKeeps DEF LoopHead
  <2>2. CASE ~stopFlag
    BY <1>1, <2>2, RepliesDiffer
       DEF LoopHead, HttpInv, HttpTypes, Answered, Writing, Idling, SameSends
  <2>3. QED  BY <2>1, <2>2
<1>2. CASE AcceptFails
  BY <1>2, CloseKeeps DEF AcceptFails
<1>3. CASE Accept
  BY <1>3, AcceptKeeps DEF SameSends
<1>4. CASE Read
  BY <1>4, ReadKeeps DEF SameSends
<1>5. CASE Write \/ WriteShort
  BY <1>5, WrittenKeeps DEF Write, WriteShort
<1>6. QED  BY <1>1, <1>2, <1>3, <1>4, <1>5 DEF ServerEvent, Listen

LEMMA WireKeeps == HttpInv /\ NobodyForgotten /\ WireEvent => HttpInv'
<1> SUFFICES ASSUME HttpInv, NobodyForgotten, WireEvent PROVE HttpInv'
  OBVIOUS
<1>1. CASE UNCHANGED <<listener, backlog, wire>>
  BY <1>1 DEF HttpInv, HttpTypes, Answered, Writing
<1>2. QED  BY <1>1, ConnectKeeps, SendKeeps, HangUpKeeps, ServerKeeps DEF WireEvent

Awaits(k) == wire[k].sends # None /\ wire[k].reply = None

LEMMA ConnectedWaits ==
  ASSUME HttpTypes, NobodyForgotten, NEW k \in Connections, NEW s \in Sendable,
         NEW reads \in BOOLEAN, Connect(k, s, reads)
  PROVE  NobodyForgotten' /\ SameReplies
<1> DEFINE n == Len(backlog)
           new == [sends |-> s, open |-> TRUE, reads |-> reads,
                   reply |-> IF listener.at = "stopped" THEN Reset ELSE None]
<1>1. /\ n \in Nat /\ DOMAIN backlog = 1 .. n /\ UNCHANGED listener
      /\ wire[k].sends = None /\ wire[k].reply = None
  BY LenProperties DEF HttpTypes, Connect, Unused
<1>2. k \notin Queued /\ k \notin Served /\ s # None
  BY <1>1, RequestAssumption DEF NobodyForgotten
<1>3. wire' = [wire EXCEPT ![k] = new]
  BY DEF Connect
<1>4. /\ wire'[k].sends = s /\ wire'[k].reply = IF listener.at = "stopped" THEN Reset ELSE None
      /\ \A x \in Connections \ {k} : wire'[x] = wire[x]
  <2>1. new.sends = s /\ new.reply = IF listener.at = "stopped" THEN Reset ELSE None
    OBVIOUS
  <2> HIDE DEF new
  <2>2. QED  BY <1>3, <2>1 DEF HttpTypes
<1> HIDE DEF new
<1>5. CASE listener.at = "stopped"
  <2>1. UNCHANGED backlog
    BY <1>5 DEF Connect
  <2>2. Queued' = Queued /\ Served' = Served
    BY <1>1, <2>1 DEF Queued, Served
  <2>3. QED
    BY <1>1, <1>2, <1>4, <1>5, <2>1, <2>2, AnswerAssumption DEF NobodyForgotten, SameReplies
<1>6. CASE listener.at # "stopped"
  <2>1. backlog' = Append(backlog, k)
    BY <1>6 DEF Connect
  <2>2. /\ DOMAIN backlog' = 1 .. n + 1 /\ backlog'[n + 1] = k
        /\ \A i \in 1 .. n : backlog'[i] = backlog[i]
    BY <2>1, AppendProperties, LenProperties DEF HttpTypes
  <2>3. Queued' = Queued \union {k} /\ Served' = Served
    <3>1. Queued' \subseteq Queued \union {k}
      BY <1>1, <2>2 DEF Queued
    <3>2. Queued \union {k} \subseteq Queued'
      <4>1. n + 1 \in DOMAIN backlog'
        BY <1>1, <2>2
      <4>2. \A i \in 1 .. n : i \in DOMAIN backlog' /\ backlog'[i] = backlog[i]
        BY <1>1, <2>2
      <4>3. QED  BY <1>1, <2>2, <4>1, <4>2 DEF Queued
    <3>3. QED  BY <1>1, <3>1, <3>2 DEF Served
  <2>4. \A i, j \in DOMAIN backlog' : backlog'[i] = backlog'[j] => i = j
    <3>1. \A i \in 1 .. n : backlog'[i] # k
      BY <1>1, <1>2, <2>2 DEF Queued
    <3>2. QED  BY <1>1, <2>2, <3>1 DEF NobodyForgotten
  <2>5. \A x \in Connections : x \in Queued' \union Served' <=> Awaits(x)'
    BY <1>2, <1>4, <1>6, <2>3 DEF NobodyForgotten, Awaits
  <2>6. Queued' \intersect Served' = {} /\ listener'.at # "stopped" /\ SameReplies
    BY <1>1, <1>2, <1>4, <1>6, <2>3 DEF NobodyForgotten, SameReplies
  <2>7. QED  BY <2>4, <2>5, <2>6 DEF NobodyForgotten, Awaits
<1>7. QED  BY <1>5, <1>6

LEMMA CloseServes ==
  ASSUME HttpTypes, NobodyForgotten, Served = {}, Close
  PROVE  NobodyForgotten' /\ SameReplies
<1>1. /\ listener' = Idling("stopped") /\ backlog' = <<>>
      /\ wire' = [k \in Connections |->
                     IF \E i \in DOMAIN backlog : backlog[i] = k
                     THEN [wire[k] EXCEPT !.reply = Reset] ELSE wire[k]]
  BY DEF Close
<1>2. listener'.at = "stopped" /\ Served' = {} /\ Queued' = {} /\ DOMAIN backlog' = {}
  BY <1>1 DEF Idling, Served, Queued
<1>3. ASSUME NEW k \in Connections
      PROVE  ~Awaits(k)' /\ (wire[k].reply # None => wire'[k].reply = wire[k].reply)
  <2>1. CASE k \in Queued
    <3>1. wire'[k] = [wire[k] EXCEPT !.reply = Reset] /\ wire[k].reply = None
      BY <1>1, <2>1 DEF Queued, NobodyForgotten
    <3>2. wire'[k].reply = Reset
      BY <3>1 DEF HttpTypes, Ends
    <3>3. QED  BY <3>1, <3>2, AnswerAssumption DEF Awaits
  <2>2. CASE k \notin Queued
    BY <1>1, <2>2 DEF Queued, NobodyForgotten, Awaits
  <2>3. QED  BY <2>1, <2>2
<1>4. QED  BY <1>1, <1>2, <1>3 DEF NobodyForgotten, SameReplies, Awaits

LEMMA HeadServes ==
  ASSUME HttpTypes, NobodyForgotten, LoopHead \/ AcceptFails
  PROVE  NobodyForgotten' /\ SameReplies
<1>1. listener.at \in {"head", "accept"} /\ Served = {}
  BY DEF LoopHead, AcceptFails, Served
<1>2. CASE Close
  BY <1>1, <1>2, CloseServes
<1>3. CASE listener' = Idling("accept") /\ UNCHANGED <<wire, backlog>>
  <2>1. listener'.at = "accept" /\ Served' = {} /\ Queued' = Queued
    BY <1>3 DEF Idling, Served, Queued
  <2>2. QED  BY <1>1, <1>3, <2>1 DEF NobodyForgotten, SameReplies
<1>4. QED  BY <1>2, <1>3 DEF LoopHead, AcceptFails


LEMMA AcceptServes ==
  ASSUME HttpTypes, NobodyForgotten, Accept
  PROVE  NobodyForgotten' /\ SameReplies
<1>1. listener.at = "accept" /\ Served = {} /\ UNCHANGED wire
  BY DEF Accept, Served
<1>2. CASE backlog = <<>>
  <2>1. listener'.at = "head" /\ Served' = {} /\ UNCHANGED backlog /\ Queued' = Queued
    BY <1>2 DEF Accept, Served, Queued, Idling
  <2>2. QED  BY <1>1, <2>1 DEF NobodyForgotten, SameReplies
<1>3. CASE backlog # <<>>
  <2> DEFINE n == Len(backlog)
             k == Head(backlog)
  <2>1. /\ listener'.at = "read" /\ listener'.serves = k /\ backlog' = Tail(backlog)
    BY <1>3 DEF Accept
  <2>2. /\ n \in Nat /\ n >= 1 /\ DOMAIN backlog = 1 .. n /\ k = backlog[1]
        /\ DOMAIN backlog' = 1 .. n - 1
        /\ \A i \in 1 .. n - 1 : backlog'[i] = backlog[i + 1]
    BY <1>3, <2>1, HeadTailProperties, LenProperties, EmptySeq DEF HttpTypes
  <2> HIDE DEF k
  <2>3. Served' = {k}
    BY <2>1 DEF Served
  <2>4. Queued' = Queued \ {k}
    <3>1. \A i \in 1 .. n - 1 : i + 1 \in 1 .. n /\ backlog'[i] \in Queued /\ backlog'[i] # k
      BY <2>2 DEF Queued, NobodyForgotten
    <3>2. \A i \in 1 .. n : backlog[i] = k \/ (i - 1 \in 1 .. n - 1 /\ backlog'[i - 1] = backlog[i])
      BY <2>2
    <3>3. \A i \in 1 .. n : backlog[i] = k \/ backlog[i] \in Queued'
      BY <2>2, <3>2 DEF Queued
    <3>4. QED  BY <2>2, <3>1, <3>3 DEF Queued
  <2>5. k \in Queued
    BY <2>2 DEF Queued
  <2>6. \A i, j \in DOMAIN backlog' : backlog'[i] = backlog'[j] => i = j
    BY <2>2 DEF NobodyForgotten
  <2>7. \A x \in Connections : x \in Queued' \union Served' <=> Awaits(x)'
    BY <1>1, <2>3, <2>4, <2>5 DEF NobodyForgotten, Awaits
  <2>8. QED  BY <1>1, <2>1, <2>3, <2>4, <2>6, <2>7 DEF NobodyForgotten, Awaits, SameReplies
<1>4. QED  BY <1>2, <1>3

LEMMA ReadServes ==
  ASSUME HttpInv, NobodyForgotten, Read
  PROVE  NobodyForgotten' /\ SameReplies
<1>1. UNCHANGED <<wire, backlog>> /\ Queued' = Queued /\ Served' = Served /\ listener'.at = "write"
  BY ReadKeeps DEF Queued, Served
<1>2. QED  BY <1>1 DEF NobodyForgotten, SameReplies

LEMMA WrittenServes ==
  ASSUME HttpInv, NobodyForgotten, listener.at = "write", Written
  PROVE  NobodyForgotten' /\ SameReplies
<1> DEFINE k == listener.serves
<1>1. /\ wire'[k].reply # None /\ k \in Connections /\ UNCHANGED backlog /\ listener'.at = "head"
      /\ \A x \in Connections \ {k} : wire'[x] = wire[x]
  BY WrittenKeeps
<1>2. Served = {k} /\ Served' = {} /\ Queued' = Queued
  BY <1>1 DEF Served, Queued
<1> HIDE DEF k
<1>3. \A x \in Connections : x \in Queued' \union Served' <=> Awaits(x)'
  BY <1>1, <1>2 DEF NobodyForgotten, Awaits
<1>4. wire[k].reply = None
  BY <1>1, <1>2 DEF NobodyForgotten
<1>5. QED  BY <1>1, <1>2, <1>3, <1>4 DEF NobodyForgotten, Awaits, SameReplies

LEMMA BacklogKeeps ==
  HttpInv /\ NobodyForgotten /\ WireEvent => NobodyForgotten' /\ SameReplies
<1> SUFFICES ASSUME HttpInv, NobodyForgotten, WireEvent PROVE NobodyForgotten' /\ SameReplies
  OBVIOUS
<1>1. HttpTypes
  BY DEF HttpInv
<1>2. ASSUME NEW k \in Connections, NEW s \in Sendable, NEW reads \in BOOLEAN, Connect(k, s, reads)
      PROVE  NobodyForgotten' /\ SameReplies
  BY <1>1, <1>2, ConnectedWaits
<1>3. ASSUME NEW k \in Connections, Send(k)
      PROVE  NobodyForgotten' /\ SameReplies
  <2>1. /\ \A x \in Connections : wire'[x].reply = wire[x].reply
        /\ \A x \in Connections : wire'[x].sends # None <=> wire[x].sends # None
        /\ Queued' = Queued /\ Served' = Served /\ UNCHANGED <<listener, backlog>>
    BY <1>3, SendKeeps DEF Queued, Served
  <2>2. QED  BY <2>1 DEF NobodyForgotten, SameReplies
<1>4. ASSUME NEW k \in Connections, HangUp(k), UNCHANGED <<listener, backlog, stopFlag>>
      PROVE  NobodyForgotten' /\ SameReplies
  <2>1. \A x \in Connections : wire'[x].sends = wire[x].sends /\ wire'[x].reply = wire[x].reply
    BY <1>4, HangUpKeeps DEF SameSends
  <2>2. Queued' = Queued /\ Served' = Served
    BY <1>4 DEF Queued, Served
  <2>3. QED  BY <1>4, <2>1, <2>2 DEF NobodyForgotten, SameReplies
<1>5. CASE ServerEvent
  BY <1>1, <1>5, HeadServes, AcceptServes, ReadServes, WrittenServes
     DEF ServerEvent, Listen, Write, WriteShort
<1>6. CASE UNCHANGED <<listener, backlog, wire>>
  BY <1>6 DEF NobodyForgotten, Queued, Served, SameReplies
<1>7. QED  BY <1>2, <1>3, <1>4, <1>5, <1>6 DEF WireEvent

LEMMA BacklogInitially == HttpInit(command = "serve") => NobodyForgotten
BY DEF HttpInit, Idling, NobodyForgotten, Queued, Served, Unused

----------------------------------------------------------------------------
(* The calls of fetch.                                                     *)
LEMMA CallConnections ==
  /\ \A f \in Fetchers, n \in 1 .. Attempts, h \in 1 .. MaxRedirects + 1 : <<f, n, h>> \in Connections
  /\ \A p \in Peers : /\ PeerConnection(p) \in Connections
                      /\ \A f \in Fetchers : \A n, h : PeerConnection(p) # <<f, n, h>>
BY ConnectionAssumption DEF PeerConnection

(* The connection of an attempt under way is the call's own.               *)
LEMMA OwnConnection ==
  ASSUME FetchInv, NEW f \in Fetchers, fetch[f].phase \in {"waiting", "head", "body", "follow"}
  PROVE  /\ Connection(f) \in Connections /\ Sent(f) \in Requests
         /\ Len(fetch[f].trail) \in 1 .. MaxRedirects + 1 /\ fetch[f].attempt \in 1 .. Attempts
         /\ Given(f, fetch[f], Len(fetch[f].trail)) = Respond(Sent(f), Connection(f))
<1> DEFINE c == fetch[f]
           n == Len(c.trail)
<1>1. c \in Calls /\ Chain(f, c)
  BY DEF FetchInv, FetchTypes, UnderWay
<1>2. c.attempt \in 1 .. Attempts /\ n \in 1 .. MaxRedirects + 1 /\ c.trail \in Seq(Requests)
  BY <1>1, ConnectionAssumption DEF Calls, Chain
<1>3. c.trail[n] \in Requests
  BY <1>2, ElementOfSeq, ConnectionAssumption
<1>4. <<f, c.attempt, n>> \in Connections
  BY <1>2, CallConnections
<1>5. QED  BY <1>2, <1>3, <1>4 DEF Connection, Sent, Given

(* What another process does leaves a call as it is.                       *)
StandsStill(f) ==
    (fetch[f].phase \in {"waiting", "head", "body"}) =>
        wire'[Connection(f)].sends = wire[Connection(f)].sends

LEMMA OthersKeepCall ==
  ASSUME FetchInv, SameReplies, NEW f \in Fetchers, fetch'[f] = fetch[f], StandsStill(f)
  PROVE  Asked(f)' /\ UnderWay(f, fetch[f])'
<1>1. Asked(f) /\ UnderWay(f, fetch[f])
  BY DEF FetchInv
<1>2. Connection(f)' = Connection(f) /\ Sent(f)' = Sent(f)
  BY DEF Connection, Sent
<1>3. (fetch[f].phase \in {"head", "body"}) => wire'[Connection(f)].reply = wire[Connection(f)].reply
  <2>1. SUFFICES ASSUME fetch[f].phase \in {"head", "body"}
                 PROVE  wire'[Connection(f)].reply = wire[Connection(f)].reply
    OBVIOUS
  <2>2. Connection(f) \in Connections /\ Sent(f) \in Requests
    BY <2>1, OwnConnection
  <2>3. wire[Connection(f)].reply # None
    BY <1>1, <2>1, <2>2, AnswerAssumption DEF Asked, Arrived
  <2>4. QED  BY <2>2, <2>3 DEF SameReplies
<1>4. Asked(f)'
  BY <1>1, <1>2, <1>3 DEF Asked, Arrived, StandsStill
<1>5. UnderWay(f, fetch[f])'
  BY <1>1 DEF UnderWay, Chain, HasHeaders, HasBody, Given
<1>6. QED  BY <1>4, <1>5

LEMMA OtherCallsStand ==
  ASSUME FetchInv, HttpInv', SameReplies, NEW f \in Fetchers, NEW call \in Calls,
         fetch' = [fetch EXCEPT ![f] = call], UnderWay(f, call), Asked(f)',
         \A g \in Fetchers \ {f} : StandsStill(g)
  PROVE  FetchInv'
<1>1. FetchTypes' /\ fetch'[f] = call /\ \A g \in Fetchers \ {f} : fetch'[g] = fetch[g]
  BY DEF FetchInv, FetchTypes
<1>2. \A g \in Fetchers \ {f} : Asked(g)' /\ UnderWay(g, fetch[g])'
  BY <1>1, OthersKeepCall
<1>3. UnderWay(f, fetch[f])'
  BY <1>1 DEF UnderWay, Chain, HasHeaders, HasBody, Given
<1>4. QED  BY <1>1, <1>2, <1>3 DEF FetchInv


LEMMA QuietStands ==
  ASSUME FetchInv, UNCHANGED <<listener, backlog, wire>>
  PROVE  HttpInv' /\ SameReplies /\ \A g \in Fetchers : StandsStill(g)
BY DEF FetchInv, HttpInv, HttpTypes, Answered, Writing, SameReplies, StandsStill

LEMMA ConnectStands ==
  ASSUME FetchInv, NobodyForgotten, NEW f \in Fetchers, NEW k \in Connections,
         \A g \in Fetchers \ {f} : Connection(g) # k, NEW r \in Requests, Connect(k, r, TRUE)
  PROVE  /\ HttpInv' /\ SameReplies /\ wire'[k].sends = r
         /\ \A g \in Fetchers \ {f} : StandsStill(g)
<1>1. HttpInv /\ HttpTypes /\ r \in Sendable
  BY DEF FetchInv, HttpInv, Sendable, Whole
<1>2. HttpInv' /\ wire'[k].sends = r /\ \A x \in Connections \ {k} : wire'[x] = wire[x]
  BY <1>1, ConnectKeeps
<1>3. SameReplies
  BY <1>1, ConnectedWaits
<1>4. \A g \in Fetchers \ {f} : StandsStill(g)
  BY <1>2, OwnConnection DEF StandsStill
<1>5. QED  BY <1>2, <1>3, <1>4

LEMMA HangUpStands ==
  ASSUME FetchInv, NEW k \in Connections, HangUp(k), UNCHANGED <<listener, backlog, stopFlag>>
  PROVE  HttpInv' /\ SameReplies /\ \A g \in Fetchers : StandsStill(g)
<1>1. HttpInv' /\ SameSends /\ \A x \in Connections : wire'[x].reply = wire[x].reply
  BY HangUpKeeps DEF FetchInv
<1>2. SameReplies
  BY <1>1 DEF SameReplies
<1>3. \A g \in Fetchers : StandsStill(g)
  BY <1>1, OwnConnection DEF SameSends, StandsStill
<1>4. QED  BY <1>1, <1>2, <1>3

(* Only the request, the trail and the attempt say what can have come.     *)
LEMMA SameChain ==
  ASSUME NEW f, NEW c, NEW d,
         d.request = c.request, d.trail = c.trail, d.attempt = c.attempt
  PROVE  /\ Chain(f, c) <=> Chain(f, d)
         /\ \A h : Given(f, d, h) = Given(f, c, h)
         /\ \A n : d.headers = c.headers => (HasHeaders(f, d, n) <=> HasHeaders(f, c, n))
         /\ d.headers = c.headers /\ d.body = c.body => (HasBody(f, d) <=> HasBody(f, c))
<1>1. \A h : Given(f, d, h) = Given(f, c, h)
  BY DEF Given
<1>2. Chain(f, c) <=> Chain(f, d)
  BY <1>1 DEF Chain
<1>3. \A n : d.headers = c.headers => (HasHeaders(f, d, n) <=> HasHeaders(f, c, n))
  BY <1>1 DEF HasHeaders
<1>4. d.headers = c.headers /\ d.body = c.body => (HasBody(f, d) <=> HasBody(f, c))
  BY <1>1, <1>3 DEF HasBody
<1>5. QED  BY <1>1, <1>2, <1>3, <1>4

LEMMA HeadersGrow ==
  ASSUME NEW f, NEW c, NEW n \in Nat \ {0}, HasHeaders(f, c, n - 1),
         c.headers \in Seq(Replies), Given(f, c, n) \in Replies
  PROVE  Append(c.headers, Given(f, c, n)) = [h \in 1 .. n |-> Given(f, c, h)]
<1> DEFINE s == c.headers
           G(h) == Given(f, c, h)
           t == Append(s, G(n))
<1>1. s = [h \in 1 .. n - 1 |-> G(h)] /\ s \in Seq(Replies) /\ G(n) \in Replies
  BY DEF HasHeaders
<1> HIDE DEF s, G
<1>2. DOMAIN s = 1 .. n - 1 /\ DOMAIN s = 1 .. Len(s) /\ Len(s) \in Nat
  BY <1>1, LenProperties
<1>3. Len(s) = n - 1
  BY <1>2
<1>4. /\ t \in Seq(Replies) /\ Len(t) = n /\ t[n] = G(n)
      /\ \A i \in 1 .. n - 1 : t[i] = s[i]
  BY <1>1, <1>3, AppendProperties
<1> HIDE DEF t
<1>5. \A i \in 1 .. n : t[i] = G(i)
  BY <1>1, <1>4
<1>6. t = [i \in 1 .. n |-> t[i]]
  BY <1>4, LenProperties
<1>7. t = [i \in 1 .. n |-> G(i)]
  BY <1>5, <1>6
<1>8. QED  BY <1>7 DEF s, t, G

LEMMA NoHeaders ==
  ASSUME NEW f, NEW c, c.headers = <<>>
  PROVE  HasHeaders(f, c, 0)
<1>1. 1 .. 0 = {}
  OBVIOUS
<1>2. [h \in 1 .. 0 |-> Given(f, c, h)] = <<>>
  BY <1>1
<1>3. QED  BY <1>2 DEF HasHeaders

LEMMA BeginFetchKeeps ==
  ASSUME FetchInv, NEW f \in Fetchers, BeginFetch(f)
  PROVE  FetchInv'
<1>1. PICK r \in Requests :
        fetch' = [fetch EXCEPT ![f] = [@ EXCEPT !.phase = "attempt", !.request = r]]
  BY DEF BeginFetch
<1> DEFINE c == fetch[f]
           call == [c EXCEPT !.phase = "attempt", !.request = r]
<1>2. c \in Calls /\ c.phase = "idle" /\ UnderWay(f, c)
  BY DEF BeginFetch, FetchInv, FetchTypes
<1>3. /\ call \in Calls /\ call.phase = "attempt" /\ call.request = r
      /\ call.attempt = c.attempt /\ call.result = c.result
  BY <1>2 DEF Calls
<1>4. fetch' = [fetch EXCEPT ![f] = call]
  BY <1>1
<1> HIDE DEF call
<1>5. UnderWay(f, call)
  BY <1>2, <1>3, ConnectionAssumption DEF UnderWay
<1>6. HttpInv' /\ SameReplies /\ \A g \in Fetchers : StandsStill(g)
  BY QuietStands DEF BeginFetch, httpVars
<1>7. Asked(f)'
  BY <1>3, <1>4 DEF Asked, FetchInv, FetchTypes
<1>8. QED  BY <1>3, <1>4, <1>5, <1>6, <1>7, OtherCallsStand

LEMMA BeginAttemptKeeps ==
  ASSUME FetchInv, NobodyForgotten, NEW f \in Fetchers, BeginAttempt(f)
  PROVE  FetchInv'
<1> DEFINE c == fetch[f]
           n == c.attempt + 1
           r == c.request
           call == [c EXCEPT !.phase = "waiting", !.attempt = n, !.trail = <<r>>,
                             !.headers = <<>>, !.body = <<>>]
<1>1. c \in Calls /\ c.phase = "attempt" /\ UnderWay(f, c)
  BY DEF BeginAttempt, FetchInv, FetchTypes
<1>2. n \in 1 .. Attempts /\ r \in Requests /\ r = c.request
  BY <1>1, ConnectionAssumption DEF UnderWay, Calls
<1>3. fetch' = [fetch EXCEPT ![f] = call] /\ Connect(<<f, n, 1>>, r, TRUE)
  BY DEF BeginAttempt
<1>4. <<r>> \in Seq(Requests) /\ <<>> \in Seq(Replies) /\ Len(<<r>>) = 1 /\ <<r>>[1] = r
  BY <1>2, EmptySeq
<1>5. /\ call \in Calls /\ call.phase = "waiting" /\ call.request = c.request /\ call.attempt = n
      /\ call.trail = <<r>> /\ call.headers = <<>> /\ call.body = <<>>
      /\ call.result = c.result
  <2>1. n \in 0 .. Attempts
    BY <1>2, ConnectionAssumption
  <2> HIDE DEF n, r
  <2>2. QED  BY <1>1, <1>2, <1>4, <2>1 DEF Calls
<1> HIDE DEF call, n, r
<1>6. Chain(f, call)
  BY <1>2, <1>4, <1>5, ConnectionAssumption DEF Chain
<1>7. HasHeaders(f, call, Len(call.trail) - 1)
  BY <1>4, <1>5, NoHeaders
<1>8. UnderWay(f, call)
  BY <1>1, <1>2, <1>5, <1>6, <1>7 DEF UnderWay
<1>9. /\ HttpInv' /\ SameReplies /\ wire'[<<f, n, 1>>].sends = r
      /\ \A g \in Fetchers \ {f} : StandsStill(g)
  <2> DEFINE k == <<f, n, 1>>
  <2>1. k \in Connections
    BY <1>2, CallConnections, ConnectionAssumption
  <2>2. \A g \in Fetchers \ {f} : Connection(g) # k
    BY DEF Connection
  <2> HIDE DEF k
  <2>3. Connect(k, r, TRUE)
    BY <1>3 DEF k
  <2>4. /\ HttpInv' /\ SameReplies /\ wire'[k].sends = r
        /\ \A g \in Fetchers \ {f} : StandsStill(g)
    BY <1>2, <2>1, <2>2, <2>3, ConnectStands
  <2>5. QED  BY <2>4 DEF k
<1>10. Asked(f)'
  <2>1. fetch'[f] = call
    BY <1>3 DEF FetchInv, FetchTypes
  <2>2. Connection(f)' = <<f, n, 1>> /\ Sent(f)' = r
    BY <1>4, <1>5, <2>1 DEF Connection, Sent
  <2>3. QED  BY <1>5, <1>9, <2>1, <2>2 DEF Asked
<1>11. QED  BY <1>3, <1>5, <1>8, <1>9, <1>10, OtherCallsStand

(* What a call knows while its connection is open.                         *)
LEMMA Waiting ==
  ASSUME FetchInv, NEW f \in Fetchers, fetch[f].phase \in {"waiting", "head", "body"}
  PROVE  /\ wire[Connection(f)].sends = Sent(f)
         /\ Arrived(f) \notin {None, Reset} =>
               Arrived(f) = Given(f, fetch[f], Len(fetch[f].trail)) /\ Arrived(f) \in Replies
<1>1. Asked(f) /\ HttpInv
  BY DEF FetchInv
<1>2. /\ Connection(f) \in Connections /\ Sent(f) \in Requests
      /\ Given(f, fetch[f], Len(fetch[f].trail)) = Respond(Sent(f), Connection(f))
  BY OwnConnection
<1>3. wire[Connection(f)].sends = Sent(f)
  BY <1>1 DEF Asked
<1>4. Arrived(f) \in {None, Reset, Respond(Sent(f), Connection(f))}
  BY <1>1, <1>2, <1>3 DEF HttpInv, Answered, Arrived
<1>5. QED  BY <1>2, <1>3, <1>4, RepliesDiffer

LEMMA ReceiveHeadKeeps ==
  ASSUME FetchInv, NEW f \in Fetchers, ReceiveHead(f)
  PROVE  FetchInv'
<1> DEFINE c == fetch[f]
           n == Len(c.trail)
           a == Arrived(f)
           call == [c EXCEPT !.phase = "head", !.headers = Append(@, a)]
<1>1. c \in Calls /\ c.phase = "waiting" /\ UnderWay(f, c) /\ a \notin {None, Reset}
  BY DEF ReceiveHead, FetchInv, FetchTypes
<1>2. n \in 1 .. MaxRedirects + 1 /\ Given(f, c, n) = Respond(Sent(f), Connection(f))
  BY <1>1, OwnConnection
<1>3. wire[Connection(f)].sends = Sent(f) /\ a = Given(f, c, n) /\ a \in Replies
  BY <1>1, Waiting
<1>4. fetch' = [fetch EXCEPT ![f] = call]
  BY DEF ReceiveHead
<1>5. Append(c.headers, a) \in Seq(Replies) /\ c.headers \in Seq(Replies)
  BY <1>1, <1>3, AppendProperties DEF Calls
<1>6. /\ call \in Calls /\ call.phase = "head" /\ call.headers = Append(c.headers, a)
      /\ call.request = c.request /\ call.attempt = c.attempt /\ call.trail = c.trail
      /\ call.body = c.body /\ call.result = c.result
  <2> HIDE DEF a
  <2>1. QED  BY <1>1, <1>5 DEF Calls
<1> HIDE DEF call, a
<1>7. HasHeaders(f, c, n - 1) /\ Chain(f, c) /\ c.body = <<>> /\ c.result # "response"
  BY <1>1 DEF UnderWay
<1>8. HasHeaders(f, call, n)
  <2>1. n \in Nat \ {0}
    BY <1>2, ConnectionAssumption
  <2>2. call.headers = [h \in 1 .. n |-> Given(f, c, h)]
    <3> HIDE DEF n, c
    <3>1. Append(c.headers, Given(f, c, n)) = [h \in 1 .. n |-> Given(f, c, h)]
      BY <1>3, <1>5, <1>7, <2>1, HeadersGrow
    <3>2. QED  BY <1>3, <1>6, <3>1
  <2>3. \A h : Given(f, call, h) = Given(f, c, h)
    BY <1>6 DEF Given
  <2>4. QED  BY <2>2, <2>3 DEF HasHeaders
<1>9. UnderWay(f, call)
  BY <1>1, <1>6, <1>7, <1>8, SameChain DEF UnderWay
<1>10. HttpInv' /\ SameReplies /\ \A g \in Fetchers : StandsStill(g)
  BY QuietStands DEF ReceiveHead, httpVars
<1>11. Asked(f)'
  <2>1. fetch'[f] = call /\ UNCHANGED wire
    BY <1>4 DEF FetchInv, FetchTypes, ReceiveHead, httpVars
  <2>2. Connection(f)' = Connection(f) /\ Sent(f)' = Sent(f) /\ Arrived(f)' = a
    BY <1>6, <2>1 DEF Connection, Sent, Arrived, a
  <2>3. QED  BY <1>2, <1>3, <1>6, <2>1, <2>2 DEF Asked
<1>12. QED  BY <1>4, <1>6, <1>9, <1>10, <1>11, OtherCallsStand

LEMMA ReceiveBodyKeeps ==
  ASSUME FetchInv, NEW f \in Fetchers, ReceiveBody(f)
  PROVE  FetchInv'
<1> DEFINE c == fetch[f]
           n == Len(c.trail)
           a == Arrived(f)
           call == [c EXCEPT !.phase = "body", !.body = Append(@, a)]
<1>1. c \in Calls /\ c.phase = "head" /\ UnderWay(f, c) /\ Asked(f) /\ ~Redirects(a)
  BY DEF ReceiveBody, FetchInv, FetchTypes
<1>2. a = Given(f, c, n) /\ a \in Replies
  BY <1>1, OwnConnection, RepliesDiffer DEF Asked
<1>3. fetch' = [fetch EXCEPT ![f] = call]
  BY DEF ReceiveBody
<1>4. HasHeaders(f, c, n) /\ Chain(f, c) /\ c.body = <<>> /\ c.result # "response"
  BY <1>1 DEF UnderWay
<1>5. Append(c.body, a) = <<a>> /\ <<a>> \in Seq(Replies)
  BY <1>2, <1>4
<1>6. /\ call \in Calls /\ call.phase = "body" /\ call.headers = c.headers
      /\ call.request = c.request /\ call.attempt = c.attempt /\ call.trail = c.trail
      /\ call.body = <<a>> /\ call.result = c.result
  <2> HIDE DEF a
  <2>1. QED  BY <1>1, <1>5 DEF Calls
<1>7. UNCHANGED <<listener, backlog, wire>>
  BY DEF ReceiveBody, httpVars
<1> HIDE DEF call, a
<1>8. Chain(f, call) /\ HasHeaders(f, call, n) /\ Given(f, call, n) = Given(f, c, n)
  BY <1>4, <1>6, SameChain
<1>9. UnderWay(f, call)
  BY <1>1, <1>2, <1>4, <1>6, <1>8 DEF UnderWay, HasBody
<1>10. HttpInv' /\ SameReplies /\ \A g \in Fetchers : StandsStill(g)
  BY <1>7, QuietStands
<1>11. Asked(f)'
  <2>1. fetch'[f] = call
    BY <1>3 DEF FetchInv, FetchTypes
  <2>2. Connection(f)' = Connection(f) /\ Sent(f)' = Sent(f) /\ Arrived(f)' = Arrived(f)
    BY <1>6, <1>7, <2>1 DEF Connection, Sent, Arrived
  <2>3. QED  BY <1>1, <1>6, <1>7, <2>1, <2>2 DEF Asked
<1>12. QED  BY <1>3, <1>6, <1>9, <1>10, <1>11, OtherCallsStand

LEMMA SucceedKeeps ==
  ASSUME FetchInv, NEW f \in Fetchers, Succeed(f)
  PROVE  FetchInv'
<1> DEFINE c == fetch[f]
           call == [c EXCEPT !.phase = "done", !.result = "response"]
<1>1. c \in Calls /\ c.phase = "body" /\ UnderWay(f, c)
  BY DEF Succeed, FetchInv, FetchTypes
<1>2. fetch' = [fetch EXCEPT ![f] = call]
  BY DEF Succeed
<1>3. /\ call \in Calls /\ call.phase = "done" /\ call.headers = c.headers
      /\ call.request = c.request /\ call.attempt = c.attempt /\ call.trail = c.trail
      /\ call.body = c.body
  BY <1>1 DEF Calls
<1> HIDE DEF call
<1>4. Chain(f, c) /\ HasBody(f, c) /\ c.request \in Requests
  BY <1>1 DEF UnderWay
<1>5. Chain(f, call) /\ HasBody(f, call)
  BY <1>3, <1>4, SameChain
<1>6. UnderWay(f, call)
  BY <1>3, <1>4, <1>5 DEF UnderWay
<1>7. HttpInv' /\ SameReplies /\ \A g \in Fetchers : StandsStill(g)
  BY QuietStands DEF Succeed, httpVars
<1>8. Asked(f)'
  <2>1. fetch'[f] = call
    BY <1>2 DEF FetchInv, FetchTypes
  <2>2. QED  BY <1>3, <2>1 DEF Asked
<1>9. QED  BY <1>2, <1>3, <1>6, <1>7, <1>8, OtherCallsStand

LEMMA ChainGrows ==
  ASSUME NEW f, NEW c, NEW r \in Requests, c.trail \in Seq(Requests), Chain(f, c),
         Len(c.trail) =< MaxRedirects, Redirects(Given(f, c, Len(c.trail))),
         r = Followed(c.trail[Len(c.trail)], Given(f, c, Len(c.trail))),
         NEW d, d.request = c.request, d.attempt = c.attempt, d.trail = Append(c.trail, r)
  PROVE  /\ Chain(f, d) /\ Len(d.trail) = Len(c.trail) + 1
         /\ \A h \in 1 .. Len(c.trail) : Given(f, d, h) = Given(f, c, h)
<1> DEFINE n == Len(c.trail)
<1>1. n \in Nat /\ n >= 1 /\ n =< MaxRedirects
  BY ConnectionAssumption DEF Chain
<1>2. Len(d.trail) = n + 1 /\ d.trail[n + 1] = r /\ \A h \in 1 .. n : d.trail[h] = c.trail[h]
  BY AppendProperties
<1>3. \A h \in 1 .. n : Given(f, d, h) = Given(f, c, h)
  BY <1>2 DEF Given
<1>4. ASSUME NEW h \in 2 .. n + 1
      PROVE  /\ Redirects(Given(f, d, h - 1))
             /\ d.trail[h] = Followed(d.trail[h - 1], Given(f, d, h - 1))
  <2>1. h - 1 \in 1 .. n /\ Given(f, d, h - 1) = Given(f, c, h - 1)
        /\ d.trail[h - 1] = c.trail[h - 1]
    BY <1>1, <1>2, <1>3
  <2>2. CASE h = n + 1
    BY <1>1, <1>2, <2>1, <2>2
  <2>3. CASE h \in 2 .. n
    BY <1>1, <1>2, <2>1, <2>3 DEF Chain
  <2>4. QED  BY <1>1, <2>2, <2>3
<1>5. Len(d.trail) \in 1 .. MaxRedirects + 1
  BY <1>1, <1>2, ConnectionAssumption
<1>6. QED  BY <1>1, <1>2, <1>3, <1>4, <1>5 DEF Chain

LEMMA LeaveForRedirectKeeps ==
  ASSUME FetchInv, NEW f \in Fetchers, LeaveForRedirect(f)
  PROVE  FetchInv'
<1> DEFINE c == fetch[f]
           n == Len(c.trail)
           a == Arrived(f)
           r == Followed(Sent(f), a)
<1>1. c \in Calls /\ c.phase = "head" /\ UnderWay(f, c) /\ Asked(f) /\ Redirects(a)
  BY DEF LeaveForRedirect, FetchInv, FetchTypes
<1>2. /\ Connection(f) \in Connections /\ Sent(f) \in Requests /\ n \in 1 .. MaxRedirects + 1
      /\ a = Given(f, c, n) /\ a = Respond(Sent(f), Connection(f))
  BY <1>1, OwnConnection DEF Asked
<1>3. r \in Requests
  BY <1>1, <1>2, ConnectionAssumption
<1>4. HasHeaders(f, c, n) /\ Chain(f, c) /\ c.body = <<>> /\ c.result # "response"
      /\ c.request \in Requests
  BY <1>1 DEF UnderWay
<1>5. HttpInv' /\ SameReplies /\ \A g \in Fetchers : StandsStill(g)
  BY <1>2, HangUpStands DEF LeaveForRedirect
<1>6. CASE n =< MaxRedirects
  <2> DEFINE call == [c EXCEPT !.phase = "follow", !.trail = Append(@, r)]
  <2>1. fetch' = [fetch EXCEPT ![f] = call]
    BY <1>6 DEF LeaveForRedirect
  <2>2. Append(c.trail, r) \in Seq(Requests) /\ c.trail \in Seq(Requests)
    BY <1>1, <1>3, AppendProperties DEF Calls
  <2>3. /\ call \in Calls /\ call.phase = "follow" /\ call.headers = c.headers
        /\ call.request = c.request /\ call.attempt = c.attempt
        /\ call.trail = Append(c.trail, r) /\ call.body = c.body /\ call.result = c.result
    <3> HIDE DEF r
    <3>1. QED  BY <1>1, <2>2 DEF Calls
  <2>4. r = Followed(c.trail[n], Given(f, c, n)) /\ Redirects(Given(f, c, n))
    BY <1>1, <1>2 DEF Sent
  <2> HIDE DEF call, a, r
  <2>5. /\ Chain(f, call) /\ Len(call.trail) = n + 1
        /\ \A h \in 1 .. n : Given(f, call, h) = Given(f, c, h)
    BY <1>3, <1>4, <1>6, <2>2, <2>3, <2>4, ChainGrows
  <2>6. HasHeaders(f, call, n)
    BY <1>4, <2>3, <2>5 DEF HasHeaders
  <2>7. UnderWay(f, call)
    <3>1. Len(call.trail) - 1 = n
      BY <1>2, <2>5, ConnectionAssumption
    <3>2. QED  BY <1>4, <2>3, <2>5, <2>6, <3>1 DEF UnderWay
  <2>8. Asked(f)'
    <3>1. fetch'[f] = call
      BY <2>1 DEF FetchInv, FetchTypes
    <3>2. QED  BY <2>3, <3>1 DEF Asked
  <2>9. QED  BY <1>5, <2>1, <2>3, <2>7, <2>8, OtherCallsStand
<1>7. CASE ~(n =< MaxRedirects)
  <2> DEFINE call == [c EXCEPT !.phase = "done", !.result = "failure"]
  <2>1. fetch' = [fetch EXCEPT ![f] = call]
    BY <1>7 DEF LeaveForRedirect
  <2>2. /\ call \in Calls /\ call.phase = "done" /\ call.result = "failure"
        /\ call.request = c.request
    BY <1>1 DEF Calls
  <2> HIDE DEF call
  <2>3. UnderWay(f, call)
    BY <1>4, <2>2 DEF UnderWay
  <2>4. Asked(f)'
    <3>1. fetch'[f] = call
      BY <2>1 DEF FetchInv, FetchTypes
    <3>2. QED  BY <2>2, <3>1 DEF Asked
  <2>5. QED  BY <1>5, <2>1, <2>2, <2>3, <2>4, OtherCallsStand
<1>8. QED  BY <1>6, <1>7

LEMMA FollowRedirectKeeps ==
  ASSUME FetchInv, NobodyForgotten, NEW f \in Fetchers, FollowRedirect(f)
  PROVE  FetchInv'
<1> DEFINE c == fetch[f]
           n == Len(c.trail)
           call == [c EXCEPT !.phase = "waiting"]
<1>1. c \in Calls /\ c.phase = "follow" /\ UnderWay(f, c)
  BY DEF FollowRedirect, FetchInv, FetchTypes
<1>2. /\ Sent(f) \in Requests /\ n \in 1 .. MaxRedirects + 1 /\ c.attempt \in 1 .. Attempts
      /\ Connection(f) = <<f, c.attempt, n>>
  BY <1>1, OwnConnection DEF Connection
<1>3. fetch' = [fetch EXCEPT ![f] = call]
  BY DEF FollowRedirect
<1>4. /\ call \in Calls /\ call.phase = "waiting" /\ call.headers = c.headers
      /\ call.request = c.request /\ call.attempt = c.attempt /\ call.trail = c.trail
      /\ call.body = c.body /\ call.result = c.result
  BY <1>1 DEF Calls
<1> HIDE DEF call
<1>5. Chain(f, call) /\ HasHeaders(f, call, n - 1) /\ call.body = <<>>
  BY <1>1, <1>4, SameChain DEF UnderWay
<1>6. UnderWay(f, call)
  BY <1>1, <1>4, <1>5 DEF UnderWay
<1>7. /\ HttpInv' /\ SameReplies /\ wire'[Connection(f)].sends = Sent(f)
      /\ \A g \in Fetchers \ {f} : StandsStill(g)
  <2>1. Connect(Connection(f), Sent(f), TRUE) /\ Connection(f) \in Connections
    BY <1>1, OwnConnection DEF FollowRedirect
  <2>2. \A g \in Fetchers \ {f} : Connection(g) # Connection(f)
    BY DEF Connection
  <2>3. QED  BY <1>2, <2>1, <2>2, ConnectStands
<1>8. Asked(f)'
  <2>1. fetch'[f] = call
    BY <1>3 DEF FetchInv, FetchTypes
  <2>2. Connection(f)' = Connection(f) /\ Sent(f)' = Sent(f)
    BY <1>4, <2>1 DEF Connection, Sent
  <2>3. QED  BY <1>4, <1>7, <2>1, <2>2 DEF Asked
<1>9. QED  BY <1>3, <1>4, <1>6, <1>7, <1>8, OtherCallsStand

LEMMA FailAttemptKeeps ==
  ASSUME FetchInv, NEW f \in Fetchers, NEW retryable \in BOOLEAN, FailAttempt(f, retryable)
  PROVE  FetchInv'
<1> DEFINE c == fetch[f]
<1>1. c \in Calls /\ c.phase \in {"waiting", "head", "body"} /\ UnderWay(f, c)
  BY DEF FailAttempt, FetchInv, FetchTypes
<1>2. PICK call \in {[c EXCEPT !.phase = "attempt"],
                     [c EXCEPT !.phase = "done", !.result = "failure"]} :
        /\ fetch' = [fetch EXCEPT ![f] = call]
        /\ call.phase = "attempt" => c.attempt < Attempts
  BY <1>1 DEF FailAttempt, Calls
<1>3. /\ call \in Calls /\ call.phase \in {"attempt", "done"} /\ call.request = c.request
      /\ call.attempt = c.attempt /\ call.result # "response"
  BY <1>1, <1>2 DEF Calls, UnderWay
<1>4. UnderWay(f, call)
  BY <1>1, <1>2, <1>3 DEF UnderWay
<1>5. HttpInv' /\ SameReplies /\ \A g \in Fetchers : StandsStill(g)
  BY <1>1, OwnConnection, HangUpStands DEF FailAttempt
<1>6. Asked(f)'
  <2>1. fetch'[f] = call
    BY <1>2 DEF FetchInv, FetchTypes
  <2>2. QED  BY <1>3, <2>1 DEF Asked
<1>7. QED  BY <1>2, <1>3, <1>4, <1>5, <1>6, OtherCallsStand

LEMMA CallsKeep ==
  FetchInv /\ NobodyForgotten /\ (\E f \in Fetchers : FetchStep(f)) => FetchInv'
BY BeginFetchKeeps, BeginAttemptKeeps, ReceiveHeadKeeps, ReceiveBodyKeeps, SucceedKeeps,
   LeaveForRedirectKeeps, FollowRedirectKeeps, FailAttemptKeeps
   DEF FetchStep, Receive, FetchFails

(* The peers have connections of their own.                                *)
LEMMA PeerStands ==
  ASSUME FetchInv, NEW p \in Peers, \A x \in Connections \ {PeerConnection(p)} : wire'[x] = wire[x]
  PROVE  \A g \in Fetchers : StandsStill(g)
<1>1. \A g \in Fetchers : Connection(g) # PeerConnection(p)
  BY CallConnections DEF Connection
<1>2. QED  BY <1>1, OwnConnection DEF StandsStill

LEMMA WireEvents == FetchInv /\ [HttpNext]_<<httpVars, fetch>> => WireEvent
<1> SUFFICES ASSUME FetchInv, [HttpNext]_<<httpVars, fetch>> PROVE WireEvent
  OBVIOUS
<1>1. CASE (Listen \/ Outside) /\ UNCHANGED fetch
  <2>1. CASE Listen \/ AcceptFails \/ WriteShort
    BY <2>1 DEF WireEvent, ServerEvent
  <2>2. CASE Signal
    BY <2>2 DEF WireEvent, Signal
  <2>3. ASSUME NEW p \in Peers, Peer(p) PROVE WireEvent
    BY <2>3, CallConnections DEF Peer, WireEvent
  <2>4. QED  BY <1>1, <2>1, <2>2, <2>3 DEF Outside
<1>2. ASSUME NEW f \in Fetchers, FetchStep(f) PROVE WireEvent
  <2>1. CASE UNCHANGED httpVars
    BY <2>1 DEF WireEvent, httpVars
  <2>2. CASE BeginAttempt(f)
    <3>1. fetch[f].attempt + 1 \in 1 .. Attempts /\ fetch[f].request \in Requests
      BY <2>2, ConnectionAssumption DEF BeginAttempt, FetchInv, FetchTypes, Calls, UnderWay
    <3>2. <<f, fetch[f].attempt + 1, 1>> \in Connections
      BY <3>1, CallConnections, ConnectionAssumption
    <3>3. QED  BY <2>2, <3>1, <3>2 DEF BeginAttempt, WireEvent, Sendable, Whole
  <2>3. CASE FollowRedirect(f)
    BY <2>3, OwnConnection DEF FollowRedirect, WireEvent, Sendable, Whole
  <2>4. CASE LeaveForRedirect(f)
    BY <2>4, OwnConnection DEF LeaveForRedirect, WireEvent
  <2>5. ASSUME NEW retryable \in BOOLEAN, FailAttempt(f, retryable)
        PROVE  WireEvent
    BY <2>5, OwnConnection DEF FailAttempt, WireEvent
  <2>6. QED
    BY <1>2, <2>1, <2>2, <2>3, <2>4, <2>5
       DEF FetchStep, BeginFetch, Receive, ReceiveHead, ReceiveBody, Succeed, FetchFails
<1>3. CASE UNCHANGED <<httpVars, fetch>>
  BY <1>3 DEF WireEvent, httpVars
<1>4. QED  BY <1>1, <1>2, <1>3 DEF HttpNext

LEMMA OthersKeep ==
  ASSUME FetchInv, NobodyForgotten, (Listen \/ Outside) /\ UNCHANGED fetch
  PROVE  FetchInv'
<1>1. WireEvent /\ HttpInv
  BY WireEvents DEF HttpNext, FetchInv
<1>2. HttpInv' /\ SameReplies
  BY <1>1, WireKeeps, BacklogKeeps
<1>3. ASSUME NEW f \in Fetchers PROVE StandsStill(f)
  <2>1. CASE SameSends
    BY <2>1, OwnConnection DEF SameSends, StandsStill
  <2>2. CASE Listen \/ AcceptFails \/ WriteShort
    BY <1>1, <2>1, <2>2, ServerKeeps DEF ServerEvent
  <2>3. CASE Signal
    BY <2>3 DEF Signal, StandsStill
  <2>4. ASSUME NEW p \in Peers, Peer(p) PROVE StandsStill(f)
    <3>1. PeerConnection(p) \in Connections
      BY CallConnections
    <3>2. ASSUME NEW s \in Sendable, NEW reads \in BOOLEAN, Connect(PeerConnection(p), s, reads)
          PROVE  StandsStill(f)
      BY <1>1, <3>1, <3>2, ConnectKeeps, PeerStands
    <3>3. CASE Send(PeerConnection(p))
      BY <1>1, <3>1, <3>3, SendKeeps, PeerStands
    <3>4. CASE HangUp(PeerConnection(p)) /\ UNCHANGED <<listener, backlog, stopFlag>>
      BY <3>1, <3>4, HangUpStands
    <3>5. QED  BY <2>4, <3>2, <3>3, <3>4 DEF Peer
  <2>5. QED  BY <2>2, <2>3, <2>4 DEF Outside
<1>4. FetchTypes'
  BY DEF FetchInv, FetchTypes
<1>5. \A f \in Fetchers : Asked(f)' /\ UnderWay(f, fetch[f])'
  BY <1>2, <1>3, OthersKeepCall
<1>6. QED  BY <1>2, <1>4, <1>5 DEF FetchInv

LEMMA FetchKeeps ==
  FetchInv /\ NobodyForgotten /\ [HttpNext]_<<httpVars, fetch>>
    => FetchInv' /\ NobodyForgotten' /\ SameReplies
<1> SUFFICES ASSUME FetchInv, NobodyForgotten, [HttpNext]_<<httpVars, fetch>>
             PROVE  FetchInv' /\ NobodyForgotten' /\ SameReplies
  OBVIOUS
<1>1. NobodyForgotten' /\ SameReplies
  BY WireEvents, BacklogKeeps DEF FetchInv
<1>2. CASE UNCHANGED <<httpVars, fetch>>
  <2>1. HttpInv' /\ SameReplies /\ \A g \in Fetchers : StandsStill(g)
    BY <1>2, QuietStands DEF httpVars
  <2>2. FetchTypes' /\ UNCHANGED fetch
    BY <1>2 DEF FetchInv, FetchTypes
  <2>3. QED  BY <1>1, <2>1, <2>2, OthersKeepCall DEF FetchInv
<1>3. CASE HttpNext
  BY <1>1, <1>3, OthersKeep, CallsKeep DEF HttpNext
<1>4. QED  BY <1>2, <1>3

(* The bookkeeping of a call that succeeded is what it promises.           *)
LEMMA FetchSound == FetchInv => FetchTruthful
<1> SUFFICES ASSUME FetchInv, NEW f \in Fetchers, fetch[f].result = "response"
             PROVE  LET t == fetch[f].trail
                        G(h) == Respond(t[h], <<f, fetch[f].attempt, h>>)
                    IN  /\ t[1] = fetch[f].request
                        /\ \A h \in 2 .. Len(t) : /\ Redirects(G(h - 1))
                                                  /\ t[h] = Followed(t[h - 1], G(h - 1))
                        /\ ~Redirects(G(Len(t)))
                        /\ fetch[f].headers = [h \in 1 .. Len(t) |-> G(h)]
                        /\ fetch[f].body = <<G(Len(t))>>
  BY DEF FetchTruthful
<1>1. Chain(f, fetch[f]) /\ HasBody(f, fetch[f])
  BY DEF FetchInv, UnderWay
<1>2. QED  BY <1>1 DEF Chain, HasBody, HasHeaders, Given

(***************************************************************************)
(* The prompt.                                                             *)
(***************************************************************************)

(* Whatever can stand in a line.                                           *)
Vocabulary ==
    Words \union {Newline, Semicolon}
      \union {":", "help", "history", "reset", "cancel", "clear", "quit"}
      \union UNION {{line[i] : i \in DOMAIN line} : line \in InputLines}
Texts == Seq(Vocabulary)

Editors ==
    [content : Texts, cursor : Nat, draft : Texts, index : Nat,
     requested : BOOLEAN, scheduled : BOOLEAN, newline : Nat \union {-1}, quiet : BOOLEAN,
     outcome : {"editing", "accepted", "end", "cancel", "help", "clear"}]
Loops ==
    [interactive : BOOLEAN, pending : Texts, entered : SUBSET Texts,
     ran : [source : Texts, of : SUBSET Texts], session : Int, open : BOOLEAN]

ReplTypes ==
    /\ editor \in Editors
    /\ editor.outcome = "editing" => editor.cursor =< Len(editor.content)
    /\ history \in Seq(Texts) /\ editor.index =< Len(history)
    /\ intended \in SUBSET Texts
    /\ repl \in Loops

(* The editor knows where the newline of the last Enter is; what it would  *)
(* submit, and then what it did submit, is what may be meant.              *)
Meant ==
    /\ editor.newline = delimiter
    /\ editor.outcome = "editing" => WithoutNewline(editor) \in intended
    /\ editor.outcome = "accepted" => editor.content \in intended

ReplInv == ReplTypes /\ Meant /\ repl.pending \in repl.entered /\ RunAsTyped

LEMMA Sequels ==
  /\ \A s, i : RemoveAt(s, i) = SubSeq(s, 1, i - 1) \o SubSeq(s, i + 1, Len(s))
  /\ \A s, i, e : InsertAt(s, i, e) = (SubSeq(s, 1, i - 1) \o <<e>>) \o SubSeq(s, i, Len(s))
BY DEF RemoveAt, InsertAt

LEMMA Part ==
  ASSUME NEW S, NEW c \in Seq(S), NEW m \in Int, NEW k \in Int, 1 <= m, k <= Len(c), m <= k + 1
  PROVE  /\ SubSeq(c, m, k) \in Seq(S) /\ Len(SubSeq(c, m, k)) = k - m + 1
         /\ \A i \in 1 .. k - m + 1 : SubSeq(c, m, k)[i] = c[m + i - 1]
<1>1. \A i \in m .. k : c[i] \in S
  BY LenProperties, ElementOfSeq
<1>2. k - m + 1 = IF m <= k THEN k - m + 1 ELSE 0
  OBVIOUS
<1>3. QED  BY <1>1, <1>2, SubSeqProperties

LEMMA InsertionUndone ==
  ASSUME NEW S, NEW c \in Seq(S), NEW at \in 0 .. Len(c), NEW w \in S
  PROVE  /\ InsertAt(c, at + 1, w) \in Seq(S) /\ Len(InsertAt(c, at + 1, w)) = Len(c) + 1
         /\ InsertAt(c, at + 1, w)[at + 1] = w
         /\ RemoveAt(InsertAt(c, at + 1, w), at + 1) = c
<1> DEFINE n == Len(c)
           a == SubSeq(c, 1, at)
           b == SubSeq(c, at + 1, n)
           one == <<w>>
           aw == a \o one
           r == aw \o b
<1>1. n \in Nat /\ at \in Nat /\ at <= n /\ \A i \in 1 .. n : c[i] \in S
  BY LenProperties, ElementOfSeq
<1> HIDE DEF n
<1>2. a \in Seq(S) /\ Len(a) = at /\ \A i \in 1 .. at : a[i] = c[i]
  <2>1. 1 \in Int /\ at \in Int /\ 1 <= 1 /\ at <= Len(c) /\ 1 <= at + 1
    BY <1>1
  <2>2. a \in Seq(S) /\ Len(a) = at - 1 + 1
        /\ \A i \in 1 .. at - 1 + 1 : a[i] = c[1 + i - 1]
    BY <2>1, Part, ZenonT(60)
  <2>3. QED  BY <1>1, <2>2
<1>3. b \in Seq(S) /\ Len(b) = n - at /\ \A i \in 1 .. n - at : b[i] = c[at + i]
  <2>1. at + 1 \in Int /\ n \in Int /\ 1 <= at + 1 /\ n <= Len(c) /\ at + 1 <= n + 1
    BY <1>1 DEF n
  <2>2. b \in Seq(S) /\ Len(b) = n - (at + 1) + 1
        /\ \A i \in 1 .. n - (at + 1) + 1 : b[i] = c[at + 1 + i - 1]
    BY <2>1, Part, ZenonT(60)
  <2>3. QED  BY <1>1, <2>2
<1>4. one \in Seq(S) /\ Len(one) = 1 /\ one[1] = w
  OBVIOUS
<1> HIDE DEF a, b, one
<1>5. aw \in Seq(S) /\ Len(aw) = at + 1 /\ aw[at + 1] = w /\ \A i \in 1 .. at : aw[i] = a[i]
  <2>1. /\ aw \in Seq(S) /\ Len(aw) = Len(a) + Len(one)
        /\ \A i \in 1 .. Len(a) + Len(one) :
              aw[i] = IF i <= Len(a) THEN a[i] ELSE one[i - Len(a)]
    BY <1>2, <1>4, ConcatProperties, ZenonT(60)
  <2> HIDE DEF aw
  <2>2. Len(aw) = at + 1 /\ \A i \in 1 .. at + 1 : aw[i] = IF i <= at THEN a[i] ELSE one[i - at]
    BY <1>2, <1>4, <2>1
  <2>3. QED  BY <1>1, <1>4, <2>1, <2>2
<1> HIDE DEF aw
<1>6. /\ r \in Seq(S) /\ Len(r) = n + 1 /\ r[at + 1] = w
      /\ \A i \in 1 .. at : r[i] = a[i]
      /\ \A i \in 1 .. n - at : r[at + 1 + i] = b[i]
  <2>1. /\ r \in Seq(S) /\ Len(r) = Len(aw) + Len(b)
        /\ \A i \in 1 .. Len(aw) + Len(b) :
              r[i] = IF i <= Len(aw) THEN aw[i] ELSE b[i - Len(aw)]
    BY <1>3, <1>5, ConcatProperties, ZenonT(60)
  <2> HIDE DEF r
  <2>2. Len(r) = n + 1
        /\ \A i \in 1 .. n + 1 : r[i] = IF i <= at + 1 THEN aw[i] ELSE b[i - (at + 1)]
    BY <1>1, <1>3, <1>5, <2>1
  <2>3. ASSUME NEW i \in 1 .. n - at PROVE r[at + 1 + i] = b[i]
    <3>1. at + 1 + i \in 1 .. n + 1 /\ ~(at + 1 + i <= at + 1) /\ at + 1 + i - (at + 1) = i
      BY <1>1
    <3>2. QED  BY <2>2, <3>1
  <2>4. QED  BY <1>1, <1>5, <2>1, <2>2, <2>3
<1> HIDE DEF r
<1>7. InsertAt(c, at + 1, w) = r
  <2> DEFINE k == at + 1
  <2>1. k - 1 = at /\ b = SubSeq(c, k, Len(c))
    BY <1>1 DEF b, n
  <2> HIDE DEF k
  <2>2. InsertAt(c, k, w) = (SubSeq(c, 1, k - 1) \o <<w>>) \o SubSeq(c, k, Len(c))
    BY Sequels, Zenon
  <2>3. InsertAt(c, k, w) = r
    BY <2>1, <2>2, Zenon DEF r, aw, one, a
  <2>4. QED  BY <2>3 DEF k
<1>8. SubSeq(r, 1, at) = a
  <2> DEFINE q == SubSeq(r, 1, at)
  <2>1. r \in Seq(S) /\ 1 \in Int /\ at \in Int /\ 1 <= 1 /\ at <= Len(r) /\ 1 <= at + 1
    BY <1>1, <1>6
  <2>2. q \in Seq(S) /\ Len(q) = at - 1 + 1
        /\ \A i \in 1 .. at - 1 + 1 : q[i] = r[1 + i - 1]
    BY <2>1, Part, ZenonT(60)
  <2> HIDE DEF q
  <2>3. q \in Seq(S) /\ Len(q) = at /\ \A i \in 1 .. at : q[i] = r[i]
    BY <1>1, <2>2
  <2>4. q = a
    BY <1>2, <1>6, <2>3, SeqEqual
  <2>5. QED  BY <2>4 DEF q
<1>9. SubSeq(r, at + 1 + 1, n + 1) = b
  <2> DEFINE lo == at + 1 + 1
             hi == n + 1
             q == SubSeq(r, lo, hi)
  <2>1. r \in Seq(S) /\ lo \in Int /\ hi \in Int /\ 1 <= lo /\ hi <= Len(r) /\ lo <= hi + 1
    BY <1>1, <1>6
  <2> HIDE DEF lo, hi
  <2>2. q \in Seq(S) /\ Len(q) = hi - lo + 1 /\ \A i \in 1 .. hi - lo + 1 : q[i] = r[lo + i - 1]
    BY <2>1, Part, ZenonT(60)
  <2> HIDE DEF q
  <2>3. q \in Seq(S) /\ Len(q) = n - at /\ \A i \in 1 .. n - at : q[i] = r[at + 1 + i]
    <3>1. hi - lo + 1 = n - at
      BY <1>1 DEF lo, hi
    <3>2. \A i \in 1 .. n - at : lo + i - 1 = at + 1 + i
      BY <1>1 DEF lo
    <3>3. QED  BY <2>2, <3>1, <3>2
  <2>4. q = b
    BY <1>3, <1>6, <2>3, SeqEqual
  <2>5. QED  BY <2>4 DEF q, lo, hi
<1>10. a \o b = c
  <2> DEFINE q == a \o b
  <2>1. /\ q \in Seq(S) /\ Len(q) = Len(a) + Len(b)
        /\ \A i \in 1 .. Len(a) + Len(b) : q[i] = IF i <= Len(a) THEN a[i] ELSE b[i - Len(a)]
    BY <1>2, <1>3, ConcatProperties, ZenonT(60)
  <2> HIDE DEF q
  <2>2. Len(q) = n /\ \A i \in 1 .. n : q[i] = IF i <= at THEN a[i] ELSE b[i - at]
    BY <1>1, <1>2, <1>3, <2>1
  <2>3. \A i \in 1 .. n : q[i] = c[i]
    <3>1. TAKE i \in 1 .. n
    <3>2. CASE i <= at
      BY <1>1, <1>2, <2>2, <3>2
    <3>3. CASE ~(i <= at)
      <4>1. i - at \in 1 .. n - at /\ at + (i - at) = i
        BY <1>1, <3>3
      <4>2. b[i - at] = c[at + (i - at)]
        BY <1>3, <4>1
      <4>3. QED  BY <2>2, <3>3, <4>1, <4>2
    <3>4. QED  BY <3>2, <3>3
  <2>4. q = c
    BY <2>1, <2>2, <2>3, SeqEqual DEF n
  <2>5. QED  BY <2>4 DEF q
<1>11. RemoveAt(r, at + 1) = c
  <2> DEFINE k == at + 1
  <2>1. k - 1 = at /\ b = SubSeq(r, k + 1, Len(r))
    BY <1>1, <1>6, <1>9
  <2> HIDE DEF k
  <2>2. RemoveAt(r, k) = SubSeq(r, 1, k - 1) \o SubSeq(r, k + 1, Len(r))
    BY Sequels, Zenon
  <2>3. RemoveAt(r, k) = c
    BY <1>8, <1>10, <2>1, <2>2, Zenon
  <2>4. QED  BY <2>3 DEF k
<1>12. QED  BY <1>6, <1>7, <1>11 DEF n

(* Taking out a part of a text, or one place of it.                        *)
LEMMA Cut ==
  ASSUME NEW S, NEW c \in Seq(S), NEW i \in 1 .. Len(c), NEW j \in 1 .. Len(c)
  PROVE  LET rest == SubSeq(c, 1, i - 1) \o SubSeq(c, j + 1, Len(c))
         IN  rest \in Seq(S) /\ Len(rest) = (i - 1) + (Len(c) - j)
<1> DEFINE n == Len(c)
           a == SubSeq(c, 1, i - 1)
           b == SubSeq(c, j + 1, n)
<1>1. n \in Nat /\ i \in 1 .. n /\ j \in 1 .. n /\ \A m \in 1 .. n : c[m] \in S
  BY LenProperties, ElementOfSeq
<1> HIDE DEF n
<1>2. a \in Seq(S) /\ Len(a) = i - 1
  <2>1. 1 \in Int /\ i - 1 \in Int /\ 1 <= 1 /\ i - 1 <= Len(c) /\ 1 <= i - 1 + 1
    BY <1>1 DEF n
  <2>2. a \in Seq(S) /\ Len(a) = i - 1 - 1 + 1
    BY <2>1, Part, ZenonT(60)
  <2>3. QED  BY <1>1, <2>2
<1>3. b \in Seq(S) /\ Len(b) = n - j
  <2>1. j + 1 \in Int /\ n \in Int /\ 1 <= j + 1 /\ n <= Len(c) /\ j + 1 <= n + 1
    BY <1>1 DEF n
  <2>2. b \in Seq(S) /\ Len(b) = n - (j + 1) + 1
    BY <2>1, Part, ZenonT(60)
  <2>3. QED  BY <1>1, <2>2
<1> HIDE DEF a, b
<1>4. a \o b \in Seq(S) /\ Len(a \o b) = Len(a) + Len(b)
  BY <1>2, <1>3, ConcatProperties, ZenonT(60)
<1>5. QED  BY <1>2, <1>3, <1>4 DEF a, b, n

LEMMA Removed ==
  ASSUME NEW S, NEW c \in Seq(S), NEW i \in 1 .. Len(c)
  PROVE  RemoveAt(c, i) \in Seq(S) /\ Len(RemoveAt(c, i)) = Len(c) - 1
<1> DEFINE rest == SubSeq(c, 1, i - 1) \o SubSeq(c, i + 1, Len(c))
           n == Len(c)
<1>1. rest \in Seq(S) /\ Len(rest) = (i - 1) + (n - i) /\ n \in Nat
  BY Cut, LenProperties
<1>2. RemoveAt(c, i) = rest
  BY DEF RemoveAt
<1> HIDE DEF rest, n
<1>3. Len(rest) = n - 1
  BY <1>1
<1>4. QED  BY <1>1, <1>2, <1>3 DEF n

LEMMA Ended ==
  ASSUME NEW S, NEW c \in Seq(S), NEW w \in S
  PROVE  c \o <<w>> \in Seq(S) /\ Front(c \o <<w>>) = c
<1> DEFINE n == Len(c)
           r == Append(c, w)
<1>1. c \o <<w>> = r /\ r \in Seq(S) /\ Len(r) = n + 1 /\ n \in Nat
      /\ \A i \in 1 .. n : r[i] = c[i]
  BY AppendIsConcat, AppendProperties, LenProperties
<1> HIDE DEF r
<1>2. SubSeq(r, 1, n) = c
  <2> DEFINE q == SubSeq(r, 1, n)
  <2> HIDE DEF n
  <2>1. r \in Seq(S) /\ 1 \in Int /\ n \in Int /\ 1 <= 1 /\ n <= Len(r) /\ 1 <= n + 1
    BY <1>1
  <2>2. q \in Seq(S) /\ Len(q) = n - 1 + 1
        /\ \A i \in 1 .. n - 1 + 1 : q[i] = r[1 + i - 1]
    BY <2>1, Part, ZenonT(60)
  <2> HIDE DEF q
  <2>3. q \in Seq(S) /\ Len(q) = n /\ \A i \in 1 .. n : q[i] = c[i]
    BY <1>1, <2>2
  <2>4. q = c
    BY <2>3, SeqEqual DEF n
  <2>5. QED  BY <2>4 DEF q
<1>3. Len(r) - 1 = n
  BY <1>1
<1>4. QED  BY <1>1, <1>2, <1>3 DEF Front

(* A step of the editor alone.                                             *)
LEMMA EditKeeps ==
  ASSUME ReplInv, UNCHANGED <<history, repl>>, editor' \in Editors,
         editor'.index =< Len(history),
         editor'.outcome = "editing" => editor'.cursor =< Len(editor'.content),
         intended' \in SUBSET Texts, Meant'
  PROVE  ReplInv'
BY DEF ReplInv, ReplTypes, RunAsTyped

LEMMA Placed ==
  ASSUME NEW e \in Editors, NEW text \in Texts, NEW at \in Nat, NEW f,
         f = [e EXCEPT !.content = text, !.cursor = at]
  PROVE  /\ f \in Editors /\ f.content = text /\ f.cursor = at /\ f.index = e.index
         /\ f.outcome = e.outcome
BY DEF Editors

LEMMA InsertedFacts ==
  ASSUME ReplTypes, editor.outcome = "editing", NEW w \in Vocabulary, NEW e, e = Inserted(editor, w)
  PROVE  /\ e \in Editors /\ e.content = InsertAt(editor.content, editor.cursor + 1, w)
         /\ e.cursor = editor.cursor + 1 /\ e.cursor =< Len(e.content)
         /\ e.newline = -1 /\ e.index = editor.index /\ e.outcome = "editing"
         /\ RemoveAt(e.content, editor.cursor + 1) = editor.content
         /\ e.content[editor.cursor + 1] = w
<1> DEFINE longer == InsertAt(editor.content, editor.cursor + 1, w)
           mid == [editor EXCEPT !.content = longer, !.cursor = editor.cursor + 1]
<1>1. e = OnChange(mid)
  BY DEF Inserted
<1>2. editor \in Editors /\ editor.content \in Texts /\ editor.cursor \in 0 .. Len(editor.content)
  <2>1. editor \in Editors /\ editor.cursor =< Len(editor.content)
    BY DEF ReplTypes
  <2>2. editor.content \in Texts /\ editor.cursor \in Nat
    BY <2>1 DEF Editors
  <2>3. Len(editor.content) \in Nat
    BY <2>2, LenProperties DEF Texts
  <2>4. QED  BY <2>1, <2>2, <2>3
<1>3. /\ longer \in Texts /\ Len(longer) = Len(editor.content) + 1
      /\ longer[editor.cursor + 1] = w /\ RemoveAt(longer, editor.cursor + 1) = editor.content
  BY <1>2, InsertionUndone DEF Texts
<1> HIDE DEF longer
<1>4. /\ mid \in Editors /\ mid.content = longer /\ mid.cursor = editor.cursor + 1
      /\ mid.index = editor.index /\ mid.outcome = "editing"
  <2> DEFINE at == editor.cursor + 1
  <2>1. at \in Nat /\ longer \in Texts /\ editor \in Editors
    BY <1>2, <1>3
  <2>2. mid = [editor EXCEPT !.content = longer, !.cursor = at]
    OBVIOUS
  <2> HIDE DEF mid, at
  <2>3. mid \in Editors /\ mid.content = longer /\ mid.cursor = at /\ mid.index = editor.index
        /\ mid.outcome = editor.outcome
    BY <2>1, <2>2 DEF Editors, Texts
  <2>4. QED  BY <2>3 DEF at
<1> HIDE DEF mid
<1>5. /\ e \in Editors /\ e.content = mid.content /\ e.cursor = mid.cursor /\ e.newline = -1
      /\ e.index = mid.index /\ e.outcome = mid.outcome
  BY <1>1, <1>4 DEF OnChange, Editors
<1>6. editor.cursor + 1 =< Len(longer)
  <2>1. Len(editor.content) \in Nat
    BY <1>2, LenProperties DEF Texts
  <2>2. QED  BY <1>2, <1>3, <2>1
<1>7. QED  BY <1>3, <1>4, <1>5, <1>6 DEF longer

LEMMA TypeKeeps ==
  ASSUME ReplInv, UNCHANGED repl, NEW w \in Words, Type(w)
  PROVE  ReplInv'
<1>1. /\ editor.outcome = "editing" /\ editor' = Inserted(editor, w) /\ intended' = {editor'.content}
      /\ delimiter' = -1 /\ UNCHANGED history /\ ReplTypes
  BY DEF Type, Press, ReplInv
<1>2. w \in Vocabulary
  BY DEF Vocabulary
<1>3. /\ editor' \in Editors /\ editor'.cursor =< Len(editor'.content) /\ editor'.newline = -1
      /\ editor'.index = editor.index /\ editor'.outcome = "editing"
  BY <1>1, <1>2, InsertedFacts
<1>4. Meant'
  BY <1>1, <1>3 DEF Meant, WithoutNewline
<1>5. intended' \in SUBSET Texts
  BY <1>1, <1>3 DEF Editors
<1>6. QED  BY <1>1, <1>3, <1>4, <1>5, EditKeeps DEF ReplTypes

LEMMA EnterKeeps ==
  ASSUME ReplInv, UNCHANGED repl, Enter
  PROVE  ReplInv'
<1> DEFINE typed == Inserted(editor, Newline)
<1>1. /\ editor.outcome = "editing" /\ ReplTypes
      /\ editor' = [typed EXCEPT !.newline = editor.cursor, !.requested = TRUE]
      /\ intended' = {editor.content} /\ delimiter' = editor.cursor /\ UNCHANGED history
  BY DEF Enter, Press, ReplInv
<1>2. Newline \in Vocabulary /\ editor.cursor \in Nat
  BY <1>1 DEF Vocabulary, ReplTypes, Editors
<1>3. /\ typed \in Editors /\ typed.cursor = editor.cursor + 1 /\ typed.cursor =< Len(typed.content)
      /\ typed.index = editor.index /\ typed.outcome = "editing"
      /\ RemoveAt(typed.content, editor.cursor + 1) = editor.content
      /\ typed.content[editor.cursor + 1] = Newline
  BY <1>1, <1>2, InsertedFacts
<1> HIDE DEF typed
<1>4. /\ editor' \in Editors /\ editor'.content = typed.content /\ editor'.cursor = typed.cursor
      /\ editor'.newline = editor.cursor /\ editor'.index = typed.index /\ editor'.outcome = "editing"
  BY <1>1, <1>2, <1>3 DEF Editors
<1>5. Len(typed.content) \in Nat
  BY <1>3, LenProperties DEF Editors, Texts
<1>6. editor.cursor >= 0 /\ editor.cursor < Len(typed.content)
  BY <1>2, <1>3, <1>5
<1>7. WithoutNewline(editor') = editor.content
  BY <1>3, <1>4, <1>6 DEF WithoutNewline
<1>8. Meant'
  BY <1>1, <1>4, <1>7 DEF Meant
<1>9. intended' \in SUBSET Texts
  BY <1>1 DEF ReplTypes, Editors
<1>10. QED  BY <1>1, <1>3, <1>4, <1>8, <1>9, EditKeeps DEF ReplTypes

LEMMA BackspaceKeeps ==
  ASSUME ReplInv, UNCHANGED repl, Backspace
  PROVE  ReplInv'
<1> DEFINE shorter == RemoveAt(editor.content, editor.cursor)
           mid == [editor EXCEPT !.content = shorter, !.cursor = editor.cursor - 1]
<1>1. /\ editor.outcome = "editing" /\ ReplTypes /\ editor.cursor > 0
      /\ editor' = OnChange(mid)
      /\ intended' = {editor'.content} /\ delimiter' = -1 /\ UNCHANGED history
  BY DEF Backspace, Press, ReplInv
<1>2. editor \in Editors /\ editor.content \in Texts /\ editor.cursor \in 1 .. Len(editor.content)
      /\ Len(editor.content) \in Nat
  <2>1. editor \in Editors /\ editor.cursor =< Len(editor.content)
    BY <1>1 DEF ReplTypes
  <2>2. editor.content \in Texts /\ editor.cursor \in Nat
    BY <2>1 DEF Editors
  <2>3. Len(editor.content) \in Nat
    BY <2>2, LenProperties DEF Texts
  <2>4. QED  BY <1>1, <2>1, <2>2, <2>3
<1>3. shorter \in Texts /\ Len(shorter) = Len(editor.content) - 1
  BY <1>2, Removed DEF Texts
<1> HIDE DEF shorter
<1>4. /\ mid \in Editors /\ mid.content = shorter /\ mid.cursor = editor.cursor - 1
      /\ mid.index = editor.index /\ mid.outcome = "editing"
  <2> DEFINE at == editor.cursor - 1
  <2>1. at \in Nat /\ shorter \in Texts /\ editor \in Editors
    BY <1>2, <1>3
  <2>2. mid = [editor EXCEPT !.content = shorter, !.cursor = at]
    OBVIOUS
  <2> HIDE DEF mid, at
  <2>3. mid \in Editors /\ mid.content = shorter /\ mid.cursor = at /\ mid.index = editor.index
        /\ mid.outcome = editor.outcome
    BY <2>1, <2>2 DEF Editors, Texts
  <2>4. QED  BY <1>1, <2>3 DEF at
<1> HIDE DEF mid
<1>5. /\ editor' \in Editors /\ editor'.content = mid.content /\ editor'.cursor = mid.cursor
      /\ editor'.newline = -1 /\ editor'.index = mid.index /\ editor'.outcome = mid.outcome
  BY <1>1, <1>4 DEF OnChange, Editors
<1>6. editor.cursor - 1 =< Len(shorter)
  BY <1>2, <1>3
<1>7. Meant'
  BY <1>1, <1>4, <1>5 DEF Meant, WithoutNewline
<1>8. intended' \in SUBSET Texts
  BY <1>1, <1>5 DEF Editors
<1>9. QED  BY <1>1, <1>4, <1>5, <1>6, <1>7, <1>8, EditKeeps DEF ReplTypes

LEMMA MoveCursorKeeps ==
  ASSUME ReplInv, UNCHANGED repl, Move
  PROVE  ReplInv'
<1>1. PICK c \in 0 .. Len(editor.content) : editor' = [editor EXCEPT !.cursor = c]
  BY DEF Move
<1>2. ReplTypes /\ Meant /\ UNCHANGED <<history, intended, delimiter>> /\ editor \in Editors
  BY DEF Move, ReplInv, ReplTypes
<1>3. Len(editor.content) \in Nat
  BY <1>2, LenProperties DEF Editors, Texts
<1>4. /\ editor' \in Editors /\ editor'.content = editor.content /\ editor'.cursor = c
      /\ editor'.newline = editor.newline /\ editor'.index = editor.index
      /\ editor'.outcome = editor.outcome
  BY <1>1, <1>2, <1>3 DEF Editors
<1>5. Meant'
  BY <1>2, <1>4 DEF Meant, WithoutNewline
<1>6. QED  BY <1>2, <1>3, <1>4, <1>5, EditKeeps DEF ReplTypes

(* A key that replaces the content.                                        *)
LEMMA ReplaceKeeps ==
  ASSUME ReplInv, UNCHANGED repl, NEW e \in Editors, NEW content, Replace(e, content),
         e.content = content, e.newline = editor.newline, e.outcome = "editing",
         e.index =< Len(history), e.cursor =< Len(e.content)
  PROVE  ReplInv'
<1> DEFINE at == {j \in DOMAIN content : j = delimiter + 1 /\ content[j] = Newline}
<1>1. /\ editor' = e /\ UNCHANGED <<history, delimiter>> /\ e.newline = delimiter
      /\ intended' = {content} \union {RemoveAt(content, i) : i \in at}
  BY DEF Replace, ReplInv, Meant
<1>2. content \in Texts /\ DOMAIN content = 1 .. Len(content) /\ Len(content) \in Nat
      /\ delimiter \in Nat \union {-1}
  BY <1>1, LenProperties DEF Editors, Texts
<1>3. WithoutNewline(e) \in {content} \union {RemoveAt(content, i) : i \in at}
  <2>1. CASE e.newline >= 0 /\ e.newline < Len(e.content) /\ e.content[e.newline + 1] = Newline
    <3>1. delimiter + 1 \in at
      BY <1>1, <1>2, <2>1
    <3>2. WithoutNewline(e) = RemoveAt(content, delimiter + 1)
      BY <1>1, <2>1 DEF WithoutNewline
    <3> HIDE DEF at
    <3>3. QED  BY <3>1, <3>2
  <2>2. CASE ~(e.newline >= 0 /\ e.newline < Len(e.content) /\ e.content[e.newline + 1] = Newline)
    BY <2>2 DEF WithoutNewline
  <2>3. QED  BY <2>1, <2>2
<1>4. intended' \in SUBSET Texts
  <2>1. \A i \in at : i \in 1 .. Len(content)
    BY <1>2
  <2> HIDE DEF at
  <2>2. \A i \in at : RemoveAt(content, i) \in Texts
    BY <1>2, <2>1, Removed DEF Texts
  <2>3. QED  BY <1>1, <1>2, <2>2
<1> HIDE DEF at
<1>5. Meant'
  BY <1>1, <1>3 DEF Meant
<1>6. QED  BY <1>1, <1>4, <1>5, EditKeeps

LEMMA ShownFacts ==
  ASSUME NEW e \in Editors, NEW content \in Texts, NEW s, s = Shown(e, content)
  PROVE  /\ s \in Editors /\ s.content = content /\ s.cursor = Len(s.content)
         /\ s.index = e.index /\ Len(content) \in Nat
         /\ s.newline = e.newline /\ s.outcome = e.outcome
<1>1. Len(content) \in Nat
  BY LenProperties DEF Texts
<1>2. QED  BY <1>1 DEF Shown, Editors

LEMMA SelectHistoryKeeps ==
  ASSUME ReplInv, UNCHANGED repl, NEW older \in BOOLEAN, SelectHistory(older)
  PROVE  ReplInv'
<1> DEFINE draft == IF editor.index = Len(history) THEN editor.content ELSE editor.draft
           index == IF older THEN (IF editor.index > 0 THEN editor.index - 1 ELSE 0)
                    ELSE (IF editor.index < Len(history) THEN editor.index + 1 ELSE editor.index)
           content == IF index = Len(history) THEN draft ELSE history[index + 1]
           shown == Shown(editor, content)
           e == [shown EXCEPT !.draft = draft, !.index = index]
<1>1. editor \in Editors /\ history \in Seq(Texts) /\ editor.index =< Len(history)
      /\ editor.outcome = "editing"
  BY DEF ReplInv, ReplTypes, SelectHistory, Press
<1>2. draft \in Texts /\ editor.index \in Nat /\ Len(history) \in Nat
  BY <1>1, LenProperties DEF Editors
<1>3. index \in Nat /\ index =< Len(history)
  BY <1>1, <1>2
<1> HIDE DEF draft, index
<1>4. content \in Texts
  <2>1. index # Len(history) => index + 1 \in 1 .. Len(history)
    BY <1>2, <1>3
  <2>2. QED  BY <1>1, <1>2, <2>1, ElementOfSeq
<1> HIDE DEF content
<1>5. shown \in Editors /\ shown.content = content /\ shown.cursor = Len(shown.content)
      /\ Len(content) \in Nat /\ shown.newline = editor.newline /\ shown.outcome = "editing"
  BY <1>1, <1>4, ShownFacts
<1>6. Replace(e, content)
  BY DEF SelectHistory, draft, index, content
<1> HIDE DEF shown
<1>7. e \in Editors /\ e.index = index /\ e.cursor = shown.cursor /\ e.content = shown.content
      /\ e.newline = shown.newline /\ e.outcome = shown.outcome
  <2>1. index \in Nat /\ draft \in Texts /\ shown \in Editors
    BY <1>2, <1>3, <1>5
  <2>2. QED  BY <2>1 DEF Editors
<1> HIDE DEF e
<1>8. e.index =< Len(history) /\ e.cursor =< Len(e.content)
  BY <1>3, <1>5, <1>7
<1>9. QED  BY <1>5, <1>6, <1>7, <1>8, ReplaceKeeps

LEMMA SearchKeeps ==
  ASSUME ReplInv, UNCHANGED repl, Search
  PROVE  ReplInv'
<1>1. PICK i \in 1 .. editor.index :
          Replace([Shown(editor, history[i]) EXCEPT !.index = i - 1], history[i])
  BY DEF Search
<1> DEFINE entry == history[i]
           shown == Shown(editor, entry)
           e == [shown EXCEPT !.index = i - 1]
<1>2. editor \in Editors /\ history \in Seq(Texts) /\ editor.index =< Len(history)
      /\ editor.index \in Nat /\ Len(history) \in Nat /\ editor.outcome = "editing"
  BY LenProperties DEF ReplInv, ReplTypes, Editors, Search, Press
<1>3. i \in 1 .. Len(history) /\ i - 1 \in Nat /\ i - 1 =< Len(history)
  BY <1>2
<1>4. entry \in Texts
  BY <1>2, <1>3, ElementOfSeq
<1>5. Replace(e, entry)
  BY <1>1
<1> HIDE DEF entry
<1>6. shown \in Editors /\ shown.content = entry /\ shown.cursor = Len(shown.content)
      /\ Len(entry) \in Nat /\ shown.newline = editor.newline /\ shown.outcome = "editing"
  <2>1. editor \in Editors /\ editor.outcome = "editing"
    BY <1>2
  <2>2. shown = Shown(editor, entry)
    OBVIOUS
  <2> HIDE DEF shown
  <2>3. QED  BY <1>4, <2>1, <2>2, ShownFacts
<1> HIDE DEF shown
<1>7. e \in Editors /\ e.index = i - 1 /\ e.cursor = shown.cursor /\ e.content = shown.content
      /\ e.newline = shown.newline /\ e.outcome = shown.outcome
  <2>1. i - 1 \in Nat /\ shown \in Editors
    BY <1>3, <1>6
  <2>2. QED  BY <2>1 DEF Editors
<1> HIDE DEF e
<1>8. e.index =< Len(history) /\ e.cursor =< Len(e.content)
  BY <1>3, <1>6, <1>7
<1>9. QED  BY <1>5, <1>6, <1>7, <1>8, ReplaceKeeps

LEMMA EraseKeeps ==
  ASSUME ReplInv, UNCHANGED repl, Erase
  PROVE  ReplInv'
<1>1. PICK first \in 1 .. Len(editor.content), last \in 1 .. Len(editor.content) :
          LET content == SubSeq(editor.content, 1, first - 1)
                           \o SubSeq(editor.content, last + 1, Len(editor.content))
          IN  Replace([editor EXCEPT !.content = content, !.cursor = first - 1], content)
  BY DEF Erase
<1> DEFINE content == SubSeq(editor.content, 1, first - 1)
                        \o SubSeq(editor.content, last + 1, Len(editor.content))
           e == [editor EXCEPT !.content = content, !.cursor = first - 1]
<1>2. editor \in Editors /\ editor.content \in Texts /\ Len(editor.content) \in Nat
      /\ editor.index =< Len(history) /\ editor.outcome = "editing"
  BY LenProperties DEF ReplInv, ReplTypes, Editors, Texts, Erase, Press
<1>3. content \in Texts /\ Len(content) = (first - 1) + (Len(editor.content) - last)
  BY <1>2, Cut DEF Texts
<1>4. Replace(e, content)
  BY <1>1
<1> HIDE DEF content
<1>5. e \in Editors /\ e.content = content /\ e.cursor = first - 1 /\ e.index = editor.index
      /\ e.newline = editor.newline /\ e.outcome = editor.outcome
  <2> DEFINE at == first - 1
  <2>1. at \in Nat /\ content \in Texts /\ editor \in Editors
    BY <1>2, <1>3
  <2>2. e = [editor EXCEPT !.content = content, !.cursor = at]
    OBVIOUS
  <2> HIDE DEF e, at
  <2>3. e \in Editors /\ e.content = content /\ e.cursor = at /\ e.index = editor.index
        /\ e.newline = editor.newline /\ e.outcome = editor.outcome
    BY <2>1, <2>2 DEF Editors, Texts
  <2>4. QED  BY <2>3 DEF at
<1>6. first - 1 =< Len(content)
  BY <1>2, <1>3
<1> HIDE DEF e
<1>7. QED  BY <1>2, <1>4, <1>5, <1>6, ReplaceKeeps

(* A command of the table is a text.                                       *)
LEMMA Commanding ==
  /\ <<":", "help">> \in Texts /\ <<":", "history">> \in Texts /\ <<":", "reset">> \in Texts
  /\ <<":", "cancel">> \in Texts /\ <<":", "clear">> \in Texts /\ <<":", "quit">> \in Texts
  /\ \A i \in DOMAIN CommandTable : CommandTable[i] \in Texts
<1>1. ASSUME NEW a \in Vocabulary, NEW b \in Vocabulary PROVE <<a, b>> \in Texts
  BY DEF Texts
<1> DEFINE colon == ":"
           help == "help"
           past == "history"
           reset == "reset"
           cancel == "cancel"
           clear == "clear"
           quit == "quit"
<1>2. colon \in Vocabulary /\ help \in Vocabulary /\ past \in Vocabulary /\ reset \in Vocabulary
      /\ cancel \in Vocabulary /\ clear \in Vocabulary /\ quit \in Vocabulary
  BY DEF Vocabulary
<1> HIDE DEF colon, help, past, reset, cancel, clear, quit
<1>3. <<colon, help>> \in Texts /\ <<colon, past>> \in Texts /\ <<colon, reset>> \in Texts
      /\ <<colon, cancel>> \in Texts /\ <<colon, clear>> \in Texts /\ <<colon, quit>> \in Texts
  BY <1>1, <1>2
<1> DEFINE a == <<colon, help>>
           b == <<colon, past>>
           c == <<colon, reset>>
           d == <<colon, cancel>>
           e == <<colon, clear>>
           f == <<colon, quit>>
<1>4. CommandTable = <<a, b, c, d, e, f>>
  BY DEF CommandTable, colon, help, past, reset, cancel, clear, quit
<1>5. a \in Texts /\ b \in Texts /\ c \in Texts /\ d \in Texts /\ e \in Texts /\ f \in Texts
  BY <1>3
<1> HIDE DEF a, b, c, d, e, f
<1>6. \A i \in DOMAIN CommandTable : CommandTable[i] \in Texts
  <2>1. <<a, b, c, d, e, f>> \in Seq(Texts)
    BY <1>5
  <2>2. QED  BY <1>4, <2>1
<1>7. QED  BY <1>3, <1>6 DEF colon, help, past, reset, cancel, clear, quit

LEMMA CompleteKeeps ==
  ASSUME ReplInv, UNCHANGED repl, Complete(CommandTable)
  PROVE  ReplInv'
<1>1. PICK i \in DOMAIN CommandTable : Replace(Shown(editor, CommandTable[i]), CommandTable[i])
  BY DEF Complete
<1> DEFINE text == CommandTable[i]
           e == Shown(editor, text)
<1>2. editor \in Editors /\ editor.index =< Len(history) /\ text \in Texts
      /\ editor.outcome = "editing"
  BY Commanding DEF ReplInv, ReplTypes, Complete, Press
<1>3. Replace(e, text)
  BY <1>1
<1> HIDE DEF text
<1>4. e \in Editors /\ e.index = editor.index /\ e.content = text /\ e.cursor = Len(e.content)
      /\ Len(text) \in Nat /\ e.newline = editor.newline /\ e.outcome = "editing"
  BY <1>2, ShownFacts
<1> HIDE DEF e
<1>5. e.cursor =< Len(e.content)
  BY <1>4
<1>6. QED  BY <1>2, <1>3, <1>4, <1>5, ReplaceKeeps

LEMMA LeaveKeeps ==
  ASSUME ReplInv, UNCHANGED repl, NEW o \in {"end", "cancel", "help", "clear"}, Leave(o)
  PROVE  ReplInv'
<1>1. editor' = [editor EXCEPT !.outcome = o] /\ UNCHANGED <<history, intended, delimiter>>
      /\ editor \in Editors
  BY DEF Leave, ReplInv, ReplTypes
<1>2. editor' \in Editors /\ editor'.index = editor.index /\ editor'.outcome = o
      /\ editor'.newline = editor.newline
  BY <1>1 DEF Editors
<1>3. Meant'
  BY <1>1, <1>2 DEF Meant, ReplInv
<1>4. QED  BY <1>1, <1>2, <1>3, EditKeeps DEF ReplInv, ReplTypes

LEMMA WorkerKeeps ==
  ASSUME ReplInv, UNCHANGED repl, Quiet \/ Post \/ Submit
  PROVE  ReplInv'
<1>1. editor.outcome = "editing" /\ UNCHANGED <<history, intended, delimiter>> /\ editor \in Editors
      /\ Meant /\ ReplTypes
  BY DEF Quiet, Post, Submit, ReplInv, ReplTypes
<1>2. CASE Submit /\ editor.quiet
  <2> DEFINE text == WithoutNewline(editor)
  <2>1. editor' = [editor EXCEPT !.content = text, !.outcome = "accepted"]
    BY <1>2 DEF Submit
  <2>2. text \in Texts
    <3>1. editor.content \in Texts /\ editor.newline \in Nat \union {-1} /\ Len(editor.content) \in Nat
      BY <1>1, LenProperties DEF Editors, Texts
    <3>2. CASE editor.newline >= 0 /\ editor.newline < Len(editor.content)
      <4>1. editor.newline + 1 \in 1 .. Len(editor.content)
        BY <3>1, <3>2
      <4>2. RemoveAt(editor.content, editor.newline + 1) \in Texts
        BY <3>1, <4>1, Removed DEF Texts
      <4>3. QED  BY <3>1, <4>2 DEF WithoutNewline
    <3>3. CASE ~(editor.newline >= 0 /\ editor.newline < Len(editor.content))
      BY <3>1, <3>3 DEF WithoutNewline
    <3>4. QED  BY <3>2, <3>3
  <2>3. text \in intended
    BY <1>1 DEF Meant
  <2> HIDE DEF text
  <2>4. editor' \in Editors /\ editor'.content = text /\ editor'.outcome = "accepted"
        /\ editor'.index = editor.index /\ editor'.newline = editor.newline
    BY <1>1, <2>1, <2>2 DEF Editors
  <2>5. Meant'
    BY <1>1, <2>3, <2>4 DEF Meant
  <2>6. QED  BY <1>1, <2>4, <2>5, EditKeeps DEF ReplTypes
<1>3. CASE ~(Submit /\ editor.quiet)
  <2>1. \/ editor' = [editor EXCEPT !.quiet = TRUE]
        \/ editor' = [editor EXCEPT !.scheduled = TRUE]
        \/ editor' = [editor EXCEPT !.scheduled = FALSE]
    BY <1>3 DEF Quiet, Post, Submit
  <2>2. /\ editor' \in Editors /\ editor'.content = editor.content /\ editor'.cursor = editor.cursor
        /\ editor'.newline = editor.newline /\ editor'.index = editor.index
        /\ editor'.outcome = editor.outcome
    BY <1>1, <2>1 DEF Editors
  <2>3. Meant'
    BY <1>1, <2>2 DEF Meant, WithoutNewline
  <2>4. QED  BY <1>1, <2>2, <2>3, EditKeeps DEF ReplTypes
<1>4. QED  BY <1>2, <1>3

LEMMA Remembering ==
  ASSUME ReplTypes, NEW line \in Texts
  PROVE  Remember(line) \in Seq(Texts)
<1>1. history \in Seq(Texts)
  BY DEF ReplTypes
<1>2. Append(history, line) \in Seq(Texts)
  BY <1>1, AppendProperties
<1>3. QED  BY <1>1, <1>2 DEF Remember

(* What is collected is what was typed, or that with a semicolon.          *)
LEMMA Collecting ==
  ASSUME NEW p \in Texts, NEW l \in Texts, NEW typed, typed = (p \o l) \o <<Newline>>
  PROVE  /\ Collected(p, l) \in Texts /\ typed \in Texts
         /\ Collected(p, l) = typed \/ Collected(p, l) = Front(typed) \o <<Semicolon, Newline>>
         /\ Incomplete(Collected(p, l)) => Collected(p, l) = typed
<1> DEFINE t == p \o l
           completed == t \o <<Semicolon, Newline>>
<1>1. t \in Texts /\ Newline \in Vocabulary /\ Semicolon \in Vocabulary
  BY ConcatProperties DEF Texts, Vocabulary
<1>2. Collected(p, l) = IF Incomplete(typed) /\ ~Incomplete(completed) THEN completed ELSE typed
  BY DEF Collected
<1>3. typed = t \o <<Newline>>
  OBVIOUS
<1> HIDE DEF t
<1>4. typed \in Texts /\ Front(typed) = t
  BY <1>1, <1>3, Ended DEF Texts
<1>5. completed \in Texts
  <2> DEFINE two == <<Semicolon, Newline>>
  <2>1. two \in Texts
    BY <1>1 DEF Texts
  <2> HIDE DEF two
  <2>2. t \o two \in Texts
    BY <1>1, <2>1, ConcatProperties DEF Texts
  <2>3. QED  BY <2>2 DEF two
<1> HIDE DEF completed
<1>6. QED  BY <1>2, <1>4, <1>5 DEF completed

LEMMA EvaluateKeeps ==
  ASSUME ReplInv, NEW line \in Texts, NEW meant \in SUBSET Texts, Evaluate(line, meant), Reopen,
         line \in meant \/ line \in Informative \union {<<":", "cancel">>}
  PROVE  ReplInv'
<1>1. ReplTypes /\ repl \in Loops /\ repl.pending \in repl.entered /\ RunAsTyped
      /\ history' = Remember(line)
  BY DEF ReplInv, ReplTypes, Evaluate
<1>2. history' \in Seq(Texts) /\ Len(history') \in Nat
  BY <1>1, Remembering, LenProperties
<1>3. /\ editor' \in Editors /\ editor'.content = <<>> /\ editor'.cursor = 0
      /\ editor'.index = Len(history') /\ editor'.outcome = "editing" /\ editor'.newline = -1
      /\ intended' = {<<>>} /\ delimiter' = -1 /\ <<>> \in Texts
  <2>1. <<>> \in Texts
    BY EmptySeq DEF Texts
  <2>2. editor' = Fresh(history') /\ intended' = {<<>>} /\ delimiter' = -1
    BY DEF Reopen
  <2> DEFINE n == Len(history')
  <2>3. editor' = [content |-> <<>>, cursor |-> 0, draft |-> <<>>, index |-> n,
                   requested |-> FALSE, scheduled |-> FALSE, newline |-> -1, quiet |-> TRUE,
                   outcome |-> "editing"]
    BY <2>2 DEF Fresh
  <2>4. n \in Nat
    BY <1>2
  <2> HIDE DEF n
  <2>5. /\ editor' \in Editors /\ editor'.content = <<>> /\ editor'.cursor = 0
        /\ editor'.index = n /\ editor'.outcome = "editing" /\ editor'.newline = -1
    BY <2>1, <2>3, <2>4 DEF Editors
  <2>6. QED  BY <2>1, <2>2, <2>5 DEF n
<1>4. Meant' /\ editor'.cursor =< Len(editor'.content)
  BY <1>3, EmptySeq DEF Meant, WithoutNewline
<1>5. ASSUME repl' \in Loops, repl'.pending \in repl'.entered, RunAsTyped'
      PROVE  ReplInv'
  <2>1. ReplTypes'
    <3>1. editor'.index =< Len(history')
      BY <1>2, <1>3
    <3>2. intended' \in SUBSET Texts
      BY <1>3
    <3>3. QED  BY <1>2, <1>3, <1>4, <1>5, <3>1, <3>2 DEF ReplTypes
  <2>2. QED  BY <1>4, <1>5, <2>1 DEF ReplInv
<1> DEFINE pending == Collected(repl.pending, line)
           Both(e, m) == (e \o m) \o <<Newline>>
           entered == {Both(e, m) : e \in repl.entered, m \in meant}
           empty == {<<>>}
<1>6. \/ repl' = [repl EXCEPT !.open = FALSE]
      \/ repl' = repl
      \/ repl' = [repl EXCEPT !.pending = <<>>, !.entered = empty]
      \/ repl' = [repl EXCEPT !.session = 3 - repl.session]
      \/ /\ line \in meant
         /\ repl' = IF Incomplete(pending)
                    THEN [repl EXCEPT !.pending = pending, !.entered = entered]
                    ELSE [repl EXCEPT !.pending = <<>>, !.entered = empty,
                                      !.ran = [source |-> pending, of |-> entered]]
  BY DEF Evaluate
<1>7. <<>> \in Texts /\ empty \in SUBSET Texts /\ <<>> \in empty
  BY <1>3
<1> HIDE DEF empty
<1>8. CASE repl' = [repl EXCEPT !.open = FALSE] \/ repl' = repl
           \/ repl' = [repl EXCEPT !.session = 3 - repl.session]
  <2>1. 3 - repl.session \in Int
    BY <1>1 DEF Loops
  <2>2. /\ repl' \in Loops /\ repl'.pending = repl.pending /\ repl'.entered = repl.entered
        /\ repl'.ran = repl.ran
    BY <1>1, <1>8, <2>1 DEF Loops
  <2>3. QED  BY <1>1, <1>5, <2>2 DEF RunAsTyped
<1>9. CASE repl' = [repl EXCEPT !.pending = <<>>, !.entered = empty]
  <2>1. repl' \in Loops /\ repl'.pending = <<>> /\ repl'.entered = empty /\ repl'.ran = repl.ran
    BY <1>1, <1>7, <1>9 DEF Loops
  <2>2. QED  BY <1>1, <1>5, <1>7, <2>1 DEF RunAsTyped
<1>10. CASE /\ line \in meant
            /\ repl' = IF Incomplete(pending)
                       THEN [repl EXCEPT !.pending = pending, !.entered = entered]
                       ELSE [repl EXCEPT !.pending = <<>>, !.entered = empty,
                                         !.ran = [source |-> pending, of |-> entered]]
  <2> DEFINE typed == Both(repl.pending, line)
  <2>1. repl.pending \in Texts /\ repl.entered \in SUBSET Texts
    BY <1>1 DEF Loops
  <2>2. typed \in entered
    <3> HIDE DEF Both
    <3>1. QED  BY <1>1, <1>10
  <2>3. entered \in SUBSET Texts
    <3>1. ASSUME NEW e \in repl.entered, NEW m \in meant
          PROVE  Both(e, m) \in Texts
      <4>1. e \in Texts /\ m \in Texts
        BY <2>1
      <4>2. QED  BY <4>1, Collecting
    <3> HIDE DEF Both
    <3>2. QED  BY <3>1
  <2>4. /\ pending \in Texts
        /\ pending = typed \/ pending = Front(typed) \o <<Semicolon, Newline>>
        /\ Incomplete(pending) => pending = typed
    BY <2>1, Collecting
  <2> HIDE DEF pending, entered, typed
  <2>5. CASE Incomplete(pending)
    <3>1. repl' = [repl EXCEPT !.pending = pending, !.entered = entered]
      BY <1>10, <2>5
    <3>2. repl' \in Loops /\ repl'.pending = pending /\ repl'.entered = entered /\ repl'.ran = repl.ran
      BY <1>1, <2>3, <2>4, <3>1 DEF Loops
    <3>3. RunAsTyped'
      BY <1>1, <3>2 DEF RunAsTyped
    <3>4. QED  BY <1>5, <2>2, <2>4, <2>5, <3>2, <3>3
  <2>6. CASE ~Incomplete(pending)
    <3>1. repl' = [repl EXCEPT !.pending = <<>>, !.entered = empty,
                               !.ran = [source |-> pending, of |-> entered]]
      BY <1>10, <2>6
    <3>2. /\ repl' \in Loops /\ repl'.pending = <<>> /\ repl'.entered = empty
          /\ repl'.ran.source = pending /\ repl'.ran.of = entered
      BY <1>1, <1>7, <2>3, <2>4, <3>1 DEF Loops
    <3>3. RunAsTyped'
      BY <2>2, <2>4, <3>2 DEF RunAsTyped
    <3>4. QED  BY <1>5, <1>7, <3>2, <3>3
  <2>7. QED  BY <2>5, <2>6
<1>11. QED  BY <1>6, <1>8, <1>9, <1>10

LEMMA EditedKeeps ==
  ASSUME ReplInv, Edited
  PROVE  ReplInv'
<1> DEFINE line == Line
           meant == IF editor.outcome = "accepted" THEN intended ELSE {line}
<1>1. Evaluate(line, meant) /\ Reopen /\ editor.outcome \notin {"editing", "end"} /\ ReplTypes /\ Meant
  BY DEF Edited, ReplInv
<1>2. editor \in Editors /\ intended \in SUBSET Texts
  BY <1>1 DEF ReplTypes
<1>3. CASE editor.outcome = "accepted"
  <2>1. line = editor.content /\ meant = intended /\ line \in meant
    BY <1>1, <1>3 DEF Line, Meant
  <2>2. line \in Texts /\ meant \in SUBSET Texts
    BY <1>2, <2>1 DEF Editors
  <2> HIDE DEF line, meant
  <2>3. QED  BY <1>1, <2>1, <2>2, EvaluateKeeps
<1>4. CASE editor.outcome # "accepted"
  <2>1. editor.outcome \in {"cancel", "help", "clear"}
    BY <1>1, <1>2, <1>4 DEF Editors
  <2>2. line \in {<<":", "cancel">>, <<":", "help">>, <<":", "clear">>}
    BY <2>1 DEF Line
  <2>3. line \in Texts /\ line \in Informative \union {<<":", "cancel">>}
    BY <2>2, Commanding DEF Informative
  <2> HIDE DEF line
  <2>4. meant \in SUBSET Texts
    BY <1>4, <2>3
  <2> HIDE DEF meant
  <2>5. QED  BY <1>1, <2>3, <2>4, EvaluateKeeps
<1>5. QED  BY <1>3, <1>4

LEMMA ReplKeeps == ReplInv /\ [ReplNext]_replVars => ReplInv'
<1> SUFFICES ASSUME ReplInv, [ReplNext]_replVars PROVE ReplInv'
  OBVIOUS
<1>1. CASE UNCHANGED replVars
  BY <1>1 DEF replVars, editorVars, ReplInv, ReplTypes, Meant, WithoutNewline, RunAsTyped
<1>2. ASSUME UNCHANGED repl, Key PROVE ReplInv'
  BY <1>2, TypeKeeps, EnterKeeps, BackspaceKeeps, MoveCursorKeeps, SelectHistoryKeeps, SearchKeeps,
     EraseKeeps, CompleteKeeps, LeaveKeeps DEF Key
<1>3. CASE Edited
  BY <1>3, EditedKeeps
<1>4. CASE EndOfInput
  <2>1. repl' = [repl EXCEPT !.open = FALSE] /\ UNCHANGED editorVars
    BY <1>4 DEF EndOfInput
  <2>2. repl \in Loops /\ repl.pending \in repl.entered
    BY DEF ReplInv, ReplTypes
  <2>3. repl' \in Loops /\ repl'.pending \in repl'.entered /\ repl'.ran = repl.ran
    BY <2>1, <2>2 DEF Loops
  <2>4. QED
    BY <2>1, <2>3 DEF editorVars, ReplInv, ReplTypes, Meant, WithoutNewline, RunAsTyped
<1>5. CASE ReadLine
  <2>1. PICK line \in InputLines : Evaluate(line, {line})
    BY <1>5 DEF ReadLine
  <2>2. line \in Texts
    <3> DEFINE range == {line[i] : i \in DOMAIN line}
    <3>1. line \in Seq(range) /\ range \subseteq Vocabulary
      BY InputAssumption DEF Vocabulary
    <3> HIDE DEF range
    <3>2. QED  BY <3>1, SeqMonotonic DEF Texts
  <2>3. Reopen
    BY <1>5 DEF ReadLine
  <2>4. {line} \in SUBSET Texts /\ line \in {line}
    BY <2>2
  <2>5. QED  BY <2>1, <2>2, <2>3, <2>4, EvaluateKeeps
<1>6. CASE repl.open /\ repl.interactive /\ (Key \/ Quiet \/ Post \/ Submit) /\ UNCHANGED repl
  BY <1>2, <1>6, WorkerKeeps
<1>7. QED  BY <1>1, <1>3, <1>4, <1>5, <1>6 DEF ReplNext

LEMMA ReplInitially ==
  ASSUME NEW playing \in BOOLEAN, NEW terminals \in SUBSET BOOLEAN, ReplInit(playing, terminals)
  PROVE  ReplInv
<1>1. /\ history = <<>> /\ editor = Fresh(<<>>) /\ intended = {<<>>} /\ delimiter = -1
      /\ \E i \in terminals :
            repl = [interactive |-> i, pending |-> <<>>, entered |-> {<<>>},
                    ran |-> [source |-> <<>>, of |-> {<<>>}], session |-> 1, open |-> playing]
  BY DEF ReplInit, EditorInit
<1>2. <<>> \in Texts /\ history \in Seq(Texts) /\ Len(<<>>) = 0
  BY <1>1, EmptySeq DEF Texts
<1>3. /\ editor \in Editors /\ editor.content = <<>> /\ editor.cursor = 0
      /\ editor.index = 0 /\ editor.outcome = "editing" /\ editor.newline = -1
  BY <1>1, <1>2 DEF Fresh, Editors
<1>4. /\ repl \in Loops /\ repl.pending = <<>> /\ repl.entered = {<<>>}
      /\ repl.ran.source = <<>> /\ repl.ran.of = {<<>>}
  BY <1>1, <1>2 DEF Loops
<1>5. ReplTypes
  <2>1. editor.cursor =< Len(editor.content) /\ editor.index =< Len(history)
    BY <1>1, <1>2, <1>3
  <2>2. QED  BY <1>1, <1>2, <1>3, <1>4, <2>1 DEF ReplTypes
<1>6. Meant
  BY <1>1, <1>3 DEF Meant, WithoutNewline
<1>7. RunAsTyped
  BY <1>4 DEF RunAsTyped
<1>8. QED  BY <1>4, <1>5, <1>6, <1>7 DEF ReplInv

(***************************************************************************)
(* All of it.                                                              *)
(***************************************************************************)

HostInv == CaptureInv /\ FetchInv /\ NobodyForgotten /\ InstallInv /\ ReplInv

LEMMA HostInitially == Init => HostInv
<1> SUFFICES ASSUME Init PROVE HostInv
  OBVIOUS
<1>1. CaptureInv
  BY CaptureInitially DEF Init
<1>2. FetchInv /\ NobodyForgotten
  BY FetchInitially, BacklogInitially DEF Init
<1>3. InstallInv
  <2>1. PICK flavours \in SUBSET Flavours : InstallInit(flavours)
    <3>1. InstallInit(IF command = "install" THEN Flavours ELSE {"sh"})
      BY DEF Init
    <3>2. (IF command = "install" THEN Flavours ELSE {"sh"}) \in SUBSET Flavours
      BY DEF Flavours
    <3>3. QED  BY <3>1, <3>2
  <2>2. QED  BY <2>1, InstallInitially
<1>4. ReplInv
  <2>1. PICK playing \in BOOLEAN, terminals \in SUBSET BOOLEAN : ReplInit(playing, terminals)
    <3>1. ReplInit(command = "repl", IF command = "repl" THEN BOOLEAN ELSE {TRUE})
      BY DEF Init
    <3>2. (command = "repl") \in BOOLEAN
          /\ (IF command = "repl" THEN BOOLEAN ELSE {TRUE}) \in SUBSET BOOLEAN
      OBVIOUS
    <3>3. QED  BY <3>1, <3>2, Zenon
  <2>2. QED  BY <2>1, ReplInitially
<1>5. QED  BY <1>1, <1>2, <1>3, <1>4 DEF HostInv

(* One command runs: the parts of the others stand still.                  *)
LEMMA HostKeeps == HostInv /\ [Next]_vars => HostInv'
<1> SUFFICES ASSUME HostInv, [Next]_vars PROVE HostInv'
  OBVIOUS
<1>1. /\ CaptureNext \/ UNCHANGED captureVars
      /\ HttpNext \/ UNCHANGED <<httpVars, fetch>>
      /\ InstallNext \/ UNCHANGED installVars
      /\ ReplNext \/ UNCHANGED replVars
  BY DEF Next, vars
<1>2. CaptureInv /\ FetchInv /\ NobodyForgotten /\ InstallInv /\ ReplInv
  BY DEF HostInv
<1>3. CaptureInv'
  BY <1>1, <1>2, CaptureKeeps
<1>4. FetchInv' /\ NobodyForgotten'
  BY <1>1, <1>2, FetchKeeps
<1>5. InstallInv'
  BY <1>1, <1>2, InstallKeeps
<1>6. ReplInv'
  BY <1>1, <1>2, ReplKeeps
<1>7. QED  BY <1>3, <1>4, <1>5, <1>6 DEF HostInv

(* However requests, polls, keys and installer steps come about, the       *)
(* invariants of the four parts hold together.                             *)
THEOREM HostSound == Spec => []HostInv
BY HostInitially, HostKeeps, PTL DEF Spec

(* Process::spawn returns all that the child wrote, whatever its script    *)
(* and however its writes, polls, reads and its end follow on each other.  *)
THEOREM AllIsCaptured == Spec => []CapturedAll
<1>1. HostInv => CapturedAll
  <2> SUFFICES ASSUME HostInv, parent.result \in {"code", "128"}, ~broken PROVE parent.text = wrote
    BY DEF CapturedAll
  <2>1. CaptureTypes /\ Conserved /\ Drained
    BY DEF HostInv, CaptureInv
  <2>2. pipe = Nothing
    BY <2>1 DEF Drained, CaptureTypes
  <2>3. \A s \in Streams : parent.text[s] = wrote[s]
    BY <2>1, <2>2 DEF Conserved, Nothing, CaptureTypes
  <2>4. parent.text \in [Streams -> Nat] /\ wrote \in [Streams -> Nat]
    BY <2>1 DEF CaptureTypes
  <2>5. QED  BY <2>3, <2>4
<1>2. QED  BY <1>1, HostSound, PTL

(* Process::spawn and the child do not end up waiting for each other,      *)
(* whatever is written to which pipe, however small the pipes are.         *)
THEOREM SpawnNeverDeadlocks == Spec => []OneGoes
<1>1. HostInv => OneGoes
  BY NeitherWaits DEF HostInv
<1>2. QED  BY <1>1, HostSound, PTL

(* Each of their steps takes them nearer to the end of the call; what the  *)
(* child has started can hold the pipes open, but not undo that.           *)
THEOREM SpawnComesToAnEnd == Spec => NearerTheEnd
<1>1. HostInv /\ [Next]_vars => [Nearer \/ Inherit \/ Release]_captureVars
  <2>1. [Next]_vars => CaptureNext \/ UNCHANGED captureVars
    BY DEF Next, vars
  <2>2. QED  BY <2>1, CaptureNearer DEF HostInv
<1>2. QED  BY <1>1, HostSound, PTL DEF Spec, NearerTheEnd

(* A call of Http::fetch that succeeds has returned the status and body of *)
(* the routes' answer to its request, or to what the redirects led to, on  *)
(* the connections of its last attempt, and the headers of every answer on *)
(* the way.                                                                *)
THEOREM FetchesAreTruthful == Spec => []FetchTruthful
<1>1. HostInv => FetchTruthful
  BY FetchSound DEF HostInv
<1>2. QED  BY <1>1, HostSound, PTL

(* Every connection without an answer waits in the backlog or is served,   *)
(* whoever connects, hangs up or times out, and none is left when the      *)
(* server stops.                                                           *)
THEOREM NobodyIsForgotten == Spec => []NobodyForgotten
<1>1. HostInv => NobodyForgotten
  BY DEF HostInv
<1>2. QED  BY <1>1, HostSound, PTL

(* No connection is answered a second time, nor reset after its answer,    *)
(* even when a signal ends the server.                                     *)
THEOREM AnswersStand == Spec => AnsweredOnce
<1>1. HostInv /\ [Next]_vars => [SameReplies]_httpVars
  <2>1. [Next]_vars => [HttpNext]_<<httpVars, fetch>>
    BY DEF Next, vars
  <2>2. QED  BY <2>1, FetchKeeps DEF HostInv
<1>2. QED  BY <1>1, HostSound, PTL DEF Spec, AnsweredOnce

(* The prompt has the session run what was meant, whatever keys, pauses,   *)
(* pastes and lines precede; after a key with which the editor sets the    *)
(* text while an Enter waits to be submitted, that is the text shown or    *)
(* the text less the newline where the Enter had put its own.              *)
THEOREM RunsWhatWasTyped == Spec => []RunAsTyped
<1>1. HostInv => RunAsTyped
  BY DEF HostInv, ReplInv
<1>2. QED  BY <1>1, HostSound, PTL

(* However often installs and removals are interrupted and typed again:    *)
(* under install.sh ky is there, and it and kyna are whole; under          *)
(* install.ps1 a ky that is there is whole, and a missing one has its      *)
(* whole copy in ky.previous; after an uninstall that nothing half-done    *)
(* precedes only the files are left whose removal failed.                  *)
THEOREM InstallationsHold == Spec => []InstalledOrGone
<1>1. HostInv => InstalledOrGone
  BY InstallHolds DEF HostInv
<1>2. QED  BY <1>1, HostSound, PTL
=============================================================================
