---------------------------- MODULE ProcessCapture ----------------------------
(***************************************************************************)
(* LocalProcess::spawn: the parent starts a child with its two outputs     *)
(* connected to pipes, reads both through poll until both are closed, and  *)
(* waits for the child.  A pipe holds a few chunks and then blocks its     *)
(* writer; it is closed when the child and everybody the child started and *)
(* left its outputs to are gone.                                           *)
(***************************************************************************)
EXTENDS Naturals, Sequences, FiniteSets

CONSTANTS
    Scripts,    \* what a child may write: sequences over Streams
    Capacity    \* bound: the chunks a pipe holds

Streams == {"out", "err"}

ASSUME ScriptAssumption == Scripts \subseteq Seq(Streams)
ASSUME CapacityAssumption == Capacity \in Nat \ {0}

VARIABLES
    parent, \* [at, ready, open, text, result]: where the parent is, what poll
            \* reported and is not yet handled, the pipes it reads, what it read
    child,  \* [state, todo]: what is left to write
    pipe,   \* pipe[s]: chunks written and not read
    held,   \* somebody else holds the write ends
    wrote,  \* wrote[s]: how many chunks were ever written
    broken  \* whether a signal has ended the reading

captureVars == <<parent, child, pipe, held, wrote, broken>>

Nothing == [s \in Streams |-> 0]

CaptureInit ==
    /\ parent = [at |-> "called", ready |-> <<>>, open |-> {}, text |-> Nothing, result |-> "none"]
    /\ child = [state |-> "none", todo |-> <<>>]
    /\ pipe = Nothing
    /\ held = FALSE
    /\ wrote = Nothing
    /\ broken = FALSE

(* pipe, posix_spawn_file_actions_init or posix_spawn fails: nothing runs. *)
SpawnFails ==
    /\ parent.at = "called"
    /\ parent' = [parent EXCEPT !.at = "done", !.result = "failedToStart"]
    /\ UNCHANGED <<child, pipe, held, wrote, broken>>

(* Without captureOutput the child writes elsewhere and is only waited for.*)
Spawn(script, capture) ==
    /\ parent.at = "called"
    /\ parent' = [parent EXCEPT !.at = IF capture THEN "poll" ELSE "wait",
                                !.open = IF capture THEN Streams ELSE {}]
    /\ child' = [state |-> "runs", todo |-> IF capture THEN script ELSE <<>>]
    /\ UNCHANGED <<pipe, held, wrote, broken>>

NoWriter == child.state # "runs" /\ ~held
Reading == parent.at \in {"poll", "handle"}

(* A write to a pipe nobody reads kills the child with SIGPIPE.            *)
ChildWrites ==
    /\ child.state = "runs" /\ child.todo # <<>>
    /\ LET s == Head(child.todo) IN
       IF Reading
       THEN /\ pipe[s] < Capacity
            /\ pipe' = [pipe EXCEPT ![s] = @ + 1]
            /\ wrote' = [wrote EXCEPT ![s] = @ + 1]
            /\ child' = [child EXCEPT !.todo = Tail(@)]
       ELSE /\ child' = [child EXCEPT !.state = "killed"]
            /\ UNCHANGED <<pipe, wrote>>
    /\ UNCHANGED <<parent, held, broken>>

(* The child exits when it has written all, or is killed before.           *)
ChildEnds(how) ==
    /\ child.state = "runs"
    /\ (how = "exited") => (child.todo = <<>>)
    /\ child' = [child EXCEPT !.state = how]
    /\ UNCHANGED <<parent, pipe, held, wrote, broken>>

(* The child starts a process that inherits its outputs; the latter ends   *)
(* when it likes.                                                          *)
Inherit == child.state = "runs" /\ ~held /\ held' = TRUE /\ UNCHANGED <<parent, child, pipe, wrote, broken>>
Release == held /\ held' = FALSE /\ UNCHANGED <<parent, child, pipe, wrote, broken>>

(* What poll reports of a pipe: data, no writer, or both.                  *)
Events(s) == [stream |-> s, data |-> pipe[s] > 0, hangup |-> NoWriter]
Reported(s) == Events(s).data \/ Events(s).hangup

(* Mutation: stderr is looked at when stdout is closed.                    *)
PollInTurn ==
    /\ parent.at = "poll" /\ parent.open # {}
    /\ LET s == IF "out" \in parent.open THEN "out" ELSE "err" IN
       /\ Reported(s)
       /\ parent' = [parent EXCEPT !.at = "handle", !.ready = <<Events(s)>>]
    /\ UNCHANGED <<child, pipe, held, wrote, broken>>

(* poll waits for the first event of an open pipe and reports all there    *)
(* are, standard output first.                                             *)
Poll ==
    /\ parent.at = "poll" /\ parent.open # {}
    /\ \E ready \in {<<Events("out")>>, <<Events("err")>>, <<Events("out"), Events("err")>>} :
          /\ {ready[i].stream : i \in DOMAIN ready} = {s \in parent.open : Reported(s)}
          /\ parent' = [parent EXCEPT !.at = "handle", !.ready = ready]
    /\ UNCHANGED <<child, pipe, held, wrote, broken>>

(* poll returns -1 when a handled signal arrives: the loop is left.        *)
PollInterrupted ==
    /\ parent.at = "poll" /\ parent.open # {}
    /\ broken' = TRUE
    /\ parent' = [parent EXCEPT !.at = "wait", !.open = {}]
    /\ UNCHANGED <<child, pipe, held, wrote>>

(* Mutation: a pipe without writer is closed even when it holds data.      *)
HandleHangupFirst ==
    /\ parent.at = "handle"
    /\ IF parent.ready = <<>>
       THEN parent' = [parent EXCEPT !.at = "poll"] /\ UNCHANGED pipe
       ELSE LET e == Head(parent.ready) s == e.stream IN
            IF e.hangup
            THEN /\ parent' = [parent EXCEPT !.ready = Tail(@), !.open = @ \ {s}]
                 /\ UNCHANGED pipe
            ELSE /\ pipe' = [pipe EXCEPT ![s] = @ - 1]
                 /\ parent' = [parent EXCEPT !.ready = Tail(@), !.text[s] = @ + 1]
    /\ UNCHANGED <<child, held, wrote, broken>>

(* One reported pipe: with data one read, and the pipe stays open; without *)
(* any it is closed.                                                       *)
Handle ==
    /\ parent.at = "handle"
    /\ IF parent.ready = <<>>
       THEN parent' = [parent EXCEPT !.at = "poll"] /\ UNCHANGED pipe
       ELSE LET e == Head(parent.ready) s == e.stream IN
            IF e.data
            THEN /\ pipe' = [pipe EXCEPT ![s] = @ - 1]
                 /\ parent' = [parent EXCEPT !.ready = Tail(@), !.text[s] = @ + 1]
            ELSE /\ parent' = [parent EXCEPT !.ready = Tail(@), !.open = @ \ {s}]
                 /\ UNCHANGED pipe
    /\ UNCHANGED <<child, held, wrote, broken>>

AllClosed ==
    /\ parent.at = "poll" /\ parent.open = {}
    /\ parent' = [parent EXCEPT !.at = "wait"]
    /\ UNCHANGED <<child, pipe, held, wrote, broken>>

(* waitpid: the exit code, 128 for a child that was killed.                *)
Wait ==
    /\ parent.at = "wait" /\ child.state # "runs"
    /\ parent' = [parent EXCEPT !.at = "done",
                                !.result = IF child.state = "exited" THEN "code" ELSE "128"]
    /\ UNCHANGED <<child, pipe, held, wrote, broken>>

(* waitpid returns -1 when a handled signal arrives.                       *)
WaitInterrupted ==
    /\ parent.at = "wait"
    /\ parent' = [parent EXCEPT !.at = "done", !.result = "-1"]
    /\ UNCHANGED <<child, pipe, held, wrote, broken>>

ParentRuns == Poll \/ Handle \/ AllClosed \/ Wait
ChildRuns == ChildWrites \/ ChildEnds("exited")

CaptureNext ==
    \/ SpawnFails \/ \E s \in Scripts, c \in BOOLEAN : Spawn(s, c)
    \/ ChildRuns \/ ChildEnds("killed") \/ Inherit \/ Release
    \/ ParentRuns \/ PollInterrupted \/ WaitInterrupted

(* Parent and child run; signals, kills and what the child has started are *)
(* up to others.                                                           *)
CaptureFairness == WF_captureVars(ParentRuns) /\ WF_captureVars(ChildRuns)

(* What the child wrote before it ended is in the result, unless a signal  *)
(* has ended the reading: data in a pipe whose writers are gone is not     *)
(* lost, although poll reports both at once.                               *)
CapturedAll ==
    (parent.result \in {"code", "128"} /\ ~broken) => parent.text = wrote

(* However much the child writes to either output and in whatever order,   *)
(* spawn returns, unless somebody keeps the write ends: parent and child   *)
(* never wait for each other.                                              *)
SpawnReturns == (parent.at = "poll") ~> (parent.at = "done" \/ held)

(* Why: in no state do both wait for the other.  As long as the child runs *)
(* one of the two can go on, and afterwards only somebody who holds the    *)
(* write ends keeps the parent waiting.                                    *)
ParentGoes ==
    \/ parent.at = "handle"
    \/ parent.at = "poll" /\ (parent.open = {} \/ \E s \in parent.open : Reported(s))
    \/ parent.at = "wait" /\ child.state # "runs"
ChildGoes ==
    /\ child.state = "runs"
    /\ child.todo = <<>> \/ ~Reading \/ pipe[Head(child.todo)] < Capacity
OneGoes ==
    parent.at \in {"poll", "handle", "wait"} =>
        ParentGoes \/ ChildGoes \/ (held /\ child.state # "runs")

(* And every step comes nearer to the end: the child has less to write or  *)
(* is gone, a pipe holds less, fewer pipes are open, or the parent is      *)
(* further in its loop.  Who holds the write ends changes none of it.      *)
Place ==
    CASE parent.at = "handle" /\ parent.ready = <<>> -> 4
      [] parent.at = "poll" -> 3
      [] parent.at = "handle" /\ parent.ready # <<>> -> 2
      [] parent.at = "wait" -> 1
      [] OTHER -> 0
ChildNearer ==
    /\ UNCHANGED parent /\ child.state = "runs"
    /\ child'.state # "runs" \/ Len(child'.todo) < Len(child.todo)
ParentNearer ==
    /\ UNCHANGED child /\ parent'.at # "called"
    /\ \/ /\ UNCHANGED parent.open
          /\ \E s \in Streams : pipe'[s] < pipe[s] /\ \A r \in Streams \ {s} : pipe'[r] = pipe[r]
       \/ UNCHANGED pipe /\ parent'.open \subseteq parent.open /\ parent'.open # parent.open
       \/ UNCHANGED <<pipe, parent.open>> /\ Place' < Place
Nearer ==
    \/ parent.at = "called" /\ parent'.at # "called"
    \/ ChildNearer \/ ParentNearer
NearerTheEnd == [][Nearer \/ Inherit \/ Release]_captureVars
=============================================================================
