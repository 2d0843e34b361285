------------------------------ MODULE DevServer ------------------------------
(***************************************************************************)
(* `ky dev`: one process watches the project.  It checks the entry, starts *)
(* a server process on it, and then compares a fingerprint of the files    *)
(* ten times a second; on a change it waits for the editor to settle,      *)
(* checks again, and replaces the server when the check passes.  The       *)
(* server loads and analyses the sources again by itself, later than the   *)
(* check, so that it may start on other text than was checked, or fail.    *)
(* The fingerprint covers kyna.toml, kyna.lock and the files named *.kyna  *)
(* under the root, and no other module.  (The POSIX branch of the file; on *)
(* Windows a server that does not end is killed after three seconds.)      *)
(***************************************************************************)
EXTENDS ProjectCheck

CONSTANTS
    Watcher,    \* the check process the watcher starts
    Server,     \* the server process it starts, which analyses before it serves
    Main,       \* the project's entry
    Stamped     \* the modules the fingerprint covers: *.kyna under the root

ASSUME WatcherAssumption ==
    /\ {Watcher, Server} \subseteq Checkers /\ Watcher # Server
    /\ Main \in Entries /\ Stamped \subseteq Modules

VARIABLES
    dev,            \* the watcher's program counter
    fingerprint,    \* the files as it last saw them
    server,         \* the server process it started
    interrupted,    \* Ctrl-C was pressed
    unseen,         \* history: something was saved after the first server had read
                    \* the project and before the first fingerprint was taken
    passedOver      \* history: what the last fingerprint did not cover, as it then was

devVars == <<dev, fingerprint, server, interrupted, unseen, passedOver>>

NoServer == [state |-> "none"]

(* What a server reads of the project: the manifest, and its sources.      *)
Reading == [manifest |-> manifest.stamp, sources |-> [m \in Graph(Main) |-> files[m]]]

(* sourceFingerprint: the times of the files with the extension .kyna, of  *)
(* the manifest and the lock.  Its 64-bit hash is taken to tell any two of *)
(* them apart.                                                             *)
SourceTimes == [m \in Stamped |-> files[m].stamp]

(* Mutation: only the .kyna files are watched.                             *)
WatchedSourcesOnly == <<SourceTimes, 0, 0>>
Watched == <<SourceTimes, manifest.stamp, lock.stamp>>

(* The project's modules it leaves out: *.ky, declaration files, modules   *)
(* outside the root.                                                       *)
Unwatched == [m \in Graph(Main) \ Stamped |-> files[m].stamp]

(* One of them was saved since the last fingerprint.                       *)
Overlooked == Unwatched # passedOver

(* The states of a server that has bound its port, and of one that has     *)
(* read the project.                                                       *)
Serving == {"listening", "held"}
HasLoaded == Serving \union {"analysing"}

StartServer == [state |-> "starting"]

(* devProject: the first check.                                            *)
DevFirstCheck ==
    /\ dev = "begin"
    /\ StartCheck(Watcher, Main)
    /\ dev' = "firstCheck"
    /\ UNCHANGED <<fingerprint, server, interrupted, unseen, passedOver>>

DevFirstVerdict ==
    /\ dev = "firstCheck"
    /\ EndCheck(Watcher)
    /\ IF check[Watcher].failed
       THEN dev' = "exited" /\ UNCHANGED server
       ELSE dev' = "fingerprint" /\ server' = StartServer
    /\ UNCHANGED <<fingerprint, interrupted, unseen, passedOver>>

(* The first fingerprint, taken after the server process was started.      *)
DevFingerprint ==
    /\ dev = "fingerprint"
    /\ fingerprint' = Watched /\ passedOver' = Unwatched
    /\ unseen' = CASE server.state = "starting" -> FALSE
                   [] server.state \in HasLoaded -> server.read # Reading
                   [] OTHER -> TRUE
    /\ dev' = "watch"
    /\ UNCHANGED <<workspaceVars, checkVars, server, interrupted>>

(* One comparison, every 100 ms, that finds a change; the loop's condition *)
(* was tested before it.                                                   *)
DevNotice ==
    /\ dev = "watch" /\ ~interrupted
    /\ Watched # fingerprint
    /\ dev' = "settle"
    /\ UNCHANGED <<workspaceVars, checkVars, fingerprint, server, interrupted, unseen, passedOver>>

(* After 200 ms the files are fingerprinted again, then checked.           *)
DevSettle ==
    /\ dev = "settle"
    /\ fingerprint' = Watched /\ passedOver' = Unwatched
    /\ dev' = "recheck"
    /\ UNCHANGED <<workspaceVars, checkVars, server, interrupted, unseen>>

DevRecheck ==
    /\ dev = "recheck"
    /\ StartCheck(Watcher, Main)
    /\ dev' = "checking"
    /\ UNCHANGED <<fingerprint, server, interrupted, unseen, passedOver>>

(* A failed check keeps the running server; a passed one sends it SIGTERM. *)
DevVerdict ==
    /\ dev = "checking"
    /\ EndCheck(Watcher)
    /\ dev' = IF check[Watcher].failed THEN "watch" ELSE "stopping"
    /\ UNCHANGED <<fingerprint, server, interrupted, unseen, passedOver>>

(* Ctrl-C killed the check: its status is not an exit with code 0.         *)
DevKilledCheck ==
    /\ dev \in {"firstCheck", "checking"}
    /\ check[Watcher].phase = "idle"
    /\ dev' = IF dev = "firstCheck" THEN "exited" ELSE "watch"
    /\ UNCHANGED <<workspaceVars, checkVars, fingerprint, server, interrupted, unseen, passedOver>>

(* waitpid, then the next server process; or the end of the loop.          *)
DevRestart ==
    /\ dev = "stopping"
    /\ server.state \in {"none", "exited"}
    /\ server' = StartServer
    /\ dev' = "watch"
    /\ UNCHANGED <<workspaceVars, checkVars, fingerprint, interrupted, unseen, passedOver>>

DevLeave ==
    /\ dev = "watch" /\ interrupted
    /\ dev' = "leaving"
    /\ UNCHANGED <<workspaceVars, checkVars, fingerprint, server, interrupted, unseen, passedOver>>

DevExit ==
    /\ dev = "leaving"
    /\ server.state \in {"none", "exited"}
    /\ dev' = "exited"
    /\ UNCHANGED <<workspaceVars, checkVars, fingerprint, server, interrupted, unseen, passedOver>>

Terminating == dev \in {"stopping", "leaving"}

(* serveProject and runSourceFile in the server process: the manifest and  *)
(* the sources are loaded and analysed again, then served or refused.      *)
ServerLoad ==
    /\ server.state = "starting"
    /\ StartCheck(Server, Main)
    /\ server' = [state |-> "analysing", read |-> Reading]
    /\ UNCHANGED <<dev, fingerprint, interrupted, unseen, passedOver>>

ServerListen ==
    /\ server.state = "analysing"
    /\ EndCheck(Server)
    /\ server' = IF check[Server].failed THEN [state |-> "exited"]
                 ELSE [state |-> "listening", read |-> server.read]
    /\ UNCHANGED <<dev, fingerprint, interrupted, unseen, passedOver>>

Signalled == Terminating \/ interrupted

(* SIGTERM from the watcher, or SIGINT from the terminal, ends it: before  *)
(* listen by the default action, afterwards at the head of the accept loop.*)
ServerStop ==
    /\ server.state \in {"starting", "analysing", "listening"}
    /\ Signalled
    /\ server' = [state |-> "exited"]
    /\ CASE check[Server].phase = "analysing" -> InterruptCheck(Server)
         [] check[Server].phase = "done" -> EndCheck(Server)
         [] OTHER -> UNCHANGED <<workspaceVars, checkVars>>
    /\ UNCHANGED <<dev, fingerprint, interrupted, unseen, passedOver>>

(* A connection is accepted: the loop's only thread blocks in a read or a  *)
(* write as long as the peer likes (HttpServer), and a signal does not end *)
(* that.  The last one may be accepted when the flag was tested just       *)
(* before the signal.                                                      *)
ServerTaken ==
    /\ server.state = "listening"
    /\ server' = [server EXCEPT !.state = "held"]
    /\ UNCHANGED <<workspaceVars, checkVars, dev, fingerprint, interrupted, unseen, passedOver>>

ServerReleased ==
    /\ server.state = "held"
    /\ server' = IF Signalled THEN [state |-> "exited"] ELSE [server EXCEPT !.state = "listening"]
    /\ UNCHANGED <<workspaceVars, checkVars, dev, fingerprint, interrupted, unseen, passedOver>>

(* Ctrl-C reaches every process of the terminal: the handler is installed  *)
(* only after the first check.                                             *)
Interrupt ==
    /\ ~interrupted
    /\ dev \notin {"begin", "firstCheck", "exited"}
    /\ interrupted' = TRUE
    /\ IF check[Watcher].phase = "analysing"
       THEN InterruptCheck(Watcher)
       ELSE UNCHANGED <<workspaceVars, checkVars>>
    /\ UNCHANGED <<dev, fingerprint, server, unseen, passedOver>>

DevInit(runs) ==
    /\ dev = IF runs THEN "begin" ELSE "exited"
    /\ fingerprint = <<>>
    /\ server = NoServer
    /\ interrupted = FALSE
    /\ unseen = FALSE
    /\ passedOver = <<>>

DevNext ==
    \/ DevFirstCheck \/ DevFirstVerdict \/ DevFingerprint \/ DevNotice \/ DevSettle
    \/ DevRecheck \/ DevVerdict \/ DevKilledCheck \/ DevRestart \/ DevLeave \/ DevExit
    \/ CheckStep(Watcher) /\ UNCHANGED devVars
    \/ ServerLoad \/ ServerListen \/ ServerStop \/ ServerTaken \/ ServerReleased
    \/ CheckStep(Server) /\ UNCHANGED devVars
    \/ Interrupt

(* Every step of the watcher and of the server is taken once it can be:    *)
(* the processes are scheduled, and their sleeps end.  Nothing is assumed  *)
(* of the developer, nor of a peer the server waits for.                   *)
DevFairness ==
    /\ WF_<<workspaceVars, checkVars, devVars>>(
           \/ DevFirstCheck \/ DevFirstVerdict \/ DevFingerprint \/ DevNotice \/ DevSettle
           \/ DevRecheck \/ DevVerdict \/ DevKilledCheck \/ DevRestart \/ DevLeave \/ DevExit)
    /\ WF_<<workspaceVars, checkVars, devVars>>(CheckStep(Watcher) /\ UNCHANGED devVars)
    /\ WF_<<workspaceVars, checkVars, devVars>>(
           ServerLoad \/ (CheckStep(Server) /\ UNCHANGED devVars) \/ ServerListen \/ ServerStop)

SourcesAreGood ==
    \A m \in Graph(Main) : Accepts(m, files) /\ ~MissingImport(m, files)

(***************************************************************************)
(* Once the developer stops saving, the server that runs has read the      *)
(* project as it was last saved, if that is free of errors, unless         *)
(*   - it was interrupted, or the first check failed;                      *)
(*   - a save fell between the first server's reading and the first        *)
(*     fingerprint, which nothing notices (unseen);                        *)
(*   - a module the fingerprint does not cover was saved after the last    *)
(*     fingerprint, and nothing that it covers since (Overlooked);         *)
(*   - the watcher waits for a server to end that a peer holds.            *)
(***************************************************************************)
LatestSaveServed ==
    <>[](\/ interrupted \/ dev = "exited" \/ unseen \/ Overlooked \/ ~SourcesAreGood
         \/ dev = "stopping" /\ server.state = "held"
         \/ server.state \in Serving /\ server.read = Reading)

(***************************************************************************)
(* No other save is missed: when the watcher sees no change, the server    *)
(* that runs has read every source, covered or not, and the manifest as    *)
(* they are, or is about to read them, if they are free of errors and no   *)
(* module the fingerprint leaves out was saved after it was taken.  It has *)
(* not read older ones, whenever they were saved, nor given up.            *)
(***************************************************************************)
NoticedOrServed ==
    /\ dev = "watch" /\ Watched = fingerprint /\ ~interrupted
    /\ ~unseen /\ ~Overlooked /\ SourcesAreGood
    => \/ server.state = "starting"
       \/ server.state \in HasLoaded /\ server.read = Reading
=============================================================================
