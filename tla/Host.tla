--------------------------------- MODULE Host ---------------------------------
(***************************************************************************)
(* A ky process and the machine around it: what a program or a command     *)
(* does with sockets, processes, the terminal and the installed files.     *)
(* dispatch() runs one command, so a behaviour is about one of             *)
(*   "serve"    a program that listens, and programs that fetch from it;   *)
(*   "spawn"    an embedder that runs another program and reads its output;*)
(*   "repl"     the interactive prompt;                                    *)
(*   "install"  updates and removals of the installation.                  *)
(***************************************************************************)
EXTENDS HttpClient, ProcessCapture, Repl, Installer

VARIABLE command

vars == <<httpVars, fetch, captureVars, replVars, installVars, command>>

Init ==
    /\ command \in {"serve", "spawn", "repl", "install"}
    /\ HttpInit(command = "serve")
    /\ FetchInit
    /\ CaptureInit
    /\ ReplInit(command = "repl", IF command = "repl" THEN BOOLEAN ELSE {TRUE})
    /\ InstallInit(IF command = "install" THEN Flavours ELSE {"sh"})

Next ==
    /\ \/ /\ command = "serve" /\ HttpNext
          /\ UNCHANGED <<captureVars, replVars, installVars>>
       \/ /\ command = "spawn" /\ CaptureNext
          /\ UNCHANGED <<httpVars, fetch, replVars, installVars>>
       \/ /\ command = "repl" /\ ReplNext
          /\ UNCHANGED <<httpVars, fetch, captureVars, installVars>>
       \/ /\ command = "install" /\ InstallNext
          /\ UNCHANGED <<httpVars, fetch, captureVars, replVars>>
    /\ UNCHANGED command

Spec == Init /\ [][Next]_vars /\ HttpFairness /\ CaptureFairness
=============================================================================
