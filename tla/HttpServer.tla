------------------------------ MODULE HttpServer ------------------------------
(***************************************************************************)
(* app.listen(): a single thread accepts one connection at a time, reads   *)
(* its request, runs the routes in the order they were registered and      *)
(* writes the answer.  SIGINT and SIGTERM only set a flag that is tested   *)
(* before each accept.  Sockets and HTTP parsing are Boost's, outside the  *)
(* program: a connection waits in the backlog until it is accepted; the    *)
(* expiry the code sets bounds neither a blocking read, which ends when    *)
(* the peer has sent a whole request or is gone, nor a blocking write,     *)
(* which ends when the peer has read the answer or is gone.                *)
(***************************************************************************)
EXTENDS Naturals, Sequences, FiniteSets, FiniteSetsExt

CONSTANTS
    Connections,    \* every connection that can be made
    Requests,       \* well-formed requests: [method, path]
    Routes,         \* the routes: [method, pattern, handler], method "*" for
                    \* app.use; a handler "answers", "passes", "throws" or
                    \* "redirects" to the path of the route's target
    Parameters, \* the segments of patterns that start with a colon
    None

Garbled  == [method |-> "garbled"]      \* no HTTP request
TooLarge == [method |-> "large"]        \* a body over maximumBodyBytes
Partial  == [method |-> "partial"]      \* nothing or a part of a request, so far
Whole == Requests \union {Garbled, TooLarge}
Sendable == Whole \union {Partial}

ASSUME RequestAssumption ==
    /\ Requests \intersect {Garbled, TooLarge, Partial} = {}
    /\ None \notin Sendable

VARIABLES
    listener,   \* [at, serves, answer]: where the thread is, whom it serves,
                \* what it is writing
    backlog,    \* connections not yet accepted, first come first
    wire,       \* wire[k] = [sends, open, reads, reply]: what the peer has sent,
                \* whether it is still there and reads, what came back
    stopFlag    \* serverInterrupted

httpVars == <<listener, backlog, wire, stopFlag>>

Unused == [sends |-> None, open |-> FALSE, reads |-> TRUE, reply |-> None]

(* An answer names the route that gave it, so that answers can be compared *)
(* with requests, and the connection it was written to.                    *)
Answer(status, route, k) == [status |-> status, route |-> route, to |-> k]
Reset == [status |-> 0]     \* the connection was closed without an answer

(* matchRoute: as many segments, and each a parameter or the same.         *)
Matches(pattern, path) ==
    /\ Len(pattern) = Len(path)
    /\ \A i \in DOMAIN pattern : pattern[i] \in Parameters \/ pattern[i] = path[i]

(* The routes that end the scan: a middleware whose value is not null, a   *)
(* route with this method whose pattern matches.                           *)
Stops(i, request) ==
    IF Routes[i].method = "*"
    THEN Routes[i].handler # "passes"
    ELSE /\ Routes[i].method = request.method
         /\ Matches(Routes[i].pattern, request.path)

Respond(request, k) ==
    LET stopping == {i \in DOMAIN Routes : Stops(i, request)}
    IN  IF stopping = {} THEN Answer(404, None, k)
        ELSE LET i == Min(stopping)
             IN  Answer(CASE Routes[i].handler = "throws" -> 500
                          [] Routes[i].handler = "redirects" -> 302
                          [] OTHER -> 200, i, k)

(* None stands for no answer.                                              *)
ASSUME AnswerAssumption ==
    /\ Reset # None
    /\ \A k \in Connections : /\ \A r \in Requests : Respond(r, k) # None
                              /\ \A s \in {400, 413} : Answer(s, None, k) # None

Idling(at) == [at |-> at, serves |-> None, answer |-> None]

HttpInit(serving) ==
    /\ listener = Idling(IF serving THEN "head" ELSE "stopped")
    /\ backlog = <<>>
    /\ wire = [k \in Connections |-> Unused]
    /\ stopFlag = FALSE

(* A peer connects: the kernel puts it in the backlog, or refuses it when  *)
(* nobody listens.                                                         *)
Connect(k, sends, reads) ==
    /\ wire[k] = Unused
    /\ LET refused == listener.at = "stopped" IN
       /\ wire' = [wire EXCEPT ![k] = [sends |-> sends, open |-> TRUE, reads |-> reads,
                                       reply |-> IF refused THEN Reset ELSE None]]
       /\ backlog' = IF refused THEN backlog ELSE Append(backlog, k)
    /\ UNCHANGED <<listener, stopFlag>>

(* A peer sends its request, or the rest of it, late.                      *)
Send(k) ==
    /\ wire[k].open /\ wire[k].sends = Partial
    /\ \E request \in Whole : wire' = [wire EXCEPT ![k].sends = request]
    /\ UNCHANGED <<listener, backlog, stopFlag>>

HangUp(k) ==
    /\ wire[k].open
    /\ wire' = [wire EXCEPT ![k].open = FALSE]

Signal ==
    /\ listener.at # "stopped"
    /\ stopFlag' = TRUE
    /\ UNCHANGED <<listener, backlog, wire>>

(* Mutation: the backlog is dropped without a reset.                       *)
CloseForgetting ==
    /\ listener' = Idling("stopped")
    /\ backlog' = <<>>
    /\ UNCHANGED wire

(* The acceptor is closed, and what is in the backlog reset.               *)
Close ==
    /\ listener' = Idling("stopped")
    /\ wire' = [k \in Connections |->
                   IF \E i \in DOMAIN backlog : backlog[i] = k
                   THEN [wire[k] EXCEPT !.reply = Reset] ELSE wire[k]]
    /\ backlog' = <<>>

(* The head of the loop.                                                   *)
LoopHead ==
    /\ listener.at = "head"
    /\ IF stopFlag THEN Close
       ELSE listener' = Idling("accept") /\ UNCHANGED <<wire, backlog>>
    /\ UNCHANGED stopFlag

(* Mutation: the accept blocks.                                            *)
AcceptBlocking ==
    /\ listener.at = "accept"
    /\ backlog # <<>>
    /\ listener' = [at |-> "read", serves |-> Head(backlog), answer |-> None]
    /\ backlog' = Tail(backlog)
    /\ UNCHANGED <<wire, stopFlag>>

(* Without a connection the thread sleeps 20 ms and starts over.           *)
Accept ==
    /\ listener.at = "accept"
    /\ IF backlog = <<>>
       THEN listener' = Idling("head") /\ UNCHANGED backlog
       ELSE /\ listener' = [at |-> "read", serves |-> Head(backlog), answer |-> None]
            /\ backlog' = Tail(backlog)
    /\ UNCHANGED <<wire, stopFlag>>

(* Any other error of accept ends the loop.                                *)
AcceptFails ==
    /\ listener.at = "accept"
    /\ Close
    /\ UNCHANGED stopFlag

(* A read ends with what the peer sent, or with an error once it is gone:  *)
(* a request it had sent before may still be read.                         *)
ReadEnds(k, read) ==
    \/ read = wire[k].sends /\ read \in Whole
    \/ read = Garbled /\ ~wire[k].open

(* The request is read, and handled without a pause.                       *)
Read ==
    /\ listener.at = "read"
    /\ LET k == listener.serves IN
       \E read \in Whole :
          /\ ReadEnds(k, read)
          /\ listener' = [listener EXCEPT !.at = "write",
                            !.answer = CASE read \in Requests -> Respond(read, k)
                                         [] read = TooLarge -> Answer(413, None, k)
                                         [] OTHER -> Answer(400, None, k)]
    /\ UNCHANGED <<backlog, wire, stopFlag>>

(* The answer reaches a peer that is there; the error for one that is gone *)
(* is not looked at.                                                       *)
Written ==
    LET k == listener.serves IN
    /\ wire' = [wire EXCEPT ![k].reply = IF wire[k].open THEN listener.answer ELSE Reset]
    /\ listener' = Idling("head")
    /\ UNCHANGED <<backlog, stopFlag>>

Blocked == wire[listener.serves].open /\ ~wire[listener.serves].reads

Write == listener.at = "write" /\ ~Blocked /\ Written

(* An answer the socket's buffers hold does not wait for the peer.         *)
WriteShort == listener.at = "write" /\ Blocked /\ Written

Listen == LoopHead \/ Accept \/ Read \/ Write

(* The thread waits for a peer that has not sent its request, or does not  *)
(* read its answer.                                                        *)
Stuck ==
    \/ listener.at = "read" /\ wire[listener.serves].open /\ wire[listener.serves].sends = Partial
    \/ listener.at = "write" /\ Blocked

(* Whoever has connected and got nothing back is in the backlog, once, or  *)
(* is the one that is served; when the server has stopped, for a signal or *)
(* for a failure to accept, nobody is left.                                *)
Queued == {backlog[i] : i \in DOMAIN backlog}
Served == IF listener.at \in {"read", "write"} THEN {listener.serves} ELSE {}
NobodyForgotten ==
    /\ \A k \in Connections :
          k \in Queued \union Served <=> wire[k].sends # None /\ wire[k].reply = None
    /\ \A i, j \in DOMAIN backlog : backlog[i] = backlog[j] => i = j
    /\ Queued \intersect Served = {}
    /\ listener.at = "stopped" => backlog = <<>>

(* What came back on a connection stays: nobody is answered twice, or      *)
(* reset after an answer.                                                  *)
SameReplies == \A k \in Connections : wire[k].reply # None => wire'[k].reply = wire[k].reply
AnsweredOnce == [][SameReplies]_httpVars
=============================================================================
