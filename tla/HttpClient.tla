------------------------------ MODULE HttpClient ------------------------------
(***************************************************************************)
(* fetch(): CurlNetwork::send makes three attempts at most, each with a    *)
(* timeout and received data of its own, and tries again after a failure   *)
(* to connect, to send or to receive and after a timeout.  Within an       *)
(* attempt libcurl follows redirects, each with a connection of its own,   *)
(* as the server closes every connection it has answered; the headers of   *)
(* all the answers are given to the program.  A failed attempt closes its  *)
(* connection; the server may handle what it read from it all the same.    *)
(***************************************************************************)
EXTENDS HttpServer

CONSTANTS
    Peers,          \* other clients, one connection each
    Fetchers,       \* Kyna programs that call fetch once
    Attempts,       \* how often it is tried, 3 in the code
    MaxRedirects    \* CURLOPT_MAXREDIRS, 8 in the code

PeerConnection(p) == <<p, 1, 1>>

(* The path an answer redirects to, with the same method.                  *)
Redirects(answer) == answer.status = 302
Followed(request, answer) == [request EXCEPT !.path = Routes[answer.route].target]

ASSUME ConnectionAssumption ==
    /\ Attempts \in Nat \ {0} /\ MaxRedirects \in Nat
    /\ Connections = {PeerConnection(p) : p \in Peers}
                     \union (Fetchers \X (1 .. Attempts) \X (1 .. MaxRedirects + 1))
    /\ Peers \intersect Fetchers = {}
    /\ \A r \in Requests, k \in Connections :
          Redirects(Respond(r, k)) => Followed(r, Respond(r, k)) \in Requests

(* fetch[f] = [phase, request, attempt, trail, headers, body, result]: trail *)
(* holds the requests sent in this attempt, headers the answers whose      *)
(* headers were received, body those whose body was.                       *)
VARIABLE fetch

Calling == [phase |-> "idle", request |-> None, attempt |-> 0, trail |-> <<>>,
            headers |-> <<>>, body |-> <<>>, result |-> "none"]
FetchInit == fetch = [f \in Fetchers |-> Calling]

Sent(f) == fetch[f].trail[Len(fetch[f].trail)]
Connection(f) == <<f, fetch[f].attempt, Len(fetch[f].trail)>>
Arrived(f) == wire[Connection(f)].reply

BeginFetch(f) ==
    /\ fetch[f].phase = "idle"
    /\ \E r \in Requests :
          fetch' = [fetch EXCEPT ![f] = [@ EXCEPT !.phase = "attempt", !.request = r]]
    /\ UNCHANGED httpVars

(* Mutation: what an attempt received is kept for the next one.            *)
BeginAttemptKeeping(f) ==
    /\ fetch[f].phase = "attempt"
    /\ fetch' = [fetch EXCEPT ![f] = [@ EXCEPT !.phase = "waiting",
                                      !.attempt = fetch[f].attempt + 1,
                                      !.trail = <<fetch[f].request>>]]
    /\ Connect(<<f, fetch[f].attempt + 1, 1>>, fetch[f].request, TRUE)

BeginAttempt(f) ==
    /\ fetch[f].phase = "attempt"
    /\ fetch' = [fetch EXCEPT ![f] = [@ EXCEPT !.phase = "waiting",
                                      !.attempt = fetch[f].attempt + 1,
                                      !.trail = <<fetch[f].request>>,
                                      !.headers = <<>>, !.body = <<>>]]
    /\ Connect(<<f, fetch[f].attempt + 1, 1>>, fetch[f].request, TRUE)

(* The head of an answer arrives: appendHeader adds to the headers there   *)
(* are already.                                                            *)
ReceiveHead(f) ==
    /\ fetch[f].phase = "waiting"
    /\ Arrived(f) \notin {None, Reset}
    /\ fetch' = [fetch EXCEPT ![f] = [@ EXCEPT !.phase = "head",
                                      !.headers = Append(fetch[f].headers, Arrived(f))]]
    /\ UNCHANGED httpVars

(* The body: appendResponse; libcurl drops that of a redirect it follows.  *)
ReceiveBody(f) ==
    /\ fetch[f].phase = "head" /\ ~Redirects(Arrived(f))
    /\ fetch' = [fetch EXCEPT ![f] = [@ EXCEPT !.phase = "body",
                                      !.body = Append(fetch[f].body, Arrived(f))]]
    /\ UNCHANGED httpVars

(* libcurl reports success.                                                *)
Succeed(f) ==
    /\ fetch[f].phase = "body"
    /\ fetch' = [fetch EXCEPT ![f] = [@ EXCEPT !.phase = "done", !.result = "response"]]
    /\ UNCHANGED httpVars

(* The connection is given up and the redirect followed, or one too many.  *)
LeaveForRedirect(f) ==
    /\ fetch[f].phase = "head" /\ Redirects(Arrived(f))
    /\ fetch' = [fetch EXCEPT ![f] =
                    IF Len(fetch[f].trail) =< MaxRedirects
                    THEN [@ EXCEPT !.phase = "follow",
                                   !.trail = Append(fetch[f].trail,
                                                    Followed(Sent(f), Arrived(f)))]
                    ELSE [@ EXCEPT !.phase = "done", !.result = "failure"]]
    /\ HangUp(Connection(f))
    /\ UNCHANGED <<listener, backlog, stopFlag>>

FollowRedirect(f) ==
    /\ fetch[f].phase = "follow"
    /\ fetch' = [fetch EXCEPT ![f].phase = "waiting"]
    /\ Connect(Connection(f), Sent(f), TRUE)

(* An attempt fails: a connection was refused or reset, broke, or all of   *)
(* it took too long.  The last failure is reported, and so is one that is *)
(* not worth a retry (name resolution, TLS).                               *)
FailAttempt(f, retryable) ==
    /\ fetch[f].phase \in {"waiting", "head", "body"}
    /\ fetch' = [fetch EXCEPT ![f] =
                    IF retryable /\ fetch[f].attempt < Attempts
                    THEN [@ EXCEPT !.phase = "attempt"]
                    ELSE [@ EXCEPT !.phase = "done", !.result = "failure"]]
    /\ HangUp(Connection(f))
    /\ UNCHANGED <<listener, backlog, stopFlag>>

Receive(f) == ReceiveHead(f) \/ ReceiveBody(f) \/ Succeed(f) \/ LeaveForRedirect(f)
FetchFails(f) == \E retryable \in BOOLEAN : FailAttempt(f, retryable)
FetchStep(f) ==
    BeginFetch(f) \/ BeginAttempt(f) \/ Receive(f) \/ FollowRedirect(f) \/ FetchFails(f)

(* Any other client: it may send late or never, read or not, leave early.  *)
Peer(p) ==
    \/ \E s \in Sendable, reads \in BOOLEAN : Connect(PeerConnection(p), s, reads)
    \/ Send(PeerConnection(p))
    \/ /\ HangUp(PeerConnection(p))
       /\ UNCHANGED <<listener, backlog, stopFlag>>

Outside == AcceptFails \/ WriteShort \/ Signal \/ \E p \in Peers : Peer(p)

HttpNext ==
    \/ (Listen \/ Outside) /\ UNCHANGED fetch
    \/ \E f \in Fetchers : FetchStep(f)

(* The server thread runs, a call goes on, and CURLOPT_TIMEOUT_MS ends an  *)
(* attempt that is not answered.  Nobody has to send, to read, to hang up  *)
(* or to press Control-C, and accept need not fail.                        *)
HttpFairness ==
    /\ WF_<<httpVars, fetch>>(Listen /\ UNCHANGED fetch)
    /\ \A f \in Fetchers :
          /\ WF_<<httpVars, fetch>>(BeginAttempt(f) \/ FollowRedirect(f))
          /\ WF_<<httpVars, fetch>>(Receive(f) \/ FailAttempt(f, TRUE))

(* A call that succeeds returns the answer that the request, or what the   *)
(* redirects led to from it, got in its last attempt: status and body are  *)
(* of the last answer alone, and the headers are those of every answer on  *)
(* the way, in order, merged into one object (a redirect's Location shows  *)
(* beside the headers of what it led to).  Nothing of an abandoned         *)
(* attempt, half received or still under way, ever shows.                  *)
FetchTruthful ==
    \A f \in Fetchers : fetch[f].result = "response" =>
        LET t == fetch[f].trail
            Given(h) == Respond(t[h], <<f, fetch[f].attempt, h>>)
        IN  /\ t[1] = fetch[f].request
            /\ \A h \in 2 .. Len(t) : /\ Redirects(Given(h - 1))
                                      /\ t[h] = Followed(t[h - 1], Given(h - 1))
            /\ ~Redirects(Given(Len(t)))
            /\ fetch[f].headers = [h \in 1 .. Len(t) |-> Given(h)]
            /\ fetch[f].body = <<Given(Len(t))>>

(* Unless a peer that sends no whole request, or does not read its answer, *)
(* holds the only thread for ever, a peer that has sent one is answered,   *)
(* or reset by the end of the server, unless it leaves, and a signal ends  *)
(* the server.  A call of fetch ends in any case.                          *)
NoneLeftWaiting ==
    /\ \/ <>[]Stuck
       \/ /\ \A p \in Peers : LET k == PeerConnection(p) IN
                (wire[k].sends \in Whole /\ wire[k].open)
                   ~> (wire[k].reply # None \/ ~wire[k].open)
          /\ stopFlag ~> (listener.at = "stopped")
    /\ \A f \in Fetchers : (fetch[f].phase # "idle") ~> (fetch[f].phase = "done")
=============================================================================
