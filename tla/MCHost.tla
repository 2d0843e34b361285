-------------------------------- MODULE MCHost --------------------------------
(* A middleware that lets requests pass, a route with a parameter, one     *)
(* that redirects to it, one that redirects to itself, a middleware that   *)
(* throws for the rest.                                                    *)
EXTENDS Host

MCRequests == {[method |-> "GET", path |-> <<"users", "1">>],
               [method |-> "GET", path |-> <<"old">>],
               [method |-> "POST", path |-> <<"loop">>]}
MCRoutes == <<[method |-> "*", pattern |-> <<>>, handler |-> "passes"],
              [method |-> "GET", pattern |-> <<"users", ":id">>, handler |-> "answers"],
              [method |-> "GET", pattern |-> <<"old">>, handler |-> "redirects", target |-> <<"users", "1">>],
              [method |-> "POST", pattern |-> <<"loop">>, handler |-> "redirects", target |-> <<"loop">>],
              [method |-> "*", pattern |-> <<>>, handler |-> "throws"]>>
MCConnections ==
    {PeerConnection(p) : p \in Peers} \union (Fetchers \X (1 .. Attempts) \X (1 .. MaxRedirects + 1))
MCScripts == {<<"out", "out", "err">>, <<"err", "err", "err", "out">>, <<"out", "err", "out", "err">>}
MCLines == {<<"x">>, <<"{">>, <<"}">>, <<"x", ";">>, <<":", "cancel">>, <<":", "reset">>,
            <<":", "help">>, <<":", "quit">>}
=============================================================================
