------------------------------ MODULE MCProject ------------------------------
(* main imports view, view imports model; tool, another entry, imports     *)
(* model too.  The type that model exports changes, and view follows; view *)
(* is a file the fingerprint of `ky dev` does not cover, view.ky.          *)
EXTENDS Project

MCModules == {"main", "view", "model", "tool"}
MCDeps == [main |-> {"view"}, view |-> {"model"}, model |-> {}, tool |-> {"model"}]
MCOrder == [main |-> <<"model", "view", "main">>, tool |-> <<"model", "tool">>]

Plain == [offers |-> "int", needs |-> "int"]
MCFirst == [m \in MCModules |-> Plain]
MCVersions ==
    [main |-> {}, tool |-> {},
     view |-> {Plain, [Plain EXCEPT !.needs = "text"]},
     model |-> {Plain, [Plain EXCEPT !.offers = "text"], [Plain EXCEPT !.offers = "gone"]}]
MCStamped == MCModules \ {"view"}
MCNames == <<"lib", "web">>
=============================================================================
