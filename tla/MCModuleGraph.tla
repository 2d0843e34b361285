--------------------------- MODULE MCModuleGraph ---------------------------
(***************************************************************************)
(* Programs for ModuleGraph: main imports up to two units, a, b and c up   *)
(* to one.  pb is a package of b and c, pl one of a file that cannot be    *)
(* read and a, and pe a directory without sources.                         *)
(***************************************************************************)
EXTENDS ModuleGraph, TLC

CONSTANTS main, a, b, c, locked, pb, pl, pe, x, y

MembersDef == (pb :> <<b, c>>) @@ (pl :> <<locked, a>>) @@ (pe :> <<>>)
AllowedDef == (Files \X Unit) \ {<<main, pl>>}

From(name, targets) == {<<[alias |-> name, target |-> t]>> : t \in targets}
Two(targets) ==
  {first \o second : first \in From(x, targets),
                     second \in From(x, {a}) \cup From(y, targets)}
One(targets) == {<<>>} \cup From(x, targets)

TablesDef ==
  {(main :> m) @@ (a :> i) @@ (b :> j) @@ (c :> k) @@ (locked :> <<>>) :
     m \in One(Unit) \cup Two((Unit \ {main}) \cup {Missing}),
     i \in One({main, b, c, pb, pl, locked}),
     j \in One({main, a, c, pb, pe}),
     k \in One({a, b, pb, Missing})}

(* A package and one of its files are both imported.                       *)
OverlappingTables ==
  {(main :> m) @@ (a :> <<>>) @@ (b :> <<>>) @@ (c :> <<>>) @@ (locked :> <<>>) :
     m \in Two({b, c, pb})}
=============================================================================
