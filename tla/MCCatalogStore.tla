--------------------------- MODULE MCCatalogStore ---------------------------
(* Two calls of one process and one of another, for TLC.                   *)
EXTENDS CatalogStore, TLC

CONSTANTS c1, c2, c3, p1, p2

TwoAndOne == (c1 :> p1) @@ (c2 :> p1) @@ (c3 :> p2)
=============================================================================
