--------------------------- MODULE MCCatalogUsers ---------------------------
(* Small instances of CatalogUsers for TLC.  "o" and "p" are oblasts,      *)
(* "s" is the standalone oblast, "c" a city.  The anchors want "o" with    *)
(* "r1" and its hromada "h1".                                              *)
EXTENDS CatalogUsers

Row(uid, type) == [uid |-> uid, type |-> type, usable |-> TRUE]
O == Row("o", "oblast")
P == Row("p", "oblast")
S == Row("s", "oblast")
R1 == Row("r1", "raion")
R2 == Row("r2", "raion")
H1 == Row("h1", "hromada")
H2 == Row("h2", "hromada")

Anchor(uid, oblast, raion) ==
  [uid |-> uid, type |-> None, oblast |-> oblast, raion |-> raion]
SmallAnchors ==
  {Anchor("o", None, None), Anchor("r1", "o", None), Anchor("h1", "o", "r1")}

SmallBundled ==
  {Definition(O, None, None), Definition(Row("c", "city"), None, None),
   Definition(R1, "o", None), Definition(R2, "o", None),
   Definition(H1, "o", "r1")}

City == [uid |-> "c", type |-> "city"]

(* Two refreshes at a time.                                                *)
Overlap ==
  [dialogues |-> {"d1", "d2"}, adding |-> FALSE, entries |-> {City},
   limit |-> 1, rows |-> {O, S, R1, [R1 EXCEPT !.usable = FALSE], H1},
   maxRows |-> 4]

(* Every kind of sheet; entries the shipped catalog does not have.         *)
Sheets ==
  [dialogues |-> {"d1"}, adding |-> FALSE,
   entries |-> {[uid |-> "h2", type |-> "hromada"]},
   limit |-> 1, rows |-> {O, P, R1, R2, H1, H2}, maxRows |-> 5]

(* Territories are added while the catalog is refreshed.                   *)
Adding ==
  [dialogues |-> {"d1"}, adding |-> TRUE, entries |-> {}, limit |-> 1,
   rows |-> {O, R1, R2, H1}, maxRows |-> 4]

AllCasts == {Overlap, Sheets, Adding}
=============================================================================
