----------------------------- MODULE CatalogTree -----------------------------
(***************************************************************************)
(* What the users of a catalog rely on, whoever they are: CatalogParser is *)
(* shown to produce it, TerritoryEvaluation assumes it.                    *)
(***************************************************************************)
CONSTANT None   \* Python's None

Types == {"oblast", "raion", "hromada", "city"}

(* Uids are unique, a raion belongs to an oblast of the catalog, a hromada *)
(* to a raion of the catalog and to that raion's oblast, and nothing else  *)
(* has a parent.                                                           *)
Hierarchical(items) ==
  /\ \A c, d \in items : c.uid = d.uid => c = d
  /\ \A d \in items :
       /\ d.type \in Types
       /\ d.type \in {"oblast", "city"} => d.oblast = None /\ d.raion = None
       /\ d.type = "raion" =>
            /\ d.raion = None
            /\ \E o \in items : o.type = "oblast" /\ o.uid = d.oblast
       /\ d.type = "hromada" =>
            \E r \in items : /\ r.type = "raion"
                             /\ r.uid = d.raion
                             /\ r.oblast = d.oblast
=============================================================================
