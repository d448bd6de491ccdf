---------------------------- MODULE CatalogParser ----------------------------
(***************************************************************************)
(* catalog_parser.py: from the rows of the official spreadsheet to the     *)
(* definitions of the catalog.  The sheet names no parents: an area        *)
(* belongs to the last area of the next larger kind above it.  A row is    *)
(* its uid and type and whether it can be used (three cells, a numeric     *)
(* uid, a title, a known type); a definition's titles are left out.        *)
(***************************************************************************)
EXTENDS Integers, FiniteSets

CONSTANTS None,         \* Python's None
          Standalone,   \* oblasts that do not begin a block: uid "29"
          MinFull,      \* entries a full catalog has at least: 1500
          Anchors       \* definitions every full catalog has; a field that
                        \* is not checked is None

ASSUME ParserAssumption ==
  /\ MinFull \in Nat
  /\ IsFiniteSet(Anchors)
  /\ \E a \in Anchors : a.raion # None    \* "699", which lies in a raion

INSTANCE CatalogTree

NewParser == [seen |-> {}, oblast |-> None, raion |-> None, items |-> {}]

(* The location of a row under the headings above it.                      *)
Definition(row, oblast, raion) ==
  [uid |-> row.uid, type |-> row.type, oblast |-> oblast, raion |-> raion]

Skipped(p, row) == ~row.usable \/ row.uid \in p.seen

(* A raion without an oblast, a hromada without a raion.                   *)
Orphan(p, row) ==
  \/ row.type \in {"raion", "hromada"} /\ p.oblast = None
  \/ row.type = "hromada" /\ p.raion = None

(* Mistake: a new oblast keeps the raion of the one before.                *)
HeadingsKeepingRaion(p, row) ==
  CASE row.type = "oblast" /\ row.uid \notin Standalone ->
         [oblast |-> row.uid, raion |-> p.raion]
    [] row.type = "raion" -> [oblast |-> p.oblast, raion |-> row.uid]
    [] OTHER -> [oblast |-> p.oblast, raion |-> p.raion]

(* The headings for the rows below.                                        *)
Headings(p, row) ==
  CASE row.type = "oblast" /\ row.uid \notin Standalone ->
         [oblast |-> row.uid, raion |-> None]
    [] row.type = "raion" -> [oblast |-> p.oblast, raion |-> row.uid]
    [] OTHER -> [oblast |-> p.oblast, raion |-> p.raion]

Located(p, row) ==
  CASE row.type = "raion" -> Definition(row, p.oblast, None)
    [] row.type = "hromada" -> Definition(row, p.oblast, p.raion)
    [] OTHER -> Definition(row, None, None)

(* One turn of parse_catalog_csv's loop.  An orphan counts as seen.        *)
ParseRow(p, row) ==
  CASE Skipped(p, row) -> p
    [] ~Skipped(p, row) /\ Orphan(p, row) -> [p EXCEPT !.seen = @ \cup {row.uid}]
    [] OTHER -> [seen |-> p.seen \cup {row.uid},
                 oblast |-> Headings(p, row).oblast,
                 raion |-> Headings(p, row).raion,
                 items |-> p.items \cup {Located(p, row)}]

-----------------------------------------------------------------------------
(* validate_full_catalog, for a catalog that was downloaded.               *)
AnchorsHold(items) ==
  \A a \in Anchors : \E d \in items :
    /\ d.uid = a.uid
    /\ a.type # None => d.type = a.type
    /\ a.oblast # None => d.oblast = a.oblast
    /\ a.raion # None => d.raion = a.raion

ValidFullCatalog(items) == Cardinality(items) >= MinFull /\ AnchorsHold(items)

(* catalog_is_full, for a catalog that was stored or shipped.              *)
CatalogIsFull(items) ==
  /\ Cardinality(items) >= MinFull
  /\ \E d \in items : d.type = "hromada" /\ d.raion # None

=============================================================================
