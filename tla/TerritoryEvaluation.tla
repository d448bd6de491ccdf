------------------------- MODULE TerritoryEvaluation -------------------------
(***************************************************************************)
(* models.py, evaluate_location: what the shared snapshot means for each   *)
(* territory of the administrative catalog.  Every coordinator evaluates   *)
(* its own territory alone; nothing but this module's definitions makes    *)
(* their answers agree.  The snapshot grows by one parsed record per step, *)
(* so that every prefix of a snapshot is a snapshot that is checked.       *)
(***************************************************************************)
EXTENDS AlertTrackers, Sequences, FiniteSets

CONSTANTS Catalog,    \* location definitions as the catalog parser has them
          Records,    \* records a response may hold
          MaxRecords

INSTANCE CatalogTree

(* What parse_catalog_csv makes of any sheet (EveryCatalogIsSound of       *)
(* CatalogProofs).                                                         *)
ASSUME CatalogAssumption ==
  /\ IsFiniteSet(Catalog)
  /\ MaxRecords \in Nat
  /\ Hierarchical(Catalog)

(* A parsed time is a moment; what is no air-raid alert says so.           *)
ASSUME RecordAssumption ==
  \A record \in Records : record.airRaid \in BOOLEAN /\ record.start.time \in Int

VARIABLE alerts   \* ParsedSnapshot.alerts

-----------------------------------------------------------------------------
(* Scopes: location uids with their administrative distance.               *)

(* The location itself and the parents whose alerts cover it.              *)
ApplicableLocationChain(d) ==
  CASE d.type = "hromada" -> {[uid |-> d.uid, depth |-> 0],
                              [uid |-> d.raion, depth |-> 1],
                              [uid |-> d.oblast, depth |-> 2]}
    [] d.type = "raion" -> {[uid |-> d.uid, depth |-> 0],
                            [uid |-> d.oblast, depth |-> 1]}
    [] OTHER -> {[uid |-> d.uid, depth |-> 0]}

(* What lies inside a raion or an oblast.                                  *)
DescendantLocations(d) ==
  {item \in Catalog :
     \/ d.type = "raion" /\ item.type = "hromada" /\ item.raion = d.uid
     \/ /\ d.type = "oblast"
        /\ item.uid # d.uid
        /\ item.type \in {"raion", "hromada"}
        /\ item.oblast = d.uid}

DescendantScope(d) ==
  {[uid |-> item.uid, depth |-> IF item.type = "raion" THEN 1 ELSE 2] :
     item \in DescendantLocations(d)}

Uids(scope) == {s.uid : s \in scope}

DepthIn(scope, uid) == (CHOOSE s \in scope : s.uid = uid).depth

(* Indices of the air-raid rows that concern a scope.                      *)
Matching(scope) ==
  {i \in DOMAIN alerts : alerts[i].airRaid /\ alerts[i].uid \in Uids(scope)}

-----------------------------------------------------------------------------
(* The highest known level; "clear" if there is none.                      *)
MaxLevel(levels) ==
  LET known == (levels \cap ActiveLevels) \cup {"clear"}
  IN  CHOOSE level \in known :
        \A other \in known : Priority[other] <= Priority[level]

(* Mistake: a part at the level of the whole counts as above it.           *)
CoverageMixingTies(full, partial) ==
  CASE full = "clear" /\ partial = "clear" -> "none"
    [] full = "clear" /\ partial # "clear" -> "partial"
    [] full # "clear" /\ Priority[partial] >= Priority[full] -> "mixed"
    [] OTHER -> "full"

Coverage(full, partial) ==
  CASE full = "clear" /\ partial = "clear" -> "none"
    [] full = "clear" /\ partial # "clear" -> "partial"
    [] full # "clear" /\ Priority[partial] > Priority[full] -> "mixed"
    [] OTHER -> "full"

(* Mistake: the first row at the level wins, inside or outside.            *)
FirstIsMoreDecisive(i, j, chain, inside) == i <= j

(* Rows of the whole territory win ties, then the closest, then the first. *)
MoreDecisive(i, j, chain, inside) ==
  LET whole(k) == alerts[k].uid \in Uids(chain)
      depth(k) == DepthIn(IF whole(k) THEN chain ELSE inside, alerts[k].uid)
  IN  \/ whole(i) /\ ~whole(j)
      \/ whole(i) = whole(j) /\ depth(i) < depth(j)
      \/ whole(i) = whole(j) /\ depth(i) = depth(j) /\ i <= j

EarliestStart(rows) ==
  LET starts == {alerts[i].start : i \in rows} \ {NoTime}
  IN  IF starts = {} THEN NoTime
      ELSE CHOOSE s \in starts : \A other \in starts : s <= other

ClearState ==
  [valid |-> TRUE, level |-> "clear", full |-> "clear", partial |-> "clear",
   coverage |-> "none", scope |-> None, source |-> None, start |-> NoTime,
   threats |-> {}]

(* Mistake: the level that is not understood is shown all the same.        *)
InvalidStateWithLevel(rows) ==
  [valid |-> FALSE,
   level |-> (CHOOSE a \in {alerts[i] : i \in rows} :
                a.level \notin ActiveLevels).level,
   full |-> None, partial |-> None, coverage |-> None, scope |-> None,
   source |-> None, start |-> EarliestStart(rows),
   threats |-> UNION {alerts[i].threats : i \in rows}]

InvalidState(rows) ==
  [valid |-> FALSE, level |-> None, full |-> None, partial |-> None,
   coverage |-> None, scope |-> None, source |-> None,
   start |-> EarliestStart(rows),
   threats |-> UNION {alerts[i].threats : i \in rows}]

(* Where the named location lies, seen from the territory of the chain.    *)
ScopeOf(source, chain) ==
  CASE source \notin Uids(chain) -> "partial"
    [] source \in Uids(chain) /\ DepthIn(chain, source) = 0 -> "direct"
    [] OTHER -> "inherited"

ActiveState(chain, inside) ==
  LET rows == Matching(chain \cup inside)
      full == MaxLevel({alerts[i].level : i \in Matching(chain)})
      partial == MaxLevel({alerts[i].level : i \in Matching(inside)})
      level == MaxLevel({full, partial})
      candidates == {i \in rows : alerts[i].level = level}
      decisive == CHOOSE i \in candidates : \A j \in candidates :
                    MoreDecisive(i, j, chain, inside)
      source == alerts[decisive].uid
  IN  [valid |-> TRUE, level |-> level, full |-> full, partial |-> partial,
       coverage |-> Coverage(full, partial),
       scope |-> ScopeOf(source, chain),
       source |-> source,
       start |-> EarliestStart(rows),
       threats |-> UNION {alerts[i].threats : i \in rows}]

(* Mistake: unknown levels are passed over while a known one is left.      *)
EvaluateKnownRows(d) ==
  LET chain == ApplicableLocationChain(d)
      inside == DescendantScope(d)
      rows == Matching(chain \cup inside)
  IN  CASE rows = {} -> ClearState
        [] rows # {} /\ \A i \in rows : alerts[i].level \notin ActiveLevels
             -> InvalidState(rows)
        [] OTHER -> ActiveState(chain, inside)

(* One row with an unknown level spoils the whole evaluation.              *)
EvaluateLocation(d) ==
  LET chain == ApplicableLocationChain(d)
      inside == DescendantScope(d)
      rows == Matching(chain \cup inside)
  IN  CASE rows = {} -> ClearState
        [] \E i \in rows : alerts[i].level \notin ActiveLevels
             -> InvalidState(rows)
        [] OTHER -> ActiveState(chain, inside)

-----------------------------------------------------------------------------
Init == alerts = <<>>

(* Texts that are no date, or no moment because no time zone is given, are *)
(* treated as missing.  (A date that astimezone cannot convert raises an   *)
(* OverflowError and there is no snapshot: PollingRuntime's FetchDies.)    *)
ParseDatetime(stamp) == IF stamp.aware THEN stamp.time ELSE NoTime

(* Entries that are not usable are skipped without losing the others.      *)
ParseThreats(threats) ==
  {[type |-> t.type, level |-> t.level, start |-> ParseDatetime(t.start)] :
     t \in {t \in threats : t.usable}}

Row(record) ==
  [uid |-> record.uid, airRaid |-> record.airRaid, level |-> record.level,
   start |-> ParseDatetime(record.start),
   threats |-> ParseThreats(record.threats)]

(* Every record becomes a row, whatever is wrong with its fields.          *)
ParseRecord(record) ==
  /\ Len(alerts) < MaxRecords
  /\ alerts' = Append(alerts, Row(record))

Next == \E record \in Records : ParseRecord(record)

Spec == Init /\ [][Next]_alerts

-----------------------------------------------------------------------------
TypeOK ==
  \A d \in Catalog :
    EvaluateLocation(d) \in
      [valid : BOOLEAN, level : Levels \cup {None}, full : Levels \cup {None},
       partial : Levels \cup {None},
       coverage : {"none", "full", "partial", "mixed", None},
       scope : {"direct", "inherited", "partial", None},
       source : Uids(Catalog) \cup {None},
       start : {ParseDatetime(r.start) : r \in Records} \cup {NoTime},
       threats : SUBSET UNION {ParseThreats(r.threats) : r \in Records}]

(* README, Administrative inheritance: an area's answer, when it has one,  *)
(* never understates that of a place inside it (whose scope is smaller),   *)
(* and what covers the whole area covers the place.  The place knows the   *)
(* level, no threat the area does not name and no earlier start.           *)
AreaIncludesItsPlaces ==
  \A area \in Catalog : \A place \in DescendantLocations(area) :
    LET a == EvaluateLocation(area)
        p == EvaluateLocation(place)
    IN  a.valid =>
          /\ p.valid
          /\ Priority[p.level] <= Priority[a.level]
          /\ Priority[p.full] >= Priority[a.full]
          /\ p.threats \subseteq a.threats
          /\ p.start # NoTime => a.start # NoTime /\ a.start <= p.start

(* README, coverage codes: "full" says that every place inside shows the   *)
(* area's level; "partial" and "mixed" that some place shows a level which *)
(* the area as a whole does not have; "none" that everything is clear.     *)
CoverageAgreesWithPlaces ==
  \A area \in Catalog :
    LET a == EvaluateLocation(area)
        places == DescendantLocations(area)
        level(place) == EvaluateLocation(place).level
    IN  /\ a.coverage \in {"none", "full"} =>
             \A place \in places : level(place) = a.level
        /\ a.coverage \in {"partial", "mixed"} =>
             /\ \E place \in places : level(place) = a.level
             /\ Priority[a.full] < Priority[a.level]
        /\ a.coverage = "partial" <=> a.valid /\ a.full = "clear"
                                              /\ a.level # "clear"

(* An area and the places inside it tell one story, though coordinators    *)
(* that know nothing of each other evaluate them.                          *)
AreasAgreeWithPlaces == AreaIncludesItsPlaces /\ CoverageAgreesWithPlaces

(* The location named as the source of an alert accounts for it: if it can *)
(* be evaluated itself, it shows that level for the whole of its territory *)
(* and names itself, and the scope tells where it lies.                    *)
SourceAccountsForLevel ==
  \A d \in Catalog :
    LET state == EvaluateLocation(d) IN
    state.source # None =>
      \E s \in Catalog :
        LET named == EvaluateLocation(s) IN
        /\ s.uid = state.source
        /\ named.valid => /\ named.full = state.level
                          /\ named.level = state.level => named.scope = "direct"
        /\ state.scope = "direct" <=> s = d
        /\ state.scope = "inherited" <=> d \in DescendantLocations(s)
        /\ state.scope = "partial" <=> s \in DescendantLocations(d)
        /\ state.scope = "partial" <=> state.coverage \in {"partial", "mixed"}

(* Bad data stays local: a row with an unknown level takes the answer away *)
(* from the places that may be concerned, the row's own place, what lies   *)
(* inside it and what it lies in, and from no other.                       *)
InvalidRowsStayLocal ==
  \A d \in Catalog :
    ~EvaluateLocation(d).valid <=>
      \E i \in DOMAIN alerts : \E s \in Catalog :
        /\ alerts[i].airRaid
        /\ alerts[i].level \notin ActiveLevels
        /\ s.uid = alerts[i].uid
        /\ \/ s = d
           \/ d \in DescendantLocations(s)
           \/ s \in DescendantLocations(d)
=============================================================================
