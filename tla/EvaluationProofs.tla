--------------------------- MODULE EvaluationProofs ---------------------------
(***************************************************************************)
(* Theorems about the evaluation of territories, for every catalog the     *)
(* parser can produce and snapshots of any records and any length.  The    *)
(* answers of two territories agree because their scopes do: the theorems  *)
(* rest on the tree the catalog is and on what MaxLevel, EarliestStart and *)
(* the decisive row are of a set of rows.                                  *)
(***************************************************************************)
EXTENDS TerritoryEvaluation, Maxima, SequenceTheorems

-----------------------------------------------------------------------------
(* The catalog is a tree.                                                  *)

LEMMA CatalogIsTree ==
  /\ \A c, d \in Catalog : c.uid = d.uid => c = d
  /\ \A d \in Catalog :
       /\ d.type \in Types
       /\ d.type \in {"oblast", "city"} => d.oblast = None /\ d.raion = None
       /\ d.type = "raion" =>
            /\ d.raion = None
            /\ \E o \in Catalog : o.type = "oblast" /\ o.uid = d.oblast
       /\ d.type = "hromada" =>
            \E r \in Catalog : /\ r.type = "raion"
                               /\ r.uid = d.raion
                               /\ r.oblast = d.oblast
BY CatalogAssumption, Zenon DEF Hierarchical

LEMMA SameUid ==
  \A c, d \in Catalog : c.uid = d.uid => c = d
BY CatalogIsTree

(* What lies inside a location, by its type alone.                         *)
LEMMA InsideByType ==
  ASSUME NEW a \in Catalog, NEW p \in Catalog
  PROVE  p \in DescendantLocations(a) <=>
           \/ a.type = "raion" /\ p.type = "hromada" /\ p.raion = a.uid
           \/ /\ a.type = "oblast" /\ p.type \in {"raion", "hromada"}
              /\ p.oblast = a.uid
<1>1. p.uid = a.uid => p = a
  BY CatalogIsTree
<1>2. ~(a.type = "oblast" /\ a.type \in {"raion", "hromada"})
  OBVIOUS
<1> QED
  BY <1>1, <1>2 DEF DescendantLocations

LEMMA InsideIsInCatalog ==
  \A d : DescendantLocations(d) \subseteq Catalog
BY DEF DescendantLocations

(* A hromada of an oblast's raion is a hromada of the oblast.              *)
LEMMA InsideIsTransitive ==
  ASSUME NEW a \in Catalog, NEW b \in Catalog, NEW c \in Catalog,
         b \in DescendantLocations(a), c \in DescendantLocations(b)
  PROVE  c \in DescendantLocations(a)
<1>1. a.type = "oblast" /\ b.type = "raion" /\ b.oblast = a.uid
  BY InsideByType
<1>2. c.type = "hromada" /\ c.raion = b.uid
  BY <1>1, InsideByType
<1>3. PICK r \in Catalog : r.uid = c.raion /\ r.oblast = c.oblast
  BY <1>2, CatalogIsTree
<1>4. r = b
  BY <1>2, <1>3, CatalogIsTree
<1> QED
  BY <1>1, <1>2, <1>3, <1>4, InsideByType

(* Nothing lies inside itself or inside what it has inside.                *)
LEMMA InsideIsStrict ==
  ASSUME NEW a \in Catalog, NEW b \in Catalog, b \in DescendantLocations(a)
  PROVE  a # b /\ a \notin DescendantLocations(b)
BY InsideByType

(* Two locations that have a third inside are inside one another.          *)
LEMMA InsideIsTree ==
  ASSUME NEW a \in Catalog, NEW b \in Catalog, NEW c \in Catalog,
         c \in DescendantLocations(a), c \in DescendantLocations(b), a # b
  PROVE  a \in DescendantLocations(b) \/ b \in DescendantLocations(a)
<1>1. ASSUME NEW x \in Catalog, NEW y \in Catalog, x # y,
             c \in DescendantLocations(x), c \in DescendantLocations(y),
             x.type = "raion"
      PROVE  x \in DescendantLocations(y)
  <2>1. c.type = "hromada" /\ c.raion = x.uid
    BY <1>1, InsideByType
  <2>2. PICK r \in Catalog : r.uid = c.raion /\ r.oblast = c.oblast
    BY <2>1, CatalogIsTree
  <2>3. r = x
    BY <2>1, <2>2, <1>1, CatalogIsTree
  <2>4. y.type # "raion"
    <3> SUFFICES ASSUME y.type = "raion" PROVE FALSE
      OBVIOUS
    <3>1. c.raion = y.uid
      BY <1>1, InsideByType
    <3>2. x.uid = y.uid
      BY <3>1, <2>1
    <3> QED
      BY <3>2, <1>1, SameUid
  <2>5. y.type = "oblast" /\ c.oblast = y.uid
    BY <2>4, <1>1, InsideByType
  <2> QED
    BY <2>2, <2>3, <2>5, <1>1, InsideByType
<1>2. CASE a.type = "raion"
  BY <1>1, <1>2
<1>3. CASE b.type = "raion"
  BY <1>1, <1>3
<1>4. CASE a.type # "raion" /\ b.type # "raion"
  <2>1. c.oblast = a.uid /\ c.oblast = b.uid
    BY <1>4, InsideByType
  <2> QED
    BY <2>1, SameUid
<1> QED
  BY <1>2, <1>3, <1>4

-----------------------------------------------------------------------------
(* Scopes hold the uids of the locations they are about.                   *)

LEMMA UidsByMember ==
  ASSUME NEW scope, NEW uid
  PROVE  uid \in Uids(scope) <=> \E s \in scope : s.uid = uid
BY DEF Uids

LEMMA UidsOfFew ==
  \A r, s, t : /\ Uids({r}) = {r.uid}
               /\ Uids({r, s}) = {r.uid, s.uid}
               /\ Uids({r, s, t}) = {r.uid, s.uid, t.uid}
BY DEF Uids

LEMMA UidsOfUnion ==
  ASSUME NEW A, NEW B
  PROVE  Uids(A \cup B) = Uids(A) \cup Uids(B)
BY DEF Uids

(* The chain of a location: itself and what it lies in.                    *)
LEMMA ChainByLocation ==
  ASSUME NEW d \in Catalog, NEW s \in Catalog
  PROVE  s.uid \in Uids(ApplicableLocationChain(d)) <=>
           s = d \/ d \in DescendantLocations(s)
<1>1. CASE d.type = "hromada"
  <2> DEFINE self == [uid |-> d.uid, depth |-> 0]
             parent == [uid |-> d.raion, depth |-> 1]
             top == [uid |-> d.oblast, depth |-> 2]
  <2>0. self.uid = d.uid /\ parent.uid = d.raion /\ top.uid = d.oblast
    OBVIOUS
  <2>1. ApplicableLocationChain(d) = {self, parent, top}
    BY <1>1, Zenon DEF ApplicableLocationChain
  <2> HIDE DEF self, parent, top
  <2>2. Uids(ApplicableLocationChain(d)) = {d.uid, d.raion, d.oblast}
    BY <2>0, <2>1, UidsOfFew
  <2>3. PICK r \in Catalog : /\ r.type = "raion" /\ r.uid = d.raion
                             /\ r.oblast = d.oblast
    BY <1>1, CatalogIsTree
  <2>4. PICK o \in Catalog : o.type = "oblast" /\ o.uid = r.oblast
    BY <2>3, CatalogIsTree
  <2>5. /\ s.uid = d.uid => s = d
        /\ s.uid = r.uid => s = r
        /\ s.uid = o.uid => s = o
    BY CatalogIsTree
  <2> QED
    BY <1>1, <2>2, <2>3, <2>4, <2>5, InsideByType
<1>2. CASE d.type = "raion"
  <2> DEFINE self == [uid |-> d.uid, depth |-> 0]
             parent == [uid |-> d.oblast, depth |-> 1]
  <2>0. self.uid = d.uid /\ parent.uid = d.oblast
    OBVIOUS
  <2>1. ApplicableLocationChain(d) = {self, parent}
    BY <1>2, Zenon DEF ApplicableLocationChain
  <2> HIDE DEF self, parent
  <2>2. Uids(ApplicableLocationChain(d)) = {d.uid, d.oblast}
    BY <2>0, <2>1, UidsOfFew
  <2>3. PICK o \in Catalog : o.type = "oblast" /\ o.uid = d.oblast
    BY <1>2, CatalogIsTree
  <2>4. /\ s.uid = d.uid => s = d
        /\ s.uid = o.uid => s = o
    BY CatalogIsTree
  <2> QED
    BY <1>2, <2>2, <2>3, <2>4, InsideByType
<1>3. CASE d.type \notin {"hromada", "raion"}
  <2> DEFINE self == [uid |-> d.uid, depth |-> 0]
  <2>0. self.uid = d.uid
    OBVIOUS
  <2>1. ApplicableLocationChain(d) = {self}
    BY <1>3, Zenon DEF ApplicableLocationChain
  <2> HIDE DEF self
  <2>2. Uids(ApplicableLocationChain(d)) = {d.uid}
    BY <2>0, <2>1, UidsOfFew
  <2>3. s.uid = d.uid => s = d
    BY CatalogIsTree
  <2> QED
    BY <1>3, <2>2, <2>3, InsideByType
<1> QED
  BY <1>1, <1>2, <1>3

(* The chain's members are locations of the catalog, the location itself   *)
(* at the distance 0.                                                      *)
LEMMA ChainMembers ==
  ASSUME NEW d \in Catalog, NEW c \in ApplicableLocationChain(d)
  PROVE  /\ c.depth \in Nat
         /\ c.depth = 0 <=> c.uid = d.uid
         /\ \E s \in Catalog : s.uid = c.uid
<1>1. CASE d.type = "hromada"
  <2>1. c \in {[uid |-> d.uid, depth |-> 0], [uid |-> d.raion, depth |-> 1],
               [uid |-> d.oblast, depth |-> 2]}
    BY <1>1, Zenon DEF ApplicableLocationChain
  <2>2. PICK r \in Catalog : /\ r.type = "raion" /\ r.uid = d.raion
                             /\ r.oblast = d.oblast
    BY <1>1, CatalogIsTree
  <2>3. PICK o \in Catalog : o.type = "oblast" /\ o.uid = r.oblast
    BY <2>2, CatalogIsTree
  <2>4. r.uid # d.uid /\ o.uid # d.uid
    BY <1>1, <2>2, <2>3, SameUid
  <2> QED
    BY <2>1, <2>2, <2>3, <2>4
<1>2. CASE d.type = "raion"
  <2>1. c \in {[uid |-> d.uid, depth |-> 0], [uid |-> d.oblast, depth |-> 1]}
    BY <1>2, Zenon DEF ApplicableLocationChain
  <2>2. PICK o \in Catalog : o.type = "oblast" /\ o.uid = d.oblast
    BY <1>2, CatalogIsTree
  <2>3. o.uid # d.uid
    BY <1>2, <2>2, SameUid
  <2> QED
    BY <2>1, <2>2, <2>3
<1>3. CASE d.type \notin {"hromada", "raion"}
  <2>1. c \in {[uid |-> d.uid, depth |-> 0]}
    BY <1>3, Zenon DEF ApplicableLocationChain
  <2> QED
    BY <2>1
<1> QED
  BY <1>1, <1>2, <1>3

(* The scope of what lies inside.                                          *)
LEMMA ScopeMembers ==
  ASSUME NEW d, NEW c \in DescendantScope(d)
  PROVE  /\ c.depth \in Nat
         /\ \E s \in DescendantLocations(d) : s.uid = c.uid
<1>1. PICK s \in DescendantLocations(d) :
        c = [uid |-> s.uid, depth |-> IF s.type = "raion" THEN 1 ELSE 2]
  BY DEF DescendantScope
<1> QED
  BY <1>1

LEMMA ScopeByLocation ==
  ASSUME NEW d \in Catalog, NEW s \in Catalog
  PROVE  s.uid \in Uids(DescendantScope(d)) <=> s \in DescendantLocations(d)
<1>1. ASSUME s.uid \in Uids(DescendantScope(d))
      PROVE  s \in DescendantLocations(d)
  <2>1. PICK c \in DescendantScope(d) : c.uid = s.uid
    BY <1>1, UidsByMember
  <2>2. PICK t \in DescendantLocations(d) : t.uid = c.uid
    BY ScopeMembers
  <2> QED
    BY <2>1, <2>2, SameUid, InsideIsInCatalog
<1>2. ASSUME s \in DescendantLocations(d)
      PROVE  s.uid \in Uids(DescendantScope(d))
  <2> DEFINE c == [uid |-> s.uid, depth |-> IF s.type = "raion" THEN 1 ELSE 2]
  <2>1. c \in DescendantScope(d) /\ c.uid = s.uid
    BY <1>2 DEF DescendantScope
  <2> HIDE DEF c
  <2> QED
    BY <2>1, UidsByMember
<1> QED
  BY <1>1, <1>2

(* The uids of both scopes are uids of the catalog, and no location is in  *)
(* both.                                                                   *)
LEMMA ScopesAreOfCatalog ==
  ASSUME NEW d \in Catalog,
         NEW uid \in Uids(ApplicableLocationChain(d)) \cup Uids(DescendantScope(d))
  PROVE  \E s \in Catalog : s.uid = uid
<1>1. CASE uid \in Uids(ApplicableLocationChain(d))
  <2>1. PICK c \in ApplicableLocationChain(d) : c.uid = uid
    BY <1>1, UidsByMember
  <2> QED
    BY <2>1, ChainMembers
<1>2. CASE uid \in Uids(DescendantScope(d))
  <2>1. PICK c \in DescendantScope(d) : c.uid = uid
    BY <1>2, UidsByMember
  <2> QED
    BY <2>1, ScopeMembers, InsideIsInCatalog
<1> QED
  BY <1>1, <1>2

LEMMA ScopesAreDisjoint ==
  ASSUME NEW d \in Catalog, NEW uid \in Uids(DescendantScope(d))
  PROVE  uid \notin Uids(ApplicableLocationChain(d))
<1>1. PICK s \in Catalog : s.uid = uid
  BY ScopesAreOfCatalog
<1>2. s \in DescendantLocations(d)
  BY <1>1, ScopeByLocation
<1>3. s # d /\ d \notin DescendantLocations(s)
  BY <1>2, InsideIsStrict
<1> QED
  BY <1>1, <1>3, ChainByLocation

(* DepthIn finds the distance of every uid of a scope.                     *)
LEMMA DepthOfMember ==
  ASSUME NEW scope, NEW uid \in Uids(scope)
  PROVE  \E c \in scope : c.uid = uid /\ DepthIn(scope, uid) = c.depth
<1>1. \E c \in scope : c.uid = uid
  BY UidsByMember
<1> DEFINE found == CHOOSE c \in scope : c.uid = uid
<1>2. found \in scope /\ found.uid = uid
  BY <1>1
<1>3. DepthIn(scope, uid) = found.depth
  BY DEF DepthIn
<1> QED
  BY <1>2, <1>3

LEMMA DepthInChain ==
  ASSUME NEW d \in Catalog, NEW uid \in Uids(ApplicableLocationChain(d))
  PROVE  /\ DepthIn(ApplicableLocationChain(d), uid) \in Nat
         /\ DepthIn(ApplicableLocationChain(d), uid) = 0 <=> uid = d.uid
<1>1. PICK c \in ApplicableLocationChain(d) :
        c.uid = uid /\ DepthIn(ApplicableLocationChain(d), uid) = c.depth
  BY DepthOfMember
<1> QED
  BY <1>1, ChainMembers

LEMMA DepthInScope ==
  ASSUME NEW d, NEW uid \in Uids(DescendantScope(d))
  PROVE  DepthIn(DescendantScope(d), uid) \in Nat
<1>1. PICK c \in DescendantScope(d) :
        c.uid = uid /\ DepthIn(DescendantScope(d), uid) = c.depth
  BY DepthOfMember
<1> QED
  BY <1>1, ScopeMembers

(* What concerns the whole of an area concerns the whole of a place in it; *)
(* what concerns the place at all concerns the area.                       *)
LEMMA ChainGrowsInward ==
  ASSUME NEW area \in Catalog, NEW place \in DescendantLocations(area)
  PROVE  Uids(ApplicableLocationChain(area))
           \subseteq Uids(ApplicableLocationChain(place))
<1>0. place \in Catalog
  BY InsideIsInCatalog
<1>1. SUFFICES ASSUME NEW uid \in Uids(ApplicableLocationChain(area))
               PROVE  uid \in Uids(ApplicableLocationChain(place))
  OBVIOUS
<1>2. PICK s \in Catalog : s.uid = uid
  BY ScopesAreOfCatalog
<1>3. s = area \/ area \in DescendantLocations(s)
  BY <1>2, ChainByLocation
<1>4. place \in DescendantLocations(s)
  BY <1>0, <1>3, InsideIsTransitive
<1> QED
  BY <1>0, <1>2, <1>4, ChainByLocation

LEMMA ScopesShrinkInward ==
  ASSUME NEW area \in Catalog, NEW place \in DescendantLocations(area)
  PROVE  Uids(ApplicableLocationChain(place)) \cup Uids(DescendantScope(place))
           \subseteq Uids(ApplicableLocationChain(area))
                       \cup Uids(DescendantScope(area))
<1>0. place \in Catalog
  BY InsideIsInCatalog
<1>1. SUFFICES ASSUME NEW uid \in Uids(ApplicableLocationChain(place))
                                   \cup Uids(DescendantScope(place))
               PROVE  uid \in Uids(ApplicableLocationChain(area))
                                \cup Uids(DescendantScope(area))
  OBVIOUS
<1>2. PICK s \in Catalog : s.uid = uid
  BY <1>0, ScopesAreOfCatalog
<1>3. \/ s = place
      \/ place \in DescendantLocations(s)
      \/ s \in DescendantLocations(place)
  BY <1>0, <1>2, ChainByLocation, ScopeByLocation
<1>4. \/ s = area
      \/ area \in DescendantLocations(s)
      \/ s \in DescendantLocations(area)
  BY <1>0, <1>3, InsideIsTransitive, InsideIsTree
<1> QED
  BY <1>2, <1>4, ChainByLocation, ScopeByLocation

-----------------------------------------------------------------------------
(* Levels.                                                                 *)

(* Levels are ordered by their priorities.                                 *)
LEMMA LevelOrder ==
  /\ \A level \in Levels : Priority[level] \in 0..2
  /\ \A level \in Levels : Priority["clear"] <= Priority[level]
  /\ \A k, l \in Levels : Priority[k] = Priority[l] => k = l
  /\ ActiveLevels = Levels \ {"clear"}
BY DEF Levels, ActiveLevels, Priority

(* MaxLevel is the highest of the known levels, "clear" for want of any.   *)
LEMMA MaxLevelIsHighest ==
  ASSUME NEW levels
  PROVE  /\ MaxLevel(levels) \in Levels
         /\ MaxLevel(levels) # "clear" => MaxLevel(levels) \in levels
         /\ \A level \in levels \cap Levels :
              Priority[level] <= Priority[MaxLevel(levels)]
<1> DEFINE known == (levels \cap ActiveLevels) \cup {"clear"}
           Highest(l) == \A other \in known : Priority[other] <= Priority[l]
<1>1. known \subseteq Levels /\ levels \cap Levels \subseteq known
  BY DEF Levels, ActiveLevels
<1>2. \E l \in known : Highest(l)
  <2>1. CASE "red" \in known
    BY <1>1, <2>1 DEF Levels, Priority
  <2>2. CASE "red" \notin known /\ "yellow" \in known
    BY <1>1, <2>2 DEF Levels, Priority
  <2>3. CASE "red" \notin known /\ "yellow" \notin known
    BY <1>1, <2>3 DEF Levels, Priority
  <2> QED
    BY <2>1, <2>2, <2>3
<1>3. MaxLevel(levels) = CHOOSE l \in known : Highest(l)
  BY DEF MaxLevel
<1> HIDE DEF Highest
<1>4. MaxLevel(levels) \in known /\ Highest(MaxLevel(levels))
  BY <1>2, <1>3
<1> USE DEF Highest
<1> QED
  BY <1>1, <1>4

-----------------------------------------------------------------------------
(* Rows.                                                                   *)

Rows == {Row(record) : record \in Records}

(* The snapshot holds rows that were parsed.                               *)
RowsInv == alerts \in Seq(Rows)

LEMMA RowsAreTyped ==
  ASSUME RowsInv
  PROVE  /\ IsFiniteSet(DOMAIN alerts)
         /\ DOMAIN alerts \subseteq Nat
         /\ \A i \in DOMAIN alerts :
              /\ \E record \in Records : alerts[i] = Row(record)
              /\ alerts[i].airRaid \in BOOLEAN
              /\ alerts[i].start \in Int
<1>1. PICK n \in Nat : DOMAIN alerts = 1..n
  BY DEF RowsInv
<1>2. IsFiniteSet(1..n)
  BY FS_Interval
<1>3. ASSUME NEW i \in DOMAIN alerts
      PROVE  /\ \E record \in Records : alerts[i] = Row(record)
             /\ alerts[i].airRaid \in BOOLEAN
             /\ alerts[i].start \in Int
  <2>1. alerts[i] \in Rows
    BY DEF RowsInv
  <2>2. PICK record \in Records : alerts[i] = Row(record)
    BY <2>1 DEF Rows
  <2>3. /\ alerts[i].airRaid = record.airRaid
        /\ alerts[i].start = ParseDatetime(record.start)
    BY <2>2 DEF Row
  <2>4. record.airRaid \in BOOLEAN /\ record.start.time \in Int
    BY RecordAssumption
  <2>5. ParseDatetime(record.start) \in Int
    BY <2>4 DEF ParseDatetime, NoTime
  <2> QED
    BY <2>2, <2>3, <2>4, <2>5
<1> QED
  BY <1>1, <1>2, <1>3

LEMMA MatchingRows ==
  ASSUME NEW scope, NEW i
  PROVE  i \in Matching(scope) <=>
           /\ i \in DOMAIN alerts
           /\ alerts[i].airRaid
           /\ alerts[i].uid \in Uids(scope)
BY Zenon DEF Matching

LEMMA MatchingUnion ==
  ASSUME NEW A, NEW B
  PROVE  Matching(A \cup B) = Matching(A) \cup Matching(B)
BY MatchingRows, UidsOfUnion

LEMMA MatchingGrows ==
  ASSUME NEW A, NEW B, Uids(A) \subseteq Uids(B)
  PROVE  Matching(A) \subseteq Matching(B)
BY MatchingRows

(* EarliestStart is the least of the starts that are known.                *)
LEMMA EarliestStartIsLeast ==
  ASSUME RowsInv, NEW rows \in SUBSET DOMAIN alerts
  PROVE  /\ \/ EarliestStart(rows) = NoTime
            \/ \E i \in rows : alerts[i].start = EarliestStart(rows)
         /\ \A i \in rows : alerts[i].start # NoTime =>
              /\ EarliestStart(rows) # NoTime
              /\ EarliestStart(rows) <= alerts[i].start
<1> DEFINE starts == {alerts[i].start : i \in rows} \ {NoTime}
           known == {i \in rows : alerts[i].start # NoTime}
           exceeds == {e \in known \X known :
                         alerts[e[2]].start < alerts[e[1]].start}
           Least(s) == \A other \in starts : s <= other
<1>1. CASE known = {}
  BY <1>1 DEF EarliestStart
<1>2. CASE known # {}
  <2>1. IsFiniteSet(known)
    BY RowsAreTyped, FS_Subset
  <2>2. \A i \in rows : alerts[i].start \in Int
    BY RowsAreTyped
  <2>3. /\ \A i \in known : <<i, i>> \notin exceeds
        /\ \A i, j, k \in known :
             <<i, j>> \in exceeds /\ <<j, k>> \in exceeds => <<i, k>> \in exceeds
    BY <2>2
  <2>4. PICK i \in known : \A j \in known : <<i, j>> \notin exceeds
    <3> HIDE DEF known, exceeds
    <3> QED
      BY <1>2, <2>1, <2>3, MaximalElement
  <2>5. ASSUME NEW j \in known
        PROVE  alerts[i].start <= alerts[j].start
    <3>1. ~(alerts[j].start < alerts[i].start)
      BY <2>4
    <3> QED
      BY <2>2, <3>1
  <2>6. alerts[i].start \in starts /\ Least(alerts[i].start)
    BY <2>5
  <2>7. EarliestStart(rows) = CHOOSE s \in starts : Least(s)
    BY <2>6 DEF EarliestStart
  <2> HIDE DEF Least
  <2>8. EarliestStart(rows) \in starts /\ Least(EarliestStart(rows))
    BY <2>6, <2>7
  <2> USE DEF Least
  <2>9. \A j \in rows : alerts[j].start # NoTime => alerts[j].start \in starts
    OBVIOUS
  <2> QED
    BY <2>8, <2>9
<1> QED
  BY <1>1, <1>2

-----------------------------------------------------------------------------
(* The rows of a location and what the evaluation makes of them.           *)

(* The rows about the whole of a location, those about what lies inside it *)
(* and all that concern it.                                                *)
Covering(d) == Matching(ApplicableLocationChain(d))
Within(d) == Matching(DescendantScope(d))
Concerning(d) == Matching(ApplicableLocationChain(d) \cup DescendantScope(d))

LEMMA RowsByScope ==
  ASSUME NEW d \in Catalog
  PROVE  /\ Concerning(d) = Covering(d) \cup Within(d)
         /\ Concerning(d) \subseteq DOMAIN alerts
         /\ \A i \in Within(d) :
              alerts[i].uid \notin Uids(ApplicableLocationChain(d))
         /\ \A i \in Concerning(d) : \E s \in Catalog : s.uid = alerts[i].uid
<1>1. Concerning(d) = Covering(d) \cup Within(d)
  BY MatchingUnion, Zenon DEF Concerning, Covering, Within
<1>2. Concerning(d) \subseteq DOMAIN alerts
  BY MatchingRows DEF Concerning
<1>3. ASSUME NEW i \in Within(d)
      PROVE  alerts[i].uid \notin Uids(ApplicableLocationChain(d))
  <2>1. alerts[i].uid \in Uids(DescendantScope(d))
    BY MatchingRows DEF Within
  <2> QED
    BY <2>1, ScopesAreDisjoint
<1>4. ASSUME NEW i \in Concerning(d)
      PROVE  \E s \in Catalog : s.uid = alerts[i].uid
  <2>1. alerts[i].uid \in Uids(ApplicableLocationChain(d) \cup DescendantScope(d))
    BY MatchingRows DEF Concerning
  <2>2. alerts[i].uid \in Uids(ApplicableLocationChain(d))
                            \cup Uids(DescendantScope(d))
    BY <2>1, UidsOfUnion
  <2> QED
    BY <2>2, ScopesAreOfCatalog
<1> QED
  BY <1>1, <1>2, <1>3, <1>4

(* A row concerns the location it names, all that lies inside that and all *)
(* that it lies in; it covers the first two.                               *)
LEMMA RowsByLocation ==
  ASSUME NEW d \in Catalog, NEW s \in Catalog, NEW i \in DOMAIN alerts,
         alerts[i].uid = s.uid
  PROVE  /\ i \in Covering(d) <=>
              alerts[i].airRaid /\ (s = d \/ d \in DescendantLocations(s))
         /\ i \in Within(d) <=>
              alerts[i].airRaid /\ s \in DescendantLocations(d)
BY MatchingRows, ChainByLocation, ScopeByLocation DEF Covering, Within

LEMMA RowsGrowInward ==
  ASSUME NEW area \in Catalog, NEW place \in DescendantLocations(area)
  PROVE  /\ Covering(area) \subseteq Covering(place)
         /\ Concerning(place) \subseteq Concerning(area)
<1>0. place \in Catalog
  BY InsideIsInCatalog
<1>1. Covering(area) \subseteq Covering(place)
  BY ChainGrowsInward, MatchingGrows DEF Covering
<1>2. Uids(ApplicableLocationChain(place) \cup DescendantScope(place))
        \subseteq Uids(ApplicableLocationChain(area) \cup DescendantScope(area))
  BY ScopesShrinkInward, UidsOfUnion
<1>3. Concerning(place) \subseteq Concerning(area)
  BY <1>2, MatchingGrows DEF Concerning
<1> QED
  BY <1>1, <1>3

(* The three outcomes.                                                     *)
LEMMA EvaluationByRows ==
  ASSUME NEW d
  PROVE  /\ Concerning(d) = {} => EvaluateLocation(d) = ClearState
         /\ (\E i \in Concerning(d) : alerts[i].level \notin ActiveLevels) =>
              EvaluateLocation(d) = InvalidState(Concerning(d))
         /\ /\ Concerning(d) # {}
            /\ \A i \in Concerning(d) : alerts[i].level \in ActiveLevels
            => EvaluateLocation(d) = ActiveState(ApplicableLocationChain(d),
                                                 DescendantScope(d))
<1>1. Concerning(d) = {} => EvaluateLocation(d) = ClearState
  BY Zenon DEF EvaluateLocation, Concerning
<1>2. (\E i \in Concerning(d) : alerts[i].level \notin ActiveLevels) =>
        EvaluateLocation(d) = InvalidState(Concerning(d))
  BY Zenon DEF EvaluateLocation, Concerning
<1>3. /\ Concerning(d) # {}
      /\ \A i \in Concerning(d) : alerts[i].level \in ActiveLevels
      => EvaluateLocation(d) = ActiveState(ApplicableLocationChain(d),
                                           DescendantScope(d))
  BY Zenon DEF EvaluateLocation, Concerning
<1> QED
  BY <1>1, <1>2, <1>3

LevelsOf(rows) == {alerts[i].level : i \in rows}

(* The row that an evaluation names.                                       *)
Candidates(d) ==
  {i \in Concerning(d) :
     alerts[i].level = MaxLevel({MaxLevel(LevelsOf(Covering(d))),
                                 MaxLevel(LevelsOf(Within(d)))})}
DecisiveOf(d) ==
  CHOOSE i \in Candidates(d) : \A j \in Candidates(d) :
    MoreDecisive(i, j, ApplicableLocationChain(d), DescendantScope(d))

LEMMA ActiveStateByRows ==
  ASSUME NEW d, NEW state,
         state = ActiveState(ApplicableLocationChain(d), DescendantScope(d))
  PROVE  /\ state.valid = TRUE
         /\ state.full = MaxLevel(LevelsOf(Covering(d)))
         /\ state.partial = MaxLevel(LevelsOf(Within(d)))
         /\ state.level = MaxLevel({state.full, state.partial})
         /\ state.coverage = Coverage(state.full, state.partial)
         /\ state.source = alerts[DecisiveOf(d)].uid
         /\ state.scope = ScopeOf(state.source, ApplicableLocationChain(d))
         /\ state.start = EarliestStart(Concerning(d))
         /\ state.threats = UNION {alerts[i].threats : i \in Concerning(d)}
         /\ state = [valid |-> state.valid, level |-> state.level,
                     full |-> state.full, partial |-> state.partial,
                     coverage |-> state.coverage, scope |-> state.scope,
                     source |-> state.source, start |-> state.start,
                     threats |-> state.threats]
BY DEF ActiveState, LevelsOf, Covering, Within, Concerning, Candidates,
       DecisiveOf

LEMMA ValidByRows ==
  ASSUME NEW d
  PROVE  /\ EvaluateLocation(d).valid \in BOOLEAN
         /\ EvaluateLocation(d).valid <=>
              \A i \in Concerning(d) : alerts[i].level \in ActiveLevels
<1>1. CASE Concerning(d) = {}
  <2>1. EvaluateLocation(d) = ClearState
    BY <1>1, EvaluationByRows
  <2>2. ClearState.valid = TRUE
    BY DEF ClearState
  <2> QED
    BY <1>1, <2>1, <2>2
<1>2. CASE \E i \in Concerning(d) : alerts[i].level \notin ActiveLevels
  <2>1. EvaluateLocation(d) = InvalidState(Concerning(d))
    BY <1>2, EvaluationByRows
  <2>2. InvalidState(Concerning(d)).valid = FALSE
    BY DEF InvalidState
  <2> QED
    BY <1>2, <2>1, <2>2
<1>3. CASE /\ Concerning(d) # {}
           /\ \A i \in Concerning(d) : alerts[i].level \in ActiveLevels
  <2>1. EvaluateLocation(d).valid = TRUE
    BY <1>3, EvaluationByRows, ActiveStateByRows
  <2> QED
    BY <1>3, <2>1
<1> QED
  BY <1>1, <1>2, <1>3

(* What a valid state says of the rows, whether there are any or not.      *)
LEMMA ValidState ==
  ASSUME RowsInv, NEW d \in Catalog, NEW e, e = EvaluateLocation(d), e.valid
  PROVE  /\ e.full = MaxLevel(LevelsOf(Covering(d)))
         /\ e.partial = MaxLevel(LevelsOf(Within(d)))
         /\ e.level = MaxLevel({e.full, e.partial})
         /\ e.coverage = Coverage(e.full, e.partial)
         /\ e.start = EarliestStart(Concerning(d))
         /\ e.threats = UNION {alerts[i].threats : i \in Concerning(d)}
         /\ e.source # None => Concerning(d) # {}
<1>1. CASE Concerning(d) = {}
  <2>1. e = ClearState
    BY <1>1, EvaluationByRows
  <2>2. Covering(d) = {} /\ Within(d) = {}
    BY <1>1, RowsByScope
  <2>3. /\ LevelsOf(Covering(d)) = {} /\ LevelsOf(Within(d)) = {}
        /\ UNION {alerts[i].threats : i \in Concerning(d)} = {}
    BY <1>1, <2>2 DEF LevelsOf
  <2>4. MaxLevel({}) = "clear" /\ MaxLevel({"clear", "clear"}) = "clear"
    BY MaxLevelIsHighest
  <2>5. EarliestStart(Concerning(d)) = NoTime
    BY <1>1 DEF EarliestStart
  <2>6. Coverage("clear", "clear") = "none"
    BY Zenon DEF Coverage
  <2>7. /\ ClearState.full = "clear" /\ ClearState.partial = "clear"
        /\ ClearState.level = "clear" /\ ClearState.coverage = "none"
        /\ ClearState.start = NoTime /\ ClearState.threats = {}
        /\ ClearState.source = None
    BY DEF ClearState
  <2> QED
    BY <2>1, <2>3, <2>4, <2>5, <2>6, <2>7
<1>2. CASE Concerning(d) # {}
  <2>1. e = ActiveState(ApplicableLocationChain(d), DescendantScope(d))
    BY <1>2, ValidByRows, EvaluationByRows
  <2> QED
    BY <1>2, <2>1, ActiveStateByRows
<1> QED
  BY <1>1, <1>2

(* The levels of a valid state bound those of the rows and are reached.    *)
LEMMA ValidLevels ==
  ASSUME RowsInv, NEW d \in Catalog, NEW e, e = EvaluateLocation(d), e.valid
  PROVE  /\ e.level \in Levels /\ e.full \in Levels /\ e.partial \in Levels
         /\ Priority[e.full] <= Priority[e.level]
         /\ Priority[e.partial] <= Priority[e.level]
         /\ e.level \in {e.full, e.partial}
         /\ \A i \in Concerning(d) : alerts[i].level \in Levels \ {"clear"}
         /\ \A i \in Covering(d) : Priority[alerts[i].level] <= Priority[e.full]
         /\ \A i \in Within(d) : Priority[alerts[i].level] <= Priority[e.partial]
         /\ e.full # "clear" => \E i \in Covering(d) : alerts[i].level = e.full
         /\ e.partial # "clear" =>
              \E i \in Within(d) : alerts[i].level = e.partial
<1>1. /\ e.full = MaxLevel(LevelsOf(Covering(d)))
      /\ e.partial = MaxLevel(LevelsOf(Within(d)))
      /\ e.level = MaxLevel({e.full, e.partial})
  BY ValidState
<1>2. \A i \in Concerning(d) : alerts[i].level \in Levels \ {"clear"}
  BY ValidByRows, LevelOrder
<1>3. Covering(d) \subseteq Concerning(d) /\ Within(d) \subseteq Concerning(d)
  BY RowsByScope
<1>4. /\ \A i \in Covering(d) : alerts[i].level \in LevelsOf(Covering(d))
      /\ \A i \in Within(d) : alerts[i].level \in LevelsOf(Within(d))
  BY DEF LevelsOf
<1>5. /\ e.full \in Levels
      /\ e.full # "clear" => e.full \in LevelsOf(Covering(d))
      /\ \A level \in LevelsOf(Covering(d)) \cap Levels :
           Priority[level] <= Priority[e.full]
  BY <1>1, MaxLevelIsHighest
<1>6. /\ e.partial \in Levels
      /\ e.partial # "clear" => e.partial \in LevelsOf(Within(d))
      /\ \A level \in LevelsOf(Within(d)) \cap Levels :
           Priority[level] <= Priority[e.partial]
  BY <1>1, MaxLevelIsHighest
<1>7. /\ e.level \in Levels
      /\ e.level # "clear" => e.level \in {e.full, e.partial}
      /\ \A level \in {e.full, e.partial} \cap Levels :
           Priority[level] <= Priority[e.level]
  BY <1>1, MaxLevelIsHighest
<1>8. Priority[e.full] <= Priority[e.level] /\ Priority[e.partial] <= Priority[e.level]
  BY <1>5, <1>6, <1>7
<1>9. e.level \in {e.full, e.partial}
  <2>1. CASE e.level = "clear"
    BY <2>1, <1>5, <1>8 DEF Levels, Priority
  <2> QED
    BY <2>1, <1>7
<1>10. /\ e.full # "clear" => \E i \in Covering(d) : alerts[i].level = e.full
       /\ e.partial # "clear" => \E i \in Within(d) : alerts[i].level = e.partial
  BY <1>5, <1>6 DEF LevelsOf
<1>11. /\ \A i \in Covering(d) : Priority[alerts[i].level] <= Priority[e.full]
       /\ \A i \in Within(d) : Priority[alerts[i].level] <= Priority[e.partial]
  BY <1>2, <1>3, <1>4, <1>5, <1>6
<1> QED
  BY <1>2, <1>5, <1>6, <1>7, <1>8, <1>9, <1>10, <1>11

(* The coverage code, read by the levels it is made of.                    *)
LEMMA CoverageByLevels ==
  ASSUME NEW full \in Levels, NEW partial \in Levels
  PROVE  /\ Coverage(full, partial) \in Coverages
         /\ Coverage(full, partial) = "none" <=>
              full = "clear" /\ partial = "clear"
         /\ Coverage(full, partial) = "partial" <=>
              full = "clear" /\ partial # "clear"
         /\ Coverage(full, partial) \in {"partial", "mixed"} <=>
              Priority[full] < Priority[partial]
<1>1. CASE full = "clear" /\ partial = "clear"
  <2>1. Coverage(full, partial) = "none"
    BY <1>1, Zenon DEF Coverage
  <2> QED
    BY <1>1, <2>1 DEF Coverages, Priority, Levels
<1>2. CASE full = "clear" /\ partial # "clear"
  <2>1. Coverage(full, partial) = "partial"
    BY <1>2, Zenon DEF Coverage
  <2> QED
    BY <1>2, <2>1 DEF Coverages, Priority, Levels
<1>3. CASE full # "clear" /\ Priority[partial] > Priority[full]
  <2>1. Coverage(full, partial) = "mixed"
    BY <1>3, Zenon DEF Coverage
  <2> QED
    BY <1>3, <2>1 DEF Coverages
<1>4. CASE full # "clear" /\ ~(Priority[partial] > Priority[full])
  <2>1. Coverage(full, partial) = "full"
    BY <1>4, Zenon DEF Coverage
  <2> QED
    BY <1>4, <2>1, LevelOrder DEF Coverages
<1> QED
  BY <1>1, <1>2, <1>3, <1>4

-----------------------------------------------------------------------------
(* The decisive row.                                                       *)

(* Of finitely many rows one comes first: those of the whole, then those   *)
(* at the least distance, then those with the least index.                 *)
LEMMA FirstByRank ==
  ASSUME NEW S \in SUBSET Nat, IsFiniteSet(S), S # {},
         NEW Whole, NEW depth \in [S -> Nat]
  PROVE  \E i \in S : \A j \in S :
           \/ i \in Whole /\ j \notin Whole
           \/ (i \in Whole <=> j \in Whole) /\ depth[i] < depth[j]
           \/ (i \in Whole <=> j \in Whole) /\ depth[i] = depth[j] /\ i <= j
<1> DEFINE First(i, j) ==
             \/ i \in Whole /\ j \notin Whole
             \/ (i \in Whole <=> j \in Whole) /\ depth[i] < depth[j]
             \/ (i \in Whole <=> j \in Whole) /\ depth[i] = depth[j] /\ i <= j
           exceeds == {e \in S \X S : ~First(e[1], e[2])}
<1>1. \A i \in S : <<i, i>> \notin exceeds
  OBVIOUS
<1>2. \A i, j, k \in S : ~First(i, j) /\ ~First(j, k) => ~First(i, k)
  OBVIOUS
<1>3. \A i, j \in S : <<i, j>> \in exceeds <=> ~First(i, j)
  BY Zenon
<1>4. PICK i \in S : \A j \in S : <<i, j>> \notin exceeds
  <2> HIDE DEF First
  <2>1. \A x, y, z \in S : <<x, y>> \in exceeds /\ <<y, z>> \in exceeds
                             => <<x, z>> \in exceeds
    BY <1>2, <1>3
  <2> HIDE DEF exceeds
  <2> QED
    BY <1>1, <2>1, MaximalElement
<1>5. \A j \in S : First(i, j)
  BY <1>3, <1>4
<1> QED
  BY <1>5

LEMMA DecisiveExists ==
  ASSUME RowsInv, NEW d \in Catalog, NEW S \in SUBSET Concerning(d), S # {}
  PROVE  \E i \in S : \A j \in S :
           MoreDecisive(i, j, ApplicableLocationChain(d), DescendantScope(d))
<1> DEFINE chain == ApplicableLocationChain(d)
           inside == DescendantScope(d)
           Whole == {k \in S : alerts[k].uid \in Uids(chain)}
           distance(k) == DepthIn(IF alerts[k].uid \in Uids(chain)
                                  THEN chain ELSE inside, alerts[k].uid)
           depth == [k \in S |-> distance(k)]
<1>1. S \subseteq Nat /\ IsFiniteSet(S)
  BY RowsByScope, RowsAreTyped, FS_Subset
<1>2. ASSUME NEW k \in S
      PROVE  distance(k) \in Nat
  <2>1. CASE alerts[k].uid \in Uids(chain)
    BY <2>1, DepthInChain
  <2>2. CASE alerts[k].uid \notin Uids(chain)
    <3>1. alerts[k].uid \in Uids(inside)
      BY <2>2, MatchingRows, UidsOfUnion DEF Concerning
    <3> QED
      BY <2>2, <3>1, DepthInScope
  <2> QED
    BY <2>1, <2>2
<1>3. PICK i \in S : \A j \in S :
           \/ i \in Whole /\ j \notin Whole
           \/ (i \in Whole <=> j \in Whole) /\ depth[i] < depth[j]
           \/ (i \in Whole <=> j \in Whole) /\ depth[i] = depth[j] /\ i <= j
  <2>1. depth \in [S -> Nat]
    BY <1>2
  <2> HIDE DEF Whole, depth
  <2> QED
    BY <1>1, <2>1, FirstByRank
<1>4. ASSUME NEW j \in S
      PROVE  MoreDecisive(i, j, chain, inside)
  <2>1. depth[i] = distance(i) /\ depth[j] = distance(j)
    OBVIOUS
  <2>2. /\ i \in Whole <=> alerts[i].uid \in Uids(chain)
        /\ j \in Whole <=> alerts[j].uid \in Uids(chain)
    OBVIOUS
  <2> HIDE DEF Whole, depth, chain, inside
  <2>3. \/ i \in Whole /\ j \notin Whole
        \/ (i \in Whole <=> j \in Whole) /\ distance(i) < distance(j)
        \/ (i \in Whole <=> j \in Whole) /\ distance(i) = distance(j) /\ i <= j
    BY <1>3, <2>1
  <2> QED
    BY <2>2, <2>3 DEF MoreDecisive
<1> QED
  BY <1>4

(* An evaluation that names a source is valid and has rows.                *)
LEMMA SourceNeedsRows ==
  ASSUME RowsInv, NEW d \in Catalog, EvaluateLocation(d).source # None
  PROVE  EvaluateLocation(d).valid /\ Concerning(d) # {}
<1>1. CASE \E i \in Concerning(d) : alerts[i].level \notin ActiveLevels
  <2>1. EvaluateLocation(d) = InvalidState(Concerning(d))
    BY <1>1, EvaluationByRows
  <2>2. InvalidState(Concerning(d)).source = None
    BY DEF InvalidState
  <2> QED
    BY <2>1, <2>2
<1>2. CASE \A i \in Concerning(d) : alerts[i].level \in ActiveLevels
  BY <1>2, ValidByRows, ValidState
<1> QED
  BY <1>1, <1>2

(* The source is the uid of a row at the level shown, and no row at that   *)
(* level is more decisive.                                                 *)
LEMMA SourceIsDecisive ==
  ASSUME RowsInv, NEW d \in Catalog, NEW e, e = EvaluateLocation(d), e.valid,
         Concerning(d) # {}
  PROVE  /\ \E i \in Concerning(d) :
              /\ alerts[i].level = e.level
              /\ alerts[i].uid = e.source
              /\ \A j \in Concerning(d) : alerts[j].level = e.level =>
                   MoreDecisive(i, j, ApplicableLocationChain(d),
                                DescendantScope(d))
         /\ e.scope = ScopeOf(e.source, ApplicableLocationChain(d))
<1> DEFINE Best(i) == \A j \in Candidates(d) :
             MoreDecisive(i, j, ApplicableLocationChain(d), DescendantScope(d))
<1>1. e = ActiveState(ApplicableLocationChain(d), DescendantScope(d))
  BY ValidByRows, EvaluationByRows
<1>2. /\ e.source = alerts[DecisiveOf(d)].uid
      /\ e.scope = ScopeOf(e.source, ApplicableLocationChain(d))
  BY <1>1, ActiveStateByRows
<1>3. Candidates(d) = {i \in Concerning(d) : alerts[i].level = e.level}
  <2>1. e.level = MaxLevel({MaxLevel(LevelsOf(Covering(d))),
                            MaxLevel(LevelsOf(Within(d)))})
    BY ValidState
  <2> QED
    BY <2>1 DEF Candidates
<1>4. Candidates(d) # {}
  <2>1. \E i \in Concerning(d) : alerts[i].level = e.level
    <3>1. PICK i \in Concerning(d) : TRUE
      OBVIOUS
    <3>2. e.level # "clear"
      <4>1. alerts[i].level \in Levels \ {"clear"}
        BY ValidLevels
      <4>2. i \in Covering(d) \/ i \in Within(d)
        BY RowsByScope
      <4>3. Priority[alerts[i].level] <= Priority[e.full]
              \/ Priority[alerts[i].level] <= Priority[e.partial]
        BY <4>2, ValidLevels
      <4> QED
        BY <4>1, <4>3, ValidLevels DEF Levels, Priority
    <3> QED
      BY <3>2, ValidLevels, RowsByScope
  <2> QED
    BY <1>3, <2>1
<1>5. \E i \in Candidates(d) : Best(i)
  <2>1. Candidates(d) \in SUBSET Concerning(d)
    BY <1>3
  <2> QED
    BY <1>4, <2>1, DecisiveExists
<1>6. DecisiveOf(d) = CHOOSE i \in Candidates(d) : Best(i)
  BY DEF DecisiveOf
<1> HIDE DEF Best
<1>7. DecisiveOf(d) \in Candidates(d) /\ Best(DecisiveOf(d))
  BY <1>5, <1>6
<1> USE DEF Best
<1> QED
  BY <1>2, <1>3, <1>7

-----------------------------------------------------------------------------
(* The properties, for every snapshot of rows.                             *)

LEMMA InvalidStaysLocal ==
  ASSUME RowsInv
  PROVE  InvalidRowsStayLocal
<1> SUFFICES ASSUME NEW d \in Catalog
             PROVE  ~EvaluateLocation(d).valid <=>
                      \E i \in DOMAIN alerts : \E s \in Catalog :
                        /\ alerts[i].airRaid
                        /\ alerts[i].level \notin ActiveLevels
                        /\ s.uid = alerts[i].uid
                        /\ \/ s = d
                           \/ d \in DescendantLocations(s)
                           \/ s \in DescendantLocations(d)
  BY DEF InvalidRowsStayLocal
<1>1. ~EvaluateLocation(d).valid <=>
        \E i \in Concerning(d) : alerts[i].level \notin ActiveLevels
  BY ValidByRows
<1>2. ASSUME NEW i \in DOMAIN alerts
      PROVE  i \in Concerning(d) <=>
               \E s \in Catalog : /\ alerts[i].airRaid
                                  /\ s.uid = alerts[i].uid
                                  /\ \/ s = d
                                     \/ d \in DescendantLocations(s)
                                     \/ s \in DescendantLocations(d)
  BY RowsByScope, RowsByLocation
<1>3. Concerning(d) \subseteq DOMAIN alerts
  BY RowsByScope
<1> QED
  BY <1>1, <1>2, <1>3

LEMMA AreaIncludes ==
  ASSUME RowsInv, NEW area \in Catalog, NEW place \in DescendantLocations(area),
         NEW a, a = EvaluateLocation(area), a.valid,
         NEW p, p = EvaluateLocation(place)
  PROVE  /\ p.valid
         /\ Priority[p.level] <= Priority[a.level]
         /\ Priority[p.full] >= Priority[a.full]
         /\ p.threats \subseteq a.threats
         /\ p.start # NoTime => a.start # NoTime /\ a.start <= p.start
<1>0. place \in Catalog
  BY InsideIsInCatalog
<1>1. Covering(area) \subseteq Covering(place)
      /\ Concerning(place) \subseteq Concerning(area)
  BY RowsGrowInward
<1>2. p.valid
  BY <1>1, ValidByRows
<1>3. /\ a.level \in Levels /\ a.full \in Levels /\ a.partial \in Levels
      /\ p.level \in Levels /\ p.full \in Levels /\ p.partial \in Levels
  BY <1>0, <1>2, ValidLevels
<1>4. \A i \in Concerning(area) : Priority[alerts[i].level] <= Priority[a.level]
  <2> SUFFICES ASSUME NEW i \in Concerning(area)
               PROVE  Priority[alerts[i].level] <= Priority[a.level]
    OBVIOUS
  <2>1. alerts[i].level \in Levels
    BY ValidLevels
  <2>2. \/ Priority[alerts[i].level] <= Priority[a.full]
        \/ Priority[alerts[i].level] <= Priority[a.partial]
    BY RowsByScope, ValidLevels
  <2>3. /\ Priority[a.full] <= Priority[a.level]
        /\ Priority[a.partial] <= Priority[a.level]
    BY ValidLevels
  <2> QED
    BY <2>1, <2>2, <2>3, <1>3, LevelOrder
<1>5. Priority[p.level] <= Priority[a.level]
  <2>1. CASE p.level = "clear"
    BY <2>1, <1>3, LevelOrder
  <2>2. CASE p.level # "clear"
    <3>1. \E i \in Concerning(place) : alerts[i].level = p.level
      BY <2>2, <1>0, <1>2, ValidLevels, RowsByScope
    <3> QED
      BY <3>1, <1>1, <1>4
  <2> QED
    BY <2>1, <2>2
<1>6. Priority[p.full] >= Priority[a.full]
  <2>1. CASE a.full = "clear"
    BY <2>1, <1>3, LevelOrder
  <2>2. CASE a.full # "clear"
    <3>1. PICK i \in Covering(area) : alerts[i].level = a.full
      BY <2>2, ValidLevels
    <3>2. Priority[alerts[i].level] <= Priority[p.full]
      BY <3>1, <1>0, <1>1, <1>2, ValidLevels
    <3> QED
      BY <3>1, <3>2, <1>3, LevelOrder
  <2> QED
    BY <2>1, <2>2
<1>7. p.threats \subseteq a.threats
  <2>1. /\ a.threats = UNION {alerts[i].threats : i \in Concerning(area)}
        /\ p.threats = UNION {alerts[i].threats : i \in Concerning(place)}
    BY <1>0, <1>2, ValidState
  <2> QED
    BY <2>1, <1>1
<1>8. p.start # NoTime => a.start # NoTime /\ a.start <= p.start
  <2>1. a.start = EarliestStart(Concerning(area))
        /\ p.start = EarliestStart(Concerning(place))
    BY <1>0, <1>2, ValidState
  <2>2. Concerning(area) \in SUBSET DOMAIN alerts
        /\ Concerning(place) \in SUBSET DOMAIN alerts
    BY <1>0, RowsByScope
  <2>3. p.start # NoTime => \E i \in Concerning(place) : alerts[i].start = p.start
    BY <2>1, <2>2, EarliestStartIsLeast
  <2>4. \A i \in Concerning(area) : alerts[i].start # NoTime =>
          a.start # NoTime /\ a.start <= alerts[i].start
    BY <2>1, <2>2, EarliestStartIsLeast
  <2> QED
    BY <2>3, <2>4, <1>1
<1> QED
  BY <1>2, <1>5, <1>6, <1>7, <1>8

LEMMA CoverageAgrees ==
  ASSUME RowsInv, NEW area \in Catalog, NEW a, a = EvaluateLocation(area)
  PROVE  /\ a.coverage \in {"none", "full"} =>
              \A place \in DescendantLocations(area) :
                EvaluateLocation(place).level = a.level
         /\ a.coverage \in {"partial", "mixed"} =>
              /\ \E place \in DescendantLocations(area) :
                   EvaluateLocation(place).level = a.level
              /\ Priority[a.full] < Priority[a.level]
         /\ a.coverage = "partial" <=> a.valid /\ a.full = "clear"
                                               /\ a.level # "clear"
<1>1. CASE ~a.valid
  <2>1. a = InvalidState(Concerning(area))
    BY <1>1, ValidByRows, EvaluationByRows
  <2>2. a.coverage = None
    BY <2>1 DEF InvalidState
  <2> QED
    BY <1>1, <2>2, NoneAssumption DEF Coverages
<1>2. CASE a.valid
  <2>1. /\ a.level \in Levels /\ a.full \in Levels /\ a.partial \in Levels
        /\ Priority[a.full] <= Priority[a.level]
        /\ Priority[a.partial] <= Priority[a.level]
        /\ a.level \in {a.full, a.partial}
    BY <1>2, ValidLevels
  <2>2. /\ a.coverage \in Coverages
        /\ a.coverage = "none" <=> a.full = "clear" /\ a.partial = "clear"
        /\ a.coverage = "partial" <=> a.full = "clear" /\ a.partial # "clear"
        /\ a.coverage \in {"partial", "mixed"} <=>
             Priority[a.full] < Priority[a.partial]
    <3>1. a.coverage = Coverage(a.full, a.partial)
      BY <1>2, ValidState
    <3> QED
      BY <2>1, <3>1, CoverageByLevels
  <2>3. ASSUME a.coverage \in {"none", "full"},
               NEW place \in DescendantLocations(area)
        PROVE  EvaluateLocation(place).level = a.level
    <3> DEFINE p == EvaluateLocation(place)
    <3>1. /\ p.valid
          /\ Priority[p.level] <= Priority[a.level]
          /\ Priority[p.full] >= Priority[a.full]
      BY <1>2, AreaIncludes
    <3>2. /\ p.level \in Levels /\ p.full \in Levels
          /\ Priority[p.full] <= Priority[p.level]
      BY <3>1, InsideIsInCatalog, ValidLevels
    <3> HIDE DEF p
    <3>3. ~(Priority[a.full] < Priority[a.partial])
      BY <2>2, <2>3
    <3>4. a.level = a.full \/ Priority[a.level] = Priority[a.full]
      BY <2>1, <3>3, LevelOrder
    <3>5. Priority[p.level] = Priority[a.level]
      BY <2>1, <3>1, <3>2, <3>4, LevelOrder
    <3>6. p.level = a.level
      BY <2>1, <3>2, <3>5, LevelOrder
    <3> QED
      BY <3>6 DEF p
  <2>4. ASSUME a.coverage \in {"partial", "mixed"}
        PROVE  /\ \E place \in DescendantLocations(area) :
                    EvaluateLocation(place).level = a.level
               /\ Priority[a.full] < Priority[a.level]
    <3>1. Priority[a.full] < Priority[a.partial]
      BY <2>2, <2>4
    <3>2. a.level = a.partial
      BY <2>1, <3>1, LevelOrder
    <3>3. a.partial # "clear"
      BY <2>1, <3>1, LevelOrder
    <3>4. PICK i \in Within(area) : alerts[i].level = a.partial
      BY <1>2, <3>3, ValidLevels
    <3>5. i \in Concerning(area) /\ i \in DOMAIN alerts
      BY RowsByScope
    <3>6. PICK place \in Catalog : place.uid = alerts[i].uid
      BY <3>5, RowsByScope
    <3>7. place \in DescendantLocations(area) /\ i \in Covering(place)
      BY <3>5, <3>6, RowsByLocation
    <3> DEFINE p == EvaluateLocation(place)
    <3>8. p.valid /\ Priority[p.level] <= Priority[a.level]
      BY <1>2, <3>7, AreaIncludes
    <3>9. /\ p.level \in Levels /\ p.full \in Levels
          /\ Priority[alerts[i].level] <= Priority[p.full]
          /\ Priority[p.full] <= Priority[p.level]
      BY <3>7, <3>8, ValidLevels
    <3> HIDE DEF p
    <3>10. Priority[p.level] = Priority[a.level]
      BY <2>1, <3>2, <3>4, <3>8, <3>9, LevelOrder
    <3>11. p.level = a.level
      BY <2>1, <3>9, <3>10, LevelOrder
    <3> QED
      BY <3>1, <3>2, <3>7, <3>11 DEF p
  <2>5. a.coverage = "partial" <=> a.full = "clear" /\ a.level # "clear"
    BY <2>1, <2>2, LevelOrder
  <2> QED
    BY <1>2, <2>3, <2>4, <2>5
<1> QED
  BY <1>1, <1>2

LEMMA SourceAccounts ==
  ASSUME RowsInv, NEW d \in Catalog, NEW state, state = EvaluateLocation(d),
         state.source # None
  PROVE  \E s \in Catalog :
           /\ s.uid = state.source
           /\ EvaluateLocation(s).valid =>
                /\ EvaluateLocation(s).full = state.level
                /\ EvaluateLocation(s).level = state.level =>
                     EvaluateLocation(s).scope = "direct"
           /\ state.scope = "direct" <=> s = d
           /\ state.scope = "inherited" <=> d \in DescendantLocations(s)
           /\ state.scope = "partial" <=> s \in DescendantLocations(d)
           /\ state.scope = "partial" <=> state.coverage \in {"partial", "mixed"}
<1>1. state.valid /\ Concerning(d) # {}
  BY SourceNeedsRows
<1>2. PICK i \in Concerning(d) :
        /\ alerts[i].level = state.level
        /\ alerts[i].uid = state.source
        /\ \A j \in Concerning(d) : alerts[j].level = state.level =>
             MoreDecisive(i, j, ApplicableLocationChain(d), DescendantScope(d))
  BY <1>1, SourceIsDecisive
<1>3. state.scope = ScopeOf(state.source, ApplicableLocationChain(d))
  BY <1>1, SourceIsDecisive
<1>4. PICK s \in Catalog : s.uid = alerts[i].uid
  BY RowsByScope
<1>5. i \in DOMAIN alerts /\ alerts[i].airRaid
  BY RowsByScope, MatchingRows DEF Concerning
<1>6. s = d \/ d \in DescendantLocations(s) \/ s \in DescendantLocations(d)
  BY <1>4, <1>5, RowsByScope, RowsByLocation
<1>7. /\ state.level \in Levels /\ state.full \in Levels
      /\ state.partial \in Levels
      /\ Priority[state.full] <= Priority[state.level]
      /\ Priority[state.partial] <= Priority[state.level]
      /\ state.level \in {state.full, state.partial}
  BY <1>1, ValidLevels
<1>8. /\ state.scope = "direct" <=> s = d
      /\ state.scope = "inherited" <=> d \in DescendantLocations(s)
      /\ state.scope = "partial" <=> s \in DescendantLocations(d)
  <2>0. s.uid = state.source
    BY <1>2, <1>4
  <2>1. CASE s = d
    <3>1. state.source \in Uids(ApplicableLocationChain(d))
          /\ DepthIn(ApplicableLocationChain(d), state.source) = 0
      BY <2>0, <2>1, ChainByLocation, DepthInChain
    <3>2. state.scope = "direct"
      BY <1>3, <3>1, Zenon DEF ScopeOf
    <3> QED
      BY <2>1, <3>2, InsideIsStrict
  <2>2. CASE d \in DescendantLocations(s)
    <3>1. state.source \in Uids(ApplicableLocationChain(d))
      BY <2>0, <2>2, ChainByLocation
    <3>2. s.uid # d.uid
      BY <2>2, InsideIsStrict, SameUid
    <3>3. DepthIn(ApplicableLocationChain(d), state.source) # 0
      BY <2>0, <3>1, <3>2, DepthInChain
    <3>4. state.scope = "inherited"
      BY <1>3, <3>1, <3>3, Zenon DEF ScopeOf
    <3> QED
      BY <2>2, <3>4, InsideIsStrict
  <2>3. CASE s \in DescendantLocations(d)
    <3>1. s # d /\ d \notin DescendantLocations(s)
      BY <2>3, InsideIsStrict
    <3>2. state.source \notin Uids(ApplicableLocationChain(d))
      BY <2>0, <3>1, ChainByLocation
    <3>3. state.scope = "partial"
      BY <1>3, <3>2, Zenon DEF ScopeOf
    <3> QED
      BY <2>3, <3>1, <3>3
  <2> QED
    BY <1>6, <2>1, <2>2, <2>3
(* No covering row is at the level unless the source covers.               *)
<1>9. s \in DescendantLocations(d) <=> state.coverage \in {"partial", "mixed"}
  <2>1. state.coverage \in {"partial", "mixed"} <=>
          Priority[state.full] < Priority[state.partial]
    <3>1. state.coverage = Coverage(state.full, state.partial)
      BY <1>1, ValidState
    <3> QED
      BY <1>7, <3>1, CoverageByLevels
  <2>2. ASSUME s \in DescendantLocations(d),
               ~(Priority[state.full] < Priority[state.partial])
        PROVE  FALSE
    <3>1. state.level = state.full
      BY <1>7, <2>2, LevelOrder
    <3>2. state.level # "clear"
      BY <1>1, <1>2, ValidLevels
    <3>3. PICK j \in Covering(d) : alerts[j].level = state.level
      BY <1>1, <3>1, <3>2, ValidLevels
    <3>4. j \in Concerning(d) /\ alerts[j].uid \in Uids(ApplicableLocationChain(d))
      BY RowsByScope, MatchingRows DEF Covering
    <3>5. alerts[i].uid \notin Uids(ApplicableLocationChain(d))
      BY <1>4, <2>2, InsideIsStrict, ChainByLocation
    <3>6. MoreDecisive(i, j, ApplicableLocationChain(d), DescendantScope(d))
      BY <1>2, <3>3, <3>4
    <3> QED
      BY <3>4, <3>5, <3>6 DEF MoreDecisive
  <2>3. ASSUME s \notin DescendantLocations(d),
               Priority[state.full] < Priority[state.partial]
        PROVE  FALSE
    <3>1. i \in Covering(d)
      BY <1>4, <1>5, <1>6, <2>3, RowsByLocation
    <3>2. Priority[state.level] <= Priority[state.full]
      BY <1>1, <1>2, <3>1, ValidLevels
    <3> QED
      BY <1>7, <2>3, <3>2, LevelOrder
  <2> QED
    BY <2>1, <2>2, <2>3
(* The source sees its own row; the rows above it are rows of the          *)
(* territory too.                                                          *)
<1>10. ASSUME EvaluateLocation(s).valid
       PROVE  /\ EvaluateLocation(s).full = state.level
              /\ EvaluateLocation(s).level = state.level =>
                   EvaluateLocation(s).scope = "direct"
  <2> DEFINE named == EvaluateLocation(s)
  <2>1. i \in Covering(s) /\ i \in Concerning(s)
    BY <1>4, <1>5, RowsByLocation, RowsByScope
  <2>2. /\ named.level \in Levels /\ named.full \in Levels
        /\ Priority[alerts[i].level] <= Priority[named.full]
        /\ Priority[named.full] <= Priority[named.level]
    BY <1>10, <2>1, ValidLevels
  <2>3. state.level # "clear"
    BY <1>1, <1>2, ValidLevels
  <2>4. named.full # "clear"
    BY <1>2, <1>7, <2>2, <2>3, LevelOrder
  <2>5. PICK j \in Covering(s) : alerts[j].level = named.full
    BY <1>10, <2>4, ValidLevels
  <2>6. j \in Concerning(d)
    <3>1. CASE s = d
      BY <3>1, RowsByScope
    <3>2. CASE d \in DescendantLocations(s)
      BY <3>2, RowsGrowInward, RowsByScope
    <3>3. CASE s \in DescendantLocations(d)
      BY <3>3, RowsGrowInward, RowsByScope
    <3> QED
      BY <1>6, <3>1, <3>2, <3>3
  <2>7. Priority[alerts[j].level] <= Priority[state.full]
        \/ Priority[alerts[j].level] <= Priority[state.partial]
    BY <1>1, <2>6, ValidLevels, RowsByScope
  <2>8. named.full = state.level
    BY <1>2, <1>7, <2>2, <2>5, <2>7, LevelOrder
  <2>9. ASSUME named.level = state.level
        PROVE  named.scope = "direct"
    <3>1. PICK k \in Concerning(s) :
            /\ alerts[k].uid = named.source
            /\ \A m \in Concerning(s) : alerts[m].level = named.level =>
                 MoreDecisive(k, m, ApplicableLocationChain(s),
                              DescendantScope(s))
      BY <1>10, <2>1, SourceIsDecisive
    <3>2. named.scope = ScopeOf(named.source, ApplicableLocationChain(s))
      BY <1>10, <2>1, SourceIsDecisive
    <3>3. MoreDecisive(k, i, ApplicableLocationChain(s), DescendantScope(s))
      BY <1>2, <2>1, <2>9, <3>1
    <3>4. /\ alerts[i].uid \in Uids(ApplicableLocationChain(s))
          /\ DepthIn(ApplicableLocationChain(s), alerts[i].uid) = 0
      BY <1>4, ChainByLocation, DepthInChain
    <3>5. alerts[k].uid \in Uids(ApplicableLocationChain(s))
      BY <3>3, <3>4 DEF MoreDecisive
    <3>6. DepthIn(ApplicableLocationChain(s), alerts[k].uid) = 0
      <4>1. DepthIn(ApplicableLocationChain(s), alerts[k].uid) \in Nat
        BY <3>5, DepthInChain
      <4> QED
        BY <3>3, <3>4, <3>5, <4>1 DEF MoreDecisive
    <3> QED
      BY <3>1, <3>2, <3>5, <3>6, Zenon DEF ScopeOf
  <2> QED
    BY <2>8, <2>9
<1> QED
  BY <1>2, <1>4, <1>8, <1>9, <1>10

LEMMA StatesAreTyped ==
  ASSUME RowsInv
  PROVE  TypeOK
<1> SUFFICES ASSUME NEW d \in Catalog
             PROVE  EvaluateLocation(d) \in
               [valid : BOOLEAN, level : Levels \cup {None},
                full : Levels \cup {None}, partial : Levels \cup {None},
                coverage : {"none", "full", "partial", "mixed", None},
                scope : {"direct", "inherited", "partial", None},
                source : Uids(Catalog) \cup {None},
                start : {ParseDatetime(r.start) : r \in Records} \cup {NoTime},
                threats : SUBSET UNION {ParseThreats(r.threats) : r \in Records}]
  BY DEF TypeOK
<1> DEFINE Starts == {ParseDatetime(r.start) : r \in Records} \cup {NoTime}
           Threats == SUBSET UNION {ParseThreats(r.threats) : r \in Records}
<1>1. ASSUME NEW i \in DOMAIN alerts
      PROVE  alerts[i].start \in Starts /\ alerts[i].threats \in Threats
  <2>1. PICK record \in Records : alerts[i] = Row(record)
    BY RowsAreTyped
  <2>2. /\ alerts[i].start = ParseDatetime(record.start)
        /\ alerts[i].threats = ParseThreats(record.threats)
    BY <2>1 DEF Row
  <2> QED
    BY <2>2
<1>2. EarliestStart(Concerning(d)) \in Starts
  <2>1. Concerning(d) \in SUBSET DOMAIN alerts
    BY RowsByScope
  <2>2. \/ EarliestStart(Concerning(d)) = NoTime
        \/ \E i \in Concerning(d) : alerts[i].start = EarliestStart(Concerning(d))
    BY <2>1, EarliestStartIsLeast
  <2> QED
    BY <1>1, <2>1, <2>2
<1>3. UNION {alerts[i].threats : i \in Concerning(d)} \in Threats
  BY <1>1, RowsByScope
<1> HIDE DEF Starts, Threats
<1>4. CASE Concerning(d) = {}
  <2>1. EvaluateLocation(d) = ClearState
    BY <1>4, EvaluationByRows
  <2>2. NoTime \in Starts /\ {} \in Threats
    BY DEF Starts, Threats
  <2> QED
    BY <2>1, <2>2 DEF ClearState, Levels, Starts, Threats
<1>5. CASE \E i \in Concerning(d) : alerts[i].level \notin ActiveLevels
  <2>1. EvaluateLocation(d) = InvalidState(Concerning(d))
    BY <1>5, EvaluationByRows
  <2> QED
    BY <2>1, <1>2, <1>3 DEF InvalidState, Starts, Threats
<1>6. CASE /\ Concerning(d) # {}
           /\ \A i \in Concerning(d) : alerts[i].level \in ActiveLevels
  <2> DEFINE e == EvaluateLocation(d)
  <2>1. e.valid = TRUE /\ e.valid
    BY <1>6, EvaluationByRows, ActiveStateByRows
  <2>2. /\ e.level \in Levels /\ e.full \in Levels /\ e.partial \in Levels
    BY <2>1, ValidLevels
  <2>3. e.coverage \in {"none", "full", "partial", "mixed"}
    <3>1. e.coverage = Coverage(e.full, e.partial)
      BY <2>1, ValidState
    <3> QED
      BY <2>2, <3>1, CoverageByLevels DEF Coverages
  <2>4. e.start \in Starts /\ e.threats \in Threats
    BY <2>1, <1>2, <1>3, ValidState
  <2>5. e.source \in Uids(Catalog)
    <3>1. PICK i \in Concerning(d) : alerts[i].uid = e.source
      BY <2>1, <1>6, SourceIsDecisive
    <3>2. \E s \in Catalog : s.uid = e.source
      BY <3>1, RowsByScope
    <3> QED
      BY <3>2, UidsByMember
  <2>6. e.scope \in {"direct", "inherited", "partial"}
    <3>1. e.scope = ScopeOf(e.source, ApplicableLocationChain(d))
      BY <2>1, <1>6, SourceIsDecisive
    <3>2. \/ ScopeOf(e.source, ApplicableLocationChain(d)) = "direct"
          \/ ScopeOf(e.source, ApplicableLocationChain(d)) = "partial"
          \/ ScopeOf(e.source, ApplicableLocationChain(d)) = "inherited"
      BY Zenon DEF ScopeOf
    <3> QED
      BY <3>1, <3>2
  <2>7. e = [valid |-> e.valid, level |-> e.level, full |-> e.full,
             partial |-> e.partial, coverage |-> e.coverage,
             scope |-> e.scope, source |-> e.source, start |-> e.start,
             threats |-> e.threats]
    BY <1>6, EvaluationByRows, ActiveStateByRows
  <2> HIDE DEF e
  <2>8. e \in [valid : BOOLEAN, level : Levels \cup {None},
               full : Levels \cup {None}, partial : Levels \cup {None},
               coverage : {"none", "full", "partial", "mixed", None},
               scope : {"direct", "inherited", "partial", None},
               source : Uids(Catalog) \cup {None},
               start : Starts, threats : Threats]
    BY <2>1, <2>2, <2>3, <2>4, <2>5, <2>6, <2>7
  <2> QED
    BY <2>8 DEF e, Starts, Threats
<1> QED
  BY <1>4, <1>5, <1>6

-----------------------------------------------------------------------------
(* The snapshot is a sequence of parsed rows at all times: the records     *)
(* arrive one by one and each becomes a row, so every prefix of a snapshot *)
(* and every order of its records is covered.                              *)
LEMMA SnapshotOfRows == Spec => []RowsInv
<1>1. Init => RowsInv
  BY DEF Init, RowsInv
<1>2. RowsInv /\ [Next]_alerts => RowsInv'
  <2>1. ASSUME RowsInv, NEW record \in Records, ParseRecord(record)
        PROVE  RowsInv'
    <3>1. Row(record) \in Rows
      BY DEF Rows
    <3>2. Append(alerts, Row(record)) \in Seq(Rows)
      BY <2>1, <3>1, AppendProperties DEF RowsInv
    <3> QED
      BY <2>1, <3>2 DEF ParseRecord, RowsInv
  <2>2. CASE UNCHANGED alerts
    BY <2>2 DEF RowsInv
  <2> QED
    BY <2>1, <2>2 DEF Next
<1> QED
  BY <1>1, <1>2, PTL DEF Spec

(* Every evaluation of every territory is a well-formed state.             *)
THEOREM TypeCorrect == Spec => []TypeOK
BY SnapshotOfRows, StatesAreTyped, PTL

(* A row with an unknown level takes the answer away from the places it    *)
(* may concern and from no other, wherever the row stands in the snapshot. *)
THEOREM BadRowsStayLocal == Spec => []InvalidRowsStayLocal
BY SnapshotOfRows, InvalidStaysLocal, PTL

(* The answers for an area and for the places inside it agree, though      *)
(* coordinators that know nothing of each other evaluate them.             *)
THEOREM AreasAgree == Spec => []AreasAgreeWithPlaces
<1>1. RowsInv => AreasAgreeWithPlaces
  <2> SUFFICES ASSUME RowsInv
               PROVE  AreasAgreeWithPlaces
    OBVIOUS
  <2>1. AreaIncludesItsPlaces
    BY AreaIncludes DEF AreaIncludesItsPlaces
  <2>2. CoverageAgreesWithPlaces
    BY CoverageAgrees DEF CoverageAgreesWithPlaces
  <2> QED
    BY <2>1, <2>2 DEF AreasAgreeWithPlaces
<1> QED
  BY <1>1, SnapshotOfRows, PTL

(* The location named as the source of an alert accounts for it.           *)
THEOREM SourceAccountsForAlert == Spec => []SourceAccountsForLevel
<1>1. RowsInv => SourceAccountsForLevel
  BY SourceAccounts DEF SourceAccountsForLevel
<1> QED
  BY <1>1, SnapshotOfRows, PTL
=============================================================================
