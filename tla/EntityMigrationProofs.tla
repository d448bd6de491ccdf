------------------------- MODULE EntityMigrationProofs -------------------------
(***************************************************************************)
(* Theorems about the migration of the entity registry, for any number of  *)
(* territories, whatever their titles, whatever sound registries older     *)
(* versions left, whatever names users choose and others take.             *)
(***************************************************************************)
EXTENDS EntityMigration, Maxima

-----------------------------------------------------------------------------
(* The inductive invariant.                                                *)

Fields == {"territory", "key", "suggests", "id", "born", "chosen"}

(* One entity: an id somebody chose is the one it has, only the entity     *)
(* that a short id is meant for has it, and an old lag sensor was born one. *)
WellMade(e) ==
  /\ DOMAIN e = Fields
  /\ e.territory \in Territories /\ e.key \in AllKeys /\ e.born \in AllKeys
  /\ e.key \in LagKeys => e.born \in LagKeys
  /\ e.suggests[1] # "user"
  /\ e.chosen # None => e.chosen = e.id /\ e.id[1] = "user"
  /\ \A t \in Territories, key \in Keys :
       e.id = ShortId(t, key) => e.territory = t /\ e.key = key

Distinct(registry) ==
  \A d, e \in registry :
    d.id = e.id \/ (d.territory = e.territory /\ d.key = e.key) => d = e

(* A registry of this integration next to the ids of others.               *)
Sound(registry) ==
  /\ IsFiniteSet(registry)
  /\ \A e \in registry : WellMade(e) /\ e.id \notin others
  /\ Distinct(registry)

RegistryInv ==
  /\ phase \in [Territories ->
       {"absent", "unloaded", "prepared", "added", "loaded"}]
  /\ IsFiniteSet(others)
  /\ \A id \in others : id[1] # "user"
  /\ Sound(entities)
  /\ \A e \in entities : phase[e.territory] # "absent"

(* What is remembered: no two of one key, and no id of the user's twice or *)
(* in use, so that it can always be given back.                            *)
Remembered(gone) ==
  /\ \A e \in gone : WellMade(e)
  /\ \A d, e \in gone :
       \/ d.territory = e.territory /\ d.key = e.key
       \/ d.id = e.id /\ d.id[1] = "user"
       => d = e

Apart(registry, gone) ==
  \A d \in registry, e \in gone : d.id = e.id => d.id[1] # "user"

RemovedInv == Remembered(removed) /\ Apart(entities, removed)

SetUp(t) == phase[t] \in {"prepared", "added", "loaded"}

(* Once a set-up has prepared the registry there is no diagnostic sensor   *)
(* left, and an old lag sensor only next to a new one.                     *)
Prepared(registry, t) ==
  \A e \in registry : e.territory = t =>
    /\ e.key \notin DiagnosticKeys
    /\ e.key \in LagKeys => Find(registry, t, "last_alert_lag") # {}

SetUpInv == \A t \in Territories : SetUp(t) => Prepared(entities, t)

MigrationInv ==
  /\ RegistryInv
  /\ RemovedInv
  /\ SetUpInv
  /\ LagSensorContinues
  /\ LegacyIdsAreShortened

-----------------------------------------------------------------------------
(* Ids.                                                                    *)

LEMMA KeysAreApart ==
  /\ Keys = {"threat_codes", "last_alert_lag"}
  /\ Suffix["threat_codes"] = "threats"
  /\ Suffix["last_alert_lag"] = "last_alert_lag"
  /\ AllKeys = Keys \cup LagKeys \cup DiagnosticKeys
  /\ Keys \cap LagKeys = {} /\ Keys \cap DiagnosticKeys = {}
  /\ LagKeys \cap DiagnosticKeys = {}
BY DEF Keys, Suffix, LagKeys, DiagnosticKeys, AllKeys

(* What an id is named after tells short ids, old ids, generated ids and   *)
(* the user's apart.                                                       *)
LEMMA IdsAreApart ==
  ASSUME NEW t \in Territories, NEW key
  PROVE  /\ ShortId(t, key)[1] = t
         /\ LegacyId(t, key)[1] = Title[t]
         /\ t # "user" /\ Title[t] # "user"
         /\ \A u \in Territories : Title[t] # u
         /\ \A u, k : ShortId(t, key) = ShortId(u, k) =>
              t = u /\ Suffix[key] = Suffix[k]
BY MigrationAssumption DEF ShortId, LegacyId

LEMMA ShortIdsAreOwn ==
  ASSUME NEW t \in Territories, NEW u \in Territories,
         NEW key \in Keys, NEW k \in Keys, ShortId(t, key) = ShortId(u, k)
  PROVE  t = u /\ key = k
BY IdsAreApart, KeysAreApart

LEMMA ShortIsNotLegacy ==
  ASSUME NEW t \in Territories, NEW u \in Territories, NEW key, NEW k
  PROVE  ShortId(t, key) # LegacyId(u, k)
BY IdsAreApart

LEMMA MembersFound ==
  ASSUME NEW registry, NEW t, NEW key, NEW e
  PROVE  e \in Find(registry, t, key) <=>
           e \in registry /\ e.territory = t /\ e.key = key
BY DEF Find

LEMMA IdsInUse ==
  ASSUME NEW registry, NEW id
  PROVE  id \in InUse(registry) <=>
           id \in others \/ \E e \in registry : e.id = id
BY DEF InUse

LEMMA InUseIsFinite ==
  ASSUME NEW registry, IsFiniteSet(registry), IsFiniteSet(others)
  PROVE  IsFiniteSet(InUse(registry))
<1> DEFINE ids == {e.id : e \in registry}
           f == [e \in registry |-> e.id]
<1>1. f \in Surjection(registry, ids)
  BY DEF Surjection
<1>2. IsFiniteSet(ids)
  <2> HIDE DEF f, ids
  <2> QED
    BY <1>1, FS_Surjection
<1>3. InUse(registry) = ids \cup others
  BY DEF InUse
<1> QED
  BY <1>2, <1>3, FS_Union

(* Among one number more than there are ids in use one is free: the        *)
(* registry always finds an id.                                            *)
LEMMA GeneratedIsFree ==
  ASSUME NEW registry, IsFiniteSet(registry), IsFiniteSet(others),
         NEW suggests, NEW own
  PROVE  \E n \in Nat :
           /\ Generated(registry, suggests, own) = Numbered(suggests, n)
           /\ Numbered(suggests, n) \notin InUse(registry) \ own
<1> DEFINE taken == InUse(registry) \ own
           N == 1..(Cardinality(taken) + 1)
           free == {n \in N : Numbered(suggests, n) \notin taken}
           Least(n) == \A m \in free : n <= m
<1>1. IsFiniteSet(taken) /\ Cardinality(taken) \in Nat
  <2>1. IsFiniteSet(InUse(registry))
    BY InUseIsFinite
  <2>2. taken \in SUBSET InUse(registry)
    OBVIOUS
  <2> HIDE DEF taken
  <2> QED
    BY <2>1, <2>2, FS_Subset, FS_CardinalityType
<1>2. IsFiniteSet(N) /\ Cardinality(N) = Cardinality(taken) + 1
  <2> HIDE DEF taken
  <2> QED
    BY <1>1, FS_Interval
<1>3. free # {}
  <2> SUFFICES ASSUME free = {}
               PROVE  FALSE
    OBVIOUS
  <2> DEFINE f == [n \in N |-> Numbered(suggests, n)]
  <2>1. f \in [N -> taken]
    OBVIOUS
  <2>2. \A n, m \in N : f[n] = f[m] => n = m
    BY DEF Numbered
  <2>3. Cardinality(taken) < Cardinality(N)
    BY <1>1, <1>2
  <2> HIDE DEF f, N, taken
  <2> QED
    BY <1>1, <1>2, <2>1, <2>2, <2>3, FS_PigeonHole
<1>4. \E n \in free : Least(n)
  <2> DEFINE exceeds == {p \in free \X free : p[2] < p[1]}
  <2>1. free \subseteq Nat /\ IsFiniteSet(free)
    <3>1. free \in SUBSET N /\ N \subseteq Nat
      BY <1>1
    <3> HIDE DEF free, N
    <3> QED
      BY <1>2, <3>1, FS_Subset
  <2> HIDE DEF free
  <2>2. /\ \A x \in free : <<x, x>> \notin exceeds
        /\ \A x, y, z \in free : <<x, y>> \in exceeds /\ <<y, z>> \in exceeds
                                   => <<x, z>> \in exceeds
    BY <2>1
  <2>3. PICK n \in free : \A m \in free : <<n, m>> \notin exceeds
    <3> HIDE DEF exceeds
    <3> QED
      BY <1>3, <2>1, <2>2, MaximalElement
  <2>4. ASSUME NEW m \in free
        PROVE  n <= m
    <3>1. ~(m < n)
      BY <2>3
    <3> QED
      BY <2>1, <3>1
  <2> QED
    BY <2>4
<1>5. Generated(registry, suggests, own)
        = Numbered(suggests, CHOOSE n \in free : Least(n))
  BY DEF Generated
<1> DEFINE n == CHOOSE k \in free : Least(k)
<1>6. n \in free
  <2> HIDE DEF Least, free
  <2> QED
    BY <1>4
<1>7. free \subseteq Nat
  BY <1>1
<1> QED
  BY <1>5, <1>6, <1>7

-----------------------------------------------------------------------------
(* Changes of one entity that keep a registry sound.                       *)

LEMMA ReplacedIsSound ==
  ASSUME NEW registry, Sound(registry), NEW e \in registry, NEW new,
         WellMade(new), new.territory = e.territory,
         new.key = e.key \/ Find(registry, e.territory, new.key) = {},
         new.id = e.id \/ new.id \notin InUse(registry)
  PROVE  Sound(Replace(registry, e, new))
<1> DEFINE R == Replace(registry, e, new)
<1>1. \A d : d \in R <=> d = new \/ (d \in registry /\ d # e)
  BY DEF Replace
<1>2. IsFiniteSet(R)
  BY FS_RemoveElement, FS_AddElement DEF Sound, Replace
<1> HIDE DEF R
<1>3. new.id \notin others
  BY IdsInUse DEF Sound
<1>4. ASSUME NEW d \in registry, d # e
      PROVE  d.id # new.id /\ ~(d.territory = new.territory /\ d.key = new.key)
  <2>1. d.id # new.id
    BY <1>4, IdsInUse DEF Sound, Distinct
  <2>2. ~(d.territory = new.territory /\ d.key = new.key)
    <3>1. CASE new.key = e.key
      BY <1>4, <3>1 DEF Sound, Distinct
    <3>2. CASE Find(registry, e.territory, new.key) = {}
      <4>1. d \notin Find(registry, e.territory, new.key)
        BY <3>2
      <4> QED
        BY <4>1, MembersFound
    <3> QED
      BY <3>1, <3>2
  <2> QED
    BY <2>1, <2>2
<1>5. \A d \in R : WellMade(d) /\ d.id \notin others
  BY <1>1, <1>3 DEF Sound
<1>6. Distinct(R)
  BY <1>1, <1>4 DEF Sound, Distinct
<1> QED
  BY <1>2, <1>5, <1>6 DEF Sound, R

LEMMA ExtendedIsSound ==
  ASSUME NEW registry, Sound(registry), NEW new, WellMade(new),
         Find(registry, new.territory, new.key) = {},
         new.id \notin InUse(registry)
  PROVE  Sound(registry \cup {new})
<1>1. IsFiniteSet(registry \cup {new})
  BY FS_AddElement DEF Sound
<1>2. \A d \in registry : d.id # new.id
        /\ ~(d.territory = new.territory /\ d.key = new.key)
  BY IdsInUse, MembersFound
<1>3. \A d \in registry \cup {new} : WellMade(d) /\ d.id \notin others
  BY IdsInUse DEF Sound
<1>4. Distinct(registry \cup {new})
  BY <1>2 DEF Sound, Distinct
<1> QED
  BY <1>1, <1>3, <1>4 DEF Sound

LEMMA PartIsSound ==
  ASSUME NEW registry, Sound(registry), NEW part \in SUBSET registry
  PROVE  Sound(part)
BY FS_Subset DEF Sound, Distinct

(* There is at most one entity of a key.                                   *)
LEMMA FoundIsOne ==
  ASSUME NEW registry, Sound(registry), NEW t, NEW key,
         NEW e \in Find(registry, t, key)
  PROVE  Find(registry, t, key) = {e}
BY MembersFound DEF Sound, Distinct

LEMMA ShortenedFields ==
  ASSUME NEW e, DOMAIN e = Fields, NEW n, n = Shortened(e)
  PROVE  /\ DOMAIN n = Fields
         /\ n.territory = e.territory /\ n.key = e.key /\ n.born = e.born
         /\ n.suggests = e.suggests /\ n.chosen = e.chosen
         /\ n.id = ShortId(e.territory, e.key)
BY DEF Fields, Shortened

LEMMA LagUpdateFields ==
  ASSUME NEW registry, NEW e, DOMAIN e = Fields,
         NEW n, n = LagUpdate(registry, e)
  PROVE  /\ DOMAIN n = Fields
         /\ n.territory = e.territory /\ n.key = "last_alert_lag"
         /\ n.born = e.born /\ n.suggests = e.suggests /\ n.chosen = e.chosen
         /\ \/ n.id = e.id
            \/ /\ e.id \in AutomaticLagIds(e.territory, e.key)
               /\ n.id = ShortId(e.territory, "last_alert_lag")
               /\ n.id \notin InUse(registry)
<1>1. CASE /\ e.id \in AutomaticLagIds(e.territory, e.key)
           /\ ShortId(e.territory, "last_alert_lag") \notin InUse(registry)
  <2>1. n = [[e EXCEPT !.key = "last_alert_lag"] EXCEPT
               !.id = ShortId(e.territory, "last_alert_lag")]
    BY <1>1, Zenon DEF LagUpdate
  <2> QED
    BY <1>1, <2>1 DEF Fields
<1>2. CASE ~ (/\ e.id \in AutomaticLagIds(e.territory, e.key)
              /\ ShortId(e.territory, "last_alert_lag") \notin InUse(registry))
  <2>1. n = [e EXCEPT !.key = "last_alert_lag"]
    BY <1>2, Zenon DEF LagUpdate
  <2> QED
    BY <2>1 DEF Fields
<1> QED
  BY <1>1, <1>2

-----------------------------------------------------------------------------
(* _async_migrate_last_lag_entities, for one of the old keys.              *)

(* What the migration of the lag sensors may make of a registry: an old    *)
(* lag sensor of the territory is the new one, if there was none.          *)
LagMigrated(old, new, t) ==
  /\ \A n \in new : \E e \in old :
       \/ n = e
       \/ /\ e.territory = t /\ e.key \in LagKeys
          /\ n.territory = t /\ n.key = "last_alert_lag" /\ n.born = e.born
          /\ n.id = e.id \/ n.id[1] = t
  /\ \A e \in old : e.territory # t \/ e.key = "last_alert_lag" => e \in new

LEMMA LagKeyMigrates ==
  ASSUME NEW t \in Territories, NEW key \in LagKeys, NEW registry,
         Sound(registry),
         NEW new, new = MigrateLagKey(t, key, registry)
  PROVE  /\ ~LagRaises(t, key, registry)
         /\ Sound(new)
         /\ LagMigrated(registry, new, t)
         /\ Find(new, t, key) # {} => Find(new, t, "last_alert_lag") # {}
<1>1. CASE Find(registry, t, "last_alert_lag") # {}
  <2>1. new = registry
    BY <1>1 DEF MigrateLagKey
  <2> QED
    BY <1>1, <2>1 DEF LagRaises, LagMigrated
<1>2. CASE /\ Find(registry, t, "last_alert_lag") = {}
           /\ Find(registry, t, key) = {}
  <2>1. new = registry
    BY <1>2 DEF MigrateLagKey
  <2> QED
    BY <1>2, <2>1 DEF LagRaises, LagMigrated
<1>3. CASE /\ Find(registry, t, "last_alert_lag") = {}
           /\ Find(registry, t, key) # {}
  <2>1. PICK e : e \in Find(registry, t, key)
    BY <1>3
  <2>2. /\ Find(registry, t, key) = {e}
        /\ e \in registry /\ e.territory = t /\ e.key = key
    BY <2>1, FoundIsOne, MembersFound
  <2> DEFINE n == LagUpdate(registry, e)
  <2>3. new = Replace(registry, e, n)
    BY <1>3, <2>2 DEF MigrateLagKey, Replace
  <2>4. WellMade(e)
    BY <2>2 DEF Sound
  <2>5. /\ DOMAIN n = Fields
        /\ n.territory = t /\ n.key = "last_alert_lag"
        /\ n.born = e.born /\ n.suggests = e.suggests /\ n.chosen = e.chosen
        /\ \/ n.id = e.id
           \/ /\ e.id \in AutomaticLagIds(t, key)
              /\ n.id = ShortId(t, "last_alert_lag")
              /\ n.id \notin InUse(registry)
    BY <2>2, <2>4, LagUpdateFields DEF WellMade
  <2>6. ~LagRaises(t, key, registry)
    <3> SUFFICES ASSUME LagRaises(t, key, registry)
                 PROVE  FALSE
      OBVIOUS
    <3>1. Clash(registry, e, n)
      BY <2>2 DEF LagRaises
    <3> HIDE DEF n
    <3> QED
      BY <1>3, <3>1, <2>5 DEF Clash
  <2> HIDE DEF n
  <2>7. "last_alert_lag" \in Keys /\ key \notin Keys /\ "last_alert_lag" \in AllKeys
        /\ "last_alert_lag" \notin LagKeys
    BY KeysAreApart
  <2>8. WellMade(n)
    <3>1. e.born \in AllKeys
      BY <2>4 DEF WellMade
    <3>2. n.chosen # None => n.chosen = n.id /\ n.id[1] = "user"
      <4>1. e.id \in AutomaticLagIds(t, key) => e.id[1] # "user"
        BY IdsAreApart DEF AutomaticLagIds
      <4> QED
        BY <2>4, <2>5, <4>1 DEF WellMade
    <3>3. ASSUME NEW u \in Territories, NEW k \in Keys, n.id = ShortId(u, k)
          PROVE  n.territory = u /\ n.key = k
      <4>1. CASE n.id = e.id
        BY <2>2, <2>4, <2>7, <3>3, <4>1 DEF WellMade
      <4>2. CASE n.id = ShortId(t, "last_alert_lag")
        <5>1. ShortId(t, "last_alert_lag") = ShortId(u, k)
          BY <3>3, <4>2
        <5>2. t = u /\ "last_alert_lag" = k
          BY <2>7, <5>1, ShortIdsAreOwn
        <5> QED
          BY <2>5, <5>2
      <4> QED
        BY <2>5, <4>1, <4>2
    <3> QED
      BY <2>4, <2>5, <2>7, <3>1, <3>2, <3>3 DEF WellMade
  <2>9. Sound(new)
    <3>1. n.id = e.id \/ n.id \notin InUse(registry)
      BY <2>5
    <3> QED
      BY <1>3, <2>2, <2>3, <2>5, <2>8, <3>1, ReplacedIsSound
  <2>10. \A d : d \in new <=> d = n \/ (d \in registry /\ d # e)
    BY <2>2, <2>3 DEF Replace
  <2>11. n.id = e.id \/ n.id[1] = t
    BY <2>5, IdsAreApart
  <2>12. n \in Find(new, t, "last_alert_lag")
    BY <2>5, <2>10, MembersFound
  <2>13. LagMigrated(registry, new, t)
    <3>1. ASSUME NEW m \in new
          PROVE  \E d \in registry :
                   \/ m = d
                   \/ /\ d.territory = t /\ d.key \in LagKeys
                      /\ m.territory = t /\ m.key = "last_alert_lag"
                      /\ m.born = d.born
                      /\ m.id = d.id \/ m.id[1] = t
      BY <2>2, <2>5, <2>10, <2>11
    <3> QED
      BY <2>2, <2>5, <2>7, <2>10, <2>11, <2>12, <3>1 DEF LagMigrated
  <2> QED
    BY <2>6, <2>9, <2>12, <2>13
<1> QED
  BY <1>1, <1>2, <1>3

-----------------------------------------------------------------------------
(* _async_migrate_default_entity_ids, for one key and for both.            *)

(* What the migration of the ids may make of a registry: entities of the   *)
(* territory have their short ids, everything else stays.                  *)
Renamed(old, new, t) ==
  /\ \A n \in new : \E e \in old :
       /\ n.territory = e.territory /\ n.key = e.key /\ n.born = e.born
       /\ n = e \/ (n.territory = t /\ n.id = ShortId(t, n.key))
  /\ \A e \in old : \E n \in new :
       n.territory = e.territory /\ n.key = e.key

LEMMA RenamedTwice ==
  ASSUME NEW t, NEW A, NEW B, NEW C, Renamed(A, B, t), Renamed(B, C, t)
  PROVE  Renamed(A, C, t)
<1>1. ASSUME NEW n \in C
      PROVE  \E e \in A :
               /\ n.territory = e.territory /\ n.key = e.key /\ n.born = e.born
               /\ n = e \/ (n.territory = t /\ n.id = ShortId(t, n.key))
  <2>1. PICK m \in B :
          /\ n.territory = m.territory /\ n.key = m.key /\ n.born = m.born
          /\ n = m \/ (n.territory = t /\ n.id = ShortId(t, n.key))
    BY DEF Renamed
  <2>2. PICK e \in A :
          /\ m.territory = e.territory /\ m.key = e.key /\ m.born = e.born
          /\ m = e \/ (m.territory = t /\ m.id = ShortId(t, m.key))
    BY DEF Renamed
  <2> QED
    BY <2>1, <2>2
<1>2. ASSUME NEW e \in A
      PROVE  \E n \in C : n.territory = e.territory /\ n.key = e.key
  <2>1. PICK m \in B : m.territory = e.territory /\ m.key = e.key
    BY DEF Renamed
  <2>2. PICK n \in C : n.territory = m.territory /\ n.key = m.key
    BY DEF Renamed
  <2> QED
    BY <2>1, <2>2
<1> QED
  BY <1>1, <1>2 DEF Renamed

(* An id somebody chose is never taken for an automatic one.               *)
LEMMA UntouchedIsNotChosen ==
  ASSUME NEW registry, Sound(registry), IsFiniteSet(others),
         NEW e \in registry, Untouched(registry, e)
  PROVE  e.id[1] # "user" /\ e.chosen = None
<1>1. WellMade(e)
  BY DEF Sound
<1>2. CASE e.id = LegacyId(e.territory, e.key)
  BY <1>1, <1>2, IdsAreApart DEF WellMade
<1>3. CASE Generated(registry, e.suggests, {e.id}) = e.id
  <2>1. PICK n \in Nat :
          Generated(registry, e.suggests, {e.id}) = Numbered(e.suggests, n)
    BY GeneratedIsFree DEF Sound
  <2>2. e.id[1] = e.suggests[1]
    BY <1>3, <2>1 DEF Numbered
  <2> QED
    BY <1>1, <2>2 DEF WellMade
<1> QED
  BY <1>2, <1>3 DEF Untouched

LEMMA DefaultKeyMigrates ==
  ASSUME NEW t \in Territories, NEW key \in Keys, NEW registry,
         Sound(registry), IsFiniteSet(others),
         NEW new, new = MigrateDefaultKey(t, key, registry)
  PROVE  /\ Sound(new)
         /\ Renamed(registry, new, t)
         /\ \A n \in Find(new, t, key) :
              n.id = LegacyId(t, key) => ShortId(t, key) \in others
<1> DEFINE Shortens(e) == /\ Untouched(registry, e)
                          /\ ~Clash(registry, e, Shortened(e))
           renamed == {e \in Find(registry, t, key) : Shortens(e)}
<1>0. new = (registry \ renamed) \cup {Shortened(e) : e \in renamed}
  BY DEF MigrateDefaultKey
<1>1. CASE renamed = {}
  <2>1. new = registry
    BY <1>0, <1>1
  <2>2. ASSUME NEW e \in Find(registry, t, key), e.id = LegacyId(t, key)
        PROVE  ShortId(t, key) \in others
    <3>1. e \in registry /\ e.territory = t /\ e.key = key
      BY MembersFound
    <3>2. WellMade(e)
      BY <3>1 DEF Sound
    <3>3. Untouched(registry, e)
      BY <2>2, <3>1 DEF Untouched
    <3>4. Clash(registry, e, Shortened(e))
      BY <1>1, <3>3
    <3>5. Shortened(e).key = e.key /\ Shortened(e).id = ShortId(t, key)
      BY <3>1, <3>2, ShortenedFields DEF WellMade
    <3>6. ShortId(t, key) \in InUse(registry)
      BY <3>4, <3>5 DEF Clash
    <3>7. ASSUME NEW d \in registry, d.id = ShortId(t, key)
          PROVE  FALSE
      <4>1. d.territory = t /\ d.key = key
        BY <3>7 DEF Sound, WellMade
      <4>2. d = e
        BY <3>1, <4>1 DEF Sound, Distinct
      <4> QED
        BY <2>2, <3>7, <4>2, ShortIsNotLegacy
    <3> QED
      BY <3>6, <3>7, IdsInUse
  <2>3. Renamed(registry, registry, t)
    BY DEF Renamed
  <2> QED
    BY <2>1, <2>2, <2>3
<1>2. CASE renamed # {}
  <2>1. PICK e \in Find(registry, t, key) : Shortens(e)
    BY <1>2
  <2>2. /\ Find(registry, t, key) = {e}
        /\ e \in registry /\ e.territory = t /\ e.key = key
    BY FoundIsOne, MembersFound
  <2> DEFINE n == Shortened(e)
  <2>3. new = Replace(registry, e, n)
    <3>1. renamed = {e}
      BY <2>1, <2>2
    <3> QED
      BY <1>0, <3>1 DEF Replace
  <2>4. WellMade(e)
    BY <2>2 DEF Sound
  <2>5. /\ DOMAIN n = Fields
        /\ n.territory = t /\ n.key = key
        /\ n.born = e.born /\ n.suggests = e.suggests /\ n.chosen = e.chosen
        /\ n.id = ShortId(t, key)
    BY <2>2, <2>4, ShortenedFields DEF WellMade
  <2>6. n.id = e.id \/ n.id \notin InUse(registry)
    BY <2>1 DEF Clash
  <2>7. e.chosen = None
    BY <2>1, <2>2, UntouchedIsNotChosen
  <2> HIDE DEF n
  <2>8. WellMade(n)
    <3>1. ASSUME NEW u \in Territories, NEW k \in Keys, n.id = ShortId(u, k)
          PROVE  n.territory = u /\ n.key = k
      <4>1. t = u /\ key = k
        <5>1. ShortId(t, key) = ShortId(u, k)
          BY <2>5, <3>1
        <5> QED
          BY <5>1, ShortIdsAreOwn
      <4> QED
        BY <2>5, <4>1
    <3> QED
      BY <2>2, <2>4, <2>5, <2>7, <3>1 DEF WellMade
  <2>9. Sound(new)
    BY <2>2, <2>3, <2>5, <2>6, <2>8, ReplacedIsSound
  <2>10. \A d : d \in new <=> d = n \/ (d \in registry /\ d # e)
    BY <2>2, <2>3 DEF Replace
  <2>11. Renamed(registry, new, t)
    BY <2>2, <2>5, <2>10 DEF Renamed
  <2>12. ASSUME NEW m \in Find(new, t, key), m.id = LegacyId(t, key)
         PROVE  FALSE
    <3>1. m \in new /\ m.territory = t /\ m.key = key
      BY MembersFound
    <3>2. m = n
      BY <2>5, <2>9, <2>10, <3>1 DEF Sound, Distinct
    <3> QED
      BY <2>5, <2>12, <3>2, ShortIsNotLegacy
  <2> QED
    BY <2>9, <2>11, <2>12
<1> QED
  BY <1>1, <1>2

LEMMA DefaultMigrates ==
  ASSUME NEW t \in Territories, NEW registry, Sound(registry),
         IsFiniteSet(others), NEW new, new = MigrateDefault(t, registry)
  PROVE  /\ Sound(new)
         /\ Renamed(registry, new, t)
         /\ \A n \in new :
              /\ n.territory = t /\ n.key \in Keys
              /\ n.id = LegacyId(t, n.key)
              => ShortId(t, n.key) \in others
<1> DEFINE half == MigrateDefaultKey(t, "threat_codes", registry)
<1>1. new = MigrateDefaultKey(t, "last_alert_lag", half)
  BY DEF MigrateDefault
<1>2. Keys = {"threat_codes", "last_alert_lag"}
  BY KeysAreApart
<1>3. /\ Sound(half) /\ Renamed(registry, half, t)
      /\ \A n \in Find(half, t, "threat_codes") :
           n.id = LegacyId(t, "threat_codes") => ShortId(t, "threat_codes") \in others
  BY <1>2, DefaultKeyMigrates
<1> HIDE DEF half
<1>4. /\ Sound(new) /\ Renamed(half, new, t)
      /\ \A n \in Find(new, t, "last_alert_lag") :
           n.id = LegacyId(t, "last_alert_lag")
             => ShortId(t, "last_alert_lag") \in others
  BY <1>1, <1>2, <1>3, DefaultKeyMigrates
<1>5. ASSUME NEW n \in new, n.territory = t, n.key \in Keys,
             n.id = LegacyId(t, n.key)
      PROVE  ShortId(t, n.key) \in others
  <2>1. CASE n.key = "last_alert_lag"
    BY <1>4, <1>5, <2>1, MembersFound
  <2>2. CASE n.key = "threat_codes"
    <3>1. n.id # ShortId(t, n.key)
      BY <1>5, ShortIsNotLegacy
    <3>2. n \in half
      BY <1>4, <3>1 DEF Renamed
    <3> QED
      BY <1>3, <1>5, <2>2, <3>2, MembersFound
  <2> QED
    BY <1>2, <1>5, <2>1, <2>2
<1>6. Renamed(registry, new, t)
  BY <1>3, <1>4, RenamedTwice
<1> QED
  BY <1>4, <1>5, <1>6

-----------------------------------------------------------------------------
(* A platform adds an entity.                                              *)

(* What adding the entity of a key makes of a registry: the entity is      *)
(* there already, is restored from those removed or is new.                *)
Extended(old, new, t, key) ==
  /\ \A n \in new :
       \/ \E e \in old : /\ n.territory = e.territory /\ n.key = e.key
                         /\ n.born = e.born /\ n.id = e.id
       \/ /\ n.territory = t /\ n.key = key /\ Find(old, t, key) = {}
          /\ \/ n.id[1] = t
             \/ \E r \in removed :
                  r.territory = t /\ r.key = key /\ n.id = r.id
  /\ \A e \in old : \E n \in new :
       n.territory = e.territory /\ n.key = e.key

LEMMA EntrantIsWellMade ==
  ASSUME NEW t \in Territories, NEW key \in Keys, NEW registry,
         Sound(registry), IsFiniteSet(others),
         \A id \in others : id[1] # "user",
         Remembered(removed), Apart(registry, Find(removed, t, key)),
         Find(registry, t, key) = {},
         NEW n \in Entrants(t, registry, key)
  PROVE  /\ Entrants(t, registry, key) = {n}
         /\ WellMade(n) /\ n.territory = t /\ n.key = key
         /\ n.id \notin InUse(registry)
         /\ \/ n.id[1] = t
            \/ \E r \in removed : r.territory = t /\ r.key = key /\ n.id = r.id
<1> DEFINE short == <<t, Suffix[key]>>
           given == Generated(registry, short, {})
           old == Find(removed, t, key)
           fresh == [territory |-> t, key |-> key, suggests |-> short,
                     id |-> given, born |-> key, chosen |-> None]
           back(e) == [e EXCEPT !.suggests = short,
                         !.id = IF @ \in InUse(registry) THEN given ELSE @]
<1>0. \A id \in others : id[1] # "user"
  OBVIOUS
<1>1. PICK m \in Nat : given = Numbered(short, m)
                       /\ Numbered(short, m) \notin InUse(registry) \ {}
  BY GeneratedIsFree DEF Sound
<1>2. given[1] = t /\ given[2] = Suffix[key] /\ given \notin InUse(registry)
  BY <1>1 DEF Numbered
<1>3. t # "user" /\ key \in AllKeys /\ key \notin LagKeys
  BY IdsAreApart, KeysAreApart
<1>4. \A u \in Territories, k \in Keys : given = ShortId(u, k) => u = t /\ k = key
  <2>1. \A u \in Territories, k \in Keys :
          ShortId(u, k)[1] = u /\ ShortId(u, k)[2] = Suffix[k]
    BY DEF ShortId
  <2> HIDE DEF given
  <2> QED
    BY <1>2, <2>1, KeysAreApart
<1>5. fresh.id = given /\ fresh.territory = t /\ fresh.key = key
      /\ fresh.suggests[1] = t /\ fresh.born = key /\ fresh.chosen = None
      /\ DOMAIN fresh = Fields
  BY DEF Fields
<1>6. ASSUME NEW e, DOMAIN e = Fields
      PROVE  /\ DOMAIN back(e) = Fields
             /\ back(e).territory = e.territory /\ back(e).key = e.key
             /\ back(e).born = e.born /\ back(e).chosen = e.chosen
             /\ back(e).suggests[1] = t
             /\ \/ e.id \in InUse(registry) /\ back(e).id = given
                \/ e.id \notin InUse(registry) /\ back(e).id = e.id
  <2> HIDE DEF given
  <2> QED
    BY <1>6 DEF Fields
<1>7. Entrants(t, registry, key) =
        IF old = {} THEN {fresh} ELSE {back(e) : e \in old}
  BY DEF Entrants
<1>8. CASE old = {}
  <2>1. n = fresh /\ Entrants(t, registry, key) = {n}
    BY <1>7, <1>8
  <2> HIDE DEF fresh, given
  <2>2. WellMade(n)
    BY <1>3, <1>4, <1>5, <2>1 DEF WellMade
  <2> QED
    BY <1>2, <1>5, <2>1, <2>2
<1>9. CASE old # {}
  <2>1. PICK e : e \in old
    BY <1>9
  <2>2. e \in removed /\ e.territory = t /\ e.key = key
    BY <2>1, MembersFound
  <2>3. old = {e}
    BY <2>2, MembersFound DEF Remembered
  <2>4. Entrants(t, registry, key) = {back(e)} /\ n = back(e)
    BY <1>7, <2>3
  <2>5. WellMade(e)
    BY <2>2 DEF Remembered
  <2>6. /\ DOMAIN n = Fields
        /\ n.territory = t /\ n.key = key
        /\ n.born = e.born /\ n.chosen = e.chosen
        /\ n.suggests[1] = t
        /\ \/ e.id \in InUse(registry) /\ n.id = given
           \/ e.id \notin InUse(registry) /\ n.id = e.id
    BY <1>6, <2>2, <2>4, <2>5 DEF WellMade
  <2> HIDE DEF given, back, old
  <2>7. e.id \in InUse(registry) => e.id[1] # "user"
    <3>1. e \in Find(removed, t, key)
      BY <2>2, MembersFound
    <3> QED
      BY <3>1, <2>2, <1>0, IdsInUse DEF Apart
  <2>8. WellMade(n)
    <3>1. n.chosen # None => n.chosen = n.id /\ n.id[1] = "user"
      BY <2>5, <2>6, <2>7 DEF WellMade
    <3>2. \A u \in Territories, k \in Keys :
            n.id = ShortId(u, k) => n.territory = u /\ n.key = k
      BY <1>4, <2>2, <2>5, <2>6 DEF WellMade
    <3> QED
      BY <1>3, <2>5, <2>6, <3>1, <3>2 DEF WellMade
  <2> QED
    BY <1>2, <2>2, <2>4, <2>6, <2>8
<1> QED
  BY <1>8, <1>9

LEMMA AddedExtends ==
  ASSUME NEW t \in Territories, NEW key \in Keys, NEW registry,
         NEW renew \in BOOLEAN, Sound(registry), IsFiniteSet(others),
         \A id \in others : id[1] # "user",
         Remembered(removed), Apart(registry, Find(removed, t, key)),
         NEW new, new = Added(t, registry, key, renew)
  PROVE  Sound(new) /\ Extended(registry, new, t, key)
<1>1. CASE Find(registry, t, key) = {}
  <2>1. new = registry \cup Entrants(t, registry, key)
    BY <1>1 DEF Added
  <2>2. PICK n : n \in Entrants(t, registry, key)
    <3>1. Find(removed, t, key) # {} => \E e : e \in Find(removed, t, key)
      OBVIOUS
    <3> QED
      BY <3>1 DEF Entrants
  <2>3. /\ Entrants(t, registry, key) = {n}
        /\ WellMade(n) /\ n.territory = t /\ n.key = key
        /\ n.id \notin InUse(registry)
        /\ \/ n.id[1] = t
           \/ \E r \in removed : r.territory = t /\ r.key = key /\ n.id = r.id
    BY <1>1, <2>2, EntrantIsWellMade
  <2>4. new = registry \cup {n}
    BY <2>1, <2>3
  <2>5. Sound(new)
    BY <1>1, <2>3, <2>4, ExtendedIsSound
  <2>6. Extended(registry, new, t, key)
    BY <1>1, <2>3, <2>4 DEF Extended
  <2> QED
    BY <2>5, <2>6
<1>2. CASE Find(registry, t, key) # {}
  <2>1. PICK e : e \in Find(registry, t, key)
    BY <1>2
  <2>2. /\ Find(registry, t, key) = {e}
        /\ e \in registry /\ e.territory = t /\ e.key = key
    BY <2>1, FoundIsOne, MembersFound
  <2> DEFINE n == IF renew THEN [e EXCEPT !.suggests = <<t, Suffix[key]>>] ELSE e
  <2>3. new = Replace(registry, e, n)
    BY <1>2, <2>2 DEF Added, Replace
  <2>4. WellMade(e)
    BY <2>2 DEF Sound
  <2>5. /\ DOMAIN n = Fields
        /\ n.territory = t /\ n.key = key /\ n.born = e.born
        /\ n.chosen = e.chosen /\ n.id = e.id
        /\ n.suggests[1] = t \/ n.suggests[1] = e.suggests[1]
    BY <2>2, <2>4 DEF Fields, WellMade
  <2> HIDE DEF n
  <2>6. WellMade(n)
    BY <2>2, <2>4, <2>5, IdsAreApart DEF WellMade
  <2>7. Sound(new)
    BY <2>2, <2>3, <2>5, <2>6, ReplacedIsSound
  <2>8. \A d : d \in new <=> d = n \/ (d \in registry /\ d # e)
    BY <2>2, <2>3 DEF Replace
  <2>9. Extended(registry, new, t, key)
    BY <2>2, <2>5, <2>8 DEF Extended
  <2> QED
    BY <2>7, <2>9
<1> QED
  BY <1>1, <1>2

-----------------------------------------------------------------------------
(* What the changes of a registry keep of the invariant.                   *)

Continued(registry) ==
  \A old, new \in registry :
    /\ old.territory = new.territory
    /\ old.key \in LagKeys
    /\ new.key = "last_alert_lag"
    => new.born # "last_alert_lag"

Shortest(registry, t) ==
  \A e \in registry : e.territory = t =>
    /\ e.key \notin DiagnosticKeys
    /\ e.key \in Keys /\ e.id = LegacyId(t, e.key) => ShortId(t, e.key) \in others

LEMMA PropertiesByRegistry ==
  ASSUME \A e \in entities : e.territory \in Territories
  PROVE  /\ LagSensorContinues <=> Continued(entities)
         /\ LegacyIdsAreShortened <=>
              \A t \in Territories : phase[t] = "loaded" => Shortest(entities, t)
BY DEF LagSensorContinues, Continued, LegacyIdsAreShortened, Shortest

LEMMA LagMigratedKeeps ==
  ASSUME NEW t \in Territories, NEW old, NEW new, LagMigrated(old, new, t),
         Sound(old)
  PROVE  /\ \A n \in new : \E e \in old : n.territory = e.territory
         /\ \A n \in new : n.territory # t => n \in old
         /\ \A n \in new : n.key # "last_alert_lag" => n \in old
         /\ Continued(old) => Continued(new)
         /\ \A gone : Apart(old, gone) => Apart(new, gone)
         /\ \A u : u # t /\ Prepared(old, u) => Prepared(new, u)
<1>1. \A n \in new : \E e \in old : n.territory = e.territory
  BY DEF LagMigrated
<1>2. /\ \A n \in new : n.territory # t => n \in old
      /\ \A n \in new : n.key # "last_alert_lag" => n \in old
  BY DEF LagMigrated
<1>3. ASSUME Continued(old), NEW a \in new, NEW b \in new,
             a.territory = b.territory, a.key \in LagKeys,
             b.key = "last_alert_lag"
      PROVE  b.born # "last_alert_lag"
  <2>0. "last_alert_lag" \notin LagKeys
    BY DEF LagKeys
  <2>1. a \in old
    BY <1>2, <1>3, <2>0
  <2>2. PICK e \in old :
           \/ b = e
           \/ e.key \in LagKeys /\ b.born = e.born
    BY DEF LagMigrated
  <2>3. CASE b = e
    BY <1>3, <2>1, <2>3 DEF Continued
  <2>4. CASE e.key \in LagKeys /\ b.born = e.born
    BY <2>0, <2>4 DEF Sound, WellMade
  <2> QED
    BY <2>2, <2>3, <2>4
<1>4. ASSUME NEW gone, Apart(old, gone), NEW d \in new, NEW e \in gone,
             d.id = e.id
      PROVE  d.id[1] # "user"
  <2>1. \/ d \in old
        \/ \E c \in old : d.id = c.id
        \/ d.id[1] = t
    BY DEF LagMigrated
  <2> QED
    BY <1>4, <2>1, IdsAreApart DEF Apart
<1>5. ASSUME NEW u, u # t, Prepared(old, u), NEW n \in new, n.territory = u
      PROVE  /\ n.key \notin DiagnosticKeys
             /\ n.key \in LagKeys => Find(new, u, "last_alert_lag") # {}
  <2>1. n \in old
    BY <1>2, <1>5
  <2>2. ASSUME n.key \in LagKeys
        PROVE  Find(new, u, "last_alert_lag") # {}
    <3>1. PICK c : c \in Find(old, u, "last_alert_lag")
      BY <1>5, <2>1, <2>2 DEF Prepared
    <3>2. c \in old /\ c.territory = u /\ c.key = "last_alert_lag"
      BY <3>1, MembersFound
    <3>3. c \in new
      BY <3>2 DEF LagMigrated
    <3> QED
      BY <3>2, <3>3, MembersFound
  <2> QED
    BY <1>5, <2>1, <2>2 DEF Prepared
<1> QED
  BY <1>1, <1>2, <1>3, <1>4, <1>5 DEF Continued, Apart, Prepared

LEMMA RenamedKeeps ==
  ASSUME NEW t \in Territories, NEW old, NEW new, Renamed(old, new, t)
  PROVE  /\ \A n \in new : \E e \in old : n.territory = e.territory
         /\ \A n \in new : n.territory # t => n \in old
         /\ Continued(old) => Continued(new)
         /\ \A gone : Apart(old, gone) => Apart(new, gone)
         /\ \A u : Prepared(old, u) => Prepared(new, u)
<1>1. \A n \in new : \E e \in old : n.territory = e.territory
  BY DEF Renamed
<1>2. \A n \in new : n.territory # t => n \in old
  BY DEF Renamed
<1>3. ASSUME Continued(old), NEW a \in new, NEW b \in new,
             a.territory = b.territory, a.key \in LagKeys,
             b.key = "last_alert_lag"
      PROVE  b.born # "last_alert_lag"
  <2>1. PICK c \in old : c.territory = a.territory /\ c.key = a.key
    BY DEF Renamed
  <2>2. PICK d \in old :
          d.territory = b.territory /\ d.key = b.key /\ d.born = b.born
    BY DEF Renamed
  <2> QED
    BY <1>3, <2>1, <2>2 DEF Continued
<1>4. ASSUME NEW gone, Apart(old, gone), NEW d \in new, NEW e \in gone,
             d.id = e.id
      PROVE  d.id[1] # "user"
  <2>1. d \in old \/ d.id = ShortId(t, d.key)
    BY DEF Renamed
  <2> QED
    BY <1>4, <2>1, IdsAreApart DEF Apart
<1>5. ASSUME NEW u, Prepared(old, u), NEW n \in new, n.territory = u
      PROVE  /\ n.key \notin DiagnosticKeys
             /\ n.key \in LagKeys => Find(new, u, "last_alert_lag") # {}
  <2>1. PICK e \in old : e.territory = u /\ e.key = n.key
    BY <1>5 DEF Renamed
  <2>2. n.key \notin DiagnosticKeys
    BY <1>5, <2>1 DEF Prepared
  <2>3. ASSUME n.key \in LagKeys
        PROVE  Find(new, u, "last_alert_lag") # {}
    <3>1. PICK c : c \in Find(old, u, "last_alert_lag")
      BY <1>5, <2>1, <2>3 DEF Prepared
    <3>2. c \in old /\ c.territory = u /\ c.key = "last_alert_lag"
      BY <3>1, MembersFound
    <3>3. PICK m \in new : m.territory = u /\ m.key = "last_alert_lag"
      BY <3>2 DEF Renamed
    <3> QED
      BY <3>3, MembersFound
  <2> QED
    BY <2>2, <2>3
<1> QED
  BY <1>1, <1>2, <1>3, <1>4, <1>5 DEF Continued, Apart, Prepared

LEMMA PartKeeps ==
  ASSUME NEW old, NEW part \in SUBSET old
  PROVE  /\ Continued(old) => Continued(part)
         /\ \A gone : Apart(old, gone) => Apart(part, gone)
         /\ \A u : (\A e \in old : e.territory = u => e \in part) =>
              (Prepared(old, u) => Prepared(part, u))
<1>1. ASSUME NEW u, Prepared(old, u),
             \A e \in old : e.territory = u => e \in part
      PROVE  Prepared(part, u)
  <2>1. Find(old, u, "last_alert_lag") = Find(part, u, "last_alert_lag")
    BY <1>1 DEF Find
  <2> QED
    BY <1>1, <2>1 DEF Prepared
<1> QED
  BY <1>1 DEF Continued, Apart

LEMMA ShortestKeeps ==
  ASSUME NEW u, NEW old, NEW new, Shortest(old, u),
         \A n \in new : n.territory = u =>
           \E e \in old : /\ e.territory = u /\ e.key = n.key
                          /\ n.id = e.id \/ n.id # LegacyId(u, n.key)
  PROVE  Shortest(new, u)
<1> SUFFICES ASSUME NEW n \in new, n.territory = u
             PROVE  /\ n.key \notin DiagnosticKeys
                    /\ n.key \in Keys /\ n.id = LegacyId(u, n.key) =>
                         ShortId(u, n.key) \in others
  BY DEF Shortest
<1>1. PICK e \in old : /\ e.territory = u /\ e.key = n.key
                       /\ n.id = e.id \/ n.id # LegacyId(u, n.key)
  OBVIOUS
<1>2. /\ e.key \notin DiagnosticKeys
      /\ e.key \in Keys /\ e.id = LegacyId(u, e.key) => ShortId(u, e.key) \in others
  BY <1>1 DEF Shortest
<1> QED
  BY <1>1, <1>2

(* Entities that are forgotten are remembered with their ids.              *)
LEMMA ForgottenAreRemembered ==
  ASSUME RegistryInv, RemovedInv, NEW gone \in SUBSET entities
  PROVE  Remembered(Forget(gone)) /\ Apart(entities \ gone, Forget(gone))
<1>1. \A e \in Forget(gone) :
        \/ e \in gone
        \/ /\ e \in removed
           /\ \A g \in gone : e.territory # g.territory \/ e.key # g.key
  BY DEF Forget
<1>2. \A e \in Forget(gone) : WellMade(e)
  BY <1>1 DEF RegistryInv, RemovedInv, Remembered, Sound
<1>3. ASSUME NEW d \in Forget(gone), NEW e \in Forget(gone),
             \/ d.territory = e.territory /\ d.key = e.key
             \/ d.id = e.id /\ d.id[1] = "user"
      PROVE  d = e
  <2>1. CASE d \in gone /\ e \in gone
    BY <1>3, <2>1 DEF RegistryInv, Sound, Distinct
  <2>2. CASE d \in removed /\ e \in removed
    BY <1>3, <2>2 DEF RemovedInv, Remembered
  <2>3. CASE d \in gone /\ e \notin gone
    BY <1>1, <1>3, <2>3 DEF RemovedInv, Apart
  <2>4. CASE e \in gone /\ d \notin gone
    BY <1>1, <1>3, <2>4 DEF RemovedInv, Apart
  <2> QED
    BY <1>1, <2>1, <2>2, <2>3, <2>4
<1>4. ASSUME NEW d \in entities \ gone, NEW e \in Forget(gone), d.id = e.id
      PROVE  d.id[1] # "user"
  <2>1. CASE e \in gone
    BY <1>4, <2>1 DEF RegistryInv, Sound, Distinct
  <2>2. CASE e \in removed
    BY <1>4, <2>2 DEF RemovedInv, Apart
  <2> QED
    BY <1>1, <2>1, <2>2
<1> QED
  BY <1>2, <1>3, <1>4 DEF Remembered, Apart

(* Adding the entities of both keys.                                       *)
Joined(old, new, t) ==
  /\ \A n \in new :
       \/ \E e \in old : /\ n.territory = e.territory /\ n.key = e.key
                         /\ n.born = e.born /\ n.id = e.id
       \/ /\ n.territory = t /\ n.key \in Keys /\ Find(old, t, n.key) = {}
          /\ \/ n.id[1] = t
             \/ \E r \in removed :
                  r.territory = t /\ r.key \in Keys /\ n.id = r.id
  /\ \A e \in old : \E n \in new :
       n.territory = e.territory /\ n.key = e.key

LEMMA ExtendedTwice ==
  ASSUME NEW t, NEW A, NEW B, NEW C, Extended(A, B, t, "threat_codes"),
         Extended(B, C, t, "last_alert_lag")
  PROVE  Joined(A, C, t)
<1>0. Keys = {"threat_codes", "last_alert_lag"}
  BY KeysAreApart
<1>1. ASSUME NEW n \in C
      PROVE  \/ \E e \in A : /\ n.territory = e.territory /\ n.key = e.key
                             /\ n.born = e.born /\ n.id = e.id
             \/ /\ n.territory = t /\ n.key \in Keys /\ Find(A, t, n.key) = {}
                /\ \/ n.id[1] = t
                   \/ \E r \in removed :
                        r.territory = t /\ r.key \in Keys /\ n.id = r.id
  <2>1. CASE \E m \in B : /\ n.territory = m.territory /\ n.key = m.key
                          /\ n.born = m.born /\ n.id = m.id
    <3>1. PICK m \in B : /\ n.territory = m.territory /\ n.key = m.key
                         /\ n.born = m.born /\ n.id = m.id
      BY <2>1
    <3> QED
      BY <1>0, <3>1 DEF Extended
  <2>2. CASE /\ n.territory = t /\ n.key = "last_alert_lag"
             /\ Find(B, t, "last_alert_lag") = {}
             /\ \/ n.id[1] = t
                \/ \E r \in removed : /\ r.territory = t
                                      /\ r.key = "last_alert_lag" /\ n.id = r.id
    <3>1. Find(A, t, "last_alert_lag") = {}
      <4> SUFFICES ASSUME NEW e, e \in Find(A, t, "last_alert_lag")
                   PROVE  FALSE
        OBVIOUS
      <4>1. e \in A /\ e.territory = t /\ e.key = "last_alert_lag"
        BY MembersFound
      <4>2. PICK m \in B : m.territory = t /\ m.key = "last_alert_lag"
        BY <4>1 DEF Extended
      <4> QED
        BY <2>2, <4>2, MembersFound
    <3> QED
      BY <1>0, <2>2, <3>1
  <2> QED
    BY <2>1, <2>2 DEF Extended
<1>2. ASSUME NEW e \in A
      PROVE  \E n \in C : n.territory = e.territory /\ n.key = e.key
  <2>1. PICK m \in B : m.territory = e.territory /\ m.key = e.key
    BY DEF Extended
  <2>2. PICK n \in C : n.territory = m.territory /\ n.key = m.key
    BY DEF Extended
  <2> QED
    BY <2>1, <2>2
<1> QED
  BY <1>1, <1>2 DEF Joined

-----------------------------------------------------------------------------
(* Every action keeps the invariant.                                       *)

(* What an action on the entry of one territory has to show.               *)
LEMMA InvariantNext ==
  ASSUME MigrationInv, others' = others, Sound(entities'),
         phase' \in [Territories ->
           {"absent", "unloaded", "prepared", "added", "loaded"}],
         \A n \in entities' : phase'[n.territory] # "absent",
         Remembered(removed'), Apart(entities', removed'),
         Continued(entities'),
         \A u \in Territories :
           /\ phase'[u] \in {"prepared", "added", "loaded"} =>
                Prepared(entities', u)
           /\ phase'[u] = "loaded" => Shortest(entities', u)
  PROVE  MigrationInv'
<1>1. RegistryInv'
  BY DEF MigrationInv, RegistryInv, Sound, WellMade, Distinct
<1>2. RemovedInv'
  BY DEF RemovedInv, Remembered, Apart
<1>3. SetUpInv'
  BY DEF SetUpInv, SetUp, Prepared
<1>4. \A e \in entities' : e.territory \in Territories
  BY DEF Sound, WellMade
<1>5. LagSensorContinues'
  BY DEF LagSensorContinues, Continued
<1>6. LegacyIdsAreShortened'
  BY <1>4 DEF LegacyIdsAreShortened, Shortest
<1> QED
  BY <1>1, <1>2, <1>3, <1>5, <1>6 DEF MigrationInv

(* The invariant in terms of the registry.                                 *)
LEMMA InvariantNow ==
  ASSUME MigrationInv
  PROVE  /\ Sound(entities) /\ IsFiniteSet(others)
         /\ \A id \in others : id[1] # "user"
         /\ phase \in [Territories ->
              {"absent", "unloaded", "prepared", "added", "loaded"}]
         /\ \A e \in entities :
              e.territory \in Territories /\ phase[e.territory] # "absent"
         /\ Remembered(removed) /\ Apart(entities, removed)
         /\ Continued(entities)
         /\ \A u \in Territories :
              /\ phase[u] \in {"prepared", "added", "loaded"} =>
                   Prepared(entities, u)
              /\ phase[u] = "loaded" => Shortest(entities, u)
<1>1. RegistryInv /\ RemovedInv /\ SetUpInv
  BY DEF MigrationInv
<1>2. \A e \in entities : e.territory \in Territories
  BY <1>1 DEF RegistryInv, Sound, WellMade
<1>3. /\ Continued(entities)
      /\ \A u \in Territories : phase[u] = "loaded" => Shortest(entities, u)
  BY <1>2, PropertiesByRegistry DEF MigrationInv
<1> QED
  BY <1>1, <1>2, <1>3 DEF RegistryInv, RemovedInv, SetUpInv, SetUp

LEMMA PrepareKeeps ==
  ASSUME MigrationInv, NEW t \in Territories, Prepare(t)
  PROVE  MigrationInv'
<1> DEFINE gone == {e \in Diagnostic : e.territory = t}
           kept == entities \ gone
           once == MigrateLagKey(t, "alert_latency", kept)
           twice == MigrateLagKey(t, "last_alert_delay", once)
           all == MigrateDefault(t, twice)
<1>1. RegistryInv /\ RemovedInv
  BY DEF MigrationInv
<1>2. gone \in SUBSET entities /\ kept \in SUBSET entities
  BY DEF Diagnostic
<1>3. Sound(kept) /\ Continued(kept)
  <2> HIDE DEF kept
  <2> QED
    BY <1>2, InvariantNow, PartIsSound, PartKeeps
<1>4. Remembered(Forget(gone)) /\ Apart(kept, Forget(gone))
  <2> HIDE DEF gone
  <2> QED
    BY <1>1, <1>2, ForgottenAreRemembered
<1>5. \A e \in kept : e.territory = t => e.key \notin DiagnosticKeys
  BY DEF Diagnostic
<1>6. \A u \in Territories : u # t /\ Prepared(entities, u) => Prepared(kept, u)
  <2>1. \A u : u # t => \A e \in entities : e.territory = u => e \in kept
    OBVIOUS
  <2> HIDE DEF kept
  <2> QED
    BY <1>2, <2>1, PartKeeps
<1> HIDE DEF kept
<1>7. LagKeys = {"alert_latency", "last_alert_delay"}
  BY DEF LagKeys
<1>8. /\ ~LagRaises(t, "alert_latency", kept)
      /\ Sound(once) /\ LagMigrated(kept, once, t)
      /\ Find(once, t, "alert_latency") # {} =>
           Find(once, t, "last_alert_lag") # {}
  BY <1>3, <1>7, LagKeyMigrates
<1> HIDE DEF once
<1>9. /\ ~LagRaises(t, "last_alert_delay", once)
      /\ Sound(twice) /\ LagMigrated(once, twice, t)
      /\ Find(twice, t, "last_alert_delay") # {} =>
           Find(twice, t, "last_alert_lag") # {}
  BY <1>7, <1>8, LagKeyMigrates
<1> HIDE DEF twice
<1>10. /\ \A n \in once : \E e \in kept : n.territory = e.territory
       /\ \A n \in once : n.territory # t => n \in kept
       /\ \A n \in once : n.key # "last_alert_lag" => n \in kept
       /\ Continued(once) /\ Apart(once, Forget(gone))
       /\ \A u : u # t /\ Prepared(kept, u) => Prepared(once, u)
  BY <1>3, <1>4, <1>8, LagMigratedKeeps
<1>11. /\ \A n \in twice : \E e \in once : n.territory = e.territory
       /\ \A n \in twice : n.territory # t => n \in once
       /\ \A n \in twice : n.key # "last_alert_lag" => n \in once
       /\ Continued(twice) /\ Apart(twice, Forget(gone))
       /\ \A u : u # t /\ Prepared(once, u) => Prepared(twice, u)
  BY <1>8, <1>9, <1>10, LagMigratedKeeps
<1>12. Prepared(twice, t)
  <2> SUFFICES ASSUME NEW n \in twice, n.territory = t
               PROVE  /\ n.key \notin DiagnosticKeys
                      /\ n.key \in LagKeys =>
                           Find(twice, t, "last_alert_lag") # {}
    BY DEF Prepared
  <2>1. n.key \notin DiagnosticKeys
    <3>1. CASE n.key = "last_alert_lag"
      BY <3>1 DEF DiagnosticKeys
    <3>2. CASE n.key # "last_alert_lag"
      BY <3>2, <1>5, <1>10, <1>11
    <3> QED
      BY <3>1, <3>2
  <2>2. CASE n.key = "last_alert_delay"
    BY <2>1, <2>2, <1>9, MembersFound
  <2>3. CASE n.key = "alert_latency"
    <3>1. n \in Find(once, t, "alert_latency")
      BY <2>3, <1>11, MembersFound
    <3>2. PICK c : c \in Find(once, t, "last_alert_lag")
      BY <3>1, <1>8
    <3>3. c \in once /\ c.territory = t /\ c.key = "last_alert_lag"
      BY <3>2, MembersFound
    <3>4. c \in twice
      BY <3>3, <1>9 DEF LagMigrated
    <3> QED
      BY <2>1, <3>3, <3>4, MembersFound
  <2> QED
    BY <2>1, <2>2, <2>3, <1>7
<1>13. /\ entities' = all /\ phase' = [phase EXCEPT ![t] = "prepared"]
       /\ removed' = Forget(gone) /\ others' = others
       /\ phase[t] = "unloaded"
  BY <1>8, <1>9 DEF Prepare, kept, once, twice
<1>14. Sound(all) /\ Renamed(twice, all, t)
  BY <1>9, InvariantNow, DefaultMigrates
<1> HIDE DEF all, gone
<1>15. /\ \A n \in all : \E e \in twice : n.territory = e.territory
       /\ \A n \in all : n.territory # t => n \in twice
       /\ Continued(all) /\ Apart(all, Forget(gone))
       /\ \A u : Prepared(twice, u) => Prepared(all, u)
  BY <1>11, <1>14, RenamedKeeps
<1>16. phase' \in [Territories ->
         {"absent", "unloaded", "prepared", "added", "loaded"}]
  BY <1>13, InvariantNow
<1>17. \A n \in all : phase'[n.territory] # "absent"
  <2> SUFFICES ASSUME NEW n \in all
               PROVE  phase'[n.territory] # "absent"
    OBVIOUS
  <2>1. PICK e \in kept : n.territory = e.territory
    BY <1>10, <1>11, <1>15
  <2>2. e \in entities
    BY <1>2, <2>1
  <2> QED
    BY <2>1, <2>2, <1>13, InvariantNow
<1>18. ASSUME NEW u \in Territories
       PROVE  /\ phase'[u] \in {"prepared", "added", "loaded"} =>
                   Prepared(all, u)
              /\ phase'[u] = "loaded" => Shortest(all, u)
  <2>1. CASE u = t
    BY <2>1, <1>12, <1>13, <1>15, InvariantNow
  <2>2. CASE u # t
    <3>1. phase'[u] = phase[u]
      BY <2>2, <1>13, InvariantNow
    <3>2. \A n \in all : n.territory = u => n \in entities
      BY <2>2, <1>2, <1>10, <1>11, <1>15
    <3>3. Shortest(entities, u) => Shortest(all, u)
      BY <3>2, ShortestKeeps
    <3>4. Prepared(entities, u) => Prepared(all, u)
      BY <2>2, <1>6, <1>10, <1>11, <1>15
    <3> QED
      BY <3>1, <3>3, <3>4, InvariantNow
  <2> QED
    BY <2>1, <2>2
<1> QED
  BY <1>4, <1>13, <1>14, <1>15, <1>16, <1>17, <1>18, InvariantNext

LEMMA AddEntitiesKeeps ==
  ASSUME MigrationInv, NEW t \in Territories, AddEntities(t)
  PROVE  MigrationInv'
<1>1. PICK renew \in BOOLEAN :
        entities' = Added(t, Added(t, entities, "threat_codes", renew),
                          "last_alert_lag", renew)
  BY DEF AddEntities
<1> DEFINE half == Added(t, entities, "threat_codes", renew)
           all == Added(t, half, "last_alert_lag", renew)
<1>2. Keys = {"threat_codes", "last_alert_lag"}
  BY KeysAreApart
<1>3. \A key : Find(removed, t, key) \subseteq removed
  BY DEF Find
<1>4. Sound(half) /\ Extended(entities, half, t, "threat_codes")
  <2>1. Apart(entities, Find(removed, t, "threat_codes"))
    BY <1>3, InvariantNow DEF Apart
  <2> QED
    BY <1>2, <2>1, InvariantNow, AddedExtends
<1> HIDE DEF half
<1>5. Apart(half, Find(removed, t, "last_alert_lag"))
  <2> SUFFICES ASSUME NEW d \in half, NEW r \in Find(removed, t, "last_alert_lag"),
                      d.id = r.id, d.id[1] = "user"
               PROVE  FALSE
    BY DEF Apart
  <2>1. r \in removed /\ r.key = "last_alert_lag"
    BY MembersFound
  <2>2. \/ \E e \in entities : d.id = e.id
        \/ d.id[1] = t
        \/ \E s \in removed : s.key = "threat_codes" /\ d.id = s.id
    BY <1>4 DEF Extended
  <2>3. CASE \E e \in entities : d.id = e.id
    BY <2>1, <2>3, InvariantNow DEF Apart
  <2>4. CASE \E s \in removed : s.key = "threat_codes" /\ d.id = s.id
    <3>1. PICK s \in removed : s.key = "threat_codes" /\ d.id = s.id
      BY <2>4
    <3>2. s = r
      BY <2>1, <3>1, InvariantNow DEF Remembered
    <3> QED
      BY <2>1, <3>1, <3>2
  <2> QED
    BY <2>2, <2>3, <2>4, IdsAreApart
<1>6. Sound(all) /\ Extended(half, all, t, "last_alert_lag")
  BY <1>2, <1>4, <1>5, InvariantNow, AddedExtends
<1>7. Joined(entities, all, t)
  BY <1>4, <1>6, ExtendedTwice
<1>8. /\ entities' = all /\ phase' = [phase EXCEPT ![t] = "added"]
      /\ removed' = {e \in removed : e.territory # t \/ e.key \notin Keys}
      /\ others' = others /\ phase[t] = "prepared"
  BY <1>1 DEF AddEntities, half
<1> HIDE DEF all
<1>9. Prepared(entities, t)
  BY <1>8, InvariantNow
<1>10. phase' \in [Territories ->
         {"absent", "unloaded", "prepared", "added", "loaded"}]
  BY <1>8, InvariantNow
<1>11. \A n \in all : phase'[n.territory] # "absent"
  <2> SUFFICES ASSUME NEW n \in all
               PROVE  phase'[n.territory] # "absent"
    OBVIOUS
  <2>1. n.territory = t \/ \E e \in entities : n.territory = e.territory
    BY <1>7 DEF Joined
  <2> QED
    BY <2>1, <1>8, InvariantNow
<1>12. Remembered(removed')
  BY <1>8, InvariantNow DEF Remembered
<1>13. Apart(all, removed')
  <2> SUFFICES ASSUME NEW d \in all, NEW r \in removed', d.id = r.id,
                      d.id[1] = "user"
               PROVE  FALSE
    BY DEF Apart
  <2>1. r \in removed /\ ~(r.territory = t /\ r.key \in Keys)
    BY <1>8
  <2>2. \/ \E e \in entities : d.id = e.id
        \/ d.id[1] = t
        \/ \E s \in removed : s.territory = t /\ s.key \in Keys /\ d.id = s.id
    BY <1>7 DEF Joined
  <2>3. CASE \E e \in entities : d.id = e.id
    BY <2>1, <2>3, InvariantNow DEF Apart
  <2>4. CASE \E s \in removed : s.territory = t /\ s.key \in Keys /\ d.id = s.id
    <3>1. PICK s \in removed : s.territory = t /\ s.key \in Keys /\ d.id = s.id
      BY <2>4
    <3>2. s = r
      BY <2>1, <3>1, InvariantNow DEF Remembered
    <3> QED
      BY <2>1, <3>1, <3>2
  <2> QED
    BY <2>2, <2>3, <2>4, IdsAreApart
<1>14. "last_alert_lag" \notin LagKeys /\ Keys \cap LagKeys = {}
       /\ Keys \cap DiagnosticKeys = {}
  BY KeysAreApart
(* Where there is an old lag sensor there is a new one, so that none is    *)
(* created.                                                                *)
<1>15. Continued(all)
  <2> SUFFICES ASSUME NEW a \in all, NEW b \in all, a.territory = b.territory,
                      a.key \in LagKeys, b.key = "last_alert_lag"
               PROVE  b.born # "last_alert_lag"
    BY DEF Continued
  <2>1. PICK c \in entities : c.territory = a.territory /\ c.key = a.key
    BY <1>7, <1>14 DEF Joined
  <2>2. CASE \E e \in entities : /\ b.territory = e.territory /\ b.key = e.key
                                 /\ b.born = e.born
    BY <2>1, <2>2, InvariantNow DEF Continued
  <2>3. CASE b.territory = t /\ Find(entities, t, b.key) = {}
    BY <2>1, <2>3, <1>9 DEF Prepared
  <2> QED
    BY <2>2, <2>3, <1>7 DEF Joined
<1>16. ASSUME NEW u, Prepared(entities, u)
       PROVE  Prepared(all, u)
  <2> SUFFICES ASSUME NEW n \in all, n.territory = u
               PROVE  /\ n.key \notin DiagnosticKeys
                      /\ n.key \in LagKeys => Find(all, u, "last_alert_lag") # {}
    BY DEF Prepared
  <2>1. CASE n.key \in Keys
    BY <2>1, <1>14
  <2>2. CASE n.key \notin Keys
    <3>1. PICK e \in entities : e.territory = u /\ e.key = n.key
      BY <2>2, <1>7 DEF Joined
    <3>2. n.key \notin DiagnosticKeys
      BY <1>16, <3>1 DEF Prepared
    <3>3. ASSUME n.key \in LagKeys
          PROVE  Find(all, u, "last_alert_lag") # {}
      <4>1. PICK c : c \in Find(entities, u, "last_alert_lag")
        BY <1>16, <3>1, <3>3 DEF Prepared
      <4>2. c \in entities /\ c.territory = u /\ c.key = "last_alert_lag"
        BY <4>1, MembersFound
      <4>3. PICK m \in all : m.territory = u /\ m.key = "last_alert_lag"
        BY <4>2, <1>7 DEF Joined
      <4> QED
        BY <4>3, MembersFound
    <3> QED
      BY <3>2, <3>3
  <2> QED
    BY <2>1, <2>2
<1>17. ASSUME NEW u \in Territories
       PROVE  /\ phase'[u] \in {"prepared", "added", "loaded"} =>
                   Prepared(all, u)
              /\ phase'[u] = "loaded" => Shortest(all, u)
  <2>1. CASE u = t
    BY <2>1, <1>8, <1>9, <1>16, InvariantNow
  <2>2. CASE u # t
    <3>1. phase'[u] = phase[u]
      BY <2>2, <1>8, InvariantNow
    <3>2. \A n \in all : n.territory = u =>
            \E e \in entities : e.territory = u /\ e.key = n.key /\ n.id = e.id
      BY <2>2, <1>7 DEF Joined
    <3>3. Shortest(entities, u) => Shortest(all, u)
      BY <3>2, ShortestKeeps
    <3> QED
      BY <3>1, <3>3, <1>16, InvariantNow
  <2> QED
    BY <2>1, <2>2
<1> QED
  BY <1>6, <1>8, <1>10, <1>11, <1>12, <1>13, <1>15, <1>17, InvariantNext

LEMMA FinishKeeps ==
  ASSUME MigrationInv, NEW t \in Territories, Finish(t)
  PROVE  MigrationInv'
<1> DEFINE all == MigrateDefault(t, entities)
<1>1. /\ entities' = all /\ phase' = [phase EXCEPT ![t] = "loaded"]
      /\ removed' = removed /\ others' = others /\ phase[t] = "added"
  BY DEF Finish
<1>2. /\ Sound(all) /\ Renamed(entities, all, t)
      /\ \A n \in all :
           /\ n.territory = t /\ n.key \in Keys
           /\ n.id = LegacyId(t, n.key)
           => ShortId(t, n.key) \in others
  BY InvariantNow, DefaultMigrates
<1> HIDE DEF all
<1>3. /\ \A n \in all : \E e \in entities : n.territory = e.territory
      /\ \A n \in all : n.territory # t => n \in entities
      /\ Continued(all) /\ Apart(all, removed)
      /\ \A u : Prepared(entities, u) => Prepared(all, u)
  BY <1>2, InvariantNow, RenamedKeeps
<1>4. Prepared(all, t)
  BY <1>1, <1>3, InvariantNow
<1>5. Shortest(all, t)
  BY <1>2, <1>4 DEF Shortest, Prepared
<1>6. phase' \in [Territories ->
        {"absent", "unloaded", "prepared", "added", "loaded"}]
  BY <1>1, InvariantNow
<1>7. \A n \in all : phase'[n.territory] # "absent"
  BY <1>1, <1>3, InvariantNow
<1>8. ASSUME NEW u \in Territories
      PROVE  /\ phase'[u] \in {"prepared", "added", "loaded"} =>
                  Prepared(all, u)
             /\ phase'[u] = "loaded" => Shortest(all, u)
  <2>1. CASE u = t
    BY <2>1, <1>4, <1>5
  <2>2. CASE u # t
    <3>1. phase'[u] = phase[u]
      BY <2>2, <1>1, InvariantNow
    <3>2. Shortest(entities, u) => Shortest(all, u)
      BY <2>2, <1>3, ShortestKeeps
    <3> QED
      BY <3>1, <3>2, <1>3, InvariantNow
  <2> QED
    BY <2>1, <2>2
<1> QED
  BY <1>1, <1>2, <1>3, <1>6, <1>7, <1>8, InvariantNow, InvariantNext

LEMMA UnloadKeeps ==
  ASSUME MigrationInv, NEW t \in Territories, Unload(t)
  PROVE  MigrationInv'
<1>1. /\ entities' = entities /\ phase' = [phase EXCEPT ![t] = "unloaded"]
      /\ removed' = removed /\ others' = others
  BY DEF Unload
<1>2. phase' \in [Territories ->
        {"absent", "unloaded", "prepared", "added", "loaded"}]
  BY <1>1, InvariantNow
<1>3. \A n \in entities : phase'[n.territory] # "absent"
  BY <1>1, InvariantNow
<1>4. ASSUME NEW u \in Territories
      PROVE  /\ phase'[u] \in {"prepared", "added", "loaded"} =>
                  Prepared(entities, u)
             /\ phase'[u] = "loaded" => Shortest(entities, u)
  BY <1>1, InvariantNow
<1> QED
  BY <1>1, <1>2, <1>3, <1>4, InvariantNow, InvariantNext

LEMMA AddEntryKeeps ==
  ASSUME MigrationInv, NEW t \in Territories, AddEntry(t)
  PROVE  MigrationInv'
<1>1. /\ entities' = entities /\ phase' = [phase EXCEPT ![t] = "unloaded"]
      /\ removed' = removed /\ others' = others
  BY DEF AddEntry
<1>2. phase' \in [Territories ->
        {"absent", "unloaded", "prepared", "added", "loaded"}]
  BY <1>1, InvariantNow
<1>3. \A n \in entities : phase'[n.territory] # "absent"
  BY <1>1, InvariantNow
<1>4. ASSUME NEW u \in Territories
      PROVE  /\ phase'[u] \in {"prepared", "added", "loaded"} =>
                  Prepared(entities, u)
             /\ phase'[u] = "loaded" => Shortest(entities, u)
  BY <1>1, InvariantNow
<1> QED
  BY <1>1, <1>2, <1>3, <1>4, InvariantNow, InvariantNext

LEMMA RemoveEntryKeeps ==
  ASSUME MigrationInv, NEW t \in Territories, RemoveEntry(t)
  PROVE  MigrationInv'
<1> DEFINE gone == {e \in entities : e.territory = t}
           kept == entities \ gone
<1>1. /\ entities' = kept /\ phase' = [phase EXCEPT ![t] = "absent"]
      /\ removed' = Forget(gone) /\ others' = others
  BY DEF RemoveEntry
<1>2. gone \in SUBSET entities /\ kept \in SUBSET entities
  OBVIOUS
<1>3. \A n \in entities : n \in kept <=> n.territory # t
  OBVIOUS
<1>4. Remembered(Forget(gone)) /\ Apart(kept, Forget(gone))
  <2> HIDE DEF gone
  <2> QED
    BY <1>2, ForgottenAreRemembered DEF MigrationInv
<1> HIDE DEF gone, kept
<1>5. Sound(kept) /\ Continued(kept)
  BY <1>2, InvariantNow, PartIsSound, PartKeeps
<1>6. phase' \in [Territories ->
        {"absent", "unloaded", "prepared", "added", "loaded"}]
  BY <1>1, InvariantNow
<1>7. \A n \in kept : phase'[n.territory] # "absent"
  BY <1>1, <1>2, <1>3, InvariantNow
<1>8. ASSUME NEW u \in Territories
      PROVE  /\ phase'[u] \in {"prepared", "added", "loaded"} =>
                  Prepared(kept, u)
             /\ phase'[u] = "loaded" => Shortest(kept, u)
  <2>1. CASE u = t
    <3>1. phase'[u] = "absent"
      BY <2>1, <1>1, InvariantNow
    <3> QED
      BY <3>1
  <2>2. CASE u # t
    <3>1. phase'[u] = phase[u]
      BY <2>2, <1>1, InvariantNow
    <3>2. Prepared(entities, u) => Prepared(kept, u)
      BY <2>2, <1>2, <1>3, PartKeeps
    <3>3. Shortest(entities, u) => Shortest(kept, u)
      BY <1>2, ShortestKeeps
    <3> QED
      BY <3>1, <3>2, <3>3, InvariantNow
  <2> QED
    BY <2>1, <2>2
<1> QED
  BY <1>1, <1>4, <1>5, <1>6, <1>7, <1>8, InvariantNext

LEMMA RenameKeeps ==
  ASSUME MigrationInv, NEW e \in entities, NEW name, Rename(e, name)
  PROVE  MigrationInv'
<1> DEFINE id == <<"user", name, 1>>
           new == [e EXCEPT !.id = id, !.chosen = id]
           all == Replace(entities, e, new)
<1>1. /\ entities' = all /\ phase' = phase
      /\ removed' = removed /\ others' = others
      /\ \A d \in entities \cup removed : d.id # id
  BY DEF Rename
<1>2. WellMade(e)
  BY InvariantNow DEF Sound
<1>3. /\ DOMAIN new = Fields
      /\ new.territory = e.territory /\ new.key = e.key /\ new.born = e.born
      /\ new.suggests = e.suggests /\ new.id = id /\ new.chosen = id
  BY <1>2 DEF WellMade, Fields
<1>4. id[1] = "user"
  OBVIOUS
<1> HIDE DEF new, id
<1>5. WellMade(new)
  <2>1. \A t \in Territories, key \in Keys : id # ShortId(t, key)
    BY <1>4, IdsAreApart
  <2> QED
    BY <1>2, <1>3, <1>4, <2>1 DEF WellMade
<1>6. id \notin InUse(entities)
  BY <1>1, <1>4, InvariantNow, IdsInUse
<1>7. Sound(all)
  BY <1>3, <1>5, <1>6, InvariantNow, ReplacedIsSound
<1>8. \A n : n \in all <=> n = new \/ (n \in entities /\ n # e)
  BY DEF Replace
<1> HIDE DEF all
<1>9. \A n \in all : \E c \in entities :
        /\ n.territory = c.territory /\ n.key = c.key /\ n.born = c.born
        /\ n.id = c.id \/ n.id = id
  BY <1>3, <1>8
<1>10. \A c \in entities : \E n \in all :
         n.territory = c.territory /\ n.key = c.key
  BY <1>3, <1>8
<1>11. \A n \in all : phase'[n.territory] # "absent"
  BY <1>1, <1>9, InvariantNow
<1>12. Apart(all, removed)
  BY <1>1, <1>3, <1>8, InvariantNow DEF Apart
<1>13. Continued(all)
  <2> SUFFICES ASSUME NEW a \in all, NEW b \in all, a.territory = b.territory,
                      a.key \in LagKeys, b.key = "last_alert_lag"
               PROVE  b.born # "last_alert_lag"
    BY DEF Continued
  <2>1. PICK c \in entities : a.territory = c.territory /\ a.key = c.key
    BY <1>9
  <2>2. PICK d \in entities :
          b.territory = d.territory /\ b.key = d.key /\ b.born = d.born
    BY <1>9
  <2> QED
    BY <2>1, <2>2, InvariantNow DEF Continued
<1>14. ASSUME NEW u \in Territories, Prepared(entities, u)
       PROVE  Prepared(all, u)
  <2> SUFFICES ASSUME NEW n \in all, n.territory = u
               PROVE  /\ n.key \notin DiagnosticKeys
                      /\ n.key \in LagKeys => Find(all, u, "last_alert_lag") # {}
    BY DEF Prepared
  <2>1. PICK c \in entities : n.territory = c.territory /\ n.key = c.key
    BY <1>9
  <2>2. n.key \notin DiagnosticKeys
    BY <1>14, <2>1 DEF Prepared
  <2>3. ASSUME n.key \in LagKeys
        PROVE  Find(all, u, "last_alert_lag") # {}
    <3>1. PICK d : d \in Find(entities, u, "last_alert_lag")
      BY <1>14, <2>1, <2>3 DEF Prepared
    <3>2. d \in entities /\ d.territory = u /\ d.key = "last_alert_lag"
      BY <3>1, MembersFound
    <3>3. PICK m \in all : m.territory = u /\ m.key = "last_alert_lag"
      BY <3>2, <1>10
    <3> QED
      BY <3>3, MembersFound
  <2> QED
    BY <2>2, <2>3
<1>15. ASSUME NEW u \in Territories, Shortest(entities, u)
       PROVE  Shortest(all, u)
  <2>1. \A n : id # LegacyId(u, n)
    BY <1>4, IdsAreApart
  <2>2. \A n \in all : n.territory = u =>
          \E c \in entities : /\ c.territory = u /\ c.key = n.key
                              /\ n.id = c.id \/ n.id # LegacyId(u, n.key)
    BY <1>9, <2>1
  <2> QED
    BY <1>15, <2>2, ShortestKeeps
<1> QED
  BY <1>1, <1>7, <1>11, <1>12, <1>13, <1>14, <1>15, InvariantNow, InvariantNext

(* More ids of others are no harm: none is in use.                         *)
LEMMA SquatKeeps ==
  ASSUME MigrationInv, NEW id \in Squatted, Squat(id)
  PROVE  MigrationInv'
<1>1. /\ entities' = entities /\ removed' = removed /\ phase' = phase
      /\ others' = others \cup {id} /\ id \notin InUse(entities)
  BY DEF Squat
<1>2. id[1] # "user"
  BY MigrationAssumption
<1>3. \A e \in entities : e.id # id
  BY <1>1, IdsInUse
<1>4. RegistryInv'
  <2>1. IsFiniteSet(others')
    BY <1>1, InvariantNow, FS_AddElement
  <2> QED
    BY <1>1, <1>2, <1>3, <2>1
       DEF MigrationInv, RegistryInv, Sound, WellMade, Distinct
<1>5. RemovedInv'
  BY <1>1 DEF MigrationInv, RemovedInv, Remembered, Apart, WellMade
<1>6. SetUpInv'
  BY <1>1 DEF MigrationInv, SetUpInv, SetUp, Prepared, Find
<1>7. LagSensorContinues'
  BY <1>1 DEF MigrationInv, LagSensorContinues
<1>8. LegacyIdsAreShortened'
  BY <1>1 DEF MigrationInv, LegacyIdsAreShortened
<1> QED
  BY <1>4, <1>5, <1>6, <1>7, <1>8 DEF MigrationInv

LEMMA StartsRight ==
  ASSUME Init
  PROVE  MigrationInv
<1>1. /\ entities \in Pasts /\ removed = {} /\ others = {}
      /\ phase = [t \in Territories |-> "unloaded"]
  BY DEF Init
<1>2. /\ IsFiniteSet(entities) /\ Distinct(entities)
      /\ \A e \in entities :
           /\ DOMAIN e = Fields
           /\ e.territory \in Territories /\ e.key \in AllKeys /\ e.born = e.key
           /\ e.suggests[1] # "user"
           /\ e.chosen # None => e.chosen = e.id /\ e.id[1] = "user"
           /\ \A t \in Territories, key \in Keys :
                e.id = ShortId(t, key) => e.territory = t /\ e.key = key
  BY <1>1, PastAssumption DEF Distinct, Fields
<1>3. \A e \in entities : WellMade(e)
  BY <1>2 DEF WellMade
<1>4. Sound(entities)
  BY <1>1, <1>2, <1>3 DEF Sound
<1>5. RegistryInv
  <2>1. IsFiniteSet(others)
    BY <1>1, FS_EmptySet
  <2> QED
    BY <1>1, <1>2, <1>4, <2>1 DEF RegistryInv
<1>6. RemovedInv
  BY <1>1 DEF RemovedInv, Remembered, Apart
<1>7. SetUpInv
  BY <1>1 DEF SetUpInv, SetUp
<1>8. LagSensorContinues
  BY <1>1, PastAssumption DEF LagSensorContinues
<1>9. LegacyIdsAreShortened
  BY <1>1, <1>2 DEF LegacyIdsAreShortened
<1> QED
  BY <1>5, <1>6, <1>7, <1>8, <1>9 DEF MigrationInv

LEMMA MigrationIsSafe == Spec => []MigrationInv
<1>1. Init => MigrationInv
  BY StartsRight
<1>2. MigrationInv /\ [Next]_vars => MigrationInv'
  <2> SUFFICES ASSUME MigrationInv, [Next]_vars
               PROVE  MigrationInv'
    OBVIOUS
  <2>1. CASE \E t \in Territories :
               \/ Prepare(t) \/ AddEntities(t) \/ Finish(t)
               \/ Unload(t) \/ RemoveEntry(t) \/ AddEntry(t)
    BY <2>1, PrepareKeeps, AddEntitiesKeeps, FinishKeeps, UnloadKeeps,
       RemoveEntryKeeps, AddEntryKeeps
  <2>2. CASE \E e \in entities, name \in Names : Rename(e, name)
    BY <2>2, RenameKeeps
  <2>3. CASE \E id \in Squatted : Squat(id)
    BY <2>3, SquatKeeps
  <2>4. CASE UNCHANGED vars
    BY <2>4, InvariantNow, InvariantNext DEF vars
  <2> QED
    BY <2>1, <2>2, <2>3, <2>4 DEF Next
<1> QED
  BY <1>1, <1>2, PTL DEF Spec

-----------------------------------------------------------------------------
(* What follows.                                                           *)

(* The registry keeps its shape: at most one entity of a key in use and    *)
(* one remembered, and ids that are unique among everybody's.              *)
THEOREM TypeCorrect == Spec => []TypeOK
<1>1. MigrationInv => TypeOK
  <2> SUFFICES ASSUME MigrationInv
               PROVE  TypeOK
    OBVIOUS
  <2>1. /\ \A e \in entities : WellMade(e) /\ e.id \notin others
        /\ Distinct(entities)
        /\ \A e \in removed : WellMade(e)
    BY InvariantNow DEF Sound, Remembered
  <2>2. \A registry \in {entities, removed} : \A d, e \in registry :
          d.territory = e.territory /\ d.key = e.key => d = e
    BY InvariantNow, <2>1 DEF Distinct, Remembered
  <2> QED
    BY <2>1, <2>2, InvariantNow DEF TypeOK, WellMade, Distinct
<1> QED
  BY <1>1, MigrationIsSafe, PTL

(* No set-up, before or after the platforms have added entities, and no    *)
(* removal and return of an entry takes an id away that somebody chose.    *)
THEOREM CustomIdsAreKept == Spec => []CustomIdsStay
<1>1. MigrationInv => CustomIdsStay
  BY InvariantNow DEF Sound, Remembered, WellMade, CustomIdsStay
<1> QED
  BY <1>1, MigrationIsSafe, PTL

(* The change of the lag sensor's key never makes the registry raise an    *)
(* error into the set-up, and never leaves an old lag sensor beside a new  *)
(* one that does not continue one.                                         *)
THEOREM LagSensorsMigrate == Spec => []LagSensorMigrates
<1>1. MigrationInv => LagSensorMigrates
  BY InvariantNow DEF LagSensorMigrates, SetUpNeverRaises, MigrationInv
<1> QED
  BY <1>1, MigrationIsSafe, PTL

(* Once a set-up is through no entity of the territory has its exact old   *)
(* id, unless another integration has the short one, and no diagnostic     *)
(* sensor of an older version is left.                                     *)
THEOREM LegacyIdsGo == Spec => []LegacyIdsAreShortened
<1>1. MigrationInv => LegacyIdsAreShortened
  BY DEF MigrationInv
<1> QED
  BY <1>1, MigrationIsSafe, PTL
=============================================================================
