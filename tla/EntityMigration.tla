--------------------------- MODULE EntityMigration ---------------------------
(***************************************************************************)
(* __init__.py and entity_ids.py: what the set-up of a territory does to   *)
(* the entity registry.  Older versions named entities after the title of  *)
(* the territory and had other keys for the lag sensors; a set-up renames  *)
(* what nobody has renamed, before and after its platforms add entities.   *)
(* Home Assistant's registry is external: it keeps ids unique, remembers   *)
(* removed entities and numbers an id that is in use.                      *)
(***************************************************************************)
EXTENDS Integers, FiniteSets

(* An entity id is what it is named after (a territory's uid, a title or   *)
(* the user), a name and the number the registry appended, 1 for none.     *)
CONSTANTS None,
          Territories,
          Title,         \* slug of each territory's title; not always unique
          Names,         \* ids users choose
          Squatted,      \* ids entities of others may take
          Pasts          \* registries older versions may have left

VARIABLES
  entities,   \* the registry's entities of this integration
  removed,    \* those it remembers of removed entries
  others,     \* ids in use by other integrations
  phase       \* of each territory's entry

vars == <<entities, removed, others, phase>>

(* ENTITY_ID_SPECS: the suffix for a key, for one sensor and one of the     *)
(* two lag sensors; other keys and the threat lag are treated alike.       *)
Suffix == [threat_codes |-> "threats", last_alert_lag |-> "last_alert_lag"]
Keys == DOMAIN Suffix
LagKeys == {"alert_latency", "last_alert_delay"}   \* of older versions
DiagnosticKeys == {"data_age"}
AllKeys == Keys \cup LagKeys \cup DiagnosticKeys

ShortId(t, key) == <<t, Suffix[key], 1>>
LegacyId(t, key) == <<Title[t], key, 1>>

(* Uids, titles and the user's choices are told apart, and nobody else     *)
(* takes an id from the user's.                                            *)
ASSUME MigrationAssumption ==
  /\ "user" \notin Territories
  /\ \A t \in Territories : Title[t] \notin Territories \cup {"user"}
  /\ \A id \in Squatted : id[1] # "user"

(* A registry is finite, names an entity once and gives an id once.  What  *)
(* users have not named is not named after them, and only the entity that  *)
(* a short id is meant for has it.  Versions that know the new lag sensor  *)
(* have migrated the old ones.                                             *)
ASSUME PastAssumption ==
  \A past \in Pasts :
    /\ IsFiniteSet(past)
    /\ \A d, e \in past :
         /\ d.id = e.id \/ (d.territory = e.territory /\ d.key = e.key) => d = e
         /\ d.territory = e.territory /\ d.key \in LagKeys
              => e.key # "last_alert_lag"
    /\ \A e \in past :
         /\ DOMAIN e =
              {"territory", "key", "suggests", "id", "born", "chosen"}
         /\ e.territory \in Territories /\ e.key \in AllKeys /\ e.born = e.key
         /\ e.suggests[1] # "user"
         /\ e.chosen # None => e.chosen = e.id /\ e.id[1] = "user"
         /\ \A t \in Territories, key \in Keys :
              e.id = ShortId(t, key) => e.territory = t /\ e.key = key

-----------------------------------------------------------------------------
(* The registry.  An entity suggests what it wants to be named after.      *)

Find(registry, t, key) == {e \in registry : e.territory = t /\ e.key = key}
InUse(registry) == {e.id : e \in registry} \cup others

Numbered(suggests, n) == <<suggests[1], suggests[2], n>>

(* The id an entity is given that asks for one: the first that nobody has  *)
(* but itself.                                                             *)
Generated(registry, suggests, own) ==
  LET taken == InUse(registry) \ own
      free == {n \in 1..(Cardinality(taken) + 1) :
                 Numbered(suggests, n) \notin taken}
  IN  Numbered(suggests, CHOOSE n \in free : \A m \in free : n <= m)

(* async_update_entity raises rather than let two entities clash.          *)
Clash(registry, e, new) ==
  \/ new.id # e.id /\ new.id \in InUse(registry)
  \/ new.key # e.key /\ Find(registry, new.territory, new.key) # {}

Replace(registry, e, new) == (registry \ {e}) \cup {new}

-----------------------------------------------------------------------------
(* _async_migrate_last_lag_entities.                                       *)

AutomaticLagIds(t, oldKey) == {<<t, oldKey, 1>>, LegacyId(t, oldKey)}

(* Mistake: the new key is misspelt.                                       *)
LagUpdateMisspelt(registry, e) == [e EXCEPT !.key = "last_alarm_lag"]

LagUpdate(registry, e) ==
  LET target == ShortId(e.territory, "last_alert_lag")
      new == [e EXCEPT !.key = "last_alert_lag"]
  IN  IF /\ e.id \in AutomaticLagIds(e.territory, e.key)
         /\ target \notin InUse(registry)
      THEN [new EXCEPT !.id = target]
      ELSE new

(* The old sensor becomes the new one, unless there is one already.        *)
MigrateLagKey(t, oldKey, registry) ==
  LET old == Find(registry, t, oldKey)
  IN  IF Find(registry, t, "last_alert_lag") # {} THEN registry
      ELSE (registry \ old) \cup {LagUpdate(registry, e) : e \in old}

(* async_update_entity's ValueError, which nobody catches.                 *)
LagRaises(t, oldKey, registry) ==
  /\ Find(registry, t, "last_alert_lag") = {}
  /\ \E e \in Find(registry, t, oldKey) :
       Clash(registry, e, LagUpdate(registry, e))

(* _async_migrate_default_entity_ids.                                      *)

(* Mistake: every id that is not short is taken for an automatic one.      *)
UntouchedIfLong(registry, e) == e.id # ShortId(e.territory, e.key)

(* Mistake: only what the registry would generate counts as untouched.     *)
UntouchedIfGenerated(registry, e) == Generated(registry, e.suggests, {e.id}) = e.id

(* Nobody has renamed it, as far as one can tell.                          *)
Untouched(registry, e) ==
  \/ e.id = LegacyId(e.territory, e.key)
  \/ Generated(registry, e.suggests, {e.id}) = e.id

Shortened(e) == [e EXCEPT !.id = ShortId(e.territory, e.key)]

(* The loop over the keys goes on when the short id is taken.              *)
MigrateDefaultKey(t, key, registry) ==
  LET renamed == {e \in Find(registry, t, key) :
                    /\ Untouched(registry, e)
                    /\ ~Clash(registry, e, Shortened(e))}
  IN  (registry \ renamed) \cup {Shortened(e) : e \in renamed}

MigrateDefault(t, registry) ==
  MigrateDefaultKey(t, "last_alert_lag",
                    MigrateDefaultKey(t, "threat_codes", registry))

-----------------------------------------------------------------------------
(* async_setup_entry.  It suspends after Prepare, to read the settings and *)
(* wait for the first cycle, and while the platforms add their entities.   *)

Diagnostic == {e \in entities : e.key \in DiagnosticKeys}
Forget(gone) == {e \in removed : \A g \in gone : e.territory # g.territory
                                                 \/ e.key # g.key} \cup gone

(* Mistake: the lag sensors are not migrated before the platforms.         *)
PrepareWithoutLag(t) ==
  LET gone == {e \in Diagnostic : e.territory = t}
  IN  /\ phase[t] = "unloaded"
      /\ entities' = MigrateDefault(t, entities \ gone)
      /\ removed' = Forget(gone)
      /\ phase' = [phase EXCEPT ![t] = "prepared"]
      /\ UNCHANGED others

Prepare(t) ==
  LET gone == {e \in Diagnostic : e.territory = t}
      kept == entities \ gone
      once == MigrateLagKey(t, "alert_latency", kept)
      twice == MigrateLagKey(t, "last_alert_delay", once)
  IN  /\ phase[t] = "unloaded"
      /\ removed' = Forget(gone)
      /\ IF \/ LagRaises(t, "alert_latency", kept)
            \/ LagRaises(t, "last_alert_delay", once)
         THEN /\ entities' = kept
              /\ phase' = [phase EXCEPT ![t] = "failed"]
         ELSE /\ entities' = MigrateDefault(t, twice)
              /\ phase' = [phase EXCEPT ![t] = "prepared"]
      /\ UNCHANGED others

(* A platform adds an entity: one that is registered is used, a removed    *)
(* one is restored with the id it had if that is free, any other is new.   *)
(* It suggests its short id from now on; whether the registry takes that   *)
(* over for an entity it has depends on its version.                       *)
Entrants(t, registry, key) ==
  LET short == <<t, Suffix[key]>>
      old == Find(removed, t, key)
      new == [territory |-> t, key |-> key, suggests |-> short,
              id |-> Generated(registry, short, {}),
              born |-> key, chosen |-> None]
  IN  IF old = {} THEN {new}
      ELSE {[e EXCEPT !.suggests = short,
                      !.id = IF @ \in InUse(registry) THEN new.id ELSE @] :
              e \in old}

Added(t, registry, key, renew) ==
  LET known == Find(registry, t, key)
  IN  IF known = {} THEN registry \cup Entrants(t, registry, key)
      ELSE (registry \ known) \cup
           {IF renew THEN [e EXCEPT !.suggests = <<t, Suffix[key]>>] ELSE e :
              e \in known}

AddEntities(t) ==
  /\ phase[t] = "prepared"
  /\ \E renew \in BOOLEAN :
       entities' = Added(t, Added(t, entities, "threat_codes", renew),
                         "last_alert_lag", renew)
  /\ removed' = {e \in removed : e.territory # t \/ e.key \notin Keys}
  /\ phase' = [phase EXCEPT ![t] = "added"]
  /\ UNCHANGED others

Finish(t) ==
  /\ phase[t] = "added"
  /\ entities' = MigrateDefault(t, entities)
  /\ phase' = [phase EXCEPT ![t] = "loaded"]
  /\ UNCHANGED <<removed, others>>

(* Unloading, a restart, a set-up that fails.                              *)
Unload(t) ==
  /\ phase[t] \notin {"unloaded", "absent"}
  /\ phase' = [phase EXCEPT ![t] = "unloaded"]
  /\ UNCHANGED <<entities, removed, others>>

-----------------------------------------------------------------------------
(* Users and other integrations.                                           *)

RemoveEntry(t) ==
  /\ phase[t] = "unloaded"
  /\ LET gone == {e \in entities : e.territory = t}
     IN  entities' = entities \ gone /\ removed' = Forget(gone)
  /\ phase' = [phase EXCEPT ![t] = "absent"]
  /\ UNCHANGED others

AddEntry(t) ==
  /\ phase[t] = "absent"
  /\ phase' = [phase EXCEPT ![t] = "unloaded"]
  /\ UNCHANGED <<entities, removed, others>>

(* Users choose names nobody has or had.                                   *)
Rename(e, name) ==
  LET id == <<"user", name, 1>>
  IN  /\ id \notin {d.id : d \in entities \cup removed}
      /\ entities' = Replace(entities, e, [e EXCEPT !.id = id, !.chosen = id])
      /\ UNCHANGED <<removed, others, phase>>

Squat(id) ==
  /\ id \notin InUse(entities)
  /\ others' = others \cup {id}
  /\ UNCHANGED <<entities, removed, phase>>

Init ==
  /\ entities \in Pasts
  /\ removed = {}
  /\ others = {}
  /\ phase = [t \in Territories |-> "unloaded"]

Next ==
  \/ \E t \in Territories : \/ Prepare(t) \/ AddEntities(t) \/ Finish(t)
                            \/ Unload(t) \/ RemoveEntry(t) \/ AddEntry(t)
  \/ \E e \in entities, name \in Names : Rename(e, name)
  \/ \E id \in Squatted : Squat(id)

Spec == Init /\ [][Next]_vars

-----------------------------------------------------------------------------
(* Types; no two entities of a territory share a key and no two entities   *)
(* an id.                                                                  *)
TypeOK ==
  /\ phase \in [Territories ->
       {"absent", "unloaded", "prepared", "added", "loaded", "failed"}]
  /\ \A e \in entities \cup removed :
       e.territory \in Territories /\ e.key \in AllKeys /\ e.born \in AllKeys
  /\ \A registry \in {entities, removed} : \A d, e \in registry :
       d.territory = e.territory /\ d.key = e.key => d = e
  /\ \A d, e \in entities : d.id = e.id => d = e
  /\ \A e \in entities : e.id \notin others
  /\ \A e \in entities : phase[e.territory] # "absent"

(* Docstring of _async_migrate_default_entity_ids: "Other customized IDs   *)
(* are left untouched."  An id somebody chose stays through upgrades,      *)
(* through a change of key, and through the removal of the entry.          *)
CustomIdsStay ==
  \A e \in entities \cup removed : e.chosen # None => e.id = e.chosen

(* A set-up is not the victim of the migration, whatever ids others have   *)
(* and whatever lag sensors older versions left.                           *)
SetUpNeverRaises == \A t \in Territories : phase[t] # "failed"

(* A territory that is set up has no entity left with its exact old id,    *)
(* restored ones included, and no diagnostic sensor of older versions; the *)
(* only excuse is a short id that is in use by somebody else.              *)
LegacyIdsAreShortened ==
  \A e \in entities : phase[e.territory] = "loaded" =>
    /\ e.key \notin DiagnosticKeys
    /\ e.key \in Keys /\ e.id = LegacyId(e.territory, e.key) =>
         ShortId(e.territory, e.key) \in others

(* CHANGELOG.md: "preserving the measurements across upgrade".  As long as *)
(* there is a lag sensor of an older version, the lag sensor in use is one *)
(* that continues it and not a new one beside it.                          *)
LagSensorContinues ==
  \A old, new \in entities :
    /\ old.territory = new.territory
    /\ old.key \in LagKeys
    /\ new.key = "last_alert_lag"
    => new.born # "last_alert_lag"

(* The change of the lag sensor's key harms neither the set-up nor what    *)
(* the old sensor measured.                                                *)
LagSensorMigrates == SetUpNeverRaises /\ LagSensorContinues

(* ARCHITECTURE.md: "A migration shortens untouched legacy automatic IDs"; *)
(* looked at when every territory has been set up.                         *)
UntouchedIdsAreShort ==
  (\A t \in Territories : phase[t] = "loaded") =>
  \A e \in entities :
    e.key \in Keys /\ e.chosen = None
    => \/ e.id = ShortId(e.territory, e.key)
       \/ ShortId(e.territory, e.key) \in others
=============================================================================
