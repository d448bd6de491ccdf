----------------------------- MODULE CatalogUsers ----------------------------
(***************************************************************************)
(* Who uses the catalog: options dialogues, which may refresh it, the      *)
(* dialogue that adds a territory (config_flow.py), which works on a copy  *)
(* of its own, and the set-up of entries (__init__.py), which takes the    *)
(* definitions an entry keeps until it is set up again.                    *)
(***************************************************************************)
EXTENDS CatalogStore

(* Who takes part, one of several casts:                                   *)
(*   dialogues  options dialogues                                          *)
(*   adding     whether a territory may be added                           *)
(*   entries    uids and types of territories configured before            *)
(*   limit      number of entries there may be                             *)
(*   rows       rows a downloaded sheet may have                           *)
(*   maxRows    length of a sheet                                          *)
CONSTANTS Casts,
          Dialogues   \* options dialogues

Flow == "flow"   \* the config flow as a client; entries are clients by uid

Calls == {"load", "download", "parse", "save"}   \* a dialogue may await

(* Dialogues are told apart from other clients, and None from all there is.*)
ASSUME CastAssumption ==
  \A c \in Casts :
    /\ c.dialogues \subseteq Dialogues /\ IsFiniteSet(c.dialogues)
    /\ (UidsOf(c.rows) \cup {e.uid : e \in c.entries} \cup {Flow})
         \cap Dialogues = {}
    /\ c.adding \in BOOLEAN
    /\ \A row \in c.rows : /\ row.type \in Types /\ row.usable \in BOOLEAN
                           /\ row.uid # None
    /\ c.maxRows \in Nat /\ c.limit \in Nat
    /\ None \notin DefinitionsOf(c.rows) \cup Types \cup Calls

VARIABLES
  cast,       \* chosen at the beginning
  options,    \* options dialogues: the form shown and the call it awaits
  flow,       \* UAAlertsConfigFlow
  entries     \* configured territories and what their coordinators know

userVars == <<options, flow, entries>>
vars == <<cast, storeVars, userVars>>

NoDialogue == [form |-> "closed", awaits |-> None]
NoFlow == [form |-> "closed", catalog |-> {}, region |-> None,
           scope |-> None, district |-> None]

(* An entry's data name its type; its definitions come with its set-up.    *)
NotSetUp(type) == [type |-> type, own |-> None, inside |-> {}]
SetUp(uid) == entries[uid].own # None

-----------------------------------------------------------------------------
(* async_setup_entry: its definitions of the territory and what is in it.  *)

(* Mistake: a raion is given every hromada of its oblast.                  *)
DescendantsByOblast(own, items) ==
  {d \in items :
     /\ own.type \in {"raion", "oblast"}
     /\ d.uid # own.uid
     /\ d.type \in {"raion", "hromada"}
     /\ own.type = "raion" => d.type = "hromada"
     /\ d.oblast = IF own.type = "raion" THEN own.oblast ELSE own.uid}

(* descendant_locations_for.                                               *)
Descendants(own, items) ==
  {d \in items :
     \/ own.type = "raion" /\ d.type = "hromada" /\ d.raion = own.uid
     \/ /\ own.type = "oblast"
        /\ d.uid # own.uid
        /\ d.type \in {"raion", "hromada"}
        /\ d.oblast = own.uid}

(* A territory the catalog does not have is known by its uid alone.        *)
OwnDefinition(uid, type, items) ==
  IF \E d \in items : d.uid = uid
  THEN CHOOSE d \in items : d.uid = uid
  ELSE [uid |-> uid, type |-> type, oblast |-> None, raion |-> None]

Known(uid, type, items) ==
  LET own == OwnDefinition(uid, type, items)
  IN  [type |-> type, own |-> own, inside |-> Descendants(own, items)]

Configured == DOMAIN entries

SetUpEntry(uid) ==
  /\ LoopFree
  /\ ~SetUp(uid) /\ uid \notin waiting
  /\ IF InMemory
     THEN /\ entries' = [entries EXCEPT ![uid] = Known(uid, @.type, memory)]
          /\ UNCHANGED storeVars
     ELSE AwaitLoad(uid) /\ UNCHANGED entries
  /\ UNCHANGED <<cast, options, flow>>

(* Unloading forgets the definitions with the coordinator.                 *)
UnloadEntry(uid) ==
  /\ LoopFree
  /\ SetUp(uid)
  /\ entries' = [entries EXCEPT ![uid] = NotSetUp(@.type)]
  /\ UNCHANGED <<cast, storeVars, options, flow>>

-----------------------------------------------------------------------------
(* The options dialogue.  It may be closed while it awaits something.      *)

OpenOptions(d) ==
  /\ LoopFree
  /\ options[d] = NoDialogue
  /\ Configured # {}
  /\ IF InMemory
     THEN options' = [options EXCEPT ![d].form = "init"] /\ UNCHANGED storeVars
     ELSE /\ AwaitLoad(d)
          /\ options' = [options EXCEPT ![d].awaits = "load"]
  /\ UNCHANGED <<cast, flow, entries>>

(* async_step_refresh_catalog, and the retry after a failure.              *)
RefreshCatalog(d) ==
  /\ LoopFree
  /\ options[d].form \in {"init", "refresh_catalog_failed"}
  /\ options[d].awaits = None
  /\ options' = [options EXCEPT ![d].awaits = "download"]
  /\ UNCHANGED <<cast, storeVars, flow, entries>>

CloseOptions(d) ==
  /\ LoopFree
  /\ options[d].form # "closed"
  /\ options' = [options EXCEPT ![d].form = "closed"]
  /\ UNCHANGED <<cast, storeVars, flow, entries>>

(* The form after a call, if the dialogue was not closed meanwhile.        *)
Answered(d, form) ==
  options' = [options EXCEPT
    ![d] = [form |-> IF @.form = "closed" THEN "closed" ELSE form,
            awaits |-> None]]

(* CatalogRefreshError: no connection, a timeout, an error status.         *)
DownloadFails(d) ==
  /\ LoopFree
  /\ options[d].awaits = "download"
  /\ Answered(d, "refresh_catalog_failed")
  /\ UNCHANGED <<cast, storeVars, flow, entries>>

(* A sheet csv.reader gives up on: its csv.Error is not listed and leaves  *)
(* the form as it was, like a save that raises.                            *)
SheetUnreadable(d) ==
  /\ LoopFree
  /\ options[d].awaits = "download"
  /\ Answered(d, options[d].form)
  /\ UNCHANGED <<cast, storeVars, flow, entries>>

DownloadSucceeds(d) ==
  /\ LoopFree
  /\ options[d].awaits = "download"
  /\ EndDownload(d)
  /\ options' = [options EXCEPT ![d].awaits = "parse"]
  /\ UNCHANGED <<cast, flow, entries>>

ReadRow(row) ==
  /\ NextRow(row, cast.maxRows)
  /\ UNCHANGED <<cast, userVars>>

(* Mistake: a sheet that is not accepted leaves the dialogue waiting.      *)
SheetEndsQuietly ==
  /\ EndParse
  /\ IF saves' # saves
     THEN options' = [options EXCEPT ![parsing.client].awaits = "save"]
     ELSE UNCHANGED options
  /\ UNCHANGED <<cast, flow, entries>>

SheetEnds ==
  /\ EndParse
  /\ IF saves' # saves
     THEN options' = [options EXCEPT ![parsing.client].awaits = "save"]
     ELSE Answered(parsing.client, "refresh_catalog_failed")
  /\ UNCHANGED <<cast, flow, entries>>

(* A refresh that worked ends the dialogue; a save that raises is not a    *)
(* CatalogRefreshError, and the form stays as it was.                      *)
SaveEnds(ok) ==
  /\ LoopFree
  /\ EndSave(ok)
  /\ LET d == Head(saves).client
     IN  Answered(d, IF ok THEN "closed" ELSE options[d].form)
  /\ UNCHANGED <<cast, flow, entries>>

-----------------------------------------------------------------------------
(* The config flow: search, or region, scope, raion, hromada.  Its copy of *)
(* the catalog is taken once.                                              *)

RaionsOf(region, items) ==
  {d \in items : d.type = "raion" /\ d.oblast = region.uid}
HromadasOf(district, items) ==
  {d \in items : d.type = "hromada" /\ d.raion = district.uid}

(* async_step_user; catalog_is_full holds of every catalog it can get.     *)
StartFlow ==
  /\ LoopFree
  /\ cast.adding
  /\ flow = NoFlow /\ Flow \notin waiting
  /\ IF InMemory
     THEN flow' = [NoFlow EXCEPT !.form = "user", !.catalog = memory]
          /\ UNCHANGED storeVars
     ELSE AwaitLoad(Flow) /\ UNCHANGED flow
  /\ UNCHANGED <<cast, options, entries>>

(* The definitions a form offers.                                          *)
Choosable ==
  CASE flow.form = "tree" -> {d \in flow.catalog : d.type \in {"oblast", "city"}}
    [] flow.form = "raion" -> RaionsOf(flow.region, flow.catalog)
    [] flow.form = "hromada" -> HromadasOf(flow.district, flow.catalog)
    [] flow.form = "search_results" -> flow.catalog
    [] OTHER -> {}

(* _async_create_location: a territory is configured once.  Whoever has it *)
(* already is told so; both ends the dialogue.                             *)
CreateLocation(location) ==
  /\ flow' = NoFlow
  /\ location.uid \in Configured \/ Cardinality(Configured) < cast.limit
  /\ entries' = [uid \in Configured \cup {location.uid} |->
                   IF uid \in Configured THEN entries[uid]
                   ELSE NotSetUp(location.type)]

ChooseWay ==
  /\ LoopFree
  /\ flow.form = "user"
  /\ flow' \in {[flow EXCEPT !.form = "search_results"],
                [flow EXCEPT !.form = "tree"]}
  /\ UNCHANGED <<cast, storeVars, options, entries>>

ChooseResult ==
  /\ LoopFree
  /\ flow.form = "search_results"
  /\ \E location \in Choosable : CreateLocation(location)
  /\ UNCHANGED <<cast, storeVars, options>>

ChooseRegion ==
  /\ LoopFree
  /\ flow.form = "tree"
  /\ \E region \in Choosable :
       IF region.type = "city" \/ RaionsOf(region, flow.catalog) = {}
       THEN CreateLocation(region)
       ELSE /\ flow' = [flow EXCEPT !.form = "scope", !.region = region]
            /\ UNCHANGED entries
  /\ UNCHANGED <<cast, storeVars, options>>

(* Mistake: a hromada is asked for before its raion.                       *)
ChooseScopeDirectly ==
  /\ LoopFree
  /\ flow.form = "scope"
  /\ \E scope \in {"raion", "hromada"} :
       flow' = [flow EXCEPT !.form = scope, !.scope = scope]
  /\ UNCHANGED <<cast, storeVars, options, entries>>

ChooseScope ==
  /\ LoopFree
  /\ flow.form = "scope"
  /\ \/ CreateLocation(flow.region)
     \/ /\ \E scope \in {"raion", "hromada"} :
             flow' = [flow EXCEPT !.form = "raion", !.scope = scope]
        /\ UNCHANGED entries
  /\ UNCHANGED <<cast, storeVars, options>>

ChooseRaion ==
  /\ LoopFree
  /\ flow.form = "raion"
  /\ \E district \in Choosable :
       IF flow.scope = "raion"
       THEN CreateLocation(district)
       ELSE /\ flow' = [flow EXCEPT !.form = "hromada", !.district = district]
            /\ UNCHANGED entries
  /\ UNCHANGED <<cast, storeVars, options>>

ChooseHromada ==
  /\ LoopFree
  /\ flow.form = "hromada"
  /\ \E location \in Choosable : CreateLocation(location)
  /\ UNCHANGED <<cast, storeVars, options>>

CloseFlow ==
  /\ LoopFree
  /\ flow # NoFlow
  /\ flow' = NoFlow
  /\ UNCHANGED <<cast, storeVars, options, entries>>

-----------------------------------------------------------------------------
(* The load serves everyone who waits for it.                              *)
LoadEnds ==
  /\ LoopFree
  /\ EndLoad
  /\ options' = [d \in Dialogues |->
                   IF d \in waiting THEN [form |-> "init", awaits |-> None]
                   ELSE options[d]]
  /\ flow' = IF Flow \in waiting
             THEN [NoFlow EXCEPT !.form = "user", !.catalog = memory']
             ELSE flow
  /\ entries' = [uid \in Configured |->
                   IF uid \in waiting
                   THEN Known(uid, entries[uid].type, memory')
                   ELSE entries[uid]]
  /\ UNCHANGED cast

Restart ==
  /\ LoseMemory
  /\ options' = [d \in Dialogues |-> NoDialogue]
  /\ flow' = NoFlow
  /\ entries' = [uid \in Configured |-> NotSetUp(entries[uid].type)]
  /\ UNCHANGED cast

Init ==
  /\ cast \in Casts
  /\ StoreInit
  /\ options = [d \in Dialogues |-> NoDialogue]
  /\ flow = NoFlow
  /\ entries = [uid \in {e.uid : e \in cast.entries} |->
                  NotSetUp((CHOOSE e \in cast.entries : e.uid = uid).type)]

Next ==
  \/ \E uid \in Configured : SetUpEntry(uid) \/ UnloadEntry(uid)
  \/ \E d \in cast.dialogues :
       \/ OpenOptions(d) \/ RefreshCatalog(d) \/ CloseOptions(d)
       \/ DownloadFails(d) \/ SheetUnreadable(d) \/ DownloadSucceeds(d)
  \/ \E row \in cast.rows : ReadRow(row)
  \/ SheetEnds
  \/ \E ok \in BOOLEAN : SaveEnds(ok)
  \/ StartFlow \/ ChooseWay \/ ChooseResult
  \/ ChooseRegion \/ ChooseScope \/ ChooseRaion \/ ChooseHromada \/ CloseFlow
  \/ LoadEnds \/ Restart

(* Home Assistant answers loads and saves and a download ends, if only by  *)
(* its timeout; whatever has ended gets its turn once the event loop is    *)
(* free, though sheets that are parsed may block it again and again.       *)
Fairness ==
  /\ SF_vars(LoadEnds)
  /\ \A d \in Dialogues :
       SF_vars(DownloadFails(d) \/ SheetUnreadable(d) \/ DownloadSucceeds(d))
  /\ WF_vars(SheetEnds)
  /\ SF_vars(\E ok \in BOOLEAN : SaveEnds(ok))

Spec == Init /\ [][Next]_vars /\ Fairness

-----------------------------------------------------------------------------
Definitions == DefinitionsOf(cast.rows)
Forms == {"closed", "user", "search_results", "tree", "scope", "raion", "hromada"}

(* Types, and what the forms of the config flow rest on: a step that needs *)
(* a region, a scope or a district is reached only with one.               *)
TypeOK ==
  /\ memory \in (SUBSET Definitions) \cup {None}
  /\ stored \in (SUBSET Definitions) \cup {None}
  /\ waiting \subseteq cast.dialogues \cup {Flow} \cup Configured
  /\ parsing # None => /\ parsing.client \in cast.dialogues
                       /\ parsing.rows \in 0..cast.maxRows
                       /\ parsing.parser.items \subseteq Definitions
  /\ Len(saves) <= Cardinality(cast.dialogues)
  /\ options \in [Dialogues ->
       [form : {"closed", "init", "refresh_catalog_failed"},
        awaits : Calls \cup {None}]]
  /\ flow.form \in Forms
  /\ flow.catalog \subseteq Definitions
  /\ flow.form \in {"scope", "raion", "hromada"} => flow.region # None
  /\ flow.form \in {"raion", "hromada"} <=> flow.scope # None
  /\ flow.form = "hromada" <=> flow.district # None
  /\ \A uid \in Configured : SetUp(uid) => entries[uid].own.uid = uid

(* catalog.py: "Failures never replace a previously valid catalog", and a  *)
(* refreshed one "wins".  The catalog in memory is always the one a        *)
(* restart would find: no load brings back an older one, no refresh that   *)
(* failed anywhere leaves a trace, overlapping refreshes leave the same    *)
(* one in both places, and what a refresh accepts a load accepts too.      *)
MemoryIsWhatARestartFinds == memory # None => memory = Loaded

(* Every catalog anyone can get to see is full and a hierarchy, whatever   *)
(* the sheet had in it: rows of no use, repeated uids, areas without the   *)
(* larger area they need.                                                  *)
CatalogsAreSound ==
  /\ parsing # None => Hierarchical(parsing.parser.items)
  /\ \A items \in ({memory, stored} \ {None})
                    \cup {saves[i].items : i \in DOMAIN saves} :
       Hierarchical(items) /\ CatalogIsFull(items)
  /\ flow # NoFlow => Hierarchical(flow.catalog) /\ CatalogIsFull(flow.catalog)

(* Whoever adds a territory chooses inside what was chosen before, though  *)
(* an options dialogue may replace the catalog in the middle: the region   *)
(* has raions, the district lies in the region, and a hromada that is      *)
(* offered lies in both.                                                   *)
ChoicesNest ==
  /\ flow.form \in {"scope", "raion", "hromada"} =>
       RaionsOf(flow.region, flow.catalog) # {}
  /\ flow.form = "hromada" => flow.district \in RaionsOf(flow.region, flow.catalog)
  /\ flow.form = "hromada" =>
       \A d \in Choosable : d.oblast = flow.region.uid /\ d.raion = flow.district.uid

(* An entry's definitions fit together: what is inside it names it as its  *)
(* parent and shares its oblast, and a raion inside an oblast comes with   *)
(* the hromadas whose raion it is.  A territory no catalog has, has        *)
(* nothing inside.                                                         *)
EntriesKnowWholes ==
  \A uid \in Configured : SetUp(uid) =>
    LET own == entries[uid].own
        inside == entries[uid].inside
    IN  /\ \A d \in inside :
             /\ uid \in {d.oblast, d.raion}
             /\ own.type = "raion" => d.oblast = own.oblast
             /\ d.type = "hromada" /\ own.type = "oblast" =>
                  \E r \in inside : r.uid = d.raion
        /\ own.type \notin {"oblast", "city"} /\ own.oblast = None => inside = {}

(* What is inside something is inside it by the catalog that named it, for *)
(* whoever adds a territory and for every entry that is set up.            *)
PartsBelongToWholes == ChoicesNest /\ EntriesKnowWholes

(* A refresh comes to an end, and so does the opening of the dialogue: the *)
(* user sees a result or can try again.                                    *)
RefreshEnds == \A d \in Dialogues : options[d].awaits # None ~> options[d].awaits = None
=============================================================================
