# Formal verification of UA Alerts

UA Alerts is a Home Assistant custom integration that polls one source of air-raid
alerts for Ukraine and shows the state of each configured territory. This directory
holds TLA+ models of the integration (`src/custom_components/ua_alerts/`), TLC
configurations that check them on small instances, and proofs of their safety
properties for all instances. `PROJECT.json` lists runs, mutants, the lines every
definition stands for, the hazards and the theorems.

File names below are those of `src/custom_components/ua_alerts/`.

## The system

| Part | Code | State it keeps | Model |
| --- | --- | --- | --- |
| Entry lifecycle, domain data | `__init__.py:160-300` | the domain's runtime and its lock, a coordinator per entry | `EntryLifecycle` |
| Singleton runtime: registration | `runtime.py:104-185` | callbacks, poll task, first-cycle event, request lock | `EntryLifecycle`, abstractly `SingletonPolling` |
| Singleton runtime: poll loop | `runtime.py:201-293`, `timing.py` | snapshot and its age, errors, wake-up event | `PollingRuntime` |
| Domain settings | `settings.py`, `number.py`, timing step of `config_flow.py` | settings in memory, in the storage, in the runtime, in entry options | `SettingsSync` |
| Evaluation of a territory | `models.py:376-829` | none, a function of the snapshot | `TerritoryEvaluation` |
| Alert and threat trackers | `models.py:30-322` | lifecycle under observation, last measurements, seen threats | `AlertTrackers` |
| Coordinator | `coordinator.py`, `health.py` | trackers, event baseline, test override, sampled health, save task | `TerritoryCoordinator` |
| Latency storage | `latency_storage.py` | a file per territory | `TerritoryCoordinator` |
| Test commands | `websocket_api.py`, device-test steps of `config_flow.py` | none, they call the coordinator | two actions of `TerritoryCoordinator` |
| Entities | `sensor.py`, `binary_sensor.py`, `entity.py` | none, functions of the coordinator's state | `Entities` |
| Catalog parser | `catalog_parser.py` | none | `CatalogParser` |
| Catalog | `catalog.py` | catalog in memory, in the storage, shipped | `CatalogStore` |
| Config and options flow | `config_flow.py` | the dialogue's choices, a copy of the catalog | `CatalogUsers` |
| Entity ids, registry migration | `entity_ids.py`, `__init__.py:43-157` | Home Assistant's registry | `EntityMigration` |
| Search, texts, diagnostics | `catalog_search.py`, `display.py`, `diagnostics.py` | none | no |
| Browser dialog | `frontend.py`, `frontend/*.js` | the dialog's form | no |
| Update script | `scripts/update_locations.py` | none | no |

Interactions. An entry's set-up first migrates its registry entities, then takes the domain
lock, finds or creates the runtime, looks its territory up in the catalog, creates a
coordinator and registers the coordinator's callback. The first registration starts the
poll task. Every cycle, good or bad, calls all callbacks synchronously; each coordinator
evaluates its own territory on the shared snapshot, feeds its trackers, fires events and
schedules a save of what it measured. The entities read the coordinator's state. A
settings edit reaches the runtime after its save and makes it notify too. An options
dialogue may download a new catalog, which later set-ups and dialogues use. The last
unload cancels the poll task, waits for it, and drops the runtime.

Hard parts, each listed as a hazard at its line in `PROJECT.json`: set-ups and unloads
of several entries overlap with loops that start, die and are cancelled; data becomes
stale while nobody looks; the trackers must survive failures, invalid data, restarts and
crashes; test overrides hide real changes; saves overlap changes; edits overlap edits;
territories that contain each other are evaluated independently; catalogs are replaced
while they are used; registries were left by any older version and change under users'
hands.

## Modules

Definitions keep the names of the code. A definition whose comment begins with
"Mistake" is a mutation used to show that a property can fail; nothing else refers to
it.

**SingletonPolling** is the abstract promise: members, and one loop that is stopped,
running or dead.

**EntryLifecycle** has entries, runtime objects and poll tasks. Whatever lies between
two awaits of the code is one action. Entry steps: `BeginSetup`, `LoadFails`,
`PrepareCoordinator` (lock, runtime, coordinator), `Register`, the wait for the first
cycle (pc `"waiting"`, woken by `WakeWaiters`), `ForwardSucceeds`, `BeginUnload`,
`UnloadRefused`, `Shutdown` (unregister and cancel), `TaskStopped`, `SaveFlushed`,
`RemoveRuntimeIfUnused`. Task steps: `BeginCycle`, `BeginFetch` (request lock),
`EndCycle`, `LoopDies`, `DeliverCancel`. `Shutdown` is also the clean-up of a set-up
that fails after registration. Between `PrepareCoordinator` and `Register` the code does
not suspend today; the model lets others run there, which the domain lock makes
harmless. Cancellation is a flag that is delivered later, at an await, as in asyncio.

**PollingRuntime** is one runtime in discrete time. `Tick` passes time only while the
loop waits; all other steps take no time. `age` is the snapshot's age; `CycleLimit` is
the longest a cycle takes, the request timeout plus the work on the answer. `FetchDies`
is an exception that `async_fetch` does not list. `view` is what each entry's
coordinator last saw of `source_available`.

**SettingsSync** has the four copies of the settings and the queue of edits that wait
for their save. The store of Home Assistant is external: it serves saves in order, each
works or raises, and one load serves all who wait for it.

**AlertTrackers** has the three trackers as functions from a tracker and an observation
to the next tracker. **TerritoryCoordinator** extends it: one territory, with the
runtime reduced to what a coordinator reads of it and the snapshot to the verdict
`evaluate_location` gives (`Verdicts`). `HandleUpdate` is the whole callback: trackers,
save, events, health, overlay. `ScheduleSave` and `SaveEnds` are the save task, `Start`,
`InitialUpdate`, `Stop`, `Stopped` the entry's life, `Crash` the death of Home Assistant
at any moment, with a write under way done or not. A test can be set whenever the
coordinator exists (`CoordinatorForEntry`), since the options dialogue does not ask
whether the entry is loaded. What an instance may meet is a *scenario*, chosen in `Init`
from the constant `Scenarios`: levels, starts, threats, tests, and the disturbances
(failures, slow or stale data, stops, crashes, storage errors). `heard`, `peak`,
`missedClear`, `measured`, `measuredNow`, `forgotten`, `repeated` and `storeBehind` are
history variables: the code's state does not depend on them. `peak` records the highest
level observed, as it was seen, as the write under way was given it and as the last
write that reached the disk was; what the file has in it plays no part. What was
measured in the alert (`measuredNow`) and what of it a restart made the tracker forget
(`forgotten`) go on through stops, restarts and crashes. The JSON form of the storage is the identity on what
trackers produce (levels are valid and durations not negative by construction); a failed
load counts as an empty file, as in the code.

**Entities** extends it with the availability and the value of every sensor and binary
sensor as operators of `exposed`, the coordinator's `self.data`.

**TerritoryEvaluation** has `parse_snapshot` and `evaluate_location` as operators over a
catalog. The snapshot grows by one record per step, so every snapshot up to the bound is
visited. `CatalogAssumption` is what `parse_catalog_csv` guarantees of its rows,
`Hierarchical`, which **CatalogTree** defines for this module and for the parser. An
`OverflowError` of `parse_datetime` ends the poll loop and yields no snapshot: it is
`FetchDies` of `PollingRuntime`. An entry that is missing in the catalog is
evaluated on its own uid, as a top-level place is.

**CatalogParser** has one turn of the parser's loop (`ParseRow`: skipped, orphaned and
located rows, the headings that carry the current oblast and raion), the test of a
downloaded catalog (`ValidFullCatalog`) and the weaker one of a stored or shipped
catalog (`CatalogIsFull`). **CatalogStore** extends it with the catalog in memory and in
the storage: loads that several clients await, refreshes, saves that are served in
order. The parser runs on the event loop, so nothing else happens meanwhile
(`LoopFree`). **CatalogUsers** extends that with those who use a catalog: options
dialogues that refresh it (a download that fails, a sheet that `csv.reader` rejects, which
the code does not list, one that is not accepted, a save that raises), the config flow that chooses step by step from its own copy,
and entries that keep the definitions they found at their set-up. Who takes part is a
*cast*, chosen in `Init` from `Casts`. A row has a uid, a type and whether it is usable;
titles are left out, and `ChooseResult` lets a search offer any definition.

**EntityMigration** has the registry entities of some territories, those the registry
remembers of removed entries, and ids in use by others. An id is what it is named after,
a name and the number the registry appended. `Prepare` is everything `async_setup_entry`
does to the registry before its first await (removal of diagnostic sensors,
`MigrateLag`, `MigrateDefault`), `AddEntities` what the platforms add, `Finish` the
second `MigrateDefault`. One lag sensor and one other sensor stand for all keys. `born`
and `chosen` are history fields: the key an entity was created with and the id a user
gave it. The registry is external: `Generated`, `Clash` and the restoring in `Added`
are modelled from how the code relies on them; whether it takes over a new suggested id
for a known entity is left open. The registries older versions may have left are the
constant `Pasts`; `Prepare` goes through the keys one after the other as the code does,
written out per key since there are two.

**MCPollingRuntime, MCSettingsSync, MCEntities, MCTerritoryEvaluation, MCCatalogUsers,
MCEntityMigration** name the values of small instances.

**EntryLifecycleProofs, PollingRuntimeProofs, SettingsSyncProofs, CoordinatorProofs**
(trackers, coordinator and entities), **EvaluationProofs, CatalogProofs** (parser, store
and users) and **EntityMigrationProofs** hold the theorems. **Maxima** has the one lemma
that several of them need of finite sets: some element is exceeded by none.

## Runs

| Run | What it asks | Instance |
| --- | --- | --- |
| `entry_lifecycle` | one poller, no leaks, nobody without a loop, set-ups and shutdowns end, refinement | 2 entries, 2 runtimes, 3 tasks |
| `polling_runtime` | bound on stale data, sleeps, request rate, tolerance of one failure | 2 entries, intervals 3 s and 4 s, stale 6 s and 8 s, cycles up to 3.5 s |
| `polling_dead_loop` | *violated*: entities become unavailable once stale | the same |
| `settings` | the copies agree once settled | 2 entries, 2 by 2 values, 2 edits at a time |
| `settings_numbers` | *violated*: an edit of one number leaves the other alone | the same |
| `coordinator` | events, entities, trackers, health and the file stay in step with each other and the source | five scenarios of `MCEntities` |
| `coordinator_repeat` | *violated*: each threat instance is measured once | scenario `OneThreat` |
| `coordinator_merged` | *violated*: a completed alert is one alert | scenario `Unseen`: failures and stops that hide a clear |
| `territory_evaluation` | the answers of territories agree with each other | oblast, 2 raions, 3 hromadas, city; up to 3 records |
| `catalog` | catalog in use = stored one, full and a hierarchy; parts fit wholes; refreshes end | three casts of `MCCatalogUsers` |
| `entity_migration` | chosen ids stay, old ones go, lag sensors are continued, no set-up fails | 2 territories of one title, 4 pasts |
| `entity_untouched` | *violated*: every untouched id is shortened | 2 territories of one title, no users |

Why the bounds are enough.

* `entry_lifecycle`: identities of runtimes and tasks are reused when nothing refers to
  them, so the supply limits how many exist at once, not in the run. Two runtimes are
  the domain's one and one that an unload is still leaving; three tasks are the current
  loop and cancelled ones. Two entries give every pair of a set-up and an unload; safety
  and refinement are also proved for any number. Deadlock is not checked because the
  system may really stop: entries whose unload was refused, with a dead loop, have
  nothing left to do.
* `polling_runtime`: a unit is half a second. The pairs include the tightest accepted
  one (stale = 2 * poll) and looser ones, and cycles shorter and longer than an
  interval. `AgeCap` lies above every comparison (assumed and checked).
* `settings`: two edits suffice for one to start before the other is applied.
* `coordinator`: `ThreatsAndTests` has one type of threat with two levels (types do not
  interact except in the choice of the latest) under tests and failures; `Outages` has slow,
  failed and stale data under tests and stops; `Restarts` has undated, past and future starts
  (`end` 1 gives a start in the future that becomes the present) over stops, crashes and
  storage errors; `Rising` has two levels over the same; `ThreatsOverRestarts` one threat that
  comes and goes over stops and crashes. Together the troubles multiply beyond
  reach, and each property has a scenario whose troubles can break it.
* `territory_evaluation`: a decision depends on at most one row of the whole and one of
  a part at the highest level; three rows also give a competitor or an unknown level.
  Deadlock is not checked: a response ends.
* `catalog`: `Overlap` has two dialogues and rows that are repeated, unusable, orphaned
  or a standalone oblast, up to 4 of them; `Sheets` every sheet of up to 5 rows with two oblasts,
  which a raion or a hromada could wrongly be carried over to, and an entry the shipped
  catalog lacks; `Adding` a config flow during a refresh. `MinFull` 3 and the anchors
  (an oblast, a raion in it, a hromada in that) stand for the code's 1500 and its own
  anchors: they let sheets of 3 to 5 rows be refused and accepted.
* `entity_migration`: a clash needs two entities; two territories of one title give it
  within the integration, `Squatted` between integrations. The pasts are the long ids (one of
  two numbered), localised ones, both generations of lag sensors, and none.

Fairness. `EntryLifecycle`: ready tasks run, requests end (their timeout), storage
answers, all weak fairness; the steps that need the domain lock have strong fairness
because asyncio's lock serves its waiters in turn. Users are not fair: nobody has to set
up or unload. `PollingRuntime`: the loop's steps, the end of a fetch and time itself.
`CatalogUsers`: a sheet ends (weak), and loads, downloads (by their timeout) and saves
end although sheets that are parsed may take the event loop from them again and again
(strong). The other specifications have only safety properties and no fairness.

## What the runs found

* `runtime.py:225`: an unlisted exception, such as the `OverflowError` of
  `parse_datetime` (`models.py:417`) on a date of the year 1 with an eastern offset,
  ends the loop with no notification. Entities that were available stay so for ever
  (`polling_dead_loop`). The bound of `StaleExposureBounded` is what holds while the
  loop lives.
* `number.py:98`: an edit of one number that overlaps an unsaved edit of the other
  reverts it (`settings_numbers`).
* `models.py:287`: a single clear snapshot lets a threat instance be measured again
  (`coordinator_repeat`); within one alert, restarts included, it is measured once
  (`ThreatMeasuredOncePerAlert`), with the exception below.
* `models.py:143`: two alerts separated by a clear that was not observed are recorded as
  one (`coordinator_merged`).
* `__init__.py:135`: of two territories with the same title, both set up, the one set up
  second keeps the id that Home Assistant numbered, although nobody touched it (`entity_untouched`).

Worth knowing besides:

* Requests are serialized per runtime object (`SerializedRequests`), so the request of a
  runtime being torn down may overlap the first one of its successor.
* A restart restores the alert under observation but not the threats seen in it
  (`models.py:264`). The first snapshot afterwards brings back the ones it shows
  (`models.py:277-282`). A threat that was measured before, is absent from that snapshot
  and appears again later is measured a second time in the same alert; that is the
  exception `ThreatMeasuredOncePerAlert` makes for `forgotten` instances.
* `catalog.py:143` and `settings.py:62` take a save that returns for one that worked. The
  models assume what the code does: a save works or raises. Home Assistant's `Store` may
  also log a write error and return; then a refreshed catalog is used until the next
  restart without being stored, which is what the mistake `EndSaveRegardless` does.
  The latency storage only logs an error, so there it makes no difference.
* A sheet that `csv.reader` rejects raises `csv.Error`, which `catalog.py:139` does not list: the
  dialogue gets Home Assistant's general error and not its own form
  (`SheetUnreadable`). Nothing else changes.
* Staleness shows only at the next notification, up to a poll interval and a cycle after
  the timeout.
* The lag sensors are migrated without a guard against `ValueError`
  (`__init__.py:89`). `SetUpNeverRaises` holds because `target` is asked for first and
  the new key is looked up first; an id that has a state but no registry entry would
  still make Home Assistant refuse it, which is outside the model.
* An entry keeps the definitions of the catalog it was set up with. A territory that a
  later refresh brings into the catalog inherits only after its entry is set up again,
  although the comment at `__init__.py:247-249` reads "automatically as soon as the
  catalog can resolve the territory". What entries do know always fits together
  (`EntriesKnowWholes`).
* The steps `catalog_setup`, `refresh_catalog_setup`, `catalog_refresh_failed` and
  `fallback` of the config flow (`config_flow.py:325-397`) need a catalog that is not
  full. The shipped one is full and every stored one that is used is (`CatalogsAreSound`),
  so they cannot be reached.
* A row with a misspelt type is skipped, and the hromadas below it go to the raion
  before (`catalog_parser.py:37`); nothing in the sheet tells.

## What is proved

`EntryLifecycleProofs`, for any sets of entries, runtimes and tasks (assuming only that
`None` is none of them). `IInv` is inductive:

* `EntryInv`: who has a runtime, who holds the lock, and that a kept runtime is some
  entry's;
* `CallbackInv`: callbacks are exactly the registered entries, all of the domain's
  runtime;
* `LoopInv`: a runtime has an uncancelled poll task exactly while it has callbacks, and
  only that task goes on polling;
* `RequestInv`: who fetches holds its runtime's request lock;
* `FirstCycleInv`: while a loop is in its first cycle its event is not set and an entry
  waits for it, so that loop cannot be cancelled.

The last is the heart of `FirstCyclesAreOwn`: a late cancellation cannot set the event
of a successor, because only a loop past its first cycle is ever cancelled. `LoopInv`
gives `OnePoller` and, with `CallbackInv`, `EntriesArePolled` and `NothingIsOrphaned`.
One lemma per action shows that the action keeps `IInv`. `ImplementsSingleton` maps
`Register` to `Join`, `Shutdown` to `Leave`, `LoopDies` to `Die`, and every other step
to a stutter.

`PollingRuntimeProofs`, for any settings, cycle limit and number of entries
(`TimingAssumption`: the values are naturals, `AgeCap` is above every comparison).
`ExposureInv` spells out for each place of the loop how much the snapshot may still age
before the next notification; `ExposureIsBounded` follows. `SteadyInv` says that, under
settings unchanged since the snapshot, it is at most a poll interval old when a cycle
begins; with stale >= 2 * poll, `FailureIsTolerated` follows.

`SleepsMatchInterval` (what is left of an undisturbed sleep and the time since the cycle
began make up the poll interval) gives `PollingIsPaced`.

`SettingsSyncProofs`, for any number of entries, any accepted values and any number of
edits under way. `SettledSettingsAgree` says nothing while somebody is applying settings,
so `SettingsInv` adds what holds meanwhile: `LastSaveIsMemory` (the edit whose save ends
last is the one in memory, although every earlier save writes older values),
`LoadedHasRuntime` (a number entity has a runtime to take the other value from) and
`UntouchedUntilLoaded` (before the first load there is nothing to disagree).

`CoordinatorProofs`, for every scenario: any levels, coverages, threats, start times,
tests, disturbances and any end of the clock. The parts of `CoordinatorInv` and what
they are needed for:

* `SourceInv`: the real state belongs to the runtime's snapshot once that was handled.
  `OnlyTheSourceClears` follows.
* `ShownInv`: what is shown is the real state under the override, and the fields of a
  real state belong together. With it the entities, which look at different fields,
  agree.
* `EventsInv`: what was announced last, compared with what is shown, with the real state,
  and with the override that hides it. The last is the point: a change under an override
  is announced when the override goes.
* `HistoryInv`, `AgreementInv`: the trackers of one alert agree, and so do their records
  in the file and in the write under way, since any of the three may be what the next
  start reads.
* `SavingInv`: while no write is needed the one under way has the current values. This is
  `StorageIsCurrent` before the write ends.
* `PeakInv`: the lifecycle in the tracker, in the write under way and in the file each carry
  the highest level observed when they got it; the file's is what a crash goes back to.
* `ThreatInv`: threats measured within the alert are in the tracker's memory, except those
  forgotten in a restart and not seen since.
* `HealthInv`: the sampled health code belongs to the verdict that is shown.

Each part is preserved in a lemma of its own (`EventsStep`, `SavingStep`, ...), over the
kinds of steps that `StepKinds` tells apart: those that handle an update, tests, the end of
a save, starts, stops, crashes, and the quiet ones that only the runtime or the clock takes. What a tracker does with an observation
is proved once (`HistoryObserved`, `AlertLatencyObserved`, `ThreatLatencyObserved`).

`EvaluationProofs`, for every catalog that is a hierarchy and snapshots of any records and
any length. The state of the module is the snapshot alone, so its invariant (`RowsInv`)
only types it; the work is in the lemmas about the operators. `ScopesShrinkInward` and
`InsideIsTree` say how the scopes of two territories lie, `RowsGrowInward` what that makes
of the rows each one sees, `MaxLevelIsHighest`, `EarliestStartIsLeast` and
`DecisiveExists` what is chosen of a set of rows, and `ValidState` and `CoverageByLevels`
what the answer is. From these follow `InvalidStaysLocal`, `AreaIncludes`,
`CoverageAgrees` and `SourceAccounts`, the facts behind the theorems.

`CatalogProofs`, for every sheet, any casts and any number of dialogues. `ParserInv`
says that the headings name areas that have been read; `ParseRowIsSound` shows that no row
breaks it. `AcceptedIsFull` relates the two tests: with the hierarchy, the anchors give
the hromada in a raion that `catalog_is_full` looks for after a restart. `CatalogInv`
carries both through refreshes, saves and loads, and gives `EveryCatalogIsSound` and
`MemoryMatchesStorage`, and `CatalogsCanBeEvaluated`, on which the theorems of
`EvaluationProofs` stand. `PartsAlwaysFit` adds that an entry's definitions all come from
one sound catalog, though maybe an old one (`KnownFromOne`), and that the config flow's choices
are made in the copy it keeps. `TypesInv` adds who may wait for what, which bounds the
queue of saves by the number of dialogues.

`EntityMigrationProofs`, for any number of territories, whatever their titles, any sound
registry an older version left, any names users choose and others take. The parts of
`MigrationInv`:

* `RegistryInv`: ids are unique among everybody's, a chosen id is the one in use, and
  only the entity that a short id is meant for has it (two territories of one title differ
  in their uids).
* `RemovedInv`: the same of the entities the registry remembers, and no chosen id of
  theirs is in use again, so that a returning entry gets back what its user chose.
* `SetUpInv`: after `Prepare` an old lag sensor is left only beside a new one, so that
  the platforms never add a second one.

`GeneratedIsFree` shows that the registry always finds a free number; with
`LagKeyMigrates` no set-up fails.

Assumed of the constants, each one checked by TLC on every run that has the module:

* `None` is no entry, level, measurement, settings or catalog row, and kinds of clients
  are told apart (`NoneAssumption`, `StoreAssumption`, `SettingsAssumption`,
  `CastAssumption`);
* the values are of their kind and what comes in one answer is finite (`TimingAssumption`,
  `ScenarioAssumption`, `RecordAssumption`); the default settings are accepted ones, as
  `const.py` has them; `AgeCap` is above every comparison;
* `CatalogAssumption`, that the catalog of an evaluation is finite and a hierarchy: this
  is no assumption about the program, since `CatalogsCanBeEvaluated` proves it of every
  catalog in use;
* the shipped catalog is full and a hierarchy, and one of the anchors lies in a raion
  (`StoreAssumption`, `ParserAssumption`);
* `PastAssumption`, that a registry from before names an entity once and gives an id
  once, that only a short id's own entity has it, and that no version which knew the new
  lag sensor left an old one; `MigrationAssumption`, that uids, titles and the user's
  choices are different names.

Every invariant and every action property of the passing runs is stated by a theorem.
Only model-checked are the four liveness properties `NobodyWaitsForever`,
`PollingContinues`, `EveryEntryGetsAView` and `RefreshEnds`, since the prover does not
support fairness and ENABLED, and the five violations, which are counterexamples. That `heard`, `peak`,
`measured` and the other history variables record what their comments say can be seen
from the actions that assign them.

## Not modelled

* Search ranks titles and `display.py` and `diagnostics.py` format: stateless, and no
  property here is about texts. Extra attributes of entities and event payloads are
  functions of modelled state.
* The browser dialog shows what the last answer of the websocket commands said.
* The dead steps of the config flow named above.
* The update script runs outside Home Assistant.
* Hand-edited or damaged storage files: of stored data only what the code itself wrote,
  an older write or nothing is modelled.
* Home Assistant's own scheduling, registry and stores and the HTTP client are external.
  The event loop is prompt in `PollingRuntime`, except that a cycle may take up to
  `CycleLimit`.

## Plan

Done: all components above with state, each with its run; proofs of all invariants and
action properties that the runs check.

Next, in order:

1. An abstract coordinator without trackers and saves, of which `TerritoryCoordinator`
   is shown to be an implementation: a territory that is shown, announced and remembered.
2. The refinement of a single copy of the settings by `SettingsSync`, with the step at
   which an edit takes effect.
