------------------------- MODULE TerritoryCoordinator ------------------------
(***************************************************************************)
(* UAAlertsCoordinator: what one configured territory makes of the shared  *)
(* runtime's updates.  It tracks alerts, persists what it measured, tells  *)
(* Home Assistant about changes through events, judges the health of the   *)
(* data and may overlay a test alert on the real state.                    *)
(* The runtime is reduced to what a coordinator reads of it, and a         *)
(* snapshot to what evaluate_location concludes from it for the territory. *)
(* The territory's entry can be stopped and started again, and Home        *)
(* Assistant can crash.                                                    *)
(***************************************************************************)
EXTENDS AlertTrackers, FiniteSets

(* The inputs an instance may meet are a scenario, one of several, so that *)
(* one instance can look at threats and another one at restarts:           *)
(*   levels        active levels the source reports                        *)
(*   coverages     whether alerts cover the whole territory                *)
(*   starts        times alerts and threats start at, or NoTime            *)
(*   types         threat types, numbered in the order of their names      *)
(*   threatLevels  levels of threats, which have one of their own          *)
(*   tests         levels of a test override                               *)
(*   end           bound of the clock                                      *)
(*   disturbances  what may disturb the instance: see May                  *)
CONSTANT Scenarios

ASSUME ScenarioAssumption ==
  \A s \in Scenarios :
    /\ s.levels \subseteq ActiveLevels
    /\ s.coverages \subseteq Coverages \ {"none"}
    /\ s.starts \subseteq 0..(s.end + 1) \cup {NoTime}
    /\ s.types \subseteq Nat
    /\ IsFiniteSet(s.types)
    /\ s.threatLevels \subseteq ActiveLevels
    /\ s.tests \subseteq Levels
    /\ s.end \in Nat
    /\ s.disturbances \subseteq {"failure", "slow", "stale", "stop", "crash",
                                "storage", "missed_clear"}

VARIABLES
  scenario,       \* chosen at the beginning
  now,            \* the clock, as far as starts can tell moments apart
  runtime,        \* what the coordinator reads of UAAlertsRuntime
  phase,          \* "stopped", "starting", "running" or "stopping"
  fresh,          \* the snapshot differs from _last_processed_received_at
  history, alertLatency, threatLatency,    \* the trackers
  real,           \* _real_state
  exposed,        \* self.data: what the entities show
  override,       \* _test_override
  baseline,       \* _has_valid_baseline
  lastLevel,      \* _last_valid_level
  lastThreats,    \* _last_valid_threat_signature
  lastAvailable,  \* _last_source_available; None before the first update
  details,        \* _health_details
  dirty,          \* _latency_save_dirty
  saving,         \* what the save task is writing; None when there is none
  store,          \* the storage file
  \* History variables: no action reads them.
  heard,          \* what a listener knows from the events alone
  peak,           \* highest level observed since the lifecycle began, as
                  \* seen, as the write under way and the last one knew it
  storeBehind,    \* did the last access to the storage fail?
  missedClear,    \* was the source clear, unseen, during the lifecycle?
  measured,       \* threat instances measured in this session
  measuredNow,    \* those measured since the last clear, in any session
  forgotten,      \* those of them measured before the last start and not
                  \* seen since
  repeated        \* measured again: "no", "in_session" or "in_alert", which
                  \* an instance that was forgotten is not

(* "failure" of a request, a "slow" response, a "stale" snapshot, a "stop" *)
(* of the entry, a "crash", a "storage" error, a "missed_clear" at the     *)
(* source while requests failed or the entry was not set up.               *)
May(what) == IF what \in scenario.disturbances THEN BOOLEAN ELSE {FALSE}

trackerVars == <<history, alertLatency, threatLatency>>
eventVars == <<baseline, lastLevel, lastThreats, lastAvailable, heard>>
saveVars == <<dirty, saving, store, storeBehind>>
watchVars == <<peak, missedClear, measured, measuredNow, forgotten, repeated>>
stateVars == <<real, exposed, override, details>>
vars == <<scenario, now, runtime, phase, fresh, trackerVars, stateVars, eventVars,
          saveVars, watchVars>>

-----------------------------------------------------------------------------
(* Values.                                                                 *)

Threats == [type : scenario.types, level : scenario.threatLevels,
            start : scenario.starts]
TestStart == -2    \* the moment a test override was set

ClearVerdict ==
  [valid |-> TRUE, level |-> "clear", coverage |-> "none", start |-> NoTime,
   threats |-> {}]
InvalidVerdict(threats) ==
  [valid |-> FALSE, level |-> None, coverage |-> None, start |-> NoTime,
   threats |-> threats]

(* What evaluate_location can conclude from a snapshot: no matching row,   *)
(* rows with an unknown level, or active rows.                             *)
Verdicts ==
  {ClearVerdict}
  \cup {InvalidVerdict(threats) : threats \in SUBSET Threats}
  \cup [valid : {TRUE}, level : scenario.levels, coverage : scenario.coverages,
        start : scenario.starts, threats : SUBSET Threats]

NewRuntime == [verdict |-> None, received |-> 0, available |-> FALSE,
               errors |-> 0, slow |-> FALSE]

EmptyStore == [active |-> None, lastAlert |-> None, alert |-> None,
               threat |-> None]

(* What is saved is never None itself.                                     *)
ASSUME StoreAssumption ==
  LET lifecycles == [start : Int, max : Levels] \cup {None}
  IN  None \notin [active : lifecycles, lastAlert : lifecycles,
                   alert : [start : Int, level : Levels] \cup {None},
                   threat : [type : Nat, start : Int] \cup {None}]

(* The four values _async_save_latency_loop reads, given the trackers.     *)
ValuesOf(h, a, t) ==
  [active |-> h.active, lastAlert |-> h.measurement,
   alert |-> a.measurement, threat |-> t.measurement]

Current == ValuesOf(history, alertLatency, threatLatency)

(* The last measurements, as a state shows them.                           *)
NothingMeasured == [alert |-> None, lag |-> None, threat |-> None]

(* Mistake: a snapshot that cannot be read counts as clear.                *)
EvaluatedOptimistically(rt) ==
  LET verdict == IF rt.verdict = None THEN InvalidVerdict({}) ELSE rt.verdict
  IN  [valid |-> verdict.valid,
       level |-> IF verdict.valid THEN verdict.level ELSE "clear",
       coverage |-> verdict.coverage, threats |-> verdict.threats,
       test |-> FALSE, last |-> NothingMeasured, health |-> None,
       available |-> rt.verdict # None /\ rt.available,
       error |-> IF verdict.valid THEN None ELSE "unknown_level"]

DataError(rt, verdict) ==
  CASE verdict.valid -> None
    [] ~verdict.valid /\ rt.verdict = None -> "no_snapshot"
    [] OTHER -> "unknown_level"

(* evaluate_location's state, before measurements and health are attached. *)
Evaluated(rt) ==
  LET verdict == IF rt.verdict = None THEN InvalidVerdict({}) ELSE rt.verdict
  IN  [valid |-> verdict.valid, level |-> verdict.level,
       coverage |-> verdict.coverage, threats |-> verdict.threats,
       test |-> FALSE, last |-> NothingMeasured, health |-> None,
       available |-> rt.verdict # None /\ rt.available,
       error |-> DataError(rt, verdict)]

InitialState == Evaluated(NewRuntime)

-----------------------------------------------------------------------------
(* Health: evaluate_data_health and _state_with_health.                    *)

HealthCode(state, rt) ==
  CASE rt.errors > 0 \/ ~state.available -> "source_error"
    [] rt.errors = 0 /\ state.available /\ ~state.valid -> "data_error"
    [] rt.errors = 0 /\ state.available /\ state.valid /\ rt.slow -> "delayed"
    [] OTHER -> "normal"

(* The data's error, else the runtime's last_error.                        *)
HealthProblem(state, rt) ==
  CASE ~state.valid -> state.error
    [] state.valid /\ rt.errors > 0 -> "request"
    [] OTHER -> None

(* The sampled attributes change at once when something important does and *)
(* every 30 seconds otherwise; refreshDue says the 30 seconds are over.    *)
SampledDetails(state, rt, latenciesChanged, refreshDue) ==
  LET code == HealthCode(state, rt)
      problem == HealthProblem(state, rt)
  IN  IF \/ details = None
         \/ refreshDue \/ latenciesChanged
         \/ details # None /\ (details.code # code \/ details.problem # problem)
      THEN [code |-> code, problem |-> problem, errors |-> rt.errors]
      ELSE details

-----------------------------------------------------------------------------
(* Events: _process_effective_events and what a listener makes of them.    *)

LevelEvent(state) == baseline /\ state.level # lastLevel
ThreatsEvent(state) == baseline /\ state.threats # lastThreats

(* A listener starts from what is shown when the baseline is established   *)
(* and from then on believes events only.                                  *)
EffectiveEvents(state) ==
  IF state.level = None
  THEN UNCHANGED <<baseline, lastLevel, lastThreats>> /\ heard' = heard
  ELSE /\ baseline' = TRUE
       /\ lastLevel' = state.level
       /\ lastThreats' = state.threats
       /\ heard' = [level |-> IF LevelEvent(state) \/ ~baseline
                              THEN state.level ELSE heard.level,
                    threats |-> IF ThreatsEvent(state) \/ ~baseline
                                THEN state.threats ELSE heard.threats]

-----------------------------------------------------------------------------
(* The test overlay: _state_with_test_override.                            *)

(* Mistake: the test keeps the real coverage.                              *)
OverlayLevelOnly(state, test) ==
  IF test = None THEN state
  ELSE [state EXCEPT !.valid = TRUE, !.error = None, !.level = test.level,
                     !.threats = {}, !.test = TRUE]

Overlay(state, test) ==
  IF test = None THEN state
  ELSE [state EXCEPT !.valid = TRUE, !.error = None, !.level = test.level,
                     !.coverage = IF test.level = "clear" THEN "none" ELSE "full",
                     !.threats = {[type |-> c, level |-> test.level,
                                   start |-> TestStart] : c \in test.codes},
                     !.test = TRUE]

-----------------------------------------------------------------------------
(* Saving: _schedule_latency_save starts the save task, whose first write  *)
(* begins at once, or marks the values dirty for the task that runs.       *)

(* Mistake: a change during a write is left to the write under way.        *)
ScheduleSaveOnce(values) ==
  /\ saving' = IF saving = None THEN values ELSE saving
  /\ UNCHANGED dirty

ScheduleSave(values) ==
  IF saving = None
  THEN saving' = values /\ dirty' = FALSE
  ELSE dirty' = TRUE /\ UNCHANGED saving

-----------------------------------------------------------------------------
(* What the history variables record of an observation; a write that       *)
(* begins with it knows what was seen.                                     *)

NoPeak == [seen |-> None, writing |-> None, written |-> None]

WatchPeak(obs, h) ==
  LET highest ==
        CASE h.active = None -> None
          [] h.active # None /\ history.active = None -> obs.level
          [] OTHER -> IF Priority[obs.level] > Priority[peak.seen]
                      THEN obs.level ELSE peak.seen
  IN  peak' = [seen |-> highest,
               writing |-> IF saving = None /\ saving' # None
                           THEN highest ELSE peak.writing,
               written |-> peak.written]

WatchThreats(obs, t) ==
  LET visible == {Instance(threat) : threat \in obs.threats}
      taken == IF /\ threatLatency.baseline
                  /\ obs.level # "clear"
                  /\ ThreatCandidates(threatLatency, obs) # {}
               THEN {[type |-> t.measurement.type, start |-> t.measurement.start]}
               ELSE {}
  IN  /\ measured' = measured \cup taken
      /\ measuredNow' = IF obs.level = "clear" THEN {}
                        ELSE measuredNow \cup taken
      /\ forgotten' = IF obs.level = "clear" THEN {}
                      ELSE forgotten \ visible
      /\ repeated' = CASE taken \cap (measuredNow \ forgotten) # {} -> "in_alert"
                       [] repeated = "no" /\ taken \cap measured # {} -> "in_session"
                       [] OTHER -> repeated

Watch(obs, h, t) ==
  /\ WatchPeak(obs, h)
  /\ WatchThreats(obs, t)
  /\ \E missed \in May("missed_clear") :
       /\ missed => runtime.errors > 0 \/ ~history.baseline
       /\ missedClear' = (/\ history.active # None /\ h.active # None
                          /\ missedClear \/ missed)

-----------------------------------------------------------------------------
(* Mistake: the trackers see what is shown.                                *)
ObservationOfTheShown(state, rt) ==
  LET shown == Overlay(state, override)
  IN  [level |-> shown.level, start |-> rt.verdict.start,
       threats |-> shown.threats, received |-> rt.received]

Observation(state, rt) ==
  [level |-> state.level, start |-> rt.verdict.start,
   threats |-> state.threats, received |-> rt.received]

(* _process_snapshot_and_events, the part after a new valid snapshot: the  *)
(* trackers observe it, a change is saved, and the level and threats are   *)
(* announced unless a test override hides them.                            *)
ProcessValidSnapshot(state, obs) ==
  LET h == ObserveHistory(history, obs)
      a == ObserveAlertLatency(alertLatency, obs)
      t == ObserveThreatLatency(threatLatency, obs)
  IN  /\ history' = h
      /\ alertLatency' = a
      /\ threatLatency' = t
      /\ IF ValuesOf(h, a, t) # Current
         THEN ScheduleSave(ValuesOf(h, a, t))
         ELSE UNCHANGED <<dirty, saving>>
      /\ IF override = None
         THEN EffectiveEvents(state)
         ELSE UNCHANGED <<baseline, lastLevel, lastThreats, heard>>
      /\ Watch(obs, h, t)

(* Mistake: the measurements are attached before the trackers observe.     *)
LastMeasurementsBefore(h, a, t) ==
  [alert |-> history.measurement, lag |-> alertLatency.measurement,
   threat |-> threatLatency.measurement]

(* _state_with_last_latencies.                                             *)
LastMeasurements(h, a, t) ==
  [alert |-> h.measurement, lag |-> a.measurement, threat |-> t.measurement]

(* _handle_runtime_update on the runtime as it is after the step.  The     *)
(* availability event needs no variable: lastAvailable is what it told.    *)
HandleUpdate(isNew) ==
  LET rt == runtime'
      state == Evaluated(rt)
  IN  /\ IF isNew /\ rt.verdict # None /\ state.valid
         THEN ProcessValidSnapshot(state, Observation(state, rt))
         ELSE UNCHANGED <<trackerVars, dirty, saving, baseline, lastLevel,
                          lastThreats, heard, watchVars>>
      /\ lastAvailable' = state.available
      /\ fresh' = FALSE
      /\ \E refreshDue \in BOOLEAN :
           details' = SampledDetails(state, rt,
             \/ alertLatency'.measurement # alertLatency.measurement
             \/ threatLatency'.measurement # threatLatency.measurement,
             refreshDue)
      /\ real' = [state EXCEPT
                    !.last = LastMeasurements(history', alertLatency',
                                              threatLatency'),
                    !.health = HealthCode(state, rt)]
      /\ exposed' = Overlay(real', override)
      /\ UNCHANGED <<override, store, storeBehind>>

(* The runtime notifies its entries; a stopped one is not registered.      *)
Notify(isNew) ==
  /\ IF phase \in {"starting", "running"}
     THEN HandleUpdate(isNew)
     ELSE UNCHANGED <<fresh, trackerVars, stateVars, eventVars, saveVars,
                      watchVars>>
  /\ UNCHANGED <<scenario, now, phase>>

-----------------------------------------------------------------------------
(* The runtime (PollingRuntime has its loop and its clock).                *)

PollSucceeds(verdict) ==
  /\ \E slow \in May("slow") :
       runtime' = [verdict |-> verdict, received |-> now, available |-> TRUE,
                   errors |-> 0, slow |-> slow]
  /\ Notify(TRUE)

(* The snapshot stays; it may have become stale by now.                    *)
PollFails ==
  /\ "failure" \in scenario.disturbances
  /\ \E stale \in May("stale"), slow \in May("slow") :
       runtime' = [runtime EXCEPT
                     !.errors = IF @ = 2 THEN 2 ELSE @ + 1,
                     !.available = @ /\ ~stale, !.slow = slow]
  /\ Notify(fresh)

(* async_update_timing: another stale timeout judges the same snapshot.    *)
TimingChanges ==
  /\ runtime.verdict # None
  /\ \E stale \in May("stale") :
       runtime' = [runtime EXCEPT !.available = ~stale]
  /\ Notify(fresh)

(* The stale timeout passes between two updates and nobody is told.        *)
SnapshotAges ==
  /\ runtime.available
  /\ "stale" \in scenario.disturbances
  /\ runtime' = [runtime EXCEPT !.available = FALSE]
  /\ UNCHANGED <<scenario, now, phase, fresh, trackerVars, stateVars, eventVars,
                 saveVars, watchVars>>

Advance ==
  /\ now < scenario.end
  /\ now' = now + 1
  /\ UNCHANGED <<scenario, runtime, phase, fresh, trackerVars, stateVars, eventVars,
                 saveVars, watchVars>>

-----------------------------------------------------------------------------
(* The test override.  The websocket sets and clears it while the entry is *)
(* loaded; an options dialogue, which may be older than the entry's last   *)
(* set-up, as soon as and as long as the entry has a coordinator.          *)

CoordinatorForEntry == phase # "stopped"

SetTestOverride(level, codes) ==
  LET test == [level |-> level, codes |-> IF level = "clear" THEN {} ELSE codes]
      state == Overlay(real, test)
      from == [level |-> IF baseline THEN lastLevel
                         ELSE IF real.level = None THEN "clear" ELSE real.level,
               threats |-> IF baseline THEN lastThreats ELSE real.threats]
  IN  /\ CoordinatorForEntry
      /\ override' = test
      /\ baseline' = TRUE
      /\ lastLevel' = state.level
      /\ lastThreats' = state.threats
      /\ heard' = [level |-> IF state.level # from.level THEN state.level
                             ELSE IF baseline THEN heard.level ELSE from.level,
                   threats |-> IF state.threats # from.threats THEN state.threats
                               ELSE IF baseline THEN heard.threats
                               ELSE from.threats]
      /\ exposed' = state
      /\ UNCHANGED <<scenario, now, runtime, phase, fresh, trackerVars, real, details,
                     lastAvailable, saveVars, watchVars>>

(* Mistake: the end of a test is shown but not announced.                  *)
ClearTestOverrideQuietly ==
  /\ CoordinatorForEntry
  /\ override # None
  /\ override' = None
  /\ exposed' = real
  /\ UNCHANGED <<scenario, now, runtime, phase, fresh, trackerVars, real, details,
                 eventVars, saveVars, watchVars>>

ClearTestOverride ==
  /\ CoordinatorForEntry
  /\ override # None
  /\ override' = None
  /\ EffectiveEvents(real)
  /\ exposed' = real
  /\ UNCHANGED <<scenario, now, runtime, phase, fresh, trackerVars, real, details,
                 lastAvailable, saveVars, watchVars>>

-----------------------------------------------------------------------------
(* The save task.  A write that fails is logged and not tried again; the   *)
(* task goes on while values changed during the write.                     *)
SaveEnds(ok) ==
  /\ saving # None
  /\ ok \/ "storage" \in scenario.disturbances
  /\ store' = IF ok THEN saving ELSE store
  /\ storeBehind' = ~ok
  /\ saving' = IF dirty THEN Current ELSE None
  /\ dirty' = FALSE
  /\ peak' = [peak EXCEPT !.writing = IF dirty THEN peak.seen ELSE None,
                          !.written = IF ok THEN peak.writing ELSE @]
  /\ UNCHANGED <<scenario, now, runtime, phase, fresh, trackerVars, stateVars,
                 eventVars, missedClear, measured, measuredNow, forgotten, repeated>>

-----------------------------------------------------------------------------
(* The entry's life.                                                       *)

(* A new coordinator with what the storage had.                            *)
NewCoordinator(restored) ==
  /\ fresh' = TRUE
  /\ history' = NewHistory(restored)
  /\ alertLatency' = NewAlertLatency(restored)
  /\ threatLatency' = NewThreatLatency(restored)
  /\ real' = InitialState
  /\ exposed' = InitialState
  /\ override' = None
  /\ details' = None
  /\ baseline' = FALSE
  /\ lastLevel' = None
  /\ lastThreats' = {}
  /\ lastAvailable' = None
  /\ heard' = [level |-> None, threats |-> {}]
  /\ measured' = {}
  /\ forgotten' = measuredNow
  /\ UNCHANGED <<measuredNow, repeated>>

(* LatencyStorage.async_load (a failure counts as an empty file), then the *)
(* registration with the runtime.                                          *)
Start(loads) ==
  /\ phase = "stopped"
  /\ loads \/ "storage" \in scenario.disturbances
  /\ phase' = "starting"
  /\ NewCoordinator(IF loads THEN store ELSE EmptyStore)
  /\ storeBehind' = ~loads
  /\ peak' = [peak EXCEPT !.seen = IF loads THEN @ ELSE None]
  /\ UNCHANGED <<scenario, now, runtime, dirty, saving, store, missedClear>>

(* async_wait_initial_cycle, once the first cycle is over.                 *)
InitialUpdate ==
  /\ phase = "starting"
  /\ phase' = "running"
  /\ UNCHANGED <<scenario, now, runtime>>
  /\ HandleUpdate(fresh)

(* async_shutdown: unregister, then wait for the save task.                *)
Stop ==
  /\ phase = "running"
  /\ "stop" \in scenario.disturbances
  /\ phase' = "stopping"
  /\ UNCHANGED <<scenario, now, runtime, fresh, trackerVars, stateVars, eventVars,
                 saveVars, watchVars>>

(* The coordinator is gone, with everything it had not saved; the levels   *)
(* seen since the last write that worked are forgotten if some is missing. *)
Vanish(behind, written) ==
  /\ phase' = "stopped"
  /\ dirty' = FALSE
  /\ saving' = None
  /\ NewCoordinator(EmptyStore)
  /\ peak' = [seen |-> IF behind THEN written ELSE peak.seen,
              writing |-> None, written |-> written]
  /\ UNCHANGED <<scenario, now, missedClear>>

(* Mistake: the shutdown does not wait for the save task.                  *)
StoppedAtOnce ==
  /\ phase = "stopping"
  /\ runtime' \in {runtime, NewRuntime}
  /\ Vanish(storeBehind, peak.written)
  /\ UNCHANGED <<store, storeBehind>>

(* The runtime outlives the entry if other entries use it.                 *)
Stopped ==
  /\ phase = "stopping"
  /\ saving = None
  /\ runtime' \in {runtime, NewRuntime}
  /\ Vanish(storeBehind, peak.written)
  /\ UNCHANGED <<store, storeBehind>>

(* Home Assistant dies; a write under way has reached the disk or not.     *)
Crash ==
  /\ phase # "stopped"
  /\ "crash" \in scenario.disturbances
  /\ runtime' = NewRuntime
  /\ \E done \in {FALSE} \cup {saving # None} :
       /\ store' = IF done THEN saving ELSE store
       /\ Vanish(TRUE, IF done THEN peak.writing ELSE peak.written)
  /\ UNCHANGED storeBehind

-----------------------------------------------------------------------------
Init ==
  /\ scenario \in Scenarios
  /\ now = 0
  /\ runtime = NewRuntime
  /\ phase = "stopped"
  /\ fresh = TRUE
  /\ history = NewHistory(EmptyStore)
  /\ alertLatency = NewAlertLatency(EmptyStore)
  /\ threatLatency = NewThreatLatency(EmptyStore)
  /\ real = InitialState
  /\ exposed = InitialState
  /\ override = None
  /\ details = None
  /\ baseline = FALSE
  /\ lastLevel = None
  /\ lastThreats = {}
  /\ lastAvailable = None
  /\ dirty = FALSE
  /\ saving = None
  /\ store = EmptyStore
  /\ heard = [level |-> None, threats |-> {}]
  /\ peak = NoPeak
  /\ storeBehind = FALSE
  /\ missedClear = FALSE
  /\ measured = {}
  /\ measuredNow = {}
  /\ forgotten = {}
  /\ repeated = "no"

Next ==
  \/ \E verdict \in Verdicts : PollSucceeds(verdict)
  \/ PollFails \/ TimingChanges \/ SnapshotAges \/ Advance
  \/ \E level \in scenario.tests, codes \in SUBSET scenario.types :
       SetTestOverride(level, codes)
  \/ ClearTestOverride
  \/ \E ok \in BOOLEAN : SaveEnds(ok)
  \/ \E loads \in BOOLEAN : Start(loads)
  \/ InitialUpdate \/ Stop \/ Stopped \/ Crash

Spec == Init /\ [][Next]_vars

-----------------------------------------------------------------------------
Levels0 == Levels \cup {None}
Times == scenario.starts \ {NoTime}
Lifecycles == [start : Times, max : ActiveLevels] \cup {None}
AlertMeasurements == [start : Times, level : ActiveLevels] \cup {None}
ThreatInstances == [type : scenario.types, start : scenario.starts]
Stores == [active : Lifecycles, lastAlert : Lifecycles,
           alert : AlertMeasurements, threat : ThreatInstances \cup {None}]

TypeOK ==
  /\ scenario \in Scenarios
  /\ now \in 0..scenario.end
  /\ runtime \in [verdict : Verdicts \cup {None}, received : 0..scenario.end,
                  available : BOOLEAN, errors : 0..2, slow : BOOLEAN]
  /\ phase \in {"stopped", "starting", "running", "stopping"}
  /\ fresh \in BOOLEAN
  /\ history \in [baseline : BOOLEAN, last : Levels0,
                  active : Lifecycles, measurement : Lifecycles]
  /\ alertLatency \in [baseline : BOOLEAN, last : Levels0,
                       measurement : AlertMeasurements]
  /\ threatLatency \in [baseline : BOOLEAN, seen : SUBSET ThreatInstances,
                        measurement : ThreatInstances \cup {None}]
  /\ override \in [level : scenario.tests, codes : SUBSET scenario.types] \cup {None}
  /\ baseline \in BOOLEAN
  /\ lastLevel \in Levels0
  /\ lastAvailable \in BOOLEAN \cup {None}
  /\ dirty \in BOOLEAN
  /\ saving \in Stores \cup {None}
  /\ store \in Stores

(* Automations that listen to the level and threats events know what the   *)
(* entities show whenever a level is shown: no change goes unannounced,    *)
(* through invalid snapshots, outages, test overrides set, changed and     *)
(* cleared, and real changes hidden under an override.                     *)
EventsTellWhatIsShown ==
  baseline /\ exposed.level # None =>
    heard = [level |-> exposed.level, threats |-> exposed.threats]

(* A failed cycle never means clear (README, Polling and failure           *)
(* behavior), nor does a snapshot with an unknown level: the level shown   *)
(* becomes clear because the latest snapshot has no active row, or by a    *)
(* test.  (Before the entities are added and after they are removed there  *)
(* is nothing to show.)                                                    *)
ShownClearIsReported ==
  phase' = "running" /\ exposed'.level = "clear" /\ exposed.level # "clear"
    => runtime'.verdict = ClearVerdict \/ override' # None

(* An alert under observation ends only when a new, valid and clear        *)
(* snapshot arrives; failures, invalid data, test overrides and settings   *)
(* changes never end it.  (A stop or crash forgets it only in memory.)     *)
AlertEndIsReported ==
  phase' # "stopped" /\ history.active # None /\ history'.active = None
    => fresh' = FALSE /\ runtime'.verdict = ClearVerdict

(* An alert is over, for whoever looks at the entities and for the         *)
(* trackers, when the source says so and not before.                       *)
OnlyTheSourceClears == [][ShownClearIsReported /\ AlertEndIsReported]_vars

(* The health attributes are sampled, yet never contradict the verdict:    *)
(* whenever the data is judged usable they show no error, and they always  *)
(* belong to the verdict that is shown.                                    *)
HealthAttributesMatch ==
  details # None =>
    /\ details.code \in {"normal", "delayed"} =>
         details.errors = 0 /\ details.problem = None
    /\ details.code = "data_error" => details.problem = "unknown_level"
    /\ details.code = real.health

(* set_test_override: "without touching real history".  The trackers know  *)
(* the level the source reports, whatever a test shows over it.            *)
TestsLeaveHistoryAlone ==
  history.baseline /\ real.valid => history.last = real.level

(* No alert is under observation while the territory was last seen clear,  *)
(* and the recorded maximum is never below the level last seen.            *)
LifecycleMatchesObservation ==
  history.baseline =>
    /\ history.last = "clear" => history.active = None
    /\ history.active # None =>
         Priority[history.active.max] >= Priority[history.last]

(* The history tracker and the source: what it remembers as the last level *)
(* is the source's, and its alert under observation fits that level.       *)
HistoryMatchesSource == TestsLeaveHistoryAlone /\ LifecycleMatchesObservation

(* README: the last alert's level is the maximum reached.  Whatever is     *)
(* under observation has exactly the highest level observed since it began *)
(* as its maximum, over stops and restarts.  After a crash or a write that *)
(* failed, it is the highest observed by the time the last write that      *)
(* reached the disk was given its values, and what was observed since.     *)
PeakSurvivesRestart ==
  phase # "stopped" /\ history.active # None => history.active.max = peak.seen

(* When the save task is idle and its last access worked, the file holds   *)
(* the trackers' current values: changes that arrive during a write are    *)
(* not lost, and a restart finds what a shutdown left.                     *)
StorageIsCurrent ==
  phase # "stopped" /\ saving = None /\ ~storeBehind => store = Current

(* The two trackers of one alert agree, also after a restart: an alert     *)
(* under observation whose start was not in the future is the alert whose  *)
(* latency was measured last.                                              *)
TrackersAgree ==
  history.active # None /\ history.active.start = 0 =>
    /\ alertLatency.measurement # None
    /\ alertLatency.measurement.start = history.active.start

(* One alert, over restarts too, measures each threat instance at most     *)
(* once; a change of its level alone is not a new threat                   *)
(* (Threat.instance_key).  Only an instance measured before a restart and  *)
(* not seen since may come back as a new one: seen_instances is not saved, *)
(* and the first snapshot after a restart brings back what it shows.       *)
ThreatMeasuredOncePerAlert == repeated # "in_alert"

(* ThreatLatencyTracker: "each threat instance is measured once when Home  *)
(* Assistant first observes it".                                           *)
ThreatMeasuredOnce == repeated = "no"

(* LastAlertMeasurement: "One fully observed completed alert".  What is    *)
(* measured is one alert: the territory was not clear in between.          *)
LastAlertIsOneAlert ==
  [][ phase' # "stopped" /\ phase # "stopped"
      /\ history'.measurement # history.measurement => ~missedClear ]_vars
=============================================================================
