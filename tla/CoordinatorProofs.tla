--------------------------- MODULE CoordinatorProofs --------------------------
(***************************************************************************)
(* Theorems about the territory coordinator and its entities, for every    *)
(* scenario: any levels, coverages, threats, starts, tests, disturbances   *)
(* and any bound of the clock.                                             *)
(***************************************************************************)
EXTENDS Entities, Maxima

-----------------------------------------------------------------------------
(* The inductive invariant, one part for each thing that has to be true.   *)

(* What evaluate_location concludes from the runtime's snapshot.           *)
Judged(rt) == IF rt.verdict = None THEN InvalidVerdict({}) ELSE rt.verdict

Runtimes == [verdict : Verdicts \cup {None}, received : 0..scenario.end,
             available : BOOLEAN, errors : 0..2, slow : BOOLEAN]
Histories == [baseline : BOOLEAN, last : Levels0,
              active : Lifecycles, measurement : Lifecycles]
AlertLatencies == [baseline : BOOLEAN, last : Levels0,
                   measurement : AlertMeasurements]
ThreatLatencies == [baseline : BOOLEAN, seen : SUBSET ThreatInstances,
                    measurement : ThreatInstances \cup {None}]

(* The coordinator has handled the snapshot that the runtime has.          *)
Handled == phase \in {"starting", "running"} /\ ~fresh

(* The real state belongs to the runtime's snapshot once it was handled,   *)
(* which it always is while the entities are shown.                        *)
SourceInv ==
  /\ phase = "running" => ~fresh
  /\ phase = "stopped" => fresh
  /\ Handled => /\ real.valid = Judged(runtime).valid
                /\ real.level = Judged(runtime).level
                /\ real.threats = Judged(runtime).threats

(* The fields of a state that belong together.                             *)
Consistent(state) ==
  IF state.valid
  THEN /\ state.level \in Levels
       /\ state.coverage \in Coverages
       /\ state.coverage = "none" <=> state.level = "clear"
       /\ state.level = "clear" => state.threats = {}
  ELSE state.level = None

StateRecord(state) ==
  state = [valid |-> state.valid, level |-> state.level,
           coverage |-> state.coverage, threats |-> state.threats,
           test |-> state.test, last |-> state.last, health |-> state.health,
           available |-> state.available, error |-> state.error]

(* What is shown is the real state under the test override.                *)
ShownInv ==
  /\ StateRecord(real)
  /\ real.test = FALSE
  /\ real.valid \in BOOLEAN /\ real.available \in BOOLEAN
  /\ Consistent(real)
  /\ exposed = Overlay(real, override)
  /\ override # None => /\ override.level \in Levels
                        /\ override.level = "clear" => override.codes = {}

(* What was announced last is what is shown, unless the data is invalid.   *)
EventsInv ==
  /\ baseline => heard = [level |-> lastLevel, threats |-> lastThreats]
  /\ override # None => /\ baseline
                        /\ lastLevel = exposed.level
                        /\ lastThreats = exposed.threats
  /\ override = None /\ baseline /\ real.level # None =>
       /\ lastLevel = real.level
       /\ lastThreats = real.threats

(* The history has seen the snapshot that was handled.                     *)
HistoryInv ==
  /\ LifecycleMatchesObservation
  /\ TestsLeaveHistoryAlone
  /\ phase = "stopped" => history.active = None

(* The lifecycle and the measured latency of one alert, wherever kept.     *)
SameAlert(active, alert) ==
  active # None /\ active.start = 0 => alert # None /\ alert.start = 0

AgreementInv ==
  /\ history.baseline = alertLatency.baseline
  /\ history.last = alertLatency.last
  /\ SameAlert(history.active, alertLatency.measurement)
  /\ SameAlert(store.active, store.alert)
  /\ saving # None => SameAlert(saving.active, saving.alert)

SavingInv ==
  /\ phase = "stopped" => saving = None
  /\ saving = None => ~dirty
  /\ saving # None /\ ~dirty => saving = Current
  /\ StorageIsCurrent

(* A lifecycle carries the highest level observed, as far as whoever keeps *)
(* it can know: the tracker, the write under way, the file.                *)
PeakInv ==
  /\ PeakSurvivesRestart
  /\ saving # None /\ saving.active # None => saving.active.max = peak.writing
  /\ store.active # None => store.active.max = peak.written
  /\ phase = "stopped" /\ store.active # None => store.active.max = peak.seen

(* What was measured in this alert is still remembered as seen, except     *)
(* what a restart made the tracker forget.                                 *)
ThreatInv ==
  /\ measuredNow \ forgotten \subseteq threatLatency.seen
  /\ ThreatMeasuredOncePerAlert

HealthInv ==
  /\ HealthAttributesMatch
  /\ phase = "running" =>
       /\ ~real.available => real.health = "source_error"
       /\ real.health = "data_error" => real.available /\ ~real.valid
       /\ ~real.available \/ ~real.valid =>
            real.health \in {"source_error", "data_error"}
       /\ real.last = LastMeasurements(history, alertLatency, threatLatency)

CoordinatorInv ==
  /\ TypeOK
  /\ SourceInv
  /\ ShownInv
  /\ EventsInv
  /\ HistoryInv
  /\ AgreementInv
  /\ SavingInv
  /\ PeakInv
  /\ ThreatInv
  /\ HealthInv

-----------------------------------------------------------------------------
(* The trackers.                                                           *)

LEMMA Priorities ==
  /\ Priority["clear"] = 0
  /\ Priority["yellow"] = 1
  /\ Priority["red"] = 2
  BY DEF Priority

(* A scenario's values are values of the trackers.                         *)
LEMMA ScenarioValues ==
  ASSUME scenario \in Scenarios
  PROVE  /\ scenario.levels \subseteq ActiveLevels
         /\ scenario.coverages \subseteq Coverages \ {"none"}
         /\ scenario.starts \subseteq Int
         /\ Times \subseteq Nat
         /\ scenario.types \subseteq Nat
         /\ IsFiniteSet(scenario.types)
         /\ scenario.threatLevels \subseteq ActiveLevels
         /\ scenario.tests \subseteq Levels
         /\ scenario.end \in Nat
         /\ IsFiniteSet(scenario.starts)
<1>1. /\ scenario.levels \subseteq ActiveLevels
      /\ scenario.coverages \subseteq Coverages \ {"none"}
      /\ scenario.starts \subseteq 0..(scenario.end + 1) \cup {NoTime}
      /\ scenario.types \subseteq Nat
      /\ IsFiniteSet(scenario.types)
      /\ scenario.threatLevels \subseteq ActiveLevels
      /\ scenario.tests \subseteq Levels
      /\ scenario.end \in Nat
  BY ScenarioAssumption
<1>2. scenario.starts \subseteq Int /\ Times \subseteq Nat
  BY <1>1 DEF NoTime, Times
<1>3. IsFiniteSet(0..(scenario.end + 1) \cup {NoTime})
  <2>1. IsFiniteSet(0..(scenario.end + 1))
    BY <1>1, FS_Interval
  <2> QED
    BY <2>1, FS_AddElement
<1>4. IsFiniteSet(scenario.starts)
  BY <1>1, <1>3, FS_Subset
<1> QED
  BY <1>1, <1>2, <1>4

(* None stands for no lifecycle and no measurement, never for one.         *)
LEMMA NoneIsNone ==
  ASSUME scenario \in Scenarios
  PROVE  /\ None \notin Levels /\ None \notin Coverages
         /\ \A s \in Times, l \in ActiveLevels :
              /\ [start |-> s, max |-> l] # None
              /\ [start |-> s, level |-> l] # None
         /\ None \notin Stores
<1>1. /\ None \notin Levels /\ None \notin Coverages
      /\ \A s \in Times, l \in ActiveLevels :
              /\ [start |-> s, max |-> l] # None
              /\ [start |-> s, level |-> l] # None
  BY ScenarioValues, NoneAssumption DEF ActiveLevels, Levels
<1>2. /\ Lifecycles \subseteq [start : Int, max : Levels] \cup {None}
      /\ AlertMeasurements \subseteq [start : Int, level : Levels] \cup {None}
      /\ ThreatInstances \subseteq [type : Nat, start : Int]
  BY ScenarioValues
  DEF Lifecycles, AlertMeasurements, ThreatInstances, ActiveLevels, Levels
<1>3. None \notin Stores
  BY <1>2, StoreAssumption DEF Stores
<1> QED
  BY <1>1, <1>3

(* What a tracker is given.                                                *)
Observations ==
  {obs \in [level : Levels, start : scenario.starts \cup {NoTime},
            threats : SUBSET Threats, received : 0..scenario.end] :
     obs.level # "clear" => obs.start \in scenario.starts}

LEMMA HistoryObserved ==
  ASSUME scenario \in Scenarios, NEW h \in Histories, NEW obs \in Observations,
         NEW next, next = ObserveHistory(h, obs)
  PROVE  /\ next \in Histories
         /\ next.baseline = TRUE
         /\ next.last = obs.level
         /\ h.active # None /\ obs.level = "clear" => next.active = None
         /\ h.active # None /\ obs.level # "clear" =>
              next.active = RaisedTo(h.active, obs.level)
         /\ h.active = None /\ HistoryStarts(h, obs) =>
              next.active = [start |-> obs.start, max |-> obs.level]
         /\ h.active = None /\ ~HistoryStarts(h, obs) => next.active = None
<1>1. /\ obs.level \in Levels
      /\ h = [baseline |-> h.baseline, last |-> h.last,
              active |-> h.active, measurement |-> h.measurement]
      /\ h.active \in Lifecycles /\ h.measurement \in Lifecycles
  BY DEF Observations, Histories
<1>2. CASE h.active # None /\ obs.level = "clear"
  <2>1. Tracked(h, obs) = Finished(h, obs.received)
    BY <1>2 DEF Tracked, HistoryStarts
  <2>2. PICK m \in Lifecycles :
          next = [baseline |-> TRUE, last |-> obs.level, active |-> None,
                  measurement |-> m]
    BY <1>1, <2>1 DEF ObserveHistory, Finished
  <2>3. next \in Histories
    BY <1>1, <2>2 DEF Histories, Levels0, Lifecycles
  <2> QED
    BY <1>2, <2>2, <2>3 DEF HistoryStarts
<1>3. CASE h.active # None /\ obs.level # "clear"
  <2>1. Tracked(h, obs) = [h EXCEPT !.active = RaisedTo(@, obs.level)]
    BY <1>3 DEF Tracked, HistoryStarts
  <2>2. next = [baseline |-> TRUE, last |-> obs.level,
                active |-> RaisedTo(h.active, obs.level),
                measurement |-> h.measurement]
    BY <1>1, <2>1 DEF ObserveHistory
  <2>3. RaisedTo(h.active, obs.level) \in Lifecycles
    BY <1>1, <1>3 DEF RaisedTo, Lifecycles, Levels, ActiveLevels
  <2> QED
    BY <1>1, <1>3, <2>2, <2>3 DEF HistoryStarts, Histories, Levels0
<1>4. CASE HistoryStarts(h, obs)
  <2>1. Tracked(h, obs) =
          [h EXCEPT !.active = [start |-> obs.start, max |-> obs.level]]
    BY <1>4 DEF Tracked, HistoryStarts
  <2>2. next = [baseline |-> TRUE, last |-> obs.level,
                active |-> [start |-> obs.start, max |-> obs.level],
                measurement |-> h.measurement]
    BY <1>1, <2>1 DEF ObserveHistory
  <2>3. [start |-> obs.start, max |-> obs.level] \in Lifecycles
    BY <1>1, <1>4
    DEF HistoryStarts, Lifecycles, Levels, ActiveLevels, Observations, Times
  <2> QED
    BY <1>1, <1>4, <2>2, <2>3 DEF HistoryStarts, Histories, Levels0
<1>5. CASE h.active = None /\ ~HistoryStarts(h, obs)
  <2>1. Tracked(h, obs) = h
    BY <1>5 DEF Tracked
  <2>2. next = [h EXCEPT !.baseline = TRUE, !.last = obs.level]
    BY <2>1 DEF ObserveHistory
  <2>3. next = [baseline |-> TRUE, last |-> obs.level, active |-> h.active,
                measurement |-> h.measurement]
    BY <1>1, <2>2
  <2> QED
    BY <1>1, <1>5, <2>3 DEF HistoryStarts, Histories, Levels0, Lifecycles
<1> QED
  BY <1>2, <1>3, <1>4, <1>5 DEF HistoryStarts

LEMMA AlertLatencyObserved ==
  ASSUME scenario \in Scenarios, NEW a \in AlertLatencies, NEW obs \in Observations,
         NEW next, next = ObserveAlertLatency(a, obs)
  PROVE  /\ next \in AlertLatencies
         /\ next.baseline = TRUE
         /\ next.last = obs.level
         /\ next.measurement = IF AlertMeasurable(a, obs)
                               THEN [start |-> obs.start, level |-> obs.level]
                               ELSE a.measurement
<1>1. AlertMeasurable(a, obs) =>
        [start |-> obs.start, level |-> obs.level] \in AlertMeasurements
  BY DEF AlertMeasurable, Observations, AlertMeasurements, Times, Levels, ActiveLevels
<1> QED
  BY <1>1 DEF ObserveAlertLatency, AlertLatencies, Observations, Levels0

LEMMA ThreatsAreFinite ==
  ASSUME scenario \in Scenarios
  PROVE  IsFiniteSet(Threats)
<1> DEFINE product == scenario.types \X (scenario.threatLevels \X scenario.starts)
           f == [t \in Threats |-> <<t.type, <<t.level, t.start>>>>]
<1>1. IsFiniteSet(scenario.threatLevels)
  <2>1. IsFiniteSet(ActiveLevels)
    <3>1. IsFiniteSet({"yellow"})
      BY FS_Singleton
    <3>2. ActiveLevels = {"yellow"} \cup {"red"}
      BY DEF ActiveLevels
    <3> QED
      BY <3>1, <3>2, FS_AddElement
  <2> QED
    BY <2>1, ScenarioValues, FS_Subset
<1>2. IsFiniteSet(product)
  <2>1. IsFiniteSet(scenario.threatLevels \X scenario.starts)
    BY <1>1, ScenarioValues, FS_Product
  <2> QED
    BY <2>1, ScenarioValues, FS_Product
<1>3. f \in Injection(Threats, product)
  <2>1. f \in [Threats -> product]
    BY DEF Threats
  <2>2. \A x, y \in Threats : f[x] = f[y] => x = y
    BY DEF Threats
  <2> QED
    BY <2>1, <2>2 DEF Injection, IsInjective
<1> QED
  BY <1>2, <1>3, FS_Injection

(* max() of the candidates finds one of them.                              *)
LEMMA LatestThreatExists ==
  ASSUME scenario \in Scenarios, NEW candidates \in SUBSET Threats, candidates # {}
  PROVE  LatestThreat(candidates) \in candidates
<1> DEFINE later == {p \in candidates \X candidates :
                       \/ p[1].start < p[2].start
                       \/ /\ p[1].start = p[2].start
                          /\ p[1].type < p[2].type}
<1>1. \A c \in candidates : c.start \in Int /\ c.type \in Int
  BY ScenarioValues DEF Threats
<1>2. IsFiniteSet(candidates)
  BY ThreatsAreFinite, FS_Subset
<1>3. \A x \in candidates : <<x, x>> \notin later
  BY <1>1
<1>4. \A x, y, z \in candidates :
        <<x, y>> \in later /\ <<y, z>> \in later => <<x, z>> \in later
  BY <1>1
<1>5. PICK c \in candidates : \A d \in candidates : <<c, d>> \notin later
  <2> HIDE DEF later
  <2> QED
    BY <1>2, <1>3, <1>4, MaximalElement
<1>6. ASSUME NEW d \in candidates
      PROVE  \/ d.start < c.start
             \/ d.start = c.start /\ d.type <= c.type
  <2>1. <<c, d>> \notin later
    BY <1>5
  <2>2. ~(c.start < d.start) /\ ~(c.start = d.start /\ c.type < d.type)
    BY <2>1
  <2> QED
    BY <1>1, <2>2
<1> QED
  BY <1>6 DEF LatestThreat

(* An instance that is measured was not seen before, and is seen now.      *)
LEMMA ThreatLatencyObserved ==
  ASSUME scenario \in Scenarios, NEW t \in ThreatLatencies, NEW obs \in Observations,
         NEW next, next = ObserveThreatLatency(t, obs)
  PROVE  /\ next \in ThreatLatencies
         /\ next.baseline = TRUE
         /\ obs.level = "clear" => next.seen = {}
         /\ obs.level # "clear" =>
              t.seen \cup {Instance(threat) : threat \in obs.threats} \subseteq next.seen
         /\ t.baseline /\ obs.level # "clear" /\ ThreatCandidates(t, obs) # {} =>
              /\ next.measurement = [type |-> next.measurement.type,
                                     start |-> next.measurement.start]
              /\ next.measurement \notin t.seen
              /\ next.measurement \in next.seen
<1> DEFINE candidates == ThreatCandidates(t, obs)
           visible == {Instance(threat) : threat \in obs.threats}
<1>1. /\ obs.level \in Levels
      /\ t = [baseline |-> t.baseline, seen |-> t.seen, measurement |-> t.measurement]
      /\ t.seen \subseteq ThreatInstances
      /\ t.measurement \in ThreatInstances \cup {None}
  BY DEF Observations, ThreatLatencies
<1>2. visible \subseteq ThreatInstances
  BY DEF Observations, Threats, Instance, ThreatInstances
<1>3. CASE obs.level = "clear"
  <2>1. next = [t EXCEPT !.baseline = TRUE, !.seen = {}]
    BY <1>3 DEF ObserveThreatLatency
  <2>2. next = [baseline |-> TRUE, seen |-> {}, measurement |-> t.measurement]
    BY <1>1, <2>1
  <2> QED
    BY <1>1, <1>3, <2>2 DEF ThreatLatencies
<1>4. CASE obs.level # "clear" /\ (~t.baseline \/ candidates = {})
  <2>1. next = [t EXCEPT !.baseline = TRUE, !.seen = @ \cup visible]
    BY <1>4 DEF ObserveThreatLatency
  <2> HIDE DEF visible
  <2>2. next = [baseline |-> TRUE, seen |-> t.seen \cup visible,
                measurement |-> t.measurement]
    BY <1>1, <2>1
  <2>3. t.seen \cup {Instance(threat) : threat \in obs.threats} \subseteq next.seen
    BY <2>2 DEF visible
  <2> QED
    BY <1>1, <1>2, <1>4, <2>2, <2>3 DEF ThreatLatencies
<1>5. CASE obs.level # "clear" /\ t.baseline /\ candidates # {}
  <2> DEFINE latest == LatestThreat(candidates)
  <2>1. next = [baseline |-> TRUE, seen |-> t.seen \cup visible,
                measurement |-> Instance(latest)]
    BY <1>5 DEF ObserveThreatLatency
  <2>2. candidates \in SUBSET Threats
    BY DEF ThreatCandidates, Observations
  <2>3. latest \in candidates
    BY <1>5, <2>2, LatestThreatExists
  <2>4. latest \in obs.threats /\ Instance(latest) \notin t.seen
    BY <2>3 DEF ThreatCandidates
  <2>5. Instance(latest) \in visible
    BY <2>4
  <2> HIDE DEF visible, candidates, latest
  <2>6. t.seen \cup {Instance(threat) : threat \in obs.threats} \subseteq next.seen
    BY <2>1 DEF visible
  <2> QED
    BY <1>1, <1>2, <1>5, <2>1, <2>4, <2>5, <2>6 DEF ThreatLatencies, Instance
<1> QED
  BY <1>3, <1>4, <1>5

-----------------------------------------------------------------------------
(* The steps, by what they do to the coordinator.                          *)

(* The clock and the runtime.                                              *)
Ticks ==
  /\ scenario' = scenario
  /\ now' \in 0..scenario.end
  /\ runtime' \in Runtimes

(* The coordinator handled the runtime's update.                           *)
Updated(isNew) ==
  /\ phase \in {"starting", "running"}
  /\ phase' \in {phase, "running"}
  /\ ~isNew => ~fresh /\ runtime'.verdict = runtime.verdict
  /\ HandleUpdate(isNew)

(* Nothing of the coordinator's state changed, except that it may stop.    *)
Quiet ==
  /\ UNCHANGED <<fresh, trackerVars, stateVars, eventVars, saveVars, watchVars>>
  /\ \/ phase' = phase
     \/ phase = "running" /\ phase' = "stopping"
  /\ phase \in {"starting", "running"} => runtime'.verdict = runtime.verdict

LEMMA MayIsBoolean == \A what : \A b \in May(what) : b \in BOOLEAN
  BY DEF May

LEMMA TicksAlways ==
  ASSUME TypeOK, [Next]_vars
  PROVE  Ticks
<1>1. /\ now \in 0..scenario.end
      /\ scenario.end \in Nat
      /\ runtime \in Runtimes
  BY ScenarioValues DEF TypeOK, Runtimes
<1>2. NewRuntime \in Runtimes
  BY <1>1 DEF NewRuntime, Runtimes
<1>3. ASSUME NEW verdict \in Verdicts, PollSucceeds(verdict)
      PROVE  Ticks
  BY <1>1, <1>3, MayIsBoolean DEF PollSucceeds, Notify, Ticks, Runtimes
<1>4. CASE PollFails
  <2>1. PICK stale \in BOOLEAN, slow \in BOOLEAN :
          runtime' = [runtime EXCEPT
                        !.errors = IF @ = 2 THEN 2 ELSE @ + 1,
                        !.available = @ /\ ~stale, !.slow = slow]
    BY <1>4, MayIsBoolean DEF PollFails
  <2>2. /\ (IF runtime.errors = 2 THEN 2 ELSE runtime.errors + 1) \in 0..2
        /\ (runtime.available /\ ~stale) \in BOOLEAN
    BY <1>1 DEF Runtimes
  <2>3. runtime' \in Runtimes
    BY <1>1, <2>1, <2>2 DEF Runtimes
  <2> QED
    BY <1>1, <1>4, <2>3 DEF PollFails, Notify, Ticks
<1>5. CASE TimingChanges \/ SnapshotAges
  BY <1>1, <1>5, MayIsBoolean DEF TimingChanges, SnapshotAges, Notify, Ticks, Runtimes
<1>6. CASE Advance
  BY <1>1, <1>6 DEF Advance, Ticks
<1>7. CASE \/ \E level \in scenario.tests, codes \in SUBSET scenario.types :
                SetTestOverride(level, codes)
           \/ ClearTestOverride
  BY <1>1, <1>7 DEF SetTestOverride, ClearTestOverride, Ticks
<1>8. CASE \/ \E ok \in BOOLEAN : SaveEnds(ok)
           \/ \E loads \in BOOLEAN : Start(loads)
           \/ InitialUpdate \/ Stop
  BY <1>1, <1>8 DEF SaveEnds, Start, InitialUpdate, Stop, Ticks
<1>9. CASE Stopped \/ Crash
  BY <1>1, <1>2, <1>9 DEF Stopped, Crash, Vanish, Ticks
<1>10. CASE UNCHANGED vars
  BY <1>1, <1>10 DEF vars, Ticks
<1> QED
  BY <1>3, <1>4, <1>5, <1>6, <1>7, <1>8, <1>9, <1>10 DEF Next

LEMMA StepKinds ==
  ASSUME TypeOK, [Next]_vars
  PROVE  \/ \E isNew \in BOOLEAN : Updated(isNew)
         \/ Quiet
         \/ \E level \in scenario.tests, codes \in SUBSET scenario.types :
              SetTestOverride(level, codes)
         \/ ClearTestOverride
         \/ \E ok \in BOOLEAN : SaveEnds(ok)
         \/ \E loads \in BOOLEAN : Start(loads)
         \/ Stopped
         \/ Crash
<1>1. fresh \in BOOLEAN
  BY DEF TypeOK
<1>2. ASSUME NEW isNew \in BOOLEAN, Notify(isNew),
             ~isNew => ~fresh /\ runtime'.verdict = runtime.verdict
      PROVE  Updated(isNew) \/ Quiet
  BY <1>2 DEF Notify, Updated, Quiet
<1>3. ASSUME NEW verdict \in Verdicts, PollSucceeds(verdict)
      PROVE  Updated(TRUE) \/ Quiet
  BY <1>2, <1>3 DEF PollSucceeds
<1>4. CASE PollFails \/ TimingChanges
  <2>1. Notify(fresh)
    BY <1>4 DEF PollFails, TimingChanges
  <2>2. runtime'.verdict = runtime.verdict
    BY <1>4 DEF PollFails, TimingChanges, TypeOK
  <2> QED
    BY <1>1, <1>2, <2>1, <2>2
<1>5. CASE SnapshotAges
  <2>1. runtime'.verdict = runtime.verdict
    BY <1>5 DEF SnapshotAges, TypeOK
  <2> QED
    BY <1>5, <2>1 DEF SnapshotAges, Quiet
<1>6. CASE Advance \/ Stop
  BY <1>6 DEF Advance, Stop, Quiet
<1>7. CASE InitialUpdate
  BY <1>1, <1>7 DEF InitialUpdate, Updated
<1>8. CASE UNCHANGED vars
  BY <1>8 DEF vars, Quiet
<1> QED
  BY <1>3, <1>4, <1>5, <1>6, <1>7, <1>8 DEF Next

(* Handling an update, field by field.                                     *)
LEMMA UpdateIsShown ==
  ASSUME NEW isNew, HandleUpdate(isNew)
  PROVE  /\ StateRecord(real')
         /\ real'.valid = Judged(runtime').valid
         /\ real'.level = Judged(runtime').level
         /\ real'.coverage = Judged(runtime').coverage
         /\ real'.threats = Judged(runtime').threats
         /\ real'.test = FALSE
         /\ real'.last = LastMeasurements(history', alertLatency', threatLatency')
         /\ real'.health = HealthCode(Evaluated(runtime'), runtime')
         /\ real'.available = (runtime'.verdict # None /\ runtime'.available)
         /\ exposed' = Overlay(real', override)
         /\ override' = override
         /\ fresh' = FALSE
  BY DEF HandleUpdate, Evaluated, Judged, StateRecord

(* A new valid snapshot reaches the trackers, anything else does not.      *)
Observed(isNew) == isNew /\ runtime'.verdict # None /\ Judged(runtime').valid

LEMMA UpdateIsObserved ==
  ASSUME NEW isNew \in BOOLEAN, HandleUpdate(isNew)
  PROVE  IF Observed(isNew)
         THEN ProcessValidSnapshot(Evaluated(runtime'),
                Observation(Evaluated(runtime'), runtime'))
         ELSE UNCHANGED <<trackerVars, dirty, saving, baseline, lastLevel,
                          lastThreats, heard, watchVars>>
  BY DEF HandleUpdate, Evaluated, Judged, Observed

(* What evaluate_location concludes holds together.                        *)
LEMMA JudgedIsConsistent ==
  ASSUME scenario \in Scenarios, NEW rt \in Runtimes
  PROVE  /\ Consistent(Judged(rt))
         /\ Judged(rt).valid \in BOOLEAN
         /\ Judged(rt).level = "clear" => rt.verdict = ClearVerdict
<1>1. CASE rt.verdict = None
  <2>1. Judged(rt) = [valid |-> FALSE, level |-> None, coverage |-> None,
                      start |-> NoTime, threats |-> {}]
    BY <1>1 DEF Judged, InvalidVerdict
  <2> QED
    BY <2>1, NoneIsNone DEF Consistent, Levels
<1>2. CASE rt.verdict # None /\ rt.verdict = ClearVerdict
  <2>1. Judged(rt) = [valid |-> TRUE, level |-> "clear", coverage |-> "none",
                      start |-> NoTime, threats |-> {}]
    BY <1>2 DEF Judged, ClearVerdict
  <2> QED
    BY <1>2, <2>1 DEF Consistent, Levels, Coverages
<1>3. ASSUME NEW threats \in SUBSET Threats, rt.verdict # None,
             rt.verdict = InvalidVerdict(threats)
      PROVE  /\ Consistent(Judged(rt))
             /\ Judged(rt).valid = FALSE
             /\ Judged(rt).level # "clear"
  BY <1>3, NoneIsNone DEF Judged, InvalidVerdict, Consistent, Levels
<1>4. CASE /\ rt.verdict # None
           /\ rt.verdict \in [valid : {TRUE}, level : scenario.levels,
                              coverage : scenario.coverages,
                              start : scenario.starts, threats : SUBSET Threats]
  <2>1. /\ Judged(rt) = rt.verdict
        /\ rt.verdict.valid = TRUE
        /\ rt.verdict.level \in ActiveLevels
        /\ rt.verdict.coverage \in Coverages \ {"none"}
    BY <1>4, ScenarioValues DEF Judged
  <2> QED
    BY <2>1 DEF Consistent, Levels, ActiveLevels
<1> QED
  BY <1>1, <1>2, <1>3, <1>4 DEF Runtimes, Verdicts

LEMMA ObservationIsTyped ==
  ASSUME scenario \in Scenarios, NEW rt \in Runtimes, rt.verdict # None,
         Judged(rt).valid,
         NEW obs, obs = Observation(Evaluated(rt), rt)
  PROVE  /\ obs \in Observations
         /\ obs.level = Judged(rt).level
         /\ obs.received = rt.received
<1>1. obs = [level |-> rt.verdict.level, start |-> rt.verdict.start,
             threats |-> rt.verdict.threats, received |-> rt.received]
  BY DEF Observation, Evaluated
<1>2. CASE rt.verdict = ClearVerdict
  BY <1>1, <1>2 DEF ClearVerdict, Observations, Runtimes, Levels, Judged
<1>3. CASE rt.verdict \in [valid : {TRUE}, level : scenario.levels,
                           coverage : scenario.coverages,
                           start : scenario.starts, threats : SUBSET Threats]
  BY <1>1, <1>3, ScenarioValues
  DEF Observations, Runtimes, Levels, ActiveLevels, Judged
<1>4. ASSUME NEW threats \in SUBSET Threats, rt.verdict = InvalidVerdict(threats)
      PROVE  FALSE
  BY <1>4 DEF Judged, InvalidVerdict
<1> QED
  BY <1>2, <1>3, <1>4 DEF Runtimes, Verdicts

(* What the trackers, the save task and the watcher do with a snapshot.    *)
ObservedStep(obs) ==
  /\ obs \in Observations
  /\ obs.level = Judged(runtime').level
  /\ obs.received = runtime'.received
  /\ history' = ObserveHistory(history, obs)
  /\ alertLatency' = ObserveAlertLatency(alertLatency, obs)
  /\ threatLatency' = ObserveThreatLatency(threatLatency, obs)
  /\ IF Current' # Current THEN ScheduleSave(Current') ELSE UNCHANGED <<dirty, saving>>
  /\ IF override = None
     THEN EffectiveEvents(Evaluated(runtime'))
     ELSE UNCHANGED <<baseline, lastLevel, lastThreats, heard>>
  /\ Watch(obs, history', threatLatency')

LEMMA UpdateObserves ==
  ASSUME TypeOK, Ticks, NEW isNew \in BOOLEAN, Updated(isNew), Observed(isNew)
  PROVE  ObservedStep(Observation(Evaluated(runtime'), runtime'))
<1> DEFINE obs == Observation(Evaluated(runtime'), runtime')
<1>1. /\ obs \in Observations
      /\ obs.level = Judged(runtime').level
      /\ obs.received = runtime'.received
  BY ObservationIsTyped DEF TypeOK, Ticks, Observed
<1>2. ProcessValidSnapshot(Evaluated(runtime'), obs)
  BY UpdateIsObserved DEF Updated
<1> HIDE DEF obs
<1>3. ObservedStep(obs)
  BY <1>1, <1>2 DEF ProcessValidSnapshot, ObservedStep, Current
<1> QED
  BY <1>3 DEF obs

LEMMA UpdateDoesNotObserve ==
  ASSUME NEW isNew \in BOOLEAN, Updated(isNew), ~Observed(isNew)
  PROVE  UNCHANGED <<trackerVars, dirty, saving, baseline, lastLevel,
                     lastThreats, heard, watchVars>>
  BY UpdateIsObserved DEF Updated

-----------------------------------------------------------------------------
(* Types.                                                                  *)

TypesKept ==
  /\ phase' \in {"stopped", "starting", "running", "stopping"}
  /\ fresh' \in BOOLEAN
  /\ history' \in Histories
  /\ alertLatency' \in AlertLatencies
  /\ threatLatency' \in ThreatLatencies
  /\ override' \in [level : scenario.tests, codes : SUBSET scenario.types] \cup {None}
  /\ baseline' \in BOOLEAN
  /\ lastLevel' \in Levels0
  /\ lastAvailable' \in BOOLEAN \cup {None}
  /\ dirty' \in BOOLEAN
  /\ saving' \in Stores \cup {None}
  /\ store' \in Stores

LEMMA TypesFromParts ==
  ASSUME TypeOK, Ticks, TypesKept
  PROVE  TypeOK'
<1>1. scenario' = scenario /\ scenario' \in Scenarios
  BY DEF Ticks, TypeOK
<1>2. /\ Lifecycles' = Lifecycles
      /\ AlertMeasurements' = AlertMeasurements
      /\ ThreatInstances' = ThreatInstances
      /\ Verdicts' = Verdicts
  BY <1>1 DEF Lifecycles, AlertMeasurements, ThreatInstances, Times, Verdicts, Threats
<1>3. Stores' = Stores
  BY <1>2 DEF Stores
<1>4. /\ now' \in 0..scenario'.end
      /\ runtime' \in [verdict : Verdicts \cup {None}, received : 0..scenario'.end,
                       available : BOOLEAN, errors : 0..2, slow : BOOLEAN]
  BY <1>1 DEF Ticks, Runtimes
<1>5. /\ history' \in [baseline : BOOLEAN, last : Levels0,
                       active : Lifecycles, measurement : Lifecycles]
      /\ alertLatency' \in [baseline : BOOLEAN, last : Levels0,
                            measurement : AlertMeasurements]
      /\ threatLatency' \in [baseline : BOOLEAN, seen : SUBSET ThreatInstances,
                             measurement : ThreatInstances \cup {None}]
  BY DEF TypesKept, Histories, AlertLatencies, ThreatLatencies
<1>6. override' \in [level : scenario'.tests, codes : SUBSET scenario'.types] \cup {None}
  BY <1>1 DEF TypesKept
<1>7. /\ phase' \in {"stopped", "starting", "running", "stopping"}
      /\ fresh' \in BOOLEAN
      /\ baseline' \in BOOLEAN
      /\ lastLevel' \in Levels0
      /\ lastAvailable' \in BOOLEAN \cup {None}
      /\ dirty' \in BOOLEAN
      /\ saving' \in Stores \cup {None}
      /\ store' \in Stores
  BY DEF TypesKept
<1> QED
  BY <1>1, <1>2, <1>3, <1>4, <1>5, <1>6, <1>7 DEF TypeOK, Levels0

LEMMA CurrentIsAStore ==
  ASSUME NEW h \in Histories, NEW a \in AlertLatencies, NEW t \in ThreatLatencies
  PROVE  ValuesOf(h, a, t) \in Stores
  BY DEF ValuesOf, Histories, AlertLatencies, ThreatLatencies, Stores

LEMMA NewTrackers ==
  ASSUME NEW restored \in Stores
  PROVE  /\ NewHistory(restored) \in Histories
         /\ NewAlertLatency(restored) \in AlertLatencies
         /\ NewThreatLatency(restored) \in ThreatLatencies
         /\ ValuesOf(NewHistory(restored), NewAlertLatency(restored),
                     NewThreatLatency(restored)) = restored
  BY DEF NewHistory, NewAlertLatency, NewThreatLatency, Histories, AlertLatencies,
         ThreatLatencies, Stores, Levels0, ValuesOf

LEMMA EmptyIsAStore == EmptyStore \in Stores
  BY DEF EmptyStore, Stores, Lifecycles, AlertMeasurements

LEMMA TypesOfParts ==
  ASSUME TypeOK
  PROVE  /\ scenario \in Scenarios
         /\ runtime \in Runtimes
         /\ history \in Histories
         /\ alertLatency \in AlertLatencies
         /\ threatLatency \in ThreatLatencies
         /\ Current \in Stores
<1>1. /\ scenario \in Scenarios
      /\ runtime \in Runtimes
      /\ history \in Histories
      /\ alertLatency \in AlertLatencies
      /\ threatLatency \in ThreatLatencies
  BY DEF TypeOK, Runtimes, Histories, AlertLatencies, ThreatLatencies
<1> QED
  BY <1>1, CurrentIsAStore DEF Current

LEMMA EventsKeepTypes ==
  ASSUME baseline \in BOOLEAN, lastLevel \in Levels0, NEW state,
         EffectiveEvents(state), state.level \in Levels0
  PROVE  baseline' \in BOOLEAN /\ lastLevel' \in Levels0
  BY DEF EffectiveEvents

LEMMA ObservationKeepsTypes ==
  ASSUME TypeOK, Ticks, NEW obs, ObservedStep(obs)
  PROVE  /\ history' \in Histories
         /\ alertLatency' \in AlertLatencies
         /\ threatLatency' \in ThreatLatencies
         /\ Current' \in Stores
         /\ baseline' \in BOOLEAN
         /\ lastLevel' \in Levels0
         /\ dirty' \in BOOLEAN
         /\ saving' \in Stores \cup {None}
<1>1. obs \in Observations
  BY DEF ObservedStep
<1>2. history' \in Histories
  BY <1>1, TypesOfParts, HistoryObserved DEF ObservedStep
<1>3. alertLatency' \in AlertLatencies
  BY <1>1, TypesOfParts, AlertLatencyObserved DEF ObservedStep
<1>4. threatLatency' \in ThreatLatencies
  BY <1>1, TypesOfParts, ThreatLatencyObserved DEF ObservedStep
<1>5. Current' \in Stores
  BY <1>2, <1>3, <1>4, CurrentIsAStore DEF Current
<1>6. dirty' \in BOOLEAN /\ saving' \in Stores \cup {None}
  BY <1>5 DEF ObservedStep, ScheduleSave, TypeOK
<1>7. Evaluated(runtime').level \in Levels0
  <2>1. Evaluated(runtime').level = Judged(runtime').level
    BY DEF Evaluated, Judged
  <2> QED
    BY <1>1, <2>1 DEF ObservedStep, Observations, Levels0
<1>8. baseline' \in BOOLEAN /\ lastLevel' \in Levels0
  BY <1>7, EventsKeepTypes DEF ObservedStep, TypeOK
<1> QED
  BY <1>2, <1>3, <1>4, <1>5, <1>6, <1>8

LEMMA UpdateKeepsTypes ==
  ASSUME TypeOK, Ticks, NEW isNew \in BOOLEAN, Updated(isNew)
  PROVE  TypesKept
<1>1. /\ phase' \in {"stopped", "starting", "running", "stopping"}
      /\ fresh' \in BOOLEAN
      /\ override' = override
      /\ store' = store
  BY DEF Updated, HandleUpdate, TypeOK
<1>2. lastAvailable' \in BOOLEAN
  BY DEF Updated, HandleUpdate, Evaluated, Ticks, Runtimes
<1>3. CASE Observed(isNew)
  BY <1>1, <1>2, <1>3, UpdateObserves, ObservationKeepsTypes DEF TypeOK, TypesKept
<1>4. CASE ~Observed(isNew)
  <2>1. UNCHANGED <<trackerVars, dirty, saving, baseline, lastLevel>>
    BY <1>4, UpdateDoesNotObserve
  <2> QED
    BY <1>1, <1>2, <2>1, TypesOfParts DEF TypeOK, TypesKept, trackerVars
<1> QED
  BY <1>3, <1>4

LEMMA NewCoordinatorKeepsTypes ==
  ASSUME NEW restored \in Stores, NewCoordinator(restored)
  PROVE  /\ fresh' \in BOOLEAN
         /\ history' \in Histories
         /\ alertLatency' \in AlertLatencies
         /\ threatLatency' \in ThreatLatencies
         /\ override' = None
         /\ baseline' \in BOOLEAN
         /\ lastLevel' \in Levels0
         /\ lastAvailable' = None
  BY NewTrackers DEF NewCoordinator, Levels0

LEMMA TypesStep ==
  ASSUME TypeOK, ShownInv, [Next]_vars
  PROVE  TypeOK'
<1>1. Ticks /\ scenario \in Scenarios
  BY TicksAlways DEF TypeOK
<1>2. SUFFICES TypesKept
  BY <1>1, TypesFromParts
<1>3. real.level \in Levels0
  BY DEF ShownInv, Consistent, Levels0
<1>4. ASSUME NEW isNew \in BOOLEAN, Updated(isNew)
      PROVE  TypesKept
  BY <1>1, <1>4, UpdateKeepsTypes
<1>5. CASE Quiet
  BY <1>5, TypesOfParts
  DEF Quiet, TypesKept, TypeOK, trackerVars, stateVars, eventVars, saveVars
<1>6. ASSUME NEW level \in scenario.tests, NEW codes \in SUBSET scenario.types,
             SetTestOverride(level, codes)
      PROVE  TypesKept
  <2>1. lastLevel' \in Levels0
    BY <1>1, <1>3, <1>6, ScenarioValues DEF SetTestOverride, Overlay, Levels0
  <2>2. override' \in [level : scenario.tests, codes : SUBSET scenario.types]
    BY <1>6 DEF SetTestOverride
  <2> QED
    BY <1>6, <2>1, <2>2, TypesOfParts
    DEF SetTestOverride, TypesKept, TypeOK, trackerVars, saveVars
<1>7. CASE ClearTestOverride
  <2>1. baseline' \in BOOLEAN /\ lastLevel' \in Levels0
    BY <1>3, <1>7, EventsKeepTypes DEF ClearTestOverride, TypeOK
  <2> QED
    BY <1>7, <2>1, TypesOfParts
    DEF ClearTestOverride, TypesKept, TypeOK, trackerVars, saveVars
<1>8. ASSUME NEW ok \in BOOLEAN, SaveEnds(ok)
      PROVE  TypesKept
  BY <1>8, TypesOfParts
  DEF SaveEnds, TypesKept, TypeOK, trackerVars, stateVars, eventVars
<1>9. ASSUME NEW loads \in BOOLEAN, Start(loads)
      PROVE  TypesKept
  BY <1>9, EmptyIsAStore, NewCoordinatorKeepsTypes DEF Start, TypesKept, TypeOK
<1>10. CASE Stopped
  BY <1>10, EmptyIsAStore, NewCoordinatorKeepsTypes
  DEF Stopped, Vanish, TypesKept, TypeOK
<1>11. CASE Crash
  BY <1>11, EmptyIsAStore, NewCoordinatorKeepsTypes
  DEF Crash, Vanish, TypesKept, TypeOK
<1> QED
  BY <1>4, <1>5, <1>6, <1>7, <1>8, <1>9, <1>10, <1>11, StepKinds

-----------------------------------------------------------------------------
(* The real state and the state that is shown.                             *)

LEMMA SourceStep ==
  ASSUME CoordinatorInv, [Next]_vars
  PROVE  SourceInv'
<1>1. TypeOK /\ SourceInv
  BY DEF CoordinatorInv
<1>2. ASSUME NEW isNew \in BOOLEAN, Updated(isNew)
      PROVE  SourceInv'
  BY <1>2, UpdateIsShown DEF Updated, SourceInv, Handled
<1>3. CASE Quiet
  <2>1. Handled' => Handled /\ runtime'.verdict = runtime.verdict
    BY <1>3 DEF Quiet, Handled
  <2>2. runtime'.verdict = runtime.verdict => Judged(runtime') = Judged(runtime)
    BY DEF Judged
  <2> QED
    BY <1>1, <1>3, <2>1, <2>2 DEF Quiet, SourceInv, stateVars
<1>4. CASE \/ \E level \in scenario.tests, codes \in SUBSET scenario.types :
                SetTestOverride(level, codes)
           \/ ClearTestOverride
           \/ \E ok \in BOOLEAN : SaveEnds(ok)
  <2>1. UNCHANGED <<phase, fresh, runtime, real>>
    BY <1>4 DEF SetTestOverride, ClearTestOverride, SaveEnds, stateVars
  <2> QED
    BY <1>1, <2>1 DEF SourceInv, Handled, Judged
<1>5. CASE \/ \E loads \in BOOLEAN : Start(loads)
           \/ Stopped
           \/ Crash
  BY <1>5 DEF Start, Stopped, Crash, Vanish, NewCoordinator, SourceInv, Handled
<1> QED
  BY <1>1, <1>2, <1>3, <1>4, <1>5, StepKinds

LEMMA NewStateIsConsistent ==
  ASSUME scenario \in Scenarios
  PROVE  /\ StateRecord(InitialState)
         /\ Consistent(InitialState)
         /\ InitialState.test = FALSE
         /\ InitialState.valid = FALSE
         /\ InitialState.level = None
         /\ InitialState.available = FALSE
  BY DEF InitialState, Evaluated, NewRuntime, InvalidVerdict, StateRecord, Consistent

(* A test override, whatever it is laid over.                              *)
TestThreats(test) ==
  {[type |-> c, level |-> test.level, start |-> TestStart] : c \in test.codes}

LEMMA OverlayFields ==
  ASSUME NEW state, StateRecord(state), NEW test, test # None
  PROVE  /\ Overlay(state, test).valid = TRUE
         /\ Overlay(state, test).level = test.level
         /\ Overlay(state, test).coverage =
              IF test.level = "clear" THEN "none" ELSE "full"
         /\ Overlay(state, test).threats = TestThreats(test)
         /\ Overlay(state, test).test = TRUE
         /\ Overlay(state, test).last = state.last
         /\ Overlay(state, test).health = state.health
         /\ Overlay(state, test).available = state.available
<1> DEFINE shown == Overlay(state, test)
           threats == {[type |-> c, level |-> test.level,
                        start |-> TestStart] : c \in test.codes}
<1>1. shown = [state EXCEPT !.valid = TRUE, !.error = None, !.level = test.level,
                 !.coverage = IF test.level = "clear" THEN "none" ELSE "full",
                 !.threats = threats, !.test = TRUE]
  BY DEF Overlay
<1>2. threats = TestThreats(test)
  BY DEF TestThreats
<1> HIDE DEF threats
<1> HIDE DEF shown
<1>3. shown = [valid |-> TRUE, level |-> test.level,
               coverage |-> IF test.level = "clear" THEN "none" ELSE "full",
               threats |-> threats, test |-> TRUE, last |-> state.last,
               health |-> state.health, available |-> state.available,
               error |-> None]
  BY <1>1 DEF StateRecord
<1>4. /\ shown.valid = TRUE
      /\ shown.level = test.level
      /\ shown.coverage = IF test.level = "clear" THEN "none" ELSE "full"
      /\ shown.threats = TestThreats(test)
      /\ shown.test = TRUE
      /\ shown.last = state.last
      /\ shown.health = state.health
      /\ shown.available = state.available
  BY <1>2, <1>3
<1> QED
  BY <1>4 DEF shown

LEMMA NoOverlay ==
  ASSUME NEW state
  PROVE  Overlay(state, None) = state
  BY DEF Overlay

LEMMA ShownStep ==
  ASSUME CoordinatorInv, [Next]_vars
  PROVE  ShownInv'
<1>1. TypeOK /\ ShownInv /\ Ticks /\ scenario \in Scenarios
  BY TicksAlways DEF CoordinatorInv, TypeOK
<1>2. ASSUME NEW isNew \in BOOLEAN, Updated(isNew)
      PROVE  ShownInv'
  <2>1. /\ Consistent(Judged(runtime'))
        /\ Judged(runtime').valid \in BOOLEAN
        /\ runtime'.available \in BOOLEAN
    BY <1>1, JudgedIsConsistent DEF Ticks, Runtimes
  <2>2. Consistent(real')
    BY <1>2, <2>1, UpdateIsShown DEF Updated, Consistent
  <2> QED
    BY <1>1, <1>2, <2>1, <2>2, UpdateIsShown DEF Updated, ShownInv
<1>3. CASE Quiet \/ \E ok \in BOOLEAN : SaveEnds(ok)
  BY <1>1, <1>3 DEF Quiet, SaveEnds, ShownInv, stateVars
<1>4. ASSUME NEW level \in scenario.tests, NEW codes \in SUBSET scenario.types,
             SetTestOverride(level, codes)
      PROVE  ShownInv'
  <2> DEFINE test == [level |-> level, codes |-> IF level = "clear" THEN {} ELSE codes]
  <2>1. level \in Levels
    BY <1>1, ScenarioValues
  <2>2. override' = test /\ real' = real /\ exposed' = Overlay(real, test)
    BY <1>4 DEF SetTestOverride
  <2>3. test.level \in Levels /\ (test.level = "clear" => test.codes = {})
    BY <2>1
  <2> HIDE DEF test
  <2> QED
    BY <1>1, <2>2, <2>3 DEF ShownInv
<1>5. CASE ClearTestOverride
  BY <1>1, <1>5, NoOverlay DEF ClearTestOverride, ShownInv
<1>6. CASE \/ \E loads \in BOOLEAN : Start(loads)
           \/ Stopped
           \/ Crash
  <2>1. real' = InitialState /\ exposed' = InitialState /\ override' = None
    BY <1>6 DEF Start, Stopped, Crash, Vanish, NewCoordinator
  <2> QED
    BY <1>1, <2>1, NewStateIsConsistent, NoOverlay DEF ShownInv
<1> QED
  BY <1>1, <1>2, <1>3, <1>4, <1>5, <1>6, StepKinds

-----------------------------------------------------------------------------
(* Events.                                                                 *)

(* Whoever knew the state that was announced last knows the new one.       *)
LEMMA EventsAreHeard ==
  ASSUME EventsInv, baseline \in BOOLEAN, NEW state, state.level # None,
         EffectiveEvents(state)
  PROVE  /\ baseline' = TRUE
         /\ lastLevel' = state.level
         /\ lastThreats' = state.threats
         /\ heard' = [level |-> state.level, threats |-> state.threats]
<1>1. /\ baseline' = TRUE
      /\ lastLevel' = state.level
      /\ lastThreats' = state.threats
      /\ heard' = [level |-> IF LevelEvent(state) \/ ~baseline
                             THEN state.level ELSE heard.level,
                   threats |-> IF ThreatsEvent(state) \/ ~baseline
                               THEN state.threats ELSE heard.threats]
  BY DEF EffectiveEvents
<1>2. ~LevelEvent(state) /\ baseline => heard.level = state.level
  BY DEF LevelEvent, EventsInv
<1>3. ~ThreatsEvent(state) /\ baseline => heard.threats = state.threats
  BY DEF ThreatsEvent, EventsInv
<1> QED
  BY <1>1, <1>2, <1>3

(* A valid state that is not new is the one that was handled before.       *)
LEMMA KnownState ==
  ASSUME CoordinatorInv, Ticks, NEW isNew \in BOOLEAN, Updated(isNew),
         ~Observed(isNew), real'.valid \/ real'.level # None
  PROVE  /\ real.valid = real'.valid
         /\ real.level = real'.level
         /\ real.threats = real'.threats
<1>1. /\ real'.valid = Judged(runtime').valid
      /\ real'.level = Judged(runtime').level
      /\ real'.threats = Judged(runtime').threats
  BY UpdateIsShown DEF Updated
<1>2. Consistent(Judged(runtime')) /\ Judged(runtime').valid \in BOOLEAN
  BY JudgedIsConsistent DEF CoordinatorInv, TypeOK, Ticks
<1>3. Judged(runtime').valid
  BY <1>1, <1>2 DEF Consistent
<1>4. runtime'.verdict # None
  BY <1>3 DEF Judged, InvalidVerdict
<1>5. ~isNew
  BY <1>3, <1>4 DEF Observed
<1>6. Handled /\ Judged(runtime') = Judged(runtime)
  BY <1>5 DEF Updated, Handled, Judged
<1> QED
  BY <1>1, <1>6 DEF CoordinatorInv, SourceInv

LEMMA EventsStep ==
  ASSUME CoordinatorInv, [Next]_vars
  PROVE  EventsInv'
<1>1. /\ TypeOK /\ ShownInv /\ EventsInv /\ Ticks
      /\ scenario \in Scenarios /\ baseline \in BOOLEAN
  BY TicksAlways DEF CoordinatorInv, TypeOK
<1>2. ASSUME NEW isNew \in BOOLEAN, Updated(isNew), override # None
      PROVE  EventsInv'
  <2>1. UNCHANGED <<baseline, lastLevel, lastThreats, heard, override>>
    <3>1. CASE Observed(isNew)
      BY <1>1, <1>2, <3>1, UpdateObserves, UpdateIsShown DEF ObservedStep, Updated
    <3>2. CASE ~Observed(isNew)
      BY <1>2, <3>2, UpdateDoesNotObserve, UpdateIsShown DEF Updated
    <3> QED
      BY <3>1, <3>2
  <2>2. exposed = Overlay(real, override) /\ StateRecord(real)
    BY <1>1 DEF ShownInv
  <2>3. exposed' = Overlay(real', override) /\ StateRecord(real')
    BY <1>2, UpdateIsShown DEF Updated
  <2>4. exposed.level = override.level /\ exposed.threats = TestThreats(override)
    BY <1>2, <2>2, OverlayFields
  <2>5. exposed'.level = override.level /\ exposed'.threats = TestThreats(override)
    BY <1>2, <2>3, OverlayFields
  <2> QED
    BY <1>1, <1>2, <2>1, <2>4, <2>5 DEF EventsInv
<1>3. ASSUME NEW isNew \in BOOLEAN, Updated(isNew), override = None, Observed(isNew)
      PROVE  EventsInv'
  <2> DEFINE state == Evaluated(runtime')
  <2>1. EffectiveEvents(state)
    BY <1>1, <1>3, UpdateObserves DEF ObservedStep
  <2>2. /\ state.level = Judged(runtime').level
        /\ state.threats = Judged(runtime').threats
    BY DEF Evaluated, Judged
  <2>3. state.level # None
    BY <1>1, <1>3, <2>2, JudgedIsConsistent, NoneIsNone
    DEF Consistent, Ticks, Observed
  <2>4. /\ real'.level = state.level
        /\ real'.threats = state.threats
        /\ override' = None
    BY <1>3, <2>2, UpdateIsShown DEF Updated
  <2> HIDE DEF state
  <2> QED
    BY <1>1, <2>1, <2>3, <2>4, EventsAreHeard DEF EventsInv
<1>4. ASSUME NEW isNew \in BOOLEAN, Updated(isNew), override = None, ~Observed(isNew)
      PROVE  EventsInv'
  <2>1. UNCHANGED <<baseline, lastLevel, lastThreats, heard, override>>
    BY <1>4, UpdateDoesNotObserve, UpdateIsShown DEF Updated
  <2>2. real'.level # None => real.level = real'.level /\ real.threats = real'.threats
    BY <1>1, <1>4, KnownState
  <2> QED
    BY <1>1, <1>4, <2>1, <2>2 DEF EventsInv
<1>5. CASE Quiet \/ \E ok \in BOOLEAN : SaveEnds(ok)
  <2>1. UNCHANGED <<baseline, lastLevel, lastThreats, heard, real, exposed, override>>
    BY <1>5 DEF Quiet, SaveEnds, stateVars, eventVars
  <2> QED
    BY <1>1, <2>1 DEF EventsInv
<1>6. ASSUME NEW level \in scenario.tests, NEW codes \in SUBSET scenario.types,
             SetTestOverride(level, codes)
      PROVE  EventsInv'
  <2> DEFINE test == [level |-> level, codes |-> IF level = "clear" THEN {} ELSE codes]
             state == Overlay(real, test)
             from == [level |-> IF baseline THEN lastLevel
                                ELSE IF real.level = None THEN "clear" ELSE real.level,
                      threats |-> IF baseline THEN lastThreats ELSE real.threats]
  <2>1. /\ override' = test
        /\ exposed' = state
        /\ real' = real
        /\ baseline' = TRUE
        /\ lastLevel' = state.level
        /\ lastThreats' = state.threats
    BY <1>6 DEF SetTestOverride
  <2>2. heard' = [level |-> IF state.level # from.level THEN state.level
                            ELSE IF baseline THEN heard.level ELSE from.level,
                  threats |-> IF state.threats # from.threats THEN state.threats
                              ELSE IF baseline THEN heard.threats
                              ELSE from.threats]
    BY <1>6 DEF SetTestOverride
  <2>3. baseline => heard.level = from.level /\ heard.threats = from.threats
    BY <1>1 DEF EventsInv
  <2>4. test = None => state = real
    BY DEF Overlay
  <2> HIDE DEF test, state, from
  <2>5. heard' = [level |-> state.level, threats |-> state.threats]
    BY <1>1, <2>2, <2>3
  <2> QED
    BY <2>1, <2>4, <2>5 DEF EventsInv
<1>7. CASE ClearTestOverride
  <2>1. override' = None /\ real' = real /\ EffectiveEvents(real) /\ baseline
    BY <1>1, <1>7 DEF ClearTestOverride, EventsInv
  <2>2. CASE real.level = None
    BY <1>1, <2>1, <2>2 DEF EffectiveEvents, EventsInv
  <2>3. CASE real.level # None
    BY <1>1, <2>1, <2>3, EventsAreHeard DEF EventsInv
  <2> QED
    BY <2>2, <2>3
<1>8. CASE \/ \E loads \in BOOLEAN : Start(loads)
           \/ Stopped
           \/ Crash
  BY <1>8 DEF Start, Stopped, Crash, Vanish, NewCoordinator, EventsInv
<1> QED
  BY <1>1, <1>2, <1>3, <1>4, <1>5, <1>6, <1>7, <1>8, StepKinds

-----------------------------------------------------------------------------
(* History.                                                                *)

LEMMA Raised ==
  ASSUME scenario \in Scenarios,
         NEW active \in Lifecycles, active # None, NEW level \in ActiveLevels
  PROVE  /\ RaisedTo(active, level) # None
         /\ RaisedTo(active, level).start = active.start
         /\ RaisedTo(active, level).max =
              IF Priority[level] > Priority[active.max] THEN level ELSE active.max
         /\ Priority[RaisedTo(active, level).max] >= Priority[level]
<1>1. /\ active.start \in Times
      /\ active.max \in ActiveLevels
      /\ active = [start |-> active.start, max |-> active.max]
  BY DEF Lifecycles
<1>2. RaisedTo(active, level) =
        [start |-> active.start,
         max |-> IF Priority[level] > Priority[active.max] THEN level ELSE active.max]
  BY <1>1 DEF RaisedTo
<1>3. RaisedTo(active, level) # None
  BY <1>1, <1>2, NoneIsNone
<1>4. \A l \in ActiveLevels : Priority[l] \in Int
  BY Priorities DEF ActiveLevels
<1> QED
  BY <1>1, <1>2, <1>3, <1>4

(* What becomes of the alert under observation.                            *)
LEMMA AlertObserved ==
  ASSUME TypeOK, NEW obs, ObservedStep(obs)
  PROVE  /\ history'.baseline = TRUE
         /\ history'.last = obs.level
         /\ obs.level \in Levels
         /\ obs.level = "clear" => history'.active = None
         /\ history.active # None /\ obs.level # "clear" =>
              history'.active = RaisedTo(history.active, obs.level)
         /\ history.active = None /\ history'.active # None =>
              /\ HistoryStarts(history, obs)
              /\ history'.active = [start |-> obs.start, max |-> obs.level]
<1>1. obs \in Observations /\ obs.level \in Levels
  BY DEF ObservedStep, Observations
<1>2. /\ history \in Histories /\ scenario \in Scenarios
      /\ history' = ObserveHistory(history, obs)
  BY TypesOfParts DEF ObservedStep
<1>3. HistoryStarts(history, obs) => obs.level # "clear"
  BY DEF HistoryStarts
<1> QED
  BY <1>1, <1>2, <1>3, HistoryObserved

LEMMA HistoryStep ==
  ASSUME CoordinatorInv, [Next]_vars
  PROVE  HistoryInv'
<1>1. /\ TypeOK /\ HistoryInv /\ Ticks
      /\ scenario \in Scenarios /\ history \in Histories
  BY TicksAlways, TypesOfParts DEF CoordinatorInv
<1>2. ASSUME NEW isNew \in BOOLEAN, Updated(isNew), Observed(isNew)
      PROVE  HistoryInv'
  <2> DEFINE obs == Observation(Evaluated(runtime'), runtime')
  <2>1. ObservedStep(obs)
    BY <1>1, <1>2, UpdateObserves
  <2> HIDE DEF obs
  <2>2. real'.level = obs.level
    BY <1>2, <2>1, UpdateIsShown DEF ObservedStep, Updated
  <2>3. phase' # "stopped"
    BY <1>2 DEF Updated
  <2>4. TestsLeaveHistoryAlone'
    BY <1>1, <2>1, <2>2, AlertObserved DEF TestsLeaveHistoryAlone
  <2>5. history'.last = "clear" => history'.active = None
    BY <1>1, <2>1, AlertObserved
  <2>6. ASSUME history'.active # None
        PROVE  Priority[history'.active.max] >= Priority[history'.last]
    <3>1. obs.level \in ActiveLevels /\ history'.last = obs.level
      BY <1>1, <2>1, <2>6, AlertObserved DEF Levels, ActiveLevels
    <3>2. CASE history.active # None
      <4>1. history.active \in Lifecycles
        BY <1>1 DEF Histories
      <4>2. history'.active = RaisedTo(history.active, obs.level)
        BY <1>1, <2>1, <3>1, <3>2, AlertObserved DEF ActiveLevels
      <4> QED
        BY <1>1, <3>1, <3>2, <4>1, <4>2, Raised
    <3>3. CASE history.active = None
      <4>1. history'.active = [start |-> obs.start, max |-> obs.level]
        BY <1>1, <2>1, <2>6, <3>3, AlertObserved
      <4>2. Priority[obs.level] \in Int
        BY <3>1, Priorities DEF ActiveLevels
      <4> QED
        BY <3>1, <4>1, <4>2
    <3> QED
      BY <3>2, <3>3
  <2> QED
    BY <2>3, <2>4, <2>5, <2>6 DEF HistoryInv, LifecycleMatchesObservation
<1>3. ASSUME NEW isNew \in BOOLEAN, Updated(isNew), ~Observed(isNew)
      PROVE  HistoryInv'
  <2>1. history' = history /\ phase' # "stopped"
    BY <1>3, UpdateDoesNotObserve DEF Updated, trackerVars
  <2>2. real'.valid => real.valid /\ real.level = real'.level
    BY <1>1, <1>3, KnownState
  <2> QED
    BY <1>1, <2>1, <2>2
    DEF HistoryInv, LifecycleMatchesObservation, TestsLeaveHistoryAlone
<1>4. CASE \/ Quiet
           \/ \E level \in scenario.tests, codes \in SUBSET scenario.types :
                SetTestOverride(level, codes)
           \/ ClearTestOverride
           \/ \E ok \in BOOLEAN : SaveEnds(ok)
  <2>1. history' = history /\ real' = real
    BY <1>4
    DEF Quiet, SetTestOverride, ClearTestOverride, SaveEnds, trackerVars, stateVars
  <2>2. phase' = "stopped" => phase = "stopped"
    BY <1>4 DEF Quiet, SetTestOverride, ClearTestOverride, SaveEnds
  <2> QED
    BY <1>1, <2>1, <2>2
    DEF HistoryInv, LifecycleMatchesObservation, TestsLeaveHistoryAlone
<1>5. ASSUME NEW loads \in BOOLEAN, Start(loads)
      PROVE  HistoryInv'
  <2>1. history'.baseline = FALSE /\ phase' # "stopped"
    BY <1>5 DEF Start, NewCoordinator, NewHistory
  <2> QED
    BY <2>1 DEF HistoryInv, LifecycleMatchesObservation, TestsLeaveHistoryAlone
<1>6. CASE Stopped \/ Crash
  <2>1. history'.baseline = FALSE /\ history'.active = None
    BY <1>6 DEF Stopped, Crash, Vanish, NewCoordinator, NewHistory, EmptyStore
  <2> QED
    BY <2>1 DEF HistoryInv, LifecycleMatchesObservation, TestsLeaveHistoryAlone
<1> QED
  BY <1>1, <1>2, <1>3, <1>4, <1>5, <1>6, StepKinds

-----------------------------------------------------------------------------
(* The two trackers of one alert.                                          *)

LEMMA AgreementObserved ==
  ASSUME TypeOK, Ticks, HistoryInv, AgreementInv, NEW obs, ObservedStep(obs)
  PROVE  /\ history'.baseline = alertLatency'.baseline
         /\ history'.last = alertLatency'.last
         /\ SameAlert(history'.active, alertLatency'.measurement)
<1>1. /\ obs \in Observations /\ scenario \in Scenarios
      /\ history \in Histories /\ alertLatency \in AlertLatencies
      /\ obs.received \in Nat
  BY TypesOfParts, ScenarioValues DEF ObservedStep, Observations
<1>2. /\ alertLatency'.baseline = TRUE
      /\ alertLatency'.last = obs.level
      /\ alertLatency'.measurement = IF AlertMeasurable(alertLatency, obs)
                                     THEN [start |-> obs.start, level |-> obs.level]
                                     ELSE alertLatency.measurement
  BY <1>1, AlertLatencyObserved DEF ObservedStep
<1>3. /\ history'.baseline = TRUE
      /\ history'.last = obs.level
      /\ obs.level = "clear" => history'.active = None
  BY AlertObserved
<1>4. CASE history.active # None /\ obs.level # "clear"
  <2>1. history'.active.start = history.active.start
    <3>1. history.active \in Lifecycles /\ obs.level \in ActiveLevels
      BY <1>1, <1>4 DEF Histories, Observations, Levels, ActiveLevels
    <3>2. history'.active = RaisedTo(history.active, obs.level)
      BY <1>4, AlertObserved
    <3> QED
      BY <1>1, <1>4, <3>1, <3>2, Raised
  <2>2. ~AlertMeasurable(alertLatency, obs)
    BY <1>4 DEF AlertMeasurable, AgreementInv, HistoryInv, LifecycleMatchesObservation
  <2> QED
    BY <1>2, <1>3, <1>4, <2>1, <2>2 DEF AgreementInv, SameAlert
<1>5. CASE history.active = None /\ history'.active # None
  <2>1. /\ HistoryStarts(history, obs)
        /\ history'.active = [start |-> obs.start, max |-> obs.level]
    BY <1>5, AlertObserved
  <2>2. ASSUME obs.start = 0
        PROVE  alertLatency'.measurement = [start |-> 0, level |-> obs.level]
    BY <1>1, <1>2, <2>1, <2>2
    DEF HistoryStarts, AlertMeasurable, AgreementInv, NoTime
  <2>3. ASSUME obs.start = 0
        PROVE  [start |-> 0, level |-> obs.level] # None
    <3>1. 0 \in Times /\ obs.level \in ActiveLevels
      BY <1>1, <2>1, <2>3
      DEF HistoryStarts, Observations, Times, NoTime, Levels, ActiveLevels
    <3> QED
      BY <1>1, <3>1, NoneIsNone
  <2>4. history'.active.start = obs.start
    BY <2>1
  <2>5. SameAlert(history'.active, alertLatency'.measurement)
    BY <2>2, <2>3, <2>4 DEF SameAlert
  <2> QED
    BY <1>2, <1>3, <2>5
<1>6. CASE history'.active = None
  BY <1>2, <1>3, <1>6 DEF SameAlert
<1> QED
  BY <1>3, <1>4, <1>5, <1>6

LEMMA AgreementStep ==
  ASSUME CoordinatorInv, [Next]_vars
  PROVE  AgreementInv'
<1>1. TypeOK /\ HistoryInv /\ AgreementInv /\ Ticks
  BY TicksAlways DEF CoordinatorInv
<1>2. ASSUME NEW isNew \in BOOLEAN, Updated(isNew), Observed(isNew)
      PROVE  AgreementInv'
  <2> DEFINE obs == Observation(Evaluated(runtime'), runtime')
  <2>1. ObservedStep(obs)
    BY <1>1, <1>2, UpdateObserves
  <2> HIDE DEF obs
  <2>2. /\ history'.baseline = alertLatency'.baseline
        /\ history'.last = alertLatency'.last
        /\ SameAlert(history'.active, alertLatency'.measurement)
    BY <1>1, <2>1, AgreementObserved
  <2>3. /\ Current'.active = history'.active
        /\ Current'.alert = alertLatency'.measurement
    BY DEF Current, ValuesOf
  <2>4. saving' \in {saving, Current'}
    BY <2>1 DEF ObservedStep, ScheduleSave
  <2>5. store' = store
    BY <1>2 DEF Updated, HandleUpdate
  <2> QED
    BY <1>1, <2>2, <2>3, <2>4, <2>5 DEF AgreementInv
<1>3. ASSUME NEW isNew \in BOOLEAN, Updated(isNew), ~Observed(isNew)
      PROVE  AgreementInv'
  <2>1. UNCHANGED <<trackerVars, saving, store>>
    BY <1>3, UpdateDoesNotObserve DEF Updated, HandleUpdate
  <2> QED
    BY <1>1, <2>1 DEF AgreementInv, trackerVars
<1>4. CASE \/ Quiet
           \/ \E level \in scenario.tests, codes \in SUBSET scenario.types :
                SetTestOverride(level, codes)
           \/ ClearTestOverride
  <2>1. UNCHANGED <<trackerVars, saving, store>>
    BY <1>4 DEF Quiet, SetTestOverride, ClearTestOverride, saveVars
  <2> QED
    BY <1>1, <2>1 DEF AgreementInv, trackerVars
<1>5. ASSUME NEW ok \in BOOLEAN, SaveEnds(ok)
      PROVE  AgreementInv'
  <2>1. /\ UNCHANGED trackerVars
        /\ saving # None
        /\ store' \in {store, saving}
        /\ saving' \in {Current, None}
    BY <1>5 DEF SaveEnds
  <2> QED
    BY <1>1, <2>1 DEF AgreementInv, trackerVars, Current, ValuesOf
<1>6. ASSUME NEW restored, NewCoordinator(restored), restored \in {store, EmptyStore},
             store' \in {store} \cup ({saving} \ {None}), saving' \in {saving, None}
      PROVE  AgreementInv'
  <2>1. SameAlert(restored.active, restored.alert)
    BY <1>1, <1>6 DEF AgreementInv, SameAlert, EmptyStore
  <2>2. /\ history'.baseline = FALSE /\ alertLatency'.baseline = FALSE
        /\ history'.last = None /\ alertLatency'.last = None
        /\ history'.active = restored.active
        /\ alertLatency'.measurement = restored.alert
    BY <1>6 DEF NewCoordinator, NewHistory, NewAlertLatency
  <2> QED
    BY <1>1, <1>6, <2>1, <2>2 DEF AgreementInv
<1>7. CASE \E loads \in BOOLEAN : Start(loads)
  BY <1>6, <1>7 DEF Start
<1>8. CASE Stopped \/ Crash
  BY <1>6, <1>8 DEF Stopped, Crash, Vanish
<1> QED
  BY <1>1, <1>2, <1>3, <1>4, <1>5, <1>7, <1>8, StepKinds

-----------------------------------------------------------------------------
(* The storage.                                                            *)

LEMMA SavingStep ==
  ASSUME CoordinatorInv, [Next]_vars
  PROVE  SavingInv'
<1>1. TypeOK /\ SavingInv /\ Ticks
  BY TicksAlways DEF CoordinatorInv
<1>2. ASSUME NEW isNew \in BOOLEAN, Updated(isNew), Observed(isNew)
      PROVE  SavingInv'
  <2> DEFINE obs == Observation(Evaluated(runtime'), runtime')
  <2>1. ObservedStep(obs)
    BY <1>1, <1>2, UpdateObserves
  <2> HIDE DEF obs
  <2>2. Current' # None
    BY <1>1, <2>1, ObservationKeepsTypes, TypesOfParts, NoneIsNone
  <2>3. /\ phase # "stopped" /\ phase' # "stopped"
        /\ store' = store /\ storeBehind' = storeBehind
    BY <1>2 DEF Updated, HandleUpdate
  <2>4. CASE Current' # Current
    BY <1>1, <2>1, <2>2, <2>3, <2>4
    DEF ObservedStep, ScheduleSave, SavingInv, StorageIsCurrent
  <2>5. CASE Current' = Current
    BY <1>1, <2>1, <2>3, <2>5 DEF ObservedStep, SavingInv, StorageIsCurrent
  <2> QED
    BY <2>4, <2>5
<1>3. ASSUME NEW isNew \in BOOLEAN, Updated(isNew), ~Observed(isNew)
      PROVE  SavingInv'
  <2>1. /\ UNCHANGED <<trackerVars, dirty, saving, store, storeBehind>>
        /\ phase # "stopped" /\ phase' # "stopped"
    BY <1>3, UpdateDoesNotObserve DEF Updated, HandleUpdate
  <2> QED
    BY <1>1, <2>1
    DEF SavingInv, StorageIsCurrent, trackerVars, Current, ValuesOf
<1>4. CASE \/ Quiet
           \/ \E level \in scenario.tests, codes \in SUBSET scenario.types :
                SetTestOverride(level, codes)
           \/ ClearTestOverride
  <2>1. /\ UNCHANGED <<trackerVars, dirty, saving, store, storeBehind>>
        /\ phase' = "stopped" <=> phase = "stopped"
    BY <1>4 DEF Quiet, SetTestOverride, ClearTestOverride, saveVars
  <2> QED
    BY <1>1, <2>1 DEF SavingInv, StorageIsCurrent, trackerVars, Current, ValuesOf
<1>5. ASSUME NEW ok \in BOOLEAN, SaveEnds(ok)
      PROVE  SavingInv'
  <2>1. Current' = Current /\ Current # None
    BY <1>1, <1>5, TypesOfParts, NoneIsNone
    DEF SaveEnds, trackerVars, Current, ValuesOf
  <2>2. /\ saving # None /\ phase' = phase
        /\ store' = IF ok THEN saving ELSE store
        /\ storeBehind' = ~ok
        /\ saving' = IF dirty THEN Current ELSE None
        /\ dirty' = FALSE
    BY <1>5 DEF SaveEnds
  <2> QED
    BY <1>1, <2>1, <2>2 DEF SavingInv, StorageIsCurrent
<1>6. ASSUME NEW loads \in BOOLEAN, Start(loads)
      PROVE  SavingInv'
  <2>1. /\ phase = "stopped" /\ phase' = "starting"
        /\ UNCHANGED <<dirty, saving, store>>
        /\ storeBehind' = ~loads
    BY <1>6 DEF Start
  <2>2. loads => Current' = store
    BY <1>1, <1>6, NewTrackers DEF Start, NewCoordinator, Current, TypeOK
  <2> QED
    BY <1>1, <2>1, <2>2 DEF SavingInv, StorageIsCurrent
<1>7. CASE Stopped \/ Crash
  BY <1>7 DEF Stopped, Crash, Vanish, SavingInv, StorageIsCurrent
<1> QED
  BY <1>1, <1>2, <1>3, <1>4, <1>5, <1>6, <1>7, StepKinds

-----------------------------------------------------------------------------
(* The peak.                                                               *)

LEMMA PeakWatched ==
  ASSUME NEW obs, ObservedStep(obs)
  PROVE  /\ history.active = None /\ history'.active # None => peak'.seen = obs.level
         /\ history.active # None /\ history'.active # None =>
              peak'.seen = IF Priority[obs.level] > Priority[peak.seen]
                           THEN obs.level ELSE peak.seen
         /\ peak'.writing = IF saving = None /\ saving' # None
                            THEN peak'.seen ELSE peak.writing
         /\ peak'.written = peak.written
<1> DEFINE highest ==
             CASE history'.active = None -> None
               [] history'.active # None /\ history.active = None -> obs.level
               [] OTHER -> IF Priority[obs.level] > Priority[peak.seen]
                           THEN obs.level ELSE peak.seen
<1>1. WatchPeak(obs, history')
  BY DEF ObservedStep, Watch
<1>2. peak' = [seen |-> highest,
               writing |-> IF saving = None /\ saving' # None
                           THEN highest ELSE peak.writing,
               written |-> peak.written]
  BY <1>1 DEF WatchPeak
<1>3. history.active = None /\ history'.active # None => highest = obs.level
  OBVIOUS
<1>4. history.active # None /\ history'.active # None =>
        highest = IF Priority[obs.level] > Priority[peak.seen]
                  THEN obs.level ELSE peak.seen
  OBVIOUS
<1> HIDE DEF highest
<1> QED
  BY <1>2, <1>3, <1>4

(* The lifecycle that is kept in memory.                                   *)
LEMMA PeakObserved ==
  ASSUME TypeOK, NEW obs, ObservedStep(obs),
         history.active # None => history.active.max = peak.seen
  PROVE  history'.active # None => history'.active.max = peak'.seen
<1>1. scenario \in Scenarios /\ history \in Histories
  BY TypesOfParts DEF TypeOK
<1>2. CASE history.active # None /\ history'.active # None
  <2>1. obs.level \in ActiveLevels /\ history.active \in Lifecycles
    BY <1>1, <1>2, AlertObserved DEF Levels, ActiveLevels, Histories
  <2>2. history'.active = RaisedTo(history.active, obs.level)
    BY <1>1, <1>2, <2>1, AlertObserved DEF ActiveLevels
  <2> QED
    BY <1>1, <1>2, <2>1, <2>2, Raised, PeakWatched
<1>3. CASE history.active = None /\ history'.active # None
  <2>1. history'.active = [start |-> obs.start, max |-> obs.level]
    BY <1>1, <1>3, AlertObserved
  <2> QED
    BY <1>3, <2>1, PeakWatched
<1> QED
  BY <1>2, <1>3

LEMMA PeakStep ==
  ASSUME CoordinatorInv, [Next]_vars
  PROVE  PeakInv'
<1>1. /\ TypeOK /\ PeakInv /\ SavingInv /\ HistoryInv /\ Ticks
      /\ scenario \in Scenarios
  BY TicksAlways, TypesOfParts DEF CoordinatorInv
<1>2. ASSUME NEW isNew \in BOOLEAN, Updated(isNew), Observed(isNew)
      PROVE  PeakInv'
  <2> DEFINE obs == Observation(Evaluated(runtime'), runtime')
  <2>1. ObservedStep(obs)
    BY <1>1, <1>2, UpdateObserves
  <2> HIDE DEF obs
  <2>2. phase # "stopped" /\ phase' # "stopped" /\ store' = store
    BY <1>2 DEF Updated, HandleUpdate
  <2>3. history'.active # None => history'.active.max = peak'.seen
    BY <1>1, <2>1, <2>2, PeakObserved DEF PeakInv, PeakSurvivesRestart
  <2>4. \/ saving' = saving
        \/ saving = None /\ saving' = Current'
    BY <2>1 DEF ObservedStep, ScheduleSave
  <2>5. /\ peak'.writing = IF saving = None /\ saving' # None
                           THEN peak'.seen ELSE peak.writing
        /\ peak'.written = peak.written
    BY <2>1, PeakWatched
  <2>6. Current'.active = history'.active
    BY DEF Current, ValuesOf
  <2>7. saving' # None /\ saving'.active # None => saving'.active.max = peak'.writing
    BY <1>1, <2>3, <2>4, <2>5, <2>6 DEF PeakInv
  <2> QED
    BY <1>1, <2>2, <2>3, <2>5, <2>7 DEF PeakInv, PeakSurvivesRestart
<1>3. ASSUME NEW isNew \in BOOLEAN, Updated(isNew), ~Observed(isNew)
      PROVE  PeakInv'
  <2>1. /\ UNCHANGED <<history, peak, saving, store>>
        /\ phase # "stopped" /\ phase' # "stopped"
    BY <1>3, UpdateDoesNotObserve DEF Updated, HandleUpdate, trackerVars, watchVars
  <2> QED
    BY <1>1, <2>1 DEF PeakInv, PeakSurvivesRestart
<1>4. CASE \/ Quiet
           \/ \E level \in scenario.tests, codes \in SUBSET scenario.types :
                SetTestOverride(level, codes)
           \/ ClearTestOverride
  <2>1. /\ UNCHANGED <<history, peak, saving, store>>
        /\ phase' = "stopped" <=> phase = "stopped"
    BY <1>4
    DEF Quiet, SetTestOverride, ClearTestOverride, trackerVars, saveVars, watchVars
  <2> QED
    BY <1>1, <2>1 DEF PeakInv, PeakSurvivesRestart
<1>5. ASSUME NEW ok \in BOOLEAN, SaveEnds(ok)
      PROVE  PeakInv'
  <2>1. /\ saving # None /\ phase' = phase /\ history' = history
        /\ store' = IF ok THEN saving ELSE store
        /\ saving' = IF dirty THEN Current ELSE None
        /\ phase # "stopped"
    BY <1>1, <1>5 DEF SaveEnds, trackerVars, SavingInv
  <2>2. /\ peak'.seen = peak.seen
        /\ dirty => peak'.writing = peak.seen
        /\ peak'.written = IF ok THEN peak.writing ELSE peak.written
    BY <1>1, <1>5 DEF SaveEnds, PeakInv
  <2>3. Current.active = history.active
    BY DEF Current, ValuesOf
  <2> QED
    BY <1>1, <2>1, <2>2, <2>3 DEF PeakInv, PeakSurvivesRestart
<1>6. ASSUME NEW loads \in BOOLEAN, Start(loads)
      PROVE  PeakInv'
  <2>1. /\ phase = "stopped" /\ phase' = "starting"
        /\ saving' = saving /\ store' = store
        /\ history'.active = IF loads THEN store.active ELSE None
    BY <1>6 DEF Start, NewCoordinator, NewHistory, EmptyStore
  <2>2. /\ loads => peak'.seen = peak.seen
        /\ peak'.writing = peak.writing
        /\ peak'.written = peak.written
    BY <1>6 DEF Start
  <2> QED
    BY <1>1, <2>1, <2>2 DEF PeakInv, PeakSurvivesRestart
<1>7. CASE Stopped
  <2>1. /\ phase = "stopping" /\ saving = None /\ saving' = None
        /\ phase' = "stopped" /\ store' = store
        /\ peak'.seen = IF storeBehind THEN peak.written ELSE peak.seen
        /\ peak'.written = peak.written
    BY <1>7 DEF Stopped, Vanish
  <2>2. ~storeBehind => store.active = history.active
    BY <1>1, <2>1 DEF SavingInv, StorageIsCurrent, Current, ValuesOf
  <2> QED
    BY <1>1, <2>1, <2>2 DEF PeakInv, PeakSurvivesRestart
<1>8. CASE Crash
  <2>1. PICK done \in {FALSE} \cup {saving # None} :
          /\ store' = IF done THEN saving ELSE store
          /\ Vanish(TRUE, IF done THEN peak.writing ELSE peak.written)
    BY <1>8 DEF Crash
  <2>2. /\ phase' = "stopped" /\ saving' = None
        /\ peak'.seen = peak'.written
        /\ peak'.written = IF done THEN peak.writing ELSE peak.written
    BY <2>1 DEF Vanish
  <2>3. done => saving # None
    BY <2>1
  <2> QED
    BY <1>1, <2>1, <2>2, <2>3 DEF PeakInv, PeakSurvivesRestart
<1> QED
  BY <1>1, <1>2, <1>3, <1>4, <1>5, <1>6, <1>7, <1>8, StepKinds

-----------------------------------------------------------------------------
(* Threats.                                                                *)

LEMMA ThreatObserved ==
  ASSUME TypeOK, ThreatInv, NEW obs, ObservedStep(obs)
  PROVE  ThreatInv'
<1> DEFINE t == threatLatency'
           visible == {Instance(threat) : threat \in obs.threats}
           taken == IF /\ threatLatency.baseline
                       /\ obs.level # "clear"
                       /\ ThreatCandidates(threatLatency, obs) # {}
                    THEN {[type |-> t.measurement.type, start |-> t.measurement.start]}
                    ELSE {}
<1>1. WatchThreats(obs, t)
  BY DEF ObservedStep, Watch
<1>2. /\ obs.level # "clear" => threatLatency.seen \cup visible \subseteq t.seen
      /\ /\ threatLatency.baseline
         /\ obs.level # "clear"
         /\ ThreatCandidates(threatLatency, obs) # {}
         => /\ t.measurement = [type |-> t.measurement.type,
                                start |-> t.measurement.start]
            /\ t.measurement \notin threatLatency.seen
            /\ t.measurement \in t.seen
  BY TypesOfParts, ThreatLatencyObserved DEF ObservedStep
<1>3. /\ measuredNow' = IF obs.level = "clear" THEN {} ELSE measuredNow \cup taken
      /\ forgotten' = IF obs.level = "clear" THEN {} ELSE forgotten \ visible
      /\ repeated' = CASE taken \cap (measuredNow \ forgotten) # {} -> "in_alert"
                       [] repeated = "no" /\ taken \cap measured # {} -> "in_session"
                       [] OTHER -> repeated
  BY <1>1 DEF WatchThreats
<1>4. taken \cap threatLatency.seen = {} /\ taken \subseteq t.seen
  BY <1>2
<1> HIDE DEF t, taken, visible
<1>5. taken \cap (measuredNow \ forgotten) = {}
  BY <1>4 DEF ThreatInv
<1>6. repeated' # "in_alert"
  <2>1. repeated' \in {"in_session", repeated}
    BY <1>3, <1>5
  <2> QED
    BY <2>1 DEF ThreatInv, ThreatMeasuredOncePerAlert
<1>7. measuredNow' \ forgotten' \subseteq t.seen
  BY <1>2, <1>3, <1>4 DEF ThreatInv
<1> QED
  BY <1>6, <1>7 DEF ThreatInv, ThreatMeasuredOncePerAlert, t

LEMMA ThreatStep ==
  ASSUME CoordinatorInv, [Next]_vars
  PROVE  ThreatInv'
<1>1. TypeOK /\ ThreatInv /\ Ticks
  BY TicksAlways DEF CoordinatorInv
<1>2. ASSUME NEW isNew \in BOOLEAN, Updated(isNew), Observed(isNew)
      PROVE  ThreatInv'
  BY <1>1, <1>2, UpdateObserves, ThreatObserved
<1>3. ASSUME NEW isNew \in BOOLEAN, Updated(isNew), ~Observed(isNew)
      PROVE  ThreatInv'
  BY <1>1, <1>3, UpdateDoesNotObserve
  DEF ThreatInv, ThreatMeasuredOncePerAlert, trackerVars, watchVars
<1>4. CASE \/ Quiet
           \/ \E level \in scenario.tests, codes \in SUBSET scenario.types :
                SetTestOverride(level, codes)
           \/ ClearTestOverride
           \/ \E ok \in BOOLEAN : SaveEnds(ok)
  <2>1. UNCHANGED <<trackerVars, measuredNow, forgotten, repeated>>
    BY <1>4 DEF Quiet, SetTestOverride, ClearTestOverride, SaveEnds, watchVars
  <2> QED
    BY <1>1, <2>1 DEF ThreatInv, ThreatMeasuredOncePerAlert, trackerVars
<1>5. CASE \/ \E loads \in BOOLEAN : Start(loads)
           \/ Stopped
           \/ Crash
  <2>1. /\ measuredNow' = measuredNow /\ forgotten' = measuredNow
        /\ repeated' = repeated
    BY <1>5 DEF Start, Stopped, Crash, Vanish, NewCoordinator
  <2> QED
    BY <1>1, <2>1 DEF ThreatInv, ThreatMeasuredOncePerAlert
<1> QED
  BY <1>1, <1>2, <1>3, <1>4, <1>5, StepKinds

-----------------------------------------------------------------------------
(* Health.                                                                 *)

LEMMA HealthCodes ==
  ASSUME NEW state, NEW rt \in Runtimes
  PROVE  LET code == HealthCode(state, rt)
         IN  /\ code \in {"source_error", "data_error", "delayed", "normal"}
             /\ ~state.available => code = "source_error"
             /\ code = "data_error" => state.available /\ ~state.valid
             /\ code \in {"delayed", "normal"} =>
                  state.available /\ state.valid /\ rt.errors = 0
<1>1. rt.errors > 0 <=> rt.errors # 0
  BY DEF Runtimes
<1>2. CASE rt.errors # 0 \/ ~state.available
  <2>1. HealthCode(state, rt) = "source_error"
    BY <1>1, <1>2, Zenon DEF HealthCode
  <2> QED
    BY <2>1
<1>3. CASE rt.errors = 0 /\ state.available /\ ~state.valid
  <2>1. HealthCode(state, rt) = "data_error"
    BY <1>1, <1>3, Zenon DEF HealthCode
  <2> QED
    BY <1>3, <2>1
<1>4. CASE rt.errors = 0 /\ state.available /\ state.valid
  <2>1. HealthCode(state, rt) \in {"delayed", "normal"}
    BY <1>1, <1>4, Zenon DEF HealthCode
  <2> QED
    BY <1>4, <2>1
<1> QED
  BY <1>2, <1>3, <1>4

(* What the health entity tells about a problem.                           *)
LEMMA HealthProblems ==
  ASSUME NEW rt \in Runtimes, NEW state, state = Evaluated(rt),
         state.valid \in BOOLEAN
  PROVE  /\ state.valid /\ rt.errors = 0 => HealthProblem(state, rt) = None
         /\ state.available /\ ~state.valid =>
              HealthProblem(state, rt) = "unknown_level"
<1>1. rt.errors = 0 => ~(rt.errors > 0)
  OBVIOUS
<1>2. ASSUME state.valid, rt.errors = 0
      PROVE  HealthProblem(state, rt) = None
  BY <1>1, <1>2, Zenon DEF HealthProblem
<1>3. ASSUME state.available, ~state.valid
      PROVE  HealthProblem(state, rt) = "unknown_level"
  <2> DEFINE verdict == IF rt.verdict = None THEN InvalidVerdict({}) ELSE rt.verdict
  <2>1. /\ rt.verdict # None
        /\ verdict.valid = state.valid
        /\ state.error = DataError(rt, verdict)
    BY <1>3 DEF Evaluated
  <2>2. HealthProblem(state, rt) = state.error
    BY <1>3, Zenon DEF HealthProblem
  <2>3. ~verdict.valid
    BY <1>3, <2>1
  <2> HIDE DEF verdict
  <2>4. DataError(rt, verdict) = "unknown_level"
    BY <2>1, <2>3, Zenon DEF DataError
  <2> QED
    BY <2>1, <2>2, <2>4
<1> QED
  BY <1>2, <1>3

LEMMA Sampled ==
  ASSUME HealthAttributesMatch, NEW rt \in Runtimes, NEW state,
         state = Evaluated(rt), state.valid \in BOOLEAN,
         NEW changed, NEW due, NEW sample,
         sample = SampledDetails(state, rt, changed, due), sample # None
  PROVE  /\ sample.code = HealthCode(state, rt)
         /\ sample.code \in {"normal", "delayed"} =>
              sample.errors = 0 /\ sample.problem = None
         /\ sample.code = "data_error" => sample.problem = "unknown_level"
<1> DEFINE code == HealthCode(state, rt)
           problem == HealthProblem(state, rt)
<1>1. /\ code = "data_error" => problem = "unknown_level"
      /\ code \in {"normal", "delayed"} => problem = None /\ rt.errors = 0
  BY HealthCodes, HealthProblems
<1>2. \/ sample = [code |-> code, problem |-> problem, errors |-> rt.errors]
      \/ /\ sample = details
         /\ details # None
         /\ details.code = code
         /\ details.problem = problem
  BY DEF SampledDetails
<1> HIDE DEF code, problem
<1>3. CASE sample = [code |-> code, problem |-> problem, errors |-> rt.errors]
  BY <1>1, <1>3 DEF code
<1>4. CASE sample = details /\ details # None /\ details.code = code
  BY <1>4 DEF HealthAttributesMatch, code
<1> QED
  BY <1>2, <1>3, <1>4

LEMMA HealthStep ==
  ASSUME CoordinatorInv, [Next]_vars
  PROVE  HealthInv'
<1>1. TypeOK /\ HealthInv /\ Ticks /\ scenario \in Scenarios
  BY TicksAlways DEF CoordinatorInv, TypeOK
<1>2. ASSUME NEW isNew \in BOOLEAN, Updated(isNew)
      PROVE  HealthInv'
  <2> DEFINE state == Evaluated(runtime')
  <2>1. runtime' \in Runtimes
    BY <1>1 DEF Ticks
  <2>2. /\ real'.valid = state.valid
        /\ real'.available = state.available
        /\ real'.health = HealthCode(state, runtime')
        /\ real'.last = LastMeasurements(history', alertLatency', threatLatency')
    <3>1. /\ Judged(runtime').valid = state.valid
          /\ state.available = (runtime'.verdict # None /\ runtime'.available)
      BY DEF Evaluated, Judged
    <3> QED
      BY <1>2, <3>1, UpdateIsShown DEF Updated
  <2>3. state.valid \in BOOLEAN
    BY <1>1, <2>1, JudgedIsConsistent DEF Evaluated, Judged
  <2>4. PICK changed, due \in BOOLEAN :
          details' = SampledDetails(state, runtime', changed, due)
    BY <1>2 DEF Updated, HandleUpdate
  <2> HIDE DEF state
  <2>5. HealthAttributesMatch'
    <3>1. HealthAttributesMatch
      BY <1>1 DEF HealthInv
    <3> QED
      BY <2>1, <2>2, <2>3, <2>4, <3>1, Sampled DEF HealthAttributesMatch, state
  <2>6. /\ ~real'.available => real'.health = "source_error"
        /\ real'.health = "data_error" => real'.available /\ ~real'.valid
        /\ ~real'.available \/ ~real'.valid =>
             real'.health \in {"source_error", "data_error"}
    BY <2>1, <2>2, HealthCodes
  <2> QED
    BY <2>2, <2>5, <2>6 DEF HealthInv
<1>3. CASE \/ Quiet
           \/ \E level \in scenario.tests, codes \in SUBSET scenario.types :
                SetTestOverride(level, codes)
           \/ ClearTestOverride
           \/ \E ok \in BOOLEAN : SaveEnds(ok)
  <2>1. UNCHANGED <<real, details, trackerVars>>
    BY <1>3 DEF Quiet, SetTestOverride, ClearTestOverride, SaveEnds, stateVars
  <2>2. phase' = "running" => phase = "running"
    BY <1>3 DEF Quiet, SetTestOverride, ClearTestOverride, SaveEnds
  <2> QED
    BY <1>1, <2>1, <2>2
    DEF HealthInv, HealthAttributesMatch, LastMeasurements, trackerVars
<1>4. CASE \/ \E loads \in BOOLEAN : Start(loads)
           \/ Stopped
           \/ Crash
  BY <1>4
  DEF Start, Stopped, Crash, Vanish, NewCoordinator, HealthInv, HealthAttributesMatch
<1> QED
  BY <1>1, <1>2, <1>3, <1>4, StepKinds

-----------------------------------------------------------------------------
(* Always.                                                                 *)

LEMMA InitIsFine == Init => CoordinatorInv
<1> SUFFICES ASSUME Init PROVE CoordinatorInv
  OBVIOUS
<1>1. scenario \in Scenarios /\ scenario.end \in Nat
  BY ScenarioValues DEF Init
<1>2. TypeOK
  <2>1. EmptyStore \in Stores
    BY EmptyIsAStore
  <2>2. runtime \in Runtimes
    BY <1>1 DEF Init, NewRuntime, Runtimes
  <2>3. /\ history \in Histories
        /\ alertLatency \in AlertLatencies
        /\ threatLatency \in ThreatLatencies
    BY <2>1, NewTrackers DEF Init
  <2>4. now \in 0..scenario.end
    BY <1>1 DEF Init
  <2>5. /\ phase = "stopped" /\ fresh \in BOOLEAN
        /\ override = None /\ baseline \in BOOLEAN
        /\ lastLevel \in Levels0 /\ lastAvailable = None
        /\ dirty \in BOOLEAN /\ saving = None /\ store = EmptyStore
    BY DEF Init, Levels0
  <2> QED
    BY <1>1, <2>1, <2>2, <2>3, <2>4, <2>5
    DEF TypeOK, Runtimes, Histories, AlertLatencies, ThreatLatencies
<1>3. /\ real = InitialState /\ exposed = InitialState /\ override = None
      /\ history.active = None /\ history.baseline = FALSE
      /\ history.last = None /\ alertLatency.last = None
      /\ alertLatency.baseline = FALSE
      /\ store = EmptyStore /\ store.active = None
  BY DEF Init, NewHistory, NewAlertLatency, EmptyStore
<1>4. SourceInv
  BY DEF Init, SourceInv, Handled
<1>5. ShownInv
  BY <1>1, <1>3, NewStateIsConsistent, NoOverlay DEF ShownInv
<1>6. EventsInv
  BY DEF Init, EventsInv
<1>7. HistoryInv
  BY <1>3 DEF HistoryInv, LifecycleMatchesObservation, TestsLeaveHistoryAlone
<1>8. AgreementInv
  BY <1>3 DEF Init, AgreementInv, SameAlert
<1>9. SavingInv /\ PeakInv
  BY <1>3 DEF Init, SavingInv, StorageIsCurrent, PeakInv, PeakSurvivesRestart, NoPeak
<1>10. ThreatInv /\ HealthInv
  BY DEF Init, ThreatInv, ThreatMeasuredOncePerAlert, HealthInv, HealthAttributesMatch
<1> QED
  BY <1>2, <1>4, <1>5, <1>6, <1>7, <1>8, <1>9, <1>10 DEF CoordinatorInv

LEMMA CoordinatorStep == CoordinatorInv /\ [Next]_vars => CoordinatorInv'
<1> SUFFICES ASSUME CoordinatorInv, [Next]_vars PROVE CoordinatorInv'
  OBVIOUS
<1>1. TypeOK'
  BY TypesStep DEF CoordinatorInv
<1> QED
  BY <1>1, SourceStep, ShownStep, EventsStep, HistoryStep, AgreementStep,
     SavingStep, PeakStep, ThreatStep, HealthStep
  DEF CoordinatorInv

LEMMA CoordinatorAlways == Spec => []CoordinatorInv
  BY InitIsFine, CoordinatorStep, PTL DEF Spec

(* models.py, coordinator.py: trackers, storage and runtime hold what      *)
(* their types promise, whatever the source sends.                         *)
THEOREM TypeCorrect == Spec => []TypeOK
  BY CoordinatorAlways, PTL DEF CoordinatorInv

(* _process_effective_events: events leave out no change of what is shown. *)
THEOREM EventsAreComplete == Spec => []EventsTellWhatIsShown
<1>1. CoordinatorInv => EventsTellWhatIsShown
  <2> SUFFICES ASSUME CoordinatorInv, baseline, exposed.level # None
               PROVE  heard = [level |-> exposed.level, threats |-> exposed.threats]
    BY DEF EventsTellWhatIsShown
  <2>1. override = None => exposed = real
    BY NoOverlay DEF CoordinatorInv, ShownInv
  <2> QED
    BY <2>1 DEF CoordinatorInv, EventsInv
<1> QED
  BY <1>1, CoordinatorAlways, PTL

(* ThreatLatencyTracker: nothing is measured again during one alert, over  *)
(* restarts too, but what a restart made it forget and nobody saw since.   *)
THEOREM ThreatsMeasuredOnce == Spec => []ThreatMeasuredOncePerAlert
  BY CoordinatorAlways, PTL DEF CoordinatorInv, ThreatInv

(* _async_save_latency_loop: the file ends up with the latest values.      *)
THEOREM StorageCatchesUp == Spec => []StorageIsCurrent
  BY CoordinatorAlways, PTL DEF CoordinatorInv, SavingInv

(* AlertHistoryTracker and AlertLatencyTracker see the same alert start.   *)
THEOREM TrackersStayTogether == Spec => []TrackersAgree
<1>1. CoordinatorInv => TrackersAgree
  BY DEF CoordinatorInv, AgreementInv, SameAlert, TrackersAgree
<1> QED
  BY <1>1, CoordinatorAlways, PTL

(* set_test_override: the history follows the source, not the tests.       *)
THEOREM HistoryFollowsSource == Spec => []HistoryMatchesSource
  BY CoordinatorAlways, PTL DEF CoordinatorInv, HistoryInv, HistoryMatchesSource

(* LastAlertMeasurement: no peak is lost in stops, restarts and crashes.   *)
THEOREM PeakIsKept == Spec => []PeakSurvivesRestart
  BY CoordinatorAlways, PTL DEF CoordinatorInv, PeakInv

-----------------------------------------------------------------------------
(* Entities.                                                               *)

(* sensor.py, binary_sensor.py: entities that are shown together never     *)
(* contradict each other, nor the health attributes.                       *)
THEOREM EntitiesNeverContradict == Spec => []EntitiesAgree
<1>1. ASSUME CoordinatorInv, Shown
      PROVE  AlertEntitiesAgree
  <2>1. /\ StateRecord(real) /\ real.test = FALSE
        /\ real.valid \in BOOLEAN /\ real.available \in BOOLEAN
        /\ Consistent(real)
        /\ exposed = Overlay(real, override)
        /\ override # None => override.level \in Levels
        /\ override # None /\ override.level = "clear" => override.codes = {}
        /\ None \notin Levels /\ None \notin Coverages
    BY <1>1, NoneIsNone DEF CoordinatorInv, TypeOK, ShownInv
  <2>2. /\ ~real.available => real.health = "source_error"
        /\ real.health = "data_error" => real.available /\ ~real.valid
        /\ ~real.available \/ ~real.valid =>
             real.health \in {"source_error", "data_error"}
    BY <1>1 DEF CoordinatorInv, HealthInv, Shown
  <2>3. CASE override = None
    <3>1. exposed = real
      BY <2>1, <2>3, NoOverlay
    <3>2. CASE real.available /\ real.valid
      <4>1. /\ exposed.level \in Levels /\ exposed.level # None
            /\ exposed.coverage \in Coverages
            /\ exposed.coverage = "none" <=> exposed.level = "clear"
            /\ exposed.level = "clear" => exposed.threats = {}
        BY <2>1, <3>1, <3>2 DEF Consistent
      <4>2. exposed.level \in ActiveLevels <=> exposed.level # "clear"
        BY <4>1 DEF Levels, ActiveLevels
      <4>3. exposed.level = "clear" => {th.type : th \in exposed.threats} = {}
        BY <4>1
      <4> QED
        BY <2>1, <2>2, <3>1, <3>2, <4>1, <4>2, <4>3
        DEF AlertEntitiesAgree, AlertLevel, AirAlert, AlertCoverage, ThreatCodes,
            SourceAvailable, DataHealth, Operational, OperationalAvailable, AlwaysThere
    <3>3. CASE ~real.available \/ ~real.valid
      BY <2>1, <2>2, <3>1, <3>3
      DEF AlertEntitiesAgree, AlertLevel, AirAlert, AlertCoverage, ThreatCodes,
          SourceAvailable, DataHealth, Operational, OperationalAvailable, AlwaysThere
    <3> QED
      BY <2>1, <3>2, <3>3
  <2>4. CASE override # None
    <3>1. /\ exposed.test = TRUE
          /\ exposed.level = override.level /\ exposed.level \in Levels
          /\ exposed.coverage = IF exposed.level = "clear" THEN "none" ELSE "full"
          /\ exposed.threats = TestThreats(override)
          /\ exposed.health = real.health
          /\ exposed.available = real.available
      <4>1. exposed = Overlay(real, override) /\ StateRecord(real)
        BY <2>1
      <4>2. /\ exposed.test = TRUE
            /\ exposed.level = override.level
            /\ exposed.coverage = IF override.level = "clear" THEN "none" ELSE "full"
            /\ exposed.threats = TestThreats(override)
            /\ exposed.health = real.health
            /\ exposed.available = real.available
        BY <2>4, <4>1, OverlayFields
      <4> QED
        BY <2>1, <2>4, <4>2
    <3>2. exposed.level \in ActiveLevels <=> exposed.level # "clear"
      BY <3>1 DEF Levels, ActiveLevels
    <3>3. exposed.level = "clear" => {th.type : th \in exposed.threats} = {}
      BY <2>1, <2>4, <3>1 DEF TestThreats
    <3>4. exposed.coverage # None
      BY <2>1, <3>1 DEF Coverages
    <3> QED
      BY <2>2, <3>1, <3>2, <3>3, <3>4
      DEF AlertEntitiesAgree, AlertLevel, AirAlert, AlertCoverage, ThreatCodes,
          SourceAvailable, DataHealth, Operational, OperationalAvailable, AlwaysThere
  <2> QED
    BY <2>3, <2>4
<1>2. CoordinatorInv => EntitiesAgree
  BY <1>1 DEF AlertEntitiesAgree, EntitiesAgree, CoordinatorInv, HealthInv
<1> QED
  BY <1>2, CoordinatorAlways, PTL

(* The sensors of the last measurements show what the trackers have.       *)
THEOREM MeasurementsAreShown == Spec => []RememberedIsShown
<1>1. ASSUME CoordinatorInv, Shown
      PROVE  exposed.last = LastMeasurements(history, alertLatency, threatLatency)
  <2>1. exposed.last = real.last
    <3>1. exposed = Overlay(real, override) /\ StateRecord(real)
      BY <1>1 DEF CoordinatorInv, ShownInv
    <3>2. CASE override = None
      BY <3>1, <3>2, NoOverlay
    <3>3. CASE override # None
      BY <3>1, <3>3, OverlayFields
    <3> QED
      BY <3>2, <3>3
  <2> QED
    BY <1>1, <2>1 DEF CoordinatorInv, HealthInv, Shown
<1>2. CoordinatorInv => RememberedIsShown
  BY <1>1
  DEF RememberedIsShown, LastMeasurements, LastAlert, LastAlertLag, LastThreatLag,
      Remembered
<1> QED
  BY <1>2, CoordinatorAlways, PTL

-----------------------------------------------------------------------------
(* A failed cycle never means clear.                                       *)

LEMMA ClearIsReportedStep ==
  ASSUME CoordinatorInv, CoordinatorInv', [Next]_vars
  PROVE  ShownClearIsReported
<1> SUFFICES ASSUME phase' = "running", exposed'.level = "clear", override' = None
             PROVE  runtime'.verdict = ClearVerdict
  BY DEF ShownClearIsReported
<1>1. exposed' = real'
  BY NoOverlay DEF CoordinatorInv, ShownInv
<1>2. real'.level = Judged(runtime').level
  BY DEF CoordinatorInv, SourceInv, Handled
<1>3. scenario \in Scenarios /\ runtime' \in Runtimes
  BY TicksAlways DEF CoordinatorInv, TypeOK, Ticks
<1> QED
  BY <1>1, <1>2, <1>3, JudgedIsConsistent

LEMMA AlertEndStep ==
  ASSUME CoordinatorInv, [Next]_vars
  PROVE  AlertEndIsReported
<1> SUFFICES ASSUME phase' # "stopped", history.active # None, history'.active = None
             PROVE  fresh' = FALSE /\ runtime'.verdict = ClearVerdict
  BY DEF AlertEndIsReported
<1>1. /\ TypeOK /\ Ticks /\ scenario \in Scenarios
      /\ history \in Histories /\ runtime' \in Runtimes
  BY TicksAlways, TypesOfParts DEF CoordinatorInv, Ticks
<1>2. ASSUME NEW isNew \in BOOLEAN, Updated(isNew), Observed(isNew)
      PROVE  fresh' = FALSE /\ runtime'.verdict = ClearVerdict
  <2> DEFINE obs == Observation(Evaluated(runtime'), runtime')
  <2>1. ObservedStep(obs)
    BY <1>1, <1>2, UpdateObserves
  <2> HIDE DEF obs
  <2>2. obs.level = "clear"
    <3> SUFFICES ASSUME obs.level # "clear" PROVE FALSE
      OBVIOUS
    <3>1. obs.level \in ActiveLevels /\ history.active \in Lifecycles
      BY <1>1, <2>1, AlertObserved DEF Levels, ActiveLevels, Histories
    <3>2. history'.active = RaisedTo(history.active, obs.level)
      BY <1>1, <2>1, AlertObserved
    <3> QED
      BY <1>1, <3>1, <3>2, Raised
  <2>3. Judged(runtime').level = "clear"
    BY <2>1, <2>2 DEF ObservedStep
  <2> QED
    BY <1>1, <1>2, <2>3, JudgedIsConsistent, UpdateIsShown DEF Updated
<1>3. ASSUME NEW isNew \in BOOLEAN, Updated(isNew), ~Observed(isNew)
      PROVE  FALSE
  BY <1>3, UpdateDoesNotObserve DEF trackerVars
<1>4. CASE \/ Quiet
           \/ \E level \in scenario.tests, codes \in SUBSET scenario.types :
                SetTestOverride(level, codes)
           \/ ClearTestOverride
           \/ \E ok \in BOOLEAN : SaveEnds(ok)
  BY <1>4
  DEF Quiet, SetTestOverride, ClearTestOverride, SaveEnds, trackerVars
<1>5. CASE \E loads \in BOOLEAN : Start(loads)
  BY <1>5 DEF Start, CoordinatorInv, HistoryInv
<1>6. CASE Stopped \/ Crash
  BY <1>6 DEF Stopped, Crash, Vanish
<1> QED
  BY <1>1, <1>2, <1>3, <1>4, <1>5, <1>6, StepKinds

(* coordinator.py: failures, invalid data and settings never end an alert. *)
THEOREM SourceAloneClears == Spec => OnlyTheSourceClears
<1>1. CoordinatorInv /\ CoordinatorInv' /\ [Next]_vars =>
        [ShownClearIsReported /\ AlertEndIsReported]_vars
  BY ClearIsReportedStep, AlertEndStep
<1> QED
  BY <1>1, CoordinatorAlways, PTL DEF Spec, OnlyTheSourceClears
=============================================================================
