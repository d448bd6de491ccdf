------------------------------- MODULE Entities ------------------------------
(***************************************************************************)
(* sensor.py and binary_sensor.py: what the entities of a territory show   *)
(* of self.data.  They keep no state; every one of them reads its own      *)
(* fields of the state, and nothing but _handle_runtime_update and the     *)
(* test overlay makes these fields belong together.                        *)
(***************************************************************************)
EXTENDS TerritoryCoordinator

(* The platforms are set up after the initial update, and unloaded first.  *)
Shown == phase = "running"

(* Mistake: a test does not make the entities available.                   *)
OperationalAvailableWithoutTest(state) ==
  state.available /\ state.valid /\ state.level # None

OperationalAvailable(state) ==
  \/ state.test
  \/ state.available /\ state.valid /\ state.level # None

(* A sensor's availability and value, given the state.                     *)
Operational(state, value) ==
  [available |-> OperationalAvailable(state), value |-> value]
Remembered(value) == [available |-> value # None, value |-> value]
AlwaysThere(value) == [available |-> TRUE, value |-> value]

AirAlert == Operational(exposed, exposed.level \in ActiveLevels)
AlertLevel == Operational(exposed, exposed.level)
AlertCoverage == Operational(exposed, exposed.coverage)
ThreatCodes == Operational(exposed, {t.type : t \in exposed.threats})
SourceAvailable == AlwaysThere(exposed.available)
DataHealth == AlwaysThere(exposed.health)
LastAlert == Remembered(exposed.last.alert)
LastAlertLag == Remembered(exposed.last.lag)
LastThreatLag == Remembered(exposed.last.threat)

-----------------------------------------------------------------------------
(* The entities never contradict each other, live or under a test: an      *)
(* alert has a level, a coverage and an air alert that is on, "clear" has  *)
(* no coverage and no threats; when the alert entities are unavailable     *)
(* the health entity says why, and it says "data_error" or shows a lost    *)
(* source beside available ones only under a test.                         *)
AlertEntitiesAgree ==
  Shown =>
    /\ AlertLevel.available =>
         /\ AlertLevel.value \in Levels
         /\ AirAlert.value <=> AlertLevel.value # "clear"
         /\ AlertCoverage.value # None
         /\ AlertCoverage.value = "none" <=> AlertLevel.value = "clear"
         /\ AlertLevel.value = "clear" => ThreatCodes.value = {}
    /\ ~AlertLevel.available => DataHealth.value \in {"source_error", "data_error"}
    /\ ~SourceAvailable.value => DataHealth.value = "source_error"
    /\ \/ ~SourceAvailable.value
       \/ DataHealth.value = "data_error"
       => AlertLevel.available = exposed.test

(* No two entities contradict each other, nor does the health entity its   *)
(* own attributes.                                                         *)
EntitiesAgree == AlertEntitiesAgree /\ HealthAttributesMatch

(* The sensors about the last alert, its lag and the last threat's lag     *)
(* show what the trackers measured, from the moment they appear: after a   *)
(* restart what was restored, during failures and tests what was last      *)
(* measured, and on the snapshot that completes a measurement already the  *)
(* new one.                                                                *)
RememberedIsShown ==
  Shown =>
    /\ LastAlert = Remembered(history.measurement)
    /\ LastAlertLag = Remembered(alertLatency.measurement)
    /\ LastThreatLag = Remembered(threatLatency.measurement)
=============================================================================
