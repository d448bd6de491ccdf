---------------------------- MODULE AlertTrackers ---------------------------
(***************************************************************************)
(* The three trackers of models.py as functions from a tracker and an      *)
(* observation to the next tracker.  An observation is what a tracker      *)
(* reads of a valid LocationState: the level, the earliest alert start     *)
(* named by the source, when the snapshot was received, and the threats.   *)
(* Measurements keep what identifies them (start, level, type); durations  *)
(* and latencies are differences of the times kept or compared here.       *)
(***************************************************************************)
EXTENDS Integers

CONSTANT None   \* Python's None: no lifecycle, no measurement, no level

NoTime == -1    \* started_at is None

Levels == {"clear", "yellow", "red"}
ActiveLevels == {"yellow", "red"}        \* VALID_ALERT_LEVELS

Coverages == {"none", "full", "partial", "mixed"}

(* What None stands beside is never None itself.                           *)
ASSUME NoneAssumption ==
  /\ None \notin Levels
  /\ None \notin Coverages
  /\ None \notin [start : Int, max : Levels]
  /\ None \notin [start : Int, level : Levels]

(* ALERT_LEVEL_PRIORITY, with 0 for clear.                                 *)
Priority == [clear |-> 0, yellow |-> 1, red |-> 2]

Instance(threat) == [type |-> threat.type, start |-> threat.start]

-----------------------------------------------------------------------------
(* AlertHistoryTracker: the alert being observed and the last whole one.   *)

NewHistory(restored) ==
  [baseline |-> FALSE, last |-> None,
   active |-> restored.active, measurement |-> restored.lastAlert]

RaisedTo(active, level) ==
  IF Priority[level] > Priority[active.max]
  THEN [active EXCEPT !.max = level] ELSE active

(* An alert that would end before it started leaves no measurement.        *)
Finished(h, received) ==
  IF received < h.active.start
  THEN [h EXCEPT !.active = None]
  ELSE [h EXCEPT !.active = None, !.measurement = h.active]

(* Mistake: an alert without a start is recorded.                          *)
HistoryStartsUndated(h, obs) ==
  h.baseline /\ h.active = None /\ h.last = "clear" /\ obs.level # "clear"

HistoryStarts(h, obs) ==
  /\ h.baseline
  /\ h.active = None
  /\ h.last = "clear"
  /\ obs.level # "clear"
  /\ obs.start # NoTime

Tracked(h, obs) ==
  CASE h.active # None /\ obs.level = "clear" -> Finished(h, obs.received)
    [] h.active # None /\ obs.level # "clear" ->
         [h EXCEPT !.active = RaisedTo(@, obs.level)]
    [] HistoryStarts(h, obs) ->
         [h EXCEPT !.active = [start |-> obs.start, max |-> obs.level]]
    [] OTHER -> h

ObserveHistory(h, obs) ==
  [Tracked(h, obs) EXCEPT !.baseline = TRUE, !.last = obs.level]

-----------------------------------------------------------------------------
(* AlertLatencyTracker: how late the last clear -> active change was seen. *)

NewAlertLatency(restored) ==
  [baseline |-> FALSE, last |-> None, measurement |-> restored.alert]

(* Mistake: a latency of zero does not count.                              *)
AlertMeasurableLater(a, obs) ==
  /\ a.baseline
  /\ a.last = "clear"
  /\ obs.level # "clear"
  /\ obs.start # NoTime
  /\ obs.start < obs.received

AlertMeasurable(a, obs) ==
  /\ a.baseline
  /\ a.last = "clear"
  /\ obs.level # "clear"
  /\ obs.start # NoTime
  /\ obs.start <= obs.received

ObserveAlertLatency(a, obs) ==
  [baseline |-> TRUE, last |-> obs.level,
   measurement |-> IF AlertMeasurable(a, obs)
                   THEN [start |-> obs.start, level |-> obs.level]
                   ELSE a.measurement]

-----------------------------------------------------------------------------
(* ThreatLatencyTracker: the same for threat instances not seen before.    *)

NewThreatLatency(restored) ==
  [baseline |-> FALSE, seen |-> {}, measurement |-> restored.threat]

ThreatCandidates(t, obs) ==
  {threat \in obs.threats : /\ Instance(threat) \notin t.seen
                            /\ threat.start # NoTime
                            /\ threat.start <= obs.received}

(* The candidate that started last; threat types are numbered in the order *)
(* of their names, which decides between equal starts.                     *)
LatestThreat(candidates) ==
  CHOOSE c \in candidates : \A d \in candidates :
    \/ d.start < c.start
    \/ d.start = c.start /\ d.type <= c.type

(* Mistake: the first snapshot marks nothing as seen.                      *)
ObserveThreatLatencyAfresh(t, obs) ==
  LET visible == {Instance(threat) : threat \in obs.threats}
      candidates == ThreatCandidates(t, obs)
  IN  CASE obs.level = "clear" -> [t EXCEPT !.baseline = TRUE, !.seen = {}]
        [] obs.level # "clear" /\ ~t.baseline -> [t EXCEPT !.baseline = TRUE]
        [] obs.level # "clear" /\ t.baseline /\ candidates = {} ->
             [t EXCEPT !.seen = @ \cup visible]
        [] OTHER ->
             [baseline |-> TRUE, seen |-> t.seen \cup visible,
              measurement |-> Instance(LatestThreat(candidates))]

ObserveThreatLatency(t, obs) ==
  LET visible == {Instance(threat) : threat \in obs.threats}
      candidates == ThreatCandidates(t, obs)
  IN  CASE obs.level = "clear" -> [t EXCEPT !.baseline = TRUE, !.seen = {}]
        [] obs.level # "clear" /\ (~t.baseline \/ candidates = {}) ->
             [t EXCEPT !.baseline = TRUE, !.seen = @ \cup visible]
        [] OTHER ->
             [baseline |-> TRUE, seen |-> t.seen \cup visible,
              measurement |-> Instance(LatestThreat(candidates))]
=============================================================================
