----------------------------- MODULE MCEntities -----------------------------
(* Scenarios of TerritoryCoordinator for TLC.                              *)
EXTENDS Entities

(* One threat with either level, tests, failed polls.                      *)
ThreatsAndTests ==
  [levels |-> {"red"}, coverages |-> {"full"}, starts |-> {0},
   types |-> {1}, threatLevels |-> {"yellow", "red"},
   tests |-> {"clear", "red"}, end |-> 0, disturbances |-> {"failure"}]

(* Alerts of a part, slow and stale data, tests.                           *)
Outages ==
  [levels |-> {"red"}, coverages |-> {"partial"}, starts |-> {0},
   types |-> {}, threatLevels |-> {}, tests |-> {"clear", "red"}, end |-> 0,
   disturbances |-> {"failure", "slow", "stale", "stop"}]

(* Undated, past and future alerts, restarts, crashes, a broken storage.   *)
Restarts ==
  [levels |-> {"red"}, coverages |-> {"full"}, starts |-> {NoTime, 0, 1},
   types |-> {}, threatLevels |-> {}, tests |-> {}, end |-> 1,
   disturbances |-> {"stop", "crash", "storage"}]

(* Alerts that rise and fall, over restarts, crashes and a broken storage. *)
Rising ==
  [levels |-> {"yellow", "red"}, coverages |-> {"full", "mixed"},
   starts |-> {0}, types |-> {}, threatLevels |-> {}, tests |-> {}, end |-> 0,
   disturbances |-> {"stop", "crash", "storage"}]

(* The source is clear for a while in which nobody looks.                  *)
Unseen ==
  [levels |-> {"red"}, coverages |-> {"full"}, starts |-> {NoTime, 0, 1},
   types |-> {}, threatLevels |-> {}, tests |-> {}, end |-> 0,
   disturbances |-> {"failure", "stop", "missed_clear"}]

(* A threat and nothing else.                                              *)
OneThreat ==
  [levels |-> {"red"}, coverages |-> {"full"}, starts |-> {0},
   types |-> {1}, threatLevels |-> {"red"}, tests |-> {}, end |-> 0,
   disturbances |-> {}]

(* One threat that comes and goes, over restarts and crashes.              *)
ThreatsOverRestarts ==
  [levels |-> {"red"}, coverages |-> {"full"}, starts |-> {0},
   types |-> {1}, threatLevels |-> {"red"}, tests |-> {}, end |-> 0,
   disturbances |-> {"stop", "crash"}]

AllScenarios == {ThreatsAndTests, Outages, Restarts, Rising, ThreatsOverRestarts}
UnseenScenario == {Unseen}
OneThreatScenario == {OneThreat}
=============================================================================
