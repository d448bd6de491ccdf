-------------------------- MODULE MCPollingRuntime --------------------------
(* An instance of PollingRuntime for TLC.  The unit of time is half a      *)
(* second: the smallest poll interval is 6 units (3 s) and the smallest    *)
(* stale timeout 12 (6 s).  A request times out after 5 units (2.5 s); a   *)
(* busy event loop may stretch the cycle to 7, beyond the poll interval.   *)
EXTENDS PollingRuntime, FiniteSets

(* Cycles may be shorter or longer than the poll interval, and some        *)
(* accepted settings are as tight as they may be.                          *)
ASSUME InterestingTimings ==
  /\ \E p \in PollIntervals : CycleLimit > p
  /\ \E s \in ValidSettings : s.stale = 2 * s.poll
  /\ Cardinality(ValidSettings) > 1
=============================================================================
