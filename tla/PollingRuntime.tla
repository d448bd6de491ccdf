--------------------------- MODULE PollingRuntime ---------------------------
(***************************************************************************)
(* One UAAlertsRuntime in time: its poll loop, the age of its snapshot,    *)
(* the timing settings that may change under it, and what its registered   *)
(* coordinators last saw of source_available.  Time is discrete.  The      *)
(* event loop is taken to be prompt: time passes only while the loop       *)
(* really waits, for the response or for the next cycle.                   *)
(* Creating and dropping runtimes is EntryLifecycle's subject; here one    *)
(* runtime lives on and at least one entry stays registered.               *)
(***************************************************************************)
EXTENDS Integers

CONSTANTS Entries,
          PollIntervals, StaleTimeouts,  \* settings a user may choose
          CycleLimit,                    \* longest cycle: the request timeout
                                         \* and the work on the answer
          AgeCap                         \* age beyond every comparison

ASSUME TimingAssumption ==
  /\ PollIntervals \subseteq Nat \ {0}
  /\ StaleTimeouts \subseteq Nat
  /\ CycleLimit \in Nat
  /\ AgeCap \in Nat
  /\ \A p \in PollIntervals, s \in StaleTimeouts :
        s + p + CycleLimit < AgeCap

VARIABLES
  pollInterval,  \* runtime.poll_interval
  staleAfter,    \* runtime.stale_after
  age,           \* data_age; AgeCap stands for None too
  errors,        \* consecutive_errors: 0, 1 or 2 (two or more)
  loop,          \* where _async_poll_loop is
  cycleTime,     \* monotonic time since cycle_started
  sleepLeft,     \* what is left of wait_for's timeout
  wakeup,        \* the _poll_wakeup event
  firstCycle,    \* the _first_cycle event
  view,          \* what each entry's coordinator last saw
  steady         \* settings unchanged since the snapshot arrived?  No action
                 \* reads it.

timingVars == <<pollInterval, staleAfter>>
loopVars == <<loop, cycleTime, sleepLeft, wakeup>>
vars == <<timingVars, age, errors, loopVars, firstCycle, view, steady>>

(* Mistake: a stale timeout of one poll interval is accepted.              *)
LaxSettings ==
  {s \in [poll : PollIntervals, stale : StaleTimeouts] : s.stale >= s.poll}

(* timing.validate_settings: the pairs it accepts.                         *)
ValidSettings ==
  {s \in [poll : PollIntervals, stale : StaleTimeouts] : s.stale >= 2 * s.poll}

Views == {"absent",       \* not registered
          "pending",      \* registered, waiting for the first cycle
          "available", "unavailable"}
LoopPcs == {"ready", "fetching", "sleeping", "dead"}

TypeOK ==
  /\ pollInterval \in PollIntervals
  /\ staleAfter \in StaleTimeouts
  /\ age \in 0..AgeCap
  /\ errors \in 0..2
  /\ loop \in LoopPcs
  /\ cycleTime \in Nat
  /\ sleepLeft \in Nat
  /\ wakeup \in BOOLEAN
  /\ firstCycle \in BOOLEAN
  /\ view \in [Entries -> Views]
  /\ steady \in BOOLEAN

Present == {e \in Entries : view[e] # "absent"}

(* The first registration creates the runtime and starts its loop.         *)
Init ==
  /\ \E s \in ValidSettings : pollInterval = s.poll /\ staleAfter = s.stale
  /\ age = AgeCap
  /\ errors = 0
  /\ loop = "ready"
  /\ cycleTime = 0
  /\ sleepLeft = 0
  /\ wakeup = FALSE
  /\ firstCycle = FALSE
  /\ \E first \in Entries :
       view = [e \in Entries |-> IF e = first THEN "pending" ELSE "absent"]
  /\ steady = TRUE

(* source_available under a given age and stale timeout.                   *)
SourceView(a, stale) == IF a < stale THEN "available" ELSE "unavailable"

(* _notify_entries: every registered callback, synchronously.              *)
NotifyEntries(a, stale) ==
  view' = [e \in Entries |->
             IF e \in Present THEN SourceView(a, stale) ELSE "absent"]

-----------------------------------------------------------------------------
(* Mistake: the sleep is one unit short.                                   *)
SleepOverEarly == loop = "sleeping" /\ (sleepLeft <= 1 \/ wakeup)

SleepOver == loop = "sleeping" /\ (sleepLeft = 0 \/ wakeup)

(* The event is cleared before the fetch, never after it.                  *)
BeginCycle ==
  /\ loop = "ready" \/ SleepOver
  /\ loop' = "fetching"
  /\ wakeup' = FALSE
  /\ cycleTime' = 0
  /\ sleepLeft' = 0
  /\ UNCHANGED <<timingVars, steady, age, errors, firstCycle, view>>

(* Mistake: a cycle longer than the interval leaves a negative timeout.    *)
EndCycleUnclamped ==
  /\ firstCycle' = TRUE
  /\ loop' = "sleeping"
  /\ sleepLeft' = pollInterval - cycleTime
  /\ UNCHANGED <<timingVars, cycleTime, wakeup>>

(* The end of a cycle: sleep for what is left of the poll interval as it   *)
(* is set now, not as it was when the cycle started.                       *)
EndCycle ==
  /\ firstCycle' = TRUE
  /\ IF cycleTime < pollInterval
     THEN loop' = "sleeping" /\ sleepLeft' = pollInterval - cycleTime
     ELSE loop' = "ready" /\ UNCHANGED sleepLeft
  /\ UNCHANGED <<timingVars, cycleTime, wakeup>>

FetchSucceeds ==
  /\ loop = "fetching"
  /\ age' = 0
  /\ errors' = 0
  /\ steady' = TRUE
  /\ NotifyEntries(0, staleAfter)
  /\ EndCycle

(* Mistake: entries are told of successes only.                            *)
FetchFailsUnnoticed ==
  /\ loop = "fetching"
  /\ errors' = IF errors = 2 THEN 2 ELSE errors + 1
  /\ UNCHANGED view
  /\ EndCycle
  /\ UNCHANGED <<age, steady>>

(* Timeout, HTTP or network error, malformed response: the snapshot and    *)
(* its age stay, the entries are notified all the same.                    *)
FetchFails ==
  /\ loop = "fetching"
  /\ errors' = IF errors = 2 THEN 2 ELSE errors + 1
  /\ NotifyEntries(age, staleAfter)
  /\ EndCycle
  /\ UNCHANGED <<age, steady>>

(* Mistake: a loop that dies leaves the waiting entries waiting.           *)
FetchDiesHoldingEvent ==
  /\ loop = "fetching"
  /\ loop' = "dead"
  /\ UNCHANGED <<timingVars, steady, age, errors, cycleTime, sleepLeft, wakeup,
                 firstCycle, view>>

(* An exception async_fetch does not list leaves it before the notify and  *)
(* ends the loop.  Entries that wait for the first cycle are released and  *)
(* look at the runtime themselves.                                         *)
FetchDies ==
  /\ loop = "fetching"
  /\ loop' = "dead"
  /\ firstCycle' = TRUE
  /\ view' = [e \in Entries |->
                IF view[e] = "pending" THEN SourceView(age, staleAfter)
                ELSE view[e]]
  /\ UNCHANGED <<timingVars, steady, age, errors, cycleTime, sleepLeft, wakeup>>

(* Mistake: a sleeping loop is not woken up.                               *)
UpdateTimingQuietly(s) ==
  /\ pollInterval' = s.poll
  /\ staleAfter' = s.stale
  /\ steady' = FALSE
  /\ NotifyEntries(age, s.stale)
  /\ UNCHANGED <<age, errors, loop, cycleTime, sleepLeft, wakeup, firstCycle>>

(* async_update_timing.                                                    *)
UpdateTiming(s) ==
  /\ pollInterval' = s.poll
  /\ staleAfter' = s.stale
  /\ steady' = FALSE
  /\ wakeup' = TRUE
  /\ NotifyEntries(age, s.stale)
  /\ UNCHANGED <<age, errors, loop, cycleTime, sleepLeft, firstCycle>>

(* async_register and async_wait_initial_cycle of one more entry.  It      *)
(* starts the loop again if the loop is dead.                              *)
Join(e) ==
  /\ view[e] = "absent"
  /\ IF loop = "dead"
     THEN loop' = "ready" /\ firstCycle' = FALSE
     ELSE UNCHANGED <<loop, firstCycle>>
  /\ view' = [view EXCEPT ![e] =
                IF firstCycle' THEN SourceView(age, staleAfter) ELSE "pending"]
  /\ UNCHANGED <<timingVars, steady, age, errors, cycleTime, sleepLeft, wakeup>>

(* async_unregister of an entry that is set up and not the last one.       *)
Leave(e) ==
  /\ view[e] \in {"available", "unavailable"}
  /\ Present # {e}
  /\ view' = [view EXCEPT ![e] = "absent"]
  /\ UNCHANGED <<timingVars, steady, age, errors, loopVars, firstCycle>>

(* Nothing is due at this instant.                                         *)
Waiting ==
  \/ loop = "dead"
  \/ loop = "fetching" /\ cycleTime < CycleLimit
  \/ loop = "sleeping" /\ ~SleepOver

Tick ==
  /\ Waiting
  /\ age' = IF age < AgeCap THEN age + 1 ELSE age
  /\ cycleTime' = IF loop = "dead" THEN cycleTime ELSE cycleTime + 1
  /\ sleepLeft' = IF loop = "sleeping" THEN sleepLeft - 1 ELSE sleepLeft
  /\ UNCHANGED <<timingVars, steady, errors, loop, wakeup, firstCycle, view>>

Next ==
  \/ BeginCycle \/ FetchSucceeds \/ FetchFails \/ FetchDies \/ Tick
  \/ \E s \in ValidSettings : UpdateTiming(s)
  \/ \E e \in Entries : Join(e) \/ Leave(e)

Spec == Init /\ [][Next]_vars

(* The loop's steps are taken, a fetch ends one way or another (its        *)
(* timeout sees to that), and time goes on.                                *)
Fairness == /\ WF_vars(BeginCycle)
            /\ WF_vars(FetchSucceeds \/ FetchFails \/ FetchDies)
            /\ WF_vars(Tick)

FairSpec == Spec /\ Fairness

-----------------------------------------------------------------------------
(* README, Polling and failure behavior: after the stale timeout without a *)
(* snapshot the entities become unavailable.  Nobody watches the clock:    *)
(* staleness shows at the end of the next cycle, so the timeout can be     *)
(* exceeded by a poll interval and a request, and by no more, as long as   *)
(* the loop lives and has ended a cycle since it last started.             *)
StaleExposureBounded ==
  loop # "dead" /\ firstCycle =>
    \A e \in Entries : view[e] = "available" =>
      age < staleAfter + pollInterval + CycleLimit

(* The same promise with no condition on the loop, as the README makes it. *)
UnavailableOnceStale ==
  \A e \in Entries : view[e] = "available" =>
    age < staleAfter + pollInterval + CycleLimit

(* A sleep nobody has interrupted ends one poll interval after its cycle   *)
(* began, by the interval that is set now: cycles do not drift with the    *)
(* length of requests and no settings change is lost (runtime.py:205).     *)
SleepMatchesInterval ==
  loop = "sleeping" /\ ~wakeup => cycleTime + sleepLeft = pollInterval

(* Under settled settings one failed cycle, if it fails within the poll    *)
(* interval as the request timeout has it, never makes the entities        *)
(* unavailable: that is what stale >= 2 * poll buys.  (An entry that joins *)
(* while the second attempt is under way may already find the snapshot     *)
(* stale.)                                                                 *)
OneFailureTolerated ==
  [][ /\ errors = 0 /\ errors' = 1 /\ age < AgeCap
      /\ firstCycle /\ steady /\ cycleTime < pollInterval
      => \A e \in Present : view'[e] # "unavailable" ]_vars

(* Requests are never closer than the poll interval, except at once after  *)
(* a settings change or when a dead loop is started again.                 *)
PollingRateBounded ==
  [][ loop = "sleeping" /\ loop' = "fetching" =>
        cycleTime >= pollInterval \/ wakeup ]_vars

(* Every set-up that registers gets to see the runtime, even if the loop   *)
(* dies before it notifies anybody.                                        *)
EveryEntryGetsAView ==
  \A e \in Entries : view[e] = "pending" ~> view[e] # "pending"
=============================================================================
