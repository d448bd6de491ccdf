------------------------ MODULE PollingRuntimeProofs ------------------------
(***************************************************************************)
(* How long stale data can be shown and how many failures are tolerated,   *)
(* for any settings, length of cycles and number of entries.               *)
(***************************************************************************)
EXTENDS PollingRuntime, TLAPS

Shown == \E e \in Entries : view[e] = "available"

(* A cycle never outlasts its limit.                                       *)
CycleInv == loop = "fetching" => cycleTime <= CycleLimit

(* StaleExposureBounded spelled out for each place of the loop: what the   *)
(* snapshot may still age before the entries are notified again is the     *)
(* rest of the sleep and the request.                                      *)
ExposureInv ==
  firstCycle /\ Shown =>
    /\ loop = "ready" => age < staleAfter
    /\ loop = "sleeping" /\ wakeup => age < staleAfter
    /\ loop = "sleeping" /\ ~wakeup =>
         age + sleepLeft < staleAfter + pollInterval
    /\ loop = "fetching" => age < staleAfter + pollInterval + cycleTime

IInv == TypeOK /\ SleepMatchesInterval /\ CycleInv /\ ExposureInv

-----------------------------------------------------------------------------
(* The settings and bounds are numbers, and an interval is never empty.    *)
LEMMA SettingsAreNaturals ==
  /\ PollIntervals \subseteq Nat \ {0}
  /\ StaleTimeouts \subseteq Nat
  /\ CycleLimit \in Nat
  /\ AgeCap \in Nat
BY TimingAssumption

(* What _validate accepts lies in the ranges the options are taken from.   *)
LEMMA ValidSettingsAreSettings ==
  \A s \in ValidSettings : s.poll \in PollIntervals /\ s.stale \in StaleTimeouts
BY DEF ValidSettings

(* The loop starts with nobody shown and no cycle ended.                   *)
LEMMA InitIInv == Init => IInv
<1> SUFFICES ASSUME Init PROVE IInv
  OBVIOUS
<1>1. pollInterval \in PollIntervals /\ staleAfter \in StaleTimeouts
  BY DEF Init, ValidSettings
<1>2. view \in [Entries -> Views]
  BY DEF Init, Views
<1>3. /\ age \in 0..AgeCap /\ loop \in LoopPcs /\ errors \in 0..2
      /\ cycleTime \in Nat /\ sleepLeft \in Nat
  BY SettingsAreNaturals DEF Init, LoopPcs
<1>4. wakeup \in BOOLEAN /\ firstCycle \in BOOLEAN /\ steady \in BOOLEAN
  BY Zenon DEF Init
<1>5. TypeOK
  BY <1>1, <1>2, <1>3, <1>4 DEF TypeOK
<1> QED
  BY <1>5 DEF Init, IInv, SleepMatchesInterval, CycleInv, ExposureInv, Shown

(* A notification leaves nobody shown under a snapshot that is stale.      *)
LEMMA NotifiedAreCurrent ==
  ASSUME TypeOK, NEW a \in Nat, NEW stale \in Nat, NotifyEntries(a, stale)
  PROVE  /\ view' \in [Entries -> Views]
         /\ Shown' => a < stale
BY DEF TypeOK, NotifyEntries, SourceView, Shown, Views

(* The end of a cycle clamps the delay, so the sleep is never negative.    *)
LEMMA EndCycleKeepsTypes ==
  ASSUME TypeOK, EndCycle
  PROVE  /\ loop' \in LoopPcs /\ sleepLeft' \in Nat /\ cycleTime' \in Nat
         /\ firstCycle' = TRUE /\ wakeup' \in BOOLEAN
         /\ pollInterval' \in PollIntervals /\ staleAfter' \in StaleTimeouts
BY SettingsAreNaturals DEF TypeOK, EndCycle, LoopPcs, timingVars

(* The end of a cycle whose result was notified.                           *)
LEMMA NotifiedEndOfCycle ==
  ASSUME IInv, EndCycle, age' \in 0..AgeCap, errors' \in 0..2,
         steady' \in BOOLEAN,
         NotifyEntries(age', staleAfter)
  PROVE  IInv'
<1>1. /\ TypeOK /\ age' \in Nat /\ staleAfter \in Nat /\ pollInterval \in Nat
      /\ cycleTime \in Nat
  BY SettingsAreNaturals DEF IInv, TypeOK
<1>2. view' \in [Entries -> Views] /\ (Shown' => age' < staleAfter)
  BY <1>1, NotifiedAreCurrent
<1>3. TypeOK'
  BY <1>1, <1>2, EndCycleKeepsTypes DEF TypeOK
<1>4. SleepMatchesInterval' /\ CycleInv'
  BY <1>1 DEF SleepMatchesInterval, CycleInv, EndCycle, timingVars
<1>5. ExposureInv'
  <2>1. CASE loop' = "ready"
    BY <1>1, <1>2, <2>1 DEF ExposureInv, EndCycle, timingVars
  <2>2. CASE loop' = "sleeping"
    BY <1>1, <1>2, <2>2 DEF ExposureInv, EndCycle, timingVars
  <2> QED  BY <2>1, <2>2 DEF EndCycle
<1> QED
  BY <1>3, <1>4, <1>5 DEF IInv

(* Every step of the loop, of an entry and of the settings keeps IInv.     *)
LEMMA NextIInv == IInv /\ [Next]_vars => IInv'
<1> SUFFICES ASSUME IInv, [Next]_vars PROVE IInv'
  OBVIOUS
<1> USE SettingsAreNaturals DEF IInv
<1>1. CASE BeginCycle
  <2>1. TypeOK'
    BY <1>1 DEF TypeOK, BeginCycle, LoopPcs, timingVars
  <2>2. SleepMatchesInterval' /\ CycleInv'
    BY <1>1 DEF SleepMatchesInterval, CycleInv, BeginCycle
  <2>3. ExposureInv'
    BY <1>1 DEF TypeOK, ExposureInv, Shown, BeginCycle, SleepOver, timingVars
  <2> QED  BY <2>1, <2>2, <2>3
<1>2. CASE FetchSucceeds
  <2>1. age' = 0 /\ errors' = 0 /\ steady' /\ NotifyEntries(age', staleAfter) /\ EndCycle
    BY <1>2 DEF FetchSucceeds
  <2> QED  BY <2>1, NotifiedEndOfCycle
<1>3. CASE FetchFails
  <2>1. /\ age' = age /\ errors' \in 0..2 /\ steady' \in BOOLEAN
        /\ NotifyEntries(age', staleAfter) /\ EndCycle
    BY <1>3 DEF TypeOK, FetchFails
  <2> QED  BY <2>1, NotifiedEndOfCycle DEF TypeOK
<1>4. CASE FetchDies
  <2>1. TypeOK'
    BY <1>4 DEF TypeOK, FetchDies, SourceView, LoopPcs, Views, timingVars
  <2> QED
    BY <1>4, <2>1 DEF FetchDies, SleepMatchesInterval, CycleInv, ExposureInv
<1>5. ASSUME NEW s \in ValidSettings, UpdateTiming(s) PROVE IInv'
  <2>1. s.poll \in PollIntervals /\ s.stale \in StaleTimeouts
    BY <1>5, ValidSettingsAreSettings
  <2>2. s.stale \in Nat
    BY <2>1
  <2>3. age \in Nat
    BY DEF TypeOK
  <2>4. NotifyEntries(age, s.stale)
    BY <1>5, Zenon DEF UpdateTiming
  <2>5. view' \in [Entries -> Views] /\ (Shown' => age < s.stale)
    BY <2>2, <2>3, <2>4, NotifiedAreCurrent
  <2>6. TypeOK'
    BY <1>5, <2>1, <2>5 DEF TypeOK, UpdateTiming
  <2>7. SleepMatchesInterval' /\ CycleInv'
    BY <1>5 DEF UpdateTiming, SleepMatchesInterval, CycleInv
  <2>8. ExposureInv'
    <3>1. /\ age' = age /\ staleAfter' = s.stale /\ pollInterval' \in Nat
          /\ cycleTime' \in Nat /\ wakeup'
      BY <1>5, <2>1, <2>6 DEF UpdateTiming, TypeOK
    <3> QED  BY <2>2, <2>3, <2>5, <3>1 DEF ExposureInv
  <2> QED  BY <2>6, <2>7, <2>8
<1>6. ASSUME NEW e \in Entries, Join(e) PROVE IInv'
  <2>1. TypeOK'
    BY <1>6 DEF TypeOK, Join, SourceView, LoopPcs, Views, timingVars
  <2>2. SleepMatchesInterval' /\ CycleInv'
    BY <1>6 DEF Join, SleepMatchesInterval, CycleInv, timingVars
  <2>3. ASSUME firstCycle', Shown' PROVE Shown \/ age < staleAfter
    BY <1>6, <2>3 DEF TypeOK, Join, SourceView, Shown
  <2>4. ExposureInv'
    <3>1. SUFFICES ASSUME firstCycle', Shown' PROVE ExposureInv'
      BY DEF ExposureInv
    <3>2. /\ loop # "dead" /\ firstCycle
          /\ UNCHANGED <<age, loop, wakeup, sleepLeft, cycleTime, pollInterval,
                         staleAfter>>
      BY <1>6, <3>1 DEF TypeOK, Join, timingVars
    <3>3. CASE Shown
      BY <3>2, <3>3 DEF ExposureInv
    <3>4. CASE age < staleAfter
      BY <3>2, <3>4 DEF ExposureInv, TypeOK, SleepMatchesInterval
    <3> QED  BY <2>3, <3>1, <3>3, <3>4
  <2> QED  BY <2>1, <2>2, <2>4
<1>7. ASSUME NEW e \in Entries, Leave(e) PROVE IInv'
  <2>1. Shown' => Shown
    BY <1>7 DEF TypeOK, Leave, Shown
  <2>2. TypeOK'
    BY <1>7 DEF TypeOK, Leave, Views, timingVars, loopVars
  <2> QED
    BY <1>7, <2>1, <2>2 DEF Leave, SleepMatchesInterval, CycleInv, ExposureInv,
                            timingVars, loopVars
<1>8. CASE Tick
  <2>1. loop = "sleeping" => sleepLeft # 0 /\ ~wakeup
    BY <1>8 DEF Tick, Waiting, SleepOver
  <2>2. TypeOK'
    BY <1>8, <2>1 DEF TypeOK, Tick, timingVars
  <2>3. SleepMatchesInterval' /\ CycleInv'
    BY <1>8, <2>1 DEF TypeOK, Tick, Waiting, SleepMatchesInterval, CycleInv,
                      timingVars
  <2>4. ExposureInv'
    BY <1>8, <2>1 DEF TypeOK, Tick, Waiting, ExposureInv, Shown, timingVars
  <2> QED  BY <2>2, <2>3, <2>4
<1>9. CASE UNCHANGED vars
  BY <1>9 DEF vars, timingVars, loopVars, TypeOK, SleepMatchesInterval,
              CycleInv, ExposureInv, Shown
<1> QED
  BY <1>1, <1>2, <1>3, <1>4, <1>5, <1>6, <1>7, <1>8, <1>9 DEF Next

(* The worst place of the loop is the end of a request made after a sleep. *)
LEMMA IInvBoundsExposure == IInv => StaleExposureBounded
BY SettingsAreNaturals
   DEF IInv, TypeOK, LoopPcs, SleepMatchesInterval, CycleInv, ExposureInv,
       Shown, StaleExposureBounded

(* IInv holds in every behaviour, with or without fairness.                *)
LEMMA Invariance == Spec => []IInv
BY InitIInv, NextIInv, PTL DEF Spec

-----------------------------------------------------------------------------
(* Why one failure is tolerated: under settled settings a snapshot is at   *)
(* most a poll interval old when the next cycle begins, and the settings   *)
(* in force are always an accepted pair.                                   *)
SteadyInv ==
  /\ staleAfter >= 2 * pollInterval
  /\ loop # "dead" /\ firstCycle /\ steady /\ errors = 0 /\ age < AgeCap =>
       /\ loop = "ready" => age <= pollInterval
       /\ loop = "sleeping" => age + sleepLeft <= pollInterval
       /\ loop = "fetching" => age <= pollInterval + cycleTime

(* Nothing has been received yet.                                          *)
LEMMA InitSteadyInv == Init => SteadyInv
BY SettingsAreNaturals DEF Init, ValidSettings, SteadyInv

(* A success starts the age at zero, a failure makes errors positive, and  *)
(* a change of the settings or a new loop has to wait for a success.       *)
LEMMA NextSteadyInv == IInv /\ SteadyInv /\ [Next]_vars => SteadyInv'
<1> SUFFICES ASSUME TypeOK, SleepMatchesInterval, SteadyInv, [Next]_vars
             PROVE  SteadyInv'
  BY DEF IInv
<1>0. /\ pollInterval \in Nat /\ staleAfter \in Nat /\ age \in Nat
      /\ cycleTime \in Nat /\ sleepLeft \in Nat /\ AgeCap \in Nat
      /\ errors \in 0..2
  BY SettingsAreNaturals DEF TypeOK
<1>1. CASE BeginCycle
  BY <1>0, <1>1 DEF SteadyInv, BeginCycle, SleepOver, timingVars
<1>2. CASE FetchSucceeds
  BY <1>0, <1>2 DEF SteadyInv, FetchSucceeds, EndCycle, timingVars
<1>3. CASE FetchFails
  BY <1>0, <1>3 DEF SteadyInv, FetchFails, EndCycle, timingVars
<1>4. CASE FetchDies
  BY <1>4 DEF SteadyInv, FetchDies, timingVars
<1>5. ASSUME NEW s \in ValidSettings, UpdateTiming(s) PROVE SteadyInv'
  BY <1>5 DEF SteadyInv, UpdateTiming, ValidSettings
<1>6. ASSUME NEW e \in Entries, Join(e) PROVE SteadyInv'
  BY <1>6 DEF SteadyInv, Join, timingVars
<1>7. ASSUME NEW e \in Entries, Leave(e) PROVE SteadyInv'
  BY <1>7 DEF SteadyInv, Leave, timingVars, loopVars
<1>8. CASE Tick
  BY <1>0, <1>8 DEF SteadyInv, Tick, Waiting, SleepOver, timingVars
<1>9. CASE UNCHANGED vars
  BY <1>9 DEF SteadyInv, vars, timingVars, loopVars
<1> QED
  BY <1>1, <1>2, <1>3, <1>4, <1>5, <1>6, <1>7, <1>8, <1>9 DEF Next

(* The failing cycle began with a snapshot one poll interval old at most;  *)
(* when it fails within another one, the snapshot is not stale.            *)
LEMMA FailureFindsCurrentSnapshot ==
  ASSUME IInv, SteadyInv, [Next]_vars,
         errors = 0, errors' = 1, age < AgeCap,
         firstCycle, steady, cycleTime < pollInterval
  PROVE  \A e \in Present : view'[e] # "unavailable"
<1>1. /\ pollInterval \in Nat /\ staleAfter \in Nat /\ age \in Nat
      /\ cycleTime \in Nat
  BY SettingsAreNaturals DEF IInv, TypeOK
<1>2. FetchFails
  BY DEF Next, vars, BeginCycle, FetchSucceeds, FetchDies, Tick, UpdateTiming,
         Join, Leave
<1>3. age < staleAfter
  BY <1>1, <1>2 DEF SteadyInv, FetchFails
<1> QED
  BY <1>2, <1>3 DEF FetchFails, NotifyEntries, SourceView, Present

-----------------------------------------------------------------------------
(* Type correctness of the poll loop: no negative sleep is ever computed,  *)
(* whatever settings are chosen while a request is under way.              *)
THEOREM TypeCorrect == Spec => []TypeOK
BY Invariance, PTL DEF IInv

(* However the settings change and requests fail, data is shown at most a  *)
(* stale timeout, a poll interval and a request after it was received, as  *)
(* long as the loop lives and has ended a cycle since it started.          *)
THEOREM ExposureIsBounded == Spec => []StaleExposureBounded
BY Invariance, IInvBoundsExposure, PTL

(* An undisturbed sleep ends one poll interval after its cycle began.      *)
THEOREM SleepsMatchInterval == Spec => []SleepMatchesInterval
BY Invariance, PTL DEF IInv

(* One failed cycle is tolerated, for all accepted settings: the promise   *)
(* behind the rule that the stale timeout is twice the poll interval.      *)
THEOREM FailureIsTolerated == Spec => OneFailureTolerated
<1>1. Spec => []SteadyInv
  BY InitSteadyInv, NextSteadyInv, Invariance, PTL DEF Spec
<1>2. IInv /\ SteadyInv /\ [Next]_vars =>
        [ /\ errors = 0 /\ errors' = 1 /\ age < AgeCap
          /\ firstCycle /\ steady /\ cycleTime < pollInterval
          => \A e \in Present : view'[e] # "unavailable" ]_vars
  BY FailureFindsCurrentSnapshot
<1> QED
  BY <1>1, <1>2, Invariance, PTL DEF Spec, OneFailureTolerated

(* A sleep that ends by itself ends when the interval is over.             *)
LEMMA WokenOrOver ==
  ASSUME IInv, [Next]_vars, loop = "sleeping", loop' = "fetching"
  PROVE  cycleTime >= pollInterval \/ wakeup
<1>1. pollInterval \in Nat /\ cycleTime \in Nat
  BY SettingsAreNaturals DEF IInv, TypeOK
<1>2. BeginCycle
  BY DEF Next, vars, loopVars, FetchSucceeds, FetchFails, FetchDies, Tick,
         UpdateTiming, Join, Leave
<1>3. wakeup \/ sleepLeft = 0
  BY <1>2 DEF BeginCycle, SleepOver
<1> QED
  BY <1>1, <1>3 DEF IInv, SleepMatchesInterval

(* The poll loop never asks the source sooner than the poll interval after *)
(* its last request, unless the settings have changed.                     *)
THEOREM PollingIsPaced == Spec => PollingRateBounded
<1>1. IInv /\ [Next]_vars =>
        [ loop = "sleeping" /\ loop' = "fetching" =>
            cycleTime >= pollInterval \/ wakeup ]_vars
  BY WokenOrOver
<1> QED
  BY <1>1, Invariance, PTL DEF Spec, PollingRateBounded
=============================================================================
