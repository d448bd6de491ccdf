------------------------ MODULE EntryLifecycleProofs ------------------------
(***************************************************************************)
(* Safety of EntryLifecycle for any number of entries, runtimes and tasks. *)
(***************************************************************************)
EXTENDS EntryLifecycle, TLAPS

(* An entry has a runtime from the moment its coordinator is created until *)
(* its clean-up is over; it holds the domain lock while it registers, with *)
(* the domain's runtime; and a runtime the domain keeps is some entry's.   *)
EntryInv ==
  /\ \A e \in Entries :
       /\ entryRuntime[e] = None <=> entryPc[e] \in {"idle", "loading"}
       /\ entryPc[e] = "registering" <=> runtimeLock = e
       /\ entryPc[e] = "registering" => entryRuntime[e] = domainRuntime
  /\ domainRuntime # None => \E e \in Entries : entryRuntime[e] = domainRuntime

(* Callbacks are the registered entries, all with the domain's runtime.    *)
CallbackInv ==
  /\ \A e \in Registered : entryRuntime[e] = domainRuntime
  /\ \A r \in Runtimes : \A e \in Entries :
       e \in callbacks[r] <=> e \in Registered /\ entryRuntime[e] = r

(* A runtime has a poll task exactly while it has callbacks; nobody has    *)
(* cancelled that task, and it is the only one that will go on polling.    *)
LoopInv ==
  /\ \A r \in Runtimes :
       /\ pollTask[r] # None <=> callbacks[r] # {}
       /\ pollTask[r] # None =>
            /\ ~cancelRequested[pollTask[r]]
            /\ taskPc[pollTask[r]] # "done" => taskRuntime[pollTask[r]] = r
  /\ \A t \in Tasks :
       /\ taskPc[t] = "done" => ~cancelRequested[t]
       /\ taskPc[t] = "done" <=> taskRuntime[t] = None
       /\ Running(t) => domainRuntime # None /\ pollTask[domainRuntime] = t

(* Whoever fetches holds the request lock of its runtime.                  *)
RequestInv ==
  \A t \in Tasks : taskPc[t] = "fetching" => requestLock[taskRuntime[t]] = t

(* While a runtime's loop is in its first cycle, the event is not set and  *)
(* an entry waits for it: the entry that started the loop.  A waiting      *)
(* entry cannot unload, so no loop is cancelled in its first cycle.        *)
FirstCycleInv ==
  /\ \A t \in Tasks :
       inFirstCycle[t] => taskPc[t] # "done" /\ ~cancelRequested[t]
  /\ \A r \in Runtimes :
       pollTask[r] # None /\ inFirstCycle[pollTask[r]] =>
         /\ ~firstCycle[r]
         /\ \E e \in Entries : entryPc[e] = "waiting" /\ entryRuntime[e] = r

IInv == /\ TypeOK /\ EntryInv /\ CallbackInv /\ LoopInv
        /\ RequestInv /\ FirstCycleInv

-----------------------------------------------------------------------------
(* Before the first set-up there is nothing to relate.                     *)
LEMMA InitIInv == Init => IInv
  BY NoneAssumption
  DEF Init, IInv, TypeOK, EntryPcs, TaskPcs, EntryInv, CallbackInv, Registered,
      LoopInv, Running, RequestInv, FirstCycleInv

(* A step that only moves one entry between phases in which its callback   *)
(* and its lock are the same keeps the invariant.                          *)
LEMMA EntryMoves ==
  ASSUME IInv, NEW e \in Entries, NEW to \in EntryPcs,
         \/ {entryPc[e], to} \subseteq {"idle", "loading"}
         \/ {entryPc[e], to} \subseteq {"forwarding", "loaded", "unloading",
                                        "failed"}
         \/ {entryPc[e], to} \subseteq {"stopping", "flushing", "removing"},
         entryPc' = [entryPc EXCEPT ![e] = to],
         awaitedTask' \in [Entries -> Tasks \cup {None}],
         UNCHANGED <<domainVars, runtimeVars, taskVars, entryRuntime>>
  PROVE  IInv'
<1> USE DEF IInv, TypeOK, domainVars, runtimeVars, taskVars
<1>1. TypeOK'
  BY DEF EntryPcs, TaskPcs
<1>2. EntryInv'
  BY DEF EntryInv
<1>3. CallbackInv'
  BY DEF CallbackInv, Registered
<1>4. LoopInv'
  BY DEF LoopInv, Running
<1>5. RequestInv'
  BY DEF RequestInv
<1>6. FirstCycleInv'
  BY DEF FirstCycleInv
<1> QED  BY <1>1, <1>2, <1>3, <1>4, <1>5, <1>6 DEF IInv

(* The first to take the lock creates the runtime; an identity nothing     *)
(* refers to has no callbacks, no poll task and nobody inside a request.   *)
LEMMA PrepareCoordinatorStep ==
  ASSUME IInv, NEW e \in Entries, PrepareCoordinator(e)
  PROVE  IInv'
<1> USE NoneAssumption DEF IInv, TypeOK, domainVars, runtimeVars, taskVars,
      entryVars, PrepareCoordinator
<1>1. TypeOK'
  <2>1. domainRuntime' \in Runtimes
    BY DEF NewRuntime
  <2>2. /\ callbacks' \in [Runtimes -> SUBSET Entries]
        /\ pollTask' \in [Runtimes -> Tasks \cup {None}]
        /\ firstCycle' \in [Runtimes -> BOOLEAN]
        /\ requestLock' \in [Runtimes -> Tasks \cup {None}]
    BY DEF NewRuntime
  <2>3. entryPc' \in [Entries -> EntryPcs]
    BY DEF EntryPcs
  <2> QED  BY <2>1, <2>2, <2>3
<1>2. EntryInv'
  BY DEF EntryInv, NewRuntime, UnusedRuntime
<1>3. CallbackInv'
  BY DEF CallbackInv, Registered, EntryInv, NewRuntime, UnusedRuntime
<1>4. LoopInv'
  BY DEF LoopInv, Running, EntryInv, CallbackInv, Registered, NewRuntime,
      UnusedRuntime
<1>5. RequestInv'
  BY DEF RequestInv, LoopInv, NewRuntime, UnusedRuntime
<1>6. FirstCycleInv'
  BY DEF FirstCycleInv, EntryInv, NewRuntime, UnusedRuntime
<1> QED  BY <1>1, <1>2, <1>3, <1>4, <1>5, <1>6 DEF IInv

(* Registering starts a loop only where there is none that goes on: the    *)
(* runtime is the domain's, so any other running loop would be another's.  *)
LEMMA RegisterStep ==
  ASSUME IInv, NEW e \in Entries, Register(e)
  PROVE  IInv'
<1> USE NoneAssumption DEF IInv, TypeOK, domainVars, runtimeVars, taskVars,
      entryVars, Register
<1>1. TypeOK'
  <2>1. entryRuntime[e] \in Runtimes
    BY DEF EntryInv
  <2>2. entryPc' \in [Entries -> EntryPcs]
    BY DEF EntryPcs
  <2>3. CASE LoopNeeded(entryRuntime[e])
    <3>1. StartLoop(entryRuntime[e])
      BY <2>3
    <3> QED  BY <2>1, <2>2, <3>1 DEF StartLoop, TaskPcs
  <2>4. CASE ~LoopNeeded(entryRuntime[e])
    BY <2>1, <2>2, <2>4
  <2> QED  BY <2>3, <2>4
<1>2. EntryInv'
  BY DEF EntryInv
<1>3. CallbackInv'
  BY DEF CallbackInv, Registered, EntryInv
<1>4. LoopInv'
  BY DEF LoopInv, Running, EntryInv, CallbackInv, Registered, StartLoop,
      LoopNeeded, UnusedTask
<1>5. RequestInv'
  BY DEF RequestInv, StartLoop, UnusedTask, LoopInv
<1>6. FirstCycleInv'
  BY DEF FirstCycleInv, EntryInv, LoopInv, StartLoop, LoopNeeded, UnusedTask
<1> QED  BY <1>1, <1>2, <1>3, <1>4, <1>5, <1>6 DEF IInv

(* The last entry to leave cancels the loop.  It is not the only waiting   *)
(* entry, so the loop it cancels has ended its first cycle.                *)
LEMMA ShutdownStep ==
  ASSUME IInv, NEW e \in Entries, Shutdown(e)
  PROVE  IInv'
<1> USE NoneAssumption DEF IInv, TypeOK, domainVars, runtimeVars, taskVars,
      entryVars, Shutdown, Unregister
<1> DEFINE r == entryRuntime[e]
           t == pollTask[r]
<1>a. /\ r \in Runtimes /\ r = domainRuntime
      /\ e \in callbacks[r]
      /\ t \in Tasks /\ t # None
  BY DEF EntryInv, CallbackInv, Registered, LoopInv, EntryPcs
<1>1. TypeOK'
  BY <1>a DEF EntryPcs, TaskPcs
<1>2. EntryInv'
  BY DEF EntryInv, EntryPcs
<1>3. CallbackInv'
  BY DEF CallbackInv, Registered, EntryInv, EntryPcs
<1>4. LoopInv'
  <2>1. ASSUME NEW s \in Runtimes, pollTask[s] # None
        PROVE  s = r
    BY <1>a, <2>1 DEF CallbackInv, LoopInv, Registered
  <2>2. CASE callbacks'[r] = {}
    <3>1. /\ pollTask' = [pollTask EXCEPT ![r] = None]
          /\ cancelRequested' = [cancelRequested EXCEPT ![t] = taskPc[t] # "done"]
          /\ callbacks' = [callbacks EXCEPT ![r] = @ \ {e}]
          /\ UNCHANGED <<domainRuntime, taskPc, taskRuntime>>
      BY <1>a, <2>2
    <3>2. \A s \in Runtimes : pollTask'[s] = None
      BY <1>a, <2>1, <3>1
    <3>3. \A s \in Runtimes : callbacks'[s] = {}
      BY <1>a, <2>1, <2>2, <3>1 DEF LoopInv
    <3> QED  BY <1>a, <3>1, <3>2, <3>3 DEF LoopInv, Running
  <2>3. CASE callbacks'[r] # {}
    <3>1. UNCHANGED <<domainRuntime, pollTask, taskPc, taskRuntime,
                      cancelRequested>>
      BY <1>a, <2>3
    <3> QED  BY <1>a, <2>3, <3>1 DEF LoopInv, Running
  <2> QED  BY <2>2, <2>3
<1>5. RequestInv'
  BY DEF RequestInv, LoopInv
<1>6. FirstCycleInv'
  BY <1>a DEF FirstCycleInv, LoopInv, CallbackInv, Registered
<1> QED  BY <1>1, <1>2, <1>3, <1>4, <1>5, <1>6 DEF IInv

(* With no callbacks left there is no running loop to lose the domain's    *)
(* runtime; with some, an entry still refers to the runtime that stays.    *)
LEMMA RemoveRuntimeIfUnusedStep ==
  ASSUME IInv, NEW e \in Entries, RemoveRuntimeIfUnused(e)
  PROVE  IInv'
<1> USE NoneAssumption DEF IInv, TypeOK, domainVars, runtimeVars, taskVars,
      entryVars, RemoveRuntimeIfUnused
<1>1. TypeOK'
  BY DEF EntryPcs, TaskPcs
<1>2. EntryInv'
  BY DEF EntryInv, CallbackInv, Registered, LoopInv
<1>3. CallbackInv'
  BY DEF CallbackInv, Registered, EntryInv
<1>4. LoopInv'
  BY DEF LoopInv, Running, EntryInv, CallbackInv, Registered
<1>5. RequestInv'
  BY DEF RequestInv
<1>6. FirstCycleInv'
  BY DEF FirstCycleInv
<1> QED  BY <1>1, <1>2, <1>3, <1>4, <1>5, <1>6 DEF IInv

(* Starting a cycle concerns no lock and no event.                         *)
LEMMA BeginCycleStep ==
  ASSUME IInv, NEW t \in Tasks, BeginCycle(t)
  PROVE  IInv'
<1> USE NoneAssumption DEF IInv, TypeOK, domainVars, runtimeVars, taskVars,
      entryVars, BeginCycle
<1>1. TypeOK'
  BY DEF EntryPcs, TaskPcs
<1>2. EntryInv'
  BY DEF EntryInv
<1>3. CallbackInv'
  BY DEF CallbackInv, Registered
<1>4. LoopInv'
  BY DEF LoopInv, Running
<1>5. RequestInv'
  BY DEF RequestInv
<1>6. FirstCycleInv'
  BY DEF FirstCycleInv
<1> QED  BY <1>1, <1>2, <1>3, <1>4, <1>5, <1>6 DEF IInv

(* The request lock was free, so no other task is fetching for the runtime. *)
LEMMA BeginFetchStep ==
  ASSUME IInv, NEW t \in Tasks, BeginFetch(t)
  PROVE  IInv'
<1> USE NoneAssumption DEF IInv, TypeOK, domainVars, runtimeVars, taskVars,
      entryVars, BeginFetch
<1>1. TypeOK'
  BY DEF EntryPcs, TaskPcs, LoopInv
<1>2. EntryInv'
  BY DEF EntryInv
<1>3. CallbackInv'
  BY DEF CallbackInv, Registered
<1>4. LoopInv'
  BY DEF LoopInv, Running
<1>5. RequestInv'
  BY DEF RequestInv, LoopInv
<1>6. FirstCycleInv'
  BY DEF FirstCycleInv
<1> QED  BY <1>1, <1>2, <1>3, <1>4, <1>5, <1>6 DEF IInv

(* The first cycle ends with the event set and every waiting entry woken.  *)
LEMMA EndCycleStep ==
  ASSUME IInv, NEW t \in Tasks, EndCycle(t)
  PROVE  IInv'
<1> USE NoneAssumption DEF IInv, TypeOK, domainVars, runtimeVars, taskVars,
      entryVars, EndCycle, MarkFirstCycle, CompleteFirstCycle, WakeWaiters
<1>1. TypeOK'
  <2>1. taskRuntime[t] \in Runtimes
    BY DEF LoopInv
  <2>2. entryPc' \in [Entries -> EntryPcs]
    BY <2>1 DEF EntryPcs
  <2>3. firstCycle' \in [Runtimes -> BOOLEAN]
    BY <2>1
  <2>4. taskPc' \in [Tasks -> TaskPcs]
    BY DEF TaskPcs
  <2> QED  BY <2>1, <2>2, <2>3, <2>4
<1>2. EntryInv'
  BY DEF EntryInv
<1>3. CallbackInv'
  BY DEF CallbackInv, Registered
<1>4. LoopInv'
  BY DEF LoopInv, Running
<1>5. RequestInv'
  BY DEF RequestInv, LoopInv
<1>6. FirstCycleInv'
  BY DEF FirstCycleInv, LoopInv, Running, EntryInv, CallbackInv, Registered
<1> QED  BY <1>1, <1>2, <1>3, <1>4, <1>5, <1>6 DEF IInv

(* A dead loop stays the runtime's poll task until an entry replaces it.   *)
LEMMA LoopDiesStep ==
  ASSUME IInv, NEW t \in Tasks, LoopDies(t)
  PROVE  IInv'
<1> USE NoneAssumption DEF IInv, TypeOK, domainVars, runtimeVars, taskVars,
      entryVars, LoopDies, FinishTask, CompleteFirstCycle, WakeWaiters
<1>1. TypeOK'
  BY DEF EntryPcs, TaskPcs, LoopInv
<1>2. EntryInv'
  BY DEF EntryInv
<1>3. CallbackInv'
  BY DEF CallbackInv, Registered
<1>4. LoopInv'
  BY DEF LoopInv, Running
<1>5. RequestInv'
  BY DEF RequestInv, LoopInv
<1>6. FirstCycleInv'
  BY DEF FirstCycleInv, LoopInv, Running, EntryInv, CallbackInv, Registered
<1> QED  BY <1>1, <1>2, <1>3, <1>4, <1>5, <1>6 DEF IInv

(* A cancelled task is no runtime's poll task any more and past its first  *)
(* cycle, so its last steps disturb nothing but the request lock it holds. *)
LEMMA DeliverCancelStep ==
  ASSUME IInv, NEW t \in Tasks, DeliverCancel(t)
  PROVE  IInv'
<1> USE NoneAssumption DEF IInv, TypeOK, domainVars, runtimeVars, taskVars,
      entryVars, DeliverCancel, FinishTask, MarkFirstCycle, CompleteFirstCycle,
      WakeWaiters
<1>1. TypeOK'
  <2>1. taskRuntime[t] \in Runtimes
    BY DEF LoopInv
  <2>2. entryPc' \in [Entries -> EntryPcs]
    BY <2>1 DEF EntryPcs
  <2>3. firstCycle' \in [Runtimes -> BOOLEAN]
    BY <2>1
  <2>4. taskPc' \in [Tasks -> TaskPcs]
    BY DEF TaskPcs
  <2>5. requestLock' \in [Runtimes -> Tasks \cup {None}]
    BY <2>1
  <2> QED  BY <2>1, <2>2, <2>3, <2>4, <2>5
<1>2. EntryInv'
  BY DEF EntryInv
<1>3. CallbackInv'
  BY DEF CallbackInv, Registered
<1>4. LoopInv'
  BY DEF LoopInv, Running
<1>5. RequestInv'
  BY DEF RequestInv, LoopInv
<1>6. FirstCycleInv'
  BY DEF FirstCycleInv, LoopInv, Running, EntryInv, CallbackInv, Registered
<1> QED  BY <1>1, <1>2, <1>3, <1>4, <1>5, <1>6 DEF IInv

(* The invariant is inductive.                                             *)
LEMMA NextIInv == IInv /\ [Next]_vars => IInv'
<1> SUFFICES ASSUME IInv, [Next]_vars PROVE IInv'
  OBVIOUS
<1> USE DEF IInv
<1>1. ASSUME NEW e \in Entries, EntryStep(e) PROVE IInv'
  <2>1. CASE \/ BeginSetup(e) \/ LoadFails(e) \/ ForwardSucceeds(e)
             \/ BeginUnload(e) \/ UnloadRefused(e) \/ TaskStopped(e)
             \/ SaveFlushed(e)
    <3>1. PICK to \in EntryPcs :
            /\ \/ {entryPc[e], to} \subseteq {"idle", "loading"}
               \/ {entryPc[e], to} \subseteq {"forwarding", "loaded",
                                              "unloading", "failed"}
               \/ {entryPc[e], to} \subseteq {"stopping", "flushing",
                                              "removing"}
            /\ entryPc' = [entryPc EXCEPT ![e] = to]
      BY <2>1 DEF EntryPcs, BeginSetup, LoadFails, ForwardSucceeds,
                  BeginUnload, UnloadRefused, TaskStopped, SaveFlushed
    <3>2. /\ awaitedTask' \in [Entries -> Tasks \cup {None}]
          /\ UNCHANGED <<domainVars, runtimeVars, taskVars, entryRuntime>>
      BY <2>1 DEF TypeOK, BeginSetup, LoadFails, ForwardSucceeds,
                  BeginUnload, UnloadRefused, TaskStopped, SaveFlushed
    <3> QED  BY <1>1, <3>1, <3>2, EntryMoves
  <2> QED
    BY <1>1, <2>1, PrepareCoordinatorStep, RegisterStep, ShutdownStep,
       RemoveRuntimeIfUnusedStep DEF EntryStep
<1>2. ASSUME NEW t \in Tasks, TaskStep(t) PROVE IInv'
  BY <1>2, BeginCycleStep, BeginFetchStep, EndCycleStep, LoopDiesStep,
     DeliverCancelStep DEF TaskStep
<1>3. CASE UNCHANGED vars
  BY <1>3 DEF vars, domainVars, runtimeVars, taskVars, entryVars, TypeOK,
              EntryInv, CallbackInv, Registered, LoopInv, Running, RequestInv,
              FirstCycleInv
<1> QED
  BY <1>1, <1>2, <1>3 DEF Next

(* It holds in every reachable state.                                      *)
LEMMA Invariance == Spec => []IInv
  BY InitIInv, NextIInv, PTL DEF Spec

-----------------------------------------------------------------------------
(* Type correctness of set-up, unload and the poll tasks.                  *)
THEOREM TypeCorrect == Spec => []TypeOK
  BY Invariance, PTL DEF IInv

(* However set-ups, unloads, cancellations and crashes of the loop         *)
(* interleave, at most one loop in the whole domain goes on polling.       *)
THEOREM OnePoller == Spec => []SinglePoller
<1>1. IInv => SinglePoller
  BY DEF IInv, LoopInv, SinglePoller
<1> QED  BY <1>1, Invariance, PTL

(* Two fetches of one runtime never overlap, not even those of a cancelled *)
(* loop and its successor.                                                 *)
THEOREM RequestsAreSerialized == Spec => []SerializedRequests
<1>1. IInv => SerializedRequests
  BY DEF IInv, RequestInv, SerializedRequests
<1> QED  BY <1>1, Invariance, PTL

(* Every set-up entry is registered with the runtime that is polled.       *)
THEOREM EntriesArePolled == Spec => []RegisteredEntriesArePolled
<1>1. IInv => RegisteredEntriesArePolled
  BY DEF IInv, TypeOK, EntryInv, CallbackInv, Registered, LoopInv,
         RegisteredEntriesArePolled
<1> QED  BY <1>1, Invariance, PTL

(* No running loop without an entry to serve, no runtime kept for nobody.  *)
THEOREM NothingIsOrphaned == Spec => []NoOrphan
<1>1. IInv => NoOrphan
  BY NoneAssumption DEF IInv, TypeOK, EntryInv, LoopInv, Running, NoOrphan
<1> QED  BY <1>1, Invariance, PTL

(* A loop's first-cycle event is set by that loop.                         *)
THEOREM FirstCyclesAreOwn == Spec => []FirstCycleIsOwn
<1>1. IInv => FirstCycleIsOwn
  BY DEF IInv, FirstCycleInv, FirstCycleIsOwn
<1> QED  BY <1>1, Invariance, PTL

-----------------------------------------------------------------------------
(* What the refinement mapping makes of a state: the members are the       *)
(* entries with a callback, all of them at the domain's runtime, and only  *)
(* the domain's runtime can have a poll task.                              *)
LEMMA OnlyDomainRuntimePolls ==
  ASSUME IInv, NEW r \in Runtimes, pollTask[r] # None \/ callbacks[r] # {}
  PROVE  r = domainRuntime /\ pollTask[r] \in Tasks /\ Members = callbacks[r]
<1> USE DEF IInv, TypeOK
<1>1. ASSUME NEW s \in Runtimes, callbacks[s] # {} PROVE s = domainRuntime
  BY <1>1 DEF CallbackInv
<1>2. pollTask[r] # None /\ callbacks[r] # {}
  BY DEF LoopInv
<1>3. Members = callbacks[r]
  BY <1>1, <1>2 DEF Members
<1> QED  BY <1>1, <1>2, <1>3

(* A step that keeps callbacks and poll tasks, and ends no loop that is    *)
(* one, is a stuttering step of the abstraction.                           *)
LEMMA AbstractStutter ==
  ASSUME UNCHANGED <<callbacks, pollTask>>,
         \A r \in Runtimes : pollTask[r] # None =>
            (taskPc'[pollTask[r]] = "done" <=> taskPc[pollTask[r]] = "done")
  PROVE  UNCHANGED <<Members, Polling>>
  BY DEF Members, Polling

(* A loop dies while it polls for the domain.                              *)
LEMMA LoopDiesIsDie ==
  ASSUME IInv, NEW t \in Tasks, LoopDies(t) PROVE Abstract!Die
<1> USE DEF IInv, TypeOK
<1>1. domainRuntime \in Runtimes /\ pollTask[domainRuntime] = t /\ t # None
  BY NoneAssumption DEF LoopDies, LoopInv, Running
<1>2. \A r \in Runtimes : pollTask[r] # None => r = domainRuntime
  BY OnlyDomainRuntimePolls
<1>3. UNCHANGED <<callbacks, pollTask>> /\ taskPc[t] # "done" /\ taskPc'[t] = "done"
  BY DEF LoopDies, FinishTask
<1>4. Polling = "running"
  BY <1>1, <1>3 DEF Polling
<1>5. Polling' = "dead"
  BY <1>1, <1>2, <1>3 DEF Polling
<1>6. Members' = Members
  BY <1>3 DEF Members
<1> QED  BY <1>4, <1>5, <1>6 DEF Abstract!Die

(* An entry that registers joins: it had no callback, and afterwards the   *)
(* domain's runtime has a loop that is not done.                           *)
LEMMA RegisterIsJoin ==
  ASSUME IInv, NEW e \in Entries, Register(e) PROVE Abstract!Join(e)
<1> DEFINE d == entryRuntime[e]
<1> USE NoneAssumption DEF IInv, TypeOK
<1>1. d \in Runtimes /\ e \notin Registered
  BY DEF Register, EntryInv, Registered
<1>2. callbacks' = [callbacks EXCEPT ![d] = @ \cup {e}]
  BY DEF Register
<1>3. e \notin Members
  BY <1>1 DEF CallbackInv, Members
<1>4. Members' = Members \cup {e}
  BY <1>1, <1>2 DEF Members
<1>5. pollTask'[d] # None /\ taskPc'[pollTask'[d]] # "done"
  <2>1. CASE LoopNeeded(d)
    BY <1>1, <2>1 DEF Register, StartLoop
  <2>2. CASE ~LoopNeeded(d)
    BY <1>1, <2>2 DEF Register, LoopNeeded, taskVars
  <2> QED  BY <2>1, <2>2
<1>6. Polling' = "running"
  BY <1>1, <1>5 DEF Polling
<1> QED  BY <1>3, <1>4, <1>6 DEF Abstract!Join

(* An entry that shuts down leaves, and the last one stops the loop.       *)
LEMMA ShutdownIsLeave ==
  ASSUME IInv, NEW e \in Entries, Shutdown(e) PROVE Abstract!Leave(e)
<1> DEFINE d == entryRuntime[e]
<1> USE NoneAssumption DEF IInv, TypeOK
<1>1. d \in Runtimes /\ e \in callbacks[d]
  BY DEF Shutdown, EntryInv, CallbackInv, Registered
<1>2. Members = callbacks[d] /\ pollTask[d] \in Tasks
  BY <1>1, OnlyDomainRuntimePolls
<1>3. \A r \in Runtimes : pollTask[r] # None \/ callbacks[r] # {} => r = d
  BY <1>1, OnlyDomainRuntimePolls
<1>4. callbacks' = [callbacks EXCEPT ![d] = @ \ {e}]
  BY DEF Shutdown, Unregister
<1>5. Members' = Members \ {e} /\ Members' = callbacks'[d]
  BY <1>1, <1>2, <1>3, <1>4 DEF Members
<1>6. CASE callbacks'[d] = {}
  <2>1. pollTask' = [pollTask EXCEPT ![d] = None]
    BY <1>2, <1>6 DEF Shutdown, Unregister
  <2>2. \A r \in Runtimes : pollTask'[r] = None
    BY <1>1, <1>3, <2>1
  <2>3. Polling' = "stopped"
    BY <2>2 DEF Polling
  <2> QED  BY <1>1, <1>2, <1>5, <1>6, <2>3 DEF Abstract!Leave
<1>7. CASE callbacks'[d] # {}
  <2>1. UNCHANGED <<pollTask, taskPc>>
    BY <1>7 DEF Shutdown, Unregister
  <2>2. Polling' = Polling
    BY <2>1 DEF Polling
  <2> QED  BY <1>1, <1>2, <1>5, <1>7, <2>2 DEF Abstract!Leave
<1> QED  BY <1>6, <1>7

(* Every other step of an entry or a task is a stuttering step.            *)
LEMMA OtherStepsStutter ==
  ASSUME IInv,
         \/ \E e \in Entries : EntryStep(e) /\ ~Register(e) /\ ~Shutdown(e)
         \/ \E t \in Tasks : TaskStep(t) /\ ~LoopDies(t)
         \/ UNCHANGED vars
  PROVE  UNCHANGED <<Members, Polling>>
<1> USE DEF IInv, TypeOK, domainVars, runtimeVars, taskVars, entryVars
<1>1. ASSUME NEW e \in Entries, EntryStep(e), ~Register(e), ~Shutdown(e)
      PROVE  UNCHANGED <<callbacks, pollTask, taskPc>>
  <2>1. CASE PrepareCoordinator(e)
    <3>1. ASSUME NEW r \in Runtimes, NewRuntime(r)
          PROVE  callbacks[r] = {} /\ pollTask[r] = None
      BY <3>1 DEF NewRuntime, UnusedRuntime, EntryInv, CallbackInv, LoopInv
    <3>2. UNCHANGED <<callbacks, pollTask>>
      <4>1. ASSUME NEW r \in Runtimes, NewRuntime(r)
            PROVE  UNCHANGED <<callbacks, pollTask>>
        <5>1. callbacks[r] = {} /\ pollTask[r] = None
          BY <3>1, <4>1
        <5> QED  BY <4>1, <5>1 DEF NewRuntime
      <4> QED  BY <2>1, <4>1 DEF PrepareCoordinator
    <3> QED  BY <2>1, <3>2 DEF PrepareCoordinator
  <2> QED
    BY <1>1, <2>1 DEF EntryStep, BeginSetup, LoadFails, ForwardSucceeds,
       BeginUnload, UnloadRefused, TaskStopped, SaveFlushed,
       RemoveRuntimeIfUnused
<1>2. ASSUME NEW t \in Tasks, TaskStep(t), ~LoopDies(t),
             NEW r \in Runtimes, pollTask[r] # None
      PROVE  taskPc'[pollTask[r]] = "done" <=> taskPc[pollTask[r]] = "done"
  <2>1. CASE DeliverCancel(t)
    BY <1>2, <2>1 DEF DeliverCancel, FinishTask, LoopInv
  <2> QED
    BY <1>2, <2>1 DEF TaskStep, BeginCycle, BeginFetch, EndCycle
<1>3. ASSUME NEW t \in Tasks, TaskStep(t), ~LoopDies(t)
      PROVE  UNCHANGED <<callbacks, pollTask>>
  BY <1>3 DEF TaskStep, BeginCycle, BeginFetch, EndCycle, DeliverCancel,
              FinishTask
<1> QED
  BY <1>1, <1>2, <1>3, AbstractStutter DEF vars

(* The machinery of runtime objects, locks, tasks and cancellations        *)
(* implements one polling loop that runs while it has members.             *)
THEOREM ImplementsSingleton == Spec => ImplementsSingletonPolling
<1>1. Init => Abstract!Init
  BY DEF Init, Abstract!Init, Members, Polling
<1>2. IInv /\ [Next]_vars => [Abstract!Next]_(Abstract!vars)
  <2> SUFFICES ASSUME IInv, [Next]_vars
               PROVE  Abstract!Next \/ UNCHANGED <<Members, Polling>>
    BY DEF Abstract!vars
  <2>1. ASSUME NEW e \in Entries, Register(e) \/ Shutdown(e)
        PROVE  Abstract!Next
    BY <2>1, RegisterIsJoin, ShutdownIsLeave DEF Abstract!Next
  <2>2. ASSUME NEW t \in Tasks, LoopDies(t) PROVE Abstract!Next
    BY <2>2, LoopDiesIsDie DEF Abstract!Next
  <2> QED  BY <2>1, <2>2, OtherStepsStutter DEF Next
<1> QED
  BY <1>1, <1>2, Invariance, PTL DEF Spec, ImplementsSingletonPolling, Abstract!Spec
=============================================================================
