--------------------------- MODULE EntryLifecycle ---------------------------
(***************************************************************************)
(* Set-up and unload of config entries and the singleton runtime they      *)
(* share: async_setup_entry, async_unload_entry and their helpers in       *)
(* __init__.py, the registration half of runtime.py and the start and      *)
(* shutdown of a coordinator.  Every await is a point where other entries  *)
(* and poll tasks may run; what lies between two awaits is one action.     *)
(* What a cycle fetches and how long it takes is PollingRuntime's subject. *)
(***************************************************************************)
EXTENDS Naturals, FiniteSets

CONSTANTS Entries,   \* config entries, one per territory
          Runtimes,  \* identities of UAAlertsRuntime objects
          Tasks,     \* identities of asyncio poll tasks
          None

ASSUME NoneAssumption == None \notin Entries \cup Runtimes \cup Tasks

VARIABLES
  domainRuntime,    \* UAAlertsDomainData.runtime
  runtimeLock,      \* entry holding UAAlertsDomainData.runtime_lock
  callbacks,        \* runtime -> entries registered with it
  pollTask,         \* runtime -> its _poll_task
  firstCycle,       \* runtime -> is the _first_cycle event set?
  requestLock,      \* runtime -> task holding its _request_lock
  taskPc,           \* where a poll task is in _async_poll_loop
  taskRuntime,      \* the runtime (self) whose loop the task runs
  cancelRequested,  \* Task.cancel() was called and is not delivered yet
  inFirstCycle,     \* the loop's local first_cycle
  entryPc,          \* where an entry is in set-up or unload
  entryRuntime,     \* coordinator.runtime
  awaitedTask       \* the task async_unregister awaits for the entry

domainVars == <<domainRuntime, runtimeLock>>
runtimeVars == <<callbacks, pollTask, firstCycle, requestLock>>
taskVars == <<taskPc, taskRuntime, cancelRequested, inFirstCycle>>
entryVars == <<entryPc, entryRuntime, awaitedTask>>
vars == <<domainVars, runtimeVars, taskVars, entryVars>>

EntryPcs == {"idle", "loading", "registering", "waiting", "forwarding",
             "loaded", "unloading", "failed", "stopping", "flushing",
             "removing"}
TaskPcs == {"created", "queued", "fetching", "sleeping", "done"}

TypeOK ==
  /\ domainRuntime \in Runtimes \cup {None}
  /\ runtimeLock \in Entries \cup {None}
  /\ callbacks \in [Runtimes -> SUBSET Entries]
  /\ pollTask \in [Runtimes -> Tasks \cup {None}]
  /\ firstCycle \in [Runtimes -> BOOLEAN]
  /\ requestLock \in [Runtimes -> Tasks \cup {None}]
  /\ taskPc \in [Tasks -> TaskPcs]
  /\ taskRuntime \in [Tasks -> Runtimes \cup {None}]
  /\ cancelRequested \in [Tasks -> BOOLEAN]
  /\ inFirstCycle \in [Tasks -> BOOLEAN]
  /\ entryPc \in [Entries -> EntryPcs]
  /\ entryRuntime \in [Entries -> Runtimes \cup {None}]
  /\ awaitedTask \in [Entries -> Tasks \cup {None}]

Init ==
  /\ domainRuntime = None
  /\ runtimeLock = None
  /\ callbacks = [r \in Runtimes |-> {}]
  /\ pollTask = [r \in Runtimes |-> None]
  /\ firstCycle = [r \in Runtimes |-> FALSE]
  /\ requestLock = [r \in Runtimes |-> None]
  /\ taskPc = [t \in Tasks |-> "done"]
  /\ taskRuntime = [t \in Tasks |-> None]
  /\ cancelRequested = [t \in Tasks |-> FALSE]
  /\ inFirstCycle = [t \in Tasks |-> FALSE]
  /\ entryPc = [e \in Entries |-> "idle"]
  /\ entryRuntime = [e \in Entries |-> None]
  /\ awaitedTask = [e \in Entries |-> None]

(* Identities nothing refers to: a new object may take one.                *)
UnusedRuntime(r) == /\ r # domainRuntime
                    /\ \A e \in Entries : entryRuntime[e] # r
                    /\ \A t \in Tasks : taskRuntime[t] # r

UnusedTask(t) == /\ taskPc[t] = "done"
                 /\ \A r \in Runtimes : pollTask[r] # t
                 /\ \A e \in Entries : awaitedTask[e] # t

(* _first_cycle.set() wakes every entry blocked in wait(); clearing the    *)
(* event afterwards does not put it back to sleep.                         *)
WakeWaiters(r) ==
  entryPc' = [e \in Entries |->
                IF entryPc[e] = "waiting" /\ entryRuntime[e] = r
                THEN "forwarding" ELSE entryPc[e]]

CompleteFirstCycle(r) == /\ firstCycle' = [firstCycle EXCEPT ![r] = TRUE]
                         /\ WakeWaiters(r)

-----------------------------------------------------------------------------
(* An entry's set-up.                                                      *)

BeginSetup(e) ==
  /\ entryPc[e] = "idle"
  /\ entryPc' = [entryPc EXCEPT ![e] = "loading"]
  /\ UNCHANGED <<domainVars, runtimeVars, taskVars, entryRuntime, awaitedTask>>

(* Settings, catalog or latency storage raise: nothing is held yet.        *)
LoadFails(e) ==
  /\ entryPc[e] = "loading"
  /\ entryPc' = [entryPc EXCEPT ![e] = "idle"]
  /\ UNCHANGED <<domainVars, runtimeVars, taskVars, entryRuntime, awaitedTask>>

NewRuntime(r) ==
  /\ UnusedRuntime(r)
  /\ domainRuntime' = r
  /\ callbacks' = [callbacks EXCEPT ![r] = {}]
  /\ pollTask' = [pollTask EXCEPT ![r] = None]
  /\ firstCycle' = [firstCycle EXCEPT ![r] = FALSE]
  /\ requestLock' = [requestLock EXCEPT ![r] = None]

(* _async_prepare_coordinator up to the await of the registration: take    *)
(* the domain lock, find or create the runtime, create the coordinator.    *)
PrepareCoordinator(e) ==
  /\ entryPc[e] = "loading"
  /\ runtimeLock = None
  /\ runtimeLock' = e
  /\ \/ /\ domainRuntime = None
        /\ \E r \in Runtimes : NewRuntime(r)
     \/ /\ domainRuntime # None
        /\ UNCHANGED <<domainRuntime, runtimeVars>>
  /\ entryPc' = [entryPc EXCEPT ![e] = "registering"]
  /\ entryRuntime' = [entryRuntime EXCEPT ![e] = domainRuntime']
  /\ UNCHANGED <<taskVars, awaitedTask>>

(* Mistake: _first_cycle is not cleared for the new loop.                  *)
StartLoopKeepingEvent(r) ==
  \E t \in Tasks :
    /\ UnusedTask(t)
    /\ pollTask' = [pollTask EXCEPT ![r] = t]
    /\ taskPc' = [taskPc EXCEPT ![t] = "created"]
    /\ taskRuntime' = [taskRuntime EXCEPT ![t] = r]
    /\ inFirstCycle' = [inFirstCycle EXCEPT ![t] = TRUE]
    /\ UNCHANGED <<firstCycle, cancelRequested>>

StartLoop(r) ==
  \E t \in Tasks :
    /\ UnusedTask(t)
    /\ pollTask' = [pollTask EXCEPT ![r] = t]
    /\ firstCycle' = [firstCycle EXCEPT ![r] = FALSE]
    /\ taskPc' = [taskPc EXCEPT ![t] = "created"]
    /\ taskRuntime' = [taskRuntime EXCEPT ![t] = r]
    /\ inFirstCycle' = [inFirstCycle EXCEPT ![t] = TRUE]
    /\ UNCHANGED cancelRequested

(* Mistakes: every registration starts a loop; a dead loop is never        *)
(* started again.                                                          *)
LoopAlwaysNeeded(r) == r \in Runtimes
LoopNeededOnce(r) == pollTask[r] = None

(* There is no poll task, or it is done.                                   *)
LoopNeeded(r) == pollTask[r] \notin {t \in Tasks : taskPc[t] # "done"}

(* async_register, the release of the domain lock, and the entry's first   *)
(* look at the _first_cycle event.                                         *)
Register(e) ==
  LET r == entryRuntime[e] IN
  /\ entryPc[e] = "registering"
  /\ callbacks' = [callbacks EXCEPT ![r] = @ \cup {e}]
  /\ \/ LoopNeeded(r) /\ StartLoop(r)
     \/ ~LoopNeeded(r) /\ UNCHANGED <<pollTask, firstCycle, taskVars>>
  /\ runtimeLock' = None
  /\ entryPc' = [entryPc EXCEPT ![e] =
                   IF firstCycle'[r] THEN "forwarding" ELSE "waiting"]
  /\ UNCHANGED <<domainRuntime, requestLock, entryRuntime, awaitedTask>>

ForwardSucceeds(e) ==
  /\ entryPc[e] = "forwarding"
  /\ entryPc' = [entryPc EXCEPT ![e] = "loaded"]
  /\ UNCHANGED <<domainVars, runtimeVars, taskVars, entryRuntime, awaitedTask>>

-----------------------------------------------------------------------------
(* An entry's unload, and the clean-up of a set-up that failed.            *)

BeginUnload(e) ==
  /\ entryPc[e] = "loaded"
  /\ entryPc' = [entryPc EXCEPT ![e] = "unloading"]
  /\ UNCHANGED <<domainVars, runtimeVars, taskVars, entryRuntime, awaitedTask>>

(* async_unload_platforms returns False: the entry keeps its registration. *)
UnloadRefused(e) ==
  /\ entryPc[e] = "unloading"
  /\ entryPc' = [entryPc EXCEPT ![e] = "failed"]
  /\ UNCHANGED <<domainVars, runtimeVars, taskVars, entryRuntime, awaitedTask>>

(* Mistake: the poll task is forgotten but not cancelled.                  *)
UnregisterLeavingLoop(e) ==
  LET r == entryRuntime[e]
      t == pollTask[r]
  IN
  /\ callbacks' = [callbacks EXCEPT ![r] = @ \ {e}]
  /\ IF callbacks'[r] = {} /\ t # None
     THEN /\ pollTask' = [pollTask EXCEPT ![r] = None]
          /\ awaitedTask' = [awaitedTask EXCEPT ![e] = t]
     ELSE UNCHANGED <<pollTask, awaitedTask>>
  /\ entryPc' = [entryPc EXCEPT ![e] = "stopping"]
  /\ UNCHANGED <<domainVars, firstCycle, requestLock, taskVars, entryRuntime>>

(* async_unregister up to its await: drop the callback and, if it was the  *)
(* last one, take the poll task away from the runtime and cancel it.       *)
Unregister(e) ==
  LET r == entryRuntime[e]
      t == pollTask[r]
  IN
  /\ callbacks' = [callbacks EXCEPT ![r] = @ \ {e}]
  /\ IF callbacks'[r] = {} /\ t # None
     THEN /\ pollTask' = [pollTask EXCEPT ![r] = None]
          /\ awaitedTask' = [awaitedTask EXCEPT ![e] = t]
          /\ cancelRequested' = [cancelRequested EXCEPT ![t] =
                                   taskPc[t] # "done"]
     ELSE UNCHANGED <<pollTask, awaitedTask, cancelRequested>>
  /\ entryPc' = [entryPc EXCEPT ![e] = "stopping"]
  /\ UNCHANGED <<domainVars, firstCycle, requestLock, taskPc, taskRuntime,
                 inFirstCycle, entryRuntime>>

(* coordinator.async_shutdown, reached when the platforms did unload or    *)
(* when forwarding the set-up to them raised.                              *)
Shutdown(e) == entryPc[e] \in {"unloading", "forwarding"} /\ Unregister(e)

TaskStopped(e) ==
  /\ entryPc[e] = "stopping"
  /\ awaitedTask[e] # None => taskPc[awaitedTask[e]] = "done"
  /\ entryPc' = [entryPc EXCEPT ![e] = "flushing"]
  /\ awaitedTask' = [awaitedTask EXCEPT ![e] = None]
  /\ UNCHANGED <<domainVars, runtimeVars, taskVars, entryRuntime>>

(* The latency save task the shutdown awaits has ended.                    *)
SaveFlushed(e) ==
  /\ entryPc[e] = "flushing"
  /\ entryPc' = [entryPc EXCEPT ![e] = "removing"]
  /\ UNCHANGED <<domainVars, runtimeVars, taskVars, entryRuntime, awaitedTask>>

(* Mistake: the runtime is dropped by whoever leaves first.                *)
RemoveRuntime(e) ==
  /\ entryPc[e] = "removing"
  /\ runtimeLock = None
  /\ domainRuntime' = IF domainRuntime = entryRuntime[e] THEN None
                      ELSE domainRuntime
  /\ entryPc' = [entryPc EXCEPT ![e] = "idle"]
  /\ entryRuntime' = [entryRuntime EXCEPT ![e] = None]
  /\ UNCHANGED <<runtimeLock, runtimeVars, taskVars, awaitedTask>>

(* _async_remove_runtime_if_unused; the lock is taken and released with no *)
(* await between.                                                          *)
RemoveRuntimeIfUnused(e) ==
  LET r == entryRuntime[e] IN
  /\ entryPc[e] = "removing"
  /\ runtimeLock = None
  /\ domainRuntime' = IF domainRuntime = r /\ callbacks[r] = {}
                      THEN None ELSE domainRuntime
  /\ entryPc' = [entryPc EXCEPT ![e] = "idle"]
  /\ entryRuntime' = [entryRuntime EXCEPT ![e] = None]
  /\ UNCHANGED <<runtimeLock, runtimeVars, taskVars, awaitedTask>>

-----------------------------------------------------------------------------
(* The poll tasks.                                                         *)

(* Mistake: the loop waits for its wake-up event without a timeout.        *)
BeginOnlyCycle(t) ==
  /\ taskPc[t] = "created"
  /\ ~cancelRequested[t]
  /\ taskPc' = [taskPc EXCEPT ![t] = "queued"]
  /\ UNCHANGED <<domainVars, runtimeVars, taskRuntime, cancelRequested,
                 inFirstCycle, entryVars>>

(* The loop starts a cycle and queues for the request lock.                *)
BeginCycle(t) ==
  /\ taskPc[t] \in {"created", "sleeping"}
  /\ ~cancelRequested[t]
  /\ taskPc' = [taskPc EXCEPT ![t] = "queued"]
  /\ UNCHANGED <<domainVars, runtimeVars, taskRuntime, cancelRequested,
                 inFirstCycle, entryVars>>

(* Mistakes: the request is sent without the lock; the lock is taken in    *)
(* the name of the runtime instead of the task.                            *)
BeginFetchUnlocked(t) ==
  /\ taskPc[t] = "queued"
  /\ ~cancelRequested[t]
  /\ taskPc' = [taskPc EXCEPT ![t] = "fetching"]
  /\ UNCHANGED <<domainVars, runtimeVars, taskRuntime, cancelRequested,
                 inFirstCycle, entryVars>>

BeginFetchForRuntime(t) ==
  LET r == taskRuntime[t] IN
  /\ taskPc[t] = "queued"
  /\ ~cancelRequested[t]
  /\ requestLock[r] = None
  /\ requestLock' = [requestLock EXCEPT ![r] = r]
  /\ taskPc' = [taskPc EXCEPT ![t] = "fetching"]
  /\ UNCHANGED <<domainVars, callbacks, pollTask, firstCycle, taskRuntime,
                 cancelRequested, inFirstCycle, entryVars>>

BeginFetch(t) ==
  LET r == taskRuntime[t] IN
  /\ taskPc[t] = "queued"
  /\ ~cancelRequested[t]
  /\ requestLock[r] = None
  /\ requestLock' = [requestLock EXCEPT ![r] = t]
  /\ taskPc' = [taskPc EXCEPT ![t] = "fetching"]
  /\ UNCHANGED <<domainVars, callbacks, pollTask, firstCycle, taskRuntime,
                 cancelRequested, inFirstCycle, entryVars>>

(* The loop's finally clause.                                              *)
MarkFirstCycle(t) ==
  IF inFirstCycle[t] THEN CompleteFirstCycle(taskRuntime[t])
                     ELSE UNCHANGED <<firstCycle, entryPc>>

(* A cycle ends, successful or not; the loop sleeps, or starts over at     *)
(* once when the cycle took longer than the poll interval.                 *)
EndCycle(t) ==
  /\ taskPc[t] = "fetching"
  /\ ~cancelRequested[t]
  /\ requestLock' = [requestLock EXCEPT ![taskRuntime[t]] = None]
  /\ MarkFirstCycle(t)
  /\ inFirstCycle' = [inFirstCycle EXCEPT ![t] = FALSE]
  /\ \E next \in {"sleeping", "queued"} :
        taskPc' = [taskPc EXCEPT ![t] = next]
  /\ UNCHANGED <<domainVars, callbacks, pollTask, taskRuntime,
                 cancelRequested, entryRuntime, awaitedTask>>

FinishTask(t) ==
  /\ taskPc' = [taskPc EXCEPT ![t] = "done"]
  /\ taskRuntime' = [taskRuntime EXCEPT ![t] = None]
  /\ cancelRequested' = [cancelRequested EXCEPT ![t] = FALSE]
  /\ inFirstCycle' = [inFirstCycle EXCEPT ![t] = FALSE]
  /\ UNCHANGED <<domainVars, callbacks, pollTask, entryRuntime, awaitedTask>>

(* Mistake: _first_cycle is set only after a cycle without an exception.   *)
LoopDiesSilently(t) ==
  /\ taskPc[t] = "fetching"
  /\ ~cancelRequested[t]
  /\ requestLock' = [requestLock EXCEPT ![taskRuntime[t]] = None]
  /\ UNCHANGED <<firstCycle, entryPc>>
  /\ FinishTask(t)

(* An exception async_fetch does not expect ends the loop for good.        *)
LoopDies(t) ==
  /\ taskPc[t] = "fetching"
  /\ ~cancelRequested[t]
  /\ requestLock' = [requestLock EXCEPT ![taskRuntime[t]] = None]
  /\ CompleteFirstCycle(taskRuntime[t])
  /\ FinishTask(t)

(* CancelledError reaches the task.  One that never ran leaves no trace;   *)
(* one inside async_fetch still runs the finally clauses on its way out.   *)
DeliverCancel(t) ==
  /\ cancelRequested[t]
  /\ taskPc[t] # "done"
  /\ requestLock' = IF taskPc[t] = "fetching"
                    THEN [requestLock EXCEPT ![taskRuntime[t]] = None]
                    ELSE requestLock
  /\ IF taskPc[t] \in {"queued", "fetching"}
     THEN MarkFirstCycle(t) ELSE UNCHANGED <<firstCycle, entryPc>>
  /\ FinishTask(t)

-----------------------------------------------------------------------------
EntryStep(e) ==
  \/ BeginSetup(e) \/ LoadFails(e) \/ PrepareCoordinator(e) \/ Register(e)
  \/ ForwardSucceeds(e) \/ BeginUnload(e) \/ UnloadRefused(e) \/ Shutdown(e)
  \/ TaskStopped(e) \/ SaveFlushed(e) \/ RemoveRuntimeIfUnused(e)

TaskStep(t) == \/ BeginCycle(t) \/ BeginFetch(t) \/ EndCycle(t)
               \/ LoopDies(t) \/ DeliverCancel(t)

Next == (\E e \in Entries : EntryStep(e)) \/ (\E t \in Tasks : TaskStep(t))

Spec == Init /\ [][Next]_vars

(* The event loop runs what is ready, requests end by their timeout, the   *)
(* storage answers and asyncio locks serve their waiters in turn: that is  *)
(* strong fairness for the two steps that need the domain lock.  Starting  *)
(* a set-up or an unload is the user's choice and is not fair.             *)
Fairness ==
  /\ \A t \in Tasks :
       /\ WF_vars(BeginCycle(t))
       /\ WF_vars(BeginFetch(t))
       /\ WF_vars(EndCycle(t) \/ LoopDies(t))
       /\ WF_vars(DeliverCancel(t))
  /\ \A e \in Entries :
       /\ SF_vars(LoadFails(e) \/ PrepareCoordinator(e))
       /\ WF_vars(Register(e))
       /\ WF_vars(ForwardSucceeds(e) \/ Shutdown(e))
       /\ WF_vars(UnloadRefused(e) \/ Shutdown(e))
       /\ WF_vars(TaskStopped(e))
       /\ WF_vars(SaveFlushed(e))
       /\ SF_vars(RemoveRuntimeIfUnused(e))

FairSpec == Spec /\ Fairness

-----------------------------------------------------------------------------
Running(t) == taskPc[t] # "done" /\ ~cancelRequested[t]

Registered == {e \in Entries : entryPc[e] \in
                 {"waiting", "forwarding", "loaded", "unloading", "failed"}}

(* ARCHITECTURE.md: one runtime and one polling loop for the domain.  No   *)
(* interleaving of set-ups, unloads, failures and crashes leaves two loops *)
(* that would both go on polling.                                          *)
SinglePoller == \A t, u \in Tasks : Running(t) /\ Running(u) => t = u

(* Fetches of one runtime never overlap (ARCHITECTURE.md: the locks prevent *)
(* overlapping fetches), although a cancelled loop may still be inside its *)
(* request when an entry registers and starts the next loop.               *)
SerializedRequests ==
  \A t, u \in Tasks :
    /\ taskPc[t] = "fetching" /\ taskPc[u] = "fetching"
    /\ taskRuntime[t] = taskRuntime[u]
    => t = u

(* A set-up entry is registered with the domain's current runtime, and     *)
(* that runtime has a poll task nobody has cancelled.  The domain lock is  *)
(* what keeps a last-entry unload from dropping the runtime under it.      *)
RegisteredEntriesArePolled ==
  \A e \in Registered :
    /\ entryRuntime[e] = domainRuntime
    /\ e \in callbacks[domainRuntime]
    /\ pollTask[domainRuntime] # None
    /\ ~cancelRequested[pollTask[domainRuntime]]

(* No leak: a loop that will go on polling belongs to the domain's runtime *)
(* and serves at least one entry, and a runtime the domain keeps is in use *)
(* by some entry.                                                          *)
NoOrphan ==
  /\ \A t \in Tasks : Running(t) =>
       /\ taskRuntime[t] = domainRuntime
       /\ callbacks[domainRuntime] # {}
  /\ domainRuntime # None => \E e \in Entries : entryRuntime[e] = domainRuntime

(* async_wait_first_cycle means the cycle of the loop that serves the      *)
(* entry: a predecessor's late cancellation never sets the event for a     *)
(* loop that has not ended its first cycle.                                *)
FirstCycleIsOwn ==
  \A r \in Runtimes :
    firstCycle[r] /\ pollTask[r] # None => ~inFirstCycle[pollTask[r]]

(* No set-up blocks forever on the first cycle, whatever happens to loops. *)
SetupReleased ==
  \A e \in Entries : entryPc[e] = "waiting" ~> entryPc[e] # "waiting"

(* A shutdown ends, and the entry can be set up again.                     *)
ShutdownCompletes ==
  \A e \in Entries : entryPc[e] = "stopping" ~> entryPc[e] = "idle"

(* The two waits of an entry for the work of a poll task come to an end.   *)
NobodyWaitsForever == SetupReleased /\ ShutdownCompletes

(* A loaded entry keeps being polled, or its loop has died.                *)
PollingContinues ==
  \A e \in Entries :
    entryPc[e] = "loaded" ~>
      \/ entryPc[e] # "loaded"
      \/ \E t \in Tasks :
            taskPc[t] = "fetching" /\ taskRuntime[t] = entryRuntime[e]
      \/ LoopNeeded(entryRuntime[e])

-----------------------------------------------------------------------------
(* What the whole machinery amounts to.                                    *)
Members == UNION {callbacks[r] : r \in Runtimes}

Polling ==
  CASE \A r \in Runtimes : pollTask[r] = None -> "stopped"
    [] \E r \in Runtimes : pollTask[r] # None /\ taskPc[pollTask[r]] # "done"
         -> "running"
    [] OTHER -> "dead"

Abstract ==
  INSTANCE SingletonPolling WITH members <- Members, polling <- Polling

ImplementsSingletonPolling == Abstract!Spec
=============================================================================
