SPECIFICATION FairSpec
CONSTANTS
  Entries = {e1, e2}
  Runtimes = {r1, r2}
  Tasks = {t1, t2, t3}
  None = None
INVARIANTS
  TypeOK
  SinglePoller
  SerializedRequests
  RegisteredEntriesArePolled
  NoOrphan
  FirstCycleIsOwn
PROPERTIES
  ImplementsSingletonPolling
  NobodyWaitsForever
  PollingContinues
CHECK_DEADLOCK FALSE
