SPECIFICATION FairSpec
CONSTANTS
  Entries = {e1, e2}
  PollIntervals = {6, 8}
  StaleTimeouts = {12, 16}
  CycleLimit = 7
  AgeCap = 32
INVARIANTS
  TypeOK
  StaleExposureBounded
  SleepMatchesInterval
PROPERTIES
  OneFailureTolerated
  PollingRateBounded
  EveryEntryGetsAView
