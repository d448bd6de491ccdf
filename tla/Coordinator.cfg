SPECIFICATION Spec
CONSTANTS
  None = None
  Scenarios <- AllScenarios
INVARIANTS
  TypeOK
  EventsTellWhatIsShown
  ThreatMeasuredOncePerAlert
  StorageIsCurrent
  TrackersAgree
  HistoryMatchesSource
  PeakSurvivesRestart
  EntitiesAgree
  RememberedIsShown
PROPERTIES
  OnlyTheSourceClears
