SPECIFICATION Spec
CONSTANTS
  None = None
  Scenarios <- OneThreatScenario
INVARIANTS
  ThreatMeasuredOnce
