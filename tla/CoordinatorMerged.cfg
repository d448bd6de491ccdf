SPECIFICATION Spec
CONSTANTS
  None = None
  Scenarios <- UnseenScenario
PROPERTIES
  LastAlertIsOneAlert
