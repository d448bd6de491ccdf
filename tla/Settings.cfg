SPECIFICATION Spec
CONSTANTS
  Entries = {e1, e2}
  PollIntervals = {3, 6}
  StaleTimeouts = {6, 12}
  Default <- DefaultSettings
  MaxSaves = 2
  None = None
SYMMETRY Symmetry
INVARIANTS
  TypeOK
  SettledSettingsAgree
