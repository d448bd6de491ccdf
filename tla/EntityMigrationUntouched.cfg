SPECIFICATION Spec
CONSTANTS
  None = None
  Territories = {"a", "b"}
  Title <- SameTitle
  Names = {}
  Squatted <- Nobody
  Pasts <- OldPasts
INVARIANTS
  UntouchedIdsAreShort
