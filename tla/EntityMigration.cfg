SPECIFICATION Spec
CONSTANTS
  None = None
  Territories = {"a", "b"}
  Title <- SameTitle
  Names = {"x", "y"}
  Squatted <- Wanted
  Pasts <- AllPasts
INVARIANTS
  TypeOK
  CustomIdsStay
  LegacyIdsAreShortened
  LagSensorMigrates
