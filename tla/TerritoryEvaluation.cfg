SPECIFICATION Spec
CONSTANTS
  None = None
  Catalog <- SmallCatalog
  Records <- SmallRecords
  MaxRecords = 3
INVARIANTS
  TypeOK
  AreasAgreeWithPlaces
  SourceAccountsForLevel
  InvalidRowsStayLocal
CHECK_DEADLOCK FALSE
