SPECIFICATION Spec
CONSTANTS
  None = None
  Standalone = {"s"}
  MinFull = 3
  Anchors <- SmallAnchors
  Bundled <- SmallBundled
  Dialogues = {"d1", "d2"}
  Casts <- AllCasts
INVARIANTS
  TypeOK
  MemoryIsWhatARestartFinds
  CatalogsAreSound
  PartsBelongToWholes
PROPERTIES
  RefreshEnds
