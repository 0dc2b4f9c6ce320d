SPECIFICATION CollectSpec
CONSTANTS
  Episodes = 2
  Steps = 2
  Holds = TRUE
INVARIANTS
  ImagesOfTake
PROPERTIES
  LedgerSpec
  CollectionEnds
