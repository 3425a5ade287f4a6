CONSTANTS
  MaxEvents = 5
  Usages <- SmallUsages
  PieceChars = 5
  Price <- SomePrice
CHECK_DEADLOCK FALSE
SPECIFICATION FairSpec
INVARIANTS
  TypeOK
  RoleOnFirstChunkOnly
  
  UsageAgrees
  CostWithinRates
  FinishTellsTheTruth
PROPERTIES
  KeepsEventStream
  StreamEnds
