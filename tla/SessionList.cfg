SPECIFICATION FairSpec
CONSTANTS
  SessionSize = 3
  Items <- MCItems
INVARIANTS
  TypeOK
  NothingLost
  ResendsInOrder
PROPERTIES
  ImplementsSession
  WalkEnds
