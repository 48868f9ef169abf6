SPECIFICATION FairSpec
CONSTANTS
  K = 4
  D = 3
INVARIANTS
  TypeOK
  NoSpuriousTimeout
  TimeoutMeansSilence
  DetectedInTime
  KeepsAlive
PROPERTIES
  DeadLinkTimesOut
CHECK_DEADLOCK FALSE
