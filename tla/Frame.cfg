SPECIFICATION Spec
CONSTANTS
  ClientIdLens = {0, 8, 115, 116}
  TopicLens = {3, 122, 123}
  DataLens = {0, 1, 2, 120, 121, 122, 123, 16376, 16377, 16378, 16379,
              2097144, 2097145}
  Ids = {1, 255, 256, 65535}
  Raw = {0, 127, 128, 255}
  Cuts = {1, 2, 3, 4, 5}
INVARIANTS
  TypeOK
  LengthIsBody
  FlagsSayArgs
  
  OnlyWholeFrames
  SizeIsFrame
CHECK_DEADLOCK FALSE
