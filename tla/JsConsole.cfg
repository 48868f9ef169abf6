SPECIFICATION Spec
CONSTANTS
  Typed = {"x", " "}
  Delimiters = {" "}
  LineLen = 4
  HistoryLen = 2
INVARIANTS
  TypeOK
  ScreenShowsLine
  NoStaleParam
PROPERTIES
  QuietAfterDeinit
  ImplementsEditor
CHECK_DEADLOCK FALSE
