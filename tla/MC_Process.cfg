CONSTANTS
  Ids = {"a", "b"}
  NullId = "null"
  BadId = "bad"
  NoId = "none"
  Methods <- MCMethods
  NoMethod = "none"
  BadMethod = "bad"
  Lines <- MCLines
  Blank = blank
  MaxLines = 3
  Names = {"echo", "b"}
  Settings <- MCSettings
  EchoTools = {"echo", "add", "get_time", "uppercase"}
  Missing = missing
  Broken = broken
  Connections = {c1, c2}
SPECIFICATION ProcessSpec
CHECK_DEADLOCK FALSE
INVARIANTS OneAnswerPerLine ServesAsConfigured
PROPERTY ProcessSettles
