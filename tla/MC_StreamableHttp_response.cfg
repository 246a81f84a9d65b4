SPECIFICATION HttpSpec
CHECK_DEADLOCK FALSE
CONSTANTS
  Ids = {"a", "b"}
  NullId = "null"
  BadId = "bad"
  NoId = "none"
  Methods <- MCMethods
  NoMethod = "none"
  BadMethod = "bad"
  Calls = {c1, c2}
  Keys = {k1, k2}
  StrangeKey = strange
  NoKey = nokey
  Bodies <- MCBodies
INVARIANTS RequestsGetResponses
