SPECIFICATION SseSpec
CHECK_DEADLOCK FALSE
CONSTANTS
  Ids = {"a"}
  NullId = "null"
  BadId = "bad"
  NoId = "none"
  Methods <- MCMethods
  NoMethod = "none"
  BadMethod = "bad"
  Capacity = 1
  NoStream = nostream
  NoClient = noclient
  Bodies <- MCBodies
  Clients = {c1, c2}
  Streams = {s1, s2}
  Posts = {p1, p2}
INVARIANTS SseTypeOK AnswersOnTheirStream NothingForNotifications
PROPERTIES EveryMessageTaken ReplacedStreamEnds
