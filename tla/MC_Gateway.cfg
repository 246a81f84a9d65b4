SPECIFICATION GatewaySpec
CONSTANTS
  Requests = {r1, r2}
  CallRecords = {r1, r2}
  Inbox <- TwoCalls
  Servers = {s1, s2, s3}
  s1 = s1
  s2 = s2
  Schemas = {sc1}
  sc1 = sc1
  sc2 = sc2
  NamePrefixes = {"com.a"}
  Names = {"x"}
  DottedPrefixes = {"com.a"}
  WellFormedNames = {"x"}
  EmptyPart = ""
  EnforcePrefixFormat = TRUE
  AllowedPrefixes = {}
  NoTool = NoTool
  ValidMethods <- MCValidMethods
  NotificationNames <- MCNotificationNames
  OfferedTools <- MCOffered
  ConsultedTools <- MCConsulted
  SessionIds = {}
  Contexts <- OneContext
  NoContext = NoContext
  NoSession = NoSession
  Args = {good, other, null}
  good = good
  other = other
  null = null
  NullArgs = null
  NoName = NoName
  Conforms <- MCConforms
  EcpaSatisfied <- MCEcpa
  Anonymous = Anonymous
  PolicyAllows <- MCAllows
  PolicyFails <- MCFails
  Features = {"audit"}
  ProxyServers = {s1, s2}
  DefaultServer = s2
  NoServer = NoServer
  s3 = s3
  Table <- MCTable
  NoEntry = NoEntry
  Limit = 1
  Silent = {s1}
  StraySession = NoSessionId
  NoSessionId = NoSessionId
INVARIANT PermitsFollowMessages
PROPERTIES ImplementsRouter EveryMessageSettles
