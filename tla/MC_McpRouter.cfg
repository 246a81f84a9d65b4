SPECIFICATION RouterSpec
CONSTANTS
  Requests = {r1}
  CallRecords = {r1}
  Inbox <- MCAll
  Servers = {s1, s2}
  s1 = s1
  s2 = s2
  Schemas = {sc1, sc2}
  sc1 = sc1
  sc2 = sc2
  NamePrefixes = {"com.a"}
  Names = {"x"}
  DottedPrefixes = {"com.a"}
  WellFormedNames = {"x"}
  EmptyPart = ""
  EnforcePrefixFormat = TRUE
  AllowedPrefixes = {}
  NoTool = NoTool
  ValidMethods <- MCValidMethods
  NotificationNames <- MCNotificationNames
  OfferedTools <- MCOffered
  ConsultedTools <- MCConsulted
  SessionIds = {k1}
  Contexts <- MCContexts
  NoContext = NoContext
  NoSession = NoSession
  Args = {good, other, null}
  good = good
  other = other
  null = null
  NullArgs = null
  NoName = NoName
  Conforms <- MCConforms
  EcpaSatisfied <- MCEcpa
  Anonymous = Anonymous
  PolicyAllows <- MCAllows
  PolicyFails <- MCFails
  Features = {"authorizer", "sessions", "audit", "ecpa", "egress"}
  ProxyServers = {s1}
  DefaultServer = s1
  NoServer = NoServer
  StraySession = StraySession
  NoSessionId = NoSessionId
INVARIANTS RouterTypeOK OnlyVettedCallsGoUpstream ServedByOneRegistration ShutSessionSendsNothing AuditAgreesWithUpstream LoggedBeforeUpstream
