SPECIFICATION ChecksSpec
CHECK_DEADLOCK FALSE
CONSTANTS
  Servers = {s1, s2}
  Schemas = {sc1, sc2}
  NamePrefixes <- MCPrefixes
  Names <- MCNames
  DottedPrefixes <- MCDotted
  WellFormedNames <- MCWellFormed
  EmptyPart = ""
  EnforcePrefixFormat = TRUE
  AllowedPrefixes = {}
  NoTool = NoTool
  Documents = {"small", "other", "broken", "foreign", "long1", "long2", "alone", "cut"}
  Keys = {"small", "other", "broken", "foreign", "long1", "alone", "cut"}
  KeyOf <- MCKeys
  Long = {"long1", "long2", "alone", "cut"}
  SplitsChar = {"cut"}
  Foreign = {"foreign"}
  Compilable = {"small", "other", "foreign", "long1", "long2", "alone"}
  Instances = {"i", "j"}
  Accepts <- MCAccepts
  NoSchema = "no schema"
  Tools = {"fs:read", "fs:write"}
  Fields = {"path", "args"}
  Values = {"good", "bad", "odd"}
  Missing = "missing"
  Sets <- MCSets
  NoSet = noset
  OtherNames = {"our_regex"}
  DefaultHits <- MCDefaultHits
  Files = {"f1", "f2", "f3", "f4", "f5"}
  Content <- MCContent
  Unreadable = unreadable
  Words = {"a", "b", "c", "open", "close", "redacted"}
  Texts <- MCTexts
  Patterns <- MCPatterns
  Replacement <- MCReplacement
  MaxBlocks = 2
  Evaluations = {e1, e2}
  Callers = {c1, c2}
  Scopes = {"call", "admin"}
  Methods = {"tools/call", "tools/list"}
  ResourceNames = {"echo", "quoted"}
  Anonymous = "anonymous"
  AnyName = "any"
  Quoted = {"quoted"}
  PolicyFiles <- MCFiles
  Anything = Anything
  None = None
  LimitKeys <- MCLimitKeys
  RuleSet <- MCRules
  DefaultRule <- Slow
  NoRule = NoRule
  AnyValue = AnyValue
  NoBucket = NoBucket
  Unit = 2
  MinPriority <- MCMinPriority
  Never = Never
  MaxTime = 2
SYMMETRY CallersAlike
CONSTRAINT InTime
INVARIANTS ChecksTypeOK UnsharedKeysAreExact LoadedWhole SimpleSetsAreExact NoMatchIsLeftWhole FindingsReachTheRouter ScopesAloneDecide WithinCapacityAndRate ResetAfterIsEnough
PROPERTIES NoTakeover
