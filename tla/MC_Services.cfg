CONSTANTS
  Callers = {"r", "s", "t"}
  Producers <- MCProducers
  Policies = {"p"}
  Tenants = {"default", "acme"}
  Default = "default"
  Writers = {v, w}
  Creators = {"c"}
  Background = "timer"
  Refreshers = {"timer", "forced"}
  NoRow = norow
  First = first
SPECIFICATION ServicesSpec
CHECK_DEADLOCK FALSE
INVARIANTS ServicesTypeOK EveryProducerTried VersionsCountUpdates
PROPERTIES PublishingEnds CacheOfPlaneConverges
