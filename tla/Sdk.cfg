SPECIFICATION FairSpec
CONSTANTS
  g1 = g1
  g2 = g2
  d1 = d1
  d2 = d2
  Gateways = {g1, g2}
  Delegations = {d1, d2}
  Children <- OneChild
  MaxActive = 1
  Spillover = {d1}
  WallTime = 2
  Deadline = 2
  MaxRetries = 1
  MaxRedirects = 1
  GracePeriod = 1
  MaxCalls = 1
  CancelAt = {g1}
  NoTime = NoTime
  AgentIds = {s1, s2}
  MaxAgents = 1
  NoHandle = NoHandle
  Coroutines = {c1, c2}
  Requests = {1, 4}
  BaseRate = 2
  MinRate = 1
  Minute = 2
  MaxWait = 2
  Cooldown = 2
  Threshold = 1
  NeverLimited = NeverLimited
  Documents <- SomeDocuments
  environ <- NothingSet
  Defaults <- SomeDefaults
  Callers = {c1}
  Absent = Absent
  Bad = Bad
  Infinite = Infinite
INVARIANTS SdkTypeOK EndsAreKnown
PROPERTY SdkProgress
CHECK_DEADLOCK FALSE
