SPECIFICATION Spec
CONSTANTS
  Messages = {m1, m2, m3, m4}
  Sent = {m3}
  Unsavable = {}
  Tokens = {t1}
  MaxItems = 3
  DedupWindow = 0
  Backend = "json"
  MaxTime = 1
  Again = {m1, m2}
  MaxOrder = 3
  Ackable = {m3}
  NoToken = NoToken
  NoMessage = NoMessage
  NoRecord = NoRecord
  m1 = m1
  m2 = m2
  m3 = m3
  m4 = m4
  t1 = t1
  t2 = t2
  TokenOf <- TwoAttempts
  d1 = d1
  d2 = d2
  AgentTasks = {t1}
  MaxSections = 2
  NoTaskId = NoTaskId
  ContextIds = {x1}
  ContextAgents = {a1, a2, a3}
  Aliased = {a3}
  MaxVersion = 3
  MaxCreated = 1
  NoContext = NoContext
  NotLocked = NotLocked
  EngineNodes = {1, 2, 3}
  NoGraph = NoGraph
  SharedIds = {h1, h2, h3}
  SharedAgents = {a1, a2}
  NoOffer = NoOffer
  h1 = h1
  h2 = h2
  h3 = h3
  CanDo <- SomeCapabilities
  MaxTasks = 1
  Unreadable = {h3}
  RoomClients = {c1, c2}
  Papers = {p1}
  Verdicts = {v1, v2}
  MaxStores = 2
  NoStore = NoStore
  NoVerdict = NoVerdict
  A2ATasks = {t1, t2}
  Handlers = {s1, s2}
  Artifacts2 = {x1}
  Durable = TRUE
  NoTask = NoTask
  a1 = a1
  a2 = a2
  PoolThreads = {t1, t2}
  CallRequests <- SomeCalls
  SchedulerAgent = SchedulerAgent
  Nobody = Nobody
  Burst = 2
  PerTick = 1
  MaxClock = 2
  AppThreads = {t1, t2}
  k1 = k1
  k2 = k2
  Flags = {k1, k2}
  EnvFlags <- SomeEnvFlags
  EnvRetries = Invalid
  FileFlags <- SomeFileFlags
  FileRetries = 7
  CustomFlags <- SomeCustomFlags
  FlagTexts = {"0"}
  NoText = NoText
  Invalid = Invalid
  NoFlags = NoFlags
  NoSettings = NoSettings
  MaxInstances = 2
  Writers = {t1, t2}
  Duties <- SomeDuties
  Critics = {a1, a2}
  Decisions = {v1, v2}
  Versions = {1}
  PanelSize = 3
  Unit = 8
  Floats <- SomeFloats
  Scores = {16, 56, 80}
  Confidences = {0, 3, 8}
  Policies <- SomePolicies
  ToolCalls = {d1, d2}
  call_id <- OwnIds
  ToolsOf <- TwoTools
  ToolSteps = 2
  PeerLists <- SomePeerLists
  Ineligible = {}
  Liveness = 0
  MaxCooldown = 2
  CursorRounds = 2
  Unknown = Unknown
  DelegationIds = {h1, h2, h3}
  ParentOf <- OneDescent
  MaxDepth = 2
  NoParent = NoParent
  NotNoted = NotNoted
INVARIANTS PartsTypeOK BufferIsSound AgentKept SharedStoresAgree EngineRuns WorkIsKnown
INVARIANTS AdmissionIsSound FlagsHold DecisionsAgree
PROPERTIES RoomyDiskNeverForgets FollowsProtocol
CHECK_DEADLOCK FALSE
SYMMETRY Attempts
