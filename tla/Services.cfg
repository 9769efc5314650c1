SPECIFICATION ServicesSpec
CONSTANTS
  Agents = {a1, a2, a3}
  ProtectedAgents = {a3}
  Timeouts = {0, 1}
  MaxTime = 1
  MaxStoreFaults = 1
  MaxRegistryCrashes = 1
  RegistryThreads = {t1}
  NoBeat = NoBeat
  NoCall = NoCall
  Owners = {a1, a2}
  Names = {2}
  MaxSubmits = 3
  MaxSchedulerFaults = 1
  MaxSchedulerCrashes = 1
  NoTask = NoTask
  Workflows = {w1}
  WorkflowNodes = {n1, n2, n3}
  NoDefinition = NoDefinition
  NotStarted = NotStarted
  HandoffIds = {h1, h2, h3}
  HandoffAgents = {a1, a2}
  CompletionStatuses = {"COMPLETED", "EXPIRED"}
  NoHandoff = NoHandoff
  Callers = {c1, c2, c3}
  Critics = {c1}
  Artifacts = {p1}
  Outcomes = {yes}
  Workers = 2
  MaxProposals = 2
  NoDecision = NoDecision
  NoEvent = NoEvent
  Analysts = {w1, w2}
  Coordinator = coordinator
  Critic = critic
  MaxLost = 1
  MaxAgain = 1
  Correlations = {k1}
  MaxPrompts = 2
  MaxSendFaults = 1
  NoSession = NoSession
  MaxLines = 4
  PipeSize = 2
  Requests = {r1, r2, r3}
  MaxSignals = 1
  Free = Free
  Main = Main
INVARIANTS ServicesTypeOK RegistryIsDurable SchedulerIsDurable AutoIdIsFresh DrainIsSound
INVARIANTS OrderlyRunsEnd RoomDecides ReviewIsComplete SessionsAreSound
PROPERTIES ExpiryIsJustified ServicesProgress
CHECK_DEADLOCK FALSE
