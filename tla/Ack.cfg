SPECIFICATION LifecycleSpec
CONSTANTS
  Threads = {p1, p2}
  Incoming = {i1}
  IncomingAcks = {k1}
  Outgoing = {o1}
  OwnAcks = {a1, a2, a3, a4}
  Messages = {i1, k1, o1, a1, a2, a3, a4}
  Sent = {o1, a1, a2, a3, a4}
  Unsavable = {}
  AckStages = {"received"}
  Tokens = {t1}
  MaxItems = 6
  DedupWindow = 1
  Backend = "custom"
  Resends = FALSE
  MaxTime = 1
  Again = {}
  MaxOrder = 0
  Ackable = {}
  MaxCrashes = 1
  MaxFaults = 1
  NoToken = NoToken
  NoMessage = NoMessage
  NoRecord = NoRecord
  i1 = i1
  i2 = i2
  k1 = k1
  o1 = o1
  o2 = o2
  a1 = a1
  a2 = a2
  a3 = a3
  a4 = a4
  a5 = a5
  a6 = a6
  a7 = a7
  t1 = t1
  TokenOf <- TwoAttempts
INVARIANTS LifecycleTypeOK AcksGoForward OnlyASwallowedSaveLoses CleanMeansRecorded
CHECK_DEADLOCK FALSE
