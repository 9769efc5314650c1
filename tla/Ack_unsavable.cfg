SPECIFICATION LifecycleSpec
CONSTANTS
  Threads = {p1}
  Incoming = {i1}
  IncomingAcks = {}
  Outgoing = {o1}
  OwnAcks = {a1, a2, a3, a4}
  Messages = {i1, o1, a1, a2, a3, a4}
  Sent = {o1, a1, a2, a3, a4}
  Unsavable = {a1, a2, a3, a4}
  AckStages = {"received"}
  Tokens = {t1}
  MaxItems = 20
  DedupWindow = 1
  Backend = "json"
  Resends = FALSE
  MaxTime = 0
  Again = {}
  MaxOrder = 0
  Ackable = {}
  MaxCrashes = 0
  MaxFaults = 0
  NoToken = NoToken
  NoMessage = NoMessage
  NoRecord = NoRecord
  i1 = i1
  i2 = i2
  k1 = k1
  o1 = o1
  o2 = o2
  a1 = a1
  a2 = a2
  a3 = a3
  a4 = a4
  a5 = a5
  a6 = a6
  a7 = a7
  t1 = t1
  TokenOf <- TwoAttempts
INVARIANT ReturnedIsDurable
CHECK_DEADLOCK FALSE
