SPECIFICATION Spec
CONSTANTS
  Agents = {a1, a2}
  Msgs = {m1, m2}
  AckMsgs = {}
  Streams = {s1, s2, s3}
  Workers = 5
  QueueSizes = {1, 2}
  LossyTransport = FALSE
  MaxRestarts = 1
  MaxAborts = 1
  MaxFaults = 1
  NoRow = NoRow
  NoMsg = NoMsg
  Outsider = Outsider
  a1 = a1
  a2 = a2
  m1 = m1
  m2 = m2
  m3 = m3
  s1 = s1
  s2 = s2
  s3 = s3
  Producer <- MixedProducers
  StreamAgent <- TwoAgentStreams
INVARIANT TypeOK
INVARIANT MemoryIsDurable
INVARIANT OneHandFIFO
INVARIANT NoStrandedRow
INVARIANT RejectedLeavesNothing
