----------------------------- MODULE RouterProofs -----------------------------
(***************************************************************************)
(* Type correctness and the durability and ordering of the router's        *)
(* queues, for every set of agents, messages and streams, every queue      *)
(* size, and any number of restarts, vanished clients and store errors.    *)
(* Then what becomes of a message: no stored row is stranded, a rejected   *)
(* message leaves nothing behind, and with room for what may be pending    *)
(* the router implements the mailbox it promises its clients.              *)
(***************************************************************************)
EXTENDS Router, FiniteSetTheorems, TLAPS

\* A list read back in reverse is a list of the same elements.
LEMMA ReverseType ==
  ASSUME NEW S, NEW s \in Seq(S)
  PROVE  Reverse(s) \in Seq(S)
BY DEF Reverse

\* What the assumptions say of the two constants the data types depend on.
LEMMA ConstantTypes ==
  QueueSizes \subseteq Nat /\ StreamAgent \in [Streams -> Agents]
BY RouterAssumption

\* The initial state is well typed.
LEMMA InitType == Init => TypeOK
<1> SUFFICES ASSUME Init PROVE TypeOK
  OBVIOUS
<1> USE DEF Init
<1>1. DurableType
  BY DEF DurableType
<1>2. MemoryType
  BY DEF MemoryType
<1>3. SenderType
  BY DEF SenderType, ReqStates
<1>4. StreamType
  BY NullAssumption DEF StreamType, StreamStates, Held
<1>5. HistoryType
  BY DEF HistoryType
<1> QED BY <1>1, <1>2, <1>3, <1>4, <1>5 DEF TypeOK

\* The only steps that write the store.
LEMMA DurableWriters ==
  ASSUME [Next]_vars
  PROVE  \/ UNCHANGED durable
         \/ \E m \in Msgs : LogMessage(m)
         \/ \E a \in Agents : EnqueueRow(a)
         \/ QueueFull
         \/ \E s \in Streams : OpenStream(s) \/ DequeueRow(s)
         \/ \E r \in toRestore : RestoreRow(r)
BY DEF Next, vars, Send, Route, Serve, Restore, Call, StartSend, RecordRaises,
       PutNowait, Reply, StoreRaises, StartStream, Take, Transmit, StreamRaises,
       AbortYield, ClientLeaves, DrainedStream, Drain, Exit, Start, RestoreLog

\* The only steps that write the service's own attributes.
LEMMA MemoryWriters ==
  ASSUME [Next]_vars
  PROVE  \/ UNCHANGED memory
         \/ \E m \in Msgs : StartSend(m) \/ LogMessage(m)
         \/ PutNowait
         \/ \E s \in Streams : OpenStream(s) \/ Take(s)
         \/ Drain \/ Exit \/ Start \/ RestoreLog
         \/ \E r \in toRestore : RestoreRow(r)
BY DEF Next, vars, Send, Route, Serve, Restore, Call, RecordRaises, EnqueueRow,
       QueueFull, Reply, StoreRaises, StartStream, Transmit, DequeueRow, StreamRaises,
       AbortYield, ClientLeaves, DrainedStream

\* The only steps that move a SendMessage call.
LEMMA SenderWriters ==
  ASSUME [Next]_vars
  PROVE  \/ UNCHANGED sender
         \/ \E m \in Msgs : Call(m) \/ Send(m) \/ RecordRaises(m)
         \/ Route \/ StoreRaises \/ Exit
BY DEF Next, vars, Serve, Restore, StartStream, OpenStream, Take, Transmit, DequeueRow,
       StreamRaises, AbortYield, ClientLeaves, DrainedStream, Drain, Start, RestoreRow,
       RestoreLog

\* The only steps that move a stream.
LEMMA StreamWriters ==
  ASSUME [Next]_vars
  PROVE  \/ UNCHANGED readers
         \/ \E s \in Streams : StartStream(s) \/ Serve(s) \/ StreamRaises(s)
                                 \/ AbortYield(s) \/ ClientLeaves(s) \/ DrainedStream(s)
         \/ Exit
BY DEF Next, vars, Send, Route, Restore, Call, StartSend, LogMessage, RecordRaises,
       EnqueueRow, PutNowait, QueueFull, Reply, StoreRaises, Drain, Start, RestoreRow,
       RestoreLog

\* The only steps that write the history.
LEMMA HistoryWriters ==
  ASSUME [Next]_vars
  PROVE  \/ UNCHANGED history
         \/ \E m \in Msgs : RecordRaises(m)
         \/ Reply \/ StoreRaises
         \/ \E s \in Streams : Take(s) \/ Transmit(s) \/ StreamRaises(s) \/ AbortYield(s)
         \/ Exit
BY DEF Next, vars, Send, Route, Serve, Restore, Call, StartSend, LogMessage, EnqueueRow,
       PutNowait, QueueFull, StartStream, OpenStream, DequeueRow, ClientLeaves,
       DrainedStream, Drain, Start, RestoreRow, RestoreLog

\* The store keeps its type.
LEMMA DurableTypeStep == TypeOK /\ [Next]_vars => DurableType'
<1> SUFFICES ASSUME TypeOK, [Next]_vars PROVE DurableType'
  OBVIOUS
<1> USE DEF TypeOK, DurableType
<1>1. CASE UNCHANGED durable
  BY <1>1 DEF durable
<1>2. ASSUME NEW m \in Msgs, LogMessage(m) PROVE DurableType'
  BY <1>2 DEF LogMessage
<1>3. ASSUME NEW a \in Agents, EnqueueRow(a) PROVE DurableType'
  <2>1. cur' \in Row
    BY <1>3 DEF EnqueueRow, SenderType, Row
  <2> QED BY <1>3, <2>1 DEF EnqueueRow
<1>4. CASE QueueFull
  BY <1>4 DEF QueueFull, WithoutRow
<1>5. ASSUME NEW s \in Streams, OpenStream(s) PROVE DurableType'
  BY <1>5, RouterAssumption DEF OpenStream
<1>6. ASSUME NEW s \in Streams, DequeueRow(s) PROVE DurableType'
  BY <1>6 DEF DequeueRow, WithoutRow
<1>7. ASSUME NEW r \in toRestore, RestoreRow(r) PROVE DurableType'
  BY <1>7 DEF RestoreRow, WithoutRow
<1> QED
  BY <1>1, <1>2, <1>3, <1>4, <1>5, <1>6, <1>7, DurableWriters

\* The attributes of the service keep their types.
LEMMA MemoryTypeStep == TypeOK /\ [Next]_vars => MemoryType'
<1> SUFFICES ASSUME TypeOK, [Next]_vars PROVE MemoryType'
  OBVIOUS
<1>0. MemoryType /\ DurableType /\ SenderType
  BY DEF TypeOK
<1> USE DEF MemoryType
<1>1. CASE UNCHANGED memory
  BY <1>0, <1>1 DEF memory
<1>2. ASSUME NEW m \in Msgs, StartSend(m) PROVE MemoryType'
  BY <1>0, <1>2 DEF StartSend
<1>3. ASSUME NEW m \in Msgs, LogMessage(m) PROVE MemoryType'
  BY <1>0, <1>3 DEF LogMessage
<1>4. CASE PutNowait
  <2>1. cur \in Row /\ cur.agent \in Agents
    BY <1>0, <1>4 DEF PutNowait, SenderType, Row
  <2>2. queue' \in [Agents -> Seq(Row)]
    BY <1>0, <1>4, <2>1 DEF PutNowait
  <2> QED BY <1>0, <1>4, <2>2 DEF PutNowait
<1>5. ASSUME NEW s \in Streams, OpenStream(s) PROVE MemoryType'
  <2>1. maxQueueSize \in Nat /\ StreamAgent[s] \in Agents
    BY <1>0, ConstantTypes
  <2> QED BY <1>0, <1>5, <2>1 DEF OpenStream
<1>6. ASSUME NEW s \in Streams, Take(s) PROVE MemoryType'
  BY <1>0, <1>6, ConstantTypes DEF Take
<1>7. CASE Drain
  BY <1>0, <1>7 DEF Drain
<1>8. CASE Exit
  <2>1. queue' \in [Agents -> Seq(Row)] /\ cap' \in [Agents -> Nat]
    BY <1>8 DEF Exit
  <2>2. memLog' \in Seq(Msgs)
    BY <1>8 DEF Exit
  <2> QED BY <1>0, <1>8, <2>1, <2>2 DEF Exit
<1>9. CASE Start
  <2>1. cap' \in [Agents -> Nat]
    BY <1>9, ConstantTypes DEF Start
  <2> QED BY <1>0, <1>9, <2>1 DEF Start, StoredRows, DurableType
<1>10. CASE RestoreLog
  BY <1>0, <1>10, ReverseType DEF RestoreLog, DurableType
<1>11. ASSUME NEW r \in toRestore, RestoreRow(r) PROVE MemoryType'
  <2>1. r \in Row /\ r.agent \in Agents
    BY <1>0 DEF Row
  <2>2. queue' \in [Agents -> Seq(Row)]
    <3>1. CASE Full(r.agent)
      BY <1>0, <1>11, <3>1 DEF RestoreRow
    <3>2. CASE ~Full(r.agent)
      <4>1. queue' = [queue EXCEPT ![r.agent] = Append(@, r)]
        BY <1>11, <3>2 DEF RestoreRow
      <4> QED BY <1>0, <2>1, <4>1
    <3> QED BY <3>1, <3>2
  <2> QED BY <1>0, <1>11, <2>2 DEF RestoreRow
<1> QED
  BY <1>1, <1>2, <1>3, <1>4, <1>5, <1>6, <1>7, <1>8, <1>9, <1>10, <1>11, MemoryWriters

\* A sending handler keeps its type, on every exit too.
LEMMA SenderTypeStep == TypeOK /\ [Next]_vars => SenderType'
<1> SUFFICES ASSUME TypeOK, [Next]_vars PROVE SenderType'
  OBVIOUS
<1> USE RouterAssumption DEF TypeOK, SenderType, ReqStates
<1>1. CASE UNCHANGED sender
  BY <1>1 DEF sender
<1>2. ASSUME NEW m \in Msgs, Call(m) \/ StartSend(m) \/ RecordRaises(m)
      PROVE SenderType'
  BY <1>2 DEF Call, StartSend, RecordRaises
<1>3. ASSUME NEW m \in Msgs, LogMessage(m) PROVE SenderType'
  <2>1. at = "none" /\ cur = NoRow
    BY <1>3 DEF LogMessage
  <2>2. known \ {Producer[m]} \subseteq Agents
    BY DEF MemoryType
  <2> QED BY <1>3, <2>1, <2>2 DEF LogMessage
<1>4. ASSUME NEW a \in Agents, EnqueueRow(a) PROVE SenderType'
  <2>1. cur' \in Row
    BY <1>4 DEF EnqueueRow, DurableType, Row
  <2> QED BY <1>4, <2>1 DEF EnqueueRow
<1>5. CASE PutNowait
  BY <1>5 DEF PutNowait, Row
<1>6. CASE QueueFull
  BY <1>6 DEF QueueFull
<1>7. CASE Reply \/ StoreRaises
  BY <1>7 DEF Reply, StoreRaises, ReleaseLock
<1>8. CASE Exit
  BY <1>8 DEF Exit, ReleaseLock
<1> QED
  BY <1>1, <1>2, <1>3, <1>4, <1>5, <1>6, <1>7, <1>8, SenderWriters DEF Send, Route

\* A stream keeps its type and holds a row exactly between the get and the end of
\* its turn.
LEMMA StreamTypeStep == TypeOK /\ [Next]_vars => StreamType'
<1> SUFFICES ASSUME TypeOK, [Next]_vars PROVE StreamType'
  OBVIOUS
<1> USE RouterAssumption, NullAssumption DEF TypeOK, StreamType, StreamStates, Held
<1>1. CASE UNCHANGED readers
  BY <1>1 DEF readers
<1>2. ASSUME NEW s \in Streams, StartStream(s) \/ OpenStream(s) PROVE StreamType'
  BY <1>2 DEF StartStream, OpenStream
<1>3. ASSUME NEW s \in Streams, Take(s) PROVE StreamType'
  <2>1. Head(queue[StreamAgent[s]]) \in Row
    BY <1>3 DEF Take, MemoryType
  <2> QED BY <1>3, <2>1 DEF Take
<1>4. ASSUME NEW s \in Streams, Transmit(s) PROVE StreamType'
  BY <1>4 DEF Transmit
<1>5. ASSUME NEW s \in Streams, DequeueRow(s) \/ StreamRaises(s) \/ AbortYield(s)
      PROVE StreamType'
  BY <1>5 DEF DequeueRow, StreamRaises, AbortYield
<1>6. ASSUME NEW s \in Streams, ClientLeaves(s) \/ DrainedStream(s)
      PROVE StreamType'
  BY <1>6 DEF ClientLeaves, DrainedStream
<1>7. CASE Exit
  BY <1>7 DEF Exit
<1> QED
  BY <1>1, <1>2, <1>3, <1>4, <1>5, <1>6, <1>7, StreamWriters DEF Serve

\* The history keeps its type: what is promised or received is a pair of a message
\* and an agent.
LEMMA HistoryTypeStep == TypeOK /\ [Next]_vars => HistoryType'
<1> SUFFICES ASSUME TypeOK, [Next]_vars PROVE HistoryType'
  OBVIOUS
<1> USE RouterAssumption DEF TypeOK, HistoryType
<1>1. CASE UNCHANGED history
  BY <1>1 DEF history
<1>2. ASSUME NEW m \in Msgs, RecordRaises(m) PROVE HistoryType'
  BY <1>2 DEF RecordRaises
<1>3. CASE Reply
  <2>1. holder \in Msgs /\ sent \subseteq Agents
    BY <1>3 DEF Reply, SenderType
  <2> QED BY <1>3, <2>1 DEF Reply
<1>4. CASE StoreRaises
  <2>1. {cur} \ {NoRow} \subseteq Row
    BY DEF SenderType
  <2>2. dropped' \subseteq Row /\ faults' \in Nat
    BY <1>4, <2>1 DEF StoreRaises
  <2> QED BY <1>4, <2>2 DEF StoreRaises
<1>5. ASSUME NEW s \in Streams, Take(s) PROVE HistoryType'
  <2>1. Head(queue[StreamAgent[s]]) \in Row
    BY <1>5 DEF Take, MemoryType
  <2> QED BY <1>5, <2>1 DEF Take, Row
<1>6. ASSUME NEW s \in Streams, Transmit(s) PROVE HistoryType'
  <2>1. item[s] \in Row
    BY <1>6 DEF Transmit, StreamType, Held
  <2> QED BY <1>6, <2>1 DEF Transmit, Row
<1>7. ASSUME NEW s \in Streams, StreamRaises(s) \/ AbortYield(s) PROVE HistoryType'
  <2>1. {item[s]} \ {NoRow} \subseteq Row
    BY DEF StreamType
  <2>2. CASE StreamRaises(s)
    <3>1. dropped' \subseteq Row /\ faults' \in Nat
      BY <2>1, <2>2 DEF StreamRaises
    <3> QED BY <2>2, <3>1 DEF StreamRaises
  <2>3. CASE AbortYield(s)
    <3>1. item[s] \in Row
      BY <2>3 DEF AbortYield, StreamType, Held
    <3>2. dropped' \subseteq Row /\ aborts' \in Nat
      BY <2>3, <3>1 DEF AbortYield
    <3> QED BY <2>3, <3>2 DEF AbortYield
  <2> QED BY <1>7, <2>2, <2>3
<1>8. CASE Exit
  BY <1>8 DEF Exit
<1> QED
  BY <1>1, <1>2, <1>3, <1>4, <1>5, <1>6, <1>7, <1>8, HistoryWriters

\* No step of the router, whatever it interleaves with, breaks a type.
LEMMA TypeStep == TypeOK /\ [Next]_vars => TypeOK'
BY DurableTypeStep, MemoryTypeStep, SenderTypeStep, StreamTypeStep, HistoryTypeStep
   DEF TypeOK

\* Every reachable state is well typed, which includes that no exit of a handler
\* leaves the lock or a row behind.
THEOREM TypeCorrect == Spec => []TypeOK
BY InitType, TypeStep, PTL DEF Spec
-------------------------------------------------------------------------------
(***************************************************************************)
(* Durability and order. Neither is inductive alone: that deleting a row   *)
(* never takes one that is still queued or held needs the order of the     *)
(* sequence numbers, and the order needs that what a stream has popped is  *)
(* older than everything behind it, also while a queue is being restored.  *)
(***************************************************************************)

\* Sequence numbers identify rows, and the counter is ahead of all of them.
RowsInv ==
  /\ \A p, q \in pending : p.seq = q.seq => p = q
  /\ \A p \in pending : 0 < p.seq /\ p.seq < nextSeq
  /\ \A a \in Agents : lastTaken[a] < nextSeq

\* A queue holds stored rows of its agent, oldest first, none older than the last
\* one popped.
QueueInv ==
  \A a \in Agents :
    /\ \A i \in DOMAIN queue[a] : /\ queue[a][i] \in pending
                                  /\ queue[a][i].agent = a
                                  /\ lastTaken[a] < queue[a][i].seq
    /\ \A i, j \in DOMAIN queue[a] : i < j => queue[a][i].seq < queue[a][j].seq

\* A stream holds a stored row of its agent, popped before the rows still queued.
HeldInv ==
  /\ \A s \in Streams : Held(s) => /\ item[s] \in pending
                                   /\ item[s].agent = StreamAgent[s]
                                   /\ item[s].seq <= lastTaken[StreamAgent[s]]
  /\ \A s, t \in Streams : Held(s) /\ Held(t) /\ s # t => item[s] # item[t]

\* The row in the sender's hands is stored and younger than its agent's queue.
CurInv ==
  at = "put" => /\ cur \in pending
                /\ lastTaken[cur.agent] < cur.seq
                /\ \A i \in DOMAIN queue[cur.agent] :
                     queue[cur.agent][i].seq < cur.seq

\* Handlers run while the router serves, rows are restored while it does not, and a
\* process that has not finished restoring has popped nothing.
PhaseInv ==
  /\ at # "none" => Serving
  /\ \A s \in Streams : spc[s] # "idle" => Serving
  /\ toRestore # {} => phase = "restoring"
  /\ ~Serving => \A a \in Agents : lastTaken[a] = 0
  /\ phase = "down" => \A a \in Agents : queue[a] = <<>>

\* What is still to be restored is stored and younger than what already was.
RestoreInv ==
  /\ toRestore \subseteq pending
  /\ \A r \in toRestore : \A i \in DOMAIN queue[r.agent] :
       queue[r.agent][i].seq < r.seq

IInv == RowsInv /\ QueueInv /\ HeldInv /\ CurInv /\ PhaseInv /\ RestoreInv
\* The types the arguments below use.
LEMMA CoreTypes ==
  ASSUME TypeOK
  PROVE  /\ pending \subseteq Row /\ toRestore \subseteq Row
         /\ nextSeq \in Nat /\ lastTaken \in [Agents -> Nat]
         /\ queue \in [Agents -> Seq(Row)]
         /\ spc \in [Streams -> StreamStates] /\ item \in [Streams -> Row \cup {NoRow}]
         /\ at = "put" => cur \in Row
         /\ StreamAgent \in [Streams -> Agents]
BY ConstantTypes
   DEF TypeOK, DurableType, MemoryType, SenderType, StreamType, HistoryType

\* A row has a sequence number and an agent.
LEMMA RowFields == \A r \in Row : r.seq \in Nat /\ r.agent \in Agents
BY DEF Row

\* The state the invariant speaks of.
core == <<pending, nextSeq, phase, toRestore, queue, at, cur, spc, item, lastTaken>>

\* A step that leaves that state alone keeps the invariant.
LEMMA CoreFrame ==
  ASSUME TypeOK, IInv, UNCHANGED core
  PROVE  IInv'
BY DEF IInv, core, RowsInv, QueueInv, HeldInv, Held, CurInv, PhaseInv, Serving, RestoreInv

\* The only steps that write that state.
LEMMA CoreWriters ==
  ASSUME [Next]_vars
  PROVE  \/ UNCHANGED core
         \/ \E m \in Msgs : LogMessage(m)
         \/ Route \/ StoreRaises
         \/ \E s \in Streams : StartStream(s) \/ Serve(s) \/ StreamRaises(s)
                                 \/ AbortYield(s) \/ ClientLeaves(s) \/ DrainedStream(s)
         \/ Drain \/ Exit \/ Restore
<1>1. ASSUME NEW m \in Msgs, Call(m) \/ StartSend(m) \/ RecordRaises(m)
      PROVE  UNCHANGED core
  BY <1>1 DEF Call, StartSend, RecordRaises, core, durable, memory, readers, history
<1>2. CASE UNCHANGED vars
  BY <1>2 DEF vars, core, durable, memory, sender, readers, history
<1> QED BY <1>1, <1>2 DEF Next, Send

\* Entering the routing loop disturbs nothing.
LEMMA LogInv ==
  ASSUME TypeOK, IInv, NEW m \in Msgs, LogMessage(m)
  PROVE  IInv'
<1>0. RowsInv /\ QueueInv /\ HeldInv /\ CurInv /\ PhaseInv /\ RestoreInv
  BY DEF IInv
<1>1. RowsInv'
  BY <1>0 DEF RowsInv, LogMessage, readers, history, Held, Serving
<1>2. QueueInv'
  BY <1>0 DEF QueueInv, LogMessage, readers, history, Held, Serving
<1>3. HeldInv'
  BY <1>0 DEF HeldInv, LogMessage, readers, history, Held, Serving
<1>4. CurInv'
  BY <1>0 DEF CurInv, LogMessage, readers, history, Held, Serving
<1>5. PhaseInv'
  BY <1>0 DEF PhaseInv, LogMessage, readers, history, Held, Serving
<1>6. RestoreInv'
  BY <1>0 DEF RestoreInv, LogMessage, readers, history, Held, Serving
<1> QED BY <1>1, <1>2, <1>3, <1>4, <1>5, <1>6 DEF IInv

\* A fresh row is stored, younger than every queue and not yet in one.
LEMMA EnqueueInv ==
  ASSUME TypeOK, IInv, NEW a \in Agents, EnqueueRow(a)
  PROVE  IInv'
<1>0. RowsInv /\ QueueInv /\ HeldInv /\ CurInv /\ PhaseInv /\ RestoreInv
  BY DEF IInv
<1>a. /\ pending \subseteq Row /\ nextSeq \in Nat /\ lastTaken \in [Agents -> Nat]
      /\ queue \in [Agents -> Seq(Row)] /\ StreamAgent \in [Streams -> Agents]
  BY CoreTypes
<1>1. RowsInv'
  <2>1. pending' = pending \cup {cur'} /\ cur'.seq = nextSeq /\ nextSeq' = nextSeq + 1
        /\ UNCHANGED lastTaken
    BY DEF EnqueueRow, history
  <2>2. \A q \in pending : q.seq \in Nat /\ q.seq < nextSeq /\ 0 < q.seq
    BY <1>0, <1>a, RowFields DEF RowsInv
  <2>3. 0 < nextSeq
    BY DEF TypeOK, DurableType
  <2> QED BY <1>0, <1>a, <2>1, <2>2, <2>3 DEF RowsInv
<1>2. QueueInv'
  BY <1>0 DEF QueueInv, EnqueueRow, memory, readers, history, Held, Serving
<1>3. HeldInv'
  BY <1>0 DEF HeldInv, EnqueueRow, memory, readers, history, Held, Serving
<1>4. CurInv'
  <2>1. cur' \in pending' /\ cur'.seq = nextSeq /\ cur'.agent = a
        /\ UNCHANGED <<queue, lastTaken>>
    BY DEF EnqueueRow, memory, history
  <2>2. \A i \in DOMAIN queue[a] : queue[a][i].seq < nextSeq
    BY <1>0 DEF QueueInv, RowsInv
  <2> QED BY <1>0, <2>1, <2>2 DEF CurInv, RowsInv
<1>5. PhaseInv'
  BY <1>0 DEF PhaseInv, EnqueueRow, memory, readers, history, Held, Serving
<1>6. RestoreInv'
  BY <1>0 DEF RestoreInv, EnqueueRow, memory, readers, history, Held, Serving
<1> QED BY <1>1, <1>2, <1>3, <1>4, <1>5, <1>6 DEF IInv

\* The row the sender holds goes to the tail of its agent's queue.
LEMMA PutInv ==
  ASSUME TypeOK, IInv, PutNowait
  PROVE  IInv'
<1>0. RowsInv /\ QueueInv /\ HeldInv /\ CurInv /\ PhaseInv /\ RestoreInv
  BY DEF IInv
<1>a. /\ pending \subseteq Row /\ nextSeq \in Nat /\ lastTaken \in [Agents -> Nat]
      /\ queue \in [Agents -> Seq(Row)] /\ StreamAgent \in [Streams -> Agents]
  BY CoreTypes
<1>1. RowsInv'
  BY <1>0 DEF RowsInv, PutNowait, durable, readers, history, Held, Serving
<1>2. QueueInv'
  <2>1. cur \in Row /\ cur.agent \in Agents /\ cur.seq \in Nat
    BY CoreTypes, RowFields DEF PutNowait
  <2> DEFINE a == cur.agent
  <2>2. queue' = [queue EXCEPT ![a] = Append(queue[a], cur)]
        /\ UNCHANGED <<pending, lastTaken>>
    BY DEF PutNowait, durable, history
  <2>3. ASSUME NEW b \in Agents, b # a PROVE queue'[b] = queue[b]
    BY <1>a, <2>2, <2>3
  <2>4. queue'[a] = Append(queue[a], cur) /\ queue[a] \in Seq(Row)
    BY <1>a, <2>1, <2>2
  <2>5. /\ DOMAIN queue'[a] = DOMAIN queue[a] \cup {Len(queue[a]) + 1}
        /\ \A i \in DOMAIN queue[a] : queue'[a][i] = queue[a][i]
        /\ queue'[a][Len(queue[a]) + 1] = cur
        /\ \A i \in DOMAIN queue[a] : i \in Nat /\ i < Len(queue[a]) + 1
    BY <2>1, <2>4
  <2>6. /\ cur \in pending /\ lastTaken[a] < cur.seq
        /\ \A i \in DOMAIN queue[a] : queue[a][i].seq < cur.seq
    BY <1>0 DEF CurInv, PutNowait
  <2> HIDE DEF a
  <2>7. \A i \in DOMAIN queue'[a] : /\ queue'[a][i] \in pending
                                    /\ queue'[a][i].agent = a
                                    /\ lastTaken[a] < queue'[a][i].seq
    BY <1>0, <2>1, <2>5, <2>6 DEF QueueInv, a
  <2>8. \A i, j \in DOMAIN queue'[a] : i < j => queue'[a][i].seq < queue'[a][j].seq
    BY <1>0, <2>1, <2>5, <2>6 DEF QueueInv, a
  <2> QED BY <1>0, <2>2, <2>3, <2>7, <2>8 DEF QueueInv
<1>3. HeldInv'
  BY <1>0 DEF HeldInv, PutNowait, durable, readers, history, Held, Serving
<1>4. CurInv'
  BY <1>0 DEF CurInv, PutNowait, durable, readers, history, Held, Serving
<1>5. PhaseInv'
  BY <1>0 DEF PhaseInv, PutNowait, durable, readers, history, Held, Serving
<1>6. RestoreInv'
  <2>1. toRestore = {}
    BY <1>0 DEF PhaseInv, PutNowait, Serving
  <2> QED BY <1>0, <2>1 DEF RestoreInv, PutNowait
<1> QED BY <1>1, <1>2, <1>3, <1>4, <1>5, <1>6 DEF IInv

\* The row a full queue refused is in nobody's hands.
LEMMA FullInv ==
  ASSUME TypeOK, IInv, QueueFull
  PROVE  IInv'
<1>0. RowsInv /\ QueueInv /\ HeldInv /\ CurInv /\ PhaseInv /\ RestoreInv
  BY DEF IInv
<1>a. /\ pending \subseteq Row /\ nextSeq \in Nat /\ lastTaken \in [Agents -> Nat]
      /\ queue \in [Agents -> Seq(Row)] /\ StreamAgent \in [Streams -> Agents]
  BY CoreTypes
<1>1. RowsInv'
  BY <1>0 DEF RowsInv, QueueFull, WithoutRow, memory, readers, history, Held, Serving
<1>2. QueueInv'
  <2>1. pending' = pending \ {cur} /\ UNCHANGED <<queue, lastTaken>>
    BY DEF QueueFull, WithoutRow, memory, history
  <2>2. \A a \in Agents : \A i \in DOMAIN queue[a] : queue[a][i] # cur
    BY <1>0, <1>a, RowFields DEF QueueInv, CurInv, QueueFull
  <2> QED BY <1>0, <2>1, <2>2 DEF QueueInv
<1>3. HeldInv'
  <2>1. pending' = pending \ {cur} /\ UNCHANGED <<spc, item, lastTaken>>
    BY DEF QueueFull, WithoutRow, readers, history
  <2>2. \A s \in Streams : Held(s) => item[s] # cur
    BY <1>0, <1>a, RowFields DEF HeldInv, CurInv, QueueFull
  <2> QED BY <1>0, <2>1, <2>2 DEF HeldInv, Held
<1>4. CurInv'
  BY <1>0 DEF CurInv, QueueFull, WithoutRow, memory, readers, history, Held, Serving
<1>5. PhaseInv'
  BY <1>0 DEF PhaseInv, QueueFull, WithoutRow, memory, readers, history, Held, Serving
<1>6. RestoreInv'
  <2>1. toRestore = {} /\ UNCHANGED toRestore
    BY <1>0 DEF PhaseInv, QueueFull, Serving, memory
  <2> QED BY <2>1 DEF RestoreInv
<1> QED BY <1>1, <1>2, <1>3, <1>4, <1>5, <1>6 DEF IInv

\* Leaving the routing loop disturbs nothing.
LEMMA LeaveInv ==
  ASSUME TypeOK, IInv, Reply \/ StoreRaises
  PROVE  IInv'
<1>0. RowsInv /\ QueueInv /\ HeldInv /\ CurInv /\ PhaseInv /\ RestoreInv
  BY DEF IInv
<1>1. RowsInv'
  BY <1>0 DEF RowsInv, Reply, StoreRaises, ReleaseLock, durable, memory, readers, history, Held, Serving
<1>2. QueueInv'
  BY <1>0 DEF QueueInv, Reply, StoreRaises, ReleaseLock, durable, memory, readers, history, Held, Serving
<1>3. HeldInv'
  BY <1>0 DEF HeldInv, Reply, StoreRaises, ReleaseLock, durable, memory, readers, history, Held, Serving
<1>4. CurInv'
  BY <1>0 DEF CurInv, Reply, StoreRaises, ReleaseLock, durable, memory, readers, history, Held, Serving
<1>5. PhaseInv'
  BY <1>0 DEF PhaseInv, Reply, StoreRaises, ReleaseLock, durable, memory, readers, history, Held, Serving
<1>6. RestoreInv'
  BY <1>0 DEF RestoreInv, Reply, StoreRaises, ReleaseLock, durable, memory, readers, history, Held, Serving
<1> QED BY <1>1, <1>2, <1>3, <1>4, <1>5, <1>6 DEF IInv

\* The head of a queue goes to one stream, and everything behind it is younger.
LEMMA TakeInv ==
  ASSUME TypeOK, IInv, NEW s \in Streams, Take(s)
  PROVE  IInv'
<1>0. RowsInv /\ QueueInv /\ HeldInv /\ CurInv /\ PhaseInv /\ RestoreInv
  BY DEF IInv
<1>a. /\ pending \subseteq Row /\ nextSeq \in Nat /\ lastTaken \in [Agents -> Nat]
      /\ queue \in [Agents -> Seq(Row)] /\ StreamAgent \in [Streams -> Agents]
  BY CoreTypes
<1> DEFINE a == StreamAgent[s]
<1>c. /\ a \in Agents /\ queue[a] \in Seq(Row) /\ queue[a] # <<>>
      /\ queue' = [queue EXCEPT ![a] = Tail(queue[a])]
      /\ lastTaken' = [lastTaken EXCEPT ![a] = Head(queue[a]).seq]
      /\ item' = [item EXCEPT ![s] = Head(queue[a])]
      /\ spc' = [spc EXCEPT ![s] = "yielded"]
      /\ UNCHANGED <<pending, nextSeq, phase, toRestore, at, cur>>
  BY <1>a DEF Take, durable, sender
<1>d. Len(queue[a]) \in Nat /\ 1 \in DOMAIN queue[a] /\ Head(queue[a]) = queue[a][1]
  BY <1>c
<1>e. /\ Head(queue[a]) \in pending /\ Head(queue[a]) \in Row
      /\ Head(queue[a]).agent = a /\ lastTaken[a] < Head(queue[a]).seq
  BY <1>0, <1>a, <1>c, <1>d DEF QueueInv
<1>f. /\ DOMAIN queue'[a] = 1 .. (Len(queue[a]) - 1)
      /\ \A i \in DOMAIN queue'[a] : /\ i + 1 \in DOMAIN queue[a]
                                     /\ queue'[a][i] = queue[a][i + 1]
                                     /\ 1 < i + 1 /\ i \in Nat
  BY <1>a, <1>c, <1>d
<1>g. ASSUME NEW b \in Agents, b # a
      PROVE  queue'[b] = queue[b] /\ lastTaken'[b] = lastTaken[b]
  BY <1>a, <1>c, <1>g
<1>h. lastTaken'[a] = Head(queue[a]).seq /\ lastTaken'[a] \in Nat
  BY <1>a, <1>c, <1>e, RowFields
<1> HIDE DEF a
<1>1. RowsInv'
  BY <1>0, <1>c, <1>e, <1>g, <1>h DEF RowsInv
<1>2. QueueInv'
  <2>1. \A i \in DOMAIN queue'[a] : /\ queue'[a][i] \in pending
                                    /\ queue'[a][i].agent = a
                                    /\ lastTaken'[a] < queue'[a][i].seq
    BY <1>0, <1>c, <1>d, <1>f, <1>h DEF QueueInv
  <2>2. ASSUME NEW i \in DOMAIN queue'[a], NEW j \in DOMAIN queue'[a], i < j
        PROVE  queue'[a][i].seq < queue'[a][j].seq
    BY <1>0, <1>c, <1>f, <2>2 DEF QueueInv
  <2> QED BY <1>0, <1>c, <1>g, <2>1, <2>2 DEF QueueInv
<1>3. HeldInv'
  <2>1. ASSUME NEW t \in Streams, t # s
        PROVE  item'[t] = item[t] /\ Held(t)' = Held(t)
    BY <1>c, <2>1, CoreTypes DEF Held
  <2>2. item'[s] = Head(queue[a]) /\ spc[s] = "polling"
    BY <1>c, CoreTypes DEF Take
  <2>3. \A t \in Streams : lastTaken[StreamAgent[t]] <= lastTaken'[StreamAgent[t]]
    BY <1>a, <1>e, <1>g, <1>h
  <2>4. \A t \in Streams : Held(t) => item[t].seq \in Nat
    BY <1>0, <1>a, RowFields DEF HeldInv
  <2>5. \A t \in Streams : t # s /\ Held(t) => item[t] # Head(queue[a])
    BY <1>0, <1>a, <1>e, <2>4 DEF HeldInv
  <2>6. \A t \in Streams : Held(t)' => /\ item'[t] \in pending'
                                       /\ item'[t].agent = StreamAgent[t]
                                       /\ item'[t].seq <= lastTaken'[StreamAgent[t]]
    <3>1. ASSUME NEW t \in Streams, t # s, Held(t)'
          PROVE  /\ item'[t] \in pending' /\ item'[t].agent = StreamAgent[t]
                 /\ item'[t].seq <= lastTaken'[StreamAgent[t]]
      <4>1. lastTaken'[StreamAgent[t]] \in Nat /\ lastTaken[StreamAgent[t]] \in Nat
        BY <1>a, <1>g, <1>h
      <4> QED BY <1>0, <1>c, <2>1, <2>3, <2>4, <3>1, <4>1 DEF HeldInv
    <3>2. /\ item'[s] \in pending' /\ item'[s].agent = StreamAgent[s]
          /\ item'[s].seq <= lastTaken'[StreamAgent[s]]
      BY <1>c, <1>e, <1>h, <2>2 DEF a
    <3> QED BY <3>1, <3>2
  <2>7. \A t, u \in Streams : Held(t)' /\ Held(u)' /\ t # u => item'[t] # item'[u]
    BY <1>0, <2>1, <2>2, <2>5 DEF HeldInv
  <2> QED BY <2>6, <2>7 DEF HeldInv
<1>4. CurInv'
  <2> SUFFICES ASSUME at = "put" PROVE CurInv'
    BY <1>c DEF CurInv
  <2>1. cur \in Row /\ cur.agent \in Agents
    BY CoreTypes, RowFields
  <2>2. CASE cur.agent # a
    BY <1>0, <1>c, <1>g, <2>1, <2>2 DEF CurInv
  <2>3. CASE cur.agent = a
    BY <1>0, <1>c, <1>d, <1>f, <1>h, <2>3 DEF CurInv
  <2> QED BY <2>2, <2>3
<1>5. PhaseInv'
  BY <1>0 DEF PhaseInv, Take, durable, Held, Serving
<1>6. RestoreInv'
  <2>1. toRestore = {}
    BY <1>0 DEF PhaseInv, Take, Serving
  <2> QED BY <1>c, <2>1 DEF RestoreInv
<1> QED BY <1>1, <1>2, <1>3, <1>4, <1>5, <1>6 DEF IInv

\* The row a stream deletes is no longer queued and in no other hand.
LEMMA DequeueInv ==
  ASSUME TypeOK, IInv, NEW s \in Streams, DequeueRow(s)
  PROVE  IInv'
<1>0. RowsInv /\ QueueInv /\ HeldInv /\ CurInv /\ PhaseInv /\ RestoreInv
  BY DEF IInv
<1>a. /\ pending \subseteq Row /\ nextSeq \in Nat /\ lastTaken \in [Agents -> Nat]
      /\ queue \in [Agents -> Seq(Row)] /\ StreamAgent \in [Streams -> Agents]
  BY CoreTypes
<1>b. /\ Held(s) /\ pending' = pending \ {item[s]}
      /\ spc' = [spc EXCEPT ![s] = "polling"] /\ item' = [item EXCEPT ![s] = NoRow]
      /\ UNCHANGED <<nextSeq, queue, lastTaken, at, cur, toRestore, phase>>
  BY DEF DequeueRow, WithoutRow, Held, memory, sender, history
<1>c. /\ item[s] \in Row /\ item[s].agent = StreamAgent[s]
      /\ item[s].seq <= lastTaken[StreamAgent[s]] /\ item[s].seq \in Nat
  BY <1>0, <1>a, <1>b, RowFields DEF HeldInv
<1>1. RowsInv'
  BY <1>0 DEF RowsInv, DequeueRow, WithoutRow, memory, sender, history, Held, Serving
<1>2. QueueInv'
  <2>1. \A a \in Agents : \A i \in DOMAIN queue[a] : queue[a][i] # item[s]
    BY <1>0, <1>a, <1>c, RowFields DEF QueueInv
  <2> QED BY <1>0, <1>b, <2>1 DEF QueueInv
<1>3. HeldInv'
  <2>1. \A t \in Streams : t # s => item'[t] = item[t] /\ Held(t)' = Held(t)
    BY <1>b, CoreTypes DEF Held
  <2>2. ~Held(s)'
    BY <1>b, CoreTypes DEF Held
  <2> QED BY <1>0, <1>b, <2>1, <2>2 DEF HeldInv
<1>4. CurInv'
  <2>1. at = "put" => cur # item[s]
    BY <1>0, <1>a, <1>c, RowFields, CoreTypes DEF CurInv
  <2> QED BY <1>0, <1>b, <2>1 DEF CurInv
<1>5. PhaseInv'
  BY <1>0 DEF PhaseInv, DequeueRow, WithoutRow, memory, sender, history, Held, Serving
<1>6. RestoreInv'
  <2>1. toRestore = {}
    BY <1>0, <1>b DEF PhaseInv, Held, Serving
  <2> QED BY <1>b, <2>1 DEF RestoreInv
<1> QED BY <1>1, <1>2, <1>3, <1>4, <1>5, <1>6 DEF IInv

\* The other steps of a stream at most give up its row.
LEMMA StreamMoveInv ==
  ASSUME TypeOK, IInv, NEW s \in Streams,
         \/ StartStream(s) \/ OpenStream(s) \/ Transmit(s) \/ StreamRaises(s)
         \/ AbortYield(s) \/ ClientLeaves(s) \/ DrainedStream(s)
  PROVE  IInv'
<1>0. RowsInv /\ QueueInv /\ HeldInv /\ CurInv /\ PhaseInv /\ RestoreInv
  BY DEF IInv
<1>a. /\ pending \subseteq Row /\ nextSeq \in Nat /\ lastTaken \in [Agents -> Nat]
      /\ queue \in [Agents -> Seq(Row)] /\ StreamAgent \in [Streams -> Agents]
  BY CoreTypes
<1>1. RowsInv'
  BY <1>0 DEF RowsInv, StartStream, OpenStream, Transmit, StreamRaises, AbortYield, ClientLeaves,
         DrainedStream, durable, memory, sender, history, Held, Serving
<1>2. QueueInv'
  BY <1>0 DEF QueueInv, StartStream, OpenStream, Transmit, StreamRaises, AbortYield, ClientLeaves,
         DrainedStream, durable, memory, sender, history, Held, Serving
<1>3. HeldInv'
  <2>1. \A t \in Streams : t # s => item'[t] = item[t] /\ Held(t)' = Held(t)
    BY CoreTypes
       DEF StartStream, OpenStream, Transmit, StreamRaises, AbortYield, ClientLeaves,
           DrainedStream, Held
  <2>2. Held(s)' => Held(s) /\ item'[s] = item[s]
    BY CoreTypes
       DEF StartStream, OpenStream, Transmit, StreamRaises, AbortYield, ClientLeaves,
           DrainedStream, Held
  <2>3. UNCHANGED <<pending, lastTaken>>
    BY DEF StartStream, OpenStream, Transmit, StreamRaises, AbortYield, ClientLeaves,
           DrainedStream, durable, history
  <2> QED BY <1>0, <2>1, <2>2, <2>3 DEF HeldInv
<1>4. CurInv'
  BY <1>0 DEF CurInv, StartStream, OpenStream, Transmit, StreamRaises, AbortYield, ClientLeaves,
         DrainedStream, durable, memory, sender, history, Held, Serving
<1>5. PhaseInv'
  BY <1>0 DEF PhaseInv, StartStream, OpenStream, Transmit, StreamRaises, AbortYield, ClientLeaves,
         DrainedStream, durable, memory, sender, history, Held, Serving
<1>6. RestoreInv'
  BY <1>0 DEF RestoreInv, StartStream, OpenStream, Transmit, StreamRaises, AbortYield, ClientLeaves,
         DrainedStream, durable, memory, sender, history, Held, Serving
<1> QED BY <1>1, <1>2, <1>3, <1>4, <1>5, <1>6 DEF IInv

\* A crash at any point leaves rows and counter as they are.
LEMMA ExitInv ==
  ASSUME TypeOK, IInv, Drain \/ Exit
  PROVE  IInv'
<1>0. RowsInv /\ QueueInv /\ HeldInv /\ CurInv /\ PhaseInv /\ RestoreInv
  BY DEF IInv
<1>a. /\ pending \subseteq Row /\ nextSeq \in Nat /\ lastTaken \in [Agents -> Nat]
      /\ queue \in [Agents -> Seq(Row)] /\ StreamAgent \in [Streams -> Agents]
  BY CoreTypes
<1>1. RowsInv'
  <2>1. 0 < nextSeq
    BY DEF TypeOK, DurableType
  <2> QED BY <1>0, <2>1 DEF RowsInv, Drain, Exit, durable, history
<1>2. QueueInv'
  BY <1>0 DEF QueueInv, Drain, Exit, ReleaseLock, durable, sender, readers, history, Held, Serving
<1>3. HeldInv'
  BY <1>0 DEF HeldInv, Drain, Exit, ReleaseLock, durable, sender, readers, history, Held, Serving
<1>4. CurInv'
  BY <1>0 DEF CurInv, Drain, Exit, ReleaseLock, durable, sender, readers, history, Held, Serving
<1>5. PhaseInv'
  BY <1>0 DEF PhaseInv, Drain, Exit, ReleaseLock, durable, sender, readers, history, Held, Serving
<1>6. RestoreInv'
  BY <1>0 DEF RestoreInv, Drain, Exit, ReleaseLock, durable, sender, readers, history, Held, Serving
<1> QED BY <1>1, <1>2, <1>3, <1>4, <1>5, <1>6 DEF IInv

\* A restart begins and ends with what is stored.
LEMMA StartInv ==
  ASSUME TypeOK, IInv, Start \/ RestoreLog
  PROVE  IInv'
<1>0. RowsInv /\ QueueInv /\ HeldInv /\ CurInv /\ PhaseInv /\ RestoreInv
  BY DEF IInv
<1>a. /\ pending \subseteq Row /\ nextSeq \in Nat /\ lastTaken \in [Agents -> Nat]
      /\ queue \in [Agents -> Seq(Row)] /\ StreamAgent \in [Streams -> Agents]
  BY CoreTypes
<1>1. RowsInv'
  BY <1>0 DEF RowsInv, Start, RestoreLog, StoredRows, durable, sender, readers, history, Held, Serving
<1>2. QueueInv'
  BY <1>0 DEF QueueInv, Start, RestoreLog, StoredRows, durable, sender, readers, history, Held, Serving
<1>3. HeldInv'
  BY <1>0 DEF HeldInv, Start, RestoreLog, StoredRows, durable, sender, readers, history, Held, Serving
<1>4. CurInv'
  BY <1>0 DEF CurInv, Start, RestoreLog, StoredRows, durable, sender, readers, history, Held, Serving
<1>5. PhaseInv'
  BY <1>0 DEF PhaseInv, Start, RestoreLog, StoredRows, durable, sender, readers, history, Held, Serving
<1>6. RestoreInv'
  <2>1. CASE Start
    <3>1. toRestore' = pending /\ UNCHANGED <<pending, queue>>
          /\ \A a \in Agents : queue[a] = <<>>
      BY <1>0, <2>1 DEF Start, StoredRows, durable, PhaseInv
    <3>2. \A r \in pending : r.agent \in Agents /\ DOMAIN queue[r.agent] = {}
      BY <1>a, <3>1, RowFields
    <3> QED BY <3>1, <3>2 DEF RestoreInv
  <2>2. CASE RestoreLog
    BY <1>0, <2>2 DEF RestoreInv, RestoreLog, durable
  <2> QED BY <2>1, <2>2
<1> QED BY <1>1, <1>2, <1>3, <1>4, <1>5, <1>6 DEF IInv

\* The oldest row left goes to the tail of its queue or out of the store.
LEMMA RestoreRowInv ==
  ASSUME TypeOK, IInv, NEW r \in toRestore, RestoreRow(r)
  PROVE  IInv'
<1>0. RowsInv /\ QueueInv /\ HeldInv /\ CurInv /\ PhaseInv /\ RestoreInv
  BY DEF IInv
<1>a. /\ pending \subseteq Row /\ nextSeq \in Nat /\ lastTaken \in [Agents -> Nat]
      /\ queue \in [Agents -> Seq(Row)] /\ StreamAgent \in [Streams -> Agents]
  BY CoreTypes
<1>b. /\ r \in Row /\ r.agent \in Agents /\ r.seq \in Nat /\ r \in pending
      /\ \A q \in toRestore : q.agent = r.agent => r.seq <= q.seq
      /\ \A i \in DOMAIN queue[r.agent] : queue[r.agent][i].seq < r.seq
      /\ phase = "restoring" /\ ~Serving /\ lastTaken[r.agent] = 0 /\ 0 < r.seq
      /\ toRestore' = toRestore \ {r}
      /\ UNCHANGED <<nextSeq, lastTaken, spc, item, at, cur, phase>>
  BY <1>0, <1>a, CoreTypes, RowFields
     DEF RestoreRow, IsOldest, RestoreInv, RowsInv, PhaseInv, Serving, sender, readers,
         history
<1>c. \/ queue' = queue /\ pending' = pending \ {r}
      \/ queue' = [queue EXCEPT ![r.agent] = Append(queue[r.agent], r)]
           /\ pending' = pending
  BY DEF RestoreRow, WithoutRow
<1>d. ASSUME queue' = [queue EXCEPT ![r.agent] = Append(queue[r.agent], r)]
      PROVE  /\ \A b \in Agents : b # r.agent => queue'[b] = queue[b]
             /\ DOMAIN queue'[r.agent] = DOMAIN queue[r.agent] \cup
                                            {Len(queue[r.agent]) + 1}
             /\ \A i \in DOMAIN queue[r.agent] :
                  /\ queue'[r.agent][i] = queue[r.agent][i]
                  /\ i \in Nat /\ i < Len(queue[r.agent]) + 1
             /\ queue'[r.agent][Len(queue[r.agent]) + 1] = r
  <2>1. queue[r.agent] \in Seq(Row)
    BY <1>a, <1>b
  <2> QED BY <1>a, <1>b, <1>d, <2>1
<1>1. RowsInv'
  BY <1>0 DEF RowsInv, RestoreRow, IsOldest, WithoutRow, sender, readers, history, Held, Serving
<1>2. QueueInv'
  <2>1. CASE queue' = queue /\ pending' = pending \ {r}
    <3>1. \A a \in Agents : \A i \in DOMAIN queue[a] : queue[a][i] # r
      BY <1>0, <1>a, <1>b DEF QueueInv
    <3> QED BY <1>0, <1>b, <2>1, <3>1 DEF QueueInv
  <2>2. CASE queue' = [queue EXCEPT ![r.agent] = Append(queue[r.agent], r)]
               /\ pending' = pending
    <3>1. \A i \in DOMAIN queue'[r.agent] :
            /\ queue'[r.agent][i] \in pending'
            /\ queue'[r.agent][i].agent = r.agent
            /\ lastTaken'[r.agent] < queue'[r.agent][i].seq
      BY <1>0, <1>b, <1>d, <2>2 DEF QueueInv
    <3>2. \A i, j \in DOMAIN queue'[r.agent] :
            i < j => queue'[r.agent][i].seq < queue'[r.agent][j].seq
      BY <1>0, <1>a, <1>b, <1>d, <2>2 DEF QueueInv
    <3> QED BY <1>0, <1>b, <1>d, <2>2, <3>1, <3>2 DEF QueueInv
  <2> QED BY <1>c, <2>1, <2>2
<1>3. HeldInv'
  BY <1>0, <1>b DEF HeldInv, Held, PhaseInv
<1>4. CurInv'
  BY <1>0, <1>b DEF CurInv, PhaseInv
<1>5. PhaseInv'
  BY <1>0 DEF PhaseInv, RestoreRow, IsOldest, WithoutRow, sender, readers, history, Held, Serving
<1>6. RestoreInv'
  <2>1. toRestore' \subseteq pending'
    BY <1>0, <1>b, <1>c DEF RestoreInv
  <2>2. ASSUME NEW q \in toRestore', NEW i \in DOMAIN queue'[q.agent]
        PROVE  queue'[q.agent][i].seq < q.seq
    <3>1. q \in toRestore /\ q # r /\ q \in pending /\ q \in Row
          /\ q.seq \in Nat /\ q.agent \in Agents
      BY <1>0, <1>a, <1>b, RowFields DEF RestoreInv
    <3>2. q.agent = r.agent => r.seq < q.seq
      BY <1>0, <1>b, <3>1 DEF RowsInv
    <3>3. CASE queue' = queue
      BY <1>0, <2>2, <3>1, <3>3 DEF RestoreInv
    <3>4. CASE queue' = [queue EXCEPT ![r.agent] = Append(queue[r.agent], r)]
      BY <1>0, <1>b, <1>d, <2>2, <3>1, <3>2, <3>4 DEF RestoreInv
    <3> QED BY <1>c, <3>3, <3>4
  <2> QED BY <2>1, <2>2 DEF RestoreInv
<1> QED BY <1>1, <1>2, <1>3, <1>4, <1>5, <1>6 DEF IInv

\* Initially nothing is stored, queued or held.
LEMMA InitInv == Init => IInv
BY DEF Init, IInv, RowsInv, QueueInv, HeldInv, Held, CurInv, PhaseInv, Serving,
       RestoreInv

\* Every step keeps the invariant.
LEMMA InvStep == TypeOK /\ IInv /\ [Next]_vars => IInv'
<1> SUFFICES ASSUME TypeOK, IInv, [Next]_vars PROVE IInv'
  OBVIOUS
<1>1. CASE UNCHANGED core
  BY <1>1, CoreFrame
<1>2. ASSUME NEW m \in Msgs, LogMessage(m) PROVE IInv'
  BY <1>2, LogInv
<1>3. CASE Route \/ StoreRaises
  BY <1>3, EnqueueInv, PutInv, FullInv, LeaveInv DEF Route
<1>4. ASSUME NEW s \in Streams,
             \/ StartStream(s) \/ Serve(s) \/ StreamRaises(s) \/ AbortYield(s)
             \/ ClientLeaves(s) \/ DrainedStream(s)
      PROVE  IInv'
  BY <1>4, TakeInv, DequeueInv, StreamMoveInv DEF Serve
<1>5. CASE Drain \/ Exit
  BY <1>5, ExitInv
<1>6. CASE Restore
  BY <1>6, StartInv, RestoreRowInv DEF Restore
<1> QED BY <1>1, <1>2, <1>3, <1>4, <1>5, <1>6, CoreWriters

\* The invariant holds in every reachable state.
THEOREM Invariance == Spec => []IInv
<1>1. TypeOK /\ IInv /\ [Next]_vars => IInv'
  BY InvStep
<1> QED BY <1>1, InitInv, TypeCorrect, PTL DEF Spec

\* Whatever crash, restart, vanished client or store error interleaves, the rows the
\* router holds in memory are stored: a crash loses none of them.
THEOREM Durability == Spec => []MemoryIsDurable
<1>1. IInv => MemoryIsDurable
  BY DEF IInv, QueueInv, HeldInv, MemoryIsDurable
<1> QED BY <1>1, Invariance, PTL

\* Streams that pop one queue without a lock never get the same row, and between two
\* restarts an agent's rows are popped in the order they were routed.
THEOREM OrderedDelivery == Spec => []OneHandFIFO
<1>1. IInv => OneHandFIFO
  BY DEF IInv, QueueInv, HeldInv, OneHandFIFO
<1> QED BY <1>1, Invariance, PTL
-------------------------------------------------------------------------------
(* What becomes of a message *)

InQueue(r) == \E i \in DOMAIN queue[r.agent] : queue[r.agent][i] = r

\* While the router restores its queues a stored row is queued or still to be queued;
\* this is what NoStrandedRow needs at the end of a restart.
StrandInv ==
  \A r \in pending :
    /\ Serving => \/ InQueue(r)
                  \/ \E s \in Streams : Held(s) /\ item[s] = r
                  \/ at = "put" /\ cur = r
                  \/ r \in dropped
    /\ phase = "restoring" => InQueue(r) \/ r \in toRestore

\* Popping a queue moves every other element one place up.
LEMMA TailPlaces ==
  ASSUME NEW S, NEW q \in Seq(S), q # <<>>, NEW i \in DOMAIN q, i # 1
  PROVE  i - 1 \in DOMAIN Tail(q) /\ Tail(q)[i - 1] = q[i]
OBVIOUS

\* Appending a row to a queue keeps the others in it.
LEMMA AppendKeepsRows ==
  ASSUME queue \in [Agents -> Seq(Row)], NEW q \in Row,
         queue' = [queue EXCEPT ![q.agent] = Append(queue[q.agent], q)],
         NEW r \in Row, InQueue(r) \/ r = q
  PROVE  InQueue(r)'
<1>1. q.agent \in Agents /\ r.agent \in Agents
  BY RowFields
<1>2. queue[q.agent] \in Seq(Row) /\ queue[r.agent] \in Seq(Row)
  BY <1>1
<1>3. CASE r = q
  <2>1. queue'[q.agent] = Append(queue[q.agent], q)
    BY <1>1
  <2>2. Len(queue[q.agent]) + 1 \in DOMAIN queue'[q.agent]
        /\ queue'[q.agent][Len(queue[q.agent]) + 1] = q
    BY <1>2, <2>1
  <2> QED BY <1>3, <2>2 DEF InQueue
<1>4. CASE InQueue(r)
  <2>1. PICK i \in DOMAIN queue[r.agent] : queue[r.agent][i] = r
    BY <1>4 DEF InQueue
  <2>2. i \in DOMAIN queue'[r.agent] /\ queue'[r.agent][i] = r
    <3>1. CASE r.agent = q.agent
      <4>1. queue'[r.agent] = Append(queue[r.agent], q)
        BY <1>1, <3>1
      <4> QED BY <1>2, <2>1, <4>1
    <3>2. CASE r.agent # q.agent
      BY <1>1, <2>1, <3>2
    <3> QED BY <3>1, <3>2
  <2> QED BY <2>2 DEF InQueue
<1> QED BY <1>3, <1>4

\* A step that touches no queue, and after which what a hand has let go of is deleted or
\* counted as dropped, strands no row.
LEMMA StrandFrame ==
  ASSUME StrandInv, pending' \subseteq pending, UNCHANGED <<queue, toRestore, phase>>,
         \A s \in Streams :
           Held(s) => \/ Held(s)' /\ item'[s] = item[s]
                      \/ item[s] \notin pending' \/ item[s] \in dropped',
         at = "put" => \/ at' = "put" /\ cur' = cur
                       \/ cur \notin pending' \/ cur \in dropped',
         dropped \subseteq dropped'
  PROVE  StrandInv'
BY DEF StrandInv, InQueue, Serving

\* The sender's steps: a row leaves its hand only for a queue, or with the store's copy.
LEMMA SenderStrand ==
  ASSUME TypeOK, IInv, StrandInv,
         \/ \E m \in Msgs : Call(m) \/ Send(m) \/ RecordRaises(m)
         \/ Route \/ StoreRaises
  PROVE  StrandInv'
<1>a. pending \subseteq Row /\ queue \in [Agents -> Seq(Row)]
  BY DEF TypeOK, DurableType, MemoryType
<1>1. ASSUME NEW m \in Msgs, Call(m) \/ Send(m) PROVE StrandInv'
  <2>1. /\ UNCHANGED <<pending, queue, toRestore, phase, spc, item, dropped>>
        /\ at = "put" => at' = "put" /\ cur' = cur
    <3>1. at # "none" => holder # NoMsg
      BY RouterAssumption DEF TypeOK, SenderType
    <3> QED BY <1>1, <3>1
        DEF Call, Send, StartSend, LogMessage, durable, memory, readers, history, TypeOK,
            SenderType
  <2> QED BY <2>1, StrandFrame DEF Held
<1>2. ASSUME NEW m \in Msgs, RecordRaises(m) PROVE StrandInv'
  <2>1. UNCHANGED <<pending, queue, toRestore, phase, spc, item, at, cur, dropped>>
    BY <1>2 DEF RecordRaises, durable, memory, readers
  <2> QED BY <2>1, StrandFrame DEF Held
<1>7. CASE StoreRaises
  <2>1. /\ UNCHANGED <<pending, queue, toRestore, phase, spc, item>>
        /\ dropped' = dropped \cup ({cur} \ {NoRow})
    BY <1>7 DEF StoreRaises, durable, memory, readers
  <2>2. at = "put" => cur # NoRow
    BY NullAssumption DEF TypeOK, SenderType
  <2> QED BY <2>1, <2>2, StrandFrame DEF Held
<1>3. ASSUME NEW a \in Agents, EnqueueRow(a) PROVE StrandInv'
  <2>1. pending' = pending \cup {cur'} /\ at' = "put" /\ at = "pick"
        /\ UNCHANGED <<queue, toRestore, phase, spc, item, dropped>>
    BY <1>3 DEF EnqueueRow, memory, readers, history
  <2>2. Serving /\ phase # "restoring"
    BY <2>1 DEF IInv, PhaseInv, Serving
  <2> QED BY <2>1, <2>2 DEF StrandInv, Serving, InQueue, Held
<1>4. CASE PutNowait
  <2>1. /\ cur \in Row /\ at = "put"
        /\ queue' = [queue EXCEPT ![cur.agent] = Append(queue[cur.agent], cur)]
        /\ UNCHANGED <<pending, toRestore, phase, spc, item, dropped>>
    BY <1>4 DEF PutNowait, TypeOK, SenderType, durable, readers, history
  <2>2. \A r \in pending : InQueue(r) \/ r = cur => InQueue(r)'
    BY <1>a, <2>1, AppendKeepsRows
  <2>3. Serving /\ phase # "restoring"
    BY <2>1 DEF IInv, PhaseInv, Serving
  <2> QED BY <2>1, <2>2, <2>3 DEF StrandInv, Serving, Held
<1>5. CASE QueueFull
  <2>1. pending' = pending \ {cur} /\ UNCHANGED <<queue, toRestore, phase, spc, item, dropped>>
    BY <1>5 DEF QueueFull, WithoutRow, memory, readers, history
  <2> QED BY <2>1, StrandFrame DEF Held
<1>6. CASE Reply
  <2>1. at = "pick" /\ UNCHANGED <<pending, queue, toRestore, phase, spc, item, dropped>>
    BY <1>6 DEF Reply, durable, memory, readers, history
  <2> QED BY <2>1, StrandFrame DEF Held
<1> QED BY <1>1, <1>2, <1>3, <1>4, <1>5, <1>6, <1>7 DEF Route

\* A stream's steps: what leaves a queue is in a hand, what leaves the hand is deleted.
LEMMA StreamStrand ==
  ASSUME TypeOK, IInv, StrandInv, NEW s \in Streams,
         \/ StartStream(s) \/ Serve(s) \/ StreamRaises(s)
         \/ AbortYield(s) \/ ClientLeaves(s) \/ DrainedStream(s)
  PROVE  StrandInv'
<1>a. /\ pending \subseteq Row /\ queue \in [Agents -> Seq(Row)] /\ StreamAgent \in [Streams -> Agents]
      /\ spc \in [Streams -> StreamStates] /\ item \in [Streams -> Row \cup {NoRow}]
  BY CoreTypes DEF TypeOK, HistoryType
<1>1. CASE StreamRaises(s) \/ AbortYield(s)
  <2>1. /\ spc' = [spc EXCEPT ![s] = "idle"] /\ item' = [item EXCEPT ![s] = NoRow]
        /\ UNCHANGED <<pending, queue, toRestore, phase, at, cur>>
        /\ dropped \subseteq dropped'
        /\ item[s] # NoRow => item[s] \in dropped'
    BY <1>1 DEF StreamRaises, AbortYield, durable, memory, sender
  <2>2. Held(s) => item[s] # NoRow
    BY DEF TypeOK, StreamType
  <2>3. \A t \in Streams :
          Held(t) => (Held(t)' /\ item'[t] = item[t]) \/ item[t] \in dropped'
    BY <1>a, <2>1, <2>2 DEF Held
  <2> QED BY <2>1, <2>3, StrandFrame
<1>2. CASE StartStream(s) \/ OpenStream(s) \/ Transmit(s) \/ ClientLeaves(s) \/ DrainedStream(s)
  <2>1. /\ UNCHANGED <<pending, queue, toRestore, phase, item, at, cur, dropped>>
        /\ \A t \in Streams : Held(t) => Held(t)'
    BY <1>2, <1>a
       DEF StartStream, OpenStream, Transmit, ClientLeaves, DrainedStream, Held, durable,
           memory, sender, history
  <2> QED BY <2>1, StrandFrame
<1>3. CASE DequeueRow(s)
  <2>1. /\ pending' = pending \ {item[s]} /\ spc' = [spc EXCEPT ![s] = "polling"]
        /\ item' = [item EXCEPT ![s] = NoRow]
        /\ UNCHANGED <<queue, toRestore, phase, at, cur, dropped>>
    BY <1>3 DEF DequeueRow, WithoutRow, memory, sender, history
  <2>2. \A t \in Streams :
          Held(t) => (Held(t)' /\ item'[t] = item[t]) \/ item[t] \notin pending'
    BY <1>a, <2>1 DEF Held
  <2> QED BY <2>1, <2>2, StrandFrame
<1>4. CASE Take(s)
  <2> DEFINE a == StreamAgent[s]
  <2>1. /\ a \in Agents /\ queue[a] \in Seq(Row) /\ queue[a] # <<>> /\ ~Held(s)
        /\ queue' = [queue EXCEPT ![a] = Tail(queue[a])]
        /\ item' = [item EXCEPT ![s] = Head(queue[a])]
        /\ spc' = [spc EXCEPT ![s] = "yielded"]
        /\ UNCHANGED <<pending, toRestore, phase, at, cur, dropped>>
    BY <1>4, <1>a DEF Take, durable, sender, Held
  <2>2. Serving /\ phase # "restoring"
    BY <1>4 DEF Take, IInv, PhaseInv, Serving
  <2>3. Held(s)' /\ item'[s] = Head(queue[a]) /\ Head(queue[a]) = queue[a][1]
    BY <1>a, <2>1 DEF Held
  <2>4. \A t \in Streams : Held(t) => Held(t)' /\ item'[t] = item[t]
    BY <1>a, <2>1 DEF Held
  <2>5. ASSUME NEW r \in pending, InQueue(r)
        PROVE  InQueue(r)' \/ item'[s] = r
    <3>1. PICK i \in DOMAIN queue[r.agent] : queue[r.agent][i] = r
      BY <2>5 DEF InQueue
    <3>2. CASE r.agent # a
      <4>1. r.agent \in Agents /\ queue'[r.agent] = queue[r.agent]
        BY <1>a, <2>1, <3>2, RowFields
      <4> QED BY <3>1, <4>1 DEF InQueue
    <3>3. CASE r.agent = a /\ i = 1
      BY <2>3, <3>1, <3>3
    <3>4. CASE r.agent = a /\ i # 1
      <4>1. queue'[a] = Tail(queue[a])
        BY <1>a, <2>1
      <4>2. i \in DOMAIN queue[a] /\ queue[a][i] = r
        BY <3>1, <3>4
      <4>3. i - 1 \in DOMAIN Tail(queue[a]) /\ Tail(queue[a])[i - 1] = queue[a][i]
        BY <2>1, <3>4, <4>2, TailPlaces
      <4>4. i - 1 \in DOMAIN queue'[a] /\ queue'[a][i - 1] = r
        BY <4>1, <4>2, <4>3
      <4> QED BY <3>4, <4>4 DEF InQueue
    <3> QED BY <3>2, <3>3, <3>4
  <2> HIDE DEF a
  <2> QED BY <2>1, <2>2, <2>3, <2>4, <2>5 DEF StrandInv, Serving
<1> QED BY <1>1, <1>2, <1>3, <1>4 DEF Serve

\* A restart takes up every stored row.
LEMMA RestartStrand ==
  ASSUME TypeOK, IInv, StrandInv, Drain \/ Exit \/ Restore
  PROVE  StrandInv'
<1>a. /\ pending \subseteq Row /\ toRestore \subseteq Row /\ queue \in [Agents -> Seq(Row)]
  BY CoreTypes
<1>1. CASE Drain
  BY <1>1 DEF Drain, StrandInv, InQueue, Serving, Held, durable, sender, readers, history
<1>2. CASE Exit
  BY <1>2 DEF Exit, StrandInv, Serving
<1>3. CASE Start
  BY <1>3 DEF Start, StoredRows, StrandInv, Serving, durable
<1>4. CASE RestoreLog
  BY <1>4 DEF RestoreLog, StrandInv, InQueue, Serving, durable, sender, readers, history
<1>5. ASSUME NEW r \in toRestore, RestoreRow(r) PROVE StrandInv'
  <2>1. /\ phase' = "restoring" /\ ~Serving' /\ phase = "restoring"
        /\ toRestore' = toRestore \ {r} /\ UNCHANGED <<dropped>>
        /\ \/ queue' = queue /\ pending' = pending \ {r}
           \/ queue' = [queue EXCEPT ![r.agent] = Append(queue[r.agent], r)]
              /\ pending' = pending
    BY <1>5 DEF RestoreRow, WithoutRow, Serving, history
  <2>2. CASE queue' = queue /\ pending' = pending \ {r}
    BY <2>1, <2>2 DEF StrandInv, InQueue
  <2>3. CASE queue' = [queue EXCEPT ![r.agent] = Append(queue[r.agent], r)] /\ pending' = pending
    <3>1. \A q \in pending : InQueue(q) \/ q = r => InQueue(q)'
      BY <1>a, <2>3, AppendKeepsRows
    <3> QED BY <2>1, <2>3, <3>1 DEF StrandInv
  <2> QED BY <2>1, <2>2, <2>3
<1> QED BY <1>1, <1>2, <1>3, <1>4, <1>5 DEF Restore

\* No step of the router strands a row.
LEMMA StrandStep == TypeOK /\ IInv /\ StrandInv /\ [Next]_vars => StrandInv'
<1> SUFFICES ASSUME TypeOK, IInv, StrandInv, [Next]_vars PROVE StrandInv'
  OBVIOUS
<1>1. CASE UNCHANGED vars
  BY <1>1 DEF vars, durable, memory, sender, readers, history, StrandInv, InQueue, Serving,
              Held
<1> QED BY <1>1, SenderStrand, StreamStrand, RestartStrand DEF Next

\* Whatever sends, streams, vanished clients, store errors, drains and restarts interleave,
\* a stored row is queued or in somebody's hands while the router serves, or is the row of
\* a handler that itself was aborted or met the error.
THEOREM NothingStranded == Spec => []NoStrandedRow
<1>1. Init => StrandInv
  BY DEF Init, StrandInv
<1>2. TypeOK /\ IInv /\ StrandInv => NoStrandedRow
  <2> SUFFICES ASSUME TypeOK, StrandInv, Serving, NEW r \in pending,
                      InQueue(r)
               PROVE  r.seq \in Seqs(queue[r.agent])
    BY DEF NoStrandedRow, StrandInv
  <2> QED BY DEF InQueue, Seqs
<1> QED BY <1>1, <1>2, StrandStep, TypeCorrect, Invariance, PTL DEF Spec
-------------------------------------------------------------------------------
(***************************************************************************)
(* Where the copies of a message may be. A request owns the routing loop   *)
(* exactly while it is in state "locked", and until then it has no copies; *)
(* a copy made in the loop is counted in `sent` or still in the hand.      *)
(***************************************************************************)

\* The request that is being routed.
LoopInv ==
  /\ at # "none" => req[holder] = "locked" /\ holder \notin AckMsgs
  /\ \A m \in Msgs : req[m] = "locked" => at # "none" /\ m = holder
  /\ at = "put" => cur.msg = holder /\ cur.agent \notin todo \cup sent
  /\ todo \cap sent = {} /\ (at = "none" => sent = {})

\* A message with a copy, stored or received, has been routed.
Routed(m) == req[m] \in {"locked", "accepted", "failed", "lost"}
CopyInv ==
  /\ \A r \in pending :
       /\ r.msg \notin AckMsgs /\ Routed(r.msg)
       /\ req[r.msg] = "locked" => r.agent \in sent \/ (at = "put" /\ r = cur)
  /\ \A c \in received : Routed(c[1]) /\ (req[c[1]] = "locked" => c[2] \in sent)
  /\ \A p, q \in pending : p.msg = q.msg /\ p.agent = q.agent => p = q

\* The types the arguments below use.
LEMMA CopyTypes ==
  ASSUME TypeOK
  PROVE  /\ req \in [Msgs -> ReqStates] /\ todo \subseteq Agents /\ sent \subseteq Agents
         /\ at # "none" => holder \in Msgs
         /\ at = "none" => holder = NoMsg
         /\ at \in {"none", "pick", "put"} /\ at = "put" => cur \in Row
         /\ received \subseteq Msgs \X Agents /\ promised \subseteq Msgs \X Agents
         /\ pending \subseteq Row
         /\ \A r \in Row : r.msg \in Msgs /\ r.agent \in Agents
         /\ NoMsg \notin Msgs
<1>1. at # "none" => holder \in Msgs
  BY DEF TypeOK, SenderType
<1>2. at = "none" => holder = NoMsg
  BY DEF TypeOK, SenderType
<1>3. at = "put" => cur \in Row
  BY DEF TypeOK, SenderType
<1>4. \A r \in Row : r.msg \in Msgs /\ r.agent \in Agents
  BY DEF Row
<1> QED BY <1>1, <1>2, <1>3, <1>4, RouterAssumption
        DEF TypeOK, SenderType, HistoryType, DurableType

\* The loop's owner stays its owner until the handler leaves.
LEMMA LoopStep == TypeOK /\ LoopInv /\ [Next]_vars => LoopInv'
<1> SUFFICES ASSUME TypeOK, LoopInv, [Next]_vars PROVE LoopInv'
  OBVIOUS
<1> USE CopyTypes, RouterAssumption
<1>1. CASE UNCHANGED sender
  BY <1>1 DEF sender, LoopInv
<1>2. ASSUME NEW m \in Msgs, Call(m) \/ StartSend(m) \/ RecordRaises(m) PROVE LoopInv'
  <2>1. /\ req[m] # "locked" /\ req' = [req EXCEPT ![m] = req'[m]]
        /\ req'[m] # "locked" /\ UNCHANGED <<at, holder, cur, todo, sent>>
    BY <1>2 DEF Call, StartSend, RecordRaises
  <2> QED BY <2>1 DEF LoopInv
<1>3. ASSUME NEW m \in Msgs, LogMessage(m) PROVE LoopInv'
  BY <1>3 DEF LogMessage, LoopInv
<1>4. ASSUME NEW a \in Agents, EnqueueRow(a) PROVE LoopInv'
  <2>1. /\ at = "pick" /\ at' = "put" /\ cur'.msg = holder /\ cur'.agent = a /\ a \in todo
        /\ todo' = todo \ {a} /\ UNCHANGED <<req, holder, sent>>
    BY <1>4 DEF EnqueueRow
  <2> QED BY <2>1 DEF LoopInv
<1>5. CASE PutNowait \/ QueueFull
  BY <1>5 DEF PutNowait, QueueFull, LoopInv
<1>6. CASE Reply \/ StoreRaises
  <2>1. /\ at # "none" /\ at' = "none" /\ todo' = {} /\ sent' = {}
        /\ req' = [req EXCEPT ![holder] = req'[holder]] /\ req'[holder] # "locked"
    BY <1>6 DEF Reply, StoreRaises, ReleaseLock
  <2> QED BY <2>1 DEF LoopInv
<1>7. CASE Exit
  <2>1. at' = "none" /\ todo' = {} /\ sent' = {} /\ \A m \in Msgs : req'[m] # "locked"
    BY <1>7 DEF Exit, ReleaseLock
  <2> QED BY <2>1 DEF LoopInv
<1> QED BY <1>1, <1>2, <1>3, <1>4, <1>5, <1>6, <1>7, SenderWriters DEF Send, Route

\* A step that makes no copy, and moves no request from being routed to not, keeps them
\* where they may be.
LEMMA CopyFrame ==
  ASSUME TypeOK, CopyInv, pending' \subseteq pending, received' = received,
         \A m \in Msgs : Routed(m) => Routed(m)' /\ (req'[m] = "locked" => req[m] = "locked"),
         \A m \in Msgs : req'[m] = "locked" =>
             sent \subseteq sent'
             /\ (at = "put" => (at' = "put" /\ cur' = cur) \/ cur \notin pending'
                                 \/ cur.agent \in sent')
  PROVE  CopyInv'
<1> USE CopyTypes
<1>1. ASSUME NEW r \in pending'
      PROVE  /\ r.msg \notin AckMsgs /\ Routed(r.msg)'
             /\ req'[r.msg] = "locked" => r.agent \in sent' \/ (at' = "put" /\ r = cur')
  <2>1. r \in pending /\ r.msg \in Msgs
    OBVIOUS
  <2> QED BY <2>1 DEF CopyInv
<1>2. ASSUME NEW c \in received
      PROVE  Routed(c[1])' /\ (req'[c[1]] = "locked" => c[2] \in sent')
  BY DEF CopyInv
<1>3. \A p, q \in pending' : p.msg = q.msg /\ p.agent = q.agent => p = q
  BY DEF CopyInv
<1> QED BY <1>1, <1>2, <1>3 DEF CopyInv

\* Copies appear only for the message being routed, one for each agent.
LEMMA CopyStep == TypeOK /\ IInv /\ LoopInv /\ CopyInv /\ [Next]_vars => CopyInv'
<1> SUFFICES ASSUME TypeOK, IInv, LoopInv, CopyInv, [Next]_vars PROVE CopyInv'
  OBVIOUS
<1> USE CopyTypes
<1>1. ASSUME NEW m \in Msgs, Call(m) \/ StartSend(m) \/ RecordRaises(m) PROVE CopyInv'
  <2>1. /\ ~Routed(m) /\ req' = [req EXCEPT ![m] = req'[m]]
        /\ req'[m] # "locked"
        /\ UNCHANGED <<pending, received, at, cur, sent>>
    BY <1>1 DEF Call, StartSend, RecordRaises, Routed, durable, history
  <2> QED BY <2>1, CopyFrame DEF Routed
<1>2. ASSUME NEW m \in Msgs, LogMessage(m) PROVE CopyInv'
  <2>1. /\ ~Routed(m) /\ req' = [req EXCEPT ![m] = req'[m]] /\ at = "none"
        /\ UNCHANGED <<pending, received>>
    BY <1>2 DEF LogMessage, Routed, history
  <2>2. \A r \in pending : r.msg # m /\ req[r.msg] # "locked"
    BY <2>1 DEF CopyInv, LoopInv
  <2>3. \A c \in received : c[1] # m /\ req[c[1]] # "locked"
    BY <2>1 DEF CopyInv, LoopInv
  <2> QED BY <2>1, <2>2, <2>3 DEF CopyInv, Routed
<1>3. ASSUME NEW a \in Agents, EnqueueRow(a) PROVE CopyInv'
  <2>1. /\ at = "pick" /\ at' = "put" /\ a \in todo /\ holder \in Msgs
        /\ cur'.msg = holder /\ cur'.agent = a
        /\ pending' = pending \cup {cur'} /\ UNCHANGED <<req, received, sent>>
    BY <1>3 DEF EnqueueRow, history
  <2>2. req[holder] = "locked" /\ holder \notin AckMsgs /\ a \notin sent
    BY <2>1 DEF LoopInv
  <2>3. \A p \in pending : ~(p.msg = holder /\ p.agent = a)
    BY <2>1, <2>2 DEF CopyInv
  <2>4. \A r \in pending' :
          /\ r.msg \notin AckMsgs /\ Routed(r.msg)'
          /\ req'[r.msg] = "locked" => r.agent \in sent' \/ (at' = "put" /\ r = cur')
    BY <2>1, <2>2 DEF CopyInv, Routed
  <2>5. \A c \in received : Routed(c[1])' /\ (req'[c[1]] = "locked" => c[2] \in sent')
    BY <2>1 DEF CopyInv, Routed
  <2>6. \A p, q \in pending' : p.msg = q.msg /\ p.agent = q.agent => p = q
    BY <2>1, <2>3 DEF CopyInv
  <2> QED BY <2>1, <2>4, <2>5, <2>6 DEF CopyInv
<1>4. CASE PutNowait \/ QueueFull
  <2>1. /\ pending' \subseteq pending /\ UNCHANGED <<received, req>> /\ sent \subseteq sent'
        /\ cur.agent \in sent' \/ cur \notin pending'
    BY <1>4 DEF PutNowait, QueueFull, WithoutRow, durable, history
  <2> QED BY <2>1, CopyFrame DEF Routed
<1>5. CASE Reply
  <2>1. /\ at = "pick" /\ holder \in Msgs /\ UNCHANGED <<pending, received>>
        /\ req' = [req EXCEPT ![holder] = IF sent # {} THEN "accepted" ELSE "rejected"]
    BY <1>5 DEF Reply, durable
  <2>2. req[holder] = "locked" /\ \A m \in Msgs : req'[m] # "locked"
    BY <2>1 DEF LoopInv
  <2>3. sent = {} => /\ \A r \in pending : r.msg # holder
                     /\ \A c \in received : c[1] # holder
    BY <2>1, <2>2 DEF CopyInv
  <2>4. \A r \in pending : r.msg \notin AckMsgs /\ Routed(r.msg)' /\ req'[r.msg] # "locked"
    BY <2>1, <2>2, <2>3 DEF CopyInv, Routed
  <2>5. \A c \in received : Routed(c[1])' /\ req'[c[1]] # "locked"
    BY <2>1, <2>2, <2>3 DEF CopyInv, Routed
  <2> QED BY <2>1, <2>4, <2>5 DEF CopyInv
<1>6. CASE StoreRaises
  <2>1. /\ at # "none" /\ holder \in Msgs /\ UNCHANGED <<pending, received>>
        /\ req' = [req EXCEPT ![holder] = "failed"]
    BY <1>6 DEF StoreRaises, durable
  <2>2. \A m \in Msgs : req'[m] # "locked"
    BY <2>1 DEF LoopInv
  <2> QED BY <2>1, <2>2, CopyFrame DEF Routed
<1>7. ASSUME NEW s \in Streams, Transmit(s) PROVE CopyInv'
  <2>1. /\ Held(s) /\ UNCHANGED <<pending, req, at, cur, sent>>
        /\ received' \subseteq received \cup {<<item[s].msg, item[s].agent>>}
    BY <1>7 DEF Transmit, Held, durable, sender
  <2>2. item[s] \in pending /\ (at = "put" => item[s] # cur)
    <3>1. item[s] \in pending /\ item[s].agent = StreamAgent[s]
          /\ item[s].seq <= lastTaken[StreamAgent[s]]
      BY <2>1 DEF IInv, HeldInv
    <3>2. at = "put" => lastTaken[cur.agent] < cur.seq
      BY DEF IInv, CurInv
    <3>3. item[s].seq \in Nat /\ lastTaken[item[s].agent] \in Nat
      BY <3>1, RowFields, CoreTypes
    <3> QED BY <3>1, <3>2, <3>3
  <2>3. Routed(item[s].msg) /\ (req[item[s].msg] = "locked" => item[s].agent \in sent)
    BY <2>2 DEF CopyInv
  <2>4. \A c \in received' : Routed(c[1])' /\ (req'[c[1]] = "locked" => c[2] \in sent')
    BY <2>1, <2>3 DEF CopyInv, Routed
  <2> QED BY <2>1, <2>4 DEF CopyInv, Routed
<1>8. ASSUME NEW s \in Streams,
             \/ StartStream(s) \/ OpenStream(s) \/ Take(s) \/ DequeueRow(s) \/ StreamRaises(s)
             \/ AbortYield(s) \/ ClientLeaves(s) \/ DrainedStream(s)
      PROVE  CopyInv'
  <2>1. pending' \subseteq pending /\ UNCHANGED <<received, req, at, cur, sent>>
    BY <1>8 DEF StartStream, OpenStream, Take, DequeueRow, StreamRaises, AbortYield,
                ClientLeaves, DrainedStream, WithoutRow, durable, sender, history
  <2> QED BY <2>1, CopyFrame DEF Routed
<1>9. CASE Exit
  <2>1. /\ UNCHANGED <<pending, received>>
        /\ \A m \in Msgs : req'[m] # "locked" /\ (Routed(m) => Routed(m)')
    BY <1>9 DEF Exit, durable, Routed
  <2> QED BY <2>1, CopyFrame
<1>10. CASE Drain \/ Restore
  <2>1. pending' \subseteq pending /\ UNCHANGED <<received, req, at, cur, sent>>
    BY <1>10 DEF Drain, Restore, Start, RestoreRow, RestoreLog, WithoutRow, durable, sender,
                 history
  <2> QED BY <2>1, CopyFrame DEF Routed
<1>11. CASE UNCHANGED vars
  BY <1>11 DEF vars, durable, sender, history, CopyInv, Routed
<1> QED BY <1>1, <1>2, <1>3, <1>4, <1>5, <1>6, <1>7, <1>8, <1>9, <1>10, <1>11
        DEF Next, Send, Route, Serve

\* Initially there is no request and no copy.
LEMMA InitCopies == Init => LoopInv /\ CopyInv
BY DEF Init, LoopInv, CopyInv

\* In every reachable state copies exist only of messages that were routed.
THEOREM CopiesAreRouted == Spec => [](LoopInv /\ CopyInv)
BY InitCopies, LoopStep, CopyStep, TypeCorrect, Invariance, PTL DEF Spec

\* A sender whose message was rejected can send it again: no copy of it is stored, now or
\* after any crash, and none has reached anybody.
THEOREM RejectionIsClean == Spec => []RejectedLeavesNothing
<1>1. TypeOK /\ CopyInv => RejectedLeavesNothing
  BY DEF CopyInv, Routed, RejectedLeavesNothing
<1> QED BY <1>1, CopiesAreRouted, TypeCorrect, PTL
-------------------------------------------------------------------------------
(***************************************************************************)
(* The router implements DurableMailbox, if what it hands to gRPC reaches  *)
(* the client and every queue has room for one copy of each message that   *)
(* may be pending: a restart discards rows it has no room for.             *)
(***************************************************************************)

Roomy ==
  /\ LossyTransport = FALSE /\ IsFiniteSet(Msgs)
  /\ \A n \in QueueSizes : Cardinality(Msgs \ AckMsgs) <= n

StoredCopies == {Copy(r) : r \in pending}

\* What a promise rests on: it is made for copies the loop has counted, and a row is deleted
\* once its copy was received. A restart knows every agent with a row, and gives it a queue.
MailInv ==
  /\ \A c \in promised : req[c[1]] = "accepted"
  /\ \A a \in sent : <<holder, a>> \in StoredCopies \cup received
  /\ \A s \in Streams : spc[s] = "resumed" => Copy(item[s]) \in received
AgentInv ==
  /\ known \subseteq dbAgents /\ todo \subseteq dbAgents
  /\ \A r \in pending : r.agent \in dbAgents
  /\ phase = "restoring" => \A a \in dbAgents : cap[a] \in QueueSizes

\* A stored row's agent is stored, so that the restart creates its queue.
LEMMA AgentStep == TypeOK /\ IInv /\ AgentInv /\ [Next]_vars => AgentInv'
<1> SUFFICES ASSUME TypeOK, IInv, AgentInv, [Next]_vars PROVE AgentInv'
  OBVIOUS
<1>a. cap \in [Agents -> Nat] /\ dbAgents \subseteq Agents /\ maxQueueSize \in QueueSizes
  BY DEF TypeOK, MemoryType, DurableType
<1>1. ASSUME NEW m \in Msgs, Call(m) \/ StartSend(m) \/ RecordRaises(m) PROVE AgentInv'
  BY <1>1 DEF Call, StartSend, RecordRaises, AgentInv, durable, memory
<1>2. ASSUME NEW m \in Msgs, LogMessage(m) PROVE AgentInv'
  BY <1>2 DEF LogMessage, AgentInv
<1>3. ASSUME NEW a \in Agents, EnqueueRow(a) PROVE AgentInv'
  <2>1. /\ pending' = pending \cup {cur'} /\ cur'.agent = a /\ a \in todo /\ todo' = todo \ {a}
        /\ UNCHANGED <<dbAgents, known, phase, cap>>
    BY <1>3 DEF EnqueueRow, memory
  <2> QED BY <2>1 DEF AgentInv
<1>4. CASE PutNowait \/ QueueFull
  BY <1>4 DEF PutNowait, QueueFull, WithoutRow, AgentInv, durable, memory
<1>5. CASE Reply \/ StoreRaises
  BY <1>5 DEF Reply, StoreRaises, ReleaseLock, AgentInv, durable, memory
<1>6. ASSUME NEW s \in Streams, OpenStream(s) PROVE AgentInv'
  <2>1. phase' # "restoring"
    BY <1>6 DEF OpenStream, IInv, PhaseInv, Serving
  <2> QED BY <1>6, <2>1 DEF OpenStream, AgentInv, sender
<1>7. ASSUME NEW s \in Streams,
             \/ StartStream(s) \/ Take(s) \/ Transmit(s) \/ DequeueRow(s) \/ StreamRaises(s)
             \/ AbortYield(s) \/ ClientLeaves(s) \/ DrainedStream(s)
      PROVE  AgentInv'
  <2>1. pending' \subseteq pending /\ UNCHANGED <<dbAgents, known, todo, phase, cap>>
    BY <1>7 DEF StartStream, Take, Transmit, DequeueRow, StreamRaises, AbortYield,
                ClientLeaves, DrainedStream, WithoutRow, durable, memory, sender
  <2> QED BY <2>1 DEF AgentInv
<1>8. CASE Drain \/ Exit
  BY <1>8 DEF Drain, Exit, ReleaseLock, AgentInv, durable, sender
<1>9. CASE Start
  <2>1. /\ known' = dbAgents /\ UNCHANGED <<pending, dbAgents, todo>> /\ maxQueueSize' \in QueueSizes
        /\ cap' = [a \in Agents |-> IF a \in dbAgents THEN maxQueueSize' ELSE 0]
    BY <1>9 DEF Start, durable, sender
  <2> QED BY <1>a, <2>1 DEF AgentInv
<1>10. CASE RestoreLog \/ \E r \in toRestore : RestoreRow(r)
  <2>1. /\ pending' \subseteq pending /\ UNCHANGED <<dbAgents, known, todo, cap>>
        /\ phase = "restoring"
    BY <1>10 DEF RestoreRow, RestoreLog, WithoutRow, durable, sender
  <2> QED BY <2>1 DEF AgentInv
<1>11. CASE UNCHANGED vars
  BY <1>11 DEF vars, durable, memory, sender, AgentInv
<1> QED BY <1>1, <1>2, <1>3, <1>4, <1>5, <1>6, <1>7, <1>8, <1>9, <1>10, <1>11
        DEF Next, Send, Route, Serve, Restore

\* A queue is not full while a row that belongs to it is still to be restored: its rows are
\* copies of different messages, and of none that is an ACKNOWLEDGEMENT.
LEMMA RestoreHasRoom ==
  ASSUME TypeOK, IInv, CopyInv, AgentInv, Roomy, NEW r \in toRestore, RestoreRow(r)
  PROVE  ~Full(r.agent)
<1> DEFINE q == queue[r.agent]
           M == Msgs \ AckMsgs
<1>1. /\ r \in pending /\ r.agent \in Agents /\ r.msg \in M /\ q \in Seq(Row)
      /\ cap[r.agent] \in QueueSizes /\ cap[r.agent] \in Nat
  <2>1. r \in pending /\ r \in Row /\ r.agent \in Agents
    BY CoreTypes, RowFields DEF IInv, RestoreInv
  <2>2. cap[r.agent] \in QueueSizes
    BY <2>1 DEF AgentInv, RestoreRow
  <2> QED BY <2>1, <2>2, CoreTypes, ConstantTypes, CopyTypes DEF CopyInv
<1>2. /\ \A i \in 1..Len(q) : /\ q[i] \in pending /\ q[i].agent = r.agent /\ q[i].seq < r.seq
                              /\ q[i].msg \in M /\ q[i].seq \in Nat
      /\ \A i, j \in 1..Len(q) : i < j => q[i].seq < q[j].seq
  <2>1. DOMAIN q = 1..Len(q)
    BY <1>1
  <2> QED BY <1>1, <2>1, CopyTypes, RowFields DEF IInv, QueueInv, RestoreInv, CopyInv
<1>3. \A i, j \in 1..Len(q) : q[i].msg = q[j].msg => i = j
  BY <1>2 DEF CopyInv
<1>4. \A i \in 1..Len(q) : q[i].msg # r.msg
  <2> SUFFICES ASSUME NEW i \in 1..Len(q), q[i].msg = r.msg PROVE FALSE
    OBVIOUS
  <2>1. q[i] \in pending /\ q[i].agent = r.agent /\ q[i].seq < r.seq /\ q[i].seq \in Nat
    BY <1>2
  <2>2. q[i] = r
    BY <1>1, <2>1 DEF CopyInv
  <2> QED BY <2>1, <2>2
<1>5. PICK f \in [1..Len(q) -> M \ {r.msg}] : \A i \in 1..Len(q) : f[i] = q[i].msg
  <2>1. [i \in 1..Len(q) |-> q[i].msg] \in [1..Len(q) -> M \ {r.msg}]
    BY <1>2, <1>4
  <2> QED BY <2>1
<1>6. PICK n \in Nat : n = Len(q)
  BY <1>1
<1>7. PICK T : T = M \ {r.msg}
  OBVIOUS
<1> HIDE DEF q
<1>8. f \in Injection(1..n, T)
  BY <1>3, <1>5, <1>6, <1>7 DEF Injection, IsInjective
<1>9. IsFiniteSet(M) /\ Cardinality(T) = Cardinality(M) - 1 /\ IsFiniteSet(T)
      /\ Cardinality(M) \in Nat
  <2>1. IsFiniteSet(M)
    BY FS_Subset DEF Roomy
  <2> HIDE DEF M
  <2> QED BY <1>1, <1>7, <2>1, FS_RemoveElement, FS_CardinalityType
<1>10. Cardinality(1..n) <= Cardinality(T)
  BY <1>8, <1>9, FS_Injection
<1>11. Cardinality(1..n) = n
  <2>1. 1 \in Int /\ n \in Int
    BY <1>6
  <2>2. Cardinality(1..n) = IF 1 > n THEN 0 ELSE n - 1 + 1
    BY <2>1, FS_Interval
  <2> QED BY <1>6, <2>2
<1>12. n < Cardinality(M)
  BY <1>9, <1>10, <1>11
<1>13. Cardinality(M) <= cap[r.agent]
  BY <1>1 DEF Roomy
<1> QED BY <1>1, <1>6, <1>9, <1>12, <1>13 DEF Full, q

\* Promises and deletions keep what they rest on.
LEMMA MailStep ==
  TypeOK /\ IInv /\ LoopInv /\ CopyInv /\ Roomy /\ MailInv /\ [Next]_vars => MailInv'
<1> SUFFICES ASSUME TypeOK, IInv, LoopInv, CopyInv, Roomy, MailInv, [Next]_vars PROVE MailInv'
  OBVIOUS
<1> USE CopyTypes
<1>a. /\ spc \in [Streams -> StreamStates] /\ item \in [Streams -> Row \cup {NoRow}]
  BY CoreTypes
<1>1. ASSUME NEW m \in Msgs, Call(m) \/ StartSend(m) \/ RecordRaises(m) PROVE MailInv'
  <2>1. /\ req[m] # "accepted" /\ req' = [req EXCEPT ![m] = req'[m]]
        /\ UNCHANGED <<pending, promised, received, holder, sent, spc, item>>
    BY <1>1 DEF Call, StartSend, RecordRaises, durable, readers, history
  <2> QED BY <2>1 DEF MailInv, StoredCopies
<1>2. ASSUME NEW m \in Msgs, LogMessage(m) PROVE MailInv'
  <2>1. /\ req[m] # "accepted" /\ req' = [req EXCEPT ![m] = req'[m]]
        /\ UNCHANGED <<pending, promised, received, spc, item>>
        /\ sent' = {} \/ UNCHANGED <<holder, sent>>
    BY <1>2 DEF LogMessage, readers, history
  <2> QED BY <2>1 DEF MailInv, StoredCopies
<1>3. ASSUME NEW a \in Agents, EnqueueRow(a) PROVE MailInv'
  <2>1. pending \subseteq pending' /\ UNCHANGED <<req, promised, received, holder, sent, spc, item>>
    BY <1>3 DEF EnqueueRow, readers, history
  <2> QED BY <2>1 DEF MailInv, StoredCopies
<1>4. CASE PutNowait
  <2>1. /\ at = "put" /\ sent' = sent \cup {cur.agent}
        /\ UNCHANGED <<pending, req, promised, received, holder, spc, item>>
    BY <1>4 DEF PutNowait, durable, readers, history
  <2>2. cur \in pending /\ Copy(cur) = <<holder, cur.agent>>
    BY <2>1 DEF IInv, CurInv, LoopInv, Copy
  <2> QED BY <2>1, <2>2 DEF MailInv, StoredCopies
<1>5. CASE QueueFull
  <2>1. /\ at = "put" /\ pending' = pending \ {cur}
        /\ UNCHANGED <<req, promised, received, holder, sent, spc, item>>
    BY <1>5 DEF QueueFull, WithoutRow, readers, history, memory
  <2>2. \A a \in sent : <<holder, a>> # Copy(cur)
    BY <2>1 DEF LoopInv, Copy
  <2>3. \A a \in sent : <<holder, a>> \in StoredCopies' \cup received
    BY <2>1, <2>2 DEF MailInv, StoredCopies
  <2> QED BY <2>1, <2>3 DEF MailInv
<1>6. CASE Reply
  <2>1. /\ at = "pick" /\ holder \in Msgs /\ sent' = {}
        /\ req' = [req EXCEPT ![holder] = IF sent # {} THEN "accepted" ELSE "rejected"]
        /\ promised' = promised \cup {<<holder, a>> : a \in sent}
        /\ UNCHANGED <<received, spc, item>>
    BY <1>6 DEF Reply, ReleaseLock, readers
  <2>2. req[holder] = "locked"
    BY <2>1 DEF LoopInv
  <2>3. \A c \in promised' : req'[c[1]] = "accepted"
    BY <2>1, <2>2 DEF MailInv
  <2> QED BY <2>1, <2>3 DEF MailInv
<1>7. CASE StoreRaises
  <2>1. /\ at # "none" /\ holder \in Msgs /\ sent' = {} /\ req' = [req EXCEPT ![holder] = "failed"]
        /\ UNCHANGED <<promised, received, spc, item>>
    BY <1>7 DEF StoreRaises, ReleaseLock, readers
  <2>2. req[holder] = "locked"
    BY <2>1 DEF LoopInv
  <2> QED BY <2>1, <2>2 DEF MailInv
<1>8. ASSUME NEW s \in Streams, Transmit(s) PROVE MailInv'
  <2>1. /\ received' = received \cup {Copy(item[s])} /\ spc' = [spc EXCEPT ![s] = "resumed"]
        /\ UNCHANGED <<pending, req, promised, holder, sent, item>>
    BY <1>8 DEF Transmit, Copy, Roomy, durable, sender
  <2> QED BY <1>a, <2>1 DEF MailInv, StoredCopies
<1>9. ASSUME NEW s \in Streams, DequeueRow(s) PROVE MailInv'
  <2>1. /\ pending' = pending \ {item[s]} /\ spc[s] = "resumed"
        /\ spc' = [spc EXCEPT ![s] = "polling"] /\ item' = [item EXCEPT ![s] = NoRow]
        /\ UNCHANGED <<req, promised, received, holder, sent>>
    BY <1>9 DEF DequeueRow, WithoutRow, memory, sender, history
  <2>2. Copy(item[s]) \in received
    BY <2>1 DEF MailInv
  <2>3. StoredCopies \subseteq StoredCopies' \cup received
    BY <2>1, <2>2 DEF StoredCopies
  <2> QED BY <1>a, <2>1, <2>3 DEF MailInv
<1>10. ASSUME NEW s \in Streams,
             \/ StartStream(s) \/ OpenStream(s) \/ Take(s) \/ StreamRaises(s)
             \/ AbortYield(s) \/ ClientLeaves(s) \/ DrainedStream(s)
      PROVE  MailInv'
  <2>1. /\ UNCHANGED <<pending, req, promised, received, holder, sent>>
        /\ \A t \in Streams : spc'[t] = "resumed" => spc[t] = "resumed" /\ item'[t] = item[t]
    BY <1>a, <1>10 DEF StartStream, OpenStream, Take, StreamRaises, AbortYield, ClientLeaves,
                DrainedStream, durable, sender, history
  <2> QED BY <2>1 DEF MailInv, StoredCopies
<1>11. CASE Exit
  <2>1. /\ sent' = {} /\ \A s \in Streams : spc'[s] # "resumed"
        /\ \A m \in Msgs : req[m] = "accepted" => req'[m] = "accepted"
        /\ UNCHANGED promised
    BY <1>11 DEF Exit, ReleaseLock
  <2> QED BY <2>1 DEF MailInv
<1>12. CASE Drain \/ Restore
  <2>1. UNCHANGED <<req, promised, received, holder, sent, spc, item>>
    BY <1>12 DEF Drain, Restore, Start, RestoreRow, RestoreLog, sender, readers, history
  <2>2. sent = {}  \/ UNCHANGED pending
    <3>1. at = "none" => sent = {}
      BY DEF LoopInv
    <3> QED BY <1>12, <3>1
        DEF Drain, Restore, Start, RestoreRow, RestoreLog, durable, IInv, PhaseInv, Serving
  <2> QED BY <2>1, <2>2 DEF MailInv, StoredCopies
<1>13. CASE UNCHANGED vars
  BY <1>13 DEF vars, durable, sender, readers, history, MailInv, StoredCopies
<1> QED BY <1>1, <1>2, <1>3, <1>4, <1>5, <1>6, <1>7, <1>8, <1>9, <1>10, <1>11, <1>12, <1>13
        DEF Next, Send, Route, Serve

\* What the steps of the router are to a client of the mailbox: a row written is a copy
\* stored, a reply is a promise, what gRPC takes is handed over, a row deleted is a copy
\* discarded, and everything else, a crash or a restart too, is nothing.
LEMMA Simulation ==
  ASSUME TypeOK, IInv, LoopInv, CopyInv, MailInv, AgentInv, Roomy, [Next]_vars
  PROVE  [Mailbox!Next]_(Mailbox!vars)
<1> USE CopyTypes
<1>0. /\ \A r \in Row : Copy(r) \in Mailbox!Copies
      /\ item \in [Streams -> Row \cup {NoRow}] /\ spc \in [Streams -> StreamStates]
  BY CoreTypes DEF Copy, Mailbox!Copies
<1>a. ASSUME UNCHANGED <<pending, promised, received>>
      PROVE  UNCHANGED Mailbox!vars
  BY <1>a DEF Mailbox!vars
<1>b. ASSUME NEW r \in pending, pending' = pending \ {r}, UNCHANGED <<promised, received>>,
             Copy(r) \in promised => Copy(r) \in received
      PROVE  Mailbox!Next
  <2>1. \A q \in pending : Copy(q) = Copy(r) => q = r
    BY DEF CopyInv, Copy
  <2>2. {Copy(q) : q \in pending'} = {Copy(q) : q \in pending} \ {Copy(r)}
    BY <1>b, <2>1
  <2>3. Mailbox!Discard(Copy(r))
    BY <1>b, <2>2 DEF Mailbox!Discard
  <2> QED BY <1>0, <2>3 DEF Mailbox!Next
<1>1. ASSUME NEW a \in Agents, EnqueueRow(a) PROVE Mailbox!Next
  <2>1. /\ cur' = [seq |-> nextSeq, agent |-> a, msg |-> holder] /\ holder \in Msgs
        /\ pending' = pending \cup {cur'} /\ UNCHANGED <<promised, received>>
    BY <1>1 DEF EnqueueRow, history
  <2>2. Copy(cur') = <<holder, a>>
    BY <2>1 DEF Copy
  <2>3. {Copy(q) : q \in pending'} = {Copy(q) : q \in pending} \cup {<<holder, a>>}
    BY <2>1, <2>2
  <2>4. Mailbox!Store(<<holder, a>>)
    BY <2>1, <2>3 DEF Mailbox!Store
  <2> QED BY <2>1, <2>4 DEF Mailbox!Next, Mailbox!Copies
<1>2. CASE QueueFull
  <2>1. at = "put" /\ pending' = pending \ {cur} /\ UNCHANGED <<promised, received>>
    BY <1>2 DEF QueueFull, WithoutRow, history
  <2>2. cur \in pending /\ req[cur.msg] = "locked"
    BY <2>1 DEF IInv, CurInv, LoopInv
  <2>3. Copy(cur) \notin promised
    BY <2>2 DEF MailInv, Copy
  <2> QED BY <1>b, <2>1, <2>2, <2>3
<1>3. CASE Reply
  <2> DEFINE S == {<<holder, a>> : a \in sent}
  <2>1. /\ at = "pick" /\ holder \in Msgs /\ promised' = promised \cup S
        /\ UNCHANGED <<pending, received>>
    BY <1>3 DEF Reply, durable
  <2>2. S \subseteq {Copy(r) : r \in pending} \cup received
    BY DEF MailInv, StoredCopies
  <2>3. S \in SUBSET Mailbox!Copies
    BY <2>1 DEF Mailbox!Copies
  <2>4. Mailbox!Promise(S)
    BY <2>1, <2>2 DEF Mailbox!Promise
  <2> QED BY <2>3, <2>4 DEF Mailbox!Next
<1>4. ASSUME NEW s \in Streams, Transmit(s) PROVE Mailbox!Next
  <2>1. /\ Held(s) /\ received' = received \cup {Copy(item[s])}
        /\ UNCHANGED <<pending, promised>>
    BY <1>4 DEF Transmit, Held, Copy, Roomy, durable
  <2>2. item[s] \in pending
    BY <2>1 DEF IInv, HeldInv
  <2>3. Mailbox!HandOver(Copy(item[s]))
    BY <2>1, <2>2 DEF Mailbox!HandOver
  <2> QED BY <1>0, <2>2, <2>3 DEF Mailbox!Next
<1>5. ASSUME NEW s \in Streams, DequeueRow(s) PROVE Mailbox!Next
  <2>1. /\ spc[s] = "resumed" /\ pending' = pending \ {item[s]}
        /\ UNCHANGED <<promised, received>>
    BY <1>5 DEF DequeueRow, WithoutRow, history
  <2>2. item[s] \in pending /\ Copy(item[s]) \in received
    BY <2>1 DEF IInv, HeldInv, Held, MailInv
  <2> QED BY <1>b, <2>1, <2>2
<1>6. ASSUME NEW r \in toRestore, RestoreRow(r) PROVE UNCHANGED Mailbox!vars
  <2>1. ~Full(r.agent)
    BY <1>6, RestoreHasRoom
  <2> QED BY <1>6, <1>a, <2>1 DEF RestoreRow, history
<1>7. CASE \/ StoreRaises \/ PutNowait \/ Drain \/ Exit \/ Start \/ RestoreLog
           \/ \E m \in Msgs : Call(m) \/ StartSend(m) \/ LogMessage(m) \/ RecordRaises(m)
  <2>1. UNCHANGED <<pending, promised, received>>
    BY <1>7 DEF StoreRaises, PutNowait, Drain, Exit, Start, RestoreLog, Call, StartSend, LogMessage,
                RecordRaises, durable, history
  <2> QED BY <1>a, <2>1
<1>8. CASE \E s \in Streams :
             \/ StartStream(s) \/ OpenStream(s) \/ Take(s) \/ StreamRaises(s)
             \/ AbortYield(s) \/ ClientLeaves(s) \/ DrainedStream(s)
  <2>1. UNCHANGED <<pending, promised, received>>
    BY <1>8 DEF StartStream, OpenStream, Take, StreamRaises, AbortYield, ClientLeaves,
                DrainedStream, durable, history
  <2> QED BY <1>a, <2>1
<1>9. CASE UNCHANGED vars
  BY <1>9, <1>a DEF vars, durable, history
<1> QED BY <1>1, <1>2, <1>3, <1>4, <1>5, <1>6, <1>7, <1>8, <1>9
        DEF Next, Send, Route, Serve, Restore

\* A promised copy leaves the store only after its agent has received it, and only stored
\* copies are handed over, through any interleaving of sends and streams, full queues,
\* vanished clients, store errors and restarts.
THEOREM RouterIsAMailbox == Roomy => (Spec => MailboxSpec)
<1> SUFFICES ASSUME Roomy PROVE Spec => MailboxSpec
  OBVIOUS
<1>1. Init => Mailbox!Init /\ MailInv /\ AgentInv
  BY DEF Init, Mailbox!Init, MailInv, AgentInv
<1>2. TypeOK /\ IInv /\ LoopInv /\ CopyInv /\ MailInv /\ [Next]_vars => MailInv'
  BY MailStep
<1>3. TypeOK /\ IInv /\ LoopInv /\ CopyInv /\ MailInv /\ AgentInv /\ [Next]_vars
        => [Mailbox!Next]_(Mailbox!vars)
  BY Simulation
<1> QED
  BY <1>1, <1>2, <1>3, AgentStep, CopiesAreRouted, TypeCorrect, Invariance, PTL
     DEF Spec, MailboxSpec, Mailbox!Spec

\* Under the same assumption no message that a sender was told is delivered gets lost.
THEOREM NothingPromisedLost == Roomy => (Spec => []NoPromisedLoss)
<1> SUFFICES ASSUME Roomy PROVE Spec => []NoPromisedLoss
  OBVIOUS
<1>1. Init => NoPromisedLoss
  BY DEF Init, NoPromisedLoss
<1>2. NoPromisedLoss /\ [Mailbox!Next]_(Mailbox!vars) => NoPromisedLoss'
  <2> SUFFICES ASSUME NoPromisedLoss, [Mailbox!Next]_(Mailbox!vars)
               PROVE  NoPromisedLoss'
    OBVIOUS
  <2> DEFINE Stored == {Copy(r) : r \in pending}
  <2>1. promised \subseteq received \cup Stored
    BY DEF NoPromisedLoss
  <2>2. promised' \subseteq received' \cup Stored'
    BY <2>1 DEF Mailbox!Next, Mailbox!vars, Mailbox!Store, Mailbox!HandOver, Mailbox!Discard,
                Mailbox!Promise
  <2> QED BY <2>2 DEF NoPromisedLoss
<1>3. Spec => MailboxSpec
  BY RouterIsAMailbox
<1> QED BY <1>1, <1>2, <1>3, PTL DEF Spec, MailboxSpec, Mailbox!Spec
===============================================================================
