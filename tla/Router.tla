-------------------------------- MODULE Router --------------------------------
(***************************************************************************)
(* The reference router (reference-services/hive/router_service.py) with   *)
(* its SQLite store (RouterStateStore in hive/state_store.py).             *)
(*                                                                         *)
(* SendMessage handlers run in gRPC worker threads and serialise on one    *)
(* lock; StreamIncoming handlers pop a queue.Queue without that lock.      *)
(* Every store call commits on its own, so a crash may fall between any    *)
(* two of them: the actions below are cut at the store's commits and at    *)
(* the queue operations another thread can observe.                        *)
(***************************************************************************)
EXTENDS Integers, Sequences, FiniteSets, SequencesExt

CONSTANTS
  Agents,        \* agent ids that may open StreamIncoming
  Msgs,          \* SendMessage requests, one value per request
  Producer,      \* producer_id of each request: an agent or Outsider
  Outsider,      \* a producer that never opens a stream
  AckMsgs,       \* the requests whose message_type is ACKNOWLEDGEMENT
  Streams,       \* StreamIncoming calls that may exist at the same time
  StreamAgent,   \* the agent each of them serves
  Workers,       \* ThreadPoolExecutor(max_workers=...)
  QueueSizes,    \* values the configuration may give max_queue_size
  LossyTransport,\* may an item handed to gRPC fail to reach the client?
  MaxRestarts,   \* bound: process exits
  MaxAborts,     \* bound: clients that vanish while an item is being sent
  MaxFaults,     \* bound: store calls that raise
  NoRow, NoMsg   \* null values

ASSUME RouterAssumption ==
  /\ Producer \in [Msgs -> Agents \cup {Outsider}] /\ Outsider \notin Agents
  /\ AckMsgs \subseteq Msgs
  /\ StreamAgent \in [Streams -> Agents]
  /\ Workers \in Nat
  /\ QueueSizes \subseteq Nat \ {0} /\ QueueSizes # {}
  /\ LossyTransport \in BOOLEAN
  /\ MaxRestarts \in Nat /\ MaxAborts \in Nat /\ MaxFaults \in Nat
  /\ NoMsg \notin Msgs

Row == [seq : Nat, agent : Agents, msg : Msgs]

ASSUME NullAssumption == NoRow \notin Row

-------------------------------------------------------------------------------
VARIABLES
  \* ---- durable (SQLite) ----
  pending,       \* router_pending_messages, a set of rows
  nextSeq,       \* the AUTOINCREMENT counter of that table
  dbAgents,      \* router_agents
  dlog,          \* router_message_log, oldest first
  \* ---- process memory ----
  phase,         \* "down", "restoring" (inside __init__), "serving", or
                 \* "draining" (_shutdown_manager.is_draining)
  toRestore,     \* pending rows load_pending_messages returned, not yet queued
  known,         \* DOMAIN of agent_queues
  queue, cap,    \* the queue.Queue of each agent and its maxsize
  memLog,        \* message_log, in list order
  maxQueueSize,  \* self.max_queue_size
  \* ---- threads ----
  req,           \* progress of each SendMessage request
  holder,        \* the request inside `with self.lock`, or NoMsg
  at,            \* its place in the routing loop
  todo, sent,    \* target agents left, agents counted in delivered_count
  cur,           \* the row being routed
  spc, item,     \* progress of each stream, and the row it has popped
  \* ---- history and bounds ----
  promised,      \* <<message, agent>> pairs a reply accepted=True stands for
  received,      \* pairs that reached a stream's client
  lastTaken,     \* per agent, the highest sequence number popped since start
  dropped,       \* the rows a handler has let go of in mid-way since start
  restarts, aborts, faults

durable == <<pending, nextSeq, dbAgents, dlog>>
memory  == <<phase, toRestore, known, queue, cap, memLog, maxQueueSize>>
sender  == <<req, holder, at, todo, sent, cur>>
readers == <<spc, item>>
history == <<promised, received, lastTaken, dropped, restarts, aborts, faults>>
vars    == <<durable, memory, sender, readers, history>>

ReqStates    == {"idle", "queued", "checked", "locked",
                 "accepted", "rejected", "failed", "lost"}
StreamStates == {"idle", "opening", "polling", "yielded", "resumed"}

\* Worker threads of the pool that a handler occupies.
Busy == {m \in Msgs : req[m] \in {"checked", "locked"}}
          \cup {s \in Streams : spc[s] # "idle"}
FreeWorker == Cardinality(Busy) < Workers

Serving == phase \in {"serving", "draining"}

Full(a) == Len(queue[a]) >= cap[a]

\* The rows load_pending_messages returns. (Mutant: none of them.)
NoStoredRows == {}
StoredRows == pending

\* The first of a set of rows, in the order load_pending_messages lists them.
\* (Mutant: newest first, the order of load_message_log.)
IsNewest(r, S) == r \in S /\ \A q \in S : q.agent = r.agent => r.seq >= q.seq
IsOldest(r, S) == r \in S /\ \A q \in S : q.agent = r.agent => r.seq <= q.seq

\* The store after dequeue_message(r.seq). (Mutants: a delete that is never
\* committed; a delete by message id, which hits every recipient's row.)
RowKept(r) == pending
WithoutMessage(r) == {q \in pending : q.msg # r.msg}
WithoutRow(r) == pending \ {r}

\* The handler leaves `with self.lock`, with or without an exception. (Mutants:
\* the lock stays taken; the row being routed outlives the handler.)
LockKept == /\ holder' = holder /\ at' = "none" /\ todo' = {} /\ sent' = {}
            /\ cur' = NoRow
RowOutlives == /\ holder' = NoMsg /\ at' = "none" /\ todo' = {} /\ sent' = {}
               /\ cur' = cur
ReleaseLock == /\ holder' = NoMsg /\ at' = "none" /\ todo' = {} /\ sent' = {}
               /\ cur' = NoRow

Init ==
  /\ pending = {} /\ nextSeq = 1 /\ dbAgents = {} /\ dlog = <<>>
  /\ phase = "serving" /\ toRestore = {} /\ known = {}
  /\ queue = [a \in Agents |-> <<>>] /\ cap = [a \in Agents |-> 0]
  /\ memLog = <<>>
  /\ maxQueueSize \in QueueSizes
  /\ req = [m \in Msgs |-> "idle"] /\ holder = NoMsg /\ at = "none"
  /\ todo = {} /\ sent = {} /\ cur = NoRow
  /\ spc = [s \in Streams |-> "idle"] /\ item = [s \in Streams |-> NoRow]
  /\ promised = {} /\ received = {} /\ lastTaken = [a \in Agents |-> 0]
  /\ dropped = {} /\ restarts = 0 /\ aborts = 0 /\ faults = 0
-------------------------------------------------------------------------------
(* SendMessage *)

\* A client calls SendMessage; the call waits for a worker thread.
Call(m) ==
  /\ Serving /\ req[m] = "idle"
  /\ req' = [req EXCEPT ![m] = "queued"]
  /\ UNCHANGED <<durable, memory, holder, at, todo, sent, cur, readers, history>>

\* A worker runs the handler up to track_request: the drain check, which takes
\* no lock, and _refresh_runtime_config.
StartSend(m) ==
  /\ Serving /\ req[m] = "queued" /\ FreeWorker
  /\ req' = [req EXCEPT ![m] = IF phase = "draining" THEN "rejected" ELSE "checked"]
  /\ IF phase = "draining" THEN UNCHANGED maxQueueSize ELSE maxQueueSize' \in QueueSizes
  /\ UNCHANGED <<durable, phase, toRestore, known, queue, cap, memLog,
                 holder, at, todo, sent, cur, readers, history>>

\* The lock is taken, the message is logged in the store and in memory, and the
\* targets are every known agent but the producer. An ACKNOWLEDGEMENT is
\* accepted here and not routed.
LogMessage(m) ==
  /\ Serving /\ req[m] = "checked" /\ holder = NoMsg
  /\ dlog' = Append(dlog, m)
  /\ memLog' = Append(memLog, m)
  /\ IF m \in AckMsgs
       THEN /\ req' = [req EXCEPT ![m] = "accepted"]
            /\ UNCHANGED <<holder, at, todo, sent>>
       ELSE /\ req' = [req EXCEPT ![m] = "locked"]
            /\ holder' = m
            /\ at' = "pick"
            /\ todo' = known \ {Producer[m]}
            /\ sent' = {}
  /\ UNCHANGED <<pending, nextSeq, dbAgents, phase, toRestore, known, queue, cap,
                 maxQueueSize, cur, readers, history>>

\* enqueue_message: the durable row is committed before the memory queue.
EnqueueRow(a) ==
  /\ at = "pick" /\ a \in todo
  /\ cur' = [seq |-> nextSeq, agent |-> a, msg |-> holder]
  /\ pending' = pending \cup {cur'}
  /\ nextSeq' = nextSeq + 1
  /\ todo' = todo \ {a}
  /\ at' = "put"
  /\ UNCHANGED <<dbAgents, dlog, memory, req, holder, sent, readers, history>>

\* put_nowait succeeds: from here a stream may pop the row. delivered_count is
\* local to the handler, so counting the target belongs to the same step.
PutNowait ==
  /\ at = "put" /\ ~Full(cur.agent)
  /\ queue' = [queue EXCEPT ![cur.agent] = Append(@, cur)]
  /\ sent' = sent \cup {cur.agent}
  /\ at' = "pick" /\ cur' = NoRow
  /\ UNCHANGED <<durable, phase, toRestore, known, cap, memLog, maxQueueSize,
                 req, holder, todo, readers, history>>

\* put_nowait raises queue.Full: the handler deletes the row it just committed.
QueueFull ==
  /\ at = "put" /\ Full(cur.agent)
  /\ pending' = WithoutRow(cur)
  /\ at' = "pick" /\ cur' = NoRow
  /\ UNCHANGED <<nextSeq, dbAgents, dlog, memory, req, holder, todo, sent, readers,
                 history>>

\* The reply: accepted iff at least one target took the message.
Reply ==
  /\ at = "pick" /\ todo = {}
  /\ req' = [req EXCEPT ![holder] = IF sent # {} THEN "accepted" ELSE "rejected"]
  /\ promised' = promised \cup {<<holder, a>> : a \in sent}
  /\ ReleaseLock
  /\ UNCHANGED <<durable, memory, readers, received, lastTaken, dropped, restarts,
                 aborts, faults>>

\* record_message raises: the call fails before anything is routed.
RecordRaises(m) ==
  /\ req[m] = "checked" /\ holder = NoMsg /\ faults < MaxFaults
  /\ req' = [req EXCEPT ![m] = "failed"]
  /\ faults' = faults + 1
  /\ UNCHANGED <<durable, memory, holder, at, todo, sent, cur, readers, promised,
                 received, lastTaken, dropped, restarts, aborts>>

\* A store call of the loop raises (the database is busy for longer than its
\* timeout): only queue.Full is caught, the exception leaves the handler, the
\* lock is released and the call fails with what was routed so far routed.
StoreRaises ==
  /\ faults < MaxFaults
  /\ \/ at = "pick" /\ todo # {}
     \/ at = "put" /\ Full(cur.agent)
  /\ req' = [req EXCEPT ![holder] = "failed"]
  /\ ReleaseLock
  /\ dropped' = dropped \cup ({cur} \ {NoRow})
  /\ faults' = faults + 1
  /\ UNCHANGED <<durable, memory, readers, promised, received, lastTaken, restarts,
                 aborts>>
-------------------------------------------------------------------------------
(* StreamIncoming *)

\* A worker runs the handler up to track_request.
StartStream(s) ==
  /\ phase = "serving" /\ spc[s] = "idle" /\ FreeWorker
  /\ spc' = [spc EXCEPT ![s] = "opening"]
  /\ UNCHANGED <<durable, memory, sender, item, history>>

\* Under the lock: _ensure_agent_queue, which stores the agent and creates its
\* queue with the current max_queue_size, once per process.
OpenStream(s) ==
  LET a == StreamAgent[s] IN
  /\ spc[s] = "opening" /\ holder = NoMsg
  /\ spc' = [spc EXCEPT ![s] = "polling"]
  /\ IF a \in known
       THEN UNCHANGED <<known, dbAgents, cap>>
       ELSE /\ known' = known \cup {a}
            /\ dbAgents' = dbAgents \cup {a}
            /\ cap' = [cap EXCEPT ![a] = maxQueueSize]
  /\ UNCHANGED <<pending, nextSeq, dlog, phase, toRestore, queue, memLog,
                 maxQueueSize, sender, item, history>>

\* queue.get(timeout=1.0) returns a row, which is yielded to gRPC.
Take(s) ==
  LET a == StreamAgent[s] IN
  /\ spc[s] = "polling" /\ queue[a] # <<>>
  /\ item' = [item EXCEPT ![s] = Head(queue[a])]
  /\ queue' = [queue EXCEPT ![a] = Tail(@)]
  /\ lastTaken' = [lastTaken EXCEPT ![a] = Head(queue[a]).seq]
  /\ spc' = [spc EXCEPT ![s] = "yielded"]
  /\ UNCHANGED <<durable, phase, toRestore, known, cap, memLog, maxQueueSize,
                 sender, promised, received, dropped, restarts, aborts, faults>>

\* gRPC has taken the item and asks for the next one: the generator resumes.
\* With LossyTransport the connection may still fail to carry the item.
Transmit(s) ==
  /\ spc[s] = "yielded"
  /\ spc' = [spc EXCEPT ![s] = "resumed"]
  /\ received' \in {received \cup {<<item[s].msg, item[s].agent>>}}
                     \cup (IF LossyTransport THEN {received} ELSE {})
  /\ UNCHANGED <<durable, memory, sender, item, promised, lastTaken, dropped, restarts,
                 aborts, faults>>

\* dequeue_message(seq).
DequeueRow(s) ==
  /\ spc[s] = "resumed"
  /\ pending' = WithoutRow(item[s])
  /\ spc' = [spc EXCEPT ![s] = "polling"]
  /\ item' = [item EXCEPT ![s] = NoRow]
  /\ UNCHANGED <<nextSeq, dbAgents, dlog, memory, sender, history>>

\* dequeue_message raises: the handler logs the error and ends the stream; so
\* does ensure_agent, outside the try.
StreamRaises(s) ==
  /\ faults < MaxFaults
  /\ \/ spc[s] = "resumed"
     \/ spc[s] = "opening" /\ holder = NoMsg /\ StreamAgent[s] \notin known
  /\ spc' = [spc EXCEPT ![s] = "idle"]
  /\ item' = [item EXCEPT ![s] = NoRow]
  /\ dropped' = dropped \cup ({item[s]} \ {NoRow})
  /\ faults' = faults + 1
  /\ UNCHANGED <<durable, memory, sender, promised, received, lastTaken, restarts,
                 aborts>>

\* (Mutant: the abandoned item is dequeued as if it had been sent.)
AbortDequeues(s) ==
  /\ spc[s] = "yielded" /\ aborts < MaxAborts
  /\ spc' = [spc EXCEPT ![s] = "idle"]
  /\ item' = [item EXCEPT ![s] = NoRow]
  /\ pending' = WithoutRow(item[s])
  /\ aborts' = aborts + 1
  /\ UNCHANGED <<nextSeq, dbAgents, dlog, memory, sender, promised, received,
                 lastTaken, dropped, restarts, faults>>

\* The client vanishes while the item is yielded: gRPC drops the generator,
\* GeneratorExit is not an Exception, so no handler clause puts the row back.
AbortYield(s) ==
  /\ spc[s] = "yielded" /\ aborts < MaxAborts
  /\ spc' = [spc EXCEPT ![s] = "idle"]
  /\ item' = [item EXCEPT ![s] = NoRow]
  /\ dropped' = dropped \cup {item[s]}
  /\ aborts' = aborts + 1
  /\ UNCHANGED <<durable, memory, sender, promised, received, lastTaken, restarts,
                 faults>>

\* The loop ends: the client has gone (context.is_active), or the router drains
\* and the queue is empty.
ClientLeaves(s) ==
  /\ spc[s] = "polling"
  /\ spc' = [spc EXCEPT ![s] = "idle"]
  /\ UNCHANGED <<durable, memory, sender, item, history>>

DrainedStream(s) ==
  /\ spc[s] = "polling" /\ phase = "draining" /\ queue[StreamAgent[s]] = <<>>
  /\ spc' = [spc EXCEPT ![s] = "idle"]
  /\ UNCHANGED <<durable, memory, sender, item, history>>
-------------------------------------------------------------------------------
(* Shutdown, crash and restart *)

\* request_shutdown
Drain ==
  /\ phase = "serving" /\ restarts < MaxRestarts
  /\ phase' = "draining"
  /\ UNCHANGED <<durable, toRestore, known, queue, cap, memLog, maxQueueSize, sender,
                 readers, history>>

\* The process ends, by a crash or after the drain; memory and calls are lost.
Exit ==
  /\ phase # "down" /\ restarts < MaxRestarts
  /\ phase' = "down" /\ restarts' = restarts + 1
  /\ toRestore' = {} /\ known' = {}
  /\ queue' = [a \in Agents |-> <<>>] /\ cap' = [a \in Agents |-> 0]
  /\ memLog' = <<>>
  /\ req' = [m \in Msgs |-> IF req[m] \in {"queued", "checked", "locked"}
                              THEN "lost" ELSE req[m]]
  /\ ReleaseLock
  /\ spc' = [s \in Streams |-> "idle"] /\ item' = [s \in Streams |-> NoRow]
  /\ lastTaken' = [a \in Agents |-> 0] /\ dropped' = {}
  /\ UNCHANGED <<durable, maxQueueSize, promised, received, aborts, faults>>

\* __init__ reads the configuration and _restore_state the stored agents.
Start ==
  /\ phase = "down"
  /\ phase' = "restoring"
  /\ maxQueueSize' \in QueueSizes
  /\ known' = dbAgents
  /\ cap' = [a \in Agents |-> IF a \in dbAgents THEN maxQueueSize' ELSE 0]
  /\ toRestore' = StoredRows
  /\ UNCHANGED <<durable, queue, memLog, sender, readers, history>>

\* One turn of the restore loop: the row is queued, or, the queue being full,
\* deleted from the store as a "stale message".
RestoreRow(r) ==
  /\ phase = "restoring" /\ IsOldest(r, toRestore)
  /\ toRestore' = toRestore \ {r}
  /\ IF ~Full(r.agent)
       THEN /\ queue' = [queue EXCEPT ![r.agent] = Append(@, r)]
            /\ UNCHANGED pending
       ELSE /\ pending' = WithoutRow(r)
            /\ UNCHANGED queue
  /\ UNCHANGED <<nextSeq, dbAgents, dlog, phase, known, cap, memLog, maxQueueSize,
                 sender, readers, history>>

\* load_message_log returns the newest row first; the list is filled in that
\* order and the service starts.
RestoreLog ==
  /\ phase = "restoring" /\ toRestore = {}
  /\ memLog' = Reverse(dlog)
  /\ phase' = "serving"
  /\ UNCHANGED <<durable, toRestore, known, queue, cap, maxQueueSize,
                 sender, readers, history>>
-------------------------------------------------------------------------------
Send(m) == StartSend(m) \/ LogMessage(m)

Route == (\E a \in Agents : EnqueueRow(a)) \/ PutNowait \/ QueueFull \/ Reply

Serve(s) == OpenStream(s) \/ Take(s) \/ Transmit(s) \/ DequeueRow(s)

Restore == Start \/ (\E r \in toRestore : RestoreRow(r)) \/ RestoreLog

Next ==
  \/ \E m \in Msgs : Call(m) \/ Send(m) \/ RecordRaises(m)
  \/ Route \/ StoreRaises
  \/ \E s \in Streams : StartStream(s) \/ Serve(s) \/ StreamRaises(s)
                          \/ AbortYield(s) \/ ClientLeaves(s) \/ DrainedStream(s)
  \/ Drain \/ Exit \/ Restore

Spec == Init /\ [][Next]_vars

(***************************************************************************)
(* Fairness. Worker threads, the routing loop and the restore loop run on  *)
(* their own; a drained process exits and is started again. Agents keep    *)
(* reconnecting (StartStream) and a stream whose queue is not empty takes  *)
(* an item again and again unless its client keeps leaving, hence SF.      *)
(***************************************************************************)
Fairness ==
  /\ \A m \in Msgs : WF_vars(StartSend(m)) /\ SF_vars(LogMessage(m))
  /\ WF_vars(Route)
  /\ \A s \in Streams : /\ SF_vars(StartStream(s)) /\ SF_vars(OpenStream(s))
                        /\ SF_vars(Take(s)) /\ WF_vars(Transmit(s))
                        /\ WF_vars(DequeueRow(s)) /\ WF_vars(DrainedStream(s))
  /\ WF_vars(Exit /\ phase = "draining") /\ WF_vars(Restore)

FairSpec == Spec /\ Fairness
-------------------------------------------------------------------------------
(* Properties *)

Seqs(q) == {q[i].seq : i \in DOMAIN q}
Held(s) == spc[s] \in {"yielded", "resumed"}
Copy(r) == <<r.msg, r.agent>>

DurableType ==
  /\ pending \subseteq Row /\ nextSeq \in Nat \ {0}
  /\ dbAgents \subseteq Agents /\ dlog \in Seq(Msgs)

MemoryType ==
  /\ phase \in {"down", "restoring", "serving", "draining"} /\ toRestore \subseteq Row
  /\ known \subseteq Agents
  /\ queue \in [Agents -> Seq(Row)] /\ cap \in [Agents -> Nat]
  /\ memLog \in Seq(Msgs)
  /\ maxQueueSize \in QueueSizes

SenderType ==
  /\ req \in [Msgs -> ReqStates]
  /\ at \in {"none", "pick", "put"}
  /\ holder \in (IF at = "none" THEN {NoMsg} ELSE Msgs)
  /\ todo \subseteq Agents /\ sent \subseteq Agents
  /\ cur \in (IF at = "put" THEN Row ELSE {NoRow})

StreamType ==
  /\ spc \in [Streams -> StreamStates]
  /\ item \in [Streams -> Row \cup {NoRow}]
  /\ \A s \in Streams : Held(s) <=> item[s] # NoRow

HistoryType ==
  /\ promised \subseteq Msgs \X Agents /\ received \subseteq Msgs \X Agents
  /\ lastTaken \in [Agents -> Nat] /\ dropped \subseteq Row
  /\ restarts \in Nat /\ aborts \in Nat /\ faults \in Nat

\* Every variable has its type; the lock has a holder exactly while a handler is in
\* the routing loop, and a row is in a handler's hands exactly where its code has
\* one, so no exception path or exit of the two handlers leaves either behind.
TypeOK == DurableType /\ MemoryType /\ SenderType /\ StreamType /\ HistoryType

\* Whatever the router still holds in memory for an agent - queued, or popped by
\* a stream and not yet dequeued in the store - is backed by a durable row of
\* that agent, so a crash at any point loses none of it.
MemoryIsDurable ==
  /\ \A a \in Agents : \A i \in DOMAIN queue[a] :
       queue[a][i] \in pending /\ queue[a][i].agent = a
  /\ \A s \in Streams : Held(s) => item[s] \in pending

\* Streams of one agent pop without the lock, yet no row is in two hands: a queue
\* is strictly ordered, all of it is younger than what was ever popped since the
\* start, and two streams never hold the same row.
OneHandFIFO ==
  /\ \A a \in Agents :
       /\ \A i, j \in DOMAIN queue[a] : i < j => queue[a][i].seq < queue[a][j].seq
       /\ \A i \in DOMAIN queue[a] : lastTaken[a] < queue[a][i].seq
  /\ \A s, t \in Streams : Held(s) /\ Held(t) /\ s # t => item[s] # item[t]

\* A stored row is on its way while the router serves: queued, held by a stream, or in
\* the hands of the sender. The only others, until the next start queues them again, are
\* those whose own handler ended in mid-way: a client that vanished in mid-item, or a
\* store call that raised; one such end strands no other row. (That no row is stranded at
\* all is NoRowWaits.)
NoStrandedRow ==
  Serving =>
    \A r \in pending : \/ r.seq \in Seqs(queue[r.agent])
                       \/ \E s \in Streams : Held(s) /\ item[s] = r
                       \/ at = "put" /\ cur = r
                       \/ r \in dropped
NoRowWaits == pending \cap dropped = {}

\* A message a sender was told is delivered to an agent has reached a stream of
\* that agent or is still stored for it.
NoPromisedLoss ==
  \A c \in promised : c \in received \/ \E r \in pending : Copy(r) = c

\* A reply accepted=False leaves nothing behind: no copy is stored, now or after a
\* restart, and no agent ever receives one.
RejectedLeavesNothing ==
  \A m \in Msgs : req[m] = "rejected" =>
    /\ \A r \in pending : r.msg # m
    /\ \A a \in Agents : <<m, a>> \notin received

\* get_recent_messages returns the tail of message_log: its last entry is the
\* message logged last.
RecentIsNewest ==
  Serving /\ dlog # <<>> => memLog # <<>> /\ Last(memLog) = Last(dlog)

\* The router implements the mailbox: a promised copy leaves the store only after
\* its agent has received it, and only stored copies are handed over.
Mailbox == INSTANCE DurableMailbox WITH
             Messages <- Msgs, Recipients <- Agents,
             stored <- {Copy(r) : r \in pending}
MailboxSpec == Mailbox!Spec

\* A SendMessage call is answered, or the process it called dies.
CallIsAnswered ==
  \A m \in Msgs : req[m] = "queued" ~>
                     req[m] \in {"accepted", "rejected", "failed", "lost"}

\* A promised copy reaches its agent, if the agent keeps reconnecting.
PromiseIsKept ==
  \A m \in Msgs, a \in Agents :
    <<m, a>> \in promised ~> <<m, a>> \in received
===============================================================================
