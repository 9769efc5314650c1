----------------------------- MODULE AckLifecycle -----------------------------
(***************************************************************************)
(* An agent that sends and processes messages through ACKLifecycleManager  *)
(* and MessageProcessor (sw4rm/ack_integration.py) over one                *)
(* PersistentActivityBuffer. Its threads synchronise their calls of the    *)
(* buffer, as the buffer asks, but not the manager's methods, which call   *)
(* the router in the middle: a thread records an envelope, waits for       *)
(* SendMessage and then stamps the record. auto_ack is on, the default.    *)
(* The router, the peers and the handlers are external; the process may    *)
(* die at any step and open its buffer again.                              *)
(***************************************************************************)
EXTENDS ActivityBuffer, SequencesExt

CONSTANTS
  Threads,       \* the agent's threads
  Incoming,      \* messages other agents send to this one
  IncomingAcks,  \* ACKNOWLEDGEMENT envelopes other agents send to this one
  Outgoing,      \* messages the application sends
  OwnAcks,       \* envelopes for the acks this agent sends, each used once
  AckStages,     \* the stages peers report
  Resends,       \* whether the application may send one envelope again
  MaxCrashes, MaxFaults   \* bounds: crashes, failed saves

ASSUME LifecycleAssumption ==
  /\ Messages = Incoming \cup IncomingAcks \cup Outgoing \cup OwnAcks
  /\ Sent = Outgoing \cup OwnAcks
  /\ Backend # "custom" => OwnAcks \subseteq Unsavable  \* build_envelope sets audit_proof to bytes
  /\ IsFiniteSet(Threads) /\ AckStages \subseteq Stages /\ Resends \in BOOLEAN
  /\ MaxCrashes \in Nat /\ MaxFaults \in Nat

VARIABLES
  job,          \* what each thread is doing
  usedAcks,     \* the members of OwnAcks already used
  transmitted,  \* history: outgoing messages handed to the router
  returned,     \* history: those whose send_message_with_ack returned success
  swallowed,    \* history: those whose last call could not save the buffer
  handled,      \* history: how often the handler completed each incoming message
  sentAcks,     \* history: the acks the router took in the current or last call
  discarded,    \* history: a start has found the saved log full and discarded it
  crashes, faults

vars == <<bufferVars, job, usedAcks, transmitted, returned, swallowed, handled, sentAcks,
          discarded, crashes, faults>>
history == <<transmitted, returned, swallowed, handled, sentAcks, discarded>>

\* A job: what process_message works on ("none": a plain send_message_with_ack),
\* the ack it sends, the envelope in flight.
NoJob == [at |-> "idle", msg |-> NoMessage, ack |-> "none", env |-> NoMessage]
Verdicts == {"fulfilled", "rejected", "failed"}

LifecycleInit ==
  /\ mem = EmptyBuffer /\ disk = EmptyDisk /\ now = 0
  /\ job = [t \in Threads |-> NoJob] /\ usedAcks = {} /\ transmitted = {} /\ returned = {}
  /\ swallowed = {} /\ handled = [m \in Incoming |-> 0] /\ sentAcks = [m \in Incoming |-> <<>>]
  /\ discarded = FALSE /\ crashes = 0 /\ faults = 0

FreshAck == CHOOSE a \in OwnAcks : a \notin usedAcks
\* Bound: a message is taken up only when its acks are sure to have envelopes.
Processing == {t \in Threads : job[t].msg # NoMessage}
AcksLeft == Cardinality(OwnAcks \ usedAcks) >= 3 * (1 + Cardinality(Processing))

\* The save in b, which the backend may fail.
Persist(b) ==
  \/ mem' = Flushed(b) /\ disk' = DiskAfter(b) /\ UNCHANGED <<now, faults>>
  \/ /\ faults < MaxFaults /\ Saves(b)
     /\ mem' = b /\ faults' = faults + 1 /\ UNCHANGED <<disk, now>>
-------------------------------------------------------------------------------
(* Entries of a call *)

\* The application calls send_message_with_ack. One envelope is not sent by two
\* threads at once.
StartSend(t, m) ==
  /\ job[t].at = "idle"
  /\ \A u \in Threads : job[u].env # m
  /\ m \in transmitted => Resends /\ Len(mem.order) < MaxOrder
  /\ job' = [job EXCEPT ![t] = [NoJob EXCEPT !.at = "record", !.env = m]]
  /\ UNCHANGED <<bufferVars, usedAcks, history, crashes, faults>>

\* The next ack of process_message: send_ack builds its envelope.
SendAck(t, s) ==
  /\ job' = [job EXCEPT ![t].at = "record", ![t].ack = s, ![t].env = FreshAck]
  /\ usedAcks' = usedAcks \cup {FreshAck}

\* process_message up to its first ack: auto_ack_received records the message;
\* a full buffer raises, and the answer is FAILED. The router may deliver one
\* message again, after the call for the first delivery.
StartProcess(t, m) ==
  /\ job[t].at = "idle" /\ AcksLeft
  /\ \A u \in Threads : job[u].msg # m
  /\ m \in Known(mem) => Len(mem.order) < MaxOrder
  /\ \/ ~IsFull(mem) /\ mem' = Recorded(mem, m)
     \/ IsFull(mem) /\ UNCHANGED mem
  /\ LET first == IF IsFull(mem) THEN "failed" ELSE "received"
     IN job' = [job EXCEPT ![t] = [at |-> "record", msg |-> m, ack |-> first,
                                   env |-> FreshAck]]
  /\ usedAcks' = usedAcks \cup {FreshAck}
  /\ sentAcks' = IF m \in Incoming THEN [sentAcks EXCEPT ![m] = <<>>] ELSE sentAcks
  /\ UNCHANGED <<disk, now, transmitted, returned, swallowed, handled, discarded, crashes,
                 faults>>

\* process_incoming_ack, called for an ack of something this agent transmitted.
IncomingAck(t, m, s) ==
  /\ job[t].at = "idle"
  /\ m \in transmitted
  /\ IF m \in Known(mem) THEN Persist(Acked(mem, m, s))
     ELSE UNCHANGED <<mem, disk, now, faults>>
  /\ UNCHANGED <<job, usedAcks, history, crashes>>
-------------------------------------------------------------------------------
(* send_message_with_ack *)

\* What the caller does when the send returns; the result of an ack is ignored.
Continue(t) ==
  CASE job[t].ack = "received" /\ job[t].msg \in IncomingAcks ->
         /\ job' = [job EXCEPT ![t].at = "deliver"] /\ UNCHANGED usedAcks
    [] job[t].ack = "received" /\ job[t].msg \notin IncomingAcks -> SendAck(t, "read")
    [] job[t].ack = "read" ->
         /\ job' = [job EXCEPT ![t].at = "handle"] /\ UNCHANGED usedAcks
    [] OTHER -> job' = [job EXCEPT ![t] = NoJob] /\ UNCHANGED usedAcks

\* record_outgoing. The record is not saved before the router is called.
RecordOutgoing(t) ==
  /\ job[t].at = "record" /\ ~IsFull(mem)
  /\ mem' = Recorded(mem, job[t].env)
  /\ job' = [job EXCEPT ![t].at = "rpc"]
  /\ transmitted' = transmitted \cup ({job[t].env} \cap Outgoing)
  /\ UNCHANGED <<disk, now, usedAcks, returned, swallowed, handled, sentAcks, discarded,
                 crashes, faults>>

\* BufferFullError, caught: a record the envelope already has is stamped FAILED.
RecordRefused(t) ==
  /\ job[t].at = "record" /\ IsFull(mem)
  /\ IF job[t].env \in Known(mem) THEN Persist(Stamped(mem, job[t].env, "failed"))
     ELSE UNCHANGED <<mem, disk, now, faults>>
  /\ Continue(t)
  /\ UNCHANGED <<history, crashes>>

\* The router answers, or the call raises: the record is stamped and saved.
\* (Mutant: the save is left to the caller.)
RouterAnswersUnsaved(t, s) ==
  /\ job[t].at = "rpc"
  /\ mem' = Stamped(mem, job[t].env, s) /\ UNCHANGED <<disk, now, faults>>
  /\ Continue(t)
  /\ returned' = IF s = "failed" THEN returned
                 ELSE returned \cup ({job[t].env} \cap Outgoing)
  /\ UNCHANGED swallowed
  /\ sentAcks' = IF s = "fulfilled" /\ job[t].msg \in Incoming
                 THEN [sentAcks EXCEPT ![job[t].msg] = Append(@, job[t].ack)] ELSE sentAcks
  /\ UNCHANGED <<transmitted, handled, discarded, crashes>>
RouterAnswers(t, s) ==
  /\ job[t].at = "rpc"
  /\ Persist(Stamped(mem, job[t].env, s))
  /\ Continue(t)
  /\ returned' = IF s = "failed" THEN returned
                 ELSE returned \cup ({job[t].env} \cap Outgoing)
  /\ swallowed' = IF mem'.dirty = "no" THEN swallowed \ {job[t].env}
                  ELSE swallowed \cup ({job[t].env} \cap Outgoing)
  /\ sentAcks' = IF s = "fulfilled" /\ job[t].msg \in Incoming
                 THEN [sentAcks EXCEPT ![job[t].msg] = Append(@, job[t].ack)] ELSE sentAcks
  /\ UNCHANGED <<transmitted, handled, discarded, crashes>>
-------------------------------------------------------------------------------
(* process_message, after the first acks *)

\* An ACKNOWLEDGEMENT goes to process_incoming_ack and gets no further ack.
DeliverAck(t, m, s) ==
  /\ job[t].at = "deliver" /\ m \in transmitted
  /\ IF m \in Known(mem) THEN Persist(Acked(mem, m, s))
     ELSE UNCHANGED <<mem, disk, now, faults>>
  /\ job' = [job EXCEPT ![t] = NoJob]
  /\ UNCHANGED <<usedAcks, history, crashes>>

\* The ack that tells the peer how the handler ended. (Mutant: READ once more.)
ReadAgain(v) == "read"
VerdictAck(v) == v

\* The handler returns, is missing, or raises.
Handle(t, v) ==
  /\ job[t].at = "handle"
  /\ handled' = IF v = "fulfilled" THEN [handled EXCEPT ![job[t].msg] = @ + 1] ELSE handled
  /\ SendAck(t, VerdictAck(v))
  /\ UNCHANGED <<bufferVars, transmitted, returned, swallowed, sentAcks, discarded, crashes,
                 faults>>

\* The process dies and is started again on the same backend.
Crash ==
  /\ crashes < MaxCrashes
  /\ crashes' = crashes + 1
  /\ mem' = Loaded(disk)
  /\ job' = [t \in Threads |-> NoJob]
  /\ discarded' = (discarded \/ IsFull(disk))
  /\ UNCHANGED <<disk, now, usedAcks, transmitted, returned, swallowed, handled, sentAcks,
                 faults>>

\* The router accepts, refuses, or the call raises.
Outcomes == {"fulfilled", "rejected", "failed"}

Step(t) ==
  \/ RecordOutgoing(t) \/ RecordRefused(t)
  \/ \E s \in Outcomes : RouterAnswers(t, s)
  \/ \E m \in Outgoing, s \in AckStages : DeliverAck(t, m, s)
  \/ \E v \in Verdicts : Handle(t, v)

LifecycleNext ==
  \/ \E t \in Threads :
       \/ \E m \in Outgoing : StartSend(t, m)
       \/ \E m \in Incoming \cup IncomingAcks : StartProcess(t, m)
       \/ \E m \in Outgoing, s \in AckStages : IncomingAck(t, m, s)
       \/ Step(t)
  \/ Crash
  \/ Tick /\ UNCHANGED <<job, usedAcks, history, crashes, faults>>

LifecycleSpec == LifecycleInit /\ [][LifecycleNext]_vars
\* A thread inside a call goes on. Nothing makes the application, the peers or the
\* clock act again.
LifecycleFairSpec == LifecycleSpec /\ \A t \in Threads : WF_vars(Step(t))
-------------------------------------------------------------------------------
(* Properties *)

Jobs == [at: {"idle", "record", "rpc", "deliver", "handle"},
         msg: Incoming \cup IncomingAcks \cup {NoMessage},
         ack: {"none", "received", "read"} \cup Verdicts,
         env: Outgoing \cup OwnAcks \cup {NoMessage}]

\* The calls in progress, the buffer and what was sent.
LifecycleTypeOK ==
  /\ BufferTypeOK /\ job \in [Threads -> Jobs] /\ usedAcks \subseteq OwnAcks
  /\ returned \subseteq transmitted /\ transmitted \subseteq Outgoing
  /\ swallowed \subseteq Outgoing
  /\ handled \in [Incoming -> Nat] /\ sentAcks \in [Incoming -> Seq(Stages)]
  /\ discarded \in BOOLEAN /\ crashes \in 0..MaxCrashes /\ faults \in 0..MaxFaults

\* Once send_message_with_ack has returned success, the message is in the saved
\* log, and so in the buffer after any restart, unless a restart found the log full.
ReturnedIsDurable == returned \subseteq Known(disk) \/ discarded

\* The one other way to miss the saved log is a save that failed in the call itself:
\* _auto_save_if_enabled swallows the error and the call still returns success. No
\* other thread's save, no crash and no failed save of another call takes a message
\* out of the log.
OnlyASwallowedSaveLoses == returned \subseteq Known(disk) \cup swallowed \/ discarded

\* While one thread waits for the router another one may save: a buffer that has
\* nothing to save still has all its messages in the saved log, in its order. (Their
\* stamps may be missing: CleanMeansSaved fails with two threads.)
CleanMeansRecorded ==
  mem.dirty = "no" => \/ Known(disk) = Known(mem) /\ disk.order = mem.order
                      \/ discarded

Rank(s) == CASE s = "received" -> 1 [] s = "read" -> 2 [] OTHER -> 3

\* The acks a peer gets for one delivery of its message go forward, RECEIVED, READ
\* and one verdict, whatever sends fail and wherever the buffer fills up
\* (process_message and its exception handler).
AcksGoForward ==
  \A m \in Incoming : \A i, j \in DOMAIN sentAcks[m] :
    i < j => Rank(sentAcks[m][i]) < Rank(sentAcks[m][j])

\* A message in a terminal stage keeps it: a late ack changes no state
\* (documentation/protocol/acks.md).
StageIsFinal ==
  [][\A m \in Outgoing \cap Known(mem) \cap Known(mem') :
       mem.byId[m].stage \notin Unacked => mem'.byId[m].stage = mem.byId[m].stage]_vars

\* One operation is executed once, however often its message arrives and under how
\* many message_ids (documentation/protocol/acks.md, exactly-once processing).
HandledOnce ==
  \A m, n \in Incoming :
    /\ handled[m] <= 1
    /\ m # n /\ TokenOf[m] = TokenOf[n] /\ TokenOf[m] # NoToken
       => handled[m] + handled[n] <= 1

\* A message handed to the router is in the log, crashes included: the state is
\* saved before the side effect (documentation/protocol/acks.md).
SentIsRecorded == transmitted \subseteq Known(mem)

\* get_pending_acks: the incoming messages that still need acks.
PendingAcks == {m \in Known(mem) : /\ mem.byId[m].direction = "in"
                                   /\ mem.byId[m].stage \in {"unspecified", "received"}}
\* A message whose verdict the router has taken needs no ack (the docstring of
\* get_pending_acks).
PendingMeansUnanswered ==
  \A m \in Incoming : (sentAcks[m] # <<>> /\ Last(sentAcks[m]) \in Verdicts)
                        => m \notin PendingAcks

\* A full buffer makes room: BUFFER_FULL is answered by waiting and retrying
\* (documentation/protocol/acks.md).
FullIsTransient == IsFull(mem) ~> ~IsFull(mem)
===============================================================================
