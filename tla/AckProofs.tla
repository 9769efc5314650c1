------------------------------- MODULE AckProofs -------------------------------
(***************************************************************************)
(* The agent that sends and processes messages over the activity buffer    *)
(* with several threads.                                                   *)
(***************************************************************************)
EXTENDS AckLifecycle, BufferProofs

(* The agent: what its calls make of the buffer *)

\* The buffer and its file while several threads work on them.
StoreInv ==
  /\ BufferTypeOK /\ OrderHolds(mem) /\ OrderHolds(disk) /\ CleanMeansRecorded
  /\ discarded \/ Known(disk) \subseteq Known(mem)

\* A message is recorded; the file is not touched.
LEMMA RecordStore ==
  ASSUME StoreInv, NEW m \in Messages, mem' = Recorded(mem, m), UNCHANGED <<disk, now, discarded>>
  PROVE  StoreInv' /\ Known(mem') = Known(mem) \cup {m}
<1>1. PICK b : b = Recorded(mem, m)
  OBVIOUS
<1>2. /\ b \in Buffers /\ Known(b) = Known(mem) \cup {m} /\ b.dirty = "yes" /\ OrderHolds(b)
  BY <1>1, RecordedFacts DEF StoreInv, BufferTypeOK
<1> QED BY <1>1, <1>2
        DEF StoreInv, BufferTypeOK, OrderHolds, Known, CleanMeansRecorded

\* A save of a buffer with new stamps, whether the backend takes it or not.
LEMMA PersistStore ==
  ASSUME StoreInv, NEW b \in Buffers, Known(b) = Known(mem), b.order = mem.order, OrderHolds(b),
         b.dirty = "yes" \/ b.dirty = mem.dirty, Persist(b), UNCHANGED discarded,
         faults \in 0..MaxFaults
  PROVE  /\ StoreInv' /\ Known(mem') = Known(mem) /\ faults' \in 0..MaxFaults
         /\ Known(disk') = Known(mem) \/ Known(disk') = Known(disk)
<1>0. mem \in Buffers /\ disk \in Disks /\ now \in 0..MaxTime /\ MaxFaults \in Nat
  BY LifecycleAssumption DEF StoreInv, BufferTypeOK
<1>1. CASE mem' = Flushed(b) /\ disk' = DiskAfter(b) /\ UNCHANGED <<now, faults>>
  <2>1. PICK c : c = Flushed(b)
    OBVIOUS
  <2>2. PICK d : d = DiskAfter(b)
    OBVIOUS
  <2>3. CASE Saves(b)
    <3>1. /\ c \in Buffers /\ d \in Disks /\ Known(c) = Known(b) /\ Known(d) = Known(b)
          /\ OrderHolds(c) /\ OrderHolds(d) /\ c.order = b.order /\ d.order = b.order
      BY <1>0, <2>1, <2>2, <2>3, FlushedFacts
    <3>2. StoreInv'
      BY <1>0, <1>1, <2>1, <2>2, <3>1
         DEF StoreInv, BufferTypeOK, OrderHolds, Known, CleanMeansRecorded
    <3>3. Known(mem') = Known(mem) /\ Known(disk') = Known(mem)
      BY <1>1, <2>1, <2>2, <3>1 DEF Known
    <3> QED BY <1>0, <1>1, <3>2, <3>3
  <2>4. CASE ~Saves(b)
    <3>1. mem' = b /\ UNCHANGED disk
      BY <1>0, <1>1, <2>4, FlushedFacts
    <3>2. StoreInv'
      BY <1>0, <1>1, <3>1 DEF StoreInv, BufferTypeOK, OrderHolds, Known, CleanMeansRecorded
    <3> QED BY <1>0, <1>1, <3>1, <3>2 DEF Known
  <2> QED BY <2>3, <2>4
<1>2. CASE /\ faults < MaxFaults /\ Saves(b)
           /\ mem' = b /\ faults' = faults + 1 /\ UNCHANGED <<disk, now>>
  <2>1. StoreInv'
    BY <1>0, <1>2 DEF Saves, StoreInv, BufferTypeOK, OrderHolds, Known, CleanMeansRecorded
  <2> QED BY <1>0, <1>2, <2>1 DEF Known
<1> QED BY <1>1, <1>2 DEF Persist

\* process_incoming_ack: a stage is recorded for a message the buffer knows.
LEMMA AckStore ==
  ASSUME StoreInv, faults \in 0..MaxFaults, UNCHANGED discarded,
         NEW m \in Messages, NEW s \in Stages,
         IF m \in Known(mem) THEN Persist(Acked(mem, m, s))
         ELSE UNCHANGED <<mem, disk, now, faults>>
  PROVE  /\ StoreInv' /\ Known(mem') = Known(mem) /\ faults' \in 0..MaxFaults
         /\ Known(disk') = Known(mem) \/ Known(disk') = Known(disk)
<1>1. CASE m \notin Known(mem)
  BY <1>1 DEF StoreInv, BufferTypeOK, OrderHolds, Known, CleanMeansRecorded
<1>2. CASE m \in Known(mem)
  <2>1. PICK b : b = Acked(mem, m, s)
    OBVIOUS
  <2>2. /\ b \in Buffers /\ Known(b) = Known(mem) /\ b.order = mem.order /\ OrderHolds(b)
        /\ b.dirty = "yes"
    BY <1>2, <2>1, AckedFacts DEF StoreInv, BufferTypeOK
  <2> QED BY <1>2, <2>1, <2>2, PersistStore
<1> QED BY <1>1, <1>2

\* send_message_with_ack: the record is stamped and the buffer saved.
LEMMA StampStore ==
  ASSUME StoreInv, faults \in 0..MaxFaults, UNCHANGED discarded,
         NEW m \in Messages, NEW s \in Stages, Persist(Stamped(mem, m, s))
  PROVE  /\ StoreInv' /\ Known(mem') = Known(mem) /\ faults' \in 0..MaxFaults
         /\ Known(disk') = Known(mem) \/ Known(disk') = Known(disk)
<1>1. PICK b : b = Stamped(mem, m, s)
  OBVIOUS
<1>2. /\ b \in Buffers /\ Known(b) = Known(mem) /\ b.order = mem.order /\ OrderHolds(b)
      /\ b.dirty = mem.dirty
  BY <1>1, StampedFacts DEF StoreInv, BufferTypeOK
<1> QED BY <1>1, <1>2, PersistStore

\* The process dies and opens its buffer again.
LEMMA CrashStore ==
  ASSUME StoreInv, mem' = Loaded(disk), discarded' = (discarded \/ IsFull(disk)),
         UNCHANGED <<disk, now>>
  PROVE  StoreInv'
<1>1. PICK b : b = Loaded(disk)
  OBVIOUS
<1>2. b \in Buffers /\ OrderHolds(b)
  BY <1>1, LoadedFacts DEF StoreInv, BufferTypeOK
<1>3. IsFull(disk) \/ (Known(b) = Known(disk) /\ b.order = disk.order)
  BY <1>1, LoadedFacts DEF StoreInv, BufferTypeOK
<1> QED BY <1>1, <1>2, <1>3
        DEF StoreInv, BufferTypeOK, OrderHolds, Known, CleanMeansRecorded
-------------------------------------------------------------------------------
(* The agent: the calls in progress *)

\* What a call knows of itself. An acknowledgement is sent for a message, the handler
\* runs after READ, and a send has an envelope.
JobOK(j) ==
  /\ j \in Jobs
  /\ j.at \in {"record", "rpc"} => j.env \in Outgoing \cup OwnAcks
  /\ j.at = "handle" => j.ack = "read"
  /\ j.ack = "none" <=> j.msg = NoMessage
  /\ j.ack = "read" => j.msg \in Incoming

JobsInv == \A t \in Threads : JobOK(job[t])

\* Two threads never process one message at a time.
OneEach == \A t \in Threads : \A u \in Threads :
             t # u /\ job[t].msg = job[u].msg => job[t].msg = NoMessage

\* Threads that still have to send READ, and threads that still have to send a verdict.
Reading == {t \in Threads : job[t].ack = "received"}
Answering == {t \in Threads : job[t].ack \in {"received", "read"}}

\* Every ack that is still to be sent has an envelope.
EnoughAcks == Cardinality(OwnAcks \ usedAcks) >= Cardinality(Reading) + Cardinality(Answering)

\* A message in flight is recorded.
InFlight ==
  \A t \in Threads : job[t].at = "rpc" =>
    job[t].env \in Known(mem) /\ (job[t].env \in Outgoing => job[t].env \in transmitted)

\* What of the calls does not concern the buffer.
CallsInv ==
  /\ job \in [Threads -> Jobs] /\ usedAcks \subseteq OwnAcks
  /\ JobsInv /\ OneEach /\ EnoughAcks

\* The sets that are counted are finite.
LEMMA CountedSets ==
  /\ IsFiniteSet(OwnAcks) /\ IsFiniteSet(OwnAcks \ usedAcks) /\ IsFiniteSet(Threads)
  /\ IsFiniteSet(Reading) /\ IsFiniteSet(Answering) /\ IsFiniteSet(Processing)
  /\ Cardinality(OwnAcks \ usedAcks) \in Nat /\ Cardinality(Processing) \in Nat
  /\ Cardinality(Reading) \in Nat /\ Cardinality(Answering) \in Nat
<1>1. IsFiniteSet(OwnAcks) /\ IsFiniteSet(Threads)
  BY LifecycleAssumption, BufferAssumption, FS_Subset
<1>2. OwnAcks \ usedAcks \subseteq OwnAcks /\ Reading \subseteq Threads
      /\ Answering \subseteq Threads /\ Processing \subseteq Threads
  BY DEF Reading, Answering, Processing
<1> QED BY <1>1, <1>2, FS_Subset, FS_CardinalityType

\* An unused envelope is there to be taken, and one fewer is left then.
LEMMA FreshFacts ==
  ASSUME Cardinality(OwnAcks \ usedAcks) > 0
  PROVE  /\ FreshAck \in OwnAcks \ usedAcks
         /\ Cardinality(OwnAcks \ (usedAcks \cup {FreshAck}))
              = Cardinality(OwnAcks \ usedAcks) - 1
<1>1. OwnAcks \ usedAcks # {}
  BY CountedSets, FS_EmptySet
<1>2. FreshAck \in OwnAcks \ usedAcks
  BY <1>1 DEF FreshAck
<1>3. OwnAcks \ (usedAcks \cup {FreshAck}) = (OwnAcks \ usedAcks) \ {FreshAck}
  OBVIOUS
<1> QED BY <1>2, <1>3, CountedSets, FS_RemoveElement

\* One thread's call goes on, ends or begins.
LEMMA JobMove ==
  ASSUME CallsInv, NEW t \in Threads, NEW j, JobOK(j), job' = [job EXCEPT ![t] = j],
         \/ j.msg = NoMessage \/ j.msg = job[t].msg
         \/ \A u \in Threads : job[u].msg # j.msg
  PROVE  /\ job' \in [Threads -> Jobs] /\ JobsInv' /\ OneEach'
         /\ job'[t] = j /\ \A u \in Threads : u # t => job'[u] = job[u]
<1>1. job' \in [Threads -> Jobs]
  BY DEF CallsInv, JobOK
<1>2. job'[t] = j /\ \A u \in Threads : u # t => job'[u] = job[u]
  BY DEF CallsInv
<1>3. JobsInv'
  BY <1>2 DEF CallsInv, JobsInv, JobOK, Jobs
<1>4. OneEach'
  <2> SUFFICES ASSUME NEW u \in Threads, NEW w \in Threads, u # w, job'[u].msg = job'[w].msg
               PROVE  job'[u].msg = NoMessage
    BY DEF OneEach
  <2>1. CASE u # t /\ w # t
    BY <1>2, <2>1 DEF CallsInv, OneEach
  <2>2. CASE u = t \/ w = t
    BY <1>2, <2>2 DEF CallsInv, OneEach
  <2> QED BY <2>1, <2>2
<1> QED BY <1>1, <1>2, <1>3, <1>4

\* A call that goes on without a new ack, or ends, needs no more envelopes.
LEMMA QuietMove ==
  ASSUME CallsInv, NEW t \in Threads, NEW j, JobOK(j), job' = [job EXCEPT ![t] = j],
         UNCHANGED usedAcks, \/ j.msg = NoMessage
                             \/ j.msg = job[t].msg /\ j.ack = job[t].ack
  PROVE  CallsInv' /\ job'[t] = j /\ \A u \in Threads : u # t => job'[u] = job[u]
<1>1. /\ job' \in [Threads -> Jobs] /\ JobsInv' /\ OneEach'
      /\ job'[t] = j /\ \A u \in Threads : u # t => job'[u] = job[u]
  BY JobMove
<1>2. Reading' \subseteq Reading /\ Answering' \subseteq Answering
  BY <1>1 DEF Reading, Answering, JobOK
<1>3. /\ Cardinality(Reading') <= Cardinality(Reading) /\ Cardinality(Reading') \in Nat
      /\ Cardinality(Answering') <= Cardinality(Answering) /\ Cardinality(Answering') \in Nat
  BY <1>2, CountedSets, FS_Subset, FS_CardinalityType
<1>4. EnoughAcks'
  BY <1>3, CountedSets DEF CallsInv, EnoughAcks
<1> QED BY <1>1, <1>4 DEF CallsInv

\* READ after RECEIVED and the verdict after READ: one envelope is used and one fewer needed.
LEMMA AckMove ==
  ASSUME CallsInv, NEW t \in Threads, NEW s, SendAck(t, s),
         \/ job[t].ack = "received" /\ s = "read" /\ job[t].msg \in Incoming
         \/ job[t].ack = "read" /\ s \in Verdicts
  PROVE  /\ CallsInv' /\ job'[t] = [job[t] EXCEPT !.at = "record", !.ack = s, !.env = FreshAck]
         /\ \A u \in Threads : u # t => job'[u] = job[u]
<1>1. t \in Answering /\ (t \in Reading <=> s = "read")
  BY DEF Answering, Reading, Verdicts
<1>2. Cardinality(Answering) > 0
  BY <1>1, CountedSets, FS_EmptySet
<1>3. Cardinality(OwnAcks \ usedAcks) > 0
  BY <1>2, CountedSets DEF CallsInv, EnoughAcks
<1>4. /\ FreshAck \in OwnAcks /\ usedAcks' \subseteq OwnAcks
      /\ Cardinality(OwnAcks \ usedAcks') = Cardinality(OwnAcks \ usedAcks) - 1
  BY <1>3, FreshFacts DEF SendAck, CallsInv
<1>5. PICK j : j = [job[t] EXCEPT !.at = "record", !.ack = s, !.env = FreshAck]
  OBVIOUS
<1>6. job' = [job EXCEPT ![t] = j]
  BY <1>5 DEF SendAck, CallsInv
<1>7. JobOK(job[t]) /\ job[t] \in Jobs
  BY DEF CallsInv, JobsInv
<1>8. /\ j.at = "record" /\ j.ack = s /\ j.env = FreshAck /\ j.msg = job[t].msg
      /\ j \in Jobs
  BY <1>4, <1>5, <1>7 DEF Jobs, Verdicts
<1>9. JobOK(j)
  BY <1>4, <1>7, <1>8 DEF JobOK, Verdicts
<1>10. /\ job' \in [Threads -> Jobs] /\ JobsInv' /\ OneEach'
       /\ job'[t] = j /\ \A u \in Threads : u # t => job'[u] = job[u]
  BY <1>6, <1>8, <1>9, JobMove
<1>11. EnoughAcks'
  <2>1. CASE s = "read"
    <3>1. Reading' = Reading \ {t} /\ Answering' = Answering
      BY <1>1, <1>8, <1>10, <2>1 DEF Reading, Answering
    <3>2. Cardinality(Reading \ {t}) = Cardinality(Reading) - 1
      BY <1>1, <2>1, CountedSets, FS_RemoveElement
    <3> QED BY <1>4, <3>1, <3>2, CountedSets DEF CallsInv, EnoughAcks
  <2>2. CASE s # "read"
    <3>1. Reading' = Reading /\ Answering' = Answering \ {t}
      BY <1>1, <1>8, <1>10, <2>2 DEF Reading, Answering, Verdicts
    <3>2. Cardinality(Answering \ {t}) = Cardinality(Answering) - 1
      BY <1>1, CountedSets, FS_RemoveElement
    <3> QED BY <1>4, <3>1, <3>2, CountedSets DEF CallsInv, EnoughAcks
  <2> QED BY <2>1, <2>2
<1> QED BY <1>4, <1>5, <1>10, <1>11 DEF CallsInv

\* A message is taken up when there are envelopes for its three acks.
LEMMA StartMove ==
  ASSUME CallsInv, NEW t \in Threads, NEW m \in Incoming \cup IncomingAcks, StartProcess(t, m)
  PROVE  /\ CallsInv' /\ \A u \in Threads : u # t => job'[u] = job[u]
         /\ job'[t].at = "record" /\ job'[t].msg = m /\ job'[t].ack \in {"received", "failed"}
<1>1. /\ AcksLeft /\ \A u \in Threads : job[u].msg # m
      /\ usedAcks' = usedAcks \cup {FreshAck}
  BY DEF StartProcess
<1>2. PICK a \in {"received", "failed"} :
        job' = [job EXCEPT ![t] = [at |-> "record", msg |-> m, ack |-> a, env |-> FreshAck]]
  BY DEF StartProcess
<1>3. PICK j : j = [at |-> "record", msg |-> m, ack |-> a, env |-> FreshAck]
  OBVIOUS
<1>4. Cardinality(OwnAcks \ usedAcks) > 0
  BY <1>1, CountedSets DEF AcksLeft
<1>5. /\ FreshAck \in OwnAcks /\ usedAcks' \subseteq OwnAcks
      /\ Cardinality(OwnAcks \ usedAcks') = Cardinality(OwnAcks \ usedAcks) - 1
  BY <1>1, <1>4, FreshFacts DEF CallsInv
<1>6. m # NoMessage
  BY LifecycleAssumption, BufferAssumption
<1>7. JobOK(j) /\ j.msg = m
  BY <1>3, <1>5, <1>6 DEF JobOK, Jobs, Verdicts
<1>8. /\ job' \in [Threads -> Jobs] /\ JobsInv' /\ OneEach'
      /\ job'[t] = j /\ \A u \in Threads : u # t => job'[u] = job[u]
  BY <1>1, <1>2, <1>3, <1>7, JobMove
<1>9. Reading \subseteq Processing /\ Answering \subseteq Processing
  BY DEF Reading, Answering, Processing, CallsInv, JobsInv, JobOK
<1>10. Cardinality(Reading) <= Cardinality(Processing)
       /\ Cardinality(Answering) <= Cardinality(Processing)
  BY <1>9, CountedSets, FS_Subset
<1>11. Reading' \subseteq Reading \cup {t} /\ Answering' \subseteq Answering \cup {t}
  BY <1>8 DEF Reading, Answering
<1>12. /\ IsFiniteSet(Reading \cup {t}) /\ Cardinality(Reading \cup {t}) <= Cardinality(Reading) + 1
       /\ IsFiniteSet(Answering \cup {t})
       /\ Cardinality(Answering \cup {t}) <= Cardinality(Answering) + 1
       /\ Cardinality(Reading \cup {t}) \in Nat /\ Cardinality(Answering \cup {t}) \in Nat
  <2>1. /\ IsFiniteSet(Reading \cup {t})
        /\ Cardinality(Reading \cup {t}) \in {Cardinality(Reading), Cardinality(Reading) + 1}
    BY CountedSets, FS_AddElement
  <2>2. /\ IsFiniteSet(Answering \cup {t})
        /\ Cardinality(Answering \cup {t}) \in {Cardinality(Answering), Cardinality(Answering) + 1}
    BY CountedSets, FS_AddElement
  <2> QED BY <2>1, <2>2, CountedSets
<1>13. /\ Cardinality(Reading') <= Cardinality(Reading \cup {t}) /\ Cardinality(Reading') \in Nat
       /\ Cardinality(Answering') <= Cardinality(Answering \cup {t})
       /\ Cardinality(Answering') \in Nat
  BY <1>11, <1>12, FS_Subset, FS_CardinalityType
<1>14. EnoughAcks'
  BY <1>1, <1>5, <1>10, <1>12, <1>13, CountedSets DEF AcksLeft, EnoughAcks
<1> QED BY <1>3, <1>5, <1>8, <1>14 DEF CallsInv

\* What the caller does when a send returns.
LEMMA ContinueMove ==
  ASSUME CallsInv, NEW t \in Threads, job[t].at \in {"record", "rpc"}, Continue(t)
  PROVE  /\ CallsInv' /\ \A u \in Threads : u # t => job'[u] = job[u]
         /\ job'[t].at # "rpc"
         /\ job'[t].msg = job[t].msg \/ job'[t].msg = NoMessage
         /\ job'[t].at = "record" => job[t].ack = "received" /\ job'[t].ack = "read"
         /\ job'[t].at = "handle" => job[t].ack = "read"
<1>0. JobOK(job[t]) /\ job[t] \in Jobs
  BY DEF CallsInv, JobsInv
<1>1. CASE job[t].ack = "received" /\ job[t].msg \in IncomingAcks
  <2>1. PICK j : j = [job[t] EXCEPT !.at = "deliver"]
    OBVIOUS
  <2>2. job' = [job EXCEPT ![t] = j] /\ UNCHANGED usedAcks
    BY <1>1, <2>1 DEF Continue, CallsInv
  <2>3. j \in Jobs /\ j.at = "deliver" /\ j.msg = job[t].msg /\ j.ack = job[t].ack
    BY <1>0, <2>1 DEF Jobs
  <2>4. JobOK(j)
    BY <1>0, <2>3 DEF JobOK
  <2> QED BY <2>2, <2>3, <2>4, QuietMove
<1>2. CASE job[t].ack = "received" /\ job[t].msg \notin IncomingAcks
  <2>1. SendAck(t, "read")
    BY <1>2 DEF Continue
  <2>2. job[t].msg \in Incoming
    BY <1>0, <1>2 DEF JobOK, Jobs
  <2>3. /\ CallsInv' /\ \A u \in Threads : u # t => job'[u] = job[u]
        /\ job'[t] = [job[t] EXCEPT !.at = "record", !.ack = "read", !.env = FreshAck]
    BY <1>2, <2>1, <2>2, AckMove
  <2>4. PICK j : j = job[t]
    OBVIOUS
  <2>5. job'[t].at = "record" /\ job'[t].ack = "read" /\ job'[t].msg = job[t].msg
    BY <1>0, <2>3, <2>4 DEF Jobs
  <2> QED BY <1>2, <2>3, <2>5
<1>3. CASE job[t].ack = "read"
  <2>1. PICK j : j = [job[t] EXCEPT !.at = "handle"]
    OBVIOUS
  <2>2. job' = [job EXCEPT ![t] = j] /\ UNCHANGED usedAcks
    BY <1>3, <2>1 DEF Continue, CallsInv
  <2>3. j \in Jobs /\ j.at = "handle" /\ j.msg = job[t].msg /\ j.ack = job[t].ack
    BY <1>0, <2>1 DEF Jobs
  <2>4. JobOK(j)
    BY <1>0, <1>3, <2>3 DEF JobOK
  <2> QED BY <1>3, <2>2, <2>3, <2>4, QuietMove
<1>4. CASE job[t].ack \notin {"received", "read"}
  <2>1. job' = [job EXCEPT ![t] = NoJob] /\ UNCHANGED usedAcks
    BY <1>4 DEF Continue
  <2>2. JobOK(NoJob) /\ NoJob.msg = NoMessage /\ NoJob.at = "idle"
    BY LifecycleAssumption, BufferAssumption DEF JobOK, NoJob, Jobs
  <2> QED BY <2>1, <2>2, QuietMove
<1> QED BY <1>1, <1>2, <1>3, <1>4
-------------------------------------------------------------------------------
(* The agent: what was sent *)

Totals ==
  /\ returned \subseteq transmitted /\ transmitted \subseteq Outgoing /\ swallowed \subseteq Outgoing
  /\ handled \in [Incoming -> Nat] /\ sentAcks \in [Incoming -> Seq(Stages)]
  /\ discarded \in BOOLEAN /\ crashes \in 0..MaxCrashes /\ faults \in 0..MaxFaults

LifeInv == StoreInv /\ CallsInv /\ InFlight /\ Totals

\* The acks a peer has for the message a thread works on come before the thread's next one.
Forward ==
  \A t \in Threads : job[t].msg \in Incoming =>
    \A i \in DOMAIN sentAcks[job[t].msg] :
      /\ job[t].at \in {"record", "rpc"} => Rank(sentAcks[job[t].msg][i]) < Rank(job[t].ack)
      /\ job[t].at = "handle" => Rank(sentAcks[job[t].msg][i]) <= 2

AckOrder == Forward /\ AcksGoForward

\* A rank is a number.
LEMMA RankFacts ==
  ASSUME NEW s
  PROVE  /\ Rank(s) \in 1..3 /\ Rank("received") = 1 /\ Rank("read") = 2
         /\ s \in Verdicts => Rank(s) = 3
BY DEF Rank, Verdicts

\* The constants' types that the calls need.
LEMMA MessageTypes ==
  /\ Outgoing \subseteq Messages /\ OwnAcks \subseteq Messages /\ Incoming \subseteq Messages
  /\ IncomingAcks \subseteq Messages /\ AckStages \subseteq Stages
  /\ Outcomes \subseteq Stages /\ Verdicts \subseteq Stages
  /\ {"received", "read", "failed"} \subseteq Stages
  /\ MaxCrashes \in Nat /\ MaxFaults \in Nat
BY LifecycleAssumption DEF Outcomes, Verdicts, Stages, Unacked

\* The other threads' messages stay in flight.
LEMMA FlightFrame ==
  ASSUME InFlight, NEW t \in Threads, \A u \in Threads : u # t => job'[u] = job[u],
         Known(mem) \subseteq Known(mem'), transmitted \subseteq transmitted',
         job'[t].at = "rpc" => /\ job'[t].env \in Known(mem')
                               /\ job'[t].env \in Outgoing => job'[t].env \in transmitted'
  PROVE  InFlight'
BY DEF InFlight, Known

\* No ack is sent, and the thread's next one comes after the last.
LEMMA OrderFrame ==
  ASSUME AckOrder, UNCHANGED sentAcks, NEW t \in Threads,
         \A u \in Threads : u # t => job'[u] = job[u],
         job'[t].msg \in Incoming => job'[t].msg = job[t].msg,
         job'[t].msg \in Incoming /\ job'[t].at \in {"record", "rpc"} =>
           \/ job[t].at \in {"record", "rpc"} /\ Rank(job[t].ack) <= Rank(job'[t].ack)
           \/ job[t].at = "handle" /\ job'[t].ack \in Verdicts,
         job'[t].msg \in Incoming /\ job'[t].at = "handle" =>
           job[t].at \in {"record", "rpc"} /\ job[t].ack = "read"
  PROVE  AckOrder'
<1>1. AcksGoForward'
  BY DEF AckOrder, AcksGoForward
<1>2. ASSUME NEW u \in Threads, job'[u].msg \in Incoming, NEW i \in DOMAIN sentAcks[job'[u].msg]
      PROVE  /\ job'[u].at \in {"record", "rpc"} =>
                  Rank(sentAcks[job'[u].msg][i]) < Rank(job'[u].ack)
             /\ job'[u].at = "handle" => Rank(sentAcks[job'[u].msg][i]) <= 2
  <2>1. CASE u # t
    BY <1>2, <2>1 DEF AckOrder, Forward
  <2>2. CASE u = t
    <3>1. job'[t].msg = job[t].msg
      BY <1>2, <2>2
    <3>2. /\ job[t].at \in {"record", "rpc"} =>
               Rank(sentAcks[job[t].msg][i]) < Rank(job[t].ack)
          /\ job[t].at = "handle" => Rank(sentAcks[job[t].msg][i]) <= 2
      BY <1>2, <2>2, <3>1 DEF AckOrder, Forward
    <3> QED BY <1>2, <2>2, <3>1, <3>2, RankFacts
  <2> QED BY <2>1, <2>2
<1>3. Forward'
  BY <1>2 DEF Forward
<1> QED BY <1>1, <1>3 DEF AckOrder

\* send_message_with_ack begins.
LEMMA StartSendStep ==
  ASSUME LifeInv, NEW t \in Threads, NEW m \in Outgoing, StartSend(t, m)
  PROVE  LifeInv' /\ (AckOrder => AckOrder')
<1>1. PICK j : j = [NoJob EXCEPT !.at = "record", !.env = m]
  OBVIOUS
<1>2. /\ job' = [job EXCEPT ![t] = j] /\ UNCHANGED <<mem, disk, now, usedAcks>>
      /\ UNCHANGED <<transmitted, returned, swallowed, handled, sentAcks, discarded, crashes,
                     faults>>
  BY <1>1 DEF StartSend, bufferVars, history
<1>3. j.at = "record" /\ j.msg = NoMessage /\ JobOK(j)
  BY <1>1, LifecycleAssumption, BufferAssumption DEF JobOK, NoJob, Jobs
<1>4. CallsInv' /\ job'[t] = j /\ \A u \in Threads : u # t => job'[u] = job[u]
  BY <1>2, <1>3, QuietMove DEF LifeInv
<1>5. StoreInv'
  BY <1>2 DEF LifeInv, StoreInv, BufferTypeOK, OrderHolds, Known, CleanMeansRecorded
<1>6. InFlight' /\ Totals'
  BY <1>2, <1>3, <1>4, FlightFrame DEF LifeInv, Totals, Known
<1>7. AckOrder => AckOrder'
  BY <1>2, <1>3, <1>4, OrderFrame, MessageTypes, BufferAssumption
<1> QED BY <1>4, <1>5, <1>6, <1>7 DEF LifeInv

\* process_message begins: what the peer had of earlier deliveries is forgotten.
LEMMA StartProcessStep ==
  ASSUME LifeInv, NEW t \in Threads, NEW m \in Incoming \cup IncomingAcks, StartProcess(t, m)
  PROVE  LifeInv' /\ (AckOrder => AckOrder')
<1>1. /\ CallsInv' /\ \A u \in Threads : u # t => job'[u] = job[u]
      /\ job'[t].at = "record" /\ job'[t].msg = m /\ job'[t].ack \in {"received", "failed"}
  BY StartMove DEF LifeInv
<1>2. /\ sentAcks' = IF m \in Incoming THEN [sentAcks EXCEPT ![m] = <<>>] ELSE sentAcks
      /\ \A u \in Threads : job[u].msg # m
      /\ UNCHANGED <<disk, now, transmitted, returned, swallowed, handled, discarded, crashes,
                     faults>>
      /\ \/ mem' = Recorded(mem, m)
         \/ UNCHANGED mem
  BY DEF StartProcess
<1>3. StoreInv' /\ Known(mem) \subseteq Known(mem')
  <2>1. CASE mem' = Recorded(mem, m)
    BY <1>2, <2>1, RecordStore, MessageTypes DEF LifeInv
  <2>2. CASE UNCHANGED mem
    BY <1>2, <2>2 DEF LifeInv, StoreInv, BufferTypeOK, OrderHolds, Known, CleanMeansRecorded
  <2> QED BY <1>2, <2>1, <2>2
<1>4. InFlight'
  BY <1>1, <1>2, <1>3, FlightFrame DEF LifeInv
<1>5. sentAcks' \in [Incoming -> Seq(Stages)]
  BY <1>2 DEF LifeInv, Totals
<1>6. Totals'
  BY <1>2, <1>5 DEF LifeInv, Totals
<1>7. ASSUME AckOrder PROVE AckOrder'
  <2>1. sentAcks \in [Incoming -> Seq(Stages)]
    BY DEF LifeInv, Totals
  <2>2. \A n \in Incoming : sentAcks'[n] = IF n = m THEN <<>> ELSE sentAcks[n]
    BY <1>2, <2>1
  <2>3. AcksGoForward'
    BY <1>7, <2>2 DEF AckOrder, AcksGoForward
  <2>4. Forward'
    BY <1>1, <1>2, <1>7, <2>2 DEF AckOrder, Forward
  <2> QED BY <2>3, <2>4 DEF AckOrder
<1> QED BY <1>1, <1>3, <1>4, <1>6, <1>7 DEF LifeInv

\* process_incoming_ack of a peer's ack, outside process_message.
LEMMA IncomingAckStep ==
  ASSUME LifeInv, NEW t \in Threads, NEW m \in Outgoing, NEW s \in AckStages,
         IncomingAck(t, m, s)
  PROVE  LifeInv' /\ (AckOrder => AckOrder')
<1>1. /\ UNCHANGED <<job, usedAcks, transmitted, returned, swallowed, handled, sentAcks, discarded,
                     crashes>>
      /\ IF m \in Known(mem) THEN Persist(Acked(mem, m, s))
         ELSE UNCHANGED <<mem, disk, now, faults>>
  BY DEF IncomingAck, history
<1>2. StoreInv' /\ Known(mem') = Known(mem) /\ faults' \in 0..MaxFaults
  BY <1>1, AckStore, MessageTypes DEF LifeInv, Totals
<1>3. InFlight'
  BY <1>1, <1>2, FlightFrame DEF LifeInv, InFlight
<1>4. CallsInv' /\ Totals' /\ (AckOrder => AckOrder')
  BY <1>1, <1>2 DEF LifeInv, Totals, CallsInv, JobsInv, OneEach, EnoughAcks, Reading, Answering,
                    AckOrder, Forward, AcksGoForward
<1> QED BY <1>2, <1>3, <1>4 DEF LifeInv

\* record_outgoing of the envelope in flight.
LEMMA RecordOutgoingStep ==
  ASSUME LifeInv, NEW t \in Threads, RecordOutgoing(t)
  PROVE  LifeInv' /\ (AckOrder => AckOrder')
<1>1. PICK j : j = [job[t] EXCEPT !.at = "rpc"]
  OBVIOUS
<1>2. /\ job[t].at = "record" /\ mem' = Recorded(mem, job[t].env) /\ job' = [job EXCEPT ![t] = j]
      /\ transmitted' = transmitted \cup ({job[t].env} \cap Outgoing)
      /\ UNCHANGED <<disk, now, usedAcks, returned, swallowed, handled, sentAcks, discarded, crashes,
                     faults>>
  BY <1>1 DEF RecordOutgoing, LifeInv, CallsInv
<1>3. JobOK(job[t]) /\ job[t] \in Jobs
  BY DEF LifeInv, CallsInv, JobsInv
<1>4. /\ j \in Jobs /\ j.at = "rpc" /\ j.msg = job[t].msg /\ j.ack = job[t].ack
      /\ j.env = job[t].env
  BY <1>1, <1>3 DEF Jobs
<1>5. JobOK(j)
  BY <1>2, <1>3, <1>4 DEF JobOK
<1>6. CallsInv' /\ job'[t] = j /\ \A u \in Threads : u # t => job'[u] = job[u]
  BY <1>2, <1>4, <1>5, QuietMove DEF LifeInv
<1>7. job[t].env \in Messages
  BY <1>2, <1>3, MessageTypes DEF JobOK
<1>8. StoreInv' /\ Known(mem') = Known(mem) \cup {job[t].env}
  BY <1>2, <1>7, RecordStore DEF LifeInv
<1>9. InFlight'
  BY <1>2, <1>4, <1>6, <1>8, FlightFrame DEF LifeInv
<1>10. Totals'
  BY <1>2 DEF LifeInv, Totals
<1>11. AckOrder => AckOrder'
  BY <1>2, <1>4, <1>6, OrderFrame, RankFacts
<1> QED BY <1>6, <1>8, <1>9, <1>10, <1>11 DEF LifeInv

\* record_outgoing raises BufferFullError.
LEMMA RecordRefusedStep ==
  ASSUME LifeInv, NEW t \in Threads, RecordRefused(t)
  PROVE  LifeInv' /\ (AckOrder => AckOrder')
<1>1. /\ job[t].at = "record" /\ Continue(t)
      /\ UNCHANGED <<transmitted, returned, swallowed, handled, sentAcks, discarded, crashes>>
      /\ IF job[t].env \in Known(mem) THEN Persist(Stamped(mem, job[t].env, "failed"))
         ELSE UNCHANGED <<mem, disk, now, faults>>
  BY DEF RecordRefused, history
<1>2. job[t].env \in Messages
  BY <1>1, MessageTypes DEF LifeInv, CallsInv, JobsInv, JobOK
<1>3. StoreInv' /\ Known(mem') = Known(mem) /\ faults' \in 0..MaxFaults
  <2>1. CASE job[t].env \in Known(mem)
    BY <1>1, <1>2, <2>1, StampStore, MessageTypes DEF LifeInv, Totals
  <2>2. CASE job[t].env \notin Known(mem)
    BY <1>1, <2>2 DEF LifeInv, Totals, StoreInv, BufferTypeOK, OrderHolds, Known,
                      CleanMeansRecorded
  <2> QED BY <2>1, <2>2
<1>4. /\ CallsInv' /\ \A u \in Threads : u # t => job'[u] = job[u]
      /\ job'[t].at # "rpc"
      /\ job'[t].msg = job[t].msg \/ job'[t].msg = NoMessage
      /\ job'[t].at = "record" => job[t].ack = "received" /\ job'[t].ack = "read"
      /\ job'[t].at = "handle" => job[t].ack = "read"
  BY <1>1, ContinueMove DEF LifeInv
<1>5. InFlight' /\ Totals'
  BY <1>1, <1>3, <1>4, FlightFrame DEF LifeInv, Totals
<1>6. AckOrder => AckOrder'
  BY <1>1, <1>4, OrderFrame, RankFacts, MessageTypes, BufferAssumption
<1> QED BY <1>3, <1>4, <1>5, <1>6 DEF LifeInv

\* The router takes the envelope, refuses it, or the call raises.
LEMMA RouterAnswersStep ==
  ASSUME LifeInv, NEW t \in Threads, NEW s \in Outcomes, RouterAnswers(t, s)
  PROVE  LifeInv' /\ (AckOrder => AckOrder')
<1>1. /\ job[t].at = "rpc" /\ Continue(t) /\ Persist(Stamped(mem, job[t].env, s))
      /\ returned' \subseteq returned \cup ({job[t].env} \cap Outgoing)
      /\ swallowed' \subseteq swallowed \cup ({job[t].env} \cap Outgoing)
      /\ sentAcks' = IF s = "fulfilled" /\ job[t].msg \in Incoming
                     THEN [sentAcks EXCEPT ![job[t].msg] = Append(@, job[t].ack)] ELSE sentAcks
      /\ UNCHANGED <<transmitted, handled, discarded, crashes>>
  BY DEF RouterAnswers
<1>2. job[t].env \in Messages /\ JobOK(job[t]) /\ job[t] \in Jobs
  BY <1>1, MessageTypes DEF LifeInv, CallsInv, JobsInv, JobOK
<1>3. StoreInv' /\ Known(mem') = Known(mem) /\ faults' \in 0..MaxFaults
  BY <1>1, <1>2, StampStore, MessageTypes DEF LifeInv, Totals
<1>4. /\ CallsInv' /\ \A u \in Threads : u # t => job'[u] = job[u]
      /\ job'[t].at # "rpc"
      /\ job'[t].msg = job[t].msg \/ job'[t].msg = NoMessage
      /\ job'[t].at = "record" => job[t].ack = "received" /\ job'[t].ack = "read"
      /\ job'[t].at = "handle" => job[t].ack = "read"
  BY <1>1, ContinueMove DEF LifeInv
<1>5. InFlight'
  BY <1>1, <1>3, <1>4, FlightFrame DEF LifeInv
<1>6. sentAcks \in [Incoming -> Seq(Stages)] /\ \A n \in Incoming : n # NoMessage
  BY MessageTypes, BufferAssumption DEF LifeInv, Totals
<1>7. job[t].msg \in Incoming => job[t].ack \in Stages
  BY <1>2, <1>6, MessageTypes DEF JobOK, Jobs
<1>8. sentAcks' \in [Incoming -> Seq(Stages)]
  BY <1>1, <1>6, <1>7
<1>9. Totals'
  BY <1>1, <1>3, <1>8 DEF LifeInv, Totals, InFlight
<1>10. ASSUME AckOrder PROVE AckOrder'
  <2>1. CASE sentAcks' = sentAcks
    BY <1>1, <1>4, <1>6, <1>10, <2>1, OrderFrame, RankFacts
  <2>2. CASE sentAcks' # sentAcks
    <3>1. PICK m \in Incoming : m = job[t].msg
      BY <1>1, <2>2
    <3>2. PICK a \in Stages : a = job[t].ack
      BY <1>7, <3>1
    <3>3. PICK q \in Seq(Stages) : q = sentAcks[m]
      BY <1>6
    <3>4. sentAcks' = [sentAcks EXCEPT ![m] = Append(q, a)]
      BY <1>1, <2>2, <3>1, <3>2, <3>3
    <3>5. PICK k \in Nat : k = Len(q) /\ DOMAIN q = 1..k
      BY <3>3
    <3>6. PICK r : r = Append(q, a)
      OBVIOUS
    <3>7. DOMAIN r = 1..k+1 /\ r[k+1] = a /\ \A i \in 1..k : r[i] = q[i]
      BY <3>3, <3>5, <3>6
    <3>8. sentAcks'[m] = r /\ \A n \in Incoming : n # m => sentAcks'[n] = sentAcks[n]
      BY <1>6, <3>4, <3>6
    <3>9. \A i \in 1..k : Rank(q[i]) < Rank(a)
      BY <1>1, <1>10, <3>1, <3>2, <3>3, <3>5 DEF AckOrder, Forward
    <3>10. \A i, j \in 1..k : i < j => Rank(q[i]) < Rank(q[j])
      BY <1>10, <3>3, <3>5 DEF AckOrder, AcksGoForward
    <3>11. \A i, j \in 1..k+1 : i < j => Rank(r[i]) < Rank(r[j])
      BY <3>7, <3>9, <3>10
    <3>12. AcksGoForward'
      BY <1>10, <3>7, <3>8, <3>11 DEF AckOrder, AcksGoForward
    <3>13. \A i \in 1..k+1 : Rank(r[i]) <= Rank(a)
      BY <3>7, <3>9, RankFacts
    <3>14. ASSUME NEW u \in Threads, job'[u].msg \in Incoming,
                  NEW i \in DOMAIN sentAcks'[job'[u].msg]
           PROVE  /\ job'[u].at \in {"record", "rpc"} =>
                       Rank(sentAcks'[job'[u].msg][i]) < Rank(job'[u].ack)
                  /\ job'[u].at = "handle" => Rank(sentAcks'[job'[u].msg][i]) <= 2
      <4>1. CASE u = t
        <5>1. job'[u].msg = m
          BY <1>4, <1>6, <3>1, <3>14, <4>1
        <5> QED BY <1>4, <3>2, <3>7, <3>8, <3>13, <3>14, <4>1, <5>1, RankFacts
      <4>2. CASE u # t
        <5>1. job'[u] = job[u] /\ job[u].msg # m
          BY <1>4, <1>6, <3>1, <3>14, <4>2 DEF LifeInv, CallsInv, OneEach
        <5> QED BY <1>10, <3>8, <3>14, <5>1 DEF AckOrder, Forward
      <4> QED BY <4>1, <4>2
    <3>15. Forward'
      BY <3>14 DEF Forward
    <3> QED BY <3>12, <3>15 DEF AckOrder
  <2> QED BY <2>1, <2>2
<1> QED BY <1>3, <1>4, <1>5, <1>9, <1>10 DEF LifeInv

\* process_message hands an acknowledgement to process_incoming_ack.
LEMMA DeliverAckStep ==
  ASSUME LifeInv, NEW t \in Threads, NEW m \in Outgoing, NEW s \in AckStages,
         DeliverAck(t, m, s)
  PROVE  LifeInv' /\ (AckOrder => AckOrder')
<1>1. /\ job' = [job EXCEPT ![t] = NoJob]
      /\ UNCHANGED <<usedAcks, transmitted, returned, swallowed, handled, sentAcks, discarded,
                     crashes>>
      /\ IF m \in Known(mem) THEN Persist(Acked(mem, m, s))
         ELSE UNCHANGED <<mem, disk, now, faults>>
  BY DEF DeliverAck, history
<1>2. StoreInv' /\ Known(mem') = Known(mem) /\ faults' \in 0..MaxFaults
  BY <1>1, AckStore, MessageTypes DEF LifeInv, Totals
<1>3. JobOK(NoJob) /\ NoJob.msg = NoMessage /\ NoJob.at = "idle"
  BY LifecycleAssumption, BufferAssumption DEF JobOK, NoJob, Jobs
<1>4. CallsInv' /\ job'[t] = NoJob /\ \A u \in Threads : u # t => job'[u] = job[u]
  BY <1>1, <1>3, QuietMove DEF LifeInv
<1>5. InFlight' /\ Totals'
  BY <1>1, <1>2, <1>3, <1>4, FlightFrame DEF LifeInv, Totals
<1>6. AckOrder => AckOrder'
  BY <1>1, <1>3, <1>4, OrderFrame, MessageTypes, BufferAssumption
<1> QED BY <1>2, <1>4, <1>5, <1>6 DEF LifeInv

\* The handler ends and its verdict is sent.
LEMMA HandleStep ==
  ASSUME LifeInv, NEW t \in Threads, NEW v \in Verdicts, Handle(t, v)
  PROVE  LifeInv' /\ (AckOrder => AckOrder')
<1>1. /\ job[t].at = "handle" /\ SendAck(t, v)
      /\ handled' = IF v = "fulfilled" THEN [handled EXCEPT ![job[t].msg] = @ + 1] ELSE handled
      /\ UNCHANGED <<mem, disk, now, transmitted, returned, swallowed, sentAcks, discarded, crashes,
                     faults>>
  BY DEF Handle, VerdictAck, bufferVars
<1>2. job[t].ack = "read" /\ job[t].msg \in Incoming /\ job[t] \in Jobs
  BY <1>1 DEF LifeInv, CallsInv, JobsInv, JobOK
<1>3. /\ CallsInv' /\ \A u \in Threads : u # t => job'[u] = job[u]
      /\ job'[t] = [job[t] EXCEPT !.at = "record", !.ack = v, !.env = FreshAck]
  BY <1>1, <1>2, AckMove DEF LifeInv
<1>4. PICK j : j = job[t]
  OBVIOUS
<1>5. job'[t].at = "record" /\ job'[t].ack = v /\ job'[t].msg = job[t].msg
  BY <1>2, <1>3, <1>4 DEF Jobs
<1>6. StoreInv' /\ InFlight'
  BY <1>1, <1>3, <1>5, FlightFrame
     DEF LifeInv, StoreInv, BufferTypeOK, OrderHolds, Known, CleanMeansRecorded
<1>7. handled' \in [Incoming -> Nat]
  BY <1>1, <1>2 DEF LifeInv, Totals
<1>8. Totals'
  BY <1>1, <1>7 DEF LifeInv, Totals
<1>9. AckOrder => AckOrder'
  BY <1>1, <1>3, <1>5, OrderFrame
<1> QED BY <1>3, <1>6, <1>8, <1>9 DEF LifeInv

\* The process dies with all its calls.
LEMMA CrashStep ==
  ASSUME LifeInv, Crash
  PROVE  LifeInv' /\ (AckOrder => AckOrder')
<1>1. /\ crashes < MaxCrashes /\ crashes' = crashes + 1
      /\ mem' = Loaded(disk) /\ discarded' = (discarded \/ IsFull(disk))
      /\ job' = [t \in Threads |-> NoJob]
      /\ UNCHANGED <<disk, now, usedAcks, transmitted, returned, swallowed, handled, sentAcks, faults>>
  BY DEF Crash
<1>2. StoreInv'
  BY <1>1, CrashStore DEF LifeInv
<1>3. JobOK(NoJob) /\ NoJob.msg = NoMessage /\ NoJob.at = "idle" /\ NoJob.ack = "none"
      /\ NoJob \in Jobs
  BY LifecycleAssumption, BufferAssumption DEF JobOK, NoJob, Jobs
<1>4. \A t \in Threads : job'[t] = NoJob
  BY <1>1
<1>5. job' \in [Threads -> Jobs] /\ JobsInv' /\ OneEach' /\ InFlight'
  BY <1>1, <1>3, <1>4 DEF JobsInv, JobOK, Jobs, OneEach, InFlight
<1>6. Reading' = {} /\ Answering' = {}
  BY <1>3, <1>4 DEF Reading, Answering
<1>7. EnoughAcks'
  BY <1>1, <1>6, FS_EmptySet, CountedSets DEF EnoughAcks
<1>8. CallsInv'
  BY <1>1, <1>5, <1>7 DEF LifeInv, CallsInv
<1>9. Totals'
  BY <1>1, MessageTypes DEF LifeInv, Totals
<1>10. AckOrder => AckOrder'
  BY <1>1, <1>3, <1>4, MessageTypes, BufferAssumption DEF AckOrder, Forward, AcksGoForward
<1> QED BY <1>2, <1>5, <1>8, <1>9, <1>10 DEF LifeInv

\* Every step of the agent, its peers and the clock.
LEMMA LifecycleStep ==
  LifeInv /\ [LifecycleNext]_vars => LifeInv' /\ (AckOrder => AckOrder')
<1> SUFFICES ASSUME LifeInv, [LifecycleNext]_vars PROVE LifeInv' /\ (AckOrder => AckOrder')
  OBVIOUS
<1>a. ASSUME UNCHANGED <<mem, disk, job, usedAcks, transmitted, returned, swallowed, handled,
                         sentAcks, discarded, crashes, faults>>, now' \in 0..MaxTime
      PROVE  LifeInv' /\ (AckOrder => AckOrder')
  <2>1. StoreInv'
    BY <1>a DEF LifeInv, StoreInv, BufferTypeOK, OrderHolds, Known, CleanMeansRecorded
  <2>2. CallsInv' /\ InFlight'
    BY <1>a DEF LifeInv, CallsInv, JobsInv, OneEach, EnoughAcks, Reading, Answering, InFlight,
                Known
  <2>3. Totals' /\ (AckOrder => AckOrder')
    BY <1>a DEF LifeInv, Totals, AckOrder, Forward, AcksGoForward
  <2> QED BY <2>1, <2>2, <2>3 DEF LifeInv
<1>1. ASSUME NEW t \in Threads, \E m \in Outgoing : StartSend(t, m)
      PROVE  LifeInv' /\ (AckOrder => AckOrder')
  BY <1>1, StartSendStep
<1>2. ASSUME NEW t \in Threads, \E m \in Incoming \cup IncomingAcks : StartProcess(t, m)
      PROVE  LifeInv' /\ (AckOrder => AckOrder')
  BY <1>2, StartProcessStep
<1>3. ASSUME NEW t \in Threads, \E m \in Outgoing, s \in AckStages : IncomingAck(t, m, s)
      PROVE  LifeInv' /\ (AckOrder => AckOrder')
  BY <1>3, IncomingAckStep
<1>4. ASSUME NEW t \in Threads, Step(t)
      PROVE  LifeInv' /\ (AckOrder => AckOrder')
  BY <1>4, RecordOutgoingStep, RecordRefusedStep, RouterAnswersStep, DeliverAckStep, HandleStep
     DEF Step
<1>5. CASE Crash
  BY <1>5, CrashStep
<1>6. CASE Tick /\ UNCHANGED <<job, usedAcks, history, crashes, faults>>
  <2>1. now' \in 0..MaxTime
    BY <1>6, BufferAssumption DEF Tick, LifeInv, StoreInv, BufferTypeOK
  <2> QED BY <1>6, <1>a, <2>1 DEF Tick, history
<1>7. CASE UNCHANGED vars
  BY <1>7, <1>a DEF vars, bufferVars, LifeInv, StoreInv, BufferTypeOK
<1> QED BY <1>1, <1>2, <1>3, <1>4, <1>5, <1>6, <1>7 DEF LifecycleNext

\* An agent starts with nothing recorded and no call in progress.
LEMMA InitLife == LifecycleInit => LifeInv /\ AckOrder
<1> SUFFICES ASSUME LifecycleInit PROVE LifeInv /\ AckOrder
  OBVIOUS
<1>1. BufferInv
  BY InitBufferInv DEF LifecycleInit, BufferInit
<1>2. StoreInv
  BY <1>1, EmptyFacts DEF StoreInv, BufferInv, CleanMeansRecorded, LifecycleInit
<1>3. JobOK(NoJob) /\ NoJob.msg = NoMessage /\ NoJob.at = "idle" /\ NoJob.ack = "none"
      /\ NoJob \in Jobs
  BY LifecycleAssumption, BufferAssumption DEF JobOK, NoJob, Jobs
<1>4. job \in [Threads -> Jobs] /\ \A t \in Threads : job[t] = NoJob
  BY <1>3 DEF LifecycleInit
<1>5. JobsInv /\ OneEach /\ InFlight
  BY <1>3, <1>4 DEF JobsInv, OneEach, InFlight
<1>6. Reading = {} /\ Answering = {}
  BY <1>3, <1>4 DEF Reading, Answering
<1>7. EnoughAcks
  BY <1>6, FS_EmptySet, CountedSets DEF EnoughAcks
<1>8. Totals
  <2>1. sentAcks \in [Incoming -> Seq(Stages)] /\ handled \in [Incoming -> Nat]
    <3>1. \A m \in Incoming : <<>> \in Seq(Stages) /\ 0 \in Nat
      OBVIOUS
    <3> QED BY <3>1 DEF LifecycleInit
  <2>2. 0 \in 0..MaxCrashes /\ 0 \in 0..MaxFaults
    BY MessageTypes
  <2> QED BY <2>1, <2>2 DEF LifecycleInit, Totals
<1>9. AckOrder
  BY <1>3, <1>4, MessageTypes, BufferAssumption DEF LifecycleInit, AckOrder, Forward, AcksGoForward
<1> QED BY <1>2, <1>4, <1>5, <1>7, <1>8, <1>9 DEF LifeInv, CallsInv, LifecycleInit

\* With any number of threads, envelopes, crashes and failed saves, every call finds an
\* envelope for its ack, and a clean buffer has all its messages in the file.
THEOREM CallsAreSound == LifecycleSpec => [](LifecycleTypeOK /\ CleanMeansRecorded)
<1>1. LifecycleInit => LifeInv
  BY InitLife
<1>2. LifeInv /\ [LifecycleNext]_vars => LifeInv'
  BY LifecycleStep
<1>3. LifeInv => LifecycleTypeOK /\ CleanMeansRecorded
  BY DEF LifeInv, StoreInv, CallsInv, Totals, LifecycleTypeOK
<1> QED BY <1>1, <1>2, <1>3, PTL DEF LifecycleSpec

\* A peer sees RECEIVED, READ and one verdict for a delivery, in that order, whatever
\* sends fail, whatever the other threads do and wherever the buffer fills up.
THEOREM AcksInOrder == LifecycleSpec => []AcksGoForward
<1>1. LifecycleInit => LifeInv /\ AckOrder
  BY InitLife
<1>2. LifeInv /\ AckOrder /\ [LifecycleNext]_vars => (LifeInv /\ AckOrder)'
  BY LifecycleStep
<1>3. AckOrder => AcksGoForward
  BY DEF AckOrder
<1> QED BY <1>1, <1>2, <1>3, PTL DEF LifecycleSpec

\* Over every backend, with failed saves and crashes: a message whose send returned
\* success is missing from the saved log only if that call's own save was swallowed, or a
\* start has found the log full. No other thread, call or crash takes it out.
THEOREM SentIsSaved == LifecycleSpec => []OnlyASwallowedSaveLoses
<1>1. LifecycleInit => LifeInv /\ OnlyASwallowedSaveLoses
  BY InitLife DEF LifecycleInit, OnlyASwallowedSaveLoses
<1>2. LifeInv /\ [LifecycleNext]_vars => LifeInv'
  BY LifecycleStep
<1>3. LifeInv /\ OnlyASwallowedSaveLoses /\ [LifecycleNext]_vars => OnlyASwallowedSaveLoses'
  <2> SUFFICES ASSUME LifeInv, OnlyASwallowedSaveLoses, [LifecycleNext]_vars
               PROVE  OnlyASwallowedSaveLoses'
    OBVIOUS
  <2>b. ASSUME UNCHANGED <<returned, swallowed, discarded>>,
               Known(disk') = Known(mem) \/ Known(disk') = Known(disk)
        PROVE  OnlyASwallowedSaveLoses'
    BY <2>b DEF OnlyASwallowedSaveLoses, LifeInv, StoreInv
  <2>1. ASSUME NEW t \in Threads, NEW s \in Outcomes, RouterAnswers(t, s)
        PROVE  OnlyASwallowedSaveLoses'
    <3>1. /\ job[t].at = "rpc" /\ Persist(Stamped(mem, job[t].env, s)) /\ UNCHANGED discarded
          /\ returned' \subseteq returned \cup ({job[t].env} \cap Outgoing)
          /\ swallowed' = IF mem'.dirty = "no" THEN swallowed \ {job[t].env}
                          ELSE swallowed \cup ({job[t].env} \cap Outgoing)
      BY <2>1 DEF RouterAnswers
    <3>2. job[t].env \in Known(mem) /\ job[t].env \in Messages
      BY <3>1 DEF LifeInv, InFlight, Known
    <3>3. /\ StoreInv' /\ Known(mem') = Known(mem)
          /\ Known(disk') = Known(mem) \/ Known(disk') = Known(disk)
      BY <3>1, <3>2, StampStore, MessageTypes DEF LifeInv, Totals
    <3>4. CASE mem'.dirty = "no"
      <4>1. Known(disk') = Known(mem) \/ discarded'
        BY <3>3, <3>4 DEF StoreInv, CleanMeansRecorded, Known
      <4>2. returned \ swallowed \subseteq Known(mem) \/ discarded
        BY DEF OnlyASwallowedSaveLoses, LifeInv, StoreInv
      <4>3. returned \subseteq Known(mem) \cup swallowed \/ discarded
        BY <4>2
      <4>4. CASE discarded
        BY <3>1, <4>4 DEF OnlyASwallowedSaveLoses
      <4>5. CASE ~discarded
        BY <3>1, <3>2, <3>4, <4>1, <4>3, <4>5 DEF OnlyASwallowedSaveLoses, Known
      <4> QED BY <4>4, <4>5
    <3>5. CASE mem'.dirty # "no"
      <4>1. Known(disk) \subseteq Known(disk') \/ discarded
        BY <3>3 DEF LifeInv, StoreInv
      <4> QED BY <3>1, <3>5, <4>1 DEF OnlyASwallowedSaveLoses, Known
    <3> QED BY <3>4, <3>5
  <2>2. ASSUME NEW t \in Threads, NEW m \in Outgoing, NEW s \in AckStages,
               IncomingAck(t, m, s) \/ DeliverAck(t, m, s)
        PROVE  OnlyASwallowedSaveLoses'
    <3>1. /\ UNCHANGED <<returned, swallowed, discarded>>
          /\ IF m \in Known(mem) THEN Persist(Acked(mem, m, s))
             ELSE UNCHANGED <<mem, disk, now, faults>>
      BY <2>2 DEF IncomingAck, DeliverAck, history
    <3>2. Known(disk') = Known(mem) \/ Known(disk') = Known(disk)
      BY <3>1, AckStore, MessageTypes DEF LifeInv, Totals
    <3> QED BY <2>b, <3>1, <3>2
  <2>3. ASSUME NEW t \in Threads, RecordRefused(t)
        PROVE  OnlyASwallowedSaveLoses'
    <3>1. /\ job[t].at = "record" /\ UNCHANGED <<returned, swallowed, discarded>>
          /\ IF job[t].env \in Known(mem) THEN Persist(Stamped(mem, job[t].env, "failed"))
             ELSE UNCHANGED <<mem, disk, now, faults>>
      BY <2>3 DEF RecordRefused, history
    <3>2. job[t].env \in Messages
      BY <3>1, MessageTypes DEF LifeInv, CallsInv, JobsInv, JobOK
    <3>3. Known(disk') = Known(mem) \/ Known(disk') = Known(disk)
      BY <3>1, <3>2, StampStore, MessageTypes DEF LifeInv, Totals, Known
    <3> QED BY <2>b, <3>1, <3>3
  <2>4. CASE Crash
    BY <2>4 DEF Crash, OnlyASwallowedSaveLoses, Known
  <2>c. ASSUME UNCHANGED <<disk, returned, swallowed, discarded>> PROVE OnlyASwallowedSaveLoses'
    BY <2>b, <2>c DEF Known
  <2>5. ASSUME NEW t \in Threads,
               \/ \E m \in Outgoing : StartSend(t, m)
               \/ \E m \in Incoming \cup IncomingAcks : StartProcess(t, m)
               \/ RecordOutgoing(t) \/ \E v \in Verdicts : Handle(t, v)
        PROVE  OnlyASwallowedSaveLoses'
    BY <2>5, <2>c DEF StartSend, StartProcess, RecordOutgoing, Handle, bufferVars, history
  <2>6. CASE UNCHANGED vars \/ (Tick /\ UNCHANGED <<job, usedAcks, history, crashes, faults>>)
    BY <2>6, <2>c DEF vars, bufferVars, history, Tick
  <2> QED BY <2>1, <2>2, <2>3, <2>4, <2>5, <2>6 DEF LifecycleNext, Step
<1> QED BY <1>1, <1>2, <1>3, PTL DEF LifecycleSpec
===============================================================================
