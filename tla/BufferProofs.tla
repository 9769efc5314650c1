----------------------------- MODULE BufferProofs -----------------------------
(***************************************************************************)
(* The activity buffer under any caller: what its methods make of it, and  *)
(* what every sequence of calls, failed saves and restarts leaves true.    *)
(***************************************************************************)
EXTENDS ActivityBuffer, FiniteSetTheorems, WellFoundedInduction, TLAPS

\* A set of numbers has a least element.
LEMMA LeastExists ==
  ASSUME NEW S, S \subseteq Nat, S # {}
  PROVE  \E x \in S : \A y \in S : x <= y
<1> DEFINE Below(x) == {y \in S : y < x}
<1>1. PICK F : F = {Below(x) : x \in S}
  OBVIOUS
<1>2. F \subseteq FiniteSubsetsOf(S) /\ F # {}
  <2>1. \A x \in S : IsFiniteSet(Below(x))
    <3> SUFFICES ASSUME NEW x \in S PROVE IsFiniteSet(Below(x))
      OBVIOUS
    <3>1. Below(x) \in SUBSET Nat /\ x \in Nat /\ \A y \in Below(x) : y <= x
      <4>1. x \in Nat /\ Below(x) \subseteq S
        OBVIOUS
      <4>2. \A y \in Below(x) : y \in Nat /\ y < x
        OBVIOUS
      <4> HIDE DEF Below
      <4>3. \A y \in Below(x) : y <= x
        BY <4>1, <4>2
      <4> QED BY <4>1, <4>2, <4>3
    <3> HIDE DEF Below
    <3> QED BY <3>1, FS_BoundedSetOfNaturals
  <2> QED BY <1>1, <2>1 DEF FiniteSubsetsOf
<1>3. PICK T \in F : \A U \in F : ~ (<<U, T>> \in StrictSubsetOrdering(S))
  BY <1>2, WFMin, FS_StrictSubsetOrderingWellFounded
<1>4. PICK x \in S : T = Below(x)
  BY <1>1
<1>5. ASSUME NEW y \in S, y < x PROVE FALSE
  <2>1. Below(y) \in F /\ Below(y) \subseteq Below(x) /\ Below(y) # Below(x)
    <3>1. Below(y) \in F
      BY <1>1
    <3>2. \A z \in S : z < y => z < x
      BY <1>5
    <3>3. y \in Below(x) /\ y \notin Below(y)
      BY <1>5
    <3> QED BY <3>1, <3>2, <3>3
  <2> QED BY <1>3, <1>4, <2>1 DEF StrictSubsetOrdering
<1> QED BY <1>5

\* A bounded set of numbers has a greatest element.
LEMMA GreatestExists ==
  ASSUME NEW S, S \subseteq Nat, S # {}, NEW n \in Nat, \A x \in S : x <= n
  PROVE  \E x \in S : \A y \in S : y <= x
<1> DEFINE U == {n - x : x \in S}
<1>1. U \subseteq Nat /\ U # {}
  <2>1. \A x \in S : x \in Nat /\ x <= n => n - x \in Nat
    OBVIOUS
  <2> QED BY <2>1
<1>2. \A x \in S : n - x \in U
  OBVIOUS
<1>3. \A u \in U : \E x \in S : u = n - x
  OBVIOUS
<1> HIDE DEF U
<1>4. PICK u \in U : \A y \in U : u <= y
  BY <1>1, LeastExists
<1> QED BY <1>2, <1>3, <1>4
-------------------------------------------------------------------------------
(* The operators of ActivityBuffer *)

\* Every record is listed in _order, and every element of _order has a record.
OrderHolds(b) ==
  /\ \A m \in Known(b) : \E i \in DOMAIN b.order : b.order[i] = m
  /\ \A i \in DOMAIN b.order : b.order[i] \in Known(b)

\* IndexIsSound of a buffer that need not be the current one.
IndexSound(b) ==
  \A t \in Tokens : b.tokens[t] # NoMessage =>
    b.tokens[t] \in Known(b) /\ TokenOf[b.tokens[t]] = t

\* The fields of buffers and images.
LEMMA BufferFields ==
  ASSUME NEW b
  PROVE  /\ b \in Buffers => /\ b.byId \in [Messages -> Records \cup {NoRecord}]
                             /\ b.order \in Seq(Messages)
                             /\ b.tokens \in [Tokens -> Messages \cup {NoMessage}]
                             /\ b.dirty \in {"yes", "no"}
         /\ b \in Disks => /\ b.byId \in [Messages -> Records \cup {NoRecord}]
                           /\ b.order \in Seq(Messages)
BY DEF Buffers, Disks

\* An empty buffer knows nothing.
LEMMA EmptyFacts ==
  /\ EmptyBuffer \in Buffers /\ EmptyDisk \in Disks
  /\ Known(EmptyBuffer) = {} /\ Known(EmptyDisk) = {}
  /\ OrderHolds(EmptyBuffer) /\ OrderHolds(EmptyDisk) /\ IndexSound(EmptyBuffer)
  /\ EmptyBuffer.dirty = "no" /\ EmptyBuffer.order = <<>> /\ EmptyDisk.order = <<>>
BY DEF EmptyBuffer, EmptyDisk, NoRecords, Buffers, Disks, Known, OrderHolds, IndexSound

\* A message in a list has a first place there.
LEMMA PlaceExists ==
  ASSUME NEW o \in Seq(Messages), NEW m, \E i \in DOMAIN o : o[i] = m
  PROVE  /\ PlaceOf(o, m) \in DOMAIN o /\ o[PlaceOf(o, m)] = m
         /\ \A j \in DOMAIN o : o[j] = m => PlaceOf(o, m) <= j
<1> DEFINE S == {i \in DOMAIN o : o[i] = m}
<1>1. S \in SUBSET Nat /\ S # {}
  OBVIOUS
<1>2. \A i : i \in S <=> i \in DOMAIN o /\ o[i] = m
  OBVIOUS
<1> HIDE DEF S
<1>3. PICK i \in S : \A j \in S : i <= j
  BY <1>1, LeastExists
<1> QED BY <1>2, <1>3 DEF PlaceOf

\* The rebuilt index gives a token the last of its carriers, if there is one.
LEMMA LastFacts ==
  ASSUME NEW d, d.order \in Seq(Messages), OrderHolds(d), NEW t,
         NEW m \in Known(d), TokenOf[m] = t
  PROVE  /\ LastWithToken(d, t) \in Known(d) /\ TokenOf[LastWithToken(d, t)] = t
         /\ PlaceOf(d.order, m) <= PlaceOf(d.order, LastWithToken(d, t))
<1> DEFINE C == {n \in Known(d) : TokenOf[n] = t}
           P == {PlaceOf(d.order, n) : n \in C}
<1>1. \A n \in C : PlaceOf(d.order, n) \in DOMAIN d.order
  BY PlaceExists DEF OrderHolds
<1>2. PICK k \in Nat : k = Len(d.order)
  OBVIOUS
<1>3. P \in SUBSET Nat /\ P # {} /\ \A p \in P : p <= k
  BY <1>1, <1>2
<1>4. \A p \in P : \E n \in C : p = PlaceOf(d.order, n)
  OBVIOUS
<1>5. \A n \in C : PlaceOf(d.order, n) \in P
  OBVIOUS
<1>6. m \in C /\ C # {} /\ \A n : n \in C <=> n \in Known(d) /\ TokenOf[n] = t
  OBVIOUS
<1>7. LastWithToken(d, t) = CHOOSE n \in C :
                              \A l \in C : PlaceOf(d.order, l) <= PlaceOf(d.order, n)
  BY <1>6 DEF LastWithToken
<1> HIDE DEF C, P
<1>8. PICK p \in P : \A r \in P : r <= p
  BY <1>3, GreatestExists
<1>9. \E n \in C : \A l \in C : PlaceOf(d.order, l) <= PlaceOf(d.order, n)
  BY <1>4, <1>5, <1>8
<1> QED BY <1>6, <1>7, <1>9

\* A token without a carrier is not in the rebuilt index.
LEMMA NoneWithToken ==
  ASSUME NEW d, NEW t, \A m \in Known(d) : TokenOf[m] # t
  PROVE  LastWithToken(d, t) = NoMessage
BY DEF LastWithToken

\* _cleanup_expired_dedup_entries only drops entries of the index.
LEMMA CleanedFacts ==
  ASSUME NEW b \in Buffers
  PROVE  /\ Cleaned(b) \in Buffers /\ Cleaned(b).byId = b.byId /\ Cleaned(b).order = b.order
         /\ \A t \in Tokens :
              Cleaned(b).tokens[t] = IF Expired(b, b.tokens[t]) THEN NoMessage ELSE b.tokens[t]
         /\ b.dirty = "yes" => Cleaned(b).dirty = "yes"
         /\ Cleaned(b).dirty = "no" => b.dirty = "no" /\ Cleaned(b) = b
         /\ Known(Cleaned(b)) = Known(b)
         /\ OrderHolds(b) => OrderHolds(Cleaned(b))
         /\ IndexSound(b) => IndexSound(Cleaned(b))
<1> DEFINE gone == {t \in Tokens : Expired(b, b.tokens[t])}
           C == [b EXCEPT !.tokens = [t \in Tokens |-> IF t \in gone THEN NoMessage ELSE @[t]],
                          !.dirty  = IF gone = {} THEN @ ELSE "yes"]
<1>1. Cleaned(b) = C
  BY DEF Cleaned
<1>2. C \in Buffers
  BY DEF Buffers
<1>3. /\ C.byId = b.byId /\ C.order = b.order
      /\ C.dirty = IF gone = {} THEN b.dirty ELSE "yes"
      /\ \A t \in Tokens : C.tokens[t] = IF t \in gone THEN NoMessage ELSE b.tokens[t]
  BY DEF Buffers
<1>4. Known(C) = Known(b)
  BY <1>3 DEF Known
<1>5. C.dirty = "no" => b.dirty = "no" /\ C = b
  <2> SUFFICES ASSUME C.dirty = "no" PROVE b.dirty = "no" /\ C = b
    OBVIOUS
  <2>1. gone = {} /\ b.dirty = "no"
    BY <1>3
  <2>2. C.tokens = b.tokens
    BY <1>2, <1>3, <2>1 DEF Buffers
  <2> QED BY <1>2, <1>3, <2>1, <2>2 DEF Buffers
<1> HIDE DEF C
<1>6. OrderHolds(b) => OrderHolds(C)
  BY <1>3, <1>4 DEF OrderHolds
<1>7. IndexSound(b) => IndexSound(C)
  BY <1>3, <1>4 DEF IndexSound
<1> QED BY <1>1, <1>2, <1>3, <1>4, <1>5, <1>6, <1>7

\* record_incoming and record_outgoing add the message and give it its token.
LEMMA RecordedFacts ==
  ASSUME NEW b \in Buffers, NEW m \in Messages, now \in 0..MaxTime
  PROVE  /\ Recorded(b, m) \in Buffers
         /\ Known(Recorded(b, m)) = Known(b) \cup {m}
         /\ Recorded(b, m).byId = [b.byId EXCEPT ![m] = [direction |-> DirectionOf(m),
                                          ts |-> now, stage |-> "unspecified"]]
         /\ Recorded(b, m).order = Append(b.order, m)
         /\ \A t \in Tokens : \/ Recorded(b, m).tokens[t] = NoMessage
                              \/ Recorded(b, m).tokens[t] = IF t = TokenOf[m] THEN m ELSE b.tokens[t]
         /\ Recorded(b, m).dirty = "yes"
         /\ OrderHolds(b) => OrderHolds(Recorded(b, m))
         /\ IndexSound(b) => IndexSound(Recorded(b, m))
<1> DEFINE rec == [direction |-> DirectionOf(m), ts |-> now, stage |-> "unspecified"]
           B == [byId |-> [b.byId EXCEPT ![m] = rec], order |-> Append(b.order, m),
                 tokens |-> [t \in Tokens |-> IF t = TokenOf[m] THEN m ELSE b.tokens[t]],
                 dirty |-> "yes"]
<1>1. Recorded(b, m) = Cleaned(B)
  BY DEF Recorded, Timestamp
<1>2. rec \in Records /\ rec # NoRecord
  BY NoRecordAssumption DEF Records, DirectionOf, Stages, Unacked
<1> HIDE DEF rec
<1>3. B \in Buffers
  BY <1>2, BufferFields DEF Buffers
<1>4. /\ B.byId = [b.byId EXCEPT ![m] = rec] /\ B.order = Append(b.order, m) /\ B.dirty = "yes"
      /\ \A t \in Tokens : B.tokens[t] = IF t = TokenOf[m] THEN m ELSE b.tokens[t]
  OBVIOUS
<1> HIDE DEF B
<1>5. Known(B) = Known(b) \cup {m}
  BY <1>2, <1>4, BufferFields DEF Known
<1>6. OrderHolds(b) => OrderHolds(B)
  <2> SUFFICES ASSUME OrderHolds(b) PROVE OrderHolds(B)
    OBVIOUS
  <2>0. b.order \in Seq(Messages)
    BY BufferFields
  <2>1. /\ DOMAIN B.order = DOMAIN b.order \cup {Len(b.order) + 1}
        /\ \A i \in DOMAIN b.order : B.order[i] = b.order[i]
        /\ B.order[Len(b.order) + 1] = m
    BY <1>4, <2>0
  <2> QED BY <1>5, <2>1 DEF OrderHolds
<1>7. IndexSound(b) => IndexSound(B)
  BY <1>4, <1>5 DEF IndexSound
<1>8. /\ Cleaned(B) \in Buffers /\ Cleaned(B).byId = B.byId /\ Cleaned(B).order = B.order
      /\ \A t \in Tokens : Cleaned(B).tokens[t] \in {NoMessage, B.tokens[t]}
      /\ Cleaned(B).dirty = "yes" /\ Known(Cleaned(B)) = Known(B)
      /\ OrderHolds(B) => OrderHolds(Cleaned(B))
      /\ IndexSound(B) => IndexSound(Cleaned(B))
  BY <1>3, <1>4, CleanedFacts
<1>9. \A t \in Tokens : \/ Cleaned(B).tokens[t] = NoMessage
                        \/ Cleaned(B).tokens[t] = IF t = TokenOf[m] THEN m ELSE b.tokens[t]
  BY <1>4, <1>8
<1> QED BY <1>1, <1>4, <1>5, <1>6, <1>7, <1>8, <1>9 DEF rec

\* A stamp changes the stage of one record and nothing else.
LEMMA StampedFacts ==
  ASSUME NEW b \in Buffers, NEW m \in Messages, NEW s \in Stages
  PROVE  /\ Stamped(b, m, s) \in Buffers /\ Known(Stamped(b, m, s)) = Known(b)
         /\ Stamped(b, m, s).order = b.order /\ Stamped(b, m, s).tokens = b.tokens
         /\ Stamped(b, m, s).dirty = b.dirty
         /\ \A n \in Known(b) : Stamped(b, m, s).byId[n].ts = b.byId[n].ts
         /\ OrderHolds(b) => OrderHolds(Stamped(b, m, s))
         /\ IndexSound(b) => IndexSound(Stamped(b, m, s))
<1>1. CASE m \notin Known(b)
  BY <1>1 DEF Stamped
<1>2. CASE m \in Known(b)
  <2>1. PICK r \in Records : b.byId[m] = r
    BY <1>2, BufferFields DEF Known
  <2> DEFINE B == [b EXCEPT !.byId[m].stage = s]
             q == [r EXCEPT !.stage = s]
  <2>2. Stamped(b, m, s) = B
    BY <1>2 DEF Stamped
  <2>3. q \in Records /\ q.ts = r.ts /\ q # NoRecord
    BY NoRecordAssumption DEF Records
  <2>4. B = [b EXCEPT !.byId = [b.byId EXCEPT ![m] = q]]
    BY <2>1 DEF Buffers
  <2> HIDE DEF q
  <2>5. B \in Buffers
    BY <2>3, <2>4 DEF Buffers
  <2>6. /\ B.byId = [b.byId EXCEPT ![m] = q] /\ B.order = b.order /\ B.tokens = b.tokens
        /\ B.dirty = b.dirty
    BY <2>4 DEF Buffers
  <2> HIDE DEF B
  <2>7. Known(B) = Known(b)
    BY <1>2, <2>3, <2>6, BufferFields DEF Known
  <2>8. \A n \in Known(b) : B.byId[n].ts = b.byId[n].ts
    BY <2>1, <2>3, <2>6, BufferFields DEF Known
  <2>9. (OrderHolds(b) => OrderHolds(B)) /\ (IndexSound(b) => IndexSound(B))
    BY <2>6, <2>7 DEF OrderHolds, IndexSound
  <2> QED BY <2>2, <2>5, <2>6, <2>7, <2>8, <2>9
<1> QED BY <1>1, <1>2

\* A buffer that says it has something to save.
LEMMA DirtiedFacts ==
  ASSUME NEW b \in Buffers
  PROVE  LET B == [b EXCEPT !.dirty = "yes"]
         IN  /\ B \in Buffers /\ B.byId = b.byId /\ B.order = b.order /\ B.tokens = b.tokens
             /\ B.dirty = "yes" /\ Known(B) = Known(b)
             /\ OrderHolds(b) => OrderHolds(B)
             /\ IndexSound(b) => IndexSound(B)
BY DEF Buffers, Known, OrderHolds, IndexSound

\* ack() stamps the record and says so.
LEMMA AckedFacts ==
  ASSUME NEW b \in Buffers, NEW m \in Messages, NEW s \in Stages
  PROVE  /\ Acked(b, m, s) \in Buffers /\ Known(Acked(b, m, s)) = Known(b)
         /\ Acked(b, m, s).order = b.order /\ Acked(b, m, s).tokens = b.tokens
         /\ m \in Known(b) => Acked(b, m, s).dirty = "yes"
         /\ m \notin Known(b) => Acked(b, m, s) = b
         /\ \A n \in Known(b) : Acked(b, m, s).byId[n].ts = b.byId[n].ts
         /\ OrderHolds(b) => OrderHolds(Acked(b, m, s))
         /\ IndexSound(b) => IndexSound(Acked(b, m, s))
<1>1. CASE m \notin Known(b)
  BY <1>1 DEF Acked
<1>2. CASE m \in Known(b)
  <2>1. PICK B : B = Stamped(b, m, s)
    OBVIOUS
  <2>2. Acked(b, m, s) = [B EXCEPT !.dirty = "yes"]
    BY <1>2, <2>1 DEF Acked
  <2> QED BY <1>2, <2>1, <2>2, StampedFacts, DirtiedFacts
<1> QED BY <1>1, <1>2

\* A save copies records and order to the backend, or leaves both sides alone.
LEMMA FlushedFacts ==
  ASSUME NEW b \in Buffers, disk \in Disks
  PROVE  /\ Flushed(b) \in Buffers /\ DiskAfter(b) \in Disks
         /\ Flushed(b).byId = b.byId /\ Flushed(b).order = b.order /\ Flushed(b).tokens = b.tokens
         /\ Known(Flushed(b)) = Known(b)
         /\ OrderHolds(b) => OrderHolds(Flushed(b))
         /\ IndexSound(b) => IndexSound(Flushed(b))
         /\ Saves(b) => /\ DiskAfter(b) = Image(b) /\ Known(DiskAfter(b)) = Known(b)
                        /\ DiskAfter(b).order = b.order
                        /\ OrderHolds(b) => OrderHolds(DiskAfter(b))
         /\ ~Saves(b) => DiskAfter(b) = disk /\ Flushed(b) = b
<1>1. CASE ~Saves(b)
  BY <1>1 DEF Flushed, DiskAfter
<1>2. CASE Saves(b)
  <2>1. Flushed(b) = [b EXCEPT !.dirty = "no"] /\ DiskAfter(b) = Image(b)
    BY <1>2 DEF Flushed, DiskAfter
  <2>2. PICK F : F = [b EXCEPT !.dirty = "no"]
    OBVIOUS
  <2>3. F \in Buffers /\ F.byId = b.byId /\ F.order = b.order /\ F.tokens = b.tokens
    BY <2>2 DEF Buffers
  <2>4. /\ Known(F) = Known(b) /\ (OrderHolds(b) => OrderHolds(F))
        /\ (IndexSound(b) => IndexSound(F))
    BY <2>3 DEF Known, OrderHolds, IndexSound
  <2>5. PICK D : D = Image(b)
    OBVIOUS
  <2>6. D \in Disks /\ D.byId = b.byId /\ D.order = b.order
    BY <2>5, BufferFields DEF Image, Disks
  <2>7. Known(D) = Known(b) /\ (OrderHolds(b) => OrderHolds(D))
    BY <2>6 DEF Known, OrderHolds
  <2> QED BY <1>2, <2>1, <2>2, <2>3, <2>4, <2>5, <2>6, <2>7
<1> QED BY <1>1, <1>2

\* A restart finds the saved records and rebuilds the index, unless the log is full.
LEMMA LoadedFacts ==
  ASSUME NEW d \in Disks, OrderHolds(d)
  PROVE  /\ Loaded(d) \in Buffers /\ Loaded(d).dirty = "no"
         /\ OrderHolds(Loaded(d)) /\ IndexSound(Loaded(d))
         /\ IsFull(d) => Loaded(d) = EmptyBuffer
         /\ ~IsFull(d) => /\ Image(Loaded(d)) = d /\ Known(Loaded(d)) = Known(d)
                          /\ Loaded(d).byId = d.byId /\ Loaded(d).order = d.order
                          /\ \A t \in Tokens : Loaded(d).tokens[t] = LastWithToken(d, t)
<1>1. CASE IsFull(d)
  BY <1>1, EmptyFacts DEF Loaded
<1>2. CASE ~IsFull(d)
  <2> DEFINE L == [byId |-> d.byId, order |-> d.order, dirty |-> "no",
                   tokens |-> [t \in Tokens |-> LastWithToken(d, t)]]
  <2>1. Loaded(d) = L
    BY <1>2 DEF Loaded
  <2>2. \A t \in Tokens : \/ LastWithToken(d, t) = NoMessage
                          \/ /\ LastWithToken(d, t) \in Known(d)
                             /\ TokenOf[LastWithToken(d, t)] = t
    BY BufferFields, LastFacts, NoneWithToken
  <2>3. L.tokens \in [Tokens -> Messages \cup {NoMessage}]
    BY <2>2 DEF Known
  <2>4. L \in Buffers
    BY <2>3, BufferFields DEF Buffers
  <2>5. /\ L.byId = d.byId /\ L.order = d.order /\ L.dirty = "no"
        /\ \A t \in Tokens : L.tokens[t] = LastWithToken(d, t)
    OBVIOUS
  <2>6. Image(L) = d
    BY DEF Image, Disks
  <2> HIDE DEF L
  <2>7. Known(L) = Known(d)
    BY <2>5 DEF Known
  <2>8. OrderHolds(L)
    BY <2>5, <2>7 DEF OrderHolds
  <2>9. IndexSound(L)
    BY <2>2, <2>5, <2>7 DEF IndexSound
  <2> QED BY <1>2, <2>1, <2>4, <2>5, <2>6, <2>7, <2>8, <2>9
<1> QED BY <1>1, <1>2
-------------------------------------------------------------------------------
(* The buffer under any single-threaded caller *)

\* What the buffer and its file are between two calls.
BufferInv ==
  /\ BufferTypeOK /\ OrderHolds(mem) /\ OrderHolds(disk)
  /\ CapacityHeld /\ IndexSound(mem) /\ CleanMeansSaved

\* A saved message is in the buffer as well, unless the log is full.
DiskInMemory == IsFull(disk) \/ Known(disk) \subseteq Known(mem)

\* No set of messages is infinite, so that of the messages a buffer knows is not.
LEMMA KnownIsFinite ==
  ASSUME NEW b
  PROVE  IsFiniteSet(Known(b)) /\ Cardinality(Known(b)) \in Nat
<1>1. Known(b) \subseteq Messages
  BY DEF Known
<1> QED BY <1>1, BufferAssumption, FS_Subset, FS_CardinalityType

\* One more record than the buffer of _check_capacity held is no more than max_items.
LEMMA RoomForOne ==
  ASSUME NEW b, ~IsFull(b), NEW m
  PROVE  Cardinality(Known(b) \cup {m}) <= MaxItems
<1>1. \/ Cardinality(Known(b) \cup {m}) = Cardinality(Known(b))
      \/ Cardinality(Known(b) \cup {m}) = Cardinality(Known(b)) + 1
  BY KnownIsFinite, FS_AddElement
<1> QED BY <1>1, KnownIsFinite, BufferAssumption DEF IsFull

\* The empty buffer over an empty file.
LEMMA InitBufferInv == BufferInit => BufferInv /\ DiskInMemory
<1> SUFFICES ASSUME BufferInit PROVE BufferInv /\ DiskInMemory
  OBVIOUS
<1>1. mem = EmptyBuffer /\ disk = EmptyDisk /\ now = 0
  BY DEF BufferInit
<1>2. BufferTypeOK /\ OrderHolds(mem) /\ OrderHolds(disk) /\ IndexSound(mem)
  BY <1>1, EmptyFacts, BufferAssumption DEF BufferTypeOK
<1>3. CapacityHeld /\ DiskInMemory
  BY <1>1, EmptyFacts, FS_EmptySet, BufferAssumption DEF CapacityHeld, DiskInMemory
<1>4. CleanMeansSaved
  BY <1>1 DEF CleanMeansSaved, EmptyBuffer, EmptyDisk, Image
<1> QED BY <1>2, <1>3, <1>4 DEF BufferInv

\* Calls that change the buffer object only and leave it with something to save.
LEMMA DirtyStep ==
  ASSUME BufferInv, UNCHANGED <<disk, now>>, mem' \in Buffers, OrderHolds(mem'),
         IndexSound(mem'), mem'.dirty = "yes", Known(mem) \subseteq Known(mem'),
         Cardinality(Known(mem')) <= MaxItems
  PROVE  BufferInv' /\ (DiskInMemory => DiskInMemory')
<1>1. OrderHolds(disk)' /\ OrderHolds(mem)' /\ IndexSound(mem)'
  BY DEF BufferInv, OrderHolds, IndexSound, Known
<1>2. BufferTypeOK' /\ CapacityHeld' /\ CleanMeansSaved'
  BY DEF BufferInv, BufferTypeOK, CapacityHeld, CleanMeansSaved, Known
<1> QED BY <1>1, <1>2 DEF BufferInv, DiskInMemory, IsFull, Known

\* Every call of the buffer, a restart and the clock keep the invariant.
LEMMA BufferStep ==
  BufferInv /\ [BufferNext]_bufferVars => BufferInv' /\ (DiskInMemory => DiskInMemory')
<1> SUFFICES ASSUME BufferInv, [BufferNext]_bufferVars
             PROVE  BufferInv' /\ (DiskInMemory => DiskInMemory')
  OBVIOUS
<1>0. /\ mem \in Buffers /\ disk \in Disks /\ now \in 0..MaxTime
      /\ OrderHolds(mem) /\ OrderHolds(disk) /\ IndexSound(mem)
      /\ Cardinality(Known(mem)) <= MaxItems
      /\ mem.dirty = "no" => disk = Image(mem) \/ IsFull(disk)
  BY DEF BufferInv, BufferTypeOK, CapacityHeld, CleanMeansSaved
<1>a. ASSUME UNCHANGED <<mem, disk>>, now' \in 0..MaxTime
      PROVE  BufferInv' /\ (DiskInMemory => DiskInMemory')
  BY <1>0, <1>a DEF BufferInv, BufferTypeOK, OrderHolds, IndexSound, CapacityHeld, Known,
                    CleanMeansSaved, DiskInMemory, IsFull, Image
<1>1. CASE \E m \in Messages : RecordMessage(m)
  <2> PICK m \in Messages : RecordMessage(m)
    BY <1>1
  <2>1. ~IsFull(mem) /\ mem' = Recorded(mem, m) /\ UNCHANGED <<disk, now>>
    BY DEF RecordMessage
  <2>2. Cardinality(Known(mem) \cup {m}) <= MaxItems
    BY <2>1, RoomForOne
  <2>3. PICK b : b = Recorded(mem, m)
    OBVIOUS
  <2>4. b \in Buffers /\ OrderHolds(b) /\ IndexSound(b) /\ b.dirty = "yes"
        /\ Known(b) = Known(mem) \cup {m}
    BY <1>0, <2>3, RecordedFacts
  <2> QED BY <2>1, <2>2, <2>3, <2>4, DirtyStep
<1>2. CASE \E m \in Ackable, s \in {"fulfilled"} : Ack(m, s)
  <2> PICK m \in Messages : Ack(m, "fulfilled")
    BY <1>2, BufferAssumption
  <2>1. "fulfilled" \in Stages
    BY DEF Stages
  <2>2. PICK b : b = Acked(mem, m, "fulfilled")
    OBVIOUS
  <2>3. mem' = b /\ UNCHANGED <<disk, now>>
    BY <2>2 DEF Ack
  <2>4. /\ b \in Buffers /\ OrderHolds(b) /\ IndexSound(b) /\ Known(b) = Known(mem)
        /\ m \in Known(mem) => b.dirty = "yes"
        /\ m \notin Known(mem) => b = mem
    BY <1>0, <2>1, <2>2, AckedFacts
  <2> QED BY <1>0, <1>a, <2>3, <2>4, DirtyStep
<1>3. CASE \E m \in Messages : UpdateState(m)
  <2>1. PICK b : b = [mem EXCEPT !.dirty = "yes"]
    OBVIOUS
  <2>2. mem' = b /\ UNCHANGED <<disk, now>>
    BY <1>3, <2>1 DEF UpdateState
  <2>3. /\ b \in Buffers /\ OrderHolds(b) /\ IndexSound(b) /\ Known(b) = Known(mem)
        /\ b.dirty = "yes"
    BY <1>0, <2>1, DirtiedFacts
  <2> QED BY <1>0, <2>2, <2>3, DirtyStep
<1>4. CASE Lookup
  <2>1. PICK b : b = Cleaned(mem)
    OBVIOUS
  <2>2. mem' = b /\ UNCHANGED <<disk, now>>
    BY <1>4, <2>1 DEF Lookup
  <2>3. /\ b \in Buffers /\ OrderHolds(b) /\ IndexSound(b) /\ Known(b) = Known(mem)
        /\ b.dirty = "no" => b = mem
    BY <1>0, <2>1, CleanedFacts
  <2>4. b = mem \/ b.dirty = "yes"
    BY <2>3 DEF Buffers
  <2> QED BY <1>0, <1>a, <2>2, <2>3, <2>4, DirtyStep
<1>5. CASE Flush
  <2>1. PICK b : b = Flushed(mem)
    OBVIOUS
  <2>2. PICK d : d = DiskAfter(mem)
    OBVIOUS
  <2>3. mem' = b /\ disk' = d /\ UNCHANGED now
    BY <1>5, <2>1, <2>2 DEF Flush
  <2>4. CASE ~Saves(mem)
    BY <1>0, <1>a, <2>1, <2>2, <2>3, <2>4, FlushedFacts
  <2>5. CASE Saves(mem)
    <3>1. /\ b \in Buffers /\ OrderHolds(b) /\ IndexSound(b) /\ Known(b) = Known(mem)
          /\ d \in Disks /\ OrderHolds(d) /\ d = Image(mem) /\ Known(d) = Known(mem)
          /\ b.byId = mem.byId /\ b.order = mem.order
      BY <1>0, <2>1, <2>2, <2>5, FlushedFacts
    <3>2. d = Image(b)
      BY <3>1 DEF Image
    <3> QED BY <1>0, <2>3, <3>1, <3>2
            DEF BufferInv, BufferTypeOK, OrderHolds, IndexSound, CapacityHeld, Known,
                CleanMeansSaved, DiskInMemory, Image
  <2> QED BY <2>4, <2>5
<1>6. CASE Clear
  <2>1. (mem = EmptyBuffer /\ disk = EmptyDisk)' /\ UNCHANGED now
    BY <1>6 DEF Clear, EmptyBuffer, EmptyDisk, NoRecords
  <2>2. (BufferTypeOK /\ OrderHolds(mem) /\ OrderHolds(disk) /\ IndexSound(mem))'
    BY <1>0, <2>1, EmptyFacts DEF BufferTypeOK
  <2>3. (CapacityHeld /\ DiskInMemory)'
    BY <2>1, EmptyFacts, FS_EmptySet, BufferAssumption DEF CapacityHeld, DiskInMemory
  <2>4. CleanMeansSaved'
    BY <2>1 DEF CleanMeansSaved, EmptyBuffer, EmptyDisk, Image
  <2> QED BY <2>2, <2>3, <2>4 DEF BufferInv
<1>7. CASE Restart
  <2>1. PICK b : b = Loaded(disk)
    OBVIOUS
  <2>2. mem' = b /\ UNCHANGED <<disk, now>>
    BY <1>7, <2>1 DEF Restart
  <2>3. b \in Buffers /\ OrderHolds(b) /\ IndexSound(b)
    BY <1>0, <2>1, LoadedFacts
  <2>4. CASE IsFull(disk)
    <3>1. Known(b) = {}
      BY <1>0, <2>1, <2>4, LoadedFacts, EmptyFacts
    <3>2. Cardinality(Known(b)) <= MaxItems
      BY <3>1, FS_EmptySet, BufferAssumption
    <3> QED BY <1>0, <2>2, <2>3, <2>4, <3>2
            DEF BufferInv, BufferTypeOK, OrderHolds, IndexSound, CapacityHeld, Known,
                CleanMeansSaved, DiskInMemory, IsFull
  <2>5. CASE ~IsFull(disk)
    <3>1. Image(b) = disk /\ Known(b) = Known(disk)
      BY <1>0, <2>1, <2>5, LoadedFacts
    <3>2. Cardinality(Known(b)) <= MaxItems
      BY <2>5, <3>1, KnownIsFinite, BufferAssumption DEF IsFull
    <3> QED BY <1>0, <2>2, <2>3, <3>1, <3>2
            DEF BufferInv, BufferTypeOK, OrderHolds, IndexSound, CapacityHeld, Known,
                CleanMeansSaved, DiskInMemory, Image
  <2> QED BY <2>4, <2>5
<1>8. CASE Tick
  <2>1. now' \in 0..MaxTime /\ UNCHANGED <<mem, disk>>
    BY <1>0, <1>8, BufferAssumption DEF Tick
  <2> QED BY <1>a, <2>1
<1>9. CASE UNCHANGED bufferVars
  BY <1>0, <1>9, <1>a DEF bufferVars
<1> QED BY <1>1, <1>2, <1>3, <1>4, <1>5, <1>6, <1>7, <1>8, <1>9 DEF BufferNext

\* Through any calls, failed saves and restarts the buffer keeps to max_items, its index
\* leads to the attempts of a token, and a clean buffer is the one its file holds.
THEOREM BufferHolds ==
  BufferSpec => [](BufferTypeOK /\ CapacityHeld /\ IndexIsSound /\ CleanMeansSaved)
<1>1. BufferInit => BufferInv
  BY InitBufferInv
<1>2. BufferInv /\ [BufferNext]_bufferVars => BufferInv'
  BY BufferStep
<1>3. BufferInv => BufferTypeOK /\ CapacityHeld /\ IndexIsSound /\ CleanMeansSaved
  BY DEF BufferInv, IndexSound, IndexIsSound
<1> QED BY <1>1, <1>2, <1>3, PTL DEF BufferSpec

\* Until clear() is called a saved message stays saved, as long as the log never reaches
\* max_items: the constructor empties a buffer that finds such a log.
THEOREM LogIsKept == BufferSpec => RoomyDiskNeverForgets
<1>1. BufferInit => BufferInv /\ DiskInMemory
  BY InitBufferInv
<1>2. BufferInv /\ DiskInMemory /\ [BufferNext]_bufferVars => (BufferInv /\ DiskInMemory)'
  BY BufferStep
<1>3. BufferInv /\ DiskInMemory /\ [BufferNext]_bufferVars
        => [Known(disk) \subseteq Known(disk') \/ Clear \/ IsFull(disk)]_bufferVars
  <2> SUFFICES ASSUME BufferInv, DiskInMemory, BufferNext, ~Clear, ~IsFull(disk)
               PROVE  Known(disk) \subseteq Known(disk')
    OBVIOUS
  <2>1. CASE Flush
    <3>1. mem \in Buffers /\ disk \in Disks /\ disk' = DiskAfter(mem)
      BY <2>1 DEF Flush, BufferInv, BufferTypeOK
    <3>2. DiskAfter(mem) = disk \/ Known(DiskAfter(mem)) = Known(mem)
      BY <3>1, FlushedFacts
    <3> QED BY <3>1, <3>2 DEF DiskInMemory
  <2>2. CASE ~Flush
    BY <2>2 DEF BufferNext, RecordMessage, Ack, UpdateState, Lookup, Restart, Tick
  <2> QED BY <2>1, <2>2
<1> QED BY <1>1, <1>2, <1>3, PTL DEF BufferSpec, RoomyDiskNeverForgets
-------------------------------------------------------------------------------
(* The token index, for the tokens none of whose attempts was recorded again *)

\* The records of a log carry no date to come, and those of one token no later date than a
\* later record of it.
Dated(b) ==
  /\ \A m \in Known(b) : b.byId[m].ts <= now
  /\ \A i, j \in DOMAIN b.order :
       /\ i <= j /\ TokenOf[b.order[i]] = TokenOf[b.order[j]]
       /\ ~Rerecorded(b, TokenOf[b.order[i]])
       => b.byId[b.order[i]].ts <= b.byId[b.order[j]].ts

\* The index leads from the token of a record that is not expired to a record that is
\* at least as young.
IndexFresh(b) ==
  \A m \in Known(b) : TokenOf[m] # NoToken /\ ~Rerecorded(b, TokenOf[m]) =>
    \/ now - b.byId[m].ts > DedupWindow
    \/ /\ b.tokens[TokenOf[m]] # NoMessage
       /\ b.byId[m].ts <= b.byId[b.tokens[TokenOf[m]]].ts

\* What the dates add to the buffer's invariant.
DatesInv == Dated(mem) /\ Dated(disk) /\ IndexFresh(mem)

\* The date of a record is a number.
LEMMA DateOfRecord ==
  ASSUME NEW b, b \in Buffers \/ b \in Disks, NEW m \in Known(b)
  PROVE  m \in Messages /\ b.byId[m].ts \in 0..MaxTime
BY BufferFields DEF Known, Records

\* A message with a token has one of Tokens.
LEMMA TokenOfMessage ==
  ASSUME NEW m \in Messages, TokenOf[m] # NoToken
  PROVE  TokenOf[m] \in Tokens
BY BufferAssumption

\* Cleaning drops no entry that a fresh record needs.
LEMMA CleanedFresh ==
  ASSUME NEW b \in Buffers, now \in 0..MaxTime, IndexSound(b), IndexFresh(b)
  PROVE  IndexFresh(Cleaned(b))
<1> SUFFICES ASSUME NEW m \in Known(b), TokenOf[m] # NoToken, ~Rerecorded(b, TokenOf[m]),
                    ~(now - b.byId[m].ts > DedupWindow)
             PROVE  /\ Cleaned(b).tokens[TokenOf[m]] # NoMessage
                    /\ b.byId[m].ts <= b.byId[Cleaned(b).tokens[TokenOf[m]]].ts
  BY CleanedFacts DEF IndexFresh, Rerecorded
<1>1. TokenOf[m] \in Tokens
  BY TokenOfMessage, DateOfRecord
<1>2. PICK n : n = b.tokens[TokenOf[m]]
  OBVIOUS
<1>3. n # NoMessage /\ b.byId[m].ts <= b.byId[n].ts /\ n \in Known(b)
  BY <1>1, <1>2 DEF IndexFresh, IndexSound
<1>4. b.byId[m].ts \in 0..MaxTime /\ b.byId[n].ts \in 0..MaxTime
  BY <1>3, DateOfRecord
<1>5. ~Expired(b, n)
  BY <1>3, <1>4, BufferAssumption DEF Expired
<1> QED BY <1>1, <1>2, <1>3, <1>5, CleanedFacts

\* A new record is the youngest of its token.
LEMMA RecordedFresh ==
  ASSUME NEW b \in Buffers, NEW m \in Messages, now \in 0..MaxTime,
         OrderHolds(b), IndexSound(b), Dated(b), IndexFresh(b)
  PROVE  Dated(Recorded(b, m)) /\ IndexFresh(Recorded(b, m))
<1> DEFINE rec == [direction |-> DirectionOf(m), ts |-> now, stage |-> "unspecified"]
           B == [byId |-> [b.byId EXCEPT ![m] = rec], order |-> Append(b.order, m),
                 tokens |-> [t \in Tokens |-> IF t = TokenOf[m] THEN m ELSE b.tokens[t]],
                 dirty |-> "yes"]
<1>1. Recorded(b, m) = Cleaned(B)
  BY DEF Recorded, Timestamp
<1>2. rec \in Records /\ rec # NoRecord /\ rec.ts = now
  BY NoRecordAssumption DEF Records, DirectionOf, Stages, Unacked
<1> HIDE DEF rec
<1>3. B \in Buffers
  BY <1>2, BufferFields DEF Buffers
<1>4. /\ B.byId = [b.byId EXCEPT ![m] = rec] /\ B.order = Append(b.order, m) /\ B.dirty = "yes"
      /\ \A t \in Tokens : B.tokens[t] = IF t = TokenOf[m] THEN m ELSE b.tokens[t]
  OBVIOUS
<1> HIDE DEF B
<1>5. Known(B) = Known(b) \cup {m}
  BY <1>2, <1>4, BufferFields DEF Known
<1>6. B.byId[m].ts = now /\ \A n \in Known(b) : n # m => B.byId[n] = b.byId[n]
  BY <1>2, <1>4, BufferFields DEF Known
<1>7. \A n \in Known(b) : b.byId[n].ts \in 0..MaxTime /\ b.byId[n].ts <= now
  BY DateOfRecord DEF Dated
<1>a. PICK k \in Nat : k = Len(b.order) /\ DOMAIN b.order = 1..k
  <2>1. b.order \in Seq(Messages)
    BY BufferFields
  <2> QED BY <2>1
<1>b. /\ DOMAIN B.order = 1..k+1 /\ B.order[k+1] = m
      /\ \A i \in 1..k : B.order[i] = b.order[i]
  <2>1. b.order \in Seq(Messages)
    BY BufferFields
  <2> QED BY <1>4, <1>a, <2>1
<1>c. ASSUME NEW t, ~Rerecorded(B, t)
      PROVE  /\ ~Rerecorded(b, t)
             /\ t = TokenOf[m] => \A i \in 1..k : b.order[i] # m
  <2>1. \A i, j \in 1..k : i \in DOMAIN B.order /\ j \in DOMAIN B.order
    BY <1>b
  <2>2. ~Rerecorded(b, t)
    BY <1>a, <1>b, <1>c, <2>1 DEF Rerecorded
  <2>3. ASSUME t = TokenOf[m], NEW i \in 1..k, b.order[i] = m PROVE FALSE
    <3>1. i \in DOMAIN B.order /\ k+1 \in DOMAIN B.order /\ i < k+1
      BY <1>b
    <3> QED BY <1>b, <1>c, <2>3, <3>1 DEF Rerecorded
  <2> QED BY <2>2, <2>3
<1>8. Dated(B)
  <2>4. \A i \in 1..k : b.order[i] \in Known(b)
    BY <1>a DEF OrderHolds
  <2>5. ASSUME NEW i \in 1..k+1, NEW j \in 1..k+1, i <= j, TokenOf[B.order[i]] = TokenOf[B.order[j]],
               ~Rerecorded(B, TokenOf[B.order[i]])
        PROVE  B.byId[B.order[i]].ts <= B.byId[B.order[j]].ts
    <3>1. CASE j = k + 1
      <4>1. B.byId[B.order[j]].ts = now
        BY <1>6, <1>b, <3>1
      <4>2. CASE B.order[i] = m
        BY <1>6, <1>b, <3>1, <4>2
      <4>3. CASE B.order[i] # m
        <5>1. i \in 1..k /\ B.order[i] = b.order[i]
          BY <1>b, <4>3
        <5> QED BY <1>6, <1>7, <2>4, <4>1, <4>3, <5>1
      <4> QED BY <4>2, <4>3
    <3>2. CASE j # k + 1
      <4>1. i \in 1..k /\ j \in 1..k
        BY <2>5, <3>2
      <4>2. B.order[i] = b.order[i] /\ B.order[j] = b.order[j]
        BY <1>b, <4>1
      <4>3. ~Rerecorded(b, TokenOf[b.order[i]])
        BY <1>c, <2>5, <4>2
      <4>4. b.byId[b.order[i]].ts <= b.byId[b.order[j]].ts
        BY <1>a, <2>5, <4>1, <4>2, <4>3 DEF Dated
      <4>5. b.order[i] # m /\ b.order[j] # m
        BY <1>c, <2>5, <4>1, <4>2
      <4> QED BY <1>6, <2>4, <4>1, <4>2, <4>4, <4>5
    <3> QED BY <3>1, <3>2
  <2>6. \A n \in Known(B) : B.byId[n].ts <= now
    BY <1>5, <1>6, <1>7
  <2> QED BY <1>b, <2>5, <2>6 DEF Dated
<1>9. IndexFresh(B)
  <2> SUFFICES ASSUME NEW n \in Known(B), TokenOf[n] # NoToken, ~Rerecorded(B, TokenOf[n])
               PROVE  \/ now - B.byId[n].ts > DedupWindow
                      \/ /\ B.tokens[TokenOf[n]] # NoMessage
                         /\ B.byId[n].ts <= B.byId[B.tokens[TokenOf[n]]].ts
    BY DEF IndexFresh
  <2>1. TokenOf[n] \in Tokens
    BY TokenOfMessage, DateOfRecord, <1>3
  <2>2. CASE TokenOf[n] = TokenOf[m]
    <3>1. B.tokens[TokenOf[n]] = m /\ m # NoMessage
      BY <1>4, <2>1, <2>2, BufferAssumption
    <3>2. CASE n = m
      BY <1>6, <3>1, <3>2
    <3>3. CASE n # m
      BY <1>5, <1>6, <1>7, <3>1, <3>3
    <3> QED BY <3>2, <3>3
  <2>3. CASE TokenOf[n] # TokenOf[m]
    <3>1. n \in Known(b) /\ n # m /\ B.tokens[TokenOf[n]] = b.tokens[TokenOf[n]]
      BY <1>4, <1>5, <2>1, <2>3
    <3>2. \/ now - b.byId[n].ts > DedupWindow
          \/ /\ b.tokens[TokenOf[n]] # NoMessage
             /\ b.byId[n].ts <= b.byId[b.tokens[TokenOf[n]]].ts
      BY <1>c, <3>1 DEF IndexFresh
    <3>3. b.tokens[TokenOf[n]] # NoMessage =>
            b.tokens[TokenOf[n]] \in Known(b) /\ b.tokens[TokenOf[n]] # m
      BY <2>1, <2>3 DEF IndexSound
    <3> QED BY <1>6, <3>1, <3>2, <3>3
  <2> QED BY <2>2, <2>3
<1>10. Dated(Cleaned(B)) /\ IndexFresh(Cleaned(B))
  <2>1. IndexSound(B)
    BY <1>4, <1>5 DEF IndexSound
  <2>2. Dated(Cleaned(B))
    BY <1>3, <1>8, CleanedFacts DEF Dated, Rerecorded
  <2> QED BY <1>3, <1>9, <2>1, <2>2, CleanedFresh
<1> QED BY <1>1, <1>10

\* Dates and index of a buffer with the same records, order and index.
LEMMA SameDates ==
  ASSUME NEW b, NEW c, Known(c) = Known(b), c.order = b.order, OrderHolds(b),
         \A n \in Known(b) : c.byId[n].ts = b.byId[n].ts
  PROVE  /\ Dated(b) => Dated(c)
         /\ c.tokens = b.tokens /\ IndexFresh(b) /\ b \in Buffers /\ IndexSound(b)
              => IndexFresh(c)
<1>1. Dated(b) => Dated(c)
  BY DEF Dated, OrderHolds, Rerecorded
<1>2. ASSUME c.tokens = b.tokens, IndexFresh(b), b \in Buffers, IndexSound(b)
      PROVE  IndexFresh(c)
  <2>1. \A n \in Known(b) : TokenOf[n] # NoToken => TokenOf[n] \in Tokens
    BY <1>2, DateOfRecord, TokenOfMessage
  <2> QED BY <1>2, <2>1 DEF IndexFresh, IndexSound, Rerecorded
<1> QED BY <1>1, <1>2

\* The rebuilt index prefers the younger record.
LEMMA LoadedFresh ==
  ASSUME NEW d \in Disks, OrderHolds(d), Dated(d)
  PROVE  Dated(Loaded(d)) /\ IndexFresh(Loaded(d))
<1>1. CASE IsFull(d)
  BY <1>1, EmptyFacts, LoadedFacts DEF Dated, IndexFresh
<1>2. CASE ~IsFull(d)
  <2>1. PICK b : b = Loaded(d)
    OBVIOUS
  <2>2. /\ Known(b) = Known(d) /\ b.byId = d.byId /\ b.order = d.order
        /\ \A t \in Tokens : b.tokens[t] = LastWithToken(d, t)
    BY <1>2, <2>1, LoadedFacts
  <2>0. \A t : Rerecorded(b, t) <=> Rerecorded(d, t)
    BY <2>2 DEF Rerecorded
  <2>3. ASSUME NEW m \in Known(d), TokenOf[m] # NoToken, ~Rerecorded(d, TokenOf[m])
        PROVE  /\ b.tokens[TokenOf[m]] # NoMessage
               /\ d.byId[m].ts <= d.byId[b.tokens[TokenOf[m]]].ts
    <3>1. TokenOf[m] \in Tokens
      BY <2>3, TokenOfMessage, DateOfRecord
    <3>2. PICK n : n = LastWithToken(d, TokenOf[m])
      OBVIOUS
    <3>3. n \in Known(d) /\ TokenOf[n] = TokenOf[m] /\ PlaceOf(d.order, m) <= PlaceOf(d.order, n)
      BY <3>2, LastFacts, BufferFields
    <3>4. /\ PlaceOf(d.order, m) \in DOMAIN d.order /\ d.order[PlaceOf(d.order, m)] = m
          /\ PlaceOf(d.order, n) \in DOMAIN d.order /\ d.order[PlaceOf(d.order, n)] = n
      BY <3>3, PlaceExists, BufferFields DEF OrderHolds
    <3>5. n \in Messages /\ n # NoMessage
      BY <3>3, BufferAssumption DEF Known
    <3> QED BY <2>2, <2>3, <3>1, <3>2, <3>3, <3>4, <3>5 DEF Dated
  <2>4. Dated(b)
    BY <2>0, <2>2 DEF Dated
  <2>5. IndexFresh(b)
    BY <2>0, <2>2, <2>3 DEF IndexFresh
  <2> QED BY <2>1, <2>4, <2>5
<1> QED BY <1>1, <1>2

\* Every call keeps the dates of a token's attempts in order until one is recorded again.
LEMMA DatesStep ==
  BufferInv /\ DatesInv /\ [BufferNext]_bufferVars => DatesInv'
<1> SUFFICES ASSUME BufferInv, DatesInv, [BufferNext]_bufferVars
             PROVE  DatesInv'
  OBVIOUS
<1>0. /\ mem \in Buffers /\ disk \in Disks /\ now \in 0..MaxTime
      /\ OrderHolds(mem) /\ OrderHolds(disk) /\ IndexSound(mem)
      /\ Dated(mem) /\ Dated(disk) /\ IndexFresh(mem)
  BY DEF BufferInv, BufferTypeOK, DatesInv
<1>a. ASSUME UNCHANGED now, NEW b, mem' = b, Dated(b), IndexFresh(b),
             NEW d, disk' = d, Dated(d)
      PROVE  DatesInv'
  BY <1>a DEF DatesInv, Dated, IndexFresh, Known, Rerecorded
<1>1. CASE \E m \in Messages : RecordMessage(m)
  <2> PICK m \in Messages : RecordMessage(m)
    BY <1>1
  <2>3. mem' = Recorded(mem, m) /\ UNCHANGED <<disk, now>>
    BY DEF RecordMessage
  <2>4. PICK b : b = Recorded(mem, m)
    OBVIOUS
  <2>5. Dated(b) /\ IndexFresh(b)
    BY <1>0, <2>4, RecordedFresh
  <2> QED BY <1>0, <1>a, <2>3, <2>4, <2>5
<1>2. CASE \E m \in Ackable, s \in {"fulfilled"} : Ack(m, s)
  <2> PICK m \in Messages : Ack(m, "fulfilled")
    BY <1>2, BufferAssumption
  <2>1. "fulfilled" \in Stages
    BY DEF Stages
  <2>2. PICK b : b = Acked(mem, m, "fulfilled")
    OBVIOUS
  <2>3. mem' = b /\ UNCHANGED <<disk, now>>
    BY <2>2 DEF Ack
  <2>4. /\ Known(b) = Known(mem) /\ b.order = mem.order /\ b.tokens = mem.tokens
        /\ \A n \in Known(mem) : b.byId[n].ts = mem.byId[n].ts
    BY <1>0, <2>1, <2>2, AckedFacts
  <2>5. Dated(b) /\ IndexFresh(b)
    BY <1>0, <2>4, SameDates
  <2> QED BY <1>0, <1>a, <2>3, <2>5
<1>3. CASE \E m \in Messages : UpdateState(m)
  <2>1. PICK b : b = [mem EXCEPT !.dirty = "yes"]
    OBVIOUS
  <2>2. mem' = b /\ UNCHANGED <<disk, now>>
    BY <1>3, <2>1 DEF UpdateState
  <2>3. b.byId = mem.byId /\ b.order = mem.order /\ b.tokens = mem.tokens
        /\ Known(b) = Known(mem)
    BY <1>0, <2>1, DirtiedFacts
  <2>4. Dated(b) /\ IndexFresh(b)
    BY <1>0, <2>3, SameDates
  <2> QED BY <1>0, <1>a, <2>2, <2>4
<1>4. CASE Lookup
  <2>1. PICK b : b = Cleaned(mem)
    OBVIOUS
  <2>2. mem' = b /\ UNCHANGED <<disk, now>>
    BY <1>4, <2>1 DEF Lookup
  <2>3. b.byId = mem.byId /\ b.order = mem.order /\ Known(b) = Known(mem)
    BY <1>0, <2>1, CleanedFacts
  <2>4. Dated(b)
    BY <1>0, <2>3, SameDates
  <2>5. IndexFresh(b)
    BY <1>0, <2>1, CleanedFresh
  <2> QED BY <1>0, <1>a, <2>2, <2>4, <2>5
<1>5. CASE Flush
  <2>1. PICK b : b = Flushed(mem)
    OBVIOUS
  <2>2. PICK d : d = DiskAfter(mem)
    OBVIOUS
  <2>3. mem' = b /\ disk' = d /\ UNCHANGED now
    BY <1>5, <2>1, <2>2 DEF Flush
  <2>4. b.byId = mem.byId /\ b.order = mem.order /\ b.tokens = mem.tokens
        /\ Known(b) = Known(mem)
    BY <1>0, <2>1, FlushedFacts
  <2>5. Dated(b) /\ IndexFresh(b)
    BY <1>0, <2>4, SameDates
  <2>6. d = disk \/ (d = Image(mem) /\ Known(d) = Known(mem))
    BY <1>0, <2>2, FlushedFacts
  <2>7. Image(mem).byId = mem.byId /\ Image(mem).order = mem.order
    BY DEF Image
  <2>8. Dated(d)
    <3>1. CASE d = disk
      BY <1>0, <3>1
    <3>2. CASE d = Image(mem) /\ Known(d) = Known(mem)
      <4>1. d.byId = mem.byId /\ d.order = mem.order
        BY <2>7, <3>2
      <4> QED BY <1>0, <3>2, <4>1, SameDates
    <3> QED BY <2>6, <3>1, <3>2
  <2> QED BY <1>a, <2>3, <2>5, <2>8
<1>6. CASE Clear
  <2>1. mem' = EmptyBuffer /\ disk' = EmptyDisk /\ UNCHANGED now
    BY <1>6 DEF Clear
  <2>2. Dated(EmptyBuffer) /\ IndexFresh(EmptyBuffer) /\ Dated(EmptyDisk)
    BY EmptyFacts DEF Dated, IndexFresh
  <2> QED BY <1>a, <2>1, <2>2
<1>7. CASE Restart
  <2>1. mem' = Loaded(disk) /\ UNCHANGED <<disk, now>>
    BY <1>7 DEF Restart
  <2>2. Dated(Loaded(disk)) /\ IndexFresh(Loaded(disk))
    BY <1>0, LoadedFresh
  <2> QED BY <1>0, <1>a, <2>1, <2>2
<1>8. CASE Tick
  <2>1. UNCHANGED <<mem, disk>> /\ now' = now + 1
    BY <1>8 DEF Tick
  <2>2. /\ \A m \in Known(mem) : mem.byId[m].ts \in 0..MaxTime
        /\ \A m \in Known(disk) : disk.byId[m].ts \in 0..MaxTime
    BY <1>0, DateOfRecord
  <2>3. Dated(mem)' /\ Dated(disk)'
    BY <1>0, <2>1, <2>2 DEF Dated, Known, Rerecorded
  <2>4. IndexFresh(mem)'
    BY <1>0, <2>1, <2>2, BufferAssumption DEF IndexFresh, Known, Rerecorded
  <2> QED BY <2>3, <2>4 DEF DatesInv
<1>9. CASE UNCHANGED bufferVars
  BY <1>0, <1>9, <1>a DEF bufferVars
<1> QED BY <1>1, <1>2, <1>3, <1>4, <1>5, <1>6, <1>7, <1>8, <1>9 DEF BufferNext

\* get_by_idempotency_token finds an attempt that is fresh enough, restarts included, as long
\* as no attempt at that operation was recorded again: a second record under one id keeps its
\* first place in the file with its new date, and a restart then prefers the wrong one. The
\* capacity, the index and the dirty flag hold in any case.
THEOREM FreshAttemptsAreFound == BufferSpec => []BufferIsSound
<1>1. BufferInit => BufferInv
  BY InitBufferInv
<1>2. BufferInv /\ [BufferNext]_bufferVars => BufferInv'
  BY BufferStep
<1>3. BufferInit => DatesInv
  BY EmptyFacts DEF BufferInit, DatesInv, Dated, IndexFresh
<1>4. BufferInv /\ DatesInv /\ [BufferNext]_bufferVars => DatesInv'
  BY DatesStep
<1>5. BufferInv /\ DatesInv => BufferIsSound
  <2> SUFFICES ASSUME BufferInv, DatesInv PROVE BufferIsSound
    OBVIOUS
  <2>1. mem \in Buffers /\ now \in 0..MaxTime /\ IndexSound(mem) /\ IndexFresh(mem)
    BY DEF BufferInv, BufferTypeOK, DatesInv
  <2>2. IndexFresh(Cleaned(mem))
    BY <2>1, CleanedFresh
  <2>3. ASSUME NEW m \in Known(mem), TokenOf[m] # NoToken, ~Rerecorded(mem, TokenOf[m]),
               now - mem.byId[m].ts <= DedupWindow
        PROVE  Found(mem, TokenOf[m]) # NoMessage
    <3>1. /\ m \in Known(Cleaned(mem)) /\ Cleaned(mem).byId = mem.byId
          /\ ~Rerecorded(Cleaned(mem), TokenOf[m])
      BY <2>1, <2>3, CleanedFacts DEF Rerecorded
    <3>2. mem.byId[m].ts \in 0..MaxTime
      BY <2>1, DateOfRecord
    <3> QED BY <2>1, <2>2, <2>3, <3>1, <3>2, BufferAssumption DEF IndexFresh, Found
  <2>4. LookupFindsFresh
    BY <2>3 DEF LookupFindsFresh
  <2> QED BY <2>4 DEF BufferIsSound, BufferInv, IndexSound, IndexIsSound
<1> QED BY <1>1, <1>2, <1>3, <1>4, <1>5, PTL DEF BufferSpec
===============================================================================
