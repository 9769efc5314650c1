---------------------------- MODULE ActivityBuffer ----------------------------
(***************************************************************************)
(* PersistentActivityBuffer (sw4rm/activity_buffer.py) over a JSON file or *)
(* an SQLite table (sw4rm/persistence.py): the log of messages an agent    *)
(* keeps, its index of idempotency tokens and the copy that survives a     *)
(* restart. The buffer is not thread-safe and asks its callers to          *)
(* synchronise, so a call is one step.                                     *)
(***************************************************************************)
EXTENDS Integers, Sequences, FiniteSets

CONSTANTS
  Messages,     \* message_ids
  Sent,         \* those of messages the agent sends; the others it receives
  Tokens,       \* idempotency tokens
  TokenOf,      \* the token an envelope carries, or NoToken
  MaxItems,     \* max_items
  DedupWindow,  \* dedup_window_s, in ticks of the clock
  Backend,      \* the persistence backend: "json", "sqlite" or an application's own
  Unsavable,    \* messages whose envelope the backend cannot encode: with bytes in
                \* a field other than payload (json), with any bytes (sqlite)
  MaxTime,      \* bound: ticks of the clock
  Again,        \* bound: messages that are recorded again
  MaxOrder,     \* bound: length of _order, below which they are
  Ackable,      \* bound: messages that are acknowledged
  NoToken, NoMessage, NoRecord

ASSUME BufferAssumption ==
  /\ IsFiniteSet(Messages) /\ Sent \subseteq Messages
  /\ NoMessage \notin Messages /\ NoToken \notin Tokens
  /\ TokenOf \in [Messages -> Tokens \cup {NoToken}]
  /\ MaxItems \in Nat \ {0} /\ DedupWindow \in Nat /\ MaxTime \in Nat /\ MaxOrder \in Nat
  /\ Unsavable \cup Again \cup Ackable \subseteq Messages
  /\ Backend \in {"json", "sqlite", "custom"}

VARIABLES
  mem,   \* the buffer object: _by_id, _by_idempotency_token, _order, _dirty
  disk,  \* the records and the order in the file or table
  now    \* wall clock

bufferVars == <<mem, disk, now>>

Unacked == {"unspecified", "received", "read"}
Stages == Unacked \cup {"fulfilled", "rejected", "failed", "timed_out"}

Records == [direction: {"in", "out"}, ts: 0..MaxTime, stage: Stages]
ASSUME NoRecordAssumption == NoRecord \notin Records

Image(b) == [byId |-> b.byId, order |-> b.order]

NoRecords == [m \in Messages |-> NoRecord]
EmptyDisk == [byId |-> NoRecords, order |-> <<>>]
EmptyBuffer == [byId |-> NoRecords, order |-> <<>>,
                tokens |-> [t \in Tokens |-> NoMessage], dirty |-> "no"]

Known(b) == {m \in Messages : b.byId[m] # NoRecord}
-------------------------------------------------------------------------------
(* What each method makes of a buffer *)

\* _check_capacity. It counts before the insertion, so an overwrite is refused too.
\* (Mutant: an off-by-one.)
AlmostFull(b) == Cardinality(Known(b)) > MaxItems
IsFull(b) == Cardinality(Known(b)) >= MaxItems

\* The ts_ms of a record. (Mutant: the time it will be expired.)
ExpiryTime == now + DedupWindow + 1
Timestamp == now

Expired(b, m) == m # NoMessage /\ b.byId[m] # NoRecord /\ now - b.byId[m].ts > DedupWindow

\* _cleanup_expired_dedup_entries.
Cleaned(b) ==
  LET gone == {t \in Tokens : Expired(b, b.tokens[t])}
  IN [b EXCEPT !.tokens = [t \in Tokens |-> IF t \in gone THEN NoMessage ELSE @[t]],
               !.dirty  = IF gone = {} THEN @ ELSE "yes"]

DirectionOf(m) == IF m \in Sent THEN "out" ELSE "in"

\* record_incoming and record_outgoing of a message under capacity.
Recorded(b, m) ==
  Cleaned([byId |-> [b.byId EXCEPT ![m] = [direction |-> DirectionOf(m), ts |-> Timestamp,
                                           stage |-> "unspecified"]],
           order |-> Append(b.order, m),
           tokens |-> [t \in Tokens |-> IF t = TokenOf[m] THEN m ELSE b.tokens[t]],
           dirty |-> "yes"])

\* ActivityRecord.ack through the record object, which does not touch _dirty.
Stamped(b, m, s) == IF m \in Known(b) THEN [b EXCEPT !.byId[m].stage = s] ELSE b

\* PersistentActivityBuffer.ack. (Mutant: the dirty flag is forgotten.)
AckedQuietly(b, m, s) == Stamped(b, m, s)
Acked(b, m, s) ==
  IF m \in Known(b) THEN [Stamped(b, m, s) EXCEPT !.dirty = "yes"] ELSE b

\* save_records encodes every record or raises. The rows of the SQLite table have a
\* unique message_id and one is inserted for each element of _order: the whole save
\* rolls back when an id is there twice.
CanSave(b) ==
  /\ Known(b) \cap Unsavable = {}
  /\ Backend # "sqlite" \/ \A i, j \in DOMAIN b.order : b.order[i] = b.order[j] => i = j

\* _save_to_persistence of a backend that takes the write; a failed save is
\* swallowed and changes nothing. The temporary file and rename, and the
\* transaction, make the write atomic.
Saves(b) == b.dirty = "yes" /\ CanSave(b)
Flushed(b) == IF Saves(b) THEN [b EXCEPT !.dirty = "no"] ELSE b
DiskAfter(b) == IF Saves(b) THEN Image(b) ELSE disk

\* The place of m in the dict of records, which keeps the first insertion.
PlaceOf(o, m) ==
  CHOOSE i \in DOMAIN o : o[i] = m /\ \A j \in DOMAIN o : o[j] = m => i <= j

\* The rebuilt index: the record that comes last in the dict wins. (Mutant: the
\* first one wins.)
FirstWithToken(d, t) ==
  LET carriers == {m \in Known(d) : TokenOf[m] = t}
  IN IF carriers = {} THEN NoMessage
     ELSE CHOOSE m \in carriers :
            \A n \in carriers : PlaceOf(d.order, m) <= PlaceOf(d.order, n)
LastWithToken(d, t) ==
  LET carriers == {m \in Known(d) : TokenOf[m] = t}
  IN IF carriers = {} THEN NoMessage
     ELSE CHOOSE m \in carriers :
            \A n \in carriers : PlaceOf(d.order, n) <= PlaceOf(d.order, m)

\* _load_from_persistence. Loading max_items records raises in _check_capacity and
\* the handler empties the buffer. (Mutant: a load that forgets the records of the
\* second half of _order.)
LoadedHalf(d) ==
  IF IsFull(d) \/ Len(d.order) < 2 THEN EmptyBuffer
  ELSE [EmptyBuffer EXCEPT !.byId[d.order[1]] = d.byId[d.order[1]],
                           !.order = <<d.order[1]>>]
Loaded(d) ==
  IF IsFull(d) THEN EmptyBuffer
  ELSE [byId |-> d.byId, order |-> d.order, dirty |-> "no",
        tokens |-> [t \in Tokens |-> LastWithToken(d, t)]]

\* The record get_by_idempotency_token returns, by its message_id.
Found(b, t) == Cleaned(b).tokens[t]
-------------------------------------------------------------------------------
(* The buffer under any single-threaded caller *)

BufferInit == mem = EmptyBuffer /\ disk = EmptyDisk /\ now = 0

\* record_incoming and record_outgoing; BufferFullError when the buffer is full.
RecordMessage(m) ==
  /\ ~IsFull(mem)
  /\ m \in Known(mem) => m \in Again /\ Len(mem.order) < MaxOrder
  /\ mem' = Recorded(mem, m)
  /\ UNCHANGED <<disk, now>>

Ack(m, s) == mem' = Acked(mem, m, s) /\ UNCHANGED <<disk, now>>

\* update_state. Which state the envelope is in matters to nothing here.
UpdateState(m) ==
  /\ m \in Known(mem)
  /\ mem' = [mem EXCEPT !.dirty = "yes"]
  /\ UNCHANGED <<disk, now>>

\* get_by_idempotency_token, which cleans the index first.
Lookup == mem' = Cleaned(mem) /\ UNCHANGED <<disk, now>>

\* flush, or __exit__.
Flush == mem' = Flushed(mem) /\ disk' = DiskAfter(mem) /\ UNCHANGED now

\* clear. (Mutant: the token index is left as it was.)
ClearKeepsIndex ==
  mem' = [EmptyBuffer EXCEPT !.tokens = mem.tokens] /\ disk' = EmptyDisk /\ UNCHANGED now
Clear == mem' = EmptyBuffer /\ disk' = EmptyDisk /\ UNCHANGED now

\* The process dies and another one opens the same file.
Restart == mem' = Loaded(disk) /\ UNCHANGED <<disk, now>>

Tick == now < MaxTime /\ now' = now + 1 /\ UNCHANGED <<mem, disk>>

BufferNext ==
  \/ \E m \in Messages : RecordMessage(m)
  \/ \E m \in Ackable, s \in {"fulfilled"} : Ack(m, s)
  \/ \E m \in Messages : UpdateState(m)
  \/ Lookup \/ Flush \/ Clear \/ Restart \/ Tick

BufferSpec == BufferInit /\ [][BufferNext]_bufferVars
-------------------------------------------------------------------------------
(* Properties *)

Buffers == [byId: [Messages -> Records \cup {NoRecord}], order: Seq(Messages),
            tokens: [Tokens -> Messages \cup {NoMessage}], dirty: {"yes", "no"}]
Disks == [byId: [Messages -> Records \cup {NoRecord}], order: Seq(Messages)]

\* The two maps, the order and the flag of PersistentActivityBuffer.
BufferTypeOK == mem \in Buffers /\ disk \in Disks /\ now \in 0..MaxTime

\* No sequence of records, overwrites and restarts makes _by_id larger than
\* max_items (_check_capacity).
CapacityHeld == Cardinality(Known(mem)) <= MaxItems

\* An entry of the token index leads to a record that is there and carries that
\* token: what get_by_idempotency_token returns is an attempt at that operation.
IndexIsSound ==
  \A t \in Tokens : mem.tokens[t] # NoMessage =>
    mem.tokens[t] \in Known(mem) /\ TokenOf[mem.tokens[t]] = t

\* When _dirty says there is nothing to save, the backend holds exactly what the
\* buffer holds, except after the start on a log of max_items records, which the
\* constructor discards.
CleanMeansSaved == mem.dirty = "no" => disk = Image(mem) \/ IsFull(disk)

\* A record of an attempt at the operation was overwritten by another under its message_id.
Rerecorded(b, t) ==
  \E i, j \in DOMAIN b.order : i < j /\ b.order[i] = b.order[j] /\ TokenOf[b.order[i]] = t

\* get_by_idempotency_token finds an attempt at the operation as long as some attempt at it
\* was recorded within the deduplication window, restarts included, unless one of its
\* attempts was recorded again.
LookupFindsFresh ==
  \A m \in Known(mem) :
    /\ TokenOf[m] # NoToken /\ ~Rerecorded(mem, TokenOf[m])
    /\ now - mem.byId[m].ts <= DedupWindow
    => Found(mem, TokenOf[m]) # NoMessage

\* The same without the exception. A message that is recorded again keeps its first place in
\* the file, and a restart then prefers an attempt that is older and has expired.
EveryLookupFindsFresh ==
  \A m \in Known(mem) :
    TokenOf[m] # NoToken /\ now - mem.byId[m].ts <= DedupWindow => Found(mem, TokenOf[m]) # NoMessage

\* The buffer is never over max_items, its token index leads to the attempts of a
\* token, a recent one is found, and when it says it is saved its file holds what it holds.
BufferIsSound == CapacityHeld /\ IndexIsSound /\ CleanMeansSaved /\ LookupFindsFresh

\* A message that was saved stays saved, through restarts and later saves, until
\* clear() is called: the log survives restarts (documentation/protocol/activity-buffer.md).
DiskNeverForgets == [][Known(disk) \subseteq Known(disk') \/ Clear]_bufferVars

\* The same for a log that never reaches max_items, where the constructor gives up.
RoomyDiskNeverForgets ==
  [][Known(disk) \subseteq Known(disk') \/ Clear \/ IsFull(disk)]_bufferVars
===============================================================================
