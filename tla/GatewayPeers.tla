------------------------------ MODULE GatewayPeers ------------------------------
(***************************************************************************)
(* PeerSelector (gateway.py): what a gateway knows of its peers, and to    *)
(* which of them it redirects when it is full. What it hears of them and   *)
(* the lists of them it is given come in any order. Times are kept as what *)
(* has passed or is left of them.                                          *)
(***************************************************************************)
EXTENDS Naturals, Sequences, SequencesExt
CONSTANTS
  PeerLists,      \* the lists set_peers is given
  Ineligible,     \* peers that are no gateway, this one, or of other capabilities
  Liveness,       \* liveness_threshold_ms, in ticks
  MaxCooldown,    \* bound on a cooldown, in ticks
  CursorRounds,   \* the cursor is kept modulo this, a multiple of the lengths of lists
  Unknown

ASSUME PeersAssumption ==
  /\ Liveness \in Nat /\ MaxCooldown \in Nat /\ CursorRounds \in Nat \ {0}
  /\ \A l \in PeerLists : l \in Seq(ToSet(l)) /\ IsInjective(l)
  /\ \A l \in PeerLists : \A n \in 1..Len(l) : CursorRounds % n = 0
  /\ Unknown \notin [serves : BOOLEAN, silent : 0..(Liveness + 1), cooldown : 0..MaxCooldown]

Peers == UNION {ToSet(l) : l \in PeerLists}

VARIABLES
  peers,      \* _peers
  runtime,    \* _runtime: whether the peer's state is a serving one, since when it is silent
              \* (up to one more than Liveness) and what is left of its cooldown, or Unknown
  cursor,     \* _rr_cursor
  overload,   \* history: what is left of the time for which each peer said it is overloaded
  dropped,    \* history: peers that were off the list meanwhile
  turns       \* history: the list of the last selection, and whom it and the ones before it
              \* chose from the same list, as many as it is long

peerVars == <<peers, runtime, cursor, overload, dropped, turns>>

Fresh == [serves |-> TRUE, silent |-> 0, cooldown |-> 0]

PeersInit ==
  /\ peers = <<>> /\ runtime = [p \in Peers |-> Unknown] /\ cursor = 0
  /\ overload = [p \in Peers |-> 0] /\ dropped = {} /\ turns = [list |-> <<>>, chosen |-> <<>>]

\* setdefault
RuntimeOf(p) == IF runtime[p] = Unknown THEN Fresh ELSE runtime[p]
Longer(a, b) == IF a > b THEN a ELSE b
-------------------------------------------------------------------------------
set_peers(l) ==
  /\ peers' = l
  /\ runtime' = [p \in Peers |-> IF p \in ToSet(l) THEN RuntimeOf(p) ELSE Unknown]
  /\ dropped' = dropped \cup (Peers \ ToSet(l))
  /\ UNCHANGED <<cursor, overload, turns>>

\* Each of the three may be left as it is. touch_peer_heartbeat is the call with silent = 0.
update_peer_runtime_state(p, serves, silent, cooldown) ==
  /\ runtime' = [runtime EXCEPT ![p] = [serves |-> serves, silent |-> silent, cooldown |-> cooldown]]
  /\ overload' = [overload EXCEPT ![p] = IF cooldown = RuntimeOf(p).cooldown THEN @ ELSE cooldown]
  /\ UNCHANGED <<peers, cursor, dropped, turns>>
touch_peer_heartbeat(p, serves) == update_peer_runtime_state(p, serves, 0, RuntimeOf(p).cooldown)

\* (Mutant: the last answer counts, not the longest cooldown.)
LastCooldown(p, c) == c
LongestCooldown(p, c) == Longer(RuntimeOf(p).cooldown, c)
record_peer_overloaded(p, c) ==
  /\ runtime' = [runtime EXCEPT ![p] = [RuntimeOf(p) EXCEPT !.cooldown = LongestCooldown(p, c)]]
  /\ overload' = [overload EXCEPT ![p] = Longer(@, c)]
  /\ dropped' = IF overload[p] = 0 THEN dropped \ {p} ELSE dropped
  /\ UNCHANGED <<peers, cursor, turns>>

is_healthy(p) ==
  /\ p \notin Ineligible /\ runtime[p] # Unknown
  /\ runtime[p].cooldown = 0 /\ runtime[p].silent <= Liveness /\ runtime[p].serves

\* well: for whom peer_health_fn holds. (Mutant: the cursor rests.)
SameCursor(n) == n
NextCursor(n) == (n + 1) % CursorRounds
healthy_peers(well) ==
  LET healthy == {p \in well : is_healthy(p)}
      listed[i \in 0..Len(peers)] ==
        IF i = 0 THEN <<>>
        ELSE IF peers[i] \in healthy THEN Append(listed[i - 1], peers[i]) ELSE listed[i - 1]
  IN listed[Len(peers)]
select_peer(well) ==
  LET healthy == healthy_peers(well)
      p == healthy[(cursor % Len(healthy)) + 1]
      before == IF turns.list = healthy THEN turns.chosen ELSE <<>>
      last == IF Len(before) = Len(healthy) THEN Tail(before) ELSE before
  IN /\ healthy # <<>> /\ cursor' = NextCursor(cursor)
     /\ turns' = [list |-> healthy, chosen |-> Append(last, p)]
     /\ UNCHANGED <<peers, runtime, overload, dropped>>

Less(n) == IF n = 0 THEN 0 ELSE n - 1
PeerTimePasses ==
  /\ runtime' = [p \in Peers |-> IF runtime[p] = Unknown THEN Unknown ELSE
       [runtime[p] EXCEPT !.silent = IF @ > Liveness THEN @ ELSE @ + 1, !.cooldown = Less(@)]]
  /\ overload' = [p \in Peers |-> Less(overload[p])]
  /\ UNCHANGED <<peers, cursor, dropped, turns>>

PeersNext ==
  \/ \E l \in PeerLists : set_peers(l)
  \/ \E p \in Peers, s \in BOOLEAN :
       \/ touch_peer_heartbeat(p, s)
       \/ \E silent \in 0..(Liveness + 1), c \in 0..MaxCooldown : update_peer_runtime_state(p, s, silent, c)
  \/ \E p \in Peers, c \in 0..MaxCooldown : record_peer_overloaded(p, c)
  \/ \E well \in SUBSET Peers : select_peer(well)
  \/ PeerTimePasses
-------------------------------------------------------------------------------
(* Properties *)

PeersTypeOK ==
  /\ peers \in PeerLists \cup {<<>>} /\ cursor \in 0..(CursorRounds - 1)
  /\ \A p \in Peers : runtime[p] # Unknown =>
       runtime[p] \in [serves : BOOLEAN, silent : 0..(Liveness + 1), cooldown : 0..MaxCooldown]
  /\ \A p \in ToSet(peers) : runtime[p] # Unknown

\* A gateway that is full spares its peers: one that said it is overloaded is not chosen for as
\* long as it said, whatever is heard of it meanwhile, unless it was off the list or the
\* application set its cooldown; and as long as the same peers are healthy each is chosen once
\* before any is chosen again.
PeersAreSpared ==
  /\ \A p \in Peers \ dropped : overload[p] > 0 => ~is_healthy(p)
  /\ IsInjective(turns.chosen)

\* The same of a peer that was off the list: what was known of it is forgotten.
OverloadIsRemembered == \A p \in Peers : overload[p] > 0 => ~is_healthy(p)

\* No peer is chosen twice in a row while another is healthy. The cursor counts selections, not
\* peers: when the list changes it may come back to the same peer.
NotTwiceInARow ==
  [][turns' # turns /\ turns.list # <<>> =>
       LET last == turns.chosen[Len(turns.chosen)] IN
       (ToSet(turns.list) \cap ToSet(turns'.list)) \ {last} # {} =>
         turns'.chosen[Len(turns'.chosen)] # last]_peerVars
===============================================================================
