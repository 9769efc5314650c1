------------------------------ MODULE RoomClient ------------------------------
(***************************************************************************)
(* NegotiationRoomClient on InMemoryNegotiationRoomStore                   *)
(* (clients/negotiation_room.py, negotiation_room_store.py): producer,     *)
(* critics and coordinator share a store, the default one unless they are  *)
(* given another. A method of the store holds its lock and is one step; a  *)
(* client's method is two of them, or a poll every so often.               *)
(***************************************************************************)
EXTENDS Naturals, FiniteSets

CONSTANTS
  RoomClients, Papers,   \* artifact ids
  Verdicts,
  MaxStores,             \* bound on the default stores made over time
  NoStore, NoVerdict

ASSUME RoomClientAssumption ==
  /\ MaxStores \in Nat \ {0} /\ NoStore \notin 1..MaxStores /\ NoVerdict \notin Verdicts

Stores == 1..MaxStores

VARIABLES
  proposals,   \* _proposals of each store
  ballots,     \* _votes: the critics who voted for a paper
  verdicts,    \* _decisions
  storeOf,     \* the client's store
  defaultStore, \* _default_store
  storesMade,
  doing,       \* what a client is in the middle of: [op |-> "none"], or a method that
               \* found the proposal, with its paper
  heard        \* the decision a client was given for a paper

roomClientVars ==
  <<proposals, ballots, verdicts, storeOf, defaultStore, storesMade, doing, heard>>

Nothing == [op |-> "none"]

RoomClientInit ==
  /\ proposals = [s \in Stores |-> {}] /\ ballots = [s \in Stores |-> [p \in Papers |-> {}]]
  /\ verdicts = [s \in Stores |-> [p \in Papers |-> NoVerdict]]
  /\ storeOf = [c \in RoomClients |-> NoStore] /\ defaultStore = NoStore /\ storesMade = 0
  /\ doing = [c \in RoomClients |-> Nothing]
  /\ heard = [c \in RoomClients |-> [p \in Papers |-> NoVerdict]]

StoreState == <<proposals, ballots, verdicts>>
Where == <<storeOf, defaultStore, storesMade>>
-------------------------------------------------------------------------------
(* Clients and their store *)

get_default_store(c) ==
  /\ storeOf[c] = NoStore
  /\ IF defaultStore # NoStore
     THEN storeOf' = [storeOf EXCEPT ![c] = defaultStore] /\ UNCHANGED <<defaultStore, storesMade>>
     ELSE /\ storesMade < MaxStores
          /\ storesMade' = storesMade + 1 /\ defaultStore' = storesMade + 1
          /\ storeOf' = [storeOf EXCEPT ![c] = storesMade + 1]
  /\ UNCHANGED <<StoreState, doing, heard>>

reset_default_store ==
  /\ defaultStore # NoStore /\ defaultStore' = NoStore
  /\ UNCHANGED <<StoreState, storeOf, storesMade, doing, heard>>

submit_proposal(c, p) ==
  /\ doing[c] = Nothing /\ storeOf[c] # NoStore /\ p \notin proposals[storeOf[c]]
  /\ proposals' = [proposals EXCEPT ![storeOf[c]] = @ \cup {p}]
  /\ ballots' = [ballots EXCEPT ![storeOf[c]][p] = {}]
  /\ UNCHANGED <<verdicts, Where, doing, heard>>

\* has_proposal, at the head of submit_vote, store_decision and wait_for_decision
FindsProposal(c, op, p) ==
  /\ doing[c] = Nothing /\ storeOf[c] # NoStore /\ p \in proposals[storeOf[c]]
  /\ doing' = [doing EXCEPT ![c] = [op |-> op, paper |-> p]]
  /\ UNCHANGED <<StoreState, Where, heard>>

Ends(c) == doing' = [doing EXCEPT ![c] = Nothing]

\* Raises when the critic has voted.
add_vote(c) ==
  /\ doing[c].op = "vote" /\ Ends(c)
  /\ ballots' = [ballots EXCEPT ![storeOf[c]][doing[c].paper] = @ \cup {c}]
  /\ UNCHANGED <<proposals, verdicts, Where, heard>>

\* Raises when there is a decision. (Mutant: the last one is kept.)
LastVerdict(c, v) == v
FirstVerdict(c, v) ==
  IF verdicts[storeOf[c]][doing[c].paper] = NoVerdict THEN v ELSE verdicts[storeOf[c]][doing[c].paper]
save_decision(c, v) ==
  /\ doing[c].op = "decide" /\ Ends(c)
  /\ verdicts' = [verdicts EXCEPT ![storeOf[c]][doing[c].paper] = FirstVerdict(c, v)]
  /\ UNCHANGED <<proposals, ballots, Where, heard>>

\* A poll that finds a decision; one that does not changes nothing.
Polled(c) ==
  /\ doing[c].op = "wait" /\ verdicts[storeOf[c]][doing[c].paper] # NoVerdict /\ Ends(c)
  /\ heard' = [heard EXCEPT ![c][doing[c].paper] = verdicts[storeOf[c]][doing[c].paper]]
  /\ UNCHANGED <<StoreState, Where>>
\* After the last poll: a decision may have come since.
WaitTimesOut(c) == doing[c].op = "wait" /\ Ends(c) /\ UNCHANGED <<StoreState, Where, heard>>

RoomClientNext ==
  \/ \E c \in RoomClients :
       \/ get_default_store(c)
       \/ \E p \in Papers : \/ submit_proposal(c, p)
                            \/ \E op \in {"vote", "decide", "wait"} : FindsProposal(c, op, p)
       \/ add_vote(c) \/ Polled(c) \/ WaitTimesOut(c)
       \/ \E v \in Verdicts : save_decision(c, v)
  \/ reset_default_store
-------------------------------------------------------------------------------
(* Properties *)

RoomClientTypeOK ==
  /\ proposals \in [Stores -> SUBSET Papers] /\ ballots \in [Stores -> [Papers -> SUBSET RoomClients]]
  /\ verdicts \in [Stores -> [Papers -> Verdicts \cup {NoVerdict}]]
  /\ storeOf \in [RoomClients -> Stores \cup {NoStore}] /\ defaultStore \in Stores \cup {NoStore}
  /\ storesMade \in 0..MaxStores /\ heard \in [RoomClients -> [Papers -> Verdicts \cup {NoVerdict}]]
  /\ \A c \in RoomClients : doing[c].op \in {"none", "vote", "decide", "wait"}
  \* votes and decisions are about proposals
  /\ \A s \in Stores, p \in Papers :
       ballots[s][p] # {} \/ verdicts[s][p] # NoVerdict => p \in proposals[s]

\* All clients of a store who are told a decision are told the same, though several
\* coordinators may have found the proposal undecided and each wait ends by itself.
HeardTheSame ==
  \A b, c \in RoomClients, p \in Papers :
    storeOf[b] = storeOf[c] /\ heard[b][p] # NoVerdict /\ heard[c][p] # NoVerdict
      => heard[b][p] = heard[c][p]

\* The same of all clients. Those made before and after reset_default_store have different
\* stores, so the code does not provide it.
HeardTheSameEverywhere ==
  \A b, c \in RoomClients, p \in Papers :
    heard[b][p] # NoVerdict /\ heard[c][p] # NoVerdict => heard[b][p] = heard[c][p]
===============================================================================
