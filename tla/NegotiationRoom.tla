---------------------------- MODULE NegotiationRoom ----------------------------
(***************************************************************************)
(* NegotiationRoomServiceImpl (coordination/negotiation_room_service.py)   *)
(* on the thread pool of CoordinationServer (coordination/server.py):      *)
(* proposals, votes, the decision, and the calls that wait for it. Calls   *)
(* queue for a worker; a handler is one step, except WaitForDecision,      *)
(* which releases the lock, waits for an Event and takes the lock again,   *)
(* and keeps its worker for that long. store_decision and clear_all are    *)
(* called in the process itself. The handoff and workflow services share   *)
(* the pool; their handlers do not wait.                                   *)
(***************************************************************************)
EXTENDS Naturals, FiniteSets, Sequences

CONSTANTS
  Callers,          \* clients: one call each at a time
  Critics,          \* those of them who vote
  Artifacts, Outcomes,
  Workers,          \* max_workers
  MaxProposals,     \* bound on the proposals made over time
  NoDecision, NoEvent

ASSUME RoomAssumption ==
  /\ Critics \subseteq Callers /\ Workers \in Nat \ {0} /\ MaxProposals \in Nat
  /\ NoEvent \notin 1..MaxProposals /\ NoDecision \notin Outcomes /\ Artifacts # {}

Events == 1..MaxProposals

VARIABLES
  votes,      \* _votes: the critics who voted, for a known proposal
  decisions,  \* _decisions
  eventOf,    \* _decision_events: the Event of each known proposal (_proposals)
  fired,      \* the Events that are set
  made,       \* number of proposals made
  calls,      \* the calls that wait for a worker, in the pool's order
  phase,      \* of each caller: "idle", "queued", "waiting" in Event.wait, "woken"
  waitsOn     \* the artifact and the Event of its WaitForDecision

roomVars == <<votes, decisions, eventOf, fired, made, calls, phase, waitsOn>>

Call == [caller : Callers, op : {"propose", "vote", "wait"}, artifact : Artifacts]
NoWait == [artifact |-> CHOOSE a \in Artifacts : TRUE, event |-> NoEvent]

RoomInit ==
  /\ votes = [a \in Artifacts |-> {}] /\ decisions = [a \in Artifacts |-> NoDecision]
  /\ eventOf = [a \in Artifacts |-> NoEvent] /\ fired = {} /\ made = 0
  /\ calls = <<>> /\ phase = [c \in Callers |-> "idle"]
  /\ waitsOn = [c \in Callers |-> NoWait]

Proposed(a) == eventOf[a] # NoEvent
Busy == {c \in Callers : phase[c] \in {"waiting", "woken"}}
\* (Mutant: a call that waits gives its worker back.)
AlwaysAWorker == TRUE
AWorkerIsFree == Cardinality(Busy) < Workers
Room == <<votes, decisions, eventOf, fired, made>>
ProposalsLeft ==
  made + Cardinality({i \in DOMAIN calls : calls[i].op = "propose"}) < MaxProposals
-------------------------------------------------------------------------------
(* Calls *)

Submit(c, op, a) ==
  /\ phase[c] = "idle" /\ (op = "vote" => c \in Critics) /\ (op = "propose" => ProposalsLeft)
  /\ calls' = Append(calls, [caller |-> c, op |-> op, artifact |-> a])
  /\ phase' = [phase EXCEPT ![c] = "queued"]
  /\ UNCHANGED <<Room, waitsOn>>

\* A worker takes the first call; p is where that leaves the caller.
Handles(op, p) ==
  /\ calls # <<>> /\ Head(calls).op = op /\ AWorkerIsFree
  /\ calls' = Tail(calls) /\ phase' = [phase EXCEPT ![Head(calls).caller] = p]

SubmitProposal ==
  /\ Handles("propose", "idle")
  /\ LET a == Head(calls).artifact IN
     IF Proposed(a) THEN UNCHANGED Room      \* ALREADY_EXISTS
     ELSE /\ made' = made + 1
          /\ eventOf' = [eventOf EXCEPT ![a] = made + 1]
          /\ votes' = [votes EXCEPT ![a] = {}]
          /\ UNCHANGED <<decisions, fired>>
  /\ UNCHANGED waitsOn

\* NOT_FOUND before the proposal, ALREADY_EXISTS for a second vote; also accepted after the
\* decision.
SubmitVote ==
  /\ Handles("vote", "idle")
  /\ LET a == Head(calls).artifact IN
     votes' = IF Proposed(a) THEN [votes EXCEPT ![a] = @ \cup {Head(calls).caller}] ELSE votes
  /\ UNCHANGED <<decisions, eventOf, fired, made, waitsOn>>

AnsweredAtOnce ==
  /\ Handles("wait", "idle")
  /\ LET a == Head(calls).artifact IN
     ~Proposed(a) \/ decisions[a] # NoDecision   \* NOT_FOUND, or the decision
  /\ UNCHANGED <<Room, waitsOn>>
StartsToWait ==
  /\ Handles("wait", "waiting")
  /\ LET a == Head(calls).artifact IN
     /\ Proposed(a) /\ decisions[a] = NoDecision
     /\ waitsOn' = [waitsOn EXCEPT ![Head(calls).caller] = [artifact |-> a, event |-> eventOf[a]]]
  /\ UNCHANGED Room

\* Event.wait returns True
Wakes(c) ==
  /\ phase[c] = "waiting" /\ waitsOn[c].event \in fired
  /\ phase' = [phase EXCEPT ![c] = "woken"]
  /\ UNCHANGED <<Room, calls, waitsOn>>

Returns(c) ==
  /\ phase' = [phase EXCEPT ![c] = "idle"] /\ waitsOn' = [waitsOn EXCEPT ![c] = NoWait]
  /\ UNCHANGED <<Room, calls>>
\* With the lock taken again: answers the decision, or, when everything was cleared
\* meanwhile, DEADLINE_EXCEEDED.
ReadsDecision(c) == phase[c] = "woken" /\ Returns(c)
\* DEADLINE_EXCEEDED. (Mutant: the wait has no time-out.)
WaitsOn(c) == phase[c] = "waiting" /\ waitsOn[c].event \in fired /\ Returns(c)
TimesOut(c) == phase[c] = "waiting" /\ Returns(c)

\* (Mutant: the Event is set only for a proposal that has votes.)
FiresIfVoted(a) == IF votes[a] # {} THEN fired \cup {eventOf[a]} ELSE fired
Fires(a) == fired \cup {eventOf[a]}

\* False, and no change, without a proposal or after a decision
store_decision(a, outcome) ==
  /\ Proposed(a) /\ decisions[a] = NoDecision
  /\ decisions' = [decisions EXCEPT ![a] = outcome]
  /\ fired' = Fires(a)
  /\ UNCHANGED <<votes, eventOf, made, calls, phase, waitsOn>>

RoomClearAll ==
  /\ made > 0
  /\ votes' = [a \in Artifacts |-> {}] /\ decisions' = [a \in Artifacts |-> NoDecision]
  /\ fired' = fired \cup {eventOf[a] : a \in {b \in Artifacts : Proposed(b)}}
  /\ eventOf' = [a \in Artifacts |-> NoEvent]
  /\ UNCHANGED <<made, calls, phase, waitsOn>>

Serve == SubmitProposal \/ SubmitVote \/ AnsweredAtOnce \/ StartsToWait

RoomNext ==
  \/ \E c \in Callers, op \in {"propose", "vote", "wait"}, a \in Artifacts : Submit(c, op, a)
  \/ Serve
  \/ \E c \in Callers : Wakes(c) \/ ReadsDecision(c) \/ TimesOut(c)
  \/ \E a \in Artifacts, outcome \in Outcomes : store_decision(a, outcome)
  \/ RoomClearAll
-------------------------------------------------------------------------------
(* Properties *)

RoomTypeOK ==
  /\ votes \in [Artifacts -> SUBSET Critics] /\ fired \subseteq Events /\ made \in 0..MaxProposals
  /\ decisions \in [Artifacts -> Outcomes \cup {NoDecision}]
  /\ eventOf \in [Artifacts -> Events \cup {NoEvent}] /\ calls \in Seq(Call)
  /\ phase \in [Callers -> {"idle", "queued", "waiting", "woken"}]
  /\ waitsOn \in [Callers -> [artifact : Artifacts, event : Events \cup {NoEvent}]]

\* No wake-up is lost: between the check for a decision and the wait for its Event the
\* lock is free, and a decision stored, or everything cleared, in that window has set the
\* Event the call is about to wait for.
NoLostWakeUp ==
  \A c \in Callers : phase[c] \in {"waiting", "woken"} =>
    \/ waitsOn[c].event \in fired
    \/ /\ eventOf[waitsOn[c].artifact] = waitsOn[c].event
       /\ decisions[waitsOn[c].artifact] = NoDecision

\* Every call is answered: calls that wait may hold all the workers, also those the votes
\* need that would lead to a decision, but not for longer than their time-outs.
CallsAreServed == \A c \in Callers : phase[c] = "queued" ~> phase[c] = "idle"
===============================================================================
