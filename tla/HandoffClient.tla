----------------------------- MODULE HandoffClient -----------------------------
(***************************************************************************)
(* HandoffClient (clients/handoff.py): handoffs between the agents of one  *)
(* process, kept in dictionaries that all clients share. A method holds    *)
(* the shared lock throughout and is one step; one that raises changes     *)
(* nothing. A handoff is given a new id.                                   *)
(***************************************************************************)
EXTENDS Naturals, FiniteSets, Sequences, SequencesExt

CONSTANTS
  SharedIds,      \* uuid4: bounds the handoffs requested over time
  SharedAgents,
  NoOffer

OfferStatus == {"PENDING", "ACCEPTED", "REJECTED", "COMPLETED"}
Offers == [to : SharedAgents, status : OfferStatus]

ASSUME OfferAssumption == NoOffer \notin Offers

VARIABLES
  offers,     \* _shared_handoffs: the agent a handoff is for and its status
  listed,     \* _shared_pending_by_agent
  forgotten   \* the ids that were cleared

offerVars == <<offers, listed, forgotten>>

OfferInit ==
  /\ offers = [h \in SharedIds |-> NoOffer] /\ listed = [a \in SharedAgents |-> <<>>]
  /\ forgotten = {}

Offered(h) == offers[h] # NoOffer
WithOfferStatus(h, status) == offers' = [offers EXCEPT ![h].status = status]

request_handoff(h, a) ==
  /\ ~Offered(h) /\ h \notin forgotten
  /\ offers' = [offers EXCEPT ![h] = [to |-> a, status |-> "PENDING"]]
  /\ listed' = [listed EXCEPT ![a] = Append(@, h)] /\ UNCHANGED forgotten

\* accept_handoff and reject_handoff
Pending(h) == Offered(h) /\ offers[h].status = "PENDING"
answer_handoff(h, status) ==
  /\ Pending(h) /\ WithOfferStatus(h, status)
  /\ listed' = [listed EXCEPT ![offers[h].to] = RemoveFirst(@, h)] /\ UNCHANGED forgotten
accept_handoff(h) == answer_handoff(h, "ACCEPTED")
reject_handoff(h) == answer_handoff(h, "REJECTED")

Accepted(h) == Offered(h) /\ offers[h].status = "ACCEPTED"
\* (Mutant: whatever the status is.)
KnownOnly(h) == Offered(h)
Completable(h) == Accepted(h)
complete_handoff(h) ==
  /\ Completable(h) /\ WithOfferStatus(h, "COMPLETED")
  /\ UNCHANGED <<listed, forgotten>>

clear_all_handoffs ==
  /\ forgotten' = forgotten \cup {h \in SharedIds : Offered(h)}
  /\ offers' = [h \in SharedIds |-> NoOffer] /\ listed' = [a \in SharedAgents |-> <<>>]

get_pending_handoffs(a) ==
  LET pending == {h \in SharedIds : Pending(h)}
      shown[i \in 0..Len(listed[a])] ==
        IF i = 0 THEN <<>>
        ELSE IF listed[a][i] \in pending THEN Append(shown[i - 1], listed[a][i]) ELSE shown[i - 1]
  IN shown[Len(listed[a])]

OfferNext ==
  \/ \E h \in SharedIds : \/ \E a \in SharedAgents : request_handoff(h, a)
                          \/ accept_handoff(h) \/ reject_handoff(h) \/ complete_handoff(h)
  \/ clear_all_handoffs
-------------------------------------------------------------------------------
(* Properties *)

OfferTypeOK ==
  /\ offers \in [SharedIds -> Offers \cup {NoOffer}]
  /\ listed \in [SharedAgents -> Seq(SharedIds)] /\ forgotten \subseteq SharedIds
  \* an agent is shown its pending handoffs, each once
  /\ \A a \in SharedAgents :
       /\ IsInjective(get_pending_handoffs(a))
       /\ ToSet(get_pending_handoffs(a)) = {h \in SharedIds : Pending(h) /\ offers[h].to = a}

Stage(h) ==
  IF h \in forgotten THEN "forgotten" ELSE IF Offered(h) THEN offers[h].status ELSE "none"

\* What the client does to a handoff is what the protocol allows: of accept, reject and
\* complete, by any agents in any order, exactly those take effect that the protocol has
\* a step for.
Protocol == INSTANCE HandoffProtocol WITH Handoffs <- SharedIds,
                                          stage <- [h \in SharedIds |-> Stage(h)]
FollowsProtocol == Protocol!Spec
===============================================================================
