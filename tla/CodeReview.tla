------------------------------- MODULE CodeReview -------------------------------
(***************************************************************************)
(* One code review by the agents of sw4rm_multi_agent.py: a coordinator,   *)
(* analysts and a critic, coroutines of one process that talk through the  *)
(* router and share a negotiation room. An agent handles its messages one  *)
(* after the other; start_review runs beside the coordinator's loop. What  *)
(* a handler does to its agent's state and what it sends are one step:     *)
(* only the others see it part by part, and they act on one message each.  *)
(* A message for an agent whose stream is not open, or whose send fails,   *)
(* is lost without its sender noticing; the router may deliver one again.  *)
(***************************************************************************)
EXTENDS Naturals, FiniteSets, Sequences, SequencesExt

CONSTANTS
  Analysts,     \* worker_ids
  Coordinator, Critic,
  MaxLost,      \* bound on the messages lost and the handlers that raise
  MaxAgain      \* bound on the messages delivered twice

\* The example starts two analysts, and the coordinator counts to three.
ASSUME ReviewAssumption ==
  /\ IsFiniteSet(Analysts) /\ Cardinality(Analysts) = 2 /\ "plan" \notin Analysts
  /\ Coordinator \notin Analysts /\ Critic \notin Analysts \cup {Coordinator}
  /\ MaxLost \in Nat /\ MaxAgain \in Nat

Voters == Analysts \cup {Critic}
Parties == Voters \cup {Coordinator}
Letters == [type : {"review_task", "findings", "review_findings", "critic_review",
                    "vote_request", "vote_result"}, from : Parties]

VARIABLES
  inbox,       \* the messages on their way to each agent
  streaming,   \* the agents whose streams are open
  assigning,   \* the analysts start_review has yet to send their task, in order; <<"plan">>
               \* while it waits for the model
  pending,     \* pending_reviews' workers
  findings,    \* collected_findings: whose, as often as they came
  proposed, cast, decided,   \* the negotiation room: the proposal, who voted, and the
                              \* votes the decision was made on
  orchestrator,   \* "starting", "waiting", "reported", "timed out"
  lost, again     \* messages lost or handlers that raised, messages delivered again

reviewVars ==
  <<inbox, streaming, assigning, pending, findings, proposed, cast, decided, orchestrator,
    lost, again>>
ReviewRoom == <<proposed, cast, decided>>
NotYet == {Coordinator}   \* no decision: the coordinator has no vote

ReviewInit ==
  /\ inbox = [a \in Parties |-> <<>>] /\ streaming = {} /\ assigning = <<"plan">>
  /\ pending = {} /\ findings = <<>> /\ proposed = FALSE /\ cast = {} /\ decided = NotYet
  /\ orchestrator = "starting" /\ lost = 0 /\ again = 0

Completed == decided # NotYet   \* _completion_event
Letter(type, from) == [type |-> type, from |-> from]
Analyzed == assigning # <<"plan">>
-------------------------------------------------------------------------------
(* The router's part, and what a handler leaves to it *)

\* `sent` maps agents to the letters an agent sends them, now that `taken` of its own
\* inbox is handled. What does not reach a stream is lost.
Delivers(rest, sent, reached) ==
  /\ inbox' = [a \in Parties |-> IF a \in reached THEN Append(rest[a], sent[a]) ELSE rest[a]]
  /\ lost' = lost + Cardinality(DOMAIN sent \ reached)
SendsOut(rest, sent) ==
  \E reached \in SUBSET (DOMAIN sent \cap streaming) :
    /\ lost + Cardinality(DOMAIN sent \ reached) <= MaxLost
    /\ Delivers(rest, sent, reached)
ToEach(agents, letter) == [a \in agents |-> letter]

Working == orchestrator \in {"starting", "waiting"}

\* Agent a's loop has the next letter, of this type, in hand; it may come again.
Receives(a, type) ==
  /\ Working /\ a \in streaming /\ inbox[a] # <<>> /\ Head(inbox[a]).type = type
Handled(a) == [inbox EXCEPT ![a] = Tail(@)]
Sender(a) == Head(inbox[a]).from

OpensStream(a) ==
  /\ Working /\ a \notin streaming /\ streaming' = streaming \cup {a}
  /\ UNCHANGED <<inbox, assigning, pending, findings, ReviewRoom, orchestrator, lost, again>>
DeliversAgain(a) ==
  /\ Working /\ inbox[a] # <<>> /\ again < MaxAgain /\ again' = again + 1
  /\ inbox' = [inbox EXCEPT ![a] = Append(@, Head(@))]
  /\ UNCHANGED <<streaming, assigning, pending, findings, ReviewRoom, orchestrator, lost>>
\* The model's answer fails, or the message is malformed: acknowledged as failed.
HandlerRaises(a) ==
  /\ Working /\ a \in streaming /\ inbox[a] # <<>> /\ lost < MaxLost /\ lost' = lost + 1
  /\ inbox' = Handled(a)
  /\ UNCHANGED <<streaming, assigning, pending, findings, ReviewRoom, orchestrator, again>>
-------------------------------------------------------------------------------
(* The coordinator *)

\* start_review, called by the orchestrator, up to its first send; then a send each
PlansReview ==
  /\ Working /\ ~Analyzed /\ assigning' = SetToSeq(Analysts)
  /\ pending' = Analysts /\ findings' = <<>>
  /\ UNCHANGED <<inbox, streaming, ReviewRoom, orchestrator, lost, again>>
AssignsTask ==
  /\ Working /\ Analyzed /\ assigning # <<>> /\ assigning' = Tail(assigning)
  /\ SendsOut(inbox, ToEach({Head(assigning)}, Letter("review_task", Coordinator)))
  /\ UNCHANGED <<streaming, pending, findings, ReviewRoom, orchestrator, again>>
StartsWaiting ==
  /\ orchestrator = "starting" /\ assigning = <<>> /\ orchestrator' = "waiting"
  /\ UNCHANGED <<inbox, streaming, assigning, pending, findings, ReviewRoom, lost, again>>

\* (Mutant: those of one analyst are enough.)
AnyIn(left) == left # Analysts
AllIn(left) == left = {}
collect_findings ==
  /\ Receives(Coordinator, "findings")
  /\ findings' = Append(findings, Sender(Coordinator))
  /\ pending' = pending \ {Sender(Coordinator)}
  /\ SendsOut(Handled(Coordinator),
           IF AllIn(pending') THEN ToEach({Critic}, Letter("review_findings", Coordinator)) ELSE <<>>)
  /\ UNCHANGED <<streaming, assigning, ReviewRoom, orchestrator, again>>

\* The room refuses a second proposal: the handler raises before it asks for votes.
handle_critic_review ==
  /\ Receives(Coordinator, "critic_review") /\ proposed' = TRUE
  /\ SendsOut(Handled(Coordinator),
           IF proposed THEN <<>> ELSE ToEach(Voters, Letter("vote_request", Coordinator)))
  /\ UNCHANGED <<streaming, assigning, pending, findings, cast, decided, orchestrator, again>>

\* Later results find the decision taken and raise. (Mutant: two votes will do.)
TwoVoted == Cardinality(cast) >= 2
AllVoted == Cardinality(cast) >= 3
handle_vote_result ==
  /\ Receives(Coordinator, "vote_result")
  /\ decided' = IF AllVoted /\ ~Completed THEN cast ELSE decided
  /\ SendsOut(Handled(Coordinator), <<>>)
  /\ UNCHANGED <<streaming, assigning, pending, findings, proposed, cast, orchestrator, again>>
-------------------------------------------------------------------------------
(* Analysts and critic *)

do_review(a) ==
  /\ a \in Analysts /\ Receives(a, "review_task")
  /\ SendsOut(Handled(a), ToEach({Coordinator}, Letter("findings", a)))
  /\ UNCHANGED <<streaming, assigning, pending, findings, ReviewRoom, orchestrator, again>>
review_findings ==
  /\ Receives(Critic, "review_findings")
  /\ SendsOut(Handled(Critic), ToEach({Coordinator}, Letter("critic_review", Critic)))
  /\ UNCHANGED <<streaming, assigning, pending, findings, ReviewRoom, orchestrator, again>>
\* The room refuses a second vote: the handler raises before it reports.
cast_vote(a) ==
  /\ a \in Voters /\ Receives(a, "vote_request")
  /\ cast' = cast \cup {a}
  /\ SendsOut(Handled(a),
           IF a \in cast THEN <<>> ELSE ToEach({Coordinator}, Letter("vote_result", a)))
  /\ UNCHANGED <<streaming, assigning, pending, findings, proposed, decided, orchestrator, again>>
-------------------------------------------------------------------------------
(* The orchestrator: once it returns or gives up, it stops the agents *)

OrchestratorEnds(how) ==
  /\ orchestrator' = how
  /\ UNCHANGED <<inbox, streaming, assigning, pending, findings, ReviewRoom, lost, again>>
Reports == orchestrator = "waiting" /\ Completed /\ OrchestratorEnds("reported")
GivesUpWaiting == orchestrator = "waiting" /\ ~Completed /\ OrchestratorEnds("timed out")

HandlesMessage ==
  \/ collect_findings \/ handle_critic_review \/ handle_vote_result \/ review_findings
  \/ \E a \in Voters : do_review(a) \/ cast_vote(a)
ReviewNext ==
  \/ \E a \in Parties : OpensStream(a) \/ DeliversAgain(a) \/ HandlerRaises(a)
  \/ PlansReview \/ AssignsTask \/ StartsWaiting \/ HandlesMessage
  \/ Reports \/ GivesUpWaiting
-------------------------------------------------------------------------------
(* Properties *)

ReviewTypeOK ==
  /\ inbox \in [Parties -> Seq(Letters)] /\ streaming \subseteq Parties
  /\ assigning = <<"plan">> \/ assigning \in Seq(Analysts)
  /\ pending \subseteq Analysts /\ findings \in Seq(Analysts)
  /\ proposed \in BOOLEAN /\ cast \subseteq Voters /\ decided \in {NotYet} \cup SUBSET Voters
  /\ orchestrator \in {"starting", "waiting", "reported", "timed out"}
  /\ lost \in 0..MaxLost /\ again \in 0..MaxAgain

Quiet == assigning = <<>> /\ \A a \in Parties : inbox[a] = <<>>
\* The agents never wait for each other: when no message is under way and none was lost,
\* whichever were delivered twice and in whatever order they came, there is a decision. It
\* counts everybody's vote, on findings of all analysts.
ReviewIsComplete ==
  /\ Quiet /\ lost = 0 => Completed
  /\ Completed => decided = Voters /\ ToSet(findings) = Analysts

\* The critic is given each analyst's findings once. A message delivered again is handled
\* again, so the code does not provide it.
FindingsOnce == IsInjective(findings)
===============================================================================
