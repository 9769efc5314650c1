----------------------------- MODULE HandoffAgents -----------------------------
(***************************************************************************)
(* The agents of examples/handoff_example.py over the handoff client:      *)
(* sources ask for handoffs, targets look through those pending for them,  *)
(* accept what they can do and have room for, and complete it. Each call   *)
(* of the client is a step; what an agent looks through may be stale.      *)
(***************************************************************************)
EXTENDS HandoffClient

CONSTANTS
  CanDo,         \* pairs of an agent and a handoff it has all capabilities for
  MaxTasks,      \* max_concurrent_tasks
  Unreadable     \* handoffs whose context snapshot does not parse

ASSUME HandoffAgentsAssumption ==
  /\ CanDo \subseteq SharedAgents \X SharedIds /\ MaxTasks \in Nat /\ Unreadable \subseteq SharedIds

VARIABLES
  found,             \* what is left of the pending handoffs an agent looks through
  active_handoffs,
  current_load

agentVars == <<found, active_handoffs, current_load>>
handoffAgentVars == <<offerVars, agentVars>>

HandoffAgentsInit ==
  /\ OfferInit
  /\ found = [a \in SharedAgents |-> <<>>] /\ active_handoffs = [a \in SharedAgents |-> {}]
  /\ current_load = [a \in SharedAgents |-> 0]

check_pending_handoffs(a) ==
  /\ found[a] = <<>> /\ found' = [found EXCEPT ![a] = get_pending_handoffs(a)]
  /\ UNCHANGED <<offerVars, active_handoffs, current_load>>

\* (Mutant: has room for one more than it may have.)
HasRoom(a) == current_load[a] <= MaxTasks
has_capacity(a) == current_load[a] < MaxTasks
can_accept(a, h) == has_capacity(a) /\ <<a, h>> \in CanDo

\* The client raises, and the agent looks no further.
Raises(a) ==
  found' = [found EXCEPT ![a] = <<>>] /\ UNCHANGED <<offerVars, active_handoffs, current_load>>

\* The client accepts before the context is restored.
agent_accepts(a, h) ==
  /\ accept_handoff(h)
  /\ IF h \in Unreadable
     THEN found' = [found EXCEPT ![a] = <<>>] /\ UNCHANGED <<active_handoffs, current_load>>
     ELSE /\ found' = [found EXCEPT ![a] = Tail(@)]
          /\ active_handoffs' = [active_handoffs EXCEPT ![a] = @ \cup {h}]
          /\ current_load' = [current_load EXCEPT ![a] = @ + 1]
agent_rejects(a, h) ==
  /\ reject_handoff(h) /\ found' = [found EXCEPT ![a] = Tail(@)]
  /\ UNCHANGED <<active_handoffs, current_load>>

evaluate_handoff(a) ==
  /\ found[a] # <<>>
  /\ LET h == Head(found[a])
     IN \/ can_accept(a, h) /\ agent_accepts(a, h)
        \/ ~can_accept(a, h) /\ agent_rejects(a, h)
        \/ ~Pending(h) /\ Raises(a)

\* (Mutant: the load stays.)
KeptLoad(a) == current_load[a]
LessLoad(a) == current_load[a] - 1
\* Its own handoff or another agent's. One the client does not complete stays as it is.
agent_completes(a, h) ==
  /\ complete_handoff(h) /\ UNCHANGED found
  /\ IF h \in active_handoffs[a]
     THEN /\ active_handoffs' = [active_handoffs EXCEPT ![a] = @ \ {h}]
          /\ current_load' = [current_load EXCEPT ![a] = LessLoad(a)]
     ELSE UNCHANGED <<active_handoffs, current_load>>

HandoffAgentsNext ==
  \/ \E a \in SharedAgents :
       \/ \E h \in SharedIds : \/ request_handoff(h, a) /\ UNCHANGED agentVars
                               \/ agent_completes(a, h)
       \/ check_pending_handoffs(a) \/ evaluate_handoff(a)
  \/ clear_all_handoffs /\ UNCHANGED agentVars
-------------------------------------------------------------------------------
(* Properties *)

HandoffAgentsTypeOK ==
  /\ OfferTypeOK /\ found \in [SharedAgents -> Seq(SharedIds)]
  /\ active_handoffs \in [SharedAgents -> SUBSET SharedIds] /\ current_load \in [SharedAgents -> Nat]

\* An agent has as many handoffs as its load says and no more than it may, all of them ones
\* it can do, which the client has as accepted or completed for it and for no other; and each
\* accepted handoff is in the hands of the agent it is for, unless its context could not be
\* restored.
WorkIsAccepted ==
  \A a \in SharedAgents :
    /\ current_load[a] = Cardinality(active_handoffs[a]) /\ current_load[a] <= MaxTasks
    /\ \A h \in active_handoffs[a] :
         /\ <<a, h>> \in CanDo
         /\ h \in forgotten \/ (offers[h].to = a /\ offers[h].status \in {"ACCEPTED", "COMPLETED"})
    /\ \A h \in SharedIds \ Unreadable :
         Accepted(h) /\ offers[h].to = a => h \in active_handoffs[a]

\* The same whatever the snapshot holds. A context that does not parse raises after the client
\* has accepted: the handoff stays ACCEPTED and nobody works on it.
AcceptedIsWorkedOn == \A h \in SharedIds : Accepted(h) => h \in active_handoffs[offers[h].to]

\* What an agent has taken up it can complete. When another completed it or all were cleared,
\* the client raises and the agent's load stays.
LoadIsReleased == \A a \in SharedAgents : \A h \in active_handoffs[a] : Accepted(h)
===============================================================================
