---------------------------- MODULE HandoffService ----------------------------
(***************************************************************************)
(* HandoffServiceImpl (coordination/handoff_service.py): requests to take  *)
(* over a task, each with a status, an answer and a place in the pending   *)
(* set of the agent it is for. A handler holds the lock throughout and is  *)
(* one step; an error answer changes nothing.                              *)
(***************************************************************************)
EXTENDS Naturals, FiniteSets

CONSTANTS
  HandoffIds, HandoffAgents,
  CompletionStatuses,  \* what CompleteHandoff is called with; the service takes any status
  NoHandoff

HandoffStatus == {"PENDING", "ACCEPTED", "REJECTED", "COMPLETED", "EXPIRED"}

ASSUME HandoffAssumption ==
  /\ CompletionStatuses \subseteq HandoffStatus
  /\ NoHandoff \notin HandoffAgents \cup HandoffStatus \cup {"accepted", "rejected"}

VARIABLES
  toAgent,      \* _requests: the agent each request is for
  handoffStatus,\* _status
  responses,    \* _responses: "accepted", "rejected"
  pendingOf,    \* _pending_by_agent
  verdicts      \* history: number of calls of AcceptHandoff and RejectHandoff on a
                \* request that were answered without an error

handoffVars == <<toAgent, handoffStatus, responses, pendingOf, verdicts>>

NoneOf(ids) == [h \in ids |-> NoHandoff]

HandoffInit ==
  /\ toAgent = NoneOf(HandoffIds) /\ handoffStatus = NoneOf(HandoffIds)
  /\ responses = NoneOf(HandoffIds) /\ pendingOf = [a \in HandoffAgents |-> {}]
  /\ verdicts = [h \in HandoffIds |-> 0]

Known(h) == toAgent[h] # NoHandoff
\* (Mutant: the request stays in the set of the agent.)
Unlisted(h) == pendingOf
NoLongerPending(h) == [pendingOf EXCEPT ![toAgent[h]] = @ \ {h}]
-------------------------------------------------------------------------------
RequestHandoff(h, a) ==
  /\ ~Known(h)
  /\ toAgent' = [toAgent EXCEPT ![h] = a]
  /\ handoffStatus' = [handoffStatus EXCEPT ![h] = "PENDING"]
  /\ pendingOf' = [pendingOf EXCEPT ![a] = @ \cup {h}]
  /\ UNCHANGED <<responses, verdicts>>

\* AcceptHandoff and RejectHandoff. Whoever calls: the service does not compare the
\* accepting agent with the one the request is for.
\* (Mutant: the status is not looked at.)
AnswerAny(h, status, response) ==
  /\ Known(h)
  /\ handoffStatus' = [handoffStatus EXCEPT ![h] = status]
  /\ responses' = [responses EXCEPT ![h] = response]
  /\ pendingOf' = NoLongerPending(h)
  /\ verdicts' = [verdicts EXCEPT ![h] = @ + 1]
  /\ UNCHANGED toAgent
Answer(h, status, response) ==
  /\ Known(h) /\ handoffStatus[h] = "PENDING"
  /\ handoffStatus' = [handoffStatus EXCEPT ![h] = status]
  /\ responses' = [responses EXCEPT ![h] = response]
  /\ pendingOf' = NoLongerPending(h)
  /\ verdicts' = [verdicts EXCEPT ![h] = @ + 1]
  /\ UNCHANGED toAgent

AcceptHandoff(h) == Answer(h, "ACCEPTED", "accepted")
RejectHandoff(h) == Answer(h, "REJECTED", "rejected")

\* Whatever the status was.
CompleteHandoff(h, status) ==
  /\ Known(h)
  /\ handoffStatus' = [handoffStatus EXCEPT ![h] = status]
  /\ pendingOf' = NoLongerPending(h)
  /\ UNCHANGED <<toAgent, responses, verdicts>>

HandoffClearAll ==
  /\ toAgent' = NoneOf(HandoffIds) /\ handoffStatus' = NoneOf(HandoffIds)
  /\ responses' = NoneOf(HandoffIds) /\ pendingOf' = [a \in HandoffAgents |-> {}]
  /\ verdicts' = [h \in HandoffIds |-> 0]

GetPendingHandoffs(a) == {h \in pendingOf[a] : Known(h) /\ handoffStatus[h] = "PENDING"}

HandoffNext ==
  \/ \E h \in HandoffIds : \/ \E a \in HandoffAgents : RequestHandoff(h, a)
                           \/ AcceptHandoff(h)
                           \/ RejectHandoff(h)
                           \/ \E status \in CompletionStatuses : CompleteHandoff(h, status)
  \/ HandoffClearAll

HandoffSpec == HandoffInit /\ [][HandoffNext]_handoffVars
-------------------------------------------------------------------------------
(* Properties *)

HandoffTypeOK ==
  /\ \A h \in HandoffIds : /\ toAgent[h] \in HandoffAgents \cup {NoHandoff}
                           /\ handoffStatus[h] \in HandoffStatus \cup {NoHandoff}
                           /\ Known(h) <=> handoffStatus[h] # NoHandoff
                           /\ responses[h] \in {"accepted", "rejected", NoHandoff}
                           /\ verdicts[h] \in Nat
  /\ \A a \in HandoffAgents : pendingOf[a] \subseteq {h \in HandoffIds : toAgent[h] = a}

\* Of the agents that accept or reject a handoff one at most is told that it did, whatever
\* is completed or expires in between; the answer on record is the one that agent gave;
\* and an agent is offered every handoff nobody has answered, and no other.
DecidedOnce ==
  /\ \A h \in HandoffIds :
       /\ verdicts[h] <= 1 /\ (responses[h] = NoHandoff <=> verdicts[h] = 0)
       /\ handoffStatus[h] = "ACCEPTED" => responses[h] = "accepted"
       /\ handoffStatus[h] = "REJECTED" => responses[h] = "rejected"
       /\ handoffStatus[h] = "PENDING" => verdicts[h] = 0
  /\ \A a \in HandoffAgents :
       GetPendingHandoffs(a) = {h \in HandoffIds : toAgent[h] = a /\ handoffStatus[h] = "PENDING"}

\* A handoff that was rejected, has expired or is completed stays so. CompleteHandoff
\* writes its status over any other, so the code does not provide it.
FinalHandoffStays ==
  [][\A h \in HandoffIds :
       handoffStatus[h] \in {"REJECTED", "COMPLETED", "EXPIRED"} /\ handoffStatus'[h] # NoHandoff
         => handoffStatus'[h] = handoffStatus[h]]_handoffVars
===============================================================================
