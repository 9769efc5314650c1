---------------------------- MODULE HandoffProtocol ----------------------------
(***************************************************************************)
(* What a handoff promises to the two agents it is between: it is answered *)
(* at most once, completed only after it was accepted, and an end is an    *)
(* end. A handoff may be forgotten at any time, and then does not return.  *)
(***************************************************************************)
CONSTANT Handoffs
VARIABLE stage

Stages == {"none", "PENDING", "ACCEPTED", "REJECTED", "COMPLETED", "forgotten"}

Init == stage = [h \in Handoffs |-> "none"]

Moves(from, to) == \E h \in Handoffs : stage[h] = from /\ stage' = [stage EXCEPT ![h] = to]

Forgets ==
  stage' = [h \in Handoffs |-> IF stage[h] = "none" THEN "none" ELSE "forgotten"]

Next ==
  \/ Moves("none", "PENDING") \/ Moves("PENDING", "ACCEPTED") \/ Moves("PENDING", "REJECTED")
  \/ Moves("ACCEPTED", "COMPLETED") \/ Forgets

Spec == Init /\ [][Next]_stage
===============================================================================
