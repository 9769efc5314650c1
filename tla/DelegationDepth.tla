----------------------------- MODULE DelegationDepth -----------------------------
(***************************************************************************)
(* How deep a delegation is, to a gateway (gateway.py): the depth of its   *)
(* parent, if whoever handles the request passes the parent on and the     *)
(* gateway knows it, and otherwise what it noted before or what the        *)
(* request's own budget claims. Requests come in any order, and again.     *)
(***************************************************************************)
EXTENDS Naturals, FiniteSets
CONSTANTS
  DelegationIds,
  ParentOf,    \* the parent of each, or NoParent
  MaxDepth,    \* max_delegation_depth
  NoParent, NotNoted

ASSUME DepthAssumption ==
  /\ MaxDepth \in Nat \ {0} /\ NotNoted \notin 0..MaxDepth /\ NoParent \notin DelegationIds
  /\ ParentOf \in [DelegationIds -> DelegationIds \cup {NoParent}]

VARIABLES
  depth_registry,   \* by request id, NotNoted for one that was not accepted or registered
  inTurn            \* history: the delegations without a parent, and those that were first
                    \* noted with a parent who was in turn; all of them by a request

depthVars == <<depth_registry, inTurn>>

DepthInit == depth_registry = [d \in DelegationIds |-> NotNoted] /\ inTurn = {}

Noted(d) == depth_registry[d] # NotNoted
Lower(a, b) == IF a < b THEN a ELSE b

\* passed: the parent the caller passes on, if any; claimed: current_depth of the budget.
\* (Mutant: the budget's word is taken.)
ClaimedFirst(d, passed, claimed) == claimed
verify_depth(d, passed, claimed) ==
  IF passed # NoParent /\ Noted(passed) THEN depth_registry[passed] + 1
  ELSE IF Noted(d) THEN depth_registry[d] ELSE claimed

\* limit: max_delegation_depth of the budget, 0 for none.
depth_limit(limit) == IF limit = 0 THEN MaxDepth ELSE Lower(MaxDepth, limit)

Descends(d, p) == Noted(p) /\ p \in inTurn
accept_at_depth(d, passed, claimed, limit) ==
  LET depth == verify_depth(d, passed, claimed) IN
  /\ passed \in {ParentOf[d], NoParent} /\ depth < depth_limit(limit)
  /\ depth_registry' = [depth_registry EXCEPT ![d] = depth]
  /\ inTurn' = IF ~Noted(d) /\ (ParentOf[d] = NoParent \/ (passed # NoParent /\ Descends(d, passed)))
               THEN inTurn \cup {d} ELSE inTurn

\* The application's own word. Nothing it speaks of is in turn any more, nor what descends from it.
register_verified_depth(d, depth) ==
  /\ depth_registry' = [depth_registry EXCEPT ![d] = depth]
  /\ inTurn' = {}

DepthNext ==
  \E d \in DelegationIds :
    \/ \E passed \in DelegationIds \cup {NoParent}, claimed \in 0..MaxDepth, limit \in 0..MaxDepth :
         accept_at_depth(d, passed, claimed, limit)
    \/ \E depth \in 0..MaxDepth : register_verified_depth(d, depth)
-------------------------------------------------------------------------------
(* Properties *)

DepthTypeOK ==
  /\ depth_registry \in [DelegationIds -> 0..MaxDepth \cup {NotNoted}]
  /\ inTurn \subseteq {d \in DelegationIds : Noted(d)}

\* Delegations that come after their parents and with them are as deep as the gateway says,
\* whatever their budgets claim and however often their requests are sent again: one deeper
\* than the parent and never too deep, so no chain of them is longer than the limit.
DepthsAreVerified ==
  \A d \in inTurn :
    /\ depth_registry[d] < MaxDepth
    /\ ParentOf[d] # NoParent => depth_registry[d] = depth_registry[ParentOf[d]] + 1

\* The same of all that are noted. One whose parent is not passed on, or comes later, is as deep
\* as it claims.
EveryDepthIsVerified ==
  \A d \in DelegationIds : Noted(d) /\ ParentOf[d] # NoParent /\ Noted(ParentOf[d]) =>
    depth_registry[d] = depth_registry[ParentOf[d]] + 1
===============================================================================
