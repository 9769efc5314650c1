-------------------------------- MODULE Gateway --------------------------------
(***************************************************************************)
(* GatewayAgent with its PeerSelector (gateway.py) and CancellationManager *)
(* (cancellation.py), and delegate_to_swarm (delegation.py), the loop with *)
(* which a swarm hands a task to them: admission by capacity, redirects,   *)
(* retries on overload, budget, cancellation. A request or an answer may   *)
(* be lost, which raises out of the loop. A gateway's method is one step.  *)
(* Checks that only look at the request (who it is for, its budget and     *)
(* depth) are one refusal that may happen to any request; which peers are  *)
(* healthy and out of their cooldown is left open. Times are kept as what  *)
(* is left or has passed of them.                                          *)
(***************************************************************************)
EXTENDS Naturals, FiniteSets

CONSTANTS
  Gateways, Delegations,
  Children,       \* the pairs (parent, child) that register_child_delegation may be given
  MaxActive,      \* max_concurrent_delegations
  Spillover,      \* the delegations with allow_spillover_routing
  WallTime,       \* wall_time_remaining_ms, in ticks
  Deadline,       \* deadline_epoch_ms, in ticks
  MaxRetries,     \* max_retries_on_overloaded
  MaxRedirects,   \* max_redirects
  GracePeriod,    \* MIN_GRACE_PERIOD_MS, in ticks
  MaxCalls,       \* bound on the times a request_id is used
  CancelAt,       \* bound: the gateways that are told to cancel, and of children
  NoTime

ASSUME GatewayAssumption ==
  /\ MaxActive \in Nat /\ WallTime \in Nat /\ Deadline \in Nat /\ GracePeriod \in Nat
  /\ MaxRetries \in Nat /\ MaxRedirects \in Nat \ {0} /\ MaxCalls \in Nat
  /\ NoTime \notin 0..GracePeriod
  /\ Spillover \subseteq Delegations /\ CancelAt \subseteq Gateways /\ Gateways # {}
  /\ Gateways \cap {"none", "accepted", "overloaded", "error"} = {}

VARIABLES
  active,       \* _active_delegations of each gateway
  cancelAge,    \* cancellation_flags: how long ago a gateway was last told to cancel a
                \* delegation (GracePeriod stands for longer)
  childrenOf,   \* child_delegations of each gateway
  tick,         \* past Deadline nothing more changes
  at,           \* where each delegate_to_swarm is: "idle", "sent", "answered", "asleep", "done"
  answer,       \* the gateway's answer, in the end the call's
  loop,         \* the loop's locals: the gateway it talks to, those it has visited, retries,
                \* what is left of wall_time_remaining_ms and of its sleep
  callsMade

gatewayVars == <<active, cancelAge, childrenOf>>
loopVars == <<at, answer, loop, callsMade>>
delegationVars == <<gatewayVars, loopVars, tick>>

Refused == {"invalid", "cancelled", "expired"}

Loop == [target : Gateways, visited : SUBSET Gateways, tries : 0..MaxRetries,
         wall : 0..WallTime, sleep : 0..WallTime]
NewLoop(g) == [target |-> g, visited |-> {g}, tries |-> 0, wall |-> WallTime, sleep |-> 0]
NoLoop == NewLoop(CHOOSE g \in Gateways : TRUE)

DelegationInit ==
  /\ active = [g \in Gateways |-> {}]
  /\ cancelAge = [g \in Gateways |-> [d \in Delegations |-> NoTime]]
  /\ childrenOf = [g \in Gateways |-> {}]
  /\ tick = 0
  /\ at = [d \in Delegations |-> "idle"] /\ answer = [d \in Delegations |-> "none"]
  /\ loop = [d \in Delegations |-> NoLoop] /\ callsMade = [d \in Delegations |-> 0]
-------------------------------------------------------------------------------
(* A gateway *)

is_cancelled(g, d) == cancelAge[g][d] # NoTime
is_grace_expired(g, d) == cancelAge[g][d] = GracePeriod
Expired == tick > Deadline

\* select_peer finds one of them or, when it deems none healthy, nobody.
RedirectPeers(g) == Gateways \ {g}
AtCapacity(g) == Cardinality(active[g]) >= MaxActive

\* handle_handoff_request: d's request meets gateway g, which answers a.
\* (Mutant: the delegation is claimed before a peer is looked for.)
ClaimFirst(g, d, a) == a = "accepted" \/ a \in Gateways
Claims(g, d, a) == a = "accepted"
Answers(g, d, a) ==
  \/ a = "invalid"
  \/ a = "cancelled" /\ is_cancelled(g, d)
  \/ /\ ~is_cancelled(g, d)
     /\ \/ a = "expired" /\ Expired
        \/ /\ ~Expired
           /\ \/ AtCapacity(g) /\ (a = "overloaded" \/ (d \in Spillover /\ a \in RedirectPeers(g)))
              \/ ~AtCapacity(g) /\ a = "accepted"

handle_handoff_request(d) ==
  /\ at[d] = "sent"
  /\ \E a \in Refused \cup {"overloaded", "accepted"} \cup Gateways :
       /\ Answers(loop[d].target, d, a)
       /\ answer' = [answer EXCEPT ![d] = a]
       /\ active' = IF Claims(loop[d].target, d, a)
                    THEN [active EXCEPT ![loop[d].target] = @ \cup {d}] ELSE active
  /\ at' = [at EXCEPT ![d] = "answered"]
  /\ UNCHANGED <<cancelAge, childrenOf, loop, callsMade, tick>>

complete_delegation(g, d) ==
  /\ d \in active[g] /\ active' = [active EXCEPT ![g] = @ \ {d}]
  /\ UNCHANGED <<cancelAge, childrenOf, loopVars, tick>>

\* The delegation and the children it has so far, not theirs; a second cancel starts the
\* grace period anew.
handle_cancel_delegation(g, d) ==
  /\ g \in CancelAt
  /\ cancelAge' = [cancelAge EXCEPT ![g] =
       [c \in Delegations |-> IF c = d \/ <<d, c>> \in childrenOf[g] THEN 0 ELSE @[c]]]
  /\ UNCHANGED <<active, childrenOf, loopVars, tick>>

register_child_delegation(g, d, c) ==
  /\ g \in CancelAt /\ <<d, c>> \in Children /\ childrenOf' = [childrenOf EXCEPT ![g] = @ \cup {<<d, c>>}]
  /\ UNCHANGED <<active, cancelAge, loopVars, tick>>

\* (Mutant: whatever is cancelled is forced.)
CancelledOnes(g) == {d \in active[g] : is_cancelled(g, d)}
Forced(g) == {d \in active[g] : is_grace_expired(g, d)}
force_preempt_expired_delegations(g) ==
  /\ Forced(g) # {} /\ active' = [active EXCEPT ![g] = @ \ Forced(g)]
  /\ UNCHANGED <<cancelAge, childrenOf, loopVars, tick>>
-------------------------------------------------------------------------------
(* delegate_to_swarm *)

Monus(m, n) == IF m > n THEN m - n ELSE 0
BudgetExhausted(d) == loop[d].wall = 0 \/ Expired

Returns(d, a) ==
  /\ at' = [at EXCEPT ![d] = "done"] /\ loop' = [loop EXCEPT ![d] = NoLoop]
  /\ answer' = [answer EXCEPT ![d] = a]
LoopOnly == UNCHANGED <<gatewayVars, callsMade, tick>>

\* The head of the loop: the request goes out, unless the budget is used up.
Sends(d, l) ==
  IF l.wall = 0 \/ Expired THEN Returns(d, "timedOut")
  ELSE /\ at' = [at EXCEPT ![d] = "sent"] /\ loop' = [loop EXCEPT ![d] = l]
       /\ answer' = [answer EXCEPT ![d] = "none"]

delegate_to_swarm(d, g) ==
  /\ at[d] \in {"idle", "done"} /\ callsMade[d] < MaxCalls
  /\ callsMade' = [callsMade EXCEPT ![d] = @ + 1]
  /\ Sends(d, NewLoop(g)) /\ UNCHANGED <<gatewayVars, tick>>

\* The request or the answer is lost, or the call's own time-out ends it.
Fails(d) == at[d] \in {"sent", "answered"} /\ Returns(d, "error") /\ LoopOnly

\* (Mutant: the budget is looked at before the answer.)
TakenInTime(d) == answer[d] = "accepted" /\ ~BudgetExhausted(d)
Taken(d) == answer[d] = "accepted"

\* max_redirects counts the gateways after the first.
Redirected(d, g) ==
  IF g \in loop[d].visited THEN Returns(d, "invalid")
  ELSE IF Cardinality(loop[d].visited) > MaxRedirects THEN Returns(d, g)
  ELSE Sends(d, [loop[d] EXCEPT !.target = g, !.visited = @ \cup {g}])

\* w: retry_after_ms or the back-off, with its jitter
Overloaded(d) ==
  \E w \in 0..WallTime :
    IF \/ loop[d].tries = MaxRetries
       \/ w = 0 \/ w > loop[d].wall \/ tick + w > Deadline
    THEN Returns(d, "overloaded")
    ELSE /\ at' = [at EXCEPT ![d] = "asleep"] /\ answer' = [answer EXCEPT ![d] = "none"]
         /\ loop' = [loop EXCEPT ![d] = [loop[d] EXCEPT !.tries = @ + 1, !.sleep = w]]

Receives(d) ==
  /\ at[d] = "answered"
  /\ \/ Taken(d) /\ Returns(d, "accepted")
     \/ ~Taken(d) /\ BudgetExhausted(d) /\ Returns(d, "timedOut")
     \/ /\ ~Taken(d) /\ ~BudgetExhausted(d)
        /\ \/ answer[d] \in Refused /\ Returns(d, answer[d])
           \/ answer[d] \in Gateways /\ Redirected(d, answer[d])
           \/ answer[d] = "overloaded" /\ Overloaded(d)
  /\ LoopOnly

WakesUp(d) ==
  /\ at[d] = "asleep" /\ loop[d].sleep = 0 /\ Sends(d, loop[d]) /\ LoopOnly

\* Whoever waits for an answer or sleeps uses up wall time.
TimePasses ==
  /\ tick <= Deadline /\ tick' = tick + 1
  /\ loop' = [d \in Delegations |->
       IF at[d] \in {"sent", "answered", "asleep"}
       THEN [loop[d] EXCEPT !.wall = Monus(@, 1), !.sleep = Monus(@, 1)] ELSE loop[d]]
  /\ cancelAge' = [g \in Gateways |-> [d \in Delegations |->
       IF cancelAge[g][d] \in 0..(GracePeriod - 1) THEN cancelAge[g][d] + 1 ELSE cancelAge[g][d]]]
  /\ UNCHANGED <<active, childrenOf, at, answer, callsMade>>

GatewayStep(g) ==
  \/ \E d \in Delegations : \/ complete_delegation(g, d) \/ handle_cancel_delegation(g, d)
                            \/ \E c \in Delegations : register_child_delegation(g, d, c)
  \/ force_preempt_expired_delegations(g)
LoopStep(d) == handle_handoff_request(d) \/ Fails(d) \/ Receives(d) \/ WakesUp(d)

DelegationNext ==
  \/ \E g \in Gateways : GatewayStep(g)
  \/ \E d \in Delegations : LoopStep(d) \/ \E g \in Gateways : delegate_to_swarm(d, g)
  \/ TimePasses
-------------------------------------------------------------------------------
(* Properties *)

DelegationTypeOK ==
  /\ \A g \in Gateways : active[g] \subseteq Delegations /\ childrenOf[g] \subseteq Children
  /\ cancelAge \in [Gateways -> [Delegations -> 0..GracePeriod \cup {NoTime}]]
  /\ tick \in 0..(Deadline + 1) /\ loop \in [Delegations -> Loop]
  /\ at \in [Delegations -> {"idle", "sent", "answered", "asleep", "done"}]
  /\ callsMade \in [Delegations -> 0..MaxCalls]

\* Where a call was answered, both sides agree: a delegation that the caller believes to be
\* refused, timed out or redirected is active nowhere, one it is still negotiating only at
\* the gateway whose answer is under way, and never is it active at two gateways. (A call
\* that fails because an answer was lost leaves the delegation active where it was accepted;
\* a second call with the same request_id may then be accepted elsewhere.)
DelegationIsKnown ==
  \A d \in Delegations :
    LET holders == {g \in Gateways : d \in active[g]} IN
    /\ Cardinality(holders) <= 1
    /\ holders # {} => at[d] \in {"answered", "done"} /\ answer[d] \in {"accepted", "error"}

\* Every call of delegate_to_swarm returns: redirects, retries and waits are bounded by the
\* policy, the gateways visited and the budget together.
DelegationEnds == \A d \in Delegations : at[d] # "idle" ~> at[d] = "done"
===============================================================================
