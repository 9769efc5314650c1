------------------------------- MODULE SdkProofs -------------------------------
(***************************************************************************)
(* The parts of the SDK that MCSdk composes: the delegation gateway, the   *)
(* thread spawner, the rate limiter and the configuration.                 *)
(***************************************************************************)
EXTENDS MCSdk, FiniteSetTheorems, TLAPS

(* The gateway *)

\* What the answers and the records of a gateway can be.
GatewayTypes ==
  /\ active \in [Gateways -> SUBSET Delegations] /\ childrenOf \in [Gateways -> SUBSET Children]
  /\ cancelAge \in [Gateways -> [Delegations -> 0..GracePeriod \cup {NoTime}]]
  /\ tick \in 0..(Deadline + 1) /\ loop \in [Delegations -> Loop]
  /\ at \in [Delegations -> {"idle", "sent", "answered", "asleep", "done"}]
  /\ answer \in [Delegations -> Refused \cup {"none", "overloaded", "accepted", "timedOut", "error"}
                                        \cup Gateways]
  /\ callsMade \in [Delegations -> 0..MaxCalls]

\* What a gateway holds is what it accepted in the one call made for it.
Holders ==
  \A d \in Delegations :
    /\ at[d] # "idle" => callsMade[d] # 0
    /\ at[d] = "answered" => answer[d] # "error"
    /\ \A g \in Gateways : d \in active[g] => /\ at[d] \in {"answered", "done"}
                                              /\ answer[d] \in {"accepted", "error"}
                                              /\ \A h \in Gateways : d \in active[h] => h = g

\* A fresh loop is one.
LEMMA LoopFacts ==
  /\ NoLoop \in Loop
  /\ \A g \in Gateways : NewLoop(g) \in Loop
<1>1. \A g \in Gateways : NewLoop(g) \in Loop
  BY GatewayAssumption DEF NewLoop, Loop
<1>2. (CHOOSE g \in Gateways : TRUE) \in Gateways
  BY GatewayAssumption
<1> QED BY <1>1, <1>2 DEF NoLoop

\* Nothing is delegated yet.
LEMMA InitGateway == DelegationInit => GatewayTypes /\ Holders
<1> SUFFICES ASSUME DelegationInit PROVE GatewayTypes /\ Holders
  OBVIOUS
<1>1. tick \in 0..(Deadline + 1) /\ callsMade \in [Delegations -> 0..MaxCalls]
  BY GatewayAssumption DEF DelegationInit
<1>2. loop \in [Delegations -> Loop]
  BY LoopFacts DEF DelegationInit
<1>3. /\ active \in [Gateways -> SUBSET Delegations] /\ childrenOf \in [Gateways -> SUBSET Children]
      /\ cancelAge \in [Gateways -> [Delegations -> 0..GracePeriod \cup {NoTime}]]
  BY DEF DelegationInit
<1>4. /\ at \in [Delegations -> {"idle", "sent", "answered", "asleep", "done"}]
      /\ answer \in [Delegations -> Refused \cup {"none", "overloaded", "accepted", "timedOut",
                                                  "error"} \cup Gateways]
  BY DEF DelegationInit
<1>5. Holders
  BY DEF DelegationInit, Holders
<1> QED BY <1>1, <1>2, <1>3, <1>4, <1>5 DEF GatewayTypes

\* A call returns.
LEMMA ReturnsFacts ==
  ASSUME GatewayTypes, NEW d \in Delegations, NEW a, Returns(d, a),
         a \in Refused \cup {"overloaded", "accepted", "timedOut", "error"} \cup Gateways,
         UNCHANGED <<active, childrenOf, tick>>,
         cancelAge' \in [Gateways -> [Delegations -> 0..GracePeriod \cup {NoTime}]],
         callsMade' \in [Delegations -> 0..MaxCalls]
  PROVE  /\ GatewayTypes' /\ at'[d] = "done" /\ answer'[d] = a
         /\ \A c \in Delegations : c # d => at'[c] = at[c] /\ answer'[c] = answer[c]
<1>1. at' = [at EXCEPT ![d] = "done"] /\ answer' = [answer EXCEPT ![d] = a]
      /\ loop' = [loop EXCEPT ![d] = NoLoop]
  BY DEF Returns
<1>2. loop' \in [Delegations -> Loop]
  BY <1>1, LoopFacts DEF GatewayTypes
<1>3. /\ at' \in [Delegations -> {"idle", "sent", "answered", "asleep", "done"}]
      /\ answer' \in [Delegations -> Refused \cup {"none", "overloaded", "accepted", "timedOut",
                                                   "error"} \cup Gateways]
  BY <1>1 DEF GatewayTypes
<1>4. /\ at'[d] = "done" /\ answer'[d] = a
      /\ \A c \in Delegations : c # d => at'[c] = at[c] /\ answer'[c] = answer[c]
  BY <1>1 DEF GatewayTypes
<1> QED BY <1>2, <1>3, <1>4 DEF GatewayTypes

\* A request goes out, or the call ends because its budget is used up.
LEMMA SendsFacts ==
  ASSUME GatewayTypes, NEW d \in Delegations, NEW l \in Loop, Sends(d, l),
         UNCHANGED <<active, childrenOf, cancelAge, tick>>,
         callsMade' \in [Delegations -> 0..MaxCalls]
  PROVE  /\ GatewayTypes' /\ at'[d] \in {"sent", "done"}
         /\ \A c \in Delegations : c # d => at'[c] = at[c] /\ answer'[c] = answer[c]
<1>1. CASE l.wall = 0 \/ Expired
  <2>1. Returns(d, "timedOut")
    BY <1>1 DEF Sends
  <2> QED BY <2>1, ReturnsFacts DEF GatewayTypes
<1>2. CASE ~(l.wall = 0 \/ Expired)
  <2>1. /\ at' = [at EXCEPT ![d] = "sent"] /\ loop' = [loop EXCEPT ![d] = l]
        /\ answer' = [answer EXCEPT ![d] = "none"]
    BY <1>2 DEF Sends
  <2>2. loop' \in [Delegations -> Loop]
    BY <2>1 DEF GatewayTypes
  <2>3. /\ at' \in [Delegations -> {"idle", "sent", "answered", "asleep", "done"}]
        /\ answer' \in [Delegations -> Refused \cup {"none", "overloaded", "accepted", "timedOut",
                                                     "error"} \cup Gateways]
    BY <2>1 DEF GatewayTypes
  <2>4. /\ at'[d] = "sent"
        /\ \A c \in Delegations : c # d => at'[c] = at[c] /\ answer'[c] = answer[c]
    BY <2>1 DEF GatewayTypes
  <2> QED BY <2>2, <2>3, <2>4 DEF GatewayTypes
<1> QED BY <1>1, <1>2

\* A call whose delegation nobody holds goes wherever it may, one that is held stays with
\* its answer.
LEMMA HoldersMove ==
  ASSUME NEW d \in Delegations, UNCHANGED active,
         \A c \in Delegations : c # d => /\ at'[c] = at[c] /\ answer'[c] = answer[c]
                                         /\ callsMade'[c] = callsMade[c],
         Holders => callsMade'[d] # 0, at'[d] # "answered",
         Holders => \/ at'[d] = "done" /\ answer'[d] \in {"accepted", "error"}
                    \/ \A g \in Gateways : d \notin active[g]
  PROVE  Holders => Holders'
BY DEF Holders

\* The messages of the gateways themselves.
LEMMA GatewayStepFacts ==
  ASSUME GatewayTypes, NEW g \in Gateways, GatewayStep(g)
  PROVE  GatewayTypes' /\ (Holders => Holders')
<1>a. ASSUME UNCHANGED <<at, answer, loop, callsMade, tick>>,
             active' \in [Gateways -> SUBSET Delegations],
             childrenOf' \in [Gateways -> SUBSET Children],
             cancelAge' \in [Gateways -> [Delegations -> 0..GracePeriod \cup {NoTime}]],
             \A h \in Gateways : active'[h] \subseteq active[h]
      PROVE  GatewayTypes' /\ (Holders => Holders')
  <2>1. GatewayTypes'
    BY <1>a DEF GatewayTypes
  <2>2. Holders => Holders'
    BY <1>a DEF Holders
  <2> QED BY <2>1, <2>2
<1>1. ASSUME NEW d \in Delegations, complete_delegation(g, d)
      PROVE  GatewayTypes' /\ (Holders => Holders')
  <2>1. /\ active' = [active EXCEPT ![g] = @ \ {d}]
        /\ UNCHANGED <<at, answer, loop, callsMade, tick, childrenOf, cancelAge>>
    BY <1>1 DEF complete_delegation, loopVars
  <2> QED BY <1>a, <2>1 DEF GatewayTypes
<1>2. ASSUME NEW d \in Delegations, handle_cancel_delegation(g, d)
      PROVE  GatewayTypes' /\ (Holders => Holders')
  <2>1. PICK f : f = [c \in Delegations |-> IF c = d \/ <<d, c>> \in childrenOf[g] THEN 0
                                            ELSE cancelAge[g][c]]
    OBVIOUS
  <2>2. /\ cancelAge' = [cancelAge EXCEPT ![g] = f]
        /\ UNCHANGED <<at, answer, loop, callsMade, tick, childrenOf, active>>
    BY <1>2, <2>1 DEF handle_cancel_delegation, GatewayTypes, loopVars
  <2>3. f \in [Delegations -> 0..GracePeriod \cup {NoTime}]
    BY <2>1, GatewayAssumption DEF GatewayTypes
  <2>4. cancelAge' \in [Gateways -> [Delegations -> 0..GracePeriod \cup {NoTime}]]
    BY <2>2, <2>3 DEF GatewayTypes
  <2> QED BY <1>a, <2>2, <2>4 DEF GatewayTypes
<1>3. ASSUME NEW d \in Delegations, NEW c \in Delegations, register_child_delegation(g, d, c)
      PROVE  GatewayTypes' /\ (Holders => Holders')
  <2>1. /\ childrenOf' = [childrenOf EXCEPT ![g] = @ \cup {<<d, c>>}] /\ <<d, c>> \in Children
        /\ UNCHANGED <<at, answer, loop, callsMade, tick, active, cancelAge>>
    BY <1>3 DEF register_child_delegation, loopVars
  <2> QED BY <1>a, <2>1 DEF GatewayTypes
<1>4. CASE force_preempt_expired_delegations(g)
  <2>1. /\ active' = [active EXCEPT ![g] = @ \ Forced(g)]
        /\ UNCHANGED <<at, answer, loop, callsMade, tick, childrenOf, cancelAge>>
    BY <1>4 DEF force_preempt_expired_delegations, loopVars
  <2> QED BY <1>a, <2>1 DEF GatewayTypes
<1> QED BY <1>1, <1>2, <1>3, <1>4 DEF GatewayStep

\* A request meets a gateway; nobody holds its delegation then.
LEMMA RequestFacts ==
  ASSUME GatewayTypes, NEW d \in Delegations, handle_handoff_request(d)
  PROVE  GatewayTypes' /\ (Holders => Holders')
<1>1. PICK a \in Refused \cup {"overloaded", "accepted"} \cup Gateways :
        /\ answer' = [answer EXCEPT ![d] = a]
        /\ active' = IF a = "accepted"
                     THEN [active EXCEPT ![loop[d].target] = @ \cup {d}] ELSE active
  BY DEF handle_handoff_request, Claims
<1>2. /\ at[d] = "sent" /\ at' = [at EXCEPT ![d] = "answered"]
      /\ UNCHANGED <<cancelAge, childrenOf, loop, callsMade, tick>>
  BY DEF handle_handoff_request
<1>3. loop[d].target \in Gateways
  BY DEF GatewayTypes, Loop
<1>4. PICK t \in Gateways : t = loop[d].target
  BY <1>3
<1>5. active' \in [Gateways -> SUBSET Delegations]
  BY <1>1, <1>4 DEF GatewayTypes
<1>6. /\ at' \in [Delegations -> {"idle", "sent", "answered", "asleep", "done"}]
      /\ answer' \in [Delegations -> Refused \cup {"none", "overloaded", "accepted", "timedOut",
                                                   "error"} \cup Gateways]
  BY <1>1, <1>2 DEF GatewayTypes
<1>7. GatewayTypes'
  BY <1>2, <1>5, <1>6 DEF GatewayTypes
<1>8. a # "error"
  BY <1>1, GatewayAssumption DEF Refused
<1>9. /\ at'[d] = "answered" /\ answer'[d] = a
      /\ \A c \in Delegations : c # d => at'[c] = at[c] /\ answer'[c] = answer[c]
  BY <1>1, <1>2 DEF GatewayTypes
<1>10. Holders => \A g \in Gateways : d \notin active[g]
  BY <1>2 DEF Holders
<1>11. \A g \in Gateways : \A c \in Delegations :
         c \in active'[g] <=> c \in active[g] \/ (c = d /\ g = t /\ a = "accepted")
  BY <1>1, <1>4 DEF GatewayTypes
<1>12. Holders => Holders'
  <2> SUFFICES ASSUME Holders, NEW c \in Delegations
               PROVE  /\ at'[c] # "idle" => callsMade'[c] # 0
                      /\ at'[c] = "answered" => answer'[c] # "error"
                      /\ \A g \in Gateways : c \in active'[g] =>
                           /\ at'[c] \in {"answered", "done"}
                           /\ answer'[c] \in {"accepted", "error"}
                           /\ \A h \in Gateways : c \in active'[h] => h = g
    BY DEF Holders
  <2>1. CASE c = d
    BY <1>2, <1>8, <1>9, <1>10, <1>11, <2>1 DEF Holders
  <2>2. CASE c # d
    BY <1>2, <1>9, <1>11, <2>2 DEF Holders
  <2> QED BY <2>1, <2>2
<1> QED BY <1>7, <1>12

\* The caller: a lost answer, an answer, a sleep that is over, and a new call.
LEMMA FailsFacts ==
  ASSUME GatewayTypes, NEW d \in Delegations, Fails(d)
  PROVE  GatewayTypes' /\ (Holders => Holders')
<1>1. /\ at[d] \in {"sent", "answered"} /\ Returns(d, "error")
      /\ UNCHANGED <<active, cancelAge, childrenOf, callsMade, tick>>
  BY DEF Fails, LoopOnly, gatewayVars
<1>2. /\ GatewayTypes' /\ at'[d] = "done" /\ answer'[d] = "error"
      /\ \A c \in Delegations : c # d => at'[c] = at[c] /\ answer'[c] = answer[c]
  BY <1>1, ReturnsFacts DEF GatewayTypes
<1>3. Holders => callsMade[d] # 0
  BY <1>1 DEF Holders
<1> QED BY <1>1, <1>2, <1>3, HoldersMove

\* An answer is taken, ends the call, is followed to another gateway or waited out.
LEMMA ReceivesFacts ==
  ASSUME GatewayTypes, NEW d \in Delegations, Receives(d)
  PROVE  GatewayTypes' /\ (Holders => Holders')
<1>1. /\ at[d] = "answered" /\ UNCHANGED <<active, cancelAge, childrenOf, callsMade, tick>>
  BY DEF Receives, LoopOnly, gatewayVars
<1>2. Holders => callsMade[d] # 0 /\ answer[d] # "error"
  BY <1>1 DEF Holders
<1>a. ASSUME NEW a \in Refused \cup {"overloaded", "accepted", "timedOut", "error"} \cup Gateways,
             Returns(d, a), a = "accepted" \/ answer[d] # "accepted"
      PROVE  GatewayTypes' /\ (Holders => Holders')
  <2>1. /\ GatewayTypes' /\ at'[d] = "done" /\ answer'[d] = a
        /\ \A c \in Delegations : c # d => at'[c] = at[c] /\ answer'[c] = answer[c]
    BY <1>1, <1>a, ReturnsFacts DEF GatewayTypes
  <2>2. Holders => a = "accepted" \/ \A g \in Gateways : d \notin active[g]
    BY <1>2, <1>a DEF Holders
  <2> QED BY <1>1, <1>2, <2>1, <2>2, HoldersMove
<1>3. CASE Taken(d) /\ Returns(d, "accepted")
  BY <1>3, <1>a
<1>4. CASE ~Taken(d) /\ BudgetExhausted(d) /\ Returns(d, "timedOut")
  BY <1>4, <1>a DEF Taken
<1>5. CASE ~Taken(d) /\ answer[d] \in Refused /\ Returns(d, answer[d])
  BY <1>5, <1>a DEF Taken
<1>6. CASE answer[d] \in Gateways /\ Redirected(d, answer[d])
  <2>1. PICK g \in Gateways : g = answer[d]
    BY <1>6
  <2>2. g # "accepted"
    BY GatewayAssumption
  <2>3. CASE Returns(d, "invalid") \/ Returns(d, g)
    BY <1>a, <2>1, <2>2, <2>3 DEF Refused
  <2>4. CASE Sends(d, [loop[d] EXCEPT !.target = g, !.visited = @ \cup {g}])
    <3>1. PICK l : l = [loop[d] EXCEPT !.target = g, !.visited = @ \cup {g}]
      OBVIOUS
    <3>2. loop[d] \in Loop
      BY DEF GatewayTypes
    <3>3. l \in Loop
      BY <3>1, <3>2 DEF Loop
    <3>4. /\ GatewayTypes' /\ at'[d] \in {"sent", "done"}
          /\ \A c \in Delegations : c # d => at'[c] = at[c] /\ answer'[c] = answer[c]
      BY <1>1, <2>4, <3>1, <3>3, SendsFacts DEF GatewayTypes
    <3>5. Holders => \A h \in Gateways : d \notin active[h]
      BY <1>2, <2>1, <2>2 DEF Holders
    <3> QED BY <1>1, <1>2, <3>4, <3>5, HoldersMove
  <2> QED BY <1>6, <2>1, <2>3, <2>4 DEF Redirected
<1>7. CASE answer[d] = "overloaded" /\ Overloaded(d)
  <2>1. PICK w \in 0..WallTime :
          IF \/ loop[d].tries = MaxRetries
             \/ w = 0 \/ w > loop[d].wall \/ tick + w > Deadline
          THEN Returns(d, "overloaded")
          ELSE /\ at' = [at EXCEPT ![d] = "asleep"] /\ answer' = [answer EXCEPT ![d] = "none"]
               /\ loop' = [loop EXCEPT ![d] = [loop[d] EXCEPT !.tries = @ + 1, !.sleep = w]]
    BY <1>7 DEF Overloaded
  <2>2. CASE Returns(d, "overloaded")
    BY <1>7, <1>a, <2>2
  <2>3. CASE /\ loop[d].tries # MaxRetries
             /\ at' = [at EXCEPT ![d] = "asleep"] /\ answer' = [answer EXCEPT ![d] = "none"]
             /\ loop' = [loop EXCEPT ![d] = [loop[d] EXCEPT !.tries = @ + 1, !.sleep = w]]
    <3>1. PICK l \in Loop : l = loop[d]
      BY DEF GatewayTypes
    <3>2. PICK k : k = [loop[d] EXCEPT !.tries = @ + 1, !.sleep = w]
      OBVIOUS
    <3>3. k \in Loop
      <4>1. l.tries \in 0..MaxRetries /\ l.tries # MaxRetries
        BY <2>3, <3>1 DEF Loop
      <4>2. l.tries + 1 \in 0..MaxRetries
        BY <4>1, GatewayAssumption
      <4>3. k = [l EXCEPT !.tries = @ + 1, !.sleep = w]
        BY <3>1, <3>2
      <4> QED BY <4>2, <4>3 DEF Loop
    <3>4. loop' = [loop EXCEPT ![d] = k]
      <4>1. loop' = [loop EXCEPT ![d] = [loop[d] EXCEPT !.tries = @ + 1, !.sleep = w]]
        BY <2>3
      <4> QED BY <3>2, <4>1
    <3>5. loop' \in [Delegations -> Loop]
      BY <3>3, <3>4 DEF GatewayTypes
    <3>6. /\ at' \in [Delegations -> {"idle", "sent", "answered", "asleep", "done"}]
          /\ answer' \in [Delegations -> Refused \cup {"none", "overloaded", "accepted",
                                                       "timedOut", "error"} \cup Gateways]
      BY <2>3 DEF GatewayTypes
    <3>7. GatewayTypes'
      BY <1>1, <3>5, <3>6 DEF GatewayTypes
    <3>8. /\ at'[d] = "asleep"
          /\ \A c \in Delegations : c # d => at'[c] = at[c] /\ answer'[c] = answer[c]
      BY <2>3 DEF GatewayTypes
    <3>9. Holders => \A h \in Gateways : d \notin active[h]
      BY <1>7 DEF Holders
    <3> QED BY <1>1, <1>2, <3>7, <3>8, <3>9, HoldersMove
  <2> QED BY <2>1, <2>2, <2>3
<1> QED BY <1>3, <1>4, <1>5, <1>6, <1>7 DEF Receives

\* A sleep is over.
LEMMA WakesUpFacts ==
  ASSUME GatewayTypes, NEW d \in Delegations, WakesUp(d)
  PROVE  GatewayTypes' /\ (Holders => Holders')
<1>1. /\ at[d] = "asleep" /\ Sends(d, loop[d])
      /\ UNCHANGED <<active, cancelAge, childrenOf, callsMade, tick>>
  BY DEF WakesUp, LoopOnly, gatewayVars
<1>2. loop[d] \in Loop
  BY DEF GatewayTypes
<1>3. /\ GatewayTypes' /\ at'[d] \in {"sent", "done"}
      /\ \A c \in Delegations : c # d => at'[c] = at[c] /\ answer'[c] = answer[c]
  BY <1>1, <1>2, SendsFacts DEF GatewayTypes
<1>4. Holders => callsMade[d] # 0 /\ \A g \in Gateways : d \notin active[g]
  BY <1>1 DEF Holders
<1> QED BY <1>1, <1>3, <1>4, HoldersMove

\* The one call made for a delegation begins before anybody holds it.
LEMMA DelegateFacts ==
  ASSUME GatewayTypes, NEW d \in Delegations, NEW g \in Gateways,
         delegate_to_swarm(d, g)
  PROVE  GatewayTypes' /\ (MaxCalls = 1 /\ Holders => Holders')
<1>1. /\ callsMade[d] < MaxCalls /\ callsMade' = [callsMade EXCEPT ![d] = @ + 1]
      /\ Sends(d, NewLoop(g)) /\ UNCHANGED <<active, cancelAge, childrenOf, tick>>
  BY DEF delegate_to_swarm, gatewayVars
<1>2. callsMade' \in [Delegations -> 0..MaxCalls] /\ (MaxCalls = 1 => callsMade[d] = 0)
  BY <1>1, GatewayAssumption DEF GatewayTypes
<1>3. callsMade'[d] # 0 /\ \A c \in Delegations : c # d => callsMade'[c] = callsMade[c]
  BY <1>1 DEF GatewayTypes
<1>4. /\ GatewayTypes' /\ at'[d] \in {"sent", "done"}
      /\ \A c \in Delegations : c # d => at'[c] = at[c] /\ answer'[c] = answer[c]
  BY <1>1, <1>2, LoopFacts, SendsFacts
<1>5. MaxCalls = 1 /\ Holders => \A h \in Gateways : d \notin active[h]
  BY <1>2 DEF Holders
<1> QED BY <1>1, <1>3, <1>4, <1>5, HoldersMove

\* Clocks and budgets run down.
LEMMA TimePassesFacts ==
  ASSUME GatewayTypes, TimePasses
  PROVE  GatewayTypes' /\ (Holders => Holders')
<1>1. /\ tick <= Deadline /\ tick' = tick + 1
      /\ UNCHANGED <<active, childrenOf, at, answer, callsMade>>
  BY DEF TimePasses
<1>2. tick' \in 0..(Deadline + 1)
  BY <1>1, GatewayAssumption DEF GatewayTypes
<1>3. ASSUME NEW d \in Delegations
      PROVE  [loop[d] EXCEPT !.wall = Monus(@, 1), !.sleep = Monus(@, 1)] \in Loop
  <2>1. PICK l \in Loop : l = loop[d]
    BY DEF GatewayTypes
  <2>2. Monus(l.wall, 1) \in 0..WallTime /\ Monus(l.sleep, 1) \in 0..WallTime
    BY GatewayAssumption DEF Loop, Monus
  <2> QED BY <2>1, <2>2 DEF Loop
<1>4. loop' \in [Delegations -> Loop]
  BY <1>3 DEF TimePasses, GatewayTypes
<1>5. ASSUME NEW g \in Gateways, NEW d \in Delegations
      PROVE  (IF cancelAge[g][d] \in 0..(GracePeriod - 1) THEN cancelAge[g][d] + 1
              ELSE cancelAge[g][d]) \in 0..GracePeriod \cup {NoTime}
  BY GatewayAssumption DEF GatewayTypes
<1>6. cancelAge' \in [Gateways -> [Delegations -> 0..GracePeriod \cup {NoTime}]]
  BY <1>5 DEF TimePasses
<1>7. Holders => Holders'
  BY <1>1 DEF Holders
<1> QED BY <1>1, <1>2, <1>4, <1>6, <1>7 DEF GatewayTypes

\* Every step of callers, gateways and clocks; who holds what is told as long as a
\* request_id is used once.
LEMMA DelegationStep ==
  ASSUME GatewayTypes, [DelegationNext]_delegationVars
  PROVE  GatewayTypes' /\ (MaxCalls = 1 /\ Holders => Holders')
<1>1. CASE UNCHANGED delegationVars
  BY <1>1 DEF delegationVars, gatewayVars, loopVars, GatewayTypes, Holders
<1>2. CASE DelegationNext
  BY <1>2, GatewayStepFacts, RequestFacts, FailsFacts, ReceivesFacts, WakesUpFacts,
     DelegateFacts, TimePassesFacts DEF DelegationNext, LoopStep
<1> QED BY <1>1, <1>2

\* The inductive invariant says what the checked ones say.
LEMMA HoldersMeans ==
  ASSUME GatewayTypes
  PROVE  DelegationTypeOK /\ (Holders => DelegationIsKnown)
<1>1. DelegationTypeOK
  BY DEF GatewayTypes, DelegationTypeOK
<1> SUFFICES ASSUME Holders PROVE DelegationIsKnown
  BY <1>1
<1>2. ASSUME NEW d \in Delegations
      PROVE  LET holders == {g \in Gateways : d \in active[g]}
             IN  /\ Cardinality(holders) <= 1
                 /\ holders # {} => /\ at[d] \in {"answered", "done"}
                                    /\ answer[d] \in {"accepted", "error"}
  <2> DEFINE holders == {g \in Gateways : d \in active[g]}
  <2>1. CASE holders = {}
    BY <2>1, FS_EmptySet
  <2>2. ASSUME NEW g \in holders
        PROVE  /\ Cardinality(holders) <= 1
               /\ at[d] \in {"answered", "done"} /\ answer[d] \in {"accepted", "error"}
    <3>1. holders = {g}
      BY <2>2 DEF Holders
    <3>2. Cardinality(holders) = 1
      BY <3>1, FS_Singleton
    <3> QED BY <2>2, <3>2 DEF Holders
  <2> QED BY <2>1, <2>2
<1> QED BY <1>2 DEF DelegationIsKnown
-------------------------------------------------------------------------------
(* The spawner *)

\* No thread has run.
LEMMA InitSpawner == SpawnerInit => SpawnerTypeOK /\ DeadIsTerminal
BY DEF SpawnerInit, SpawnerTypeOK, DeadIsTerminal

\* A thread writes the status of its agent and goes on to another place.
LEMMA ThreadFacts ==
  ASSUME SpawnerTypeOK, DeadIsTerminal, NEW a \in AgentIds, NEW from, NEW to,
         Moves(a, from, to),
         to \in {"factory", "delay", "markReady", "loop", "cleanup", "ended"},
         UNCHANGED <<stopping, stoppable, accepting>>, queued' \in Seq(AgentIds),
         \/ UNCHANGED handles /\ to # "ended"
         \/ \E s \in AgentStatus : update_status(a, s) /\ (to = "ended" => s \in Ended)
  PROVE  SpawnerTypeOK' /\ DeadIsTerminal'
<1>1. threadAt' = [threadAt EXCEPT ![a] = to]
  BY DEF Moves
<1>2. /\ threadAt' \in [AgentIds -> {"none", "queued", "factory", "delay", "markReady", "loop",
                                     "cleanup", "ended", "cancelled"}]
      /\ threadAt'[a] = to /\ \A b \in AgentIds : b # a => threadAt'[b] = threadAt[b]
  BY <1>1 DEF SpawnerTypeOK
<1>3. /\ handles' \in [AgentIds -> AgentStatus \cup {NoHandle}]
      /\ \A b \in AgentIds : b # a => handles'[b] = handles[b]
      /\ to = "ended" /\ handles'[a] # NoHandle => handles'[a] \in Ended
  BY DEF SpawnerTypeOK, update_status, InHandles
<1> QED BY <1>2, <1>3 DEF SpawnerTypeOK, DeadIsTerminal, InHandles

\* Every step of the callers and of the agents' threads.
LEMMA SpawnerStep ==
  SpawnerTypeOK /\ DeadIsTerminal /\ [SpawnerNext]_spawnerVars
    => SpawnerTypeOK' /\ DeadIsTerminal'
<1> SUFFICES ASSUME SpawnerTypeOK, DeadIsTerminal, [SpawnerNext]_spawnerVars
             PROVE  SpawnerTypeOK' /\ DeadIsTerminal'
  OBVIOUS
<1>0. AgentStatus = {"SPAWNING", "STARTING", "READY", "TERMINATED", "FAILED", "TERMINATING"}
      /\ Ended = {"TERMINATED", "FAILED"}
  BY DEF AgentStatus, Alive, Ended
<1>1. ASSUME NEW a \in AgentIds, spawn_agent_async(a)
      PROVE  SpawnerTypeOK' /\ DeadIsTerminal'
  <2>1. queued' \in Seq(AgentIds)
    BY <1>1 DEF spawn_agent_async, SpawnerTypeOK
  <2>2. /\ threadAt' \in [AgentIds -> {"none", "queued", "factory", "delay", "markReady", "loop",
                                       "cleanup", "ended", "cancelled"}]
        /\ threadAt'[a] \in {"none", "queued"}
        /\ \A b \in AgentIds : b # a => threadAt'[b] = threadAt[b]
    BY <1>1 DEF spawn_agent_async, SpawnerTypeOK
  <2>3. /\ handles' \in [AgentIds -> AgentStatus \cup {NoHandle}]
        /\ \A b \in AgentIds : b # a => handles'[b] = handles[b]
    BY <1>0, <1>1 DEF spawn_agent_async, SpawnerTypeOK
  <2>4. stopping' \subseteq AgentIds /\ stoppable' \subseteq AgentIds /\ accepting' \in BOOLEAN
    BY <1>1 DEF spawn_agent_async, SpawnerTypeOK
  <2> QED BY <2>1, <2>2, <2>3, <2>4 DEF SpawnerTypeOK, DeadIsTerminal, InHandles
<1>2. ASSUME NEW a \in AgentIds, NEW s \in {"FAILED", "TERMINATED", "TERMINATING"},
             handles' = handles \/ handles' = [handles EXCEPT ![a] = s],
             handles' # handles => handles[a] \notin Ended /\ InHandles(a),
             stopping' \subseteq AgentIds, UNCHANGED <<stoppable, threadAt, queued, accepting>>
      PROVE  SpawnerTypeOK' /\ DeadIsTerminal'
  <2>1. /\ handles' \in [AgentIds -> AgentStatus \cup {NoHandle}]
        /\ \A b \in AgentIds : b # a => handles'[b] = handles[b]
    BY <1>0, <1>2 DEF SpawnerTypeOK
  <2>2. SpawnerTypeOK'
    BY <1>2, <2>1 DEF SpawnerTypeOK
  <2>3. DeadIsTerminal'
    BY <1>2, <2>1 DEF DeadIsTerminal, InHandles
  <2> QED BY <2>2, <2>3
<1>3. ASSUME NEW a \in AgentIds, wait_ready_times_out(a)
      PROVE  SpawnerTypeOK' /\ DeadIsTerminal'
  BY <1>2, <1>3 DEF wait_ready_times_out, SpawnerTypeOK
<1>4. ASSUME NEW a \in AgentIds, NEW force \in BOOLEAN, terminate_agent(a, force)
      PROVE  SpawnerTypeOK' /\ DeadIsTerminal'
  BY <1>2, <1>4 DEF terminate_agent, NotEnded, SpawnerTypeOK
<1>5. ASSUME NEW old \in SUBSET AgentIds, cleanup_terminated(old)
      PROVE  SpawnerTypeOK' /\ DeadIsTerminal'
  BY <1>5 DEF cleanup_terminated, SpawnerTypeOK, DeadIsTerminal, InHandles
<1>6. ASSUME NEW wait \in BOOLEAN, shutdown(wait)
      PROVE  SpawnerTypeOK' /\ DeadIsTerminal'
  <2>0. <<>> \in Seq(AgentIds)
    OBVIOUS
  <2>1. queued' \in Seq(AgentIds) /\ UNCHANGED <<handles, stoppable>>
    <3>1. queued' = queued \/ queued' = <<>>
      BY <1>6 DEF shutdown
    <3>2. UNCHANGED <<handles, stoppable>>
      BY <1>6 DEF shutdown
    <3>3. queued \in Seq(AgentIds)
      BY DEF SpawnerTypeOK
    <3> QED BY <2>0, <3>1, <3>2, <3>3
  <2>2. /\ threadAt' \in [AgentIds -> {"none", "queued", "factory", "delay", "markReady", "loop",
                                       "cleanup", "ended", "cancelled"}]
        /\ \A b \in AgentIds : threadAt'[b] = "ended" => threadAt[b] = "ended"
    BY <1>6 DEF shutdown, SpawnerTypeOK
  <2>3. stopping' \subseteq AgentIds /\ accepting' \in BOOLEAN
    BY <1>6 DEF shutdown, SpawnerTypeOK
  <2> QED BY <2>1, <2>2, <2>3 DEF SpawnerTypeOK, DeadIsTerminal, InHandles
<1>7. CASE StartsThread
  <2>1. PICK a : a = Head(queued)
    OBVIOUS
  <2>2. queued # <<>> /\ queued \in Seq(AgentIds)
    BY <1>7 DEF StartsThread, SpawnerTypeOK
  <2>3. a \in AgentIds /\ Tail(queued) \in Seq(AgentIds)
    BY <2>1, <2>2
  <2>4. /\ Moves(a, "queued", "factory") /\ update_status(a, "STARTING")
        /\ queued' = Tail(queued) /\ UNCHANGED <<stopping, stoppable, accepting>>
    BY <1>7, <2>1 DEF StartsThread, OthersStay
  <2> QED BY <1>0, <2>3, <2>4, ThreadFacts
<1>8. ASSUME NEW a \in AgentIds, run_agent(a)
      PROVE  SpawnerTypeOK' /\ DeadIsTerminal'
  <2>1. UNCHANGED <<stopping, stoppable, accepting, queued>> /\ queued' \in Seq(AgentIds)
    BY <1>8 DEF run_agent, FactoryRaises, FactoryReturns, DelayPasses, MarksReady, LeavesLoop,
                Terminates, OthersStay, SpawnerTypeOK
  <2>2. CASE FactoryRaises(a)
    BY <1>0, <2>1, <2>2, ThreadFacts DEF FactoryRaises
  <2>3. CASE FactoryReturns(a)
    BY <2>1, <2>3, ThreadFacts DEF FactoryReturns
  <2>4. CASE DelayPasses(a)
    BY <2>1, <2>4, ThreadFacts DEF DelayPasses
  <2>5. CASE MarksReady(a)
    BY <1>0, <2>1, <2>5, ThreadFacts DEF MarksReady
  <2>6. CASE LeavesLoop(a)
    BY <1>0, <2>1, <2>6, ThreadFacts DEF LeavesLoop
  <2>7. CASE Terminates(a)
    BY <1>0, <2>1, <2>7, ThreadFacts DEF Terminates
  <2> QED BY <1>8, <2>2, <2>3, <2>4, <2>5, <2>6, <2>7 DEF run_agent
<1>9. CASE UNCHANGED spawnerVars
  BY <1>9 DEF spawnerVars, SpawnerTypeOK, DeadIsTerminal, InHandles
<1> QED BY <1>1, <1>3, <1>4, <1>5, <1>6, <1>7, <1>8, <1>9 DEF SpawnerNext
-------------------------------------------------------------------------------
(* The rate limiter *)

\* A product grows with its first factor: what fits a lower limit fits a higher one.
LEMMA MoreAMinute ==
  ASSUME NEW a \in Nat, NEW b \in Nat, NEW m \in Nat, a <= b
  PROVE  a * m \in Nat /\ b * m \in Nat /\ a * m <= b * m
<1>1. PICK k \in Nat : b = a + k
  <2>1. b - a \in Nat /\ b = a + (b - a)
    OBVIOUS
  <2> QED BY <2>1
<1>2. (a + k) * m = a * m + k * m
  OBVIOUS
<1>3. a * m \in Nat /\ k * m \in Nat
  OBVIOUS
<1> QED BY <1>1, <1>2, <1>3

\* A full bucket, the configured limit, and nobody who waits.
LEMMA InitRate == RateInit => RateTypeOK
<1> SUFFICES ASSUME RateInit PROVE RateTypeOK
  OBVIOUS
<1>1. BaseRate * Minute \in Nat
  BY RateLimiterAssumption
<1> QED BY <1>1, RateLimiterAssumption DEF RateInit, RateTypeOK, Idle

\* _refill and _maybe_recover, of which acquire takes what is left: the bucket is within what
\* the limit allows, and a limit that recovers stays below the configured one.
LEMMA RefillFacts ==
  ASSUME RateTypeOK, NEW left \in Nat, left <= Refilled, Refill(left)
  PROVE  /\ rate' \in MinRate..BaseRate /\ tokens' \in 0..(rate' * Minute) /\ elapsed' \in 0..Minute
         /\ sinceLimit' = sinceLimit /\ successes' \in 0..Threshold
<1>1. /\ rate \in Nat /\ rate \in MinRate..BaseRate /\ tokens \in Nat /\ elapsed \in Nat
      /\ Minute \in Nat /\ MinRate \in Nat /\ BaseRate \in Nat /\ successes \in 0..Threshold
      /\ Threshold \in Nat
  <2>1. rate * Minute \in Int
    BY RateLimiterAssumption DEF RateTypeOK
  <2> QED BY <2>1, RateLimiterAssumption DEF RateTypeOK
<1>2. rate' \in MinRate..BaseRate /\ rate <= rate' /\ rate' \in Nat /\ successes' \in 0..Threshold
  BY <1>1 DEF Refill, Recovers
<1>3. rate * Minute \in Nat /\ rate' * Minute \in Nat /\ rate * Minute <= rate' * Minute
  BY <1>1, <1>2, MoreAMinute
<1>4. elapsed * rate \in Nat
  BY <1>1
<1>5. Refilled <= rate * Minute
  <2>1. PICK x \in Nat : x = rate * Minute
    BY <1>3
  <2>2. PICK y \in Nat : y = elapsed * rate
    BY <1>4
  <2>3. Refilled = IF tokens + y < x THEN tokens + y ELSE x
    BY <2>1, <2>2 DEF Refilled, Least
  <2> QED BY <1>1, <2>1, <2>3
<1>6. Refilled \in Nat
  BY <1>1, <1>3, <1>4 DEF Refilled, Least
<1>7. tokens' = left /\ elapsed' = 0 /\ sinceLimit' = sinceLimit
  BY DEF Refill
<1> QED
  <2>1. tokens' <= rate' * Minute
    BY <1>3, <1>5, <1>6, <1>7
  <2>2. PICK x \in Nat : x = rate' * Minute
    BY <1>3
  <2>3. tokens' \in 0..x
    BY <1>7, <2>1, <2>2
  <2>4. tokens' \in 0..(rate' * Minute)
    BY <2>2, <2>3, Zenon
  <2>5. elapsed' \in 0..Minute
    BY <1>1, <1>7
  <2> QED BY <1>2, <1>7, <2>4, <2>5, Zenon

\* Every step of the callers and of the clock: the bucket never holds less than nothing or
\* more than its limit allows, through refills, recoveries and reductions alike.
LEMMA RateStep ==
  ASSUME RateTypeOK, [RateNext]_rateVars
  PROVE  RateTypeOK'
<1>1. /\ rate \in Nat /\ tokens \in Nat /\ elapsed \in Nat /\ Minute \in Nat /\ MinRate \in Nat
      /\ BaseRate \in Nat /\ Threshold \in Nat /\ Cooldown \in Nat /\ MaxWait \in Nat
      /\ rate * Minute \in Nat
  <2>1. rate \in Nat /\ Minute \in Nat
    BY RateLimiterAssumption DEF RateTypeOK
  <2>2. rate * Minute \in Nat
    BY <2>1
  <2> QED BY <2>1, <2>2, RateLimiterAssumption DEF RateTypeOK
<1>2. ASSUME NEW c \in Coroutines, Poll(c)
      PROVE  RateTypeOK'
  <2>1. acquiring[c] \in [wants : Requests \cup {0}, waited : 0..MaxWait, polls : BOOLEAN]
    BY DEF RateTypeOK
  <2>2. acquiring[c].wants \in Nat
    <3>1. Requests \subseteq Nat
      BY RateLimiterAssumption
    <3>2. acquiring[c].wants \in Requests \cup {0}
      BY <2>1
    <3>3. 0 \in Nat
      OBVIOUS
    <3> QED BY <3>1, <3>2, <3>3, Zenon
  <2>3. Refilled \in Nat
    <3>1. elapsed * rate \in Nat
      BY <1>1
    <3> QED BY <1>1, <3>1 DEF Refilled, Least
  <2>4. PICK left \in Nat : left <= Refilled /\ Refill(left)
    <3>1. CASE Refilled >= acquiring[c].wants
      <4>1. Refilled - acquiring[c].wants \in Nat /\ Refilled - acquiring[c].wants <= Refilled
        BY <2>2, <2>3, <3>1
      <4> QED BY <1>2, <3>1, <4>1 DEF Poll
    <3>2. CASE ~(Refilled >= acquiring[c].wants)
      BY <1>2, <2>3, <3>2 DEF Poll
    <3> QED BY <3>1, <3>2
  <2>5. \/ acquiring' = [acquiring EXCEPT ![c] = Idle]
        \/ acquiring' = [acquiring EXCEPT ![c] = [acquiring[c] EXCEPT !.polls = FALSE]]
    BY <1>2 DEF Poll
  <2>6. Idle \in [wants : Requests \cup {0}, waited : 0..MaxWait, polls : BOOLEAN]
    BY <1>1 DEF Idle
  <2>7. [acquiring[c] EXCEPT !.polls = FALSE]
          \in [wants : Requests \cup {0}, waited : 0..MaxWait, polls : BOOLEAN]
    BY <2>1
  <2>8. acquiring' \in [Coroutines -> [wants : Requests \cup {0}, waited : 0..MaxWait, polls : BOOLEAN]]
    BY <2>5, <2>6, <2>7 DEF RateTypeOK
  <2> QED BY <2>4, <2>8, RefillFacts DEF RateTypeOK
<1>3. ASSUME NEW c \in Coroutines, NEW n \in Requests, acquire(c, n)
      PROVE  RateTypeOK'
  <2>1. [wants |-> n, waited |-> 0, polls |-> TRUE]
          \in [wants : Requests \cup {0}, waited : 0..MaxWait, polls : BOOLEAN]
    BY <1>1
  <2>2. acquiring' \in [Coroutines -> [wants : Requests \cup {0}, waited : 0..MaxWait, polls : BOOLEAN]]
    BY <1>3, <2>1 DEF acquire, RateTypeOK
  <2> QED BY <1>3, <2>2 DEF acquire, RateTypeOK
<1>4. ASSUME record_rate_limit
      PROVE  RateTypeOK'
  <2>1. PICK r \in MinRate..rate : rate' = r /\ tokens' = Least(tokens, r * Minute)
    BY <1>4 DEF record_rate_limit
  <2>2. r \in Nat /\ r * Minute \in Nat
    BY <1>1, <2>1
  <2>3. tokens' \in 0..(rate' * Minute)
    BY <1>1, <2>1, <2>2 DEF Least
  <2>4. rate' \in MinRate..BaseRate
    BY <1>1, <2>1 DEF RateTypeOK
  <2> QED BY <1>1, <1>4, <2>3, <2>4 DEF record_rate_limit, RateTypeOK
<1>5. CASE record_success
  BY <1>1, <1>5 DEF record_success, RateTypeOK
<1>6. CASE TickPasses
  <2>0. elapsed \in 0..Minute /\ sinceLimit \in 0..Cooldown \cup {NeverLimited}
    BY DEF RateTypeOK
  <2>1. elapsed' \in 0..Minute
    <3>1. elapsed' = IF elapsed + 1 < Minute THEN elapsed + 1 ELSE Minute
      BY <1>6 DEF TickPasses, Least
    <3> QED BY <1>1, <2>0, <3>1
  <2>2. sinceLimit' \in 0..Cooldown \cup {NeverLimited}
    <3>1. sinceLimit' = IF sinceLimit = NeverLimited THEN NeverLimited
                        ELSE IF sinceLimit + 1 < Cooldown THEN sinceLimit + 1 ELSE Cooldown
      BY <1>6 DEF TickPasses, Least
    <3> QED BY <1>1, <2>0, <3>1
  <2>3. ASSUME NEW c \in Coroutines
        PROVE  (IF acquiring[c] = Idle THEN Idle
                ELSE [acquiring[c] EXCEPT !.waited = Least(acquiring[c].waited + 1, MaxWait), !.polls = TRUE])
                  \in [wants : Requests \cup {0}, waited : 0..MaxWait, polls : BOOLEAN]
    <3>1. PICK q \in [wants : Requests \cup {0}, waited : 0..MaxWait, polls : BOOLEAN] : q = acquiring[c]
      BY DEF RateTypeOK
    <3>2. Least(q.waited + 1, MaxWait) \in 0..MaxWait
      BY <1>1 DEF Least
    <3> QED BY <3>1, <3>2
  <2>4. acquiring' \in [Coroutines -> [wants : Requests \cup {0}, waited : 0..MaxWait, polls : BOOLEAN]]
    BY <1>6, <2>3 DEF TickPasses
  <2> QED BY <1>6, <2>1, <2>2, <2>4 DEF TickPasses, RateTypeOK
<1>7. CASE UNCHANGED rateVars
  BY <1>7 DEF rateVars, RateTypeOK
<1> QED BY <1>2, <1>3, <1>4, <1>5, <1>6, <1>7 DEF RateNext
-------------------------------------------------------------------------------
(* The configuration that is reloaded *)

\* Nobody writes JSON's Infinity for a time. (A port that is infinite makes the load fail,
\* and the loader's float() lets an infinite time through: the thread then waits for ever.)
FiniteTimes ==
  /\ \A f \in Fields : Defaults[f] \in Nat
  /\ Absent # Infinite
  /\ \A f \in {"timeout", "interval", "reload"} :
       /\ environ[f] # Infinite
       /\ \A doc \in Documents :
            doc.global[f] # Infinite /\ doc.services[f] # Infinite /\ doc.service[f] # Infinite
Times == [timeout : Nat, interval : Nat, reload : Nat, port : Nat]

\* What the registry and its threads hold: every configuration that was loaded is one of
\* numbers, also in the hands of a thread that has read it and not yet applied it.
ConfigTypes ==
  /\ file \in [doc : Documents \cup {Empty}, whole : BOOLEAN]
  /\ watcher \in {"none", "waits", "loaded", "stopped"}
  /\ config \in Times /\ latest \in Times
  /\ refresh \in [Refreshers -> {AtRest} \cup [at : {"timeout", "interval"}, config : Times]]

\* The types of the model.
LEMMA ConfigTypesMeans == ASSUME ConfigTypes PROVE ConfigTypeOK
<1>1. ASSUME NEW r \in Refreshers
      PROVE  refresh[r].at \in {"rests", "timeout", "interval"}
  BY DEF ConfigTypes, AtRest
<1> QED BY <1>1 DEF ConfigTypes, ConfigTypeOK, Times

\* load_reference_service_config: what is loaded without an exception is made of numbers,
\* whatever the sections and the environment leave out or get wrong.
LEMMA LoadsNumbers ==
  ASSUME FiniteTimes, ConfigTypes, ~Raises(environ, load_config_file)
  PROVE  LoadedConfig(environ, load_config_file) \in Times
<1>1. PICK doc : doc = load_config_file
  OBVIOUS
<1>2. /\ \A f \in Fields : Defaults[f] \in Nat
      /\ Defaults.reload \in Nat /\ Defaults.port \in Nat
  BY DEF FiniteTimes, Fields
<1>3. ASSUME NEW v, NEW d \in Nat, NEW m \in Nat, v # Infinite
      PROVE  Coerced(v, d, m) \in Nat
  BY <1>3 DEF Coerced, Larger
<1>4. ASSUME NEW f \in {"timeout", "interval", "reload"}
      PROVE  /\ environ[f] # Infinite /\ doc.global[f] # Infinite
             /\ doc.services[f] # Infinite /\ doc.service[f] # Infinite
  <2>1. environ[f] # Infinite
    BY <1>4 DEF FiniteTimes
  <2>2. doc = Empty \/ doc \in Documents
    BY <1>1 DEF load_config_file, ConfigTypes
  <2>3. CASE doc \in Documents
    BY <1>4, <2>1, <2>3 DEF FiniteTimes
  <2>4. CASE doc = Empty
    BY <1>4, <2>1, <2>4 DEF FiniteTimes, Empty, Fields
  <2> QED BY <2>2, <2>3, <2>4
<1>5. ASSUME NEW f \in {"timeout", "interval"}
      PROVE  seconds(environ, doc, f) \in Nat
  <2>1. Defaults[f] \in Nat
    BY <1>2, <1>5 DEF Fields
  <2>2. PICK d : d = Coerced(doc.global[f], Defaults[f], 1)
    OBVIOUS
  <2>3. d \in Nat
    BY <1>3, <1>4, <1>5, <2>1, <2>2
  <2>4. PICK v : v = Or(environ[f], ServiceFirst(doc, f))
    OBVIOUS
  <2>5. v # Infinite
    BY <1>4, <1>5, <2>4 DEF Or, ServiceFirst, service_overrides
  <2>6. seconds(environ, doc, f) = Coerced(v, d, 1)
    BY <2>2, <2>4 DEF seconds
  <2> QED BY <1>3, <2>3, <2>5, <2>6
<1>6. resolve_reload_interval(environ, doc) \in Nat
  <2>1. PICK v : v = Or(environ.reload, doc.global.reload)
    OBVIOUS
  <2>2. v # Infinite
    BY <1>4, <2>1 DEF Or
  <2>3. resolve_reload_interval(environ, doc) = Coerced(v, Defaults.reload, 0)
    BY <2>1 DEF resolve_reload_interval
  <2> QED BY <1>2, <1>3, <2>2, <2>3
<1>7. resolve_port(environ, doc) \in Nat
  BY <1>1, <1>2 DEF Raises, resolve_port, Coerced, Larger
<1> QED BY <1>1, <1>5, <1>6, <1>7 DEF LoadedConfig, Times

\* Nothing is loaded and nobody applies anything.
LEMMA InitConfig == ConfigInit => ConfigTypes
<1> SUFFICES ASSUME ConfigInit PROVE ConfigTypes
  OBVIOUS
<1>1. NoConfig \in Times
  BY DEF NoConfig, Times
<1>2. file \in [doc : Documents \cup {Empty}, whole : BOOLEAN]
  BY DEF ConfigInit
<1> QED BY <1>1, <1>2 DEF ConfigInit, ConfigTypes

\* Every step of the file, of the watcher and of the threads that apply what it loaded.
LEMMA ConfigStep ==
  ASSUME FiniteTimes, ConfigTypes, [ConfigNext]_configVars
  PROVE  ConfigTypes'
<1>1. ASSUME NEW doc \in Documents, Truncates(doc)
      PROVE  ConfigTypes'
  BY <1>1 DEF Truncates, FileOnly, ConfigTypes
<1>2. CASE Fills
  <2>1. file' \in [doc : Documents \cup {Empty}, whole : BOOLEAN]
    BY <1>2 DEF Fills, ConfigTypes
  <2> QED BY <1>2, <2>1 DEF Fills, FileOnly, ConfigTypes
<1>3. CASE serve
  BY <1>3, LoadsNumbers DEF serve, ConfigTypes
<1>4. CASE Reloads
  BY <1>4, LoadsNumbers DEF Reloads, ConfigTypes
<1>5. NoConfig \in Times
  BY DEF NoConfig, Times
<1>6. CASE Takes
  BY <1>5, <1>6 DEF Takes, ConfigTypes
<1>7. CASE close
  BY <1>5, <1>7 DEF close, ConfigTypes
<1>8. ASSUME NEW r \in Refreshers, Reads(r)
      PROVE  ConfigTypes'
  <2>1. [at |-> "timeout", config |-> config] \in [at : {"timeout", "interval"}, config : Times]
    BY DEF ConfigTypes
  <2>2. refresh' \in [Refreshers -> {AtRest} \cup [at : {"timeout", "interval"}, config : Times]]
    BY <1>8, <2>1 DEF Reads, ConfigTypes
  <2> QED BY <1>8, <2>2 DEF Reads, ConfigTypes
<1>9. ASSUME NEW r \in Refreshers, Writes(r)
      PROVE  ConfigTypes'
  <2>1. refresh[r] \in [at : {"timeout", "interval"}, config : Times]
    BY <1>9 DEF Writes, ConfigTypes, AtRest
  <2>2. [refresh[r] EXCEPT !.at = "interval"] \in [at : {"timeout", "interval"}, config : Times]
    BY <2>1
  <2>3. \/ refresh' = [refresh EXCEPT ![r] = [refresh[r] EXCEPT !.at = "interval"]]
        \/ refresh' = [refresh EXCEPT ![r] = AtRest]
    BY <1>9 DEF Writes
  <2>4. refresh' \in [Refreshers -> {AtRest} \cup [at : {"timeout", "interval"}, config : Times]]
    BY <2>2, <2>3 DEF ConfigTypes
  <2> QED BY <1>9, <2>4 DEF Writes, ConfigTypes
<1>10. CASE UNCHANGED configVars
  BY <1>10 DEF configVars, ConfigTypes
<1> QED BY <1>1, <1>2, <1>3, <1>4, <1>6, <1>7, <1>8, <1>9, <1>10 DEF ConfigNext, Watches, Refreshes
-------------------------------------------------------------------------------
(* The parts together *)

\* Each part's own invariant, side by side.
SdkInv ==
  GatewayTypes /\ (MaxCalls = 1 => Holders) /\ SpawnerTypeOK /\ DeadIsTerminal /\ RateTypeOK

\* A step of one part leaves the variables of the others alone.
LEMMA StepOfEachPart ==
  ASSUME [Next]_sdk
  PROVE  /\ [DelegationNext]_delegationVars /\ [SpawnerNext]_spawnerVars
         /\ [RateNext]_rateVars /\ [ConfigNext]_configVars
<1>1. CASE InGateway(DelegationNext)
  BY <1>1 DEF InGateway, Only
<1>2. CASE InSpawner(SpawnerNext)
  BY <1>2 DEF InSpawner, Only
<1>3. CASE InRate(RateNext)
  BY <1>3 DEF InRate, Only
<1>4. CASE InConfig(ConfigNext)
  BY <1>4 DEF InConfig, Only
<1>5. CASE UNCHANGED sdk
  BY <1>5 DEF sdk
<1> QED BY <1>1, <1>2, <1>3, <1>4, <1>5 DEF Next

\* Whoever began something can tell how it ended (gateway.py, delegation_policy.py,
\* thread_spawner.py): as long as no caller uses a request_id twice, a delegation that is
\* active is one its caller negotiates, or was told of, at that one gateway; and an agent
\* whose thread has ended is on record as ended, whoever wrote its status in between.
THEOREM EndsAreTold == MaxCalls = 1 => (FairSpec => []EndsAreKnown)
<1> SUFFICES ASSUME MaxCalls = 1 PROVE FairSpec => []EndsAreKnown
  OBVIOUS
<1>1. Init => SdkInv
  BY InitGateway, InitSpawner, InitRate DEF Init, SdkInv
<1>2. SdkInv /\ [Next]_sdk => SdkInv'
  <2> SUFFICES ASSUME SdkInv, [Next]_sdk PROVE SdkInv'
    OBVIOUS
  <2>1. GatewayTypes' /\ (MaxCalls = 1 => Holders')
    BY StepOfEachPart, DelegationStep DEF SdkInv
  <2>2. SpawnerTypeOK' /\ DeadIsTerminal'
    BY StepOfEachPart, SpawnerStep DEF SdkInv
  <2>3. RateTypeOK'
    BY StepOfEachPart, RateStep DEF SdkInv
  <2> QED BY <2>1, <2>2, <2>3 DEF SdkInv
<1>3. SdkInv => EndsAreKnown
  BY HoldersMeans DEF SdkInv, EndsAreKnown
<1> QED BY <1>1, <1>2, <1>3, PTL DEF FairSpec

\* Every value the four parts keep stays of its type: the loop's retries, waits and budget
\* within the policy's bounds, the bucket between nothing and what its limit allows, and
\* every configuration made of numbers, when nobody configures an infinite time.
THEOREM SdkTypes == FiniteTimes => (FairSpec => []SdkTypeOK)
<1> SUFFICES ASSUME FiniteTimes PROVE FairSpec => []SdkTypeOK
  OBVIOUS
<1> DEFINE I == SdkInv /\ ConfigTypes
<1>1. Init => I
  BY InitGateway, InitSpawner, InitRate, InitConfig DEF Init, SdkInv
<1>2. I /\ [Next]_sdk => I'
  <2> SUFFICES ASSUME I, [Next]_sdk PROVE I'
    OBVIOUS
  <2>1. GatewayTypes' /\ (MaxCalls = 1 => Holders')
    BY StepOfEachPart, DelegationStep DEF SdkInv
  <2>2. SpawnerTypeOK' /\ DeadIsTerminal'
    BY StepOfEachPart, SpawnerStep DEF SdkInv
  <2>3. RateTypeOK' /\ ConfigTypes'
    BY StepOfEachPart, RateStep, ConfigStep DEF SdkInv
  <2> QED BY <2>1, <2>2, <2>3 DEF SdkInv
<1>3. I => SdkTypeOK
  BY HoldersMeans, ConfigTypesMeans DEF SdkInv, SdkTypeOK
<1> QED BY <1>1, <1>2, <1>3, PTL DEF FairSpec
===============================================================================
