------------------------------ MODULE RateLimiter ------------------------------
(***************************************************************************)
(* TokenBucket (llm/rate_limiter.py), the bucket that all calls of the     *)
(* language models share. The callers are coroutines of one event loop: a  *)
(* poll of acquire, with its refill and recovery, is one step, and nobody  *)
(* is served in turn. A tick is the time between two polls of a caller;    *)
(* tokens and rates are small integers, so a refill is what the rate       *)
(* brings in a tick.                                                       *)
(***************************************************************************)
EXTENDS Integers, FiniteSets

CONSTANTS
  Coroutines,
  Requests,      \* estimated_tokens, at least min_tokens_per_request
  BaseRate,      \* tokens_per_minute, per tick
  MinRate,       \* _min_tpm, per tick
  Minute,        \* ticks a minute has: the bucket holds a minute's tokens (burst_allowance 1)
  MaxWait,       \* max_wait_seconds, in ticks
  Cooldown,      \* cooldown_seconds, in ticks
  Threshold,     \* successes_for_recovery
  NeverLimited

ASSUME RateLimiterAssumption ==
  /\ Requests \subseteq Nat \ {0} /\ BaseRate \in Nat \ {0} /\ MinRate \in 1..BaseRate
  /\ Minute \in Nat \ {0} /\ MaxWait \in Nat /\ Cooldown \in Nat /\ Threshold \in Nat
  /\ NeverLimited \notin Nat

VARIABLES
  tokens, rate,   \* _tokens, _current_tpm
  elapsed,        \* ticks since _last_refill (Minute stands for more)
  sinceLimit,     \* ticks since the last rate limit (Cooldown stands for more)
  successes,      \* _successes_since_limit (Threshold stands for more)
  acquiring       \* of each coroutine: [wants |-> 0] when it is not in acquire; else the
                  \* tokens it wants, the ticks it waits, whether it is to poll now

rateVars == <<tokens, rate, elapsed, sinceLimit, successes, acquiring>>

Least(m, n) == IF m < n THEN m ELSE n
Idle == [wants |-> 0, waited |-> 0, polls |-> FALSE]

RateInit ==
  /\ tokens = BaseRate * Minute /\ rate = BaseRate /\ elapsed = 0
  /\ sinceLimit = NeverLimited /\ successes = 0 /\ acquiring = [c \in Coroutines |-> Idle]

\* _refill and _maybe_recover. (Mutant: the bucket has no bound.)
RefilledAbove == tokens + elapsed * rate
Refilled == Least(tokens + elapsed * rate, rate * Minute)
Recovers == rate < BaseRate /\ sinceLimit = Cooldown /\ successes >= Threshold
Refill(left) ==
  /\ tokens' = left /\ elapsed' = 0
  /\ IF Recovers THEN rate' = rate + 1 /\ successes' = 0 ELSE UNCHANGED <<rate, successes>>
  /\ UNCHANGED sinceLimit

acquire(c, n) ==
  /\ acquiring[c] = Idle
  /\ acquiring' = [acquiring EXCEPT ![c] = [wants |-> n, waited |-> 0, polls |-> TRUE]]
  /\ UNCHANGED <<tokens, rate, elapsed, sinceLimit, successes>>

\* (Mutant: the call waits for as long as it takes.)
WaitsForEver(c) == FALSE
GivesUp(c) == acquiring[c].waited >= MaxWait

\* Tokens, a TimeoutError, or another sleep.
Poll(c) ==
  /\ acquiring[c].polls
  /\ IF Refilled >= acquiring[c].wants
     THEN Refill(Refilled - acquiring[c].wants) /\ acquiring' = [acquiring EXCEPT ![c] = Idle]
     ELSE /\ Refill(Refilled)
          /\ acquiring' = [acquiring EXCEPT ![c] = IF GivesUp(c) THEN Idle
                                                   ELSE [@ EXCEPT !.polls = FALSE]]

\* The limit is cut by reduction_factor; the bucket keeps what fits.
record_rate_limit ==
  /\ sinceLimit' = 0 /\ successes' = 0
  /\ \E r \in MinRate..rate :
       /\ r = rate => rate = MinRate
       /\ rate' = r /\ tokens' = Least(tokens, r * Minute)
  /\ UNCHANGED <<elapsed, acquiring>>

record_success ==
  /\ successes < Threshold /\ successes' = successes + 1
  /\ UNCHANGED <<tokens, rate, elapsed, sinceLimit, acquiring>>

\* Every sleeper polls once a tick.
TickPasses ==
  /\ \A c \in Coroutines : ~acquiring[c].polls
  /\ elapsed' = Least(elapsed + 1, Minute)
  /\ sinceLimit' = IF sinceLimit = NeverLimited THEN NeverLimited ELSE Least(sinceLimit + 1, Cooldown)
  /\ acquiring' = [c \in Coroutines |->
       IF acquiring[c] = Idle THEN Idle
       ELSE [acquiring[c] EXCEPT !.waited = Least(@ + 1, MaxWait), !.polls = TRUE]]
  /\ UNCHANGED <<tokens, rate, successes>>

RateNext ==
  \/ \E c \in Coroutines : Poll(c) \/ \E n \in Requests : acquire(c, n)
  \/ record_rate_limit \/ record_success \/ TickPasses
-------------------------------------------------------------------------------
(* Properties *)

\* The bucket never holds less than nothing nor, after a reduction, more than the reduced
\* limit allows; the limit stays between the least and the configured one.
RateTypeOK ==
  /\ rate \in MinRate..BaseRate /\ tokens \in 0..(rate * Minute) /\ elapsed \in 0..Minute
  /\ sinceLimit \in 0..Cooldown \cup {NeverLimited} /\ successes \in 0..Threshold
  /\ acquiring \in [Coroutines ->
       [wants : Requests \cup {0}, waited : 0..MaxWait, polls : BOOLEAN]]

\* Every acquire returns: it is granted or times out, also when it asks for more than the
\* bucket can hold, or for what others take before it whenever it polls.
AcquireReturns == \A c \in Coroutines : acquiring[c] # Idle ~> acquiring[c] = Idle

\* A caller that keeps polling is not passed over for ever: of two that wait, the one
\* that wants less is not granted twice while the other waits. There is no queue, so the
\* code does not provide it.
ServedInTurn ==
  [][\A c, d \in Coroutines :
       (acquiring[c] # Idle /\ acquiring[c].waited > acquiring[d].waited /\ acquiring[d] # Idle
          /\ acquiring'[c] = acquiring[c])
         => acquiring'[d] # Idle]_rateVars
===============================================================================
