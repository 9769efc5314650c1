-------------------------------- MODULE CallChain --------------------------------
(***************************************************************************)
(* The interceptors of the reference services (reference_auth_middleware,  *)
(* reference_metrics, reference_logging, sw4rm/tracing): a call passes     *)
(* metrics, logging, tracing, authorization and the rate limit before its  *)
(* handler runs. Calls are served by a pool of threads; the trace and the  *)
(* correlation id are context variables, so each thread has its own, which *)
(* outlive the call. A handler that streams its response is a generator:   *)
(* it runs when the calls of the wrappers inside of metrics have returned. *)
(* A token has been decoded to its subject.                                *)
(***************************************************************************)
EXTENDS Integers, FiniteSets

CONSTANTS
  PoolThreads,
  CallRequests,  \* records: method, actor (the token's subject, Nobody without a valid one),
                 \* agent (whom the request is about), traced, correlated
  SchedulerAgent, Nobody,
  Burst, PerTick,   \* burst_size; messages_per_second, per tick
  MaxClock          \* bound on the clock, which may be set back

ASSUME ChainAssumption ==
  IsFiniteSet(PoolThreads) /\ Burst \in Nat \ {0} /\ PerTick \in Nat \ {0} /\ MaxClock \in Nat

VARIABLES
  calls,    \* what each thread serves: [at |-> "idle"], or its request, how far it is, and
            \* the trace and correlation id it will restore
  traces, correlations,   \* _current_trace, _correlation_id of each thread
  inFlight,                 \* the gauge of calls in flight
  buckets,                \* _buckets: tokens and last_refill, by actor
  wallClock,
  window    \* history: since one counts, the earliest and latest time on the clock, and how
            \* many messages of each actor were admitted

chainVars == <<calls, traces, correlations, inFlight, buckets, wallClock, window>>

Unset == [kind |-> "none"]
FromRequest(r) == [kind |-> "request", of |-> r]
FromTrace(r) == [kind |-> "trace", of |-> r]
IdleThread == [at |-> "idle"]
Actors == {r.actor : r \in CallRequests} \cup {r.agent : r \in CallRequests}
NoBucket == [tokens |-> -1, last |-> -1]

ChainInit ==
  /\ calls = [t \in PoolThreads |-> IdleThread]
  /\ traces = [t \in PoolThreads |-> Unset] /\ correlations = [t \in PoolThreads |-> Unset]
  /\ inFlight = 0 /\ buckets = [a \in Actors |-> NoBucket] /\ wallClock = 0
  /\ window = [from |-> 0, latest |-> 0, admitted |-> [a \in Actors |-> 0]]

StageOf(t) == calls[t].at
Request(t) == calls[t].req
Streams(r) == r.method = "StreamIncoming"
MovesOn(t, where) == calls' = [calls EXCEPT ![t].at = where]
-------------------------------------------------------------------------------
(* The wrappers *)

\* A call's metadata or its envelope carries the trace of its caller.
HasParent(r) == r.traced
\* The correlation id of its envelope, its metadata or its own.
correlation_id(r) == IF r.correlated THEN FromRequest(r) ELSE Unset
\* logging and then tracing are entered: a trace brings a correlation id of its own.
EntersLogging(t, r) == IF correlation_id(r) = Unset THEN correlations[t] ELSE correlation_id(r)
EntersTracing(t, r) ==
  IF HasParent(r)
  THEN traces' = [traces EXCEPT ![t] = FromTrace(r)] /\ correlations' = [correlations EXCEPT ![t] = FromTrace(r)]
  ELSE correlations' = [correlations EXCEPT ![t] = EntersLogging(t, r)] /\ UNCHANGED traces
Enters(t, r) ==
  /\ StageOf(t) = "idle" /\ inFlight' = inFlight + 1
  /\ calls' = [calls EXCEPT ![t] =
       [at |-> "authorize", req |-> r, trace |-> traces[t], correlation |-> correlations[t]]]
  /\ EntersTracing(t, r)
  /\ UNCHANGED <<buckets, wallClock, window>>

\* tracing, which clears the id along with its trace, and logging are left. (Mutant: logging
\* has nothing to restore.)
LeavesTracing(t) ==
  /\ traces' = [traces EXCEPT ![t] = calls[t].trace]
  /\ correlations' = [correlations EXCEPT ![t] = IF HasParent(Request(t)) THEN Unset ELSE @]
LeavesBoth(t) ==
  /\ traces' = [traces EXCEPT ![t] = calls[t].trace]
  /\ correlations' = [correlations EXCEPT ![t] = calls[t].correlation]
LeavesMetrics(t) == calls' = [calls EXCEPT ![t] = IdleThread] /\ inFlight' = inFlight - 1

method_permissions(method) ==
  IF method \in {"RequestPreemption", "ShutdownAgent"} THEN {SchedulerAgent} ELSE Actors
self_bound_methods ==
  {"RegisterAgent", "Heartbeat", "DeregisterAgent", "SendMessage", "StreamIncoming", "SubmitTask",
   "PollActivityBuffer", "PurgeActivity"}
authorize(r) ==
  /\ r.actor # Nobody
  /\ r.actor = SchedulerAgent \/ r.actor \in method_permissions(r.method)
  /\ r.method \in self_bound_methods => r.agent = r.actor

\* A refused call ends: its exception passes the wrappers around it.
Refuses(t) == LeavesMetrics(t) /\ LeavesBoth(t)

Authorizes(t) ==
  /\ StageOf(t) = "authorize"
  /\ IF authorize(Request(t)) THEN MovesOn(t, "limit") /\ UNCHANGED <<traces, correlations, inFlight>>
     ELSE Refuses(t)
  /\ UNCHANGED <<buckets, wallClock, window>>

Fewer(m, n) == IF m < n THEN m ELSE n
Bucket(a) == IF buckets[a] = NoBucket THEN [tokens |-> Burst, last |-> wallClock] ELSE buckets[a]
\* A clock that was set back brings no tokens. (Mutant: the bucket follows it back.)
RefilledAt(b) == wallClock
RefillTime(b) == IF wallClock > b.last THEN wallClock ELSE b.last
TokensNow(b) == IF wallClock > b.last THEN Fewer(Burst, b.tokens + (wallClock - b.last) * PerTick) ELSE b.tokens

\* allow, under the policy's lock; the contexts of a stream are left before it runs.
Allows(t) ==
  /\ StageOf(t) = "limit"
  /\ LET a == Request(t).actor
         b == Bucket(a)
         limited == Request(t).method = "SendMessage"
         ok == ~limited \/ TokensNow(b) >= 1
     IN /\ buckets' = IF ~limited THEN buckets
                      ELSE [buckets EXCEPT ![a] =
                             [tokens |-> IF ok THEN TokensNow(b) - 1 ELSE TokensNow(b), last |-> RefillTime(b)]]
        /\ window' = IF ok /\ limited THEN [window EXCEPT !.admitted[a] = @ + 1] ELSE window
        /\ IF ~ok THEN Refuses(t)
           ELSE /\ MovesOn(t, "handler") /\ UNCHANGED inFlight
                /\ IF Streams(Request(t)) THEN LeavesBoth(t) ELSE UNCHANGED <<traces, correlations>>
  /\ UNCHANGED wallClock

\* The handler returns or raises; a stream that its client leaves is closed.
HandlerEnds(t) ==
  /\ StageOf(t) = "handler" /\ LeavesMetrics(t)
  /\ IF Streams(Request(t)) THEN UNCHANGED <<traces, correlations>> ELSE LeavesBoth(t)
  /\ UNCHANGED <<buckets, wallClock, window>>

\* time.time()
SetsClock(to) ==
  /\ wallClock' = to
  /\ window' = [window EXCEPT !.latest = IF to > @ THEN to ELSE @, !.from = Fewer(to, @)]
  /\ UNCHANGED <<calls, traces, correlations, inFlight, buckets>>
\* The time from which one counts is any.
Counts ==
  /\ wallClock # 0 /\ window.from = 0 /\ wallClock = window.latest
  /\ window' = [from |-> wallClock, latest |-> wallClock, admitted |-> [a \in Actors |-> 0]]
  /\ UNCHANGED <<calls, traces, correlations, inFlight, buckets, wallClock>>

ChainNext ==
  \/ \E t \in PoolThreads : \/ \E r \in CallRequests : Enters(t, r)
                            \/ Authorizes(t) \/ Allows(t) \/ HandlerEnds(t)
  \/ \E to \in {wallClock - 1, wallClock + 1} \cap 0..MaxClock : SetsClock(to)
  \/ Counts
-------------------------------------------------------------------------------
(* Properties *)

Contexts == {Unset} \cup {FromRequest(r) : r \in CallRequests} \cup {FromTrace(r) : r \in CallRequests}
ChainTypeOK ==
  /\ \A t \in PoolThreads : /\ StageOf(t) \in {"idle", "authorize", "limit", "handler"}
                            /\ StageOf(t) # "idle" => Request(t) \in CallRequests
  /\ traces \in [PoolThreads -> Contexts] /\ correlations \in [PoolThreads -> Contexts]
  /\ inFlight \in 0..Cardinality(PoolThreads) /\ wallClock \in 0..MaxClock
  /\ \A a \in Actors :
       \/ buckets[a] = NoBucket
       \/ buckets[a].tokens \in 0..Burst /\ buckets[a].last \in 0..MaxClock

\* A call leaves nothing behind, however it ends: the gauge counts the calls in flight, a
\* thread that serves none has no context; and a handler that does not stream logs
\* and traces as its own call, never as one its thread served before.
CallsLeaveNoTrace ==
  /\ inFlight = Cardinality({t \in PoolThreads : StageOf(t) # "idle"})
  /\ \A t \in PoolThreads :
       IF StageOf(t) = "idle" THEN traces[t] = Unset /\ correlations[t] = Unset
       ELSE /\ traces[t] \in {Unset, FromTrace(Request(t))}
            /\ correlations[t] \in {Unset, FromRequest(Request(t)), FromTrace(Request(t))}
            /\ StageOf(t) = "handler" /\ ~Streams(Request(t)) =>
                 /\ Request(t).traced => traces[t] = FromTrace(Request(t))
                 /\ Request(t).correlated => correlations[t] # Unset

\* From any moment on, an agent has no more messages admitted than the burst and what the
\* rate brings in the span the clock has run over since, whichever threads serve it and
\* though the clock is set back and forth in between; and no handler serves an agent who acts for another.
AdmittedInBound ==
  /\ \A a \in Actors : window.admitted[a] <= Burst + PerTick * (window.latest - window.from)
  /\ \A t \in PoolThreads : StageOf(t) = "handler" =>
       LET r == Request(t) IN
       /\ r.method \in {"SendMessage", "StreamIncoming"} => r.agent = r.actor
       /\ r.method = "RequestPreemption" => r.actor = SchedulerAgent

\* Also a handler that streams logs and traces as its call. Its contexts are left before
\* it runs, so the code does not provide it.
StreamsAreTraced ==
  \A t \in PoolThreads : StageOf(t) = "handler" /\ Request(t).traced => traces[t] = FromTrace(Request(t))
===============================================================================
