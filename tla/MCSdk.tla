--------------------------------- MODULE MCSdk ---------------------------------
(***************************************************************************)
(* Small instances of the parts of the SDK that must get somewhere, one of *)
(* them at a time: each behaviour picks a part and runs that one.          *)
(***************************************************************************)
EXTENDS Gateway, Spawner, RateLimiter, ConfigReload

CONSTANTS g1, g2, d1, d2
OneChild == {<<d1, d2>>}
NothingSet == [f \in Fields |-> Absent]
\* A file that only has a shared section, one whose sections disagree, and one with slips.
SomeDocuments ==
  {[Empty EXCEPT !.global = [@ EXCEPT !.timeout = 2, !.reload = 1]],
   [Empty EXCEPT !.global = [@ EXCEPT !.timeout = 2, !.interval = 4, !.reload = 0],
                 !.services = [@ EXCEPT !.timeout = 0], !.service = [@ EXCEPT !.interval = 3, !.port = 7]],
   [Empty EXCEPT !.global = [@ EXCEPT !.timeout = 3, !.port = Infinite], !.services = [@ EXCEPT !.interval = Bad]]}
SomeDefaults == [timeout |-> 9, interval |-> 6, reload |-> 1, port |-> 8]

VARIABLE part

Init ==
  /\ DelegationInit /\ SpawnerInit /\ RateInit /\ ConfigInit
  /\ part \in {"gateway", "spawner", "rate", "config"}

sdk == <<delegationVars, spawnerVars, rateVars, configVars, part>>

\* The others stay as they are.
Only(p) ==
  /\ part = p /\ UNCHANGED part
  /\ p # "gateway" => UNCHANGED delegationVars
  /\ p # "spawner" => UNCHANGED spawnerVars
  /\ p # "rate" => UNCHANGED rateVars
  /\ p # "config" => UNCHANGED configVars

InGateway(A) == part = "gateway" /\ A /\ Only("gateway")
InSpawner(A) == part = "spawner" /\ A /\ Only("spawner")
InRate(A) == part = "rate" /\ A /\ Only("rate")
InConfig(A) == part = "config" /\ A /\ Only("config")

Next == InGateway(DelegationNext) \/ InSpawner(SpawnerNext) \/ InRate(RateNext) \/ InConfig(ConfigNext)

\* The gateway's loop and the clocks go on, the threads of agents, of the watcher and of those
\* that apply a configuration run, and a coroutine that is due is resumed.
FairSpec ==
  /\ Init /\ [][Next]_sdk
  /\ \A d \in Delegations : WF_sdk(InGateway(LoopStep(d)))
  /\ WF_sdk(InGateway(TimePasses))
  /\ WF_sdk(InSpawner(StartsThread))
  /\ \A a \in AgentIds : WF_sdk(InSpawner(run_agent(a)))
  /\ \A c \in Coroutines : WF_sdk(InRate(Poll(c)))
  /\ WF_sdk(InRate(TickPasses))
  /\ WF_sdk(InConfig(Watches)) /\ \A r \in Refreshers : WF_sdk(InConfig(Refreshes(r)))
-------------------------------------------------------------------------------
(* Properties, each of one part or of parts alike *)

\* The type invariants of the parts.
SdkTypeOK == DelegationTypeOK /\ SpawnerTypeOK /\ RateTypeOK /\ ConfigTypeOK

\* Whoever began something can tell how it ended: a delegation that runs is one the gateway
\* knows, and an agent whose end was written stays ended.
EndsAreKnown == DelegationIsKnown /\ DeadIsTerminal

\* Whatever was begun ends: a delegation returns, an agent that is stopped ends, a call that
\* waits for tokens gets them or gives up, and a file that stays as it is takes effect.
SdkProgress == DelegationEnds /\ StoppedEnds /\ AcquireReturns /\ FileTakesEffect
===============================================================================
