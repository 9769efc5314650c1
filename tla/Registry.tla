------------------------------- MODULE Registry -------------------------------
(***************************************************************************)
(* RegistryServiceImpl (hive/registry_service.py) over RegistryStateStore  *)
(* (hive/state_store.py): the agents that are registered, the time of      *)
(* their last heartbeat, and the thread that removes the silent ones.      *)
(* Heartbeat and DeregisterAgent read the clock under the lock, so they    *)
(* are one step each; RegisterAgent and the cleaner read it before they    *)
(* take the lock, and are two. The store may raise in any handler, after   *)
(* the dictionaries were written. A handler that read is_draining before   *)
(* the drain runs after it, so draining only stops the cleaner.            *)
(***************************************************************************)
EXTENDS Integers, FiniteSets

CONSTANTS
  Agents,
  ProtectedAgents,   \* protected_agents
  RegistryThreads,   \* threads of the server's pool that may be in RegisterAgent
  Timeouts,          \* heartbeat timeouts the configuration takes, in ticks
  MaxTime, MaxStoreFaults, MaxRegistryCrashes,   \* bounds
  NoBeat,
  NoCall

ASSUME RegistryAssumption ==
  /\ ProtectedAgents \subseteq Agents /\ Timeouts \subseteq Nat /\ Timeouts # {}
  /\ MaxTime \in Nat /\ MaxStoreFaults \in Nat /\ MaxRegistryCrashes \in Nat
  /\ NoBeat \notin 0..MaxTime /\ NoCall \notin [agent : Agents, now : 0..MaxTime]

VARIABLES
  beats,     \* last heartbeat of each agent: agents and agent_heartbeats, always
             \* written together
  rows,      \* the same in the table registry_agents
  registering, \* of each thread of the pool, the call of RegisterAgent that has read the clock
             \* and not the lock yet: its agent and its `now`
  cleaner,   \* the cleanup thread: "sleeping", "sweeping", "gone"
  sweepTime, \* the `now` it has read, and 0 while it sleeps
  timeout,   \* _heartbeat_timeout_seconds
  clock,
  isDraining,
  answered,  \* history: time of the last call of each member that was answered ok, or of the
             \* oldest registration of that member that was under way at that moment
  left,      \* history: agents whose deregistration was answered ok, not registered since
  registryCrashes, storeFaults

registryVars == <<beats, rows, registering, cleaner, sweepTime, timeout, clock, isDraining,
                  answered, left, registryCrashes, storeFaults>>

RegistryInit ==
  /\ beats = [a \in Agents |-> NoBeat] /\ rows = beats
  /\ registering = [t \in RegistryThreads |-> NoCall]
  /\ cleaner = "sleeping" /\ sweepTime = 0 /\ timeout \in Timeouts /\ clock = 0
  /\ isDraining = FALSE /\ answered = beats /\ left = {}
  /\ registryCrashes = 0 /\ storeFaults = 0

Members == {a \in Agents : beats[a] # NoBeat}

StoreRaises == storeFaults < MaxStoreFaults /\ storeFaults' = storeFaults + 1
CleanerIdle == UNCHANGED <<cleaner, sweepTime, timeout, clock, isDraining, registryCrashes>>
-------------------------------------------------------------------------------
(* Handlers *)

\* What the calls of RegisterAgent for each agent that wait for the lock have read.
UnderWay ==
  [a \in Agents |-> {registering[t].now : t \in {u \in RegistryThreads :
                       registering[u] # NoCall /\ registering[u].agent = a}}]

\* A call for a that read the clock at `now` is answered ok.
Confirms(a, now) ==
  \E oldest \in {now} \cup UnderWay'[a] :
    /\ \A reading \in {now} \cup UnderWay'[a] : oldest <= reading
    /\ answered' = [answered EXCEPT ![a] = oldest]

\* Reads the clock; other handlers run before it has the lock.
CallsRegister(t, a) ==
  /\ registering[t] = NoCall
  /\ registering' = [registering EXCEPT ![t] = [agent |-> a, now |-> clock]]
  /\ UNCHANGED <<beats, rows, answered, left, storeFaults>> /\ CleanerIdle

\* Under the lock, with the time it has read before.
RegisterAgent(t) ==
  /\ registering[t] # NoCall /\ registering' = [registering EXCEPT ![t] = NoCall]
  /\ LET a == registering[t].agent
         now == registering[t].now
     IN  /\ beats' = [beats EXCEPT ![a] = now]
         /\ left' = left \ {a}
         /\ \/ rows' = [rows EXCEPT ![a] = now] /\ Confirms(a, now) /\ UNCHANGED storeFaults
            \/ StoreRaises /\ UNCHANGED <<rows, answered>>
  /\ CleanerIdle

\* Answers ok=False, and changes nothing, when the agent is not registered.
\* (Mutant: the heartbeat is not saved.)
HeartbeatInMemory(a) ==
  /\ a \in Members /\ beats' = [beats EXCEPT ![a] = clock] /\ UNCHANGED registering
  /\ Confirms(a, clock) /\ UNCHANGED <<rows, left, storeFaults>> /\ CleanerIdle
Heartbeat(a) ==
  /\ a \in Members
  /\ beats' = [beats EXCEPT ![a] = clock] /\ UNCHANGED registering
  /\ \/ rows' = [rows EXCEPT ![a] = clock] /\ Confirms(a, clock) /\ UNCHANGED storeFaults
     \/ StoreRaises /\ UNCHANGED <<rows, answered>>
  /\ UNCHANGED left /\ CleanerIdle

\* Answers ok=False, and changes nothing, when the agent is not registered.
\* (Mutant: the row is kept.)
DeregisterInMemory(a) ==
  /\ a \in Members
  /\ beats' = [beats EXCEPT ![a] = NoBeat] /\ answered' = [answered EXCEPT ![a] = NoBeat]
  /\ left' = left \cup {a}
  /\ UNCHANGED <<rows, registering, storeFaults>> /\ CleanerIdle
DeregisterAgent(a) ==
  /\ a \in Members
  /\ beats' = [beats EXCEPT ![a] = NoBeat]
  /\ answered' = [answered EXCEPT ![a] = NoBeat]
  /\ \/ rows' = [rows EXCEPT ![a] = NoBeat] /\ left' = left \cup {a} /\ UNCHANGED storeFaults
     \/ StoreRaises /\ UNCHANGED <<rows, left>>
  /\ UNCHANGED registering /\ CleanerIdle
-------------------------------------------------------------------------------
(* _heartbeat_cleanup *)

\* After the sleep; the lock is not held yet.
ReadClock ==
  /\ cleaner = "sleeping"
  /\ cleaner' = "sweeping" /\ sweepTime' = clock
  /\ UNCHANGED <<beats, rows, registering, timeout, clock, isDraining, answered, left, registryCrashes,
                 storeFaults>>

\* (Mutant: an off-by-one.)
JustOverdue(a) == sweepTime - beats[a] >= timeout
Overdue(a) == sweepTime - beats[a] > timeout
Expired == {a \in Members \ ProtectedAgents : Overdue(a)}

\* Back at the top of the loop.
NextRound == cleaner' = (IF isDraining THEN "gone" ELSE "sleeping") /\ sweepTime' = 0

Forgotten(f, gone) == [a \in Agents |-> IF a \in gone THEN NoBeat ELSE f[a]]

Sweep ==
  /\ cleaner = "sweeping"
  /\ beats' = Forgotten(beats, Expired) /\ rows' = Forgotten(rows, Expired)
  /\ answered' = Forgotten(answered, Expired)
  /\ NextRound
  /\ UNCHANGED <<registering, timeout, clock, isDraining, left, registryCrashes, storeFaults>>

\* The store raises for one agent, after some others: the exception is logged, the rest
\* of the sweep is skipped. (Mutant: the exception ends the thread.)
SweepFails(thereafter) ==
  /\ cleaner = "sweeping" /\ StoreRaises
  /\ \E done \in SUBSET Expired : \E a \in Expired \ done :
       /\ beats' = Forgotten(beats, done \cup {a}) /\ rows' = Forgotten(rows, done)
       /\ answered' = Forgotten(answered, done \cup {a})
  /\ cleaner' = thereafter /\ sweepTime' = 0
  /\ UNCHANGED <<registering, timeout, clock, isDraining, left, registryCrashes>>
SweepAborts == SweepFails("gone")
SweepInterrupted == SweepFails(IF isDraining THEN "gone" ELSE "sleeping")
-------------------------------------------------------------------------------
(* Environment *)

\* The configuration file changed; the next handler or round applies it.
Reload ==
  /\ timeout' \in Timeouts \ {timeout}
  /\ UNCHANGED <<beats, rows, registering, cleaner, sweepTime, clock, isDraining, answered, left,
                 registryCrashes, storeFaults>>

Drain ==
  /\ ~isDraining /\ isDraining' = TRUE
  /\ UNCHANGED <<beats, rows, registering, cleaner, sweepTime, timeout, clock, answered, left,
                 registryCrashes, storeFaults>>

\* The process dies, with the calls it has not answered, and another one loads the table.
RestartRegistry ==
  /\ registryCrashes < MaxRegistryCrashes /\ registryCrashes' = registryCrashes + 1
  /\ beats' = rows /\ cleaner' = "sleeping" /\ sweepTime' = 0 /\ isDraining' = FALSE
  /\ registering' = [t \in RegistryThreads |-> NoCall]
  /\ UNCHANGED <<rows, timeout, clock, answered, left, storeFaults>>

RegistryTick ==
  /\ clock < MaxTime /\ clock' = clock + 1
  /\ UNCHANGED <<beats, rows, registering, cleaner, sweepTime, timeout, isDraining, answered, left,
                 registryCrashes, storeFaults>>

RegistryNext ==
  \/ \E t \in RegistryThreads : RegisterAgent(t) \/ \E a \in Agents : CallsRegister(t, a)
  \/ \E a \in Agents : Heartbeat(a) \/ DeregisterAgent(a)
  \/ ReadClock \/ Sweep \/ SweepInterrupted
  \/ Reload \/ Drain \/ RestartRegistry \/ RegistryTick

RegistrySpec == RegistryInit /\ [][RegistryNext]_registryVars
-------------------------------------------------------------------------------
(* Properties *)

Beats == [Agents -> 0..MaxTime \cup {NoBeat}]
RegistryTypeOK ==
  /\ {beats, rows, answered} \subseteq Beats /\ left \subseteq Agents
  /\ registering \in [RegistryThreads -> [agent : Agents, now : 0..clock] \cup {NoCall}]
  /\ cleaner \in {"sleeping", "sweeping", "gone"} /\ timeout \in Timeouts
  /\ sweepTime \in 0..clock /\ clock \in 0..MaxTime /\ isDraining \in BOOLEAN
  /\ registryCrashes \in 0..MaxRegistryCrashes /\ storeFaults \in 0..MaxStoreFaults

\* The cleaner removes an agent only if it is silent for longer than the timeout at
\* that moment, although its clock reading is older than the heartbeats it meets
\* under the lock (_heartbeat_cleanup); it never removes a protected agent.
ExpiryIsJustified ==
  [][\A a \in Agents :
       /\ beats[a] # NoBeat /\ beats'[a] = NoBeat
       /\ cleaner = "sweeping" /\ cleaner' # "sweeping" /\ registryCrashes' = registryCrashes
       => clock - beats[a] > timeout /\ a \notin ProtectedAgents]_registryVars

\* An agent whose deregistration was confirmed stays out, restarts included, until it
\* registers again (DeregisterAgent, load_agents).
LeftIsGone == left \cap Members = {}

\* A restart does not forget a confirmed registration or heartbeat: it would remove the
\* agent too early (RegisterAgent, Heartbeat, load_agents). The row is older than the last
\* confirmed sign of life only by a registration that had read the clock before.
HeartbeatSurvives == \A a \in Agents : answered[a] # NoBeat => rows[a] # NoBeat /\ rows[a] >= answered[a]

\* What the registry confirmed, a member's departure or its last sign of life, is in its store.
RegistryIsDurable == LeftIsGone /\ HeartbeatSurvives

\* A member that stays silent is removed, whatever one sweep meets (_heartbeat_cleanup).
SilentIsRemoved ==
  \A a \in Agents \ ProtectedAgents :
    []<>(isDraining \/ a \notin Members \/ clock - beats[a] <= timeout)

\* An agent that is out does not come back by a restart, only by registering.
NoGhost ==
  [][\A a \in Agents : beats[a] = NoBeat /\ beats'[a] # NoBeat
                        => registryCrashes' = registryCrashes]_registryVars

\* What a handler wrote is never put back to an older time while the process lives; a call
\* of RegisterAgent that waited for the lock does it.
SignsOnlyAdvance ==
  [][\A a \in Agents : /\ beats[a] # NoBeat /\ beats'[a] # NoBeat
                        /\ registryCrashes' = registryCrashes
                        => beats'[a] >= beats[a]]_registryVars
===============================================================================
