-------------------------------- MODULE Spawner --------------------------------
(***************************************************************************)
(* ThreadSpawner (colony/spawner/thread_spawner.py): agents that run in    *)
(* the threads of an executor. Callers and the agent's own thread write    *)
(* the same status, each write under the lock but without regard to what   *)
(* was written before it; a thread is cut into steps at those writes and   *)
(* at its looks at the stop event.                                         *)
(***************************************************************************)
EXTENDS Naturals, FiniteSets, Sequences

CONSTANTS
  AgentIds,    \* generate_agent_id: bounds the spawns over time
  MaxAgents,   \* max_agents, also the number of threads of the executor
  NoHandle

ASSUME SpawnerAssumption == MaxAgents \in Nat \ {0}

Alive == {"SPAWNING", "STARTING", "READY"}      \* is_alive; BUSY, UNHEALTHY are never written
Ended == {"TERMINATED", "FAILED"}               \* is_terminal
AgentStatus == Alive \cup Ended \cup {"TERMINATING"}

VARIABLES
  handles,   \* _agents: the status of each agent
  stopping,  \* the agents whose stop event is set
  stoppable, \* the agents in _agent_stop_events
  threadAt,  \* where each agent's _run_agent is: "none", "queued" in the executor,
             \* "factory", "delay", "markReady", "loop", "cleanup", "ended", "cancelled"
  queued,    \* the executor's queue
  accepting  \* the executor is not shut down

spawnerVars == <<handles, stopping, stoppable, threadAt, queued, accepting>>

SpawnerInit ==
  /\ handles = [a \in AgentIds |-> NoHandle] /\ stopping = {} /\ stoppable = {}
  /\ threadAt = [a \in AgentIds |-> "none"] /\ queued = <<>> /\ accepting = TRUE

InHandles(a) == handles[a] # NoHandle
RunningThreads == {a \in AgentIds : threadAt[a] \in {"factory", "delay", "markReady", "loop", "cleanup"}}
\* _update_status: nothing when the handle was cleaned up
update_status(a, s) == handles' = IF InHandles(a) THEN [handles EXCEPT ![a] = s] ELSE handles
-------------------------------------------------------------------------------
(* Callers *)

\* After shutdown the executor refuses, and the handle stays SPAWNING.
spawn_agent_async(a) ==
  /\ threadAt[a] = "none" /\ ~InHandles(a) /\ a \notin stoppable
  /\ Cardinality({b \in AgentIds : handles[b] \in Alive}) < MaxAgents
  /\ handles' = [handles EXCEPT ![a] = "SPAWNING"]
  /\ stoppable' = stoppable \cup {a}
  /\ IF accepting THEN /\ queued' = Append(queued, a)
                       /\ threadAt' = [threadAt EXCEPT ![a] = "queued"]
                  ELSE UNCHANGED <<queued, threadAt>>
  /\ UNCHANGED <<stopping, accepting>>

\* The time-out of wait_ready. Its polls only read, and the agent may have become ready or
\* ended between the last of them and the lock.
wait_ready_times_out(a) ==
  /\ InHandles(a)
  /\ IF handles[a] \in Ended THEN UNCHANGED <<handles, stopping>>
     ELSE /\ handles' = [handles EXCEPT ![a] = "FAILED"]
          /\ stopping' = stopping \cup ({a} \cap stoppable)
  /\ UNCHANGED <<stoppable, threadAt, queued, accepting>>

\* (Mutant: an agent that has ended is terminated again.)
Terminable(a) == InHandles(a)
NotEnded(a) == InHandles(a) /\ handles[a] \notin Ended
terminate_agent(a, force) ==
  /\ NotEnded(a)
  /\ handles' = [handles EXCEPT ![a] = IF force THEN "TERMINATED" ELSE "TERMINATING"]
  /\ stopping' = stopping \cup ({a} \cap stoppable)
  /\ UNCHANGED <<stoppable, threadAt, queued, accepting>>

\* old: the agents that were spawned long enough ago, whether or not their threads ended
cleanup_terminated(old) ==
  /\ old # {} /\ \A a \in old : handles[a] \in Ended
  /\ handles' = [a \in AgentIds |-> IF a \in old THEN NoHandle ELSE handles[a]]
  /\ stoppable' = stoppable \ old
  /\ UNCHANGED <<stopping, threadAt, queued, accepting>>

shutdown(wait) ==
  /\ accepting /\ accepting' = FALSE
  /\ stopping' = stopping \cup stoppable
  /\ IF wait THEN UNCHANGED <<queued, threadAt>>
     ELSE /\ queued' = <<>>
          /\ threadAt' = [a \in AgentIds |-> IF threadAt[a] = "queued" THEN "cancelled" ELSE threadAt[a]]
  /\ UNCHANGED <<handles, stoppable>>
-------------------------------------------------------------------------------
(* The agent's thread: _run_agent *)

Moves(a, from, to) == threadAt[a] = from /\ threadAt' = [threadAt EXCEPT ![a] = to]
OthersStay == UNCHANGED <<stopping, stoppable, accepting>>

StartsThread ==
  /\ queued # <<>> /\ Cardinality(RunningThreads) < MaxAgents
  /\ LET a == Head(queued) IN Moves(a, "queued", "factory") /\ update_status(a, "STARTING")
  /\ queued' = Tail(queued) /\ OthersStay

FactoryRaises(a) ==
  Moves(a, "factory", "ended") /\ update_status(a, "FAILED") /\ UNCHANGED queued /\ OthersStay
FactoryReturns(a) ==
  Moves(a, "factory", "delay") /\ UNCHANGED <<handles, queued>> /\ OthersStay

\* The start-up delay: the agent is marked as ready unless it is stopped by then.
DelayPasses(a) ==
  /\ Moves(a, "delay", IF a \in stopping THEN "loop" ELSE "markReady")
  /\ UNCHANGED <<handles, queued>> /\ OthersStay
MarksReady(a) ==
  Moves(a, "markReady", "loop") /\ update_status(a, "READY") /\ UNCHANGED queued /\ OthersStay

LeavesLoop(a) ==
  /\ a \in stopping /\ Moves(a, "loop", "cleanup") /\ update_status(a, "TERMINATING")
  /\ UNCHANGED queued /\ OthersStay
\* cleanup() of the agent; its exceptions are caught
Terminates(a) ==
  Moves(a, "cleanup", "ended") /\ update_status(a, "TERMINATED") /\ UNCHANGED queued /\ OthersStay

run_agent(a) ==
  \/ FactoryRaises(a) \/ FactoryReturns(a) \/ DelayPasses(a) \/ MarksReady(a)
  \/ LeavesLoop(a) \/ Terminates(a)

SpawnerNext ==
  \/ \E a \in AgentIds : \/ spawn_agent_async(a) \/ wait_ready_times_out(a) \/ run_agent(a)
                         \/ \E force \in BOOLEAN : terminate_agent(a, force)
  \/ \E old \in SUBSET AgentIds : cleanup_terminated(old)
  \/ \E wait \in BOOLEAN : shutdown(wait)
  \/ StartsThread
-------------------------------------------------------------------------------
(* Properties *)

SpawnerTypeOK ==
  /\ handles \in [AgentIds -> AgentStatus \cup {NoHandle}]
  /\ stopping \subseteq AgentIds /\ stoppable \subseteq AgentIds /\ accepting \in BOOLEAN
  /\ threadAt \in [AgentIds -> {"none", "queued", "factory", "delay", "markReady", "loop",
                                "cleanup", "ended", "cancelled"}]
  /\ queued \in Seq(AgentIds)

\* An agent whose thread has ended is on record as ended, whatever terminate_agent, a
\* time-out and the thread wrote, and in whatever order: no caller can put it back among
\* those that count against max_agents or that somebody waits for.
DeadIsTerminal ==
  \A a \in AgentIds : threadAt[a] = "ended" /\ InHandles(a) => handles[a] \in Ended

\* An agent that is stopped ends for good, unless its thread is cancelled before it starts:
\* in the end its status is a terminal one and stays so, also when READY or TERMINATING was
\* written over it.
StoppedEnds ==
  \A a \in AgentIds :
    (a \in stopping /\ threadAt[a] # "none")
      ~> [](\/ threadAt[a] = "cancelled"
            \/ threadAt[a] = "ended" /\ handles[a] \in Ended \cup {NoHandle})

\* Once an agent's status is terminal it stays so. The thread writes STARTING, READY and
\* TERMINATING over it, so the code does not provide it.
TerminalStays ==
  [][\A a \in AgentIds : handles[a] \in Ended => handles'[a] \in Ended \cup {NoHandle}]_spawnerVars
===============================================================================
