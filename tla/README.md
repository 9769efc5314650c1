# A TLA+ project for the SW4RM Python implementation

SW4RM is a protocol for agents that coordinate through a small set of services:
a router, a registry, a scheduler, and coordination services for negotiation,
handoff and workflows. The repository holds the protocol documents, SDKs in five
languages, and reference services. This project models the Python code: the
reference services in `sdks/py_sdk/reference-services`, the SDK in
`sdks/py_sdk/sw4rm`, three of its examples in `sdks/py_sdk/examples`, the JSON store in
`sdks/colony/stores` and the A2A gateway in `a2a_gateway`. Paths below are relative to the
repository; `PROJECT.json` gives the lines each definition is translated from.

Contents: [inventory](#inventory), [plan](#plan), [modules](#the-modules),
[runs](#the-runs), [findings](#findings),
[what the code does not provide](#what-the-code-does-not-provide), [proofs](#proofs),
[limits](#what-is-not-modelled).

## Inventory

How the parts interact. An agent registers and sends heartbeats (registry), opens
`StreamIncoming` and calls `SendMessage` (router), is given tasks and is preempted
(scheduler), and keeps its own log of messages and their acknowledgement stages
(activity buffer, ACK lifecycle). Services are gRPC servers with a thread pool: a call
passes the interceptors (metrics, logging, tracing, authorization, rate limit), then a
handler runs in the same worker, usually under one lock of its service, and writes an
SQLite table through the service's state store. All of them follow one configuration file
and share `graceful_shutdown.py`: handlers count themselves in, a signal handler drains and
stops the server. The scheduler's process also runs a planning loop, and
`sw4rm_multi_agent.py` a code review by several agents, both over the router.

Inside an agent's process the SDK keeps its own state: the agent's state machine, shared
contexts, handoffs, negotiation rooms, workflows, threads of spawned agents, a rate limiter,
feature flags. Most of it is a dictionary under a lock, used by callers that read, decide
and write in separate calls. The delegation gateway and the A2A gateway connect swarms and
foreign clients.

| component | state | operations | what is hard | what makes it correct |
|---|---|---|---|---|
| **Router service** `hive/router_service.py`, `RouterStateStore` | pending rows, agents, log (SQLite); one `queue.Queue` per agent, `message_log` (memory) | `SendMessage`, `StreamIncoming`, `_restore_state`, configuration refresh, drain | streams pop without the lock the senders hold; memory and store are written one after the other; restart, full queues, clients that vanish, store errors | an accepted message is stored until its agent has it; queues are FIFO and a row is in one hand; a rejected message leaves nothing; every call is answered |
| **Graceful shutdown** `hive/graceful_shutdown.py` | draining flag, in-flight counter, a non-reentrant lock, the signal handler's stack | `is_draining`, `track_request`, `request_shutdown`, `wait_for_inflight`, `stop_server` | the flag is tested before the request is counted; a signal handler runs on top of the main thread | the counter is exact; no request in flight is cut off without a time-out; a signal leads to a stop |
| **Interceptors** `hive/reference_auth_middleware.py`, `reference_metrics.py`, `reference_logging.py`, `sw4rm/tracing.py`, `logging.py` | context variables of each thread, in-flight gauge, a token bucket per agent | a call's way in and out, by return, refusal or exception | threads are reused; streaming handlers run after their wrappers returned; the clock is set back | a call leaves no context behind; an agent stays in its rate and acts for itself |
| **Configuration of the services** `hive/reference_config.py` | the file, the watcher's configuration, the registry's own copies | resolve, load, watch, close, apply | a file is read while it is written; several threads apply what they read at different times | a file that stays takes effect, for good |
| **Registry service** `hive/registry_service.py` | agents and heartbeats (memory and table) | `RegisterAgent`, `Heartbeat`, `DeregisterAgent`, the cleanup thread | the clock of the cleaner and of a registration is read before the lock is taken; store errors in mid-sweep; restart | only silent agents expire, and all of them do; a confirmed answer survives a restart |
| **Scheduler service** `hive/scheduler_service.py` | tasks and activity per agent (memory and two tables) | `SubmitTask`, `RequestPreemption`, `PollActivityBuffer`, `PurgeActivity` | generated ids, three writes per call, restart | a generated id is new unless a client chose it or a task was forgotten; confirmed preemptions and purges hold |
| **Scheduler's planning loop** `main()` of the same file | sessions by correlation id; the claude process, its pipe | prompts, commands to two agents, their reports; reading the process's lines | reports of two agents cross with commands, sends fail; the process blocks on a full pipe | an agent runs its program when both have generated; a plan is a result of the process; the call ends |
| **Code review** `sw4rm_multi_agent.py` | each agent's inbox and state, the room | assign, analyse, review, request votes, vote, decide, time out | messages lost, repeated and out of order; handlers raise | agents do not wait for each other; a decision counts all findings and votes |
| **Workflow service** `coordination/workflow_service.py` | definitions, node states of each instance | create, start, `ResumeWorkflow`, `update_node_state`, clear | completion is the sum of three updates; nodes are completed in any order | a workflow run in order goes on to its end, and then ends |
| **Handoff service** `coordination/handoff_service.py` | requests, pending queues, status | request, accept, reject, complete, list, clear | any status can be written over any other | one answer is given and it is on record |
| **Negotiation room** `coordination/negotiation_room_service.py`, `server.py` | proposals, votes, decisions, events; the pool | submit, vote, decide, `WaitForDecision`, clear | the lock is released between the check and the wait; a waiter holds a worker | no wake-up is lost; every call is answered |
| **Activity buffer** `sw4rm/activity_buffer.py`, `persistence.py` | records by id, token index, order, dirty flag; a JSON file or SQLite table | record, `ack`, `update_state`, look-up, `flush`, `clear`, load | capacity, expiry of tokens, a save that fails, a restart on a full log | the bound holds; the index leads to the right record; clean means saved; the saved log is not lost |
| **ACK lifecycle** `sw4rm/ack_integration.py`, `acks.py` | the buffer, plus where each thread is in a call | `send_message_with_ack`, `send_ack`, `process_incoming_ack`, `process_message` | the router is called in the middle of a method; crash, full buffer, duplicate delivery, late acks | what was sent is saved; a peer's acks go RECEIVED, READ, verdict |
| **Worktree binding** `sw4rm/worktree_policies.py` | binding, home, state, `threading.Timer`, saved binding | bind, unbind, switch, request / approve / reject switch, revert, clear | the timer reverts in its own thread and nothing is locked | state and bindings agree; a TTL reverts |
| **Delegation gateway** `sw4rm/gateway.py`, `delegation.py`, `cancellation.py` | active delegations, children, cancellations; each caller's loop | admit, complete, cancel, redirect, retry, preempt | one request is sent again, after a lost answer or to the next peer; cancelled children and their grace | both sides know how a call ended; the loop returns |
| **Thread spawner** `sw4rm/colony/spawner/thread_spawner.py` | handles, stop events, executor | spawn, `wait_ready`, terminate, clean up, shutdown | the agent's thread and the caller both write the status | an ended thread is on record as ended; a stopped agent ends |
| **Agent runtime** `sw4rm/runtime/agent.py` | the agent's state, task, preemption flag and the sections that mask it | life-cycle methods with hooks, safe points, `non_preemptible` | sections nest and save the flag; hooks raise in mid-method | a requested preemption is seen; task and reason match the state |
| **Shared context** `sw4rm/shared_context.py` | versioned entries, locks | create, get, update, lock, unlock, delete, clear | readers hold copies or the live object; versions start again | an accepted update is not lost |
| **Rate limiter** `sw4rm/llm/rate_limiter.py` | token bucket, adaptive limit | acquire by polling, report a rate limit or a success | concurrent waiters, the limit changes while they wait | no over-spending, every waiter returns |
| **Workflow engine** `sw4rm/workflow/engine.py`, `builder.py` | the graph, checkpoint of node states | add, connect, build, execute, resume | a node that fails or was running at the checkpoint; four graph algorithms that trust each other | each node runs once, after its dependencies |
| **Handoff client and example's agents** `sw4rm/clients/handoff.py`, `examples/handoff_example.py` | requests and pending lists of a process; each agent's work and load | request, answer, complete, list, clear; evaluate, take up, complete | several agents act on one handoff between two looks; a context does not parse | the client follows the protocol; what an agent works on is its own |
| **Room client and store** `sw4rm/clients/negotiation_room.py`, `negotiation_room_store.py` | stores, which one each client has | submit, vote, decide, wait, reset | check and write are two calls of the store | all who wait hear the same |
| **A2A gateway** `a2a_gateway/adapter.py`, `server.py` | tasks and artifacts, in memory or SQLite | send, cancel, update, add artifact | store, router and scheduler are called one after the other; several gateways on one database | a task set in motion is known |
| **Feature flags, SDK configuration** `sw4rm/feature_flags.py`, `config.py` | the two process-wide objects, overrides | get, set, clear, load, replace | made on first use, without a lock | the list and the look-up agree; a flag set stays set |
| **File stores** `sdks/colony/stores/python/json_file_store.py`, `sw4rm/policy_store.py` | files and temporary files | save, read | a process dies between truncation and rename | what was saved is read, whole |
| **Voting, coordinator** `sw4rm/voting`, `negotiation_coordinator.py`, the debate example's coordinator | the votes cast | four aggregations, consensus and polarization, decide, escalate | zero weights, ties, empty panels, floats that round; two tests of one thing | the parts agree with each other |
| **Tool streaming** `examples/tool_streaming_example.py` | two dictionaries, each call's generator and reader | stream, `cancel` | a call ends while it is cancelled in another thread | an accepted cancel stops its call |

The components that are not modelled are in [the last section](#what-is-not-modelled). The
hazards of this code, each at its line and with the properties that would catch it, are
the `hazards` of `PROJECT.json`.

## Plan

The most important behaviour came first: the router, because everything else is
built on its promise to deliver. Then the code an agent's safety rests on (shutdown,
buffer, acknowledgements, worktree, registry, scheduler), then the coordination services
and the SDK's own stores, then the examples. This modelling is done, apart from what
[is left out](#what-is-not-modelled).

Then the theorems, in the order of how much rests on them: the router and its refinement
of the mailbox, the registry, scheduler and drain, the buffer and the acknowledgement
lifecycle, the gateway and the spawner, the rest of the reference services, the components of
`MCParts`, the worktree binding. These are [proved](#proofs). What is left is
[with TLC](#what-stays-with-tlc). Modules are written for this: no `RECURSIVE` operator where a theorem is meant to be, constants with
named assumptions, one action per operation, actions and tables as sets and functions.

## The modules

`MC*.tla` modules only instantiate: model values and definitions for constants. Three of
them also put components together. Components that share no state would only multiply each
other's states, so `MCServices`, `MCSdk` and `MCParts` are sums: the first state picks one
component, and only that one moves. A property of a sum is the conjunction of the properties
of its members; the others hold their initial state.

| sum | members | |
|---|---|---|
| `MCServices` | `Registry`, `Scheduler`, `Shutdown`, `WorkflowService`, `HandoffService`, `NegotiationRoom`, `CodeReview`, `SeedSessions`, `ClaudeStream` | the reference services and the programs built on them |
| `MCSdk` | `Gateway`, `Spawner`, `RateLimiter`, `ConfigReload` | what must get somewhere: liveness is checked |
| `MCParts` | `ActivityBuffer`, `AgentRuntime`, `SharedContexts`, `WorkflowEngine`, `HandoffAgents` (with `HandoffClient`), `RoomClient`, `A2A`, `CallChain`, `FeatureFlags`, `FileStores`, `Voting`, `ToolStreams`, `GatewayPeers`, `DelegationDepth` | what promises safety only |

Components that do interact are composed for real: the router's threads, its store and its
streams in `Router`; the coordinator with its signal handlers in `Shutdown`; the room with
the pool of its server in `NegotiationRoom`; the lifecycle over the buffer in
`AckLifecycle`; the example's agents over the client in `HandoffAgents`; the registry's
threads over the watcher in `ConfigReload`; gateways and callers in `Gateway`.

### DurableMailbox and Router

`DurableMailbox` is the abstract specification: copies (message, recipient) are
*stored*, *promised* to the sender, *received* by the recipient; a promised copy leaves
the store only after it was received.

`Router` is `RouterServiceImpl`. Its variables fall in four groups: the SQLite tables
(`pending`, `nextSeq`, `dbAgents`, `dlog`), the object's attributes (`queue`, `cap`,
`known`, `memLog`, ...), the threads (`req`, `holder`, `at`, `todo`, `sent`, `cur` for
`SendMessage`; `spc`, `item` for `StreamIncoming`) and history. A step ends wherever
another thread or a crash can see a difference: at a commit of the store and at an
operation on a queue. So `SendMessage` is `Call`, `StartSend`, `LogMessage`, then for
each target `EnqueueRow` (the commit) and `PutNowait` or `QueueFull`, then `Reply`;
`StreamIncoming` is `StartStream`, `OpenStream`, then `Take` (the unlocked `get`),
`Transmit` and `DequeueRow` in a loop. `StoreRaises`, `RecordRaises` and `StreamRaises`
are the exceptions of the store, `AbortYield` the client that vanishes while the
generator is suspended (either leaves its row stored and in no queue, which `dropped` records), `Exit` and `Start` / `RestoreRow` / `RestoreLog` the end of the
process and `_restore_state`.

The pool of worker threads is modelled (`FreeWorker`): a stream occupies one for its
whole life. `LossyTransport` says whether an item gRPC took may still not arrive.

### Shutdown, CallChain, ConfigReload: what the services share

`Shutdown` is `ReferenceServiceShutdownCoordinator` as the services use it. The main thread
is a stack of `stop_server` frames, because Python runs a signal handler on top of whatever
the main thread does, also on top of an earlier `stop_server`; `lock` is `_lock`, which is
not reentrant. Handlers check the drain flag (`Check`), enter (`Track`) and leave
(`Untrack`) `track_request`. Nothing says a handler ends.

`CallChain` is the way of a call through the interceptors on a pool of threads. Context
variables belong to the thread and survive the call, so each thread has its own `traces` and
`correlations`; a handler that streams is a generator and runs after the inner wrappers have
returned. Each agent has a bucket, and the clock (`time.time()`) may be set back.

`ConfigReload` follows a file from the editor who truncates and writes it, over the watcher
that loads it again and again, to the threads of the registry that copy two settings from
the latest configuration into their own, one after the other (`Refreshes`). The `resolve_*`
operators are the places a setting is taken from, in their order.

### Registry, Scheduler, WorkflowService, HandoffService, NegotiationRoom

A handler of these services is one action, because it holds the service's lock throughout;
the exceptions of the store are disjuncts of it, after the writes to memory the code
has already made. The exceptions are in `Registry`, where the clock is read before the lock
is taken: `CallsRegister` reads it and `RegisterAgent` writes what was read, in memory and in
the table, `registering` being the calls between; in the same way the cleanup thread's
`ReadClock` and `Sweep`. `Heartbeat` reads the clock under the lock. `Reload` changes the
time-out. `answered` is history: the last sign of life that was confirmed, or the reading of a
registration that was under way then and may still put the row back to it. In `Scheduler` a
call writes up to two tables, and fails after either; `given` and `forgot` are history, the ids
that clients chose and whether a restart found a task missing. `WorkflowService` keeps the graphs as functions
from nodes to their dependencies; `orderly` is history: the workflows whose nodes were only
run and completed in their turn. In `NegotiationRoom` calls queue for a worker of the pool;
`WaitForDecision` is cut at the release of the lock (`waitsOn` is the event it saw), and
keeps its worker. `Workers = 2` stands for the pool of the server.

### CodeReview, SeedSessions, ClaudeStream

`CodeReview` is one review in `sw4rm_multi_agent.py`: every agent takes the messages of its
inbox one by one; `lost` counts messages and handlers that fail, `again` those delivered
twice. A handler is one step because the others only see the messages it sends, one at a
time.

`SeedSessions` is the thread in the scheduler's `main()`: it sends commands to the frontend
and the backend agent and hears of them in `reported`; `began` is history, what the agents
began and how it ended. `ClaudeStream` is the process it asks for a plan, with a pipe of
`PipeSize` lines, and the loop that reads it.

### ActivityBuffer and AckLifecycle

`ActivityBuffer` is `PersistentActivityBuffer` over a backend. Its methods are functions
from a buffer to a buffer (`Recorded`, `Acked`, `Cleaned`, `Flushed`, `Loaded`), which
both modules use. Alone, the module lets one caller do anything the class allows, messages
that are recorded `Again` under their id included. The
class asks its callers to synchronise, so one call is one step.

`AckLifecycle` is `ACKLifecycleManager` and `MessageProcessor` over that buffer, run by
several threads that lock single buffer calls. `job` is where each thread is: recording
an envelope, waiting for the router, delivering an ack, in the handler. Whatever the
router answers, `RouterAnswers` stamps and saves the record; `Continue` is the next ack
of `process_message`. `Crash` opens the saved log again.

`Backend` and `Unsavable` say what the backend cannot encode. `build_envelope` puts bytes
into `audit_proof`; neither of the two backends of `persistence.py` can save such an
envelope (the finding below). The run that passes therefore uses a backend of the
application's own, as the class allows; the two built-in ones have a run and a
configuration of their own. Any save may fail besides (`MaxFaults`); the buffer swallows the
error, and `swallowed` is history: the messages whose own call it happened in.

### Worktree

`PersistentWorktreeState` with its `threading.Timer`. Nothing is locked, so a method is
the sequence of its reads and writes of shared attributes, and each is a step: `Methods`
maps a method to that sequence, `todo` holds the rest of the method each thread is in,
and `Control`, `SetBinding`, `SaveStep`, `TimerStep` execute one operation. `DuringTimer`
bounds what the application calls while a TTL runs; `raced` is history, that it called a method
which does more than ask (`Calm`), such as `unbind`.

### Gateway, GatewayPeers, DelegationDepth, Spawner, RateLimiter

`Gateway` is several gateways and the loops of those who delegate. A request and its answer
are steps of their own, so either may be lost (`Fails`); `loop` is what `delegate_to_swarm`
keeps in local variables: target, visited gateways, retries, the wall time left. A gateway
answers by its capacity, its cancellations and the deadline; whether it finds a healthy peer
and whether a delegation is too deep is open here. `GatewayPeers` is the `PeerSelector`: the list
of peers, what is heard of them, cooldowns and the cursor. `DelegationDepth` is the depth a
gateway notes for each request, of which some pass their parent on and some do not. `TimePasses` moves the deadline, the wall time of those who wait and the grace of
what was cancelled.

`Spawner` cuts the agent's thread (`threadAt`) at its writes of the status and at its looks at
the stop event; callers write the same `handles` in between. `RateLimiter` polls: one poll of
`acquire`, with its refill and recovery, is one step of the event loop.

### AgentRuntime, SharedContexts, WorkflowEngine, RoomClient, A2A, FeatureFlags, FileStores

* `AgentRuntime`: the table of transitions, one action per life-cycle method, each cut off where
  a hook may raise; `sections` is the stack of flags that nested `non_preemptible` blocks saved.
* `SharedContexts`: data is the set of updates it includes; `seen` is what an agent read, as a
  copy or (`Aliased`) the live object, and `updatedLive` the contexts such an agent has updated.
* `WorkflowEngine`: graphs of up to three nodes are drafted, built and run. The depth-first search
  by which the engine validates, the one of the service, Kahn's order and the plan of levels are the recursive
  functions of the code, of a node and what the search has seen, compared with the definitions of a
  cycle and of an order.
* `RoomClient`: a method of a client is two calls of the store, and waiting is polling;
  `reset_default_store` gives later clients another store.
* `A2A`: `send_message` is the record, the router, the state and the answer as steps of their own,
  in several handlers that may be in several gateways; the update of the state may fail, and the
  scheduler is called all the same. With `Durable` tasks survive a restart.
* `FeatureFlags`: values are kept with the type their source gives them (`as`); the two
  process-wide objects are made in two steps, look and write.
* `FileStores`: a file is missing, half, mixed or whole; opening truncates, closing completes,
  `os.replace` renames, and a process may die before any of them. Several processes share the
  directory; `wrote` is history, who wrote which file.

### HandoffProtocol, HandoffClient, HandoffAgents

`HandoffProtocol` is the abstract specification: a handoff is answered at most once, completed only
after it was accepted, an end is an end. `HandoffClient` is every method of the client's class
over the dictionaries all clients of a process share; it implements the protocol with `Stage` as
refinement mapping (`FollowsProtocol`, checked with the agents on top). `HandoffAgents` extends it
by the example's target agent: look at what is pending, evaluate (capability, room), accept or
reject, restore the context, take up, complete.

### Voting, ToolStreams

`Voting`: votes come one by one, and whatever was cast is aggregated by the four strategies, tested
for consensus and polarization, and decided on by the SDK's coordinator and the debate example's.
The code computes in floats, and so does the model: `Floats` is any set of numbers, counted in
small units of which `Unit` make 1.0, and each sum, product, quotient and root is the number of
that set nearest to the exact result (`Nearest`). The order of the votes matters then, so they are
a sequence. `sum()` adds from the left, as it does up to Python 3.11 (the SDK runs on 3.9 and later);
from 3.12 on it compensates some of the error.

`ToolStreams`: the provider's generator runs only while its reader asks for the next frame;
`cancel()` looks a call up in two dictionaries, in two steps. `late` counts the frames since a call
was cancelled.

## The runs

| run | module / configuration | bounds | what it shows |
|---|---|---|---|
| `router_crash` | `MCRouter` / `Router_crash` | 2 agents, 3 streams (2 compete for one agent), a message from an agent and one from outside, queues of 1 or 2, a restart, a store error, a vanished client | queues, store and hands agree at every interleaving: `MemoryIsDurable`, `OneHandFIFO`, `NoStrandedRow`, `RejectedLeavesNothing` |
| `router_mailbox` | `MCRouter` / `Router_mailbox` | 2 routed messages and an ACK, queues of 2, a restart, a vanished client | the router implements `DurableMailbox` |
| `router_live` | `MCRouter` / `Router_live` | 2 messages, 2 streams, 3 workers, a restart | calls are answered and promises kept, across a drain |
| `router_restart_loss` | `MCRouter` / `Router_restart_loss` | queues of 1, a restart | *violated*: a restart deletes an accepted message |
| `shutdown_two_signals` | `Shutdown` / `Shutdown_two_signals` | 3 requests, 2 signals | *violated*: the second signal blocks the process |
| `ack` | `MCAckLifecycle` / `Ack` | 2 threads, one message in, one out, one ack in, room for 6 of 7 envelopes, a crash, a failed save, a tick | what was sent is saved unless its own save failed: `OnlyASwallowedSaveLoses`; a peer's acks go forward |
| `ack_unsavable` | `MCAckLifecycle` / `Ack_unsavable` | the JSON backend | *violated*: nothing is saved any more |
| `worktree` | `Worktree` / `Worktree` | 2 homes, 1 target, 2 timers, failing hooks and saves, a crash; while a timer runs the agent requests, approves, rejects or unbinds | until it unbinds then, state and bindings agree and timers take the agent back |
| `services` | `MCServices` / `Services` | see below | confirmed answers survive crashes and failing stores, only and all silent agents expire, what is decided is decided once, a review is complete, whoever waits is served |
| `sdk` | `MCSdk` / `Sdk` | see below | both sides know how a delegation or an agent ended, and all that was begun ends |
| `parts` | `MCParts` / `Parts` | see below | the safety of the SDK's other parts; the handoff client implements its protocol |
| `claude_stream` | `ClaudeStream` / `ClaudeStream` | answers of 2 lines, a pipe of 2 | *violated*: an answer in deltas is thrown away |

The members of the sums, their bounds and their properties:

| member | bounds | properties |
|---|---|---|
| `Registry` | 3 agents (1 protected), one of a thread's registrations waiting for the lock, a tick, time-outs 0 and 1, a store error, a crash | `LeftIsGone`, `HeartbeatSurvives`, `ExpiryIsJustified`, `SilentIsRemoved` |
| `Scheduler` | 2 owners, 3 submissions, one name a client chooses (`task-2`), a store error, a crash | `PreemptionHolds`, `PurgeIsFinal`, `AutoIdIsFresh` |
| `Shutdown` | 3 requests, 1 signal | `CountIsExact`, `EarlyNotAborted`, `StopReturns` |
| `WorkflowService` | 1 workflow of up to 3 nodes with any dependencies | `OrderlyRunsEnd` |
| `HandoffService` | 3 handoffs, 2 agents, completion as COMPLETED or EXPIRED | `DecidedOnce` |
| `NegotiationRoom` | 3 callers, one a critic, 2 workers, 2 proposals of one paper | `NoLostWakeUp`, `CallsAreServed` |
| `CodeReview` | 2 analysts, a critic, one message lost and one repeated | `ReviewIsComplete` |
| `SeedSessions` | one session, 2 prompts, one failed send | `SessionInOrder` |
| `ClaudeStream` | answers of 4 lines, a pipe of 2 | `PlanIsResult`, `StreamEnds` |
| `Gateway` | 2 gateways with room for 1, a delegation and its child, budget and deadline of 2 ticks, one retry, one redirect | `DelegationIsKnown`, `DelegationEnds` |
| `Spawner` | 2 agents, one thread | `DeadIsTerminal`, `StoppedEnds` |
| `RateLimiter` | 2 callers that ask for 1 or 4 tokens, rate 2 cut to 1, a minute of 2 ticks | `AcquireReturns` |
| `ConfigReload` | 3 documents (one with slips), the cleaner and one handler | `FileTakesEffect` |
| `ActivityBuffer` | 4 messages, 2 with one token that are recorded again, room for 3, an `_order` of up to 3 entries, window 0, any number of restarts | `CapacityHeld`, `IndexIsSound`, `CleanMeansSaved`, `LookupFindsFresh`, `RoomyDiskNeverForgets` |
| `AgentRuntime` | one task, sections nested twice | `RequestOutlivesSections`, `TaskAndReasonMatch` |
| `SharedContexts` | one context, 3 agents of which one keeps the live object, versions up to 3 | `NoLostUpdate` |
| `WorkflowEngine` | every graph of up to 3 nodes | `GraphsAgree`, `ExecutedInOrder` |
| `HandoffAgents` | 3 handoffs (one with a context that does not parse), 2 agents with room for 1 | `WorkIsAccepted`, `FollowsProtocol` |
| `RoomClient` | 2 clients, 1 paper, 2 verdicts, 2 stores | `HeardTheSame` |
| `A2A` | 2 tasks, 2 handlers, an artifact, any number of restarts | `SetInMotionIsKnown` |
| `CallChain` | 2 threads, 6 requests, a burst of 2, a clock of 2 ticks that may go back | `CallsLeaveNoTrace`, `AdmittedInBound` |
| `FeatureFlags` | 2 threads, 2 flags set in different places, 2 objects | `FlagsHold` |
| `FileStores` | 2 processes, one of which decides, 2 critics, 2 decisions, any number of deaths | `RecordsSurvive` |
| `Voting` | 3 critics, scores 2, 7 and 10, confidences 0, 3/8 and 1, floats of 3 binary digits, 2 policies | `DecisionsAgree` |
| `ToolStreams` | 2 calls, 3 tools and an unknown one, 2 steps | `CancelStopsCalls` |
| `GatewayPeers` | 2 peers in any order or one alone, cooldowns of up to 2 ticks | `PeersAreSpared` |
| `DelegationDepth` | a delegation, its child and grandchild, a limit of 2 | `DepthsAreVerified` |

Why these bounds are enough to be interesting. Router: two messages and queues of one
make a queue fill up, a third stream makes two readers compete while another agent is
served, one crash falls between any two commits, one store error hits any store call.
More crashes are left to the proofs, which hold for any number. Shutdown: three
requests put one before, one in and one after the window between the check and the count.
Buffer: room for three of four messages reaches the bound, the discarded full log and an
overwrite of a token; a tick passes a window of none. Floats of three digits round the sums, means
and products of most panels, and take averages out of their votes. Lifecycle: one message fewer than
fits fills the buffer inside a call. Registry: a tick is longer than one of the timeouts, so a heartbeat can fall between the
cleaner's clock, or a registration's, and its lock, on either side of the limit. Scheduler: three submissions give a generated id after a failed save and a restart, and
`task-2` is the id of the third.
Room: with two workers of three callers the waits can hold the whole pool. Gateway: one place
makes each gateway overloaded or redirect while the other is, and time is up while a call
sleeps, waits for an answer or is answered. Engine and workflow: three nodes have chains,
forks, joins and cycles; one failed node leaves another to run. Agents: room for one of the two
handoffs each can do, and one handoff both can. Chain: a thread serves one call after
another, with and without contexts, while the other works on the same bucket. Tools: two calls put the end of one
between the two look-ups of a cancel.

Bounds that stand for the length of a behaviour (`MaxRestarts`, `MaxFaults`, `MaxTime`,
`MaxOrder`, `MaxSubmits`, `MaxCalls`, `MaxCreated`, `MaxClock`, ...) are guards with those
names. `Parts` uses symmetry for the two attempts with one token, which nothing
distinguishes; `FollowsProtocol` and `RoomyDiskNeverForgets` are safety properties and
treat them alike.

Deadlock is checked except where a system may stop: the lifecycle's application may have
nothing more to send and its bounds may be used up, the second signal's block is itself the
deadlock, and in a sum, as in `ClaudeStream`, a component may have done its work (a stopped server,
a finished review, returned calls).

### Fairness

* `router_live`: worker threads run (weak fairness of the routing loop, of a resumed
  stream, of the restore loop); taking the lock and taking from a queue are strongly fair,
  because other threads may take turns; agents reconnect, and a drained process exits and is
  started again. It has more workers than streams: a stream keeps its worker for as long
  as it is open, and with as many streams as workers `SendMessage` waits for ever.
* `worktree`: threads run and a timer that is not cancelled expires.
* `services`: the registry's cleanup thread runs; the room's pool serves queued calls, and calls
  that wait are woken or time out (every `WaitForDecision` has a time-out); the
  main thread runs inside a signal handler, deadlines pass (the grace periods the services pass
  are positive) and a handler that was admitted gets to count itself; the claude process goes on or exits,
  and its reader reads. That a handler *finishes* is not assumed, nor that a client calls.
* `sdk`: the event loop resumes a coroutine that is due, so each delegation's loop goes on
  (its answer arrives, is given up or the call times out), time passes, the threads of the executor
  run, a waiting `acquire` polls, the watcher loads and the registry's threads apply. No agent
  is stopped and no file is written by fairness.
* `claude_stream`: the process and its reader go on.

## Findings

Four places where the code does something else than the repository says; each has a run
that shows it.

* **A restart deletes accepted messages** (`router_restart_loss`,
  `router_service.py:114`). A full queue plus a row a stream has popped and not yet
  dequeued are more rows than a restarted queue takes; `_restore_state` deletes the rest as
  stale, after their senders were answered `accepted=True`.
  `documentation/protocol/acks.md:134` promises at-least-once delivery.
* **A second signal stops the shutdown for ever** (`shutdown_two_signals`,
  `graceful_shutdown.py:51`). The handler runs on top of the main thread; if that holds
  `_lock` inside `stop_server`, the nested `stop_server` waits for it and the frame below
  never continues.
* **A log that holds an ack cannot be saved** (`ack_unsavable`, `persistence.py:46`). Only
  `payload` is base64-encoded; `audit_proof` is bytes in every envelope from
  `build_envelope`, `json.dump` raises, and the buffer swallows it.
* **An answer in deltas is thrown away** (`claude_stream`, `scheduler_service.py:356`). The docstring
  (line 229) says that the text of the deltas is concatenated and parsed; the wait for the process
  and the `return None` stand inside the loop over its lines, so the first line that is no result
  ends the reading.

## What the code does not provide

Properties one may expect, and what happens instead. TLC refutes each with the module and
configuration named, changed as the third column says, with the property in the place of the
configuration's own (the comment of each says what the code does; a step formula or a formula with `~>` is a
PROPERTY, another an INVARIANT). For a sum, keep the member named in `Init`. Where the
repository states the property, the last column says where.

| property | with | changed | what happens | stated in |
|---|---|---|---|---|
| `NoPromisedLoss` | `MCRouter` / `Router_mailbox` | `LossyTransport = TRUE` | gRPC takes an item and its connection fails: the row is dequeued (`router_service.py:240`) | `documentation/protocol/acks.md:137` |
| `PromiseIsKept` | `MCRouter` / `Router_live` | `MaxAborts = 1`, `MaxRestarts = 0` | a client vanishes while an item is yielded: the row stays in the store but in no queue until a restart (`router_service.py:239`) | `acks.md:134` |
| `NoRowWaits` | `MCRouter` / `Router_crash` | | a client vanishes, or a store call raises, between the commit of a row and its delivery: the row waits for a restart (`router_service.py:239`) | |
| `RecentIsNewest` | `MCRouter` / `Router_crash` | | the restored log is newest first, new messages are appended: the tail is not the latest (`router_service.py:119`) | docstring, `router_service.py:271` |
| `AbortOnlyAfterTimeout` | `Services`, shutdown | | a request between the drain check and `track_request` is not waited for (`graceful_shutdown.py:42`) | docstring, `graceful_shutdown.py:101` |
| `SignsOnlyAdvance` | `Services`, registry | | a registration waits for the lock with the time it has read; a heartbeat is confirmed first and then put back to that time, in memory and in the row (`registry_service.py:117`) | |
| `NoGhost` | `Services`, registry | | a row that could not be deleted brings a removed agent back at the next start (`registry_service.py:235`) | |
| `AutoIdIsAlwaysFresh` | `Services`, scheduler | | after a failed save and a restart, or when a client chose that name, `task-{len(tasks)}` is taken (`scheduler_service.py:516`) | `documentation/clients/scheduler.md:95` |
| `CompletedInOrder` | `Services`, workflow | | any node can be resumed, also a PENDING one: it completes (`workflow_service.py:380`) | |
| `FinalHandoffStays` | `Services`, handoff | | CompleteHandoff writes over any status (`handoff_service.py:334`) | |
| `FindingsOnce` | `Services`, review | | a message delivered again is handled again | |
| `DoneMeansDone` | `Services`, sessions | | what was known of a first answer counts for the second | |
| `StreamAlwaysEnds` | `Services`, claude | | the process fills the pipe while its end is waited for (`scheduler_service.py:356`) | |
| `DiskNeverForgets` | `Parts`, buffer | | a start on a log of `max_items` records discards it, and the next save overwrites it (`activity_buffer.py:254`) | `documentation/protocol/activity-buffer.md:12` |
| `EveryLookupFindsFresh` | `Parts`, buffer | `MaxOrder = 4`, `MaxTime = 2`, `DedupWindow = 1` | a message recorded again keeps its old place in the rebuilt index, so after a restart an expired attempt hides a fresh one (`activity_buffer.py:251`) | docstring, `activity_buffer.py:412` |
| `CleanMeansSaved` | `MCAckLifecycle` / `Ack` | | a thread stamps a record through the object, which does not set `_dirty`, while another saves (`ack_integration.py:67`) | comment, `activity_buffer.py:232` |
| `SentIsRecorded` | `MCAckLifecycle` / `Ack` | | the record is saved only after the router answered (`ack_integration.py:53`) | `acks.md:149` |
| `StageIsFinal` | `MCAckLifecycle` / `Ack` | `AckStages = {"received", "rejected"}` | a late ack overwrites a terminal stage (`activity_buffer.py:350`) | `acks.md:245` |
| `PendingMeansUnanswered` | `MCAckLifecycle` / `Ack` | | an incoming message never leaves the pending list by the acks this agent sends (`ack_integration.py:138`) | docstring, `ack_integration.py:139` |
| `HandledOnce` | `MCAckLifecycle` / `Ack` | `Incoming = {i1, i2}`, no `Outgoing` and `IncomingAcks`, `OwnAcks = Sent = {a1, ..., a7}`, `MaxItems = 20`, `MaxTime = MaxCrashes = 0` | the processor never looks up the token: a repeated operation is executed again (`ack_integration.py:222`) | `acks.md:154` |
| `ReturnedIsDurable` | `MCAckLifecycle` / `Ack` | `Backend = "sqlite"`, `Unsavable = {a1, ..., a4}` | bytes in an envelope, or an id twice in `_order`, roll the whole save back (`persistence.py:200`) | docstring, `activity_buffer.py:375` |
| `FullIsTransient` | `MCAckLifecycle` / `Ack` | `SPECIFICATION LifecycleFairSpec` | nothing removes records: a full buffer stays full (`activity_buffer.py:281`) | `activity-buffer.md:269`, `acks.md:174` |
| `UnbindHolds` | `Worktree` / `Worktree` | | a timer that already runs rebinds an agent that unbinds | class docstring: any state to UNBOUND via unbind |
| `StateAlwaysMatches` | `Worktree` / `Worktree` | | an `unbind` called while the timer runs interleaves with the revert | the state machine of the class docstring |
| `EveryTtlReverts` | `Worktree` / `Worktree` | `DuringTimer = {"request", "approve", "bind"}` | a `bind` called while the timer runs interleaves with the revert, and the agent stays at the target | |
| `DiskMatchesBinding` | `Worktree` / `Worktree` | | two saves share one temporary file, and the older value may be written last | `save_binding` |
| `BoundHasState` | `Worktree` / `Worktree` | | a restarted agent is bound, to the target too, and says UNBOUND | the state machine of the class docstring |
| `TerminalStays` | `Sdk`, spawner | | the agent's thread writes STARTING, READY and TERMINATING over a terminal status (`thread_spawner.py:227`) | |
| `ServedInTurn` | `Sdk`, rate | | there is no queue: who asks for less is served again and again (`rate_limiter.py:118`) | |
| `SettingsOfOneConfig` | `Sdk`, config | | two threads apply two configurations, one setting after the other | |
| `DialsTheRegistry` | `Sdk`, config | | the registry listens on the port the file had when it started | |
| `KeepsLastGood` | `Sdk`, config | | a load that meets a file half written finds the defaults | |
| `MaskedInside` | `Parts`, runtime | | a request that arrives inside a critical section sets the flag again (`agent.py:597`) | |
| `NoLostUpdateEver` | `Parts`, context | `Aliased = {}`, `ContextAgents = {a1, a2}`, `MaxCreated = 2` | a context created again starts at version 1 again | |
| `NoLostLiveUpdate` | `Parts`, context | | `get` returns the live object: its version is always the expected one (`shared_context.py:217`) | |
| `ResumeCompletes` | `Parts`, engine | | a node that failed in an earlier call is passed over with all that depend on it | |
| `HeardTheSameEverywhere` | `Parts`, roomClient | | clients made before and after `reset_default_store` have different stores | |
| `AcceptedIsWorkedOn` | `Parts`, offer | | a context that does not parse raises after the client has accepted | |
| `LoadIsReleased` | `Parts`, offer | | another agent completed it: `complete_handoff` raises and the load stays | |
| `EndedTaskStays` | `Parts`, a2a | | CancelTask writes over any state | |
| `ArtifactsKept` | `Parts`, a2a | `Artifacts2 = {d1, d2}` | two gateways write back what each read (`adapter.py:480`) | |
| `StreamsAreTraced` | `Parts`, chain | | the contexts of a streaming call are left before its handler runs | |
| `FlagsFollowConfig` | `Parts`, flags | | the shared flags keep the configuration there was when they were made | |
| `EveryOverrideHolds` | `Parts`, flags | | two threads that find no shared flags make one each (`feature_flags.py:280`) | |
| `SetConfigHolds` | `Parts`, flags | | a thread that found no configuration loads one after another was set | |
| `TextMeansTheSame` | `Parts`, flags | a flag with the text "2" in `SomeEnvFlags` | the environment's parser makes it a number, which is on; the configuration's text is off | |
| `VersionsSurvive` | `Parts`, files | `Versions = {1, 2}` | policy files are written in place: a death after the truncation loses all versions | |
| `SharedRecordsSurvive` | `Parts`, files | `Duties <- BothVote` | the lock is the process's: two processes rename one temporary file (`json_file_store.py:196`) | docstring, `json_file_store.py:49` |
| `AveragesLieBetween` | `Parts`, voting | | rounding takes an average out of its votes: 7.0 three times, with confidences 0.1, 0.2 and 0.3, is 6.999999999999999, below a threshold of 0.7 that each of them meets (`strategies.py:125`, `negotiation_types.py:380`) | |
| `BordaSeesScores` | `Parts`, voting | | the sum of all ranks does not depend on the votes | |
| `EnoughVotes` | `Parts`, voting | | the debate's coordinator prints a warning and goes on | comment, `negotiation_debate_example.py:206` |
| `EscalatedIsNotApproved` | `Parts`, voting | | the policy looks at spread and mean, the test of escalation also at confidence | |
| `FramesInOrder` | `Parts`, tools | | the last frame of a cancelled search is numbered by steps, the ones before by frames | docstring, `tool_streaming_example.py:50` |
| `CancelledHasNoResult` | `Parts`, tools | | what the cancelled call had found is returned as its result | docstring, `tool_streaming_example.py:436` |
| `OverloadIsRemembered` | `Parts`, peers | | `set_peers` forgets what it knew of a peer that was off the list, its cooldown too (`gateway.py:70`) | |
| `NotTwiceInARow` | `Parts`, peers | | the cursor counts selections, not peers: when the list changes it may come back to the same one | |
| `EveryDepthIsVerified` | `Parts`, depth | | a request whose parent is not passed on, or comes later, is as deep as its budget claims (`gateway.py:338`) | |
| `CancelAnswers` | `Parts`, tools | | the call ends between the two look-ups of `cancel` (`tool_streaming_example.py:157`) | |
| `EndedIsNotCancelled` | `Parts`, tools | | a call is known until its generator is closed, which no reader does | |

## Proofs

Theorems are proved with TLAPS for every value of the constants that satisfies the named
assumptions (`RouterAssumption`, `RegistryAssumption`, ...): any agents, messages, threads,
sizes, restarts and failures. TLC evaluates these assumptions in every run. Where a theorem needs
more than that, the hypothesis stands in its statement and is explained below.

| module | theorem | of | statement |
|---|---|---|---|
| `RouterProofs` | `TypeCorrect` | `Router` | `TypeOK`: the lock is held exactly inside the routing loop, and a row is in a thread's hands exactly where the code has one |
| | `Durability` | | `MemoryIsDurable`: what is in memory is in the store |
| | `OrderedDelivery` | | `OneHandFIFO`: rows are popped in order, and none is in two hands |
| | `NothingStranded` | | `NoStrandedRow`: of the stored rows only those wait for a restart in whose handling a store error or a vanished client fell |
| | `CopiesAreRouted`, `RejectionIsClean` | | the loop stores exactly the copies of its message; a rejected one left none |
| | `RouterIsAMailbox` | | the router implements `DurableMailbox`, if `Roomy` |
| | `NothingPromisedLost` | | `NoPromisedLoss`, if `Roomy` |
| `BufferProofs` | `BufferHolds`, `LogIsKept` | `ActivityBuffer` | capacity, index and dirty flag; the action property `RoomyDiskNeverForgets` |
| | `FreshAttemptsAreFound` | | `BufferIsSound`, look-ups included, but under a token whose attempt was recorded again |
| `AckProofs` | `CallsAreSound`, `AcksInOrder`, `SentIsSaved` | `AckLifecycle` | `LifecycleTypeOK` and `CleanMeansRecorded`; `AcksGoForward`; `OnlyASwallowedSaveLoses`, for any backend and any failing saves |
| `SdkProofs` | `EndsAreTold` | `MCSdk` | `EndsAreKnown`, if `MaxCalls = 1` |
| | `SdkTypes` | | `SdkTypeOK`, if `FiniteTimes` |
| `ServicesProofs` | `ServicesKeepTheirWord` | `MCServices` | `RegistryIsDurable`, `SchedulerIsDurable` and `DrainIsSound` of the services together |
| | `Drains` | `Shutdown` | `ShutdownTypeOK` and `DrainIsSound`, of the requests inside `track_request` |
| | `RegistryDurability`, `ExpiryJustified` | `Registry` | `RegistryIsDurable`; the action property `ExpiryIsJustified` |
| | `SchedulerDurability`, `AutoIdsAreFresh` | `Scheduler` | `SchedulerIsDurable`; `AutoIdIsFresh`: a generated id that is taken is one a client chose or a forgotten task freed |
| | `WorkflowsEnd` | `MCServices` | `OrderlyRunsEnd`, for every acyclic graph |
| | `ReviewsAreComplete`, `SessionsStaySound` | | `ReviewIsComplete`; `SessionsAreSound` |
| | `AnswersAreFinal` | | `ServicesTypeOK` and `RoomDecides`, if `CompletesOnly` |
| `PartsProofs` | `PartsTypes` | `MCParts` | `PartsTypeOK`: the type invariants of all fourteen parts |
| | `AgentIsKept` | | `AgentKept` |
| | `SharedStoresAreKept` | | `SharedStoresAgree`: of the contexts only copying agents have updated, and the files one process has written |
| | `WorkStaysKnown` | | `WorkIsKnown`, if `OwnCallIds` |
| | `AdmissionStaysSound` | | `AdmissionIsSound` |
| | `FlagsStayHeld` | | `FlagsHold` |
| | `DecisionsStayConsistent` | | `DecisionsAgree`, for any set of floats |
| | `EngineKeepsOrder` | | `EngineRuns`, by the lemmas of `EngineProofs` on the searches, the order and the plan |
| | `HandoffsFollowProtocol` | | `FollowsProtocol`: the handoff client, as its agents use it, implements `HandoffProtocol` |
| `WorktreeProofs` | `WorktreeTypes`, `StateMatches` | `Worktree` | `TypeOK`; `StateMatchesBinding`, until a method that does more than ask races with a timer |

### The hypotheses

* `Roomy` (mailbox): gRPC delivers what it took, and a queue has room for one copy of each
  message that is not an acknowledgement. Without it the theorem is false: that is the finding
  `router_restart_loss`, and `LossyTransport` in the table above.
* `MaxCalls = 1` (delegations): a `request_id` is used for one call. The gateway's table of active
  delegations is keyed by it alone: the answer of the first call ends the entry of the second.
* `FiniteTimes` (types of the SDK): nobody configures JSON's `Infinity` as a time; `float()` lets
  it through.
* `CompletesOnly` (handoffs): who calls `CompleteHandoff` says COMPLETED or EXPIRED. The service writes
  whatever status it is sent, which is `FinalHandoffStays` above.
* `OwnCallIds` (tools): each call has an id of its own. Both dictionaries of the provider are keyed
  by it, so that two calls with one id share an event, and the end of either drops it.

Other limits are part of what a theorem says, case by case, and not a hypothesis about all
behaviours. Where the code breaks a promise, the property names the event that breaks it, as
narrowly as the code allows, and holds of everything else in the same behaviour:

* a row that a store error or a vanished client cut off (`dropped`, `NoStrandedRow`); that no row
  waits is `NoRowWaits` above;
* a confirmed sign of life that a registration under way puts back, no further than to the time it
  had read (`answered`, `RegistryIsDurable`); that none is put back is `SignsOnlyAdvance`;
* a generated id that a client chose, or that a forgotten task freed (`given`, `forgot`,
  `AutoIdIsFresh`); that it is always new is `AutoIdIsAlwaysFresh`;
* a token of which an attempt was recorded again, and only that token (`Rerecorded`,
  `LookupFindsFresh`); that every look-up finds a fresh one is `EveryLookupFindsFresh`;
* a message whose own save failed and was swallowed (`swallowed`, `OnlyASwallowedSaveLoses`): nothing
  else loses it. Without the exception it is `ReturnedIsDurable`, which `ack_unsavable` refutes with
  the built-in backends;
* a context that was updated through the live object (`updatedLive`, `NoLostUpdate`), and a file that
  several processes wrote (`wrote`, `RecordsSurvive`): `NoLostLiveUpdate`, `SharedRecordsSurvive`;
* the time after a method that does more than ask was called while a timer was live (`raced`,
  `StateMatchesBinding`, `TtlReverts`): `StateAlwaysMatches`, `EveryTtlReverts`. Requests,
  approvals and rejections may race with the timer at every step;
* a request between its check of the drain flag and `track_request` (`early`, `DrainIsSound`), which
  a drain does not count and may cancel: `AbortOnlyAfterTimeout`.

Assumptions on constants that proofs made explicit: sets of threads and messages are
finite; scores lie between 0 and 10, confidences between 0 and 1, and they, thresholds and tolerances
are among the floats; `NoHandoff`, `NoCall`, `NoSession`, `NotStarted`, `NoTask`, `NoFlags`, `NoContext`, `NoOffer`, `NotNoted`, `Unknown` are none of the
values they stand beside; a list of peers names each peer once, and the cursor's bound is a
multiple of its length; a room has an artifact to
propose; a review has two analysts, because the example starts two and its
coordinator counts to three votes, theirs and the critic's; texts that flags are set to, by
the application, a file or a configuration, are among those the model tells apart (`Texts`), and
a file's number of retries is a number.

### The inductive invariants

Hardly a property is inductive as it stands.

* **Router** (`IInv`). `MemoryIsDurable` says a queued row is stored, but a stream's
  `DequeueRow` deletes a row: to show that it deletes none that is queued, one needs that
  sequence numbers name rows (`RowsInv`), that what streams hold was popped before what is
  queued (`HeldInv`, through `lastTaken`), and that a row between its commit and its `put_nowait` is
  younger than the queue it will join (`CurInv`). A restart fills queues from the store, so
  the part not yet restored must be stored and younger than what was (`RestoreInv`), and handlers
  must not run then (`PhaseInv`). `CoreWriters`, `DurableWriters`, ... say which actions write what, so
  that a step of the proof looks at the few that matter.
* **Delivery**. `LoopInv` says which targets the loop has counted; `CopyInv` that each copy has one row.
  `MailInv` adds that what was counted or promised is stored or received. The
  simulation takes `Next` action by action: `EnqueueRow` is `Store`, `Transmit` is
  `HandOver`, `QueueFull` and `DequeueRow` are `Discard`, `Reply` is `Promise`, the others stutter; that a
  restart discards nothing is counted: the copies stored for one agent are an injective image of
  messages.
* **Shutdown** (`ShutdownInv`): the counter is the number of requests inside `track_request`; at most
  one frame of `stop_server` is inside the lock, and one that stops the server has waited or
  timed out (`FramesAgree`); nothing is cancelled before a drain begins (`DrainBegins`).
* **Registry** (`RegistryInv`): its two parts are inductive with the type, because the sweep
  looks at its own reading of the clock, which is never in the future; what is `answered` is no
  newer than any registration's reading that is still to be written, or than the row.
* **Scheduler** (`SchedulerInv`, `KnownAreFew`): a preemption is also in the table
  (`PreemptionIsSaved`), and entries of activity are new (`EntriesAreNew`); a generated id is the number of
  tasks, so the tasks are counted, and while no restart forgot one each generated id that is taken is below
  their number (`GeneratedAreLow`).
* **Buffer** (`BufferInv`, `DatesInv`): order, index and entries agree, in memory and on
  disk; dates follow the order, and the freshest attempt with a token is the one the index names, both for
  tokens none of whose attempts was recorded again.
* **Lifecycle** (`LifeInv`, `AckOrder`): what each thread's call may still do (`JobsInv`), no two
  threads process one message (`OneEach`), there is an envelope for each ack still to be sent
  (`EnoughAcks`, by counting threads), a message in flight is recorded (`InFlight`), and a
  peer's acks precede the one its thread sends next (`Forward`).
* **SDK** (`SdkInv`, `ConfigTypes`): `Holders` says where a delegation can be active: at the gateway whose
  answer its caller waits for, or was told of, and nowhere else. It is lost with the second call.
* **Services** (`ServicesInv`): each component's invariant. Those that say most: `StreamInv` says that what was
  read and what is in the pipe is the answer so far; `WorkflowInv` that no defined graph has a
  cycle, from which a node whose dependencies are complete exists until all are; `RoomInv` counts
  waiting calls and proposals under way; `SessionInv` describes, of a session nobody disturbed, what is on its
  way between scheduler and agents (`SessionGood`); `ReviewInv` that, if nothing was lost, each task that is not
  done has a message under way that will get it done (`ReviewChain`).
* **Parts**, each with its own, of which a theorem takes those it needs, and `PartsTypes` all of them. It has
  no hypothesis, so it needs more where the others have one: what agents that share live contexts keep
  (`ContextTypes`), many writers of a file (`FileTypes`: a path or a temporary file holds only what is
  written there, whoever writes) and calls with one id (`ToolTypes`: the frames of a call
  that came after its cancellation are no more than all it has sent). Traces (`ContextsTyped`), listed peers (`PeersKnown`) and the nodes a run of a
  workflow is about (`EngineTypes`) take a small invariant each. Handoffs (`OfferInv`,
  `AgentsInv`): the list kept for an agent enumerates its pending handoffs, and the load is the number
  of those it took up. Contexts (`ContextInv`): what an agent has seen is no newer than the context, and
  the same if it has its version. Rooms (`RoomInv`): a client has one store, and heard what that
  one says. Files (`FilesInv`): a file is as far as the method that writes it. A2A (`TasksInv`): past
  each step of `send_message` the task is on record. Flags (`FlagsInv`): while something is promised,
  no thread is making the shared flags. Tools (`ToolsInv`): a stream that goes on after the cancellation of
  its call does so for the frame under way. Rates (`RatesInv`): what was admitted since any moment and what is in the
  bucket are within the burst and the refill since. Peers (`PeersInv`): the last turns went once round
  the list at most, and the cursor is where they came to. Depths (`DepthInv`): a delegation in turn has a
  parent in turn. Votes (`PanelInv`): the votes cast are votes. The rest is about rounding and holds of every set of floats:
  the nearest float exists, and a larger number has no smaller one (`NearestMonotone`, `RootIs`), so that
  no operation turns an order round and sums of larger terms are not smaller (`SumsCompare`, along the
  sequence). That is enough for a better vote never to harm, and for two computations of one spread to agree.
* **Engine** (`EngineProofs`, `EngineInv`): a graph that was built has no cycle (`GraphInv`); a node that was
  executed is no longer pending, and what it depends on is completed and stays so (`OnceInv`); of
  the order, the first nodes are completed and the others still to do (`OrderInv`). The rest is about the
  algorithms, and holds of every finite graph. They are recursive functions, defined by a `CHOOSE`, of which one
  must first show that they exist: `RecursionExists` shows it where each value depends on those of
  lower rank, a search's rank being the number of nodes it has not visited. What they compute
  follows by induction on the rank (`RankInduction`, from the least number of a set). `CycleIsOne`: a search
  keeps the nodes it is through with closed and without a cycle, each node of its path is visited
  for the one before it, so that a node met again closes a cycle. `ServiceFindsOne`: the same of
  the stack, and a node still on it leads to one on it. `OrderIsRight`: what the queue never gets to is a
  cycle. `PlanIsRight`: a level holds what could be done after the levels before it.
* **Worktree** (`WorkInv`): what is left of a method is a part of it (`TodoInv`: neighbours are in
  `Follows`, and a revert still touches `_state` in its third step from the end), and a thread has
  what its next step relies on (`Pre`, `Ready`). The key is who may change the state (`CtlInv`): at
  most one timer is live, the agent is away then and its own thread can only be refused; otherwise no
  other thread than the agent's matters. For that a timer must not be armed too early: `AwayInv` says
  that an approval that will start a timer still has its switch before it, or made it. All this holds
  until a method races with a timer (`SafeInv`). The types do not end there: they need only that an approval
  finds a timer to make and a request has its target (`ValuesInv`), whatever is called when.

### What stays with TLC

* Liveness (`CallIsAnswered`, `PromiseIsKept`, `TtlReverts`, `ServicesProgress`, `SdkProgress`):
  needs `ENABLED`.

Every other property of a passing run is a theorem.

## What is not modelled

Components without a module:

* The gRPC clients (`sw4rm/clients/router.py`, `registry.py`, `scheduler.py`,
  `workflow.py`, ...): one RPC each and a conversion of its arguments. The modules of the services
  model the calls they make.
* Language model clients (`sw4rm/llm`, apart from the rate limiter): remote calls.
* Secrets and audit: look-ups in an order, and records that are only appended.
* Metrics and health of the SDK and the services: counters and a status nothing waits for.
* SDKs in other languages, generated stubs, protocol files: the Python implementation is
  the one modelled.

What is left out of components that are modelled in part:

* A2A gateway: the translation of messages and cards, and the HTTP and JSON-RPC surface.
* Interceptors: signature and expiry of a token, the text of metrics and logs, the recording of spans,
  decorators no service uses.
* SDK configuration: of its fields one number and the flags are kept.
* File stores: listing, sanitized names (two ids may share a file), a policy's history in memory.

And everywhere:

* Contents: envelopes are model values, an agent's descriptor, payloads, reasons and
  texts are left out; where an encoding matters (bytes that a backend cannot save, a flag's
  text, a setting that is no number) the model has a set of such values.
* gRPC itself is external: a call waits for a worker, a generator is resumed after gRPC
  took its item, and `stop(grace)` cancels what runs when the period ends.
* Answers of a language model and what a tool or an agent computes are open.
* Floating-point numbers: the bucket's tokens are on a small scale of whole numbers, so a rounding
  error of theirs is not seen. Votes are computed in floats that round to nearest; their number of
  digits is open in the theorem and 3 in the run, the tests that compare a count with a fraction of the
  panel (`len(votes) * 0.3`) are exact, and the compensated `sum()` of Python 3.12 is not modelled.
