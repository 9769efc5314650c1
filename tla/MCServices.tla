------------------------------ MODULE MCServices ------------------------------
(***************************************************************************)
(* Small instances of the reference services and of the coordinator with   *)
(* which they shut down, one of them at a time: each behaviour picks one   *)
(* and runs it.                                                            *)
(***************************************************************************)
EXTENDS Registry, Scheduler, Shutdown, WorkflowService, HandoffService, NegotiationRoom,
        CodeReview, SeedSessions, ClaudeStream

VARIABLE service

services == <<registryVars, schedulerVars, shutdownVars, workflowVars, handoffVars, roomVars,
              reviewVars, sessionVars, streamVars, service>>

Init ==
  /\ RegistryInit /\ SchedulerInit /\ ShutdownInit /\ WorkflowInit /\ HandoffInit /\ RoomInit
  /\ ReviewInit /\ SessionInit /\ StreamInit
  /\ service \in {"registry", "scheduler", "shutdown", "workflow", "handoff", "room", "review",
                  "sessions", "claude"}
  /\ service # "registry" => timeout = CHOOSE t \in Timeouts : TRUE

\* The others stay as they are.
Runs(s) ==
  /\ service = s /\ UNCHANGED service
  /\ s # "registry" => UNCHANGED registryVars
  /\ s # "scheduler" => UNCHANGED schedulerVars
  /\ s # "shutdown" => UNCHANGED shutdownVars
  /\ s # "workflow" => UNCHANGED workflowVars
  /\ s # "handoff" => UNCHANGED handoffVars
  /\ s # "room" => UNCHANGED roomVars
  /\ s # "review" => UNCHANGED reviewVars
  /\ s # "sessions" => UNCHANGED sessionVars
  /\ s # "claude" => UNCHANGED streamVars

InRegistry(A) == service = "registry" /\ A /\ Runs("registry")
InShutdown(A) == service = "shutdown" /\ A /\ Runs("shutdown")
InRoom(A) == service = "room" /\ A /\ Runs("room")
InClaude(A) == service = "claude" /\ A /\ Runs("claude")

Next ==
  \/ InRegistry(RegistryNext) \/ InShutdown(ShutdownNext) \/ InRoom(RoomNext) \/ InClaude(StreamNext)
  \/ service = "scheduler" /\ SchedulerNext /\ Runs("scheduler")
  \/ service = "workflow" /\ WorkflowNext /\ Runs("workflow")
  \/ service = "handoff" /\ HandoffNext /\ Runs("handoff")
  \/ service = "review" /\ ReviewNext /\ Runs("review")
  \/ service = "sessions" /\ SessionNext /\ Runs("sessions")

\* The threads of the services run: the registry's cleaner, the room's workers, and the waits
\* that are woken or time out; the main thread in a signal handler, the entry of a handler and
\* the deadlines; the claude process and its reader. That a handler ends is not assumed.
ServicesSpec ==
  /\ Init /\ [][Next]_services
  /\ WF_services(InRegistry(ReadClock)) /\ WF_services(InRegistry(Sweep))
  /\ WF_services(InRoom(Serve))
  /\ \A c \in Callers : /\ WF_services(InRoom(Wakes(c))) /\ WF_services(InRoom(ReadsDecision(c)))
                        /\ WF_services(InRoom(TimesOut(c)))
  /\ WF_services(InShutdown(Stop)) /\ \A d \in 1..MaxSignals : WF_services(InShutdown(Expire(d)))
  /\ \A r \in Requests : WF_services(InShutdown(Track(r)))
  /\ WF_services(InClaude(ProcessActs)) /\ WF_services(InClaude(StreamReads))
-------------------------------------------------------------------------------
(* Properties, each of one service or of services alike *)

\* The type invariants of the services.
ServicesTypeOK ==
  /\ RegistryTypeOK /\ SchedulerTypeOK /\ ShutdownTypeOK /\ WorkflowTypeOK /\ HandoffTypeOK
  /\ RoomTypeOK /\ ReviewTypeOK /\ SessionTypeOK /\ StreamTypeOK

\* A handoff is answered once, and no call of the room waits for a decision that is there.
RoomDecides == DecidedOnce /\ NoLostWakeUp

\* A session goes through its prompts in order, and a plan is the result the command gave.
SessionsAreSound == SessionInOrder /\ PlanIsResult

\* Whatever a service owes happens: silent members are removed, calls are answered, a signal
\* stops the server, and a plan is read or given up.
ServicesProgress == SilentIsRemoved /\ CallsAreServed /\ StopReturns /\ StreamEnds
===============================================================================
