----------------------------- MODULE AgentRuntime -----------------------------
(***************************************************************************)
(* Agent (runtime/agent.py): the agent's state machine, its task, and      *)
(* cooperative preemption. The agent's own thread calls the life-cycle     *)
(* methods and enters critical sections, which nest; a control message may *)
(* arrive at any moment. Every hook is the application's and may raise: it *)
(* then cuts the method off where it is called.                            *)
(***************************************************************************)
EXTENDS Naturals, Sequences

CONSTANTS
  AgentTasks,
  MaxSections,   \* bound on the nesting of critical sections
  NoTaskId

ASSUME RuntimeAssumption == NoTaskId \notin AgentTasks /\ MaxSections \in Nat

AgentState == {"INITIALIZING", "RUNNABLE", "SCHEDULED", "RUNNING", "WAITING",
               "WAITING_RESOURCES", "SUSPENDED", "RESUMED", "COMPLETED", "FAILED",
               "SHUTTING_DOWN", "RECOVERING"}

ValidTransitions ==
  [s \in AgentState |->
     CASE s = "INITIALIZING" -> {"RUNNABLE"}
       [] s = "RUNNABLE" -> {"SCHEDULED"}
       [] s = "SCHEDULED" -> {"RUNNING"}
       [] s = "RUNNING" -> {"WAITING", "WAITING_RESOURCES", "SUSPENDED", "COMPLETED",
                            "FAILED", "SHUTTING_DOWN"}
       [] s \in {"WAITING", "WAITING_RESOURCES"} -> {"RUNNING"}
       [] s = "SUSPENDED" -> {"RESUMED"}
       [] s = "RESUMED" -> {"RUNNING"}
       [] s = "COMPLETED" -> {}
       [] s = "FAILED" -> {"RECOVERING"}
       [] s = "RECOVERING" -> {"RUNNABLE", "FAILED"}
       [] s = "SHUTTING_DOWN" -> {"FAILED"}]

VARIABLES
  state, currentTask, failureReason,
  requested,   \* _preemption.requested
  sections,    \* the flags that the open critical sections have saved, outermost first
  asked,       \* history: a request arrived while no section was open
  legal        \* history: every call so far was allowed in the state it met, no hook raised

runtimeVars == <<state, currentTask, failureReason, requested, sections, asked, legal>>

RuntimeInit ==
  /\ state = "INITIALIZING" /\ currentTask = NoTaskId /\ failureReason = "none"
  /\ requested = "no" /\ sections = <<>> /\ asked = "no" /\ legal = "yes"

Preemption == <<requested, sections, asked>>
-------------------------------------------------------------------------------
(* Life-cycle methods. Each sets `task` and `reason` before the transition, goes to     *)
(* `to`, and sets `after` to the task once the hooks have returned.                     *)

Method(to, task, reason, after) ==
  /\ \/ /\ to \in ValidTransitions[state]
        /\ state' = to /\ currentTask' = after /\ failureReason' = reason /\ UNCHANGED legal
     \/ /\ to \in ValidTransitions[state]             \* on_state_change raises
        /\ state' = to /\ currentTask' = task /\ failureReason' = reason /\ legal' = "no"
     \/ /\ to \notin ValidTransitions[state]          \* StateTransitionError
        /\ currentTask' = task /\ failureReason' = reason /\ legal' = "no" /\ UNCHANGED state
  /\ UNCHANGED Preemption

start == Method("RUNNABLE", currentTask, failureReason, currentTask)
schedule(t) == Method("SCHEDULED", t, failureReason, t)
run == Method("RUNNING", currentTask, failureReason, currentTask)
wait == Method("WAITING", currentTask, failureReason, currentTask)
wait_resources == Method("WAITING_RESOURCES", currentTask, failureReason, currentTask)
suspend == Method("SUSPENDED", currentTask, failureReason, currentTask)
resume == Method("RESUMED", currentTask, failureReason, currentTask)
complete == Method("COMPLETED", currentTask, failureReason, NoTaskId)
fail == Method("FAILED", currentTask, "some", currentTask)
shutDown == Method("SHUTTING_DOWN", currentTask, failureReason, currentTask)
recover == Method("RECOVERING", currentTask, failureReason, currentTask)
complete_recovery == Method("RUNNABLE", currentTask, "none", currentTask)
fail_recovery == Method("FAILED", currentTask, "some", currentTask)

Lifecycle ==
  \/ start \/ run \/ wait \/ wait_resources \/ suspend \/ resume \/ complete \/ fail
  \/ shutDown \/ recover \/ complete_recovery \/ fail_recovery
  \/ \E t \in AgentTasks : schedule(t)
-------------------------------------------------------------------------------
(* Preemption *)

\* A PREEMPT_REQUEST in a control message; nothing takes the flag back.
on_control ==
  /\ requested' = "yes"
  /\ asked' = IF sections = <<>> THEN "yes" ELSE asked
  /\ UNCHANGED <<state, currentTask, failureReason, sections, legal>>

enter_non_preemptible ==
  /\ Len(sections) < MaxSections
  /\ sections' = Append(sections, requested) /\ requested' = "no"
  /\ UNCHANGED <<state, currentTask, failureReason, asked, legal>>
\* Also when the section raises. (Mutant: the flag stays masked.)
FlagOnExit == requested
SavedFlag == sections[Len(sections)]
leave_non_preemptible ==
  /\ sections # <<>>
  /\ requested' = SavedFlag /\ sections' = SubSeq(sections, 1, Len(sections) - 1)
  /\ UNCHANGED <<state, currentTask, failureReason, asked, legal>>

safe_point == requested = "yes"

RuntimeNext == Lifecycle \/ on_control \/ enter_non_preemptible \/ leave_non_preemptible
-------------------------------------------------------------------------------
(* Properties *)

RuntimeTypeOK ==
  /\ state \in AgentState /\ currentTask \in AgentTasks \cup {NoTaskId}
  /\ failureReason \in {"none", "some"} /\ requested \in {"yes", "no"}
  /\ sections \in Seq({"yes", "no"}) /\ asked \in {"yes", "no"} /\ legal \in {"yes", "no"}

\* A preemption requested while no critical section was open is seen at every safe point
\* outside them, however many sections were entered, nested and left since.
RequestOutlivesSections ==
  asked = "yes" => IF sections = <<>> THEN safe_point ELSE sections[1] = "yes"

\* As long as the application makes no illegal call and no hook raises, the agent has a
\* task from the time it is scheduled until it is completed, and a reason while it failed.
TaskAndReasonMatch ==
  legal = "yes" =>
    /\ state \in {"INITIALIZING", "COMPLETED"} => currentTask = NoTaskId
    /\ state \notin {"INITIALIZING", "RUNNABLE", "COMPLETED"} => currentTask # NoTaskId
    /\ state \in {"FAILED", "RECOVERING"} => failureReason = "some"

\* Inside a critical section no preemption is seen. A request that arrives there sets the
\* flag again, so the code does not provide it.
MaskedInside == sections # <<>> => ~safe_point
===============================================================================
