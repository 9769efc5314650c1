---------------------------------- MODULE A2A ----------------------------------
(***************************************************************************)
(* A2AToSW4RMAdapter with a task store (a2a_gateway/adapter.py), called    *)
(* from the handlers of A2AServicer and of the HTTP server (server.py):    *)
(* tasks of A2A clients become messages to agents. A call makes several    *)
(* calls of the store, the router and the scheduler, each a step; one that *)
(* fails raises. SqliteTaskStore keeps tasks over restarts and may be      *)
(* shared by gateways, TaskStore does neither. An envelope carries its     *)
(* task's id; cards and the translation of messages are left out.          *)
(***************************************************************************)
EXTENDS Naturals, FiniteSets

CONSTANTS
  A2ATasks,      \* task ids, uuid4: bounds the tasks over time
  Handlers,      \* threads that serve A2A clients
  Artifacts2,    \* artifacts that handlers may add
  Durable,       \* SqliteTaskStore
  NoTask

ASSUME A2AAssumption == Durable \in BOOLEAN

TaskState == {"submitted", "working", "completed", "failed", "canceled"}

ASSUME NoTaskAssumption == NoTask \notin TaskState

VARIABLES
  taskStates,  \* the status of each task on record
  results,     \* its artifacts
  routed,      \* the tasks whose envelopes the router has taken
  serving,     \* where each handler is: [at |-> "idle"], or its next step, task and what it read
  answered     \* the tasks whose ids the client was told

a2aVars == <<taskStates, results, routed, serving, answered>>

Resting == [at |-> "idle"]
A2AInit ==
  /\ taskStates = [t \in A2ATasks |-> NoTask] /\ results = [t \in A2ATasks |-> {}]
  /\ routed = {} /\ answered = {}
  /\ serving = [s \in Handlers |-> Resting]

OnRecord(t) == taskStates[t] # NoTask
At(s, where) == serving[s].at = where
Used(t) ==
  \/ OnRecord(t) \/ t \in routed \cup answered
  \/ t \in {serving[s].task : s \in {r \in Handlers : ~At(r, "idle")}}
Goes(s, where, t) == serving' = [serving EXCEPT ![s] = [at |-> where, task |-> t]]
Rests(s) == serving' = [serving EXCEPT ![s] = Resting]

\* update_state: nothing for a task that is not on record
Puts(t, state) == taskStates' = [taskStates EXCEPT ![t] = IF OnRecord(t) THEN state ELSE NoTask]
-------------------------------------------------------------------------------
(* send_message *)

\* (Mutant: the task is recorded when it has been routed.)
TaskRecordedLate(t) == taskStates
TaskRecorded(t) == [taskStates EXCEPT ![t] = "submitted"]
create_task(s, t) ==
  /\ At(s, "idle") /\ ~Used(t)
  /\ taskStates' = TaskRecorded(t) /\ Goes(s, "route", t)
  /\ UNCHANGED <<results, routed, answered>>
Routes(s) ==
  /\ At(s, "route")
  /\ \/ routed' = routed \cup {serving[s].task} /\ Goes(s, "working", serving[s].task)
     \/ UNCHANGED routed /\ Goes(s, "working", serving[s].task)   \* the router's answer is no
     \/ routed' \in {routed, routed \cup {serving[s].task}} /\ Goes(s, "failed", serving[s].task)
  /\ UNCHANGED <<taskStates, results, answered>>
MarksTask(s) ==
  /\ At(s, "working") \/ At(s, "failed")
  /\ Puts(serving[s].task, serving[s].at)
  /\ Goes(s, "schedule", serving[s].task) /\ UNCHANGED <<results, routed, answered>>
\* The store may fail to.
MarkFails(s) ==
  /\ At(s, "working") /\ Goes(s, "failed", serving[s].task)
  /\ UNCHANGED <<taskStates, results, routed, answered>>
\* The scheduler's answer, or its failure, does not matter.
Schedules(s) ==
  /\ At(s, "schedule") /\ Goes(s, "answer", serving[s].task)
  /\ UNCHANGED <<taskStates, results, routed, answered>>
AnswersClient(s) ==
  /\ At(s, "answer") /\ answered' = answered \cup {serving[s].task} /\ Rests(s)
  /\ UNCHANGED <<taskStates, results, routed>>
-------------------------------------------------------------------------------
(* cancel_task, add_artifact, and update_state called for an agent that reports its end *)

FindsTask(s, t, where) ==
  /\ At(s, "idle") /\ t \in answered /\ OnRecord(t) /\ Goes(s, where, t)
  /\ UNCHANGED <<taskStates, results, routed, answered>>
Preempts(s) ==
  /\ At(s, "preempt") /\ Goes(s, "cancel", serving[s].task)
  /\ UNCHANGED <<taskStates, results, routed, answered>>
Cancels(s) ==
  /\ At(s, "cancel") /\ Puts(serving[s].task, "canceled") /\ Rests(s)
  /\ UNCHANGED <<results, routed, answered>>

\* In SqliteTaskStore the artifacts are read and written back by two statements.
ReadsArtifacts(s, t, x) ==
  /\ At(s, "idle") /\ t \in routed /\ OnRecord(t)
  /\ serving' = [serving EXCEPT ![s] = [at |-> "write", task |-> t, artifacts |-> results[t] \cup {x}]]
  /\ UNCHANGED <<taskStates, results, routed, answered>>
WritesArtifacts(s) ==
  /\ At(s, "write") /\ Rests(s)
  /\ results' = IF OnRecord(serving[s].task)
                THEN [results EXCEPT ![serving[s].task] = serving[s].artifacts] ELSE results
  /\ UNCHANGED <<taskStates, routed, answered>>

update_state(t, state) ==
  /\ t \in routed /\ OnRecord(t) /\ Puts(t, state)
  /\ UNCHANGED <<results, routed, serving, answered>>

GatewayRestarts ==
  /\ serving' = [s \in Handlers |-> Resting]
  /\ IF Durable THEN UNCHANGED <<taskStates, results>>
     ELSE /\ taskStates' = [t \in A2ATasks |-> NoTask] /\ results' = [t \in A2ATasks |-> {}]
  /\ UNCHANGED <<routed, answered>>

A2ANext ==
  \/ \E s \in Handlers, t \in A2ATasks :
       \/ create_task(s, t) \/ FindsTask(s, t, "preempt")
       \/ \E x \in Artifacts2 : ReadsArtifacts(s, t, x)
  \/ \E s \in Handlers : \/ Routes(s) \/ MarksTask(s) \/ MarkFails(s) \/ Schedules(s)
                         \/ AnswersClient(s) \/ Preempts(s) \/ Cancels(s) \/ WritesArtifacts(s)
  \/ \E t \in A2ATasks, state \in {"completed", "failed"} : update_state(t, state)
  \/ GatewayRestarts
-------------------------------------------------------------------------------
(* Properties *)

A2ATypeOK ==
  /\ taskStates \in [A2ATasks -> TaskState \cup {NoTask}]
  /\ results \in [A2ATasks -> SUBSET Artifacts2]
  /\ routed \cup answered \subseteq A2ATasks
  /\ \A s \in Handlers : At(s, "idle") \/ serving[s].task \in A2ATasks

\* What the gateway has set in motion it can be asked about: with the durable store every
\* task that reached the router or the client is on record, whenever the
\* gateway was stopped and started again, and the client was told of none that is not at
\* least being worked on or over.
SetInMotionIsKnown ==
  /\ Durable => \A t \in routed \cup answered : OnRecord(t)
  /\ \A t \in answered : taskStates[t] # "submitted"

\* A task that has ended keeps its state. CancelTask writes over any state, so the code
\* does not provide it.
EndedTaskStays ==
  [][\A t \in A2ATasks : taskStates[t] \in {"completed", "failed", "canceled"}
       => taskStates'[t] \in {taskStates[t], NoTask}]_a2aVars

\* Artifacts are only added. Two gateways on one database may each write back what they
\* read, so the code does not provide it.
ArtifactsKept == [][\A t \in A2ATasks : OnRecord(t)' => results[t] \subseteq results'[t]]_a2aVars
===============================================================================
