------------------------------- MODULE Scheduler -------------------------------
(***************************************************************************)
(* SchedulerServiceImpl (hive/scheduler_service.py) over                   *)
(* SchedulerStateStore (hive/state_store.py): the tasks and each agent's   *)
(* activity buffer, in memory and in two tables. A handler holds the lock  *)
(* throughout, so it is one step. It writes the store after the memory,    *)
(* one table at a time (PurgeActivity: before the memory), and any of      *)
(* these writes may raise.                                                 *)
(***************************************************************************)
EXTENDS Integers, FiniteSets

CONSTANTS
  Owners,       \* agents tasks are submitted for
  Names,        \* task_ids clients choose; a number n stands for "task-n"
  MaxSubmits,   \* bound: SubmitTask calls
  MaxSchedulerFaults, MaxSchedulerCrashes,  \* bounds
  NoTask

AutoIds == 0..MaxSubmits - 1   \* f"task-{n}"
TaskIds == AutoIds \cup Names

\* Both an activity entry and a task carry the number of the call that made them.
Entries == [task : TaskIds, call : 1..MaxSubmits]
Tasks == [owner : Owners, call : 1..MaxSubmits, status : {"pending", "preempted"}]

ASSUME SchedulerAssumption ==
  /\ IsFiniteSet(Names) /\ MaxSubmits \in Nat /\ NoTask \notin Tasks
  /\ MaxSchedulerFaults \in Nat /\ MaxSchedulerCrashes \in Nat

VARIABLES
  tasks,         \* what each task_id stands for
  taskRows,      \* the same in the table scheduler_tasks
  activity,      \* the entries of each agent; they are in the order of their calls
  activityRows,  \* the same in the table scheduler_activity
  submits,       \* number of SubmitTask calls
  preempted,     \* history: tasks whose preemption was answered enqueued=True
  purged,        \* history: entries whose purge was answered
  given,         \* history: the task_ids clients chose
  forgot,        \* history: a restart found a task missing in the table
  schedulerCrashes, schedulerFaults

schedulerVars == <<tasks, taskRows, activity, activityRows, submits, preempted, purged, given,
                   forgot, schedulerCrashes, schedulerFaults>>

SchedulerInit ==
  /\ tasks = [id \in TaskIds |-> NoTask] /\ taskRows = tasks
  /\ activity = [a \in Owners |-> {}] /\ activityRows = activity
  /\ submits = 0 /\ preempted = {} /\ purged = {} /\ given = {} /\ forgot = FALSE
  /\ schedulerCrashes = 0 /\ schedulerFaults = 0

KnownTasks == {id \in TaskIds : tasks[id] # NoTask}

SchedulerStoreRaises ==
  schedulerFaults < MaxSchedulerFaults /\ schedulerFaults' = schedulerFaults + 1
-------------------------------------------------------------------------------
(* Handlers *)

\* The id of a task that comes without one. (Mutant: the number of pending tasks.)
PendingCount == Cardinality({id \in KnownTasks : tasks[id].status = "pending"})
AutoId == Cardinality(KnownTasks)

Task(a, n) == [owner |-> a, call |-> n, status |-> "pending"]
Entry(id, n) == [task |-> id, call |-> n]

SubmitTask(a, id) ==
  LET n == submits + 1
      task == Task(a, n)
  IN
  /\ submits < MaxSubmits /\ submits' = n
  /\ tasks' = [tasks EXCEPT ![id] = task]
  /\ preempted' = preempted \ {id}
  /\ \/ /\ SchedulerStoreRaises
        /\ UNCHANGED <<taskRows, activity, activityRows>>
     \/ /\ taskRows' = [taskRows EXCEPT ![id] = task]
        /\ activity' = [activity EXCEPT ![a] = @ \cup {Entry(id, n)}]
        /\ \/ SchedulerStoreRaises /\ UNCHANGED activityRows
           \/ /\ activityRows' = [activityRows EXCEPT ![a] = @ \cup {Entry(id, n)}]
              /\ UNCHANGED schedulerFaults
  /\ UNCHANGED <<purged, forgot, schedulerCrashes>>

SubmitNamed(a, id) == SubmitTask(a, id) /\ given' = given \cup {id}
SubmitUnnamed(a) == SubmitTask(a, AutoId) /\ UNCHANGED given

Preempted(f, id) == [f EXCEPT ![id].status = "preempted"]

\* Any client, whichever agent owns the task. (Mutant: the status is not saved.)
PreemptInMemory(id) ==
  /\ id \in KnownTasks /\ tasks' = Preempted(tasks, id) /\ preempted' = preempted \cup {id}
  /\ UNCHANGED <<taskRows, activity, activityRows, submits, purged, given, forgot,
                 schedulerCrashes, schedulerFaults>>
RequestPreemption(id) ==
  /\ id \in KnownTasks
  /\ tasks' = Preempted(tasks, id)
  /\ \/ SchedulerStoreRaises /\ UNCHANGED <<taskRows, preempted>>
     \/ /\ taskRows' = IF taskRows[id] = NoTask THEN taskRows ELSE Preempted(taskRows, id)
        /\ preempted' = preempted \cup {id} /\ UNCHANGED schedulerFaults
  /\ UNCHANGED <<activity, activityRows, submits, purged, given, forgot, schedulerCrashes>>

\* The entries a purge of ids keeps; no ids stands for all of them.
Kept(s, ids) == {e \in s : ids # {} /\ e.task \notin ids}

\* (Mutant: the store deletes by the ids alone, which for none deletes nothing.)
KeptByIds(s, ids) == {e \in s : e.task \notin ids}
KeptRows(s, ids) == Kept(s, ids)

PurgeActivity(a, ids) ==
  /\ UNCHANGED <<tasks, taskRows, submits, preempted, given, forgot, schedulerCrashes>>
  /\ \/ /\ activityRows' = [activityRows EXCEPT ![a] = KeptRows(@, ids)]
        /\ activity' = [activity EXCEPT ![a] = Kept(@, ids)]
        /\ purged' = purged \cup (activity[a] \ Kept(activity[a], ids))
        /\ UNCHANGED schedulerFaults
     \/ SchedulerStoreRaises /\ UNCHANGED <<activity, activityRows, purged>>

\* The process dies, and another one loads both tables (_restore_state).
RestartScheduler ==
  /\ schedulerCrashes < MaxSchedulerCrashes /\ schedulerCrashes' = schedulerCrashes + 1
  /\ tasks' = taskRows /\ activity' = activityRows
  /\ forgot' = (forgot \/ \E id \in KnownTasks : taskRows[id] = NoTask)
  /\ UNCHANGED <<taskRows, activityRows, submits, preempted, purged, given, schedulerFaults>>

SchedulerNext ==
  \/ \E a \in Owners : SubmitUnnamed(a) \/ \E id \in Names : SubmitNamed(a, id)
  \/ \E id \in TaskIds : RequestPreemption(id)
  \/ \E a \in Owners : \E ids \in {{}} \cup {{id} : id \in KnownTasks} : PurgeActivity(a, ids)
  \/ RestartScheduler

SchedulerSpec == SchedulerInit /\ [][SchedulerNext]_schedulerVars
-------------------------------------------------------------------------------
(* Properties *)

\* The tables are never ahead of the memory: they hold no task and no entry it lacks.
SchedulerTypeOK ==
  /\ {tasks, taskRows} \subseteq [TaskIds -> Tasks \cup {NoTask}]
  /\ {activity, activityRows} \subseteq [Owners -> SUBSET Entries]
  /\ \A a \in Owners : activityRows[a] \subseteq activity[a]
  /\ \A id \in TaskIds : taskRows[id] # NoTask => id \in KnownTasks
  /\ submits \in 0..MaxSubmits /\ preempted \subseteq TaskIds /\ purged \subseteq Entries
  /\ given \subseteq Names /\ forgot \in BOOLEAN
  /\ schedulerCrashes \in 0..MaxSchedulerCrashes
  /\ schedulerFaults \in 0..MaxSchedulerFaults

\* A task that comes without an id takes the id of another one only if a client chose that
\* id, or after a restart lost a task whose save had failed: SubmitTask accepts it as new.
AutoIdIsFresh == AutoId \in KnownTasks => AutoId \in given \/ forgot

\* The same without these exceptions.
AutoIdIsAlwaysFresh == AutoId \notin KnownTasks

\* A task whose preemption was confirmed stays preempted, restarts included, until
\* it is submitted again (RequestPreemption, update_task_status, load_state).
PreemptionHolds ==
  \A id \in preempted : id \in KnownTasks => tasks[id].status = "preempted"

\* An entry whose purge was confirmed never comes back (PurgeActivity, clear_activity,
\* load_state).
PurgeIsFinal == \A a \in Owners : activity[a] \cap purged = {}

\* What the scheduler confirmed, a preemption or a purge, holds in memory and in its store.
SchedulerIsDurable == PreemptionHolds /\ PurgeIsFinal
===============================================================================
