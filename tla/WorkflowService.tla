---------------------------- MODULE WorkflowService ----------------------------
(***************************************************************************)
(* WorkflowServiceImpl (coordination/workflow_service.py): definitions of  *)
(* dependency graphs, and the status of every node of a started workflow.  *)
(* A handler holds the lock where it reads or writes either, so it is one  *)
(* step. Texts, outputs and data of a workflow are left out.               *)
(***************************************************************************)
EXTENDS Naturals, FiniteSets

CONSTANTS
  Workflows, WorkflowNodes,
  NoDefinition, NotStarted

NodeStatus == {"PENDING", "READY", "RUNNING", "COMPLETED", "FAILED", "SKIPPED"}
Terminal == {"COMPLETED", "FAILED", "SKIPPED"}

ASSUME WorkflowAssumption ==
  NotStarted \notin UNION {[nodes -> NodeStatus] : nodes \in SUBSET WorkflowNodes}

VARIABLES
  definitions, \* _definitions: the dependencies of each node of a workflow
  nodeStates,  \* _instances: the status of each node of a started workflow
  endedAt,     \* the workflows whose completed_at is set
  orderly      \* history: the workflows whose nodes were only ever named while READY or
               \* RUNNING, and only to run or to complete them

workflowVars == <<definitions, nodeStates, endedAt, orderly>>

WorkflowInit ==
  /\ definitions = [w \in Workflows |-> NoDefinition]
  /\ nodeStates = [w \in Workflows |-> NotStarted]
  /\ endedAt = {} /\ orderly = Workflows

\* What a request may carry: a function from a set of nodes to sets of names.
Requested == UNION {[nodes -> SUBSET WorkflowNodes] : nodes \in SUBSET WorkflowNodes}
Started(w) == nodeStates[w] # NotStarted
-------------------------------------------------------------------------------
(* Validation *)

DependenciesExist(deps) == \A n \in DOMAIN deps : deps[n] \subseteq DOMAIN deps

\* A set of nodes each of which depends on another of the set holds a cycle.
\* (Mutant: only a node that depends on itself is found.)
HasLoop(deps) == \E n \in DOMAIN deps : n \in deps[n]
HasCycle(deps) ==
  \E nodes \in SUBSET DOMAIN deps \ {{}} : \A n \in nodes : deps[n] \cap nodes # {}
-------------------------------------------------------------------------------
(* Handlers: an error answer changes nothing *)

CreateWorkflow(w, deps) ==
  /\ definitions[w] = NoDefinition
  /\ deps # <<>> /\ DependenciesExist(deps) /\ ~HasCycle(deps)
  /\ definitions' = [definitions EXCEPT ![w] = deps]
  /\ UNCHANGED <<nodeStates, endedAt, orderly>>

StartWorkflow(w) ==
  /\ definitions[w] # NoDefinition /\ ~Started(w)
  /\ nodeStates' = [nodeStates EXCEPT ![w] =
       [n \in DOMAIN definitions[w] |-> IF definitions[w][n] = {} THEN "READY" ELSE "PENDING"]]
  /\ UNCHANGED <<definitions, endedAt, orderly>>

\* The statuses st of workflow w after node c has completed: dependents that waited
\* for it alone become ready. (Mutant: those that wait for other nodes too.)
ReadyAny(w, st, c) ==
  [n \in DOMAIN st |-> IF c \in definitions[w][n] /\ st[n] = "PENDING" THEN "READY" ELSE st[n]]
DependentsUpdated(w, st, c) ==
  [n \in DOMAIN st |->
     IF /\ c \in definitions[w][n] /\ st[n] = "PENDING"
        /\ \A d \in definitions[w][n] : st[d] = "COMPLETED"
     THEN "READY" ELSE st[n]]

SetNodes(w, st) ==
  /\ nodeStates' = [nodeStates EXCEPT ![w] = st]
  /\ endedAt' = IF \A n \in DOMAIN st : st[n] \in Terminal THEN endedAt \cup {w} ELSE endedAt
  /\ UNCHANGED definitions

WithStatus(w, n, s) == [nodeStates[w] EXCEPT ![n] = s]
KeepsOrder(w, n, s) ==
  orderly' = IF nodeStates[w][n] \in {"READY", "RUNNING"} /\ s \in {"RUNNING", "COMPLETED"}
             THEN orderly ELSE orderly \ {w}

\* The node completes whatever its status was.
ResumeWorkflow(w, n) ==
  /\ Started(w) /\ n \in DOMAIN nodeStates[w]
  /\ SetNodes(w, DependentsUpdated(w, WithStatus(w, n, "COMPLETED"), n))
  /\ KeepsOrder(w, n, "COMPLETED")

update_node_state(w, n, s) ==
  /\ Started(w) /\ n \in DOMAIN nodeStates[w]
  /\ SetNodes(w, IF s = "COMPLETED" THEN DependentsUpdated(w, WithStatus(w, n, s), n)
                                    ELSE WithStatus(w, n, s))
  /\ KeepsOrder(w, n, s)

WorkflowClearAll ==
  /\ definitions' = [w \in Workflows |-> NoDefinition]
  /\ nodeStates' = [w \in Workflows |-> NotStarted]
  /\ endedAt' = {} /\ orderly' = Workflows

WorkflowNext ==
  \/ \E w \in Workflows : \/ \E deps \in Requested : CreateWorkflow(w, deps)
                          \/ StartWorkflow(w)
                          \/ \E n \in WorkflowNodes : ResumeWorkflow(w, n)
                          \/ \E n \in WorkflowNodes, s \in NodeStatus : update_node_state(w, n, s)
  \/ WorkflowClearAll

WorkflowSpec == WorkflowInit /\ [][WorkflowNext]_workflowVars
-------------------------------------------------------------------------------
(* Properties *)

WorkflowTypeOK ==
  /\ \A w \in Workflows :
       /\ definitions[w] = NoDefinition \/ definitions[w] \in Requested \ {<<>>}
       /\ Started(w) => nodeStates[w] \in [DOMAIN definitions[w] -> NodeStatus]
  /\ endedAt \subseteq Workflows /\ orderly \subseteq Workflows

\* A workflow whose nodes are only run and completed when their turn comes goes on until
\* all of them are completed, and only then is it marked as completed; no node has had
\* its turn before its dependencies were completed. It takes the check for cycles, the
\* update of the dependents and the check for completion together.
OrderlyRunsEnd ==
  \A w \in orderly : Started(w) =>
    LET st == nodeStates[w] IN
    /\ w \in endedAt <=> \A n \in DOMAIN st : st[n] = "COMPLETED"
    /\ w \in endedAt \/ \E n \in DOMAIN st : st[n] \in {"READY", "RUNNING"}
    /\ \A n \in DOMAIN st : st[n] # "PENDING" =>
         \A d \in definitions[w][n] : st[d] = "COMPLETED"

\* A node that completes has completed dependencies. update_node_state and ResumeWorkflow
\* complete a node in any status, so the code does not provide it.
CompletedInOrder ==
  \A w \in Workflows : Started(w) =>
    \A n \in DOMAIN nodeStates[w] : nodeStates[w][n] = "COMPLETED" =>
      \A d \in definitions[w][n] : nodeStates[w][d] = "COMPLETED"
===============================================================================
