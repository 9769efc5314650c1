---------------------------- MODULE WorkflowEngine ----------------------------
(***************************************************************************)
(* WorkflowBuilder, WorkflowDefinition and WorkflowEngine (sw4rm/workflow):*)
(* a graph of nodes is drafted and built, executed in topological order,   *)
(* and resumed from a checkpoint that its caller made or got back. Nodes   *)
(* are numbers, in the order of their ids. A call runs one node after the  *)
(* other; the executor may raise, which ends the call. The data the nodes  *)
(* pass on, triggers and metadata are left out.                            *)
(***************************************************************************)
EXTENDS Naturals, FiniteSets, Sequences, FiniteSetsExt

CONSTANTS
  EngineNodes,   \* node ids, numbered in their order
  NoGraph

ASSUME EngineAssumption == EngineNodes \subseteq Nat /\ NoGraph \notin EngineNodes

VARIABLES
  draft,    \* the builder's nodes: the dependencies of each
  graph,    \* the workflow built from them
  known,    \* node_states of the state under execution, or in the caller's hands
  todo,     \* what is left of the order, while a call runs
  call,     \* "none", "execute", "resume"; "lost" after an execute that raised
  executed  \* history: how often each node of the state was given to the executor

engineVars == <<draft, graph, known, todo, call, executed>>

EngineInit ==
  /\ draft = <<>> /\ graph = NoGraph /\ known = <<>> /\ todo = <<>> /\ call = "none"
  /\ executed = [n \in EngineNodes |-> 0]

Statuses == {"pending", "running", "completed", "failed"}   \* "skipped" is never written
-------------------------------------------------------------------------------
(* Algorithms. s: what the search has visited, its path, and the cycle it found. *)

\* The calls of a search, by node and what it has seen, for one node after the other.
ForEach(calls, s, nodes) == FoldSet(LAMBDA n, t : calls[<<n, t>>], s, nodes)

Searches(deps) ==
  [visited : SUBSET DOMAIN deps, path : Seq(DOMAIN deps), cycle : SUBSET DOMAIN deps]
Visits(deps, visit, n, s) ==
  IF s.cycle # {} THEN s
  ELSE IF \E i \in DOMAIN s.path : s.path[i] = n
  THEN [s EXCEPT !.cycle =
          {s.path[j] : j \in {j \in DOMAIN s.path : \A i \in DOMAIN s.path : s.path[i] = n => i <= j}}]
  ELSE IF n \in s.visited THEN s
  ELSE [ForEach(visit, [s EXCEPT !.visited = @ \cup {n}, !.path = Append(@, n)], deps[n])
          EXCEPT !.path = s.path]
CycleFound(deps) ==
  LET visit[c \in (DOMAIN deps) \X Searches(deps)] == Visits(deps, visit, c[1], c[2])
  IN ForEach(visit, [visited |-> {}, path |-> <<>>, cycle |-> {}], DOMAIN deps).cycle

\* WorkflowServiceImpl has a search of its own, which stops without the cycle.
ServiceSearches(deps) == [visited : SUBSET DOMAIN deps, stack : SUBSET DOMAIN deps, found : BOOLEAN]
Unvisited(deps) == {c \in (DOMAIN deps) \X ServiceSearches(deps) : c[1] \notin c[2].visited}
ServiceVisits(deps, has_cycle, n, s) ==
  LET looks[c \in (DOMAIN deps) \X ServiceSearches(deps)] ==
        IF c[2].found THEN c[2]
        ELSE IF c[1] \notin c[2].visited THEN has_cycle[c]
        ELSE [c[2] EXCEPT !.found = c[1] \in c[2].stack]
      r == ForEach(looks, [s EXCEPT !.visited = @ \cup {n}, !.stack = @ \cup {n}], deps[n])
  IN IF r.found THEN r ELSE [r EXCEPT !.stack = @ \ {n}]
ServiceFindsCycle(deps) ==
  LET has_cycle[c \in Unvisited(deps)] == ServiceVisits(deps, has_cycle, c[1], c[2])
      starts[c \in (DOMAIN deps) \X ServiceSearches(deps)] ==
        IF c[2].found \/ c[1] \in c[2].visited THEN c[2] ELSE has_cycle[c]
  IN ForEach(starts, [visited |-> {}, stack |-> {}, found |-> FALSE], DOMAIN deps).found

\* The queue's least node goes next; its dependents lose a degree. (Mutant: a dependent is
\* queued when the first of its dependencies has gone.)
FirstGone(done, d) == d \cap done # {} \/ d = {}
AllGone(done, d) == d \subseteq done
topological_sort(deps) ==
  LET order[done \in SUBSET DOMAIN deps] ==
        LET queue == {n \in DOMAIN deps \ done : AllGone(done, deps[n])}
            next == CHOOSE n \in queue : \A m \in queue : n <= m
        IN IF queue = {} THEN <<>> ELSE <<next>> \o order[done \cup {next}]
  IN order[{}]

\* <<>> where the code raises
get_execution_plan(deps) ==
  LET levels[processed \in SUBSET DOMAIN deps] ==
        LET level == {n \in DOMAIN deps \ processed : deps[n] \subseteq processed}
        IN IF level = {} THEN <<>> ELSE <<level>> \o levels[processed \cup level]
  IN levels[{}]

is_node_ready(n) ==
  n \in DOMAIN known /\ known[n] = "pending"
    /\ \A d \in graph[n] : d \in DOMAIN known /\ known[d] = "completed"
-------------------------------------------------------------------------------
(* The builder *)

Built == graph # NoGraph
BuilderOnly == UNCHANGED <<graph, known, todo, call, executed>>

add_node(n) ==
  /\ ~Built /\ n \notin DOMAIN draft
  /\ draft' = [m \in DOMAIN draft \cup {n} |-> IF m = n THEN {} ELSE draft[m]]
  /\ BuilderOnly
add_dependency(from, to) ==
  /\ ~Built /\ {from, to} \subseteq DOMAIN draft /\ from # to
  /\ draft' = [draft EXCEPT ![to] = @ \cup {from}] /\ BuilderOnly
remove_node(n) ==
  /\ ~Built /\ n \in DOMAIN draft
  /\ draft' = [m \in DOMAIN draft \ {n} |-> draft[m] \ {n}] /\ BuilderOnly
\* Raises when there is a cycle.
build ==
  /\ ~Built /\ draft # <<>> /\ CycleFound(draft) = {}
  /\ graph' = draft /\ UNCHANGED <<draft, known, todo, call, executed>>
-------------------------------------------------------------------------------
(* The engine *)

Starts(how, states) ==
  /\ known' = states /\ call' = how /\ todo' = topological_sort(graph)
  /\ UNCHANGED <<draft, graph>>

execute ==
  /\ Built /\ call = "none" /\ known = <<>>
  /\ Starts("execute", [n \in DOMAIN graph |-> "pending"]) /\ UNCHANGED executed

\* A snapshot of a run: nodes have completed with their dependencies before them, of the
\* others those not in `kept` have no entry.
Checkpoint(done, kept) == [n \in done \cup kept |-> IF n \in done THEN "completed" ELSE "pending"]
resume_from_checkpoint(done, kept) ==
  /\ Built /\ call = "none"
  /\ \/ /\ known = <<>> /\ \A n \in done : graph[n] \subseteq done
        /\ Starts("resume", Checkpoint(done, kept))
     \/ known # <<>> /\ done = {} /\ kept = {} /\ Starts("resume", known)   \* once more
  /\ UNCHANGED executed

\* The head of the order, and what the call does with it.
Runs(n) == IF call = "execute" THEN known[n] = "pending" ELSE is_node_ready(n)
NextNode == Head(todo)
Ensured(n) == [m \in DOMAIN known \cup {n} |-> IF m \in DOMAIN known THEN known[m] ELSE "pending"]

SkipsNode ==
  /\ call = "resume" /\ todo # <<>> /\ NextNode \in DOMAIN known /\ ~Runs(NextNode)
  /\ known[NextNode] # "running" /\ todo' = Tail(todo)
  /\ UNCHANGED <<draft, graph, known, call, executed>>
EnsuresNode ==
  /\ call = "resume" /\ todo # <<>> /\ NextNode \notin DOMAIN known
  /\ known' = Ensured(NextNode) /\ UNCHANGED <<draft, graph, todo, call, executed>>
StartsNode ==
  /\ call # "none" /\ todo # <<>> /\ NextNode \in DOMAIN known /\ Runs(NextNode)
  /\ known' = [known EXCEPT ![NextNode] = "running"]
  /\ executed' = [executed EXCEPT ![NextNode] = @ + 1]
  /\ UNCHANGED <<draft, graph, todo, call>>
NodeReturns ==
  /\ todo # <<>> /\ NextNode \in DOMAIN known /\ known[NextNode] = "running"
  /\ known' = [known EXCEPT ![NextNode] = "completed"] /\ todo' = Tail(todo)
  /\ UNCHANGED <<draft, graph, call, executed>>
\* The exception leaves execute, whose state its caller never sees, or resume.
NodeRaises ==
  /\ todo # <<>> /\ NextNode \in DOMAIN known /\ known[NextNode] = "running"
  /\ known' = [known EXCEPT ![NextNode] = "failed"] /\ todo' = <<>>
  /\ call' = IF call = "execute" THEN "lost" ELSE "none"
  /\ UNCHANGED <<draft, graph, executed>>
CallReturns ==
  /\ call \in {"execute", "resume"} /\ todo = <<>> /\ call' = "none"
  /\ UNCHANGED <<draft, graph, known, todo, executed>>

EngineNext ==
  \/ \E n \in EngineNodes : add_node(n) \/ remove_node(n) \/ \E m \in EngineNodes : add_dependency(n, m)
  \/ build \/ execute
  \/ Built /\ \E done, kept \in SUBSET DOMAIN graph : resume_from_checkpoint(done, kept)
  \/ SkipsNode \/ EnsuresNode \/ StartsNode \/ NodeReturns \/ NodeRaises \/ CallReturns
-------------------------------------------------------------------------------
(* Properties *)

EngineTypeOK ==
  /\ draft \in UNION {[s -> SUBSET s] : s \in SUBSET EngineNodes}
  /\ Built => graph = draft
  /\ DOMAIN known \subseteq DOMAIN draft /\ \A n \in DOMAIN known : known[n] \in Statuses
  /\ todo \in Seq(DOMAIN draft) /\ call \in {"none", "execute", "resume", "lost"}

\* A cycle, by its definition: nodes each of which depends on another of them.
Cyclic(deps, nodes) == nodes # {} /\ \A n \in nodes : deps[n] \cap nodes # {}
\* The searches for cycles, the topological order and the plan of every drafted graph
\* agree with each other and with the definitions: a cycle is found if there is one, and
\* what is found is one; without one, order and plan hold every node once, after its
\* dependencies, and the plan's levels as early as possible.
GraphsAgree ==
  LET cycle == CycleFound(draft)
      order == topological_sort(draft)
      plan == get_execution_plan(draft)
      acyclic == \A nodes \in SUBSET DOMAIN draft : ~Cyclic(draft, nodes)
      before(i) == {order[j] : j \in 1..(i - 1)}
      level(n) == CHOOSE i \in DOMAIN plan : n \in plan[i]
  IN /\ acyclic <=> cycle = {}
     /\ cycle # {} => Cyclic(draft, cycle)
     /\ ServiceFindsCycle(draft) <=> ~acyclic
     /\ \A i \in DOMAIN order : draft[order[i]] \subseteq before(i) /\ order[i] \notin before(i)
     /\ Len(order) = Cardinality(DOMAIN draft) <=> acyclic
     /\ acyclic => \A n \in DOMAIN draft :
          level(n) = 1 + (IF draft[n] = {} THEN 0 ELSE Max({level(d) : d \in draft[n]}))

\* A node is given to the executor at most once for one state, however often that state
\* is resumed, and only when all it depends on is completed: execute does not look at the
\* dependencies again, it trusts its order. A run that was executed to the end has
\* completed every node.
ExecutedInOrder ==
  /\ \A n \in EngineNodes :
       /\ executed[n] <= 1
       /\ executed[n] = 1 => \A d \in graph[n] : d \in DOMAIN known /\ known[d] = "completed"
  /\ call = "execute" /\ todo = <<>> => \A n \in DOMAIN graph : known[n] = "completed"

\* When a resumed run returns, every node has completed. A node that failed in an earlier
\* call is passed over with all that depend on it, so the code does not provide it.
ResumeCompletes ==
  call = "resume" /\ todo = <<>> => \A n \in DOMAIN graph : n \in DOMAIN known /\ known[n] = "completed"
===============================================================================
