---------------------------- MODULE SharedContexts ----------------------------
(***************************************************************************)
(* SharedContextManager (shared_context.py): shared contexts with a        *)
(* version, data and a lock. Agents read a context, make new data out of   *)
(* the data they read, and offer it with the version they expect; other    *)
(* agents act in between. A method does not wait and is one step; a call   *)
(* that raises changes nothing. Data is the set of the updates it          *)
(* includes.                                                               *)
(***************************************************************************)
EXTENDS Naturals, FiniteSets

CONSTANTS
  ContextIds, ContextAgents,
  Aliased,       \* the agents that pass the version of the object they got from get(), which
                 \* is the live one, at the time of the update; the others copied it
  MaxVersion,    \* bound on the updates of a context
  MaxCreated,    \* bound on the contexts created over time
  NoContext, NotLocked

ASSUME SharedContextAssumption ==
  /\ Aliased \subseteq ContextAgents /\ MaxVersion \in Nat \ {0} /\ MaxCreated \in Nat
  /\ NotLocked \notin ContextAgents

VARIABLES
  contexts,   \* _contexts
  seen,       \* what each agent's last get() or update() returned
  made,       \* number of contexts created, which tells one object from the next
  accepted,   \* history: the updates of each context that were accepted since its creation
  recreated,  \* history: the contexts that were deleted
  updatedLive \* history: the contexts that an agent of Aliased updated

contextVars == <<contexts, seen, made, accepted, recreated, updatedLive>>

Updates == ContextAgents \X (2..MaxVersion)
Context == [object : 1..MaxCreated, version : 1..MaxVersion, data : SUBSET Updates,
            lockedBy : ContextAgents \cup {NotLocked}]

ASSUME NoContextAssumption == NoContext \notin Context

ContextInit ==
  /\ contexts = [c \in ContextIds |-> NoContext]
  /\ seen = [a \in ContextAgents |-> [c \in ContextIds |-> NoContext]]
  /\ made = 0 /\ accepted = [c \in ContextIds |-> {}] /\ recreated = {} /\ updatedLive = {}

Exists(c) == contexts[c] # NoContext
Sees(a, c) == seen' = [seen EXCEPT ![a][c] = contexts'[c]]

create(c) ==
  /\ ~Exists(c) /\ made < MaxCreated /\ made' = made + 1
  /\ contexts' = [contexts EXCEPT ![c] =
       [object |-> made + 1, version |-> 1, data |-> {}, lockedBy |-> NotLocked]]
  /\ accepted' = [accepted EXCEPT ![c] = {}] /\ UNCHANGED <<seen, recreated, updatedLive>>

get(a, c) ==
  Exists(c) /\ UNCHANGED <<contexts, made, accepted, recreated, updatedLive>> /\ Sees(a, c)

\* The version that agent a expects. The object of a deleted context changes no more.
Expected(a, c) ==
  IF a \in Aliased /\ Exists(c) /\ contexts[c].object = seen[a][c].object
  THEN contexts[c].version ELSE seen[a][c].version

\* (Mutant: only the lock is looked at.)
NotLockedOnly(a, c) == contexts[c].lockedBy = NotLocked
Updatable(a, c) == contexts[c].lockedBy = NotLocked /\ contexts[c].version = Expected(a, c)

\* Also the agent that holds the lock is refused. What a read it replaces by its own result.
update(a, c) ==
  /\ Exists(c) /\ seen[a][c] # NoContext /\ Updatable(a, c)
  /\ contexts[c].version < MaxVersion
  /\ LET v == contexts[c].version + 1 IN
     /\ contexts' = [contexts EXCEPT ![c].version = v, ![c].data = seen[a][c].data \cup {<<a, v>>}]
     /\ accepted' = [accepted EXCEPT ![c] = @ \cup {<<a, v>>}]
  /\ updatedLive' = IF a \in Aliased THEN updatedLive \cup {c} ELSE updatedLive
  /\ Sees(a, c) /\ UNCHANGED <<made, recreated>>

lock(a, c) ==
  /\ Exists(c) /\ contexts[c].lockedBy = NotLocked
  /\ contexts' = [contexts EXCEPT ![c].lockedBy = a]
  /\ UNCHANGED <<seen, made, accepted, recreated, updatedLive>>
unlock(a, c) ==
  /\ Exists(c) /\ contexts[c].lockedBy = a
  /\ contexts' = [contexts EXCEPT ![c].lockedBy = NotLocked]
  /\ UNCHANGED <<seen, made, accepted, recreated, updatedLive>>

\* delete and clear: locked or not
Drops(gone) ==
  /\ \E c \in gone : Exists(c)
  /\ contexts' = [c \in ContextIds |-> IF c \in gone THEN NoContext ELSE contexts[c]]
  /\ recreated' = recreated \cup gone /\ UNCHANGED <<seen, made, accepted, updatedLive>>
delete(c) == Drops({c})
clear == Drops(ContextIds)

ContextNext ==
  \/ \E c \in ContextIds : create(c) \/ delete(c)
  \/ \E a \in ContextAgents, c \in ContextIds : get(a, c) \/ update(a, c) \/ lock(a, c) \/ unlock(a, c)
  \/ clear
-------------------------------------------------------------------------------
(* Properties *)

ContextTypeOK ==
  /\ contexts \in [ContextIds -> Context \cup {NoContext}] /\ made \in 0..MaxCreated
  /\ seen \in [ContextAgents -> [ContextIds -> Context \cup {NoContext}]]
  /\ accepted \in [ContextIds -> SUBSET Updates]
  /\ recreated \subseteq ContextIds /\ updatedLive \subseteq ContextIds

\* The contexts that were never deleted, and that only agents updated which copied the version
\* when they read; others may read them as they like.
CopiedOnly == ContextIds \ (recreated \cup updatedLive)

\* No update of such a context that was accepted is lost by a later one: whoever replaced the
\* data had read it with all of them, whatever locks were taken meanwhile.
NoLostUpdate == \A c \in CopiedOnly : Exists(c) => accepted[c] \subseteq contexts[c].data

\* The same of contexts that live objects were used for: get() returns the stored object,
\* whose version is the current one when it is passed on.
NoLostLiveUpdate ==
  \A c \in ContextIds \ recreated : Exists(c) => accepted[c] \subseteq contexts[c].data

\* The same of every context. A context created again starts at version 1 again, so the
\* code does not provide it.
NoLostUpdateEver == \A c \in ContextIds : Exists(c) => accepted[c] \subseteq contexts[c].data
===============================================================================
