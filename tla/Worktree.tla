------------------------------- MODULE Worktree -------------------------------
(***************************************************************************)
(* PersistentWorktreeState (sw4rm/worktree_policies.py): the worktree an   *)
(* agent is bound to, the temporary switch to another one and the          *)
(* threading.Timer that takes it back. The agent's thread calls the        *)
(* methods one at a time; a timer calls revert_to_home from its own        *)
(* thread, and there is no lock. A method is the sequence of its reads and *)
(* writes of shared attributes; each is one step.                          *)
(***************************************************************************)
EXTENDS Integers, Sequences, FiniteSets, SequencesExt

CONSTANTS
  Homes, Targets,  \* worktrees the agent binds to, and switches to
  MaxTimers,       \* bound: switches with a ttl
  MaxCrashes,      \* bound
  Faults,          \* whether policy hooks may raise and saves fail
  DuringTimer,     \* bound: the methods the agent calls while a timer is live
  NoTree, Main

Timers == 1..MaxTimers
Threads == Timers \cup {Main}
NoTimer == 0

ASSUME WorktreeAssumption ==
  /\ Homes \cap Targets = {} /\ NoTree \notin Homes \cup Targets /\ Main \notin Timers
  /\ MaxTimers \in Nat /\ MaxCrashes \in Nat /\ Faults \in BOOLEAN

VARIABLES
  binding,  \* _binding, the worktree or NoTree
  home,     \* _home_binding
  state,    \* _state
  timer,    \* _switch_timer
  disk,     \* the saved binding
  pending,  \* _pending_worktree_id
  clock,    \* each Timer object: "unused", "new", "armed", "cancelled", "fired"
  todo,     \* the rest of the method each thread is in
  held,     \* the binding each thread has read and not yet written
  freed,    \* history: unbind() or clear() has returned, and no bind() since
  raced,    \* history: a method other than the Calm ones was called while a timer was live
  crashes

vars == <<binding, home, state, timer, disk, pending, clock, todo, held, freed,
          raced, crashes>>

Init ==
  /\ binding = NoTree /\ home = NoTree /\ state = "UNBOUND" /\ timer = NoTimer
  /\ disk = NoTree /\ pending = NoTree /\ clock = [k \in Timers |-> "unused"]
  /\ todo = [t \in Threads |-> <<>>] /\ held = [t \in Threads |-> NoTree]
  /\ freed = FALSE /\ raced = FALSE /\ crashes = 0
-------------------------------------------------------------------------------
(* The methods *)

Save == <<"read binding", "write file">>
ClearTimer == <<"test timer", "cancel timer", "drop timer">>

Bind == <<"before bind", "set binding", "set home", "to home">> \o Save \o <<"after bind">>
Unbind == <<"before unbind">> \o ClearTimer
            \o <<"drop binding", "drop home", "to unbound">> \o Save \o <<"after unbind">>
\* (Mutant: the target is not remembered.)
RequestOnly == <<"if home", "to pending">>
RequestSwitch == <<"if home", "remember target", "to pending">>
SwitchAway == <<"if pending", "keep home", "bind target", "to away">>
StartTimer == <<"new timer", "start timer">>
\* (Mutant: the timer is started first, and clearing the old one clears it.)
ApproveClearingLast == SwitchAway \o Save \o StartTimer \o ClearTimer
ApproveSwitch == SwitchAway \o Save \o ClearTimer \o StartTimer
ApproveForever == SwitchAway \o Save \o ClearTimer  \* approve_switch(ttl_ms=0)
RejectSwitch == <<"if pending", "read home", "restore", "to home">> \o Save
\* (Mutant: the state is written before the binding.)
RevertStateFirst == ClearTimer
  \o <<"if away", "if has home", "to home", "read home", "write home">> \o Save
RevertToHome == ClearTimer
  \o <<"if away", "if has home", "read home", "write home", "to home">> \o Save
Clear == ClearTimer \o <<"drop binding", "drop home", "to unbound", "remove file">>

Methods == [bind |-> Bind, unbind |-> Unbind, request |-> RequestSwitch,
            approve |-> ApproveSwitch, forever |-> ApproveForever,
            reject |-> RejectSwitch, revert |-> RevertToHome, clear |-> Clear,
            switch |-> Unbind \o Bind]

\* The methods that only ask, and do nothing while the agent is away.
Calm == {"request", "approve", "forever", "reject"}
-------------------------------------------------------------------------------
(* Calls *)

TimerLive == \E k \in Timers : clock[k] = "armed" \/ todo[k] # <<>>

\* The agent's thread calls a method. unbind() of an unbound agent returns at once,
\* and switch() then only binds.
Call(m) ==
  /\ todo[Main] = <<>>
  /\ TimerLive => m \in DuringTimer
  /\ m = "approve" => \E k \in Timers : clock[k] = "unused"
  /\ m = "unbind" => binding # NoTree
  /\ todo' = [todo EXCEPT ![Main] = IF m = "switch" /\ binding = NoTree THEN Bind
                                    ELSE Methods[m]]
  /\ freed' = (freed /\ m \notin {"bind", "switch"})
  /\ raced' = (raced \/ (TimerLive /\ m \notin Calm))
  /\ UNCHANGED <<binding, home, state, timer, disk, pending, clock, held, crashes>>

\* The time to live has passed and the Timer was not cancelled.
Fire(k) ==
  /\ clock[k] = "armed"
  /\ clock' = [clock EXCEPT ![k] = "fired"]
  /\ todo' = [todo EXCEPT ![k] = RevertToHome]
  /\ UNCHANGED <<binding, home, state, timer, disk, pending, held, freed, raced, crashes>>

\* The process dies; a new one loads the saved binding and nothing else.
Crash ==
  /\ crashes < MaxCrashes /\ crashes' = crashes + 1
  /\ binding' = disk /\ home' = NoTree /\ state' = "UNBOUND" /\ timer' = NoTimer
  /\ pending' = NoTree
  /\ clock' = [k \in Timers |-> IF clock[k] = "unused" THEN "unused" ELSE "fired"]
  /\ todo' = [t \in Threads |-> <<>>] /\ held' = [t \in Threads |-> NoTree]
  /\ freed' = FALSE /\ raced' = FALSE
  /\ UNCHANGED disk
-------------------------------------------------------------------------------
(* Steps *)

At(t, op) == todo[t] # <<>> /\ Head(todo[t]) = op
Goto(t, rest) == todo' = [todo EXCEPT ![t] = rest]
Proceed(t) == Goto(t, Tail(todo[t]))
Return(t) == Goto(t, <<>>)

\* A hook of the policy agrees, refuses or raises.
Hook(t) ==
  \/ /\ At(t, "before bind") \/ At(t, "before unbind")
     /\ Proceed(t) \/ Return(t)
     /\ UNCHANGED <<state, freed>>
  \/ /\ At(t, "before bind") /\ Faults
     /\ Return(t) /\ state' = "BIND_FAILED" /\ UNCHANGED freed
  \/ /\ At(t, "after bind") /\ Return(t) /\ UNCHANGED freed
     /\ \/ UNCHANGED state
        \/ Faults /\ state' = "BIND_FAILED"
  \/ /\ At(t, "after unbind") /\ freed' = (Tail(todo[t]) = <<>>) /\ UNCHANGED state
     /\ \/ Proceed(t)
        \/ Faults /\ Return(t)

\* A read of _state, or of _home_binding, ends the method unless it has the value.
Passes(op) ==
  \/ op = "if home" /\ state = "BOUND_HOME"
  \/ op = "if away" /\ state = "BOUND_NON_HOME"
  \/ op = "if pending" /\ state = "SWITCH_PENDING"
  \/ op = "if has home" /\ home # NoTree

Test(t) ==
  /\ \E op \in {"if home", "if away", "if pending", "if has home"} :
       At(t, op) /\ IF Passes(op) THEN Proceed(t) ELSE Return(t)
  /\ UNCHANGED <<state, freed>>

SetState(t) ==
  /\ \/ At(t, "to home") /\ state' = "BOUND_HOME"
     \/ At(t, "to away") /\ state' = "BOUND_NON_HOME"
     \/ At(t, "to pending") /\ state' = "SWITCH_PENDING"
     \/ At(t, "to unbound") /\ state' = "UNBOUND"
  /\ Proceed(t)
  /\ UNCHANGED freed

Control(t) ==
  /\ Hook(t) \/ Test(t) \/ SetState(t)
  /\ UNCHANGED <<binding, home, timer, disk, pending, clock, held, raced, crashes>>

\* Writes of the two bindings. A write of the home re-reads it after the test for None.
SetBinding(t) ==
  /\ \/ At(t, "set binding") /\ binding' \in Homes /\ UNCHANGED <<home, pending, held>>
     \/ At(t, "set home") /\ home' = binding /\ UNCHANGED <<binding, pending, held>>
     \/ /\ At(t, "keep home") /\ home' = IF home = NoTree THEN binding ELSE home
        /\ UNCHANGED <<binding, pending, held>>
     \/ At(t, "remember target") /\ pending' \in Targets /\ UNCHANGED <<binding, home, held>>
     \/ At(t, "bind target") /\ binding' = pending /\ UNCHANGED <<home, pending, held>>
     \/ /\ At(t, "read home") /\ held' = [held EXCEPT ![t] = home]
        /\ UNCHANGED <<binding, home, pending>>
     \/ At(t, "write home") /\ binding' = held[t] /\ UNCHANGED <<home, pending, held>>
     \/ /\ At(t, "restore") /\ binding' = IF held[t] = NoTree THEN binding ELSE held[t]
        /\ UNCHANGED <<home, pending, held>>
     \/ At(t, "drop binding") /\ binding' = NoTree /\ UNCHANGED <<home, pending, held>>
     \/ At(t, "drop home") /\ home' = NoTree /\ UNCHANGED <<binding, pending, held>>
  /\ Proceed(t)
  /\ UNCHANGED <<state, timer, disk, clock, freed, raced, crashes>>

\* save_binding: the binding is read, then the file is replaced. A save that fails is
\* swallowed; two saves share one temporary file, so either may be lost or the file be
\* unreadable, which loads as no binding.
Saving(t) == At(t, "write file")
SaveOutcomes(t) ==
  {held[t]} \cup (IF Faults THEN {disk} ELSE {})
            \cup (IF \E u \in Threads \ {t} : Saving(u) THEN {disk, NoTree} ELSE {})

SaveStep(t) ==
  /\ \/ At(t, "read binding") /\ held' = [held EXCEPT ![t] = binding]
          /\ UNCHANGED <<disk, freed>>
     \/ Saving(t) /\ disk' \in SaveOutcomes(t) /\ UNCHANGED <<held, freed>>
     \/ At(t, "remove file") /\ disk' = NoTree /\ freed' = TRUE /\ UNCHANGED held
  /\ Proceed(t)
  /\ UNCHANGED <<binding, home, state, timer, pending, clock, raced, crashes>>

\* _clear_switch_timer; cancel() of a timer another thread has just dropped raises,
\* which ends the method (unbind catches it).
TimerStep(t) ==
  /\ \/ /\ At(t, "test timer") /\ UNCHANGED <<timer, clock>>
        /\ IF timer = NoTimer THEN Goto(t, SubSeq(todo[t], 4, Len(todo[t]))) ELSE Proceed(t)
     \/ /\ At(t, "cancel timer") /\ UNCHANGED timer
        /\ IF timer = NoTimer THEN Return(t) /\ UNCHANGED clock
           ELSE /\ clock' = [clock EXCEPT ![timer] = IF @ = "fired" THEN @ ELSE "cancelled"]
                /\ Proceed(t)
     \/ At(t, "drop timer") /\ timer' = NoTimer /\ Proceed(t) /\ UNCHANGED clock
     \/ /\ At(t, "new timer")
        /\ timer' = CHOOSE k \in Timers : clock[k] = "unused"
        /\ clock' = [clock EXCEPT ![timer'] = "new"] /\ Proceed(t)
     \/ /\ At(t, "start timer") /\ UNCHANGED timer
        /\ clock' = IF timer # NoTimer /\ clock[timer] = "new"
                    THEN [clock EXCEPT ![timer] = "armed"] ELSE clock
        /\ Proceed(t)
  /\ UNCHANGED <<binding, home, state, disk, pending, held, freed, raced, crashes>>

Step(t) == Control(t) \/ SetBinding(t) \/ SaveStep(t) \/ TimerStep(t)

Next ==
  \/ \E m \in DOMAIN Methods : Call(m)
  \/ \E k \in Timers : Fire(k)
  \/ \E t \in Threads : Step(t)
  \/ Crash

Spec == Init /\ [][Next]_vars

\* Threads run, and a Timer that is not cancelled expires.
FairSpec == /\ Spec /\ \A t \in Threads : WF_vars(Step(t))
            /\ \A k \in Timers : WF_vars(Fire(k))
-------------------------------------------------------------------------------
(* Properties *)

Trees == Homes \cup Targets \cup {NoTree}

\* Every variable has its type, a request that awaits approval has a target, and only a
\* timer that was created can be _switch_timer.
TypeOK ==
  /\ {binding, home, disk, pending} \subseteq Trees /\ held \in [Threads -> Trees]
  /\ state \in {"UNBOUND", "BOUND_HOME", "SWITCH_PENDING", "BOUND_NON_HOME", "BIND_FAILED"}
  /\ clock \in [Timers -> {"unused", "new", "armed", "cancelled", "fired"}]
  /\ timer \in Timers \cup {NoTimer} /\ crashes \in 0..MaxCrashes /\ {freed, raced} \subseteq BOOLEAN
  /\ \A t \in Threads : Len(todo[t]) <= Len(Unbind) + Len(Bind)
  /\ state = "SWITCH_PENDING" => pending # NoTree
  /\ timer # NoTimer => clock[timer] # "unused"

Quiet == \A t \in Threads : todo[t] = <<>>

\* The state machine of PersistentWorktreeState agrees with the bindings: away means bound
\* to the requested target with a home to return to, at home means bound to the home.
StateAgrees ==
  /\ state = "BOUND_NON_HOME" => binding = pending /\ home \in Homes
  /\ state \in {"BOUND_HOME", "SWITCH_PENDING"} => binding = home /\ home \in Homes

\* Between method calls it does, although the TTL timer reverts in its own thread, until
\* the agent binds, unbinds, clears or reverts while a timer is live. From there on it
\* may disagree for good (StateAlwaysMatches).
StateMatchesBinding == Quiet /\ ~raced => StateAgrees
StateAlwaysMatches == Quiet => StateAgrees

\* An armed TTL timer takes the agent back: it leaves the target, unless the process dies
\* or a method has raced with a timer (EveryTtlReverts).
TtlReverts ==
  \A k \in Timers, c \in 0..MaxCrashes :
    (clock[k] = "armed" /\ crashes = c) ~> (binding \notin Targets \/ crashes > c \/ raced)
EveryTtlReverts ==
  \A k \in Timers, c \in 0..MaxCrashes :
    (clock[k] = "armed" /\ crashes = c) ~> (binding \notin Targets \/ crashes > c)

\* The docstring's "Any -> UNBOUND (via unbind)": what unbind() or clear() freed stays
\* unbound until the next bind().
UnbindHolds == freed => binding = NoTree

\* The saved binding is the current one between calls.
DiskMatchesBinding == Quiet => disk = binding

\* An agent that is bound says so: a restored or failed binding has a state.
BoundHasState == Quiet /\ binding # NoTree => state \notin {"UNBOUND", "BIND_FAILED"}
===============================================================================
