----------------------------- MODULE ServicesProofs -----------------------------
(***************************************************************************)
(* The services that MCServices composes. First those of the hive: what    *)
(* the shutdown coordinator counts and cancels for any number of requests  *)
(* and signals, and what the registry and the scheduler confirmed, after   *)
(* any number of crashes and failed writes. Then the coordination services *)
(* and the example agents: handoffs, workflows, the negotiation room, the  *)
(* code review, the seed sessions and the claude process; and the services *)
(* together.                                                               *)
(***************************************************************************)
EXTENDS MCServices, FiniteSetTheorems, SequenceTheorems, TLAPS

(* Shutdown *)

Critical == {"set", "test", "count"}
AfterSet == {"wait", "test", "sleep", "late", "count", "stop", "grace"}

\* The frames of stop_server: at most one of them is inside the lock; those that went on have
\* set the flag, and those that stop the server have waited or timed out.
FramesAgree ==
  /\ \A d, e \in 1..Depth : frames[d] \in Critical /\ frames[e] \in Critical => d = e
  /\ \A d \in 1..Depth :
       /\ frames[d] \in AfterSet => draining
       /\ frames[d] \in {"late", "count"} => timedOut
       /\ frames[d] \in {"stop", "grace"} => timedOut \/ early \cap Running = {}

\* The RPCs of the drain's beginning run or are done, and none is cancelled before a drain.
DrainBegins ==
  /\ \A r \in early : req[r] \in {"running", "done"}
  /\ ~draining => aborted = {} /\ early = {}

ShutdownInv == ShutdownTypeOK /\ CountIsExact /\ EarlyNotAborted /\ FramesAgree /\ DrainBegins

\* To go on is to change the top frame only.
LEMMA GotoFrames ==
  ASSUME NEW pc \in FrameStates, frames \in Seq(FrameStates), frames # <<>>, Goto(pc)
  PROVE  /\ frames' \in Seq(FrameStates) /\ Depth' = Depth /\ Depth \in Nat \ {0}
         /\ frames'[Depth] = pc /\ \A d \in 1..Depth : d # Depth => frames'[d] = frames[d]
BY DEF Goto, Depth

\* To leave a frame is to go back to the ones below it.
LEMMA FrontShorter ==
  ASSUME NEW S, NEW s \in Seq(S), s # <<>>
  PROVE  /\ Front(s) \in Seq(S) /\ Len(Front(s)) = Len(s) - 1
         /\ \A d \in 1..Len(Front(s)) : Front(s)[d] = s[d]
<1>1. PICK n \in Int : n = Len(s) - 1
  OBVIOUS
<1>2. n >= 0 /\ \A i \in 1..n : s[i] \in S
  BY <1>1
<1>3. /\ SubSeq(s, 1, n) \in Seq(S) /\ Len(SubSeq(s, 1, n)) = (IF 1 <= n THEN n - 1 + 1 ELSE 0)
      /\ \A i \in 1..(n - 1 + 1) : SubSeq(s, 1, n)[i] = s[i + 1 - 1]
  BY <1>2, SubSeqProperties
<1>4. Front(s) = SubSeq(s, 1, n)
  BY <1>1 DEF Front
<1> HIDE <1>1
<1>5. Len(Front(s)) = n /\ \A i \in 1..n : Front(s)[i] = s[i]
  BY <1>2, <1>3, <1>4
<1> QED BY <1>1, <1>3, <1>4, <1>5

\* A counter over a finite set of requests, of which one enters or leaves.
LEMMA RunningFinite == IsFiniteSet(Running) /\ Cardinality(Running) \in Nat
<1>1. Running \in SUBSET Requests
  BY DEF Running
<1> QED BY <1>1, ShutdownAssumption, FS_Subset, FS_CardinalityType

\* Nothing runs and nothing drains when the server starts.
LEMMA InitShutdownInv == ShutdownInit => ShutdownInv
<1> SUFFICES ASSUME ShutdownInit PROVE ShutdownInv
  OBVIOUS
<1> USE DEF ShutdownInit
<1>0. Depth = 0 /\ frames \in Seq(FrameStates)
  BY DEF Depth
<1>1. ShutdownTypeOK
  <2>1. ~\E d \in 1..Depth : frames[d] \in Critical
    BY <1>0
  <2>2. lock = Main <=> \E d \in 1..Depth : frames[d] \in {"set", "test", "count"}
    BY <2>1, ShutdownAssumption DEF Critical
  <2>3. req \in [Requests -> ReqStates]
    BY DEF ReqStates
  <2>4. expired \subseteq 1..Depth /\ signals \in 0..MaxSignals /\ lock \in {Free, Main}
    BY ShutdownAssumption
  <2>5. /\ draining \in BOOLEAN /\ timedOut \in BOOLEAN /\ active \in Nat
        /\ server \in {"serving", "stopping", "stopped"}
        /\ aborted \subseteq Requests /\ early \subseteq Requests
    OBVIOUS
  <2> HIDE DEF ShutdownInit
  <2> QED BY <1>0, <2>2, <2>3, <2>4, <2>5 DEF ShutdownTypeOK
<1>2. Running = {}
  BY DEF Running
<1>3. CountIsExact
  BY <1>2, FS_EmptySet DEF CountIsExact
<1>4. EarlyNotAborted /\ FramesAgree /\ DrainBegins
  BY DEF EarlyNotAborted, FramesAgree, DrainBegins, Depth
<1> QED BY <1>1, <1>3, <1>4 DEF ShutdownInv

\* A worker's steps keep the invariant: the count follows the set.
LEMMA WorkersKeepInv ==
  ASSUME ShutdownInv, NEW r \in Requests, Check(r) \/ Track(r) \/ Untrack(r)
  PROVE  ShutdownInv'
<1> USE DEF ShutdownInv
<1>1. req' \in [Requests -> ReqStates] /\ active' \in Nat
  BY DEF Check, Track, Untrack, OneLess, ShutdownTypeOK, ReqStates
<1>2. ShutdownTypeOK'
  BY <1>1 DEF Check, Track, Untrack, ShutdownTypeOK, Depth
<1>3. CountIsExact'
  <2>1. CASE Check(r)
    <3>1. Running' = Running
      BY <2>1 DEF Check, Running, ShutdownTypeOK
    <3> QED BY <2>1, <3>1 DEF CountIsExact, Check
  <2>2. CASE Track(r)
    <3>1. Running' = Running \cup {r} /\ r \notin Running
      BY <2>2 DEF Track, Running, ShutdownTypeOK
    <3> QED BY <2>2, <3>1, RunningFinite, FS_AddElement DEF CountIsExact, Track
  <2>3. CASE Untrack(r)
    <3>1. Running' = Running \ {r} /\ r \in Running
      BY <2>3 DEF Untrack, Running, ShutdownTypeOK
    <3>2. Cardinality(Running) > 0
      BY <3>1, RunningFinite, FS_EmptySet
    <3> QED BY <2>3, <3>1, <3>2, RunningFinite, FS_RemoveElement DEF CountIsExact, Untrack, OneLess
  <2> QED BY <2>1, <2>2, <2>3
<1>4. EarlyNotAborted'
  BY DEF EarlyNotAborted, Check, Track, Untrack
<1>5. early \cap Running' \subseteq early \cap Running
  BY DEF DrainBegins, Running, Check, Track, Untrack, ShutdownTypeOK
<1>6. FramesAgree'
  BY <1>5 DEF FramesAgree, Check, Track, Untrack, Depth
<1>7. DrainBegins'
  BY DEF DrainBegins, Check, Track, Untrack, ShutdownTypeOK
<1> QED BY <1>2, <1>3, <1>4, <1>6, <1>7

\* What leaves the requests alone leaves the count alone.
LEMMA CountKept == CountIsExact /\ UNCHANGED <<active, req>> => CountIsExact'
BY DEF CountIsExact, Running

\* A signal puts a frame on top, which has not taken the lock.
LEMMA SignalKeepsInv == ShutdownInv /\ Signal => ShutdownInv'
<1> SUFFICES ASSUME ShutdownInv, Signal PROVE ShutdownInv'
  OBVIOUS
<1> USE DEF ShutdownInv
<1>1. /\ frames' \in Seq(FrameStates) /\ Depth \in Nat /\ Depth' = Depth + 1
      /\ frames'[Depth + 1] = "request" /\ \A d \in 1..Depth : frames'[d] = frames[d]
  BY DEF Signal, ShutdownTypeOK, FrameStates, Depth
<1>2. ShutdownTypeOK'
  <2>1. (\E d \in 1..Depth : frames[d] \in {"set", "test", "count"})
        <=> (\E d \in 1..Depth' : frames'[d] \in {"set", "test", "count"})
    <3>1. \A d \in 1..Depth' : d \in 1..Depth \/ d = Depth + 1
      BY <1>1
    <3>2. 1..Depth \subseteq 1..Depth'
      BY <1>1
    <3> QED BY <1>1, <3>1, <3>2
  <2>2. expired' \subseteq 1..Depth' /\ signals' \in 0..MaxSignals
    BY <1>1, ShutdownAssumption DEF ShutdownTypeOK, Signal
  <2> QED BY <1>1, <2>1, <2>2 DEF ShutdownTypeOK, Signal
<1>3. FramesAgree'
  <2>1. \A d \in 1..Depth' : d \in 1..Depth \/ d = Depth + 1
    BY <1>1
  <2>2. UNCHANGED <<draining, timedOut, early, Running>>
    BY DEF Signal, Running
  <2> QED BY <1>1, <2>1, <2>2 DEF FramesAgree, Critical, AfterSet
<1>4. DrainBegins' /\ EarlyNotAborted'
  BY DEF DrainBegins, EarlyNotAborted, Signal
<1> QED BY <1>2, <1>3, <1>4, CountKept DEF Signal

\* A frame goes on.
LEMMA StopKeepsInv == ShutdownInv /\ Stop => ShutdownInv'
<1> SUFFICES ASSUME ShutdownInv, Stop PROVE ShutdownInv'
  OBVIOUS
<1> USE DEF ShutdownInv
<1>1. CASE Acquire
  <2>0. PICK pc \in {"set", "test", "count"} :
          /\ Goto(pc) /\ (pc # "set" => frames[Depth] \in {"wait", "sleep", "late"})
          /\ (pc = "count" => frames[Depth] = "late")
    BY <1>1 DEF Acquire, Top, Last, Depth
  <2>1. lock = Free /\ lock' = Main /\ frames # <<>> /\ UNCHANGED <<draining, active, expired,
          server, req, aborted, early, timedOut, signals, Running>>
    BY <1>1 DEF Acquire, Running
  <2>2. pc \in FrameStates /\ frames \in Seq(FrameStates)
    BY DEF FrameStates, ShutdownTypeOK
  <2>3. /\ frames' \in Seq(FrameStates) /\ Depth' = Depth /\ Depth \in Nat \ {0}
        /\ frames'[Depth] = pc /\ \A d \in 1..Depth : d # Depth => frames'[d] = frames[d]
    BY <2>0, <2>1, <2>2, GotoFrames
  <2>4. \A d \in 1..Depth : frames[d] \notin {"set", "test", "count"}
    BY <2>1, ShutdownAssumption DEF ShutdownTypeOK
  <2>5. ShutdownTypeOK'
    BY <2>0, <2>1, <2>3 DEF ShutdownTypeOK
  <2>6. FramesAgree'
    BY <2>0, <2>1, <2>3, <2>4 DEF FramesAgree, Critical, AfterSet
  <2>7. DrainBegins' /\ EarlyNotAborted'
    BY <2>1 DEF DrainBegins, EarlyNotAborted
  <2> QED BY <2>1, <2>5, <2>6, <2>7, CountKept
<1>2. CASE SetDraining
  <2>1. /\ frames # <<>> /\ frames[Depth] = "set" /\ Goto("wait") /\ draining' = TRUE
        /\ early' = (IF draining THEN early ELSE Running) /\ lock' = Free
        /\ UNCHANGED <<active, expired, server, req, aborted, timedOut, signals, Running>>
    BY <1>2 DEF SetDraining, Running, Top, Last, Depth
  <2>2. "wait" \in FrameStates /\ frames \in Seq(FrameStates)
    BY DEF FrameStates, ShutdownTypeOK
  <2>3. /\ frames' \in Seq(FrameStates) /\ Depth' = Depth /\ Depth \in Nat \ {0}
        /\ frames'[Depth] = "wait" /\ \A d \in 1..Depth : d # Depth => frames'[d] = frames[d]
    BY <2>1, <2>2, GotoFrames
  <2>4. \A d \in 1..Depth : d # Depth => frames[d] \notin {"set", "test", "count"}
    BY <2>1, <2>3 DEF FramesAgree, Critical
  <2>5. early' \subseteq Requests
    BY <2>1 DEF ShutdownTypeOK, Running
  <2>6. ShutdownTypeOK'
    BY <2>1, <2>3, <2>4, <2>5, ShutdownAssumption DEF ShutdownTypeOK
  <2>7. ~draining => \A d \in 1..Depth : frames[d] \notin AfterSet
    BY DEF FramesAgree
  <2>8. FramesAgree'
    BY <2>1, <2>3, <2>4, <2>7 DEF FramesAgree, Critical, AfterSet
  <2>9. DrainBegins' /\ EarlyNotAborted'
    BY <2>1 DEF DrainBegins, EarlyNotAborted, Running
  <2> QED BY <2>1, <2>6, <2>8, <2>9, CountKept
<1>3. CASE TestInflight
  <2>0. PICK pc \in {"stop", "late", "sleep"} :
          /\ Goto(pc)
          /\ \/ pc = "stop" /\ active = 0 /\ timedOut' = timedOut
             \/ pc = "late" /\ timedOut' = TRUE
             \/ pc = "sleep" /\ timedOut' = timedOut
    BY <1>3 DEF TestInflight, Idle
  <2>1. /\ frames # <<>> /\ frames[Depth] = "test" /\ lock' = Free
        /\ UNCHANGED <<draining, active, expired, server, req, aborted, early, signals, Running>>
    BY <1>3 DEF TestInflight, Running, Top, Last, Depth
  <2>2. pc \in FrameStates /\ frames \in Seq(FrameStates)
    BY DEF FrameStates, ShutdownTypeOK
  <2>3. /\ frames' \in Seq(FrameStates) /\ Depth' = Depth /\ Depth \in Nat \ {0}
        /\ frames'[Depth] = pc /\ \A d \in 1..Depth : d # Depth => frames'[d] = frames[d]
    BY <2>0, <2>1, <2>2, GotoFrames
  <2>4. \A d \in 1..Depth : d # Depth => frames[d] \notin {"set", "test", "count"}
    BY <2>1, <2>3 DEF FramesAgree, Critical
  <2>5. pc = "stop" => Running = {}
    BY <2>0, RunningFinite, FS_EmptySet DEF CountIsExact
  <2>6. ShutdownTypeOK'
    BY <2>0, <2>1, <2>3, <2>4, ShutdownAssumption DEF ShutdownTypeOK
  <2>7. draining
    BY <2>1, <2>3 DEF FramesAgree, AfterSet
  <2>8. FramesAgree'
    BY <2>0, <2>1, <2>3, <2>4, <2>5, <2>7 DEF FramesAgree, Critical, AfterSet
  <2>9. DrainBegins' /\ EarlyNotAborted'
    BY <2>0, <2>1 DEF DrainBegins, EarlyNotAborted
  <2> QED BY <2>1, <2>6, <2>8, <2>9, CountKept
<1>4. CASE CountLate
  <2>1. /\ frames # <<>> /\ frames[Depth] = "count" /\ lock' = Free /\ Goto("stop")
        /\ UNCHANGED <<draining, active, expired, server, req, aborted, early, timedOut, signals, Running>>
    BY <1>4 DEF CountLate, Running, Top, Last, Depth
  <2>2. "stop" \in FrameStates /\ frames \in Seq(FrameStates)
    BY DEF FrameStates, ShutdownTypeOK
  <2>3. /\ frames' \in Seq(FrameStates) /\ Depth' = Depth /\ Depth \in Nat \ {0}
        /\ frames'[Depth] = "stop" /\ \A d \in 1..Depth : d # Depth => frames'[d] = frames[d]
    BY <2>1, <2>2, GotoFrames
  <2>4. \A d \in 1..Depth : d # Depth => frames[d] \notin {"set", "test", "count"}
    BY <2>1, <2>3 DEF FramesAgree, Critical
  <2>5. ShutdownTypeOK'
    BY <2>1, <2>3, <2>4, ShutdownAssumption DEF ShutdownTypeOK
  <2>6. FramesAgree'
    BY <2>1, <2>3, <2>4 DEF FramesAgree, Critical, AfterSet
  <2>7. DrainBegins' /\ EarlyNotAborted'
    BY <2>1 DEF DrainBegins, EarlyNotAborted
  <2> QED BY <2>1, <2>5, <2>6, <2>7, CountKept
<1>5. CASE StopServer
  <2>1. /\ frames # <<>> /\ frames[Depth] = "stop" /\ Goto("grace")
        /\ server' \in {"serving", "stopping", "stopped"}
        /\ UNCHANGED <<draining, active, lock, expired, req, aborted, early, timedOut, signals, Running>>
    BY <1>5 DEF StopServer, Running, ShutdownTypeOK, Top, Last, Depth
  <2>2. "grace" \in FrameStates /\ frames \in Seq(FrameStates)
    BY DEF FrameStates, ShutdownTypeOK
  <2>3. /\ frames' \in Seq(FrameStates) /\ Depth' = Depth /\ Depth \in Nat \ {0}
        /\ frames'[Depth] = "grace" /\ \A d \in 1..Depth : d # Depth => frames'[d] = frames[d]
    BY <2>1, <2>2, GotoFrames
  <2>4. ShutdownTypeOK'
    BY <2>1, <2>3 DEF ShutdownTypeOK
  <2>5. FramesAgree'
    BY <2>1, <2>3 DEF FramesAgree, Critical, AfterSet
  <2>6. DrainBegins' /\ EarlyNotAborted'
    BY <2>1 DEF DrainBegins, EarlyNotAborted
  <2> QED BY <2>1, <2>4, <2>5, <2>6, CountKept
<1>6. CASE GraceEnds
  <2>1. /\ frames # <<>> /\ frames[Depth] = "grace" /\ frames' = Front(frames)
        /\ server' = "stopped" /\ aborted' = (IF server = "stopping" THEN Unfinished ELSE aborted)
        /\ expired' = expired \ {Depth}
        /\ UNCHANGED <<draining, active, lock, req, early, timedOut, signals, Running>>
    BY <1>6 DEF GraceEnds, Running, Top, Last, Depth
  <2>2. Depth \in Nat \ {0} /\ frames \in Seq(FrameStates)
    BY <2>1 DEF ShutdownTypeOK, Depth
  <2>3. /\ frames' \in Seq(FrameStates) /\ Depth' = Depth - 1
        /\ \A d \in 1..Depth' : frames'[d] = frames[d]
    BY <2>1, <2>2, FrontShorter DEF Depth
  <2>4. \A d \in 1..Depth : d \in 1..Depth' \/ d = Depth
    BY <2>2, <2>3
  <2>5. 1..Depth' \subseteq 1..Depth
    BY <2>2, <2>3
  <2>6. expired' \subseteq 1..Depth' /\ aborted' \subseteq Requests
    BY <2>1, <2>4 DEF ShutdownTypeOK, Unfinished
  <2>7. ShutdownTypeOK'
    BY <2>1, <2>3, <2>4, <2>5, <2>6 DEF ShutdownTypeOK
  <2>8. FramesAgree'
    BY <2>1, <2>3, <2>5 DEF FramesAgree
  <2>9. draining /\ (timedOut \/ early \cap Running = {})
    BY <2>1, <2>2 DEF FramesAgree, AfterSet
  <2>10. EarlyNotAborted'
    BY <2>1, <2>9 DEF EarlyNotAborted, DrainBegins, Unfinished, Running
  <2>11. DrainBegins'
    BY <2>1, <2>9 DEF DrainBegins
  <2> QED BY <2>1, <2>7, <2>8, <2>10, <2>11, CountKept
<1> QED BY <1>1, <1>2, <1>3, <1>4, <1>5, <1>6 DEF Stop

\* The time of a wait is up; or nothing moves any more.
LEMMA OthersKeepInv ==
  ASSUME ShutdownInv, (\E d \in 1..MaxSignals : Expire(d)) \/ UNCHANGED shutdownVars
  PROVE  ShutdownInv'
<1> USE DEF ShutdownInv
<1>1. /\ expired' \subseteq 1..Depth
      /\ UNCHANGED <<draining, active, lock, frames, server, req, aborted, early, timedOut, signals>>
  BY DEF Expire, shutdownVars, ShutdownTypeOK
<1>2. UNCHANGED Running /\ UNCHANGED Depth
  BY <1>1 DEF Running, Depth
<1>3. ShutdownTypeOK'
  BY <1>1, <1>2 DEF ShutdownTypeOK
<1>4. FramesAgree' /\ DrainBegins' /\ EarlyNotAborted'
  BY <1>1, <1>2 DEF FramesAgree, DrainBegins, EarlyNotAborted
<1> QED BY <1>1, <1>3, <1>4, CountKept

\* The coordinator counts the RPCs that are inside track_request, whatever the order of its
\* threads and however many signals interrupt its handler; and of those that were inside when
\* the drain began it cancels none before its time-out. An RPC that had passed its check of
\* is_draining and was not yet inside is not counted and may be cancelled.
THEOREM Drains == ShutdownSpec => [](ShutdownTypeOK /\ DrainIsSound)
<1>1. ShutdownInv /\ [ShutdownNext]_shutdownVars => ShutdownInv'
  BY WorkersKeepInv, SignalKeepsInv, StopKeepsInv, OthersKeepInv DEF ShutdownNext, Exited
<1>2. ShutdownInv => ShutdownTypeOK /\ DrainIsSound
  BY DEF ShutdownInv, DrainIsSound
<1> QED BY InitShutdownInv, <1>1, <1>2, PTL DEF ShutdownSpec
-------------------------------------------------------------------------------
(* Registry *)

\* An agent that left has no row either.
LeftHasNoRow == \A a \in left : beats[a] = NoBeat /\ rows[a] = NoBeat

\* A confirmed sign of life is not in the future, and no registration that waits for the lock
\* has read an older time.
WaitingIsNewer ==
  /\ \A a \in Agents : answered[a] # NoBeat => answered[a] <= clock
  /\ \A t \in RegistryThreads, a \in Agents :
       /\ registering[t] # NoCall /\ registering[t].agent = a /\ answered[a] # NoBeat
       => answered[a] <= registering[t].now

RegistryInv == RegistryTypeOK /\ LeftHasNoRow /\ HeartbeatSurvives /\ WaitingIsNewer

Registrations == [agent : Agents, now : 0..clock] \cup {NoCall}

\* Forgetting some agents keeps the type.
LEMMA ForgottenType ==
  ASSUME NEW f \in Beats, NEW gone
  PROVE  /\ Forgotten(f, gone) \in Beats
         /\ \A a \in Agents : Forgotten(f, gone)[a] = IF a \in gone THEN NoBeat ELSE f[a]
BY DEF Forgotten, Beats

\* The registry starts without members.
LEMMA InitRegistryInv == RegistryInit => RegistryInv
<1> SUFFICES ASSUME RegistryInit PROVE RegistryInv
  OBVIOUS
<1>1. beats \in Beats /\ rows = beats /\ answered = beats /\ \A a \in Agents : beats[a] = NoBeat
  BY DEF RegistryInit, Beats
<1>2. /\ sweepTime \in 0..clock /\ clock \in 0..MaxTime
      /\ registryCrashes \in 0..MaxRegistryCrashes /\ storeFaults \in 0..MaxStoreFaults
  BY RegistryAssumption DEF RegistryInit
<1>3. RegistryTypeOK
  BY <1>1, <1>2 DEF RegistryInit, RegistryTypeOK
<1> QED BY <1>1, <1>3
  DEF RegistryInit, RegistryInv, LeftHasNoRow, HeartbeatSurvives, WaitingIsNewer

\* What is confirmed is no newer than the call and the calls that still wait for the lock.
LEMMA Confirmed ==
  ASSUME NEW a \in Agents, NEW now \in 0..clock, clock \in 0..MaxTime, answered \in Beats,
         Confirms(a, now), registering' \in [RegistryThreads -> Registrations]
  PROVE  \E oldest \in 0..clock :
           /\ oldest <= now /\ answered' = [answered EXCEPT ![a] = oldest]
           /\ \A t \in RegistryThreads : registering'[t] # NoCall /\ registering'[t].agent = a
                                         => oldest <= registering'[t].now
<1>1. UnderWay'[a] = {registering'[t].now : t \in {u \in RegistryThreads :
                        registering'[u] # NoCall /\ registering'[u].agent = a}}
  BY DEF UnderWay
<1>2. PICK oldest \in {now} \cup UnderWay'[a] :
        /\ \A reading \in {now} \cup UnderWay'[a] : oldest <= reading
        /\ answered' = [answered EXCEPT ![a] = oldest]
  BY DEF Confirms
<1>3. UnderWay'[a] \subseteq 0..clock
  BY <1>1 DEF Registrations
<1>4. ASSUME NEW t \in RegistryThreads, registering'[t] # NoCall, registering'[t].agent = a
      PROVE  registering'[t].now \in UnderWay'[a]
  BY <1>1, <1>4
<1> QED BY <1>2, <1>3, <1>4

\* A reading of the clock is the time of a heartbeat.
LEMMA BeatType ==
  ASSUME NEW f \in Beats, NEW a \in Agents, NEW now \in 0..clock, clock \in 0..MaxTime
  PROVE  [f EXCEPT ![a] = now] \in Beats
<1>1. now \in 0..MaxTime \cup {NoBeat}
  BY RegistryAssumption
<1> QED BY <1>1 DEF Beats

\* The type follows from what a handler writes; the cleaner is not disturbed.
LEMMA HandlerTypes ==
  ASSUME RegistryTypeOK, CleanerIdle, beats' \in Beats, rows' \in Beats, answered' \in Beats,
         left' \subseteq Agents, storeFaults' \in 0..MaxStoreFaults,
         registering' \in [RegistryThreads -> Registrations]
  PROVE  RegistryTypeOK'
<1>1. registering' \in [RegistryThreads -> [agent : Agents, now : 0..clock'] \cup {NoCall}]
  BY DEF CleanerIdle, Registrations
<1>2. /\ UNCHANGED <<cleaner, sweepTime, timeout, clock, isDraining, registryCrashes>>
      /\ {beats', rows', answered'} \subseteq Beats
  BY DEF CleanerIdle
<1> HIDE DEF Beats
<1>3. Beats' = Beats
  BY DEF Beats
<1> QED BY <1>1, <1>2, <1>3 DEF RegistryTypeOK

\* RegisterAgent reads the clock; others may have the lock before it.
LEMMA CallKeepsRegistry ==
  ASSUME RegistryInv, NEW t \in RegistryThreads, NEW a \in Agents, CallsRegister(t, a)
  PROVE  RegistryInv'
<1> USE DEF RegistryInv, CleanerIdle
<1>1. /\ registering \in [RegistryThreads -> Registrations] /\ answered \in Beats
      /\ clock \in 0..MaxTime
  BY DEF RegistryTypeOK, Registrations
<1>2. /\ registering' = [registering EXCEPT ![t] = [agent |-> a, now |-> clock]]
      /\ UNCHANGED <<beats, rows, answered, left, storeFaults, clock>> /\ CleanerIdle
  BY DEF CallsRegister
<1>3. registering' \in [RegistryThreads -> Registrations]
  BY <1>1, <1>2 DEF Registrations
<1>4. RegistryTypeOK'
  BY <1>2, <1>3 DEF RegistryTypeOK, Registrations
<1>5. LeftHasNoRow' /\ HeartbeatSurvives'
  BY <1>2 DEF LeftHasNoRow, HeartbeatSurvives
<1>6. [agent |-> a, now |-> clock].agent = a /\ [agent |-> a, now |-> clock].now = clock
  OBVIOUS
<1>7. WaitingIsNewer'
  BY <1>1, <1>2, <1>6 DEF WaitingIsNewer
<1> QED BY <1>4, <1>5, <1>7

\* RegisterAgent, once it has the lock: it writes the time it read before.
LEMMA RegisterKeepsRegistry ==
  ASSUME RegistryInv, NEW t \in RegistryThreads, RegisterAgent(t)
  PROVE  RegistryInv'
<1> DEFINE a == registering[t].agent
           now == registering[t].now
<1> USE DEF RegistryInv, StoreRaises, CleanerIdle
<1>1. /\ registering \in [RegistryThreads -> Registrations] /\ answered \in Beats
      /\ beats \in Beats /\ rows \in Beats /\ clock \in 0..MaxTime
  BY DEF RegistryTypeOK, Registrations
<1>2. registering[t] # NoCall /\ a \in Agents /\ now \in 0..clock
  BY <1>1 DEF RegisterAgent, Registrations
<1>3. /\ registering' = [registering EXCEPT ![t] = NoCall] /\ CleanerIdle
      /\ beats' = [beats EXCEPT ![a] = now] /\ left' = left \ {a} /\ UNCHANGED clock
      /\ \/ rows' = [rows EXCEPT ![a] = now] /\ Confirms(a, now) /\ UNCHANGED storeFaults
         \/ StoreRaises /\ UNCHANGED <<rows, answered>>
  BY DEF RegisterAgent
<1>4. registering' \in [RegistryThreads -> Registrations]
  BY <1>1, <1>3 DEF Registrations
<1>5. storeFaults' \in 0..MaxStoreFaults
  BY <1>3, RegistryAssumption DEF RegistryTypeOK
<1> HIDE DEF a, now
<1>6. CASE Confirms(a, now) /\ rows' = [rows EXCEPT ![a] = now]
  <2>1. PICK oldest \in 0..clock :
          /\ oldest <= now /\ answered' = [answered EXCEPT ![a] = oldest]
          /\ \A u \in RegistryThreads : registering'[u] # NoCall /\ registering'[u].agent = a
                                        => oldest <= registering'[u].now
    BY <1>1, <1>2, <1>4, <1>6, Confirmed
  <2>2. RegistryTypeOK'
    <3>1. beats' \in Beats /\ rows' \in Beats /\ answered' \in Beats
      BY <1>1, <1>2, <1>3, <1>6, <2>1, BeatType
    <3> QED BY <1>3, <1>4, <1>5, <3>1, HandlerTypes DEF RegistryTypeOK
  <2>3. LeftHasNoRow'
    BY <1>1, <1>2, <1>3, <1>6 DEF LeftHasNoRow, Beats, RegistryTypeOK
  <2>4. HeartbeatSurvives'
    BY <1>1, <1>2, <1>6, <2>1, RegistryAssumption DEF HeartbeatSurvives, Beats
  <2>5. WaitingIsNewer'
    BY <1>1, <1>3, <2>1 DEF WaitingIsNewer, Beats
  <2> QED BY <2>2, <2>3, <2>4, <2>5
<1>7. CASE UNCHANGED <<rows, answered>>
  <2>1. RegistryTypeOK'
    <3>1. beats' \in Beats /\ rows' \in Beats /\ answered' \in Beats
      BY <1>1, <1>2, <1>3, <1>7, BeatType
    <3> QED BY <1>3, <1>4, <1>5, <3>1, HandlerTypes DEF RegistryTypeOK
  <2>2. LeftHasNoRow' /\ HeartbeatSurvives'
    BY <1>1, <1>2, <1>3, <1>7 DEF LeftHasNoRow, HeartbeatSurvives, Beats, RegistryTypeOK
  <2>3. WaitingIsNewer'
    BY <1>1, <1>3, <1>7 DEF WaitingIsNewer
  <2> QED BY <2>1, <2>2, <2>3
<1> QED BY <1>3, <1>6, <1>7

\* A handler that reads the clock under the lock keeps the invariant, also when the store raises.
LEMMA HandlersKeepRegistry ==
  ASSUME RegistryInv, NEW a \in Agents, Heartbeat(a) \/ DeregisterAgent(a)
  PROVE  RegistryInv'
<1> USE DEF RegistryInv, StoreRaises, CleanerIdle
<1>1. /\ beats \in Beats /\ rows \in Beats /\ answered \in Beats /\ clock \in 0..MaxTime
      /\ registering \in [RegistryThreads -> Registrations]
  BY DEF RegistryTypeOK, Registrations
<1>2. /\ storeFaults' \in 0..MaxStoreFaults
      /\ UNCHANGED <<registering, clock>> /\ a \in Members /\ CleanerIdle
  BY RegistryAssumption DEF RegistryTypeOK, Heartbeat, DeregisterAgent
<1>3. CASE Heartbeat(a) /\ Confirms(a, clock) /\ rows' = [rows EXCEPT ![a] = clock]
  <2>1. PICK oldest \in 0..clock :
          /\ oldest <= clock /\ answered' = [answered EXCEPT ![a] = oldest]
          /\ \A u \in RegistryThreads : registering'[u] # NoCall /\ registering'[u].agent = a
                                        => oldest <= registering'[u].now
    BY <1>1, <1>2, <1>3, Confirmed
  <2>2. beats' = [beats EXCEPT ![a] = clock] /\ UNCHANGED left
    BY <1>3 DEF Heartbeat
  <2>3. RegistryTypeOK'
    <3>1. beats' \in Beats /\ rows' \in Beats /\ answered' \in Beats
      <4>1. clock \in 0..clock
        BY <1>1
      <4> QED BY <1>1, <1>3, <2>1, <2>2, <4>1, BeatType
    <3> QED BY <1>1, <1>2, <2>2, <3>1, HandlerTypes DEF RegistryTypeOK
  <2>4. LeftHasNoRow'
    BY <1>2, <1>3, <2>2 DEF LeftHasNoRow, Beats, RegistryTypeOK, Members
  <2>5. HeartbeatSurvives'
    BY <1>1, <1>2, <1>3, <2>1, RegistryAssumption DEF HeartbeatSurvives, Beats
  <2>6. WaitingIsNewer'
    BY <1>1, <1>2, <2>1 DEF WaitingIsNewer, Beats
  <2> QED BY <2>3, <2>4, <2>5, <2>6
<1>4. CASE Heartbeat(a) /\ UNCHANGED <<rows, answered>>
  <2>1. beats' = [beats EXCEPT ![a] = clock] /\ UNCHANGED left
    BY <1>4 DEF Heartbeat
  <2>2. RegistryTypeOK'
    BY <1>1, <1>2, <1>4, <2>1 DEF RegistryTypeOK, Registrations, Beats
  <2>3. LeftHasNoRow' /\ HeartbeatSurvives' /\ WaitingIsNewer'
    BY <1>1, <1>2, <1>4, <2>1
    DEF LeftHasNoRow, HeartbeatSurvives, WaitingIsNewer, Beats, RegistryTypeOK, Members
  <2> QED BY <2>2, <2>3
<1>5. CASE DeregisterAgent(a)
  <2>1. RegistryTypeOK'
    BY <1>1, <1>2, <1>5 DEF RegistryTypeOK, DeregisterAgent, Registrations, Beats
  <2>2. LeftHasNoRow' /\ HeartbeatSurvives' /\ WaitingIsNewer'
    BY <1>1, <1>2, <1>5
    DEF RegistryTypeOK, DeregisterAgent, LeftHasNoRow, HeartbeatSurvives, WaitingIsNewer, Beats
  <2> QED BY <2>1, <2>2
<1> QED BY <1>3, <1>4, <1>5 DEF Heartbeat

\* A sweep that goes through, or is cut off between two agents, keeps the invariant.
LEMMA SweepKeepsRegistry == RegistryInv /\ (Sweep \/ SweepInterrupted) => RegistryInv'
<1> SUFFICES ASSUME RegistryInv, Sweep \/ SweepInterrupted PROVE RegistryInv'
  OBVIOUS
<1>1. PICK gone \in SUBSET Agents, erased \in SUBSET Agents :
        /\ erased \subseteq gone
        /\ beats' = Forgotten(beats, gone) /\ rows' = Forgotten(rows, erased)
        /\ answered' = Forgotten(answered, gone)
  BY DEF Sweep, SweepInterrupted, SweepFails, Expired, Members
<1>2. beats \in Beats /\ rows \in Beats /\ answered \in Beats
  BY DEF RegistryInv, RegistryTypeOK
<1>3. /\ \A a \in Agents : beats'[a] = IF a \in gone THEN NoBeat ELSE beats[a]
      /\ \A a \in Agents : rows'[a] = IF a \in erased THEN NoBeat ELSE rows[a]
      /\ \A a \in Agents : answered'[a] = IF a \in gone THEN NoBeat ELSE answered[a]
      /\ {beats', rows', answered'} \subseteq Beats
  BY <1>1, <1>2, ForgottenType
<1>4. /\ cleaner' \in {"sleeping", "gone"} /\ storeFaults' \in 0..MaxStoreFaults
      /\ sweepTime' = 0 /\ 0 \in 0..clock
      /\ UNCHANGED <<registering, timeout, clock, isDraining, left, registryCrashes>>
  BY RegistryAssumption
  DEF Sweep, SweepInterrupted, SweepFails, NextRound, StoreRaises, RegistryInv, RegistryTypeOK
<1>5. RegistryTypeOK'
  BY <1>3, <1>4 DEF RegistryInv, RegistryTypeOK, Beats
<1>6. LeftHasNoRow'
  BY <1>3, <1>4 DEF RegistryInv, LeftHasNoRow, RegistryTypeOK
<1>7. HeartbeatSurvives'
  <2>1. ASSUME NEW a \in Agents, answered'[a] # NoBeat
        PROVE  answered'[a] = answered[a] /\ rows'[a] = rows[a] /\ answered[a] # NoBeat
    BY <1>1, <1>3, <2>1
  <2> QED BY <2>1 DEF RegistryInv, HeartbeatSurvives
<1>8. WaitingIsNewer'
  BY <1>3, <1>4 DEF RegistryInv, WaitingIsNewer
<1> QED BY <1>5, <1>6, <1>7, <1>8 DEF RegistryInv

\* The clocks, the configuration, a drain and a restart keep the invariant.
LEMMA RestKeepsRegistry ==
  ASSUME RegistryInv,
         ReadClock \/ Reload \/ Drain \/ RestartRegistry \/ RegistryTick \/ UNCHANGED registryVars
  PROVE  RegistryInv'
<1> USE DEF RegistryInv
<1>1. /\ beats' \in {beats, rows} /\ UNCHANGED <<rows, answered, left>>
  BY DEF ReadClock, Reload, Drain, RestartRegistry, RegistryTick, registryVars
<1>2. /\ registering' \in {registering, [t \in RegistryThreads |-> NoCall]}
      /\ clock' \in 0..MaxTime /\ clock <= clock' /\ clock \in 0..MaxTime
  BY RegistryAssumption
  DEF ReadClock, Reload, Drain, RestartRegistry, RegistryTick, registryVars, RegistryTypeOK
<1>3. RegistryTypeOK'
  <2>1. clock' \in 0..MaxTime /\ sweepTime' \in 0..clock'
    BY RegistryAssumption
    DEF RegistryTypeOK, ReadClock, Reload, Drain, RestartRegistry, RegistryTick, registryVars
  <2>2. registryCrashes' \in 0..MaxRegistryCrashes /\ storeFaults' = storeFaults
    BY RegistryAssumption
    DEF RegistryTypeOK, ReadClock, Reload, Drain, RestartRegistry, RegistryTick, registryVars
  <2>3. /\ cleaner' \in {"sleeping", "sweeping", "gone"} /\ timeout' \in Timeouts
        /\ isDraining' \in BOOLEAN
    BY DEF RegistryTypeOK, ReadClock, Reload, Drain, RestartRegistry, RegistryTick, registryVars
  <2>4. registering' \in [RegistryThreads -> Registrations']
    BY <1>2 DEF RegistryTypeOK, Registrations
  <2> QED BY <1>1, <2>1, <2>2, <2>3, <2>4 DEF RegistryTypeOK, Beats, Registrations
<1>4. LeftHasNoRow' /\ HeartbeatSurvives'
  BY <1>1 DEF LeftHasNoRow, HeartbeatSurvives, RegistryTypeOK
<1>5. WaitingIsNewer'
  BY <1>1, <1>2 DEF WaitingIsNewer, RegistryTypeOK, Beats
<1> QED BY <1>3, <1>4, <1>5

\* Every handler, the cleaner, a crash and a reload keep the registry sound.
LEMMA RegistryStep == RegistryInv /\ [RegistryNext]_registryVars => RegistryInv'
BY CallKeepsRegistry, RegisterKeepsRegistry, HandlersKeepRegistry, SweepKeepsRegistry,
   RestKeepsRegistry
DEF RegistryNext

\* An agent that left stays out and no confirmed sign of life is lost, for any crashes, sweeps
\* that are cut off and failing writes of the store; a row is put back to an older time at most
\* by a registration that read the clock before it waited for the lock, to that time.
THEOREM RegistryDurability == RegistrySpec => [](RegistryTypeOK /\ RegistryIsDurable)
<1>1. RegistryInv => RegistryTypeOK /\ RegistryIsDurable
  BY DEF RegistryInv, RegistryIsDurable, LeftIsGone, LeftHasNoRow, Members, RegistryTypeOK
<1> QED BY InitRegistryInv, RegistryStep, <1>1, PTL DEF RegistrySpec

\* The cleaner removes only agents that are silent for too long when it removes them, although
\* it read the clock before it took the lock, and never a protected one.
THEOREM ExpiryJustified == RegistrySpec => ExpiryIsJustified
<1>1. ASSUME RegistryInv, [RegistryNext]_registryVars, NEW a \in Agents,
             beats[a] # NoBeat, beats'[a] = NoBeat, cleaner = "sweeping",
             cleaner' # "sweeping", registryCrashes' = registryCrashes
      PROVE  clock - beats[a] > timeout /\ a \notin ProtectedAgents
  <2>1. registryCrashes \in Int
    BY <1>1 DEF RegistryInv, RegistryTypeOK
  <2>2. Sweep \/ SweepInterrupted
    BY <1>1, <2>1
    DEF RegistryNext, registryVars, CallsRegister, RegisterAgent, Heartbeat, DeregisterAgent,
        CleanerIdle, ReadClock, Reload, Drain, RestartRegistry, RegistryTick
  <2>3. a \in Expired
    <3>1. beats \in Beats
      BY <1>1 DEF RegistryInv, RegistryTypeOK
    <3>2. PICK gone \in SUBSET Expired : beats' = Forgotten(beats, gone)
      BY <2>2 DEF Sweep, SweepInterrupted, SweepFails
    <3> QED BY <1>1, <3>1, <3>2, ForgottenType
  <2>4. beats[a] \in Nat /\ clock \in Nat /\ sweepTime \in Nat /\ sweepTime <= clock /\ timeout \in Nat
    BY <1>1, RegistryAssumption DEF RegistryInv, RegistryTypeOK, Beats
  <2> QED BY <2>3, <2>4 DEF Expired, Overdue
<1>2. RegistryInv /\ [RegistryNext]_registryVars =>
        [\A a \in Agents :
           /\ beats[a] # NoBeat /\ beats'[a] = NoBeat
           /\ cleaner = "sweeping" /\ cleaner' # "sweeping" /\ registryCrashes' = registryCrashes
           => clock - beats[a] > timeout /\ a \notin ProtectedAgents]_registryVars
  BY <1>1
<1> QED BY InitRegistryInv, RegistryStep, <1>2, PTL DEF RegistrySpec, ExpiryIsJustified
-------------------------------------------------------------------------------
(* Scheduler *)

\* A confirmed preemption is in the table, too.
PreemptionIsSaved ==
  \A id \in preempted : taskRows[id] # NoTask => taskRows[id].status = "preempted"

\* Calls are numbered, so an entry is new when it is made, and one agent's.
EntriesAreNew ==
  /\ \A e \in purged : e.call <= submits
  /\ \A a \in Owners : \A e \in activity[a] : e.call <= submits
  /\ \A a, b \in Owners : a # b => activity[a] \cap activity[b] = {}

SchedulerInv ==
  SchedulerTypeOK /\ PreemptionHolds /\ PreemptionIsSaved /\ PurgeIsFinal /\ EntriesAreNew

\* The scheduler starts without tasks.
LEMMA InitSchedulerInv == SchedulerInit => SchedulerInv
<1> SUFFICES ASSUME SchedulerInit PROVE SchedulerInv
  OBVIOUS
<1> USE DEF SchedulerInit
<1>1. /\ tasks \in [TaskIds -> Tasks \cup {NoTask}] /\ taskRows \in [TaskIds -> Tasks \cup {NoTask}]
      /\ activity \in [Owners -> SUBSET Entries] /\ activityRows \in [Owners -> SUBSET Entries]
  OBVIOUS
<1>2. /\ submits \in 0..MaxSubmits /\ schedulerCrashes \in 0..MaxSchedulerCrashes
      /\ schedulerFaults \in 0..MaxSchedulerFaults
  BY SchedulerAssumption
<1>3. SchedulerTypeOK
  BY <1>1, <1>2 DEF SchedulerTypeOK
<1> QED BY <1>3
    DEF SchedulerInv, PreemptionHolds, PreemptionIsSaved, PurgeIsFinal, EntriesAreNew

\* What a step writes has its type.
LEMMA SchedulerFaultType ==
  ASSUME SchedulerTypeOK, SchedulerStoreRaises \/ UNCHANGED schedulerFaults
  PROVE  schedulerFaults' \in 0..MaxSchedulerFaults
BY SchedulerAssumption DEF SchedulerTypeOK, SchedulerStoreRaises

\* A submitted task is a task, and not the absence of one.
LEMMA TaskTypes ==
  ASSUME NEW a \in Owners, NEW id \in TaskIds, NEW n \in 1..MaxSubmits
  PROVE  /\ Task(a, n) \in Tasks /\ Task(a, n) # NoTask
         /\ Entry(id, n) \in Entries /\ Entry(id, n).call = n
BY SchedulerAssumption DEF Task, Entry, Tasks, Entries

\* Preempting a task changes its status only.
LEMMA PreemptedType ==
  ASSUME NEW f \in [TaskIds -> Tasks \cup {NoTask}], NEW id \in TaskIds, f[id] # NoTask
  PROVE  /\ Preempted(f, id) \in [TaskIds -> Tasks \cup {NoTask}]
         /\ Preempted(f, id)[id].status = "preempted" /\ Preempted(f, id)[id] # NoTask
         /\ \A other \in TaskIds : other # id => Preempted(f, id)[other] = f[other]
BY SchedulerAssumption DEF Preempted, Tasks

\* The scheduler knows finitely many tasks.
LEMMA KnownFinite == IsFiniteSet(KnownTasks) /\ Cardinality(KnownTasks) \in Nat
<1>1. IsFiniteSet(0..(MaxSubmits - 1))
  BY SchedulerAssumption, FS_Interval
<1>2. IsFiniteSet(TaskIds)
  BY <1>1, SchedulerAssumption, FS_Union DEF TaskIds, AutoIds
<1>3. KnownTasks \in SUBSET TaskIds
  BY DEF KnownTasks
<1> QED BY <1>2, <1>3, FS_Subset, FS_CardinalityType

\* A submission keeps the invariant, wherever the store raises.
LEMMA SubmitKeepsScheduler ==
  ASSUME SchedulerInv, NEW a \in Owners, NEW id \in TaskIds, SubmitTask(a, id), given' \subseteq Names
  PROVE  SchedulerInv'
<1> USE DEF SchedulerInv
<1>1. PICK n \in 1..MaxSubmits : n = submits + 1
  BY SchedulerAssumption DEF SubmitTask, SchedulerTypeOK
<1>2. /\ submits' = n /\ tasks' = [tasks EXCEPT ![id] = Task(a, n)]
      /\ taskRows' \in {taskRows, [taskRows EXCEPT ![id] = Task(a, n)]}
      /\ preempted' = preempted \ {id} /\ UNCHANGED <<purged, forgot, schedulerCrashes>>
      /\ \/ activity' = activity /\ activityRows' = activityRows
         \/ /\ activity' = [activity EXCEPT ![a] = @ \cup {Entry(id, n)}]
            /\ activityRows' \in {activityRows, [activityRows EXCEPT ![a] = @ \cup {Entry(id, n)}]}
      /\ SchedulerStoreRaises \/ UNCHANGED schedulerFaults
  BY <1>1 DEF SubmitTask
<1>3. /\ Task(a, n) \in Tasks /\ Task(a, n) # NoTask
      /\ Entry(id, n) \in Entries /\ Entry(id, n).call = n
  BY TaskTypes
<1>4. SchedulerTypeOK'
  <2>1. {activity', activityRows'} \subseteq [Owners -> SUBSET Entries]
    BY <1>2, <1>3 DEF SchedulerTypeOK
  <2>2. \A b \in Owners : activityRows'[b] \subseteq activity'[b]
    BY <1>2 DEF SchedulerTypeOK
  <2>3. {tasks', taskRows'} \subseteq [TaskIds -> Tasks \cup {NoTask}]
    BY <1>2, <1>3 DEF SchedulerTypeOK
  <2>4. \A t \in TaskIds : taskRows'[t] # NoTask => t \in KnownTasks'
    BY <1>2, <1>3 DEF SchedulerTypeOK, KnownTasks
  <2>5. schedulerFaults' \in 0..MaxSchedulerFaults
    BY <1>2, SchedulerFaultType
  <2>6. submits' \in 0..MaxSubmits
    BY <1>1, <1>2, SchedulerAssumption
  <2> QED BY <1>2, <2>1, <2>2, <2>3, <2>4, <2>5, <2>6 DEF SchedulerTypeOK
<1>5. PreemptionHolds' /\ PreemptionIsSaved'
  BY <1>2 DEF PreemptionHolds, PreemptionIsSaved, SchedulerTypeOK, KnownTasks
<1>6. \A b \in Owners : \A e \in activity'[b] : e \in activity[b] \/ (b = a /\ e = Entry(id, n))
  BY <1>2 DEF SchedulerTypeOK
<1>7. /\ \A e \in purged : e # Entry(id, n)
      /\ \A b \in Owners : \A e \in activity[b] : e # Entry(id, n)
  BY <1>1, <1>3 DEF EntriesAreNew, SchedulerTypeOK
<1>8. PurgeIsFinal'
  BY <1>2, <1>6, <1>7 DEF PurgeIsFinal
<1>9. EntriesAreNew'
  <2>1. \A e \in purged : e.call <= submits'
    BY <1>1, <1>2 DEF EntriesAreNew, SchedulerTypeOK, Entries
  <2>2. \A b \in Owners : \A e \in activity'[b] : e.call <= submits'
    BY <1>1, <1>2, <1>3, <1>6 DEF EntriesAreNew, SchedulerTypeOK, Entries
  <2>3. \A b, c \in Owners : b # c => activity'[b] \cap activity'[c] = {}
    BY <1>6, <1>7 DEF EntriesAreNew
  <2> QED BY <1>2, <2>1, <2>2, <2>3 DEF EntriesAreNew
<1> QED BY <1>4, <1>5, <1>8, <1>9

\* A preemption keeps the invariant.
LEMMA PreemptKeepsScheduler ==
  ASSUME SchedulerInv, NEW id \in TaskIds, RequestPreemption(id)
  PROVE  SchedulerInv'
<1> USE DEF SchedulerInv
<1>1. /\ tasks \in [TaskIds -> Tasks \cup {NoTask}] /\ taskRows \in [TaskIds -> Tasks \cup {NoTask}]
      /\ tasks[id] # NoTask /\ tasks' = Preempted(tasks, id)
      /\ UNCHANGED <<activity, activityRows, submits, purged, given, forgot, schedulerCrashes>>
      /\ SchedulerStoreRaises \/ UNCHANGED schedulerFaults
  BY DEF RequestPreemption, SchedulerTypeOK, KnownTasks
<1>2. /\ tasks' \in [TaskIds -> Tasks \cup {NoTask}]
      /\ tasks'[id].status = "preempted" /\ tasks'[id] # NoTask
      /\ \A other \in TaskIds : other # id => tasks'[other] = tasks[other]
  BY <1>1, PreemptedType
<1>3. /\ taskRows' \in [TaskIds -> Tasks \cup {NoTask}]
      /\ \A other \in TaskIds : other # id => taskRows'[other] = taskRows[other]
      /\ \/ taskRows'[id] = taskRows[id] /\ preempted' = preempted
         \/ preempted' = preempted \cup {id} /\ taskRows'[id] = NoTask
         \/ preempted' = preempted \cup {id} /\ taskRows'[id].status = "preempted"
  BY <1>1, PreemptedType DEF RequestPreemption
<1>4. SchedulerTypeOK'
  <2>1. \A t \in TaskIds : taskRows'[t] # NoTask => t \in KnownTasks'
    BY <1>2, <1>3 DEF SchedulerTypeOK, KnownTasks
  <2>2. preempted' \subseteq TaskIds
    BY <1>3 DEF SchedulerTypeOK
  <2>3. schedulerFaults' \in 0..MaxSchedulerFaults
    BY <1>1, SchedulerFaultType
  <2> QED BY <1>1, <1>2, <1>3, <2>1, <2>2, <2>3 DEF SchedulerTypeOK
<1>5. PreemptionHolds' /\ PreemptionIsSaved'
  BY <1>2, <1>3 DEF PreemptionHolds, PreemptionIsSaved, KnownTasks, SchedulerTypeOK
<1>6. PurgeIsFinal' /\ EntriesAreNew'
  BY <1>1 DEF PurgeIsFinal, EntriesAreNew
<1> QED BY <1>4, <1>5, <1>6

\* A purge keeps the invariant: what it takes away is in nobody's buffer.
LEMMA PurgeKeepsScheduler ==
  ASSUME SchedulerInv, NEW a \in Owners, NEW ids, PurgeActivity(a, ids)
  PROVE  SchedulerInv'
<1> USE DEF SchedulerInv
<1>1. /\ \A s : Kept(s, ids) \subseteq s
      /\ \A s, t : s \subseteq t => Kept(s, ids) \subseteq Kept(t, ids)
  BY DEF Kept
<1>2. UNCHANGED <<tasks, taskRows, submits, preempted, given, forgot, schedulerCrashes>>
      /\ (SchedulerStoreRaises \/ UNCHANGED schedulerFaults)
  BY DEF PurgeActivity
<1>3. \/ UNCHANGED <<activity, activityRows, purged>>
      \/ /\ activityRows' = [activityRows EXCEPT ![a] = Kept(@, ids)]
         /\ activity' = [activity EXCEPT ![a] = Kept(@, ids)]
         /\ purged' = purged \cup (activity[a] \ Kept(activity[a], ids))
  BY DEF PurgeActivity, KeptRows
<1>4. SchedulerTypeOK'
  <2>1. {activity', activityRows'} \subseteq [Owners -> SUBSET Entries]
    BY <1>1, <1>3 DEF SchedulerTypeOK
  <2>2. \A b \in Owners : activityRows'[b] \subseteq activity'[b]
    BY <1>1, <1>3 DEF SchedulerTypeOK
  <2>3. purged' \subseteq Entries
    BY <1>3 DEF SchedulerTypeOK
  <2>4. schedulerFaults' \in 0..MaxSchedulerFaults
    BY <1>2, SchedulerFaultType
  <2>5. KnownTasks' = KnownTasks
    BY <1>2 DEF KnownTasks
  <2> QED BY <1>2, <2>1, <2>2, <2>3, <2>4, <2>5 DEF SchedulerTypeOK
<1>5. PreemptionHolds' /\ PreemptionIsSaved'
  BY <1>2 DEF PreemptionHolds, PreemptionIsSaved, KnownTasks
<1>6. \A b \in Owners : activity'[b] \subseteq activity[b]
  BY <1>1, <1>3 DEF SchedulerTypeOK
<1>7. PurgeIsFinal'
  <2>1. ASSUME NEW b \in Owners, NEW e \in activity'[b], e \in purged', e \notin purged
        PROVE  FALSE
    <3>1. e \in activity[a] /\ e \notin Kept(activity[a], ids) /\ activity'[a] = Kept(activity[a], ids)
      BY <1>3, <2>1 DEF SchedulerTypeOK
    <3>2. b = a
      BY <1>6, <2>1, <3>1 DEF EntriesAreNew
    <3> QED BY <2>1, <3>1, <3>2
  <2> QED BY <1>6, <2>1 DEF PurgeIsFinal
<1>8. EntriesAreNew'
  <2>1. \A e \in purged' : e.call <= submits
    BY <1>3 DEF EntriesAreNew
  <2> QED BY <1>2, <1>6, <2>1 DEF EntriesAreNew
<1> QED BY <1>4, <1>5, <1>7, <1>8

\* A restart loads the tables, which are never ahead of the memory.
LEMMA RestartKeepsScheduler ==
  ASSUME SchedulerInv, RestartScheduler \/ UNCHANGED schedulerVars
  PROVE  SchedulerInv'
<1> USE DEF SchedulerInv
<1>1. CASE UNCHANGED schedulerVars
  BY <1>1 DEF schedulerVars, SchedulerTypeOK, PreemptionHolds, PreemptionIsSaved, PurgeIsFinal,
     EntriesAreNew, KnownTasks
<1>2. CASE RestartScheduler
  <2> USE <1>2 DEF RestartScheduler
  <2>1. schedulerCrashes' \in 0..MaxSchedulerCrashes
    BY SchedulerAssumption DEF SchedulerTypeOK
  <2>2. SchedulerTypeOK'
    BY <2>1 DEF SchedulerTypeOK, KnownTasks
  <2>3. PreemptionHolds' /\ PreemptionIsSaved'
    BY DEF PreemptionHolds, PreemptionIsSaved, KnownTasks, SchedulerTypeOK
  <2>4. PurgeIsFinal' /\ EntriesAreNew'
    BY DEF PurgeIsFinal, EntriesAreNew, SchedulerTypeOK
  <2> QED BY <2>2, <2>3, <2>4
<1> QED BY <1>1, <1>2

\* There are as many tasks as were submitted, or fewer. So there is an id for a task that comes
\* without one.
KnownAreFew == Cardinality(KnownTasks) <= submits

\* While submits are left, a generated id is one of the ids the tables are made for.
LEMMA AutoIdType ==
  ASSUME SchedulerTypeOK, KnownAreFew, submits < MaxSubmits
  PROVE  AutoId \in AutoIds
BY KnownFinite, SchedulerAssumption DEF AutoId, AutoIds, SchedulerTypeOK, KnownAreFew

\* How a step changes what is known.
LEMMA KnownStep ==
  ASSUME SchedulerTypeOK, [SchedulerNext]_schedulerVars
  PROVE  \/ \E a \in Owners, id \in Names \cup {AutoId} :
              /\ SubmitTask(a, id) /\ (id \in TaskIds => KnownTasks' = KnownTasks \cup {id})
              /\ given' = given \/ (id \in Names /\ given' = given \cup {id})
              /\ id = AutoId \/ id \in given'
         \/ /\ KnownTasks' = KnownTasks \/ (forgot' /\ KnownTasks' \subseteq KnownTasks)
            /\ submits' = submits /\ given' = given /\ (forgot => forgot')
<1>1. ASSUME NEW a \in Owners, NEW id \in TaskIds, SubmitTask(a, id)
      PROVE  KnownTasks' = KnownTasks \cup {id}
  <2>0. PICK n \in 1..MaxSubmits : n = submits + 1
    BY <1>1, SchedulerAssumption DEF SubmitTask, SchedulerTypeOK
  <2>1. tasks' = [tasks EXCEPT ![id] = Task(a, n)]
    BY <1>1, <2>0 DEF SubmitTask
  <2>2. Task(a, n) # NoTask
    BY TaskTypes
  <2> QED BY <2>1, <2>2 DEF KnownTasks, SchedulerTypeOK
<1>2. ASSUME NEW id \in TaskIds, RequestPreemption(id)
      PROVE  KnownTasks' = KnownTasks /\ UNCHANGED <<submits, given, forgot>>
  <2>1. tasks' = Preempted(tasks, id) /\ tasks[id] # NoTask /\ tasks \in [TaskIds -> Tasks \cup {NoTask}]
    BY <1>2 DEF RequestPreemption, KnownTasks, SchedulerTypeOK
  <2>2. \A t \in TaskIds : tasks'[t] # NoTask <=> tasks[t] # NoTask
    BY <2>1, PreemptedType
  <2> QED BY <1>2, <2>2 DEF RequestPreemption, KnownTasks
<1>3. ASSUME NEW a \in Owners, NEW ids, PurgeActivity(a, ids)
      PROVE  KnownTasks' = KnownTasks /\ UNCHANGED <<submits, given, forgot>>
  BY <1>3 DEF PurgeActivity, KnownTasks
<1>4. ASSUME RestartScheduler
      PROVE  /\ KnownTasks' = KnownTasks \/ (forgot' /\ KnownTasks' \subseteq KnownTasks)
             /\ UNCHANGED <<submits, given>> /\ (forgot => forgot')
  BY <1>4 DEF RestartScheduler, KnownTasks, SchedulerTypeOK
<1>5. ASSUME UNCHANGED schedulerVars
      PROVE  KnownTasks' = KnownTasks /\ UNCHANGED <<submits, given, forgot>>
  BY <1>5 DEF schedulerVars, KnownTasks
<1>6. ASSUME NEW a \in Owners, SubmitUnnamed(a) \/ \E id \in Names : SubmitNamed(a, id)
      PROVE  \E id \in Names \cup {AutoId} :
               /\ SubmitTask(a, id) /\ (id \in TaskIds => KnownTasks' = KnownTasks \cup {id})
               /\ given' = given \/ (id \in Names /\ given' = given \cup {id})
               /\ id = AutoId \/ id \in given'
  <2>1. CASE SubmitUnnamed(a)
    BY <1>1, <2>1 DEF SubmitUnnamed
  <2>2. ASSUME NEW id \in Names, SubmitNamed(a, id)
        PROVE  SubmitTask(a, id) /\ KnownTasks' = KnownTasks \cup {id} /\ given' = given \cup {id}
    BY <1>1, <2>2 DEF SubmitNamed, TaskIds
  <2> QED BY <1>6, <2>1, <2>2
<1> QED BY <1>2, <1>3, <1>4, <1>5, <1>6 DEF SchedulerNext

\* No step makes more tasks than were submitted.
LEMMA KnownStaysFew ==
  ASSUME SchedulerTypeOK, KnownAreFew, [SchedulerNext]_schedulerVars
  PROVE  KnownAreFew'
<1>1. ASSUME NEW a \in Owners, NEW id \in Names \cup {AutoId}, SubmitTask(a, id),
             id \in TaskIds => KnownTasks' = KnownTasks \cup {id}
      PROVE  KnownAreFew'
  <2>1. submits < MaxSubmits /\ submits' = submits + 1 /\ submits \in Nat
    BY <1>1 DEF SubmitTask, SchedulerTypeOK
  <2>2. id \in TaskIds
    BY <2>1, AutoIdType DEF TaskIds
  <2>3. KnownTasks' = KnownTasks \cup {id} /\ IsFiniteSet(KnownTasks)
    BY <1>1, <2>2, KnownFinite
  <2>4. Cardinality(KnownTasks') \in {Cardinality(KnownTasks), Cardinality(KnownTasks) + 1}
    BY <2>3, FS_AddElement
  <2>5. Cardinality(KnownTasks) \in Nat
    BY <2>3, FS_CardinalityType
  <2> QED BY <2>1, <2>4, <2>5 DEF KnownAreFew
<1>2. ASSUME KnownTasks' \subseteq KnownTasks, submits' = submits PROVE KnownAreFew'
  <2>1. Cardinality(KnownTasks') <= Cardinality(KnownTasks) /\ Cardinality(KnownTasks') \in Nat
    BY <1>2, KnownFinite, FS_Subset, FS_CardinalityType
  <2>2. submits \in Nat
    BY DEF SchedulerTypeOK
  <2> QED BY <1>2, <2>1, <2>2, KnownFinite DEF KnownAreFew
<1> QED BY <1>1, <1>2, KnownStep

\* Every handler and a crash keep the scheduler sound.
LEMMA SchedulerStep ==
  SchedulerInv /\ KnownAreFew /\ [SchedulerNext]_schedulerVars => SchedulerInv' /\ KnownAreFew'
<1> SUFFICES ASSUME SchedulerInv, KnownAreFew, [SchedulerNext]_schedulerVars
             PROVE  SchedulerInv' /\ KnownAreFew'
  OBVIOUS
<1>1. KnownAreFew'
  BY KnownStaysFew DEF SchedulerInv
<1>2. ASSUME NEW a \in Owners, NEW id \in Names \cup {AutoId}, SubmitTask(a, id)
      PROVE  id \in TaskIds
  BY <1>2, AutoIdType DEF SubmitTask, TaskIds, SchedulerInv
<1>3. SchedulerInv'
  <2>1. ASSUME NEW a \in Owners, SubmitUnnamed(a) \/ \E id \in Names : SubmitNamed(a, id)
        PROVE  \E id \in Names \cup {AutoId} : SubmitTask(a, id) /\ given' \subseteq Names
    BY <2>1 DEF SubmitUnnamed, SubmitNamed, SchedulerInv, SchedulerTypeOK
  <2> QED BY <1>2, <2>1, SubmitKeepsScheduler, PreemptKeepsScheduler, PurgeKeepsScheduler,
             RestartKeepsScheduler
      DEF SchedulerNext
<1> QED BY <1>1, <1>3

\* No tasks are known before one is submitted.
LEMMA InitKnownAreFew == SchedulerInit => KnownAreFew
<1> SUFFICES ASSUME SchedulerInit PROVE KnownAreFew
  OBVIOUS
<1>1. KnownTasks = {} /\ submits = 0
  BY DEF SchedulerInit, KnownTasks
<1> QED BY <1>1, FS_EmptySet DEF KnownAreFew

\* A confirmed preemption holds and a confirmed purge is final, in memory and in the tables,
\* after any number of crashes, whichever write of the store raises.
THEOREM SchedulerDurability == SchedulerSpec => [](SchedulerTypeOK /\ SchedulerIsDurable)
<1>1. SchedulerInv => SchedulerTypeOK /\ SchedulerIsDurable
  BY DEF SchedulerInv, SchedulerIsDurable
<1> QED BY InitSchedulerInv, InitKnownAreFew, SchedulerStep, <1>1, PTL DEF SchedulerSpec

\* Until a task is lost, the ids of the form of the generated ones that no client chose are
\* below the number of tasks.
GeneratedAreLow ==
  forgot \/ \A id \in KnownTasks : id \in Nat => id < Cardinality(KnownTasks) \/ id \in given

\* A task that comes without an id gets one that no task has, whatever names clients choose and
\* whichever writes fail, except when a client chose that very id or a restart lost a task.
THEOREM AutoIdsAreFresh == SchedulerSpec => []AutoIdIsFresh
<1>1. SchedulerInit => GeneratedAreLow
  BY DEF SchedulerInit, GeneratedAreLow, KnownTasks
<1>2. ASSUME SchedulerInv, KnownAreFew, GeneratedAreLow, [SchedulerNext]_schedulerVars, ~forgot'
      PROVE  \A id \in KnownTasks' : id \in Nat => id < Cardinality(KnownTasks') \/ id \in given'
  <2>1. SchedulerTypeOK
    BY <1>2 DEF SchedulerInv
  <2>2. CASE \E a \in Owners, id \in Names \cup {AutoId} :
               /\ SubmitTask(a, id) /\ (id \in TaskIds => KnownTasks' = KnownTasks \cup {id})
               /\ given' = given \/ (id \in Names /\ given' = given \cup {id})
               /\ id = AutoId \/ id \in given'
    <3>1. PICK a \in Owners, id \in Names \cup {AutoId} :
            /\ SubmitTask(a, id) /\ (id \in TaskIds => KnownTasks' = KnownTasks \cup {id})
            /\ given \subseteq given' /\ (id = AutoId \/ id \in given')
      BY <2>2
    <3>2. submits < MaxSubmits /\ UNCHANGED forgot
      BY <3>1 DEF SubmitTask
    <3>3. AutoId = Cardinality(KnownTasks) /\ id \in TaskIds /\ AutoId \in Nat
      BY <1>2, <2>1, <3>2, AutoIdType, KnownFinite DEF AutoId, TaskIds
    <3>4. KnownTasks' = KnownTasks \cup {id}
      BY <3>1, <3>3
    <3>5. id \in KnownTasks \/ Cardinality(KnownTasks') = Cardinality(KnownTasks) + 1
      BY <2>1, <3>4, KnownFinite, FS_AddElement
    <3>6. id \in KnownTasks => KnownTasks' = KnownTasks
      BY <3>4
    <3>7. \A k \in KnownTasks : k \in Nat => k < Cardinality(KnownTasks) \/ k \in given
      BY <1>2, <3>2 DEF GeneratedAreLow
    <3>8. ASSUME NEW k \in KnownTasks', k \in Nat, k \notin given'
          PROVE  k < Cardinality(KnownTasks')
      <4>1. k \in KnownTasks \/ k = AutoId
        BY <3>1, <3>4, <3>8
      <4> QED BY <3>1, <3>3, <3>5, <3>6, <3>7, <3>8, <4>1
    <3> QED BY <3>8
  <2>3. CASE KnownTasks' = KnownTasks /\ given' = given /\ (forgot => forgot')
    BY <1>2, <2>3 DEF GeneratedAreLow
  <2> QED BY <1>2, <2>1, <2>2, <2>3, KnownStep
<1>3. SchedulerInv /\ KnownAreFew /\ GeneratedAreLow /\ [SchedulerNext]_schedulerVars
        => GeneratedAreLow'
  BY <1>2 DEF GeneratedAreLow
<1>4. SchedulerInv /\ GeneratedAreLow => AutoIdIsFresh
  <2> SUFFICES ASSUME SchedulerInv, GeneratedAreLow, AutoId \in KnownTasks, ~forgot
               PROVE  AutoId \in given
    BY DEF AutoIdIsFresh
  <2>1. AutoId \in Nat /\ AutoId = Cardinality(KnownTasks)
    BY KnownFinite DEF AutoId, SchedulerInv
  <2> QED BY <2>1 DEF GeneratedAreLow
<1> QED BY InitSchedulerInv, InitKnownAreFew, SchedulerStep, <1>1, <1>3, <1>4, PTL DEF SchedulerSpec
-------------------------------------------------------------------------------
(* Handoffs *)

\* The tables of the service agree: what is known has a status, an answer is on record for a
\* verdict and goes with the status, and an agent's pending set holds what nobody answered.
HandoffInv ==
  /\ toAgent \in [HandoffIds -> HandoffAgents \cup {NoHandoff}]
  /\ handoffStatus \in [HandoffIds -> HandoffStatus \cup {NoHandoff}]
  /\ responses \in [HandoffIds -> {"accepted", "rejected", NoHandoff}]
  /\ verdicts \in [HandoffIds -> {0, 1}]
  /\ pendingOf \in [HandoffAgents -> SUBSET HandoffIds]
  /\ \A h \in HandoffIds :
       /\ toAgent[h] # NoHandoff <=> handoffStatus[h] # NoHandoff
       /\ responses[h] = NoHandoff <=> verdicts[h] = 0
       /\ handoffStatus[h] = NoHandoff => verdicts[h] = 0
       /\ handoffStatus[h] = "PENDING" => verdicts[h] = 0
  /\ \A a \in HandoffAgents : \A h \in HandoffIds :
       /\ h \in pendingOf[a] => toAgent[h] = a
       /\ toAgent[h] = a /\ handoffStatus[h] = "PENDING" => h \in pendingOf[a]

\* The status of an answered handoff is its answer, unless somebody completed it as something
\* else. A client of CompleteHandoff may write any status, also one of an answer it never had.
AnswersAgree ==
  \A h \in HandoffIds : /\ handoffStatus[h] = "ACCEPTED" => responses[h] = "accepted"
                        /\ handoffStatus[h] = "REJECTED" => responses[h] = "rejected"

\* What CompleteHandoff is called with by the clients of the SDK: no answer, and not "PENDING".
CompletesOnly == CompletionStatuses \subseteq {"COMPLETED", "EXPIRED"}

\* The tables are empty.
LEMMA InitHandoff == HandoffInit => HandoffInv /\ AnswersAgree
BY HandoffAssumption DEF HandoffInit, HandoffInv, AnswersAgree, NoneOf, HandoffStatus

\* The requests, the answers and the completions of every agent.
LEMMA HandoffStep ==
  ASSUME CompletesOnly, HandoffInv, AnswersAgree, [HandoffNext]_handoffVars
  PROVE  HandoffInv' /\ AnswersAgree'
<1>1. ASSUME NEW h \in HandoffIds, NEW a \in HandoffAgents, RequestHandoff(h, a)
      PROVE  HandoffInv' /\ AnswersAgree'
  BY <1>1, HandoffAssumption DEF RequestHandoff, Known, HandoffInv, AnswersAgree, HandoffStatus
<1>2. ASSUME NEW h \in HandoffIds, NEW s \in {"ACCEPTED", "REJECTED"},
             NEW r \in {"accepted", "rejected"}, s = "ACCEPTED" <=> r = "accepted", Answer(h, s, r)
      PROVE  HandoffInv' /\ AnswersAgree'
  <2>1. PICK a \in HandoffAgents : a = toAgent[h]
    BY <1>2 DEF Answer, Known, HandoffInv
  <2>2. pendingOf' = [pendingOf EXCEPT ![a] = @ \ {h}]
    BY <1>2, <2>1 DEF Answer, NoLongerPending
  <2>3. verdicts[h] = 0
    BY <1>2 DEF Answer, HandoffInv
  <2>4. verdicts' = [verdicts EXCEPT ![h] = 1]
    BY <1>2, <2>3 DEF Answer, HandoffInv
  <2> QED BY <1>2, <2>2, <2>4, HandoffAssumption DEF Answer, Known, HandoffInv, AnswersAgree, HandoffStatus
<1>3. ASSUME NEW h \in HandoffIds, NEW s \in CompletionStatuses, CompleteHandoff(h, s)
      PROVE  HandoffInv' /\ AnswersAgree'
  <2>1. PICK a \in HandoffAgents : a = toAgent[h]
    BY <1>3 DEF CompleteHandoff, Known, HandoffInv
  <2>2. pendingOf' = [pendingOf EXCEPT ![a] = @ \ {h}]
    BY <1>3, <2>1 DEF CompleteHandoff, NoLongerPending
  <2>3. s \in {"COMPLETED", "EXPIRED"}
    BY <1>3 DEF CompletesOnly
  <2> QED BY <1>3, <2>2, <2>3, HandoffAssumption DEF CompleteHandoff, Known, HandoffInv, AnswersAgree, HandoffStatus
<1>4. CASE HandoffClearAll
  BY <1>4, HandoffAssumption DEF HandoffClearAll, HandoffInv, AnswersAgree, NoneOf, HandoffStatus
<1>5. CASE UNCHANGED handoffVars
  BY <1>5 DEF handoffVars, HandoffInv, AnswersAgree
<1> QED BY <1>1, <1>2, <1>3, <1>4, <1>5 DEF HandoffNext, AcceptHandoff, RejectHandoff

\* The inductive invariant says what the runs check.
LEMMA HandoffMeans == ASSUME HandoffInv PROVE HandoffTypeOK /\ (AnswersAgree => DecidedOnce)
<1>1. HandoffTypeOK
  BY DEF HandoffInv, HandoffTypeOK, Known
<1>2. ASSUME AnswersAgree PROVE DecidedOnce
  <2>1. ASSUME NEW h \in HandoffIds
        PROVE  /\ verdicts[h] <= 1 /\ (responses[h] = NoHandoff <=> verdicts[h] = 0)
               /\ handoffStatus[h] = "ACCEPTED" => responses[h] = "accepted"
               /\ handoffStatus[h] = "REJECTED" => responses[h] = "rejected"
               /\ handoffStatus[h] = "PENDING" => verdicts[h] = 0
    BY <1>2 DEF HandoffInv, AnswersAgree
  <2>2. ASSUME NEW a \in HandoffAgents
        PROVE  GetPendingHandoffs(a)
                 = {h \in HandoffIds : toAgent[h] = a /\ handoffStatus[h] = "PENDING"}
    BY HandoffAssumption DEF GetPendingHandoffs, Known, HandoffInv
  <2> QED BY <2>1, <2>2 DEF DecidedOnce
<1> QED BY <1>1, <1>2
-------------------------------------------------------------------------------
(* The claude process *)

\* While the scheduler still reads, every line it has read was noise, and what it has yet to
\* read is the end of what was written.
Consumed(k) ==
  /\ k + Len(pipe) = Len(answer)
  /\ \A i \in 1..Len(pipe) : pipe[i] = answer[k + i]
  /\ reader \in {"idle", "reading"} => \A j \in 1..k : answer[j] = "noise"
StreamInv ==
  /\ answer \in Seq(Lines) /\ Len(answer) <= MaxLines /\ exited \in BOOLEAN
  /\ pipe \in Seq(Lines) /\ Len(pipe) <= PipeSize
  /\ reader \in {"idle", "reading", "waiting", "plan", "none", "raised"}
  /\ \E k \in Nat : Consumed(k)
  /\ PlanIsResult

\* Nothing is written or read.
LEMMA InitStream == StreamInit => StreamInv
<1> SUFFICES ASSUME StreamInit PROVE StreamInv
  OBVIOUS
<1>1. answer = <<>> /\ pipe = <<>> /\ Len(answer) = 0 /\ Len(pipe) = 0
  BY DEF StreamInit
<1>2. Consumed(0)
  BY <1>1 DEF Consumed
<1>3. \E k \in Nat : Consumed(k)
  BY <1>2
<1>4. <<>> \in Seq(Lines)
  OBVIOUS
<1>5. answer \in Seq(Lines) /\ pipe \in Seq(Lines)
  BY <1>1, <1>4
<1>6. Len(answer) <= MaxLines /\ Len(pipe) <= PipeSize
  BY <1>1, StreamAssumption
<1> QED BY <1>3, <1>5, <1>6 DEF StreamInit, StreamInv, PlanIsResult

\* The steps of the process and of its reader.
LEMMA StreamStep == StreamInv /\ [StreamNext]_streamVars => StreamInv'
<1> SUFFICES ASSUME StreamInv, [StreamNext]_streamVars PROVE StreamInv'
  OBVIOUS
<1>1. PICK k \in Nat : Consumed(k)
  BY DEF StreamInv
<1>2. CASE Popen
  <2>1. Consumed(k)'
    BY <1>1, <1>2 DEF Popen, Consumed
  <2> QED BY <1>2, <2>1 DEF Popen, StreamInv, PlanIsResult
<1>3. CASE ProcessExits
  <2>1. Consumed(k)'
    BY <1>1, <1>3 DEF ProcessExits, Consumed
  <2> QED BY <1>3, <2>1 DEF ProcessExits, StreamInv, PlanIsResult
<1>4. ASSUME NEW line \in Lines, ProcessWrites(line) PROVE StreamInv'
  <2>1. /\ answer' = Append(answer, line) /\ pipe' = Append(pipe, line)
        /\ answer' \in Seq(Lines) /\ pipe' \in Seq(Lines)
        /\ Len(answer') = Len(answer) + 1 /\ Len(pipe') = Len(pipe) + 1
        /\ \A i \in 1..Len(answer) : answer'[i] = answer[i]
        /\ \A i \in 1..Len(pipe) : pipe'[i] = pipe[i]
        /\ answer'[Len(answer) + 1] = line /\ pipe'[Len(pipe) + 1] = line
    BY <1>4 DEF ProcessWrites, StreamInv
  <2>2. /\ Len(answer) \in Nat /\ Len(pipe) \in Nat /\ Len(answer) < MaxLines /\ Len(pipe) < PipeSize
        /\ reader \in {"reading", "waiting"} /\ UNCHANGED <<exited, reader>>
    BY <1>4 DEF ProcessWrites, Called, StreamInv
  <2>3. Consumed(k)'
    <3>1. k + Len(pipe) = Len(answer)
      BY <1>1 DEF Consumed
    <3>2. k + Len(pipe') = Len(answer')
      BY <2>1, <2>2, <3>1
    <3>3. ASSUME NEW i \in 1..Len(pipe') PROVE pipe'[i] = answer'[k + i]
      <4>1. CASE i \in 1..Len(pipe)
        <5>1. k + i \in 1..Len(answer)
          BY <2>2, <3>1, <4>1
        <5>2. pipe[i] = answer[k + i]
          BY <1>1, <4>1 DEF Consumed
        <5> QED BY <2>1, <4>1, <5>1, <5>2
      <4>2. CASE i = Len(pipe) + 1
        <5>1. k + i = Len(answer) + 1
          BY <2>2, <3>1, <4>2
        <5>2. answer'[k + i] = answer'[Len(answer) + 1]
          BY <5>1, Zenon
        <5>3. pipe'[i] = line
          BY <2>1, <4>2, Zenon
        <5>4. answer'[k + i] = line
          BY <2>1, <5>2, Zenon
        <5> QED BY <5>3, <5>4
      <4>3. i \in 1..(Len(pipe) + 1)
        BY <2>1
      <4> QED BY <2>2, <4>1, <4>2, <4>3
    <3>4. reader' \in {"idle", "reading"} => \A j \in 1..k : answer'[j] = "noise"
      BY <1>1, <2>1, <2>2, <3>1 DEF Consumed
    <3> QED BY <3>2, <3>3, <3>4 DEF Consumed
  <2>4. PlanIsResult'
    BY <2>2 DEF PlanIsResult
  <2> QED BY <2>1, <2>2, <2>3, <2>4, StreamAssumption DEF StreamInv
<1>5. CASE ReadsLine
  <2>1. /\ pipe # <<>> /\ pipe' = Tail(pipe) /\ reader = "reading" /\ UNCHANGED <<answer, exited>>
        /\ Len(pipe) \in Nat /\ Len(pipe) > 0 /\ Len(answer) \in Nat
    BY <1>5 DEF ReadsLine, StreamInv
  <2>2. /\ pipe' \in Seq(Lines) /\ Len(pipe') = Len(pipe) - 1
        /\ \A i \in 1..Len(pipe') : pipe'[i] = pipe[i + 1]
    BY <2>1 DEF StreamInv
  <2>3. Head(pipe) = answer[k + 1] /\ k + 1 \in 1..Len(answer)
    BY <1>1, <2>1 DEF Consumed, StreamInv
  <2>4. /\ reader' \in {"reading", "plan", "waiting"}
        /\ reader' = "reading" => Head(pipe) = "noise"
        /\ reader' = "plan" => Head(pipe) = "result"
    BY <1>5 DEF ReadsLine, ResultOnly
  <2>5. \A j \in 1..k : answer[j] = "noise"
    BY <1>1, <2>1 DEF Consumed
  <2>6. Consumed(k + 1)'
    <3>1. (k + 1) + Len(pipe') = Len(answer')
      BY <1>1, <2>1, <2>2 DEF Consumed
    <3>2. ASSUME NEW i \in 1..Len(pipe') PROVE pipe'[i] = answer'[(k + 1) + i]
      <4>1. i + 1 \in 1..Len(pipe) /\ k + (i + 1) = (k + 1) + i
        BY <2>1, <2>2, <3>2
      <4> QED BY <1>1, <2>1, <2>2, <4>1 DEF Consumed
    <3>3. reader' \in {"idle", "reading"} => \A j \in 1..(k + 1) : answer'[j] = "noise"
      BY <2>1, <2>3, <2>4, <2>5
    <3> QED BY <3>1, <3>2, <3>3 DEF Consumed
  <2>7. PlanIsResult'
    <3> SUFFICES ASSUME reader' = "plan"
                 PROVE  \E i \in DOMAIN answer' :
                          answer'[i] = "result" /\ \A j \in 1..(i - 1) : answer'[j] = "noise"
      BY DEF PlanIsResult
    <3>1. answer[k + 1] = "result"
      BY <2>3, <2>4
    <3>2. k + 1 \in DOMAIN answer
      BY <2>3 DEF StreamInv
    <3>3. \A j \in 1..((k + 1) - 1) : answer[j] = "noise"
      BY <2>5
    <3> QED BY <2>1, <3>1, <3>2, <3>3
  <2>8. k + 1 \in Nat
    OBVIOUS
  <2> QED BY <2>1, <2>2, <2>4, <2>6, <2>7, <2>8, StreamAssumption DEF StreamInv
<1>6. CASE WaitReturns
  <2>1. Consumed(k)'
    BY <1>1, <1>6 DEF WaitReturns, Consumed
  <2> QED BY <1>6, <2>1 DEF WaitReturns, StreamInv, PlanIsResult
<1>7. CASE EndOfStream
  <2>1. Consumed(k)'
    BY <1>1, <1>7 DEF EndOfStream, Consumed
  <2> QED BY <1>7, <2>1 DEF EndOfStream, StreamInv, PlanIsResult
<1>8. CASE UNCHANGED streamVars
  <2>1. Consumed(k)'
    BY <1>1, <1>8 DEF streamVars, Consumed
  <2> QED BY <1>8, <2>1 DEF streamVars, StreamInv, PlanIsResult
<1> QED BY <1>2, <1>3, <1>4, <1>5, <1>6, <1>7, <1>8 DEF StreamNext, ProcessActs, StreamReads

\* The types of the model.
LEMMA StreamMeans == StreamInv => StreamTypeOK
<1> SUFFICES ASSUME StreamInv PROVE StreamTypeOK
  OBVIOUS
<1>1. ASSUME NEW q \in Seq(Lines), NEW n \in Nat, Len(q) <= n
      PROVE  q \in SeqOf(Lines, n)
  <2>1. Len(q) \in 0..n
    BY <1>1
  <2>2. q \in [1..Len(q) -> Lines]
    OBVIOUS
  <2> QED BY <2>1, <2>2 DEF SeqOf
<1> QED BY <1>1, StreamAssumption DEF StreamInv, StreamTypeOK
-------------------------------------------------------------------------------
(* Workflows *)

Orderly(st) == \A n \in DOMAIN st : st[n] \in {"PENDING", "READY", "RUNNING", "COMPLETED"}
Graphs == UNION {[nodes -> SUBSET WorkflowNodes] : nodes \in SUBSET WorkflowNodes}
\* Node n of a workflow had its turn exactly when its dependencies are completed.
TurnsAreRight(deps, st) ==
  \A n \in DOMAIN st : st[n] # "PENDING" <=> \A d \in deps[n] : st[d] = "COMPLETED"

\* What is stored is valid, what is started has a definition, what has ended was started; and
\* a workflow nobody interfered with has run in the order of its dependencies.
WorkflowInv ==
  /\ definitions \in [Workflows -> {NoDefinition} \cup Graphs]
  /\ DOMAIN nodeStates = Workflows /\ endedAt \subseteq Workflows /\ orderly \subseteq Workflows
  /\ \A w \in Workflows :
       /\ definitions[w] # NoDefinition => /\ definitions[w] \in Graphs /\ definitions[w] # <<>>
                                           /\ DependenciesExist(definitions[w])
                                           /\ ~HasCycle(definitions[w])
       /\ Started(w) => /\ definitions[w] # NoDefinition
                        /\ nodeStates[w] \in [DOMAIN definitions[w] -> NodeStatus]
       /\ ~Started(w) => w \notin endedAt
       /\ w \in orderly /\ Started(w) =>
            /\ Orderly(nodeStates[w]) /\ TurnsAreRight(definitions[w], nodeStates[w])
            /\ w \in endedAt <=> \A n \in DOMAIN nodeStates[w] : nodeStates[w][n] = "COMPLETED"

\* No workflow is defined.
LEMMA InitWorkflow == WorkflowInit => WorkflowInv
BY DEF WorkflowInit, WorkflowInv, Started

\* A graph has at least one node, and each of its dependencies is one of them.
LEMMA GraphFacts ==
  ASSUME NEW deps \in Graphs, deps # <<>>, DependenciesExist(deps)
  PROVE  /\ DOMAIN deps # {} /\ \A n \in DOMAIN deps : deps[n] \subseteq DOMAIN deps
<1>1. PICK nodes \in SUBSET WorkflowNodes : deps \in [nodes -> SUBSET WorkflowNodes]
  BY DEF Graphs
<1>2. nodes # {}
  <2> SUFFICES ASSUME nodes = {} PROVE FALSE
    OBVIOUS
  <2>1. deps = [n \in {} |-> {}]
    BY <1>1
  <2>2. <<>> = [n \in {} |-> {}]
    OBVIOUS
  <2> QED BY <2>1, <2>2
<1> QED BY <1>1, <1>2 DEF DependenciesExist

\* The steps of one workflow's nodes, which leave the other workflows alone.
LEMMA NodesStep ==
  ASSUME WorkflowInv, NEW w \in Workflows, Started(w), NEW n \in DOMAIN nodeStates[w],
         NEW s \in NodeStatus,
         SetNodes(w, IF s = "COMPLETED" THEN DependentsUpdated(w, WithStatus(w, n, s), n)
                                        ELSE WithStatus(w, n, s)),
         KeepsOrder(w, n, s)
  PROVE  WorkflowInv'
<1>1. PICK deps \in Graphs : deps = definitions[w]
  BY DEF WorkflowInv
<1>2. PICK st \in [DOMAIN deps -> NodeStatus] : st = nodeStates[w]
  BY <1>1 DEF WorkflowInv
<1>3. /\ deps # <<>> /\ DependenciesExist(deps) /\ definitions[w] # NoDefinition /\ n \in DOMAIN deps
      /\ st # NotStarted
  BY <1>1, <1>2 DEF WorkflowInv, Started
<1>4. \A m \in DOMAIN deps : deps[m] \subseteq DOMAIN deps
  BY <1>3, GraphFacts
<1>5. PICK mid : mid = WithStatus(w, n, s)
  OBVIOUS
<1>6. /\ mid \in [DOMAIN deps -> NodeStatus] /\ mid[n] = s
      /\ \A m \in DOMAIN deps : m # n => mid[m] = st[m]
  BY <1>2, <1>3, <1>5 DEF WithStatus
<1>7. PICK new : new = IF s = "COMPLETED" THEN DependentsUpdated(w, mid, n) ELSE mid
  OBVIOUS
<1>8. /\ new \in [DOMAIN deps -> NodeStatus]
      /\ s # "COMPLETED" => new = mid
      /\ s = "COMPLETED" => \A m \in DOMAIN deps :
           new[m] = IF /\ n \in deps[m] /\ mid[m] = "PENDING"
                       /\ \A d \in deps[m] : mid[d] = "COMPLETED"
                    THEN "READY" ELSE mid[m]
  <2>1. CASE s # "COMPLETED"
    BY <1>6, <1>7, <2>1
  <2>2. CASE s = "COMPLETED"
    <3>1. new = [m \in DOMAIN deps |->
                   IF /\ n \in deps[m] /\ mid[m] = "PENDING"
                      /\ \A d \in deps[m] : mid[d] = "COMPLETED"
                   THEN "READY" ELSE mid[m]]
      BY <1>1, <1>6, <1>7, <2>2 DEF DependentsUpdated
    <3> QED BY <1>6, <2>2, <3>1 DEF NodeStatus
  <2> QED BY <2>1, <2>2
<1>9. /\ nodeStates' = [nodeStates EXCEPT ![w] = new] /\ definitions' = definitions
      /\ endedAt' = IF \A m \in DOMAIN new : new[m] \in Terminal THEN endedAt \cup {w} ELSE endedAt
  BY <1>5, <1>7 DEF SetNodes
<1>10. orderly' = IF st[n] \in {"READY", "RUNNING"} /\ s \in {"RUNNING", "COMPLETED"}
                  THEN orderly ELSE orderly \ {w}
  BY <1>2 DEF KeepsOrder
<1>11. nodeStates'[w] = new /\ \A v \in Workflows : v # w => nodeStates'[v] = nodeStates[v]
  BY <1>9 DEF WorkflowInv
<1>12. ASSUME w \in orderly', nodeStates'[w] # NotStarted
       PROVE  /\ Orderly(new) /\ TurnsAreRight(deps, new)
              /\ w \in endedAt' <=> \A m \in DOMAIN new : new[m] = "COMPLETED"
  <2>1. /\ w \in orderly /\ st[n] \in {"READY", "RUNNING"} /\ s \in {"RUNNING", "COMPLETED"}
        /\ Orderly(st) /\ TurnsAreRight(deps, st) /\ w \notin endedAt
    BY <1>1, <1>2, <1>3, <1>10, <1>12 DEF WorkflowInv
  <2>2. Orderly(mid)
    BY <1>6, <2>1 DEF Orderly
  <2>3. Orderly(new)
    <3>1. \A m \in DOMAIN deps : mid[m] \in {"PENDING", "READY", "RUNNING", "COMPLETED"}
      BY <1>6, <2>2 DEF Orderly
    <3>2. \A m \in DOMAIN deps : new[m] = mid[m] \/ new[m] = "READY"
      BY <1>8
    <3>3. DOMAIN new = DOMAIN deps
      BY <1>8
    <3> QED BY <3>1, <3>2, <3>3 DEF Orderly
  <2>4. \A m \in DOMAIN deps : /\ mid[m] = "COMPLETED" <=> new[m] = "COMPLETED"
                               /\ st[m] = "COMPLETED" => new[m] = "COMPLETED"
                               /\ new[m] = "COMPLETED" => st[m] = "COMPLETED" \/ (m = n /\ s = "COMPLETED")
    <3> SUFFICES ASSUME NEW m \in DOMAIN deps
                 PROVE  /\ mid[m] = "COMPLETED" <=> new[m] = "COMPLETED"
                        /\ st[m] = "COMPLETED" => new[m] = "COMPLETED"
                        /\ new[m] = "COMPLETED" => st[m] = "COMPLETED" \/ (m = n /\ s = "COMPLETED")
      OBVIOUS
    <3>1. mid[m] = "COMPLETED" <=> new[m] = "COMPLETED"
      BY <1>8
    <3>2. mid[m] = "COMPLETED" <=> IF m = n THEN s = "COMPLETED" ELSE st[m] = "COMPLETED"
      BY <1>6
    <3>3. st[n] # "COMPLETED"
      BY <2>1
    <3> QED BY <3>1, <3>2, <3>3
  <2>5. TurnsAreRight(deps, new)
    <3> SUFFICES ASSUME NEW m \in DOMAIN deps
                 PROVE  new[m] # "PENDING" <=> \A d \in deps[m] : new[d] = "COMPLETED"
      BY <1>8 DEF TurnsAreRight
    <3>1. /\ st[m] # "PENDING" <=> \A d \in deps[m] : st[d] = "COMPLETED"
          /\ deps[m] \subseteq DOMAIN deps
      BY <1>2, <1>4, <2>1 DEF TurnsAreRight
    <3>2. CASE st[m] # "PENDING"
      <4>1. new[m] # "PENDING"
        BY <1>6, <1>8, <2>1, <3>2
      <4> QED BY <2>4, <3>1, <3>2, <4>1
    <3>3. CASE st[m] = "PENDING"
      <4>1. m # n /\ mid[m] = "PENDING"
        BY <1>6, <2>1, <3>3
      <4>2. CASE s # "COMPLETED"
        <5>1. new[m] = "PENDING" /\ \A d \in DOMAIN deps : new[d] = "COMPLETED" => st[d] = "COMPLETED"
          BY <1>8, <2>4, <4>1, <4>2
        <5> QED BY <3>1, <3>3, <5>1
      <4>3. CASE s = "COMPLETED"
        <5>1. new[m] # "PENDING" <=> n \in deps[m] /\ \A d \in deps[m] : mid[d] = "COMPLETED"
          BY <1>8, <4>1, <4>3
        <5>2. (\A d \in deps[m] : mid[d] = "COMPLETED") <=> \A d \in deps[m] : new[d] = "COMPLETED"
          BY <2>4, <3>1
        <5>3. (\A d \in deps[m] : new[d] = "COMPLETED") => n \in deps[m]
          BY <2>4, <3>1, <3>3
        <5> QED BY <5>1, <5>2, <5>3
      <4> QED BY <4>2, <4>3
    <3> QED BY <3>2, <3>3
  <2>6. (\A m \in DOMAIN new : new[m] \in Terminal) <=> \A m \in DOMAIN new : new[m] = "COMPLETED"
    BY <2>3 DEF Orderly, Terminal
  <2> QED BY <1>9, <2>1, <2>3, <2>5, <2>6
<1>13. endedAt' \subseteq Workflows /\ orderly' \subseteq Workflows
       /\ \A v \in Workflows : v # w => /\ v \in endedAt' <=> v \in endedAt
                                        /\ v \in orderly' <=> v \in orderly
  BY <1>9, <1>10 DEF WorkflowInv
<1>14. nodeStates'[w] # NotStarted => new \in [DOMAIN deps -> NodeStatus]
  BY <1>8
<1>15. ASSUME NEW v \in Workflows, v # w
       PROVE  /\ definitions'[v] # NoDefinition =>
                    /\ definitions'[v] \in Graphs /\ definitions'[v] # <<>>
                    /\ DependenciesExist(definitions'[v]) /\ ~HasCycle(definitions'[v])
              /\ Started(v)' => /\ definitions'[v] # NoDefinition
                                /\ nodeStates'[v] \in [DOMAIN definitions'[v] -> NodeStatus]
              /\ ~Started(v)' => v \notin endedAt'
              /\ v \in orderly' /\ Started(v)' =>
                   /\ Orderly(nodeStates'[v]) /\ TurnsAreRight(definitions'[v], nodeStates'[v])
                   /\ v \in endedAt' <=> \A m \in DOMAIN nodeStates'[v] : nodeStates'[v][m] = "COMPLETED"
  BY <1>9, <1>11, <1>13, <1>15 DEF WorkflowInv, Started
<1>16. new # NotStarted
  <2>1. DOMAIN deps \in SUBSET WorkflowNodes
    BY DEF Graphs
  <2> QED BY <1>8, <2>1, WorkflowAssumption
<1> QED
  BY <1>1, <1>3, <1>8, <1>9, <1>11, <1>12, <1>13, <1>15, <1>16 DEF WorkflowInv, Started

\* The handlers of the service.
LEMMA WorkflowStep ==
  ASSUME WorkflowInv, [WorkflowNext]_workflowVars
  PROVE  WorkflowInv'
<1>1. ASSUME NEW w \in Workflows, NEW deps \in Requested, CreateWorkflow(w, deps)
      PROVE  WorkflowInv'
  <2>1. deps \in Graphs /\ deps # <<>> /\ DependenciesExist(deps) /\ ~HasCycle(deps)
    BY <1>1 DEF CreateWorkflow, Requested, Graphs
  <2>2. /\ definitions[w] = NoDefinition /\ definitions' = [definitions EXCEPT ![w] = deps]
        /\ UNCHANGED <<nodeStates, endedAt, orderly>>
    BY <1>1 DEF CreateWorkflow
  <2>3. ~Started(w)
    BY <2>2 DEF WorkflowInv
  <2> QED BY <2>1, <2>2, <2>3 DEF WorkflowInv, Started
<1>2. ASSUME NEW w \in Workflows, StartWorkflow(w)
      PROVE  WorkflowInv'
  <2>1. PICK deps \in Graphs : /\ deps = definitions[w] /\ deps # <<>> /\ DependenciesExist(deps)
                               /\ definitions[w] # NoDefinition
    BY <1>2 DEF StartWorkflow, WorkflowInv
  <2>2. PICK st : st = [n \in DOMAIN deps |-> IF deps[n] = {} THEN "READY" ELSE "PENDING"]
    OBVIOUS
  <2>3. /\ nodeStates' = [nodeStates EXCEPT ![w] = st] /\ UNCHANGED <<definitions, endedAt, orderly>>
        /\ ~Started(w)
    BY <1>2, <2>1, <2>2 DEF StartWorkflow
  <2>4. st \in [DOMAIN deps -> NodeStatus] /\ Orderly(st)
    BY <2>2 DEF NodeStatus, Orderly
  <2>5. DOMAIN deps # {} /\ \A n \in DOMAIN deps : deps[n] \subseteq DOMAIN deps
    BY <2>1, GraphFacts
  <2>6. TurnsAreRight(deps, st)
    BY <2>2, <2>5 DEF TurnsAreRight
  <2>7. ~(\A n \in DOMAIN st : st[n] = "COMPLETED")
    BY <2>2, <2>5
  <2>8. w \notin endedAt
    BY <2>3 DEF WorkflowInv
  <2>9. nodeStates'[w] = st /\ \A v \in Workflows : v # w => nodeStates'[v] = nodeStates[v]
    BY <2>3 DEF WorkflowInv
  <2>10. st # NotStarted
    <3>1. DOMAIN deps \in SUBSET WorkflowNodes
      BY DEF Graphs
    <3> QED BY <2>4, <3>1, WorkflowAssumption
  <2>11. \A v \in Workflows : v # w => (Started(v)' <=> Started(v))
    BY <2>9 DEF Started
  <2> QED BY <2>1, <2>3, <2>4, <2>6, <2>7, <2>8, <2>9, <2>10, <2>11 DEF WorkflowInv, Started
<1>3. ASSUME NEW w \in Workflows, NEW n \in WorkflowNodes, ResumeWorkflow(w, n)
      PROVE  WorkflowInv'
  <2>1. "COMPLETED" \in NodeStatus
    BY DEF NodeStatus
  <2>2. Started(w) /\ n \in DOMAIN nodeStates[w] /\ KeepsOrder(w, n, "COMPLETED")
    BY <1>3 DEF ResumeWorkflow
  <2>3. SetNodes(w, DependentsUpdated(w, WithStatus(w, n, "COMPLETED"), n))
    BY <1>3 DEF ResumeWorkflow
  <2> QED BY <2>1, <2>2, <2>3, NodesStep
<1>4. ASSUME NEW w \in Workflows, NEW n \in WorkflowNodes, NEW s \in NodeStatus,
             update_node_state(w, n, s)
      PROVE  WorkflowInv'
  <2>1. Started(w) /\ n \in DOMAIN nodeStates[w] /\ KeepsOrder(w, n, s)
    BY <1>4 DEF update_node_state
  <2>2. SetNodes(w, IF s = "COMPLETED" THEN DependentsUpdated(w, WithStatus(w, n, s), n)
                                       ELSE WithStatus(w, n, s))
    BY <1>4 DEF update_node_state
  <2> QED BY <2>1, <2>2, NodesStep
<1>5. CASE WorkflowClearAll
  BY <1>5 DEF WorkflowClearAll, WorkflowInv, Started
<1>6. CASE UNCHANGED workflowVars
  BY <1>6 DEF workflowVars, WorkflowInv, Started
<1> QED BY <1>1, <1>2, <1>3, <1>4, <1>5, <1>6 DEF WorkflowNext

\* In a graph without cycles, the nodes that wait cannot all wait for one another: when none
\* is ready or runs, all are completed.
LEMMA WorkflowMeans == ASSUME WorkflowInv PROVE WorkflowTypeOK /\ OrderlyRunsEnd
<1>1. WorkflowTypeOK
  <2>1. \A w \in Workflows : definitions[w] = NoDefinition \/ definitions[w] \in Requested \ {<<>>}
    BY DEF WorkflowInv, Requested, Graphs
  <2> QED BY <2>1 DEF WorkflowInv, WorkflowTypeOK
<1>2. ASSUME NEW w \in orderly, Started(w)
      PROVE  LET st == nodeStates[w] IN
             /\ w \in endedAt <=> \A n \in DOMAIN st : st[n] = "COMPLETED"
             /\ w \in endedAt \/ \E n \in DOMAIN st : st[n] \in {"READY", "RUNNING"}
             /\ \A n \in DOMAIN st : st[n] # "PENDING" =>
                  \A d \in definitions[w][n] : st[d] = "COMPLETED"
  <2>1. PICK deps \in Graphs : /\ deps = definitions[w] /\ deps # <<>> /\ DependenciesExist(deps)
                               /\ ~HasCycle(deps)
    BY <1>2 DEF WorkflowInv
  <2>2. PICK st \in [DOMAIN deps -> NodeStatus] : st = nodeStates[w]
    BY <1>2, <2>1 DEF WorkflowInv
  <2>3. /\ Orderly(st) /\ TurnsAreRight(deps, st)
        /\ w \in endedAt <=> \A n \in DOMAIN st : st[n] = "COMPLETED"
    BY <1>2, <2>1, <2>2 DEF WorkflowInv
  <2>4. \A n \in DOMAIN deps : deps[n] \subseteq DOMAIN deps
    BY <2>1, GraphFacts
  <2>5. ASSUME \A n \in DOMAIN st : st[n] \notin {"READY", "RUNNING"}
        PROVE  \A n \in DOMAIN st : st[n] = "COMPLETED"
    <3>1. PICK waiting : waiting = {n \in DOMAIN deps : st[n] = "PENDING"}
      OBVIOUS
    <3>2. \A n \in DOMAIN deps : n \notin waiting => st[n] = "COMPLETED"
      BY <2>3, <2>5, <3>1 DEF Orderly
    <3>3. \A n \in waiting : deps[n] \cap waiting # {}
      BY <2>3, <2>4, <3>1, <3>2 DEF TurnsAreRight
    <3>4. waiting = {}
      BY <2>1, <3>1, <3>3 DEF HasCycle
    <3> QED BY <3>2, <3>4
  <2> QED BY <2>1, <2>2, <2>3, <2>5 DEF TurnsAreRight
<1>3. OrderlyRunsEnd
  BY <1>2 DEF OrderlyRunsEnd
<1> QED BY <1>1, <1>3
-------------------------------------------------------------------------------
(* The negotiation room *)

Proposals(q) == {i \in DOMAIN q : q[i].op = "propose"}

\* The calls that queue: there is room for the proposals among them, and only critics vote.
QueueInv ==
  /\ calls \in Seq(Call)
  /\ \A i \in DOMAIN calls : calls[i].op = "vote" => calls[i].caller \in Critics
  /\ made \in Nat /\ made + Cardinality(Proposals(calls)) <= MaxProposals
\* The room's tables, and who waits for which Event.
RoomTables ==
  /\ votes \in [Artifacts -> SUBSET Critics] /\ fired \subseteq Events
  /\ decisions \in [Artifacts -> Outcomes \cup {NoDecision}]
  /\ eventOf \in [Artifacts -> Events \cup {NoEvent}]
  /\ phase \in [Callers -> {"idle", "queued", "waiting", "woken"}]
  /\ waitsOn \in [Callers -> [artifact : Artifacts, event : Events \cup {NoEvent}]]
  /\ \A c \in Callers : phase[c] \in {"waiting", "woken"} => waitsOn[c].event # NoEvent
RoomInv == QueueInv /\ RoomTables /\ NoLostWakeUp

\* A queue has finitely many proposals; one that is appended is one more.
LEMMA AppendedCall ==
  ASSUME NEW q \in Seq(Call), NEW e \in Call
  PROVE  /\ IsFiniteSet(Proposals(q)) /\ Cardinality(Proposals(q)) \in Nat
         /\ Append(q, e) \in Seq(Call) /\ Len(Append(q, e)) = Len(q) + 1
         /\ \A i \in DOMAIN Append(q, e) : (i \in DOMAIN q /\ Append(q, e)[i] = q[i]) \/ Append(q, e)[i] = e
         /\ Cardinality(Proposals(Append(q, e)))
              = Cardinality(Proposals(q)) + (IF e.op = "propose" THEN 1 ELSE 0)
<1>1. IsFiniteSet(Proposals(q)) /\ Cardinality(Proposals(q)) \in Nat
  <2>1. IsFiniteSet(1..Len(q))
    BY FS_Interval
  <2>2. Proposals(q) \in SUBSET (1..Len(q))
    BY DEF Proposals
  <2>3. IsFiniteSet(Proposals(q))
    BY <2>1, <2>2, FS_Subset
  <2> QED BY <2>3, FS_CardinalityType
<1>2. /\ Append(q, e) \in Seq(Call) /\ Len(Append(q, e)) = Len(q) + 1
      /\ \A i \in 1..Len(q) : Append(q, e)[i] = q[i]
      /\ Append(q, e)[Len(q) + 1] = e
  OBVIOUS
<1>3. DOMAIN q = 1..Len(q) /\ DOMAIN Append(q, e) = 1..(Len(q) + 1) /\ Len(q) \in Nat
  BY <1>2
<1>4. Proposals(Append(q, e)) = IF e.op = "propose" THEN Proposals(q) \cup {Len(q) + 1} ELSE Proposals(q)
  BY <1>2, <1>3 DEF Proposals
<1>5. Len(q) + 1 \notin Proposals(q)
  BY <1>3 DEF Proposals
<1>6. Cardinality(Proposals(q) \cup {Len(q) + 1}) = Cardinality(Proposals(q)) + 1
  BY <1>1, <1>5, FS_AddElement
<1> QED BY <1>1, <1>2, <1>3, <1>4, <1>6

\* The first call leaves the queue, and with it a proposal if it is one.
LEMMA TakenCall ==
  ASSUME NEW q \in Seq(Call), q # <<>>
  PROVE  /\ Head(q) \in Call /\ Head(q) = q[1] /\ 1 \in DOMAIN q /\ Tail(q) \in Seq(Call)
         /\ \A i \in DOMAIN Tail(q) : i + 1 \in DOMAIN q /\ Tail(q)[i] = q[i + 1]
         /\ Cardinality(Proposals(Tail(q))) \in Nat
         /\ Cardinality(Proposals(Tail(q))) + (IF Head(q).op = "propose" THEN 1 ELSE 0)
              <= Cardinality(Proposals(q))
<1>1. /\ Head(q) \in Call /\ Head(q) = q[1] /\ Tail(q) \in Seq(Call) /\ Len(Tail(q)) = Len(q) - 1
      /\ Len(q) \in Nat /\ Len(q) > 0 /\ \A i \in 1..(Len(q) - 1) : Tail(q)[i] = q[i + 1]
  OBVIOUS
<1>2. DOMAIN q = 1..Len(q) /\ DOMAIN Tail(q) = 1..(Len(q) - 1)
  BY <1>1
<1>3. /\ IsFiniteSet(Proposals(q)) /\ Cardinality(Proposals(q)) \in Nat
      /\ Cardinality(Proposals(Tail(q))) \in Nat
  BY <1>1, AppendedCall
<1>4. PICK f : f = [i \in Proposals(Tail(q)) |-> i + 1]
  OBVIOUS
<1>5. f \in Injection(Proposals(Tail(q)), Proposals(q) \ {1})
  <2>1. \A i \in Proposals(Tail(q)) : i \in Nat /\ i # 0 /\ i + 1 \in Proposals(q) \ {1}
    BY <1>1, <1>2 DEF Proposals
  <2>2. f \in [Proposals(Tail(q)) -> Proposals(q) \ {1}]
    BY <1>4, <2>1
  <2>3. \A i, j \in Proposals(Tail(q)) : f[i] = f[j] => i = j
    BY <1>4, <2>1
  <2> QED BY <2>2, <2>3 DEF Injection, IsInjective
<1>6. /\ IsFiniteSet(Proposals(q) \ {1})
      /\ Cardinality(Proposals(q) \ {1})
           = IF 1 \in Proposals(q) THEN Cardinality(Proposals(q)) - 1 ELSE Cardinality(Proposals(q))
  BY <1>3, FS_RemoveElement
<1>7. Cardinality(Proposals(Tail(q))) <= Cardinality(Proposals(q) \ {1})
  BY <1>5, <1>6, FS_Injection
<1>8. Head(q).op = "propose" => 1 \in Proposals(q)
  BY <1>1, <1>2 DEF Proposals
<1> QED BY <1>1, <1>2, <1>3, <1>6, <1>7, <1>8

\* Nobody calls.
LEMMA InitRoom == RoomInit => RoomInv
<1> SUFFICES ASSUME RoomInit PROVE RoomInv
  OBVIOUS
<1>1. <<>> \in Seq(Call) /\ DOMAIN <<>> = {} /\ Proposals(<<>>) = {}
  BY DEF Proposals
<1>2. QueueInv
  <2>1. calls = <<>> /\ made = 0 /\ calls \in Seq(Call)
    BY <1>1 DEF RoomInit
  <2>2. Proposals(calls) = {} /\ DOMAIN calls = {}
    BY <1>1, <2>1
  <2>3. Cardinality(Proposals(calls)) = 0
    BY <2>2, FS_EmptySet
  <2> QED BY <2>1, <2>2, <2>3, RoomAssumption DEF QueueInv
<1>3. RoomTables
  BY RoomAssumption DEF RoomInit, RoomTables, NoWait
<1> QED BY <1>2, <1>3 DEF RoomInit, RoomInv, NoLostWakeUp

\* A worker takes a call off the queue.
LEMMA HandlesFacts ==
  ASSUME RoomInv, NEW op \in {"propose", "vote", "wait"}, NEW p \in {"idle", "waiting"}, Handles(op, p),
         made' = made \/ (op = "propose" /\ made' = made + 1)
  PROVE  /\ QueueInv' /\ Head(calls) \in Call /\ made' <= MaxProposals
         /\ op = "vote" => Head(calls).caller \in Critics
         /\ phase' = [phase EXCEPT ![Head(calls).caller] = p]
         /\ phase' \in [Callers -> {"idle", "queued", "waiting", "woken"}]
<1>1. /\ calls \in Seq(Call) /\ calls # <<>> /\ Head(calls).op = op /\ calls' = Tail(calls)
      /\ phase' = [phase EXCEPT ![Head(calls).caller] = p]
  BY DEF Handles, RoomInv, QueueInv
<1>2. /\ Head(calls) \in Call /\ Head(calls) = calls[1] /\ 1 \in DOMAIN calls /\ Tail(calls) \in Seq(Call)
      /\ \A i \in DOMAIN Tail(calls) : i + 1 \in DOMAIN calls /\ Tail(calls)[i] = calls[i + 1]
      /\ Cardinality(Proposals(Tail(calls))) \in Nat
      /\ Cardinality(Proposals(Tail(calls))) + (IF Head(calls).op = "propose" THEN 1 ELSE 0)
           <= Cardinality(Proposals(calls))
      /\ Cardinality(Proposals(calls)) \in Nat
  BY <1>1, TakenCall, AppendedCall
<1>3. made' \in Nat /\ made' + Cardinality(Proposals(calls')) <= MaxProposals /\ made' <= MaxProposals
  BY <1>1, <1>2, RoomAssumption DEF RoomInv, QueueInv
<1>4. QueueInv'
  BY <1>1, <1>2, <1>3 DEF RoomInv, QueueInv
<1> QED BY <1>1, <1>2, <1>3, <1>4 DEF RoomInv, QueueInv, RoomTables, Call

\* The handlers, the waits, the decisions and the clearing: whenever a decision is stored
\* between a caller's look at the decisions and its wait, the Event it waits for is set.
LEMMA RoomStep ==
  ASSUME RoomInv, [RoomNext]_roomVars
  PROVE  RoomInv'
<1>t. RoomTables /\ QueueInv /\ NoLostWakeUp /\ MaxProposals \in Nat /\ Artifacts # {}
  BY RoomAssumption DEF RoomInv
<1>s. /\ "propose" \in {"propose", "vote", "wait"} /\ "vote" \in {"propose", "vote", "wait"}
      /\ "wait" \in {"propose", "vote", "wait"}
      /\ "idle" \in {"idle", "waiting"} /\ "waiting" \in {"idle", "waiting"}
  OBVIOUS
<1>1. ASSUME NEW c \in Callers, NEW op \in {"propose", "vote", "wait"}, NEW a \in Artifacts, Submit(c, op, a)
      PROVE  RoomInv'
  <2>1. PICK e \in Call : e = [caller |-> c, op |-> op, artifact |-> a]
    BY DEF Call
  <2>2. /\ calls' = Append(calls, e) /\ phase' = [phase EXCEPT ![c] = "queued"]
        /\ UNCHANGED <<votes, decisions, eventOf, fired, made, waitsOn>>
        /\ op = "vote" => c \in Critics
    BY <1>1, <2>1 DEF Submit, Room
  <2>3. op = "propose" => made + Cardinality(Proposals(calls)) < MaxProposals
    BY <1>1 DEF Submit, ProposalsLeft, Proposals
  <2>4. QueueInv'
    <3>1. /\ Append(calls, e) \in Seq(Call)
          /\ \A i \in DOMAIN Append(calls, e) :
               (i \in DOMAIN calls /\ Append(calls, e)[i] = calls[i]) \/ Append(calls, e)[i] = e
          /\ Cardinality(Proposals(calls)) \in Nat
          /\ Cardinality(Proposals(Append(calls, e)))
               = Cardinality(Proposals(calls)) + (IF e.op = "propose" THEN 1 ELSE 0)
      BY <1>t, AppendedCall DEF QueueInv
    <3>2. \A i \in DOMAIN calls' : calls'[i].op = "vote" => calls'[i].caller \in Critics
      BY <1>t, <2>1, <2>2, <3>1 DEF QueueInv
    <3>3. made' \in Nat /\ made' + Cardinality(Proposals(calls')) <= MaxProposals
      BY <1>t, <2>1, <2>2, <2>3, <3>1 DEF QueueInv
    <3> QED BY <2>2, <3>1, <3>2, <3>3 DEF QueueInv
  <2>5. RoomTables'
    BY <1>t, <2>2 DEF RoomTables
  <2>6. NoLostWakeUp'
    BY <1>t, <2>2 DEF NoLostWakeUp, RoomTables
  <2> QED BY <2>4, <2>5, <2>6 DEF RoomInv
<1>2. CASE SubmitProposal
  <2>1. PICK h : h = Head(calls)
    OBVIOUS
  <2>2. /\ Handles("propose", "idle") /\ UNCHANGED waitsOn
        /\ \/ UNCHANGED <<votes, decisions, eventOf, fired, made>>
           \/ /\ ~Proposed(h.artifact) /\ made' = made + 1
              /\ eventOf' = [eventOf EXCEPT ![h.artifact] = made + 1]
              /\ votes' = [votes EXCEPT ![h.artifact] = {}]
              /\ UNCHANGED <<decisions, fired>>
    BY <1>2, <2>1 DEF SubmitProposal, Room
  <2>3. /\ QueueInv' /\ h \in Call /\ made' <= MaxProposals
        /\ phase' = [phase EXCEPT ![h.caller] = "idle"]
        /\ phase' \in [Callers -> {"idle", "queued", "waiting", "woken"}]
    <3>1. RoomInv /\ Handles("propose", "idle")
      BY <2>2
    <3>2. made' = made \/ ("propose" = "propose" /\ made' = made + 1)
      BY <2>2
    <3>3. /\ QueueInv' /\ Head(calls) \in Call /\ made' <= MaxProposals
          /\ "propose" = "vote" => Head(calls).caller \in Critics
          /\ phase' = [phase EXCEPT ![Head(calls).caller] = "idle"]
          /\ phase' \in [Callers -> {"idle", "queued", "waiting", "woken"}]
      BY <1>s, <3>1, <3>2, HandlesFacts, Zenon
    <3> QED BY <2>1, <3>3
  <2>4. RoomTables'
    <3>1. made + 1 = made' => made + 1 \in Events
      BY <1>t, <2>3 DEF QueueInv, Events
    <3> QED BY <1>t, <2>2, <2>3, <3>1 DEF RoomTables, Call
  <2>5. NoLostWakeUp'
    BY <1>t, <2>2, <2>3 DEF NoLostWakeUp, RoomTables, Proposed, Call
  <2> QED BY <2>3, <2>4, <2>5 DEF RoomInv
<1>3. CASE SubmitVote
  <2>1. PICK h : h = Head(calls)
    OBVIOUS
  <2>2. /\ Handles("vote", "idle") /\ UNCHANGED <<decisions, eventOf, fired, made, waitsOn>>
        /\ \/ votes' = [votes EXCEPT ![h.artifact] = @ \cup {h.caller}]
           \/ votes' = votes
    BY <1>3, <2>1 DEF SubmitVote
  <2>3. /\ QueueInv' /\ h \in Call /\ h.caller \in Critics
        /\ phase' = [phase EXCEPT ![h.caller] = "idle"]
        /\ phase' \in [Callers -> {"idle", "queued", "waiting", "woken"}]
    <3>1. RoomInv /\ Handles("vote", "idle")
      BY <2>2
    <3>2. made' = made \/ ("vote" = "propose" /\ made' = made + 1)
      BY <2>2
    <3>3. /\ QueueInv' /\ Head(calls) \in Call /\ made' <= MaxProposals
          /\ "vote" = "vote" => Head(calls).caller \in Critics
          /\ phase' = [phase EXCEPT ![Head(calls).caller] = "idle"]
          /\ phase' \in [Callers -> {"idle", "queued", "waiting", "woken"}]
      BY <1>s, <3>1, <3>2, HandlesFacts, Zenon
    <3> QED BY <2>1, <3>3
  <2>4. RoomTables'
    BY <1>t, <2>2, <2>3 DEF RoomTables, Call
  <2>5. NoLostWakeUp'
    BY <1>t, <2>2, <2>3 DEF NoLostWakeUp, RoomTables, Call
  <2> QED BY <2>3, <2>4, <2>5 DEF RoomInv
<1>4. CASE AnsweredAtOnce
  <2>1. PICK h : h = Head(calls)
    OBVIOUS
  <2>2. /\ Handles("wait", "idle") /\ UNCHANGED <<votes, decisions, eventOf, fired, made, waitsOn>>
    BY <1>4 DEF AnsweredAtOnce, Room
  <2>3. /\ QueueInv' /\ h \in Call /\ phase' = [phase EXCEPT ![h.caller] = "idle"]
        /\ phase' \in [Callers -> {"idle", "queued", "waiting", "woken"}]
    <3>1. RoomInv /\ Handles("wait", "idle")
      BY <2>2
    <3>2. made' = made \/ ("wait" = "propose" /\ made' = made + 1)
      BY <2>2
    <3>3. /\ QueueInv' /\ Head(calls) \in Call /\ made' <= MaxProposals
          /\ "wait" = "vote" => Head(calls).caller \in Critics
          /\ phase' = [phase EXCEPT ![Head(calls).caller] = "idle"]
          /\ phase' \in [Callers -> {"idle", "queued", "waiting", "woken"}]
      BY <1>s, <3>1, <3>2, HandlesFacts, Zenon
    <3> QED BY <2>1, <3>3
  <2>4. RoomTables'
    BY <1>t, <2>2, <2>3 DEF RoomTables, Call
  <2>5. NoLostWakeUp'
    BY <1>t, <2>2, <2>3 DEF NoLostWakeUp, RoomTables, Call
  <2> QED BY <2>3, <2>4, <2>5 DEF RoomInv
<1>5. CASE StartsToWait
  <2>1. PICK h : h = Head(calls)
    OBVIOUS
  <2>2. /\ Handles("wait", "waiting") /\ UNCHANGED <<votes, decisions, eventOf, fired, made>>
        /\ Proposed(h.artifact) /\ decisions[h.artifact] = NoDecision
        /\ waitsOn' = [waitsOn EXCEPT ![h.caller] = [artifact |-> h.artifact, event |-> eventOf[h.artifact]]]
    BY <1>5, <2>1 DEF StartsToWait, Room
  <2>3. /\ QueueInv' /\ h \in Call /\ phase' = [phase EXCEPT ![h.caller] = "waiting"]
        /\ phase' \in [Callers -> {"idle", "queued", "waiting", "woken"}]
    <3>1. RoomInv /\ Handles("wait", "waiting")
      BY <2>2
    <3>2. made' = made \/ ("wait" = "propose" /\ made' = made + 1)
      BY <2>2
    <3>3. /\ QueueInv' /\ Head(calls) \in Call /\ made' <= MaxProposals
          /\ "wait" = "vote" => Head(calls).caller \in Critics
          /\ phase' = [phase EXCEPT ![Head(calls).caller] = "waiting"]
          /\ phase' \in [Callers -> {"idle", "queued", "waiting", "woken"}]
      BY <1>s, <3>1, <3>2, HandlesFacts, Zenon
    <3> QED BY <2>1, <3>3
  <2>4. RoomTables'
    BY <1>t, <2>2, <2>3 DEF RoomTables, Call, Proposed
  <2>5. NoLostWakeUp'
    BY <1>t, <2>2, <2>3 DEF NoLostWakeUp, RoomTables, Call
  <2> QED BY <2>3, <2>4, <2>5 DEF RoomInv
<1>6. ASSUME NEW c \in Callers, Wakes(c) \/ ReadsDecision(c) \/ TimesOut(c)
      PROVE  RoomInv'
  <2>1. QueueInv'
    BY <1>t, <1>6 DEF Wakes, ReadsDecision, TimesOut, Returns, Room, QueueInv
  <2>2. NoWait \in [artifact : Artifacts, event : Events \cup {NoEvent}]
    BY <1>t DEF NoWait
  <2>3. RoomTables'
    <3>1. CASE Wakes(c)
      BY <1>t, <3>1 DEF Wakes, Room, RoomTables
    <3>2. CASE Returns(c)
      <4>1. waitsOn' = [waitsOn EXCEPT ![c] = NoWait] /\ phase' = [phase EXCEPT ![c] = "idle"]
            /\ UNCHANGED <<votes, decisions, eventOf, fired, made>>
        BY <3>2 DEF Returns, Room
      <4>2. waitsOn' \in [Callers -> [artifact : Artifacts, event : Events \cup {NoEvent}]]
        BY <1>t, <2>2, <4>1 DEF RoomTables
      <4>3. \A b \in Callers : phase'[b] \in {"waiting", "woken"} => waitsOn'[b] = waitsOn[b] /\ phase'[b] = phase[b]
        BY <1>t, <4>1 DEF RoomTables
      <4> QED BY <1>t, <4>1, <4>2, <4>3 DEF RoomTables
    <3> QED BY <1>6, <3>1, <3>2 DEF ReadsDecision, TimesOut
  <2>4. NoLostWakeUp'
    BY <1>t, <1>6 DEF Wakes, ReadsDecision, TimesOut, Returns, Room, NoLostWakeUp, RoomTables
  <2> QED BY <2>1, <2>3, <2>4 DEF RoomInv
<1>7. ASSUME NEW a \in Artifacts, NEW outcome \in Outcomes, store_decision(a, outcome)
      PROVE  RoomInv'
  <2>1. eventOf[a] \in Events
    BY <1>t, <1>7 DEF store_decision, Proposed, RoomTables
  <2>2. QueueInv'
    BY <1>t, <1>7 DEF store_decision, QueueInv
  <2>3. RoomTables'
    BY <1>t, <1>7, <2>1 DEF store_decision, Fires, RoomTables
  <2>4. NoLostWakeUp'
    BY <1>t, <1>7 DEF store_decision, Fires, NoLostWakeUp, RoomTables
  <2> QED BY <2>2, <2>3, <2>4 DEF RoomInv
<1>8. CASE RoomClearAll
  <2>1. QueueInv'
    BY <1>t, <1>8 DEF RoomClearAll, QueueInv
  <2>2. fired' = fired \cup {eventOf[a] : a \in {b \in Artifacts : eventOf[b] # NoEvent}}
    BY <1>8 DEF RoomClearAll, Proposed
  <2>3. RoomTables'
    BY <1>t, <1>8, <2>2 DEF RoomClearAll, RoomTables
  <2>4. NoLostWakeUp'
    BY <1>t, <1>8, <2>2 DEF RoomClearAll, NoLostWakeUp, RoomTables
  <2> QED BY <2>1, <2>3, <2>4 DEF RoomInv
<1>9. CASE UNCHANGED roomVars
  <2>1. QueueInv' /\ RoomTables' /\ NoLostWakeUp'
    BY <1>t, <1>9 DEF roomVars, QueueInv, RoomTables, NoLostWakeUp
  <2> QED BY <2>1 DEF RoomInv
<1> QED BY <1>1, <1>2, <1>3, <1>4, <1>5, <1>6, <1>7, <1>8, <1>9 DEF RoomNext, Serve

\* The types of the model.
LEMMA RoomMeans == RoomInv => RoomTypeOK /\ NoLostWakeUp
<1> SUFFICES ASSUME RoomInv PROVE RoomTypeOK
  BY DEF RoomInv
<1>1. Cardinality(Proposals(calls)) \in Nat
  <2>1. IsFiniteSet(1..Len(calls))
    BY FS_Interval DEF RoomInv, QueueInv
  <2>2. Proposals(calls) \in SUBSET (1..Len(calls))
    BY DEF Proposals, RoomInv, QueueInv
  <2> QED BY <2>1, <2>2, FS_Subset, FS_CardinalityType
<1>2. made \in 0..MaxProposals
  BY <1>1, RoomAssumption DEF RoomInv, QueueInv
<1> QED BY <1>2 DEF RoomInv, QueueInv, RoomTables, RoomTypeOK
-------------------------------------------------------------------------------
(* The seed sessions *)

In(q, x) == \E i \in DOMAIN q : q[i] = x
OnceIn(q, x) == \A i, j \in DOMAIN q : q[i] = x /\ q[j] = x => i = j

\* What appending to a queue, and taking its head, does to an element's presence.
LEMMA QueueFacts ==
  ASSUME NEW S, NEW q \in Seq(S)
  PROVE  /\ \A e \in S : \A x : /\ Append(q, e) \in Seq(S)
                                /\ In(Append(q, e), x) <=> In(q, x) \/ e = x
                                /\ OnceIn(q, x) /\ (e = x => ~In(q, x)) => OnceIn(Append(q, e), x)
         /\ q # <<>> =>
              /\ Tail(q) \in Seq(S) /\ Head(q) \in S
              /\ \A x : /\ In(Tail(q), x) => In(q, x)
                        /\ OnceIn(q, x) => OnceIn(Tail(q), x)
                        /\ OnceIn(q, x) /\ Head(q) = x => ~In(Tail(q), x)
                        /\ Head(q) = x => In(q, x)
<1>1. ASSUME NEW e \in S, NEW x
      PROVE  /\ Append(q, e) \in Seq(S)
             /\ In(Append(q, e), x) <=> In(q, x) \/ e = x
             /\ OnceIn(q, x) /\ (e = x => ~In(q, x)) => OnceIn(Append(q, e), x)
  <2>1. PICK p : p = Append(q, e)
    OBVIOUS
  <2>2. /\ p \in Seq(S) /\ DOMAIN q = 1..Len(q) /\ DOMAIN p = 1..(Len(q) + 1) /\ Len(q) \in Nat
        /\ p[Len(q) + 1] = e /\ \A i \in 1..Len(q) : p[i] = q[i]
    BY <2>1
  <2>3. In(p, x) <=> In(q, x) \/ e = x
    BY <2>2 DEF In
  <2>4. ASSUME OnceIn(q, x), e = x => ~In(q, x) PROVE OnceIn(p, x)
    BY <2>2, <2>4 DEF OnceIn, In
  <2> QED BY <2>1, <2>2, <2>3, <2>4
<1>2. ASSUME q # <<>>, NEW x
      PROVE  /\ Tail(q) \in Seq(S) /\ Head(q) \in S
             /\ In(Tail(q), x) => In(q, x)
             /\ OnceIn(q, x) => OnceIn(Tail(q), x)
             /\ OnceIn(q, x) /\ Head(q) = x => ~In(Tail(q), x)
             /\ Head(q) = x => In(q, x)
  <2>1. PICK p : p = Tail(q)
    OBVIOUS
  <2>2. /\ p \in Seq(S) /\ DOMAIN q = 1..Len(q) /\ DOMAIN p = 1..(Len(q) - 1) /\ Len(q) \in Nat
        /\ Len(q) > 0 /\ \A i \in 1..(Len(q) - 1) : p[i] = q[i + 1]
        /\ Head(q) = q[1] /\ Head(q) \in S
    BY <1>2, <2>1
  <2>3. \A i \in DOMAIN p : i + 1 \in DOMAIN q /\ p[i] = q[i + 1] /\ i + 1 # 1 /\ i \in Nat
    BY <2>2
  <2>4. 1 \in DOMAIN q
    BY <2>2
  <2>5. In(p, x) => In(q, x)
    BY <2>3 DEF In
  <2>6. OnceIn(q, x) => OnceIn(p, x)
    <3> SUFFICES ASSUME OnceIn(q, x), NEW i \in DOMAIN p, NEW j \in DOMAIN p, p[i] = x, p[j] = x
                 PROVE  i = j
      BY DEF OnceIn
    <3>1. i + 1 = j + 1
      BY <2>3 DEF OnceIn
    <3> QED BY <2>3, <3>1
  <2>7. OnceIn(q, x) /\ Head(q) = x => ~In(p, x)
    <3> SUFFICES ASSUME OnceIn(q, x), Head(q) = x, NEW i \in DOMAIN p, p[i] = x PROVE FALSE
      BY DEF In
    <3> QED BY <2>2, <2>3, <2>4 DEF OnceIn
  <2> QED BY <2>1, <2>2, <2>4, <2>5, <2>6, <2>7 DEF In
<1> QED
  <2>1. q # <<>> => Tail(q) \in Seq(S) /\ Head(q) \in S
    BY <1>2
  <2> QED BY <1>1, <1>2, <2>1

Cmd(s, c) == [stage |-> s, corr |-> c]
Rep(r, s, ok, c) == [role |-> r, stage |-> s, ok |-> ok, corr |-> c]
OkOf(c, s) == IF s = "generate" THEN Session(c).generate_ok ELSE Session(c).run_ok
\* One prompt, and no operator who asks for a run.
Undisturbed(c) == prompted[c].plan <= 1 /\ prompted[c].run = 0

\* The life of a command: it is on its way, is carried out once, is reported once, and is
\* taken note of.
InOrder(c, r, s) ==
  /\ OnceIn(commanded[r], Cmd(s, c))
  /\ \A ok \in BOOLEAN : /\ <<s, ok>> \in began[c][r] => ~In(commanded[r], Cmd(s, c))
                         /\ \A no \in BOOLEAN : <<s, ok>> \in began[c][r] /\ <<s, no>> \in began[c][r] => ok = no
                         /\ OnceIn(reported, Rep(r, s, ok, c))
                         /\ In(reported, Rep(r, s, ok, c)) => <<s, ok>> \in began[c][r]
                         /\ r \in OkOf(c, s) => ~In(reported, Rep(r, s, ok, c))
  /\ r \in OkOf(c, s) => <<s, TRUE>> \in began[c][r]
  /\ s = "run" /\ (In(commanded[r], Cmd(s, c)) \/ \E ok \in BOOLEAN : <<s, ok>> \in began[c][r])
       => OkOf(c, "generate") = Roles
  /\ prompted[c].plan = 0 => ~In(commanded[r], Cmd(s, c)) /\ began[c][r] = {}
SessionGood(c) ==
  /\ \A r \in Roles : \A s \in Stages : InOrder(c, r, s)
  /\ Session(c).done => OkOf(c, "run") = Roles

Report == [role : Roles, stage : Stages, ok : BOOLEAN, corr : Correlations]
Command == [stage : Stages, corr : Correlations]
SessionTypes ==
  /\ sessions \in [Correlations -> Sessions \cup {NoSession}]
  /\ commanded \in [Roles -> Seq(Command)] /\ reported \in Seq(Report)
  /\ sendFaults \in 0..MaxSendFaults
  /\ prompted \in [Correlations -> [plan : Nat, run : Nat]]
  /\ began \in [Correlations -> [Roles -> SUBSET (Stages \X BOOLEAN)]]
SessionInv == SessionTypes /\ \A c \in Correlations : Undisturbed(c) => SessionGood(c)

\* Nobody has asked for anything.
LEMMA InitSession == SessionInit => SessionInv
<1> SUFFICES ASSUME SessionInit PROVE SessionInv
  OBVIOUS
<1>1. <<>> \in Seq(Command) /\ <<>> \in Seq(Report)
  OBVIOUS
<1>2. SessionTypes
  BY <1>1, SessionAssumption DEF SessionInit, SessionTypes
<1>3. ASSUME NEW c \in Correlations PROVE SessionGood(c)
  <2>1. Session(c) = NewSession
    BY DEF SessionInit, Session
  <2>2. \A x : OnceIn(<<>>, x) /\ ~In(<<>>, x)
    BY DEF OnceIn, In
  <2> QED BY <2>1, <2>2 DEF SessionInit, SessionGood, InOrder, OkOf, NewSession
<1> QED BY <1>2, <1>3 DEF SessionInv

\* A session that a step does not concern: nothing of it is sent, carried out or noted.
LEMMA OtherSession ==
  ASSUME NEW c \in Correlations, Undisturbed(c) => SessionGood(c),
         Session(c)' = Session(c), prompted'[c] = prompted[c], began'[c] = began[c],
         \A r \in Roles : \A s \in Stages :
           /\ In(commanded'[r], Cmd(s, c)) => In(commanded[r], Cmd(s, c))
           /\ OnceIn(commanded[r], Cmd(s, c)) => OnceIn(commanded'[r], Cmd(s, c)),
         \A r \in Roles : \A s \in Stages : \A ok \in BOOLEAN :
           /\ In(reported', Rep(r, s, ok, c)) => In(reported, Rep(r, s, ok, c))
           /\ OnceIn(reported, Rep(r, s, ok, c)) => OnceIn(reported', Rep(r, s, ok, c))
  PROVE  Undisturbed(c)' => SessionGood(c)'
<1> SUFFICES ASSUME Undisturbed(c)' PROVE SessionGood(c)'
  OBVIOUS
<1>1. SessionGood(c)
  BY DEF Undisturbed
<1>2. \A s \in Stages : OkOf(c, s)' = OkOf(c, s)
  BY DEF OkOf
<1>3. ASSUME NEW r \in Roles, NEW s \in Stages PROVE InOrder(c, r, s)'
  <2>1. InOrder(c, r, s) /\ OkOf(c, s)' = OkOf(c, s) /\ OkOf(c, "generate")' = OkOf(c, "generate")
    BY <1>1, <1>2 DEF SessionGood, Stages
  <2> QED BY <2>1 DEF InOrder
<1>4. OkOf(c, "run")' = OkOf(c, "run")
  BY <1>2 DEF Stages
<1> QED BY <1>1, <1>3, <1>4 DEF SessionGood

\* Commands of a stage for a session go to the queues of the agents they reach.
LEMMA CommandsFacts ==
  ASSUME SessionTypes, NEW c \in Correlations, NEW s \in Stages, NEW roles \in SUBSET Roles,
         Commands(c, s, roles)
  PROVE  /\ commanded' \in [Roles -> Seq(Command)] /\ sendFaults' \in 0..MaxSendFaults
         /\ \A r \in Roles : commanded'[r] = commanded[r] \/ commanded'[r] = Append(commanded[r], Cmd(s, c))
         /\ Cmd(s, c) \in Command
<1>1. PICK reached \in SUBSET roles :
        /\ sendFaults' = sendFaults + Cardinality(roles \ reached) /\ sendFaults' <= MaxSendFaults
        /\ commanded' = [r \in Roles |->
             IF r \in reached THEN Append(commanded[r], [stage |-> s, corr |-> c]) ELSE commanded[r]]
  BY DEF Commands
<1>2. IsFiniteSet(Roles)
  <2>0. IsFiniteSet({"frontend"})
    BY FS_Singleton
  <2>1. IsFiniteSet({"frontend"} \cup {"backend"})
    BY <2>0, FS_AddElement
  <2>2. Roles = {"frontend"} \cup {"backend"}
    BY DEF Roles
  <2> QED BY <2>1, <2>2
<1>3. Cardinality(roles \ reached) \in Nat
  <2>1. roles \ reached \in SUBSET Roles
    OBVIOUS
  <2> QED BY <1>2, <2>1, FS_Subset, FS_CardinalityType
<1>4. Cmd(s, c) \in Command /\ Cmd(s, c) = [stage |-> s, corr |-> c]
  BY DEF Cmd, Command
<1>5. \A r \in Roles : Append(commanded[r], Cmd(s, c)) \in Seq(Command)
  BY <1>4 DEF SessionTypes
<1>6. sendFaults' \in 0..MaxSendFaults
  BY <1>1, <1>3, SessionAssumption DEF SessionTypes
<1> QED BY <1>1, <1>4, <1>5, <1>6 DEF SessionTypes

\* A prompt, whichever roles it has commands for, and a run that an operator asks for.
LEMMA PromptStep ==
  ASSUME SessionInv, NEW c \in Correlations, NEW kind \in {"plan", "run"}, Asks(c, kind),
         NEW sess \in Sessions, sessions' = [sessions EXCEPT ![c] = sess],
         NEW s \in Stages, NEW roles \in SUBSET Roles, Commands(c, s, roles) \/ CommandsNothing,
         kind = "plan" => s = "generate",
         sess.generate_ok = Session(c).generate_ok, sess.run_ok = Session(c).run_ok,
         sess.done = Session(c).done
  PROVE  SessionInv'
<1>1. /\ prompted' = [prompted EXCEPT ![c][kind] = @ + 1] /\ reported' = reported /\ began' = began
  BY DEF Asks
<1>2. /\ commanded' \in [Roles -> Seq(Command)] /\ sendFaults' \in 0..MaxSendFaults
      /\ \A r \in Roles : commanded'[r] = commanded[r] \/ commanded'[r] = Append(commanded[r], Cmd(s, c))
      /\ Cmd(s, c) \in Command
  <2>1. CASE Commands(c, s, roles)
    BY <2>1, CommandsFacts DEF SessionInv
  <2>2. CASE CommandsNothing
    BY <2>2 DEF CommandsNothing, SessionInv, SessionTypes, Cmd, Command
  <2> QED BY <2>1, <2>2
<1>3. /\ prompted' \in [Correlations -> [plan : Nat, run : Nat]]
      /\ \A d \in Correlations : d # c => prompted'[d] = prompted[d]
      /\ kind = "run" => prompted'[c].run # 0
      /\ kind = "plan" => /\ prompted'[c].plan = prompted[c].plan + 1
                          /\ prompted'[c].run = prompted[c].run
  BY <1>1 DEF SessionInv, SessionTypes
<1>4. SessionTypes'
  BY <1>1, <1>2, <1>3 DEF SessionInv, SessionTypes
<1>5. ASSUME NEW d \in Correlations, d # c PROVE Undisturbed(d)' => SessionGood(d)'
  <2>1. /\ Session(d)' = Session(d) /\ prompted'[d] = prompted[d] /\ began'[d] = began[d]
        /\ Undisturbed(d) => SessionGood(d)
    BY <1>1, <1>3, <1>5 DEF Session, SessionInv, SessionTypes
  <2>2. ASSUME NEW r \in Roles, NEW t \in Stages
        PROVE  /\ In(commanded'[r], Cmd(t, d)) => In(commanded[r], Cmd(t, d))
               /\ OnceIn(commanded[r], Cmd(t, d)) => OnceIn(commanded'[r], Cmd(t, d))
    <3>1. Cmd(s, c) # Cmd(t, d)
      BY <1>5 DEF Cmd
    <3>2. commanded[r] \in Seq(Command)
      BY DEF SessionInv, SessionTypes
    <3>3. /\ In(Append(commanded[r], Cmd(s, c)), Cmd(t, d)) <=> In(commanded[r], Cmd(t, d)) \/ Cmd(s, c) = Cmd(t, d)
          /\ OnceIn(commanded[r], Cmd(t, d)) /\ (Cmd(s, c) = Cmd(t, d) => ~In(commanded[r], Cmd(t, d)))
               => OnceIn(Append(commanded[r], Cmd(s, c)), Cmd(t, d))
      BY <1>2, <3>2, QueueFacts
    <3> QED BY <1>2, <3>1, <3>3
  <2> QED BY <1>1, <2>1, <2>2, OtherSession
<1>6. ASSUME Undisturbed(c)' PROVE SessionGood(c)'
  <2>1. /\ kind = "plan" /\ s = "generate" /\ prompted[c].plan = 0 /\ Undisturbed(c)
        /\ prompted'[c].plan = 1
    BY <1>3, <1>6 DEF Undisturbed, SessionInv, SessionTypes
  <2>2. Session(c)' = sess
    BY SessionAssumption DEF Session, SessionInv, SessionTypes
  <2>3. \A t \in Stages : OkOf(c, t)' = OkOf(c, t)
    BY <2>2 DEF OkOf
  <2>4. \A r \in Roles : \A t \in Stages : InOrder(c, r, t)
    BY <2>1 DEF SessionInv, SessionGood
  <2>5. ASSUME NEW r \in Roles, NEW t \in Stages PROVE InOrder(c, r, t)'
    <3>1. InOrder(c, r, t) /\ OkOf(c, t)' = OkOf(c, t) /\ ~In(commanded[r], Cmd(t, c)) /\ began[c][r] = {}
      BY <2>1, <2>3, <2>4 DEF InOrder
    <3>2. /\ OnceIn(commanded'[r], Cmd(t, c))
          /\ t = "run" => ~In(commanded'[r], Cmd(t, c))
      <4>1. commanded[r] \in Seq(Command) /\ OnceIn(commanded[r], Cmd(t, c))
        BY <3>1 DEF SessionInv, SessionTypes, InOrder
      <4>2. t = "run" => Cmd(s, c) # Cmd(t, c)
        BY <2>1 DEF Cmd
      <4>3. /\ In(Append(commanded[r], Cmd(s, c)), Cmd(t, c)) <=> In(commanded[r], Cmd(t, c)) \/ Cmd(s, c) = Cmd(t, c)
            /\ OnceIn(commanded[r], Cmd(t, c)) /\ (Cmd(s, c) = Cmd(t, c) => ~In(commanded[r], Cmd(t, c)))
                 => OnceIn(Append(commanded[r], Cmd(s, c)), Cmd(t, c))
        BY <1>2, <4>1, QueueFacts
      <4> QED BY <1>2, <3>1, <4>1, <4>2, <4>3
    <3> QED BY <1>1, <2>1, <3>1, <3>2 DEF InOrder
  <2>6. Session(c)'.done => OkOf(c, "run")' = Roles
    BY <2>1, <2>2, <2>3 DEF SessionInv, SessionGood, Stages
  <2> QED BY <2>5, <2>6 DEF SessionGood
<1> QED BY <1>4, <1>5, <1>6 DEF SessionInv

\* The session a report is of, as it stands.
LEMMA SessionType ==
  ASSUME SessionTypes, NEW c \in Correlations
  PROVE  Session(c) \in Sessions
BY DEF SessionTypes, Session, NewSession, Sessions

\* An agent carries out a command and reports, or the report is lost.
LEMMA AgentActsStep ==
  ASSUME SessionInv, NEW a \in Roles, NEW well \in BOOLEAN, AgentActs(a, well)
  PROVE  SessionInv'
<1>1. PICK q \in Seq(Command) : q = commanded[a]
  BY DEF SessionInv, SessionTypes
<1>2. q # <<>> /\ Head(q) \in Command /\ Tail(q) \in Seq(Command)
  BY <1>1, QueueFacts DEF AgentActs
<1>t. \A x : /\ In(Tail(q), x) => In(q, x)
             /\ OnceIn(q, x) => OnceIn(Tail(q), x)
             /\ OnceIn(q, x) /\ Head(q) = x => ~In(Tail(q), x)
             /\ Head(q) = x => In(q, x)
  <2>1. q # <<>> =>
          /\ Tail(q) \in Seq(Command) /\ Head(q) \in Command
          /\ \A x : /\ In(Tail(q), x) => In(q, x)
                    /\ OnceIn(q, x) => OnceIn(Tail(q), x)
                    /\ OnceIn(q, x) /\ Head(q) = x => ~In(Tail(q), x)
                    /\ Head(q) = x => In(q, x)
    BY QueueFacts
  <2> QED BY <1>2, <2>1, Zenon
<1>3. PICK s \in Stages, c \in Correlations : Head(q) = Cmd(s, c)
  BY <1>2 DEF Command, Cmd
<1>4. /\ commanded' = [commanded EXCEPT ![a] = Tail(q)] /\ UNCHANGED <<sessions, prompted>>
      /\ began' = [began EXCEPT ![c] = [began[c] EXCEPT ![a] = began[c][a] \cup {<<s, well>>}]]
      /\ reported' = Append(reported, Rep(a, s, well, c)) \/ reported' = reported
      /\ sendFaults' = sendFaults \/ (sendFaults < MaxSendFaults /\ sendFaults' = sendFaults + 1)
  <2>1. Head(commanded[a]).stage = s /\ Head(commanded[a]).corr = c
    BY <1>1, <1>3 DEF Cmd
  <2>2. commanded' = [commanded EXCEPT ![a] = Tail(q)] /\ UNCHANGED <<sessions, prompted>>
    BY <1>1 DEF AgentActs
  <2>3. began' = [began EXCEPT ![c] = [began[c] EXCEPT ![a] = began[c][a] \cup {<<s, well>>}]]
    BY <2>1 DEF AgentActs
  <2>4. /\ reported' = Append(reported, Rep(a, s, well, c)) \/ reported' = reported
        /\ sendFaults' = sendFaults \/ (sendFaults < MaxSendFaults /\ sendFaults' = sendFaults + 1)
    BY <2>1 DEF AgentActs, Rep
  <2> QED BY <2>2, <2>3, <2>4
<1>5. /\ Rep(a, s, well, c) \in Report /\ reported \in Seq(Report) /\ <<s, well>> \in Stages \X BOOLEAN
  BY DEF Rep, Report, SessionInv, SessionTypes
<1>r. PICK rep \in Report : rep = Rep(a, s, well, c)
  BY <1>5
<1>6. /\ reported' \in Seq(Report)
      /\ \A x : /\ In(reported', x) => In(reported, x) \/ rep = x
                /\ OnceIn(reported, x) /\ (rep = x => ~In(reported, x)) => OnceIn(reported', x)
  <2>1. reported' = Append(reported, rep) \/ reported' = reported
    BY <1>4, <1>r
  <2>2. /\ Append(reported, rep) \in Seq(Report)
        /\ \A x : /\ In(Append(reported, rep), x) <=> In(reported, x) \/ rep = x
                  /\ OnceIn(reported, x) /\ (rep = x => ~In(reported, x)) => OnceIn(Append(reported, rep), x)
    <3>1. \A e \in Report : \A x :
            /\ Append(reported, e) \in Seq(Report)
            /\ In(Append(reported, e), x) <=> In(reported, x) \/ e = x
            /\ OnceIn(reported, x) /\ (e = x => ~In(reported, x)) => OnceIn(Append(reported, e), x)
      BY <1>5, QueueFacts
    <3> QED BY <3>1, Zenon
  <2> QED BY <1>5, <2>1, <2>2, Zenon
<1>7. \A r \in Roles : \A x : /\ In(commanded'[r], x) => In(commanded[r], x)
                              /\ OnceIn(commanded[r], x) => OnceIn(commanded'[r], x)
  <2> SUFFICES ASSUME NEW r \in Roles, NEW x
               PROVE  /\ In(commanded'[r], x) => In(commanded[r], x)
                      /\ OnceIn(commanded[r], x) => OnceIn(commanded'[r], x)
    OBVIOUS
  <2>1. /\ In(Tail(q), x) => In(q, x)
        /\ OnceIn(q, x) => OnceIn(Tail(q), x)
    BY <1>t, Zenon
  <2>2. commanded'[r] = IF r = a THEN Tail(q) ELSE commanded[r]
    BY <1>4 DEF SessionInv, SessionTypes
  <2> QED BY <1>1, <2>1, <2>2
<1>8. /\ In(commanded[a], Cmd(s, c))
      /\ OnceIn(commanded[a], Cmd(s, c)) => ~In(commanded'[a], Cmd(s, c))
  <2>1. /\ OnceIn(q, Cmd(s, c)) /\ Head(q) = Cmd(s, c) => ~In(Tail(q), Cmd(s, c))
        /\ Head(q) = Cmd(s, c) => In(q, Cmd(s, c))
    BY <1>t, Zenon
  <2>2. commanded'[a] = Tail(q)
    BY <1>4 DEF SessionInv, SessionTypes
  <2> QED BY <1>1, <1>3, <2>1, <2>2
<1>9. \A d \in Correlations : \A r \in Roles :
        began'[d][r] = IF d = c /\ r = a THEN began[c][a] \cup {<<s, well>>} ELSE began[d][r]
  BY <1>4 DEF SessionInv, SessionTypes
<1>10. SessionTypes'
  <2>1. commanded' \in [Roles -> Seq(Command)]
    BY <1>2, <1>4 DEF SessionInv, SessionTypes
  <2>2. reported' \in Seq(Report)
    BY <1>6
  <2>3. began' \in [Correlations -> [Roles -> SUBSET (Stages \X BOOLEAN)]]
    <3>0. PICK w \in SUBSET (Stages \X BOOLEAN) : w = began[c][a] \cup {<<s, well>>}
      <4>1. began[c][a] \in SUBSET (Stages \X BOOLEAN)
        BY DEF SessionInv, SessionTypes
      <4> QED BY <1>5, <4>1
    <3>1. PICK f \in [Roles -> SUBSET (Stages \X BOOLEAN)] : f = [began[c] EXCEPT ![a] = w]
      BY DEF SessionInv, SessionTypes
    <3>2. began' = [began EXCEPT ![c] = f]
      BY <1>4, <3>0, <3>1
    <3> QED BY <3>2 DEF SessionInv, SessionTypes
  <2>4. sendFaults' \in 0..MaxSendFaults
    BY <1>4, SessionAssumption DEF SessionInv, SessionTypes
  <2> QED BY <1>4, <2>1, <2>2, <2>3, <2>4 DEF SessionInv, SessionTypes
<1>11. \A d \in Correlations : Session(d)' = Session(d) /\ prompted'[d] = prompted[d]
  BY <1>4 DEF Session
<1>12. ASSUME NEW d \in Correlations, d # c PROVE Undisturbed(d)' => SessionGood(d)'
  <2>1. began'[d] = began[d]
    BY <1>4, <1>12 DEF SessionInv, SessionTypes
  <2>2. ASSUME NEW r \in Roles, NEW t \in Stages, NEW ok \in BOOLEAN
        PROVE  /\ In(reported', Rep(r, t, ok, d)) => In(reported, Rep(r, t, ok, d))
               /\ OnceIn(reported, Rep(r, t, ok, d)) => OnceIn(reported', Rep(r, t, ok, d))
    <3>1. Rep(a, s, well, c) # Rep(r, t, ok, d)
      BY <1>12 DEF Rep
    <3> QED BY <1>6, <1>r, <3>1, Zenon
  <2>3. Undisturbed(d) => SessionGood(d)
    BY DEF SessionInv
  <2> QED BY <1>7, <1>11, <2>1, <2>2, <2>3, OtherSession
<1>13. ASSUME Undisturbed(c)' PROVE SessionGood(c)'
  <2>1. SessionGood(c)
    BY <1>11, <1>13 DEF Undisturbed, SessionInv
  <2>2. \A t \in Stages : OkOf(c, t)' = OkOf(c, t)
    BY <1>11 DEF OkOf
  <2>3. "generate" \in Stages /\ "run" \in Stages
    BY DEF Stages
  <2>4. prompted[c].plan # 0
    BY <1>8, <2>1 DEF SessionGood, InOrder
  <2>5. \A ok \in BOOLEAN : /\ <<s, ok>> \notin began[c][a] /\ ~In(reported, Rep(a, s, ok, c))
    BY <1>8, <2>1 DEF SessionGood, InOrder
  <2>6. a \notin OkOf(c, s)
    BY <2>1, <2>5 DEF SessionGood, InOrder
  <2>7. InOrder(c, a, s)'
    <3>1. InOrder(c, a, s)
      BY <2>1 DEF SessionGood
    <3>2. OnceIn(commanded'[a], Cmd(s, c)) /\ ~In(commanded'[a], Cmd(s, c))
      BY <1>7, <1>8, <3>1 DEF InOrder
    <3>3. \A ok \in BOOLEAN : <<s, ok>> \in began'[c][a] <=> ok = well
      BY <1>9, <2>5
    <3>4. \A ok \in BOOLEAN : /\ OnceIn(reported', Rep(a, s, ok, c))
                              /\ In(reported', Rep(a, s, ok, c)) => ok = well
      <4> SUFFICES ASSUME NEW ok \in BOOLEAN
                   PROVE  /\ OnceIn(reported', Rep(a, s, ok, c))
                          /\ In(reported', Rep(a, s, ok, c)) => ok = well
        OBVIOUS
      <4>1. OnceIn(reported, Rep(a, s, ok, c))
        BY <3>1 DEF InOrder
      <4>2. Rep(a, s, well, c) = Rep(a, s, ok, c) => well = ok
        BY DEF Rep
      <4>4. ~In(reported, Rep(a, s, ok, c))
        BY <2>5, Zenon
      <4> QED BY <1>6, <1>r, <4>1, <4>2, <4>4, Zenon
    <3>5. s = "run" => OkOf(c, "generate") = Roles
      BY <1>8, <3>1 DEF InOrder
    <3>6. OkOf(c, s)' = OkOf(c, s) /\ OkOf(c, "generate")' = OkOf(c, "generate")
      BY <2>2, <2>3
    <3>7. prompted'[c].plan # 0
      BY <1>11, <2>4
    <3> QED BY <2>6, <3>2, <3>3, <3>4, <3>5, <3>6, <3>7 DEF InOrder
  <2>8. ASSUME NEW r \in Roles, NEW t \in Stages, ~(r = a /\ t = s) PROVE InOrder(c, r, t)'
    <3>1. InOrder(c, r, t)
      BY <2>1 DEF SessionGood
    <3>2. \A ok \in BOOLEAN : /\ <<t, ok>> \in began'[c][r] <=> <<t, ok>> \in began[c][r]
                              /\ Rep(a, s, well, c) # Rep(r, t, ok, c)
      BY <1>9, <2>8 DEF Rep
    <3>3. \A ok \in BOOLEAN : /\ OnceIn(reported', Rep(r, t, ok, c))
                              /\ In(reported', Rep(r, t, ok, c)) => In(reported, Rep(r, t, ok, c))
      <4>1. \A ok \in BOOLEAN : OnceIn(reported, Rep(r, t, ok, c))
        BY <3>1 DEF InOrder
      <4> QED BY <1>6, <1>r, <3>2, <4>1, Zenon
    <3>4. /\ OnceIn(commanded'[r], Cmd(t, c))
          /\ In(commanded'[r], Cmd(t, c)) => In(commanded[r], Cmd(t, c))
      BY <1>7, <3>1 DEF InOrder
    <3>5. OkOf(c, t)' = OkOf(c, t) /\ OkOf(c, "generate")' = OkOf(c, "generate")
      BY <2>2, <2>3
    <3>6. prompted'[c].plan # 0
      BY <1>11, <2>4
    <3> QED BY <3>1, <3>2, <3>3, <3>4, <3>5, <3>6 DEF InOrder
  <2>9. Session(c)'.done => OkOf(c, "run")' = Roles
    BY <1>11, <2>1, <2>2, <2>3 DEF SessionGood
  <2> QED BY <2>7, <2>8, <2>9 DEF SessionGood
<1> QED BY <1>10, <1>12, <1>13 DEF SessionInv

Noted(r, s, ok, c) ==
  /\ reported' = Tail(reported) /\ prompted' = prompted /\ began' = began
  /\ sessions' \in [Correlations -> Sessions \cup {NoSession}]
  /\ \A d \in Correlations : d # c => Session(d)' = Session(d)
  /\ \A t \in Stages : \/ OkOf(c, t)' = OkOf(c, t)
                       \/ OkOf(c, t)' = OkOf(c, t) \ {r} /\ t = s /\ ok # TRUE
                       \/ OkOf(c, t)' = OkOf(c, t) \cup {r} /\ t = s /\ ok = TRUE
  /\ Session(c)'.done => \/ OkOf(c, "run")' = Roles
                         \/ Session(c).done /\ OkOf(c, "run")' = OkOf(c, "run")
  /\ \/ CommandsNothing
     \/ Commands(c, "run", Roles) /\ s = "generate" /\ OkOf(c, "generate")' = Roles
          /\ (r \in OkOf(c, "generate")' => ok = TRUE)

\* The head report is taken note of, and perhaps lets the agents run.
LEMMA ReportTaken ==
  ASSUME SessionInv, reported # <<>>, NEW r \in Roles, NEW s \in Stages, NEW ok \in BOOLEAN,
         NEW c \in Correlations, Head(reported) = Rep(r, s, ok, c), receives_report
  PROVE  Noted(r, s, ok, c)
<1> USE DEF Noted
<1>1. PICK sess \in Sessions : sess = Session(c)
  BY SessionType DEF SessionInv
<1>2. /\ Head(reported).corr = c /\ Head(reported).role = r /\ Head(reported).stage = s
      /\ Head(reported).ok = ok
  BY DEF Rep
<1>3. /\ reported' = Tail(reported) /\ prompted' = prompted /\ began' = began
  BY DEF receives_report
<1>4. PICK generated \in SUBSET Roles : generated = With(sess.generate_ok, r, ok)
  BY <1>1 DEF With, Sessions
<1>5. PICK runs \in SUBSET Roles : runs = With(sess.run_ok, r, ok)
  BY <1>1 DEF With, Sessions
<1>6. \/ sess.done /\ CommandsNothing /\ UNCHANGED sessions
      \/ /\ ~sess.done /\ s = "generate"
         /\ sessions' = [sessions EXCEPT ![c] = [sess EXCEPT !.generate_ok = generated]]
         /\ IF AllOk(generated) /\ sess.run_cmds THEN Commands(c, "run", Roles) ELSE CommandsNothing
      \/ /\ ~sess.done /\ s # "generate"
         /\ sessions' = [sessions EXCEPT ![c] = [sess EXCEPT !.run_ok = runs, !.done = AllOk(runs)]]
         /\ CommandsNothing
  BY <1>1, <1>2, <1>4, <1>5 DEF receives_report
<1>7. \A roles \in SUBSET Roles :
        /\ \/ With(roles, r, ok) = roles \ {r} /\ ok # TRUE
           \/ With(roles, r, ok) = roles \cup {r} /\ ok = TRUE
        /\ r \in With(roles, r, ok) => ok = TRUE
  <2>1. CASE ok = TRUE
    BY <2>1 DEF With
  <2>2. CASE ok # TRUE
    <3>1. ok = FALSE
      BY <2>2
    <3>2. \A roles \in SUBSET Roles : With(roles, r, ok) = roles \ {r}
      BY <3>1 DEF With
    <3>3. \A roles \in SUBSET Roles : r \notin roles \ {r}
      OBVIOUS
    <3> QED BY <2>2, <3>2, <3>3
  <2> QED BY <2>1, <2>2
<1>8. sess.generate_ok \in SUBSET Roles /\ sess.run_ok \in SUBSET Roles
  BY DEF Sessions
<1>9. OkOf(c, "generate") = sess.generate_ok /\ OkOf(c, "run") = sess.run_ok
  BY <1>1 DEF OkOf
<1>10. CASE sess.done /\ CommandsNothing /\ UNCHANGED sessions
  <2>1. \A d \in Correlations : Session(d)' = Session(d)
    BY <1>10 DEF Session
  <2>2. \A t \in Stages : OkOf(c, t)' = OkOf(c, t)
    BY <2>1 DEF OkOf
  <2>3. sessions' \in [Correlations -> Sessions \cup {NoSession}]
    BY <1>10 DEF SessionInv, SessionTypes
  <2> QED BY <1>1, <1>3, <1>10, <2>1, <2>2, <2>3 DEF Stages
<1>11. CASE /\ ~sess.done /\ s = "generate"
            /\ sessions' = [sessions EXCEPT ![c] = [sess EXCEPT !.generate_ok = generated]]
            /\ IF AllOk(generated) /\ sess.run_cmds THEN Commands(c, "run", Roles) ELSE CommandsNothing
  <2>1. PICK next \in Sessions : next = [sess EXCEPT !.generate_ok = generated]
    BY DEF Sessions
  <2>2. next.generate_ok = generated /\ next.run_ok = sess.run_ok /\ next.done = sess.done
    BY <2>1 DEF Sessions
  <2>3. /\ sessions' \in [Correlations -> Sessions \cup {NoSession}] /\ sessions'[c] = next
        /\ \A d \in Correlations : d # c => sessions'[d] = sessions[d]
    BY <1>11, <2>1 DEF SessionInv, SessionTypes
  <2>4. Session(c)' = next /\ \A d \in Correlations : d # c => Session(d)' = Session(d)
    BY <2>3, SessionAssumption DEF Session
  <2>5. OkOf(c, "generate")' = generated /\ OkOf(c, "run")' = sess.run_ok
    BY <2>2, <2>4 DEF OkOf
  <2>6. \/ CommandsNothing
        \/ Commands(c, "run", Roles) /\ s = "generate" /\ OkOf(c, "generate")' = Roles
             /\ (r \in OkOf(c, "generate")' => ok = TRUE)
    BY <1>4, <1>7, <1>8, <1>11, <2>5 DEF AllOk
  <2>7. \A t \in Stages : \/ OkOf(c, t)' = OkOf(c, t)
                          \/ OkOf(c, t)' = OkOf(c, t) \ {r} /\ t = s /\ ok # TRUE
                          \/ OkOf(c, t)' = OkOf(c, t) \cup {r} /\ t = s /\ ok = TRUE
    BY <1>4, <1>7, <1>8, <1>9, <1>11, <2>5 DEF Stages
  <2>8. ~Session(c)'.done
    BY <1>11, <2>2, <2>4
  <2> QED BY <1>3, <2>3, <2>4, <2>6, <2>7, <2>8
<1>12. CASE /\ ~sess.done /\ s # "generate"
            /\ sessions' = [sessions EXCEPT ![c] = [sess EXCEPT !.run_ok = runs, !.done = AllOk(runs)]]
            /\ CommandsNothing
  <2>0. AllOk(runs) \in BOOLEAN
    BY DEF AllOk
  <2>1. PICK next \in Sessions : next = [sess EXCEPT !.run_ok = runs, !.done = AllOk(runs)]
    BY <2>0 DEF Sessions
  <2>2. next.generate_ok = sess.generate_ok /\ next.run_ok = runs /\ (next.done <=> AllOk(runs))
    BY <2>1 DEF Sessions
  <2>3. /\ sessions' \in [Correlations -> Sessions \cup {NoSession}] /\ sessions'[c] = next
        /\ \A d \in Correlations : d # c => sessions'[d] = sessions[d]
    BY <1>12, <2>1 DEF SessionInv, SessionTypes
  <2>4. Session(c)' = next /\ \A d \in Correlations : d # c => Session(d)' = Session(d)
    BY <2>3, SessionAssumption DEF Session
  <2>5. OkOf(c, "generate")' = sess.generate_ok /\ OkOf(c, "run")' = runs
    BY <2>2, <2>4 DEF OkOf
  <2>6. s = "run"
    BY <1>12 DEF Stages
  <2>7. \A t \in Stages : \/ OkOf(c, t)' = OkOf(c, t)
                          \/ OkOf(c, t)' = OkOf(c, t) \ {r} /\ t = s /\ ok # TRUE
                          \/ OkOf(c, t)' = OkOf(c, t) \cup {r} /\ t = s /\ ok = TRUE
    BY <1>5, <1>7, <1>8, <1>9, <2>5, <2>6 DEF Stages
  <2>8. Session(c)'.done => OkOf(c, "run")' = Roles
    BY <2>2, <2>4, <2>5 DEF AllOk
  <2> QED BY <1>3, <1>12, <2>3, <2>4, <2>7, <2>8
<1> QED BY <1>6, <1>10, <1>11, <1>12

\* Once a report is taken note of, no other report of that stage by that agent is to come.
LEMMA ReceivesReportStep == ASSUME SessionInv, receives_report PROVE SessionInv'
<1>1. reported # <<>> /\ reported \in Seq(Report)
  BY DEF receives_report, SessionInv, SessionTypes
<1>2. Head(reported) \in Report /\ Tail(reported) \in Seq(Report)
  BY <1>1, QueueFacts
<1>3. PICK r \in Roles, s \in Stages, ok \in BOOLEAN, c \in Correlations : Head(reported) = Rep(r, s, ok, c)
  BY <1>2 DEF Report, Rep
<1>4. /\ reported' = Tail(reported) /\ prompted' = prompted /\ began' = began
      /\ sessions' \in [Correlations -> Sessions \cup {NoSession}]
      /\ \A d \in Correlations : d # c => Session(d)' = Session(d)
      /\ \A t \in Stages : \/ OkOf(c, t)' = OkOf(c, t)
                           \/ OkOf(c, t)' = OkOf(c, t) \ {r} /\ t = s /\ ok # TRUE
                           \/ OkOf(c, t)' = OkOf(c, t) \cup {r} /\ t = s /\ ok = TRUE
      /\ Session(c)'.done => \/ OkOf(c, "run")' = Roles
                             \/ Session(c).done /\ OkOf(c, "run")' = OkOf(c, "run")
      /\ \/ CommandsNothing
         \/ Commands(c, "run", Roles) /\ s = "generate" /\ OkOf(c, "generate")' = Roles
              /\ (r \in OkOf(c, "generate")' => ok = TRUE)
  <2>1. Noted(r, s, ok, c)
    BY <1>1, <1>3, ReportTaken
  <2> QED BY <2>1 DEF Noted
<1>5. \A x : /\ In(reported', x) => In(reported, x)
             /\ OnceIn(reported, x) => OnceIn(reported', x)
             /\ OnceIn(reported, x) /\ Head(reported) = x => ~In(reported', x)
             /\ Head(reported) = x => In(reported, x)
  <2>1. reported # <<>> =>
          /\ Tail(reported) \in Seq(Report) /\ Head(reported) \in Report
          /\ \A x : /\ In(Tail(reported), x) => In(reported, x)
                    /\ OnceIn(reported, x) => OnceIn(Tail(reported), x)
                    /\ OnceIn(reported, x) /\ Head(reported) = x => ~In(Tail(reported), x)
                    /\ Head(reported) = x => In(reported, x)
    BY <1>1, QueueFacts
  <2> QED BY <1>1, <1>4, <2>1, Zenon
<1>6. /\ commanded' \in [Roles -> Seq(Command)] /\ sendFaults' \in 0..MaxSendFaults
      /\ \A a \in Roles : commanded'[a] = commanded[a] \/ commanded'[a] = Append(commanded[a], Cmd("run", c))
      /\ Cmd("run", c) \in Command
  <2>1. CASE Commands(c, "run", Roles)
    <3>1. "run" \in Stages /\ Roles \in SUBSET Roles
      BY DEF Stages
    <3> QED BY <2>1, <3>1, CommandsFacts DEF SessionInv
  <2>2. CASE CommandsNothing
    BY <2>2 DEF CommandsNothing, SessionInv, SessionTypes, Cmd, Command, Stages
  <2> QED BY <1>4, <2>1, <2>2
<1>7. SessionTypes'
  BY <1>2, <1>4, <1>6 DEF SessionInv, SessionTypes
<1>8. \A a \in Roles : \A x : /\ In(commanded'[a], x) => In(commanded[a], x) \/ Cmd("run", c) = x
                              /\ OnceIn(commanded[a], x) /\ (Cmd("run", c) = x => ~In(commanded[a], x))
                                   => OnceIn(commanded'[a], x)
  <2> SUFFICES ASSUME NEW a \in Roles
               PROVE  \A x : /\ In(commanded'[a], x) => In(commanded[a], x) \/ Cmd("run", c) = x
                             /\ OnceIn(commanded[a], x) /\ (Cmd("run", c) = x => ~In(commanded[a], x))
                                  => OnceIn(commanded'[a], x)
    OBVIOUS
  <2>1. PICK q \in Seq(Command) : q = commanded[a]
    BY DEF SessionInv, SessionTypes
  <2>2. PICK e \in Command : e = Cmd("run", c)
    BY <1>6
  <2>3. PICK n : n = Append(q, e)
    OBVIOUS
  <2>4. \A x : (In(n, x) => In(q, x) \/ e = x) /\ (OnceIn(q, x) /\ (e = x => ~In(q, x)) => OnceIn(n, x))
    BY <2>3, QueueFacts
  <2>5. commanded'[a] = q \/ commanded'[a] = n
    BY <1>6, <2>1, <2>2, <2>3
  <2>6. CASE commanded'[a] = q
    BY <2>1, <2>6
  <2>7. CASE commanded'[a] = n
    BY <2>1, <2>2, <2>4, <2>7
  <2> QED BY <2>5, <2>6, <2>7
<1>9. ASSUME NEW d \in Correlations, d # c PROVE Undisturbed(d)' => SessionGood(d)'
  <2>1. /\ Session(d)' = Session(d) /\ prompted'[d] = prompted[d] /\ began'[d] = began[d]
        /\ Undisturbed(d) => SessionGood(d)
    BY <1>4, <1>9 DEF SessionInv
  <2>2. ASSUME NEW a \in Roles, NEW t \in Stages
        PROVE  /\ In(commanded'[a], Cmd(t, d)) => In(commanded[a], Cmd(t, d))
               /\ OnceIn(commanded[a], Cmd(t, d)) => OnceIn(commanded'[a], Cmd(t, d))
    <3>1. Cmd("run", c) # Cmd(t, d)
      BY <1>9 DEF Cmd
    <3> QED BY <1>8, <3>1, Zenon
  <2>3. \A a \in Roles : \A t \in Stages : \A no \in BOOLEAN :
          /\ In(reported', Rep(a, t, no, d)) => In(reported, Rep(a, t, no, d))
          /\ OnceIn(reported, Rep(a, t, no, d)) => OnceIn(reported', Rep(a, t, no, d))
    BY <1>5, Zenon
  <2> QED BY <2>1, <2>2, <2>3, OtherSession
<1>10. ASSUME Undisturbed(c)' PROVE SessionGood(c)'
  <2>1. \A a \in Roles : \A t \in Stages : InOrder(c, a, t)
    BY <1>4, <1>10 DEF Undisturbed, SessionInv, SessionGood
  <2>2. Session(c).done => OkOf(c, "run") = Roles
    BY <1>4, <1>10 DEF Undisturbed, SessionInv, SessionGood
  <2>3. "generate" \in Stages /\ "run" \in Stages
    BY DEF Stages
  <2>4. In(reported, Rep(r, s, ok, c)) /\ OnceIn(reported, Rep(r, s, ok, c)) /\ ~In(reported', Rep(r, s, ok, c))
    <3>1. OnceIn(reported, Rep(r, s, ok, c))
      BY <2>1 DEF InOrder
    <3> QED BY <1>3, <1>5, <3>1, Zenon
  <2>5. <<s, ok>> \in began[c][r] /\ r \notin OkOf(c, s)
    BY <2>1, <2>4 DEF InOrder
  <2>6. prompted[c].plan # 0
    BY <2>1, <2>5 DEF InOrder
  <2>7. \A t \in Stages : \/ OkOf(c, t)' = OkOf(c, t)
                          \/ OkOf(c, t)' = OkOf(c, t) \cup {r} /\ t = s /\ ok = TRUE
    BY <1>4, <2>5
  <2>8. OkOf(c, "generate") = Roles => OkOf(c, "generate")' = Roles
    BY <2>3, <2>7
  <2>9. ASSUME NEW a \in Roles
        PROVE  \/ commanded'[a] = commanded[a]
               \/ /\ ~In(commanded[a], Cmd("run", c)) /\ OkOf(c, "generate")' = Roles
                  /\ \A no \in BOOLEAN : <<"run", no>> \notin began[c][a]
    <3>1. CASE CommandsNothing
      BY <3>1 DEF CommandsNothing
    <3>2. CASE s = "generate" /\ OkOf(c, "generate")' = Roles
      <4>1. OkOf(c, "generate") # Roles
        BY <2>5, <3>2
      <4>2. InOrder(c, a, "run")
        BY <2>1, <2>3
      <4> QED BY <3>2, <4>1, <4>2 DEF InOrder
    <3> QED BY <1>4, <3>1, <3>2
  <2>10. ASSUME NEW a \in Roles, NEW t \in Stages PROVE InOrder(c, a, t)'
    <3>1. InOrder(c, a, t)
      BY <2>1
    <3>2. /\ OnceIn(commanded'[a], Cmd(t, c))
          /\ \A no \in BOOLEAN : <<t, no>> \in began[c][a] => ~In(commanded'[a], Cmd(t, c))
          /\ t = "run" /\ (\/ In(commanded'[a], Cmd(t, c))
                           \/ \E no \in BOOLEAN : <<t, no>> \in began[c][a])
               => OkOf(c, "generate")' = Roles
      <4>1. CASE commanded'[a] = commanded[a]
        BY <2>8, <3>1, <4>1 DEF InOrder
      <4>2. CASE /\ ~In(commanded[a], Cmd("run", c)) /\ OkOf(c, "generate")' = Roles
                 /\ \A no \in BOOLEAN : <<"run", no>> \notin began[c][a]
        <5>1. CASE t = "run"
          <6>1. OnceIn(commanded[a], Cmd("run", c))
            BY <3>1, <5>1 DEF InOrder
          <6>2. OnceIn(commanded'[a], Cmd("run", c))
            BY <1>8, <4>2, <6>1, Zenon
          <6> QED BY <4>2, <5>1, <6>2
        <5>2. CASE t # "run"
          <6>1. Cmd("run", c) # Cmd(t, c)
            BY <5>2 DEF Cmd
          <6>2. /\ In(commanded'[a], Cmd(t, c)) => In(commanded[a], Cmd(t, c))
                /\ OnceIn(commanded[a], Cmd(t, c)) => OnceIn(commanded'[a], Cmd(t, c))
            BY <1>8, <6>1, Zenon
          <6> QED BY <3>1, <5>2, <6>2 DEF InOrder
        <5> QED BY <5>1, <5>2
      <4> QED BY <2>9, <4>1, <4>2
    <3>3. \A no \in BOOLEAN : /\ OnceIn(reported', Rep(a, t, no, c))
                              /\ In(reported', Rep(a, t, no, c)) => In(reported, Rep(a, t, no, c))
      <4>1. \A no \in BOOLEAN : OnceIn(reported, Rep(a, t, no, c))
        BY <3>1 DEF InOrder
      <4> QED BY <1>5, <4>1, Zenon
    <3>4. \A no \in BOOLEAN : a \in OkOf(c, t)' => ~In(reported', Rep(a, t, no, c))
      <4>1. CASE a \in OkOf(c, t)
        BY <3>1, <3>3, <4>1 DEF InOrder
      <4>2. CASE a \notin OkOf(c, t) /\ a \in OkOf(c, t)'
        <5>1. a = r /\ t = s
          BY <2>7, <4>2
        <5>2. ASSUME NEW no \in BOOLEAN, In(reported', Rep(r, s, no, c)) PROVE FALSE
          <6>1. <<s, no>> \in began[c][r]
            BY <3>1, <3>3, <5>1, <5>2 DEF InOrder
          <6>2. ok = no
            BY <2>5, <3>1, <5>1, <6>1 DEF InOrder
          <6> QED BY <2>4, <5>2, <6>2, Zenon
        <5> QED BY <5>1, <5>2
      <4> QED BY <4>1, <4>2
    <3>5. a \in OkOf(c, t)' => <<t, TRUE>> \in began[c][a]
      <4>1. CASE a \in OkOf(c, t)
        BY <3>1, <4>1 DEF InOrder
      <4>2. CASE a \notin OkOf(c, t) /\ a \in OkOf(c, t)'
        <5>1. a = r /\ t = s /\ ok = TRUE
          BY <2>7, <4>2
        <5> QED BY <2>5, <5>1
      <4> QED BY <4>1, <4>2
    <3>6. \A no \in BOOLEAN : /\ In(reported', Rep(a, t, no, c)) => <<t, no>> \in began[c][a]
                              /\ \A x \in BOOLEAN : <<t, no>> \in began[c][a] /\ <<t, x>> \in began[c][a]
                                                     => no = x
      BY <3>1, <3>3 DEF InOrder
    <3>7. prompted'[c].plan # 0 /\ began' = began
      BY <1>4, <2>6
    <3> QED BY <3>2, <3>3, <3>4, <3>5, <3>6, <3>7 DEF InOrder
  <2>11. Session(c)'.done => OkOf(c, "run")' = Roles
    BY <1>4, <2>2
  <2> QED BY <2>10, <2>11 DEF SessionGood
<1> QED BY <1>7, <1>9, <1>10 DEF SessionInv

\* Every step of the stream thread, of an agent and of the operator keeps the sessions sound.
LEMMA SessionStep == SessionInv /\ [SessionNext]_sessionVars => SessionInv'
<1> SUFFICES ASSUME SessionInv, [SessionNext]_sessionVars PROVE SessionInv'
  OBVIOUS
<1>1. ASSUME NEW c \in Correlations, NEW roles \in SUBSET Roles, NEW cmds \in BOOLEAN,
             receives_prompt(c, roles, cmds)
      PROVE  SessionInv'
  <2>1. Session(c) \in Sessions
    BY SessionType DEF SessionInv
  <2>2. PICK sess \in Sessions : sess = Planned(c, cmds)
    BY <2>1 DEF Planned, Sessions
  <2>3. /\ sess.generate_ok = Session(c).generate_ok /\ sess.run_ok = Session(c).run_ok
        /\ sess.done = Session(c).done
    BY <2>1, <2>2 DEF Planned, Sessions
  <2>4. /\ Asks(c, "plan") /\ Commands(c, "generate", roles)
        /\ sessions' = [sessions EXCEPT ![c] = sess]
    BY <1>1, <2>2 DEF receives_prompt
  <2>5. "generate" \in Stages /\ "plan" \in {"plan", "run"}
    BY DEF Stages
  <2> QED BY <2>3, <2>4, <2>5, PromptStep
<1>2. ASSUME NEW c \in Correlations, receives_unplannable(c) PROVE SessionInv'
  <2>1. PICK sess \in Sessions : sess = Session(c)
    BY SessionType DEF SessionInv
  <2>2. Asks(c, "plan") /\ CommandsNothing /\ sessions' = [sessions EXCEPT ![c] = sess]
    BY <1>2, <2>1 DEF receives_unplannable
  <2>3. "generate" \in Stages /\ "plan" \in {"plan", "run"} /\ Roles \in SUBSET Roles
    BY DEF Stages
  <2> QED BY <2>1, <2>2, <2>3, PromptStep
<1>3. ASSUME NEW c \in Correlations, receives_run(c) PROVE SessionInv'
  <2>1. PICK sess \in Sessions : sess = Session(c)
    BY SessionType DEF SessionInv
  <2>2. /\ Asks(c, "run") /\ (Commands(c, "run", Roles) \/ CommandsNothing)
        /\ sessions' = [sessions EXCEPT ![c] = sess]
    BY <1>3, <2>1 DEF receives_run
  <2>3. "run" \in Stages /\ "run" \in {"plan", "run"} /\ Roles \in SUBSET Roles /\ "run" # "plan"
    BY DEF Stages
  <2> QED BY <2>1, <2>2, <2>3, PromptStep
<1>4. ASSUME UNCHANGED sessionVars PROVE SessionInv'
  <2>1. SessionTypes'
    BY <1>4 DEF sessionVars, SessionInv, SessionTypes
  <2>2. ASSUME NEW c \in Correlations PROVE Undisturbed(c)' => SessionGood(c)'
    <3>1. /\ Session(c)' = Session(c) /\ prompted'[c] = prompted[c] /\ began'[c] = began[c]
          /\ commanded' = commanded /\ reported' = reported
      BY <1>4 DEF sessionVars, Session
    <3>2. Undisturbed(c) => SessionGood(c)
      BY DEF SessionInv
    <3> QED BY <3>1, <3>2, OtherSession
  <2> QED BY <2>1, <2>2 DEF SessionInv
<1> QED BY <1>1, <1>2, <1>3, <1>4, ReceivesReportStep, AgentActsStep DEF SessionNext

\* The invariant says that programs run in order and that sessions end with a good run.
LEMMA SessionMeans == SessionInv => SessionTypeOK /\ SessionInOrder
<1> SUFFICES ASSUME SessionInv PROVE SessionTypeOK /\ SessionInOrder
  OBVIOUS
<1>1. SessionTypeOK
  BY DEF SessionInv, SessionTypes, SessionTypeOK, Report, Command
<1>2. ASSUME NEW c \in Correlations, prompted[c].plan <= 1, prompted[c].run = 0
      PROVE  /\ (\E r \in Roles : Ran(c, r)) => Generated(c)
             /\ Session(c).done => \A r \in Roles : began[c][r] = {<<s, TRUE>> : s \in Stages}
  <2>1. SessionGood(c)
    BY <1>2 DEF SessionInv, Undisturbed
  <2>2. "generate" \in Stages /\ "run" \in Stages /\ TRUE \in BOOLEAN /\ FALSE \in BOOLEAN
    BY DEF Stages
  <2>3. ASSUME NEW r \in Roles, NEW s \in Stages
        PROVE  <<s, TRUE>> \in began[c][r] => <<s, FALSE>> \notin began[c][r]
    <3>1. InOrder(c, r, s)
      BY <2>1 DEF SessionGood
    <3>2. <<s, TRUE>> \in began[c][r] /\ <<s, FALSE>> \in began[c][r] => TRUE = FALSE
      BY <2>2, <3>1, Zenon DEF InOrder
    <3> QED BY <3>2
  <2>4. ASSUME OkOf(c, "generate") = Roles PROVE Generated(c)
    <3>1. \A r \in Roles : <<"generate", TRUE>> \in began[c][r]
      BY <2>1, <2>2, <2>4 DEF SessionGood, InOrder
    <3> QED BY <2>2, <2>3, <3>1 DEF Generated
  <2>5. ASSUME NEW r \in Roles, Ran(c, r) PROVE OkOf(c, "generate") = Roles
    <3>1. InOrder(c, r, "run")
      BY <2>1, <2>2 DEF SessionGood
    <3>2. \E ok \in BOOLEAN : <<"run", ok>> \in began[c][r]
      BY <2>5 DEF Ran
    <3> QED BY <3>1, <3>2 DEF InOrder
  <2>6. ASSUME Session(c).done, NEW r \in Roles PROVE began[c][r] = {<<s, TRUE>> : s \in Stages}
    <3>1. OkOf(c, "run") = Roles
      BY <2>1, <2>6 DEF SessionGood
    <3>2. InOrder(c, r, "run")
      BY <2>1, <2>2 DEF SessionGood
    <3>3. <<"run", TRUE>> \in began[c][r]
      BY <3>1, <3>2 DEF InOrder
    <3>4. OkOf(c, "generate") = Roles
      BY <2>2, <3>2, <3>3 DEF InOrder
    <3>5. Generated(c)
      BY <2>4, <3>4
    <3>6. \A s \in Stages : <<s, TRUE>> \in began[c][r] /\ <<s, FALSE>> \notin began[c][r]
      BY <2>2, <2>3, <3>3, <3>5 DEF Generated, Stages
    <3>7. began[c][r] \in SUBSET (Stages \X BOOLEAN)
      BY DEF SessionInv, SessionTypes
    <3>8. \A s \in Stages : \A ok \in BOOLEAN : <<s, ok>> \in began[c][r] => ok = TRUE
      <4>1. \A ok \in BOOLEAN : ok = TRUE \/ ok = FALSE
        OBVIOUS
      <4> QED BY <3>6, <4>1, Zenon
    <3>9. \A x \in began[c][r] : x \in {<<s, TRUE>> : s \in Stages}
      <4> SUFFICES ASSUME NEW x \in began[c][r] PROVE x \in {<<s, TRUE>> : s \in Stages}
        OBVIOUS
      <4>1. PICK s \in Stages, ok \in BOOLEAN : x = <<s, ok>>
        BY <3>7
      <4>2. ok = TRUE
        BY <3>8, <4>1
      <4> QED BY <4>1, <4>2
    <3>10. \A s \in Stages : <<s, TRUE>> \in began[c][r]
      BY <3>6
    <3> QED BY <3>9, <3>10
  <2> QED BY <2>4, <2>5, <2>6
<1> QED BY <1>1, <1>2 DEF SessionInOrder
-------------------------------------------------------------------------------
(* The code review *)

\* What is sent only when the findings of all analysts are in.
LateTypes == {"review_findings", "critic_review", "vote_request", "vote_result"}
Honest(x) == (x.type = "findings" => x.from \in Analysts) /\ (x.type \in LateTypes => pending = {})

\* Nothing is said before the review is planned, and nothing late before all findings are in.
ReviewShape ==
  /\ ~Analyzed => /\ pending = {} /\ findings = <<>> /\ ~proposed /\ cast = {} /\ decided = NotYet
                  /\ \A a \in Parties : \A x : ~In(inbox[a], x)
  /\ Analyzed => pending = Analysts \ ToSet(findings)
  /\ \A a \in Parties : \A x : In(inbox[a], x) => Honest(x)
  /\ proposed \/ cast # {} \/ Completed => pending = {}
  /\ Completed => decided = Voters

\* Unless a message is lost, each analyst is on its way to be heard, then the critic, then
\* every vote, and then there is a decision.
ReviewChain ==
  /\ \A a \in Analysts : \/ a \in ToSet(assigning) \/ a \notin pending
                         \/ In(inbox[a], Letter("review_task", Coordinator))
                         \/ In(inbox[Coordinator], Letter("findings", a))
  /\ pending = {} => \/ In(inbox[Critic], Letter("review_findings", Coordinator))
                     \/ In(inbox[Coordinator], Letter("critic_review", Critic))
                     \/ proposed
  /\ proposed => \A v \in Voters : In(inbox[v], Letter("vote_request", Coordinator)) \/ v \in cast
  /\ cast = Voters => \/ Completed
                      \/ \E v \in Voters : In(inbox[Coordinator], Letter("vote_result", v))
ReviewInv == ReviewTypeOK /\ ReviewShape /\ (lost = 0 /\ Analyzed => ReviewChain)

\* What a step does to the messages under way: only this letter is new, to these agents.
Moved(agents, letter) ==
  /\ inbox' \in [Parties -> Seq(Letters)] /\ lost' \in 0..MaxLost
  /\ \A b \in Parties : \A x : In(inbox'[b], x) => In(inbox[b], x) \/ (b \in agents /\ x = letter)
  /\ lost' = 0 => lost = 0 /\ \A b \in agents : In(inbox'[b], letter)
Spared(a) ==
  \A b \in Parties : \A x : In(inbox[b], x) => In(inbox'[b], x) \/ (b = a /\ x = Head(inbox[a]))
AllSpared == \A b \in Parties : \A x : In(inbox[b], x) => In(inbox'[b], x)

\* The parties to a review: three of them vote.
LEMMA PartiesFacts ==
  /\ Analysts \subseteq Parties /\ Voters \subseteq Parties /\ Critic \in Voters
  /\ Coordinator \in Parties \ Voters /\ Analysts \subseteq Voters /\ Analysts # {}
  /\ IsFiniteSet(Voters) /\ Cardinality(Voters) = 3 /\ NotYet # Voters
<1>1. IsFiniteSet(Analysts \cup {Critic}) /\ Cardinality(Analysts \cup {Critic}) = 3
  BY ReviewAssumption, FS_AddElement
<1>2. Analysts # {}
  BY ReviewAssumption, FS_EmptySet
<1> QED BY <1>1, <1>2, ReviewAssumption DEF Voters, Parties, NotYet

\* Letters go to agents, or are lost on the way.
LEMMA SendFacts ==
  ASSUME inbox \in [Parties -> Seq(Letters)], lost \in 0..MaxLost,
         NEW rest \in [Parties -> Seq(Letters)], NEW sent, NEW letter \in Letters,
         IsFiniteSet(DOMAIN sent), DOMAIN sent \in SUBSET Parties,
         \A b \in DOMAIN sent : sent[b] = letter, SendsOut(rest, sent),
         \A b \in Parties : \A x : In(rest[b], x) => In(inbox[b], x)
  PROVE  /\ Moved(DOMAIN sent, letter)
         /\ \A b \in Parties : \A x : In(rest[b], x) => In(inbox'[b], x)
<1>1. PICK reached \in SUBSET (DOMAIN sent \cap streaming) :
        /\ lost + Cardinality(DOMAIN sent \ reached) <= MaxLost
        /\ inbox' = [a \in Parties |-> IF a \in reached THEN Append(rest[a], sent[a]) ELSE rest[a]]
        /\ lost' = lost + Cardinality(DOMAIN sent \ reached)
  BY DEF SendsOut, Delivers
<1>2. PICK missed \in SUBSET DOMAIN sent : missed = DOMAIN sent \ reached
  OBVIOUS
<1>3. IsFiniteSet(missed) /\ Cardinality(missed) \in Nat /\ (Cardinality(missed) = 0 => missed = {})
  <2>1. IsFiniteSet(missed)
    BY FS_Subset
  <2> QED BY <2>1, FS_CardinalityType, FS_EmptySet
<1>4. /\ lost' \in 0..MaxLost /\ (lost' = 0 => lost = 0 /\ missed = {})
  BY <1>1, <1>2, <1>3, ReviewAssumption
<1>5. \A b \in reached : inbox'[b] = Append(rest[b], letter)
  BY <1>1
<1>6. \A b \in Parties : b \notin reached => inbox'[b] = rest[b]
  BY <1>1
<1>7. ASSUME NEW b \in Parties
      PROVE  /\ inbox'[b] \in Seq(Letters)
             /\ \A x : In(inbox'[b], x) => In(rest[b], x) \/ (b \in reached /\ x = letter)
             /\ \A x : In(rest[b], x) => In(inbox'[b], x)
             /\ b \in reached => In(inbox'[b], letter)
  <2>1. PICK q \in Seq(Letters) : q = rest[b]
    OBVIOUS
  <2>2. \A e \in Letters : \A x :
          /\ Append(q, e) \in Seq(Letters)
          /\ In(Append(q, e), x) <=> In(q, x) \/ e = x
          /\ OnceIn(q, x) /\ (e = x => ~In(q, x)) => OnceIn(Append(q, e), x)
    BY QueueFacts
  <2>3. CASE b \in reached
    <3>1. inbox'[b] = Append(q, letter)
      BY <1>5, <2>1, <2>3
    <3>2. /\ inbox'[b] \in Seq(Letters)
          /\ \A x : In(inbox'[b], x) <=> In(q, x) \/ letter = x
      <4>1. /\ Append(q, letter) \in Seq(Letters)
            /\ \A x : In(Append(q, letter), x) <=> In(q, x) \/ letter = x
        BY <2>2, Zenon
      <4> QED BY <3>1, <4>1
    <3> QED BY <2>1, <2>3, <3>2
  <2>4. CASE b \notin reached
    BY <1>6, <2>4
  <2> QED BY <2>3, <2>4
<1>8. DOMAIN inbox' = Parties /\ inbox' = [a \in Parties |-> inbox'[a]]
  BY <1>1
<1>9. inbox' \in [Parties -> Seq(Letters)]
  BY <1>7, <1>8
<1>10. ASSUME lost' = 0 PROVE \A b \in DOMAIN sent : In(inbox'[b], letter)
  <2>1. DOMAIN sent \subseteq reached
    BY <1>2, <1>4, <1>10
  <2> QED BY <1>7, <2>1
<1> QED BY <1>4, <1>7, <1>9, <1>10 DEF Moved

\* A handler takes its message, and sends one letter or none.
LEMMA HandledFacts ==
  ASSUME ReviewInv, NEW a \in Parties, inbox[a] # <<>>, NEW agents \in SUBSET Parties,
         IsFiniteSet(agents), NEW letter \in Letters
  PROVE  /\ Head(inbox[a]) \in Letters /\ In(inbox[a], Head(inbox[a])) /\ Analyzed
         /\ SendsOut(Handled(a), ToEach(agents, letter)) => Moved(agents, letter) /\ Spared(a)
         /\ SendsOut(Handled(a), <<>>) => Moved({}, letter) /\ Spared(a)
         /\ inbox' = Handled(a) /\ lost' \in 1..MaxLost => Moved({}, letter) /\ Spared(a)
<1>1. inbox \in [Parties -> Seq(Letters)] /\ lost \in 0..MaxLost
  BY DEF ReviewInv, ReviewTypeOK
<1>2. PICK q \in Seq(Letters) : q = inbox[a]
  BY <1>1
<1>3. /\ Tail(q) \in Seq(Letters) /\ Head(q) \in Letters
      /\ \A x : In(Tail(q), x) => In(q, x)
      /\ In(q, Head(q))
  <2>1. q # <<>> =>
          /\ Tail(q) \in Seq(Letters) /\ Head(q) \in Letters
          /\ \A x : /\ In(Tail(q), x) => In(q, x)
                    /\ OnceIn(q, x) => OnceIn(Tail(q), x)
                    /\ OnceIn(q, x) /\ Head(q) = x => ~In(Tail(q), x)
                    /\ Head(q) = x => In(q, x)
    BY QueueFacts
  <2> QED BY <1>2, <2>1, Zenon
<1>4. \A x : In(q, x) => In(Tail(q), x) \/ Head(q) = x
  <2> SUFFICES ASSUME NEW x, NEW i \in DOMAIN q, q[i] = x, Head(q) # x PROVE In(Tail(q), x)
    BY DEF In
  <2>1. i \in 2..Len(q) /\ i - 1 \in 1..Len(Tail(q)) /\ DOMAIN Tail(q) = 1..Len(Tail(q))
    BY <1>2
  <2>2. Tail(q)[i - 1] = q[i]
    BY <1>2, <2>1
  <2> QED BY <2>1, <2>2 DEF In
<1>5. PICK rest \in [Parties -> Seq(Letters)] : rest = Handled(a)
  BY <1>1, <1>2, <1>3 DEF Handled
<1>6. \A b \in Parties : rest[b] = IF b = a THEN Tail(q) ELSE inbox[b]
  BY <1>1, <1>2, <1>5 DEF Handled
<1>7. /\ \A b \in Parties : \A x : In(rest[b], x) => In(inbox[b], x)
      /\ \A b \in Parties : \A x : In(inbox[b], x) => In(rest[b], x) \/ (b = a /\ x = Head(inbox[a]))
  BY <1>2, <1>3, <1>4, <1>6
<1>8. Analyzed
  BY <1>2, <1>3 DEF ReviewInv, ReviewShape
<1>9. ASSUME SendsOut(Handled(a), ToEach(agents, letter)) PROVE Moved(agents, letter) /\ Spared(a)
  <2>1. PICK sent : sent = ToEach(agents, letter)
    OBVIOUS
  <2>2. DOMAIN sent = agents /\ \A b \in DOMAIN sent : sent[b] = letter
    BY <2>1 DEF ToEach
  <2>3. SendsOut(rest, sent)
    BY <1>5, <1>9, <2>1
  <2>4. /\ Moved(DOMAIN sent, letter)
        /\ \A b \in Parties : \A x : In(rest[b], x) => In(inbox'[b], x)
    BY <1>1, <1>7, <2>2, <2>3, SendFacts
  <2> QED BY <1>7, <2>2, <2>4 DEF Spared
<1>10. ASSUME SendsOut(Handled(a), <<>>) PROVE Moved({}, letter) /\ Spared(a)
  <2>1. PICK sent : sent = <<>>
    OBVIOUS
  <2>2. DOMAIN sent = {} /\ \A b \in DOMAIN sent : sent[b] = letter
    BY <2>1
  <2>3. SendsOut(rest, sent) /\ IsFiniteSet(DOMAIN sent)
    BY <1>5, <1>10, <2>1, <2>2, FS_EmptySet
  <2>4. /\ Moved(DOMAIN sent, letter)
        /\ \A b \in Parties : \A x : In(rest[b], x) => In(inbox'[b], x)
    BY <1>1, <1>7, <2>2, <2>3, SendFacts
  <2> QED BY <1>7, <2>2, <2>4 DEF Spared
<1>11. ASSUME inbox' = Handled(a), lost' \in 1..MaxLost PROVE Moved({}, letter) /\ Spared(a)
  BY <1>5, <1>7, <1>11, ReviewAssumption DEF Moved, Spared
<1> QED BY <1>2, <1>3, <1>8, <1>9, <1>10, <1>11

\* The review has been planned, and a step leaves the coordinator's findings alone.
SameFindings == UNCHANGED <<assigning, pending, findings>>
\* What a letter may be when it is sent: who it is from, and in its time.
LEMMA ShapeMoves ==
  ASSUME ReviewShape, Analyzed, SameFindings, NEW agents \in SUBSET Parties, NEW letter,
         Moved(agents, letter), agents # {} => Honest(letter),
         proposed' \/ cast' # {} \/ Completed' => pending = {}, Completed' => decided' = Voters
  PROVE  ReviewShape'
<1>1. /\ Analyzed' /\ pending' = pending /\ findings' = findings
      /\ \A x : Honest(x)' <=> Honest(x)
  BY DEF SameFindings, Analyzed, Honest
<1>2. ASSUME NEW a \in Parties, NEW x, In(inbox'[a], x) PROVE Honest(x)'
  BY <1>1, <1>2 DEF Moved, ReviewShape
<1> QED BY <1>1, <1>2 DEF ReviewShape, Completed

\* A task for an analyst, and an analyst's findings.
LEMMA TaskSteps ==
  ASSUME ReviewInv, NEW a \in Analysts, do_review(a) \/ (AssignsTask /\ a = Head(assigning))
  PROVE  ReviewInv'
<1>1. a \in Parties /\ a \in Voters /\ Coordinator \in Parties /\ a # Coordinator
  BY PartiesFacts
<1>2. CASE do_review(a)
  <2>1. PICK letter \in Letters : letter = Letter("findings", a)
    BY <1>1 DEF Letter, Letters
  <2>2. /\ inbox[a] # <<>> /\ Head(inbox[a]).type = "review_task" /\ SameFindings
        /\ SendsOut(Handled(a), ToEach({Coordinator}, letter))
        /\ UNCHANGED <<streaming, proposed, cast, decided, orchestrator, again>>
    BY <1>2, <2>1 DEF do_review, Receives, SameFindings, ReviewRoom
  <2>3. IsFiniteSet({Coordinator}) /\ {Coordinator} \in SUBSET Parties
    BY <1>1, FS_Singleton
  <2>4. Moved({Coordinator}, letter) /\ Spared(a) /\ Analyzed
    BY <1>1, <2>2, <2>3, HandledFacts
  <2>5. Honest(letter)
    BY <2>1 DEF Honest, Letter, LateTypes
  <2>6. ReviewShape'
    BY <2>2, <2>3, <2>4, <2>5, ShapeMoves DEF ReviewInv, ReviewShape, Completed
  <2>7. ReviewTypeOK'
    BY <2>2, <2>4 DEF ReviewInv, ReviewTypeOK, Moved, SameFindings
  <2>8. ASSUME lost' = 0, Analyzed' PROVE ReviewChain'
    <3>1. lost = 0 /\ In(inbox'[Coordinator], letter)
      BY <2>4, <2>8 DEF Moved
    <3>2. ReviewChain
      BY <2>4, <3>1 DEF ReviewInv
    <3>3. \A b \in Parties : \A x : In(inbox[b], x) /\ x.type # "review_task" => In(inbox'[b], x)
      BY <2>2, <2>4 DEF Spared
    <3>4. \A b \in Parties : \A x : In(inbox[b], x) /\ b # a => In(inbox'[b], x)
      BY <2>4 DEF Spared
    <3>5. \A t \in {"findings", "review_findings", "critic_review", "vote_request", "vote_result"} :
            \A v : Letter(t, v).type # "review_task"
      BY DEF Letter
    <3>6. Critic \in Parties /\ Voters \subseteq Parties /\ Analysts \subseteq Parties
      BY PartiesFacts
    <3>7. /\ \A b \in Analysts : \/ b \in ToSet(assigning) \/ b \notin pending
                                 \/ In(inbox'[b], Letter("review_task", Coordinator))
                                 \/ In(inbox'[Coordinator], Letter("findings", b))
          /\ pending = {} => \/ In(inbox'[Critic], Letter("review_findings", Coordinator))
                             \/ In(inbox'[Coordinator], Letter("critic_review", Critic))
                             \/ proposed
          /\ proposed => \A v \in Voters : In(inbox'[v], Letter("vote_request", Coordinator)) \/ v \in cast
          /\ cast = Voters => \/ Completed
                              \/ \E v \in Voters : In(inbox'[Coordinator], Letter("vote_result", v))
      BY <1>1, <2>1, <3>1, <3>2, <3>3, <3>4, <3>5, <3>6 DEF ReviewChain
    <3> QED BY <2>2, <3>7 DEF ReviewChain, SameFindings, Completed
  <2> QED BY <2>6, <2>7, <2>8 DEF ReviewInv
<1>3. CASE AssignsTask /\ a = Head(assigning)
  <2>1. PICK letter \in Letters : letter = Letter("review_task", Coordinator)
    BY <1>1 DEF Letter, Letters
  <2>2. /\ assigning # <<>> /\ assigning' = Tail(assigning) /\ Analyzed
        /\ SendsOut(inbox, ToEach({a}, letter))
        /\ UNCHANGED <<streaming, pending, findings, proposed, cast, decided, orchestrator, again>>
    BY <1>3, <2>1 DEF AssignsTask, ReviewRoom
  <2>3. PICK sent : sent = ToEach({a}, letter)
    OBVIOUS
  <2>4. IsFiniteSet({a}) /\ {a} \in SUBSET Parties
    BY <1>1, FS_Singleton
  <2>5. DOMAIN sent = {a} /\ \A b \in DOMAIN sent : sent[b] = letter
    BY <2>3 DEF ToEach
  <2>6. inbox \in [Parties -> Seq(Letters)] /\ lost \in 0..MaxLost /\ SendsOut(inbox, sent)
    BY <2>2, <2>3 DEF ReviewInv, ReviewTypeOK
  <2>7. Moved({a}, letter) /\ AllSpared
    <3>1. /\ Moved(DOMAIN sent, letter)
          /\ \A b \in Parties : \A x : In(inbox[b], x) => In(inbox'[b], x)
      BY <2>4, <2>5, <2>6, SendFacts
    <3> QED BY <2>5, <3>1 DEF AllSpared
  <2>8. assigning \in Seq(Analysts)
    BY <2>2 DEF ReviewInv, ReviewTypeOK, Analyzed
  <2>9. assigning' \in Seq(Analysts) /\ ToSet(assigning) \subseteq {a} \cup ToSet(assigning')
    <3>1. PICK rest : rest = Tail(assigning)
      OBVIOUS
    <3>2. /\ rest \in Seq(Analysts) /\ DOMAIN rest = 1..(Len(assigning) - 1)
          /\ \A i \in 1..(Len(assigning) - 1) : rest[i] = assigning[i + 1]
      BY <2>2, <2>8, <3>1
    <3>3. ASSUME NEW i \in DOMAIN assigning, assigning[i] # a PROVE assigning[i] \in ToSet(rest)
      <4>1. i - 1 \in DOMAIN rest /\ rest[i - 1] = assigning[i]
        BY <1>3, <2>2, <2>8, <3>2, <3>3
      <4> QED BY <4>1 DEF ToSet
    <3> QED BY <2>2, <3>1, <3>2, <3>3 DEF ToSet
  <2>10. Analyzed'
    <3>1. <<"plan">>[1] = "plan" /\ 1 \in DOMAIN <<"plan">>
      OBVIOUS
    <3>2. ASSUME assigning' = <<"plan">> PROVE FALSE
      <4>1. 1 \in DOMAIN assigning' /\ assigning'[1] = "plan"
        BY <3>1, <3>2
      <4>2. assigning'[1] \in Analysts
        BY <2>9, <4>1
      <4> QED BY <4>1, <4>2, ReviewAssumption
    <3> QED BY <3>2 DEF Analyzed
  <2>11. Honest(letter)
    BY <2>1 DEF Honest, Letter, LateTypes
  <2>12. ReviewShape'
    <3>1. ASSUME NEW b \in Parties, NEW x, In(inbox'[b], x) PROVE Honest(x)'
      <4>1. Honest(x)
        BY <2>7, <2>11, <3>1 DEF Moved, ReviewInv, ReviewShape
      <4> QED BY <2>2, <4>1 DEF Honest
    <3> QED BY <2>2, <2>10, <3>1 DEF ReviewInv, ReviewShape, Completed
  <2>13. ReviewTypeOK'
    BY <2>2, <2>7, <2>9 DEF ReviewInv, ReviewTypeOK, Moved
  <2>14. ASSUME lost' = 0 PROVE ReviewChain'
    <3>1. lost = 0 /\ In(inbox'[a], letter) /\ ReviewChain
      BY <2>2, <2>7, <2>14 DEF Moved, ReviewInv
    <3>2. Critic \in Parties /\ Voters \subseteq Parties /\ Analysts \subseteq Parties
      BY PartiesFacts
    <3>3. /\ \A b \in Analysts : \/ b \in ToSet(assigning') \/ b \notin pending
                                 \/ In(inbox'[b], Letter("review_task", Coordinator))
                                 \/ In(inbox'[Coordinator], Letter("findings", b))
          /\ pending = {} => \/ In(inbox'[Critic], Letter("review_findings", Coordinator))
                             \/ In(inbox'[Coordinator], Letter("critic_review", Critic))
                             \/ proposed
          /\ proposed => \A v \in Voters : In(inbox'[v], Letter("vote_request", Coordinator)) \/ v \in cast
          /\ cast = Voters => \/ Completed
                              \/ \E v \in Voters : In(inbox'[Coordinator], Letter("vote_result", v))
      BY <1>1, <2>1, <2>7, <2>9, <3>1, <3>2 DEF ReviewChain, AllSpared
    <3> QED BY <2>2, <3>3 DEF ReviewChain, Completed
  <2> QED BY <2>12, <2>13, <2>14 DEF ReviewInv
<1> QED BY <1>2, <1>3

\* The coordinator takes in findings, and passes them on when they are all in.
LEMMA CollectStep == ASSUME ReviewInv, collect_findings PROVE ReviewInv'
<1>0. Coordinator \in Parties /\ Critic \in Parties /\ Critic # Coordinator /\ Coordinator \notin Voters
  BY PartiesFacts
<1>1. PICK a : a = Sender(Coordinator)
  OBVIOUS
<1>2. /\ inbox[Coordinator] # <<>> /\ Head(inbox[Coordinator]).type = "findings"
      /\ Head(inbox[Coordinator]).from = a
      /\ findings' = Append(findings, a) /\ pending' = pending \ {a}
      /\ SendsOut(Handled(Coordinator),
                  IF AllIn(pending') THEN ToEach({Critic}, Letter("review_findings", Coordinator)) ELSE <<>>)
      /\ UNCHANGED <<streaming, assigning, proposed, cast, decided, orchestrator, again>>
  BY <1>1 DEF collect_findings, Receives, Sender, ReviewRoom
<1>3. PICK letter \in Letters : letter = Letter("review_findings", Coordinator)
  BY <1>0 DEF Letter, Letters
<1>4. PICK agents \in SUBSET Parties : agents = IF pending' = {} THEN {Critic} ELSE {}
  BY <1>0
<1>5. Moved(agents, letter) /\ Spared(Coordinator) /\ Analyzed
      /\ In(inbox[Coordinator], Head(inbox[Coordinator])) /\ Head(inbox[Coordinator]) \in Letters
  <2>0. IsFiniteSet({Critic}) /\ {Critic} \in SUBSET Parties
    BY <1>0, FS_Singleton
  <2>1. CASE pending' = {}
    BY <1>0, <1>2, <1>3, <1>4, <2>0, <2>1, HandledFacts DEF AllIn
  <2>2. CASE pending' # {}
    BY <1>0, <1>2, <1>3, <1>4, <2>0, <2>2, HandledFacts DEF AllIn
  <2> QED BY <2>1, <2>2
<1>6. a \in Analysts
  BY <1>0, <1>2, <1>5 DEF ReviewInv, ReviewShape, Honest
<1>7. findings' \in Seq(Analysts) /\ ToSet(findings') = ToSet(findings) \cup {a}
  <2>1. findings \in Seq(Analysts)
    BY DEF ReviewInv, ReviewTypeOK
  <2>2. /\ findings' \in Seq(Analysts) /\ DOMAIN findings' = 1..(Len(findings) + 1)
        /\ findings'[Len(findings) + 1] = a /\ \A i \in 1..Len(findings) : findings'[i] = findings[i]
        /\ DOMAIN findings = 1..Len(findings) /\ Len(findings) \in Nat
    BY <1>2, <1>6, <2>1
  <2>3. \A x : x \in ToSet(findings') <=> x \in ToSet(findings) \/ x = a
    BY <2>2 DEF ToSet
  <2> QED BY <2>2, <2>3
<1>8. Analyzed' /\ (Completed' <=> Completed)
  BY <1>2, <1>5 DEF Analyzed, Completed
<1>9. ReviewShape'
  <2>1. ASSUME NEW b \in Parties, NEW x, In(inbox'[b], x) PROVE Honest(x)'
    <3>1. CASE In(inbox[b], x)
      BY <1>2, <3>1 DEF ReviewInv, ReviewShape, Honest
    <3>2. CASE b \in agents /\ x = letter
      <4>1. pending' = {}
        BY <1>4, <3>2
      <4> QED BY <1>3, <3>2, <4>1 DEF Honest, Letter
    <3> QED BY <1>5, <2>1, <3>1, <3>2 DEF Moved
  <2>2. pending' = Analysts \ ToSet(findings')
    BY <1>2, <1>5, <1>7 DEF ReviewInv, ReviewShape
  <2>3. /\ proposed' \/ cast' # {} \/ Completed' => pending' = {}
        /\ Completed' => decided' = Voters
    BY <1>2, <1>8 DEF ReviewInv, ReviewShape
  <2> QED BY <1>8, <2>1, <2>2, <2>3 DEF ReviewShape
<1>10. ReviewTypeOK'
  BY <1>2, <1>5, <1>7 DEF ReviewInv, ReviewTypeOK, Moved
<1>11. ASSUME lost' = 0 PROVE ReviewChain'
  <2>1. lost = 0 /\ ReviewChain /\ \A b \in agents : In(inbox'[b], letter)
    BY <1>5, <1>11 DEF Moved, ReviewInv
  <2>2. \A b \in Parties : \A x : In(inbox[b], x) => In(inbox'[b], x) \/ (b = Coordinator /\ x.type = "findings" /\ x.from = a)
    BY <1>2, <1>5 DEF Spared
  <2>3. /\ \A v : Letter("findings", v).from = v
        /\ \A t, v : Letter(t, v).type = t
    BY DEF Letter
  <2>4. Voters \subseteq Parties /\ Analysts \subseteq Parties
    BY PartiesFacts
  <2>5. ASSUME NEW b \in Analysts
        PROVE  \/ b \in ToSet(assigning) \/ b \notin pending'
               \/ In(inbox'[b], Letter("review_task", Coordinator))
               \/ In(inbox'[Coordinator], Letter("findings", b))
    BY <1>0, <1>2, <2>1, <2>2, <2>3, <2>4 DEF ReviewChain
  <2>6. pending' = {} => In(inbox'[Critic], Letter("review_findings", Coordinator))
    BY <1>3, <1>4, <2>1
  <2>7. proposed => \A v \in Voters : In(inbox'[v], Letter("vote_request", Coordinator)) \/ v \in cast
    BY <2>1, <2>2, <2>3, <2>4 DEF ReviewChain
  <2>8. cast = Voters => \/ Completed
                         \/ \E v \in Voters : In(inbox'[Coordinator], Letter("vote_result", v))
    BY <1>0, <2>1, <2>2, <2>3 DEF ReviewChain
  <2> QED BY <1>2, <1>8, <2>5, <2>6, <2>7, <2>8 DEF ReviewChain
<1> QED BY <1>9, <1>10, <1>11 DEF ReviewInv

\* The critic reviews the findings.
LEMMA CriticStep == ASSUME ReviewInv, review_findings PROVE ReviewInv'
<1>0. Coordinator \in Parties /\ Critic \in Parties /\ Critic # Coordinator /\ Critic \notin Analysts
      /\ Voters \subseteq Parties /\ Analysts \subseteq Parties
  BY PartiesFacts, ReviewAssumption
<1>1. PICK letter \in Letters : letter = Letter("critic_review", Critic)
  BY <1>0 DEF Letter, Letters
<1>2. /\ inbox[Critic] # <<>> /\ Head(inbox[Critic]).type = "review_findings" /\ SameFindings
      /\ SendsOut(Handled(Critic), ToEach({Coordinator}, letter))
      /\ UNCHANGED <<streaming, proposed, cast, decided, orchestrator, again>>
  BY <1>1 DEF review_findings, Receives, SameFindings, ReviewRoom
<1>3. IsFiniteSet({Coordinator}) /\ {Coordinator} \in SUBSET Parties
  BY <1>0, FS_Singleton
<1>4. Moved({Coordinator}, letter) /\ Spared(Critic) /\ Analyzed /\ In(inbox[Critic], Head(inbox[Critic]))
  BY <1>0, <1>2, <1>3, HandledFacts
<1>5. pending = {}
  BY <1>0, <1>2, <1>4 DEF ReviewInv, ReviewShape, Honest, LateTypes
<1>6. Honest(letter)
  BY <1>1, <1>5 DEF Honest, Letter
<1>7. ReviewShape'
  BY <1>2, <1>3, <1>4, <1>5, <1>6, ShapeMoves DEF ReviewInv, ReviewShape, Completed
<1>8. ReviewTypeOK'
  BY <1>2, <1>4 DEF ReviewInv, ReviewTypeOK, Moved, SameFindings
<1>9. ASSUME lost' = 0 PROVE ReviewChain'
  <2>1. lost = 0 /\ ReviewChain /\ In(inbox'[Coordinator], Letter("critic_review", Critic))
    BY <1>1, <1>4, <1>9 DEF Moved, ReviewInv
  <2>2. \A b \in Parties : \A x : In(inbox[b], x) => In(inbox'[b], x) \/ (b = Critic /\ x.type = "review_findings")
    BY <1>2, <1>4 DEF Spared
  <2>3. \A t, v : Letter(t, v).type = t
    BY DEF Letter
  <2>4. /\ proposed => \A v \in Voters : In(inbox'[v], Letter("vote_request", Coordinator)) \/ v \in cast
        /\ cast = Voters => \/ Completed
                            \/ \E v \in Voters : In(inbox'[Coordinator], Letter("vote_result", v))
    BY <1>0, <2>1, <2>2, <2>3 DEF ReviewChain
  <2> QED BY <1>2, <1>5, <2>1, <2>4 DEF ReviewChain, SameFindings, Completed
<1> QED BY <1>7, <1>8, <1>9 DEF ReviewInv

\* The coordinator makes its one proposal, and asks everybody to vote.
LEMMA ProposeStep == ASSUME ReviewInv, handle_critic_review PROVE ReviewInv'
<1>0. Coordinator \in Parties \ Voters /\ Voters \subseteq Parties /\ Analysts \subseteq Parties
      /\ IsFiniteSet(Voters)
  BY PartiesFacts
<1>1. PICK letter \in Letters : letter = Letter("vote_request", Coordinator)
  BY <1>0 DEF Letter, Letters
<1>2. /\ inbox[Coordinator] # <<>> /\ Head(inbox[Coordinator]).type = "critic_review" /\ SameFindings
      /\ SendsOut(Handled(Coordinator), IF proposed THEN <<>> ELSE ToEach(Voters, letter))
      /\ proposed' = TRUE
      /\ UNCHANGED <<streaming, cast, decided, orchestrator, again>>
  BY <1>1 DEF handle_critic_review, Receives, SameFindings
<1>3. PICK agents \in SUBSET Voters : agents = IF proposed THEN {} ELSE Voters
  OBVIOUS
<1>4. Moved(agents, letter) /\ Spared(Coordinator) /\ Analyzed
      /\ In(inbox[Coordinator], Head(inbox[Coordinator]))
  <2>0. Voters \in SUBSET Parties
    BY <1>0
  <2>1. CASE proposed
    BY <1>0, <1>2, <1>3, <2>0, <2>1, HandledFacts
  <2>2. CASE ~proposed
    BY <1>0, <1>2, <1>3, <2>0, <2>2, HandledFacts
  <2> QED BY <2>1, <2>2
<1>5. pending = {}
  BY <1>0, <1>2, <1>4 DEF ReviewInv, ReviewShape, Honest, LateTypes
<1>6. Honest(letter)
  BY <1>1, <1>5 DEF Honest, Letter
<1>7. ReviewShape'
  <2>1. agents \in SUBSET Parties
    BY <1>0
  <2> QED BY <1>2, <1>4, <1>5, <1>6, <2>1, ShapeMoves DEF ReviewInv, ReviewShape, Completed
<1>8. ReviewTypeOK'
  BY <1>2, <1>4 DEF ReviewInv, ReviewTypeOK, Moved, SameFindings
<1>9. ASSUME lost' = 0 PROVE ReviewChain'
  <2>1. lost = 0 /\ ReviewChain /\ \A v \in agents : In(inbox'[v], Letter("vote_request", Coordinator))
    BY <1>1, <1>4, <1>9 DEF Moved, ReviewInv
  <2>2. \A b \in Parties : \A x : In(inbox[b], x) => In(inbox'[b], x) \/ (b = Coordinator /\ x.type = "critic_review")
    BY <1>2, <1>4 DEF Spared
  <2>3. \A t, v : Letter(t, v).type = t
    BY DEF Letter
  <2>4. \A v \in Voters : In(inbox'[v], Letter("vote_request", Coordinator)) \/ v \in cast
    <3>1. CASE proposed
      BY <1>0, <2>1, <2>2, <3>1 DEF ReviewChain
    <3>2. CASE ~proposed
      BY <1>3, <2>1, <3>2
    <3> QED BY <3>1, <3>2
  <2>5. cast = Voters => \/ Completed
                         \/ \E v \in Voters : In(inbox'[Coordinator], Letter("vote_result", v))
    BY <1>0, <2>1, <2>2, <2>3 DEF ReviewChain
  <2> QED BY <1>2, <1>5, <2>4, <2>5 DEF ReviewChain, SameFindings, Completed
<1> QED BY <1>7, <1>8, <1>9 DEF ReviewInv

\* An agent votes once.
LEMMA VoteStep == ASSUME ReviewInv, NEW a \in Voters, cast_vote(a) PROVE ReviewInv'
<1>0. Coordinator \in Parties \ Voters /\ Voters \subseteq Parties /\ Analysts \subseteq Parties
      /\ Critic \in Parties /\ a \in Parties /\ a # Coordinator
  BY PartiesFacts
<1>1. PICK letter \in Letters : letter = Letter("vote_result", a)
  BY <1>0 DEF Letter, Letters
<1>2. /\ inbox[a] # <<>> /\ Head(inbox[a]).type = "vote_request" /\ SameFindings
      /\ SendsOut(Handled(a), IF a \in cast THEN <<>> ELSE ToEach({Coordinator}, letter))
      /\ cast' = cast \cup {a}
      /\ UNCHANGED <<streaming, proposed, decided, orchestrator, again>>
  BY <1>1 DEF cast_vote, Receives, SameFindings
<1>3. PICK agents \in SUBSET Parties : agents = IF a \in cast THEN {} ELSE {Coordinator}
  BY <1>0
<1>4. Moved(agents, letter) /\ Spared(a) /\ Analyzed /\ In(inbox[a], Head(inbox[a]))
  <2>0. IsFiniteSet({Coordinator}) /\ {Coordinator} \in SUBSET Parties
    BY <1>0, FS_Singleton
  <2>1. CASE a \in cast
    BY <1>0, <1>2, <1>3, <2>0, <2>1, HandledFacts
  <2>2. CASE a \notin cast
    BY <1>0, <1>2, <1>3, <2>0, <2>2, HandledFacts
  <2> QED BY <2>1, <2>2
<1>5. pending = {}
  BY <1>0, <1>2, <1>4 DEF ReviewInv, ReviewShape, Honest, LateTypes
<1>6. Honest(letter)
  BY <1>1, <1>5 DEF Honest, Letter
<1>7. ReviewShape'
  <2>1. Completed' => decided' = Voters
    BY <1>2 DEF ReviewInv, ReviewShape, Completed
  <2> QED BY <1>2, <1>4, <1>5, <1>6, <2>1, ShapeMoves DEF ReviewInv
<1>8. ReviewTypeOK'
  BY <1>2, <1>4 DEF ReviewInv, ReviewTypeOK, Moved, SameFindings
<1>9. ASSUME lost' = 0 PROVE ReviewChain'
  <2>1. lost = 0 /\ ReviewChain /\ (a \notin cast => In(inbox'[Coordinator], Letter("vote_result", a)))
    BY <1>1, <1>3, <1>4, <1>9 DEF Moved, ReviewInv
  <2>2. \A b \in Parties : \A x : In(inbox[b], x) => In(inbox'[b], x) \/ (b = a /\ x.type = "vote_request")
    BY <1>2, <1>4 DEF Spared
  <2>3. \A t, v : Letter(t, v).type = t
    BY DEF Letter
  <2>4. proposed => \A v \in Voters : In(inbox'[v], Letter("vote_request", Coordinator)) \/ v \in cast'
    BY <1>0, <1>2, <2>1, <2>2 DEF ReviewChain
  <2>5. cast' = Voters => \/ Completed
                          \/ \E v \in Voters : In(inbox'[Coordinator], Letter("vote_result", v))
    <3>1. CASE a \in cast
      <4>1. cast' = cast
        BY <1>2, <3>1
      <4> QED BY <1>0, <2>1, <2>2, <4>1 DEF ReviewChain
    <3>2. CASE a \notin cast
      BY <2>1, <3>2
    <3> QED BY <3>1, <3>2
  <2>6. \/ In(inbox'[Critic], Letter("review_findings", Coordinator))
        \/ In(inbox'[Coordinator], Letter("critic_review", Critic)) \/ proposed
    BY <1>0, <1>5, <2>1, <2>2, <2>3 DEF ReviewChain
  <2> QED BY <1>2, <1>5, <2>4, <2>5, <2>6 DEF ReviewChain, SameFindings, Completed
<1> QED BY <1>7, <1>8, <1>9 DEF ReviewInv

\* The coordinator decides when three have voted, which is everybody.
LEMMA DecideStep == ASSUME ReviewInv, handle_vote_result PROVE ReviewInv'
<1>0. Coordinator \in Parties \ Voters /\ Voters \subseteq Parties /\ Analysts \subseteq Parties
      /\ Critic \in Parties /\ Critic # Coordinator
  BY PartiesFacts
<1>1. /\ inbox[Coordinator] # <<>> /\ Head(inbox[Coordinator]).type = "vote_result" /\ SameFindings
      /\ SendsOut(Handled(Coordinator), <<>>)
      /\ decided' = IF AllVoted /\ ~Completed THEN cast ELSE decided
      /\ UNCHANGED <<streaming, proposed, cast, orchestrator, again>>
  BY DEF handle_vote_result, Receives, SameFindings
<1>2. PICK letter \in Letters : letter = Letter("vote_result", Coordinator)
  BY <1>0 DEF Letter, Letters
<1>3. Moved({}, letter) /\ Spared(Coordinator) /\ Analyzed
      /\ In(inbox[Coordinator], Head(inbox[Coordinator]))
  <2>0. IsFiniteSet({}) /\ {} \in SUBSET Parties
    BY FS_EmptySet
  <2> QED BY <1>0, <1>1, <2>0, HandledFacts
<1>4. pending = {}
  BY <1>0, <1>1, <1>3 DEF ReviewInv, ReviewShape, Honest, LateTypes
<1>5. AllVoted <=> cast = Voters
  <2>1. cast \in SUBSET Voters /\ IsFiniteSet(Voters) /\ Cardinality(Voters) = 3
    BY PartiesFacts DEF ReviewInv, ReviewTypeOK
  <2>2. Cardinality(cast) <= 3 /\ Cardinality(cast) \in Nat /\ (Cardinality(cast) = 3 => cast = Voters)
    BY <2>1, FS_Subset, FS_CardinalityType
  <2> QED BY <2>1, <2>2 DEF AllVoted
<1>6. /\ cast = Voters => Completed'
      /\ Completed => Completed' /\ decided' = decided
      /\ Completed' => decided' = Voters
  BY <1>1, <1>5, PartiesFacts DEF ReviewInv, ReviewShape, Completed
<1>7. ReviewShape'
  <2>0. {} \in SUBSET Parties
    OBVIOUS
  <2> QED BY <1>1, <1>3, <1>4, <1>6, <2>0, ShapeMoves DEF ReviewInv
<1>8. ReviewTypeOK'
  BY <1>1, <1>3 DEF ReviewInv, ReviewTypeOK, Moved, SameFindings
<1>9. ASSUME lost' = 0 PROVE ReviewChain'
  <2>1. lost = 0 /\ ReviewChain
    BY <1>3, <1>9 DEF Moved, ReviewInv
  <2>2. \A b \in Parties : \A x : In(inbox[b], x) => In(inbox'[b], x) \/ (b = Coordinator /\ x.type = "vote_result")
    BY <1>1, <1>3 DEF Spared
  <2>3. \A t, v : Letter(t, v).type = t
    BY DEF Letter
  <2>4. proposed => \A v \in Voters : In(inbox'[v], Letter("vote_request", Coordinator)) \/ v \in cast
    BY <1>0, <2>1, <2>2, <2>3 DEF ReviewChain
  <2>5. \/ In(inbox'[Critic], Letter("review_findings", Coordinator))
        \/ In(inbox'[Coordinator], Letter("critic_review", Critic)) \/ proposed
    BY <1>0, <1>4, <2>1, <2>2, <2>3 DEF ReviewChain
  <2> QED BY <1>1, <1>4, <1>6, <2>4, <2>5 DEF ReviewChain, SameFindings
<1> QED BY <1>7, <1>8, <1>9 DEF ReviewInv

\* A message delivered again tells nothing new, and one that is lost ends the promise.
LEMMA RoutingSteps ==
  ASSUME ReviewInv, NEW a \in Parties, DeliversAgain(a) \/ HandlerRaises(a)
  PROVE  ReviewInv'
<1>0. Coordinator \in Parties /\ Voters \subseteq Parties /\ Analysts \subseteq Parties /\ Critic \in Parties
  BY PartiesFacts
<1>1. PICK letter \in Letters : letter = Letter("vote_result", Coordinator)
  BY <1>0 DEF Letter, Letters
<1>2. /\ inbox[a] # <<>> /\ SameFindings
      /\ UNCHANGED <<streaming, proposed, cast, decided, orchestrator>>
      /\ again' \in 0..MaxAgain
  <2>1. again \in 0..MaxAgain /\ MaxAgain \in Nat
    BY ReviewAssumption DEF ReviewInv, ReviewTypeOK
  <2>2. again' = again \/ (again < MaxAgain /\ again' = again + 1)
    BY DEF DeliversAgain, HandlerRaises
  <2> QED BY <2>1, <2>2 DEF DeliversAgain, HandlerRaises, SameFindings, ReviewRoom
<1>3. {} \in SUBSET Parties /\ IsFiniteSet({})
  BY FS_EmptySet
<1>4. Head(inbox[a]) \in Letters /\ In(inbox[a], Head(inbox[a])) /\ Analyzed
  BY <1>1, <1>2, <1>3, HandledFacts
<1>5. Moved({}, letter) /\ (lost' = 0 => AllSpared)
  <2>1. CASE HandlerRaises(a)
    <3>1. inbox' = Handled(a) /\ lost' \in 1..MaxLost /\ lost' # 0
      <4>1. inbox' = Handled(a) /\ lost < MaxLost /\ lost' = lost + 1
        BY <2>1 DEF HandlerRaises
      <4>2. lost \in 0..MaxLost /\ MaxLost \in Nat
        BY ReviewAssumption DEF ReviewInv, ReviewTypeOK
      <4> QED BY <4>1, <4>2
    <3> QED BY <1>1, <1>2, <1>3, <3>1, HandledFacts
  <2>2. CASE DeliversAgain(a)
    <3>1. inbox \in [Parties -> Seq(Letters)] /\ lost \in 0..MaxLost
      BY DEF ReviewInv, ReviewTypeOK
    <3>2. PICK q \in Seq(Letters) : q = inbox[a]
      BY <3>1
    <3>3. PICK e \in Letters : e = Head(q)
      BY <1>4, <3>2
    <3>4. inbox' = [inbox EXCEPT ![a] = Append(q, e)] /\ lost' = lost
      BY <2>2, <3>2, <3>3 DEF DeliversAgain
    <3>5. Append(q, e) \in Seq(Letters) /\ \A x : In(Append(q, e), x) <=> In(q, x)
      <4>1. \A d \in Letters : \A x :
              /\ Append(q, d) \in Seq(Letters)
              /\ In(Append(q, d), x) <=> In(q, x) \/ d = x
              /\ OnceIn(q, x) /\ (d = x => ~In(q, x)) => OnceIn(Append(q, d), x)
        BY QueueFacts
      <4>2. /\ Append(q, e) \in Seq(Letters)
            /\ \A x : In(Append(q, e), x) <=> In(q, x) \/ e = x
        BY <4>1, Zenon
      <4>3. In(q, e)
        BY <1>4, <3>2, <3>3
      <4> QED BY <4>2, <4>3
    <3>6. \A b \in Parties : \A x : In(inbox'[b], x) <=> In(inbox[b], x)
      BY <3>1, <3>2, <3>4, <3>5
    <3>7. inbox' \in [Parties -> Seq(Letters)]
      BY <3>1, <3>4, <3>5
    <3> QED BY <3>1, <3>4, <3>6, <3>7 DEF Moved, AllSpared
  <2> QED BY <2>1, <2>2
<1>6. ReviewShape'
  BY <1>2, <1>3, <1>4, <1>5, ShapeMoves DEF ReviewInv, ReviewShape, Completed
<1>7. ReviewTypeOK'
  BY <1>2, <1>5 DEF ReviewInv, ReviewTypeOK, Moved, SameFindings
<1>8. ASSUME lost' = 0 PROVE ReviewChain'
  <2>1. ReviewChain /\ AllSpared
    BY <1>4, <1>5, <1>8 DEF Moved, ReviewInv
  <2> QED BY <1>0, <1>2, <2>1 DEF ReviewChain, AllSpared, SameFindings, Completed
<1> QED BY <1>6, <1>7, <1>8 DEF ReviewInv

\* The tasks that start_review has to send are those of all analysts.
LEMMA TasksFacts ==
  /\ SetToSeq(Analysts) \in Seq(Analysts) /\ ToSet(SetToSeq(Analysts)) = Analysts
  /\ SetToSeq(Analysts) # <<"plan">>
<1>1. PICK n \in Nat : n = Cardinality(Analysts) /\ ExistsBijection(1..n, Analysts)
  BY ReviewAssumption, FS_CardinalityType
<1>2. PICK g \in Bijection(1..n, Analysts) : TRUE
  BY <1>1 DEF ExistsBijection
<1>3. g \in [1..n -> Analysts] /\ IsInjective(g)
  BY <1>2 DEF Bijection, Injection, IsInjective
<1>4. PICK f : f = SetToSeq(Analysts)
  OBVIOUS
<1>5. f \in [1..n -> Analysts] /\ IsInjective(f)
  BY <1>1, <1>3, <1>4 DEF SetToSeq
<1>6. f \in Injection(1..n, Analysts)
  BY <1>5 DEF Injection, IsInjective
<1>7. Cardinality(1..n) = n /\ IsFiniteSet(1..n)
  BY <1>1, FS_Interval
<1>8. f \in Surjection(1..n, Analysts)
  BY <1>1, <1>6, <1>7, ReviewAssumption, FS_Injection
<1>9. f \in Seq(Analysts)
  BY <1>5
<1>10. ToSet(f) = Analysts
  BY <1>5, <1>8 DEF ToSet, Surjection
<1>11. <<"plan">>[1] = "plan" /\ 1 \in DOMAIN <<"plan">>
  OBVIOUS
<1> QED BY <1>4, <1>9, <1>10, <1>11, ReviewAssumption

\* The review begins before anybody has a message.
LEMMA PlanStep == ASSUME ReviewInv, PlansReview PROVE ReviewInv'
<1>1. /\ ~Analyzed /\ assigning' = SetToSeq(Analysts) /\ pending' = Analysts /\ findings' = <<>>
      /\ UNCHANGED <<inbox, streaming, proposed, cast, decided, orchestrator, lost, again>>
  BY DEF PlansReview, ReviewRoom
<1>2. Analyzed' /\ ToSet(findings') = {} /\ <<>> \in Seq(Analysts)
  BY <1>1, TasksFacts DEF Analyzed, ToSet
<1>3. ReviewShape'
  BY <1>1, <1>2 DEF ReviewInv, ReviewShape, Completed
<1>4. ReviewTypeOK'
  BY <1>1, <1>2, TasksFacts DEF ReviewInv, ReviewTypeOK
<1>5. ReviewChain'
  BY <1>1, TasksFacts, PartiesFacts DEF ReviewInv, ReviewShape, ReviewChain
<1> QED BY <1>3, <1>4, <1>5 DEF ReviewInv

\* Nobody has said anything.
LEMMA InitReview == ReviewInit => ReviewInv
<1> SUFFICES ASSUME ReviewInit PROVE ReviewInv
  OBVIOUS
<1>1. <<>> \in Seq(Letters) /\ <<>> \in Seq(Analysts)
  OBVIOUS
<1>2. ReviewTypeOK
  <2>1. inbox \in [Parties -> Seq(Letters)] /\ findings \in Seq(Analysts)
    BY <1>1 DEF ReviewInit
  <2>2. lost \in 0..MaxLost /\ again \in 0..MaxAgain
    BY ReviewAssumption DEF ReviewInit
  <2> QED BY <2>1, <2>2 DEF ReviewInit, ReviewTypeOK
<1>3. ~Analyzed
  BY DEF ReviewInit, Analyzed
<1>4. ReviewShape
  BY <1>3 DEF ReviewInit, ReviewShape, In, Completed
<1> QED BY <1>2, <1>3, <1>4 DEF ReviewInv

\* Every step of a review keeps the promise.
LEMMA ReviewStep == ReviewInv /\ [ReviewNext]_reviewVars => ReviewInv'
<1> SUFFICES ASSUME ReviewInv, [ReviewNext]_reviewVars PROVE ReviewInv'
  OBVIOUS
<1>1. ASSUME UNCHANGED <<inbox, assigning, pending, findings, proposed, cast, decided, lost, again>>,
             streaming' \subseteq Parties,
             orchestrator' \in {"starting", "waiting", "reported", "timed out"}
      PROVE  ReviewInv'
  <2>1. Analyzed' = Analyzed /\ Completed' = Completed /\ \A x : Honest(x)' <=> Honest(x)
    BY <1>1 DEF Analyzed, Completed, Honest
  <2> QED BY <1>1, <2>1 DEF ReviewInv, ReviewTypeOK, ReviewShape, ReviewChain
<1>2. streaming \subseteq Parties /\ orchestrator \in {"starting", "waiting", "reported", "timed out"}
  BY DEF ReviewInv, ReviewTypeOK
<1>3. CASE (\E a \in Parties : OpensStream(a)) \/ StartsWaiting \/ Reports \/ GivesUpWaiting
           \/ UNCHANGED reviewVars
  BY <1>1, <1>2, <1>3
     DEF OpensStream, StartsWaiting, Reports, GivesUpWaiting, OrchestratorEnds, ReviewRoom, reviewVars
<1>4. CASE \E a \in Parties : DeliversAgain(a) \/ HandlerRaises(a)
  BY <1>4, RoutingSteps
<1>5. CASE AssignsTask
  <2>1. assigning \in Seq(Analysts) /\ assigning # <<>>
    BY <1>5 DEF AssignsTask, ReviewInv, ReviewTypeOK, Analyzed
  <2>2. Head(assigning) \in Analysts
    BY <2>1
  <2> QED BY <1>5, <2>2, TaskSteps
<1>6. CASE HandlesMessage
  <2>1. CASE \E a \in Voters : do_review(a)
    <3>1. PICK a \in Analysts : do_review(a)
      BY <2>1 DEF do_review
    <3> QED BY <3>1, TaskSteps
  <2>2. CASE \E a \in Voters : cast_vote(a)
    BY <2>2, VoteStep
  <2> QED BY <1>6, <2>1, <2>2, CollectStep, ProposeStep, DecideStep, CriticStep DEF HandlesMessage
<1> QED BY <1>3, <1>4, <1>5, <1>6, PlanStep DEF ReviewNext

\* The invariant says that the agents never wait for each other, and that a decision is
\* everybody's, on everybody's findings.
LEMMA ReviewMeans == ReviewInv => ReviewTypeOK /\ ReviewIsComplete
<1> SUFFICES ASSUME ReviewInv PROVE ReviewTypeOK /\ ReviewIsComplete
  OBVIOUS
<1>0. Coordinator \in Parties /\ Voters \subseteq Parties /\ Analysts \subseteq Parties /\ Critic \in Parties
  BY PartiesFacts
<1>1. ASSUME Quiet, lost = 0 PROVE Completed
  <2>1. assigning = <<>> /\ \A a \in Parties : inbox[a] = <<>>
    BY <1>1 DEF Quiet
  <2>2. Analyzed /\ ToSet(assigning) = {} /\ \A a \in Parties : \A x : ~In(inbox[a], x)
    BY <2>1 DEF Analyzed, ToSet, In
  <2>3. ReviewChain
    BY <1>1, <2>2 DEF ReviewInv
  <2>4. pending = {}
    BY <1>0, <2>2, <2>3 DEF ReviewChain, ReviewInv, ReviewTypeOK
  <2>5. proposed
    BY <1>0, <2>2, <2>3, <2>4 DEF ReviewChain
  <2>6. cast = Voters
    BY <1>0, <2>2, <2>3, <2>5 DEF ReviewChain, ReviewInv, ReviewTypeOK
  <2> QED BY <1>0, <2>2, <2>3, <2>6 DEF ReviewChain
<1>2. ASSUME Completed PROVE decided = Voters /\ ToSet(findings) = Analysts
  <2>1. Analyzed /\ decided = Voters /\ pending = {}
    BY <1>2 DEF ReviewInv, ReviewShape, Completed
  <2>2. Analysts \ ToSet(findings) = {}
    BY <2>1 DEF ReviewInv, ReviewShape
  <2>3. ToSet(findings) \subseteq Analysts
    <3>1. findings \in Seq(Analysts)
      BY DEF ReviewInv, ReviewTypeOK
    <3> QED BY <3>1 DEF ToSet
  <2> QED BY <2>1, <2>2, <2>3
<1> QED BY <1>1, <1>2 DEF ReviewIsComplete, ReviewInv
-------------------------------------------------------------------------------
(* The services together *)

\* A step is one service's, and the others stay as they are.
LEMMA StepsOfParts ==
  ASSUME [Next]_services
  PROVE  /\ [RegistryNext]_registryVars /\ [SchedulerNext]_schedulerVars
         /\ [ShutdownNext]_shutdownVars /\ [WorkflowNext]_workflowVars
         /\ [HandoffNext]_handoffVars /\ [RoomNext]_roomVars /\ [ReviewNext]_reviewVars
         /\ [SessionNext]_sessionVars /\ [StreamNext]_streamVars
<1>1. CASE UNCHANGED services
  BY <1>1 DEF services
<1>2. CASE Next
  BY <1>2 DEF Next, InRegistry, InShutdown, InRoom, InClaude, Runs
<1> QED BY <1>1, <1>2

\* The inductive invariants of the services, each about variables of its own.
ServicesInv ==
  /\ RegistryInv /\ SchedulerInv /\ KnownAreFew /\ ShutdownInv /\ WorkflowInv /\ RoomInv
  /\ ReviewInv /\ SessionInv /\ StreamInv

\* Each service starts as it must.
LEMMA InitServices == Init => ServicesInv
BY InitRegistryInv, InitSchedulerInv, InitKnownAreFew, InitShutdownInv, InitWorkflow,
   InitRoom, InitReview, InitSession, InitStream DEF Init, ServicesInv

\* Each service keeps what it must.
LEMMA ServicesStep == ServicesInv /\ [Next]_services => ServicesInv'
<1> SUFFICES ASSUME ServicesInv, [Next]_services PROVE ServicesInv'
  OBVIOUS
<1>1. ShutdownInv /\ [ShutdownNext]_shutdownVars => ShutdownInv'
  BY WorkersKeepInv, SignalKeepsInv, StopKeepsInv, OthersKeepInv DEF ShutdownNext, Exited
<1>2. RoomInv' /\ WorkflowInv'
  BY StepsOfParts, RoomStep, WorkflowStep DEF ServicesInv
<1> QED BY <1>1, <1>2, StepsOfParts, RegistryStep, SchedulerStep, ReviewStep, SessionStep,
           StreamStep DEF ServicesInv

\* An agent that left stays out of the registry, no confirmed sign of life is lost but to a
\* registration that was under way, no confirmed preemption or purge is lost, and a drain counts
\* and waits for what was inside track_request, for any crashes, failing writes and signals.
THEOREM ServicesKeepTheirWord ==
  ServicesSpec => [](RegistryIsDurable /\ SchedulerIsDurable /\ DrainIsSound)
<1>1. ServicesInv => RegistryIsDurable /\ SchedulerIsDurable /\ DrainIsSound
  <2> SUFFICES ASSUME ServicesInv PROVE RegistryIsDurable /\ SchedulerIsDurable /\ DrainIsSound
    OBVIOUS
  <2>1. RegistryIsDurable
    BY DEF ServicesInv, RegistryInv, RegistryIsDurable, LeftIsGone, LeftHasNoRow, Members, RegistryTypeOK
  <2>2. SchedulerIsDurable
    BY DEF ServicesInv, SchedulerInv, SchedulerIsDurable
  <2>3. DrainIsSound
    BY DEF ServicesInv, ShutdownInv, DrainIsSound
  <2> QED BY <2>1, <2>2, <2>3
<1> QED BY InitServices, ServicesStep, <1>1, PTL DEF ServicesSpec

\* For any acyclic graph, and whichever nodes are reported when: a workflow whose nodes are
\* run and completed only in their turn is marked completed exactly when all are, goes on until
\* then, and no node has had its turn before its dependencies were completed.
THEOREM WorkflowsEnd == ServicesSpec => []OrderlyRunsEnd
<1>1. ServicesInv => OrderlyRunsEnd
  BY WorkflowMeans DEF ServicesInv
<1> QED BY InitServices, ServicesStep, <1>1, PTL DEF ServicesSpec

\* The two analysts, the critic and the coordinator never wait for each other: whichever
\* messages are delivered twice and in whatever order they come, when none was lost and none is
\* under way there is a decision; and a decision counts every vote, on everybody's findings.
THEOREM ReviewsAreComplete == ServicesSpec => []ReviewIsComplete
<1>1. ServicesInv => ReviewIsComplete
  BY ReviewMeans DEF ServicesInv
<1> QED BY InitServices, ServicesStep, <1>1, PTL DEF ServicesSpec

\* For any correlation ids, losses and orders of reports: the agents of a session that is
\* prompted once run only what both generated, and a session is done only when both ran
\* without an error; and the plan that is read from the claude process is its result.
THEOREM SessionsStaySound == ServicesSpec => []SessionsAreSound
<1>1. ServicesInv => SessionsAreSound
  BY SessionMeans DEF ServicesInv, StreamInv, SessionsAreSound
<1> QED BY InitServices, ServicesStep, <1>1, PTL DEF ServicesSpec

\* What the services' inductive invariants and that of the handoffs say together.
LEMMA TypesMean == ServicesInv /\ HandoffInv /\ AnswersAgree => ServicesTypeOK /\ RoomDecides
<1> SUFFICES ASSUME ServicesInv, HandoffInv, AnswersAgree PROVE ServicesTypeOK /\ RoomDecides
  OBVIOUS
<1>1. RegistryTypeOK /\ SchedulerTypeOK /\ ShutdownTypeOK
  BY DEF ServicesInv, RegistryInv, SchedulerInv, ShutdownInv
<1>2. WorkflowTypeOK /\ HandoffTypeOK /\ DecidedOnce
  BY WorkflowMeans, HandoffMeans DEF ServicesInv
<1>3. RoomTypeOK /\ NoLostWakeUp /\ StreamTypeOK
  BY RoomMeans, StreamMeans DEF ServicesInv
<1>4. ReviewTypeOK /\ SessionTypeOK
  BY ReviewMeans, SessionMeans DEF ServicesInv
<1> QED BY <1>1, <1>2, <1>3, <1>4 DEF ServicesTypeOK, RoomDecides

\* No call of the room waits for a decision that is there, whenever it is stored between the
\* caller's look and its wait. A handoff is answered once and the tables of the service agree,
\* if the clients complete handoffs only as the SDK's do: CompleteHandoff takes any status,
\* also one of an answer that was never given.
THEOREM AnswersAreFinal ==
  CompletesOnly => (ServicesSpec => [](ServicesTypeOK /\ RoomDecides))
<1> SUFFICES ASSUME CompletesOnly PROVE ServicesSpec => [](ServicesTypeOK /\ RoomDecides)
  OBVIOUS
<1>1. Init => HandoffInv /\ AnswersAgree
  BY InitHandoff DEF Init
<1>2. HandoffInv /\ AnswersAgree /\ [Next]_services => HandoffInv' /\ AnswersAgree'
  BY StepsOfParts, HandoffStep
<1> QED BY InitServices, ServicesStep, <1>1, <1>2, TypesMean, PTL DEF ServicesSpec
===============================================================================
