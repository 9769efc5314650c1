------------------------------- MODULE Shutdown -------------------------------
(***************************************************************************)
(* ReferenceServiceShutdownCoordinator (hive/graceful_shutdown.py) as the  *)
(* services use it: handlers run in worker threads between a drain check   *)
(* and track_request, the main thread runs stop_server from its SIGINT and *)
(* SIGTERM handler. Python runs a signal handler on top of whatever the    *)
(* main thread is doing, between two bytecodes, so a second signal nests a *)
(* second stop_server over the first one; _lock is not reentrant.          *)
(***************************************************************************)
EXTENDS Integers, Sequences, FiniteSets, SequencesExt

CONSTANTS
  Requests,    \* the RPCs clients will make
  MaxSignals,  \* bound: signals delivered to the process
  Free, Main   \* _lock is free, or held by the main thread

ASSUME ShutdownAssumption ==
  /\ IsFiniteSet(Requests) /\ MaxSignals \in Nat /\ Free # Main

VARIABLES
  draining,    \* _is_draining
  active,      \* _active_requests
  lock,        \* holder of _lock across steps; workers hold it for one step only
  frames,      \* the stop_server frames on the main thread's stack
  expired,     \* the depths whose wait_for_inflight deadline has passed
  server,      \* grpc server: "serving", "stopping", "stopped"
  req,         \* progress of each RPC
  aborted,     \* RPCs cancelled by grpc when the grace period of stop() ended
  early,       \* history: RPCs in flight when draining was first set
  timedOut,    \* history: some wait_for_inflight returned False
  signals

shutdownVars == <<draining, active, lock, frames, expired, server, req, aborted, early,
          timedOut, signals>>

ReqStates == {"idle", "refused", "checked", "running", "done"}

FrameStates == {"request", "set", "wait", "test", "sleep", "late", "count", "stop",
                "grace"}

Running == {r \in Requests : req[r] = "running"}
Unfinished == {r \in Requests : req[r] \in {"checked", "running"}}

ShutdownInit ==
  /\ draining = FALSE /\ active = 0 /\ lock = Free /\ frames = <<>> /\ expired = {}
  /\ server = "serving" /\ req = [r \in Requests |-> "idle"] /\ aborted = {}
  /\ early = {} /\ timedOut = FALSE /\ signals = 0
-------------------------------------------------------------------------------
(* Worker threads *)

\* A handler begins with `if is_draining: return`, reading the flag without _lock.
Check(r) ==
  /\ req[r] = "idle" /\ server = "serving"
  /\ req' = [req EXCEPT ![r] = IF draining THEN "refused" ELSE "checked"]
  /\ UNCHANGED <<draining, active, lock, frames, expired, server, aborted, early,
                 timedOut, signals>>

\* track_request, entry.
Track(r) ==
  /\ req[r] = "checked" /\ lock = Free
  /\ req' = [req EXCEPT ![r] = "running"]
  /\ active' = active + 1
  /\ UNCHANGED <<draining, lock, frames, expired, server, aborted, early, timedOut,
                 signals>>

\* max(0, _active_requests - 1). (Mutant: an exit that is not counted.)
StillActive == active
OneLess == IF active > 0 THEN active - 1 ELSE 0

\* track_request, exit, by return or exception.
Untrack(r) ==
  /\ req[r] = "running" /\ lock = Free
  /\ req' = [req EXCEPT ![r] = "done"]
  /\ active' = OneLess
  /\ UNCHANGED <<draining, lock, frames, expired, server, aborted, early, timedOut,
                 signals>>
-------------------------------------------------------------------------------
(* Main thread *)

Top == Last(frames)
Depth == Len(frames)
Goto(pc) == frames' = [frames EXCEPT ![Depth] = pc]

\* A signal arrives: its handler runs on top of the main thread's stack.
Signal ==
  /\ server # "stopped" /\ signals < MaxSignals
  /\ signals' = signals + 1
  /\ frames' = Append(frames, "request")
  /\ UNCHANGED <<draining, active, lock, expired, server, req, aborted, early,
                 timedOut>>

\* request_shutdown, wait_for_inflight and active_request_count take _lock; cv.wait
\* takes it again when it wakes. A frame below may hold it: then nobody moves.
Acquire ==
  /\ frames # <<>> /\ lock = Free
  /\ \/ Top = "request" /\ Goto("set")
     \/ Top \in {"wait", "sleep"} /\ Goto("test")
     \/ Top = "late" /\ Goto("count")
  /\ lock' = Main
  /\ UNCHANGED <<draining, active, expired, server, req, aborted, early, timedOut,
                 signals>>

\* The rest of request_shutdown.
SetDraining ==
  /\ frames # <<>> /\ Top = "set"
  /\ draining' = TRUE
  /\ early' = IF draining THEN early ELSE Running
  /\ lock' = Free
  /\ Goto("wait")
  /\ UNCHANGED <<active, expired, server, req, aborted, timedOut, signals>>

\* The conditions wait_for_inflight tests. (Mutants: one request too early; a
\* deadline that is never reached.)
NearlyIdle == active <= 1
Idle == active = 0
NeverExpired == FALSE
DeadlinePassed == Depth \in expired

\* One turn of the loop in wait_for_inflight: idle, deadline passed, or cv.wait.
TestInflight ==
  /\ frames # <<>> /\ Top = "test"
  /\ \/ Idle /\ Goto("stop") /\ UNCHANGED timedOut
     \/ ~Idle /\ DeadlinePassed /\ Goto("late") /\ timedOut' = TRUE
     \/ ~Idle /\ ~DeadlinePassed /\ Goto("sleep") /\ UNCHANGED timedOut
  /\ lock' = Free
  /\ UNCHANGED <<draining, active, expired, server, req, aborted, early, signals>>

\* The deadline of the wait in some frame passes.
Expire(d) ==
  /\ d \in 1 .. Depth \ expired /\ frames[d] \in {"test", "sleep"}
  /\ expired' = expired \cup {d}
  /\ UNCHANGED <<draining, active, lock, frames, server, req, aborted, early,
                 timedOut, signals>>

\* (Mutant: the count is read without giving the lock back.)
CountLateKeepsLock ==
  /\ frames # <<>> /\ Top = "count"
  /\ Goto("stop")
  /\ UNCHANGED <<draining, active, lock, expired, server, req, aborted, early,
                 timedOut, signals>>

\* The warning of a timed-out wait reads active_request_count.
CountLate ==
  /\ frames # <<>> /\ Top = "count"
  /\ lock' = Free
  /\ Goto("stop")
  /\ UNCHANGED <<draining, active, expired, server, req, aborted, early, timedOut,
                 signals>>

\* grpc_server.stop(grace): no new RPC is accepted.
StopServer ==
  /\ frames # <<>> /\ Top = "stop"
  /\ server' = IF server = "serving" THEN "stopping" ELSE server
  /\ Goto("grace")
  /\ UNCHANGED <<draining, active, lock, expired, req, aborted, early, timedOut,
                 signals>>

\* stopper.wait returns: the RPCs are over, or the grace period is and the rest is
\* cancelled. The handler returns to what the main thread was doing.
GraceEnds ==
  /\ frames # <<>> /\ Top = "grace"
  /\ server' = "stopped"
  /\ aborted' = IF server = "stopping" THEN Unfinished ELSE aborted
  /\ frames' = Front(frames)
  /\ expired' = expired \ {Depth}
  /\ UNCHANGED <<draining, active, lock, req, early, timedOut, signals>>

Stop == Acquire \/ SetDraining \/ TestInflight \/ CountLate \/ StopServer \/ GraceEnds

\* The main thread has left wait_for_termination; the interpreter joins the workers.
Exited == server = "stopped" /\ frames = <<>> /\ Unfinished = {} /\ UNCHANGED shutdownVars

ShutdownNext ==
  \/ \E r \in Requests : Check(r) \/ Track(r) \/ Untrack(r)
  \/ Signal \/ Stop \/ (\E d \in 1 .. MaxSignals : Expire(d))
  \/ Exited

ShutdownSpec == ShutdownInit /\ [][ShutdownNext]_shutdownVars

\* Threads run and deadlines pass; that a handler ever finishes is not assumed.
ShutdownFairness ==
  /\ WF_shutdownVars(Stop) /\ \A r \in Requests : WF_shutdownVars(Track(r))
  /\ \A d \in 1 .. MaxSignals : WF_shutdownVars(Expire(d))

FairShutdown == ShutdownSpec /\ ShutdownFairness
-------------------------------------------------------------------------------
(* Properties *)

\* Every variable has its type, and the main thread holds _lock exactly while one
\* of its frames is between taking and releasing it.
ShutdownTypeOK ==
  /\ draining \in BOOLEAN /\ timedOut \in BOOLEAN
  /\ active \in Nat /\ signals \in 0 .. MaxSignals
  /\ lock \in {Free, Main} /\ frames \in Seq(FrameStates)
  /\ expired \subseteq 1 .. Depth
  /\ server \in {"serving", "stopping", "stopped"}
  /\ req \in [Requests -> ReqStates]
  /\ aborted \subseteq Requests /\ early \subseteq Requests
  /\ lock = Main <=> \E d \in 1 .. Depth : frames[d] \in {"set", "test", "count"}

\* The counter the drain waits on is the number of RPCs inside track_request.
CountIsExact == active = Cardinality(Running)

\* An RPC that was in flight when the drain began is cancelled only if the wait for
\* it timed out.
EarlyNotAborted == aborted \cap early # {} => timedOut

\* A drain counts the RPCs inside track_request and cancels none of those that were inside when
\* it began before its time-out. (One between its check and track_request is neither.)
DrainIsSound == CountIsExact /\ EarlyNotAborted

\* stop_server waits for in-flight RPCs: it cancels one only after a time-out.
AbortOnlyAfterTimeout == aborted # {} => timedOut

\* A signal is followed by the end of the server, whatever the handlers do.
StopReturns == signals > 0 ~> server = "stopped"
===============================================================================
