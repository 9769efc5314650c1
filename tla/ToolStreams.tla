-------------------------------- MODULE ToolStreams --------------------------------
(***************************************************************************)
(* Streaming tool calls and their cancellation                             *)
(* (examples/tool_streaming_example.py): call_stream is a generator, which *)
(* runs only while its reader asks for the next frame, in the reader's     *)
(* thread; cancel() comes from any thread. Provider and cancel() work on   *)
(* two dictionaries without a lock, one access at a time.                  *)
(***************************************************************************)
EXTENDS Integers, FiniteSets

CONSTANTS
  ToolCalls,   \* the calls of call_stream
  call_id,     \* the id the client gave each call; a retry may repeat one
  ToolsOf,     \* the tools each call may ask for
  ToolSteps    \* files, analysis steps or iterations of a call

CallIds == {call_id[c] : c \in ToolCalls}

Tools == {"file_search", "code_analysis", "long_computation", "unknown"}

ASSUME ToolAssumption == ToolSteps \in Nat \ {0} /\ ToolsOf \in [ToolCalls -> SUBSET Tools]

VARIABLES
  generator,      \* each call: its tool, where it is, and its step
  active_calls,   \* _active_calls
  cancel_events,  \* _cancel_events: "none", "clear" or "set"
  handler,        \* each call's StreamingToolHandler, with the sequence of its last frame
  canceller,      \* a call of cancel(): its call_id, how far it is, and whether it raised
  late            \* history: the frames a call sent after cancel() accepted it; -1 before

toolVars == <<generator, active_calls, cancel_events, handler, canceller, late>>

NoCancel == [at |-> "idle", id |-> "none", raised |-> "no"]
NewHandler == [last |-> -1, ordered |-> TRUE, result |-> "none", cancelled |-> FALSE]

ToolInit ==
  /\ generator = [c \in ToolCalls |-> [tool |-> "none", at |-> "created", step |-> 0]]
  /\ active_calls = {} /\ cancel_events = [i \in CallIds |-> "none"]
  /\ handler = [c \in ToolCalls |-> NewHandler]
  /\ canceller = NoCancel /\ late = [c \in ToolCalls |-> -1]

GoesOn(c, where) == generator' = [generator EXCEPT ![c].at = where]
-------------------------------------------------------------------------------
(* The frames of the tools, by their sequence numbers *)

file_search(kind, i) ==
  CASE kind = "CANCELLED" -> i [] kind \in {"PROGRESS", "RESULT"} -> 2 * i [] kind = "OUTPUT" -> 2 * i + 1
\* (Mutant: the outputs are numbered as the progress is.)
SameNumber(kind, i) == 2 * i
code_analysis(kind, i) == IF kind = "OUTPUT" THEN 2 * i + 1 ELSE 2 * i
long_computation(kind, i) == i

SequenceOf(c, kind) ==
  LET i == generator[c].step IN
  CASE generator[c].tool = "file_search" -> file_search(kind, i)
    [] generator[c].tool = "code_analysis" -> code_analysis(kind, i)
    [] generator[c].tool = "long_computation" -> long_computation(kind, i)
    [] generator[c].tool = "unknown" -> 0

\* _handle_frame. What a cancelled call has found is its result.
Handled(h, kind, n) ==
  [last |-> n, ordered |-> h.ordered /\ n > h.last,
   result |-> IF kind \in {"RESULT", "CANCELLED"} THEN kind ELSE h.result,
   cancelled |-> h.cancelled \/ kind = "CANCELLED"]

\* The generator yields a frame and its reader handles it.
Yields(c, kind) ==
  /\ handler' = [handler EXCEPT ![c] = Handled(@, kind, SequenceOf(c, kind))]
  /\ late' = [late EXCEPT ![c] = IF @ >= 0 THEN @ + 1 ELSE @]
  /\ UNCHANGED <<active_calls, cancel_events, canceller>>

Silent(c) == UNCHANGED <<handler, late, canceller>>
-------------------------------------------------------------------------------
(* The provider *)

\* The reader asks for the first frame; a call without a known tool goes on to its error.
FirstFrame(c) ==
  \/ /\ generator[c].at = "created"
     /\ \E t \in ToolsOf[c] : generator' = [generator EXCEPT ![c] = [@ EXCEPT !.tool = t, !.at = "entering"]]
     /\ active_calls' = active_calls \cup {call_id[c]} /\ UNCHANGED cancel_events /\ Silent(c)
  \/ /\ generator[c].at = "entering" /\ GoesOn(c, IF generator[c].tool = "unknown" THEN "error" ELSE "step")
     /\ cancel_events' = [cancel_events EXCEPT ![call_id[c]] = "clear"]
     /\ UNCHANGED active_calls /\ Silent(c)

\* (Mutant: only the first step asks.)
CancelledAtStart(c) == generator[c].step = 0 /\ cancel_events[call_id[c]] = "set"
check_cancelled(c) == cancel_events[call_id[c]] = "set"

\* A step begins unless the call is cancelled; after the last one there is a result.
Checks(c) ==
  /\ generator[c].at = "step"
  /\ IF generator[c].step = ToolSteps THEN GoesOn(c, "result")
     ELSE GoesOn(c, IF check_cancelled(c) THEN "cancelled" ELSE "progress")
  /\ UNCHANGED <<active_calls, cancel_events>> /\ Silent(c)

NextStep(c) ==
  generator' = [generator EXCEPT ![c] = [@ EXCEPT !.at = "step", !.step = generator[c].step + 1]]
Progresses(c) ==
  /\ generator[c].at = "progress" /\ Yields(c, "PROGRESS")
  /\ IF generator[c].tool = "long_computation" THEN NextStep(c) ELSE GoesOn(c, "output")
Outputs(c) == generator[c].at = "output" /\ Yields(c, "OUTPUT") /\ NextStep(c)

\* The reader stops at a last frame: the generator stays where it is.
LastFrames == [result |-> "RESULT", cancelled |-> "CANCELLED", error |-> "ERROR"]
Concludes(c) ==
  /\ generator[c].at \in DOMAIN LastFrames
  /\ Yields(c, LastFrames[generator[c].at]) /\ GoesOn(c, "ended")

\* The generator is closed, after the last frame or when a callback of the reader raised, and
\* its finally clause forgets the call.
ClosesStream(c) ==
  \/ /\ generator[c].at \in {"output", "step", "ended"} /\ GoesOn(c, "leaving")
     /\ handler[c].last >= 0
     /\ active_calls' = active_calls \ {call_id[c]} /\ UNCHANGED cancel_events /\ Silent(c)
  \/ /\ generator[c].at = "leaving" /\ GoesOn(c, "gone")
     /\ cancel_events' = [cancel_events EXCEPT ![call_id[c]] = "none"]
     /\ UNCHANGED active_calls /\ Silent(c)

\* cancel(): two look-ups, then the event is set, or is no longer there to set.
CallsCancel ==
  \/ /\ canceller.at = "idle"
     /\ \E i \in CallIds :
          canceller' = IF i \in active_calls THEN [at |-> "found", id |-> i, raised |-> "no"]
                       ELSE NoCancel
     /\ UNCHANGED <<cancel_events, late>>
  \/ /\ canceller.at = "found" /\ UNCHANGED <<cancel_events, late>>
     /\ canceller' = IF cancel_events[canceller.id] # "none" THEN [canceller EXCEPT !.at = "sets"]
                     ELSE NoCancel
  \/ /\ canceller.at = "sets"
     /\ IF cancel_events[canceller.id] = "none"
        THEN canceller' = [NoCancel EXCEPT !.raised = "KeyError"] /\ UNCHANGED <<cancel_events, late>>
        ELSE /\ cancel_events' = [cancel_events EXCEPT ![canceller.id] = "set"]
             /\ canceller' = NoCancel
             /\ late' = [c \in ToolCalls |->
                           IF call_id[c] = canceller.id /\ late[c] < 0
                              /\ generator[c].at \notin {"created", "entering", "gone"}
                           THEN 0 ELSE late[c]]

ToolNext ==
  \/ \E c \in ToolCalls : \/ FirstFrame(c) \/ Checks(c) \/ Progresses(c) \/ Outputs(c)
                          \/ Concludes(c) \/ ClosesStream(c)
  \/ CallsCancel /\ UNCHANGED <<generator, active_calls, handler>>
-------------------------------------------------------------------------------
(* Properties *)

ToolTypeOK ==
  /\ \A c \in ToolCalls :
       /\ generator[c].step \in 0..ToolSteps
       /\ handler[c].last \in -1..(2 * ToolSteps) /\ late[c] \in -1..(2 * ToolSteps + 1)
  /\ active_calls \subseteq CallIds

\* Calls with ids of their own: a call that cancel() has accepted only finishes the step it is
\* in, with its last frame, whatever other calls begin and end meanwhile; and the frames a
\* reader gets are in the order of their sequence numbers, but for the one by which the
\* file search says it is cancelled.
CancelStopsCalls ==
  \A c \in ToolCalls :
    /\ late[c] <= 3
    /\ ~handler[c].ordered => generator[c].tool = "file_search" /\ handler[c].cancelled

\* The sequence numbers are for ordering, those of a cancelled search too. It counts by steps
\* there, and by frames before.
FramesInOrder == \A c \in ToolCalls : handler[c].ordered

\* process_stream returns the final result, or None if the call was cancelled.
CancelledHasNoResult == \A c \in ToolCalls : handler[c].cancelled => handler[c].result = "none"

\* cancel() answers; it does not raise when the call ends meanwhile.
CancelAnswers == canceller.raised = "no"

\* A call whose last frame was read is not accepted for cancellation. It is known until its
\* generator is closed, which no reader does.
EndedIsNotCancelled ==
  [][\A c \in ToolCalls : generator[c].at = "ended" /\ late[c] < 0 => late'[c] < 0]_toolVars
===============================================================================
