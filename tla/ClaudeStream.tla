------------------------------ MODULE ClaudeStream ------------------------------
(***************************************************************************)
(* run_claude_stream_json (hive/scheduler_service.py): the scheduler runs  *)
(* the claude command, a process of its own that writes lines into a pipe  *)
(* of bounded size and blocks while it is full, and reads them one by one. *)
(* The lines are "result" events, other events, of which "delta" ones      *)
(* carry a part of the answer, and lines that are no JSON object.          *)
(***************************************************************************)
EXTENDS Naturals, Sequences, SequencesExt

CONSTANTS
  MaxLines,   \* bound on the lines of an answer
  PipeSize    \* lines the pipe holds

ASSUME StreamAssumption == MaxLines \in Nat /\ PipeSize \in Nat \ {0}

Lines == {"noise", "event", "delta", "result"}

VARIABLES
  answer,   \* history: the lines the process has written
  exited,   \* the process has ended
  pipe,     \* the lines the scheduler has yet to read
  reader    \* "idle", "reading", "waiting" for the process to end, or how the call ended:
            \* "plan", an object made of the answer; "none"; "raised"

streamVars == <<answer, exited, pipe, reader>>

StreamInit == answer = <<>> /\ exited = FALSE /\ pipe = <<>> /\ reader = "idle"

Popen == reader = "idle" /\ reader' = "reading" /\ UNCHANGED <<answer, exited, pipe>>
Called == reader \in {"reading", "waiting"}

ProcessWrites(line) ==
  /\ Called /\ ~exited /\ Len(answer) < MaxLines /\ Len(pipe) < PipeSize
  /\ answer' = Append(answer, line) /\ pipe' = Append(pipe, line) /\ UNCHANGED <<exited, reader>>
ProcessExits == Called /\ ~exited /\ exited' = TRUE /\ UNCHANGED <<answer, pipe, reader>>
\* Nothing holds the process up but a full pipe.
ProcessActs == Len(pipe) < PipeSize /\ (ProcessExits \/ \E line \in Lines : ProcessWrites(line))

\* A result becomes an object, unless it is other JSON, which makes it an event here.
\* (Mutant: also a delta is taken for an answer.)
AnyText == {"result", "delta"}
ResultOnly == {"result"}

\* What follows the branches is in the loop: any other object ends it.
ReadsLine ==
  /\ reader = "reading" /\ pipe # <<>> /\ pipe' = Tail(pipe)
  /\ reader' = IF Head(pipe) = "noise" THEN "reading"
               ELSE IF Head(pipe) \in ResultOnly THEN "plan" ELSE "waiting"
  /\ UNCHANGED <<answer, exited>>

\* proc.wait(): the pipe is not read meanwhile. (Mutant: until all is read.)
AllRead == exited /\ pipe = <<>>
ProcessEnded == exited
WaitReturns ==
  reader = "waiting" /\ ProcessEnded /\ reader' = "none" /\ UNCHANGED <<answer, exited, pipe>>

\* After the loop the text is looked for in a variable that was not assigned.
EndOfStream ==
  /\ reader = "reading" /\ exited /\ pipe = <<>> /\ reader' = "raised"
  /\ UNCHANGED <<answer, exited, pipe>>

StreamReads == ReadsLine \/ WaitReturns \/ EndOfStream
StreamNext == Popen \/ ProcessActs \/ StreamReads

StreamSpec ==
  StreamInit /\ [][StreamNext]_streamVars /\ WF_streamVars(ProcessActs) /\ WF_streamVars(StreamReads)
-------------------------------------------------------------------------------
(* Properties *)

StreamTypeOK ==
  /\ answer \in SeqOf(Lines, MaxLines) /\ exited \in BOOLEAN /\ pipe \in SeqOf(Lines, PipeSize)
  /\ reader \in {"idle", "reading", "waiting", "plan", "none", "raised"}

\* A plan is what a result event says, and no line before it but noise was passed
\* over, however far the process had got by then.
PlanIsResult ==
  reader = "plan" => \E i \in DOMAIN answer :
    answer[i] = "result" /\ \A j \in 1..(i - 1) : answer[j] = "noise"

Ends(r) == r \in {"plan", "none", "raised"}
\* The call ends, and the scheduler's thread goes on to its next message, unless the
\* process fills the pipe while its end is waited for.
StreamEnds == reader = "reading" ~> Ends(reader) \/ (reader = "waiting" /\ Len(pipe) = PipeSize)

\* The call ends. A process that fills the pipe is waited for for ever, so the code does not
\* provide it.
StreamAlwaysEnds == reader = "reading" ~> Ends(reader)

\* "We concatenate text from `content_block_delta` events, then attempt to parse the final
\* text as JSON" (hive/scheduler_service.py): an answer of deltas is not thrown away.
DeltasAreUsed == reader = "none" => "delta" \notin ToSet(answer)
===============================================================================
