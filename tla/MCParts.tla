-------------------------------- MODULE MCParts --------------------------------
(***************************************************************************)
(* Small instances of the parts of the SDK and of its examples of which    *)
(* only safety is checked, one of them at a time: each behaviour picks a   *)
(* part and runs that one.                                                 *)
(***************************************************************************)
EXTENDS ActivityBuffer, AgentRuntime, SharedContexts, WorkflowEngine, HandoffAgents, RoomClient,
        A2A, CallChain, FeatureFlags, FileStores, Voting, ToolStreams, GatewayPeers,
        DelegationDepth

CONSTANTS a1, a2, d1, d2, h1, h2, h3, k1, k2, m1, m2, m3, m4, t1, t2

\* Two operations of which the first is tried twice, and two messages without a token.
TwoAttempts == (m1 :> CHOOSE t \in Tokens : TRUE) @@ (m2 :> CHOOSE t \in Tokens : TRUE)
               @@ [m \in Messages |-> NoToken]

\* The two attempts are interchangeable.
Attempts == Permutations({m1, m2})

\* A stream, messages, one sent in another's name, one without a token, and a
\* preemption asked for by an agent and by the scheduler.
SomeCalls ==
  {[method |-> "StreamIncoming", actor |-> a1, agent |-> a1, traced |-> TRUE, correlated |-> FALSE],
   [method |-> "SendMessage", actor |-> a1, agent |-> a1, traced |-> TRUE, correlated |-> FALSE],
   [method |-> "SendMessage", actor |-> a2, agent |-> a1, traced |-> FALSE, correlated |-> TRUE],
   [method |-> "SendMessage", actor |-> Nobody, agent |-> a1, traced |-> TRUE, correlated |-> FALSE],
   [method |-> "RequestPreemption", actor |-> a1, agent |-> a2, traced |-> FALSE, correlated |-> TRUE],
   [method |-> "RequestPreemption", actor |-> SchedulerAgent, agent |-> a2,
    traced |-> FALSE, correlated |-> FALSE]}

\* Both agents can do one handoff, and each of them one more.
SomeCapabilities == {<<a1, h1>>, <<a2, h1>>, <<a1, h2>>, <<a2, h3>>}

SomeEnvFlags == (k1 :> "yes") @@ (k2 :> NoText)
SomeFileFlags == (k1 :> "no") @@ (k2 :> "no")
SomeCustomFlags == {(k1 :> "on") @@ (k2 :> "2")}
\* One process saves the proposal and makes the list of votes, votes, and writes the policy;
\* the other decides at the same time.
SomeDuties == {<<t1, "proposal">>, <<t1, "votes">>, <<t1, "policy">>, <<t2, "decision">>}
\* (Refuting SharedRecordsSurvive: each of two writes the votes.)
BothVote == {<<t1, "votes">>, <<t2, "votes">>}
\* Numbers of three binary digits: 8 of them make 1.0, and the sums of three scores are among
\* them, rounded.
SomeFloats == {m * u : m \in 0..7, u \in {1, 2, 4, 8, 16, 32, 64, 128, 256}}
SomePolicies == {[threshold |-> 56, tolerance |-> 8], [threshold |-> 40, tolerance |-> 24]}

\* Two calls under way, each with an id of its own.
OwnIds == (d1 :> "i1") @@ (d2 :> "i2")
TwoTools == (d1 :> {"file_search", "long_computation"}) @@ (d2 :> {"code_analysis", "unknown"})

\* Two peers in either order, and one of them alone.
SomePeerLists == {<<a1, a2>>, <<a2, a1>>, <<a2>>}
\* A delegation, its child and the child's child.
OneDescent == (h1 :> NoParent) @@ (h2 :> h1) @@ (h3 :> h2)

VARIABLE part

Init ==
  /\ BufferInit /\ RuntimeInit /\ ContextInit /\ EngineInit /\ HandoffAgentsInit /\ RoomClientInit
  /\ A2AInit /\ ChainInit /\ FlagsInit /\ FilesInit /\ VotingInit /\ ToolInit /\ PeersInit
  /\ DepthInit
  /\ part \in {"buffer", "runtime", "context", "engine", "offer", "roomClient", "a2a", "chain",
               "flags", "files", "voting", "tools", "peers", "depth"}

parts == <<bufferVars, runtimeVars, contextVars, engineVars, handoffAgentVars, roomClientVars, a2aVars,
           chainVars, flagVars, fileVars, polled, toolVars, peerVars, depthVars, part>>

\* The others stay as they are.
Only(p) ==
  /\ part = p /\ UNCHANGED part
  /\ p # "buffer" => UNCHANGED bufferVars
  /\ p # "runtime" => UNCHANGED runtimeVars
  /\ p # "context" => UNCHANGED contextVars
  /\ p # "engine" => UNCHANGED engineVars
  /\ p # "offer" => UNCHANGED handoffAgentVars
  /\ p # "roomClient" => UNCHANGED roomClientVars
  /\ p # "a2a" => UNCHANGED a2aVars
  /\ p # "chain" => UNCHANGED chainVars
  /\ p # "flags" => UNCHANGED flagVars
  /\ p # "files" => UNCHANGED fileVars
  /\ p # "voting" => UNCHANGED polled
  /\ p # "tools" => UNCHANGED toolVars
  /\ p # "peers" => UNCHANGED peerVars
  /\ p # "depth" => UNCHANGED depthVars

Next ==
  \/ part = "buffer" /\ BufferNext /\ Only("buffer")
  \/ part = "runtime" /\ RuntimeNext /\ Only("runtime")
  \/ part = "context" /\ ContextNext /\ Only("context")
  \/ part = "engine" /\ EngineNext /\ Only("engine")
  \/ part = "offer" /\ HandoffAgentsNext /\ Only("offer")
  \/ part = "roomClient" /\ RoomClientNext /\ Only("roomClient")
  \/ part = "a2a" /\ A2ANext /\ Only("a2a")
  \/ part = "chain" /\ ChainNext /\ Only("chain")
  \/ part = "flags" /\ FlagsNext /\ Only("flags")
  \/ part = "files" /\ FilesNext /\ Only("files")
  \/ part = "voting" /\ VotingNext /\ Only("voting")
  \/ part = "tools" /\ ToolNext /\ Only("tools")
  \/ part = "peers" /\ PeersNext /\ Only("peers")
  \/ part = "depth" /\ DepthNext /\ Only("depth")

Spec == Init /\ [][Next]_parts
-------------------------------------------------------------------------------
(* Properties, each of one part or of parts alike *)

\* The type invariants of the parts.
PartsTypeOK ==
  /\ BufferTypeOK /\ RuntimeTypeOK /\ ContextTypeOK /\ EngineTypeOK /\ HandoffAgentsTypeOK
  /\ RoomClientTypeOK /\ A2ATypeOK /\ ChainTypeOK /\ FlagsTypeOK /\ FilesTypeOK
  /\ VotingTypeOK /\ ToolTypeOK /\ PeersTypeOK /\ DepthTypeOK

\* An agent's preemption request outlives the sections that may not be preempted, and the task
\* and the reason it keeps are of one request.
AgentKept == RequestOutlivesSections /\ TaskAndReasonMatch

\* What agents share through a store is not lost: no update of a context, one verdict for all
\* who wait in a room, and the records of a file through its replacement.
SharedStoresAgree == NoLostUpdate /\ HeardTheSame /\ RecordsSurvive

\* A workflow executes the nodes of the graph it was validated with, in its order.
EngineRuns == GraphsAgree /\ ExecutedInOrder

\* A handoff an agent works on is accepted for it, a task that an A2A handler set in motion is
\* known, and one cancelled cancels its calls.
WorkIsKnown == WorkIsAccepted /\ SetInMotionIsKnown /\ CancelStopsCalls

\* Who is let in, and where to: a call leaves no context on the thread that served it and is
\* admitted within its rate; a gateway admits delegations only as deep as they are, and sends
\* those it has no room for to peers that have some, in turn.
AdmissionIsSound ==
  CallsLeaveNoTrace /\ AdmittedInBound /\ PeersAreSpared /\ DepthsAreVerified
===============================================================================
