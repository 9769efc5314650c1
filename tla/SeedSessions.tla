------------------------------ MODULE SeedSessions ------------------------------
(***************************************************************************)
(* The stream thread of the scheduler's main() (hive/scheduler_service.py):*)
(* it takes prompts and reports from the router, one after the other,      *)
(* keeps a session per correlation id, and commands the frontend and the   *)
(* backend agent to generate and then to run a program. What the model     *)
(* answers to a prompt is open. The agents are external: they carry out    *)
(* their commands in order and report. The router keeps the order of what  *)
(* it delivers to an agent.                                                *)
(***************************************************************************)
EXTENDS Naturals, FiniteSets, Sequences, SequencesExt

CONSTANTS
  Correlations,
  MaxPrompts,     \* bound on the prompts and run requests of a session
  MaxSendFaults,  \* bound on the sends that fail
  NoSession

Roles == {"frontend", "backend"}
Stages == {"generate", "run"}
Sessions == [generate_ok : SUBSET Roles, run_ok : SUBSET Roles, run_cmds : BOOLEAN, done : BOOLEAN]

ASSUME SessionAssumption == MaxPrompts \in Nat /\ MaxSendFaults \in Nat /\ NoSession \notin Sessions

VARIABLES
  sessions,    \* of each correlation id: the roles whose last report was good, whether it
               \* has run commands, and is done
  commanded,   \* the commands on their way to each agent
  reported,    \* the reports on their way to the scheduler
  sendFaults,
  prompted,    \* history: the prompts and the run requests of each session
  began        \* history: the stages the agents have carried out, and whether that went well

sessionVars == <<sessions, commanded, reported, sendFaults, prompted, began>>

NewSession == [generate_ok |-> {}, run_ok |-> {}, run_cmds |-> FALSE, done |-> FALSE]

SessionInit ==
  /\ sessions = [c \in Correlations |-> NoSession]
  /\ commanded = [r \in Roles |-> <<>>] /\ reported = <<>> /\ sendFaults = 0
  /\ prompted = [c \in Correlations |-> [plan |-> 0, run |-> 0]]
  /\ began = [c \in Correlations |-> [r \in Roles |-> {}]]

Session(c) == IF sessions[c] = NoSession THEN NewSession ELSE sessions[c]

\* Commands of one stage to these agents. A send may raise, which spares the next, or may
\* reach nobody, which nobody looks at.
Commands(c, stage, roles) ==
  \E reached \in SUBSET roles :
    /\ sendFaults' = sendFaults + Cardinality(roles \ reached) /\ sendFaults' <= MaxSendFaults
    /\ commanded' = [r \in Roles |->
         IF r \in reached THEN Append(commanded[r], [stage |-> stage, corr |-> c]) ELSE commanded[r]]
CommandsNothing == UNCHANGED <<commanded, sendFaults>>

Asks(c, kind) ==
  /\ prompted[c].plan + prompted[c].run < MaxPrompts
  /\ prompted' = [prompted EXCEPT ![c][kind] = @ + 1] /\ UNCHANGED <<reported, began>>

\* A seed, or a command "plan" or "prompt". The session of the prompt before is taken up
\* as it is; the answer is no plan, or prompts for some roles, for a seed for both.
Planned(c, cmds) == [Session(c) EXCEPT !.run_cmds = @ \/ cmds]
receives_prompt(c, roles, cmds) ==
  /\ Asks(c, "plan") /\ Commands(c, "generate", roles)
  /\ sessions' = [sessions EXCEPT ![c] = Planned(c, cmds)]
receives_unplannable(c) ==
  /\ Asks(c, "plan") /\ CommandsNothing /\ sessions' = [sessions EXCEPT ![c] = Session(c)]

\* A command "run" of an operator, whatever state the session is in.
receives_run(c) ==
  /\ Asks(c, "run") /\ sessions' = [sessions EXCEPT ![c] = Session(c)]
  /\ Commands(c, "run", Roles) \/ CommandsNothing

With(roles, r, ok) == IF ok THEN roles \cup {r} ELSE roles \ {r}
\* (Mutant: a good report of one role is enough.)
SomeOk(roles) == roles # {}
AllOk(roles) == roles = Roles

\* done ends a session: later reports are ignored.
receives_report ==
  /\ reported # <<>> /\ reported' = Tail(reported)
  /\ LET rep == Head(reported)
         sess == Session(rep.corr)
         generated == With(sess.generate_ok, rep.role, rep.ok)
         runs == With(sess.run_ok, rep.role, rep.ok)
     IN IF sess.done THEN CommandsNothing /\ UNCHANGED sessions
        ELSE IF rep.stage = "generate"
        THEN /\ sessions' = [sessions EXCEPT ![rep.corr] = [sess EXCEPT !.generate_ok = generated]]
             /\ IF AllOk(generated) /\ sess.run_cmds
                THEN Commands(rep.corr, "run", Roles) ELSE CommandsNothing
        ELSE /\ sessions' = [sessions EXCEPT ![rep.corr] =
                               [sess EXCEPT !.run_ok = runs, !.done = AllOk(runs)]]
             /\ CommandsNothing
  /\ UNCHANGED <<prompted, began>>

\* An agent carries out its next command, and its report is sent or lost.
AgentActs(r, ok) ==
  /\ commanded[r] # <<>> /\ commanded' = [commanded EXCEPT ![r] = Tail(@)]
  /\ LET cmd == Head(commanded[r]) IN
     /\ began' = [began EXCEPT ![cmd.corr] = [began[cmd.corr] EXCEPT ![r] = @ \cup {<<cmd.stage, ok>>}]]
     /\ \/ /\ reported' = Append(reported, [role |-> r, stage |-> cmd.stage, ok |-> ok, corr |-> cmd.corr])
           /\ UNCHANGED sendFaults
        \/ sendFaults < MaxSendFaults /\ sendFaults' = sendFaults + 1 /\ UNCHANGED reported
  /\ UNCHANGED <<sessions, prompted>>

SessionNext ==
  \/ \E c \in Correlations :
       \/ \E roles \in SUBSET Roles, cmds \in BOOLEAN : receives_prompt(c, roles, cmds)
       \/ receives_unplannable(c) \/ receives_run(c)
  \/ receives_report
  \/ \E r \in Roles, ok \in BOOLEAN : AgentActs(r, ok)
-------------------------------------------------------------------------------
(* Properties *)

SessionTypeOK ==
  /\ sessions \in [Correlations -> Sessions \cup {NoSession}]
  /\ commanded \in [Roles -> Seq([stage : Stages, corr : Correlations])]
  /\ reported \in Seq([role : Roles, stage : Stages, ok : BOOLEAN, corr : Correlations])
  /\ sendFaults \in 0..MaxSendFaults

Ran(c, r) == {"run"} \X BOOLEAN \cap began[c][r] # {}
Generated(c) == \A r \in Roles : <<"generate", TRUE>> \in began[c][r] /\ <<"generate", FALSE>> \notin began[c][r]
\* A program is run in order: with one prompt and no operator who asks for a run, an agent
\* begins to run only when both have generated their part without an error, and the
\* session succeeds only when both then run without one, whichever sends failed and however
\* reports and commands cross.
SessionInOrder ==
  \A c \in Correlations : prompted[c].plan <= 1 /\ prompted[c].run = 0 =>
    /\ (\E r \in Roles : Ran(c, r)) => Generated(c)
    /\ Session(c).done => \A r \in Roles : began[c][r] = {<<s, TRUE>> : s \in Stages}

\* A session that is asked once more is done with once more: it is not done
\* while agents have commands of it to carry out. What was known of the first answer is kept
\* for the second, so the code does not provide it.
DoneMeansDone ==
  \A c \in Correlations : prompted[c].run = 0 /\ Session(c).done =>
    \A r \in Roles : \A i \in DOMAIN commanded[r] : commanded[r][i].corr # c
===============================================================================
