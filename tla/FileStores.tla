-------------------------------- MODULE FileStores --------------------------------
(***************************************************************************)
(* The stores that keep JSON files in a directory processes share:         *)
(* colony/stores json_file_store (a paper's proposal, votes and decision)  *)
(* and sw4rm/policy_store (a policy's versions). A process is in one       *)
(* method at a time, under the store's lock, and may die in it. A file is  *)
(* truncated when it is opened for writing and has its content when it is  *)
(* closed; whoever reads it in between finds no JSON. Two processes that   *)
(* open one name write the same file, also after it was renamed.           *)
(***************************************************************************)
EXTENDS Integers, FiniteSets

CONSTANTS
  Writers,              \* the processes that write
  Critics, Decisions,   \* who votes on the paper; what may be decided
  Versions,             \* the policy's
  Duties                \* bound: which process writes which file

Files == {"proposal", "votes", "decision", "policy"}
Items(f) == CASE f = "proposal" -> {"paper"} [] f = "votes" -> Critics
              [] f = "decision" -> Decisions [] f = "policy" -> Versions

VARIABLES
  folder,       \* each file, and the temporary one beside it
  op,           \* the method a process is in: its file, the set it writes and what it adds,
                \* how far it is, and the file it has open: "path", "temp", or "gone" when replaced
  returned,     \* history: what was added by methods that returned
  wrote         \* history: the processes that began to write each file

fileVars == <<folder, op, returned, wrote>>

Missing == [is |-> "missing"]
Half == [is |-> "half"]
Mixed == [is |-> "mixed"]
Whole(s) == [is |-> "whole", of |-> s]
NoOp == [at |-> "none"]

FilesInit ==
  /\ folder = [f \in Files |-> [path |-> Missing, temp |-> Missing]]
  /\ op = [p \in Writers |-> NoOp] /\ returned = [f \in Files |-> {}]
  /\ wrote = [f \in Files |-> {}]

\* get_votes and its like: what is no JSON counts as nothing.
Read(f) == IF folder[f].path.is = "whole" THEN folder[f].path.of ELSE {}
\* Raises for what is missing or no JSON.
get_policy_history == Read("policy")
Step(p, how) == op' = [op EXCEPT ![p] = how]
-------------------------------------------------------------------------------
\* save_proposal and save_decision raise when there is a file, add_vote when the critic has
\* voted; save_policy when the file is there and is no JSON.
Accepts(f, x) ==
  CASE f \in {"proposal", "decision"} -> folder[f].path = Missing
    [] f = "votes" -> x \notin Read(f)
    [] f = "policy" -> x \notin Read(f) /\ folder[f].path.is \in {"missing", "whole"}

Begins(p, f, x) ==
  /\ <<p, f>> \in Duties /\ op[p] = NoOp /\ Accepts(f, x)
  /\ Step(p, [at |-> "begun", file |-> f, adds |-> {x}, value |-> Read(f) \cup {x}, open |-> "none"])
  /\ wrote' = [wrote EXCEPT ![f] = @ \cup {p}]
  /\ UNCHANGED <<folder, returned>>

\* A temporary file that is renamed when it is whole; the policy's is written in place.
\* (Mutant: every file is.)
InPlace(f) == "path"
OpensWhich(f) == IF f = "policy" THEN "path" ELSE "temp"
Opens(p) ==
  /\ op[p].at = "begun"
  /\ LET f == op[p].file IN
     /\ folder' = [folder EXCEPT ![f][OpensWhich(f)] = Half]
     /\ Step(p, [op[p] EXCEPT !.at = "open", !.open = OpensWhich(f)])
  /\ UNCHANGED <<returned, wrote>>

\* The file is closed. One that another process has written meanwhile is overwritten from its
\* start, and may keep the rest.
Contents(old, s) == IF old = Half THEN {Whole(s)} ELSE {Whole(s), Mixed}
Closes(p) ==
  /\ op[p].at = "open" /\ UNCHANGED wrote
  /\ LET f == op[p].file
         o == op[p].open IN
     /\ IF o = "gone" THEN UNCHANGED folder
        ELSE \E c \in Contents(folder[f][o], op[p].value) : folder' = [folder EXCEPT ![f][o] = c]
     /\ IF OpensWhich(f) = "temp" /\ op[p].adds # {}
        THEN Step(p, [op[p] EXCEPT !.at = "closed"]) /\ UNCHANGED returned
        ELSE /\ Step(p, NoOp)
             /\ returned' = IF op[p].adds = {} THEN [returned EXCEPT !["proposal"] = {"paper"}]
                            ELSE [returned EXCEPT ![f] = @ \cup op[p].adds]

\* The rename; without the temporary file, which another has renamed, it raises. save_proposal
\* goes on to the votes.
Renamed(f, p) ==
  [q \in Writers |->
     IF q = p \/ op[q] = NoOp \/ op[q].file # f THEN op[q]
     ELSE CASE op[q].open = "temp" -> [op[q] EXCEPT !.open = "path"]
            [] op[q].open = "path" -> [op[q] EXCEPT !.open = "gone"]
            [] OTHER -> op[q]]
Renames(p) ==
  /\ op[p].at = "closed" /\ UNCHANGED wrote
  /\ LET f == op[p].file IN
     IF folder[f].temp = Missing THEN Step(p, NoOp) /\ UNCHANGED <<folder, returned>>
     ELSE /\ folder' = [folder EXCEPT ![f] = [path |-> @.temp, temp |-> Missing]]
          /\ op' = [Renamed(f, p) EXCEPT ![p] = IF f = "proposal" THEN [@ EXCEPT !.at = "votes"] ELSE NoOp]
          /\ returned' = IF f = "proposal" THEN returned ELSE [returned EXCEPT ![f] = @ \cup op[p].adds]

\* save_proposal makes an empty list of votes, in place, and returns.
InitializesVotes(p) ==
  /\ op[p].at = "votes"
  /\ IF folder["votes"].path # Missing
     THEN /\ Step(p, NoOp) /\ returned' = [returned EXCEPT !["proposal"] = {"paper"}]
          /\ UNCHANGED <<folder, wrote>>
     ELSE /\ UNCHANGED returned /\ wrote' = [wrote EXCEPT !["votes"] = @ \cup {p}]
          /\ folder' = [folder EXCEPT !["votes"].path = Half]
          /\ Step(p, [at |-> "open", file |-> "votes", adds |-> {}, value |-> {}, open |-> "path"])

\* A process dies and is started again.
Dies(p) == op[p] # NoOp /\ Step(p, NoOp) /\ UNCHANGED <<folder, returned, wrote>>

FilesNext ==
  \E p \in Writers :
    \/ \E f \in Files : \E x \in Items(f) : Begins(p, f, x)
    \/ Opens(p) \/ Closes(p) \/ Renames(p) \/ InitializesVotes(p) \/ Dies(p)
-------------------------------------------------------------------------------
(* Properties *)

Content(f) == {Missing, Half, Mixed} \cup {Whole(s) : s \in SUBSET Items(f)}
FilesTypeOK ==
  /\ \A f \in Files : folder[f].path \in Content(f) /\ folder[f].temp \in Content(f) /\ returned[f] \subseteq Items(f)
  /\ wrote \in [Files -> SUBSET Writers]
  /\ \A p \in Writers : op[p].at \in {"none", "begun", "open", "closed", "votes"}

\* A file that one process writes, whatever the others write beside it.
WrittenByOne(f) == \A p, q \in wrote[f] : p = q

\* Whatever a method of the room's store returned from saving in a file that one process writes
\* is there for every process that reads, at any time and after the writer died in the middle of
\* any other method; such a proposal or decision is never read half; nothing is read that nobody
\* was about to save.
RecordsSurvive ==
  /\ \A f \in {"proposal", "votes", "decision"} : WrittenByOne(f) => returned[f] \subseteq Read(f)
  /\ \A f \in {"proposal", "decision"} :
       WrittenByOne(f) => folder[f].path.is \in {"missing", "whole"} /\ Cardinality(Read(f)) <= 1

\* The same of a file that several processes write, which the store's documentation has share it.
SharedRecordsSurvive == \A f \in {"proposal", "votes", "decision"} : returned[f] \subseteq Read(f)

\* The versions of a policy stay. They are gone when the process dies between the
\* truncation and the writing of their file.
VersionsSurvive ==
  \A p \in Writers : op[p] = NoOp => returned["policy"] \subseteq get_policy_history
===============================================================================
