---------------------------------- MODULE Voting ----------------------------------
(***************************************************************************)
(* Votes on a paper, and what is made of them (voting/strategies,          *)
(* voting/aggregation, negotiation_coordinator): critics vote one by one,  *)
(* and the coordinator may aggregate and decide after any of them. Scores, *)
(* confidences and all that is computed from them are floats: numbers of a *)
(* set, counted in small units, and every operation gives the number of    *)
(* the set that is nearest to the exact result. sum() adds from the left,  *)
(* one after the other, as it does up to Python 3.11.                      *)
(***************************************************************************)
EXTENDS Integers, FiniteSets, Sequences, FiniteSetsExt

CONSTANTS
  PanelSize,            \* number of critics
  Unit,                 \* of which 1.0 has this many
  Floats,               \* the numbers from 0 that are floats
  Scores, Confidences,  \* the floats that are given
  Policies              \* records: threshold, tolerance, on the scale of the scores

ASSUME VotingAssumption ==
  /\ PanelSize \in Nat /\ Unit \in Nat \ {0} /\ Floats \subseteq Nat
  /\ {0, 10 * Unit} \subseteq Floats
  /\ Scores \subseteq Floats \cap 0..(10 * Unit) /\ Confidences \subseteq Floats \cap 0..Unit
  /\ Policies \subseteq [threshold : Floats, tolerance : Floats]

VARIABLE polled   \* the votes, in the order in which they were cast

Votes == [score : Scores, confidence : Confidences, passed : BOOLEAN]

VotingInit == polled = <<>>
CastsVote(v) == Len(polled) < PanelSize /\ polled' = Append(polled, v)
VotingNext == \E v \in Votes : CastsVote(v)
-------------------------------------------------------------------------------
(* Floats *)

\* The float nearest to n/d; of two that are as near, one, and the same every time.
Nearest(n, d) ==
  CHOOSE x \in Floats : \A y \in Floats :
    (y > x => (x + y) * d >= 2 * n) /\ (y < x => (x + y) * d <= 2 * n)
\* The one nearest to the root of v
Root(v) ==
  CHOOSE x \in Floats : \A y \in Floats :
    /\ y > x => (x + y) * (x + y) >= 4 * v * Unit
    /\ y < x => (x + y) * (x + y) <= 4 * v * Unit

Plus == [a \in Floats |-> [b \in Floats |-> Nearest(a + b, 1)]]
Times == [a \in Floats |-> [b \in Floats |-> Nearest(a * b, Unit)]]
Apart == [a \in Floats |-> [b \in Floats |-> Nearest(IF a < b THEN b - a ELSE a - b, 1)]]
Ratio(a, b) == Nearest(a * Unit, b)

Sum(s) ==
  LET upTo[i \in 0..Len(s)] == IF i = 0 THEN 0 ELSE Plus[upTo[i - 1]][s[i]]
  IN upTo[Len(s)]
-------------------------------------------------------------------------------
(* Aggregation, of one vote or more *)

Count(vs) == Len(vs)
scores(vs) == [i \in DOMAIN vs |-> vs[i].score]
confidences(vs) == [i \in DOMAIN vs |-> vs[i].confidence]
products(vs) == [i \in DOMAIN vs |-> Times[vs[i].score][vs[i].confidence]]
mean(vs) == Nearest(Sum(scores(vs)), Count(vs))
squares(vs) ==
  LET m == mean(vs)
  IN [i \in DOMAIN vs |-> Times[Apart[vs[i].score][m]][Apart[vs[i].score][m]]]
variance(vs) == Nearest(Sum(squares(vs)), Count(vs))
std_dev(vs) == Root(variance(vs))

total_confidence(vs) == Sum(confidences(vs))
confidence_weighted(vs) ==
  IF total_confidence(vs) > 0 THEN Ratio(Sum(products(vs)), total_confidence(vs)) ELSE mean(vs)

Passed(vs) == Cardinality({i \in DOMAIN vs : vs[i].passed})
Failed(vs) == Count(vs) - Passed(vs)
majority(vs) ==
  CASE Failed(vs) = 0 -> 10 * Unit
    [] Passed(vs) = 0 -> 0
    [] Passed(vs) > Failed(vs) /\ Failed(vs) # 0 -> Nearest(15 * Unit, 2)
    [] Failed(vs) > Passed(vs) /\ Passed(vs) # 0 -> Nearest(5 * Unit, 2)
    [] Failed(vs) = Passed(vs) -> 5 * Unit

\* Points are n for the first rank down to 1; all votes' points are summed, averaged and
\* divided by n.
total_points(n) == MapThenSumSet(LAMBDA rank : n - rank, 0..(n - 1))
borda(vs) ==
  LET n == Count(vs) IN Times[Nearest(Nearest(total_points(n) * Unit, n), n)][10 * Unit]

Strategies == {"average", "confidence", "majority", "borda"}
aggregate(how, vs) ==
  [std_dev |-> std_dev(vs),
   weighted_mean |-> CASE how = "average" -> mean(vs) [] how = "confidence" -> confidence_weighted(vs)
                       [] how = "majority" -> majority(vs) [] how = "borda" -> borda(vs)]

Bins(vs) == {Min({vs[i].score \div (2 * Unit), 4}) : i \in DOMAIN vs}
compute_entropy_is_0(vs) == Cardinality(Bins(vs)) = 1
\* at the threshold of 0.8
detect_consensus(vs) ==
  ~(std_dev(vs) >= 2 * Unit) /\ 5 * Max({Passed(vs), Failed(vs)}) >= 4 * Count(vs)
Scored(vs, S) == Cardinality({i \in DOMAIN vs : vs[i].score \in S})
detect_polarization(vs) ==
  /\ Count(vs) >= 3 /\ std_dev(vs) >= 3 * Unit
  /\ 10 * Scored(vs, 0..(3 * Unit)) >= 3 * Count(vs)
  /\ 10 * Scored(vs, (7 * Unit)..(10 * Unit)) >= 3 * Count(vs)
  /\ 10 * Scored(vs, (3 * Unit + 1)..(7 * Unit - 1)) <= 2 * Count(vs)
-------------------------------------------------------------------------------
(* The coordinator *)

apply_policy(aggregated, policy) ==
  IF aggregated.std_dev > policy.tolerance THEN "ESCALATED_TO_HITL"
  ELSE IF aggregated.weighted_mean >= policy.threshold THEN "APPROVED"
  ELSE "REVISION_REQUESTED"

LowConfidence(vs) == 2 * Nearest(total_confidence(vs), Count(vs)) < Unit
\* (Mutant: two votes do not spread.)
SpreadOfThree(vs, policy) == Count(vs) >= 3 /\ std_dev(vs) > policy.tolerance
SpreadTooWide(vs, policy) == Count(vs) >= 2 /\ std_dev(vs) > policy.tolerance
\* No vote, no escalation; a failure, little confidence or a wide spread is one.
should_escalate(vs, policy) ==
  /\ vs # <<>>
  /\ (\E i \in DOMAIN vs : ~vs[i].passed) \/ LowConfidence(vs) \/ SpreadTooWide(vs, policy)

\* CoordinatorAgent of the debate example: its thresholds, over the votes it reads from the
\* room. A panel below MIN_VOTES_REQUIRED is only warned about. (Mutant: who did not pass does
\* not count.)
APPROVAL_THRESHOLD == 7 * Unit
MAX_STD_DEV == 2 * Unit
MIN_VOTES_REQUIRED == 2
NoneFailed(vs) == Passed(vs) > 0
all_passed(vs) == Failed(vs) = 0
aggregate_and_decide(vs) ==
  IF std_dev(vs) > MAX_STD_DEV THEN "ESCALATED_TO_HITL"
  ELSE IF confidence_weighted(vs) >= APPROVAL_THRESHOLD /\ all_passed(vs) THEN "APPROVED"
  ELSE "REVISION_REQUESTED"
-------------------------------------------------------------------------------
(* Properties *)

VotingTypeOK == polled \in Seq(Votes) /\ Len(polled) <= PanelSize

Better(vs, i, s) == [vs EXCEPT ![i].score = s]
\* What a policy makes of a panel, when it agrees with the rest: what it escalates, the
\* coordinator's own test escalates too; a critic who thinks better of a paper never has an
\* approved one sent back for revision.
PoliciesAgree(vs) ==
  \A how \in Strategies :
    LET now == aggregate(how, vs) IN
    /\ \A p \in Policies : apply_policy(now, p) = "ESCALATED_TO_HITL" => should_escalate(vs, p)
    /\ \A i \in DOMAIN vs, s \in Scores :
         s >= vs[i].score =>
           LET then == aggregate(how, Better(vs, i, s)) IN
           \A p \in Policies : apply_policy(now, p) = "APPROVED" => apply_policy(then, p) # "REVISION_REQUESTED"

\* The parts agree on every panel of votes, however the floats are rounded: what a policy makes
\* of it, and the detectors of polarization and of consensus with each other and with the
\* entropy; and what the debate's coordinator approves is approved by the SDK's, whose test
\* escalates it, if at all, for little confidence only.
DecisionsAgree ==
  polled # <<>> =>
    /\ PoliciesAgree(polled)
    /\ detect_polarization(polled) => ~detect_consensus(polled) /\ ~compute_entropy_is_0(polled)
    /\ aggregate_and_decide(polled) = "APPROVED" =>
         LET same == [threshold |-> APPROVAL_THRESHOLD, tolerance |-> MAX_STD_DEV]
         IN /\ apply_policy(aggregate("confidence", polled), same) = "APPROVED"
            /\ should_escalate(polled, same) => LowConfidence(polled)

\* An average lies between the votes it is made of. Rounding takes it out: votes of 7.0 with
\* confidences of 0.1, 0.2 and 0.3 average to 6.999999999999999.
AveragesLieBetween ==
  polled # <<>> =>
    \A how \in {"average", "confidence"} :
      /\ \E i \in DOMAIN polled : polled[i].score <= aggregate(how, polled).weighted_mean
      /\ \E i \in DOMAIN polled : polled[i].score >= aggregate(how, polled).weighted_mean

\* Higher scores make a higher Borda score: a panel of the best scores is above any that
\* is not. The sum over all ranks does not depend on the votes.
BordaSeesScores ==
  polled # <<>> /\ (\A i \in DOMAIN polled : polled[i].score < 10 * Unit) =>
    borda([i \in DOMAIN polled |-> [polled[i] EXCEPT !.score = 10 * Unit]]) > borda(polled)

\* An approval of the debate's coordinator rests on the number of votes its class requires.
\* The code prints a warning and goes on.
EnoughVotes ==
  polled # <<>> /\ aggregate_and_decide(polled) = "APPROVED" => Count(polled) >= MIN_VOTES_REQUIRED

\* What the coordinator's own test escalates is not approved. The policy looks at the spread
\* and the mean only.
EscalatedIsNotApproved ==
  \A p \in Policies, how \in Strategies :
    polled # <<>> /\ should_escalate(polled, p) => apply_policy(aggregate(how, polled), p) # "APPROVED"
===============================================================================
