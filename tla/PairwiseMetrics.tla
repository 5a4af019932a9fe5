--------------------------- MODULE PairwiseMetrics ---------------------------
(***************************************************************************)
(* A pairwise run: two models answer every case and a judge, who sees the  *)
(* two answers in an order drawn at random, says which is better.  The run *)
(* stores the judgement in terms of the models and reports, for each of    *)
(* them, its wins, its score and an Elo rating played case after case.     *)
(*                                                                         *)
(* A rating counts thousandths of the K factor of 32 points above or below *)
(* the initial 1500, so that one win that nobody expected is worth 1000.   *)
(* It is reported rounded to a tenth of a point.                           *)
(***************************************************************************)
EXTENDS RunMetrics, SequencesExt

CONSTANTS CaseOrder,       \* the cases compared, in the order of their names
          LegacyRows,      \* comparisons that old runs may hold already
          ExpectedScore(_) \* the score expected of a rating lead, in thousandths

Winners == {"A", "B", "tie"}
Compared == ToSet(CaseOrder)

\* What the judge holds of the two answers, were their order not to matter.
NoOpinion == [winner |-> "neither", a |-> 0, b |-> 0]
Opinions == [winner: Winners, a: Scores, b: Scores] \cup {NoOpinion}

\* A comparison made now has copy 0; what old runs hold has another.
PairwiseRows ==
  [case: Compared, copy: 0..2, order: {"AB", "BA"}, outcome: {"evaluated"} \cup Errors,
   winner: Winners \cup {"none"}, a: Scores \cup {Invalid}, b: Scores \cup {Invalid}]

ASSUME PairwiseAssumption ==
  /\ CaseOrder \in Seq(Compared)
  /\ \A old \in LegacyRows : /\ old \subseteq {r \in PairwiseRows : r.copy # 0}
                             /\ IsFiniteSet(old)
  /\ \A lead \in 0..(2000 * Len(CaseOrder)) :
       /\ ExpectedScore(lead) \in 0..1000
       /\ ExpectedScore(-lead) = 1000 - ExpectedScore(lead)
       /\ lead > 0 => 2 * (ExpectedScore(lead) - 500) < lead

VARIABLES opinion,   \* what the judge holds of each case judged so far
          stored     \* the comparisons stored

pairwiseVars == <<opinion, stored>>

PairwiseInit ==
  /\ stored \in LegacyRows
  /\ opinion = [c \in Compared |-> NoOpinion]

-----------------------------------------------------------------------------
(* One case. *)

Swapped(answer) ==
  [winner |-> IF answer.winner = "A" THEN "B" ELSE IF answer.winner = "B" THEN "A"
              ELSE answer.winner,
   a |-> answer.b, b |-> answer.a]

\* The answer of a judge with that opinion, who is shown the answers in that
\* order and calls the first one A.
Judged(held, order) == IF order = "AB" THEN held ELSE Swapped(held)

\* Mutation: the scores stay with the positions.
WinnerOnly(answer, order) ==
  IF order = "AB" THEN answer ELSE [answer EXCEPT !.winner = Swapped(answer).winner]

\* The judge's answer in terms of the models.
Unswapped(answer, order) == IF order = "AB" THEN answer ELSE Swapped(answer)

ComparisonError(c, order, outcome) ==
  [case |-> c, copy |-> 0, order |-> order, outcome |-> outcome,
   winner |-> "none", a |-> Invalid, b |-> Invalid]

Judgement(c, order, answer) ==
  IF answer.winner \in Winners
  THEN [case |-> c, copy |-> 0, order |-> order, outcome |-> "evaluated",
        winner |-> answer.winner, a |-> answer.a, b |-> answer.b]
  ELSE ComparisonError(c, order, "evaluation_error")

\* Either model failed to answer, so that there is nothing to judge.
GenerationFails(c) ==
  /\ stored' = stored \cup {ComparisonError(c, "AB", "generation_error")}
  /\ UNCHANGED opinion

\* The judge fails, runs out of time or gives scores that are none.
JudgeFails(c) ==
  /\ \E order \in {"AB", "BA"} :
       stored' = stored \cup {ComparisonError(c, order, "evaluation_error")}
  /\ UNCHANGED opinion

JudgeAnswers(c) ==
  \E held \in Opinions, order \in {"AB", "BA"} :
    /\ opinion' = [opinion EXCEPT ![c] = held]
    /\ stored' = stored \cup
         {Judgement(c, order, Unswapped(Judged(held, order), order))}

Compare(c) ==
  /\ c \notin CasesOf(stored)
  /\ GenerationFails(c) \/ JudgeFails(c) \/ JudgeAnswers(c)

PairwiseNext == \E c \in Compared : Compare(c)

-----------------------------------------------------------------------------
(* The figures of the run. *)

Evaluated(rows) ==
  {r \in Authoritative(rows, Compared) :
     r.outcome = "evaluated" /\ r.winner \in Winners /\ ValidScore(r.a) /\ ValidScore(r.b)}

\* Mutation: a tie counts as a loss of the first model.
TieLoses(winner) == IF winner = "A" THEN 1000 ELSE 0

Score(winner) == IF winner = "A" THEN 1000 ELSE IF winner = "B" THEN 0 ELSE 500

\* Mutation: the second model loses what the first was expected to win.
EloForgetsComplement(ratings, score) ==
  [a |-> ratings.a + score - ExpectedScore(ratings.a - ratings.b),
   b |-> ratings.b + (1000 - score) - ExpectedScore(ratings.a - ratings.b)]

\* Both ratings move by the difference between the score and what the other
\* rating led one to expect.
EloUpdate(ratings, score) ==
  LET expected == ExpectedScore(ratings.a - ratings.b)
  IN  [a |-> ratings.a + score - expected,
       b |-> ratings.b + (1000 - score) - (1000 - expected)]

\* The ratings after every counted case, in the order of the cases.
Elo(rows) ==
  FoldLeft(LAMBDA ratings, c :
             LET played == {r \in rows : r.case = c} IN
             IF played = {} THEN ratings
             ELSE EloUpdate(ratings, Score((CHOOSE r \in played : TRUE).winner)),
           [a |-> 0, b |-> 0], CaseOrder)

\* Of a run with no valid comparison no rating is reported.
NoRating == "none"

\* A rating in tenths of a point: a unit is 0.32 tenths, never a half of one.
Reported(rating) == 15000 + (16 * rating + 25) \div 50

PairwiseMetrics(rows) ==
  LET counted == Evaluated(rows)
      won(side) == Cardinality({r \in counted : r.winner = side})
      elo == Elo(counted)
      reported(rating) == IF counted = {} THEN NoRating ELSE Reported(rating)
  IN  [valid |-> Cardinality(counted),
       wins_a |-> won("A"), wins_b |-> won("B"), ties |-> won("tie"),
       elo_a |-> reported(elo.a), elo_b |-> reported(elo.b),
       sum_a |-> MapThenSumSet(LAMBDA r : r.a, counted),
       sum_b |-> MapThenSumSet(LAMBDA r : r.b, counted)]

-----------------------------------------------------------------------------
(* Properties. *)

\* For a judge whose opinion does not depend on the order, what is stored does
\* not either: the winner and each score belong to the model the judge meant,
\* and an answer that names no winner is an error with no scores (the random
\* presentation order of _run_example).
FairPresentation ==
  \A r \in stored : r.copy = 0 /\ r.outcome = "evaluated" =>
    [winner |-> r.winner, a |-> r.a, b |-> r.b] = opinion[r.case]

Mirrored(rows) ==
  {[r EXCEPT !.winner = Swapped(r).winner, !.a = r.b, !.b = r.a] : r \in rows}

\* Calling model A model B and the other way round exchanges their figures and
\* changes nothing else: no position is favoured by the counts, the scores or
\* the ratings.
LabelsAreNeutral ==
  LET m == PairwiseMetrics(stored)  n == PairwiseMetrics(Mirrored(stored)) IN
  /\ <<n.wins_a, n.wins_b, n.ties, n.valid>> = <<m.wins_b, m.wins_a, m.ties, m.valid>>
  /\ <<n.elo_a, n.elo_b, n.sum_a, n.sum_b>> = <<m.elo_b, m.elo_a, m.sum_b, m.sum_a>>

\* The last of the counted cases was won by that model.
WonLast(rows, side) ==
  \E j \in DOMAIN CaseOrder, r \in rows :
    /\ r.case = CaseOrder[j] /\ r.winner = side
    /\ \A k \in DOMAIN CaseOrder, q \in rows : q.case = CaseOrder[k] => k <= j

\* A model that lost no case is never reported behind the other one, whatever
\* ties, errors and duplicates surround its wins, and it is reported ahead when
\* it won the last case; so the ratings are level when nobody won.  Ties shrink
\* a lead, and a lead of less than a tenth of a point may be reported as none
\* (get_pairwise_run_metrics).
UnbeatenLeads ==
  LET m == PairwiseMetrics(stored)  counted == Evaluated(stored) IN
  m.valid > 0 =>
    /\ m.wins_b = 0 => m.elo_a >= m.elo_b
    /\ m.wins_a = 0 => m.elo_b >= m.elo_a
    /\ m.wins_b = 0 /\ WonLast(counted, "A") => m.elo_a > m.elo_b
    /\ m.wins_a = 0 /\ WonLast(counted, "B") => m.elo_b > m.elo_a

=============================================================================
