-------------------------- MODULE BaselineComparison --------------------------
(***************************************************************************)
(* The release check: a run is compared with a baseline under the rules of *)
(* the policy it was submitted under, and passes, has regressed, or is     *)
(* inconclusive.  The run stores its results case by case and completes;   *)
(* either run may be deleted at any time.  A comparison reads the run      *)
(* records first and each run's results later, and reads them once more    *)
(* for the slices, each time in a session of its own.                      *)
(***************************************************************************)
EXTENDS RunMetrics

CONSTANTS Policies,       \* the release rules a run may be bound to
          BaselineRows    \* the results a completed baseline may hold

(***************************************************************************)
(* A scope is what one set of rules applies to: all the cases, or a slice. *)
(* "rules" gives each evaluator a set of checks [metric, kind, percent]; a *)
(* policy is a set of scopes, one of which has all the cases.  A run that   *)
(* is bound to no approved policy has no scope at all.                     *)
(***************************************************************************)
ASSUME ComparisonAssumption ==
  /\ \A p \in Policies : p = {} \/ \E s \in p : s.cases = Cases
  /\ \A p \in Policies : \A s \in p :
       /\ s.cases \subseteq Cases
       /\ s.coverage \in 0..100 /\ s.minimum \in Nat \ {0}
       /\ s.rules \in [Evaluators -> SUBSET
            [metric: {"average_score", "pass_rate"}, kind: {"minimum", "max_drop"},
             percent: 0..100]]
  /\ \A B \in BaselineRows : B \subseteq Rows /\ IsFiniteSet(B)

Sides == {"current", "baseline"}
Decisive == {"passed", "regressed"}

VARIABLES policy,      \* the rules the current run is bound to
          rows,        \* the stored results of each run
          status,      \* running, completed or deleted
          comparison,  \* how far a comparison has got and what it has read
          answers      \* every answer given so far

comparisonVars == <<policy, rows, status, comparison, answers>>

\* "read" is what was read for the whole runs, "sliced" for their slices.
NoComparison == [stage |-> "none", read |-> [side \in Sides |-> {}],
                 sliced |-> [side \in Sides |-> {}]]

ComparisonInit ==
  /\ policy \in Policies
  /\ rows \in [current: {{}}, baseline: BaselineRows]
  /\ status = [current |-> "running", baseline |-> "completed"]
  /\ comparison = NoComparison
  /\ answers = {}

-----------------------------------------------------------------------------
(* Results arrive and runs end. *)

RunExample(c) ==
  /\ status["current"] = "running"
  /\ c \notin CasesOf(rows["current"])
  /\ \E new \in CaseRows(c) : rows' = [rows EXCEPT !["current"] = @ \cup new]
  /\ UNCHANGED <<policy, status, comparison, answers>>

Complete ==
  /\ status["current"] = "running"
  /\ CasesOf(rows["current"]) = Cases
  /\ status' = [status EXCEPT !["current"] = "completed"]
  /\ UNCHANGED <<policy, rows, comparison, answers>>

\* Mutation: the results of one case at a time are deleted.
DeleteRunByCase(side) ==
  /\ status[side] = "completed"
  /\ \E c \in Cases :
       rows' = [rows EXCEPT ![side] = {r \in @ : r.case # c}]
  /\ status' = [status EXCEPT ![side] = "deleted"]
  /\ UNCHANGED <<policy, comparison, answers>>

\* Retention, a purge or the deletion of the dataset takes a run away.
DeleteRun(side) ==
  /\ status[side] = "completed"
  /\ status' = [status EXCEPT ![side] = "deleted"]
  /\ rows' = [rows EXCEPT ![side] = {}]
  /\ UNCHANGED <<policy, comparison, answers>>

-----------------------------------------------------------------------------
(* The verdict. *)

Share(m, metric) ==
  IF metric = "average_score" THEN [num |-> m.sum, den |-> m.valid * Scale]
                              ELSE [num |-> m.passing, den |-> m.valid]

\* Mutation: the baseline is expected to stay below the run.
FellBackwards(cur, base, percent) ==
  (cur.num * base.den - base.num * cur.den) * 100 > percent * cur.den * base.den

Below(cur, percent) == cur.num * 100 < percent * cur.den
Fell(cur, base, percent) ==
  (base.num * cur.den - cur.num * base.den) * 100 > percent * cur.den * base.den

Fails(check, cur, base) ==
  LET c == Share(cur, check.metric)  b == Share(base, check.metric) IN
  IF check.kind = "minimum" THEN Below(c, check.percent) ELSE Fell(c, b, check.percent)

\* Mutation: a case stored twice does not stand in the way.
SufficientWithCopies(m, scope) ==
  /\ m.unexpected = 0
  /\ m.total > 0 /\ m.valid * 100 >= scope.coverage * m.total
  /\ m.valid >= scope.minimum

Sufficient(m, scope) ==
  /\ m.ambiguous = 0 /\ m.unexpected = 0
  /\ m.total > 0 /\ m.valid * 100 >= scope.coverage * m.total
  /\ m.valid >= scope.minimum

SameBackend(e, cur, base) ==
  /\ cur.backends = base.backends /\ Cardinality(cur.backends) = 1
  /\ e \in Similarity => "default" \notin cur.backends

\* What the rows of a run show within a scope; only a slice drops strays.
Seen(read, scope, e) ==
  Metrics(IF scope.cases = Cases THEN read ELSE Sliced(read, scope.cases), e, scope.cases)

\* The verdict over what was read of both runs for each scope of the rules.
Verdict(rules, read) ==
  LET seen(scope, side, e) == Seen(read[scope][side], scope, e)
      conclusive == \A scope \in rules, e \in Evaluators :
        /\ \A side \in Sides : Sufficient(seen(scope, side, e), scope)
        /\ SameBackend(e, seen(scope, "current", e), seen(scope, "baseline", e))
      regressed == \E scope \in rules, e \in Evaluators : \E check \in scope.rules[e] :
        Fails(check, seen(scope, "current", e), seen(scope, "baseline", e))
  IN  IF rules = {} \/ ~conclusive THEN "inconclusive"
      ELSE IF regressed THEN "regressed" ELSE "passed"

-----------------------------------------------------------------------------
(* A comparison. *)

\* Both runs are found and completed.
Start ==
  /\ comparison.stage = "none"
  /\ \A side \in Sides : status[side] = "completed"
  /\ comparison' = [comparison EXCEPT !.stage = "opened"]
  /\ UNCHANGED <<policy, rows, status, answers>>

\* One of them has not completed.
StartUnfinished ==
  /\ comparison.stage = "none"
  /\ \A side \in Sides : status[side] # "deleted"
  /\ \E side \in Sides : status[side] # "completed"
  /\ answers' = answers \cup {"inconclusive"}
  /\ UNCHANGED <<policy, rows, status, comparison>>

ReadCurrent ==
  /\ comparison.stage = "opened"
  /\ comparison' = [comparison EXCEPT !.stage = "current",
                                      !.read["current"] = rows["current"]]
  /\ UNCHANGED <<policy, rows, status, answers>>

ReadBaseline ==
  /\ comparison.stage = "current"
  /\ comparison' = [comparison EXCEPT !.stage = "read",
                                      !.read["baseline"] = rows["baseline"]]
  /\ UNCHANGED <<policy, rows, status, answers>>

\* The slices are measured on results read again, one run after the other.
Slices == {scope \in policy : scope.cases # Cases}

ReadSlices(side) ==
  /\ Slices # {}
  /\ comparison.stage = IF side = "current" THEN "read" ELSE "slicing"
  /\ comparison' = [comparison EXCEPT
       !.stage = IF side = "current" THEN "slicing" ELSE "sliced",
       !.sliced[side] = rows[side]]
  /\ UNCHANGED <<policy, rows, status, answers>>

Read == comparison.read
Concluding == comparison.stage = IF Slices = {} THEN "read" ELSE "sliced"
Answer == Verdict(policy, [scope \in policy |->
                             IF scope \in Slices THEN comparison.sliced ELSE Read])

\* A run whose results are gone leaves its evaluators out of the figures: the
\* other run's evaluators are reported missing.
Conclude ==
  /\ Concluding
  /\ answers' = answers \cup {Answer}
  /\ comparison' = NoComparison
  /\ UNCHANGED <<policy, rows, status>>

ComparisonNext ==
  \/ \E c \in Cases : RunExample(c)
  \/ Complete
  \/ \E side \in Sides : DeleteRun(side)
  \/ Start \/ StartUnfinished \/ ReadCurrent \/ ReadBaseline
  \/ (\E side \in Sides : ReadSlices(side))
  \/ Conclude

-----------------------------------------------------------------------------
(* Properties. *)

\* A check that is about to pass rests on an approved policy and on evidence
\* from both runs: for every evaluator each expected case has at most one row,
\* nothing else is counted, one backend measured everything, and the cases with
\* a valid score reach the required share (compare, authoritative_records).
PassedHasEvidence ==
  Concluding /\ Answer = "passed" =>
    /\ policy # {}
    /\ \A side \in Sides, e \in Evaluators :
      LET mine == {r \in Read[side] : r.evaluator = e}
          scored == {r.case : r \in ValidRows(mine)}
      IN /\ \A q, r \in mine : q.case = r.case => q = r
         /\ CasesOf(mine) \subseteq Cases
         /\ Cardinality({r.backend : r \in Read["current"] \cup Read["baseline"]}
                          \cap Backends) <= 1
         /\ \A scope \in policy :
              Cardinality(scored \cap scope.cases) * 100
                >= scope.coverage * Cardinality(scope.cases)

\* The verdict had one row of a run been another.
VerdictWith(side, r, new) ==
  LET changed == [Read EXCEPT ![side] = (@ \ {r}) \cup {new}]
  IN  Verdict(policy, [scope \in policy |-> changed])

\* A better score for the current run, or a worse one for the baseline, never
\* turns a passing check into another.
BetterNeverFails ==
  Concluding /\ Answer = "passed" =>
    \A side \in Sides : \A r \in ValidRows(Read[side]), s \in Scores :
      (IF side = "current" THEN s >= r.score ELSE s <= r.score) =>
        VerdictWith(side, r, [r EXCEPT !.score = s]) = "passed"

\* When every case has to be covered, an error never hides a bad result: no
\* row of either run can be replaced by an error and make the check pass.
ErrorsNeverPass ==
  Concluding /\ (\E scope \in policy : scope.cases = Cases /\ scope.coverage = 100) =>
    \A side \in Sides : \A r \in Read[side], outcome \in Errors :
      LET error == [r EXCEPT !.outcome = outcome, !.score = Invalid, !.backend = "default"]
      IN  VerdictWith(side, r, error) # "passed"

\* A pair of runs never both passes and regresses: whenever the comparisons
\* are made, and whatever is deleted while one is being made, the decisive
\* answers agree.
OneDecisiveAnswer == ~(Decisive \subseteq answers)

=============================================================================
