------------------------------ MODULE RunMetrics ------------------------------
(***************************************************************************)
(* What the stored results of a run amount to: which rows count, and the   *)
(* figures each evaluator gets.  A row is the result of one evaluator on   *)
(* one case; rows are a set, so nothing here depends on the order in which *)
(* they were stored.  A score is a whole number of 1/Scale; shares are     *)
(* kept as a numerator and a denominator.                                  *)
(***************************************************************************)
EXTENDS Integers, FiniteSets, FiniteSetsExt

CONSTANTS Cases,         \* the cases the run was submitted with
          Strays,        \* case identifiers outside that set
          Evaluators,    \* the evaluators of the run
          Similarity,    \* the one among them that records a backend, if any
          Backends,      \* the backends they may record
          Scale,         \* the highest score
          PassThreshold  \* the lowest passing score

ASSUME MetricsAssumption ==
  /\ IsFiniteSet(Cases) /\ Cases \cap Strays = {}
  /\ IsFiniteSet(Evaluators) /\ Evaluators # {}
  /\ Similarity \subseteq Evaluators /\ \A e, f \in Similarity : e = f
  /\ Scale \in Nat \ {0} /\ PassThreshold \in 0..Scale
  /\ "default" \notin Backends

Scores == 0..Scale
Errors == {"generation_error", "evaluation_error"}
Invalid == -1   \* an evaluated row whose score is not a number from 0 to 1

\* "copy" tells apart rows stored twice, which runs from before the unique
\* result identity may hold.
Rows == [case: Cases \cup Strays, evaluator: Evaluators, copy: {1, 2},
         outcome: {"evaluated"} \cup Errors, score: Scores \cup {Invalid},
         backend: Backends \cup {"default"}]

ErrorRow(c, e, outcome) ==
  [case |-> c, evaluator |-> e, copy |-> 1, outcome |-> outcome,
   score |-> Invalid, backend |-> "default"]

ScoreRow(c, e, score, backend) ==
  [case |-> c, evaluator |-> e, copy |-> 1, outcome |-> "evaluated",
   score |-> score, backend |-> backend]

\* The rows evaluator e may give case c once the model has answered.
Evaluations(c, e, scores) ==
  {ErrorRow(c, e, "evaluation_error")}
  \cup {ScoreRow(c, e, s, b) : s \in scores,
                               b \in IF e \in Similarity THEN Backends ELSE {"default"}}

\* One of the sets of S for every evaluator, put together.
EachOf(S(_)) ==
  {{rows[e] : e \in Evaluators} :
     rows \in {f \in [Evaluators -> UNION {S(e) : e \in Evaluators}] :
                 \A e \in Evaluators : f[e] \in S(e)}}

Generated(c) == {ErrorRow(c, e, "generation_error") : e \in Evaluators}

\* The rows one case may get: an error of the model for every evaluator, or
\* from each evaluator a score or an error of its own.  A score that is not a
\* number from 0 to 1 is stored as an error.
CaseRows(c) == {Generated(c)} \cup EachOf(LAMBDA e : Evaluations(c, e, Scores))

ValidScore(score) == score \in Scores

CasesOf(rows) == {r.case : r \in rows}
Copies(rows, c) == Cardinality({r \in rows : r.case = c})

\* The rows that count: expected cases stored exactly once.
Authoritative(rows, expected) ==
  {r \in rows : r.case \in expected /\ Copies(rows, r.case) = 1}

Ambiguous(rows, expected) == {c \in CasesOf(rows) \cap expected : Copies(rows, c) > 1}
Unexpected(rows, expected) == CasesOf(rows) \ expected

ValidRows(rows) == {r \in rows : r.outcome = "evaluated" /\ ValidScore(r.score)}

\* Mutation: cases that ended in an error leave the denominator.
MeasuredOnly(rows, expected) ==
  expected \ {r.case : r \in {q \in rows : q.outcome \in Errors}}

\* The denominator: every expected case, whatever became of it.
Denominator(rows, expected) == expected

\* The figures of evaluator e over the expected cases.
Metrics(rows, e, expected) ==
  LET mine == {r \in rows : r.evaluator = e}
      counted == Authoritative(mine, expected)
      valid == ValidRows(counted)
  IN  [total |-> Cardinality(Denominator(mine, expected)),
       ambiguous |-> Cardinality(Ambiguous(mine, expected)),
       unexpected |-> Cardinality(Unexpected(mine, expected)),
       valid |-> Cardinality(valid),
       errors |-> Cardinality(counted \ valid),
       sum |-> MapThenSumSet(LAMBDA r : r.score, valid),
       passing |-> Cardinality({r \in valid : r.score >= PassThreshold}),
       backends |-> {r.backend : r \in counted}]

\* A slice keeps the rows of its cases only.
Sliced(rows, cases) == {r \in rows : r.case \in cases}

=============================================================================
