---------------------------- MODULE MCMeasurements ----------------------------
(***************************************************************************)
(* Instances of release checks, pairwise runs and scenarios for TLC.       *)
(***************************************************************************)
EXTENDS Measurements

CONSTANTS c1, c2, c3, stray, exact, similar, backend1, backend2,
          search, pay, source1, refund, email

Check(metric, kind, percent) == [metric |-> metric, kind |-> kind, percent |-> percent]
Everywhere(checks) == [e \in Evaluators |-> checks]

Scope(cases, coverage, minimum, rules) ==
  [cases |-> cases, coverage |-> coverage, minimum |-> minimum, rules |-> rules]

Drops == {Check("average_score", "max_drop", 5), Check("pass_rate", "max_drop", 5)}

MCPolicies ==
  {{}, {Scope(Cases, 95, 1, Everywhere(Drops))},
   {Scope(Cases, 100, 1, Everywhere({Check("pass_rate", "minimum", 100)}))},
   {Scope(Cases, 50, 1, Everywhere({Check("average_score", "max_drop", 50)})),
    Scope({c2}, 50, 1, Everywhere({Check("average_score", "minimum", 50)}))}}

Scored(c, e, s) == ScoreRow(c, e, s, IF e = similar THEN backend1 ELSE "default")
History(s, t) == {Scored(c1, e, s) : e \in Evaluators} \cup {Scored(c2, e, t) : e \in Evaluators}
Duplicate == [Scored(c1, exact, 2) EXCEPT !.copy = 2]

MCBaselineRows ==
  {History(2, 2), History(2, 2) \cup {Duplicate},
   History(1, 1) \cup {Scored(stray, exact, 2)},
   {Scored(c1, e, 1) : e \in Evaluators}
     \cup {ErrorRow(c2, e, "generation_error") : e \in Evaluators}}

MCCaseOrder == <<c1, c2, c3>>

OldComparison(copy, winner, score) ==
  [case |-> c1, copy |-> copy, order |-> "AB", outcome |-> "evaluated",
   winner |-> winner, a |-> score, b |-> 0]

MCLegacyRows ==
  {{}, {OldComparison(1, "A", 1), OldComparison(2, "B", 0)}, {OldComparison(2, "A", Invalid)}}

\* The Elo curve at leads of 0, 32, 64, 96 and 128 points, straight between them.
Curve == <<500, 546, 591, 635, 676>>
MCExpectedScore(lead) ==
  LET ahead == IF lead < 0 THEN -lead ELSE lead
      k == (ahead \div 1000) + 1
      gain == IF k > 4 THEN 676
              ELSE Curve[k] + ((Curve[k + 1] - Curve[k]) * (ahead % 1000)) \div 1000
  IN  IF lead < 0 THEN 1000 - gain ELSE gain

\* Scenarios.

NoChecks ==
  [required |-> {}, forbidden |-> {}, budget |-> {}, expectations |-> {}, order |-> <<>>,
   relevant |-> {}, recall |-> 100, irrelevant |-> {}, quoted |-> {}, effectPolicy |-> FALSE,
   allowed |-> {}, needed |-> {}, authorize |-> FALSE, values |-> {}, references |-> {},
   reviewed |-> {}]

Value(kind, name) == [kind |-> kind, name |-> name]
Reviewed == Value("grounding_reference", "claim")

MCContracts ==
  {[NoChecks EXCEPT !.required = {search}, !.forbidden = {pay}, !.budget = {1}],
   [NoChecks EXCEPT !.order = <<search, pay>>, !.values = {Value("output", "answer")},
                    !.expectations = {[tool |-> search, occurrence |-> 2, compares |-> Parts]}],
   [NoChecks EXCEPT !.relevant = {source1}, !.irrelevant = {0}, !.quoted = {source1},
                    !.values = {Value("output", "claim"), Value("citation", "source")},
                    !.references = {Reviewed}, !.reviewed = {Reviewed}],
   [NoChecks EXCEPT !.forbidden = {pay}, !.effectPolicy = TRUE, !.authorize = TRUE,
                    !.allowed = {refund}, !.needed = {refund}],
   [NoChecks EXCEPT !.effectPolicy = TRUE, !.allowed = {refund},
                    !.values = {Value("budget", "latency"), Value("state", "after")}],
   [NoChecks EXCEPT !.values = {Shape, Value("schedule", "hours"), Value("revenue", "total")},
                    !.references = {Value("revenue", "truth")}]}

MCCalls ==
  [tool: {search}, ok: BOOLEAN, ranked: BOOLEAN, arguments: Comparisons, result: {"absent", "met"}]
  \cup [tool: {pay}, ok: BOOLEAN, ranked: BOOLEAN, arguments: {"absent"}, result: {"absent"}]
MCDocuments == [source: {source1, stray}, content: {"quote", "other", "none"}]
MCSideEffects == [name: {refund, email}, ok: BOOLEAN, authorized: {"yes", "no", "unknown"}]

InDimension(valid, passing) == [valid |-> valid, passing |-> passing]
Imported(valid, passing, trajectory, safety) ==
  [valid |-> valid, passing |-> passing,
   dimension |-> [trajectory |-> trajectory, safety |-> safety]]

MCRunMetricsSet ==
  {Imported(2, 2, InDimension(2, 2), InDimension(2, 2)),
   Imported(2, 2, InDimension(2, 2), InDimension(0, 0)),
   Imported(2, 1, InDimension(2, 1), InDimension(2, 2)),
   Imported(1, 1, InDimension(1, 1), InDimension(1, 1))}

MCScenarioRules ==
  [minimum |-> 1, drop |-> 0,
   dimensions |-> <<[name |-> "safety", minimum |-> 100, drop |-> 100],
                    [name |-> "trajectory", minimum |-> 50, drop |-> 0]>>]

=============================================================================
