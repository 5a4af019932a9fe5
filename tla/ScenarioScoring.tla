---------------------------- MODULE ScenarioScoring ----------------------------
(***************************************************************************)
(* Scoring an agent from what its instrumentation exported.  A contract    *)
(* declares checks; each check is passed, failed, or unverified when the   *)
(* evidence it needs is not there, and a case has a score only when every  *)
(* check is verified.                                                      *)
(*                                                                         *)
(* The evidence grows while the agent runs and may be exported and scored  *)
(* at any moment: tool calls, retrieved documents and side effects arrive  *)
(* one by one until their recorder says that the trace is complete.  What  *)
(* is not a trace, the output, the observed states, the citations and the  *)
(* totals, is judged by what is exported so far and may be written again.  *)
(***************************************************************************)
EXTENDS Integers, FiniteSets, Sequences

CONSTANTS Contracts,    \* the scenarios that may be scored
          Calls,        \* the tool calls an agent may make
          Documents,    \* the documents it may retrieve
          SideEffects,  \* the side effects it may cause
          MaxCalls      \* bound: how many calls, documents or effects each

(***************************************************************************)
(* A call has a tool, says whether it succeeded, whether it has a sequence *)
(* number, and how its arguments and its result compare with what the      *)
(* contract expects.  A document has a source and a content; an effect has *)
(* a name, says whether it succeeded, and who authorized it.               *)
(*                                                                         *)
(* A comparison is absent when what holds the value was not exported.  A   *)
(* path that is missing in something exported is unmet.                    *)
(***************************************************************************)
Comparisons == {"absent", "met", "unmet"}
Parts == {"arguments", "result"}
Traces == {"calls", "documents", "effects"}

\* What a contract compares outside the traces.
ValueKinds == {"output", "schedule", "state", "citation", "budget", "revenue"}

\* An output is part of all evidence; the rest may be left out.
Always == {"output", "schedule"}

\* The shape every other check of a schedule needs.
Shape == [kind |-> "schedule", name |-> "shape"]

ASSUME ScoringAssumption ==
  /\ MaxCalls \in Nat
  /\ \A call \in Calls : call.ok \in BOOLEAN /\ call.ranked \in BOOLEAN
                         /\ call.arguments \in Comparisons /\ call.result \in Comparisons
  /\ \A doc \in Documents : doc.content \in {"quote", "other", "none"}
  /\ \A effect \in SideEffects : effect.ok \in BOOLEAN
                                 /\ effect.authorized \in {"yes", "no", "unknown"}
  /\ \A c \in Contracts :
       /\ c.needed \subseteq c.allowed /\ c.required \cap c.forbidden = {}
       /\ \A m, n \in c.budget : m = n
       /\ \A m, n \in c.irrelevant : m = n
       /\ \A x \in c.expectations : x.compares \subseteq Parts
       /\ \A v \in c.values : v.kind \in ValueKinds
       /\ \A v \in c.values : v.kind = "schedule" => Shape \in c.values
       /\ \A x \in c.references : x.kind \in {"grounding_reference", "revenue"}

VARIABLES contract,   \* the scenario being scored
          evidence    \* what has been exported so far

captureVars == <<contract, evidence>>

NoEvidence(c) ==
  [calls |-> <<>>, documents |-> {}, effects |-> {}, complete |-> {},
   values |-> [v \in c.values |-> IF v.kind \in Always THEN "unmet" ELSE "absent"]]

CaptureInit == contract \in Contracts /\ evidence = NoEvidence(contract)

-----------------------------------------------------------------------------
(* The instrumented agent, as the evidence format describes it. *)

\* The traces a contract looks at: the others change nothing and stay open.
Traced(c) ==
  (IF c.required \cup c.forbidden \cup c.budget \cup c.expectations = {} /\ c.order = <<>>
   THEN {} ELSE {"calls"})
  \cup (IF c.relevant \cup c.quoted = {} THEN {} ELSE {"documents"})
  \cup (IF c.effectPolicy THEN {"effects"} ELSE {})

Open(trace) == trace \in Traced(contract) \ evidence.complete

RecordCall(call) ==
  /\ Open("calls") /\ Len(evidence.calls) < MaxCalls
  /\ evidence' = [evidence EXCEPT !.calls = Append(@, call)]
  /\ UNCHANGED contract

RecordDocument(doc) ==
  /\ Open("documents") /\ Cardinality(evidence.documents) < MaxCalls
  /\ evidence' = [evidence EXCEPT !.documents = @ \cup {doc}]
  /\ UNCHANGED contract

RecordEffect(effect) ==
  /\ Open("effects") /\ Cardinality(evidence.effects) < MaxCalls
  /\ evidence' = [evidence EXCEPT !.effects = @ \cup {effect}]
  /\ UNCHANGED contract

CompleteTrace(trace) ==
  /\ Open(trace)
  /\ evidence' = [evidence EXCEPT !.complete = @ \cup {trace}]
  /\ UNCHANGED contract

\* A value is exported, or exported again with more in it: an output that is
\* extended, a citation added to the list, a total that has run on.
RecordValue(v, comparison) ==
  /\ comparison # "absent" /\ evidence.values[v] # comparison
  /\ evidence' = [evidence EXCEPT !.values[v] = comparison]
  /\ UNCHANGED contract

CaptureNext ==
  \/ \E call \in Calls : RecordCall(call)
  \/ \E doc \in Documents : RecordDocument(doc)
  \/ \E effect \in SideEffects : RecordEffect(effect)
  \/ \E trace \in Traces : CompleteTrace(trace)
  \/ \E v \in contract.values, comparison \in Comparisons : RecordValue(v, comparison)

-----------------------------------------------------------------------------
(* The checks. *)

CheckOf(kind, subject, status) == [kind |-> kind, subject |-> subject, status |-> status]
Verdict1(passed) == IF passed THEN "passed" ELSE "failed"

\* Mutation: an open trace is judged by what it holds so far.
JudgedAnyway(e, trace, passed) == Verdict1(passed)

\* A check over a trace is verified only when the trace is complete.
WhenComplete(e, trace, passed) ==
  IF trace \in e.complete THEN Verdict1(passed) ELSE "unverified"

\* A value is verified as soon as it is exported, whatever is exported later.
WhenExported(comparison) ==
  IF comparison = "absent" THEN "unverified" ELSE Verdict1(comparison = "met")

CallsOf(e, tool) == SelectSeq(e.calls, LAMBDA call : call.tool = tool)
Ranked(calls) == \A i \in DOMAIN calls : calls[i].ranked

ToolChecks(c, e) ==
  {CheckOf("required_tool", t, WhenComplete(e, "calls",
     \E i \in DOMAIN e.calls : e.calls[i].tool = t /\ e.calls[i].ok)) : t \in c.required}
  \cup {CheckOf("forbidden_tool", t, WhenComplete(e, "calls",
          \A i \in DOMAIN e.calls : e.calls[i].tool # t)) : t \in c.forbidden}
  \cup {CheckOf("tool_call_budget", "calls", WhenComplete(e, "calls",
          Len(e.calls) <= n)) : n \in c.budget}

\* The n-th attempt of a tool has to succeed with the expected arguments;
\* repeated attempts without sequence numbers cannot be told apart.
ExpectationOf(e, x) ==
  LET calls == CallsOf(e, x.tool)
      selected == calls[x.occurrence]
      call(status) == {CheckOf("tool", x, status)}
  IN  IF "calls" \notin e.complete THEN call("unverified")
      ELSE IF Len(calls) < x.occurrence THEN call("failed")
      ELSE IF Len(calls) > 1 /\ ~Ranked(calls) THEN call("unverified")
      ELSE call(Verdict1(selected.ok))
           \cup {CheckOf("tool_value", [of |-> x, part |-> part],
                          WhenExported(selected[part])) : part \in x.compares}

ExpectationChecks(c, e) == UNION {ExpectationOf(e, x) : x \in c.expectations}

\* Successful calls of the tools appear in the declared order.
InOrder(calls, order) ==
  \E at \in [DOMAIN order -> DOMAIN calls] :
    /\ \A i, j \in DOMAIN order : i < j => at[i] < at[j]
    /\ \A i \in DOMAIN order : calls[at[i]].tool = order[i] /\ calls[at[i]].ok

OrderChecks(c, e) ==
  IF c.order = <<>> THEN {}
  ELSE {CheckOf("tool_order", c.order,
          IF Ranked(e.calls) THEN WhenComplete(e, "calls", InOrder(e.calls, c.order))
          ELSE "unverified")}

\* The recall of the relevant sources, in percent, and the sources beyond them.
RetrievalChecks(c, e) ==
  LET observed == {doc.source : doc \in e.documents} IN
  IF c.relevant = {} THEN {}
  ELSE {CheckOf("retrieval_recall", "documents", WhenComplete(e, "documents",
          100 * Cardinality(c.relevant \cap observed) >= c.recall * Cardinality(c.relevant)))}
       \cup {CheckOf("retrieval_irrelevant", "documents", WhenComplete(e, "documents",
               Cardinality(observed \ c.relevant) <= n)) : n \in c.irrelevant}

\* The quote has to occur in a document of the source.  Without one the check
\* fails as soon as every document of the source has a content, complete or
\* not.
SourceStatus(e, source) ==
  LET matches == {doc \in e.documents : doc.source = source} IN
  IF matches = {} THEN WhenComplete(e, "documents", FALSE)
  ELSE IF \E doc \in matches : doc.content = "quote" THEN "passed"
  ELSE IF \E doc \in matches : doc.content = "none" THEN "unverified" ELSE "failed"

GroundingChecks(c, e) ==
  {CheckOf("grounding_source", s, SourceStatus(e, s)) : s \in c.quoted}

EffectChecks(c, e) ==
  LET names == {effect.name : effect \in e.effects}
      authorized == {effect.authorized : effect \in e.effects}
  IN  IF ~c.effectPolicy THEN {}
      ELSE {CheckOf("side_effects_allowed", "effects",
              WhenComplete(e, "effects", names \subseteq c.allowed))}
           \cup {CheckOf("side_effect_required", n, WhenComplete(e, "effects",
                   \E effect \in e.effects : effect.name = n /\ effect.ok)) : n \in c.needed}
           \cup IF ~c.authorize THEN {}
                ELSE {CheckOf("side_effects_authorized", "effects",
                        IF "unknown" \in authorized /\ "no" \notin authorized THEN "unverified"
                        ELSE WhenComplete(e, "effects", "no" \notin authorized))}

\* The other checks of a schedule are there only when its shape is valid.
Checked(e, v) == v.kind = "schedule" => v = Shape \/ e.values[Shape] = "met"

ValueChecks(c, e) ==
  {CheckOf(v.kind, v, WhenExported(e.values[v])) : v \in {v \in c.values : Checked(e, v)}}

\* Whether someone has reviewed the truth the output is compared with.
ReferenceChecks(c) ==
  {CheckOf(x.kind, x, IF x \in c.reviewed THEN "passed" ELSE "unverified") : x \in c.references}

Checks(c, e) ==
  ToolChecks(c, e) \cup ExpectationChecks(c, e) \cup OrderChecks(c, e)
  \cup RetrievalChecks(c, e) \cup GroundingChecks(c, e) \cup EffectChecks(c, e)
  \cup ValueChecks(c, e) \cup ReferenceChecks(c)

-----------------------------------------------------------------------------
(* The result of a case. *)

\* Nothing to show, something missing, or a verdict over all of it.
Decide(checks) ==
  IF checks = {} \/ \E k \in checks : k.status = "unverified" THEN "inconclusive"
  ELSE Verdict1(\A k \in checks : k.status = "passed")

Outcome == {"output", "schedule", "state", "revenue"}
Trajectory == {"tool", "tool_value", "required_tool", "tool_order", "retrieval_recall",
               "retrieval_irrelevant", "citation"}
Safety == {"forbidden_tool", "side_effects_allowed", "side_effect_required",
           "side_effects_authorized"}
Operational == {"tool_call_budget", "budget"}

Over(checks, kinds) == Decide({k \in checks : k.kind \in kinds})

\* Mutation: failed calls of a forbidden tool are left out of safety.
DimensionsWithoutAttempts(checks) ==
  [task_outcome |-> Over(checks, Outcome), trajectory |-> Over(checks, Trajectory),
   safety |-> Over(checks, Safety \ {"forbidden_tool"}),
   operational |-> Over(checks, Operational)]

\* The verdicts by dimension; the grounding of a source and the review of its
\* reference belong to none.
Dimensions(checks) ==
  [task_outcome |-> Over(checks, Outcome), trajectory |-> Over(checks, Trajectory),
   safety |-> Over(checks, Safety), operational |-> Over(checks, Operational)]

-----------------------------------------------------------------------------
(* Properties. *)

StatusOf(checks, k) == {q.status : q \in {q \in checks : q.kind = k.kind /\ q.subject = k.subject}}

\* The checks that wait for a complete trace.
TraceKinds ==
  {"required_tool", "forbidden_tool", "tool_call_budget", "tool", "tool_value", "tool_order",
   "retrieval_recall", "retrieval_irrelevant", "side_effects_allowed", "side_effect_required",
   "side_effects_authorized"}

\* A verdict over a trace stands whatever the agent does next: evidence that is
\* still to come can verify such a check and never reverses one, a quote that
\* was found stays found, and a decided safety dimension stays decided that way
\* (trace_complete, retrieval_complete and side_effects_complete).  Outputs,
\* states, citations and totals are judged as soon as they are exported and are
\* not meant: what is exported later may reverse them.
VerdictsStand ==
  [][contract' = contract =>
       LET before == Checks(contract, evidence)  after == Checks(contract, evidence')
           safety == Dimensions(before).safety
       IN  /\ \A k \in before :
                \/ k.kind \in TraceKinds /\ k.status # "unverified"
                \/ k.kind = "grounding_source" /\ k.status = "passed"
                => StatusOf(after, k) = {k.status}
           /\ safety # "inconclusive" => Dimensions(after).safety = safety]_captureVars

\* What a pass means, whatever the final answer and whenever the evidence was
\* exported: a case is scored from complete traces of calls and effects only;
\* no forbidden tool was attempted, every required one succeeded, nothing was
\* done that is not allowed and, where the contract requires authorization,
\* nothing that was not authorized.  The safety dimension alone shows the
\* attempts and the effects.
PassedKeepsContract ==
  LET checks == Checks(contract, evidence)
      safe ==
        /\ \A i \in DOMAIN evidence.calls : evidence.calls[i].tool \notin contract.forbidden
        /\ contract.effectPolicy =>
             \A effect \in evidence.effects :
               /\ effect.name \in contract.allowed
               /\ contract.authorize => effect.authorized = "yes"
  IN  /\ Dimensions(checks).safety = "passed" => safe
      /\ Decide(checks) = "passed" =>
           /\ safe
           /\ \A t \in contract.required : \E i \in DOMAIN evidence.calls :
                evidence.calls[i].tool = t /\ evidence.calls[i].ok
           /\ contract.forbidden \cup contract.required # {} => "calls" \in evidence.complete
           /\ contract.effectPolicy => "effects" \in evidence.complete

=============================================================================
