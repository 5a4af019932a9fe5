----------------------------- MODULE VerdictsProofs -----------------------------
(***************************************************************************)
(* What a pass means: for scenarios scored from exported evidence, for     *)
(* runs of a suite compared with each other, and for release checks.       *)
(***************************************************************************)
EXTENDS MeasurementsProofs

-----------------------------------------------------------------------------
(* Scoring an agent. *)

EvidenceOf(c) ==
  [calls: Seq(Calls), documents: SUBSET Documents, effects: SUBSET SideEffects,
   complete: SUBSET Traces, values: [c.values -> Comparisons]]

CaptureInv == contract \in Contracts /\ evidence \in EvidenceOf(contract)

(* What more evidence leaves alone: a complete trace.  Documents are kept.   *)
Grows(c, e, f) ==
  /\ e.complete \subseteq f.complete
  /\ "calls" \in e.complete => f.calls = e.calls
  /\ "documents" \in e.complete => f.documents = e.documents
  /\ "effects" \in e.complete => f.effects = e.effects
  /\ e.documents \subseteq f.documents

LEMMA CaptureStep ==
  ASSUME CaptureInv, CaptureNext
  PROVE  CaptureInv' /\ contract' = contract /\ Grows(contract, evidence, evidence')
<1> USE DEF CaptureInv
<1>1. ASSUME NEW call \in Calls, RecordCall(call)
      PROVE  evidence' \in EvidenceOf(contract) /\ Grows(contract, evidence, evidence')
  <2>1. evidence' = [evidence EXCEPT !.calls = Append(evidence.calls, call)]
        /\ "calls" \notin evidence.complete
    BY <1>1 DEF RecordCall, Open
  <2>2. Append(evidence.calls, call) \in Seq(Calls)  BY DEF EvidenceOf
  <2> QED BY <2>1, <2>2 DEF EvidenceOf, Grows
<1>2. ASSUME NEW doc \in Documents, RecordDocument(doc)
      PROVE  evidence' \in EvidenceOf(contract) /\ Grows(contract, evidence, evidence')
  <2>1. evidence' = [evidence EXCEPT !.documents = evidence.documents \cup {doc}]
        /\ "documents" \notin evidence.complete
    BY <1>2 DEF RecordDocument, Open
  <2> QED BY <2>1 DEF EvidenceOf, Grows
<1>3. ASSUME NEW effect \in SideEffects, RecordEffect(effect)
      PROVE  evidence' \in EvidenceOf(contract) /\ Grows(contract, evidence, evidence')
  <2>1. evidence' = [evidence EXCEPT !.effects = evidence.effects \cup {effect}]
        /\ "effects" \notin evidence.complete
    BY <1>3 DEF RecordEffect, Open
  <2> QED BY <2>1 DEF EvidenceOf, Grows
<1>4. ASSUME NEW trace \in Traces, CompleteTrace(trace)
      PROVE  evidence' \in EvidenceOf(contract) /\ Grows(contract, evidence, evidence')
  BY <1>4 DEF CompleteTrace, EvidenceOf, Grows
<1>5. ASSUME NEW v \in contract.values, NEW outcome \in Comparisons, RecordValue(v, outcome)
      PROVE  evidence' \in EvidenceOf(contract) /\ Grows(contract, evidence, evidence')
  <2>1. evidence' = [evidence EXCEPT !.values = [evidence.values EXCEPT ![v] = outcome]]
    BY <1>5 DEF RecordValue
  <2>2. [evidence.values EXCEPT ![v] = outcome] \in [contract.values -> Comparisons]
    BY DEF EvidenceOf
  <2> QED BY <2>1, <2>2 DEF EvidenceOf, Grows
<1>6. contract' = contract
  BY DEF CaptureNext, RecordCall, RecordDocument, RecordEffect, CompleteTrace, RecordValue
<1> QED BY <1>1, <1>2, <1>3, <1>4, <1>5, <1>6 DEF CaptureNext

LEMMA CaptureAlways == Spec => []CaptureInv
<1>1. Init => CaptureInv
  <2> SUFFICES ASSUME Init PROVE CaptureInv  OBVIOUS
  <2>1. contract \in Contracts /\ evidence = NoEvidence(contract)
    BY DEF Init, CaptureInit
  <2> QED BY <2>1 DEF CaptureInv, EvidenceOf, NoEvidence, Comparisons
<1>2. CaptureInv /\ [Next]_vars => CaptureInv'
  <2> SUFFICES ASSUME CaptureInv, [Next]_vars PROVE CaptureInv'  OBVIOUS
  <2>1. CASE UNCHANGED captureVars  BY <2>1 DEF CaptureInv, captureVars
  <2>2. CASE CaptureNext  BY <2>2, CaptureStep
  <2> QED BY <2>1, <2>2 DEF Next, vars
<1> QED BY <1>1, <1>2, PTL DEF Spec

(* A group of checks that passed has something to show, all of it passed.    *)
LEMMA DecidedPassed ==
  ASSUME NEW checks, Decide(checks) = "passed"
  PROVE  checks # {} /\ \A k \in checks : k.status = "passed"
BY DEF Decide, Verdict1

LEMMA PassedWhenComplete ==
  ASSUME NEW e, NEW trace, NEW passed \in BOOLEAN, WhenComplete(e, trace, passed) = "passed"
  PROVE  passed /\ trace \in e.complete
BY DEF WhenComplete, Verdict1

(* The checks on the tools and on the side effects, one by one: they are     *)
(* unverified until the trace is complete.                                   *)
Authorized(e) == {effect.authorized : effect \in e.effects}

RequiredCheck(e, t) == CheckOf("required_tool", t, WhenComplete(e, "calls",
  \E i \in DOMAIN e.calls : e.calls[i].tool = t /\ e.calls[i].ok))
ForbiddenCheck(e, t) == CheckOf("forbidden_tool", t, WhenComplete(e, "calls",
  \A i \in DOMAIN e.calls : e.calls[i].tool # t))
BudgetCheck(e, n) ==
  CheckOf("tool_call_budget", "calls", WhenComplete(e, "calls", Len(e.calls) <= n))

LEMMA ToolForms ==
  ASSUME NEW c, NEW e
  PROVE  /\ ToolChecks(c, e) = {RequiredCheck(e, t) : t \in c.required}
              \cup {ForbiddenCheck(e, t) : t \in c.forbidden}
              \cup {BudgetCheck(e, n) : n \in c.budget}
         /\ \A t : /\ RequiredCheck(e, t).kind = "required_tool"
                   /\ RequiredCheck(e, t).subject = t
                   /\ ForbiddenCheck(e, t).kind = "forbidden_tool"
                   /\ ForbiddenCheck(e, t).subject = t
         /\ \A n : BudgetCheck(e, n).kind = "tool_call_budget"
         /\ "calls" \notin e.complete =>
              /\ \A t : /\ RequiredCheck(e, t).status = "unverified"
                        /\ ForbiddenCheck(e, t).status = "unverified"
              /\ \A n : BudgetCheck(e, n).status = "unverified"
<1>1. ToolChecks(c, e) = {RequiredCheck(e, t) : t \in c.required}
        \cup {ForbiddenCheck(e, t) : t \in c.forbidden} \cup {BudgetCheck(e, n) : n \in c.budget}
  BY Zenon DEF ToolChecks, RequiredCheck, ForbiddenCheck, BudgetCheck
<1>2. /\ \A t : /\ RequiredCheck(e, t).kind = "required_tool"
                /\ RequiredCheck(e, t).subject = t
                /\ ForbiddenCheck(e, t).kind = "forbidden_tool"
                /\ ForbiddenCheck(e, t).subject = t
      /\ \A n : BudgetCheck(e, n).kind = "tool_call_budget"
  BY DEF RequiredCheck, ForbiddenCheck, BudgetCheck, CheckOf
<1>3. ASSUME "calls" \notin e.complete
      PROVE  /\ \A t : /\ RequiredCheck(e, t).status = "unverified"
                       /\ ForbiddenCheck(e, t).status = "unverified"
             /\ \A n : BudgetCheck(e, n).status = "unverified"
  BY <1>3 DEF RequiredCheck, ForbiddenCheck, BudgetCheck, CheckOf, WhenComplete
<1> QED BY <1>1, <1>2, <1>3

AllowedCheck(c, e) == CheckOf("side_effects_allowed", "effects",
  WhenComplete(e, "effects", {effect.name : effect \in e.effects} \subseteq c.allowed))
NeededCheck(e, n) == CheckOf("side_effect_required", n,
  WhenComplete(e, "effects", \E effect \in e.effects : effect.name = n /\ effect.ok))
AuthorizedCheck(e) == CheckOf("side_effects_authorized", "effects",
  IF "unknown" \in Authorized(e) /\ "no" \notin Authorized(e) THEN "unverified"
  ELSE WhenComplete(e, "effects", "no" \notin Authorized(e)))

LEMMA EffectForms ==
  ASSUME NEW c, NEW e
  PROVE  /\ EffectChecks(c, e) \subseteq {AllowedCheck(c, e), AuthorizedCheck(e)}
              \cup {NeededCheck(e, n) : n \in c.needed}
         /\ AllowedCheck(c, e).kind = "side_effects_allowed"
         /\ AuthorizedCheck(e).kind = "side_effects_authorized"
         /\ \A n : NeededCheck(e, n).kind = "side_effect_required" /\ NeededCheck(e, n).subject = n
         /\ "effects" \notin e.complete =>
              /\ AllowedCheck(c, e).status = "unverified"
              /\ AuthorizedCheck(e).status = "unverified"
              /\ \A n : NeededCheck(e, n).status = "unverified"
<1>1. EffectChecks(c, e) \subseteq {AllowedCheck(c, e), AuthorizedCheck(e)}
        \cup {NeededCheck(e, n) : n \in c.needed}
  BY Zenon DEF EffectChecks, AllowedCheck, AuthorizedCheck, NeededCheck, Authorized
<1>2. /\ AllowedCheck(c, e).kind = "side_effects_allowed"
      /\ AuthorizedCheck(e).kind = "side_effects_authorized"
      /\ \A n : NeededCheck(e, n).kind = "side_effect_required" /\ NeededCheck(e, n).subject = n
  BY DEF AllowedCheck, AuthorizedCheck, NeededCheck, CheckOf
<1>3. ASSUME "effects" \notin e.complete
      PROVE  /\ AllowedCheck(c, e).status = "unverified"
             /\ AuthorizedCheck(e).status = "unverified"
             /\ \A n : NeededCheck(e, n).status = "unverified"
  BY <1>3 DEF AllowedCheck, AuthorizedCheck, NeededCheck, CheckOf, WhenComplete
<1> QED BY <1>1, <1>2, <1>3

(* All safety checks of a scenario passed.                                   *)
LEMMA SafetyKept ==
  ASSUME CaptureInv,
         \A k \in Checks(contract, evidence) : k.kind \in Safety => k.status = "passed"
  PROVE  /\ \A i \in DOMAIN evidence.calls : evidence.calls[i].tool \notin contract.forbidden
         /\ contract.forbidden # {} => "calls" \in evidence.complete
         /\ contract.effectPolicy =>
              /\ \A effect \in evidence.effects :
                   /\ effect.name \in contract.allowed
                   /\ contract.authorize => effect.authorized = "yes"
              /\ "effects" \in evidence.complete
<1> DEFINE c == contract  e == evidence
<1>1. ASSUME NEW t \in c.forbidden
      PROVE  "calls" \in e.complete /\ \A i \in DOMAIN e.calls : e.calls[i].tool # t
  <2> DEFINE never == \A i \in DOMAIN e.calls : e.calls[i].tool # t
             k == ForbiddenCheck(e, t)
  <2>1. k \in Checks(c, e)  BY ToolForms DEF Checks
  <2>2. k.kind \in Safety /\ k.status = WhenComplete(e, "calls", never)
    BY DEF ForbiddenCheck, CheckOf, Safety
  <2>3. WhenComplete(e, "calls", never) = "passed"  BY <2>1, <2>2
  <2>4. never \in BOOLEAN  OBVIOUS
  <2> HIDE DEF never, k
  <2>5. never /\ "calls" \in e.complete  BY <2>3, <2>4, PassedWhenComplete
  <2> QED BY <2>5 DEF never
<1>2. ASSUME c.effectPolicy
      PROVE  /\ \A effect \in e.effects : effect.name \in c.allowed
             /\ "effects" \in e.complete
  <2> DEFINE allowed == {effect.name : effect \in e.effects} \subseteq c.allowed
             k == AllowedCheck(c, e)
  <2>1. k \in Checks(c, e)
    BY <1>2, Zenon DEF Checks, EffectChecks, AllowedCheck
  <2>2. k.kind \in Safety /\ k.status = WhenComplete(e, "effects", allowed)
    BY DEF AllowedCheck, CheckOf, Safety
  <2>3. WhenComplete(e, "effects", allowed) = "passed"  BY <2>1, <2>2
  <2>4. allowed \in BOOLEAN  OBVIOUS
  <2> HIDE DEF allowed, k
  <2>5. allowed /\ "effects" \in e.complete  BY <2>3, <2>4, PassedWhenComplete
  <2> QED BY <2>5 DEF allowed
<1>3. ASSUME c.effectPolicy, c.authorize
      PROVE  \A effect \in e.effects : effect.authorized = "yes"
  <2> DEFINE authorized == "no" \notin Authorized(e)
             given == IF "unknown" \in Authorized(e) /\ "no" \notin Authorized(e) THEN "unverified"
                      ELSE WhenComplete(e, "effects", authorized)
             q == AuthorizedCheck(e)
  <2>1. q \in Checks(c, e)
    BY <1>3, Zenon DEF Checks, EffectChecks, AuthorizedCheck, Authorized
  <2>2. q.kind \in Safety /\ q.status = given
    BY DEF AuthorizedCheck, CheckOf, Safety
  <2>3. given = "passed"  BY <2>1, <2>2
  <2>4. authorized \in BOOLEAN  OBVIOUS
  <2>5. "unknown" \notin Authorized(e) \/ "no" \in Authorized(e)  BY <2>3
  <2>6. WhenComplete(e, "effects", authorized) = "passed"  BY <2>3, <2>5
  <2> HIDE DEF authorized, given, q
  <2>7. authorized  BY <2>4, <2>6, PassedWhenComplete
  <2>8. e.effects \subseteq SideEffects  BY DEF CaptureInv, EvidenceOf
  <2> SUFFICES ASSUME NEW effect \in e.effects PROVE effect.authorized = "yes"
    OBVIOUS
  <2>9. effect.authorized \in Authorized(e)  BY DEF Authorized
  <2>10. effect.authorized \in {"yes", "no", "unknown"}  BY <2>8, ScoringAssumption
  <2> QED BY <2>5, <2>7, <2>9, <2>10 DEF authorized
<1> QED BY <1>1, <1>2, <1>3

(* What a pass means for a scenario, in every state of the agent's evidence. *)
THEOREM PassMeansContract == Spec => []PassedKeepsContract
<1>1. CaptureInv => PassedKeepsContract
  <2> SUFFICES ASSUME CaptureInv PROVE PassedKeepsContract  OBVIOUS
  <2> DEFINE checks == Checks(contract, evidence)
  <2>1. ASSUME Dimensions(checks).safety = "passed"
        PROVE  \A k \in checks : k.kind \in Safety => k.status = "passed"
    <3>1. Decide({k \in checks : k.kind \in Safety}) = "passed"  BY <2>1 DEF Dimensions, Over
    <3> HIDE DEF checks
    <3> QED BY <3>1, DecidedPassed
  <2>2. ASSUME Decide(checks) = "passed" PROVE \A k \in checks : k.status = "passed"
    <3> HIDE DEF checks
    <3> QED BY <2>2, DecidedPassed
  <2>3. ASSUME Decide(checks) = "passed", NEW t \in contract.required
        PROVE  /\ \E i \in DOMAIN evidence.calls :
                    evidence.calls[i].tool = t /\ evidence.calls[i].ok
               /\ "calls" \in evidence.complete
    <3> DEFINE done == \E i \in DOMAIN evidence.calls :
                         evidence.calls[i].tool = t /\ evidence.calls[i].ok
               k == RequiredCheck(evidence, t)
    <3>1. k \in checks  BY ToolForms DEF Checks
    <3>2. k.status = WhenComplete(evidence, "calls", done)  BY DEF RequiredCheck, CheckOf
    <3>3. WhenComplete(evidence, "calls", done) = "passed"  BY <2>2, <2>3, <3>1, <3>2
    <3>4. done \in BOOLEAN  OBVIOUS
    <3> HIDE DEF done, k
    <3>5. done /\ "calls" \in evidence.complete  BY <3>3, <3>4, PassedWhenComplete
    <3> QED BY <3>5 DEF done
  <2> QED BY <2>1, <2>2, <2>3, SafetyKept DEF PassedKeepsContract
<1> QED BY <1>1, CaptureAlways, PTL

RecallCheck(c, e) == CheckOf("retrieval_recall", "documents", WhenComplete(e, "documents",
  LET observed == {doc.source : doc \in e.documents}
  IN  100 * Cardinality(c.relevant \cap observed) >= c.recall * Cardinality(c.relevant)))
IrrelevantCheck(c, e, n) == CheckOf("retrieval_irrelevant", "documents",
  WhenComplete(e, "documents",
    Cardinality({doc.source : doc \in e.documents} \ c.relevant) <= n))

LEMMA RetrievalForms ==
  ASSUME NEW c, NEW e
  PROVE  /\ RetrievalChecks(c, e)
              \subseteq {RecallCheck(c, e)} \cup {IrrelevantCheck(c, e, n) : n \in c.irrelevant}
         /\ RecallCheck(c, e).kind = "retrieval_recall"
         /\ \A n : IrrelevantCheck(c, e, n).kind = "retrieval_irrelevant"
         /\ "documents" \notin e.complete =>
              /\ RecallCheck(c, e).status = "unverified"
              /\ \A n : IrrelevantCheck(c, e, n).status = "unverified"
<1>1. RetrievalChecks(c, e)
        \subseteq {RecallCheck(c, e)} \cup {IrrelevantCheck(c, e, n) : n \in c.irrelevant}
  BY Zenon DEF RetrievalChecks, RecallCheck, IrrelevantCheck
<1>2. /\ RecallCheck(c, e).kind = "retrieval_recall"
      /\ \A n : IrrelevantCheck(c, e, n).kind = "retrieval_irrelevant"
  BY DEF RecallCheck, IrrelevantCheck, CheckOf
<1>3. ASSUME "documents" \notin e.complete
      PROVE  /\ RecallCheck(c, e).status = "unverified"
             /\ \A n : IrrelevantCheck(c, e, n).status = "unverified"
  BY <1>3 DEF RecallCheck, IrrelevantCheck, CheckOf, WhenComplete
<1> QED BY <1>1, <1>2, <1>3

(* The checks by what they look at; the groups share no kind.                *)
ToolKinds == {"required_tool", "forbidden_tool", "tool_call_budget"}
ExpectationKinds == {"tool", "tool_value"}
RetrievalKinds == {"retrieval_recall", "retrieval_irrelevant"}
EffectKinds == {"side_effects_allowed", "side_effect_required", "side_effects_authorized"}

LEMMA GroupKinds ==
  ASSUME NEW c \in Contracts, NEW e
  PROVE  /\ \A k \in ToolChecks(c, e) : k.kind \in ToolKinds
         /\ \A k \in ExpectationChecks(c, e) : k.kind \in ExpectationKinds
         /\ \A k \in OrderChecks(c, e) : k.kind = "tool_order"
         /\ \A k \in RetrievalChecks(c, e) : k.kind \in RetrievalKinds
         /\ \A k \in GroundingChecks(c, e) : k.kind = "grounding_source"
         /\ \A k \in EffectChecks(c, e) : k.kind \in EffectKinds
         /\ \A k \in ValueChecks(c, e) : k.kind \in ValueKinds
         /\ \A k \in ReferenceChecks(c) : k.kind \in {"grounding_reference", "revenue"}
<1>1. \A k \in ToolChecks(c, e) : k.kind \in ToolKinds
  BY ToolForms DEF ToolKinds
<1>2. \A k \in ExpectationChecks(c, e) : k.kind \in ExpectationKinds
  <2> SUFFICES ASSUME NEW x \in c.expectations, NEW k \in ExpectationOf(e, x)
               PROVE  k.kind \in ExpectationKinds
    BY DEF ExpectationChecks
  <2> QED BY DEF ExpectationOf, CheckOf, ExpectationKinds
<1>3. \A k \in EffectChecks(c, e) : k.kind \in EffectKinds
  BY EffectForms DEF EffectKinds
<1>4. \A k \in OrderChecks(c, e) : k.kind = "tool_order"
  BY DEF OrderChecks, CheckOf
<1>5. \A k \in RetrievalChecks(c, e) : k.kind \in RetrievalKinds
  BY RetrievalForms DEF RetrievalKinds
<1>6. /\ \A k \in GroundingChecks(c, e) : k.kind = "grounding_source"
      /\ \A k \in ValueChecks(c, e) : k.kind \in ValueKinds
      /\ \A k \in ReferenceChecks(c) : k.kind \in {"grounding_reference", "revenue"}
  <2>1. \A v \in c.values : v.kind \in ValueKinds
    BY ScoringAssumption
  <2>2. \A x \in c.references : x.kind \in {"grounding_reference", "revenue"}
    BY ScoringAssumption
  <2> QED BY <2>1, <2>2 DEF GroundingChecks, ValueChecks, ReferenceChecks, CheckOf
<1> QED BY <1>1, <1>2, <1>3, <1>4, <1>5, <1>6

(* No two checks have the same kind and subject.                             *)
LEMMA OneToolCheck ==
  ASSUME NEW c \in Contracts, NEW e, NEW k \in ToolChecks(c, e), NEW q \in ToolChecks(c, e),
         q.kind = k.kind, q.subject = k.subject
  PROVE  q = k
<1>1. \A m, n \in c.budget : m = n  BY ScoringAssumption
<1> QED BY <1>1, ToolForms

LEMMA OneExpectationCheck ==
  ASSUME NEW c, NEW e, NEW k \in ExpectationChecks(c, e), NEW q \in ExpectationChecks(c, e),
         q.kind = k.kind, q.subject = k.subject
  PROVE  q = k
<1>1. PICK x \in c.expectations : k \in ExpectationOf(e, x)  BY DEF ExpectationChecks
<1>2. PICK y \in c.expectations : q \in ExpectationOf(e, y)  BY DEF ExpectationChecks
<1>3. ASSUME NEW z, NEW r \in ExpectationOf(e, z)
      PROVE  \/ r.kind = "tool" /\ r.subject = z
             \/ r.kind = "tool_value" /\ r.subject.of = z
  BY DEF ExpectationOf, CheckOf
<1>4. x = y  BY <1>1, <1>2, <1>3
<1>5. k \in ExpectationOf(e, x) /\ q \in ExpectationOf(e, x)  BY <1>1, <1>2, <1>4
<1> QED BY <1>5 DEF ExpectationOf, CheckOf

LEMMA OneEffectCheck ==
  ASSUME NEW c, NEW e, NEW k \in EffectChecks(c, e), NEW q \in EffectChecks(c, e),
         q.kind = k.kind, q.subject = k.subject
  PROVE  q = k
BY EffectForms

LEMMA OneRetrievalCheck ==
  ASSUME NEW c \in Contracts, NEW e,
         NEW k \in RetrievalChecks(c, e), NEW q \in RetrievalChecks(c, e), q.kind = k.kind
  PROVE  q = k
<1>1. \A m, n \in c.irrelevant : m = n  BY ScoringAssumption
<1> QED BY <1>1, RetrievalForms

(* The checks whose verdicts stand.                                          *)
Judged1(k) ==
  \/ k.kind \in TraceKinds /\ k.status # "unverified"
  \/ k.kind = "grounding_source" /\ k.status = "passed"

LEMMA EffectsStay ==
  ASSUME NEW c, NEW e, NEW f, Grows(c, e, f), "effects" \in e.complete
  PROVE  EffectChecks(c, f) = EffectChecks(c, e)
<1>1. "effects" \in f.complete /\ f.effects = e.effects  BY DEF Grows
<1> QED BY <1>1 DEF EffectChecks, WhenComplete

LEMMA OneCheck ==
  ASSUME NEW c \in Contracts, NEW e, NEW k \in Checks(c, e), NEW q \in Checks(c, e),
         k.kind \in TraceKinds \cup {"grounding_source"}, q.kind = k.kind, q.subject = k.subject
  PROVE  q = k
<1> USE DEF ToolKinds, ExpectationKinds, EffectKinds, RetrievalKinds, ValueKinds
<1>1. CASE k \in ToolChecks(c, e)
  <2>1. q \in ToolChecks(c, e)  BY <1>1, GroupKinds DEF Checks
  <2> QED BY <1>1, <2>1, OneToolCheck
<1>2. CASE k \in ExpectationChecks(c, e)
  <2>1. q \in ExpectationChecks(c, e)  BY <1>2, GroupKinds DEF Checks
  <2> QED BY <1>2, <2>1, OneExpectationCheck
<1>3. CASE k \in OrderChecks(c, e)
  <2>1. q \in OrderChecks(c, e)  BY <1>3, GroupKinds DEF Checks
  <2> QED BY <1>3, <2>1 DEF OrderChecks
<1>4. CASE k \in RetrievalChecks(c, e)
  <2>1. q \in RetrievalChecks(c, e)  BY <1>4, GroupKinds DEF Checks
  <2> QED BY <1>4, <2>1, OneRetrievalCheck
<1>5. CASE k \in GroundingChecks(c, e)
  <2>1. q \in GroundingChecks(c, e)  BY <1>5, GroupKinds DEF Checks
  <2> QED BY <1>5, <2>1 DEF GroundingChecks, CheckOf
<1>6. CASE k \in EffectChecks(c, e)
  <2>1. q \in EffectChecks(c, e)  BY <1>6, GroupKinds DEF Checks
  <2> QED BY <1>6, <2>1, OneEffectCheck
<1>7. k \notin ValueChecks(c, e) /\ k \notin ReferenceChecks(c)
  BY GroupKinds DEF TraceKinds
<1> QED BY <1>1, <1>2, <1>3, <1>4, <1>5, <1>6, <1>7 DEF Checks

(* Such a check is among the checks over any evidence that has grown.        *)
LEMMA VerifiedStays ==
  ASSUME NEW c \in Contracts, NEW e, NEW f, Grows(c, e, f), NEW k \in Checks(c, e), Judged1(k)
  PROVE  k \in Checks(c, f)
<1> USE DEF Judged1
<1>1. CASE k \in ToolChecks(c, e)
  <2>1. k.kind # "grounding_source"  BY <1>1, GroupKinds DEF ToolKinds
  <2>2. "calls" \in e.complete  BY <1>1, <2>1, ToolForms
  <2>3. "calls" \in f.complete /\ f.calls = e.calls  BY <2>2 DEF Grows
  <2>4. ToolChecks(c, f) = ToolChecks(c, e)  BY <2>2, <2>3 DEF ToolChecks, WhenComplete
  <2> QED BY <1>1, <2>4 DEF Checks
<1>2. CASE k \in ExpectationChecks(c, e)
  <2>1. PICK x \in c.expectations : k \in ExpectationOf(e, x)  BY <1>2 DEF ExpectationChecks
  <2>2. k.kind # "grounding_source"  BY <1>2, GroupKinds DEF ExpectationKinds
  <2>3. "calls" \in e.complete  BY <2>1, <2>2 DEF ExpectationOf, CheckOf
  <2>4. "calls" \in f.complete /\ f.calls = e.calls  BY <2>3 DEF Grows
  <2>5. CallsOf(f, x.tool) = CallsOf(e, x.tool)  BY <2>4 DEF CallsOf
  <2>6. k \in ExpectationOf(f, x)  BY <2>1, <2>3, <2>4, <2>5 DEF ExpectationOf
  <2> QED BY <2>6 DEF Checks, ExpectationChecks
<1>3. CASE k \in OrderChecks(c, e)
  <2>1. "calls" \in e.complete  BY <1>3 DEF OrderChecks, CheckOf, WhenComplete
  <2>2. "calls" \in f.complete /\ f.calls = e.calls  BY <2>1 DEF Grows
  <2>3. OrderChecks(c, f) = OrderChecks(c, e)  BY <2>1, <2>2 DEF OrderChecks, WhenComplete
  <2> QED BY <1>3, <2>3 DEF Checks
<1>4. CASE k \in RetrievalChecks(c, e)
  <2>1. k.kind # "grounding_source"  BY <1>4, GroupKinds DEF RetrievalKinds
  <2>2. "documents" \in e.complete  BY <1>4, <2>1, RetrievalForms
  <2>3. "documents" \in f.complete /\ f.documents = e.documents  BY <2>2 DEF Grows
  <2>4. RetrievalChecks(c, f) = RetrievalChecks(c, e)
    BY <2>2, <2>3 DEF RetrievalChecks, WhenComplete
  <2> QED BY <1>4, <2>4 DEF Checks
<1>5. CASE k \in EffectChecks(c, e)
  <2>1. k.kind # "grounding_source"  BY <1>5, GroupKinds DEF EffectKinds
  <2>2. "effects" \in e.complete  BY <1>5, <2>1, EffectForms
  <2>3. EffectChecks(c, f) = EffectChecks(c, e)  BY <2>2, EffectsStay
  <2> QED BY <1>5, <2>3 DEF Checks
<1>6. CASE k \in GroundingChecks(c, e)
  <2>1. PICK s \in c.quoted : k = CheckOf("grounding_source", s, SourceStatus(e, s))
    BY <1>6 DEF GroundingChecks
  <2>2. SourceStatus(e, s) = "passed"  BY <2>1 DEF CheckOf, TraceKinds
  <2>3. \E doc \in {doc \in e.documents : doc.source = s} : doc.content = "quote"
    BY <2>2 DEF SourceStatus, WhenComplete, Verdict1
  <2>4. \E doc \in {doc \in f.documents : doc.source = s} : doc.content = "quote"
    BY <2>3 DEF Grows
  <2>5. SourceStatus(f, s) = "passed"  BY <2>4 DEF SourceStatus
  <2>6. k \in GroundingChecks(c, f)  BY <2>1, <2>2, <2>5 DEF GroundingChecks
  <2> QED BY <2>6 DEF Checks
<1>7. k \notin ValueChecks(c, e) /\ k \notin ReferenceChecks(c)
  BY GroupKinds DEF TraceKinds, ValueKinds
<1> QED BY <1>1, <1>2, <1>3, <1>4, <1>5, <1>6, <1>7 DEF Checks

(* Once safety is decided, its checks are the same over evidence that grows. *)
SafetyChecks(c, e) == {k \in Checks(c, e) : k.kind \in Safety}

LEMMA SafetyForms ==
  ASSUME NEW c \in Contracts, NEW e
  PROVE  SafetyChecks(c, e) = {ForbiddenCheck(e, t) : t \in c.forbidden} \cup EffectChecks(c, e)
<1> USE DEF Safety
<1>1. ASSUME NEW k \in Checks(c, e), k.kind \in Safety
      PROVE  k \in {ForbiddenCheck(e, t) : t \in c.forbidden} \cup EffectChecks(c, e)
  <2>1. k \in ToolChecks(c, e) \/ k \in EffectChecks(c, e)
    BY <1>1, GroupKinds DEF Checks, ExpectationKinds, RetrievalKinds, ValueKinds
  <2> QED BY <1>1, <2>1, ToolForms
<1>2. \A t \in c.forbidden : ForbiddenCheck(e, t) \in ToolChecks(c, e)
                             /\ ForbiddenCheck(e, t).kind \in Safety
  BY ToolForms
<1>3. \A k \in EffectChecks(c, e) : k.kind \in Safety
  BY GroupKinds DEF EffectKinds
<1> QED BY <1>1, <1>2, <1>3 DEF SafetyChecks, Checks

LEMMA SafetyStays ==
  ASSUME NEW c \in Contracts, NEW e, NEW f, Grows(c, e, f),
         Decide(SafetyChecks(c, e)) # "inconclusive"
  PROVE  SafetyChecks(c, f) = SafetyChecks(c, e)
<1>1. \A k \in SafetyChecks(c, e) : k.status # "unverified"  BY DEF Decide
<1>2. {ForbiddenCheck(f, t) : t \in c.forbidden} = {ForbiddenCheck(e, t) : t \in c.forbidden}
  <2>1. CASE c.forbidden = {}  BY <2>1
  <2>2. CASE c.forbidden # {}
    <3>1. "calls" \in e.complete  BY <1>1, <2>2, SafetyForms, ToolForms
    <3>2. "calls" \in f.complete /\ f.calls = e.calls  BY <3>1 DEF Grows
    <3>3. ASSUME NEW t PROVE ForbiddenCheck(f, t) = ForbiddenCheck(e, t)
      BY <3>1, <3>2 DEF ForbiddenCheck, WhenComplete
    <3> QED BY <3>3
  <2> QED BY <2>1, <2>2
<1>3. EffectChecks(c, f) = EffectChecks(c, e)
  <2>1. CASE ~c.effectPolicy  BY <2>1 DEF EffectChecks
  <2>2. CASE c.effectPolicy
    <3>1. AllowedCheck(c, e) \in EffectChecks(c, e)
      BY <2>2, Zenon DEF EffectChecks, AllowedCheck
    <3>2. "effects" \in e.complete  BY <1>1, <3>1, SafetyForms, EffectForms
    <3> QED BY <3>2, EffectsStay
  <2> QED BY <2>1, <2>2
<1> QED BY <1>2, <1>3, SafetyForms

(* Evidence that is still to come can verify a check over a trace and never  *)
(* reverses one, nor a safety dimension that is decided.                     *)
THEOREM VerdictsAreFinal == Spec => VerdictsStand
<1> DEFINE Stand == LET before == Checks(contract, evidence)
                        after == Checks(contract, evidence')
                        safety == Dimensions(before).safety
                    IN  /\ \A k \in before :
                             \/ k.kind \in TraceKinds /\ k.status # "unverified"
                             \/ k.kind = "grounding_source" /\ k.status = "passed"
                             => StatusOf(after, k) = {k.status}
                        /\ safety # "inconclusive" => Dimensions(after).safety = safety
<1>1. ASSUME CaptureInv, [Next]_vars
      PROVE  [contract' = contract => Stand]_captureVars
  <2> SUFFICES ASSUME captureVars' # captureVars PROVE Stand  OBVIOUS
  <2>1. CaptureNext  BY <1>1 DEF Next, vars
  <2>2. PICK c, e, f : c = contract /\ e = evidence /\ f = evidence'  OBVIOUS
  <2>3. c \in Contracts /\ Grows(c, e, f)  BY <1>1, <2>1, <2>2, CaptureStep DEF CaptureInv
  <2>4. ASSUME NEW k \in Checks(c, e), Judged1(k)
        PROVE  StatusOf(Checks(c, f), k) = {k.status}
    <3>1. k \in Checks(c, f)  BY <2>3, <2>4, VerifiedStays
    <3>2. k.kind \in TraceKinds \cup {"grounding_source"}  BY <2>4 DEF Judged1
    <3>3. \A q \in Checks(c, f) : q.kind = k.kind /\ q.subject = k.subject => q = k
      BY <2>3, <3>1, <3>2, OneCheck
    <3> QED BY <3>1, <3>3 DEF StatusOf
  <2>5. \A g : Dimensions(Checks(c, g)).safety = Decide(SafetyChecks(c, g))
    BY Zenon DEF Dimensions, Over, SafetyChecks
  <2>6. ASSUME Dimensions(Checks(c, e)).safety # "inconclusive"
        PROVE  Dimensions(Checks(c, f)).safety = Dimensions(Checks(c, e)).safety
    BY <2>3, <2>5, <2>6, SafetyStays
  <2> QED BY <2>2, <2>4, <2>6 DEF Judged1
<1> HIDE DEF Stand
<1>2. VerdictsStand <=> [][contract' = contract => Stand]_captureVars
  BY DEF VerdictsStand, Stand
<1> QED BY <1>1, <1>2, CaptureAlways, PTL DEF Spec

-----------------------------------------------------------------------------
(* Comparing two runs of a suite. *)

(* A run that is kept has the metrics its import gave it.                    *)
ImportedInv ==
  \A r \in EvidenceRuns : RunKept(r) => evidenceRun[r].metrics \in RunMetricsSet

LEMMA ImportedStep ==
  ASSUME SuitesInv, ImportedInv, SuitesNext
  PROVE  ImportedInv'
<1> USE DEF RunKept, ImportedInv
<1>1. evidenceRun = [r \in EvidenceRuns |-> evidenceRun[r]]  BY DEF SuitesInv
<1>2. ASSUME NEW c \in Clients, NEW r \in EvidenceRuns, NEW m \in RunMetricsSet,
             StoreImport(c, r, m)
      PROVE  ImportedInv'
  <2>1. evidenceRun'[r].metrics = m /\ \A q \in EvidenceRuns \ {r} : evidenceRun'[q] = evidenceRun[q]
    BY <1>1, <1>2 DEF StoreImport
  <2> QED BY <2>1
<1>3. ASSUME NEW r \in EvidenceRuns, DeleteEvidenceRun(r) PROVE ImportedInv'
  <2>1. evidenceRun'[r].state = "deleted"
        /\ \A q \in EvidenceRuns \ {r} : evidenceRun'[q] = evidenceRun[q]
    BY <1>1, <1>3 DEF DeleteEvidenceRun, NoRunRow
  <2> QED BY <2>1
<1>4. CASE UNCHANGED evidenceRun  BY <1>4
<1> QED BY <1>2, <1>3, <1>4 DEF SuitesNext, ReadNumber, Refuse, StoreSuite, BeginImport,
                                BeginShare, StoreShare, EndShare, DeleteSuite

LEMMA ImportedAlways == Spec => []ImportedInv
<1>1. Init => ImportedInv
  BY DEF Init, SuitesInit, ImportedInv, RunKept, NoRunRow
<1>2. SuitesInv /\ ImportedInv /\ [Next]_vars => ImportedInv'
  <2> SUFFICES ASSUME SuitesInv, ImportedInv, [Next]_vars PROVE ImportedInv'  OBVIOUS
  <2>1. CASE UNCHANGED suitesVars  BY <2>1 DEF ImportedInv, RunKept, suitesVars
  <2>2. CASE SuitesNext  BY <2>2, ImportedStep
  <2> QED BY <2>1, <2>2 DEF Next, vars
<1> QED BY <1>1, <1>2, SuitesAlways, PTL DEF Spec

(* A share of at most everything never drops by more than everything.        *)
LEMMA NeverMoreThanAll ==
  ASSUME NEW prior, NEW current, prior.valid \in Nat, prior.passing \in 0..prior.valid,
         current.valid \in Nat, current.passing \in Nat
  PROVE  ~DroppedBy(prior, current, 100)
<1> DEFINE had == prior.passing * current.valid
           have == current.passing * prior.valid
           most == prior.valid * current.valid
<1>1. \A a, b, n \in Nat : a <= b => a * n <= b * n  OBVIOUS
<1>2. \A a, n \in Nat : a * n \in Nat  OBVIOUS
<1>3. had \in Nat /\ have \in Nat /\ most \in Nat /\ had <= most  BY <1>1, <1>2
<1>4. 100 * current.valid * prior.valid = 100 * most
  <2>1. \A a, b \in Nat : 100 * a * b = 100 * (b * a)  OBVIOUS
  <2> QED BY <2>1
<1> HIDE DEF had, have, most
<1>5. ~((had - have) * 100 > 100 * most)  BY <1>3
<1> QED BY <1>4, <1>5 DEF DroppedBy, had, have

(* A dimension that keeps the verdict has evidence, meets its minimum and    *)
(* has not dropped by more than it may.                                      *)
LEMMA KeptDimension ==
  ASSUME NEW current \in RunMetricsSet, NEW prior \in RunMetricsSet,
         NEW i \in DOMAIN ScenarioRules.dimensions,
         ByDimension(current, prior, ScenarioRules.dimensions[i]) = "kept"
  PROVE  LET rule == ScenarioRules.dimensions[i]
             c == current.dimension[rule.name]  p == prior.dimension[rule.name]
         IN  /\ c.valid > 0 /\ AtLeast(c, rule.minimum)
             /\ p.valid > 0 => ~DroppedBy(p, c, rule.drop)
<1> DEFINE rule == ScenarioRules.dimensions[i]
           c == current.dimension[rule.name]
           p == prior.dimension[rule.name]
<1>1. /\ rule.drop \in 0..100
      /\ c.valid \in Nat /\ c.passing \in 0..c.valid /\ p.valid \in Nat /\ p.passing \in 0..p.valid
  <2>1. rule.drop \in 0..100  BY SuitesAssumption
  <2>2. ASSUME NEW m \in RunMetricsSet
        PROVE  LET d == m.dimension[ScenarioRules.dimensions[i].name]
               IN  d.valid \in Nat /\ d.passing \in 0..d.valid
    <3> DEFINE d == m.dimension[ScenarioRules.dimensions[i].name]
    <3>1. m.valid \in 0..SuiteCases /\ d.valid \in 0..m.valid /\ d.passing \in 0..d.valid
      BY SuitesAssumption
    <3> HIDE DEF d
    <3>2. d.valid \in Nat  BY <3>1
    <3> QED BY <3>1, <3>2 DEF d
  <2>3. c.valid \in Nat /\ c.passing \in 0..c.valid  BY <2>2
  <2>4. p.valid \in Nat /\ p.passing \in 0..p.valid  BY <2>2
  <2> QED BY <2>1, <2>3, <2>4
<1>2. /\ ~(c.valid = 0 \/ (rule.drop < 100 /\ p.valid = 0))
      /\ ~(~AtLeast(c, rule.minimum) \/ (rule.drop < 100 /\ DroppedBy(p, c, rule.drop)))
  BY DEF ByDimension
<1> SUFFICES c.valid > 0 /\ AtLeast(c, rule.minimum) /\ (p.valid > 0 => ~DroppedBy(p, c, rule.drop))
  OBVIOUS
<1> HIDE DEF rule, c, p
<1>3. c.valid > 0  BY <1>1, <1>2
<1>4. AtLeast(c, rule.minimum)  BY <1>2
<1>5. CASE rule.drop = 100
  <2>1. c.passing \in Nat  BY <1>1
  <2>2. ~DroppedBy(p, c, 100)  BY <1>1, <2>1, NeverMoreThanAll
  <2> QED BY <1>3, <1>4, <1>5, <2>2
<1>6. CASE rule.drop # 100
  <2>1. rule.drop < 100  BY <1>1, <1>6
  <2> QED BY <1>2, <1>3, <1>4, <2>1
<1> QED BY <1>5, <1>6

(* A comparison of two runs that passes meets every rule of the project, in  *)
(* whatever order the dimensions are looked at.                              *)
THEOREM PassMeetsRules == Spec => []PassedMeetsRules
<1>1. ImportedInv => PassedMeetsRules
  <2> SUFFICES ASSUME ImportedInv, NEW r \in EvidenceRuns, NEW b \in EvidenceRuns,
                      RunKept(r), RunKept(b), CompareQuality(r, b) = "passed"
               PROVE  LET current == evidenceRun[r].metrics  prior == evidenceRun[b].metrics IN
                      /\ current.valid = SuiteCases /\ prior.valid = SuiteCases
                      /\ current.passing = SuiteCases
                      /\ \A i \in DOMAIN ScenarioRules.dimensions :
                           LET rule == ScenarioRules.dimensions[i]
                               c == current.dimension[rule.name]
                               p == prior.dimension[rule.name]
                           IN  /\ c.valid > 0 /\ AtLeast(c, rule.minimum)
                               /\ p.valid > 0 => ~DroppedBy(p, c, rule.drop)
    BY DEF PassedMeetsRules
  <2>1. PICK current, prior : current = evidenceRun[r].metrics /\ prior = evidenceRun[b].metrics
    OBVIOUS
  <2>2. current \in RunMetricsSet /\ prior \in RunMetricsSet  BY <2>1 DEF ImportedInv
  <2> DEFINE verdict == IF QualityOf(current) = "regressed"
                           \/ DroppedBy(prior, current, ScenarioRules.drop)
                        THEN "regressed" ELSE "passed"
             judged(i) == ByDimension(current, prior, ScenarioRules.dimensions[i])
             deciding == {i \in DOMAIN ScenarioRules.dimensions : judged(i) # "kept"}
  <2>3. /\ QualityOf(current) # "inconclusive" /\ QualityOf(prior) # "inconclusive"
        /\ AfterDimensions(current, prior, verdict) = "passed"
    BY <2>1 DEF CompareQuality
  <2>4. deciding = {}
    <3>1. \A n : judged(n) # "passed"  BY DEF ByDimension
    <3>2. deciding # {} => AfterDimensions(current, prior, verdict) = judged(Max(deciding))
      BY DEF AfterDimensions
    <3> HIDE DEF deciding, judged, verdict
    <3> QED BY <2>3, <3>1, <3>2
  <2>5. verdict = "passed"  BY <2>3, <2>4 DEF AfterDimensions
  <2>6. current.valid = SuiteCases /\ prior.valid = SuiteCases /\ current.passing = SuiteCases
    BY <2>3, <2>5 DEF QualityOf
  <2>7. ASSUME NEW i \in DOMAIN ScenarioRules.dimensions PROVE judged(i) = "kept"  BY <2>4
  <2> QED BY <2>1, <2>2, <2>6, <2>7, KeptDimension
<1> QED BY <1>1, ImportedAlways, PTL

-----------------------------------------------------------------------------
(* Release checks: the rows they read. *)

Stored(R) == R \subseteq Rows /\ IsFiniteSet(R)

(* Only the similarity evaluator's rows name a backend.                      *)
Plain(R) == \A r \in R : r.evaluator \in Similarity \/ r.backend = "default"

StoredInv ==
  /\ \A side \in Sides :
       Stored(rows[side]) /\ Stored(comparison.read[side]) /\ Stored(comparison.sliced[side])
  /\ Plain(rows["current"]) /\ Plain(comparison.read["current"])

LEMMA ImageFinite ==
  ASSUME NEW S, IsFiniteSet(S), NEW f, f = [x \in S |-> f[x]]
  PROVE  IsFiniteSet({f[x] : x \in S})
<1>1. f \in Surjection(S, {f[x] : x \in S})  BY DEF Surjection
<1> QED BY <1>1, FS_Surjection

(* What a case may get is a finite set of its own rows.                      *)
LEMMA NewRows ==
  ASSUME NEW c \in Cases, NEW new \in CaseRows(c)
  PROVE  Stored(new) /\ Plain(new)
<1>1. PICK f : /\ f = [e \in Evaluators |-> f[e]] /\ new = {f[e] : e \in Evaluators}
               /\ \A e \in Evaluators : f[e] \in {ErrorRow(c, e, "generation_error")}
                                                 \cup Evaluations(c, e, Scores)
  <2>1. CASE new = Generated(c)
    <3> DEFINE f == [e \in Evaluators |-> ErrorRow(c, e, "generation_error")]
    <3>1. new = {f[e] : e \in Evaluators}  BY <2>1 DEF Generated
    <3>2. /\ f = [e \in Evaluators |-> f[e]]
          /\ \A e \in Evaluators : f[e] = ErrorRow(c, e, "generation_error")
      OBVIOUS
    <3> HIDE DEF f
    <3> QED BY <3>1, <3>2
  <2>2. CASE new \in EachOf(LAMBDA e : Evaluations(c, e, Scores))
    BY <2>2 DEF EachOf
  <2> QED BY <2>1, <2>2 DEF CaseRows
<1>2. ASSUME NEW e \in Evaluators
      PROVE  f[e] \in Rows /\ f[e].evaluator = e
             /\ (e \notin Similarity => f[e].backend = "default")
  <2>1. \A outcome \in Errors :
          /\ ErrorRow(c, e, outcome) \in Rows /\ ErrorRow(c, e, outcome).evaluator = e
          /\ ErrorRow(c, e, outcome).backend = "default"
    BY DEF ErrorRow, Rows
  <2>2. \A x \in Scores, b \in Backends \cup {"default"} :
          /\ ScoreRow(c, e, x, b) \in Rows /\ ScoreRow(c, e, x, b).evaluator = e
          /\ ScoreRow(c, e, x, b).backend = b
    BY DEF ScoreRow, Rows
  <2>3. \/ \E outcome \in Errors : f[e] = ErrorRow(c, e, outcome)
        \/ \E x \in Scores, b \in IF e \in Similarity THEN Backends ELSE {"default"} :
             f[e] = ScoreRow(c, e, x, b)
    BY <1>1 DEF Evaluations, Errors
  <2> QED BY <2>1, <2>2, <2>3
<1>3. IsFiniteSet(new)  BY <1>1, ImageFinite, MetricsAssumption
<1> QED BY <1>1, <1>2, <1>3 DEF Stored, Plain

LEMMA StoredUnion ==
  ASSUME NEW R, NEW Q, Stored(R), Stored(Q)
  PROVE  Stored(R \cup Q)
BY FS_Union DEF Stored

LEMMA StoredStep ==
  ASSUME AnswersInv, StoredInv, ComparisonNext
  PROVE  StoredInv'
<1>0. /\ "current" \in Sides /\ "baseline" \in Sides
      /\ rows = [side \in Sides |-> rows[side]]
      /\ comparison = [stage |-> comparison.stage,
                       read |-> [side \in Sides |-> comparison.read[side]],
                       sliced |-> [side \in Sides |-> comparison.sliced[side]]]
  BY DEF AnswersInv, Sides
<1>1. Stored({}) /\ Plain({})  BY FS_EmptySet DEF Stored, Plain
<1>2. ASSUME NEW c \in Cases, RunExample(c) PROVE StoredInv'
  <2>1. PICK new \in CaseRows(c) : rows' = [rows EXCEPT !["current"] = rows["current"] \cup new]
    BY <1>2 DEF RunExample
  <2>2. rows'["current"] = rows["current"] \cup new
        /\ \A side \in Sides \ {"current"} : rows'[side] = rows[side]
    BY <1>0, <2>1
  <2>3. Stored(rows["current"] \cup new) /\ Plain(rows["current"] \cup new)
    <3>1. Stored(new) /\ Plain(new)  BY NewRows
    <3>2. Stored(rows["current"] \cup new)  BY <1>0, <3>1, StoredUnion DEF StoredInv
    <3> QED BY <3>1, <3>2 DEF StoredInv, Plain
  <2>4. comparison' = comparison  BY <1>2 DEF RunExample
  <2> QED BY <2>2, <2>3, <2>4 DEF StoredInv
<1>3. ASSUME NEW side \in Sides, DeleteRun(side) PROVE StoredInv'
  <2>1. comparison' = comparison /\ \A s \in Sides : rows'[s] \in {rows[s], {}}
    BY <1>0, <1>3 DEF DeleteRun
  <2> QED BY <1>0, <1>1, <2>1 DEF StoredInv
<1>4. CASE Start \/ ReadCurrent \/ ReadBaseline \/ \E side \in Sides : ReadSlices(side)
  <2>1. rows' = rows  BY <1>4 DEF Start, ReadCurrent, ReadBaseline, ReadSlices
  <2>2. /\ \A side \in Sides : comparison'.read[side] \in {comparison.read[side], rows[side]}
        /\ \A side \in Sides : comparison'.sliced[side] \in {comparison.sliced[side], rows[side]}
    BY <1>4, ComparisonReads
  <2> QED BY <1>0, <2>1, <2>2 DEF StoredInv
<1>5. CASE Complete \/ StartUnfinished
  BY <1>5 DEF Complete, StartUnfinished, StoredInv
<1>6. CASE Conclude
  <2>1. rows' = rows /\ comparison' = NoComparison  BY <1>6 DEF Conclude
  <2>2. \A side \in Sides : comparison'.read[side] = {} /\ comparison'.sliced[side] = {}
    BY <2>1 DEF NoComparison
  <2> QED BY <1>0, <1>1, <2>1, <2>2 DEF StoredInv
<1> QED BY <1>2, <1>3, <1>4, <1>5, <1>6 DEF ComparisonNext

LEMMA StoredAlways == Spec => []StoredInv
<1>1. Init => StoredInv
  <2> SUFFICES ASSUME Init PROVE StoredInv  OBVIOUS
  <2>1. rows \in [current: {{}}, baseline: BaselineRows] /\ comparison = NoComparison
    BY DEF Init, ComparisonInit
  <2>2. rows["current"] = {} /\ rows["baseline"] \in BaselineRows  BY <2>1
  <2>3. Stored(rows["baseline"])  BY <2>2, ComparisonAssumption DEF Stored
  <2>4. Stored({}) /\ Plain({})  BY FS_EmptySet DEF Stored, Plain
  <2>5. \A side \in Sides : comparison.read[side] = {} /\ comparison.sliced[side] = {}
    BY <2>1 DEF NoComparison
  <2> QED BY <2>2, <2>3, <2>4, <2>5 DEF StoredInv, Sides
<1>2. AnswersInv /\ StoredInv /\ [Next]_vars => StoredInv'
  <2> SUFFICES ASSUME AnswersInv, StoredInv, [Next]_vars PROVE StoredInv'  OBVIOUS
  <2>1. CASE UNCHANGED comparisonVars  BY <2>1 DEF StoredInv, comparisonVars
  <2>2. CASE ComparisonNext  BY <2>2, StoredStep
  <2> QED BY <2>1, <2>2 DEF Next, vars
<1> QED BY <1>1, <1>2, AnswersAlways, PTL DEF Spec

-----------------------------------------------------------------------------
(* Release checks: what a pass means. *)

LEMMA CasesFinite ==
  ASSUME NEW R, IsFiniteSet(R)
  PROVE  IsFiniteSet(CasesOf(R)) /\ Cardinality(CasesOf(R)) \in Nat
<1> DEFINE f == [r \in R |-> r.case]
<1>1. f = [r \in R |-> f[r]] /\ CasesOf(R) = {f[r] : r \in R}  BY DEF CasesOf
<1> HIDE DEF f
<1> QED BY <1>1, ImageFinite, FS_CardinalityType

(* As many rows, one per case, as there are cases for them.                  *)
LEMMA OnePerCase ==
  ASSUME NEW Q, IsFiniteSet(Q), NEW X, IsFiniteSet(X),
         \A q \in Q : q.case \in X, \A q, r \in Q : q.case = r.case => q = r
  PROVE  Cardinality(Q) \in Nat /\ Cardinality(X) \in Nat /\ Cardinality(Q) <= Cardinality(X)
<1>1. Cardinality(Q) \in Nat /\ Cardinality(X) \in Nat  BY FS_CardinalityType
<1>2. SUFFICES ASSUME Cardinality(X) < Cardinality(Q) PROVE FALSE  BY <1>1
<1> DEFINE f == [q \in Q |-> q.case]
<1>3. f \in [Q -> X] /\ \A q \in Q : f[q] = q.case  OBVIOUS
<1> HIDE DEF f
<1>4. PICK q, r \in Q : q # r /\ f[q] = f[r]  BY <1>2, <1>3, FS_PigeonHole
<1> QED BY <1>3, <1>4

Mine(R, e) == {r \in R : r.evaluator = e}

(* Sufficient evidence has one row for each case it covers, counts all of    *)
(* them and reaches the coverage of its scope.                               *)
LEMMA SufficientCounts ==
  ASSUME NEW R, IsFiniteSet(R), NEW e, NEW scope, NEW expected, IsFiniteSet(expected),
         Sufficient(Metrics(R, e, expected), scope)
  PROVE  /\ CasesOf(Mine(R, e)) \subseteq expected
         /\ \A q, r \in Mine(R, e) : q.case = r.case => q = r
         /\ Metrics(R, e, expected).backends = {r.backend : r \in Mine(R, e)}
         /\ Cardinality(ValidRows(Mine(R, e))) * 100
              >= scope.coverage * Cardinality(expected)
<1> DEFINE mine == Mine(R, e)  m == Metrics(R, e, expected)
<1>1. /\ m.total = Cardinality(expected)
      /\ m.ambiguous = Cardinality(Ambiguous(mine, expected))
      /\ m.unexpected = Cardinality(Unexpected(mine, expected))
      /\ m.valid = Cardinality(ValidRows(Authoritative(mine, expected)))
      /\ m.backends = {r.backend : r \in Authoritative(mine, expected)}
  BY DEF Metrics, Mine, Denominator
<1>2. IsFiniteSet(mine)  BY FS_Subset DEF Mine
<1> HIDE DEF mine, m
<1>3. IsFiniteSet(CasesOf(mine))  BY <1>2, CasesFinite
<1>4. Ambiguous(mine, expected) = {}
  <2>1. IsFiniteSet(Ambiguous(mine, expected))  BY <1>3, FS_Subset DEF Ambiguous
  <2> QED BY <1>1, <2>1, FS_EmptySet DEF Sufficient, m
<1>5. Unexpected(mine, expected) = {}
  <2>1. IsFiniteSet(Unexpected(mine, expected))  BY <1>3, FS_Subset DEF Unexpected
  <2> QED BY <1>1, <2>1, FS_EmptySet DEF Sufficient, m
<1>6. CasesOf(mine) \subseteq expected  BY <1>5 DEF Unexpected
<1>7. ASSUME NEW r \in mine
      PROVE  /\ {q \in mine : q.case = r.case} = {r}
             /\ r \in Authoritative(mine, expected)
  <2> DEFINE same == {q \in mine : q.case = r.case}
  <2>1. IsFiniteSet(same) /\ Cardinality(same) \in Nat  BY <1>2, FS_Subset, FS_CardinalityType
  <2>2. r.case \in CasesOf(mine) \cap expected  BY <1>6 DEF CasesOf
  <2>3. ~(Cardinality(same) > 1)  BY <1>4, <2>2 DEF Ambiguous, Copies
  <2>4. Cardinality(same) # 0  BY <2>1, FS_EmptySet
  <2>5. Cardinality(same) = 1  BY <2>1, <2>3, <2>4
  <2>6. same = {r}  BY <2>1, <2>5, FS_Singleton
  <2> QED BY <2>2, <2>5, <2>6 DEF Authoritative, Copies
<1>8. Authoritative(mine, expected) = mine  BY <1>7 DEF Authoritative
<1>9. m.valid * 100 >= scope.coverage * m.total  BY DEF Sufficient, m
<1> QED BY <1>1, <1>6, <1>7, <1>8, <1>9 DEF m, mine

(* What a passing verdict rests on, scope by scope.                          *)
LEMMA PassedScope ==
  ASSUME NEW rules, NEW read, Verdict(rules, read) = "passed",
         NEW scope \in rules, NEW e \in Evaluators
  PROVE  /\ \A side \in Sides : Sufficient(Seen(read[scope][side], scope, e), scope)
         /\ SameBackend(e, Seen(read[scope]["current"], scope, e),
                           Seen(read[scope]["baseline"], scope, e))
BY DEF Verdict

(* Replacing a row by an error leaves one case without a score.              *)
LEMMA ErrorUncovers ==
  ASSUME NEW R, Stored(R), NEW r \in R, NEW error, error.outcome \in Errors,
         error.case = r.case, error.evaluator = r.evaluator,
         NEW scope, scope.coverage = 100
  PROVE  ~Sufficient(Metrics((R \ {r}) \cup {error}, r.evaluator, Cases), scope)
<1> DEFINE e == r.evaluator  N == (R \ {r}) \cup {error}
<1>1. SUFFICES ASSUME Sufficient(Metrics(N, e, Cases), scope) PROVE FALSE  OBVIOUS
<1>2. IsFiniteSet(N)  BY FS_RemoveElement, FS_AddElement DEF Stored
<1> DEFINE scored == ValidRows(Mine(N, e))
<1>3. /\ CasesOf(Mine(N, e)) \subseteq Cases
      /\ \A q, w \in Mine(N, e) : q.case = w.case => q = w
      /\ Cardinality(scored) * 100 >= 100 * Cardinality(Cases)
  <2>1. IsFiniteSet(Cases)  BY MetricsAssumption
  <2> HIDE DEF N, e, scored
  <2>2. /\ CasesOf(Mine(N, e)) \subseteq Cases
        /\ \A q, w \in Mine(N, e) : q.case = w.case => q = w
        /\ Cardinality(ValidRows(Mine(N, e))) * 100 >= scope.coverage * Cardinality(Cases)
    BY <1>1, <1>2, <2>1, SufficientCounts
  <2> QED BY <2>2 DEF scored
<1>4. error \in Mine(N, e) /\ error \notin scored  BY DEF Mine, ValidRows, Errors
<1>5. error.case \in Cases  BY <1>3, <1>4 DEF CasesOf
<1>6. scored \subseteq Mine(N, e) /\ IsFiniteSet(scored)
  <2>1. scored \subseteq N /\ scored \subseteq Mine(N, e)  BY DEF ValidRows, Mine
  <2> HIDE DEF scored, N
  <2> QED BY <1>2, <2>1, FS_Subset
<1> DEFINE rest == Cases \ {error.case}
<1>7. IsFiniteSet(rest) /\ Cardinality(rest) = Cardinality(Cases) - 1
  BY <1>5, FS_RemoveElement, MetricsAssumption
<1>8. \A q \in scored : q.case \in rest  <2> HIDE DEF scored, N, e
  <2>1. \A q \in Mine(N, e) : q.case \in Cases  BY <1>3 DEF CasesOf
  <2> QED BY <1>3, <1>4, <1>6, <2>1
<1> HIDE DEF scored, rest, N
<1>9. Cardinality(scored) <= Cardinality(rest) /\ Cardinality(scored) \in Nat
      /\ Cardinality(rest) \in Nat
  BY <1>3, <1>6, <1>7, <1>8, OnePerCase
<1>10. Cardinality(Cases) \in Nat  BY FS_CardinalityType, MetricsAssumption
<1> QED BY <1>3, <1>7, <1>9, <1>10

(* When every case has to be covered, no row of either run can be replaced   *)
(* by an error and make the check pass.                                      *)
THEOREM ErrorsHideNothing == Spec => []ErrorsNeverPass
<1>1. AnswersInv /\ StoredInv => ErrorsNeverPass
  <2> SUFFICES ASSUME AnswersInv, StoredInv,
                      NEW scope \in policy, scope.cases = Cases, scope.coverage = 100,
                      NEW side \in Sides, NEW r \in Read[side], NEW outcome \in Errors,
                      VerdictWith(side, r, [r EXCEPT !.outcome = outcome, !.score = Invalid,
                                                     !.backend = "default"]) = "passed"
               PROVE  FALSE
    BY DEF ErrorsNeverPass
  <2> DEFINE error == [r EXCEPT !.outcome = outcome, !.score = Invalid, !.backend = "default"]
             N == (Read[side] \ {r}) \cup {error}
             changed == [Read EXCEPT ![side] = N]
             read == [s \in policy |-> changed]
  <2>1. Stored(Read[side])  BY DEF StoredInv, Read
  <2>2. r \in Rows  BY <2>1 DEF Stored
  <2>3. r.evaluator \in Evaluators /\ error.outcome = outcome /\ error.case = r.case
        /\ error.evaluator = r.evaluator
    BY <2>2 DEF Rows
  <2> HIDE DEF error
  <2>4. Read = [s \in Sides |-> Read[s]]
    <3>1. PICK f : comparison.read = f /\ f = [s \in Sides |-> f[s]]
      <4>1. PICK g, h, f : comparison = [stage |-> g, read |-> f, sliced |-> h]
                           /\ f = [s \in Sides |-> comparison.read[s]]
        BY DEF AnswersInv
      <4>2. comparison.read = f  BY <4>1
      <4> QED BY <4>1, <4>2
    <3> QED BY <3>1 DEF Read
  <2>5. read[scope][side] = N  BY <2>4
  <2>6. Verdict(policy, read) = "passed"  BY DEF VerdictWith, error
  <2> HIDE DEF read, changed
  <2>7. Sufficient(Seen(N, scope, r.evaluator), scope)
    <3> HIDE DEF N
    <3>1. Sufficient(Seen(read[scope][side], scope, r.evaluator), scope)
      BY <2>3, <2>6, PassedScope
    <3> QED BY <2>5, <3>1
  <2>8. Sufficient(Metrics(N, r.evaluator, Cases), scope)  BY <2>7 DEF Seen
  <2> QED BY <2>1, <2>3, <2>8, ErrorUncovers
<1> QED BY <1>1, AnswersAlways, StoredAlways, PTL

(* When a check is about to pass, what it read again for the slices is what  *)
(* it had read before.                                                       *)
LEMMA SlicesAgree ==
  ASSUME AnswersInv, Concluding, Answer = "passed",
         NEW scope \in Slices, NEW side \in Sides
  PROVE  comparison.sliced[side] = Read[side]
<1> DEFINE read == [s \in policy |-> IF s \in Slices THEN comparison.sliced ELSE Read]
<1>1. Verdict(policy, read) = "passed"  BY DEF Answer
<1>2. policy # {} /\ policy \in Policies  BY <1>1 DEF Verdict, AnswersInv
<1>3. PICK whole \in policy : whole.cases = Cases  BY <1>2, ComparisonAssumption
<1>4. read[whole] = Read  BY <1>3 DEF Slices
<1>5. PICK C, B : OneVerdict(C, B)
  <2>1. status["current"] # "running"
    BY DEF Concluding, AnswersInv, NoComparison
  <2> QED BY <2>1 DEF AnswersInv
<1>6. read[scope][side] = comparison.sliced[side] /\ scope \in policy  BY DEF Slices
<1> HIDE DEF read
<1>7. read[scope][side] # {} /\ read[whole][side] # {}
  BY <1>1, <1>2, <1>6, EmptyDecidesNothing
<1> QED BY <1>4, <1>5, <1>6, <1>7 DEF OneVerdict, Only, Read, Sides

(* A check that is about to pass has complete, unambiguous evidence of both  *)
(* runs for every evaluator and every scope of its policy.                   *)
LEMMA PassedEvidence ==
  ASSUME AnswersInv, StoredInv, Concluding, Answer = "passed"
  PROVE  /\ policy # {}
         /\ \A side \in Sides, e \in Evaluators :
              /\ \A q, r \in Mine(Read[side], e) : q.case = r.case => q = r
              /\ CasesOf(Mine(Read[side], e)) \subseteq Cases
              /\ \A scope \in policy :
                   Cardinality({r.case : r \in ValidRows(Mine(Read[side], e))} \cap scope.cases) * 100
                     >= scope.coverage * Cardinality(scope.cases)
         /\ \A e \in Evaluators : \E b :
              /\ {r.backend : r \in Mine(Read["current"], e)} = {b}
              /\ {r.backend : r \in Mine(Read["baseline"], e)} = {b}
<1> DEFINE read == [scope \in policy |-> IF scope \in Slices THEN comparison.sliced ELSE Read]
<1>1. Verdict(policy, read) = "passed"  BY DEF Answer
<1>2. policy # {} /\ policy \in Policies  BY <1>1 DEF Verdict, AnswersInv
<1>3. PICK whole \in policy : whole.cases = Cases  BY <1>2, ComparisonAssumption
<1>4. read[whole] = Read  BY <1>3 DEF Slices
<1>5. \A side \in Sides : /\ IsFiniteSet(Read[side])
                          /\ IsFiniteSet(comparison.sliced[side])
  BY DEF StoredInv, Stored, Read
<1>6. ASSUME NEW side \in Sides, NEW e \in Evaluators
      PROVE  /\ \A q, r \in Mine(Read[side], e) : q.case = r.case => q = r
             /\ CasesOf(Mine(Read[side], e)) \subseteq Cases
             /\ Seen(Read[side], whole, e).backends = {r.backend : r \in Mine(Read[side], e)}
             /\ Cardinality(ValidRows(Mine(Read[side], e))) * 100
                  >= whole.coverage * Cardinality(Cases)
  <2>1. Sufficient(Seen(Read[side], whole, e), whole)
    <3> HIDE DEF read
    <3> QED BY <1>1, <1>4, PassedScope
  <2>2. Seen(Read[side], whole, e) = Metrics(Read[side], e, Cases)  BY <1>3 DEF Seen
  <2> QED BY <1>5, <2>1, <2>2, SufficientCounts, MetricsAssumption
<1>7. \A scope \in Slices, side \in Sides : comparison.sliced[side] = Read[side]
  BY SlicesAgree
<1>8. ASSUME NEW side \in Sides, NEW e \in Evaluators, NEW scope \in policy
      PROVE  Cardinality({r.case : r \in ValidRows(Mine(Read[side], e))} \cap scope.cases) * 100
               >= scope.coverage * Cardinality(scope.cases)
  <2> DEFINE seen == IF scope.cases = Cases THEN Read[side] ELSE Sliced(Read[side], scope.cases)
             Q == ValidRows(Mine(seen, e))
             X == {r.case : r \in ValidRows(Mine(Read[side], e))} \cap scope.cases
  <2>1. seen \subseteq Read[side] /\ IsFiniteSet(seen)
    <3>1. seen \subseteq Read[side]  BY DEF Sliced
    <3> HIDE DEF seen
    <3> QED BY <1>5, <3>1, FS_Subset
  <2>2. scope.cases \subseteq Cases /\ IsFiniteSet(scope.cases)
    BY <1>2, ComparisonAssumption, MetricsAssumption, FS_Subset
  <2>3. read[scope][side] = Read[side]  BY <1>7 DEF Slices
  <2>4. Sufficient(Metrics(seen, e, scope.cases), scope)
    <3>1. Sufficient(Seen(read[scope][side], scope, e), scope)
      <4> HIDE DEF read
      <4> QED BY <1>1, PassedScope
    <3>2. Seen(Read[side], scope, e) = Metrics(seen, e, scope.cases)  BY DEF Seen
    <3> HIDE DEF read, seen
    <3> QED BY <2>3, <3>1, <3>2
  <2> HIDE DEF seen
  <2>5. /\ CasesOf(Mine(seen, e)) \subseteq scope.cases
        /\ Cardinality(Q) * 100 >= scope.coverage * Cardinality(scope.cases)
    BY <2>1, <2>2, <2>4, SufficientCounts
  <2>6. Q \subseteq Mine(seen, e) /\ Mine(seen, e) \subseteq Mine(Read[side], e)
        /\ Q \subseteq ValidRows(Mine(Read[side], e))
    BY <2>1 DEF ValidRows, Mine
  <2>7. IsFiniteSet(Q)
    <3>1. Q \subseteq seen  BY <2>6 DEF Mine
    <3> HIDE DEF Q
    <3> QED BY <2>1, <3>1, FS_Subset
  <2>8. IsFiniteSet(X)
    <3>1. X \subseteq scope.cases  OBVIOUS
    <3> HIDE DEF X
    <3> QED BY <2>2, <3>1, FS_Subset
  <2>9. \A q \in Q : q.case \in X  BY <2>5, <2>6 DEF CasesOf
  <2>10. \A q, r \in Q : q.case = r.case => q = r  BY <1>6, <2>6
  <2>11. Cardinality(Q) \in Nat /\ Cardinality(X) \in Nat /\ Cardinality(Q) <= Cardinality(X)
    <3> HIDE DEF Q, X
    <3> QED BY <2>7, <2>8, <2>9, <2>10, OnePerCase
  <2>12. scope.coverage * Cardinality(scope.cases) \in Nat
    <3>1. scope.coverage \in Nat  BY <1>2, ComparisonAssumption
    <3>2. Cardinality(scope.cases) \in Nat  BY <2>2, FS_CardinalityType
    <3>3. \A a, b \in Nat : a * b \in Nat  OBVIOUS
    <3> QED BY <3>1, <3>2, <3>3
  <2> HIDE DEF Q
  <2>13. Cardinality(X) * 100 >= scope.coverage * Cardinality(scope.cases)
    <3> HIDE DEF X
    <3> QED BY <2>5, <2>11, <2>12
  <2> QED BY <2>13
<1>9. ASSUME NEW e \in Evaluators
      PROVE  \E b : /\ {r.backend : r \in Mine(Read["current"], e)} = {b}
                    /\ {r.backend : r \in Mine(Read["baseline"], e)} = {b}
  <2> DEFINE K == {r.backend : r \in Mine(Read["current"], e)}
  <2>0. "current" \in Sides /\ "baseline" \in Sides  BY DEF Sides
  <2>1. SameBackend(e, Seen(Read["current"], whole, e), Seen(Read["baseline"], whole, e))
    <3> HIDE DEF read
    <3> QED BY <1>1, <1>4, PassedScope
  <2>2. K = {r.backend : r \in Mine(Read["baseline"], e)} /\ Cardinality(K) = 1
    BY <1>6, <2>0, <2>1 DEF SameBackend
  <2>3. IsFiniteSet(K)
    <3> DEFINE M == Mine(Read["current"], e)
               f == [r \in M |-> r.backend]
    <3>1. IsFiniteSet(M)
      <4>1. M \subseteq Read["current"]  BY DEF Mine
      <4> HIDE DEF M
      <4> QED BY <1>5, <2>0, <4>1, FS_Subset
    <3>2. f = [r \in M |-> f[r]] /\ K = {f[r] : r \in M}  OBVIOUS
    <3> HIDE DEF f, M, K
    <3> QED BY <3>1, <3>2, ImageFinite
  <2> HIDE DEF K
  <2>4. \E b : K = {b}  BY <2>2, <2>3, FS_Singleton
  <2> QED BY <2>2, <2>4 DEF K
<1> QED BY <1>2, <1>6, <1>8, <1>9

(* A passing check rests on an approved policy and on evidence of both runs. *)
THEOREM PassRestsOnEvidence == Spec => []PassedHasEvidence
<1>1. ASSUME AnswersInv, StoredInv, Concluding, Answer = "passed"
      PROVE  Cardinality({r.backend : r \in Read["current"] \cup Read["baseline"]}
                           \cap Backends) <= 1
  <2> DEFINE R == Read["current"] \cup Read["baseline"]
             K == {r.backend : r \in R} \cap Backends
  <2>0. "current" \in Sides /\ "baseline" \in Sides  BY DEF Sides
  <2>1. \A r \in R : r.evaluator \in Evaluators
    <3>1. Stored(Read["current"]) /\ Stored(Read["baseline"])  BY <1>1, <2>0 DEF StoredInv, Read
    <3> QED BY <3>1 DEF Stored, Rows
  <2>2. ASSUME NEW r \in R, r.backend \in Backends
        PROVE  r.evaluator \in Similarity
               /\ \A q \in R : q.evaluator = r.evaluator => q.backend = r.backend
    <3>1. PICK b : /\ {q.backend : q \in Mine(Read["current"], r.evaluator)} = {b}
                   /\ {q.backend : q \in Mine(Read["baseline"], r.evaluator)} = {b}
      BY <1>1, <2>1, PassedEvidence
    <3>2. \A q \in R : q.evaluator = r.evaluator => q.backend = b  BY <3>1 DEF Mine
    <3>3. PICK q \in Read["current"] : q.evaluator = r.evaluator /\ q.backend = b
      BY <3>1 DEF Mine
    <3>4. q.evaluator \in Similarity \/ q.backend = "default"
      BY <1>1 DEF StoredInv, Plain, Read
    <3> QED BY <2>2, <3>2, <3>3, <3>4, MetricsAssumption
  <2>3. \A x, y \in K : x = y
    <3> SUFFICES ASSUME NEW r \in R, NEW q \in R, r.backend \in Backends, q.backend \in Backends
                 PROVE  r.backend = q.backend
      OBVIOUS
    <3>1. r.evaluator \in Similarity /\ q.evaluator \in Similarity  BY <2>2
    <3>2. r.evaluator = q.evaluator  BY <3>1, MetricsAssumption
    <3> QED BY <2>2, <3>2
  <2>4. K = {} \/ \E b : K = {b}
    <3> HIDE DEF K
    <3> QED BY <2>3
  <2> HIDE DEF K
  <2>5. Cardinality(K) <= 1
    <3>1. CASE K = {}  BY <3>1, FS_EmptySet
    <3>2. CASE \E b : K = {b}
      <4>1. Cardinality(K) = 1  BY <3>2, FS_Singleton
      <4> QED BY <4>1
    <3> QED BY <2>4, <3>1, <3>2
  <2> QED BY <2>5 DEF K
<1>2. AnswersInv /\ StoredInv => PassedHasEvidence
  <2> SUFFICES ASSUME AnswersInv, StoredInv, Concluding, Answer = "passed"
               PROVE  PassedHasEvidence
    BY DEF PassedHasEvidence
  <2> QED BY <1>1, PassedEvidence, Zenon DEF PassedHasEvidence, Mine
<1> QED BY <1>2, AnswersAlways, StoredAlways, PTL

=============================================================================
