---------------------------- MODULE ScenarioSuites ----------------------------
(***************************************************************************)
(* The workspace side of scenario evaluation: immutable versions of a      *)
(* suite, runs that score imported evidence against one, and public links  *)
(* to a snapshot of a run's report.  Every request reads in one session    *)
(* and writes in another, so uploads, imports, shares and deletions        *)
(* overlap.  The database is PostgreSQL, whose constraints are what keeps  *)
(* them apart; SQLite does not enforce the foreign keys.                   *)
(*                                                                         *)
(* One project and one suite name.  A run keeps the metrics of its cases:  *)
(* how many passed, were valid and did well in each dimension.             *)
(***************************************************************************)
EXTENDS Integers, FiniteSets, FiniteSetsExt, Sequences

CONSTANTS Suites,        \* identifiers of stored suite versions
          EvidenceRuns,  \* identifiers of scenario runs
          Shares,        \* identifiers of public links
          Clients,       \* requests under way at the same time
          SuiteCases,    \* how many cases a suite has
          RunMetricsSet, \* the metrics an import may give
          ScenarioRules, \* the release rules of the project
          NoSuite, NoEvidenceRun

ASSUME SuitesAssumption ==
  /\ NoSuite \notin Suites /\ NoEvidenceRun \notin EvidenceRuns
  /\ SuiteCases \in Nat \ {0}
  /\ \A i \in DOMAIN ScenarioRules.dimensions : ScenarioRules.dimensions[i].drop \in 0..100
  /\ \A m \in RunMetricsSet :
       /\ m.valid \in 0..SuiteCases /\ m.passing \in 0..m.valid
       /\ \A i \in DOMAIN ScenarioRules.dimensions :
            LET d == m.dimension[ScenarioRules.dimensions[i].name] IN
            d.valid \in 0..m.valid /\ d.passing \in 0..d.valid

VARIABLES suite,         \* suite row
          evidenceRun,   \* scenario run row
          share,         \* public link
          client         \* what each request has read

suitesVars == <<suite, evidenceRun, share, client>>

NoClient == [op |-> "idle", number |-> 0, suite |-> NoSuite, run |-> NoEvidenceRun]

NoSuiteRow(state) == [state |-> state, number |-> 0]
NoRunRow(state) == [state |-> state, suite |-> NoSuite, number |-> 0, metrics |-> {}]
NoShareRow(state) == [state |-> state, run |-> NoEvidenceRun]

SuitesInit ==
  /\ suite = [s \in Suites |-> NoSuiteRow("unused")]
  /\ evidenceRun = [r \in EvidenceRuns |-> NoRunRow("unused")]
  /\ share = [x \in Shares |-> NoShareRow("unused")]
  /\ client = [c \in Clients |-> NoClient]

SuiteKept(s) == suite[s].state = "live"
RunKept(r) == evidenceRun[r].state = "live"
RunsOfSuite(s) == {r \in EvidenceRuns : RunKept(r) /\ evidenceRun[r].suite = s}

\* Mutation: the database does not enforce foreign keys.
AnyParent(present) == TRUE

\* A row is inserted only while its parent is there.
ForeignKey(present) == present

\* Mutation: nothing keeps version numbers apart.
NumberTaken(n) == TRUE

\* The unique constraint on the versions of a suite.
NumberFree(n) == \A s \in Suites : SuiteKept(s) => suite[s].number # n

-----------------------------------------------------------------------------
(* Suites. *)

\* The highest stored number plus one.
ReadNumber(c) ==
  /\ client[c] = NoClient
  /\ client' = [client EXCEPT ![c].op = "upload",
       ![c].number = Max({suite[s].number : s \in {t \in Suites : SuiteKept(t)}} \cup {0}) + 1]
  /\ UNCHANGED <<suite, evidenceRun, share>>

\* Every upload has a content of its own, which the identifier stands for.
StoreSuite(c, s) ==
  /\ client[c].op = "upload" /\ suite[s].state = "unused"
  /\ NumberFree(client[c].number)
  /\ suite' = [suite EXCEPT ![s] = [state |-> "live", number |-> client[c].number]]
  /\ client' = [client EXCEPT ![c] = NoClient]
  /\ UNCHANGED <<evidenceRun, share>>

\* A suite is deleted only without runs.
DeleteSuite(s) ==
  /\ SuiteKept(s) /\ RunsOfSuite(s) = {}
  /\ suite' = [suite EXCEPT ![s] = NoSuiteRow("deleted")]
  /\ UNCHANGED <<evidenceRun, share, client>>

-----------------------------------------------------------------------------
(* Runs and links. *)

BeginImport(c, s) ==
  /\ client[c] = NoClient /\ SuiteKept(s)
  /\ client' = [client EXCEPT ![c].op = "import", ![c].suite = s]
  /\ UNCHANGED <<suite, evidenceRun, share>>

\* The run records the number of the suite it was scored with.
StoreImport(c, r, m) ==
  LET s == client[c].suite IN
  /\ client[c].op = "import" /\ evidenceRun[r].state = "unused"
  /\ ForeignKey(SuiteKept(s))
  /\ evidenceRun' = [evidenceRun EXCEPT ![r] =
       [state |-> "live", suite |-> s, number |-> suite[s].number, metrics |-> m]]
  /\ client' = [client EXCEPT ![c] = NoClient]
  /\ UNCHANGED <<suite, share>>

BeginShare(c, r) ==
  /\ client[c] = NoClient /\ RunKept(r)
  /\ client' = [client EXCEPT ![c].op = "share", ![c].run = r]
  /\ UNCHANGED <<suite, evidenceRun, share>>

StoreShare(c, x) ==
  /\ client[c].op = "share" /\ share[x].state = "unused"
  /\ ForeignKey(RunKept(client[c].run))
  /\ share' = [share EXCEPT ![x] = [state |-> "live", run |-> client[c].run]]
  /\ client' = [client EXCEPT ![c] = NoClient]
  /\ UNCHANGED <<suite, evidenceRun>>

\* A constraint refuses the write, a limit of the plan is reached, or the
\* upload is invalid.
Refuse(c) ==
  /\ client[c] # NoClient
  /\ client' = [client EXCEPT ![c] = NoClient]
  /\ UNCHANGED <<suite, evidenceRun, share>>

\* A link ends when it is revoked or its time is over.
EndShare(x) ==
  /\ share[x].state = "live"
  /\ share' = [share EXCEPT ![x].state = "ended"]
  /\ UNCHANGED <<suite, evidenceRun, client>>

\* A run is deleted with its links.
DeleteEvidenceRun(r) ==
  /\ RunKept(r)
  /\ evidenceRun' = [evidenceRun EXCEPT ![r] = NoRunRow("deleted")]
  /\ share' = [x \in Shares |->
       IF share[x].run = r THEN NoShareRow("deleted") ELSE share[x]]
  /\ UNCHANGED <<suite, client>>

SuitesNext ==
  \/ \E c \in Clients : ReadNumber(c) \/ Refuse(c)
  \/ \E c \in Clients, s \in Suites : StoreSuite(c, s) \/ BeginImport(c, s)
  \/ \E c \in Clients, r \in EvidenceRuns, m \in RunMetricsSet : StoreImport(c, r, m)
  \/ \E c \in Clients, r \in EvidenceRuns : BeginShare(c, r)
  \/ \E c \in Clients, x \in Shares : StoreShare(c, x)
  \/ \E x \in Shares : EndShare(x)
  \/ \E r \in EvidenceRuns : DeleteEvidenceRun(r)
  \/ \E s \in Suites : DeleteSuite(s)

-----------------------------------------------------------------------------
(* The comparison of two runs. *)

QualityOf(m) ==
  IF m.valid # SuiteCases \/ m.valid < ScenarioRules.minimum THEN "inconclusive"
  ELSE IF m.passing = m.valid THEN "passed" ELSE "regressed"

AtLeast(m, percent) == m.passing * 100 >= percent * m.valid
DroppedBy(prior, current, percent) ==
  (prior.passing * current.valid - current.passing * prior.valid) * 100
    > percent * current.valid * prior.valid

\* Mutation: the dimensions are not looked at.
ByTotals(current, prior, rule) == "kept"

\* What one dimension makes of the verdict so far: it is replaced when the
\* dimension lacks evidence or is breached, and kept otherwise.
ByDimension(current, prior, rule) ==
  LET c == current.dimension[rule.name]  p == prior.dimension[rule.name] IN
  IF c.valid = 0 \/ (rule.drop < 100 /\ p.valid = 0) THEN "inconclusive"
  ELSE IF ~AtLeast(c, rule.minimum) \/ (rule.drop < 100 /\ DroppedBy(p, c, rule.drop))
       THEN "regressed" ELSE "kept"

\* The verdict after all dimensions, in the order of the policy: the last one
\* that replaces it decides.
AfterDimensions(current, prior, verdict) ==
  LET judged(i) == ByDimension(current, prior, ScenarioRules.dimensions[i])
      deciding == {i \in DOMAIN ScenarioRules.dimensions : judged(i) # "kept"}
  IN  IF deciding = {} THEN verdict ELSE judged(Max(deciding))

CompareQuality(r, baseline) ==
  LET current == evidenceRun[r].metrics  prior == evidenceRun[baseline].metrics IN
  IF \/ evidenceRun[r].suite # evidenceRun[baseline].suite
     \/ QualityOf(current) = "inconclusive" \/ QualityOf(prior) = "inconclusive"
  THEN "inconclusive"
  ELSE AfterDimensions(current, prior,
         IF \/ QualityOf(current) = "regressed"
            \/ DroppedBy(prior, current, ScenarioRules.drop)
         THEN "regressed" ELSE "passed")

-----------------------------------------------------------------------------
(* Properties. *)

\* Two retained runs that name the same version of the suite were scored with
\* the same content, whatever versions were uploaded together, deleted and
\* uploaded again: a number is free again only when no run names it.
NumberNamesContent ==
  \A q, r \in EvidenceRuns : RunKept(q) /\ RunKept(r) /\ evidenceRun[q].number = evidenceRun[r].number
    => evidenceRun[q].suite = evidenceRun[r].suite

\* A public link that is served shows a run that is still retained, and a
\* retained run keeps the suite it can be explained with: deleting evidence
\* while a link or an import is being made leaves neither behind.
ServedIsRetained ==
  /\ \A x \in Shares : share[x].state = "live" => RunKept(share[x].run)
  /\ \A r \in EvidenceRuns : RunKept(r) => SuiteKept(evidenceRun[r].suite)

\* A comparison that passes has complete evidence on both sides, every case of
\* the run passed, and no dimension of the policy is below its minimum or has
\* dropped by more than it may, in whatever order they were looked at.
PassedMeetsRules ==
  \A r, b \in EvidenceRuns :
    r # b /\ RunKept(r) /\ RunKept(b) /\ CompareQuality(r, b) = "passed" =>
      LET current == evidenceRun[r].metrics  prior == evidenceRun[b].metrics IN
      /\ current.valid = SuiteCases /\ prior.valid = SuiteCases
      /\ current.passing = SuiteCases
      /\ \A i \in DOMAIN ScenarioRules.dimensions :
           LET rule == ScenarioRules.dimensions[i]
               c == current.dimension[rule.name]  p == prior.dimension[rule.name]
           IN  /\ c.valid > 0 /\ AtLeast(c, rule.minimum)
               /\ p.valid > 0 => ~DroppedBy(p, c, rule.drop)

=============================================================================
