-------------------------- MODULE MeasurementsProofs --------------------------
(***************************************************************************)
(* What verdicts and the evidence behind them keep, for any cases,         *)
(* evaluators, policies, scenarios, suites and requests.                   *)
(***************************************************************************)
EXTENDS Measurements, FiniteSetTheorems, TLAPS

-----------------------------------------------------------------------------
(* The command-line scenario runner. *)

(* The manifest of a runner that goes on is as old as the last completed     *)
(* save, and decides something only over all the lines.                      *)
RunnerInv ==
  /\ results \in Seq(Decisions) /\ lines \in Seq(Decisions)
  /\ phase \in {"executing", "executed", "written", "exited", "killed"}
  /\ phase = "executing" =>
       /\ results = lines /\ Len(lines) <= ScenarioCount
       /\ manifest = Manifest("running", lines)
  /\ phase = "executed" =>
       /\ \E x \in Decisions : results = Append(lines, x)
       /\ Len(lines) < ScenarioCount
       /\ manifest.status = "running" /\ manifest.recorded = Len(lines)
       /\ manifest.decision = "inconclusive"
  /\ phase = "written" =>
       /\ results = lines /\ Len(lines) <= ScenarioCount
       /\ manifest.status = "running" /\ manifest.recorded = Len(lines) - 1
       /\ manifest.decision = "inconclusive"
  /\ phase \in {"exited", "killed"} => ManifestFollowsLines /\ PassedHasLines

(* A decision that passed was given over as many results as scenarios.       *)
LEMMA PassedSummary ==
  ASSUME NEW seen \in Seq(Decisions), Summary(seen) = "passed"
  PROVE  Len(seen) = ScenarioCount /\ \A i \in DOMAIN seen : seen[i] = "passed"
BY DEF Summary

LEMMA RunnerImplies == RunnerInv => ManifestFollowsLines /\ PassedHasLines
<1> SUFFICES ASSUME RunnerInv PROVE ManifestFollowsLines /\ PassedHasLines  OBVIOUS
<1> USE RunnerAssumption
<1>0. Len(lines) \in Nat  BY DEF RunnerInv
<1>1. CASE phase = "executing"
  BY <1>0, <1>1, PassedSummary DEF RunnerInv, Manifest, ManifestFollowsLines, PassedHasLines
<1>2. CASE phase = "executed"
  BY <1>0, <1>2 DEF RunnerInv, ManifestFollowsLines, PassedHasLines
<1>3. CASE phase = "written"
  BY <1>0, <1>3 DEF RunnerInv, ManifestFollowsLines, PassedHasLines
<1>4. CASE phase \in {"exited", "killed"}  BY <1>4 DEF RunnerInv
<1> QED BY <1>1, <1>2, <1>3, <1>4 DEF RunnerInv

LEMMA RunnerStep == RunnerInv /\ RunnerNext => RunnerInv'
<1> SUFFICES ASSUME RunnerInv, RunnerNext PROVE RunnerInv'  OBVIOUS
<1> USE RunnerAssumption
<1>0. Len(lines) \in Nat /\ Len(results) \in Nat  BY DEF RunnerInv
<1>1. ASSUME NEW x \in Decisions, ExecuteScenario(x) PROVE RunnerInv'
  <2>1. results' = Append(lines, x) /\ lines' = lines /\ manifest' = manifest
        /\ phase' = "executed" /\ Len(lines) < ScenarioCount
    BY <1>0, <1>1 DEF ExecuteScenario, RunnerInv
  <2>2. manifest = Manifest("running", lines)  BY <1>1 DEF ExecuteScenario, RunnerInv
  <2>3. manifest.status = "running" /\ manifest.recorded = Len(lines)
        /\ manifest.decision = "inconclusive"
    BY <1>0, <2>1, <2>2 DEF Manifest, Summary
  <2>4. results' \in Seq(Decisions)  BY <2>1 DEF RunnerInv
  <2> QED BY <2>1, <2>3, <2>4 DEF RunnerInv
<1>2. CASE WriteLine
  <2>1. PICK x \in Decisions : results = Append(lines, x)  BY <1>2 DEF WriteLine, RunnerInv
  <2>2. Len(results) = Len(lines) + 1 /\ results[Len(results)] = x
    BY <2>1 DEF RunnerInv
  <2>3. lines' = results  BY <1>2, <2>1, <2>2 DEF WriteLine
  <2> QED BY <1>0, <1>2, <2>2, <2>3 DEF WriteLine, RunnerInv
<1>3. CASE SaveManifest
  BY <1>3 DEF SaveManifest, RunnerInv
<1>4. CASE Finish
  <2>1. manifest' = Manifest("completed", lines) /\ lines' = lines /\ results' = results
        /\ phase' = "exited" /\ Len(lines) = ScenarioCount
    BY <1>4 DEF Finish, Close, RunnerInv
  <2>2. ManifestFollowsLines'  BY <1>0, <2>1 DEF ManifestFollowsLines, Manifest
  <2>3. PassedHasLines'
    BY <1>0, <2>1, PassedSummary DEF PassedHasLines, Manifest, RunnerInv
  <2> QED BY <2>1, <2>2, <2>3 DEF RunnerInv
<1>5. CASE Interrupt
  <2>1. manifest' = Manifest("interrupted", lines) /\ lines' = lines /\ results' = results
        /\ phase' = "exited"
    BY <1>5 DEF Interrupt, Close, RunnerInv
  <2>2. ManifestFollowsLines'  BY <1>0, <2>1 DEF ManifestFollowsLines, Manifest
  <2>3. PassedHasLines'
    BY <1>0, <2>1, PassedSummary DEF PassedHasLines, Manifest, RunnerInv
  <2> QED BY <2>1, <2>2, <2>3 DEF RunnerInv
<1>6. CASE WriteFails
  <2>1. manifest' = Manifest("failed", results) /\ lines' = lines /\ results' = results
        /\ phase' = "exited"
    BY <1>6 DEF WriteFails, Close
  <2>2. ManifestFollowsLines'  BY <2>1 DEF ManifestFollowsLines, Manifest
  <2>3. PassedHasLines'
    <3> SUFFICES ASSUME Summary(results) = "passed"
                 PROVE  /\ \A i \in DOMAIN lines : lines[i] = "passed"
                        /\ Len(lines) >= ScenarioCount - 1
      BY <1>0, <2>1 DEF PassedHasLines, Manifest
    <3>1. Len(results) = ScenarioCount /\ \A i \in DOMAIN results : results[i] = "passed"
      BY PassedSummary DEF RunnerInv
    <3>2. CASE phase = "executed"
      <4>1. PICK x \in Decisions : results = Append(lines, x)  BY <3>2 DEF RunnerInv
      <4>2. Len(results) = Len(lines) + 1
            /\ \A i \in DOMAIN lines : i \in DOMAIN results /\ results[i] = lines[i]
        BY <4>1 DEF RunnerInv
      <4> QED BY <1>0, <3>1, <4>2
    <3>3. CASE phase = "written"  BY <1>0, <3>1, <3>3 DEF RunnerInv
    <3> QED BY <1>6, <3>2, <3>3 DEF WriteFails
  <2> QED BY <2>1, <2>2, <2>3 DEF RunnerInv
<1>7. CASE Kill
  <2>1. ManifestFollowsLines /\ PassedHasLines  BY RunnerImplies
  <2>2. lines' = lines /\ manifest' = manifest /\ phase' = "killed" /\ results' = <<>>
    BY <1>7 DEF Kill
  <2>3. ManifestFollowsLines' /\ PassedHasLines'
    BY <2>1, <2>2 DEF ManifestFollowsLines, PassedHasLines
  <2> QED BY <2>2, <2>3 DEF RunnerInv
<1> QED BY <1>1, <1>2, <1>3, <1>4, <1>5, <1>6, <1>7 DEF RunnerNext

LEMMA RunnerAlways == Spec => []RunnerInv
<1>1. Init => RunnerInv
  BY RunnerAssumption DEF Init, RunnerInit, RunnerInv, Manifest, Summary
<1>2. RunnerInv /\ [Next]_vars => RunnerInv'
  <2> SUFFICES ASSUME RunnerInv, [Next]_vars PROVE RunnerInv'  OBVIOUS
  <2>1. CASE UNCHANGED runnerVars
    BY <2>1 DEF RunnerInv, runnerVars, ManifestFollowsLines, PassedHasLines
  <2>2. CASE RunnerNext  BY <2>2, RunnerStep
  <2> QED BY <2>1, <2>2 DEF Next, vars
<1> QED BY <1>1, <1>2, PTL DEF Spec

(* Killed or cancelled anywhere, the runner leaves a manifest that tells of  *)
(* no result the results file does not hold.                                 *)
THEOREM ManifestTrue == Spec => []ManifestFollowsLines
BY RunnerAlways, RunnerImplies, PTL

(* And a manifest that passed has a passing line for every scenario, or for  *)
(* all but the last one when a write failed.                                 *)
THEOREM PassedTrue == Spec => []PassedHasLines
BY RunnerAlways, RunnerImplies, PTL

-----------------------------------------------------------------------------
(* Suites, their runs and public links. *)

ShareRows == [state: {"unused", "live", "ended", "deleted"},
              run: EvidenceRuns \cup {NoEvidenceRun}]

(* Tables are functions on their identifiers, a request that is to store     *)
(* something knows its parent, and what is kept has its parent.              *)
SuitesInv ==
  /\ suite = [s \in Suites |-> suite[s]]
  /\ evidenceRun = [r \in EvidenceRuns |-> evidenceRun[r]]
  /\ share \in [Shares -> ShareRows]
  /\ client = [c \in Clients |-> client[c]]
  /\ \A c \in Clients : client[c].op = "import" => client[c].suite \in Suites
  /\ \A c \in Clients : client[c].op = "share" => client[c].run \in EvidenceRuns
  /\ \A s, t \in Suites : SuiteKept(s) /\ SuiteKept(t) /\ suite[s].number = suite[t].number
                            => s = t
  /\ \A r \in EvidenceRuns : RunKept(r) =>
       /\ evidenceRun[r].suite \in Suites /\ SuiteKept(evidenceRun[r].suite)
       /\ evidenceRun[r].number = suite[evidenceRun[r].suite].number
  /\ \A x \in Shares : share[x].state = "live" =>
       share[x].run \in EvidenceRuns /\ RunKept(share[x].run)

LEMMA SuitesImplies == SuitesInv => ServedIsRetained /\ NumberNamesContent
BY DEF SuitesInv, ServedIsRetained, NumberNamesContent

(* Requests that store nothing.                                              *)
LEMMA ClientStep ==
  ASSUME SuitesInv, UNCHANGED <<suite, evidenceRun, share>>,
         NEW c \in Clients, NEW q, client' = [client EXCEPT ![c] = q],
         q.op = "import" => q.suite \in Suites,
         q.op = "share" => q.run \in EvidenceRuns
  PROVE  SuitesInv'
BY DEF SuitesInv, SuiteKept, RunKept

LEMMA SuitesStep == SuitesInv /\ SuitesNext => SuitesInv'
<1> SUFFICES ASSUME SuitesInv, SuitesNext PROVE SuitesInv'  OBVIOUS
<1> USE SuitesAssumption
<1>0. NoClient.op = "idle"  BY DEF NoClient
<1>1. ASSUME NEW c \in Clients, ReadNumber(c) PROVE SuitesInv'
  <2>1. PICK n : n = Max({suite[s].number : s \in {t \in Suites : SuiteKept(t)}} \cup {0}) + 1
    OBVIOUS
  <2>2. PICK q : q = [NoClient EXCEPT !.op = "upload", !.number = n]  OBVIOUS
  <2>3. q.op = "upload"  BY <2>2 DEF NoClient
  <2>4. client' = [client EXCEPT ![c] = q]
    BY <1>1, <2>1, <2>2, Zenon DEF ReadNumber, SuitesInv
  <2> QED BY <1>1, <2>3, <2>4, ClientStep DEF ReadNumber
<1>2. ASSUME NEW c \in Clients, Refuse(c) PROVE SuitesInv'
  BY <1>0, <1>2, ClientStep DEF Refuse
<1>3. ASSUME NEW c \in Clients, NEW s \in Suites, BeginImport(c, s) PROVE SuitesInv'
  <2>1. PICK q : q = [NoClient EXCEPT !.op = "import", !.suite = s]  OBVIOUS
  <2>2. q.op = "import" /\ q.suite = s  BY <2>1 DEF NoClient
  <2>3. client' = [client EXCEPT ![c] = q]
    BY <1>3, <2>1, Zenon DEF BeginImport, SuitesInv
  <2> QED BY <1>3, <2>2, <2>3, ClientStep DEF BeginImport
<1>4. ASSUME NEW c \in Clients, NEW r \in EvidenceRuns, BeginShare(c, r) PROVE SuitesInv'
  <2>1. PICK q : q = [NoClient EXCEPT !.op = "share", !.run = r]  OBVIOUS
  <2>2. q.op = "share" /\ q.run = r  BY <2>1 DEF NoClient
  <2>3. client' = [client EXCEPT ![c] = q]
    BY <1>4, <2>1, Zenon DEF BeginShare, SuitesInv
  <2> QED BY <1>4, <2>2, <2>3, ClientStep DEF BeginShare
<1>5. ASSUME NEW c \in Clients, NEW s \in Suites, StoreSuite(c, s) PROVE SuitesInv'
  <2>1. /\ suite'[s].state = "live" /\ suite'[s].number = client[c].number
        /\ \A t \in Suites \ {s} : suite'[t] = suite[t]
        /\ suite' = [t \in Suites |-> suite'[t]]
        /\ suite[s].state = "unused"
    BY <1>5 DEF StoreSuite, SuitesInv
  <2>2. \A t, u \in Suites : suite'[t].state = "live" /\ suite'[u].state = "live"
          /\ suite'[t].number = suite'[u].number => t = u
    BY <1>5, <2>1 DEF StoreSuite, NumberFree, SuitesInv, SuiteKept
  <2>3. /\ client' = [d \in Clients |-> client'[d]]
        /\ \A d \in Clients : client'[d] = client[d] \/ client'[d].op = "idle"
    BY <1>0, <1>5 DEF StoreSuite, SuitesInv
  <2>4. \A d \in Clients : /\ client'[d].op = "import" => client'[d].suite \in Suites
                           /\ client'[d].op = "share" => client'[d].run \in EvidenceRuns
    BY <2>3 DEF SuitesInv
  <2>5. UNCHANGED <<evidenceRun, share>>  BY <1>5 DEF StoreSuite
  <2>6. \A r \in EvidenceRuns : RunKept(r) =>
          /\ evidenceRun[r].suite \in Suites /\ suite'[evidenceRun[r].suite].state = "live"
          /\ evidenceRun[r].number = suite'[evidenceRun[r].suite].number
    BY <2>1 DEF SuitesInv, SuiteKept
  <2> QED BY <2>1, <2>2, <2>3, <2>4, <2>5, <2>6 DEF SuitesInv, SuiteKept, RunKept
<1>6. ASSUME NEW c \in Clients, NEW r \in EvidenceRuns, NEW m \in RunMetricsSet,
             StoreImport(c, r, m)
      PROVE  SuitesInv'
  <2>1. PICK s \in Suites : s = client[c].suite  BY <1>6 DEF StoreImport, SuitesInv
  <2>2. SuiteKept(s)  BY <1>6, <2>1 DEF StoreImport, ForeignKey
  <2>3. /\ evidenceRun'[r].suite = s /\ evidenceRun'[r].number = suite[s].number
        /\ evidenceRun'[r].state = "live" /\ evidenceRun[r].state = "unused"
        /\ \A q \in EvidenceRuns \ {r} : evidenceRun'[q] = evidenceRun[q]
        /\ evidenceRun' = [q \in EvidenceRuns |-> evidenceRun'[q]]
    BY <1>6, <2>1 DEF StoreImport, SuitesInv
  <2>4. /\ client' = [d \in Clients |-> client'[d]]
        /\ \A d \in Clients : client'[d] = client[d] \/ client'[d].op = "idle"
    BY <1>0, <1>6 DEF StoreImport, SuitesInv
  <2>5. \A d \in Clients : /\ client'[d].op = "import" => client'[d].suite \in Suites
                           /\ client'[d].op = "share" => client'[d].run \in EvidenceRuns
    BY <2>4 DEF SuitesInv
  <2>6. UNCHANGED <<suite, share>>  BY <1>6 DEF StoreImport
  <2>7. \A q \in EvidenceRuns : evidenceRun'[q].state = "live" =>
          /\ evidenceRun'[q].suite \in Suites /\ SuiteKept(evidenceRun'[q].suite)
          /\ evidenceRun'[q].number = suite[evidenceRun'[q].suite].number
    BY <2>2, <2>3 DEF SuitesInv, RunKept
  <2>8. \A x \in Shares : share[x].state = "live" =>
          share[x].run \in EvidenceRuns /\ evidenceRun'[share[x].run].state = "live"
    BY <2>3 DEF SuitesInv, RunKept
  <2> QED BY <2>3, <2>4, <2>5, <2>6, <2>7, <2>8 DEF SuitesInv, SuiteKept, RunKept
<1>7. ASSUME NEW c \in Clients, NEW x \in Shares, StoreShare(c, x) PROVE SuitesInv'
  <2>1. PICK r \in EvidenceRuns : r = client[c].run  BY <1>7 DEF StoreShare, SuitesInv
  <2>2. RunKept(r)  BY <1>7, <2>1 DEF StoreShare, ForeignKey
  <2>3. [state |-> "live", run |-> r] \in ShareRows  BY DEF ShareRows
  <2>4. /\ share' \in [Shares -> ShareRows]
        /\ share'[x].run = r /\ \A y \in Shares \ {x} : share'[y] = share[y]
    BY <1>7, <2>1, <2>3 DEF StoreShare, SuitesInv
  <2>5. /\ client' = [d \in Clients |-> client'[d]]
        /\ \A d \in Clients : client'[d] = client[d] \/ client'[d].op = "idle"
    BY <1>0, <1>7 DEF StoreShare, SuitesInv
  <2>6. \A d \in Clients : /\ client'[d].op = "import" => client'[d].suite \in Suites
                           /\ client'[d].op = "share" => client'[d].run \in EvidenceRuns
    BY <2>5 DEF SuitesInv
  <2>7. UNCHANGED <<suite, evidenceRun>>  BY <1>7 DEF StoreShare
  <2>8. \A y \in Shares : share'[y].state = "live" =>
          share'[y].run \in EvidenceRuns /\ RunKept(share'[y].run)
    BY <2>2, <2>4 DEF SuitesInv
  <2> QED BY <2>4, <2>5, <2>6, <2>7, <2>8 DEF SuitesInv, SuiteKept, RunKept
<1>8. ASSUME NEW x \in Shares, EndShare(x) PROVE SuitesInv'
  <2>1. share' \in [Shares -> ShareRows]
        /\ \A y \in Shares : share'[y].state = "live" => share'[y] = share[y]
    BY <1>8 DEF EndShare, SuitesInv, ShareRows
  <2> QED BY <1>8, <2>1 DEF EndShare, SuitesInv, SuiteKept, RunKept
<1>9. ASSUME NEW r \in EvidenceRuns, DeleteEvidenceRun(r) PROVE SuitesInv'
  <2>1. /\ evidenceRun'[r].state = "deleted"
        /\ \A q \in EvidenceRuns \ {r} : evidenceRun'[q] = evidenceRun[q]
        /\ evidenceRun' = [q \in EvidenceRuns |-> evidenceRun'[q]]
    BY <1>9 DEF DeleteEvidenceRun, SuitesInv, NoRunRow
  <2>2. NoShareRow("deleted") \in ShareRows /\ NoShareRow("deleted").state = "deleted"
    BY DEF NoShareRow, ShareRows
  <2>3. share' \in [Shares -> ShareRows]
        /\ \A y \in Shares : share'[y].state = "live" =>
             share'[y] = share[y] /\ share[y].run # r
    BY <1>9, <2>2 DEF DeleteEvidenceRun, SuitesInv
  <2>4. \A q \in EvidenceRuns : evidenceRun'[q].state = "live" =>
          q # r /\ evidenceRun'[q] = evidenceRun[q]  BY <2>1
  <2>5. UNCHANGED <<suite, client>>  BY <1>9 DEF DeleteEvidenceRun
  <2>6. \A x \in Shares : share'[x].state = "live" =>
          share'[x].run \in EvidenceRuns /\ evidenceRun'[share'[x].run].state = "live"
    BY <2>1, <2>3 DEF SuitesInv, RunKept
  <2>7. \A q \in EvidenceRuns : evidenceRun'[q].state = "live" =>
          /\ evidenceRun'[q].suite \in Suites /\ SuiteKept(evidenceRun'[q].suite)
          /\ evidenceRun'[q].number = suite[evidenceRun'[q].suite].number
    BY <2>4 DEF SuitesInv, RunKept
  <2> QED BY <2>1, <2>3, <2>5, <2>6, <2>7 DEF SuitesInv, SuiteKept, RunKept
<1>10. ASSUME NEW s \in Suites, DeleteSuite(s) PROVE SuitesInv'
  <2>1. /\ suite'[s].state = "deleted"
        /\ \A t \in Suites \ {s} : suite'[t] = suite[t]
        /\ suite' = [t \in Suites |-> suite'[t]]
    BY <1>10 DEF DeleteSuite, SuitesInv, NoSuiteRow
  <2>2. UNCHANGED <<evidenceRun, share, client>>  BY <1>10 DEF DeleteSuite
  <2>3. \A r \in EvidenceRuns : RunKept(r) => evidenceRun[r].suite # s
    BY <1>10 DEF DeleteSuite, RunsOfSuite
  <2>4. \A r \in EvidenceRuns : RunKept(r) =>
          /\ evidenceRun[r].suite \in Suites /\ suite'[evidenceRun[r].suite].state = "live"
          /\ evidenceRun[r].number = suite'[evidenceRun[r].suite].number
    BY <2>1, <2>3 DEF SuitesInv, SuiteKept
  <2>5. \A t, u \in Suites : suite'[t].state = "live" /\ suite'[u].state = "live"
          /\ suite'[t].number = suite'[u].number => t = u
    BY <2>1 DEF SuitesInv, SuiteKept
  <2> QED BY <2>1, <2>2, <2>4, <2>5 DEF SuitesInv, SuiteKept, RunKept
<1> QED BY <1>1, <1>2, <1>3, <1>4, <1>5, <1>6, <1>7, <1>8, <1>9, <1>10 DEF SuitesNext

LEMMA SuitesAlways == Spec => []SuitesInv
<1>1. Init => SuitesInv
  <2> SUFFICES ASSUME Init PROVE SuitesInv  OBVIOUS
  <2>1. /\ suite = [s \in Suites |-> NoSuiteRow("unused")]
        /\ evidenceRun = [r \in EvidenceRuns |-> NoRunRow("unused")]
        /\ share = [x \in Shares |-> NoShareRow("unused")]
        /\ client = [c \in Clients |-> NoClient]
    BY DEF Init, SuitesInit
  <2> QED BY <2>1 DEF SuitesInv, SuiteKept, RunKept, NoSuiteRow, NoRunRow, NoShareRow,
                      NoClient, ShareRows
<1>2. SuitesInv /\ [Next]_vars => SuitesInv'
  <2> SUFFICES ASSUME SuitesInv, [Next]_vars PROVE SuitesInv'  OBVIOUS
  <2>1. CASE UNCHANGED suitesVars
    BY <2>1 DEF SuitesInv, suitesVars, SuiteKept, RunKept
  <2>2. CASE SuitesNext  BY <2>2, SuitesStep
  <2> QED BY <2>1, <2>2 DEF Next, vars
<1> QED BY <1>1, <1>2, PTL DEF Spec

(* However many imports, shares and deletions overlap, no link is served for *)
(* a run that is gone and no run is left without its suite.                  *)
THEOREM Retained == Spec => []ServedIsRetained
BY SuitesAlways, SuitesImplies, PTL

(* And a version number means one content to all the runs that name it.      *)
THEOREM NumbersName == Spec => []NumberNamesContent
BY SuitesAlways, SuitesImplies, PTL

-----------------------------------------------------------------------------
(* The order in which a judge sees two answers. *)

(* Presenting and reading back in the same order gives the opinion itself.   *)
LEMMA SwapsCancel ==
  ASSUME NEW held \in Opinions, NEW order \in {"AB", "BA"}
  PROVE  Unswapped(Judged(held, order), order) = held
<1>1. PICK w \in Winners \cup {"neither"}, x \in Int, y \in Int :
        held = [winner |-> w, a |-> x, b |-> y]
  BY MetricsAssumption DEF Opinions, NoOpinion, Scores
<1>2. CASE order = "AB"  BY <1>2 DEF Unswapped, Judged
<1>3. CASE order = "BA"
  <2>1. Swapped(Swapped(held)) = [winner |-> w, a |-> x, b |-> y]
    BY <1>1 DEF Swapped, Winners
  <2> QED BY <1>1, <1>3, <2>1 DEF Unswapped, Judged
<1> QED BY <1>2, <1>3

(* What is stored now has copy 0, and old comparisons have another.          *)
FairInv == FairPresentation /\ opinion = [c \in Compared |-> opinion[c]]

LEMMA PairwiseStep == FairInv /\ PairwiseNext => FairInv'
<1> SUFFICES ASSUME FairInv, PairwiseNext PROVE FairInv'  OBVIOUS
<1> PICK c \in Compared : Compare(c)  BY DEF PairwiseNext
<1>0. c \notin CasesOf(stored)  BY DEF Compare
<1>1. ASSUME NEW outcome \in Errors, NEW order \in {"AB", "BA"}, UNCHANGED opinion,
             stored' = stored \cup {ComparisonError(c, order, outcome)}
      PROVE  FairInv'
  <2>1. ComparisonError(c, order, outcome).outcome # "evaluated"
    BY <1>1 DEF ComparisonError, Errors
  <2> QED BY <1>1, <2>1 DEF FairInv, FairPresentation
<1>2. CASE GenerationFails(c)  BY <1>1, <1>2 DEF GenerationFails, Errors
<1>3. CASE JudgeFails(c)  BY <1>1, <1>3 DEF JudgeFails, Errors
<1>4. CASE JudgeAnswers(c)
  <2>1. PICK held \in Opinions, order \in {"AB", "BA"} :
          /\ opinion' = [opinion EXCEPT ![c] = held]
          /\ stored' = stored \cup {Judgement(c, order, Unswapped(Judged(held, order), order))}
    BY <1>4 DEF JudgeAnswers
  <2>2. stored' = stored \cup {Judgement(c, order, held)}  BY <2>1, SwapsCancel
  <2>3. PICK w \in Winners \cup {"neither"}, x \in Int, y \in Int :
          held = [winner |-> w, a |-> x, b |-> y]
    BY MetricsAssumption DEF Opinions, NoOpinion, Scores
  <2>4. opinion'[c] = held /\ opinion' = [d \in Compared |-> opinion'[d]]
        /\ \A d \in Compared \ {c} : opinion'[d] = opinion[d]
    BY <2>1 DEF FairInv
  <2>5. ASSUME NEW r \in stored', r.copy = 0, r.outcome = "evaluated"
        PROVE  [winner |-> r.winner, a |-> r.a, b |-> r.b] = opinion'[r.case]
    <3>1. CASE r \in stored
      <4>1. r.case # c  BY <1>0, <3>1 DEF CasesOf
      <4>2. opinion'[r.case] = opinion[r.case]  BY <2>1, <2>4, <4>1 DEF FairInv
      <4> QED BY <2>5, <3>1, <4>2 DEF FairInv, FairPresentation
    <3>2. CASE r = Judgement(c, order, held)
      <4>1. CASE held.winner \in Winners
        <5>1. r = [case |-> c, copy |-> 0, order |-> order, outcome |-> "evaluated",
                   winner |-> held.winner, a |-> held.a, b |-> held.b]
          BY <3>2, <4>1 DEF Judgement
        <5> QED BY <2>3, <2>4, <5>1
      <4>2. CASE held.winner \notin Winners
        <5>1. r.outcome = "evaluation_error"
          BY <3>2, <4>2 DEF Judgement, ComparisonError
        <5> QED BY <2>5, <5>1
      <4> QED BY <4>1, <4>2
    <3> QED BY <2>2, <3>1, <3>2
  <2> QED BY <2>4, <2>5 DEF FairInv, FairPresentation
<1> QED BY <1>2, <1>3, <1>4 DEF Compare

(* Whatever order is drawn for each case, what a run stores is what a judge  *)
(* who does not mind the order meant.                                        *)
THEOREM Fair == Spec => []FairPresentation
<1>1. Init => FairInv
  <2> SUFFICES ASSUME Init PROVE FairInv  OBVIOUS
  <2>1. \A r \in stored : r.copy # 0
    BY PairwiseAssumption DEF Init, PairwiseInit
  <2>2. opinion = [c \in Compared |-> NoOpinion]
    BY DEF Init, PairwiseInit
  <2> QED BY <2>1, <2>2 DEF FairInv, FairPresentation
<1>2. FairInv /\ [Next]_vars => FairInv'
  <2> SUFFICES ASSUME FairInv, [Next]_vars PROVE FairInv'  OBVIOUS
  <2>1. CASE UNCHANGED pairwiseVars  BY <2>1 DEF FairInv, pairwiseVars, FairPresentation
  <2>2. CASE PairwiseNext  BY <2>2, PairwiseStep
  <2> QED BY <2>1, <2>2 DEF Next, vars
<1>3. FairInv => FairPresentation  BY DEF FairInv
<1> QED BY <1>1, <1>2, <1>3, PTL DEF Spec

-----------------------------------------------------------------------------
(* The answers to a comparison. *)

(* Without rows nothing is measured.                                         *)
LEMMA NothingMeasured ==
  ASSUME NEW scope, NEW e
  PROVE  Seen({}, scope, e).valid = 0
<1>1. ASSUME NEW expected PROVE Metrics({}, e, expected).valid = 0
  <2>1. ValidRows(Authoritative({r \in {} : r.evaluator = e}, expected)) = {}
    BY DEF ValidRows, Authoritative
  <2>2. Cardinality({}) = 0  BY FS_EmptySet
  <2> QED BY <2>1, <2>2 DEF Metrics
<1>2. Sliced({}, scope.cases) = {}  BY DEF Sliced
<1> QED BY <1>1, <1>2 DEF Seen

(* What was read of a pair of runs with these rows.                          *)
Pair(C, B) == [side \in Sides |-> IF side = "current" THEN C ELSE B]

(* A comparison that reads no rows of a run for some scope decides nothing.  *)
LEMMA EmptyDecidesNothing ==
  ASSUME NEW rules \in Policies, NEW read, NEW scope \in rules, NEW side \in Sides,
         read[scope][side] = {}
  PROVE  Verdict(rules, read) = "inconclusive"
<1>1. PICK e \in Evaluators : TRUE  BY MetricsAssumption
<1>2. scope.minimum \in Nat \ {0}  BY ComparisonAssumption
<1>3. ~Sufficient(Seen(read[scope][side], scope, e), scope)
  <2>1. Seen(read[scope][side], scope, e).valid = 0  BY NothingMeasured
  <2> QED BY <1>2, <2>1 DEF Sufficient
<1> QED BY <1>1, <1>3 DEF Verdict

(* Once the run has completed there is one verdict, over the rows both runs  *)
(* had; deletions only leave an answer without rows.                         *)
Only(C, B, f) == f["current"] \in {C, {}} /\ f["baseline"] \in {B, {}}

TheVerdict(C, B) == Verdict(policy, [scope \in policy |-> Pair(C, B)])

OneVerdict(C, B) ==
  /\ Only(C, B, rows) /\ Only(C, B, comparison.read) /\ Only(C, B, comparison.sliced)
  /\ answers \subseteq {"inconclusive", TheVerdict(C, B)}

AnswersInv ==
  /\ policy \in Policies
  /\ rows = [side \in Sides |-> rows[side]]
  /\ status \in [Sides -> {"running", "completed", "deleted"}]
  /\ status["baseline"] # "running"
  /\ comparison = [stage |-> comparison.stage,
                   read |-> [side \in Sides |-> comparison.read[side]],
                   sliced |-> [side \in Sides |-> comparison.sliced[side]]]
  /\ IF status["current"] = "running"
     THEN comparison = NoComparison /\ answers \subseteq {"inconclusive"}
     ELSE \E C, B : OneVerdict(C, B)

(* A comparison copies what it reads from the stored rows.                   *)
LEMMA ComparisonReads ==
  ASSUME AnswersInv, Start \/ ReadCurrent \/ ReadBaseline \/ \E side \in Sides : ReadSlices(side)
  PROVE  /\ comparison' = [stage |-> comparison'.stage,
                           read |-> [side \in Sides |-> comparison'.read[side]],
                           sliced |-> [side \in Sides |-> comparison'.sliced[side]]]
         /\ \A side \in Sides : comparison'.read[side] \in {comparison.read[side], rows[side]}
         /\ \A side \in Sides : comparison'.sliced[side] \in {comparison.sliced[side], rows[side]}
<1>0. "current" \in Sides /\ "baseline" \in Sides  BY DEF Sides
<1>1. PICK g, f, h : /\ comparison = [stage |-> g, read |-> f, sliced |-> h]
                     /\ f = [side \in Sides |-> f[side]]
                     /\ h = [side \in Sides |-> h[side]]
  BY DEF AnswersInv
<1>2. CASE Start
  <2>1. comparison' = [stage |-> "opened", read |-> f, sliced |-> h]
    BY <1>1, <1>2 DEF Start
  <2> QED BY <1>1, <2>1
<1>3. CASE ReadCurrent
  <2>1. comparison' = [stage |-> "current", sliced |-> h,
                       read |-> [f EXCEPT !["current"] = rows["current"]]]
    BY <1>1, <1>3 DEF ReadCurrent
  <2> QED BY <1>0, <1>1, <2>1
<1>4. CASE ReadBaseline
  <2>1. comparison' = [stage |-> "read", sliced |-> h,
                       read |-> [f EXCEPT !["baseline"] = rows["baseline"]]]
    BY <1>1, <1>4 DEF ReadBaseline
  <2> QED BY <1>0, <1>1, <2>1
<1>5. ASSUME NEW side \in Sides, ReadSlices(side)
      PROVE  \E k : comparison' = [stage |-> k, read |-> f,
                                   sliced |-> [h EXCEPT ![side] = rows[side]]]
  BY <1>1, <1>5 DEF ReadSlices
<1>6. CASE \E side \in Sides : ReadSlices(side)
  <2>1. PICK side \in Sides :
          \E k : comparison' = [stage |-> k, read |-> f,
                                sliced |-> [h EXCEPT ![side] = rows[side]]]
    BY <1>5, <1>6
  <2> QED BY <1>1, <2>1
<1> QED BY <1>2, <1>3, <1>4, <1>6

LEMMA ComparisonStep == AnswersInv /\ ComparisonNext => AnswersInv'
<1> SUFFICES ASSUME AnswersInv, ComparisonNext PROVE AnswersInv'  OBVIOUS
<1>0. "current" \in Sides /\ "baseline" \in Sides /\ Sides = {"current", "baseline"}
  BY DEF Sides
<1>1. ASSUME NEW c \in Cases, RunExample(c) PROVE AnswersInv'
  <2>1. rows' = [side \in Sides |-> rows'[side]]  BY <1>1 DEF RunExample, AnswersInv
  <2> QED BY <1>1, <2>1 DEF RunExample, AnswersInv, NoComparison
<1>2. CASE Complete
  <2>1. comparison = NoComparison /\ answers \subseteq {"inconclusive"}
    BY <1>2 DEF Complete, AnswersInv
  <2>2. \A side \in Sides : comparison.read[side] = {} /\ comparison.sliced[side] = {}
    BY <2>1 DEF NoComparison
  <2>3. OneVerdict(rows["current"], rows["baseline"])
    BY <1>0, <2>1, <2>2 DEF OneVerdict, Only
  <2>4. UNCHANGED <<policy, rows, comparison, answers>>  BY <1>2 DEF Complete
  <2>5. PICK C, B : OneVerdict(C, B)  BY <2>3
  <2>6. OneVerdict(C, B)'  BY <2>4, <2>5 DEF OneVerdict, Only, TheVerdict
  <2>7. status' \in [Sides -> {"running", "completed", "deleted"}]
        /\ status'["current"] = "completed" /\ status'["baseline"] # "running"
    BY <1>0, <1>2 DEF Complete, AnswersInv
  <2> QED BY <2>4, <2>6, <2>7 DEF AnswersInv
<1>3. ASSUME NEW side \in Sides, DeleteRun(side) PROVE AnswersInv'
  <2>1. /\ status' \in [Sides -> {"running", "completed", "deleted"}]
        /\ status'["baseline"] # "running"
        /\ status'["current"] = "running" <=> status["current"] = "running"
        /\ rows' = [s \in Sides |-> rows'[s]]
        /\ \A s \in Sides : rows'[s] \in {rows[s], {}}
    BY <1>0, <1>3 DEF DeleteRun, AnswersInv
  <2>2. UNCHANGED <<policy, comparison, answers>>  BY <1>3 DEF DeleteRun
  <2>3. CASE status["current"] = "running"
    BY <2>1, <2>2, <2>3 DEF AnswersInv
  <2>4. CASE status["current"] # "running"
    <3>1. PICK C, B : OneVerdict(C, B)  BY <2>4 DEF AnswersInv
    <3>2. OneVerdict(C, B)'  BY <1>0, <2>1, <2>2, <3>1 DEF OneVerdict, Only, TheVerdict
    <3> QED BY <2>1, <2>2, <2>4, <3>2 DEF AnswersInv
  <2> QED BY <2>3, <2>4
<1>4. CASE Start \/ ReadCurrent \/ ReadBaseline \/ \E side \in Sides : ReadSlices(side)
  <2>1. UNCHANGED <<policy, rows, status, answers>>
    BY <1>4 DEF Start, ReadCurrent, ReadBaseline, ReadSlices
  <2>2. status["current"] # "running"
    BY <1>0, <1>4 DEF Start, ReadCurrent, ReadBaseline, ReadSlices, AnswersInv, NoComparison
  <2>3. PICK C, B : OneVerdict(C, B)  BY <2>2 DEF AnswersInv
  <2>4. /\ comparison' = [stage |-> comparison'.stage,
                          read |-> [side \in Sides |-> comparison'.read[side]],
                          sliced |-> [side \in Sides |-> comparison'.sliced[side]]]
        /\ \A side \in Sides : comparison'.read[side] \in {comparison.read[side], rows[side]}
        /\ \A side \in Sides : comparison'.sliced[side] \in {comparison.sliced[side], rows[side]}
    BY <1>4, ComparisonReads
  <2>5. OneVerdict(C, B)'  BY <1>0, <2>1, <2>3, <2>4 DEF OneVerdict, Only, TheVerdict
  <2> QED BY <2>1, <2>2, <2>4, <2>5 DEF AnswersInv
<1>5. CASE StartUnfinished
  <2>1. answers' = answers \cup {"inconclusive"}
        /\ UNCHANGED <<policy, rows, status, comparison>>
    BY <1>5 DEF StartUnfinished
  <2>2. CASE status["current"] = "running"  BY <2>1, <2>2 DEF AnswersInv
  <2>3. CASE status["current"] # "running"
    <3>1. PICK C, B : OneVerdict(C, B)  BY <2>3 DEF AnswersInv
    <3>2. OneVerdict(C, B)'  BY <2>1, <3>1 DEF OneVerdict, Only, TheVerdict
    <3> QED BY <2>1, <2>3, <3>2 DEF AnswersInv
  <2> QED BY <2>2, <2>3
<1>6. CASE Conclude
  <2>1. /\ answers' = answers \cup {Answer} /\ comparison' = NoComparison
        /\ UNCHANGED <<policy, rows, status>>
    BY <1>6 DEF Conclude
  <2>2. status["current"] # "running"
    BY <1>6 DEF Conclude, Concluding, AnswersInv, NoComparison
  <2>3. PICK C, B : OneVerdict(C, B)  BY <2>2 DEF AnswersInv
  <2>4. Answer \in {"inconclusive", TheVerdict(C, B)}
    <3> DEFINE read == [scope \in policy |->
                          IF scope \in Slices THEN comparison.sliced ELSE Read]
    <3>1. Answer = Verdict(policy, read)  BY DEF Answer
    <3>2. \A scope \in policy : Only(C, B, read[scope])
                                /\ read[scope] = [side \in Sides |-> read[scope][side]]
      <4>1. /\ comparison.sliced = [side \in Sides |-> comparison.sliced[side]]
            /\ comparison.read = [side \in Sides |-> comparison.read[side]]
        BY DEF AnswersInv
      <4> QED BY <2>3, <4>1 DEF OneVerdict, Read
    <3>3. CASE \E scope \in policy, side \in Sides : read[scope][side] = {}
      <4>1. policy \in Policies  BY DEF AnswersInv
      <4> HIDE DEF read
      <4>2. Verdict(policy, read) = "inconclusive"
        BY <3>3, <4>1, EmptyDecidesNothing
      <4> QED BY <3>1, <4>2
    <3>4. CASE \A scope \in policy, side \in Sides : read[scope][side] # {}
      <4>1. ASSUME NEW scope \in policy PROVE read[scope] = Pair(C, B)
        <5>1. read[scope]["current"] = C /\ read[scope]["baseline"] = B
          BY <1>0, <3>2, <3>4 DEF Only
        <5>2. read[scope] = [side \in Sides |-> read[scope][side]]  BY <3>2
        <5>3. \A side \in Sides : read[scope][side] = IF side = "current" THEN C ELSE B
          BY <1>0, <5>1
        <5> HIDE DEF read
        <5> QED BY <5>2, <5>3 DEF Pair
      <4>2. read = [scope \in policy |-> Pair(C, B)]  BY <4>1
      <4> HIDE DEF read
      <4> QED BY <3>1, <4>2 DEF TheVerdict
    <3> HIDE DEF read
    <3> QED BY <3>3, <3>4
  <2>5. \A side \in Sides : comparison'.read[side] = {} /\ comparison'.sliced[side] = {}
    BY <2>1 DEF NoComparison
  <2>6. OneVerdict(C, B)'
    <3>1. TheVerdict(C, B)' = TheVerdict(C, B)  BY <2>1 DEF TheVerdict
    <3> QED BY <1>0, <2>1, <2>3, <2>4, <2>5, <3>1 DEF OneVerdict, Only
  <2>7. comparison' = [stage |-> comparison'.stage,
                       read |-> [side \in Sides |-> comparison'.read[side]],
                       sliced |-> [side \in Sides |-> comparison'.sliced[side]]]
    BY <2>1 DEF NoComparison
  <2> QED BY <2>1, <2>2, <2>6, <2>7 DEF AnswersInv
<1> QED BY <1>1, <1>2, <1>3, <1>4, <1>5, <1>6 DEF ComparisonNext

LEMMA AnswersAlways == Spec => []AnswersInv
<1>1. Init => AnswersInv
  <2> SUFFICES ASSUME Init PROVE AnswersInv  OBVIOUS
  <2>1. /\ policy \in Policies /\ rows \in [current: {{}}, baseline: BaselineRows]
        /\ status = [current |-> "running", baseline |-> "completed"]
        /\ comparison = NoComparison /\ answers = {}
    BY DEF Init, ComparisonInit
  <2>2. rows = [side \in Sides |-> rows[side]]  BY <2>1 DEF Sides
  <2>3. status \in [Sides -> {"running", "completed", "deleted"}]  BY <2>1 DEF Sides
  <2> QED BY <2>1, <2>2, <2>3 DEF AnswersInv, NoComparison
<1>2. AnswersInv /\ [Next]_vars => AnswersInv'
  <2> SUFFICES ASSUME AnswersInv, [Next]_vars PROVE AnswersInv'  OBVIOUS
  <2>1. CASE UNCHANGED comparisonVars
    <3>1. UNCHANGED <<policy, rows, status, comparison, answers>>
      BY <2>1 DEF comparisonVars
    <3>2. CASE status["current"] = "running"  BY <3>1, <3>2 DEF AnswersInv
    <3>3. CASE status["current"] # "running"
      <4>1. PICK C, B : OneVerdict(C, B)  BY <3>3 DEF AnswersInv
      <4>2. OneVerdict(C, B)'  BY <3>1, <4>1 DEF OneVerdict, Only, TheVerdict
      <4> QED BY <3>1, <3>3, <4>2 DEF AnswersInv
    <3> QED BY <3>2, <3>3
  <2>2. CASE ComparisonNext  BY <2>2, ComparisonStep
  <2> QED BY <2>1, <2>2 DEF Next, vars
<1> QED BY <1>1, <1>2, PTL DEF Spec

(* Whenever comparisons are made, and whatever is deleted while one is being *)
(* made, the decisive answers about a pair of runs agree.                    *)
THEOREM OneAnswer == Spec => []OneDecisiveAnswer
<1>1. AnswersInv => OneDecisiveAnswer
  <2> SUFFICES ASSUME AnswersInv, "passed" \in answers, "regressed" \in answers PROVE FALSE
    BY DEF OneDecisiveAnswer, Decisive
  <2>1. PICK v : answers \subseteq {"inconclusive", v}  BY DEF AnswersInv, OneVerdict
  <2> QED BY <2>1
<1> QED BY <1>1, AnswersAlways, PTL

=============================================================================
