---------------------------- MODULE ScenarioRunner ----------------------------
(***************************************************************************)
(* The command-line scenario runner: it executes the scenarios one after   *)
(* the other and keeps two files, a line per result and a manifest with    *)
(* the summary of the results so far.  The results file is appended to and *)
(* flushed, the manifest is replaced as a whole, so that each is one step. *)
(* A cancellation is seen while an adapter executes; the process may be    *)
(* killed anywhere, and a write may fail.                                  *)
(***************************************************************************)
EXTENDS Integers, FiniteSets, Sequences

CONSTANT ScenarioCount   \* the number of scenarios

ASSUME RunnerAssumption == ScenarioCount \in Nat \ {0}

VARIABLES phase,      \* where the runner is
          results,    \* the results it holds in memory
          lines,      \* the results file
          manifest    \* the manifest file

runnerVars == <<phase, results, lines, manifest>>

Decisions == {"passed", "regressed", "inconclusive"}

\* Mutation: only the results at hand are expected.
SummaryOfRecorded(seen) ==
  IF \E i \in DOMAIN seen : seen[i] = "inconclusive" THEN "inconclusive"
  ELSE IF \A i \in DOMAIN seen : seen[i] = "passed" THEN "passed" ELSE "regressed"

\* The decision over all the scenarios: inconclusive while one is missing or
\* was not evaluated.
Summary(seen) ==
  IF Len(seen) # ScenarioCount \/ \E i \in DOMAIN seen : seen[i] = "inconclusive"
  THEN "inconclusive"
  ELSE IF \A i \in DOMAIN seen : seen[i] = "passed" THEN "passed" ELSE "regressed"

Manifest(status, seen) ==
  [status |-> status, recorded |-> Len(seen), decision |-> Summary(seen)]

RunnerInit ==
  /\ phase = "executing"
  /\ results = <<>> /\ lines = <<>>
  /\ manifest = [status |-> "running", recorded |-> 0, decision |-> "inconclusive"]

\* The adapter answers and the evidence is scored; a failed execution, a
\* timeout or evidence that breaks the format is an inconclusive result.
ExecuteScenario(result) ==
  /\ phase = "executing" /\ Len(results) < ScenarioCount
  /\ results' = Append(results, result)
  /\ phase' = "executed"
  /\ UNCHANGED <<lines, manifest>>

WriteLine ==
  /\ phase = "executed"
  /\ lines' = Append(lines, results[Len(results)])
  /\ phase' = "written"
  /\ UNCHANGED <<results, manifest>>

SaveManifest ==
  /\ phase = "written"
  /\ manifest' = Manifest("running", results)
  /\ phase' = "executing"
  /\ UNCHANGED <<results, lines>>

\* The last step of every ending: the manifest is saved with its status.
Close(status) ==
  /\ manifest' = Manifest(status, results)
  /\ phase' = "exited"
  /\ UNCHANGED <<results, lines>>

Finish == phase = "executing" /\ Len(results) = ScenarioCount /\ Close("completed")

\* The task is cancelled while it awaits an agent.  A KeyboardInterrupt raised
\* between two statements is left out (README).
Interrupt == phase = "executing" /\ Len(results) < ScenarioCount /\ Close("interrupted")

\* Mutation: an ending forgets that a write failed.
CompletedAnyway == phase \in {"executed", "written"} /\ Close("completed")

\* The line or the manifest cannot be written.
WriteFails == phase \in {"executed", "written"} /\ Close("failed")

Kill ==
  /\ phase \notin {"exited", "killed"}
  /\ phase' = "killed"
  /\ results' = <<>>
  /\ UNCHANGED <<lines, manifest>>

RunnerNext ==
  \/ \E result \in Decisions : ExecuteScenario(result)
  \/ WriteLine \/ SaveManifest \/ Finish \/ Interrupt \/ WriteFails \/ Kill

-----------------------------------------------------------------------------
(* Properties, over the two files only. *)

\* A manifest that was not left by a failed write tells of nothing the results
\* file does not hold, at whatever moment the process was killed or its task
\* cancelled: its decision is the one its lines give, and once the runner has
\* ended on its own no line is missing from it.
ManifestFollowsLines ==
  manifest.status # "failed" =>
    /\ manifest.recorded <= Len(lines) /\ Len(lines) <= manifest.recorded + 1
    /\ manifest.status # "running" => manifest.recorded = Len(lines)
    /\ manifest.status = "completed" => Len(lines) = ScenarioCount

\* A manifest says passed only when every scenario has a passing line; after a
\* failed write, when all but the last have.
PassedHasLines ==
  manifest.decision = "passed" =>
    /\ \A i \in DOMAIN lines : lines[i] = "passed"
    /\ Len(lines) >= ScenarioCount - (IF manifest.status = "failed" THEN 1 ELSE 0)

=============================================================================
