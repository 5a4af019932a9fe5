----------------------------- MODULE Measurements -----------------------------
(***************************************************************************)
(* Everything that turns stored evidence into a verdict: release checks    *)
(* over single-model runs, pairwise runs, the scoring of an agent's        *)
(* evidence, the command-line scenario runner, and the scenario runs of a  *)
(* workspace.  None of the five touches the state of another, so that a    *)
(* behaviour follows one of them.                                          *)
(***************************************************************************)
EXTENDS BaselineComparison, PairwiseMetrics, ScenarioScoring, ScenarioRunner, ScenarioSuites

VARIABLE studied   \* what this behaviour follows

vars == <<comparisonVars, pairwiseVars, captureVars, runnerVars, suitesVars, studied>>

Subjects == {"evaluation", "pairwise", "capture", "runner", "suites"}

\* What is not followed starts in one state, whichever.
Init ==
  /\ studied \in Subjects
  /\ ComparisonInit /\ PairwiseInit /\ CaptureInit /\ RunnerInit /\ SuitesInit
  /\ studied # "evaluation" =>
       /\ policy = CHOOSE p \in Policies : TRUE
       /\ rows["baseline"] = CHOOSE old \in BaselineRows : TRUE
  /\ studied # "pairwise" => stored = CHOOSE old \in LegacyRows : TRUE
  /\ studied # "capture" => contract = CHOOSE c \in Contracts : TRUE

Next ==
  \/ /\ studied = "evaluation" /\ ComparisonNext
     /\ UNCHANGED <<pairwiseVars, captureVars, runnerVars, suitesVars, studied>>
  \/ /\ studied = "pairwise" /\ PairwiseNext
     /\ UNCHANGED <<comparisonVars, captureVars, runnerVars, suitesVars, studied>>
  \/ /\ studied = "capture" /\ CaptureNext
     /\ UNCHANGED <<comparisonVars, pairwiseVars, runnerVars, suitesVars, studied>>
  \/ /\ studied = "runner" /\ RunnerNext
     /\ UNCHANGED <<comparisonVars, pairwiseVars, captureVars, suitesVars, studied>>
  \/ /\ studied = "suites" /\ SuitesNext
     /\ UNCHANGED <<comparisonVars, pairwiseVars, captureVars, runnerVars, studied>>

Spec == Init /\ [][Next]_vars

=============================================================================
