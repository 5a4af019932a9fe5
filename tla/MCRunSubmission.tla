--------------------------- MODULE MCRunSubmission ---------------------------
(***************************************************************************)
(* Instances of the submission of runs for TLC.                            *)
(***************************************************************************)
EXTENDS RunSubmission, TLC

CONSTANTS MaxVersions,   \* bound: versions used beside submissions
          MaxBusy        \* bound: datasets, runs and uploads at one time

Symmetry == Permutations(Runs) \cup Permutations(Versions)
            \cup Permutations(Datasets) \cup Permutations(Submitters)
            \cup Permutations(Uploaders)

DatasetsUsed == {d \in Datasets : dataset[d].state # "unused"}
RunsUsed == {r \in Runs : run[r].state # "unused"}
Uploading == {u \in Uploaders : upload[u] # Idle}

\* Bound: uploads and activations are explored with every version and every
\* uploader in one dataset while nothing else goes on; beside submissions and
\* runs there are few versions, and only so many datasets, runs and uploads.
Explored ==
  \/ /\ \A s \in Submitters : request[s].stage = "idle"
     /\ RunsUsed = {} /\ Cardinality(DatasetsUsed) <= 1
  \/ /\ Cardinality({v \in Versions : version[v].state # "unused"}) <= MaxVersions
     /\ Cardinality(DatasetsUsed) + Cardinality(RunsUsed) + Cardinality(Uploading) <= MaxBusy

=============================================================================
