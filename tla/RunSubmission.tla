---------------------------- MODULE RunSubmission ----------------------------
(***************************************************************************)
(* What a run is bound to, from the request that submits it to the         *)
(* retention that removes it.  A submission checks the plan, then looks up *)
(* the approved release policy, then stores the run with the dataset       *)
(* version it will execute: three transactions with nothing held between   *)
(* them.  Meanwhile versions are uploaded and activated, revisions are     *)
(* approved, the project or the dataset is deleted, and retention removes  *)
(* old runs and versions unless a legal hold is set.                       *)
(*                                                                         *)
(* The database is PostgreSQL: foreign keys are enforced and the rows a    *)
(* transaction locks or deletes keep others waiting until it ends.  There  *)
(* is one workspace with one project.                                      *)
(***************************************************************************)
EXTENDS DatasetRegistry, ReleasePolicies

CONSTANTS Runs,        \* identifiers of runs
          Submitters,  \* requests that submit a run at the same time
          Kinds,       \* the kinds of run submitted
          Holds,       \* the values owners give to the legal hold
          Limits,      \* the values owners give to the limit on runs
          Cases,       \* the number of cases of every dataset version
          CaseLimit    \* the limit on evaluated cases

ASSUME SubmissionAssumption ==
  /\ IsFiniteSet(Runs)
  /\ IsFiniteSet(Submitters) /\ Submitters # {}
  /\ Kinds \subseteq {"evaluation", "pairwise"} /\ Holds \subseteq BOOLEAN
  /\ Limits # {} /\ IsFiniteSet(Limits) /\ Limits \subseteq Nat
  /\ Cases \in Nat /\ CaseLimit \in Nat
  /\ MaxRevisions \in Nat

VARIABLES project,    \* "open", "checked" by a deletion request, or "gone"
          run,        \* run row
          request,    \* what each submission has established so far
          runLimit,   \* the plan's limit on runs
          hold,       \* the workspace's legal hold
          retention   \* the rows an open retention transaction will delete

submissionVars == <<project, run, request, runLimit, hold, retention>>
vars == <<registryVars, policyVars, submissionVars>>

Terminal == {"completed", "failed"}

NoRun == [state |-> "unused", kind |-> "evaluation", dataset |-> NoDataset,
          version |-> NoVersion, assigned |-> FALSE, policy |-> NoPolicy,
          status |-> "queued", retry |-> FALSE, began |-> NoPolicy]

NoRequest == [stage |-> "idle", kind |-> "evaluation", dataset |-> NoDataset,
              pin |-> NoVersion, policy |-> NoPolicy, began |-> NoPolicy]

NotRetaining == [open |-> FALSE, runs |-> {}, versions |-> {}]

Init ==
  /\ RegistryInit /\ PolicyInit
  /\ project = "open"
  /\ run = [r \in Runs |-> NoRun]
  /\ request = [s \in Submitters |-> NoRequest]
  /\ runLimit \in Limits
  /\ hold = FALSE
  /\ retention = NotRetaining

Kept(r) == run[r].state = "live"
KeptRuns == {r \in Runs : Kept(r)}
RunsOf(d) == {r \in KeptRuns : run[r].dataset = d}

-----------------------------------------------------------------------------
(* The plan's limits. *)

\* The month's usage: the runs of the workspace's projects, and the cases
\* whose results those runs have stored.
RunUsage == {r \in KeptRuns : run[r].assigned}
CaseUsage == Cases * Cardinality({r \in RunUsage : run[r].status = "completed"})

\* Mutation: the limit is compared with the usage before the request.
FitsBefore(used, increment, limit) == used <= limit

\* A counter with room for the increment.
Fits(used, increment, limit) == used + increment <= limit

SetRunLimit(n) ==
  /\ runLimit' = n
  /\ UNCHANGED <<registryVars, policyVars, project, run, request, hold, retention>>

-----------------------------------------------------------------------------
(* Submission. *)

\* The request reaches a dataset of the project, and the capacity check finds
\* a version to count and room for one more run and its cases.  "began"
\* remembers, for the properties only, the policy in force at this moment.
Admit(s, d, pin, kind) ==
  /\ request[s].stage = "idle"
  /\ project # "gone" /\ Live(d)
  /\ Resolved(d, pin) # {}
  /\ Fits(Cardinality(RunUsage), 1, runLimit)
  /\ Fits(CaseUsage, Cases, CaseLimit)
  /\ request' = [request EXCEPT ![s] =
       [stage |-> "admitted", kind |-> kind, dataset |-> d, pin |-> pin,
        policy |-> NoPolicy,
        began |-> IF kind = "evaluation" THEN LatestApproved ELSE NoPolicy]]
  /\ UNCHANGED <<registryVars, policyVars, project, run, runLimit, hold, retention>>

\* The release policy is looked up; a pairwise run has none.
BindPolicy(s) ==
  /\ request[s].stage = "admitted"
  /\ request' = [request EXCEPT
       ![s].stage = "bound",
       ![s].policy = IF request[s].kind = "evaluation" THEN LatestApproved ELSE NoPolicy]
  /\ UNCHANGED <<registryVars, policyVars, project, run, runLimit, hold, retention>>

\* A foreign key from a run to its policy revision.
PolicyExists(n) == n <= drafted

\* The run is stored with the version resolved now, which need not be the one
\* the capacity check counted.
StoreRun(s, r, v) ==
  LET req == request[s] IN
  /\ req.stage = "bound"
  /\ run[r].state = "unused"
  /\ Live(req.dataset)
  /\ v \in Resolved(req.dataset, req.pin)
  /\ PolicyExists(req.policy)
  /\ run' = [run EXCEPT ![r] =
       [state |-> "live", kind |-> req.kind, dataset |-> req.dataset, version |-> v,
        assigned |-> project # "gone", policy |-> req.policy, status |-> "queued",
        retry |-> FALSE, began |-> req.began]]
  /\ request' = [request EXCEPT ![s] = NoRequest]
  /\ UNCHANGED <<registryVars, policyVars, project, runLimit, hold, retention>>

\* A submission ends without a run: a provider that cannot be created, a
\* dataset or version that is gone, a foreign key that fails.
Reject(s) ==
  /\ request[s].stage # "idle"
  /\ request' = [request EXCEPT ![s] = NoRequest]
  /\ UNCHANGED <<registryVars, policyVars, project, run, runLimit, hold, retention>>

\* A failed run is retried as a new run with the same binding; no limit is
\* checked.
Retry(r, new) ==
  /\ r \in RunUsage /\ run[r].status = "failed"
  /\ run[new].state = "unused"
  /\ run' = [run EXCEPT ![new] =
       [run[r] EXCEPT !.status = "queued", !.retry = TRUE]]
  /\ UNCHANGED <<registryVars, policyVars, project, request, runLimit, hold, retention>>

\* The worker executes the pinned version, or fails when it is not there.
Execute(r, outcome) ==
  /\ Kept(r) /\ run[r].status = "queued"
  /\ Stored(run[r].version) \/ outcome = "failed"
  /\ run' = [run EXCEPT ![r].status = outcome]
  /\ UNCHANGED <<registryVars, policyVars, project, request, runLimit, hold, retention>>

-----------------------------------------------------------------------------
(* Deletion. *)

\* The rows of deleted runs.
Without(S) ==
  [r \in Runs |-> IF r \in S THEN [run[r] EXCEPT !.state = "deleted"] ELSE run[r]]

\* A dataset takes its evaluation runs with it and is refused while pairwise
\* runs refer to it.  Rows retention is deleting would keep it waiting.
DeleteDataset(d) ==
  /\ project # "gone"
  /\ \A r \in RunsOf(d) : run[r].kind = "evaluation" /\ r \notin retention.runs
  /\ DropDataset(d)
  /\ run' = Without(RunsOf(d))
  /\ UNCHANGED <<policyVars, project, request, runLimit, hold, retention>>

\* The route refuses a project with policy revisions in one session and
\* deletes the project in another.
CheckProject ==
  /\ project = "open" /\ drafted = 0
  /\ project' = "checked"
  /\ UNCHANGED <<registryVars, policyVars, run, request, runLimit, hold, retention>>

\* Runs stay, unassigned and without a policy; the revisions go.
DeleteProject ==
  /\ project = "checked" /\ retention.runs = {}
  /\ project' = "gone"
  /\ DropRevisions
  /\ run' = [r \in Runs |-> IF Kept(r)
               THEN [run[r] EXCEPT !.assigned = FALSE, !.policy = NoPolicy] ELSE run[r]]
  /\ UNCHANGED <<registryVars, request, runLimit, hold, retention>>

\* Mutation: the settings are written without locking the workspace row.
SetHoldUnlocked(b) ==
  /\ hold' = b
  /\ UNCHANGED <<registryVars, policyVars, project, run, request, runLimit, retention>>

\* Both the settings and retention lock the workspace row first.
SetHold(b) ==
  /\ ~retention.open
  /\ hold' = b
  /\ UNCHANGED <<registryVars, policyVars, project, run, request, runLimit, retention>>

\* Does a run other than those in S refer to version v?
Referenced(v, S) == \E r \in KeptRuns \ S : run[r].version = v

\* Without a hold, retention selects the old terminal runs of the project and
\* the old inactive versions that no remaining run refers to; how old a row is
\* is left open.
BeginRetention(R, V) ==
  /\ ~retention.open /\ ~hold
  /\ \A r \in R : r \in RunUsage /\ run[r].status \in Terminal
  /\ \A v \in V : Stored(v) /\ ~version[v].active /\ ~Referenced(v, R)
  /\ project # "gone"
  /\ retention' = [open |-> TRUE, runs |-> R, versions |-> V]
  /\ UNCHANGED <<registryVars, policyVars, project, run, request, runLimit, hold>>

\* The deletion commits, or a reference made meanwhile rolls all of it back.
\* Whether a selected version has become active is not looked at again.
EndRetention ==
  /\ retention.open
  /\ retention' = NotRetaining
  /\ IF \E v \in retention.versions : Referenced(v, retention.runs)
     THEN UNCHANGED <<registryVars, run>>
     ELSE DropVersions(retention.versions) /\ run' = Without(retention.runs)
  /\ UNCHANGED <<policyVars, project, request, runLimit, hold>>

-----------------------------------------------------------------------------

Submission ==
  \/ \E s \in Submitters, d \in Datasets, pin \in Versions \cup {NoVersion}, kind \in Kinds :
       Admit(s, d, pin, kind)
  \/ \E s \in Submitters : BindPolicy(s) \/ Reject(s)
  \/ \E s \in Submitters, r \in Runs, v \in Versions : StoreRun(s, r, v)
  \/ \E r, new \in Runs : Retry(r, new)
  \/ \E r \in Runs, outcome \in Terminal : Execute(r, outcome)

Governance ==
  \/ \E n \in Limits : SetRunLimit(n)
  \/ \E b \in Holds : SetHold(b)
  \/ \E R \in SUBSET Runs, V \in SUBSET Versions : BeginRetention(R, V)
  \/ EndRetention
  \/ \E d \in Datasets : DeleteDataset(d)
  \/ CheckProject \/ DeleteProject

\* New datasets, uploads and revisions need the project; an upload under way
\* does not look at it again.
Next ==
  \/ project # "gone" /\ RegistryOpen /\ UNCHANGED <<policyVars, submissionVars>>
  \/ RegistryClose /\ UNCHANGED <<policyVars, submissionVars>>
  \/ project # "gone" /\ PolicyNext /\ UNCHANGED <<registryVars, submissionVars>>
  \/ Submission
  \/ Governance

Spec == Init /\ [][Next]_vars

-----------------------------------------------------------------------------
(* Properties. *)

Row0 == [state: States, kind: {"evaluation", "pairwise"}, dataset: Datasets \cup {NoDataset},
         version: Versions \cup {NoVersion}, assigned: BOOLEAN, policy: Nat,
         status: {"queued"} \cup Terminal, retry: BOOLEAN, began: Nat]

\* The rows and the requests have the shape the actions rely on.
SubmissionTypeOK ==
  /\ drafted \in Nat /\ approved \subseteq 1..drafted
  /\ project \in {"open", "checked", "gone"}
  /\ run \in [Runs -> Row0]
  /\ request \in [Submitters -> [stage: {"idle", "admitted", "bound"},
       kind: {"evaluation", "pairwise"},
       dataset: Datasets \cup {NoDataset}, pin: Versions \cup {NoVersion},
       policy: Nat, began: Nat]]
  /\ runLimit \in Limits
  /\ hold \in BOOLEAN
  /\ retention \in [open: BOOLEAN, runs: SUBSET Runs, versions: SUBSET Versions]

\* A stored run's version is stored and belongs to the run's dataset, whatever
\* was uploaded, activated, retained or deleted since: it can be executed and
\* its evidence can be read.
PinnedVersionStays ==
  \A r \in KeptRuns :
    /\ Stored(run[r].version)
    /\ version[run[r].version].dataset = run[r].dataset

\* A run of the project is bound to an approved revision no older than the
\* one in force when its request was admitted: approvals that arrive between
\* the lookup and the insert never leave it with less than what it was
\* submitted under.
PolicyInForce ==
  \A r \in RunUsage :
    /\ run[r].policy \in approved \cup {NoPolicy}
    /\ run[r].policy >= run[r].began

\* Nothing is reserved by the capacity check, so requests that pass it together
\* exceed the limit; they exceed it by less than their number, however many
\* runs there were.  Retries are not checked and not counted.
OvershootBounded ==
  Cardinality({r \in RunUsage : ~run[r].retry})
    < Max(Limits) + Cardinality(Submitters)

\* Retention deletes nothing while a legal hold is set: a hold that is
\* acknowledged stops a retention that has not committed.
HoldStopsRetention ==
  [][(retention.open /\ ~retention'.open) => ~hold]_vars

=============================================================================
