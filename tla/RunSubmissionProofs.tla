------------------------- MODULE RunSubmissionProofs -------------------------
(***************************************************************************)
(* What a submitted run stays bound to, for any numbers of datasets,       *)
(* versions, runs, uploads, submissions and policy revisions.              *)
(***************************************************************************)
EXTENDS RunSubmission, FiniteSetTheorems, WellFoundedInduction, TLAPS

(* The shape of the registry's rows and of what its writers have read.       *)
RegistryTypeOK ==
  /\ dataset \in [Datasets -> [state: States, latest: Nat]]
  /\ version \in [Versions -> [state: States, dataset: Datasets \cup {NoDataset},
                               number: Nat, active: BOOLEAN]]
  /\ upload \in [Uploaders -> [op: {"idle", "add", "activate"},
       dataset: Datasets \cup {NoDataset}, target: Versions \cup {NoVersion},
       seen: SUBSET Versions, latest: Nat]]

TypeInv == RegistryTypeOK /\ SubmissionTypeOK

-----------------------------------------------------------------------------
(* The greatest element. *)

(* A finite set of integers has one: among the sets of greater elements one  *)
(* is minimal, and it can only be empty.                                     *)
LEMMA MaxOfFinite ==
  ASSUME NEW S \in SUBSET Int, IsFiniteSet(S), S # {}
  PROVE  Max(S) \in S /\ \A y \in S : Max(S) >= y
<1> DEFINE Above(x) == {y \in S : y > x}
<1> DEFINE Family == {Above(x) : x \in S}
<1>1. IsWellFoundedOn(StrictSubsetOrdering(S), SUBSET S)
  BY FS_StrictSubsetOrderingWellFounded, FS_FiniteSubsetsOfFinite
<1>2. Family \subseteq SUBSET S /\ Family # {}  OBVIOUS
<1>3. PICK A \in Family : \A B \in Family : ~ (<<B, A>> \in StrictSubsetOrdering(S))
  <2> HIDE DEF Family
  <2> QED BY <1>1, <1>2, WFMin
<1>4. PICK x \in S : A = Above(x)  BY <1>3
<1>5. \A y \in S : x >= y
  <2> SUFFICES ASSUME NEW y \in S, y > x PROVE FALSE  OBVIOUS
  <2>1. ASSUME NEW z \in Above(y) PROVE z \in Above(x)
    <3>1. x \in Int /\ y \in Int /\ z \in Int /\ z > y /\ z \in S  OBVIOUS
    <3>2. z > x  BY <3>1
    <3> QED BY <3>1, <3>2
  <2>2. y \in Above(x) /\ y \notin Above(y)  OBVIOUS
  <2>3. <<Above(y), Above(x)>> \in StrictSubsetOrdering(S)
    BY <2>1, <2>2 DEF StrictSubsetOrdering
  <2> QED BY <1>3, <1>4, <2>3
<1> QED BY <1>5 DEF Max

(* Of any approvals, the one with the highest number.                        *)
LEMMA GreatestRevision ==
  ASSUME NEW n \in Nat, NEW A, A \subseteq 1..n
  PROVE  /\ Max(A \cup {NoPolicy}) \in A \cup {NoPolicy}
         /\ \A m \in A \cup {NoPolicy} : m <= Max(A \cup {NoPolicy})
         /\ Max(A \cup {NoPolicy}) \in Nat
<1> DEFINE S == A \cup {NoPolicy}
<1>1. S \in SUBSET Int /\ S # {} /\ S \subseteq Nat  BY DEF NoPolicy
<1>2. \A m \in S : m <= n  BY DEF NoPolicy
<1> HIDE DEF S
<1>3. IsFiniteSet(S)  BY <1>1, <1>2, FS_BoundedSetOfNaturals
<1>4. Max(S) \in S /\ \A y \in S : Max(S) >= y  BY <1>1, <1>3, MaxOfFinite
<1>5. \A m \in S : m <= Max(S)
  <2> TAKE m \in S
  <2>1. Max(S) >= m /\ m \in Int /\ Max(S) \in Int  BY <1>1, <1>4
  <2> QED BY <2>1
<1> QED BY <1>1, <1>4, <1>5 DEF S

(* The policy in force is an approved revision, and none has a higher number. *)
LEMMA LatestIsApproved ==
  ASSUME drafted \in Nat, approved \subseteq 1..drafted
  PROVE  /\ LatestApproved \in approved \cup {NoPolicy}
         /\ \A n \in approved \cup {NoPolicy} : n <= LatestApproved
         /\ LatestApproved \in Nat
BY GreatestRevision DEF LatestApproved

-----------------------------------------------------------------------------
(* Type correctness. *)

(* Creating and uploading keep the shape of the registry.                    *)
LEMMA RegistryTypes ==
  ASSUME RegistryTypeOK, RegistryOpen \/ RegistryClose
  PROVE  RegistryTypeOK'
<1>1. CASE \E d \in Datasets, v \in Versions : CreateDataset(d, v)
  BY <1>1 DEF RegistryTypeOK, CreateDataset, Row, States
<1>2. ASSUME NEW u \in Uploaders, NEW d \in Datasets, NEW op \in {"add", "activate"},
             NEW target \in Versions \cup {NoVersion}, BeginUpload(u, d, op, target)
      PROVE  RegistryTypeOK'
  <2>1. ActiveOf(d) \in SUBSET Versions /\ dataset[d].latest \in Nat
    BY DEF ActiveOf, VersionsOf, RegistryTypeOK
  <2>2. [op |-> op, dataset |-> d, target |-> target, seen |-> ActiveOf(d),
         latest |-> dataset[d].latest]
        \in [op: {"idle", "add", "activate"}, dataset: Datasets \cup {NoDataset},
             target: Versions \cup {NoVersion}, seen: SUBSET Versions, latest: Nat]
    BY <2>1
  <2> QED BY <1>2, <2>2 DEF RegistryTypeOK, BeginUpload
<1>3. ASSUME NEW u \in Uploaders PROVE Idle \in [op: {"idle", "add", "activate"},
         dataset: Datasets \cup {NoDataset}, target: Versions \cup {NoVersion},
         seen: SUBSET Versions, latest: Nat]
  BY DEF Idle
<1>4. ASSUME NEW u \in Uploaders, NEW new \in Versions, CommitAdd(u, new)
      PROVE  RegistryTypeOK'
  <2>1. upload[u].dataset \in Datasets \cup {NoDataset} /\ upload[u].latest + 1 \in Nat
    BY DEF RegistryTypeOK
  <2>2. Row(upload[u].dataset, upload[u].latest + 1)
        \in [state: States, dataset: Datasets \cup {NoDataset}, number: Nat, active: BOOLEAN]
    BY <2>1 DEF Row, States
  <2>3. \A v \in Versions : [version[v] EXCEPT !.active = @ /\ v \notin upload[u].seen]
        \in [state: States, dataset: Datasets \cup {NoDataset}, number: Nat, active: BOOLEAN]
    BY DEF RegistryTypeOK
  <2>4. version' \in [Versions -> [state: States, dataset: Datasets \cup {NoDataset},
                                   number: Nat, active: BOOLEAN]]
    BY <1>4, <2>2, <2>3 DEF CommitAdd, Added
  <2>5. dataset' \in [Datasets -> [state: States, latest: Nat]]
    BY <1>4, <2>1 DEF CommitAdd, RegistryTypeOK
  <2> QED BY <1>3, <1>4, <2>4, <2>5 DEF CommitAdd, RegistryTypeOK
<1>5. ASSUME NEW u \in Uploaders, CommitActivate(u) PROVE RegistryTypeOK'
  <2>1. version' \in [Versions -> [state: States, dataset: Datasets \cup {NoDataset},
                                   number: Nat, active: BOOLEAN]]
    BY <1>5 DEF CommitActivate, RegistryTypeOK
  <2> QED BY <1>3, <1>5, <2>1 DEF CommitActivate, RegistryTypeOK
<1>6. ASSUME NEW u \in Uploaders, AbandonUpload(u) PROVE RegistryTypeOK'
  BY <1>3, <1>6 DEF AbandonUpload, RegistryTypeOK
<1> QED BY <1>1, <1>2, <1>4, <1>5, <1>6 DEF RegistryOpen, RegistryClose

(* So do deletions.                                                          *)
LEMMA DropTypes ==
  ASSUME RegistryTypeOK, \/ \E d \in Datasets : DropDataset(d)
                         \/ \E S \in SUBSET Versions : DropVersions(S)
  PROVE  RegistryTypeOK'
<1>1. ASSUME NEW d \in Datasets, DropDataset(d) PROVE RegistryTypeOK'
  <2>1. dataset' \in [Datasets -> [state: States, latest: Nat]]
    BY <1>1 DEF RegistryTypeOK, DropDataset, States
  <2>2. version' \in [Versions -> [state: States, dataset: Datasets \cup {NoDataset},
                                   number: Nat, active: BOOLEAN]]
    BY <1>1 DEF RegistryTypeOK, DropDataset, States
  <2> QED BY <1>1, <2>1, <2>2 DEF RegistryTypeOK, DropDataset
<1>2. ASSUME NEW S \in SUBSET Versions, DropVersions(S) PROVE RegistryTypeOK'
  <2>1. version' \in [Versions -> [state: States, dataset: Datasets \cup {NoDataset},
                                   number: Nat, active: BOOLEAN]]
    BY <1>2 DEF RegistryTypeOK, DropVersions, States
  <2> QED BY <1>2, <2>1 DEF RegistryTypeOK, DropVersions
<1> QED BY <1>1, <1>2

Requests == [stage: {"idle", "admitted", "bound"}, kind: {"evaluation", "pairwise"},
             dataset: Datasets \cup {NoDataset}, pin: Versions \cup {NoVersion},
             policy: Nat, began: Nat]

(* The steps of a submission and of the worker keep the rows well formed.    *)
LEMMA SubmissionTypes ==
  ASSUME SubmissionTypeOK, Submission
  PROVE  SubmissionTypeOK'
<1> USE SubmissionAssumption
<1>0. LatestApproved \in Nat  BY LatestIsApproved DEF SubmissionTypeOK
<1>1. NoRequest \in Requests  BY DEF NoRequest, Requests, NoPolicy
<1>2. SUFFICES /\ run' \in [Runs -> Row0]
               /\ request' \in [Submitters -> Requests]
               /\ UNCHANGED <<policyVars, project, runLimit, hold, retention>>
  BY DEF SubmissionTypeOK, policyVars, Requests
<1>3. run \in [Runs -> Row0] /\ request \in [Submitters -> Requests]
  BY DEF SubmissionTypeOK, Requests
<1>4. ASSUME NEW s \in Submitters, NEW d \in Datasets, NEW pin \in Versions \cup {NoVersion},
             NEW kind \in Kinds, Admit(s, d, pin, kind)
      PROVE  request' \in [Submitters -> Requests] /\ run' \in [Runs -> Row0]
  <2>1. (IF kind = "evaluation" THEN LatestApproved ELSE NoPolicy) \in Nat
    BY <1>0 DEF NoPolicy
  <2>2. [stage |-> "admitted", kind |-> kind, dataset |-> d, pin |-> pin, policy |-> NoPolicy,
         began |-> IF kind = "evaluation" THEN LatestApproved ELSE NoPolicy] \in Requests
    BY <2>1 DEF Requests, NoPolicy
  <2> QED BY <1>3, <1>4, <2>2 DEF Admit
<1>5. ASSUME NEW s \in Submitters, BindPolicy(s)
      PROVE  request' \in [Submitters -> Requests] /\ run' \in [Runs -> Row0]
  <2>1. (IF request[s].kind = "evaluation" THEN LatestApproved ELSE NoPolicy) \in Nat
    BY <1>0 DEF NoPolicy
  <2>2. PICK p \in Nat :
          p = IF request[s].kind = "evaluation" THEN LatestApproved ELSE NoPolicy  BY <2>1
  <2>3. request' = [request EXCEPT ![s].stage = "bound", ![s].policy = p]
    BY <1>5, <2>2 DEF BindPolicy
  <2>4. PICK q \in Requests : q = request[s]  BY <1>3
  <2>5. [q EXCEPT !.stage = "bound", !.policy = p] \in Requests  BY DEF Requests
  <2>6. request' = [request EXCEPT ![s] = [q EXCEPT !.stage = "bound", !.policy = p]]
    BY <1>3, <2>3, <2>4, Zenon
  <2>7. request' \in [Submitters -> Requests]  BY <1>3, <2>5, <2>6
  <2> QED BY <1>3, <1>5, <2>7 DEF BindPolicy
<1>6. ASSUME NEW s \in Submitters, Reject(s)
      PROVE  request' \in [Submitters -> Requests] /\ run' \in [Runs -> Row0]
  BY <1>1, <1>3, <1>6 DEF Reject
<1>7. ASSUME NEW s \in Submitters, NEW r \in Runs, NEW v \in Versions, StoreRun(s, r, v)
      PROVE  request' \in [Submitters -> Requests] /\ run' \in [Runs -> Row0]
  <2>1. request[s] \in Requests  BY <1>3
  <2>2. [state |-> "live", kind |-> request[s].kind, dataset |-> request[s].dataset,
         version |-> v, assigned |-> project # "gone", policy |-> request[s].policy,
         status |-> "queued", retry |-> FALSE, began |-> request[s].began] \in Row0
    BY <2>1 DEF Requests, Row0, States
  <2> QED BY <1>1, <1>3, <1>7, <2>2 DEF StoreRun
<1>8. ASSUME NEW r \in Runs, NEW new \in Runs, Retry(r, new)
      PROVE  request' \in [Submitters -> Requests] /\ run' \in [Runs -> Row0]
  <2>1. run[r] \in Row0  BY <1>3
  <2>2. [run[r] EXCEPT !.status = "queued", !.retry = TRUE] \in Row0  BY <2>1 DEF Row0
  <2> QED BY <1>3, <1>8, <2>2 DEF Retry
<1>9. ASSUME NEW r \in Runs, NEW outcome \in Terminal, Execute(r, outcome)
      PROVE  request' \in [Submitters -> Requests] /\ run' \in [Runs -> Row0]
  BY <1>3, <1>9 DEF Execute, Row0
<1>10. UNCHANGED <<policyVars, project, runLimit, hold, retention>>
  BY DEF Submission, Admit, BindPolicy, Reject, StoreRun, Retry, Execute
<1> QED BY <1>4, <1>5, <1>6, <1>7, <1>8, <1>9, <1>10 DEF Submission

(* Deleted rows keep their shape.                                            *)
LEMMA WithoutTypes ==
  ASSUME run \in [Runs -> Row0], NEW S
  PROVE  Without(S) \in [Runs -> Row0]
BY DEF Without, Row0, States

(* And so do the steps of owners and of retention.                           *)
LEMMA GovernanceTypes ==
  ASSUME SubmissionTypeOK, Governance
  PROVE  SubmissionTypeOK'
<1> USE SubmissionAssumption
<1>0. run \in [Runs -> Row0]  BY DEF SubmissionTypeOK
<1>1. ASSUME NEW n \in Limits, SetRunLimit(n) PROVE SubmissionTypeOK'
  BY <1>1 DEF SetRunLimit, SubmissionTypeOK, policyVars
<1>2. ASSUME NEW b \in Holds, SetHold(b) PROVE SubmissionTypeOK'
  BY <1>2 DEF SetHold, SubmissionTypeOK, policyVars
<1>3. ASSUME NEW R \in SUBSET Runs, NEW V \in SUBSET Versions, BeginRetention(R, V)
      PROVE  SubmissionTypeOK'
  BY <1>3 DEF BeginRetention, SubmissionTypeOK, policyVars
<1>4. CASE EndRetention
  <2>1. run' \in [Runs -> Row0]  BY <1>0, <1>4, WithoutTypes DEF EndRetention
  <2>2. retention' \in [open: BOOLEAN, runs: SUBSET Runs, versions: SUBSET Versions]
    BY <1>4 DEF EndRetention, NotRetaining
  <2> QED BY <1>4, <2>1, <2>2 DEF EndRetention, SubmissionTypeOK, policyVars
<1>5. ASSUME NEW d \in Datasets, DeleteDataset(d) PROVE SubmissionTypeOK'
  <2>1. run' \in [Runs -> Row0]  BY <1>0, <1>5, WithoutTypes DEF DeleteDataset
  <2> QED BY <1>5, <2>1 DEF DeleteDataset, SubmissionTypeOK, policyVars
<1>6. CASE CheckProject
  BY <1>6 DEF CheckProject, SubmissionTypeOK, policyVars
<1>7. CASE DeleteProject
  <2>0. ASSUME NEW q \in Row0
        PROVE  [q EXCEPT !.assigned = FALSE, !.policy = NoPolicy] \in Row0
    BY DEF Row0, NoPolicy
  <2>1. run' \in [Runs -> Row0]  BY <1>0, <1>7, <2>0 DEF DeleteProject
  <2> QED BY <1>7, <2>1 DEF DeleteProject, DropRevisions, SubmissionTypeOK
<1> QED BY <1>1, <1>2, <1>3, <1>4, <1>5, <1>6, <1>7 DEF Governance

(* Every step keeps all of it.                                               *)
LEMMA TypeStep == TypeInv /\ [Next]_vars => TypeInv'
<1> SUFFICES ASSUME TypeInv, [Next]_vars PROVE TypeInv'  OBVIOUS
<1>1. CASE UNCHANGED vars
  BY <1>1 DEF TypeInv, RegistryTypeOK, SubmissionTypeOK, vars, registryVars, policyVars,
              submissionVars
<1>2. CASE (RegistryOpen \/ RegistryClose) /\ UNCHANGED <<policyVars, submissionVars>>
  <2>1. RegistryTypeOK'  BY <1>2, RegistryTypes DEF TypeInv
  <2>2. SubmissionTypeOK'  BY <1>2 DEF TypeInv, SubmissionTypeOK, policyVars, submissionVars
  <2> QED BY <2>1, <2>2 DEF TypeInv
<1>3. CASE PolicyNext /\ UNCHANGED <<registryVars, submissionVars>>
  <2>1. RegistryTypeOK'  BY <1>3 DEF TypeInv, RegistryTypeOK, registryVars
  <2>2. drafted' \in Nat /\ approved' \subseteq 1..drafted'
    <3>1. CASE CreateRevision  BY <3>1 DEF CreateRevision, TypeInv, SubmissionTypeOK
    <3>2. CASE \E n \in 1..MaxRevisions : Approve(n)
      BY <3>2 DEF Approve, TypeInv, SubmissionTypeOK
    <3> QED BY <1>3, <3>1, <3>2 DEF PolicyNext
  <2> QED BY <1>3, <2>1, <2>2 DEF TypeInv, SubmissionTypeOK, submissionVars
<1>4. CASE Submission
  <2>1. UNCHANGED registryVars
    BY <1>4 DEF Submission, Admit, BindPolicy, Reject, StoreRun, Retry, Execute
  <2>2. RegistryTypeOK'  BY <2>1 DEF TypeInv, RegistryTypeOK, registryVars
  <2> QED BY <1>4, <2>2, SubmissionTypes DEF TypeInv
<1>5. CASE Governance
  <2>1. \/ UNCHANGED registryVars
        \/ \E d \in Datasets : DropDataset(d)
        \/ \E S \in SUBSET Versions : DropVersions(S)
    <3>1. CASE EndRetention
      <4>1. retention.versions \in SUBSET Versions  BY DEF TypeInv, SubmissionTypeOK
      <4> QED BY <3>1, <4>1 DEF EndRetention
    <3>2. CASE \E d \in Datasets : DeleteDataset(d)  BY <3>2 DEF DeleteDataset
    <3> QED BY <1>5, <3>1, <3>2 DEF Governance, SetRunLimit, SetHold, BeginRetention,
                                    CheckProject, DeleteProject
  <2>2. RegistryTypeOK'  BY <2>1, DropTypes DEF TypeInv, RegistryTypeOK, registryVars
  <2> QED BY <1>5, <2>2, GovernanceTypes DEF TypeInv
<1> QED BY <1>1, <1>2, <1>3, <1>4, <1>5 DEF Next

LEMMA TypeInit == Init => TypeInv
<1> SUFFICES ASSUME Init PROVE TypeInv  OBVIOUS
<1>1. RegistryTypeOK  BY DEF Init, RegistryInit, RegistryTypeOK, States, Idle
<1>2. NoRun \in Row0  BY DEF NoRun, Row0, States, NoPolicy
<1>3. NoRequest \in Requests  BY DEF NoRequest, Requests, NoPolicy
<1>4. NotRetaining \in [open: BOOLEAN, runs: SUBSET Runs, versions: SUBSET Versions]
  BY DEF NotRetaining
<1>5. SubmissionTypeOK
  BY <1>2, <1>3, <1>4 DEF Init, PolicyInit, SubmissionTypeOK, Requests
<1> QED BY <1>1, <1>5 DEF TypeInv

(* Rows, requests and an open retention always have their shape; the policy  *)
(* a run is bound to is a revision number.                                   *)
THEOREM TypeCorrect == Spec => []SubmissionTypeOK
<1> QED BY TypeInit, TypeStep, PTL DEF Spec, TypeInv

-----------------------------------------------------------------------------
(* The version a run will execute. *)

VersionInv ==
  \A r \in KeptRuns :
    /\ run[r].version \in Versions
    /\ Stored(run[r].version)
    /\ version[run[r].version].dataset = run[r].dataset

(* Uploads and activations take no stored version away or to another dataset. *)
LEMMA VersionsStand ==
  ASSUME TypeInv, RegistryOpen \/ RegistryClose, NEW v \in Versions, Stored(v)
  PROVE  Stored(v)' /\ version'[v].dataset = version[v].dataset
<1>0. version[v].state = "live" /\ version[v].state # "unused"  BY DEF Stored
<1>1. CASE \E d \in Datasets, w \in Versions : CreateDataset(d, w)
  BY <1>0, <1>1 DEF CreateDataset, Stored, TypeInv, RegistryTypeOK
<1>2. CASE \E u \in Uploaders, d \in Datasets, op \in {"add", "activate"},
              target \in Versions \cup {NoVersion} : BeginUpload(u, d, op, target)
  BY <1>0, <1>2 DEF BeginUpload, Stored
<1>3. ASSUME NEW u \in Uploaders, NEW new \in Versions, CommitAdd(u, new)
      PROVE  Stored(v)' /\ version'[v].dataset = version[v].dataset
  <2>1. v # new  BY <1>0, <1>3 DEF CommitAdd
  <2>2. version'[v] = [version[v] EXCEPT !.active = @ /\ v \notin upload[u].seen]
    BY <1>3, <2>1 DEF CommitAdd, Added
  <2> QED BY <1>0, <2>2 DEF Stored, TypeInv, RegistryTypeOK
<1>4. ASSUME NEW u \in Uploaders, CommitActivate(u)
      PROVE  Stored(v)' /\ version'[v].dataset = version[v].dataset
  BY <1>0, <1>4 DEF CommitActivate, Stored, TypeInv, RegistryTypeOK
<1>5. CASE \E u \in Uploaders : AbandonUpload(u)
  BY <1>0, <1>5 DEF AbandonUpload, Stored
<1> QED BY <1>1, <1>2, <1>3, <1>4, <1>5 DEF RegistryOpen, RegistryClose

(* The runs that are left when those of S are deleted.                       *)
LEMMA WithoutKeeps ==
  ASSUME TypeInv, NEW S, run' = Without(S)
  PROVE  \A r \in KeptRuns' : r \in KeptRuns /\ r \notin S /\ run'[r] = run[r]
<1> TAKE r \in KeptRuns'
<1>1. r \in Runs /\ run'[r].state = "live"  BY DEF KeptRuns, Kept
<1>2. run[r] \in Row0  BY <1>1 DEF TypeInv, SubmissionTypeOK
<1>3. r \notin S
  <2> SUFFICES ASSUME r \in S PROVE FALSE  OBVIOUS
  <2>1. run'[r] = [run[r] EXCEPT !.state = "deleted"]  BY <1>1 DEF Without
  <2>2. run'[r].state = "deleted"  BY <1>2, <2>1 DEF Row0
  <2> QED BY <1>1, <2>2
<1>4. run'[r] = run[r]  BY <1>1, <1>3 DEF Without
<1> QED BY <1>1, <1>3, <1>4 DEF KeptRuns, Kept

LEMMA VersionStep == TypeInv /\ VersionInv /\ [Next]_vars => VersionInv'
<1> SUFFICES ASSUME TypeInv, VersionInv, [Next]_vars PROVE VersionInv'  OBVIOUS
<1>0. run \in [Runs -> Row0]  BY DEF TypeInv, SubmissionTypeOK
<1>1. CASE UNCHANGED vars
  BY <1>1 DEF VersionInv, KeptRuns, Kept, Stored, vars, registryVars, submissionVars
<1>2. CASE (RegistryOpen \/ RegistryClose) /\ UNCHANGED <<policyVars, submissionVars>>
  <2>1. run' = run  BY <1>2 DEF submissionVars
  <2> SUFFICES ASSUME NEW r \in KeptRuns
               PROVE  /\ run[r].version \in Versions
                      /\ version'[run[r].version].state = "live"
                      /\ version'[run[r].version].dataset = run[r].dataset
    BY <2>1 DEF VersionInv, KeptRuns, Kept, Stored
  <2>2. PICK v \in Versions : v = run[r].version  BY DEF VersionInv
  <2>3. Stored(v) /\ version[v].dataset = run[r].dataset  BY <2>2 DEF VersionInv
  <2>4. Stored(v)' /\ version'[v].dataset = run[r].dataset  BY <1>2, <2>3, VersionsStand
  <2> QED BY <2>2, <2>4 DEF Stored
<1>3. CASE PolicyNext /\ UNCHANGED <<registryVars, submissionVars>>
  BY <1>3 DEF VersionInv, KeptRuns, Kept, Stored, registryVars, submissionVars
<1>4. CASE Submission
  <2>0. version' = version
    BY <1>4 DEF Submission, Admit, BindPolicy, Reject, StoreRun, Retry, Execute, registryVars
  <2>1. ASSUME NEW s \in Submitters, NEW r \in Runs, NEW v \in Versions, StoreRun(s, r, v)
        PROVE  VersionInv'
    <3>1. Stored(v) /\ version[v].dataset = request[s].dataset
      BY <2>1 DEF StoreRun, Resolved, ActiveOf, VersionsOf
    <3>2. run'[r].version = v /\ run'[r].dataset = request[s].dataset
      BY <1>0, <2>1 DEF StoreRun
    <3>3. \A q \in Runs \ {r} : run'[q] = run[q]  BY <1>0, <2>1 DEF StoreRun
    <3> QED BY <2>0, <3>1, <3>2, <3>3 DEF VersionInv, KeptRuns, Kept, Stored
  <2>2. ASSUME NEW r \in Runs, NEW new \in Runs, Retry(r, new) PROVE VersionInv'
    <3>1. r \in KeptRuns  BY <2>2 DEF Retry, RunUsage
    <3>2. run'[new] = [run[r] EXCEPT !.status = "queued", !.retry = TRUE]
          /\ \A q \in Runs \ {new} : run'[q] = run[q]  BY <1>0, <2>2 DEF Retry
    <3>3. run[r] \in Row0  BY <1>0
    <3>4. run'[new].version = run[r].version /\ run'[new].dataset = run[r].dataset
      BY <3>2, <3>3 DEF Row0
    <3>5. PICK v \in Versions : v = run[r].version  BY <3>1 DEF VersionInv
    <3>6. Stored(v) /\ version[v].dataset = run[r].dataset  BY <3>1, <3>5 DEF VersionInv
    <3>7. \A q \in KeptRuns' : q = new \/ (q \in KeptRuns /\ run'[q] = run[q])
      BY <3>2 DEF KeptRuns, Kept
    <3> SUFFICES ASSUME NEW q \in KeptRuns'
                 PROVE  /\ run'[q].version \in Versions
                        /\ version[run'[q].version].state = "live"
                        /\ version[run'[q].version].dataset = run'[q].dataset
      BY <2>0 DEF VersionInv, Stored
    <3>8. CASE q = new  BY <3>4, <3>5, <3>6, <3>8 DEF Stored
    <3>9. CASE q \in KeptRuns /\ run'[q] = run[q]  BY <3>9 DEF VersionInv, Stored
    <3> QED BY <3>7, <3>8, <3>9
  <2>3. ASSUME NEW r \in Runs, NEW outcome \in Terminal, Execute(r, outcome)
        PROVE  VersionInv'
    <3>1. \A q \in Runs : /\ run'[q].version = run[q].version
                          /\ run'[q].dataset = run[q].dataset
                          /\ run'[q].state = run[q].state
      BY <1>0, <2>3 DEF Execute, Row0
    <3> QED BY <2>0, <3>1 DEF VersionInv, KeptRuns, Kept, Stored
  <2>4. CASE run' = run  BY <2>0, <2>4 DEF VersionInv, KeptRuns, Kept, Stored
  <2> QED BY <1>4, <2>1, <2>2, <2>3, <2>4 DEF Submission, Admit, BindPolicy, Reject
<1>5. CASE Governance
  <2>1. CASE EndRetention
    <3>1. CASE UNCHANGED <<registryVars, run>>
      BY <3>1 DEF VersionInv, KeptRuns, Kept, Stored, registryVars
    <3>2. ASSUME DropVersions(retention.versions), run' = Without(retention.runs),
                 ~ \E v \in retention.versions : Referenced(v, retention.runs)
          PROVE  VersionInv'
      <4> SUFFICES ASSUME NEW r \in KeptRuns'
                   PROVE  /\ run'[r].version \in Versions /\ version'[run'[r].version].state = "live"
                          /\ version'[run'[r].version].dataset = run'[r].dataset
        BY DEF VersionInv, Stored, KeptRuns, Kept
      <4>1. r \in KeptRuns /\ r \notin retention.runs /\ run'[r] = run[r]
        BY <3>2, WithoutKeeps
      <4>2. PICK v \in Versions : v = run[r].version  BY <4>1 DEF VersionInv
      <4>3. v \notin retention.versions  BY <3>2, <4>1, <4>2 DEF Referenced
      <4>4. version'[v] = version[v]  BY <3>2, <4>3 DEF DropVersions
      <4> QED BY <4>1, <4>2, <4>4 DEF VersionInv, Stored
    <3> QED BY <2>1, <3>1, <3>2 DEF EndRetention
  <2>2. ASSUME NEW d \in Datasets, DeleteDataset(d) PROVE VersionInv'
    <3> SUFFICES ASSUME NEW r \in KeptRuns'
                 PROVE  /\ run'[r].version \in Versions /\ version'[run'[r].version].state = "live"
                        /\ version'[run'[r].version].dataset = run'[r].dataset
      BY DEF VersionInv, Stored, KeptRuns, Kept
    <3>1. r \in KeptRuns /\ r \notin RunsOf(d) /\ run'[r] = run[r]
      BY <2>2, WithoutKeeps DEF DeleteDataset
    <3>2. PICK v \in Versions : v = run[r].version  BY <3>1 DEF VersionInv
    <3>3. run[r].dataset # d  BY <3>1 DEF RunsOf
    <3>4. v \notin VersionsOf(d)  BY <3>1, <3>2, <3>3 DEF VersionInv, VersionsOf
    <3>5. version'[v] = version[v]  BY <2>2, <3>4 DEF DeleteDataset, DropDataset
    <3> QED BY <3>1, <3>2, <3>5 DEF VersionInv, Stored
  <2>3. CASE DeleteProject
    <3>1. \A q \in Runs : /\ run'[q].version = run[q].version
                          /\ run'[q].dataset = run[q].dataset
                          /\ run'[q].state = run[q].state
      <4> TAKE q \in Runs
      <4>1. run[q] \in Row0  BY <1>0
      <4>2. run'[q] = run[q] \/ run'[q] = [run[q] EXCEPT !.assigned = FALSE, !.policy = NoPolicy]
        BY <2>3 DEF DeleteProject
      <4> QED BY <4>1, <4>2 DEF Row0
    <3>2. version' = version  BY <2>3 DEF DeleteProject, registryVars
    <3> QED BY <3>1, <3>2 DEF VersionInv, KeptRuns, Kept, Stored
  <2>4. CASE UNCHANGED <<registryVars, run>>
    BY <2>4 DEF VersionInv, KeptRuns, Kept, Stored, registryVars
  <2> QED BY <1>5, <2>1, <2>2, <2>3, <2>4 DEF Governance, SetRunLimit, SetHold,
                                             BeginRetention, CheckProject
<1> QED BY <1>1, <1>2, <1>3, <1>4, <1>5 DEF Next

(* Whatever is uploaded, activated, retained or deleted, and by however many *)
(* requests at once, a stored run's version is there to be executed.         *)
THEOREM VersionStays == Spec => []PinnedVersionStays
<1>1. Init => VersionInv  BY DEF Init, VersionInv, KeptRuns, Kept, NoRun
<1>2. VersionInv => PinnedVersionStays  BY DEF VersionInv, PinnedVersionStays
<1> QED BY <1>1, <1>2, TypeInit, TypeStep, VersionStep, PTL DEF Spec

-----------------------------------------------------------------------------
(* The policy a run is bound to. *)

(* While the project is there, what a request has established is still true  *)
(* of the approvals; afterwards nothing is bound to anything.                *)
PolicyInv ==
  IF project = "gone" THEN RunUsage = {}
  ELSE /\ \A s \in Submitters :
            /\ request[s].began = NoPolicy
               \/ (request[s].kind = "evaluation" /\ request[s].began <= LatestApproved)
            /\ request[s].stage = "bound" =>
                 /\ request[s].policy \in approved \cup {NoPolicy}
                 /\ request[s].policy >= request[s].began
       /\ PolicyInForce

(* Approvals only raise the policy in force.                                 *)
LEMMA PolicyRises ==
  ASSUME TypeInv, TypeInv', approved \subseteq approved'
  PROVE  LatestApproved <= LatestApproved' /\ LatestApproved \in Nat /\ LatestApproved' \in Nat
<1>1. drafted' \in Nat /\ approved' \subseteq 1..drafted'  BY DEF TypeInv, SubmissionTypeOK
<1>2. LatestApproved \in approved \cup {NoPolicy} /\ LatestApproved \in Nat
  BY LatestIsApproved DEF TypeInv, SubmissionTypeOK
<1>3. LatestApproved \in approved' \cup {NoPolicy}  BY <1>2
<1>4. LatestApproved' = Max(approved' \cup {NoPolicy})  BY DEF LatestApproved
<1>5. /\ \A m \in approved' \cup {NoPolicy} : m <= Max(approved' \cup {NoPolicy})
      /\ Max(approved' \cup {NoPolicy}) \in Nat
  BY <1>1, GreatestRevision
<1> QED BY <1>2, <1>3, <1>4, <1>5

(* Steps that leave the policies, the project and the requests, and give no  *)
(* run of the project another binding.                                       *)
LEMMA BindingsKept ==
  ASSUME PolicyInv, UNCHANGED <<policyVars, project, request>>,
         \A r \in RunUsage' : \E q \in RunUsage : /\ run'[r].policy = run[q].policy
                                                  /\ run'[r].began = run[q].began
  PROVE  PolicyInv'
<1>1. CASE project = "gone"  BY <1>1 DEF PolicyInv
<1>2. CASE project # "gone"
  <2>1. LatestApproved' = LatestApproved  BY DEF LatestApproved, policyVars
  <2>2. PolicyInForce'
    <3> SUFFICES ASSUME NEW r \in RunUsage'
                 PROVE  /\ run'[r].policy \in approved' \cup {NoPolicy}
                        /\ run'[r].policy >= run'[r].began
      BY DEF PolicyInForce
    <3>1. PICK q \in RunUsage : /\ run'[r].policy = run[q].policy
                                /\ run'[r].began = run[q].began  OBVIOUS
    <3> QED BY <1>2, <3>1 DEF PolicyInv, PolicyInForce, policyVars
  <2> QED BY <1>2, <2>1, <2>2 DEF PolicyInv, policyVars
<1> QED BY <1>1, <1>2

(* A request whose stage, policy and revision at its beginning are in order. *)
Ordered(req) ==
  /\ req.began = NoPolicy \/ (req.kind = "evaluation" /\ req.began <= LatestApproved)
  /\ req.stage = "bound" => req.policy \in approved \cup {NoPolicy} /\ req.policy >= req.began

(* A submission's own steps.                                                 *)
LEMMA RequestStep ==
  ASSUME TypeInv, PolicyInv, NEW s \in Submitters, NEW req \in Requests,
         request' = [request EXCEPT ![s] = req], Ordered(req),
         UNCHANGED <<policyVars, project, run>>
  PROVE  PolicyInv'
<1>1. RunUsage' = RunUsage  BY DEF RunUsage, KeptRuns, Kept
<1>2. CASE project = "gone"  BY <1>1, <1>2 DEF PolicyInv
<1>3. CASE project # "gone"
  <2>1. LatestApproved' = LatestApproved  BY DEF LatestApproved, policyVars
  <2>2. PolicyInForce'  BY <1>1, <1>3 DEF PolicyInv, PolicyInForce, policyVars
  <2>3. request'[s] = req /\ \A t \in Submitters \ {s} : request'[t] = request[t]
    BY DEF TypeInv, SubmissionTypeOK
  <2> QED BY <1>3, <2>1, <2>2, <2>3 DEF PolicyInv, Ordered, policyVars
<1> QED BY <1>2, <1>3

LEMMA PolicySubmission ==
  ASSUME TypeInv, PolicyInv, Submission
  PROVE  PolicyInv'
<1>0. run \in [Runs -> Row0] /\ request \in [Submitters -> Requests]
  BY DEF TypeInv, SubmissionTypeOK, Requests
<1>1. /\ LatestApproved \in approved \cup {NoPolicy}
      /\ \A n \in approved \cup {NoPolicy} : n <= LatestApproved
      /\ LatestApproved \in Nat
  BY LatestIsApproved DEF TypeInv, SubmissionTypeOK
<1>2. NoRequest \in Requests /\ Ordered(NoRequest)
  BY DEF NoRequest, Requests, Ordered, NoPolicy
<1>3. ASSUME NEW s \in Submitters, NEW d \in Datasets, NEW pin \in Versions \cup {NoVersion},
             NEW kind \in Kinds, Admit(s, d, pin, kind)
      PROVE  PolicyInv'
  <2>1. PICK req : req = [stage |-> "admitted", kind |-> kind, dataset |-> d, pin |-> pin,
             policy |-> NoPolicy,
             began |-> IF kind = "evaluation" THEN LatestApproved ELSE NoPolicy]  OBVIOUS
  <2>2. req \in Requests
    BY <1>1, <2>1, SubmissionAssumption DEF Requests, NoPolicy
  <2>3. Ordered(req)  BY <1>1, <2>1 DEF Ordered, NoPolicy
  <2> QED BY <1>3, <2>1, <2>2, <2>3, RequestStep DEF Admit, policyVars
<1>4. ASSUME NEW s \in Submitters, BindPolicy(s) PROVE PolicyInv'
  <2>1. PICK q \in Requests : q = request[s]  BY <1>0
  <2>2. PICK p \in Nat : p = IF q.kind = "evaluation" THEN LatestApproved ELSE NoPolicy
    BY <1>1 DEF NoPolicy
  <2>3. PICK req : req = [q EXCEPT !.stage = "bound", !.policy = p]  OBVIOUS
  <2>4. req \in Requests /\ req.stage = "bound" /\ req.policy = p /\ req.kind = q.kind
        /\ req.began = q.began
    BY <2>3 DEF Requests
  <2>5. request' = [request EXCEPT ![s] = req]
    BY <1>0, <1>4, <2>1, <2>2, <2>3, Zenon DEF BindPolicy
  <2>6. CASE project = "gone"
    <3>1. RunUsage' = {} /\ project' = "gone"
      BY <1>4, <2>6 DEF BindPolicy, PolicyInv, RunUsage, KeptRuns, Kept
    <3> QED BY <3>1 DEF PolicyInv
  <2>7. CASE project # "gone"
    <3>1. q.began = NoPolicy \/ (q.kind = "evaluation" /\ q.began <= LatestApproved)
      BY <2>1, <2>7 DEF PolicyInv
    <3>2. Ordered(req)  BY <1>1, <2>2, <2>4, <3>1 DEF Ordered, NoPolicy
    <3> QED BY <1>4, <2>4, <2>5, <3>2, RequestStep DEF BindPolicy
  <2> QED BY <2>6, <2>7
<1>5. ASSUME NEW s \in Submitters, Reject(s) PROVE PolicyInv'
  BY <1>2, <1>5, RequestStep DEF Reject
<1>6. ASSUME NEW s \in Submitters, NEW r \in Runs, NEW v \in Versions, StoreRun(s, r, v)
      PROVE  PolicyInv'
  <2>1. /\ run'[r].policy = request[s].policy /\ run'[r].began = request[s].began
        /\ run'[r].assigned = (project # "gone")
        /\ \A q \in Runs \ {r} : run'[q] = run[q]
    BY <1>0, <1>6 DEF StoreRun
  <2>2. UNCHANGED <<policyVars, project>>  BY <1>6 DEF StoreRun
  <2>3. CASE project = "gone"
    <3>1. RunUsage' = {}  BY <2>1, <2>3 DEF PolicyInv, RunUsage, KeptRuns, Kept
    <3> QED BY <2>2, <2>3, <3>1 DEF PolicyInv
  <2>4. CASE project # "gone"
    <3>1. LatestApproved' = LatestApproved  BY <2>2 DEF LatestApproved, policyVars
    <3>2. request[s].stage = "bound"  BY <1>6 DEF StoreRun
    <3>3. PolicyInForce'
      <4> SUFFICES ASSUME NEW q \in RunUsage'
                   PROVE  /\ run'[q].policy \in approved' \cup {NoPolicy}
                          /\ run'[q].policy >= run'[q].began
        BY DEF PolicyInForce
      <4>1. CASE q = r  BY <2>1, <2>2, <2>4, <3>2, <4>1 DEF PolicyInv, policyVars
      <4>2. CASE q # r
        <5>1. q \in RunUsage /\ run'[q] = run[q]
          BY <2>1, <4>2 DEF RunUsage, KeptRuns, Kept
        <5> QED BY <2>2, <2>4, <5>1 DEF PolicyInv, PolicyInForce, policyVars
      <4> QED BY <4>1, <4>2
    <3>4. request'[s] = NoRequest /\ \A t \in Submitters \ {s} : request'[t] = request[t]
      BY <1>0, <1>6 DEF StoreRun
    <3> QED BY <1>2, <2>2, <2>4, <3>1, <3>3, <3>4 DEF PolicyInv, Ordered, policyVars
  <2> QED BY <2>3, <2>4
<1>7. ASSUME NEW r \in Runs, NEW new \in Runs, Retry(r, new) PROVE PolicyInv'
  <2>1. r \in RunUsage /\ run[r] \in Row0  BY <1>0, <1>7 DEF Retry
  <2>2. run'[new] = [run[r] EXCEPT !.status = "queued", !.retry = TRUE]
        /\ \A q \in Runs \ {new} : run'[q] = run[q]
    BY <1>0, <1>7 DEF Retry
  <2>3. run'[new].policy = run[r].policy /\ run'[new].began = run[r].began
    BY <2>1, <2>2 DEF Row0
  <2>4. ASSUME NEW q \in RunUsage' PROVE q = new \/ (q \in RunUsage /\ run'[q] = run[q])
    BY <2>2 DEF RunUsage, KeptRuns, Kept
  <2>5. \A q \in RunUsage' : \E p \in RunUsage : /\ run'[q].policy = run[p].policy
                                                 /\ run'[q].began = run[p].began
    BY <2>1, <2>3, <2>4
  <2> QED BY <1>7, <2>5, BindingsKept DEF Retry
<1>8. ASSUME NEW r \in Runs, NEW outcome \in Terminal, Execute(r, outcome) PROVE PolicyInv'
  <2>1. \A q \in Runs : /\ run'[q].policy = run[q].policy /\ run'[q].began = run[q].began
                        /\ run'[q].state = run[q].state
                        /\ run'[q].assigned = run[q].assigned
    BY <1>0, <1>8 DEF Execute, Row0
  <2>2. \A q \in RunUsage' : q \in RunUsage  BY <2>1 DEF RunUsage, KeptRuns, Kept
  <2>3. \A q \in RunUsage' : \E p \in RunUsage : /\ run'[q].policy = run[p].policy
                                                 /\ run'[q].began = run[p].began
    BY <2>1, <2>2 DEF RunUsage, KeptRuns
  <2> QED BY <1>8, <2>3, BindingsKept DEF Execute
<1> QED BY <1>3, <1>4, <1>5, <1>6, <1>7, <1>8 DEF Submission

LEMMA PolicyStep == TypeInv /\ TypeInv' /\ PolicyInv /\ [Next]_vars => PolicyInv'
<1> SUFFICES ASSUME TypeInv, TypeInv', PolicyInv, [Next]_vars PROVE PolicyInv'  OBVIOUS
<1>1. ASSUME UNCHANGED <<policyVars, project, request, run>> PROVE PolicyInv'
  <2>1. RunUsage' = RunUsage  BY <1>1 DEF RunUsage, KeptRuns, Kept
  <2> QED BY <1>1, <2>1, BindingsKept
<1>2. CASE PolicyNext /\ UNCHANGED <<registryVars, submissionVars>>
  <2>1. approved \subseteq approved'  BY <1>2 DEF PolicyNext, CreateRevision, Approve
  <2>2. LatestApproved <= LatestApproved' /\ LatestApproved \in Nat /\ LatestApproved' \in Nat
    BY <2>1, PolicyRises
  <2>3. UNCHANGED <<project, request, run>> /\ RunUsage' = RunUsage
    BY <1>2 DEF submissionVars, RunUsage, KeptRuns, Kept
  <2>4. \A s \in Submitters : request[s].began \in Nat
    BY DEF TypeInv, SubmissionTypeOK
  <2>5. \A s \in Submitters : request[s].began <= LatestApproved =>
                              request[s].began <= LatestApproved'
    BY <2>2, <2>4
  <2> QED BY <2>1, <2>3, <2>5 DEF PolicyInv, PolicyInForce
<1>3. CASE Governance
  <2>1. CASE DeleteProject
    <3>1. \A r \in Runs : run[r] \in Row0  BY DEF TypeInv, SubmissionTypeOK
    <3>2. \A r \in Runs : Kept(r)' => ~ run'[r].assigned
      <4> TAKE r \in Runs
      <4>1. run'[r] = IF Kept(r) THEN [run[r] EXCEPT !.assigned = FALSE, !.policy = NoPolicy]
                      ELSE run[r]
        BY <2>1 DEF DeleteProject
      <4> QED BY <3>1, <4>1 DEF Kept, Row0
    <3>3. RunUsage' = {}  BY <3>2 DEF RunUsage, KeptRuns
    <3>4. project' = "gone"  BY <2>1 DEF DeleteProject
    <3> QED BY <3>3, <3>4 DEF PolicyInv
  <2>2. CASE CheckProject
    <3>1. RunUsage' = RunUsage /\ project # "gone" /\ project' # "gone"
          /\ UNCHANGED <<policyVars, request, run>>
      BY <2>2 DEF CheckProject, RunUsage, KeptRuns, Kept
    <3>2. LatestApproved' = LatestApproved  BY <3>1 DEF LatestApproved, policyVars
    <3> QED BY <3>1, <3>2 DEF PolicyInv, PolicyInForce, policyVars
  <2>3. ASSUME NEW S, run' = Without(S), UNCHANGED <<policyVars, project, request>>
        PROVE  PolicyInv'
    <3>1. \A r \in RunUsage' : r \in RunUsage /\ run'[r] = run[r]
      BY <2>3, WithoutKeeps DEF RunUsage
    <3> QED BY <2>3, <3>1, BindingsKept
  <2>4. CASE EndRetention  BY <1>1, <2>3, <2>4 DEF EndRetention
  <2>5. CASE \E d \in Datasets : DeleteDataset(d)  BY <2>3, <2>5 DEF DeleteDataset
  <2>6. CASE UNCHANGED <<policyVars, project, request, run>>  BY <1>1, <2>6
  <2> QED BY <1>3, <2>1, <2>2, <2>4, <2>5, <2>6 DEF Governance, SetRunLimit, SetHold,
                                                   BeginRetention
<1>4. CASE Submission  BY <1>4, PolicySubmission
<1>5. CASE UNCHANGED vars \/ UNCHANGED <<policyVars, submissionVars>>
  BY <1>1, <1>5 DEF vars, submissionVars
<1> QED BY <1>2, <1>3, <1>4, <1>5 DEF Next

(* Whatever is drafted and approved between the steps of a submission, its   *)
(* run is bound to an approved revision no older than the one in force when  *)
(* the request was admitted.                                                 *)
THEOREM PolicyBound == Spec => []PolicyInForce
<1>1. Init => PolicyInv
  <2> SUFFICES ASSUME Init PROVE PolicyInv  OBVIOUS
  <2>1. RunUsage = {}  BY DEF Init, RunUsage, KeptRuns, Kept, NoRun
  <2> QED BY <2>1 DEF Init, PolicyInv, PolicyInForce, NoRequest, NoPolicy
<1>2. PolicyInv => PolicyInForce  BY DEF PolicyInv, PolicyInForce
<1> QED BY <1>1, <1>2, TypeInit, TypeStep, PolicyStep, PTL DEF Spec

-----------------------------------------------------------------------------
(* Legal hold. *)

HoldInv == retention.open => ~hold

(* The lock on the workspace row: no hold is set while retention is open.    *)
LEMMA HoldStep == HoldInv /\ [Next]_vars => HoldInv'
<1> SUFFICES ASSUME HoldInv, [Next]_vars PROVE HoldInv'  OBVIOUS
<1>1. CASE UNCHANGED <<hold, retention>>  BY <1>1 DEF HoldInv
<1>2. CASE \E b \in Holds : SetHold(b)  BY <1>2 DEF SetHold, HoldInv
<1>3. CASE \E R \in SUBSET Runs, V \in SUBSET Versions : BeginRetention(R, V)
  BY <1>3 DEF BeginRetention, HoldInv
<1>4. CASE EndRetention  BY <1>4 DEF EndRetention, NotRetaining, HoldInv
<1> QED BY <1>1, <1>2, <1>3, <1>4
     DEF Next, Submission, Governance, Admit, BindPolicy, Reject, StoreRun, Retry, Execute,
         SetRunLimit, DeleteDataset, CheckProject, DeleteProject, vars, submissionVars

(* Whenever retention deletes something, no hold is set.                     *)
THEOREM HoldHolds == Spec => HoldStopsRetention
<1>1. Init => HoldInv  BY DEF Init, HoldInv, NotRetaining
<1>2. HoldInv /\ [Next]_vars => [(retention.open /\ ~retention'.open) => ~hold]_vars
  BY DEF HoldInv
<1> QED BY <1>1, <1>2, HoldStep, PTL DEF Spec, HoldStopsRetention

-----------------------------------------------------------------------------
(* The limit on runs. *)

Counted == {r \in RunUsage : ~run[r].retry}
Pending == {s \in Submitters : request[s].stage # "idle"}

(* A request that has passed the check may still add a run.                  *)
CountInv ==
  Cardinality(Counted) + Cardinality(Pending) < Max(Limits) + Cardinality(Submitters)

(* Runs and requests are finite in number, and every limit is at most the    *)
(* greatest one.                                                             *)
LEMMA Finite ==
  /\ \A S \in SUBSET Runs : IsFiniteSet(S) /\ Cardinality(S) \in Nat
  /\ \A S \in SUBSET Submitters : IsFiniteSet(S) /\ Cardinality(S) \in Nat
                                  /\ Cardinality(S) <= Cardinality(Submitters)
  /\ Max(Limits) \in Nat /\ \A n \in Limits : n <= Max(Limits)
<1>1. ASSUME NEW S \in SUBSET Runs PROVE IsFiniteSet(S) /\ Cardinality(S) \in Nat
  BY FS_Subset, FS_CardinalityType, SubmissionAssumption
<1>2. ASSUME NEW S \in SUBSET Submitters
      PROVE  IsFiniteSet(S) /\ Cardinality(S) \in Nat
             /\ Cardinality(S) <= Cardinality(Submitters)
  BY FS_Subset, FS_CardinalityType, SubmissionAssumption
<1>3. Max(Limits) \in Limits /\ \A n \in Limits : Max(Limits) >= n
  <2>1. Limits \in SUBSET Int /\ IsFiniteSet(Limits) /\ Limits # {}
    BY SubmissionAssumption
  <2> QED BY <2>1, MaxOfFinite
<1>4. \A n \in Limits : n \in Nat  BY SubmissionAssumption
<1>5. \A n \in Limits : n <= Max(Limits)
  <2> TAKE n \in Limits
  <2>1. Max(Limits) >= n /\ n \in Nat /\ Max(Limits) \in Nat  BY <1>3, <1>4
  <2> QED BY <2>1
<1> QED BY <1>1, <1>2, <1>3, <1>4, <1>5

(* Steps that count nothing new.                                             *)
LEMMA CountFalls ==
  ASSUME CountInv, Counted' \subseteq Counted, Pending' \subseteq Pending
  PROVE  CountInv'
<1> PICK C, D, P, Q : C = Counted /\ D = Counted' /\ P = Pending /\ Q = Pending'  OBVIOUS
<1>1. C \in SUBSET Runs /\ P \in SUBSET Submitters
  BY DEF Counted, RunUsage, KeptRuns, Pending
<1>2. D \in SUBSET C /\ Q \in SUBSET P  OBVIOUS
<1>3. Cardinality(D) <= Cardinality(C) /\ Cardinality(Q) <= Cardinality(P)
  BY <1>1, <1>2, Finite, FS_Subset
<1>4. /\ Cardinality(C) \in Nat /\ Cardinality(D) \in Nat
      /\ Cardinality(P) \in Nat /\ Cardinality(Q) \in Nat
      /\ Max(Limits) \in Nat /\ Cardinality(Submitters) \in Nat
  BY <1>1, <1>2, Finite
<1>5. Cardinality(C) + Cardinality(P) < Max(Limits) + Cardinality(Submitters)
  BY DEF CountInv
<1>6. Cardinality(D) + Cardinality(Q) < Max(Limits) + Cardinality(Submitters)
  BY <1>3, <1>4, <1>5
<1> QED BY <1>6 DEF CountInv

(* An admission leaves room for itself below the limit.                      *)
LEMMA AdmitCounts ==
  ASSUME TypeInv, CountInv, NEW s \in Submitters, request[s].stage = "idle",
         Fits(Cardinality(RunUsage), 1, runLimit), Counted' = Counted
  PROVE  CountInv'
<1> PICK C, U, Q : C = Counted /\ U = RunUsage /\ Q = Pending'  OBVIOUS
<1>1. U \in SUBSET Runs /\ C \in SUBSET U /\ Q \in SUBSET Submitters
  BY DEF Counted, RunUsage, KeptRuns, Pending
<1>2. Cardinality(C) <= Cardinality(U)  BY <1>1, Finite, FS_Subset
<1>3. Cardinality(Q) <= Cardinality(Submitters)  BY <1>1, Finite
<1>4. Cardinality(U) + 1 <= runLimit /\ runLimit \in Nat /\ runLimit <= Max(Limits)
  BY Finite, SubmissionAssumption DEF Fits, TypeInv, SubmissionTypeOK
<1>5. /\ Cardinality(C) \in Nat /\ Cardinality(U) \in Nat /\ Cardinality(Q) \in Nat
      /\ Max(Limits) \in Nat /\ Cardinality(Submitters) \in Nat
  BY <1>1, Finite
<1>6. Cardinality(C) + Cardinality(Q) < Max(Limits) + Cardinality(Submitters)
  BY <1>2, <1>3, <1>4, <1>5
<1> QED BY <1>6 DEF CountInv

(* Storing a run turns a pending request into a counted run.                 *)
LEMMA StoreCounts ==
  ASSUME CountInv, NEW s \in Pending, NEW r \in Runs,
         Counted' \subseteq Counted \cup {r}, Pending' \subseteq Pending \ {s}
  PROVE  CountInv'
<1> PICK C, D, P, Q : C = Counted /\ D = Counted' /\ P = Pending /\ Q = Pending'  OBVIOUS
<1>1. C \in SUBSET Runs /\ P \in SUBSET Submitters
  BY DEF Counted, RunUsage, KeptRuns, Pending
<1>2. IsFiniteSet(C) /\ IsFiniteSet(P)  BY <1>1, Finite
<1>3. /\ Cardinality(C \cup {r}) <= Cardinality(C) + 1
      /\ IsFiniteSet(C \cup {r}) /\ Cardinality(C \cup {r}) \in Nat
  <2>1. C \cup {r} \in SUBSET Runs  BY <1>1
  <2>2. IsFiniteSet(C \cup {r}) /\ Cardinality(C \cup {r}) \in Nat  BY <2>1, Finite
  <2>3. Cardinality(C \cup {r}) = IF r \in C THEN Cardinality(C) ELSE Cardinality(C) + 1
    BY <1>2, FS_AddElement
  <2>4. Cardinality(C) \in Nat  BY <1>1, Finite
  <2> QED BY <2>2, <2>3, <2>4
<1>4. Cardinality(P \ {s}) = Cardinality(P) - 1 /\ IsFiniteSet(P \ {s})
  BY <1>2, FS_RemoveElement
<1>5. D \in SUBSET (C \cup {r}) /\ Q \in SUBSET (P \ {s})  OBVIOUS
<1>6. Cardinality(D) <= Cardinality(C \cup {r}) /\ Cardinality(Q) <= Cardinality(P \ {s})
  BY <1>3, <1>4, <1>5, FS_Subset
<1>7. /\ Cardinality(C) \in Nat /\ Cardinality(D) \in Nat
      /\ Cardinality(P) \in Nat /\ Cardinality(Q) \in Nat
      /\ Max(Limits) \in Nat /\ Cardinality(Submitters) \in Nat
  <2>1. D \in SUBSET Runs /\ Q \in SUBSET Submitters  BY <1>1, <1>5
  <2> QED BY <1>1, <2>1, Finite
<1>8. Cardinality(C) + Cardinality(P) < Max(Limits) + Cardinality(Submitters)
  BY DEF CountInv
<1>9. Cardinality(D) + Cardinality(Q) < Max(Limits) + Cardinality(Submitters)
  BY <1>3, <1>4, <1>6, <1>7, <1>8
<1> QED BY <1>9 DEF CountInv

LEMMA CountStep == TypeInv /\ CountInv /\ [Next]_vars => CountInv'
<1> SUFFICES ASSUME TypeInv, CountInv, [Next]_vars PROVE CountInv'  OBVIOUS
<1>0. run \in [Runs -> Row0] /\ request \in [Submitters -> Requests]
  BY DEF TypeInv, SubmissionTypeOK, Requests
<1>1. ASSUME UNCHANGED <<run, request>> PROVE CountInv'
  <2>1. Counted' = Counted /\ Pending' = Pending
    BY <1>1 DEF Counted, RunUsage, KeptRuns, Kept, Pending
  <2> QED BY <2>1, CountFalls
<1>2. CASE Submission
  <2>1. ASSUME NEW s \in Submitters, NEW d \in Datasets, NEW pin \in Versions \cup {NoVersion},
               NEW kind \in Kinds, Admit(s, d, pin, kind)
        PROVE  CountInv'
    <3>1. Counted' = Counted  BY <2>1 DEF Admit, Counted, RunUsage, KeptRuns, Kept
    <3> QED BY <2>1, <3>1, AdmitCounts DEF Admit
  <2>2. ASSUME NEW s \in Submitters, BindPolicy(s) PROVE CountInv'
    <3>1. Counted' = Counted  BY <2>2 DEF BindPolicy, Counted, RunUsage, KeptRuns, Kept
    <3>2. Pending' \subseteq Pending
      <4>1. request[s].stage # "idle"  BY <2>2 DEF BindPolicy
      <4>2. \A t \in Submitters \ {s} : request'[t] = request[t]
        BY <1>0, <2>2 DEF BindPolicy
      <4> QED BY <4>1, <4>2 DEF Pending
    <3> QED BY <3>1, <3>2, CountFalls
  <2>3. ASSUME NEW s \in Submitters, Reject(s) PROVE CountInv'
    <3>1. Counted' = Counted  BY <2>3 DEF Reject, Counted, RunUsage, KeptRuns, Kept
    <3>2. Pending' \subseteq Pending  BY <1>0, <2>3 DEF Reject, Pending
    <3> QED BY <3>1, <3>2, CountFalls
  <2>4. ASSUME NEW s \in Submitters, NEW r \in Runs, NEW v \in Versions, StoreRun(s, r, v)
        PROVE  CountInv'
    <3>1. s \in Pending  BY <2>4 DEF StoreRun, Pending
    <3>2. \A q \in Runs \ {r} : run'[q] = run[q]  BY <1>0, <2>4 DEF StoreRun
    <3>3. Counted' \subseteq Counted \cup {r}
      BY <3>2 DEF Counted, RunUsage, KeptRuns, Kept
    <3>4. Pending' \subseteq Pending \ {s}
      BY <1>0, <2>4 DEF StoreRun, Pending, NoRequest
    <3> QED BY <3>1, <3>3, <3>4, StoreCounts
  <2>5. ASSUME NEW r \in Runs, NEW new \in Runs, Retry(r, new) PROVE CountInv'
    <3>1. run[r] \in Row0  BY <1>0
    <3>2. run'[new] = [run[r] EXCEPT !.status = "queued", !.retry = TRUE]
          /\ \A q \in Runs \ {new} : run'[q] = run[q]
      BY <1>0, <2>5 DEF Retry
    <3>3. run'[new].retry = TRUE  BY <3>1, <3>2 DEF Row0
    <3>4. Counted' \subseteq Counted  BY <3>2, <3>3 DEF Counted, RunUsage, KeptRuns, Kept
    <3>5. Pending' = Pending  BY <2>5 DEF Retry, Pending
    <3> QED BY <3>4, <3>5, CountFalls
  <2>6. ASSUME NEW r \in Runs, NEW outcome \in Terminal, Execute(r, outcome)
        PROVE  CountInv'
    <3>1. \A q \in Runs : /\ run'[q].state = run[q].state
                          /\ run'[q].assigned = run[q].assigned
                          /\ run'[q].retry = run[q].retry
      BY <1>0, <2>6 DEF Execute, Row0
    <3>2. Counted' \subseteq Counted  BY <3>1 DEF Counted, RunUsage, KeptRuns, Kept
    <3>3. Pending' = Pending  BY <2>6 DEF Execute, Pending
    <3> QED BY <3>2, <3>3, CountFalls
  <2> QED BY <1>2, <2>1, <2>2, <2>3, <2>4, <2>5, <2>6 DEF Submission
<1>3. CASE Governance
  <2>1. ASSUME NEW S, run' = Without(S), request' = request PROVE CountInv'
    <3>1. \A r \in KeptRuns' : r \in KeptRuns /\ run'[r] = run[r]  BY <2>1, WithoutKeeps
    <3>2. Counted' \subseteq Counted  BY <3>1 DEF Counted, RunUsage
    <3>3. Pending' = Pending  BY <2>1 DEF Pending
    <3> QED BY <3>2, <3>3, CountFalls
  <2>2. CASE EndRetention  BY <1>1, <2>1, <2>2 DEF EndRetention
  <2>3. CASE \E d \in Datasets : DeleteDataset(d)  BY <2>1, <2>3 DEF DeleteDataset
  <2>4. CASE DeleteProject
    <3>1. \A r \in Runs : run'[r].assigned => run'[r] = run[r]
      <4> TAKE r \in Runs
      <4>1. run[r] \in Row0  BY <1>0
      <4>2. run'[r] = run[r] \/ run'[r] = [run[r] EXCEPT !.assigned = FALSE, !.policy = NoPolicy]
        BY <2>4 DEF DeleteProject
      <4> QED BY <4>1, <4>2 DEF Row0
    <3>2. Counted' \subseteq Counted  BY <3>1 DEF Counted, RunUsage, KeptRuns, Kept
    <3>3. Pending' = Pending  BY <2>4 DEF DeleteProject, Pending
    <3> QED BY <3>2, <3>3, CountFalls
  <2>5. CASE UNCHANGED <<run, request>>  BY <1>1, <2>5
  <2> QED BY <1>3, <2>2, <2>3, <2>4, <2>5 DEF Governance, SetRunLimit, SetHold,
                                             BeginRetention, CheckProject
<1>4. CASE UNCHANGED vars \/ UNCHANGED submissionVars
  BY <1>1, <1>4 DEF vars, submissionVars
<1> QED BY <1>2, <1>3, <1>4 DEF Next

(* However many requests pass the capacity check together, and whatever the  *)
(* owners do to the limit, the runs that were checked exceed the greatest    *)
(* limit by less than the number of requests.                                *)
THEOREM OvershootHolds == Spec => []OvershootBounded
<1>1. Init => CountInv
  <2> SUFFICES ASSUME Init PROVE CountInv  OBVIOUS
  <2>1. Counted = {} /\ Pending = {}
    BY DEF Init, Counted, RunUsage, KeptRuns, Kept, Pending, NoRun, NoRequest
  <2>2. Cardinality({}) = 0  BY FS_EmptySet
  <2>3. Cardinality(Submitters) # 0
    BY FS_EmptySet, SubmissionAssumption
  <2>4. Max(Limits) \in Nat /\ Cardinality(Submitters) \in Nat  BY Finite
  <2> QED BY <2>1, <2>2, <2>3, <2>4 DEF CountInv
<1>2. CountInv => OvershootBounded
  <2> SUFFICES ASSUME CountInv PROVE OvershootBounded  OBVIOUS
  <2> PICK C, P : C = Counted /\ P = Pending  OBVIOUS
  <2>1. C \in SUBSET Runs /\ P \in SUBSET Submitters
    BY DEF Counted, RunUsage, KeptRuns, Pending
  <2>2. /\ Cardinality(C) \in Nat /\ Cardinality(P) \in Nat
        /\ Max(Limits) \in Nat /\ Cardinality(Submitters) \in Nat
    BY <2>1, Finite
  <2>3. Cardinality(C) < Max(Limits) + Cardinality(Submitters)
    BY <2>2 DEF CountInv
  <2> QED BY <2>3 DEF OvershootBounded, Counted
<1> QED BY <1>1, <1>2, TypeInit, TypeStep, CountStep, PTL DEF Spec

-----------------------------------------------------------------------------
(* How many versions of a dataset are active.                                *)

Reading(u) == upload[u].op # "idle"

(* A request about to write to dataset d has read that v is active.          *)
Saw(u, d, v) == Reading(u) /\ upload[u].dataset = d => v \in upload[u].seen

(* Every active version of d can be charged to a request of its own, which   *)
(* switches it off should it write to d again.                               *)
Owned(d) ==
  \E f \in [ActiveOf(d) -> Uploaders] :
    /\ \A v, w \in ActiveOf(d) : f[v] = f[w] => v = w
    /\ \A v \in ActiveOf(d) : Saw(f[v], d, v)

(* The version a dataset was created with belongs to no request; while it is *)
(* the only active one, whoever is about to write has seen it.               *)
Untouched(d) ==
  \E v \in Versions : ActiveOf(d) = {v} /\ \A u \in Uploaders : Saw(u, d, v)

(* Rows and reads refer to datasets that exist or have existed, and a        *)
(* version to be activated is one of the dataset it was found in.            *)
RowsPlaced ==
  /\ \A v \in Versions : Stored(v) =>
       /\ version[v].dataset \in Datasets
       /\ dataset[version[v].dataset].state # "unused"
  /\ \A u \in Uploaders : Reading(u) =>
       /\ upload[u].dataset \in Datasets
       /\ dataset[upload[u].dataset].state # "unused"
       /\ upload[u].op = "activate" =>
            /\ upload[u].target \in Versions
            /\ version[upload[u].target].state # "unused"
            /\ version[upload[u].target].dataset = upload[u].dataset

Charged == \A d \in Datasets : Owned(d) \/ Untouched(d)

ActiveInv == RowsPlaced /\ Charged

(* The charges stand when no version becomes active and every request that   *)
(* had seen an active version still has, or has nothing to write.            *)
LEMMA ChargesStand ==
  ASSUME NEW d \in Datasets, Owned(d) \/ Untouched(d), ActiveOf(d)' \subseteq ActiveOf(d),
         \A u \in Uploaders, v \in Versions :
           v \in ActiveOf(d)' /\ Saw(u, d, v) => Saw(u, d, v)'
  PROVE  (Owned(d) \/ Untouched(d))'
<1>0. ActiveOf(d) \subseteq Versions  BY DEF ActiveOf, VersionsOf
<1>1. CASE Owned(d)
  <2>1. PICK f \in [ActiveOf(d) -> Uploaders] :
          /\ \A v, w \in ActiveOf(d) : f[v] = f[w] => v = w
          /\ \A v \in ActiveOf(d) : Saw(f[v], d, v)
    BY <1>1 DEF Owned
  <2>0. PICK g : g = [v \in ActiveOf(d)' |-> f[v]]  OBVIOUS
  <2>2. g \in [ActiveOf(d)' -> Uploaders]  BY <2>1, <2>0
  <2>3. \A v, w \in ActiveOf(d)' : g[v] = g[w] => v = w  BY <2>1, <2>0
  <2>4. ASSUME NEW v \in ActiveOf(d)' PROVE Saw(g[v], d, v)'
    <3>1. g[v] = f[v] /\ f[v] \in Uploaders /\ Saw(f[v], d, v) /\ v \in Versions
      BY <1>0, <2>1, <2>4, <2>0
    <3>2. \A u \in Uploaders : Saw(u, d, v) => Saw(u, d, v)'  BY <2>4, <3>1
    <3> QED BY <3>1, <3>2 DEF Saw, Reading
  <2> QED BY <2>2, <2>3, <2>4 DEF Owned
<1>2. CASE Untouched(d)
  <2>1. PICK v \in Versions : ActiveOf(d) = {v} /\ \A u \in Uploaders : Saw(u, d, v)
    BY <1>2 DEF Untouched
  <2>2. CASE ActiveOf(d)' = {}
    <3>1. PICK none : none \in [{} -> Uploaders]
      <4>1. [w \in {} |-> w] \in [{} -> Uploaders]  OBVIOUS
      <4> QED BY <4>1
    <3>2. /\ none \in [ActiveOf(d)' -> Uploaders]
          /\ \A w \in ActiveOf(d)' : Saw(none[w], d, w)'
      BY <2>2, <3>1
    <3> QED BY <2>2, <3>2 DEF Owned
  <2>3. CASE ActiveOf(d)' # {}
    <3>1. ActiveOf(d)' = {v}  BY <2>1, <2>3
    <3>2. \A u \in Uploaders : Saw(u, d, v)'  BY <2>1, <3>1
    <3> QED BY <3>1, <3>2 DEF Untouched
  <2> QED BY <2>2, <2>3
<1> QED BY <1>1, <1>2

(* A write by request u leaves active, of what it had not seen, the versions *)
(* of other requests; the version it switches on is charged to u.            *)
LEMMA NewCharge ==
  ASSUME NEW d \in Datasets, Owned(d) \/ Untouched(d),
         NEW u \in Uploaders, NEW new, Reading(u), upload[u].dataset = d, ~Reading(u)',
         \A w \in Uploaders \ {u} : upload'[w] = upload[w],
         \A v \in ActiveOf(d)' \ {new} : v \in ActiveOf(d) /\ v \notin upload[u].seen
  PROVE  Owned(d)'
<1>0. \A v : Saw(u, d, v)'  BY DEF Saw
<1>1. CASE Owned(d)
  <2>1. PICK f \in [ActiveOf(d) -> Uploaders] :
          /\ \A v, w \in ActiveOf(d) : f[v] = f[w] => v = w
          /\ \A v \in ActiveOf(d) : Saw(f[v], d, v)
    BY <1>1 DEF Owned
  <2>0. PICK g : g = [v \in ActiveOf(d)' |-> IF v = new THEN u ELSE f[v]]  OBVIOUS
  <2>2. \A v \in ActiveOf(d)' \ {new} : v \in ActiveOf(d) /\ f[v] \in Uploaders \ {u}
    <3> TAKE v \in ActiveOf(d)' \ {new}
    <3>1. f[v] \in Uploaders /\ Saw(f[v], d, v) /\ v \notin upload[u].seen  BY <2>1
    <3>2. f[v] # u  BY <3>1 DEF Saw
    <3> QED BY <3>1, <3>2
  <2>3. g \in [ActiveOf(d)' -> Uploaders]  BY <2>2, <2>0
  <2>4. \A v, w \in ActiveOf(d)' : g[v] = g[w] => v = w  BY <2>1, <2>2, <2>0
  <2>5. ASSUME NEW v \in ActiveOf(d)' PROVE Saw(g[v], d, v)'
    <3>1. CASE v = new
      <4>1. g[v] = u  BY <2>5, <2>0, <3>1
      <4> QED BY <1>0, <4>1 DEF Saw, Reading
    <3>2. CASE v # new
      <4>1. g[v] = f[v] /\ f[v] \in Uploaders \ {u} /\ Saw(f[v], d, v)
        BY <2>1, <2>2, <2>5, <2>0, <3>2
      <4>2. upload'[f[v]] = upload[f[v]]  BY <4>1
      <4> QED BY <4>1, <4>2 DEF Saw, Reading
    <3> QED BY <3>1, <3>2
  <2> QED BY <2>3, <2>4, <2>5 DEF Owned
<1>2. CASE Untouched(d)
  <2>1. PICK v \in Versions : ActiveOf(d) = {v} /\ Saw(u, d, v)  BY <1>2 DEF Untouched
  <2>2. v \in upload[u].seen  BY <2>1 DEF Saw
  <2>3. ActiveOf(d)' \subseteq {new}  BY <2>1, <2>2
  <2>0. PICK g : g = [w \in ActiveOf(d)' |-> u]  OBVIOUS
  <2>4. g \in [ActiveOf(d)' -> Uploaders] /\ \A w \in ActiveOf(d)' : g[w] = u  BY <2>0
  <2>5. \A w \in ActiveOf(d)' : Saw(g[w], d, w)'  BY <1>0, <2>4 DEF Saw, Reading
  <2> QED BY <2>3, <2>4, <2>5 DEF Owned
<1> QED BY <1>1, <1>2

LEMMA UploadsCharge ==
  ASSUME TypeInv, ActiveInv, RegistryOpen \/ RegistryClose
  PROVE  ActiveInv'
<1>0. /\ dataset \in [Datasets -> [state: States, latest: Nat]]
      /\ version \in [Versions -> [state: States, dataset: Datasets \cup {NoDataset},
                                   number: Nat, active: BOOLEAN]]
      /\ upload \in [Uploaders -> [op: {"idle", "add", "activate"},
           dataset: Datasets \cup {NoDataset}, target: Versions \cup {NoVersion},
           seen: SUBSET Versions, latest: Nat]]
  BY DEF TypeInv, RegistryTypeOK
<1>1. ASSUME NEW d \in Datasets, NEW v \in Versions, CreateDataset(d, v) PROVE ActiveInv'
  <2>1. /\ dataset[d].state = "unused" /\ version[v].state = "unused" /\ upload' = upload
        /\ version'[v] = Row(d, 1) /\ dataset'[d].state = "live"
        /\ \A e \in Datasets \ {d} : dataset'[e] = dataset[e]
        /\ \A w \in Versions \ {v} : version'[w] = version[w]
    BY <1>0, <1>1 DEF CreateDataset
  <2>2. \A u \in Uploaders : Reading(u) => upload[u].dataset # d
    BY <2>1 DEF ActiveInv, RowsPlaced
  <2>3. \A w \in Versions : Stored(w) => version[w].dataset # d
    BY <2>1 DEF ActiveInv, RowsPlaced
  <2>4. RowsPlaced'
    BY <2>1 DEF ActiveInv, RowsPlaced, Reading, Row, Stored
  <2>5. ASSUME NEW e \in Datasets PROVE (Owned(e) \/ Untouched(e))'
    <3>1. CASE e = d
      <4>1. ActiveOf(d)' = {v}
        BY <2>1, <2>3 DEF ActiveOf, VersionsOf, Stored, Row
      <4>2. \A u \in Uploaders : Saw(u, d, v)'  BY <2>1, <2>2 DEF Saw, Reading
      <4> QED BY <3>1, <4>1, <4>2 DEF Untouched
    <3>2. CASE e # d
      <4>1. ActiveOf(e)' = ActiveOf(e)
        BY <2>1, <3>2 DEF ActiveOf, VersionsOf, Stored, Row
      <4>2. \A u \in Uploaders, w \in Versions : Saw(u, e, w) => Saw(u, e, w)'
        BY <2>1 DEF Saw, Reading
      <4>3. Owned(e) \/ Untouched(e)  BY DEF ActiveInv, Charged
      <4> QED BY <4>1, <4>2, <4>3, ChargesStand
    <3> QED BY <3>1, <3>2
  <2> QED BY <2>4, <2>5 DEF ActiveInv, Charged
<1>2. ASSUME NEW u \in Uploaders, NEW d \in Datasets, NEW op \in {"add", "activate"},
             NEW target \in Versions \cup {NoVersion}, BeginUpload(u, d, op, target)
      PROVE  ActiveInv'
  <2>1. /\ dataset' = dataset /\ version' = version /\ Live(d)
        /\ op = "activate" => target \in VersionsOf(d)
        /\ upload' = [upload EXCEPT ![u] =
             [op |-> op, dataset |-> d, target |-> target, seen |-> ActiveOf(d),
              latest |-> dataset[d].latest]]
    BY <1>2 DEF BeginUpload
  <2>2. /\ upload'[u].op = op /\ upload'[u].dataset = d /\ upload'[u].target = target
        /\ upload'[u].seen = ActiveOf(d)
        /\ \A w \in Uploaders \ {u} : upload'[w] = upload[w]
    BY <1>0, <2>1
  <2>3. RowsPlaced'
    <3>1. ASSUME NEW w \in Uploaders, Reading(w)'
          PROVE  /\ upload'[w].dataset \in Datasets
                 /\ dataset[upload'[w].dataset].state # "unused"
                 /\ upload'[w].op = "activate" =>
                      /\ upload'[w].target \in Versions
                      /\ version[upload'[w].target].state # "unused"
                      /\ version[upload'[w].target].dataset = upload'[w].dataset
      <4>1. CASE w = u  BY <2>1, <2>2, <4>1 DEF Live, VersionsOf, Stored
      <4>2. CASE w # u  BY <2>2, <3>1, <4>2 DEF ActiveInv, RowsPlaced, Reading
      <4> QED BY <4>1, <4>2
    <3> QED BY <2>1, <3>1 DEF ActiveInv, RowsPlaced, Stored
  <2>4. ASSUME NEW e \in Datasets PROVE (Owned(e) \/ Untouched(e))'
    <3>1. ActiveOf(e)' = ActiveOf(e)  BY <2>1 DEF ActiveOf, VersionsOf, Stored
    <3>2. ASSUME NEW w \in Uploaders, NEW v \in Versions, v \in ActiveOf(e)', Saw(w, e, v)
          PROVE  Saw(w, e, v)'
      <4>1. CASE w = u /\ e = d  BY <2>2, <3>1, <3>2, <4>1 DEF Saw
      <4>2. CASE w = u /\ e # d  BY <2>2, <4>2 DEF Saw
      <4>3. CASE w # u  BY <2>2, <3>2, <4>3 DEF Saw, Reading
      <4> QED BY <4>1, <4>2, <4>3
    <3>3. Owned(e) \/ Untouched(e)  BY DEF ActiveInv, Charged
    <3> QED BY <3>1, <3>2, <3>3, ChargesStand
  <2> QED BY <2>3, <2>4 DEF ActiveInv, Charged
<1>3. ASSUME NEW u \in Uploaders, upload' = [upload EXCEPT ![u] = Idle]
      PROVE  /\ ~Reading(u)' /\ \A w \in Uploaders \ {u} : upload'[w] = upload[w]
             /\ \A w \in Uploaders, e \in Datasets, v \in Versions :
                  Saw(w, e, v) => Saw(w, e, v)'
  <2>1. /\ upload'[u] = Idle
        /\ \A w \in Uploaders \ {u} : upload'[w] = upload[w]
    BY <1>0, <1>3
  <2>2. ~Reading(u)'  BY <2>1 DEF Reading, Idle
  <2> QED BY <2>1, <2>2 DEF Saw, Reading
<1>4. ASSUME NEW u \in Uploaders, NEW new \in Versions, CommitAdd(u, new) PROVE ActiveInv'
  <2> PICK d : d = upload[u].dataset  OBVIOUS
  <2>1. /\ Reading(u) /\ version[new].state = "unused" /\ d \in Datasets /\ Live(d)
        /\ upload' = [upload EXCEPT ![u] = Idle]
        /\ version' = Added(upload[u], new)
        /\ dataset' = [dataset EXCEPT ![d].latest = upload[u].latest + 1]
    BY <1>4 DEF CommitAdd, ActiveInv, RowsPlaced, Reading
  <2>2. \A e \in Datasets : dataset'[e].state = dataset[e].state  BY <1>0, <2>1
  <2>3. /\ version'[new].dataset = d /\ version'[new].state = "live"
        /\ \A v \in Versions \ {new} :
             /\ version'[v].state = version[v].state
             /\ version'[v].dataset = version[v].dataset
             /\ version'[v].active => version[v].active /\ v \notin upload[u].seen
    <3>1. version'[new] = Row(d, upload[u].latest + 1)  BY <2>1 DEF Added
    <3>2. ASSUME NEW v \in Versions \ {new}
          PROVE  /\ version'[v].state = version[v].state
                 /\ version'[v].dataset = version[v].dataset
                 /\ version'[v].active => version[v].active /\ v \notin upload[u].seen
      <4>1. version'[v] = [version[v] EXCEPT !.active = @ /\ v \notin upload[u].seen]
        BY <2>1 DEF Added
      <4>2. version[v] \in [state: States, dataset: Datasets \cup {NoDataset},
                            number: Nat, active: BOOLEAN]
        BY <1>0
      <4> QED BY <4>1, <4>2
    <3> QED BY <3>1, <3>2 DEF Row
  <2>4. /\ ~Reading(u)' /\ \A w \in Uploaders \ {u} : upload'[w] = upload[w]
        /\ \A w \in Uploaders, e \in Datasets, v \in Versions : Saw(w, e, v) => Saw(w, e, v)'
    BY <1>3, <2>1
  <2>5. RowsPlaced'
    <3>1. \A v \in Versions : Stored(v)' =>
            /\ version'[v].dataset \in Datasets
            /\ dataset'[version'[v].dataset].state # "unused"
      BY <2>1, <2>2, <2>3 DEF ActiveInv, RowsPlaced, Stored, Live
    <3>2. ASSUME NEW w \in Uploaders, Reading(w)'
          PROVE  /\ upload'[w].dataset \in Datasets
                 /\ dataset'[upload'[w].dataset].state # "unused"
                 /\ upload'[w].op = "activate" =>
                      /\ upload'[w].target \in Versions
                      /\ version'[upload'[w].target].state # "unused"
                      /\ version'[upload'[w].target].dataset = upload'[w].dataset
      <4>1. upload'[w] = upload[w] /\ Reading(w)  BY <2>4, <3>2 DEF Reading
      <4>2. upload[w].op = "activate" => upload[w].target # new
        BY <2>1, <4>1 DEF ActiveInv, RowsPlaced
      <4> QED BY <2>2, <2>3, <4>1, <4>2 DEF ActiveInv, RowsPlaced
    <3> QED BY <3>1, <3>2 DEF RowsPlaced
  <2>6. ASSUME NEW e \in Datasets PROVE (Owned(e) \/ Untouched(e))'
    <3>1. Owned(e) \/ Untouched(e)  BY DEF ActiveInv, Charged
    <3>2. CASE e = d
      <4>1. \A v \in ActiveOf(e)' \ {new} : v \in ActiveOf(e) /\ v \notin upload[u].seen
        BY <2>3 DEF ActiveOf, VersionsOf, Stored
      <4> QED BY <2>1, <2>4, <3>1, <3>2, <4>1, NewCharge
    <3>3. CASE e # d
      <4>1. ActiveOf(e)' \subseteq ActiveOf(e)
        BY <2>3, <3>3 DEF ActiveOf, VersionsOf, Stored
      <4> QED BY <2>4, <3>1, <4>1, ChargesStand
    <3> QED BY <3>2, <3>3
  <2> QED BY <2>5, <2>6 DEF ActiveInv, Charged
<1>5. ASSUME NEW u \in Uploaders, CommitActivate(u) PROVE ActiveInv'
  <2> PICK d, t : d = upload[u].dataset /\ t = upload[u].target  OBVIOUS
  <2>1. /\ Reading(u) /\ d \in Datasets /\ t \in Versions /\ version[t].dataset = d
        /\ upload' = [upload EXCEPT ![u] = Idle] /\ dataset' = dataset
        /\ version' = [v \in Versions |->
             IF v \in Dirty(upload[u]) THEN [version[v] EXCEPT !.active = v = t]
             ELSE version[v]]
    BY <1>5 DEF CommitActivate, ActiveInv, RowsPlaced, Reading
  <2>2. ASSUME NEW v \in Versions
        PROVE  /\ version'[v].state = version[v].state
               /\ version'[v].dataset = version[v].dataset
               /\ version'[v].active =>
                    \/ v = t /\ t \notin upload[u].seen
                    \/ v = t /\ version[v].active
                    \/ version[v].active /\ v \notin upload[u].seen
    <3>1. version'[v] = IF v \in Dirty(upload[u]) THEN [version[v] EXCEPT !.active = v = t]
                        ELSE version[v]
      BY <2>1
    <3>2. /\ v \in upload[u].seen /\ v # t => v \in Dirty(upload[u])
          /\ v = t /\ t \in upload[u].seen => v \notin Dirty(upload[u])
      BY DEF Dirty
    <3>3. version[v] \in [state: States, dataset: Datasets \cup {NoDataset},
                          number: Nat, active: BOOLEAN]
      BY <1>0
    <3>4. CASE v \in Dirty(upload[u])
      <4>1. version'[v] = [version[v] EXCEPT !.active = v = t]  BY <3>1, <3>4
      <4>2. version'[v].active => v = t  BY <3>3, <4>1
      <4> QED BY <3>2, <3>3, <3>4, <4>1, <4>2
    <3>5. CASE v \notin Dirty(upload[u])  BY <3>1, <3>2, <3>5
    <3> QED BY <3>4, <3>5
  <2>3. /\ ~Reading(u)' /\ \A w \in Uploaders \ {u} : upload'[w] = upload[w]
        /\ \A w \in Uploaders, e \in Datasets, v \in Versions : Saw(w, e, v) => Saw(w, e, v)'
    BY <1>3, <2>1
  <2>4. RowsPlaced'
    <3>1. \A v \in Versions : Stored(v)' <=> Stored(v)  BY <2>2 DEF Stored
    <3>2. \A w \in Uploaders : Reading(w)' => Reading(w) /\ upload'[w] = upload[w]
      BY <2>3 DEF Reading
    <3> QED BY <2>1, <2>2, <3>1, <3>2 DEF ActiveInv, RowsPlaced
  <2>5. ASSUME NEW e \in Datasets PROVE (Owned(e) \/ Untouched(e))'
    <3>1. Owned(e) \/ Untouched(e)  BY DEF ActiveInv, Charged
    <3>2. CASE e = d /\ t \notin upload[u].seen
      <4>1. \A v \in ActiveOf(e)' \ {t} : v \in ActiveOf(e) /\ v \notin upload[u].seen
        BY <2>2 DEF ActiveOf, VersionsOf, Stored
      <4> QED BY <2>1, <2>3, <3>1, <3>2, <4>1, NewCharge
    <3>3. CASE e # d \/ t \in upload[u].seen
      <4>1. ActiveOf(e)' \subseteq ActiveOf(e)
        BY <2>1, <2>2, <3>3 DEF ActiveOf, VersionsOf, Stored
      <4> QED BY <2>3, <3>1, <4>1, ChargesStand
    <3> QED BY <3>2, <3>3
  <2> QED BY <2>4, <2>5 DEF ActiveInv, Charged
<1>6. ASSUME NEW u \in Uploaders, AbandonUpload(u) PROVE ActiveInv'
  <2>1. upload' = [upload EXCEPT ![u] = Idle] /\ dataset' = dataset /\ version' = version
    BY <1>6 DEF AbandonUpload
  <2>2. /\ ~Reading(u)' /\ \A w \in Uploaders \ {u} : upload'[w] = upload[w]
        /\ \A w \in Uploaders, e \in Datasets, v \in Versions : Saw(w, e, v) => Saw(w, e, v)'
    BY <1>3, <2>1
  <2>3. \A w \in Uploaders : Reading(w)' => Reading(w) /\ upload'[w] = upload[w]
    BY <2>2 DEF Reading
  <2>4. RowsPlaced'  BY <2>1, <2>3 DEF ActiveInv, RowsPlaced, Stored
  <2>5. ASSUME NEW e \in Datasets PROVE (Owned(e) \/ Untouched(e))'
    <3>1. ActiveOf(e)' = ActiveOf(e)  BY <2>1 DEF ActiveOf, VersionsOf, Stored
    <3>2. Owned(e) \/ Untouched(e)  BY DEF ActiveInv, Charged
    <3> QED BY <2>2, <3>1, <3>2, ChargesStand
  <2> QED BY <2>4, <2>5 DEF ActiveInv, Charged
<1> QED BY <1>1, <1>2, <1>4, <1>5, <1>6 DEF RegistryOpen, RegistryClose

(* Deletions switch no version on and leave what was read as it was.         *)
LEMMA DropsKeepCharges ==
  ASSUME TypeInv, ActiveInv, \/ \E d \in Datasets : DropDataset(d)
                             \/ \E S \in SUBSET Versions : DropVersions(S)
  PROVE  ActiveInv'
<1>0. /\ dataset \in [Datasets -> [state: States, latest: Nat]]
      /\ version \in [Versions -> [state: States, dataset: Datasets \cup {NoDataset},
                                   number: Nat, active: BOOLEAN]]
  BY DEF TypeInv, RegistryTypeOK
<1>1. PICK gone : \A v \in Versions :
        version'[v] = IF v \in gone THEN [version[v] EXCEPT !.state = "deleted"]
                      ELSE version[v]
  <2>1. ASSUME NEW d \in Datasets, DropDataset(d)
        PROVE  \A v \in Versions :
                 version'[v] = IF v \in VersionsOf(d) THEN [version[v] EXCEPT !.state = "deleted"]
                               ELSE version[v]
    BY <2>1 DEF DropDataset
  <2>2. ASSUME NEW S \in SUBSET Versions, DropVersions(S)
        PROVE  \A v \in Versions :
                 version'[v] = IF v \in {w \in S : Stored(w)}
                               THEN [version[v] EXCEPT !.state = "deleted"] ELSE version[v]
    BY <2>2 DEF DropVersions
  <2> QED BY <2>1, <2>2
<1>2. upload' = upload /\ \A d \in Datasets : dataset[d].state # "unused" => dataset'[d].state # "unused"
  BY <1>0 DEF DropDataset, DropVersions
<1>3. ASSUME NEW v \in Versions
      PROVE  /\ Stored(v)' => Stored(v)
             /\ version'[v].dataset = version[v].dataset
             /\ version'[v].active = version[v].active
             /\ version[v].state # "unused" => version'[v].state # "unused"
  <2>1. version[v] \in [state: States, dataset: Datasets \cup {NoDataset},
                        number: Nat, active: BOOLEAN]
    BY <1>0
  <2>2. CASE v \in gone
    <3>1. version'[v] = [version[v] EXCEPT !.state = "deleted"]  BY <1>1, <2>2
    <3> QED BY <2>1, <3>1 DEF Stored
  <2>3. CASE v \notin gone  BY <1>1, <2>3 DEF Stored
  <2> QED BY <2>2, <2>3
<1>4. RowsPlaced'  BY <1>2, <1>3 DEF ActiveInv, RowsPlaced, Reading
<1>5. ASSUME NEW d \in Datasets PROVE (Owned(d) \/ Untouched(d))'
  <2>1. ActiveOf(d)' \subseteq ActiveOf(d)  BY <1>3 DEF ActiveOf, VersionsOf
  <2>2. \A u \in Uploaders, v \in Versions : Saw(u, d, v) => Saw(u, d, v)'
    BY <1>2 DEF Saw, Reading
  <2>3. Owned(d) \/ Untouched(d)  BY DEF ActiveInv, Charged
  <2> QED BY <2>1, <2>2, <2>3, ChargesStand
<1> QED BY <1>4, <1>5 DEF ActiveInv, Charged

LEMMA ActiveStep == TypeInv /\ ActiveInv /\ [Next]_vars => ActiveInv'
<1> SUFFICES ASSUME TypeInv, ActiveInv, [Next]_vars PROVE ActiveInv'  OBVIOUS
<1>1. CASE UNCHANGED registryVars
  <2>1. dataset' = dataset /\ version' = version /\ upload' = upload
    BY <1>1 DEF registryVars
  <2>2. RowsPlaced'  BY <2>1 DEF ActiveInv, RowsPlaced, Stored, Reading
  <2>3. Charged'
    BY <2>1 DEF ActiveInv, Charged, Owned, Untouched, Saw, Reading, ActiveOf, VersionsOf, Stored
  <2> QED BY <2>2, <2>3 DEF ActiveInv
<1>2. CASE RegistryOpen \/ RegistryClose  BY <1>2, UploadsCharge
<1>3. CASE Governance
  <2>1. CASE EndRetention
    <3>1. retention.versions \in SUBSET Versions  BY DEF TypeInv, SubmissionTypeOK
    <3> QED BY <1>1, <2>1, <3>1, DropsKeepCharges DEF EndRetention, registryVars, DropVersions
  <2>2. CASE \E d \in Datasets : DeleteDataset(d)  BY <2>2, DropsKeepCharges DEF DeleteDataset
  <2> QED BY <1>1, <1>3, <2>1, <2>2 DEF Governance, SetRunLimit, SetHold, BeginRetention,
                                       CheckProject, DeleteProject
<1>4. CASE Submission
  BY <1>1, <1>4 DEF Submission, Admit, BindPolicy, Reject, StoreRun, Retry, Execute
<1> QED BY <1>1, <1>2, <1>3, <1>4 DEF Next, vars

(* However uploads, activations, retention and deletions interleave, and     *)
(* though nothing locks the rows, a dataset never has more active versions   *)
(* than there are requests that change the registry at the same time: the    *)
(* flags that overlapping writes leave behind do not pile up.                *)
THEOREM ActiveStaysBounded == Spec => []ActiveBounded
<1>1. Init => ActiveInv
  <2> SUFFICES ASSUME Init PROVE ActiveInv  OBVIOUS
  <2>1. \A v \in Versions : ~Stored(v)  BY DEF Init, RegistryInit, Stored
  <2>2. \A u \in Uploaders : ~Reading(u)  BY DEF Init, RegistryInit, Reading, Idle
  <2>3. ASSUME NEW d \in Datasets PROVE Owned(d)
    <3>1. ActiveOf(d) = {}  BY <2>1 DEF ActiveOf, VersionsOf
    <3>2. [v \in {} |-> v] \in [ActiveOf(d) -> Uploaders]  BY <3>1
    <3> QED BY <3>1, <3>2 DEF Owned
  <2> QED BY <2>1, <2>2, <2>3 DEF ActiveInv, RowsPlaced, Charged
<1>2. ActiveInv => ActiveBounded
  <2> SUFFICES ASSUME ActiveInv, NEW d \in Datasets
               PROVE  \/ Cardinality(ActiveOf(d)) <= 1
                      \/ Cardinality(ActiveOf(d)) <= Cardinality(Uploaders)
    BY DEF ActiveBounded
  <2>1. CASE Untouched(d)
    <3>1. PICK v \in Versions : ActiveOf(d) = {v}  BY <2>1 DEF Untouched
    <3>2. Cardinality({v}) = 1  BY FS_Singleton
    <3> QED BY <3>1, <3>2
  <2>2. CASE Owned(d)
    <3>1. PICK f \in [ActiveOf(d) -> Uploaders] :
            \A v, w \in ActiveOf(d) : f[v] = f[w] => v = w
      BY <2>2 DEF Owned
    <3>2. f \in Injection(ActiveOf(d), Uploaders)  BY <3>1 DEF Injection, IsInjective
    <3>3. IsFiniteSet(Uploaders)  BY RegistryAssumption
    <3> QED BY <3>2, <3>3, FS_Injection
  <2> QED BY <2>1, <2>2 DEF ActiveInv, Charged
<1> QED BY <1>1, <1>2, TypeInit, TypeStep, ActiveStep, PTL DEF Spec

=============================================================================
