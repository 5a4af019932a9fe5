--------------------------- MODULE DatasetRegistry ---------------------------
(***************************************************************************)
(* The dataset registry: datasets, their immutable numbered versions and   *)
(* the flag that says which version new runs use.                          *)
(*                                                                         *)
(* The service takes no lock.  An upload and an activation first read the  *)
(* dataset with its versions and later write only the columns they         *)
(* changed, so each is two actions here: a Begin that keeps what was read  *)
(* and a Commit that writes from it.  A row that vanished in between makes *)
(* the ORM refuse the whole transaction (Abandon).  Identifiers are UUIDs: *)
(* one is never used again after its row is deleted.                       *)
(***************************************************************************)
EXTENDS Integers, FiniteSets

CONSTANTS Datasets,   \* identifiers of datasets
          Versions,   \* identifiers of dataset versions
          Uploaders,  \* requests that change the registry at the same time
          NoDataset, NoVersion   \* null references

ASSUME RegistryAssumption ==
  /\ NoDataset \notin Datasets
  /\ NoVersion \notin Versions
  /\ IsFiniteSet(Uploaders)

VARIABLES dataset,    \* dataset row: state and latest version number
          version,    \* version row: state, dataset, number and active flag
          upload      \* what each uploader has read and not yet written

registryVars == <<dataset, version, upload>>

States == {"unused", "live", "deleted"}

Live(d) == dataset[d].state = "live"
Stored(v) == version[v].state = "live"
VersionsOf(d) == {v \in Versions : Stored(v) /\ version[v].dataset = d}
ActiveOf(d) == {v \in VersionsOf(d) : version[v].active}

Idle == [op |-> "idle", dataset |-> NoDataset, target |-> NoVersion,
         seen |-> {}, latest |-> 0]

RegistryInit ==
  /\ dataset = [d \in Datasets |-> [state |-> "unused", latest |-> 0]]
  /\ version = [v \in Versions |-> [state |-> "unused", dataset |-> NoDataset,
                                    number |-> 0, active |-> FALSE]]
  /\ upload = [u \in Uploaders |-> Idle]

Row(d, n) == [state |-> "live", dataset |-> d, number |-> n, active |-> TRUE]

\* A dataset is stored with its first version, active and numbered 1.
CreateDataset(d, v) ==
  /\ dataset[d].state = "unused"
  /\ version[v].state = "unused"
  /\ dataset' = [dataset EXCEPT ![d] = [state |-> "live", latest |-> 1]]
  /\ version' = [version EXCEPT ![v] = Row(d, 1)]
  /\ UNCHANGED upload

\* The read of add_version and of set_active_version: the dataset, its
\* versions and, for an activation, a target that belongs to the dataset.
BeginUpload(u, d, op, target) ==
  /\ upload[u] = Idle
  /\ Live(d)
  /\ target \in (IF op = "activate" THEN VersionsOf(d) ELSE {NoVersion})
  /\ upload' = [upload EXCEPT ![u] =
       [op |-> op, dataset |-> d, target |-> target, seen |-> ActiveOf(d),
        latest |-> dataset[d].latest]]
  /\ UNCHANGED <<dataset, version>>

\* Mutation: the new version is added and the previous ones stay active.
AddedKeepingOld(read, new) ==
  [version EXCEPT ![new] = Row(read.dataset, read.latest + 1)]

\* The versions the reader saw active are switched off and the new one, with
\* the number after the one the reader saw, is switched on.
Added(read, new) ==
  [v \in Versions |->
     IF v = new THEN Row(read.dataset, read.latest + 1)
     ELSE [version[v] EXCEPT !.active = @ /\ v \notin read.seen]]

CommitAdd(u, new) ==
  LET read == upload[u] IN
  /\ read.op = "add"
  /\ version[new].state = "unused"
  /\ Live(read.dataset)
  /\ \A v \in read.seen : Stored(v)
  /\ version' = Added(read, new)
  /\ dataset' = [dataset EXCEPT ![read.dataset].latest = read.latest + 1]
  /\ upload' = [upload EXCEPT ![u] = Idle]

\* The rows an activation writes: only those whose flag it saw differ.
Dirty(read) == (read.seen \cup {read.target}) \ (read.seen \cap {read.target})

CommitActivate(u) ==
  LET read == upload[u] IN
  /\ read.op = "activate"
  /\ \A v \in Dirty(read) : Stored(v)
  /\ version' = [v \in Versions |->
       IF v \in Dirty(read) THEN [version[v] EXCEPT !.active = v = read.target]
       ELSE version[v]]
  /\ upload' = [upload EXCEPT ![u] = Idle]
  /\ UNCHANGED dataset

\* A row that was read has been deleted: the flush matches no row, the
\* transaction is rolled back and the request answers an error.
AbandonUpload(u) ==
  LET read == upload[u] IN
  /\ read # Idle
  /\ IF read.op = "add" THEN ~Live(read.dataset) \/ \E v \in read.seen : ~Stored(v)
                        ELSE \E v \in Dirty(read) : ~Stored(v)
  /\ upload' = [upload EXCEPT ![u] = Idle]
  /\ UNCHANGED <<dataset, version>>

\* Deleting a dataset deletes its versions with it.
DropDataset(d) ==
  /\ Live(d)
  /\ dataset' = [dataset EXCEPT ![d].state = "deleted"]
  /\ version' = [v \in Versions |->
       IF v \in VersionsOf(d) THEN [version[v] EXCEPT !.state = "deleted"]
       ELSE version[v]]
  /\ UNCHANGED upload

DropVersions(S) ==
  /\ version' = [v \in Versions |->
       IF v \in S /\ Stored(v) THEN [version[v] EXCEPT !.state = "deleted"]
       ELSE version[v]]
  /\ UNCHANGED <<dataset, upload>>

\* Mutation: the pinned version is looked up without its dataset.
ResolvedAnywhere(d, pin) ==
  IF pin = NoVersion THEN ActiveOf(d) ELSE {v \in {pin} : Stored(v)}

\* The version a run request names: the pinned one when it belongs to the
\* dataset, else any active one (the query takes the first, unordered).
Resolved(d, pin) ==
  IF pin = NoVersion THEN ActiveOf(d) ELSE VersionsOf(d) \cap {pin}

RegistryOpen ==
  \/ \E d \in Datasets, v \in Versions : CreateDataset(d, v)
  \/ \E u \in Uploaders, d \in Datasets, op \in {"add", "activate"},
        target \in Versions \cup {NoVersion} : BeginUpload(u, d, op, target)

RegistryClose ==
  \/ \E u \in Uploaders, new \in Versions : CommitAdd(u, new)
  \/ \E u \in Uploaders : CommitActivate(u) \/ AbandonUpload(u)

-----------------------------------------------------------------------------

\* With several requests at once, a dataset can have several active versions,
\* but never more than there are requests: each of them leaves at most its own
\* version active in addition, and the next time it uploads or activates it
\* has read that one and switches it off (add_version, set_active_version).
\* The surplus does not pile up over a long sequence of overlapping uploads,
\* activations and deletions.
ActiveBounded ==
  \A d \in Datasets :
    \/ Cardinality(ActiveOf(d)) <= 1
    \/ Cardinality(ActiveOf(d)) <= Cardinality(Uploaders)

=============================================================================
