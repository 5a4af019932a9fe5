--------------------------- MODULE ReleasePolicies ---------------------------
(***************************************************************************)
(* The release policy of a project: numbered revisions, drafted by editors *)
(* and approved by owners, that runs are bound to.  One project and one    *)
(* policy type; the rules of a revision and their hash never change and    *)
(* are left out.  Creation locks the project row and approval the revision *)
(* row, so each is one step on a database with row locks.                  *)
(***************************************************************************)
EXTENDS Integers, FiniteSets, FiniteSetsExt

CONSTANT MaxRevisions   \* bound: how many revisions are drafted

VARIABLES drafted,      \* the highest revision number
          approved      \* the numbers of the approved revisions

policyVars == <<drafted, approved>>

NoPolicy == 0

PolicyInit == drafted = 0 /\ approved = {}

\* The next revision takes the number after the highest one.
CreateRevision ==
  /\ drafted < MaxRevisions
  /\ drafted' = drafted + 1
  /\ UNCHANGED approved

\* An owner approves a revision; approving it again changes nothing.
Approve(n) ==
  /\ n \in 1..drafted
  /\ n \notin approved
  /\ approved' = approved \cup {n}
  /\ UNCHANGED drafted

\* Mutation: the newest revision is used whether or not it was approved.
LatestDrafted == drafted

\* The approved revision with the highest number, whatever the order in which
\* revisions were approved.
LatestApproved == Max(approved \cup {NoPolicy})

\* Deleting the project deletes its revisions.
DropRevisions == drafted' = 0 /\ approved' = {}

PolicyNext == CreateRevision \/ \E n \in 1..MaxRevisions : Approve(n)

=============================================================================
