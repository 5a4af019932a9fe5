------------------------------- MODULE Memberships -------------------------------
(***************************************************************************)
(* Members of one workspace and the requests of its owners that add a      *)
(* member, change a role or remove a member.                               *)
(*                                                                         *)
(* Every request is a thread with one transaction: it reads the membership *)
(* row of its target; if the row says owner and would not any more, it     *)
(* locks and counts the owners; then it writes its row.  PostgreSQL keeps  *)
(* the lock until the commit, SQLite ignores FOR UPDATE and runs SELECTs   *)
(* outside a transaction.                                                  *)
(***************************************************************************)
EXTENDS Naturals, FiniteSets

CONSTANTS
  Users,     (* user ids                                                     *)
  Requests,  (* threads that may be inside a membership request              *)
  Locking    (* the database honours SELECT ... FOR UPDATE                   *)

ASSUME MembershipsAssumption ==
  /\ IsFiniteSet(Users)
  /\ Locking \in BOOLEAN

(* client_viewer differs from viewer in project access only.                 *)
Roles == {"owner", "editor", "viewer"}

VARIABLES
  role,     \* the role in a user's membership row; "none" without a row
  pc,       \* where each request is
  op,       \* what it was asked to do: add, update or remove
  target,   \* the user it is about
  wanted,   \* the role it shall write; "none" when it removes the row
  seen,     \* the role it has read
  gone,     \* requests whose row was deleted after they read it
  held      \* owners whose rows a request has locked

vars == <<role, pc, op, target, wanted, seen, gone, held>>

Owners == {u \in Users : role[u] = "owner"}

TypeOK ==
  /\ role \in [Users -> Roles \union {"none"}]
  /\ pc \in [Requests -> {"idle", "read", "guard", "write"}]
  /\ op \in [Requests -> {"none", "add", "update", "remove"}]
  /\ target \in [Requests -> Users \union {"none"}]
  /\ \A t \in Requests : pc[t] # "idle" => target[t] \in Users
  /\ wanted \in [Requests -> Roles \union {"none"}]
  /\ seen \in [Requests -> Roles \union {"none"}]
  /\ gone \subseteq Requests
  /\ held \in [Requests -> SUBSET Users]

(* bootstrap creates the workspace with its first owner.                     *)
Init ==
  /\ \E first \in Users : role = [u \in Users |-> IF u = first THEN "owner" ELSE "none"]
  /\ pc = [t \in Requests |-> "idle"]
  /\ op = [t \in Requests |-> "none"]
  /\ target = [t \in Requests |-> "none"]
  /\ wanted = [t \in Requests |-> "none"]
  /\ seen = [t \in Requests |-> "none"]
  /\ gone = {}
  /\ held = [t \in Requests |-> {}]

(* A statement that locks or writes a row waits for the lock on it.          *)
RowLocked(t, u) == \E other \in Requests \ {t} : u \in held[other]

End(t) ==
  /\ pc' = [pc EXCEPT ![t] = "idle"]
  /\ op' = [op EXCEPT ![t] = "none"]
  /\ target' = [target EXCEPT ![t] = "none"]
  /\ wanted' = [wanted EXCEPT ![t] = "none"]
  /\ seen' = [seen EXCEPT ![t] = "none"]
  /\ held' = [held EXCEPT ![t] = {}]

Forget(t) == gone' = gone \ {t}

-----------------------------------------------------------------------------
(* The caller is authenticated and found to be an owner before the service   *)
(* runs; nobody looks at the caller's role again.  Owners do not remove      *)
(* themselves.                                                               *)
Authorize(t) ==
  /\ pc[t] = "idle"
  /\ \E caller \in Owners, u \in Users, o \in {"add", "update", "remove"}, r \in Roles :
       /\ o = "remove" => u # caller
       /\ op' = [op EXCEPT ![t] = o]
       /\ target' = [target EXCEPT ![t] = u]
       /\ wanted' = [wanted EXCEPT ![t] = IF o = "remove" THEN "none" ELSE r]
  /\ pc' = [pc EXCEPT ![t] = "read"]
  /\ UNCHANGED <<role, seen, gone, held>>

NotFound(t) ==
  /\ pc[t] = "read"
  /\ role[target[t]] = "none" /\ op[t] # "add"
  /\ End(t) /\ Forget(t)
  /\ UNCHANGED role

(* The decision of _assert_owner_remains, from the row it was given.         *)
NeedsGuard(before, after) == before = "owner" /\ after # "owner"

ReadMembership(t) ==
  /\ pc[t] = "read"
  /\ role[target[t]] = "none" => op[t] = "add"
  /\ seen' = [seen EXCEPT ![t] = role[target[t]]]
  /\ pc' = [pc EXCEPT ![t] = IF NeedsGuard(role[target[t]], wanted[t]) THEN "guard" ELSE "write"]
  /\ UNCHANGED <<role, op, target, wanted, gone, held>>

(* The decision of the count.                                                *)
LastOwner(owners) == Cardinality(owners) <= 1

(* Mutation: the owners are counted without locking them.                    *)
LockedRowsNone(owners) == {}

LockedRows(owners) == IF Locking THEN owners ELSE {}

(* _lock_workspace_owners and the count.                                     *)
LockOwners(t) ==
  /\ pc[t] = "guard"
  /\ \A u \in Owners : ~RowLocked(t, u)
  /\ ~LastOwner(Owners)
  /\ held' = [held EXCEPT ![t] = LockedRows(Owners)]
  /\ pc' = [pc EXCEPT ![t] = "write"]
  /\ UNCHANGED <<role, op, target, wanted, seen, gone>>

(* LastWorkspaceOwnerError.                                                  *)
Refuse(t) ==
  /\ pc[t] = "guard"
  /\ \A u \in Owners : ~RowLocked(t, u)
  /\ LastOwner(Owners)
  /\ End(t) /\ Forget(t)
  /\ UNCHANGED role

(* The new row of add_member, which the unique constraint lets in once.      *)
InsertMember(t) ==
  /\ seen[t] = "none" /\ role[target[t]] = "none"
  /\ role' = [role EXCEPT ![target[t]] = wanted[t]]
  /\ Forget(t)

(* The UPDATE names the row by its id, and is left out when nothing changes. *)
UpdateRole(t) ==
  /\ seen[t] # "none" /\ op[t] # "remove" /\ t \notin gone
  /\ role' = IF wanted[t] = seen[t] THEN role ELSE [role EXCEPT ![target[t]] = wanted[t]]
  /\ Forget(t)

(* The DELETE names the row by its id; other requests may have read it.      *)
RemoveMember(t) ==
  /\ op[t] = "remove"
  /\ IF t \in gone
     THEN UNCHANGED role /\ Forget(t)
     ELSE /\ role' = [role EXCEPT ![target[t]] = "none"]
          /\ gone' = gone \union {other \in Requests \ {t} :
                        target[other] = target[t] /\ seen[other] # "none"}

Write(t) ==
  /\ pc[t] = "write"
  /\ ~RowLocked(t, target[t])
  /\ InsertMember(t) \/ UpdateRole(t) \/ RemoveMember(t)
  /\ End(t)

(* A refused insert, a row that is gone, a deadlock, a lost connection.      *)
RollBack(t) ==
  /\ pc[t] # "idle"
  /\ End(t) /\ Forget(t)
  /\ UNCHANGED role

Request(t) ==
  Authorize(t) \/ NotFound(t) \/ ReadMembership(t) \/ LockOwners(t) \/ Refuse(t) \/ Write(t)
    \/ RollBack(t)

Next == \E t \in Requests : Request(t)

Spec == Init /\ [][Next]_vars

-----------------------------------------------------------------------------
(* A demotion or removal that passed the guard leaves the workspace another  *)
(* owner, whatever was committed since the owners were counted.              *)
GuardedWriteLeavesOwner ==
  [][\A t \in Requests :
       Locking /\ Write(t) /\ NeedsGuard(seen[t], wanted[t]) => Owners' # {}]_vars

(* What identity_service.py:38 and REANALYSIS_REMEDIATION.md:23 say: no      *)
(* membership change leaves a workspace without an owner.                    *)
OwnerRemains == Owners # {}

=============================================================================
