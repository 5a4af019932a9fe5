--------------------------- MODULE MembershipsProofs ---------------------------
(***************************************************************************)
(* What the last-owner guard gives for any number of users and requests.   *)
(***************************************************************************)
EXTENDS Memberships, FiniteSetTheorems, TLAPS

(* A guarded write that is still to come holds the locks of two owners, and  *)
(* nobody else can write the rows it holds.                                  *)
LocksInv ==
  \A t \in Requests :
    Locking /\ pc[t] = "write" /\ NeedsGuard(seen[t], wanted[t]) =>
      /\ held[t] \subseteq Owners
      /\ \E a, b \in held[t] : a # b

Inv == TypeOK /\ LocksInv

-----------------------------------------------------------------------------
(* The count of the guard leaves two different owners.                       *)
LEMMA TwoOwners ==
  ASSUME NEW S, S \subseteq Users, ~LastOwner(S)
  PROVE  \E a, b \in S : a # b
<1>1. IsFiniteSet(S)  BY FS_Subset, MembershipsAssumption
<1>2. Cardinality(S) \in Nat  BY <1>1, FS_CardinalityType
<1>3. Cardinality(S) > 1  BY <1>2, SMT DEF LastOwner
<1>4. PICK a \in S : TRUE
  <2>1. Cardinality({}) = 0  BY FS_EmptySet
  <2>2. S # {}  BY <1>3, <2>1, SMT
  <2> QED BY <2>2
<1>5. SUFFICES ASSUME \A b \in S : b = a PROVE FALSE  BY <1>4
<1>6. S = {a}  BY <1>4, <1>5
<1>7. Cardinality({a}) = 1  BY FS_Singleton
<1> QED BY <1>3, <1>6, <1>7, SMT

(* End puts a request back to where it was before it was authorized.         *)
LEMMA EndTypes ==
  ASSUME TypeOK, NEW t \in Requests, End(t), role' \in [Users -> Roles \union {"none"}],
         gone' \subseteq Requests
  PROVE  TypeOK'
<1>1. pc' \in [Requests -> {"idle", "read", "guard", "write"}]  BY DEF TypeOK, End
<1>2. op' \in [Requests -> {"none", "add", "update", "remove"}]  BY DEF TypeOK, End
<1>3. target' \in [Requests -> Users \union {"none"}]  BY DEF TypeOK, End
<1>4. \A r \in Requests : pc'[r] # "idle" => target'[r] \in Users  BY DEF TypeOK, End
<1>5. wanted' \in [Requests -> Roles \union {"none"}]
      /\ seen' \in [Requests -> Roles \union {"none"}]  BY DEF TypeOK, End
<1>6. held' \in [Requests -> SUBSET Users]  BY DEF TypeOK, End
<1> QED BY <1>1, <1>2, <1>3, <1>4, <1>5, <1>6 DEF TypeOK

(* Type correctness is preserved by every step.                              *)
LEMMA TypeStep == TypeOK /\ [Next]_vars => TypeOK'
<1> SUFFICES ASSUME TypeOK, [Next]_vars PROVE TypeOK'  OBVIOUS
<1>1. CASE UNCHANGED vars  BY <1>1 DEF TypeOK, vars
<1>2. CASE Next
  <2> PICK t \in Requests : Request(t)  BY <1>2 DEF Next
  <2>1. CASE Authorize(t)
    <3> PICK caller \in Owners, u \in Users, o \in {"add", "update", "remove"}, r \in Roles :
          /\ o = "remove" => u # caller
          /\ op' = [op EXCEPT ![t] = o]
          /\ target' = [target EXCEPT ![t] = u]
          /\ wanted' = [wanted EXCEPT ![t] = IF o = "remove" THEN "none" ELSE r]
      BY <2>1, Zenon DEF Authorize
    <3>1. op' \in [Requests -> {"none", "add", "update", "remove"}]  BY DEF TypeOK
    <3>2. target' \in [Requests -> Users \union {"none"}]  BY DEF TypeOK
    <3>3. wanted' \in [Requests -> Roles \union {"none"}]  BY DEF TypeOK
    <3>4. pc' \in [Requests -> {"idle", "read", "guard", "write"}]
      BY <2>1 DEF TypeOK, Authorize
    <3>5. \A s \in Requests : pc'[s] # "idle" => target'[s] \in Users
      BY <2>1 DEF TypeOK, Authorize
    <3> QED BY <2>1, <3>1, <3>2, <3>3, <3>4, <3>5 DEF TypeOK, Authorize
  <2>2. CASE NotFound(t)  BY <2>2, EndTypes DEF NotFound, Forget, TypeOK
  <2>3. CASE ReadMembership(t)
    <3>1. role[target[t]] \in Roles \union {"none"}  BY <2>3 DEF TypeOK, ReadMembership
    <3>2. seen' \in [Requests -> Roles \union {"none"}]
      BY <2>3, <3>1 DEF TypeOK, ReadMembership
    <3>3. pc' \in [Requests -> {"idle", "read", "guard", "write"}]
      BY <2>3 DEF TypeOK, ReadMembership
    <3>4. \A s \in Requests : pc'[s] # "idle" => target'[s] \in Users
      BY <2>3 DEF TypeOK, ReadMembership
    <3> QED BY <2>3, <3>2, <3>3, <3>4 DEF TypeOK, ReadMembership
  <2>4. CASE LockOwners(t)
    <3>1. held' \in [Requests -> SUBSET Users]
      BY <2>4 DEF TypeOK, LockOwners, LockedRows, Owners
    <3>2. pc' \in [Requests -> {"idle", "read", "guard", "write"}]
      BY <2>4 DEF TypeOK, LockOwners
    <3>3. \A s \in Requests : pc'[s] # "idle" => target'[s] \in Users
      BY <2>4 DEF TypeOK, LockOwners
    <3> QED BY <2>4, <3>1, <3>2, <3>3 DEF TypeOK, LockOwners
  <2>5. CASE Refuse(t)  BY <2>5, EndTypes DEF Refuse, Forget, TypeOK
  <2>6. CASE Write(t)
    <3>1. role' \in [Users -> Roles \union {"none"}]
      BY <2>6 DEF Write, InsertMember, UpdateRole, RemoveMember, TypeOK
    <3>2. gone' \subseteq Requests
      BY <2>6 DEF Write, InsertMember, UpdateRole, RemoveMember, Forget, TypeOK
    <3> QED BY <2>6, <3>1, <3>2, EndTypes DEF Write
  <2>7. CASE RollBack(t)  BY <2>7, EndTypes DEF RollBack, Forget, TypeOK
  <2> QED BY <2>1, <2>2, <2>3, <2>4, <2>5, <2>6, <2>7 DEF Request
<1> QED BY <1>1, <1>2 DEF Next

(* Every step is well typed: a request past its start has a target.          *)
THEOREM TypeCorrect == Spec => []TypeOK
<1>1. Init => TypeOK  BY DEF Init, TypeOK, Roles
<1> QED BY <1>1, TypeStep, PTL DEF Spec

-----------------------------------------------------------------------------
(* A write changes the role of its target and of nobody else.                *)
LEMMA WriteIsLocal ==
  ASSUME TypeOK, NEW t \in Requests, Write(t), NEW u \in Users, u # target[t]
  PROVE  role'[u] = role[u]
BY DEF Write, InsertMember, UpdateRole, RemoveMember, TypeOK

(* A step of one request that leaves the roles keeps what another has        *)
(* locked, as long as it leaves the other's state.                           *)
LEMMA OthersKept ==
  ASSUME LocksInv, NEW s \in Requests,
         pc'[s] = pc[s], seen'[s] = seen[s], wanted'[s] = wanted[s], held'[s] = held[s],
         \A u \in held[s] : u \in Owners => u \in Owners',
         Locking, pc'[s] = "write", NeedsGuard(seen'[s], wanted'[s])
  PROVE  held'[s] \subseteq Owners' /\ \E a, b \in held'[s] : a # b
<1>1. held[s] \subseteq Owners /\ \E a, b \in held[s] : a # b
  BY DEF LocksInv, NeedsGuard
<1> QED BY <1>1

(* The locks of a guarded write hold until it is committed or rolled back.   *)
LEMMA LocksStep == Inv /\ [Next]_vars => LocksInv'
<1> SUFFICES ASSUME TypeOK, LocksInv, [Next]_vars,
                    NEW s \in Requests,
                    Locking, pc'[s] = "write", NeedsGuard(seen'[s], wanted'[s])
             PROVE  held'[s] \subseteq Owners' /\ \E a, b \in held'[s] : a # b
  BY DEF Inv, LocksInv
<1>1. CASE UNCHANGED vars  BY <1>1, OthersKept DEF vars, Owners
<1>2. CASE Next
  <2> PICK t \in Requests : Request(t)  BY <1>2 DEF Next
  <2>1. CASE Authorize(t)
    <3>1. s # t  BY <2>1 DEF Authorize, TypeOK
    <3>2. wanted'[s] = wanted[s]  BY <2>1, <3>1 DEF Authorize, TypeOK
    <3>3. pc'[s] = pc[s]  BY <2>1, <3>1 DEF Authorize, TypeOK
    <3> QED BY <2>1, <3>2, <3>3, OthersKept DEF Authorize, Owners
  <2>2. ASSUME End(t), UNCHANGED role PROVE held'[s] \subseteq Owners' /\ \E a, b \in held'[s] : a # b
    <3>1. s # t  BY <2>2 DEF End, TypeOK
    <3> QED BY <2>2, <3>1, OthersKept DEF End, TypeOK, Owners
  <2>3. CASE ReadMembership(t)
    <3>1. s # t
      <4>1. SUFFICES ASSUME s = t PROVE FALSE  OBVIOUS
      <4>2. seen'[t] = role[target[t]] /\ wanted'[t] = wanted[t]
        BY <2>3 DEF ReadMembership, TypeOK
      <4>3. NeedsGuard(role[target[t]], wanted[t])  BY <4>1, <4>2
      <4>4. pc'[t] = "guard"  BY <2>3, <4>3 DEF ReadMembership, TypeOK
      <4> QED BY <4>1, <4>4
    <3> QED BY <2>3, <3>1, OthersKept DEF ReadMembership, TypeOK, Owners
  <2>4. CASE LockOwners(t)
    <3>1. CASE s = t
      <4>1. held'[t] = Owners /\ Owners' = Owners
        BY <2>4 DEF LockOwners, LockedRows, TypeOK, Owners
      <4>2. \E a, b \in Owners : a # b  BY <2>4, TwoOwners DEF LockOwners, Owners
      <4> QED BY <3>1, <4>1, <4>2
    <3>2. CASE s # t
      <4>1. /\ role' = role /\ seen' = seen /\ wanted' = wanted
            /\ held' = [held EXCEPT ![t] = LockedRows(Owners)]
            /\ pc' = [pc EXCEPT ![t] = "write"]
        BY <2>4 DEF LockOwners
      <4>2. pc'[s] = pc[s] /\ held'[s] = held[s]
        BY <3>2, <4>1 DEF TypeOK
      <4> QED BY <4>1, <4>2, OthersKept DEF Owners
    <3> QED BY <3>1, <3>2
  <2>5. CASE Write(t)
    <3>1. s # t  BY <2>5 DEF Write, End, TypeOK
    <3>2. target[t] \notin held[s]  BY <2>5, <3>1 DEF Write, RowLocked
    <3>3. \A u \in held[s] : u \in Owners => u \in Owners'
      BY <2>5, <3>2, WriteIsLocal DEF Owners
    <3> QED BY <2>5, <3>1, <3>3, OthersKept DEF Write, End, TypeOK
  <2> QED BY <2>1, <2>2, <2>3, <2>4, <2>5 DEF Request, NotFound, Refuse, RollBack
<1> QED BY <1>1, <1>2

(* The inductive invariant.                                                  *)
LEMMA Invariance == Spec => []Inv
<1>1. Init => Inv  BY DEF Init, Inv, TypeOK, LocksInv, Roles
<1>2. Inv /\ [Next]_vars => Inv'  BY TypeStep, LocksStep DEF Inv
<1> QED BY <1>1, <1>2, PTL DEF Spec

(* Of two locked owners the write can take one; the other is an owner after  *)
(* it.                                                                       *)
LEMMA OwnerLeft ==
  ASSUME Inv, NEW t \in Requests, Locking, Write(t), NeedsGuard(seen[t], wanted[t])
  PROVE  Owners' # {}
<1>1. held[t] \subseteq Owners /\ \E a, b \in held[t] : a # b
  BY DEF Inv, LocksInv, Write
<1>2. PICK u \in held[t] : u # target[t]  BY <1>1
<1>3. u \in Users /\ role[u] = "owner"  BY <1>1, <1>2 DEF Owners
<1>4. role'[u] = role[u]  BY <1>2, <1>3, WriteIsLocal DEF Inv
<1>5. u \in Owners'  BY <1>3, <1>4 DEF Owners
<1> QED BY <1>5

(* With row locks no demotion or removal that passed the guard takes the     *)
(* last owner, for any number of users and concurrent requests.              *)
THEOREM GuardHolds == Spec => GuardedWriteLeavesOwner
<1>1. Inv /\ [Next]_vars =>
        [\A t \in Requests :
           Locking /\ Write(t) /\ NeedsGuard(seen[t], wanted[t]) => Owners' # {}]_vars
  BY OwnerLeft
<1> QED BY <1>1, Invariance, PTL DEF Spec, GuardedWriteLeavesOwner

=============================================================================
