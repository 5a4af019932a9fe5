----------------------------- MODULE MCMemberships -----------------------------
(***************************************************************************)
(* Instances of the memberships for TLC.                                   *)
(***************************************************************************)
EXTENDS Memberships, TLC

UserAndRequestSymmetry == Permutations(Users) \union Permutations(Requests)

=============================================================================
