----------------------------- MODULE MCSchedules -----------------------------
(***************************************************************************)
(* Instances of the schedules for TLC: a short and a long period.          *)
(***************************************************************************)
EXTENDS Schedules, TLC

CONSTANTS s1, s2

PeriodOf == [s \in Schedules |-> IF s = s1 THEN 2 ELSE 3]

DispatcherSymmetry == Permutations(Dispatchers)

=============================================================================
