------------------------------ MODULE Recurrence ------------------------------
(***************************************************************************)
(* What recurring evaluations promise, however many dispatchers look for   *)
(* due schedules and whether or not the database locks rows: a schedule    *)
(* has one next time, which is served at that time or later, once; what    *)
(* became of it is recorded, and in the same instant the next time moves   *)
(* to the first planned time that has not come yet.  A failed attempt      *)
(* counts as served.  A pause may come too late for the occurrence that    *)
(* is being served; a purge leaves nothing of the schedule behind.         *)
(***************************************************************************)
EXTENDS Integers

CONSTANTS
  Schedules,   (* schedule ids                                               *)
  Period       (* the period of each schedule                                *)

VARIABLES
  time,
  state,    (* absent, active, paused or purged                              *)
  due,      (* the time to be served next                                    *)
  served    (* what was served: for which time, when, and whether by a run   *)

vars == <<time, state, due, served>>

Kept == {"active", "paused"}

Init ==
  /\ time = 0
  /\ state = [s \in Schedules |-> "absent"]
  /\ due = [s \in Schedules |-> 0]
  /\ served = {}

Plan(s) ==
  /\ state[s] = "absent"
  /\ state' = [state EXCEPT ![s] = "active"]
  /\ due'[s] \in Nat /\ due' = [due EXCEPT ![s] = due'[s]]
  /\ UNCHANGED <<time, served>>

Switch(s) ==
  /\ state[s] \in Kept
  /\ \E other \in Kept \ {state[s]} : state' = [state EXCEPT ![s] = other]
  /\ UNCHANGED <<time, due, served>>

(* What is late makes up for the planned times it missed.                    *)
Serve(s) ==
  /\ state[s] \in Kept
  /\ \E at \in due[s]..time, run \in BOOLEAN : \E missed \in 0..at :
       LET last == due[s] + missed * Period[s] IN
         /\ last <= at /\ at < last + Period[s]
         /\ due' = [due EXCEPT ![s] = last + Period[s]]
         /\ served' = served \union
              {[schedule |-> s, for |-> due[s], at |-> at, run |-> run]}
  /\ UNCHANGED <<time, state>>

Purge(s) ==
  /\ state[s] \in Kept
  /\ state' = [state EXCEPT ![s] = "purged"]
  /\ served' = {o \in served : o.schedule # s}
  /\ UNCHANGED <<time, due>>

Advance == time' = time + 1 /\ UNCHANGED <<state, due, served>>

Next == (\E s \in Schedules : Plan(s) \/ Switch(s) \/ Serve(s) \/ Purge(s)) \/ Advance

Spec == Init /\ [][Next]_vars

=============================================================================
