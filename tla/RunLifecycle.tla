------------------------------ MODULE RunLifecycle ------------------------------
(***************************************************************************)
(* What the evaluation queue promises about a run, whatever threads,       *)
(* handlers and failures do behind it: one run executes at a time, an      *)
(* execution spends one attempt of a bounded budget, a run that has        *)
(* reached completed, failed or interrupted stays there, and work whose    *)
(* executor is gone is interrupted, never silently restarted.              *)
(*                                                                         *)
(* "stalled" is a run that the database still calls running although       *)
(* nobody executes it.                                                     *)
(***************************************************************************)
EXTENDS Naturals

CONSTANTS
  Runs,         (* run ids                                                   *)
  MaxAttempts   (* executions a run may have                                 *)

VARIABLES
  state,   (* what a reader of the finished handlers' work sees of each run  *)
  tries    (* executions of each run so far                                  *)

vars == <<state, tries>>

Final == {"completed", "failed", "interrupted"}
State == {"absent", "queued", "running", "stalled"} \union Final

Init ==
  /\ state = [r \in Runs |-> "absent"]
  /\ tries = [r \in Runs |-> 0]

Move(r, from, to) ==
  /\ state[r] \in from
  /\ state' = [state EXCEPT ![r] = to]

Submit(r) == Move(r, {"absent"}, "queued") /\ UNCHANGED tries

CancelQueued(r) == Move(r, {"queued"}, "interrupted") /\ UNCHANGED tries

Start(r) ==
  /\ \A q \in Runs : state[q] # "running"
  /\ tries[r] < MaxAttempts
  /\ Move(r, {"queued"}, "running")
  /\ tries' = [tries EXCEPT ![r] = @ + 1]

Requeue(r) ==
  /\ tries[r] < MaxAttempts
  /\ Move(r, {"running"}, "queued")
  /\ UNCHANGED tries

Finish(r, outcome) == Move(r, {"running"}, outcome) /\ UNCHANGED tries

Stall(r) == Move(r, {"running"}, "stalled") /\ UNCHANGED tries

(* A restart interrupts every stalled run.                                   *)
Reconcile ==
  /\ state' = [r \in Runs |-> IF state[r] = "stalled" THEN "interrupted" ELSE state[r]]
  /\ UNCHANGED tries

Next ==
  \/ \E r \in Runs :
       \/ Submit(r) \/ CancelQueued(r) \/ Start(r) \/ Requeue(r) \/ Stall(r)
       \/ \E outcome \in Final : Finish(r, outcome)
  \/ Reconcile

Spec == Init /\ [][Next]_vars

=============================================================================
