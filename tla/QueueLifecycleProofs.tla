-------------------------- MODULE QueueLifecycleProofs --------------------------
(***************************************************************************)
(* Theorems about the life of a run, for every number of runs, attempts,   *)
(* batches, threads and outages: the queue implements RunLifecycle under   *)
(* every set of faults, and, when the commits the code relies on succeed,  *)
(* no row is left running without a worker and no cancelled run ends up    *)
(* completed.                                                              *)
(*                                                                         *)
(* The argument.  A reader of finished work sees the run the worker holds  *)
(* as running, whatever status its row has in between.  So a step of the   *)
(* worker is visible only when it takes a run or lets go of one, and       *)
(* ClaimPhase says which statuses the run may have then.                   *)
(***************************************************************************)
EXTENDS QueueWorkerProofs

(* Where the worker holds its run.                                           *)
Holding == {"claim_done", "ready", "building", "generating", "persisting", "persisted",
            "completed", "returned", "raised_transient", "raised_fatal"}

LEMMA HeldIsHolding ==
  ASSUME TypeOK, NEW r PROVE Held(r) <=> claim = r /\ pc \in Holding
BY DEF TypeOK, Held, Holding, AwaitPoints, SyncPoints, OffPoints

-----------------------------------------------------------------------------
(* The lifecycle.                                                            *)

Seen == [r \in Runs |-> VisibleState(r)]

LifecycleMoves == Lifecycle!Next \/ UNCHANGED <<Seen, attempts>>

(* A visible step of one run.                                                *)
LEMMA OneRunMoves ==
  ASSUME NEW c \in Runs, NEW from, NEW to,
         VisibleState(c) \in from, VisibleState(c)' = to,
         \A r \in Runs \ {c} : VisibleState(r)' = VisibleState(r)
  PROVE  Lifecycle!Move(c, from, to)
<1>1. Seen' = [Seen EXCEPT ![c] = to]  BY DEF Seen
<1> QED BY <1>1 DEF Lifecycle!Move, Seen

LEMMA NothingSeen ==
  ASSUME UNCHANGED attempts, \A r \in Runs : VisibleState(r)' = VisibleState(r)
  PROVE  LifecycleMoves
BY DEF LifecycleMoves, Seen

(* Nobody holds a run before or after the step.                              *)
LEMMA SeenOutside ==
  ASSUME EvidenceInv, TypeOK', UNCHANGED <<status, attempts>>, pc \notin Holding, pc' \notin Holding
  PROVE  LifecycleMoves
<1>1. \A r \in Runs : ~Held(r)  BY HeldIsHolding DEF EvidenceInv, Inv
<1>2. \A r \in Runs : ~Held(r)'
  BY DEF Held, Holding, TypeOK, AwaitPoints, SyncPoints, OffPoints
<1> QED BY <1>1, <1>2, NothingSeen DEF VisibleState

(* The worker goes on holding its run: what it commits is not final.         *)
LEMMA SeenHolding ==
  ASSUME EvidenceInv, TypeOK', NEW c \in Runs, c = claim, claim' = c, pc \in Holding,
         pc' \in Holding, UNCHANGED attempts, \A r \in Runs \ {c} : status'[r] = status[r]
  PROVE  LifecycleMoves
<1>1. \A r \in Runs : Held(r) <=> r = c  BY HeldIsHolding DEF EvidenceInv, Inv
<1>2. \A r \in Runs : Held(r)' <=> r = c
  BY DEF Held, Holding
<1> QED BY <1>1, <1>2, NothingSeen DEF VisibleState

(* The worker lets go of its run, which stays where the last commit put it.  *)
LEMMA SeenLetGo ==
  ASSUME EvidenceInv, TypeOK', NEW c \in Runs, c = claim, pc \in Holding, pc' \notin Holding,
         UNCHANGED attempts, \A r \in Runs \ {c} : status'[r] = status[r],
         \/ status'[c] \in {"running", "completed", "failed", "interrupted"}
         \/ status'[c] = "queued" /\ attempts[c] < MaxAttempts
  PROVE  LifecycleMoves
<1>1. \A r \in Runs : Held(r) <=> r = c  BY HeldIsHolding DEF EvidenceInv, Inv
<1>2. \A r \in Runs : ~Held(r)'
  BY DEF Held, Holding, TypeOK, AwaitPoints, SyncPoints, OffPoints
<1>3. VisibleState(c) = "running" /\ \A r \in Runs \ {c} : VisibleState(r)' = VisibleState(r)
  BY <1>1, <1>2 DEF VisibleState
<1>4. VisibleState(c)' = IF status'[c] = "running" THEN "stalled" ELSE status'[c]
  BY <1>2 DEF VisibleState
<1>5. CASE status'[c] = "running"
  <2>1. Lifecycle!Move(c, {"running"}, "stalled")  BY <1>3, <1>4, <1>5, OneRunMoves
  <2> QED BY <2>1 DEF Lifecycle!Stall, Lifecycle!Next, LifecycleMoves
<1>6. CASE status'[c] \in {"completed", "failed", "interrupted"}
  <2>1. Lifecycle!Move(c, {"running"}, status'[c])  BY <1>3, <1>4, <1>6, OneRunMoves
  <2> QED BY <1>6, <2>1 DEF Lifecycle!Finish, Lifecycle!Final, Lifecycle!Next, LifecycleMoves
<1>7. CASE status'[c] = "queued" /\ attempts[c] < MaxAttempts
  <2>1. Lifecycle!Move(c, {"running"}, "queued")  BY <1>3, <1>4, <1>7, OneRunMoves
  <2> QED BY <1>7, <2>1 DEF Lifecycle!Requeue, Lifecycle!Next, LifecycleMoves
<1> QED BY <1>5, <1>6, <1>7

(* A handler's commit changes one row that the worker does not hold, or none *)
(* that a reader sees.                                                       *)
LEMMA SeenBeside ==
  ASSUME UNCHANGED <<attempts, pc, claim>>,
         \/ UNCHANGED status
         \/ \E c \in Runs :
              /\ \A r \in Runs \ {c} : status'[r] = status[r]
              /\ \/ Held(c)
                 \/ status[c] = "absent" /\ status'[c] = "queued"
                 \/ status[c] = "queued" /\ status'[c] = "interrupted"
  PROVE  LifecycleMoves
<1>1. \A r \in Runs : Held(r)' <=> Held(r)  BY DEF Held
<1>2. CASE UNCHANGED status  BY <1>1, <1>2, NothingSeen DEF VisibleState
<1>3. ASSUME NEW c \in Runs, \A r \in Runs \ {c} : status'[r] = status[r],
             \/ Held(c)
             \/ status[c] = "absent" /\ status'[c] = "queued"
             \/ status[c] = "queued" /\ status'[c] = "interrupted"
      PROVE  LifecycleMoves
  <2>1. \A r \in Runs \ {c} : VisibleState(r)' = VisibleState(r)  BY <1>1, <1>3 DEF VisibleState
  <2>2. CASE Held(c)  BY <1>1, <2>1, <2>2, NothingSeen DEF VisibleState
  <2>3. CASE ~Held(c) /\ status[c] = "absent" /\ status'[c] = "queued"
    <3>1. VisibleState(c) = "absent" /\ VisibleState(c)' = "queued"
      BY <1>1, <2>3 DEF VisibleState
    <3>2. Lifecycle!Move(c, {"absent"}, "queued")  BY <2>1, <3>1, OneRunMoves
    <3> QED BY <3>2 DEF Lifecycle!Submit, Lifecycle!Next, LifecycleMoves
  <2>4. CASE ~Held(c) /\ status[c] = "queued" /\ status'[c] = "interrupted"
    <3>1. VisibleState(c) = "queued" /\ VisibleState(c)' = "interrupted"
      BY <1>1, <2>4 DEF VisibleState
    <3>2. Lifecycle!Move(c, {"queued"}, "interrupted")  BY <2>1, <3>1, OneRunMoves
    <3> QED BY <3>2 DEF Lifecycle!CancelQueued, Lifecycle!Next, LifecycleMoves
  <2> QED BY <1>3, <2>2, <2>3, <2>4
<1> QED BY <1>2, <1>3

LEMMA LifecycleApi == EvidenceInv /\ Api => LifecycleMoves
<1> SUFFICES ASSUME EvidenceInv, Api PROVE LifecycleMoves  OBVIOUS
<1> USE DEF rowVars, evidenceVars, workerVars, apiVars
<1>1. ASSUME NEW r \in Runs, NewId(r), status' = [status EXCEPT ![r] = "queued"],
             UNCHANGED <<attempts, pc, claim>>
      PROVE  LifecycleMoves
  <2>1. /\ status[r] = "absent" /\ status'[r] = "queued"
        /\ \A q \in Runs \ {r} : status'[q] = status[q]
    BY <1>1 DEF NewId, EvidenceInv, Inv, TypeOK
  <2> QED BY <1>1, <2>1, SeenBeside
<1>2. CASE Submit  BY <1>1, <1>2 DEF Submit
<1>3. ASSUME NEW t \in Retriers, InsertRetry(t) PROVE LifecycleMoves
  BY <1>1, <1>3 DEF InsertRetry
<1>4. CASE CancelWrite
  <2>1. PICK r \in Runs : r = cancelling.run
    BY <1>4 DEF CancelWrite, LoopFree, EvidenceInv, Inv, CancelHoldsLoop
  <2>2. /\ \A q \in Runs \ {r} : status'[q] = status[q]
        /\ status'[r] = IF cancelling.seen = "queued" THEN "interrupted" ELSE status[r]
        /\ UNCHANGED <<attempts, pc, claim>>
    BY <1>4, <2>1 DEF CancelWrite, EvidenceInv, Inv, TypeOK
  <2>3. CASE status[r] = "queued" /\ cancelling.seen = "queued"
    BY <2>2, <2>3, SeenBeside
  <2>4. CASE claim = r /\ pc \in {"claim_done", "ready"}
    BY <2>2, <2>4, SeenBeside DEF Held
  <2>5. CASE cancelling.seen # "queued"
    <3>1. UNCHANGED status  BY <1>4, <2>5 DEF CancelWrite
    <3> QED BY <2>2, <3>1, SeenBeside
  <2> QED BY <1>4, <2>1, <2>3, <2>4, <2>5 DEF CancelWrite, EvidenceInv, CancelPending
<1>5. ASSUME UNCHANGED <<status, attempts, pc, claim>> PROVE LifecycleMoves
  BY <1>5, SeenBeside
<1> QED
  BY <1>2, <1>3, <1>4, <1>5
     DEF Api, CancelRead, RetryRead, Accelerate, BaselineRead, BaselineWrite, RecordApiEvent

(* A run the worker holds is running or finished.                            *)
LEMMA HeldStatus ==
  EvidenceInv /\ pc \in Executing => status[claim] \in {"running", "completed", "failed", "interrupted"}
<1> SUFFICES ASSUME EvidenceInv, pc \in Executing
             PROVE  status[claim] \in {"running", "completed", "failed", "interrupted"}
  OBVIOUS
<1>1. claim \in Runs /\ claim # NoRun  BY ClaimIsRun DEF Executing
<1>2. status[claim] \in Status  BY <1>1 DEF EvidenceInv, Inv, TypeOK
<1>3. status[claim] \notin {"absent", "queued"}  BY <1>1 DEF EvidenceInv, ClaimPhase
<1> QED BY <1>2, <1>3 DEF Status, Terminal

(* The worker lets go of its run as it is.                                   *)
LEMMA SeenReleased ==
  ASSUME EvidenceInv, TypeOK', pc \in Holding, pc' \notin Holding, UNCHANGED <<status, attempts>>
  PROVE  LifecycleMoves
<1>1. PICK c \in Runs : c = claim  BY ClaimIsRun DEF Holding
<1>2. status'[c] \in {"running", "completed", "failed", "interrupted"}
  BY <1>1, HeldStatus DEF Holding, Executing
<1> QED BY <1>1, <1>2, SeenLetGo

(* One way or another the worker settles its run.                            *)
LEMMA SeenSettled ==
  ASSUME EvidenceInv, TypeOK', pc \in Holding,
         MarkCancelled \/ MarkNonretryableFailure \/ RetryOrFail
  PROVE  LifecycleMoves
<1>1. PICK c \in Runs : c = claim  BY ClaimIsRun DEF Holding
<1>2. ASSUME NEW s, NEW e, Settle(s, e)
      PROVE  /\ status'[c] = s /\ \A r \in Runs \ {c} : status'[r] = status[r]
             /\ pc' \notin Holding /\ UNCHANGED attempts
  BY <1>1, <1>2 DEF Settle, Holding, EvidenceInv, Inv, TypeOK
<1>3. ASSUME NEW s \in {"interrupted", "failed"}, NEW e, Settle(s, e) PROVE LifecycleMoves
  BY <1>1, <1>2, <1>3, SeenLetGo
<1>4. CASE MarkCancelled  BY <1>3, <1>4 DEF MarkCancelled
<1>5. CASE MarkNonretryableFailure  BY <1>3, <1>5 DEF MarkNonretryableFailure
<1>6. CASE ExhaustRetries  BY <1>3, <1>6 DEF ExhaustRetries
<1>7. CASE ScheduleRetry
  <2>1. Settle("queued", "run.retry_scheduled") /\ ~(attempts[c] >= MaxAttempts)
    BY <1>1, <1>7 DEF ScheduleRetry, BudgetSpent
  <2>2. attempts[c] \in Nat  BY DEF EvidenceInv, Inv, TypeOK
  <2>3. attempts[c] < MaxAttempts  BY <2>1, <2>2, ConstantsAssumption
  <2> QED BY <1>1, <1>2, <2>1, <2>3, SeenLetGo
<1> QED BY <1>4, <1>5, <1>6, <1>7 DEF RetryOrFail

LEMMA LifecycleWorker == EvidenceInv /\ TypeOK' /\ Worker => LifecycleMoves
<1> SUFFICES ASSUME EvidenceInv, TypeOK', Worker PROVE LifecycleMoves  OBVIOUS
<1> USE DEF rowVars, evidenceVars, workerVars, apiVars, At
<1>0. pc \in Holding => claim \in Runs  BY ClaimIsRun DEF Holding
<1>1. ASSUME pc \in Holding, pc' \in Holding, UNCHANGED <<attempts, claim>>,
             status' = status \/ \E s : status' = [status EXCEPT ![claim] = s]
      PROVE  LifecycleMoves
  <2>1. PICK c \in Runs : c = claim  BY <1>0, <1>1
  <2>2. \A r \in Runs \ {c} : status'[r] = status[r]
    BY <1>1, <2>1 DEF EvidenceInv, Inv, TypeOK
  <2> QED BY <1>1, <2>1, <2>2, SeenHolding
<1>2. CASE Poll  BY <1>2, SeenBeside DEF Poll, vars
<1>3. CASE ClaimRead \/ ClaimLost \/ RecordEvent
  BY <1>3, SeenOutside DEF ClaimRead, ClaimLost, RecordEvent, Release, Holding
<1>4. CASE ClaimCommit
  <2>1. PICK c \in Runs : c = claim  BY <1>4, ClaimIsRun DEF ClaimCommit
  <2>2. /\ status[c] = "queued" /\ \A r \in Runs \ {c} : status'[r] = status[r]
        /\ attempts' = [attempts EXCEPT ![c] = @ + 1]
        /\ pc = "claim_read" /\ pc' = "claim_done" /\ claim' = c
    BY <1>4, <2>1 DEF ClaimCommit, TakeClaim, Due, EvidenceInv, Inv, TypeOK
  <2>3. \A r \in Runs : ~Held(r) /\ (Held(r)' <=> r = c)  BY <2>2 DEF Held
  <2>4. /\ VisibleState(c) = "queued" /\ VisibleState(c)' = "running"
        /\ \A r \in Runs \ {c} : VisibleState(r)' = VisibleState(r)
        /\ \A r \in Runs : VisibleState(r) # "running"
    BY <2>2, <2>3 DEF VisibleState
  <2>5. attempts[c] < MaxAttempts  BY <2>2 DEF EvidenceInv, Inv, AttemptBudget
  <2>6. Lifecycle!Move(c, {"queued"}, "running")  BY <2>4, OneRunMoves
  <2>7. Lifecycle!Start(c)  BY <2>2, <2>4, <2>5, <2>6 DEF Lifecycle!Start
  <2> QED BY <2>7 DEF Lifecycle!Next, LifecycleMoves
<1>5. CASE ClaimRecorded
  <2>1. CASE stopping  BY <1>5, <2>1, SeenReleased DEF ClaimRecorded, Release, Holding
  <2>2. CASE ~stopping  BY <1>1, <1>5, <2>2 DEF ClaimRecorded, Holding
  <2> QED BY <2>1, <2>2
<1>6. CASE CancelBeforeStart  BY <1>6, SeenSettled DEF CancelBeforeStart, Holding
<1>7. CASE BuildRunner \/ BuildFails \/ GenerateBatch \/ NextBatch \/ RecordActivation
  BY <1>1, <1>7 DEF BuildRunner, BuildFails, GenerateBatch, NextBatch, RecordActivation, Holding
<1>8. CASE StartRunner
  <2>1. PICK s : s = IF ~Refused(claim) THEN "running"
                     ELSE IF status[claim] \in Terminal THEN status[claim] ELSE "failed"
    OBVIOUS
  <2>2. status' = [status EXCEPT ![claim] = s]  BY <1>8, <2>1 DEF StartRunner
  <2> QED BY <1>1, <1>8, <2>2 DEF StartRunner, Holding
<1>9. CASE CancelSeen  BY <1>1, <1>9 DEF CancelSeen, Holding
<1>10. CASE PersistBatch  BY <1>1, <1>10 DEF PersistBatch, Holding
<1>11. CASE CompleteRun  BY <1>1, <1>11 DEF CompleteRun, Complete, Holding
<1>12. CASE RunnerRaises  BY <1>1, <1>12 DEF RunnerRaises, Holding
<1>13. CASE AfterRaise  BY <1>13, SeenSettled DEF AfterRaise, Holding
<1>14. CASE AfterReturn
  <2>1. CASE ClearCompletedClaim
    BY <1>14, <2>1, SeenReleased DEF AfterReturn, ClearCompletedClaim, Release, Holding
  <2> QED BY <1>14, <2>1, SeenSettled DEF AfterReturn, Holding
<1> QED
  BY <1>2, <1>3, <1>4, <1>5, <1>6, <1>7, <1>8, <1>9, <1>10, <1>11, <1>12, <1>13, <1>14 DEF Worker

LEMMA LifecycleFaultsAndOutages ==
  EvidenceInv /\ TypeOK' /\ (WorkerFaults \/ Clock \/ Outage) => LifecycleMoves
<1> SUFFICES ASSUME EvidenceInv, TypeOK', WorkerFaults \/ Clock \/ Outage PROVE LifecycleMoves
  OBVIOUS
<1> USE DEF rowVars, evidenceVars, workerVars, apiVars
<1>1. CASE ClaimRecordFails \/ WorkerCommitFails
  BY <1>1, SeenReleased DEF ClaimRecordFails, WorkerCommitFails, Release, Holding
<1>2. CASE RecordEventFails
  BY <1>2, SeenOutside DEF RecordEventFails, Release, Holding
<1>3. CASE Clock  BY <1>3, SeenBeside DEF Clock, BackoffElapses
<1>4. CASE Stop
  <2>1. CASE pc \in {"claim_read", "claim_done"}
    BY <1>4, <2>1, SeenBeside DEF Stop
  <2>2. CASE pc \in {"generating", "persisting", "persisted"}
    <3>1. PICK c \in Runs : c = claim  BY <2>2, ClaimIsRun
    <3>2. /\ status'[c] = "interrupted" /\ \A r \in Runs \ {c} : status'[r] = status[r]
          /\ pc' \in {"draining", "down"} /\ UNCHANGED attempts
      BY <1>4, <2>2, <3>1 DEF Stop, EvidenceInv, Inv, TypeOK
    <3> QED BY <2>2, <3>1, <3>2, SeenLetGo DEF Holding
  <2>3. CASE pc \in {"ready", "building"}
    BY <1>4, <2>3, SeenReleased DEF Stop, Holding
  <2>4. CASE pc = "idle"
    BY <1>4, <2>4, SeenOutside DEF Stop, Holding
  <2> QED BY <1>4, <2>1, <2>2, <2>3, <2>4 DEF Stop, AwaitPoints
<1>5. CASE DrainWriter  BY <1>5, SeenOutside DEF DrainWriter, Holding
<1>6. CASE Crash
  <2>1. CASE pc \in Holding  BY <1>6, <2>1, SeenReleased DEF Crash, Holding
  <2>2. CASE pc \notin Holding  BY <1>6, <2>2, SeenOutside DEF Crash, Holding
  <2> QED BY <2>1, <2>2
<1>7. CASE Restart
  <2>1. /\ UNCHANGED attempts /\ pc = "down" /\ pc' = "idle"
        /\ \A r \in Runs : status'[r] = IF status[r] = "running" THEN "interrupted" ELSE status[r]
    BY <1>7 DEF Restart, Reconcile, Reconciled
  <2>2. \A r \in Runs : ~Held(r) /\ ~Held(r)'  BY <2>1 DEF Held
  <2>3. \A r \in Runs : VisibleState(r)' =
          IF VisibleState(r) = "stalled" THEN "interrupted" ELSE VisibleState(r)
    <3> SUFFICES ASSUME NEW r \in Runs
                 PROVE  VisibleState(r)' =
                          IF VisibleState(r) = "stalled" THEN "interrupted" ELSE VisibleState(r)
      OBVIOUS
    <3>1. status[r] \in Status  BY DEF EvidenceInv, Inv, TypeOK
    <3> QED BY <2>1, <2>2, <3>1 DEF VisibleState, Status, Terminal
  <2>4. Lifecycle!Reconcile  BY <2>1, <2>3 DEF Lifecycle!Reconcile
  <2> QED BY <2>4 DEF Lifecycle!Next, LifecycleMoves
<1> QED BY <1>1, <1>2, <1>3, <1>4, <1>5, <1>6, <1>7 DEF WorkerFaults, Outage

(* The queue implements the life of a run that RunLifecycle describes: one   *)
(* execution at a time, a bounded number of executions, no run revived after *)
(* it was settled, and a run whose executor is gone interrupted, under every *)
(* set of faults and for every number of runs and attempts.                  *)
THEOREM QueueImplementsLifecycle == Spec => ImplementsLifecycle
<1>1. Init => Lifecycle!Init
  <2> SUFFICES ASSUME Init PROVE Lifecycle!Init  OBVIOUS
  <2>1. \A r \in Runs : VisibleState(r) = "absent"  BY DEF Init, VisibleState, Held
  <2> QED BY <2>1 DEF Lifecycle!Init, Init
<1>2. EvidenceInv /\ EvidenceInv' /\ [Next]_vars => [Lifecycle!Next]_(Lifecycle!vars)
  <2> SUFFICES ASSUME EvidenceInv, EvidenceInv', [Next]_vars
               PROVE  [Lifecycle!Next]_(Lifecycle!vars)
    OBVIOUS
  <2>1. TypeOK'  BY DEF EvidenceInv, Inv
  <2>2. LifecycleMoves
    <3>1. CASE UNCHANGED vars
      BY <3>1, SeenBeside DEF vars, rowVars, workerVars
    <3> QED BY <2>1, <3>1, LifecycleApi, LifecycleWorker, LifecycleFaultsAndOutages DEF Next
  <2> QED BY <2>2 DEF LifecycleMoves, Seen, Lifecycle!vars
<1> QED BY <1>1, <1>2, EvidenceAlways, PTL DEF Spec, ImplementsLifecycle, Lifecycle!Spec

-----------------------------------------------------------------------------
(* No row is left running.                                                   *)

RunningHeld == \A r \in Runs : status[r] = "running" => Held(r) \/ pc = "down"

(* The worker takes a run or goes on with it: no other row is running.       *)
LEMMA RunningHolding ==
  ASSUME RunningHeld, NEW c \in Runs, c = claim, claim' = c, pc' \in Holding,
         pc \in Holding \union {"claim_read"}, \A r \in Runs \ {c} : status'[r] = status[r]
  PROVE  RunningHeld'
BY DEF RunningHeld, Held, Holding

(* The worker lets go of a run that is not running, or the process exits.    *)
LEMMA RunningLetGo ==
  ASSUME RunningHeld, NEW c \in Runs, c = claim, pc \in Holding,
         \A r \in Runs \ {c} : status'[r] = status[r], pc' = "down" \/ status'[c] # "running"
  PROVE  RunningHeld'
BY DEF RunningHeld, Held, Holding

(* A step that no running row can notice.                                    *)
LEMMA RunningBeside ==
  ASSUME EvidenceInv, RunningHeld,
         \A r \in Runs : status'[r] = "running" => status[r] = "running",
         \/ UNCHANGED <<pc, claim>>
         \/ pc \notin Holding \union {"down"} /\ pc' \notin Holding
         \/ pc' = "down"
  PROVE  RunningHeld'
BY HeldIsHolding DEF RunningHeld, Held, EvidenceInv, Inv

LEMMA RunningApi == EvidenceInv /\ RunningHeld /\ Api => RunningHeld'
<1> SUFFICES ASSUME EvidenceInv, RunningHeld, Api PROVE RunningHeld'  OBVIOUS
<1> USE DEF rowVars, evidenceVars, workerVars, apiVars
<1>1. UNCHANGED <<pc, claim>>
  BY DEF Api, Submit, CancelRead, CancelWrite, RetryRead, Accelerate, InsertRetry, BaselineRead,
         BaselineWrite, RecordApiEvent
<1>2. \A r \in Runs : status'[r] \in {status[r], "queued", "interrupted"}
  BY DEF Api, Submit, CancelRead, CancelWrite, RetryRead, Accelerate, InsertRetry, BaselineRead,
         BaselineWrite, RecordApiEvent, EvidenceInv, Inv, TypeOK
<1> QED BY <1>1, <1>2, RunningBeside

LEMMA RunningWorker == EvidenceInv /\ RunningHeld /\ Worker => RunningHeld'
<1> SUFFICES ASSUME EvidenceInv, RunningHeld, Worker PROVE RunningHeld'  OBVIOUS
<1> USE DEF rowVars, evidenceVars, workerVars, apiVars, At
<1>0. pc \notin {"idle", "down"} => claim \in Runs  BY ClaimIsRun
<1>1. ASSUME pc \in Holding \union {"claim_read"}, pc' \in Holding, UNCHANGED claim,
             status' = status \/ \E s : status' = [status EXCEPT ![claim] = s]
      PROVE  RunningHeld'
  <2>1. PICK c \in Runs : c = claim  BY <1>0, <1>1 DEF Holding
  <2>2. \A r \in Runs \ {c} : status'[r] = status[r]
    BY <1>1, <2>1 DEF EvidenceInv, Inv, TypeOK
  <2> QED BY <1>1, <2>1, <2>2, RunningHolding
<1>2. ASSUME pc \in Holding, MarkCancelled \/ MarkNonretryableFailure \/ RetryOrFail
      PROVE  RunningHeld'
  <2>1. PICK c \in Runs : c = claim  BY <1>0, <1>2 DEF Holding
  <2>2. \E s \in {"interrupted", "failed", "queued"} : status' = [status EXCEPT ![c] = s]
    BY <1>2, <2>1 DEF MarkCancelled, MarkNonretryableFailure, RetryOrFail, ExhaustRetries,
                      ScheduleRetry, Settle
  <2>3. status'[c] # "running" /\ \A r \in Runs \ {c} : status'[r] = status[r]
    BY <2>2 DEF EvidenceInv, Inv, TypeOK
  <2> QED BY <1>2, <2>1, <2>3, RunningLetGo
<1>3. CASE Poll  BY <1>3, RunningBeside DEF Poll, vars
<1>4. CASE ClaimRead \/ ClaimLost \/ RecordEvent
  BY <1>4, RunningBeside DEF ClaimRead, ClaimLost, RecordEvent, Release, Holding
<1>5. CASE ClaimCommit  BY <1>1, <1>5 DEF ClaimCommit, TakeClaim, Holding
<1>6. CASE ClaimRecorded
  <2>1. CASE stopping  BY <1>6, <2>1, RunningBeside DEF ClaimRecorded, Release
  <2>2. CASE ~stopping  BY <1>1, <1>6, <2>2 DEF ClaimRecorded, Holding
  <2> QED BY <2>1, <2>2
<1>7. CASE CancelBeforeStart  BY <1>2, <1>7 DEF CancelBeforeStart, Holding
<1>8. CASE BuildRunner \/ BuildFails \/ GenerateBatch \/ NextBatch \/ RecordActivation
  BY <1>1, <1>8 DEF BuildRunner, BuildFails, GenerateBatch, NextBatch, RecordActivation, Holding
<1>9. CASE StartRunner
  <2>1. PICK s : s = IF ~Refused(claim) THEN "running"
                     ELSE IF status[claim] \in Terminal THEN status[claim] ELSE "failed"
    OBVIOUS
  <2>2. status' = [status EXCEPT ![claim] = s]  BY <1>9, <2>1 DEF StartRunner
  <2> QED BY <1>1, <1>9, <2>2 DEF StartRunner, Holding
<1>10. CASE CancelSeen  BY <1>1, <1>10 DEF CancelSeen, Holding
<1>11. CASE PersistBatch  BY <1>1, <1>11 DEF PersistBatch, Holding
<1>12. CASE CompleteRun  BY <1>1, <1>12 DEF CompleteRun, Complete, Holding
<1>13. CASE RunnerRaises  BY <1>1, <1>13 DEF RunnerRaises, Holding
<1>14. CASE AfterRaise  BY <1>2, <1>14 DEF AfterRaise, Holding
<1>15. CASE AfterReturn
  <2>1. CASE ClearCompletedClaim
    <3>1. PICK c \in Runs : c = claim  BY <1>0, <1>15 DEF AfterReturn
    <3>2. pc \in Holding /\ status[c] # "running" /\ UNCHANGED status
      BY <1>15, <2>1, <3>1 DEF AfterReturn, ClearCompletedClaim, Holding, EvidenceInv, ClaimPhase
    <3> QED BY <3>1, <3>2, RunningLetGo
  <2> QED BY <1>2, <1>15, <2>1 DEF AfterReturn, Holding
<1> QED
  BY <1>3, <1>4, <1>5, <1>6, <1>7, <1>8, <1>9, <1>10, <1>11, <1>12, <1>13, <1>14, <1>15 DEF Worker

LEMMA RunningFaultsAndOutages ==
  /\ EvidenceInv /\ RunningHeld /\ Faults \intersect {"bookkeeping", "db"} = {}
  /\ WorkerFaults \/ Clock \/ Outage
  => RunningHeld'
<1> SUFFICES ASSUME EvidenceInv, RunningHeld, Faults \intersect {"bookkeeping", "db"} = {},
                    WorkerFaults \/ Clock \/ Outage
             PROVE  RunningHeld'
  OBVIOUS
<1> USE DEF rowVars, evidenceVars, workerVars, apiVars
<1>1. CASE WorkerFaults
  BY <1>1 DEF WorkerFaults, ClaimRecordFails, RecordEventFails, WorkerCommitFails
<1>2. CASE Clock  BY <1>2, RunningBeside DEF Clock, BackoffElapses
<1>3. CASE Stop
  <2>1. \A r \in Runs : status'[r] \in {status[r], "interrupted"}
    BY <1>3 DEF Stop, EvidenceInv, Inv, TypeOK
  <2>2. CASE pc = "persisting"
    <3>1. PICK c \in Runs : c = claim  BY <2>2, ClaimIsRun
    <3>2. status'[c] = "interrupted" /\ \A r \in Runs \ {c} : status'[r] = status[r]
      BY <1>3, <2>2, <3>1 DEF Stop, EvidenceInv, Inv, TypeOK
    <3> QED BY <2>2, <3>1, <3>2, RunningLetGo DEF Holding
  <2>3. CASE pc # "persisting"  BY <1>3, <2>1, <2>3, RunningBeside DEF Stop
  <2> QED BY <2>2, <2>3
<1>4. CASE DrainWriter \/ Crash  BY <1>4, RunningBeside DEF DrainWriter, Crash
<1>5. CASE Restart
  BY <1>5 DEF Restart, Reconcile, Reconciled, RunningHeld
<1> QED BY <1>1, <1>2, <1>3, <1>4, <1>5 DEF Outage

(* When the audit, heartbeat and worker commits succeed, no row stays running *)
(* that nobody executes: whatever stops, crashes and cancellations do, either *)
(* the worker holds the run or the process is down and will reconcile it.    *)
THEOREM RunningIsAlwaysHeld == Spec => []RunningIsHeld
<1>1. CASE Faults \intersect {"bookkeeping", "db"} = {}
  <2>1. Init => RunningHeld  BY DEF Init, RunningHeld
  <2>2. EvidenceInv /\ RunningHeld /\ [Next]_vars => RunningHeld'
    <3> SUFFICES ASSUME EvidenceInv, RunningHeld, [Next]_vars PROVE RunningHeld'  OBVIOUS
    <3>1. CASE UNCHANGED vars
      BY <3>1, RunningBeside DEF vars, rowVars, workerVars
    <3> QED BY <1>1, <3>1, RunningApi, RunningWorker, RunningFaultsAndOutages DEF Next
  <2>3. RunningHeld => RunningIsHeld  BY DEF RunningHeld, RunningIsHeld
  <2> QED BY <2>1, <2>2, <2>3, EvidenceAlways, PTL DEF Spec
<1>2. CASE Faults \intersect {"bookkeeping", "db"} # {}
  <2>1. RunningIsHeld  BY <1>2 DEF RunningIsHeld
  <2> QED BY <2>1, PTL
<1> QED BY <1>1, <1>2

-----------------------------------------------------------------------------
(* No cancelled run is left completed.                                       *)

CancelledHeld == \A r \in Runs : cancelReq[r] /\ status[r] = "completed" => Held(r)

(* The worker takes a run or goes on with it: no other row has changed.      *)
LEMMA CancelledHolding ==
  ASSUME CancelledHeld, NEW c \in Runs, c = claim, claim' = c, pc' \in Holding, UNCHANGED cancelReq,
         \A r \in Runs \ {c} : status'[r] = status[r]
  PROVE  CancelledHeld'
BY DEF CancelledHeld, Held, Holding

(* The worker lets go of a run that is not completed, or not cancelled.      *)
LEMMA CancelledLetGo ==
  ASSUME CancelledHeld, NEW c \in Runs, c = claim, UNCHANGED cancelReq,
         \A r \in Runs \ {c} : status'[r] = status[r], status'[c] # "completed" \/ ~cancelReq[c]
  PROVE  CancelledHeld'
BY DEF CancelledHeld, Held

(* A step that completes nothing and cancels no completed run.               *)
LEMMA CancelledBeside ==
  ASSUME EvidenceInv, CancelledHeld,
         \A r \in Runs : status'[r] = "completed" =>
                          status[r] = "completed" /\ cancelReq'[r] = cancelReq[r],
         UNCHANGED <<pc, claim>> \/ pc \notin Holding
  PROVE  CancelledHeld'
BY HeldIsHolding DEF CancelledHeld, Held, EvidenceInv, Inv

LEMMA CancelledApi == EvidenceInv /\ CancelledHeld /\ Api => CancelledHeld'
<1> SUFFICES ASSUME EvidenceInv, CancelledHeld, Api PROVE CancelledHeld'  OBVIOUS
<1> USE DEF rowVars, evidenceVars, workerVars, apiVars
<1>1. UNCHANGED <<pc, claim>>
  BY DEF Api, Submit, CancelRead, CancelWrite, RetryRead, Accelerate, InsertRetry, BaselineRead,
         BaselineWrite, RecordApiEvent
<1>2. \A r \in Runs : status'[r] \in {status[r], "queued", "interrupted"}
  BY DEF Api, Submit, CancelRead, CancelWrite, RetryRead, Accelerate, InsertRetry, BaselineRead,
         BaselineWrite, RecordApiEvent, EvidenceInv, Inv, TypeOK
<1>3. CASE CancelWrite
  <2>1. PICK r \in Runs : r = cancelling.run /\ status[r] \in {"queued", "running"}
    BY <1>3 DEF CancelWrite, LoopFree, EvidenceInv, CancelPending, Inv, CancelHoldsLoop
  <2>2. \A q \in Runs \ {r} : cancelReq'[q] = cancelReq[q]
    BY <1>3, <2>1 DEF CancelWrite, EvidenceInv, Inv, TypeOK
  <2> QED BY <1>1, <1>2, <2>1, <2>2, CancelledBeside
<1>4. CASE UNCHANGED cancelReq  BY <1>1, <1>2, <1>4, CancelledBeside
<1> QED
  BY <1>3, <1>4 DEF Api, Submit, CancelRead, RetryRead, Accelerate, InsertRetry, BaselineRead,
                    BaselineWrite, RecordApiEvent

LEMMA CancelledWorker == EvidenceInv /\ CancelledHeld /\ Worker => CancelledHeld'
<1> SUFFICES ASSUME EvidenceInv, CancelledHeld, Worker PROVE CancelledHeld'
  OBVIOUS
<1> USE DEF rowVars, evidenceVars, workerVars, apiVars, At
<1>0. pc \notin {"idle", "down"} => claim \in Runs  BY ClaimIsRun
<1>1. ASSUME pc' \in Holding, pc \notin {"idle", "down"}, UNCHANGED <<claim, cancelReq>>,
             status' = status \/ \E s : status' = [status EXCEPT ![claim] = s]
      PROVE  CancelledHeld'
  <2>1. PICK c \in Runs : c = claim  BY <1>0, <1>1
  <2>2. \A r \in Runs \ {c} : status'[r] = status[r]
    BY <1>1, <2>1 DEF EvidenceInv, Inv, TypeOK
  <2> QED BY <1>1, <2>1, <2>2, CancelledHolding
<1>2. ASSUME pc \in Holding, MarkCancelled \/ MarkNonretryableFailure \/ RetryOrFail
      PROVE  CancelledHeld'
  <2>1. PICK c \in Runs : c = claim  BY <1>0, <1>2 DEF Holding
  <2>2. /\ \E s \in {"interrupted", "failed", "queued"} : status' = [status EXCEPT ![c] = s]
        /\ UNCHANGED cancelReq
    BY <1>2, <2>1 DEF MarkCancelled, MarkNonretryableFailure, RetryOrFail, ExhaustRetries,
                      ScheduleRetry, Settle
  <2>3. status'[c] # "completed" /\ \A r \in Runs \ {c} : status'[r] = status[r]
    BY <2>2 DEF EvidenceInv, Inv, TypeOK
  <2> QED BY <2>1, <2>2, <2>3, CancelledLetGo
<1>3. CASE Poll  BY <1>3, CancelledBeside DEF Poll, vars
<1>4. CASE ClaimRead \/ ClaimLost \/ RecordEvent
  BY <1>4, CancelledBeside DEF ClaimRead, ClaimLost, RecordEvent, Holding
<1>5. CASE ClaimCommit  BY <1>1, <1>5 DEF ClaimCommit, TakeClaim, Holding
<1>6. CASE ClaimRecorded
  <2>1. PICK c \in Runs : c = claim  BY <1>0, <1>6 DEF ClaimRecorded
  <2>2. UNCHANGED <<status, cancelReq>> /\ status[c] # "completed"
    BY <1>6, <2>1 DEF ClaimRecorded, EvidenceInv, ClaimPhase
  <2> QED BY <2>1, <2>2, CancelledLetGo
<1>7. CASE CancelBeforeStart  BY <1>2, <1>7 DEF CancelBeforeStart, Holding
<1>8. CASE BuildRunner \/ BuildFails \/ GenerateBatch \/ NextBatch \/ RecordActivation
  BY <1>1, <1>8 DEF BuildRunner, BuildFails, GenerateBatch, NextBatch, RecordActivation, Holding
<1>9. CASE StartRunner
  <2>1. PICK s : s = IF ~Refused(claim) THEN "running"
                     ELSE IF status[claim] \in Terminal THEN status[claim] ELSE "failed"
    OBVIOUS
  <2>2. status' = [status EXCEPT ![claim] = s]  BY <1>9, <2>1 DEF StartRunner
  <2> QED BY <1>1, <1>9, <2>2 DEF StartRunner, Holding
<1>10. CASE CancelSeen  BY <1>1, <1>10 DEF CancelSeen, Holding
<1>11. CASE PersistBatch  BY <1>1, <1>11 DEF PersistBatch, Holding
<1>12. CASE CompleteRun  BY <1>1, <1>12 DEF CompleteRun, Complete, Holding
<1>13. CASE RunnerRaises  BY <1>1, <1>13 DEF RunnerRaises, Holding
<1>14. CASE AfterRaise  BY <1>2, <1>14 DEF AfterRaise, Holding
<1>15. CASE AfterReturn
  <2>1. CASE ~cancelReq[claim] /\ ClearCompletedClaim
    <3>1. PICK c \in Runs : c = claim  BY <1>0, <1>15 DEF AfterReturn
    <3> QED BY <2>1, <3>1, CancelledLetGo DEF ClearCompletedClaim
  <2> QED BY <1>2, <1>15, <2>1 DEF AfterReturn, Holding
<1> QED
  BY <1>3, <1>4, <1>5, <1>6, <1>7, <1>8, <1>9, <1>10, <1>11, <1>12, <1>13, <1>14, <1>15 DEF Worker

LEMMA CancelledFaultsAndOutages ==
  /\ EvidenceInv /\ CancelledHeld /\ Faults \intersect {"db", "crash"} = {}
  /\ WorkerFaults \/ Clock \/ Outage
  => CancelledHeld'
<1> SUFFICES ASSUME EvidenceInv, CancelledHeld, Faults \intersect {"db", "crash"} = {},
                    WorkerFaults \/ Clock \/ Outage
             PROVE  CancelledHeld'
  OBVIOUS
<1> USE DEF rowVars, evidenceVars, workerVars, apiVars
<1>1. CASE ClaimRecordFails
  <2>1. PICK c \in Runs : c = claim  BY <1>1, ClaimIsRun DEF ClaimRecordFails
  <2>2. UNCHANGED <<status, cancelReq>> /\ status[c] # "completed"
    BY <1>1, <2>1 DEF ClaimRecordFails, EvidenceInv, ClaimPhase
  <2> QED BY <2>1, <2>2, CancelledLetGo
<1>2. CASE RecordEventFails  BY <1>2, CancelledBeside DEF RecordEventFails, Holding
<1>3. CASE WorkerCommitFails \/ Crash  BY <1>3 DEF WorkerCommitFails, Crash
<1>4. CASE Clock  BY <1>4, CancelledBeside DEF Clock, BackoffElapses
<1>5. CASE Stop
  <2>1. CASE pc \in Holding \ {"claim_done"}
    <3>1. PICK c \in Runs : c = claim  BY <2>1, ClaimIsRun DEF Holding
    <3>2. /\ status'[c] # "completed" /\ UNCHANGED cancelReq
          /\ \A r \in Runs \ {c} : status'[r] = status[r]
      BY <1>5, <2>1, <3>1 DEF Stop, Holding, AwaitPoints, EvidenceInv, ClaimPhase, Inv, TypeOK
    <3> QED BY <3>1, <3>2, CancelledLetGo
  <2>2. CASE pc \notin Holding \ {"claim_done"}
    BY <1>5, <2>2, CancelledBeside DEF Stop, Holding
  <2> QED BY <2>1, <2>2
<1>6. CASE DrainWriter  BY <1>6, CancelledBeside DEF DrainWriter, Holding
<1>7. CASE Restart
  BY <1>7, CancelledBeside DEF Restart, Reconcile, Reconciled, Holding
<1> QED BY <1>1, <1>2, <1>3, <1>4, <1>5, <1>6, <1>7 DEF WorkerFaults, Outage

(* Unless the worker dies, or one of its commits fails, between the runner's *)
(* commit and its own, a run whose cancellation was accepted is not left     *)
(* completed: the worker looks at the request again before it lets go.       *)
THEOREM CancelledIsNeverCompleted == Spec => []CancelledNeverCompletes
<1>1. CASE Faults \intersect {"db", "crash"} = {}
  <2>1. Init => CancelledHeld  BY DEF Init, CancelledHeld
  <2>2. EvidenceInv /\ CancelledHeld /\ [Next]_vars => CancelledHeld'
    <3> SUFFICES ASSUME EvidenceInv, CancelledHeld, [Next]_vars PROVE CancelledHeld'  OBVIOUS
    <3>1. CASE UNCHANGED vars
      BY <3>1, CancelledBeside DEF vars, rowVars, workerVars
    <3> QED BY <1>1, <3>1, CancelledApi, CancelledWorker, CancelledFaultsAndOutages DEF Next
  <2>3. CancelledHeld => CancelledNeverCompletes  BY DEF CancelledHeld, CancelledNeverCompletes
  <2> QED BY <2>1, <2>2, <2>3, EvidenceAlways, PTL DEF Spec
<1>2. CASE Faults \intersect {"db", "crash"} # {}
  <2>1. CancelledNeverCompletes  BY <1>2 DEF CancelledNeverCompletes
  <2> QED BY <2>1, PTL
<1> QED BY <1>1, <1>2

=============================================================================
