--------------------------- MODULE QueueWorkerProofs ---------------------------
(***************************************************************************)
(* Theorems about the evaluation queue, for every number of runs, attempts,*)
(* batches, threads and outages and every set of faults: budgets, then     *)
(* result rows and archives of earlier attempts, then statuses and their   *)
(* audit events.                                                           *)
(*                                                                         *)
(* The argument.  A row that does not exist yet is blank, so a new run     *)
(* starts with a full budget and no cancellation.  A cancel handler blocks *)
(* the event loop, so between its read and its write the worker stays at   *)
(* an await and cannot requeue the run; this is why the write of a handler *)
(* that saw a running run never hits a queued row.                         *)
(*                                                                         *)
(* What a row may hold depends on its status (RunEvidence); the run the    *)
(* worker holds may be between two statuses, and what is true of it        *)
(* depends on where the worker is (ClaimPhase).  A cancel handler writes   *)
(* what it decided on an earlier read, and the run it read can only have   *)
(* been claimed since (CancelPending).                                     *)
(***************************************************************************)
EXTENDS QueueWorker, TLAPS

(* A row that does not exist has no history.                                 *)
AbsentIsBlank ==
  \A r \in Runs : status[r] = "absent" => attempts[r] = 0 /\ ~cancelReq[r]

(* A cancel handler in progress holds the loop, a stop waits for it, and the *)
(* row it read exists; if it saw the run running, the run is not queued.     *)
CancelHoldsLoop ==
  cancelling # NoRead =>
    /\ pc \in AwaitPoints /\ ~stopping
    /\ cancelling.run \in Runs
    /\ cancelling.seen \in {"queued", "running"}
    /\ status[cancelling.run] # "absent"
    /\ cancelling.seen = "running" => status[cancelling.run] # "queued"

(* The inductive invariant.                                                  *)
Inv ==
  /\ TypeOK
  /\ AbsentIsBlank
  /\ CancelHoldsLoop
  /\ AttemptBudget
  /\ CancelledNotQueued

-----------------------------------------------------------------------------
(* Type correctness.                                                         *)

LEMMA EntryOfApi ==
  ASSUME NEW e \in ApiEvents, NEW r PROVE Entry(e, r) \subseteq ApiEvents \X Runs
  BY DEF Entry

LEMMA EntryType ==
  ASSUME NEW e, NEW r PROVE Entry(e, r) \subseteq (WorkerEvents \union ApiEvents) \X Runs
  BY ConstantsAssumption DEF Entry

LEMMA TypeInit == Init => TypeOK
<1> SUFFICES ASSUME Init PROVE TypeOK OBVIOUS
<1> USE DEF Init
<1>1. /\ status \in [Runs -> Status] /\ attempts \in [Runs -> Nat]
      /\ nextAt \in [Runs -> {"due", "later"}] /\ cancelReq \in [Runs -> BOOLEAN]
      /\ parent \in [Runs -> Runs \union {NoRun}] /\ baseline \in [Runs -> BOOLEAN]
  BY DEF Status
<1>2. /\ results \in [Runs -> SUBSET Result]
      /\ archive \in [Runs -> SUBSET [attempt : Nat, rows : SUBSET Result]]
      /\ audit \subseteq (WorkerEvents \union ApiEvents) \X Runs
  OBVIOUS
<1>3. /\ pc \in AwaitPoints /\ pc = "idle" /\ claim = NoRun /\ inflight = "none"
      /\ event = "none" /\ stopping \in BOOLEAN
  BY DEF AwaitPoints
<1>4. batch \in 0..NumBatches /\ outages \in 0..MaxOutages
  BY ConstantsAssumption
<1>5. /\ cancelling \in Read /\ retrying \in [Retriers -> Read]
      /\ marking \in [Markers -> Runs \union {NoRun}] /\ auditing \subseteq ApiEvents \X Runs
  BY DEF Read, NoRead, Status
<1> QED BY <1>1, <1>2, <1>3, <1>4, <1>5 DEF TypeOK

LEMMA TypeApi == TypeOK /\ Api => TypeOK'
<1> SUFFICES ASSUME TypeOK, Api PROVE TypeOK' OBVIOUS
<1> USE DEF TypeOK, rowVars, evidenceVars, workerVars, apiVars
<1>1. CASE Submit BY <1>1 DEF Submit, Status
<1>2. CASE \E r \in Runs : CancelRead(r) BY <1>2 DEF CancelRead, Read
<1>3. CASE CancelWrite BY <1>3, EntryOfApi DEF CancelWrite, Read, NoRead, Status, Terminal, ApiEvents
<1>4. CASE \E t \in Retriers, r \in Runs : RetryRead(t, r) BY <1>4 DEF RetryRead, Read
<1>5. ASSUME NEW t \in Retriers, Accelerate(t) PROVE TypeOK'
  <2>1. auditing' \subseteq ApiEvents \X Runs BY <1>5, EntryOfApi DEF Accelerate, ApiEvents
  <2>2. retrying' \in [Retriers -> Read] BY <1>5 DEF Accelerate, Read, NoRead, Status
  <2>3. nextAt' \in [Runs -> {"due", "later"}] BY <1>5 DEF Accelerate
  <2> QED BY <1>5, <2>1, <2>2, <2>3 DEF Accelerate
<1>6. CASE \E t \in Retriers : InsertRetry(t)
  BY <1>6, EntryOfApi DEF InsertRetry, Read, NoRead, Status, ApiEvents
<1>7. CASE \E m \in Markers, r \in Runs : BaselineRead(m, r) BY <1>7 DEF BaselineRead
<1>8. CASE \E m \in Markers : BaselineWrite(m) BY <1>8 DEF BaselineWrite, Runs, NoRun
<1>9. CASE \E e \in ApiEvents \X Runs : RecordApiEvent(e) BY <1>9 DEF RecordApiEvent
<1> QED BY <1>1, <1>2, <1>3, <1>4, <1>5, <1>6, <1>7, <1>8, <1>9 DEF Api

(* What the steps of the worker have in common.                              *)
LEMMA TypeWriteBatch ==
  ASSUME TypeOK, pc \in {"persisting", "draining"}, WriteBatch
  PROVE  results' \in [Runs -> SUBSET Result]
<1>1. claim \in Runs /\ inflight \in {"transient", "other"} BY DEF TypeOK
<1>2. attempts[claim] \in Nat /\ batch \in Nat BY <1>1, ConstantsAssumption DEF TypeOK
<1>3. BatchRow \in Result BY <1>1, <1>2 DEF BatchRow, Result
<1> QED BY <1>1, <1>3 DEF WriteBatch, TypeOK

LEMMA TypeRelease ==
  ASSUME TypeOK, Release
  PROVE  /\ claim' = NoRun /\ pc' \in {"idle", "down"} /\ inflight' = "none"
         /\ batch' \in 0..NumBatches /\ stopping' \in BOOLEAN
         /\ event' \in WorkerEvents \union {"none"}
<1>1. batch' \in 0..NumBatches BY ConstantsAssumption DEF Release
<1>2. stopping' \in BOOLEAN BY DEF Release
<1> QED BY <1>1, <1>2 DEF Release

LEMMA TypeSettle ==
  ASSUME TypeOK, NEW s \in Status, NEW e \in WorkerEvents, claim # NoRun, Settle(s, e),
         nextAt' \in [Runs -> {"due", "later"}], results' \in [Runs -> SUBSET Result],
         archive' \in [Runs -> SUBSET [attempt : Nat, rows : SUBSET Result]]
  PROVE  TypeOK'
BY DEF TypeOK, Settle, apiVars, SyncPoints

LEMMA TypeRestartAttempt ==
  ASSUME TypeOK, claim # NoRun, RestartAttempt
  PROVE  /\ results' \in [Runs -> SUBSET Result]
         /\ archive' \in [Runs -> SUBSET [attempt : Nat, rows : SUBSET Result]]
<1> DEFINE a == [attempt |-> attempts[claim], rows |-> results[claim]]
<1>1. claim \in Runs BY DEF TypeOK
<1>2. a \in [attempt : Nat, rows : SUBSET Result] BY <1>1 DEF TypeOK
<1> HIDE DEF a
<1>3. archive' = [archive EXCEPT ![claim] = @ \union {a}] BY DEF RestartAttempt, a
<1> QED BY <1>1, <1>2, <1>3 DEF RestartAttempt, TypeOK

LEMMA TypeMarks ==
  ASSUME TypeOK, claim # NoRun, MarkCancelled \/ MarkNonretryableFailure \/ RetryOrFail
  PROVE  TypeOK'
<1> USE DEF TypeOK, Status, Terminal, WorkerEvents, evidenceVars
<1>1. CASE MarkCancelled BY <1>1, TypeSettle DEF MarkCancelled
<1>2. CASE MarkNonretryableFailure BY <1>2, TypeSettle DEF MarkNonretryableFailure
<1>3. CASE ExhaustRetries BY <1>3, TypeSettle DEF ExhaustRetries
<1>4. CASE ScheduleRetry
  <2>1. nextAt' \in [Runs -> {"due", "later"}] BY <1>4 DEF ScheduleRetry
  <2> QED BY <1>4, <2>1, TypeSettle, TypeRestartAttempt DEF ScheduleRetry
<1> QED BY <1>1, <1>2, <1>3, <1>4 DEF RetryOrFail

LEMMA TypeWorker == TypeOK /\ Worker => TypeOK'
<1> SUFFICES ASSUME TypeOK, Worker PROVE TypeOK' OBVIOUS
<1> USE DEF TypeOK, rowVars, evidenceVars, workerVars, apiVars, AwaitPoints, SyncPoints, OffPoints, At
<1>1. CASE Poll BY <1>1 DEF Poll, vars
<1>2. CASE ClaimRead BY <1>2 DEF ClaimRead, Runs, NoRun
<1>3. CASE ClaimCommit BY <1>3 DEF ClaimCommit, TakeClaim, Status
<1>4. CASE ClaimLost BY <1>4, TypeRelease DEF ClaimLost
<1>5. CASE ClaimRecorded
  <2>1. audit' \subseteq (WorkerEvents \union ApiEvents) \X Runs
    BY <1>5, EntryType DEF ClaimRecorded
  <2>2. CASE stopping BY <1>5, <2>1, <2>2, TypeRelease DEF ClaimRecorded
  <2>3. CASE ~stopping BY <1>5, <2>1, <2>3 DEF ClaimRecorded
  <2> QED BY <2>2, <2>3
<1>6. CASE CancelBeforeStart BY <1>6, TypeMarks DEF CancelBeforeStart
<1>7. CASE BuildRunner BY <1>7 DEF BuildRunner
<1>8. CASE BuildFails BY <1>8 DEF BuildFails
<1>9. CASE StartRunner
  <2>1. status' \in [Runs -> Status] BY <1>9 DEF StartRunner, Status, Terminal
  <2>2. batch' \in 0..NumBatches BY <1>9, ConstantsAssumption DEF StartRunner
  <2> QED BY <1>9, <2>1, <2>2 DEF StartRunner
<1>10. CASE CancelSeen BY <1>10 DEF CancelSeen, Status, Terminal
<1>11. CASE GenerateBatch BY <1>11 DEF GenerateBatch
<1>12. CASE PersistBatch
  <2>1. results' \in [Runs -> SUBSET Result] BY <1>12, TypeWriteBatch DEF PersistBatch
  <2> QED BY <1>12, <2>1 DEF PersistBatch
<1>13. CASE NextBatch BY <1>13, ConstantsAssumption DEF NextBatch
<1>14. CASE CompleteRun BY <1>14 DEF CompleteRun, Complete, Status, Terminal
<1>15. CASE RecordActivation BY <1>15 DEF RecordActivation
<1>16. CASE RunnerRaises
  <2>1. results' \in [Runs -> SUBSET Result] BY <1>16, TypeWriteBatch DEF RunnerRaises
  <2>2. status' \in [Runs -> Status] BY <1>16 DEF RunnerRaises, Status, Terminal
  <2> QED BY <1>16, <2>1, <2>2 DEF RunnerRaises
<1>17. CASE AfterRaise BY <1>17, TypeMarks DEF AfterRaise
<1>18. CASE AfterReturn
  <2>1. CASE ClearCompletedClaim BY <1>18, <2>1, TypeRelease DEF ClearCompletedClaim
  <2> QED BY <1>18, <2>1, TypeMarks DEF AfterReturn
<1>19. CASE RecordEvent
  <2>1. audit' \subseteq (WorkerEvents \union ApiEvents) \X Runs
    BY <1>19, EntryType DEF RecordEvent
  <2> QED BY <1>19, <2>1, TypeRelease DEF RecordEvent
<1> QED
  BY <1>1, <1>2, <1>3, <1>4, <1>5, <1>6, <1>7, <1>8, <1>9, <1>10, <1>11, <1>12, <1>13,
     <1>14, <1>15, <1>16, <1>17, <1>18, <1>19 DEF Worker

LEMMA TypeFaultsAndOutages == TypeOK /\ (WorkerFaults \/ Clock \/ Outage) => TypeOK'
<1> SUFFICES ASSUME TypeOK, WorkerFaults \/ Clock \/ Outage PROVE TypeOK' OBVIOUS
<1> USE DEF TypeOK, rowVars, evidenceVars, workerVars, apiVars, AwaitPoints, SyncPoints, OffPoints
<1>1. CASE ClaimRecordFails BY <1>1, TypeRelease DEF ClaimRecordFails
<1>2. CASE RecordEventFails BY <1>2, TypeRelease DEF RecordEventFails
<1>3. CASE WorkerCommitFails BY <1>3, TypeRelease DEF WorkerCommitFails
<1>4. CASE Clock BY <1>4 DEF Clock, BackoffElapses
<1>5. CASE Stop
  <2>1. status' \in [Runs -> Status] BY <1>5 DEF Stop, Status, Terminal
  <2>2. batch' \in 0..NumBatches BY <1>5, ConstantsAssumption DEF Stop
  <2>3. outages' \in 0..MaxOutages BY <1>5, ConstantsAssumption DEF Stop
  <2> QED BY <1>5, <2>1, <2>2, <2>3 DEF Stop
<1>6. CASE DrainWriter
  <2>1. results' \in [Runs -> SUBSET Result] BY <1>6, TypeWriteBatch DEF DrainWriter
  <2> QED BY <1>6, <2>1, ConstantsAssumption DEF DrainWriter
<1>7. CASE Crash
  <2>1. outages' \in 0..MaxOutages /\ batch' \in 0..NumBatches
    BY <1>7, ConstantsAssumption DEF Crash
  <2>2. /\ cancelling' \in Read /\ retrying' \in [Retriers -> Read]
        /\ marking' \in [Markers -> Runs \union {NoRun}]
    BY <1>7 DEF Crash, Read, NoRead, Status
  <2> QED BY <1>7, <2>1, <2>2 DEF Crash
<1>8. CASE Restart BY <1>8 DEF Restart, Reconcile, Reconciled, Status, Terminal
<1> QED BY <1>1, <1>2, <1>3, <1>4, <1>5, <1>6, <1>7, <1>8 DEF WorkerFaults, Outage

LEMMA TypeStep == TypeOK /\ [Next]_vars => TypeOK'
<1>1. TypeOK /\ UNCHANGED vars => TypeOK'
  BY DEF vars, TypeOK, rowVars, evidenceVars, workerVars, apiVars
<1> QED BY <1>1, TypeApi, TypeWorker, TypeFaultsAndOutages DEF Next

(* Every variable keeps its type, and the worker has a claim wherever it     *)
(* needs one.                                                                *)
THEOREM TypeCorrect == Spec => []TypeOK
  BY TypeInit, TypeStep, PTL DEF Spec

-----------------------------------------------------------------------------
(* The budget and cancellation.                                              *)

LEMMA InvInit == Init => Inv
<1> SUFFICES ASSUME Init PROVE Inv OBVIOUS
<1>1. TypeOK BY TypeInit
<1>2. AbsentIsBlank /\ CancelHoldsLoop /\ CancelledNotQueued
  BY DEF Init, AbsentIsBlank, CancelHoldsLoop, CancelledNotQueued
<1>3. AttemptBudget BY ConstantsAssumption DEF Init, AttemptBudget
<1> QED BY <1>1, <1>2, <1>3 DEF Inv

RowsOK == AbsentIsBlank /\ AttemptBudget /\ CancelledNotQueued

(* A step that changes none of the variables RowsOK speaks of, and does not  *)
(* move the worker under a cancel handler.                                   *)
LEMMA Unchanged ==
  ASSUME Inv, UNCHANGED <<status, attempts, cancelReq, cancelling>>,
         cancelling # NoRead => pc' \in AwaitPoints /\ stopping' = stopping
  PROVE  RowsOK' /\ CancelHoldsLoop'
BY DEF Inv, RowsOK, AbsentIsBlank, AttemptBudget, CancelledNotQueued, CancelHoldsLoop

(* A blank row becomes a queued run.                                         *)
LEMMA NewRow ==
  ASSUME Inv, NEW r \in Runs, NewId(r), status' = [status EXCEPT ![r] = "queued"],
         UNCHANGED <<attempts, cancelReq, cancelling, pc, stopping>>
  PROVE  RowsOK' /\ CancelHoldsLoop'
<1>1. status[r] = "absent" /\ attempts[r] = 0 /\ ~cancelReq[r]
  BY DEF NewId, Inv, AbsentIsBlank
<1>2. AbsentIsBlank' BY DEF Inv, TypeOK, AbsentIsBlank
<1>3. AttemptBudget' BY <1>1, ConstantsAssumption DEF Inv, TypeOK, AttemptBudget
<1>4. CancelledNotQueued' BY <1>1 DEF Inv, TypeOK, CancelledNotQueued
<1>5. CancelHoldsLoop' BY <1>1 DEF Inv, TypeOK, CancelHoldsLoop
<1> QED BY <1>2, <1>3, <1>4, <1>5 DEF RowsOK

LEMMA InvApi == Inv /\ Api => RowsOK' /\ CancelHoldsLoop'
<1> SUFFICES ASSUME Inv, Api PROVE RowsOK' /\ CancelHoldsLoop' OBVIOUS
<1> USE DEF RowsOK, rowVars, workerVars, apiVars
<1>1. CASE Submit BY <1>1, NewRow DEF Submit
<1>2. ASSUME NEW r \in Runs, CancelRead(r) PROVE RowsOK' /\ CancelHoldsLoop'
  <2>1. RowsOK'
    BY <1>2 DEF CancelRead, Inv, AbsentIsBlank, AttemptBudget, CancelledNotQueued
  <2>2. CancelHoldsLoop' BY <1>2 DEF CancelRead, Alive, CancelHoldsLoop, NoRead
  <2> QED BY <2>1, <2>2
<1>3. CASE CancelWrite
  <2> DEFINE r == cancelling.run
  <2>1. /\ r \in Runs /\ status[r] # "absent"
        /\ cancelling.seen = "running" => status[r] # "queued"
        /\ cancelling.seen \in {"queued", "running"}
    BY <1>3 DEF CancelWrite, LoopFree, Inv, CancelHoldsLoop
  <2>2. /\ cancelReq' = [cancelReq EXCEPT ![r] = TRUE]
        /\ status' = IF cancelling.seen = "queued"
                     THEN [status EXCEPT ![r] = "interrupted"] ELSE status
        /\ attempts' = attempts /\ cancelling' = NoRead
    BY <1>3 DEF CancelWrite
  <2>3. status'[r] \notin {"absent", "queued"}
    BY <2>1, <2>2 DEF Inv, TypeOK
  <2>4. \A q \in Runs : q # r => status'[q] = status[q] /\ cancelReq'[q] = cancelReq[q]
    BY <2>2 DEF Inv, TypeOK
  <2> HIDE DEF r
  <2>5. AbsentIsBlank' BY <2>2, <2>3, <2>4 DEF Inv, AbsentIsBlank
  <2>6. AttemptBudget' BY <2>2, <2>3, <2>4 DEF Inv, AttemptBudget
  <2>7. CancelledNotQueued' BY <2>3, <2>4 DEF Inv, CancelledNotQueued
  <2>8. CancelHoldsLoop' BY <2>2 DEF CancelHoldsLoop
  <2> QED BY <2>5, <2>6, <2>7, <2>8
<1>4. CASE \E t \in Retriers, r \in Runs : RetryRead(t, r)
  BY <1>4, Unchanged DEF RetryRead, Inv, CancelHoldsLoop
<1>5. CASE \E t \in Retriers : Accelerate(t)
  BY <1>5, Unchanged DEF Accelerate, Inv, CancelHoldsLoop
<1>6. ASSUME NEW t \in Retriers, InsertRetry(t) PROVE RowsOK' /\ CancelHoldsLoop'
  BY <1>6, NewRow DEF InsertRetry
<1>7. CASE \E m \in Markers, r \in Runs : BaselineRead(m, r)
  BY <1>7, Unchanged DEF BaselineRead, Inv, CancelHoldsLoop
<1>8. CASE \E m \in Markers : BaselineWrite(m)
  BY <1>8, Unchanged DEF BaselineWrite, Inv, CancelHoldsLoop
<1>9. CASE \E e \in ApiEvents \X Runs : RecordApiEvent(e)
  BY <1>9, Unchanged DEF RecordApiEvent, Inv, CancelHoldsLoop
<1> QED BY <1>1, <1>2, <1>3, <1>4, <1>5, <1>6, <1>7, <1>8, <1>9 DEF Api

(* The worker moves its claim to a status that is not absent and, unless the *)
(* run is uncancelled and has budget left, not queued.                       *)
LEMMA Moved ==
  ASSUME Inv, cancelling = NoRead, cancelling' = NoRead,
         NEW s \in Status \ {"absent"}, UNCHANGED <<attempts, cancelReq>>,
         status' = [status EXCEPT ![claim] = s],
         s = "queued" => ~cancelReq[claim] /\ attempts[claim] < MaxAttempts
  PROVE  RowsOK' /\ CancelHoldsLoop'
<1> USE DEF RowsOK, Inv, TypeOK
<1>1. AbsentIsBlank' BY DEF AbsentIsBlank
<1>2. AttemptBudget' BY DEF AttemptBudget
<1>3. CancelledNotQueued' BY DEF CancelledNotQueued
<1>4. CancelHoldsLoop' BY DEF CancelHoldsLoop
<1> QED BY <1>1, <1>2, <1>3, <1>4

(* Each way to settle a claim, once the runner is done with it.              *)
LEMMA InvMarks ==
  ASSUME Inv, cancelling = NoRead, claim # NoRun,
         MarkCancelled \/ MarkNonretryableFailure \/ RetryOrFail
  PROVE  RowsOK' /\ CancelHoldsLoop'
<1> USE DEF Settle, apiVars, Status, Terminal
<1>1. CASE MarkCancelled BY <1>1, Moved DEF MarkCancelled
<1>2. CASE MarkNonretryableFailure BY <1>2, Moved DEF MarkNonretryableFailure
<1>3. CASE ExhaustRetries BY <1>3, Moved DEF ExhaustRetries
<1>4. CASE ~cancelReq[claim] /\ ScheduleRetry
  <2>1. claim \in Runs /\ attempts[claim] < MaxAttempts
    BY <1>4, ConstantsAssumption DEF ScheduleRetry, BudgetSpent, Inv, TypeOK
  <2> QED BY <1>4, <2>1, Moved DEF ScheduleRetry
<1> QED BY <1>1, <1>2, <1>3, <1>4 DEF RetryOrFail

LEMMA InvWorker == Inv /\ Worker => RowsOK' /\ CancelHoldsLoop'
<1> SUFFICES ASSUME Inv, Worker PROVE RowsOK' /\ CancelHoldsLoop' OBVIOUS
<1>0. claim # NoRun \/ pc \in {"idle", "down"} BY DEF Inv, TypeOK
<1>L. pc \in SyncPoints => cancelling = NoRead
  BY DEF Inv, CancelHoldsLoop, AwaitPoints, SyncPoints
<1> USE DEF rowVars, evidenceVars, workerVars, apiVars, AwaitPoints, SyncPoints, LoopFree, At
<1>1. CASE Poll BY <1>1, Unchanged DEF Poll, vars, Inv, CancelHoldsLoop
<1>2. CASE ClaimRead BY <1>2, Unchanged DEF ClaimRead
<1>3. CASE ClaimCommit
  <2>1. claim \in Runs /\ status[claim] = "queued" /\ attempts[claim] < MaxAttempts
    BY <1>0, <1>3 DEF ClaimCommit, Due, Inv, TypeOK, AttemptBudget
  <2>2. /\ status' = [status EXCEPT ![claim] = "running"]
        /\ attempts' = [attempts EXCEPT ![claim] = @ + 1]
        /\ UNCHANGED <<cancelReq, cancelling, stopping>> /\ pc' = "claim_done"
    BY <1>3 DEF ClaimCommit, TakeClaim
  <2> USE DEF Inv, TypeOK
  <2>3. AbsentIsBlank' BY <2>1, <2>2 DEF AbsentIsBlank
  <2>4. AttemptBudget' BY <2>1, <2>2, ConstantsAssumption DEF AttemptBudget
  <2>5. CancelledNotQueued' BY <2>1, <2>2 DEF CancelledNotQueued
  <2>6. CancelHoldsLoop' BY <2>1, <2>2 DEF CancelHoldsLoop
  <2> QED BY <2>3, <2>4, <2>5, <2>6 DEF RowsOK
<1>4. CASE ClaimLost BY <1>4, Unchanged DEF ClaimLost
<1>5. CASE ClaimRecorded
  <2>1. CASE stopping BY <1>5, <2>1, Unchanged DEF ClaimRecorded, Inv, CancelHoldsLoop
  <2>2. CASE ~stopping BY <1>5, <2>2, Unchanged DEF ClaimRecorded
  <2> QED BY <2>1, <2>2
<1>6. CASE CancelBeforeStart BY <1>0, <1>6, InvMarks DEF CancelBeforeStart
<1>7. CASE BuildRunner BY <1>7, Unchanged DEF BuildRunner
<1>8. CASE BuildFails BY <1>8, Unchanged DEF BuildFails
<1>9. CASE StartRunner
  <2> DEFINE s == IF ~Refused(claim) THEN "running"
                  ELSE IF status[claim] \in Terminal THEN status[claim] ELSE "failed"
  <2>1. s \in Status \ {"absent", "queued"} BY DEF Status, Terminal
  <2>2. status' = [status EXCEPT ![claim] = s] /\ UNCHANGED <<attempts, cancelReq, cancelling>>
    BY <1>9 DEF StartRunner
  <2> QED BY <1>9, <2>1, <2>2, Moved DEF StartRunner
<1>10. CASE CancelSeen BY <1>10, Moved DEF CancelSeen, Status, Terminal
<1>11. CASE GenerateBatch BY <1>11, Unchanged DEF GenerateBatch
<1>12. CASE PersistBatch BY <1>12, Unchanged DEF PersistBatch
<1>13. CASE NextBatch BY <1>13, Unchanged DEF NextBatch
<1>14. CASE CompleteRun BY <1>14, Moved DEF CompleteRun, Complete, Status, Terminal
<1>15. CASE RecordActivation BY <1>L, <1>15, Unchanged DEF RecordActivation
<1>16. CASE RunnerRaises
  <2>1. CASE status' = status BY <1>16, <2>1, Unchanged DEF RunnerRaises
  <2>2. CASE status' = [status EXCEPT ![claim] = "failed"]
    BY <1>16, <2>2, Moved DEF RunnerRaises, Status, Terminal
  <2> QED BY <1>16, <2>1, <2>2 DEF RunnerRaises
<1>17. CASE AfterRaise BY <1>0, <1>L, <1>17, InvMarks DEF AfterRaise
<1>18. CASE AfterReturn
  <2>1. CASE ClearCompletedClaim BY <1>L, <1>18, <2>1, Unchanged DEF AfterReturn, ClearCompletedClaim
  <2> QED BY <1>0, <1>L, <1>18, <2>1, InvMarks DEF AfterReturn
<1>19. CASE RecordEvent BY <1>L, <1>19, Unchanged DEF RecordEvent
<1> QED
  BY <1>1, <1>2, <1>3, <1>4, <1>5, <1>6, <1>7, <1>8, <1>9, <1>10, <1>11, <1>12, <1>13,
     <1>14, <1>15, <1>16, <1>17, <1>18, <1>19 DEF Worker

LEMMA InvFaultsAndOutages ==
  Inv /\ (WorkerFaults \/ Clock \/ Outage) => RowsOK' /\ CancelHoldsLoop'
<1> SUFFICES ASSUME Inv, WorkerFaults \/ Clock \/ Outage PROVE RowsOK' /\ CancelHoldsLoop'
  OBVIOUS
<1>L. pc \notin AwaitPoints => cancelling = NoRead BY DEF Inv, CancelHoldsLoop
<1> USE DEF rowVars, evidenceVars, workerVars, apiVars, AwaitPoints, SyncPoints, LoopFree
<1>1. CASE ClaimRecordFails BY <1>1, Unchanged DEF ClaimRecordFails
<1>2. CASE RecordEventFails BY <1>L, <1>2, Unchanged DEF RecordEventFails
<1>3. CASE WorkerCommitFails BY <1>L, <1>3, Unchanged DEF WorkerCommitFails
<1>4. CASE Clock BY <1>4, Unchanged DEF Clock, BackoffElapses, Inv, CancelHoldsLoop
<1>5. CASE Stop
  <2>1. UNCHANGED <<attempts, cancelReq, cancelling>> /\ cancelling = NoRead BY <1>5 DEF Stop
  <2>2. CASE status' = status BY <2>1, <2>2, Unchanged
  <2>3. CASE status' = [status EXCEPT ![claim] = "interrupted"]
    BY <2>1, <2>3, Moved DEF Status, Terminal
  <2> QED BY <1>5, <2>2, <2>3 DEF Stop
<1>6. CASE DrainWriter BY <1>L, <1>6, Unchanged DEF DrainWriter
<1>7. CASE Crash
  <2>1. UNCHANGED <<status, attempts, cancelReq>> /\ cancelling' = NoRead BY <1>7 DEF Crash
  <2> QED BY <2>1 DEF Inv, RowsOK, AbsentIsBlank, AttemptBudget, CancelledNotQueued, CancelHoldsLoop
<1>8. CASE Restart
  <2>1. cancelling = NoRead /\ UNCHANGED <<attempts, cancelReq, cancelling>>
    BY <1>L, <1>8 DEF Restart
  <2>2. \A r \in Runs : status'[r] = IF status[r] = "running" THEN "interrupted" ELSE status[r]
    BY <1>8 DEF Restart, Reconcile, Reconciled
  <2> QED BY <2>1, <2>2
          DEF Inv, RowsOK, AbsentIsBlank, AttemptBudget, CancelledNotQueued, CancelHoldsLoop
<1> QED BY <1>1, <1>2, <1>3, <1>4, <1>5, <1>6, <1>7, <1>8 DEF WorkerFaults, Outage

LEMMA InvStep == Inv /\ [Next]_vars => Inv'
<1>1. Inv /\ UNCHANGED vars => RowsOK' /\ CancelHoldsLoop'
  BY Unchanged DEF vars, rowVars, workerVars, apiVars, Inv, CancelHoldsLoop
<1>2. Inv /\ [Next]_vars => TypeOK' BY TypeStep DEF Inv
<1> QED BY <1>1, <1>2, InvApi, InvWorker, InvFaultsAndOutages DEF Next, Inv, RowsOK

(* Bounded attempts, blank rows and the event loop held by a cancellation.  *)
THEOREM Invariance == Spec => []Inv
  BY InvInit, InvStep, PTL DEF Spec

(* No run executes more often than max_attempts, and a queued run has an     *)
(* attempt left.                                                             *)
THEOREM BudgetKept == Spec => []AttemptBudget
  BY Invariance, PTL DEF Inv

(* A run whose cancellation was requested never goes back into the queue.    *)
THEOREM CancellationIsFinal == Spec => []CancelledNotQueued
  BY Invariance, PTL DEF Inv

-----------------------------------------------------------------------------
(* Result rows and archives. *)

Archived(r) == {a.attempt : a \in archive[r]}
Batches(r) == {x.batch : x \in results[r]}

(* From the commit of the claim to the last commit about the run.            *)
Executing == {"claim_done", "ready", "building", "generating", "persisting", "persisted",
              "completed", "returned", "raised_transient", "raised_fatal", "draining"}

(* A run that does not exist has no evidence, a queued one has its attempts  *)
(* in archives, any other one has its current attempt active or archived.    *)
RunEvidence(r) ==
  /\ status[r] = "absent" => results[r] = {} /\ archive[r] = {}
  /\ \A x \in results[r] : x.attempt = attempts[r]
  /\ \A x, y \in results[r] : x.batch = y.batch => x = y
  /\ status[r] = "queued" => results[r] = {} /\ Archived(r) = 1..attempts[r]
  /\ 1..(attempts[r] - 1) \subseteq Archived(r) /\ Archived(r) \subseteq 1..attempts[r]
  /\ attempts[r] \in Archived(r) => results[r] = {}
  /\ \A a, b \in archive[r] : a.attempt = b.attempt => a = b
  /\ \A a \in archive[r] : \A x \in a.rows : x.attempt = a.attempt
  /\ status[r] = "completed" => Batches(r) = 1..NumBatches

(* What is true of the run the worker holds, by where the worker is.         *)
ClaimPhase ==
  /\ claim # NoRun => status[claim] # "absent"
  /\ pc \in Executing => status[claim] # "queued" /\ attempts[claim] > 0
                         /\ attempts[claim] \notin Archived(claim)
  /\ pc \in {"claim_done", "ready", "building"} => results[claim] = {}
  /\ pc \in {"claim_done", "ready"} =>
       status[claim] = "running" \/ (status[claim] = "interrupted" /\ cancelReq[claim])
  /\ pc \in {"building", "generating", "persisting", "persisted"} => status[claim] = "running"
  /\ pc \in {"generating", "persisting", "draining"} => batch >= 1 /\ Batches(claim) = 1..(batch - 1)
  /\ pc = "persisted" => batch >= 1 /\ Batches(claim) = 1..batch
  /\ pc = "draining" => status[claim] = "interrupted"
  /\ pc = "completed" => status[claim] = "completed"
  /\ pc = "returned" => status[claim] \in {"completed", "interrupted"}

(* The run a cancel handler has read is as it was read, or it was queued and *)
(* has been claimed since.                                                   *)
CancelPending ==
  LoopFree \/
    \/ status[cancelling.run] = "queued" /\ cancelling.seen = "queued"
    \/ /\ status[cancelling.run] = "running"
       /\ cancelling.seen = "queued" => claim = cancelling.run /\ pc \in {"claim_done", "ready"}

Evidenced == \A r \in Runs : RunEvidence(r)

(* The inductive invariant.                                                  *)
EvidenceInv == Inv /\ Evidenced /\ ClaimPhase /\ CancelPending

-----------------------------------------------------------------------------
(* Rows.                                                                     *)

(* A commit that leaves evidence alone may move a run to any status whose    *)
(* evidence it has.                                                          *)
LEMMA StatusMoves ==
  ASSUME Inv, Evidenced, UNCHANGED <<attempts, results, archive>>,
         \A r \in Runs : \/ status'[r] = status[r]
                         \/ status'[r] \in {"running", "failed", "interrupted"}
                         \/ status'[r] = "completed" /\ Batches(r) = 1..NumBatches
                         \/ status'[r] = "queued" /\ status[r] = "absent"
  PROVE  Evidenced'
<1> SUFFICES ASSUME NEW r \in Runs PROVE RunEvidence(r)'  BY DEF Evidenced
<1>1. RunEvidence(r)  BY DEF Evidenced
<1>2. status[r] = "absent" => attempts[r] = 0  BY DEF Inv, AbsentIsBlank
<1>3. Archived(r)' = Archived(r) /\ Batches(r)' = Batches(r)  BY DEF Archived, Batches
<1>4. archive[r] = {} => Archived(r) = {}  BY DEF Archived
<1>5. 1..0 = {}  OBVIOUS
<1>6. CASE status'[r] = "queued" /\ status[r] = "absent"
  BY <1>1, <1>2, <1>3, <1>4, <1>5, <1>6 DEF RunEvidence
<1>7. CASE status'[r] # "queued" /\ status'[r] # "absent" /\ status'[r] # "completed"
  BY <1>1, <1>3, <1>7 DEF RunEvidence
<1>8. CASE status'[r] = "completed" /\ Batches(r) = 1..NumBatches
  BY <1>1, <1>3, <1>8 DEF RunEvidence
<1>9. CASE status'[r] = status[r]  BY <1>1, <1>3, <1>9 DEF RunEvidence
<1> QED BY <1>6, <1>7, <1>8, <1>9

(* The writer stores the rows of the next batch of the claim.                *)
LEMMA BatchStored ==
  ASSUME EvidenceInv, pc \in {"persisting", "draining"}, WriteBatch,
         UNCHANGED <<attempts, archive>>, NEW c \in Runs, c = claim,
         \A r \in Runs \ {c} : status'[r] = status[r],
         status'[c] \in {"running", "failed", "interrupted"}
  PROVE  Evidenced' /\ Batches(c)' = 1..batch
<1> DEFINE new == [attempt |-> attempts[c], batch |-> batch, outcome |-> inflight]
<1>1. c \in Runs /\ batch \in Nat /\ batch >= 1 /\ Batches(c) = 1..(batch - 1)
      /\ attempts[c] \notin Archived(c)
  BY ConstantsAssumption DEF EvidenceInv, ClaimPhase, Executing, Inv, TypeOK
<1>2. new.attempt = attempts[c] /\ new.batch = batch  OBVIOUS
<1>3. results' = [results EXCEPT ![c] = @ \union {new}]  BY DEF WriteBatch, BatchRow
<1> HIDE DEF new
<1>4. results'[c] = results[c] \union {new}
      /\ \A r \in Runs \ {c} : results'[r] = results[r]
  BY <1>1, <1>3 DEF EvidenceInv, Inv, TypeOK
<1>5. \A x \in results[c] : x.batch \in 1..(batch - 1)  BY <1>1 DEF Batches
<1>6. \A x \in results[c] : x.batch # batch  BY <1>1, <1>5
<1>7. Batches(c)' = 1..batch
  <2>1. Batches(c)' = Batches(c) \union {batch}  BY <1>2, <1>4 DEF Batches
  <2> QED BY <1>1, <2>1
<1>8. ASSUME NEW r \in Runs PROVE RunEvidence(r)'
  <2>1. RunEvidence(r)  BY DEF EvidenceInv, Evidenced
  <2>2. Archived(r)' = Archived(r)  BY DEF Archived
  <2>3. CASE r # c
    <3>1. Batches(r)' = Batches(r)  BY <1>4, <2>3 DEF Batches
    <3>2. results'[r] = results[r] /\ status'[r] = status[r]  BY <1>4, <2>3
    <3> QED BY <2>1, <2>2, <3>1, <3>2 DEF RunEvidence
  <2>4. CASE r = c
    <3>1. \A x \in results'[r] : x.attempt = attempts'[r]
      BY <1>2, <1>4, <2>1, <2>4 DEF RunEvidence
    <3>2. \A x, y \in results'[r] : x.batch = y.batch => x = y
      BY <1>2, <1>4, <1>6, <2>1, <2>4 DEF RunEvidence
    <3> QED BY <1>1, <2>1, <2>2, <2>4, <3>1, <3>2 DEF RunEvidence
  <2> QED BY <2>3, <2>4
<1> QED BY <1>7, <1>8 DEF Evidenced

(* A restarted attempt moves into an archive of its own.                     *)
LEMMA AttemptRestarted ==
  ASSUME EvidenceInv, pc \in Executing, RestartAttempt, UNCHANGED attempts,
         NEW c \in Runs, c = claim, status' = [status EXCEPT ![c] = "queued"]
  PROVE  Evidenced'
<1> DEFINE new == [attempt |-> attempts[c], rows |-> results[c]]
<1>1. c \in Runs /\ attempts[c] \notin Archived(c) /\ RunEvidence(c)
      /\ attempts[c] \in Nat \ {0}
  BY DEF EvidenceInv, Evidenced, ClaimPhase, Executing, Inv, TypeOK
<1>2. new.attempt = attempts[c] /\ new.rows = results[c]  OBVIOUS
<1>3. archive' = [archive EXCEPT ![c] = @ \union {new}]
      /\ results' = [results EXCEPT ![c] = {}]
  BY DEF RestartAttempt
<1> HIDE DEF new
<1>4. /\ archive'[c] = archive[c] \union {new} /\ results'[c] = {}
      /\ status'[c] = "queued"
      /\ \A r \in Runs \ {c} : /\ archive'[r] = archive[r] /\ results'[r] = results[r]
                                   /\ status'[r] = status[r]
  BY <1>1, <1>3 DEF EvidenceInv, Inv, TypeOK
<1>5. \A a \in archive[c] : a.attempt # attempts[c]  BY <1>1 DEF Archived
<1>6. Archived(c)' = Archived(c) \union {attempts[c]}
  BY <1>2, <1>4 DEF Archived
<1>7. Archived(c)' = 1..attempts[c]
  BY <1>1, <1>6 DEF RunEvidence
<1> SUFFICES ASSUME NEW r \in Runs PROVE RunEvidence(r)'  BY DEF Evidenced
<1>8. CASE r # c
  <2>1. RunEvidence(r)  BY DEF EvidenceInv, Evidenced
  <2>2. Archived(r)' = Archived(r) /\ Batches(r)' = Batches(r)
    BY <1>4, <1>8 DEF Archived, Batches
  <2> QED BY <1>4, <1>8, <2>1, <2>2 DEF RunEvidence
<1>9. CASE r = c
  <2>1. \A a, b \in archive'[r] : a.attempt = b.attempt => a = b
    BY <1>1, <1>2, <1>4, <1>5, <1>9 DEF RunEvidence
  <2>2. \A a \in archive'[r] : \A x \in a.rows : x.attempt = a.attempt
    BY <1>1, <1>2, <1>4, <1>9 DEF RunEvidence
  <2> QED BY <1>1, <1>4, <1>7, <1>9, <2>1, <2>2 DEF RunEvidence
<1> QED BY <1>8, <1>9

-----------------------------------------------------------------------------
(* The API.                                                                  *)

(* Neither the worker nor the run it holds moves.                            *)
LEMMA PhaseStays ==
  ASSUME EvidenceInv, UNCHANGED <<attempts, results, archive, pc, claim, batch>>,
         claim # NoRun => /\ status'[claim] = status[claim]
                          /\ cancelReq[claim] => cancelReq'[claim]
  PROVE  ClaimPhase'
<1>1. Archived(claim)' = Archived(claim) /\ Batches(claim)' = Batches(claim)
  BY DEF Archived, Batches
<1>2. CASE claim = NoRun
  BY <1>2 DEF EvidenceInv, ClaimPhase, Executing, Inv, TypeOK
<1>3. CASE claim # NoRun  BY <1>1, <1>3 DEF EvidenceInv, ClaimPhase
<1> QED BY <1>2, <1>3

(* A blank row becomes a queued run.                                         *)
LEMMA EvidenceOfNewRow ==
  ASSUME EvidenceInv, NEW r \in Runs, NewId(r), status' = [status EXCEPT ![r] = "queued"],
         UNCHANGED <<attempts, cancelReq, results, archive, pc, claim, batch, cancelling>>
  PROVE  Evidenced' /\ ClaimPhase' /\ CancelPending'
<1>1. /\ status[r] = "absent" /\ status'[r] = "queued"
      /\ \A q \in Runs \ {r} : status'[q] = status[q]
  BY DEF NewId, EvidenceInv, Inv, TypeOK
<1>2. Evidenced'  BY <1>1, StatusMoves DEF EvidenceInv
<1>3. ClaimPhase'
  <2>1. claim # NoRun => claim \in Runs /\ claim # r
    BY <1>1 DEF EvidenceInv, ClaimPhase, Inv, TypeOK
  <2> QED BY <1>1, <2>1, PhaseStays
<1>4. CancelPending'
  <2>1. ~LoopFree => cancelling.run \in Runs /\ cancelling.run # r
    BY <1>1 DEF EvidenceInv, CancelPending, LoopFree, Inv, CancelHoldsLoop
  <2> QED BY <1>1, <2>1 DEF EvidenceInv, CancelPending, LoopFree
<1> QED BY <1>2, <1>3, <1>4

(* Steps that touch neither a status, nor evidence, nor the worker, nor a    *)
(* cancellation.                                                             *)
LEMMA EvidenceUntouched ==
  ASSUME EvidenceInv,
         UNCHANGED <<status, attempts, cancelReq, results, archive, pc, claim, batch, cancelling>>
  PROVE  Evidenced' /\ ClaimPhase' /\ CancelPending'
<1>1. Evidenced'  BY StatusMoves DEF EvidenceInv
<1>2. ClaimPhase'  BY PhaseStays
<1>3. CancelPending'  BY DEF EvidenceInv, CancelPending, LoopFree
<1> QED BY <1>1, <1>2, <1>3

LEMMA EvidenceApi == EvidenceInv /\ Api => Evidenced' /\ ClaimPhase' /\ CancelPending'
<1> SUFFICES ASSUME EvidenceInv, Api PROVE Evidenced' /\ ClaimPhase' /\ CancelPending'
  OBVIOUS
<1> USE DEF rowVars, evidenceVars, workerVars, apiVars
<1>1. CASE Submit  BY <1>1, EvidenceOfNewRow DEF Submit
<1>2. ASSUME NEW r \in Runs, CancelRead(r) PROVE Evidenced' /\ ClaimPhase' /\ CancelPending'
  <2>1. Evidenced'  BY <1>2, StatusMoves DEF CancelRead, EvidenceInv
  <2>2. ClaimPhase'  BY <1>2, PhaseStays DEF CancelRead
  <2>3. CancelPending'  BY <1>2 DEF CancelRead, CancelPending
  <2> QED BY <2>1, <2>2, <2>3
<1>3. CASE CancelWrite
  <2> DEFINE r == cancelling.run
  <2>1. /\ r \in Runs /\ cancelReq'[r]
        /\ \/ status[r] = "queued" /\ cancelling.seen = "queued"
           \/ /\ status[r] = "running"
              /\ cancelling.seen = "queued" => claim = r /\ pc \in {"claim_done", "ready"}
    BY <1>3 DEF CancelWrite, LoopFree, EvidenceInv, CancelPending, Inv, TypeOK, CancelHoldsLoop
  <2>2. /\ \A q \in Runs : q # r => status'[q] = status[q] /\ cancelReq'[q] = cancelReq[q]
        /\ status'[r] = IF cancelling.seen = "queued" THEN "interrupted" ELSE status[r]
        /\ cancelling' = NoRead /\ UNCHANGED <<attempts, results, archive, pc, claim, batch>>
    BY <1>3, <2>1 DEF CancelWrite, EvidenceInv, Inv, TypeOK
  <2> HIDE DEF r
  <2>3. Evidenced'  BY <2>2, StatusMoves DEF EvidenceInv
  <2>4. ClaimPhase'
    <3>1. CASE claim = r /\ cancelling.seen = "queued"
      <4>1. Archived(claim)' = Archived(claim) /\ Batches(claim)' = Batches(claim)
        BY <2>2 DEF Archived, Batches
      <4>2. pc \in Executing => pc \in {"claim_done", "ready"}
        BY <2>1, <3>1 DEF EvidenceInv, ClaimPhase
      <4> QED BY <2>1, <2>2, <3>1, <4>1, <4>2 DEF EvidenceInv, ClaimPhase, Executing
    <3>2. CASE ~(claim = r /\ cancelling.seen = "queued")
      <4>1. claim # NoRun => claim \in Runs  BY DEF EvidenceInv, Inv, TypeOK
      <4> QED BY <2>1, <2>2, <3>2, <4>1, PhaseStays
    <3> QED BY <3>1, <3>2
  <2>5. CancelPending'  BY <2>2 DEF CancelPending, LoopFree
  <2> QED BY <2>3, <2>4, <2>5
<1>4. CASE \E t \in Retriers, q \in Runs : RetryRead(t, q)
  BY <1>4, EvidenceUntouched DEF RetryRead
<1>5. CASE \E t \in Retriers : Accelerate(t)  BY <1>5, EvidenceUntouched DEF Accelerate
<1>6. ASSUME NEW t \in Retriers, InsertRetry(t)
      PROVE  Evidenced' /\ ClaimPhase' /\ CancelPending'
  BY <1>6, EvidenceOfNewRow DEF InsertRetry
<1>7. CASE \E m \in Markers, r \in Runs : BaselineRead(m, r)
  BY <1>7, EvidenceUntouched DEF BaselineRead
<1>8. CASE \E m \in Markers : BaselineWrite(m)  BY <1>8, EvidenceUntouched DEF BaselineWrite
<1>9. CASE \E e \in ApiEvents \X Runs : RecordApiEvent(e)
  BY <1>9, EvidenceUntouched DEF RecordApiEvent
<1> QED BY <1>1, <1>2, <1>3, <1>4, <1>5, <1>6, <1>7, <1>8, <1>9 DEF Api

-----------------------------------------------------------------------------
(* The worker.                                                               *)

EvidenceOK == Evidenced /\ ClaimPhase /\ CancelPending

LEMMA ClaimIsRun == EvidenceInv /\ pc \notin {"idle", "down"} => claim \in Runs /\ claim # NoRun
BY DEF EvidenceInv, Inv, TypeOK, Runs, NoRun

(* The worker lets go of its run.                                            *)
LEMMA EvidenceReleased ==
  ASSUME EvidenceInv, LoopFree, UNCHANGED <<status, attempts, results, archive, cancelling>>,
         claim' = NoRun, pc' \in {"idle", "down"}
  PROVE  EvidenceOK'
<1>1. Evidenced'  BY StatusMoves DEF EvidenceInv
<1>2. ClaimPhase'  BY DEF ClaimPhase, Executing
<1>3. CancelPending'  BY DEF CancelPending, LoopFree
<1> QED BY <1>1, <1>2, <1>3 DEF EvidenceOK

(* The worker goes on with its run and moves it to a status whose evidence   *)
(* it has; what the place it goes to needs is the caller's to show.          *)
LEMMA EvidenceAdvances ==
  ASSUME EvidenceInv, LoopFree, NEW c \in Runs, c = claim, claim' = c,
         UNCHANGED <<attempts, cancelReq, results, archive, cancelling>>,
         NEW s, status' = [status EXCEPT ![c] = s],
         \/ s = status[c]
         \/ s \in {"running", "failed", "interrupted"}
         \/ s = "completed" /\ Batches(c) = 1..NumBatches,
         pc' \in Executing => pc \in Executing,
         pc' \notin {"claim_done", "ready", "draining"},
         pc' = "building" => results[c] = {},
         pc' \in {"building", "generating", "persisting", "persisted"} => s = "running",
         pc' \in {"generating", "persisting"} =>
           batch' \in Nat \ {0} /\ Batches(c) = 1..(batch' - 1),
         pc' # "persisted",
         pc' = "completed" => s = "completed",
         pc' = "returned" => s \in {"completed", "interrupted"}
  PROVE  EvidenceOK'
<1>1. status'[c] = s /\ \A q \in Runs \ {c} : status'[q] = status[q]
  BY DEF EvidenceInv, Inv, TypeOK
<1>2. Evidenced'
  <2>1. \A r \in Runs : \/ status'[r] = status[r]
                        \/ status'[r] \in {"running", "failed", "interrupted"}
                        \/ status'[r] = "completed" /\ Batches(r) = 1..NumBatches
    BY <1>1
  <2> QED BY <2>1, StatusMoves DEF EvidenceInv
<1>3. Archived(c)' = Archived(c) /\ Batches(c)' = Batches(c)  BY DEF Archived, Batches
<1>4. s # "absent" /\ (pc' \in Executing => s # "queued")
  <2>1. c # NoRun  BY DEF Runs, NoRun
  <2> QED BY <2>1 DEF EvidenceInv, ClaimPhase
<1>5. ClaimPhase'
  <2>1. pc' \in Executing => attempts[c] > 0 /\ attempts[c] \notin Archived(c)
    BY DEF EvidenceInv, ClaimPhase
  <2> QED BY <1>1, <1>3, <1>4, <2>1 DEF ClaimPhase, Executing
<1>6. CancelPending'  BY DEF CancelPending, LoopFree
<1> QED BY <1>2, <1>5, <1>6 DEF EvidenceOK

(* Each way to settle a claim, once the runner is done with it.              *)
LEMMA EvidenceSettled ==
  ASSUME EvidenceInv, LoopFree, pc \in Executing,
         MarkCancelled \/ MarkNonretryableFailure \/ RetryOrFail
  PROVE  EvidenceOK'
<1>1. PICK c \in Runs : c = claim  BY ClaimIsRun DEF Executing
<1>2. LoopFree' /\ claim' = claim /\ pc' = "recording" /\ UNCHANGED <<attempts, cancelReq, cancelling>>
  BY DEF MarkCancelled, MarkNonretryableFailure, RetryOrFail, ExhaustRetries, ScheduleRetry,
         Settle, apiVars, LoopFree
<1>3. CancelPending'  BY <1>2 DEF CancelPending
<1>4. ASSUME NEW s \in {"interrupted", "failed"}, status' = [status EXCEPT ![c] = s],
             UNCHANGED evidenceVars
      PROVE  EvidenceOK'
  BY <1>1, <1>2, <1>4, EvidenceAdvances DEF evidenceVars, Executing
<1>5. CASE MarkCancelled  BY <1>1, <1>4, <1>5 DEF MarkCancelled, Settle, evidenceVars
<1>6. CASE MarkNonretryableFailure
  BY <1>1, <1>4, <1>6 DEF MarkNonretryableFailure, Settle, evidenceVars
<1>7. CASE ExhaustRetries  BY <1>1, <1>4, <1>7 DEF ExhaustRetries, Settle, evidenceVars
<1>8. CASE ScheduleRetry
  <2>1. status' = [status EXCEPT ![c] = "queued"] /\ RestartAttempt
    BY <1>1, <1>8 DEF ScheduleRetry, Settle
  <2>2. Evidenced'  BY <1>1, <1>2, <2>1, AttemptRestarted
  <2>3. status'[c] = "queued"  BY <2>1 DEF EvidenceInv, Inv, TypeOK
  <2>4. ClaimPhase'  BY <1>1, <1>2, <2>3 DEF ClaimPhase, Executing
  <2> QED BY <1>3, <2>2, <2>4 DEF EvidenceOK
<1> QED BY <1>5, <1>6, <1>7, <1>8 DEF RetryOrFail

LEMMA EvidenceWorker == EvidenceInv /\ Worker => EvidenceOK'
<1> SUFFICES ASSUME EvidenceInv, Worker PROVE EvidenceOK'  OBVIOUS
<1>0. pc \notin {"idle", "down"} => claim \in Runs /\ claim # NoRun  BY ClaimIsRun
<1>L. pc \notin AwaitPoints \/ stopping => LoopFree
  BY DEF EvidenceInv, Inv, CancelHoldsLoop, LoopFree
<1> USE DEF rowVars, evidenceVars, workerVars, apiVars, At
<1>1. CASE Poll  BY <1>1, EvidenceUntouched DEF Poll, vars, EvidenceOK
<1>2. CASE ClaimRead
  <2>1. PICK r \in Runs : status[r] = "queued" /\ claim' = r
    BY <1>2 DEF ClaimRead, Oldest, Due
  <2>2. UNCHANGED <<status, attempts, results, archive, cancelling>> /\ pc = "idle" /\ pc' = "claim_read"
    BY <1>2 DEF ClaimRead
  <2>3. Evidenced'  BY <2>2, StatusMoves DEF EvidenceInv
  <2>4. ClaimPhase'  BY <2>1, <2>2 DEF ClaimPhase, Executing
  <2>5. CancelPending'  BY <2>2 DEF EvidenceInv, CancelPending, LoopFree
  <2> QED BY <2>3, <2>4, <2>5 DEF EvidenceOK
<1>3. CASE ClaimCommit
  <2>1. PICK c \in Runs : c = claim  BY <1>0, <1>3 DEF ClaimCommit
  <2>2. /\ status[c] = "queued" /\ status'[c] = "running" /\ attempts'[c] = attempts[c] + 1
        /\ \A r \in Runs \ {c} : status'[r] = status[r] /\ attempts'[r] = attempts[r]
        /\ UNCHANGED <<results, archive, cancelling>> /\ claim' = c /\ pc' = "claim_done"
        /\ attempts[c] \in Nat
    BY <1>3, <2>1 DEF ClaimCommit, TakeClaim, Due, EvidenceInv, Inv, TypeOK
  <2>3. results[c] = {} /\ Archived(c) = 1..attempts[c]
    BY <2>2 DEF EvidenceInv, Evidenced, RunEvidence
  <2>4. Evidenced'
    <3> SUFFICES ASSUME NEW r \in Runs PROVE RunEvidence(r)'  BY DEF Evidenced
    <3>1. RunEvidence(r)  BY DEF EvidenceInv, Evidenced
    <3>2. Archived(r)' = Archived(r) /\ Batches(r)' = Batches(r)
      BY <2>2 DEF Archived, Batches
    <3>3. CASE r = c  BY <2>2, <2>3, <3>1, <3>2, <3>3 DEF RunEvidence
    <3>4. CASE r # c  BY <2>2, <3>1, <3>2, <3>4 DEF RunEvidence
    <3> QED BY <3>3, <3>4
  <2>5. ClaimPhase'
    <3>1. Archived(c)' = Archived(c)  BY <2>2 DEF Archived
    <3>2. attempts'[c] > 0 /\ attempts'[c] \notin Archived(c)'  BY <2>2, <2>3, <3>1
    <3> QED BY <2>2, <2>3, <3>2 DEF ClaimPhase, Executing
  <2>6. CancelPending'
    <3>1. CASE LoopFree  BY <2>2, <3>1 DEF CancelPending, LoopFree
    <3>2. CASE ~LoopFree
      <4>1. cancelling.run \in Runs  BY <3>2 DEF EvidenceInv, Inv, CancelHoldsLoop, LoopFree
      <4>2. CASE cancelling.run = c  BY <2>1, <2>2, <4>2 DEF CancelPending
      <4>3. CASE cancelling.run # c
        BY <2>1, <2>2, <3>2, <4>1, <4>3 DEF EvidenceInv, CancelPending, LoopFree
      <4> QED BY <4>2, <4>3
    <3> QED BY <3>1, <3>2
  <2> QED BY <2>4, <2>5, <2>6 DEF EvidenceOK
<1>4. CASE ClaimLost  BY <1>4, EvidenceReleased DEF ClaimLost, Release
<1>5. CASE ClaimRecorded
  <2>1. CASE stopping  BY <1>5, <1>L, <2>1, EvidenceReleased DEF ClaimRecorded, Release
  <2>2. CASE ~stopping
    <3>1. /\ UNCHANGED <<status, attempts, cancelReq, results, archive, cancelling, claim, batch>>
          /\ pc = "claim_done" /\ pc' = "ready"
      BY <1>5, <2>2 DEF ClaimRecorded
    <3>2. Evidenced'  BY <3>1, StatusMoves DEF EvidenceInv
    <3>3. Archived(claim)' = Archived(claim)  BY <3>1 DEF Archived
    <3>4. ClaimPhase'  BY <3>1, <3>3 DEF EvidenceInv, ClaimPhase, Executing
    <3>5. CancelPending'  BY <3>1 DEF EvidenceInv, CancelPending, LoopFree
    <3> QED BY <3>2, <3>4, <3>5 DEF EvidenceOK
  <2> QED BY <2>1, <2>2
<1>6. CASE CancelBeforeStart
  BY <1>6, EvidenceSettled DEF CancelBeforeStart, Executing
<1>7. CASE BuildRunner
  <2>1. /\ pc = "ready" /\ pc' = "building" /\ LoopFree /\ ~cancelReq[claim] /\ claim' = claim
        /\ UNCHANGED <<status, attempts, cancelReq, results, archive, cancelling>>
    BY <1>7 DEF BuildRunner
  <2>2. PICK c \in Runs : c = claim  BY <1>0, <2>1
  <2>3. status[c] = "running" /\ results[c] = {}  BY <2>1, <2>2 DEF EvidenceInv, ClaimPhase
  <2>4. status' = [status EXCEPT ![c] = status[c]]  BY <2>1 DEF EvidenceInv, Inv, TypeOK
  <2> QED BY <2>1, <2>2, <2>3, <2>4, EvidenceAdvances DEF Executing
<1>8. CASE BuildFails
  <2>1. /\ pc = "building" /\ pc' \in {"raised_transient", "raised_fatal"} /\ LoopFree /\ claim' = claim
        /\ UNCHANGED <<status, attempts, cancelReq, results, archive, cancelling>>
    BY <1>8 DEF BuildFails
  <2>2. PICK c \in Runs : c = claim  BY <1>0, <2>1
  <2>3. status' = [status EXCEPT ![c] = status[c]]  BY <2>1 DEF EvidenceInv, Inv, TypeOK
  <2> QED BY <2>1, <2>2, <2>3, EvidenceAdvances DEF Executing
<1>9. CASE StartRunner
  <2>1. PICK c \in Runs : c = claim  BY <1>0, <1>9 DEF StartRunner
  <2>2. status[c] = "running" /\ results[c] = {}
    BY <1>9, <2>1 DEF StartRunner, EvidenceInv, ClaimPhase
  <2>3. ~Refused(claim)  BY <2>1, <2>2 DEF Refused
  <2>4. /\ pc' = "generating" /\ pc = "building" /\ LoopFree /\ batch' = 1 /\ claim' = c
        /\ status' = [status EXCEPT ![c] = "running"]
        /\ UNCHANGED <<attempts, cancelReq, results, archive, cancelling>>
    BY <1>9, <2>1, <2>3 DEF StartRunner
  <2>5. Batches(c) = 1..(batch' - 1)  BY <2>2, <2>4 DEF Batches
  <2>6. batch' \in Nat \ {0}  BY <2>4
  <2>7. /\ pc' = "generating" /\ pc \in Executing /\ LoopFree /\ claim' = c
        /\ status' = [status EXCEPT ![c] = "running"]
        /\ UNCHANGED <<attempts, cancelReq, results, archive, cancelling>>
    BY <2>4 DEF Executing
  <2> QED BY <2>1, <2>5, <2>6, <2>7, EvidenceAdvances
<1>10. CASE CancelSeen
  <2>1. /\ pc \in {"building", "generating", "persisted"} /\ pc' = "returned" /\ LoopFree
        /\ status' = [status EXCEPT ![claim] = "interrupted"] /\ claim' = claim
        /\ UNCHANGED <<attempts, cancelReq, results, archive, cancelling>>
    BY <1>10 DEF CancelSeen
  <2>2. PICK c \in Runs : c = claim  BY <1>0, <2>1
  <2> QED BY <2>1, <2>2, EvidenceAdvances DEF Executing
<1>11. CASE GenerateBatch
  <2>1. /\ pc = "generating" /\ pc' = "persisting" /\ LoopFree /\ claim' = claim /\ batch' = batch
        /\ UNCHANGED <<status, attempts, cancelReq, results, archive, cancelling>>
    BY <1>11 DEF GenerateBatch
  <2>2. PICK c \in Runs : c = claim  BY <1>0, <2>1
  <2>3. /\ status[c] = "running" /\ Batches(c) = 1..(batch - 1) /\ batch \in Nat \ {0}
    BY <2>1, <2>2, ConstantsAssumption DEF EvidenceInv, ClaimPhase, Inv, TypeOK
  <2>4. status' = [status EXCEPT ![c] = status[c]]  BY <2>1 DEF EvidenceInv, Inv, TypeOK
  <2> QED BY <2>1, <2>2, <2>3, <2>4, EvidenceAdvances DEF Executing
<1>12. CASE PersistBatch
  <2>1. /\ pc = "persisting" /\ pc' = "persisted" /\ WriteBatch /\ claim' = claim /\ batch' = batch
        /\ UNCHANGED <<status, attempts, cancelReq, archive, cancelling>>
    BY <1>12 DEF PersistBatch
  <2>2. PICK c \in Runs : c = claim  BY <1>0, <2>1
  <2>3. status[c] = "running" /\ batch >= 1  BY <2>1, <2>2 DEF EvidenceInv, ClaimPhase
  <2>4. Evidenced' /\ Batches(c)' = 1..batch  BY <2>1, <2>2, <2>3, BatchStored
  <2>5. Archived(c)' = Archived(c)  BY <2>1 DEF Archived
  <2>6. attempts[c] > 0 /\ attempts[c] \notin Archived(c) /\ c # NoRun
    BY <1>0, <2>1, <2>2 DEF EvidenceInv, ClaimPhase, Executing
  <2>7. ClaimPhase'
    BY <2>1, <2>2, <2>3, <2>4, <2>5, <2>6 DEF ClaimPhase, Executing
  <2>8. CancelPending'  BY <2>1 DEF EvidenceInv, CancelPending, LoopFree
  <2> QED BY <2>4, <2>7, <2>8 DEF EvidenceOK
<1>13. CASE NextBatch
  <2>1. /\ pc = "persisted" /\ pc' = "generating" /\ LoopFree /\ claim' = claim /\ batch' = batch + 1
        /\ UNCHANGED <<status, attempts, cancelReq, results, archive, cancelling>>
    BY <1>13 DEF NextBatch
  <2>2. PICK c \in Runs : c = claim  BY <1>0, <2>1
  <2>3. /\ status[c] = "running" /\ Batches(c) = 1..batch /\ batch \in Nat
    BY <2>1, <2>2, ConstantsAssumption DEF EvidenceInv, ClaimPhase, Inv, TypeOK
  <2>4. status' = [status EXCEPT ![c] = status[c]]  BY <2>1 DEF EvidenceInv, Inv, TypeOK
  <2>5. batch' \in Nat \ {0} /\ batch' - 1 = batch  BY <2>1, <2>3
  <2> QED BY <2>1, <2>2, <2>3, <2>4, <2>5, EvidenceAdvances DEF Executing
<1>14. CASE CompleteRun
  <2>1. /\ pc = "persisted" /\ pc' = "completed" /\ LoopFree /\ batch = NumBatches /\ claim' = claim
        /\ status' = [status EXCEPT ![claim] = "completed"]
        /\ UNCHANGED <<attempts, cancelReq, results, archive, cancelling>>
    BY <1>14 DEF CompleteRun, Complete
  <2>2. PICK c \in Runs : c = claim  BY <1>0, <2>1
  <2>3. Batches(c) = 1..NumBatches  BY <2>1, <2>2 DEF EvidenceInv, ClaimPhase
  <2> QED BY <2>1, <2>2, <2>3, EvidenceAdvances DEF Executing
<1>15. CASE RecordActivation
  <2>1. /\ pc = "completed" /\ pc' = "returned" /\ claim' = claim /\ batch' = batch
        /\ UNCHANGED <<status, attempts, cancelReq, results, archive, cancelling>>
    BY <1>15 DEF RecordActivation
  <2>2. PICK c \in Runs : c = claim  BY <1>0, <2>1
  <2>3. status[c] = "completed" /\ LoopFree
    BY <1>L, <2>1, <2>2 DEF EvidenceInv, ClaimPhase, AwaitPoints
  <2>4. status' = [status EXCEPT ![c] = status[c]]  BY <2>1 DEF EvidenceInv, Inv, TypeOK
  <2> QED BY <2>1, <2>2, <2>3, <2>4, EvidenceAdvances DEF Executing
<1>16. CASE RunnerRaises
  <2>1. /\ pc \in {"building", "persisting", "persisted", "completed"} /\ LoopFree
        /\ pc' \in {"raised_transient", "raised_fatal"} /\ claim' = claim
        /\ status' = [status EXCEPT ![claim] = "failed"] \/ status' = status
        /\ UNCHANGED <<attempts, cancelReq, archive, cancelling>>
        /\ results' = results \/ (pc = "persisting" /\ WriteBatch)
    BY <1>16 DEF RunnerRaises
  <2>2. PICK c \in Runs : c = claim  BY <1>0, <2>1
  <2>3. CASE results' = results
    <3>1. status' = status => status' = [status EXCEPT ![c] = status[c]]
      BY DEF EvidenceInv, Inv, TypeOK
    <3> QED BY <2>1, <2>2, <2>3, <3>1, EvidenceAdvances DEF Executing
  <2>4. CASE pc = "persisting" /\ WriteBatch
    <3>1. /\ status'[c] \in {"running", "failed"}
          /\ \A r \in Runs \ {c} : status'[r] = status[r]
      BY <2>1, <2>2, <2>4 DEF EvidenceInv, ClaimPhase, Inv, TypeOK
    <3>2. Evidenced'  BY <2>1, <2>2, <2>4, <3>1, BatchStored
    <3>3. Archived(c)' = Archived(c)  BY <2>1 DEF Archived
    <3>4. attempts[c] > 0 /\ attempts[c] \notin Archived(c)
      BY <2>1, <2>2 DEF EvidenceInv, ClaimPhase, Executing
    <3>5. ClaimPhase'  BY <2>1, <2>2, <3>1, <3>3, <3>4 DEF ClaimPhase, Executing
    <3>6. CancelPending'  BY <2>1 DEF CancelPending, LoopFree
    <3> QED BY <3>2, <3>5, <3>6 DEF EvidenceOK
  <2> QED BY <2>1, <2>3, <2>4
<1>17. CASE AfterRaise
  BY <1>17, <1>L, EvidenceSettled DEF AfterRaise, Executing, AwaitPoints
<1>18. CASE AfterReturn
  <2>1. LoopFree /\ pc = "returned"  BY <1>18, <1>L DEF AfterReturn, AwaitPoints
  <2>2. CASE ClearCompletedClaim
    BY <2>1, <2>2, EvidenceReleased DEF ClearCompletedClaim, Release
  <2>3. CASE ~ClearCompletedClaim
    BY <1>18, <2>1, <2>3, EvidenceSettled DEF AfterReturn, Executing
  <2> QED BY <2>2, <2>3
<1>19. CASE RecordEvent
  BY <1>19, <1>L, EvidenceReleased DEF RecordEvent, Release, AwaitPoints
<1> QED
  BY <1>1, <1>2, <1>3, <1>4, <1>5, <1>6, <1>7, <1>8, <1>9, <1>10, <1>11, <1>12, <1>13,
     <1>14, <1>15, <1>16, <1>17, <1>18, <1>19 DEF Worker

LEMMA EvidenceFaultsAndOutages ==
  EvidenceInv /\ (WorkerFaults \/ Clock \/ Outage) => EvidenceOK'
<1> SUFFICES ASSUME EvidenceInv, WorkerFaults \/ Clock \/ Outage PROVE EvidenceOK'  OBVIOUS
<1>0. pc \notin {"idle", "down"} => claim \in Runs /\ claim # NoRun  BY ClaimIsRun
<1>L. pc \notin AwaitPoints \/ stopping => LoopFree
  BY DEF EvidenceInv, Inv, CancelHoldsLoop, LoopFree
<1> USE DEF rowVars, evidenceVars, workerVars, apiVars
<1>1. CASE ClaimRecordFails  BY <1>1, EvidenceReleased DEF ClaimRecordFails, Release
<1>2. CASE RecordEventFails
  BY <1>2, <1>L, EvidenceReleased DEF RecordEventFails, Release, AwaitPoints
<1>3. CASE WorkerCommitFails
  BY <1>3, <1>L, EvidenceReleased DEF WorkerCommitFails, Release, AwaitPoints
<1>4. CASE Clock  BY <1>4, EvidenceUntouched DEF Clock, BackoffElapses, EvidenceOK
<1>5. CASE Stop
  <2>0. LoopFree /\ UNCHANGED <<attempts, cancelReq, results, archive, cancelling>>
    BY <1>5 DEF Stop
  <2>1. CASE pc \in {"claim_read", "claim_done"}
    BY <1>5, <2>0, <2>1, EvidenceUntouched DEF Stop, EvidenceOK
  <2>2. CASE pc = "persisting"
    <3>1. PICK c \in Runs : c = claim  BY <1>0, <2>2
    <3>2. /\ pc' = "draining" /\ claim' = c /\ batch' = batch
          /\ status' = [status EXCEPT ![c] = "interrupted"]
      BY <1>5, <2>2, <3>1 DEF Stop
    <3>3. status'[c] = "interrupted" /\ \A r \in Runs \ {c} : status'[r] = status[r]
      BY <3>2 DEF EvidenceInv, Inv, TypeOK
    <3>4. Evidenced'  BY <2>0, <3>3, StatusMoves DEF EvidenceInv
    <3>5. Archived(c)' = Archived(c) /\ Batches(c)' = Batches(c)
      BY <2>0 DEF Archived, Batches
    <3>6. ClaimPhase'
      BY <2>0, <2>2, <3>1, <3>2, <3>3, <3>5 DEF EvidenceInv, ClaimPhase, Executing
    <3>7. CancelPending'  BY <2>0 DEF CancelPending, LoopFree
    <3> QED BY <3>4, <3>6, <3>7 DEF EvidenceOK
  <2>3. CASE pc \notin {"claim_read", "claim_done", "persisting"}
    <3>1. claim' = NoRun /\ pc' = "down"  BY <1>5, <2>3 DEF Stop
    <3>2. CASE pc \in {"generating", "persisted"}
      <4>1. \A r \in Runs : status'[r] = status[r] \/ status'[r] = "interrupted"
        BY <1>5, <3>2 DEF Stop, EvidenceInv, Inv, TypeOK
      <4>2. Evidenced'  BY <2>0, <4>1, StatusMoves DEF EvidenceInv
      <4>3. ClaimPhase'  BY <3>1 DEF ClaimPhase, Executing
      <4>4. CancelPending'  BY <2>0 DEF CancelPending, LoopFree
      <4> QED BY <4>2, <4>3, <4>4 DEF EvidenceOK
    <3>3. CASE pc \notin {"generating", "persisted"}
      BY <1>5, <2>0, <2>3, <3>1, <3>3, EvidenceReleased DEF Stop
    <3> QED BY <3>2, <3>3
  <2> QED BY <2>1, <2>2, <2>3
<1>6. CASE DrainWriter
  <2>1. /\ pc = "draining" /\ LoopFree /\ claim' = NoRun /\ pc' = "down"
        /\ UNCHANGED <<status, attempts, archive, cancelling>>
        /\ WriteBatch \/ results' = results
    BY <1>6, <1>L DEF DrainWriter, AwaitPoints
  <2>2. CASE results' = results  BY <2>1, <2>2, EvidenceReleased
  <2>3. CASE WriteBatch
    <3>1. PICK c \in Runs : c = claim  BY <1>0, <2>1
    <3>2. status[c] = "interrupted"  BY <2>1, <3>1 DEF EvidenceInv, ClaimPhase
    <3>3. Evidenced'  BY <2>1, <2>3, <3>1, <3>2, BatchStored
    <3>4. ClaimPhase'  BY <2>1 DEF ClaimPhase, Executing
    <3>5. CancelPending'  BY <2>1 DEF CancelPending, LoopFree
    <3> QED BY <3>3, <3>4, <3>5 DEF EvidenceOK
  <2> QED BY <2>1, <2>2, <2>3
<1>7. CASE Crash
  <2>1. /\ claim' = NoRun /\ pc' = "down" /\ cancelling' = NoRead
        /\ UNCHANGED <<status, attempts, results, archive>>
    BY <1>7 DEF Crash
  <2>2. Evidenced'  BY <2>1, StatusMoves DEF EvidenceInv
  <2>3. ClaimPhase'  BY <2>1 DEF ClaimPhase, Executing
  <2>4. CancelPending'  BY <2>1 DEF CancelPending, LoopFree
  <2> QED BY <2>2, <2>3, <2>4 DEF EvidenceOK
<1>8. CASE Restart
  <2>1. /\ pc = "down" /\ pc' = "idle" /\ claim' = claim /\ cancelling' = cancelling
        /\ UNCHANGED <<attempts, results, archive>> /\ LoopFree
    BY <1>8, <1>L DEF Restart, AwaitPoints
  <2>2. \A r \in Runs : status'[r] = status[r] \/ status'[r] = "interrupted"
    BY <1>8 DEF Restart, Reconcile, Reconciled
  <2>3. Evidenced'  BY <2>1, <2>2, StatusMoves DEF EvidenceInv
  <2>4. claim # NoRun => claim \in Runs  BY DEF EvidenceInv, Inv, TypeOK
  <2>5. ClaimPhase'  BY <2>1, <2>2, <2>4 DEF EvidenceInv, ClaimPhase, Executing
  <2>6. CancelPending'  BY <2>1 DEF CancelPending, LoopFree
  <2> QED BY <2>3, <2>5, <2>6 DEF EvidenceOK
<1> QED BY <1>1, <1>2, <1>3, <1>4, <1>5, <1>6, <1>7, <1>8 DEF WorkerFaults, Outage

LEMMA EvidenceInit == Init => EvidenceInv
<1> SUFFICES ASSUME Init PROVE EvidenceInv  OBVIOUS
<1>1. Inv  BY InvInit
<1>2. \A r \in Runs : Archived(r) = {}  BY DEF Init, Archived
<1>3. Evidenced  BY <1>2 DEF Init, Evidenced, RunEvidence
<1>4. ClaimPhase /\ CancelPending  BY DEF Init, ClaimPhase, CancelPending, LoopFree, Executing
<1> QED BY <1>1, <1>3, <1>4 DEF EvidenceInv

LEMMA EvidenceStep == EvidenceInv /\ [Next]_vars => EvidenceInv'
<1> SUFFICES ASSUME EvidenceInv, [Next]_vars PROVE EvidenceInv'  OBVIOUS
<1>1. Inv'  BY InvStep DEF EvidenceInv
<1>2. CASE UNCHANGED vars
  BY <1>1, <1>2, EvidenceUntouched DEF vars, rowVars, evidenceVars, workerVars, apiVars, EvidenceInv
<1>3. CASE Next
  BY <1>1, <1>3, EvidenceApi, EvidenceWorker, EvidenceFaultsAndOutages
     DEF Next, EvidenceOK, EvidenceInv
<1> QED BY <1>2, <1>3

LEMMA EvidenceAlways == Spec => []EvidenceInv
  BY EvidenceInit, EvidenceStep, PTL DEF Spec

(* Retries never mix results: the active rows of a run come from its current *)
(* attempt, one row set per batch, and a queued run has none.                *)
THEOREM OneAttemptActive == Spec => []AttemptsNeverMix
<1>1. EvidenceInv => AttemptsNeverMix
  BY DEF EvidenceInv, Evidenced, RunEvidence, AttemptsNeverMix
<1> QED BY <1>1, EvidenceAlways, PTL

(* Every restarted attempt left exactly one archive, with its own rows.      *)
THEOREM EveryRestartArchived == Spec => []ArchivePerRestart
<1>1. EvidenceInv => ArchivePerRestart
  <2> SUFFICES ASSUME EvidenceInv, NEW r \in Runs
               PROVE  LET archived == {a.attempt : a \in archive[r]} IN
                        /\ 1..(attempts[r] - 1) \subseteq archived /\ archived \subseteq 1..attempts[r]
                        /\ status[r] = "queued" => archived = 1..attempts[r]
                        /\ attempts[r] \in archived => results[r] = {}
                        /\ \A a, b \in archive[r] : a.attempt = b.attempt => a = b
                        /\ \A a \in archive[r] : \A x \in a.rows : x.attempt = a.attempt
    BY DEF ArchivePerRestart
  <2>1. RunEvidence(r)  BY DEF EvidenceInv, Evidenced
  <2> QED BY <2>1 DEF RunEvidence, Archived
<1> QED BY <1>1, EvidenceAlways, PTL

(* A completed run has the rows of every batch of its dataset.               *)
THEOREM CompletedIsComplete == Spec => []CompletedHasAllBatches
<1>1. EvidenceInv => CompletedHasAllBatches
  BY DEF EvidenceInv, Evidenced, RunEvidence, CompletedHasAllBatches, Batches
<1> QED BY <1>1, EvidenceAlways, PTL

(* No run the worker claimed is refused by the checks made before it runs.   *)
THEOREM ClaimIsAccepted == Spec => []ClaimNeverRefused
<1>1. EvidenceInv => ClaimNeverRefused
  BY DEF EvidenceInv, ClaimPhase, ClaimNeverRefused, Refused
<1> QED BY <1>1, EvidenceAlways, PTL

-----------------------------------------------------------------------------
(* No row is lost.                                                           *)

(* Evidence is written in two ways only.                                     *)
LEMMA EvidenceWrites ==
  ASSUME TypeOK, Next
  PROVE  \/ UNCHANGED evidenceVars
         \/ claim \in Runs /\ UNCHANGED archive /\ WriteBatch
         \/ claim \in Runs /\ RestartAttempt
<1>1. CASE Api
  BY <1>1 DEF Api, Submit, CancelRead, CancelWrite, RetryRead, Accelerate, InsertRetry,
              BaselineRead, BaselineWrite, RecordApiEvent
<1>2. CASE Worker
  <2>1. pc \notin {"idle", "down"} => claim \in Runs  BY DEF TypeOK
  <2>2. ASSUME pc \notin {"idle", "down"}, RetryOrFail
        PROVE  UNCHANGED evidenceVars \/ (claim \in Runs /\ RestartAttempt)
    BY <2>1, <2>2 DEF RetryOrFail, MarkCancelled, ExhaustRetries, ScheduleRetry
  <2>3. CASE AfterRaise
    BY <2>2, <2>3 DEF AfterRaise, MarkNonretryableFailure
  <2>4. CASE AfterReturn
    BY <2>2, <2>4 DEF AfterReturn, MarkCancelled, ClearCompletedClaim
  <2>5. CASE PersistBatch  BY <2>1, <2>5 DEF PersistBatch, At
  <2>6. CASE RunnerRaises  BY <2>1, <2>6 DEF RunnerRaises, evidenceVars
  <2> QED BY <1>2, <2>3, <2>4, <2>5, <2>6
          DEF Worker, Poll, vars, ClaimRead, ClaimCommit, TakeClaim, ClaimLost, ClaimRecorded,
              CancelBeforeStart, MarkCancelled, BuildRunner, BuildFails, StartRunner, CancelSeen,
              GenerateBatch, NextBatch, CompleteRun, Complete, RecordActivation, RecordEvent
<1>3. CASE WorkerFaults
  BY <1>3 DEF WorkerFaults, ClaimRecordFails, RecordEventFails, WorkerCommitFails
<1>4. CASE Clock  BY <1>4 DEF Clock, BackoffElapses
<1>5. CASE Outage
  <2>1. pc = "draining" => claim \in Runs  BY DEF TypeOK
  <2> QED BY <1>5, <2>1 DEF Outage, Stop, DrainWriter, Crash, Restart, evidenceVars
<1> QED BY <1>1, <1>2, <1>3, <1>4, <1>5 DEF Next

(* Result rows stay active or move into an archive, whatever fails.          *)
THEOREM EvidenceIsKept == Spec => EvidenceKept
<1>1. TypeOK /\ [Next]_vars => [\A r \in Runs : Evidence(r) \subseteq Evidence(r)']_vars
  <2> SUFFICES ASSUME TypeOK, Next, NEW r \in Runs PROVE Evidence(r) \subseteq Evidence(r)'
    OBVIOUS
  <2>1. CASE UNCHANGED evidenceVars  BY <2>1 DEF evidenceVars, Evidence
  <2>2. CASE claim \in Runs /\ UNCHANGED archive /\ WriteBatch
    <3>1. results[r] \subseteq results'[r]  BY <2>2 DEF WriteBatch, TypeOK
    <3> QED BY <2>2, <3>1 DEF Evidence
  <2>3. CASE claim \in Runs /\ RestartAttempt
    <3>1. CASE r # claim
      <4>1. results'[r] = results[r] /\ archive'[r] = archive[r]
        BY <2>3, <3>1 DEF RestartAttempt, TypeOK
      <4> QED BY <4>1 DEF Evidence
    <3>2. CASE r = claim
      <4>1. PICK new : new = [attempt |-> attempts[claim], rows |-> results[claim]]  OBVIOUS
      <4>2. new.rows = results[r]  BY <3>2, <4>1
      <4>3. archive' = [archive EXCEPT ![claim] = @ \union {new}]
        BY <2>3, <4>1 DEF RestartAttempt
      <4>4. archive'[r] = archive[r] \union {new}  BY <3>2, <4>3 DEF TypeOK
      <4> QED BY <4>2, <4>4 DEF Evidence
    <3> QED BY <3>1, <3>2
  <2> QED BY <2>1, <2>2, <2>3, EvidenceWrites
<1> QED BY <1>1, TypeCorrect, PTL DEF Spec, EvidenceKept

-----------------------------------------------------------------------------
(* The audit trail.                                                          *)

FinalEvents == {"run.cancelled", "run.failed", "run.retry_exhausted"}
Undecided(r) == \A e \in FinalEvents : <<e, r>> \notin audit

(* No final event of the run the worker holds is recorded yet, and the one   *)
(* it is about to record is true.                                            *)
ClaimAudit ==
  /\ pc \in Executing \union {"recording"} => Undecided(claim)
  /\ pc = "recording" =>
       /\ event = "run.cancelled" => status[claim] = "interrupted" /\ cancelReq[claim]
       /\ event = "run.failed" => status[claim] = "failed"
       /\ event = "run.retry_exhausted" =>
            status[claim] = "failed" /\ attempts[claim] = MaxAttempts
       /\ event = "run.retry_scheduled" => archive[claim] # {}

AuditOK == AuditTruthful /\ ClaimAudit
AuditInv == EvidenceInv /\ AuditOK

NoNewEvent ==
  \A e \in FinalEvents \union {"run.retry_scheduled"}, r \in Runs :
    <<e, r>> \in audit' => <<e, r>> \in audit

LEMMA OpenIsUndecided ==
  ASSUME AuditTruthful, NEW r \in Runs, status[r] \in {"absent", "queued", "running"}
  PROVE  Undecided(r)
BY DEF AuditTruthful, Undecided, FinalEvents

(* What was recorded stays true while decided rows stay as they are.         *)
LEMMA AuditKept ==
  ASSUME AuditTruthful, NoNewEvent, \A r \in Runs : archive[r] # {} => archive'[r] # {},
         \A r \in Runs : \/ Undecided(r)
                         \/ /\ status'[r] = status[r] /\ attempts'[r] = attempts[r]
                            /\ cancelReq[r] => cancelReq'[r]
  PROVE  AuditTruthful'
BY DEF AuditTruthful, Undecided, NoNewEvent, FinalEvents

(* Steps beside the worker, which change open rows only.                     *)
LEMMA AuditBeside ==
  ASSUME AuditInv, NoNewEvent, UNCHANGED <<attempts, archive, pc, claim, event>>,
         pc = "recording" => status'[claim] = status[claim] /\ (cancelReq[claim] => cancelReq'[claim]),
         \A r \in Runs : \/ status[r] \in {"absent", "queued", "running"}
                         \/ status'[r] = status[r] /\ (cancelReq[r] => cancelReq'[r])
  PROVE  AuditOK'
<1>1. AuditTruthful'
  BY AuditKept, OpenIsUndecided DEF AuditInv, AuditOK
<1>2. pc \in Executing \union {"recording"} => claim \in Runs
  BY ClaimIsRun DEF AuditInv, Executing
<1>3. ClaimAudit'
  <2>1. pc \in Executing \union {"recording"} => Undecided(claim)'
    BY <1>2 DEF AuditInv, AuditOK, ClaimAudit, Undecided, NoNewEvent
  <2> QED BY <2>1 DEF AuditInv, AuditOK, ClaimAudit
<1> QED BY <1>1, <1>3 DEF AuditOK

LEMMA AuditApi == AuditInv /\ Api => AuditOK'
<1> SUFFICES ASSUME AuditInv, Api PROVE AuditOK'  OBVIOUS
<1> USE DEF rowVars, evidenceVars, workerVars, apiVars
<1>0. /\ claim # NoRun => status[claim] # "absent"
      /\ pc = "recording" => LoopFree
      /\ claim # NoRun => claim \in Runs
  BY DEF AuditInv, EvidenceInv, ClaimPhase, Inv, TypeOK, CancelHoldsLoop, LoopFree, AwaitPoints
<1>n. audit' = audit => NoNewEvent  BY DEF NoNewEvent
<1>1. ASSUME NEW r \in Runs, NewId(r), status' = [status EXCEPT ![r] = "queued"],
             UNCHANGED <<attempts, archive, pc, claim, event, cancelReq, audit>>
      PROVE  AuditOK'
  <2>1. status[r] = "absent" /\ \A q \in Runs \ {r} : status'[q] = status[q]
    BY <1>1 DEF NewId, AuditInv, EvidenceInv, Inv, TypeOK
  <2>2. pc = "recording" => claim \in Runs \ {r}
    BY <1>0, <2>1, ClaimIsRun DEF AuditInv
  <2> QED BY <1>1, <1>n, <2>1, <2>2, AuditBeside
<1>2. CASE Submit  BY <1>1, <1>2 DEF Submit
<1>3. ASSUME NEW t \in Retriers, InsertRetry(t) PROVE AuditOK'
  BY <1>1, <1>3 DEF InsertRetry
<1>4. CASE \E r \in Runs : CancelRead(r)  BY <1>n, <1>4, AuditBeside DEF CancelRead
<1>5. CASE CancelWrite
  <2>1. /\ ~LoopFree /\ cancelling.run \in Runs
        /\ status[cancelling.run] \in {"queued", "running"}
    BY <1>5 DEF CancelWrite, AuditInv, EvidenceInv, CancelPending, Inv, CancelHoldsLoop, LoopFree
  <2>2. \A r \in Runs : r # cancelling.run => status'[r] = status[r] /\ cancelReq'[r] = cancelReq[r]
    BY <1>5, <2>1 DEF CancelWrite, AuditInv, EvidenceInv, Inv, TypeOK
  <2> QED BY <1>0, <1>n, <1>5, <2>1, <2>2, AuditBeside DEF CancelWrite
<1>6. CASE \E t \in Retriers, q \in Runs : RetryRead(t, q)
  BY <1>n, <1>6, AuditBeside DEF RetryRead
<1>7. CASE \E t \in Retriers : Accelerate(t)  BY <1>n, <1>7, AuditBeside DEF Accelerate
<1>8. CASE \E m \in Markers, r \in Runs : BaselineRead(m, r)
  BY <1>n, <1>8, AuditBeside DEF BaselineRead
<1>9. CASE \E m \in Markers : BaselineWrite(m)  BY <1>n, <1>9, AuditBeside DEF BaselineWrite
<1>10. ASSUME NEW e \in ApiEvents \X Runs, RecordApiEvent(e) PROVE AuditOK'
  <2>1. NoNewEvent  BY <1>10 DEF RecordApiEvent, NoNewEvent, ApiEvents, FinalEvents
  <2> QED BY <1>10, <2>1, AuditBeside DEF RecordApiEvent
<1> QED BY <1>2, <1>3, <1>4, <1>5, <1>6, <1>7, <1>8, <1>9, <1>10 DEF Api

(* The worker goes on with its run, or lets go of it, before anything about  *)
(* it is decided.                                                            *)
LEMMA AuditAdvances ==
  ASSUME AuditInv, NoNewEvent, NEW c \in Runs, c = claim, pc \in Executing,
         \A r \in Runs : archive[r] # {} => archive'[r] # {},
         UNCHANGED <<attempts, cancelReq>>, \A r \in Runs \ {c} : status'[r] = status[r],
         pc' # "recording", pc' \in Executing => claim' = c
  PROVE  AuditOK'
<1>1. Undecided(c)  BY DEF AuditInv, AuditOK, ClaimAudit
<1>2. AuditTruthful'  BY <1>1, AuditKept DEF AuditInv, AuditOK
<1>3. Undecided(c)'  BY <1>1 DEF Undecided, NoNewEvent
<1>4. ClaimAudit'  BY <1>3 DEF ClaimAudit, Undecided
<1> QED BY <1>2, <1>4 DEF AuditOK

(* Nothing is executed after the step, and no row has changed.               *)
LEMMA AuditLeaves ==
  ASSUME AuditInv, NoNewEvent, UNCHANGED <<status, attempts, cancelReq, archive>>,
         pc' \notin Executing \union {"recording"}
  PROVE  AuditOK'
<1>1. AuditTruthful'  BY AuditKept DEF AuditInv, AuditOK
<1>2. ClaimAudit'  BY DEF ClaimAudit
<1> QED BY <1>1, <1>2 DEF AuditOK

LEMMA AuditSettled ==
  ASSUME AuditInv, pc \in Executing,
         \/ cancelReq[claim] /\ MarkCancelled
         \/ MarkNonretryableFailure \/ RetryOrFail
  PROVE  AuditOK'
<1>1. PICK c \in Runs : c = claim  BY ClaimIsRun DEF AuditInv, Executing
<1>2. /\ claim' = c /\ pc' = "recording" /\ audit' = audit /\ UNCHANGED <<attempts, cancelReq>>
      /\ Undecided(c)
  BY <1>1 DEF MarkCancelled, MarkNonretryableFailure, RetryOrFail, ExhaustRetries,
              ScheduleRetry, Settle, AuditInv, AuditOK, ClaimAudit
<1>3. Undecided(c)' /\ NoNewEvent  BY <1>2 DEF Undecided, NoNewEvent
<1>4. ASSUME NEW s, NEW e, Settle(s, e)
      PROVE  /\ status'[c] = s /\ event' = e
             /\ \A r \in Runs \ {c} : status'[r] = status[r]
  BY <1>1, <1>4 DEF Settle, AuditInv, EvidenceInv, Inv, TypeOK
<1>5. attempts[c] \in Nat /\ attempts[c] <= MaxAttempts
  BY DEF AuditInv, EvidenceInv, Inv, TypeOK, AttemptBudget
<1>6. CASE cancelReq[c] /\ MarkCancelled
  <2>1. AuditTruthful'
    BY <1>2, <1>3, <1>4, <1>6, AuditKept DEF AuditInv, AuditOK, MarkCancelled, evidenceVars
  <2>2. status'[c] = "interrupted" /\ event' = "run.cancelled" /\ cancelReq'[c]
    BY <1>2, <1>4, <1>6 DEF MarkCancelled
  <2>3. ClaimAudit'  BY <1>2, <1>3, <2>2 DEF ClaimAudit
  <2> QED BY <2>1, <2>3 DEF AuditOK
<1>7. CASE MarkNonretryableFailure
  <2>1. AuditTruthful'
    BY <1>2, <1>3, <1>4, <1>7, AuditKept DEF AuditInv, AuditOK, MarkNonretryableFailure, evidenceVars
  <2>2. status'[c] = "failed" /\ event' = "run.failed"
    BY <1>4, <1>7 DEF MarkNonretryableFailure
  <2>3. ClaimAudit'  BY <1>2, <1>3, <2>2 DEF ClaimAudit
  <2> QED BY <2>1, <2>3 DEF AuditOK
<1>8. CASE ExhaustRetries
  <2>1. AuditTruthful'
    BY <1>2, <1>3, <1>4, <1>8, AuditKept DEF AuditInv, AuditOK, ExhaustRetries, evidenceVars
  <2>2. status'[c] = "failed" /\ event' = "run.retry_exhausted"
    BY <1>4, <1>8 DEF ExhaustRetries
  <2>3. attempts'[c] = MaxAttempts
    BY <1>1, <1>2, <1>5, <1>8, ConstantsAssumption DEF ExhaustRetries, BudgetSpent
  <2>4. ClaimAudit'  BY <1>2, <1>3, <2>2, <2>3 DEF ClaimAudit
  <2> QED BY <2>1, <2>4 DEF AuditOK
<1>9. CASE ScheduleRetry
  <2>1. PICK new : archive' = [archive EXCEPT ![c] = @ \union {new}]
    BY <1>1, <1>9 DEF ScheduleRetry, RestartAttempt
  <2>2. \A r \in Runs : archive[r] # {} => archive'[r] # {}
    BY <2>1 DEF AuditInv, EvidenceInv, Inv, TypeOK
  <2>3. archive'[c] # {}  BY <2>1 DEF AuditInv, EvidenceInv, Inv, TypeOK
  <2>4. AuditTruthful'
    BY <1>2, <1>3, <1>4, <1>9, <2>2, AuditKept DEF AuditInv, AuditOK, ScheduleRetry
  <2>5. event' = "run.retry_scheduled"  BY <1>4, <1>9 DEF ScheduleRetry
  <2>6. ClaimAudit'  BY <1>2, <1>3, <2>3, <2>5 DEF ClaimAudit
  <2> QED BY <2>4, <2>6 DEF AuditOK
<1> QED BY <1>1, <1>6, <1>7, <1>8, <1>9 DEF RetryOrFail

LEMMA AuditWorker == AuditInv /\ Worker => AuditOK'
<1> SUFFICES ASSUME AuditInv, Worker PROVE AuditOK'  OBVIOUS
<1>0. pc \notin {"idle", "down"} => claim \in Runs  BY ClaimIsRun DEF AuditInv
<1>n. audit' = audit => NoNewEvent  BY DEF NoNewEvent
<1>s. ASSUME NEW c, NEW s, status' = [status EXCEPT ![c] = s]
      PROVE  \A r \in Runs \ {c} : status'[r] = status[r]
  BY <1>s DEF AuditInv, EvidenceInv, Inv, TypeOK
<1> USE DEF rowVars, evidenceVars, workerVars, apiVars, At
<1>1. CASE Poll  BY <1>1, <1>n, AuditBeside DEF Poll, vars
<1>2. CASE ClaimRead  BY <1>2, <1>n, AuditLeaves DEF ClaimRead, Executing
<1>3. CASE ClaimCommit
  <2>1. PICK c \in Runs : c = claim  BY <1>0, <1>3 DEF ClaimCommit
  <2>2. /\ status[c] = "queued" /\ claim' = c /\ pc' = "claim_done" /\ audit' = audit
        /\ \A r \in Runs \ {c} : status'[r] = status[r] /\ attempts'[r] = attempts[r]
        /\ UNCHANGED <<archive, cancelReq>>
    BY <1>3, <2>1 DEF ClaimCommit, TakeClaim, Due, AuditInv, EvidenceInv, Inv, TypeOK
  <2>3. Undecided(c)  BY <2>2, OpenIsUndecided DEF AuditInv, AuditOK
  <2>4. AuditTruthful'  BY <1>n, <2>2, <2>3, AuditKept DEF AuditInv, AuditOK
  <2>5. ClaimAudit'  BY <2>2, <2>3 DEF ClaimAudit, Undecided
  <2> QED BY <2>4, <2>5 DEF AuditOK
<1>4. CASE ClaimLost
  BY <1>4, <1>n, AuditLeaves DEF ClaimLost, Release, Executing
<1>5. CASE ClaimRecorded
  <2>1. NoNewEvent  BY <1>5 DEF ClaimRecorded, NoNewEvent, Entry, FinalEvents
  <2>2. PICK c \in Runs : c = claim  BY <1>0, <1>5 DEF ClaimRecorded
  <2>3. /\ pc = "claim_done" /\ pc' # "recording" /\ (pc' \in Executing => claim' = c)
        /\ UNCHANGED <<status, attempts, cancelReq, archive>>
    BY <1>5, <2>2 DEF ClaimRecorded, Release, Executing
  <2> QED BY <2>1, <2>2, <2>3, AuditAdvances DEF Executing
<1>6. CASE CancelBeforeStart  BY <1>6, AuditSettled DEF CancelBeforeStart, Executing
<1>7. ASSUME pc \in Executing, claim' = claim, pc' # "recording",
             UNCHANGED <<attempts, cancelReq, archive, audit>>,
             status' = status \/ \E s : status' = [status EXCEPT ![claim] = s]
      PROVE  AuditOK'
  BY <1>0, <1>n, <1>s, <1>7, AuditAdvances DEF Executing
<1>8. CASE BuildRunner \/ BuildFails \/ GenerateBatch \/ NextBatch \/ RecordActivation
  BY <1>7, <1>8 DEF BuildRunner, BuildFails, GenerateBatch, NextBatch, RecordActivation, Executing
<1>9. CASE StartRunner
  <2>1. PICK s : s = IF ~Refused(claim) THEN "running"
                     ELSE IF status[claim] \in Terminal THEN status[claim] ELSE "failed"
    OBVIOUS
  <2>2. status' = [status EXCEPT ![claim] = s]  BY <1>9, <2>1 DEF StartRunner
  <2> QED BY <1>7, <1>9, <2>2 DEF StartRunner, Executing
<1>10. CASE CancelSeen  BY <1>7, <1>10 DEF CancelSeen, Executing
<1>11. CASE PersistBatch  BY <1>7, <1>11 DEF PersistBatch, Executing
<1>12. CASE CompleteRun  BY <1>7, <1>12 DEF CompleteRun, Complete, Executing
<1>13. CASE RunnerRaises  BY <1>7, <1>13 DEF RunnerRaises, Executing
<1>14. CASE AfterRaise  BY <1>14, AuditSettled DEF AfterRaise, Executing
<1>15. CASE AfterReturn
  <2>1. CASE ClearCompletedClaim
    BY <1>n, <2>1, AuditLeaves DEF ClearCompletedClaim, Release, Executing
  <2> QED BY <1>15, <2>1, AuditSettled DEF AfterReturn, Executing
<1>16. CASE RecordEvent
  <2>1. PICK c \in Runs : c = claim  BY <1>0, <1>16 DEF RecordEvent
  <2>2. /\ pc = "recording" /\ UNCHANGED <<status, attempts, cancelReq, archive>>
        /\ audit' \subseteq audit \union {<<event, c>>} /\ pc' \in {"idle", "down"}
    BY <1>16, <2>1 DEF RecordEvent, Release, Entry
  <2>3. \A r \in Runs, e \in FinalEvents \union {"run.retry_scheduled"} :
          <<e, r>> \in audit' => <<e, r>> \in audit \/ (e = event /\ r = c)
    BY <2>2
  <2>4. AuditTruthful'
    BY <2>1, <2>2, <2>3 DEF AuditInv, AuditOK, AuditTruthful, ClaimAudit, FinalEvents
  <2>5. ClaimAudit'  BY <2>2 DEF ClaimAudit, Executing
  <2> QED BY <2>4, <2>5 DEF AuditOK
<1> QED
  BY <1>1, <1>2, <1>3, <1>4, <1>5, <1>6, <1>8, <1>9, <1>10, <1>11, <1>12, <1>13, <1>14,
     <1>15, <1>16 DEF Worker

LEMMA AuditFaultsAndOutages == AuditInv /\ (WorkerFaults \/ Clock \/ Outage) => AuditOK'
<1> SUFFICES ASSUME AuditInv, WorkerFaults \/ Clock \/ Outage PROVE AuditOK'  OBVIOUS
<1>0. pc \notin {"idle", "down"} => claim \in Runs  BY ClaimIsRun DEF AuditInv
<1>n. audit' = audit => NoNewEvent  BY DEF NoNewEvent
<1> USE DEF rowVars, evidenceVars, workerVars, apiVars
<1>1. CASE WorkerFaults
  BY <1>1, <1>n, AuditLeaves
     DEF WorkerFaults, ClaimRecordFails, RecordEventFails, WorkerCommitFails, Release, Executing
<1>2. CASE Clock  BY <1>2, <1>n, AuditBeside DEF Clock, BackoffElapses
<1>3. CASE Stop
  <2>1. UNCHANGED <<attempts, cancelReq, archive, audit>>  BY <1>3 DEF Stop
  <2>2. CASE pc \in {"claim_read", "claim_done"}
    BY <1>3, <1>n, <2>1, <2>2, AuditBeside DEF Stop
  <2>3. CASE pc \in {"generating", "persisting", "persisted"}
    <3>1. PICK c \in Runs : c = claim  BY <1>0, <2>3
    <3>2. \A r \in Runs \ {c} : status'[r] = status[r]
      BY <1>3, <2>3, <3>1 DEF Stop, AuditInv, EvidenceInv, Inv, TypeOK
    <3>3. pc' # "recording" /\ (pc' \in Executing => claim' = c)
      BY <1>3, <2>3, <3>1 DEF Stop, Executing
    <3> QED BY <1>n, <2>1, <2>3, <3>1, <3>2, <3>3, AuditAdvances DEF Executing
  <2>4. CASE pc \notin {"claim_read", "claim_done", "generating", "persisting", "persisted"}
    BY <1>3, <1>n, <2>1, <2>4, AuditLeaves DEF Stop, Executing
  <2> QED BY <2>2, <2>3, <2>4
<1>4. CASE DrainWriter  BY <1>4, <1>n, AuditLeaves DEF DrainWriter, Executing
<1>5. CASE Crash  BY <1>5, <1>n, AuditLeaves DEF Crash, Executing
<1>6. CASE Restart
  <2>1. /\ \A r \in Runs : status'[r] = status[r] \/ status[r] = "running"
        /\ UNCHANGED <<attempts, cancelReq, archive, audit>> /\ pc' = "idle"
    BY <1>6 DEF Restart, Reconcile, Reconciled
  <2>2. AuditTruthful'  BY <1>n, <2>1, AuditKept, OpenIsUndecided DEF AuditInv, AuditOK
  <2>3. ClaimAudit'  BY <2>1 DEF ClaimAudit, Executing
  <2> QED BY <2>2, <2>3 DEF AuditOK
<1> QED BY <1>1, <1>2, <1>3, <1>4, <1>5, <1>6 DEF Outage

(* What the worker records of a run stays true of it: nothing revives a run  *)
(* whose cancellation, failure or exhaustion is in the audit trail.          *)
THEOREM AuditIsTruthful == Spec => []AuditTruthful
<1>1. Init => AuditInv
  <2> SUFFICES ASSUME Init PROVE AuditInv  OBVIOUS
  <2>1. audit = {} /\ pc = "idle"  BY DEF Init
  <2> QED BY <2>1, EvidenceInit DEF AuditInv, AuditOK, AuditTruthful, ClaimAudit, Executing
<1>2. AuditInv /\ [Next]_vars => AuditInv'
  <2> SUFFICES ASSUME AuditInv, [Next]_vars PROVE AuditInv'  OBVIOUS
  <2>1. EvidenceInv'  BY EvidenceStep DEF AuditInv
  <2>2. CASE UNCHANGED vars
    <3>1. NoNewEvent  BY <2>2 DEF vars, NoNewEvent
    <3>2. AuditOK'
      BY <2>2, <3>1, AuditBeside DEF vars, rowVars, evidenceVars, workerVars, apiVars
    <3> QED BY <2>1, <3>2 DEF AuditInv
  <2>3. CASE Next
    BY <2>1, <2>3, AuditApi, AuditWorker, AuditFaultsAndOutages DEF Next, AuditInv
  <2> QED BY <2>2, <2>3
<1>3. AuditInv => AuditTruthful  BY DEF AuditInv, AuditOK
<1> QED BY <1>1, <1>2, <1>3, PTL DEF Spec

=============================================================================
