------------------------------- MODULE QueueWorker -------------------------------
(***************************************************************************)
(* The persistent evaluation queue: run rows in the database, the single   *)
(* in-process worker that claims and executes them, the API handlers that  *)
(* submit, cancel, retry and baseline runs, graceful stop, process crash   *)
(* and startup reconciliation.                                             *)
(*                                                                         *)
(* Grain of atomicity.  One asyncio loop runs the worker coroutine and the *)
(* cancel handler: code between two awaits excludes all other loop code    *)
(* but not the threads (claim_next, retry_now, mark_baseline, the batch    *)
(* writer).  Every database commit is a step of its own, and a handler     *)
(* that reads a row before it writes it is two steps, so that a thread's   *)
(* commit can fall between them.                                           *)
(*                                                                         *)
(* evaluation_runs and pairwise_runs share this protocol line by line; a   *)
(* run's kind is abstracted.  A run id is its rank in created_at order.    *)
(* A batch stands for the result rows that one transaction persists.       *)
(***************************************************************************)
EXTENDS Integers, FiniteSets

CONSTANTS
  MaxRuns,      (* bound: run rows that can exist, retry children included  *)
  MaxAttempts,  (* the max_attempts column (3 by default)                   *)
  NumBatches,   (* result batches of a dataset                              *)
  Retriers,     (* threads that may be inside retry_now at the same time    *)
  Markers,      (* threads that may be inside mark_baseline                 *)
  MaxOutages,   (* bound: stops and crashes of the process                  *)
  Faults,       (* which of FaultKinds may occur                            *)
  Audited       (* bound: the audit actions that the model keeps; no code   *)
                (* reads audit_events back                                  *)

(* "bookkeeping": an audit or heartbeat write fails after the commit it      *)
(* follows; "db": a commit of the worker or runner itself fails; "stop",     *)
(* "crash": the process is shut down or dies.                                *)
FaultKinds == {"bookkeeping", "db", "stop", "crash"}

WorkerEvents == {"run.claimed", "run.cancelled", "run.failed",
                 "run.retry_scheduled", "run.retry_exhausted"}
ApiEvents == {"run.cancellation_requested", "run.retry_requested"}

ASSUME ConstantsAssumption ==
  /\ MaxRuns \in Nat
  /\ MaxAttempts \in Nat \ {0}
  /\ NumBatches \in Nat \ {0}
  /\ MaxOutages \in Nat
  /\ Faults \subseteq FaultKinds
  /\ Audited \subseteq WorkerEvents \union ApiEvents

Runs == 1..MaxRuns
NoRun == 0

Terminal == {"completed", "failed", "interrupted"}
Status == {"absent", "queued", "running"} \union Terminal

(* A persisted batch: the attempt that produced it, its position, and        *)
(* whether every row in it is a transient provider error.                    *)
Result == [attempt : Nat, batch : Nat, outcome : {"transient", "other"}]

(* A handler between its read of a row and its write: the row and the status *)
(* it saw.                                                                   *)
NoRead == [run |-> NoRun, seen |-> "absent"]
Read == [run : Runs \union {NoRun}, seen : Status]

(* Where the worker coroutine is.  At an AwaitPoint the loop is free to run  *)
(* the cancel handler; elsewhere the coroutine runs without yielding.        *)
AwaitPoints == {"idle", "claim_read", "claim_done", "ready", "building",
                "generating", "persisting", "persisted"}
SyncPoints == {"completed", "returned", "raised_transient", "raised_fatal", "recording"}
OffPoints == {"draining", "down"}

VARIABLES
  status, attempts, nextAt, cancelReq, parent, baseline,  \* columns of a run row
  results, archive,                                  \* active result rows, run_attempt_archives
  audit,                                             \* audit_events
  pc, claim, batch, inflight, event, stopping,       \* the worker task
  cancelling, retrying, marking, auditing,           \* API handlers in progress
  outages                                            \* stops and crashes so far

rowVars == <<status, attempts, nextAt, cancelReq, parent, baseline>>
evidenceVars == <<results, archive>>
workerVars == <<pc, claim, batch, inflight, event, stopping>>
apiVars == <<cancelling, retrying, marking, auditing>>
vars == <<rowVars, evidenceVars, audit, workerVars, apiVars, outages>>

TypeOK ==
  /\ status \in [Runs -> Status]
  /\ attempts \in [Runs -> Nat]
  /\ nextAt \in [Runs -> {"due", "later"}]
  /\ cancelReq \in [Runs -> BOOLEAN]
  /\ parent \in [Runs -> Runs \union {NoRun}]
  /\ baseline \in [Runs -> BOOLEAN]
  /\ results \in [Runs -> SUBSET Result]
  /\ archive \in [Runs -> SUBSET [attempt : Nat, rows : SUBSET Result]]
  /\ audit \subseteq (WorkerEvents \union ApiEvents) \X Runs
  /\ pc \in AwaitPoints \union SyncPoints \union OffPoints
  /\ claim \in Runs \union {NoRun}
  /\ claim = NoRun => pc \in {"idle", "down"}
  /\ batch \in 0..NumBatches
  /\ inflight \in {"none", "transient", "other"}
  /\ pc \in {"persisting", "draining"} => inflight # "none"
  /\ event \in WorkerEvents \union {"none"}
  /\ stopping \in BOOLEAN
  /\ cancelling \in Read
  /\ retrying \in [Retriers -> Read]
  /\ marking \in [Markers -> Runs \union {NoRun}]
  /\ auditing \subseteq ApiEvents \X Runs
  /\ outages \in 0..MaxOutages

Init ==
  /\ status = [r \in Runs |-> "absent"]
  /\ attempts = [r \in Runs |-> 0]
  /\ nextAt = [r \in Runs |-> "due"]
  /\ cancelReq = [r \in Runs |-> FALSE]
  /\ parent = [r \in Runs |-> NoRun]
  /\ baseline = [r \in Runs |-> FALSE]
  /\ results = [r \in Runs |-> {}]
  /\ archive = [r \in Runs |-> {}]
  /\ audit = {}
  /\ pc = "idle" /\ claim = NoRun /\ batch = 0 /\ inflight = "none"
  /\ event = "none" /\ stopping = FALSE
  /\ cancelling = NoRead
  /\ retrying = [t \in Retriers |-> NoRead]
  /\ marking = [m \in Markers |-> NoRun]
  /\ auditing = {}
  /\ outages = 0

-----------------------------------------------------------------------------
(* Predicates the steps share.                                               *)

(* _due_query.  "later" is a next_attempt_at after the `now` of the          *)
(* claim in progress, or after the clock; "due" is an earlier one or none.   *)
Due(r) == status[r] = "queued" /\ ~cancelReq[r] /\ nextAt[r] = "due"

(* No run with a smaller created_at is due.                                  *)
Oldest(r) == Due(r) /\ \A q \in Runs : Due(q) => r <= q

(* The id a new row gets: ids are handed out in created_at order.            *)
NewId(r) == status[r] = "absent" /\ \A q \in Runs : status[q] = "absent" => r <= q

(* The process serves requests until a stop begins or it dies.               *)
Alive == pc \notin OffPoints /\ ~stopping
LoopFree == cancelling = NoRead

(* _all_results_are_transient                                                *)
AllTransient(r) ==
  /\ results[r] # {}
  /\ \A x \in results[r] : x.outcome = "transient"

(* The worker holds r: its execution of r has not made its last commit.      *)
Held(r) == claim = r /\ pc \notin {"idle", "claim_read", "recording", "draining", "down"}

(* The audit records that appending event e of run r adds to the model.      *)
Entry(e, r) == {<<e, r>>} \intersect (Audited \X Runs)

-----------------------------------------------------------------------------
(* The API.                                                                  *)

(* POST /runs, and the schedule dispatcher: create_run inserts a queued row. *)
Submit ==
  /\ Alive
  /\ \E r \in Runs :
       /\ NewId(r)
       /\ status' = [status EXCEPT ![r] = "queued"]
  /\ UNCHANGED <<attempts, nextAt, cancelReq, parent, baseline,
                 evidenceVars, audit, workerVars, apiVars, outages>>

(* cancel_run blocks the loop from its SELECT to its commit.                 *)
CancelRead(r) ==
  /\ Alive /\ pc \in AwaitPoints /\ LoopFree
  /\ status[r] \in {"queued", "running"}
  /\ cancelling' = [run |-> r, seen |-> status[r]]
  /\ UNCHANGED <<rowVars, evidenceVars, audit, workerVars, retrying, marking, auditing, outages>>

(* The UPDATE names the columns the handler changed and is unconditional: a  *)
(* claim committed since CancelRead is overwritten.                          *)
CancelWrite ==
  /\ ~LoopFree
  /\ LET r == cancelling.run IN
       /\ cancelReq' = [cancelReq EXCEPT ![r] = TRUE]
       /\ status' = IF cancelling.seen = "queued"
                    THEN [status EXCEPT ![r] = "interrupted"] ELSE status
       /\ auditing' = auditing \union Entry("run.cancellation_requested", r)
  /\ cancelling' = NoRead
  /\ UNCHANGED <<attempts, nextAt, parent, baseline, evidenceVars, audit,
                 workerVars, retrying, marking, outages>>

(* retry_now, in a thread: check the status ...                              *)
RetryRead(t, r) ==
  /\ Alive
  /\ retrying[t] = NoRead
  /\ status[r] \in {"queued", "failed", "interrupted"}
  /\ retrying' = [retrying EXCEPT ![t] = [run |-> r, seen |-> status[r]]]
  /\ UNCHANGED <<rowVars, evidenceVars, audit, workerVars, cancelling, marking, auditing, outages>>

(* ... then accelerate a run seen queued: of the columns assigned, only      *)
(* next_attempt_at differs from what was loaded, so only it is written.      *)
Accelerate(t) ==
  /\ retrying[t].seen = "queued"
  /\ nextAt' = [nextAt EXCEPT ![retrying[t].run] = "later"]
  /\ auditing' = auditing \union Entry("run.retry_requested", retrying[t].run)
  /\ retrying' = [retrying EXCEPT ![t] = NoRead]
  /\ UNCHANGED <<status, attempts, cancelReq, parent, baseline, evidenceVars,
                 audit, workerVars, cancelling, marking, outages>>

(* Mutation: the settled row itself goes back into the queue.                *)
RetryInPlace(t) ==
  /\ retrying[t].seen \in {"failed", "interrupted"}
  /\ status' = [status EXCEPT ![retrying[t].run] = "queued"]
  /\ cancelReq' = [cancelReq EXCEPT ![retrying[t].run] = FALSE]
  /\ retrying' = [retrying EXCEPT ![t] = NoRead]
  /\ UNCHANGED <<attempts, nextAt, parent, baseline, evidenceVars, audit,
                 workerVars, cancelling, marking, auditing, outages>>

(* ... or insert a child that copies the configuration of a settled parent.  *)
InsertRetry(t) ==
  /\ retrying[t].seen \in {"failed", "interrupted"}
  /\ \E c \in Runs :
       /\ NewId(c)
       /\ status' = [status EXCEPT ![c] = "queued"]
       /\ nextAt' = [nextAt EXCEPT ![c] = "later"]
       /\ parent' = [parent EXCEPT ![c] = retrying[t].run]
       /\ auditing' = auditing \union Entry("run.retry_requested", c)
  /\ retrying' = [retrying EXCEPT ![t] = NoRead]
  /\ UNCHANGED <<attempts, cancelReq, baseline, evidenceVars, audit,
                 workerVars, cancelling, marking, outages>>

(* BaselineService.mark_baseline, in a thread: only a completed run ...      *)
BaselineRead(m, r) ==
  /\ Alive /\ marking[m] = NoRun
  /\ status[r] = "completed" /\ ~baseline[r]
  /\ marking' = [marking EXCEPT ![m] = r]
  /\ UNCHANGED <<rowVars, evidenceVars, audit, workerVars, cancelling, retrying, auditing, outages>>

(* ... is marked, by an UPDATE of is_baseline alone.                         *)
BaselineWrite(m) ==
  /\ marking[m] # NoRun
  /\ baseline' = [baseline EXCEPT ![marking[m]] = TRUE]
  /\ marking' = [marking EXCEPT ![m] = NoRun]
  /\ UNCHANGED <<status, attempts, nextAt, cancelReq, parent, evidenceVars,
                 audit, workerVars, cancelling, retrying, auditing, outages>>

(* The audit write that follows a handler's commit, in its own transaction.  *)
RecordApiEvent(e) ==
  /\ e \in auditing
  /\ audit' = audit \union {e}
  /\ auditing' = auditing \ {e}
  /\ UNCHANGED <<rowVars, evidenceVars, workerVars, cancelling, retrying, marking, outages>>

Api ==
  \/ Submit
  \/ \E r \in Runs : CancelRead(r)
  \/ CancelWrite
  \/ \E t \in Retriers, r \in Runs : RetryRead(t, r)
  \/ \E t \in Retriers : Accelerate(t) \/ InsertRetry(t)
  \/ \E m \in Markers : BaselineWrite(m) \/ \E r \in Runs : BaselineRead(m, r)
  \/ \E e \in ApiEvents \X Runs : RecordApiEvent(e)

-----------------------------------------------------------------------------
(* The worker: claiming.                                                     *)

(* Nothing is due: run_once returns False and the loop sleeps.               *)
Poll == pc = "idle" /\ (\A r \in Runs : ~Due(r)) /\ UNCHANGED vars

(* claim_next runs in a thread: it selects the oldest due row ...            *)
ClaimRead ==
  /\ pc = "idle"
  /\ \E r \in Runs : Oldest(r) /\ claim' = r
  /\ pc' = "claim_read"
  /\ UNCHANGED <<rowVars, evidenceVars, audit, batch, inflight, event, stopping, apiVars, outages>>

(* Where the worker goes when it lets go of a run.                           *)
Release ==
  /\ claim' = NoRun
  /\ pc' = IF stopping THEN "down" ELSE "idle"
  /\ stopping' = FALSE
  /\ batch' = 0 /\ inflight' = "none" /\ event' = "none"

TakeClaim ==
  /\ status' = [status EXCEPT ![claim] = "running"]
  /\ attempts' = [attempts EXCEPT ![claim] = @ + 1]
  /\ pc' = "claim_done"
  /\ UNCHANGED <<nextAt, cancelReq, parent, baseline, evidenceVars, audit,
                 claim, batch, inflight, event, stopping, apiVars, outages>>

(* Mutation: the UPDATE filters on the id alone.                             *)
ClaimCommitUnconditional == pc = "claim_read" /\ TakeClaim

(* ... and the conditional UPDATE repeats the predicate.                     *)
ClaimCommit == pc = "claim_read" /\ Due(claim) /\ TakeClaim

(* Another commit came first: no row matched, rollback.  The coroutine learns *)
(* of it when the loop is free.                                              *)
ClaimLost ==
  /\ pc = "claim_read" /\ ~Due(claim) /\ LoopFree
  /\ Release
  /\ UNCHANGED <<rowVars, evidenceVars, audit, apiVars, outages>>

(* The audit row and the heartbeat that follow the claim.  When the task was *)
(* cancelled meanwhile nobody receives the claim and the row stays running.  *)
ClaimRecorded ==
  /\ pc = "claim_done"
  /\ audit' = audit \union Entry("run.claimed", claim)
  /\ IF stopping THEN Release
     ELSE pc' = "ready" /\ UNCHANGED <<claim, batch, inflight, event, stopping>>
  /\ UNCHANGED <<rowVars, evidenceVars, apiVars, outages>>

(* Either of them raises: _loop swallows the error, the row stays running.   *)
ClaimRecordFails ==
  /\ "bookkeeping" \in Faults
  /\ pc = "claim_done" /\ LoopFree
  /\ Release
  /\ UNCHANGED <<rowVars, evidenceVars, audit, apiVars, outages>>

-----------------------------------------------------------------------------
(* The worker: what it commits about the run it holds.  Each of these ends   *)
(* in "recording", where the audit event is still to be written.             *)

Settle(newStatus, e) ==
  /\ status' = [status EXCEPT ![claim] = newStatus]
  /\ event' = e
  /\ pc' = "recording"
  /\ UNCHANGED <<attempts, cancelReq, parent, baseline, audit,
                 claim, batch, inflight, stopping, apiVars, outages>>

MarkCancelled ==
  Settle("interrupted", "run.cancelled") /\ UNCHANGED <<nextAt, evidenceVars>>

MarkNonretryableFailure ==
  Settle("failed", "run.failed") /\ UNCHANGED <<nextAt, evidenceVars>>

(* Mutation: off by one.                                                     *)
BudgetSpentTooLate == attempts[claim] > MaxAttempts

BudgetSpent == attempts[claim] >= MaxAttempts

(* The attempt budget is spent: the evidence of the last attempt stays.      *)
ExhaustRetries ==
  /\ BudgetSpent
  /\ Settle("failed", "run.retry_exhausted")
  /\ nextAt' = [nextAt EXCEPT ![claim] = "due"]
  /\ UNCHANGED evidenceVars

(* Mutation: the attempt's rows stay active when the run is requeued.        *)
RestartAttemptKeepingRows ==
  /\ archive' = [archive EXCEPT ![claim] = @ \union
                   {[attempt |-> attempts[claim], rows |-> results[claim]]}]
  /\ UNCHANGED results

(* Mutation: the attempt's rows are deleted before they are archived.        *)
RestartAttemptArchivingLast ==
  /\ archive' = [archive EXCEPT ![claim] = @ \union
                   {[attempt |-> attempts[claim], rows |-> {}]}]
  /\ results' = [results EXCEPT ![claim] = {}]

(* Mutation: the attempt's rows are discarded.                               *)
RestartAttemptDiscarding ==
  /\ UNCHANGED archive
  /\ results' = [results EXCEPT ![claim] = {}]

RestartAttempt ==
  /\ archive' = [archive EXCEPT ![claim] = @ \union
                   {[attempt |-> attempts[claim], rows |-> results[claim]]}]
  /\ results' = [results EXCEPT ![claim] = {}]

(* One transaction archives the attempt's rows, deletes them and requeues.   *)
ScheduleRetry ==
  /\ ~BudgetSpent
  /\ Settle("queued", "run.retry_scheduled")
  /\ nextAt' = [nextAt EXCEPT ![claim] = "later"]
  /\ RestartAttempt

(* Mutation: the cancellation is not looked at again.                        *)
RetryOrFailIgnoringCancel == ExhaustRetries \/ ScheduleRetry

RetryOrFail ==
  \/ cancelReq[claim] /\ MarkCancelled
  \/ ~cancelReq[claim] /\ (ExhaustRetries \/ ScheduleRetry)

ClearCompletedClaim ==
  /\ nextAt' = [nextAt EXCEPT ![claim] = "due"]
  /\ Release
  /\ UNCHANGED <<status, attempts, cancelReq, parent, baseline, evidenceVars, audit, apiVars, outages>>

(* The audit write after the commit, and the last heartbeat.                 *)
RecordEvent ==
  /\ pc = "recording"
  /\ audit' = audit \union Entry(event, claim)
  /\ Release
  /\ UNCHANGED <<rowVars, evidenceVars, apiVars, outages>>

RecordEventFails ==
  /\ "bookkeeping" \in Faults
  /\ pc = "recording"
  /\ Release
  /\ UNCHANGED <<rowVars, evidenceVars, audit, apiVars, outages>>

(* One of the worker's own commits raises; _loop swallows the error and      *)
(* polls on, the row is left as the last successful commit wrote it.         *)
WorkerCommitFails ==
  /\ "db" \in Faults
  /\ \/ pc = "ready" /\ cancelReq[claim] /\ LoopFree
     \/ pc \in {"returned", "raised_transient", "raised_fatal"}
  /\ Release
  /\ UNCHANGED <<rowVars, evidenceVars, audit, apiVars, outages>>

-----------------------------------------------------------------------------
(* The worker: executing the claim (_execute_claim and the runner).          *)

At(from, to) ==
  /\ pc = from
  /\ pc' = to
  /\ UNCHANGED <<claim, event, stopping>>

(* A cancellation that arrived before execution.                             *)
CancelBeforeStart == pc = "ready" /\ LoopFree /\ cancelReq[claim] /\ MarkCancelled

(* Otherwise the runner is built from the stored configuration in a thread.  *)
BuildRunner ==
  /\ At("ready", "building")
  /\ LoopFree /\ ~cancelReq[claim]
  /\ UNCHANGED <<rowVars, evidenceVars, audit, batch, inflight, apiVars, outages>>

(* An exception before the runner's own try block leaves the row as it is:   *)
(* no provider connection, no dataset reference, or a terminal run.          *)
BuildFails ==
  /\ LoopFree
  /\ \E kind \in {"raised_transient", "raised_fatal"} : At("building", kind)
  /\ UNCHANGED <<rowVars, evidenceVars, audit, batch, inflight, apiVars, outages>>

(* create_run refuses a terminal row, _execute_evaluation one with results.  *)
Refused(r) == status[r] \notin {"queued", "running"} \/ results[r] # {}

StartRunner ==
  /\ pc = "building" /\ LoopFree /\ ~cancelReq[claim]
  /\ At("building", IF Refused(claim) THEN "raised_fatal" ELSE "generating")
  /\ status' = [status EXCEPT ![claim] =
                  IF ~Refused(claim) THEN "running" ELSE IF @ \in Terminal THEN @ ELSE "failed"]
  /\ batch' = 1
  /\ UNCHANGED <<attempts, nextAt, cancelReq, parent, baseline, evidenceVars,
                 audit, inflight, apiVars, outages>>

(* raise_if_cancelled, before the first batch, in an example of the current  *)
(* batch, or between two batches: the runner marks the run and returns.      *)
CancelSeen ==
  /\ \E p \in {"building", "generating", "persisted"} : At(p, "returned")
  /\ LoopFree /\ cancelReq[claim]
  /\ status' = [status EXCEPT ![claim] = "interrupted"]
  /\ inflight' = "none"
  /\ UNCHANGED <<attempts, nextAt, cancelReq, parent, baseline, evidenceVars,
                 audit, batch, apiVars, outages>>

(* Every example of the batch finished; the batch goes to the writer thread. *)
(* Provider and judge errors are outcomes of rows, not exceptions.           *)
GenerateBatch ==
  /\ LoopFree
  /\ At("generating", "persisting")
  /\ inflight' \in {"transient", "other"}
  /\ UNCHANGED <<rowVars, evidenceVars, audit, batch, apiVars, outages>>

BatchRow == [attempt |-> attempts[claim], batch |-> batch, outcome |-> inflight]
WriteBatch == results' = [results EXCEPT ![claim] = @ \union {BatchRow}]

PersistBatch ==
  /\ At("persisting", "persisted")
  /\ WriteBatch
  /\ inflight' = "none"
  /\ UNCHANGED <<rowVars, archive, audit, batch, apiVars, outages>>

(* Mutation: one batch too many.                                             *)
NextBatchTooMany ==
  /\ At("persisted", "generating")
  /\ LoopFree /\ ~cancelReq[claim]
  /\ batch' = batch + 1
  /\ UNCHANGED <<rowVars, evidenceVars, audit, inflight, apiVars, outages>>

NextBatch ==
  /\ At("persisted", "generating")
  /\ LoopFree /\ ~cancelReq[claim] /\ batch < NumBatches
  /\ batch' = batch + 1
  /\ UNCHANGED <<rowVars, evidenceVars, audit, inflight, apiVars, outages>>

Complete ==
  /\ At("persisted", "completed")
  /\ status' = [status EXCEPT ![claim] = "completed"]
  /\ UNCHANGED <<attempts, nextAt, cancelReq, parent, baseline, evidenceVars,
                 audit, batch, inflight, apiVars, outages>>

(* Mutation: the loop over the batches stops early.                          *)
CompleteRunEarly == LoopFree /\ Complete

(* After the last batch there is no cancellation check.                      *)
CompleteRun == LoopFree /\ batch = NumBatches /\ Complete

(* The activation milestone, still inside the runner's try block.            *)
RecordActivation ==
  /\ At("completed", "returned")
  /\ UNCHANGED <<rowVars, evidenceVars, audit, batch, inflight, apiVars, outages>>

(* Any other exception inside the runner: a contract or snapshot mismatch    *)
(* while it sets up, the batch writer, the completion commit, the activation *)
(* write.  The row is marked failed (unless that commit raises too) before   *)
(* the worker classifies the error.  The writer's connection may break after *)
(* the database has committed the batch.                                     *)
RunnerRaises ==
  /\ LoopFree
  /\ \E from \in {"building", "persisting", "persisted", "completed"},
        kind \in {"raised_transient", "raised_fatal"} : At(from, kind)
  /\ pc = "building" => ~cancelReq[claim]
  /\ \/ status' = [status EXCEPT ![claim] = "failed"]
     \/ "db" \in Faults /\ status' = status
  /\ \/ results' = results
     \/ pc = "persisting" /\ WriteBatch
  /\ inflight' = "none"
  /\ UNCHANGED <<attempts, nextAt, cancelReq, parent, baseline, archive,
                 audit, batch, apiVars, outages>>

(* The except clauses of _execute_claim.                                     *)
AfterRaise ==
  \/ pc = "raised_transient" /\ RetryOrFail
  \/ pc = "raised_fatal" /\ MarkNonretryableFailure

(* Mutation: the cancellation is not looked at after the runner.             *)
AfterReturnIgnoringCancel ==
  /\ pc = "returned"
  /\ IF AllTransient(claim) THEN RetryOrFail ELSE ClearCompletedClaim

(* What _execute_claim does when the runner returned.                        *)
AfterReturn ==
  /\ pc = "returned"
  /\ \/ cancelReq[claim] /\ MarkCancelled
     \/ ~cancelReq[claim] /\ AllTransient(claim) /\ RetryOrFail
     \/ ~cancelReq[claim] /\ ~AllTransient(claim) /\ ClearCompletedClaim

Worker ==
  \/ Poll \/ ClaimRead \/ ClaimCommit \/ ClaimLost \/ ClaimRecorded
  \/ CancelBeforeStart \/ BuildRunner \/ BuildFails \/ StartRunner \/ CancelSeen
  \/ GenerateBatch \/ PersistBatch \/ NextBatch \/ CompleteRun \/ RecordActivation
  \/ RunnerRaises \/ AfterRaise \/ AfterReturn \/ RecordEvent

WorkerFaults == ClaimRecordFails \/ RecordEventFails \/ WorkerCommitFails

-----------------------------------------------------------------------------
(* Time, shutdown, crash and restart.                                        *)

(* The clock passes next_attempt_at.  A claim in progress compares with the  *)
(* `now` it has already read.                                                *)
BackoffElapses(r) ==
  /\ nextAt[r] = "later"
  /\ pc # "claim_read"
  /\ nextAt' = [nextAt EXCEPT ![r] = "due"]
  /\ UNCHANGED <<status, attempts, cancelReq, parent, baseline, evidenceVars,
                 audit, workerVars, apiVars, outages>>

(* QueueWorker.stop, after the server has drained its requests: the task is  *)
(* cancelled at the await it is in.  A claim thread runs on (stopping); the  *)
(* runner marks its run interrupted, a batch writer runs on (draining).      *)
Stop ==
  /\ "stop" \in Faults /\ outages < MaxOutages
  /\ Alive /\ pc \in AwaitPoints
  /\ LoopFree /\ auditing = {}
  /\ \A t \in Retriers : retrying[t] = NoRead
  /\ \A m \in Markers : marking[m] = NoRun
  /\ IF pc \in {"claim_read", "claim_done"}
     THEN stopping' = TRUE /\ UNCHANGED <<pc, claim, batch, inflight, event>>
     ELSE IF pc = "persisting"
     THEN pc' = "draining" /\ UNCHANGED <<claim, batch, inflight, event, stopping>>
     ELSE /\ claim' = NoRun /\ pc' = "down" /\ batch' = 0 /\ inflight' = "none"
          /\ UNCHANGED <<event, stopping>>
  /\ status' = IF pc \in {"generating", "persisting", "persisted"}
               THEN [status EXCEPT ![claim] = "interrupted"] ELSE status
  /\ outages' = outages + 1
  /\ UNCHANGED <<attempts, nextAt, cancelReq, parent, baseline, evidenceVars, audit, apiVars>>

(* The abandoned writer thread commits its batch or fails; then the process  *)
(* exits.                                                                    *)
DrainWriter ==
  /\ pc = "draining"
  /\ WriteBatch \/ UNCHANGED results
  /\ claim' = NoRun /\ pc' = "down" /\ batch' = 0 /\ inflight' = "none"
  /\ UNCHANGED <<rowVars, archive, audit, event, stopping, apiVars, outages>>

(* The process dies: rows keep their last commit, everything else is lost.   *)
Crash ==
  /\ "crash" \in Faults /\ outages < MaxOutages
  /\ pc # "down"
  /\ pc' = "down" /\ claim' = NoRun /\ batch' = 0 /\ inflight' = "none"
  /\ event' = "none" /\ stopping' = FALSE
  /\ cancelling' = NoRead /\ retrying' = [t \in Retriers |-> NoRead]
  /\ marking' = [m \in Markers |-> NoRun] /\ auditing' = {}
  /\ outages' = outages + 1
  /\ UNCHANGED <<rowVars, evidenceVars, audit>>

Reconciled(newStatus) ==
  status' = [r \in Runs |-> IF status[r] = "running" THEN newStatus ELSE status[r]]

(* Mutation: abandoned runs go back to the queue.                            *)
ReconcileRequeues == Reconciled("queued")

(* Mutation: no reconciliation.                                              *)
ReconcileNothing == UNCHANGED status

(* reconcile_abandoned_runs                                                  *)
Reconcile == Reconciled("interrupted")

(* startup: reconcile, then the worker starts polling.                       *)
Restart ==
  /\ pc = "down"
  /\ Reconcile
  /\ pc' = "idle"
  /\ UNCHANGED <<attempts, nextAt, cancelReq, parent, baseline, evidenceVars,
                 audit, claim, batch, inflight, event, stopping, apiVars, outages>>

Outage == Stop \/ DrainWriter \/ Crash \/ Restart
Clock == \E r \in Runs : BackoffElapses(r)

Next == Api \/ Worker \/ WorkerFaults \/ Clock \/ Outage

Spec == Init /\ [][Next]_vars

(* The event loop, its threads and the clock make progress, and a stopped    *)
(* process is started again.  Nothing obliges a user to call the API, but a  *)
(* handler that has begun finishes; faults and outages never have to happen. *)
Fairness ==
  /\ SF_vars(Worker)
  /\ WF_vars(CancelWrite)
  /\ WF_vars(DrainWriter \/ Restart)
  /\ \A t \in Retriers : WF_vars(Accelerate(t) \/ InsertRetry(t))
  /\ \A r \in Runs : WF_vars(BackoffElapses(r))

FairSpec == Spec /\ Fairness

-----------------------------------------------------------------------------
(* Safety.                                                                   *)

(* A run never executes more often than max_attempts, and one that waits in  *)
(* the queue has an attempt left, whatever sequence of claims, automatic     *)
(* requeues, manual retries and restarts led there (claim_next increments,   *)
(* _retry_or_fail compares, retry_now starts a child from zero).             *)
AttemptBudget ==
  \A r \in Runs :
    /\ attempts[r] <= MaxAttempts
    /\ status[r] = "queued" => attempts[r] < MaxAttempts

(* A run whose cancellation was requested is never put back into the queue:  *)
(* neither by the retry path of the worker nor by a retry_now that read the  *)
(* row before the cancellation.                                              *)
CancelledNotQueued ==
  \A r \in Runs : cancelReq[r] => status[r] # "queued"

(* The active rows of a run come from its current attempt only, one row set  *)
(* per batch, and a queued run has none: retries never mix results.          *)
AttemptsNeverMix ==
  \A r \in Runs :
    /\ \A x \in results[r] : x.attempt = attempts[r]
    /\ \A x, y \in results[r] : x.batch = y.batch => x = y
    /\ status[r] = "queued" => results[r] = {}

(* Each attempt that was restarted left exactly one archive with its own     *)
(* rows: every attempt before the current one is archived, the current one   *)
(* only once it was given back to the queue, and then nothing of it is still *)
(* active (archive, delete and requeue are one commit of _retry_or_fail).    *)
ArchivePerRestart ==
  \A r \in Runs :
    LET archived == {a.attempt : a \in archive[r]} IN
      /\ 1..(attempts[r] - 1) \subseteq archived /\ archived \subseteq 1..attempts[r]
      /\ status[r] = "queued" => archived = 1..attempts[r]
      /\ attempts[r] \in archived => results[r] = {}
      /\ \A a, b \in archive[r] : a.attempt = b.attempt => a = b
      /\ \A a \in archive[r] : \A x \in a.rows : x.attempt = a.attempt

(* create_run's terminal check and the runner's "already has results" check  *)
(* never hit a run the worker itself claimed.                                *)
ClaimNeverRefused ==
  pc = "building" => ~Refused(claim)

(* A completed run has a row set for every batch of its dataset, all from    *)
(* one attempt: no batch is skipped, lost by a late cancellation or left in  *)
(* an archive.                                                               *)
CompletedHasAllBatches ==
  \A r \in Runs :
    status[r] = "completed" => {x.batch : x \in results[r]} = 1..NumBatches

(* An audit event written after a commit is still true of the row: nothing   *)
(* revives a run whose cancellation, failure or exhaustion was recorded.     *)
AuditTruthful ==
  \A r \in Runs :
    /\ <<"run.cancelled", r>> \in audit => status[r] = "interrupted" /\ cancelReq[r]
    /\ <<"run.failed", r>> \in audit => status[r] = "failed"
    /\ <<"run.retry_exhausted", r>> \in audit => status[r] = "failed" /\ attempts[r] = MaxAttempts
    /\ <<"run.retry_scheduled", r>> \in audit => archive[r] # {}

(* Result rows are never lost: they stay active or move to an archive.       *)
Evidence(r) == results[r] \union UNION {a.rows : a \in archive[r]}
EvidenceKept ==
  [][\A r \in Runs : Evidence(r) \subseteq Evidence(r)']_vars

(* When neither bookkeeping nor a commit of the worker fails, a row that     *)
(* says running is being executed, or the process is down and the restart    *)
(* will interrupt it.                                                        *)
RunningIsHeld ==
  Faults \intersect {"bookkeeping", "db"} = {} =>
    \A r \in Runs : status[r] = "running" => Held(r) \/ pc = "down"

(* A run whose cancellation was accepted does not end up completed, although *)
(* the runner commits completed without looking at the request: the worker   *)
(* looks again before it lets go (unless it dies in between).                *)
CancelledNeverCompletes ==
  Faults \intersect {"db", "crash"} = {} =>
    \A r \in Runs : cancelReq[r] /\ status[r] = "completed" => Held(r)

-----------------------------------------------------------------------------
(* Liveness, under FairSpec.                                                 *)

(* An accepted cancellation settles the run.                                 *)
CancelSettles ==
  \A r \in Runs : cancelReq[r] ~> status[r] \in {"interrupted", "failed"}

(* Once users stop pressing retry on queued runs (each press moves           *)
(* next_attempt_at), every queued run is executed and settled.               *)
QueueDrains ==
  (\A t \in Retriers : <>[](retrying[t] = NoRead)) =>
    \A r \in Runs : status[r] = "queued" ~> status[r] \in Terminal

-----------------------------------------------------------------------------
(* Refinement: what a finished execution leaves behind is what RunLifecycle  *)
(* promises; the statuses the runner commits while the worker still holds    *)
(* the run are not final.                                                    *)
VisibleState(r) ==
  IF Held(r) THEN "running"
  ELSE IF status[r] = "running" THEN "stalled" ELSE status[r]

Lifecycle == INSTANCE RunLifecycle
  WITH state <- [r \in Runs |-> VisibleState(r)], tries <- attempts

(* The queue implements the run lifecycle.                                   *)
ImplementsLifecycle == Lifecycle!Spec

-----------------------------------------------------------------------------
(* What the repository says and the code does not do.                        *)

(* "Original manual run stays unchanged": the parent of a retry is and stays *)
(* failed or interrupted.                                                    *)
RetryParentSettled ==
  \A r \in Runs : parent[r] # NoRun => status[parent[r]] \in {"failed", "interrupted"}

=============================================================================
