-------------------------------- MODULE Schedules --------------------------------
(***************************************************************************)
(* Recurring evaluations: schedule rows, the history of their executions,  *)
(* the runs they create, and the dispatchers that look for due schedules.  *)
(*                                                                         *)
(* A dispatcher lists the due schedules in one transaction and triggers    *)
(* each of them in a transaction of its own: it reads the schedule row,    *)
(* does slow work (usage check, provider connections, runner), and commits *)
(* run, execution and next time together.  PostgreSQL locks the row from   *)
(* the read to the commit; SQLite ignores FOR UPDATE, and there only the   *)
(* primary key of the execution keeps two dispatchers apart.               *)
(*                                                                         *)
(* Time is counted in units smaller than a period.                         *)
(***************************************************************************)
EXTENDS Integers

CONSTANTS
  Schedules,    (* schedule ids                                              *)
  Dispatchers,  (* threads that may be inside trigger_due                    *)
  Period,       (* FREQUENCIES: the period of each schedule                  *)
  Locking,      (* the database honours SELECT ... FOR UPDATE                *)
  Horizon,      (* bound: last value of the clock                            *)
  MaxAborts     (* bound: passes that an exception or a crash ends early     *)

ASSUME SchedulesAssumption ==
  /\ Period \in [Schedules -> Nat \ {0}]
  /\ Locking \in BOOLEAN
  /\ Horizon \in Nat
  /\ MaxAborts \in Nat

VARIABLES
  clock,
  row,         \* a schedule row: not there yet, active, paused or purged
  next,        \* next_execution_at
  anchor,      \* history: the first next_execution_at
  executions,  \* schedule_executions
  runs,        \* ids of the runs created for an occurrence
  pc,          \* where each dispatcher is
  now,         \* the time its pass began
  todo,        \* due schedules it has listed, with the time they were due
  current,     \* the schedule it is triggering ...
  planned,     \* ... and the scheduled_for it has read
  aborts,
  purging,     \* schedules whose project a purge is deleting ...
  doomed       \* ... and the run ids it has read

scheduleVars == <<row, next, anchor>>
evidenceVars == <<executions, runs>>
dispatcherVars == <<pc, now, todo, current, planned>>
purgeVars == <<purging, doomed>>
vars == <<clock, scheduleVars, evidenceVars, dispatcherVars, aborts, purgeVars>>

(* The id of a run and of an execution: uuid5 of schedule and time.          *)
Occurrence == Schedules \X Nat
Execution == [schedule : Schedules, for : Nat, at : Nat,
              status : {"queued", "failed", "retained_data_deleted"}]

TypeOK ==
  /\ clock \in 0..Horizon
  /\ row \in [Schedules -> {"absent", "active", "paused", "purged"}]
  /\ next \in [Schedules -> Nat]
  /\ anchor \in [Schedules -> Nat]
  /\ executions \subseteq Execution
  /\ runs \subseteq Occurrence
  /\ pc \in [Dispatchers -> {"idle", "dispatching", "triggering"}]
  /\ now \in [Dispatchers -> 0..Horizon]
  /\ todo \in [Dispatchers -> SUBSET Occurrence]
  /\ current \in [Dispatchers -> Schedules \union {"none"}]
  /\ \A d \in Dispatchers : pc[d] = "triggering" => current[d] \in Schedules
  /\ planned \in [Dispatchers -> Nat]
  /\ aborts \in 0..MaxAborts
  /\ purging \subseteq Schedules
  /\ doomed \in [Schedules -> SUBSET Occurrence]

Init ==
  /\ clock = 0
  /\ row = [s \in Schedules |-> "absent"]
  /\ next = [s \in Schedules |-> 0]
  /\ anchor = [s \in Schedules |-> 0]
  /\ executions = {} /\ runs = {}
  /\ pc = [d \in Dispatchers |-> "idle"]
  /\ now = [d \in Dispatchers |-> 0]
  /\ todo = [d \in Dispatchers |-> {}]
  /\ current = [d \in Dispatchers |-> "none"]
  /\ planned = [d \in Dispatchers |-> 0]
  /\ aborts = 0
  /\ purging = {}
  /\ doomed = [s \in Schedules |-> {}]

Exists(s) == row[s] \in {"active", "paused"}
Due(s, time) == row[s] = "active" /\ next[s] <= time

(* A transaction that updates or deletes the row waits for its lock.         *)
Locked(s) == Locking /\ \E d \in Dispatchers : pc[d] = "triggering" /\ current[d] = s

IdOf(e) == <<e.schedule, e.for>>

(* The primary key of schedule_executions.                                   *)
Taken(s, time) == \E e \in executions : IdOf(e) = <<s, time>>

-----------------------------------------------------------------------------
(* The API, retention and the project purge.                                 *)

(* The first time is the caller's, in the past or the future, or now.        *)
Create(s) ==
  /\ row[s] = "absent"
  /\ row' = [row EXCEPT ![s] = "active"]
  /\ \E first \in 0..Horizon :
       next' = [next EXCEPT ![s] = first] /\ anchor' = [anchor EXCEPT ![s] = first]
  /\ UNCHANGED <<clock, evidenceVars, dispatcherVars, aborts, purgeVars>>

(* set_active writes the column active and nothing else.                     *)
SetActive(s) ==
  /\ Exists(s) /\ ~Locked(s)
  /\ row' = [row EXCEPT ![s] = IF @ = "active" THEN "paused" ELSE "active"]
  /\ UNCHANGED <<clock, next, anchor, evidenceVars, dispatcherVars, aborts, purgeVars>>

(* Content retention deletes an old terminal run and keeps its occurrence.   *)
RetainRun(e) ==
  /\ e.status = "queued"
  /\ executions' = (executions \ {e}) \union {[e EXCEPT !.status = "retained_data_deleted"]}
  /\ runs' = runs \ {IdOf(e)}
  /\ UNCHANGED <<clock, scheduleVars, dispatcherVars, aborts, purgeVars>>

(* The purge of the schedule's project locks the project row and lists the   *)
(* ids it will delete.  On SQLite these reads are outside any transaction.   *)
PurgeRead(s) ==
  /\ Exists(s) /\ s \notin purging
  /\ purging' = purging \union {s}
  /\ doomed' = [doomed EXCEPT ![s] = {o \in runs : o[1] = s}]
  /\ UNCHANGED <<clock, scheduleVars, evidenceVars, dispatcherVars, aborts>>

EndPurge(s) == purging' = purging \ {s} /\ doomed' = [doomed EXCEPT ![s] = {}]

(* It deletes the history, the schedule and the runs it has listed.          *)
PurgeCommit(s) ==
  /\ s \in purging /\ ~Locked(s)
  /\ row' = [row EXCEPT ![s] = "purged"]
  /\ executions' = {e \in executions : e.schedule # s}
  /\ runs' = runs \ doomed[s]
  /\ EndPurge(s)
  /\ UNCHANGED <<clock, next, anchor, dispatcherVars, aborts>>

(* A legal hold, a wrong name, a foreign key or a deadlock rolls it back.    *)
PurgeFails(s) ==
  /\ s \in purging
  /\ EndPurge(s)
  /\ UNCHANGED <<clock, scheduleVars, evidenceVars, dispatcherVars, aborts>>

(* The foreign key of a new run waits for the lock on the project row.       *)
RunRefused(s) == Locking /\ s \in purging

Api ==
  \/ \E s \in Schedules :
       Create(s) \/ SetActive(s) \/ PurgeRead(s) \/ PurgeCommit(s) \/ PurgeFails(s)
  \/ \E e \in executions : RetainRun(e)

-----------------------------------------------------------------------------
(* trigger_due.                                                              *)

(* Where a dispatcher goes when it is done with a schedule, or with a pass.  *)
Leave(d, to) ==
  /\ pc' = [pc EXCEPT ![d] = to]
  /\ current' = [current EXCEPT ![d] = "none"]
  /\ planned' = [planned EXCEPT ![d] = 0]

EndPass(d) ==
  /\ Leave(d, "idle")
  /\ now' = [now EXCEPT ![d] = 0]
  /\ todo' = [todo EXCEPT ![d] = {}]

(* One query lists the due schedules; without any the pass ends.             *)
ListNothing(d) ==
  /\ pc[d] = "idle"
  /\ \A s \in Schedules : ~Due(s, clock)
  /\ UNCHANGED vars

ListDue(d) ==
  /\ pc[d] = "idle"
  /\ \E s \in Schedules : Due(s, clock)
  /\ pc' = [pc EXCEPT ![d] = "dispatching"]
  /\ now' = [now EXCEPT ![d] = clock]
  /\ todo' = [todo EXCEPT ![d] = {o \in Schedules \X {next[s] : s \in Schedules} :
                                    Due(o[1], clock) /\ o[2] = next[o[1]]}]
  /\ UNCHANGED <<clock, scheduleVars, evidenceVars, current, planned, aborts, purgeVars>>

(* The listed schedules in the order of the time they were due.              *)
First(d, o) == o \in todo[d] /\ \A other \in todo[d] : o[2] <= other[2]

(* Mutation: the row is not checked again.                                   *)
StillDueUnchecked(d, s) == row[s] # "purged"

(* The row is read again: purged, paused or triggered since it was listed?   *)
StillDue(d, s) == Due(s, now[d])

(* _trigger_one up to the commit.                                            *)
OpenSchedule(d) ==
  /\ pc[d] = "dispatching"
  /\ \E o \in todo[d] :
       /\ First(d, o) /\ ~Locked(o[1])
       /\ todo' = [todo EXCEPT ![d] = @ \ {o}]
       /\ IF StillDue(d, o[1])
          THEN /\ pc' = [pc EXCEPT ![d] = "triggering"]
               /\ current' = [current EXCEPT ![d] = o[1]]
               /\ planned' = [planned EXCEPT ![d] = next[o[1]]]
          ELSE UNCHANGED <<pc, current, planned>>
  /\ UNCHANGED <<clock, scheduleVars, evidenceVars, now, aborts, purgeVars>>

(* Mutation: counted from the time of the pass.                              *)
NextAfterNow(from, period, time) == time + period

(* _next_after: the first time after the pass began, in whole periods.       *)
NextAfter(from, period, time) ==
  IF time < from THEN from ELSE from + period * ((time - from) \div period + 1)

(* Mutation: an occurrence that failed stays due.                            *)
CommitLeavingFailedDue(d, created) ==
  LET s == current[d] IN
    /\ executions' = executions \union
         {[schedule |-> s, for |-> planned[d], at |-> now[d],
           status |-> IF created THEN "queued" ELSE "failed"]}
    /\ runs' = IF created THEN runs \union {<<s, planned[d]>>} ELSE runs
    /\ next' = IF created THEN [next EXCEPT ![s] = NextAfter(planned[d], Period[s], now[d])]
               ELSE next

(* Writes of the transaction: the run if it could be created, the execution, *)
(* the next time.                                                            *)
CommitOccurrence(d, created) ==
  LET s == current[d] IN
    /\ executions' = executions \union
         {[schedule |-> s, for |-> planned[d], at |-> now[d],
           status |-> IF created THEN "queued" ELSE "failed"]}
    /\ runs' = IF created THEN runs \union {<<s, planned[d]>>} ELSE runs
    /\ next' = [next EXCEPT ![s] = NextAfter(planned[d], Period[s], now[d])]

(* Everything that fails before or inside the savepoint (no template, no     *)
(* capacity, no connection, create_run, a deadlock with a purge) is recorded  *)
(* as a failed occurrence.                                                   *)
Trigger(d) ==
  /\ pc[d] = "triggering"
  /\ Exists(current[d]) /\ ~Taken(current[d], planned[d])
  /\ \E created \in BOOLEAN :
       CommitOccurrence(d, created) /\ (created => ~RunRefused(current[d]))
  /\ Leave(d, "dispatching")
  /\ UNCHANGED <<clock, row, anchor, now, todo, aborts, purgeVars>>

(* Without a lock the row may be gone, or the occurrence inserted by another *)
(* dispatcher: the commit raises, and with it ends the whole pass.           *)
Conflict(d) ==
  /\ pc[d] = "triggering"
  /\ ~Exists(current[d]) \/ Taken(current[d], planned[d])
  /\ EndPass(d)
  /\ UNCHANGED <<clock, scheduleVars, evidenceVars, aborts, purgeVars>>

(* Mutation: the run is committed on its own, before the occurrence.         *)
AbortAfterRun(d) ==
  /\ aborts < MaxAborts
  /\ pc[d] # "idle"
  /\ aborts' = aborts + 1
  /\ EndPass(d)
  /\ runs' = IF pc[d] = "triggering" THEN runs \union {<<current[d], planned[d]>>} ELSE runs
  /\ UNCHANGED <<clock, scheduleVars, executions, purgeVars>>

(* Any other exception (the audit event, the database), or the process dies: *)
(* the open transaction rolls back and the listed schedules are forgotten.   *)
Abort(d) ==
  /\ aborts < MaxAborts
  /\ pc[d] # "idle"
  /\ aborts' = aborts + 1
  /\ EndPass(d)
  /\ UNCHANGED <<clock, scheduleVars, evidenceVars, purgeVars>>

FinishPass(d) ==
  /\ pc[d] = "dispatching" /\ todo[d] = {}
  /\ EndPass(d)
  /\ UNCHANGED <<clock, scheduleVars, evidenceVars, aborts, purgeVars>>

Dispatch(d) ==
  ListNothing(d) \/ ListDue(d) \/ OpenSchedule(d) \/ Trigger(d) \/ Conflict(d) \/ FinishPass(d)

Tick ==
  /\ clock < Horizon
  /\ clock' = clock + 1
  /\ UNCHANGED <<scheduleVars, evidenceVars, dispatcherVars, aborts, purgeVars>>

Next == Api \/ (\E d \in Dispatchers : Dispatch(d) \/ Abort(d)) \/ Tick

Spec == Init /\ [][Next]_vars

(* _schedule_loop starts a pass again and again, whatever ended the last one *)
(* (a stop waits for the pass); the database answers.                        *)
FairSpec == Spec /\ \A d \in Dispatchers : WF_vars(Dispatch(d))

-----------------------------------------------------------------------------
(* The n-th time at which a schedule should execute.                         *)
Planned(s, n) == anchor[s] + n * Period[s]

(* Every planned time before next_execution_at belongs to exactly one        *)
(* execution: the one for that time, or the one that made up for it after    *)
(* downtime, a pause or failed passes.  None is skipped, executed twice or   *)
(* shifted, by whatever number of dispatchers.                               *)
EveryOccurrenceOnce ==
  \A s \in Schedules : Exists(s) =>
    \A n \in 0..next[s] : Planned(s, n) < next[s] =>
      \E e \in executions :
        /\ e.schedule = s /\ e.for <= Planned(s, n) /\ Planned(s, n) <= e.at
        /\ \A f \in executions :
             f.schedule = s /\ f.for <= Planned(s, n) /\ Planned(s, n) <= f.at => f = e

(* The history and the runs tell the same story: an execution that says      *)
(* queued has its run, although passes abort between any two steps; and      *)
(* where the database locks rows, no run of a schedule is without its        *)
(* execution, although a purge deletes both from lists it made earlier.      *)
RunsHaveOccurrences ==
  LET queued == {IdOf(e) : e \in {x \in executions : x.status = "queued"}} IN
    queued \subseteq runs /\ (Locking => runs \subseteq queued)

(* Where the database locks rows, no execution is added for a schedule that  *)
(* is paused or purged at that moment, even if it was active when it was     *)
(* listed.                                                                   *)
PausedNeverTriggered ==
  [][Locking => \A e \in executions' :
        e \in executions \/ e.status = "retained_data_deleted" \/ row[e.schedule] = "active"]_vars

(* A schedule that stays due is executed: a failed occurrence, an aborted    *)
(* pass or a conflict never leaves it due for good.                          *)
DueIsExecuted ==
  \A s \in Schedules : \A t \in 0..Horizon :
    (Due(s, clock) /\ next[s] = t) ~> (next[s] # t \/ row[s] # "active")

-----------------------------------------------------------------------------
(* Refinement.  An occurrence whose run retention deleted was served.        *)
Seen(e) == [schedule |-> e.schedule, for |-> e.for, at |-> e.at, run |-> e.status # "failed"]

Recurring == INSTANCE Recurrence
  WITH time <- clock, state <- row, due <- next, served <- {Seen(e) : e \in executions}

(* Dispatchers that list, read and commit in steps of their own, and forget  *)
(* what they listed when a pass ends early, serve the schedules as if each   *)
(* occurrence were served in one instant (trigger_due, _trigger_one).        *)
ImplementsRecurrence == Recurring!Spec

=============================================================================
