----------------------------- MODULE SchedulesProofs -----------------------------
(***************************************************************************)
(* Theorems about Schedules, for any number of schedules, dispatchers and  *)
(* periods, with and without row locks.                                    *)
(***************************************************************************)
EXTENDS Schedules, TLAPS

(* An execution belongs to a schedule that exists, was made at or after its  *)
(* planned time and before the next one.                                     *)
HistoryBehindNext ==
  \A e \in executions :
    Exists(e.schedule) /\ e.for <= e.at /\ e.at < next[e.schedule]

(* Two executions of a schedule never account for the same time.             *)
NoOverlap ==
  \A e, f \in executions :
    e.schedule = f.schedule => e = f \/ e.at < f.for \/ f.at < e.for

(* next_execution_at never leaves the grid of planned times.                 *)
NextIsPlanned ==
  \A s \in Schedules : Exists(s) => \E n \in Nat : next[s] = Planned(s, n)

Accounted(s, time) ==
  \E e \in executions : e.schedule = s /\ e.for <= time /\ time <= e.at

NothingSkipped ==
  \A s \in Schedules : Exists(s) =>
    \A n \in Nat : Planned(s, n) < next[s] => Accounted(s, Planned(s, n))

(* What a dispatcher read is still the next time, unless the occurrence is   *)
(* already in the history: then the primary key refuses it.                  *)
StaleIsTaken ==
  \A d \in Dispatchers : pc[d] = "triggering" =>
    /\ row[current[d]] # "absent"
    /\ planned[d] <= now[d]
    /\ Exists(current[d]) =>
         planned[d] = next[current[d]] \/ Taken(current[d], planned[d])

(* The inductive invariant.                                                  *)
Inv ==
  /\ TypeOK
  /\ HistoryBehindNext
  /\ NoOverlap
  /\ NextIsPlanned
  /\ NothingSkipped
  /\ StaleIsTaken

-----------------------------------------------------------------------------
(* Arithmetic of periods.                                                    *)

LEMMA Division ==
  \A a \in Nat, p \in Nat \ {0} :
    /\ a \div p \in Nat
    /\ p * (a \div p) <= a
    /\ a < p * (a \div p) + p
  OBVIOUS

LEMMA TimesMonotone == \A a, b \in Int, p \in Nat : a <= b => a * p <= b * p
  OBVIOUS

LEMMA TimesDistributes == \A a, b, p \in Int : (a + b) * p = a * p + b * p
  OBVIOUS

LEMMA TimesCommutes == \A a, p \in Int : a * p = p * a
  OBVIOUS

(* The next time after a pass lies past it, by whole periods, and no planned *)
(* time between them is past it.                                             *)
LEMMA NextAfterIsNext ==
  ASSUME NEW from \in Nat, NEW period \in Nat \ {0}, NEW time \in Nat, from <= time
  PROVE  \E q \in Nat :
           /\ NextAfter(from, period, time) = from + (q + 1) * period
           /\ time < from + (q + 1) * period
           /\ from + q * period <= time
<1> DEFINE q == (time - from) \div period
<1>1. /\ q \in Nat /\ period * q <= time - from /\ time - from < period * q + period
  BY Division
<1>2. (q + 1) * period = q * period + period /\ q * period = period * q
  BY <1>1, TimesDistributes, TimesCommutes
<1>3. period * (q + 1) = (q + 1) * period
  BY <1>1, TimesCommutes
<1>4. NextAfter(from, period, time) = from + (q + 1) * period
  BY <1>3 DEF NextAfter
<1> HIDE DEF q
<1>5. q * period \in Nat /\ period * q \in Nat
  BY <1>1
<1> QED BY <1>1, <1>2, <1>4, <1>5

(* Two planned times less than a period apart are the same.                  *)
LEMMA PlannedGap ==
  ASSUME NEW a \in Nat, NEW p \in Nat \ {0}, NEW n \in Nat, NEW m \in Nat, NEW q \in Nat,
         a + n * p <= a + m * p, a + m * p < a + n * p + (q + 1) * p
  PROVE  a + m * p <= a + n * p + q * p
<1>1. m * p \in Int /\ n * p \in Int /\ q * p \in Int /\ (n + q) * p \in Int
  OBVIOUS
<1>2. (n + q) * p = n * p + q * p /\ (n + q + 1) * p = n * p + (q + 1) * p
  BY TimesDistributes
<1>3. m <= n + q
  <2>1. SUFFICES ASSUME n + q + 1 <= m PROVE FALSE
    OBVIOUS
  <2>2. (n + q + 1) * p <= m * p
    BY <2>1, TimesMonotone
  <2> QED BY <1>1, <1>2, <2>2
<1>4. m * p <= (n + q) * p
  BY <1>3, TimesMonotone
<1> QED BY <1>1, <1>2, <1>4


-----------------------------------------------------------------------------
(* Type correctness.                                                         *)

LEMMA TypeInit == Init => TypeOK
  BY SchedulesAssumption DEF Init, TypeOK

LEMMA TypeEndPass ==
  ASSUME TypeOK, NEW d \in Dispatchers, EndPass(d)
  PROVE  /\ pc' \in [Dispatchers -> {"idle", "dispatching", "triggering"}]
         /\ now' \in [Dispatchers -> 0..Horizon]
         /\ todo' \in [Dispatchers -> SUBSET Occurrence]
         /\ current' \in [Dispatchers -> Schedules \union {"none"}]
         /\ \A c \in Dispatchers : pc'[c] = "triggering" => current'[c] \in Schedules
         /\ planned' \in [Dispatchers -> Nat]
  BY SchedulesAssumption DEF TypeOK, EndPass, Leave

LEMMA TypeStep == TypeOK /\ [Next]_vars => TypeOK'
<1> SUFFICES ASSUME TypeOK, [Next]_vars PROVE TypeOK' OBVIOUS
<1> USE SchedulesAssumption DEF TypeOK, scheduleVars, evidenceVars, dispatcherVars, purgeVars
<1>1. ASSUME NEW s \in Schedules, Create(s) PROVE TypeOK'
  BY <1>1 DEF Create
<1>2. ASSUME NEW s \in Schedules, SetActive(s) PROVE TypeOK'
  BY <1>2 DEF SetActive
<1>3. ASSUME NEW s \in Schedules, PurgeRead(s) \/ PurgeCommit(s) \/ PurgeFails(s) PROVE TypeOK'
  <2>1. /\ purging' \subseteq Schedules
        /\ doomed' \in [Schedules -> SUBSET Occurrence]
    BY <1>3 DEF PurgeRead, PurgeCommit, PurgeFails, EndPurge
  <2> QED BY <1>3, <2>1 DEF PurgeRead, PurgeCommit, PurgeFails
<1>4. ASSUME NEW e \in executions, RetainRun(e) PROVE TypeOK'
  <2>1. [e EXCEPT !.status = "retained_data_deleted"] \in Execution
    BY DEF Execution
  <2> QED BY <1>4, <2>1 DEF RetainRun
<1>5. ASSUME NEW d \in Dispatchers, ListDue(d) PROVE TypeOK'
  <2>1. todo' \in [Dispatchers -> SUBSET Occurrence]
    BY <1>5 DEF ListDue, Occurrence
  <2> QED BY <1>5, <2>1 DEF ListDue
<1>6. ASSUME NEW d \in Dispatchers, OpenSchedule(d) PROVE TypeOK'
  <2>1. PICK o \in todo[d] :
          /\ todo' = [todo EXCEPT ![d] = @ \ {o}]
          /\ IF StillDue(d, o[1])
             THEN /\ pc' = [pc EXCEPT ![d] = "triggering"]
                  /\ current' = [current EXCEPT ![d] = o[1]]
                  /\ planned' = [planned EXCEPT ![d] = next[o[1]]]
             ELSE UNCHANGED <<pc, current, planned>>
    BY <1>6 DEF OpenSchedule
  <2>2. o[1] \in Schedules /\ next[o[1]] \in Nat
    BY DEF Occurrence
  <2>3. todo' \in [Dispatchers -> SUBSET Occurrence]
    BY <2>1
  <2> QED BY <1>6, <2>1, <2>2, <2>3 DEF OpenSchedule
<1>7. ASSUME NEW d \in Dispatchers, Trigger(d) PROVE TypeOK'
  <2>1. current[d] \in Schedules /\ planned[d] \in Nat /\ now[d] \in Nat
    BY <1>7 DEF Trigger
  <2>2. PICK created \in BOOLEAN : CommitOccurrence(d, created)
    BY <1>7 DEF Trigger
  <2>3. executions' \subseteq Execution
    BY <2>1, <2>2 DEF CommitOccurrence, Execution
  <2>4. runs' \subseteq Occurrence
    BY <2>1, <2>2 DEF CommitOccurrence, Occurrence
  <2>5. NextAfter(planned[d], Period[current[d]], now[d]) \in Nat
    <3>1. Period[current[d]] \in Nat \ {0} BY <2>1
    <3>2. CASE now[d] < planned[d] BY <2>1, <3>2 DEF NextAfter
    <3>3. CASE planned[d] <= now[d]
      <4>1. PICK q \in Nat : NextAfter(planned[d], Period[current[d]], now[d])
                               = planned[d] + (q + 1) * Period[current[d]]
        BY <2>1, <3>1, <3>3, NextAfterIsNext
      <4> QED BY <2>1, <3>1, <4>1
    <3> QED BY <2>1, <3>2, <3>3
  <2>6. next' \in [Schedules -> Nat]
    BY <2>2, <2>5 DEF CommitOccurrence
  <2> QED BY <1>7, <2>3, <2>4, <2>6 DEF Trigger, Leave
<1>8. ASSUME NEW d \in Dispatchers, Conflict(d) PROVE TypeOK'
  BY <1>8, TypeEndPass DEF Conflict
<1>9. ASSUME NEW d \in Dispatchers, Abort(d) PROVE TypeOK'
  <2>1. aborts' \in 0..MaxAborts BY <1>9 DEF Abort
  <2> QED BY <1>9, <2>1, TypeEndPass DEF Abort
<1>10. ASSUME NEW d \in Dispatchers, FinishPass(d) PROVE TypeOK'
  BY <1>10, TypeEndPass DEF FinishPass
<1>11. CASE Tick BY <1>11 DEF Tick
<1>12. CASE UNCHANGED vars BY <1>12 DEF vars
<1> QED
  BY <1>1, <1>2, <1>3, <1>4, <1>5, <1>6, <1>7, <1>8, <1>9, <1>10, <1>11, <1>12
  DEF Next, Api, Dispatch, ListNothing

(* Every reachable state is well typed.                                      *)
THEOREM TypeCorrect == Spec => []TypeOK
  BY TypeInit, TypeStep, PTL DEF Spec

-----------------------------------------------------------------------------
(* The inductive invariant.                                                  *)

History == HistoryBehindNext /\ NoOverlap /\ NextIsPlanned /\ NothingSkipped

LEMMA InvInit == Init => Inv
  BY TypeInit DEF Init, Inv, HistoryBehindNext, NoOverlap, NextIsPlanned,
                  NothingSkipped, StaleIsTaken, Exists

(* The history depends on these variables only.                              *)
LEMMA HistoryKept ==
  ASSUME History, UNCHANGED <<executions, next, anchor>>,
         \A s \in Schedules : Exists(s)' <=> Exists(s),
         executions \subseteq Execution
  PROVE  History'
<1>1. HistoryBehindNext'
  BY DEF History, HistoryBehindNext, Execution
<1>2. NoOverlap'
  BY DEF History, NoOverlap
<1>3. NextIsPlanned'
  BY DEF History, NextIsPlanned, Planned
<1>4. NothingSkipped'
  BY DEF History, NothingSkipped, Planned, Accounted
<1> QED BY <1>1, <1>2, <1>3, <1>4 DEF History

LEMMA InvCreate ==
  ASSUME Inv, NEW s \in Schedules, Create(s) PROVE History' /\ StaleIsTaken'
<1> USE SchedulesAssumption DEF Inv, TypeOK, Execution
<1>1. PICK first \in 0..Horizon :
        next' = [next EXCEPT ![s] = first] /\ anchor' = [anchor EXCEPT ![s] = first]
  BY DEF Create
<1>2. /\ executions' = executions /\ row[s] = "absent" /\ row' = [row EXCEPT ![s] = "active"]
      /\ UNCHANGED dispatcherVars
  BY DEF Create, evidenceVars
<1>3. /\ \A r \in Schedules \ {s} : (Exists(r)' <=> Exists(r)) /\ next'[r] = next[r] /\ anchor'[r] = anchor[r]
      /\ Exists(s)' /\ ~Exists(s) /\ next'[s] = first /\ anchor'[s] = first
  BY <1>1, <1>2 DEF Exists
<1>4. \A e \in executions : e.schedule \in Schedules \ {s}
  BY <1>3 DEF HistoryBehindNext
<1>5. HistoryBehindNext'
  BY <1>2, <1>3, <1>4 DEF HistoryBehindNext
<1>6. NoOverlap'
  BY <1>2 DEF NoOverlap
<1>7. NextIsPlanned'
  <2>1. ASSUME NEW r \in Schedules, Exists(r)' PROVE \E n \in Nat : next'[r] = Planned(r, n)'
    <3>1. CASE r = s
      <4>1. 0 * Period[s] = 0 OBVIOUS
      <4> QED BY <1>3, <3>1, <4>1 DEF Planned
    <3>2. CASE r # s
      BY <1>3, <2>1, <3>2 DEF NextIsPlanned, Planned
    <3> QED BY <3>1, <3>2
  <2> QED BY <2>1 DEF NextIsPlanned
<1>8. NothingSkipped'
  <2>1. ASSUME NEW r \in Schedules, Exists(r)', NEW n \in Nat, (Planned(r, n) < next[r])'
        PROVE  Accounted(r, Planned(r, n))'
    <3>1. CASE r = s
      <4>1. n * Period[s] >= 0 OBVIOUS
      <4> QED BY <1>3, <2>1, <3>1, <4>1 DEF Planned
    <3>2. CASE r # s
      <4>1. Planned(r, n)' = Planned(r, n) BY <1>3, <3>2 DEF Planned
      <4>2. Accounted(r, Planned(r, n))
        BY <1>3, <2>1, <3>2, <4>1 DEF NothingSkipped
      <4> QED BY <1>2, <4>1, <4>2 DEF Accounted
    <3> QED BY <3>1, <3>2
  <2> QED BY <2>1 DEF NothingSkipped
<1>9. StaleIsTaken'
  <2>1. ASSUME NEW d \in Dispatchers, pc[d] = "triggering" PROVE current[d] \in Schedules \ {s}
    BY <1>2, <2>1 DEF StaleIsTaken
  <2> QED BY <1>2, <1>3, <2>1 DEF StaleIsTaken, Taken, IdOf, dispatcherVars
<1> QED BY <1>5, <1>6, <1>7, <1>8, <1>9 DEF History

LEMMA InvSetActive ==
  ASSUME Inv, NEW s \in Schedules, SetActive(s) PROVE History' /\ StaleIsTaken'
<1> USE DEF Inv, TypeOK
<1>1. \A r \in Schedules : (Exists(r)' <=> Exists(r)) /\ (row'[r] = "absent" <=> row[r] = "absent")
  BY DEF SetActive, Exists
<1>2. UNCHANGED <<executions, next, anchor, dispatcherVars>>
  BY DEF SetActive, evidenceVars
<1>3. History'
  BY <1>1, <1>2, HistoryKept DEF History
<1>4. StaleIsTaken'
  BY <1>1, <1>2 DEF StaleIsTaken, Taken, dispatcherVars
<1> QED BY <1>3, <1>4

LEMMA InvPurge ==
  ASSUME Inv, NEW s \in Schedules, PurgeCommit(s) PROVE History' /\ StaleIsTaken'
<1> USE DEF Inv, TypeOK, Execution
<1>1. /\ UNCHANGED <<next, anchor, dispatcherVars>>
      /\ executions' = {e \in executions : e.schedule # s}
      /\ ~Exists(s)' /\ \A r \in Schedules \ {s} : Exists(r)' <=> Exists(r)
      /\ \A r \in Schedules : row'[r] = "absent" => row[r] = "absent"
  BY DEF PurgeCommit, Exists
<1>2. HistoryBehindNext' /\ NoOverlap'
  BY <1>1 DEF HistoryBehindNext, NoOverlap
<1>3. NextIsPlanned'
  BY <1>1 DEF NextIsPlanned, Planned
<1>4. NothingSkipped'
  BY <1>1 DEF NothingSkipped, Planned, Accounted
<1>5. StaleIsTaken'
  BY <1>1 DEF StaleIsTaken, Taken, IdOf, dispatcherVars
<1> QED BY <1>2, <1>3, <1>4, <1>5 DEF History

LEMMA InvRetainRun ==
  ASSUME Inv, NEW e \in executions, RetainRun(e) PROVE History' /\ StaleIsTaken'
<1> DEFINE g == [schedule |-> e.schedule, for |-> e.for, at |-> e.at,
                 status |-> "retained_data_deleted"]
<1> USE DEF Inv, TypeOK, Execution
<1>1. executions' = (executions \ {e}) \union {g}
  BY DEF RetainRun
<1>2. /\ g.schedule = e.schedule /\ g.for = e.for /\ g.at = e.at
      /\ e.for <= e.at /\ e.for \in Nat /\ e.at \in Nat
  BY DEF HistoryBehindNext
<1> HIDE DEF g
<1>3. UNCHANGED <<row, next, anchor, dispatcherVars>>
  BY DEF RetainRun, scheduleVars
<1>4. HistoryBehindNext'
  BY <1>1, <1>2, <1>3 DEF HistoryBehindNext, Exists
<1>5. NoOverlap'
  BY <1>1, <1>2 DEF NoOverlap
<1>6. NextIsPlanned'
  BY <1>3 DEF NextIsPlanned, Planned, Exists
<1>7. NothingSkipped'
  <2>1. ASSUME NEW s \in Schedules, Exists(s)', NEW n \in Nat, (Planned(s, n) < next[s])'
        PROVE  Accounted(s, Planned(s, n))'
    <3>1. Planned(s, n)' = Planned(s, n) /\ Accounted(s, Planned(s, n))
      BY <1>3, <2>1 DEF Planned, Exists, NothingSkipped
    <3> QED BY <1>1, <1>2, <3>1 DEF Accounted
  <2> QED BY <2>1 DEF NothingSkipped
<1>8. \A s \in Schedules, time \in Nat : Taken(s, time) => Taken(s, time)'
  BY <1>1, <1>2 DEF Taken, IdOf
<1>9. StaleIsTaken'
  BY <1>3, <1>8 DEF StaleIsTaken, Exists, Taken, dispatcherVars
<1> QED BY <1>4, <1>5, <1>6, <1>7, <1>9 DEF History

(* Steps that move only dispatchers: a triggering one was so before.         *)
LEMMA InvDispatcherOnly ==
  ASSUME Inv, UNCHANGED <<scheduleVars, executions>>,
         \A d \in Dispatchers : pc'[d] = "triggering" =>
           /\ pc[d] = "triggering"
           /\ current'[d] = current[d] /\ planned'[d] = planned[d] /\ now'[d] = now[d]
  PROVE  History' /\ StaleIsTaken'
<1> USE DEF Inv, TypeOK, scheduleVars
<1>1. History'
  BY HistoryKept DEF History, Exists
<1>2. StaleIsTaken'
  BY DEF StaleIsTaken, Exists, Taken
<1> QED BY <1>1, <1>2

LEMMA InvOpenSchedule ==
  ASSUME Inv, NEW d \in Dispatchers, OpenSchedule(d) PROVE History' /\ StaleIsTaken'
<1> USE DEF Inv, TypeOK, scheduleVars, evidenceVars
<1>1. PICK o \in todo[d] :
        IF StillDue(d, o[1])
        THEN /\ pc' = [pc EXCEPT ![d] = "triggering"]
             /\ current' = [current EXCEPT ![d] = o[1]]
             /\ planned' = [planned EXCEPT ![d] = next[o[1]]]
        ELSE UNCHANGED <<pc, current, planned>>
  BY DEF OpenSchedule
<1>2. UNCHANGED <<scheduleVars, executions, now>> /\ pc[d] = "dispatching"
  BY DEF OpenSchedule
<1>3. CASE ~StillDue(d, o[1])
  BY <1>1, <1>2, <1>3, InvDispatcherOnly
<1>4. CASE StillDue(d, o[1])
  <2>1. o[1] \in Schedules /\ row[o[1]] = "active" /\ next[o[1]] <= now[d]
    BY <1>4 DEF StillDue, Due, Occurrence
  <2>2. History'
    BY <1>2, HistoryKept DEF History, Exists
  <2>3. StaleIsTaken'
    BY <1>1, <1>2, <1>4, <2>1 DEF StaleIsTaken, Exists, Taken
  <2> QED BY <2>2, <2>3
<1> QED BY <1>3, <1>4

(* The commit of an occurrence.                                              *)
LEMMA InvTrigger ==
  ASSUME Inv, NEW d \in Dispatchers, Trigger(d) PROVE History' /\ StaleIsTaken'
<1> USE SchedulesAssumption DEF Inv, TypeOK, Execution
<1>1. PICK s \in Schedules, p \in Nat, P \in Nat \ {0} :
        s = current[d] /\ p = planned[d] /\ P = Period[s]
  BY DEF Trigger
<1>2. Exists(s) /\ p = next[s] /\ p <= now[d] /\ now[d] \in Nat
  BY <1>1 DEF Trigger, StaleIsTaken
<1>3. PICK g : /\ executions' = executions \union {g}
               /\ g \in Execution /\ g.schedule = s /\ g.for = p /\ g.at = now[d]
  <2>1. PICK created \in BOOLEAN : CommitOccurrence(d, created)
    BY DEF Trigger
  <2> DEFINE g == [schedule |-> s, for |-> p, at |-> now[d],
                   status |-> IF created THEN "queued" ELSE "failed"]
  <2>2. executions' = executions \union {g}
    BY <1>1, <2>1 DEF CommitOccurrence
  <2>3. g \in Execution /\ g.schedule = s /\ g.for = p /\ g.at = now[d]
    BY <1>2
  <2> QED BY <2>2, <2>3
<1>4. next' = [next EXCEPT ![s] = NextAfter(p, P, now[d])] /\ UNCHANGED <<row, anchor, now>>
  BY <1>1 DEF Trigger, CommitOccurrence
<1>5. PICK q \in Nat :
        /\ NextAfter(p, P, now[d]) = p + (q + 1) * P
        /\ now[d] < p + (q + 1) * P
        /\ p + q * P <= now[d]
  BY <1>1, <1>2, NextAfterIsNext
<1>6. PICK n \in Nat : p = Planned(s, n)
  BY <1>1, <1>2 DEF NextIsPlanned
<1>7. /\ pc' = [pc EXCEPT ![d] = "dispatching"]
      /\ current' = [current EXCEPT ![d] = "none"] /\ planned' = [planned EXCEPT ![d] = 0]
  BY DEF Trigger, Leave
<1>8. /\ (q + 1) * P \in Int /\ q * P \in Int /\ P = Period[s] /\ anchor[s] \in Nat
      /\ next[s] \in Nat /\ next'[s] = p + (q + 1) * P
      /\ \A r \in Schedules \ {s} : next'[r] = next[r]
      /\ \A r \in Schedules : (Exists(r)' <=> Exists(r))
  BY <1>1, <1>4, <1>5 DEF Exists
<1>9. HistoryBehindNext'
  BY <1>1, <1>2, <1>3, <1>5, <1>8 DEF HistoryBehindNext
<1>10. NoOverlap'
  <2>1. \A e \in executions : e.schedule = s => e.at < p
    BY <1>2 DEF HistoryBehindNext
  <2> QED BY <1>3, <2>1 DEF NoOverlap
<1>11. NextIsPlanned'
  <2>1. ASSUME NEW r \in Schedules, Exists(r)' PROVE \E m \in Nat : next'[r] = Planned(r, m)'
    <3>1. CASE r = s
      <4>1. (n + (q + 1)) * P = n * P + (q + 1) * P
        BY <1>1, TimesDistributes
      <4>2. n * P \in Int
        BY <1>1
      <4>3. next'[s] = anchor[s] + (n + (q + 1)) * P
        BY <1>6, <1>8, <4>1, <4>2 DEF Planned
      <4> QED BY <1>4, <1>8, <3>1, <4>3 DEF Planned
    <3>2. CASE r # s
      BY <1>4, <1>8, <2>1, <3>2 DEF NextIsPlanned, Planned
    <3> QED BY <3>1, <3>2
  <2> QED BY <2>1 DEF NextIsPlanned
<1>12. NothingSkipped'
  <2>1. ASSUME NEW r \in Schedules, Exists(r)', NEW m \in Nat, (Planned(r, m) < next[r])'
        PROVE  Accounted(r, Planned(r, m))'
    <3>1. Planned(r, m)' = Planned(r, m) /\ Planned(r, m) \in Int
      BY <1>4 DEF Planned
    <3>2. CASE Planned(r, m) < next[r]
      <4>1. Accounted(r, Planned(r, m))
        BY <1>8, <2>1, <3>2 DEF NothingSkipped
      <4> QED BY <1>3, <3>1, <4>1 DEF Accounted
    <3>3. CASE next[r] <= Planned(r, m)
      <4>1. r = s
        BY <1>8, <2>1, <3>1, <3>3
      <4>2. anchor[s] + n * P <= anchor[s] + m * P
        BY <1>2, <1>6, <1>8, <3>3, <4>1 DEF Planned
      <4>3. anchor[s] + m * P < anchor[s] + n * P + (q + 1) * P
        BY <1>6, <1>8, <2>1, <3>1, <4>1 DEF Planned
      <4>4. anchor[s] + m * P <= anchor[s] + n * P + q * P
        BY <1>1, <1>8, <4>2, <4>3, PlannedGap
      <4>5. Planned(s, m) <= p + q * P
        <5>1. n * P \in Int /\ m * P \in Int OBVIOUS
        <5> QED BY <1>6, <1>8, <4>4, <5>1 DEF Planned
      <4>6. Planned(s, m) <= now[d] /\ p <= Planned(s, m)
        BY <1>2, <1>5, <1>8, <3>1, <3>3, <4>1, <4>5
      <4> QED BY <1>3, <3>1, <4>1, <4>6 DEF Accounted
    <3> QED BY <3>1, <3>2, <3>3
  <2> QED BY <2>1 DEF NothingSkipped
<1>13. StaleIsTaken'
  <2>1. Taken(s, p)'
    BY <1>3 DEF Taken, IdOf
  <2>2. ASSUME NEW c \in Dispatchers, pc'[c] = "triggering"
        PROVE  /\ row'[current'[c]] # "absent" /\ planned'[c] <= now'[c]
               /\ Exists(current[c])' =>
                    planned'[c] = next'[current'[c]] \/ Taken(current[c], planned[c])'
    <3>1. /\ c # d /\ pc[c] = "triggering"
          /\ current'[c] = current[c] /\ planned'[c] = planned[c]
      BY <1>7, <2>2
    <3>2. row'[current'[c]] # "absent" /\ planned'[c] <= now'[c]
      BY <1>4, <3>1 DEF StaleIsTaken
    <3>3. ASSUME Exists(current[c])'
          PROVE  planned'[c] = next'[current'[c]] \/ Taken(current[c], planned[c])'
      <4>1. planned[c] = next[current[c]] \/ Taken(current[c], planned[c])
        BY <1>4, <3>1, <3>3 DEF StaleIsTaken, Exists
      <4>2. CASE Taken(current[c], planned[c])
        BY <1>3, <3>1, <4>2 DEF Taken, IdOf
      <4>3. CASE planned[c] = next[current[c]] /\ current[c] = s
        BY <1>2, <2>1, <3>1, <4>3 DEF Taken, IdOf
      <4>4. CASE planned[c] = next[current[c]] /\ current[c] # s
        BY <1>8, <3>1, <4>4
      <4> QED BY <4>1, <4>2, <4>3, <4>4
    <3> QED BY <3>2, <3>3
  <2> QED BY <2>2 DEF StaleIsTaken
<1> QED BY <1>9, <1>10, <1>11, <1>12, <1>13 DEF History

LEMMA InvStep == Inv /\ [Next]_vars => Inv'
<1> SUFFICES ASSUME Inv, [Next]_vars PROVE Inv' OBVIOUS
<1>1. TypeOK'
  BY TypeStep DEF Inv
<1> SUFFICES History' /\ StaleIsTaken'
  BY <1>1 DEF Inv, History
<1> USE DEF evidenceVars, dispatcherVars, TypeOK
<1>2. CASE Api
  <2>1. ASSUME NEW s \in Schedules, PurgeRead(s) \/ PurgeFails(s)
        PROVE  History' /\ StaleIsTaken'
    BY <2>1, InvDispatcherOnly DEF PurgeRead, PurgeFails
  <2> QED BY <1>2, <2>1, InvCreate, InvSetActive, InvPurge, InvRetainRun DEF Api
<1>3. ASSUME NEW d \in Dispatchers, ListDue(d) PROVE History' /\ StaleIsTaken'
  <2>1. UNCHANGED <<scheduleVars, executions, current, planned>>
    BY <1>3 DEF ListDue
  <2>2. /\ pc' = [pc EXCEPT ![d] = "dispatching"]
        /\ \A c \in Dispatchers \ {d} : now'[c] = now[c]
    BY <1>3 DEF ListDue, Inv
  <2> QED BY <2>1, <2>2, InvDispatcherOnly DEF Inv
<1>4. ASSUME NEW d \in Dispatchers, OpenSchedule(d) PROVE History' /\ StaleIsTaken'
  BY <1>4, InvOpenSchedule
<1>5. ASSUME NEW d \in Dispatchers, Trigger(d) PROVE History' /\ StaleIsTaken'
  BY <1>5, InvTrigger
<1>6. ASSUME NEW d \in Dispatchers, Conflict(d) \/ Abort(d) \/ FinishPass(d)
      PROVE  History' /\ StaleIsTaken'
  <2>1. EndPass(d) /\ UNCHANGED <<scheduleVars, executions>>
    BY <1>6 DEF Conflict, Abort, FinishPass
  <2>2. \A c \in Dispatchers : pc'[c] = "triggering" =>
          /\ pc[c] = "triggering"
          /\ current'[c] = current[c] /\ planned'[c] = planned[c] /\ now'[c] = now[c]
    BY <2>1 DEF EndPass, Leave, Inv
  <2> QED BY <2>1, <2>2, InvDispatcherOnly
<1>7. CASE Tick
  BY <1>7, InvDispatcherOnly DEF Tick, Inv
<1>8. CASE UNCHANGED vars
  BY <1>8, InvDispatcherOnly DEF vars, Inv
<1> QED BY <1>2, <1>3, <1>4, <1>5, <1>6, <1>7, <1>8 DEF Next, Dispatch, ListNothing

(* History, next times and what dispatchers hold agree in every state.      *)
THEOREM Invariance == Spec => []Inv
  BY InvInit, InvStep, PTL DEF Spec

(* Whatever dispatchers, pauses, aborted passes and locks the database has,  *)
(* every planned time before next_execution_at belongs to exactly one        *)
(* execution (_trigger_one, _next_after).                                    *)
THEOREM OccurrencesExact == Spec => []EveryOccurrenceOnce
<1>1. Inv => EveryOccurrenceOnce
  <2> SUFFICES ASSUME Inv, NEW s \in Schedules, Exists(s), NEW n \in 0..next[s],
                      Planned(s, n) < next[s]
               PROVE  \E e \in executions :
                        /\ e.schedule = s /\ e.for <= Planned(s, n) /\ Planned(s, n) <= e.at
                        /\ \A f \in executions :
                             f.schedule = s /\ f.for <= Planned(s, n) /\ Planned(s, n) <= f.at => f = e
    BY DEF EveryOccurrenceOnce
  <2>1. n \in Nat /\ Planned(s, n) \in Int
    BY SchedulesAssumption DEF Inv, TypeOK, Planned
  <2>2. PICK e \in executions : e.schedule = s /\ e.for <= Planned(s, n) /\ Planned(s, n) <= e.at
    BY <2>1 DEF Inv, NothingSkipped, Accounted
  <2>3. ASSUME NEW f \in executions, f.schedule = s, f.for <= Planned(s, n), Planned(s, n) <= f.at
        PROVE  f = e
    BY <2>1, <2>2, <2>3 DEF Inv, NoOverlap, TypeOK, Execution
  <2> QED BY <2>2, <2>3
<1> QED BY <1>1, Invariance, PTL

-----------------------------------------------------------------------------
(* Runs and occurrences.                                                     *)

(* The lock on the project row: no run is created after the purge has read.  *)
PurgeSeesAll ==
  Locking => \A s \in purging : \A o \in runs : o[1] = s => o \in doomed[s]

(* A purge deletes runs of its own schedule only.                            *)
DoomedAreOwn == \A s \in Schedules : \A o \in doomed[s] : o[1] = s

RunsInv == RunsHaveOccurrences /\ PurgeSeesAll /\ DoomedAreOwn

LEMMA DoomStep == Inv /\ RunsInv /\ [Next]_vars => PurgeSeesAll' /\ DoomedAreOwn'
<1> SUFFICES ASSUME Inv, RunsInv, [Next]_vars PROVE PurgeSeesAll' /\ DoomedAreOwn'
  OBVIOUS
<1> USE DEF Inv, TypeOK, RunsInv, PurgeSeesAll, DoomedAreOwn, purgeVars, evidenceVars
<1>1. CASE UNCHANGED purgeVars /\ runs' \subseteq runs
  BY <1>1
<1>2. ASSUME NEW s \in Schedules, PurgeRead(s) PROVE PurgeSeesAll' /\ DoomedAreOwn'
  BY <1>2 DEF PurgeRead
<1>3. ASSUME NEW s \in Schedules, PurgeCommit(s) \/ PurgeFails(s)
      PROVE  PurgeSeesAll' /\ DoomedAreOwn'
  <2>1. runs' \subseteq runs /\ EndPurge(s)
    BY <1>3 DEF PurgeCommit, PurgeFails
  <2> QED BY <2>1 DEF EndPurge
<1>4. ASSUME NEW d \in Dispatchers, Trigger(d) PROVE PurgeSeesAll' /\ DoomedAreOwn'
  <2>1. PICK created \in BOOLEAN :
          CommitOccurrence(d, created) /\ (created => ~RunRefused(current[d]))
    BY <1>4 DEF Trigger
  <2>2. UNCHANGED purgeVars /\ current[d] \in Schedules
    BY <1>4 DEF Trigger
  <2>3. CASE ~created
    BY <1>1, <2>1, <2>2, <2>3 DEF CommitOccurrence
  <2>4. CASE created
    BY <2>1, <2>2, <2>4 DEF CommitOccurrence, RunRefused
  <2> QED BY <2>3, <2>4
<1> QED
  BY <1>1, <1>2, <1>3, <1>4
  DEF Next, Api, Dispatch, Create, SetActive, RetainRun, ListNothing, ListDue, OpenSchedule,
      Conflict, Abort, FinishPass, Tick, vars

LEMMA RunsStep == Inv /\ RunsInv /\ [Next]_vars => RunsHaveOccurrences'
<1> SUFFICES ASSUME Inv, RunsInv, [Next]_vars PROVE RunsHaveOccurrences'
  OBVIOUS
<1> USE DEF RunsInv, RunsHaveOccurrences, IdOf
<1>1. CASE UNCHANGED <<executions, runs>>
  BY <1>1
<1>2. ASSUME NEW s \in Schedules, PurgeCommit(s) PROVE RunsHaveOccurrences'
  <2>1. executions' = {e \in executions : e.schedule # s} /\ runs' = runs \ doomed[s] /\ s \in purging
    BY <1>2 DEF PurgeCommit
  <2>2. \A e \in executions : IdOf(e)[1] = e.schedule
    OBVIOUS
  <2>3. \A o \in doomed[s] : o[1] = s
    BY DEF DoomedAreOwn
  <2>4. Locking => \A o \in runs' : o[1] # s
    BY <2>1 DEF PurgeSeesAll
  <2> QED BY <2>1, <2>2, <2>3, <2>4
<1>3. ASSUME NEW e \in executions, RetainRun(e) PROVE RunsHaveOccurrences'
  <2> DEFINE g == [schedule |-> e.schedule, for |-> e.for, at |-> e.at,
                   status |-> "retained_data_deleted"]
  <2>1. executions' = (executions \ {e}) \union {g} /\ g.status = "retained_data_deleted"
    BY <1>3 DEF RetainRun, Inv, TypeOK, Execution
  <2>2. runs' = runs \ {IdOf(e)}
    BY <1>3 DEF RetainRun
  <2>3. \A x \in executions : x # e => IdOf(x) # IdOf(e)
    BY DEF Inv, NoOverlap, HistoryBehindNext, TypeOK, Execution
  <2> HIDE DEF g
  <2> QED BY <2>1, <2>2, <2>3
<1>4. ASSUME NEW d \in Dispatchers, Trigger(d) PROVE RunsHaveOccurrences'
  <2>1. PICK created \in BOOLEAN : CommitOccurrence(d, created)
    BY <1>4 DEF Trigger
  <2> DEFINE g == [schedule |-> current[d], for |-> planned[d], at |-> now[d],
                   status |-> IF created THEN "queued" ELSE "failed"]
  <2>2. /\ executions' = executions \union {g}
        /\ IdOf(g) = <<current[d], planned[d]>>
        /\ g.status = "queued" <=> created
        /\ runs' = IF created THEN runs \union {<<current[d], planned[d]>>} ELSE runs
    BY <2>1 DEF CommitOccurrence
  <2> HIDE DEF g
  <2> QED BY <2>2
<1> QED
  BY <1>1, <1>2, <1>3, <1>4
  DEF Next, Api, Dispatch, Create, SetActive, PurgeRead, PurgeFails, ListNothing, ListDue,
      OpenSchedule, Conflict, Abort, FinishPass, Tick, vars, evidenceVars

(* An execution that says queued has its run, and with row locks every run   *)
(* has its execution, although passes abort, retention deletes runs and      *)
(* projects are purged.                                                      *)
THEOREM RunsAccounted == Spec => []RunsHaveOccurrences
<1>1. Init => RunsInv
  BY DEF Init, RunsInv, RunsHaveOccurrences, PurgeSeesAll, DoomedAreOwn
<1>2. Inv /\ RunsInv /\ [Next]_vars => RunsInv'
  BY DoomStep, RunsStep DEF RunsInv
<1>3. RunsInv => RunsHaveOccurrences
  BY DEF RunsInv
<1> QED BY <1>1, <1>2, <1>3, Invariance, PTL DEF Spec

-----------------------------------------------------------------------------
(* With row locks, the schedule a dispatcher is triggering is active and     *)
(* nobody else is triggering it.                                             *)
LockHolds ==
  Locking =>
    \A d \in Dispatchers : pc[d] = "triggering" =>
      /\ row[current[d]] = "active"
      /\ \A c \in Dispatchers : pc[c] = "triggering" /\ current[c] = current[d] => c = d

LEMMA LockStep == Inv /\ LockHolds /\ [Next]_vars => LockHolds'
<1> SUFFICES ASSUME Inv, LockHolds, [Next]_vars, Locking PROVE LockHolds'
  BY DEF LockHolds
<1> USE DEF Inv, TypeOK, LockHolds
<1>1. ASSUME \A d \in Dispatchers : pc'[d] = "triggering" =>
               pc[d] = "triggering" /\ current'[d] = current[d] /\ row'[current[d]] = row[current[d]]
      PROVE  LockHolds'
  BY <1>1
<1>2. ASSUME NEW s \in Schedules, Create(s) PROVE LockHolds'
  BY <1>1, <1>2 DEF Create, dispatcherVars
<1>3. ASSUME NEW s \in Schedules, SetActive(s) \/ PurgeCommit(s) PROVE LockHolds'
  BY <1>1, <1>3 DEF SetActive, PurgeCommit, Locked, dispatcherVars
<1>4. ASSUME NEW d \in Dispatchers, OpenSchedule(d) PROVE LockHolds'
  <2>1. PICK o \in todo[d] :
          /\ ~Locked(o[1])
          /\ IF StillDue(d, o[1])
             THEN /\ pc' = [pc EXCEPT ![d] = "triggering"]
                  /\ current' = [current EXCEPT ![d] = o[1]]
             ELSE UNCHANGED <<pc, current>>
    BY <1>4 DEF OpenSchedule
  <2>2. row' = row
    BY <1>4 DEF OpenSchedule, scheduleVars
  <2>3. CASE StillDue(d, o[1])
    BY <2>1, <2>2, <2>3 DEF StillDue, Due, Locked
  <2> QED BY <1>1, <2>1, <2>2, <2>3
<1>5. ASSUME NEW d \in Dispatchers, Trigger(d) \/ Conflict(d) \/ Abort(d) \/ FinishPass(d)
      PROVE  LockHolds'
  <2>1. row' = row /\ \E to \in {"idle", "dispatching"} : Leave(d, to)
    BY <1>5 DEF Trigger, Conflict, Abort, FinishPass, EndPass, scheduleVars
  <2> QED BY <1>1, <2>1 DEF Leave
<1>6. ASSUME NEW d \in Dispatchers, ListDue(d) PROVE LockHolds'
  <2>1. pc' = [pc EXCEPT ![d] = "dispatching"] /\ UNCHANGED <<row, current>>
    BY <1>6 DEF ListDue, scheduleVars
  <2> QED BY <1>1, <2>1
<1>7. CASE UNCHANGED <<row, pc, current>>
  BY <1>1, <1>7
<1>8. CASE \/ \E e \in executions : RetainRun(e)
           \/ \E s \in Schedules : PurgeRead(s) \/ PurgeFails(s)
           \/ Tick
           \/ UNCHANGED vars
  BY <1>7, <1>8 DEF RetainRun, PurgeRead, PurgeFails, Tick, vars, scheduleVars, dispatcherVars
<1> QED
  BY <1>2, <1>3, <1>4, <1>5, <1>6, <1>8 DEF Next, Api, Dispatch, ListNothing

(* With row locks, a paused or purged schedule is never triggered, however   *)
(* long ago a dispatcher listed it.                                          *)
THEOREM PauseHolds == Spec => PausedNeverTriggered
<1>1. Init => LockHolds
  BY DEF Init, LockHolds
<1>2. Spec => []LockHolds
  BY <1>1, LockStep, Invariance, PTL DEF Spec
<1>3. ASSUME Inv, LockHolds, [Next]_vars, Locking, NEW e \in executions',
             e \notin executions, e.status # "retained_data_deleted"
      PROVE  row[e.schedule] = "active"
  <2>1. CASE \E d \in Dispatchers : Trigger(d)
    <3>1. PICK d \in Dispatchers : Trigger(d) BY <2>1
    <3>2. e.schedule = current[d] /\ pc[d] = "triggering"
      BY <1>3, <3>1 DEF Trigger, CommitOccurrence
    <3> QED BY <1>3, <3>1, <3>2 DEF LockHolds
  <2>2. CASE \E x \in executions : RetainRun(x)
    <3>1. PICK x \in executions : RetainRun(x) BY <2>2
    <3>2. x \in Execution BY <1>3 DEF Inv, TypeOK
    <3>3. [x EXCEPT !.status = "retained_data_deleted"].status = "retained_data_deleted"
      BY <3>2 DEF Execution
    <3> QED BY <1>3, <3>1, <3>3 DEF RetainRun
  <2>3. CASE executions' \subseteq executions
    BY <1>3, <2>3
  <2> QED
    BY <1>3, <2>1, <2>2, <2>3
    DEF Next, Api, Dispatch, Create, SetActive, PurgeRead, PurgeCommit, PurgeFails,
        ListNothing, ListDue, OpenSchedule, Conflict, Abort, FinishPass, Tick, vars, evidenceVars
<1>4. Inv /\ LockHolds /\ [Next]_vars =>
        [Locking => \A e \in executions' :
            e \in executions \/ e.status = "retained_data_deleted" \/ row[e.schedule] = "active"]_vars
  BY <1>3
<1> QED BY <1>2, <1>4, Invariance, PTL DEF Spec, PausedNeverTriggered

-----------------------------------------------------------------------------
(* Refinement.                                                               *)

(* A pass began in the past, and what is being purged has not gone yet.      *)
PassesInv ==
  /\ \A d \in Dispatchers : now[d] <= clock
  /\ \A s \in purging : Exists(s)

LEMMA PassesStep == Inv /\ PassesInv /\ [Next]_vars => PassesInv'
<1> SUFFICES ASSUME Inv, PassesInv, [Next]_vars PROVE PassesInv'  OBVIOUS
<1> USE DEF Inv, TypeOK, PassesInv, Exists
<1>0. clock \in Nat /\ \A d \in Dispatchers : now[d] \in Nat  BY SchedulesAssumption
<1>1. CASE UNCHANGED <<clock, now, row>> /\ purging' \subseteq purging  BY <1>1
<1>2. ASSUME NEW s \in Schedules, Create(s) \/ SetActive(s) PROVE PassesInv'
  <2>1. UNCHANGED <<clock, now, purging>>
    BY <1>2 DEF Create, SetActive, dispatcherVars, purgeVars
  <2>2. \A r \in Schedules : Exists(r) => Exists(r)'  BY <1>2 DEF Create, SetActive
  <2> QED BY <2>1, <2>2
<1>3. ASSUME NEW s \in Schedules, PurgeRead(s) PROVE PassesInv'
  BY <1>3 DEF PurgeRead, scheduleVars, dispatcherVars
<1>4. ASSUME NEW s \in Schedules, PurgeCommit(s) PROVE PassesInv'
  <2>1. UNCHANGED <<clock, now>> /\ purging' = purging \ {s}
    BY <1>4 DEF PurgeCommit, EndPurge, dispatcherVars
  <2>2. \A r \in purging' : Exists(r)'  BY <1>4, <2>1 DEF PurgeCommit
  <2> QED BY <2>1, <2>2
<1>5. ASSUME NEW s \in Schedules, PurgeFails(s) PROVE PassesInv'
  BY <1>1, <1>5 DEF PurgeFails, EndPurge, scheduleVars, dispatcherVars
<1>6. ASSUME NEW e \in executions, RetainRun(e) PROVE PassesInv'
  BY <1>1, <1>6 DEF RetainRun, scheduleVars, dispatcherVars, purgeVars
<1>7. ASSUME NEW d \in Dispatchers, ListDue(d) PROVE PassesInv'
  <2>1. UNCHANGED <<clock, row, purging>> /\ now' = [now EXCEPT ![d] = clock]
    BY <1>7 DEF ListDue, scheduleVars, purgeVars
  <2> QED BY <1>0, <2>1
<1>8. ASSUME NEW d \in Dispatchers, OpenSchedule(d) \/ Trigger(d) PROVE PassesInv'
  BY <1>1, <1>8 DEF OpenSchedule, Trigger, scheduleVars, purgeVars
<1>9. ASSUME NEW d \in Dispatchers, Conflict(d) \/ Abort(d) \/ FinishPass(d) PROVE PassesInv'
  <2>1. UNCHANGED <<clock, row, purging>> /\ now' = [now EXCEPT ![d] = 0]
    BY <1>9 DEF Conflict, Abort, FinishPass, EndPass, scheduleVars, purgeVars
  <2> QED BY <1>0, <2>1
<1>10. CASE Tick
  <2>1. clock' = clock + 1 /\ UNCHANGED <<now, row, purging>>
    BY <1>10 DEF Tick, scheduleVars, dispatcherVars, purgeVars
  <2> QED BY <1>0, <2>1
<1>11. CASE UNCHANGED vars
  BY <1>1, <1>11 DEF vars, scheduleVars, dispatcherVars, purgeVars
<1> QED
  BY <1>2, <1>3, <1>4, <1>5, <1>6, <1>7, <1>8, <1>9, <1>10, <1>11
  DEF Next, Api, Dispatch, ListNothing

Served == {Seen(e) : e \in executions}

RecurringMoves == Recurring!Next \/ UNCHANGED <<clock, row, next, Served>>

(* The commit of an occurrence serves the next time: a dispatcher that read  *)
(* an older one is refused by the primary key.                               *)
LEMMA TriggerServes ==
  ASSUME Inv, PassesInv, NEW d \in Dispatchers, Trigger(d)
  PROVE  Recurring!Serve(current[d])
<1> USE SchedulesAssumption DEF Inv, TypeOK
<1>1. PICK s \in Schedules, P \in Nat \ {0}, at \in Nat :
         s = current[d] /\ P = Period[s] /\ at = now[d]
  BY DEF Trigger
<1>2. /\ Exists(s) /\ planned[d] = next[s] /\ next[s] <= at
      /\ at <= clock /\ clock \in Nat /\ next[s] \in Nat
  BY <1>1 DEF Trigger, StaleIsTaken, PassesInv
<1>3. PICK created \in BOOLEAN : CommitOccurrence(d, created)  BY DEF Trigger
<1>4. PICK q \in Nat : /\ NextAfter(next[s], P, at) = next[s] + (q + 1) * P
                       /\ at < next[s] + (q + 1) * P
                       /\ next[s] + q * P <= at
  BY <1>1, <1>2, NextAfterIsNext
<1>5. (q + 1) * P = q * P + P /\ q * P \in Nat  BY <1>1, TimesDistributes
<1> DEFINE last == next[s] + q * P
<1>6. last <= at /\ at < last + P /\ NextAfter(next[s], P, at) = last + P /\ q \in 0..at
  <2>1. q <= q * P
    <3> DEFINE one == 1
    <3>1. one \in Int /\ P \in Int /\ one <= P /\ one * q = q  BY <1>1
    <3> HIDE DEF one
    <3>2. one * q <= P * q  BY <3>1, TimesMonotone
    <3>3. P * q = q * P  BY <1>1, TimesCommutes
    <3> QED BY <3>1, <3>2, <3>3
  <2>2. q <= at  BY <1>2, <1>4, <1>5, <2>1
  <2> QED BY <1>1, <1>2, <1>4, <1>5, <2>2
<1>7. next' = [next EXCEPT ![s] = last + P] /\ UNCHANGED <<clock, row>>
  BY <1>1, <1>2, <1>3, <1>6 DEF Trigger, CommitOccurrence
<1> DEFINE g == [schedule |-> s, for |-> next[s], at |-> at,
                 status |-> IF created THEN "queued" ELSE "failed"]
<1>8. executions' = executions \union {g}
  BY <1>1, <1>2, <1>3 DEF CommitOccurrence
<1>9. Seen(g) = [schedule |-> s, for |-> next[s], at |-> at, run |-> created]
  BY DEF Seen
<1> HIDE DEF g
<1>10. {Seen(e) : e \in executions}'
         = {Seen(e) : e \in executions}
             \union {[schedule |-> s, for |-> next[s], at |-> at, run |-> created]}
  BY <1>8, <1>9
<1>11. row[s] \in Recurring!Kept  BY <1>2 DEF Exists, Recurring!Kept
<1>12. at \in next[s]..clock  BY <1>2
<1> HIDE DEF last
<1>13. \E missed \in 0..at : LET l == next[s] + missed * Period[s] IN
         /\ l <= at /\ at < l + Period[s]
         /\ next' = [next EXCEPT ![s] = l + Period[s]]
         /\ {Seen(e) : e \in executions}'
              = {Seen(e) : e \in executions}
                  \union {[schedule |-> s, for |-> next[s], at |-> at, run |-> created]}
  BY <1>1, <1>6, <1>7, <1>10 DEF last
<1>14. Recurring!Serve(s)  BY <1>7, <1>11, <1>12, <1>13 DEF Recurring!Serve
<1> QED BY <1>1, <1>14

LEMMA RecurrenceStep == Inv /\ PassesInv /\ [Next]_vars => RecurringMoves
<1> SUFFICES ASSUME Inv, PassesInv, [Next]_vars PROVE RecurringMoves  OBVIOUS
<1> USE DEF Inv, TypeOK
<1>1. CASE UNCHANGED <<clock, row, next, executions>>
  BY <1>1 DEF RecurringMoves, Served, Seen
<1>2. ASSUME NEW s \in Schedules, Create(s) PROVE RecurringMoves
  <2>1. PICK first \in 0..Horizon : next' = [next EXCEPT ![s] = first]  BY <1>2 DEF Create
  <2>2. UNCHANGED <<clock, executions>> /\ row[s] = "absent"
        /\ row' = [row EXCEPT ![s] = "active"]
    BY <1>2 DEF Create, evidenceVars
  <2>3. next'[s] \in Nat /\ next' = [next EXCEPT ![s] = next'[s]]
    BY <2>1, SchedulesAssumption
  <2>4. Recurring!Plan(s)  BY <2>2, <2>3 DEF Recurring!Plan, Seen
  <2> QED BY <2>4 DEF RecurringMoves, Recurring!Next
<1>3. ASSUME NEW s \in Schedules, SetActive(s) PROVE RecurringMoves
  <2>1. /\ UNCHANGED <<clock, next, executions>> /\ row[s] \in {"active", "paused"}
        /\ row' = [row EXCEPT ![s] = IF row[s] = "active" THEN "paused" ELSE "active"]
    BY <1>3 DEF SetActive, Exists, evidenceVars
  <2>2. \E other \in Recurring!Kept \ {row[s]} : row' = [row EXCEPT ![s] = other]
    <3> DEFINE other == IF row[s] = "active" THEN "paused" ELSE "active"
    <3>1. other \in Recurring!Kept \ {row[s]}  BY DEF Recurring!Kept
    <3> HIDE DEF other
    <3>2. row' = [row EXCEPT ![s] = other]  BY <2>1 DEF other
    <3> QED BY <3>1, <3>2
  <2>3. Recurring!Switch(s)  BY <2>1, <2>2 DEF Recurring!Switch, Recurring!Kept, Seen
  <2> QED BY <2>3 DEF RecurringMoves, Recurring!Next
<1>4. ASSUME NEW s \in Schedules, PurgeCommit(s) PROVE RecurringMoves
  <2>1. /\ UNCHANGED <<clock, next>> /\ Exists(s) /\ row' = [row EXCEPT ![s] = "purged"]
        /\ executions' = {e \in executions : e.schedule # s}
    BY <1>4 DEF PurgeCommit, PassesInv
  <2>2. \A e : Seen(e).schedule = e.schedule  BY DEF Seen
  <2>3. {Seen(e) : e \in executions}'
          = {o \in {Seen(e) : e \in executions} : o.schedule # s}
    <3>1. {Seen(e) : e \in executions'} = {o \in {Seen(e) : e \in executions} : o.schedule # s}
      BY <2>1, <2>2
    <3> QED BY <3>1 DEF Seen
  <2>4. Recurring!Purge(s)  BY <2>1, <2>3 DEF Recurring!Purge, Recurring!Kept, Exists
  <2> QED BY <2>4 DEF RecurringMoves, Recurring!Next
<1>5. ASSUME NEW e \in executions, RetainRun(e) PROVE RecurringMoves
  <2> DEFINE g == [schedule |-> e.schedule, for |-> e.for, at |-> e.at,
                   status |-> "retained_data_deleted"]
  <2>1. executions' = (executions \ {e}) \union {g} /\ e.status = "queued"
    BY <1>5 DEF RetainRun, Execution
  <2>2. Seen(g) = Seen(e)  BY <2>1 DEF Seen
  <2> HIDE DEF g
  <2>3. {Seen(x) : x \in executions'} = {Seen(x) : x \in executions}
    BY <2>1, <2>2
  <2>4. UNCHANGED <<clock, row, next>>  BY <1>5 DEF RetainRun, scheduleVars
  <2>5. Served' = Served  BY <2>3 DEF Served, Seen
  <2> QED BY <2>4, <2>5 DEF RecurringMoves
<1>6. ASSUME NEW d \in Dispatchers, Trigger(d) PROVE RecurringMoves
  BY <1>6, TriggerServes DEF RecurringMoves, Recurring!Next, Trigger
<1>7. CASE Tick
  <2>1. clock' = clock + 1 /\ UNCHANGED <<row, next, executions>>
    BY <1>7 DEF Tick, scheduleVars, evidenceVars
  <2>2. Recurring!Advance  BY <2>1 DEF Recurring!Advance, Seen
  <2> QED BY <2>2 DEF RecurringMoves, Recurring!Next
<1>8. ASSUME NEW s \in Schedules, PurgeRead(s) \/ PurgeFails(s) PROVE RecurringMoves
  BY <1>1, <1>8 DEF PurgeRead, PurgeFails, scheduleVars, evidenceVars
<1>9. ASSUME NEW d \in Dispatchers,
             ListDue(d) \/ OpenSchedule(d) \/ Conflict(d) \/ Abort(d) \/ FinishPass(d)
      PROVE  RecurringMoves
  BY <1>1, <1>9 DEF ListDue, OpenSchedule, Conflict, Abort, FinishPass, scheduleVars, evidenceVars
<1>10. CASE UNCHANGED vars  BY <1>1, <1>10 DEF vars, scheduleVars, evidenceVars
<1> QED
  BY <1>2, <1>3, <1>4, <1>5, <1>6, <1>7, <1>8, <1>9, <1>10 DEF Next, Api, Dispatch, ListNothing

(* However many dispatchers there are, with and without row locks, whatever  *)
(* passes end early: schedules are served as if each occurrence were served  *)
(* in one instant, at its time or later.                                     *)
THEOREM SchedulesImplementRecurrence == Spec => ImplementsRecurrence
<1>1. Init => Recurring!Init
  <2> SUFFICES ASSUME Init PROVE Recurring!Init  OBVIOUS
  <2> QED BY DEF Init, Recurring!Init
<1>2. Init => PassesInv  BY DEF Init, PassesInv
<1>3. Spec => []PassesInv  BY <1>2, PassesStep, Invariance, PTL DEF Spec
<1>4. Inv /\ PassesInv /\ [Next]_vars => [Recurring!Next]_(Recurring!vars)
  <2> SUFFICES ASSUME Inv, PassesInv, [Next]_vars PROVE [Recurring!Next]_(Recurring!vars)
    OBVIOUS
  <2>1. RecurringMoves  BY RecurrenceStep
  <2> QED BY <2>1 DEF RecurringMoves, Served, Recurring!vars
<1> QED BY <1>1, <1>3, <1>4, Invariance, PTL DEF Spec, ImplementsRecurrence, Recurring!Spec

=============================================================================
