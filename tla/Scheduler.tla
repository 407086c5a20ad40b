----------------------------- MODULE Scheduler -----------------------------
(***************************************************************************)
(* ScheduleService of scopex/api/schedules.py: the thread that fires due   *)
(* schedules, the requests that edit them meanwhile, schedules.json, and   *)
(* what a restart does with the occurrences that passed while the process  *)
(* was down.                                                               *)
(*                                                                         *)
(* One action is one critical section of ScheduleService._lock, or the     *)
(* call of TaskService.create_task, which is made outside it.  Whether the *)
(* task is started, queued or refused as busy makes no difference here;    *)
(* Admission models that side.                                             *)
(***************************************************************************)
EXTENDS Integers, FiniteSets

CONSTANTS
  Schedules,      \* schedule ids, never used twice
  Kinds,          \* kinds of rules in use: "interval", "daily", "once"
  Interval,       \* interval_minutes
  Day, Hour,      \* length of a day, and when in it a daily schedule is due
  MaxTime,        \* bound: the clock stops here
  StorageFaults   \* may writing schedules.json, a run or a task raise?

ASSUME KindsAssumption == Kinds \subseteq {"interval", "daily", "once"}
ASSUME TimeAssumption  ==
  Interval \in Nat \ {0} /\ Day \in Nat \ {0} /\ Hour \in 0 .. Day - 1 /\ MaxTime \in Nat
ASSUME FaultsAssumption == StorageFaults \in BOOLEAN

VARIABLES
  now,        \* now_local()
  rows,       \* _items: schedule -> its row, or Absent
  disk,       \* schedules.json
  used,       \* ids handed out so far
  thread,     \* the process and its scheduler thread: off, idle, firing, dead
  due,        \* what _tick collected and has not fired yet
  job,        \* the _trigger call of the scheduler thread, or NoJob
  manual,     \* run_now calls between their two critical sections
  started,    \* when the process was last started
  fired,      \* schedule -> last occurrence passed to create_task, -1 for none
  quiet       \* schedule -> when it was last disabled or deleted

vars == <<now, rows, disk, used, thread, due, job, manual, started, fired, quiet>>

Never  == -1
Absent == [kind |-> "absent"]
NoJob  == [step |-> "none"]

Times == 0 .. MaxTime + 2 * Day + 2 * Interval
\* An enabled schedule always has a next occurrence.
Row   == {r \in [kind : Kinds, enabled : BOOLEAN, at : Times, next : Times \cup {Never}] :
            r.enabled => r.next # Never}
Job   == [step : {"create", "finish"}, id : Schedules, planned : Times, at : Times]

TypeOK ==
  /\ now \in 0 .. MaxTime
  /\ rows \in [Schedules -> Row \cup {Absent}]
  /\ disk \in [Schedules -> Row \cup {Absent}]
  /\ used \in SUBSET Schedules
  /\ \A s \in Schedules \ used : rows[s] = Absent /\ disk[s] = Absent
  /\ thread \in {"off", "idle", "firing", "dead"}
  /\ due \in SUBSET (Schedules \X Times)
  /\ job \in Job \cup {NoJob}
  /\ due # {} \/ job # NoJob => thread = "firing"
  /\ manual \in SUBSET Schedules
  /\ started \in 0 .. now
  /\ fired \in [Schedules -> Times \cup {Never}]
  /\ quiet \in [Schedules -> 0 .. now]

Init ==
  /\ now = 0
  /\ rows = [s \in Schedules |-> Absent]
  /\ disk = rows
  /\ used = {}
  /\ thread = "off"
  /\ due = {}
  /\ job = NoJob
  /\ manual = {}
  /\ started = 0
  /\ fired = [s \in Schedules |-> Never]
  /\ quiet = [s \in Schedules |-> 0]

Up      == thread # "off"
Exists(s) == rows[s] # Absent

\* The row is one the clock looks at, and its time has come.
Ripe(r) == r # Absent /\ r.enabled /\ r.next # Never /\ r.next <= now

-----------------------------------------------------------------------------
(* Occurrences *)

NextDaily(base) ==
  LET today == base - (base % Day) + Hour
  IN  IF today <= base THEN today + Day ELSE today

\* _next_after: the first occurrence of row r later than base.
NextAfter(r, base) ==
  IF r.kind = "interval" THEN base + Interval
  ELSE IF r.kind = "once" THEN r.at ELSE NextDaily(base)

\* The occurrence after planned that is still to come at time t >= planned.
NextFuture(r, planned, t) ==
  IF r.kind = "interval"
  THEN planned + Interval * ((t - planned) \div Interval + 1)
  ELSE NextAfter(r, t)

Moved(r, next) == [r EXCEPT !.next = next]
Expired(r)     == Moved([r EXCEPT !.enabled = FALSE], Never)
Activated(r)   == Moved([r EXCEPT !.enabled = TRUE], NextAfter(r, now))

\* The row of a rule, before it is switched on; only "once" has a time.
Idle(k, at) == [kind |-> k, enabled |-> FALSE, next |-> Never,
                at |-> IF k = "once" THEN at ELSE 0]

\* Mutant of Missed: the occurrence the process was late for stays due.
MissedLess(r) ==
  IF r.kind = "interval" THEN Interval * ((now - r.next) \div Interval)
  ELSE Day * ((now \div Day) - (r.next \div Day))

\* The time the missed occurrences of a recurring row span: for a daily row
\* counted in calendar days.
Missed(r) ==
  IF r.kind = "interval" THEN Interval * ((now - r.next) \div Interval + 1)
  ELSE Day * ((now \div Day) - (r.next \div Day) + 1)

\* _reconcile_offline_misses_locked, for one row.
Reconciled(r) ==
  IF ~Ripe(r) THEN r
  ELSE IF r.kind = "once" THEN Expired(r) ELSE Moved(r, r.next + Missed(r))

-----------------------------------------------------------------------------
(* Requests.  Each changes _items and rewrites schedules.json; when that     *)
(* raises, the change stays in memory only.                                  *)

Persist == disk' = rows' \/ (StorageFaults /\ disk' = disk)

Put(s, r) == rows' = [rows EXCEPT ![s] = r] /\ Persist

Create(s) ==
  /\ Up
  /\ s \notin used
  /\ used' = used \cup {s}
  /\ \E k \in Kinds, at \in now + 1 .. MaxTime :
       \E r \in {Idle(k, at), Activated(Idle(k, at))} : Put(s, r)
  /\ UNCHANGED <<now, thread, due, job, manual, started, fired, quiet>>

Enable(s) ==
  /\ Up
  /\ Exists(s)
  /\ rows[s].kind = "once" => rows[s].at > now
  /\ Put(s, Activated(rows[s]))
  /\ UNCHANGED <<now, used, thread, due, job, manual, started, fired, quiet>>

Disable(s) ==
  /\ Up
  /\ Exists(s)
  /\ Put(s, Expired(rows[s]))
  /\ quiet' = [quiet EXCEPT ![s] = now]
  /\ UNCHANGED <<now, used, thread, due, job, manual, started, fired>>

Delete(s) ==
  /\ Up
  /\ Exists(s)
  /\ Put(s, Absent)
  /\ quiet' = [quiet EXCEPT ![s] = now]
  /\ UNCHANGED <<now, used, thread, due, job, manual, started, fired>>

\* set_assessment_enabled changes nothing the clock looks at.
SetAssessmentEnabled(s) ==
  /\ Up
  /\ Exists(s)
  /\ Put(s, rows[s])
  /\ UNCHANGED <<now, used, thread, due, job, manual, started, fired, quiet>>

\* run_now: an extra execution, which leaves the rule and its clock alone.
RunNow(s) ==
  /\ Up
  /\ Exists(s)
  /\ manual' = manual \cup {s}
  /\ UNCHANGED <<now, rows, disk, used, thread, due, job, started, fired, quiet>>

RunNowDone(s) ==
  /\ s \in manual
  /\ manual' = manual \ {s}
  /\ \/ Exists(s) /\ Put(s, rows[s])
     \/ (~Exists(s) \/ StorageFaults) /\ UNCHANGED <<rows, disk>>
  /\ UNCHANGED <<now, used, thread, due, job, started, fired, quiet>>

-----------------------------------------------------------------------------
(* The scheduler thread *)

\* Mutant of Collect: a disabled row with a time is fired.
CollectDisabled ==
  /\ thread = "idle"
  /\ due' = {<<s, rows[s].next>> : s \in {u \in Schedules :
               Exists(u) /\ rows[u].next # Never /\ rows[u].next <= now}}
  /\ thread' = IF due' = {} THEN "idle" ELSE "firing"
  /\ UNCHANGED <<now, rows, disk, used, job, manual, started, fired, quiet>>

\* First half of _tick.
Collect ==
  /\ thread = "idle"
  /\ due' = {<<s, rows[s].next>> : s \in {u \in Schedules : Ripe(rows[u])}}
  /\ due' # {}
  /\ thread' = "firing"
  /\ UNCHANGED <<now, rows, disk, used, job, manual, started, fired, quiet>>

\* An exception leaves _tick and _loop: the thread is gone.
Die == thread' = "dead" /\ due' = {} /\ job' = NoJob

\* First section of _trigger: a schedule deleted meanwhile raises.
Begin(s, planned) ==
  /\ thread = "firing"
  /\ job = NoJob
  /\ <<s, planned>> \in due
  /\ IF Exists(s)
     THEN /\ job' = [step |-> "create", id |-> s, planned |-> planned, at |-> now]
          /\ due' = due \ {<<s, planned>>}
          /\ UNCHANGED thread
     ELSE Die
  /\ UNCHANGED <<now, rows, disk, used, manual, started, fired, quiet>>

CreateTask ==
  /\ job.step = "create"
  /\ fired' = [fired EXCEPT ![job.id] = job.planned]
  /\ \/ job' = [job EXCEPT !.step = "finish"] /\ UNCHANGED <<thread, due>>
     \/ StorageFaults /\ Die
  /\ UNCHANGED <<now, rows, disk, used, manual, started, quiet>>

\* Mutants of Advanced: the row waits for the occurrence just fired again; an
\* occurrence is left out.
AdvancedNot(r) == IF r.kind = "once" THEN [r EXCEPT !.enabled = FALSE] ELSE r

AdvancedTwice(r) ==
  IF r.kind = "once" THEN Expired(r)
  ELSE Moved(r, NextFuture(r, job.planned, job.at + Interval))

\* What the last section of _trigger makes of the row it finds.
Advanced(r) ==
  IF r.kind = "once" THEN Expired(r) ELSE Moved(r, NextFuture(r, job.planned, job.at))

\* _append_run and the last section of _trigger.
Finish ==
  /\ job.step = "finish"
  /\ \/ /\ IF Exists(job.id) THEN Put(job.id, Advanced(rows[job.id]))
                             ELSE UNCHANGED <<rows, disk>>
        /\ job' = NoJob
        /\ thread' = IF due = {} THEN "idle" ELSE "firing"
        /\ UNCHANGED due
     \/ /\ StorageFaults
        /\ rows' \in {rows} \cup (IF Exists(job.id)
                       THEN {[rows EXCEPT ![job.id] = Advanced(rows[job.id])]} ELSE {})
        /\ UNCHANGED disk
        /\ Die
  /\ UNCHANGED <<now, used, manual, started, fired, quiet>>

-----------------------------------------------------------------------------
(* The process and the clock *)

\* ScheduleService() and start(): the occurrences missed are passed over.
Start ==
  /\ thread = "off"
  /\ rows' = [s \in Schedules |-> Reconciled(disk[s])]
  /\ disk' = rows'
  /\ started' = now
  /\ thread' = "idle"
  /\ UNCHANGED <<now, used, due, job, manual, fired, quiet>>

\* The process ends, at any moment, orderly or not.
Quit ==
  /\ Up
  /\ thread' = "off"
  /\ rows' = [s \in Schedules |-> Absent]
  /\ due' = {}
  /\ job' = NoJob
  /\ manual' = {}
  /\ UNCHANGED <<now, disk, used, started, fired, quiet>>

Tick ==
  /\ now < MaxTime
  /\ now' = now + 1
  /\ UNCHANGED <<rows, disk, used, thread, due, job, manual, started, fired, quiet>>

-----------------------------------------------------------------------------
Request(s) ==
  \/ Create(s) \/ Enable(s) \/ Disable(s) \/ Delete(s) \/ SetAssessmentEnabled(s)
  \/ RunNow(s) \/ RunNowDone(s)

Loop ==
  \/ Collect \/ CreateTask \/ Finish
  \/ \E s \in Schedules, planned \in Times : Begin(s, planned)

Next == (\E s \in Schedules : Request(s)) \/ Loop \/ Start \/ Quit \/ Tick

Spec == Init /\ [][Next]_vars

\* The loop polls every poll_s seconds and create_task returns.
FairSpec == Spec /\ WF_vars(Loop)

-----------------------------------------------------------------------------
(* Safety *)

\* The clock passes each occurrence to the task service at most once, and in
\* order, whatever requests, faults and restarts fall between the firing and
\* the row that records it.
EachOccurrenceOnce == job.step = "create" => job.planned > fired[job.id]

\* "Offline misses are skipped, not caught up": what is fired was still to
\* come when the process started.
NoCatchUp == job.step = "create" => job.planned > started

\* What is fired: each occurrence once, in order, and none of the past of
\* another process.
OccurrencesSound == TypeOK /\ EachOccurrenceOnce /\ NoCatchUp

\* Disabling or deleting a schedule stops every occurrence that was not yet
\* due: an edit that races a firing may miss that one, but no later one.
DisabledIsQuiet ==
  job.step = "create" =>
    \/ Exists(job.id) /\ rows[job.id].enabled
    \/ job.planned <= quiet[job.id]

\* An enabled schedule is never more than one period ahead of the clock: no
\* occurrence is left out, by a late firing, a restart or an edit.
IntervalKept ==
  \A s \in Schedules :
    Exists(s) /\ rows[s].enabled /\ rows[s].kind = "interval" => rows[s].next <= now + Interval

\* The same for daily schedules.
DailyKept ==
  \A s \in Schedules :
    Exists(s) /\ rows[s].enabled /\ rows[s].kind = "daily" => rows[s].next <= now + Day

-----------------------------------------------------------------------------
(* Liveness *)

Overdue(s) == Up /\ Ripe(rows[s])

\* "When due while ScopeX is online, it calls TaskService."
DueIsFired == \A s \in Schedules : Overdue(s) ~> ~Overdue(s)

\* The same as long as the scheduler thread lives.
DueIsFiredByLiveThread == \A s \in Schedules : Overdue(s) ~> ~Overdue(s) \/ thread = "dead"

=============================================================================
