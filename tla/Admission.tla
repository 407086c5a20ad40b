----------------------------- MODULE Admission -----------------------------
(***************************************************************************)
(* TaskService of scopex/api/service.py: admission of tasks to a bounded   *)
(* number of execution slots, the bounded FIFO queue with its timeout, the *)
(* worker threads and their cleanup, pause/resume as the service sees it,  *)
(* conversation continuation, deletion and shutdown.                       *)
(*                                                                         *)
(* One action is one critical section of TaskService._lock, or one step a  *)
(* worker thread takes outside it.  What happens inside an agent turn is   *)
(* in TurnControl; here a turn is the sequence of states it may leave the  *)
(* task in.                                                                *)
(***************************************************************************)
EXTENDS TaskStates, Integers, Sequences, FiniteSets, SequencesExt

CONSTANTS
  Tasks,          \* task identities; an identity is free again once deleted
  Agents,         \* agent ids (one per conversation, one per other task)
  NoAgent,        \* agent of an identity that names no task
  Schedules,      \* schedule ids a scheduled run may carry
  MaxActive,      \* max_active_tasks
  MaxQueued,      \* max_queued_tasks
  ThreadFaults,   \* may Thread.start() raise?
  StorageFaults   \* may a write of task.json or cleanup.json raise?

ASSUME BoundsAssumption == MaxActive \in Nat \ {0} /\ MaxQueued \in Nat
ASSUME TasksAssumption  == IsFiniteSet(Tasks)
ASSUME NamesAssumption  ==
  /\ NoAgent \notin Agents
  /\ Schedules \cap {"task", "conversation", "auto"} = {}
ASSUME FaultsAssumption == ThreadFaults \in BOOLEAN /\ StorageFaults \in BOOLEAN

VARIABLES
  state,      \* handle.task.state, Absent for an identity without a handle
  kind,       \* task.mode, or the schedule_id of a scheduled (task-mode) run
  agent,      \* task.metadata["agent_id"]
  worker,     \* where handle.thread is; "none": worker_alive is false
  runtime,    \* handle.coordinator: "none", "built", "closed" (cleaned)
  active,     \* _active_ids
  queue,      \* _queue
  overdue,    \* how many entries at the head waited for queue_timeout_s
  resuming,   \* agents of continue_conversation calls past their checks
  phase,      \* progress of shutdown(); "up": _shutdown_event is clear
  watching    \* the scopex-admission thread is alive

vars == <<state, kind, agent, worker, runtime, active, queue, overdue,
          resuming, phase, watching>>
\* What _dispatch_locked never touches.
fixed == <<kind, agent, runtime, resuming, phase>>

Modes  == {"task", "conversation", "auto"}
Kinds  == Modes \cup Schedules
Known(t) == state[t] # Absent

TypeOK ==
  /\ state \in [Tasks -> TaskState \cup {Absent}]
  /\ kind \in [Tasks -> Kinds]
  /\ agent \in [Tasks -> Agents \cup {NoAgent}]
  /\ worker \in [Tasks -> {"none", "initial", "resuming", "turn",
                           "unwind", "release", "exit"}]
  /\ runtime \in [Tasks -> {"none", "built", "closed"}]
  /\ active \in SUBSET Tasks
  /\ queue \in Seq(Tasks)
  /\ overdue \in 0 .. Len(queue)
  /\ resuming \in SUBSET (Agents \cup {NoAgent})
  /\ phase \in {"up", "closing", "stopping", "down"}
  /\ watching \in BOOLEAN

Init ==
  /\ state = [t \in Tasks |-> Absent]
  /\ kind = [t \in Tasks |-> "task"]
  /\ agent = [t \in Tasks |-> NoAgent]
  /\ worker = [t \in Tasks |-> "none"]
  /\ runtime = [t \in Tasks |-> "none"]
  /\ active = {}
  /\ queue = <<>>
  /\ overdue = 0
  /\ resuming = {}
  /\ phase = "up"
  /\ watching = (MaxQueued > 0)

-----------------------------------------------------------------------------
(* _dispatch_locked: expire the overdue head of the queue, then launch from *)
(* the head while a slot is free.  An exception ends the loop.  An entry   *)
(* whose _launch_locked raised is already popped: it is FAILED when its    *)
(* thread could not start, and CREATED, held by nobody, when task.json     *)
(* could not be written.                                                   *)

LaunchFailures ==
  (IF ThreadFaults THEN {"FAILED"} ELSE {})
    \cup (IF StorageFaults THEN {"CREATED"} ELSE {})

\* How many of the waiting entries fit beside the tasks of act.
Fit(act) ==
  LET room    == MaxActive - Cardinality(act)
      waiting == Len(queue) - overdue
  IN  IF room <= 0 THEN 0 ELSE IF room < waiting THEN room ELSE waiting

Entries(m, n) == {queue[i] : i \in m .. n}

\* The overdue entries are cancelled, the next n launched, and the lost ones
\* after them left in state end by an exception.
Launched(act, n, lost, end) ==
  LET expired == Entries(1, overdue)
      started == Entries(overdue + 1, overdue + n)
      failed  == Entries(overdue + n + 1, overdue + n + lost)
  IN [state   |-> [t \in Tasks |-> IF t \in expired THEN "CANCELLED"
                                   ELSE IF t \in started THEN "CREATED"
                                   ELSE IF t \in failed THEN end
                                   ELSE state[t]],
      worker  |-> [t \in Tasks |-> IF t \in started THEN "initial" ELSE worker[t]],
      active  |-> act \cup started,
      queue   |-> SubSeq(queue, overdue + n + lost + 1, Len(queue)),
      overdue |-> 0,
      raised  |-> lost > 0]

\* Writing the n-th expired task raised: it is cancelled, the rest stay.
ExpiryFailed(act, n) ==
  [state   |-> [t \in Tasks |-> IF t \in Entries(1, n) THEN "CANCELLED" ELSE state[t]],
   worker  |-> worker,
   active  |-> act,
   queue   |-> SubSeq(queue, n + 1, Len(queue)),
   overdue |-> overdue - n,
   raised  |-> TRUE]

NoDispatch(act) ==
  [state |-> state, worker |-> worker, active |-> act, queue |-> queue,
   overdue |-> overdue, raised |-> FALSE]

\* Every way _dispatch_locked can leave the service, from active set act.
Dispatch(act) ==
  IF phase # "up"
  THEN {NoDispatch(act)}
  ELSE {Launched(act, Fit(act), 0, "CREATED")}
         \cup {Launched(act, n, 1, end) : n \in 0 .. Fit(act) - 1, end \in LaunchFailures}
         \cup {ExpiryFailed(act, n) : n \in IF StorageFaults THEN 1 .. overdue ELSE {}}

Becomes(d) ==
  /\ state' = d.state
  /\ worker' = d.worker
  /\ active' = d.active
  /\ queue' = d.queue
  /\ overdue' = d.overdue

-----------------------------------------------------------------------------
(* create_task *)

\* Mutant of Holds: an unwinding worker is overlooked.
HoldsUnfinished(d, u, a) == agent[u] = a /\ Live(d.state[u])

\* Task u keeps agent a busy in the service state d.
Holds(d, u, a) == agent[u] = a /\ (Live(d.state[u]) \/ d.worker[u] # "none")

\* A generated agent id is new; a continuation brings its parent's, which no
\* running task and no unwinding worker may still use.
AgentAccepted(d, a) ==
  \/ a \in Agents \ (resuming \cup {agent[u] : u \in Tasks})
  \/ a \in resuming /\ \A u \in Tasks : ~Holds(d, u, a)

\* Mutant of ScheduleAccepted: a run that is stopped half-way does not count.
SchedulePaused(d, k) ==
  k \in Schedules =>
    \A u \in Tasks : kind[u] = k => ~Live(d.state[u]) \/ d.state[u] = "PAUSED"

ScheduleAccepted(d, k) ==
  k \in Schedules => \A u \in Tasks : kind[u] = k => ~Live(d.state[u])

\* Mutant of Full: off by one.
Overfull(d) == Cardinality(d.active) > MaxActive

Full(d) == Cardinality(d.active) >= MaxActive

\* The handle is in _handles and its CREATED snapshot could not be written.
SnapshotFailed(d, t) ==
  StorageFaults /\ Becomes([d EXCEPT !.state[t] = "CREATED"])

\* Mutant of Enqueued: appendleft for append.
EnqueuedFirst(d, t) ==
  /\ Full(d)
  /\ Becomes([d EXCEPT !.state[t] = "QUEUED", !.queue = <<t>> \o d.queue])

Enqueued(d, t) ==
  /\ Full(d)
  /\ Becomes([d EXCEPT !.state[t] = "QUEUED", !.queue = Append(d.queue, t)])

Admitted(d, t) ==
  /\ ~Full(d)
  /\ Becomes([d EXCEPT !.state[t] = "CREATED", !.worker[t] = "initial",
                       !.active = d.active \cup {t}])

LaunchFailed(d, t) ==
  /\ ~Full(d)
  /\ \E end \in LaunchFailures : Becomes([d EXCEPT !.state[t] = end])

CreateTask(t, k, a) ==
  /\ state[t] = Absent
  /\ phase = "up"
  /\ k = "conversation" \/ a \notin resuming
  /\ \E d \in Dispatch(active) :
       /\ ~d.raised
       /\ ScheduleAccepted(d, k)
       /\ Full(d) => Len(d.queue) < MaxQueued
       /\ AgentAccepted(d, a)
       /\ \/ SnapshotFailed(d, t) \/ Enqueued(d, t)
          \/ Admitted(d, t) \/ LaunchFailed(d, t)
  /\ kind' = [kind EXCEPT ![t] = k]
  /\ agent' = [agent EXCEPT ![t] = a]
  /\ resuming' \in {resuming, resuming \ {a}}
  /\ UNCHANGED <<runtime, phase, watching>>

\* create_task refuses, or is aborted by the dispatch it runs first.
RefuseTask ==
  /\ phase = "up"
  /\ \E d \in Dispatch(active) : Becomes(d)
  /\ resuming' \in {resuming} \cup {resuming \ {a} : a \in Agents}
  /\ UNCHANGED <<kind, agent, runtime, phase, watching>>

\* continue_conversation reads its parent, then calls create_task: the parent
\* may be continued or deleted by others in between.
ContinueConversation(p) ==
  /\ kind[p] = "conversation"
  /\ state[p] \in Terminal
  /\ resuming' = resuming \cup {agent[p]}
  /\ UNCHANGED <<state, kind, agent, worker, runtime, active, queue, overdue,
                 phase, watching>>

-----------------------------------------------------------------------------
(* Control requests *)

Step(t, from, to) == state[t] = from /\ state' = [state EXCEPT ![t] = to]

Stop(t) ==
  /\ Step(t, "RUNNING", "PAUSING")
  /\ UNCHANGED <<kind, agent, worker, runtime, active, queue, overdue,
                 resuming, phase, watching>>

Resume(t) ==
  /\ state[t] = "PAUSED"
  /\ worker[t] = "none"
  /\ worker' = [worker EXCEPT ![t] = "resuming"]
  /\ UNCHANGED <<state, kind, agent, runtime, active, queue, overdue,
                 resuming, phase, watching>>

\* Mutant of CancelQueued: the entry stays in the queue.
CancelKeepsEntry(t) ==
  /\ Step(t, "QUEUED", "CANCELLED")
  /\ UNCHANGED <<kind, agent, worker, runtime, active, queue, overdue, resuming,
                 phase, watching>>

CancelQueued(t) ==
  /\ Step(t, "QUEUED", "CANCELLED")
  /\ \E i \in 1 .. Len(queue) :
       /\ queue[i] = t
       /\ queue' = RemoveAt(queue, i)
       /\ overdue' = IF i <= overdue THEN overdue - 1 ELSE overdue
  /\ UNCHANGED <<kind, agent, worker, runtime, active, resuming, phase, watching>>

DeleteTask(t) ==
  /\ state[t] \in Terminal
  /\ worker[t] = "none"
  /\ state' = [state EXCEPT ![t] = Absent]
  /\ kind' = [kind EXCEPT ![t] = "task"]
  /\ agent' = [agent EXCEPT ![t] = NoAgent]
  /\ runtime' = [runtime EXCEPT ![t] = "none"]
  /\ active' = active \ {t}
  /\ UNCHANGED <<worker, queue, overdue, resuming, phase, watching>>

-----------------------------------------------------------------------------
(* The worker thread of a task: _run_initial / _run_resume, then the finally *)
(* block of run() in _start_worker_locked.                                   *)

\* The states a task is in while its worker executes the target.
InTarget(t) == worker[t] \in {"initial", "resuming", "turn"}

slots == <<active, queue, overdue>>

\* coordinator_factory returned.
BuildRuntime(t) ==
  /\ worker[t] = "initial"
  /\ runtime[t] = "none"
  /\ runtime' = [runtime EXCEPT ![t] = "built"]
  /\ UNCHANGED <<state, kind, agent, worker, slots, resuming, phase, watching>>

\* coordinator.start, coordinator.resume.
EnterTurn(t) ==
  /\ \/ worker[t] = "initial" /\ runtime[t] = "built" /\ Step(t, "CREATED", "RUNNING")
     \/ worker[t] = "resuming" /\ Step(t, "PAUSED", "RUNNING")
  /\ worker' = [worker EXCEPT ![t] = "turn"]
  /\ UNCHANGED <<kind, agent, runtime, slots, resuming, phase, watching>>

\* A pending stop takes effect, at a request boundary or at the turn's end.
SafeStop(t) ==
  /\ worker[t] = "turn"
  /\ Step(t, "PAUSING", "PAUSED")
  /\ UNCHANGED <<kind, agent, worker, runtime, slots, resuming, phase, watching>>

\* _drive_after_turn publishes; an auto run becomes a task or a conversation.
Publish(t) ==
  /\ worker[t] = "turn"
  /\ \/ Step(t, "RUNNING", "FINALIZING")
     \/ Step(t, "RUNNING", "COMPLETED")
     \/ Step(t, "FINALIZING", "COMPLETED")
  /\ \E k \in {"task", "conversation"} :
       kind' = [kind EXCEPT ![t] = IF @ = "auto" THEN k ELSE @]
  /\ UNCHANGED <<agent, worker, runtime, slots, resuming, phase, watching>>

\* The turn or its publication fails; an auto run may stay unresolved.
FailTurn(t) ==
  /\ worker[t] = "turn"
  /\ Step(t, "RUNNING", "FAILED") \/ Step(t, "FINALIZING", "FAILED")
  /\ kind' \in {kind, [kind EXCEPT ![t] = IF @ = "auto" THEN "task" ELSE @]}
  /\ UNCHANGED <<agent, worker, runtime, slots, resuming, phase, watching>>

\* The target returns with the task paused or finished.
TargetReturns(t) ==
  /\ worker[t] = "turn"
  /\ state[t] \in Terminal \cup {"PAUSED"}
  /\ worker' = [worker EXCEPT ![t] = "unwind"]
  /\ UNCHANGED <<state, kind, agent, runtime, slots, resuming, phase, watching>>

\* Mutant of TargetRaises: the failure overwrites a terminal state.
TargetRaisesLate(t) ==
  /\ InTarget(t)
  /\ worker' = [worker EXCEPT ![t] = "unwind"]
  /\ state' = [state EXCEPT ![t] = "FAILED"]
  /\ UNCHANGED <<kind, agent, runtime, slots, resuming, phase, watching>>

\* The target raises: whatever the task was doing, it has failed.
TargetRaises(t) ==
  /\ InTarget(t)
  /\ worker' = [worker EXCEPT ![t] = "unwind"]
  /\ state' = [state EXCEPT ![t] = IF @ \in Terminal THEN @ ELSE "FAILED"]
  /\ UNCHANGED <<kind, agent, runtime, slots, resuming, phase, watching>>

Cleaned(t) == [runtime EXCEPT ![t] = IF @ = "built" THEN "closed" ELSE @]

\* _cleanup_terminal_locked, outside the lock: a paused task keeps its runtime.
Cleanup(t) ==
  /\ worker[t] = "unwind"
  /\ runtime' = IF state[t] \in Terminal THEN Cleaned(t) ELSE runtime
  /\ worker' = [worker EXCEPT ![t] = "release"]
  /\ UNCHANGED <<state, kind, agent, slots, resuming, phase, watching>>

\* Neither cleanup.json nor its error form can be written: the exception
\* leaves the finally block before the slot is released.
CleanupRaises(t) ==
  /\ StorageFaults
  /\ worker[t] = "unwind"
  /\ state[t] \in Terminal
  /\ runtime[t] = "built"
  /\ runtime' = Cleaned(t)
  /\ worker' = [worker EXCEPT ![t] = "exit"]
  /\ UNCHANGED <<state, kind, agent, slots, resuming, phase, watching>>

\* Mutants of Release: the slot is kept; nothing is dispatched after it is given
\* back.
ReleaseKeepsSlot(t) ==
  /\ worker[t] = "release"
  /\ \E d \in Dispatch(active) : Becomes([d EXCEPT !.worker[t] = "exit"])
  /\ UNCHANGED <<fixed, watching>>

ReleaseOnly(t) ==
  /\ worker[t] = "release"
  /\ worker' = [worker EXCEPT ![t] = "exit"]
  /\ active' = IF state[t] \in Terminal THEN active \ {t} ELSE active
  /\ UNCHANGED <<state, queue, overdue, fixed, watching>>

\* The last critical section: give the slot back and dispatch.
Release(t) ==
  /\ worker[t] = "release"
  /\ \E d \in Dispatch(IF state[t] \in Terminal THEN active \ {t} ELSE active) :
       Becomes([d EXCEPT !.worker[t] = "exit"])
  /\ UNCHANGED <<fixed, watching>>

\* The thread ends: worker_alive turns false.
ThreadEnds(t) ==
  /\ worker[t] = "exit"
  /\ worker' = [worker EXCEPT ![t] = "none"]
  /\ UNCHANGED <<state, kind, agent, runtime, slots, resuming, phase, watching>>

-----------------------------------------------------------------------------
(* The admission thread, the clock and shutdown *)

\* Mutant of QueueWatch: it returns early while no slot is free.
QueueWatchWhenFree ==
  /\ watching
  /\ phase = "up"
  /\ Cardinality(active) < MaxActive
  /\ \E d \in Dispatch(active) : Becomes(d) /\ watching' = ~d.raised
  /\ UNCHANGED fixed

\* _queue_watch, once a second; an exception ends the thread.
QueueWatch ==
  /\ watching
  /\ phase = "up"
  /\ \E d \in Dispatch(active) : Becomes(d) /\ watching' = ~d.raised
  /\ UNCHANGED fixed

\* The oldest entry that was still in time reaches queue_timeout_s.
Tick ==
  /\ overdue < Len(queue)
  /\ overdue' = overdue + 1
  /\ UNCHANGED <<state, kind, agent, worker, runtime, active, queue, resuming,
                 phase, watching>>

BeginShutdown ==
  /\ phase = "up"
  /\ phase' = "closing"
  /\ watching' = FALSE
  /\ UNCHANGED <<state, kind, agent, worker, runtime, slots, resuming>>

\* First critical section: cancel the queue, stop what runs.
StopEverything ==
  /\ phase = "closing"
  /\ phase' = "stopping"
  /\ state' = [t \in Tasks |-> IF t \in Range(queue) THEN "CANCELLED"
                               ELSE IF state[t] = "RUNNING" THEN "PAUSING"
                               ELSE state[t]]
  /\ queue' = <<>>
  /\ overdue' = 0
  /\ UNCHANGED <<kind, agent, worker, runtime, active, resuming, watching>>

\* Mutant of CancelStopped: only tasks still running are cancelled.
CancelRunning ==
  LET idle == {t \in Tasks : worker[t] = "none" /\ state[t] = "RUNNING"}
  IN /\ phase = "stopping"
     /\ phase' = "down"
     /\ state' = [t \in Tasks |-> IF t \in idle THEN "CANCELLED" ELSE state[t]]
     /\ active' = active \ idle
     /\ UNCHANGED <<kind, agent, worker, runtime, queue, overdue, resuming, watching>>

\* Second critical section, after joining the workers or the deadline.
CancelStopped ==
  LET idle == {t \in Tasks : worker[t] = "none" /\ Live(state[t]) /\ runtime[t] # "none"}
  IN /\ phase = "stopping"
     /\ phase' = "down"
     /\ state' = [t \in Tasks |-> IF t \in idle THEN "CANCELLED" ELSE state[t]]
     /\ runtime' = [t \in Tasks |-> IF t \in idle THEN Cleaned(t)[t] ELSE runtime[t]]
     /\ active' = active \ idle
     /\ UNCHANGED <<kind, agent, worker, queue, overdue, resuming, watching>>

-----------------------------------------------------------------------------
Request(t) ==
  \/ \E k \in Kinds, a \in Agents : CreateTask(t, k, a)
  \/ ContinueConversation(t) \/ Stop(t) \/ Resume(t)
  \/ CancelQueued(t) \/ DeleteTask(t)

\* What the worker thread of t does on its own.
Work(t) ==
  \/ BuildRuntime(t) \/ EnterTurn(t) \/ SafeStop(t) \/ Publish(t)
  \/ FailTurn(t) \/ TargetRaises(t)

Unwind(t) ==
  \/ TargetReturns(t) \/ Cleanup(t) \/ CleanupRaises(t) \/ Release(t) \/ ThreadEnds(t)

Next ==
  \/ \E t \in Tasks : Request(t) \/ Work(t) \/ Unwind(t)
  \/ RefuseTask \/ QueueWatch \/ Tick
  \/ BeginShutdown \/ StopEverything \/ CancelStopped

Spec == Init /\ [][Next]_vars

\* The clock advances, the admission thread polls once a second, a worker whose
\* task is finished or paused comes back (its turn has a deadline, the cleanup
\* commands have timeouts) and shutdown proceeds.  Nothing is assumed of turns
\* and requests: a running or paused task may keep its slot for ever.
Fairness ==
  /\ WF_vars(Tick) /\ WF_vars(QueueWatch)
  /\ \A t \in Tasks : WF_vars(Unwind(t))
  /\ WF_vars(StopEverything)

FairSpec == Spec /\ Fairness

-----------------------------------------------------------------------------
(* Safety *)

\* The tasks that use the host: everything a worker is busy with and every
\* task parked half-way.  (A worker past its last section is done.)
Busy == {"initial", "resuming", "turn", "unwind", "release"}
Underway == {"RUNNING", "PAUSING", "PAUSED", "FINALIZING"}
Occupying == {t \in Tasks : worker[t] \in Busy \/ state[t] \in Underway}

\* At no time do more than max_active_tasks tasks occupy the host: not while a
\* finished task is still being cleaned up, and paused tasks count.
SlotBound == Cardinality(Occupying) <= MaxActive

\* Capacity is never lost: an id in _active_ids stands for a task that is
\* unfinished or whose worker is still on its way to give the slot back.
NoSlotLeak == active \subseteq Occupying

\* The queue, the QUEUED states and the capacity check agree whatever mixture
\* of admission, expiry, cancellation and shutdown happened: no entry twice,
\* none stale, none missing, never more than max_queued_tasks.
QueueExact ==
  /\ Range(queue) = {t \in Tasks : state[t] = "QUEUED"}
  /\ Len(queue) = Cardinality(Range(queue))
  /\ Len(queue) <= MaxQueued

\* The queue and the types of the state, under every fault.
QueueSound == TypeOK /\ QueueExact

\* A run of a schedule is refused only because a run of it really is active or queued.
RefusalHasCause ==
  \A t \in Tasks : kind[t] \in Schedules /\ Live(state[t])
                     => t \in active \/ t \in Range(queue)

\* Nobody waits or is refused without a cause: while a slot is free nobody is
\* queued (each section that frees a slot refills it before anyone else can
\* look), and no run that is over stands in the way of its schedule.
WorkConserving ==
  /\ phase = "up" /\ queue # <<>> => Cardinality(active) = MaxActive
  /\ RefusalHasCause

\* One agent id (one OpenClaw session, one sandbox prefix) is never used by
\* two tasks at once, a worker that is still unwinding included.
AgentExclusive ==
  \A t, u \in Tasks :
    /\ agent[t] = agent[u] /\ agent[t] # NoAgent
    /\ Live(state[t]) \/ worker[t] # "none"
    /\ Live(state[u]) \/ worker[u] # "none"
    => t = u

\* Runs of one schedule never pile up, queued ones included.
ScheduleExclusive ==
  \A t, u \in Tasks :
    kind[t] = kind[u] /\ kind[t] \in Schedules /\ Live(state[t]) /\ Live(state[u])
    => t = u

\* What two tasks may not share: an agent id, and a schedule.
Exclusive == AgentExclusive /\ ScheduleExclusive

\* close() removes containers by agent prefix: it must never run while another
\* task has a runtime of that agent, which it would tear down.
CleanupIsolated ==
  [][\A t, u \in Tasks :
       t # u /\ runtime[t] = "built" /\ runtime'[t] = "closed" /\ agent[u] = agent[t]
         => runtime[u] # "built"]_vars

\* First come, first served: a new task starts at once only if nobody waits,
\* else it waits behind all others, and an entry leaves the queue for a slot
\* only if nobody who may still be served was before it.
FirstComeFirstServed ==
  [][/\ (\E t \in Tasks : t \notin active /\ t \in active' /\ ~Known(t)) => queue' = <<>>
     /\ \A t \in Range(queue') \ Range(queue) : queue'[Len(queue')] = t
     /\ \A i, j \in 1 .. Len(queue) :
          i < j /\ queue[j] \in active' => queue[i] \notin Range(queue')]_vars

\* Once shutdown has begun nothing is admitted any more.
NoAdmissionAfterShutdown ==
  [][phase # "up" => \A t \in Tasks :
       state'[t] \in {"CREATED", "QUEUED"} => state'[t] = state[t]]_vars

\* shutdown() returns with every task finished, except those whose worker did
\* not come back within the deadline.
ShutdownSettles ==
  [][phase' = "down" /\ phase # "down" =>
       \A t \in Tasks : Live(state'[t]) => worker'[t] # "none"]_vars

\* Each task follows the life cycle of scopex/runtime/task.py.
Life(t) == INSTANCE TaskLifecycle WITH life <- state[t]
ImplementsLifecycle ==
  /\ \A t \in Tasks : Life(t)!Init
  /\ [][\A t \in Tasks : Life(t)!Next \/ UNCHANGED state[t]]_state

-----------------------------------------------------------------------------
(* Liveness *)

\* The queue timeout is honoured although paused tasks may hold every slot.
QueuedIsServedOrExpires ==
  \A t \in Tasks : state[t] = "QUEUED" ~> state[t] # "QUEUED"

\* A finished task gives its slot back.
FinishedReleasesSlot ==
  \A t \in Tasks : (t \in active /\ state[t] \in Terminal) ~>
                     ~(t \in active /\ state[t] \in Terminal)

=============================================================================
