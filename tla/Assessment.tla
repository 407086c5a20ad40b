----------------------------- MODULE Assessment -----------------------------
(***************************************************************************)
(* The verdict on a finished task: written with the native answer, by a    *)
(* request of the user, or by the one text classification that may be in   *)
(* flight, and repaired at the next start when the process ended between   *)
(* two of its copies.                                                      *)
(*                                                                         *)
(* Sources: _save_assessment_locked, request_assessment,                   *)
(* _reconcile_assessments, _reconcile_interrupted, delete_task and shutdown *)
(* of scopex/api/service.py, finish_native_answer of                       *)
(* runtime/investigation.py, and scopex/assessment.py.                     *)
(*                                                                         *)
(* One action is one section of TaskService._lock, or a step of the        *)
(* classifier's thread outside it.  Within a section the copies are        *)
(* written one after the other: after any of these writes the process may  *)
(* end, and any of them may raise.                                         *)
(***************************************************************************)
EXTENDS Integers, Sequences, SequencesExt

CONSTANTS
  Tasks,       \* task ids
  NoTask,      \* None
  MaxSaves,    \* bound: assessment ids handed out, over all tasks
  Faults       \* may a write, or Thread.start(), raise?

TaskAssumption == NoTask \notin Tasks
SavesAssumption == MaxSaves \in Nat
FaultAssumption == Faults \in BOOLEAN

VARIABLES
  process,  \* "off", "booting", "up", "closing" (the shutdown event is set)
  todo,     \* while booting: the tasks not yet reconciled
  life,     \* task -> "running", "COMPLETED", "FAILED", "gone"
  held,     \* task -> is it in _handles?
  copies,   \* task -> the copies of its assessment
  flight,   \* _assessment_task_id
  call,     \* the classifier's thread, or NoCall
  ids,      \* assessment ids handed out
  clean     \* task -> no write for it has raised since it was last reconciled

vars == <<process, todo, life, held, copies, flight, call, ids, clean>>

\* A record of scopex/assessment.py.  rev is 0 where it was not persisted.
Status == {"pending", "verdict", "needs_review"}
Record == [id : 0 .. MaxSaves, rev : 0 .. MaxSaves, status : Status \cup {"none"},
           total : 0 .. MaxSaves, logged : BOOLEAN]
None   == [id |-> 0, rev |-> 0, status |-> "none", total |-> 0, logged |-> FALSE]

\* metadata["assessment"] of the handle and of task.json, assessment.json, and
\* the ids in assessment-history.jsonl.
Copies == [mem : Record, row : Record, file : Record, log : Seq(1 .. MaxSaves)]
NoCopies == [mem |-> None, row |-> None, file |-> None, log |-> <<>>]

Call == [step : {"calling", "save", "retry", "done"}, status : Status,
         calls : {0, 1}, base : 0 .. MaxSaves, stored : BOOLEAN]
NoCall == [step |-> "none"]

Finished == {"COMPLETED", "FAILED"}
Running  == process \in {"up", "closing"}

TypeOK ==
  /\ process \in {"off", "booting", "up", "closing"}
  /\ todo \in SUBSET Tasks
  /\ life \in [Tasks -> {"running", "COMPLETED", "FAILED", "gone"}]
  /\ held \in [Tasks -> BOOLEAN]
  /\ copies \in [Tasks -> Copies]
  /\ flight \in Tasks \cup {NoTask}
  /\ call \in Call \cup {NoCall}
  /\ flight = NoTask <=> call = NoCall
  /\ ids \in 0 .. MaxSaves
  /\ clean \in [Tasks -> BOOLEAN]

Init ==
  /\ process = "up"
  /\ todo = {}
  /\ life = [t \in Tasks |-> "running"]
  /\ held = [t \in Tasks |-> TRUE]
  /\ copies = [t \in Tasks |-> NoCopies]
  /\ flight = NoTask
  /\ call = NoCall
  /\ ids = 0
  /\ clean = [t \in Tasks |-> TRUE]

\* Bound: a request leaves ids for the two saves of a thread in flight.
Room(n) == ids + n + 2 <= MaxSaves

-----------------------------------------------------------------------------
(* Saving.  All operators below are about the copies c of one task. *)

\* What get_task finds in the metadata; h: the task is in _handles.
Known(c, h) == IF h THEN c.mem ELSE c.row

\* The record a new one succeeds: the later one of the two stored copies.
Previous(c, h) == IF c.file.rev > Known(c, h).rev THEN c.file ELSE Known(c, h)

\* persisted_record: a new id and the next revision.
Successor(prev, status, total, logged) ==
  [id |-> ids + 1, rev |-> prev.rev + 1, status |-> status, total |-> total, logged |-> logged]

\* The first n writes of record r: assessment.json, the history, the metadata
\* in memory (which cannot fail by itself), task.json.
Written(c, h, r, n) ==
  [mem  |-> IF h /\ n >= 3 THEN r ELSE c.mem,
   row  |-> IF n >= 4 THEN r ELSE c.row,
   file |-> IF n >= 1 THEN r ELSE c.file,
   log  |-> IF n >= 2 THEN Append(c.log, r.id) ELSE c.log]

All == 4

\* _save_assessment_locked of a record that made some calls.
Added(c, h, status, calls) ==
  Successor(Previous(c, h), status, Previous(c, h).total + calls, TRUE)

\* The same of a record that brings its own total.
Totalled(c, h, status, total) ==
  Successor(Previous(c, h), status,
            IF total > Previous(c, h).total THEN total ELSE Previous(c, h).total, TRUE)

\* The process ends: nothing in memory survives.
Lost(cs) == [t \in Tasks |-> [cs[t] EXCEPT !.mem = None]]

Down ==
  /\ process' = "off"
  /\ todo' = {}
  /\ held' = [t \in Tasks |-> FALSE]
  /\ flight' = NoTask
  /\ call' = NoCall

\* Task t's copies become c, and the section goes on.
Becomes(t, c) == copies' = [copies EXCEPT ![t] = c]

\* They become c, and the process ends.
Dies(t, c) == copies' = Lost([copies EXCEPT ![t] = c]) /\ Down /\ UNCHANGED clean

\* They become c, and a write has raised.
Raises(t, c) == Faults /\ Becomes(t, c) /\ clean' = [clean EXCEPT ![t] = FALSE]

-----------------------------------------------------------------------------
(* The task itself *)

\* finish_native_answer up to the write of assessment.json: the result label
\* of the answer, or needs_review; not part of the history.
NativeRecord(t, status) ==
  Successor(copies[t].mem, status, copies[t].mem.total, FALSE)

NativeAnswer(t) ==
  /\ Running
  /\ life[t] = "running"
  /\ held[t]
  /\ copies[t].mem = None
  /\ Room(1)
  /\ ids' = ids + 1
  /\ \E status \in {"verdict", "needs_review"} :
       LET r == NativeRecord(t, status)
           c == [copies[t] EXCEPT !.mem = r, !.file = r]
       IN  \/ Becomes(t, c) /\ UNCHANGED <<process, todo, held, flight, call, clean>>
           \/ Dies(t, c)
           \/ /\ Raises(t, [copies[t] EXCEPT !.mem = [r EXCEPT !.status = "needs_review"]])
              /\ UNCHANGED <<process, todo, held, flight, call>>
  /\ UNCHANGED life

\* Any snapshot of the task while it is not finished.
Snapshot(t) ==
  /\ Running
  /\ life[t] = "running"
  /\ Becomes(t, [copies[t] EXCEPT !.row = copies[t].mem])
  /\ UNCHANGED <<process, todo, life, held, flight, call, ids, clean>>

\* The task finishes; its snapshot goes to task.json.
Finish(t) ==
  /\ Running
  /\ life[t] = "running"
  /\ held[t]
  /\ life' \in {[life EXCEPT ![t] = s] : s \in Finished}
  /\ Becomes(t, [copies[t] EXCEPT !.row = copies[t].mem])
  /\ UNCHANGED <<process, todo, held, flight, call, ids, clean>>

-----------------------------------------------------------------------------
(* request_assessment *)

\* A verdict that can be had without the model: the footer of the answer, or
\* needs_review for a failed task, a missing result or unusable controls.
Judge(t) ==
  /\ process = "up"
  /\ life[t] \in Finished
  /\ flight # t
  /\ Room(1)
  /\ ids' = ids + 1
  /\ \E status \in IF life[t] = "COMPLETED" THEN {"verdict", "needs_review"}
                                            ELSE {"needs_review"}, n \in 0 .. All :
       LET c == Written(copies[t], held[t], Added(copies[t], held[t], status, 0), n)
       IN  \/ /\ n = All
              /\ Becomes(t, c)
              /\ UNCHANGED <<process, todo, held, flight, call, clean>>
           \/ Dies(t, c)
           \/ n < All /\ Raises(t, c) /\ UNCHANGED <<process, todo, held, flight, call>>
  /\ UNCHANGED life

\* Another assessment in flight, or any task active or queued, refuses this.
MayClassify(t) ==
  /\ process = "up"
  /\ life[t] = "COMPLETED"
  /\ flight = NoTask
  /\ \A u \in Tasks : life[u] # "running"

Pending(t) == Added(copies[t], held[t], "pending", 0)

\* The record is stored as pending and the classifier's thread started.
Classify(t) ==
  /\ MayClassify(t)
  /\ Room(1)
  /\ ids' = ids + 1
  /\ \/ /\ Becomes(t, Written(copies[t], held[t], Pending(t), All))
        /\ flight' = t
        /\ call' = [step |-> "calling", status |-> "needs_review", calls |-> 0,
                    base |-> Pending(t).total, stored |-> FALSE]
        /\ UNCHANGED <<process, todo, held, clean>>
     \/ \E n \in 0 .. All : Dies(t, Written(copies[t], held[t], Pending(t), n))
  /\ UNCHANGED life

\* The write of the pending record or Thread.start() raises; one more record,
\* assessment_start_failed, is saved before the exception leaves.
StartFailed(t) ==
  /\ MayClassify(t)
  /\ Room(2)
  /\ ids' = ids + 2
  /\ \E n, m \in 0 .. All :
       LET c == Written(copies[t], held[t], Pending(t), n)
           f == [Added(c, held[t], "needs_review", 0) EXCEPT !.id = ids + 2]
           d == Written(c, held[t], f, m)
       IN  \/ Faults /\ Dies(t, d)
           \/ Raises(t, d) /\ UNCHANGED <<process, todo, held, flight, call>>
  /\ UNCHANGED life

-----------------------------------------------------------------------------
(* The classifier's thread *)

\* The classifier returns a record, having made a call or not, or raises.
Answer ==
  /\ call.step = "calling"
  /\ \E status \in {"verdict", "needs_review"}, n \in {0, 1} :
       call' = [call EXCEPT !.step = "save", !.status = status, !.calls = n]
  /\ UNCHANGED <<process, todo, life, held, copies, flight, ids, clean>>

\* Its record is stored, unless the service is closing.
SaveAnswer ==
  LET t == flight
      s == IF process = "closing" THEN "needs_review" ELSE call.status
  IN /\ call.step = "save"
     /\ ids < MaxSaves
     /\ ids' = ids + 1
     /\ \E n \in 0 .. All :
          LET c == Written(copies[t], held[t], Added(copies[t], held[t], s, call.calls), n)
          IN  \/ /\ n = All
                 /\ Becomes(t, c)
                 /\ call' = [call EXCEPT !.step = "done", !.stored = TRUE]
                 /\ UNCHANGED <<process, todo, held, flight, clean>>
              \/ Dies(t, c)
              \/ /\ n < All
                 /\ Raises(t, c)
                 /\ call' = [call EXCEPT !.step = "retry"]
                 /\ UNCHANGED <<process, todo, held, flight>>
     /\ UNCHANGED life

\* The record of a failed save, with the total it would have reached.
FailedRecord(c, h) == Totalled(c, h, "needs_review", call.base + call.calls)

\* ... which is shown at once if the task is in memory.
Shelved(c, h) ==
  IF h THEN [c EXCEPT !.mem = [id |-> 0, rev |-> 0, status |-> "needs_review",
                               total |-> call.base + call.calls, logged |-> FALSE]]
       ELSE c

SaveFailed ==
  LET t == flight
      c == Shelved(copies[t], held[t])
  IN /\ call.step = "retry"
     /\ ids < MaxSaves
     /\ ids' = ids + 1
     /\ \E n \in 0 .. All :
          LET d == Written(c, held[t], FailedRecord(c, held[t]), n)
          IN  \/ /\ n = All
                 /\ Becomes(t, d)
                 /\ call' = [call EXCEPT !.step = "done", !.stored = TRUE]
                 /\ UNCHANGED <<process, todo, held, flight, clean>>
              \/ Dies(t, d)
              \/ /\ n < All
                 /\ Raises(t, d)
                 /\ call' = [call EXCEPT !.step = "done"]
                 /\ UNCHANGED <<process, todo, held, flight>>
     /\ UNCHANGED life

Release ==
  /\ call.step = "done"
  /\ flight' = NoTask
  /\ call' = NoCall
  /\ UNCHANGED <<process, todo, life, held, copies, ids, clean>>

-----------------------------------------------------------------------------
(* Deletion, shutdown, restart *)

DeleteTask(t) ==
  /\ Running
  /\ life[t] \in Finished
  /\ flight # t
  /\ life' = [life EXCEPT ![t] = "gone"]
  /\ held' = [held EXCEPT ![t] = FALSE]
  /\ Becomes(t, NoCopies)
  /\ UNCHANGED <<process, todo, flight, call, ids, clean>>

BeginShutdown ==
  /\ process = "up"
  /\ process' = "closing"
  /\ UNCHANGED <<todo, life, held, copies, flight, call, ids, clean>>

\* The process ends between two sections, orderly or not.
Quit ==
  /\ process # "off"
  /\ copies' = Lost(copies)
  /\ Down
  /\ UNCHANGED <<life, ids, clean>>

\* _reconcile_interrupted: an unfinished task has failed.
Boot ==
  /\ process = "off"
  /\ process' = "booting"
  /\ todo' = {t \in Tasks : life[t] # "gone"}
  /\ life' = [t \in Tasks |-> IF life[t] = "running" THEN "FAILED" ELSE life[t]]
  /\ UNCHANGED <<held, copies, flight, call, ids, clean>>

\* The copy with the greater revision counts; task.json wins a tie.
Current(c) == IF c.file.rev > c.row.rev THEN c.file ELSE c.row

\* A pending assessment has lost its thread.
Expires(c) == Current(c).status = "pending"

\* Mutants of Repaired: the history is not completed; it is not
\* looked at.
RepairedUnlogged(c, n) ==
  [c EXCEPT !.row = IF n >= 1 THEN Current(c) ELSE @, !.file = IF n >= 2 THEN Current(c) ELSE @]

RepairedBlindly(c, n) ==
  [c EXCEPT !.row = IF n >= 1 THEN Current(c) ELSE @,
            !.file = IF n >= 2 THEN Current(c) ELSE @,
            !.log = IF n >= 3 /\ Current(c).logged THEN Append(@, Current(c).id) ELSE @]

\* The first n repairs: task.json, assessment.json, the history.
Repaired(c, n) ==
  LET r == Current(c)
  IN  [mem  |-> c.mem,
       row  |-> IF n >= 1 THEN r ELSE c.row,
       file |-> IF n >= 2 THEN r ELSE c.file,
       log  |-> IF n >= 3 /\ r.logged /\ r.id \notin Range(c.log)
                THEN Append(c.log, r.id) ELSE c.log]

\* ... and the first n writes that replace it.
Interrupted(c, n) == Written(c, FALSE, Added(c, FALSE, "needs_review", 0), n)

\* _reconcile_assessments for one task; an exception skips its remaining steps.
Reconcile(t) ==
  LET c == Repaired(copies[t], 3)
      expire == Expires(copies[t])
  IN /\ process = "booting"
     /\ t \in todo
     /\ expire => ids < MaxSaves
     /\ \/ /\ Becomes(t, IF expire THEN Interrupted(c, All) ELSE c)
           /\ clean' = [clean EXCEPT ![t] = TRUE]
           /\ todo' = todo \ {t}
           /\ UNCHANGED <<process, held, flight, call>>
        \/ \E d \in {Repaired(copies[t], n) : n \in 0 .. 3}
                      \cup {Interrupted(c, n) : n \in IF expire THEN 1 .. 3 ELSE {}} :
             \/ Dies(t, d)
             \/ /\ Raises(t, d)
                /\ todo' = todo \ {t}
                /\ UNCHANGED <<process, held, flight, call>>
     /\ ids' = IF expire THEN ids + 1 ELSE ids
     /\ UNCHANGED life

Booted ==
  /\ process = "booting"
  /\ todo = {}
  /\ process' = "up"
  /\ UNCHANGED <<todo, life, held, copies, flight, call, ids, clean>>

-----------------------------------------------------------------------------
Request(t) == Judge(t) \/ Classify(t) \/ StartFailed(t) \/ DeleteTask(t)

Worker == Answer \/ SaveAnswer \/ SaveFailed \/ Release

Next ==
  \/ \E t \in Tasks : NativeAnswer(t) \/ Snapshot(t) \/ Finish(t) \/ Request(t) \/ Reconcile(t)
  \/ Worker \/ BeginShutdown \/ Quit \/ Boot \/ Booted

Spec == Init /\ [][Next]_vars

\* The classifier's connection has a deadline and its thread keeps running.
FairSpec == Spec /\ WF_vars(Worker)

-----------------------------------------------------------------------------
(* Safety *)

\* task_summary: what a client sees of a task.
ShownStatus(r, l) ==
  IF l = "FAILED" /\ r.status \in {"verdict", "pending"} THEN "needs_review" ELSE r.status

Shown(t) == ShownStatus(Known(copies[t], held[t]), life[t])

\* Whatever was interrupted between two writes, once a task is reconciled (and
\* until a write for it raises) its copies are one record.
CopiesAgree ==
  \A t \in Tasks : Running /\ life[t] \in Finished /\ clean[t] =>
    /\ copies[t].row = copies[t].file
    /\ held[t] => copies[t].mem = copies[t].row

\* "pending" is shown only while a classification is really in flight.
PendingIsLive ==
  \A t \in Tasks : Running /\ clean[t] /\ Shown(t) = "pending" => flight = t

\* The history never holds an assessment twice, however often a start that
\* completes it is itself interrupted.
LoggedOnce == \A t \in Tasks : IsInjective(copies[t].log)

\* An assessment is replaced only when the history has it, crash or not.
ReplacedByStep ==
  \A t \in Tasks :
    /\ copies'[t].file # copies[t].file /\ copies[t].file.logged
    /\ clean[t] /\ clean'[t] /\ life'[t] # "gone"
    => copies[t].file.id \in Range(copies'[t].log)
ReplacedIsLogged == [][ReplacedByStep]_vars

\* Neither stored copy ever goes back to an earlier assessment.
ForwardByStep ==
  \A t \in Tasks : life'[t] # "gone" =>
    /\ copies'[t].file.rev >= copies[t].file.rev
    /\ copies'[t].row.rev >= copies[t].row.rev
RevisionsForward == [][ForwardByStep]_vars

\* The attempt of the classifier is counted exactly once, whichever of the two
\* saves of its thread succeeded and wherever the first one failed.
AttemptCountedOnce ==
  call.step = "done" /\ call.stored =>
    copies[flight].file.total = call.base + call.calls

\* The files of a deleted task do not come back.
DeletedStaysDeleted == \A t \in Tasks : life[t] = "gone" => copies[t] = NoCopies

-----------------------------------------------------------------------------
(* Liveness *)

\* A classification ends and makes room for the next.
InFlight == flight # NoTask
FlightEnds == InFlight ~> ~InFlight

=============================================================================
