----------------------------- MODULE Sandboxes ------------------------------
(* The Docker containers of the tasks.  A turn writes the OpenClaw              *)
(* configuration (agent/openclaw_config.py) and starts OpenClaw, which asks the *)
(* Docker daemon for containers under the configured prefix; the daemon may    *)
(* answer after OpenClaw was killed.  When the task is over, the runtime lists *)
(* the containers of the agent and stops and removes them one by one           *)
(* (agent/sandbox.py), and the service files what came of it in cleanup.json.  *)
EXTENDS Naturals, FiniteSets

CONSTANTS Tasks,         \* task ids
          Agents,        \* agent ids; a continued conversation keeps its agent
          MaxContainers  \* bound on the containers ever created

BoundAssumption == MaxContainers \in Nat

VARIABLES task,       \* per task: its agent, its step and what its cleanup found
          data,       \* how the server's data is mounted: read-only, or over the scratch
          pending,    \* container requests on their way to the Docker daemon
          containers, \* the containers on the host, running or stopped
          made,       \* the number of containers ever created
          removed     \* history: <<task whose cleanup removed it, container>>
vars == <<task, data, pending, containers, made, removed>>

NoReport == [ids |-> {}, warnings |-> 0, error |-> FALSE, written |-> FALSE]

(* "seen" is history: what existed under the agent when the cleanup looked.    *)
New == [step |-> "new", agent |-> "", todo |-> {}, report |-> NoReport, seen |-> {}]

Init == /\ task = [t \in Tasks |-> New]
        /\ data \in {"ro", "over scratch"}
        /\ pending = {}
        /\ containers = {}
        /\ made = 0
        /\ removed = {}

At(t, step) == task[t].step = step
Goes(t, step) == task' = [task EXCEPT ![t].step = step]
Live(t) == task[t].step \notin {"new", "done"}
Docker == <<data, pending, containers, made, removed>>

-----------------------------------------------------------------------------
(* create_task gives every task an agent of its own, a continuation that of    *)
(* its finished parent.                                                        *)
Begin(t, agent) ==
  /\ At(t, "new")
  /\ \A u \in Tasks : task[u].agent = agent => ~Live(u)
  /\ task' = [task EXCEPT ![t].step = "idle", ![t].agent = agent]
  /\ UNCHANGED Docker

(* _validate_data_bind: data is mounted read-only and not over the scratch.    *)
ConfigAllowed == data = "ro"

\* The configuration's prefix and the one the cleanup asks for are written
\* down in two places.
ContainerPrefix(t) == <<"scopex", task[t].agent>>
CleanupPrefix(t) == <<"scopex", task[t].agent>>

(* build_openclaw_config: the data binds, then the task's own scratch, the one *)
(* writable mount.                                                             *)
Mounts(t) == {<<"data", data>>, <<t, "rw">>}

StartTurn(t) ==
  /\ At(t, "idle")
  /\ IF ConfigAllowed THEN Goes(t, "turn") ELSE Goes(t, "over")
  /\ UNCHANGED Docker

(* External: OpenClaw asks the daemon, the daemon obeys when it comes to it.   *)
Ask(t) == /\ At(t, "turn")
          /\ made + Cardinality(pending) < MaxContainers
          /\ pending' = pending \cup
               {[prefix |-> ContainerPrefix(t), mounts |-> Mounts(t), of |-> t]}
          /\ UNCHANGED <<task, data, containers, made, removed>>

Created == /\ \E p \in pending :
                /\ pending' = pending \ {p}
                /\ containers' = containers \cup
                     {[id |-> made + 1, prefix |-> p.prefix, mounts |-> p.mounts,
                       of |-> p.of, running |-> TRUE]}
           /\ made' = made + 1
           /\ UNCHANGED <<task, data, removed>>

(* The process ends by itself, or its group is terminated, or killed; what it  *)
(* has asked of the daemon is not taken back.  More turns may follow.          *)
EndTurn(t) == /\ At(t, "turn")
              /\ Goes(t, "idle")
              /\ UNCHANGED Docker

(* The task is COMPLETED, FAILED or CANCELLED; its worker unwinds.             *)
Over(t) == /\ At(t, "idle")
           /\ Goes(t, "over")
           /\ UNCHANGED Docker

-----------------------------------------------------------------------------
(* docker ps --filter name=<prefix>.                                           *)
Matching(t) == {c \in containers : c.prefix = CleanupPrefix(t)}

ReportOf(t, ids, warnings, error) ==
  [ids |-> ids, warnings |-> warnings, error |-> error, written |-> FALSE]

(* A listing that fails, times out or returns something that is no id is the   *)
(* one warning of an empty result.                                             *)
List(t) ==
  /\ At(t, "over")
  /\ LET ids == {c.id : c \in Matching(t)}
         seen == {c.id : c \in {c \in containers : task[c.of].agent = task[t].agent}}
     IN \/ task' = [task EXCEPT ![t].step = "stop", ![t].todo = ids, ![t].seen = seen,
                                ![t].report = ReportOf(t, ids, 0, FALSE)]
        \/ task' = [task EXCEPT ![t].step = "write", ![t].seen = seen,
                                ![t].report = ReportOf(t, {}, 1, FALSE)]
  /\ UNCHANGED Docker

Current(t) == CHOOSE id \in task[t].todo : \A other \in task[t].todo : id <= other

\* Mutant: a failing command is passed over in silence.
WarnedNot(t, step) == [task EXCEPT ![t].step = step]

(* A command that ends with an error adds a warning and the loop goes on; one  *)
(* that times out raises out of the loop, and the service files the error.     *)
Warned(t, step) == [task EXCEPT ![t].step = step, ![t].report.warnings = @ + 1]

TimedOut(t) == [task EXCEPT ![t].step = "write", ![t].report = ReportOf(t, {}, 0, TRUE)]

Stopped(id) == {IF c.id = id THEN [c EXCEPT !.running = FALSE] ELSE c : c \in containers}

Stop(t) ==
  /\ At(t, "stop")
  /\ task[t].todo # {}
  /\ \/ containers' = Stopped(Current(t)) /\ Goes(t, "rm")
     \/ UNCHANGED containers /\ task' = Warned(t, "rm")
     \/ containers' \in {containers, Stopped(Current(t))} /\ task' = TimedOut(t)
  /\ UNCHANGED <<data, pending, made, removed>>

Gone(t) == /\ containers' = {c \in containers : c.id # Current(t)}
           /\ removed' = removed \cup {<<t, c>> : c \in containers \ containers'}
Kept == UNCHANGED <<containers, removed>>

Next1(t) == [task EXCEPT ![t].step = "stop", ![t].todo = @ \ {Current(t)}]

Remove(t) ==
  /\ At(t, "rm")
  /\ \/ Gone(t) /\ task' = Next1(t)
     \/ Kept /\ task' = [Warned(t, "stop") EXCEPT ![t].todo = @ \ {Current(t)}]
     \/ (Gone(t) \/ Kept) /\ task' = TimedOut(t)
  /\ UNCHANGED <<data, pending, made>>

Listed(t) == /\ At(t, "stop")
             /\ task[t].todo = {}
             /\ Goes(t, "write")
             /\ UNCHANGED Docker

(* _cleanup_terminal_locked, once for a task: the result, or the error in its  *)
(* place when the first write fails too.                                       *)
File(t) ==
  /\ At(t, "write")
  /\ \/ task' = [task EXCEPT ![t].step = "done", ![t].report.written = TRUE]
     \/ task' = [task EXCEPT ![t].step = "done",
                   ![t].report = [ReportOf(t, {}, 0, TRUE) EXCEPT !.written = TRUE]]
     \/ Goes(t, "done")
  /\ UNCHANGED Docker

Task(t) == \/ \E agent \in Agents : Begin(t, agent)
           \/ StartTurn(t) \/ Ask(t) \/ EndTurn(t) \/ Over(t)
           \/ List(t) \/ Stop(t) \/ Remove(t) \/ Listed(t) \/ File(t)

Next == Created \/ \E t \in Tasks : Task(t)

Spec == Init /\ [][Next]_vars

-----------------------------------------------------------------------------
(* A cleanup.json without a warning and without an error means what it says:   *)
(* no container of the agent that existed when the cleanup looked is left, and *)
(* it names them all.                                                          *)
CleanReportsTrue ==
  \A t \in Tasks :
    LET r == task[t].report IN
      r.written /\ r.warnings = 0 /\ ~r.error =>
        /\ task[t].seen = r.ids
        /\ \A c \in containers : c.id \notin task[t].seen

(* A cleanup removes containers of its own agent only, never one of a task     *)
(* that is still at work beside it.                                            *)
OthersUntouched ==
  \A r \in removed : task[r[1]].agent = task[r[2].of].agent

(* Nothing in a container is writable but the scratch of the task it was made  *)
(* for, and no data lies over that scratch.                                    *)
MountsIsolated ==
  \A c \in containers : \A m \in c.mounts : m[2] = "ro" \/ m = <<c.of, "rw">>

TypeOK == /\ made \in 0 .. MaxContainers
          /\ \A t \in Tasks : task[t].todo \subseteq 1 .. MaxContainers
          /\ \A c \in containers : c.id \in 1 .. made
=============================================================================
