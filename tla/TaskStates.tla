----------------------------- MODULE TaskStates -----------------------------
(***************************************************************************)
(* The product task state machine of scopex/runtime/task.py: the states of *)
(* TaskState, the transition table _ALLOWED that Task.transition enforces  *)
(* and Task.terminal.  Every other module names task states through it.    *)
(***************************************************************************)

TaskState == {"CREATED", "QUEUED", "RUNNING", "PAUSING", "PAUSED",
              "FINALIZING", "COMPLETED", "FAILED", "CANCELLED"}

Terminal == {"COMPLETED", "FAILED", "CANCELLED"}

\* _ALLOWED[s]: the targets Task.transition accepts from s.  (Transition to
\* the state the task is already in is a no-op, hence a stutter here.)
Allowed(s) ==
  CASE s = "CREATED"    -> {"QUEUED", "RUNNING", "CANCELLED", "FAILED"}
    [] s = "QUEUED"     -> {"CREATED", "CANCELLED", "FAILED"}
    [] s = "RUNNING"    -> {"PAUSING", "FINALIZING"} \cup Terminal
    [] s = "PAUSING"    -> {"PAUSED", "CANCELLED", "FAILED"}
    [] s = "PAUSED"     -> {"RUNNING", "CANCELLED", "FAILED"}
    [] s = "FINALIZING" -> Terminal
    [] OTHER            -> {}

\* No task: before create_task gives it a handle, and after delete_task.
Absent == "ABSENT"

Live(s) == s \in TaskState \ Terminal

=============================================================================
