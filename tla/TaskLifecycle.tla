--------------------------- MODULE TaskLifecycle ---------------------------
(***************************************************************************)
(* What the rest of the product may rely on about ONE task, whatever the   *)
(* service does around it: the abstract specification that Admission and   *)
(* TurnControl implement.  One step here is one critical section of the    *)
(* service, so a task that is admitted or parked at once is first seen     *)
(* CREATED or QUEUED, and one whose worker thread cannot start is first    *)
(* seen FAILED.                                                            *)
(***************************************************************************)
EXTENDS TaskStates

VARIABLE life

Init == life = Absent

\* create_task: a task becomes visible.
Submit == life = Absent /\ life' \in {"CREATED", "QUEUED", "FAILED"}

\* Any transition of the table, taken by a worker, a control request, the
\* queue or shutdown.
Advance == life \in TaskState /\ life' \in Allowed(life)

\* delete_task: only a finished task disappears.
Discard == life \in Terminal /\ life' = Absent

Next == Submit \/ Advance \/ Discard

Spec == Init /\ [][Next]_life

TypeOK == life \in TaskState \cup {Absent}

=============================================================================
