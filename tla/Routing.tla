------------------------------- MODULE Routing -------------------------------
(***************************************************************************)
(* What becomes of a task when a turn of its agent has ended: another turn *)
(* for a waiting instruction, a pause, a finalization, a conversation, or  *)
(* a failure (api/service.py, runtime/investigation.py, convergence.py).   *)
(*                                                                         *)
(* A task created as "auto" is nothing yet.  What its turns touch decides  *)
(* whether it becomes a conversation or a task held to the audited result  *)
(* boundary, and the decision is taken from two sources that may disagree: *)
(* the calls in the requests of the last turn, which repeat those of the   *)
(* turns before unless OpenClaw has compacted them, and the evidence kept  *)
(* from all turns.                                                         *)
(***************************************************************************)
EXTENDS Integers, Sequences

CONSTANTS
    MaxStaleRounds,  \* ConvergencePolicy.max_stale_rounds
    MaxItems,        \* bound: items of evidence of one kind
    MaxTurns         \* bound: turns of one task

RoutingAssumption ==
    MaxStaleRounds \in Nat \ {0} /\ MaxItems \in Nat \ {0} /\ MaxTurns \in Nat \ {0}

VARIABLES
    born,      \* the mode the task was created with
    mode,      \* task.mode
    state,     \* task.state
    native,    \* coordinator.native_answers
    messages,  \* whether the session's messages hold a business call
    traced,    \* whether a request of this turn held one
    catalog,   \* the number of business items and of other ones
    rounds,    \* _stale_rounds, and _last_evidence_count
    turn,      \* the turn that runs, or how the last one ended
    waiting,   \* steering.pending
    reasons,   \* the reasons of the finalization or of the failure
    gains      \* history: for each turn, the items it added

vars == <<born, mode, state, native, messages, traced, catalog, rounds, turn, waiting,
          reasons, gains>>

Evidenced == catalog.business + catalog.other
Runs  == [runs |-> TRUE]

\* The ways a turn ends.  A guard is recognised by the error of the CLI's
\* envelope, which is a blocker of completion too; the proxy may have reached
\* a limit and the CLI still end with an answer.
Ends == {e \in [runs : {FALSE}, limit : BOOLEAN, guard : BOOLEAN, normal : BOOLEAN] :
            ~(e.guard /\ e.normal)}

Init ==
    /\ born \in {"auto", "task", "conversation"}
    /\ mode = born
    /\ state = "RUNNING"
    /\ native \in BOOLEAN
    /\ messages = FALSE /\ traced = FALSE
    /\ catalog = [business |-> 0, other |-> 0]
    /\ rounds = [stale |-> 0, counted |-> 0]
    /\ turn = Runs
    /\ waiting = FALSE
    /\ reasons = <<>>
    /\ gains = <<>>

-----------------------------------------------------------------------------
(* A turn.                                                                 *)

\* What a request or the session changes about the business calls told.
Told == /\ turn = Runs
        /\ UNCHANGED <<born, mode, state, native, catalog, rounds, turn, waiting, reasons, gains>>

\* A call under the business prefixes, or a command with one of the markers,
\* and the request that returns its result.
Touch == Told /\ messages' = TRUE /\ traced' = TRUE

\* The first request of a turn repeats the messages of the session ...
Ask == Told /\ messages /\ traced' = TRUE /\ UNCHANGED messages

\* ... unless OpenClaw has compacted them.
Compact == Told /\ messages /\ messages' = FALSE /\ UNCHANGED traced

\* checkpoint_evidence_progress
Checkpoint(count) ==
    [stale   |-> IF count > rounds.counted THEN 0 ELSE rounds.stale + 1,
     counted |-> count]

\* The turn's requests are projected, which adds business items only where
\* a business call was made.
TurnEnds(end, business, other) ==
    /\ turn = Runs /\ Len(gains) < MaxTurns
    /\ business > 0 => traced
    /\ end.normal => (messages => traced)
    /\ catalog.business + business <= MaxItems /\ catalog.other + other <= MaxItems
    /\ catalog' = [business |-> catalog.business + business, other |-> catalog.other + other]
    /\ rounds' = Checkpoint(Evidenced + business + other)
    /\ gains' = Append(gains, business + other)
    /\ turn' = end
    /\ UNCHANGED <<born, mode, state, native, messages, traced, waiting, reasons>>

-----------------------------------------------------------------------------
(* The user.                                                               *)

Steer ==
    /\ state = "RUNNING" /\ waiting' = TRUE
    /\ UNCHANGED <<born, mode, state, native, messages, traced, catalog, rounds, turn, reasons, gains>>

Stop ==
    /\ state = "RUNNING"
    /\ state' = "PAUSING" /\ waiting' = FALSE
    /\ UNCHANGED <<born, mode, native, messages, traced, catalog, rounds, turn, reasons, gains>>

NextTurn ==
    /\ Len(gains) < MaxTurns
    /\ turn' = Runs /\ traced' = FALSE
    /\ UNCHANGED <<born, mode, native, messages, catalog, rounds, reasons, gains>>

Resume == state = "PAUSED" /\ state' = "RUNNING" /\ NextTurn /\ UNCHANGED waiting

-----------------------------------------------------------------------------
(* _drive_after_turn, in the order of its conditions.                      *)

Ended == ~turn.runs

Drives == UNCHANGED <<born, native, messages, traced, catalog, rounds, turn, waiting, gains>>

Pause == Ended /\ state = "PAUSING" /\ state' = "PAUSED" /\ UNCHANGED <<mode, reasons>> /\ Drives

\* continue_pending_steering drains the queue.
Continue == Ended /\ state = "RUNNING" /\ waiting /\ waiting' = FALSE /\ NextTurn /\ UNCHANGED state

Decides == Ended /\ state = "RUNNING" /\ ~waiting

Resolved(to) == IF mode = "auto" THEN to ELSE mode

\* _has_business_evidence
HasBusinessEvidence == catalog.business > 0

\* _turn_attempted_business_work: the calls in the messages of the requests.
AttemptedBusinessWork == traced

Goes(to, as, why) == /\ state' = to /\ mode' = Resolved(as) /\ reasons' = why
                     /\ Drives

Fails(why) == Goes("FAILED", mode, <<why>>)

\* finish_native_answer, whatever the mode has become.
Native ==
    /\ Decides /\ native
    /\ LET task == HasBusinessEvidence \/ AttemptedBusinessWork \/ ~turn.normal
           errors == ~turn.normal \/ turn.limit \/ turn.guard
       IN  Goes(IF errors THEN "FAILED" ELSE "COMPLETED",
                IF task THEN "task" ELSE "conversation",
                IF errors THEN <<"native_answer">> ELSE <<"openclaw_completed">>)

\* begin_runtime_limit_finalization and begin_runtime_guard_finalization
Bounded ==
    /\ Decides /\ ~native /\ (turn.limit \/ turn.guard)
    /\ LET why == IF turn.limit THEN "budget_reached" ELSE "runtime_guard_reached"
       IN  IF Evidenced > 0 THEN Goes("FINALIZING", "task", <<why>>)
                        ELSE Goes("FAILED", "task", <<why, "without_evidence">>)

Unbounded == Decides /\ ~native /\ ~turn.limit /\ ~turn.guard

\* evaluate
Convergence(goalSatisfied) ==
    (IF goalSatisfied THEN <<"goal_satisfied">> ELSE <<>>)
    \o (IF rounds.stale >= MaxStaleRounds THEN <<"no_new_evidence">> ELSE <<>>)

\* begin_finalization if the policy allows it, and _fail_incomplete_turn.
Finalizes ==
    LET why == Convergence(turn.normal)
    IN  IF why # <<>> THEN Goes("FINALIZING", "task", why)
                      ELSE Goes("FAILED", "task", <<"investigation_turn_incomplete">>)

\* _complete_conversation
Converses == Goes("COMPLETED", "conversation", <<>>)

\* The branches of a task that is still "auto".
DecideAuto ==
    /\ Unbounded /\ mode = "auto"
    /\ \/ HasBusinessEvidence /\ Finalizes
       \/ /\ ~HasBusinessEvidence /\ AttemptedBusinessWork
          /\ Goes("FAILED", "task", <<"investigation_completed_without_business_evidence">>)
       \/ /\ ~HasBusinessEvidence /\ ~AttemptedBusinessWork
          /\ IF turn.normal THEN Converses ELSE Fails("investigation_turn_incomplete")

\* A conversation is published as one, whatever it touched.
DecideConversation == Unbounded /\ mode = "conversation" /\ turn.normal /\ Converses

DecideTask ==
    /\ Unbounded /\ mode # "auto" /\ ~(mode = "conversation" /\ turn.normal)
    /\ IF Evidenced = 0 THEN Fails("investigation_completed_without_evidence") ELSE Finalizes

User == Steer \/ Stop \/ Resume

Next ==
    \/ Touch \/ Ask \/ Compact \/ User
    \/ \E end \in Ends, business, other \in 0..1 : TurnEnds(end, business, other)
    \/ Pause \/ Continue \/ Native \/ Bounded
    \/ DecideAuto \/ DecideConversation \/ DecideTask

Spec == Init /\ [][Next]_vars

-----------------------------------------------------------------------------
(* Properties.                                                             *)

\* service.py, TaskService: a run nobody classified is published as a
\* conversation only after a normal turn, with no business evidence from any
\* of its turns and no business call in any request of the last one.
ConversationTouchedNothing ==
    born = "auto" /\ mode = "conversation" =>
        turn.normal /\ catalog.business = 0 /\ ~traced

\* investigation.py, convergence: a task is only said to have run dry after
\* that many turns in a row that brought nothing.
RanDryIsTrue ==
    \A i \in DOMAIN reasons : reasons[i] = "no_new_evidence" =>
        /\ Len(gains) >= MaxStaleRounds
        /\ \A k \in (Len(gains) - MaxStaleRounds + 1)..Len(gains) : gains[k] = 0

\* service.py: a task that is finalized has something to tell, and one that
\* a limit or a guard ended is never told to have satisfied its goal.
FinalizedIsHonest ==
    state = "FINALIZING" =>
        /\ Evidenced > 0 /\ mode # "auto"
        /\ turn.limit \/ turn.guard => reasons \in {<<"budget_reached">>, <<"runtime_guard_reached">>}
        /\ ~turn.normal => \A i \in DOMAIN reasons : reasons[i] # "goal_satisfied"

RoutesSound == ConversationTouchedNothing /\ RanDryIsTrue /\ FinalizedIsHonest
=============================================================================
