---------------------------- MODULE TurnControl ----------------------------
(***************************************************************************)
(* The life of one admitted task: the worker's loop over agent turns       *)
(* (TaskService._run_initial, _run_resume, _drive_after_turn), the control *)
(* requests of the user (stop, steer, resume) and the per-turn model proxy *)
(* whose handler threads ask SafeStopGate before forwarding a request.     *)
(*                                                                         *)
(* Sources: scopex/api/service.py, runtime/investigation.py,               *)
(* runtime/controller.py, runtime/stop.py, runtime/steering.py,            *)
(* agent/proxy_control.py, agent/runtime.py.                               *)
(*                                                                         *)
(* Locks.  A control request holds TaskService._lock and _control_lock     *)
(* throughout, a boundary callback holds _control_lock: each is one        *)
(* action.  The drive loop decides under TaskService._lock only, so        *)
(* boundary callbacks run between its reading of the state and its         *)
(* safe_stop: two actions.                                                 *)
(***************************************************************************)
EXTENDS TaskStates, Integers, Sequences, FiniteSets

CONSTANTS
  Handlers,       \* proxy handler threads that may be in flight at once
  MaxSteers,      \* bound: steering instructions accepted for the task
  NativeAnswers,  \* coordinator.native_answers
  Faults          \* may a turn or a publication raise (I/O, subprocess)?

ASSUME SteersAssumption == MaxSteers \in Nat
ASSUME SwitchAssumption == NativeAnswers \in BOOLEAN /\ Faults \in BOOLEAN

VARIABLES
  state,      \* task.state
  pc,         \* where the worker thread is; "none": no worker alive
  origin,     \* the call that led to _run_turn: "start", "resume", "steer"
  gate,       \* SafeStopGate: requested, reason, reached ("no" for None)
  pending,    \* PendingSteeringQueue._items, by index
  inhand,     \* instructions drained for a turn that has not begun
  steers,     \* instructions accepted so far (_next_index - 1)
  heard,      \* instructions some turn began with
  waived,     \* instructions accepted before the last stop
  handler,    \* handler -> its step: idle, hook, forward, user_stop, user_steer
  stale,      \* handler -> its proxy is stopping (its turn is over)
  result      \* result.json: "none", "valid", "invalid"

control == <<gate, pending, inhand, steers, heard, waived>>
proxy   == <<handler, stale>>
vars    == <<state, pc, origin, control, proxy, result>>

Reasons == {"user_stop", "user_steer"}

TypeOK ==
  /\ state \in TaskState \cup {Absent}
  /\ pc \in {"none", "begin", "resuming", "enter", "turn", "drive", "steer",
             "safestop", "publish", "settle", "raise"}
  /\ origin \in {"start", "resume", "steer"}
  /\ gate \in [requested : BOOLEAN, reason : Reasons, reached : Reasons \cup {"no"}]
  /\ pending \in Seq(1 .. MaxSteers)
  /\ inhand \in SUBSET (1 .. MaxSteers)
  /\ steers \in 0 .. MaxSteers
  /\ heard \in SUBSET (1 .. MaxSteers)
  /\ waived \in 0 .. steers
  /\ handler \in [Handlers -> {"idle", "hook", "forward"} \cup Reasons]
  /\ stale \in [Handlers -> BOOLEAN]
  /\ result \in {"none", "valid", "invalid"}

OpenGate == [requested |-> FALSE, reason |-> "user_stop", reached |-> "no"]

Init ==
  /\ state = Absent
  /\ pc = "none"
  /\ origin = "start"
  /\ gate = OpenGate
  /\ pending = <<>>
  /\ inhand = {}
  /\ steers = 0
  /\ heard = {}
  /\ waived = 0
  /\ handler = [h \in Handlers |-> "idle"]
  /\ stale = [h \in Handlers |-> FALSE]
  /\ result = "none"

Elements(s) == {s[i] : i \in 1 .. Len(s)}

-----------------------------------------------------------------------------
(* SafeStopGate *)

\* request(reason): a boundary already reached is not moved.
Requested(reason) ==
  IF gate.reached # "no" THEN gate
  ELSE [gate EXCEPT !.requested = TRUE, !.reason = reason]

\* before_model_request: "no" lets the request pass.
Boundary ==
  IF gate.reached # "no" THEN gate.reached
  ELSE IF gate.requested THEN gate.reason ELSE "no"

-----------------------------------------------------------------------------
(* Control requests; each needs the state the API checks first. *)

\* create_task admits the task and starts its worker.
Launch ==
  /\ state = Absent
  /\ state' = "CREATED"
  /\ pc' = "begin"
  /\ UNCHANGED <<origin, control, proxy, result>>

\* Mutant of Stop: the gate is left to the steering path.
StopUngated ==
  /\ state = "RUNNING"
  /\ state' = "PAUSING"
  /\ pending' = <<>>
  /\ waived' = steers
  /\ UNCHANGED <<pc, origin, gate, inhand, steers, heard, proxy, result>>

Stop ==
  /\ state = "RUNNING"
  /\ state' = "PAUSING"
  /\ pending' = <<>>
  /\ gate' = Requested("user_stop")
  /\ waived' = steers
  /\ UNCHANGED <<pc, origin, inhand, steers, heard, proxy, result>>

Steer ==
  /\ state = "RUNNING"
  /\ steers < MaxSteers
  /\ steers' = steers + 1
  /\ pending' = Append(pending, steers + 1)
  /\ gate' = Requested("user_steer")
  /\ UNCHANGED <<state, pc, origin, inhand, heard, waived, proxy, result>>

\* The state stays PAUSED until the new worker gets to coordinator.resume.
Resume ==
  /\ state = "PAUSED"
  /\ pc = "none"
  /\ pc' = "resuming"
  /\ UNCHANGED <<state, origin, control, proxy, result>>

\* shutdown(): a task nobody works on any more is cancelled.
ShutdownCancel ==
  /\ pc = "none"
  /\ Live(state)
  /\ state' = "CANCELLED"
  /\ UNCHANGED <<pc, origin, control, proxy, result>>

-----------------------------------------------------------------------------
(* Worker: entering a turn *)

\* coordinator.start, up to its call of _run_turn.
BeginStart ==
  /\ pc = "begin"
  /\ state' = "RUNNING"
  /\ pc' = "enter"
  /\ origin' = "start"
  /\ UNCHANGED <<control, proxy, result>>

\* coordinator.resume, up to its call of _run_turn.
BeginResume ==
  /\ pc = "resuming"
  /\ state = "PAUSED"
  /\ state' = "RUNNING"
  /\ gate' = OpenGate
  /\ pc' = "enter"
  /\ origin' = "resume"
  /\ UNCHANGED <<pending, inhand, steers, heard, waived, proxy, result>>

BeginSteerNewest ==
  /\ pc = "steer"
  /\ state = "RUNNING"
  /\ inhand' = {pending[Len(pending)]}
  /\ pending' = SubSeq(pending, 1, Len(pending) - 1)
  /\ gate' = OpenGate
  /\ pc' = "enter"
  /\ origin' = "steer"
  /\ UNCHANGED <<state, steers, heard, waived, proxy, result>>

\* continue_pending_steering: drain and reopen the gate, or, when a stop came
\* first, go back to the loop.
BeginSteer ==
  /\ pc = "steer"
  /\ IF state = "RUNNING"
     THEN /\ inhand' = Elements(pending)
          /\ pending' = <<>>
          /\ gate' = OpenGate
          /\ pc' = "enter"
          /\ origin' = "steer"
     ELSE /\ pc' = "drive"
          /\ UNCHANGED <<inhand, pending, gate, origin>>
  /\ UNCHANGED <<state, steers, heard, waived, proxy, result>>

\* _run_turn: the state is checked again, after the control lock was free.
EnterTurn ==
  /\ pc = "enter"
  /\ state = "RUNNING"
  /\ pc' = "turn"
  /\ heard' = heard \cup inhand
  /\ inhand' = {}
  /\ UNCHANGED <<state, origin, gate, pending, steers, waived, proxy, result>>

\* ValueError("agent turn requires RUNNING task"): only the loop's steering
\* call handles it.
EnterRefused ==
  /\ pc = "enter"
  /\ state # "RUNNING"
  /\ pc' = IF origin = "steer" THEN "drive" ELSE "raise"
  /\ inhand' = {}
  /\ UNCHANGED <<state, origin, gate, pending, steers, heard, waived, proxy, result>>

-----------------------------------------------------------------------------
(* Worker: the turn and what follows it *)

\* run_turn's finally block: the proxy stops, its handlers are not joined.
ProxyStops == stale' = [h \in Handlers |-> TRUE] /\ UNCHANGED handler

\* The OpenClaw process ended, by itself or at the turn's deadline.
TurnEnds ==
  /\ pc = "turn"
  /\ pc' = "drive"
  /\ ProxyStops
  /\ UNCHANGED <<state, origin, control, result>>

TurnRaises ==
  /\ Faults
  /\ pc = "turn"
  /\ pc' = "raise"
  /\ ProxyStops
  /\ UNCHANGED <<state, origin, control, result>>

\* Mutant of DrivePausing: a stop no boundary completed is left alone.
DrivePaused ==
  /\ pc = "drive"
  /\ state = "PAUSED"
  /\ pc' = "none"
  /\ UNCHANGED <<state, origin, control, proxy, result>>

\* _drive_after_turn: a stop is pending, or was completed by a boundary.
DrivePausing ==
  /\ pc = "drive"
  /\ \/ state = "PAUSING" /\ pc' = "safestop"
     \/ state = "PAUSED" /\ pc' = "none"
  /\ UNCHANGED <<state, origin, control, proxy, result>>

\* controller.safe_stop raises unless the task is still PAUSING.
TurnEndSafeStop ==
  /\ pc = "safestop"
  /\ IF state = "PAUSING"
     THEN state' = "PAUSED" /\ pc' = "none"
     ELSE pc' = "raise" /\ UNCHANGED state
  /\ UNCHANGED <<origin, control, proxy, result>>

DriveSteer ==
  /\ pc = "drive"
  /\ state = "RUNNING"
  /\ pending # <<>>
  /\ pc' = "steer"
  /\ UNCHANGED <<state, origin, control, proxy, result>>

\* Mutant of DriveFinalize: instructions that wait are not looked at.
DriveFinalizeAtOnce ==
  /\ pc = "drive"
  /\ state = "RUNNING"
  /\ state' = "FINALIZING"
  /\ pc' = "publish"
  /\ UNCHANGED <<origin, control, proxy, result>>

\* finish_native_answer, or begin_finalization of the evidence path.
DriveFinalize ==
  /\ pc = "drive"
  /\ state = "RUNNING"
  /\ pending = <<>>
  /\ state' = "FINALIZING"
  /\ pc' = "publish"
  /\ UNCHANGED <<origin, control, proxy, result>>

\* Evidence path: no evidence, no convergence, or a conversation's answer.
DriveWithoutFinalization ==
  /\ ~NativeAnswers
  /\ pc = "drive"
  /\ state = "RUNNING"
  /\ pending = <<>>
  /\ \/ state' = "FAILED" /\ UNCHANGED result
     \/ state' = "COMPLETED" /\ result' = "valid"
  /\ pc' = "none"
  /\ UNCHANGED <<origin, control, proxy>>

\* result.json first ...
WriteResult ==
  /\ pc = "publish"
  /\ result' \in {"valid", "invalid"}
  /\ pc' = "settle"
  /\ UNCHANGED <<state, origin, control, proxy>>

\* ... then the terminal state.
Settle ==
  /\ pc = "settle"
  /\ state' = IF result = "valid" THEN "COMPLETED" ELSE "FAILED"
  /\ pc' = "none"
  /\ UNCHANGED <<origin, control, proxy, result>>

PublishRaises ==
  /\ Faults
  /\ pc \in {"publish", "settle"}
  /\ pc' = "raise"
  /\ UNCHANGED <<state, origin, control, proxy, result>>

\* The except clause of the worker thread: controller.fail leaves a finished
\* task alone.
WorkerFails ==
  /\ pc = "raise"
  /\ state' = IF state \in Terminal THEN state ELSE "FAILED"
  /\ pc' = "none"
  /\ UNCHANGED <<origin, control, proxy, result>>

-----------------------------------------------------------------------------
(* Proxy handlers.  OpenClaw sends one model request at a time; handlers of  *)
(* an earlier turn may still be in flight.                                   *)

Arrive(h) ==
  /\ pc = "turn"
  /\ handler[h] = "idle"
  /\ \A g \in Handlers : handler[g] = "idle" \/ stale[g]
  /\ handler' = [handler EXCEPT ![h] = "hook"]
  /\ stale' = [stale EXCEPT ![h] = FALSE]
  /\ UNCHANGED <<state, pc, origin, control, result>>

\* RuntimeRequestHook asks the gate; a request that passes is forwarded unless
\* its proxy is stopping.
AskGate(h) ==
  /\ handler[h] = "hook"
  /\ handler' = [handler EXCEPT ![h] =
                   IF Boundary # "no" THEN Boundary
                   ELSE IF stale[h] THEN "idle" ELSE "forward"]
  /\ gate' = [gate EXCEPT !.reached = Boundary]
  /\ UNCHANGED <<state, pc, origin, pending, inhand, steers, heard, waived,
                 stale, result>>

\* Mutant of OnSafeStop: the task is not looked at again.
OnSafeStopUnchecked(h) ==
  /\ handler[h] \in Reasons
  /\ handler' = [handler EXCEPT ![h] = "idle"]
  /\ state' = IF handler[h] = "user_stop" THEN "PAUSED" ELSE state
  /\ UNCHANGED <<pc, origin, control, stale, result>>

\* on_safe_stop: a steering boundary is only reported, a stop is completed if
\* it is still pending.  The request itself is answered 409.
OnSafeStop(h) ==
  /\ handler[h] \in Reasons
  /\ handler' = [handler EXCEPT ![h] = "idle"]
  /\ state' = IF handler[h] = "user_stop" /\ state = "PAUSING" THEN "PAUSED" ELSE state
  /\ UNCHANGED <<pc, origin, control, stale, result>>

\* The upstream answer was relayed, or the connection closed.
Respond(h) ==
  /\ handler[h] = "forward"
  /\ handler' = [handler EXCEPT ![h] = "idle"]
  /\ UNCHANGED <<state, pc, origin, control, stale, result>>

-----------------------------------------------------------------------------
Worker ==
  \/ BeginStart \/ BeginResume \/ BeginSteer \/ EnterTurn \/ EnterRefused
  \/ TurnEnds \/ TurnRaises \/ DrivePausing \/ TurnEndSafeStop \/ DriveSteer
  \/ DriveFinalize \/ DriveWithoutFinalization \/ WriteResult \/ Settle
  \/ PublishRaises \/ WorkerFails

Proxy(h) == Arrive(h) \/ AskGate(h) \/ OnSafeStop(h) \/ Respond(h)

Next ==
  \/ Launch \/ Stop \/ Steer \/ Resume \/ ShutdownCancel
  \/ Worker
  \/ \E h \in Handlers : Proxy(h)

Spec == Init /\ [][Next]_vars

\* The worker thread keeps running; a turn ends because run_turn kills the
\* process at its deadline.  Nothing is assumed of the user or of handlers.
FairSpec == Spec /\ WF_vars(Worker)

-----------------------------------------------------------------------------
(* Safety *)

\* The gate, the steering queue and the task state are three objects with
\* three locks.  Together they say: a running task is held back at the next
\* model request exactly while an instruction waits for it (else a turn would
\* be cut short for nothing, and its task fail), and a stopped one always is.
GateMatchesControl ==
  /\ state = "RUNNING" => (gate.requested <=> pending # <<>>)
  /\ state \in {"PAUSING", "PAUSED"} => gate.requested /\ pending = <<>>

\* Once a stop or an instruction is accepted no further request is forwarded
\* to the model until the task is resumed or the instruction taken up: not by
\* this turn's handlers and not by those an earlier turn left behind.
NoForwardPastControl ==
  [][(state \in {"PAUSING", "PAUSED"} \/ pending # <<>>) =>
       (\A h \in Handlers : handler'[h] = "forward" => handler[h] = "forward")]_vars

\* An answer is published only when every accepted instruction was part of
\* some turn, unless a later stop withdrew it.
AnswerHeardEverything ==
  state \in {"FINALIZING", "COMPLETED"} => 1 .. steers \subseteq heard \cup 1 .. waived

\* Instructions reach the agent in the order given, each at most once.
InstructionsInOrder ==
  [][\A i \in heard' \ heard, j \in heard : j < i]_vars

\* COMPLETED is never visible before a valid result can be read.
PublishedBeforeCompleted == state = "COMPLETED" => result = "valid"

\* The controls of a task and its answer: the types, the gate, and that
\* COMPLETED and FINALIZING mean an answer that heard everything and is valid.
AnswersSound ==
  TypeOK /\ GateMatchesControl /\ AnswerHeardEverything /\ PublishedBeforeCompleted

\* "Duplicate/late proxy callbacks are harmless": when the loop completes a
\* stop at the turn's end, the stop is still there to complete.
LateCallbackHarmless == pc = "safestop" => state = "PAUSING"

\* A stop pauses the task: it does not make it fail.
StopIsNotFailure == [][state = "PAUSING" => state' # "FAILED"]_vars

Life == INSTANCE TaskLifecycle WITH life <- state
\* The task follows the life cycle of scopex/runtime/task.py: no call above
\* asks Task.transition for a transition it refuses.
ImplementsLifecycle == Life!Spec

-----------------------------------------------------------------------------
(* Liveness *)

\* A stop is acted upon.
StopTakesEffect == state = "PAUSING" ~> state # "PAUSING"

\* Every accepted instruction is heard, withdrawn by a stop, or outlived by
\* the task.
InstructionsTakenUp ==
  \A i \in 1 .. MaxSteers :
    i <= steers ~> i \in heard \/ i <= waived \/ state \in Terminal

\* A control that was accepted takes effect, whatever the turns do.
ControlTakesEffect == StopTakesEffect /\ InstructionsTakenUp

=============================================================================
