-------------------------------- MODULE Turn --------------------------------
(***************************************************************************)
(* One agent turn: OpenClawTaskRuntime.run_turn starts a model proxy and   *)
(* the OpenClaw process, the process sends model requests, each served by  *)
(* a handler thread of the proxy, and run_turn turns what is left into the *)
(* turn's result before it cancels the proxy (agent/runtime.py,            *)
(* agent/model_proxy.py, agent/openclaw_runner.py, agent/proxy_control.py, *)
(* agent/request_policy.py, agent/outcome.py, runtime/stop.py).  What      *)
(* stop and steering do to the task around the turn is module TurnControl. *)
(*                                                                         *)
(* Locks.  proxy.lock covers the admission of a request and its entry into *)
(* proxy.connections; everything else a handler does is a step of its own. *)
(* The deadline of the proxy starts before the one of the runner, so the   *)
(* runner times out only when the proxy's deadline is past.                *)
(***************************************************************************)
EXTENDS Integers, Sequences, FiniteSets, SequencesExt

CONSTANTS
    Requested,      \* bound: requests of the turn, each with its handler
    Budgets,        \* the values of proxy.max_requests
    MaxImages,      \* OpenClawRequestPolicy.max_images_per_prompt
    Requests,       \* the bodies OpenClaw may send
    Envelopes,      \* what OpenClaw may print when it exits
    MaxFaults       \* bound: audit writes that fail

ASSUME BoundsAssumption ==
    Budgets \subseteq Nat \ {0} /\ {Requested, MaxImages, MaxFaults} \subseteq Nat
ASSUME RequestsAssumption ==
    Requests \subseteq [json : BOOLEAN, lawful : BOOLEAN, images : Nat, empty : BOOLEAN]
\* finalAssistantVisibleText is the assistant's, or it is not there.
ASSUME EnvelopesAssumption ==
    \A out \in Envelopes : out.final \in {"none", "assistant"}

VARIABLES
    worker,         \* the step of run_turn
    process,        \* OpenClaw: [state, stop]
    late,           \* the deadline of the proxy is past
    gate,           \* SafeStopGate: "open", "requested" or "reached"
    max,            \* proxy.max_requests
    stopping,       \* proxy.stopping
    limit,          \* proxy.runtime_limit_reason
    admitted,       \* the handlers with a record, in the order of its index
    noData,         \* hook.no_data is set
    handler,        \* handler |-> its step, its record, its files, and
                    \* whether OpenClaw was alive to hear its answer
    connections,    \* proxy.connections
    served,         \* history: handlers whose request reached the model
    silenced,       \* history: handlers that asked the hook after noData
    turn,           \* the turn's result
    faults          \* audit writes that have failed

proxyVars == <<stopping, limit, admitted, noData, connections>>
history   == <<served, silenced>>
vars == <<worker, process, late, gate, max, proxyVars, handler, history, turn, faults>>

Handlers == 1..Requested
None == [none |-> TRUE]
Idle == [step |-> "idle", body |-> None, forwarded |-> FALSE, blocked |-> "no",
         file |-> FALSE, meta |-> FALSE, heard |-> FALSE]

Init ==
    /\ worker = "setup"
    /\ process = [state |-> "none", stop |-> "none"]
    /\ late = FALSE
    /\ gate \in {"open", "requested"}
    /\ max \in Budgets
    /\ stopping = FALSE
    /\ limit = "none"
    /\ admitted = <<>>
    /\ noData = FALSE
    /\ handler = [h \in Handlers |-> Idle]
    /\ connections = {}
    /\ served = {}
    /\ silenced = {}
    /\ turn = None
    /\ faults = 0

-----------------------------------------------------------------------------
(* What OpenClaw prints: [whole, error, aborted, fallback, timeout, alive, *)
(* stop, final, payloads]; a payload is [by, visible, failed].             *)

Visible(out) == SelectSeq(out.payloads, LAMBDA p : p.visible)

\* parse_cli_outcome: why the run may not count as completed.
Blockers(out) ==
    {b \in {"error", "aborted", "fallbackUsed", "timeout"} :
        \/ b = "error"        /\ out.error # "none"
        \/ b = "aborted"      /\ out.aborted
        \/ b = "fallbackUsed" /\ out.fallback
        \/ b = "timeout"      /\ out.timeout}
    \cup {b \in {"liveness", "stop_reason", "error_payload", "no_answer"} :
        \/ b = "liveness"      /\ ~out.alive
        \/ b = "stop_reason"   /\ out.stop \notin {"none", "stop", "end_turn"}
        \/ b = "error_payload" /\ \E i \in DOMAIN out.payloads : out.payloads[i].failed
        \/ b = "no_answer"     /\ Visible(out) = <<>>}

\* Whose text is the answer: with an error only the assistant's own draft.
Draft(out) ==
    CASE out.error # "none" -> out.final
      [] out.error = "none" /\ out.stop = "length" /\ out.final # "none" -> out.final
      [] out.error = "none" /\ (out.stop # "length" \/ out.final = "none") ->
            IF Visible(out) = <<>> THEN "none" ELSE Last(Visible(out)).by

\* classify_cli_runtime_guard, parse_cli_outcome: nothing is read of a
\* process that was stopped.
Guard(stop, out) == IF stop = "none" /\ out.whole /\ out.error = "loop"
                    THEN "native_tool_loop_guard" ELSE "none"
Outcome(stop, out) == IF stop = "none" /\ out.whole
                      THEN [blockers |-> Blockers(out), answer |-> Draft(out)] ELSE None

-----------------------------------------------------------------------------
(* run_turn.                                                               *)

\* Proxy, configuration and process; any of them may raise.
Start ==
    /\ worker = "setup"
    /\ \/ worker' = "wait" /\ process' = [process EXCEPT !.state = "alive"]
       \/ worker' = "cancel" /\ UNCHANGED process
    /\ UNCHANGED <<late, gate, proxyVars, handler, history, turn, faults>>

Exit ==
    /\ process.state = "alive"
    /\ process' = [process EXCEPT !.state = "over"]
    /\ UNCHANGED <<worker, late, gate, proxyVars, handler, history, turn, faults>>

\* Mutant of Kill: SIGTERM is taken to be enough.
KillPolitely ==
    /\ worker = "wait" /\ process.state = "alive" /\ late
    /\ process' = [process EXCEPT !.stop = "timeout"]
    /\ UNCHANGED <<worker, late, gate, proxyVars, handler, history, turn, faults>>

\* process.wait times out: SIGTERM to the group, SIGKILL three seconds later.
Kill ==
    /\ worker = "wait" /\ process.state = "alive" /\ late
    /\ process' = [process EXCEPT !.state = "over", !.stop = "timeout"]
    /\ UNCHANGED <<worker, late, gate, proxyVars, handler, history, turn, faults>>

\* Mutant of Reported: only the runner's own timeout is looked at.
ReportedOfRunner == IF process.stop = "timeout" THEN "turn_timeout_budget" ELSE "none"

\* runtime_limit_reason: the proxy's, else the runner's timeout.
Reported == IF limit = "none" /\ process.stop = "timeout" THEN "turn_timeout_budget" ELSE limit

\* The result is built from what OpenClaw printed, its files read now, and
\* from the proxy, whose handlers may still be running.
Collect ==
    /\ worker = "wait" /\ process.state = "over"
    /\ worker' = "cancel"
    /\ \E out \in Envelopes :
          turn' = [stop |-> process.stop, outcome |-> Outcome(process.stop, out),
                   guard |-> Guard(process.stop, out), limit |-> Reported, noData |-> noData,
                   forwarded |-> {h \in ToSet(admitted) : handler[h].forwarded}]
    /\ UNCHANGED <<process, late, gate, proxyVars, handler, history, faults>>

\* proxy.cancel, in finally: the connections of that moment are shut down.
Cancel ==
    /\ worker = "cancel"
    /\ stopping' = TRUE
    /\ worker' = IF turn = None THEN "raised" ELSE "returned"
    /\ UNCHANGED <<process, late, gate, limit, admitted, noData, handler, connections,
                   history, turn, faults>>

-----------------------------------------------------------------------------
(* A handler.                                                              *)

Moves(h, step) == handler' = [handler EXCEPT ![h].step = step]
At(h, step) == handler[h].step = step
Blocks(h, why) == handler' = [handler EXCEPT ![h].step = "commit", ![h].blocked = why]
Breaks(h) ==
    handler' = [handler EXCEPT ![h].step = "final", ![h].blocked = "proxy_error"]
NoteLimit(reason) == limit' = IF limit = "none" THEN reason ELSE limit

\* OpenClaw, its compaction and its retries send requests; handlers are
\* numbered in the order their requests arrive.
Arrive(h) ==
    /\ process.state = "alive" /\ worker = "wait"
    /\ At(h, "idle") /\ \A g \in 1..(h - 1) : ~At(g, "idle")
    /\ \E body \in Requests :
          handler' = [handler EXCEPT ![h].step = "admit", ![h].body = body]
    /\ UNCHANGED <<worker, process, late, gate, proxyVars, history, turn, faults>>

\* Without a record nothing is saved: the refusal is answered at once.
Refused(h, why) == handler' = [handler EXCEPT ![h].step = "answer", ![h].blocked = why]

\* Mutant of Spent: only forwarded requests count.
SpentForwarded == Cardinality({h \in ToSet(admitted) : handler[h].forwarded}) >= max

\* Every admitted request counts, blocked ones too.
Spent == Len(admitted) >= max

Admit(h) ==
    /\ At(h, "admit")
    /\ CASE ~handler[h].body.json \/ stopping ->
               Refused(h, "request") /\ UNCHANGED <<limit, admitted>>
         [] handler[h].body.json /\ ~stopping /\ late ->
               NoteLimit("turn_timeout_budget") /\ Refused(h, "budget") /\ UNCHANGED admitted
         [] handler[h].body.json /\ ~stopping /\ ~late /\ Spent ->
               NoteLimit("model_request_budget") /\ Refused(h, "budget") /\ UNCHANGED admitted
         [] OTHER -> admitted' = Append(admitted, h) /\ Moves(h, "save") /\ UNCHANGED limit
    /\ UNCHANGED <<worker, process, late, gate, stopping, noData, connections, history,
                   turn, faults>>

\* wire-NN-request.json
SaveBody(h) ==
    /\ At(h, "save")
    /\ handler' = [handler EXCEPT ![h].step = "hook", ![h].file = TRUE]
    /\ UNCHANGED <<worker, process, late, gate, proxyVars, history, turn, faults>>

SaveBodyFails(h) ==
    /\ At(h, "save") /\ faults < MaxFaults
    /\ faults' = faults + 1
    /\ Blocks(h, "proxy_error")
    /\ UNCHANGED <<worker, process, late, gate, proxyVars, history, turn>>

\* OpenClawRequestPolicy.validate
Permitted(body) == body.lawful /\ body.images <= MaxImages

\* no_data is remembered from the first request that shows it.
HookFinds(body) == noData \/ body.empty

\* RuntimeRequestHook: policy, observer, gate, then the locator's verdict.
Hook(h) ==
    /\ At(h, "hook")
    /\ LET body == handler[h].body
       IN  \/ /\ ~Permitted(body)
              /\ Blocks(h, "policy")
              /\ UNCHANGED <<gate, noData, silenced>>
           \/ /\ Permitted(body) /\ gate # "open"
              /\ gate' = "reached"
              /\ Blocks(h, "safe_stop")
              /\ UNCHANGED <<noData, silenced>>
           \/ /\ Permitted(body) /\ gate = "open"
              /\ noData' = (noData \/ body.empty)
              /\ silenced' = IF noData THEN silenced \cup {h} ELSE silenced
              /\ IF HookFinds(body) THEN Blocks(h, "local_terminal") ELSE Moves(h, "connect")
              /\ UNCHANGED gate
    /\ UNCHANGED <<worker, process, late, stopping, limit, admitted, connections,
                   served, turn, faults>>

\* The time that remains, then the registration of the connection.
Connect(h) ==
    /\ At(h, "connect")
    /\ CASE late -> /\ NoteLimit("turn_timeout_budget")
                    /\ Blocks(h, "policy")
                    /\ UNCHANGED connections
         [] ~late /\ stopping -> Blocks(h, "safe_stop") /\ UNCHANGED <<limit, connections>>
         [] OTHER -> /\ connections' = connections \cup {h}
                     /\ Moves(h, "forward")
                     /\ UNCHANGED limit
    /\ UNCHANGED <<worker, process, late, gate, stopping, admitted, noData, history,
                   turn, faults>>

\* upstream.request opens the connection: shutting it down before that has
\* no effect on it.
Forward(h) ==
    /\ At(h, "forward")
    /\ handler' = [handler EXCEPT ![h].forwarded = TRUE, ![h].step = "respond"]
    /\ served' = served \cup {h}
    /\ UNCHANGED <<worker, process, late, gate, proxyVars, silenced, turn, faults>>

\* The model server answers, or the wait for its answer fails.
Respond(h) ==
    /\ At(h, "respond")
    /\ Moves(h, "stream") \/ Blocks(h, "proxy_error")
    /\ UNCHANGED <<worker, process, late, gate, proxyVars, history, turn, faults>>

\* The response ends, or breaks: the upstream or the client fails, the
\* response is too large or the proxy is stopping.
Stream(h) ==
    /\ At(h, "stream")
    /\ Moves(h, "final") \/ Breaks(h)
    /\ UNCHANGED <<worker, process, late, gate, proxyVars, history, turn, faults>>

\* The deadline: seen between two chunks it is noted as the limit; a wait
\* for the answer or for a chunk ends in a socket timeout, which is not.
Overdue(h) ==
    /\ late
    /\ \/ At(h, "respond") /\ Blocks(h, "proxy_error") /\ UNCHANGED limit
       \/ /\ At(h, "stream") /\ Breaks(h)
          /\ (~stopping /\ NoteLimit("turn_timeout_budget")) \/ UNCHANGED limit
    /\ UNCHANGED <<worker, process, late, gate, stopping, admitted, noData, connections,
                   history, turn, faults>>

\* persist_record before the error is answered.
Commit(h) ==
    /\ At(h, "commit")
    /\ handler' = [handler EXCEPT ![h].step = "answer", ![h].meta = TRUE]
    /\ UNCHANGED <<worker, process, late, gate, proxyVars, history, turn, faults>>

\* It raises: no answer, and finally tries once more.
CommitFails(h) ==
    /\ At(h, "commit") /\ faults < MaxFaults
    /\ faults' = faults + 1
    /\ Moves(h, "final")
    /\ UNCHANGED <<worker, process, late, gate, proxyVars, history, turn>>

Answer(h) ==
    /\ At(h, "answer")
    /\ handler' = [handler EXCEPT ![h].step = "final",
                                 ![h].heard = (process.state = "alive")]
    /\ UNCHANGED <<worker, process, late, gate, proxyVars, history, turn, faults>>

\* finally: persist_record, then discard and close the connection.
Finally(h) ==
    /\ At(h, "final")
    /\ handler' = [handler EXCEPT ![h].step = "done", ![h].meta = h \in ToSet(admitted)]
    /\ connections' = connections \ {h}
    /\ UNCHANGED <<worker, process, late, gate, stopping, limit, admitted, noData,
                   history, turn, faults>>

\* persist_record raises in finally: the connection stays as it is.
FinallyFails(h) ==
    /\ At(h, "final") /\ faults < MaxFaults
    /\ h \in ToSet(admitted) /\ ~handler[h].meta
    /\ faults' = faults + 1
    /\ Moves(h, "done")
    /\ UNCHANGED <<worker, process, late, gate, proxyVars, history, turn>>

-----------------------------------------------------------------------------

\* A user stops or steers; time passes.
RequestStop ==
    /\ gate = "open" /\ gate' = "requested"
    /\ UNCHANGED <<worker, process, late, proxyVars, handler, history, turn, faults>>
TimePasses ==
    /\ ~late /\ late' = TRUE
    /\ UNCHANGED <<worker, process, gate, proxyVars, handler, history, turn, faults>>

\* What a handler's thread does by itself, and what the model server does.
Serve(h) == /\ \/ Admit(h) \/ SaveBody(h) \/ Hook(h) \/ Connect(h) \/ Forward(h)
               \/ Overdue(h) \/ Commit(h) \/ Answer(h) \/ Finally(h)
            /\ UNCHANGED max
Server(h) == (Respond(h) \/ Stream(h)) /\ UNCHANGED max
Fail(h) == (SaveBodyFails(h) \/ CommitFails(h) \/ FinallyFails(h)) /\ UNCHANGED max
Run == (Start \/ Kill \/ Collect \/ Cancel) /\ UNCHANGED max
Around == (Exit \/ RequestStop \/ \E h \in Handlers : Arrive(h)) /\ UNCHANGED max
Clock == TimePasses /\ UNCHANGED max

Next == Run \/ Around \/ Clock \/ \E h \in Handlers : Serve(h) \/ Server(h) \/ Fail(h)

Spec == Init /\ [][Next]_vars

\* Time passes and threads run; OpenClaw need not exit by itself, and the
\* model server need not answer.
Fairness == /\ WF_vars(Clock) /\ WF_vars(Run)
            /\ \A h \in Handlers : WF_vars(Serve(h))
FairSpec == Spec /\ Fairness

-----------------------------------------------------------------------------
(* Properties.                                                             *)

HandlerState ==
    [step : {"idle", "admit", "save", "hook", "connect", "forward", "respond",
             "stream", "commit", "answer", "final", "done"},
     body : Requests \cup {None}, forwarded : BOOLEAN,
     blocked : {"no", "request", "budget", "policy", "safe_stop",
                "local_terminal", "proxy_error"},
     file : BOOLEAN, meta : BOOLEAN, heard : BOOLEAN]

\* What the variables hold; the result of a turn is typed by its definition.
TypeOK ==
    /\ worker \in {"setup", "wait", "cancel", "returned", "raised"}
    /\ process \in [state : {"none", "alive", "over"}, stop : {"none", "timeout"}]
    /\ late \in BOOLEAN
    /\ gate \in {"open", "requested", "reached"}
    /\ max \in Budgets
    /\ stopping \in BOOLEAN
    /\ limit \in {"none", "turn_timeout_budget", "model_request_budget"}
    /\ admitted \in Seq(Handlers)
    /\ noData \in BOOLEAN
    /\ handler \in [Handlers -> HandlerState]
    /\ connections \subseteq Handlers /\ served \subseteq Handlers
    /\ silenced \subseteq Handlers
    /\ faults \in 0..MaxFaults

\* The model server never sees more requests of one turn than max_requests,
\* however the handlers overlap (the budget is taken at admission, the
\* request sent much later).
BudgetHolds == Cardinality(served) <= max

\* What reaches the model server is on disk in full by then, and a handler
\* that has told OpenClaw why a request was blocked has its record on disk:
\* the decision is committed before the client can act on it.
AuditedFirst ==
    \A h \in ToSet(admitted) :
        /\ handler[h].forwarded => handler[h].file
        /\ handler[h].heard => handler[h].meta

\* Once one request has shown that the locator found no data, no later
\* request of the turn reaches the model, even if compaction has removed
\* the locator's result from it (RuntimeRequestHook.no_data).
NoDataSticks == silenced \cap served = {}

\* A turn in which OpenClaw was told that a budget is used up reports that
\* budget, so that the task is finalized and not failed.
RefusalReported ==
    (turn # None /\ \E h \in Handlers : handler[h].blocked = "budget" /\ handler[h].heard)
        => turn.limit # "none"

\* An answer that came with an error is the assistant's own draft, never a
\* notice of the framework (outcome.parse_cli_outcome).
DraftIsAssistants ==
    (turn # None /\ turn.outcome # None /\ "error" \in turn.outcome.blockers)
        => turn.outcome.answer \in {"assistant", "none"}

\* However the handlers overlap: the budget, the audit before the request,
\* and the locator's verdict hold (model_proxy.py, proxy_control.py).
ProxySound == BudgetHolds /\ AuditedFirst /\ NoDataSticks

\* What the turn reports is what the agent was told, and what the assistant
\* said (runtime.py, outcome.py).
OutcomeReported == RefusalReported /\ DraftIsAssistants

\* A hung process and a silent model server keep neither the worker nor a
\* handler beyond the deadline.
TurnEnds == <>(/\ worker \in {"returned", "raised"}
               /\ \A h \in Handlers : handler[h].step \in {"idle", "done"})

=============================================================================
