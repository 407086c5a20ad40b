------------------------------ MODULE Finalizer ------------------------------
(***************************************************************************)
(* From the last turn of a task to its published result, and what is on    *)
(* disk at every moment of it.                                             *)
(*                                                                         *)
(* Five ways lead to a result: the fresh structured finalizer with its one *)
(* repair attempt and the optional report composer ("structured"), a       *)
(* payload handed in ("payload"), the text report ("text"), the native     *)
(* answer of the CLI ("native") and a conversation ("conversation").  Each *)
(* writes its files one by one and only then lets the controller finish    *)
(* the task; a write may fail, the process may die between two writes, and *)
(* the next process reconciles what it finds (finalizer/structured.py,     *)
(* text_report.py, report.py, client.py, runtime/investigation.py,         *)
(* storage/runtime_audit.py, storage/audit.py, api/service.py).            *)
(*                                                                         *)
(* A response of the model server is [sent, done, reason, body]: sent is   *)
(* FALSE when the transport raises; body is the parsed payload or Garbage. *)
(***************************************************************************)
EXTENDS Claims

CONSTANTS
    Payloads,       \* the payloads a model may answer with
    Reports,        \* the reports the composer's model may answer with
    LongerRetry,    \* whether truncation_retry_max_tokens is not None
    Composer,       \* whether there is a report composer
    MaxFaults       \* bound: writes and reads that fail

SwitchesAssumption ==
    {LongerRetry, Composer} \subseteq BOOLEAN /\ MaxFaults \in Nat

\* Payloads with lists of claims, and reports with lists of items: anything
\* else is Garbage.
AnswersAssumption ==
    /\ Payloads \subseteq [keys : BOOLEAN, claims : Seq(Claim), summary : Seq(Nat)]
    /\ Reports \subseteq [Sections \cup {"conclusion"} ->
                              Seq([text : BOOLEAN, claims : Seq(Nat), refs : Seq(Nat)])]

VARIABLES
    mode,           \* which way the task is finalized
    step,           \* what the worker does next
    task,           \* task.state in memory
    reasons,        \* the finish reasons of the attempts made
    said,           \* history: the payload the last attempt was given
    verdict,        \* the finalization: [valid, payload, cause]
    todo,           \* the writes that are still to be made
    disk,           \* file |-> its content
    faults,         \* reads and writes that have failed
    crashed         \* whether the process has died

vars == <<mode, step, task, reasons, said, verdict, todo, disk, faults, crashed>>

None     == [none |-> TRUE]
Garbage  == [garbage |-> TRUE]
Modes    == {"structured", "payload", "text", "native", "conversation"}
Terminal == {"COMPLETED", "FAILED", "CANCELLED"}
Unfinished == {"CREATED", "QUEUED", "RUNNING", "PAUSING", "PAUSED", "FINALIZING"}
Files == {"task", "claims", "answer", "result", "final", "report", "meta", "error"}

Rejected(cause) == [valid |-> FALSE, payload |-> None, cause |-> cause]

Init ==
    /\ mode \in Modes
    /\ task = IF mode \in {"native", "conversation"} THEN "RUNNING" ELSE "FINALIZING"
    /\ step = "ask"
    /\ reasons = <<>>
    /\ said = None
    /\ verdict = Rejected("none")
    /\ todo = <<>>
    /\ disk = [f \in Files |-> IF f = "task" THEN task ELSE None]
    /\ faults = 0
    /\ crashed = FALSE

-----------------------------------------------------------------------------
(* One write of a file, or a change of part of result.json.                *)

Put(file, content)  == [file |-> file, content |-> content]
Result(valid, more) ==
    [valid |-> valid, state |-> IF valid THEN "COMPLETED" ELSE "FAILED",
     answer |-> None, report |-> None, body |-> more]

\* _build_product_answer: the claims on disk are validated once more.
Rebuilt ==
    IF disk["claims"] = None THEN None
    ELSE LET again == Normalized(disk["claims"])
         IN  IF Valid(again) THEN Answer(again) ELSE None

Applied(write) ==
    CASE write.file = "answer" ->
            IF Rebuilt = None THEN disk ELSE [disk EXCEPT !["answer"] = Rebuilt]
      [] write.file = "result" ->
            [disk EXCEPT !["result"] =
                [write.content EXCEPT !.answer = IF @ = None /\ write.content.valid
                                                  THEN Rebuilt ELSE @]]
      [] write.file = "patch" -> [disk EXCEPT !["result"] = [@ EXCEPT !.report = write.content]]
      [] OTHER -> [disk EXCEPT ![write.file] = write.content]

\* controller.finalization_completed and complete, or fail.
Settled(valid) == IF valid THEN "COMPLETED" ELSE "FAILED"

-----------------------------------------------------------------------------
(* The structured finalizer.                                               *)

\* StructuredFinalizer._evaluate
Judged(response) ==
    CASE ~response.sent -> Rejected("transport")
      [] response.sent /\ ~response.done -> Rejected("incomplete")
      [] response.sent /\ response.done /\ response.reason # "stop" -> Rejected(response.reason)
      [] OTHER ->
            IF response.body = Garbage THEN Rejected("parse")
            ELSE IF Unhashable(response.body) THEN Rejected("structure")
            ELSE [valid   |-> Valid(Normalized(response.body)),
                  payload |-> Normalized(response.body),
                  cause   |-> "validation"]

\* One more attempt, if the answer was complete but could not be used.
Retries(response) ==
    /\ Len(reasons) = 0
    /\ response.sent /\ response.done
    /\ \/ response.reason = "stop"
       \/ response.reason = "length" /\ LongerRetry

\* A response without a usable body: not parsed, cut short, or never sent.
Unusable ==
    [sent : {TRUE}, done : {TRUE}, reason : {"stop"}, body : {Garbage}]
        \cup [sent : {TRUE}, done : BOOLEAN, reason : {"length", "content_filter", "none"},
              body : {Garbage}]
        \cup {[sent |-> FALSE, done |-> FALSE, reason |-> "none", body |-> Garbage]}

\* Mutant of StructuredWrites: the claims are saved after the result.
StructuredWritesLate(judged) ==
    (IF judged.valid
     THEN <<Put("answer", None), Put("result", Result(TRUE, judged.cause)),
            Put("final", [lines |-> Rendered(judged.payload)])>>
     ELSE <<Put("result", Result(FALSE, judged.cause))>>)
    \o (IF judged.payload = None THEN <<>> ELSE <<Put("claims", judged.payload)>>)

\* persist_claims, then persist_result.
StructuredWrites(judged) ==
    (IF judged.payload = None THEN <<>> ELSE <<Put("claims", judged.payload)>>)
    \o (IF judged.valid
        THEN <<Put("answer", None), Put("result", Result(TRUE, judged.cause)),
               Put("final", [lines |-> Rendered(judged.payload)])>>
        ELSE <<Put("result", Result(FALSE, judged.cause))>>)

NoImages == \A ref \in Refs : ~IsOfType(ref, "image")

\* finish_fresh_finalization when the media loader raises: no attempt.
LoadFails ==
    /\ mode = "structured" /\ step = "ask" /\ reasons = <<>>
    /\ ~NoImages
    /\ verdict' = Rejected("media")
    /\ todo' = StructuredWrites(verdict')
    /\ step' = "write"
    /\ UNCHANGED <<mode, task, reasons, said, disk, faults, crashed>>

\* What an attempt that is to be repeated was answered is not kept.
Answered(response) ==
    LET judged == Judged(response)
    IN  /\ reasons' = Append(reasons, IF response.sent /\ response.done
                                      THEN response.reason ELSE "broken")
        /\ IF ~judged.valid /\ Retries(response)
           THEN UNCHANGED <<said, verdict, step, todo>>
           ELSE /\ said' = IF response.body = Garbage THEN None ELSE response.body
                /\ verdict' = judged
                /\ step' = "write" /\ todo' = StructuredWrites(judged)

Attempt ==
    /\ mode = "structured" /\ step = "ask"
    /\ \/ \E payload \in Payloads :
             Answered([sent |-> TRUE, done |-> TRUE, reason |-> "stop", body |-> payload])
       \/ \E response \in Unusable : Answered(response)
    /\ UNCHANGED <<mode, task, disk, faults, crashed>>

\* finish_finalization: the payload is validated as it is; a list in an
\* enum field raises.
FinishPayload ==
    /\ mode = "payload" /\ step = "ask"
    /\ \E payload \in Payloads :
          /\ said' = payload
          /\ IF Unhashable(payload)
             THEN step' = "raise" /\ UNCHANGED <<verdict, todo>>
             ELSE /\ verdict' = [valid   |-> Valid(Normalized(payload)),
                                 payload |-> Normalized(payload),
                                 cause   |-> "validation"]
                  /\ step' = "write"
                  /\ todo' = <<Put("claims", payload)>> \o Tail(StructuredWrites(verdict'))
    /\ UNCHANGED <<mode, task, reasons, disk, faults, crashed>>

\* ConstrainedReportComposer.run and persist_report_result: a refused
\* report leaves the published result as it is.
Compose ==
    /\ step = "compose"
    /\ \E report \in Reports \cup {Garbage} :
          IF report # Garbage /\ ValidReport(report, verdict.payload)
          THEN todo' = <<Put("report", report), Put("patch", report),
                         Put("meta", Result(TRUE, "report")), Put("patch", report)>>
          ELSE todo' = <<Put("error", Result(FALSE, "report")), Put("patch", None)>>
    /\ step' = "patch"
    /\ UNCHANGED <<mode, task, reasons, said, verdict, disk, faults, crashed>>

-----------------------------------------------------------------------------
(* Plain text: the text report, the native answer, a conversation.         *)

\* A draft is [text, whole, tools]: whole when nothing cut it short or
\* blocked it, tools when the model used the tool channel for it.
Drafts == {d \in [text : {"none", "fits", "over"}, whole : BOOLEAN, tools : BOOLEAN] :
             d.tools => ~d.whole}

\* The answer is published whole only if the run behind it was clean and
\* the text is there and within its limit.
Complete(draft) == draft.whole /\ draft.text = "fits"

Status(draft) ==
    CASE Complete(draft)     -> "complete"
      [] draft.text = "over" -> "partial"
      [] draft.text = "none" \/ (draft.text # "over" /\ draft.tools) -> "unavailable"
      [] OTHER               -> "partial"

\* Business evidence, without the working data of an experiment.
Business == {ref \in Refs : Items[ref].role # "working_derived"}

\* TextReportComposer.run asks once, or not at all: without evidence, and
\* beyond its input capacity or when the original images do not load (both
\* read here as a draft without text).
ReportAsks == Business # {}

TextWrites(draft) ==
    <<Put("result", Result(Complete(draft), Status(draft))),
      Put("report", [text |-> draft.text]),
      Put("final", [text |-> draft.text]),
      Put("meta", Result(Complete(draft), Status(draft)))>>

Publish(draft) ==
    /\ verdict' = [valid |-> Complete(draft), payload |-> None, cause |-> Status(draft)]
    /\ todo' = TextWrites(draft)
    /\ task' = "FINALIZING"
    /\ step' = "write"
    /\ UNCHANGED <<mode, reasons, said, disk, faults, crashed>>

\* TextReportComposer.run, published by _finish_text_report.
FinishTextReport ==
    /\ mode = "text" /\ step = "ask"
    /\ \E draft \in Drafts :
          /\ ~ReportAsks => draft.text = "none" /\ ~draft.tools
          /\ Publish(draft)

\* finish_native_answer (its assessment is in module Assessment): whole when
\* the run ended by itself, without blocker, limit, guard or exit code.
FinishNative ==
    /\ mode = "native" /\ step = "ask"
    /\ \E draft \in Drafts : ~draft.tools /\ Publish(draft)

\* _complete_conversation: the answer of the CLI is the result; it ends
\* the task without FINALIZING.
FinishConversation ==
    /\ mode = "conversation" /\ step = "ask"
    /\ verdict' = [valid |-> TRUE, payload |-> None, cause |-> "conversation"]
    /\ todo' = <<Put("result", Result(TRUE, "conversation")), Put("final", [text |-> "fits"])>>
    /\ step' = "write"
    /\ UNCHANGED <<mode, task, reasons, said, disk, faults, crashed>>

-----------------------------------------------------------------------------
(* The worker: writing, finishing, failing.                                *)

\* AuditStore._atomic_write replaces the file as a whole.
Write ==
    /\ todo # <<>>
    /\ disk' = Applied(Head(todo))
    /\ todo' = Tail(todo)
    /\ UNCHANGED <<mode, step, task, reasons, said, verdict, faults, crashed>>

\* _patch_result starts from nothing when result.json cannot be read.
PatchUnread ==
    /\ todo # <<>> /\ Head(todo).file = "patch"
    /\ faults < MaxFaults
    /\ faults' = faults + 1
    /\ disk' = [disk EXCEPT !["result"] =
                  [valid |-> FALSE, state |-> "none", answer |-> None,
                   report |-> Head(todo).content, body |-> "patched"]]
    /\ todo' = Tail(todo)
    /\ UNCHANGED <<mode, step, task, reasons, said, verdict, crashed>>

\* A write that raises takes the worker out of the finalization.
WriteFails ==
    /\ todo # <<>>
    /\ faults < MaxFaults
    /\ faults' = faults + 1
    /\ todo' = <<>>
    /\ step' = "raise"
    /\ UNCHANGED <<mode, task, reasons, said, verdict, disk, crashed>>

\* The result is written: let a composer add its report.
Composes ==
    /\ todo = <<>> /\ step = "write"
    /\ mode = "structured" /\ verdict.valid /\ Composer
    /\ step' = "compose"
    /\ UNCHANGED <<mode, task, reasons, said, verdict, todo, disk, faults, crashed>>

Finish ==
    /\ todo = <<>>
    /\ step \in {"write", "patch"}
    /\ step = "write" => ~(mode = "structured" /\ verdict.valid /\ Composer)
    /\ task' = Settled(verdict.valid)
    /\ todo' = <<Put("task", task')>>
    /\ step' = "end"
    /\ UNCHANGED <<mode, reasons, said, verdict, disk, faults, crashed>>

\* The event of finalization_completed, or of the transition after it,
\* cannot be appended: the state is left as it is, or has changed already.
FinishRaises ==
    /\ todo = <<>> /\ step \in {"write", "patch"}
    /\ faults < MaxFaults
    /\ faults' = faults + 1
    /\ task' \in {task, Settled(verdict.valid)}
    /\ step' = "raise"
    /\ UNCHANGED <<mode, reasons, said, verdict, todo, disk, crashed>>

\* _start_worker_locked's handler: a task that is not finished fails, and
\* its record is written either way.
WorkerFails ==
    /\ step = "raise"
    /\ task' = IF task \in Terminal THEN task ELSE "FAILED"
    /\ todo' = <<Put("error", Result(FALSE, "worker")), Put("task", task')>>
    /\ step' = "end"
    /\ UNCHANGED <<mode, reasons, said, verdict, disk, faults, crashed>>

Crash ==
    /\ ~crashed
    /\ crashed' = TRUE
    /\ step' = "down"
    /\ todo' = <<>>
    /\ UNCHANGED <<mode, task, reasons, said, verdict, disk, faults>>

\* Mutant of Reconciled: a task being finalized is left to finish.
ReconciledRunning(state) ==
    IF state \in Unfinished \ {"FINALIZING"}
    THEN IF state = "QUEUED" THEN "CANCELLED" ELSE "FAILED"
    ELSE state

\* _reconcile_interrupted
Reconciled(state) ==
    IF state \in Unfinished
    THEN IF state = "QUEUED" THEN "CANCELLED" ELSE "FAILED"
    ELSE state

Restart ==
    /\ step = "down"
    /\ disk' = [disk EXCEPT !["task"] = Reconciled(@)]
    /\ task' = disk'["task"]
    /\ step' = "end"
    /\ UNCHANGED <<mode, reasons, said, verdict, todo, faults, crashed>>

Work == \/ LoadFails \/ Attempt \/ FinishPayload \/ Compose
        \/ FinishTextReport \/ FinishNative \/ FinishConversation
        \/ Composes \/ Finish \/ WorkerFails

\* A write that was begun returns, whether it succeeds or fails.
Returns == todo # <<>> /\ todo' \in {Tail(todo), <<>>}

Next == Work \/ Write \/ PatchUnread \/ WriteFails \/ FinishRaises \/ Crash \/ Restart

\* A worker thread runs on, and an operator brings the server back.
Spec == Init /\ [][Next]_vars /\ WF_vars(Work) /\ WF_todo(Returns) /\ WF_vars(Restart)

-----------------------------------------------------------------------------
(* Properties.                                                             *)

\* The final text, the product answer and the report tell as observed only
\* what the model itself had called an observed fact in its last payload,
\* with the evidence it gave for it (renderer, answer and report built on
\* claims normalised on the way).
NeverUpgraded ==
    said # None =>
    LET facts == {c \in ToSet(said.claims) : c.kind = "fact" /\ c.relation = "observed"}
        refs  == UNION {ToSet(c.refs) : c \in facts}
        ids   == {c.id : c \in facts}
        lines == IF disk["final"] = None THEN <<>> ELSE disk["final"].lines
        told  == IF disk["answer"] = None THEN <<>>
                 ELSE <<disk["answer"].conclusion>> \o disk["answer"].explanation
        report == IF disk["report"] = None THEN <<>> ELSE disk["report"]["facts"]
    IN  /\ \A i \in DOMAIN lines :
              lines[i].wording \in {"observed", "visual"} => lines[i].refs \subseteq refs
        /\ \A i \in DOMAIN told : told[i].text.wording = "visual" => told[i].claim \in ids
        /\ \A i \in DOMAIN report : /\ ToSet(report[i].claims) \subseteq ids
                                  /\ ToSet(report[i].refs) \subseteq refs

\* Whatever moment the process dies at, a valid structured result on disk
\* carries the product answer of the claims saved beside it, and the answer
\* file agrees (persist_claims, _build_product_answer, persist_result).
AnswerWithResult ==
    (mode \in {"structured", "payload"} /\ disk["result"] # None /\ disk["result"].valid) =>
        /\ disk["claims"] # None
        /\ disk["result"].answer = Answer(Normalized(disk["claims"]))
        /\ disk["answer"] = disk["result"].answer

\* A report rests on what its model was given: every claim and reference a
\* published report names stood in the composer's input, each piece of evidence
\* once, and with all the evidence of the claims the item names; and a claim
\* stood there as observed only if the model had said so in the claims on disk
\* (_composer_input, validate_report_payload, persist_report_result).
ReportWasInformed ==
    LET input  == ComposerInput(verdict.payload)
        report == disk["report"]
        given  == [i \in DOMAIN input.evidence |-> input.evidence[i].ref]
        rows(item) == {r \in ToSet(input.claims) : r.id \in ToSet(item.claims)}
        saved  == disk["claims"].claims
    IN  mode = "structured" /\ report # None =>
        /\ Distinct(given)
        /\ \A s \in DOMAIN report : \A i \in DOMAIN report[s] :
              LET item == report[s][i]
              IN  /\ {r.id : r \in rows(item)} = ToSet(item.claims)
                  /\ UNION {ToSet(r.refs) : r \in rows(item)} \subseteq ToSet(given)
                  /\ ToSet(item.refs) \subseteq ToSet(given)
        /\ \A r \in ToSet(input.claims) : r.relation = "observed" =>
              \E j \in DOMAIN saved : saved[j].id = r.id /\ saved[j].kind = "fact"

\* The state result.json names is the state the task ends in, unless a
\* crash, a failed write or an unreadable file came in between; and a task
\* is COMPLETED on disk only after its result and its text
\* (investigation.py's finish_* methods, the worker's handler).
OnlyFaultsDisagree ==
    /\ (disk["task"] = "COMPLETED" /\ faults = 0) =>
          disk["result"] # None /\ disk["result"].valid /\ disk["final"] # None
    /\ (disk["task"] \in Terminal /\ faults = 0 /\ ~crashed /\ disk["result"] # None) =>
          disk["result"].state = disk["task"]

\* With one fault at most the record of the task ends in a terminal state,
\* by the worker or by the reconciliation after a restart, and stays there.
Recorded == disk["task"] \in Terminal
Settles == <>[]Recorded

=============================================================================
