----------------------------- MODULE TaskFiles -----------------------------
(* The audit directory of one task and the requests that read, rate, export    *)
(* and delete it (scopex/storage/audit.py, TaskService, the two transports).   *)
(* Only a deletion holds locks; ratings and exports run beside it and beside   *)
(* each other, one file operation at a time, and every one of them may meet a  *)
(* directory that is being taken away.                                         *)
EXTENDS Naturals, Sequences, FiniteSets

CONSTANTS Requests,  \* the requests of a behaviour, and their temporary files
          NoOne      \* the holder of a free lock, the writer of no archive

VARIABLES worker,    \* "working", "cleaning" after the terminal state, "gone"
          handle,    \* the task is in TaskService._handles
          dir,       \* the names in the audit directory; NoDir without one
          zip,       \* scopex-review-<task>.zip in the export root
          lock,      \* the holder of TaskService._lock (and the operation lock)
          req,       \* what each request does and what it was answered
          deletion   \* history: "none", "begun" or "done"
vars == <<worker, handle, dir, zip, lock, req, deletion>>

NoDir == {"no directory"}
NoZip == [by |-> NoOne, members |-> {}, mixed |-> FALSE]

(* The files a review bundle takes along, in the order it takes them; one name *)
(* stands for each kind of writer.                                             *)
Allow == <<"task.json", "result.json", "evidence.json", "evaluation.json", "cleanup.json">>
Listable == {Allow[i] : i \in DOMAIN Allow}

\* A temporary file (uuid4) has no other file's name.
RequestsAssumption == /\ NoOne \notin Requests
                      /\ Requests \cap (Listable \cup NoDir) = {}

Kinds == {"rate", "export", "delete", "evidence"}
Fresh == [kind |-> "none", step |-> "new", status |-> 0, names |-> {}, next |-> 0,
          listed |-> {}, before |-> FALSE, whole |-> TRUE]

Exists == dir # NoDir
HasFile(name) == name \in dir

(* How an exception becomes a status: a missing task 404, a conflict 409, any  *)
(* other value error 400, everything else, a missing file included, 500.       *)
Status(exception) ==
  CASE exception = "TaskNotFoundError" -> 404
    [] exception = "TaskConflictError" -> 409
    [] exception = "ValueError" -> 400
    [] OTHER -> 500

Init == /\ worker = "working"
        /\ handle = TRUE
        /\ dir = {"task.json"}
        /\ zip = NoZip
        /\ lock = NoOne
        /\ req = [r \in Requests |-> Fresh]
        /\ deletion = "none"

At(r, kind, step) == req[r].kind = kind /\ req[r].step = step
Goes(r, step) == req' = [req EXCEPT ![r].step = step]
Answered(r, status) == req' = [req EXCEPT ![r].step = "done", ![r].status = status]
Raised(r, exception) == Answered(r, Status(exception))

-----------------------------------------------------------------------------
(* The worker's writes: evidence while it works, the result and the terminal   *)
(* state, and cleanup.json under the lock before the thread ends.              *)
Write(name) == dir' = (IF Exists THEN dir ELSE {}) \cup {name}

WorkerCollects == /\ worker = "working"
                  /\ ~HasFile("evidence.json")
                  /\ Write("evidence.json")
                  /\ UNCHANGED <<worker, handle, zip, lock, req, deletion>>

WorkerFinishes == /\ worker = "working"
                  /\ worker' = "cleaning"
                  /\ Write("result.json")
                  /\ UNCHANGED <<handle, zip, lock, req, deletion>>

WorkerCleansUp == /\ worker = "cleaning"
                  /\ lock = NoOne
                  /\ worker' = "gone"
                  /\ Write("cleanup.json")
                  /\ UNCHANGED <<handle, zip, lock, req, deletion>>

-----------------------------------------------------------------------------
(* A request arrives; "before" remembers that no deletion had begun.           *)
Arrive(r, kind) ==
  /\ req[r].step = "new"
  /\ req' = [req EXCEPT ![r].kind = kind, ![r].step = "start",
                        ![r].before = (deletion = "none")]
  /\ UNCHANGED <<worker, handle, dir, zip, lock, deletion>>

(* get_evidence: an existing directory without the file has no evidence.       *)
ReadEvidence(r) == /\ At(r, "evidence", "start")
                   /\ IF Exists THEN Answered(r, 200) ELSE Raised(r, "TaskNotFoundError")
                   /\ UNCHANGED <<worker, handle, dir, zip, lock, deletion>>

(* set_evaluation looks for the directory and its write makes it again: a      *)
(* temporary file beside the target, then the rename.                          *)
RateCheck(r) == /\ At(r, "rate", "start")
                /\ IF Exists THEN Goes(r, "open") ELSE Raised(r, "TaskNotFoundError")
                /\ UNCHANGED <<worker, handle, dir, zip, lock, deletion>>

RateOpen(r) == /\ At(r, "rate", "open")
               /\ Write(r)
               /\ Goes(r, "replace")
               /\ UNCHANGED <<worker, handle, zip, lock, deletion>>

RateReplace(r) ==
  /\ At(r, "rate", "replace")
  /\ IF HasFile(r)
     THEN dir' = (dir \ {r}) \cup {"evaluation.json"} /\ Answered(r, 200)
     ELSE UNCHANGED dir /\ Raised(r, "FileNotFoundError")
  /\ UNCHANGED <<worker, handle, zip, lock, deletion>>

-----------------------------------------------------------------------------
Included == Listable \cap dir

(* export_review_bundle lists the files that exist, reads task.json for the    *)
(* manifest, truncates the archive of this task and adds file after file.  The *)
(* missing directory and a file that went away raise FileNotFoundError.        *)
ExportList(r) ==
  /\ At(r, "export", "start")
  /\ IF Exists
     THEN req' = [req EXCEPT ![r].step = "open", ![r].names = Included]
     ELSE Raised(r, "FileNotFoundError")
  /\ UNCHANGED <<worker, handle, dir, zip, lock, deletion>>

ExportOpen(r) ==
  /\ At(r, "export", "open")
  /\ IF HasFile("task.json")
     THEN /\ zip' = [by |-> r, members |-> {}, mixed |-> FALSE]
          /\ req' = [req EXCEPT ![r].step = "add", ![r].next = 1]
     ELSE UNCHANGED zip /\ Raised(r, "FileNotFoundError")
  /\ UNCHANGED <<worker, handle, dir, lock, deletion>>

(* Two exports at once write the same archive: it holds the bytes of both.     *)
ExportAdd(r) ==
  /\ At(r, "export", "add")
  /\ req[r].next \in DOMAIN Allow
  /\ LET name == Allow[req[r].next] IN
       IF name \notin req[r].names
       THEN req' = [req EXCEPT ![r].next = @ + 1] /\ UNCHANGED zip
       ELSE IF HasFile(name)
       THEN /\ zip' = IF zip = NoZip THEN zip
                      ELSE IF zip.by = r THEN [zip EXCEPT !.members = @ \cup {name}]
                      ELSE [zip EXCEPT !.mixed = TRUE]
            /\ req' = [req EXCEPT ![r].next = @ + 1]
       ELSE Raised(r, "FileNotFoundError") /\ UNCHANGED zip
  /\ UNCHANGED <<worker, handle, dir, lock, deletion>>

(* The response sends the file that has the archive's name by then.            *)
ExportSend(r) ==
  /\ At(r, "export", "add")
  /\ req[r].next \notin DOMAIN Allow
  /\ IF zip = NoZip THEN Raised(r, "RuntimeError")
     ELSE req' = [req EXCEPT ![r].step = "done", ![r].status = 200,
                             ![r].whole = (zip.by = r /\ ~zip.mixed
                                           => zip.members = req[r].names)]
  /\ UNCHANGED <<worker, handle, dir, zip, lock, deletion>>

-----------------------------------------------------------------------------
Known == handle \/ HasFile("task.json")   \* get_task finds a record

\* Mutant: the worker's thread is not looked at.
DeletableTerminal == worker # "working"

Deletable == worker = "gone"

(* delete_task, under both locks: the checks, the handle, the export, then the *)
(* directory: its entries are listed, unlinked and the directory removed.      *)
DeleteCheck(r) ==
  /\ At(r, "delete", "start")
  /\ lock = NoOne
  /\ IF ~Known THEN /\ Raised(r, "TaskNotFoundError")
                    /\ UNCHANGED <<handle, lock, deletion>>
     ELSE IF ~Deletable THEN /\ Raised(r, "TaskConflictError")
                             /\ UNCHANGED <<handle, lock, deletion>>
     ELSE /\ Goes(r, "unlink") /\ lock' = r /\ handle' = FALSE
          /\ deletion' = IF deletion = "none" THEN "begun" ELSE deletion
  /\ UNCHANGED <<worker, dir, zip>>

DeleteExport(r) == /\ At(r, "delete", "unlink")
                   /\ zip' = NoZip
                   /\ req' = [req EXCEPT ![r].step = "files", ![r].listed = dir]
                   /\ UNCHANGED <<worker, handle, dir, lock, deletion>>

(* One listed entry after the other; a temporary file that was renamed since   *)
(* makes unlink raise.                                                         *)
DeleteFile(r) ==
  /\ At(r, "delete", "files")
  /\ IF req[r].listed = {} THEN Goes(r, "rmdir") /\ UNCHANGED <<dir, lock>>
     ELSE \E name \in req[r].listed :
            /\ dir' = dir \ {name}
            /\ IF HasFile(name)
               THEN req' = [req EXCEPT ![r].listed = @ \ {name}] /\ UNCHANGED lock
               ELSE Raised(r, "FileNotFoundError") /\ lock' = NoOne
  /\ UNCHANGED <<worker, handle, zip, deletion>>

DeleteDir(r) ==
  /\ At(r, "delete", "rmdir")
  /\ lock' = NoOne
  /\ IF dir = {} THEN dir' = NoDir /\ Answered(r, 200) /\ deletion' = "done"
     ELSE UNCHANGED <<dir, deletion>> /\ Raised(r, "OSError")
  /\ UNCHANGED <<worker, handle, zip>>

Request(r) == \/ \E kind \in Kinds : Arrive(r, kind)
              \/ ReadEvidence(r)
              \/ RateCheck(r) \/ RateOpen(r) \/ RateReplace(r)
              \/ ExportList(r) \/ ExportOpen(r) \/ ExportAdd(r) \/ ExportSend(r)
              \/ DeleteCheck(r) \/ DeleteExport(r) \/ DeleteFile(r) \/ DeleteDir(r)

Next == \/ WorkerCollects \/ WorkerFinishes \/ WorkerCleansUp
        \/ \E r \in Requests : Request(r)

Spec == Init /\ [][Next]_vars

-----------------------------------------------------------------------------
(* What may stand where a deletion succeeded is a rating that was under way,   *)
(* and nothing of the task itself: no late file of the worker brings the task  *)
(* back into the lists.  (_delete_task refuses while the worker's thread lives.)*)
DeletedLeavesOnlyRatings ==
  deletion = "done" => dir = NoDir \/ dir \subseteq {"evaluation.json"} \cup Requests

(* A bundle that was sent, and that no second export wrote into, holds exactly *)
(* the files its manifest names, whatever was written or deleted meanwhile.    *)
ExportsWhole == \A r \in Requests : req[r].whole

(* As long as no deletion has begun, every request about the task is answered  *)
(* with 200, or with 409 for a deletion that comes too early, in any order of  *)
(* the worker's and the other requests' file operations.                       *)
LiveTasksAnswered ==
  deletion = "none" => \A r \in Requests :
    req[r].step = "done" =>
      req[r].status = 200 \/ (req[r].kind = "delete" /\ req[r].status = 409)

(* docs/architecture/04-local-runtime-api.md:110, "missing objects/routes to   *)
(* 404": a request that arrives when the task is gone, and nothing of it is    *)
(* under way, is answered 404.  export_review_bundle answers 500 instead.      *)
MissingIsNotFound ==
  \A r \in Requests : req[r].kind = "export" /\ req[r].step = "done" /\ req[r].status = 500
                      => req[r].before

(* A deletion that was answered leaves nothing behind (the same document, 106: *)
(* "Terminal deletion removes ScopeX-owned assets").  A rating under way       *)
(* brings the directory back, and no later request can delete it.              *)
NothingOutlivesDeletion == deletion = "done" => dir = NoDir

TypeOK == /\ worker \in {"working", "cleaning", "gone"} /\ handle \in BOOLEAN
          /\ dir = NoDir \/ dir \subseteq Listable \cup Requests
          /\ zip \in [by : Requests \cup {NoOne}, members : SUBSET Listable, mixed : BOOLEAN]
          /\ lock \in Requests \cup {NoOne}
          /\ deletion \in {"none", "begun", "done"}
=============================================================================
