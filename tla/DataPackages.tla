---------------------------- MODULE DataPackages ----------------------------
(***************************************************************************)
(* The raw data of a finished task as a download: TaskService collects it  *)
(* from the recorded accesses and the evidence (build_data_package, api/   *)
(* data_packages.py) while the sources go on changing, and deletes it with *)
(* the task (delete_task).  One task; callers are HTTP request threads.    *)
(* DataPackageService.operation lets one of them collect or delete.        *)
(*                                                                         *)
(* A file is a sequence of blocks [at, v]: for a log a line and its time   *)
(* stamp, for an image a part of it; v tells one content from a later one. *)
(* The time in an image's name is Stamp[path].  Archive names are base     *)
(* names, which carry the time stamp in both sources of data-catalog.json; *)
(* here the path stands for it.  A file removed while it is open is still  *)
(* read in full, as if it were removed later.                              *)
(***************************************************************************)
EXTENDS Integers, Sequences, FiniteSets, SequencesExt

CONSTANTS
    Callers,
    Images, Logs,   \* paths, numbers in the order of their names
    Stamp,          \* image |-> the time in its name
    Contents,       \* path |-> the contents it may have when the task ends
    Evidence,       \* the image evidence: [path, sha]
    Rows,           \* data-access.jsonl: [op, start, end, files, matched]
    ModeChoices,    \* what users ask for
    MaxBytes, MaxFiles,
    MaxChanges,     \* bound: changes of the sources
    MaxFaults       \* bound: failures and crashes

Modes == {"image_evidence", "image_window", "encoder_source_files", "encoder_window"}

CollectAssumption ==
    /\ {MaxBytes, MaxFiles, MaxChanges, MaxFaults} \subseteq Nat
    /\ Images \cup Logs \subseteq Nat
    /\ ModeChoices \subseteq SUBSET Modes \ {{}}

VARIABLES
    source,         \* path |-> content on the host, or Absent
    task,           \* the task's files under the audit root exist
    work,           \* its working directory exists
    target,         \* collected/scopex-data.zip
    busy,           \* DataPackageService._busy holds the task
    call,           \* caller |-> what it is doing
    changes, faults \* bounded counters

vars == <<source, task, work, target, busy, call, changes, faults>>

None   == [none |-> TRUE]
Absent == <<>>
NoJob  == [mode |-> "none", path |-> 0, expected |-> Absent, windows |-> {}]
Idle   == [step |-> "idle", modes |-> {}, jobs |-> <<>>, done |-> 0, opened |-> <<>>,
           left |-> 0, staged |-> <<>>, digest |-> <<>>, files |-> <<>>, missing |-> {},
           bytes |-> 0]

Init ==
    /\ source \in {s \in [Images \cup Logs -> UNION {Contents[p] : p \in Images \cup Logs}] :
                     \A p \in Images \cup Logs : s[p] \in Contents[p]}
    /\ task = TRUE /\ work = TRUE
    /\ target = None
    /\ busy = FALSE
    /\ call = [c \in Callers |-> Idle]
    /\ changes = 0 /\ faults = 0

-----------------------------------------------------------------------------
(* What is to be collected.                                                *)

InWindow(t, windows) == \E w \in windows : w[1] <= t /\ t < w[2]
Ascending(S) == SortSeq(FoldSet(LAMBDA p, q : Append(q, p), <<>>, S), <)
RowsOf(op) == {Rows[i] : i \in {j \in DOMAIN Rows : Rows[j].op = op}}
WindowsFor(rows) == {<<r.start, r.end>> : r \in rows}

\* _window_images
Found == {p \in Images : source[p] # Absent /\ InWindow(Stamp[p], WindowsFor(RowsOf("locate")))}
Listed(op) == UNION {ToSet(r.files) : r \in RowsOf(op)}

InOrder(windows) ==
    SortSeq(FoldSet(LAMBDA w, q : Append(q, w), <<>>, windows),
            LAMBDA a, b : a[1] < b[1] \/ (a[1] = b[1] /\ a[2] < b[2]))

\* Mutant of Merged: windows that only touch or nest are not joined right.
MergedLast(windows) ==
    FoldLeft(LAMBDA m, w : IF m # <<>> /\ w[1] <= Last(m)[2]
                           THEN Front(m) \o <<<<Last(m)[1], w[2]>>>> ELSE Append(m, w),
             <<>>, InOrder(windows))

\* Overlapping windows of one log are joined, so that a line counts once.
Merged(windows) ==
    FoldLeft(LAMBDA m, w : IF m # <<>> /\ w[1] <= Last(m)[2]
                           THEN Front(m) \o <<<<Last(m)[1], Max({Last(m)[2], w[2]})>>>>
                           ELSE Append(m, w),
             <<>>, InOrder(windows))

Job(mode, path) == [NoJob EXCEPT !.mode = mode, !.path = path]
LogJobs(modes, path) ==
    (IF "encoder_source_files" \in modes THEN <<Job("encoder_source_files", path)>> ELSE <<>>)
    \o (IF "encoder_window" \notin modes THEN <<>>
        ELSE <<[Job("encoder_window", path) EXCEPT !.windows =
                  ToSet(Merged(WindowsFor({r \in RowsOf("analyze") : path \in ToSet(r.files)})))]>>)

\* The files in the order build adds them; found: the images of the scan.
Jobs(modes, found) ==
    (IF "image_evidence" \notin modes THEN <<>>
     ELSE [i \in DOMAIN Evidence |-> [Job("image_evidence", Evidence[i].path)
                                         EXCEPT !.expected = Evidence[i].sha]])
    \o (IF "image_window" \notin modes THEN <<>>
        ELSE LET paths == Ascending(found \cup Listed("locate"))
             IN  [i \in DOMAIN paths |-> Job("image_window", paths[i])])
    \o FoldLeft(LAMBDA q, p : q \o LogJobs(modes, p), <<>>, Ascending(Listed("analyze")))

\* What the page offers to collect: a count, which for images adds up over
\* the windows looked at, and which is recommended.
Matched(w) == Last(SelectSeq(Rows, LAMBDA r : r.op = "locate" /\ <<r.start, r.end>> = w)).matched
Offer(mode, count, recommended) == [mode |-> mode, count |-> count, recommended |-> recommended]
Options ==
    LET images == Evidence # <<>>
        windows == WindowsFor(RowsOf("locate"))
    IN  {o \in {Offer("image_evidence", Len(Evidence), TRUE),
                Offer("image_window", FoldSet(LAMBDA w, n : n + Matched(w), 0, windows), ~images),
                Offer("encoder_window", 0, TRUE),
                Offer("encoder_source_files", Cardinality(Listed("analyze")), FALSE)} :
            CASE o.mode = "image_evidence" -> images
              [] o.mode = "image_window"   -> windows # {}
              [] OTHER                     -> RowsOf("analyze") # {}}

\* What it says of the package that is there.
Shown == IF target = None THEN [ready |-> FALSE]
         ELSE [ready |-> TRUE, collected |-> Len(target.files),
               missing |-> Cardinality(target.missing), partial |-> target.missing # {}]

-----------------------------------------------------------------------------
(* Collecting.                                                             *)

\* DataPackageService.operation refuses while the task is busy.
Free == ~busy

Now(c) == call[c]
Job0(c) == Now(c).jobs[Now(c).done + 1]
Sets(c, f) == call' = [call EXCEPT ![c] = f]
Leave(c) == busy' = FALSE /\ Sets(c, Idle)
NextJob(r) == [r EXCEPT !.step = "next", !.done = r.done + 1, !.staged = <<>>, !.left = 0,
                        !.digest = <<>>]
Issue(r, path, why) == [r EXCEPT !.missing = @ \cup {<<path, why>>}]

Ask(c) ==
    /\ Now(c).step = "idle" /\ Free
    /\ busy' = TRUE
    /\ \E modes \in ModeChoices : Sets(c, [Idle EXCEPT !.step = "asked", !.modes = modes])
    /\ UNCHANGED <<source, task, work, target, changes, faults>>

\* get_task raises when the task is gone.
NoTask(c) ==
    /\ Now(c).step \in {"asked", "deleting"} /\ ~task
    /\ Leave(c)
    /\ UNCHANGED <<source, task, work, target, changes, faults>>

Checked(c) ==
    /\ Now(c).step = "asked" /\ task
    /\ Sets(c, [Now(c) EXCEPT !.step = "open"])
    /\ UNCHANGED <<source, task, work, target, busy, changes, faults>>

\* The directory and the temporary archive are made; the directories of the
\* hours are scanned, or the scan fails and only listed images are left.
Open(c) ==
    /\ Now(c).step = "open"
    /\ work' = TRUE
    /\ LET begun == [Now(c) EXCEPT !.step = "next"]
       IN  \/ /\ Sets(c, [begun EXCEPT !.jobs = Jobs(Now(c).modes, Found)])
              /\ UNCHANGED faults
           \/ /\ faults < MaxFaults /\ faults' = faults + 1
              /\ "image_window" \in Now(c).modes
              /\ Sets(c, Issue([begun EXCEPT !.jobs = Jobs(Now(c).modes, {})], 0, "scan_failed"))
    /\ UNCHANGED <<source, task, target, busy, changes>>

Written(r, job) == \E i \in DOMAIN r.files : r.files[i].mode = job.mode /\ r.files[i].path = job.path

\* add_file: skipped, refused by a limit, or opened.
AddFile(c) ==
    /\ Now(c).step = "next" /\ Now(c).done < Len(Now(c).jobs)
    /\ LET r == [Now(c) EXCEPT !.opened = Append(@, source[Job0(c).path])]
           job == Job0(c)
           size == Len(source[job.path])
       IN  Sets(c, CASE Written(r, job) -> NextJob(r)
                     [] ~Written(r, job) /\ Len(r.files) >= MaxFiles ->
                           NextJob(Issue(r, job.path, "file_limit"))
                     [] ~Written(r, job) /\ Len(r.files) < MaxFiles /\ size = 0 ->
                           NextJob(Issue(r, job.path, "unavailable"))
                     [] ~Written(r, job) /\ Len(r.files) < MaxFiles /\ size > 0
                        /\ job.windows = {} /\ size > MaxBytes - r.bytes ->
                           NextJob(Issue(r, job.path, "byte_limit"))
                     [] OTHER -> [r EXCEPT !.step = "read", !.left = size])
    /\ UNCHANGED <<source, task, work, target, busy, changes, faults>>

Overflows(r, job) == r.bytes + Len(r.staged) + 1 > MaxBytes

\* The hash is of the bytes that are staged for the archive.
Digest(r, block) == Append(r.digest, block)

\* One block or line is read from the live file and staged.
Read(c) ==
    /\ Now(c).step = "read" /\ Now(c).left > 0
    /\ LET r == Now(c)
           job == Job0(c)
           at == Len(Last(r.opened)) - r.left + 1
           rest == [r EXCEPT !.left = r.left - 1]
       IN  IF at > Len(source[job.path])
           THEN Sets(c, NextJob(Issue(r, job.path, "source_shortened")))
           ELSE LET block == source[job.path][at]
                IN  Sets(c, CASE job.windows # {} /\ ~InWindow(block.at, job.windows) -> rest
                              [] (job.windows = {} \/ InWindow(block.at, job.windows))
                                 /\ Overflows(r, job) ->
                                    Issue([r EXCEPT !.left = 0], job.path, "byte_limit_partial_log")
                              [] OTHER -> [rest EXCEPT !.staged = Append(@, block),
                                                       !.digest = Digest(r, block)])
    /\ UNCHANGED <<source, task, work, target, busy, changes, faults>>

ReadFails(c) ==
    /\ Now(c).step = "read" /\ Now(c).left > 0 /\ faults < MaxFaults
    /\ faults' = faults + 1
    /\ Sets(c, NextJob(Issue(Now(c), Job0(c).path, "read_error")))
    /\ UNCHANGED <<source, task, work, target, busy, changes>>

\* The staged file enters the archive and the manifest; a log without a
\* line in its windows leaves no trace.
Store(c) ==
    /\ Now(c).step = "read" /\ Now(c).left = 0
    /\ LET r == Now(c)
           job == Job0(c)
           changed == job.expected # Absent /\ r.digest # job.expected
           entry == [mode |-> job.mode, path |-> job.path, content |-> r.staged,
                     sha |-> r.digest, expected |-> job.expected]
           noted == IF changed THEN Issue(r, job.path, "content_changed") ELSE r
       IN  Sets(c, IF r.staged = <<>> /\ job.windows # {} THEN NextJob(r)
                   ELSE NextJob([noted EXCEPT !.files = Append(@, entry),
                                              !.bytes = @ + Len(r.staged)]))
    /\ UNCHANGED <<source, task, work, target, busy, changes, faults>>

Package(r) == [files |-> r.files, missing |-> r.missing, bytes |-> r.bytes, jobs |-> r.jobs,
               opened |-> r.opened, whole |-> r.done = Len(r.jobs)]

\* Mutant of Abandon: the archive is written in place.
AbandonInPlace(c) == Leave(c) /\ target' = Package(Now(c))

\* finally: the temporary archive goes and the old package stays.
Abandon(c) == Leave(c) /\ UNCHANGED target

\* Nothing was collected; or the destination disk is full.
NothingCollected(c) ==
    /\ Now(c).step = "next" /\ Now(c).done = Len(Now(c).jobs) /\ Now(c).files = <<>>
    /\ Abandon(c)
    /\ UNCHANGED <<source, task, work, changes, faults>>

DiskFull(c) ==
    /\ Now(c).step \in {"next", "read"} /\ faults < MaxFaults
    /\ faults' = faults + 1
    /\ Abandon(c)
    /\ UNCHANGED <<source, task, work, changes>>

\* The manifest, then os.replace.
Finish(c) ==
    /\ Now(c).step = "next" /\ Now(c).done = Len(Now(c).jobs) /\ Now(c).files # <<>>
    /\ work => target' = Package(Now(c))
    /\ ~work => UNCHANGED target
    /\ Leave(c)
    /\ UNCHANGED <<source, task, work, changes, faults>>

-----------------------------------------------------------------------------
(* Deleting the task: the working directory, then the audit directory.     *)

AskDelete(c) ==
    /\ Now(c).step = "idle" /\ Free
    /\ busy' = TRUE
    /\ Sets(c, [Idle EXCEPT !.step = "deleting"])
    /\ UNCHANGED <<source, task, work, target, changes, faults>>

RemoveWork(c) ==
    /\ Now(c).step = "deleting" /\ task
    /\ work' = FALSE /\ target' = None
    /\ Sets(c, [Now(c) EXCEPT !.step = "removing"])
    /\ UNCHANGED <<source, task, busy, changes, faults>>

RemoveTask(c) ==
    /\ Now(c).step = "removing"
    /\ task' = FALSE
    /\ Leave(c)
    /\ UNCHANGED <<source, work, target, changes, faults>>

RemoveFails(c) ==
    /\ Now(c).step = "removing" /\ faults < MaxFaults
    /\ faults' = faults + 1
    /\ Leave(c)
    /\ UNCHANGED <<source, task, work, target, changes>>

-----------------------------------------------------------------------------
(* The rest of the world.                                                  *)

\* The program that is being watched writes an image again, cuts a file
\* short, or removes one that nobody has open.
Change ==
    /\ changes < MaxChanges /\ changes' = changes + 1
    /\ \E p \in Images \cup Logs :
          /\ source[p] # Absent
          /\ \/ /\ p \in Images
                /\ source' = [source EXCEPT ![p] = [i \in DOMAIN @ |-> [@[i] EXCEPT !.v = @ + 1]]]
             \/ /\ Len(source[p]) > 1
                /\ source' = [source EXCEPT ![p] = Front(@)]
             \/ /\ \A c \in Callers : Now(c).step = "read" => Job0(c).path # p
                /\ source' = [source EXCEPT ![p] = Absent]
    /\ UNCHANGED <<task, work, target, busy, call, faults>>

\* The process dies and starts again; a temporary archive left behind is
\* overwritten by the next build.
Crash ==
    /\ faults < MaxFaults /\ faults' = faults + 1
    /\ busy' = FALSE
    /\ call' = [c \in Callers |-> Idle]
    /\ UNCHANGED <<source, task, work, target, changes>>

Collect(c) == \/ Ask(c) \/ NoTask(c) \/ Checked(c) \/ Open(c) \/ AddFile(c) \/ Read(c)
              \/ ReadFails(c) \/ Store(c) \/ NothingCollected(c) \/ DiskFull(c) \/ Finish(c)
Delete(c)  == AskDelete(c) \/ RemoveWork(c) \/ RemoveTask(c) \/ RemoveFails(c)

Next == Change \/ Crash \/ \E c \in Callers : Collect(c) \/ Delete(c)
Spec == Init /\ [][Next]_vars

-----------------------------------------------------------------------------
(* Properties.                                                             *)

\* A package that is there is replaced by a finished one or removed with
\* its task: a build that fails, however late, and a crash leave it alone.
PackageKeptByStep ==
    target # None /\ target' # target =>
        \/ target' = None /\ ~work'
        \/ target' # None /\ target'.whole
PackageKept == [][PackageKeptByStep]_vars

EntriesOf(p, job) == {i \in DOMAIN p.files : p.files[i].mode = job.mode /\ p.files[i].path = job.path}
Reported(p, path) == \E m \in p.missing : m[1] = path
InsideOf(content, path) ==
    SelectSeq(content, LAMBDA b : InWindow(b.at, WindowsFor({r \in RowsOf("analyze") : path \in ToSet(r.files)})))

\* A partial package never looks complete: of each selected file, the
\* package has a copy or says why not, and a log that is not reported holds
\* exactly the lines of the requested windows, each once.
Accounted ==
    target # None =>
        \A i \in DOMAIN target.jobs :
            LET job == target.jobs[i]
                entries == EntriesOf(target, job)
            IN  \/ Reported(target, job.path)
                \/ job.mode # "encoder_window" /\ entries # {}
                \/ /\ job.mode = "encoder_window"
                   /\ InsideOf(target.opened[i], job.path) =
                         IF entries = {} THEN <<>>
                         ELSE target.files[CHOOSE e \in entries : TRUE].content

\* The manifest's hash is the hash of the copy in the archive, though the
\* source changed while it was read, and a copy that differs from what was
\* analysed is reported.
HashesTrue ==
    target # None =>
        \A i \in DOMAIN target.files :
            LET f == target.files[i]
            IN  /\ f.sha = f.content
                /\ f.expected # Absent /\ f.expected # f.content =>
                      <<f.path, "content_changed">> \in target.missing

\* The size of the first n files, for every n, and of all.
Sizes(files) ==
    LET upto[n \in 0 .. Len(files)] ==
            IF n = 0 THEN 0 ELSE upto[n - 1] + Len(files[n].content)
    IN  upto
Total(files) == Sizes(files)[Len(files)]

\* No package exceeds the configured size and number of files, with
\* windows of logs counted line by line.
WithinLimits ==
    target # None =>
        /\ Len(target.files) <= MaxFiles
        /\ Total(target.files) <= MaxBytes

\* The offer is honest: nothing of a mode that is not offered can be
\* collected, one kind of images is recommended and never both, no fewer
\* images are announced than are in the windows, and a package that is shown
\* as whole has a copy of every file that was selected, logs aside.
Copied(p, job) == job.mode = "encoder_window" \/ EntriesOf(p, job) # {}
OffersHonest ==
    LET offered == {o.mode : o \in Options}
        recommended == {o.mode : o \in {x \in Options : x.recommended}}
    IN  /\ \A m \in Modes \ offered : Jobs({m}, Found) = <<>>
        /\ offered \cap {"image_evidence", "image_window"} # {} =>
              Cardinality(recommended \cap {"image_evidence", "image_window"}) = 1
        /\ \A o \in Options : o.mode = "image_window" =>
              o.count >= Cardinality(Found \cup Listed("locate"))
        /\ Shown.ready /\ ~Shown.partial =>
              \A i \in DOMAIN target.jobs : Copied(target, target.jobs[i])

\* A deleted task leaves nothing: no build that was under way brings its
\* working directory or its package back.
NothingComesBack == ~task => ~work /\ target = None

=============================================================================
