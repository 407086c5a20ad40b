----------------------------- MODULE MC_Stores ------------------------------
(* What the service and its agent keep outside memory: the data packages,    *)
(* the files of a task, the list of tasks, the workspace, the containers and *)
(* the evidence.  Each component works on directories of its own, so that    *)
(* each behaviour is one of one component.                                   *)
EXTENDS Integers, Sequences, FiniteSets, TLC

CONSTANTS
    Components,                                       \* those that are run
    Callers, Images, Logs, MaxBytes, MaxFiles, MaxChanges, MaxFaults,  \* DataPackages
    Requests, NoOne,                                  \* TaskFiles
    Ids, Scheduled, States, MaxEvents, MaxTime, PageSize, DayLength,   \* TaskList
    Servers, Served,                                  \* Provision
    Owners, Agents, MaxContainers,                    \* Sandboxes
    MaxReadLines, MaxLineChars, MaxExecLines, MaxExecChars, MaxClaimImages,
    MaxImages, MaxStaleRounds, MaxTurns, MaxCalls, MaxTouched    \* Evidence

VARIABLES
    which,
    source, task, work, target, busy, call, changes, faults,
    worker, handle, dir, zip, lock, req, deletion,
    now, tasks, reader,
    apiLock, proc, skill, catalog, record, thread,
    owner, data, asked, containers, made, removed,
    transcript, invoked, audit, seenCalls, seenResults, events, processed,
    items, counts, stale, disk, carried, phase, given

packageVars == <<source, task, work, target, busy, call, changes, faults>>
fileVars == <<worker, handle, dir, zip, lock, req, deletion>>
listVars == <<now, tasks, reader>>
startVars == <<apiLock, proc, skill, catalog, record, thread>>
dockerVars == <<owner, data, asked, containers, made, removed>>
evidenceVars == <<transcript, invoked, audit, seenCalls, seenResults, events, processed,
                  items, counts, stale, disk, carried, phase, given>>
vars == <<which, packageVars, fileVars, listVars, startVars, dockerVars, evidenceVars>>

-----------------------------------------------------------------------------
(* DataPackages: two images and a log.  Image 1 is evidence, images 1 and 2  *)
(* lie in the window that was looked at, and the log was analysed in two     *)
(* windows that overlap.                                                     *)
Line(t) == [at |-> t, v |-> 0]
Picture == <<Line(0), Line(0)>>
MCStamp == [p \in Images |-> p]
MCContents == [p \in Images \cup Logs |->
                  IF p = 1 THEN {Picture}
                  ELSE IF p = 2 THEN {<<>>, <<Line(0)>>}
                  ELSE {<<Line(1), Line(2), Line(3)>>, <<Line(5)>>}]
MCEvidence == <<[path |-> 1, sha |-> Picture]>>
Access(op, start, end, files, matched) ==
    [op |-> op, start |-> start, end |-> end, files |-> files, matched |-> matched]
MCRows == <<Access("locate", 1, 3, <<2>>, 1), Access("locate", 1, 3, <<2>>, 2),
            Access("analyze", 1, 4, <<3>>, 0), Access("analyze", 2, 3, <<3>>, 0)>>
MCModes == {{"image_evidence", "image_window"}, {"image_evidence", "encoder_window"},
            {"encoder_source_files", "encoder_window"}}

(* Provision: a command line with a skill named twice and sources replaced,  *)
(* one whose first source does not exist, and one with two sources at one    *)
(* path.                                                                     *)
Bind(host, target0, exists) == [host |-> host, target |-> target0, exists |-> exists]
Command(skills, sources, overrides) ==
    [skills |-> skills, sources |-> sources, overrides |-> overrides]
MCCommands ==
    {Command(<<"data-locator", "log-context", "custom", "data-locator">>,
             <<Bind("h1", "/a", TRUE), Bind("h2", "/b", TRUE)>>,
             <<Bind("h3", "/a", TRUE), Bind("h4", "/c", TRUE), Bind("h5", "/c", TRUE)>>),
     Command(<<"log-context">>, <<Bind("h1", "/a", FALSE), Bind("h2", "/a", TRUE)>>, <<>>),
     Command(<<"custom">>, <<Bind("h1", "/a", TRUE), Bind("h2", "/a", TRUE)>>, <<>>)}

(* Evidence: the agent's possible calls.  Two pages of one log, a skill's    *)
(* text, skill reports within and beyond the capacity, a locator, plain      *)
(* output with an empty, a long or an indented line, views of one and of too *)
(* many images, and a progress card.                                         *)
Reads(p, o) == [tool |-> "read", path |-> p, offset |-> o, output |-> "", paths |-> <<>>]
Prints(cmd) == [tool |-> "exec", path |-> "", offset |-> 0, output |-> cmd, paths |-> <<>>]
Views(ps) == [tool |-> "view_image", path |-> "", offset |-> 0, output |-> "", paths |-> ps]
L(t, n) == [text |-> t, chars |-> n, indent |-> 0]

MCCalls ==
    [page1 |-> Reads("log", 0), page2 |-> Reads("log", 2), skill |-> Reads("skill", 0),
     facts |-> Prints("report"), large |-> Prints("long_report"), where |-> Prints("locator"),
     shell |-> Prints("grep"), tree |-> Prints("find"), one |-> Views(<<"a.jpg", "a.jpg">>),
     both |-> Views(<<"a.jpg", "c">>),
     card |-> [Reads("", 0) EXCEPT !.tool = "progress_card"]]
MCContent ==
    [log |-> <<L("start", 1), L("error", 5), L("start", 1), L("", 0), L("end", 1)>>,
     skill |-> <<L("do", 1)>>,
     report |-> <<L("facts", 3)>>, long_report |-> <<L("facts", 9)>>,
     locator |-> <<L("files", 2)>>,
     grep |-> <<L("hit", 4), L("", 0), L("hit", 4), L("more", 1)>>,
     find |-> <<L("dir", 4), [text |-> "file", chars |-> 3, indent |-> 1]>>]
MCRole ==
    [report |-> "business_facts", long_report |-> "business_facts",
     locator |-> "locator", grep |-> "none", find |-> "none"]
MCBound == ("a.jpg" :> TRUE) @@ ("c" :> FALSE)
MCTyped == ("a.jpg" :> TRUE) @@ ("c" :> FALSE)

-----------------------------------------------------------------------------
Packages == INSTANCE DataPackages
              WITH Stamp <- MCStamp, Contents <- MCContents, Evidence <- MCEvidence,
                   Rows <- MCRows, ModeChoices <- MCModes
Files == INSTANCE TaskFiles
List == INSTANCE TaskList
Starts == INSTANCE Provision
            WITH Tasks <- Served, Commands <- MCCommands, lock <- apiLock, worker <- thread
Docker == INSTANCE Sandboxes WITH Tasks <- Owners, task <- owner, pending <- asked
Catalog == INSTANCE Evidence
             WITH Calls <- MCCalls, Content <- MCContent, Role <- MCRole,
                  Bound <- MCBound, Typed <- MCTyped

ASSUME PackagesAssumption == Packages!CollectAssumption
ASSUME FilesAssumption == Files!RequestsAssumption
ASSUME RowsAssumption == List!ListAssumption
ASSUME EvidenceAssumption == Catalog!LimitsPositive /\ Catalog!InputsAssumption
ASSUME DockerAssumption == Docker!BoundAssumption
ASSUME StartsAssumption == Starts!NoOneAssumption

\* Callers and requests are only compared for equality.
Symmetric == Permutations(Callers) \cup Permutations(Requests)

-----------------------------------------------------------------------------
\* The variables of a component that is not run.
PackagesOff == /\ source = "off" /\ task = "off" /\ work = "off" /\ target = "off"
               /\ busy = "off" /\ call = "off" /\ changes = "off" /\ faults = "off"
FilesOff == /\ worker = "off" /\ handle = "off" /\ dir = "off" /\ zip = "off"
            /\ lock = "off" /\ req = "off" /\ deletion = "off"
ListOff == now = "off" /\ tasks = "off" /\ reader = "off"
StartsOff == /\ apiLock = "off" /\ proc = "off" /\ skill = "off" /\ catalog = "off"
             /\ record = "off" /\ thread = "off"
DockerOff == /\ owner = "off" /\ data = "off" /\ asked = "off" /\ containers = "off"
             /\ made = "off" /\ removed = "off"
CatalogOff == /\ transcript = "off" /\ invoked = "off" /\ audit = "off" /\ seenCalls = "off"
              /\ seenResults = "off" /\ events = "off" /\ processed = "off" /\ items = "off"
              /\ counts = "off" /\ stale = "off" /\ disk = "off" /\ carried = "off"
              /\ phase = "off" /\ given = "off"

Init ==
    /\ which \in Components
    /\ IF which = "packages" THEN Packages!Init ELSE PackagesOff
    /\ IF which = "files" THEN Files!Init ELSE FilesOff
    /\ IF which = "list" THEN List!Init ELSE ListOff
    /\ IF which = "starts" THEN Starts!Init ELSE StartsOff
    /\ IF which = "docker" THEN Docker!Init ELSE DockerOff
    /\ IF which = "evidence" THEN Catalog!Init ELSE CatalogOff

Next ==
    \/ /\ which = "packages" /\ Packages!Next
       /\ UNCHANGED <<which, fileVars, listVars, startVars, dockerVars, evidenceVars>>
    \/ /\ which = "files" /\ Files!Next
       /\ UNCHANGED <<which, packageVars, listVars, startVars, dockerVars, evidenceVars>>
    \/ /\ which = "list" /\ List!Next
       /\ UNCHANGED <<which, packageVars, fileVars, startVars, dockerVars, evidenceVars>>
    \/ /\ which = "starts" /\ Starts!Next
       /\ UNCHANGED <<which, packageVars, fileVars, listVars, dockerVars, evidenceVars>>
    \/ /\ which = "docker" /\ Docker!Next
       /\ UNCHANGED <<which, packageVars, fileVars, listVars, startVars, evidenceVars>>
    \/ /\ which = "evidence" /\ Catalog!Next
       /\ UNCHANGED <<which, packageVars, fileVars, listVars, startVars, dockerVars>>

Spec == Init /\ [][Next]_vars

-----------------------------------------------------------------------------
\* data_packages.py: what a package holds is what was asked for, within the
\* limits and with true hashes, and it goes with its task.
PackagesSound ==
    which = "packages" => /\ Packages!Accounted /\ Packages!HashesTrue
                          /\ Packages!WithinLimits /\ Packages!NothingComesBack
                          /\ Packages!OffersHonest

\* What was given out is not taken back: a package stays until a finished one
\* replaces it, and a reference names the same evidence for good.
NothingReplaced ==
    [][/\ which = "packages" => Packages!PackageKeptByStep
       /\ which = "evidence" => Catalog!RefsKeptByStep]_vars

\* evidence/, finalizer/structured.py: the catalog holds all that the agent read
\* that may prove something and nothing else, each of its steps is announced
\* once, and the finalizer's model reads all of it.
EvidenceSound ==
    which = "evidence" => /\ Catalog!NothingMissed /\ Catalog!OnlyClaimGrade
                          /\ Catalog!AnnouncedOnce /\ Catalog!PromptLossless

\* service.py: the directory of a task under deletions, exports, ratings and
\* the worker's last files in any order, and the list and the calendar that
\* show every task while tasks come and go.
TaskRecordsSound ==
    /\ which = "files" => /\ Files!TypeOK /\ Files!DeletedLeavesOnlyRatings
                          /\ Files!ExportsWhole /\ Files!LiveTasksAnswered
    /\ which = "list" => List!TypeOK /\ List!PagesMissNothing /\ List!CalendarCountsAll

\* runtime_api.py: what a serving process has told its agent of is in place,
\* and no record is unfinished without a worker.
StartsSound ==
    which = "starts" => /\ Starts!TypeOK /\ Starts!SkillsStayWhole
                        /\ Starts!RecordsHaveOwners /\ Starts!BindsSound

\* sandbox.py: a cleanup hits its own agent only and says what it left.
DockerSound ==
    which = "docker" => /\ Docker!TypeOK /\ Docker!CleanReportsTrue
                        /\ Docker!OthersUntouched /\ Docker!MountsIsolated

\* What the documents say and the code does not keep.
PositionsKept == which = "evidence" => Catalog!PositionsKept
MissingIsNotFound == which = "files" => Files!MissingIsNotFound
NothingOutlivesDeletion == which = "files" => Files!NothingOutlivesDeletion
=============================================================================
