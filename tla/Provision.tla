----------------------------- MODULE Provision ------------------------------
(* The start of an API process (scripts/runtime_api.py main) and its end.  Two *)
(* processes may be started on one data-root and one workspace.  A start takes *)
(* the lock of the data-root, rebuilds the selected skills in the workspace,   *)
(* copies the data catalog beside them, mounts the data, settles the records   *)
(* its predecessor left unfinished, and serves; it may die or fail at any step *)
(* while the files it was writing stay as they are.                            *)
EXTENDS Naturals, Sequences, FiniteSets, SequencesExt

CONSTANTS Servers,   \* processes, each started any number of times
          NoOne,     \* the holder of a free lock
          Tasks,     \* task ids
          Commands   \* command lines: skills, catalog binds and --data-dir binds

NoOneAssumption == NoOne \notin Servers

VARIABLES lock,      \* who holds <data-root>/.runtime.lock
          proc,      \* each process: its step, its command, its next skill, its binds
          skill,     \* the skill directories of the workspace
          catalog,   \* "workspace" and "locator" copies of the data catalog
          record,    \* the state in task.json
          worker     \* the process whose thread works on the task
vars == <<lock, proc, skill, catalog, record, worker>>

Builtin == {"data-locator", "log-context"}     \* stand for the repository's skills
Custom == {"custom"}                            \* already in the workspace
Content == {"absent", "partial", "whole"}
Unfinished == {"QUEUED", "RUNNING"}
Records == Unfinished \cup {"none", "COMPLETED", "FAILED", "CANCELLED"}
Steps == {"down", "lock", "skills", "copying", "catalog", "locator", "binds",
          "reconcile", "serving", "leaving"}

Down == [step |-> "down", command |-> NoOne, next |-> 1, binds |-> <<>>]

Init == /\ lock = NoOne
        /\ proc = [s \in Servers |-> Down]
        /\ skill \in [Builtin \cup Custom -> {"absent", "whole"}]
        /\ catalog = [c \in {"workspace", "locator"} |-> "absent"]
        /\ record = [t \in Tasks |-> "none"]
        /\ worker = [t \in Tasks |-> NoOne]

Names(s) == proc[s].command.skills
At(s, step) == proc[s].step = step
Goes(s, step) == proc' = [proc EXCEPT ![s].step = step]
Files == <<skill, catalog>>
Work == <<record, worker>>

(* The end of a process: the kernel closes its lock, its threads are gone.     *)
Ends(s) == /\ proc' = [proc EXCEPT ![s] = Down]
           /\ lock' = IF lock = s THEN NoOne ELSE lock
           /\ worker' = [t \in Tasks |-> IF worker[t] = s THEN NoOne ELSE worker[t]]

-----------------------------------------------------------------------------
Start(s, command) ==
  /\ At(s, "down")
  /\ proc' = [proc EXCEPT ![s] = [Down EXCEPT !.step = "lock", !.command = command]]
  /\ UNCHANGED <<lock, Files, Work>>

\* Mutant: the lock is not asked for before the files are rebuilt.
LockLate(s) ==
  /\ At(s, "lock")
  /\ Goes(s, "skills") /\ lock' = (IF lock = NoOne THEN s ELSE lock) /\ UNCHANGED worker
  /\ UNCHANGED <<Files, record>>

(* flock without waiting: a second process of the data-root ends at once.      *)
Lock(s) ==
  /\ At(s, "lock")
  /\ IF lock = NoOne THEN Goes(s, "skills") /\ lock' = s /\ UNCHANGED worker
                     ELSE Ends(s)
  /\ UNCHANGED <<Files, record>>

(* prepare_workspace_skills, name after name, a repeated name once.  Removing  *)
(* the locator takes the catalog inside it along.                              *)
Repeated(s) == \E i \in 1 .. proc[s].next - 1 : Names(s)[i] = Names(s)[proc[s].next]
Ours(s) == At(s, "skills") /\ proc[s].next <= Len(Names(s))

PassSkill(s) ==
  /\ Ours(s)
  /\ LET name == Names(s)[proc[s].next] IN
       Repeated(s) \/ (name \in Custom /\ skill[name] # "absent")
  /\ proc' = [proc EXCEPT ![s].next = @ + 1]
  /\ UNCHANGED <<lock, Files, Work>>

RemoveSkill(s) ==
  /\ Ours(s) /\ ~Repeated(s)
  /\ LET name == Names(s)[proc[s].next] IN
       /\ name \in Builtin
       /\ skill' = [skill EXCEPT ![name] = "absent"]
       /\ catalog' = IF name = "data-locator" THEN [catalog EXCEPT !["locator"] = "absent"]
                                              ELSE catalog
  /\ Goes(s, "copying")
  /\ UNCHANGED <<lock, Work>>

CopySkill(s) ==
  /\ At(s, "copying")
  /\ LET name == Names(s)[proc[s].next] IN
       IF skill[name] # "partial"
       THEN skill' = [skill EXCEPT ![name] = "partial"] /\ UNCHANGED proc
       ELSE /\ skill' = [skill EXCEPT ![name] = "whole"]
            /\ proc' = [proc EXCEPT ![s].step = "skills", ![s].next = @ + 1]
  /\ UNCHANGED <<lock, catalog, Work>>

(* A skill that is neither built in nor there raises.                          *)
MissingSkill(s) ==
  /\ Ours(s)
  /\ LET name == Names(s)[proc[s].next] IN name \in Custom /\ skill[name] = "absent"
  /\ Ends(s)
  /\ UNCHANGED <<Files, record>>

SkillsDone(s) == /\ At(s, "skills") /\ proc[s].next > Len(Names(s))
                 /\ Goes(s, "catalog")
                 /\ UNCHANGED <<lock, Files, Work>>

(* copyfile empties the target and fills it; the catalog itself was read and   *)
(* checked before.                                                             *)
Copy(s, which, next) ==
  IF catalog[which] # "partial"
  THEN catalog' = [catalog EXCEPT ![which] = "partial"] /\ UNCHANGED proc
  ELSE catalog' = [catalog EXCEPT ![which] = "whole"] /\ Goes(s, next)

CopyCatalog(s) ==
  /\ At(s, "catalog")
  /\ Copy(s, "workspace", IF Contains(Names(s), "data-locator") THEN "locator" ELSE "binds")
  /\ UNCHANGED <<lock, skill, Work>>

CopyLocator(s) == /\ At(s, "locator")
                  /\ Copy(s, "locator", "binds")
                  /\ UNCHANGED <<lock, skill, Work>>

(* catalog_binds: the sources that exist on the host; two of them at one agent *)
(* path raise.                                                                 *)
Existing(sources) ==
  LET taken[n \in 0 .. Len(sources)] ==
        IF n = 0 THEN <<>>
        ELSE IF sources[n].exists THEN Append(taken[n - 1], sources[n]) ELSE taken[n - 1]
  IN taken

CatalogBinds(command) == Existing(command.sources)[Len(command.sources)]
Duplicate(binds) == \E i, j \in DOMAIN binds : i < j /\ binds[i].target = binds[j].target

(* merge_data_binds: an override takes the place of the default at its path.   *)
Placed(binds, b) ==
  IF \E i \in DOMAIN binds : binds[i].target = b.target
  THEN [i \in DOMAIN binds |-> IF binds[i].target = b.target THEN b ELSE binds[i]]
  ELSE Append(binds, b)

Merging(all) ==
  LET merged[n \in 0 .. Len(all)] == IF n = 0 THEN <<>> ELSE Placed(merged[n - 1], all[n])
  IN merged

Merged(defaults, overrides) ==
  LET all == defaults \o overrides IN Merging(all)[Len(all)]

Bind(s) ==
  /\ At(s, "binds")
  /\ LET command == proc[s].command
         defaults == CatalogBinds(command)
     IN IF Duplicate(defaults) THEN Ends(s)
        ELSE /\ proc' = [proc EXCEPT ![s].step = "reconcile",
                                     ![s].binds = Merged(defaults, command.overrides)]
             /\ UNCHANGED <<lock, worker>>
  /\ UNCHANGED <<Files, record>>

(* _reconcile_interrupted, record after record; a failing write ends the start.*)
Reconcile(s, t) ==
  /\ At(s, "reconcile")
  /\ record[t] \in Unfinished
  /\ record' = [record EXCEPT ![t] = IF @ = "QUEUED" THEN "CANCELLED" ELSE "FAILED"]
  /\ UNCHANGED <<lock, proc, Files, worker>>

Serve(s) == /\ At(s, "reconcile")
            /\ \A t \in Tasks : record[t] \notin Unfinished
            /\ Goes(s, "serving")
            /\ UNCHANGED <<lock, Files, Work>>

-----------------------------------------------------------------------------
Create(s, t) == /\ At(s, "serving")
                /\ record[t] = "none"
                /\ record' = [record EXCEPT ![t] = "QUEUED"]
                /\ worker' = [worker EXCEPT ![t] = s]
                /\ UNCHANGED <<lock, proc, Files>>

Works(s, t) == /\ proc[s].step \in {"serving", "leaving"}
               /\ worker[t] = s
               /\ \/ At(s, "serving") /\ record[t] = "QUEUED"
                     /\ record' = [record EXCEPT ![t] = "RUNNING"] /\ UNCHANGED worker
                  \/ record[t] # "QUEUED"
                     /\ \E end \in {"COMPLETED", "FAILED"} : record' = [record EXCEPT ![t] = end]
                     /\ worker' = [worker EXCEPT ![t] = NoOne]
               /\ UNCHANGED <<lock, proc, Files>>

(* An ordered end: the queue is cancelled, stopped tasks are cancelled, and    *)
(* workers that did not end in time keep running while the lock is closed,     *)
(* until the interpreter exits.                                                *)
Leave(s) ==
  /\ At(s, "serving")
  /\ \E late \in SUBSET {t \in Tasks : worker[t] = s /\ record[t] = "RUNNING"} :
       LET settled == {t \in Tasks : worker[t] = s} \ late IN
         /\ record' = [t \in Tasks |-> IF t \in settled THEN "CANCELLED" ELSE record[t]]
         /\ worker' = [t \in Tasks |-> IF t \in settled THEN NoOne ELSE worker[t]]
  /\ Goes(s, "leaving")
  /\ lock' = NoOne
  /\ UNCHANGED Files

(* Exit, power loss, or an error the start does not survive.                   *)
Crash(s) == /\ ~At(s, "down")
            /\ Ends(s)
            /\ UNCHANGED <<Files, record>>

Process(s) ==
  \/ \E command \in Commands : Start(s, command)
  \/ Lock(s)
  \/ PassSkill(s) \/ RemoveSkill(s) \/ CopySkill(s) \/ MissingSkill(s) \/ SkillsDone(s)
  \/ CopyCatalog(s) \/ CopyLocator(s) \/ Bind(s) \/ Serve(s) \/ Leave(s) \/ Crash(s)
  \/ \E t \in Tasks : Reconcile(s, t) \/ Create(s, t) \/ Works(s, t)

Next == \E s \in Servers : Process(s)

Spec == Init /\ [][Next]_vars

-----------------------------------------------------------------------------
Serving == {s \in Servers : At(s, "serving")}

(* While a process serves, every skill it selected is whole and the catalogs   *)
(* it told the agent of are in place, whatever other starts on the same        *)
(* data-root and workspace do and wherever earlier ones died (skills.py,       *)
(* data_catalog.py).                                                           *)
SkillsStayWhole ==
  \A s \in Serving :
    /\ \A i \in DOMAIN Names(s) : skill[Names(s)[i]] = "whole"
    /\ catalog["workspace"] = "whole"
    /\ Contains(Names(s), "data-locator") => catalog["locator"] = "whole"

(* A task that a serving process works on is not ended by another process's    *)
(* reconciliation, and an unfinished record always has a serving process       *)
(* behind it while one serves: nothing of a predecessor stays unfinished.      *)
RecordsHaveOwners ==
  /\ \A s \in Serving, t \in Tasks : worker[t] = s => record[t] \in Unfinished
  /\ Serving # {} => \A t \in Tasks : record[t] \in Unfinished => worker[t] \in Serving

(* The agent sees each path once: the last --data-dir for it, otherwise the    *)
(* catalog's source; no path is dropped and the first mention gives the place. *)
BindsSound ==
  \A s \in Serving :
    LET binds == proc[s].binds
        all == CatalogBinds(proc[s].command) \o proc[s].command.overrides
        first(target) == CHOOSE i \in DOMAIN all :
                           all[i].target = target /\ \A j \in 1 .. i - 1 : all[j].target # target
    IN /\ \A i \in DOMAIN all : \E k \in DOMAIN binds : binds[k].target = all[i].target
       /\ \A k, l \in DOMAIN binds :
            k < l => first(binds[k].target) < first(binds[l].target)
       /\ \A k \in DOMAIN binds : \E i \in DOMAIN all :
            all[i] = binds[k] /\ \A j \in i + 1 .. Len(all) : all[j].target # binds[k].target

TypeOK == /\ lock \in Servers \cup {NoOne}
          /\ \A s \in Servers : proc[s].step \in Steps /\ proc[s].command \in Commands \cup {NoOne}
          /\ skill \in [Builtin \cup Custom -> Content]
          /\ catalog \in [{"workspace", "locator"} -> Content]
          /\ record \in [Tasks -> Records]
          /\ worker \in [Tasks -> Servers \cup {NoOne}]
=============================================================================
