------------------------------ MODULE TaskList ------------------------------
(* The lists of tasks: list_tasks enumerates the task directories, reads one    *)
(* record after the other, filters, sorts by the latest start and cuts a page;  *)
(* the schedule history (frontend ScheduleHistoryView.vue) leafs through the    *)
(* pages while tasks are created, start, finish and are deleted; the calendar   *)
(* counts the days of a month.  Record fields that no list looks at are left    *)
(* out; a moment stands for a timestamp.                                        *)
EXTENDS Naturals, FiniteSets, TaskStates

CONSTANTS Ids,       \* the directory names, in their order
          Scheduled, \* the ids of the tasks a schedule starts
          States,    \* the states tasks take in this instance
          MaxEvents, \* bound on what happens to tasks while one view is open
          MaxTime,   \* bound on the clock
          PageSize,  \* rows the view shows at once
          DayLength  \* moments of one calendar day

ListAssumption == /\ Ids \subseteq Nat /\ IsFiniteSet(Ids)
                  /\ MaxTime \in Nat \ {0} /\ PageSize \in Nat

VARIABLES now,
          tasks,     \* the records on disk: id |-> record, or NoTask
          reader     \* the view: its filter, its page, what it has shown
vars == <<now, tasks, reader>>

NoTask == [state |-> Absent, created |-> 0, started |-> 0]
Deleted == [NoTask EXCEPT !.created = 1]   \* its id is not used again
Exists(id) == tasks[id].state # Absent

(* started_at or, before the first start, created_at.                          *)
Key(row) == IF row.started # 0 THEN row.started ELSE row.created

Any == "any"
Filters == {Any, "RUNNING"}
Matches(row, filter) == filter \in {Any, row.state}

(* Nothing is being shown.  "still" is history: the tasks that were in the      *)
(* list when its first page was asked for and have not moved since.             *)
Closed == [step |-> "closed", filter |-> Any, offset |-> 0, unread |-> {},
           rows |-> {}, shown |-> {}, still |-> {}, events |-> 0]

Init == /\ now = 1
        /\ tasks = [id \in Ids |-> NoTask]
        /\ reader = Closed

(* Timestamps may be equal: an event takes a moment or none.                   *)
Watched == reader.step # "closed"
Noted == [reader EXCEPT !.events = IF Watched THEN @ + 1 ELSE 0]
Passes == /\ now' \in {now, now + 1} /\ now' <= MaxTime
          /\ Watched => reader.events < MaxEvents

(* A task that moves in the list is not "still"; one that leaves it moves all   *)
(* that stand behind it.                                                        *)
Moves(id) == reader' = [Noted EXCEPT !.still = @ \ {id}]
Leaves(id) == reader' = [Noted EXCEPT !.still = {}]

Create(id) ==
  /\ tasks[id] = NoTask
  /\ Passes
  /\ tasks' = [tasks EXCEPT ![id] = [state |-> "CREATED", created |-> now', started |-> 0]]
  /\ Moves(id)

(* Task.transition: the first RUNNING sets started_at.                          *)
Transition(id, target) ==
  /\ Exists(id)
  /\ target \in Allowed(tasks[id].state)
  /\ Passes
  /\ tasks' = [tasks EXCEPT ![id].state = target,
                            ![id].started = IF target = "RUNNING" /\ @ = 0 THEN now' ELSE @]
  /\ IF Matches(tasks[id], reader.filter) /\ ~Matches(tasks'[id], reader.filter)
     THEN Leaves(id)
     ELSE IF Key(tasks[id]) # Key(tasks'[id]) THEN Moves(id)
     ELSE reader' = Noted

Delete(id) == /\ Exists(id)
              /\ tasks[id].state \in Terminal
              /\ tasks' = [tasks EXCEPT ![id] = Deleted]
              /\ Passes
              /\ Leaves(id)

-----------------------------------------------------------------------------
(* list_task_ids: the names of the directories at this moment.                  *)
Enumerate(next, filter) ==
  [reader EXCEPT !.step = "reading", !.filter = filter, !.offset = next,
                 !.unread = {id \in Ids : Exists(id)}, !.rows = {}]

Open(filter) ==
  /\ reader.step = "closed"
  /\ reader' = [Enumerate(0, filter) EXCEPT
                  !.still = {id \in Ids : Exists(id) /\ Matches(tasks[id], filter)}]
  /\ UNCHANGED <<now, tasks>>

(* get_task of the next directory; one that is gone is passed over.             *)
ReadRow ==
  /\ reader.step = "reading"
  /\ reader.unread # {}
  /\ LET id == CHOOSE i \in reader.unread : \A j \in reader.unread : i <= j IN
       reader' = [reader EXCEPT !.unread = @ \ {id},
                    !.rows = @ \cup IF Exists(id) /\ Matches(tasks[id], reader.filter)
                                    THEN {[id |-> id, key |-> Key(tasks[id])]} ELSE {}]
  /\ UNCHANGED <<now, tasks>>

(* The latest first; equal timestamps keep the order of the directories.        *)
Before(a, b) == a.key > b.key \/ (a.key = b.key /\ a.id < b.id)

Position(row) == Cardinality({other \in reader.rows : Before(other, row)})

(* tasks[offset : offset + limit] with limit = PageSize + 1: the extra row only *)
(* tells the view that there is a next page.                                    *)
Page == {row \in reader.rows : Position(row) - reader.offset \in 0 .. PageSize - 1
                               /\ Position(row) >= reader.offset}
HasNext == Cardinality(reader.rows) > reader.offset + PageSize

Show == /\ reader.step = "reading"
        /\ reader.unread = {}
        /\ reader' = [reader EXCEPT !.step = IF HasNext THEN "shown" ELSE "last",
                                    !.shown = @ \cup {row.id : row \in Page}]
        /\ UNCHANGED <<now, tasks>>

NextPage == /\ reader.step = "shown"
            /\ reader' = Enumerate(reader.offset + PageSize, reader.filter)
            /\ UNCHANGED <<now, tasks>>

Close == /\ reader.step \in {"shown", "last"}
         /\ reader' = Closed
         /\ UNCHANGED <<now, tasks>>

Next == \/ \E id \in Ids : \/ Create(id)
                           \/ \E target \in States : Transition(id, target)
                           \/ Delete(id)
        \/ \E filter \in Filters : Open(filter)
        \/ ReadRow \/ Show \/ NextPage \/ Close

Spec == Init /\ [][Next]_vars

-----------------------------------------------------------------------------
(* The states the calendar calls running, as calendar_month lists them.         *)
Active == {"CREATED", "QUEUED", "RUNNING", "PAUSING", "PAUSED", "FINALIZING"}

Day(id) == Key(tasks[id]) \div DayLength

(* calendar_month: the counters of one day.                                     *)
Calendar(day) ==
  LET of == {id \in Ids : Exists(id) /\ Day(id) = day}
      count(S) == Cardinality({id \in of : tasks[id].state \in S})
  IN [count |-> Cardinality(of), completed |-> count({"COMPLETED"}),
      failed |-> count({"FAILED", "CANCELLED"}), running |-> count(Active),
      scheduled |-> Cardinality({id \in of : id \in Scheduled}),
      manual |-> Cardinality({id \in of : id \notin Scheduled})]

(* Leafing through to the last page shows every task that matched when the      *)
(* first page was asked for and kept its place, as long as no row left the      *)
(* list: new tasks and tasks that start meanwhile push rows to later pages and  *)
(* never past the reader (service.py:314, ScheduleHistoryView.vue).             *)
PagesMissNothing == reader.step = "last" => reader.still \subseteq reader.shown

(* Every task of a day is counted once as completed, failed or running, and     *)
(* once as scheduled or manual, in whatever state it stands.                    *)
CalendarCountsAll ==
  \A day \in 0 .. MaxTime \div DayLength :
    LET c == Calendar(day) IN
      c.count = c.completed + c.failed + c.running /\ c.count = c.scheduled + c.manual

TypeOK == /\ now \in 1 .. MaxTime
          /\ \A id \in Ids : tasks[id].state \in TaskState \cup {Absent}
          /\ reader.step \in {"closed", "reading", "shown", "last"}
          /\ reader.shown \subseteq Ids /\ reader.still \subseteq Ids
=============================================================================
