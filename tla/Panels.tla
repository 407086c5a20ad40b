------------------------------- MODULE Panels -------------------------------
(***************************************************************************)
(* The two lists the browser keeps fresh while the user works in them: the *)
(* drawer of the active tasks (frontend/src/components/ActivityPanel.vue)  *)
(* and the page of the schedules (views/SchedulesView.vue).                *)
(*                                                                         *)
(* The drawer reads one list at a time and drops a refresh that comes      *)
(* while another is under way.  The page of the schedules does not: its    *)
(* reads overlap and their answers are shown in the order they arrive.     *)
(***************************************************************************)
EXTENDS Integers, FiniteSets

CONSTANTS
    MaxReads,     \* bound: reads of one list under way at once
    MaxCommands,  \* bound: commands of the user
    MaxFailures   \* bound: requests that fail

PanelsAssumption == MaxReads \in Nat \ {0} /\ MaxCommands \in Nat /\ MaxFailures \in Nat

VARIABLES
    panel,     \* "activity" or "schedules"
    row,       \* the one task or schedule, as the server has it
    shown,     \* as it was read last
    reads,     \* the reads under way: what each will show
    commands,  \* the commands under way
    error,     \* the last read failed
    failures,
    given,     \* the number of commands given
    regressed  \* history: an older row replaced a newer one

vars == <<panel, row, shown, reads, commands, error, failures, given, regressed>>

None  == [at |-> 0, on |-> FALSE, there |-> FALSE]
Slots == 1..MaxReads
Idle  == [step |-> "idle", row |-> None]

\* A task that runs (on) or is paused; a schedule that is enabled or not.
Init ==
    /\ panel \in {"activity", "schedules"}
    /\ row = [at |-> 1, on |-> TRUE, there |-> TRUE]
    /\ shown = None
    /\ reads = [s \in Slots |-> Idle]
    /\ commands = {}
    /\ error = FALSE /\ failures = 0 /\ given = 0
    /\ regressed = FALSE

-----------------------------------------------------------------------------
(* refresh() of either list.                                               *)

Reading == {s \in Slots : reads[s].step # "idle"}

\* ActivityPanel.vue, busy
Dropped == panel = "activity" /\ Reading # {}

\* A refresh that is dropped changes nothing.
Begun(s) == /\ ~Dropped /\ s \notin Reading
            /\ reads' = [reads EXCEPT ![s] = [step |-> "sent", row |-> None]]

Tick(s) == Begun(s) /\ UNCHANGED <<panel, row, shown, commands, error, failures, given, regressed>>

ServeRead(s) ==
    /\ reads[s].step = "sent"
    /\ reads' = [reads EXCEPT ![s] = [step |-> "served", row |-> row]]
    /\ UNCHANGED <<panel, row, shown, commands, error, failures, given, regressed>>

Arrives(s) ==
    /\ reads[s].step = "served"
    /\ shown' = reads[s].row
    /\ regressed' = (regressed \/ reads[s].row.at < shown.at)
    /\ reads' = [reads EXCEPT ![s] = Idle]
    /\ error' = (panel = "schedules" /\ error)
    /\ UNCHANGED <<panel, row, commands, failures, given>>

ReadFails(s) ==
    /\ s \in Reading /\ failures < MaxFailures /\ failures' = failures + 1
    /\ reads' = [reads EXCEPT ![s] = Idle]
    /\ error' = TRUE
    /\ UNCHANGED <<panel, row, shown, commands, given, regressed>>

-----------------------------------------------------------------------------
(* Commands: pause, enable or disable, delete.                             *)

Give(kind, on) ==
    /\ given < MaxCommands /\ given' = given + 1
    /\ commands' = commands \cup {[id |-> given', kind |-> kind, on |-> on, step |-> "sent"]}
    /\ UNCHANGED <<panel, row, shown, reads, failures, regressed>>

\* act: only of a task shown as running, and not after a read that failed.
Pause == panel = "activity" /\ shown.there /\ shown.on /\ ~error /\ Give("set", FALSE) /\ UNCHANGED error

\* toggle: the opposite of what the row shows.
Toggle == panel = "schedules" /\ shown.there /\ Give("set", ~shown.on) /\ UNCHANGED error

\* toggleAssessment clears the error and lets no second one begin.
ToggleGuarded ==
    /\ panel = "schedules" /\ shown.there
    /\ \A c \in commands : c.kind # "guarded"
    /\ Give("guarded", ~shown.on) /\ error' = FALSE

Remove == panel = "schedules" /\ shown.there /\ Give("remove", FALSE) /\ UNCHANGED error

\* stop requires a RUNNING task; a schedule is set to the value sent.
Obeys(c) == row.there /\ (panel = "activity" => row.on)

ServeCommand(c) ==
    /\ c.step = "sent" /\ Obeys(c)
    /\ row' = IF c.kind = "remove" THEN [at |-> row.at + 1, on |-> FALSE, there |-> FALSE]
              ELSE [row EXCEPT !.at = @ + 1, !.on = c.on]
    /\ commands' = (commands \ {c}) \cup {[c EXCEPT !.step = "served"]}
    /\ UNCHANGED <<panel, shown, reads, error, failures, given, regressed>>

\* await refresh(), which the drawer may drop.
CommandAnswered(c) ==
    /\ c.step = "served"
    /\ commands' = commands \ {c}
    /\ \/ \E s \in Slots : Begun(s)
       \/ (Dropped \/ Reading = Slots) /\ UNCHANGED reads
    /\ UNCHANGED <<panel, row, shown, error, failures, given, regressed>>

CommandFails(c) ==
    /\ \/ c.step = "sent" /\ ~Obeys(c) /\ UNCHANGED failures
       \/ failures < MaxFailures /\ failures' = failures + 1
    /\ commands' = commands \ {c}
    /\ UNCHANGED <<panel, row, shown, reads, error, given, regressed>>

\* The task goes on by itself: it is resumed elsewhere.
Resumed ==
    /\ panel = "activity" /\ row.there /\ ~row.on /\ row.at < MaxCommands + 2
    /\ row' = [row EXCEPT !.at = @ + 1, !.on = TRUE]
    /\ UNCHANGED <<panel, shown, reads, commands, error, failures, given, regressed>>

Read(s) == ServeRead(s) \/ Arrives(s)
Obeyed  == \E c \in commands : ServeCommand(c) \/ CommandAnswered(c)

Next ==
    \/ \E s \in Slots : Tick(s) \/ Read(s) \/ ReadFails(s)
    \/ Pause \/ Toggle \/ ToggleGuarded \/ Remove \/ Resumed
    \/ Obeyed
    \/ \E c \in commands : CommandFails(c)

Spec == Init /\ [][Next]_vars

\* The timer ticks, the server answers and the browser takes answers up.
Fairness == /\ \A s \in Slots : WF_vars(Tick(s)) /\ WF_vars(Read(s))
            /\ WF_vars(Obeyed)

FairSpec == Spec /\ Fairness

-----------------------------------------------------------------------------
(* Properties.                                                             *)

\* ActivityPanel.vue, refresh and busy: what the drawer offers to pause or to
\* cancel is never older than what it offered before.
DrawerNeverRegresses == panel = "activity" => ~regressed

CaughtUp == shown = row

\* SchedulesView.vue, refresh: though an older list may replace a newer one,
\* the truth comes to be shown once the user has stopped.
PanelsCatchUp == []<>CaughtUp
=============================================================================
