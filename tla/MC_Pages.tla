------------------------------ MODULE MC_Pages ------------------------------
(* What a browser shows: the feed of a task's events, the page of a task,    *)
(* the page of the runs, and the two lists kept fresh.  They share no state, *)
(* so each behaviour is one of one component.                                *)
EXTENDS Integers, Sequences, FiniteSets

CONSTANTS
    Components,                                                   \* those that are run
    read, card, Separator, MaxRequests, MaxUser, MaxAppendFaults, \* EventFeed
    MaxEvents, MaxCalls, MaxFailures, Runs, MaxRefreshes, MaxReads \* the pages

VARIABLES
    which,
    transcript, seen, handler, memory, writer, file, feed, alive, used,
    server, page, refreshing, refreshes, calls, form, spent, rewound,
    world, selected, generation, flights, list, calendar, loading, deleting, creating,
    panel, row, shown, reads, commands, given, error, failures, regressed

feedVars  == <<transcript, seen, handler, memory, writer, file, feed, alive, used>>
taskVars  == <<server, page, refreshing, refreshes, calls, form, spent, rewound>>
boardVars == <<world, selected, generation, flights, list, calendar, loading, deleting, creating>>
panelVars == <<panel, row, shown, reads, commands, given>>
bothVars  == <<error, failures, regressed>>   \* of the board and of the panels
vars == <<which, feedVars, taskVars, boardVars, panelVars, bothVars>>

-----------------------------------------------------------------------------
\* One reading tool and one progress card, both with long lines; the result
\* of the tool may hold a line separator.
MCText == [c \in {read, card} |-> IF c = read /\ Separator THEN "separator" ELSE "long"]

Feed == INSTANCE EventFeed
          WITH Calls <- {read, card}, Cards <- {card}, Text <- MCText,
               MaxFaults <- MaxAppendFaults, page <- feed, spent <- used
Shows == INSTANCE TaskPage
Days  == INSTANCE Board
Fresh == INSTANCE Panels WITH MaxCommands <- MaxCalls

ASSUME FeedAssumption  == Feed!FeedAssumption
ASSUME PagesAssumption ==
    Shows!PageAssumption /\ Days!BoardAssumption /\ Fresh!PanelsAssumption

-----------------------------------------------------------------------------
\* The variables of a component that is not run.
FeedOff  == /\ transcript = "off" /\ seen = "off" /\ handler = "off" /\ memory = "off"
            /\ writer = "off" /\ file = "off" /\ feed = "off" /\ alive = "off" /\ used = "off"
TaskOff  == /\ server = "off" /\ page = "off" /\ refreshing = "off" /\ refreshes = "off"
            /\ calls = "off" /\ form = "off" /\ spent = "off" /\ rewound = "off"
BoardOff == /\ world = "off" /\ selected = "off" /\ generation = "off" /\ flights = "off"
            /\ list = "off" /\ calendar = "off" /\ loading = "off" /\ deleting = "off"
            /\ creating = "off"
PanelOff == /\ panel = "off" /\ row = "off" /\ shown = "off" /\ reads = "off"
            /\ commands = "off" /\ given = "off"
BothOff  == error = "off" /\ failures = "off" /\ regressed = "off"

Init ==
    /\ which \in Components
    /\ IF which = "feed" THEN Feed!Init ELSE FeedOff
    /\ IF which = "task page" THEN Shows!Init ELSE TaskOff
    /\ CASE which = "board"  -> Days!Init /\ PanelOff
         [] which = "panels" -> Fresh!Init /\ BoardOff
         [] OTHER -> BoardOff /\ PanelOff /\ BothOff

OnlyFeed  == which = "feed" /\ UNCHANGED <<which, taskVars, boardVars, panelVars, bothVars>>
OnlyShows == which = "task page" /\ UNCHANGED <<which, feedVars, boardVars, panelVars, bothVars>>
OnlyDays  == which = "board" /\ UNCHANGED <<which, feedVars, taskVars, panelVars>>
OnlyFresh == which = "panels" /\ UNCHANGED <<which, feedVars, taskVars, boardVars>>

Next == \/ OnlyFeed /\ Feed!Next
        \/ OnlyShows /\ Shows!Next
        \/ OnlyDays /\ Days!Next
        \/ OnlyFresh /\ Fresh!Next

Spec == Init /\ [][Next]_vars

\* The page polls, the writes of the feed return, the timers tick, and what is
\* not lost on the way is answered and taken up.
FairSpec ==
    /\ Spec
    /\ WF_vars(OnlyFeed /\ Feed!Poll)
    /\ WF_vars(OnlyFeed /\ Feed!WriteLine) /\ WF_vars(OnlyFeed /\ Feed!WriteFirstPart)
    /\ WF_vars(OnlyShows /\ Shows!Tick) /\ WF_vars(OnlyShows /\ Shows!Answered)
    /\ \A s \in Shows!Slots : WF_vars(OnlyShows /\ Shows!Refresh(s))
    /\ \A b \in Shows!Buttons : WF_vars(OnlyShows /\ Shows!ServeCall(b))
    /\ \A s \in Fresh!Slots :
          WF_vars(OnlyFresh /\ Fresh!Tick(s)) /\ WF_vars(OnlyFresh /\ Fresh!Read(s))
    /\ WF_vars(OnlyFresh /\ Fresh!Obeyed)

-----------------------------------------------------------------------------
\* audit.py, observer.py: the page skips no line, and nothing is told twice.
FeedSound == which = "feed" => Feed!NothingSkipped /\ Feed!ToldOnce

\* frontend/: whatever answers overtake each other, each page shows what it
\* was asked for, loses no event and goes back to nothing older.
PagesShown ==
    /\ which = "task page" => Shows!ShownSound
    /\ which = "board" => Days!BoardSound
    /\ which = "panels" => Fresh!DrawerNeverRegresses

\* An event in a readable file reaches the page, and each page comes to show
\* what the server has.
PagesCatchUp ==
    []<>(/\ which = "feed" => Feed!CaughtUp
         /\ which = "task page" => Shows!CaughtUp
         /\ which = "panels" => Fresh!CaughtUp)

\* What the documents say and the code does not keep.
AppendedIsReadable == which = "feed" => Feed!AppendedIsReadable
=============================================================================
