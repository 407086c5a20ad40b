------------------------------ MODULE TaskPage ------------------------------
(***************************************************************************)
(* The page of one task in the browser (frontend/src/views/TaskView.vue).  *)
(*                                                                         *)
(* A refresh, begun by a timer and after each control, reads the task, its *)
(* events after the cursor, the evidence and the result, and of a finished *)
(* task the evaluation and the data package.  The server answers a request *)
(* at one moment and the page takes the answer up at a later one; between  *)
(* them the user presses buttons whose own answers change the page.        *)
(***************************************************************************)
EXTENDS Integers, Sequences

CONSTANTS
    MaxEvents,    \* bound: events of the task
    MaxCalls,     \* bound: buttons pressed
    MaxFailures   \* bound: requests that fail

PageAssumption == MaxEvents \in Nat /\ MaxCalls \in Nat /\ MaxFailures \in Nat

VARIABLES
    server,     \* what the API would answer now
    page,       \* what is shown
    refreshing, \* the guard of refresh()
    refreshes,  \* the refreshes under way
    calls,      \* the requests of the buttons that are under way
    form,       \* the editor of the evaluation, and history: what the user meant
    spent,      \* the bounds used: calls (controls among them), failures
    rewound     \* history: a refresh took the task back to an earlier state

vars == <<server, page, refreshing, refreshes, calls, form, spent, rewound>>

None    == [none |-> TRUE]
Idle    == [step |-> "idle", cursor |-> 0, answer |-> None]
Slots   == 1..2                      \* the guard leaves one of them in use
Buttons == {"control", "rating", "collect"}
Unused  == [phase |-> "idle", kind |-> "none", answer |-> None]
Ratings == {"up", "down"}
Upto(n) == [i \in 1..n |-> i]
Ended(state) == state = "COMPLETED"

Init ==
    /\ server = [state |-> "RUNNING", at |-> 0, log |-> 0, result |-> FALSE,
                 rating |-> "none", package |-> "none"]
    /\ page = [state |-> "LOADING", at |-> 0, events |-> <<>>, cursor |-> 0, result |-> FALSE,
               rating |-> "none", package |-> "unknown", modes |-> "unset"]
    /\ refreshing = FALSE
    /\ refreshes = [s \in Slots |-> Idle]
    /\ calls = [b \in Buttons |-> Unused]
    /\ form = [open |-> FALSE, rating |-> "up", meant |-> "up"]
    /\ spent = [calls |-> 0, controls |-> 0, failures |-> 0]
    /\ rewound = FALSE

-----------------------------------------------------------------------------
(* The task.                                                               *)

Serves == UNCHANGED <<page, refreshing, refreshes, calls, form, spent, rewound>>

Emit ==
    /\ ~Ended(server.state) /\ server.log < MaxEvents
    /\ server' = [server EXCEPT !.log = @ + 1] /\ Serves

Boundary ==
    /\ server.state = "PAUSING"
    /\ server' = [server EXCEPT !.state = "PAUSED", !.at = @ + 1] /\ Serves

\* The result is written before the task is terminal.
Finish ==
    /\ server.state = "RUNNING"
    /\ server' = [server EXCEPT !.state = "COMPLETED", !.at = @ + 1, !.result = TRUE] /\ Serves

-----------------------------------------------------------------------------
(* refresh().                                                              *)

Reading == {s \in Slots : refreshes[s].step # "idle"}
Free    == CHOOSE s \in Slots : refreshes[s].step = "idle"

At(s, step) == [refreshes EXCEPT ![s] = [step |-> step, cursor |-> page.cursor, answer |-> None]]

Begin == /\ ~refreshing
         /\ refreshing' = TRUE
         /\ refreshes' = At(Free, "task")

\* The interval, and onMounted.
Tick == Begin /\ UNCHANGED <<server, page, calls, form, spent, rewound>>

\* A control waits for the refresh it has begun.
End(s) == /\ refreshing' = FALSE
          /\ refreshes' = [refreshes EXCEPT ![s] = Idle]
          /\ calls' = [calls EXCEPT !["control"] =
                          IF @.phase = "refreshing" THEN Unused ELSE @]

Answer(r) == CASE r.step = "task"    -> [state |-> server.state, at |-> server.at]
               [] r.step = "events"  -> [last |-> server.log]
               [] r.step = "result"  -> [result |-> server.result]
               [] r.step = "rating"  -> [rating |-> server.rating]
               [] r.step = "package" -> [package |-> server.package]

ServeRead(s) ==
    /\ s \in Reading /\ refreshes[s].answer = None
    /\ refreshes' = [refreshes EXCEPT ![s].answer = Answer(refreshes[s])]
    /\ UNCHANGED <<server, page, refreshing, calls, form, spent, rewound>>

Arrives(s, step) == /\ s \in Reading /\ refreshes[s].step = step /\ refreshes[s].answer # None
                    /\ UNCHANGED <<server, spent>>

GoesOn(s, step) == refreshes' = At(s, step) /\ UNCHANGED <<refreshing, calls>>

TaskArrives(s) ==
    LET answer == refreshes[s].answer
    IN  /\ Arrives(s, "task")
        /\ page' = [page EXCEPT !.state = answer.state, !.at = answer.at]
        /\ rewound' = (rewound \/ answer.at < page.at)
        /\ GoesOn(s, "events") /\ UNCHANGED form

\* The events after the cursor that was sent; next_after is the last of them.
EventsArrive(s) ==
    LET last == refreshes[s].answer.last
        new == [i \in 1..(last - refreshes[s].cursor) |-> refreshes[s].cursor + i]
    IN  /\ Arrives(s, "events")
        /\ page' = IF new = <<>> THEN page
                   ELSE [page EXCEPT !.events = @ \o new, !.cursor = last]
        /\ GoesOn(s, "result") /\ UNCHANGED <<form, rewound>>

\* The evidence and the result, and isTerminal as it is shown by then.
ResultArrives(s) ==
    /\ Arrives(s, "result")
    /\ page' = [page EXCEPT !.result = refreshes[s].answer.result]
    /\ IF Ended(page.state) THEN GoesOn(s, "rating") ELSE End(s)
    /\ UNCHANGED <<form, rewound>>

Prefilled(rating) ==
    [form EXCEPT !.rating = IF rating = "none" \/ form.open THEN @ ELSE rating]

RatingArrives(s) ==
    LET rating == refreshes[s].answer.rating
    IN  /\ Arrives(s, "rating")
        /\ page' = [page EXCEPT !.rating = rating]
        /\ form' = Prefilled(rating)
        /\ GoesOn(s, "package") /\ UNCHANGED rewound

\* The recommended modes are selected once.
PackageArrives(s) ==
    /\ Arrives(s, "package")
    /\ page' = [page EXCEPT !.package = refreshes[s].answer.package,
                            !.modes = IF @ = "unset" THEN "recommended" ELSE @]
    /\ End(s) /\ UNCHANGED <<form, rewound>>

Fails == /\ spent.failures < MaxFailures
         /\ spent' = [spent EXCEPT !.failures = @ + 1]

\* The rest of the refresh is left out.
ReadFails(s) ==
    /\ s \in Reading /\ Fails /\ End(s)
    /\ UNCHANGED <<server, page, form, rewound>>

-----------------------------------------------------------------------------
(* The buttons, shown by the state the page shows.                         *)

Press(b, kind) ==
    /\ calls[b] = Unused /\ spent.calls < MaxCalls
    /\ spent' = [spent EXCEPT !.calls = @ + 1,
                              !.controls = IF b = "control" THEN @ + 1 ELSE @]
    /\ calls' = [calls EXCEPT ![b] = [Unused EXCEPT !.phase = "sent", !.kind = kind]]
    /\ UNCHANGED <<server, page, refreshing, refreshes, form, rewound>>

Stop    == page.state = "RUNNING" /\ Press("control", "stop")
Steer   == page.state = "RUNNING" /\ Press("control", "steer")
Resume  == page.state = "PAUSED"  /\ Press("control", "resume")
Save    == Ended(page.state) /\ (form.open \/ page.rating = "none") /\ Press("rating", form.rating)
Collect == Ended(page.state) /\ page.package # "unknown" /\ Press("collect", page.modes)

\* "Change the evaluation", and the choice in the editor.
Open ==
    /\ Ended(page.state) /\ page.rating # "none" /\ ~form.open
    /\ form' = [form EXCEPT !.open = TRUE, !.meant = form.rating]
    /\ UNCHANGED <<server, page, refreshing, refreshes, calls, spent, rewound>>

Choose(rating) ==
    /\ Ended(page.state) /\ (form.open \/ page.rating = "none")
    /\ form' = [form EXCEPT !.rating = rating, !.meant = rating]
    /\ UNCHANGED <<server, page, refreshing, refreshes, calls, spent, rewound>>

ToggleMode ==
    /\ Ended(page.state) /\ page.package # "unknown"
    /\ page' = [page EXCEPT !.modes = "chosen"]
    /\ UNCHANGED <<server, refreshing, refreshes, calls, form, spent, rewound>>

Controlled(kind) ==
    CASE kind = "stop" /\ server.state = "RUNNING"   ->
            [server EXCEPT !.state = "PAUSING", !.at = @ + 1]
      [] kind = "resume" /\ server.state = "PAUSED" ->
            [server EXCEPT !.state = "RUNNING", !.at = @ + 1]
      [] OTHER -> server

\* The server refuses a control whose state has passed.
Accepted(kind) == \/ kind \in {"stop", "steer"} /\ server.state = "RUNNING"
                  \/ kind = "resume" /\ server.state = "PAUSED"

ServeCall(b) ==
    LET kind == calls[b].kind
    IN  /\ calls[b].phase = "sent"
        /\ b = "control" => Accepted(kind)
        /\ server' = CASE b = "control" -> Controlled(kind)
                       [] b = "rating"  -> [server EXCEPT !.rating = kind]
                       [] b = "collect" -> [server EXCEPT !.package = "ready"]
        /\ calls' = [calls EXCEPT ![b].phase = "served",
                                  ![b].answer = [state |-> server'.state, at |-> server'.at]]
        /\ UNCHANGED <<page, refreshing, refreshes, form, spent, rewound>>

\* A control that is refused, and a request or an answer that is lost.
CallRefused ==
    /\ calls["control"].phase = "sent" /\ ~Accepted(calls["control"].kind)
    /\ calls' = [calls EXCEPT !["control"] = Unused]
    /\ UNCHANGED <<server, page, refreshing, refreshes, form, spent, rewound>>

CallFails(b) ==
    /\ calls[b].phase \in {"sent", "served"} /\ Fails
    /\ calls' = [calls EXCEPT ![b] = Unused]
    /\ UNCHANGED <<server, page, refreshing, refreshes, form, rewound>>

\* refresh() returns at once when one is under way.
ControlArrives ==
    LET answer == calls["control"].answer
    IN  /\ calls["control"].phase = "served"
        /\ page' = [page EXCEPT !.state = answer.state, !.at = answer.at]
        /\ \/ Begin /\ calls' = [calls EXCEPT !["control"].phase = "refreshing"]
           \/ /\ refreshing
              /\ calls' = [calls EXCEPT !["control"] = Unused]
              /\ UNCHANGED <<refreshing, refreshes>>
        /\ UNCHANGED <<server, form, spent, rewound>>

SaveArrives ==
    /\ calls["rating"].phase = "served"
    /\ page' = [page EXCEPT !.rating = calls["rating"].kind]
    /\ form' = [form EXCEPT !.open = FALSE]
    /\ calls' = [calls EXCEPT !["rating"] = Unused]
    /\ UNCHANGED <<server, refreshing, refreshes, spent, rewound>>

CollectArrives ==
    /\ calls["collect"].phase = "served"
    /\ page' = [page EXCEPT !.package = "ready"]
    /\ calls' = [calls EXCEPT !["collect"] = Unused]
    /\ UNCHANGED <<server, refreshing, refreshes, form, spent, rewound>>

-----------------------------------------------------------------------------
Refresh(s) == \/ ServeRead(s) \/ TaskArrives(s) \/ EventsArrive(s) \/ ResultArrives(s)
              \/ RatingArrives(s) \/ PackageArrives(s)

Task == Emit \/ Boundary \/ Finish
User == Stop \/ Steer \/ Resume \/ Save \/ Collect \/ Open \/ (\E r \in Ratings : Choose(r)) \/ ToggleMode
Answered == ControlArrives \/ SaveArrives \/ CollectArrives \/ CallRefused

Next ==
    \/ Task \/ User \/ Tick \/ Answered
    \/ \E s \in Slots : Refresh(s) \/ ReadFails(s)
    \/ \E b \in Buttons : ServeCall(b) \/ CallFails(b)

Spec == Init /\ [][Next]_vars

\* The timer ticks, the server answers and the browser takes the answers up.
Fairness ==
    /\ WF_vars(Tick)
    /\ \A s \in Slots : WF_vars(Refresh(s))
    /\ \A b \in Buttons : WF_vars(ServeCall(b))
    /\ WF_vars(Answered)

FairSpec == Spec /\ Fairness

-----------------------------------------------------------------------------
(* Properties.                                                             *)

\* refresh, cursor: whatever overlaps and fails, the timeline is the task's
\* log from its start, in order and without repetition.
TimelineIsLog == page.events = Upto(page.cursor) /\ page.cursor <= server.log

\* refresh, feedbackOpen: no answer replaces what the user has chosen in an
\* editor that was opened.
ChoicesAreUsers == form.open => form.rating = form.meant

\* refresh, perform: the task is never shown going back to a state it has
\* left, unless the answer of a control overtook that of a refresh.
BackOnlyByControl == rewound => spent.controls > 0

ShownSound == TimelineIsLog /\ ChoicesAreUsers /\ BackOnlyByControl

\* refresh, onMounted: once a task has ended, the page comes to show its
\* state, its result, every event and what was saved last, though a refresh
\* is left half done by a failure and an older answer may come late.
CaughtUp ==
    Ended(server.state) =>
        /\ page.state = server.state /\ page.result
        /\ page.events = Upto(server.log)
        /\ page.rating = server.rating /\ page.package = server.package

PageCatchesUp == []<>CaughtUp
=============================================================================
