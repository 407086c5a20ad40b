----------------------------- MODULE EventFeed -----------------------------
(* The progress events of one task: the observer that turns the transcript  *)
(* of each model request into events, the sink that numbers them and        *)
(* appends them to events.jsonl, and the page that polls GET events with    *)
(* the number of the last event it has.  Handlers and users emit from       *)
(* threads of their own; a long line reaches the file in two writes; a      *)
(* write may fail before or in the middle of a line; the process may end.   *)
EXTENDS Integers, Sequences, FiniteSets, SequencesExt

CONSTANTS
    Calls,        \* the tool calls the agent makes
    Cards,        \* the calls of progress_card, whose results are no event
    Text,         \* Calls -> "short", "long" (two writes) or "separator" (a
                  \* character str.splitlines ends a line at, as U+2028)
    MaxRequests,  \* bound: model requests
    MaxUser,      \* bound: events of the user's controls
    MaxFaults     \* bound: appends that fail

FeedAssumption ==
    /\ Cards \subseteq Calls
    /\ Text \in [Calls -> {"short", "long", "separator"}]
    /\ MaxRequests \in Nat /\ MaxUser \in Nat /\ MaxFaults \in Nat

VARIABLES
    transcript,  \* the calls and results the next request's messages hold, and
                 \* every call made so far
    seen,        \* AgentProgressObserver._seen_calls and _seen_results
    handler,     \* "idle", or "called": inside the hook of a request
    memory,      \* InMemoryEventSink._events: every event, numbered
    writer,      \* who holds the sink's lock, and its event
    file,        \* the lines of events.jsonl
    page,        \* the browser: its cursor and the events it shows
    alive,       \* the server process is up
    spent        \* the bounds used: requests, user events, faults

vars == <<transcript, seen, handler, memory, writer, file, page, alive, spent>>

Nobody == [who |-> "nobody"]
Free == writer = Nobody

Whole(e)   == [e |-> e, whole |-> TRUE]
Half(e)    == [e |-> e, whole |-> FALSE]
Seqs(rows) == {rows[i].e.seq : i \in DOMAIN rows}

(* A line that was cut, and one that splitlines cuts again, is no JSON: the  *)
(* reader raises and returns nothing of the file.                            *)
Readable == \A i \in DOMAIN file : file[i].whole /\ file[i].e.text # "separator"

Init ==
    /\ transcript = [made |-> {}, calls |-> {}, results |-> {}]
    /\ seen = [calls |-> {}, results |-> {}]
    /\ handler = "idle" /\ memory = <<>> /\ writer = Nobody /\ file = <<>>
    /\ page = [cursor |-> 0, shown |-> <<>>]
    /\ alive = TRUE
    /\ spent = [requests |-> 0, user |-> 0, faults |-> 0]

-----------------------------------------------------------------------------
(* The sink.  The number is taken and the line appended under one lock.     *)

Event(type, of, text) ==
    [seq |-> Len(memory) + 1, type |-> type, of |-> of, text |-> text]

(* As if every caller had a lock of its own.                                 *)
EmitUnlocked(who, type, of, text) ==
    LET e == Event(type, of, text)
    IN  /\ memory' = Append(memory, e)
        /\ IF Free THEN /\ writer' = [who |-> who, e |-> e]
                        /\ UNCHANGED file
                   ELSE /\ file' = Append(file, Whole(e))
                        /\ UNCHANGED writer

Emit(who, type, of, text) ==
    LET e == Event(type, of, text)
    IN  /\ Free
        /\ memory' = Append(memory, e)
        /\ writer' = [who |-> who, e |-> e]
        /\ UNCHANGED file

Started == file # <<>> /\ Last(file) = Half(writer.e)

(* One write, or the second one of a long line.                              *)
WriteLine ==
    /\ alive /\ ~Free
    /\ Started \/ writer.e.text # "long"
    /\ file' = IF Started THEN [file EXCEPT ![Len(file)] = Whole(writer.e)]
                          ELSE Append(file, Whole(writer.e))
    /\ writer' = Nobody
    /\ UNCHANGED <<transcript, seen, handler, memory, page, alive, spent>>

WriteFirstPart ==
    /\ alive /\ ~Free
    /\ ~Started /\ writer.e.text = "long"
    /\ file' = Append(file, Half(writer.e))
    /\ UNCHANGED <<transcript, seen, handler, memory, writer, page, alive, spent>>

(* The append raises, with or without a piece of the line written; the       *)
(* number is used up.  In the handler the exception ends the hook.           *)
WriteFails ==
    /\ alive /\ ~Free /\ spent.faults < MaxFaults
    /\ file' \in {file} \cup (IF Started THEN {} ELSE {Append(file, Half(writer.e))})
    /\ handler' = IF writer.who = "handler" THEN "idle" ELSE handler
    /\ writer' = Nobody
    /\ spent' = [spent EXCEPT !.faults = @ + 1]
    /\ UNCHANGED <<transcript, seen, memory, page, alive>>

(* The process ends; what it had begun to write stays.                       *)
Crash ==
    /\ alive
    /\ alive' = FALSE /\ handler' = "idle" /\ writer' = Nobody
    /\ UNCHANGED <<transcript, seen, memory, file, page, spent>>

-----------------------------------------------------------------------------
(* The observer, inside the handler of one model request.                   *)

AgentCalls ==
    /\ alive /\ handler = "idle"
    /\ \E c \in Calls \ transcript.made :
          transcript' = [transcript EXCEPT !.made = @ \cup {c}, !.calls = @ \cup {c}]
    /\ UNCHANGED <<seen, handler, memory, writer, file, page, alive, spent>>

ToolReturns ==
    /\ alive /\ handler = "idle"
    /\ \E c \in transcript.calls \ transcript.results :
          transcript' = [transcript EXCEPT !.results = @ \cup {c}]
    /\ UNCHANGED <<seen, handler, memory, writer, file, page, alive, spent>>

(* OpenClaw compacts: a call and its result leave the messages, or the call  *)
(* alone.                                                                    *)
Compact ==
    /\ alive /\ handler = "idle"
    /\ \E c \in transcript.calls \cap transcript.results, both \in BOOLEAN :
          transcript' = [transcript EXCEPT !.calls = @ \ {c},
                                           !.results = IF both THEN @ \ {c} ELSE @]
    /\ UNCHANGED <<seen, handler, memory, writer, file, page, alive, spent>>

Request ==
    /\ alive /\ handler = "idle" /\ spent.requests < MaxRequests
    /\ Emit("handler", "MODEL_REQUEST", "none", "short")
    /\ handler' = "called"
    /\ spent' = [spent EXCEPT !.requests = @ + 1]
    /\ UNCHANGED <<transcript, seen, page, alive>>

Remember(old, kind, c) == [old EXCEPT ![kind] = @ \cup {c}]

NewCalls   == transcript.calls \ seen.calls
NewResults == transcript.results \ seen.results

ObserveCall ==
    /\ alive /\ handler = "called" /\ Free
    /\ \E c \in NewCalls :
          /\ seen' = Remember(seen, "calls", c)
          /\ Emit("handler", IF c \in Cards THEN "PROGRESS_UPDATE" ELSE "TOOL_CALL",
                  c, IF c \in Cards THEN Text[c] ELSE "short")
    /\ UNCHANGED <<transcript, handler, page, alive, spent>>

(* The result of a progress card is remembered and not told.                 *)
ObserveResult ==
    /\ alive /\ handler = "called" /\ Free
    /\ NewCalls = {}
    /\ \E c \in NewResults :
          /\ seen' = Remember(seen, "results", c)
          /\ IF c \in Cards \cap transcript.calls
             THEN UNCHANGED <<memory, writer, file>>
             ELSE Emit("handler", "TOOL_RESULT", c, Text[c])
    /\ UNCHANGED <<transcript, handler, page, alive, spent>>

Observed ==
    /\ alive /\ handler = "called" /\ writer.who # "handler"
    /\ NewCalls = {} /\ NewResults = {}
    /\ handler' = "idle"
    /\ UNCHANGED <<transcript, seen, memory, writer, file, page, alive, spent>>

(* stop, steer, resume: the controller emits in the thread of the call.      *)
UserControl ==
    /\ alive /\ spent.user < MaxUser
    /\ Emit("user", "USER_STEER", "none", "short")
    /\ spent' = [spent EXCEPT !.user = @ + 1]
    /\ UNCHANGED <<transcript, seen, handler, page, alive>>

-----------------------------------------------------------------------------
(* The page: get_events(after = cursor), next_after the largest number.     *)

Picked(rows, after) ==
    LET picked[n \in 0 .. Len(rows)] ==
          IF n = 0 THEN <<>>
          ELSE IF rows[n].e.seq > after THEN Append(picked[n - 1], rows[n]) ELSE picked[n - 1]
    IN  picked

Newer(rows, after) == Picked(rows, after)[Len(rows)]

NextAfterPlus(rows, after) == Max({after} \cup {n + 1 : n \in Seqs(rows)})

NextAfter(rows, after) == Max({after} \cup Seqs(rows))

Poll ==
    /\ Readable
    /\ LET rows == Newer(file, page.cursor)
       IN  page' = [cursor |-> NextAfter(rows, page.cursor),
                    shown |-> page.shown \o [i \in DOMAIN rows |-> rows[i].e]]
    /\ UNCHANGED <<transcript, seen, handler, memory, writer, file, alive, spent>>

-----------------------------------------------------------------------------
Next ==
    \/ WriteLine \/ WriteFirstPart \/ WriteFails \/ Crash
    \/ AgentCalls \/ ToolReturns \/ Compact
    \/ Request \/ ObserveCall \/ ObserveResult \/ Observed
    \/ UserControl \/ Poll

Spec == Init /\ [][Next]_vars

(* The page asks again every 1.5 s, and a write that was begun returns       *)
(* unless the process ends.                                                  *)
Fairness == WF_vars(Poll) /\ WF_vars(WriteLine) /\ WF_vars(WriteFirstPart)
FairSpec == Spec /\ Fairness

-----------------------------------------------------------------------------
(* The page shows the events in the order they were given and none twice,   *)
(* and never moves its cursor past a line that it has not shown, whatever    *)
(* threads emit at once and whatever the poll catches half written.          *)
NothingSkipped ==
    /\ \A i, j \in DOMAIN page.shown : i < j => page.shown[i].seq < page.shown[j].seq
    /\ \A i \in DOMAIN file : file[i].whole /\ file[i].e.seq <= page.cursor
                                => Contains(page.shown, file[i].e)

(* Each tool call and each result of the agent is told at most once, however *)
(* often its messages are sent again, also after they were compacted and     *)
(* after an append failed.                                                   *)
ToldOnce ==
    \A i, j \in DOMAIN memory :
       memory[i].type = memory[j].type /\ memory[i].of = memory[j].of
          /\ memory[i].of # "none" => i = j

(* An event that stands in the file reaches the page, also one of a process  *)
(* that ended since, as long as no append was cut and no text holds a line   *)
(* separator.                                                                *)
CaughtUp == ~Readable \/ \A i \in DOMAIN file : Contains(page.shown, file[i].e)
FeedCatchesUp == []<>CaughtUp

(* What the sink has appended completely, without any fault, is readable:    *)
(* "Completed history is readable after restart".                            *)
AppendedIsReadable ==
    spent.faults = 0 /\ alive /\ Free => Readable

=============================================================================
