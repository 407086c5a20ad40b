-------------------------------- MODULE Board --------------------------------
(***************************************************************************)
(* The page of the runs (frontend/src/views/DashboardView.vue): the runs   *)
(* of one day, under filters, beside the calendar of its month.            *)
(*                                                                         *)
(* Every refresh takes a number and reads the calendar and the list at     *)
(* once; refreshes overlap, their answers come in any order, and only the  *)
(* one with the last number is shown.                                      *)
(***************************************************************************)
EXTENDS Integers, FiniteSets

CONSTANTS
    Runs,         \* the runs there are
    MaxRefreshes, \* bound: refreshes of one visit
    MaxFailures   \* bound: requests that fail

BoardAssumption == IsFiniteSet(Runs) /\ MaxRefreshes \in Nat /\ MaxFailures \in Nat

VARIABLES
    world,      \* the runs that have not been deleted, and how often it changed
    selected,   \* selectedMonth, selectedDay and filters
    generation,
    flights,    \* the refreshes whose answers have not been taken up
    list,       \* tasks, and what they are the list of
    calendar,   \* calendarDays, and the month they are of
    loading,    \* historyLoading
    error,
    deleting,   \* deletingId, and how far deleteEntry has come
    creating,   \* loading: createEntry is under way
    failures,
    regressed   \* history: an older list replaced a newer one

vars == <<world, selected, generation, flights, list, calendar, loading, error, deleting,
          creating, failures, regressed>>

None    == [none |-> TRUE]
Nobody  == [run |-> None, step |-> "idle", token |-> 0]
Cleared(of) == [of |-> of, runs |-> {}, at |-> 0]

Init ==
    /\ world = [runs |-> Runs, at |-> 0]
    /\ selected = [month |-> 1, day |-> 1, filters |-> {}]
    /\ generation = 0 /\ flights = {}
    /\ list = Cleared(None) /\ calendar = None
    /\ loading = FALSE /\ error = FALSE
    /\ deleting = Nobody /\ creating = FALSE
    /\ failures = 0 /\ regressed = FALSE

-----------------------------------------------------------------------------
(* refresh().                                                              *)

Flight(of) == [token |-> generation + 1, of |-> of, list |-> None]

\* The number is taken and both requests are sent.
Refresh(of) ==
    /\ generation < MaxRefreshes
    /\ generation' = generation + 1
    /\ flights' = flights \cup {Flight(of)}
    /\ loading' = TRUE

Tick == /\ Refresh(selected)
        /\ UNCHANGED <<world, selected, list, calendar, error, deleting, creating, failures,
                       regressed>>

Replace(f, g) == flights' = (flights \ {f}) \cup {g}

Server == UNCHANGED <<selected, generation, list, calendar, loading, error, creating, failures,
                      regressed>>

\* The calendar is told by its month alone, whenever it is read.
ServeList(f) ==
    /\ f.list = None
    /\ Replace(f, [f EXCEPT !.list = [of |-> f.of, runs |-> world.runs, at |-> world.at]])
    /\ UNCHANGED <<world, deleting>> /\ Server

\* Mutant of Current: any answer is shown.
CurrentAlways(f) == TRUE

Current(f) == f.token = generation

\* deleteEntry has waited for this refresh.
Deleted(f) == IF deleting.step = "refresh" /\ deleting.token = f.token THEN Nobody ELSE deleting

Answered(f) ==
    /\ f.list # None
    /\ IF Current(f)
       THEN /\ list' = f.list /\ calendar' = [month |-> f.of.month]
            /\ regressed' = (regressed \/ f.list.at < list.at)
            /\ error' = FALSE /\ loading' = FALSE
       ELSE UNCHANGED <<list, calendar, regressed, error, loading>>
    /\ flights' = flights \ {f}
    /\ deleting' = Deleted(f)
    /\ UNCHANGED <<world, selected, generation, creating, failures>>

\* Promise.all rejects with the first of the two.
Rejected(f) ==
    /\ failures < MaxFailures /\ failures' = failures + 1
    /\ IF Current(f) THEN error' = TRUE /\ loading' = FALSE ELSE UNCHANGED <<error, loading>>
    /\ flights' = flights \ {f}
    /\ deleting' = Deleted(f)
    /\ UNCHANGED <<world, selected, generation, list, calendar, creating, regressed>>

-----------------------------------------------------------------------------
(* The user.                                                               *)

Selects(of) ==
    /\ selected' = of /\ Refresh(of)
    /\ UNCHANGED <<world, calendar, error, deleting, creating, failures, regressed>>

\* The list of the month that was left stays until the answer.
ShiftMonth ==
    /\ Selects([selected EXCEPT !.month = 3 - @, !.day = 1])
    /\ UNCHANGED list

SelectDay(day) ==
    /\ Selects([selected EXCEPT !.day = day])
    /\ list' = Cleared(selected')

SetFilters(filters) ==
    /\ filters # selected.filters
    /\ Selects([selected EXCEPT !.filters = filters])
    /\ list' = Cleared(selected')

\* deleteEntry, of a finished run that is shown.
Delete(run) ==
    /\ run \in list.runs /\ deleting = Nobody
    /\ deleting' = [run |-> run, step |-> "request", token |-> 0]
    /\ error' = FALSE
    /\ UNCHANGED <<world, selected, generation, flights, list, calendar, loading, creating,
                   failures, regressed>>

ServeDelete ==
    /\ deleting.step = "request" /\ deleting.run \in world.runs
    /\ world' = [runs |-> world.runs \ {deleting.run}, at |-> world.at + 1]
    /\ deleting' = [deleting EXCEPT !.step = "served"]
    /\ UNCHANGED flights /\ Server

DeleteAnswered ==
    /\ deleting.step = "served"
    /\ Refresh(selected)
    /\ deleting' = [deleting EXCEPT !.step = "refresh", !.token = generation + 1]
    /\ UNCHANGED <<world, selected, list, calendar, error, creating, failures, regressed>>

\* The run is gone already, or the request is lost before or after the server
\* has deleted it.
DeleteFails ==
    /\ \/ deleting.step = "request" /\ deleting.run \notin world.runs /\ UNCHANGED failures
       \/ /\ deleting.step \in {"request", "served"}
          /\ failures < MaxFailures /\ failures' = failures + 1
    /\ deleting' = Nobody /\ error' = TRUE
    /\ UNCHANGED <<world, selected, generation, flights, list, calendar, loading, creating,
                   regressed>>

\* createEntry: a run that is accepted opens its own page.
Create ==
    /\ ~creating /\ creating' = TRUE /\ error' = FALSE
    /\ UNCHANGED <<world, selected, generation, flights, list, calendar, loading, deleting,
                   failures, regressed>>

CreateFails ==
    /\ creating /\ creating' = FALSE /\ error' = TRUE
    /\ UNCHANGED <<world, selected, generation, flights, list, calendar, loading, deleting,
                   failures, regressed>>

User == \/ ShiftMonth
        \/ \E day \in 1..2 : SelectDay(day)
        \/ \E filters \in SUBSET {"state"} : SetFilters(filters)
        \/ \E run \in Runs : Delete(run)
        \/ Create

Next ==
    \/ Tick \/ User
    \/ \E f \in flights : ServeList(f) \/ Answered(f) \/ Rejected(f)
    \/ ServeDelete \/ DeleteAnswered \/ DeleteFails \/ CreateFails

Spec == Init /\ [][Next]_vars

-----------------------------------------------------------------------------
(* Properties.                                                             *)

\* refresh, generation: a list that is shown without a sign that it is being
\* read or that something failed is of the day and the filters selected, and
\* so is the calendar of its month, however the answers overtake each other.
SelectionShown ==
    generation > 0 /\ ~loading /\ ~error /\ deleting = Nobody /\ ~creating =>
        list.of = selected /\ calendar = [month |-> selected.month]

\* refresh, generation: an older list never replaces a newer one, so that a
\* run that was deleted does not come back.
NeverRegresses == ~regressed

BoardSound == SelectionShown /\ NeverRegresses
=============================================================================
