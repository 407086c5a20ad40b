----------------------------- MODULE MC_Records -----------------------------
(* What becomes of an answer: where a task goes after its turns, its         *)
(* finalization, and the verdict on it.  They are told apart by the files    *)
(* they write, so that each behaviour is one of one component.               *)
EXTENDS Integers, Sequences, FiniteSets

CONSTANTS
    Components,                                        \* those that are run
    Items, Payloads, Reports, MaxSection,
    MaxClaims, MaxRefs, MaxSummary, MaxExplanations, MaxRows,
    LongerRetry, Composer, MaxFaults,                  \* Finalizer
    Tasks, NoTask, MaxSaves, Faults,                   \* Assessment
    MaxStaleRounds, MaxItems, MaxTurns                 \* Routing

VARIABLES
    which,
    mode, step, task, reasons, said, verdict, writes, disk, faults, crashed,
    process, todo, life, held, copies, flight, call, ids, clean,
    born, became, state, native, messages, traced, catalog, rounds, turn, waiting, why, gains

answerVars == <<mode, step, task, reasons, said, verdict, writes, disk, faults, crashed>>
verdictVars == <<process, todo, life, held, copies, flight, call, ids, clean>>
routeVars == <<born, became, state, native, messages, traced, catalog, rounds, turn, waiting,
               why, gains>>
vars == <<which, answerVars, verdictVars, routeVars>>

-----------------------------------------------------------------------------
\* Two lines of one log, one of which repeats what a structured result
\* says, that result, an image, and working data.
Item(source, type, role, shown) ==
    [source |-> source, type |-> type, role |-> role, shown |-> shown]

MCItems == <<Item("log", "line", "none", "r1"),
             Item("metrics", "facts", "action_verification", "r1"),
             Item("picture", "image", "none", "r3"),
             Item("scratch", "line", "working_derived", "r4")>>

MCSection == [s \in {"facts", "possibilities", "next_steps", "limitations"} |-> 1]

Claim(id, kind, relation, confidence, refs) ==
    [keys |-> TRUE, id |-> id, kind |-> kind, relation |-> relation, scope |-> "event",
     confidence |-> confidence, topic |-> 1, refs |-> refs]

RefLists == {<<>>, <<1>>, <<1, 2>>, <<3>>, <<9>>}

\* Every combination of the fields that decide what a claim is.
Alone == {Claim(1, k, r, c, refs) :
            k \in {"fact", "inference", "unknown", "list"}, r \in {"observed", "temporal_association", "causal_hypothesis", "unknown"}, c \in {"high", "low", "unknown"},
            refs \in RefLists}

Odd == {[Claim(1, "fact", "observed", "high", <<1>>) EXCEPT !.keys = FALSE],
        [Claim(1, "fact", "observed", "high", <<1>>) EXCEPT !.id = 0],
        [Claim(1, "fact", "observed", "high", <<1>>) EXCEPT !.topic = 0],
        [Claim(1, "fact", "observed", "high", <<1>>) EXCEPT !.scope = "unknown"],
        Claim(1, "fact", "observed", "high", <<1, 1>>),
        Claim(1, "fact", "observed", "high", <<2, 1, 3>>),
        Claim(1, "fact", "list", "high", <<1>>)}

Payload(claims, summary) == [keys |-> TRUE, claims |-> claims, summary |-> summary]

Pairs == {Claim(1, "fact", "observed", "high", <<1>>),
          Claim(1, "fact", "observed", "high", <<2>>),
          Claim(1, "fact", "observed", "high", <<3>>),
          Claim(1, "fact", "temporal_association", "low", <<1, 2>>),
          Claim(1, "inference", "causal_hypothesis", "low", <<2>>),
          Claim(1, "inference", "observed", "high", <<1>>),
          Claim(1, "unknown", "unknown", "unknown", <<>>)}

MCPayloads ==
    {Payload(<<c>>, <<1>>) : c \in Alone \cup Odd}
    \cup {Payload(<<c, [d EXCEPT !.id = 2]>>, s) : c \in Pairs, d \in Pairs, s \in {<<1>>, <<2, 1>>}}
    \cup {Payload(<<>>, <<>>), Payload(<<Claim(1, "fact", "observed", "high", <<1>>)>>, <<2>>)}

Told(claims, refs) == <<[text |-> TRUE, claims |-> claims, refs |-> refs]>>

MCReports ==
    {[conclusion |-> Told(<<1>>, <<>>), facts |-> f, possibilities |-> p,
      next_steps |-> <<>>, limitations |-> <<>>] :
        f \in {<<>>, Told(<<1>>, <<1>>), Told(<<2>>, <<2>>), Told(<<1, 2>>, <<1>>)},
        p \in {<<>>, Told(<<2>>, <<2>>)}}

-----------------------------------------------------------------------------
Final == INSTANCE Finalizer WITH todo <- writes
Verdict == INSTANCE Assessment
Route == INSTANCE Routing WITH mode <- became, reasons <- why

ASSUME FinalAssumption ==
    Final!LimitsAssumption /\ Final!SwitchesAssumption /\ Final!AnswersAssumption
ASSUME VerdictAssumption ==
    Verdict!TaskAssumption /\ Verdict!SavesAssumption /\ Verdict!FaultAssumption
ASSUME RouteAssumption   == Route!RoutingAssumption

-----------------------------------------------------------------------------
\* The variables of a component that is not run.
FinalOff == /\ mode = "off" /\ step = "off" /\ task = "off" /\ reasons = "off"
            /\ said = "off" /\ verdict = "off" /\ writes = "off" /\ disk = "off"
            /\ faults = "off" /\ crashed = "off"
VerdictOff == /\ process = "off" /\ todo = "off" /\ life = "off" /\ held = "off"
              /\ copies = "off" /\ flight = "off" /\ call = "off" /\ ids = "off"
              /\ clean = "off"
RouteOff == /\ born = "off" /\ became = "off" /\ state = "off" /\ native = "off"
            /\ messages = "off" /\ traced = "off" /\ catalog = "off" /\ rounds = "off"
            /\ turn = "off" /\ waiting = "off" /\ why = "off" /\ gains = "off"

Init ==
    /\ which \in Components
    /\ IF which = "final" THEN Final!Init ELSE FinalOff
    /\ IF which = "verdict" THEN Verdict!Init ELSE VerdictOff
    /\ IF which = "route" THEN Route!Init ELSE RouteOff

OnlyFinal   == which = "final" /\ UNCHANGED <<which, verdictVars, routeVars>>
OnlyVerdict == which = "verdict" /\ UNCHANGED <<which, answerVars, routeVars>>
OnlyRoute   == which = "route" /\ UNCHANGED <<which, answerVars, verdictVars>>

Next == \/ OnlyFinal /\ Final!Next
        \/ OnlyVerdict /\ Verdict!Next
        \/ OnlyRoute /\ Route!Next

Spec == Init /\ [][Next]_vars

\* The fairness of each component.  A worker thread runs on, the write it
\* began returns and an operator brings the server back; the classifier's
\* thread runs on.
FairSpec ==
    /\ Spec
    /\ WF_vars(OnlyFinal /\ Final!Work) /\ WF_vars(OnlyFinal /\ Final!Restart)
    /\ WF_writes(which = "final" /\ Final!Returns)
    /\ WF_vars(OnlyVerdict /\ Verdict!Worker)

-----------------------------------------------------------------------------
\* service.py, investigation.py: a task is what its turns made of it.  And
\* finalizer/, investigation.py: nothing told as observed that was not, and
\* the files of a finished task agree whatever was interrupted.
FinalSound ==
    /\ which = "route" => Route!RoutesSound
    /\ which = "final" => /\ Final!NeverUpgraded /\ Final!AnswerWithResult
                          /\ Final!ReportWasInformed /\ Final!OnlyFaultsDisagree

\* service.py: a verdict interrupted between any two writes ends up as one
\* record, shown, logged and counted once.
VerdictsSound ==
    which = "verdict" => /\ Verdict!TypeOK /\ Verdict!CopiesAgree /\ Verdict!PendingIsLive
                         /\ Verdict!LoggedOnce /\ Verdict!AttemptCountedOnce
                         /\ Verdict!DeletedStaysDeleted

\* No verdict is replaced unlogged, and none goes back to an earlier one.
VerdictsForward ==
    [][which = "verdict" => Verdict!ReplacedByStep /\ Verdict!ForwardByStep]_vars

\* Every finalization ends in a terminal record, and a classification ends
\* and makes room for the next.
RecordsSettle ==
    /\ <>[](which = "final" => Final!Recorded)
    /\ which = "verdict" /\ Verdict!InFlight ~> which = "verdict" /\ ~Verdict!InFlight
=============================================================================
