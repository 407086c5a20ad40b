----------------------------- MODULE MC_Skills ------------------------------
(* The programs that read the host's data for the agent: the encoder skill,  *)
(* the log tools and the host snapshot.  They share nothing; one run checks  *)
(* them, each behaviour being one of one program.                            *)
EXTENDS Integers, Sequences, FiniteSets

CONSTANTS
    Programs,       \* those that are run
    Streams, MaxMovements, TopEvents, TopEpisodes,          \* EncoderHealth
    Hour, MaxTime, MaxLines, MaxRestarts, Counts, Full,              \* LogTools
    WindowStarts, WindowEnds, Samples, HourLimit, FileLimit,
    LinesBefore, LinesAfter, MaxShown, SizeShown,
    HostTime                                                \* HostFacts

VARIABLES
    which,
    stream, log, made,
    clock, files, counter, pending, cows, restarts, blurred,
    now, phase, admitted, done, snapshot, measured, spoken

encoderVars == <<stream, log, made>>
toolVars == <<clock, files, counter, pending, cows, restarts, blurred>>
hostVars == <<now, phase, admitted, done, snapshot, measured, spoken>>
vars == <<which, encoderVars, toolVars, hostVars>>

-----------------------------------------------------------------------------
(* The movements of which the checked logs are made: steps of 100 or 200 ms, *)
(* gaps of 3 and 4 s, increments of 10 counts at 30 mm/s.                    *)

Moved(dt, d, v) == [dt |-> dt, d |-> d, v |-> v, bad |-> FALSE, to |-> -1]
Times(k, step) == [i \in 1..k |-> step]

MCMovements ==
    [run     |-> Times(4, Moved(1, 10, 30)),
     slower  |-> Times(3, Moved(2, 4, 30)),
     stop    |-> Times(11, Moved(2, 0, 0)),
     zero    |-> <<Moved(1, 10, 0), Moved(1, 10, 30)>>,
     reverse |-> <<Moved(1, -12, 30), Moved(1, -8, 30)>>,
     rebound |-> <<Moved(2, -6, 0), Moved(1, 1, 0), Moved(1, -3, 0)>>,
     glitch  |-> <<Moved(1, -60, 30), Moved(1, 80, 30), Moved(1, 10, 30)>>,
     spike   |-> <<Moved(1, 70, 30)>>,
     gap     |-> <<Moved(30, 60, 30)>>,
     bad     |-> <<[Moved(1, 0, 30) EXCEPT !.bad = TRUE], Moved(1, 20, 30)>>,
     twin    |-> <<Moved(0, 0, 30), Moved(1, 10, 30)>>,
     reset   |-> <<[Moved(1, 0, 0) EXCEPT !.to = 0], Moved(1, 10, 30)>>,
     storm   |-> <<Moved(30, 60, 30), Moved(1, -60, 30), Moved(1, 70, 30), Moved(1, 10, 30),
                   Moved(1, -80, 30), Moved(1, 90, 30), Moved(40, 90, 30)>>,
     dip     |-> <<[Moved(1, 0, 30) EXCEPT !.to = 5], [Moved(1, 0, 30) EXCEPT !.to = 12060]>>]

\* Windows and queries are asked for in any combination; both tools refuse a
\* window that ends before it begins.
MCWindows  == {w \in WindowStarts \X WindowEnds : w[1] < w[2]}
MCContexts == [before : LinesBefore, after : LinesAfter, max : MaxShown, size : SizeShown]

Encoder == INSTANCE EncoderHealth WITH Movements <- MCMovements
Tools   == INSTANCE LogTools WITH Windows <- MCWindows, Contexts <- MCContexts
Host    == INSTANCE HostFacts WITH MaxTime <- HostTime

ASSUME EncoderAssumption == Encoder!TopEventsAssumption /\ Encoder!MovementsAssumption
ASSUME ToolsAssumption   == Tools!ToolsAssumption
ASSUME HostAssumption    == Host!TimeAssumption

-----------------------------------------------------------------------------
\* The variables of a program that is not run.
EncoderOff == stream = "off" /\ log = "off" /\ made = "off"
ToolsOff == /\ clock = "off" /\ files = "off" /\ counter = "off" /\ pending = "off"
            /\ cows = "off" /\ restarts = "off" /\ blurred = "off"
HostOff == /\ now = "off" /\ phase = "off" /\ admitted = "off" /\ done = "off"
           /\ snapshot = "off" /\ measured = "off" /\ spoken = "off"

Init ==
    /\ which \in Programs
    /\ IF which = "encoder" THEN Encoder!Init ELSE EncoderOff
    /\ IF which = "tools" THEN Tools!Init ELSE ToolsOff
    /\ IF which = "host" THEN Host!Init ELSE HostOff

Next ==
    \/ which = "encoder" /\ Encoder!Next /\ UNCHANGED <<which, toolVars, hostVars>>
    \/ which = "tools" /\ Tools!Next /\ UNCHANGED <<which, encoderVars, hostVars>>
    \/ which = "host" /\ Host!Next /\ UNCHANGED <<which, encoderVars, toolVars>>

Spec == Init /\ [][Next]_vars

-----------------------------------------------------------------------------
\* encoder_health: events rest on neighbouring readable samples, and every
\* decrease belongs to exactly one of them.
EncoderEventsSound ==
    which = "encoder" => Encoder!NothingAcrossABarrier /\ Encoder!EachDecreaseOnce

\* encoder_health: the extremes and the processes of the window are reported
\* as they were, the most telling ones first.
EncoderReportTrue ==
    which = "encoder" =>
        Encoder!ExtremesShown /\ Encoder!EpisodesTrue /\ Encoder!MotionReportTrue

\* data_locator, log_context, nipple_stats: no line of the window asked for is
\* missed or its files are refused, what is left out is shown, each cow counts
\* once with its last result, and the shares that are told add up.
ToolsSound ==
    which = "tools" =>
        /\ Tools!NoLineMissed /\ Tools!SamplesSpan /\ Tools!LocatorTruthful
        /\ Tools!OmissionsShown
        /\ Tools!CowsCounted /\ Tools!EveryCowTold /\ Tools!DiscoveryMissesEarlierOnly

\* host_snapshot: figures are of this start and dated.
FiguresSound ==
    which = "host" => Host!TypeOK /\ Host!FiguresAreOfThisStart /\ Host!FiguresAreDated

\* What the documents say and the code does not keep.
EventsAreTold == which = "encoder" => Encoder!EventsAreTold
CowsCountedAsLocated == which = "tools" => Tools!CowsCountedAsLocated
=============================================================================
