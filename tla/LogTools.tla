------------------------------ MODULE LogTools ------------------------------
(***************************************************************************)
(* The log of the plant program and the skills that read it:               *)
(* data_locator.py chooses the files of a time window, nipple_stats.py     *)
(* counts cows and their recognised nipples, log_context.py shows the      *)
(* lines around matches.                                                   *)
(*                                                                         *)
(* The program (external) writes lines into files, a new file per hour or  *)
(* at a restart; a restart sets its cow counter back.  For each cow it     *)
(* starts rounds of detection, whose results arrive while later rounds and *)
(* cows have begun, and finishes the cow with the image it decided on.     *)
(* `cows' is what really happened.  The tools are functions of the log; a  *)
(* file is known by the time in its name, rotations of one file are one.   *)
(***************************************************************************)
EXTENDS Integers, Sequences, FiniteSets, SequencesExt

CONSTANTS
    Hour,           \* ticks between two files
    MaxTime,        \* bound: ticks
    MaxLines,       \* bound: lines
    MaxRestarts,    \* bound: restarts
    Counts,         \* what a detection may count, capped at Full later
    Full,           \* nipples of a cow: 4
    Windows,        \* the windows users ask for, <<start, end>>
    Samples,        \* the values of --max-files
    HourLimit, FileLimit,   \* the catalog's limits of one request
    Contexts        \* the queries of log_context: [before, after, max, size]

ToolsAssumption ==
    /\ Hour \in Nat \ {0}
    /\ {MaxTime, MaxLines, MaxRestarts, Full, HourLimit, FileLimit} \subseteq Nat
    /\ Counts \subseteq Nat /\ Samples \subseteq Nat \ {0}
    /\ \A w \in Windows : w[1] \in Int /\ w[2] \in Int /\ w[1] < w[2]
    /\ Contexts \subseteq [before : Nat, after : Nat, max : Nat \ {0}, size : Nat]

VARIABLES
    clock,
    files,          \* [start, lines], in the order of their names
    counter,        \* CowOccuredCount of the running program
    pending,        \* rounds whose result is to come: [cow, round, img]
    cows,           \* what happened: [no, first, rounds, img, final, done]
    restarts,
    blurred         \* a restart came right after the first cow

vars == <<clock, files, counter, pending, cows, restarts, blurred>>

Missing == -1

\* The members of S up to n, in order.
Places(n, S) ==
    LET upto[k \in 0..n] == IF k = 0 THEN <<>>
                            ELSE IF k \in S THEN Append(upto[k - 1], k) ELSE upto[k - 1]
    IN  upto[n]

\* The values of f from 0 to n together.
Total(f, n) ==
    LET upto[k \in 0..n] == IF k = 0 THEN f[0] ELSE upto[k - 1] + f[k]
    IN  upto[n]
AllLines == FlattenSeq([i \in DOMAIN files |-> files[i].lines])
Room == Len(AllLines) < MaxLines

Init ==
    /\ clock = 0
    /\ files = <<[start |-> 0, lines |-> <<>>]>>
    /\ counter = 0
    /\ pending = {}
    /\ cows = <<>>
    /\ restarts = 0
    /\ blurred = FALSE

-----------------------------------------------------------------------------
(* The program.                                                            *)

Line(kind, no, round, img, count) ==
    [kind |-> kind, cow |-> no, round |-> round, img |-> img, count |-> count, at |-> clock]
Write(line) == files' = [files EXCEPT ![Len(files)].lines = Append(@, line)]

\* A file lasts an hour at most; the next one starts when it ends.
Tick ==
    /\ clock < MaxTime /\ clock' = clock + 1
    /\ files' = IF clock + 1 - Last(files).start < Hour THEN files
                ELSE Append(files, [start |-> clock + 1, lines |-> <<>>])
    /\ UNCHANGED <<counter, pending, cows, restarts, blurred>>

\* Images are numbered by their line.
Img == Len(AllLines) + 1

NewCow ==
    /\ Room
    /\ counter' = counter + 1
    /\ Write(Line("start", counter + 1, 1, Img, 0))
    /\ pending' = pending \cup {[cow |-> Len(cows) + 1, round |-> 1, img |-> Img]}
    /\ cows' = Append(cows, [no |-> counter + 1, first |-> clock, rounds |-> 1, img |-> Img,
                             final |-> Missing, done |-> FALSE])
    /\ UNCHANGED <<clock, restarts, blurred>>

NextRound(c) ==
    /\ Room /\ ~cows[c].done /\ c = Len(cows) /\ cows[c].no = counter
    /\ Write(Line("start", cows[c].no, cows[c].rounds + 1, Img, 0))
    /\ pending' = pending \cup {[cow |-> c, round |-> cows[c].rounds + 1, img |-> Img]}
    /\ cows' = [cows EXCEPT ![c].rounds = @ + 1, ![c].img = Img, ![c].final = Missing]
    /\ UNCHANGED <<clock, counter, restarts, blurred>>

Detected(p) ==
    /\ Room
    /\ \E n \in Counts :
          /\ Write(Line("frame", cows[p.cow].no, p.round, 0, n))
          /\ cows' = IF cows[p.cow].img = p.img THEN [cows EXCEPT ![p.cow].final = n] ELSE cows
    /\ pending' = pending \ {p}
    /\ UNCHANGED <<clock, counter, restarts, blurred>>

\* The last image decides; results that have not come will not.
FinishCow(c) ==
    /\ Room /\ ~cows[c].done
    /\ Write(Line("finish", cows[c].no, 0, cows[c].img, 0))
    /\ cows' = [cows EXCEPT ![c].done = TRUE]
    /\ pending' = {p \in pending : p.cow # c}
    /\ UNCHANGED <<clock, counter, restarts, blurred>>

\* What was under way is lost; no two files share a second.
RestartProgram ==
    /\ restarts < MaxRestarts /\ restarts' = restarts + 1
    /\ counter > 0 /\ Last(files).start < clock
    /\ \A n \in DOMAIN AllLines : AllLines[n].at < clock
    /\ files' = Append(files, [start |-> clock, lines |-> <<>>])
    /\ counter' = 0 /\ pending' = {}
    /\ blurred' = (blurred \/ counter = 1)
    /\ cows' = [c \in DOMAIN cows |-> [cows[c] EXCEPT !.done = TRUE, !.final =
                   IF cows[c].done THEN @ ELSE Missing]]
    /\ UNCHANGED clock

Next == \/ Tick \/ NewCow \/ RestartProgram
        \/ \E c \in DOMAIN cows : NextRound(c) \/ FinishCow(c)
        \/ \E p \in pending : Detected(p)
Spec == Init /\ [][Next]_vars

-----------------------------------------------------------------------------
(* data_locator.locate_logs.                                               *)

In(t, w) == w[1] <= t /\ t < w[2]

\* Mutant of FileEnd: a file is taken to end with the hour in its name.
FileEndOfHour(i) == ((files[i].start \div Hour) + 1) * Hour

\* A file ends where the next one starts; the last one after an hour.
FileEnd(i) == IF i < Len(files) THEN Max({files[i + 1].start, files[i].start + 1})
              ELSE files[i].start + Hour

Located(w) == {i \in DOMAIN files : files[i].start < w[2] /\ FileEnd(i) > w[1]}
LinesOf(S) == FlattenSeq([i \in DOMAIN files |-> IF i \in S THEN files[i].lines ELSE <<>>])

-----------------------------------------------------------------------------
(* data_locator.locate_multimodal: every round of detection saves an image *)
(* in the directory of its hour; too many for a window are sampled.        *)

\* The hours of a window, by their first tick.
Buckets(w) == {h \in {Hour * k : k \in 0..MaxTime} : h + Hour > w[1] /\ h < w[2]}
Images(w) ==
    LET all  == AllLines
        saved(l) == l.kind = "start" /\ (l.at \div Hour) * Hour \in Buckets(w)
        found == Places(Len(all), {n \in DOMAIN all : saved(all[n]) /\ In(all[n].at, w)})
    IN  [k \in DOMAIN found |-> all[found[k]]]
Distance(a, b) == IF a < b THEN b - a ELSE a - b

\* The image nearest to a target (scaled by k), of the two around it.
Near(q, k, target) ==
    LET index == Min({i \in DOMAIN q : q[i].at * k >= target} \cup {Len(q) + 1})
        two   == {index - 1, index} \cap DOMAIN q
    IN  Min({i \in two : \A j \in two :
                Distance(q[i].at * k, target) <= Distance(q[j].at * k, target)})

\* _evenly_spaced: the images nearest to a regular grid.
Sample(q, max) ==
    IF Len(q) <= max THEN DOMAIN q
    ELSE LET span == Last(q).at - q[1].at
         IN  IF max <= 1 THEN {Near(q, 2, q[1].at * 2 + span)}
             ELSE {Near(q, max - 1, q[1].at * (max - 1) + span * i) : i \in 0..(max - 1)}

-----------------------------------------------------------------------------
(* data_locator.main: what the agent is told of a window, and what is       *)
(* recorded as accessed.  there: the source's directory exists.             *)

Refused(w, max) ==
    w[2] <= w[1] \/ max \notin 1..FileLimit \/ Cardinality(Buckets(w)) > HourLimit

Told(there, matching, max, selected, gap) ==
    [status   |-> IF ~there THEN "source_unavailable" ELSE IF matching = 0 THEN "no_data" ELSE "found",
     matching |-> matching, truncated |-> matching > max, selected |-> selected, gap |-> gap]

\* Of too many files the first are kept.
LocateLogs(there, w, max) ==
    LET found == IF there THEN Located(w) ELSE {}
    IN  Told(there, Cardinality(found), max,
             {i \in found : Cardinality({j \in found : j <= i}) <= max}, Missing)

\* The gap is the largest between two images that follow each other.
LocateImages(there, w, max) ==
    LET q    == IF there THEN Images(w) ELSE <<>>
        S    == Sample(q, max)
        gaps == {q[Min({j \in S : j > i})].at - q[i].at : i \in {k \in S : \E j \in S : j > k}}
    IN  Told(there, Len(q), max, S, Max(gaps \cup {Missing}))

\* record_data_access
Access(told) == IF told.status = "found" THEN {[matched |-> told.matching, files |-> told.selected]}
                ELSE {}

-----------------------------------------------------------------------------
(* nipple_stats.discover_logs: the files with an hour of the window in     *)
(* their names, without a locator.  Rather than drop files it refuses.     *)

Discovered(w, max) ==
    LET named(i) == (files[i].start \div Hour) * Hour \in Buckets(w)
        found    == {i \in DOMAIN files : named(i)}
        refused  == Cardinality(found) > max
    IN  [refused |-> refused, files |-> IF refused THEN {} ELSE found]

-----------------------------------------------------------------------------
(* nipple_stats.main: one pass over the lines.                             *)

Unread == [epoch |-> 0, last |-> 0, active |-> <<>>, frames |-> <<>>, cycles |-> <<>>,
           orphans |-> 0]
Put(f, k, v) == [x \in DOMAIN f \cup {k} |-> IF x = k THEN v ELSE f[x]]

\* A counter that falls is a restart of the program.
Epoch(r, line) == IF r.last # 0 /\ line.cow < r.last THEN r.epoch + 1 ELSE r.epoch

\* The round of a cow is under way with an image.
ReadStart(r, line) ==
    LET epoch == Epoch(r, line)
        key   == <<epoch, line.cow>>
        known == key \in DOMAIN r.cycles
    IN  [r EXCEPT !.epoch = epoch, !.last = line.cow,
                  !.active = Put(IF epoch = r.epoch THEN @ ELSE <<>>, <<line.cow, line.round>>, line.img),
                  !.frames = Put(@, line.img, [key |-> key, count |-> Missing]),
                  !.cycles = IF known THEN @
                             ELSE Put(@, key, [first |-> line.at, done |-> FALSE, final |-> Missing])]

ReadFrame(r, line) ==
    LET pair == <<line.cow, line.round>>
    IN  IF pair \in DOMAIN r.active
        THEN [r EXCEPT !.frames[r.active[pair]].count = line.count] ELSE r

\* The count of the image the finish names is the cow's.
ReadFinish(r, line) ==
    IF line.img \notin DOMAIN r.frames THEN [r EXCEPT !.orphans = @ + 1]
    ELSE LET frame == r.frames[line.img]
         IN  [r EXCEPT !.cycles[frame.key].done = TRUE, !.cycles[frame.key].final = frame.count]

ReadNext(r, line) ==
    CASE line.kind = "start"  -> ReadStart(r, line)
      [] line.kind = "frame"  -> ReadFrame(r, line)
      [] line.kind = "finish" -> ReadFinish(r, line)

Stats(lines) ==
    LET read[n \in 0..Len(lines)] == IF n = 0 THEN Unread ELSE ReadNext(read[n - 1], lines[n])
    IN  read[Len(lines)]

\* The cycles of a window with their results, and what the summary makes of them.
Selected(lines, w) ==
    LET cycles == Stats(lines).cycles
    IN  [k \in {c \in DOMAIN cycles : In(cycles[c].first, w)} |-> cycles[k].final]
Capped(final) == IF final = Missing THEN 0 ELSE Min({final, Full})
Summary(final) ==
    [total    |-> Cardinality(DOMAIN final),
     missing  |-> Cardinality({c \in DOMAIN final : final[c] = Missing}),
     detected |-> Total([n \in 0..Full |-> n * Cardinality({c \in DOMAIN final : Capped(final[c]) = n})],
                        Full)]

\* distribution_by_final_2d_count, by the capped count or its absence.
Share(final, count) ==
    Cardinality({c \in DOMAIN final : IF count = Missing THEN final[c] = Missing
                                      ELSE final[c] # Missing /\ Capped(final[c]) = count})

\* What the product answer says of it: the shares it has words for, without zeros.
ToldKpi(final) ==
    LET worded == 0..Full \cup {Missing}
    IN  [total  |-> Cardinality(DOMAIN final), complete |-> Share(final, Full),
         shares |-> [count \in {n \in worded : Share(final, n) > 0} |-> Share(final, count)]]

-----------------------------------------------------------------------------
(* log_context.main over the files, with the finish lines as anchors.      *)

\* Adds the lines ns of file i, as long as there is room.
Picks(r, i, ns, q) ==
    LET pick[k \in 0..Len(ns)] ==
            IF k = 0 THEN r.lines
            ELSE IF Cardinality(pick[k - 1]) < q.max THEN pick[k - 1] \cup {<<i, ns[k]>>}
            ELSE pick[k - 1]
    IN  [r EXCEPT !.lines = pick[Len(ns)]]
Back(n, k) == [j \in 1..Min({k, n - 1}) |-> n - j]

\* max-lines has been reached.
Full0(r, q) == Cardinality(r.lines) >= q.max

ReadLine(r, i, n, q) ==
    LET anchor == files[i].lines[n].kind = "finish"
        read == CASE anchor -> [Picks(Picks(r, i, <<n>>, q), i, Back(n, q.before), q)
                                   EXCEPT !.after = q.after]
                  [] ~anchor /\ r.after > 0 -> [Picks(r, i, <<n>>, q) EXCEPT !.after = @ - 1]
                  [] OTHER -> r
    IN  IF Full0(read, q) THEN [read EXCEPT !.truncated = TRUE] ELSE read

\* Files are read in turn until the output is full.
ScannedFile(r, i, q) ==
    LET read[n \in 0..Len(files[i].lines)] ==
            IF n = 0 THEN [r EXCEPT !.after = 0]
            ELSE IF read[n - 1].truncated THEN read[n - 1] ELSE ReadLine(read[n - 1], i, n, q)
    IN  read[Len(files[i].lines)]

Scanned(q) ==
    LET read[i \in 0..Len(files)] ==
            IF i = 0 THEN [lines |-> {}, after |-> 0, truncated |-> FALSE]
            ELSE ScannedFile(read[i - 1], i, q)
    IN  read[Len(files)]
Before(a, b) == a[1] < b[1] \/ (a[1] = b[1] /\ a[2] < b[2])

\* The output is cut from the end until its text fits: size lines.
Context(q) ==
    LET r == Scanned(q)
        kept == {l \in r.lines : Cardinality({m \in r.lines : Before(m, l)}) < q.size}
    IN  [lines |-> kept, truncated |-> r.truncated \/ kept # r.lines]

Anchors == UNION {{<<i, n>> : n \in {m \in DOMAIN files[i].lines : files[i].lines[m].kind = "finish"}}
                  : i \in DOMAIN files}

-----------------------------------------------------------------------------
(* Properties.                                                             *)

\* data_locator: no line of the window is in a file that was not chosen,
\* whatever time of the hour the files and the restarts begin.
NoLineMissed ==
    \A w \in Windows : \A i \in DOMAIN files :
        (\E n \in DOMAIN files[i].lines : In(files[i].lines[n].at, w)) => i \in Located(w)

Reported(lines, w) == Summary(Selected(lines, w))
Real(w) == Summary([c \in {k \in DOMAIN cows : In(cows[k].first, w)} |->
                       IF cows[c].done THEN cows[c].final ELSE Missing])

\* nipple_stats over the whole log: each cow counts once, in the window of
\* its first round, with the result of the image that decided, although
\* results of several rounds and cows are mixed and numbers are used again
\* after a restart.  (After a restart whose predecessor saw one cow only,
\* cows are run together, never counted twice.)
CowsCounted ==
    \A w \in Windows :
        LET told == Reported(AllLines, w)
        IN  /\ ~blurred => told = Real(w)
            /\ told.total <= Real(w).total

\* The distribution the user is told adds up to the number of cows: no count
\* the tool can report lacks a word in the answer.
EveryCowTold ==
    \A w \in Windows :
        LET told == ToldKpi(Selected(AllLines, w))
            share(n) == IF n \in DOMAIN told.shares THEN told.shares[n] ELSE 0
        IN  Total([n \in 0..Full |-> share(n)], Full) + share(Missing) = told.total

\* The same of the files that data_locator chose for the window, which is
\* how SKILL.md says the tool is to be used.
CowsCountedAsLocated ==
    \A w \in Windows :
        ~blurred => Reported(LinesOf(Located(w)), w).total = Real(w).total

\* nipple_stats by itself: a file that holds a line of the window and is not
\* read began before the window's first hour, in which only a program that was
\* restarted in mid-hour writes on; without a restart every cow of the window is
\* counted, and beyond them only cows that began in an earlier hour and whose
\* next round that is read is in it; or the tool refuses and says so.
DiscoveryMissesEarlierOnly ==
    \A w \in Windows, max \in Samples :
        LET d == Discovered(w, max)
            missed == {i \in DOMAIN files \ d.files :
                          \E n \in DOMAIN files[i].lines : In(files[i].lines[n].at, w)}
            total  == Reported(LinesOf(d.files), w).total
            all    == AllLines
            begun(c, t) == \E n \in DOMAIN all :
                              all[n].kind = "start" /\ all[n].cow = cows[c].no /\ all[n].at = t
            goesOn == {c \in DOMAIN cows :
                          /\ cows[c].first < Min(Buckets(w))
                          /\ \E t \in 0..clock : /\ In(t, w) /\ begun(c, t)
                                                 /\ \A u \in Min(Buckets(w))..(w[1] - 1) : ~begun(c, u)}
        IN  ~d.refused =>
              /\ Cardinality(d.files) <= max
              /\ \A i \in missed : restarts > 0 /\ files[i].start < Min(Buckets(w))
              /\ restarts = 0 => total = Real(w).total + Cardinality(goesOn)

\* data_locator: a sample is within its budget, spans the window's images
\* from the first to the last, and leaves out no image that is nearer to a
\* point of the grid than those it has.
SamplesSpan ==
    \A w \in Windows, max \in Samples :
        LET q == Images(w)
            S == Sample(q, max)
            span == Last(q).at - q[1].at
        IN  /\ Cardinality(S) <= max
            /\ (q # <<>> /\ max > 1) =>
                  /\ \E i \in S : q[i].at = q[1].at
                  /\ \E i \in S : q[i].at = Last(q).at
                  /\ \A g \in 0..(max - 1), i \in DOMAIN q : \E j \in S :
                        Distance(q[j].at * (max - 1), q[1].at * (max - 1) + span * g)
                           <= Distance(q[i].at * (max - 1), q[1].at * (max - 1) + span * g)

\* data_locator: what the agent is told can be relied on.  "no_data" is said
\* of a source that is there and holds nothing of the window, a selection of
\* logs leaves lines out only when it says so and then the latest ones, no
\* image of the window is farther from the selected ones than half the gap
\* that is told, and no selection goes unrecorded.
LocatorTruthful ==
    \A there \in BOOLEAN, w \in Windows, max \in Samples :
        LET logs     == LocateLogs(there, w, max)
            images   == LocateImages(there, w, max)
            q        == Images(w)
            lines(i) == {l \in ToSet(files[i].lines) : In(l.at, w)}
            left     == UNION {lines(i) : i \in DOMAIN files \ logs.selected}
            kept     == UNION {lines(i) : i \in logs.selected}
        IN  ~Refused(w, max) =>
              /\ logs.status = "no_data" => there /\ left = {}
              /\ logs.status = "found" /\ left # {} =>
                    logs.truncated /\ \A l \in left, k \in kept : k.at <= l.at
              /\ images.status = "no_data" => there /\ q = <<>>
              /\ images.gap # Missing =>
                    \A i \in DOMAIN q : \E j \in images.selected :
                       2 * Distance(q[i].at, q[j].at) <= images.gap
              /\ \A t \in {logs, images} :
                    t.selected # {} => \E a \in Access(t) : t.selected \subseteq a.files

\* log_context: an output that leaves a match out says that it is truncated.
OmissionsShown ==
    \A q \in Contexts : LET r == Context(q) IN r.truncated \/ Anchors \subseteq r.lines

=============================================================================
