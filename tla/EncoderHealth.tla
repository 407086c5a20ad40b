---------------------------- MODULE EncoderHealth ----------------------------
(***************************************************************************)
(* The encoder skill, src/skills/encoder-health/scripts/encoder_health.py: *)
(* what it counts, and reports, of one window of the controller's log.     *)
(*                                                                         *)
(* The log grows a movement at a time (Record), so that every short        *)
(* history of runs, stops, reversals, gaps, resets and unreadable samples  *)
(* is some reachable log, and the script is the pure function of the log   *)
(* that the operators below write out.  A sample is                        *)
(*    [t, n, f, bad, v]                                                    *)
(* its time in ticks of 100 ms, its count, the filtered count beside it    *)
(* (raw stream), whether the count is unreadable, and the reported speed.  *)
(* Quotients are kept exact by scaling: a rate is in counts a second, a    *)
(* median carries a factor 2 and a median of deviations a factor 4.        *)
(***************************************************************************)
EXTENDS Integers, Sequences, FiniteSets, SequencesExt

CONSTANTS
    Streams,        \* the kinds of line a log holds: "application", "raw"
    Movements,      \* movement |-> the steps [dt, d, bad, v] it is made of
    MaxMovements,   \* bound: movements in a log
    TopEvents,      \* --top-events, 1..50
    TopEpisodes     \* processes a motion report shows: 3 in the code

TopEventsAssumption == TopEvents \in 1..50 /\ TopEpisodes \in 1..3

\* A step lasts dt ticks and moves the count by d, or to `to' unless that is -1.
MovementsAssumption ==
    \A m \in DOMAIN Movements :
        Movements[m] \in Seq([dt : Nat, d : Int, v : Nat, bad : BOOLEAN, to : Int])

VARIABLES
    stream,         \* which lines the controller writes
    log,            \* the samples of the window, in file order
    made            \* how many movements the log holds

vars == <<stream, log, made>>

-----------------------------------------------------------------------------
(* Arithmetic of the script: medians, deviations, rates.                   *)

Abs(x) == IF x < 0 THEN -x ELSE x
Larger(a, b) == IF a > b THEN a ELSE b
SumOver(S, Op(_)) == MapThenSumSet(Op, S)
Indices(q) == [i \in 1..Len(q) |-> i]
Sorted(S, Before(_, _)) ==
    SortSeq(FoldSet(LAMBDA x, q : Append(q, x), <<>>, S), Before)
Values(Op(_), q) == [i \in 1..Len(q) |-> Op(q[i])]

\* The members of S up to n, in order.
Places(n, S) ==
    LET upto[k \in 0..n] == IF k = 0 THEN <<>>
                            ELSE IF k \in S THEN Append(upto[k - 1], k) ELSE upto[k - 1]
    IN  upto[n]

\* Twice the median of q, which is not empty.
Median2(q) ==
    LET s == SortSeq(q, <)  n == Len(q)
    IN  s[(n + 1) \div 2] + s[n \div 2 + 1]

\* Four times the median distance from the median, whose double is m2.
Deviation4(q, m2) == Median2([i \in 1..Len(q) |-> Abs(2 * q[i] - m2)])

\* Counts a second.
Rate(p) == (p.d * 10) \div p.dt

\* The maximal runs of S in which Joined(i) says that i continues i - 1.
Runs(S, Joined(_)) ==
    LET starts == {i \in S : i - 1 \notin S \/ ~Joined(i)}
        end(i) == Max({j \in S : /\ j >= i
                                    /\ \A k \in (i + 1)..j :
                                           k \in S /\ k \notin starts})
    IN  {<<i, end(i)>> : i \in starts}

-----------------------------------------------------------------------------
(* Continuity: which neighbouring samples may be subtracted.               *)

\* A large count that comes back to almost nothing is a restart.
IsBoundary(a, b) ==
    a.n > b.n /\ (b.n = 0 \/ (b.n \in 1..1000 /\ a.n - b.n >= 10000))

\* The samples after i + 1 that the follow-up of a boundary may look at:
\* readable, no gap above 500 ms, no more than 2 s in all.
Observed(s, i) ==
    LET ok(k) == /\ ~s[k].bad
                 /\ s[k].t - s[k - 1].t \in 1..5
                 /\ s[k].t - s[i + 1].t <= 20
    IN  {k \in (i + 2)..Len(s) : \A j \in (i + 2)..k : ok(j)}

\* The count jumps straight back towards where it was: no restart.
Returns(s, i) ==
    LET seen  == Observed(s, i)
        drop  == s[i].n - s[i + 1].n
        step(k) == [d |-> s[k].n - s[k - 1].n, dt |-> s[k].t - s[k - 1].t]
        later == [k \in 1..(Cardinality(seen) - 1) |-> Abs(Rate(step(i + 2 + k)))]
        usual2 == IF Len(later) = 0 THEN 2 ELSE Larger(2, Median2(later))
    IN  /\ seen # {}
        /\ 5 * s[i + 2].n >= 5 * s[i].n - drop
        /\ Rate(step(i + 2)) > 4 * usual2

\* counter_followup: how the count goes on after a boundary.
Pattern(s, i) ==
    IF Returns(s, i) THEN "return_toward_previous_level"
    ELSE IF /\ Cardinality(Observed(s, i)) >= 2
            /\ \A k \in Observed(s, i) : s[k].n >= s[k - 1].n
         THEN "restart_or_stop_compatible"
         ELSE "unresolved"

Readable(s, i) == ~s[i].bad /\ ~s[i + 1].bad

Boundaries(s) ==
    {[at |-> i, pattern |-> Pattern(s, i)] :
        i \in {j \in 1..(Len(s) - 1) :
                 Readable(s, j) /\ IsBoundary(s[j], s[j + 1]) /\ s[j + 1].t > s[j].t}}

\* build_pairs: the differences of neighbouring samples, seq the first's place.
Pairs(s) ==
    LET kept(i) == /\ Readable(s, i)
                   /\ IsBoundary(s[i], s[i + 1]) => Returns(s, i)
                   /\ s[i + 1].t > s[i].t
        places  == Places(Len(s), {i \in 1..(Len(s) - 1) : kept(i)})
    IN  Values(LAMBDA i : [seq |-> i, t |-> s[i].t, dt |-> s[i + 1].t - s[i].t,
                           n |-> s[i].n, d |-> s[i + 1].n - s[i].n,
                           v |-> s[i + 1].v], places)

\* Twice the gap threshold: five times the median interval, at least 500 ms.
Gap2(s) ==
    LET times == SelectSeq([i \in 1..Larger(0, Len(s) - 1) |-> s[i + 1].t - s[i].t],
                           LAMBDA dt : dt > 0)
    IN  IF Len(times) = 0 THEN 10 ELSE Larger(10, 5 * Median2(times))

Within(p, gap2) == 2 * p.dt <= gap2

-----------------------------------------------------------------------------
(* Thresholds taken from the data around a pair, in 1/32 of a count.       *)

\* The positive steps near pair i, stretched to its interval (1/2 count).
Nearby(pairs, i, gap2) ==
    LET near(j) == /\ j # i /\ Abs(i - j) <= 20
                   /\ Within(pairs[j], gap2) /\ pairs[j].d > 0
    IN  Values(LAMBDA j : (2 * pairs[j].d * pairs[i].dt) \div pairs[j].dt,
               SelectSeq(Indices(pairs), near))

ThresholdsOf(near) ==
    LET center2 == IF Len(near) = 0 THEN 0 ELSE Median2(near)         \* 1/4
        spread  == IF Len(near) = 0 THEN 0 ELSE Deviation4(near, center2)  \* 1/8
        robust  == Larger(spread, 8)
    IN  IF Len(near) = 0
        THEN [reverse |-> 160, spike |-> 640, quiet |-> 160]
        ELSE [reverse |-> Larger(160, Larger(2 * center2, 24 * robust)),
              spike   |-> Larger(640, Larger(24 * center2, 8 * center2 + 32 * robust)),
              quiet   |-> Larger(160, Larger(center2, 20 * spread))]      \* 1/80

Thresholds(pairs, i, gap2) == ThresholdsOf(Nearby(pairs, i, gap2))

-----------------------------------------------------------------------------
(* detect_count_events.                                                    *)

\* Mutant of Follows: neighbours in the list count as neighbours in the log.
FollowsInList(pairs, j) == j > 1

\* Pair j follows pair j - 1 with no sample left out between them.
Follows(pairs, j) == pairs[j].seq = pairs[j - 1].seq + 1

\* The maximal groups of neighbouring decreases.
NegativeGroups(pairs, gap2) ==
    Runs({i \in 1..Len(pairs) : Within(pairs[i], gap2) /\ pairs[i].d < 0},
         LAMBDA i : Follows(pairs, i))

Drop(pairs, g) == -SumOver(g[1]..g[2], LAMBDA k : pairs[k].d)

\* The pairs after a group within its recovery time, up to a further decrease.
Recovering(pairs, g, gap2) ==
    LET elapsed(j) == SumOver((g[2] + 1)..j, LAMBDA k : pairs[k].dt)
        ok(j) == Follows(pairs, j) /\ Within(pairs[j], gap2)
                 /\ pairs[j].d >= 0 /\ elapsed(j) <= 10
    IN  {j \in (g[2] + 1)..Len(pairs) : \A k \in (g[2] + 1)..j : ok(k)}

\* Those whose increases make up 80% of the drop; {} when they never do.
Recovery(pairs, g, gap2) ==
    LET gain(j)  == SumOver((g[2] + 1)..j, LAMBDA k : pairs[k].d)
        enough   == {j \in Recovering(pairs, g, gap2) :
                       5 * gain(j) >= 4 * Drop(pairs, g)}
    IN  IF enough = {} THEN {}
        ELSE {j \in (g[2] + 1)..Min(enough) : pairs[j].d > 0}

Significant(pairs, gap2) ==
    {g \in NegativeGroups(pairs, gap2) :
        32 * Drop(pairs, g) >= Thresholds(pairs, g[1], gap2).reverse}

\* motion_context: the pairs beside an event, in one direction, up to 2 s.
Beside(pairs, from, dir, gap2) ==
    LET on(k) == from + dir * k
        ok(k) == /\ on(k) \in 1..Len(pairs) /\ Within(pairs[on(k)], gap2)
                 /\ Abs(pairs[on(k)].seq - pairs[on(k) - dir].seq) = 1
                 /\ SumOver(1..k, LAMBDA j : pairs[on(j)].dt) <= 20
    IN  {on(k) : k \in {j \in 1..Len(pairs) : \A i \in 1..j : ok(i)}}

ReverseEvents(s, pairs, gap2) ==
    {LET back == Recovery(pairs, g, gap2) IN
     [type |-> IF g[1] = g[2] /\ back # {} THEN "reverse_glitch_candidate"
               ELSE IF g[1] < g[2] THEN "reverse_interval_candidate"
               ELSE "reverse_step_candidate",
      at |-> pairs[g[1]].seq, end |-> pairs[g[2]].seq + 1,
      drop |-> Drop(pairs, g), delta |-> 0, dt |-> 0, recovery |-> back,
      limit |-> Thresholds(pairs, g[1], gap2).reverse,
      context |-> Beside(pairs, g[1], -1, gap2) \cup Beside(pairs, g[2], 1, gap2)] :
        g \in Significant(pairs, gap2)}

Recovered(pairs, gap2) ==
    UNION {Recovery(pairs, g, gap2) : g \in Significant(pairs, gap2)}

SpikeEvents(pairs, gap2) ==
    {[type |-> "positive_spike_candidate",
      at |-> pairs[i].seq, end |-> pairs[i].seq + 1,
      drop |-> 0, delta |-> pairs[i].d, dt |-> pairs[i].dt, recovery |-> {},
      limit |-> Thresholds(pairs, i, gap2).spike,
      context |-> Beside(pairs, i, -1, gap2) \cup Beside(pairs, i, 1, gap2)] :
        i \in {j \in 1..Len(pairs) :
                 /\ Within(pairs[j], gap2) /\ pairs[j].d > 0
                 /\ j \notin Recovered(pairs, gap2)
                 /\ 32 * pairs[j].d > Thresholds(pairs, j, gap2).spike}}

GapEvents(s, gap2) ==
    {[type |-> "sampling_gap", at |-> i, end |-> i + 1, drop |-> 0, delta |-> 0,
      dt |-> s[i + 1].t - s[i].t, recovery |-> {}, limit |-> gap2, context |-> {}] :
        i \in {j \in 1..(Len(s) - 1) : 2 * (s[j + 1].t - s[j].t) > gap2}}

\* The loop over the pairs that remembers where the current flat interval
\* began (0: nowhere): a movement, a gap or a sample left out closes it.
FlatEvents(s, pairs, gap2) ==
    LET event(a, b) == [type |-> "flat_count_candidate",
                        at |-> pairs[a].seq, end |-> pairs[b].seq + 1,
                        ms |-> s[pairs[b].seq + 1].t - s[pairs[a].seq].t]
        closed(acc, b) == IF event(acc.start, b).ms >= 10
                          THEN acc.out \cup {event(acc.start, b)} ELSE acc.out
        still(i) == Within(pairs[i], gap2) /\ pairs[i].d = 0
        step(acc, i) ==
            LET ends  == acc.start # 0 /\ ~(Follows(pairs, i) /\ still(i))
                start == IF ends THEN 0 ELSE acc.start
            IN  [out   |-> IF ends THEN closed(acc, i - 1) ELSE acc.out,
                 start |-> IF still(i) /\ start = 0 THEN i ELSE start]
        upto[i \in 0..Len(pairs)] == IF i = 0 THEN [start |-> 0, out |-> {}]
                                     ELSE step(upto[i - 1], i)
        last == upto[Len(pairs)]
    IN  IF last.start # 0 THEN closed(last, Len(pairs)) ELSE last.out

\* A reported standstill between two samples that both moved on.
FalseZeros(s, gap2) ==
    LET up == SelectSeq(Pairs(s), LAMBDA p : Within(p, gap2) /\ p.d > 0)
        usual2 == IF Len(up) = 0 THEN 0 ELSE Median2(Values(LAMBDA p : p.d, up))
        rises(i) == 4 * (s[i + 1].n - s[i].n) > usual2
    IN  {[type |-> "zero_speed_with_rising_count_candidate", at |-> i, end |-> i,
          drop |-> 0, delta |-> 0, dt |-> 0, recovery |-> {}, limit |-> 1,
          context |-> {}] :
            i \in {j \in 2..(Len(s) - 1) :
                     /\ s[j].v = 0 /\ rises(j - 1) /\ rises(j)
                     /\ s[j - 1].v > 20 /\ s[j + 1].v > 20}}

-----------------------------------------------------------------------------
(* main: the report of one window.                                         *)

\* load_samples: the lines of one kind in order of time, ties in file order.
Loaded(q, kind) ==
    LET placed(p, r) == InsertAt(p, Cardinality({i \in 1..Len(p) : p[i].t <= r.t}) + 1, r)
        upto[k \in 0..Len(q)] == IF k = 0 THEN <<>>
                                 ELSE IF q[k].line = kind THEN placed(upto[k - 1], q[k])
                                 ELSE upto[k - 1]
    IN  upto[Len(q)]

Application(q) == Loaded(q, "application")
RawFiltered(q) == Loaded(q, "raw")

\* The application's samples if there are two of them, else the raw ones,
\* unreadable ones left in their place.
Primary(q) == IF Len(Application(q)) >= 2 THEN Application(q) ELSE RawFiltered(q)
Valid(q) == {i \in 1..Len(q) : ~q[i].bad}

CandidatesOf(app, s, pairs, gap2) ==
    (IF Cardinality(Valid(s)) < 2 THEN {}
     ELSE GapEvents(s, gap2) \cup ReverseEvents(s, pairs, gap2) \cup SpikeEvents(pairs, gap2))
    \cup
    (IF Len(app) < 3 THEN {}
     ELSE FalseZeros(app, IF Cardinality(Valid(s)) < 2 THEN 10 ELSE gap2))

Candidates(q) == CandidatesOf(Application(q), Primary(q), Pairs(Primary(q)), Gap2(Primary(q)))

OfType(events, types) == Cardinality({e \in events : e.type \in types})

\* An event's weight: how far it is beyond its own limit, as a fraction.
Severity(e) ==
    CASE e.type = "sampling_gap" -> <<2 * e.dt, e.limit>>
      [] e.type = "positive_spike_candidate" -> <<32 * e.delta, e.limit>>
      [] e.type = "zero_speed_with_rising_count_candidate" -> <<0, 1>>
      [] OTHER -> <<32 * e.drop, e.limit>>

Heavier(a, b) ==
    LET x == Severity(a)  y == Severity(b)  IN x[1] * y[2] > y[1] * x[2]

\* The order of the list detect_count_events builds, one kind after another.
Kind(e) == CASE e.type = "sampling_gap" -> 1
             [] e.type = "positive_spike_candidate" -> 3
             [] e.type = "zero_speed_with_rising_count_candidate" -> 4
             [] OTHER -> 2
Earlier(a, b) == Kind(a) < Kind(b) \/ (Kind(a) = Kind(b) /\ a.at < b.at)

\* Mutant of Selected: by weight alone.
SelectedByWeight(events) ==
    SubSeq(Sorted(events, LAMBDA a, b : Heavier(a, b) \/ (~Heavier(b, a) /\ Earlier(a, b))),
           1, Min({TopEvents, Cardinality(events)}))

\* select_events: the first event of the largest drop, step and interval,
\* then the rest by weight; TopEvents of them in all.
Selected(events) ==
    LET first(S)    == CHOOSE e \in S : \A f \in S : f = e \/ Earlier(e, f)
        most(Of(_)) == {e \in events : /\ Of(e) > 0
                                       /\ \A f \in events : Of(f) <= Of(e)}
        top(acc, S) == IF S = {} \/ (\E k \in DOMAIN acc : acc[k] = first(S))
                       THEN acc ELSE Append(acc, first(S))
        extremes == top(top(top(<<>>, most(LAMBDA e : e.drop)),
                            most(LAMBDA e : e.delta)), most(LAMBDA e : e.dt))
        others == Sorted(events \ ToSet(extremes),
                      LAMBDA a, b : Heavier(a, b) \/ (~Heavier(b, a) /\ Earlier(a, b)))
        all == extremes \o others
    IN  SubSeq(all, 1, IF Len(all) < TopEvents THEN Len(all) ELSE TopEvents)

Facts(events, s) ==
    [samples     |-> Cardinality(Valid(s)),
     invalid     |-> Len(s) - Cardinality(Valid(s)),
     gaps        |-> OfType(events, {"sampling_gap"}),
     glitches    |-> OfType(events, {"reverse_glitch_candidate"}),
     intervals   |-> OfType(events, {"reverse_interval_candidate"}),
     steps       |-> OfType(events, {"reverse_step_candidate"}),
     reverse     |-> Cardinality(Significant(Pairs(s), Gap2(s))),
     boundaries  |-> Cardinality(Boundaries(s)),
     candidate_event_count |-> Cardinality(events)]

ReportOf(events, s) ==
    [facts |-> Facts(events, s), top |-> Selected(events),
     flat |-> FlatEvents(s, Pairs(s), Gap2(s)),
     exit |-> IF Cardinality(Valid(s)) = 0 THEN 1 ELSE 0]

Report(q) == ReportOf(Candidates(q), Primary(q))

-----------------------------------------------------------------------------
(* _humanize_business_facts: what the product answer says of the report.   *)

ToldTypes == {"reverse_glitch_candidate", "reverse_interval_candidate",
              "reverse_step_candidate", "positive_spike_candidate", "sampling_gap"}

\* The number of events, if the facts have the field it is read from.
ToldCount(facts) ==
    IF "anomaly_event_count" \in DOMAIN facts THEN {facts["anomaly_event_count"]} ELSE {}

Told(report) ==
    LET named == SelectSeq(report.top, LAMBDA e : e.type \in ToldTypes)
    IN  [samples |-> report.facts.samples, count |-> ToldCount(report.facts),
         events  |-> SubSeq(named, 1, Min({3, Len(named)}))]

-----------------------------------------------------------------------------
(* motion_episodes: the movements of the window, with what surrounds them. *)
(* B is a block: pairs with no gap and no sample left out between them.    *)

Blocks(pairs, gap2) ==
    {SubSeq(pairs, r[1], r[2]) :
        r \in Runs({i \in 1..Len(pairs) : Within(pairs[i], gap2)},
                   LAMBDA i : Follows(pairs, i))}

Rates(B, S) == Values(LAMBDA i : Rate(B[i]), Sorted(S, <))
EndTime(p) == p.t + p.dt

\* The trend around pair i and its successor, and how far i is off it (1/20).
Around(B, i) == Rates(B, {i - 2, i - 1, i + 2, i + 3})
OffTrend20(B, i) == Abs(20 * B[i].d - Median2(Around(B, i)) * B[i].dt)

\* An isolated point off a trend that is the same on both sides of it.
Jumps(B) ==
    LET around(i)   == Around(B, i)
        base2(i)    == Median2(around(i))
        scale20(i)  == Larger(20, Larger(Abs(base2(i)), 30 * Deviation4(around(i), base2(i))))
        apart(i)    == Abs(Median2(Rates(B, {i - 2, i - 1})) - Median2(Rates(B, {i + 2, i + 3})))
        far(i)      == Abs(20 * Rate(B[i]) - 10 * base2(i))
        bridge(i)   == Abs(200 * (B[i].d + B[i + 1].d) - 10 * base2(i) * (B[i].dt + B[i + 1].dt))
    IN  {i \in 3..(Len(B) - 3) :
            /\ B[i].d * B[i + 1].d < 0
            /\ 10 * apart(i) <= scale20(i)
            /\ bridge(i) <= scale20(i) * (B[i].dt + B[i + 1].dt)
            /\ OffTrend20(B, i) > 40
            /\ far(i) > 8 * scale20(i)
            /\ Abs(20 * Rate(B[i + 1]) - 10 * base2(i)) > 8 * scale20(i)}

\* A lasting change of rate: the second after i is unlike the second before.
Transitions(B) ==
    LET before(i) == {k \in 1..(i - 1) : B[k].t >= B[i].t - 10}
        after(i)  == {k \in i..Len(B) : B[k].t < B[i].t + 10}
        mid2(i)   == Median2(Rates(B, before(i)))
        scale20(i) == Larger(20, Larger(Abs(mid2(i)),
                             30 * Deviation4(Rates(B, before(i)), mid2(i))))
    IN  {i \in 2..(Len(B) - 1) :
            /\ 2 * Abs(Rate(B[i]) - Rate(B[i - 1])) > Larger(2, Abs(Rate(B[i - 1])))
            /\ Cardinality(before(i)) >= 3 /\ Cardinality(after(i)) >= 3
            /\ 10 * Abs(Median2(Rates(B, after(i))) - mid2(i)) > 8 * scale20(i)}

\* The decreases of the groups that reach the local threshold.
MaterialReverse(B, gap2) ==
    UNION {g[1]..g[2] :
        g \in {r \in Runs({i \in 1..Len(B) : B[i].d < 0}, LAMBDA i : TRUE) :
                 32 * Drop(B, r) >= Thresholds(B, r[1], gap2).reverse}}

\* Seeds less than 2 s after one another make one process.
SeedGroups(B, seeds) ==
    LET prior(i) == {k \in seeds : k < i}
        starts == {i \in seeds : prior(i) = {} \/ B[i].t - EndTime(B[Max(prior(i))]) >= 20}
    IN  {{k \in seeds : k >= i /\ \A j \in starts : j <= i \/ k < j} : i \in starts}

\* The decreases between increases or standstills, in order.
Lobes(B, from, to) ==
    LET runs == Runs({i \in from..to : B[i].d < 0}, LAMBDA i : TRUE)
    IN  Values(LAMBDA r : Drop(B, r), Sorted(runs, LAMBDA x, y : x[1] < y[1]))

\* From the largest lobe on they fade, and nothing larger than noise precedes.
Fading(lobes) ==
    IF Len(lobes) = 0 THEN FALSE
    ELSE LET largest == Max(ToSet(lobes))
             at      == Min({i \in 1..Len(lobes) : lobes[i] = largest})
             noise(i) == 20 * lobes[i] <= Larger(40, largest)
             quiet   == {i \in at..Len(lobes) : noise(i)}
             to      == IF quiet = {} THEN Len(lobes) ELSE Min(quiet)
         IN  /\ to > at /\ lobes[at] > lobes[to]
             /\ \A i \in 1..(at - 1) : noise(i)
             /\ \A i \in (at + 1)..to : lobes[i - 1] >= lobes[i]

\* What a stretch of the block looks like.
Motion(B, S) ==
    IF S = {} THEN "unobserved"
    ELSE IF \A i \in S : B[i].d = 0 THEN "stationary"
    ELSE IF \A i \in S : B[i].d <= 0 THEN "reverse"
    ELSE IF \E i \in S : B[i].d < 0 THEN "mixed"
    ELSE "forward"

\* Pair i moves: its count does, or the speed reported with it (of the speeds
\* 0 and 30 mm/s only the second is above 5% of their 95th percentile).
Moves(B, i, gap2) ==
    80 * Abs(B[i].d) >= Thresholds(B, i, gap2).quiet \/ B[i].v # 0

Sign(p) == IF p.d > 0 THEN 1 ELSE -1

\* Where lasting motion resumes: three of the next five pairs move, one way.
Resumes(B, j, moving) ==
    LET ahead == SelectSeq([k \in 1..5 |-> j + k - 1], LAMBDA k : k \in moving)
    IN  Len(ahead) >= 3 /\ \A k \in 1..3 : Sign(B[ahead[k]]) = Sign(B[ahead[1]])

\* The standstill after `last`: from the first full second without motion up
\* to where lasting motion resumes.
CalmFrom(last, i, moving) == Max({last + 1} \cup {k + 1 : k \in moving \cap (last + 1)..i})

Calm(B, last, moving) ==
    {i \in ((last + 1)..Len(B)) \ moving :
        SumOver(CalmFrom(last, i, moving)..i, LAMBDA k : B[k].dt) >= 10}

Standstill(B, last, moving) ==
    LET rest(i) == {j \in (i + 1)..Len(B) : Resumes(B, j, moving)}
        to(i)   == Min({Len(B)} \cup {j - 1 : j \in rest(i)})
    IN  UNION {CalmFrom(last, i, moving)..to(i) :
                 i \in {k \in Calm(B, last, moving) : \A j \in Calm(B, last, moving) : k <= j}}

\* A quotient rounded to three decimals.
Thousandths(a, b) == (2000 * a + b) \div (2 * b)

Episode(B, first, last, jump20, reverse, moving, gap2) ==
    LET lo    == Min({k \in 1..first : B[first].t - B[k].t <= 20})
        hi    == Max({k \in last..Len(B) : EndTime(B[k]) - EndTime(B[last]) <= 20})
        \* peak to trough, as the loop finds it: the highest count so far
        fall  == FoldLeft(LAMBDA acc, k :
                            LET after == B[k].n + B[k].d  peak == Larger(acc.peak, after)
                            IN  [peak |-> peak, fall |-> Larger(acc.fall, peak - after)],
                          [peak |-> B[first].n, fall |-> 0],
                          [k \in 1..(last - first + 1) |-> first + k - 1]).fall
        signs == Values(LAMBDA k : Sign(B[k]),
                    Sorted({k \in first..hi :
                        32 * Abs(B[k].d) >= Thresholds(B, k, gap2).reverse}, <))
        turns == Cardinality({k \in 2..Len(signs) : signs[k] # signs[k - 1]})
        tail  == IF reverse THEN SumOver(Standstill(B, last, moving), LAMBDA k : B[k].dt) ELSE 0
        before == Motion(B, lo..(first - 1))
        rebound == /\ reverse /\ tail >= 20 /\ Fading(Lobes(B, first, hi))
                   /\ before \notin {"reverse", "unobserved"}
        ahead == Rates(B, {k \in 1..Len(B) : B[k].d > 0})
        fastest == Max({0} \cup {-Rate(B[k]) : k \in {j \in first..last : B[j].d < 0}})
        slow  == Len(ahead) > 0 /\ 4 * fastest <= Median2(ahead)
    IN  [first |-> B[first].seq, last |-> B[last].seq + 1,
         from |-> B[lo].seq, to |-> B[hi].seq + 1,
         drawdown |-> fall, turns |-> turns, tail |-> tail, jump20 |-> jump20,
         pace2 |-> IF lo = first THEN 0 ELSE Median2(Rates(B, lo..(first - 1))),
         ratio |-> IF Len(ahead) = 0 THEN 0 ELSE Thousandths(2 * fastest, Median2(ahead)),
         before |-> before, after |-> Motion(B, (last + 1)..hi),
         pattern |-> IF jump20 > 0 THEN "off_trend_return"
                     ELSE IF ~reverse THEN "forward_or_stop_transition"
                     ELSE IF \A k \in first..last : B[k].d <= 0 THEN "reverse_motion"
                     ELSE "mixed_direction_motion",
         rebound |-> rebound,
         settled |-> /\ reverse /\ tail >= 20 /\ jump20 = 0 /\ turns <= 1
                     /\ SumOver({k \in first..last : B[k].d < 0}, LAMBDA k : B[k].dt) <= 20
                     /\ rebound \/ slow]

EpisodesOf(B, jumps, material, gap2) ==
    {Episode(B, Min(g), IF Max(g) \in jumps THEN Max(g) + 1 ELSE Max(g),
             Max({0} \cup {OffTrend20(B, i) : i \in g \cap jumps}), g \cap material # {},
             {i \in 1..Len(B) : Moves(B, i, gap2)}, gap2) :
        g \in SeedGroups(B, material \cup jumps \cup Transitions(B))}

EpisodesIn(pairs, gap2) ==
    UNION {EpisodesOf(B, Jumps(B), MaterialReverse(B, gap2), gap2) : B \in Blocks(pairs, gap2)}

Episodes(s) == EpisodesIn(Pairs(s), Gap2(s))

\* episode_view: the ends of a series, and the least and the greatest count
\* of each of its equal bins.
Trace(s, from, to, maximum) ==
    LET len == to - from + 1
        bins == (maximum - 2) \div 2
        bin(i) == (from + (i * len) \div bins)..(from + ((i + 1) * len) \div bins - 1)
        least(S)    == CHOOSE k \in S : \A j \in S : s[k].n < s[j].n \/ (s[k].n = s[j].n /\ k <= j)
        greatest(S) == CHOOSE k \in S : \A j \in S : s[k].n > s[j].n \/ (s[k].n = s[j].n /\ k <= j)
    IN  IF len <= maximum THEN from..to
        ELSE {from, to} \cup UNION {{least(bin(i)), greatest(bin(i))} : i \in 0..(bins - 1)}

-----------------------------------------------------------------------------
(* The motion report: which processes of the window it shows.              *)

\* The other processes of one kind, that began at a comparable rate.
Peers(episodes, e) ==
    LET like(f) == /\ f.pattern = e.pattern /\ f.before = e.before /\ f.after = e.after
                   /\ (f.jump20 > 0) = (e.jump20 > 0)
        paces(f) == {Abs(f.pace2), Abs(e.pace2)}
    IN  {f \in episodes \ {e} : like(f) /\ Max(paces(f)) <= 2 * Min(paces(f))}

\* How far a jump is off the jumps of its peers, of which there must be five;
\* a spread is 1.4826 times the median deviation and at least one count.
Deviation(episodes, e) ==
    LET jumps == Values(LAMBDA f : f.jump20, SetToSeq(Peers(episodes, e)))
        center2 == Median2(jumps)
    IN  IF e.jump20 = 0 \/ Len(jumps) < 5 THEN 0
        ELSE Thousandths(20000 * Abs(2 * e.jump20 - center2),
                         Larger(800000, 14826 * Deviation4(jumps, center2)))

\* A decrease that no stop of the machine explains.
UnresolvedReverse(e) ==
    ~e.settled /\ e.pattern \in {"reverse_motion", "mixed_direction_motion"}

Truth(b) == IF b THEN 1 ELSE 0
Priority(episodes, e) ==
    <<Truth(e.jump20 > 0), Truth(UnresolvedReverse(e)), Deviation(episodes, e),
      e.ratio, e.turns, e.drawdown>>

\* The order of tuples.
Above(p, q) == \E k \in DOMAIN p : p[k] > q[k] /\ \A j \in 1..(k - 1) : p[j] = q[j]

\* Equals stay in the order of the log.
Ranked(episodes) ==
    Sorted(episodes,
           LAMBDA e, f : LET p == Priority(episodes, e)  q == Priority(episodes, f)
                         IN  Above(p, q) \/ (~Above(q, p) /\ e.first < f.first))

MotionPatterns == {"off_trend_return", "reverse_motion", "mixed_direction_motion",
                   "forward_or_stop_transition"}
First(q, n) == SubSeq(q, 1, Min({n, Len(q)}))

MotionReport(s, episodes) ==
    LET boundaries == Sorted(Boundaries(s), LAMBDA b, c : b.at < c.at)
        count(Test(_)) == Cardinality({e \in episodes : Test(e)})
        view(e) == e @@ [trace |-> Trace(s, e.from, e.to, 8)]
    IN  [count      |-> Cardinality(episodes),
         patterns   |-> [p \in MotionPatterns |-> count(LAMBDA e : e.pattern = p)],
         rebounds   |-> count(LAMBDA e : e.rebound),
         settled    |-> count(LAMBDA e : e.settled),
         turns      |-> Max({0} \cup {e.turns : e \in episodes}),
         boundaries |-> First(boundaries, 8),
         boundaries_omitted |-> Larger(0, Len(boundaries) - 8),
         episodes   |-> Values(view, First(Ranked(episodes), TopEpisodes)),
         omitted    |-> Larger(0, Cardinality(episodes) - TopEpisodes)]

-----------------------------------------------------------------------------
(* The log grows.                                                          *)

Init ==
    /\ stream \in Streams
    /\ log = <<>>
    /\ made = 0

\* One step of a movement on top of the log.
Written(q, step) ==
    LET last == IF Len(q) = 0 THEN [t |-> 0, n |-> 12000] ELSE q[Len(q)]
        n    == IF step.to >= 0 THEN step.to ELSE last.n + step.d
    IN  Append(q, [line |-> stream, t |-> last.t + step.dt, n |-> n,
                   bad |-> step.bad /\ stream = "raw",
                   v |-> IF stream = "raw" THEN 0 ELSE step.v])

Record(m) ==
    /\ made < MaxMovements
    /\ LET upto[k \in 0..Len(Movements[m])] ==
              IF k = 0 THEN log ELSE Written(upto[k - 1], Movements[m][k])
       IN  log' = upto[Len(Movements[m])]
    /\ made' = made + 1
    /\ UNCHANGED stream

Next == \E m \in DOMAIN Movements : Record(m)

Spec == Init /\ [][Next]_vars

-----------------------------------------------------------------------------
(* What the report must be true to.                                        *)

Shown == Report(log)
Groups == NegativeGroups(Pairs(Primary(log)), Gap2(Primary(log)))
Reverses == ReverseEvents(Primary(log), Pairs(Primary(log)), Gap2(Primary(log)))
Spikes == SpikeEvents(Pairs(Primary(log)), Gap2(Primary(log)))

\* No event is read across a sample that is missing: every difference that an
\* event, its recovery or its context rests on joins two readable samples that
\* stand next to each other, and none is the jump of a counter reset.
ReadAcrossNothing(events, flat, s, pairs) ==
    LET sound(i) == Readable(s, i) /\ s[i + 1].t > s[i].t
                    /\ (IsBoundary(s[i], s[i + 1]) => Pattern(s, i) = "return_toward_previous_level")
        places(K) == {pairs[k].seq : k \in K}
    IN  /\ \A e \in events : \A i \in (e.at..(e.end - 1)) \cup places(e.recovery \cup e.context) : sound(i)
        /\ \A e \in flat : \A i \in e.at..(e.end - 1) : sound(i)

NothingAcrossABarrier ==
    ReadAcrossNothing(Reverses \cup Spikes, Shown.flat, Primary(log), Pairs(Primary(log)))

\* Every decrease is in one group, a significant group is exactly one event,
\* no increase serves as the recovery of two, and none that did is a spike.
DecreasesCounted(facts, reverses, spikes, groups, s, pairs, gap2) ==
    LET seq(K) == {pairs[k].seq : k \in K} IN
    /\ facts.glitches + facts.intervals + facts.steps = facts.reverse
    /\ Cardinality(reverses) = facts.reverse
    /\ \A a, b \in reverses : a = b \/ (a.recovery \cap b.recovery = {}
                                          /\ (a.end <= b.at \/ b.end <= a.at))
    /\ \A e \in spikes, r \in reverses : e.at \notin seq(r.recovery)
    /\ \A i \in seq(1..Len(pairs)) :
           s[i + 1].n < s[i].n /\ 2 * (s[i + 1].t - s[i].t) <= gap2
             => \E g \in groups : i \in seq(g[1]..g[2])

EachDecreaseOnce ==
    DecreasesCounted(Shown.facts, Reverses, Spikes, Groups,
                     Primary(log), Pairs(Primary(log)), Gap2(Primary(log)))

\* "Keep global extrema visible": the largest drop, the largest step up and
\* the longest gap are in the report whatever else crowds it, and the product
\* answer, which names three of its events, names them.
ExtremesAmong(events, top, told) ==
    LET largest(Of(_)) == Max({Of(e) : e \in events})
        among(S, Of(_)) == (events # {} /\ largest(Of) > 0) =>
                              \E e \in S : Of(e) = largest(Of)
        visible(Of(_)) == among(ToSet(top), Of) /\ among(ToSet(told.events), Of)
    IN  /\ ToSet(top) \subseteq events
        /\ Len(top) = Cardinality(ToSet(top))
        /\ TopEvents >= 3 => /\ visible(LAMBDA e : e.drop)
                             /\ visible(LAMBDA e : e.delta)
                             /\ visible(LAMBDA e : e.dt)

ExtremesShown == ExtremesAmong(Candidates(log), Shown.top, Told(Shown))

\* When there are events the answer says how many: "3 significant events found".
CountTold(n, told) == n > 0 => n \in told.count
EventsAreTold == CountTold(Shown.facts.candidate_event_count, Told(Shown))

\* The processes of the window are apart, and each describes its own samples:
\* its drawdown is the peak-to-trough fall of its core, one called settled has
\* no off-trend jump and turns at most once, and the reduced trace of its
\* samples keeps its ends, its peak and its trough.
TrueOf(s, episodes) ==
    LET n(k) == s[k].n
        extremes(S) == {Min({n(k) : k \in S}), Max({n(k) : k \in S})}
        kept(shown, e) == /\ {e.from, e.to} \subseteq shown /\ Cardinality(shown) <= 8
                          /\ extremes(shown) = extremes(e.from..e.to)
    IN  \A e \in episodes :
            /\ \A f \in episodes : e = f \/ e.last <= f.first \/ f.last <= e.first
            /\ \A k \in e.from..e.to : ~s[k].bad
            /\ e.drawdown = Max(UNION {{n(i) - n(j) : j \in i..e.last} : i \in e.first..e.last})
            /\ kept(Trace(s, e.from, e.to, 8), e)
            /\ e.settled => e.pattern # "off_trend_return" /\ e.turns <= 1

EpisodesTrue == TrueOf(Primary(log), Episodes(Primary(log)))

\* What the report does not show, it counts, and nothing telling is crowded
\* out: every process is shown or counted as omitted, once in its pattern; no
\* jump off the trend is omitted for a process without one, and no reversal
\* that nothing explains for one that a stop explains; and a process is
\* compared with those alone that are compared with it.
MotionOf(report, episodes) ==
    LET shown(e) == \E k \in DOMAIN report.episodes : report.episodes[k].first = e.first
        left == {e \in episodes : ~shown(e)}
    IN  /\ report.omitted = Cardinality(left)
        /\ Len(report.episodes) + report.omitted = report.count
        /\ MapThenSumSet(LAMBDA p : report.patterns[p], MotionPatterns) = report.count
        /\ report.settled <= report.patterns["reverse_motion"]
                              + report.patterns["mixed_direction_motion"]
        /\ \A e \in left, f \in episodes \ left :
              /\ e.jump20 > 0 => f.jump20 > 0
              /\ UnresolvedReverse(e) => f.jump20 > 0 \/ UnresolvedReverse(f)
        /\ \A e, f \in episodes : e \in Peers(episodes, f) => f \in Peers(episodes, e)

\* The motion report is true to the processes it is made from.
MotionReportTrue ==
    LET episodes == Episodes(Primary(log))
    IN  MotionOf(MotionReport(Primary(log), episodes), episodes)

=============================================================================
