-------------------------- MODULE Scheduler_proofs --------------------------
(***************************************************************************)
(* What holds of the scheduler for any number of schedules, any periods    *)
(* and any clock: the row and job types, that no occurrence is fired twice *)
(* or caught up after a restart, that a disabled schedule falls quiet, and *)
(* that no occurrence of an interval schedule is left out.                 *)
(***************************************************************************)
EXTENDS Scheduler, TLAPS

-----------------------------------------------------------------------------
(* Arithmetic of occurrences *)

\* The first point of the raster p, p + I, ... after t lies within I of t.
LEMMA RasterNext ==
  ASSUME NEW I \in Nat \ {0}, NEW p \in Nat, NEW t \in Nat, p <= t
  PROVE  LET q == p + I * ((t - p) \div I + 1) IN q \in Nat /\ t < q /\ q <= t + I
<1> DEFINE d == (t - p) \div I
<1> DEFINE m == (t - p) % I
<1>1. d \in Int /\ m \in 0 .. I - 1 /\ t - p = I * d + m
  BY SMT
<1>2. I * (d + 1) = I * d + I
  BY <1>1, SMT
<1>3. I * d \in Int
  BY <1>1, SMT
<1> HIDE DEF d, m
<1>4. p + I * (d + 1) = t - m + I
  BY <1>1, <1>2, <1>3, SMT
<1>. QED
  BY <1>1, <1>4, SMT DEF d

\* Counting by calendar days also ends after t, but up to two days after it.
LEMMA CalendarNext ==
  ASSUME NEW D \in Nat \ {0}, NEW p \in Nat, NEW t \in Nat, p <= t
  PROVE  LET q == p + D * ((t \div D) - (p \div D) + 1)
         IN  q \in Nat /\ t < q /\ q <= t + 2 * D
<1> DEFINE a == t \div D
<1> DEFINE b == p \div D
<1> DEFINE m == t % D
<1> DEFINE n == p % D
<1>1. a \in Nat /\ b \in Nat /\ m \in 0 .. D - 1 /\ n \in 0 .. D - 1
      /\ t = D * a + m /\ p = D * b + n
  BY SMT
<1>2. D * (a - b + 1) = D * a - D * b + D
  BY <1>1, SMT
<1>3. D * a \in Int /\ D * b \in Int
  BY <1>1, SMT
<1> HIDE DEF a, b, m, n
<1>4. p + D * (a - b + 1) = t - m + n + D
  BY <1>1, <1>2, <1>3, SMT
<1>. QED
  BY <1>1, <1>4, SMT DEF a, b

\* The time of day Hour next comes after b, within a day of it.
LEMMA TimeOfDayNext ==
  ASSUME NEW b \in Nat
  PROVE  NextDaily(b) \in Nat /\ b < NextDaily(b) /\ NextDaily(b) <= b + Day
<1>1. b % Day \in 0 .. Day - 1 /\ b % Day <= b
  BY TimeAssumption, SMT
<1>. QED
  BY <1>1, TimeAssumption, SMT DEF NextDaily

-----------------------------------------------------------------------------
(* Rows and jobs *)

LEMMA NoSuchRow == Absent \notin Row
  BY KindsAssumption, SMT DEF Absent, Row

LEMMA NoSuchJob == NoJob \notin Job
  BY SMT DEF NoJob, Job

LEMMA RowFields ==
  ASSUME NEW r \in Row
  PROVE  /\ r.kind \in {"interval", "daily", "once"} /\ r.enabled \in BOOLEAN
         /\ r.at \in Times /\ r.next \in Times \cup {Never}
         /\ r.enabled => r.next # Never
         /\ r # Absent
  BY KindsAssumption, NoSuchRow DEF Row

LEMMA TimesAreNat == Times \subseteq Nat /\ 0 .. MaxTime \subseteq Times /\ Never \notin Times
  BY TimeAssumption, SMT DEF Times, Never

LEMMA ExpiredRow ==
  ASSUME NEW r \in Row
  PROVE  Expired(r) \in Row /\ ~Expired(r).enabled /\ Expired(r).kind = r.kind
<1> DEFINE d == [r EXCEPT !.enabled = FALSE]
<1> DEFINE R == [kind : Kinds, enabled : BOOLEAN, at : Times, next : Times \cup {Never}]
<1>1. r \in R
  BY DEF Row
<1>2. d \in R /\ ~d.enabled /\ d.kind = r.kind
  <2>1. d.enabled = FALSE
    BY <1>1, Zenon
  <2>2. d.kind = r.kind
    BY <1>1, Zenon
  <2>3. d \in R
    BY <1>1, Zenon
  <2>. QED
    BY <2>1, <2>2, <2>3
<1> HIDE DEF d
<1>3. Moved(d, Never) \in R /\ Moved(d, Never).enabled = d.enabled /\ Moved(d, Never).kind = d.kind
  BY <1>2, SMT DEF Moved
<1>. QED
  BY <1>2, <1>3 DEF Row, Expired, d

LEMMA MovedRow ==
  ASSUME NEW r \in Row, NEW q \in Times
  PROVE  /\ Moved(r, q) \in Row /\ Moved(r, q).next = q
         /\ Moved(r, q).enabled = r.enabled /\ Moved(r, q).kind = r.kind
  BY TimesAreNat, SMT DEF Row, Moved

\* _next_after yields a later occurrence, within a period of its base.
LEMMA NextAfterIsLater ==
  ASSUME NEW r \in Row, NEW b \in 0 .. MaxTime, r.kind = "once" => r.at > b
  PROVE  /\ NextAfter(r, b) \in Times
         /\ NextAfter(r, b) > b
         /\ r.kind = "interval" => NextAfter(r, b) <= b + Interval
<1>1. CASE r.kind = "interval"
  BY <1>1, TimeAssumption, SMT DEF NextAfter, Times
<1>2. CASE r.kind = "daily"
  <2>1. NextAfter(r, b) = NextDaily(b)
    BY <1>2 DEF NextAfter
  <2>2. NextDaily(b) \in Nat /\ b < NextDaily(b) /\ NextDaily(b) <= b + Day
    BY TimeOfDayNext, TimesAreNat
  <2>. QED
    BY <1>2, <2>1, <2>2, TimeAssumption, SMT DEF Times
<1>3. CASE r.kind = "once"
  BY <1>3, RowFields DEF NextAfter
<1>. QED
  BY <1>1, <1>2, <1>3, RowFields

\* The same for the occurrence that follows a late firing.
LEMMA NextFutureIsLater ==
  ASSUME NEW r \in Row, r.kind # "once", NEW p \in Times, NEW t \in 0 .. MaxTime, p <= t
  PROVE  /\ NextFuture(r, p, t) \in Times
         /\ NextFuture(r, p, t) > t
         /\ r.kind = "interval" => NextFuture(r, p, t) <= t + Interval
<1>1. CASE r.kind = "interval"
  <2>1. p \in Nat /\ t \in Nat /\ Interval \in Nat \ {0}
    BY TimeAssumption, TimesAreNat
  <2>2. NextFuture(r, p, t) = p + Interval * ((t - p) \div Interval + 1)
    BY <1>1 DEF NextFuture
  <2>3. NextFuture(r, p, t) \in Nat /\ t < NextFuture(r, p, t) /\ NextFuture(r, p, t) <= t + Interval
    BY <2>1, <2>2, RasterNext
  <2>. QED
    BY <2>3, TimeAssumption, SMT DEF Times
<1>2. CASE r.kind # "interval"
  BY <1>2, NextAfterIsLater DEF NextFuture
<1>. QED
  BY <1>1, <1>2

\* A row kept for its interval schedule, seen at time t.
Kept(r, t) == r # Absent /\ r.enabled /\ r.kind = "interval" => r.next <= t + Interval

\* What a restart moves a row by.
LEMMA MissedIsEnough ==
  ASSUME now \in 0 .. MaxTime, NEW r \in Row, r.next \in Times, r.next <= now
  PROVE  /\ r.next + Missed(r) \in Times
         /\ r.next + Missed(r) > now
         /\ r.kind = "interval" => r.next + Missed(r) <= now + Interval
<1>1. r.next \in Nat /\ now \in Nat
  BY TimesAreNat
<1>2. CASE r.kind = "interval"
  <2>1. Missed(r) = Interval * ((now - r.next) \div Interval + 1)
    BY <1>2 DEF Missed
  <2>2. /\ r.next + Missed(r) \in Nat
        /\ now < r.next + Missed(r)
        /\ r.next + Missed(r) <= now + Interval
    BY <1>1, <2>1, RasterNext, TimeAssumption
  <2>. QED
    BY <2>2, TimeAssumption, SMT DEF Times
<1>3. CASE r.kind # "interval"
  <2>1. Missed(r) = Day * ((now \div Day) - (r.next \div Day) + 1)
    BY <1>3 DEF Missed
  <2>2. /\ r.next + Missed(r) \in Nat
        /\ now < r.next + Missed(r)
        /\ r.next + Missed(r) <= now + 2 * Day
    BY <1>1, <2>1, CalendarNext, TimeAssumption
  <2>. QED
    BY <1>3, <2>2, TimeAssumption, SMT DEF Times
<1>. QED
  BY <1>2, <1>3

\* A restart leaves every enabled row with an occurrence still to come.
LEMMA ReconciledIsFuture ==
  ASSUME now \in 0 .. MaxTime, NEW r \in Row
  PROVE  /\ Reconciled(r) \in Row
         /\ Reconciled(r).enabled => Reconciled(r).next > now
         /\ Kept(r, now) => Kept(Reconciled(r), now)
<1>1. CASE ~Ripe(r)
  <2>1. Reconciled(r) = r
    BY <1>1 DEF Reconciled
  <2>2. r.enabled => r.next > now
    <3>1. CASE r.enabled
      <4>1. r.next \in Nat /\ now \in Nat /\ ~(r.next <= now)
        BY <1>1, <3>1, RowFields, TimesAreNat DEF Ripe
      <4>. QED
        BY <4>1, SMT
    <3>. QED
      BY <3>1
  <2>. QED
    BY <2>1, <2>2
<1>2. CASE Ripe(r) /\ r.kind = "once"
  BY <1>2, ExpiredRow DEF Reconciled, Kept
<1>3. CASE Ripe(r) /\ r.kind # "once"
  <2>1. Reconciled(r) = Moved(r, r.next + Missed(r))
    BY <1>3 DEF Reconciled
  <2>2. r.next \in Times /\ r.next <= now
    BY <1>3, RowFields DEF Ripe
  <2>. QED
    BY <2>1, <2>2, MissedIsEnough, MovedRow, RowFields DEF Kept
<1>. QED
  BY <1>1, <1>2, <1>3

LEMMA ReconciledAbsent == Reconciled(Absent) = Absent
  BY DEF Reconciled, Ripe

-----------------------------------------------------------------------------
(* Types *)

RowsType == [Schedules -> Row \cup {Absent}]

\* A firing concerns the past; so does everything that waits to be fired.
JobInv ==
  /\ job # NoJob => job.planned <= job.at /\ job.at <= now
  /\ \A d \in due : d[2] <= now

TypeInv == TypeOK /\ JobInv

\* An edited row that is enabled has an occurrence to come, and the next one.
Fresh(r) == (r # Absent /\ r.enabled => r.next > now) /\ Kept(r, now)

On(r) == r # Absent /\ r.enabled

LEMMA IdleRow ==
  ASSUME now \in 0 .. MaxTime, NEW k \in Kinds, NEW at \in now + 1 .. MaxTime
  PROVE  /\ Idle(k, at) \in Row /\ ~Idle(k, at).enabled
         /\ Idle(k, at).kind = "once" => Idle(k, at).at > now
<1>1. at \in Times /\ 0 \in Times /\ at > now
  BY TimeAssumption, SMT DEF Times
<1>. QED
  BY <1>1 DEF Idle, Row

LEMMA ActivatedRow ==
  ASSUME now \in 0 .. MaxTime, NEW r \in Row, r.kind = "once" => r.at > now
  PROVE  Activated(r) \in Row /\ Activated(r).enabled /\ Fresh(Activated(r))
<1> DEFINE d == [r EXCEPT !.enabled = TRUE]
<1> DEFINE q == NextAfter(r, now)
<1> DEFINE R == [kind : Kinds, enabled : BOOLEAN, at : Times, next : Times \cup {Never}]
<1>1. r \in R
  BY DEF Row
<1>2. d \in R /\ d.enabled = TRUE /\ d.kind = r.kind
  <2>1. d.enabled = TRUE
    BY <1>1, Zenon
  <2>2. d.kind = r.kind
    BY <1>1, Zenon
  <2>3. d \in R
    BY <1>1, Zenon
  <2>. QED
    BY <2>1, <2>2, <2>3
<1>3. q \in Times /\ q > now /\ (r.kind = "interval" => q <= now + Interval)
  BY NextAfterIsLater
<1> HIDE DEF d, q
<1>4. /\ Moved(d, q) \in R /\ Moved(d, q).enabled = d.enabled
      /\ Moved(d, q).kind = d.kind /\ Moved(d, q).next = q
  BY <1>2, <1>3, SMT DEF Moved
<1>5. Activated(r) = Moved(d, q)
  BY DEF Activated, d, q
<1>. QED
  BY <1>2, <1>3, <1>4, <1>5, TimesAreNat DEF Row, Fresh, Kept

LEMMA JobSteps ==
  ASSUME job \in Job \cup {NoJob}
  PROVE  /\ job.step \in {"create", "finish"} <=> job \in Job
         /\ job # NoJob <=> job \in Job
  BY NoSuchJob DEF Job, NoJob

LEMMA PutEffect ==
  ASSUME rows \in RowsType, disk \in RowsType,
         NEW s \in Schedules, NEW r \in Row \cup {Absent}, Put(s, r)
  PROVE  /\ rows' \in RowsType /\ disk' \in RowsType
         /\ rows'[s] = r /\ \A u \in Schedules \ {s} : rows'[u] = rows[u]
         /\ \A u \in Schedules : disk'[u] = disk[u] \/ disk'[u] = rows'[u]
  BY DEF RowsType, Put, Persist

\* What any request may do to the rows.
RowsEdited ==
  /\ rows' \in RowsType /\ disk' \in RowsType
  /\ \A u \in Schedules : rows'[u] = rows[u] \/ Fresh(rows'[u])
  /\ \A u \in Schedules : disk'[u] = disk[u] \/ disk'[u] = rows'[u]

\* A schedule that is switched off is quiet from now on.
QuietKept ==
  /\ quiet' \in [Schedules -> 0 .. now]
  /\ \A u \in Schedules :
       quiet'[u] = now \/ (quiet'[u] = quiet[u] /\ (On(rows[u]) => On(rows'[u])))

LEMMA PutEdits ==
  ASSUME rows \in RowsType, disk \in RowsType, NEW s \in Schedules,
         NEW r \in Row \cup {Absent}, Put(s, r), Fresh(r) \/ r = rows[s]
  PROVE  RowsEdited
  BY PutEffect DEF RowsEdited

LEMMA RequestEffect ==
  ASSUME TypeOK, NEW s \in Schedules, Request(s)
  PROVE  /\ RowsEdited /\ QuietKept
         /\ used' \in SUBSET Schedules /\ manual' \in SUBSET Schedules
         /\ \A u \in Schedules \ used' : rows'[u] = Absent /\ disk'[u] = Absent
         /\ UNCHANGED <<now, thread, due, job, started, fired>>
<1>1. /\ rows \in RowsType /\ disk \in RowsType /\ now \in 0 .. MaxTime
      /\ rows[s] \in Row \cup {Absent} /\ quiet \in [Schedules -> 0 .. now]
      /\ used \in SUBSET Schedules /\ manual \in SUBSET Schedules
      /\ \A u \in Schedules \ used : rows[u] = Absent /\ disk[u] = Absent
  BY DEF RowsType, TypeOK
<1>2. Fresh(Absent) /\ ~On(Absent) /\ now \in 0 .. now
  BY <1>1, SMT DEF Fresh, Kept, On
<1> DEFINE UnusedStay == \A u \in Schedules \ used' : rows'[u] = Absent /\ disk'[u] = Absent
<1>a. ASSUME NEW r \in Row \cup {Absent}, Put(s, r), s \in used', used \subseteq used'
      PROVE  UnusedStay
  BY <1>1, <1>a, PutEffect
<1>b. ASSUME UNCHANGED <<rows, disk, used>>
      PROVE  UnusedStay
  BY <1>1, <1>b
<1>c. Exists(s) => s \in used
  BY <1>1 DEF Exists
<1> HIDE DEF UnusedStay
<1>3. CASE Create(s)
  <2>1. PICK k \in Kinds, at \in now + 1 .. MaxTime :
          \E r \in {Idle(k, at), Activated(Idle(k, at))} : Put(s, r)
    BY <1>3 DEF Create
  <2>2. PICK r \in {Idle(k, at), Activated(Idle(k, at))} : Put(s, r)
    BY <2>1
  <2>3. /\ Idle(k, at) \in Row /\ ~Idle(k, at).enabled
        /\ Idle(k, at).kind = "once" => Idle(k, at).at > now
    BY <1>1, IdleRow
  <2>4. r \in Row /\ Fresh(r)
    <3>1. CASE r = Idle(k, at)
      BY <2>3, <3>1 DEF Fresh, Kept
    <3>2. CASE r = Activated(Idle(k, at))
      BY <1>1, <2>3, <3>2, ActivatedRow
    <3>. QED
      BY <2>2, <3>1, <3>2
  <2>5. RowsEdited
    BY <1>1, <2>2, <2>4, PutEdits
  <2>6. \A u \in Schedules : rows'[u] = rows[u] \/ ~On(rows[u])
    <3>1. \A u \in Schedules \ {s} : rows'[u] = rows[u]
      BY <1>1, <2>2, <2>4, PutEffect
    <3>2. ~On(rows[s])
      BY <1>2, <1>3 DEF Create, TypeOK
    <3>. QED
      BY <3>1, <3>2
  <2>7. UnusedStay
    BY <1>3, <1>a, <2>2, <2>4 DEF Create
  <2>. QED
    BY <1>1, <1>3, <2>5, <2>6, <2>7 DEF Create, QuietKept, UnusedStay
<1>4. CASE Enable(s)
  <2>1. rows[s] \in Row /\ (rows[s].kind = "once" => rows[s].at > now)
    BY <1>1, <1>4 DEF Enable, Exists
  <2>2. Activated(rows[s]) \in Row /\ Fresh(Activated(rows[s])) /\ On(Activated(rows[s]))
    BY <1>1, <2>1, ActivatedRow, NoSuchRow DEF On
  <2>3. Put(s, Activated(rows[s]))
    BY <1>4 DEF Enable
  <2>4. RowsEdited
    BY <1>1, <2>2, <2>3, PutEdits
  <2>5. \A u \in Schedules : On(rows[u]) => On(rows'[u])
    BY <1>1, <2>2, <2>3, PutEffect
  <2>6. UnusedStay
    BY <1>4, <1>a, <1>c, <2>2, <2>3 DEF Enable
  <2>. QED
    BY <1>1, <1>4, <2>4, <2>5, <2>6 DEF Enable, QuietKept, UnusedStay
<1>5. CASE Disable(s)
  <2>1. rows[s] \in Row
    BY <1>1, <1>5 DEF Disable, Exists
  <2>2. Expired(rows[s]) \in Row /\ Fresh(Expired(rows[s]))
    BY <2>1, ExpiredRow DEF Fresh, Kept
  <2>3. Put(s, Expired(rows[s]))
    BY <1>5 DEF Disable
  <2>4. RowsEdited
    BY <1>1, <2>2, <2>3, PutEdits
  <2>5. \A u \in Schedules \ {s} : rows'[u] = rows[u]
    BY <1>1, <2>2, <2>3, PutEffect
  <2>6. UnusedStay
    BY <1>5, <1>a, <1>c, <2>2, <2>3 DEF Disable
  <2>. QED
    BY <1>1, <1>2, <1>5, <2>4, <2>5, <2>6 DEF Disable, QuietKept, UnusedStay
<1>6. CASE Delete(s)
  <2>1. Put(s, Absent)
    BY <1>6 DEF Delete
  <2>2. RowsEdited
    BY <1>1, <1>2, <2>1, PutEdits
  <2>3. \A u \in Schedules \ {s} : rows'[u] = rows[u]
    BY <1>1, <2>1, PutEffect
  <2>4. UnusedStay
    BY <1>6, <1>a, <1>c, <2>1 DEF Delete
  <2>. QED
    BY <1>1, <1>2, <1>6, <2>2, <2>3, <2>4 DEF Delete, QuietKept, UnusedStay
<1>7. ASSUME Put(s, rows[s])
      PROVE  RowsEdited /\ \A u \in Schedules : rows'[u] = rows[u]
  BY <1>1, <1>7, PutEdits, PutEffect
<1>8. ASSUME UNCHANGED <<rows, disk>>
      PROVE  RowsEdited /\ \A u \in Schedules : rows'[u] = rows[u]
  BY <1>1, <1>8 DEF RowsEdited
<1>9. CASE SetAssessmentEnabled(s)
  <2>1. RowsEdited /\ \A u \in Schedules : rows'[u] = rows[u]
    BY <1>7, <1>9 DEF SetAssessmentEnabled
  <2>2. UnusedStay
    BY <1>1, <1>9, <1>a, <1>c DEF SetAssessmentEnabled
  <2>. QED
    BY <1>1, <1>9, <2>1, <2>2 DEF SetAssessmentEnabled, QuietKept, UnusedStay
<1>10. CASE RunNow(s)
  <2>1. RowsEdited /\ \A u \in Schedules : rows'[u] = rows[u]
    BY <1>8, <1>10 DEF RunNow
  <2>2. UnusedStay
    BY <1>10, <1>b DEF RunNow
  <2>. QED
    BY <1>1, <1>10, <2>1, <2>2 DEF RunNow, QuietKept, UnusedStay
<1>11. CASE RunNowDone(s)
  <2>1. RowsEdited /\ \A u \in Schedules : rows'[u] = rows[u]
    BY <1>7, <1>8, <1>11 DEF RunNowDone
  <2>2. UnusedStay
    BY <1>1, <1>11, <1>a, <1>b, <1>c DEF RunNowDone
  <2>. QED
    BY <1>1, <1>11, <2>1, <2>2 DEF RunNowDone, QuietKept, UnusedStay
<1>. QED
  BY <1>3, <1>4, <1>5, <1>6, <1>9, <1>10, <1>11 DEF Request, UnusedStay

LEMMA AdvancedRow ==
  ASSUME TypeInv, job \in Job, NEW r \in Row
  PROVE  /\ Advanced(r) \in Row
         /\ Advanced(r).enabled => r.enabled /\ Advanced(r).next > job.at
         /\ Advanced(r).enabled /\ Advanced(r).kind = "interval" =>
              Advanced(r).next <= job.at + Interval
<1>1. job.planned \in Times /\ job.at \in 0 .. MaxTime /\ job.planned <= job.at
  <2>1. job # NoJob /\ now \in 0 .. MaxTime /\ job.planned \in Times /\ job.at \in Times
    BY JobSteps DEF TypeInv, TypeOK, Job
  <2>2. job.planned <= job.at /\ job.at <= now
    BY <2>1 DEF TypeInv, JobInv
  <2>3. job.at \in Nat /\ now \in Nat /\ now <= MaxTime /\ MaxTime \in Nat
    <3>1. job.at \in Nat
      BY <2>1, TimesAreNat
    <3>2. now \in Nat /\ now <= MaxTime /\ MaxTime \in Nat
      BY <2>1, TimeAssumption, SMT
    <3>. QED
      BY <3>1, <3>2
  <2>4. job.at \in 0 .. MaxTime
    BY <2>2, <2>3, SMT
  <2>. QED
    BY <2>1, <2>2, <2>4
<1>2. CASE r.kind = "once"
  BY <1>2, ExpiredRow DEF Advanced
<1>3. CASE r.kind # "once"
  <2> DEFINE q == NextFuture(r, job.planned, job.at)
  <2>1. Advanced(r) = Moved(r, q)
    BY <1>3 DEF Advanced
  <2>2. q \in Times /\ q > job.at /\ (r.kind = "interval" => q <= job.at + Interval)
    BY <1>1, <1>3, NextFutureIsLater
  <2> HIDE DEF q
  <2>. QED
    BY <2>1, <2>2, MovedRow
<1>. QED
  BY <1>2, <1>3

\* What the end of a firing does to the rows: only the fired one moves on.
LEMMA FinishEffect ==
  ASSUME TypeInv, Finish
  PROVE  /\ job \in Job /\ job.step = "finish"
         /\ rows' \in RowsType
         /\ \A u \in Schedules \ {job.id} : rows'[u] = rows[u]
         /\ \/ rows'[job.id] = rows[job.id]
            \/ rows[job.id] \in Row /\ rows'[job.id] = Advanced(rows[job.id])
         /\ \A u \in Schedules : disk'[u] = disk[u] \/ disk'[u] = rows'[u]
         /\ disk' \in RowsType
         /\ \/ /\ job' = NoJob /\ due' = due
               /\ thread' = (IF due = {} THEN "idle" ELSE "firing")
               /\ \/ rows'[job.id] = Absent
                  \/ rows[job.id] \in Row /\ rows'[job.id] = Advanced(rows[job.id])
            \/ Die
<1>1. /\ job \in Job /\ job.step = "finish" /\ job.id \in Schedules
      /\ rows \in RowsType /\ disk \in RowsType /\ now \in 0 .. MaxTime
  BY JobSteps DEF TypeInv, TypeOK, Finish, RowsType, Job
<1>2. Exists(job.id) => rows[job.id] \in Row /\ Advanced(rows[job.id]) \in Row
  <2>1. Exists(job.id) => rows[job.id] \in Row
    BY <1>1 DEF Exists, RowsType
  <2>. QED
    BY <1>1, <2>1, AdvancedRow
<1>3. CASE UNCHANGED <<rows, disk>> /\ (Die \/ ~Exists(job.id))
  <2>1. Die \/ (rows[job.id] = Absent /\ ~Die)
    BY <1>3 DEF Exists
  <2>. QED
    BY <1>1, <1>3, <2>1 DEF Finish
<1>4. CASE Exists(job.id) /\ Put(job.id, Advanced(rows[job.id]))
  <2>1. /\ rows' \in RowsType /\ disk' \in RowsType
        /\ rows'[job.id] = Advanced(rows[job.id])
        /\ \A u \in Schedules \ {job.id} : rows'[u] = rows[u]
        /\ \A u \in Schedules : disk'[u] = disk[u] \/ disk'[u] = rows'[u]
    BY <1>1, <1>2, <1>4, PutEffect
  <2>. QED
    BY <1>1, <1>2, <1>4, <2>1 DEF Finish, Die
<1>5. CASE /\ Exists(job.id)
           /\ rows' = [rows EXCEPT ![job.id] = Advanced(rows[job.id])]
           /\ UNCHANGED disk
  <2>1. /\ rows' \in RowsType
        /\ rows'[job.id] = Advanced(rows[job.id])
        /\ \A u \in Schedules \ {job.id} : rows'[u] = rows[u]
    BY <1>1, <1>2, <1>5 DEF RowsType
  <2>. QED
    BY <1>1, <1>2, <1>5, <2>1 DEF Finish, Die
<1>. QED
  BY <1>3, <1>4, <1>5 DEF Finish

\* What a start does to the rows: enabled ones have an occurrence to come.
LEMMA StartEffect ==
  ASSUME TypeInv, Start
  PROVE  /\ rows' \in RowsType /\ disk' = rows'
         /\ \A u \in Schedules : disk[u] = Absent => rows'[u] = Absent
         /\ \A u \in Schedules : On(rows'[u]) => rows'[u].next > now
         /\ \A u \in Schedules : Kept(disk[u], now) => Kept(rows'[u], now)
<1>1. /\ rows' = [s \in Schedules |-> Reconciled(disk[s])] /\ disk' = rows'
      /\ now \in 0 .. MaxTime
  BY DEF Start, TypeInv, TypeOK
<1>2. ASSUME NEW u \in Schedules
      PROVE  /\ rows'[u] \in Row \cup {Absent}
             /\ disk[u] = Absent => rows'[u] = Absent
             /\ On(rows'[u]) => rows'[u].next > now
             /\ Kept(disk[u], now) => Kept(rows'[u], now)
  <2>1. rows'[u] = Reconciled(disk[u]) /\ disk[u] \in Row \cup {Absent}
    BY <1>1 DEF TypeInv, TypeOK
  <2>2. CASE disk[u] = Absent
    BY <2>1, <2>2, ReconciledAbsent DEF On, Kept
  <2>3. CASE disk[u] \in Row
    BY <1>1, <2>1, <2>3, ReconciledIsFuture, NoSuchRow DEF On
  <2>. QED
    BY <2>1, <2>2, <2>3
<1>. QED
  BY <1>1, <1>2 DEF RowsType

-----------------------------------------------------------------------------
(* Type correctness *)

\* TypeOK is not inductive by itself: a late firing is only known to end with
\* a time in Times because it began with one that had passed.
LEMMA TypeInvariant == Spec => []TypeInv
<1>1. Init => TypeInv
  <2> SUFFICES ASSUME Init PROVE TypeInv
    OBVIOUS
  <2>1. TypeOK
    BY TimeAssumption, SMT DEF Init, TypeOK, Job, Times
  <2>2. JobInv
    BY DEF Init, JobInv
  <2>. QED
    BY <2>1, <2>2 DEF TypeInv
<1>2. TypeInv /\ [Next]_vars => TypeInv'
  <2> SUFFICES ASSUME TypeInv, [Next]_vars PROVE TypeInv'
    OBVIOUS
  <2> USE DEF TypeInv
  <2>0. /\ now \in Nat /\ started \in 0 .. now /\ MaxTime \in Nat /\ now <= MaxTime
        /\ 0 .. now \subseteq Times /\ Never \in Times \cup {Never}
    BY TimeAssumption, SMT DEF TypeOK, Times
  <2>1. ASSUME NEW s \in Schedules, Request(s) PROVE TypeInv'
    BY <2>1, RequestEffect DEF RowsEdited, QuietKept, TypeOK, JobInv, RowsType
  <2>2. CASE Collect
    <3>1. ASSUME NEW d \in due' PROVE d \in Schedules \X Times /\ d[2] <= now
      <4>1. PICK s \in Schedules : Ripe(rows[s]) /\ d = <<s, rows[s].next>>
        BY <2>2, <3>1 DEF Collect
      <4>2. rows[s] \in Row /\ rows[s].next \in Times /\ rows[s].next <= now
        BY <4>1, RowFields DEF Ripe, TypeOK
      <4>. QED
        BY <4>1, <4>2
    <3>. QED
      BY <2>2, <3>1 DEF Collect, TypeOK, JobInv
  <2>3. ASSUME NEW s \in Schedules, NEW p \in Times, Begin(s, p) PROVE TypeInv'
    <3>1. p <= now /\ now \in Times
      BY <2>0, <2>3 DEF Begin, JobInv
    <3>2. CASE Exists(s)
      <4>1. /\ job' \in Job /\ job'.planned = p /\ job'.at = now
            /\ thread' = thread /\ due' \subseteq due
        BY <2>3, <3>1, <3>2 DEF Begin, Job
      <4>. QED
        BY <2>0, <2>3, <3>1, <4>1 DEF Begin, TypeOK, JobInv
    <3>3. CASE ~Exists(s)
      BY <2>3, <3>3 DEF Begin, Die, TypeOK, JobInv
    <3>. QED
      BY <3>2, <3>3
  <2>4. CASE CreateTask
    <3>1. job \in Job /\ job # NoJob /\ thread = "firing"
      BY <2>4, JobSteps DEF CreateTask, TypeOK
    <3>2. fired' \in [Schedules -> Times \cup {Never}]
      BY <2>4, <3>1 DEF CreateTask, TypeOK, Job
    <3>3. CASE job' = [job EXCEPT !.step = "finish"] /\ UNCHANGED <<thread, due>>
      <4>1. job' \in Job /\ job'.planned = job.planned /\ job'.at = job.at
        BY <3>1, <3>3 DEF Job
      <4>. QED
        BY <2>4, <3>1, <3>2, <3>3, <4>1 DEF CreateTask, TypeOK, JobInv
    <3>4. CASE Die
      BY <2>4, <3>2, <3>4 DEF CreateTask, Die, TypeOK, JobInv
    <3>. QED
      BY <2>4, <3>3, <3>4 DEF CreateTask
  <2>5. CASE Finish
    <3>1. ASSUME NEW u \in Schedules \ used
          PROVE  rows'[u] = Absent /\ disk'[u] = Absent
      <4>1. rows[u] = Absent /\ disk[u] = Absent
        BY DEF TypeOK
      <4>. QED
        BY <2>5, <4>1, FinishEffect, NoSuchRow
    <3>2. /\ rows' \in RowsType /\ disk' \in RowsType
          /\ UNCHANGED <<now, used, manual, started, fired, quiet>>
      BY <2>5, FinishEffect DEF Finish
    <3>3. /\ due' \subseteq due /\ job' = NoJob
          /\ thread' \in {"idle", "firing", "dead"}
          /\ due' # {} => thread' = "firing"
      BY <2>5, FinishEffect DEF Die
    <3>. QED
      BY <3>1, <3>2, <3>3 DEF TypeOK, JobInv, RowsType
  <2>6. CASE Start
    <3>1. /\ rows' \in RowsType /\ disk' = rows'
          /\ \A u \in Schedules : disk[u] = Absent => rows'[u] = Absent
      BY <2>6, StartEffect
    <3>2. started' \in 0 .. now
      BY <2>0, <2>6, SMT DEF Start
    <3>3. due = {} /\ job = NoJob
      BY <2>6 DEF Start, TypeOK
    <3>. QED
      BY <2>6, <3>1, <3>2, <3>3 DEF Start, TypeOK, JobInv, RowsType
  <2>7. CASE Quit
    BY <2>7 DEF Quit, TypeOK, JobInv
  <2>8. CASE Tick
    <3>1. now' \in 0 .. MaxTime /\ 0 .. now \subseteq 0 .. now'
      BY <2>0, <2>8, SMT DEF Tick
    <3>2. started' \in 0 .. now' /\ quiet' \in [Schedules -> 0 .. now']
      BY <2>0, <2>8, <3>1 DEF Tick, TypeOK
    <3>3. JobInv'
      <4>1. job # NoJob => job.planned \in Nat /\ job.at \in Nat
        BY JobSteps, TimesAreNat DEF TypeOK, Job
      <4>2. \A d \in due : d[2] \in Nat
        BY TimesAreNat DEF TypeOK
      <4>. QED
        BY <2>0, <2>8, <4>1, <4>2, SMT DEF Tick, JobInv
    <3>. QED
      BY <2>8, <3>1, <3>2, <3>3 DEF Tick, TypeOK
  <2>9. CASE UNCHANGED vars
    BY <2>9 DEF vars, TypeOK, JobInv
  <2>. QED
    BY <2>1, <2>2, <2>3, <2>4, <2>5, <2>6, <2>7, <2>8, <2>9 DEF Next, Loop
<1>. QED
  BY <1>1, <1>2, PTL DEF Spec

\* Every variable of the scheduler keeps its type: an enabled row always has
\* a next occurrence, unused ids have no row, and a firing is under way only
\* while the thread is in _tick.
THEOREM TypeCorrect == Spec => []TypeOK
<1>1. TypeInv => TypeOK
  BY DEF TypeInv
<1>. QED
  BY <1>1, TypeInvariant, PTL

-----------------------------------------------------------------------------
(* The clock of a schedule only moves forward *)

\* While the thread runs, what the clock next looks at is the row itself, but
\* for the schedule just fired, whose row is about to move.
Settled(u) ==
  /\ thread \in {"idle", "firing"}
  /\ On(rows[u])
  /\ job.step = "finish" => job.id # u

ClockInv ==
  /\ \A u \in Schedules : fired[u] <= now
  /\ \A u \in Schedules : Settled(u) => rows[u].next > started /\ rows[u].next > fired[u]
  /\ \A d \in due : d[2] > started /\ d[2] > fired[d[1]] /\ (job # NoJob => d[1] # job.id)
  /\ \A d, e \in due : d[1] = e[1] => d = e
  /\ job # NoJob => job.planned > started
  /\ job.step = "create" => job.planned > fired[job.id]
  /\ job.step = "finish" => fired[job.id] = job.planned

LEMMA TimesAreInt == Times \cup {Never} \subseteq Int
  BY TimesAreNat, SMT DEF Never

LEMMA ClockInvariant == Spec => []ClockInv
<1>1. Init => ClockInv
  BY DEF Init, ClockInv, Settled, On, NoJob, Never
<1>2. TypeInv /\ ClockInv /\ [Next]_vars => ClockInv'
  <2> SUFFICES ASSUME TypeInv, ClockInv, [Next]_vars PROVE ClockInv'
    OBVIOUS
  <2>0. /\ now \in Nat /\ started \in 0 .. now
        /\ \A u \in Schedules : fired[u] \in Int /\ rows[u] \in Row \cup {Absent}
    BY TimesAreInt, SMT DEF TypeInv, TypeOK
  <2>1. ASSUME NEW s \in Schedules, Request(s) PROVE ClockInv'
    <3>1. ASSUME NEW u \in Schedules, Settled(u)'
          PROVE  rows'[u].next > started /\ rows'[u].next > fired[u]
      <4>1. CASE rows'[u] = rows[u]
        BY <2>1, <3>1, <4>1, RequestEffect DEF Settled, ClockInv, TypeInv
      <4>2. CASE Fresh(rows'[u])
        <5>1. rows'[u].next > now
          BY <3>1, <4>2 DEF Settled, Fresh, On
        <5>2. rows'[u].next \in Int
          <6>1. rows'[u] \in Row
            BY <2>1, <3>1, RequestEffect DEF Settled, On, TypeInv, RowsEdited, RowsType
          <6>. QED
            BY <6>1, RowFields, TimesAreInt
        <5>3. fired[u] <= now
          BY DEF ClockInv
        <5>. QED
          BY <2>0, <5>1, <5>2, <5>3, SMT
      <4>. QED
        BY <2>1, <4>1, <4>2, RequestEffect DEF TypeInv, RowsEdited
    <3>. QED
      BY <2>1, <3>1, RequestEffect DEF ClockInv, TypeInv
  <2>2. CASE Collect
    <3>1. /\ thread = "idle" /\ job = NoJob
          /\ due' = {<<s, rows[s].next>> : s \in {u \in Schedules : Ripe(rows[u])}}
          /\ UNCHANGED <<now, rows, job, started, fired>>
      BY <2>2 DEF Collect, TypeInv, TypeOK
    <3>2. ASSUME NEW u \in Schedules, Ripe(rows[u]) PROVE Settled(u)
      BY <3>1, <3>2 DEF Settled, On, Ripe, NoJob
    <3>3. \A d \in due' : d[2] > started /\ d[2] > fired[d[1]]
      BY <3>1, <3>2 DEF ClockInv
    <3>4. \A d, e \in due' : d[1] = e[1] => d = e
      BY <3>1
    <3>5. \A u \in Schedules : Settled(u)' => Settled(u)
      BY <3>1 DEF Settled
    <3>. QED
      BY <3>1, <3>3, <3>4, <3>5 DEF ClockInv
  <2>3. ASSUME NEW s \in Schedules, NEW p \in Times, Begin(s, p) PROVE ClockInv'
    <3>1. /\ job = NoJob /\ <<s, p>> \in due /\ UNCHANGED <<now, rows, started, fired>>
          /\ p > started /\ p > fired[s]
      BY <2>3 DEF Begin, ClockInv
    <3>2. CASE Exists(s)
      <4>1. /\ job' = [step |-> "create", id |-> s, planned |-> p, at |-> now]
            /\ due' = due \ {<<s, p>>} /\ thread' = thread
        BY <2>3, <3>2 DEF Begin
      <4>2. job'.step = "create" /\ job'.id = s /\ job'.planned = p
        BY <4>1
      <4>3. \A d \in due' : d[1] # s
        BY <3>1, <4>1 DEF ClockInv
      <4>4. \A u \in Schedules : Settled(u)' => Settled(u)
        BY <3>1, <4>1, <4>2 DEF Settled, NoJob
      <4>. QED
        BY <3>1, <4>1, <4>2, <4>3, <4>4 DEF ClockInv
    <3>3. CASE ~Exists(s)
      BY <2>3, <3>1, <3>3 DEF Begin, Die, ClockInv, Settled, NoJob
    <3>. QED
      BY <3>2, <3>3
  <2>4. CASE CreateTask
    <3>1. /\ job \in Job /\ job # NoJob /\ job.step = "create" /\ job.id \in Schedules
          /\ job.planned <= now
          /\ UNCHANGED <<now, rows, started>>
      <4>1. /\ job \in Job /\ job # NoJob /\ job.step = "create"
            /\ UNCHANGED <<now, rows, started>>
        BY <2>4, JobSteps DEF CreateTask, TypeInv, TypeOK
      <4>2. job.id \in Schedules /\ job.planned \in Nat /\ job.at \in Nat
        BY <4>1, TimesAreNat DEF Job
      <4>3. job.planned <= job.at /\ job.at <= now
        BY <4>1 DEF TypeInv, JobInv
      <4>. QED
        BY <2>0, <4>1, <4>2, <4>3, SMT
    <3>2. /\ fired'[job.id] = job.planned
          /\ \A u \in Schedules \ {job.id} : fired'[u] = fired[u]
      BY <2>4, <3>1 DEF CreateTask, TypeInv, TypeOK
    <3>3. CASE job' = [job EXCEPT !.step = "finish"] /\ UNCHANGED <<thread, due>>
      <4>1. /\ job' # NoJob /\ job'.step = "finish"
            /\ job'.id = job.id /\ job'.planned = job.planned
        <5>1. job' \in Job /\ job'.step = "finish" /\ job'.id = job.id
              /\ job'.planned = job.planned
          BY <3>1, <3>3 DEF Job
        <5>. QED
          BY <5>1, NoSuchJob
      <4>2. \A u \in Schedules : Settled(u)' => Settled(u) /\ u # job.id
        BY <3>1, <3>3, <4>1 DEF Settled
      <4>3. \A d \in due : d[1] \in Schedules /\ d[1] # job.id
        BY <3>1 DEF ClockInv, TypeInv, TypeOK
      <4>. QED
        BY <3>1, <3>2, <3>3, <4>1, <4>2, <4>3 DEF ClockInv
    <3>4. CASE Die
      BY <3>1, <3>2, <3>4 DEF Die, ClockInv, Settled, NoJob
    <3>. QED
      BY <2>4, <3>3, <3>4 DEF CreateTask
  <2>5. CASE Finish
    <3>1. /\ job \in Job /\ job.step = "finish" /\ job.id \in Schedules /\ job # NoJob
          /\ job' = NoJob
          /\ UNCHANGED <<now, started, fired>>
          /\ \A u \in Schedules \ {job.id} : rows'[u] = rows[u]
      BY <2>5, FinishEffect, NoSuchJob DEF Finish, Die, Job
    <3>2. CASE Die
      BY <3>1, <3>2 DEF Die, ClockInv, Settled, NoJob
    <3>3. CASE /\ due' = due /\ thread = "firing"
               /\ \/ rows'[job.id] = Absent
                  \/ rows[job.id] \in Row /\ rows'[job.id] = Advanced(rows[job.id])
      <4>1. ASSUME On(rows'[job.id])
            PROVE  rows'[job.id].next > started /\ rows'[job.id].next > fired[job.id]
        <5>1. rows[job.id] \in Row /\ rows'[job.id] = Advanced(rows[job.id])
          BY <3>3, <4>1 DEF On
        <5>2. rows'[job.id] \in Row /\ rows'[job.id].next > job.at
          BY <3>1, <4>1, <5>1, AdvancedRow DEF On
        <5>3. rows'[job.id].next \in Int /\ job.at \in Int /\ job.planned \in Int
          BY <3>1, <5>2, RowFields, TimesAreInt DEF Job
        <5>4. job.planned <= job.at /\ job.planned > started /\ fired[job.id] = job.planned
          BY <3>1 DEF TypeInv, JobInv, ClockInv
        <5>. QED
          BY <2>0, <5>2, <5>3, <5>4, SMT
      <4>2. \A u \in Schedules \ {job.id} : Settled(u)' => Settled(u)
        BY <3>1, <3>3 DEF Settled
      <4>3. \A u \in Schedules : Settled(u)' => On(rows'[u])
        BY DEF Settled
      <4>. QED
        BY <3>1, <3>3, <4>1, <4>2, <4>3 DEF ClockInv, NoJob
    <3>. QED
      BY <2>5, <3>1, <3>2, <3>3, FinishEffect DEF TypeInv, TypeOK
  <2>6. CASE Start
    <3>1. /\ due = {} /\ job = NoJob /\ started' = now
          /\ UNCHANGED <<now, due, job, fired>>
      BY <2>6 DEF Start, TypeInv, TypeOK
    <3>2. ASSUME NEW u \in Schedules, On(rows'[u])
          PROVE  rows'[u].next > now /\ rows'[u].next > fired[u]
      <4>1. rows'[u] \in Row /\ rows'[u].next > now
        BY <2>6, <3>2, StartEffect DEF On, RowsType
      <4>2. rows'[u].next \in Int /\ fired[u] <= now
        BY <4>1, RowFields, TimesAreInt DEF ClockInv
      <4>. QED
        BY <2>0, <4>1, <4>2, SMT
    <3>. QED
      BY <3>1, <3>2 DEF ClockInv, Settled, NoJob
  <2>7. CASE Quit
    BY <2>7 DEF Quit, ClockInv, Settled, NoJob
  <2>8. CASE Tick
    <3>1. /\ now' = now + 1
          /\ UNCHANGED <<rows, thread, due, job, started, fired>>
      BY <2>8 DEF Tick
    <3>2. \A u \in Schedules : fired'[u] <= now'
      BY <2>0, <3>1, SMT DEF ClockInv
    <3>3. \A u \in Schedules : Settled(u)' => Settled(u)
      BY <3>1 DEF Settled
    <3>. QED
      BY <3>1, <3>2, <3>3 DEF ClockInv
  <2>9. CASE UNCHANGED vars
    BY <2>9 DEF vars, ClockInv, Settled
  <2>. QED
    BY <2>1, <2>2, <2>3, <2>4, <2>5, <2>6, <2>7, <2>8, <2>9 DEF Next, Loop
<1>. QED
  BY <1>1, <1>2, TypeInvariant, PTL DEF Spec

\* No occurrence is passed to the task service twice, and none after a later
\* one: neither a fault between create_task and the write of schedules.json
\* nor an edit or a restart lets the clock of a schedule go back.
THEOREM FiredOnce == Spec => []EachOccurrenceOnce
<1>1. ClockInv => EachOccurrenceOnce
  BY DEF ClockInv, EachOccurrenceOnce
<1>. QED
  BY <1>1, ClockInvariant, PTL

\* Whatever fires was still to come when the process was started: a restart
\* passes over what it missed, and never catches up.
THEOREM NothingCaughtUp == Spec => []NoCatchUp
<1>1. ClockInv => NoCatchUp
  BY DEF ClockInv, NoCatchUp, NoJob
<1>. QED
  BY <1>1, ClockInvariant, PTL

-----------------------------------------------------------------------------
(* Disabled schedules *)

\* What waits to be fired belongs to an enabled schedule, or was due before
\* the schedule was switched off; the same for the firing under way.
QuietInv ==
  /\ \A d \in due : On(rows[d[1]]) \/ d[2] <= quiet[d[1]]
  /\ job.step = "create" => On(rows[job.id]) \/ job.planned <= quiet[job.id]

LEMMA QuietInvariant == Spec => []QuietInv
<1>1. Init => QuietInv
  BY DEF Init, QuietInv, NoJob
<1>2. TypeInv /\ ClockInv /\ QuietInv /\ [Next]_vars => QuietInv'
  <2> SUFFICES ASSUME TypeInv, ClockInv, QuietInv, [Next]_vars PROVE QuietInv'
    OBVIOUS
  <2>1. ASSUME NEW s \in Schedules, Request(s) PROVE QuietInv'
    <3>1. UNCHANGED <<due, job>> /\ QuietKept
      BY <2>1, RequestEffect DEF TypeInv
    <3>2. ASSUME NEW d \in due PROVE On(rows'[d[1]]) \/ d[2] <= quiet'[d[1]]
      <4>1. d[1] \in Schedules /\ d[2] <= now
        BY DEF TypeInv, TypeOK, JobInv
      <4>. QED
        BY <3>1, <4>1 DEF QuietInv, QuietKept
    <3>3. ASSUME job.step = "create"
          PROVE  On(rows'[job.id]) \/ job.planned <= quiet'[job.id]
      <4>1. job \in Job /\ job # NoJob
        BY <3>3, JobSteps DEF TypeInv, TypeOK
      <4>2. job.id \in Schedules /\ job.planned \in Nat /\ job.at \in Nat /\ now \in Nat
        BY <4>1, TimesAreNat DEF Job, TypeInv, TypeOK
      <4>3. job.planned <= job.at /\ job.at <= now
        BY <4>1 DEF TypeInv, JobInv
      <4>4. job.planned <= now
        BY <4>2, <4>3, SMT
      <4>. QED
        BY <3>1, <3>3, <4>2, <4>4 DEF QuietInv, QuietKept
    <3>. QED
      BY <3>1, <3>2, <3>3 DEF QuietInv
  <2>2. CASE Collect
    BY <2>2 DEF Collect, QuietInv, On, Ripe
  <2>3. ASSUME NEW s \in Schedules, NEW p \in Times, Begin(s, p) PROVE QuietInv'
    <3>1. UNCHANGED <<rows, quiet>> /\ <<s, p>> \in due /\ due' \subseteq due
      BY <2>3 DEF Begin, Die
    <3>2. job'.step = "create" => job'.id = s /\ job'.planned = p
      BY <2>3 DEF Begin, Die, NoJob
    <3>. QED
      BY <3>1, <3>2 DEF QuietInv
  <2>4. CASE CreateTask
    <3>1. job'.step # "create"
      <4>1. job \in Job
        BY <2>4, JobSteps DEF CreateTask, TypeInv, TypeOK
      <4>. QED
        BY <2>4, <4>1 DEF CreateTask, Die, NoJob, Job
    <3>. QED
      BY <2>4, <3>1 DEF CreateTask, Die, QuietInv
  <2>5. CASE Finish
    <3>1. /\ job' = NoJob /\ due' \subseteq due /\ UNCHANGED quiet
          /\ \A u \in Schedules \ {job.id} : rows'[u] = rows[u]
      BY <2>5, FinishEffect DEF Finish, Die
    <3>2. \A d \in due : d[1] \in Schedules \ {job.id}
      BY <2>5, FinishEffect, NoSuchJob DEF ClockInv, TypeInv, TypeOK
    <3>. QED
      BY <3>1, <3>2 DEF QuietInv, NoJob
  <2>6. CASE Start
    BY <2>6 DEF Start, QuietInv, NoJob, TypeInv, TypeOK
  <2>7. CASE Quit
    BY <2>7 DEF Quit, QuietInv, NoJob
  <2>8. CASE Tick
    BY <2>8 DEF Tick, QuietInv
  <2>9. CASE UNCHANGED vars
    BY <2>9 DEF vars, QuietInv
  <2>. QED
    BY <2>1, <2>2, <2>3, <2>4, <2>5, <2>6, <2>7, <2>8, <2>9 DEF Next, Loop
<1>. QED
  BY <1>1, <1>2, TypeInvariant, ClockInvariant, PTL DEF Spec

\* A schedule that was disabled or deleted creates no task for an occurrence
\* that was not yet due at that moment, however late the thread comes to it.
THEOREM DisabledFallsQuiet == Spec => []DisabledIsQuiet
<1>1. QuietInv => DisabledIsQuiet
  BY DEF QuietInv, DisabledIsQuiet, On, Exists
<1>. QED
  BY <1>1, QuietInvariant, PTL

-----------------------------------------------------------------------------
(* Interval schedules *)

\* Both copies of an interval row are at most one period ahead: a restart
\* takes its rows from schedules.json.
KeptInv == \A u \in Schedules : Kept(rows[u], now) /\ Kept(disk[u], now)

LEMMA KeptInvariant == Spec => []KeptInv
<1>1. Init => KeptInv
  BY DEF Init, KeptInv, Kept
<1>2. TypeInv /\ KeptInv /\ [Next]_vars => KeptInv'
  <2> SUFFICES ASSUME TypeInv, KeptInv, [Next]_vars PROVE KeptInv'
    OBVIOUS
  <2>1. ASSUME NEW s \in Schedules, Request(s) PROVE KeptInv'
    BY <2>1, RequestEffect DEF TypeInv, RowsEdited, KeptInv, Fresh
  <2>2. CASE Collect
    BY <2>2 DEF Collect, KeptInv
  <2>3. ASSUME NEW s \in Schedules, NEW p \in Times, Begin(s, p) PROVE KeptInv'
    BY <2>3 DEF Begin, KeptInv
  <2>4. CASE CreateTask
    BY <2>4 DEF CreateTask, KeptInv
  <2>5. CASE Finish
    <3>1. /\ job \in Job /\ job # NoJob /\ UNCHANGED now
          /\ \A u \in Schedules \ {job.id} : rows'[u] = rows[u]
          /\ \/ rows'[job.id] = rows[job.id]
             \/ rows[job.id] \in Row /\ rows'[job.id] = Advanced(rows[job.id])
          /\ \A u \in Schedules : disk'[u] = disk[u] \/ disk'[u] = rows'[u]
      BY <2>5, FinishEffect, NoSuchJob DEF Finish
    <3>2. job.id \in Schedules /\ job.at \in Int /\ now \in Int /\ Interval \in Int
      <4>1. job.id \in Schedules /\ job.at \in Int
        BY <3>1, TimesAreInt DEF Job
      <4>2. now \in Int /\ Interval \in Int
        BY TimeAssumption, SMT DEF TypeInv, TypeOK
      <4>. QED
        BY <4>1, <4>2
    <3>3. ASSUME rows[job.id] \in Row PROVE Kept(Advanced(rows[job.id]), now)
      <4> DEFINE r == Advanced(rows[job.id])
      <4>1. r \in Row /\ (r.enabled /\ r.kind = "interval" => r.next <= job.at + Interval)
        BY <3>1, <3>3, AdvancedRow
      <4>2. r.next \in Int
        BY <4>1, RowFields, TimesAreInt
      <4>3. job.at <= now
        BY <3>1 DEF TypeInv, JobInv
      <4> HIDE DEF r
      <4>4. r.next <= job.at + Interval => r.next <= now + Interval
        BY <3>2, <4>2, <4>3, SMT
      <4>5. Kept(r, now)
        BY <4>1, <4>4 DEF Kept
      <4>. QED
        BY <4>5 DEF r
    <3>. QED
      BY <3>1, <3>2, <3>3 DEF KeptInv
  <2>6. CASE Start
    BY <2>6, StartEffect DEF Start, KeptInv
  <2>7. CASE Quit
    BY <2>7 DEF Quit, KeptInv, Kept
  <2>8. CASE Tick
    <3>1. /\ now \in Int /\ Interval \in Int /\ now' = now + 1 /\ UNCHANGED <<rows, disk>>
      BY <2>8, TimeAssumption, SMT DEF Tick, TypeInv, TypeOK
    <3>2. ASSUME NEW r \in Row \cup {Absent}, Kept(r, now) PROVE Kept(r, now')
      <4>1. CASE r \in Row
        <5>1. r.next \in Int
          BY <4>1, RowFields, TimesAreInt
        <5>2. r.next <= now + Interval => r.next <= now' + Interval
          BY <3>1, <5>1, SMT
        <5>. QED
          BY <3>2, <5>2 DEF Kept
      <4>2. CASE r = Absent
        BY <4>2 DEF Kept
      <4>. QED
        BY <4>1, <4>2
    <3>. QED
      BY <3>1, <3>2 DEF KeptInv, TypeInv, TypeOK
  <2>9. CASE UNCHANGED vars
    BY <2>9 DEF vars, KeptInv
  <2>. QED
    BY <2>1, <2>2, <2>3, <2>4, <2>5, <2>6, <2>7, <2>8, <2>9 DEF Next, Loop
<1>. QED
  BY <1>1, <1>2, TypeInvariant, PTL DEF Spec

\* No occurrence of an enabled interval schedule is left out: its next one is
\* never more than a period away, after a late firing, an edit or a restart.
THEOREM IntervalsAreKept == Spec => []IntervalKept
<1>1. KeptInv => IntervalKept
  BY DEF KeptInv, Kept, IntervalKept, Exists
<1>. QED
  BY <1>1, KeptInvariant, PTL

-----------------------------------------------------------------------------
(* The invariant as the run checks it.                                       *)

\* What is fired is fired once, in order, and never caught up.
THEOREM OccurrencesAreSound == Spec => []OccurrencesSound
<1>. QED
  BY TypeCorrect, FiredOnce, NothingCaughtUp, PTL DEF OccurrencesSound

=============================================================================
