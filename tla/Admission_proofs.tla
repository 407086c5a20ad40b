-------------------------- MODULE Admission_proofs --------------------------
(***************************************************************************)
(* Machine-checked safety of Admission for every number of tasks, slots    *)
(* and queue places, with and without thread and storage faults.           *)
(***************************************************************************)
EXTENDS Admission, FiniteSetTheorems, SequenceTheorems, TLAPS

Outcomes ==
  [state : [Tasks -> TaskState \cup {Absent}],
   worker : [Tasks -> {"none", "initial", "resuming", "turn", "unwind", "release", "exit"}],
   active : SUBSET Tasks,
   queue : Seq(Tasks),
   overdue : Nat,
   raised : BOOLEAN]

LEMMA LaunchedType ==
  ASSUME TypeOK, NEW act \in SUBSET Tasks, NEW n \in Nat, NEW lost \in {0, 1},
         overdue + n + lost <= Len(queue), NEW end \in {"CREATED", "FAILED"}
  PROVE  /\ Launched(act, n, lost, end) \in Outcomes
         /\ Launched(act, n, lost, end).overdue = 0
         /\ Launched(act, n, lost, end).queue
              = SubSeq(queue, overdue + n + lost + 1, Len(queue))
  <1>1. /\ overdue \in Nat /\ queue \in Seq(Tasks) /\ overdue <= Len(queue)
    BY DEF TypeOK
  <1>2. \A i \in 1 .. Len(queue) : queue[i] \in Tasks
    BY <1>1
  <1>3. \A m, k \in Nat : m >= 1 /\ k <= Len(queue) => Entries(m, k) \subseteq Tasks
    BY <1>2 DEF Entries
  <1>4. SubSeq(queue, overdue + n + lost + 1, Len(queue)) \in Seq(Tasks)
    BY <1>1, <1>2
  <1>5. Entries(overdue + 1, overdue + n) \subseteq Tasks
    BY <1>1, <1>3
  <1> QED
    BY <1>1, <1>4, <1>5 DEF Launched, Outcomes, TypeOK, TaskState

LEMMA FitBounds ==
  ASSUME TypeOK, NEW act \in SUBSET Tasks
  PROVE  /\ IsFiniteSet(act) /\ Cardinality(act) \in Nat
         /\ Fit(act) \in 0 .. Len(queue) - overdue
         /\ Cardinality(act) <= MaxActive => Cardinality(act) + Fit(act) <= MaxActive
         /\ Cardinality(act) > MaxActive => Fit(act) = 0
  <1>1. IsFiniteSet(act) /\ Cardinality(act) \in Nat
    BY TasksAssumption, FS_Subset, FS_CardinalityType
  <1>2. overdue \in Nat /\ Len(queue) \in Nat /\ overdue <= Len(queue)
    BY DEF TypeOK
  <1> QED
    BY <1>1, <1>2, BoundsAssumption DEF Fit

\* The entries m .. n of the queue are at most as many as the positions.
LEMMA EntriesCount ==
  ASSUME TypeOK, NEW m \in Nat, NEW n \in Nat
  PROVE  /\ IsFiniteSet(Entries(m + 1, m + n))
         /\ Cardinality(Entries(m + 1, m + n)) <= n
  <1> DEFINE positions == m + 1 .. m + n
             f == [i \in positions |-> queue[i]]
  <1>1. IsFiniteSet(positions) /\ Cardinality(positions) = n
    BY FS_Interval
  <1>2. f \in Surjection(positions, Entries(m + 1, m + n))
    BY DEF Surjection, Entries
  <1> QED
    BY <1>1, <1>2, FS_Surjection

\* What every outcome of _dispatch_locked has in common: it is well typed; it
\* consumes a prefix of the queue and changes the tasks of that prefix only;
\* what it launches becomes active; it never launches beyond MaxActive.
DispatchEffect(act, d) ==
  /\ d \in Outcomes
  /\ d.overdue <= Len(d.queue)
  /\ act \subseteq d.active
  /\ Cardinality(act) <= MaxActive => Cardinality(d.active) <= MaxActive
  /\ \E m \in 0 .. Len(queue) :
       /\ d.queue = SubSeq(queue, m + 1, Len(queue))
       /\ \A i \in 1 .. m : d.state[queue[i]] \in {"CANCELLED", "CREATED", "FAILED"}
       /\ \A t \in Tasks : \/ d.state[t] = state[t] /\ d.worker[t] = worker[t]
                           \/ /\ t \in Entries(1, m)
                              /\ d.state[t] \in {"CANCELLED", "CREATED", "FAILED"}
                              /\ d.worker[t] \in {worker[t], "initial"}
  /\ \A t \in Tasks : \/ d.worker[t] = worker[t]
                      \/ d.worker[t] = "initial" /\ t \in d.active
  /\ \A t \in d.active \ act : d.worker[t] = "initial"

LEMMA LaunchedEffect ==
  ASSUME TypeOK, NEW act \in SUBSET Tasks, NEW n \in Nat, NEW lost \in {0, 1},
         n + lost <= Fit(act), NEW end \in {"CREATED", "FAILED"}
  PROVE  DispatchEffect(act, Launched(act, n, lost, end))
  <1> DEFINE d == Launched(act, n, lost, end)
             started == Entries(overdue + 1, overdue + n)
             m == overdue + n + lost
  <1>1. /\ overdue \in Nat /\ queue \in Seq(Tasks) /\ Len(queue) \in Nat
        /\ m \in 0 .. Len(queue)
    BY FitBounds DEF TypeOK
  <1>a. /\ lost \in Nat /\ overdue + n + lost <= Len(queue)
        /\ overdue + n \in Nat /\ overdue + n <= m
    BY <1>1
  <1>2. /\ d \in Outcomes /\ d.overdue = 0
        /\ d.queue = SubSeq(queue, m + 1, Len(queue))
    <2>1. /\ Launched(act, n, lost, end) \in Outcomes
          /\ Launched(act, n, lost, end).overdue = 0
          /\ Launched(act, n, lost, end).queue
               = SubSeq(queue, overdue + n + lost + 1, Len(queue))
      BY <1>a, LaunchedType
    <2> QED
      BY <2>1
  <1>3. d.active = act \cup started
    BY DEF Launched
  <1>4. d.overdue <= Len(d.queue)
    <2>1. d.queue \in Seq(Tasks)
      BY <1>2 DEF Outcomes
    <2>2. Len(d.queue) \in Nat
      BY <2>1
    <2>3. d.overdue = 0
      BY <1>2
    <2> HIDE DEF d
    <2> QED
      BY <2>2, <2>3
  <1>5. Cardinality(act) <= MaxActive => Cardinality(d.active) <= MaxActive
    <2>1. IsFiniteSet(started) /\ Cardinality(started) <= n /\ Cardinality(started) \in Nat
      BY <1>1, EntriesCount, FS_CardinalityType
    <2>2. IsFiniteSet(act) /\ Cardinality(act) \in Nat
      BY FitBounds
    <2>3. /\ Cardinality(act \cup started)
               = Cardinality(act) + Cardinality(started) - Cardinality(act \cap started)
          /\ Cardinality(act \cap started) \in Nat
      BY <2>1, <2>2, FS_Union, FS_Intersection, FS_CardinalityType
    <2> QED
      BY <1>3, <2>1, <2>2, <2>3, FitBounds, BoundsAssumption
  <1>6. \A i \in 1 .. m : queue[i] \in Tasks
    BY <1>1
  <1>7. Entries(1, m) = Entries(1, overdue) \cup started
                          \cup Entries(overdue + n + 1, overdue + n + lost)
    <2>1. \A i \in Int : i \in 1 .. m <=> \/ i \in 1 .. overdue
                                          \/ i \in overdue + 1 .. overdue + n
                                          \/ i \in overdue + n + 1 .. overdue + n + lost
      BY <1>1, <1>a
    <2> QED
      BY <2>1 DEF Entries
  <1>8. \A t \in Tasks :
          /\ d.state[t] = IF t \in Entries(1, overdue) THEN "CANCELLED"
                          ELSE IF t \in started THEN "CREATED"
                          ELSE IF t \in Entries(overdue + n + 1, overdue + n + lost) THEN end
                          ELSE state[t]
          /\ d.worker[t] = IF t \in started THEN "initial" ELSE worker[t]
    BY DEF Launched
  <1>9. \A i \in 1 .. m : queue[i] \in Entries(1, m)
    BY DEF Entries
  <1>10. \A i \in 1 .. m : d.state[queue[i]] \in {"CANCELLED", "CREATED", "FAILED"}
    BY <1>6, <1>7, <1>8, <1>9
  <1>11. \A t \in Tasks : \/ d.state[t] = state[t] /\ d.worker[t] = worker[t]
                          \/ /\ t \in Entries(1, m)
                             /\ d.state[t] \in {"CANCELLED", "CREATED", "FAILED"}
                             /\ d.worker[t] \in {worker[t], "initial"}
    BY <1>7, <1>8
  <1>12. \A t \in Tasks : \/ d.worker[t] = worker[t]
                          \/ d.worker[t] = "initial" /\ t \in d.active
    BY <1>3, <1>8
  <1>13. act \subseteq d.active /\ \A t \in d.active \ act : d.worker[t] = "initial"
    <2>1. started \subseteq Tasks
      BY <1>1, <1>6, <1>7, <1>a DEF Entries
    <2> QED
      BY <1>3, <1>8, <2>1
  <1> HIDE DEF d, m
  <1>14. \E k \in 0 .. Len(queue) :
           /\ d.queue = SubSeq(queue, k + 1, Len(queue))
           /\ \A i \in 1 .. k : d.state[queue[i]] \in {"CANCELLED", "CREATED", "FAILED"}
           /\ \A t \in Tasks : \/ d.state[t] = state[t] /\ d.worker[t] = worker[t]
                               \/ /\ t \in Entries(1, k)
                                  /\ d.state[t] \in {"CANCELLED", "CREATED", "FAILED"}
                                  /\ d.worker[t] \in {worker[t], "initial"}
    BY <1>1, <1>2, <1>10, <1>11
  <1>15. DispatchEffect(act, d)
    BY <1>2, <1>4, <1>5, <1>12, <1>13, <1>14 DEF DispatchEffect
  <1> QED
    BY <1>15 DEF d

LEMMA ExpiryEffect ==
  ASSUME TypeOK, NEW act \in SUBSET Tasks, NEW n \in 1 .. overdue
  PROVE  DispatchEffect(act, ExpiryFailed(act, n))
  <1> DEFINE d == ExpiryFailed(act, n)
  <1>1. /\ overdue \in Nat /\ queue \in Seq(Tasks) /\ Len(queue) \in Nat
        /\ n \in 0 .. Len(queue) /\ n <= overdue /\ overdue <= Len(queue)
    BY DEF TypeOK
  <1>2. /\ SubSeq(queue, n + 1, Len(queue)) \in Seq(Tasks)
        /\ Len(SubSeq(queue, n + 1, Len(queue))) = Len(queue) - n
    BY <1>1
  <1>3. /\ d.state = [t \in Tasks |-> IF t \in Entries(1, n) THEN "CANCELLED" ELSE state[t]]
        /\ d.worker = worker /\ d.active = act /\ d.overdue = overdue - n
        /\ d.queue = SubSeq(queue, n + 1, Len(queue))
    BY DEF ExpiryFailed
  <1>4. d \in Outcomes
    <2>1. [t \in Tasks |-> IF t \in Entries(1, n) THEN "CANCELLED" ELSE state[t]]
            \in [Tasks -> TaskState \cup {Absent}]
      BY DEF TypeOK, TaskState
    <2>2. overdue - n \in Nat
      BY <1>1
    <2> QED
      BY <1>2, <2>1, <2>2 DEF ExpiryFailed, Outcomes, TypeOK
  <1>5. d.overdue <= Len(d.queue)
    BY <1>1, <1>2, <1>3
  <1>6. \A i \in 1 .. n : queue[i] \in Tasks /\ queue[i] \in Entries(1, n)
    BY <1>1 DEF Entries
  <1> HIDE DEF d
  <1>7. DispatchEffect(act, d)
    BY <1>1, <1>3, <1>4, <1>5, <1>6 DEF DispatchEffect
  <1> QED
    BY <1>7 DEF d

LEMMA NoDispatchEffect ==
  ASSUME TypeOK, NEW act \in SUBSET Tasks
  PROVE  DispatchEffect(act, NoDispatch(act))
  <1> DEFINE d == NoDispatch(act)
  <1>1. /\ d.state = state /\ d.worker = worker /\ d.active = act
        /\ d.overdue = overdue /\ d.queue = queue
    BY DEF NoDispatch
  <1>2. d \in Outcomes
    BY DEF NoDispatch, Outcomes, TypeOK
  <1>3. /\ queue \in Seq(Tasks) /\ Len(queue) \in Nat /\ overdue <= Len(queue)
        /\ queue = SubSeq(queue, 1, Len(queue))
    BY DEF TypeOK
  <1> HIDE DEF d
  <1>4. \E m \in 0 .. Len(queue) :
          /\ d.queue = SubSeq(queue, m + 1, Len(queue))
          /\ \A i \in 1 .. m : d.state[queue[i]] \in {"CANCELLED", "CREATED", "FAILED"}
          /\ \A t \in Tasks : \/ d.state[t] = state[t] /\ d.worker[t] = worker[t]
                              \/ /\ t \in Entries(1, m)
                                 /\ d.state[t] \in {"CANCELLED", "CREATED", "FAILED"}
                                 /\ d.worker[t] \in {worker[t], "initial"}
    <2>1. 0 \in 0 .. Len(queue) /\ 0 + 1 = 1 /\ \A i \in Int : i \notin 1 .. 0
      BY <1>3
    <2> QED
      BY <1>1, <1>3, <2>1
  <1>5. DispatchEffect(act, d)
    BY <1>1, <1>2, <1>3, <1>4 DEF DispatchEffect
  <1> QED
    BY <1>5 DEF d

LEMMA DispatchLemma ==
  ASSUME TypeOK, NEW act \in SUBSET Tasks, NEW d \in Dispatch(act)
  PROVE  DispatchEffect(act, d)
  <1>1. CASE d = NoDispatch(act)
    BY <1>1, NoDispatchEffect
  <1>2. CASE d = Launched(act, Fit(act), 0, "CREATED")
    <2>1. Fit(act) \in Nat /\ Fit(act) + 0 <= Fit(act)
      BY FitBounds
    <2> QED
      BY <1>2, <2>1, LaunchedEffect
  <1>3. CASE \E n \in 0 .. Fit(act) - 1, end \in LaunchFailures :
               d = Launched(act, n, 1, end)
    <2>1. PICK n \in 0 .. Fit(act) - 1, end \in LaunchFailures : d = Launched(act, n, 1, end)
      BY <1>3
    <2>2. n \in Nat /\ n + 1 <= Fit(act)
      BY FitBounds
    <2>3. end \in {"CREATED", "FAILED"}
      BY DEF LaunchFailures
    <2> QED
      BY <2>1, <2>2, <2>3, LaunchedEffect
  <1>4. CASE \E n \in 1 .. overdue : d = ExpiryFailed(act, n)
    BY <1>4, ExpiryEffect
  <1> QED
    BY <1>1, <1>2, <1>3, <1>4 DEF Dispatch

-----------------------------------------------------------------------------
(* Type correctness *)

\* A dispatch outcome that the caller then completes for one task.
LEMMA DispatchTyped ==
  ASSUME TypeOK, NEW act \in SUBSET Tasks, NEW d \in Dispatch(act)
  PROVE  /\ d.state \in [Tasks -> TaskState \cup {Absent}]
         /\ d.worker \in [Tasks -> {"none", "initial", "resuming", "turn",
                                    "unwind", "release", "exit"}]
         /\ d.active \in SUBSET Tasks
         /\ d.queue \in Seq(Tasks)
         /\ d.overdue \in 0 .. Len(d.queue)
  <1>1. d \in Outcomes /\ d.overdue <= Len(d.queue)
    BY DispatchLemma DEF DispatchEffect
  <1> QED
    BY <1>1 DEF Outcomes

\* What create_task leaves behind: the outcome of its dispatch, and the new task
\* parked, admitted, or lost to a fault.
CreateOutcome(t, k, a, d) ==
  /\ DispatchEffect(active, d)
  /\ ~d.raised
  /\ ScheduleAccepted(d, k)
  /\ AgentAccepted(d, a)
  /\ overdue' = d.overdue
  /\ \E end \in {"CREATED", "QUEUED", "FAILED"} :
       /\ state' = [d.state EXCEPT ![t] = end]
       /\ \/ /\ end = "QUEUED" /\ Full(d) /\ Len(d.queue) < MaxQueued
             /\ queue' = Append(d.queue, t)
             /\ worker' = d.worker /\ active' = d.active
          \/ /\ end # "QUEUED" /\ end \in LaunchFailures
             /\ queue' = d.queue
             /\ worker' = d.worker /\ active' = d.active
          \/ /\ end = "CREATED" /\ ~Full(d)
             /\ queue' = d.queue
             /\ worker' = [d.worker EXCEPT ![t] = "initial"]
             /\ active' = d.active \cup {t}

LEMMA CreateTaskFields ==
  ASSUME TypeOK, NEW t \in Tasks, NEW k \in Kinds, NEW a \in Agents, CreateTask(t, k, a)
  PROVE  \E d \in Dispatch(active) : CreateOutcome(t, k, a, d)
  <1>1. PICK d \in Dispatch(active) :
          /\ ~d.raised
          /\ ScheduleAccepted(d, k) /\ AgentAccepted(d, a)
          /\ Full(d) => Len(d.queue) < MaxQueued
          /\ \/ SnapshotFailed(d, t) \/ Enqueued(d, t)
             \/ Admitted(d, t) \/ LaunchFailed(d, t)
    BY DEF CreateTask
  <1>2. DispatchEffect(active, d) /\ d \in Outcomes
    <2>1. active \in SUBSET Tasks
      BY DEF TypeOK
    <2>2. DispatchEffect(active, d)
      BY <2>1, DispatchLemma
    <2> QED
      BY <2>2 DEF DispatchEffect
  <1>3. CASE SnapshotFailed(d, t)
    <2>1. /\ StorageFaults
          /\ state' = [d.state EXCEPT ![t] = "CREATED"]
          /\ queue' = d.queue /\ worker' = d.worker
          /\ active' = d.active /\ overdue' = d.overdue
      BY <1>2, <1>3 DEF SnapshotFailed, Becomes, Outcomes
    <2> QED
      BY <1>1, <1>2, <2>1 DEF CreateOutcome, LaunchFailures
  <1>4. CASE Enqueued(d, t)
    <2>1. /\ Full(d)
          /\ state' = [d.state EXCEPT ![t] = "QUEUED"]
          /\ queue' = Append(d.queue, t)
          /\ worker' = d.worker /\ active' = d.active /\ overdue' = d.overdue
      BY <1>2, <1>4 DEF Enqueued, Becomes, Outcomes
    <2> QED
      BY <1>1, <1>2, <2>1 DEF CreateOutcome
  <1>5. CASE Admitted(d, t)
    <2>1. /\ ~Full(d)
          /\ state' = [d.state EXCEPT ![t] = "CREATED"]
          /\ worker' = [d.worker EXCEPT ![t] = "initial"]
          /\ active' = d.active \cup {t}
          /\ queue' = d.queue /\ overdue' = d.overdue
      BY <1>2, <1>5 DEF Admitted, Becomes, Outcomes
    <2> QED
      BY <1>1, <1>2, <2>1 DEF CreateOutcome
  <1>6. CASE LaunchFailed(d, t)
    <2>1. PICK end \in LaunchFailures : Becomes([d EXCEPT !.state[t] = end])
      BY <1>6 DEF LaunchFailed
    <2>2. end \in {"CREATED", "FAILED"} /\ end \in LaunchFailures
      BY DEF LaunchFailures
    <2>3. /\ state' = [d.state EXCEPT ![t] = end]
          /\ queue' = d.queue /\ worker' = d.worker
          /\ active' = d.active /\ overdue' = d.overdue
      BY <1>2, <2>1 DEF Becomes, Outcomes
    <2> QED
      BY <1>1, <1>2, <2>2, <2>3 DEF CreateOutcome
  <1> QED
    BY <1>1, <1>3, <1>4, <1>5, <1>6

LEMMA ReleaseFields ==
  ASSUME TypeOK, NEW t \in Tasks, Release(t)
  PROVE  LET act == IF state[t] \in Terminal THEN active \ {t} ELSE active
         IN  \E d \in Dispatch(act) :
               /\ d \in Outcomes /\ DispatchEffect(act, d)
               /\ state' = d.state /\ worker' = [d.worker EXCEPT ![t] = "exit"]
               /\ active' = d.active /\ queue' = d.queue /\ overdue' = d.overdue
  <1> DEFINE act == IF state[t] \in Terminal THEN active \ {t} ELSE active
  <1>1. act \in SUBSET Tasks
    BY DEF TypeOK
  <1>2. PICK d \in Dispatch(act) : Becomes([d EXCEPT !.worker[t] = "exit"])
    BY DEF Release
  <1>3. DispatchEffect(act, d) /\ d \in Outcomes
    BY <1>1, DispatchLemma DEF DispatchEffect
  <1>4. /\ state' = d.state /\ worker' = [d.worker EXCEPT ![t] = "exit"]
        /\ active' = d.active /\ queue' = d.queue /\ overdue' = d.overdue
    BY <1>2, <1>3 DEF Becomes, Outcomes
  <1> QED
    BY <1>3, <1>4

LEMMA RemoveAtProps ==
  ASSUME NEW S, NEW s \in Seq(S), NEW i \in 1 .. Len(s)
  PROVE  /\ RemoveAt(s, i) \in Seq(S)
         /\ Len(RemoveAt(s, i)) = Len(s) - 1
         /\ \A j \in 1 .. Len(s) - 1 :
              RemoveAt(s, i)[j] = IF j < i THEN s[j] ELSE s[j + 1]
  <1> DEFINE p == SubSeq(s, 1, i - 1)
             q == SubSeq(s, i + 1, Len(s))
  <1>1. i \in Int /\ Len(s) \in Nat /\ i >= 1 /\ i <= Len(s)
    OBVIOUS
  <1>2. p \in Seq(S) /\ Len(p) = i - 1 /\ \A j \in 1 .. i - 1 : p[j] = s[j]
    BY <1>1
  <1>3. /\ q \in Seq(S) /\ Len(q) = Len(s) - i
        /\ \A j \in 1 .. Len(s) - i : q[j] = s[i + j]
    BY <1>1
  <1> HIDE DEF p, q
  <1>4. /\ p \o q \in Seq(S)
        /\ Len(p \o q) = Len(s) - 1
        /\ \A j \in 1 .. Len(s) - 1 : (p \o q)[j] = IF j < i THEN p[j] ELSE q[j - (i - 1)]
    <2>1. /\ p \o q \in Seq(S)
          /\ Len(p \o q) = Len(p) + Len(q)
          /\ \A j \in 1 .. Len(p) + Len(q) :
               (p \o q)[j] = IF j <= Len(p) THEN p[j] ELSE q[j - Len(p)]
      BY <1>2, <1>3, ConcatProperties
    <2>3. Len(p \o q) = Len(s) - 1
      BY <1>1, <1>2, <1>3, <2>1
    <2>5. \A j \in 1 .. Len(s) - 1 : j \in 1 .. Len(p) + Len(q) /\ (j < i <=> j <= Len(p))
      BY <1>1, <1>2, <1>3
    <2> QED
      BY <1>2, <2>1, <2>3, <2>5
  <1>5. \A j \in 1 .. Len(s) - 1 : (p \o q)[j] = IF j < i THEN s[j] ELSE s[j + 1]
    <2> TAKE j \in 1 .. Len(s) - 1
    <2>1. CASE j < i
      BY <1>1, <1>2, <1>4, <2>1
    <2>2. CASE ~(j < i)
      <3>1. j - (i - 1) \in 1 .. Len(s) - i /\ i + (j - (i - 1)) = j + 1
        BY <1>1, <2>2
      <3> QED
        BY <1>3, <1>4, <2>2, <3>1
    <2> QED
      BY <2>1, <2>2
  <1> QED
    BY <1>4, <1>5 DEF RemoveAt, p, q

LEMMA TypeStep == TypeOK /\ [Next]_vars => TypeOK'
  <1> SUFFICES ASSUME TypeOK, [Next]_vars PROVE TypeOK'
    OBVIOUS
  <1> USE DEF TaskState, Terminal
  <1>1. ASSUME NEW t \in Tasks, NEW k \in Kinds, NEW a \in Agents, CreateTask(t, k, a)
        PROVE  TypeOK'
    <2>1. PICK d \in Dispatch(active) : CreateOutcome(t, k, a, d)
      BY <1>1, CreateTaskFields
    <2>2. /\ d.state \in [Tasks -> TaskState \cup {Absent}]
          /\ d.worker \in [Tasks -> {"none", "initial", "resuming", "turn",
                                     "unwind", "release", "exit"}]
          /\ d.active \in SUBSET Tasks /\ d.queue \in Seq(Tasks)
          /\ d.overdue \in 0 .. Len(d.queue)
      BY DispatchTyped DEF TypeOK
    <2>3. Append(d.queue, t) \in Seq(Tasks) /\ d.overdue \in 0 .. Len(Append(d.queue, t))
      BY <2>2
    <2>4. /\ state' \in [Tasks -> TaskState \cup {Absent}]
          /\ worker' \in [Tasks -> {"none", "initial", "resuming", "turn",
                                    "unwind", "release", "exit"}]
          /\ active' \in SUBSET Tasks /\ queue' \in Seq(Tasks)
          /\ overdue' \in 0 .. Len(queue')
      BY <2>1, <2>2, <2>3 DEF CreateOutcome
    <2> QED
      BY <1>1, <2>4 DEF TypeOK, CreateTask
  <1>2. ASSUME RefuseTask PROVE TypeOK'
    <2>1. PICK d \in Dispatch(active) : Becomes(d)
      BY <1>2 DEF RefuseTask
    <2> QED
      BY <1>2, <2>1, DispatchTyped DEF TypeOK, RefuseTask, Becomes
  <1>3. ASSUME QueueWatch PROVE TypeOK'
    <2>1. PICK d \in Dispatch(active) : Becomes(d) /\ watching' = ~d.raised
      BY <1>3 DEF QueueWatch
    <2> QED
      BY <1>3, <2>1, DispatchTyped DEF TypeOK, QueueWatch, Becomes, fixed
  <1>4. ASSUME NEW t \in Tasks, Release(t) PROVE TypeOK'
    <2> DEFINE act == IF state[t] \in Terminal THEN active \ {t} ELSE active
    <2>1. PICK d \in Dispatch(act) :
            /\ state' = d.state /\ worker' = [d.worker EXCEPT ![t] = "exit"]
            /\ active' = d.active /\ queue' = d.queue /\ overdue' = d.overdue
      BY <1>4, ReleaseFields
    <2>2. act \in SUBSET Tasks
      BY DEF TypeOK
    <2>3. /\ d.state \in [Tasks -> TaskState \cup {Absent}]
          /\ d.worker \in [Tasks -> {"none", "initial", "resuming", "turn",
                                     "unwind", "release", "exit"}]
          /\ d.active \in SUBSET Tasks /\ d.queue \in Seq(Tasks)
          /\ d.overdue \in 0 .. Len(d.queue)
      BY <2>2, DispatchTyped
    <2> QED
      BY <1>4, <2>1, <2>3 DEF TypeOK, Release, fixed
  <1>5. ASSUME NEW t \in Tasks, ContinueConversation(t) \/ Stop(t) \/ Resume(t) \/ DeleteTask(t)
        PROVE  TypeOK'
    BY <1>5 DEF TypeOK, ContinueConversation, Stop, Resume, DeleteTask, Step, Kinds, Modes
  <1>6. ASSUME NEW t \in Tasks, CancelQueued(t) PROVE TypeOK'
    <2>1. PICK i \in 1 .. Len(queue) :
            /\ queue[i] = t /\ queue' = RemoveAt(queue, i)
            /\ overdue' = IF i <= overdue THEN overdue - 1 ELSE overdue
      BY <1>6 DEF CancelQueued
    <2>2. queue \in Seq(Tasks) /\ overdue \in 0 .. Len(queue)
      BY DEF TypeOK
    <2>3. queue' \in Seq(Tasks) /\ Len(queue') = Len(queue) - 1
      BY <2>1, <2>2, RemoveAtProps
    <2>4. overdue' \in 0 .. Len(queue')
      BY <2>1, <2>2, <2>3
    <2> QED
      BY <1>6, <2>3, <2>4 DEF TypeOK, CancelQueued, Step
  <1>7. ASSUME NEW t \in Tasks, Work(t) PROVE TypeOK'
    BY <1>7 DEF TypeOK, Work, BuildRuntime, EnterTurn, SafeStop, Publish, FailTurn,
                TargetRaises, Step, slots, Kinds, Modes
  <1>8. ASSUME NEW t \in Tasks,
               TargetReturns(t) \/ Cleanup(t) \/ CleanupRaises(t) \/ ThreadEnds(t)
        PROVE  TypeOK'
    BY <1>8 DEF TypeOK, TargetReturns, Cleanup, CleanupRaises, ThreadEnds, Cleaned, slots
  <1>9. ASSUME Tick PROVE TypeOK'
    BY <1>9 DEF TypeOK, Tick
  <1>10. ASSUME BeginShutdown PROVE TypeOK'
    BY <1>10 DEF TypeOK, BeginShutdown, slots
  <1>11. ASSUME StopEverything PROVE TypeOK'
    BY <1>11 DEF TypeOK, StopEverything
  <1>12. ASSUME CancelStopped PROVE TypeOK'
    BY <1>12 DEF TypeOK, CancelStopped, Cleaned
  <1>13. ASSUME UNCHANGED vars PROVE TypeOK'
    BY <1>13 DEF TypeOK, vars
  <1> QED
    BY <1>1, <1>2, <1>3, <1>4, <1>5, <1>6, <1>7, <1>8, <1>9, <1>10, <1>11, <1>12, <1>13
    DEF Next, Request, Unwind

\* Every variable of the service keeps its type.
THEOREM TypeCorrect == Spec => []TypeOK
  <1>1. Init => TypeOK
    BY BoundsAssumption DEF Init, TypeOK, TaskState, Kinds, Modes
  <1> QED
    BY <1>1, TypeStep, PTL DEF Spec

-----------------------------------------------------------------------------
(* The slot bound: what occupies the host is in _active_ids, and that set is *)
(* bounded.  Neither half is inductive alone.                                *)

SlotInv ==
  /\ \A t \in Tasks : worker[t] \in Busy \/ state[t] \in Underway => t \in active
  /\ Cardinality(active) <= MaxActive

\* Both halves for the outcome of a dispatch that begins with them.
LEMMA DispatchSlots ==
  ASSUME TypeOK, NEW act \in SUBSET Tasks, Cardinality(act) <= MaxActive,
         NEW d \in Dispatch(act), NEW T \in SUBSET Tasks,
         \A u \in T : worker[u] \in Busy \/ state[u] \in Underway => u \in act
  PROVE  /\ Cardinality(d.active) <= MaxActive
         /\ \A u \in T : d.worker[u] \in Busy \/ d.state[u] \in Underway => u \in d.active
  <1>1. DispatchEffect(act, d)
    BY DispatchLemma
  <1> QED
    BY <1>1 DEF DispatchEffect, Busy, Underway

LEMMA SlotStep == TypeOK /\ SlotInv /\ [Next]_vars => SlotInv'
  <1> SUFFICES ASSUME TypeOK, SlotInv, [Next]_vars PROVE SlotInv'
    OBVIOUS
  <1>a. IsFiniteSet(active) /\ Cardinality(active) <= MaxActive /\ active \in SUBSET Tasks
    BY TasksAssumption, FS_Subset DEF TypeOK, SlotInv
  <1>b. \A S \in SUBSET active : Cardinality(S) <= MaxActive
    <2> TAKE S \in SUBSET active
    <2>1. IsFiniteSet(S) /\ Cardinality(S) <= Cardinality(active)
          /\ Cardinality(S) \in Nat /\ Cardinality(active) \in Nat
      BY <1>a, FS_Subset, FS_CardinalityType
    <2> QED
      BY <1>a, <2>1, BoundsAssumption
  <1>1. ASSUME NEW t \in Tasks, NEW k \in Kinds, NEW a \in Agents, CreateTask(t, k, a)
        PROVE  SlotInv'
    <2>1. PICK d \in Dispatch(active) : CreateOutcome(t, k, a, d)
      BY <1>1, CreateTaskFields
    <2>2. /\ Cardinality(d.active) <= MaxActive
          /\ \A u \in Tasks : d.worker[u] \in Busy \/ d.state[u] \in Underway => u \in d.active
      BY <1>a, DispatchSlots DEF SlotInv
    <2>3. d \in Outcomes
      BY <2>1 DEF CreateOutcome, DispatchEffect
    <2>4. CASE active' = d.active /\ worker' = d.worker
      BY <2>1, <2>2, <2>3, <2>4 DEF CreateOutcome, SlotInv, Busy, Underway, Outcomes
    <2>5. CASE /\ active' = d.active \cup {t} /\ ~Full(d)
               /\ worker' = [d.worker EXCEPT ![t] = "initial"]
      <3>1. IsFiniteSet(d.active) /\ Cardinality(d.active) \in Nat
        BY <2>3, TasksAssumption, FS_Subset, FS_CardinalityType DEF Outcomes
      <3>2. Cardinality(d.active \cup {t})
              = IF t \in d.active THEN Cardinality(d.active) ELSE Cardinality(d.active) + 1
        BY <3>1, FS_AddElement
      <3>3. Cardinality(active') <= MaxActive
        BY <2>5, <3>1, <3>2, BoundsAssumption DEF Full
      <3> QED
        BY <2>1, <2>2, <2>3, <2>5, <3>3 DEF CreateOutcome, SlotInv, Busy, Underway, Outcomes
    <2> QED
      BY <2>1, <2>4, <2>5 DEF CreateOutcome
  <1>2. ASSUME RefuseTask \/ QueueWatch PROVE SlotInv'
    <2>1. PICK d \in Dispatch(active) : Becomes(d)
      BY <1>2 DEF RefuseTask, QueueWatch
    <2>2. /\ Cardinality(d.active) <= MaxActive
          /\ \A u \in Tasks : d.worker[u] \in Busy \/ d.state[u] \in Underway => u \in d.active
      BY <1>a, DispatchSlots DEF SlotInv
    <2> QED
      BY <2>1, <2>2 DEF SlotInv, Becomes
  <1>3. ASSUME NEW t \in Tasks, Release(t) PROVE SlotInv'
    <2> DEFINE act == IF state[t] \in Terminal THEN active \ {t} ELSE active
    <2>1. PICK d \in Dispatch(act) :
            /\ d \in Outcomes /\ DispatchEffect(act, d)
            /\ state' = d.state /\ worker' = [d.worker EXCEPT ![t] = "exit"]
            /\ active' = d.active
      BY <1>3, ReleaseFields
    <2>2. act \in SUBSET Tasks /\ Cardinality(act) <= MaxActive
      BY <1>a, <1>b
    <2>3. Cardinality(d.active) <= MaxActive
      BY <2>1, <2>2 DEF DispatchEffect
    <2> DEFINE others == Tasks \ {t}
    <2>a. /\ others \in SUBSET Tasks
          /\ \A u \in others : worker[u] \in Busy \/ state[u] \in Underway => u \in act
      BY DEF SlotInv
    <2> HIDE DEF others, act
    <2>b. \A u \in others : d.worker[u] \in Busy \/ d.state[u] \in Underway => u \in d.active
      BY <2>1, <2>2, <2>a, DispatchSlots
    <2>4. \A u \in Tasks \ {t} :
            d.worker[u] \in Busy \/ d.state[u] \in Underway => u \in d.active
      BY <2>b DEF others
    <2>5. d.state[t] \in Underway => t \in d.active
      BY <2>1 DEF DispatchEffect, SlotInv, Underway, Terminal, act
    <2> QED
      BY <2>1, <2>3, <2>4, <2>5 DEF SlotInv, Outcomes, Busy
  <1>4. ASSUME NEW t \in Tasks,
               ContinueConversation(t) \/ Stop(t) \/ Resume(t) \/ CancelQueued(t)
        PROVE  SlotInv'
    BY <1>4 DEF SlotInv, TypeOK, Busy, Underway, ContinueConversation, Stop, Resume,
                CancelQueued, Step
  <1>5. ASSUME NEW t \in Tasks, DeleteTask(t) PROVE SlotInv'
    <2>1. Cardinality(active') <= MaxActive
      BY <1>b, <1>5 DEF DeleteTask
    <2> QED
      BY <1>5, <2>1 DEF SlotInv, TypeOK, Busy, Underway, DeleteTask, Absent
  <1>6. ASSUME NEW t \in Tasks, Work(t) PROVE SlotInv'
    BY <1>6 DEF SlotInv, TypeOK, Busy, Underway, InTarget, Terminal, Work, BuildRuntime,
                EnterTurn, SafeStop, Publish, FailTurn, TargetRaises, Step, slots
  <1>7. ASSUME NEW t \in Tasks,
               TargetReturns(t) \/ Cleanup(t) \/ CleanupRaises(t) \/ ThreadEnds(t)
        PROVE  SlotInv'
    BY <1>7 DEF SlotInv, TypeOK, Busy, TargetReturns, Cleanup, CleanupRaises, ThreadEnds, slots
  <1>8. ASSUME Tick \/ BeginShutdown \/ UNCHANGED vars PROVE SlotInv'
    BY <1>8 DEF SlotInv, Tick, BeginShutdown, slots, vars
  <1>9. ASSUME StopEverything PROVE SlotInv'
    BY <1>9 DEF SlotInv, TypeOK, Underway, StopEverything
  <1>10. ASSUME CancelStopped PROVE SlotInv'
    <2>1. Cardinality(active') <= MaxActive
      BY <1>b, <1>10 DEF CancelStopped
    <2> QED
      BY <1>10, <2>1 DEF SlotInv, TypeOK, Busy, Underway, CancelStopped
  <1> QED
    BY <1>1, <1>2, <1>3, <1>4, <1>5, <1>6, <1>7, <1>8, <1>9, <1>10 DEF Next, Request, Unwind

\* However many requests, faults and shutdowns interleave, no more than
\* max_active_tasks tasks occupy the host.
THEOREM SlotBounded == Spec => []SlotBound
  <1>1. Init => SlotInv
    <2>1. Cardinality({}) = 0
      BY FS_EmptySet
    <2> QED
      BY <2>1, BoundsAssumption DEF Init, SlotInv, Busy, Underway, Absent
  <1>2. TypeOK /\ SlotInv => SlotBound
    <2> SUFFICES ASSUME TypeOK, SlotInv PROVE SlotBound
      OBVIOUS
    <2>1. Occupying \subseteq active /\ IsFiniteSet(active)
      BY TasksAssumption, FS_Subset DEF Occupying, SlotInv, TypeOK
    <2>2. Cardinality(Occupying) <= Cardinality(active)
          /\ Cardinality(Occupying) \in Nat /\ Cardinality(active) \in Nat
      BY <2>1, FS_Subset, FS_CardinalityType
    <2> QED
      BY <2>2, BoundsAssumption DEF SlotBound, SlotInv
  <1> QED
    BY <1>1, <1>2, SlotStep, TypeCorrect, PTL DEF Spec

-----------------------------------------------------------------------------
(* The queue is exact.  An entry may be expired, launched, lost, cancelled or *)
(* swept by shutdown; that each of these moves state and entry together needs *)
(* that no entry is there twice and that only entries are QUEUED.             *)

QueueOf(st, q) ==
  /\ \A i \in 1 .. Len(q) : st[q[i]] = "QUEUED"
  /\ \A i, j \in 1 .. Len(q) : q[i] = q[j] => i = j
  /\ \A t \in Tasks : st[t] = "QUEUED" => \E i \in 1 .. Len(q) : q[i] = t

QueueInv == QueueOf(state, queue) /\ Len(queue) <= MaxQueued

\* A dispatch consumes queue entries only, and leaves the rest exact.
LEMMA DispatchQueue ==
  ASSUME TypeOK, QueueInv, NEW act \in SUBSET Tasks, NEW d \in Dispatch(act)
  PROVE  /\ QueueOf(d.state, d.queue)
         /\ Len(d.queue) <= MaxQueued
         /\ \A t \in Tasks : \/ d.state[t] = state[t] /\ d.worker[t] = worker[t]
                             \/ /\ state[t] = "QUEUED"
                                /\ d.state[t] \in {"CANCELLED", "CREATED", "FAILED"}
                                /\ d.worker[t] \in {worker[t], "initial"}
  <1>1. DispatchEffect(act, d) /\ d \in Outcomes
    BY DispatchLemma DEF DispatchEffect
  <1>2. PICK m \in 0 .. Len(queue) :
          /\ d.queue = SubSeq(queue, m + 1, Len(queue))
          /\ \A i \in 1 .. m : d.state[queue[i]] \in {"CANCELLED", "CREATED", "FAILED"}
          /\ \A t \in Tasks : \/ d.state[t] = state[t] /\ d.worker[t] = worker[t]
                              \/ /\ t \in Entries(1, m)
                                 /\ d.state[t] \in {"CANCELLED", "CREATED", "FAILED"}
                                 /\ d.worker[t] \in {worker[t], "initial"}
    BY <1>1 DEF DispatchEffect
  <1>3. /\ queue \in Seq(Tasks) /\ Len(queue) \in Nat /\ m \in Nat /\ m <= Len(queue)
        /\ \A i \in 1 .. Len(queue) : queue[i] \in Tasks
    BY DEF TypeOK
  <1>4. \A t \in Entries(1, m) : \E i \in 1 .. m : queue[i] = t
    BY DEF Entries
  <1>5. \A t \in Entries(1, m) : state[t] = "QUEUED"
    BY <1>3, <1>4 DEF QueueInv, QueueOf
  <1>6. /\ Len(d.queue) = Len(queue) - m
        /\ \A i \in 1 .. Len(queue) - m : d.queue[i] = queue[m + i]
    BY <1>2, <1>3
  <1>7. \A i \in m + 1 .. Len(queue) : queue[i] \notin Entries(1, m)
    BY <1>3, <1>4 DEF QueueInv, QueueOf
  <1>8. \A i \in 1 .. Len(d.queue) : d.state[d.queue[i]] = "QUEUED"
    <2> TAKE i \in 1 .. Len(d.queue)
    <2>1. m + i \in m + 1 .. Len(queue) /\ m + i \in 1 .. Len(queue)
      BY <1>3, <1>6
    <2>2. d.queue[i] = queue[m + i] /\ queue[m + i] \in Tasks
      BY <1>3, <1>6, <2>1
    <2>3. d.state[queue[m + i]] = state[queue[m + i]]
      BY <1>2, <1>7, <2>1, <2>2
    <2> QED
      BY <2>1, <2>2, <2>3 DEF QueueInv, QueueOf
  <1>9. \A i, j \in 1 .. Len(d.queue) : d.queue[i] = d.queue[j] => i = j
    <2> TAKE i, j \in 1 .. Len(d.queue)
    <2> HAVE d.queue[i] = d.queue[j]
    <2>1. m + i \in 1 .. Len(queue) /\ m + j \in 1 .. Len(queue)
      BY <1>3, <1>6
    <2>2. queue[m + i] = queue[m + j]
      BY <1>6
    <2>3. m + i = m + j
      BY <2>1, <2>2 DEF QueueInv, QueueOf
    <2> QED
      BY <1>3, <2>3
  <1>10. \A t \in Tasks : d.state[t] = "QUEUED" => \E i \in 1 .. Len(d.queue) : d.queue[i] = t
    <2> SUFFICES ASSUME NEW t \in Tasks, d.state[t] = "QUEUED"
                 PROVE  \E i \in 1 .. Len(d.queue) : d.queue[i] = t
      OBVIOUS
    <2>1. state[t] = "QUEUED"
      BY <1>2
    <2>2. PICK j \in 1 .. Len(queue) : queue[j] = t
      BY <2>1 DEF QueueInv, QueueOf
    <2>3. j \notin 1 .. m
      BY <1>2, <2>2
    <2>4. j - m \in 1 .. Len(d.queue) /\ m + (j - m) = j
      BY <1>3, <1>6, <2>2, <2>3
    <2>5. d.queue[j - m] = t
      BY <1>6, <2>2, <2>4
    <2> QED
      BY <2>4, <2>5
  <1>11. MaxQueued \in Nat /\ Len(queue) <= MaxQueued
    BY BoundsAssumption DEF QueueInv
  <1>12. Len(d.queue) <= MaxQueued
    BY <1>3, <1>6, <1>11
  <1> QED
    BY <1>2, <1>5, <1>8, <1>9, <1>10, <1>12 DEF QueueOf

\* A task without a handle and a waiting one have no thread and no runtime; a
\* runtime that is not closed belongs to a task that still has work to do; a
\* handle has an agent.
WorkerInv ==
  \A t \in Tasks :
    /\ state[t] \in {Absent, "QUEUED"} => worker[t] = "none" /\ runtime[t] = "none"
    /\ runtime[t] = "built" => \/ Live(state[t])
                               \/ worker[t] \in {"initial", "resuming", "turn", "unwind"}
    /\ state[t] # Absent => agent[t] \in Agents

LEMMA QueueStep == TypeOK /\ QueueInv /\ WorkerInv /\ [Next]_vars => QueueInv'
  <1> SUFFICES ASSUME TypeOK, QueueInv, WorkerInv, [Next]_vars PROVE QueueInv'
    OBVIOUS
  <1>a. /\ queue \in Seq(Tasks) /\ Len(queue) \in Nat
        /\ \A i \in 1 .. Len(queue) : queue[i] \in Tasks
    BY DEF TypeOK
  <1>b. ASSUME queue' = queue, state' \in [Tasks -> TaskState \cup {Absent}],
               \A t \in Tasks : state'[t] = "QUEUED" <=> state[t] = "QUEUED"
        PROVE  QueueInv'
    BY <1>a, <1>b DEF QueueInv, QueueOf
  <1>1. ASSUME NEW t \in Tasks, NEW k \in Kinds, NEW a \in Agents, CreateTask(t, k, a)
        PROVE  QueueInv'
    <2>1. PICK d \in Dispatch(active) : CreateOutcome(t, k, a, d)
      BY <1>1, CreateTaskFields
    <2>2. /\ QueueOf(d.state, d.queue) /\ Len(d.queue) <= MaxQueued
          /\ d.state[t] = Absent
      BY <1>1, DispatchQueue DEF TypeOK, CreateTask, Absent
    <2>3. /\ d.state \in [Tasks -> TaskState \cup {Absent}]
          /\ d.queue \in Seq(Tasks) /\ Len(d.queue) \in Nat
          /\ \A i \in 1 .. Len(d.queue) : d.queue[i] \in Tasks
      BY DispatchTyped DEF TypeOK
    <2>4. \A i \in 1 .. Len(d.queue) : d.queue[i] # t
      BY <2>2 DEF QueueOf, Absent
    <2>5. CASE queue' = d.queue /\ \E end \in {"CREATED", "FAILED"} :
                                     state' = [d.state EXCEPT ![t] = end]
      BY <2>2, <2>3, <2>4, <2>5 DEF QueueInv, QueueOf, Absent
    <2>6. CASE /\ queue' = Append(d.queue, t) /\ Len(d.queue) < MaxQueued
               /\ state' = [d.state EXCEPT ![t] = "QUEUED"]
      <3>1. /\ Len(queue') = Len(d.queue) + 1
            /\ \A i \in 1 .. Len(d.queue) : queue'[i] = d.queue[i]
            /\ queue'[Len(d.queue) + 1] = t
        BY <2>3, <2>6
      <3>2. \A i \in 1 .. Len(queue') : i \in 1 .. Len(d.queue) \/ i = Len(d.queue) + 1
        BY <2>3, <3>1
      <3>3. \A i \in 1 .. Len(queue') : state'[queue'[i]] = "QUEUED"
        BY <2>2, <2>3, <2>6, <3>1, <3>2 DEF QueueOf
      <3>4. \A i, j \in 1 .. Len(queue') : queue'[i] = queue'[j] => i = j
        <4> TAKE i, j \in 1 .. Len(queue')
        <4> HAVE queue'[i] = queue'[j]
        <4>1. CASE i \in 1 .. Len(d.queue) /\ j \in 1 .. Len(d.queue)
          BY <2>2, <3>1, <4>1 DEF QueueOf
        <4>2. CASE i = Len(d.queue) + 1 /\ j = Len(d.queue) + 1
          BY <4>2
        <4>3. CASE i = Len(d.queue) + 1 /\ j \in 1 .. Len(d.queue)
          BY <2>4, <3>1, <4>3
        <4>4. CASE j = Len(d.queue) + 1 /\ i \in 1 .. Len(d.queue)
          BY <2>4, <3>1, <4>4
        <4> QED
          BY <3>2, <4>1, <4>2, <4>3, <4>4
      <3>5. \A u \in Tasks : state'[u] = "QUEUED" => \E i \in 1 .. Len(queue') : queue'[i] = u
        <4> SUFFICES ASSUME NEW u \in Tasks, state'[u] = "QUEUED"
                     PROVE  \E i \in 1 .. Len(queue') : queue'[i] = u
          OBVIOUS
        <4>1. CASE u = t
          <5>1. Len(d.queue) + 1 \in 1 .. Len(queue')
            BY <2>3, <3>1
          <5> QED
            BY <3>1, <4>1, <5>1
        <4>2. CASE u # t
          <5>1. PICK i \in 1 .. Len(d.queue) : d.queue[i] = u
            BY <2>2, <2>3, <2>6, <4>2 DEF QueueOf
          <5>2. i \in 1 .. Len(queue')
            BY <2>3, <3>1
          <5> QED
            BY <3>1, <5>1, <5>2
        <4> QED
          BY <4>1, <4>2
      <3> QED
        BY <2>3, <2>6, <3>1, <3>3, <3>4, <3>5, BoundsAssumption DEF QueueInv, QueueOf
    <2> QED
      BY <2>1, <2>5, <2>6 DEF CreateOutcome
  <1>2. ASSUME RefuseTask \/ QueueWatch PROVE QueueInv'
    <2>1. PICK d \in Dispatch(active) : Becomes(d)
      BY <1>2 DEF RefuseTask, QueueWatch
    <2>2. QueueOf(d.state, d.queue) /\ Len(d.queue) <= MaxQueued
      BY DispatchQueue DEF TypeOK
    <2> QED
      BY <2>1, <2>2 DEF QueueInv, QueueOf, Becomes
  <1>3. ASSUME NEW t \in Tasks, Release(t) PROVE QueueInv'
    <2> DEFINE act == IF state[t] \in Terminal THEN active \ {t} ELSE active
    <2>1. PICK d \in Dispatch(act) : state' = d.state /\ queue' = d.queue
      BY <1>3, ReleaseFields
    <2>2. act \in SUBSET Tasks
      BY DEF TypeOK
    <2>3. QueueOf(d.state, d.queue) /\ Len(d.queue) <= MaxQueued
      BY <2>2, DispatchQueue
    <2> QED
      BY <2>1, <2>3 DEF QueueInv, QueueOf
  <1>4. ASSUME NEW t \in Tasks,
               ContinueConversation(t) \/ Stop(t) \/ Resume(t) \/ DeleteTask(t)
        PROVE  QueueInv'
    BY <1>4, <1>b DEF TypeOK, TaskState, Terminal, Absent, ContinueConversation, Stop,
                      Resume, DeleteTask, Step
  <1>5. ASSUME NEW t \in Tasks, CancelQueued(t) PROVE QueueInv'
    <2>1. PICK n \in 1 .. Len(queue) : queue[n] = t /\ queue' = RemoveAt(queue, n)
      BY <1>5 DEF CancelQueued
    <2>2. /\ Len(queue') = Len(queue) - 1
          /\ \A j \in 1 .. Len(queue) - 1 :
               queue'[j] = IF j < n THEN queue[j] ELSE queue[j + 1]
      BY <1>a, <2>1, RemoveAtProps
    <2>3. \A u \in Tasks : state'[u] = IF u = t THEN "CANCELLED" ELSE state[u]
      BY <1>5 DEF CancelQueued, Step, TypeOK
    <2>4. \A j \in 1 .. Len(queue') :
            LET i == IF j < n THEN j ELSE j + 1
            IN  i \in 1 .. Len(queue) /\ i # n /\ queue'[j] = queue[i]
      BY <1>a, <2>1, <2>2
    <2>5. \A j \in 1 .. Len(queue') : state'[queue'[j]] = "QUEUED"
      <3> TAKE j \in 1 .. Len(queue')
      <3>1. PICK i \in 1 .. Len(queue) : i # n /\ queue'[j] = queue[i]
        BY <2>4
      <3>2. queue[i] # t
        BY <2>1, <3>1 DEF QueueInv, QueueOf
      <3> QED
        BY <1>a, <2>3, <3>1, <3>2 DEF QueueInv, QueueOf
    <2>6. \A i, j \in 1 .. Len(queue') : queue'[i] = queue'[j] => i = j
      <3> TAKE i, j \in 1 .. Len(queue')
      <3> HAVE queue'[i] = queue'[j]
      <3> DEFINE x == IF i < n THEN i ELSE i + 1
                 y == IF j < n THEN j ELSE j + 1
      <3>1. /\ x \in 1 .. Len(queue) /\ y \in 1 .. Len(queue)
            /\ queue[x] = queue[y]
        BY <2>4
      <3>2. x = y
        BY <3>1 DEF QueueInv, QueueOf
      <3> QED
        BY <2>1, <3>2
    <2>7. \A u \in Tasks : state'[u] = "QUEUED" => \E j \in 1 .. Len(queue') : queue'[j] = u
      <3> SUFFICES ASSUME NEW u \in Tasks, state'[u] = "QUEUED"
                   PROVE  \E j \in 1 .. Len(queue') : queue'[j] = u
        OBVIOUS
      <3>1. u # t /\ state[u] = "QUEUED"
        BY <2>3
      <3>2. PICK i \in 1 .. Len(queue) : queue[i] = u
        BY <3>1 DEF QueueInv, QueueOf
      <3>3. CASE i < n
        <4>1. i \in 1 .. Len(queue')
          BY <1>a, <2>1, <2>2, <3>3
        <4> QED
          BY <2>2, <3>2, <3>3, <4>1
      <3>4. CASE i > n
        <4>1. i - 1 \in 1 .. Len(queue') /\ ~(i - 1 < n) /\ (i - 1) + 1 = i
          BY <1>a, <2>1, <2>2, <3>4
        <4> QED
          BY <2>2, <3>2, <4>1
      <3>5. i # n
        BY <2>1, <3>1, <3>2
      <3> QED
        BY <2>1, <3>3, <3>4, <3>5
    <2>8. Len(queue') <= MaxQueued
      BY <1>a, <2>2, BoundsAssumption DEF QueueInv
    <2> QED
      BY <2>5, <2>6, <2>7, <2>8 DEF QueueInv, QueueOf
  <1>6. ASSUME NEW t \in Tasks, Work(t) PROVE QueueInv'
    <2>1. TargetRaises(t) => state[t] # "QUEUED"
      BY DEF TargetRaises, InTarget, WorkerInv
    <2> QED
      BY <1>6, <1>b, <2>1 DEF TypeOK, TaskState, Terminal, Work, BuildRuntime, EnterTurn,
                              SafeStop, Publish, FailTurn, TargetRaises, Step, slots
  <1>7. ASSUME \/ Tick \/ BeginShutdown \/ UNCHANGED vars
               \/ \E t \in Tasks : \/ TargetReturns(t) \/ Cleanup(t)
                                   \/ CleanupRaises(t) \/ ThreadEnds(t)
        PROVE  QueueInv'
    <2>1. state' = state /\ queue' = queue
      BY <1>7 DEF Tick, BeginShutdown, TargetReturns, Cleanup, CleanupRaises, ThreadEnds,
                  slots, vars
    <2> QED
      BY <1>b, <2>1 DEF TypeOK
  <1>8. ASSUME StopEverything PROVE QueueInv'
    <2>1. \A t \in Tasks : state[t] = "QUEUED" => t \in Range(queue)
      BY <1>a DEF QueueInv, QueueOf, Range
    <2>2. \A t \in Tasks : state'[t] # "QUEUED"
      BY <1>8, <2>1 DEF StopEverything
    <2>3. queue' = <<>> /\ Len(<<>>) = 0
      BY <1>8 DEF StopEverything
    <2> QED
      BY <2>2, <2>3, BoundsAssumption DEF QueueInv, QueueOf
  <1>9. ASSUME CancelStopped PROVE QueueInv'
    BY <1>9, <1>b DEF TypeOK, TaskState, CancelStopped, WorkerInv
  <1> QED
    BY <1>1, <1>2, <1>3, <1>4, <1>5, <1>6, <1>7, <1>8, <1>9 DEF Next, Request, Unwind

LEMMA WorkerStep == TypeOK /\ QueueInv /\ WorkerInv /\ [Next]_vars => WorkerInv'
  <1> SUFFICES ASSUME TypeOK, QueueInv, WorkerInv, [Next]_vars PROVE WorkerInv'
    OBVIOUS
  <1> USE DEF TaskState, Terminal, Live, Absent
  <1>1. ASSUME NEW t \in Tasks, NEW k \in Kinds, NEW a \in Agents, CreateTask(t, k, a)
        PROVE  WorkerInv'
    <2>1. PICK d \in Dispatch(active) : CreateOutcome(t, k, a, d)
      BY <1>1, CreateTaskFields
    <2>2. \A u \in Tasks : \/ d.state[u] = state[u] /\ d.worker[u] = worker[u]
                           \/ /\ state[u] = "QUEUED"
                              /\ d.state[u] \in {"CANCELLED", "CREATED", "FAILED"}
                              /\ d.worker[u] \in {worker[u], "initial"}
      BY DispatchQueue DEF TypeOK
    <2>3. d.state \in [Tasks -> TaskState \cup {Absent}] /\ (d.worker \in
             [Tasks -> {"none", "initial", "resuming", "turn", "unwind", "release", "exit"}])
      BY DispatchTyped DEF TypeOK
    <2>4. /\ state[t] = Absent /\ runtime' = runtime
          /\ agent' = [agent EXCEPT ![t] = a]
      BY <1>1 DEF CreateTask
    <2>5. /\ \A u \in Tasks \ {t} : state'[u] = d.state[u] /\ worker'[u] = d.worker[u]
          /\ state'[t] \in {"CREATED", "QUEUED", "FAILED"}
          /\ \/ worker'[t] = d.worker[t]
             \/ worker'[t] = "initial" /\ state'[t] = "CREATED"
      <3>1. PICK end \in {"CREATED", "QUEUED", "FAILED"} :
              /\ state' = [d.state EXCEPT ![t] = end]
              /\ \/ worker' = d.worker
                 \/ end = "CREATED" /\ worker' = [d.worker EXCEPT ![t] = "initial"]
        BY <2>1 DEF CreateOutcome
      <3>2. /\ \A u \in Tasks \ {t} : state'[u] = d.state[u]
            /\ state'[t] = end
        BY <2>3, <3>1
      <3>3. CASE worker' = d.worker
        BY <3>2, <3>3
      <3>4. CASE end = "CREATED" /\ worker' = [d.worker EXCEPT ![t] = "initial"]
        BY <2>3, <3>2, <3>4
      <3> QED
        BY <3>1, <3>3, <3>4
    <2> QED
      BY <2>2, <2>4, <2>5 DEF WorkerInv, TypeOK
  <1>2. ASSUME RefuseTask \/ QueueWatch PROVE WorkerInv'
    <2>1. PICK d \in Dispatch(active) : Becomes(d) /\ runtime' = runtime /\ agent' = agent
      BY <1>2 DEF RefuseTask, QueueWatch, fixed
    <2>2. \A u \in Tasks : \/ d.state[u] = state[u] /\ d.worker[u] = worker[u]
                           \/ /\ state[u] = "QUEUED"
                              /\ d.state[u] \in {"CANCELLED", "CREATED", "FAILED"}
                              /\ d.worker[u] \in {worker[u], "initial"}
      BY DispatchQueue DEF TypeOK
    <2> QED
      BY <2>1, <2>2 DEF WorkerInv, Becomes
  <1>3. ASSUME NEW t \in Tasks, Release(t) PROVE WorkerInv'
    <2> DEFINE act == IF state[t] \in Terminal THEN active \ {t} ELSE active
    <2>1. PICK d \in Dispatch(act) :
            d \in Outcomes /\ state' = d.state /\ worker' = [d.worker EXCEPT ![t] = "exit"]
      BY <1>3, ReleaseFields
    <2>2. \A u \in Tasks : \/ d.state[u] = state[u] /\ d.worker[u] = worker[u]
                           \/ /\ state[u] = "QUEUED"
                              /\ d.state[u] \in {"CANCELLED", "CREATED", "FAILED"}
                              /\ d.worker[u] \in {worker[u], "initial"}
      BY DispatchQueue DEF TypeOK
    <2>3. worker[t] = "release" /\ runtime' = runtime /\ agent' = agent
      BY <1>3 DEF Release, fixed
    <2>4. \A u \in Tasks : worker'[u] = IF u = t THEN "exit" ELSE d.worker[u]
      BY <2>1 DEF Outcomes
    <2> QED
      BY <2>1, <2>2, <2>3, <2>4 DEF WorkerInv
  <1>4. ASSUME NEW t \in Tasks,
               \/ ContinueConversation(t) \/ Stop(t) \/ Resume(t)
               \/ CancelQueued(t) \/ DeleteTask(t)
        PROVE  WorkerInv'
    BY <1>4 DEF WorkerInv, TypeOK, ContinueConversation, Stop, Resume, CancelQueued,
                DeleteTask, Step
  <1>5. ASSUME NEW t \in Tasks, Work(t) PROVE WorkerInv'
    BY <1>5 DEF WorkerInv, TypeOK, Work, BuildRuntime, EnterTurn, SafeStop, Publish,
                FailTurn, TargetRaises, InTarget, Step, slots
  <1>6. ASSUME NEW t \in Tasks,
               TargetReturns(t) \/ Cleanup(t) \/ CleanupRaises(t) \/ ThreadEnds(t)
        PROVE  WorkerInv'
    BY <1>6 DEF WorkerInv, TypeOK, TargetReturns, Cleanup, CleanupRaises, ThreadEnds,
                Cleaned, slots
  <1>7. ASSUME Tick \/ BeginShutdown \/ UNCHANGED vars PROVE WorkerInv'
    BY <1>7 DEF WorkerInv, Tick, BeginShutdown, slots, vars
  <1>8. ASSUME StopEverything PROVE WorkerInv'
    <2>1. \A t \in Tasks : t \in Range(queue) => state[t] = "QUEUED"
      BY DEF QueueInv, QueueOf, Range, TypeOK
    <2> QED
      BY <1>8, <2>1 DEF WorkerInv, TypeOK, StopEverything
  <1>9. ASSUME CancelStopped PROVE WorkerInv'
    BY <1>9 DEF WorkerInv, TypeOK, CancelStopped, Cleaned
  <1> QED
    BY <1>1, <1>2, <1>3, <1>4, <1>5, <1>6, <1>7, <1>8, <1>9 DEF Next, Request, Unwind

ServiceInv == TypeOK /\ QueueInv /\ WorkerInv

LEMMA ServiceInvariant == Spec => []ServiceInv
  <1>1. Init => ServiceInv
    <2> SUFFICES ASSUME Init PROVE ServiceInv
      OBVIOUS
    <2>1. TypeOK
      BY BoundsAssumption DEF Init, TypeOK, TaskState, Kinds, Modes
    <2>2. queue = <<>> /\ Len(<<>>) = 0 /\ \A t \in Tasks : state[t] = Absent
      BY DEF Init
    <2>3. QueueInv
      BY <2>2, BoundsAssumption DEF QueueInv, QueueOf, Absent
    <2>4. WorkerInv
      BY DEF Init, WorkerInv, Absent
    <2> QED
      BY <2>1, <2>3, <2>4 DEF ServiceInv
  <1>2. ServiceInv /\ [Next]_vars => ServiceInv'
    BY TypeStep, QueueStep, WorkerStep DEF ServiceInv
  <1> QED
    BY <1>1, <1>2, PTL DEF Spec

\* Queue and QUEUED states always agree, within max_queued_tasks.
THEOREM QueueIsExact == Spec => []QueueExact
  <1>1. ServiceInv => QueueExact
    <2> SUFFICES ASSUME ServiceInv PROVE QueueExact
      OBVIOUS
    <2>1. /\ queue \in Seq(Tasks) /\ Len(queue) \in Nat
          /\ QueueOf(state, queue) /\ Len(queue) <= MaxQueued
          /\ DOMAIN queue = 1 .. Len(queue)
          /\ \A i \in 1 .. Len(queue) : queue[i] \in Tasks
      BY DEF ServiceInv, TypeOK, QueueInv
    <2>2. Range(queue) = {t \in Tasks : state[t] = "QUEUED"}
      BY <2>1 DEF QueueOf, Range
    <2>3. queue \in Bijection(1 .. Len(queue), Range(queue))
      <3>1. queue \in [1 .. Len(queue) -> Range(queue)]
        BY <2>1 DEF Range
      <3> QED
        BY <2>1, <3>1 DEF QueueOf, Bijection, Injection, Surjection, Range, IsInjective
    <2>4. IsFiniteSet(1 .. Len(queue)) /\ Cardinality(1 .. Len(queue)) = Len(queue)
      <3>1. \A n \in Nat : IsFiniteSet(1 .. n) /\ Cardinality(1 .. n) = n
        BY FS_Interval
      <3> QED
        BY <2>1, <3>1
    <2>5. Cardinality(Range(queue)) = Cardinality(1 .. Len(queue))
      <3>1. ExistsBijection(1 .. Len(queue), Range(queue))
        BY <2>3 DEF ExistsBijection
      <3> QED
        BY <2>4, <3>1, FS_Bijection
    <2> QED
      BY <2>1, <2>2, <2>4, <2>5 DEF QueueExact
  <1> QED
    BY <1>1, ServiceInvariant, PTL

-----------------------------------------------------------------------------
(* Exclusive agents and schedules.  Only create_task can make a task use an  *)
(* agent or a schedule it did not use before, and it checks every other task. *)

\* A step in which no task starts to use an agent or a schedule, u apart.
Calm(u) ==
  \A t \in Tasks \ {u} :
    /\ Live(state'[t]) \/ worker'[t] # "none" => Live(state[t]) \/ worker[t] # "none"
    /\ agent'[t] \in {agent[t], NoAgent}
    /\ Live(state'[t]) => Live(state[t])
    /\ kind'[t] \in Schedules => kind'[t] = kind[t]

LEMMA DispatchCalm ==
  ASSUME ServiceInv, NEW act \in SUBSET Tasks, NEW d \in Dispatch(act), NEW t \in Tasks
  PROVE  /\ Live(d.state[t]) \/ d.worker[t] # "none" => Live(state[t]) \/ worker[t] # "none"
         /\ Live(d.state[t]) => Live(state[t])
  <1>1. \/ d.state[t] = state[t] /\ d.worker[t] = worker[t]
        \/ /\ state[t] = "QUEUED"
           /\ d.state[t] \in {"CANCELLED", "CREATED", "FAILED"}
           /\ d.worker[t] \in {worker[t], "initial"}
    BY DispatchQueue DEF ServiceInv
  <1> QED
    BY <1>1 DEF Live, TaskState, Terminal

\* Every step but create_task is calm for all tasks.
LEMMA CalmStep ==
  ASSUME ServiceInv, [Next]_vars,
         ~ \E t \in Tasks, k \in Kinds, a \in Agents : CreateTask(t, k, a)
  PROVE  \A u : Calm(u)
  <1> SUFFICES \A t \in Tasks :
                 /\ Live(state'[t]) \/ worker'[t] # "none"
                      => Live(state[t]) \/ worker[t] # "none"
                 /\ agent'[t] \in {agent[t], NoAgent}
                 /\ Live(state'[t]) => Live(state[t])
                 /\ kind'[t] \in Schedules => kind'[t] = kind[t]
    BY DEF Calm
  <1> USE DEF TaskState, Terminal, Live
  <1>a. TypeOK
    BY DEF ServiceInv
  <1>b. \A k \in Schedules : k \notin {"task", "conversation", "auto"}
    BY NamesAssumption
  <1>1. ASSUME RefuseTask \/ QueueWatch, NEW t \in Tasks
        PROVE  /\ Live(state'[t]) \/ worker'[t] # "none"
                    => Live(state[t]) \/ worker[t] # "none"
               /\ Live(state'[t]) => Live(state[t])
               /\ agent'[t] = agent[t] /\ kind'[t] = kind[t]
    <2>1. PICK d \in Dispatch(active) : Becomes(d)
      BY <1>1 DEF RefuseTask, QueueWatch
    <2>2. kind' = kind /\ agent' = agent
      BY <1>1 DEF RefuseTask, QueueWatch, fixed
    <2> QED
      BY <1>a, <2>1, <2>2, DispatchCalm DEF Becomes, TypeOK
  <1>2. ASSUME NEW u \in Tasks, Release(u), NEW t \in Tasks
        PROVE  /\ Live(state'[t]) \/ worker'[t] # "none"
                    => Live(state[t]) \/ worker[t] # "none"
               /\ Live(state'[t]) => Live(state[t])
               /\ agent'[t] = agent[t] /\ kind'[t] = kind[t]
    <2> DEFINE act == IF state[u] \in Terminal THEN active \ {u} ELSE active
    <2>1. PICK d \in Dispatch(act) :
            d \in Outcomes /\ state' = d.state /\ worker' = [d.worker EXCEPT ![u] = "exit"]
      BY <1>2, <1>a, ReleaseFields
    <2>2. act \in SUBSET Tasks
      BY <1>a DEF TypeOK
    <2>3. kind' = kind /\ agent' = agent /\ worker[u] = "release"
      BY <1>2 DEF Release, fixed
    <2>4. worker'[t] = IF t = u THEN "exit" ELSE d.worker[t]
      BY <2>1 DEF Outcomes
    <2> HIDE DEF act
    <2>5. /\ Live(d.state[t]) \/ d.worker[t] # "none" => Live(state[t]) \/ worker[t] # "none"
          /\ Live(d.state[t]) => Live(state[t])
      BY <2>1, <2>2, DispatchCalm
    <2> QED
      BY <2>1, <2>3, <2>4, <2>5
  <1>3. ASSUME NEW u \in Tasks,
               \/ ContinueConversation(u) \/ Stop(u) \/ Resume(u)
               \/ CancelQueued(u) \/ DeleteTask(u)
        PROVE  \A t \in Tasks :
                 /\ Live(state'[t]) \/ worker'[t] # "none"
                      => Live(state[t]) \/ worker[t] # "none"
                 /\ agent'[t] \in {agent[t], NoAgent}
                 /\ Live(state'[t]) => Live(state[t])
                 /\ kind'[t] \in Schedules => kind'[t] = kind[t]
    BY <1>3, <1>a, <1>b DEF TypeOK, ContinueConversation, Stop, Resume, CancelQueued,
                            DeleteTask, Step, Absent
  <1>4. ASSUME NEW u \in Tasks, Work(u)
        PROVE  \A t \in Tasks :
                 /\ Live(state'[t]) \/ worker'[t] # "none"
                      => Live(state[t]) \/ worker[t] # "none"
                 /\ agent'[t] = agent[t]
                 /\ Live(state'[t]) => Live(state[t])
                 /\ kind'[t] \in Schedules => kind'[t] = kind[t]
    BY <1>4, <1>a, <1>b DEF TypeOK, Work, BuildRuntime, EnterTurn, SafeStop, Publish,
                            FailTurn, TargetRaises, InTarget, Step, slots
  <1>5. ASSUME NEW u \in Tasks,
               TargetReturns(u) \/ Cleanup(u) \/ CleanupRaises(u) \/ ThreadEnds(u)
        PROVE  \A t \in Tasks : /\ state'[t] = state[t] /\ agent'[t] = agent[t]
                                /\ kind'[t] = kind[t]
                                /\ worker'[t] # "none" => worker[t] # "none"
    BY <1>5, <1>a DEF TypeOK, TargetReturns, Cleanup, CleanupRaises, ThreadEnds, slots
  <1>6. ASSUME Tick \/ BeginShutdown \/ UNCHANGED vars
        PROVE  state' = state /\ worker' = worker /\ agent' = agent /\ kind' = kind
    BY <1>6 DEF Tick, BeginShutdown, slots, vars
  <1>7. ASSUME StopEverything \/ CancelStopped
        PROVE  /\ worker' = worker /\ agent' = agent /\ kind' = kind
               /\ \A t \in Tasks : Live(state'[t]) => Live(state[t])
    BY <1>7, <1>a DEF TypeOK, StopEverything, CancelStopped
  <1> QED
    BY <1>1, <1>2, <1>3, <1>4, <1>5, <1>6, <1>7 DEF Next, Request, Unwind

\* What create_task does to the others, and what it has checked of them.
LEMMA CreateTaskCalm ==
  ASSUME ServiceInv, NEW t \in Tasks, NEW k \in Kinds, NEW a \in Agents, CreateTask(t, k, a)
  PROVE  /\ Calm(t)
         /\ agent'[t] = a /\ kind'[t] = k
         /\ \A u \in Tasks \ {t} :
              /\ agent'[u] = agent[u]
              /\ Live(state'[u]) \/ worker'[u] # "none" => agent[u] # a
              /\ Live(state'[u]) /\ k \in Schedules => kind[u] # k
  <1>a. TypeOK
    BY DEF ServiceInv
  <1>1. PICK d \in Dispatch(active) : CreateOutcome(t, k, a, d)
    BY <1>a, CreateTaskFields
  <1>2. d \in Outcomes /\ ScheduleAccepted(d, k) /\ AgentAccepted(d, a)
    BY <1>1 DEF CreateOutcome, DispatchEffect
  <1>3. \A u \in Tasks \ {t} : state'[u] = d.state[u] /\ worker'[u] = d.worker[u]
    <2>1. PICK end \in {"CREATED", "QUEUED", "FAILED"} :
            /\ state' = [d.state EXCEPT ![t] = end]
            /\ worker' = d.worker \/ worker' = [d.worker EXCEPT ![t] = "initial"]
      BY <1>1 DEF CreateOutcome
    <2> QED
      BY <1>2, <2>1 DEF Outcomes
  <1>4. kind' = [kind EXCEPT ![t] = k] /\ agent' = [agent EXCEPT ![t] = a]
    BY DEF CreateTask
  <1>5. \A u \in Tasks \ {t} : agent'[u] = agent[u] /\ kind'[u] = kind[u]
    BY <1>4, <1>a DEF TypeOK
  <1>6. \A u \in Tasks :
          /\ Live(d.state[u]) \/ d.worker[u] # "none" => Live(state[u]) \/ worker[u] # "none"
          /\ Live(d.state[u]) => Live(state[u])
    BY <1>a, DispatchCalm DEF TypeOK
  <1>7. Calm(t)
    BY <1>3, <1>5, <1>6 DEF Calm
  <1>8. \A u \in Tasks \ {t} : Live(state'[u]) \/ worker'[u] # "none" => agent[u] # a
    BY <1>2, <1>3 DEF AgentAccepted, Holds
  <1>9. \A u \in Tasks \ {t} : Live(state'[u]) /\ k \in Schedules => kind[u] # k
    BY <1>2, <1>3 DEF ScheduleAccepted
  <1> QED
    BY <1>4, <1>5, <1>7, <1>8, <1>9, <1>a DEF TypeOK

\* One agent id never serves two unfinished tasks or unwinding workers.
THEOREM AgentsExclusive == Spec => []AgentExclusive
  <1>1. Init => AgentExclusive
    BY DEF Init, AgentExclusive
  <1>2. ServiceInv /\ AgentExclusive /\ [Next]_vars => AgentExclusive'
    <2> SUFFICES ASSUME ServiceInv, AgentExclusive, [Next]_vars,
                        NEW t \in Tasks, NEW u \in Tasks, t # u,
                        agent'[t] = agent'[u], agent'[t] # NoAgent,
                        Live(state'[t]) \/ worker'[t] # "none",
                        Live(state'[u]) \/ worker'[u] # "none"
                 PROVE  FALSE
      BY DEF AgentExclusive
    <2>1. CASE \E v \in Tasks, k \in Kinds, a \in Agents : CreateTask(v, k, a)
      <3>1. PICK v \in Tasks, k \in Kinds, a \in Agents : CreateTask(v, k, a)
        BY <2>1
      <3>2. /\ Calm(v) /\ agent'[v] = a
            /\ \A w \in Tasks \ {v} :
                 /\ agent'[w] = agent[w]
                 /\ Live(state'[w]) \/ worker'[w] # "none" => agent[w] # a
        BY <3>1, CreateTaskCalm
      <3>3. t # v /\ u # v
        BY <3>2
      <3> QED
        BY <3>2, <3>3 DEF Calm, AgentExclusive
    <2>2. CASE ~ \E v \in Tasks, k \in Kinds, a \in Agents : CreateTask(v, k, a)
      <3>1. \A v : Calm(v)
        BY <2>2, CalmStep
      <3>2. Calm(t) /\ Calm(u)
        BY <3>1
      <3> QED
        BY <3>2 DEF Calm, AgentExclusive
    <2> QED
      BY <2>1, <2>2
  <1> QED
    BY <1>1, <1>2, ServiceInvariant, PTL DEF Spec

\* Runs of one schedule never overlap, queued ones included.
THEOREM SchedulesExclusive == Spec => []ScheduleExclusive
  <1>1. Init => ScheduleExclusive
    BY DEF Init, ScheduleExclusive, Live, TaskState, Absent
  <1>2. ServiceInv /\ ScheduleExclusive /\ [Next]_vars => ScheduleExclusive'
    <2> SUFFICES ASSUME ServiceInv, ScheduleExclusive, [Next]_vars,
                        NEW t \in Tasks, NEW u \in Tasks, t # u,
                        kind'[t] = kind'[u], kind'[t] \in Schedules,
                        Live(state'[t]), Live(state'[u])
                 PROVE  FALSE
      BY DEF ScheduleExclusive
    <2>1. CASE \E v \in Tasks, k \in Kinds, a \in Agents : CreateTask(v, k, a)
      <3>1. PICK v \in Tasks, k \in Kinds, a \in Agents : CreateTask(v, k, a)
        BY <2>1
      <3>2. /\ Calm(v) /\ kind'[v] = k
            /\ \A w \in Tasks \ {v} : Live(state'[w]) /\ k \in Schedules => kind[w] # k
        BY <3>1, CreateTaskCalm
      <3>3. \A w \in Tasks \ {v} : kind'[w] \in Schedules => kind'[w] = kind[w]
        BY <3>2 DEF Calm
      <3>4. t # v /\ u # v
        BY <3>2, <3>3
      <3> QED
        BY <3>2, <3>4 DEF Calm, ScheduleExclusive
    <2>2. CASE ~ \E v \in Tasks, k \in Kinds, a \in Agents : CreateTask(v, k, a)
      <3>1. \A v : Calm(v)
        BY <2>2, CalmStep
      <3>2. Calm(t) /\ Calm(u)
        BY <3>1
      <3> QED
        BY <3>2 DEF Calm, ScheduleExclusive
    <2> QED
      BY <2>1, <2>2
  <1> QED
    BY <1>1, <1>2, ServiceInvariant, PTL DEF Spec

\* Closing a runtime never tears down another task's containers.
THEOREM CleanupsIsolated == Spec => CleanupIsolated
  <1> DEFINE Isolated == \A t, u \in Tasks :
               t # u /\ runtime[t] = "built" /\ runtime'[t] = "closed" /\ agent[u] = agent[t]
                 => runtime[u] # "built"
  <1>1. ServiceInv /\ AgentExclusive => Isolated
    <2> SUFFICES ASSUME ServiceInv, AgentExclusive, NEW t \in Tasks, NEW u \in Tasks, t # u,
                        runtime[t] = "built", runtime[u] = "built", agent[u] = agent[t]
                 PROVE  FALSE
      OBVIOUS
    <2>1. /\ Live(state[t]) \/ worker[t] # "none"
          /\ Live(state[u]) \/ worker[u] # "none"
          /\ state[t] # Absent
      BY DEF ServiceInv, WorkerInv
    <2>2. agent[t] # NoAgent
      BY <2>1, NamesAssumption DEF ServiceInv, WorkerInv
    <2> QED
      BY <2>1, <2>2 DEF AgentExclusive
  <1>2. ServiceInv /\ AgentExclusive /\ [Next]_vars => [Isolated]_vars
    BY <1>1
  <1>3. Spec => [][Isolated]_vars
    BY <1>2, ServiceInvariant, AgentsExclusive, PTL DEF Spec
  <1> QED
    BY <1>3 DEF CleanupIsolated

-----------------------------------------------------------------------------
(* Refinement: each task follows scopex/runtime/task.py.                     *)

LifeStep(t) == Life(t)!Next \/ UNCHANGED state[t]

\* The steps of TaskLifecycle, as a condition on two states.
LEMMA LifeMoves ==
  ASSUME NEW t \in Tasks, state[t] \in TaskState \cup {Absent},
         \/ state'[t] = state[t]
         \/ state[t] = Absent /\ state'[t] \in {"CREATED", "QUEUED", "FAILED"}
         \/ state[t] \in TaskState /\ state'[t] \in Allowed(state[t])
         \/ state[t] \in Terminal /\ state'[t] = Absent
  PROVE  LifeStep(t)
  BY DEF LifeStep, Life!Next, Life!Submit, Life!Advance, Life!Discard, Life!Absent,
         Life!TaskState, Life!Terminal, Life!Allowed, Absent, TaskState, Terminal, Allowed

LEMMA LifeDispatch ==
  ASSUME ServiceInv, NEW act \in SUBSET Tasks, NEW d \in Dispatch(act),
         NEW t \in Tasks, state'[t] = d.state[t]
  PROVE  LifeStep(t)
  <1>1. \/ d.state[t] = state[t]
        \/ state[t] = "QUEUED" /\ d.state[t] \in {"CANCELLED", "CREATED", "FAILED"}
    BY DispatchQueue DEF ServiceInv
  <1>2. state[t] \in TaskState \cup {Absent}
    BY DEF ServiceInv, TypeOK
  <1>3. {"CANCELLED", "CREATED", "FAILED"} \subseteq Allowed("QUEUED")
    BY DEF Allowed
  <1> QED
    BY <1>1, <1>2, <1>3, LifeMoves DEF TaskState

LEMMA LifecycleStep == ServiceInv /\ [Next]_vars => \A t \in Tasks : LifeStep(t)
  <1> SUFFICES ASSUME ServiceInv, [Next]_vars, NEW t \in Tasks PROVE LifeStep(t)
    OBVIOUS
  <1>a. TypeOK /\ state[t] \in TaskState \cup {Absent}
    BY DEF ServiceInv, TypeOK
  <1>1. ASSUME NEW u \in Tasks, NEW k \in Kinds, NEW a \in Agents, CreateTask(u, k, a)
        PROVE  LifeStep(t)
    <2>1. PICK d \in Dispatch(active) : CreateOutcome(u, k, a, d)
      BY <1>1, <1>a, CreateTaskFields
    <2>2. active \in SUBSET Tasks /\ d \in Outcomes /\ state[u] = Absent
      BY <1>1, <1>a, <2>1 DEF TypeOK, CreateOutcome, DispatchEffect, CreateTask
    <2>3. CASE t = u
      <3>1. state'[t] \in {"CREATED", "QUEUED", "FAILED"}
        BY <2>1, <2>2, <2>3 DEF CreateOutcome, Outcomes
      <3> QED
        BY <1>a, <2>2, <2>3, <3>1, LifeMoves
    <2>4. CASE t # u
      <3>1. state'[t] = d.state[t]
        BY <2>1, <2>2, <2>4 DEF CreateOutcome, Outcomes
      <3> QED
        BY <2>2, <3>1, LifeDispatch
    <2> QED
      BY <2>3, <2>4
  <1>2. ASSUME RefuseTask \/ QueueWatch PROVE LifeStep(t)
    <2>1. PICK d \in Dispatch(active) : state' = d.state
      BY <1>2 DEF RefuseTask, QueueWatch, Becomes
    <2> QED
      BY <1>a, <2>1, LifeDispatch DEF TypeOK
  <1>3. ASSUME NEW u \in Tasks, Release(u) PROVE LifeStep(t)
    <2> DEFINE act == IF state[u] \in Terminal THEN active \ {u} ELSE active
    <2>1. PICK d \in Dispatch(act) : state' = d.state
      BY <1>3, <1>a, ReleaseFields
    <2>2. act \in SUBSET Tasks
      BY <1>a DEF TypeOK
    <2> HIDE DEF act
    <2> QED
      BY <2>1, <2>2, LifeDispatch
  <1>4. ASSUME NEW u \in Tasks,
               \/ Stop(u) \/ CancelQueued(u) \/ EnterTurn(u) \/ SafeStop(u)
               \/ Publish(u) \/ FailTurn(u)
        PROVE  LifeStep(t)
    <2>1. \/ state'[t] = state[t]
          \/ \E from, to \in TaskState : /\ state[t] = from /\ state'[t] = to
                                         /\ to \in Allowed(from)
      BY <1>4, <1>a DEF TypeOK, Stop, CancelQueued, EnterTurn, SafeStop, Publish, FailTurn,
                        Step, TaskState, Allowed, Terminal
    <2> QED
      BY <1>a, <2>1, LifeMoves
  <1>5. ASSUME NEW u \in Tasks, DeleteTask(u) PROVE LifeStep(t)
    <2>1. state'[t] = IF t = u THEN Absent ELSE state[t]
      BY <1>5, <1>a DEF DeleteTask, TypeOK
    <2> QED
      BY <1>5, <1>a, <2>1, LifeMoves DEF DeleteTask
  <1>6. ASSUME NEW u \in Tasks, TargetRaises(u) PROVE LifeStep(t)
    <2>1. state[u] \notin {Absent, "QUEUED"}
      BY <1>6 DEF TargetRaises, InTarget, ServiceInv, WorkerInv
    <2>2. state'[t] = IF t = u /\ state[t] \notin Terminal THEN "FAILED" ELSE state[t]
      BY <1>6, <1>a DEF TargetRaises, TypeOK
    <2>3. \A s \in TaskState \ Terminal : "FAILED" \in Allowed(s)
      BY DEF TaskState, Terminal, Allowed
    <2> QED
      BY <1>a, <2>1, <2>2, <2>3, LifeMoves
  <1>7. ASSUME NEW u \in Tasks,
               \/ ContinueConversation(u) \/ Resume(u) \/ BuildRuntime(u)
               \/ TargetReturns(u) \/ Cleanup(u) \/ CleanupRaises(u) \/ ThreadEnds(u)
        PROVE  LifeStep(t)
    <2>1. state' = state
      BY <1>7 DEF ContinueConversation, Resume, BuildRuntime, TargetReturns, Cleanup,
                  CleanupRaises, ThreadEnds
    <2> QED
      BY <1>a, <2>1, LifeMoves
  <1>8. ASSUME Tick \/ BeginShutdown \/ UNCHANGED vars PROVE LifeStep(t)
    <2>1. state' = state
      BY <1>8 DEF Tick, BeginShutdown, vars
    <2> QED
      BY <1>a, <2>1, LifeMoves
  <1>9. ASSUME StopEverything \/ CancelStopped PROVE LifeStep(t)
    <2>1. t \in Range(queue) => state[t] = "QUEUED"
      BY DEF ServiceInv, TypeOK, QueueInv, QueueOf, Range
    <2>2. \/ state'[t] = state[t]
          \/ state[t] = "QUEUED" /\ state'[t] = "CANCELLED"
          \/ state[t] = "RUNNING" /\ state'[t] = "PAUSING"
          \/ Live(state[t]) /\ state'[t] = "CANCELLED"
      BY <1>9, <2>1 DEF StopEverything, CancelStopped
    <2>3. /\ \A s \in TaskState \ Terminal : "CANCELLED" \in Allowed(s)
          /\ "PAUSING" \in Allowed("RUNNING")
          /\ {"QUEUED", "RUNNING"} \subseteq TaskState \ Terminal
      BY DEF TaskState, Terminal, Allowed
    <2> QED
      BY <1>a, <2>2, <2>3, LifeMoves DEF Live
  <1> QED
    BY <1>1, <1>2, <1>3, <1>4, <1>5, <1>6, <1>7, <1>8, <1>9 DEF Next, Request, Work, Unwind

\* Whatever admission, workers, faults and shutdown do to a task, it takes only
\* the transitions of _ALLOWED, appears only as CREATED, QUEUED or FAILED, and
\* disappears only when finished.
THEOREM LifecycleImplemented == Spec => ImplementsLifecycle
  <1>1. Init => \A t \in Tasks : Life(t)!Init
    BY DEF Init, Life!Init, Life!Absent, Absent
  <1>2. ServiceInv /\ [Next]_vars => [\A t \in Tasks : Life(t)!Next \/ UNCHANGED state[t]]_state
    BY LifecycleStep DEF LifeStep
  <1>3. Spec => [][\A t \in Tasks : Life(t)!Next \/ UNCHANGED state[t]]_state
    BY <1>2, ServiceInvariant, PTL DEF Spec
  <1> QED
    BY <1>1, <1>3, PTL DEF Spec, ImplementsLifecycle

-----------------------------------------------------------------------------
(* Shutdown and capacity                                                     *)

\* After shutdown has begun no critical section admits or parks a task.
THEOREM NothingAdmittedAfterShutdown == Spec => NoAdmissionAfterShutdown
  <1> DEFINE Shut == phase # "up" => \A t \in Tasks :
               state'[t] \in {"CREATED", "QUEUED"} => state'[t] = state[t]
  <1>1. TypeOK /\ [Next]_vars => [Shut]_vars
    <2> SUFFICES ASSUME TypeOK, Next, phase # "up", NEW t \in Tasks,
                        state'[t] \in {"CREATED", "QUEUED"}
                 PROVE  state'[t] = state[t]
      OBVIOUS
    <2>1. \A act : Dispatch(act) = {NoDispatch(act)}
      BY DEF Dispatch
    <2>2. ASSUME NEW u \in Tasks, Release(u) PROVE state' = state
      BY <2>1, <2>2 DEF Release, Becomes, NoDispatch
    <2>3. ASSUME NEW u \in Tasks, Request(u) PROVE state'[t] = state[t]
      BY <2>3 DEF Request, CreateTask, ContinueConversation, Stop, Resume, CancelQueued,
                  DeleteTask, Step, TypeOK, Absent
    <2>4. ASSUME NEW u \in Tasks, Work(u) PROVE state'[t] = state[t]
      BY <2>4 DEF Work, BuildRuntime, EnterTurn, SafeStop, Publish, FailTurn, TargetRaises,
                  Step, TypeOK
    <2>5. ASSUME NEW u \in Tasks,
                 TargetReturns(u) \/ Cleanup(u) \/ CleanupRaises(u) \/ ThreadEnds(u)
          PROVE  state' = state
      BY <2>5 DEF TargetReturns, Cleanup, CleanupRaises, ThreadEnds
    <2>6. ASSUME RefuseTask \/ QueueWatch \/ BeginShutdown PROVE FALSE
      BY <2>6 DEF RefuseTask, QueueWatch, BeginShutdown
    <2>7. ASSUME Tick \/ StopEverything \/ CancelStopped PROVE state'[t] = state[t]
      BY <2>7 DEF Tick, StopEverything, CancelStopped, TypeOK
    <2> QED
      BY <2>2, <2>3, <2>4, <2>5, <2>6, <2>7 DEF Next, Unwind
  <1>2. Spec => [][Shut]_vars
    BY <1>1, TypeCorrect, PTL DEF Spec
  <1> QED
    BY <1>2 DEF NoAdmissionAfterShutdown

\* A slot is held by a task that is underway or whose worker will give it back;
\* a worker that only unwinds has a finished or paused task.
LeakInv ==
  /\ \A t \in active : worker[t] \in Busy \/ state[t] \in Underway
  /\ \A t \in Tasks : worker[t] \in {"unwind", "release", "exit"}
                        => state[t] \in Terminal \cup {"PAUSED"}

LEMMA DispatchHeld ==
  ASSUME ServiceInv, LeakInv, NEW act \in SUBSET active, NEW d \in Dispatch(act)
  PROVE  /\ \A t \in d.active : d.worker[t] \in Busy \/ d.state[t] \in Underway
         /\ \A t \in Tasks : d.worker[t] \in {"unwind", "release", "exit"}
                               => d.state[t] \in Terminal \cup {"PAUSED"}
         /\ \A t \in act : d.worker[t] = worker[t] /\ d.state[t] = state[t]
  <1>1. act \in SUBSET Tasks
    BY DEF ServiceInv, TypeOK
  <1>2. /\ \A t \in d.active \ act : d.worker[t] = "initial"
        /\ d.active \subseteq Tasks
    BY <1>1, DispatchLemma DEF ServiceInv, DispatchEffect, Outcomes
  <1>3. \A t \in Tasks : \/ d.state[t] = state[t] /\ d.worker[t] = worker[t]
                         \/ /\ state[t] = "QUEUED"
                            /\ d.worker[t] \in {worker[t], "initial"}
    BY <1>1, DispatchQueue DEF ServiceInv
  <1>4. \A t \in Tasks : state[t] = "QUEUED" => worker[t] = "none" /\ t \notin active
    BY DEF ServiceInv, WorkerInv, LeakInv, Busy, Underway
  <1> QED
    BY <1>1, <1>2, <1>3, <1>4 DEF LeakInv, Busy

LEMMA LeakStep ==
  ASSUME StorageFaults = FALSE
  PROVE  ServiceInv /\ LeakInv /\ [Next]_vars => LeakInv'
  <1> SUFFICES ASSUME ServiceInv, LeakInv, [Next]_vars PROVE LeakInv'
    OBVIOUS
  <1> USE DEF Busy, Underway, Terminal
  <1>a. TypeOK /\ active \subseteq Tasks /\ active \in SUBSET active
    BY DEF ServiceInv, TypeOK
  <1>1. ASSUME NEW t \in Tasks, NEW k \in Kinds, NEW a \in Agents, CreateTask(t, k, a)
        PROVE  LeakInv'
    <2>1. PICK d \in Dispatch(active) : CreateOutcome(t, k, a, d)
      BY <1>1, <1>a, CreateTaskFields
    <2>2. /\ \A u \in d.active : d.worker[u] \in Busy \/ d.state[u] \in Underway
          /\ \A u \in Tasks : d.worker[u] \in {"unwind", "release", "exit"}
                                => d.state[u] \in Terminal \cup {"PAUSED"}
      BY <1>a, DispatchHeld
    <2>3. d \in Outcomes /\ state[t] = Absent
      BY <1>1, <2>1 DEF CreateOutcome, DispatchEffect, CreateTask
    <2>4. d.state[t] = Absent /\ d.worker[t] = "none"
      BY <1>a, <2>3, DispatchQueue DEF ServiceInv, WorkerInv, TypeOK, Absent
    <2>5. t \notin d.active
      BY <2>2, <2>4 DEF Absent
    <2>6. PICK end \in {"CREATED", "QUEUED", "FAILED"} :
            /\ state' = [d.state EXCEPT ![t] = end]
            /\ \/ worker' = d.worker /\ active' = d.active
               \/ /\ end = "CREATED" /\ active' = d.active \cup {t}
                  /\ worker' = [d.worker EXCEPT ![t] = "initial"]
      BY <2>1 DEF CreateOutcome
    <2>7. \A u \in Tasks \ {t} : state'[u] = d.state[u] /\ worker'[u] = d.worker[u]
      BY <2>3, <2>6 DEF Outcomes
    <2>8. \/ active' = d.active /\ worker'[t] = "none"
          \/ active' = d.active \cup {t} /\ worker'[t] = "initial"
      BY <2>3, <2>4, <2>6 DEF Outcomes
    <2>9. d.active \subseteq Tasks
      BY <2>3 DEF Outcomes
    <2> QED
      BY <2>2, <2>5, <2>7, <2>8, <2>9 DEF LeakInv
  <1>2. ASSUME RefuseTask \/ QueueWatch PROVE LeakInv'
    <2>1. PICK d \in Dispatch(active) : Becomes(d)
      BY <1>2 DEF RefuseTask, QueueWatch
    <2> QED
      BY <1>a, <2>1, DispatchHeld DEF LeakInv, Becomes
  <1>3. ASSUME NEW t \in Tasks, Release(t) PROVE LeakInv'
    <2> DEFINE act == IF state[t] \in Terminal THEN active \ {t} ELSE active
    <2>1. PICK d \in Dispatch(act) :
            /\ d \in Outcomes /\ DispatchEffect(act, d)
            /\ state' = d.state /\ worker' = [d.worker EXCEPT ![t] = "exit"]
            /\ active' = d.active
      BY <1>3, <1>a, ReleaseFields
    <2>2. act \in SUBSET active /\ worker[t] = "release"
      BY <1>3 DEF Release
    <2>3. state[t] \in Terminal \cup {"PAUSED"}
      BY <2>2 DEF LeakInv
    <2>4. t \in act => state[t] = "PAUSED"
      BY <2>3
    <2> HIDE DEF act
    <2>5. /\ \A u \in d.active : d.worker[u] \in Busy \/ d.state[u] \in Underway
          /\ \A u \in Tasks : d.worker[u] \in {"unwind", "release", "exit"}
                                => d.state[u] \in Terminal \cup {"PAUSED"}
          /\ \A u \in act : d.worker[u] = worker[u] /\ d.state[u] = state[u]
      BY <2>1, <2>2, DispatchHeld
    <2>6. d.state[t] = state[t] /\ d.worker[t] = "release"
      <3>1. act \in SUBSET Tasks /\ state[t] # "QUEUED"
        BY <1>a, <2>2, <2>3
      <3> QED
        BY <2>1, <2>2, <3>1, DispatchQueue DEF ServiceInv
    <2>7. t \in d.active => t \in act
      BY <2>1, <2>6 DEF DispatchEffect
    <2>8. \A u \in Tasks : worker'[u] = IF u = t THEN "exit" ELSE d.worker[u]
      BY <2>1 DEF Outcomes
    <2>9. d.active \subseteq Tasks
      BY <2>1 DEF Outcomes
    <2> QED
      BY <2>1, <2>3, <2>4, <2>5, <2>6, <2>7, <2>8, <2>9 DEF LeakInv
  <1>4. ASSUME NEW t \in Tasks,
               \/ ContinueConversation(t) \/ Stop(t) \/ Resume(t)
               \/ CancelQueued(t) \/ DeleteTask(t)
        PROVE  LeakInv'
    BY <1>4, <1>a DEF LeakInv, TypeOK, ContinueConversation, Stop, Resume, CancelQueued,
                      DeleteTask, Step
  <1>5. ASSUME NEW t \in Tasks, Work(t) PROVE LeakInv'
    BY <1>5, <1>a DEF LeakInv, TypeOK, Work, BuildRuntime, EnterTurn, SafeStop, Publish,
                      FailTurn, TargetRaises, InTarget, Step, slots
  <1>6. ASSUME NEW t \in Tasks,
               TargetReturns(t) \/ Cleanup(t) \/ CleanupRaises(t) \/ ThreadEnds(t)
        PROVE  LeakInv'
    BY <1>6, <1>a DEF LeakInv, TypeOK, TargetReturns, Cleanup, CleanupRaises, ThreadEnds,
                      slots
  <1>7. ASSUME Tick \/ BeginShutdown \/ UNCHANGED vars PROVE LeakInv'
    BY <1>7 DEF LeakInv, Tick, BeginShutdown, slots, vars
  <1>8. ASSUME StopEverything PROVE LeakInv'
    <2>1. \A t \in Range(queue) : state[t] = "QUEUED"
      BY DEF ServiceInv, TypeOK, QueueInv, QueueOf, Range
    <2> QED
      BY <1>8, <1>a, <2>1 DEF LeakInv, TypeOK, StopEverything
  <1>9. ASSUME CancelStopped PROVE LeakInv'
    BY <1>9, <1>a DEF LeakInv, TypeOK, CancelStopped
  <1> QED
    BY <1>1, <1>2, <1>3, <1>4, <1>5, <1>6, <1>7, <1>8, <1>9 DEF Next, Request, Unwind

\* As long as storage can be written no execution slot is ever lost.  (Run
\* Admission_leak shows that this assumption is needed.)
THEOREM SlotsNeverLeak ==
  ASSUME StorageFaults = FALSE
  PROVE  Spec => []NoSlotLeak
  <1>1. Init => LeakInv
    BY DEF Init, LeakInv
  <1>2. ServiceInv /\ LeakInv => NoSlotLeak
    BY DEF ServiceInv, TypeOK, LeakInv, NoSlotLeak, Occupying
  <1> QED
    BY <1>1, <1>2, LeakStep, ServiceInvariant, PTL DEF Spec

-----------------------------------------------------------------------------
(* Fairness of admission.  What frees a slot refills it in the same section, *)
(* so nobody waits beside a free slot.                                       *)

\* A slot is never held by a task that waits or has no handle.
ActiveInv == \A t \in active : state[t] \notin {Absent, "QUEUED"}

\* What a dispatch launches it takes from the head of the queue.
LEMMA DispatchTakes ==
  ASSUME ServiceInv, SlotInv, NEW act \in SUBSET active, NEW d \in Dispatch(act),
         NEW t \in d.active \ active
  PROVE  /\ t \in Tasks /\ state[t] = "QUEUED"
         /\ d.state[t] \in {"CANCELLED", "CREATED", "FAILED"}
  <1>1. act \in SUBSET Tasks /\ TypeOK
    BY DEF ServiceInv, TypeOK
  <1>2. t \in Tasks /\ d.worker[t] = "initial"
    BY <1>1, DispatchLemma DEF DispatchEffect, Outcomes
  <1>3. \/ d.state[t] = state[t] /\ d.worker[t] = worker[t]
        \/ state[t] = "QUEUED" /\ d.state[t] \in {"CANCELLED", "CREATED", "FAILED"}
    BY <1>1, <1>2, DispatchQueue DEF ServiceInv
  <1> QED
    BY <1>2, <1>3 DEF SlotInv, Busy

\* A dispatch that runs to its end leaves no slot free beside a waiting task.
LEMMA DispatchFills ==
  ASSUME ServiceInv, ActiveInv, NEW act \in SUBSET active, NEW d \in Dispatch(act),
         phase = "up", ~d.raised
  PROVE  d.queue = <<>> \/ Cardinality(d.active) >= MaxActive
  <1> DEFINE n == Fit(act)
             started == Entries(overdue + 1, overdue + n)
             positions == overdue + 1 .. overdue + n
  <1>1. /\ act \in SUBSET Tasks /\ TypeOK /\ QueueInv
        /\ overdue \in Nat /\ Len(queue) \in Nat /\ overdue <= Len(queue)
        /\ queue \in Seq(Tasks)
        /\ \A i \in 1 .. Len(queue) : queue[i] \in Tasks
    BY DEF ServiceInv, TypeOK
  <1>2. d = Launched(act, n, 0, "CREATED")
    <2>1. ASSUME NEW k, NEW end PROVE Launched(act, k, 1, end).raised
      <3>1. Launched(act, k, 1, end).raised = (1 > 0)
        BY DEF Launched
      <3>2. (1 > 0) = TRUE
        OBVIOUS
      <3> QED
        BY <3>1, <3>2, Zenon
    <2>2. ASSUME NEW k PROVE ExpiryFailed(act, k).raised
      BY DEF ExpiryFailed
    <2> QED
      BY <2>1, <2>2 DEF Dispatch
  <1>3. /\ IsFiniteSet(act) /\ Cardinality(act) \in Nat
        /\ n \in Nat /\ n <= Len(queue) - overdue
    BY <1>1, FitBounds
  <1>4. /\ d.active = act \cup started
        /\ d.queue = SubSeq(queue, overdue + n + 1, Len(queue))
    BY <1>1, <1>2, <1>3 DEF Launched
  <1>5. CASE n = Len(queue) - overdue
    BY <1>1, <1>3, <1>4, <1>5
  <1>6. CASE n # Len(queue) - overdue
    <2>1. Cardinality(act) + n >= MaxActive
      BY <1>1, <1>3, <1>6, BoundsAssumption DEF Fit
    <2>2. IsFiniteSet(positions) /\ Cardinality(positions) = n
      <3>1. \A a, b \in Nat : IsFiniteSet(a + 1 .. a + b) /\ Cardinality(a + 1 .. a + b) = b
        BY FS_Interval
      <3> QED
        BY <1>1, <1>3, <3>1
    <2>3. \A i \in positions : i \in 1 .. Len(queue)
      BY <1>1, <1>3
    <2>4. Cardinality(started) = n /\ IsFiniteSet(started)
      <3> DEFINE f == [i \in positions |-> queue[i]]
      <3>1. f \in Bijection(positions, started)
        <4>1. f \in Surjection(positions, started)
          BY DEF Surjection, Entries
        <4>2. \A i, j \in positions : f[i] = f[j] => i = j
          BY <1>1, <2>3 DEF QueueInv, QueueOf
        <4> QED
          BY <4>1, <4>2 DEF Bijection, Injection, Surjection, IsInjective
      <3> HIDE DEF f, positions
      <3>2. ExistsBijection(positions, started)
        BY <3>1 DEF ExistsBijection
      <3> QED
        BY <2>2, <3>2, FS_Bijection
    <2>5. act \cap started = {}
      <3>1. \A t \in started : state[t] = "QUEUED"
        BY <1>1, <2>3 DEF Entries, QueueInv, QueueOf
      <3> QED
        BY <3>1 DEF ActiveInv
    <2>6. Cardinality(act \cup started) = Cardinality(act) + n
      <3>1. Cardinality(act \cup started)
              = Cardinality(act) + Cardinality(started) - Cardinality(act \cap started)
        BY <1>3, <2>4, FS_Union
      <3>2. Cardinality(act \cap started) = 0
        BY <2>5, FS_EmptySet
      <3> HIDE DEF n, started
      <3> QED
        BY <1>3, <2>4, <3>1, <3>2
    <2> QED
      BY <1>4, <2>1, <2>6
  <1> QED
    BY <1>5, <1>6

\* Who holds a slot after a dispatch was known before it and does not wait.
LEMMA DispatchActive ==
  ASSUME ServiceInv, SlotInv, ActiveInv, NEW act \in SUBSET active, NEW d \in Dispatch(act)
  PROVE  \A u \in d.active : /\ u \in Tasks /\ state[u] # Absent
                             /\ d.state[u] \notin {Absent, "QUEUED"}
  <1> SUFFICES ASSUME NEW u \in d.active
               PROVE  /\ u \in Tasks /\ state[u] # Absent
                      /\ d.state[u] \notin {Absent, "QUEUED"}
    OBVIOUS
  <1>1. CASE u \in active
    <2>1. u \in Tasks /\ state[u] \notin {Absent, "QUEUED"} /\ act \in SUBSET Tasks
      BY <1>1 DEF ActiveInv, ServiceInv, TypeOK
    <2>2. d.state[u] = state[u]
      BY <2>1, DispatchQueue DEF ServiceInv
    <2> QED
      BY <2>1, <2>2
  <1>2. CASE u \notin active
    <2>1. u \in Tasks /\ state[u] = "QUEUED" /\ d.state[u] \in {"CANCELLED", "CREATED", "FAILED"}
      BY <1>2, DispatchTakes
    <2> QED
      BY <2>1 DEF Absent
  <1> QED
    BY <1>1, <1>2

LEMMA ActiveStep == ServiceInv /\ SlotInv /\ ActiveInv /\ [Next]_vars => ActiveInv'
  <1> SUFFICES ASSUME ServiceInv, SlotInv, ActiveInv, [Next]_vars PROVE ActiveInv'
    OBVIOUS
  <1> USE DEF Absent, Terminal
  <1>a. TypeOK /\ active \subseteq Tasks /\ active \in SUBSET active
    BY DEF ServiceInv, TypeOK
  <1>1. ASSUME NEW t \in Tasks, NEW k \in Kinds, NEW a \in Agents, CreateTask(t, k, a)
        PROVE  ActiveInv'
    <2>1. PICK d \in Dispatch(active) : CreateOutcome(t, k, a, d)
      BY <1>1, <1>a, CreateTaskFields
    <2>2. \A u \in d.active : /\ u \in Tasks /\ state[u] # Absent
                              /\ d.state[u] \notin {Absent, "QUEUED"}
      BY <1>a, DispatchActive
    <2>3. state[t] = Absent /\ d.state \in [Tasks -> TaskState \cup {Absent}]
      BY <1>1, <2>1 DEF CreateOutcome, DispatchEffect, CreateTask, Outcomes
    <2>4. PICK end \in {"CREATED", "QUEUED", "FAILED"} :
            /\ state' = [d.state EXCEPT ![t] = end]
            /\ active' = d.active \/ (end = "CREATED" /\ active' = d.active \cup {t})
      BY <2>1 DEF CreateOutcome
    <2> QED
      BY <2>2, <2>3, <2>4 DEF ActiveInv
  <1>2. ASSUME RefuseTask \/ QueueWatch PROVE ActiveInv'
    <2>1. PICK d \in Dispatch(active) : Becomes(d)
      BY <1>2 DEF RefuseTask, QueueWatch
    <2> QED
      BY <1>a, <2>1, DispatchActive DEF ActiveInv, Becomes
  <1>3. ASSUME NEW t \in Tasks, Release(t) PROVE ActiveInv'
    <2> DEFINE act == IF state[t] \in Terminal THEN active \ {t} ELSE active
    <2>1. PICK d \in Dispatch(act) : state' = d.state /\ active' = d.active
      BY <1>3, <1>a, ReleaseFields
    <2>2. act \in SUBSET active
      OBVIOUS
    <2> HIDE DEF act
    <2> QED
      BY <2>1, <2>2, DispatchActive DEF ActiveInv
  <1>4. ASSUME NEW t \in Tasks,
               \/ ContinueConversation(t) \/ Stop(t) \/ Resume(t)
               \/ CancelQueued(t) \/ DeleteTask(t)
        PROVE  ActiveInv'
    BY <1>4, <1>a DEF ActiveInv, TypeOK, ContinueConversation, Stop, Resume, CancelQueued,
                      DeleteTask, Step
  <1>5. ASSUME NEW t \in Tasks, Work(t) PROVE ActiveInv'
    BY <1>5, <1>a DEF ActiveInv, TypeOK, Work, BuildRuntime, EnterTurn, SafeStop, Publish,
                      FailTurn, TargetRaises, InTarget, Step, slots
  <1>6. ASSUME NEW t \in Tasks,
               TargetReturns(t) \/ Cleanup(t) \/ CleanupRaises(t) \/ ThreadEnds(t)
        PROVE  ActiveInv'
    BY <1>6 DEF ActiveInv, TargetReturns, Cleanup, CleanupRaises, ThreadEnds, slots
  <1>7. ASSUME Tick \/ BeginShutdown \/ UNCHANGED vars PROVE ActiveInv'
    BY <1>7 DEF ActiveInv, Tick, BeginShutdown, slots, vars
  <1>8. ASSUME StopEverything \/ CancelStopped PROVE ActiveInv'
    BY <1>8, <1>a DEF ActiveInv, StopEverything, CancelStopped
  <1> QED
    BY <1>1, <1>2, <1>3, <1>4, <1>5, <1>6, <1>7, <1>8 DEF Next, Request, Unwind

\* What holds of the service whatever fails.
AdmissionInv == ServiceInv /\ SlotInv /\ ActiveInv

LEMMA AdmissionInvariant == Spec => []AdmissionInv
  <1>1. Init => SlotInv /\ ActiveInv
    BY FS_EmptySet, BoundsAssumption DEF Init, SlotInv, ActiveInv, Busy, Underway, Absent
  <1>2. ServiceInv /\ SlotInv /\ ActiveInv /\ [Next]_vars => SlotInv' /\ ActiveInv'
    BY SlotStep, ActiveStep DEF ServiceInv
  <1> QED
    BY <1>1, <1>2, ServiceInvariant, PTL DEF Spec, AdmissionInv

\* A dispatch serves the queue from its head and adds nothing to it.
LEMMA DispatchOrder ==
  ASSUME ServiceInv, SlotInv, ActiveInv, NEW act \in SUBSET active, NEW d \in Dispatch(act)
  PROVE  /\ Range(d.queue) \subseteq Range(queue)
         /\ \A i, j \in 1 .. Len(queue) :
              i < j /\ queue[j] \in d.active => queue[i] \notin Range(d.queue)
         /\ d.queue \in Seq(Tasks)
  <1>1. /\ act \in SUBSET Tasks /\ TypeOK /\ QueueInv /\ WorkerInv
        /\ Len(queue) \in Nat /\ queue \in Seq(Tasks)
        /\ \A i \in 1 .. Len(queue) : queue[i] \in Tasks /\ state[queue[i]] = "QUEUED"
    BY DEF ServiceInv, TypeOK, QueueInv, QueueOf
  <1>2. d \in Outcomes /\ \A t \in d.active \ act : d.worker[t] = "initial"
    BY <1>1, DispatchLemma DEF DispatchEffect
  <1>3. PICK m \in 0 .. Len(queue) :
          /\ d.queue = SubSeq(queue, m + 1, Len(queue))
          /\ \A t \in Tasks : d.worker[t] = worker[t] \/ t \in Entries(1, m)
    <2>1. DispatchEffect(act, d)
      BY <1>1, DispatchLemma
    <2> QED
      BY <2>1 DEF DispatchEffect
  <1>4. /\ d.queue \in Seq(Tasks) /\ Len(d.queue) = Len(queue) - m
        /\ \A i \in 1 .. Len(queue) - m : d.queue[i] = queue[m + i]
    BY <1>1, <1>3
  <1>5. \A t \in Range(d.queue) : \E i \in m + 1 .. Len(queue) : queue[i] = t
    <2> SUFFICES ASSUME NEW t \in Range(d.queue)
                 PROVE  \E i \in m + 1 .. Len(queue) : queue[i] = t
      OBVIOUS
    <2>1. PICK k \in 1 .. Len(queue) - m : d.queue[k] = t
      BY <1>4 DEF Range
    <2>2. m + k \in m + 1 .. Len(queue) /\ queue[m + k] = t
      BY <1>1, <1>4, <2>1
    <2> QED
      BY <2>2
  <1>6. Range(d.queue) \subseteq Range(queue)
    <2>1. \A i \in m + 1 .. Len(queue) : i \in DOMAIN queue
      BY <1>1
    <2> QED
      BY <1>5, <2>1 DEF Range
  <1>7. ASSUME NEW i \in 1 .. Len(queue), NEW j \in 1 .. Len(queue),
               i < j, queue[j] \in d.active, queue[i] \in Range(d.queue)
        PROVE  FALSE
    <2>1. queue[j] \notin act /\ worker[queue[j]] = "none" /\ queue[j] \in Tasks
      BY <1>1, <1>7 DEF ActiveInv, WorkerInv
    <2>2. queue[j] \in Entries(1, m)
      BY <1>2, <1>3, <1>7, <2>1
    <2>3. PICK k \in 1 .. m : queue[k] = queue[j]
      BY <2>2 DEF Entries
    <2>4. k \in 1 .. Len(queue) /\ k = j
      BY <1>1, <2>3 DEF QueueInv, QueueOf
    <2>5. PICK l \in m + 1 .. Len(queue) : queue[l] = queue[i]
      BY <1>5, <1>7
    <2>6. l \in 1 .. Len(queue) /\ l = i
      BY <1>1, <2>5 DEF QueueInv, QueueOf
    <2> QED
      BY <1>1, <1>7, <2>4, <2>6
  <1> QED
    BY <1>4, <1>6, <1>7

\* One step keeps the order of arrival.
OrderKept ==
  /\ (\E t \in Tasks : t \notin active /\ t \in active' /\ ~Known(t)) => queue' = <<>>
  /\ \A t \in Range(queue') \ Range(queue) : queue'[Len(queue')] = t
  /\ \A i, j \in 1 .. Len(queue) :
       i < j /\ queue[j] \in active' => queue[i] \notin Range(queue')

LEMMA OrderStep == AdmissionInv /\ [Next]_vars => OrderKept
  <1> SUFFICES ASSUME AdmissionInv, [Next]_vars PROVE OrderKept
    OBVIOUS
  <1>a. /\ ServiceInv /\ SlotInv /\ ActiveInv /\ TypeOK
        /\ active \subseteq Tasks /\ active \in SUBSET active
        /\ queue \in Seq(Tasks) /\ Len(queue) \in Nat
        /\ \A i \in 1 .. Len(queue) :
             queue[i] \in Tasks /\ state[queue[i]] = "QUEUED" /\ queue[i] \notin active
    BY DEF AdmissionInv, ServiceInv, TypeOK, QueueInv, QueueOf, ActiveInv
  <1>b. ASSUME Range(queue') \subseteq Range(queue), active' \subseteq active
        PROVE  OrderKept
    BY <1>a, <1>b DEF OrderKept
  <1>c. ASSUME NEW act \in SUBSET active, NEW d \in Dispatch(act),
               active' = d.active, queue' = d.queue
        PROVE  OrderKept
    <2>1. \A t \in d.active \ active : Known(t)
      BY <1>a, DispatchTakes DEF Known, Absent
    <2> QED
      BY <1>a, <1>c, <2>1, DispatchOrder DEF OrderKept
  <1>1. ASSUME NEW t \in Tasks, NEW k \in Kinds, NEW a \in Agents, CreateTask(t, k, a)
        PROVE  OrderKept
    <2>1. PICK d \in Dispatch(active) : CreateOutcome(t, k, a, d)
      BY <1>1, <1>a, CreateTaskFields
    <2>2. phase = "up" /\ state[t] = Absent /\ ~d.raised
      BY <1>1, <2>1 DEF CreateTask, CreateOutcome
    <2>3. CASE active' = d.active /\ queue' = d.queue
      BY <1>a, <1>c, <2>3
    <2>4. CASE active' = d.active /\ queue' = Append(d.queue, t)
      <3>1. /\ Range(d.queue) \subseteq Range(queue) /\ d.queue \in Seq(Tasks)
            /\ \A i, j \in 1 .. Len(queue) :
                 i < j /\ queue[j] \in d.active => queue[i] \notin Range(d.queue)
            /\ \A u \in d.active \ active : Known(u)
        BY <1>a, DispatchOrder, DispatchTakes DEF Known, Absent
      <3>2. /\ Range(queue') \subseteq Range(d.queue) \cup {t}
            /\ queue'[Len(queue')] = t
        BY <2>4, <3>1 DEF Range
      <3>3. \A i \in 1 .. Len(queue) : queue[i] # t
        BY <1>a, <2>2 DEF Absent
      <3> QED
        BY <2>4, <3>1, <3>2, <3>3 DEF OrderKept
    <2>5. CASE active' = d.active \cup {t} /\ queue' = d.queue /\ ~Full(d)
      <3>1. d.queue = <<>>
        <4>1. d.queue = <<>> \/ Cardinality(d.active) >= MaxActive
          BY <1>a, <2>2, DispatchFills
        <4> QED
          BY <2>5, <4>1 DEF Full
      <3>2. Range(queue') = {}
        BY <2>5, <3>1 DEF Range
      <3> QED
        BY <2>5, <3>1, <3>2 DEF OrderKept
    <2> QED
      BY <2>1, <2>3, <2>4, <2>5 DEF CreateOutcome
  <1>2. ASSUME RefuseTask \/ QueueWatch PROVE OrderKept
    <2>1. PICK d \in Dispatch(active) : Becomes(d)
      BY <1>2 DEF RefuseTask, QueueWatch
    <2> QED
      BY <1>a, <1>c, <2>1 DEF Becomes
  <1>3. ASSUME NEW t \in Tasks, Release(t) PROVE OrderKept
    <2> DEFINE act == IF state[t] \in Terminal THEN active \ {t} ELSE active
    <2>1. PICK d \in Dispatch(act) : active' = d.active /\ queue' = d.queue
      BY <1>3, <1>a, ReleaseFields
    <2>2. act \in SUBSET active
      OBVIOUS
    <2> HIDE DEF act
    <2> QED
      BY <1>c, <2>1, <2>2
  <1>4. ASSUME NEW t \in Tasks, CancelQueued(t) PROVE OrderKept
    <2>1. PICK i \in 1 .. Len(queue) : queue[i] = t /\ queue' = RemoveAt(queue, i)
      BY <1>4 DEF CancelQueued
    <2>2. /\ queue' \in Seq(Tasks) /\ Len(queue') = Len(queue) - 1
          /\ \A j \in 1 .. Len(queue) - 1 : queue'[j] = IF j < i THEN queue[j] ELSE queue[j + 1]
      BY <1>a, <2>1, RemoveAtProps
    <2>3. Range(queue') \subseteq Range(queue)
      BY <1>a, <2>2 DEF Range
    <2> QED
      BY <1>4, <1>b, <2>3 DEF CancelQueued
  <1>5. ASSUME NEW t \in Tasks,
               \/ ContinueConversation(t) \/ Stop(t) \/ Resume(t) \/ DeleteTask(t)
               \/ Work(t)
               \/ TargetReturns(t) \/ Cleanup(t) \/ CleanupRaises(t) \/ ThreadEnds(t)
        PROVE  OrderKept
    <2>1. queue' = queue /\ active' \subseteq active
      BY <1>5 DEF ContinueConversation, Stop, Resume, DeleteTask, Work, BuildRuntime,
                  EnterTurn, SafeStop, Publish, FailTurn, TargetRaises, TargetReturns,
                  Cleanup, CleanupRaises, ThreadEnds, slots
    <2> QED
      BY <1>b, <2>1
  <1>6. ASSUME Tick \/ BeginShutdown \/ StopEverything \/ CancelStopped \/ UNCHANGED vars
        PROVE  OrderKept
    <2>1. Range(<<>>) = {}
      BY DEF Range
    <2>2. Range(queue') \subseteq Range(queue) /\ active' \subseteq active
      BY <1>6, <2>1 DEF Tick, BeginShutdown, StopEverything, CancelStopped, slots, vars
    <2> QED
      BY <1>b, <2>2
  <1> QED
    BY <1>1, <1>2, <1>3, <1>4, <1>5, <1>6 DEF Next, Request, Unwind

\* Under every fault: a new task starts at once only if nobody waits, waits
\* behind all others otherwise, and nobody is overtaken in the queue.
THEOREM ArrivalOrder == Spec => FirstComeFirstServed
  <1>1. AdmissionInv /\ [Next]_vars => [OrderKept]_vars
    BY OrderStep
  <1>2. Spec => [][OrderKept]_vars
    BY <1>1, AdmissionInvariant, PTL DEF Spec
  <1> QED
    BY <1>2 DEF OrderKept, FirstComeFirstServed

-----------------------------------------------------------------------------
(* Without faults nobody waits beside a free slot, and whatever still lives   *)
(* holds a slot or waits.                                                     *)

FilledInv == phase = "up" => queue = <<>> \/ Cardinality(active) >= MaxActive

\* What is alive holds a slot or waits; what is CREATED has its worker; what has
\* begun has a runtime; once shutdown has swept the queue it stays empty.
LiveInv ==
  /\ \A t \in Tasks :
       /\ Live(state[t]) => t \in active \/ state[t] = "QUEUED"
       /\ state[t] = "CREATED" => worker[t] = "initial"
       /\ state[t] \in Underway => runtime[t] # "none"
  /\ phase \in {"stopping", "down"} => queue = <<>>

\* While storage can be written, a task a dispatch leaves CREATED has its slot
\* and its worker.
LEMMA DispatchLaunches ==
  ASSUME StorageFaults = FALSE, TypeOK, NEW act \in SUBSET Tasks, NEW d \in Dispatch(act),
         NEW t \in Tasks, d.state[t] = "CREATED"
  PROVE  \/ state[t] = "CREATED" /\ d.worker[t] = worker[t]
         \/ t \in d.active /\ d.worker[t] = "initial"
  <1>1. CASE d = NoDispatch(act)
    BY <1>1 DEF NoDispatch
  <1>2. ASSUME NEW n, NEW lost, NEW end, d = Launched(act, n, lost, end), end # "CREATED"
        PROVE  \/ state[t] = "CREATED" /\ d.worker[t] = worker[t]
               \/ t \in d.active /\ d.worker[t] = "initial"
    BY <1>2 DEF Launched
  <1>3. CASE d = Launched(act, Fit(act), 0, "CREATED")
    <2>1. overdue \in Nat /\ Fit(act) \in Nat
      BY FitBounds DEF TypeOK
    <2>2. Entries(overdue + Fit(act) + 1, overdue + Fit(act) + 0) = {}
      BY <2>1 DEF Entries
    <2> QED
      BY <1>3, <2>2 DEF Launched
  <1>4. \A end \in LaunchFailures : end # "CREATED"
    BY DEF LaunchFailures
  <1>5. \/ d = NoDispatch(act)
        \/ d = Launched(act, Fit(act), 0, "CREATED")
        \/ \E n \in 0 .. Fit(act) - 1, end \in LaunchFailures : d = Launched(act, n, 1, end)
    BY DEF Dispatch
  <1>6. CASE \E n \in 0 .. Fit(act) - 1, end \in LaunchFailures : d = Launched(act, n, 1, end)
    <2>1. PICK n \in 0 .. Fit(act) - 1, end \in LaunchFailures : d = Launched(act, n, 1, end)
      BY <1>6
    <2>2. end # "CREATED"
      BY <1>4
    <2> QED
      BY <1>2, <2>1, <2>2
  <1> QED
    BY <1>1, <1>3, <1>5, <1>6

\* Without faults every dispatch runs to its end.
LEMMA DispatchCompletes ==
  ASSUME StorageFaults = FALSE, ThreadFaults = FALSE, NEW act, NEW d \in Dispatch(act)
  PROVE  ~d.raised
  <1>1. ~NoDispatch(act).raised
    BY DEF NoDispatch
  <1>2. Launched(act, Fit(act), 0, "CREATED").raised = (0 > 0)
    BY DEF Launched
  <1>3. (0 > 0) = FALSE
    OBVIOUS
  <1>4. d = NoDispatch(act) \/ d = Launched(act, Fit(act), 0, "CREATED")
    BY DEF Dispatch, LaunchFailures
  <1>5. Launched(act, Fit(act), 0, "CREATED").raised = FALSE
    BY <1>2, <1>3, Zenon
  <1> QED
    BY <1>1, <1>4, <1>5, Zenon

LEMMA LiveStep ==
  ASSUME StorageFaults = FALSE
  PROVE  AdmissionInv /\ LiveInv /\ [Next]_vars => LiveInv'
  <1> SUFFICES ASSUME AdmissionInv, LiveInv, [Next]_vars PROVE LiveInv'
    OBVIOUS
  <1> USE DEF Absent, Terminal, TaskState, Live, Underway
  <1>a. /\ TypeOK /\ ServiceInv /\ SlotInv /\ ActiveInv
        /\ active \subseteq Tasks /\ active \in SUBSET active
        /\ active \in SUBSET Tasks
    BY DEF AdmissionInv, ServiceInv, TypeOK
  \* A dispatch keeps what LiveInv says of each task.
  <1>b. ASSUME NEW act \in SUBSET active, NEW d \in Dispatch(act), NEW T \in SUBSET Tasks,
               \A u \in T : Live(state[u]) => u \in act \/ state[u] = "QUEUED"
        PROVE  \A u \in T :
                 /\ Live(d.state[u]) => u \in d.active \/ d.state[u] = "QUEUED"
                 /\ d.state[u] = "CREATED" => d.worker[u] = "initial"
                 /\ d.state[u] \in Underway => runtime[u] # "none"
    <2> TAKE u \in T
    <2>1. \/ d.state[u] = state[u] /\ d.worker[u] = worker[u]
          \/ state[u] = "QUEUED" /\ d.state[u] \in {"CANCELLED", "CREATED", "FAILED"}
      BY <1>a, DispatchQueue DEF ServiceInv
    <2>2. act \subseteq d.active
      BY <1>a, DispatchLemma DEF DispatchEffect
    <2>3. d.state[u] = "CREATED" => \/ state[u] = "CREATED" /\ d.worker[u] = worker[u]
                                    \/ u \in d.active /\ d.worker[u] = "initial"
      BY <1>a, DispatchLaunches
    <2> QED
      BY <1>b, <2>1, <2>2, <2>3 DEF LiveInv
  <1>c. ASSUME NEW act, NEW d \in Dispatch(act), queue = <<>>, act \in SUBSET active
        PROVE  d.queue = <<>>
    <2>1. Range(d.queue) \subseteq Range(queue) /\ d.queue \in Seq(Tasks)
      BY <1>a, <1>c, DispatchOrder
    <2>2. DOMAIN queue = {} /\ Len(d.queue) \in Nat /\ DOMAIN d.queue = 1 .. Len(d.queue)
      BY <1>c, <2>1
    <2>3. DOMAIN d.queue = {}
      BY <2>1, <2>2 DEF Range
    <2>4. Len(d.queue) = 0
      <3>1. \A n \in Nat : 1 .. n = {} => n = 0
        <4> SUFFICES ASSUME NEW n \in Nat, n # 0 PROVE 1 \in 1 .. n
          OBVIOUS
        <4> QED
          OBVIOUS
      <3> QED
        BY <2>2, <2>3, <3>1
    <2> QED
      BY <2>1, <2>4
  <1>1. ASSUME NEW t \in Tasks, NEW k \in Kinds, NEW a \in Agents, CreateTask(t, k, a)
        PROVE  LiveInv'
    <2>1. PICK d \in Dispatch(active) : CreateOutcome(t, k, a, d)
      BY <1>1, <1>a, CreateTaskFields
    <2>2. \A u \in Tasks :
            /\ Live(d.state[u]) => u \in d.active \/ d.state[u] = "QUEUED"
            /\ d.state[u] = "CREATED" => d.worker[u] = "initial"
            /\ d.state[u] \in Underway => runtime[u] # "none"
      BY <1>a, <1>b DEF LiveInv
    <2>3. d \in Outcomes /\ phase' = phase /\ phase = "up" /\ runtime' = runtime
      BY <1>1, <2>1 DEF CreateOutcome, DispatchEffect, CreateTask
    <2>4. PICK end \in {"CREATED", "QUEUED", "FAILED"} :
            /\ state' = [d.state EXCEPT ![t] = end]
            /\ \/ end = "QUEUED" /\ worker' = d.worker /\ active' = d.active
               \/ end = "FAILED" /\ worker' = d.worker /\ active' = d.active
               \/ /\ end = "CREATED" /\ active' = d.active \cup {t}
                  /\ worker' = [d.worker EXCEPT ![t] = "initial"]
      BY <2>1 DEF CreateOutcome, LaunchFailures
    <2> QED
      BY <2>2, <2>3, <2>4 DEF LiveInv, Outcomes
  <1>2. ASSUME RefuseTask \/ QueueWatch PROVE LiveInv'
    <2>1. PICK d \in Dispatch(active) : Becomes(d)
      BY <1>2 DEF RefuseTask, QueueWatch
    <2>2. phase = "up" /\ phase' = phase /\ runtime' = runtime
      BY <1>2 DEF RefuseTask, QueueWatch, fixed
    <2>3. \A u \in Tasks :
            /\ Live(d.state[u]) => u \in d.active \/ d.state[u] = "QUEUED"
            /\ d.state[u] = "CREATED" => d.worker[u] = "initial"
            /\ d.state[u] \in Underway => runtime[u] # "none"
      BY <1>a, <1>b DEF LiveInv
    <2> QED
      BY <2>1, <2>2, <2>3 DEF LiveInv, Becomes
  <1>3. ASSUME NEW t \in Tasks, Release(t) PROVE LiveInv'
    <2> DEFINE act == IF state[t] \in Terminal THEN active \ {t} ELSE active
    <2>1. PICK d \in Dispatch(act) :
            /\ d \in Outcomes
            /\ state' = d.state /\ worker' = [d.worker EXCEPT ![t] = "exit"]
            /\ active' = d.active /\ queue' = d.queue
      BY <1>3, <1>a, ReleaseFields
    <2>2. /\ act \in SUBSET active /\ worker[t] = "release"
          /\ phase' = phase /\ runtime' = runtime
      BY <1>3 DEF Release, fixed
    <2>3. \A u \in Tasks : Live(state[u]) => u \in act \/ state[u] = "QUEUED"
      BY DEF LiveInv
    <2> HIDE DEF act
    <2>4. \A u \in Tasks :
            /\ Live(d.state[u]) => u \in d.active \/ d.state[u] = "QUEUED"
            /\ d.state[u] = "CREATED" => d.worker[u] = "initial"
            /\ d.state[u] \in Underway => runtime[u] # "none"
      BY <1>b, <2>2, <2>3
    <2>5. d.state[t] = state[t] /\ state[t] # "CREATED"
      <3>1. state[t] # "QUEUED" /\ act \in SUBSET Tasks
        BY <1>a, <2>2 DEF ServiceInv, WorkerInv
      <3> QED
        BY <1>a, <2>2, <3>1, DispatchQueue DEF ServiceInv, LiveInv
    <2>6. phase' \in {"stopping", "down"} => queue' = <<>>
      BY <1>c, <2>1, <2>2 DEF LiveInv
    <2> QED
      BY <2>1, <2>2, <2>4, <2>5, <2>6 DEF LiveInv, Outcomes
  <1>4. ASSUME NEW t \in Tasks,
               ContinueConversation(t) \/ Stop(t) \/ Resume(t) \/ DeleteTask(t)
        PROVE  LiveInv'
    BY <1>4, <1>a DEF LiveInv, TypeOK, ContinueConversation, Stop, Resume, DeleteTask, Step
  <1>5. ASSUME NEW t \in Tasks, CancelQueued(t) PROVE LiveInv'
    <2>1. queue # <<>>
      BY <1>5 DEF CancelQueued
    <2> QED
      BY <1>5, <1>a, <2>1 DEF LiveInv, TypeOK, CancelQueued, Step
  <1>6. ASSUME NEW t \in Tasks, Work(t) PROVE LiveInv'
    BY <1>6, <1>a DEF LiveInv, TypeOK, Work, BuildRuntime, EnterTurn, SafeStop, Publish,
                      FailTurn, TargetRaises, InTarget, Step, slots
  <1>7. ASSUME NEW t \in Tasks,
               TargetReturns(t) \/ Cleanup(t) \/ CleanupRaises(t) \/ ThreadEnds(t)
        PROVE  LiveInv'
    BY <1>7, <1>a DEF LiveInv, TypeOK, TargetReturns, Cleanup, CleanupRaises, ThreadEnds,
                      Cleaned, slots
  <1>8. ASSUME Tick \/ BeginShutdown \/ UNCHANGED vars PROVE LiveInv'
    BY <1>8 DEF LiveInv, Tick, BeginShutdown, slots, vars
  <1>9. ASSUME StopEverything PROVE LiveInv'
    <2>1. \A t \in Tasks : state[t] = "QUEUED" => t \in Range(queue)
      BY <1>a DEF ServiceInv, QueueInv, QueueOf, Range
    <2> QED
      BY <1>9, <1>a, <2>1 DEF LiveInv, TypeOK, StopEverything
  <1>10. ASSUME CancelStopped PROVE LiveInv'
    BY <1>10, <1>a DEF LiveInv, TypeOK, CancelStopped, Cleaned
  <1> QED
    BY <1>1, <1>2, <1>3, <1>4, <1>5, <1>6, <1>7, <1>8, <1>9, <1>10
    DEF Next, Request, Unwind

LEMMA FilledStep ==
  ASSUME StorageFaults = FALSE, ThreadFaults = FALSE
  PROVE  AdmissionInv /\ LeakInv /\ FilledInv /\ [Next]_vars => FilledInv'
  <1> SUFFICES ASSUME AdmissionInv, LeakInv, FilledInv, [Next]_vars, phase' = "up"
               PROVE  queue' = <<>> \/ Cardinality(active') >= MaxActive
    BY DEF FilledInv
  <1>a. /\ TypeOK /\ ServiceInv /\ SlotInv /\ ActiveInv /\ active \in SUBSET active
    BY DEF AdmissionInv, ServiceInv
  <1>b. ASSUME phase = "up", NEW act \in SUBSET active, NEW d \in Dispatch(act),
               queue' = d.queue, active' = d.active
        PROVE  queue' = <<>> \/ Cardinality(active') >= MaxActive
    BY <1>a, <1>b, DispatchFills, DispatchCompletes
  <1>1. ASSUME NEW t \in Tasks, NEW k \in Kinds, NEW a \in Agents, CreateTask(t, k, a)
        PROVE  queue' = <<>> \/ Cardinality(active') >= MaxActive
    <2>1. PICK d \in Dispatch(active) : CreateOutcome(t, k, a, d)
      BY <1>1, <1>a, CreateTaskFields
    <2>2. phase = "up"
      BY <1>1 DEF CreateTask
    <2>3. CASE Full(d) /\ active' = d.active
      BY <2>3 DEF Full
    <2>4. CASE ~Full(d) /\ queue' = d.queue
      <3>1. d.queue = <<>> \/ Cardinality(d.active) >= MaxActive
        BY <1>a, <2>2, DispatchFills, DispatchCompletes
      <3> QED
        BY <2>4, <3>1 DEF Full
    <2>5. LaunchFailures = {}
      BY DEF LaunchFailures
    <2> QED
      BY <2>1, <2>3, <2>4, <2>5 DEF CreateOutcome
  <1>2. ASSUME RefuseTask \/ QueueWatch
        PROVE  queue' = <<>> \/ Cardinality(active') >= MaxActive
    <2>1. PICK d \in Dispatch(active) : Becomes(d)
      BY <1>2 DEF RefuseTask, QueueWatch
    <2>2. phase = "up"
      BY <1>2 DEF RefuseTask, QueueWatch
    <2> QED
      BY <1>a, <1>b, <2>1, <2>2 DEF Becomes
  <1>3. ASSUME NEW t \in Tasks, Release(t)
        PROVE  queue' = <<>> \/ Cardinality(active') >= MaxActive
    <2> DEFINE act == IF state[t] \in Terminal THEN active \ {t} ELSE active
    <2>1. PICK d \in Dispatch(act) : active' = d.active /\ queue' = d.queue
      BY <1>3, <1>a, ReleaseFields
    <2>2. act \in SUBSET active /\ phase = "up"
      BY <1>3 DEF Release, fixed
    <2> HIDE DEF act
    <2> QED
      BY <1>b, <2>1, <2>2
  <1>4. ASSUME NEW t \in Tasks, DeleteTask(t)
        PROVE  queue' = <<>> \/ Cardinality(active') >= MaxActive
    <2>1. t \notin active
      BY <1>4 DEF DeleteTask, LeakInv, Busy, Underway, Terminal
    <2>2. active' = active /\ queue' = queue /\ phase = "up"
      BY <1>4, <2>1 DEF DeleteTask
    <2> QED
      BY <2>2 DEF FilledInv
  <1>5. ASSUME NEW t \in Tasks, CancelQueued(t)
        PROVE  queue' = <<>> \/ Cardinality(active') >= MaxActive
    <2>1. queue # <<>> /\ active' = active /\ phase = "up"
      BY <1>5 DEF CancelQueued
    <2> QED
      BY <2>1 DEF FilledInv
  <1>6. ASSUME \/ \E t \in Tasks :
                    \/ ContinueConversation(t) \/ Stop(t) \/ Resume(t) \/ Work(t)
                    \/ TargetReturns(t) \/ Cleanup(t) \/ CleanupRaises(t) \/ ThreadEnds(t)
               \/ Tick \/ UNCHANGED vars
        PROVE  queue' = <<>> \/ Cardinality(active') >= MaxActive
    <2>1. active' = active /\ queue' = queue /\ phase = "up"
      BY <1>6 DEF ContinueConversation, Stop, Resume, Work, BuildRuntime, EnterTurn, SafeStop,
                  Publish, FailTurn, TargetRaises, TargetReturns, Cleanup, CleanupRaises,
                  ThreadEnds, Tick, slots, vars
    <2> QED
      BY <2>1 DEF FilledInv
  <1>7. ASSUME BeginShutdown \/ StopEverything \/ CancelStopped PROVE FALSE
    BY <1>7 DEF BeginShutdown, StopEverything, CancelStopped
  <1> QED
    BY <1>1, <1>2, <1>3, <1>4, <1>5, <1>6, <1>7 DEF Next, Request, Unwind

\* Without faults nobody waits while a slot is free, and a schedule is only ever
\* blocked by a run that holds a slot or waits.  (Without the assumptions it is
\* false: a launch that fails ends the dispatch with the rest still queued.)
THEOREM WorkIsConserved ==
  ASSUME StorageFaults = FALSE, ThreadFaults = FALSE
  PROVE  Spec => []WorkConserving
  <1> DEFINE Inv == AdmissionInv /\ LeakInv /\ LiveInv /\ FilledInv
  <1>1. Init => LeakInv /\ LiveInv /\ FilledInv
    BY DEF Init, LeakInv, LiveInv, FilledInv, Live, TaskState, Terminal, Absent, Underway
  <1>2. LeakInv /\ LiveInv /\ FilledInv /\ AdmissionInv /\ [Next]_vars
          => LeakInv' /\ LiveInv' /\ FilledInv'
    BY LeakStep, LiveStep, FilledStep DEF AdmissionInv
  <1>3. Inv => WorkConserving
    <2> SUFFICES ASSUME Inv PROVE WorkConserving
      OBVIOUS
    <2>1. IsFiniteSet(active) /\ Cardinality(active) \in Nat /\ Cardinality(active) <= MaxActive
      BY TasksAssumption, FS_Subset, FS_CardinalityType
      DEF AdmissionInv, ServiceInv, TypeOK, SlotInv
    <2>2. phase = "up" /\ queue # <<>> => Cardinality(active) = MaxActive
      BY <2>1, BoundsAssumption DEF FilledInv
    <2>3. \A t \in Tasks : state[t] = "QUEUED" => t \in Range(queue)
      BY DEF AdmissionInv, ServiceInv, TypeOK, QueueInv, QueueOf, Range
    <2> QED
      BY <2>2, <2>3 DEF WorkConserving, RefusalHasCause, LiveInv
  <1> QED
    BY <1>1, <1>2, <1>3, AdmissionInvariant, PTL DEF Spec

\* While storage can be written, shutdown() returns with every task finished but
\* those whose worker has not come back.
THEOREM ShutdownIsSettled ==
  ASSUME StorageFaults = FALSE
  PROVE  Spec => ShutdownSettles
  <1> DEFINE Settled == phase' = "down" /\ phase # "down" =>
               \A t \in Tasks : Live(state'[t]) => worker'[t] # "none"
  <1>1. Init => LiveInv
    BY DEF Init, LiveInv, Live, TaskState, Terminal, Absent, Underway
  <1>2. AdmissionInv /\ LiveInv /\ [Next]_vars => LiveInv'
    BY LiveStep
  <1>3. AdmissionInv /\ LiveInv /\ [Next]_vars => [Settled]_vars
    <2> SUFFICES ASSUME AdmissionInv, LiveInv, Next, phase' = "down", phase # "down",
                        NEW t \in Tasks, worker'[t] = "none"
                 PROVE  ~Live(state'[t])
      OBVIOUS
    <2>1. CancelStopped
      BY DEF Next, Request, Work, Unwind, CreateTask, ContinueConversation, Stop, Resume,
             CancelQueued, DeleteTask, BuildRuntime, EnterTurn, SafeStop, Publish, FailTurn,
             TargetRaises, TargetReturns, Cleanup, CleanupRaises, Release, ThreadEnds,
             RefuseTask, QueueWatch, Tick, BeginShutdown, StopEverything, fixed
    <2>2. queue = <<>> /\ worker[t] = "none" /\ state[t] # "CREATED"
      BY <2>1 DEF CancelStopped, LiveInv
    <2>3. state[t] # "QUEUED"
      BY <2>2 DEF AdmissionInv, ServiceInv, QueueInv, QueueOf
    <2>4. Live(state[t]) => runtime[t] # "none"
      BY <2>2, <2>3 DEF LiveInv, Live, TaskState, Terminal, Underway
    <2> QED
      BY <2>1, <2>2, <2>4 DEF CancelStopped, Live, Terminal
  <1>4. Spec => [][Settled]_vars
    BY <1>1, <1>2, <1>3, AdmissionInvariant, PTL DEF Spec
  <1> QED
    BY <1>4 DEF ShutdownSettles

-----------------------------------------------------------------------------
(* The invariants as the runs check them.                                    *)

\* The queue is exact and typed, under every fault.
THEOREM QueueIsSound == Spec => []QueueSound
  BY TypeCorrect, QueueIsExact, PTL DEF QueueSound

\* Neither an agent id nor a schedule is shared by two tasks.
THEOREM NothingShared == Spec => []Exclusive
  BY AgentsExclusive, SchedulesExclusive, PTL DEF Exclusive

=============================================================================
