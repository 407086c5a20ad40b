--------------------------- MODULE Records_proofs ---------------------------
(* Proofs about MC_Records, for every bound of its configuration.  What the    *)
(* service has filed about a finished task (Assessment.tla) keeps its order,   *)
(* and memory, task.json, the assessment file and the history agree whenever   *)
(* nothing is in flight (VerdictsAreConsistent); a later verdict replaces an   *)
(* earlier one and never the other way round (VerdictsGoForward).  What a task *)
(* is finalized as follows from its turns (Routing.tla), what is told of it    *)
(* from what the model said, and its files agree unless something failed       *)
(* (Finalizer.tla, Claims.tla: AnswersAreHonest).                              *)
EXTENDS MC_Records, SequenceTheorems, WellFoundedInduction, TLAPS

-----------------------------------------------------------------------------
(* Assessment: the invariant, of the copies c of one task.                 *)

\* Records and copies made of the first n ids.
Upto(n) == {r \in [id : 0 .. n, rev : 0 .. n, status : Verdict!Status \cup {"none"},
                   total : 0 .. n, logged : BOOLEAN] : r.logged => r.id > 0}
CopiesUpto(n) == [mem : Upto(n), row : Upto(n), file : Upto(n), log : Seq(1 .. n)]

\* The history has the current assessment.
InLog(c) == c.file.logged => c.file.id \in Verdict!Range(c.log)

\* At any moment, whatever was interrupted: the history is in order, and an
\* assessment that it lacks is the one the next start takes for the current one.
Durable(c, sure) ==
    /\ Verdict!IsInjective(c.log)
    /\ sure /\ ~InLog(c) => Verdict!Current(c) = c.file

\* A new record is later than both stored copies.
Ahead(c, h) == h => c.row.rev <= c.mem.rev \/ c.row.rev <= c.file.rev

\* The copies of a task in life l that is in memory (h), for which no write has
\* raised (sure), no reconciliation is due (done), while requests are served
\* (up) and its classification is in flight (mine).
Kept(c, h, l, sure, done, up, mine) ==
    /\ Durable(c, sure)
    /\ l = "gone" => c = Verdict!NoCopies
    /\ up /\ l = "running" =>
         /\ h /\ ~mine /\ c.mem.status # "pending"
         /\ c.row.rev <= c.mem.rev /\ c.file.rev <= c.mem.rev
         /\ sure => c.mem = c.file /\ ~c.file.logged
    /\ l \in Verdict!Finished =>
         /\ Ahead(c, h)
         /\ sure /\ done =>
              /\ c.row = c.file /\ (h => c.mem = c.file)
              /\ InLog(c)
              /\ c.file.status = "pending" => mine \/ l = "FAILED"

Done(t) == Verdict!Running \/ (process = "booting" /\ t \notin todo)

TaskInv(t) ==
    Kept(copies[t], held[t], life[t], clean[t], Done(t), Verdict!Running, flight = t)

\* The thread, and the copies c of the task it is for.
ThreadInv(c, h, sure) ==
    /\ call.base <= ids /\ call.status # "pending"
    /\ call.stored => call.step = "done"
    /\ call.step \in {"calling", "save"} =>
         /\ c.row = c.file /\ (h => c.mem = c.file)
         /\ c.file.total = call.base
    /\ call.step = "retry" =>
         /\ ~sure /\ c.row.rev <= c.file.rev
         /\ c.row.total <= call.base + call.calls /\ c.file.total <= call.base + call.calls
    /\ call.step \in {"retry", "done"} => call.base + call.calls <= ids
    /\ call.step = "done" =>
         /\ call.stored => c.file.total = call.base + call.calls
         /\ sure => c.file.status # "pending"

\* The process and what is in its memory.
ProcessInv ==
    /\ process # "booting" => todo = {}
    /\ \A t \in todo : life[t] # "gone"
    /\ ~Verdict!Running => flight = NoTask /\ \A t \in Tasks : ~held[t]
    /\ process = "booting" => \A t \in Tasks : life[t] # "running"
    /\ flight # NoTask => life[flight] = "COMPLETED"

CopiesInv == \A t \in Tasks : copies[t] \in CopiesUpto(ids)
TasksInv  == \A t \in Tasks : TaskInv(t)
FlightInv == flight # NoTask => ThreadInv(copies[flight], held[flight], clean[flight])

VerdictInv == Verdict!TypeOK /\ CopiesInv /\ ProcessInv /\ TasksInv /\ FlightInv

-----------------------------------------------------------------------------
(* The records and the history.                                            *)

\* With more ids, there are more records.
LEMMA UptoGrows ==
    ASSUME NEW m \in Nat, NEW n \in Nat, m <= n
    PROVE  Upto(m) \subseteq Upto(n) /\ CopiesUpto(m) \subseteq CopiesUpto(n)
    <1>1. 0 .. m \subseteq 0 .. n /\ 1 .. m \subseteq 1 .. n
        OBVIOUS
    <1>2. Upto(m) \subseteq Upto(n)
        BY <1>1 DEF Upto
    <1>3. Seq(1 .. m) \subseteq Seq(1 .. n)
        BY <1>1, SeqMonotonic
    <1> QED
        BY <1>2, <1>3 DEF CopiesUpto

LEMMA CopiesAreUpto ==
    Upto(MaxSaves) \subseteq Verdict!Record /\ CopiesUpto(MaxSaves) \subseteq Verdict!Copies
    BY DEF Verdict!Record, Verdict!Copies, Upto, CopiesUpto, Verdict!Status

LEMMA NothingFits ==
    ASSUME NEW n \in Nat
    PROVE  Verdict!None \in Upto(n) /\ Verdict!NoCopies \in CopiesUpto(n)
    <1>1. Verdict!None \in Upto(n)
        BY DEF Verdict!None, Upto
    <1>2. << >> \in Seq(1 .. n)
        OBVIOUS
    <1> QED
        BY <1>1, <1>2 DEF Verdict!NoCopies, CopiesUpto

LEMMA CopiesHaveRecords ==
    ASSUME NEW n \in Nat, NEW c \in CopiesUpto(n)
    PROVE  /\ c.mem \in Upto(n) /\ c.row \in Upto(n) /\ c.file \in Upto(n)
           /\ c.log \in Seq(1 .. n)
           /\ c.mem.rev \in Nat /\ c.row.rev \in Nat /\ c.file.rev \in Nat
           /\ c.mem.total \in 0 .. n /\ c.row.total \in 0 .. n /\ c.file.total \in 0 .. n
           /\ c = [mem |-> c.mem, row |-> c.row, file |-> c.file, log |-> c.log]
    BY DEF CopiesUpto, Upto

\* A new id at the end of a history.
LEMMA LogGrows ==
    ASSUME NEW m \in Nat, NEW n \in Nat, m <= n, NEW log \in Seq(1 .. m), NEW x \in 1 .. n,
           x \notin Verdict!Range(log)
    PROVE  /\ Append(log, x) \in Seq(1 .. n)
           /\ Verdict!Range(Append(log, x)) = Verdict!Range(log) \cup {x}
           /\ Verdict!IsInjective(log) => Verdict!IsInjective(Append(log, x))
    <1>1. log \in Seq(1 .. n) /\ log \in [1 .. Len(log) -> 1 .. m] /\ Len(log) \in Nat
        BY 1 .. m \subseteq 1 .. n, SeqMonotonic, LenProperties
    <1>2. /\ Append(log, x) \in Seq(1 .. n)
          /\ DOMAIN log = 1 .. Len(log)
          /\ DOMAIN Append(log, x) = 1 .. Len(log) + 1
          /\ \A i \in 1 .. Len(log) : Append(log, x)[i] = log[i]
          /\ Append(log, x)[Len(log) + 1] = x
        BY <1>1
    <1>3. \A i \in 1 .. Len(log) + 1 : i \in 1 .. Len(log) \/ i = Len(log) + 1
        BY <1>1
    <1>4. Verdict!Range(Append(log, x)) = Verdict!Range(log) \cup {x}
        BY <1>1, <1>2, <1>3 DEF Verdict!Range
    <1>5. ASSUME Verdict!IsInjective(log) PROVE Verdict!IsInjective(Append(log, x))
        BY <1>1, <1>2, <1>3, <1>5 DEF Verdict!Range, Verdict!IsInjective
    <1> QED
        BY <1>2, <1>4, <1>5

LEMMA IdsOfLog ==
    ASSUME NEW n \in Nat, NEW log \in Seq(1 .. n)
    PROVE  Verdict!Range(log) \subseteq 1 .. n
    BY LenProperties DEF Verdict!Range

\* The record a save stores: a new id, and later than both stored copies.
LEMMA NewRecord ==
    ASSUME ids \in Nat, NEW n \in Nat, ids <= n, NEW c \in CopiesUpto(n),
           NEW h \in BOOLEAN, Ahead(c, h),
           NEW status \in Verdict!Status, NEW calls \in {0, 1}, NEW r,
           r = Verdict!Added(c, h, status, calls)
    PROVE  /\ r \in Upto(n + 1)
           /\ r.id = ids + 1 /\ r.logged /\ r.status = status
           /\ r.total = Verdict!Previous(c, h).total + calls
           /\ r.rev > c.row.rev /\ r.rev > c.file.rev
    <1>1. c.mem \in Upto(n) /\ c.row \in Upto(n) /\ c.file \in Upto(n)
        BY DEF CopiesUpto
    <1>2. Verdict!Previous(c, h) \in Upto(n)
        BY <1>1 DEF Verdict!Previous, Verdict!Known
    <1>3. Verdict!Previous(c, h).rev >= c.row.rev /\ Verdict!Previous(c, h).rev >= c.file.rev
        BY <1>1 DEF Verdict!Previous, Verdict!Known, Upto, Ahead
    <1>4. r = [id |-> ids + 1, rev |-> Verdict!Previous(c, h).rev + 1, status |-> status,
               total |-> Verdict!Previous(c, h).total + calls, logged |-> TRUE]
        BY DEF Verdict!Added, Verdict!Successor
    <1> QED
        BY <1>1, <1>2, <1>3, <1>4 DEF Upto

\* What w is when the first k writes of r are made to c, with ids up to m.
Stores(c, h, sure, r, k, w, m) ==
    /\ w \in CopiesUpto(m)
    /\ Durable(w, sure) /\ Ahead(w, h)
    /\ Verdict!Range(c.log) \subseteq Verdict!Range(w.log)
    /\ w.file.rev >= c.file.rev /\ w.row.rev >= c.row.rev
    /\ w.file \in {c.file, r}
    /\ w.row = IF k = Verdict!All THEN r ELSE c.row
    /\ k < Verdict!All => w.row.rev <= w.file.rev \/ w.file = c.file
    /\ k = Verdict!All => w.file = r /\ (h => w.mem = r) /\ InLog(w)

\* The first k writes of a record that is later than both stored copies.
LEMMA Saved ==
    ASSUME NEW n \in Nat, NEW m \in Nat, n < m, NEW c \in CopiesUpto(n), NEW h \in BOOLEAN,
           NEW sure \in BOOLEAN, NEW r \in Upto(m), r.id > n, r.logged,
           r.rev > c.row.rev, r.rev > c.file.rev, Ahead(c, h), Durable(c, sure),
           NEW k \in 0 .. Verdict!All, NEW w, w = Verdict!Written(c, h, r, k)
    PROVE  Stores(c, h, sure, r, k, w, m)
    <1>1. /\ c.mem \in Upto(m) /\ c.row \in Upto(m) /\ c.file \in Upto(m) /\ c.log \in Seq(1 .. m)
          /\ c.log \in Seq(1 .. n)
        BY UptoGrows DEF CopiesUpto
    <1>2. r.id \in 1 .. m /\ r.id \notin Verdict!Range(c.log)
        BY <1>1, IdsOfLog DEF Upto
    <1>3. /\ Append(c.log, r.id) \in Seq(1 .. m)
          /\ Verdict!Range(Append(c.log, r.id)) = Verdict!Range(c.log) \cup {r.id}
          /\ Verdict!IsInjective(Append(c.log, r.id))
        BY <1>1, <1>2, LogGrows DEF Durable
    <1>4. /\ w.mem = IF h /\ k >= 3 THEN r ELSE c.mem
          /\ w.row = IF k >= 4 THEN r ELSE c.row
          /\ w.file = IF k >= 1 THEN r ELSE c.file
          /\ w.log = IF k >= 2 THEN Append(c.log, r.id) ELSE c.log
        BY DEF Verdict!Written
    <1>5. w \in CopiesUpto(m)
        BY <1>1, <1>3 DEF Verdict!Written, CopiesUpto
    <1>6. r.rev \in Nat /\ c.row.rev \in Nat /\ c.file.rev \in Nat /\ c.mem.rev \in Nat
        BY <1>1 DEF Upto
    <1>7. k \in {0, 1, 2, 3, 4} /\ Verdict!All = 4
        BY DEF Verdict!All
    <1>8. Verdict!Range(c.log) \subseteq Verdict!Range(w.log) /\ (k >= 2 => InLog(w))
        BY <1>3, <1>4, <1>7 DEF InLog
    <1>9. Durable(w, sure)
        <2>1. Verdict!IsInjective(w.log)
            BY <1>3, <1>4 DEF Durable
        <2>2. CASE k = 0
            <3>1. w.file = c.file /\ w.row = c.row /\ w.log = c.log
                BY <1>4, <2>2
            <3> QED
                BY <2>1, <3>1 DEF Durable, InLog, Verdict!Current
        <2>3. CASE k = 1
            <3>1. w.file = r /\ w.row = c.row
                BY <1>4, <2>3
            <3> QED
                BY <2>1, <3>1, <1>6 DEF Durable, Verdict!Current
        <2>4. CASE k >= 2
            BY <2>1, <2>4, <1>8 DEF Durable
        <2> QED
            BY <1>7, <2>2, <2>3, <2>4
    <1>10. Ahead(w, h)
        BY <1>4, <1>6, <1>7 DEF Ahead
    <1> QED
        BY <1>4, <1>5, <1>6, <1>7, <1>8, <1>9, <1>10 DEF Stores

\* What d is when the first k repairs are made to c.
Repairs(c, sure, k, d, n) ==
    /\ d \in CopiesUpto(n)
    /\ Durable(d, sure)
    /\ Verdict!Range(c.log) \subseteq Verdict!Range(d.log)
    /\ d.file.rev >= c.file.rev /\ d.row.rev >= c.row.rev
    /\ sure /\ c.file.logged /\ (d.file # c.file \/ k = 3) => c.file.id \in Verdict!Range(d.log)
    /\ k = 3 => d.row = d.file /\ d.file = Verdict!Current(c) /\ InLog(d) /\ Durable(d, TRUE)

\* The first k repairs of copies that are durable.
LEMMA RepairKeeps ==
    ASSUME NEW n \in Nat, NEW c \in CopiesUpto(n), NEW sure \in BOOLEAN, Durable(c, sure),
           NEW k \in 0 .. 3, NEW d, d = Verdict!Repaired(c, k)
    PROVE  Repairs(c, sure, k, d, n)
    <1>1. /\ c.mem \in Upto(n) /\ c.row \in Upto(n) /\ c.file \in Upto(n) /\ c.log \in Seq(1 .. n)
          /\ c.row.rev \in Nat /\ c.file.rev \in Nat
        BY DEF CopiesUpto, Upto
    <1> DEFINE r == Verdict!Current(c)
    <1>2. r \in Upto(n) /\ r \in {c.file, c.row} /\ r.rev >= c.file.rev /\ r.rev >= c.row.rev
        BY <1>1 DEF Verdict!Current, Upto
    <1>3. /\ d.mem = c.mem
          /\ d.row = IF k >= 1 THEN r ELSE c.row
          /\ d.file = IF k >= 2 THEN r ELSE c.file
          /\ d.log = IF k >= 3 /\ r.logged /\ r.id \notin Verdict!Range(c.log)
                     THEN Append(c.log, r.id) ELSE c.log
        BY DEF Verdict!Repaired
    <1>4. ASSUME r.id \notin Verdict!Range(c.log), r.logged, r.id \in 1 .. n
          PROVE  /\ Append(c.log, r.id) \in Seq(1 .. n)
                 /\ Verdict!Range(Append(c.log, r.id)) = Verdict!Range(c.log) \cup {r.id}
                 /\ Verdict!IsInjective(Append(c.log, r.id))
        BY <1>1, <1>4, LogGrows DEF Durable
    <1>5. /\ d \in CopiesUpto(n)
          /\ Verdict!IsInjective(d.log)
          /\ Verdict!Range(c.log) \subseteq Verdict!Range(d.log)
          /\ k = 3 /\ r.logged => r.id \in Verdict!Range(d.log)
        <2>1. CASE d.log = c.log /\ ~(k = 3 /\ r.logged /\ r.id \notin Verdict!Range(c.log))
            BY <1>1, <1>2, <1>3, <2>1 DEF CopiesUpto, Durable, Verdict!Repaired
        <2>2. CASE k = 3 /\ r.logged /\ r.id \notin Verdict!Range(c.log)
            <3>1. r.id \in 1 .. n
                BY <1>2, <2>2 DEF Upto
            <3>2. d.log = Append(c.log, r.id)
                BY <1>3, <2>2
            <3> QED
                BY <1>1, <1>2, <1>3, <1>4, <2>2, <3>1, <3>2 DEF CopiesUpto, Verdict!Repaired
        <2> QED
            BY <1>3, <2>1, <2>2
    <1>6. d.file.rev >= c.file.rev /\ d.row.rev >= c.row.rev
        BY <1>1, <1>2, <1>3 DEF Upto
    <1>7. sure /\ c.file.logged /\ (d.file # c.file \/ k = 3) => c.file.id \in Verdict!Range(d.log)
        BY <1>3, <1>5 DEF Durable, InLog
    <1>8. Durable(d, sure)
        <2>1. CASE k = 0
            BY <1>3, <2>1 DEF Durable, InLog, Verdict!Current
        <2>2. CASE k >= 1
            <3>1. Verdict!Current(d) = d.file \/ (d.file = c.file /\ d.log = c.log)
                BY <1>1, <1>2, <1>3, <2>2 DEF Verdict!Current
            <3>2. d.file = c.file => Verdict!Current(d) = d.file \/ Verdict!Current(c) # c.file
                BY <1>1, <1>2, <1>3, <2>2 DEF Verdict!Current
            <3> QED
                BY <1>5, <3>1, <3>2 DEF Durable, InLog
        <2> QED
            BY <2>1, <2>2
    <1>9. k = 3 => d.row = d.file /\ d.file = r /\ InLog(d) /\ Durable(d, TRUE)
        BY <1>3, <1>5 DEF InLog, Durable
    <1> QED
        BY <1>5, <1>6, <1>7, <1>8, <1>9 DEF Repairs

-----------------------------------------------------------------------------
(* The shapes of a step.                                                   *)

\* What no step may do to copies c when it makes them d.
Forth(c, d, sure) ==
    /\ d.file.rev >= c.file.rev /\ d.row.rev >= c.row.rev
    /\ sure /\ c.file.logged /\ d.file # c.file => c.file.id \in Verdict!Range(d.log)

\* What every step of the component does.
Advances == VerdictInv' /\ Verdict!ReplacedByStep /\ Verdict!ForwardByStep

Lives == {"running", "COMPLETED", "FAILED", "gone"}

LEMMA ForthIsByStep ==
    ASSUME \A u \in Tasks : life'[u] # "gone" => Forth(copies[u], copies'[u], clean[u] /\ clean'[u])
    PROVE  Verdict!ReplacedByStep /\ Verdict!ForwardByStep
    BY DEF Forth, Verdict!ReplacedByStep, Verdict!ForwardByStep

\* The copies of one task are rewritten, and the process goes on.
LEMMA Rewrites ==
    ASSUME VerdictInv, NEW t \in Tasks, NEW c, Verdict!Becomes(t, c),
           ids' \in 0 .. MaxSaves, ids <= ids', c \in CopiesUpto(ids'),
           process' = process, todo' \in SUBSET Tasks, todo' \cup {t} = todo \cup {t},
           NEW l \in Lives, life' = [life EXCEPT ![t] = l],
           NEW g \in BOOLEAN, held' = [held EXCEPT ![t] = g],
           NEW b \in BOOLEAN, clean' = [clean EXCEPT ![t] = b],
           flight' \in Tasks \cup {NoTask}, call' \in Verdict!Call \cup {Verdict!NoCall},
           flight' = NoTask <=> call' = Verdict!NoCall,
           \A u \in Tasks : u # t => (flight' = u <=> flight = u),
           ProcessInv', FlightInv', TaskInv(t)',
           l # "gone" => Forth(copies[t], c, clean[t] /\ b)
    PROVE  Advances
    <1>1. /\ copies \in [Tasks -> Verdict!Copies] /\ life \in [Tasks -> Lives]
          /\ held \in [Tasks -> BOOLEAN] /\ clean \in [Tasks -> BOOLEAN]
          /\ ids \in Nat /\ ids' \in Nat /\ MaxSaves \in Nat
        BY VerdictAssumption DEF VerdictInv, Verdict!TypeOK, Lives, Verdict!SavesAssumption
    <1>2. /\ copies'[t] = c /\ life'[t] = l /\ held'[t] = g /\ clean'[t] = b
          /\ \A u \in Tasks : u # t => /\ copies'[u] = copies[u] /\ life'[u] = life[u]
                                       /\ held'[u] = held[u] /\ clean'[u] = clean[u]
                                       /\ (u \in todo' <=> u \in todo)
        BY <1>1 DEF Verdict!Becomes
    <1>3. \A u \in Tasks : copies'[u] \in CopiesUpto(ids')
        BY <1>1, <1>2, UptoGrows DEF VerdictInv, CopiesInv
    <1>4. CopiesUpto(ids') \subseteq Verdict!Copies
        BY <1>1, UptoGrows, CopiesAreUpto
    <1>5. copies' \in [Tasks -> Verdict!Copies]
        BY <1>1, <1>3, <1>4 DEF Verdict!Becomes
    <1>6. Verdict!TypeOK'
        BY <1>1, <1>5, VerdictAssumption DEF VerdictInv, Verdict!TypeOK, Lives, Verdict!Call, Verdict!NoCall, Verdict!Status, Verdict!Copies, Verdict!Record
    <1>7. \A u \in Tasks : TaskInv(u)'
        <2> SUFFICES ASSUME NEW u \in Tasks, u # t PROVE TaskInv(u)'
            OBVIOUS
        <2>1. TaskInv(u)
            BY DEF VerdictInv, TasksInv
        <2> QED
            BY <1>2, <2>1 DEF TaskInv, Done, Kept, Verdict!Running
    <1>8. \A u \in Tasks : life'[u] # "gone" => Forth(copies[u], copies'[u], clean[u] /\ clean'[u])
        <2> SUFFICES ASSUME NEW u \in Tasks, u # t
                     PROVE  Forth(copies[u], copies'[u], clean[u] /\ clean'[u])
            BY <1>1, <1>2
        <2>1. copies[u] \in CopiesUpto(ids) /\ ids \in Nat
            BY <1>1 DEF VerdictInv, CopiesInv
        <2>2. copies[u].file.rev \in Nat /\ copies[u].row.rev \in Nat
            BY <2>1, CopiesHaveRecords
        <2> QED
            BY <1>2, <2>2 DEF Forth
    <1> QED
        BY <1>3, <1>6, <1>7, <1>8, ForthIsByStep DEF Advances, VerdictInv, CopiesInv, TasksInv

\* The process ends; of the copies, those in memory are lost.
LEMMA Ends ==
    ASSUME VerdictInv, NEW cs \in [Tasks -> CopiesUpto(ids')], copies' = Verdict!Lost(cs),
           Verdict!Down, UNCHANGED <<life, clean>>, ids' \in 0 .. MaxSaves, ids <= ids',
           \A u \in Tasks : /\ Durable(cs[u], clean[u]) /\ Forth(copies[u], cs[u], clean[u])
                            /\ life[u] = "gone" => cs[u] = Verdict!NoCopies
    PROVE  Advances
    <1>1. /\ life \in [Tasks -> Lives] /\ clean \in [Tasks -> BOOLEAN]
          /\ ids \in Nat /\ ids' \in Nat /\ MaxSaves \in Nat /\ NoTask \notin Tasks
        BY VerdictAssumption DEF VerdictInv, Verdict!TypeOK, Lives, Verdict!SavesAssumption, Verdict!TaskAssumption
    <1>2. ASSUME NEW u \in Tasks
          PROVE  /\ copies'[u].row = cs[u].row /\ copies'[u].file = cs[u].file
                 /\ copies'[u].log = cs[u].log /\ copies'[u] \in CopiesUpto(ids')
                 /\ cs[u] = Verdict!NoCopies => copies'[u] = Verdict!NoCopies
        <2>1. copies'[u] = [mem |-> Verdict!None, row |-> cs[u].row, file |-> cs[u].file, log |-> cs[u].log]
            BY DEF Verdict!Lost, CopiesUpto
        <2>2. Verdict!None \in Upto(ids')
            BY <1>1, NothingFits
        <2> QED
            BY <2>1, <2>2 DEF CopiesUpto, Verdict!NoCopies
    <1>3. CopiesUpto(ids') \subseteq Verdict!Copies
        BY <1>1, UptoGrows, CopiesAreUpto
    <1>4. copies' \in [Tasks -> Verdict!Copies]
        BY <1>2, <1>3 DEF Verdict!Lost
    <1>5. /\ process' = "off" /\ todo' = {} /\ flight' = NoTask /\ call' = Verdict!NoCall
          /\ held' = [u \in Tasks |-> FALSE]
        BY DEF Verdict!Down
    <1>6. Verdict!TypeOK'
        BY <1>1, <1>4, <1>5 DEF Verdict!TypeOK, Lives
    <1>7. ~Verdict!Running'
        BY <1>5 DEF Verdict!Running
    <1>8. ProcessInv' /\ FlightInv'
        BY <1>5, <1>7 DEF ProcessInv, FlightInv
    <1>9. ASSUME NEW u \in Tasks PROVE TaskInv(u)'
        <2>1. ~held'[u] /\ ~Done(u)' /\ ~Verdict!Running'
            BY <1>5, <1>7 DEF Done
        <2>2. Durable(copies'[u], clean'[u])
            BY <1>2 DEF Durable, InLog, Verdict!Current
        <2>3. Ahead(copies'[u], held'[u])
            BY <2>1 DEF Ahead
        <2> QED
            BY <1>2, <2>1, <2>2, <2>3 DEF TaskInv, Kept
    <1>10. \A u \in Tasks : Forth(copies[u], copies'[u], clean[u] /\ clean'[u])
        BY <1>2 DEF Forth
    <1> QED
        BY <1>2, <1>6, <1>8, <1>9, <1>10, ForthIsByStep DEF Advances, VerdictInv, CopiesInv, TasksInv

\* ... after writes for one task.
LEMMA EndsAfter ==
    ASSUME VerdictInv, NEW t \in Tasks, NEW c, Verdict!Dies(t, c), life' = life,
           ids' \in 0 .. MaxSaves, ids <= ids', c \in CopiesUpto(ids'), life[t] # "gone",
           Durable(c, clean[t]), Forth(copies[t], c, clean[t])
    PROVE  Advances
    <1> DEFINE cs == [copies EXCEPT ![t] = c]
    <1>1. copies \in [Tasks -> Verdict!Copies] /\ ids \in Nat /\ ids' \in Nat
        BY VerdictAssumption DEF VerdictInv, Verdict!TypeOK, Verdict!SavesAssumption
    <1>2. cs[t] = c /\ \A u \in Tasks : u # t => cs[u] = copies[u]
        BY <1>1
    <1>3. cs \in [Tasks -> CopiesUpto(ids')]
        BY <1>1, <1>2, UptoGrows DEF VerdictInv, CopiesInv
    <1>4. ASSUME NEW u \in Tasks
          PROVE  /\ Durable(cs[u], clean[u]) /\ Forth(copies[u], cs[u], clean[u])
                 /\ life[u] = "gone" => cs[u] = Verdict!NoCopies
        <2>1. CASE u = t
            BY <1>2, <2>1
        <2>2. CASE u # t
            <3>1. copies[u] \in Verdict!Copies
                BY <1>1
            <3>2. copies[u].file.rev \in Nat /\ copies[u].row.rev \in Nat
                BY <3>1 DEF Verdict!Copies, Verdict!Record
            <3>3. TaskInv(u)
                BY DEF VerdictInv, TasksInv
            <3> QED
                BY <1>2, <2>2, <3>2, <3>3 DEF TaskInv, Kept, Forth
        <2> QED
            BY <2>1, <2>2
    <1>5. copies' = Verdict!Lost(cs) /\ Verdict!Down /\ UNCHANGED <<life, clean>>
        BY DEF Verdict!Dies
    <1> QED
        BY <1>3, <1>4, <1>5, Ends

\* A thread is not disturbed by what is written for other tasks.
LEMMA FlightKept ==
    ASSUME VerdictInv, NEW t \in Tasks, flight # t, NEW c, Verdict!Becomes(t, c),
           UNCHANGED <<flight, call>>, ids' \in Nat, ids <= ids',
           \A u \in Tasks : u # t => held'[u] = held[u] /\ clean'[u] = clean[u]
    PROVE  FlightInv'
    <1> SUFFICES ASSUME flight # NoTask
                 PROVE  ThreadInv(copies[flight], held[flight], clean[flight])'
        BY DEF FlightInv
    <1>1. /\ flight \in Tasks /\ copies \in [Tasks -> Verdict!Copies] /\ ids \in Nat
          /\ call \in Verdict!Call
        BY DEF VerdictInv, Verdict!TypeOK
    <1>2. /\ copies'[flight'] = copies[flight] /\ held'[flight'] = held[flight]
          /\ clean'[flight'] = clean[flight]
        BY <1>1 DEF Verdict!Becomes
    <1>3. call.base \in Nat /\ call.calls \in {0, 1}
        BY <1>1 DEF Verdict!Call
    <1> QED
        BY <1>1, <1>2, <1>3 DEF VerdictInv, FlightInv, ThreadInv

\* The copies of one task are rewritten and nothing else of it changes.
LEMMA InPlace ==
    ASSUME VerdictInv, NEW t \in Tasks, NEW c, Verdict!Becomes(t, c),
           ids' \in 0 .. MaxSaves, ids <= ids', c \in CopiesUpto(ids'),
           UNCHANGED <<process, todo, life, held>>,
           NEW b \in BOOLEAN, clean' = [clean EXCEPT ![t] = b],
           flight' = flight \/ (flight = NoTask /\ flight' = t /\ Verdict!Running /\ life[t] = "COMPLETED"),
           call' \in Verdict!Call \cup {Verdict!NoCall}, flight' = NoTask <=> call' = Verdict!NoCall,
           Kept(c, held[t], life[t], b, Done(t), Verdict!Running, flight' = t),
           FlightInv', Forth(copies[t], c, clean[t] /\ b)
    PROVE  Advances
    <1>1. /\ copies \in [Tasks -> Verdict!Copies] /\ life \in [Tasks -> Lives]
          /\ held \in [Tasks -> BOOLEAN] /\ clean \in [Tasks -> BOOLEAN]
          /\ todo \in SUBSET Tasks /\ flight \in Tasks \cup {NoTask} /\ NoTask \notin Tasks
        BY VerdictAssumption DEF VerdictInv, Verdict!TypeOK, Lives, Verdict!TaskAssumption
    <1>2. /\ life[t] \in Lives /\ life' = [life EXCEPT ![t] = life[t]]
          /\ held[t] \in BOOLEAN /\ held' = [held EXCEPT ![t] = held[t]]
          /\ process' = process /\ todo' \in SUBSET Tasks /\ todo' \cup {t} = todo \cup {t}
        BY <1>1
    <1>3. /\ flight' \in Tasks \cup {NoTask}
          /\ \A u \in Tasks : u # t => (flight' = u <=> flight = u)
        BY <1>1
    <1>4. ProcessInv'
        BY <1>1 DEF VerdictInv, ProcessInv, Verdict!Running
    <1>5. copies'[t] = c /\ clean'[t] = b
        BY <1>1 DEF Verdict!Becomes
    <1>6. TaskInv(t)'
        BY <1>5 DEF TaskInv, Done, Kept, Verdict!Running
    <1> QED
        BY <1>2, <1>3, <1>4, <1>6, Rewrites

\* What is known of a save of r for a finished task, after k of its writes.
SavedAs(t, status, calls, r, k, w, m) ==
    /\ w \in CopiesUpto(m)
    /\ Durable(w, clean[t]) /\ Durable(w, FALSE) /\ Ahead(w, held[t])
    /\ Forth(copies[t], w, clean[t])
    /\ Verdict!Range(copies[t].log) \subseteq Verdict!Range(w.log)
    /\ clean[t] => InLog(copies[t])
    /\ r \in Upto(m) /\ r.status = status
    /\ r.total = Verdict!Previous(copies[t], held[t]).total + calls
    /\ k = Verdict!All => /\ w.file = r /\ w.row = r /\ (held[t] => w.mem = r)
                          /\ InLog(w)
    /\ w.file \in {copies[t].file, r}
    /\ k < Verdict!All => /\ w.row = copies[t].row
                          /\ w.row.rev <= w.file.rev \/ w.file = copies[t].file

\* A save for a finished task, while requests are served.
LEMMA OneSave ==
    ASSUME VerdictInv, Verdict!Running, NEW t \in Tasks, life[t] \in Verdict!Finished,
           NEW m \in Nat, m = ids + 1,
           NEW status \in Verdict!Status, NEW calls \in {0, 1}, NEW k \in 0 .. Verdict!All,
           NEW r, r = Verdict!Added(copies[t], held[t], status, calls),
           NEW w, w = Verdict!Written(copies[t], held[t], r, k)
    PROVE  SavedAs(t, status, calls, r, k, w, m)
    <1> DEFINE c == copies[t] h == held[t] sure == clean[t]
    <1>1. /\ c \in CopiesUpto(ids) /\ ids \in Nat /\ h \in BOOLEAN /\ sure \in BOOLEAN
          /\ Durable(c, sure) /\ Ahead(c, h) /\ (sure => InLog(c))
        <2>1. Kept(c, h, life[t], sure, Done(t), Verdict!Running, flight = t) /\ Done(t)
            BY DEF VerdictInv, TasksInv, TaskInv, Done
        <2>2. Durable(c, sure) /\ Ahead(c, h) /\ (sure => InLog(c))
            BY <2>1 DEF Kept
        <2>3. c \in CopiesUpto(ids) /\ ids \in Nat /\ h \in BOOLEAN /\ sure \in BOOLEAN
            BY DEF VerdictInv, CopiesInv, Verdict!TypeOK
        <2> QED
            BY <2>2, <2>3
    <1> HIDE DEF c, h, sure
    <1>2. r = Verdict!Added(c, h, status, calls) /\ w = Verdict!Written(c, h, r, k)
        BY DEF c, h
    <1>3. /\ r \in Upto(m)
          /\ r.id = m /\ r.logged /\ r.status = status
          /\ r.total = Verdict!Previous(c, h).total + calls
          /\ r.rev > c.row.rev /\ r.rev > c.file.rev
        BY <1>1, <1>2, NewRecord
    <1>4. ids < m /\ r.id > ids
        BY <1>1, <1>3
    <1>5. Stores(c, h, sure, r, k, w, m)
        BY <1>1, <1>2, <1>3, <1>4, Saved
    <1>6. Durable(w, FALSE)
        BY <1>5 DEF Durable, Stores
    <1>7. Forth(c, w, sure)
        BY <1>1, <1>5 DEF Forth, InLog, Stores
    <1>8. Verdict!All = 4
        BY DEF Verdict!All
    <1> QED
        <2>1. (k = Verdict!All => w.row = r) /\ (k < Verdict!All => w.row = c.row)
            BY <1>5, <1>8 DEF Stores
        <2> QED
            BY <1>1, <1>3, <1>5, <1>6, <1>7, <2>1, Zenon DEF c, h, sure, Stores, SavedAs

-----------------------------------------------------------------------------
(* Each step.                                                              *)

\* request_assessment without the model.
LEMMA JudgeStep ==
    ASSUME VerdictInv, NEW t \in Tasks, Verdict!Judge(t)
    PROVE  Advances
    <1>1. PICK status \in Verdict!Status \ {"pending"}, k \in 0 .. Verdict!All :
            LET c == Verdict!Written(copies[t], held[t], Verdict!Added(copies[t], held[t], status, 0), k)
            IN  \/ /\ k = Verdict!All
                   /\ Verdict!Becomes(t, c)
                   /\ UNCHANGED <<process, todo, held, flight, call, clean>>
                \/ Verdict!Dies(t, c)
                \/ /\ k < Verdict!All /\ Verdict!Raises(t, c)
                   /\ UNCHANGED <<process, todo, held, flight, call>>
        BY DEF Verdict!Judge, Verdict!Status
    <1> DEFINE r == Verdict!Added(copies[t], held[t], status, 0)
               w == Verdict!Written(copies[t], held[t], r, k)
    <1>2. /\ Verdict!Running /\ life[t] \in Verdict!Finished /\ flight # t /\ life' = life
          /\ ids' = ids + 1 /\ ids' \in 0 .. MaxSaves /\ ids <= ids' /\ ids \in Nat /\ ids' \in Nat
          /\ life[t] # "gone" /\ life[t] # "running" /\ Done(t)
        BY VerdictAssumption DEF Verdict!Judge, Verdict!Room, Verdict!Running, Verdict!Finished, VerdictInv, Verdict!TypeOK, Done, Verdict!SavesAssumption
    <1>3. status \in Verdict!Status /\ status # "pending" /\ 0 \in {0, 1}
        OBVIOUS
    <1>4. SavedAs(t, status, 0, r, k, w, ids')
        BY <1>2, <1>3, OneSave
    <1> HIDE DEF w, r
    <1>5. /\ call' = call => call' \in Verdict!Call \cup {Verdict!NoCall}
          /\ flight = NoTask <=> call = Verdict!NoCall
          /\ clean[t] \in BOOLEAN /\ clean \in [Tasks -> BOOLEAN] /\ held \in [Tasks -> BOOLEAN]
        BY DEF VerdictInv, Verdict!TypeOK
    <1>6. CASE Verdict!Dies(t, w)
        BY <1>2, <1>4, <1>6, EndsAfter DEF SavedAs
    <1>7. CASE /\ k = Verdict!All /\ Verdict!Becomes(t, w)
               /\ UNCHANGED <<process, todo, held, flight, call, clean>>
        <2>1. Kept(w, held[t], life[t], clean[t], Done(t), Verdict!Running, flight' = t)
            BY <1>2, <1>3, <1>4, <1>7 DEF Kept, SavedAs
        <2>2. clean' = [clean EXCEPT ![t] = clean[t]]
            BY <1>5, <1>7
        <2>3. FlightInv'
            BY <1>2, <1>7, FlightKept
        <2>4. Forth(copies[t], w, clean[t] /\ clean[t])
            BY <1>4 DEF Forth, SavedAs
        <2> QED
            BY <1>2, <1>4, <1>5, <1>7, <2>1, <2>2, <2>3, <2>4, InPlace DEF SavedAs
    <1>8. CASE /\ k < Verdict!All /\ Verdict!Raises(t, w)
               /\ UNCHANGED <<process, todo, held, flight, call>>
        <2>1. Verdict!Becomes(t, w) /\ clean' = [clean EXCEPT ![t] = FALSE]
            BY <1>8 DEF Verdict!Raises
        <2>2. Kept(w, held[t], life[t], FALSE, Done(t), Verdict!Running, flight' = t)
            BY <1>2, <1>4, <1>8 DEF Kept, SavedAs
        <2>3. FlightInv'
            BY <1>2, <1>5, <1>8, <2>1, FlightKept
        <2>4. Forth(copies[t], w, clean[t] /\ FALSE)
            BY <1>4 DEF Forth, SavedAs
        <2> QED
            BY <1>2, <1>4, <1>5, <1>8, <2>1, <2>2, <2>3, <2>4, InPlace DEF SavedAs
    <1> QED
        BY <1>1, <1>6, <1>7, <1>8 DEF r, w

\* request_assessment with the model: a thread begins, or the process ends.
LEMMA ClassifyStep ==
    ASSUME VerdictInv, NEW t \in Tasks, Verdict!Classify(t)
    PROVE  Advances
    <1> DEFINE r == Verdict!Pending(t)
               w(k) == Verdict!Written(copies[t], held[t], r, k)
    <1>1. /\ Verdict!Running /\ life[t] = "COMPLETED" /\ life[t] \in Verdict!Finished
          /\ flight = NoTask /\ t # NoTask /\ life' = life /\ Done(t)
          /\ ids' = ids + 1 /\ ids' \in 0 .. MaxSaves /\ ids <= ids' /\ ids \in Nat /\ ids' \in Nat
          /\ life[t] # "gone" /\ life[t] # "running" /\ MaxSaves \in Nat
        BY VerdictAssumption DEF Verdict!Classify, Verdict!MayClassify, Verdict!Room, Verdict!Running, Verdict!Finished, VerdictInv, Verdict!TypeOK, Done, Verdict!SavesAssumption, Verdict!TaskAssumption
    <1>2. ASSUME NEW k \in 0 .. Verdict!All PROVE SavedAs(t, "pending", 0, r, k, w(k), ids')
        BY <1>1, OneSave DEF Verdict!Pending, Verdict!Status
    <1>3. CASE \E k \in 0 .. Verdict!All : Verdict!Dies(t, w(k))
        BY <1>1, <1>2, <1>3, EndsAfter DEF SavedAs
    <1>4. CASE /\ Verdict!Becomes(t, w(Verdict!All))
               /\ flight' = t
               /\ call' = [step |-> "calling", status |-> "needs_review", calls |-> 0,
                           base |-> r.total, stored |-> FALSE]
               /\ UNCHANGED <<process, todo, held, clean>>
        <2> DEFINE c == w(Verdict!All)
        <2>1. SavedAs(t, "pending", 0, r, Verdict!All, c, ids')
            BY <1>2 DEF Verdict!All
        <2> HIDE DEF r, w, c
        <2>2. r.total \in 0 .. ids'
            BY <2>1 DEF SavedAs, Upto
        <2>3. call' \in Verdict!Call
            BY <1>1, <1>4, <2>2 DEF Verdict!Call, Verdict!Status
        <2>4. clean[t] \in BOOLEAN /\ clean' = [clean EXCEPT ![t] = clean[t]]
            BY <1>4 DEF VerdictInv, Verdict!TypeOK
        <2>5. Kept(c, held[t], life[t], clean[t], Done(t), Verdict!Running, flight' = t)
            BY <1>1, <1>4, <2>1 DEF Kept, SavedAs
        <2>6. copies'[t] = c
            BY <1>4 DEF Verdict!Becomes, VerdictInv, Verdict!TypeOK, c
        <2>7. FlightInv'
            BY <1>4, <2>1, <2>2, <2>6 DEF FlightInv, ThreadInv, SavedAs
        <2>8. Forth(copies[t], c, clean[t] /\ clean[t]) /\ c \in CopiesUpto(ids')
            BY <2>1 DEF Forth, SavedAs
        <2>9. call' # Verdict!NoCall
            <3>1. call'.step = "calling" /\ Verdict!NoCall.step = "none"
                BY <1>4 DEF Verdict!NoCall
            <3> QED
                BY <3>1
        <2> QED
            <3>1. /\ Verdict!Becomes(t, c) /\ UNCHANGED <<process, todo, life, held>>
                  /\ flight = NoTask /\ flight' = t /\ Verdict!Running /\ life[t] = "COMPLETED"
                  /\ call' \in Verdict!Call \cup {Verdict!NoCall}
                  /\ flight' = NoTask <=> call' = Verdict!NoCall
                BY <1>1, <1>4, <2>3, <2>9 DEF c
            <3> QED
                BY <1>1, <2>4, <2>5, <2>7, <2>8, <3>1, InPlace
    <1> QED
        BY <1>3, <1>4 DEF Verdict!Classify

\* A thread that does not start leaves one more record.
LEMMA StartFailedStep ==
    ASSUME VerdictInv, NEW t \in Tasks, Verdict!StartFailed(t)
    PROVE  Advances
    <1>1. PICK n \in 0 .. Verdict!All, k \in 0 .. Verdict!All :
            LET c == Verdict!Written(copies[t], held[t], Verdict!Pending(t), n)
                f == [Verdict!Added(c, held[t], "needs_review", 0) EXCEPT !.id = ids + 2]
                d == Verdict!Written(c, held[t], f, k)
            IN  \/ Verdict!Dies(t, d)
                \/ /\ Verdict!Raises(t, d)
                   /\ UNCHANGED <<process, todo, held, flight, call>>
        BY DEF Verdict!StartFailed
    <1> DEFINE r == Verdict!Pending(t)
               c == Verdict!Written(copies[t], held[t], r, n)
               a == Verdict!Added(c, held[t], "needs_review", 0)
               f == [a EXCEPT !.id = ids + 2]
               d == Verdict!Written(c, held[t], f, k)
               sure == clean[t]
    <1>0. \/ Verdict!Dies(t, d)
          \/ Verdict!Raises(t, d) /\ UNCHANGED <<process, todo, held, flight, call>>
        BY <1>1, Zenon
    <1>2. /\ Verdict!Running /\ life[t] = "COMPLETED" /\ life[t] \in Verdict!Finished
          /\ flight = NoTask /\ t # NoTask /\ life' = life /\ Done(t)
          /\ ids' = ids + 2 /\ ids' \in 0 .. MaxSaves /\ ids <= ids' /\ ids \in Nat /\ ids' \in Nat
          /\ life[t] # "gone" /\ life[t] # "running" /\ MaxSaves \in Nat
          /\ held[t] \in BOOLEAN /\ sure \in BOOLEAN
        BY VerdictAssumption DEF Verdict!StartFailed, Verdict!MayClassify, Verdict!Room, Verdict!Running, Verdict!Finished, VerdictInv, Verdict!TypeOK, Done, Verdict!SavesAssumption, Verdict!TaskAssumption
    <1>3. PICK m \in Nat : m = ids + 1
        BY <1>2
    <1>4. SavedAs(t, "pending", 0, r, n, c, m)
        BY <1>2, <1>3, OneSave DEF Verdict!Pending, Verdict!Status
    <1>5. c \in CopiesUpto(m) /\ Ahead(c, held[t]) /\ Durable(c, sure)
        BY <1>4 DEF SavedAs
    <1> HIDE DEF c, r
    <1>6. /\ a \in Upto(m + 1) /\ a.logged
          /\ a.rev > c.row.rev /\ a.rev > c.file.rev
        BY <1>2, <1>3, <1>5, NewRecord DEF Verdict!Status
    <1> HIDE DEF a
    <1>7. /\ f \in Upto(ids') /\ f.id > m /\ f.logged /\ m < ids'
          /\ f.rev > c.row.rev /\ f.rev > c.file.rev
        <2>1. ids' = m + 1 /\ ids + 2 \in 0 .. ids' /\ ids + 2 > m /\ ids + 2 > 0
            BY <1>2, <1>3
        <2> QED
            BY <1>6, <2>1 DEF Upto
    <1> HIDE DEF f
    <1>8. Stores(c, held[t], sure, f, k, d, ids')
        BY <1>2, <1>5, <1>7, Saved
    <1>9. d \in CopiesUpto(ids') /\ Durable(d, sure) /\ Durable(d, FALSE) /\ Ahead(d, held[t])
        BY <1>8 DEF Stores, Durable
    <1>10. Forth(copies[t], d, sure) /\ Forth(copies[t], d, sure /\ FALSE)
        <2>1. /\ copies[t].file.rev \in Nat /\ copies[t].row.rev \in Nat
              /\ c.file.rev \in Nat /\ c.row.rev \in Nat /\ d.file.rev \in Nat /\ d.row.rev \in Nat
            <3>1. copies[t] \in CopiesUpto(ids)
                BY DEF VerdictInv, CopiesInv
            <3> QED
                BY <1>2, <1>5, <1>9, <3>1, CopiesHaveRecords
        <2>2. d.file.rev >= copies[t].file.rev /\ d.row.rev >= copies[t].row.rev
            BY <1>4, <1>8, <2>1 DEF SavedAs, Stores, Forth
        <2>3. sure /\ copies[t].file.logged => copies[t].file.id \in Verdict!Range(d.log)
            BY <1>4, <1>8 DEF SavedAs, Stores, InLog
        <2> QED
            BY <2>2, <2>3 DEF Forth
    <1> HIDE DEF d
    <1>11. CASE Verdict!Dies(t, d)
        BY <1>2, <1>9, <1>10, <1>11, EndsAfter
    <1>12. CASE Verdict!Raises(t, d) /\ UNCHANGED <<process, todo, held, flight, call>>
        <2>1. Verdict!Becomes(t, d) /\ clean' = [clean EXCEPT ![t] = FALSE]
            BY <1>12 DEF Verdict!Raises
        <2>2. Kept(d, held[t], life[t], FALSE, Done(t), Verdict!Running, flight' = t)
            BY <1>2, <1>9 DEF Kept
        <2>3. /\ call \in Verdict!Call \cup {Verdict!NoCall} /\ (flight = NoTask <=> call = Verdict!NoCall)
              /\ clean \in [Tasks -> BOOLEAN]
            BY DEF VerdictInv, Verdict!TypeOK
        <2>4. FlightInv'
            BY <1>2, <1>12, <2>1, <2>3, FlightKept
        <2> QED
            <3>1. /\ UNCHANGED <<process, todo, life, held>> /\ flight' = flight
                  /\ call' \in Verdict!Call \cup {Verdict!NoCall}
                  /\ flight' = NoTask <=> call' = Verdict!NoCall
                BY <1>2, <1>12, <2>3
            <3> QED
                BY <1>2, <1>9, <1>10, <2>1, <2>2, <2>4, <3>1, InPlace
    <1> QED
        BY <1>0, <1>11, <1>12

\* What VerdictInv says of the thread in flight and the task it is for.
LEMMA InFlight ==
    ASSUME VerdictInv, call.step # "none"
    PROVE  /\ flight \in Tasks /\ flight # NoTask /\ call \in Verdict!Call
           /\ Verdict!Running /\ Done(flight)
           /\ life[flight] = "COMPLETED" /\ life[flight] \in Verdict!Finished
           /\ ThreadInv(copies[flight], held[flight], clean[flight])
           /\ call.base \in Nat /\ call.calls \in {0, 1} /\ call.status \in Verdict!Status
           /\ held[flight] \in BOOLEAN /\ clean[flight] \in BOOLEAN
           /\ clean \in [Tasks -> BOOLEAN] /\ ids \in Nat /\ MaxSaves \in Nat
    <1>1. call # Verdict!NoCall /\ flight \in Tasks /\ flight # NoTask /\ call \in Verdict!Call
        BY VerdictAssumption DEF VerdictInv, Verdict!TypeOK, Verdict!NoCall, Verdict!TaskAssumption
    <1>2. /\ Verdict!Running /\ life[flight] = "COMPLETED"
          /\ ThreadInv(copies[flight], held[flight], clean[flight])
        BY <1>1 DEF VerdictInv, ProcessInv, FlightInv
    <1>3. call.base \in Nat /\ call.calls \in {0, 1} /\ call.status \in Verdict!Status
        BY <1>1, VerdictAssumption DEF Verdict!Call, Verdict!SavesAssumption
    <1> QED
        BY <1>1, <1>2, <1>3, VerdictAssumption DEF Done, Verdict!Finished, VerdictInv, Verdict!TypeOK, Verdict!SavesAssumption

\* The updates of the thread's record.
CallRec(s, status, calls, base, stored) ==
    [step |-> s, status |-> status, calls |-> calls, base |-> base, stored |-> stored]

LEMMA CallUpdates ==
    ASSUME call \in Verdict!Call, NEW s, NEW status, NEW n, NEW v
    PROVE  /\ [call EXCEPT !.step = s] = CallRec(s, call.status, call.calls, call.base, call.stored)
           /\ [call EXCEPT !.step = s, !.stored = v] = CallRec(s, call.status, call.calls, call.base, v)
           /\ [call EXCEPT !.step = s, !.status = status, !.calls = n] = CallRec(s, status, n, call.base, call.stored)
    <1>1. [call EXCEPT !.step = s] = CallRec(s, call.status, call.calls, call.base, call.stored)
        BY DEF CallRec, Verdict!Call
    <1>2. [CallRec(s, call.status, call.calls, call.base, call.stored) EXCEPT !.stored = v]
            = CallRec(s, call.status, call.calls, call.base, v)
        BY DEF CallRec
    <1>3. [CallRec(s, call.status, call.calls, call.base, call.stored) EXCEPT !.status = status]
            = CallRec(s, status, call.calls, call.base, call.stored)
        BY DEF CallRec
    <1>4. [CallRec(s, status, call.calls, call.base, call.stored) EXCEPT !.calls = n]
            = CallRec(s, status, n, call.base, call.stored)
        BY DEF CallRec
    <1>5. /\ [call EXCEPT !.step = s, !.stored = v] = [[call EXCEPT !.step = s] EXCEPT !.stored = v]
          /\ [call EXCEPT !.step = s, !.status = status, !.calls = n]
               = [[[call EXCEPT !.step = s] EXCEPT !.status = status] EXCEPT !.calls = n]
        OBVIOUS
    <1> QED
        BY <1>1, <1>2, <1>3, <1>4, <1>5

LEMMA CallFields ==
    ASSUME NEW s, NEW status, NEW calls, NEW base, NEW stored, s # "none",
           call' = CallRec(s, status, calls, base, stored)
    PROVE  /\ call'.step = s /\ call'.status = status /\ call'.calls = calls
           /\ call'.base = base /\ call'.stored = stored /\ call' # Verdict!NoCall
    BY DEF CallRec, Verdict!NoCall

\* A save of the thread: copies w of its task t, and the thread goes on.
LEMMA ThreadSaves ==
    ASSUME VerdictInv, NEW t \in Tasks, flight = t, call.step # "none", NEW w,
           NEW h \in BOOLEAN, h = held[t], NEW b \in BOOLEAN, NEW s \in {"retry", "done"},
           NEW stored \in BOOLEAN,
           call' = CallRec(s, call.status, call.calls, call.base, stored),
           Verdict!Becomes(t, w), UNCHANGED <<process, todo, life, held, flight>>,
           clean' = [clean EXCEPT ![t] = b],
           ids' = ids + 1, ids' \in 0 .. MaxSaves, w \in CopiesUpto(ids'),
           Durable(w, b), Ahead(w, h), Forth(copies[t], w, clean[t]),
           b => /\ w.row = w.file /\ (h => w.mem = w.file) /\ InLog(w)
                /\ w.file.status # "pending",
           ThreadInv(w, h, b)'
    PROVE  Advances
    <1>1. /\ t # NoTask /\ call \in Verdict!Call
          /\ Verdict!Running /\ Done(t)
          /\ life[t] = "COMPLETED" /\ life[t] \in Verdict!Finished
          /\ ids \in Nat /\ clean \in [Tasks -> BOOLEAN]
        BY InFlight
    <1>2. Kept(w, held[t], life[t], b, Done(t), Verdict!Running, flight' = t)
        BY <1>1 DEF Kept
    <1>3. call' \in Verdict!Call
        BY <1>1 DEF Verdict!Call, CallRec
    <1>4. call' # Verdict!NoCall
        BY CallFields
    <1>5. copies'[flight'] = w /\ clean'[flight'] = b /\ held'[flight'] = h
        BY <1>1 DEF Verdict!Becomes, VerdictInv, Verdict!TypeOK
    <1>6. FlightInv'
        BY <1>5 DEF FlightInv, ThreadInv
    <1>7. Forth(copies[t], w, clean[t] /\ b)
        BY DEF Forth
    <1>8. flight' = flight /\ (flight' = NoTask <=> call' = Verdict!NoCall) /\ ids <= ids'
        BY <1>1, <1>4
    <1> QED
        BY <1>1, <1>2, <1>3, <1>6, <1>7, <1>8, InPlace

\* The classifier's record is stored.
LEMMA SaveAnswerStep ==
    ASSUME VerdictInv, Verdict!SaveAnswer
    PROVE  Advances
    <1>1. /\ flight \in Tasks /\ flight # NoTask /\ call \in Verdict!Call
          /\ Verdict!Running /\ Done(flight)
          /\ life[flight] = "COMPLETED" /\ life[flight] \in Verdict!Finished
          /\ ThreadInv(copies[flight], held[flight], clean[flight])
          /\ call.base \in Nat /\ call.calls \in {0, 1} /\ call.status \in Verdict!Status
          /\ held[flight] \in BOOLEAN /\ clean[flight] \in BOOLEAN /\ clean \in [Tasks -> BOOLEAN]
          /\ ids \in Nat /\ MaxSaves \in Nat /\ call.step = "save" /\ call.step # "none"
        <2>1. call.step = "save" /\ call.step # "none"
            BY DEF Verdict!SaveAnswer
        <2> QED
            BY <2>1, InFlight
    <1>2. PICK t \in Tasks, h \in BOOLEAN, c \in CopiesUpto(ids) :
            t = flight /\ h = held[t] /\ c = copies[t]
        BY <1>1 DEF VerdictInv, CopiesInv
    <1>3. PICK s \in Verdict!Status :
            s = IF process = "closing" THEN "needs_review" ELSE call.status
        BY <1>1 DEF Verdict!Status
    <1>4. PICK r : r = Verdict!Added(c, h, s, call.calls)
        OBVIOUS
    <1>5. PICK k, w :
            /\ k \in 0 .. Verdict!All
            /\ w = Verdict!Written(c, h, r, k)
            /\ \/ /\ k = Verdict!All
                  /\ Verdict!Becomes(t, w)
                  /\ call' = [call EXCEPT !.step = "done", !.stored = TRUE]
                  /\ UNCHANGED <<process, todo, held, flight, clean>>
               \/ Verdict!Dies(t, w)
               \/ /\ k < Verdict!All
                  /\ Verdict!Raises(t, w)
                  /\ call' = [call EXCEPT !.step = "retry"]
                  /\ UNCHANGED <<process, todo, held, flight>>
        BY <1>2, <1>3, <1>4 DEF Verdict!SaveAnswer
    <1>6. /\ ids' = ids + 1 /\ ids' \in 0 .. MaxSaves /\ ids <= ids' /\ ids' \in Nat
          /\ life' = life /\ life[t] # "gone"
        BY <1>1, <1>2 DEF Verdict!SaveAnswer
    <1>7. SavedAs(t, s, call.calls, r, k, w, ids')
        BY <1>1, <1>2, <1>4, <1>5, <1>6, OneSave
    <1>8. /\ c.row = c.file /\ (h => c.mem = c.file)
          /\ c.file.total = call.base /\ call.base <= ids /\ c.file.rev \in Nat
          /\ call.status # "pending" /\ ~call.stored /\ s # "pending"
        BY <1>1, <1>2, <1>3, CopiesHaveRecords DEF ThreadInv
    <1>9. Verdict!Previous(c, h).total = call.base
        BY <1>8 DEF Verdict!Previous, Verdict!Known
    <1>10. /\ r.total = call.base + call.calls /\ call.base + call.calls <= ids' /\ r.status = s
           /\ call.base <= ids'
        BY <1>1, <1>2, <1>6, <1>7, <1>8, <1>9 DEF SavedAs
    <1>11. CASE Verdict!Dies(t, w)
        BY <1>1, <1>2, <1>6, <1>7, <1>11, EndsAfter DEF SavedAs
    <1>12. CASE /\ k = Verdict!All
                /\ Verdict!Becomes(t, w)
                /\ call' = [call EXCEPT !.step = "done", !.stored = TRUE]
                /\ UNCHANGED <<process, todo, held, flight, clean>>
        <2>0. PICK yes \in BOOLEAN : yes = TRUE
            OBVIOUS
        <2>1. call' = CallRec("done", call.status, call.calls, call.base, yes)
            BY <1>1, <1>12, <2>0, CallUpdates
        <2>2. /\ w \in CopiesUpto(ids') /\ Durable(w, clean[t]) /\ Ahead(w, h)
              /\ Forth(copies[t], w, clean[t])
              /\ w.row = r /\ w.file = r /\ (h => w.mem = r) /\ InLog(w)
            BY <1>2, <1>7, <1>12 DEF SavedAs
        <2>3. PICK b \in BOOLEAN : b = clean[t]
            BY <1>1, <1>2
        <2>4. /\ call'.step = "done" /\ call'.status = call.status /\ call'.calls = call.calls
              /\ call'.base = call.base
            BY <2>1 DEF CallRec
        <2>5. ThreadInv(w, h, b)'
            BY <1>8, <1>10, <2>2, <2>4 DEF ThreadInv
        <2>6. clean' = [clean EXCEPT ![t] = b] /\ UNCHANGED <<process, todo, life, held, flight>>
            BY <1>1, <1>6, <1>12, <2>3
        <2>7. b => /\ w.row = w.file /\ (h => w.mem = w.file) /\ InLog(w)
                   /\ w.file.status # "pending"
            BY <1>8, <1>10, <2>2
        <2>8. Durable(w, b)
            BY <2>2, <2>3, Zenon
        <2> QED
            <3>1. /\ VerdictInv /\ flight = t /\ call.step # "none" /\ h = held[t]
                  /\ "done" \in {"retry", "done"} /\ Verdict!Becomes(t, w)
                  /\ ids' = ids + 1 /\ ids' \in 0 .. MaxSaves /\ w \in CopiesUpto(ids')
                  /\ Ahead(w, h) /\ Forth(copies[t], w, clean[t])
                BY <1>1, <1>2, <1>6, <1>12, <2>2
            <3> QED
                BY <2>1, <2>5, <2>6, <2>7, <2>8, <3>1, ThreadSaves, Zenon
    <1>13. CASE /\ k < Verdict!All
                /\ Verdict!Raises(t, w)
                /\ call' = [call EXCEPT !.step = "retry"]
                /\ UNCHANGED <<process, todo, held, flight>>
        <2>1. call' = CallRec("retry", call.status, call.calls, call.base, FALSE)
            <3>1. call.stored = FALSE
                BY <1>1, <1>8 DEF Verdict!Call
            <3> QED
                BY <1>1, <1>13, <3>1, CallUpdates
        <2>2. /\ w \in CopiesUpto(ids') /\ Durable(w, FALSE) /\ Ahead(w, h)
              /\ Forth(copies[t], w, clean[t])
              /\ w.row = c.row /\ w.file \in {c.file, r}
              /\ w.row.rev <= w.file.rev \/ w.file = c.file
            BY <1>2, <1>7, <1>13 DEF SavedAs
        <2>3. ThreadInv(w, h, FALSE)'
            <3>1. w.row.rev <= w.file.rev
                BY <1>8, <2>2
            <3>2. w.row.total <= call.base + call.calls /\ w.file.total <= call.base + call.calls
                BY <1>1, <1>8, <1>10, <2>2
            <3>3. /\ call'.step = "retry" /\ call'.status = call.status /\ call'.calls = call.calls
                  /\ call'.base = call.base /\ ~call'.stored
                BY <2>1 DEF CallRec
            <3> QED
                BY <1>8, <1>10, <3>1, <3>2, <3>3 DEF ThreadInv
        <2>4. Verdict!Becomes(t, w) /\ clean' = [clean EXCEPT ![t] = FALSE]
            BY <1>13 DEF Verdict!Raises
        <2>5. UNCHANGED <<process, todo, life, held, flight>>
            BY <1>6, <1>13
        <2> QED
            BY <1>1, <1>2, <1>6, <2>1, <2>2, <2>3, <2>4, <2>5, ThreadSaves
    <1> QED
        BY <1>5, <1>11, <1>12, <1>13

\* The copies of a task whose first save has failed.
LEMMA ShelvedCopies ==
    ASSUME ids \in Nat, call.base \in Nat, call.calls \in {0, 1}, call.base + call.calls <= ids,
           NEW c \in CopiesUpto(ids), NEW h \in BOOLEAN, Durable(c, FALSE),
           c.row.rev <= c.file.rev, NEW d, d = Verdict!Shelved(c, h)
    PROVE  /\ d \in CopiesUpto(ids) /\ Durable(d, FALSE) /\ Ahead(d, h)
           /\ d.row = c.row /\ d.file = c.file /\ d.log = c.log
           /\ h => d.mem.rev = 0 /\ d.mem.total = call.base + call.calls
    <1>1. c = [mem |-> c.mem, row |-> c.row, file |-> c.file, log |-> c.log]
        BY CopiesHaveRecords
    <1>2. PICK m : m = [id |-> 0, rev |-> 0, status |-> "needs_review",
                        total |-> call.base + call.calls, logged |-> FALSE]
        OBVIOUS
    <1>3. m \in Upto(ids) /\ m.rev = 0 /\ m.total = call.base + call.calls
        BY <1>2 DEF Upto, Verdict!Status
    <1>4. d = IF h THEN [c EXCEPT !.mem = m] ELSE c
        BY <1>2 DEF Verdict!Shelved, Verdict!None
    <1>5. d = [mem |-> IF h THEN m ELSE c.mem, row |-> c.row, file |-> c.file, log |-> c.log]
        BY <1>1, <1>4
    <1>6. d \in CopiesUpto(ids)
        BY <1>3, <1>5, CopiesHaveRecords DEF CopiesUpto
    <1> QED
        BY <1>3, <1>5, <1>6 DEF Durable, Ahead

\* The record of a failed save.
LEMMA FailedRecordIs ==
    ASSUME ids \in Nat, call.base \in Nat, call.calls \in {0, 1}, call.base + call.calls <= ids,
           NEW d \in CopiesUpto(ids), NEW h \in BOOLEAN, d.row.rev <= d.file.rev,
           d.row.total <= call.base + call.calls, d.file.total <= call.base + call.calls,
           h => d.mem.rev = 0 /\ d.mem.total = call.base + call.calls,
           NEW n \in Nat, n = ids + 1, NEW r, r = Verdict!FailedRecord(d, h)
    PROVE  /\ r \in Upto(n) /\ r.id > ids /\ r.logged
           /\ r.rev > d.row.rev /\ r.rev > d.file.rev
           /\ r.status = "needs_review" /\ r.total = call.base + call.calls
    <1> DEFINE p == Verdict!Previous(d, h)
               sum == call.base + call.calls
    <1>1. /\ d.mem \in Upto(ids) /\ d.row \in Upto(ids) /\ d.file \in Upto(ids)
        BY CopiesHaveRecords
    <1>2. p \in Upto(ids) /\ p.total <= sum
        BY <1>1 DEF Verdict!Previous, Verdict!Known
    <1>3. p.rev >= d.row.rev /\ p.rev >= d.file.rev
        BY <1>1 DEF Verdict!Previous, Verdict!Known, Upto
    <1>4. (IF sum > p.total THEN sum ELSE p.total) = sum
        BY <1>2 DEF Upto
    <1>5. r = [id |-> ids + 1, rev |-> p.rev + 1, status |-> "needs_review",
               total |-> sum, logged |-> TRUE]
        BY <1>4 DEF Verdict!FailedRecord, Verdict!Totalled, Verdict!Successor
    <1> HIDE DEF p
    <1> QED
        BY <1>1, <1>2, <1>3, <1>5 DEF Upto, Verdict!Status

\* Its save has failed, and one that needs review is stored instead.
LEMMA SaveFailedStep ==
    ASSUME VerdictInv, Verdict!SaveFailed
    PROVE  Advances
    <1>1. /\ flight \in Tasks /\ flight # NoTask /\ call \in Verdict!Call
          /\ Verdict!Running /\ Done(flight)
          /\ life[flight] = "COMPLETED" /\ life[flight] \in Verdict!Finished
          /\ ThreadInv(copies[flight], held[flight], clean[flight])
          /\ call.base \in Nat /\ call.calls \in {0, 1} /\ call.status \in Verdict!Status
          /\ held[flight] \in BOOLEAN /\ clean[flight] \in BOOLEAN /\ clean \in [Tasks -> BOOLEAN]
          /\ ids \in Nat /\ MaxSaves \in Nat /\ call.step = "retry" /\ call.step # "none"
        <2>1. call.step = "retry" /\ call.step # "none"
            BY DEF Verdict!SaveFailed
        <2> QED
            BY <2>1, InFlight
    <1>2. PICK t \in Tasks, h \in BOOLEAN, c \in CopiesUpto(ids) :
            t = flight /\ h = held[t] /\ c = copies[t]
        BY <1>1 DEF VerdictInv, CopiesInv
    <1>3. PICK d : d = Verdict!Shelved(c, h)
        OBVIOUS
    <1>4. PICK r : r = Verdict!FailedRecord(d, h)
        OBVIOUS
    <1>5. PICK k, w :
            /\ k \in 0 .. Verdict!All
            /\ w = Verdict!Written(d, h, r, k)
            /\ \/ /\ k = Verdict!All
                  /\ Verdict!Becomes(t, w)
                  /\ call' = [call EXCEPT !.step = "done", !.stored = TRUE]
                  /\ UNCHANGED <<process, todo, held, flight, clean>>
               \/ Verdict!Dies(t, w)
               \/ /\ k < Verdict!All
                  /\ Verdict!Raises(t, w)
                  /\ call' = [call EXCEPT !.step = "done"]
                  /\ UNCHANGED <<process, todo, held, flight>>
        BY <1>2, <1>3, <1>4 DEF Verdict!SaveFailed
    <1>6. /\ ids' = ids + 1 /\ ids' \in 0 .. MaxSaves /\ ids <= ids' /\ ids' \in Nat /\ ids < ids'
          /\ life' = life /\ life[t] # "gone"
        BY <1>1, <1>2 DEF Verdict!SaveFailed
    <1>7. /\ ~clean[t] /\ c.row.rev <= c.file.rev
          /\ c.row.total <= call.base + call.calls /\ c.file.total <= call.base + call.calls
          /\ call.base <= ids /\ call.base + call.calls <= ids
          /\ call.status # "pending" /\ ~call.stored
        BY <1>1, <1>2 DEF ThreadInv
    <1>8. Durable(c, FALSE)
        <2>1. TaskInv(t)
            BY DEF VerdictInv, TasksInv
        <2> QED
            BY <1>2, <2>1 DEF TaskInv, Kept, Durable
    <1>9. /\ d \in CopiesUpto(ids) /\ Durable(d, FALSE) /\ Ahead(d, h)
          /\ d.row = c.row /\ d.file = c.file /\ d.log = c.log
          /\ h => d.mem.rev = 0 /\ d.mem.total = call.base + call.calls
        BY <1>1, <1>3, <1>7, <1>8, ShelvedCopies
    <1>10. /\ r \in Upto(ids') /\ r.id > ids /\ r.logged
           /\ r.rev > d.row.rev /\ r.rev > d.file.rev
           /\ r.status = "needs_review" /\ r.total = call.base + call.calls
        BY <1>1, <1>4, <1>6, <1>7, <1>9, FailedRecordIs
    <1> PICK no \in BOOLEAN : ~no
        OBVIOUS
    <1>11. Stores(d, h, no, r, k, w, ids')
        <2>1. Durable(d, no)
            BY <1>9 DEF Durable
        <2> QED
            BY <1>1, <1>5, <1>6, <1>9, <1>10, <2>1, Saved
    <1>12. w \in CopiesUpto(ids') /\ Durable(w, FALSE) /\ Ahead(w, h)
        BY <1>11 DEF Stores, Durable
    <1>13. Forth(copies[t], w, clean[t])
        BY <1>2, <1>7, <1>9, <1>11 DEF Forth, Stores
    <1>14. clean[t] = FALSE /\ call.base + call.calls <= ids' /\ call.base <= ids'
        BY <1>1, <1>2, <1>6, <1>7
    <1>15. CASE Verdict!Dies(t, w)
        <2>1. Durable(w, clean[t])
            BY <1>12, <1>14
        <2> QED
            BY <1>6, <1>12, <1>13, <1>15, <2>1, EndsAfter
    <1>16. CASE /\ k = Verdict!All
                /\ Verdict!Becomes(t, w)
                /\ call' = [call EXCEPT !.step = "done", !.stored = TRUE]
                /\ UNCHANGED <<process, todo, held, flight, clean>>
        <2>0. PICK yes \in BOOLEAN : yes = TRUE
            OBVIOUS
        <2>1. call' = CallRec("done", call.status, call.calls, call.base, yes)
            BY <1>1, <1>16, <2>0, CallUpdates
        <2>2. /\ call'.step = "done" /\ call'.status = call.status /\ call'.calls = call.calls
              /\ call'.base = call.base
            BY <2>1 DEF CallRec
        <2>3. w.file = r
            BY <1>11, <1>16 DEF Stores
        <2>4. ThreadInv(w, h, FALSE)'
            BY <1>7, <1>10, <1>14, <2>2, <2>3 DEF ThreadInv
        <2>5. clean' = [clean EXCEPT ![t] = FALSE] /\ UNCHANGED <<process, todo, life, held, flight>>
            BY <1>1, <1>6, <1>14, <1>16
        <2> QED
            BY <1>1, <1>2, <1>6, <1>12, <1>13, <1>16, <2>1, <2>4, <2>5, ThreadSaves
    <1>17. CASE /\ k < Verdict!All
                /\ Verdict!Raises(t, w)
                /\ call' = [call EXCEPT !.step = "done"]
                /\ UNCHANGED <<process, todo, held, flight>>
        <2>1. call' = CallRec("done", call.status, call.calls, call.base, FALSE)
            <3>1. call.stored = FALSE
                BY <1>1, <1>7 DEF Verdict!Call
            <3> QED
                BY <1>1, <1>17, <3>1, CallUpdates
        <2>2. /\ call'.step = "done" /\ call'.status = call.status /\ call'.calls = call.calls
              /\ call'.base = call.base /\ ~call'.stored
            BY <2>1 DEF CallRec
        <2>3. ThreadInv(w, h, FALSE)'
            BY <1>7, <1>14, <2>2 DEF ThreadInv
        <2>4. Verdict!Becomes(t, w) /\ clean' = [clean EXCEPT ![t] = FALSE]
            BY <1>17 DEF Verdict!Raises
        <2>5. UNCHANGED <<process, todo, life, held, flight>>
            BY <1>6, <1>17
        <2> QED
            BY <1>1, <1>2, <1>6, <1>12, <1>13, <2>1, <2>3, <2>4, <2>5, ThreadSaves
    <1> QED
        BY <1>5, <1>15, <1>16, <1>17

\* What VerdictInv says of a task that is still running.
LEMMA RunningTask ==
    ASSUME VerdictInv, NEW t \in Tasks, Verdict!Running, life[t] = "running"
    PROVE  /\ copies[t] \in CopiesUpto(ids) /\ ids \in Nat /\ clean[t] \in BOOLEAN
           /\ held[t] /\ flight # t /\ Done(t) /\ MaxSaves \in Nat
           /\ clean \in [Tasks -> BOOLEAN] /\ held \in [Tasks -> BOOLEAN]
           /\ copies[t].mem.status # "pending"
           /\ copies[t].row.rev <= copies[t].mem.rev /\ copies[t].file.rev <= copies[t].mem.rev
           /\ clean[t] => copies[t].mem = copies[t].file /\ ~copies[t].file.logged
           /\ Durable(copies[t], clean[t])
           /\ call \in Verdict!Call \cup {Verdict!NoCall} /\ (flight = NoTask <=> call = Verdict!NoCall)
    <1>1. Kept(copies[t], held[t], life[t], clean[t], Done(t), Verdict!Running, flight = t)
        BY DEF VerdictInv, TasksInv, TaskInv
    <1> QED
        BY <1>1, VerdictAssumption DEF Kept, VerdictInv, CopiesInv, Verdict!TypeOK, Done, Verdict!SavesAssumption

\* The record of an answer, in memory and in assessment.json.
LEMMA NativeAnswerStep ==
    ASSUME VerdictInv, NEW t \in Tasks, Verdict!NativeAnswer(t)
    PROVE  Advances
    <1>1. PICK status \in {"verdict", "needs_review"} :
            LET r == Verdict!NativeRecord(t, status)
                c == [copies[t] EXCEPT !.mem = r, !.file = r]
            IN  \/ Verdict!Becomes(t, c) /\ UNCHANGED <<process, todo, held, flight, call, clean>>
                \/ Verdict!Dies(t, c)
                \/ /\ Verdict!Raises(t, [copies[t] EXCEPT !.mem = [r EXCEPT !.status = "needs_review"]])
                   /\ UNCHANGED <<process, todo, held, flight, call>>
        BY DEF Verdict!NativeAnswer
    <1>2. /\ Verdict!Running /\ life[t] = "running" /\ life' = life /\ copies[t].mem = Verdict!None
          /\ ids' = ids + 1 /\ ids + 1 + 2 <= MaxSaves
        BY DEF Verdict!NativeAnswer, Verdict!Room
    <1>3. PICK c \in CopiesUpto(ids) : c = copies[t]
        BY <1>2, RunningTask
    <1>4. /\ ids \in Nat /\ clean[t] \in BOOLEAN
          /\ held[t] /\ flight # t /\ Done(t) /\ MaxSaves \in Nat
          /\ clean \in [Tasks -> BOOLEAN] /\ held \in [Tasks -> BOOLEAN]
          /\ c.row.rev <= c.mem.rev /\ c.file.rev <= c.mem.rev
          /\ clean[t] => ~c.file.logged
          /\ Durable(c, clean[t]) /\ c.mem = Verdict!None
          /\ call \in Verdict!Call \cup {Verdict!NoCall} /\ (flight = NoTask <=> call = Verdict!NoCall)
        BY <1>2, <1>3, RunningTask
    <1>5. /\ ids' \in 0 .. MaxSaves /\ ids <= ids' /\ ids' \in Nat /\ 1 \in 0 .. ids'
          /\ life[t] # "gone" /\ life[t] \notin Verdict!Finished
        BY <1>2, <1>4 DEF Verdict!Finished
    <1>6. PICK r, e : /\ r = Verdict!NativeRecord(t, status)
                      /\ e = [r EXCEPT !.status = "needs_review"]
        OBVIOUS
    <1>7. r = [id |-> ids + 1, rev |-> 1, status |-> status, total |-> 0, logged |-> FALSE]
        <2>1. Verdict!None.rev + 1 = 1 /\ Verdict!None.total = 0
            BY DEF Verdict!None
        <2> QED
            BY <1>2, <1>6, <2>1 DEF Verdict!NativeRecord, Verdict!Successor
    <1>8. /\ r \in Upto(ids') /\ e \in Upto(ids')
          /\ r.status # "pending" /\ e.status # "pending" /\ r.rev = 1 /\ e.rev = 1 /\ ~r.logged
        <2>1. r \in Upto(ids') /\ r.status # "pending" /\ r.rev = 1 /\ ~r.logged
            BY <1>2, <1>5, <1>7 DEF Upto, Verdict!Status
        <2> QED
            BY <1>6, <2>1 DEF Upto, Verdict!Status
    <1>9. /\ c \in CopiesUpto(ids')
          /\ c = [mem |-> c.mem, row |-> c.row, file |-> c.file, log |-> c.log]
          /\ c.row \in Upto(ids') /\ c.file \in Upto(ids') /\ c.log \in Seq(1 .. ids')
          /\ c.row.rev \in Nat /\ c.file.rev \in Nat
        BY <1>3, <1>4, <1>5, UptoGrows, CopiesHaveRecords
    <1>10. c.row.rev <= 1 /\ c.file.rev <= 1 /\ Verdict!IsInjective(c.log)
        BY <1>4, <1>9 DEF Verdict!None, Durable
    <1>11. PICK d : d = [mem |-> r, row |-> c.row, file |-> r, log |-> c.log]
        OBVIOUS
    <1>12. d = [c EXCEPT !.mem = r, !.file = r]
        <2>1. [c EXCEPT !.mem = r] = [mem |-> r, row |-> c.row, file |-> c.file, log |-> c.log]
            BY <1>9
        <2>2. [[mem |-> r, row |-> c.row, file |-> c.file, log |-> c.log] EXCEPT !.file = r] = d
            BY <1>11
        <2>3. [c EXCEPT !.mem = r, !.file = r] = [[c EXCEPT !.mem = r] EXCEPT !.file = r]
            OBVIOUS
        <2> QED
            BY <2>1, <2>2, <2>3
    <1>13. /\ d \in CopiesUpto(ids') /\ Durable(d, clean[t])
           /\ Forth(c, d, clean[t]) /\ Forth(c, d, clean[t] /\ clean[t])
        BY <1>4, <1>8, <1>9, <1>10, <1>11 DEF CopiesUpto, Durable, InLog, Forth
    <1>14. CASE Verdict!Dies(t, d)
        BY <1>2, <1>3, <1>5, <1>13, <1>14, EndsAfter
    <1>15. CASE Verdict!Becomes(t, d) /\ UNCHANGED <<process, todo, held, flight, call, clean>>
        <2>1. Kept(d, held[t], life[t], clean[t], Done(t), Verdict!Running, flight' = t)
            <3>1. /\ held[t] /\ flight' # t /\ d.mem.status # "pending"
                  /\ d.row.rev <= d.mem.rev /\ d.file.rev <= d.mem.rev
                  /\ d.mem = d.file /\ ~d.file.logged
                BY <1>4, <1>8, <1>10, <1>11, <1>15
            <3> QED
                BY <1>2, <1>5, <1>13, <3>1 DEF Kept
        <2>2. /\ clean' = [clean EXCEPT ![t] = clean[t]] /\ flight' = flight
              /\ call' \in Verdict!Call \cup {Verdict!NoCall} /\ (flight' = NoTask <=> call' = Verdict!NoCall)
            BY <1>4, <1>15
        <2>3. FlightInv'
            BY <1>4, <1>5, <1>15, FlightKept
        <2> QED
            BY <1>2, <1>3, <1>4, <1>5, <1>13, <1>15, <2>1, <2>2, <2>3, InPlace
    <1>16. PICK x : x = [mem |-> e, row |-> c.row, file |-> c.file, log |-> c.log]
        OBVIOUS
    <1>17. x = [c EXCEPT !.mem = e]
        BY <1>9, <1>16
    <1>18. /\ x \in CopiesUpto(ids') /\ Durable(x, FALSE) /\ Forth(c, x, clean[t] /\ FALSE)
        BY <1>4, <1>8, <1>9, <1>10, <1>16 DEF CopiesUpto, Durable, Forth
    <1>19. CASE Verdict!Raises(t, x) /\ UNCHANGED <<process, todo, held, flight, call>>
        <2>1. Verdict!Becomes(t, x) /\ clean' = [clean EXCEPT ![t] = FALSE]
            BY <1>19 DEF Verdict!Raises
        <2>2. Kept(x, held[t], life[t], FALSE, Done(t), Verdict!Running, flight' = t)
            BY <1>2, <1>4, <1>5, <1>8, <1>10, <1>16, <1>18, <1>19 DEF Kept
        <2>3. /\ flight' = flight /\ UNCHANGED <<process, todo, life, held>>
              /\ call' \in Verdict!Call \cup {Verdict!NoCall} /\ (flight' = NoTask <=> call' = Verdict!NoCall)
            BY <1>2, <1>4, <1>19
        <2>4. FlightInv'
            BY <1>4, <1>5, <1>19, <2>1, FlightKept
        <2> QED
            BY <1>3, <1>5, <1>18, <2>1, <2>2, <2>3, <2>4, InPlace
    <1> QED
        BY <1>1, <1>3, <1>6, <1>12, <1>14, <1>15, <1>17, <1>19, Zenon

\* A snapshot: task.json gets what is in memory.
LEMMA ToRow ==
    ASSUME NEW n \in Nat, NEW c \in CopiesUpto(n), NEW d, d = [c EXCEPT !.row = c.mem],
           NEW sure \in BOOLEAN, Durable(c, sure), c.row.rev <= c.mem.rev, sure => ~c.file.logged
    PROVE  /\ d \in CopiesUpto(n) /\ d.row = c.mem /\ d.mem = c.mem /\ d.file = c.file
           /\ Durable(d, sure) /\ (sure => InLog(d))
           /\ Forth(c, d, sure) /\ Forth(c, d, sure /\ sure)
    <1>1. /\ c = [mem |-> c.mem, row |-> c.row, file |-> c.file, log |-> c.log]
          /\ c.mem \in Upto(n) /\ c.file \in Upto(n) /\ c.log \in Seq(1 .. n)
          /\ c.file.rev \in Nat
        BY CopiesHaveRecords
    <1>2. d = [mem |-> c.mem, row |-> c.mem, file |-> c.file, log |-> c.log]
        BY <1>1
    <1>3. d \in CopiesUpto(n)
        BY <1>1, <1>2 DEF CopiesUpto
    <1>4. sure => InLog(d)
        BY <1>2 DEF InLog
    <1> QED
        BY <1>1, <1>2, <1>3, <1>4 DEF Durable, Forth

LEMMA SnapshotStep ==
    ASSUME VerdictInv, NEW t \in Tasks, Verdict!Snapshot(t)
    PROVE  Advances
    <1>1. /\ Verdict!Running /\ life[t] = "running" /\ life[t] \notin Verdict!Finished
          /\ UNCHANGED <<process, todo, life, held, flight, call, ids, clean>>
        BY DEF Verdict!Snapshot, Verdict!Finished
    <1>2. PICK c \in CopiesUpto(ids) : c = copies[t]
        BY <1>1, RunningTask
    <1>3. PICK d : d = [c EXCEPT !.row = c.mem]
        OBVIOUS
    <1>4. /\ ids \in Nat /\ clean[t] \in BOOLEAN
          /\ held[t] /\ flight # t /\ Done(t) /\ MaxSaves \in Nat
          /\ clean \in [Tasks -> BOOLEAN] /\ held \in [Tasks -> BOOLEAN]
          /\ c.mem.status # "pending"
          /\ c.row.rev <= c.mem.rev /\ c.file.rev <= c.mem.rev
          /\ clean[t] => c.mem = c.file /\ ~c.file.logged
          /\ Durable(c, clean[t])
          /\ call \in Verdict!Call \cup {Verdict!NoCall} /\ (flight = NoTask <=> call = Verdict!NoCall)
        BY <1>1, <1>2, RunningTask
    <1>5. /\ d \in CopiesUpto(ids) /\ d.row = c.mem /\ d.mem = c.mem /\ d.file = c.file
          /\ Durable(d, clean[t]) /\ Forth(c, d, clean[t] /\ clean[t])
        BY <1>3, <1>4, ToRow
    <1>6. c.mem.rev \in Nat
        BY <1>4, CopiesHaveRecords
    <1>7. Kept(d, held[t], life[t], clean[t], Done(t), Verdict!Running, flight' = t)
        <2>1. /\ held[t] /\ flight' # t /\ d.mem.status # "pending"
              /\ d.row.rev <= d.mem.rev /\ d.file.rev <= d.mem.rev
              /\ clean[t] => d.mem = d.file /\ ~d.file.logged
            BY <1>1, <1>4, <1>5, <1>6
        <2>2. life[t] # "gone"
            BY <1>1
        <2> QED
            BY <1>1, <1>5, <2>1, <2>2 DEF Kept
    <1>8. Verdict!Becomes(t, d)
        BY <1>2, <1>3 DEF Verdict!Snapshot
    <1>9. /\ clean' = [clean EXCEPT ![t] = clean[t]] /\ flight' = flight
          /\ call' \in Verdict!Call \cup {Verdict!NoCall} /\ (flight' = NoTask <=> call' = Verdict!NoCall)
          /\ ids' \in 0 .. MaxSaves /\ ids <= ids' /\ ids' = ids /\ ids' \in Nat
        BY <1>1, <1>4 DEF VerdictInv, Verdict!TypeOK
    <1>10. FlightInv'
        BY <1>1, <1>4, <1>8, <1>9, FlightKept
    <1> QED
        BY <1>1, <1>2, <1>4, <1>5, <1>7, <1>8, <1>9, <1>10, InPlace

\* A task finishes.
LEMMA FinishStep ==
    ASSUME VerdictInv, NEW t \in Tasks, Verdict!Finish(t)
    PROVE  Advances
    <1>1. /\ Verdict!Running /\ life[t] = "running"
          /\ UNCHANGED <<process, todo, held, flight, call, ids, clean>>
        BY DEF Verdict!Finish
    <1>2. PICK c \in CopiesUpto(ids) : c = copies[t]
        BY <1>1, RunningTask
    <1>3. PICK d : d = [c EXCEPT !.row = c.mem]
        OBVIOUS
    <1>4. /\ ids \in Nat /\ clean[t] \in BOOLEAN
          /\ held[t] /\ flight # t /\ Done(t) /\ MaxSaves \in Nat
          /\ clean \in [Tasks -> BOOLEAN] /\ held \in [Tasks -> BOOLEAN]
          /\ c.mem.status # "pending"
          /\ c.row.rev <= c.mem.rev /\ c.file.rev <= c.mem.rev
          /\ clean[t] => c.mem = c.file /\ ~c.file.logged
          /\ Durable(c, clean[t])
          /\ call \in Verdict!Call \cup {Verdict!NoCall} /\ (flight = NoTask <=> call = Verdict!NoCall)
        BY <1>1, <1>2, RunningTask
    <1>5. /\ d \in CopiesUpto(ids) /\ d.row = c.mem /\ d.mem = c.mem /\ d.file = c.file
          /\ Durable(d, clean[t]) /\ Forth(c, d, clean[t] /\ clean[t])
          /\ clean[t] => InLog(d)
        BY <1>3, <1>4, ToRow
    <1>6. c.mem.rev \in Nat
        BY <1>4, CopiesHaveRecords
    <1>7. PICK l \in Verdict!Finished : life' = [life EXCEPT ![t] = l]
        BY DEF Verdict!Finish
    <1>8. l \in Lives /\ l # "gone" /\ l # "running" /\ life \in [Tasks -> Lives]
        BY DEF Lives, Verdict!Finished, VerdictInv, Verdict!TypeOK
    <1>9. Verdict!Becomes(t, d)
        BY <1>2, <1>3 DEF Verdict!Finish
    <1>10. copies'[t] = d /\ life'[t] = l /\ held'[t] = held[t] /\ clean'[t] = clean[t]
        <2>1. copies'[t] = d
            BY <1>9 DEF Verdict!Becomes, VerdictInv, Verdict!TypeOK
        <2> QED
            BY <1>1, <1>7, <1>8, <2>1
    <1>11. TaskInv(t)'
        <2>1. Ahead(d, held[t])
            BY <1>5, <1>6 DEF Ahead
        <2> QED
            BY <1>1, <1>4, <1>5, <1>8, <1>10, <2>1 DEF TaskInv, Kept
    <1>12. ProcessInv'
        <2>1. \A u \in Tasks : life'[u] = life[u] \/ u = t
            BY <1>7, <1>8
        <2> QED
            BY <1>1, <1>4, <1>8, <1>10, <2>1 DEF ProcessInv, VerdictInv, Verdict!TypeOK, Verdict!Running
    <1>13. /\ clean' = [clean EXCEPT ![t] = clean[t]] /\ held' = [held EXCEPT ![t] = held[t]]
           /\ flight' \in Tasks \cup {NoTask} /\ process' = process
           /\ \A u \in Tasks : u # t => (flight' = u <=> flight = u)
           /\ call' \in Verdict!Call \cup {Verdict!NoCall} /\ (flight' = NoTask <=> call' = Verdict!NoCall)
           /\ ids' \in 0 .. MaxSaves /\ ids <= ids' /\ ids' = ids /\ ids' \in Nat /\ held[t] \in BOOLEAN
           /\ todo' \in SUBSET Tasks /\ todo' \cup {t} = todo \cup {t}
        BY <1>1, <1>4 DEF VerdictInv, Verdict!TypeOK
    <1>14. FlightInv'
        BY <1>1, <1>4, <1>9, <1>13, FlightKept
    <1> QED
        BY <1>2, <1>4, <1>5, <1>7, <1>8, <1>9, <1>11, <1>12, <1>13, <1>14, Rewrites

\* A task is deleted.
LEMMA DeleteTaskStep ==
    ASSUME VerdictInv, NEW t \in Tasks, Verdict!DeleteTask(t)
    PROVE  Advances
    <1>1. /\ Verdict!Running /\ flight # t
          /\ life' = [life EXCEPT ![t] = "gone"] /\ held' = [held EXCEPT ![t] = FALSE]
          /\ Verdict!Becomes(t, Verdict!NoCopies)
          /\ UNCHANGED <<process, todo, flight, call, ids, clean>>
        BY DEF Verdict!DeleteTask
    <1>2. /\ ids \in 0 .. MaxSaves /\ ids \in Nat /\ clean[t] \in BOOLEAN /\ todo \in SUBSET Tasks
          /\ clean \in [Tasks -> BOOLEAN] /\ held \in [Tasks -> BOOLEAN] /\ life \in [Tasks -> Lives]
          /\ flight \in Tasks \cup {NoTask}
          /\ call \in Verdict!Call \cup {Verdict!NoCall} /\ (flight = NoTask <=> call = Verdict!NoCall)
        BY VerdictAssumption DEF VerdictInv, Verdict!TypeOK, Lives, Verdict!SavesAssumption
    <1>3. copies'[t] = Verdict!NoCopies /\ life'[t] = "gone" /\ clean'[t] = clean[t]
        <2>1. copies'[t] = Verdict!NoCopies
            BY <1>1 DEF Verdict!Becomes, VerdictInv, Verdict!TypeOK
        <2> QED
            BY <1>1, <1>2, <2>1
    <1>4. Verdict!NoCopies \in CopiesUpto(ids)
        BY <1>2, NothingFits
    <1>5. Durable(Verdict!NoCopies, clean[t])
        <2>1. /\ Verdict!NoCopies.log = << >> /\ ~Verdict!NoCopies.file.logged
            BY DEF Verdict!NoCopies, Verdict!None
        <2> QED
            BY <2>1 DEF Durable, InLog, Verdict!IsInjective
    <1>6. TaskInv(t)'
        BY <1>3, <1>5 DEF TaskInv, Kept, Verdict!Finished
    <1>7. ProcessInv'
        <2>1. \A u \in Tasks : u # t => life'[u] = life[u] /\ held'[u] = held[u]
            BY <1>1, <1>2
        <2> QED
            BY <1>1, <1>2, <1>3, <2>1 DEF ProcessInv, VerdictInv, Verdict!Running
    <1>8. /\ clean' = [clean EXCEPT ![t] = clean[t]] /\ process' = process
          /\ flight' \in Tasks \cup {NoTask}
          /\ \A u \in Tasks : u # t => (flight' = u <=> flight = u)
          /\ call' \in Verdict!Call \cup {Verdict!NoCall} /\ (flight' = NoTask <=> call' = Verdict!NoCall)
          /\ ids' \in 0 .. MaxSaves /\ ids <= ids' /\ ids' = ids /\ ids' \in Nat
          /\ todo' \in SUBSET Tasks /\ todo' \cup {t} = todo \cup {t}
          /\ "gone" \in Lives /\ UNCHANGED <<flight, call>>
        BY <1>1, <1>2 DEF Lives
    <1>9. \A u \in Tasks : u # t => held'[u] = held[u] /\ clean'[u] = clean[u]
        BY <1>1, <1>2
    <1>10. FlightInv'
        BY <1>1, <1>8, <1>9, FlightKept
    <1> QED
        BY <1>1, <1>2, <1>4, <1>6, <1>7, <1>8, <1>10, Rewrites

\* One task's repairs at a start, and the end of a classification that was
\* pending.
LEMMA ReconcileStep ==
    ASSUME VerdictInv, NEW t \in Tasks, Verdict!Reconcile(t)
    PROVE  Advances
    <1>1. PICK c \in CopiesUpto(ids), l \in Lives, sure \in BOOLEAN :
            c = copies[t] /\ l = life[t] /\ sure = clean[t]
        BY DEF VerdictInv, CopiesInv, Verdict!TypeOK, Lives
    <1>2. PICK expire \in BOOLEAN : expire <=> Verdict!Expires(c)
        OBVIOUS
    <1>3. PICK e : e = Verdict!Repaired(c, 3)
        OBVIOUS
    <1>4. /\ process = "booting" /\ t \in todo /\ life' = life
          /\ (expire => ids < MaxSaves) /\ ids' = IF expire THEN ids + 1 ELSE ids
        BY <1>1, <1>2 DEF Verdict!Reconcile
    <1>5. \/ /\ Verdict!Becomes(t, IF expire THEN Verdict!Interrupted(e, Verdict!All) ELSE e)
             /\ clean' = [clean EXCEPT ![t] = TRUE]
             /\ todo' = todo \ {t}
             /\ UNCHANGED <<process, held, flight, call>>
          \/ \E d \in {Verdict!Repaired(c, n) : n \in 0 .. 3}
                        \cup {Verdict!Interrupted(e, n) : n \in IF expire THEN 1 .. 3 ELSE {}} :
               \/ Verdict!Dies(t, d)
               \/ /\ Verdict!Raises(t, d)
                  /\ todo' = todo \ {t}
                  /\ UNCHANGED <<process, held, flight, call>>
        BY <1>1, <1>2, <1>3 DEF Verdict!Reconcile
    <1>6. /\ ids \in Nat /\ MaxSaves \in Nat /\ ids <= MaxSaves /\ ids' \in 0 .. MaxSaves
          /\ ids <= ids' /\ ids' \in Nat /\ todo \in SUBSET Tasks
          /\ clean \in [Tasks -> BOOLEAN] /\ held \in [Tasks -> BOOLEAN] /\ life \in [Tasks -> Lives]
          /\ copies \in [Tasks -> Verdict!Copies]
        BY <1>4, VerdictAssumption DEF VerdictInv, Verdict!TypeOK, Lives, Verdict!SavesAssumption
    <1>7. /\ l # "gone" /\ l # "running" /\ l \in Verdict!Finished /\ ~Verdict!Running
          /\ flight = NoTask /\ call = Verdict!NoCall /\ ~held[t] /\ flight # t
        <2>1. ~Verdict!Running /\ flight # t
            BY <1>4, VerdictAssumption DEF Verdict!Running, VerdictInv, ProcessInv, Verdict!TaskAssumption
        <2> QED
            BY <1>1, <1>4, <2>1 DEF VerdictInv, ProcessInv, Verdict!TypeOK, Lives, Verdict!Finished
    <1>8. Durable(c, sure)
        <2>1. Kept(copies[t], held[t], life[t], clean[t], Done(t), Verdict!Running, flight = t)
            BY DEF VerdictInv, TasksInv, TaskInv
        <2>2. Durable(copies[t], clean[t])
            BY <2>1 DEF Kept
        <2> QED
            BY <1>1, <2>2, Zenon
    <1>9. /\ e \in CopiesUpto(ids)
          /\ e.row = e.file /\ e.file = Verdict!Current(c) /\ InLog(e) /\ Durable(e, TRUE)
          /\ Durable(e, sure)
          /\ e.file.rev >= c.file.rev /\ e.row.rev >= c.row.rev
          /\ sure /\ c.file.logged => c.file.id \in Verdict!Range(e.log)
        <2>1. 3 \in 0 .. 3
            OBVIOUS
        <2>2. Repairs(c, sure, 3, e, ids)
            BY <1>1, <1>3, <1>6, <1>8, <2>1, RepairKeeps
        <2> QED
            BY <2>2 DEF Repairs
    <1> PICK no \in BOOLEAN, yes \in BOOLEAN : no = FALSE /\ yes = TRUE
        OBVIOUS
    <1>10. PICK r : r = Verdict!Added(e, no, "needs_review", 0)
        OBVIOUS
    <1>11. Ahead(e, no)
        BY DEF Ahead
    <1>12. /\ r \in Upto(ids + 1) /\ r.id > ids /\ r.logged /\ r.status = "needs_review"
           /\ r.rev > e.row.rev /\ r.rev > e.file.rev
        <2>1. "needs_review" \in Verdict!Status /\ 0 \in {0, 1} /\ ids <= ids
            BY <1>6 DEF Verdict!Status
        <2>2. /\ r \in Upto(ids + 1) /\ r.id = ids + 1 /\ r.logged /\ r.status = "needs_review"
              /\ r.rev > e.row.rev /\ r.rev > e.file.rev
            BY <1>6, <1>9, <1>10, <1>11, <2>1, NewRecord
        <2> QED
            BY <1>6, <2>2
    <1>13. ASSUME expire, NEW n \in 0 .. Verdict!All, NEW w, w = Verdict!Interrupted(e, n)
           PROVE  /\ Stores(e, no, yes, r, n, w, ids')
                  /\ w \in CopiesUpto(ids') /\ Durable(w, TRUE) /\ Durable(w, sure)
                  /\ Forth(c, w, sure)
        <2>1. w = Verdict!Written(e, no, r, n)
            BY <1>10, <1>13 DEF Verdict!Interrupted
        <2>2. r \in Upto(ids') /\ ids < ids'
            BY <1>4, <1>6, <1>12, <1>13
        <2>3. Durable(e, yes)
            BY <1>9
        <2>4. Stores(e, no, yes, r, n, w, ids')
            BY <1>6, <1>9, <1>11, <1>12, <2>1, <2>2, <2>3, Saved
        <2>5. w \in CopiesUpto(ids') /\ Durable(w, TRUE) /\ Durable(w, sure)
            BY <2>4 DEF Stores, Durable
        <2>6. /\ c.file.rev \in Nat /\ c.row.rev \in Nat /\ e.file.rev \in Nat /\ e.row.rev \in Nat
              /\ w.file.rev \in Nat /\ w.row.rev \in Nat
            BY <1>1, <1>6, <1>9, <2>5, CopiesHaveRecords
        <2>7. w.file.rev >= c.file.rev /\ w.row.rev >= c.row.rev
            BY <1>9, <2>4, <2>6 DEF Stores
        <2>8. sure /\ c.file.logged => c.file.id \in Verdict!Range(w.log)
            BY <1>9, <2>4 DEF Stores
        <2>9. Forth(c, w, sure)
            BY <2>7, <2>8 DEF Forth
        <2> QED
            BY <2>4, <2>5, <2>9
    <1>14. /\ flight' = flight => flight' \in Tasks \cup {NoTask}
           /\ call' = call => call' \in Verdict!Call \cup {Verdict!NoCall}
           /\ held = [held EXCEPT ![t] = held[t]] /\ held[t] \in BOOLEAN
           /\ life = [life EXCEPT ![t] = l]
        BY <1>1, <1>6, <1>7
    <1>15. ASSUME NEW d \in CopiesUpto(ids'), Durable(d, sure), Forth(c, d, sure), Verdict!Dies(t, d)
           PROVE  Advances
        <2>1. Durable(d, clean[t]) /\ Forth(copies[t], d, clean[t])
            BY <1>1, <1>15, Zenon
        <2> QED
            BY <1>1, <1>4, <1>6, <1>7, <1>15, <2>1, EndsAfter
    <1>16. ASSUME NEW d \in CopiesUpto(ids'), NEW b \in BOOLEAN, Durable(d, b), Forth(c, d, sure /\ b),
                  Verdict!Becomes(t, d), clean' = [clean EXCEPT ![t] = b],
                  b => d.row = d.file /\ InLog(d) /\ d.file.status # "pending",
                  todo' = todo \ {t}, UNCHANGED <<process, held, flight, call>>
           PROVE  Advances
        <2>1. copies'[t] = d /\ life'[t] = l /\ ~held'[t] /\ clean'[t] = b
            <3>1. copies'[t] = d
                BY <1>6, <1>16 DEF Verdict!Becomes
            <3> QED
                BY <1>1, <1>4, <1>6, <1>7, <1>16, <3>1
        <2>2. TaskInv(t)'
            <3>1. ~Verdict!Running' /\ Ahead(d, held'[t])
                BY <1>7, <1>16, <2>1 DEF Verdict!Running, Ahead
            <3>2. Durable(d, clean'[t])
                BY <1>16, <2>1, Zenon
            <3> QED
                BY <1>7, <1>16, <2>1, <3>1, <3>2 DEF TaskInv, Kept
        <2>3. ProcessInv'
            BY <1>4, <1>16 DEF ProcessInv, VerdictInv, Verdict!Running
        <2>4. FlightInv'
            BY <1>7, <1>16 DEF FlightInv
        <2>5. Forth(copies[t], d, clean[t] /\ b)
            BY <1>1, <1>16 DEF Forth
        <2>6. /\ todo' \in SUBSET Tasks /\ todo' \cup {t} = todo \cup {t}
              /\ held' = [held EXCEPT ![t] = held[t]] /\ life' = [life EXCEPT ![t] = l]
              /\ flight' \in Tasks \cup {NoTask} /\ call' \in Verdict!Call \cup {Verdict!NoCall}
              /\ flight' = NoTask <=> call' = Verdict!NoCall
              /\ \A u \in Tasks : u # t => (flight' = u <=> flight = u)
              /\ process' = process
            BY <1>4, <1>6, <1>7, <1>14, <1>16
        <2> QED
            BY <1>6, <1>7, <1>14, <1>16, <2>2, <2>3, <2>4, <2>5, <2>6, Rewrites
    <1>17. CopiesUpto(ids) \subseteq CopiesUpto(ids')
        BY <1>6, UptoGrows
    <1>18. CASE /\ Verdict!Becomes(t, IF expire THEN Verdict!Interrupted(e, Verdict!All) ELSE e)
                /\ clean' = [clean EXCEPT ![t] = TRUE]
                /\ todo' = todo \ {t}
                /\ UNCHANGED <<process, held, flight, call>>
        <2>1. CASE expire
            <3>1. PICK w : w = Verdict!Interrupted(e, Verdict!All)
                OBVIOUS
            <3>2. Verdict!All \in 0 .. Verdict!All
                BY DEF Verdict!All
            <3>3. /\ Stores(e, no, yes, r, Verdict!All, w, ids')
                  /\ w \in CopiesUpto(ids') /\ Durable(w, TRUE) /\ Forth(c, w, sure)
                BY <1>13, <2>1, <3>1, <3>2
            <3>4. w.row = w.file /\ InLog(w) /\ w.file.status # "pending"
                BY <1>12, <3>3 DEF Stores
            <3>5. Verdict!Becomes(t, w)
                BY <1>18, <2>1, <3>1
            <3>6. Forth(c, w, sure /\ TRUE)
                BY <3>3 DEF Forth
            <3> QED
                BY <1>16, <1>18, <3>3, <3>4, <3>5, <3>6
        <2>2. CASE ~expire
            <3>1. Verdict!Becomes(t, e)
                BY <1>18, <2>2
            <3>2. e.file.status # "pending"
                BY <1>2, <1>9, <2>2 DEF Verdict!Expires
            <3>3. Forth(c, e, sure /\ TRUE)
                BY <1>9 DEF Forth
            <3> QED
                BY <1>9, <1>16, <1>17, <1>18, <3>1, <3>2, <3>3
        <2> QED
            BY <2>1, <2>2
    <1>19. ASSUME NEW d \in {Verdict!Repaired(c, n) : n \in 0 .. 3}
                              \cup {Verdict!Interrupted(e, n) : n \in IF expire THEN 1 .. 3 ELSE {}}
           PROVE  d \in CopiesUpto(ids') /\ Durable(d, sure) /\ Forth(c, d, sure)
        <2>1. CASE \E n \in 0 .. 3 : d = Verdict!Repaired(c, n)
            <3>1. PICK n \in 0 .. 3 : d = Verdict!Repaired(c, n)
                BY <2>1
            <3>2. Repairs(c, sure, n, d, ids)
                BY <1>1, <1>6, <1>8, <3>1, RepairKeeps
            <3> QED
                BY <1>17, <3>2 DEF Forth, Repairs
        <2>2. CASE expire /\ \E n \in 1 .. 3 : d = Verdict!Interrupted(e, n)
            <3>1. PICK n \in 1 .. 3 : d = Verdict!Interrupted(e, n)
                BY <2>2
            <3>2. n \in 0 .. Verdict!All
                BY DEF Verdict!All
            <3> QED
                BY <1>13, <2>2, <3>1, <3>2
        <2> QED
            BY <1>19, <2>1, <2>2
    <1>20. CASE \E d \in {Verdict!Repaired(c, n) : n \in 0 .. 3}
                           \cup {Verdict!Interrupted(e, n) : n \in IF expire THEN 1 .. 3 ELSE {}} :
                  \/ Verdict!Dies(t, d)
                  \/ /\ Verdict!Raises(t, d)
                     /\ todo' = todo \ {t}
                     /\ UNCHANGED <<process, held, flight, call>>
        <2>1. PICK d \in CopiesUpto(ids') :
                /\ Durable(d, sure) /\ Forth(c, d, sure)
                /\ \/ Verdict!Dies(t, d)
                   \/ /\ Verdict!Raises(t, d)
                      /\ todo' = todo \ {t}
                      /\ UNCHANGED <<process, held, flight, call>>
            BY <1>19, <1>20
        <2>2. CASE Verdict!Dies(t, d)
            BY <1>15, <2>1, <2>2
        <2>3. CASE /\ Verdict!Raises(t, d)
                   /\ todo' = todo \ {t}
                   /\ UNCHANGED <<process, held, flight, call>>
            <3>1. Verdict!Becomes(t, d) /\ clean' = [clean EXCEPT ![t] = FALSE]
                BY <2>3 DEF Verdict!Raises
            <3>2. Durable(d, FALSE) /\ Forth(c, d, sure /\ FALSE)
                BY <2>1 DEF Durable, Forth
            <3> QED
                BY <1>16, <2>3, <3>1, <3>2
        <2> QED
            BY <2>1, <2>2, <2>3
    <1> QED
        BY <1>5, <1>18, <1>20

\* A step that leaves the copies alone.
LEMMA Untouched ==
    ASSUME VerdictInv, UNCHANGED <<copies, ids>>, Verdict!TypeOK', ProcessInv', FlightInv',
           \A t \in Tasks : TaskInv(t)'
    PROVE  Advances
    <1>1. CopiesInv'
        BY DEF VerdictInv, CopiesInv
    <1>2. ASSUME NEW t \in Tasks PROVE Forth(copies[t], copies'[t], clean[t] /\ clean'[t])
        <2>1. PICK c : c = copies[t] /\ c \in CopiesUpto(ids) /\ ids \in Nat
            BY VerdictAssumption DEF VerdictInv, CopiesInv, Verdict!TypeOK, Verdict!SavesAssumption
        <2>2. c.file.rev \in Nat /\ c.row.rev \in Nat
            BY <2>1, CopiesHaveRecords
        <2> QED
            BY <2>1, <2>2 DEF Forth
    <1> QED
        BY <1>1, <1>2, ForthIsByStep DEF Advances, VerdictInv, TasksInv

\* The classifier answers, and the thread leaves.
LEMMA WorkerSteps ==
    ASSUME VerdictInv, Verdict!Answer \/ Verdict!Release
    PROVE  Advances
    <1>1. /\ flight \in Tasks /\ flight # NoTask /\ call \in Verdict!Call
          /\ Verdict!Running /\ life[flight] = "COMPLETED"
          /\ ThreadInv(copies[flight], held[flight], clean[flight])
          /\ call.step \in {"calling", "done"}
        <2>1. call.step # "none" /\ call.step \in {"calling", "done"}
            BY DEF Verdict!Answer, Verdict!Release
        <2> QED
            BY <2>1, InFlight
    <1>2. UNCHANGED <<process, todo, life, held, copies, ids, clean>>
        BY DEF Verdict!Answer, Verdict!Release
    <1>3. ASSUME NEW t \in Tasks
          PROVE  Kept(copies[t], held[t], life[t], clean[t], Done(t), Verdict!Running, flight = t)
        BY DEF VerdictInv, TasksInv, TaskInv
    <1>4. CASE Verdict!Answer
        <2>1. PICK status \in {"verdict", "needs_review"}, n \in {0, 1} :
                call' = [call EXCEPT !.step = "save", !.status = status, !.calls = n]
            BY <1>4 DEF Verdict!Answer
        <2>2. call' = CallRec("save", status, n, call.base, call.stored)
            BY <1>1, <2>1, CallUpdates
        <2>3. flight' = flight /\ call.step = "calling"
            BY <1>4 DEF Verdict!Answer
        <2>4. call' \in Verdict!Call
            BY <1>1, <2>2 DEF Verdict!Call, CallRec, Verdict!Status
        <2>5. /\ call'.step = "save" /\ call'.status = status /\ call'.base = call.base
              /\ (call'.stored <=> call.stored) /\ call' # Verdict!NoCall
            BY <1>1, <2>2 DEF CallRec, Verdict!NoCall, Verdict!Call
        <2>6. FlightInv'
            BY <1>1, <1>2, <2>3, <2>5 DEF FlightInv, ThreadInv
        <2>7. Verdict!TypeOK'
            BY <1>1, <1>2, <2>3, <2>4, <2>5 DEF VerdictInv, Verdict!TypeOK
        <2>8. ProcessInv'
            BY <1>2, <2>3 DEF VerdictInv, ProcessInv, Verdict!Running
        <2>9. ASSUME NEW t \in Tasks PROVE TaskInv(t)'
            BY <1>2, <1>3, <2>3 DEF TaskInv, Kept, Done, Verdict!Running
        <2> QED
            BY <1>2, <2>6, <2>7, <2>8, <2>9, Untouched
    <1>5. CASE Verdict!Release
        <2>1. flight' = NoTask /\ call' = Verdict!NoCall /\ call.step = "done"
            BY <1>5 DEF Verdict!Release
        <2>2. Verdict!TypeOK'
            BY <1>2, <2>1 DEF VerdictInv, Verdict!TypeOK
        <2>3. ProcessInv' /\ FlightInv'
            BY <1>2, <2>1 DEF VerdictInv, ProcessInv, Verdict!Running, FlightInv
        <2>4. ASSUME NEW t \in Tasks PROVE TaskInv(t)'
            <3>1. clean[flight] => copies[flight].file.status # "pending"
                BY <1>1, <2>1 DEF ThreadInv
            <3>2. flight' # t
                BY <2>1, VerdictAssumption DEF Verdict!TaskAssumption
            <3> QED
                BY <1>2, <1>3, <2>4, <3>1, <3>2 DEF TaskInv, Kept, Done, Verdict!Running
        <2> QED
            BY <1>2, <2>2, <2>3, <2>4, Untouched
    <1> QED
        BY <1>4, <1>5

\* Shutdown, the end of the process and its next start.
LEMMA ProcessSteps ==
    ASSUME VerdictInv,
           Verdict!BeginShutdown \/ Verdict!Quit \/ Verdict!Boot \/ Verdict!Booted
    PROVE  Advances
    <1>1. ASSUME NEW t \in Tasks
          PROVE  /\ Kept(copies[t], held[t], life[t], clean[t], Done(t), Verdict!Running, flight = t)
                 /\ copies[t] \in CopiesUpto(ids) /\ ids \in 0 .. MaxSaves /\ ids \in Nat
                 /\ life[t] \in Lives
        BY VerdictAssumption DEF VerdictInv, TasksInv, TaskInv, CopiesInv, Verdict!TypeOK, Lives, Verdict!SavesAssumption
    <1>2. CASE Verdict!BeginShutdown
        <2>1. /\ process = "up" /\ process' = "closing"
              /\ UNCHANGED <<todo, life, held, copies, flight, call, ids, clean>>
            BY <1>2 DEF Verdict!BeginShutdown
        <2>2. Verdict!Running /\ Verdict!Running'
            BY <2>1 DEF Verdict!Running
        <2>3. Verdict!TypeOK' /\ ProcessInv' /\ FlightInv'
            BY <2>1, <2>2 DEF VerdictInv, Verdict!TypeOK, ProcessInv, FlightInv, ThreadInv
        <2>4. ASSUME NEW t \in Tasks PROVE TaskInv(t)'
            BY <1>1, <2>1, <2>2 DEF TaskInv, Kept, Done
        <2> QED
            BY <2>1, <2>3, <2>4, Untouched
    <1>3. CASE Verdict!Boot
        <2>1. /\ process = "off" /\ process' = "booting"
              /\ todo' = {t \in Tasks : life[t] # "gone"}
              /\ life' = [t \in Tasks |-> IF life[t] = "running" THEN "FAILED" ELSE life[t]]
              /\ UNCHANGED <<held, copies, flight, call, ids, clean>>
            BY <1>3 DEF Verdict!Boot
        <2>2. ~Verdict!Running /\ ~Verdict!Running' /\ flight = NoTask /\ \A t \in Tasks : ~held[t]
            BY <2>1 DEF Verdict!Running, VerdictInv, ProcessInv
        <2>3. Verdict!TypeOK' /\ ProcessInv' /\ FlightInv'
            BY <2>1, <2>2 DEF VerdictInv, Verdict!TypeOK, ProcessInv, FlightInv
        <2>4. ASSUME NEW t \in Tasks PROVE TaskInv(t)'
            <3>1. /\ Durable(copies[t], clean[t]) /\ (life[t] = "gone" => copies[t] = Verdict!NoCopies)
                BY <1>1 DEF Kept
            <3>2. Done(t)' => life[t] = "gone"
                BY <2>1, <2>2 DEF Done
            <3>3. life'[t] = IF life[t] = "running" THEN "FAILED" ELSE life[t]
                BY <2>1
            <3>4. Ahead(copies[t], held[t])
                BY <2>2 DEF Ahead
            <3> QED
                BY <2>1, <2>2, <3>1, <3>2, <3>3, <3>4 DEF TaskInv, Kept, Verdict!Finished
        <2> QED
            BY <2>1, <2>3, <2>4, Untouched
    <1>4. CASE Verdict!Booted
        <2>1. /\ process = "booting" /\ todo = {} /\ process' = "up"
              /\ UNCHANGED <<todo, life, held, copies, flight, call, ids, clean>>
            BY <1>4 DEF Verdict!Booted
        <2>2. /\ ~Verdict!Running /\ Verdict!Running' /\ flight = NoTask
              /\ \A t \in Tasks : life[t] # "running"
            BY <2>1 DEF Verdict!Running, VerdictInv, ProcessInv
        <2>3. Verdict!TypeOK' /\ ProcessInv' /\ FlightInv'
            BY <2>1, <2>2 DEF VerdictInv, Verdict!TypeOK, ProcessInv, FlightInv
        <2>4. ASSUME NEW t \in Tasks PROVE TaskInv(t)'
            <3>1. Done(t)
                BY <2>1 DEF Done
            <3> QED
                BY <1>1, <2>1, <2>2, <3>1 DEF TaskInv, Kept
        <2> QED
            BY <2>1, <2>3, <2>4, Untouched
    <1>5. CASE Verdict!Quit
        <2>1. /\ copies' = Verdict!Lost(copies) /\ Verdict!Down /\ UNCHANGED <<life, clean>>
              /\ ids' = ids
            BY <1>5 DEF Verdict!Quit
        <2>2. /\ ids' \in 0 .. MaxSaves /\ ids <= ids' /\ copies \in [Tasks -> CopiesUpto(ids')]
            BY <2>1, VerdictAssumption DEF VerdictInv, CopiesInv, Verdict!TypeOK, Verdict!SavesAssumption
        <2>3. ASSUME NEW t \in Tasks
              PROVE  /\ Durable(copies[t], clean[t]) /\ Forth(copies[t], copies[t], clean[t])
                     /\ life[t] = "gone" => copies[t] = Verdict!NoCopies
            <3>1. PICK c : c = copies[t] /\ c \in CopiesUpto(ids) /\ ids \in Nat
                BY <1>1
            <3>2. c.file.rev \in Nat /\ c.row.rev \in Nat
                BY <3>1, CopiesHaveRecords
            <3> QED
                BY <1>1, <3>1, <3>2 DEF Kept, Forth
        <2> QED
            BY <2>1, <2>2, <2>3, Ends
    <1> QED
        BY <1>2, <1>3, <1>4, <1>5

-----------------------------------------------------------------------------
LEMMA VerdictInit ==
    ASSUME Verdict!Init
    PROVE  VerdictInv
    <1>1. /\ process = "up" /\ todo = {} /\ life = [t \in Tasks |-> "running"]
          /\ held = [t \in Tasks |-> TRUE] /\ copies = [t \in Tasks |-> Verdict!NoCopies]
          /\ flight = NoTask /\ call = Verdict!NoCall /\ ids = 0
          /\ clean = [t \in Tasks |-> TRUE] /\ MaxSaves \in Nat /\ NoTask \notin Tasks
        BY VerdictAssumption DEF Verdict!Init, Verdict!SavesAssumption, Verdict!TaskAssumption
    <1>2. /\ Verdict!NoCopies \in CopiesUpto(0) /\ Verdict!NoCopies \in Verdict!Copies
        BY <1>1, NothingFits, CopiesAreUpto
    <1>3. Verdict!TypeOK
        BY <1>1, <1>2 DEF Verdict!TypeOK
    <1>4. Verdict!Running
        BY <1>1 DEF Verdict!Running
    <1>5. ProcessInv /\ FlightInv /\ CopiesInv
        BY <1>1, <1>2, <1>4 DEF ProcessInv, FlightInv, CopiesInv
    <1>6. ASSUME NEW t \in Tasks PROVE TaskInv(t)
        <2>1. /\ Verdict!NoCopies.log = << >> /\ ~Verdict!NoCopies.file.logged
              /\ Verdict!NoCopies.mem = Verdict!None /\ Verdict!NoCopies.file = Verdict!None
              /\ Verdict!NoCopies.row = Verdict!None /\ Verdict!None.rev = 0
              /\ Verdict!None.status = "none"
            BY DEF Verdict!NoCopies, Verdict!None
        <2>2. Durable(Verdict!NoCopies, TRUE)
            BY <2>1 DEF Durable, InLog, Verdict!IsInjective
        <2>3. life[t] = "running" /\ held[t] /\ clean[t] /\ copies[t] = Verdict!NoCopies /\ flight # t
            BY <1>1
        <2>4. Durable(copies[t], clean[t])
            BY <2>2, <2>3 DEF Durable
        <2>5. /\ copies[t].mem.status # "pending" /\ copies[t].mem = copies[t].file
              /\ copies[t].row.rev <= copies[t].mem.rev /\ copies[t].file.rev <= copies[t].mem.rev
              /\ ~copies[t].file.logged
            BY <2>1, <2>3
        <2>6. life[t] # "gone" /\ life[t] \notin Verdict!Finished
            BY <2>3 DEF Verdict!Finished
        <2> QED
            BY <2>3, <2>4, <2>5, <2>6 DEF TaskInv, Kept
    <1> QED
        BY <1>3, <1>5, <1>6 DEF VerdictInv, TasksInv

LEMMA VerdictStep ==
    ASSUME VerdictInv, Verdict!Next
    PROVE  Advances
    <1>1. CASE \E t \in Tasks : Verdict!NativeAnswer(t) \/ Verdict!Snapshot(t) \/ Verdict!Finish(t)
        BY <1>1, NativeAnswerStep, SnapshotStep, FinishStep
    <1>2. CASE \E t \in Tasks : Verdict!Request(t) \/ Verdict!Reconcile(t)
        BY <1>2, JudgeStep, ClassifyStep, StartFailedStep, DeleteTaskStep, ReconcileStep DEF Verdict!Request
    <1>3. CASE Verdict!Worker
        BY <1>3, WorkerSteps, SaveAnswerStep, SaveFailedStep DEF Verdict!Worker
    <1>4. CASE Verdict!BeginShutdown \/ Verdict!Quit \/ Verdict!Boot \/ Verdict!Booted
        BY <1>4, ProcessSteps
    <1> QED
        BY <1>1, <1>2, <1>3, <1>4 DEF Verdict!Next

LEMMA VerdictsAreSound ==
    ASSUME which = "verdict" => VerdictInv
    PROVE  VerdictsSound
    <1> SUFFICES ASSUME VerdictInv
                 PROVE  /\ Verdict!TypeOK /\ Verdict!CopiesAgree /\ Verdict!PendingIsLive
                        /\ Verdict!LoggedOnce /\ Verdict!AttemptCountedOnce
                        /\ Verdict!DeletedStaysDeleted
        BY DEF VerdictsSound
    <1>1. ASSUME NEW t \in Tasks
          PROVE  /\ Kept(copies[t], held[t], life[t], clean[t], Done(t), Verdict!Running, flight = t)
                 /\ Verdict!Running => Done(t)
                 /\ life[t] \in {"running", "COMPLETED", "FAILED", "gone"}
        BY DEF VerdictInv, TasksInv, TaskInv, Done, Verdict!TypeOK
    <1>2. Verdict!TypeOK
        BY DEF VerdictInv
    <1>3. Verdict!CopiesAgree
        BY <1>1 DEF Verdict!CopiesAgree, Kept
    <1>4. Verdict!LoggedOnce /\ Verdict!DeletedStaysDeleted
        BY <1>1 DEF Verdict!LoggedOnce, Verdict!DeletedStaysDeleted, Kept, Durable
    <1>5. Verdict!PendingIsLive
        <2> SUFFICES ASSUME NEW t \in Tasks, Verdict!Running, clean[t], Verdict!Shown(t) = "pending"
                     PROVE  flight = t
            BY DEF Verdict!PendingIsLive
        <2>1. Verdict!Known(copies[t], held[t]).status = "pending" /\ life[t] # "FAILED"
            BY DEF Verdict!Shown, Verdict!ShownStatus
        <2>2. CASE life[t] = "running"
            BY <1>1, <2>1, <2>2 DEF Kept, Verdict!Known
        <2>3. CASE life[t] = "COMPLETED"
            BY <1>1, <2>1, <2>3 DEF Kept, Verdict!Known, Verdict!Finished
        <2>4. CASE life[t] = "gone"
            <3>1. copies[t] = Verdict!NoCopies
                BY <1>1, <2>4 DEF Kept
            <3>2. Verdict!Known(copies[t], held[t]).status = "none"
                BY <3>1 DEF Verdict!Known, Verdict!NoCopies, Verdict!None
            <3> QED
                BY <2>1, <3>2
        <2> QED
            BY <1>1, <2>1, <2>2, <2>3, <2>4
    <1>6. Verdict!AttemptCountedOnce
        <2> SUFFICES ASSUME call.step = "done", call.stored
                     PROVE  copies[flight].file.total = call.base + call.calls
            BY DEF Verdict!AttemptCountedOnce
        <2>1. ThreadInv(copies[flight], held[flight], clean[flight])
            BY InFlight
        <2> QED
            BY <2>1 DEF ThreadInv
    <1> QED
        BY <1>2, <1>3, <1>4, <1>5, <1>6

\* A step of the root is one of the component, or leaves it alone.
LEMMA VerdictRootStep ==
    ASSUME which = "verdict" => VerdictInv, [Next]_vars
    PROVE  /\ (which = "verdict" => VerdictInv)'
           /\ which = "verdict" => Verdict!ReplacedByStep /\ Verdict!ForwardByStep
    <1> SUFFICES ASSUME which' = "verdict" \/ which = "verdict"
                 PROVE  Advances
        BY DEF Advances
    <1>1. which' = which
        BY DEF Next, OnlyFinal, OnlyVerdict, OnlyRoute, vars
    <1>2. VerdictInv
        BY <1>1
    <1>3. CASE OnlyVerdict /\ Verdict!Next
        BY <1>2, <1>3, VerdictStep
    <1>4. CASE UNCHANGED vars
        <2>1. UNCHANGED <<process, todo, life, held, copies, flight, call, ids, clean>>
            BY <1>4 DEF vars, verdictVars
        <2>2. Verdict!TypeOK' /\ ProcessInv' /\ FlightInv'
            BY <1>2, <2>1 DEF VerdictInv, Verdict!TypeOK, ProcessInv, FlightInv, ThreadInv, Verdict!Running
        <2>3. ASSUME NEW t \in Tasks PROVE TaskInv(t)'
            BY <1>2, <2>1 DEF VerdictInv, TasksInv, TaskInv, Kept, Done, Verdict!Running
        <2> QED
            BY <1>2, <2>1, <2>2, <2>3, Untouched
    <1> QED
        BY <1>1, <1>3, <1>4 DEF Next, OnlyFinal, OnlyRoute, vars

\* Whatever was interrupted, once a task is reconciled its verdict is one record:
\* shown, logged and counted once, and only while a thread is in flight pending
\* (TaskService._save_assessment_locked, request_assessment and
\* _reconcile_assessments).
THEOREM VerdictsAreConsistent == Spec => []VerdictsSound
    <1>1. Init => (which = "verdict" => VerdictInv)
        BY VerdictInit DEF Init
    <1>2. (which = "verdict" => VerdictInv) /\ [Next]_vars => (which = "verdict" => VerdictInv)'
        BY VerdictRootStep
    <1>3. (which = "verdict" => VerdictInv) => VerdictsSound
        BY VerdictsAreSound
    <1> QED
        BY <1>1, <1>2, <1>3, PTL DEF Spec

\* No verdict is replaced before the history has it, and neither of its stored
\* copies ever goes back to an earlier one, whatever raises or ends the process.
THEOREM VerdictsGoForward == Spec => VerdictsForward
    <1>1. Init => (which = "verdict" => VerdictInv)
        BY VerdictInit DEF Init
    <1>2. (which = "verdict" => VerdictInv) /\ [Next]_vars => (which = "verdict" => VerdictInv)'
        BY VerdictRootStep
    <1>3. (which = "verdict" => VerdictInv) /\ [Next]_vars
            => [which = "verdict" => Verdict!ReplacedByStep /\ Verdict!ForwardByStep]_vars
        BY VerdictRootStep
    <1> QED
        BY <1>1, <1>2, <1>3, PTL DEF Spec, VerdictsForward

-----------------------------------------------------------------------------
(* Routing: the invariant.                                                 *)

Undecided == {"RUNNING", "PAUSING", "PAUSED"}
Decided   == {"FINALIZING", "COMPLETED", "FAILED"}

RouteTypes ==
    /\ born \in {"auto", "task", "conversation"} /\ became \in {"auto", "task", "conversation"}
    /\ state \in Undecided \cup Decided
    /\ catalog \in [business : Nat, other : Nat]
    /\ rounds \in [stale : Nat, counted : Nat]
    /\ turn = Route!Runs \/ turn \in Route!Ends
    /\ traced \in BOOLEAN
    /\ gains \in Seq(Nat)

\* The counter of rounds without news counts the last turns that brought none.
Counts ==
    /\ rounds.counted = Route!Evidenced
    /\ rounds.stale <= Len(gains)
    /\ \A k \in 1 .. Len(gains) : k > Len(gains) - rounds.stale => gains[k] = 0

\* Nothing is decided while the task goes on, and no turn runs after it.
Decision ==
    /\ state \in Undecided => became = born /\ why = <<>>
    /\ state \in Decided => Route!Ended
    /\ born = "auto" /\ became = "conversation" /\ state \in Decided =>
          turn.normal /\ catalog.business = 0 /\ ~traced
    /\ \A i \in DOMAIN why : why[i] = "no_new_evidence" => rounds.stale >= MaxStaleRounds

RouteInv == RouteTypes /\ Counts /\ Decision /\ Route!FinalizedIsHonest

LEMMA RouteEnds ==
    ASSUME NEW e \in Route!Ends
    PROVE  /\ e # Route!Runs /\ e.runs = FALSE
           /\ e.limit \in BOOLEAN /\ e.guard \in BOOLEAN /\ e.normal \in BOOLEAN
    <1>1. e \in [runs : {FALSE}, limit : BOOLEAN, guard : BOOLEAN, normal : BOOLEAN]
        BY DEF Route!Ends
    <1>2. e.runs = FALSE /\ e.limit \in BOOLEAN /\ e.guard \in BOOLEAN /\ e.normal \in BOOLEAN
        BY <1>1
    <1>3. Route!Runs.runs = TRUE
        BY DEF Route!Runs
    <1> QED
        BY <1>2, <1>3

LEMMA RouteInit ==
    ASSUME Route!Init
    PROVE  RouteInv
    <1>1. RouteTypes
        <2>1. catalog \in [business : Nat, other : Nat] /\ rounds \in [stale : Nat, counted : Nat]
              /\ gains \in Seq(Nat)
            BY DEF Route!Init
        <2> QED
            BY <2>1 DEF Route!Init, RouteTypes, Undecided
    <1>2. Counts
        BY DEF Route!Init, Counts, Route!Evidenced
    <1>3. Decision
        BY DEF Route!Init, Decision, Undecided, Decided
    <1>4. Route!FinalizedIsHonest
        BY DEF Route!Init, Route!FinalizedIsHonest
    <1> QED
        BY <1>1, <1>2, <1>3, <1>4 DEF RouteInv

\* A step of a turn or of the user's: the mode, the reasons and the counter of
\* the task stay, and it is not decided.
LEMMA GoesOn ==
    ASSUME RouteInv, state \in Undecided, state' \in Undecided,
           UNCHANGED <<born, became, catalog, rounds, why, gains>>,
           turn' = turn \/ turn' = Route!Runs, traced' \in BOOLEAN
    PROVE  RouteInv'
    <1>1. RouteTypes'
        BY DEF RouteInv, RouteTypes, Route!Runs, Route!Ends
    <1>2. Counts'
        BY DEF RouteInv, Counts, Route!Evidenced
    <1>3. Decision'
        BY DEF RouteInv, Decision, Undecided, Decided
    <1>4. Route!FinalizedIsHonest'
        BY DEF Route!FinalizedIsHonest, Undecided
    <1> QED
        BY <1>1, <1>2, <1>3, <1>4 DEF RouteInv

LEMMA TurnGoesOn ==
    ASSUME RouteInv, Route!Touch \/ Route!Ask \/ Route!Compact
    PROVE  RouteInv'
    <1>1. turn = Route!Runs /\ UNCHANGED <<born, became, state, catalog, rounds, turn, why, gains>>
          /\ traced' \in BOOLEAN
        BY DEF Route!Touch, Route!Ask, Route!Compact, Route!Told, RouteInv, RouteTypes
    <1>2. state \notin Decided
        BY <1>1 DEF RouteInv, Decision, Route!Ended, Route!Runs
    <1>3. state \in Undecided
        BY <1>2 DEF RouteInv, RouteTypes
    <1> QED
        BY <1>1, <1>3, GoesOn

LEMMA UserSteps ==
    ASSUME RouteInv, Route!User \/ Route!Pause \/ Route!Continue
    PROVE  RouteInv'
    <1>1. CASE Route!Steer \/ Route!Stop
        BY <1>1, GoesOn DEF Route!Steer, Route!Stop, Undecided, RouteInv, RouteTypes
    <1>2. CASE Route!Resume \/ Route!Continue
        BY <1>2, GoesOn DEF Route!Resume, Route!Continue, Route!NextTurn, Undecided
    <1>3. CASE Route!Pause
        BY <1>3, GoesOn DEF Route!Pause, Route!Drives, Undecided, RouteInv, RouteTypes
    <1> QED
        BY <1>1, <1>2, <1>3 DEF Route!User

LEMMA TurnEndsStep ==
    ASSUME RouteInv, NEW e \in Route!Ends, NEW b \in 0 .. 1, NEW o \in 0 .. 1,
           Route!TurnEnds(e, b, o)
    PROVE  RouteInv'
    <1>1. /\ turn = Route!Runs /\ turn' = e
          /\ UNCHANGED <<born, became, state, why, traced>>
          /\ catalog' = [business |-> catalog.business + b, other |-> catalog.other + o]
          /\ rounds' = Route!Checkpoint(Route!Evidenced + b + o)
          /\ gains' = Append(gains, b + o)
        BY DEF Route!TurnEnds
    <1>2. /\ catalog.business \in Nat /\ catalog.other \in Nat /\ rounds.stale \in Nat
          /\ rounds.counted \in Nat /\ gains \in Seq(Nat) /\ Len(gains) \in Nat
        BY DEF RouteInv, RouteTypes
    <1>3. state \in Undecided
        BY <1>1 DEF RouteInv, RouteTypes, Decision, Route!Ended, Route!Runs
    <1>4. /\ catalog'.business = catalog.business + b /\ catalog'.other = catalog.other + o
          /\ catalog' \in [business : Nat, other : Nat]
        BY <1>1, <1>2
    <1>5. Route!Evidenced \in Nat /\ Route!Evidenced' = Route!Evidenced + b + o
        <2>1. Route!Evidenced = catalog.business + catalog.other
            BY DEF Route!Evidenced
        <2>2. Route!Evidenced' = catalog'.business + catalog'.other
            BY DEF Route!Evidenced
        <2>3. catalog.business + catalog.other \in Nat
            BY <1>2
        <2>4. (catalog.business + b) + (catalog.other + o) = catalog.business + catalog.other + b + o
            BY <1>2
        <2> QED
            BY <2>1, <2>2, <2>3, <2>4, <1>4
    <1>6. /\ rounds'.counted = Route!Evidenced + b + o
          /\ rounds'.stale = IF b + o > 0 THEN 0 ELSE rounds.stale + 1
          /\ rounds' \in [stale : Nat, counted : Nat]
        BY <1>1, <1>2, <1>5 DEF Route!Checkpoint, RouteInv, Counts
    <1>7. /\ gains' \in Seq(Nat) /\ Len(gains') = Len(gains) + 1
          /\ \A k \in 1 .. Len(gains) : gains'[k] = gains[k]
          /\ gains'[Len(gains) + 1] = b + o
        BY <1>1, <1>2
    <1>8. RouteTypes'
        BY <1>1, <1>4, <1>6, <1>7 DEF RouteInv, RouteTypes
    <1>9. Counts'
        <2>1. rounds'.counted = Route!Evidenced' /\ rounds'.stale <= Len(gains')
            BY <1>2, <1>5, <1>6, <1>7 DEF RouteInv, Counts
        <2>2. ASSUME NEW k \in 1 .. Len(gains'), k > Len(gains') - rounds'.stale
              PROVE  gains'[k] = 0
            <3>1. b + o = 0 /\ rounds'.stale = rounds.stale + 1
                BY <2>2, <1>2, <1>6, <1>7
            <3>2. CASE k = Len(gains) + 1
                BY <3>1, <3>2, <1>7
            <3>3. CASE k # Len(gains) + 1
                <4>1. k \in 1 .. Len(gains) /\ k > Len(gains) - rounds.stale
                    BY <2>2, <3>1, <3>3, <1>2, <1>7
                <4> QED
                    BY <4>1, <1>7 DEF RouteInv, Counts
            <3> QED
                BY <3>2, <3>3
        <2> QED
            BY <2>1, <2>2 DEF Counts
    <1>10. Decision'
        BY <1>1, <1>3 DEF RouteInv, Decision, Undecided, Decided
    <1>11. Route!FinalizedIsHonest'
        BY <1>1, <1>3 DEF Route!FinalizedIsHonest, Undecided
    <1> QED
        BY <1>8, <1>9, <1>10, <1>11 DEF RouteInv

-----------------------------------------------------------------------------
(* Routing: the decisions.                                                 *)

\* What a decision has to show: the state to, the mode as and the reasons r.
Justified(to, as, r) ==
    /\ to \in Decided /\ as \in {"auto", "task", "conversation"}
    /\ born = "auto" /\ as = "conversation" => turn.normal /\ catalog.business = 0 /\ ~traced
    /\ \A i \in DOMAIN r : r[i] = "no_new_evidence" => rounds.stale >= MaxStaleRounds
    /\ to = "FINALIZING" =>
         /\ Route!Evidenced > 0 /\ as # "auto"
         /\ turn.limit \/ turn.guard => r \in {<<"budget_reached">>, <<"runtime_guard_reached">>}
         /\ ~turn.normal => \A i \in DOMAIN r : r[i] # "goal_satisfied"

LEMMA DecisionStep ==
    ASSUME RouteInv, Route!Decides, NEW to, NEW as, NEW r, Route!Goes(to, as, r),
           Justified(to, Route!Resolved(as), r)
    PROVE  RouteInv'
    <1>1. /\ state' = to /\ became' = Route!Resolved(as) /\ why' = r
          /\ UNCHANGED <<born, traced, catalog, rounds, turn, gains>>
        BY DEF Route!Goes, Route!Drives
    <1>2. RouteTypes'
        BY <1>1 DEF RouteInv, RouteTypes, Justified
    <1>3. Counts'
        BY <1>1 DEF RouteInv, Counts, Route!Evidenced
    <1>4. Decision'
        BY <1>1 DEF Decision, Justified, Route!Decides, Route!Ended, Undecided, Decided
    <1>5. Route!FinalizedIsHonest'
        BY <1>1 DEF Route!FinalizedIsHonest, Justified, Route!Evidenced
    <1> QED
        BY <1>2, <1>3, <1>4, <1>5 DEF RouteInv

\* A single reason that claims neither progress nor its absence.
LEMMA Single ==
    ASSUME NEW x \in {"native_answer", "openclaw_completed", "budget_reached",
                      "runtime_guard_reached", "investigation_turn_incomplete",
                      "investigation_completed_without_business_evidence",
                      "investigation_completed_without_evidence"}
    PROVE  \A i \in DOMAIN <<x>> : <<x>>[i] # "no_new_evidence" /\ <<x>>[i] # "goal_satisfied"
    <1>1. x # "no_new_evidence" /\ x # "goal_satisfied"
        OBVIOUS
    <1> QED
        BY <1>1

LEMMA NativeStep ==
    ASSUME RouteInv, Route!Native
    PROVE  RouteInv'
    <1> DEFINE touched == Route!HasBusinessEvidence \/ Route!AttemptedBusinessWork \/ ~turn.normal
               errors  == ~turn.normal \/ turn.limit \/ turn.guard
               to == IF errors THEN "FAILED" ELSE "COMPLETED"
               as == IF touched THEN "task" ELSE "conversation"
               r  == IF errors THEN <<"native_answer">> ELSE <<"openclaw_completed">>
    <1>1. Route!Decides /\ Route!Goes(to, as, r)
        BY DEF Route!Native
    <1>2. \A i \in DOMAIN r : r[i] # "no_new_evidence"
        BY Single
    <1>3. to \in Decided /\ to # "FINALIZING"
        BY DEF Decided
    <1>4. as \in {"task", "conversation"} /\ Route!Resolved(as) \in {"auto", "task", "conversation"}
        BY DEF Route!Resolved, RouteInv, RouteTypes
    <1>5. born = "auto" /\ Route!Resolved(as) = "conversation" => ~touched
        BY <1>1 DEF Route!Resolved, RouteInv, Decision, Route!Decides, Undecided
    <1>6. ~touched => turn.normal /\ catalog.business = 0 /\ ~traced
        BY DEF Route!HasBusinessEvidence, Route!AttemptedBusinessWork, RouteInv, RouteTypes
    <1> HIDE DEF to, as, r, touched
    <1>7. Justified(to, Route!Resolved(as), r)
        BY <1>2, <1>3, <1>4, <1>5, <1>6 DEF Justified
    <1> QED
        BY <1>1, <1>7, DecisionStep

LEMMA BoundedStep ==
    ASSUME RouteInv, Route!Bounded
    PROVE  RouteInv'
    <1> DEFINE bound == IF turn.limit THEN "budget_reached" ELSE "runtime_guard_reached"
    <1>1. Route!Decides
        BY DEF Route!Bounded
    <1>2. /\ Route!Resolved("task") \in {"task", "conversation"}
          /\ born = "auto" => Route!Resolved("task") = "task"
        BY <1>1 DEF Route!Resolved, RouteInv, RouteTypes, Decision, Route!Decides, Undecided
    <1>3. CASE Route!Evidenced > 0
        <2>1. Route!Goes("FINALIZING", "task", <<bound>>)
            BY <1>3 DEF Route!Bounded
        <2>2. \A i \in DOMAIN <<bound>> : <<bound>>[i] # "no_new_evidence" /\ <<bound>>[i] # "goal_satisfied"
            BY Single
        <2>3. <<bound>> \in {<<"budget_reached">>, <<"runtime_guard_reached">>}
            OBVIOUS
        <2> HIDE DEF bound
        <2>4. Justified("FINALIZING", Route!Resolved("task"), <<bound>>)
            BY <1>2, <1>3, <2>2, <2>3 DEF Justified, Decided
        <2> QED
            BY <1>1, <2>1, <2>4, DecisionStep
    <1>4. CASE ~(Route!Evidenced > 0)
        <2>1. Route!Goes("FAILED", "task", <<bound, "without_evidence">>)
            BY <1>4 DEF Route!Bounded
        <2>2. \A i \in DOMAIN <<bound, "without_evidence">> : <<bound, "without_evidence">>[i] # "no_new_evidence"
            OBVIOUS
        <2> HIDE DEF bound
        <2>3. Justified("FAILED", Route!Resolved("task"), <<bound, "without_evidence">>)
            BY <1>2, <2>2 DEF Justified, Decided
        <2> QED
            BY <1>1, <2>1, <2>3, DecisionStep
    <1> QED
        BY <1>3, <1>4

\* What the policy gives for reasons.
LEMMA Reasons ==
    ASSUME NEW goal \in BOOLEAN, NEW i \in DOMAIN Route!Convergence(goal)
    PROVE  /\ Route!Convergence(goal)[i] = "no_new_evidence" => rounds.stale >= MaxStaleRounds
           /\ Route!Convergence(goal)[i] = "goal_satisfied" => goal
    <1>1. CASE goal /\ rounds.stale >= MaxStaleRounds
        BY <1>1
    <1>2. CASE goal /\ ~(rounds.stale >= MaxStaleRounds)
        <2>1. Route!Convergence(goal) = <<"goal_satisfied">>
            <3>1. <<"goal_satisfied">> \o <<>> = <<"goal_satisfied">>
                OBVIOUS
            <3> QED
                BY <1>2, <3>1 DEF Route!Convergence
        <2> QED
            BY <2>1, <1>2
    <1>3. CASE ~goal /\ rounds.stale >= MaxStaleRounds
        <2>1. Route!Convergence(goal) = <<"no_new_evidence">>
            BY <1>3 DEF Route!Convergence
        <2> QED
            BY <2>1, <1>3
    <1>4. CASE ~goal /\ ~(rounds.stale >= MaxStaleRounds)
        <2>1. Route!Convergence(goal) = <<>>
            BY <1>4 DEF Route!Convergence
        <2> QED
            BY <2>1
    <1> QED
        BY <1>1, <1>2, <1>3, <1>4

LEMMA FinalizesStep ==
    ASSUME RouteInv, Route!Unbounded, Route!Evidenced > 0, Route!Finalizes
    PROVE  RouteInv'
    <1> DEFINE r == Route!Convergence(turn.normal)
    <1>1. Route!Decides /\ ~turn.limit /\ ~turn.guard
        BY DEF Route!Unbounded
    <1>2. /\ Route!Resolved("task") \in {"task", "conversation"}
          /\ born = "auto" => Route!Resolved("task") = "task"
        BY <1>1 DEF Route!Resolved, RouteInv, RouteTypes, Decision, Route!Decides, Undecided
    <1>3. turn.normal \in BOOLEAN
        <2>1. turn # Route!Runs
            BY <1>1 DEF Route!Decides, Route!Ended, Route!Runs
        <2>2. turn \in Route!Ends
            BY <2>1 DEF RouteInv, RouteTypes
        <2> QED
            BY <2>2, RouteEnds
    <1>4. \A i \in DOMAIN r : /\ r[i] = "no_new_evidence" => rounds.stale >= MaxStaleRounds
                              /\ r[i] = "goal_satisfied" => turn.normal
        BY <1>3, Reasons
    <1>5. CASE r # <<>>
        <2>1. Route!Goes("FINALIZING", "task", r)
            BY <1>5 DEF Route!Finalizes
        <2> HIDE DEF r
        <2>2. Justified("FINALIZING", Route!Resolved("task"), r)
            BY <1>1, <1>2, <1>4 DEF Justified, Decided
        <2> QED
            BY <1>1, <2>1, <2>2, DecisionStep
    <1>6. CASE r = <<>>
        <2>1. Route!Goes("FAILED", "task", <<"investigation_turn_incomplete">>)
            BY <1>6 DEF Route!Finalizes
        <2>2. Justified("FAILED", Route!Resolved("task"), <<"investigation_turn_incomplete">>)
            BY <1>2, Single DEF Justified, Decided
        <2> QED
            BY <1>1, <2>1, <2>2, DecisionStep
    <1> QED
        BY <1>5, <1>6

\* A failure keeps the mode.
LEMMA FailsStep ==
    ASSUME RouteInv, Route!Decides, NEW x, Route!Goes("FAILED", became, <<x>>),
           x \in {"investigation_turn_incomplete", "investigation_completed_without_evidence"}
    PROVE  RouteInv'
    <1>1. Route!Resolved(became) = born /\ born \in {"auto", "task", "conversation"}
        BY DEF Route!Resolved, RouteInv, RouteTypes, Decision, Route!Decides, Undecided
    <1>2. Justified("FAILED", Route!Resolved(became), <<x>>)
        BY <1>1, Single DEF Justified, Decided
    <1> QED
        BY <1>2, DecisionStep

LEMMA ConversesStep ==
    ASSUME RouteInv, Route!Decides, Route!Converses,
           born = "auto" => turn.normal /\ ~Route!HasBusinessEvidence /\ ~Route!AttemptedBusinessWork
    PROVE  RouteInv'
    <1>1. Route!Resolved("conversation") \in {"auto", "task", "conversation"}
        BY DEF Route!Resolved, RouteInv, RouteTypes
    <1>2. born = "auto" => turn.normal /\ catalog.business = 0 /\ ~traced
        BY DEF Route!HasBusinessEvidence, Route!AttemptedBusinessWork, RouteInv, RouteTypes
    <1>3. Justified("COMPLETED", Route!Resolved("conversation"), <<>>)
        BY <1>1, <1>2 DEF Justified, Decided
    <1> QED
        BY <1>3, DecisionStep DEF Route!Converses

LEMMA DecideAutoStep ==
    ASSUME RouteInv, Route!DecideAuto
    PROVE  RouteInv'
    <1>1. Route!Unbounded /\ Route!Decides /\ became = "auto" /\ born = "auto"
        BY DEF Route!DecideAuto, Route!Unbounded, RouteInv, Decision, Route!Decides, Undecided
    <1>2. CASE Route!HasBusinessEvidence /\ Route!Finalizes
        <2>1. Route!Evidenced > 0
            BY <1>2 DEF Route!HasBusinessEvidence, Route!Evidenced, RouteInv, RouteTypes
        <2> QED
            BY <1>1, <1>2, <2>1, FinalizesStep
    <1>3. CASE Route!Goes("FAILED", "task", <<"investigation_completed_without_business_evidence">>)
        <2>1. Justified("FAILED", Route!Resolved("task"),
                        <<"investigation_completed_without_business_evidence">>)
            BY <1>1, Single DEF Justified, Decided, Route!Resolved
        <2> QED
            BY <1>1, <1>3, <2>1, DecisionStep
    <1>4. CASE /\ ~Route!HasBusinessEvidence /\ ~Route!AttemptedBusinessWork
               /\ IF turn.normal THEN Route!Converses
                                 ELSE Route!Fails("investigation_turn_incomplete")
        BY <1>1, <1>4, ConversesStep, FailsStep DEF Route!Fails
    <1> QED
        BY <1>2, <1>3, <1>4 DEF Route!DecideAuto

LEMMA DecideOthersStep ==
    ASSUME RouteInv, Route!DecideConversation \/ Route!DecideTask
    PROVE  RouteInv'
    <1>1. Route!Unbounded /\ Route!Decides /\ became = born
        BY DEF Route!DecideConversation, Route!DecideTask, Route!Unbounded, RouteInv, Decision,
               Route!Decides, Undecided
    <1>2. CASE Route!DecideConversation
        BY <1>1, <1>2, ConversesStep DEF Route!DecideConversation
    <1>3. CASE Route!DecideTask /\ Route!Evidenced = 0
        BY <1>1, <1>3, FailsStep DEF Route!DecideTask, Route!Fails
    <1>4. CASE Route!DecideTask /\ Route!Evidenced # 0
        <2>1. Route!Evidenced > 0
            BY <1>4 DEF Route!Evidenced, RouteInv, RouteTypes
        <2> QED
            BY <1>1, <1>4, <2>1, FinalizesStep DEF Route!DecideTask
    <1> QED
        BY <1>2, <1>3, <1>4

LEMMA RouteStep ==
    ASSUME RouteInv, Route!Next
    PROVE  RouteInv'
    <1>1. CASE \E end \in Route!Ends, business, other \in 0 .. 1 : Route!TurnEnds(end, business, other)
        BY <1>1, TurnEndsStep
    <1> QED
        BY <1>1, TurnGoesOn, UserSteps, NativeStep, BoundedStep, DecideAutoStep, DecideOthersStep
           DEF Route!Next

LEMMA RoutesAreSound ==
    ASSUME RouteInv, Route!RoutingAssumption
    PROVE  Route!RoutesSound
    <1>1. Route!ConversationTouchedNothing
        BY DEF RouteInv, RouteTypes, Decision, Route!ConversationTouchedNothing
    <1>2. Route!RanDryIsTrue
        <2> SUFFICES ASSUME NEW i \in DOMAIN why, why[i] = "no_new_evidence"
                     PROVE  /\ Len(gains) >= MaxStaleRounds
                            /\ \A k \in (Len(gains) - MaxStaleRounds + 1) .. Len(gains) : gains[k] = 0
            BY DEF Route!RanDryIsTrue
        <2>1. rounds.stale >= MaxStaleRounds /\ rounds.stale \in Nat /\ MaxStaleRounds \in Nat
              /\ Len(gains) \in Nat /\ rounds.stale <= Len(gains)
            BY DEF RouteInv, RouteTypes, Decision, Counts, Route!RoutingAssumption
        <2> QED
            BY <2>1 DEF RouteInv, Counts
    <1> QED
        BY <1>1, <1>2 DEF RouteInv, Route!RoutesSound

-----------------------------------------------------------------------------
(* Induction over an index, with the set of good indices for a predicate.  *)

\* A set of naturals has a least element.
LEMMA Least == ASSUME NEW T, T \subseteq Nat, T # {}
               PROVE  \E x \in T : \A y \in T : x <= y
  <1> DEFINE R == {ss \in Nat \X Nat : ss[1] < ss[2]}
  <1>1. IsWellFoundedOn(R, Nat)
    BY NatLessThanWellFounded DEF OpToRel
  <1>2. \A a, b \in Nat : a < b => <<a, b>> \in R
    OBVIOUS
  <1> HIDE DEF R
  <1>3. PICK x \in T : \A y \in T : ~(<<y, x>> \in R)
    BY <1>1, WFMin
  <1>4. \A y \in T : x <= y
    <2> SUFFICES ASSUME NEW y \in T, ~(x <= y)
                 PROVE  FALSE
      OBVIOUS
    <2>1. x \in Nat /\ y \in Nat /\ y < x
      OBVIOUS
    <2> QED
      BY <2>1, <1>2, <1>3
  <1> QED
    BY <1>4

\* A set closed under the next index has them all.
LEMMA Induct ==
    ASSUME NEW N \in Nat, NEW S, 0 \in S, \A n \in 0 .. N : n \in S /\ n < N => n + 1 \in S
    PROVE  \A n \in 0 .. N : n \in S
  <1> DEFINE T == {n \in 0 .. N : n \notin S}
  <1> SUFFICES ASSUME T # {}
               PROVE  FALSE
    OBVIOUS
  <1>1. T \subseteq Nat
    OBVIOUS
  <1>2. \A n \in T : n \in 0 .. N /\ n \notin S
    OBVIOUS
  <1>3. \A n \in 0 .. N : n \notin S => n \in T
    OBVIOUS
  <1> HIDE DEF T
  <1>4. PICK x \in T : \A y \in T : x <= y
    BY <1>1, Least
  <1>5. x \in 0 .. N /\ x # 0 /\ x \notin S
    BY <1>2
  <1>6. PICK z : z = x - 1
    OBVIOUS
  <1>7. z \in 0 .. N /\ z < N /\ z + 1 = x /\ ~(x <= z)
    BY <1>5, <1>6
  <1>8. z \in S
    BY <1>3, <1>4, <1>7
  <1> QED
    BY <1>5, <1>7, <1>8

\* f is G iterated N times from a, on the values V.
Iterates(f, V, a, N, G) == /\ f \in [0 .. N -> V] /\ f[0] = a
                           /\ \A k \in 1 .. N : f[k] = G[<<k, f[k - 1]>>]

\* There is such a function for every G.
LEMMA Iterated ==
    ASSUME NEW V, NEW a \in V, NEW N \in Nat, NEW G \in [(1 .. N) \X V -> V]
    PROVE  \E f : Iterates(f, V, a, N, G)
  <1> DEFINE Good(n, f) == f[0] = a /\ \A k \in 1 .. n : f[k] = G[<<k, f[k - 1]>>]
  <1> DEFINE S == {n \in 0 .. N : \E f \in [0 .. n -> V] : Good(n, f)}
  <1>1. 0 \in S
    <2>1. PICK z : z = [k \in 0 .. 0 |-> a]
      OBVIOUS
    <2>2. z \in [0 .. 0 -> V] /\ z[0] = a /\ \A k \in 1 .. 0 : FALSE
      BY <2>1
    <2>3. Good(0, z)
      BY <2>2
    <2>4. 0 \in 0 .. N
      OBVIOUS
    <2> HIDE DEF Good
    <2> QED
      BY <2>2, <2>3, <2>4
  <1>2. ASSUME NEW n \in 0 .. N, n \in S, n < N
        PROVE  n + 1 \in S
    <2>1. PICK f \in [0 .. n -> V] : Good(n, f)
      BY <1>2
    <2>2. PICK m : m = n + 1
      OBVIOUS
    <2>3. m \in 1 .. N /\ m \in 0 .. N /\ n \in 0 .. n
      BY <1>2, <2>2
    <2> DEFINE g == [k \in 0 .. m |-> IF k = m THEN G[<<m, f[n]>>] ELSE f[k]]
    <2>4. G[<<m, f[n]>>] \in V
      BY <2>3
    <2>5. g \in [0 .. m -> V]
      BY <2>2, <2>4
    <2>6. \A k \in 0 .. n : g[k] = f[k]
      BY <2>2
    <2>7. g[m] = G[<<m, f[n]>>]
      BY <2>3
    <2> HIDE DEF g
    <2>8. Good(m, g)
      <3>1. g[0] = a
        BY <2>1, <2>6, <1>2
      <3>2. ASSUME NEW k \in 1 .. m
            PROVE  g[k] = G[<<k, g[k - 1]>>]
        <4>1. CASE k = m
          <5>1. k - 1 = n
            BY <4>1, <2>2
          <5> QED
            BY <4>1, <5>1, <2>3, <2>6, <2>7
        <4>2. CASE k # m
          <5>1. k \in 1 .. n /\ k \in 0 .. n /\ k - 1 \in 0 .. n
            BY <4>2, <2>2
          <5> QED
            BY <5>1, <2>1, <2>6
        <4> QED
          BY <4>1, <4>2
      <3> QED
        BY <3>1, <3>2
    <2> QED
      BY <2>2, <2>3, <2>5, <2>8
  <1> HIDE DEF S
  <1>3. N \in S
    BY <1>1, <1>2, Induct
  <1> QED
    BY <1>3 DEF S, Iterates

-----------------------------------------------------------------------------
(* Claims: sequences, elements picked from them, sequences of sequences.    *)

\* One more element.
LEMMA AppendIs ==
    ASSUME NEW V, NEW q \in Seq(V), NEW x \in V
    PROVE  /\ Append(q, x) \in Seq(V) /\ Append(q, x) # <<>>
           /\ Final!ToSet(Append(q, x)) = Final!ToSet(q) \cup {x}
           /\ Final!Distinct(q) /\ x \notin Final!ToSet(q) => Final!Distinct(Append(q, x))
    <1>1. /\ Len(q) \in Nat /\ DOMAIN q = 1 .. Len(q)
          /\ Append(q, x) \in Seq(V) /\ Append(q, x) # <<>>
          /\ DOMAIN Append(q, x) = 1 .. Len(q) + 1
          /\ \A i \in 1 .. Len(q) : Append(q, x)[i] = q[i]
          /\ Append(q, x)[Len(q) + 1] = x
        OBVIOUS
    <1>2. \A i \in 1 .. Len(q) + 1 : i \in 1 .. Len(q) \/ i = Len(q) + 1
        BY <1>1
    <1>3. 1 .. Len(q) \subseteq 1 .. Len(q) + 1 /\ Len(q) + 1 \in 1 .. Len(q) + 1
        BY <1>1
    <1>4. Final!ToSet(Append(q, x)) = Final!ToSet(q) \cup {x}
        BY <1>1, <1>2, <1>3 DEF Final!ToSet
    <1>5. ASSUME Final!Distinct(q), x \notin Final!ToSet(q)
          PROVE  Final!Distinct(Append(q, x))
        BY <1>1, <1>2, <1>5 DEF Final!ToSet, Final!Distinct
    <1> QED
        BY <1>1, <1>4, <1>5

LEMMA ConcatIs ==
    ASSUME NEW V, NEW p \in Seq(V), NEW q \in Seq(V)
    PROVE  /\ p \o q \in Seq(V)
           /\ Final!ToSet(p \o q) = Final!ToSet(p) \cup Final!ToSet(q)
    <1>1. /\ p \o q \in Seq(V) /\ Len(p) \in Nat /\ Len(q) \in Nat
          /\ DOMAIN p = 1 .. Len(p) /\ DOMAIN q = 1 .. Len(q)
          /\ DOMAIN (p \o q) = 1 .. Len(p) + Len(q)
          /\ \A i \in 1 .. Len(p) : (p \o q)[i] = p[i]
        OBVIOUS
    <1>2. \A i \in 1 .. Len(q) : (p \o q)[Len(p) + i] = q[i] /\ Len(p) + i \in DOMAIN (p \o q)
        BY <1>1
    <1>3. \A i \in DOMAIN (p \o q) : i \in 1 .. Len(p) \/ \E j \in 1 .. Len(q) : i = Len(p) + j
        <2> TAKE i \in DOMAIN (p \o q)
        <2>1. i \notin 1 .. Len(p) => i - Len(p) \in 1 .. Len(q) /\ i = Len(p) + (i - Len(p))
            BY <1>1
        <2> QED
            BY <2>1
    <1>4. \A i \in 1 .. Len(p) : i \in DOMAIN (p \o q)
        BY <1>1
    <1>5. Final!ToSet(p \o q) \subseteq Final!ToSet(p) \cup Final!ToSet(q)
        BY <1>1, <1>2, <1>3 DEF Final!ToSet
    <1>6. Final!ToSet(p) \subseteq Final!ToSet(p \o q)
        BY <1>1, <1>4 DEF Final!ToSet
    <1>7. Final!ToSet(q) \subseteq Final!ToSet(p \o q)
        BY <1>1, <1>2 DEF Final!ToSet
    <1> QED
        BY <1>1, <1>5, <1>6, <1>7

LEMMA PickingIs ==
    ASSUME NEW V, NEW s \in Seq(V), NEW K
    PROVE  \E m : /\ m = Final!Picking(s, K)
                  /\ m = [n \in 0 .. Len(s) |->
                            IF n = 0 THEN <<>>
                            ELSE IF n \in K THEN Append(m[n - 1], s[n]) ELSE m[n - 1]]
    <1> DEFINE W == Seq(V)
               Next1(q, n) == IF n \in K THEN Append(q, s[n]) ELSE q
               G == [x \in (1 .. Len(s)) \X W |-> Next1(x[2], x[1])]
               Step(g) == [n \in 0 .. Len(s) |->
                            IF n = 0 THEN <<>>
                            ELSE IF n \in K THEN Append(g[n - 1], s[n]) ELSE g[n - 1]]
    <1>1. <<>> \in W /\ Len(s) \in Nat
        OBVIOUS
    <1>2. \A n \in 1 .. Len(s) : \A q \in W : Next1(q, n) \in W
        OBVIOUS
    <1>3. G \in [(1 .. Len(s)) \X W -> W]
        BY <1>2
    <1>4. \A n \in 1 .. Len(s) : \A q \in W :
             G[<<n, q>>] = IF n \in K THEN Append(q, s[n]) ELSE q
        OBVIOUS
    <1> HIDE DEF G, W
    <1>5. PICK f \in [0 .. Len(s) -> W] :
             f[0] = <<>> /\ \A k \in 1 .. Len(s) : f[k - 1] \in W /\ f[k] = G[<<k, f[k - 1]>>]
        <2>1. \E f : Iterates(f, W, <<>>, Len(s), G)
            BY <1>1, <1>3, Iterated
        <2>2. \A k \in 1 .. Len(s) : k - 1 \in 0 .. Len(s)
            OBVIOUS
        <2> QED
            BY <2>1, <2>2 DEF Iterates
    <1>6. f = Step(f)
        <2>1. \A n \in 1 .. Len(s) : f[n] = IF n \in K THEN Append(f[n - 1], s[n]) ELSE f[n - 1]
            BY <1>4, <1>5
        <2>2. \A n \in 0 .. Len(s) : n # 0 => n \in 1 .. Len(s)
            OBVIOUS
        <2> QED
            BY <2>1, <2>2, <1>5
    <1>7. Final!Picking(s, K) = Step(Final!Picking(s, K))
        BY <1>6, Zenon DEF Final!Picking
    <1> QED
        BY <1>7

\* The elements at the positions in K: those and no others, in a sequence.
LEMMA PickedIs ==
    ASSUME NEW V, NEW s \in Seq(V), NEW K
    PROVE  /\ Final!Picked(s, K) \in Seq(V)
           /\ Final!ToSet(Final!Picked(s, K)) = {s[i] : i \in K \cap DOMAIN s}
           /\ (\A i, j \in K \cap DOMAIN s : i # j => s[i] # s[j]) => Final!Distinct(Final!Picked(s, K))
    <1>1. PICK m : /\ m = Final!Picking(s, K)
                   /\ m = [n \in 0 .. Len(s) |->
                            IF n = 0 THEN <<>>
                            ELSE IF n \in K THEN Append(m[n - 1], s[n]) ELSE m[n - 1]]
        BY PickingIs
    <1>2. Len(s) \in Nat /\ DOMAIN s = 1 .. Len(s) /\ Len(s) \in 0 .. Len(s)
        OBVIOUS
    <1> DEFINE Apart == \A i, j \in K \cap DOMAIN s : i # j => s[i] # s[j]
               S == {n \in 0 .. Len(s) : /\ m[n] \in Seq(V)
                                         /\ Final!ToSet(m[n]) = {s[i] : i \in K \cap (1 .. n)}
                                         /\ Apart => Final!Distinct(m[n])}
    <1>3. 0 \in S
        <2>1. m[0] = <<>>
            BY <1>1, <1>2
        <2>2. Final!ToSet(<<>>) = {} /\ Final!Distinct(<<>>) /\ <<>> \in Seq(V)
            BY DEF Final!ToSet, Final!Distinct
        <2>3. {s[i] : i \in K \cap (1 .. 0)} = {}
            OBVIOUS
        <2>4. /\ 0 \in 0 .. Len(s) /\ m[0] \in Seq(V) /\ Final!Distinct(m[0])
              /\ Final!ToSet(m[0]) = {s[i] : i \in K \cap (1 .. 0)}
            BY <2>1, <2>2, <2>3, <1>2
        <2> HIDE DEF Apart
        <2> QED
            BY <2>4
    <1>4. ASSUME NEW n \in 0 .. Len(s), n \in S, n < Len(s)
          PROVE  n + 1 \in S
        <2>1. /\ n + 1 \in 0 .. Len(s) /\ n + 1 # 0 /\ (n + 1) - 1 = n /\ n + 1 \in 1 .. Len(s)
              /\ s[n + 1] \in V
            BY <1>2, <1>4
        <2>2. m[n + 1] = IF n + 1 \in K THEN Append(m[n], s[n + 1]) ELSE m[n]
            BY <1>1, <2>1
        <2>3. m[n] \in Seq(V) /\ Final!ToSet(m[n]) = {s[i] : i \in K \cap (1 .. n)}
              /\ (Apart => Final!Distinct(m[n]))
            BY <1>4
        <2>4. \A i : i \in 1 .. n + 1 <=> i \in 1 .. n \/ i = n + 1
            BY <1>2, <1>4
        <2>5. ~(n + 1 \in 1 .. n)
            BY <1>4
        <2>6. CASE n + 1 \in K
            <3>1. /\ m[n + 1] \in Seq(V)
                  /\ Final!ToSet(m[n + 1]) = Final!ToSet(m[n]) \cup {s[n + 1]}
                  /\ Final!Distinct(m[n]) /\ s[n + 1] \notin Final!ToSet(m[n]) => Final!Distinct(m[n + 1])
                BY <2>1, <2>2, <2>3, <2>6, AppendIs
            <3>2. Final!ToSet(m[n + 1]) = {s[i] : i \in K \cap (1 .. n + 1)}
                BY <3>1, <2>3, <2>4, <2>6
            <3>3. ASSUME Apart PROVE s[n + 1] \notin Final!ToSet(m[n])
                <4> SUFFICES ASSUME NEW i \in K \cap (1 .. n), s[i] = s[n + 1] PROVE FALSE
                    BY <2>3
                <4>1. i \in K \cap DOMAIN s /\ n + 1 \in K \cap DOMAIN s /\ i # n + 1
                    BY <1>2, <2>1, <2>4, <2>5, <2>6, <1>4
                <4> QED
                    BY <4>1, <3>3
            <3> HIDE DEF Apart
            <3> QED
                BY <2>1, <2>3, <3>1, <3>2, <3>3
        <2>7. CASE n + 1 \notin K
            <3>1. {s[i] : i \in K \cap (1 .. n + 1)} = {s[i] : i \in K \cap (1 .. n)}
                BY <2>4, <2>7
            <3> HIDE DEF Apart
            <3> QED
                BY <2>1, <2>2, <2>3, <2>7, <3>1
        <2> QED
            BY <2>6, <2>7
    <1> HIDE DEF S
    <1>5. Len(s) \in S
        BY <1>2, <1>3, <1>4, Induct
    <1> QED
        BY <1>1, <1>2, <1>5 DEF S, Final!Picked

\* Distinct elements by first occurrence.
LEMMA FirstOfIs ==
    ASSUME NEW V, NEW s \in Seq(V)
    PROVE  /\ Final!FirstOf(s) \in Seq(V) /\ Final!ToSet(Final!FirstOf(s)) = Final!ToSet(s)
           /\ Final!Distinct(Final!FirstOf(s))
    <1> DEFINE K == {i \in DOMAIN s : \A j \in 1 .. i - 1 : s[j] # s[i]}
    <1>1. DOMAIN s = 1 .. Len(s) /\ Len(s) \in Nat
        OBVIOUS
    <1>2. \A i, j \in K \cap DOMAIN s : i # j => s[i] # s[j]
        <2> SUFFICES ASSUME NEW i \in K, NEW j \in K, i < j PROVE s[i] # s[j]
            BY <1>1
        <2>1. i \in 1 .. j - 1
            BY <1>1
        <2> QED
            BY <2>1
    <1>3. \A i \in DOMAIN s : \E k \in K : s[k] = s[i]
        <2> TAKE i \in DOMAIN s
        <2> DEFINE T == {j \in DOMAIN s : s[j] = s[i]}
        <2>1. T \subseteq Nat /\ T # {}
            BY <1>1
        <2>2. PICK k \in T : \A y \in T : k <= y
            BY <2>1, Least
        <2>3. k \in DOMAIN s /\ s[k] = s[i]
            BY <2>2
        <2>4. \A j \in 1 .. k - 1 : s[j] # s[k]
            <3> TAKE j \in 1 .. k - 1
            <3>1. j \in DOMAIN s /\ ~(k <= j)
                BY <1>1, <2>3
            <3> QED
                BY <3>1, <2>2, <2>3
        <2> QED
            BY <2>3, <2>4
    <1>4. {s[i] : i \in K \cap DOMAIN s} = Final!ToSet(s)
        BY <1>3 DEF Final!ToSet
    <1>5. Final!FirstOf(s) = Final!Picked(s, K)
        BY DEF Final!FirstOf
    <1> HIDE DEF K
    <1> QED
        BY <1>2, <1>4, <1>5, PickedIs

\* Sequences one after the other.
LEMMA FlattenIs ==
    ASSUME NEW V, NEW ss \in Seq(Seq(V))
    PROVE  /\ Final!FlattenSeq(ss) \in Seq(V)
           /\ Final!ToSet(Final!FlattenSeq(ss)) = UNION {Final!ToSet(ss[i]) : i \in DOMAIN ss}
    <1> DEFINE W == Seq(V)
               G == [x \in (1 .. Len(ss)) \X W |-> x[2] \o ss[x[1]]]
               Step(g) == [i \in 1 .. Len(ss) |-> IF i = 1 THEN ss[i] ELSE g[i - 1] \o ss[i]]
    <1>1. <<>> \in Seq(V) /\ Len(ss) \in Nat /\ DOMAIN ss = 1 .. Len(ss)
          /\ \A i \in 1 .. Len(ss) : ss[i] \in Seq(V)
        OBVIOUS
    <1>2. CASE Len(ss) = 0
        <2>1. Final!FlattenSeq(ss) = <<>> /\ DOMAIN ss = {}
            BY <1>1, <1>2 DEF Final!FlattenSeq
        <2>2. Final!ToSet(<<>>) = {}
            BY DEF Final!ToSet
        <2> QED
            BY <1>1, <2>1, <2>2
    <1>3. CASE Len(ss) # 0
        <2>1. \A n \in 1 .. Len(ss) : \A q \in W : q \o ss[n] \in W
            BY <1>1
        <2>2. <<>> \in W /\ G \in [(1 .. Len(ss)) \X W -> W]
            BY <2>1
        <2>3. \A n \in 1 .. Len(ss) : \A q \in W : G[<<n, q>>] = q \o ss[n]
            OBVIOUS
        <2> HIDE DEF G, W
        <2>4. PICK f \in [0 .. Len(ss) -> W] :
                 f[0] = <<>> /\ \A k \in 1 .. Len(ss) : f[k - 1] \in W /\ f[k] = G[<<k, f[k - 1]>>]
            <3>1. \E f : Iterates(f, W, <<>>, Len(ss), G)
                BY <1>1, <2>2, Iterated
            <3>2. \A k \in 1 .. Len(ss) : k - 1 \in 0 .. Len(ss)
                OBVIOUS
            <3> QED
                BY <3>1, <3>2 DEF Iterates
        <2>5. PICK h : h = [i \in 1 .. Len(ss) |-> f[i]]
            OBVIOUS
        <2>6. h = Step(h)
            <3>1. ASSUME NEW i \in 1 .. Len(ss)
                  PROVE  h[i] = IF i = 1 THEN ss[i] ELSE h[i - 1] \o ss[i]
                <4>1. h[i] = f[i - 1] \o ss[i]
                    BY <2>3, <2>4, <2>5
                <4>2. CASE i = 1
                    <5>1. f[i - 1] = <<>>
                        BY <4>2, <2>4
                    <5>2. <<>> \o ss[i] = ss[i]
                        BY <1>1
                    <5> QED
                        BY <4>1, <4>2, <5>1, <5>2
                <4>3. CASE i # 1
                    <5>1. i - 1 \in 1 .. Len(ss)
                        BY <4>3, <1>1
                    <5> QED
                        BY <4>1, <4>3, <5>1, <2>5
                <4> QED
                    BY <4>2, <4>3
            <3> QED
                BY <3>1, <2>5
        <2>7. \E g : g = Step(g) /\ Final!FlattenSeq(ss) = g[Len(ss)]
            BY <1>3, <2>6, Zenon DEF Final!FlattenSeq
        <2>8. PICK g : g = Step(g) /\ Final!FlattenSeq(ss) = g[Len(ss)]
            BY <2>7
        <2> DEFINE S == {n \in 0 .. Len(ss) : n # 0 => 
                           /\ g[n] \in Seq(V)
                           /\ Final!ToSet(g[n]) = UNION {Final!ToSet(ss[i]) : i \in 1 .. n}}
        <2>9. 0 \in S
            BY <1>1
        <2>10. ASSUME NEW n \in 0 .. Len(ss), n \in S, n < Len(ss)
               PROVE  n + 1 \in S
            <3>0. n \in Nat /\ n < Len(ss)
                BY <2>10
            <3>1. /\ n + 1 \in 0 .. Len(ss) /\ n + 1 \in 1 .. Len(ss) /\ (n + 1) - 1 = n
                  /\ ss[n + 1] \in Seq(V)
                BY <1>1, <3>0
            <3>2. g[n + 1] = IF n + 1 = 1 THEN ss[n + 1] ELSE g[n] \o ss[n + 1]
                BY <3>1, <2>8
            <3>3. CASE n = 0
                <4>1. 1 .. n + 1 = {1} /\ n + 1 = 1
                    BY <3>3
                <4>2. UNION {Final!ToSet(ss[i]) : i \in 1 .. n + 1} = Final!ToSet(ss[1])
                    BY <4>1
                <4> QED
                    BY <3>1, <3>2, <3>3, <4>1, <4>2
            <3>4. CASE n # 0
                <4>1. g[n] \in Seq(V) /\ Final!ToSet(g[n]) = UNION {Final!ToSet(ss[i]) : i \in 1 .. n}
                    BY <2>10, <3>4
                <4>2. g[n + 1] = g[n] \o ss[n + 1] /\ g[n + 1] \in Seq(V)
                    <5>1. n + 1 # 1
                        BY <3>0, <3>4
                    <5>2. g[n] \o ss[n + 1] \in Seq(V)
                        BY <3>1, <4>1
                    <5> QED
                        BY <3>2, <5>1, <5>2
                <4>3. Final!ToSet(g[n + 1]) = Final!ToSet(g[n]) \cup Final!ToSet(ss[n + 1])
                    BY <3>1, <4>1, <4>2, ConcatIs
                <4>4. \A i : i \in 1 .. n + 1 <=> i \in 1 .. n \/ i = n + 1
                    BY <3>0
                <4>5. UNION {Final!ToSet(ss[i]) : i \in 1 .. n + 1}
                        = UNION {Final!ToSet(ss[i]) : i \in 1 .. n} \cup Final!ToSet(ss[n + 1])
                    BY <4>4
                <4>6. Final!ToSet(g[n + 1]) = UNION {Final!ToSet(ss[i]) : i \in 1 .. n + 1}
                    BY <4>1, <4>3, <4>5
                <4> QED
                    BY <3>1, <4>2, <4>6
            <3> QED
                BY <3>3, <3>4
        <2> HIDE DEF S
        <2>11. Len(ss) \in 0 .. Len(ss)
            BY <1>1
        <2>12. Len(ss) \in S
            BY <1>1, <2>9, <2>10, <2>11, Induct
        <2> QED
            BY <1>1, <1>3, <2>8, <2>12 DEF S
    <1> QED
        BY <1>2, <1>3

-----------------------------------------------------------------------------
(* Claims: what is told of a payload.                                      *)

AnyAnswer == [keys : BOOLEAN, claims : Seq(Final!Claim), summary : Seq(Nat)]

\* The evidence of the facts among some claims.
FactRefs(cs) == UNION {Final!ToSet(c.refs) : c \in {d \in Final!ToSet(cs) : Final!IsFact(d)}}

LEMMA ElementsAre ==
    ASSUME NEW V, NEW s \in Seq(V)
    PROVE  /\ Len(s) \in Nat /\ DOMAIN s = 1 .. Len(s)
           /\ Final!ToSet(s) \subseteq V /\ s \in Seq(Final!ToSet(s))
           /\ \A i \in DOMAIN s : s[i] \in Final!ToSet(s)
           /\ \A x \in Final!ToSet(s) : \E i \in DOMAIN s : x = s[i]
    <1>1. Len(s) \in Nat /\ DOMAIN s = 1 .. Len(s) /\ \A i \in DOMAIN s : s[i] \in V
        OBVIOUS
    <1>2. /\ Final!ToSet(s) \subseteq V
          /\ \A i \in DOMAIN s : s[i] \in Final!ToSet(s)
          /\ \A x \in Final!ToSet(s) : \E i \in DOMAIN s : x = s[i]
        BY <1>1 DEF Final!ToSet
    <1>3. s \in Seq(Final!ToSet(s))
        BY <1>1, <1>2
    <1> QED
        BY <1>1, <1>2, <1>3

LEMMA ClaimFields ==
    ASSUME NEW c \in Final!Claim
    PROVE  /\ c.id \in Nat /\ c.kind \in Final!Words /\ c.refs \in Seq(Nat) /\ c.topic \in Nat
           /\ Final!KindFor(c) \in Final!Words
           /\ [c EXCEPT !.kind = Final!KindFor(c)] \in Final!Claim
    <1>1. /\ c.id \in Nat /\ c.kind \in Final!Words /\ c.refs \in Seq(Nat) /\ c.topic \in Nat
          /\ c.relation \in Final!Words
        BY DEF Final!Claim
    <1>2. Final!KindFor(c) \in Final!Words
        <2>1. Final!KindFor(c) \in {"inference", "unknown", c.kind}
            BY DEF Final!KindFor
        <2> QED
            BY <1>1, <2>1 DEF Final!Words, Final!Kinds
    <1>3. [c EXCEPT !.kind = Final!KindFor(c)] \in Final!Claim
        BY <1>2 DEF Final!Claim
    <1> QED
        BY <1>1, <1>2, <1>3

\* Normalising changes nothing but the kinds.
LEMMA NormalizedIs ==
    ASSUME NEW p \in AnyAnswer
    PROVE  /\ Final!Normalized(p) \in AnyAnswer
           /\ p.claims \in Seq(Final!Claim) /\ p.summary \in Seq(Nat)
           /\ Final!Normalized(p).claims \in Seq(Final!Claim)
           /\ Final!Normalized(p).summary = p.summary /\ Final!Normalized(p).keys = p.keys
           /\ DOMAIN Final!Normalized(p).claims = DOMAIN p.claims
           /\ Len(Final!Normalized(p).claims) = Len(p.claims)
           /\ \A i \in DOMAIN p.claims :
                 /\ p.claims[i] \in Final!Claim
                 /\ Final!Normalized(p).claims[i] = [p.claims[i] EXCEPT !.kind = Final!KindFor(p.claims[i])]
                 /\ Final!Normalized(p).claims[i].kind = Final!KindFor(p.claims[i])
                 /\ Final!Normalized(p).claims[i].id = p.claims[i].id
                 /\ Final!Normalized(p).claims[i].relation = p.claims[i].relation
                 /\ Final!Normalized(p).claims[i].refs = p.claims[i].refs
    <1>1. p.claims \in Seq(Final!Claim) /\ p.summary \in Seq(Nat) /\ p.keys \in BOOLEAN
        BY DEF AnyAnswer
    <1> DEFINE cs == [i \in DOMAIN p.claims |-> [p.claims[i] EXCEPT !.kind = Final!KindFor(p.claims[i])]]
    <1>2. \A i \in DOMAIN p.claims : p.claims[i] \in Final!Claim
        BY <1>1
    <1>3. \A i \in DOMAIN p.claims : cs[i] \in Final!Claim
        BY <1>2, ClaimFields
    <1>4. DOMAIN cs = DOMAIN p.claims /\ DOMAIN p.claims = 1 .. Len(p.claims) /\ Len(p.claims) \in Nat
        BY <1>1
    <1>5. cs \in Seq(Final!Claim) /\ Len(cs) = Len(p.claims)
        <2>1. cs \in [1 .. Len(p.claims) -> Final!Claim]
            BY <1>3, <1>4
        <2> HIDE DEF cs
        <2> QED
            BY <2>1, <1>4
    <1>6. Final!Normalized(p) = [p EXCEPT !.claims = cs]
        BY DEF Final!Normalized
    <1>7. \A i \in DOMAIN p.claims :
             /\ cs[i] = [p.claims[i] EXCEPT !.kind = Final!KindFor(p.claims[i])]
             /\ cs[i].kind = Final!KindFor(p.claims[i])
             /\ cs[i].id = p.claims[i].id
             /\ cs[i].relation = p.claims[i].relation
             /\ cs[i].refs = p.claims[i].refs
        BY <1>2 DEF Final!Claim
    <1> HIDE DEF cs
    <1>8. /\ Final!Normalized(p) \in AnyAnswer /\ Final!Normalized(p).claims = cs
          /\ Final!Normalized(p).summary = p.summary /\ Final!Normalized(p).keys = p.keys
        BY <1>5, <1>6 DEF AnyAnswer
    <1> QED
        BY <1>1, <1>2, <1>4, <1>5, <1>7, <1>8

\* ... and twice nothing more.
LEMMA Idempotent ==
    ASSUME NEW p \in AnyAnswer
    PROVE  Final!Normalized(Final!Normalized(p)) = Final!Normalized(p)
    <1>1. PICK q : q = Final!Normalized(p)
        OBVIOUS
    <1>2. /\ q \in AnyAnswer /\ q.claims \in Seq(Final!Claim) /\ DOMAIN q.claims = DOMAIN p.claims
          /\ \A i \in DOMAIN p.claims :
                /\ p.claims[i] \in Final!Claim
                /\ q.claims[i] = [p.claims[i] EXCEPT !.kind = Final!KindFor(p.claims[i])]
        BY <1>1, NormalizedIs
    <1>3. ASSUME NEW i \in DOMAIN q.claims
          PROVE  [q.claims[i] EXCEPT !.kind = Final!KindFor(q.claims[i])] = q.claims[i]
        <2>1. PICK c : c = p.claims[i]
            OBVIOUS
        <2>2. PICK d : d = q.claims[i]
            OBVIOUS
        <2>3. c \in Final!Claim /\ d = [c EXCEPT !.kind = Final!KindFor(c)]
            BY <1>2, <2>1, <2>2
        <2>4. d.relation = c.relation /\ d.kind = Final!KindFor(c) /\ d \in Final!Claim
            BY <2>3, ClaimFields DEF Final!Claim
        <2>5. Final!KindFor(d) = d.kind
            BY <2>4 DEF Final!KindFor
        <2>6. [d EXCEPT !.kind = d.kind] = d
            BY <2>4 DEF Final!Claim
        <2> QED
            BY <2>2, <2>5, <2>6
    <1> DEFINE cs == [i \in DOMAIN q.claims |-> [q.claims[i] EXCEPT !.kind = Final!KindFor(q.claims[i])]]
    <1>4. cs = q.claims
        <2>1. q.claims = [i \in DOMAIN q.claims |-> q.claims[i]]
            BY <1>2
        <2> QED
            BY <2>1, <1>3
    <1>5. Final!Normalized(q) = [q EXCEPT !.claims = cs]
        BY DEF Final!Normalized
    <1> HIDE DEF cs
    <1>6. [q EXCEPT !.claims = q.claims] = q
        BY <1>2 DEF AnyAnswer
    <1> QED
        BY <1>1, <1>4, <1>5, <1>6

\* What is a fact after normalising was called an observed fact before.
LEMMA FactsWereObserved ==
    ASSUME NEW p \in AnyAnswer, Final!Valid(Final!Normalized(p)),
           NEW c \in Final!ToSet(Final!Normalized(p).claims)
    PROVE  /\ c \in Final!Claim
           /\ Final!IsFact(c) =>
                \E d \in Final!ToSet(p.claims) : /\ d.kind = "fact" /\ d.relation = "observed"
                                                 /\ d.id = c.id /\ d.refs = c.refs
           /\ c.relation = "observed" => c.kind = "fact"
           /\ Final!ToSet(c.refs) \subseteq Final!Refs
    <1>1. PICK i \in DOMAIN Final!Normalized(p).claims : c = Final!Normalized(p).claims[i]
        BY DEF Final!ToSet
    <1>2. /\ i \in DOMAIN p.claims /\ p.claims[i] \in Final!Claim /\ c \in Final!Claim
          /\ c.kind = Final!KindFor(p.claims[i]) /\ c.relation = p.claims[i].relation
          /\ c.id = p.claims[i].id /\ c.refs = p.claims[i].refs
        BY <1>1, NormalizedIs
    <1>3. Final!WellFormed(c) /\ Final!Cited(c) /\ Final!Supported(c)
        BY <1>1 DEF Final!Valid
    <1>4. c.kind = "fact" => c.relation = "observed"
        BY <1>3 DEF Final!Supported
    <1>5. c.kind = "fact" /\ c.relation = "observed" => p.claims[i].kind = "fact"
        BY <1>2 DEF Final!KindFor
    <1>6. c.relation = "observed" => c.kind = "fact"
        BY <1>3 DEF Final!Supported
    <1>7. p.claims[i] \in Final!ToSet(p.claims)
        BY <1>2 DEF Final!ToSet
    <1>8. Final!ToSet(c.refs) \subseteq Final!Refs
        BY <1>3 DEF Final!Cited
    <1> QED
        BY <1>2, <1>4, <1>5, <1>6, <1>7, <1>8 DEF Final!IsFact

-----------------------------------------------------------------------------
(* Claims: the text.                                                       *)

LEMMA ObservedFrom ==
    ASSUME NEW cs \in Seq(Final!Claim)
    PROVE  Final!ObservedRows(cs) \in Seq(Nat) /\ Final!ToSet(Final!ObservedRows(cs)) \subseteq FactRefs(cs)
    <1> DEFINE textual(c) == Final!IsFact(c) /\ ~Final!Visual(c)
               K  == {i \in DOMAIN cs : textual(cs[i])}
               fs == Final!Picked(cs, K)
               rs == [i \in DOMAIN fs |-> fs[i].refs]
               refs == Final!FirstOf(Final!FlattenSeq(rs))
               from == [i \in DOMAIN refs |-> Items[refs[i]].source]
               sources == Final!FirstOf(from)
               block(s) == Final!Picked(refs, {i \in DOMAIN refs : Items[refs[i]].source = s})
               blocks == [i \in DOMAIN sources |-> block(sources[i])]
    <1>1. fs \in Seq(Final!Claim) /\ Final!ToSet(fs) = {cs[i] : i \in K \cap DOMAIN cs}
        BY PickedIs
    <1>2. \A i \in DOMAIN fs : fs[i] \in Final!ToSet(cs) /\ Final!IsFact(fs[i]) /\ fs[i].refs \in Seq(Nat)
        <2> SUFFICES ASSUME NEW i \in DOMAIN fs
                     PROVE  fs[i] \in Final!ToSet(cs) /\ Final!IsFact(fs[i]) /\ fs[i].refs \in Seq(Nat)
            OBVIOUS
        <2>1. fs[i] \in Final!ToSet(fs) /\ fs[i] \in Final!Claim
            BY <1>1, ElementsAre
        <2>2. PICK k \in K : fs[i] = cs[k]
            BY <1>1, <2>1
        <2> QED
            BY <2>1, <2>2, ClaimFields, ElementsAre
    <1>3. rs \in Seq(Seq(Nat)) /\ \A i \in DOMAIN rs : i \in DOMAIN fs /\ rs[i] = fs[i].refs
        <2>1. DOMAIN fs = 1 .. Len(fs) /\ Len(fs) \in Nat
            BY <1>1, ElementsAre
        <2> HIDE DEF fs
        <2> QED
            BY <1>2, <2>1
    <1> HIDE DEF fs, rs
    <1>4. /\ Final!FlattenSeq(rs) \in Seq(Nat)
          /\ Final!ToSet(Final!FlattenSeq(rs)) = UNION {Final!ToSet(rs[i]) : i \in DOMAIN rs}
        BY <1>3, FlattenIs
    <1>5. refs \in Seq(Nat) /\ Final!ToSet(refs) = Final!ToSet(Final!FlattenSeq(rs))
        BY <1>4, FirstOfIs
    <1>6. Final!ToSet(refs) \subseteq FactRefs(cs)
        BY <1>2, <1>3, <1>4, <1>5 DEF FactRefs
    <1> HIDE DEF refs
    <1>7. from \in Seq(Final!ToSet(from))
        <2>1. DOMAIN from = 1 .. Len(refs) /\ Len(refs) \in Nat
            BY <1>5, ElementsAre
        <2>2. \A i \in DOMAIN from : from[i] \in Final!ToSet(from)
            BY DEF Final!ToSet
        <2>3. from = [i \in 1 .. Len(refs) |-> from[i]]
            BY <2>1
        <2> HIDE DEF from
        <2> QED
            BY <2>1, <2>2, <2>3
    <1> HIDE DEF from
    <1>8. sources \in Seq(Final!ToSet(from))
        BY <1>7, FirstOfIs
    <1> HIDE DEF sources
    <1>9. \A s : block(s) \in Seq(Nat) /\ Final!ToSet(block(s)) \subseteq Final!ToSet(refs)
        <2> TAKE s
        <2>1. /\ block(s) \in Seq(Nat)
              /\ Final!ToSet(block(s)) = {refs[i] : i \in {j \in DOMAIN refs : Items[refs[j]].source = s} \cap DOMAIN refs}
            BY <1>5, PickedIs
        <2> QED
            BY <2>1 DEF Final!ToSet
    <1> HIDE DEF block
    <1>10. blocks \in Seq(Seq(Nat)) /\ \A i \in DOMAIN blocks : Final!ToSet(blocks[i]) \subseteq Final!ToSet(refs)
        <2>1. DOMAIN sources = 1 .. Len(sources) /\ Len(sources) \in Nat
            BY <1>8, ElementsAre
        <2> QED
            BY <1>9, <2>1
    <1> HIDE DEF blocks
    <1>11. /\ Final!FlattenSeq(blocks) \in Seq(Nat)
           /\ Final!ToSet(Final!FlattenSeq(blocks)) = UNION {Final!ToSet(blocks[i]) : i \in DOMAIN blocks}
        BY <1>10, FlattenIs
    <1>12. Final!ObservedRows(cs) = Final!FlattenSeq(blocks)
        BY DEF Final!ObservedRows, Final!Only, Final!Flat, blocks, block, sources, from, refs, rs, fs
    <1> QED
        BY <1>6, <1>10, <1>11, <1>12

Wordings == {"observed", "visual", "temporal", "hypothesis", "unknown"}
Line == [wording : Wordings, refs : SUBSET Nat, claim : Nat]
LineOf(c) == [wording |-> Final!Wording(c), refs |-> Final!ToSet(c.refs), claim |-> c.id]

LEMMA LineIs ==
    ASSUME NEW c \in Final!Claim
    PROVE  /\ LineOf(c) \in Line /\ LineOf(c).wording = Final!Wording(c)
           /\ LineOf(c).refs = Final!ToSet(c.refs)
           /\ Final!Wording(c) = "visual" <=> Final!IsFact(c)
           /\ Final!Wording(c) # "observed"
    <1>1. /\ Final!Wording(c) \in Wordings /\ (Final!Wording(c) = "visual" <=> Final!IsFact(c))
          /\ Final!Wording(c) # "observed"
        <2>1. CASE Final!IsFact(c)
            BY <2>1 DEF Final!Wording, Wordings
        <2>2. CASE ~Final!IsFact(c)
            <3>1. Final!Wording(c) \in {"temporal", "hypothesis", "unknown"}
                BY <2>2 DEF Final!Wording
            <3> QED
                BY <2>2, <3>1 DEF Wordings
        <2> QED
            BY <2>1, <2>2
    <1>2. Final!ToSet(c.refs) \subseteq Nat /\ c.id \in Nat
        BY ClaimFields, ElementsAre
    <1>3. LineOf(c) \in Line
        BY <1>1, <1>2 DEF Line, LineOf
    <1> QED
        BY <1>1, <1>3 DEF LineOf

\* The lines of some of the claims.
LEMMA LinesFrom ==
    ASSUME NEW cs \in Seq(Final!Claim), NEW K
    PROVE  LET picked == Final!Picked(cs, K)
               lines  == Final!FlattenSeq([i \in DOMAIN picked |-> <<LineOf(picked[i])>>])
           IN  /\ lines \in Seq(Line)
               /\ \A l \in Final!ToSet(lines) : \E k \in K \cap DOMAIN cs : l = LineOf(cs[k])
    <1> DEFINE picked == Final!Picked(cs, K)
               ls == [i \in DOMAIN picked |-> <<LineOf(picked[i])>>]
    <1>1. picked \in Seq(Final!Claim) /\ Final!ToSet(picked) = {cs[i] : i \in K \cap DOMAIN cs}
        BY PickedIs
    <1>2. DOMAIN picked = 1 .. Len(picked) /\ Len(picked) \in Nat
          /\ \A i \in DOMAIN picked : picked[i] \in Final!Claim /\ picked[i] \in Final!ToSet(picked)
        BY <1>1, ElementsAre
    <1> HIDE DEF picked
    <1>3. \A i \in DOMAIN picked : LineOf(picked[i]) \in Line
        BY <1>2, LineIs
    <1>4. ls \in Seq(Seq(Line)) /\ \A i \in DOMAIN ls : i \in DOMAIN picked /\ ls[i] = <<LineOf(picked[i])>>
        BY <1>2, <1>3
    <1> HIDE DEF ls
    <1>5. /\ Final!FlattenSeq(ls) \in Seq(Line)
          /\ Final!ToSet(Final!FlattenSeq(ls)) = UNION {Final!ToSet(ls[i]) : i \in DOMAIN ls}
        BY <1>4, FlattenIs
    <1>6. \A x : Final!ToSet(<<x>>) = {x}
        BY DEF Final!ToSet
    <1>7. ASSUME NEW l \in Final!ToSet(Final!FlattenSeq(ls))
          PROVE  \E k \in K \cap DOMAIN cs : l = LineOf(cs[k])
        <2>1. PICK i \in DOMAIN ls : l \in Final!ToSet(ls[i])
            BY <1>5
        <2>2. l = LineOf(picked[i]) /\ picked[i] \in Final!ToSet(picked)
            BY <2>1, <1>2, <1>4, <1>6
        <2> QED
            BY <1>1, <2>2
    <1> QED
        BY <1>5, <1>7 DEF ls, picked

\* A line that speaks of an observation rests on facts.
LEMMA RenderedFrom ==
    ASSUME NEW p \in AnyAnswer
    PROVE  /\ Final!Rendered(p) \in Seq(Line)
           /\ \A l \in Final!ToSet(Final!Rendered(p)) :
                 l.wording \in {"observed", "visual"} => l.refs \subseteq FactRefs(p.claims)
    <1> DEFINE cs == p.claims
               rows == Final!ObservedRows(cs)
               A == [i \in DOMAIN rows |-> [wording |-> "observed", refs |-> {rows[i]}, claim |-> 0]]
               seen == {i \in DOMAIN cs : Final!IsFact(cs[i]) /\ Final!Visual(cs[i])}
               other == {i \in DOMAIN cs : ~Final!IsFact(cs[i])}
               lines(K) == LET picked == Final!Picked(cs, K)
                           IN  Final!FlattenSeq([i \in DOMAIN picked |-> <<LineOf(picked[i])>>])
               Fine(s) == \A l \in Final!ToSet(s) :
                            l.wording \in {"observed", "visual"} => l.refs \subseteq FactRefs(cs)
    <1>1. cs \in Seq(Final!Claim)
        BY DEF AnyAnswer
    <1>2. rows \in Seq(Nat) /\ Final!ToSet(rows) \subseteq FactRefs(cs)
        BY <1>1, ObservedFrom
    <1>3. A \in Seq(Line) /\ Fine(A)
        <2>1. DOMAIN rows = 1 .. Len(rows) /\ Len(rows) \in Nat
              /\ \A i \in DOMAIN rows : rows[i] \in Nat /\ rows[i] \in FactRefs(cs)
            BY <1>2, ElementsAre
        <2> HIDE DEF rows
        <2>2. \A i \in DOMAIN rows : [wording |-> "observed", refs |-> {rows[i]}, claim |-> 0] \in Line
            <3> TAKE i \in DOMAIN rows
            <3>1. PICK r : r = {rows[i]}
                OBVIOUS
            <3>2. r \in SUBSET Nat
                BY <2>1, <3>1
            <3>3. [wording |-> "observed", refs |-> r, claim |-> 0] \in Line
                BY <3>2 DEF Line, Wordings
            <3> QED
                BY <3>1, <3>3
        <2>3. A \in Seq(Line)
            BY <2>1, <2>2
        <2>4. ASSUME NEW l \in Final!ToSet(A) PROVE l.refs \subseteq FactRefs(cs)
            <3>1. PICK i \in DOMAIN rows : l = [wording |-> "observed", refs |-> {rows[i]}, claim |-> 0]
                BY DEF Final!ToSet
            <3>2. l.refs = {rows[i]}
                BY <3>1
            <3> QED
                BY <3>2, <2>1
        <2> QED
            BY <2>3, <2>4
    <1> HIDE DEF A, rows
    <1>4. \A K : /\ lines(K) \in Seq(Line)
                 /\ \A l \in Final!ToSet(lines(K)) : \E k \in K \cap DOMAIN cs : l = LineOf(cs[k])
        BY <1>1, LinesFrom
    <1>5. lines(seen) \in Seq(Line) /\ lines(other) \in Seq(Line)
        BY <1>4
    <1>6. Fine(lines(seen))
        <2> SUFFICES ASSUME NEW l \in Final!ToSet(lines(seen)) PROVE l.refs \subseteq FactRefs(cs)
            OBVIOUS
        <2>1. PICK k \in seen \cap DOMAIN cs : l = LineOf(cs[k])
            BY <1>4
        <2>2. cs[k] \in Final!Claim /\ cs[k] \in Final!ToSet(cs) /\ Final!IsFact(cs[k])
            BY <1>1, <2>1, ElementsAre
        <2>3. l.refs = Final!ToSet(cs[k].refs)
            BY <2>1, <2>2, LineIs
        <2> QED
            BY <2>2, <2>3 DEF FactRefs
    <1>7. Fine(lines(other))
        <2> SUFFICES ASSUME NEW l \in Final!ToSet(lines(other)) PROVE l.wording \notin {"observed", "visual"}
            OBVIOUS
        <2>1. PICK k \in other \cap DOMAIN cs : l = LineOf(cs[k])
            BY <1>4
        <2>2. cs[k] \in Final!Claim /\ ~Final!IsFact(cs[k])
            BY <1>1, <2>1, ElementsAre
        <2> QED
            BY <2>1, <2>2, LineIs
    <1>8. Final!Rendered(p) = A \o lines(seen) \o lines(other)
        BY DEF Final!Rendered, Final!Only, Final!Flat, A, rows, LineOf
    <1> HIDE DEF lines, seen, other, cs
    <1>9. PICK B : B = A \o lines(seen)
        OBVIOUS
    <1>10. B \in Seq(Line) /\ Final!ToSet(B) = Final!ToSet(A) \cup Final!ToSet(lines(seen))
        BY <1>3, <1>5, <1>9, ConcatIs
    <1>11. /\ B \o lines(other) \in Seq(Line)
           /\ Final!ToSet(B \o lines(other)) = Final!ToSet(B) \cup Final!ToSet(lines(other))
        BY <1>5, <1>10, ConcatIs
    <1> QED
        BY <1>3, <1>6, <1>7, <1>8, <1>9, <1>10, <1>11 DEF cs

-----------------------------------------------------------------------------
(* Claims: the product answer.                                             *)

\* The claims in the order of the answer are claims of the payload.
LEMMA OrderedFrom ==
    ASSUME NEW p \in AnyAnswer, Final!Valid(p)
    PROVE  Final!Ordered(p) \in Seq(Final!ToSet(p.claims)) /\ Final!Ordered(p) # <<>>
    <1> DEFINE cs == p.claims
               V  == Final!ToSet(cs)
               of(id) == Final!Picked(cs, {i \in DOMAIN cs : cs[i].id = id})
               first  == [i \in DOMAIN p.summary |-> of(p.summary[i])]
               others == Final!Picked(cs, {i \in DOMAIN cs : ~Final!Contains(p.summary, cs[i].id)})
    <1>1. cs \in Seq(Final!Claim) /\ p.summary \in Seq(Nat)
        BY DEF AnyAnswer
    <1>2. cs \in Seq(V) /\ \A i \in DOMAIN cs : cs[i] \in V
        BY <1>1, ElementsAre
    <1>3. DOMAIN p.summary = 1 .. Len(p.summary) /\ Len(p.summary) \in Nat
        BY <1>1, ElementsAre
    <1> HIDE DEF V
    <1>4. \A id : /\ of(id) \in Seq(V)
                  /\ Final!ToSet(of(id)) = {cs[i] : i \in {j \in DOMAIN cs : cs[j].id = id} \cap DOMAIN cs}
        BY <1>2, PickedIs
    <1>5. others \in Seq(V)
        BY <1>2, PickedIs
    <1> HIDE DEF of, others
    <1>6. first \in Seq(Seq(V)) /\ DOMAIN first = DOMAIN p.summary
          /\ \A i \in DOMAIN p.summary : first[i] = of(p.summary[i])
        BY <1>3, <1>4
    <1> HIDE DEF first
    <1>7. /\ Final!FlattenSeq(first) \in Seq(V)
          /\ Final!ToSet(Final!FlattenSeq(first)) = UNION {Final!ToSet(first[i]) : i \in DOMAIN first}
        BY <1>6, FlattenIs
    <1>8. PICK f : f = Final!FlattenSeq(first)
        OBVIOUS
    <1>9. f \o others \in Seq(V) /\ Final!ToSet(f \o others) = Final!ToSet(f) \cup Final!ToSet(others)
        BY <1>5, <1>7, <1>8, ConcatIs
    <1>10. Final!Ordered(p) = f \o others
        BY <1>8 DEF Final!Ordered, Final!Only, Final!Flat, first, of, others
    <1>11. \E x : x \in Final!ToSet(f)
        <2>1. 1 \in DOMAIN p.summary
            BY <1>3 DEF Final!Valid
        <2>2. p.summary[1] \in {cs[i].id : i \in DOMAIN cs}
            BY <2>1 DEF Final!Valid, Final!ToSet
        <2>3. PICK i \in DOMAIN cs : cs[i].id = p.summary[1]
            BY <2>2
        <2>4. cs[i] \in Final!ToSet(of(p.summary[1]))
            BY <1>4, <2>3
        <2>5. cs[i] \in Final!ToSet(first[1]) /\ 1 \in DOMAIN first
            BY <1>6, <2>1, <2>4
        <2> QED
            BY <1>7, <1>8, <2>5
    <1>12. f \o others # <<>>
        <2>1. Final!ToSet(<<>>) = {}
            BY DEF Final!ToSet
        <2> QED
            BY <1>9, <1>11, <2>1
    <1> QED
        BY <1>9, <1>10, <1>12 DEF V

LEMMA ExplainingIs ==
    ASSUME NEW C, NEW x \in C, NEW s \in Seq(C)
    PROVE  \E m \in [0 .. Len(s) -> Seq({Final!AnswerItem(c) : c \in C}) \ {<<>>}] :
              m = Final!Explaining(x, s)
    <1> DEFINE I == {Final!AnswerItem(c) : c \in C}
               W == Seq(I) \ {<<>>}
               skipped(q, c) == \/ Len(q) > MaxExplanations
                                \/ c.id = x.id
                                \/ \E i \in DOMAIN q : q[i].text = Final!AnswerItem(c).text
               More(q, n) == IF skipped(q, s[n]) THEN q ELSE Append(q, Final!AnswerItem(s[n]))
               G == [y \in (1 .. Len(s)) \X W |-> More(y[2], y[1])]
               Step(g) == [n \in 0 .. Len(s) |->
                              IF n = 0 THEN <<Final!AnswerItem(x)>>
                              ELSE IF skipped(g[n - 1], s[n]) THEN g[n - 1]
                              ELSE Append(g[n - 1], Final!AnswerItem(s[n]))]
    <1>1. <<Final!AnswerItem(x)>> \in W /\ Len(s) \in Nat
        OBVIOUS
    <1>2. ASSUME NEW n \in 1 .. Len(s), NEW q \in W
          PROVE  More(q, n) \in W
        <2>1. s[n] \in C /\ Final!AnswerItem(s[n]) \in I
            OBVIOUS
        <2> HIDE DEF I, skipped
        <2>2. Append(q, Final!AnswerItem(s[n])) \in W
            BY <2>1, AppendIs
        <2> QED
            BY <2>2
    <1> HIDE DEF W, I, skipped
    <1>3. G \in [(1 .. Len(s)) \X W -> W]
        BY <1>2
    <1>4. \A n \in 1 .. Len(s) : \A q \in W :
             G[<<n, q>>] = IF skipped(q, s[n]) THEN q ELSE Append(q, Final!AnswerItem(s[n]))
        OBVIOUS
    <1> HIDE DEF G
    <1>5. PICK f \in [0 .. Len(s) -> W] :
             /\ f[0] = <<Final!AnswerItem(x)>>
             /\ \A k \in 1 .. Len(s) : f[k - 1] \in W /\ f[k] = G[<<k, f[k - 1]>>]
        <2>1. \E f : Iterates(f, W, <<Final!AnswerItem(x)>>, Len(s), G)
            BY <1>1, <1>3, Iterated
        <2>2. \A k \in 1 .. Len(s) : k - 1 \in 0 .. Len(s)
            OBVIOUS
        <2> QED
            BY <2>1, <2>2 DEF Iterates
    <1>6. f = Step(f)
        <2>1. \A n \in 1 .. Len(s) : f[n] = IF skipped(f[n - 1], s[n]) THEN f[n - 1]
                                            ELSE Append(f[n - 1], Final!AnswerItem(s[n]))
            BY <1>4, <1>5
        <2>2. \A n \in 0 .. Len(s) : n # 0 => n \in 1 .. Len(s)
            OBVIOUS
        <2> QED
            BY <2>1, <2>2, <1>5
    <1>7. \E m : m = Final!Explaining(x, s) /\ m = Step(m)
        BY <1>6, Zenon DEF Final!Explaining, skipped
    <1>8. PICK m : m = Final!Explaining(x, s) /\ m = Step(m)
        BY <1>7
    <1> DEFINE S == {n \in 0 .. Len(s) : m[n] \in W}
    <1>9. 0 \in S
        BY <1>1, <1>8
    <1>10. ASSUME NEW n \in 0 .. Len(s), n \in S, n < Len(s)
           PROVE  n + 1 \in S
        <2>1. n + 1 \in 0 .. Len(s) /\ n + 1 # 0 /\ (n + 1) - 1 = n /\ n + 1 \in 1 .. Len(s)
            BY <1>1, <1>10
        <2>2. m[n + 1] = More(m[n], n + 1)
            BY <1>8, <2>1
        <2> HIDE DEF More
        <2> QED
            BY <1>2, <1>10, <2>1, <2>2
    <1> HIDE DEF S
    <1>11. \A n \in 0 .. Len(s) : n \in S
        BY <1>1, <1>9, <1>10, Induct
    <1>12. m \in [0 .. Len(s) -> W]
        BY <1>8, <1>11 DEF S
    <1> QED
        BY <1>8, <1>12 DEF W, I

\* What the answer tells are items of claims of the payload.
LEMMA AnswerFrom ==
    ASSUME NEW p \in AnyAnswer, Final!Valid(p)
    PROVE  LET told == <<Final!Answer(p).conclusion>> \o Final!Answer(p).explanation
           IN  \A i \in DOMAIN told : \E c \in Final!ToSet(p.claims) : told[i] = Final!AnswerItem(c)
    <1> DEFINE C == Final!ToSet(p.claims)
               I == {Final!AnswerItem(c) : c \in C}
    <1>1. PICK o : o = Final!Ordered(p)
        OBVIOUS
    <1>2. o \in Seq(C) /\ o # <<>>
        BY <1>1, OrderedFrom
    <1> HIDE DEF C
    <1>3. 1 \in DOMAIN o /\ o[1] \in C
        BY <1>2
    <1>4. Final!Conclusion(o) \in C
        <2> DEFINE fs == Final!Picked(o, {i \in DOMAIN o : Final!IsFact(o[i])})
        <2>1. fs \in Seq(C)
            BY <1>2, PickedIs
        <2>2. Final!Conclusion(o) = IF fs = <<>> THEN o[1] ELSE fs[1]
            BY DEF Final!Conclusion, Final!Only
        <2> HIDE DEF fs
        <2>3. fs # <<>> => fs[1] \in C
            BY <2>1
        <2> QED
            BY <1>3, <2>2, <2>3
    <1>5. PICK items : items = Final!Explained(Final!Conclusion(o), o)
        OBVIOUS
    <1>6. items \in Seq(I) /\ items # <<>>
        <2>1. PICK m \in [0 .. Len(o) -> Seq(I) \ {<<>>}] : m = Final!Explaining(Final!Conclusion(o), o)
            BY <1>2, <1>4, ExplainingIs
        <2>2. Len(o) \in 0 .. Len(o)
            BY <1>2
        <2> HIDE DEF I
        <2> QED
            BY <1>5, <2>1, <2>2 DEF Final!Explained
    <1> HIDE DEF I
    <1>7. Final!Answer(p).conclusion = items[1] /\ Final!Answer(p).explanation = SubSeq(items, 2, Len(items))
        BY <1>1, <1>5 DEF Final!Answer
    <1>8. items[1] \in I /\ SubSeq(items, 2, Len(items)) \in Seq(I)
        BY <1>6
    <1>9. <<items[1]>> \o SubSeq(items, 2, Len(items)) \in Seq(I)
        BY <1>8
    <1>10. \A i \in DOMAIN (<<items[1]>> \o SubSeq(items, 2, Len(items))) :
              (<<items[1]>> \o SubSeq(items, 2, Len(items)))[i] \in I
        BY <1>9, ElementsAre
    <1> QED
        BY <1>7, <1>10 DEF I, C

\* An item that speaks of something seen is a fact's.
LEMMA AnswerTold ==
    ASSUME NEW c \in Final!Claim
    PROVE  /\ Final!AnswerItem(c).claim = c.id
           /\ Final!AnswerItem(c).text.wording = "visual" => Final!IsFact(c)
    <1>1. Final!AnswerItem(c).claim = c.id /\ Final!AnswerItem(c).text.wording = Final!Wording(c)
        BY DEF Final!AnswerItem
    <1> QED
        BY <1>1, LineIs

\* An answer is not nothing.
LEMMA AnswerIsThere == ASSUME NEW p PROVE Final!Answer(p) # Final!None
    <1>1. "conclusion" \in DOMAIN Final!Answer(p)
        BY DEF Final!Answer
    <1>2. "conclusion" \notin DOMAIN Final!None
        BY DEF Final!None
    <1> QED
        BY <1>1, <1>2

-----------------------------------------------------------------------------
(* Claims: the report and what its model is given.                         *)

\* The claims an item names are claims of the payload.
LEMMA ItemCites ==
    ASSUME NEW p \in AnyAnswer, NEW s, NEW item, Final!ValidItem(s, item, p),
           NEW id \in Final!ToSet(item.claims)
    PROVE  /\ Final!ClaimOf(p, id) \in Final!ToSet(p.claims) /\ Final!ClaimOf(p, id).id = id
           /\ Final!Allowed(s, Final!ClaimOf(p, id))
    <1>1. \E c \in Final!ToSet(p.claims) : c.id = id
        BY DEF Final!ValidItem
    <1>2. Final!ClaimOf(p, id) \in Final!ToSet(p.claims) /\ Final!ClaimOf(p, id).id = id
        BY <1>1 DEF Final!ClaimOf
    <1>3. Final!Allowed(s, Final!ClaimOf(p, id))
        BY DEF Final!ValidItem
    <1> QED
        BY <1>2, <1>3

\* The evidence an item names is that of claims it names.
LEMMA ItemRefs ==
    ASSUME NEW p \in AnyAnswer, NEW s, NEW item, Final!ValidItem(s, item, p),
           NEW ref \in Final!ToSet(item.refs)
    PROVE  \E id \in Final!ToSet(item.claims) : ref \in Final!ToSet(Final!ClaimOf(p, id).refs)
    BY DEF Final!ValidItem

\* The references of what a composer is given.
LEMMA ComposerGiven ==
    ASSUME NEW p \in AnyAnswer
    PROVE  LET input == Final!ComposerInput(p)
               given == [i \in DOMAIN input.evidence |-> input.evidence[i].ref]
           IN  /\ Final!Distinct(given)
               /\ \A c \in Final!ToSet(p.claims) : \A ref \in Final!ToSet(c.refs) :
                     ref \in Final!Refs => ref \in Final!ToSet(given)
    <1> DEFINE cs == p.claims
               rs == [i \in DOMAIN cs |-> cs[i].refs]
               all == Final!FirstOf(Final!FlattenSeq(rs))
               refs == Final!Picked(all, {i \in DOMAIN all : all[i] \in Final!Refs})
               evidence(ref) == [ref |-> ref, type |-> Items[ref].type, role |-> Items[ref].role,
                                 source |-> Items[ref].source, content |-> Final!Content(ref)]
               told == [i \in DOMAIN refs |-> evidence(refs[i])]
               given == [i \in DOMAIN told |-> told[i].ref]
    <1>1. cs \in Seq(Final!Claim) /\ DOMAIN cs = 1 .. Len(cs) /\ Len(cs) \in Nat
          /\ \A i \in DOMAIN cs : cs[i].refs \in Seq(Nat)
        <2>1. cs \in Seq(Final!Claim)
            BY DEF AnyAnswer
        <2> QED
            BY <2>1, ElementsAre, ClaimFields
    <1>2. rs \in Seq(Seq(Nat))
        BY <1>1
    <1>3. DOMAIN rs = DOMAIN cs /\ \A i \in DOMAIN cs : rs[i] = cs[i].refs
        OBVIOUS
    <1> HIDE DEF rs
    <1>4. /\ Final!FlattenSeq(rs) \in Seq(Nat)
          /\ Final!ToSet(Final!FlattenSeq(rs)) = UNION {Final!ToSet(rs[i]) : i \in DOMAIN rs}
        BY <1>2, FlattenIs
    <1>5. /\ all \in Seq(Nat) /\ Final!ToSet(all) = UNION {Final!ToSet(rs[i]) : i \in DOMAIN rs}
          /\ Final!Distinct(all)
        BY <1>4, FirstOfIs
    <1> HIDE DEF all
    <1>6. /\ refs \in Seq(Nat)
          /\ Final!ToSet(refs) = {all[i] : i \in {j \in DOMAIN all : all[j] \in Final!Refs} \cap DOMAIN all}
          /\ Final!Distinct(refs)
        <2> DEFINE K == {j \in DOMAIN all : all[j] \in Final!Refs}
        <2>1. \A i, j \in K \cap DOMAIN all : i # j => all[i] # all[j]
            BY <1>5 DEF Final!Distinct
        <2> HIDE DEF K
        <2>2. PICK q : q = Final!Picked(all, K)
            OBVIOUS
        <2>3. /\ q \in Seq(Nat) /\ Final!ToSet(q) = {all[i] : i \in K \cap DOMAIN all}
              /\ Final!Distinct(q)
            BY <1>5, <2>1, <2>2, PickedIs
        <2> QED
            BY <2>2, <2>3 DEF K
    <1> HIDE DEF refs
    <1>7. \A ref : evidence(ref).ref = ref
        OBVIOUS
    <1> HIDE DEF evidence
    <1>8. DOMAIN told = DOMAIN refs /\ DOMAIN given = DOMAIN refs /\ \A i \in DOMAIN refs : given[i] = refs[i]
        BY <1>7
    <1>9. Final!ComposerInput(p).evidence = told
        BY DEF Final!ComposerInput, Final!Only, Final!Flat, told, evidence, refs, all, rs
    <1> HIDE DEF told, given
    <1>10. Final!Distinct(given) /\ Final!ToSet(given) = Final!ToSet(refs)
        BY <1>6, <1>8 DEF Final!Distinct, Final!ToSet
    <1>11. ASSUME NEW c \in Final!ToSet(cs), NEW ref \in Final!ToSet(c.refs), ref \in Final!Refs
           PROVE  ref \in Final!ToSet(refs)
        <2>1. PICK k \in DOMAIN cs : c = cs[k]
            BY <1>11 DEF Final!ToSet
        <2>2. ref \in Final!ToSet(all)
            BY <1>3, <1>5, <1>11, <2>1
        <2>3. PICK i \in DOMAIN all : ref = all[i]
            BY <2>2 DEF Final!ToSet
        <2> QED
            BY <1>6, <1>11, <2>3
    <1>12. given = [i \in DOMAIN Final!ComposerInput(p).evidence |-> Final!ComposerInput(p).evidence[i].ref]
        BY <1>9 DEF given
    <1> QED
        BY <1>10, <1>11, <1>12

-----------------------------------------------------------------------------
(* Finalizer: the invariant.  d is what is on disk, q what is still to be   *)
(* written, m the mode, s what the model said, v the verdict on it.          *)

Claiming(m) == m \in {"structured", "payload"}
Source(m, s, v) == IF m = "payload" THEN s ELSE v.payload
Steps == {"ask", "write", "compose", "patch", "raise", "end", "down"}
Shape(x) == x = [valid |-> x.valid, state |-> x.state, answer |-> x.answer,
                 report |-> x.report, body |-> x.body]

\* A valid verdict is about what the model said.
Judgement(m, s, v) ==
    /\ v.valid \in BOOLEAN
    /\ s # Final!None => Claiming(m) /\ s \in Payloads
    /\ Claiming(m) /\ v.valid =>
         s \in Payloads /\ v.payload = Final!Normalized(s) /\ Final!Valid(v.payload)

\* A write has the contents it should have.
Right(w, m, s, v, t) ==
    /\ w.file \in Final!Files \cup {"patch"}
    /\ w.file = "claims" =>
         Claiming(m) /\ w.content # Final!None /\ (v.valid => w.content = Source(m, s, v))
    /\ w.file = "answer" => Claiming(m) /\ v.valid
    /\ w.file = "result" =>
         /\ Shape(w.content) /\ w.content # Final!None
         /\ w.content.valid = v.valid /\ w.content.state = Final!Settled(v.valid)
         /\ w.content.answer = Final!None
    /\ w.file = "final" =>
         /\ w.content # Final!None
         /\ Claiming(m) => v.valid /\ w.content = [lines |-> Final!Rendered(v.payload)]
    /\ w.file = "report" =>
         (Claiming(m) => v.valid /\ w.content \in Reports /\ Final!ValidReport(w.content, v.payload))
    /\ w.file = "task" => w.content = t

\* The file is there, or will be when the queue (up to i) is written.
Due(f, d, q)       == d[f] # Final!None \/ \E j \in DOMAIN q : q[j].file = f
Before(i, f, d, q) == d[f] # Final!None \/ \E j \in DOMAIN q : j < i /\ q[j].file = f

\* The writes come in an order in which each finds what it is made from.
Queued(q, d, m, s, v, t) ==
    /\ q \in Seq(Final!ToSet(q))
    /\ \A i \in DOMAIN q :
         /\ Right(q[i], m, s, v, t)
         /\ q[i].file = "answer" => Before(i, "claims", d, q)
         /\ q[i].file = "result" /\ Claiming(m) /\ v.valid => Before(i, "answer", d, q)
         /\ q[i].file = "report" /\ Claiming(m) => d["result"] # Final!None
         /\ q[i].file = "patch" => d["result"] # Final!None

\* The files agree with the verdict and with each other; g are the faults.
Agreed(d, m, s, v, g) ==
    /\ d = [f \in Final!Files |-> d[f]]
    /\ d["result"] # Final!None =>
         /\ Shape(d["result"])
         /\ (g = 0 => /\ d["result"].valid = v.valid
                      /\ d["result"].state = Final!Settled(v.valid))
    /\ Claiming(m) =>
         /\ v.valid /\ d["claims"] # Final!None => d["claims"] = Source(m, s, v)
         /\ d["answer"] # Final!None =>
              v.valid /\ d["claims"] # Final!None /\ d["answer"] = Final!Answer(v.payload)
         /\ v.valid /\ d["result"] # Final!None => d["claims"] # Final!None /\ d["answer"] # Final!None
         /\ d["result"] # Final!None /\ d["result"].valid =>
              v.valid /\ d["result"].answer = Final!Answer(v.payload)
         /\ d["final"] # Final!None => v.valid /\ d["final"] = [lines |-> Final!Rendered(v.payload)]
         /\ d["report"] # Final!None =>
              /\ v.valid /\ d["report"] \in Reports /\ Final!ValidReport(d["report"], v.payload)
              /\ d["result"] # Final!None

\* What a task that ends as t leaves.
Completed(d) == d["result"] # Final!None /\ d["result"].valid /\ d["final"] # Final!None
Ended(d, t)  == /\ d["result"] # Final!None => d["result"].state = t
                /\ t = "COMPLETED" => Completed(d)

\* What the worker has still before it at each of its steps.
Stepping ==
    /\ crashed => step \in {"down", "end"} /\ writes = <<>>
    /\ step = "down" => crashed
    /\ step \in {"ask", "compose", "raise", "down"} => writes = <<>>
    /\ step = "ask" => ~verdict.valid /\ faults = 0 /\ \A f \in Final!Files \ {"task"} : disk[f] = Final!None
    /\ step = "ask" \/ (step = "raise" /\ faults = 0) =>
         task \notin Final!Terminal /\ disk["result"] = Final!None
    /\ step = "write" => Due("result", disk, writes) /\ (verdict.valid => Due("final", disk, writes))
    /\ step \in {"compose", "patch"} => Due("result", disk, <<>>) /\ Due("final", disk, <<>>)
    /\ step = "compose" => mode = "structured" /\ verdict.valid
    /\ step # "end" => \A i \in DOMAIN writes : writes[i].file # "task"
    /\ step = "end" => \A i \in DOMAIN writes : writes[i].file \in {"error", "task"}

Ending ==
    /\ step \notin {"end", "down"} /\ faults = 0 => disk["task"] \notin Final!Terminal
    /\ step = "end" /\ faults = 0 /\ ~crashed => task \in Final!Terminal /\ Ended(disk, task)
    /\ disk["task"] = "COMPLETED" /\ faults = 0 => Completed(disk)
    /\ disk["task"] \in Final!Terminal /\ faults = 0 /\ ~crashed => Ended(disk, disk["task"])

FinalInv ==
    /\ mode \in Final!Modes /\ step \in Steps /\ faults \in Nat /\ crashed \in BOOLEAN
    /\ Judgement(mode, said, verdict)
    /\ Queued(writes, disk, mode, said, verdict, task)
    /\ Agreed(disk, mode, said, verdict, faults)
    /\ Stepping /\ Ending

\* What is written is there.
LEMMA ThereIs ==
    /\ \A x : Shape(x) => x # Final!None
    /\ \A x : [lines |-> x] # Final!None /\ [text |-> x] # Final!None
    /\ \A valid, more : /\ Shape(Final!Result(valid, more))
                        /\ Final!Result(valid, more).valid = valid
                        /\ Final!Result(valid, more).state = Final!Settled(valid)
                        /\ Final!Result(valid, more).answer = Final!None
    /\ \A p \in AnyAnswer : p # Final!None /\ p # Final!Garbage
    <1>1. \A x : Shape(x) => x # Final!None
        BY DEF Shape, Final!None
    <1>2. \A x : [lines |-> x] # Final!None /\ [text |-> x] # Final!None
        BY DEF Final!None
    <1>3. ASSUME NEW valid, NEW more
          PROVE  /\ Shape(Final!Result(valid, more))
                 /\ Final!Result(valid, more).valid = valid
                 /\ Final!Result(valid, more).state = Final!Settled(valid)
                 /\ Final!Result(valid, more).answer = Final!None
        BY DEF Shape, Final!Result, Final!Settled
    <1>4. \A p \in AnyAnswer : p # Final!None /\ p # Final!Garbage
        BY DEF AnyAnswer, Final!None, Final!Garbage
    <1> QED
        BY <1>1, <1>2, <1>3, <1>4

\* The files that others are made from.
Held == {"claims", "answer", "result", "final"}

\* The first write being made, the others still come in order.
LEMMA Shifted ==
    ASSUME NEW q, NEW d, NEW m, NEW s, NEW v, NEW t, NEW e,
           Queued(q, d, m, s, v, t), q # <<>>,
           \A f \in Held : d[f] # Final!None \/ q[1].file = f => e[f] # Final!None
    PROVE  /\ Queued(Tail(q), e, m, s, v, t)
           /\ \A f \in Held : Due(f, d, q) => Due(f, e, Tail(q))
           /\ \A i \in DOMAIN Tail(q) : i + 1 \in DOMAIN q /\ Tail(q)[i] = q[i + 1]
           /\ 1 \in DOMAIN q /\ Head(q) = q[1]
    <1> DEFINE V == Final!ToSet(q)
               r == Tail(q)
    <1>1. q \in Seq(V)
        BY DEF Queued
    <1> HIDE DEF V
    <1>2. /\ Len(q) \in Nat /\ Len(q) > 0 /\ DOMAIN q = 1 .. Len(q) /\ Head(q) = q[1]
          /\ r \in Seq(V) /\ DOMAIN r = 1 .. Len(q) - 1
          /\ \A i \in 1 .. Len(q) - 1 : r[i] = q[i + 1]
        BY <1>1
    <1>3. /\ \A i \in DOMAIN r : i + 1 \in DOMAIN q /\ r[i] = q[i + 1]
          /\ \A j \in DOMAIN q : j = 1 \/ (j - 1 \in DOMAIN r /\ r[j - 1] = q[j])
          /\ 1 \in DOMAIN q
        BY <1>2
    <1>4. r \in Seq(Final!ToSet(r))
        BY <1>2, ElementsAre
    <1> HIDE DEF r
    <1>5. ASSUME NEW f \in Held, NEW i \in DOMAIN r, Before(i + 1, f, d, q)
          PROVE  Before(i, f, e, r)
        <2>1. CASE d[f] # Final!None
            BY <2>1 DEF Before
        <2>2. CASE d[f] = Final!None
            <3>1. PICK j \in DOMAIN q : j < i + 1 /\ q[j].file = f
                BY <1>5, <2>2 DEF Before
            <3>2. CASE j = 1
                BY <3>1, <3>2 DEF Before
            <3>3. CASE j # 1
                <4>1. j - 1 \in DOMAIN r /\ r[j - 1].file = f
                    BY <1>3, <3>1, <3>3
                <4>2. j - 1 < i
                    BY <1>2, <3>1, <1>3
                <4> QED
                    BY <4>1, <4>2 DEF Before
            <3> QED
                BY <3>2, <3>3
        <2> QED
            BY <2>1, <2>2
    <1>6. ASSUME NEW f \in Held, Due(f, d, q)
          PROVE  Due(f, e, r)
        <2>1. CASE d[f] # Final!None
            BY <2>1 DEF Due
        <2>2. CASE d[f] = Final!None
            <3>1. PICK j \in DOMAIN q : q[j].file = f
                BY <1>6, <2>2 DEF Due
            <3> QED
                BY <1>3, <3>1 DEF Due
        <2> QED
            BY <2>1, <2>2
    <1>7. ASSUME NEW i \in DOMAIN r
          PROVE  /\ Right(r[i], m, s, v, t)
                 /\ r[i].file = "answer" => Before(i, "claims", e, r)
                 /\ r[i].file = "result" /\ Claiming(m) /\ v.valid => Before(i, "answer", e, r)
                 /\ r[i].file = "report" /\ Claiming(m) => e["result"] # Final!None
                 /\ r[i].file = "patch" => e["result"] # Final!None
        <2>1. i + 1 \in DOMAIN q /\ r[i] = q[i + 1]
            BY <1>3
        <2>2. /\ Right(q[i + 1], m, s, v, t)
              /\ q[i + 1].file = "answer" => Before(i + 1, "claims", d, q)
              /\ q[i + 1].file = "result" /\ Claiming(m) /\ v.valid => Before(i + 1, "answer", d, q)
              /\ q[i + 1].file = "report" /\ Claiming(m) => d["result"] # Final!None
              /\ q[i + 1].file = "patch" => d["result"] # Final!None
            BY <2>1 DEF Queued
        <2>3. "claims" \in Held /\ "answer" \in Held /\ "result" \in Held
            BY DEF Held
        <2> QED
            BY <2>1, <2>2, <2>3, <1>5
    <1>8. Queued(r, e, m, s, v, t)
        BY <1>4, <1>7 DEF Queued
    <1> QED
        BY <1>2, <1>3, <1>6, <1>8 DEF r

-----------------------------------------------------------------------------
(* Finalizer: a write, made or failed.                                     *)

LEMMA FinalAssumed ==
    /\ Payloads \subseteq AnyAnswer
    /\ \A r \in Reports : r \in [Final!Sections \cup {"conclusion"} ->
                                    Seq([text : BOOLEAN, claims : Seq(Nat), refs : Seq(Nat)])]
    BY FinalAssumption DEF Final!AnswersAssumption, AnyAnswer

\* The answer that is built from what is on disk.
LEMMA RebuiltIs ==
    ASSUME FinalInv, Claiming(mode), verdict.valid, disk["claims"] # Final!None
    PROVE  Final!Rebuilt = Final!Answer(verdict.payload) /\ Final!Rebuilt # Final!None
    <1>1. /\ said \in Payloads /\ verdict.payload = Final!Normalized(said)
          /\ Final!Valid(verdict.payload) /\ disk["claims"] = Source(mode, said, verdict)
        BY DEF FinalInv, Judgement, Agreed
    <1>2. said \in AnyAnswer
        BY <1>1, FinalAssumed
    <1>3. Final!Normalized(disk["claims"]) = verdict.payload
        <2>1. CASE mode = "payload"
            BY <1>1, <2>1 DEF Source
        <2>2. CASE mode # "payload"
            BY <1>1, <1>2, <2>2, Idempotent DEF Source
        <2> QED
            BY <2>1, <2>2
    <1>4. Final!Rebuilt = Final!Answer(verdict.payload)
        BY <1>1, <1>3 DEF Final!Rebuilt
    <1> QED
        BY <1>4, AnswerIsThere

\* What a write leaves of the other files, and puts in its own.
LEMMA AppliedIs ==
    ASSUME FinalInv, writes # <<>>, NEW w, w = writes[1], NEW e, e = Final!Applied(w)
    PROVE  /\ e = [f \in Final!Files |-> e[f]]
           /\ w.file \notin {"answer", "result", "patch"} => e = [disk EXCEPT ![w.file] = w.content]
           /\ w.file = "answer" => e = [disk EXCEPT !["answer"] = Final!Answer(verdict.payload)]
           /\ w.file = "result" =>
                /\ e = [disk EXCEPT !["result"] = e["result"]]
                /\ Shape(e["result"]) /\ e["result"].valid = verdict.valid
                /\ e["result"].state = Final!Settled(verdict.valid)
                /\ Claiming(mode) /\ verdict.valid =>
                     e["result"].answer = Final!Answer(verdict.payload)
           /\ w.file = "patch" =>
                /\ e = [disk EXCEPT !["result"] = e["result"]] /\ Shape(e["result"])
                /\ e["result"].valid = disk["result"].valid
                /\ e["result"].state = disk["result"].state
                /\ e["result"].answer = disk["result"].answer
    <1>1. 1 \in DOMAIN writes
        BY DEF FinalInv, Queued
    <1>2. /\ Right(w, mode, said, verdict, task)
          /\ w.file = "answer" => Before(1, "claims", disk, writes)
          /\ w.file = "result" /\ Claiming(mode) /\ verdict.valid => Before(1, "answer", disk, writes)
          /\ w.file = "patch" => disk["result"] # Final!None
        BY <1>1 DEF FinalInv, Queued
    <1>3. \A f : Before(1, f, disk, writes) => disk[f] # Final!None
        <2>1. \A j \in DOMAIN writes : ~(j < 1)
            BY DEF FinalInv, Queued
        <2> QED
            BY <2>1 DEF Before
    <1>4. /\ disk = [f \in Final!Files |-> disk[f]] /\ DOMAIN disk = Final!Files
          /\ disk["result"] # Final!None => Shape(disk["result"])
          /\ Claiming(mode) /\ disk["answer"] # Final!None => disk["claims"] # Final!None
        BY DEF FinalInv, Agreed
    <1>5. {"answer", "result", "patch"} \cap Final!Files = {"answer", "result"}
        BY DEF Final!Files
    <1>6. CASE w.file = "answer"
        <2>1. Final!Rebuilt = Final!Answer(verdict.payload) /\ Final!Rebuilt # Final!None
            BY <1>2, <1>3, <1>6, RebuiltIs DEF Right
        <2>2. e = [disk EXCEPT !["answer"] = Final!Answer(verdict.payload)]
            BY <1>6, <2>1 DEF Final!Applied
        <2> QED
            BY <1>4, <1>6, <2>2
    <1>7. CASE w.file = "result"
        <2>1. /\ Shape(w.content) /\ w.content.valid = verdict.valid
              /\ w.content.state = Final!Settled(verdict.valid) /\ w.content.answer = Final!None
            BY <1>2, <1>7 DEF Right
        <2>2. PICK x : x = [w.content EXCEPT !.answer =
                              IF @ = Final!None /\ w.content.valid THEN Final!Rebuilt ELSE @]
            OBVIOUS
        <2>3. e = [disk EXCEPT !["result"] = x]
            BY <1>7, <2>2 DEF Final!Applied
        <2>4. /\ Shape(x) /\ x.valid = verdict.valid /\ x.state = Final!Settled(verdict.valid)
              /\ verdict.valid => x.answer = Final!Rebuilt
            BY <2>1, <2>2 DEF Shape
        <2>5. Claiming(mode) /\ verdict.valid => Final!Rebuilt = Final!Answer(verdict.payload)
            BY <1>2, <1>3, <1>4, <1>7, RebuiltIs
        <2>6. e["result"] = x /\ e = [f \in Final!Files |-> e[f]]
            BY <1>4, <1>5, <2>3
        <2> QED
            BY <1>7, <2>3, <2>4, <2>5, <2>6
    <1>8. CASE w.file = "patch"
        <2>1. Shape(disk["result"])
            BY <1>2, <1>4, <1>8
        <2>2. PICK x : x = [disk["result"] EXCEPT !.report = w.content]
            OBVIOUS
        <2>3. e = [disk EXCEPT !["result"] = x]
            BY <1>8, <2>2 DEF Final!Applied
        <2>4. /\ Shape(x) /\ x.valid = disk["result"].valid /\ x.state = disk["result"].state
              /\ x.answer = disk["result"].answer
            BY <2>1, <2>2 DEF Shape
        <2>5. e["result"] = x /\ e = [f \in Final!Files |-> e[f]]
            BY <1>4, <1>5, <2>3
        <2> QED
            BY <1>8, <2>3, <2>4, <2>5
    <1>9. CASE w.file \notin {"answer", "result", "patch"}
        <2>1. e = [disk EXCEPT ![w.file] = w.content]
            BY <1>9 DEF Final!Applied
        <2> QED
            BY <1>4, <1>9, <2>1
    <1> QED
        BY <1>6, <1>7, <1>8, <1>9

\* A write leaves the files in agreement.
LEMMA WriteAgrees ==
    ASSUME FinalInv, writes # <<>>, NEW w, w = writes[1], NEW e, e = Final!Applied(w)
    PROVE  /\ Agreed(e, mode, said, verdict, faults)
           /\ \A f \in Held : disk[f] # Final!None \/ w.file = f => e[f] # Final!None
           /\ w.file \notin {"result", "patch"} => e["result"] = disk["result"]
           /\ w.file # "task" => e["task"] = disk["task"]
           /\ w.file = "task" => e["task"] = task
           /\ w.file \in {"error", "task"} => e["final"] = disk["final"]
    <1>1. 1 \in DOMAIN writes
        BY DEF FinalInv, Queued
    <1>2. /\ Right(w, mode, said, verdict, task)
          /\ w.file = "answer" => Before(1, "claims", disk, writes)
          /\ w.file = "result" /\ Claiming(mode) /\ verdict.valid => Before(1, "answer", disk, writes)
          /\ w.file = "report" /\ Claiming(mode) => disk["result"] # Final!None
          /\ w.file = "patch" => disk["result"] # Final!None
        BY <1>1 DEF FinalInv, Queued
    <1>3. \A f : Before(1, f, disk, writes) => disk[f] # Final!None
        <2>1. \A j \in DOMAIN writes : ~(j < 1)
            BY DEF FinalInv, Queued
        <2> QED
            BY <2>1 DEF Before
    <1>4. Agreed(disk, mode, said, verdict, faults) /\ disk = [f \in Final!Files |-> disk[f]]
        BY DEF FinalInv, Agreed
    <1>5. e = [f \in Final!Files |-> e[f]]
        BY AppliedIs
    <1>6. Final!Files = {"task", "claims", "answer", "result", "final", "report", "meta", "error"}
        BY DEF Final!Files
    <1>7. CASE w.file = "claims"
        <2>1. /\ e["claims"] = w.content
              /\ \A f \in Final!Files \ {"claims"} : e[f] = disk[f]
            BY <1>4, <1>6, <1>7, AppliedIs
        <2>2. Claiming(mode) /\ w.content # Final!None
              /\ (verdict.valid => w.content = Source(mode, said, verdict))
            BY <1>2, <1>7 DEF Right
        <2>3. Agreed(e, mode, said, verdict, faults)
            BY <1>4, <1>5, <1>6, <2>1, <2>2 DEF Agreed
        <2> QED
            BY <1>6, <1>7, <2>1, <2>2, <2>3 DEF Held
    <1>8. CASE w.file = "answer"
        <2>1. /\ e["answer"] = Final!Answer(verdict.payload)
              /\ \A f \in Final!Files \ {"answer"} : e[f] = disk[f]
            BY <1>4, <1>6, <1>8, AppliedIs
        <2>2. Claiming(mode) /\ verdict.valid /\ disk["claims"] # Final!None
            BY <1>2, <1>3, <1>8 DEF Right
        <2>3. e["answer"] # Final!None
            BY <2>1, AnswerIsThere
        <2>4. Agreed(e, mode, said, verdict, faults)
            BY <1>4, <1>5, <1>6, <2>1, <2>2, <2>3 DEF Agreed
        <2> QED
            BY <1>6, <1>8, <2>1, <2>3, <2>4 DEF Held
    <1>9. CASE w.file = "result"
        <2>1. /\ Shape(e["result"]) /\ e["result"].valid = verdict.valid
              /\ e["result"].state = Final!Settled(verdict.valid)
              /\ Claiming(mode) /\ verdict.valid =>
                   e["result"].answer = Final!Answer(verdict.payload)
              /\ e = [disk EXCEPT !["result"] = e["result"]]
            BY <1>9, AppliedIs
        <2>2. \A f \in Final!Files \ {"result"} : e[f] = disk[f]
            BY <1>4, <1>6, <2>1
        <2>3. e["result"] # Final!None
            BY <2>1, ThereIs
        <2>4. Claiming(mode) /\ verdict.valid => disk["answer"] # Final!None
            BY <1>2, <1>3, <1>9
        <2>5. Agreed(e, mode, said, verdict, faults)
            BY <1>4, <1>5, <1>6, <2>1, <2>2, <2>3, <2>4 DEF Agreed
        <2> QED
            BY <1>6, <1>9, <2>2, <2>3, <2>5 DEF Held
    <1>10. CASE w.file = "patch"
        <2>1. /\ Shape(e["result"]) /\ e["result"].valid = disk["result"].valid
              /\ e["result"].state = disk["result"].state
              /\ e["result"].answer = disk["result"].answer
              /\ e = [disk EXCEPT !["result"] = e["result"]]
            BY <1>10, AppliedIs
        <2>2. \A f \in Final!Files \ {"result"} : e[f] = disk[f]
            BY <1>4, <1>6, <2>1
        <2>3. e["result"] # Final!None /\ disk["result"] # Final!None
            BY <1>2, <1>10, <2>1, ThereIs
        <2>5. Agreed(e, mode, said, verdict, faults)
            BY <1>4, <1>5, <1>6, <2>1, <2>2, <2>3 DEF Agreed
        <2> QED
            BY <1>6, <1>10, <2>2, <2>3, <2>5 DEF Held
    <1>11. CASE w.file = "final"
        <2>1. /\ e["final"] = w.content
              /\ \A f \in Final!Files \ {"final"} : e[f] = disk[f]
            BY <1>4, <1>6, <1>11, AppliedIs
        <2>2. /\ w.content # Final!None
              /\ Claiming(mode) =>
                   verdict.valid /\ w.content = [lines |-> Final!Rendered(verdict.payload)]
            BY <1>2, <1>11 DEF Right
        <2>3. Agreed(e, mode, said, verdict, faults)
            BY <1>4, <1>5, <1>6, <2>1, <2>2 DEF Agreed
        <2> QED
            BY <1>6, <1>11, <2>1, <2>2, <2>3 DEF Held
    <1>12. CASE w.file = "report"
        <2>1. /\ e["report"] = w.content
              /\ \A f \in Final!Files \ {"report"} : e[f] = disk[f]
            BY <1>4, <1>6, <1>12, AppliedIs
        <2>2. /\ Claiming(mode) => /\ verdict.valid /\ w.content \in Reports
                                   /\ Final!ValidReport(w.content, verdict.payload)
                                   /\ disk["result"] # Final!None
            BY <1>2, <1>12 DEF Right
        <2>3. Agreed(e, mode, said, verdict, faults)
            BY <1>4, <1>5, <1>6, <2>1, <2>2 DEF Agreed
        <2> QED
            BY <1>6, <1>12, <2>1, <2>3 DEF Held
    <1>13. CASE w.file \in {"task", "meta", "error"}
        <2>1. /\ e[w.file] = w.content
              /\ \A f \in Final!Files \ {w.file} : e[f] = disk[f]
            BY <1>4, <1>6, <1>13, AppliedIs
        <2>2. w.file = "task" => w.content = task
            BY <1>2 DEF Right
        <2>3. /\ e["claims"] = disk["claims"] /\ e["answer"] = disk["answer"]
              /\ e["result"] = disk["result"] /\ e["final"] = disk["final"]
              /\ e["report"] = disk["report"]
            BY <1>6, <1>13, <2>1
        <2>4. Agreed(e, mode, said, verdict, faults)
            BY <1>4, <1>5, <2>3 DEF Agreed
        <2> QED
            BY <1>6, <1>13, <2>1, <2>2, <2>3, <2>4 DEF Held
    <1>14. w.file \in Final!Files \cup {"patch"}
        BY <1>2 DEF Right
    <1> QED
        BY <1>6, <1>7, <1>8, <1>9, <1>10, <1>11, <1>12, <1>13, <1>14

LEMMA WriteStep == ASSUME FinalInv, Final!Write PROVE FinalInv'
    <1>1. /\ writes # <<>> /\ disk' = Final!Applied(Head(writes)) /\ writes' = Tail(writes)
          /\ mode' = mode /\ step' = step /\ task' = task /\ said' = said /\ verdict' = verdict
          /\ faults' = faults /\ crashed' = crashed
        BY DEF Final!Write
    <1>2. PICK w : w = writes[1]
        OBVIOUS
    <1>3. Head(writes) = w
        BY <1>1, <1>2
    <1>4. PICK e : e = Final!Applied(w)
        OBVIOUS
    <1>5. disk' = e
        BY <1>1, <1>3, <1>4
    <1>6. /\ Agreed(e, mode, said, verdict, faults)
          /\ \A f \in Held : disk[f] # Final!None \/ w.file = f => e[f] # Final!None
          /\ w.file \notin {"result", "patch"} => e["result"] = disk["result"]
          /\ w.file # "task" => e["task"] = disk["task"]
          /\ w.file = "task" => e["task"] = task
          /\ w.file \in {"error", "task"} => e["final"] = disk["final"]
        BY <1>1, <1>2, <1>4, WriteAgrees
    <1>7. Queued(writes, disk, mode, said, verdict, task)
        BY DEF FinalInv
    <1>8. /\ Queued(writes', e, mode, said, verdict, task)
          /\ \A f \in Held : Due(f, disk, writes) => Due(f, e, writes')
          /\ \A i \in DOMAIN writes' : i + 1 \in DOMAIN writes /\ writes'[i] = writes[i + 1]
          /\ 1 \in DOMAIN writes
        BY <1>1, <1>2, <1>6, <1>7, Shifted
    <1>9. "result" \in Held /\ "final" \in Held
        BY DEF Held
    <1>10. Stepping /\ Ending /\ step \in Steps
        BY DEF FinalInv
    <1>11. step \in {"write", "patch", "end"} /\ ~crashed
        BY <1>1, <1>10 DEF Stepping, Steps
    <1>12. /\ step # "end" => w.file # "task"
           /\ step = "end" => w.file \in {"error", "task"}
        BY <1>2, <1>8, <1>10 DEF Stepping
    <1>13. Stepping'
        <2>1. step = "write" => Due("result", e, writes') /\ (verdict.valid => Due("final", e, writes'))
            BY <1>8, <1>9, <1>10 DEF Stepping
        <2>2. step = "patch" => Due("result", e, <<>>) /\ Due("final", e, <<>>)
            BY <1>6, <1>9, <1>10 DEF Stepping, Due
        <2>3. /\ step # "end" => \A i \in DOMAIN writes' : writes'[i].file # "task"
              /\ step = "end" => \A i \in DOMAIN writes' : writes'[i].file \in {"error", "task"}
            BY <1>8, <1>10 DEF Stepping
        <2> QED
            BY <1>1, <1>5, <1>11, <2>1, <2>2, <2>3 DEF Stepping
    <1>14. Ending'
        <2>1. CASE step = "end"
            <3>1. /\ e["result"] = disk["result"] /\ e["final"] = disk["final"]
                  /\ e["task"] \in {disk["task"], task} 
                BY <1>6, <1>12, <2>1
            <3>2. /\ \A t : Ended(e, t) = Ended(disk, t)
                  /\ Completed(e) = Completed(disk)
                BY <3>1 DEF Ended, Completed
            <3>3. e["task"] = "COMPLETED" /\ faults = 0 => Completed(e)
                BY <1>10, <1>11, <2>1, <3>1, <3>2 DEF Ending, Ended
            <3>4. e["task"] \in Final!Terminal /\ faults = 0 => Ended(e, e["task"])
                BY <1>10, <1>11, <2>1, <3>1, <3>2 DEF Ending
            <3>5. faults = 0 => task \in Final!Terminal /\ Ended(e, task)
                BY <1>10, <1>11, <2>1, <3>2 DEF Ending
            <3> QED
                BY <1>1, <1>5, <1>11, <2>1, <3>3, <3>4, <3>5 DEF Ending
        <2>2. CASE step # "end"
            <3>1. e["task"] = disk["task"]
                BY <1>6, <1>12, <2>2
            <3>2. faults = 0 => e["task"] \notin Final!Terminal
                BY <1>10, <1>11, <2>2, <3>1 DEF Ending
            <3>3. "COMPLETED" \in Final!Terminal
                BY DEF Final!Terminal
            <3> QED
                BY <1>1, <1>5, <1>11, <2>2, <3>2, <3>3 DEF Ending
        <2> QED
            BY <2>1, <2>2
    <1> QED
        BY <1>1, <1>5, <1>6, <1>8, <1>13, <1>14 DEF FinalInv

\* A part of result.json is changed without having read the rest.
LEMMA PatchUnreadStep == ASSUME FinalInv, Final!PatchUnread PROVE FinalInv'
    <1> DEFINE part == [valid |-> FALSE, state |-> "none", answer |-> Final!None,
                        report |-> Head(writes).content, body |-> "patched"]
    <1>1. /\ writes # <<>> /\ disk' = [disk EXCEPT !["result"] = part] /\ writes' = Tail(writes)
          /\ Head(writes).file = "patch" /\ faults' = faults + 1
          /\ mode' = mode /\ step' = step /\ task' = task /\ said' = said /\ verdict' = verdict
          /\ crashed' = crashed
        BY DEF Final!PatchUnread
    <1>2. Shape(part) /\ part # Final!None /\ part.valid = FALSE
        BY ThereIs DEF Shape
    <1> HIDE DEF part
    <1>3. PICK w : w = writes[1]
        OBVIOUS
    <1>4. Head(writes) = w
        BY <1>1, <1>3
    <1>5. Queued(writes, disk, mode, said, verdict, task) /\ Stepping /\ Ending /\ step \in Steps
          /\ faults \in Nat /\ Agreed(disk, mode, said, verdict, faults)
        BY DEF FinalInv
    <1>6. /\ disk["result"] # Final!None
          /\ 1 \in DOMAIN writes
        BY <1>1, <1>3, <1>4, <1>5 DEF Queued
    <1>7. /\ disk' = [f \in Final!Files |-> disk'[f]] /\ disk'["result"] = part
          /\ \A f \in Final!Files \ {"result"} : disk'[f] = disk[f]
        BY <1>1, <1>5 DEF Agreed, Final!Files
    <1>8. faults' \in Nat /\ faults' # 0
        BY <1>1, <1>5
    <1>9. Agreed(disk', mode, said, verdict, faults')
        BY <1>2, <1>5, <1>6, <1>7, <1>8 DEF Agreed, Final!Files
    <1>10. \A f \in Held : disk[f] # Final!None \/ w.file = f => disk'[f] # Final!None
        BY <1>1, <1>2, <1>4, <1>7 DEF Held, Final!Files
    <1>11. /\ Queued(writes', disk', mode, said, verdict, task)
           /\ \A f \in Held : Due(f, disk, writes) => Due(f, disk', writes')
           /\ \A i \in DOMAIN writes' : i + 1 \in DOMAIN writes /\ writes'[i] = writes[i + 1]
        <2>1. PICK e : e = disk'
            OBVIOUS
        <2>2. \A f \in Held : disk[f] # Final!None \/ writes[1].file = f => e[f] # Final!None
            BY <1>3, <1>10, <2>1
        <2>3. Queued(writes, disk, mode, said, verdict, task) /\ writes # <<>>
            BY <1>1, <1>5
        <2>4. Queued(Tail(writes), e, mode, said, verdict, task)
            BY <2>2, <2>3, Shifted
        <2>5. \A f \in Held : Due(f, disk, writes) => Due(f, e, Tail(writes))
            BY <2>2, <2>3, Shifted
        <2>6. \A i \in DOMAIN Tail(writes) : i + 1 \in DOMAIN writes /\ Tail(writes)[i] = writes[i + 1]
            BY <2>2, <2>3, Shifted
        <2> QED
            BY <1>1, <2>1, <2>4, <2>5, <2>6
    <1>12. step \in {"write", "patch"} /\ ~crashed
        BY <1>1, <1>4, <1>3, <1>5, <1>6 DEF Stepping, Steps
    <1>13. Stepping'
        <2>1. "result" \in Held /\ "final" \in Held
            BY DEF Held
        <2>2. step = "write" => Due("result", disk', writes') /\ (verdict.valid => Due("final", disk', writes'))
            BY <1>5, <1>11, <2>1 DEF Stepping
        <2>3. step = "patch" => Due("result", disk', <<>>) /\ Due("final", disk', <<>>)
            BY <1>5, <1>10, <2>1 DEF Stepping, Due
        <2>4. \A i \in DOMAIN writes' : writes'[i].file # "task"
            BY <1>5, <1>11, <1>12 DEF Stepping
        <2> QED
            BY <1>1, <1>12, <2>2, <2>3, <2>4 DEF Stepping
    <1>14. Ending'
        BY <1>1, <1>8, <1>12 DEF Ending
    <1> QED
        BY <1>1, <1>5, <1>8, <1>9, <1>11, <1>13, <1>14 DEF FinalInv

\* Short sequences.
LEMMA OneIs ==
    ASSUME NEW a, NEW q, q = <<a>>
    PROVE  q \in Seq(Final!ToSet(q)) /\ DOMAIN q = {1}
           /\ q[1] = a
    <1>1. q \in Seq({a}) /\ DOMAIN q = {1} /\ q[1] = a
        OBVIOUS
    <1>2. q \in Seq(Final!ToSet(q))
        <2> DEFINE V == {a}
        <2>1. q \in Seq(V)
            BY <1>1
        <2> HIDE DEF V
        <2> QED
            BY <2>1, ElementsAre
    <1> QED
        BY <1>1, <1>2

LEMMA TwoAre ==
    ASSUME NEW a, NEW b, NEW q, q = <<a, b>>
    PROVE  q \in Seq(Final!ToSet(q)) /\ DOMAIN q = {1, 2}
           /\ q[1] = a /\ q[2] = b
    <1>1. q \in Seq({a, b}) /\ DOMAIN q = {1, 2} /\ q[1] = a /\ q[2] = b
        OBVIOUS
    <1>2. q \in Seq(Final!ToSet(q))
        <2> DEFINE V == {a, b}
        <2>1. q \in Seq(V)
            BY <1>1
        <2> HIDE DEF V
        <2> QED
            BY <2>1, ElementsAre
    <1> QED
        BY <1>1, <1>2

LEMMA ThreeAre ==
    ASSUME NEW a, NEW b, NEW c, NEW q, q = <<a, b, c>>
    PROVE  q \in Seq(Final!ToSet(q)) /\ DOMAIN q = {1, 2, 3}
           /\ q[1] = a /\ q[2] = b /\ q[3] = c
    <1>1. q \in Seq({a, b, c}) /\ DOMAIN q = {1, 2, 3} /\ q[1] = a /\ q[2] = b /\ q[3] = c
        OBVIOUS
    <1>2. q \in Seq(Final!ToSet(q))
        <2> DEFINE V == {a, b, c}
        <2>1. q \in Seq(V)
            BY <1>1
        <2> HIDE DEF V
        <2> QED
            BY <2>1, ElementsAre
    <1> QED
        BY <1>1, <1>2

LEMMA FourAre ==
    ASSUME NEW a, NEW b, NEW c, NEW d, NEW q, q = <<a, b, c, d>>
    PROVE  q \in Seq(Final!ToSet(q)) /\ DOMAIN q = {1, 2, 3, 4}
           /\ q[1] = a /\ q[2] = b /\ q[3] = c /\ q[4] = d
    <1>1. q \in Seq({a, b, c, d}) /\ DOMAIN q = {1, 2, 3, 4} /\ q[1] = a /\ q[2] = b /\ q[3] = c /\ q[4] = d
        OBVIOUS
    <1>2. q \in Seq(Final!ToSet(q))
        <2> DEFINE V == {a, b, c, d}
        <2>1. q \in Seq(V)
            BY <1>1
        <2> HIDE DEF V
        <2> QED
            BY <2>1, ElementsAre
    <1> QED
        BY <1>1, <1>2

\* No write is to be made, and faults only excuse.
LEMMA NothingQueued ==
    ASSUME NEW d, NEW m, NEW s, NEW v, NEW t
    PROVE  Queued(<<>>, d, m, s, v, t) /\ \A f : Due(f, d, <<>>) <=> d[f] # Final!None
    <1>1. DOMAIN <<>> = {} /\ \A V : <<>> \in Seq(V)
        OBVIOUS
    <1> QED
        BY <1>1 DEF Queued, Due

LEMMA FaultExcuses ==
    ASSUME NEW d, NEW m, NEW s, NEW v, NEW g \in Nat, Agreed(d, m, s, v, g)
    PROVE  Agreed(d, m, s, v, g + 1) /\ g + 1 \in Nat /\ g + 1 # 0
    <1>1. g + 1 \in Nat /\ g + 1 # 0
        OBVIOUS
    <1> QED
        BY <1>1 DEF Agreed

LEMMA WriteFailsStep == ASSUME FinalInv, Final!WriteFails PROVE FinalInv'
    <1>1. /\ writes # <<>> /\ faults' = faults + 1 /\ writes' = <<>> /\ step' = "raise"
          /\ mode' = mode /\ task' = task /\ said' = said /\ verdict' = verdict
          /\ disk' = disk /\ crashed' = crashed
        BY DEF Final!WriteFails
    <1>2. Stepping /\ Ending /\ faults \in Nat /\ Agreed(disk, mode, said, verdict, faults)
        BY DEF FinalInv
    <1>3. faults' \in Nat /\ faults' # 0 /\ Agreed(disk, mode, said, verdict, faults')
        BY <1>1, <1>2, FaultExcuses
    <1>4. ~crashed
        BY <1>1, <1>2 DEF Stepping
    <1>5. Stepping' /\ Ending'
        BY <1>1, <1>3, <1>4 DEF Stepping, Ending
    <1> QED
        BY <1>1, <1>3, <1>5, NothingQueued DEF FinalInv, Steps

LEMMA ComposesStep == ASSUME FinalInv, Final!Composes PROVE FinalInv'
    <1>1. /\ writes = <<>> /\ step = "write" /\ step' = "compose"
          /\ mode = "structured" /\ verdict.valid
          /\ mode' = mode /\ task' = task /\ said' = said /\ verdict' = verdict /\ writes' = writes
          /\ disk' = disk /\ faults' = faults /\ crashed' = crashed
        BY DEF Final!Composes
    <1>2. Stepping /\ Ending
        BY DEF FinalInv
    <1>3. Due("result", disk, <<>>) /\ Due("final", disk, <<>>)
        BY <1>1, <1>2 DEF Stepping
    <1>4. Stepping' /\ Ending'
        BY <1>1, <1>2, <1>3 DEF Stepping, Ending
    <1> QED
        BY <1>1, <1>4 DEF FinalInv, Steps

LEMMA ComposeStep == ASSUME FinalInv, Final!Compose PROVE FinalInv'
    <1>1. /\ step = "compose" /\ step' = "patch"
          /\ mode' = mode /\ task' = task /\ said' = said /\ verdict' = verdict
          /\ disk' = disk /\ faults' = faults /\ crashed' = crashed
        BY DEF Final!Compose
    <1>2. Stepping /\ Ending
        BY DEF FinalInv
    <1>3. /\ mode = "structured" /\ verdict.valid /\ disk["result"] # Final!None
          /\ Due("result", disk, <<>>) /\ Due("final", disk, <<>>)
        BY <1>1, <1>2, NothingQueued DEF Stepping
    <1>4. PICK report \in Reports \cup {Final!Garbage} :
             writes' = IF report # Final!Garbage /\ Final!ValidReport(report, verdict.payload)
                       THEN <<Final!Put("report", report), Final!Put("patch", report),
                              Final!Put("meta", Final!Result(TRUE, "report")),
                              Final!Put("patch", report)>>
                       ELSE <<Final!Put("error", Final!Result(FALSE, "report")),
                              Final!Put("patch", Final!None)>>
        BY DEF Final!Compose
    <1>5. \A file, content : Final!Put(file, content).file = file
                             /\ Final!Put(file, content).content = content
        BY DEF Final!Put
    <1>6. CASE report # Final!Garbage /\ Final!ValidReport(report, verdict.payload)
        <2>1. PICK q : q = <<Final!Put("report", report), Final!Put("patch", report),
                             Final!Put("meta", Final!Result(TRUE, "report")),
                             Final!Put("patch", report)>>
            OBVIOUS
        <2>2. /\ q \in Seq(Final!ToSet(q)) /\ DOMAIN q = {1, 2, 3, 4}
              /\ q[1].file = "report" /\ q[1].content = report
              /\ q[2].file = "patch" /\ q[3].file = "meta" /\ q[4].file = "patch"
            <3>1. PICK a, b, c : /\ a = Final!Put("report", report) /\ b = Final!Put("patch", report)
                                 /\ c = Final!Put("meta", Final!Result(TRUE, "report"))
                OBVIOUS
            <3>2. q = <<a, b, c, b>>
                BY <2>1, <3>1
            <3>3. /\ q \in Seq(Final!ToSet(q)) /\ DOMAIN q = {1, 2, 3, 4}
                  /\ q[1] = a /\ q[2] = b /\ q[3] = c /\ q[4] = b
                BY <3>2, FourAre
            <3> QED
                BY <3>1, <3>3 DEF Final!Put
        <2>3. \A i \in DOMAIN q : Right(q[i], mode, said, verdict, task)
            BY <1>3, <1>6, <2>2 DEF Right, Final!Files
        <2>4. Queued(q, disk, mode, said, verdict, task)
            BY <1>3, <2>2, <2>3 DEF Queued
        <2>5. writes' = q /\ \A i \in DOMAIN q : q[i].file # "task"
            BY <1>4, <1>6, <2>1, <2>2
        <2>6. Stepping' /\ Ending'
            BY <1>1, <1>2, <1>3, <2>5 DEF Stepping, Ending
        <2> QED
            BY <1>1, <2>4, <2>5, <2>6 DEF FinalInv, Steps
    <1>7. CASE ~(report # Final!Garbage /\ Final!ValidReport(report, verdict.payload))
        <2>1. PICK q : q = <<Final!Put("error", Final!Result(FALSE, "report")),
                             Final!Put("patch", Final!None)>>
            OBVIOUS
        <2>2. /\ q \in Seq(Final!ToSet(q)) /\ DOMAIN q = {1, 2}
              /\ q[1].file = "error" /\ q[2].file = "patch"
            <3>1. PICK a, b : /\ a = Final!Put("error", Final!Result(FALSE, "report"))
                              /\ b = Final!Put("patch", Final!None)
                OBVIOUS
            <3>2. q = <<a, b>>
                BY <2>1, <3>1
            <3>3. q \in Seq(Final!ToSet(q)) /\ DOMAIN q = {1, 2} /\ q[1] = a /\ q[2] = b
                BY <3>2, TwoAre
            <3> QED
                BY <3>1, <3>3 DEF Final!Put
        <2>3. \A i \in DOMAIN q : Right(q[i], mode, said, verdict, task)
            BY <1>3, <2>2 DEF Right, Final!Files
        <2>4. Queued(q, disk, mode, said, verdict, task)
            BY <1>3, <2>2, <2>3 DEF Queued
        <2>5. writes' = q /\ \A i \in DOMAIN q : q[i].file # "task"
            BY <1>4, <1>7, <2>1, <2>2
        <2>6. Stepping' /\ Ending'
            BY <1>1, <1>2, <1>3, <2>5 DEF Stepping, Ending
        <2> QED
            BY <1>1, <2>4, <2>5, <2>6 DEF FinalInv, Steps
    <1> QED
        BY <1>6, <1>7

-----------------------------------------------------------------------------
(* Finalizer: the end.                                                     *)

LEMMA FinishFinalStep == ASSUME FinalInv, Final!Finish PROVE FinalInv'
    <1>1. /\ writes = <<>> /\ step \in {"write", "patch"} /\ step' = "end"
          /\ task' = Final!Settled(verdict.valid) /\ writes' = <<Final!Put("task", task')>>
          /\ mode' = mode /\ said' = said /\ verdict' = verdict
          /\ disk' = disk /\ faults' = faults /\ crashed' = crashed
        BY DEF Final!Finish
    <1>2. /\ Stepping /\ Ending /\ Agreed(disk, mode, said, verdict, faults)
          /\ verdict.valid \in BOOLEAN
        BY DEF FinalInv, Judgement
    <1>3. disk["result"] # Final!None /\ (verdict.valid => disk["final"] # Final!None)
        BY <1>1, <1>2, NothingQueued DEF Stepping
    <1>4. PICK t : t = Final!Settled(verdict.valid)
        OBVIOUS
    <1>5. PICK q : q = <<Final!Put("task", t)>>
        OBVIOUS
    <1>6. /\ q \in Seq(Final!ToSet(q)) /\ DOMAIN q = {1}
          /\ q[1].file = "task" /\ q[1].content = t
        BY <1>5, OneIs DEF Final!Put
    <1>7. Right(q[1], mode, said, verdict, t)
        BY <1>6 DEF Right, Final!Files
    <1>8. Queued(q, disk, mode, said, verdict, t)
        BY <1>6, <1>7 DEF Queued
    <1>9. writes' = q /\ task' = t
        BY <1>1, <1>4, <1>5
    <1>10. t \in Final!Terminal /\ (t = "COMPLETED" => verdict.valid)
        BY <1>4 DEF Final!Settled, Final!Terminal
    <1>11. ~crashed
        BY <1>1, <1>2 DEF Stepping
    <1>12. faults = 0 => Ended(disk, t)
        BY <1>2, <1>3, <1>4, <1>10 DEF Agreed, Ended, Completed
    <1>13. Stepping'
        BY <1>1, <1>6, <1>9, <1>11 DEF Stepping
    <1>14. Ending'
        BY <1>1, <1>2, <1>9, <1>10, <1>11, <1>12 DEF Ending
    <1> QED
        BY <1>1, <1>8, <1>9, <1>13, <1>14 DEF FinalInv, Steps

LEMMA FinishRaisesStep == ASSUME FinalInv, Final!FinishRaises PROVE FinalInv'
    <1>1. /\ writes = <<>> /\ faults' = faults + 1 /\ writes' = writes /\ step' = "raise"
          /\ step \in {"write", "patch"}
          /\ mode' = mode /\ said' = said /\ verdict' = verdict
          /\ disk' = disk /\ crashed' = crashed
        BY DEF Final!FinishRaises
    <1>2. Stepping /\ Ending /\ faults \in Nat /\ Agreed(disk, mode, said, verdict, faults)
        BY DEF FinalInv
    <1>3. faults' \in Nat /\ faults' # 0 /\ Agreed(disk, mode, said, verdict, faults')
        BY <1>1, <1>2, FaultExcuses
    <1>4. ~crashed
        BY <1>1, <1>2 DEF Stepping
    <1>5. Stepping' /\ Ending'
        BY <1>1, <1>3, <1>4 DEF Stepping, Ending
    <1> QED
        BY <1>1, <1>3, <1>5, NothingQueued DEF FinalInv, Steps

LEMMA WorkerFailsStep == ASSUME FinalInv, Final!WorkerFails PROVE FinalInv'
    <1>1. /\ step = "raise" /\ step' = "end"
          /\ task' = IF task \in Final!Terminal THEN task ELSE "FAILED"
          /\ writes' = <<Final!Put("error", Final!Result(FALSE, "worker")), Final!Put("task", task')>>
          /\ mode' = mode /\ said' = said /\ verdict' = verdict
          /\ disk' = disk /\ faults' = faults /\ crashed' = crashed
        BY DEF Final!WorkerFails
    <1>2. Stepping /\ Ending
        BY DEF FinalInv
    <1>3. faults = 0 => task \notin Final!Terminal /\ disk["result"] = Final!None
        BY <1>1, <1>2 DEF Stepping
    <1>4. PICK t : t = IF task \in Final!Terminal THEN task ELSE "FAILED"
        OBVIOUS
    <1>5. PICK q : q = <<Final!Put("error", Final!Result(FALSE, "worker")), Final!Put("task", t)>>
        OBVIOUS
    <1>6. /\ q \in Seq(Final!ToSet(q)) /\ DOMAIN q = {1, 2}
          /\ q[1].file = "error" /\ q[2].file = "task" /\ q[2].content = t
        <2>1. PICK a, b : /\ a = Final!Put("error", Final!Result(FALSE, "worker"))
                          /\ b = Final!Put("task", t)
            OBVIOUS
        <2>2. q = <<a, b>>
            BY <1>5, <2>1
        <2>3. q \in Seq(Final!ToSet(q)) /\ DOMAIN q = {1, 2} /\ q[1] = a /\ q[2] = b
            BY <2>2, TwoAre
        <2> QED
            BY <2>1, <2>3 DEF Final!Put
    <1>7. \A i \in DOMAIN q : Right(q[i], mode, said, verdict, t)
        BY <1>6 DEF Right, Final!Files
    <1>8. Queued(q, disk, mode, said, verdict, t)
        BY <1>6, <1>7 DEF Queued
    <1>9. writes' = q /\ task' = t
        BY <1>1, <1>4, <1>5
    <1>10. t \in Final!Terminal
        BY <1>4 DEF Final!Terminal
    <1>11. faults = 0 => Ended(disk, t)
        BY <1>3, <1>4 DEF Ended
    <1>12. ~crashed
        BY <1>1, <1>2 DEF Stepping
    <1>13. Stepping'
        BY <1>1, <1>6, <1>9, <1>12 DEF Stepping
    <1>14. Ending'
        BY <1>1, <1>2, <1>9, <1>10, <1>11, <1>12 DEF Ending
    <1> QED
        BY <1>1, <1>8, <1>9, <1>13, <1>14 DEF FinalInv, Steps

LEMMA CrashStep == ASSUME FinalInv, Final!Crash PROVE FinalInv'
    <1>1. /\ crashed' = TRUE /\ step' = "down" /\ writes' = <<>>
          /\ mode' = mode /\ task' = task /\ said' = said /\ verdict' = verdict
          /\ disk' = disk /\ faults' = faults
        BY DEF Final!Crash
    <1>2. Stepping' /\ Ending'
        BY <1>1 DEF FinalInv, Stepping, Ending
    <1> QED
        BY <1>1, <1>2, NothingQueued DEF FinalInv, Steps

LEMMA RestartStep == ASSUME FinalInv, Final!Restart PROVE FinalInv'
    <1>1. /\ step = "down" /\ step' = "end" /\ writes' = writes
          /\ disk' = [disk EXCEPT !["task"] = Final!Reconciled(@)]
          /\ mode' = mode /\ said' = said /\ verdict' = verdict
          /\ faults' = faults /\ crashed' = crashed
        BY DEF Final!Restart
    <1>2. Stepping /\ Ending /\ Agreed(disk, mode, said, verdict, faults)
        BY DEF FinalInv
    <1>3. crashed /\ writes = <<>>
        BY <1>1, <1>2 DEF Stepping
    <1>4. /\ disk' = [f \in Final!Files |-> disk'[f]] /\ disk'["task"] = Final!Reconciled(disk["task"])
          /\ \A f \in Final!Files \ {"task"} : disk'[f] = disk[f]
        BY <1>1, <1>2 DEF Agreed, Final!Files
    <1>5. Final!Reconciled(disk["task"]) = "COMPLETED" => disk["task"] = "COMPLETED"
        BY DEF Final!Reconciled
    <1>6. Agreed(disk', mode, said, verdict, faults) /\ (Completed(disk) => Completed(disk'))
        BY <1>2, <1>4 DEF Agreed, Completed, Final!Files
    <1>7. Stepping'
        BY <1>1, <1>3, NothingQueued DEF Stepping
    <1>8. Ending'
        BY <1>1, <1>2, <1>3, <1>4, <1>5, <1>6 DEF Ending
    <1> QED
        BY <1>1, <1>3, <1>6, <1>7, <1>8, NothingQueued DEF FinalInv, Steps

-----------------------------------------------------------------------------
(* Finalizer: the writes an answer leads to.                               *)

Opened(q, d, m, s, v, t) ==
    /\ Queued(q, d, m, s, v, t)
    /\ Due("result", d, q) /\ (v.valid => Due("final", d, q))
    /\ \A i \in DOMAIN q : q[i].file # "task"

Opening(v, c, cause) ==
    IF v.valid
    THEN <<Final!Put("claims", c), Final!Put("answer", Final!None),
           Final!Put("result", Final!Result(TRUE, cause)),
           Final!Put("final", [lines |-> Final!Rendered(v.payload)])>>
    ELSE IF c = Final!None THEN <<Final!Put("result", Final!Result(FALSE, cause))>>
    ELSE <<Final!Put("claims", c), Final!Put("result", Final!Result(FALSE, cause))>>

LEMMA ClaimsOpen ==
    ASSUME NEW m \in {"structured", "payload"}, NEW s, NEW v, NEW d, NEW t, NEW c, NEW cause,
           Judgement(m, s, v), v.valid => c = Source(m, s, v) /\ c # Final!None
    PROVE  Opened(Opening(v, c, cause), d, m, s, v, t)
    <1>1. PICK q : q = Opening(v, c, cause)
        OBVIOUS
    <1>2. PICK x, y, z, u :
             /\ x = Final!Put("claims", c) /\ y = Final!Put("answer", Final!None)
             /\ z = Final!Put("result", Final!Result(v.valid, cause))
             /\ u = Final!Put("final", [lines |-> Final!Rendered(v.payload)])
        OBVIOUS
    <1>3. /\ x.file = "claims" /\ x.content = c /\ y.file = "answer" /\ z.file = "result"
          /\ z.content = Final!Result(v.valid, cause)
          /\ u.file = "final" /\ u.content = [lines |-> Final!Rendered(v.payload)]
        BY <1>2 DEF Final!Put
    <1>4. v.valid \in BOOLEAN /\ Claiming(m)
        BY DEF Judgement, Claiming
    <1>5. Right(z, m, s, v, t)
        <2>1. /\ Shape(z.content) /\ z.content # Final!None
              /\ z.content.valid = v.valid /\ z.content.state = Final!Settled(v.valid)
              /\ z.content.answer = Final!None
            BY <1>3, ThereIs
        <2> QED
            BY <1>3, <2>1 DEF Right, Final!Files
    <1>6. v.valid => Right(y, m, s, v, t) /\ Right(u, m, s, v, t)
        <2>1. u.content # Final!None
            BY <1>3, ThereIs
        <2> QED
            BY <1>3, <1>4, <2>1 DEF Right, Final!Files
    <1>7. c # Final!None => Right(x, m, s, v, t)
        BY <1>3, <1>4 DEF Right, Final!Files
    <1>8. CASE v.valid
        <2>1. q = <<x, y, z, u>>
            BY <1>1, <1>2, <1>4, <1>8 DEF Opening
        <2>2. /\ q \in Seq(Final!ToSet(q)) /\ DOMAIN q = {1, 2, 3, 4}
              /\ q[1] = x /\ q[2] = y /\ q[3] = z /\ q[4] = u
            BY <2>1, FourAre
        <2>3. \A i \in DOMAIN q : Right(q[i], m, s, v, t)
            BY <1>5, <1>6, <1>7, <1>8, <2>2
        <2>4. Before(2, "claims", d, q) /\ Before(3, "answer", d, q)
            BY <1>3, <2>2 DEF Before
        <2>5. Queued(q, d, m, s, v, t)
            BY <1>3, <2>2, <2>3, <2>4 DEF Queued
        <2>6. Due("result", d, q) /\ Due("final", d, q) /\ \A i \in DOMAIN q : q[i].file # "task"
            BY <1>3, <2>2 DEF Due
        <2> QED
            BY <1>1, <2>5, <2>6 DEF Opened
    <1>9. CASE ~v.valid /\ c # Final!None
        <2>1. q = <<x, z>>
            BY <1>1, <1>2, <1>4, <1>9 DEF Opening
        <2>2. q \in Seq(Final!ToSet(q)) /\ DOMAIN q = {1, 2} /\ q[1] = x /\ q[2] = z
            BY <2>1, TwoAre
        <2>3. \A i \in DOMAIN q : Right(q[i], m, s, v, t)
            BY <1>5, <1>7, <1>9, <2>2
        <2>4. Queued(q, d, m, s, v, t)
            BY <1>3, <1>9, <2>2, <2>3 DEF Queued
        <2>5. Due("result", d, q) /\ \A i \in DOMAIN q : q[i].file # "task"
            BY <1>3, <2>2 DEF Due
        <2> QED
            BY <1>1, <1>9, <2>4, <2>5 DEF Opened
    <1>10. CASE ~v.valid /\ c = Final!None
        <2>1. q = <<z>>
            BY <1>1, <1>2, <1>4, <1>10 DEF Opening
        <2>2. q \in Seq(Final!ToSet(q)) /\ DOMAIN q = {1} /\ q[1] = z
            BY <2>1, OneIs
        <2>3. \A i \in DOMAIN q : Right(q[i], m, s, v, t)
            BY <1>5, <2>2
        <2>4. Queued(q, d, m, s, v, t)
            BY <1>3, <1>10, <2>2, <2>3 DEF Queued
        <2>5. Due("result", d, q) /\ \A i \in DOMAIN q : q[i].file # "task"
            BY <1>3, <2>2 DEF Due
        <2> QED
            BY <1>1, <1>10, <2>4, <2>5 DEF Opened
    <1> QED
        BY <1>8, <1>9, <1>10

\* One sequence after another.
LEMMA Joined ==
    ASSUME NEW V, NEW p \in Seq(V), NEW q \in Seq(V)
    PROVE  /\ p \o q \in Seq(V) /\ Len(p \o q) = Len(p) + Len(q)
           /\ \A i \in 1 .. Len(p) : (p \o q)[i] = p[i]
           /\ \A i \in 1 .. Len(q) : (p \o q)[Len(p) + i] = q[i]
    <1>1. /\ p \o q \in Seq(V) /\ Len(p) \in Nat /\ Len(q) \in Nat
          /\ DOMAIN p = 1 .. Len(p) /\ DOMAIN q = 1 .. Len(q)
          /\ DOMAIN (p \o q) = 1 .. Len(p) + Len(q)
          /\ \A i \in 1 .. Len(p) : (p \o q)[i] = p[i]
        OBVIOUS
    <1>2. \A i \in 1 .. Len(q) : (p \o q)[Len(p) + i] = q[i] /\ Len(p) + i \in DOMAIN (p \o q)
        BY <1>1
    <1>3. Len(p \o q) = Len(p) + Len(q)
        BY <1>1
    <1> QED
        BY <1>1, <1>2, <1>3

LEMMA OneAndThree ==
    ASSUME NEW x, NEW y, NEW z, NEW u
    PROVE  <<x>> \o <<y, z, u>> = <<x, y, z, u>>
    <1>1. PICK p, q, V : p = <<x>> /\ q = <<y, z, u>> /\ V = {x, y, z, u}
        OBVIOUS
    <1>2. p \in Seq(V) /\ q \in Seq(V)
        BY <1>1
    <1>3. Len(p) = 1 /\ Len(q) = 3 /\ p[1] = x /\ q[1] = y /\ q[2] = z /\ q[3] = u
        BY <1>1
    <1>4. PICK r : r = p \o q
        OBVIOUS
    <1>5. /\ r \in Seq(V) /\ Len(r) = Len(p) + Len(q)
          /\ \A i \in 1 .. Len(p) : r[i] = p[i]
          /\ \A i \in 1 .. Len(q) : r[Len(p) + i] = q[i]
        BY <1>2, <1>4, Joined
    <1>6. Len(r) = 4 /\ r[1] = x /\ \A i \in 1 .. 3 : r[1 + i] = q[i]
        BY <1>3, <1>5
    <1>7. r[2] = y /\ r[3] = z /\ r[4] = u
        <2>1. 1 + 1 = 2 /\ 1 + 2 = 3 /\ 1 + 3 = 4
            OBVIOUS
        <2> QED
            BY <1>3, <1>6, <2>1
    <1>8. r \in Seq(V) /\ Len(r) = 4 /\ r[1] = x /\ r[2] = y /\ r[3] = z /\ r[4] = u
        BY <1>5, <1>6, <1>7
    <1>9. r = <<x, y, z, u>>
        BY <1>8
    <1> QED
        BY <1>1, <1>4, <1>9

LEMMA OneAndOne ==
    ASSUME NEW x, NEW z
    PROVE  <<x>> \o <<z>> = <<x, z>>
    <1>1. PICK p, q : p = <<x>> /\ q = <<z>>
        OBVIOUS
    <1>2. PICK V : V = {x, z}
        OBVIOUS
    <1>3. p \in Seq(V) /\ q \in Seq(V) /\ Len(p) = 1 /\ Len(q) = 1 /\ p[1] = x /\ q[1] = z
        BY <1>1, <1>2
    <1>4. PICK r : r = p \o q
        OBVIOUS
    <1>5. r \in Seq(V) /\ Len(r) = 2 /\ r[1] = x /\ r[1 + 1] = z
        BY <1>3, <1>4, Joined
    <1>6. r = <<x, z>>
        BY <1>5
    <1> QED
        BY <1>1, <1>4, <1>6

\* The two ways the writes of claims are put together.
LEMMA StructuredWritesAre ==
    ASSUME NEW v, v.valid \in BOOLEAN, v.valid => v.payload # Final!None
    PROVE  /\ Final!StructuredWrites(v) = Opening(v, v.payload, v.cause)
           /\ \A c : v.payload # Final!None /\ c # Final!None =>
                <<Final!Put("claims", c)>> \o Tail(Final!StructuredWrites(v))
                    = Opening(v, c, v.cause)
    <1>1. PICK x, y, z, u :
             /\ x = Final!Put("claims", v.payload) /\ y = Final!Put("answer", Final!None)
             /\ z = Final!Put("result", Final!Result(v.valid, v.cause))
             /\ u = Final!Put("final", [lines |-> Final!Rendered(v.payload)])
        OBVIOUS
    <1>2. /\ \A w : <<w>> \o <<y, z, u>> = <<w, y, z, u>> /\ <<w>> \o <<z>> = <<w, z>>
          /\ <<>> \o <<z>> = <<z>>
          /\ Tail(<<x, y, z, u>>) = <<y, z, u>> /\ Tail(<<x, z>>) = <<z>>
        <2>1. <<>> \o <<z>> = <<z>>
            OBVIOUS
        <2>2. Tail(<<x, y, z, u>>) = <<y, z, u>>
            OBVIOUS
        <2>3. Tail(<<x, z>>) = <<z>>
            OBVIOUS
        <2> QED
            BY <2>1, <2>2, <2>3, OneAndThree, OneAndOne
    <1>3. Final!StructuredWrites(v) =
            (IF v.payload = Final!None THEN <<>> ELSE <<x>>)
            \o (IF v.valid THEN <<y, z, u>> ELSE <<z>>)
        BY <1>1 DEF Final!StructuredWrites
    <1>4. Opening(v, v.payload, v.cause) =
            IF v.valid THEN <<x, y, z, u>>
            ELSE IF v.payload = Final!None THEN <<z>> ELSE <<x, z>>
        BY <1>1 DEF Opening
    <1>5. Final!StructuredWrites(v) = Opening(v, v.payload, v.cause)
        <2>1. CASE v.valid
            <3>1. Final!StructuredWrites(v) = <<x>> \o <<y, z, u>>
                BY <1>3, <2>1
            <3>2. <<x>> \o <<y, z, u>> = <<x, y, z, u>>
                BY <1>2
            <3> QED
                BY <1>4, <2>1, <3>1, <3>2
        <2>2. CASE ~v.valid /\ v.payload = Final!None
            <3>1. Final!StructuredWrites(v) = <<>> \o <<z>>
                BY <1>3, <2>2
            <3> QED
                BY <1>2, <1>4, <2>2, <3>1
        <2>3. CASE ~v.valid /\ v.payload # Final!None
            <3>1. Final!StructuredWrites(v) = <<x>> \o <<z>>
                BY <1>3, <2>3
            <3>2. <<x>> \o <<z>> = <<x, z>>
                BY <1>2
            <3> QED
                BY <1>4, <2>3, <3>1, <3>2
        <2> QED
            BY <2>1, <2>2, <2>3
    <1>6. ASSUME NEW c, v.payload # Final!None, c # Final!None
          PROVE  <<Final!Put("claims", c)>> \o Tail(Final!StructuredWrites(v))
                    = Opening(v, c, v.cause)
        <2>1. PICK w : w = Final!Put("claims", c)
            OBVIOUS
        <2>2. Final!StructuredWrites(v) = IF v.valid THEN <<x, y, z, u>> ELSE <<x, z>>
            BY <1>2, <1>3, <1>6
        <2>3. Opening(v, c, v.cause) = IF v.valid THEN <<w, y, z, u>> ELSE <<w, z>>
            BY <1>1, <1>6, <2>1 DEF Opening
        <2>4. <<w>> \o Tail(Final!StructuredWrites(v)) = Opening(v, c, v.cause)
            BY <1>2, <2>2, <2>3
        <2> QED
            BY <2>1, <2>4
    <1> QED
        BY <1>5, <1>6

LEMMA OpenStep ==
    ASSUME FinalInv, step = "ask", step' = "write", mode' = mode, disk' = disk,
           faults' = faults, crashed' = crashed,
           NEW q, writes' = q, NEW s, said' = s, NEW v, verdict' = v, NEW t, task' = t,
           Judgement(mode, s, v), Opened(q, disk, mode, s, v, t)
    PROVE  FinalInv'
    <1>1. Stepping /\ Ending /\ Agreed(disk, mode, said, verdict, faults)
        BY DEF FinalInv
    <1>2. /\ faults = 0 /\ ~crashed /\ disk["task"] \notin Final!Terminal
          /\ \A f \in Final!Files \ {"task"} : disk[f] = Final!None
        BY <1>1 DEF Stepping, Ending
    <1>3. Agreed(disk, mode, s, v, faults)
        BY <1>1, <1>2 DEF Agreed, Final!Files
    <1>4. Stepping'
        BY <1>2 DEF Stepping, Opened
    <1>5. Ending'
        BY <1>2 DEF Ending, Final!Terminal
    <1> QED
        BY <1>3, <1>4, <1>5 DEF FinalInv, Opened, Steps

LEMMA LoadFailsStep == ASSUME FinalInv, Final!LoadFails PROVE FinalInv'
    <1>1. /\ mode = "structured" /\ step = "ask" /\ step' = "write"
          /\ verdict' = Final!Rejected("media") /\ writes' = Final!StructuredWrites(verdict')
          /\ mode' = mode /\ task' = task /\ said' = said /\ disk' = disk
          /\ faults' = faults /\ crashed' = crashed
        BY DEF Final!LoadFails
    <1>2. PICK v : v = Final!Rejected("media")
        OBVIOUS
    <1>3. v.valid = FALSE /\ v.payload = Final!None
        BY <1>2 DEF Final!Rejected
    <1>4. Judgement(mode, said, v)
        BY <1>3 DEF FinalInv, Judgement
    <1>5. PICK q : q = Final!StructuredWrites(v)
        OBVIOUS
    <1>6. q = Opening(v, v.payload, v.cause)
        <2>1. v.valid \in BOOLEAN /\ (v.valid => v.payload # Final!None)
            BY <1>3
        <2> QED
            BY <1>5, <2>1, StructuredWritesAre
    <1>7. Opened(q, disk, mode, said, v, task)
        BY <1>1, <1>3, <1>4, <1>6, ClaimsOpen
    <1> QED
        BY <1>1, <1>2, <1>4, <1>5, <1>7, OpenStep

\* What the finalizer makes of a response.
LEMMA JudgedIs ==
    ASSUME NEW r, r.body \in Payloads \/ r.body = Final!Garbage
    PROVE  /\ Final!Judged(r).valid \in BOOLEAN
           /\ Final!Judged(r).valid =>
                /\ r.body \in Payloads /\ Final!Judged(r).payload = Final!Normalized(r.body)
                /\ Final!Valid(Final!Judged(r).payload)
           /\ Final!Judged(r).payload # Final!None => Claiming("structured")
    <1>1. \A cause : Final!Rejected(cause).valid = FALSE
        BY DEF Final!Rejected
    <1>2. Final!Valid(Final!Normalized(r.body)) \in BOOLEAN
        BY DEF Final!Valid
    <1>3. CASE ~r.sent \/ ~r.done \/ r.reason # "stop"
        <2>1. \E cause : Final!Judged(r) = Final!Rejected(cause)
            BY <1>3 DEF Final!Judged
        <2> QED
            BY <1>1, <2>1 DEF Claiming
    <1>4. CASE r.sent /\ r.done /\ r.reason = "stop"
        <2>1. Final!Judged(r) =
                IF r.body = Final!Garbage THEN Final!Rejected("parse")
                ELSE IF Final!Unhashable(r.body) THEN Final!Rejected("structure")
                ELSE [valid   |-> Final!Valid(Final!Normalized(r.body)),
                      payload |-> Final!Normalized(r.body),
                      cause   |-> "validation"]
            BY <1>4 DEF Final!Judged
        <2>2. CASE r.body = Final!Garbage \/ Final!Unhashable(r.body)
            <3>1. Final!Judged(r).valid = FALSE
                BY <1>1, <2>1, <2>2
            <3> QED
                BY <3>1 DEF Claiming
        <2>3. CASE r.body # Final!Garbage /\ ~Final!Unhashable(r.body)
            <3>1. /\ Final!Judged(r).valid = Final!Valid(Final!Normalized(r.body))
                  /\ Final!Judged(r).payload = Final!Normalized(r.body)
                BY <2>1, <2>3
            <3> QED
                BY <1>2, <2>3, <3>1 DEF Claiming
        <2> QED
            BY <2>2, <2>3
    <1> QED
        BY <1>3, <1>4

LEMMA AttemptStep == ASSUME FinalInv, Final!Attempt PROVE FinalInv'
    <1>1. /\ mode = "structured" /\ step = "ask"
          /\ mode' = mode /\ task' = task /\ disk' = disk
          /\ faults' = faults /\ crashed' = crashed
        BY DEF Final!Attempt
    <1>2. PICK r : Final!Answered(r) /\ (r.body \in Payloads \/ r.body = Final!Garbage)
        <2>1. ASSUME NEW r \in Final!Unusable PROVE r.body = Final!Garbage
            <3>1. \/ r \in [sent : {TRUE}, done : {TRUE}, reason : {"stop"}, body : {Final!Garbage}]
                  \/ r \in [sent : {TRUE}, done : BOOLEAN,
                            reason : {"length", "content_filter", "none"}, body : {Final!Garbage}]
                  \/ r = [sent |-> FALSE, done |-> FALSE, reason |-> "none", body |-> Final!Garbage]
                BY DEF Final!Unusable
            <3>2. CASE r \in [sent : {TRUE}, done : {TRUE}, reason : {"stop"}, body : {Final!Garbage}]
                <4>1. r.body \in {Final!Garbage}
                    BY <3>2
                <4> QED
                    BY <4>1
            <3>3. CASE r \in [sent : {TRUE}, done : BOOLEAN,
                              reason : {"length", "content_filter", "none"}, body : {Final!Garbage}]
                <4>1. r.body \in {Final!Garbage}
                    BY <3>3
                <4> QED
                    BY <4>1
            <3>4. CASE r = [sent |-> FALSE, done |-> FALSE, reason |-> "none", body |-> Final!Garbage]
                BY <3>4
            <3> QED
                BY <3>1, <3>2, <3>3, <3>4
        <2>2. CASE \E p \in Payloads :
                     Final!Answered([sent |-> TRUE, done |-> TRUE, reason |-> "stop", body |-> p])
            BY <2>2
        <2>3. CASE \E r \in Final!Unusable : Final!Answered(r)
            BY <2>1, <2>3
        <2> QED
            BY <2>2, <2>3 DEF Final!Attempt
    <1>3. PICK v : v = Final!Judged(r)
        OBVIOUS
    <1>4. \/ said' = said /\ verdict' = verdict /\ step' = step /\ writes' = writes
          \/ /\ said' = IF r.body = Final!Garbage THEN Final!None ELSE r.body
             /\ verdict' = v /\ step' = "write" /\ writes' = Final!StructuredWrites(v)
        BY <1>2, <1>3 DEF Final!Answered
    <1>5. CASE said' = said /\ verdict' = verdict /\ step' = step /\ writes' = writes
        BY <1>1, <1>5 DEF FinalInv, Stepping, Ending
    <1>6. CASE /\ said' = IF r.body = Final!Garbage THEN Final!None ELSE r.body
               /\ verdict' = v /\ step' = "write" /\ writes' = Final!StructuredWrites(v)
        <2>1. /\ v.valid \in BOOLEAN
              /\ v.valid => /\ r.body \in Payloads /\ v.payload = Final!Normalized(r.body)
                            /\ Final!Valid(v.payload)
            BY <1>2, <1>3, JudgedIs
        <2>2. PICK s : s = IF r.body = Final!Garbage THEN Final!None ELSE r.body
            OBVIOUS
        <2>3. r.body \in Payloads => /\ r.body # Final!Garbage
                                     /\ Final!Normalized(r.body) \in AnyAnswer
                                     /\ Final!Normalized(r.body) # Final!None
            BY FinalAssumed, ThereIs, NormalizedIs
        <2>4. Judgement(mode, s, v)
            BY <1>1, <1>2, <2>1, <2>2, <2>3 DEF Judgement, Claiming
        <2>5. PICK q : q = Final!StructuredWrites(v)
            OBVIOUS
        <2>6. v.valid => v.payload # Final!None /\ v.payload = Source(mode, s, v)
            BY <1>1, <2>1, <2>3 DEF Source
        <2>7. q = Opening(v, v.payload, v.cause)
            BY <2>1, <2>5, <2>6, StructuredWritesAre
        <2>8. Opened(q, disk, mode, s, v, task)
            BY <1>1, <2>4, <2>6, <2>7, ClaimsOpen
        <2> QED
            BY <1>1, <1>6, <2>2, <2>4, <2>5, <2>8, OpenStep
    <1> QED
        BY <1>4, <1>5, <1>6

LEMMA FinishPayloadStep == ASSUME FinalInv, Final!FinishPayload PROVE FinalInv'
    <1>1. /\ mode = "payload" /\ step = "ask"
          /\ mode' = mode /\ task' = task /\ disk' = disk
          /\ faults' = faults /\ crashed' = crashed
        BY DEF Final!FinishPayload
    <1>2. PICK p \in Payloads :
             /\ said' = p
             /\ IF Final!Unhashable(p)
                THEN step' = "raise" /\ verdict' = verdict /\ writes' = writes
                ELSE /\ verdict' = [valid   |-> Final!Valid(Final!Normalized(p)),
                                    payload |-> Final!Normalized(p),
                                    cause   |-> "validation"]
                     /\ step' = "write"
                     /\ writes' = <<Final!Put("claims", p)>>
                                     \o Tail(Final!StructuredWrites(verdict'))
        BY DEF Final!FinishPayload
    <1>3. p \in AnyAnswer /\ p # Final!None /\ Final!Normalized(p) \in AnyAnswer
          /\ Final!Normalized(p) # Final!None
        BY FinalAssumed, ThereIs, NormalizedIs
    <1>4. CASE Final!Unhashable(p)
        <2>1. step' = "raise" /\ verdict' = verdict /\ writes' = writes
            BY <1>2, <1>4
        <2>2. /\ Stepping /\ Ending /\ Agreed(disk, mode, said, verdict, faults)
              /\ Judgement(mode, said, verdict) 
            BY DEF FinalInv
        <2>3. /\ writes = <<>> /\ faults = 0 /\ ~verdict.valid /\ ~crashed
              /\ task \notin Final!Terminal /\ disk["task"] \notin Final!Terminal
              /\ \A f \in Final!Files \ {"task"} : disk[f] = Final!None
              /\ disk["result"] = Final!None
            BY <1>1, <2>2 DEF Stepping, Ending
        <2>4. Judgement(mode, p, verdict)
            BY <1>1, <2>2, <2>3 DEF Judgement, Claiming
        <2>5. Agreed(disk, mode, p, verdict, faults)
            BY <2>2, <2>3 DEF Agreed, Final!Files
        <2>6. Stepping' /\ Ending'
            BY <1>1, <2>1, <2>3 DEF Stepping, Ending, Final!Terminal
        <2> QED
            BY <1>1, <1>2, <2>1, <2>3, <2>4, <2>5, <2>6, NothingQueued DEF FinalInv, Steps
    <1>5. CASE ~Final!Unhashable(p)
        <2>1. PICK v : v = [valid   |-> Final!Valid(Final!Normalized(p)),
                            payload |-> Final!Normalized(p),
                            cause   |-> "validation"]
            OBVIOUS
        <2>2. Final!Valid(Final!Normalized(p)) \in BOOLEAN
            BY DEF Final!Valid
        <2>3. /\ v.valid \in BOOLEAN /\ v.payload = Final!Normalized(p) /\ v.payload # Final!None
              /\ v.valid => Final!Valid(v.payload)
            BY <1>3, <2>1, <2>2
        <2>4. Judgement(mode, p, v)
            BY <1>1, <2>3 DEF Judgement, Claiming
        <2>5. PICK q : q = <<Final!Put("claims", p)>> \o Tail(Final!StructuredWrites(v))
            OBVIOUS
        <2>6. q = Opening(v, p, v.cause)
            BY <1>3, <2>3, <2>5, StructuredWritesAre
        <2>7. Opened(q, disk, mode, p, v, task)
            BY <1>1, <1>3, <2>4, <2>6, ClaimsOpen DEF Source
        <2> QED
            BY <1>1, <1>2, <1>5, <2>1, <2>4, <2>5, <2>7, OpenStep
    <1> QED
        BY <1>4, <1>5

\* A plain text.
LEMMA PublishStep ==
    ASSUME FinalInv, mode \in {"text", "native"}, step = "ask", NEW draft \in Final!Drafts,
           Final!Publish(draft)
    PROVE  FinalInv'
    <1>1. PICK v, q : /\ v = [valid |-> Final!Complete(draft), payload |-> Final!None,
                              cause |-> Final!Status(draft)]
                      /\ q = Final!TextWrites(draft)
        OBVIOUS
    <1>2. /\ verdict' = v /\ writes' = q /\ task' = "FINALIZING" /\ step' = "write"
          /\ mode' = mode /\ said' = said /\ disk' = disk /\ faults' = faults /\ crashed' = crashed
        BY <1>1 DEF Final!Publish
    <1>3. v.valid \in BOOLEAN /\ v.valid = Final!Complete(draft) /\ ~Claiming(mode)
        BY <1>1 DEF Final!Complete, Final!Drafts, Claiming
    <1>4. Judgement(mode, said, v)
        BY <1>3 DEF Judgement, FinalInv
    <1>5. PICK x, y, z, u :
             /\ x = Final!Put("result", Final!Result(v.valid, Final!Status(draft)))
             /\ y = Final!Put("report", [text |-> draft.text])
             /\ z = Final!Put("final", [text |-> draft.text])
             /\ u = Final!Put("meta", Final!Result(v.valid, Final!Status(draft)))
        OBVIOUS
    <1>6. q = <<x, y, z, u>>
        BY <1>1, <1>3, <1>5 DEF Final!TextWrites
    <1>7. /\ q \in Seq(Final!ToSet(q)) /\ DOMAIN q = {1, 2, 3, 4}
          /\ q[1] = x /\ q[2] = y /\ q[3] = z /\ q[4] = u
        BY <1>6, FourAre
    <1>8. /\ x.file = "result" /\ x.content = Final!Result(v.valid, Final!Status(draft))
          /\ y.file = "report" /\ z.file = "final" /\ z.content = [text |-> draft.text]
          /\ u.file = "meta"
        BY <1>5 DEF Final!Put
    <1>9. Right(x, mode, said, v, "FINALIZING")
        <2>1. /\ Shape(x.content) /\ x.content # Final!None
              /\ x.content.valid = v.valid /\ x.content.state = Final!Settled(v.valid)
              /\ x.content.answer = Final!None
            BY <1>8, ThereIs
        <2> QED
            BY <1>8, <2>1 DEF Right, Final!Files
    <1>10. Right(z, mode, said, v, "FINALIZING")
        <2>1. z.content # Final!None
            BY <1>8, ThereIs
        <2> QED
            BY <1>3, <1>8, <2>1 DEF Right, Final!Files
    <1>11. Right(y, mode, said, v, "FINALIZING") /\ Right(u, mode, said, v, "FINALIZING")
        BY <1>3, <1>8 DEF Right, Final!Files
    <1>12. \A i \in DOMAIN q : Right(q[i], mode, said, v, "FINALIZING")
        BY <1>7, <1>9, <1>10, <1>11
    <1>13. Queued(q, disk, mode, said, v, "FINALIZING")
        BY <1>3, <1>7, <1>8, <1>12 DEF Queued
    <1>14. Due("result", disk, q) /\ Due("final", disk, q) /\ \A i \in DOMAIN q : q[i].file # "task"
        BY <1>7, <1>8 DEF Due
    <1>15. Opened(q, disk, mode, said, v, "FINALIZING")
        BY <1>13, <1>14 DEF Opened
    <1> QED
        BY <1>2, <1>4, <1>15, OpenStep

LEMMA ConversationStep == ASSUME FinalInv, Final!FinishConversation PROVE FinalInv'
    <1>1. PICK v, q : /\ v = [valid |-> TRUE, payload |-> Final!None, cause |-> "conversation"]
                      /\ q = <<Final!Put("result", Final!Result(TRUE, "conversation")),
                               Final!Put("final", [text |-> "fits"])>>
        OBVIOUS
    <1>2. /\ verdict' = v /\ writes' = q /\ task' = task /\ step' = "write"
          /\ mode = "conversation" /\ step = "ask"
          /\ mode' = mode /\ said' = said /\ disk' = disk /\ faults' = faults /\ crashed' = crashed
        BY <1>1 DEF Final!FinishConversation
    <1>3. v.valid = TRUE /\ ~Claiming(mode)
        BY <1>1, <1>2 DEF Claiming
    <1>4. Judgement(mode, said, v)
        BY <1>3 DEF Judgement, FinalInv
    <1>5. PICK x, z : /\ x = Final!Put("result", Final!Result(TRUE, "conversation"))
                      /\ z = Final!Put("final", [text |-> "fits"])
        OBVIOUS
    <1>6. q = <<x, z>>
        BY <1>1, <1>5
    <1>7. /\ q \in Seq(Final!ToSet(q)) /\ DOMAIN q = {1, 2} /\ q[1] = x /\ q[2] = z
        BY <1>6, TwoAre
    <1>8. /\ x.file = "result" /\ x.content = Final!Result(TRUE, "conversation")
          /\ z.file = "final" /\ z.content = [text |-> "fits"]
        BY <1>5 DEF Final!Put
    <1>9. Right(x, mode, said, v, task)
        <2>1. /\ Shape(x.content) /\ x.content # Final!None
              /\ x.content.valid = v.valid /\ x.content.state = Final!Settled(v.valid)
              /\ x.content.answer = Final!None
            <3>1. /\ Shape(x.content) /\ x.content # Final!None
                  /\ x.content.valid = TRUE /\ x.content.state = Final!Settled(TRUE)
                  /\ x.content.answer = Final!None
                <4>1. x.content = [valid |-> TRUE, state |-> "COMPLETED", answer |-> Final!None,
                                   report |-> Final!None, body |-> "conversation"]
                    BY <1>8 DEF Final!Result
                <4>2. Shape(x.content) /\ x.content.valid = TRUE /\ x.content.state = "COMPLETED"
                      /\ x.content.answer = Final!None
                    BY <4>1 DEF Shape
                <4>3. Final!Settled(TRUE) = "COMPLETED"
                    BY DEF Final!Settled
                <4> QED
                    BY <4>2, <4>3, ThereIs
            <3>2. Final!Settled(TRUE) = Final!Settled(v.valid)
                BY <1>3 DEF Final!Settled
            <3> QED
                BY <1>3, <3>1, <3>2
        <2> QED
            BY <1>8, <2>1 DEF Right, Final!Files
    <1>10. Right(z, mode, said, v, task)
        <2>1. z.content # Final!None
            BY <1>8, ThereIs
        <2> QED
            BY <1>3, <1>8, <2>1 DEF Right, Final!Files
    <1>11. Queued(q, disk, mode, said, v, task)
        BY <1>3, <1>7, <1>8, <1>9, <1>10 DEF Queued
    <1>12. Due("result", disk, q) /\ Due("final", disk, q) /\ \A i \in DOMAIN q : q[i].file # "task"
        BY <1>7, <1>8 DEF Due
    <1>13. Opened(q, disk, mode, said, v, task)
        BY <1>11, <1>12 DEF Opened
    <1> QED
        BY <1>2, <1>4, <1>13, OpenStep

LEMMA FinalInit == ASSUME Final!Init PROVE FinalInv
    <1>1. /\ mode \in Final!Modes /\ task \in {"RUNNING", "FINALIZING"} /\ step = "ask"
          /\ said = Final!None /\ verdict = Final!Rejected("none") /\ writes = <<>>
          /\ disk = [f \in Final!Files |-> IF f = "task" THEN task ELSE Final!None]
          /\ faults = 0 /\ crashed = FALSE
        BY DEF Final!Init
    <1>2. /\ disk["task"] = task /\ disk = [f \in Final!Files |-> disk[f]]
          /\ \A f \in Final!Files \ {"task"} : disk[f] = Final!None
        BY <1>1 DEF Final!Files
    <1>3. verdict.valid = FALSE
        BY <1>1 DEF Final!Rejected
    <1>4. Judgement(mode, said, verdict)
        BY <1>1, <1>3 DEF Judgement
    <1>5. Agreed(disk, mode, said, verdict, faults)
        BY <1>2 DEF Agreed, Final!Files
    <1>6. task \notin Final!Terminal /\ "COMPLETED" \in Final!Terminal
        BY <1>1 DEF Final!Terminal
    <1>7. Stepping
        BY <1>1, <1>2, <1>3, <1>6 DEF Stepping, Final!Files
    <1>8. Ending
        BY <1>1, <1>2, <1>6 DEF Ending
    <1> QED
        BY <1>1, <1>4, <1>5, <1>7, <1>8, NothingQueued DEF FinalInv, Steps

LEMMA FinalStep == ASSUME FinalInv, Final!Next PROVE FinalInv'
    <1>1. CASE Final!FinishTextReport
        <2>1. PICK draft \in Final!Drafts : Final!Publish(draft)
            BY <1>1 DEF Final!FinishTextReport
        <2> QED
            BY <1>1, <2>1, PublishStep DEF Final!FinishTextReport
    <1>2. CASE Final!FinishNative
        <2>1. PICK draft \in Final!Drafts : Final!Publish(draft)
            BY <1>2 DEF Final!FinishNative
        <2> QED
            BY <1>2, <2>1, PublishStep DEF Final!FinishNative
    <1>3. \/ Final!LoadFails \/ Final!Attempt \/ Final!FinishPayload \/ Final!Compose
          \/ Final!FinishTextReport \/ Final!FinishNative \/ Final!FinishConversation
          \/ Final!Composes \/ Final!Finish \/ Final!WorkerFails
          \/ Final!Write \/ Final!PatchUnread \/ Final!WriteFails \/ Final!FinishRaises
          \/ Final!Crash \/ Final!Restart
        BY DEF Final!Next, Final!Work
    <1> QED
        BY <1>1, <1>2, <1>3, LoadFailsStep, AttemptStep, FinishPayloadStep, ComposeStep,
           ConversationStep, ComposesStep, FinishFinalStep, WorkerFailsStep, WriteStep,
           PatchUnreadStep, WriteFailsStep, FinishRaisesStep, CrashStep, RestartStep

-----------------------------------------------------------------------------
(* Finalizer: what the invariant says of what is told.                     *)

\* What a composer is given of the claims.
LEMMA RowsAre ==
    ASSUME NEW p \in AnyAnswer
    PROVE  LET rows == Final!ToSet(Final!ComposerInput(p).claims)
               Same(r, c) == /\ r.id = c.id /\ r.kind = c.kind /\ r.relation = c.relation
                             /\ r.refs = c.refs
           IN  /\ \A r \in rows : \E c \in Final!ToSet(p.claims) : Same(r, c)
               /\ \A c \in Final!ToSet(p.claims) : \E r \in rows : Same(r, c)
    <1> DEFINE row(c) == [id |-> c.id, kind |-> c.kind, relation |-> c.relation, scope |-> c.scope,
                          confidence |-> c.confidence, topic |-> c.topic, refs |-> c.refs]
               rows == [i \in DOMAIN p.claims |-> row(p.claims[i])]
    <1>1. Final!ComposerInput(p).claims = rows
        BY DEF Final!ComposerInput
    <1>2. \A c : row(c).id = c.id /\ row(c).kind = c.kind /\ row(c).relation = c.relation
                 /\ row(c).refs = c.refs
        OBVIOUS
    <1> HIDE DEF row
    <1>3. DOMAIN rows = DOMAIN p.claims /\ \A i \in DOMAIN p.claims : rows[i] = row(p.claims[i])
        OBVIOUS
    <1> HIDE DEF rows
    <1>4. /\ \A r \in Final!ToSet(rows) : \E c \in Final!ToSet(p.claims) : r = row(c)
          /\ \A c \in Final!ToSet(p.claims) : \E r \in Final!ToSet(rows) : r = row(c)
        BY <1>3 DEF Final!ToSet
    <1> QED
        BY <1>1, <1>2, <1>4

\* The claims a payload calls observed facts.
Facts(p) == {c \in Final!ToSet(p.claims) : c.kind = "fact" /\ c.relation = "observed"}

LEMMA FactsAreSaid ==
    ASSUME NEW p \in AnyAnswer, Final!Valid(Final!Normalized(p)),
           NEW c \in Final!ToSet(Final!Normalized(p).claims), Final!IsFact(c)
    PROVE  /\ c.id \in {d.id : d \in Facts(p)}
           /\ Final!ToSet(c.refs) \subseteq UNION {Final!ToSet(d.refs) : d \in Facts(p)}
    <1>1. PICK d \in Final!ToSet(p.claims) : /\ d.kind = "fact" /\ d.relation = "observed"
                                             /\ d.id = c.id /\ d.refs = c.refs
        BY FactsWereObserved
    <1>2. d \in Facts(p)
        BY <1>1 DEF Facts
    <1> QED
        BY <1>1, <1>2

LEMMA NothingUpgraded == ASSUME FinalInv PROVE Final!NeverUpgraded
    <1> SUFFICES ASSUME said # Final!None PROVE Final!NeverUpgraded
        BY DEF Final!NeverUpgraded
    <1> DEFINE refs  == UNION {Final!ToSet(c.refs) : c \in Facts(said)}
               names == {c.id : c \in Facts(said)}
               lines == IF disk["final"] = Final!None THEN <<>> ELSE disk["final"].lines
               told  == IF disk["answer"] = Final!None THEN <<>>
                        ELSE <<disk["answer"].conclusion>> \o disk["answer"].explanation
               report == IF disk["report"] = Final!None THEN <<>> ELSE disk["report"]["facts"]
               p == verdict.payload
    <1>1. /\ Claiming(mode) /\ said \in Payloads
          /\ verdict.valid => p = Final!Normalized(said) /\ Final!Valid(p)
        BY DEF FinalInv, Judgement
    <1>2. said \in AnyAnswer
        BY <1>1, FinalAssumed
    <1>3. verdict.valid => p \in AnyAnswer
        BY <1>1, <1>2, NormalizedIs
    <1>4. verdict.valid => \A c \in Final!ToSet(p.claims) : Final!IsFact(c) =>
              c.id \in names /\ Final!ToSet(c.refs) \subseteq refs
        BY <1>1, <1>2, FactsAreSaid
    <1> HIDE DEF refs, names
    <1>5. ASSUME NEW i \in DOMAIN lines, lines[i].wording \in {"observed", "visual"}
          PROVE  lines[i].refs \subseteq refs
        <2>1. disk["final"] # Final!None
            BY <1>5
        <2>2. verdict.valid /\ disk["final"] = [lines |-> Final!Rendered(p)]
            BY <1>1, <2>1 DEF FinalInv, Agreed
        <2>3. lines = Final!Rendered(p)
            BY <2>1, <2>2
        <2>4. lines[i] \in Final!ToSet(Final!Rendered(p))
            BY <1>5, <2>3 DEF Final!ToSet
        <2>5. lines[i].refs \subseteq FactRefs(p.claims)
            BY <1>3, <1>5, <2>2, <2>4, RenderedFrom
        <2>6. FactRefs(p.claims) \subseteq refs
            BY <1>4, <2>2 DEF FactRefs
        <2> QED
            BY <2>5, <2>6
    <1>6. ASSUME NEW i \in DOMAIN told, told[i].text.wording = "visual"
          PROVE  told[i].claim \in names
        <2>1. disk["answer"] # Final!None
            BY <1>6
        <2>2. verdict.valid /\ disk["answer"] = Final!Answer(p)
            BY <1>1, <2>1 DEF FinalInv, Agreed
        <2>3. told = <<Final!Answer(p).conclusion>> \o Final!Answer(p).explanation
            BY <2>1, <2>2
        <2>4. PICK c \in Final!ToSet(p.claims) : told[i] = Final!AnswerItem(c)
            BY <1>1, <1>3, <1>6, <2>2, <2>3, AnswerFrom
        <2>5. c \in Final!Claim
            BY <1>1, <1>2, <2>2, <2>4, FactsWereObserved
        <2> QED
            BY <1>4, <1>6, <2>2, <2>4, <2>5, AnswerTold
    <1>7. ASSUME NEW i \in DOMAIN report
          PROVE  /\ Final!ToSet(report[i].claims) \subseteq names
                 /\ Final!ToSet(report[i].refs) \subseteq refs
        <2>1. disk["report"] # Final!None
            BY <1>7
        <2>2. /\ verdict.valid /\ disk["report"] \in Reports
              /\ Final!ValidReport(disk["report"], p)
            BY <1>1, <2>1 DEF FinalInv, Agreed
        <2>3. "facts" \in DOMAIN disk["report"]
            BY <2>2, FinalAssumed DEF Final!Sections
        <2>4. report = disk["report"]["facts"]
            BY <2>1
        <2>5. PICK item : item = report[i]
            OBVIOUS
        <2>6. Final!ValidItem("facts", item, p)
            BY <1>7, <2>2, <2>3, <2>4, <2>5 DEF Final!ValidReport
        <2>7. ASSUME NEW id \in Final!ToSet(item.claims)
              PROVE  /\ Final!ClaimOf(p, id) \in Final!ToSet(p.claims)
                     /\ Final!ClaimOf(p, id).id = id /\ Final!IsFact(Final!ClaimOf(p, id))
            <3>1. /\ Final!ClaimOf(p, id) \in Final!ToSet(p.claims) /\ Final!ClaimOf(p, id).id = id
                  /\ Final!Allowed("facts", Final!ClaimOf(p, id))
                BY <1>3, <2>2, <2>6, <2>7, ItemCites
            <3> QED
                BY <3>1 DEF Final!Allowed
        <2>8. Final!ToSet(item.claims) \subseteq names
            BY <1>4, <2>2, <2>7
        <2>9. ASSUME NEW ref \in Final!ToSet(item.refs)
              PROVE  ref \in refs
            <3>1. PICK id \in Final!ToSet(item.claims) : ref \in Final!ToSet(Final!ClaimOf(p, id).refs)
                BY <1>3, <2>2, <2>6, <2>9, ItemRefs
            <3> QED
                BY <1>4, <2>2, <2>7, <3>1
        <2> QED
            BY <2>5, <2>8, <2>9
    <1> QED
        BY <1>5, <1>6, <1>7 DEF Final!NeverUpgraded, Facts, refs, names

LEMMA AnswersAgree == ASSUME FinalInv PROVE Final!AnswerWithResult
    <1> SUFFICES ASSUME mode \in {"structured", "payload"}, disk["result"] # Final!None,
                        disk["result"].valid
                 PROVE  /\ disk["claims"] # Final!None
                        /\ disk["result"].answer = Final!Answer(Final!Normalized(disk["claims"]))
                        /\ disk["answer"] = disk["result"].answer
        BY DEF Final!AnswerWithResult
    <1>1. Claiming(mode)
        BY DEF Claiming
    <1>2. /\ verdict.valid /\ disk["result"].answer = Final!Answer(verdict.payload)
          /\ disk["claims"] # Final!None /\ disk["answer"] # Final!None
          /\ disk["answer"] = Final!Answer(verdict.payload)
          /\ disk["claims"] = Source(mode, said, verdict)
        BY <1>1 DEF FinalInv, Agreed
    <1>3. /\ said \in Payloads /\ verdict.payload = Final!Normalized(said)
        BY <1>1, <1>2 DEF FinalInv, Judgement
    <1>4. said \in AnyAnswer
        BY <1>3, FinalAssumed
    <1>5. Final!Normalized(disk["claims"]) = verdict.payload
        <2>1. CASE mode = "payload"
            BY <1>2, <1>3, <2>1 DEF Source
        <2>2. CASE mode # "payload"
            BY <1>2, <1>3, <1>4, <2>2, Idempotent DEF Source
        <2> QED
            BY <2>1, <2>2
    <1> QED
        BY <1>2, <1>5

LEMMA ReportsAreInformed == ASSUME FinalInv PROVE Final!ReportWasInformed
    <1> DEFINE p      == verdict.payload
               input  == Final!ComposerInput(p)
               report == disk["report"]
               given  == [i \in DOMAIN input.evidence |-> input.evidence[i].ref]
               rows(item) == {r \in Final!ToSet(input.claims) : r.id \in Final!ToSet(item.claims)}
               saved  == disk["claims"].claims
    <1> SUFFICES ASSUME mode = "structured", report # Final!None
                 PROVE  /\ Final!Distinct(given)
                        /\ \A s \in DOMAIN report : \A i \in DOMAIN report[s] :
                              LET item == report[s][i]
                              IN  /\ {r.id : r \in rows(item)} = Final!ToSet(item.claims)
                                  /\ UNION {Final!ToSet(r.refs) : r \in rows(item)}
                                        \subseteq Final!ToSet(given)
                                  /\ Final!ToSet(item.refs) \subseteq Final!ToSet(given)
                        /\ \A r \in Final!ToSet(input.claims) : r.relation = "observed" =>
                              \E j \in DOMAIN saved : saved[j].id = r.id /\ saved[j].kind = "fact"
        BY DEF Final!ReportWasInformed
    <1>1. Claiming(mode)
        BY DEF Claiming
    <1>2. /\ verdict.valid /\ Final!ValidReport(report, p)
          /\ disk["claims"] = Source(mode, said, verdict)
        BY <1>1 DEF FinalInv, Agreed
    <1>3. disk["claims"] = p
        BY <1>2 DEF Source
    <1>4. said \in Payloads /\ p = Final!Normalized(said) /\ Final!Valid(p)
        BY <1>1, <1>2 DEF FinalInv, Judgement
    <1>5. said \in AnyAnswer /\ p \in AnyAnswer
        BY <1>4, FinalAssumed, NormalizedIs
    <1>6. \A c \in Final!ToSet(p.claims) : /\ c.relation = "observed" => c.kind = "fact"
                                           /\ Final!ToSet(c.refs) \subseteq Final!Refs
        BY <1>4, <1>5, FactsWereObserved
    <1>7. /\ Final!Distinct(given)
          /\ \A c \in Final!ToSet(p.claims) : \A ref \in Final!ToSet(c.refs) :
                ref \in Final!Refs => ref \in Final!ToSet(given)
        BY <1>5, ComposerGiven
    <1>8. \A c \in Final!ToSet(p.claims) : Final!ToSet(c.refs) \subseteq Final!ToSet(given)
        BY <1>6, <1>7
    <1>9. /\ \A r \in Final!ToSet(input.claims) : \E c \in Final!ToSet(p.claims) :
                r.id = c.id /\ r.kind = c.kind /\ r.relation = c.relation /\ r.refs = c.refs
          /\ \A c \in Final!ToSet(p.claims) : \E r \in Final!ToSet(input.claims) : r.id = c.id
        BY <1>5, RowsAre
    <1> HIDE DEF input, given, p
    <1>10. ASSUME NEW s \in DOMAIN report, NEW i \in DOMAIN report[s], NEW item, item = report[s][i]
           PROVE  /\ {r.id : r \in rows(item)} = Final!ToSet(item.claims)
                  /\ UNION {Final!ToSet(r.refs) : r \in rows(item)} \subseteq Final!ToSet(given)
                  /\ Final!ToSet(item.refs) \subseteq Final!ToSet(given)
        <2>1. Final!ValidItem(s, item, p)
            BY <1>2, <1>10 DEF Final!ValidReport
        <2>2. \A id \in Final!ToSet(item.claims) :
                 Final!ClaimOf(p, id) \in Final!ToSet(p.claims) /\ Final!ClaimOf(p, id).id = id
            BY <1>5, <2>1, ItemCites
        <2>3. ASSUME NEW id \in Final!ToSet(item.claims)
              PROVE  id \in {r.id : r \in rows(item)}
            <3>1. PICK r \in Final!ToSet(input.claims) : r.id = Final!ClaimOf(p, id).id
                BY <1>9, <2>2, <2>3
            <3>2. r.id = id /\ r \in rows(item)
                BY <2>2, <2>3, <3>1
            <3> QED
                BY <3>2
        <2>4. {r.id : r \in rows(item)} \subseteq Final!ToSet(item.claims)
            OBVIOUS
        <2>5. ASSUME NEW r \in rows(item)
              PROVE  Final!ToSet(r.refs) \subseteq Final!ToSet(given)
            <3>1. PICK c \in Final!ToSet(p.claims) : r.refs = c.refs
                BY <1>9, <2>5
            <3> QED
                BY <1>8, <3>1
        <2>6. ASSUME NEW ref \in Final!ToSet(item.refs)
              PROVE  ref \in Final!ToSet(given)
            <3>1. PICK id \in Final!ToSet(item.claims) : ref \in Final!ToSet(Final!ClaimOf(p, id).refs)
                BY <1>5, <2>1, <2>6, ItemRefs
            <3> QED
                BY <1>8, <2>2, <3>1
        <2>7. {r.id : r \in rows(item)} = Final!ToSet(item.claims)
            BY <2>3, <2>4
        <2>8. UNION {Final!ToSet(r.refs) : r \in rows(item)} \subseteq Final!ToSet(given)
            BY <2>5
        <2> QED
            BY <2>6, <2>7, <2>8
    <1>11. ASSUME NEW r \in Final!ToSet(input.claims), r.relation = "observed"
           PROVE  \E j \in DOMAIN saved : saved[j].id = r.id /\ saved[j].kind = "fact"
        <2>1. PICK c \in Final!ToSet(p.claims) : r.id = c.id /\ c.relation = "observed"
            BY <1>9, <1>11
        <2>2. PICK j \in DOMAIN p.claims : c = p.claims[j]
            BY DEF Final!ToSet
        <2> QED
            BY <1>3, <1>6, <2>1, <2>2
    <1> QED
        BY <1>7, <1>10, <1>11

LEMMA OnlyFaultsDo == ASSUME FinalInv PROVE Final!OnlyFaultsDisagree
    BY DEF FinalInv, Ending, Ended, Completed, Final!OnlyFaultsDisagree

-----------------------------------------------------------------------------
(* The root: one behaviour is that of one component.                       *)

AnswersInv == (which = "route" => RouteInv) /\ (which = "final" => FinalInv)

LEMMA AnswersStep == ASSUME AnswersInv, [Next]_vars PROVE AnswersInv'
    <1>1. which' = which
        BY DEF Next, OnlyFinal, OnlyVerdict, OnlyRoute, vars
    <1>2. ASSUME which = "route"
          PROVE  RouteInv'
        <2>1. RouteInv
            BY <1>2 DEF AnswersInv
        <2>2. CASE Route!Next
            BY <2>1, <2>2, RouteStep
        <2>3. CASE UNCHANGED vars
            <3>1. UNCHANGED <<born, became, state, native, messages, traced, catalog, rounds, turn,
                              waiting, why, gains>>
                BY <2>3 DEF vars, routeVars
            <3>2. RouteTypes' /\ Counts' /\ Decision'
                BY <2>1, <3>1 DEF RouteInv, RouteTypes, Counts, Decision, Route!Evidenced, Route!Ended
            <3>3. Route!FinalizedIsHonest'
                BY <2>1, <3>1 DEF RouteInv, Route!FinalizedIsHonest, Route!Evidenced, Route!Ended
            <3> QED
                BY <3>2, <3>3 DEF RouteInv
        <2> QED
            BY <1>2, <2>2, <2>3 DEF Next, OnlyFinal, OnlyVerdict
    <1>3. ASSUME which = "final"
          PROVE  FinalInv'
        <2>1. FinalInv
            BY <1>3 DEF AnswersInv
        <2>2. CASE Final!Next
            BY <2>1, <2>2, FinalStep
        <2>3. CASE UNCHANGED vars
            <3>1. UNCHANGED <<mode, step, task, said, verdict, writes, disk, faults, crashed>>
                BY <2>3 DEF vars, answerVars
            <3> QED
                BY <2>1, <3>1 DEF FinalInv, Stepping, Ending
        <2> QED
            BY <1>3, <2>2, <2>3 DEF Next, OnlyVerdict, OnlyRoute
    <1> QED
        BY <1>1, <1>2, <1>3 DEF AnswersInv

\* A task is what its turns made of it, and whatever is interrupted on the way
\* from its last turn to its published result, nothing is told as observed that
\* the model had not called so, and result, answer, text, report and record
\* agree (_finish_openclaw_turn, StructuredFinalizer.run, persist_claims,
\* persist_result, _finish_finalizing_task, _reconcile_interrupted).
THEOREM AnswersAreHonest == Spec => []FinalSound
    <1>1. Init => AnswersInv
        BY RouteInit, FinalInit DEF Init, AnswersInv
    <1>2. AnswersInv /\ [Next]_vars => AnswersInv'
        BY AnswersStep
    <1>3. AnswersInv => FinalSound
        <2>1. Route!RoutingAssumption
            BY RouteAssumption
        <2> QED
            BY <2>1, RoutesAreSound, NothingUpgraded, AnswersAgree, ReportsAreInformed, OnlyFaultsDo
               DEF AnswersInv, FinalSound
    <1> QED
        BY <1>1, <1>2, <1>3, PTL DEF Spec
=============================================================================
