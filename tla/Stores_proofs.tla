--------------------------- MODULE Stores_proofs ----------------------------
(* Proofs about MC_Stores, for every bound of its configuration: a cleanup of  *)
(* containers is true to its report and its agent (Sandboxes.tla,              *)
(* CleanupsAreTrue), and a start leaves what it serves whole (Provision.tla,   *)
(* StartsAreWhole), binds included, which are merged element after element;    *)
(* the records of a task are whole (TaskFiles.tla, TaskList.tla), packages of  *)
(* its data honest (DataPackages.tla), and its evidence complete and its       *)
(* prompt faithful (Evidence.tla, EvidenceIsSound).                            *)
EXTENDS MC_Stores, FiniteSetTheorems, SequenceTheorems, WellFoundedInduction, TLAPS

-----------------------------------------------------------------------------
(* What is built element after element: a set of numbers that has 0 and, with  *)
(* each number below N, the next one has all up to N; and a function that is   *)
(* defined from its previous value exists.                                     *)

\* A set of natural numbers has a least element.
LEMMA Least == ASSUME NEW T, T \subseteq Nat, T # {}
               PROVE  \E x \in T : \A y \in T : x <= y
  <1> DEFINE R == {ss \in Nat \X Nat : ss[1] < ss[2]}
  <1>1. IsWellFoundedOn(R, Nat)  BY NatLessThanWellFounded DEF OpToRel
  <1>2. \A a, b \in Nat : a < b => <<a, b>> \in R  OBVIOUS
  <1> HIDE DEF R
  <1>3. PICK x \in T : \A y \in T : ~(<<y, x>> \in R)  BY <1>1, WFMin
  <1>4. \A y \in T : x <= y
    <2> SUFFICES ASSUME NEW y \in T, ~(x <= y)
                 PROVE  FALSE
      OBVIOUS
    <2>1. x \in Nat /\ y \in Nat /\ y < x  OBVIOUS
    <2> QED BY <2>1, <1>2, <1>3
  <1> QED BY <1>4

LEMMA Induct ==
    ASSUME NEW N \in Nat, NEW S, 0 \in S, \A n \in 0 .. N : n \in S /\ n < N => n + 1 \in S
    PROVE  \A n \in 0 .. N : n \in S
  <1> DEFINE T == {n \in 0 .. N : n \notin S}
  <1> SUFFICES ASSUME T # {}
               PROVE  FALSE
    OBVIOUS
  <1>1. T \subseteq Nat  OBVIOUS
  <1>2. \A n \in T : n \in 0 .. N /\ n \notin S  OBVIOUS
  <1>3. \A n \in 0 .. N : n \notin S => n \in T  OBVIOUS
  <1> HIDE DEF T
  <1>4. PICK x \in T : \A y \in T : x <= y  BY <1>1, Least
  <1>5. x \in 0 .. N /\ x # 0 /\ x \notin S  BY <1>2
  <1>6. PICK z : z = x - 1  OBVIOUS
  <1>7. z \in 0 .. N /\ z < N /\ z + 1 = x /\ ~(x <= z)  BY <1>5, <1>6
  <1>8. z \in S  BY <1>3, <1>4, <1>7
  <1> QED BY <1>5, <1>7, <1>8

\* f is G iterated N times from a, on the values V.
Iterates(f, V, a, N, G) == /\ f \in [0 .. N -> V] /\ f[0] = a
                           /\ \A k \in 1 .. N : f[k] = G[<<k, f[k - 1]>>]

LEMMA Iterated ==
    ASSUME NEW V, NEW a \in V, NEW N \in Nat, NEW G \in [(1 .. N) \X V -> V]
    PROVE  \E f : Iterates(f, V, a, N, G)
  <1> DEFINE Good(n, f) == f[0] = a /\ \A k \in 1 .. n : f[k] = G[<<k, f[k - 1]>>]
  <1> DEFINE S == {n \in 0 .. N : \E f \in [0 .. n -> V] : Good(n, f)}
  <1>1. 0 \in S
    <2>1. PICK z : z = [k \in 0 .. 0 |-> a]  OBVIOUS
    <2>2. z \in [0 .. 0 -> V] /\ z[0] = a /\ \A k \in 1 .. 0 : FALSE  BY <2>1
    <2>3. Good(0, z)  BY <2>2
    <2>4. 0 \in 0 .. N  OBVIOUS
    <2> HIDE DEF Good
    <2> QED BY <2>2, <2>3, <2>4
  <1>2. ASSUME NEW n \in 0 .. N, n \in S, n < N
        PROVE  n + 1 \in S
    <2>1. PICK f \in [0 .. n -> V] : Good(n, f)  BY <1>2
    <2>2. PICK m : m = n + 1  OBVIOUS
    <2>3. m \in 1 .. N /\ m \in 0 .. N /\ n \in 0 .. n  BY <1>2, <2>2
    <2> DEFINE g == [k \in 0 .. m |-> IF k = m THEN G[<<m, f[n]>>] ELSE f[k]]
    <2>4. G[<<m, f[n]>>] \in V  BY <2>3
    <2>5. g \in [0 .. m -> V]  BY <2>2, <2>4
    <2>6. \A k \in 0 .. n : g[k] = f[k]  BY <2>2
    <2>7. g[m] = G[<<m, f[n]>>]  BY <2>3
    <2> HIDE DEF g
    <2>8. Good(m, g)
      <3>1. g[0] = a  BY <2>1, <2>6, <1>2
      <3>2. ASSUME NEW k \in 1 .. m
            PROVE  g[k] = G[<<k, g[k - 1]>>]
        <4>1. CASE k = m
          <5>1. k - 1 = n  BY <4>1, <2>2
          <5> QED BY <4>1, <5>1, <2>3, <2>6, <2>7
        <4>2. CASE k # m
          <5>1. k \in 1 .. n /\ k \in 0 .. n /\ k - 1 \in 0 .. n  BY <4>2, <2>2
          <5> QED BY <5>1, <2>1, <2>6
        <4> QED BY <4>1, <4>2
      <3> QED BY <3>1, <3>2
    <2> QED BY <2>2, <2>3, <2>5, <2>8
  <1> HIDE DEF S
  <1>3. N \in S  BY <1>1, <1>2, Induct
  <1> QED BY <1>3 DEF S, Iterates

-----------------------------------------------------------------------------
(* Sandboxes: the invariant.                                                 *)

Reports == [ids : SUBSET Nat, warnings : Nat, error : BOOLEAN, written : BOOLEAN]
Cleaning == {"stop", "rm"}
Names == Agents \cup {""}
Worked == [step : {"new", "idle", "turn", "over", "stop", "rm", "write", "done"},
           agent : Names, todo : SUBSET Nat, report : Reports, seen : SUBSET Nat]
Mounted == SUBSET (({"data"} \cup Owners) \X {"ro", "over scratch", "rw"})
Asked == [prefix : {"scopex"} \X Names, mounts : Mounted, of : Owners]
Made == [id : Nat, prefix : {"scopex"} \X Names, mounts : Mounted, of : Owners,
         running : BOOLEAN]

DockerTypes == /\ owner \in [Owners -> Worked]
               /\ data \in {"ro", "over scratch"}
               /\ asked \in SUBSET Asked
               /\ containers \in SUBSET Made
               /\ made \in Nat
               /\ removed \in SUBSET (Owners \X Made)

\* Every request under way fits below the bound.
DockerCounts == /\ IsFiniteSet(asked)
                /\ made + Cardinality(asked) <= MaxContainers

\* The record w of a task, of the m containers ever made, while cs are there:
\* the cleanup has still to do what it found and has not removed.
Cleanup(w, cs, m) ==
    /\ w.seen \subseteq 1 .. m /\ w.todo \subseteq 1 .. m
    /\ w.report.written => w.step = "done"
    /\ w.step = "rm" => w.todo # {}
    /\ w.step \in Cleaning =>
         /\ ~w.report.error /\ w.report.ids = w.seen
         /\ w.report.warnings = 0 => \A c \in cs : c.id \in w.seen => c.id \in w.todo
    /\ w.step \in {"write", "done"} /\ w.report.warnings = 0 /\ ~w.report.error =>
         /\ w.seen = w.report.ids
         /\ \A c \in cs : c.id \notin w.seen

\* A container or a request p is under the name of its task's agent.
Named(p) == owner[p.of].step # "new" /\ p.prefix = <<"scopex", owner[p.of].agent>>
Isolated(p) == \A m \in p.mounts : m[2] = "ro" \/ m = <<p.of, "rw">>

DockerNames ==
    /\ \A p \in asked : Named(p) /\ Isolated(p)
    /\ \A c \in containers : Named(c) /\ Isolated(c) /\ c.id \in 1 .. made
    /\ \A c, d \in containers : c.id = d.id => c = d
    /\ \A t \in Owners : owner[t].step = "turn" => data = "ro"

\* What a cleanup has in hand, and what it has removed, is its own agent's.
DockerOwn ==
    /\ \A t \in Owners : \A c \in containers :
         c.id \in owner[t].todo => owner[c.of].agent = owner[t].agent
    /\ \A t \in Owners : owner[t].todo # {} => owner[t].step # "new"
    /\ \A r \in removed : /\ owner[r[1]].step # "new" /\ owner[r[2].of].step # "new"
                          /\ owner[r[1]].agent = owner[r[2].of].agent

DockerInv == /\ DockerTypes /\ DockerCounts /\ DockerNames /\ DockerOwn
             /\ \A t \in Owners : Cleanup(owner[t], containers, made)

LEMMA SameCardinality == \A S : Docker!Cardinality(S) = Cardinality(S)
  BY DEF Docker!Cardinality, Cardinality

\* The record of a task, field by field.
Task(s, a, o, r, e) == [step |-> s, agent |-> a, todo |-> o, report |-> r, seen |-> e]

LEMMA TaskFields ==
    ASSUME NEW s, NEW a, NEW o, NEW r, NEW e, NEW x
    PROVE  /\ [Task(s, a, o, r, e) EXCEPT !.step = x] = Task(x, a, o, r, e)
           /\ [Task(s, a, o, r, e) EXCEPT !.agent = x] = Task(s, x, o, r, e)
           /\ [Task(s, a, o, r, e) EXCEPT !.todo = x] = Task(s, a, x, r, e)
           /\ [Task(s, a, o, r, e) EXCEPT !.report = x] = Task(s, a, o, x, e)
           /\ [Task(s, a, o, r, e) EXCEPT !.seen = x] = Task(s, a, o, r, x)
           /\ Task(s, a, o, r, e).step = s /\ Task(s, a, o, r, e).agent = a
           /\ Task(s, a, o, r, e).todo = o /\ Task(s, a, o, r, e).report = r
           /\ Task(s, a, o, r, e).seen = e
  BY DEF Task

LEMMA StepOf ==
    ASSUME NEW v \in Worked, NEW x
    PROVE  [v EXCEPT !.step = x] = Task(x, v.agent, v.todo, v.report, v.seen)
  <1>1. PICK s, a, o, r, e : s = v.step /\ a = v.agent /\ o = v.todo /\ r = v.report /\ e = v.seen
    OBVIOUS
  <1>2. v = Task(s, a, o, r, e)  BY <1>1 DEF Worked, Task
  <1>3. [v EXCEPT !.step = x] = Task(x, a, o, r, e)  BY <1>2 DEF Task
  <1> QED BY <1>1, <1>3, Zenon

\* A record and a further field: f is the record before, g the one that results.
LEMMA TodoOf ==
    ASSUME NEW s, NEW a, NEW o, NEW r, NEW e, NEW x, NEW f, f = Task(s, a, o, r, e)
    PROVE  [f EXCEPT !.todo = x] = Task(s, a, x, r, e)
  BY DEF Task

LEMMA SeenOf ==
    ASSUME NEW s, NEW a, NEW o, NEW r, NEW e, NEW x, NEW f, f = Task(s, a, o, r, e)
    PROVE  [f EXCEPT !.seen = x] = Task(s, a, o, r, x)
  BY DEF Task

LEMMA ReportIn ==
    ASSUME NEW s, NEW a, NEW o, NEW r, NEW e, NEW x, NEW f, f = Task(s, a, o, r, e)
    PROVE  [f EXCEPT !.report = x] = Task(s, a, o, x, e)
  BY DEF Task

LEMMA ReportedAs ==
    ASSUME NEW v \in Worked, NEW s, NEW r
    PROVE  [[v EXCEPT !.step = s] EXCEPT !.report = r] = Task(s, v.agent, v.todo, r, v.seen)
  <1>1. PICK f : f = [v EXCEPT !.step = s]  OBVIOUS
  <1>2. f = Task(s, v.agent, v.todo, v.report, v.seen)  BY <1>1, StepOf, Zenon
  <1>3. [f EXCEPT !.report = r] = Task(s, v.agent, v.todo, r, v.seen)
    BY <1>2, ReportIn
  <1> QED BY <1>1, <1>3, Zenon

LEMMA LeftAs ==
    ASSUME NEW v \in Worked, NEW s, NEW o
    PROVE  [[v EXCEPT !.step = s] EXCEPT !.todo = o] = Task(s, v.agent, o, v.report, v.seen)
  <1>1. PICK f : f = [v EXCEPT !.step = s]  OBVIOUS
  <1>2. f = Task(s, v.agent, v.todo, v.report, v.seen)  BY <1>1, StepOf, Zenon
  <1>3. [f EXCEPT !.todo = o] = Task(s, v.agent, o, v.report, v.seen)
    BY <1>2, TodoOf
  <1> QED BY <1>1, <1>3, Zenon

LEMMA UnlistedAs ==
    ASSUME NEW v \in Worked, NEW s, NEW e, NEW r
    PROVE  [[[v EXCEPT !.step = s] EXCEPT !.seen = e] EXCEPT !.report = r]
              = Task(s, v.agent, v.todo, r, e)
  <1>1. PICK f : f = [v EXCEPT !.step = s]  OBVIOUS
  <1>2. f = Task(s, v.agent, v.todo, v.report, v.seen)  BY <1>1, StepOf, Zenon
  <1>3. PICK g : g = [f EXCEPT !.seen = e]  OBVIOUS
  <1>4. g = Task(s, v.agent, v.todo, v.report, e)  BY <1>2, <1>3, SeenOf
  <1>5. [g EXCEPT !.report = r] = Task(s, v.agent, v.todo, r, e)  BY <1>4, ReportIn
  <1> QED BY <1>1, <1>3, <1>5, Zenon

LEMMA ListedAs ==
    ASSUME NEW v \in Worked, NEW s, NEW o, NEW e, NEW r
    PROVE  [[[[v EXCEPT !.step = s] EXCEPT !.todo = o] EXCEPT !.seen = e] EXCEPT !.report = r]
              = Task(s, v.agent, o, r, e)
  <1>1. PICK f : f = [v EXCEPT !.step = s]  OBVIOUS
  <1>2. f = Task(s, v.agent, v.todo, v.report, v.seen)  BY <1>1, StepOf, Zenon
  <1>3. PICK g : g = [f EXCEPT !.todo = o]  OBVIOUS
  <1>4. g = Task(s, v.agent, o, v.report, v.seen)  BY <1>2, <1>3, TodoOf
  <1>5. PICK h : h = [g EXCEPT !.seen = e]  OBVIOUS
  <1>6. h = Task(s, v.agent, o, v.report, e)  BY <1>4, <1>5, SeenOf
  <1>7. [h EXCEPT !.report = r] = Task(s, v.agent, o, r, e)  BY <1>6, ReportIn
  <1> QED BY <1>1, <1>3, <1>5, <1>7, Zenon

LEMMA DockerStarts ==
    ASSUME Docker!BoundAssumption, Docker!Init
    PROVE  DockerInv
  <1>1. DockerTypes
    BY DEF Docker!Init, Docker!New, Docker!NoReport, DockerTypes, Worked, Reports, Names
  <1>2. DockerCounts
    <2>1. asked = {} /\ made = 0 /\ MaxContainers \in Nat
      BY DEF Docker!Init, Docker!BoundAssumption
    <2>2. IsFiniteSet({}) /\ Cardinality({}) = 0  BY FS_EmptySet, Zenon
    <2> QED BY <2>1, <2>2 DEF DockerCounts
  <1>3. DockerNames /\ DockerOwn
    BY DEF Docker!Init, Docker!New, DockerNames, DockerOwn
  <1>4. \A t \in Owners : Cleanup(owner[t], containers, made)
    BY DEF Docker!Init, Docker!New, Docker!NoReport, Cleanup, Cleaning
  <1> QED BY <1>1, <1>2, <1>3, <1>4 DEF DockerInv

\* The step of a task that asks nothing of the daemon and keeps its agent.
LEMMA TaskMoves ==
    ASSUME DockerInv, NEW t \in Owners, NEW w \in Worked,
           owner' = [owner EXCEPT ![t] = w],
           owner[t].step # "new", w.step # "new", w.agent = owner[t].agent,
           w.step = "turn" => data = "ro",
           UNCHANGED <<data, asked, made>>,
           containers' \in SUBSET Made,
           \A c \in containers' : \E d \in containers :
                c.id = d.id /\ c.of = d.of /\ c.prefix = d.prefix /\ c.mounts = d.mounts,
           \A c, d \in containers' : c.id = d.id => c = d,
           Cleanup(w, containers', made),
           \A c \in containers : c.id \in w.todo => owner[c.of].agent = owner[t].agent
    PROVE  /\ DockerNames' /\ DockerCounts'
           /\ owner' \in [Owners -> Worked]
           /\ \A u \in Owners : /\ owner'[u].agent = owner[u].agent
                                /\ owner[u].step # "new" => owner'[u].step # "new"
           /\ \A u \in Owners : Cleanup(owner'[u], containers', made')
           /\ \A u \in Owners : \A c \in containers' :
                 c.id \in owner'[u].todo => owner'[c.of].agent = owner'[u].agent
           /\ \A u \in Owners : owner'[u].todo # {} => owner'[u].step # "new"
  <1> USE DEF DockerInv
  <1>1. \A u \in Owners : owner'[u] = IF u = t THEN w ELSE owner[u]
    BY DEF DockerTypes
  <1>2. owner' \in [Owners -> Worked]  BY DEF DockerTypes
  <1>3. \A u \in Owners : /\ owner'[u].agent = owner[u].agent
                          /\ owner[u].step # "new" => owner'[u].step # "new"
    BY <1>1
  <1>4. DockerCounts'  BY DEF DockerCounts
  <1>5. DockerNames'
    <2>1. \A p \in asked' : Named(p)' /\ Isolated(p)'
      BY <1>3 DEF DockerNames, Named, Isolated, DockerTypes, Asked
    <2>2. \A c \in containers' : Named(c)' /\ Isolated(c)' /\ c.id \in 1 .. made'
      <3> TAKE c \in containers'
      <3>1. PICK d \in containers : c.id = d.id /\ c.of = d.of /\ c.prefix = d.prefix
                                    /\ c.mounts = d.mounts
        OBVIOUS
      <3>2. Named(d) /\ Isolated(d) /\ d.id \in 1 .. made /\ d.of \in Owners
        BY DEF DockerNames, DockerTypes, Made
      <3> QED BY <3>1, <3>2, <1>3 DEF Named, Isolated
    <2>3. \A u \in Owners : owner'[u].step = "turn" => data' = "ro"
      BY <1>1 DEF DockerNames
    <2> QED BY <2>1, <2>2, <2>3 DEF DockerNames
  <1>6. ASSUME NEW u \in Owners
        PROVE  Cleanup(owner'[u], containers', made')
    <2>1. CASE u = t  BY <2>1, <1>1
    <2>2. CASE u # t
      <3>1. Cleanup(owner[u], containers, made)  OBVIOUS
      <3> QED BY <3>1, <2>2, <1>1 DEF Cleanup
    <2> QED BY <2>1, <2>2
  <1>7. ASSUME NEW u \in Owners, NEW c \in containers', c.id \in owner'[u].todo
        PROVE  owner'[c.of].agent = owner'[u].agent
    <2>1. PICK d \in containers : c.id = d.id /\ c.of = d.of  OBVIOUS
    <2>2. d.of \in Owners  BY DEF DockerTypes, Made
    <2>3. owner[d.of].agent = owner[u].agent  BY <1>1, <1>7, <2>1 DEF DockerOwn
    <2> QED BY <1>3, <2>1, <2>2, <2>3
  <1>8. \A u \in Owners : owner'[u].todo # {} => owner'[u].step # "new"
    BY <1>1 DEF DockerOwn
  <1> QED BY <1>2, <1>3, <1>4, <1>5, <1>6, <1>7, <1>8

\* ... and removes nothing.
LEMMA TaskMovesOn ==
    ASSUME DockerInv, NEW t \in Owners, NEW w \in Worked,
           owner' = [owner EXCEPT ![t] = w],
           owner[t].step # "new", w.step # "new", w.agent = owner[t].agent,
           w.step = "turn" => data = "ro",
           UNCHANGED <<data, asked, made, containers, removed>>,
           Cleanup(w, containers, made),
           \A c \in containers : c.id \in w.todo => owner[c.of].agent = owner[t].agent
    PROVE  DockerInv'
  <1>1. /\ containers' \in SUBSET Made
        /\ \A c \in containers' : \E d \in containers :
              c.id = d.id /\ c.of = d.of /\ c.prefix = d.prefix /\ c.mounts = d.mounts
        /\ \A c, d \in containers' : c.id = d.id => c = d
        /\ Cleanup(w, containers', made)
    BY DEF DockerInv, DockerTypes, DockerNames
  <1>2. /\ DockerNames' /\ DockerCounts'
        /\ owner' \in [Owners -> Worked]
        /\ \A u \in Owners : /\ owner'[u].agent = owner[u].agent
                             /\ owner[u].step # "new" => owner'[u].step # "new"
        /\ \A u \in Owners : Cleanup(owner'[u], containers', made')
        /\ \A u \in Owners : \A c \in containers' :
              c.id \in owner'[u].todo => owner'[c.of].agent = owner'[u].agent
        /\ \A u \in Owners : owner'[u].todo # {} => owner'[u].step # "new"
    BY <1>1, TaskMoves
  <1>3. DockerTypes'  BY <1>2 DEF DockerInv, DockerTypes
  <1>4. \A r \in removed' : /\ owner'[r[1]].step # "new" /\ owner'[r[2].of].step # "new"
                            /\ owner'[r[1]].agent = owner'[r[2].of].agent
    <2> TAKE r \in removed'
    <2>1. r[1] \in Owners /\ r[2].of \in Owners  BY DEF DockerInv, DockerTypes, Made
    <2> QED BY <1>2, <2>1 DEF DockerInv, DockerOwn
  <1> QED BY <1>2, <1>3, <1>4 DEF DockerInv, DockerOwn

LEMMA CurrentIsLeft ==
    ASSUME DockerInv, NEW t \in Owners, owner[t].todo # {}
    PROVE  Docker!Current(t) \in owner[t].todo
  <1>1. owner[t].todo \subseteq Nat  BY DEF DockerInv, DockerTypes, Worked
  <1>2. \E id \in owner[t].todo : \A other \in owner[t].todo : id <= other
    BY <1>1, Least
  <1> QED BY <1>2 DEF Docker!Current

LEMMA BeginStep ==
    ASSUME DockerInv, NEW t \in Owners, NEW a \in Agents, Docker!Begin(t, a)
    PROVE  DockerInv'
  <1> DEFINE w == [step |-> "idle", agent |-> a, todo |-> owner[t].todo,
                   report |-> owner[t].report, seen |-> owner[t].seen]
  <1> USE DEF DockerInv
  <1>1. owner[t] \in Worked /\ owner[t].step = "new"
    BY DEF DockerTypes, Docker!Begin, Docker!At
  <1>2. owner' = [owner EXCEPT ![t] = w] /\ w \in Worked
    <2>1. [[owner[t] EXCEPT !.step = "idle"] EXCEPT !.agent = a] = w
      <3>1. PICK v : v = [owner[t] EXCEPT !.step = "idle"]  OBVIOUS
      <3>2. v \in Worked /\ v.step = "idle" /\ v.todo = owner[t].todo
            /\ v.report = owner[t].report /\ v.seen = owner[t].seen
        BY <1>1, <3>1 DEF Worked
      <3>3. [v EXCEPT !.agent = a] = [step |-> v.step, agent |-> a, todo |-> v.todo,
                                      report |-> v.report, seen |-> v.seen]
        BY <3>2 DEF Worked
      <3> QED BY <3>1, <3>2, <3>3
    <2>2. owner' = [owner EXCEPT ![t] = [[owner[t] EXCEPT !.step = "idle"] EXCEPT !.agent = a]]
      BY DEF Docker!Begin, DockerTypes
    <2>3. w \in Worked  BY <1>1 DEF Worked, Names
    <2> QED BY <2>1, <2>2, <2>3
  <1>3. UNCHANGED <<data, asked, containers, made, removed>>
    BY DEF Docker!Begin, Docker!Docker
  <1>4. w.step = "idle" /\ w.todo = owner[t].todo /\ w.report = owner[t].report
        /\ w.seen = owner[t].seen
    OBVIOUS
  <1> HIDE DEF w
  <1>5. \A u \in Owners : owner'[u] = IF u = t THEN w ELSE owner[u]
    BY <1>2 DEF DockerTypes
  <1>6. DockerTypes' /\ DockerCounts'  BY <1>2, <1>3 DEF DockerTypes, DockerCounts
  <1>7. \A p \in asked : Named(p) => p.of # t  BY <1>1 DEF Named
  <1>8. \A c \in containers : Named(c) => c.of # t  BY <1>1 DEF Named
  <1>9. DockerNames'
    <2>1. \A p \in asked' : Named(p)' /\ Isolated(p)'
      BY <1>3, <1>5, <1>7 DEF DockerNames, Named, Isolated, DockerTypes, Asked
    <2>2. \A c \in containers' : Named(c)' /\ Isolated(c)' /\ c.id \in 1 .. made'
      BY <1>3, <1>5, <1>8 DEF DockerNames, Named, Isolated, DockerTypes, Made
    <2> QED BY <2>1, <2>2, <1>3, <1>4, <1>5 DEF DockerNames
  <1>10. DockerOwn'
    <2>1. owner[t].todo = {}  BY <1>1 DEF DockerOwn
    <2>2. \A c \in containers : c.of # t /\ c.of \in Owners
      BY <1>8 DEF DockerNames, DockerTypes, Made
    <2>3. \A u \in Owners : \A c \in containers' :
             c.id \in owner'[u].todo => owner'[c.of].agent = owner'[u].agent
      BY <2>1, <2>2, <1>3, <1>4, <1>5 DEF DockerOwn
    <2>4. \A r \in removed : r[1] \in Owners /\ r[2].of \in Owners
      BY DEF DockerTypes, Made
    <2>5. \A r \in removed' : /\ owner'[r[1]].step # "new" /\ owner'[r[2].of].step # "new"
                              /\ owner'[r[1]].agent = owner'[r[2].of].agent
      BY <2>4, <1>1, <1>3, <1>5 DEF DockerOwn
    <2> QED BY <2>1, <2>3, <2>5, <1>4, <1>5 DEF DockerOwn
  <1>11. \A u \in Owners : Cleanup(owner'[u], containers', made')
    BY <1>1, <1>3, <1>4, <1>5 DEF Cleanup, Cleaning
  <1> QED BY <1>6, <1>9, <1>10, <1>11

\* The steps that only go to another step of the task.
LEMMA GoesStep ==
    ASSUME DockerInv, NEW t \in Owners,
           NEW next \in {"idle", "turn", "over", "write", "done"},
           Docker!Goes(t, next), UNCHANGED Docker!Docker,
           owner[t].step \notin {"new", "rm", "done"},
           next = "turn" => data = "ro",
           next \in {"idle", "turn", "over"} => owner[t].step \in {"idle", "turn"},
           next = "write" => owner[t].step = "stop" /\ owner[t].todo = {},
           next = "done" => owner[t].step = "write"
    PROVE  DockerInv'
  <1> DEFINE w == [owner[t] EXCEPT !.step = next]
  <1>1. owner[t] \in Worked /\ Cleanup(owner[t], containers, made)
    BY DEF DockerInv, DockerTypes
  <1>2. owner' = [owner EXCEPT ![t] = w]
    BY <1>1 DEF DockerInv, DockerTypes, Docker!Goes
  <1>3. w \in Worked /\ w.step = next /\ w.agent = owner[t].agent /\ w.todo = owner[t].todo
        /\ w.report = owner[t].report /\ w.seen = owner[t].seen
    BY <1>1 DEF Worked
  <1> HIDE DEF w
  <1>4. Cleanup(w, containers, made)  BY <1>1, <1>3 DEF Cleanup, Cleaning
  <1>5. \A c \in containers : c.id \in w.todo => owner[c.of].agent = owner[t].agent
    BY <1>3 DEF DockerInv, DockerOwn
  <1> QED BY <1>2, <1>3, <1>4, <1>5, TaskMovesOn DEF Docker!Docker

LEMMA TurnSteps ==
    ASSUME DockerInv, NEW t \in Owners,
           \/ Docker!StartTurn(t) \/ Docker!EndTurn(t) \/ Docker!Over(t) \/ Docker!Listed(t)
    PROVE  DockerInv'
  <1>1. CASE Docker!StartTurn(t)
    <2>1. CASE data = "ro"
      BY <1>1, <2>1, GoesStep DEF Docker!StartTurn, Docker!ConfigAllowed, Docker!At
    <2>2. CASE data # "ro"
      BY <1>1, <2>2, GoesStep DEF Docker!StartTurn, Docker!ConfigAllowed, Docker!At
    <2> QED BY <2>1, <2>2
  <1>2. CASE Docker!EndTurn(t)  BY <1>2, GoesStep DEF Docker!EndTurn, Docker!At
  <1>3. CASE Docker!Over(t)  BY <1>3, GoesStep DEF Docker!Over, Docker!At
  <1>4. CASE Docker!Listed(t)  BY <1>4, GoesStep DEF Docker!Listed, Docker!At
  <1> QED BY <1>1, <1>2, <1>3, <1>4

LEMMA AskStep ==
    ASSUME Docker!BoundAssumption, DockerInv, NEW t \in Owners, Docker!Ask(t)
    PROVE  DockerInv'
  <1> USE DEF DockerInv
  <1>1. PICK p : p = [prefix |-> Docker!ContainerPrefix(t), mounts |-> Docker!Mounts(t), of |-> t]
    OBVIOUS
  <1>2. /\ owner[t].step = "turn" /\ made + Cardinality(asked) < MaxContainers
        /\ asked' = asked \cup {p}
        /\ UNCHANGED <<owner, data, containers, made, removed>>
    <2>1. owner[t].step = "turn" /\ UNCHANGED <<owner, data, containers, made, removed>>
      BY DEF Docker!Ask, Docker!At
    <2>2. asked' = asked \cup {p}  BY <1>1 DEF Docker!Ask
    <2>3. made + Cardinality(asked) < MaxContainers
      BY SameCardinality DEF Docker!Ask
    <2> QED BY <2>1, <2>2, <2>3
  <1>3. p \in Asked /\ Named(p) /\ Isolated(p)
    <2>1. data = "ro" /\ owner[t].agent \in Names
      BY <1>2 DEF DockerNames, DockerTypes, Worked
    <2>2. p.of = t /\ p.prefix = <<"scopex", owner[t].agent>>
          /\ p.mounts = {<<"data", "ro">>, <<t, "rw">>}
      BY <1>1, <2>1 DEF Docker!ContainerPrefix, Docker!Mounts
    <2>3. p \in Asked
      <3>1. p.prefix \in {"scopex"} \X Names /\ p.mounts \in Mounted
        <4>1. p.prefix \in {"scopex"} \X Names  BY <2>1, <2>2
        <4>2. <<"data", "ro">> \in ({"data"} \cup Owners) \X {"ro", "over scratch", "rw"}
          OBVIOUS
        <4>3. <<t, "rw">> \in ({"data"} \cup Owners) \X {"ro", "over scratch", "rw"}
          OBVIOUS
        <4> QED BY <4>1, <4>2, <4>3, <2>2 DEF Mounted
      <3>2. p = [prefix |-> p.prefix, mounts |-> p.mounts, of |-> p.of]  BY <1>1
      <3> QED BY <3>1, <3>2, <2>2 DEF Asked
    <2>4. Isolated(p)  BY <2>2 DEF Isolated
    <2> QED BY <2>2, <2>3, <2>4, <1>2 DEF Named
  <1>4. DockerTypes'  BY <1>2, <1>3 DEF DockerTypes
  <1>5. DockerCounts'
    <2>1. /\ IsFiniteSet(asked \cup {p})
          /\ Cardinality(asked \cup {p}) = IF p \in asked THEN Cardinality(asked)
                                           ELSE Cardinality(asked) + 1
      BY FS_AddElement DEF DockerCounts
    <2>2. Cardinality(asked) \in Nat /\ made \in Nat
      BY FS_CardinalityType DEF DockerCounts, DockerTypes
    <2>3. made + Cardinality(asked) <= MaxContainers  BY DEF DockerCounts
    <2>4. MaxContainers \in Nat  BY DEF Docker!BoundAssumption
    <2> QED BY <2>1, <2>2, <2>3, <2>4, <1>2 DEF DockerCounts
  <1>6. DockerNames'  BY <1>2, <1>3 DEF DockerNames, Named, Isolated
  <1>7. DockerOwn' /\ \A u \in Owners : Cleanup(owner'[u], containers', made')
    BY <1>2 DEF DockerOwn
  <1> QED BY <1>4, <1>5, <1>6, <1>7

LEMMA CreatedStep ==
    ASSUME Docker!BoundAssumption, DockerInv, Docker!Created
    PROVE  DockerInv'
  <1> USE DEF DockerInv
  <1>1. PICK p \in asked :
          /\ asked' = asked \ {p}
          /\ containers' = containers \cup {[id |-> made + 1, prefix |-> p.prefix,
                                 mounts |-> p.mounts, of |-> p.of, running |-> TRUE]}
    BY DEF Docker!Created
  <1>2. PICK n : n = made + 1  OBVIOUS
  <1>3. PICK yes \in BOOLEAN : yes = TRUE  OBVIOUS
  <1>4. PICK c : c = [id |-> n, prefix |-> p.prefix, mounts |-> p.mounts, of |-> p.of,
                      running |-> yes]
    OBVIOUS
  <1>5. /\ containers' = containers \cup {c} /\ made' = n
        /\ UNCHANGED <<owner, data, removed>>
    BY <1>1, <1>2, <1>3, <1>4 DEF Docker!Created
  <1>6. p \in Asked /\ made \in Nat /\ n \in Nat
    <2>1. p \in Asked /\ made \in Nat  BY DEF DockerTypes
    <2> QED BY <2>1, <1>2
  <1>7. c \in Made /\ c.id = n /\ c.prefix = p.prefix /\ c.mounts = p.mounts /\ c.of = p.of
    BY <1>4, <1>6 DEF Made, Asked
  <1>8. Named(p) /\ Isolated(p)  BY DEF DockerNames
  <1>9. DockerTypes'  BY <1>1, <1>5, <1>6, <1>7 DEF DockerTypes
  <1>10. DockerCounts'
    <2>1. IsFiniteSet(asked \ {p}) /\ Cardinality(asked \ {p}) = Cardinality(asked) - 1
      BY FS_RemoveElement DEF DockerCounts
    <2>2. Cardinality(asked) \in Nat  BY FS_CardinalityType DEF DockerCounts
    <2>3. made + Cardinality(asked) <= MaxContainers  BY DEF DockerCounts
    <2>4. n + (Cardinality(asked) - 1) = made + Cardinality(asked)
      BY <2>2, <1>2, <1>6
    <2> QED BY <2>1, <2>3, <2>4, <1>1, <1>5 DEF DockerCounts
  <1>11. \A d \in containers : d.id \in 1 .. made  BY DEF DockerNames
  <1>12. DockerNames'
    <2>1. Named(c) /\ Isolated(c)  BY <1>7, <1>8 DEF Named, Isolated
    <2>2. \A d \in containers' : Named(d)' /\ Isolated(d)' /\ d.id \in 1 .. made'
      BY <2>1, <1>2, <1>5, <1>6, <1>7, <1>11 DEF DockerNames, Named, Isolated
    <2>3. \A d, e \in containers' : d.id = e.id => d = e
      BY <1>2, <1>5, <1>6, <1>7, <1>11 DEF DockerNames
    <2>4. \A q \in asked' : Named(q)' /\ Isolated(q)'
      BY <1>1, <1>5 DEF DockerNames, Named, Isolated
    <2> QED BY <2>2, <2>3, <2>4, <1>5 DEF DockerNames
  <1>13. \A u \in Owners : n \notin owner[u].todo /\ n \notin owner[u].seen
    BY <1>2, <1>6 DEF Cleanup
  <1>14. DockerOwn'  BY <1>5, <1>7, <1>13 DEF DockerOwn
  <1>15. ASSUME NEW u \in Owners
         PROVE  Cleanup(owner'[u], containers', made')
    <2>1. PICK w : w = owner[u]  OBVIOUS
    <2>2. Cleanup(w, containers, made) /\ n \notin w.todo /\ n \notin w.seen
      BY <2>1, <1>13
    <2>3. w.todo \subseteq 1 .. n /\ w.seen \subseteq 1 .. n
      BY <2>2, <1>2, <1>6 DEF Cleanup
    <2>4. Cleanup(w, containers \cup {c}, n)  BY <2>2, <2>3, <1>7 DEF Cleanup
    <2> QED BY <2>1, <2>4, <1>5
  <1> QED BY <1>9, <1>10, <1>12, <1>14, <1>15

LEMMA ListStep ==
    ASSUME DockerInv, NEW t \in Owners, Docker!List(t)
    PROVE  DockerInv'
  <1> USE DEF DockerInv
  <1>1. owner[t] \in Worked /\ Cleanup(owner[t], containers, made) /\ owner[t].step = "over"
    BY DEF DockerTypes, Docker!List, Docker!At
  <1>2. PICK ids : ids = {c.id : c \in {c \in containers : c.prefix = <<"scopex", owner[t].agent>>}}
    OBVIOUS
  <1>3. PICK seen : seen = {c.id : c \in {c \in containers : owner[c.of].agent = owner[t].agent}}
    OBVIOUS
  <1>4. PICK no \in BOOLEAN : no = FALSE  OBVIOUS
  <1>5. \A c \in containers : /\ c.id \in 1 .. made /\ c.of \in Owners
                              /\ c.prefix = <<"scopex", owner[c.of].agent>>
    BY DEF DockerNames, Named, DockerTypes, Made
  <1>6. made \in Nat  BY DEF DockerTypes
  <1>7. ids = seen
    <2>1. \A c \in containers : (c.prefix = <<"scopex", owner[t].agent>>
                                 <=> owner[c.of].agent = owner[t].agent)
      BY <1>5
    <2> QED BY <2>1, <1>2, <1>3
  <1>8. seen \subseteq 1 .. made  BY <1>3, <1>5
  <1>9. \A c \in containers : c.id \in seen => owner[c.of].agent = owner[t].agent
    BY <1>3 DEF DockerNames
  <1>10. \A c \in containers : c.id \in owner[t].todo => owner[c.of].agent = owner[t].agent
    BY DEF DockerOwn
  <1>11. UNCHANGED <<data, asked, made, containers, removed>>
    BY DEF Docker!List, Docker!Docker
  <1>12. CASE owner' = [owner EXCEPT ![t].step = "stop", ![t].todo = ids, ![t].seen = seen,
                                     ![t].report = Docker!ReportOf(t, ids, 0, no)]
    <2> DEFINE r == [ids |-> ids, warnings |-> 0, error |-> no, written |-> no]
    <2> DEFINE w == Task("stop", owner[t].agent, ids, r, seen)
    <2>1. Docker!ReportOf(t, ids, 0, no) = r  BY <1>4 DEF Docker!ReportOf
    <2>2. r \in Reports /\ r.ids = ids /\ r.warnings = 0 /\ r.error = no /\ r.written = no
      BY <1>6, <1>7, <1>8 DEF Reports
    <2> HIDE DEF r
    <2>3. owner' = [owner EXCEPT ![t] =
             [[[[owner[t] EXCEPT !.step = "stop"] EXCEPT !.todo = ids] EXCEPT !.seen = seen]
                EXCEPT !.report = r]]
      BY <1>12, <2>1 DEF DockerTypes
    <2>4. [[[[owner[t] EXCEPT !.step = "stop"] EXCEPT !.todo = ids] EXCEPT !.seen = seen]
             EXCEPT !.report = r] = w
      <3>1. \A o, e, x : [[[[owner[t] EXCEPT !.step = "stop"] EXCEPT !.todo = o] EXCEPT !.seen = e]
                             EXCEPT !.report = x] = Task("stop", owner[t].agent, o, x, e)
        BY <1>1, ListedAs, Zenon
      <3> QED BY <3>1, Zenon
    <2>5. /\ w \in Worked /\ w.step = "stop" /\ w.agent = owner[t].agent /\ w.todo = ids
          /\ w.report = r /\ w.seen = seen
      BY <1>1, <1>6, <1>7, <1>8, <2>2, TaskFields DEF Worked, Task
    <2> HIDE DEF w
    <2>6. Cleanup(w, containers, made)
      BY <2>2, <2>5, <1>4, <1>7, <1>8 DEF Cleanup, Cleaning
    <2>7. \A c \in containers : c.id \in w.todo => owner[c.of].agent = owner[t].agent
      BY <2>5, <1>7, <1>9
    <2>8. owner' = [owner EXCEPT ![t] = w]  BY <2>3, <2>4
    <2> QED BY <2>5, <2>6, <2>7, <2>8, <1>1, <1>11, TaskMovesOn
  <1>13. CASE owner' = [owner EXCEPT ![t].step = "write", ![t].seen = seen,
                                     ![t].report = Docker!ReportOf(t, {}, 1, no)]
    <2> DEFINE r == [ids |-> {}, warnings |-> 1, error |-> no, written |-> no]
    <2> DEFINE w == Task("write", owner[t].agent, owner[t].todo, r, seen)
    <2>1. Docker!ReportOf(t, {}, 1, no) = r  BY <1>4 DEF Docker!ReportOf
    <2>2. r \in Reports /\ r.warnings = 1 /\ r.written = no  BY DEF Reports
    <2> HIDE DEF r
    <2>3. owner' = [owner EXCEPT ![t] =
             [[[owner[t] EXCEPT !.step = "write"] EXCEPT !.seen = seen] EXCEPT !.report = r]]
      BY <1>13, <2>1 DEF DockerTypes
    <2>4. [[[owner[t] EXCEPT !.step = "write"] EXCEPT !.seen = seen] EXCEPT !.report = r] = w
      <3>1. \A e, x : [[[owner[t] EXCEPT !.step = "write"] EXCEPT !.seen = e] EXCEPT !.report = x]
                         = Task("write", owner[t].agent, owner[t].todo, x, e)
        BY <1>1, UnlistedAs, Zenon
      <3> QED BY <3>1, Zenon
    <2>5. /\ w \in Worked /\ w.step = "write" /\ w.agent = owner[t].agent
          /\ w.todo = owner[t].todo /\ w.report = r /\ w.seen = seen
      BY <1>1, <1>6, <1>8, <2>2, TaskFields DEF Worked, Task
    <2> HIDE DEF w
    <2>6. Cleanup(w, containers, made)
      BY <2>2, <2>5, <1>1, <1>4, <1>8 DEF Cleanup, Cleaning
    <2>7. owner' = [owner EXCEPT ![t] = w]  BY <2>3, <2>4
    <2> QED BY <2>5, <2>6, <2>7, <1>1, <1>10, <1>11, TaskMovesOn
  <1>14. \/ owner' = [owner EXCEPT ![t].step = "stop", ![t].todo = ids, ![t].seen = seen,
                                   ![t].report = Docker!ReportOf(t, ids, 0, no)]
         \/ owner' = [owner EXCEPT ![t].step = "write", ![t].seen = seen,
                                   ![t].report = Docker!ReportOf(t, {}, 1, no)]
    BY <1>2, <1>3, <1>4, Zenon DEF Docker!List, Docker!Matching, Docker!CleanupPrefix
  <1> QED BY <1>12, <1>13, <1>14

\* The three ways of a cleanup's next step: on, on with a warning, or out.
LEMMA FileStep ==
    ASSUME DockerInv, NEW t \in Owners, Docker!File(t)
    PROVE  DockerInv'
  <1>1. /\ owner[t] \in Worked /\ Cleanup(owner[t], containers, made)
        /\ owner[t].step = "write"
        /\ UNCHANGED <<data, asked, made, containers, removed>>
    BY DEF DockerInv, DockerTypes, Docker!File, Docker!At, Docker!Docker
  <1>2. \A c \in containers : c.id \in owner[t].todo => owner[c.of].agent = owner[t].agent
    BY DEF DockerInv, DockerOwn
  <1>3. PICK yes \in BOOLEAN : yes = TRUE  OBVIOUS
  <1>4. PICK no \in BOOLEAN : no = FALSE  OBVIOUS
  <1> DEFINE moved(r) == Task("done", owner[t].agent, owner[t].todo, r, owner[t].seen)
  <1>5. ASSUME NEW r \in Reports, owner' = [owner EXCEPT ![t] = moved(r)],
               Cleanup(moved(r), containers, made)
        PROVE  DockerInv'
    <2>1. PICK w : w = moved(r)  OBVIOUS
    <2>2. w \in Worked  BY <1>1, <2>1 DEF Worked, Task
    <2>3. w.step = "done" /\ w.agent = owner[t].agent /\ w.todo = owner[t].todo
      BY <2>1, TaskFields
    <2>4. owner' = [owner EXCEPT ![t] = w] /\ Cleanup(w, containers, made)
      BY <1>5, <2>1
    <2> HIDE DEF moved
    <2> QED BY <1>1, <1>2, <2>2, <2>3, <2>4, TaskMovesOn
  <1>6. [owner[t] EXCEPT !.step = "done"] = moved(owner[t].report)
    BY <1>1, StepOf, Zenon
  <1>7. \A r : [[owner[t] EXCEPT !.step = "done"] EXCEPT !.report = r] = moved(r)
    BY <1>1, ReportedAs, Zenon
  <1>8. CASE owner' = [owner EXCEPT ![t].step = "done", ![t].report.written = yes]
    <2>1. PICK r : r = [owner[t].report EXCEPT !.written = yes]  OBVIOUS
    <2>2. owner[t].report \in Reports  BY <1>1 DEF Worked
    <2>3. r \in Reports /\ r.ids = owner[t].report.ids /\ r.error = owner[t].report.error
          /\ r.warnings = owner[t].report.warnings
      BY <2>1, <2>2 DEF Reports
    <2>4. owner' = [owner EXCEPT ![t] =
             [[owner[t] EXCEPT !.step = "done"] EXCEPT !.report = r]]
      BY <1>8, <2>1, <1>1 DEF DockerInv, DockerTypes, Worked
    <2>5. owner' = [owner EXCEPT ![t] = moved(r)]  BY <1>7, <2>4, Zenon
    <2>6. Cleanup(moved(r), containers, made)
      BY <1>1, <2>3, TaskFields DEF Cleanup, Cleaning
    <2> QED BY <1>5, <2>3, <2>5, <2>6
  <1>9. CASE owner' = [owner EXCEPT ![t].step = "done",
                   ![t].report = [Docker!ReportOf(t, {}, 0, yes) EXCEPT !.written = yes]]
    <2>1. PICK r : r = [Docker!ReportOf(t, {}, 0, yes) EXCEPT !.written = yes]
      OBVIOUS
    <2>2. Docker!ReportOf(t, {}, 0, yes) = [ids |-> {}, warnings |-> 0, error |-> yes,
                                            written |-> no]
      BY <1>4 DEF Docker!ReportOf
    <2>3. r = [ids |-> {}, warnings |-> 0, error |-> yes, written |-> yes]
      BY <2>1, <2>2
    <2>7. r \in Reports /\ r.error  BY <1>3, <2>3 DEF Reports
    <2>4. owner' = [owner EXCEPT ![t] =
             [[owner[t] EXCEPT !.step = "done"] EXCEPT !.report = r]]
      BY <1>9, <2>1, <1>1 DEF DockerInv, DockerTypes, Worked
    <2>5. owner' = [owner EXCEPT ![t] = moved(r)]  BY <1>7, <2>4, Zenon
    <2>6. Cleanup(moved(r), containers, made)
      BY <1>1, <2>7, TaskFields DEF Cleanup, Cleaning
    <2> QED BY <1>5, <2>7, <2>5, <2>6
  <1>10. CASE Docker!Goes(t, "done")  BY <1>1, <1>10, GoesStep DEF Docker!Docker
  <1>11. \/ owner' = [owner EXCEPT ![t].step = "done", ![t].report.written = yes]
         \/ owner' = [owner EXCEPT ![t].step = "done",
                   ![t].report = [Docker!ReportOf(t, {}, 0, yes) EXCEPT !.written = yes]]
         \/ Docker!Goes(t, "done")
    BY <1>3, Zenon DEF Docker!File
  <1> QED BY <1>8, <1>9, <1>10, <1>11

\* A command of the cleanup for the container x, of which it may take effect.
LEMMA StopStep ==
    ASSUME DockerInv, NEW t \in Owners, Docker!Stop(t)
    PROVE  DockerInv'
  <1>1. /\ owner[t] \in Worked /\ Cleanup(owner[t], containers, made)
        /\ owner[t].step = "stop" /\ owner[t].todo # {}
        /\ UNCHANGED <<data, asked, made, removed>>
    BY DEF DockerInv, DockerTypes, Docker!Stop, Docker!At
  <1>2. PICK yes \in BOOLEAN : yes = TRUE  OBVIOUS
  <1>3. PICK no \in BOOLEAN : no = FALSE  OBVIOUS
  <1>4. PICK x : x = Docker!Current(t)  OBVIOUS
  <1>5. /\ containers' \in SUBSET Made
        /\ \A c \in containers' : \E d \in containers :
              c.id = d.id /\ c.of = d.of /\ c.prefix = d.prefix /\ c.mounts = d.mounts
        /\ \A c, d \in containers' : c.id = d.id => c = d
    <2> DEFINE still(c) == IF c.id = x THEN [c EXCEPT !.running = no] ELSE c
    <2>1. containers' = containers \/ containers' = {still(c) : c \in containers}
      BY <1>3, <1>4 DEF Docker!Stop, Docker!Stopped
    <2>2. CASE containers' = containers
      BY <2>2 DEF DockerInv, DockerTypes, DockerNames
    <2>3. CASE containers' = {still(c) : c \in containers}
      <3>1. \A c \in containers : /\ still(c) \in Made /\ still(c).id = c.id /\ still(c).of = c.of
                                  /\ still(c).prefix = c.prefix /\ still(c).mounts = c.mounts
        BY DEF DockerInv, DockerTypes, Made
      <3> HIDE DEF still
      <3>2. \A c, d \in containers : still(c).id = still(d).id => still(c) = still(d)
        BY <3>1 DEF DockerInv, DockerNames
      <3> QED BY <2>3, <3>1, <3>2
    <2> QED BY <2>1, <2>2, <2>3
  <1>6. \A c \in containers' : \E d \in containers : c.id = d.id  BY <1>5
  <1>7. \A c \in containers : c.id \in owner[t].todo => owner[c.of].agent = owner[t].agent
    BY DEF DockerInv, DockerOwn
  <1>8. ASSUME NEW next \in {"rm", "write"}, NEW r \in Reports,
               owner' = [owner EXCEPT ![t] =
                           Task(next, owner[t].agent, owner[t].todo, r, owner[t].seen)],
               ~r.written, next = "write" => r.error,
               next = "rm" => ~r.error /\ r.ids = owner[t].report.ids
                              /\ (r.warnings = 0 => owner[t].report.warnings = 0)
        PROVE  DockerInv'
    <2>1. PICK w : w = Task(next, owner[t].agent, owner[t].todo, r, owner[t].seen)
      OBVIOUS
    <2>2. w \in Worked  BY <1>1, <2>1 DEF Worked, Task
    <2>3. w.step = next /\ w.agent = owner[t].agent /\ w.todo = owner[t].todo /\ w.report = r
          /\ w.seen = owner[t].seen
      BY <2>1, TaskFields
    <2>4. owner' = [owner EXCEPT ![t] = w]  BY <1>8, <2>1
    <2>5. Cleanup(w, containers', made)
      BY <1>1, <1>6, <1>8, <2>3 DEF Cleanup, Cleaning
    <2>6. \A c \in containers : c.id \in w.todo => owner[c.of].agent = owner[t].agent
      BY <1>7, <2>3
    <2>7. /\ DockerNames' /\ DockerCounts'
          /\ owner' \in [Owners -> Worked]
          /\ \A u \in Owners : /\ owner'[u].agent = owner[u].agent
                               /\ owner[u].step # "new" => owner'[u].step # "new"
          /\ \A u \in Owners : Cleanup(owner'[u], containers', made')
          /\ \A u \in Owners : \A c \in containers' :
                c.id \in owner'[u].todo => owner'[c.of].agent = owner'[u].agent
          /\ \A u \in Owners : owner'[u].todo # {} => owner'[u].step # "new"
      BY <1>1, <1>5, <1>8, <2>2, <2>3, <2>4, <2>5, <2>6, TaskMoves
    <2>8. DockerTypes'  BY <1>1, <1>5, <2>7 DEF DockerInv, DockerTypes
    <2>9. \A u \in removed' : /\ owner'[u[1]].step # "new" /\ owner'[u[2].of].step # "new"
                              /\ owner'[u[1]].agent = owner'[u[2].of].agent
      <3> TAKE u \in removed'
      <3>1. u \in removed /\ u[1] \in Owners /\ u[2].of \in Owners
        BY <1>1 DEF DockerInv, DockerTypes, Made
      <3> QED BY <2>7, <3>1 DEF DockerInv, DockerOwn
    <2> QED BY <2>7, <2>8, <2>9 DEF DockerInv, DockerOwn
  <1>9. CASE Docker!Goes(t, "rm")
    <2>1. owner' = [owner EXCEPT ![t] = [owner[t] EXCEPT !.step = "rm"]]
      BY <1>9 DEF DockerInv, DockerTypes, Docker!Goes
    <2>2. owner' = [owner EXCEPT ![t] = Task("rm", owner[t].agent, owner[t].todo,
                                             owner[t].report, owner[t].seen)]
      BY <2>1, <1>1, StepOf, Zenon
    <2>3. owner[t].report \in Reports  BY <1>1 DEF Worked
    <2>4. ~owner[t].report.error /\ ~owner[t].report.written
      BY <1>1 DEF Cleanup, Cleaning
    <2> QED BY <1>8, <2>2, <2>3, <2>4
  <1>10. CASE owner' = Docker!Warned(t, "rm")
    <2>1. PICK r : r = [owner[t].report EXCEPT !.warnings = @ + 1]  OBVIOUS
    <2>2. owner[t].report \in Reports  BY <1>1 DEF Worked
    <2>3. r \in Reports /\ r.ids = owner[t].report.ids /\ r.error = owner[t].report.error
          /\ r.written = owner[t].report.written /\ r.warnings # 0
      BY <2>1, <2>2 DEF Reports
    <2>4. owner' = [owner EXCEPT ![t] =
             [[owner[t] EXCEPT !.step = "rm"] EXCEPT !.report = r]]
      BY <1>10, <2>1, <1>1 DEF DockerInv, DockerTypes, Worked, Docker!Warned
    <2>5. owner' = [owner EXCEPT ![t] = Task("rm", owner[t].agent, owner[t].todo,
                                             r, owner[t].seen)]
      BY <2>4, <1>1, ReportedAs, Zenon
    <2>6. ~r.error /\ ~r.written  BY <1>1, <2>3 DEF Cleanup, Cleaning
    <2> QED BY <1>8, <2>3, <2>5, <2>6
  <1>11. CASE owner' = Docker!TimedOut(t)
    <2>1. PICK r : r = [ids |-> {}, warnings |-> 0, error |-> yes, written |-> no]
      OBVIOUS
    <2>2. r \in Reports /\ r.error /\ ~r.written  BY <1>2, <1>3, <2>1 DEF Reports
    <2>3. Docker!ReportOf(t, {}, 0, yes) = r  BY <2>1, <1>3 DEF Docker!ReportOf
    <2>4. owner' = [owner EXCEPT ![t].step = "write",
                                 ![t].report = Docker!ReportOf(t, {}, 0, yes)]
      BY <1>11, <1>2, Zenon DEF Docker!TimedOut
    <2>5. owner' = [owner EXCEPT ![t] =
             [[owner[t] EXCEPT !.step = "write"] EXCEPT !.report = r]]
      BY <2>3, <2>4 DEF DockerInv, DockerTypes, Worked
    <2>6. owner' = [owner EXCEPT ![t] = Task("write", owner[t].agent, owner[t].todo,
                                             r, owner[t].seen)]
      BY <2>5, <1>1, ReportedAs, Zenon
    <2> QED BY <1>8, <2>2, <2>6
  <1>12. Docker!Goes(t, "rm") \/ owner' = Docker!Warned(t, "rm") \/ owner' = Docker!TimedOut(t)
    BY DEF Docker!Stop
  <1> QED BY <1>9, <1>10, <1>11, <1>12

LEMMA RemoveStep ==
    ASSUME DockerInv, NEW t \in Owners, Docker!Remove(t)
    PROVE  DockerInv'
  <1>1. /\ owner[t] \in Worked /\ Cleanup(owner[t], containers, made)
        /\ owner[t].step = "rm" /\ UNCHANGED <<data, asked, made>>
    BY DEF DockerInv, DockerTypes, Docker!Remove, Docker!At
  <1>2. PICK yes \in BOOLEAN : yes = TRUE  OBVIOUS
  <1>3. PICK no \in BOOLEAN : no = FALSE  OBVIOUS
  <1>4. PICK x : x = Docker!Current(t)  OBVIOUS
  <1>5. x \in owner[t].todo  BY <1>1, <1>4, CurrentIsLeft DEF Cleanup
  <1>6. \A c \in containers : c.id \in owner[t].todo => owner[c.of].agent = owner[t].agent
    BY DEF DockerInv, DockerOwn
  <1>7. \/ /\ containers' = {c \in containers : c.id # x}
           /\ removed' = removed \cup {<<t, c>> : c \in containers \ containers'}
        \/ containers' = containers /\ removed' = removed
    BY <1>4 DEF Docker!Remove, Docker!Gone, Docker!Kept
  <1>8. containers' \subseteq containers  BY <1>7
  <1>9. \A p \in removed' : p \in removed \/ \E c \in containers : p = <<t, c>> /\ c.id = x
    BY <1>7
  <1>10. /\ containers' \in SUBSET Made
         /\ \A c \in containers' : \E d \in containers :
              c.id = d.id /\ c.of = d.of /\ c.prefix = d.prefix /\ c.mounts = d.mounts
         /\ \A c, d \in containers' : c.id = d.id => c = d
    BY <1>8 DEF DockerInv, DockerTypes, DockerNames
  <1>11. ASSUME NEW next \in {"stop", "write"}, NEW o \in SUBSET owner[t].todo, NEW r \in Reports,
                owner' = [owner EXCEPT ![t] =
                            Task(next, owner[t].agent, o, r, owner[t].seen)],
                ~r.written, next = "write" => r.error,
                next = "stop" =>
                  /\ ~r.error /\ r.ids = owner[t].report.ids
                  /\ r.warnings = 0 => /\ owner[t].report.warnings = 0
                                       /\ \A c \in containers' : c.id # x
                                       /\ o = owner[t].todo \ {x}
         PROVE  DockerInv'
    <2>1. PICK w : w = Task(next, owner[t].agent, o, r, owner[t].seen)  OBVIOUS
    <2>2. w \in Worked  BY <1>1, <1>11, <2>1 DEF Worked, Task
    <2>3. w.step = next /\ w.agent = owner[t].agent /\ w.todo = o /\ w.report = r
          /\ w.seen = owner[t].seen
      BY <2>1, TaskFields
    <2>4. owner' = [owner EXCEPT ![t] = w]  BY <1>11, <2>1
    <2>5. Cleanup(w, containers', made)
      BY <1>1, <1>8, <1>11, <2>3 DEF Cleanup, Cleaning
    <2>6. \A c \in containers : c.id \in w.todo => owner[c.of].agent = owner[t].agent
      BY <1>6, <2>3
    <2>7. /\ DockerNames' /\ DockerCounts'
          /\ owner' \in [Owners -> Worked]
          /\ \A u \in Owners : /\ owner'[u].agent = owner[u].agent
                               /\ owner[u].step # "new" => owner'[u].step # "new"
          /\ \A u \in Owners : Cleanup(owner'[u], containers', made')
          /\ \A u \in Owners : \A c \in containers' :
                c.id \in owner'[u].todo => owner'[c.of].agent = owner'[u].agent
          /\ \A u \in Owners : owner'[u].todo # {} => owner'[u].step # "new"
      BY <1>1, <1>10, <2>2, <2>3, <2>4, <2>5, <2>6, TaskMoves
    <2>8. DockerTypes'
      <3>1. ASSUME NEW u \in removed'
            PROVE  u \in Owners \X Made
        <4>1. CASE u \in removed  BY <4>1 DEF DockerInv, DockerTypes
        <4>2. CASE \E c \in containers : u = <<t, c>> /\ c.id = x
          <5>1. PICK c \in containers : u = <<t, c>>  BY <4>2
          <5>2. c \in Made  BY DEF DockerInv, DockerTypes
          <5> QED BY <5>1, <5>2
        <4> QED BY <1>9, <4>1, <4>2
      <3> QED BY <1>1, <1>10, <2>7, <3>1 DEF DockerInv, DockerTypes
    <2>9. \A u \in removed' : /\ owner'[u[1]].step # "new" /\ owner'[u[2].of].step # "new"
                              /\ owner'[u[1]].agent = owner'[u[2].of].agent
      <3> TAKE u \in removed'
      <3>1. CASE u \in removed
        <4>1. u[1] \in Owners /\ u[2].of \in Owners
          BY <3>1 DEF DockerInv, DockerTypes, Made
        <4> QED BY <2>7, <3>1, <4>1 DEF DockerInv, DockerOwn
      <3>2. CASE \E c \in containers : u = <<t, c>> /\ c.id = x
        <4>1. PICK c \in containers : u = <<t, c>> /\ c.id = x  BY <3>2
        <4>2. u[1] = t /\ u[2] = c /\ c.of \in Owners
          BY <4>1 DEF DockerInv, DockerTypes, Made
        <4>3. owner[c.of].agent = owner[t].agent /\ owner[c.of].step # "new"
          BY <4>1, <1>5, <1>6 DEF DockerInv, DockerNames, Named
        <4> QED BY <2>7, <4>2, <4>3, <1>1
      <3> QED BY <1>9, <3>1, <3>2
    <2> QED BY <2>7, <2>8, <2>9 DEF DockerInv, DockerOwn
  <1>12. owner[t].report \in Reports  BY <1>1 DEF Worked
  <1>13. ~owner[t].report.error /\ ~owner[t].report.written
    BY <1>1 DEF Cleanup, Cleaning
  <1>14. PICK o : o = owner[t].todo \ {x}  OBVIOUS
  <1>15. o \in SUBSET owner[t].todo  BY <1>14
  <1>16. CASE owner' = Docker!Next1(t) /\ containers' = {c \in containers : c.id # x}
    <2>1. owner' = [owner EXCEPT ![t] = [[owner[t] EXCEPT !.step = "stop"] EXCEPT !.todo = o]]
      BY <1>16, <1>14, <1>4, <1>1 DEF DockerInv, DockerTypes, Worked, Docker!Next1
    <2>2. owner' = [owner EXCEPT ![t] = Task("stop", owner[t].agent, o, owner[t].report,
                                             owner[t].seen)]
      BY <2>1, <1>1, LeftAs, Zenon
    <2>3. \A c \in containers' : c.id # x  BY <1>16
    <2> QED BY <1>11, <1>12, <1>13, <1>14, <1>15, <2>2, <2>3
  <1>17. CASE owner' = [Docker!Warned(t, "stop") EXCEPT ![t].todo = @ \ {Docker!Current(t)}]
    <2>1. PICK r : r = [owner[t].report EXCEPT !.warnings = @ + 1]  OBVIOUS
    <2>2. r \in Reports /\ r.ids = owner[t].report.ids /\ r.error = owner[t].report.error
          /\ r.written = owner[t].report.written /\ r.warnings # 0
      BY <2>1, <1>12 DEF Reports
    <2>3. Docker!Warned(t, "stop") = [owner EXCEPT ![t] =
             [[owner[t] EXCEPT !.step = "stop"] EXCEPT !.report = r]]
      BY <2>1, <1>1 DEF DockerInv, DockerTypes, Worked, Docker!Warned
    <2>4. PICK v : v = Task("stop", owner[t].agent, owner[t].todo, r, owner[t].seen)
      OBVIOUS
    <2>5. Docker!Warned(t, "stop") = [owner EXCEPT ![t] = v]
      BY <2>3, <2>4, <1>1, ReportedAs, Zenon
    <2>6. v.todo = owner[t].todo /\ v \in Worked
      BY <1>1, <2>2, <2>4 DEF Task, Worked
    <2>7. owner' = [owner EXCEPT ![t] = [v EXCEPT !.todo = o]]
      BY <1>17, <2>5, <2>6, <1>4, <1>14 DEF DockerInv, DockerTypes
    <2>8. [v EXCEPT !.todo = o] = Task("stop", owner[t].agent, o, r, owner[t].seen)
      BY <2>4, TodoOf
    <2> QED BY <1>11, <1>13, <1>15, <2>2, <2>7, <2>8
  <1>18. CASE owner' = Docker!TimedOut(t)
    <2>1. PICK r : r = [ids |-> {}, warnings |-> 0, error |-> yes, written |-> no]
      OBVIOUS
    <2>2. r \in Reports /\ r.error /\ ~r.written  BY <1>2, <1>3, <2>1 DEF Reports
    <2>3. Docker!ReportOf(t, {}, 0, yes) = r  BY <2>1, <1>3 DEF Docker!ReportOf
    <2>4. owner' = [owner EXCEPT ![t].step = "write",
                                 ![t].report = Docker!ReportOf(t, {}, 0, yes)]
      BY <1>18, <1>2, Zenon DEF Docker!TimedOut
    <2>5. owner' = [owner EXCEPT ![t] =
             [[owner[t] EXCEPT !.step = "write"] EXCEPT !.report = r]]
      BY <2>3, <2>4 DEF DockerInv, DockerTypes, Worked
    <2>6. owner' = [owner EXCEPT ![t] = Task("write", owner[t].agent, owner[t].todo,
                                             r, owner[t].seen)]
      BY <2>5, <1>1, ReportedAs, Zenon
    <2>7. owner[t].todo \in SUBSET owner[t].todo  OBVIOUS
    <2> QED BY <1>11, <2>2, <2>6, <2>7
  <1>19. \/ owner' = Docker!Next1(t) /\ containers' = {c \in containers : c.id # x}
         \/ owner' = [Docker!Warned(t, "stop") EXCEPT ![t].todo = @ \ {Docker!Current(t)}]
         \/ owner' = Docker!TimedOut(t)
    BY <1>4, Zenon DEF Docker!Remove, Docker!Gone
  <1> QED BY <1>16, <1>17, <1>18, <1>19

LEMMA DockerStep ==
    ASSUME Docker!BoundAssumption, DockerInv, [Docker!Next]_dockerVars
    PROVE  DockerInv'
  <1>1. CASE UNCHANGED dockerVars
    BY <1>1 DEF dockerVars, DockerInv, DockerTypes, DockerCounts, DockerNames, DockerOwn,
                Named, Isolated
  <1>2. CASE Docker!Created  BY <1>2, CreatedStep
  <1>3. ASSUME NEW t \in Owners, Docker!Task(t)
        PROVE  DockerInv'
    BY <1>3, BeginStep, TurnSteps, AskStep, ListStep, StopStep, RemoveStep, FileStep
       DEF Docker!Task
  <1> QED BY <1>1, <1>2, <1>3 DEF Docker!Next

LEMMA DockerIsSound ==
    ASSUME Docker!BoundAssumption, DockerInv
    PROVE  /\ Docker!TypeOK /\ Docker!CleanReportsTrue
           /\ Docker!OthersUntouched /\ Docker!MountsIsolated
  <1>1. made \in 0 .. MaxContainers
    <2>1. Cardinality(asked) \in Nat /\ made \in Nat /\ made + Cardinality(asked) <= MaxContainers
      BY FS_CardinalityType DEF DockerInv, DockerCounts, DockerTypes
    <2> QED BY <2>1 DEF Docker!BoundAssumption
  <1>2. Docker!TypeOK
    <2>1. \A t \in Owners : owner[t].todo \subseteq 1 .. made
      BY DEF DockerInv, Cleanup
    <2>2. 1 .. made \subseteq 1 .. MaxContainers  BY <1>1 DEF Docker!BoundAssumption
    <2> QED BY <1>1, <2>1, <2>2 DEF Docker!TypeOK, DockerInv, DockerNames
  <1>3. Docker!CleanReportsTrue  BY DEF Docker!CleanReportsTrue, DockerInv, Cleanup
  <1>4. Docker!OthersUntouched  BY DEF Docker!OthersUntouched, DockerInv, DockerOwn
  <1>5. Docker!MountsIsolated
    BY DEF Docker!MountsIsolated, DockerInv, DockerNames, Isolated
  <1> QED BY <1>2, <1>3, <1>4, <1>5

-----------------------------------------------------------------------------
(* Provision: the invariant.                                                 *)

Skills == Starts!Builtin \cup Starts!Custom
Copies == {"workspace", "locator"}

\* A process record has its four fields, whatever its binds are.
Proc(st, c, n, b) == [step |-> st, command |-> c, next |-> n, binds |-> b]
Fields(p) == p = Proc(p.step, p.command, p.next, p.binds)

StartsTypes ==
    /\ apiLock \in Servers \cup {NoOne}
    /\ proc = [s \in Servers |-> proc[s]]
    /\ \A s \in Servers : /\ Fields(proc[s]) /\ proc[s].step \in Starts!Steps
                          /\ proc[s].next \in Nat \ {0}
                          /\ proc[s].command \in MCCommands \cup {NoOne}
                          /\ proc[s].step # "down" => proc[s].command \in MCCommands
    /\ skill \in [Skills -> Starts!Content]
    /\ catalog \in [Copies -> Starts!Content]
    /\ record \in [Served -> Starts!Records]
    /\ thread \in [Served -> Servers \cup {NoOne}]

\* The steps that a process takes with the lock.
Locked == {"skills", "copying", "catalog", "locator", "binds", "reconcile", "serving"}
Skilled == {"catalog", "locator", "binds", "reconcile", "serving"}
Catalogued == {"binds", "reconcile", "serving"}

OneHolder == \A s \in Servers : proc[s].step \in Locked => apiLock = s

\* A process that waits for the lock has prepared nothing.
Begun == \A s \in Servers : proc[s].step = "lock" => proc[s].next = 1

\* What a process binds for its command.
Bound(command) == Starts!Merged(Starts!CatalogBinds(command), command.overrides)

\* The work of process record p, as far as it has come, is in the skills sk and
\* the catalogs ct.
Prepared(p, sk, ct) ==
    LET names == p.command.skills IN
    /\ p.step \in {"skills", "copying"} =>
         \A i \in 1 .. Len(names) : i < p.next => sk[names[i]] = "whole"
    /\ p.step = "copying" => /\ p.next <= Len(names) /\ names[p.next] \in Starts!Builtin
                             /\ \A i \in 1 .. Len(names) : i < p.next => names[i] # names[p.next]
    /\ p.step \in Skilled => \A i \in 1 .. Len(names) : sk[names[i]] = "whole"
    /\ p.step = "locator" => ct["workspace"] = "whole"
    /\ p.step \in Catalogued =>
         /\ ct["workspace"] = "whole"
         /\ (\E i \in 1 .. Len(names) : names[i] = "data-locator")
              => ct["locator"] = "whole"
    /\ p.step \in {"reconcile", "serving"} => p.binds = Bound(p.command)

\* A thread belongs to a process that serves or leaves; the process that serves
\* owns every unfinished record, and its threads have no other.
Owned ==
    /\ \A t \in Served : thread[t] # NoOne => proc[thread[t]].step \in {"serving", "leaving"}
    /\ \A s \in Servers, t \in Served :
         proc[s].step = "serving" =>
           (thread[t] = s <=> record[t] \in Starts!Unfinished)

StartsInv == /\ StartsTypes /\ OneHolder /\ Begun /\ Owned
             /\ \A n \in Starts!Custom : skill[n] # "partial"
             /\ \A s \in Servers : Prepared(proc[s], skill, catalog)

LEMMA CommandsFit ==
    \A c \in MCCommands : c.skills \in Seq(Skills)
  <1>1. "data-locator" \in Skills /\ "log-context" \in Skills /\ "custom" \in Skills
    BY DEF Skills, Starts!Builtin, Starts!Custom
  <1>2. /\ <<"data-locator", "log-context", "custom", "data-locator">> \in Seq(Skills)
        /\ <<"log-context">> \in Seq(Skills) /\ <<"custom">> \in Seq(Skills)
    BY <1>1
  <1>3. \A a, b, o : Command(a, b, o).skills = a  BY DEF Command
  <1>4. \A c \in MCCommands :
           c.skills \in {<<"data-locator", "log-context", "custom", "data-locator">>,
                         <<"log-context">>, <<"custom">>}
    BY <1>3 DEF MCCommands
  <1> QED BY <1>2, <1>4

LEMMA ProcFields ==
    ASSUME NEW q, Fields(q), NEW x, NEW y
    PROVE  /\ [q EXCEPT !.step = x] = Proc(x, q.command, q.next, q.binds)
           /\ [q EXCEPT !.next = x] = Proc(q.step, q.command, x, q.binds)
           /\ [[q EXCEPT !.step = x] EXCEPT !.next = y] = Proc(x, q.command, y, q.binds)
           /\ [[q EXCEPT !.step = x] EXCEPT !.binds = y] = Proc(x, q.command, q.next, y)
           /\ [[q EXCEPT !.step = x] EXCEPT !.command = y] = Proc(x, y, q.next, q.binds)
  <1>1. PICK st, c, n, b : st = q.step /\ c = q.command /\ n = q.next /\ b = q.binds
    OBVIOUS
  <1>2. q = Proc(st, c, n, b)  BY <1>1 DEF Fields
  <1>3. PICK f : f = [q EXCEPT !.step = x]  OBVIOUS
  <1>4. f = Proc(x, c, n, b)  BY <1>2, <1>3 DEF Proc
  <1>5. [q EXCEPT !.next = x] = Proc(st, c, x, b)  BY <1>2 DEF Proc
  <1>6. /\ [f EXCEPT !.next = y] = Proc(x, c, y, b)
        /\ [f EXCEPT !.binds = y] = Proc(x, c, n, y)
        /\ [f EXCEPT !.command = y] = Proc(x, y, n, b)
    BY <1>4 DEF Proc
  <1> QED BY <1>1, <1>3, <1>4, <1>5, <1>6, Zenon

LEMMA BindsOf ==
    ASSUME NEW q, Fields(q), NEW x, NEW y
    PROVE  [[q EXCEPT !.step = x] EXCEPT !.binds = y] = Proc(x, q.command, q.next, y)
  <1>1. PICK f : f = [q EXCEPT !.step = x]  OBVIOUS
  <1>2. f = Proc(x, q.command, q.next, q.binds)  BY <1>1, ProcFields, Zenon
  <1>3. [f EXCEPT !.binds = y] = Proc(x, q.command, q.next, y)  BY <1>2 DEF Proc
  <1> QED BY <1>1, <1>3, Zenon

LEMMA ProcIs ==
    ASSUME NEW st, NEW c, NEW n, NEW b, NEW p, p = Proc(st, c, n, b)
    PROVE  p.step = st /\ p.command = c /\ p.next = n /\ p.binds = b /\ Fields(p)
  BY DEF Proc, Fields

LEMMA StartsStart ==
    ASSUME Starts!NoOneAssumption, Starts!Init
    PROVE  StartsInv
  <1>1. \A s \in Servers : proc[s] = Proc("down", NoOne, 1, <<>>)
    BY DEF Starts!Init, Starts!Down, Proc
  <1>2. \A s \in Servers : /\ proc[s].step = "down" /\ proc[s].command = NoOne
                           /\ proc[s].next = 1 /\ Fields(proc[s])
    BY <1>1, ProcIs
  <1>3. StartsTypes
    <2>1. skill \in [Skills -> Starts!Content]
      BY DEF Starts!Init, Skills, Starts!Content
    <2>2. catalog \in [Copies -> Starts!Content]
      BY DEF Starts!Init, Copies, Starts!Content
    <2>3. record \in [Served -> Starts!Records] /\ thread \in [Served -> Servers \cup {NoOne}]
      BY DEF Starts!Init, Starts!Records
    <2>4. apiLock = NoOne /\ proc = [s \in Servers |-> proc[s]]  BY DEF Starts!Init
    <2> QED BY <1>2, <2>1, <2>2, <2>3, <2>4 DEF StartsTypes, Starts!Steps
  <1>4. OneHolder  BY <1>2 DEF OneHolder, Locked
  <1>5. Owned  BY <1>2 DEF Owned, Starts!Init
  <1>6. \A s \in Servers : Prepared(proc[s], skill, catalog)
    BY <1>2 DEF Prepared, Skilled, Catalogued
  <1>7. \A n \in Starts!Custom : skill[n] # "partial"  BY DEF Starts!Init
  <1>8. Begun  BY <1>2 DEF Begun
  <1> QED BY <1>3, <1>4, <1>5, <1>6, <1>7, <1>8 DEF StartsInv

LEMMA OnlyHolder ==
    ASSUME Starts!NoOneAssumption, StartsInv, NEW s \in Servers, NEW u \in Servers,
           proc[s].step \in Locked, u # s
    PROVE  proc[u].step \notin Locked /\ apiLock = s
  BY DEF StartsInv, OneHolder

\* Without the lock there is nothing to be prepared.
LEMMA FreeIsPrepared ==
    ASSUME NEW p, NEW sk, NEW ct, p.step \notin Locked
    PROVE  Prepared(p, sk, ct)
  BY DEF Prepared, Locked, Skilled, Catalogued

\* The process with the lock takes a step that starts and ends before it serves.
LEMMA HolderMoves ==
    ASSUME Starts!NoOneAssumption, StartsInv, NEW s \in Servers, NEW p, NEW sk, NEW ct,
           proc[s].step \in Locked \ {"serving"}, p.step \in Locked \ {"serving"},
           Fields(p), p.command = proc[s].command, p.next \in Nat \ {0},
           proc' = [proc EXCEPT ![s] = p], skill' = sk, catalog' = ct,
           sk \in [Skills -> Starts!Content], ct \in [Copies -> Starts!Content],
           \A n \in Starts!Custom : sk[n] # "partial",
           Prepared(p, sk, ct),
           UNCHANGED <<apiLock, record, thread>>
    PROVE  StartsInv'
  <1>1. \A u \in Servers : proc'[u] = IF u = s THEN p ELSE proc[u]
    BY DEF StartsInv, StartsTypes
  <1>2. proc' = [u \in Servers |-> proc'[u]]  BY DEF StartsInv, StartsTypes
  <1>3. proc[s].command \in MCCommands /\ p.step \in Starts!Steps /\ p.step # "down"
    BY DEF StartsInv, StartsTypes, Locked, Starts!Steps
  <1>4. StartsTypes'  BY <1>1, <1>2, <1>3 DEF StartsInv, StartsTypes
  <1>5. OneHolder'  BY <1>1 DEF StartsInv, OneHolder
  <1>6. Owned'
    <2>1. \A t \in Served : thread[t] # NoOne => thread[t] \in Servers /\ thread[t] # s
      BY DEF StartsInv, StartsTypes, Owned, Locked
    <2> QED BY <2>1, <1>1 DEF StartsInv, Owned
  <1>7. \A u \in Servers : Prepared(proc'[u], sk, ct)
    BY <1>1, OnlyHolder, FreeIsPrepared
  <1>8. Begun'  BY <1>1 DEF StartsInv, Begun, Locked
  <1> QED BY <1>4, <1>5, <1>6, <1>7, <1>8 DEF StartsInv

\* A process ends; the files are left as they are.
LEMMA EndsStep ==
    ASSUME Starts!NoOneAssumption, StartsInv, NEW s \in Servers, Starts!Ends(s),
           UNCHANGED <<skill, catalog, record>>
    PROVE  StartsInv'
  <1> DEFINE p == Proc("down", NoOne, 1, <<>>)
  <1>1. proc' = [proc EXCEPT ![s] = p]  BY DEF Starts!Ends, Starts!Down, Proc
  <1>2. p.step = "down" /\ p.command = NoOne /\ p.next = 1 /\ Fields(p)  BY ProcIs
  <1> HIDE DEF p
  <1>3. \A u \in Servers : proc'[u] = IF u = s THEN p ELSE proc[u]
    BY <1>1 DEF StartsInv, StartsTypes
  <1>4. proc' = [u \in Servers |-> proc'[u]]  BY <1>1 DEF StartsInv, StartsTypes
  <1>5. /\ apiLock' = IF apiLock = s THEN NoOne ELSE apiLock
        /\ thread' = [t \in Served |-> IF thread[t] = s THEN NoOne ELSE thread[t]]
    BY DEF Starts!Ends
  <1>6. StartsTypes'
    BY <1>2, <1>3, <1>4, <1>5 DEF StartsInv, StartsTypes, Starts!Steps
  <1>7. OneHolder'  BY <1>2, <1>3, <1>5 DEF StartsInv, OneHolder, Locked
  <1>8. Owned'
    <2>1. \A t \in Served : thread'[t] # NoOne =>
             thread'[t] = thread[t] /\ thread[t] # s /\ thread[t] \in Servers
      BY <1>5 DEF StartsInv, StartsTypes
    <2>2. \A t \in Served : thread'[t] # NoOne => proc'[thread'[t]].step \in {"serving", "leaving"}
      BY <2>1, <1>3 DEF StartsInv, Owned
    <2>3. ASSUME NEW u \in Servers, NEW t \in Served, proc'[u].step = "serving"
          PROVE  (thread'[t] = u <=> record'[t] \in Starts!Unfinished)
      <3>1. u # s /\ proc[u].step = "serving"  BY <2>3, <1>2, <1>3
      <3>2. (thread'[t] = u) <=> (thread[t] = u)
        BY <3>1, <1>5 DEF Starts!NoOneAssumption
      <3> QED BY <3>1, <3>2 DEF StartsInv, Owned
    <2> QED BY <2>2, <2>3 DEF Owned
  <1>9. \A u \in Servers : Prepared(proc'[u], skill, catalog)
    BY <1>2, <1>3, FreeIsPrepared DEF StartsInv, Locked
  <1>10. Begun'  BY <1>2, <1>3 DEF StartsInv, Begun
  <1> QED BY <1>6, <1>7, <1>8, <1>9, <1>10 DEF StartsInv

LEMMA ProcessFits ==
    ASSUME StartsInv, NEW s \in Servers, proc[s].step # "down"
    PROVE  /\ proc[s].command \in MCCommands /\ proc[s].command.skills \in Seq(Skills)
           /\ proc[s].next \in Nat \ {0} /\ Fields(proc[s])
           /\ skill \in [Skills -> Starts!Content] /\ catalog \in [Copies -> Starts!Content]
           /\ Prepared(proc[s], skill, catalog)
           /\ \A n \in Starts!Custom : skill[n] # "partial"
  BY CommandsFit DEF StartsInv, StartsTypes

LEMMA PassStep ==
    ASSUME Starts!NoOneAssumption, StartsInv, NEW s \in Servers, Starts!PassSkill(s)
    PROVE  StartsInv'
  <1> DEFINE names == proc[s].command.skills
  <1>1. /\ proc[s].step = "skills" /\ proc[s].next <= Len(names)
        /\ UNCHANGED <<apiLock, skill, catalog, record, thread>>
    BY DEF Starts!PassSkill, Starts!Ours, Starts!At, Starts!Names, Starts!Files, Starts!Work
  <1>2. /\ names \in Seq(Skills) /\ proc[s].next \in Nat \ {0}
        /\ Fields(proc[s]) /\ Prepared(proc[s], skill, catalog)
        /\ skill \in [Skills -> Starts!Content] /\ catalog \in [Copies -> Starts!Content]
        /\ \A n \in Starts!Custom : skill[n] # "partial"
    BY <1>1, ProcessFits
  <1>3. PICK n : n = proc[s].next + 1  OBVIOUS
  <1>4. PICK p : p = Proc("skills", proc[s].command, n, proc[s].binds)  OBVIOUS
  <1>5. proc' = [proc EXCEPT ![s] = p]
    <2>1. proc' = [proc EXCEPT ![s] = [proc[s] EXCEPT !.next = n]]
      BY <1>2, <1>3 DEF Starts!PassSkill, Fields, Proc
    <2>2. [proc[s] EXCEPT !.next = n] = Proc(proc[s].step, proc[s].command, n, proc[s].binds)
      BY <1>2, ProcFields, Zenon
    <2> QED BY <2>1, <2>2, <1>1, <1>4
  <1>6. p.step = "skills" /\ p.command = proc[s].command /\ p.next = n /\ Fields(p)
    BY <1>4, ProcIs
  <1>7. skill[names[proc[s].next]] = "whole"
    <2>1. CASE Starts!Repeated(s)
      BY <2>1, <1>1, <1>2 DEF Starts!Repeated, Starts!Names, Prepared
    <2>2. CASE names[proc[s].next] \in Starts!Custom /\ skill[names[proc[s].next]] # "absent"
      BY <2>2, <1>1, <1>2 DEF Starts!Content
    <2> QED BY <2>1, <2>2 DEF Starts!PassSkill, Starts!Names
  <1>8. Prepared(p, skill, catalog)
    BY <1>1, <1>2, <1>3, <1>6, <1>7 DEF Prepared, Skilled, Catalogued
  <1>9. proc[s].step \in Locked \ {"serving"} /\ p.step \in Locked \ {"serving"}
    BY <1>1, <1>6 DEF Locked
  <1>10. n \in Nat \ {0}  BY <1>2, <1>3
  <1> QED BY <1>1, <1>2, <1>5, <1>6, <1>8, <1>9, <1>10, HolderMoves

LEMMA RemoveSkillStep ==
    ASSUME Starts!NoOneAssumption, StartsInv, NEW s \in Servers, Starts!RemoveSkill(s)
    PROVE  StartsInv'
  <1> DEFINE names == proc[s].command.skills
  <1>1. /\ proc[s].step = "skills" /\ proc[s].next <= Len(names)
        /\ UNCHANGED <<apiLock, record, thread>> /\ ~Starts!Repeated(s)
    BY DEF Starts!RemoveSkill, Starts!Ours, Starts!At, Starts!Names, Starts!Work
  <1>2. /\ names \in Seq(Skills) /\ proc[s].next \in Nat \ {0}
        /\ Fields(proc[s]) /\ Prepared(proc[s], skill, catalog)
        /\ skill \in [Skills -> Starts!Content] /\ catalog \in [Copies -> Starts!Content]
        /\ \A n \in Starts!Custom : skill[n] # "partial"
    BY <1>1, ProcessFits
  <1>3. PICK name : name = names[proc[s].next]  OBVIOUS
  <1>4. /\ name \in Starts!Builtin /\ skill' = [skill EXCEPT ![name] = "absent"]
        /\ catalog' = IF name = "data-locator" THEN [catalog EXCEPT !["locator"] = "absent"]
                                               ELSE catalog
    BY <1>3 DEF Starts!RemoveSkill, Starts!Names
  <1>5. PICK p : p = Proc("copying", proc[s].command, proc[s].next, proc[s].binds)
    OBVIOUS
  <1>6. proc' = [proc EXCEPT ![s] = p]
    <2>1. proc' = [proc EXCEPT ![s] = [proc[s] EXCEPT !.step = "copying"]]
      BY <1>2 DEF Starts!RemoveSkill, Starts!Goes, Fields, Proc
    <2>2. [proc[s] EXCEPT !.step = "copying"]
             = Proc("copying", proc[s].command, proc[s].next, proc[s].binds)
      BY <1>2, ProcFields, Zenon
    <2> QED BY <2>1, <2>2, <1>5
  <1>7. p.step = "copying" /\ p.command = proc[s].command /\ p.next = proc[s].next /\ Fields(p)
    BY <1>5, ProcIs
  <1>8. skill' \in [Skills -> Starts!Content] /\ catalog' \in [Copies -> Starts!Content]
    BY <1>2, <1>4 DEF Starts!Content
  <1>9. \A n \in Starts!Custom : skill'[n] # "partial"  BY <1>2, <1>4 DEF Skills
  <1>10. \A i \in 1 .. Len(names) : i < proc[s].next => names[i] # name
    BY <1>1, <1>2, <1>3 DEF Starts!Repeated, Starts!Names
  <1>11. Prepared(p, skill', catalog')
    BY <1>1, <1>2, <1>3, <1>4, <1>7, <1>10 DEF Prepared, Skilled, Catalogued
  <1>12. proc[s].step \in Locked \ {"serving"} /\ p.step \in Locked \ {"serving"}
    BY <1>1, <1>7 DEF Locked
  <1> QED BY <1>1, <1>2, <1>6, <1>7, <1>8, <1>9, <1>11, <1>12, HolderMoves

LEMMA CopySkillStep ==
    ASSUME Starts!NoOneAssumption, StartsInv, NEW s \in Servers, Starts!CopySkill(s)
    PROVE  StartsInv'
  <1> DEFINE names == proc[s].command.skills
  <1>1. proc[s].step = "copying" /\ UNCHANGED <<apiLock, catalog, record, thread>>
    BY DEF Starts!CopySkill, Starts!At, Starts!Work
  <1>2. /\ names \in Seq(Skills) /\ proc[s].next \in Nat \ {0}
        /\ Fields(proc[s]) /\ Prepared(proc[s], skill, catalog)
        /\ skill \in [Skills -> Starts!Content] /\ catalog \in [Copies -> Starts!Content]
        /\ \A n \in Starts!Custom : skill[n] # "partial"
    BY <1>1, ProcessFits
  <1>3. PICK name : name = names[proc[s].next]  OBVIOUS
  <1>4. /\ name \in Starts!Builtin /\ proc[s].next <= Len(names)
        /\ \A i \in 1 .. Len(names) : i < proc[s].next => names[i] # name
    BY <1>1, <1>2, <1>3 DEF Prepared
  <1>5. name \notin Starts!Custom  BY <1>4 DEF Starts!Builtin, Starts!Custom
  <1>6. proc[s].step \in Locked \ {"serving"}  BY <1>1 DEF Locked
  <1>7. CASE skill' = [skill EXCEPT ![name] = "partial"] /\ proc' = proc
    <2>1. skill' \in [Skills -> Starts!Content]  BY <1>2, <1>7 DEF Starts!Content
    <2>2. \A n \in Starts!Custom : skill'[n] # "partial"
      BY <1>2, <1>5, <1>7 DEF Skills
    <2>3. Prepared(proc[s], skill', catalog)
      BY <1>1, <1>2, <1>4, <1>7 DEF Prepared, Skilled, Catalogued
    <2>4. proc' = [proc EXCEPT ![s] = proc[s]]  BY <1>7 DEF StartsInv, StartsTypes
    <2> QED BY <1>1, <1>2, <1>6, <2>1, <2>2, <2>3, <2>4, HolderMoves
  <1>8. CASE /\ skill' = [skill EXCEPT ![name] = "whole"]
             /\ proc' = [proc EXCEPT ![s].step = "skills", ![s].next = @ + 1]
    <2>1. PICK n : n = proc[s].next + 1  OBVIOUS
    <2>2. PICK p : p = Proc("skills", proc[s].command, n, proc[s].binds)  OBVIOUS
    <2>3. proc' = [proc EXCEPT ![s] = p]
      <3>1. proc' = [proc EXCEPT ![s] = [[proc[s] EXCEPT !.step = "skills"] EXCEPT !.next = n]]
        BY <1>2, <1>8, <2>1 DEF Fields, Proc, StartsInv, StartsTypes
      <3>2. [[proc[s] EXCEPT !.step = "skills"] EXCEPT !.next = n]
               = Proc("skills", proc[s].command, n, proc[s].binds)
        BY <1>2, ProcFields, Zenon
      <3> QED BY <3>1, <3>2, <2>2
    <2>4. p.step = "skills" /\ p.command = proc[s].command /\ p.next = n /\ Fields(p)
      BY <2>2, ProcIs
    <2>5. skill' \in [Skills -> Starts!Content]  BY <1>2, <1>8 DEF Starts!Content
    <2>6. \A m \in Starts!Custom : skill'[m] # "partial"
      BY <1>2, <1>5, <1>8 DEF Skills
    <2>7. skill'[name] = "whole" /\ \A m \in Skills : skill[m] = "whole" => skill'[m] = "whole"
      BY <1>2, <1>4, <1>8 DEF Skills
    <2>8. Prepared(p, skill', catalog)
      BY <1>1, <1>2, <1>3, <1>4, <2>1, <2>4, <2>7 DEF Prepared, Skilled, Catalogued
    <2>9. p.step \in Locked \ {"serving"} /\ n \in Nat \ {0}
      BY <1>2, <2>1, <2>4 DEF Locked
    <2> QED BY <1>1, <1>2, <1>6, <2>3, <2>4, <2>5, <2>6, <2>8, <2>9, HolderMoves
  <1> QED BY <1>3, <1>7, <1>8 DEF Starts!CopySkill, Starts!Names

\* A step that only goes on.
LEMMA GoesOn ==
    ASSUME StartsInv, NEW s \in Servers, NEW next, NEW p, Starts!Goes(s, next),
           p = Proc(next, proc[s].command, proc[s].next, proc[s].binds)
    PROVE  /\ p.step = next /\ p.command = proc[s].command /\ p.next = proc[s].next
           /\ p.next \in Nat \ {0} /\ Fields(p) /\ p.binds = proc[s].binds
           /\ proc' = [proc EXCEPT ![s] = p]
  <1>1. Fields(proc[s]) /\ proc[s].next \in Nat \ {0}  BY DEF StartsInv, StartsTypes
  <1>2. proc' = [proc EXCEPT ![s] = [proc[s] EXCEPT !.step = next]]
    BY DEF Starts!Goes, StartsInv, StartsTypes, Fields, Proc
  <1>3. [proc[s] EXCEPT !.step = next] = Proc(next, proc[s].command, proc[s].next, proc[s].binds)
    BY <1>1, ProcFields, Zenon
  <1>4. /\ p.step = next /\ p.command = proc[s].command /\ p.next = proc[s].next
        /\ p.binds = proc[s].binds /\ Fields(p)
    BY ProcIs
  <1> QED BY <1>1, <1>2, <1>3, <1>4

LEMMA CatalogSteps ==
    ASSUME Starts!NoOneAssumption, StartsInv, NEW s \in Servers,
           Starts!SkillsDone(s) \/ Starts!CopyCatalog(s) \/ Starts!CopyLocator(s)
    PROVE  StartsInv'
  <1> DEFINE names == proc[s].command.skills
  <1>1. proc[s].step \in {"skills", "catalog", "locator"}
    BY DEF Starts!SkillsDone, Starts!CopyCatalog, Starts!CopyLocator, Starts!At
  <1>2. /\ names \in Seq(Skills) /\ proc[s].next \in Nat \ {0}
        /\ Prepared(proc[s], skill, catalog)
        /\ catalog \in [Copies -> Starts!Content]
    BY <1>1, ProcessFits
  <1>3. proc[s].step \in Locked \ {"serving"}  BY <1>1 DEF Locked
  <1>4. UNCHANGED <<apiLock, skill, record, thread>>
    BY DEF Starts!SkillsDone, Starts!CopyCatalog, Starts!CopyLocator, Starts!Work, Starts!Files
  <1>9. skill \in [Skills -> Starts!Content] /\ \A n \in Starts!Custom : skill[n] # "partial"
    BY DEF StartsInv, StartsTypes
  <1>5. CASE Starts!SkillsDone(s)
    <2>1. proc[s].step = "skills" /\ proc[s].next > Len(names) /\ catalog' = catalog
          /\ Starts!Goes(s, "catalog")
      BY <1>5 DEF Starts!SkillsDone, Starts!Files, Starts!At, Starts!Names
    <2>2. PICK p : p = Proc("catalog", proc[s].command, proc[s].next, proc[s].binds)
      OBVIOUS
    <2>3. p.step = "catalog" /\ p.command = proc[s].command /\ p.next = proc[s].next
      BY <2>1, <2>2, GoesOn
    <2>6. p.next \in Nat \ {0} /\ Fields(p)  BY <2>1, <2>2, GoesOn
    <2>7. proc' = [proc EXCEPT ![s] = p]  BY <2>1, <2>2, GoesOn
    <2>4. Prepared(p, skill, catalog)
      BY <1>2, <2>1, <2>3 DEF Prepared, Skilled, Catalogued
    <2>5. p.step \in Locked \ {"serving"}  BY <2>3 DEF Locked
    <2> QED BY <1>2, <1>3, <1>4, <1>9, <2>1, <2>3, <2>4, <2>5, <2>6, <2>7, HolderMoves
  <1>6. ASSUME NEW part \in Copies, NEW next, Starts!Copy(s, part, next),
               next \in Locked \ {"serving"}, proc[s].step \in {"catalog", "locator"},
               proc[s].step = "catalog" => part = "workspace",
               proc[s].step = "locator" => part = "locator",
               next = "locator" => proc[s].step = "catalog",
               next = "binds" => proc[s].step = "locator"
                                 \/ \A i \in 1 .. Len(names) : names[i] # "data-locator",
               next \in {"locator", "binds"}
        PROVE  StartsInv'
    <2>1. CASE catalog' = [catalog EXCEPT ![part] = "partial"] /\ proc' = proc
      <3>1. PICK ct : ct = [catalog EXCEPT ![part] = "partial"]  OBVIOUS
      <3>2. ct \in [Copies -> Starts!Content]  BY <1>2, <3>1 DEF Starts!Content
      <3>3. part = "locator" => ct["workspace"] = catalog["workspace"]
        BY <1>2, <3>1 DEF Copies
      <3>4. Prepared(proc[s], skill, ct)
        BY <1>2, <1>6, <3>3 DEF Prepared, Skilled, Catalogued
      <3>5. proc' = [proc EXCEPT ![s] = proc[s]]  BY <2>1 DEF StartsInv, StartsTypes
      <3>6. /\ Fields(proc[s]) /\ skill \in [Skills -> Starts!Content]
            /\ \A n \in Starts!Custom : skill[n] # "partial"
        BY DEF StartsInv, StartsTypes
      <3> QED BY <1>2, <1>3, <1>4, <2>1, <3>1, <3>2, <3>4, <3>5, <3>6, HolderMoves
    <2>2. CASE catalog' = [catalog EXCEPT ![part] = "whole"] /\ Starts!Goes(s, next)
      <3>1. PICK ct : ct = [catalog EXCEPT ![part] = "whole"]  OBVIOUS
      <3>2. ct \in [Copies -> Starts!Content] /\ ct[part] = "whole"
        BY <1>2, <3>1 DEF Starts!Content
      <3>3. part = "locator" => ct["workspace"] = catalog["workspace"]
        BY <1>2, <3>1 DEF Copies
      <3>4. PICK p : p = Proc(next, proc[s].command, proc[s].next, proc[s].binds)
        OBVIOUS
      <3>5. p.step = next /\ p.command = proc[s].command /\ p.next = proc[s].next
        BY <2>2, <3>4, GoesOn
      <3>8. p.next \in Nat \ {0} /\ Fields(p)  BY <2>2, <3>4, GoesOn
      <3>9. proc' = [proc EXCEPT ![s] = p]  BY <2>2, <3>4, GoesOn
      <3>6. Prepared(p, skill, ct)
        BY <1>2, <1>6, <3>2, <3>3, <3>5 DEF Prepared, Skilled, Catalogued
      <3>7. p.step \in Locked \ {"serving"}  BY <1>6, <3>5
      <3> QED BY <1>3, <1>4, <1>9, <2>2, <3>1, <3>2, <3>5, <3>6, <3>7, <3>8, <3>9, HolderMoves
    <2> QED BY <1>6, <2>1, <2>2 DEF Starts!Copy
  <1>7. CASE Starts!CopyCatalog(s)
    <2>1. PICK next : /\ Starts!Copy(s, "workspace", next)
                      /\ next = IF Starts!Contains(names, "data-locator")
                                THEN "locator" ELSE "binds"
      BY <1>7, Zenon DEF Starts!CopyCatalog, Starts!Names
    <2>2. Starts!Contains(names, "data-locator") <=> \E i \in 1 .. Len(names) : names[i] = "data-locator"
      BY DEF Starts!Contains
    <2>3. proc[s].step = "catalog" /\ "workspace" \in Copies
      BY <1>7 DEF Starts!CopyCatalog, Starts!At, Copies
    <2> QED BY <1>6, <2>1, <2>2, <2>3 DEF Locked
  <1>8. CASE Starts!CopyLocator(s)
    <2>1. PICK next : Starts!Copy(s, "locator", next) /\ next = "binds"
      BY <1>8, Zenon DEF Starts!CopyLocator
    <2>2. proc[s].step = "locator" /\ "locator" \in Copies
      BY <1>8 DEF Starts!CopyLocator, Starts!At, Copies
    <2> QED BY <1>6, <2>1, <2>2 DEF Locked
  <1> QED BY <1>5, <1>7, <1>8

LEMMA BindStep ==
    ASSUME Starts!NoOneAssumption, StartsInv, NEW s \in Servers, Starts!Bind(s)
    PROVE  StartsInv'
  <1>1. proc[s].step = "binds" /\ UNCHANGED <<skill, catalog, record>>
    BY DEF Starts!Bind, Starts!At, Starts!Files
  <1>2. /\ proc[s].next \in Nat \ {0} /\ Fields(proc[s])
        /\ Prepared(proc[s], skill, catalog)
        /\ skill \in [Skills -> Starts!Content] /\ catalog \in [Copies -> Starts!Content]
        /\ \A n \in Starts!Custom : skill[n] # "partial"
    BY <1>1, ProcessFits
  <1>3. CASE Starts!Ends(s)  BY <1>1, <1>3, EndsStep
  <1>4. CASE /\ proc' = [proc EXCEPT ![s].step = "reconcile", ![s].binds =
                           Starts!Merged(Starts!CatalogBinds(proc[s].command),
                                         proc[s].command.overrides)]
             /\ UNCHANGED <<apiLock, thread>>
    <2>1. PICK b : b = Starts!Merged(Starts!CatalogBinds(proc[s].command),
                                     proc[s].command.overrides)
      OBVIOUS
    <2>2. PICK p : p = Proc("reconcile", proc[s].command, proc[s].next, b)  OBVIOUS
    <2>3. proc' = [proc EXCEPT ![s] = p]
      <3>1. proc' = [proc EXCEPT ![s] = [[proc[s] EXCEPT !.step = "reconcile"] EXCEPT !.binds = b]]
        BY <1>2, <1>4, <2>1 DEF Fields, Proc, StartsInv, StartsTypes
      <3>2. [[proc[s] EXCEPT !.step = "reconcile"] EXCEPT !.binds = b]
               = Proc("reconcile", proc[s].command, proc[s].next, b)
        <4>1. \A x, y : [[proc[s] EXCEPT !.step = x] EXCEPT !.binds = y]
                           = Proc(x, proc[s].command, proc[s].next, y)
          BY <1>2, BindsOf, Zenon
        <4> QED BY <4>1, Zenon
      <3> QED BY <3>1, <3>2, <2>2
    <2>4. p.step = "reconcile" /\ p.command = proc[s].command /\ p.next = proc[s].next /\ Fields(p)
      BY <2>2, ProcIs
    <2>8. p.binds = Bound(p.command)
      <3>1. p.binds = b  BY <2>2, ProcIs
      <3> QED BY <3>1, <2>1, <2>4 DEF Bound
    <2>5. Prepared(p, skill, catalog)
      BY <1>1, <1>2, <2>4, <2>8 DEF Prepared, Skilled, Catalogued
    <2>6. proc[s].step \in Locked \ {"serving"} /\ p.step \in Locked \ {"serving"}
      BY <1>1, <2>4 DEF Locked
    <2>7. p.next \in Nat \ {0} /\ skill' = skill /\ catalog' = catalog
          /\ UNCHANGED <<apiLock, record, thread>>
      BY <1>1, <1>2, <1>4, <2>4
    <2> QED BY <1>2, <2>3, <2>4, <2>5, <2>6, <2>7, HolderMoves
  <1> QED
    <2>1. CASE Starts!Duplicate(Starts!CatalogBinds(proc[s].command))
      BY <1>3, <2>1 DEF Starts!Bind
    <2>2. CASE ~Starts!Duplicate(Starts!CatalogBinds(proc[s].command))
      BY <1>4, <2>2, Zenon DEF Starts!Bind
    <2> QED BY <2>1, <2>2

LEMMA StartStep ==
    ASSUME Starts!NoOneAssumption, StartsInv, NEW s \in Servers, NEW c \in MCCommands,
           Starts!Start(s, c)
    PROVE  StartsInv'
  <1>1. PICK p : p = Proc("lock", c, 1, <<>>)  OBVIOUS
  <1>2. /\ proc[s].step = "down"
        /\ UNCHANGED <<apiLock, skill, catalog, record, thread>>
    BY DEF Starts!Start, Starts!At, Starts!Files, Starts!Work
  <1>3. proc' = [proc EXCEPT ![s] = p]
    <2>1. PICK d : d = Starts!Down  OBVIOUS
    <2>2. d = Proc("down", NoOne, 1, <<>>)  BY <2>1 DEF Starts!Down, Proc
    <2>3. PICK e : e = [d EXCEPT !.step = "lock"]  OBVIOUS
    <2>4. e = Proc("lock", NoOne, 1, <<>>)  BY <2>2, <2>3 DEF Proc
    <2>5. [e EXCEPT !.command = c] = p  BY <2>4, <1>1 DEF Proc
    <2>6. [d EXCEPT !.step = "lock", !.command = c] = [e EXCEPT !.command = c]
      BY <2>3
    <2>7. proc' = [proc EXCEPT ![s] = [d EXCEPT !.step = "lock", !.command = c]]
      BY <2>1, Zenon DEF Starts!Start
    <2> QED BY <2>5, <2>6, <2>7, Zenon
  <1>4. p.step = "lock" /\ p.command = c /\ p.next = 1 /\ Fields(p)  BY <1>1, ProcIs
  <1>5. \A u \in Servers : proc'[u] = IF u = s THEN p ELSE proc[u]
    BY <1>3 DEF StartsInv, StartsTypes
  <1>6. proc' = [u \in Servers |-> proc'[u]]  BY <1>3 DEF StartsInv, StartsTypes
  <1>7. StartsTypes'
    BY <1>2, <1>4, <1>5, <1>6 DEF StartsInv, StartsTypes, Starts!Steps
  <1>8. OneHolder' /\ Begun'
    BY <1>2, <1>4, <1>5 DEF StartsInv, OneHolder, Begun, Locked
  <1>9. Owned'
    <2>1. \A t \in Served : thread[t] # NoOne => thread[t] \in Servers /\ thread[t] # s
      BY <1>2 DEF StartsInv, StartsTypes, Owned
    <2> QED BY <2>1, <1>2, <1>4, <1>5 DEF StartsInv, Owned
  <1>10. \A u \in Servers : Prepared(proc'[u], skill, catalog)
    BY <1>4, <1>5, FreeIsPrepared DEF StartsInv, Locked
  <1> QED BY <1>2, <1>7, <1>8, <1>9, <1>10 DEF StartsInv

LEMMA LockStep ==
    ASSUME Starts!NoOneAssumption, StartsInv, NEW s \in Servers, Starts!Lock(s)
    PROVE  StartsInv'
  <1>1. proc[s].step = "lock" /\ UNCHANGED <<skill, catalog, record>>
    BY DEF Starts!Lock, Starts!At, Starts!Files
  <1>2. CASE Starts!Ends(s)  BY <1>1, <1>2, EndsStep
  <1>3. CASE apiLock = NoOne /\ Starts!Goes(s, "skills") /\ apiLock' = s /\ UNCHANGED thread
    <2>1. PICK p : p = Proc("skills", proc[s].command, proc[s].next, proc[s].binds)
      OBVIOUS
    <2>2. p.step = "skills" /\ p.command = proc[s].command /\ p.next = proc[s].next
      BY <1>3, <2>1, GoesOn
    <2>3. p.next \in Nat \ {0} /\ Fields(p)  BY <1>3, <2>1, GoesOn
    <2>4. proc' = [proc EXCEPT ![s] = p]  BY <1>3, <2>1, GoesOn
    <2>5. \A u \in Servers : proc'[u] = IF u = s THEN p ELSE proc[u]
      BY <2>4 DEF StartsInv, StartsTypes
    <2>6. proc' = [u \in Servers |-> proc'[u]]  BY <2>4 DEF StartsInv, StartsTypes
    <2>7. \A u \in Servers : proc[u].step \notin Locked
      BY <1>3 DEF StartsInv, OneHolder, Starts!NoOneAssumption
    <2>8. StartsTypes'
      BY <1>1, <1>3, <2>2, <2>3, <2>5, <2>6 DEF StartsInv, StartsTypes, Starts!Steps
    <2>9. OneHolder' /\ Begun'
      BY <1>3, <2>2, <2>5, <2>7 DEF StartsInv, OneHolder, Begun
    <2>10. Owned'
      <3>1. \A t \in Served : thread[t] # NoOne => thread[t] \in Servers /\ thread[t] # s
        BY <1>1 DEF StartsInv, StartsTypes, Owned
      <3>2. \A u \in Servers : proc'[u].step # "serving"
        BY <2>2, <2>5, <2>7 DEF Locked
      <3> QED BY <3>1, <3>2, <1>3, <2>5 DEF StartsInv, Owned
    <2>11. Prepared(p, skill, catalog)
      <3>1. p.next = 1 /\ p.command.skills \in Seq(Skills)
        BY <1>1, <2>2, ProcessFits DEF StartsInv, Begun
      <3> QED BY <2>2, <3>1 DEF Prepared, Skilled, Catalogued
    <2>12. \A u \in Servers : Prepared(proc'[u], skill, catalog)
      BY <2>5, <2>7, <2>11, FreeIsPrepared
    <2> QED BY <1>1, <2>8, <2>9, <2>10, <2>12 DEF StartsInv
  <1> QED BY <1>2, <1>3 DEF Starts!Lock

LEMMA ServeStep ==
    ASSUME Starts!NoOneAssumption, StartsInv, NEW s \in Servers, Starts!Serve(s)
    PROVE  StartsInv'
  <1>1. /\ proc[s].step = "reconcile" /\ Starts!Goes(s, "serving")
        /\ \A t \in Served : record[t] \notin Starts!Unfinished
        /\ UNCHANGED <<apiLock, skill, catalog, record, thread>>
    BY DEF Starts!Serve, Starts!At, Starts!Files, Starts!Work
  <1>2. PICK p : p = Proc("serving", proc[s].command, proc[s].next, proc[s].binds)
    OBVIOUS
  <1>3. p.step = "serving" /\ p.command = proc[s].command /\ p.next = proc[s].next
    BY <1>1, <1>2, GoesOn
  <1>4. p.next \in Nat \ {0} /\ Fields(p)  BY <1>1, <1>2, GoesOn
  <1>5. proc' = [proc EXCEPT ![s] = p]  BY <1>1, <1>2, GoesOn
  <1>6. \A u \in Servers : proc'[u] = IF u = s THEN p ELSE proc[u]
    BY <1>5 DEF StartsInv, StartsTypes
  <1>7. proc' = [u \in Servers |-> proc'[u]]  BY <1>5 DEF StartsInv, StartsTypes
  <1>8. apiLock = s /\ \A u \in Servers : u # s => proc[u].step \notin Locked
    BY <1>1, OnlyHolder DEF Locked, StartsInv, OneHolder
  <1>9. StartsTypes'
    BY <1>1, <1>3, <1>4, <1>6, <1>7 DEF StartsInv, StartsTypes, Starts!Steps
  <1>10. OneHolder' /\ Begun'
    BY <1>1, <1>3, <1>6, <1>8 DEF StartsInv, OneHolder, Begun
  <1>11. Owned'
    <2>1. \A t \in Served : thread[t] # s
      BY <1>1 DEF StartsInv, Owned, StartsTypes, Starts!NoOneAssumption
    <2>2. \A u \in Servers : u # s => proc'[u].step # "serving"
      BY <1>6, <1>8 DEF Locked
    <2>3. \A t \in Served : thread[t] # NoOne => thread[t] \in Servers
      BY DEF StartsInv, StartsTypes
    <2> QED BY <2>1, <2>2, <2>3, <1>1, <1>6 DEF StartsInv, Owned
  <1>12. Prepared(p, skill, catalog)
    <2>1. Prepared(proc[s], skill, catalog)  BY DEF StartsInv
    <2>2. p.binds = proc[s].binds  BY <1>1, <1>2, GoesOn
    <2> QED BY <2>1, <2>2, <1>1, <1>3 DEF Prepared, Skilled, Catalogued
  <1>13. \A u \in Servers : Prepared(proc'[u], skill, catalog)
    BY <1>6, <1>8, <1>12, FreeIsPrepared
  <1> QED BY <1>1, <1>9, <1>10, <1>11, <1>13 DEF StartsInv

\* Steps of the records and the threads alone.
LEMMA WorkSteps ==
    ASSUME Starts!NoOneAssumption, StartsInv, NEW s \in Servers, NEW t \in Served,
           Starts!Reconcile(s, t) \/ Starts!Create(s, t) \/ Starts!Works(s, t)
    PROVE  StartsInv'
  <1>1. UNCHANGED <<apiLock, proc, skill, catalog>>
    BY DEF Starts!Reconcile, Starts!Create, Starts!Works, Starts!Files
  <1>2. /\ record \in [Served -> Starts!Records]
        /\ thread \in [Served -> Servers \cup {NoOne}] /\ NoOne \notin Servers
    BY DEF StartsInv, StartsTypes, Starts!NoOneAssumption
  <1>3. ASSUME NEW r \in Starts!Records, record' = [record EXCEPT ![t] = r],
               NEW h \in Servers \cup {NoOne}, thread' = [thread EXCEPT ![t] = h],
               h # NoOne => proc[h].step \in {"serving", "leaving"},
               \A u \in Servers : proc[u].step = "serving" => (h = u <=> r \in Starts!Unfinished)
        PROVE  StartsInv'
    <2>1. StartsTypes'  BY <1>1, <1>2, <1>3 DEF StartsInv, StartsTypes
    <2>2. OneHolder' /\ Begun' /\ \A u \in Servers : Prepared(proc'[u], skill', catalog')
      BY <1>1 DEF StartsInv, OneHolder, Begun
    <2>3. Owned'  BY <1>1, <1>2, <1>3 DEF StartsInv, Owned
    <2> QED BY <1>1, <2>1, <2>2, <2>3 DEF StartsInv
  <1>4. thread = [thread EXCEPT ![t] = thread[t]] /\ thread[t] \in Servers \cup {NoOne}
        /\ (thread[t] # NoOne => proc[thread[t]].step \in {"serving", "leaving"})
    BY <1>2 DEF StartsInv, Owned
  <1>5. CASE Starts!Reconcile(s, t)
    <2>1. proc[s].step = "reconcile" /\ thread' = thread
          /\ record' = [record EXCEPT ![t] = IF record[t] = "QUEUED" THEN "CANCELLED" ELSE "FAILED"]
      BY <1>2, <1>5 DEF Starts!Reconcile, Starts!At
    <2>2. \A u \in Servers : proc[u].step # "serving"
      BY <2>1, OnlyHolder DEF Locked
    <2>3. PICK r \in {"CANCELLED", "FAILED"} : record' = [record EXCEPT ![t] = r]
      BY <2>1
    <2>4. r \in Starts!Records  BY DEF Starts!Records
    <2>5. PICK h : h = thread[t]  OBVIOUS
    <2>6. thread' = [thread EXCEPT ![t] = h] /\ h \in Servers \cup {NoOne}
          /\ (h # NoOne => proc[h].step \in {"serving", "leaving"})
      BY <1>4, <2>1, <2>5
    <2> QED BY <1>3, <2>2, <2>3, <2>4, <2>6
  <1>6. CASE Starts!Create(s, t)
    <2>1. proc[s].step = "serving" /\ record' = [record EXCEPT ![t] = "QUEUED"]
          /\ thread' = [thread EXCEPT ![t] = s]
      BY <1>6 DEF Starts!Create, Starts!At
    <2>2. \A u \in Servers : proc[u].step = "serving" => u = s
      BY <2>1, OnlyHolder DEF Locked
    <2>3. "QUEUED" \in Starts!Records /\ "QUEUED" \in Starts!Unfinished
      BY DEF Starts!Records, Starts!Unfinished
    <2> QED BY <1>2, <1>3, <2>1, <2>2, <2>3
  <1>7. CASE Starts!Works(s, t) /\ record' = [record EXCEPT ![t] = "RUNNING"] /\ UNCHANGED thread
             /\ record[t] = "QUEUED"
    <2>1. "RUNNING" \in Starts!Records /\ "RUNNING" \in Starts!Unfinished
          /\ "QUEUED" \in Starts!Unfinished
      BY DEF Starts!Records, Starts!Unfinished
    <2>2. PICK h : h = thread[t]  OBVIOUS
    <2>3. thread' = [thread EXCEPT ![t] = h] /\ h \in Servers \cup {NoOne}
          /\ (h # NoOne => proc[h].step \in {"serving", "leaving"})
      BY <1>4, <1>7, <2>2
    <2>4. \A u \in Servers : proc[u].step = "serving" => h = u
      BY <1>7, <2>1, <2>2 DEF StartsInv, Owned
    <2> QED BY <1>3, <1>7, <2>1, <2>3, <2>4
  <1>8. CASE /\ Starts!Works(s, t) /\ record[t] # "QUEUED"
             /\ \E end \in {"COMPLETED", "FAILED"} : record' = [record EXCEPT ![t] = end]
             /\ thread' = [thread EXCEPT ![t] = NoOne]
    <2>1. PICK r \in {"COMPLETED", "FAILED"} : record' = [record EXCEPT ![t] = r]
      BY <1>8
    <2>2. r \in Starts!Records /\ r \notin Starts!Unfinished
      BY DEF Starts!Records, Starts!Unfinished
    <2>3. \A u \in Servers : NoOne # u  BY <1>2
    <2> QED BY <1>3, <1>8, <2>1, <2>2, <2>3
  <1> QED BY <1>5, <1>6, <1>7, <1>8 DEF Starts!Works

LEMMA LeaveStep ==
    ASSUME Starts!NoOneAssumption, StartsInv, NEW s \in Servers, Starts!Leave(s)
    PROVE  StartsInv'
  <1>1. /\ proc[s].step = "serving" /\ Starts!Goes(s, "leaving") /\ apiLock' = NoOne
        /\ UNCHANGED <<skill, catalog>>
    BY DEF Starts!Leave, Starts!At, Starts!Files
  <1>2. PICK settled \in SUBSET Served :
          /\ record' = [t \in Served |-> IF t \in settled THEN "CANCELLED" ELSE record[t]]
          /\ thread' = [t \in Served |-> IF t \in settled THEN NoOne ELSE thread[t]]
    BY DEF Starts!Leave
  <1>3. PICK p : p = Proc("leaving", proc[s].command, proc[s].next, proc[s].binds)
    OBVIOUS
  <1>4. p.step = "leaving" /\ p.command = proc[s].command /\ p.next = proc[s].next
    BY <1>1, <1>3, GoesOn
  <1>5. p.next \in Nat \ {0} /\ Fields(p)  BY <1>1, <1>3, GoesOn
  <1>6. proc' = [proc EXCEPT ![s] = p]  BY <1>1, <1>3, GoesOn
  <1>7. \A u \in Servers : proc'[u] = IF u = s THEN p ELSE proc[u]
    BY <1>6 DEF StartsInv, StartsTypes
  <1>8. proc' = [u \in Servers |-> proc'[u]]  BY <1>6 DEF StartsInv, StartsTypes
  <1>9. \A u \in Servers : u # s => proc[u].step \notin Locked
    BY <1>1, OnlyHolder DEF Locked
  <1>10. \A u \in Servers : proc'[u].step \notin Locked
    BY <1>4, <1>7, <1>9 DEF Locked
  <1>11. StartsTypes'
    BY <1>1, <1>2, <1>4, <1>5, <1>7, <1>8 DEF StartsInv, StartsTypes, Starts!Steps, Starts!Records
  <1>12. OneHolder' /\ Begun'  BY <1>4, <1>7, <1>10 DEF StartsInv, OneHolder, Begun
  <1>13. Owned'
    <2>1. \A u \in Servers : proc'[u].step # "serving"  BY <1>10 DEF Locked
    <2>2. \A t \in Served : thread'[t] # NoOne => thread'[t] = thread[t] /\ thread[t] \in Servers
      BY <1>2 DEF StartsInv, StartsTypes
    <2> QED BY <2>1, <2>2, <1>4, <1>7 DEF StartsInv, Owned
  <1>14. \A u \in Servers : Prepared(proc'[u], skill, catalog)
    BY <1>10, FreeIsPrepared
  <1> QED BY <1>1, <1>11, <1>12, <1>13, <1>14 DEF StartsInv

LEMMA StartsStep ==
    ASSUME Starts!NoOneAssumption, StartsInv, [Starts!Next]_startVars
    PROVE  StartsInv'
  <1>1. CASE UNCHANGED startVars
    BY <1>1 DEF startVars, StartsInv, StartsTypes, OneHolder, Begun, Owned
  <1>2. ASSUME NEW s \in Servers, Starts!Process(s)
        PROVE  StartsInv'
    <2>1. CASE Starts!MissingSkill(s) \/ Starts!Crash(s)
      BY <2>1, EndsStep DEF Starts!MissingSkill, Starts!Crash, Starts!Files
    <2> QED
      BY <1>2, <2>1, StartStep, LockStep, PassStep, RemoveSkillStep, CopySkillStep, CatalogSteps,
         BindStep, ServeStep, LeaveStep, WorkSteps
         DEF Starts!Process
  <1> QED BY <1>1, <1>2 DEF Starts!Next

-----------------------------------------------------------------------------
(* Provision: the binds that a command's sources and overrides give.         *)

LEMMA PlacedType ==
    ASSUME NEW B, NEW binds \in Seq(B), NEW b \in B
    PROVE  Starts!Placed(binds, b) \in Seq(B)
  <1>1. CASE \E i \in DOMAIN binds : binds[i].target = b.target
    <2>1. Len(binds) \in Nat /\ DOMAIN binds = 1 .. Len(binds) /\ \A i \in 1 .. Len(binds) : binds[i] \in B
      OBVIOUS
    <2>2. Starts!Placed(binds, b)
             = [i \in 1 .. Len(binds) |-> IF binds[i].target = b.target THEN b ELSE binds[i]]
      BY <1>1, <2>1 DEF Starts!Placed
    <2>3. Starts!Placed(binds, b) \in [1 .. Len(binds) -> B]  BY <2>1, <2>2
    <2> QED BY <2>1, <2>3, SeqDef
  <1>2. CASE ~\E i \in DOMAIN binds : binds[i].target = b.target
    <2>1. Starts!Placed(binds, b) = Append(binds, b)  BY <1>2 DEF Starts!Placed
    <2> QED BY <2>1
  <1> QED BY <1>1, <1>2

LEMMA MergingIs ==
    ASSUME NEW B, NEW all \in Seq(B)
    PROVE  /\ Starts!Merging(all)[0] = <<>>
           /\ \A n \in 1 .. Len(all) :
                Starts!Merging(all)[n] = Starts!Placed(Starts!Merging(all)[n - 1], all[n])
  <1> DEFINE V == Seq(B)
             G == [x \in (1 .. Len(all)) \X V |-> Starts!Placed(x[2], all[x[1]])]
             Step(g) == [n \in 0 .. Len(all) |-> IF n = 0 THEN <<>>
                                                  ELSE Starts!Placed(g[n - 1], all[n])]
  <1>1. G \in [(1 .. Len(all)) \X V -> V]
    <2>1. ASSUME NEW x \in (1 .. Len(all)) \X V
          PROVE  Starts!Placed(x[2], all[x[1]]) \in V
      <3>1. x[2] \in Seq(B) /\ all[x[1]] \in B  BY <2>1
      <3> QED BY <3>1, PlacedType
    <2> QED BY <2>1
  <1>2. <<>> \in V /\ Len(all) \in Nat  OBVIOUS
  <1>3. \A n \in 1 .. Len(all) : \A v \in V : G[<<n, v>>] = Starts!Placed(v, all[n])
    OBVIOUS
  <1> HIDE DEF V, G
  <1>4. PICK f \in [0 .. Len(all) -> V] :
           f[0] = <<>> /\ \A k \in 1 .. Len(all) : f[k] = G[<<k, f[k - 1]>>]
    <2>1. \E f : Iterates(f, V, <<>>, Len(all), G)  BY <1>1, <1>2, Iterated
    <2> QED BY <2>1 DEF Iterates
  <1>5. f = Step(f)
    <2>1. \A n \in 1 .. Len(all) : f[n] = Starts!Placed(f[n - 1], all[n])
      <3> TAKE n \in 1 .. Len(all)
      <3>1. n - 1 \in 0 .. Len(all)  OBVIOUS
      <3> QED BY <3>1, <1>3, <1>4
    <2>2. \A n \in 0 .. Len(all) : n # 0 => n \in 1 .. Len(all)  OBVIOUS
    <2> QED BY <2>1, <2>2, <1>4
  <1>6. Starts!Merging(all) = Step(Starts!Merging(all))
    BY <1>5, Zenon DEF Starts!Merging
  <1>7. PICK m : m = Starts!Merging(all)  OBVIOUS
  <1>8. m = Step(m)  BY <1>6, <1>7
  <1> QED BY <1>2, <1>7, <1>8

\* m holds what the first n elements of all leave: every target is there, an
\* element is the last one of its target, and the targets come in the order in
\* which they are first seen.
Covers(all, m, n) == \A i \in 1 .. n : \E k \in 1 .. Len(m) : m[k].target = all[i].target
LastOnes(all, m, n) ==
    \A k \in 1 .. Len(m) : \E i \in 1 .. n :
       all[i] = m[k] /\ \A j \in i + 1 .. n : all[j].target # m[k].target
InOrder(all, m, n) ==
    \A k, l \in 1 .. Len(m) : k < l =>
       \E i \in 1 .. n : all[i].target = m[k].target /\ \A j \in 1 .. i : all[j].target # m[l].target

LEMMA PlacedOver ==
    ASSUME NEW B, NEW all \in Seq(B), NEW n \in 0 .. Len(all), n < Len(all), NEW m \in Seq(B),
           NEW b, b = all[n + 1], \E i \in 1 .. Len(m) : m[i].target = b.target,
           Covers(all, m, n), LastOnes(all, m, n), InOrder(all, m, n),
           NEW r, r = Starts!Placed(m, b)
    PROVE  /\ Covers(all, r, n + 1) /\ LastOnes(all, r, n + 1) /\ InOrder(all, r, n + 1)
  <1>1. DOMAIN m = 1 .. Len(m) /\ Len(m) \in Nat /\ n \in Nat  OBVIOUS
  <1>2. r = [i \in 1 .. Len(m) |-> IF m[i].target = b.target THEN b ELSE m[i]]
    BY <1>1 DEF Starts!Placed
  <1>3. r \in Seq(B)
    <2>1. b \in B  OBVIOUS
    <2> QED BY <2>1, PlacedType
  <1>4. Len(r) = Len(m)  BY <1>1, <1>2, <1>3
  <1>5. \A i \in 1 .. Len(m) : r[i].target = m[i].target  BY <1>2
  <1>6. \A i \in 1 .. Len(m) : /\ m[i].target = b.target => r[i] = b
                               /\ m[i].target # b.target => r[i] = m[i]
    BY <1>2
  <1>7. PICK z : z = n + 1  OBVIOUS
  <1>8. z \in Nat /\ \A i \in 1 .. z : i \in 1 .. n \/ i = z  BY <1>1, <1>7
  <1> HIDE DEF Starts!Placed
  <1>9. Covers(all, r, z)  BY <1>4, <1>5, <1>7, <1>8 DEF Covers
  <1>10. LastOnes(all, r, z)
    <2>1. ASSUME NEW k \in 1 .. Len(r)
          PROVE  \E i \in 1 .. z : all[i] = r[k] /\ \A j \in i + 1 .. z : all[j].target # r[k].target
      <3>1. CASE m[k].target = b.target
        <4>1. z \in 1 .. z /\ all[z] = r[k] /\ \A j \in z + 1 .. z : FALSE
          BY <1>4, <1>6, <1>7, <1>8, <3>1
        <4> QED BY <4>1
      <3>2. CASE m[k].target # b.target
        <4>1. r[k] = m[k] /\ k \in 1 .. Len(m)  BY <1>4, <1>6, <3>2
        <4>2. PICK i \in 1 .. n : all[i] = m[k] /\ \A j \in i + 1 .. n : all[j].target # m[k].target
          BY <4>1 DEF LastOnes
        <4>3. i \in 1 .. z /\ \A j \in i + 1 .. z : j \in i + 1 .. n \/ j = z
          BY <1>1, <1>7
        <4>4. \A j \in i + 1 .. z : all[j].target # m[k].target
          BY <4>2, <4>3, <3>2, <1>7
        <4> QED BY <4>1, <4>2, <4>3, <4>4
      <3> QED BY <3>1, <3>2
    <2> QED BY <2>1 DEF LastOnes
  <1>11. InOrder(all, r, z)
    <2>1. ASSUME NEW k \in 1 .. Len(m), NEW l \in 1 .. Len(m), k < l
          PROVE  \E i \in 1 .. z : /\ all[i].target = r[k].target
                                   /\ \A j \in 1 .. i : all[j].target # r[l].target
      <3>1. PICK i \in 1 .. n : all[i].target = m[k].target /\ \A j \in 1 .. i : all[j].target # m[l].target
        BY <2>1 DEF InOrder
      <3>2. i \in 1 .. z  BY <1>1, <1>7
      <3> QED BY <3>1, <3>2, <1>5
    <2> QED BY <2>1, <1>4 DEF InOrder
  <1> QED BY <1>7, <1>9, <1>10, <1>11

LEMMA PlacedLast ==
    ASSUME NEW B, NEW all \in Seq(B), NEW n \in 0 .. Len(all), n < Len(all), NEW m \in Seq(B),
           NEW b, b = all[n + 1], ~ \E i \in 1 .. Len(m) : m[i].target = b.target,
           Covers(all, m, n), LastOnes(all, m, n), InOrder(all, m, n),
           NEW r, r = Starts!Placed(m, b)
    PROVE  /\ Covers(all, r, n + 1) /\ LastOnes(all, r, n + 1) /\ InOrder(all, r, n + 1)
  <1>1. DOMAIN m = 1 .. Len(m) /\ Len(m) \in Nat /\ n \in Nat /\ b \in B  OBVIOUS
  <1>2. r = Append(m, b)  BY <1>1 DEF Starts!Placed
  <1>3. PICK y : y = Len(m) + 1  OBVIOUS
  <1>4. PICK z : z = n + 1  OBVIOUS
  <1>5. Len(r) = y /\ r[y] = b /\ y \in 1 .. y  BY <1>1, <1>2, <1>3
  <1>6. \A k \in 1 .. Len(m) : r[k] = m[k] /\ k \in 1 .. y /\ k # y
    BY <1>1, <1>2, <1>3
  <1>7. \A k \in 1 .. y : k \in 1 .. Len(m) \/ k = y  BY <1>1, <1>3
  <1>8. z \in 1 .. z /\ z \in Nat /\ all[z] = b /\ \A i \in 1 .. z : i \in 1 .. n \/ i = z
    BY <1>1, <1>4
  <1>9. \A i \in 1 .. n : i \in 1 .. z  BY <1>1, <1>4
  <1>10. \A k \in 1 .. Len(m) : m[k].target # b.target  OBVIOUS
  <1>11. Covers(all, r, z)
    <2>1. ASSUME NEW i \in 1 .. z
          PROVE  \E k \in 1 .. y : r[k].target = all[i].target
      <3>1. CASE i = z  BY <3>1, <1>5, <1>8
      <3>2. CASE i \in 1 .. n
        <4>1. PICK k \in 1 .. Len(m) : m[k].target = all[i].target
          BY <3>2 DEF Covers
        <4> QED BY <4>1, <1>6
      <3> QED BY <3>1, <3>2, <1>8
    <2> QED BY <2>1, <1>5 DEF Covers
  <1>12. LastOnes(all, r, z)
    <2>1. ASSUME NEW k \in 1 .. y
          PROVE  \E i \in 1 .. z : all[i] = r[k] /\ \A j \in i + 1 .. z : all[j].target # r[k].target
      <3>1. CASE k = y
        <4>1. \A j \in z + 1 .. z : FALSE  BY <1>8
        <4> QED BY <3>1, <4>1, <1>5, <1>8
      <3>2. CASE k # y
        <4>1. r[k] = m[k] /\ k \in 1 .. Len(m)  BY <1>6, <1>7, <3>2
        <4>2. PICK i \in 1 .. n : all[i] = m[k] /\ \A j \in i + 1 .. n : all[j].target # m[k].target
          BY <4>1 DEF LastOnes
        <4>3. i \in 1 .. z /\ \A j \in i + 1 .. z : j \in i + 1 .. n \/ j = z
          BY <1>1, <1>4
        <4>4. \A j \in i + 1 .. z : all[j].target # m[k].target
          BY <4>1, <4>2, <4>3, <1>8, <1>10
        <4> QED BY <4>1, <4>2, <4>3, <4>4
      <3> QED BY <3>1, <3>2
    <2> QED BY <2>1, <1>5 DEF LastOnes
  <1>13. InOrder(all, r, z)
    <2>1. ASSUME NEW k \in 1 .. y, NEW l \in 1 .. y, k < l
          PROVE  \E i \in 1 .. z : /\ all[i].target = r[k].target
                                   /\ \A j \in 1 .. i : all[j].target # r[l].target
      <3>1. k \in 1 .. Len(m) /\ r[k] = m[k]  BY <2>1, <1>1, <1>3, <1>6
      <3>2. CASE l = y
        <4>1. PICK i \in 1 .. n : all[i] = m[k]  BY <3>1 DEF LastOnes
        <4>2. \A j \in 1 .. n : all[j].target # b.target  BY <1>10 DEF Covers
        <4>3. \A j \in 1 .. i : j \in 1 .. n  BY <1>1
        <4> QED BY <3>1, <3>2, <4>1, <4>2, <4>3, <1>5, <1>9
      <3>3. CASE l # y
        <4>1. l \in 1 .. Len(m) /\ r[l] = m[l]  BY <3>3, <1>6, <1>7
        <4>2. PICK i \in 1 .. n : all[i].target = m[k].target /\ \A j \in 1 .. i : all[j].target # m[l].target
          BY <2>1, <3>1, <4>1 DEF InOrder
        <4> QED BY <3>1, <4>1, <4>2, <1>9
      <3> QED BY <3>2, <3>3
    <2> QED BY <2>1, <1>5 DEF InOrder
  <1> QED BY <1>4, <1>11, <1>12, <1>13

LEMMA MergingKeeps ==
    ASSUME NEW B, NEW all \in Seq(B), NEW m, m = Starts!Merging(all)[Len(all)]
    PROVE  /\ m \in Seq(B)
           /\ Covers(all, m, Len(all)) /\ LastOnes(all, m, Len(all)) /\ InOrder(all, m, Len(all))
  <1>1. PICK g : g = Starts!Merging(all)  OBVIOUS
  <1>2. g[0] = <<>> /\ \A n \in 1 .. Len(all) : g[n] = Starts!Placed(g[n - 1], all[n])
    BY <1>1, MergingIs
  <1> DEFINE S == {n \in 0 .. Len(all) : /\ g[n] \in Seq(B) /\ Covers(all, g[n], n)
                                         /\ LastOnes(all, g[n], n) /\ InOrder(all, g[n], n)}
  <1>3. 0 \in S
    <2>1. PICK e : e = g[0]  OBVIOUS
    <2>2. e \in Seq(B) /\ Len(e) = 0  BY <1>2, <2>1
    <2>3. Covers(all, e, 0) /\ LastOnes(all, e, 0) /\ InOrder(all, e, 0)
      BY <2>2 DEF Covers, LastOnes, InOrder
    <2> QED BY <2>1, <2>2, <2>3
  <1>4. ASSUME NEW n \in 0 .. Len(all), n \in S, n < Len(all)
        PROVE  n + 1 \in S
    <2>1. PICK f : f = g[n]  OBVIOUS
    <2>2. /\ f \in Seq(B) /\ Covers(all, f, n) /\ LastOnes(all, f, n) /\ InOrder(all, f, n)
      BY <1>4, <2>1
    <2>3. PICK b : b = all[n + 1]  OBVIOUS
    <2>4. PICK r : r = Starts!Placed(f, b)  OBVIOUS
    <2>5. n + 1 \in 1 .. Len(all) /\ n + 1 \in 0 .. Len(all) /\ (n + 1) - 1 = n /\ b \in B
      BY <1>4, <2>3
    <2>6. r = g[n + 1]  BY <1>2, <2>1, <2>3, <2>4, <2>5
    <2>7. r \in Seq(B)  BY <2>2, <2>4, <2>5, PlacedType
    <2>8. Covers(all, r, n + 1) /\ LastOnes(all, r, n + 1) /\ InOrder(all, r, n + 1)
      <3>1. CASE \E i \in 1 .. Len(f) : f[i].target = b.target
        <4>1. Covers(all, r, n + 1)  BY <1>4, <2>2, <2>3, <2>4, <3>1, PlacedOver
        <4>2. LastOnes(all, r, n + 1)  BY <1>4, <2>2, <2>3, <2>4, <3>1, PlacedOver
        <4>3. InOrder(all, r, n + 1)  BY <1>4, <2>2, <2>3, <2>4, <3>1, PlacedOver
        <4> QED BY <4>1, <4>2, <4>3
      <3>2. CASE ~ \E i \in 1 .. Len(f) : f[i].target = b.target
        <4>1. Covers(all, r, n + 1)  BY <1>4, <2>2, <2>3, <2>4, <3>2, PlacedLast
        <4>2. LastOnes(all, r, n + 1)  BY <1>4, <2>2, <2>3, <2>4, <3>2, PlacedLast
        <4>3. InOrder(all, r, n + 1)  BY <1>4, <2>2, <2>3, <2>4, <3>2, PlacedLast
        <4> QED BY <4>1, <4>2, <4>3
      <3> QED BY <3>1, <3>2
    <2> QED BY <2>5, <2>6, <2>7, <2>8
  <1>5. Len(all) \in Nat /\ Len(all) \in 0 .. Len(all)  OBVIOUS
  <1> HIDE DEF S
  <1>6. Len(all) \in S  BY <1>3, <1>4, <1>5, Induct
  <1> QED BY <1>1, <1>6 DEF S

LEMMA ExistingIn ==
    ASSUME NEW B, NEW sources \in Seq(B)
    PROVE  Starts!Existing(sources)[Len(sources)] \in Seq(B)
  <1> DEFINE V == Seq(B)
             Keep(g, n) == IF sources[n].exists THEN Append(g, sources[n]) ELSE g
             G == [x \in (1 .. Len(sources)) \X V |-> Keep(x[2], x[1])]
             Step(g) == [n \in 0 .. Len(sources) |->
                           IF n = 0 THEN <<>>
                           ELSE IF sources[n].exists THEN Append(g[n - 1], sources[n])
                                                     ELSE g[n - 1]]
  <1>0. \A n \in 1 .. Len(sources) : \A v \in V : Keep(v, n) \in V  OBVIOUS
  <1>1. G \in [(1 .. Len(sources)) \X V -> V]  BY <1>0
  <1>2. <<>> \in V /\ Len(sources) \in Nat  OBVIOUS
  <1>3. \A n \in 1 .. Len(sources) : \A v \in V :
           G[<<n, v>>] = IF sources[n].exists THEN Append(v, sources[n]) ELSE v
    OBVIOUS
  <1> HIDE DEF V, G
  <1>4. PICK f \in [0 .. Len(sources) -> V] :
           f[0] = <<>> /\ \A k \in 1 .. Len(sources) : f[k] = G[<<k, f[k - 1]>>]
    <2>1. \E f : Iterates(f, V, <<>>, Len(sources), G)  BY <1>1, <1>2, Iterated
    <2> QED BY <2>1 DEF Iterates
  <1>5. f = Step(f)
    <2>1. \A n \in 1 .. Len(sources) :
             f[n] = IF sources[n].exists THEN Append(f[n - 1], sources[n]) ELSE f[n - 1]
      <3> TAKE n \in 1 .. Len(sources)
      <3>1. n - 1 \in 0 .. Len(sources)  OBVIOUS
      <3> QED BY <3>1, <1>3, <1>4
    <2>2. \A n \in 0 .. Len(sources) : n # 0 => n \in 1 .. Len(sources)  OBVIOUS
    <2> QED BY <2>1, <2>2, <1>4
  <1>6. Starts!Existing(sources) = Step(Starts!Existing(sources))
    BY <1>5, Zenon DEF Starts!Existing
  <1>7. PICK m : m = Starts!Existing(sources)  OBVIOUS
  <1>8. m = Step(m)  BY <1>6, <1>7
  <1> DEFINE S == {n \in 0 .. Len(sources) : m[n] \in Seq(B)}
  <1>9. 0 \in S  BY <1>8, <1>2 DEF V
  <1>10. ASSUME NEW n \in 0 .. Len(sources), n \in S, n < Len(sources)
         PROVE  n + 1 \in S
    <2>1. n + 1 \in 0 .. Len(sources) /\ n + 1 # 0 /\ (n + 1) - 1 = n /\ n + 1 \in 1 .. Len(sources)
      BY <1>2, <1>10
    <2>2. m[n + 1] = IF sources[n + 1].exists THEN Append(m[n], sources[n + 1]) ELSE m[n]
      BY <2>1, <1>8
    <2>3. m[n] \in Seq(B) /\ sources[n + 1] \in B  BY <2>1, <1>10
    <2> QED BY <2>1, <2>2, <2>3
  <1>11. Len(sources) \in 0 .. Len(sources)  BY <1>2
  <1> HIDE DEF S
  <1>12. Len(sources) \in S  BY <1>2, <1>9, <1>10, <1>11, Induct
  <1> QED BY <1>7, <1>12 DEF S

\* The agent's view m of the paths that all names.
Seen(all, m) ==
    LET first(target0) == CHOOSE i \in DOMAIN all :
                            all[i].target = target0 /\ \A j \in 1 .. i - 1 : all[j].target # target0
    IN /\ \A i \in DOMAIN all : \E k \in DOMAIN m : m[k].target = all[i].target
       /\ \A k, l \in DOMAIN m : k < l => first(m[k].target) < first(m[l].target)
       /\ \A k \in DOMAIN m : \E i \in DOMAIN all :
            all[i] = m[k] /\ \A j \in i + 1 .. Len(all) : all[j].target # m[k].target

LEMMA MergedIsSeen ==
    ASSUME NEW B, NEW all \in Seq(B), NEW m \in Seq(B),
           Covers(all, m, Len(all)), LastOnes(all, m, Len(all)), InOrder(all, m, Len(all))
    PROVE  Seen(all, m)
  <1> DEFINE Is(i, x) == all[i].target = x /\ \A j \in 1 .. i - 1 : all[j].target # x
             first(x) == CHOOSE i \in DOMAIN all : Is(i, x)
  <1>1. DOMAIN all = 1 .. Len(all) /\ DOMAIN m = 1 .. Len(m) /\ Len(all) \in Nat /\ Len(m) \in Nat
    OBVIOUS
  <1>2. ASSUME NEW x, \E i \in DOMAIN all : all[i].target = x
        PROVE  first(x) \in DOMAIN all /\ Is(first(x), x)
    <2>1. PICK T : T = {i \in DOMAIN all : all[i].target = x}  OBVIOUS
    <2>2. T # {} /\ T \subseteq Nat  BY <1>1, <1>2, <2>1
    <2>3. PICK i \in T : \A j \in T : i <= j  BY <2>2, Least
    <2>4. i \in DOMAIN all /\ all[i].target = x  BY <2>1
    <2>5. \A j \in 1 .. i - 1 : j \in DOMAIN all /\ ~(i <= j)  BY <2>4, <1>1
    <2>6. Is(i, x)  BY <2>1, <2>3, <2>4, <2>5
    <2> HIDE DEF Is
    <2> QED BY <2>4, <2>6
  <1>3. \A i \in DOMAIN all : \E k \in DOMAIN m : m[k].target = all[i].target
    BY <1>1 DEF Covers
  <1>4. ASSUME NEW k \in DOMAIN m, NEW l \in DOMAIN m, k < l
        PROVE  first(m[k].target) < first(m[l].target)
    <2>1. PICK i \in 1 .. Len(all) : /\ all[i].target = m[k].target
                                     /\ \A j \in 1 .. i : all[j].target # m[l].target
      BY <1>1, <1>4 DEF InOrder
    <2>2. \E j \in DOMAIN all : all[j].target = m[l].target  BY <1>1 DEF LastOnes
    <2>3. PICK a, b : a = first(m[k].target) /\ b = first(m[l].target)  OBVIOUS
    <2>4. a \in DOMAIN all /\ Is(a, m[k].target)  BY <1>1, <1>2, <2>1, <2>3
    <2>5. b \in DOMAIN all /\ Is(b, m[l].target)  BY <1>2, <2>2, <2>3
    <2> HIDE DEF first
    <2>6. a <= i  BY <1>1, <2>1, <2>4
    <2>7. ~(b <= i)  BY <1>1, <2>1, <2>5
    <2> QED BY <1>1, <2>3, <2>4, <2>5, <2>6, <2>7
  <1>5. \A k \in DOMAIN m : \E i \in DOMAIN all :
           all[i] = m[k] /\ \A j \in i + 1 .. Len(all) : all[j].target # m[k].target
    BY <1>1 DEF LastOnes
  <1> QED BY <1>3, <1>4, <1>5 DEF Seen

AllBinds == {Bind("h1", "/a", TRUE), Bind("h2", "/b", TRUE), Bind("h3", "/a", TRUE),
             Bind("h4", "/c", TRUE), Bind("h5", "/c", TRUE), Bind("h1", "/a", FALSE),
             Bind("h2", "/a", TRUE)}

LEMMA CommandBinds ==
    ASSUME NEW c \in MCCommands
    PROVE  c.sources \in Seq(AllBinds) /\ c.overrides \in Seq(AllBinds)
  <1>1. \A a, b, o : Command(a, b, o).sources = b /\ Command(a, b, o).overrides = o
    BY DEF Command
  <1>2. \A a, b, d \in AllBinds :
           /\ <<a>> \in Seq(AllBinds) /\ <<a, b>> \in Seq(AllBinds)
           /\ <<a, b, d>> \in Seq(AllBinds) /\ <<>> \in Seq(AllBinds)
    OBVIOUS
  <1>3. /\ Bind("h1", "/a", TRUE) \in AllBinds /\ Bind("h2", "/b", TRUE) \in AllBinds
        /\ Bind("h3", "/a", TRUE) \in AllBinds /\ Bind("h4", "/c", TRUE) \in AllBinds
        /\ Bind("h5", "/c", TRUE) \in AllBinds /\ Bind("h1", "/a", FALSE) \in AllBinds
        /\ Bind("h2", "/a", TRUE) \in AllBinds
    BY DEF AllBinds
  <1>4. /\ <<Bind("h1", "/a", TRUE), Bind("h2", "/b", TRUE)>> \in Seq(AllBinds)
        /\ <<Bind("h1", "/a", FALSE), Bind("h2", "/a", TRUE)>> \in Seq(AllBinds)
        /\ <<Bind("h1", "/a", TRUE), Bind("h2", "/a", TRUE)>> \in Seq(AllBinds)
        /\ <<Bind("h3", "/a", TRUE), Bind("h4", "/c", TRUE), Bind("h5", "/c", TRUE)>>
             \in Seq(AllBinds)
    BY <1>2, <1>3
  <1>5. \E k \in {<<"data-locator", "log-context", "custom", "data-locator">>,
                  <<"log-context">>, <<"custom">>} :
           \/ c = Command(k, <<Bind("h1", "/a", TRUE), Bind("h2", "/b", TRUE)>>,
                          <<Bind("h3", "/a", TRUE), Bind("h4", "/c", TRUE), Bind("h5", "/c", TRUE)>>)
           \/ c = Command(k, <<Bind("h1", "/a", FALSE), Bind("h2", "/a", TRUE)>>, <<>>)
           \/ c = Command(k, <<Bind("h1", "/a", TRUE), Bind("h2", "/a", TRUE)>>, <<>>)
    BY Zenon DEF MCCommands
  <1>7. <<>> \in Seq(AllBinds)  OBVIOUS
  <1>8. \E k : \E x, y \in Seq(AllBinds) : c = Command(k, x, y)
    BY <1>4, <1>5, <1>7, Zenon
  <1> QED BY <1>1, <1>8

LEMMA BoundIsSeen ==
    ASSUME NEW c \in MCCommands
    PROVE  Seen(Starts!CatalogBinds(c) \o c.overrides, Bound(c))
  <1>1. PICK d : d = Starts!CatalogBinds(c)  OBVIOUS
  <1>2. d \in Seq(AllBinds) /\ c.overrides \in Seq(AllBinds)
    BY <1>1, CommandBinds, ExistingIn DEF Starts!CatalogBinds
  <1>3. PICK all : all = d \o c.overrides  OBVIOUS
  <1>4. all \in Seq(AllBinds)  BY <1>2, <1>3
  <1>5. PICK m : m = Starts!Merging(all)[Len(all)]  OBVIOUS
  <1>6. m \in Seq(AllBinds)  BY <1>4, <1>5, MergingKeeps
  <1>7. Covers(all, m, Len(all))  BY <1>4, <1>5, MergingKeeps
  <1>8. LastOnes(all, m, Len(all))  BY <1>4, <1>5, MergingKeeps
  <1>9. InOrder(all, m, Len(all))  BY <1>4, <1>5, MergingKeeps
  <1>10. Seen(all, m)  BY <1>4, <1>6, <1>7, <1>8, <1>9, MergedIsSeen
  <1>11. Bound(c) = m  BY <1>1, <1>3, <1>5, Zenon DEF Bound, Starts!Merged
  <1> QED BY <1>1, <1>3, <1>10, <1>11

LEMMA StartsAreSound ==
    ASSUME Starts!NoOneAssumption, StartsInv
    PROVE  /\ Starts!TypeOK /\ Starts!SkillsStayWhole
           /\ Starts!RecordsHaveOwners /\ Starts!BindsSound
  <1>1. Starts!TypeOK  BY DEF StartsInv, StartsTypes, Starts!TypeOK, Skills, Copies
  <1>2. Starts!SkillsStayWhole
    <2>1. ASSUME NEW s \in Servers, proc[s].step = "serving"
          PROVE  /\ \A i \in 1 .. Len(proc[s].command.skills) :
                       skill[proc[s].command.skills[i]] = "whole"
                 /\ catalog["workspace"] = "whole"
                 /\ Starts!Contains(proc[s].command.skills, "data-locator")
                       => catalog["locator"] = "whole"
      <3>1. Prepared(proc[s], skill, catalog)  BY DEF StartsInv
      <3>2. Starts!Contains(proc[s].command.skills, "data-locator") =>
              \E i \in 1 .. Len(proc[s].command.skills) : proc[s].command.skills[i] = "data-locator"
        BY DEF Starts!Contains
      <3> QED BY <2>1, <3>1, <3>2 DEF Prepared, Skilled, Catalogued
    <2>2. \A s \in Servers : proc[s].step = "serving" =>
             DOMAIN proc[s].command.skills = 1 .. Len(proc[s].command.skills)
      BY ProcessFits
    <2> QED BY <2>1, <2>2 DEF Starts!SkillsStayWhole, Starts!Serving, Starts!At, Starts!Names
  <1>3. Starts!RecordsHaveOwners
    BY DEF StartsInv, Owned, Starts!RecordsHaveOwners, Starts!Serving, Starts!At
  <1>4. Starts!BindsSound
    <2>1. ASSUME NEW s \in Servers, proc[s].step = "serving"
          PROVE  Seen(Starts!CatalogBinds(proc[s].command) \o proc[s].command.overrides,
                      proc[s].binds)
      <3>1. Prepared(proc[s], skill, catalog) /\ proc[s].command \in MCCommands
        BY <2>1, ProcessFits
      <3> QED BY <2>1, <3>1, BoundIsSeen DEF Prepared
    <2> QED BY <2>1, Zenon DEF Starts!BindsSound, Seen, Starts!Serving, Starts!At
  <1> QED BY <1>1, <1>2, <1>3, <1>4

-----------------------------------------------------------------------------
(* TaskFiles: the invariant.                                                 *)

\* Entries of the directory, and what a request is.
Entries == Files!Listable \cup Requests
RequestRecords ==
    [kind : Files!Kinds \cup {"none"},
     step : {"new", "start", "open", "replace", "add", "unlink", "files", "rmdir", "done"},
     status : Nat, names : SUBSET Files!Listable, next : 0 .. 6, listed : SUBSET Entries,
     before : BOOLEAN, whole : BOOLEAN]
Deleting == {"unlink", "files", "rmdir"}

FilesTypes == /\ Files!TypeOK
              /\ req \in [Requests -> RequestRecords]

\* What the archive of an export that is not disturbed holds so far.
Added(q) == {n \in q.names : \E i \in 1 .. 5 : i < q.next /\ n = Files!Allow[i]}

\* A request q, made as r, in a directory d with an archive z under a lock l, and
\* the history del: the archive is its own, the lock lies with the deletion that
\* takes the directory away, and before a deletion it has what it needs.
Fine(r, q, d, z, l, del) ==
    /\ q.whole
    /\ q.kind = "export" /\ q.step = "add" =>
         /\ q.next >= 1
         /\ z.by = r /\ ~z.mixed => z.members = Added(q)
    /\ q.step \in Deleting =>
         q.kind = "delete" /\ l = r /\ del # "none" /\ d # Files!NoDir
    /\ del = "none" =>
         /\ q.kind = "rate" /\ q.step = "replace" => r \in d
         /\ q.names \subseteq d
         /\ q.kind = "export" /\ q.step = "add" => z # Files!NoZip
         /\ q.step = "done" => q.status = 200 \/ (q.kind = "delete" /\ q.status = 409)
AllFine == \A r \in Requests : Fine(r, req[r], dir, zip, lock, deletion)

\* Before a deletion the task is whole, and it begins when the worker is gone.
Undisturbed == deletion = "none" => handle /\ dir # Files!NoDir /\ "task.json" \in dir
Dismissed == deletion # "none" => worker = "gone" /\ ~handle

FilesInv == /\ FilesTypes /\ Undisturbed /\ Dismissed /\ Files!DeletedLeavesOnlyRatings
            /\ AllFine

LEMMA AllowIs == /\ DOMAIN Files!Allow = 1 .. 5
                 /\ Files!Allow[1] = "task.json" /\ Files!Allow[2] = "result.json"
                 /\ Files!Allow[3] = "evidence.json" /\ Files!Allow[4] = "evaluation.json"
                 /\ Files!Allow[5] = "cleanup.json"
                 /\ Files!Listable = {"task.json", "result.json", "evidence.json",
                                      "evaluation.json", "cleanup.json"}
  <1>1. /\ DOMAIN Files!Allow = 1 .. 5
        /\ Files!Allow[1] = "task.json" /\ Files!Allow[2] = "result.json"
        /\ Files!Allow[3] = "evidence.json" /\ Files!Allow[4] = "evaluation.json"
        /\ Files!Allow[5] = "cleanup.json"
    BY DEF Files!Allow
  <1>2. 1 .. 5 = {1, 2, 3, 4, 5}  OBVIOUS
  <1>3. Files!Listable = {Files!Allow[i] : i \in {1, 2, 3, 4, 5}}
    BY <1>1, <1>2, Zenon DEF Files!Listable
  <1>4. \A x : x \in Files!Listable <=> \E i \in {1, 2, 3, 4, 5} : x = Files!Allow[i]
    BY <1>3
  <1> QED BY <1>1, <1>4

\* A directory that has only entries is there.
LEMMA EntriesAreThere ==
    ASSUME Files!RequestsAssumption, NEW d, d \subseteq Entries
    PROVE  d # Files!NoDir
  BY AllowIs DEF Entries, Files!RequestsAssumption, Files!NoDir

LEMMA FilesStart == ASSUME Files!RequestsAssumption, Files!Init
                    PROVE  FilesInv
  <1>1. FilesTypes
    BY AllowIs DEF FilesTypes, Files!TypeOK, Files!Init, Files!NoZip, Files!Fresh,
       RequestRecords, Files!Kinds, Entries
  <1>2. dir # Files!NoDir  BY DEF Files!Init, Files!NoDir
  <1>3. \A r \in Requests : /\ req[r].kind = "none" /\ req[r].step = "new" /\ req[r].whole
                             /\ req[r].names = {}
    BY DEF Files!Init, Files!Fresh
  <1>4. AllFine  BY <1>3 DEF AllFine, Fine, Deleting
  <1> QED
    BY <1>1, <1>2, <1>4 DEF FilesInv, Files!Init, Undisturbed, Dismissed,
       Files!DeletedLeavesOnlyRatings

\* A write makes the directory if it has to.
LEMMA WriteMakes ==
    ASSUME Files!RequestsAssumption, FilesTypes, NEW name \in Entries, Files!Write(name)
    PROVE  /\ dir' \subseteq Entries /\ dir' # Files!NoDir /\ name \in dir'
           /\ dir # Files!NoDir => dir' = dir \cup {name}
           /\ dir = Files!NoDir => dir' = {name}
  <1>1. dir = Files!NoDir \/ dir \subseteq Entries
    BY DEF FilesTypes, Files!TypeOK, Entries
  <1>2. /\ dir # Files!NoDir => dir' = dir \cup {name}
        /\ dir = Files!NoDir => dir' = {name}
    BY DEF Files!Write, Files!Exists
  <1>3. dir' \subseteq Entries /\ name \in dir'  BY <1>1, <1>2
  <1> QED BY <1>2, <1>3, EntriesAreThere

\* The worker writes while its task may not be deleted.
LEMMA WorkerSteps ==
    ASSUME Files!RequestsAssumption, FilesInv,
           Files!WorkerCollects \/ Files!WorkerFinishes \/ Files!WorkerCleansUp
    PROVE  FilesInv'
  <1>1. /\ req' = req /\ zip' = zip /\ deletion' = deletion /\ lock' = lock /\ handle' = handle
        /\ worker # "gone" /\ worker' \in {"working", "cleaning", "gone"}
    BY DEF Files!WorkerCollects, Files!WorkerFinishes, Files!WorkerCleansUp, FilesInv, FilesTypes,
       Files!TypeOK
  <1>2. deletion = "none"  BY <1>1 DEF FilesInv, Dismissed
  <1>3. PICK name \in Files!Listable : Files!Write(name)
    BY AllowIs DEF Files!WorkerCollects, Files!WorkerFinishes, Files!WorkerCleansUp
  <1>4. dir # Files!NoDir  BY <1>2 DEF FilesInv, Undisturbed
  <1>5. dir' = dir \cup {name} /\ dir' \subseteq Entries /\ dir' # Files!NoDir
    <2>1. name \in Entries  BY DEF Entries
    <2> QED BY <1>3, <1>4, <2>1, WriteMakes DEF FilesInv
  <1>6. FilesTypes'  BY <1>1, <1>5 DEF FilesInv, FilesTypes, Files!TypeOK, Entries
  <1>7. AllFine'
    <2>1. ASSUME NEW r \in Requests
          PROVE  Fine(r, req[r], dir', zip, lock, deletion)
      BY <1>5 DEF FilesInv, AllFine, Fine
    <2> QED BY <1>1, <2>1 DEF AllFine
  <1>8. Undisturbed' /\ Dismissed' /\ Files!DeletedLeavesOnlyRatings'
    BY <1>1, <1>2, <1>5 DEF FilesInv, Undisturbed, Dismissed, Files!DeletedLeavesOnlyRatings
  <1> QED BY <1>6, <1>7, <1>8 DEF FilesInv

\* A request moves: the others stay as they are.
LEMMA Others ==
    ASSUME NEW r \in Requests, NEW q, req \in [Requests -> RequestRecords], q \in RequestRecords,
           req' = [req EXCEPT ![r] = q]
    PROVE  /\ req' \in [Requests -> RequestRecords] /\ req'[r] = q
           /\ \A x \in Requests : x # r => req'[x] = req[x]
  OBVIOUS

LEMMA GoesTo ==
    ASSUME NEW r \in Requests, NEW step, req \in [Requests -> RequestRecords], Files!Goes(r, step),
           step \in {"start", "open", "replace", "add", "unlink", "files", "rmdir"}
    PROVE  /\ req' \in [Requests -> RequestRecords]
           /\ req'[r] = [req[r] EXCEPT !.step = step]
           /\ \A x \in Requests : x # r => req'[x] = req[x]
  <1>1. [req[r] EXCEPT !.step = step] \in RequestRecords  BY DEF RequestRecords
  <1>2. req' = [req EXCEPT ![r] = [req[r] EXCEPT !.step = step]]  BY DEF Files!Goes
  <1> QED BY <1>1, <1>2

LEMMA AnsweredWith ==
    ASSUME NEW r \in Requests, NEW status \in Nat, req \in [Requests -> RequestRecords],
           Files!Answered(r, status)
    PROVE  /\ req' \in [Requests -> RequestRecords]
           /\ req'[r] = [req[r] EXCEPT !.step = "done", !.status = status]
           /\ \A x \in Requests : x # r => req'[x] = req[x]
  <1>1. [req[r] EXCEPT !.step = "done", !.status = status] \in RequestRecords
    BY DEF RequestRecords
  <1>2. req' = [req EXCEPT ![r] = [req[r] EXCEPT !.step = "done", !.status = status]]
    BY DEF Files!Answered
  <1> QED BY <1>1, <1>2

\* A request moves and leaves the rest of the task as it is.
LEMMA OnlyRequest ==
    ASSUME FilesInv, NEW r \in Requests, req' \in [Requests -> RequestRecords],
           \A x \in Requests : x # r => req'[x] = req[x],
           UNCHANGED <<worker, handle, dir, zip, lock, deletion>>,
           Fine(r, req'[r], dir, zip, lock, deletion)
    PROVE  FilesInv'
  <1>1. AllFine'  BY DEF FilesInv, AllFine
  <1>2. FilesTypes'  BY DEF FilesInv, FilesTypes, Files!TypeOK
  <1>3. Undisturbed' /\ Dismissed' /\ Files!DeletedLeavesOnlyRatings'
    BY DEF FilesInv, Undisturbed, Dismissed, Files!DeletedLeavesOnlyRatings
  <1> QED BY <1>1, <1>2, <1>3 DEF FilesInv

LEMMA ArriveStep ==
    ASSUME FilesInv, NEW r \in Requests, NEW kind \in Files!Kinds, Files!Arrive(r, kind)
    PROVE  FilesInv'
  <1>1. req \in [Requests -> RequestRecords] /\ deletion \in {"none", "begun", "done"}
    BY DEF FilesInv, FilesTypes, Files!TypeOK
  <1> DEFINE q == [req[r] EXCEPT !.kind = kind, !.step = "start", !.before = (deletion = "none")]
  <1>2. q \in RequestRecords  BY <1>1 DEF RequestRecords
  <1>3. req' = [req EXCEPT ![r] = q]  BY DEF Files!Arrive
  <1>4. q.step = "start" /\ q.names = req[r].names /\ q.whole = req[r].whole
    BY <1>1 DEF RequestRecords
  <1> HIDE DEF q
  <1>5. /\ req' \in [Requests -> RequestRecords] /\ req'[r] = q
        /\ \A x \in Requests : x # r => req'[x] = req[x]
    BY <1>1, <1>2, <1>3
  <1>6. Fine(r, req[r], dir, zip, lock, deletion)  BY DEF FilesInv, AllFine
  <1>7. Fine(r, q, dir, zip, lock, deletion)  BY <1>4, <1>6 DEF Fine, Deleting
  <1>8. UNCHANGED <<worker, handle, dir, zip, lock, deletion>>  BY DEF Files!Arrive
  <1> QED BY <1>5, <1>7, <1>8, OnlyRequest

\* A request is answered and changes nothing; until a deletion begins, with 200
\* only or with a conflict.
LEMMA AnswerStep ==
    ASSUME FilesInv, NEW r \in Requests, NEW status \in Nat, Files!Answered(r, status),
           UNCHANGED <<worker, handle, dir, zip, lock, deletion>>,
           deletion = "none" => status = 200 \/ (req[r].kind = "delete" /\ status = 409)
    PROVE  FilesInv'
  <1>1. req \in [Requests -> RequestRecords]  BY DEF FilesInv, FilesTypes
  <1>2. /\ req' \in [Requests -> RequestRecords]
        /\ req'[r] = [req[r] EXCEPT !.step = "done", !.status = status]
        /\ \A x \in Requests : x # r => req'[x] = req[x]
    <2>1. Files!Answered(r, status)  OBVIOUS
    <2> HIDE DEF RequestRecords
    <2> QED BY ONLY <1>1, <2>1, AnsweredWith
  <1>3. /\ req'[r].step = "done" /\ req'[r].status = status /\ req'[r].kind = req[r].kind
        /\ req'[r].names = req[r].names /\ req'[r].whole = req[r].whole
    BY <1>1, <1>2 DEF RequestRecords
  <1>4. Fine(r, req[r], dir, zip, lock, deletion)  BY DEF FilesInv, AllFine
  <1>5. Fine(r, req'[r], dir, zip, lock, deletion)  BY <1>3, <1>4 DEF Fine, Deleting
  <1> QED BY <1>2, <1>5, OnlyRequest

LEMMA Statuses == /\ Files!Status("TaskNotFoundError") = 404
                  /\ Files!Status("TaskConflictError") = 409
                  /\ Files!Status("FileNotFoundError") = 500
                  /\ Files!Status("RuntimeError") = 500
                  /\ Files!Status("OSError") = 500
  BY DEF Files!Status

LEMMA EvidenceStep ==
    ASSUME FilesInv, NEW r \in Requests, Files!ReadEvidence(r)
    PROVE  FilesInv'
  <1>1. UNCHANGED <<worker, handle, dir, zip, lock, deletion>>
    BY DEF Files!ReadEvidence
  <1>2. deletion = "none" => Files!Exists
    BY DEF FilesInv, Undisturbed, Files!Exists
  <1>3. PICK status \in Nat : Files!Answered(r, status) /\ (Files!Exists => status = 200)
    BY Statuses DEF Files!ReadEvidence, Files!Raised
  <1> QED BY <1>1, <1>2, <1>3, AnswerStep

LEMMA RateCheckStep ==
    ASSUME FilesInv, NEW r \in Requests, Files!RateCheck(r)
    PROVE  FilesInv'
  <1>1. UNCHANGED <<worker, handle, dir, zip, lock, deletion>>
    BY DEF Files!RateCheck
  <1>2. CASE Files!Exists
    <2>1. Files!Goes(r, "open")  BY <1>2 DEF Files!RateCheck
    <2>2. req \in [Requests -> RequestRecords]  BY DEF FilesInv, FilesTypes
    <2>3. /\ req' \in [Requests -> RequestRecords]
          /\ req'[r] = [req[r] EXCEPT !.step = "open"]
          /\ \A x \in Requests : x # r => req'[x] = req[x]
      BY <2>1, <2>2, GoesTo
    <2>4. /\ req'[r].step = "open" /\ req'[r].names = req[r].names
          /\ req'[r].whole = req[r].whole
      BY <2>2, <2>3 DEF RequestRecords
    <2>5. Fine(r, req[r], dir, zip, lock, deletion)  BY DEF FilesInv, AllFine
    <2>6. Fine(r, req'[r], dir, zip, lock, deletion)
      BY <2>4, <2>5 DEF Fine, Deleting
    <2> QED BY <1>1, <2>3, <2>6, OnlyRequest
  <1>3. CASE ~Files!Exists
    <2>1. Files!Answered(r, 404)
      BY <1>3, Statuses DEF Files!RateCheck, Files!Raised
    <2>2. deletion # "none"  BY <1>3 DEF FilesInv, Undisturbed, Files!Exists
    <2> QED BY <1>1, <2>1, <2>2, AnswerStep
  <1> QED BY <1>2, <1>3

LEMMA RateOpenStep ==
    ASSUME Files!RequestsAssumption, FilesInv, NEW r \in Requests, Files!RateOpen(r)
    PROVE  FilesInv'
  <1>1. UNCHANGED <<worker, handle, zip, lock, deletion>>  BY DEF Files!RateOpen
  <1>2. req \in [Requests -> RequestRecords]  BY DEF FilesInv, FilesTypes
  <1>3. /\ req' \in [Requests -> RequestRecords]
        /\ req'[r] = [req[r] EXCEPT !.step = "replace"]
        /\ \A x \in Requests : x # r => req'[x] = req[x]
    <2>1. Files!Goes(r, "replace")  BY DEF Files!RateOpen
    <2> QED BY ONLY <1>2, <2>1, GoesTo
  <1>4. /\ req'[r].step = "replace" /\ req'[r].names = req[r].names
        /\ req'[r].whole = req[r].whole /\ req'[r].kind = "rate"
    BY <1>2, <1>3 DEF RequestRecords, Files!RateOpen, Files!At
  <1>5. /\ dir' \subseteq Entries /\ dir' # Files!NoDir /\ r \in dir'
        /\ dir # Files!NoDir => dir' = dir \cup {r}
        /\ dir = Files!NoDir => dir' = {r}
    <2>1. r \in Entries  BY DEF Entries
    <2>2. Files!Write(r)  BY DEF Files!RateOpen
    <2> QED BY <2>1, <2>2, WriteMakes DEF FilesInv
  <1>6. FilesTypes'
    BY <1>1, <1>3, <1>5 DEF FilesInv, FilesTypes, Files!TypeOK, Entries
  <1>7. AllFine'
    <2>1. ASSUME NEW x \in Requests, x # r
          PROVE  Fine(x, req[x], dir', zip, lock, deletion)
      BY <1>5, <2>1 DEF FilesInv, AllFine, Fine, Undisturbed
    <2>2. Fine(r, req'[r], dir', zip, lock, deletion)
      <3>1. Fine(r, req[r], dir, zip, lock, deletion)  BY DEF FilesInv, AllFine
      <3>2. deletion = "none" => dir' = dir \cup {r}
        BY <1>5 DEF FilesInv, Undisturbed
      <3> QED BY <1>4, <1>5, <3>1, <3>2 DEF Fine, Deleting
    <2> QED BY <1>1, <1>3, <2>1, <2>2 DEF AllFine
  <1>8. Undisturbed' /\ Dismissed' /\ Files!DeletedLeavesOnlyRatings'
    BY <1>1, <1>5 DEF FilesInv, Undisturbed, Dismissed, Files!DeletedLeavesOnlyRatings
  <1> QED BY <1>6, <1>7, <1>8 DEF FilesInv

LEMMA RateReplaceStep ==
    ASSUME Files!RequestsAssumption, FilesInv, NEW r \in Requests, Files!RateReplace(r)
    PROVE  FilesInv'
  <1>1. UNCHANGED <<worker, handle, zip, lock, deletion>>  BY DEF Files!RateReplace
  <1>2. req \in [Requests -> RequestRecords]  BY DEF FilesInv, FilesTypes
  <1>3. CASE ~Files!HasFile(r)
    <2>1. Files!Answered(r, 500) /\ UNCHANGED dir
      BY <1>3, Statuses DEF Files!RateReplace, Files!Raised
    <2>2. deletion # "none"
      BY <1>3 DEF FilesInv, AllFine, Fine, Files!RateReplace, Files!At, Files!HasFile
    <2> QED BY <1>1, <2>1, <2>2, AnswerStep
  <1>4. CASE Files!HasFile(r)
    <2>1. Files!Answered(r, 200) /\ dir' = (dir \ {r}) \cup {"evaluation.json"}
      BY <1>4 DEF Files!RateReplace
    <2>2. /\ req' \in [Requests -> RequestRecords]
          /\ req'[r] = [req[r] EXCEPT !.step = "done", !.status = 200]
          /\ \A x \in Requests : x # r => req'[x] = req[x]
      <3>1. Files!Answered(r, 200) /\ 200 \in Nat  BY <2>1
      <3> QED BY ONLY <1>2, <3>1, AnsweredWith
    <2>3. /\ req'[r].step = "done" /\ req'[r].status = 200 /\ req'[r].names = req[r].names
          /\ req'[r].whole = req[r].whole
      BY <1>2, <2>2 DEF RequestRecords
    <2>4. dir \subseteq Entries
      <3>1. dir # Files!NoDir
        BY <1>4 DEF Files!HasFile, Files!NoDir, Files!RequestsAssumption
      <3> QED BY <3>1 DEF FilesInv, FilesTypes, Files!TypeOK, Entries
    <2>5. "evaluation.json" \in Files!Listable /\ r \notin Files!Listable
      BY AllowIs DEF Files!RequestsAssumption
    <2>6. dir' \subseteq Entries /\ dir' # Files!NoDir
      BY <2>1, <2>4, <2>5, EntriesAreThere DEF Entries
    <2>7. FilesTypes'
      BY <1>1, <2>2, <2>6 DEF FilesInv, FilesTypes, Files!TypeOK, Entries
    <2>8. \A x \in Requests : req[x].names \subseteq Files!Listable
      BY <1>2 DEF RequestRecords
    <2>9. AllFine'
      <3>1. ASSUME NEW x \in Requests, x # r
            PROVE  Fine(x, req[x], dir', zip, lock, deletion)
        <4>1. Fine(x, req[x], dir, zip, lock, deletion)  BY DEF FilesInv, AllFine
        <4>2. x \in dir => x \in dir'  BY <2>1, <3>1
        <4>3. req[x].names \subseteq dir => req[x].names \subseteq dir'
          BY <2>1, <2>5, <2>8
        <4> QED BY <2>6, <4>1, <4>2, <4>3 DEF Fine
      <3>2. Fine(r, req'[r], dir', zip, lock, deletion)
        <4>1. Fine(r, req[r], dir, zip, lock, deletion)  BY DEF FilesInv, AllFine
        <4>2. req[r].names \subseteq dir => req[r].names \subseteq dir'
          BY <2>1, <2>5, <2>8
        <4> QED BY <2>3, <4>1, <4>2 DEF Fine, Deleting
      <3> QED BY <1>1, <2>2, <3>1, <3>2 DEF AllFine
    <2>10. "task.json" \in dir => "task.json" \in dir'  BY <2>1, <2>5, AllowIs
    <2>11. Undisturbed' /\ Dismissed'
      BY <1>1, <2>6, <2>10 DEF FilesInv, Undisturbed, Dismissed
    <2>12. Files!DeletedLeavesOnlyRatings'
      <3>1. dir # Files!NoDir
        BY <1>4 DEF Files!HasFile, Files!NoDir, Files!RequestsAssumption
      <3> QED BY <1>1, <2>1, <3>1 DEF FilesInv, Files!DeletedLeavesOnlyRatings
    <2> QED BY <2>7, <2>9, <2>11, <2>12 DEF FilesInv
  <1> QED BY <1>3, <1>4

-----------------------------------------------------------------------------
LEMMA ExportListStep ==
    ASSUME FilesInv, NEW r \in Requests, Files!ExportList(r)
    PROVE  FilesInv'
  <1>1. UNCHANGED <<worker, handle, dir, zip, lock, deletion>>
    BY DEF Files!ExportList
  <1>2. CASE Files!Exists
    <2>1. req \in [Requests -> RequestRecords]  BY DEF FilesInv, FilesTypes
    <2> DEFINE q == [req[r] EXCEPT !.step = "open", !.names = Files!Included]
    <2>2. q \in RequestRecords  BY <2>1 DEF RequestRecords, Files!Included
    <2>3. req' = [req EXCEPT ![r] = q]  BY <1>2 DEF Files!ExportList
    <2>4. q.step = "open" /\ q.names \subseteq dir /\ q.whole = req[r].whole
      BY <2>1 DEF RequestRecords, Files!Included
    <2> HIDE DEF q
    <2>5. /\ req' \in [Requests -> RequestRecords] /\ req'[r] = q
          /\ \A x \in Requests : x # r => req'[x] = req[x]
      BY <2>1, <2>2, <2>3
    <2>6. Fine(r, req[r], dir, zip, lock, deletion)  BY DEF FilesInv, AllFine
    <2>7. Fine(r, q, dir, zip, lock, deletion)  BY <2>4, <2>6 DEF Fine, Deleting
    <2> QED BY <1>1, <2>5, <2>7, OnlyRequest
  <1>3. CASE ~Files!Exists
    <2>1. Files!Answered(r, 500)
      BY <1>3, Statuses DEF Files!ExportList, Files!Raised
    <2>2. deletion # "none"  BY <1>3 DEF FilesInv, Undisturbed, Files!Exists
    <2> QED BY <1>1, <2>1, <2>2, AnswerStep
  <1> QED BY <1>2, <1>3

\* An export changes the archive: the others' archives are no longer theirs.
LEMMA ArchiveMoves ==
    ASSUME FilesInv, NEW r \in Requests, req' \in [Requests -> RequestRecords],
           \A x \in Requests : x # r => req'[x] = req[x],
           UNCHANGED <<worker, handle, dir, lock, deletion>>,
           zip' \in [by : Requests \cup {NoOne}, members : SUBSET Files!Listable, mixed : BOOLEAN],
           Fine(r, req'[r], dir, zip', lock, deletion),
           \A x \in Requests : x # r /\ zip'.by = x /\ ~zip'.mixed =>
               zip.by = x /\ ~zip.mixed /\ zip'.members = zip.members,
           zip' = Files!NoZip => zip = Files!NoZip
    PROVE  FilesInv'
  <1>1. FilesTypes'  BY DEF FilesInv, FilesTypes, Files!TypeOK
  <1>2. AllFine'
    <2>1. ASSUME NEW x \in Requests, x # r
          PROVE  Fine(x, req[x], dir, zip', lock, deletion)
      BY <2>1 DEF FilesInv, AllFine, Fine
    <2> QED BY <2>1 DEF AllFine
  <1>3. Undisturbed' /\ Dismissed' /\ Files!DeletedLeavesOnlyRatings'
    BY DEF FilesInv, Undisturbed, Dismissed, Files!DeletedLeavesOnlyRatings
  <1> QED BY <1>1, <1>2, <1>3 DEF FilesInv

LEMMA ExportOpenStep ==
    ASSUME Files!RequestsAssumption, FilesInv, NEW r \in Requests, Files!ExportOpen(r)
    PROVE  FilesInv'
  <1>1. UNCHANGED <<worker, handle, dir, lock, deletion>>  BY DEF Files!ExportOpen
  <1>2. CASE Files!HasFile("task.json")
    <2>1. req \in [Requests -> RequestRecords]  BY DEF FilesInv, FilesTypes
    <2> DEFINE q == [req[r] EXCEPT !.step = "add", !.next = 1]
    <2>2. q \in RequestRecords
      <3>1. req[r] \in RequestRecords /\ 1 \in 0 .. 6  BY <2>1
      <3> QED BY ONLY <3>1 DEF RequestRecords
    <2>3. req' = [req EXCEPT ![r] = q]  BY <1>2 DEF Files!ExportOpen
    <2>4. q.step = "add" /\ q.next = 1 /\ q.names = req[r].names /\ q.whole = req[r].whole
      BY <2>1 DEF RequestRecords
    <2> HIDE DEF q
    <2>5. /\ req' \in [Requests -> RequestRecords] /\ req'[r] = q
          /\ \A x \in Requests : x # r => req'[x] = req[x]
      BY <2>1, <2>2, <2>3
    <2>6. zip' = [by |-> r, members |-> {}, mixed |-> FALSE]
      BY <1>2 DEF Files!ExportOpen
    <2>7. zip' \in [by : Requests \cup {NoOne}, members : SUBSET Files!Listable, mixed : BOOLEAN]
      BY <2>6
    <2>8. zip'.by = r /\ zip'.members = {} /\ zip' # Files!NoZip
      BY <2>6 DEF Files!NoZip, Files!RequestsAssumption
    <2>9. Fine(r, req[r], dir, zip, lock, deletion)  BY DEF FilesInv, AllFine
    <2>10. Added(q) = {}  BY <2>4 DEF Added
    <2>11. Fine(r, q, dir, zip', lock, deletion)
      BY <2>4, <2>8, <2>9, <2>10 DEF Fine, Deleting
    <2> QED BY <1>1, <2>5, <2>7, <2>8, <2>11, ArchiveMoves
  <1>3. CASE ~Files!HasFile("task.json")
    <2>1. Files!Answered(r, 500) /\ UNCHANGED zip
      BY <1>3, Statuses DEF Files!ExportOpen, Files!Raised
    <2>2. deletion # "none"  BY <1>3 DEF FilesInv, Undisturbed, Files!HasFile
    <2> QED BY <1>1, <2>1, <2>2, AnswerStep
  <1> QED BY <1>2, <1>3

\* One more file: what the request looked for and what it has now.
LEMMA AddedNext ==
    ASSUME NEW p \in RequestRecords, NEW q \in RequestRecords, p.next \in 1 .. 5,
           q.next = p.next + 1, q.names = p.names
    PROVE  /\ Files!Allow[p.next] \in p.names => Added(q) = Added(p) \cup {Files!Allow[p.next]}
           /\ Files!Allow[p.next] \notin p.names => Added(q) = Added(p)
  <1>1. \A i \in 1 .. 5 : i < q.next <=> i < p.next \/ i = p.next  OBVIOUS
  <1> QED BY <1>1 DEF Added

LEMMA ExportAddStep ==
    ASSUME Files!RequestsAssumption, FilesInv, NEW r \in Requests, Files!ExportAdd(r)
    PROVE  FilesInv'
  <1>1. UNCHANGED <<worker, handle, dir, lock, deletion>>  BY DEF Files!ExportAdd
  <1>2. req \in [Requests -> RequestRecords] /\ req[r] \in RequestRecords
    BY DEF FilesInv, FilesTypes
  <1>3. req[r].kind = "export" /\ req[r].step = "add" /\ req[r].next \in 1 .. 5
    BY AllowIs DEF Files!ExportAdd, Files!At
  <1>4. PICK name : name = Files!Allow[req[r].next]  OBVIOUS
  <1>5. Fine(r, req[r], dir, zip, lock, deletion)  BY DEF FilesInv, AllFine
  <1> DEFINE q == [req[r] EXCEPT !.next = @ + 1]
  <1>6. q \in RequestRecords
    <2>1. req[r].next + 1 \in 0 .. 6  BY <1>3
    <2> QED BY ONLY <1>2, <2>1 DEF RequestRecords
  <1>7. /\ q.next = req[r].next + 1 /\ q.names = req[r].names /\ q.kind = "export"
        /\ q.step = "add" /\ q.whole = req[r].whole
    BY <1>2, <1>3 DEF RequestRecords
  <1>8. ASSUME req' = [req EXCEPT ![r].next = @ + 1]
        PROVE  /\ req' \in [Requests -> RequestRecords] /\ req'[r] = q
               /\ \A x \in Requests : x # r => req'[x] = req[x]
    BY <1>2, <1>6, <1>8
  <1> HIDE DEF q
  <1>9. /\ name \in req[r].names => Added(q) = Added(req[r]) \cup {name}
        /\ name \notin req[r].names => Added(q) = Added(req[r])
    BY <1>2, <1>3, <1>4, <1>6, <1>7, AddedNext
  <1>10. CASE name \notin req[r].names
    <2>1. req' = [req EXCEPT ![r].next = @ + 1] /\ UNCHANGED zip
      BY <1>4, <1>10 DEF Files!ExportAdd
    <2>2. Fine(r, q, dir, zip, lock, deletion)
      BY <1>3, <1>5, <1>7, <1>9, <1>10, <1>2 DEF Fine, Deleting, RequestRecords
    <2> QED BY <1>1, <1>8, <2>1, <2>2, OnlyRequest
  <1>11. CASE name \in req[r].names /\ Files!HasFile(name)
    <2>1. req' = [req EXCEPT ![r].next = @ + 1]  BY <1>4, <1>11 DEF Files!ExportAdd
    <2>2. zip' = IF zip = Files!NoZip THEN zip
                 ELSE IF zip.by = r THEN [zip EXCEPT !.members = @ \cup {name}]
                 ELSE [zip EXCEPT !.mixed = TRUE]
      BY <1>4, <1>11 DEF Files!ExportAdd
    <2>3. zip \in [by : Requests \cup {NoOne}, members : SUBSET Files!Listable, mixed : BOOLEAN]
      BY DEF FilesInv, FilesTypes, Files!TypeOK
    <2>4. name \in Files!Listable  BY <1>2, <1>11 DEF RequestRecords
    <2>5. zip' \in [by : Requests \cup {NoOne}, members : SUBSET Files!Listable, mixed : BOOLEAN]
      BY <2>2, <2>3, <2>4
    <2>6. zip.by = r => zip # Files!NoZip
      BY DEF Files!NoZip, Files!RequestsAssumption
    <2>7. /\ zip'.by = zip.by
          /\ zip.by = r => zip'.members = zip.members \cup {name} /\ zip'.mixed = zip.mixed
          /\ zip.by # r /\ zip # Files!NoZip => zip'.mixed
          /\ zip = Files!NoZip => zip' = zip
      BY <2>2, <2>3, <2>6
    <2>8. zip' = Files!NoZip => zip = Files!NoZip
      <3>1. Files!NoZip.by = NoOne /\ ~Files!NoZip.mixed  BY DEF Files!NoZip
      <3> QED BY <2>7, <3>1 DEF Files!RequestsAssumption
    <2>9. Fine(r, q, dir, zip', lock, deletion)
      <3>1. q.next >= 1  BY <1>3, <1>7
      <3>2. zip'.by = r /\ ~zip'.mixed => zip'.members = Added(q)
        BY <1>3, <1>5, <1>9, <1>11, <2>7 DEF Fine
      <3>3. q.step # "done" /\ q.step \notin Deleting  BY <1>7 DEF Deleting
      <3>4. q.whole  BY <1>5, <1>7 DEF Fine
      <3>5. deletion = "none" => q.names \subseteq dir /\ zip' # Files!NoZip
        BY <1>3, <1>5, <1>7, <2>8 DEF Fine
      <3> QED BY <1>7, <3>1, <3>2, <3>3, <3>4, <3>5 DEF Fine
    <2>10. \A x \in Requests : x # r /\ zip'.by = x /\ ~zip'.mixed =>
               zip.by = x /\ ~zip.mixed /\ zip'.members = zip.members
      <3>1. Files!NoZip.by = NoOne  BY DEF Files!NoZip
      <3> QED BY <2>7, <3>1 DEF Files!RequestsAssumption
    <2> QED BY <1>1, <1>8, <2>1, <2>5, <2>8, <2>9, <2>10, ArchiveMoves
  <1>12. CASE name \in req[r].names /\ ~Files!HasFile(name)
    <2>1. Files!Answered(r, 500) /\ UNCHANGED zip
      BY <1>4, <1>12, Statuses DEF Files!ExportAdd, Files!Raised
    <2>2. deletion # "none"  BY <1>5, <1>12 DEF Fine, Files!HasFile
    <2> QED BY <1>1, <2>1, <2>2, AnswerStep
  <1> QED BY <1>10, <1>11, <1>12

LEMMA ExportSendStep ==
    ASSUME Files!RequestsAssumption, FilesInv, NEW r \in Requests, Files!ExportSend(r)
    PROVE  FilesInv'
  <1>1. UNCHANGED <<worker, handle, dir, zip, lock, deletion>>
    BY DEF Files!ExportSend
  <1>2. req \in [Requests -> RequestRecords] /\ req[r] \in RequestRecords
    BY DEF FilesInv, FilesTypes
  <1>3. req[r].kind = "export" /\ req[r].step = "add" /\ req[r].next \notin 1 .. 5
    BY AllowIs DEF Files!ExportSend, Files!At
  <1>4. Fine(r, req[r], dir, zip, lock, deletion)  BY DEF FilesInv, AllFine
  <1>5. CASE zip = Files!NoZip
    <2>1. Files!Answered(r, 500)
      BY <1>5, Statuses DEF Files!ExportSend, Files!Raised
    <2>2. deletion # "none"  BY <1>3, <1>4, <1>5 DEF Fine
    <2> QED BY <1>1, <2>1, <2>2, AnswerStep
  <1>6. CASE zip # Files!NoZip
    <2> DEFINE w == (zip.by = r /\ ~zip.mixed => zip.members = req[r].names)
               q == [req[r] EXCEPT !.step = "done", !.status = 200, !.whole = w]
    <2>1. w
      <3>1. req[r].next >= 1 /\ req[r].next \in 0 .. 6
        BY <1>2, <1>3, <1>4 DEF Fine, RequestRecords
      <3>2. req[r].next = 6  BY <1>3, <3>1
      <3>3. \A i \in 1 .. 5 : i < req[r].next  BY <3>2
      <3>4. req[r].names \subseteq Files!Listable  BY <1>2 DEF RequestRecords
      <3>5. \A n \in Files!Listable : \E i \in 1 .. 5 : n = Files!Allow[i]
        BY AllowIs DEF Files!Listable
      <3>6. Added(req[r]) = req[r].names  BY <3>3, <3>4, <3>5 DEF Added
      <3> QED BY <1>3, <1>4, <3>6 DEF Fine
    <2>2. q \in RequestRecords
      <3>1. w \in BOOLEAN  OBVIOUS
      <3> HIDE DEF w
      <3>2. 200 \in Nat  OBVIOUS
      <3> QED BY ONLY <1>2, <3>1, <3>2 DEF RequestRecords
    <2>3. req' = [req EXCEPT ![r] = q]  BY <1>6 DEF Files!ExportSend
    <2>4. q.step = "done" /\ q.status = 200 /\ q.names = req[r].names /\ q.whole = w
      BY <1>2 DEF RequestRecords
    <2> HIDE DEF q, w
    <2>5. /\ req' \in [Requests -> RequestRecords] /\ req'[r] = q
          /\ \A x \in Requests : x # r => req'[x] = req[x]
      BY <1>2, <2>2, <2>3
    <2>6. Fine(r, q, dir, zip, lock, deletion)
      BY <1>4, <2>1, <2>4 DEF Fine, Deleting
    <2> QED BY <1>1, <2>5, <2>6, OnlyRequest
  <1> QED BY <1>5, <1>6

-----------------------------------------------------------------------------
\* A deletion has begun: what else changes, the task is not whole any more.
LEMMA DeletionMoves ==
    ASSUME FilesInv, NEW r \in Requests, req' \in [Requests -> RequestRecords],
           \A x \in Requests : x # r => req'[x] = req[x],
           FilesTypes', deletion' # "none", worker' = "gone", ~handle',
           Files!DeletedLeavesOnlyRatings',
           \A x \in Requests : x # r /\ req[x].step \in Deleting =>
               lock' = lock /\ deletion # "none" /\ dir' # Files!NoDir,
           zip' \in {zip, Files!NoZip}, NoOne \notin Requests,
           Fine(r, req'[r], dir', zip', lock', deletion')
    PROVE  FilesInv'
  <1>1. AllFine'
    <2>1. ASSUME NEW x \in Requests, x # r
          PROVE  Fine(x, req[x], dir', zip', lock', deletion')
      <3>1. Fine(x, req[x], dir, zip, lock, deletion)  BY DEF FilesInv, AllFine
      <3>2. Files!NoZip.by # x  BY DEF Files!NoZip
      <3> QED BY <2>1, <3>1, <3>2 DEF Fine
    <2> QED BY <2>1 DEF AllFine
  <1>2. Undisturbed' /\ Dismissed'  BY DEF Undisturbed, Dismissed
  <1> QED BY <1>1, <1>2 DEF FilesInv

\* Only one request deletes at a time, and only after it found the task.
LEMMA Deletes ==
    ASSUME FilesInv, NEW r \in Requests, req[r].step \in Deleting
    PROVE  /\ req[r].kind = "delete" /\ lock = r /\ deletion # "none" /\ worker = "gone" /\ ~handle
           /\ dir # Files!NoDir /\ dir \subseteq Entries
           /\ \A x \in Requests : x # r => req[x].step \notin Deleting
  <1>1. req[r].kind = "delete" /\ lock = r /\ deletion # "none" /\ dir # Files!NoDir
    BY DEF FilesInv, AllFine, Fine
  <1>2. worker = "gone" /\ ~handle  BY <1>1 DEF FilesInv, Dismissed
  <1>3. dir \subseteq Entries
    BY <1>1 DEF FilesInv, FilesTypes, Files!TypeOK, Entries
  <1>4. ASSUME NEW x \in Requests, x # r, req[x].step \in Deleting
        PROVE  FALSE
    <2>1. lock = x  BY <1>4 DEF FilesInv, AllFine, Fine
    <2> QED BY <1>1, <1>4, <2>1
  <1> QED BY <1>1, <1>2, <1>3, <1>4

LEMMA DeleteCheckStep ==
    ASSUME Files!RequestsAssumption, FilesInv, NEW r \in Requests, Files!DeleteCheck(r)
    PROVE  FilesInv'
  <1>1. req \in [Requests -> RequestRecords] /\ req[r] \in RequestRecords
    BY DEF FilesInv, FilesTypes
  <1>2. req[r].kind = "delete" /\ req[r].step = "start" /\ lock = NoOne
    BY DEF Files!DeleteCheck, Files!At
  <1>3. UNCHANGED <<worker, dir, zip>>  BY DEF Files!DeleteCheck
  <1>4. CASE ~Files!Known
    <2>1. Files!Answered(r, 404) /\ UNCHANGED <<handle, lock, deletion>>
      BY <1>4, Statuses DEF Files!DeleteCheck, Files!Raised
    <2>2. deletion # "none"  BY <1>4 DEF FilesInv, Undisturbed, Files!Known
    <2> QED BY <1>3, <2>1, <2>2, AnswerStep
  <1>5. CASE Files!Known /\ ~Files!Deletable
    <2>1. Files!Answered(r, 409) /\ UNCHANGED <<handle, lock, deletion>>
      BY <1>5, Statuses DEF Files!DeleteCheck, Files!Raised
    <2> QED BY <1>2, <1>3, <2>1, AnswerStep
  <1>6. CASE Files!Known /\ Files!Deletable
    <2>1. /\ Files!Goes(r, "unlink") /\ lock' = r /\ handle' = FALSE
          /\ deletion' = IF deletion = "none" THEN "begun" ELSE deletion
      BY <1>6 DEF Files!DeleteCheck
    <2>2. /\ req' \in [Requests -> RequestRecords]
          /\ req'[r] = [req[r] EXCEPT !.step = "unlink"]
          /\ \A x \in Requests : x # r => req'[x] = req[x]
      BY ONLY <1>1, <2>1, GoesTo
    <2>3. /\ req'[r].step = "unlink" /\ req'[r].kind = "delete" /\ req'[r].whole = req[r].whole
      BY <1>1, <1>2, <2>2 DEF RequestRecords
    <2>4. dir # Files!NoDir
      <3>1. CASE handle
        <4>1. deletion = "none"  BY <3>1, Zenon DEF FilesInv, Dismissed
        <4> QED BY <4>1 DEF FilesInv, Undisturbed
      <3>2. CASE Files!HasFile("task.json")
        <4>1. "task.json" \in dir /\ "task.json" # "no directory"
          BY <3>2 DEF Files!HasFile
        <4>2. \A x \in Files!NoDir : x = "no directory"  BY DEF Files!NoDir
        <4> QED BY <4>1, <4>2
      <3> QED BY <1>6, <3>1, <3>2 DEF Files!Known
    <2>5. deletion # "done"
      <3>1. SUFFICES ASSUME deletion = "done"
                     PROVE  FALSE
        OBVIOUS
      <3>2. ~handle  BY <3>1 DEF FilesInv, Dismissed
      <3>3. "task.json" \in dir /\ dir \subseteq {"evaluation.json"} \cup Requests
        BY <1>6, <2>4, <3>1, <3>2 DEF FilesInv, Files!DeletedLeavesOnlyRatings, Files!Known,
           Files!HasFile
      <3> QED BY <3>3, AllowIs DEF Files!RequestsAssumption
    <2>6. deletion' = "begun" /\ worker' = "gone" /\ ~handle'
      <3>1. deletion \in {"none", "begun", "done"}
        BY DEF FilesInv, FilesTypes, Files!TypeOK
      <3> QED BY <1>3, <1>6, <2>1, <2>5, <3>1 DEF Files!Deletable
    <2>7. FilesTypes'
      BY <1>3, <2>1, <2>2, <2>6 DEF FilesInv, FilesTypes, Files!TypeOK
    <2>8. Files!DeletedLeavesOnlyRatings'
      BY <2>6 DEF Files!DeletedLeavesOnlyRatings
    <2>9. \A x \in Requests : x # r => req[x].step \notin Deleting
      <3>1. ASSUME NEW x \in Requests, req[x].step \in Deleting
            PROVE  FALSE
        <4>1. lock = x  BY <3>1, Deletes
        <4> QED BY <1>2, <4>1 DEF Files!RequestsAssumption
      <3> QED BY <3>1
    <2>10. Fine(r, req'[r], dir', zip', lock', deletion')
      <3>1. req[r].whole  BY DEF FilesInv, AllFine, Fine
      <3> QED BY <1>3, <2>1, <2>3, <2>4, <2>6, <3>1 DEF Fine
    <2>11. zip' \in {zip, Files!NoZip} /\ NoOne \notin Requests /\ deletion' # "none"
      BY <1>3, <2>6 DEF Files!RequestsAssumption
    <2> QED BY <2>2, <2>6, <2>7, <2>8, <2>9, <2>10, <2>11, DeletionMoves
  <1> QED BY <1>4, <1>5, <1>6

LEMMA DeleteExportStep ==
    ASSUME Files!RequestsAssumption, FilesInv, NEW r \in Requests, Files!DeleteExport(r)
    PROVE  FilesInv'
  <1>1. req \in [Requests -> RequestRecords] /\ req[r] \in RequestRecords
    BY DEF FilesInv, FilesTypes
  <1>2. UNCHANGED <<worker, handle, dir, lock, deletion>> /\ zip' = Files!NoZip
    BY DEF Files!DeleteExport
  <1>3. req[r].kind = "delete" /\ req[r].step = "unlink" /\ "unlink" \in Deleting
    BY DEF Files!DeleteExport, Files!At, Deleting
  <1>4. /\ lock = r /\ deletion # "none" /\ worker = "gone" /\ ~handle
        /\ dir # Files!NoDir /\ dir \subseteq Entries
        /\ \A x \in Requests : x # r => req[x].step \notin Deleting
    BY <1>3, Deletes
  <1> DEFINE q == [req[r] EXCEPT !.step = "files", !.listed = dir]
  <1>5. q \in RequestRecords  BY ONLY <1>1, <1>4 DEF RequestRecords
  <1>6. req' = [req EXCEPT ![r] = q]  BY DEF Files!DeleteExport
  <1>7. q.step = "files" /\ q.kind = "delete" /\ q.whole = req[r].whole
    BY <1>1, <1>3 DEF RequestRecords
  <1> HIDE DEF q
  <1>8. /\ req' \in [Requests -> RequestRecords] /\ req'[r] = q
        /\ \A x \in Requests : x # r => req'[x] = req[x]
    BY <1>1, <1>5, <1>6
  <1>9. FilesTypes'
    <2>1. Files!NoZip \in [by : Requests \cup {NoOne}, members : SUBSET Files!Listable, mixed : BOOLEAN]
      BY DEF Files!NoZip
    <2> QED BY <1>2, <1>8, <2>1 DEF FilesInv, FilesTypes, Files!TypeOK
  <1>10. Files!DeletedLeavesOnlyRatings'
    BY <1>2 DEF FilesInv, Files!DeletedLeavesOnlyRatings
  <1>11. Fine(r, req'[r], dir', zip', lock', deletion')
    <2>1. req[r].whole  BY DEF FilesInv, AllFine, Fine
    <2> QED BY <1>2, <1>4, <1>7, <1>8, <2>1 DEF Fine
  <1>12. NoOne \notin Requests  BY DEF Files!RequestsAssumption
  <1> QED BY <1>2, <1>4, <1>8, <1>9, <1>10, <1>11, <1>12, DeletionMoves

LEMMA DeleteFileStep ==
    ASSUME Files!RequestsAssumption, FilesInv, NEW r \in Requests, Files!DeleteFile(r)
    PROVE  FilesInv'
  <1>1. req \in [Requests -> RequestRecords] /\ req[r] \in RequestRecords
    BY DEF FilesInv, FilesTypes
  <1>2. UNCHANGED <<worker, handle, zip, deletion>>  BY DEF Files!DeleteFile
  <1>3. req[r].kind = "delete" /\ req[r].step = "files" /\ "files" \in Deleting
    BY DEF Files!DeleteFile, Files!At, Deleting
  <1>4. /\ lock = r /\ deletion # "none" /\ worker = "gone" /\ ~handle
        /\ dir # Files!NoDir /\ dir \subseteq Entries
        /\ \A x \in Requests : x # r => req[x].step \notin Deleting
    BY <1>3, Deletes
  <1>5. NoOne \notin Requests  BY DEF Files!RequestsAssumption
  <1>6. req[r].whole  BY DEF FilesInv, AllFine, Fine
  <1>7. CASE req[r].listed = {}
    <2>1. Files!Goes(r, "rmdir") /\ UNCHANGED <<dir, lock>>
      BY <1>7 DEF Files!DeleteFile
    <2>2. /\ req' \in [Requests -> RequestRecords]
          /\ req'[r] = [req[r] EXCEPT !.step = "rmdir"]
          /\ \A x \in Requests : x # r => req'[x] = req[x]
      BY ONLY <1>1, <2>1, GoesTo
    <2>3. /\ req'[r].step = "rmdir" /\ req'[r].kind = "delete" /\ req'[r].whole = req[r].whole
      BY <1>1, <1>3, <2>2 DEF RequestRecords
    <2>4. Fine(r, req'[r], dir', zip', lock', deletion')
      BY <1>2, <1>4, <1>6, <2>1, <2>3 DEF Fine
    <2>5. FilesTypes' /\ Files!DeletedLeavesOnlyRatings'
      BY <1>2, <2>1, <2>2 DEF FilesInv, FilesTypes, Files!TypeOK, Files!DeletedLeavesOnlyRatings
    <2> QED BY <1>2, <1>4, <1>5, <2>1, <2>2, <2>4, <2>5, DeletionMoves
  <1>8. CASE req[r].listed # {}
    <2>1. PICK name \in req[r].listed :
            /\ dir' = dir \ {name}
            /\ IF Files!HasFile(name)
               THEN req' = [req EXCEPT ![r].listed = @ \ {name}] /\ UNCHANGED lock
               ELSE Files!Raised(r, "FileNotFoundError") /\ lock' = NoOne
      BY <1>8 DEF Files!DeleteFile
    <2>2. dir' \subseteq dir /\ dir' \subseteq Entries /\ dir' # Files!NoDir
      BY <1>4, <2>1, EntriesAreThere
    <2>3. Files!DeletedLeavesOnlyRatings'
      BY <1>2, <1>4, <2>2 DEF FilesInv, Files!DeletedLeavesOnlyRatings
    <2>4. CASE Files!HasFile(name)
      <3> DEFINE q == [req[r] EXCEPT !.listed = @ \ {name}]
      <3>1. q \in RequestRecords  BY ONLY <1>1 DEF RequestRecords
      <3>2. req' = [req EXCEPT ![r] = q] /\ lock' = lock  BY <2>1, <2>4
      <3>3. q.step = "files" /\ q.kind = "delete" /\ q.whole = req[r].whole
        BY <1>1, <1>3 DEF RequestRecords
      <3> HIDE DEF q
      <3>4. /\ req' \in [Requests -> RequestRecords] /\ req'[r] = q
            /\ \A x \in Requests : x # r => req'[x] = req[x]
        BY <1>1, <3>1, <3>2
      <3>5. Fine(r, req'[r], dir', zip', lock', deletion')
        BY <1>2, <1>4, <1>6, <2>2, <3>2, <3>3, <3>4 DEF Fine
      <3>6. FilesTypes'
        BY <1>2, <2>2, <3>2, <3>4 DEF FilesInv, FilesTypes, Files!TypeOK, Entries
      <3> QED BY <1>2, <1>4, <1>5, <2>3, <3>4, <3>5, <3>6, DeletionMoves
    <2>5. CASE ~Files!HasFile(name)
      <3>1. Files!Answered(r, 500) /\ 500 \in Nat /\ lock' = NoOne
        BY <2>1, <2>5, Statuses DEF Files!Raised
      <3>2. /\ req' \in [Requests -> RequestRecords]
            /\ req'[r] = [req[r] EXCEPT !.step = "done", !.status = 500]
            /\ \A x \in Requests : x # r => req'[x] = req[x]
        BY ONLY <1>1, <3>1, AnsweredWith
      <3>3. req'[r].step = "done" /\ req'[r].whole = req[r].whole
        BY <1>1, <3>2 DEF RequestRecords
      <3>4. Fine(r, req'[r], dir', zip', lock', deletion')
        BY <1>2, <1>4, <1>6, <3>3 DEF Fine, Deleting
      <3>5. FilesTypes'
        BY <1>2, <2>2, <3>1, <3>2 DEF FilesInv, FilesTypes, Files!TypeOK, Entries
      <3> QED BY <1>2, <1>4, <1>5, <2>3, <3>2, <3>4, <3>5, DeletionMoves
    <2> QED BY <2>4, <2>5
  <1> QED BY <1>7, <1>8

LEMMA DeleteDirStep ==
    ASSUME Files!RequestsAssumption, FilesInv, NEW r \in Requests, Files!DeleteDir(r)
    PROVE  FilesInv'
  <1>1. req \in [Requests -> RequestRecords] /\ req[r] \in RequestRecords
    BY DEF FilesInv, FilesTypes
  <1>2. UNCHANGED <<worker, handle, zip>> /\ lock' = NoOne  BY DEF Files!DeleteDir
  <1>3. req[r].kind = "delete" /\ req[r].step = "rmdir" /\ "rmdir" \in Deleting
    BY DEF Files!DeleteDir, Files!At, Deleting
  <1>4. /\ deletion # "none" /\ worker = "gone" /\ ~handle
        /\ dir # Files!NoDir /\ dir \subseteq Entries
        /\ \A x \in Requests : x # r => req[x].step \notin Deleting
    BY <1>3, Deletes
  <1>5. NoOne \notin Requests  BY DEF Files!RequestsAssumption
  <1>6. PICK status \in Nat : Files!Answered(r, status)
    <2>1. 200 \in Nat /\ 500 \in Nat  OBVIOUS
    <2>2. Files!Answered(r, 200) \/ Files!Answered(r, 500)
      BY Statuses DEF Files!DeleteDir, Files!Raised
    <2> QED BY <2>1, <2>2
  <1>7. /\ req' \in [Requests -> RequestRecords]
        /\ req'[r] = [req[r] EXCEPT !.step = "done", !.status = status]
        /\ \A x \in Requests : x # r => req'[x] = req[x]
    BY ONLY <1>1, <1>6, AnsweredWith
  <1>8. req'[r].step = "done" /\ req'[r].whole = req[r].whole
    BY <1>1, <1>7 DEF RequestRecords
  <1>9. /\ dir' \in {dir, Files!NoDir} /\ deletion' \in {deletion, "done"}
        /\ deletion' = "done" => (deletion = "done" /\ dir' = dir) \/ dir' = Files!NoDir
    BY DEF Files!DeleteDir
  <1>10. req[r].whole  BY DEF FilesInv, AllFine, Fine
  <1>11. deletion' # "none"  BY <1>4, <1>9
  <1>12. Fine(r, req'[r], dir', zip', lock', deletion')
    BY <1>8, <1>10, <1>11 DEF Fine, Deleting
  <1>13. FilesTypes' /\ Files!DeletedLeavesOnlyRatings'
    BY <1>2, <1>7, <1>9 DEF FilesInv, FilesTypes, Files!TypeOK, Files!DeletedLeavesOnlyRatings
  <1> QED BY <1>2, <1>4, <1>5, <1>7, <1>11, <1>12, <1>13, DeletionMoves

LEMMA FilesStep ==
    ASSUME Files!RequestsAssumption, FilesInv, [Files!Next]_fileVars
    PROVE  FilesInv'
  <1>1. CASE UNCHANGED fileVars
    BY <1>1 DEF fileVars, FilesInv, FilesTypes, Files!TypeOK, AllFine, Undisturbed, Dismissed,
       Files!DeletedLeavesOnlyRatings
  <1>2. CASE Files!Next
    BY <1>2, WorkerSteps, ArriveStep, EvidenceStep, RateCheckStep, RateOpenStep, RateReplaceStep,
       ExportListStep, ExportOpenStep, ExportAddStep, ExportSendStep,
       DeleteCheckStep, DeleteExportStep, DeleteFileStep, DeleteDirStep
       DEF Files!Next, Files!Request
  <1> QED BY <1>1, <1>2

LEMMA FilesAreSound ==
    ASSUME FilesInv
    PROVE  /\ Files!TypeOK /\ Files!DeletedLeavesOnlyRatings
           /\ Files!ExportsWhole /\ Files!LiveTasksAnswered
  BY DEF FilesInv, FilesTypes, AllFine, Fine, Files!ExportsWhole, Files!LiveTasksAnswered

-----------------------------------------------------------------------------
(* TaskList: the invariant.  A task that is "still" in the list and was not   *)
(* shown lies beyond every page that was shown.                               *)

TaskRecords == [state : List!TaskState \cup {List!Absent}, created : Nat, started : Nat]
ListRows == [id : Ids, key : Nat]
ViewRecords == [step : {"closed", "reading", "shown", "last"}, filter : List!Filters, offset : Nat,
           unread : SUBSET Ids, rows : SUBSET ListRows, shown : SUBSET Ids,
           still : SUBSET Ids, events : Nat]

ListTypes ==
    /\ now \in 1 .. MaxTime
    /\ tasks \in [Ids -> TaskRecords]
    /\ reader \in ViewRecords
    /\ IsFiniteSet(reader.rows)
    /\ \A t \in Ids : tasks[t].created <= now /\ tasks[t].started <= now

Row(t) == [id |-> t, key |-> List!Key(tasks[t])]
Within(t) == List!Exists(t) /\ List!Matches(tasks[t], reader.filter)

\* The tasks before s in the list, and those of them that were read as such or
\* will be.
Ahead(s) == {t \in Ids : Within(t) /\ List!Before(Row(t), Row(s))}
Counted(s) == {t \in Ahead(s) : \/ t \in reader.unread
                                \/ \E row \in reader.rows :
                                      row.id = t /\ List!Before(row, Row(s))}

\* Rows are as old as their reading, and a task moves forward only.
RowsAre ==
    reader.still # {} =>
      /\ \A row \in reader.rows : /\ row.id \notin reader.unread /\ Within(row.id)
                                  /\ row.key <= List!Key(tasks[row.id])
      /\ \A a, b \in reader.rows : a.id = b.id => a = b
StillAre ==
    \A s \in reader.still :
      /\ Within(s)
      /\ reader.step = "reading" => s \in reader.unread \/ Row(s) \in reader.rows

Behind ==
    \A s \in reader.still \ reader.shown :
      /\ reader.step = "reading" => Cardinality(Counted(s)) >= reader.offset
      /\ reader.step = "shown" => Cardinality(Ahead(s)) >= reader.offset + PageSize
      /\ reader.step # "last"

ListInv == /\ ListTypes /\ RowsAre /\ StillAre /\ Behind
           /\ reader.step = "closed" => reader.still = {}

LEMMA SameCounts == /\ \A A : List!Cardinality(A) = Cardinality(A)
                    /\ \A A : List!IsFiniteSet(A) <=> IsFiniteSet(A)
  BY DEF List!Cardinality, Cardinality, List!IsFiniteSet, IsFiniteSet

\* Subsets of the ids are finite, and what grows has no fewer members.
LEMMA MoreCount ==
    ASSUME List!ListAssumption, NEW A, NEW B, A \subseteq B, B \subseteq Ids
    PROVE  /\ Cardinality(A) \in Nat /\ Cardinality(B) \in Nat
           /\ Cardinality(A) <= Cardinality(B)
  <1>1. IsFiniteSet(Ids)  BY SameCounts DEF List!ListAssumption
  <1>2. IsFiniteSet(B)  BY <1>1, FS_Subset
  <1>3. IsFiniteSet(A) /\ Cardinality(A) <= Cardinality(B)  BY <1>2, FS_Subset
  <1> QED BY <1>2, <1>3, FS_CardinalityType

LEMMA KeyType == ASSUME ListTypes, NEW t \in Ids
                 PROVE  List!Key(tasks[t]) \in Nat /\ List!Key(tasks[t]) <= now
                        /\ tasks[t] \in TaskRecords
  <1>1. tasks[t] \in TaskRecords  BY DEF ListTypes
  <1> QED BY <1>1 DEF ListTypes, TaskRecords, List!Key

LEMMA ListStart == ASSUME List!ListAssumption, List!Init
                   PROVE  ListInv
  <1>1. reader = List!Closed /\ now = 1 /\ tasks = [id \in Ids |-> List!NoTask]
    BY DEF List!Init
  <1>2. List!NoTask \in TaskRecords /\ List!NoTask.created <= 1 /\ List!NoTask.started <= 1
    BY DEF List!NoTask, TaskRecords
  <1>3. List!Closed \in ViewRecords
    BY DEF List!Closed, ViewRecords, List!Filters, List!Any
  <1>4. List!Closed.rows = {} /\ List!Closed.still = {} /\ List!Closed.step = "closed"
    BY DEF List!Closed
  <1>5. now \in 1 .. MaxTime  BY <1>1 DEF List!ListAssumption
  <1>6. IsFiniteSet(reader.rows)  BY <1>1, <1>4, FS_EmptySet
  <1> QED BY <1>1, <1>2, <1>3, <1>4, <1>5, <1>6 DEF ListInv, ListTypes, RowsAre, StillAre, Behind

-----------------------------------------------------------------------------
\* What happens to tasks while the view looks: a task that is in the list stays
\* and moves forward, or the view remembers that it did not.
LEMMA EventKeeps ==
    ASSUME List!ListAssumption, ListInv, ListTypes',
           reader'.step = reader.step, reader'.filter = reader.filter,
           reader'.offset = reader.offset, reader'.unread = reader.unread,
           reader'.rows = reader.rows, reader'.shown = reader.shown,
           reader'.still \subseteq reader.still,
           reader'.still # {} =>
             \A t \in Ids : Within(t) => Within(t)' /\ List!Key(tasks[t]) <= List!Key(tasks[t])',
           \A s \in reader'.still : List!Key(tasks[s])' = List!Key(tasks[s])
    PROVE  ListInv'
  <1>1. \A t \in Ids : List!Key(tasks[t]) \in Nat /\ List!Key(tasks'[t]) \in Nat
    <2>1. \A t \in Ids : List!Key(tasks[t]) \in Nat  BY KeyType DEF ListInv
    <2>2. \A t \in Ids : tasks'[t] \in TaskRecords  BY DEF ListTypes
    <2>3. \A t \in Ids : List!Key(tasks'[t]) \in Nat
      BY <2>2 DEF TaskRecords, List!Key
    <2> QED BY <2>1, <2>3
  <1>2. Ids \subseteq Nat  BY DEF List!ListAssumption
  <1>3. reader \in ViewRecords  BY DEF ListInv, ListTypes
  <1>4. ASSUME NEW s \in reader'.still
        PROVE  /\ s \in reader.still /\ s \in Ids /\ Within(s)' /\ Row(s)' = Row(s)
               /\ Ahead(s) \subseteq Ahead(s)' /\ Counted(s) \subseteq Counted(s)'
    <2>1. s \in reader.still /\ s \in Ids  BY <1>3 DEF ViewRecords
    <2>2. Within(s)'  BY <2>1 DEF ListInv, StillAre
    <2>3. Row(s)' = Row(s)  BY DEF Row
    <2>4. Ahead(s) \subseteq Ahead(s)'
      <3>1. SUFFICES ASSUME NEW t \in Ids, Within(t), List!Before(Row(t), Row(s))
                     PROVE  Within(t)' /\ List!Before(Row(t)', Row(s)')
        BY DEF Ahead, List!Before
      <3>2. Within(t)' /\ List!Key(tasks[t]) <= List!Key(tasks'[t])  BY <3>1
      <3>3. List!Key(tasks'[s]) = List!Key(tasks[s])  OBVIOUS
      <3> QED BY <1>1, <1>2, <2>1, <3>1, <3>2, <3>3 DEF List!Before, Row
    <2>5. Counted(s) \subseteq Counted(s)'  BY <2>3, <2>4 DEF Counted, List!Before
    <2> QED BY <2>1, <2>2, <2>3, <2>4, <2>5
  <1>5. RowsAre'
    <2>1. SUFFICES ASSUME reader'.still # {}
                   PROVE  /\ \A row \in reader.rows :
                               /\ row.id \notin reader.unread /\ Within(row.id)'
                               /\ row.key <= List!Key(tasks'[row.id])
                          /\ \A a, b \in reader.rows : a.id = b.id => a = b
      BY DEF RowsAre
    <2>2. reader.still # {}  BY <2>1
    <2>3. ASSUME NEW row \in reader.rows
          PROVE  /\ row.id \notin reader.unread /\ Within(row.id)'
                 /\ row.key <= List!Key(tasks'[row.id])
      <3>1. row \in ListRows  BY <1>3 DEF ViewRecords
      <3>2. row.id \in Ids /\ row.key \in Nat  BY <3>1 DEF ListRows
      <3>3. /\ row.id \notin reader.unread /\ Within(row.id)
            /\ row.key <= List!Key(tasks[row.id])
        BY <2>2 DEF ListInv, RowsAre
      <3>4. Within(row.id)' /\ List!Key(tasks[row.id]) <= List!Key(tasks'[row.id])
        BY <2>1, <3>2, <3>3
      <3>5. List!Key(tasks[row.id]) \in Nat /\ List!Key(tasks'[row.id]) \in Nat
        BY <1>1, <3>2
      <3> QED BY <3>2, <3>3, <3>4, <3>5
    <2> QED BY <2>2, <2>3 DEF ListInv, RowsAre
  <1>6. StillAre'  BY <1>4 DEF ListInv, StillAre
  <1>7. Behind'
    <2>1. ASSUME NEW s \in reader'.still \ reader'.shown
          PROVE  /\ reader'.step = "reading" => Cardinality(Counted(s)') >= reader'.offset
                 /\ reader'.step = "shown" => Cardinality(Ahead(s)') >= reader'.offset + PageSize
                 /\ reader'.step # "last"
      <3>1. s \in reader.still \ reader.shown  BY <1>4, <2>1
      <3>2. Counted(s)' \subseteq Ids /\ Ahead(s)' \subseteq Ids
        BY DEF Counted, Ahead
      <3>3. /\ Cardinality(Counted(s)) <= Cardinality(Counted(s)')
            /\ Cardinality(Counted(s)) \in Nat /\ Cardinality(Counted(s)') \in Nat
        BY <1>4, <2>1, <3>2, MoreCount
      <3>4. /\ Cardinality(Ahead(s)) <= Cardinality(Ahead(s)')
            /\ Cardinality(Ahead(s)) \in Nat /\ Cardinality(Ahead(s)') \in Nat
        BY <1>4, <2>1, <3>2, MoreCount
      <3>5. reader.offset \in Nat /\ PageSize \in Nat
        BY <1>3 DEF ViewRecords, List!ListAssumption
      <3>6. /\ reader.step = "reading" => Cardinality(Counted(s)) >= reader.offset
            /\ reader.step = "shown" => Cardinality(Ahead(s)) >= reader.offset + PageSize
            /\ reader.step # "last"
        BY <3>1 DEF ListInv, Behind
      <3> QED BY <3>3, <3>4, <3>5, <3>6
    <2> QED BY <2>1 DEF Behind
  <1> QED BY <1>5, <1>6, <1>7 DEF ListInv

\* An event leaves the view as it is, but for what it remembers.
LEMMA NotedView ==
    ASSUME reader \in ViewRecords, NEW kept \in SUBSET reader.still,
           reader' = [List!Noted EXCEPT !.still = kept]
    PROVE  /\ reader' \in ViewRecords /\ reader'.still = kept
           /\ reader'.step = reader.step /\ reader'.filter = reader.filter
           /\ reader'.offset = reader.offset /\ reader'.unread = reader.unread
           /\ reader'.rows = reader.rows /\ reader'.shown = reader.shown
  <1> DEFINE v == List!Noted
  <1>1. v \in ViewRecords  BY DEF List!Noted, ViewRecords
  <1>2. /\ v.step = reader.step /\ v.filter = reader.filter
        /\ v.offset = reader.offset /\ v.unread = reader.unread
        /\ v.rows = reader.rows /\ v.shown = reader.shown
    BY DEF List!Noted, ViewRecords
  <1>3. reader' = [v EXCEPT !.still = kept]  OBVIOUS
  <1>4. kept \in SUBSET Ids  BY DEF ViewRecords
  <1> HIDE DEF v
  <1> QED BY <1>1, <1>2, <1>3, <1>4 DEF ViewRecords

LEMMA EventTypes ==
    ASSUME List!ListAssumption, ListTypes, NEW t \in Ids, NEW r \in TaskRecords, List!Passes,
           tasks' = [tasks EXCEPT ![t] = r], r.created <= now', r.started <= now',
           reader' \in ViewRecords, reader'.rows = reader.rows
    PROVE  ListTypes'
  <1>1. now \in 1 .. MaxTime /\ now' \in 1 .. MaxTime /\ now <= now'
    BY DEF ListTypes, List!Passes, List!ListAssumption
  <1>2. tasks \in [Ids -> TaskRecords]  BY DEF ListTypes
  <1>3. tasks' \in [Ids -> TaskRecords] /\ tasks'[t] = r /\ \A u \in Ids : u # t => tasks'[u] = tasks[u]
    BY <1>2
  <1>4. \A u \in Ids : tasks'[u].created <= now' /\ tasks'[u].started <= now'
    <2>1. ASSUME NEW u \in Ids, u # t
          PROVE  tasks[u].created <= now' /\ tasks[u].started <= now'
      <3>1. tasks[u].created \in Nat /\ tasks[u].started \in Nat
        BY <1>2 DEF TaskRecords
      <3>2. tasks[u].created <= now /\ tasks[u].started <= now  BY DEF ListTypes
      <3> QED BY <1>1, <3>1, <3>2
    <2> QED BY <1>3, <2>1
  <1> QED BY <1>1, <1>3, <1>4 DEF ListTypes

LEMMA CreateStep ==
    ASSUME List!ListAssumption, ListInv, NEW t \in Ids, List!Create(t)
    PROVE  ListInv'
  <1>1. reader \in ViewRecords /\ tasks \in [Ids -> TaskRecords] /\ now \in 1 .. MaxTime
    BY DEF ListInv, ListTypes
  <1>2. now' \in Nat /\ List!Passes
    BY <1>1 DEF List!Create, List!Passes, List!ListAssumption
  <1> DEFINE r == [state |-> "CREATED", created |-> now', started |-> 0]
  <1>3. r \in TaskRecords /\ r.created <= now' /\ r.started <= now'
    BY <1>2 DEF TaskRecords, List!TaskState
  <1>4. tasks' = [tasks EXCEPT ![t] = r]  BY DEF List!Create
  <1> HIDE DEF r
  <1>5. reader' = [List!Noted EXCEPT !.still = reader.still \ {t}]
    <2>1. List!Noted.still = reader.still  BY <1>1 DEF List!Noted, ViewRecords
    <2>2. List!Noted \in ViewRecords  BY <1>1 DEF List!Noted, ViewRecords
    <2> QED BY <2>1, <2>2 DEF List!Create, List!Moves, ViewRecords
  <1>6. /\ reader' \in ViewRecords /\ reader'.still = reader.still \ {t}
        /\ reader'.step = reader.step /\ reader'.filter = reader.filter
        /\ reader'.offset = reader.offset /\ reader'.unread = reader.unread
        /\ reader'.rows = reader.rows /\ reader'.shown = reader.shown
    BY <1>1, <1>5, NotedView
  <1>7. ListTypes'  BY <1>2, <1>3, <1>4, <1>6, EventTypes DEF ListInv
  <1>8. ~List!Exists(t)  BY DEF List!Create, List!Exists, List!NoTask
  <1>9. \A u \in Ids : Within(u) => tasks'[u] = tasks[u]
    BY <1>1, <1>4, <1>8 DEF Within
  <1>10. \A u \in Ids : Within(u) => List!Key(tasks[u]) \in Nat
    BY KeyType DEF ListInv
  <1>11. \A u \in Ids : Within(u) => Within(u)' /\ List!Key(tasks[u]) <= List!Key(tasks'[u])
    BY <1>6, <1>9, <1>10 DEF Within, List!Exists
  <1>12. \A u \in reader'.still : List!Key(tasks'[u]) = List!Key(tasks[u])
    <2>1. \A u \in reader'.still : u \in Ids /\ u # t  BY <1>1, <1>6 DEF ViewRecords
    <2> QED BY <1>1, <1>4, <2>1
  <1> QED BY <1>6, <1>7, <1>11, <1>12, EventKeeps

LEMMA AllowedStates ==
    ASSUME NEW s \in List!TaskState \cup {List!Absent}, NEW goal \in List!Allowed(s)
    PROVE  goal \in List!TaskState
  BY DEF List!TaskState, List!Absent, List!Allowed, List!Terminal

LEMMA TransitionStep ==
    ASSUME List!ListAssumption, ListInv, NEW t \in Ids, NEW goal, List!Transition(t, goal)
    PROVE  ListInv'
  <1>1. reader \in ViewRecords /\ tasks \in [Ids -> TaskRecords] /\ now \in 1 .. MaxTime
        /\ tasks[t] \in TaskRecords
    BY DEF ListInv, ListTypes
  <1>2. now' \in Nat /\ List!Passes /\ now <= now' /\ now \in Nat /\ now > 0
    BY <1>1 DEF List!Transition, List!Passes, List!ListAssumption
  <1>3. goal \in List!TaskState
    BY <1>1, AllowedStates DEF List!Transition, TaskRecords
  <1> DEFINE p == tasks[t]
             r == [p EXCEPT !.state = goal,
                            !.started = IF goal = "RUNNING" /\ @ = 0 THEN now' ELSE @]
  <1>4. p.created \in Nat /\ p.started \in Nat /\ p.created <= now /\ p.started <= now
    BY <1>1 DEF TaskRecords, ListInv, ListTypes
  <1>5. r \in TaskRecords /\ r.state = goal /\ r.created = p.created
        /\ r.started = IF goal = "RUNNING" /\ p.started = 0 THEN now' ELSE p.started
    BY <1>1, <1>2, <1>3 DEF TaskRecords
  <1>6. tasks' = [tasks EXCEPT ![t] = r]  BY <1>1 DEF List!Transition
  <1> HIDE DEF r
  <1>7. r.created <= now' /\ r.started <= now' /\ List!Key(p) <= List!Key(r)
    BY <1>2, <1>4, <1>5 DEF List!Key
  <1>8. tasks'[t] = r /\ \A u \in Ids : u # t => tasks'[u] = tasks[u]  BY <1>1, <1>6
  <1>9. List!Noted \in ViewRecords /\ List!Noted.still = reader.still
    BY <1>1 DEF List!Noted, ViewRecords
  <1> DEFINE left == List!Matches(p, reader.filter) /\ ~List!Matches(r, reader.filter)
  <1>10. PICK kept \in SUBSET reader.still :
           /\ reader' = [List!Noted EXCEPT !.still = kept]
           /\ left => kept = {}
           /\ t \in kept => List!Key(p) = List!Key(r)
    <2>1. CASE left
      <3>1. reader' = [List!Noted EXCEPT !.still = {}]
        BY <1>8, <2>1 DEF List!Transition, List!Leaves
      <3> HIDE DEF left
      <3> WITNESS {} \in SUBSET reader.still
      <3> QED BY <3>1
    <2>2. CASE ~left /\ List!Key(p) # List!Key(r)
      <3>1. List!Moves(t)  BY <1>8, <2>2 DEF List!Transition
      <3>2. reader' = [List!Noted EXCEPT !.still = reader.still \ {t}]
        BY <1>9, <3>1 DEF List!Moves, ViewRecords
      <3> HIDE DEF left
      <3> WITNESS reader.still \ {t} \in SUBSET reader.still
      <3> QED BY <2>2, <3>2
    <2>3. CASE ~left /\ List!Key(p) = List!Key(r)
      <3>1. reader' = List!Noted  BY <1>8, <2>3 DEF List!Transition
      <3>2. reader' = [List!Noted EXCEPT !.still = reader.still]
        BY <1>9, <3>1 DEF ViewRecords
      <3> QED BY <2>3, <3>2
    <2> QED BY <2>1, <2>2, <2>3
  <1>11. /\ reader' \in ViewRecords /\ reader'.still = kept
         /\ reader'.step = reader.step /\ reader'.filter = reader.filter
         /\ reader'.offset = reader.offset /\ reader'.unread = reader.unread
         /\ reader'.rows = reader.rows /\ reader'.shown = reader.shown
    BY ONLY <1>1, <1>10, NotedView
  <1>12. ListTypes'  BY <1>2, <1>5, <1>6, <1>7, <1>11, EventTypes DEF ListInv
  <1>13. \A u \in Ids : List!Key(tasks[u]) \in Nat  BY KeyType DEF ListInv
  <1>14. reader'.still # {} =>
           \A u \in Ids : Within(u) => Within(u)' /\ List!Key(tasks[u]) <= List!Key(tasks'[u])
    <2>1. SUFFICES ASSUME ~left, NEW u \in Ids, Within(u)
                   PROVE  Within(u)' /\ List!Key(tasks[u]) <= List!Key(tasks'[u])
      BY <1>10, <1>11
    <2>2. CASE u = t
      <3>1. goal # List!Absent  BY <1>3 DEF List!TaskState, List!Absent
      <3>2. List!Exists(t)'  BY <1>5, <1>8, <3>1 DEF List!Exists
      <3>3. List!Matches(tasks'[t], reader'.filter)
        BY <1>8, <1>11, <2>1, <2>2 DEF Within
      <3>4. List!Key(tasks[t]) <= List!Key(tasks'[t])  BY <1>7, <1>8
      <3>5. Within(t)'  BY <3>2, <3>3 DEF Within
      <3> QED BY <2>2, <3>4, <3>5
    <2>3. CASE u # t
      <3>1. tasks'[u] = tasks[u]  BY <1>8, <2>3
      <3>2. List!Key(tasks'[u]) = List!Key(tasks[u]) /\ List!Key(tasks[u]) \in Nat
        BY <1>13, <3>1
      <3>3. List!Key(tasks[u]) <= List!Key(tasks'[u])  BY <3>2
      <3>4. Within(u)'  BY <1>11, <2>1, <3>1 DEF Within, List!Exists
      <3> QED BY <3>3, <3>4
    <2> QED BY <2>2, <2>3
  <1>15. \A u \in reader'.still : List!Key(tasks'[u]) = List!Key(tasks[u])
    <2>1. \A u \in reader'.still : u \in Ids  BY <1>11 DEF ViewRecords
    <2> QED BY <1>8, <1>10, <1>11, <2>1
  <1> QED BY <1>10, <1>11, <1>12, <1>14, <1>15, EventKeeps

LEMMA DeleteStep ==
    ASSUME List!ListAssumption, ListInv, NEW t \in Ids, List!Delete(t)
    PROVE  ListInv'
  <1>1. reader \in ViewRecords  BY DEF ListInv, ListTypes
  <1>2. List!Deleted \in TaskRecords /\ List!Deleted.created = 1 /\ List!Deleted.started = 0
    BY DEF List!Deleted, List!NoTask, TaskRecords
  <1>3. List!Passes /\ now' \in Nat /\ now' >= 1
    BY DEF ListInv, ListTypes, List!Delete, List!Passes, List!ListAssumption
  <1>4. reader' = [List!Noted EXCEPT !.still = {}]  BY DEF List!Delete, List!Leaves
  <1>5. /\ reader' \in ViewRecords /\ reader'.still = {}
        /\ reader'.step = reader.step /\ reader'.filter = reader.filter
        /\ reader'.offset = reader.offset /\ reader'.unread = reader.unread
        /\ reader'.rows = reader.rows /\ reader'.shown = reader.shown
    <2>1. {} \in SUBSET reader.still  OBVIOUS
    <2> QED BY ONLY <1>1, <1>4, <2>1, NotedView
  <1>6. tasks' = [tasks EXCEPT ![t] = List!Deleted]  BY DEF List!Delete
  <1>7. List!Deleted.created <= now' /\ List!Deleted.started <= now'  BY <1>2, <1>3
  <1>8. ListTypes  BY DEF ListInv
  <1>9. ListTypes'
    BY ONLY List!ListAssumption, <1>2, <1>3, <1>5, <1>6, <1>7, <1>8, EventTypes
  <1> QED BY <1>5, <1>9, EventKeeps

-----------------------------------------------------------------------------
\* The view moves and the tasks do not.
LEMMA ViewTypes ==
    ASSUME ListTypes, UNCHANGED <<now, tasks>>, reader' \in ViewRecords, IsFiniteSet(reader'.rows)
    PROVE  ListTypes'
  BY DEF ListTypes

LEMMA EnumerateIs ==
    ASSUME reader \in ViewRecords, NEW next \in Nat, NEW filter \in List!Filters
    PROVE  LET v == List!Enumerate(next, filter) IN
             /\ v \in ViewRecords /\ v.step = "reading" /\ v.filter = filter /\ v.offset = next
             /\ v.unread = {t \in Ids : List!Exists(t)} /\ v.rows = {}
             /\ v.shown = reader.shown /\ v.still = reader.still
  BY DEF List!Enumerate, ViewRecords

LEMMA OpenStep ==
    ASSUME List!ListAssumption, ListInv, NEW filter \in List!Filters, List!Open(filter)
    PROVE  ListInv'
  <1>1. reader \in ViewRecords /\ UNCHANGED <<now, tasks>>
    BY DEF ListInv, ListTypes, List!Open
  <1>2. PICK v : v = List!Enumerate(0, filter)  OBVIOUS
  <1>3. /\ v \in ViewRecords /\ v.step = "reading" /\ v.filter = filter /\ v.offset = 0
        /\ v.unread = {t \in Ids : List!Exists(t)} /\ v.rows = {}
    <2>1. 0 \in Nat  OBVIOUS
    <2> QED BY <1>1, <1>2, <2>1, EnumerateIs
  <1>4. PICK kept : kept = {t \in Ids : List!Exists(t) /\ List!Matches(tasks[t], filter)}
    OBVIOUS
  <1>5. reader' = [v EXCEPT !.still = kept]  BY <1>2, <1>4 DEF List!Open
  <1>6. /\ reader' \in ViewRecords /\ reader'.step = "reading" /\ reader'.filter = filter
        /\ reader'.offset = 0 /\ reader'.unread = v.unread /\ reader'.rows = {}
        /\ reader'.still = kept
    BY <1>3, <1>4, <1>5 DEF ViewRecords
  <1>7. ListTypes'  BY <1>1, <1>6, FS_EmptySet, ViewTypes DEF ListInv
  <1>8. RowsAre'  BY <1>6 DEF RowsAre
  <1>9. StillAre'  BY <1>1, <1>3, <1>4, <1>6 DEF StillAre, Within, List!Exists
  <1>10. Behind'
    <2>1. ASSUME NEW s
          PROVE  Cardinality(Counted(s)') >= 0
      <3>1. Counted(s)' \subseteq Ids  BY DEF Counted, Ahead
      <3> QED BY <3>1, MoreCount
    <2> QED BY <1>6, <2>1 DEF Behind
  <1> QED BY <1>6, <1>7, <1>8, <1>9, <1>10 DEF ListInv

LEMMA NextPageStep ==
    ASSUME List!ListAssumption, ListInv, List!NextPage
    PROVE  ListInv'
  <1>1. reader \in ViewRecords /\ UNCHANGED <<now, tasks>> /\ reader.step = "shown"
    BY DEF ListInv, ListTypes, List!NextPage
  <1>2. reader.offset \in Nat /\ PageSize \in Nat /\ reader.filter \in List!Filters
    BY <1>1 DEF ViewRecords, List!ListAssumption
  <1>3. PICK next : next = reader.offset + PageSize  OBVIOUS
  <1>4. reader' = List!Enumerate(next, reader.filter) /\ next \in Nat
    BY <1>2, <1>3 DEF List!NextPage
  <1>5. /\ reader' \in ViewRecords /\ reader'.step = "reading" /\ reader'.filter = reader.filter
        /\ reader'.offset = next
        /\ reader'.unread = {t \in Ids : List!Exists(t)} /\ reader'.rows = {}
        /\ reader'.shown = reader.shown /\ reader'.still = reader.still
    BY <1>1, <1>2, <1>4, EnumerateIs
  <1>6. ListTypes'  BY <1>1, <1>5, FS_EmptySet, ViewTypes DEF ListInv
  <1>7. RowsAre'  BY <1>5 DEF RowsAre
  <1>8. \A t : Within(t)' <=> Within(t)  BY <1>1, <1>5 DEF Within, List!Exists
  <1>9. StillAre'
    <2>1. ASSUME NEW s \in reader'.still
          PROVE  Within(s)' /\ s \in reader'.unread
      <3>1. s \in Ids /\ Within(s)  BY <1>1, <1>5 DEF ListInv, StillAre, ViewRecords
      <3> QED BY <1>5, <1>8, <3>1 DEF Within
    <2> QED BY <2>1 DEF StillAre
  <1>10. Behind'
    <2>1. ASSUME NEW s \in reader'.still \ reader'.shown
          PROVE  Cardinality(Counted(s)') >= next
      <3>1. Ahead(s)' = Ahead(s)  BY <1>1, <1>8 DEF Ahead, Row, List!Before
      <3>2. Counted(s)' = Ahead(s)  BY <1>5, <3>1 DEF Counted, Ahead, Within
      <3> QED BY <1>1, <1>3, <1>5, <2>1, <3>2 DEF ListInv, Behind
    <2> QED BY <1>5, <2>1 DEF Behind
  <1> QED BY <1>5, <1>6, <1>7, <1>9, <1>10 DEF ListInv

LEMMA CloseStep ==
    ASSUME List!ListAssumption, ListInv, List!Close
    PROVE  ListInv'
  <1>1. reader' = List!Closed /\ UNCHANGED <<now, tasks>>  BY DEF List!Close
  <1>2. List!Closed \in ViewRecords
    BY DEF List!Closed, ViewRecords, List!Filters, List!Any
  <1>3. List!Closed.rows = {} /\ List!Closed.still = {} /\ List!Closed.step = "closed"
    BY DEF List!Closed
  <1>4. ListTypes'  BY <1>1, <1>2, <1>3, FS_EmptySet, ViewTypes DEF ListInv
  <1> QED BY <1>1, <1>3, <1>4 DEF ListInv, RowsAre, StillAre, Behind

LEMMA ReadRowStep ==
    ASSUME List!ListAssumption, ListInv, List!ReadRow
    PROVE  ListInv'
  <1>1. reader \in ViewRecords /\ UNCHANGED <<now, tasks>> /\ reader.step = "reading"
        /\ reader.unread # {}
    BY DEF ListInv, ListTypes, List!ReadRow
  <1>2. PICK t : t = CHOOSE i \in reader.unread : \A j \in reader.unread : i <= j
    OBVIOUS
  <1>3. t \in reader.unread /\ t \in Ids
    <2>1. reader.unread \subseteq Nat /\ reader.unread \subseteq Ids
      BY <1>1 DEF ViewRecords, List!ListAssumption
    <2>2. \E i \in reader.unread : \A j \in reader.unread : i <= j
      BY <1>1, <2>1, Least
    <2> QED BY <1>2, <2>1, <2>2
  <1>4. PICK new : new = IF Within(t) THEN {Row(t)} ELSE {}  OBVIOUS
  <1>5. reader' = [reader EXCEPT !.unread = @ \ {t}, !.rows = @ \cup new]
    BY <1>2, <1>4 DEF List!ReadRow, Within, Row
  <1>6. new \subseteq ListRows /\ IsFiniteSet(reader.rows \cup new)
    <2>1. Row(t) \in ListRows  BY <1>3, KeyType DEF ListInv, ListRows, Row
    <2>2. IsFiniteSet(reader.rows)  BY DEF ListInv, ListTypes
    <2>3. IsFiniteSet(reader.rows \cup {Row(t)}) /\ reader.rows \cup {} = reader.rows
      BY <2>2, FS_AddElement
    <2> QED BY <1>4, <2>1, <2>2, <2>3
  <1>7. /\ reader' \in ViewRecords /\ reader'.step = "reading" /\ reader'.filter = reader.filter
        /\ reader'.offset = reader.offset /\ reader'.unread = reader.unread \ {t}
        /\ reader'.rows = reader.rows \cup new
        /\ reader'.shown = reader.shown /\ reader'.still = reader.still
    BY <1>1, <1>5, <1>6 DEF ViewRecords
  <1>8. ListTypes'  BY <1>1, <1>6, <1>7, ViewTypes DEF ListInv
  <1>9. \A u : (Within(u)' <=> Within(u)) /\ Row(u)' = Row(u)
    BY <1>1, <1>7 DEF Within, List!Exists, Row
  <1>10. \A row \in new : row.id = t /\ row.key = List!Key(tasks[t]) /\ Within(t) /\ row = Row(t)
    BY <1>4 DEF Row
  <1>11. RowsAre'
    <2>1. SUFFICES ASSUME reader.still # {}
                   PROVE  /\ \A row \in reader.rows \cup new :
                               /\ row.id \notin reader.unread \ {t} /\ Within(row.id)
                               /\ row.key <= List!Key(tasks[row.id])
                          /\ \A a, b \in reader.rows \cup new : a.id = b.id => a = b
      BY <1>1, <1>7, <1>9 DEF RowsAre
    <2>2. /\ \A row \in reader.rows : /\ row.id \notin reader.unread /\ Within(row.id)
                                       /\ row.key <= List!Key(tasks[row.id])
          /\ \A a, b \in reader.rows : a.id = b.id => a = b
      BY <2>1 DEF ListInv, RowsAre
    <2>3. List!Key(tasks[t]) \in Nat  BY <1>3, KeyType DEF ListInv
    <2>4. \A row \in reader.rows : row.id # t  BY <1>3, <2>2
    <2>5. List!Key(tasks[t]) <= List!Key(tasks[t])  BY <2>3
    <2> QED BY <1>10, <2>2, <2>4, <2>5
  <1>12. StillAre'
    <2>1. ASSUME NEW s \in reader.still
          PROVE  Within(s) /\ (s \in reader.unread \ {t} \/ Row(s) \in reader.rows \cup new)
      <3>1. Within(s) /\ (s \in reader.unread \/ Row(s) \in reader.rows)
        BY <1>1 DEF ListInv, StillAre
      <3> QED BY <1>4, <3>1
    <2> QED BY <1>7, <1>9, <2>1 DEF StillAre
  <1>13. Behind'
    <2>1. ASSUME NEW s \in reader.still \ reader.shown
          PROVE  Cardinality(Counted(s)') >= reader.offset
      <3>1. Ahead(s)' = Ahead(s)  BY <1>1, <1>9 DEF Ahead, List!Before
      <3>2. Counted(s) \subseteq Counted(s)'
        <4>1. SUFFICES ASSUME NEW u \in Ahead(s), u \in reader.unread \/
                                \E row \in reader.rows : row.id = u /\ List!Before(row, Row(s))
                       PROVE  u \in reader.unread \ {t} \/
                                \E row \in reader.rows \cup new : row.id = u /\ List!Before(row, Row(s))
          BY <1>7, <1>9, <3>1 DEF Counted, List!Before
        <4>2. CASE u = t
          <5>1. Within(t) /\ List!Before(Row(t), Row(s))  BY <4>2 DEF Ahead
          <5>2. Row(t) \in new /\ Row(t).id = t  BY <1>4, <5>1 DEF Row
          <5> QED BY <4>2, <5>1, <5>2
        <4>3. CASE u # t  BY <4>1, <4>3
        <4> QED BY <4>2, <4>3
      <3>3. Counted(s)' \subseteq Ids  BY DEF Counted, Ahead
      <3>4. /\ Cardinality(Counted(s)) <= Cardinality(Counted(s)')
            /\ Cardinality(Counted(s)) \in Nat /\ Cardinality(Counted(s)') \in Nat
        BY <3>2, <3>3, MoreCount
      <3>5. Cardinality(Counted(s)) >= reader.offset  BY <1>1 DEF ListInv, Behind
      <3>6. reader.offset \in Nat  BY <1>1 DEF ViewRecords
      <3> QED BY <3>4, <3>5, <3>6
    <2> QED BY <1>7, <2>1 DEF Behind
  <1> QED BY <1>7, <1>8, <1>11, <1>12, <1>13 DEF ListInv

\* All that was counted has a row before that of s, and each such row is one of
\* a task that is before s now.
LEMMA RowsCount ==
    ASSUME List!ListAssumption, ListInv, reader.step = "reading", reader.unread = {},
           NEW s \in reader.still
    PROVE  /\ Row(s) \in reader.rows /\ List!Position(Row(s)) \in Nat
           /\ Cardinality(Counted(s)) <= List!Position(Row(s))
           /\ List!Position(Row(s)) <= Cardinality(Ahead(s))
           /\ List!Position(Row(s)) + 1 <= List!Cardinality(reader.rows)
           /\ List!Cardinality(reader.rows) \in Nat
           /\ Cardinality(Counted(s)) \in Nat /\ Cardinality(Ahead(s)) \in Nat
  <1> DEFINE B == {other \in reader.rows : List!Before(other, Row(s))}
             I == {row.id : row \in B}
             f == [row \in B |-> row.id]
  <1>1. reader \in ViewRecords /\ Ids \subseteq Nat
    BY DEF ListInv, ListTypes, List!ListAssumption
  <1>2. s \in Ids /\ Row(s) \in reader.rows
    BY <1>1 DEF ListInv, StillAre, ViewRecords
  <1>3. \A row \in reader.rows : row.id \in Ids /\ row.key \in Nat
    BY <1>1 DEF ViewRecords, ListRows
  <1>4. List!Position(Row(s)) = Cardinality(B)
    BY SameCounts DEF List!Position, List!Before
  <1>5. IsFiniteSet(reader.rows)  BY DEF ListInv, ListTypes
  <1>6. B \in SUBSET reader.rows  OBVIOUS
  <1>7. IsFiniteSet(B) /\ Cardinality(B) <= Cardinality(reader.rows)
        /\ (Cardinality(reader.rows) = Cardinality(B) => reader.rows = B)
    BY <1>5, <1>6, FS_Subset
  <1>8. Cardinality(B) \in Nat /\ Cardinality(reader.rows) \in Nat
    BY <1>5, <1>7, FS_CardinalityType
  <1>9. Row(s) \notin B
    <2>1. Row(s).id \in Nat /\ Row(s).key \in Nat  BY <1>1, <1>2, <1>3
    <2>2. ~List!Before(Row(s), Row(s))  BY <2>1 DEF List!Before
    <2> QED BY <2>2
  <1>10. Cardinality(B) + 1 <= Cardinality(reader.rows)  BY <1>2, <1>7, <1>8, <1>9
  <1>11. Cardinality(Counted(s)) <= Cardinality(B)
    <2>1. f \in Surjection(B, I)  BY DEF Surjection
    <2>2. IsFiniteSet(I) /\ Cardinality(I) <= Cardinality(B)
      BY <1>7, <2>1, FS_Surjection
    <2>3. Counted(s) \in SUBSET I
      <3>1. ASSUME NEW t \in Counted(s)
            PROVE  t \in I
        <4>1. PICK row \in reader.rows : row.id = t /\ List!Before(row, Row(s))
          BY DEF Counted
        <4> QED BY <4>1
      <3> QED BY <3>1
    <2>4. I \subseteq Ids  BY <1>3
    <2> HIDE DEF I, B, f
    <2>5. Cardinality(Counted(s)) \in Nat /\ Cardinality(I) \in Nat
          /\ Cardinality(Counted(s)) <= Cardinality(I)
      BY <2>3, <2>4, MoreCount
    <2> QED BY <1>8, <2>2, <2>5
  <1>12. Cardinality(B) <= Cardinality(Ahead(s))
    <2>1. reader.still # {}  OBVIOUS
    <2>2. ASSUME NEW row \in B
          PROVE  row.id \in Ahead(s)
      <3>1. Within(row.id) /\ row.key <= List!Key(tasks[row.id]) /\ row.id \in Ids
        BY <1>3, <2>1 DEF ListInv, RowsAre
      <3>2. List!Key(tasks[row.id]) \in Nat /\ List!Key(tasks[s]) \in Nat /\ row.key \in Nat
        BY <1>2, <1>3, <3>1, KeyType DEF ListInv
      <3>3. List!Before(Row(row.id), Row(s))
        BY <1>1, <1>2, <3>1, <3>2 DEF List!Before, Row
      <3> QED BY <3>1, <3>3 DEF Ahead
    <2>3. \A a, b \in B : a.id = b.id => a = b  BY <2>1 DEF ListInv, RowsAre
    <2>4. f \in Injection(B, Ahead(s))
      <3>1. f \in [B -> Ahead(s)]  BY <2>2
      <3>2. \A a, b \in B : f[a] = f[b] => a = b  BY <2>3
      <3> QED BY <3>1, <3>2 DEF Injection, IsInjective
    <2>5. IsFiniteSet(Ahead(s))
      <3>1. IsFiniteSet(Ids) /\ Ahead(s) \in SUBSET Ids
        BY SameCounts DEF List!ListAssumption, Ahead
      <3> QED BY <3>1, FS_Subset
    <2> QED BY <2>4, <2>5, FS_Injection
  <1>13. Counted(s) \subseteq Ahead(s) /\ Ahead(s) \subseteq Ids
    BY DEF Counted, Ahead
  <1>14. Cardinality(Counted(s)) \in Nat /\ Cardinality(Ahead(s)) \in Nat
    BY <1>13, MoreCount
  <1>15. List!Cardinality(reader.rows) = Cardinality(reader.rows)  BY SameCounts
  <1> HIDE DEF B
  <1> QED BY <1>2, <1>4, <1>8, <1>10, <1>11, <1>12, <1>14, <1>15

LEMMA ShowStep ==
    ASSUME List!ListAssumption, ListInv, List!Show
    PROVE  ListInv'
  <1>1. reader \in ViewRecords /\ UNCHANGED <<now, tasks>> /\ reader.step = "reading"
        /\ reader.unread = {}
    BY DEF ListInv, ListTypes, List!Show
  <1>2. PICK step : step = IF List!HasNext THEN "shown" ELSE "last"  OBVIOUS
  <1>3. PICK page : page = {row.id : row \in List!Page}  OBVIOUS
  <1>4. page \subseteq Ids  BY <1>1, <1>3 DEF List!Page, ViewRecords, ListRows
  <1>5. step \in {"shown", "last"}  BY <1>2
  <1>6. reader' = [reader EXCEPT !.step = step, !.shown = @ \cup page]
    BY <1>2, <1>3 DEF List!Show
  <1>7. /\ reader' \in ViewRecords /\ reader'.step = step /\ reader'.filter = reader.filter
        /\ reader'.offset = reader.offset /\ reader'.unread = {} /\ reader'.rows = reader.rows
        /\ reader'.shown = reader.shown \cup page /\ reader'.still = reader.still
    BY <1>1, <1>4, <1>5, <1>6 DEF ViewRecords
  <1>8. ListTypes'  BY <1>1, <1>7, ViewTypes DEF ListInv, ListTypes
  <1>9. \A u : (Within(u)' <=> Within(u)) /\ Row(u)' = Row(u)
    BY <1>1, <1>7 DEF Within, List!Exists, Row
  <1>10. RowsAre'  BY <1>1, <1>7, <1>9 DEF ListInv, RowsAre
  <1>11. StillAre'  BY <1>5, <1>7, <1>9 DEF ListInv, StillAre
  <1>12. ASSUME NEW s \in reader.still \ (reader.shown \cup page)
         PROVE  step = "shown" /\ Cardinality(Ahead(s)) >= reader.offset + PageSize
    <2>1. /\ Row(s) \in reader.rows /\ List!Position(Row(s)) \in Nat
          /\ Cardinality(Counted(s)) <= List!Position(Row(s))
          /\ List!Position(Row(s)) <= Cardinality(Ahead(s))
          /\ List!Position(Row(s)) + 1 <= List!Cardinality(reader.rows)
          /\ List!Cardinality(reader.rows) \in Nat
          /\ Cardinality(Counted(s)) \in Nat /\ Cardinality(Ahead(s)) \in Nat
      BY <1>1, <1>12, RowsCount
    <2>2. Cardinality(Counted(s)) >= reader.offset
      BY <1>1, <1>12 DEF ListInv, Behind
    <2>3. reader.offset \in Nat /\ PageSize \in Nat
      BY <1>1 DEF ViewRecords, List!ListAssumption
    <2>4. Row(s) \notin List!Page
      <3>1. Row(s).id = s  BY DEF Row
      <3> QED BY <1>3, <1>12, <3>1
    <2>5. PICK c \in Nat : c = List!Position(Row(s))  BY <2>1
    <2>6. c >= reader.offset  BY <2>1, <2>2, <2>3, <2>5
    <2>7. ~(c - reader.offset \in 0 .. PageSize - 1)
      BY <2>1, <2>4, <2>5, <2>6 DEF List!Page
    <2>8. c >= reader.offset + PageSize  BY <2>3, <2>6, <2>7
    <2>9. List!HasNext  BY <2>1, <2>3, <2>5, <2>8 DEF List!HasNext
    <2> QED BY <1>2, <2>1, <2>3, <2>5, <2>8, <2>9
  <1>13. Behind'
    <2>1. \A s : Ahead(s)' = Ahead(s)  BY <1>1, <1>9 DEF Ahead, List!Before
    <2> QED BY <1>7, <1>12, <2>1 DEF Behind
  <1> QED BY <1>5, <1>7, <1>8, <1>10, <1>11, <1>13 DEF ListInv

LEMMA ListSteps ==
    ASSUME List!ListAssumption, ListInv, [List!Next]_listVars
    PROVE  ListInv'
  <1>1. CASE UNCHANGED listVars
    <2>1. now' = now /\ tasks' = tasks /\ reader' = reader  BY <1>1 DEF listVars
    <2>2. \A u : (Within(u)' <=> Within(u)) /\ Row(u)' = Row(u)
      BY <2>1 DEF Within, List!Exists, Row
    <2>3. \A u : Ahead(u)' = Ahead(u)  BY <2>1, <2>2 DEF Ahead, List!Before
    <2>4. \A u : Counted(u)' = Counted(u)
      BY <2>1, <2>2, <2>3 DEF Counted, List!Before
    <2> QED BY <2>1, <2>2, <2>3, <2>4 DEF ListInv, ListTypes, RowsAre, StillAre, Behind
  <1>2. CASE List!Next
    BY <1>2, CreateStep, TransitionStep, DeleteStep, OpenStep, ReadRowStep, ShowStep,
       NextPageStep, CloseStep DEF List!Next
  <1> QED BY <1>1, <1>2

\* Two disjoint parts are counted apart.
LEMMA Apart ==
    ASSUME List!ListAssumption, NEW A, NEW B, A \cup B \subseteq Ids, A \cap B = {}
    PROVE  /\ List!Cardinality(A \cup B) = List!Cardinality(A) + List!Cardinality(B)
           /\ List!Cardinality(A) \in Nat /\ List!Cardinality(B) \in Nat
  <1>1. IsFiniteSet(Ids)  BY SameCounts DEF List!ListAssumption
  <1>2. IsFiniteSet(A) /\ IsFiniteSet(B)
    <2>1. A \in SUBSET Ids /\ B \in SUBSET Ids  OBVIOUS
    <2> QED BY <1>1, <2>1, FS_Subset
  <1>3. Cardinality(A) \in Nat /\ Cardinality(B) \in Nat
    BY <1>2, FS_CardinalityType
  <1>4. Cardinality(A \cap B) = 0  BY FS_EmptySet
  <1>5. Cardinality(A \cup B) = Cardinality(A) + Cardinality(B) - Cardinality(A \cap B)
    BY <1>2, FS_Union
  <1> QED BY <1>3, <1>4, <1>5, SameCounts

LEMMA CalendarCounts ==
    ASSUME List!ListAssumption, ListTypes
    PROVE  List!CalendarCountsAll
  <1> SUFFICES ASSUME NEW day \in 0 .. MaxTime \div DayLength
               PROVE  LET c == List!Calendar(day) IN
                        c.count = c.completed + c.failed + c.running
                        /\ c.count = c.scheduled + c.manual
    BY DEF List!CalendarCountsAll
  <1> DEFINE of == {t \in Ids : List!Exists(t) /\ List!Day(t) = day}
             In(A) == {t \in of : tasks[t].state \in A}
             c == List!Calendar(day)
  <1>1. /\ c.count = List!Cardinality(of)
        /\ c.completed = List!Cardinality(In({"COMPLETED"}))
        /\ c.failed = List!Cardinality(In({"FAILED", "CANCELLED"}))
        /\ c.running = List!Cardinality(In(List!Active))
        /\ c.scheduled = List!Cardinality({t \in of : t \in Scheduled})
        /\ c.manual = List!Cardinality({t \in of : t \notin Scheduled})
    BY DEF List!Calendar
  <1>2. \A t \in of : tasks[t].state \in List!TaskState
    BY DEF ListTypes, TaskRecords, List!Exists
  <1>3. of = (In({"COMPLETED"}) \cup In({"FAILED", "CANCELLED"})) \cup In(List!Active)
    BY <1>2 DEF List!TaskState, List!Active
  <1>4. List!Cardinality(of) = List!Cardinality(In({"COMPLETED"}) \cup In({"FAILED", "CANCELLED"}))
                                + List!Cardinality(In(List!Active))
    <2>1. (In({"COMPLETED"}) \cup In({"FAILED", "CANCELLED"})) \cap In(List!Active) = {}
      BY DEF List!Active
    <2>2. of \subseteq Ids  OBVIOUS
    <2> HIDE DEF of, In
    <2> QED BY <1>3, <2>1, <2>2, Apart
  <1>5. List!Cardinality(In({"COMPLETED"}) \cup In({"FAILED", "CANCELLED"}))
          = List!Cardinality(In({"COMPLETED"})) + List!Cardinality(In({"FAILED", "CANCELLED"}))
    <2>1. In({"COMPLETED"}) \cap In({"FAILED", "CANCELLED"}) = {}  OBVIOUS
    <2>2. In({"COMPLETED"}) \cup In({"FAILED", "CANCELLED"}) \subseteq Ids  OBVIOUS
    <2> HIDE DEF of, In
    <2> QED BY <2>1, <2>2, Apart
  <1>6. List!Cardinality(of) = List!Cardinality({t \in of : t \in Scheduled})
                                + List!Cardinality({t \in of : t \notin Scheduled})
    <2>1. of = {t \in of : t \in Scheduled} \cup {t \in of : t \notin Scheduled}
      OBVIOUS
    <2>2. {t \in of : t \in Scheduled} \cap {t \in of : t \notin Scheduled} = {}
      OBVIOUS
    <2>3. of \subseteq Ids  OBVIOUS
    <2> HIDE DEF of
    <2> QED BY <2>1, <2>2, <2>3, Apart
  <1> HIDE DEF of, In, c
  <1>7. c.count = c.completed + c.failed + c.running /\ c.count = c.scheduled + c.manual
    BY <1>1, <1>4, <1>5, <1>6
  <1> QED BY <1>7 DEF c

LEMMA ListIsSound ==
    ASSUME List!ListAssumption, ListInv
    PROVE  List!TypeOK /\ List!PagesMissNothing /\ List!CalendarCountsAll
  <1>1. List!TypeOK
    <2>1. reader \in ViewRecords /\ now \in 1 .. MaxTime  BY DEF ListInv, ListTypes
    <2>2. \A t \in Ids : tasks[t].state \in List!TaskState \cup {List!Absent}
      BY DEF ListInv, ListTypes, TaskRecords
    <2> QED BY <2>1, <2>2 DEF List!TypeOK, ViewRecords
  <1>2. List!PagesMissNothing  BY DEF ListInv, Behind, List!PagesMissNothing
  <1>3. List!CalendarCountsAll  BY CalendarCounts DEF ListInv
  <1> QED BY <1>1, <1>2, <1>3

-----------------------------------------------------------------------------
(* DataPackages: sequences of whatever is copied, and their sizes.           *)

IsSeq(q) == q \in Seq({q[i] : i \in DOMAIN q})

LEMMA OneMore ==
    ASSUME NEW q, IsSeq(q), NEW x
    PROVE  /\ IsSeq(Append(q, x)) /\ Len(q) \in Nat /\ DOMAIN q = 1 .. Len(q)
           /\ Len(Append(q, x)) = Len(q) + 1 /\ DOMAIN Append(q, x) = 1 .. Len(q) + 1
           /\ \A i \in 1 .. Len(q) : Append(q, x)[i] = q[i]
           /\ Append(q, x)[Len(q) + 1] = x
  <1> DEFINE V == {q[i] : i \in DOMAIN q}
             W == V \cup {x}
             U == {Append(q, x)[i] : i \in DOMAIN Append(q, x)}
  <1>1. q \in Seq(V)  BY DEF IsSeq
  <1>2. q \in Seq(W)
    <2>1. V \subseteq W  OBVIOUS
    <2> HIDE DEF V, W
    <2> QED BY <1>1, <2>1
  <1>3. x \in W  OBVIOUS
  <1> HIDE DEF V, W
  <1>4. /\ Len(q) \in Nat /\ DOMAIN q = 1 .. Len(q)
        /\ Append(q, x) \in Seq(W)
        /\ Len(Append(q, x)) = Len(q) + 1
        /\ \A i \in 1 .. Len(q) : Append(q, x)[i] = q[i]
        /\ Append(q, x)[Len(q) + 1] = x
    BY <1>2, <1>3
  <1>5. DOMAIN Append(q, x) = 1 .. Len(Append(q, x)) /\ Len(Append(q, x)) \in Nat
    BY <1>4
  <1>6. IsSeq(Append(q, x))
    <2>1. \A i \in 1 .. Len(Append(q, x)) : Append(q, x)[i] \in U  BY <1>5
    <2> HIDE DEF U
    <2>2. Append(q, x) \in Seq(U)  BY <1>4, <1>5, <2>1, ElementOfSeq, IsASeq
    <2> QED BY <2>2 DEF U, IsSeq
  <1> QED BY <1>4, <1>5, <1>6

LEMMA EmptyIsSeq == IsSeq(<<>>) /\ Len(<<>>) = 0 /\ DOMAIN <<>> = {}
  BY DEF IsSeq

\* Files, each with a sequence as its content.
AreFiles(q) == IsSeq(q) /\ \A i \in DOMAIN q : IsSeq(q[i].content)

LEMMA SizesIs ==
    ASSUME NEW q, AreFiles(q)
    PROVE  \E m : /\ m = Packages!Sizes(q) /\ m \in [0 .. Len(q) -> Nat] /\ m[0] = 0
                  /\ \A k \in 1 .. Len(q) : m[k] = m[k - 1] + Len(q[k].content)
  <1> DEFINE G == [x \in (1 .. Len(q)) \X Nat |-> x[2] + Len(q[x[1]].content)]
             Step(g) == [n \in 0 .. Len(q) |->
                            IF n = 0 THEN 0 ELSE g[n - 1] + Len(q[n].content)]
  <1>1. 0 \in Nat /\ Len(q) \in Nat /\ \A n \in 1 .. Len(q) : Len(q[n].content) \in Nat
    <2>1. Len(q) \in Nat /\ DOMAIN q = 1 .. Len(q)  BY OneMore DEF AreFiles
    <2> QED BY <2>1, OneMore DEF AreFiles
  <1>2. G \in [(1 .. Len(q)) \X Nat -> Nat]  BY <1>1
  <1>3. \A n \in 1 .. Len(q) : \A k \in Nat : G[<<n, k>>] = k + Len(q[n].content)
    OBVIOUS
  <1> HIDE DEF G
  <1>4. PICK f \in [0 .. Len(q) -> Nat] :
           f[0] = 0 /\ \A k \in 1 .. Len(q) : f[k - 1] \in Nat /\ f[k] = G[<<k, f[k - 1]>>]
    <2>1. \E f : Iterates(f, Nat, 0, Len(q), G)  BY <1>1, <1>2, Iterated
    <2>2. \A k \in 1 .. Len(q) : k - 1 \in 0 .. Len(q)  BY <1>1
    <2> QED BY <2>1, <2>2 DEF Iterates
  <1>5. \A k \in 1 .. Len(q) : f[k] = f[k - 1] + Len(q[k].content)  BY <1>3, <1>4
  <1>6. f = Step(f)
    <2>1. \A n \in 0 .. Len(q) : n # 0 => n \in 1 .. Len(q)  BY <1>1
    <2> QED BY <1>4, <1>5, <2>1
  <1>7. Packages!Sizes(q) = Step(Packages!Sizes(q))
    BY <1>6, Zenon DEF Packages!Sizes
  <1> DEFINE m == Packages!Sizes(q)
  <1>8. DOMAIN m = 0 .. Len(q) /\ m[0] = 0
        /\ \A k \in 1 .. Len(q) : m[k] = m[k - 1] + Len(q[k].content)
    <2> HIDE DEF m
    <2>1. m = Step(m)  BY <1>7 DEF m
    <2>2. 0 \in 0 .. Len(q) /\ \A k \in 1 .. Len(q) : k \in 0 .. Len(q) /\ k # 0
      BY <1>1
    <2> QED BY <2>1, <2>2
  <1>9. \A n \in 0 .. Len(q) : m[n] \in Nat
    <2> DEFINE S == {n \in 0 .. Len(q) : m[n] \in Nat}
    <2> HIDE DEF m
    <2>1. 0 \in S  BY <1>1, <1>8
    <2>2. ASSUME NEW n \in 0 .. Len(q), n \in S, n < Len(q)
          PROVE  n + 1 \in S
      <3>1. n + 1 \in 1 .. Len(q) /\ n + 1 \in 0 .. Len(q) /\ (n + 1) - 1 = n
        BY <1>1, <2>2
      <3>2. m[n + 1] = m[n] + Len(q[n + 1].content)  BY <1>8, <3>1
      <3> QED BY <1>1, <2>2, <3>1, <3>2
    <2> HIDE DEF S
    <2>3. \A n \in 0 .. Len(q) : n \in S  BY <1>1, <2>1, <2>2, Induct
    <2> QED BY <2>3 DEF S
  <1>10. m = [n \in 0 .. Len(q) |-> m[n]]  BY <1>7
  <1> HIDE DEF m
  <1>11. m \in [0 .. Len(q) -> Nat]  BY <1>9, <1>10
  <1> QED BY <1>8, <1>11 DEF m

\* One more file adds its size.
LEMMA TotalIs ==
    ASSUME NEW q, AreFiles(q), NEW x, IsSeq(x.content)
    PROVE  /\ AreFiles(Append(q, x)) /\ Packages!Total(q) \in Nat
           /\ Packages!Total(Append(q, x)) = Packages!Total(q) + Len(x.content)
  <1> DEFINE r == Append(q, x)
  <1>1. /\ IsSeq(r) /\ Len(q) \in Nat /\ DOMAIN q = 1 .. Len(q)
        /\ Len(r) = Len(q) + 1 /\ DOMAIN r = 1 .. Len(q) + 1
        /\ \A i \in 1 .. Len(q) : r[i] = q[i]
        /\ r[Len(q) + 1] = x
    BY OneMore DEF AreFiles
  <1> HIDE DEF r
  <1>2. AreFiles(r)
    <2>1. \A i \in 1 .. Len(q) + 1 : i \in 1 .. Len(q) \/ i = Len(q) + 1  BY <1>1
    <2> QED BY <1>1, <2>1 DEF AreFiles
  <1>3. PICK m : /\ m = Packages!Sizes(q) /\ m \in [0 .. Len(q) -> Nat] /\ m[0] = 0
                 /\ \A k \in 1 .. Len(q) : m[k] = m[k - 1] + Len(q[k].content)
    BY SizesIs
  <1>4. PICK n : /\ n = Packages!Sizes(r) /\ n \in [0 .. Len(r) -> Nat] /\ n[0] = 0
                 /\ \A k \in 1 .. Len(r) : n[k] = n[k - 1] + Len(r[k].content)
    BY <1>2, SizesIs
  <1>5. \A k \in 0 .. Len(q) : n[k] = m[k]
    <2> DEFINE S == {k \in 0 .. Len(q) : n[k] = m[k]}
    <2>1. 0 \in S  BY <1>1, <1>3, <1>4
    <2>2. ASSUME NEW k \in 0 .. Len(q), k \in S, k < Len(q)
          PROVE  k + 1 \in S
      <3>1. /\ k + 1 \in 1 .. Len(q) /\ k + 1 \in 0 .. Len(q) /\ (k + 1) - 1 = k
            /\ k + 1 \in 1 .. Len(r)
        BY <1>1, <2>2
      <3>2. m[k + 1] = m[k] + Len(q[k + 1].content) /\ n[k + 1] = n[k] + Len(r[k + 1].content)
        BY <1>3, <1>4, <3>1
      <3>3. r[k + 1] = q[k + 1]  BY <1>1, <3>1
      <3> QED BY <2>2, <3>1, <3>2, <3>3
    <2> HIDE DEF S
    <2>3. \A k \in 0 .. Len(q) : k \in S  BY <1>1, <2>1, <2>2, Induct
    <2> QED BY <2>3 DEF S
  <1>6. n[Len(q) + 1] = n[Len(q)] + Len(x.content)
    <2>1. Len(q) + 1 \in 1 .. Len(r) /\ (Len(q) + 1) - 1 = Len(q)  BY <1>1
    <2> QED BY <1>1, <1>4, <2>1
  <1>7. m[Len(q)] \in Nat /\ n[Len(q)] = m[Len(q)]  BY <1>1, <1>3, <1>5
  <1>8. Packages!Total(q) = m[Len(q)] /\ Packages!Total(r) = n[Len(r)]
    BY <1>3, <1>4 DEF Packages!Total
  <1> QED BY <1>1, <1>2, <1>6, <1>7, <1>8 DEF r

-----------------------------------------------------------------------------
(* DataPackages: the invariant.                                              *)

\* The record of a request, field by field.
Call(s, m, j, d, o, l, g, h, f, i, b) ==
    [step |-> s, modes |-> m, jobs |-> j, done |-> d, opened |-> o, left |-> l, staged |-> g,
     digest |-> h, files |-> f, missing |-> i, bytes |-> b]

CallShape(r) == r = Call(r.step, r.modes, r.jobs, r.done, r.opened, r.left, r.staged, r.digest,
                         r.files, r.missing, r.bytes)

\* A hash is that of the copy beside it, and a copy that differs from what was
\* analysed is among what is missing.
Honest(files, missing) ==
    \A i \in DOMAIN files :
       /\ files[i].sha = files[i].content
       /\ files[i].expected # Packages!Absent /\ files[i].expected # files[i].content =>
             <<files[i].path, "content_changed">> \in missing

\* A whole file that was selected was copied or is reported.
Copied(files, job) == \E i \in DOMAIN files : files[i].mode = job.mode /\ files[i].path = job.path
Treated(files, missing, job) ==
    job.windows = {} => Copied(files, job) \/ \E m \in missing : m[1] = job.path

\* A build: what it has staged and stored, and the jobs behind it.
Builds(r) ==
    /\ CallShape(r)
    /\ AreFiles(r.files) /\ IsSeq(r.staged) /\ r.digest = r.staged
    /\ r.bytes = Packages!Total(r.files) /\ r.bytes + Len(r.staged) <= MaxBytes
    /\ Len(r.files) <= MaxFiles /\ (r.step = "read" => Len(r.files) < MaxFiles)
    /\ Honest(r.files, r.missing)
    /\ r.step \in {"asked", "open"} => r.done = 0
    /\ r.done \in Nat /\ \A i \in 1 .. r.done : Treated(r.files, r.missing, r.jobs[i])

\* A package: a finished build.
Packed(p) ==
    /\ Len(p.files) <= MaxFiles /\ Packages!Total(p.files) <= MaxBytes
    /\ Honest(p.files, p.missing)
    /\ p.whole /\ \A i \in 1 .. Len(p.jobs) : Treated(p.files, p.missing, p.jobs[i])

\* One request at a time holds the task (b), and its place says what it has
\* checked of the task (t), or removed of its directory (w) and package (p).
Holds(r, b, t, w, p) ==
    /\ r.step # "idle" => b
    /\ r.step \in {"open", "next", "read"} => t
    /\ r.step = "removing" => ~w /\ p = Packages!None

Here(t, w, p) ==
    /\ ~t => ~w /\ p = Packages!None
    /\ p # Packages!None => Packed(p)

PackagesInv ==
    /\ call = [c \in Callers |-> call[c]]
    /\ \A c \in Callers : Builds(call[c]) /\ Holds(call[c], busy, task, work, target)
    /\ \A c, d \in Callers : call[c].step # "idle" /\ call[d].step # "idle" => c = d
    /\ Here(task, work, target)

LEMMA NoFiles == Packages!Total(<<>>) = 0
  <1>1. AreFiles(<<>>) /\ Len(<<>>) = 0  BY EmptyIsSeq DEF AreFiles
  <1>2. PICK m : /\ m = Packages!Sizes(<<>>) /\ m[0] = 0  BY <1>1, SizesIs
  <1> QED BY <1>1, <1>2 DEF Packages!Total

LEMMA IdleBuilds ==
    ASSUME Packages!CollectAssumption
    PROVE  Builds(Packages!Idle)
  <1>1. MaxBytes \in Nat /\ MaxFiles \in Nat  BY DEF Packages!CollectAssumption
  <1>2. CallShape(Packages!Idle)  BY DEF CallShape, Call, Packages!Idle
  <1>3. AreFiles(<<>>) /\ IsSeq(<<>>) /\ Len(<<>>) = 0 /\ Honest(<<>>, {})
    BY EmptyIsSeq DEF AreFiles, Honest
  <1> QED BY <1>1, <1>2, <1>3, NoFiles DEF Builds, Packages!Idle

LEMMA PackagesStart == ASSUME Packages!CollectAssumption, Packages!Init PROVE PackagesInv
  <1>1. \A c \in Callers : call[c] = Packages!Idle  BY DEF Packages!Init
  <1>2. Packages!Idle.step = "idle"  BY DEF Packages!Idle
  <1> QED BY <1>1, <1>2, IdleBuilds DEF PackagesInv, Holds, Here, Packages!Init

\* A step of the request that holds the task, or takes it when nobody does.
LEMMA HolderStep ==
    ASSUME PackagesInv, NEW c \in Callers, NEW r, Packages!Sets(c, r),
           \A d \in Callers : d # c => call[d].step = "idle",
           Builds(r), Holds(r, busy', task', work', target'), Here(task', work', target')
    PROVE  PackagesInv'
  <1>1. /\ call' = [d \in Callers |-> call'[d]] /\ call'[c] = r
        /\ \A d \in Callers : d # c => call'[d] = call[d]
    BY DEF PackagesInv, Packages!Sets
  <1>2. \A d \in Callers : d # c => call'[d].step = "idle" /\ Builds(call'[d])
    BY <1>1 DEF PackagesInv
  <1>3. \A d \in Callers : Builds(call'[d]) /\ Holds(call'[d], busy', task', work', target')
    BY <1>1, <1>2 DEF Holds
  <1>4. \A d, e \in Callers : call'[d].step # "idle" /\ call'[e].step # "idle" => d = e
    BY <1>2
  <1> QED BY <1>1, <1>3, <1>4 DEF PackagesInv

\* Only one is not idle.
LEMMA OneHolds ==
    ASSUME PackagesInv, NEW c \in Callers, call[c].step # "idle"
    PROVE  /\ \A d \in Callers : d # c => call[d].step = "idle"
           /\ busy /\ Builds(call[c]) /\ Holds(call[c], busy, task, work, target)
           /\ Here(task, work, target)
  BY DEF PackagesInv, Holds

LEMMA NobodyHolds ==
    ASSUME PackagesInv, ~busy, NEW c \in Callers
    PROVE  /\ \A d \in Callers : call[d].step = "idle"
           /\ Here(task, work, target)
  BY DEF PackagesInv, Holds

\* The request is over.
LEMMA EndCall ==
    ASSUME Packages!CollectAssumption, PackagesInv, NEW c \in Callers,
           call[c].step # "idle", Packages!Leave(c), Here(task', work', target')
    PROVE  PackagesInv'
  <1>1. Packages!Sets(c, Packages!Idle)  BY DEF Packages!Leave
  <1>2. Holds(Packages!Idle, busy', task', work', target')
    BY DEF Holds, Packages!Idle
  <1>3. Builds(Packages!Idle)  BY IdleBuilds
  <1>4. \A d \in Callers : d # c => call[d].step = "idle"  BY OneHolds
  <1> QED BY <1>1, <1>2, <1>3, <1>4, HolderStep

\* A request that begins.
Fresh(step, modes) == Call(step, modes, <<>>, 0, <<>>, 0, <<>>, <<>>, <<>>, {}, 0)

LEMMA FreshIs ==
    ASSUME NEW modes
    PROVE  /\ [Packages!Idle EXCEPT !.step = "deleting"] = Fresh("deleting", {})
           /\ [Packages!Idle EXCEPT !.step = "asked", !.modes = modes] = Fresh("asked", modes)
  <1>1. Packages!Idle = Call("idle", {}, <<>>, 0, <<>>, 0, <<>>, <<>>, <<>>, {}, 0)
    BY DEF Packages!Idle, Call
  <1>2. PICK v : v = [Packages!Idle EXCEPT !.step = "deleting"]  OBVIOUS
  <1>6. v = Call("deleting", {}, <<>>, 0, <<>>, 0, <<>>, <<>>, <<>>, {}, 0)
    BY <1>1, <1>2 DEF Call
  <1>3. PICK q : q = [Packages!Idle EXCEPT !.step = "asked"]  OBVIOUS
  <1>4. q = Call("asked", {}, <<>>, 0, <<>>, 0, <<>>, <<>>, <<>>, {}, 0)
    BY <1>1, <1>3 DEF Call
  <1>5. PICK w : w = [q EXCEPT !.modes = modes]  OBVIOUS
  <1>7. w = Call("asked", modes, <<>>, 0, <<>>, 0, <<>>, <<>>, <<>>, {}, 0)
    BY <1>4, <1>5 DEF Call
  <1> QED BY <1>2, <1>3, <1>5, <1>6, <1>7, Zenon DEF Fresh

LEMMA AskedStep ==
    ASSUME Packages!CollectAssumption, PackagesInv, NEW c \in Callers,
           Packages!Ask(c) \/ Packages!AskDelete(c)
    PROVE  PackagesInv'
  <1>1. PICK r : /\ Packages!Sets(c, r) /\ r.step \in {"asked", "deleting"}
                 /\ \E s, modes : r = Fresh(s, modes)
    <2>1. CASE Packages!AskDelete(c)
      <3>1. Packages!Sets(c, Fresh("deleting", {}))
        BY <2>1, FreshIs, Zenon DEF Packages!AskDelete
      <3>2. Fresh("deleting", {}).step = "deleting"  BY DEF Fresh, Call
      <3> QED BY <3>1, <3>2, Zenon
    <2>2. CASE Packages!Ask(c)
      <3>1. PICK modes \in MCModes :
               Packages!Sets(c, [Packages!Idle EXCEPT !.step = "asked", !.modes = modes])
        BY <2>2, Zenon DEF Packages!Ask
      <3>3. Packages!Sets(c, Fresh("asked", modes))  BY <3>1, FreshIs, Zenon
      <3>2. Fresh("asked", modes).step = "asked"  BY DEF Fresh, Call
      <3> QED BY <3>2, <3>3, Zenon
    <2> QED BY <2>1, <2>2
  <1>3. Builds(r)
    <2>1. PICK s, modes : r = Fresh(s, modes)  BY <1>1
    <2>2. /\ CallShape(r) /\ r.files = <<>> /\ r.staged = <<>> /\ r.digest = <<>>
          /\ r.bytes = 0 /\ r.missing = {} /\ r.done = 0 /\ r.jobs = <<>>
      BY <2>1 DEF Fresh, Call, CallShape
    <2>3. /\ Packages!Idle.files = <<>> /\ Packages!Idle.staged = <<>> /\ Packages!Idle.digest = <<>>
          /\ Packages!Idle.bytes = 0 /\ Packages!Idle.missing = {} /\ Packages!Idle.done = 0
          /\ Packages!Idle.jobs = <<>>
      BY DEF Packages!Idle
    <2> QED BY <1>1, <2>2, <2>3, IdleBuilds DEF Builds
  <1>4. /\ \A d \in Callers : call[d].step = "idle"
        /\ busy' /\ UNCHANGED <<task, work, target>> /\ Here(task, work, target)
    BY NobodyHolds DEF Packages!Ask, Packages!AskDelete, Packages!Free
  <1>5. Holds(r, busy', task', work', target')  BY <1>1, <1>4 DEF Holds
  <1>6. \A d \in Callers : d # c => call[d].step = "idle"  BY <1>4
  <1>7. Here(task', work', target')  BY <1>4
  <1>8. Packages!Sets(c, r)  BY <1>1
  <1> QED BY <1>3, <1>5, <1>6, <1>7, <1>8, HolderStep

\* The request goes on with r; what is there of the task does not change.
LEMMA GoesOnWith ==
    ASSUME PackagesInv, NEW c \in Callers, call[c].step # "idle", NEW r, Packages!Sets(c, r),
           Builds(r), r.step \notin {"idle", "removing"},
           r.step \in {"open", "next", "read"} => task, UNCHANGED <<task, work, target, busy>>
    PROVE  PackagesInv'
  <1>1. \A d \in Callers : d # c => call[d].step = "idle"  BY OneHolds
  <1>2. busy /\ Here(task, work, target)  BY OneHolds
  <1>3. Holds(r, busy', task', work', target')  BY <1>2 DEF Holds
  <1>4. Here(task', work', target')  BY <1>2
  <1> QED BY <1>1, <1>3, <1>4, HolderStep

LEMMA IssueIs ==
    ASSUME NEW r, CallShape(r), NEW path, NEW why
    PROVE  LET n == Packages!Issue(r, path, why)
           IN  /\ CallShape(n) /\ n.missing = r.missing \cup {<<path, why>>}
               /\ n.step = r.step /\ n.jobs = r.jobs /\ n.done = r.done /\ n.staged = r.staged
               /\ n.digest = r.digest /\ n.files = r.files /\ n.bytes = r.bytes
  <1>1. r = Call(r.step, r.modes, r.jobs, r.done, r.opened, r.left, r.staged, r.digest,
                 r.files, r.missing, r.bytes)
    BY DEF CallShape
  <1>2. Packages!Issue(r, path, why) = [r EXCEPT !.missing = r.missing \cup {<<path, why>>}]
    BY DEF Packages!Issue
  <1>3. Packages!Issue(r, path, why) =
          Call(r.step, r.modes, r.jobs, r.done, r.opened, r.left, r.staged, r.digest,
               r.files, r.missing \cup {<<path, why>>}, r.bytes)
    BY <1>1, <1>2 DEF Call
  <1> QED BY <1>3 DEF CallShape, Call

LEMMA NextIs ==
    ASSUME NEW r, CallShape(r)
    PROVE  Packages!NextJob(r) = Call("next", r.modes, r.jobs, r.done + 1, r.opened, 0, <<>>, <<>>,
                                      r.files, r.missing, r.bytes)
  <1>1. PICK m, j, o, l, g, h, f, i, b :
           /\ r = Call(r.step, m, j, r.done, o, l, g, h, f, i, b)
           /\ m = r.modes /\ j = r.jobs /\ o = r.opened /\ f = r.files /\ i = r.missing
           /\ b = r.bytes
    BY DEF CallShape
  <1>2. PICK q : q = [r EXCEPT !.step = "next"]  OBVIOUS
  <1>3. q = Call("next", m, j, r.done, o, l, g, h, f, i, b)  BY <1>1, <1>2 DEF Call
  <1>4. PICK u : u = [q EXCEPT !.done = r.done + 1]  OBVIOUS
  <1>5. u = Call("next", m, j, r.done + 1, o, l, g, h, f, i, b)
    BY <1>3, <1>4 DEF Call
  <1>6. PICK v : v = [u EXCEPT !.staged = <<>>]  OBVIOUS
  <1>7. v = Call("next", m, j, r.done + 1, o, l, <<>>, h, f, i, b)
    BY <1>5, <1>6 DEF Call
  <1>8. PICK w : w = [v EXCEPT !.left = 0]  OBVIOUS
  <1>9. w = Call("next", m, j, r.done + 1, o, 0, <<>>, h, f, i, b)
    BY <1>7, <1>8 DEF Call
  <1>10. [w EXCEPT !.digest = <<>>] = Call("next", m, j, r.done + 1, o, 0, <<>>, <<>>, f, i, b)
    BY <1>9 DEF Call
  <1>11. Packages!NextJob(r) = [w EXCEPT !.digest = <<>>]
    BY <1>2, <1>4, <1>6, <1>8, Zenon DEF Packages!NextJob
  <1> QED BY <1>1, <1>10, <1>11, Zenon

\* What is reported only grows.
LEMMA IssueBuilds ==
    ASSUME NEW r, Builds(r), NEW path, NEW why
    PROVE  LET n == Packages!Issue(r, path, why)
           IN  /\ Builds(n) /\ n.jobs = r.jobs /\ n.done = r.done /\ n.files = r.files
               /\ n.step = r.step /\ n.missing = r.missing \cup {<<path, why>>}
               /\ \A job : job.path = path => Treated(n.files, n.missing, job)
  <1> DEFINE n == Packages!Issue(r, path, why)
  <1>1. /\ CallShape(n) /\ n.missing = r.missing \cup {<<path, why>>}
        /\ n.step = r.step /\ n.jobs = r.jobs /\ n.done = r.done /\ n.staged = r.staged
        /\ n.digest = r.digest /\ n.files = r.files /\ n.bytes = r.bytes
    BY IssueIs DEF Builds
  <1> HIDE DEF n
  <1>2. Honest(n.files, n.missing)  BY <1>1 DEF Builds, Honest
  <1>3. \A i \in 1 .. n.done : Treated(n.files, n.missing, n.jobs[i])
    BY <1>1 DEF Builds, Treated
  <1>4. \A job : job.path = path => Treated(n.files, n.missing, job)
    <2>1. <<path, why>>[1] = path /\ <<path, why>> \in n.missing  BY <1>1
    <2> QED BY <2>1 DEF Treated
  <1>5. Builds(n)  BY <1>1, <1>2, <1>3 DEF Builds
  <1> QED BY <1>1, <1>4, <1>5 DEF n

LEMMA SizesNat ==
    ASSUME NEW r, Builds(r)
    PROVE  r.bytes \in Nat /\ Len(r.staged) \in Nat
  <1>1. IsSeq(r.staged) /\ AreFiles(r.files) /\ r.bytes = Packages!Total(r.files)
    BY DEF Builds
  <1>2. Len(r.staged) \in Nat  BY <1>1, OneMore
  <1>3. Packages!Total(r.files) \in Nat
    <2>1. IsSeq([content |-> <<>>].content)  BY EmptyIsSeq
    <2> QED BY <1>1, <2>1, TotalIs
  <1> QED BY <1>1, <1>2, <1>3

\* The job is done with.
LEMMA NextBuilds ==
    ASSUME Packages!CollectAssumption, NEW r, Builds(r),
           Treated(r.files, r.missing, r.jobs[r.done + 1])
    PROVE  Builds(Packages!NextJob(r)) /\ Packages!NextJob(r).step = "next"
  <1> DEFINE n == Packages!NextJob(r)
  <1>1. /\ CallShape(n) /\ n.step = "next" /\ n.done = r.done + 1
        /\ n.staged = <<>> /\ n.digest = <<>>
        /\ n.jobs = r.jobs /\ n.files = r.files /\ n.missing = r.missing
        /\ n.bytes = r.bytes
    <2>1. n = Call("next", r.modes, r.jobs, r.done + 1, r.opened, 0, <<>>, <<>>,
                   r.files, r.missing, r.bytes)
      BY NextIs DEF Builds
    <2> HIDE DEF n
    <2> QED BY <2>1 DEF Call, CallShape
  <1> HIDE DEF n
  <1>2. n.done \in Nat /\ \A i \in 1 .. n.done : i \in 1 .. r.done \/ i = r.done + 1
    BY <1>1 DEF Builds
  <1>3. \A i \in 1 .. n.done : Treated(n.files, n.missing, n.jobs[i])
    BY <1>1, <1>2 DEF Builds
  <1>4. n.bytes + Len(n.staged) <= MaxBytes
    <2>1. r.bytes \in Nat /\ Len(r.staged) \in Nat /\ MaxBytes \in Nat
      BY SizesNat DEF Packages!CollectAssumption
    <2>2. r.bytes + Len(r.staged) <= MaxBytes  BY DEF Builds
    <2> QED BY <1>1, <2>1, <2>2, EmptyIsSeq
  <1> QED BY <1>1, <1>2, <1>3, <1>4, EmptyIsSeq DEF Builds, n

\* Fields that no property is about.
LEMMA OtherFields ==
    ASSUME NEW r, Builds(r), NEW x
    PROVE  /\ LET n == [r EXCEPT !.opened = x]
              IN  Builds(n) /\ n.jobs = r.jobs /\ n.files = r.files /\ n.missing = r.missing
                  /\ n.done = r.done /\ n.step = r.step /\ n.staged = r.staged
                  /\ n.digest = r.digest /\ n.bytes = r.bytes
           /\ LET n == [r EXCEPT !.left = x]
              IN  Builds(n) /\ n.jobs = r.jobs /\ n.files = r.files /\ n.missing = r.missing
                  /\ n.done = r.done /\ n.step = r.step /\ n.staged = r.staged
                  /\ n.digest = r.digest /\ n.bytes = r.bytes
  <1>1. PICK s, m, j, d, o, l, g, h, f, i, b :
           /\ r = Call(s, m, j, d, o, l, g, h, f, i, b)
           /\ s = r.step /\ m = r.modes /\ j = r.jobs /\ d = r.done /\ o = r.opened /\ l = r.left
           /\ g = r.staged /\ h = r.digest /\ f = r.files /\ i = r.missing /\ b = r.bytes
    BY DEF Builds, CallShape
  <1>2. PICK n : n = [r EXCEPT !.opened = x]  OBVIOUS
  <1>3. n = Call(s, m, j, d, x, l, g, h, f, i, b)  BY <1>1, <1>2 DEF Call
  <1>4. PICK v : v = [r EXCEPT !.left = x]  OBVIOUS
  <1>5. v = Call(s, m, j, d, o, x, g, h, f, i, b)  BY <1>1, <1>4 DEF Call
  <1>6. /\ CallShape(n) /\ n.jobs = r.jobs /\ n.files = r.files /\ n.missing = r.missing
        /\ n.done = r.done /\ n.step = r.step /\ n.staged = r.staged
        /\ n.digest = r.digest /\ n.bytes = r.bytes
    BY <1>1, <1>3 DEF Call, CallShape
  <1>7. /\ CallShape(v) /\ v.jobs = r.jobs /\ v.files = r.files /\ v.missing = r.missing
        /\ v.done = r.done /\ v.step = r.step /\ v.staged = r.staged
        /\ v.digest = r.digest /\ v.bytes = r.bytes
    BY <1>1, <1>5 DEF Call, CallShape
  <1>8. Builds(n)  BY <1>6 DEF Builds
  <1>9. Builds(v)  BY <1>7 DEF Builds
  <1> QED BY <1>2, <1>4, <1>6, <1>7, <1>8, <1>9, Zenon

LEMMA CheckedStep ==
    ASSUME PackagesInv, NEW c \in Callers, Packages!Checked(c)
    PROVE  PackagesInv'
  <1>1. /\ Packages!Now(c) = call[c] /\ call[c].step = "asked" /\ task
        /\ UNCHANGED <<task, work, target, busy>>
    BY DEF Packages!Checked, Packages!Now
  <1>2. Builds(call[c])  BY DEF PackagesInv
  <1>3. PICK r : r = [call[c] EXCEPT !.step = "open"]  OBVIOUS
  <1>4. Packages!Sets(c, r)  BY <1>1, <1>3, Zenon DEF Packages!Checked
  <1>5. PICK s, m, j, d, o, l, g, h, f, i, b :
           /\ call[c] = Call(s, m, j, d, o, l, g, h, f, i, b)
           /\ s = call[c].step /\ j = call[c].jobs /\ d = call[c].done /\ g = call[c].staged
           /\ h = call[c].digest /\ f = call[c].files /\ i = call[c].missing /\ b = call[c].bytes
    BY <1>2 DEF Builds, CallShape
  <1>6. r = Call("open", m, j, d, o, l, g, h, f, i, b)  BY <1>3, <1>5 DEF Call
  <1>7. /\ CallShape(r) /\ r.step = "open" /\ r.jobs = call[c].jobs /\ r.done = call[c].done
        /\ r.staged = call[c].staged /\ r.digest = call[c].digest /\ r.files = call[c].files
        /\ r.missing = call[c].missing /\ r.bytes = call[c].bytes
    BY <1>5, <1>6 DEF Call, CallShape
  <1>8. Builds(r)  BY <1>1, <1>2, <1>7 DEF Builds
  <1> QED BY <1>1, <1>4, <1>7, <1>8, GoesOnWith

LEMMA BegunWith ==
    ASSUME NEW r, Builds(r), r.step = "open", NEW x
    PROVE  LET n == [[r EXCEPT !.step = "next"] EXCEPT !.jobs = x]
           IN  Builds(n) /\ n.step = "next"
  <1>1. PICK s, m, j, d, o, l, g, h, f, i, b :
           /\ r = Call(s, m, j, d, o, l, g, h, f, i, b)
           /\ s = r.step /\ m = r.modes /\ j = r.jobs /\ d = r.done /\ o = r.opened /\ l = r.left
           /\ g = r.staged /\ h = r.digest /\ f = r.files /\ i = r.missing /\ b = r.bytes
    BY DEF Builds, CallShape
  <1>2. PICK q : q = [r EXCEPT !.step = "next"]  OBVIOUS
  <1>3. q = Call("next", m, j, d, o, l, g, h, f, i, b)  BY <1>1, <1>2 DEF Call
  <1>4. PICK n : n = [q EXCEPT !.jobs = x]  OBVIOUS
  <1>5. n = Call("next", m, x, d, o, l, g, h, f, i, b)  BY <1>3, <1>4 DEF Call
  <1>6. /\ CallShape(n) /\ n.step = "next" /\ n.done = r.done /\ n.staged = r.staged
        /\ n.digest = r.digest /\ n.files = r.files /\ n.missing = r.missing /\ n.bytes = r.bytes
    BY <1>1, <1>5 DEF Call, CallShape
  <1>7. r.done = 0 /\ \A i1 \in 1 .. 0 : FALSE  BY DEF Builds
  <1>8. Builds(n)  BY <1>6, <1>7 DEF Builds
  <1> QED BY <1>2, <1>4, <1>6, <1>8, Zenon

LEMMA OpenedStep ==
    ASSUME PackagesInv, NEW c \in Callers, Packages!Open(c)
    PROVE  PackagesInv'
  <1>1. /\ call[c].step = "open" /\ work' = TRUE /\ UNCHANGED <<task, target, busy>>
    BY DEF Packages!Open, Packages!Now
  <1>2. /\ Builds(call[c]) /\ task /\ busy /\ Here(task, work, target)
        /\ \A d \in Callers : d # c => call[d].step = "idle"
    BY <1>1, OneHolds DEF Holds
  <1>3. PICK r : Packages!Sets(c, r) /\ Builds(r) /\ r.step = "next"
    <2>1. ASSUME NEW J, Packages!Sets(c, [[call[c] EXCEPT !.step = "next"] EXCEPT !.jobs = J])
          PROVE  \E r : Packages!Sets(c, r) /\ Builds(r) /\ r.step = "next"
      BY <1>1, <1>2, <2>1, BegunWith, Zenon
    <2>2. ASSUME NEW J, Packages!Sets(c, Packages!Issue([[call[c] EXCEPT !.step = "next"]
                                                            EXCEPT !.jobs = J], 0, "scan_failed"))
          PROVE  \E r : Packages!Sets(c, r) /\ Builds(r) /\ r.step = "next"
      <3>1. PICK q : q = [[call[c] EXCEPT !.step = "next"] EXCEPT !.jobs = J]
        OBVIOUS
      <3>2. Builds(q) /\ q.step = "next"  BY <1>1, <1>2, <3>1, BegunWith, Zenon
      <3>3. Builds(Packages!Issue(q, 0, "scan_failed"))
            /\ Packages!Issue(q, 0, "scan_failed").step = "next"
        BY <3>2, IssueBuilds
      <3> QED BY <2>2, <3>1, <3>3, Zenon
    <2> QED BY <2>1, <2>2, Zenon DEF Packages!Open, Packages!Now
  <1>4. Holds(r, busy', task', work', target')  BY <1>1, <1>2, <1>3 DEF Holds
  <1>5. Here(task', work', target')  BY <1>1, <1>2 DEF Here
  <1> QED BY <1>2, <1>3, <1>4, <1>5, HolderStep

LEMMA IssuedNext ==
    ASSUME Packages!CollectAssumption, NEW r, Builds(r), NEW job, job = r.jobs[r.done + 1],
           NEW why
    PROVE  LET n == Packages!NextJob(Packages!Issue(r, job.path, why))
           IN  Builds(n) /\ n.step = "next"
  <1>1. PICK q : q = Packages!Issue(r, job.path, why)  OBVIOUS
  <1>2. Builds(q) /\ q.jobs = r.jobs /\ q.done = r.done  BY <1>1, IssueBuilds
  <1>4. Treated(q.files, q.missing, job)  BY <1>1, IssueBuilds
  <1>3. Treated(q.files, q.missing, q.jobs[q.done + 1])  BY <1>2, <1>4
  <1> QED BY <1>1, <1>2, <1>3, NextBuilds, Zenon

LEMMA AddedStep ==
    ASSUME Packages!CollectAssumption, PackagesInv, NEW c \in Callers, Packages!AddFile(c)
    PROVE  PackagesInv'
  <1> DEFINE x == Append(call[c].opened, source[Packages!Job0(c).path])
             size == Len(source[Packages!Job0(c).path])
  <1>1. call[c].step = "next" /\ UNCHANGED <<task, work, target, busy>>
    BY DEF Packages!AddFile, Packages!Now
  <1>2. Builds(call[c]) /\ task  BY <1>1 DEF PackagesInv, Holds
  <1>3. PICK r : r = [call[c] EXCEPT !.opened = x]  OBVIOUS
  <1>4. /\ Builds(r) /\ r.jobs = call[c].jobs /\ r.files = call[c].files
        /\ r.missing = call[c].missing /\ r.done = call[c].done /\ r.step = call[c].step
    BY <1>2, <1>3, OtherFields, Zenon
  <1>5. PICK job : job = r.jobs[r.done + 1]  OBVIOUS
  <1>6. Packages!Job0(c) = job /\ Packages!Now(c) = call[c]
    BY <1>4, <1>5, Zenon DEF Packages!Job0, Packages!Now
  <1>7. PICK n : /\ Packages!Sets(c, n)
                 /\ \/ Packages!Written(r, job) /\ n = Packages!NextJob(r)
                    \/ \E why : n = Packages!NextJob(Packages!Issue(r, job.path, why))
                    \/ /\ ~(Len(r.files) >= MaxFiles)
                       /\ n = [r EXCEPT !.step = "read", !.left = size]
    <2>1. r = [Packages!Now(c) EXCEPT !.opened = Append(@, source[Packages!Job0(c).path])]
      BY <1>3, <1>6
    <2> QED BY <1>6, <2>1 DEF Packages!AddFile
  <1>8. Builds(n) /\ n.step \in {"next", "read"}
    <2>1. CASE Packages!Written(r, job) /\ n = Packages!NextJob(r)
      <3>1. Treated(r.files, r.missing, r.jobs[r.done + 1])
        BY <1>5, <2>1 DEF Treated, Copied, Packages!Written
      <3> QED BY <1>4, <2>1, <3>1, NextBuilds
    <2>2. ASSUME NEW why, n = Packages!NextJob(Packages!Issue(r, job.path, why))
          PROVE  Builds(n) /\ n.step = "next"
      BY <1>4, <1>5, <2>2, IssuedNext
    <2>3. CASE ~(Len(r.files) >= MaxFiles) /\ n = [r EXCEPT !.step = "read", !.left = size]
      <3>1. Len(r.files) < MaxFiles
        <4>1. Len(r.files) \in Nat /\ MaxFiles \in Nat
          BY <1>4, OneMore DEF Builds, AreFiles, Packages!CollectAssumption
        <4> QED BY <2>3, <4>1
      <3>2. PICK q : q = [r EXCEPT !.step = "read"]  OBVIOUS
      <3>3. Builds(q) /\ q.step = "read"
        <4>1. PICK s, m, j, d, o, l, g, h, f, i, b :
                 /\ r = Call(s, m, j, d, o, l, g, h, f, i, b)
                 /\ j = r.jobs /\ d = r.done /\ g = r.staged
                 /\ h = r.digest /\ f = r.files /\ i = r.missing /\ b = r.bytes
          BY <1>4 DEF Builds, CallShape
        <4>2. q = Call("read", m, j, d, o, l, g, h, f, i, b)  BY <3>2, <4>1 DEF Call
        <4>3. /\ CallShape(q) /\ q.step = "read" /\ q.jobs = r.jobs /\ q.done = r.done
              /\ q.staged = r.staged /\ q.digest = r.digest /\ q.files = r.files
              /\ q.missing = r.missing /\ q.bytes = r.bytes
          BY <4>1, <4>2 DEF Call, CallShape
        <4> QED BY <1>4, <3>1, <4>3 DEF Builds
      <3>4. n = [q EXCEPT !.left = size]  BY <2>3, <3>2, Zenon
      <3> QED BY <3>3, <3>4, OtherFields, Zenon
    <2> QED BY <1>7, <2>1, <2>2, <2>3
  <1> QED BY <1>1, <1>2, <1>7, <1>8, GoesOnWith

\* A block more is staged, and hashed.
LEMMA StagedBuilds ==
    ASSUME Packages!CollectAssumption, NEW u, Builds(u), u.step = "read", NEW block, NEW job,
           ~Packages!Overflows(u, job)
    PROVE  LET n == [[u EXCEPT !.staged = Append(u.staged, block)]
                        EXCEPT !.digest = Append(u.digest, block)]
           IN  Builds(n) /\ n.step = "read"
  <1>3. PICK s, m, j, d, o, l, g, h, f, i, b :
           /\ u = Call(s, m, j, d, o, l, g, h, f, i, b)
           /\ s = u.step /\ j = u.jobs /\ d = u.done /\ f = u.files /\ i = u.missing
           /\ b = u.bytes
    BY DEF Builds, CallShape
  <1>4. PICK more : more = Append(u.staged, block)  OBVIOUS
  <1>5. PICK v : v = [u EXCEPT !.staged = more]  OBVIOUS
  <1>6. v = Call(s, m, j, d, o, l, more, h, f, i, b)  BY <1>3, <1>5 DEF Call
  <1>7. PICK n : n = [v EXCEPT !.digest = more]  OBVIOUS
  <1>8. n = Call(s, m, j, d, o, l, more, more, f, i, b)  BY <1>6, <1>7 DEF Call
  <1>9. /\ CallShape(n) /\ n.step = u.step /\ n.jobs = u.jobs /\ n.done = u.done
        /\ n.staged = more /\ n.digest = more /\ n.files = u.files
        /\ n.missing = u.missing /\ n.bytes = u.bytes
    BY <1>3, <1>8 DEF Call, CallShape
  <1>10. IsSeq(more) /\ n.bytes + Len(more) <= MaxBytes
    <2>1. IsSeq(u.staged)  BY DEF Builds
    <2>2. IsSeq(more) /\ Len(more) = Len(u.staged) + 1  BY <1>4, <2>1, OneMore
    <2>3. u.bytes \in Nat /\ Len(u.staged) \in Nat /\ MaxBytes \in Nat
      BY SizesNat DEF Packages!CollectAssumption
    <2>4. ~(u.bytes + Len(u.staged) + 1 > MaxBytes)  BY DEF Packages!Overflows
    <2> QED BY <1>9, <2>2, <2>3, <2>4
  <1>11. Builds(n)  BY <1>9, <1>10 DEF Builds
  <1>12. Append(u.digest, block) = more  BY <1>4 DEF Builds
  <1> QED BY <1>4, <1>5, <1>7, <1>9, <1>11, <1>12, Zenon

LEMMA ReadingStep ==
    ASSUME Packages!CollectAssumption, PackagesInv, NEW c \in Callers,
           Packages!Read(c) \/ Packages!ReadFails(c)
    PROVE  PackagesInv'
  <1>1. call[c].step = "read" /\ UNCHANGED <<task, work, target, busy>>
    BY DEF Packages!Read, Packages!ReadFails, Packages!Now
  <1>2. Builds(call[c]) /\ task  BY <1>1 DEF PackagesInv, Holds
  <1>3. PICK r : r = call[c]  OBVIOUS
  <1>4. PICK job : job = r.jobs[r.done + 1]  OBVIOUS
  <1>5. Packages!Job0(c) = job /\ Packages!Now(c) = r
    BY <1>3, <1>4, Zenon DEF Packages!Job0, Packages!Now
  <1> DEFINE rest == [r EXCEPT !.left = r.left - 1]
  <1>6. PICK n : /\ Packages!Sets(c, n)
                 /\ \/ \E why : n = Packages!NextJob(Packages!Issue(r, job.path, why))
                    \/ n = rest
                    \/ \E why : n = Packages!Issue([r EXCEPT !.left = 0], job.path, why)
                    \/ /\ ~Packages!Overflows(r, job)
                       /\ \E block : n = [rest EXCEPT !.staged = Append(@, block),
                                                      !.digest = Packages!Digest(r, block)]
    <2>1. CASE Packages!ReadFails(c)  BY <1>5, <2>1, Zenon DEF Packages!ReadFails
    <2>2. CASE Packages!Read(c)  BY <1>5, <2>2 DEF Packages!Read, Packages!InWindow
    <2> QED BY <2>1, <2>2
  <1>8. Builds(r) /\ r.step = "read"  BY <1>1, <1>2, <1>3
  <1>7. Builds(n) /\ n.step \in {"next", "read"}
    <2>1. ASSUME NEW why, n = Packages!NextJob(Packages!Issue(r, job.path, why))
          PROVE  Builds(n) /\ n.step = "next"
      BY <1>2, <1>3, <1>4, <2>1, IssuedNext
    <2>2. CASE n = rest
      <3>1. PICK q : q = rest  OBVIOUS
      <3>2. Builds(q) /\ q.step = "read"  BY <1>8, <3>1, OtherFields, Zenon
      <3> QED BY <2>2, <3>1, <3>2, Zenon
    <2>3. ASSUME NEW why, n = Packages!Issue([r EXCEPT !.left = 0], job.path, why)
          PROVE  Builds(n) /\ n.step = "read"
      <3>1. PICK q : q = [r EXCEPT !.left = 0]  OBVIOUS
      <3>2. Builds(q) /\ q.step = "read"  BY <1>8, <3>1, OtherFields, Zenon
      <3>3. n = Packages!Issue(q, job.path, why)  BY <2>3, <3>1, Zenon
      <3> QED BY <3>2, <3>3, IssueBuilds
    <2>4. ASSUME NEW block, ~Packages!Overflows(r, job),
                 n = [rest EXCEPT !.staged = Append(@, block), !.digest = Packages!Digest(r, block)]
          PROVE  Builds(n) /\ n.step = "read"
      <3>1. PICK u : u = rest  OBVIOUS
      <3>2. /\ Builds(u) /\ u.step = "read" /\ u.staged = r.staged /\ u.digest = r.digest
            /\ u.bytes = r.bytes
        BY <1>8, <3>1, OtherFields, Zenon
      <3>3. ~Packages!Overflows(u, job)  BY <2>4, <3>2 DEF Packages!Overflows
      <3>4. n = [[u EXCEPT !.staged = Append(u.staged, block)]
                    EXCEPT !.digest = Append(u.digest, block)]
        BY <2>4, <3>1, <3>2, Zenon DEF Packages!Digest
      <3> QED BY <3>2, <3>3, <3>4, StagedBuilds, Zenon
    <2> QED BY <1>6, <2>1, <2>2, <2>3, <2>4
  <1> QED BY <1>1, <1>2, <1>6, <1>7, GoesOnWith

\* The staged file enters the package, as e.
LEMMA EnteredBuilds ==
    ASSUME Packages!CollectAssumption, NEW q, Builds(q), q.step = "read",
           NEW e, e.content = q.staged, e.sha = q.staged,
           e.expected # Packages!Absent /\ e.expected # q.staged =>
              <<e.path, "content_changed">> \in q.missing,
           e.mode = q.jobs[q.done + 1].mode, e.path = q.jobs[q.done + 1].path
    PROVE  LET n == Packages!NextJob([[q EXCEPT !.files = Append(q.files, e)]
                                         EXCEPT !.bytes = q.bytes + Len(q.staged)])
           IN  Builds(n) /\ n.step = "next"
  <1>1. PICK s, m, j, d, o, l, g, h, f, i, b :
           /\ q = Call(s, m, j, d, o, l, g, h, f, i, b)
           /\ j = q.jobs /\ d = q.done /\ i = q.missing
    BY DEF Builds, CallShape
  <1>2. PICK files : files = Append(q.files, e)  OBVIOUS
  <1>3. PICK u : u = [q EXCEPT !.files = files]  OBVIOUS
  <1>4. u = Call(s, m, j, d, o, l, g, h, files, i, b)  BY <1>1, <1>3 DEF Call
  <1>5. PICK bytes : bytes = q.bytes + Len(q.staged)  OBVIOUS
  <1>6. PICK v : v = [u EXCEPT !.bytes = bytes]  OBVIOUS
  <1>7. v = Call(s, m, j, d, o, l, g, h, files, i, bytes)  BY <1>4, <1>6 DEF Call
  <1>8. /\ CallShape(v) /\ v.jobs = q.jobs /\ v.done = q.done /\ v.missing = q.missing
        /\ v.files = files /\ v.bytes = bytes
    BY <1>1, <1>7 DEF Call, CallShape
  <1>9. PICK n : n = Packages!NextJob(v)  OBVIOUS
  <1>10. /\ CallShape(n) /\ n.step = "next" /\ n.done = q.done + 1
         /\ n.staged = <<>> /\ n.digest = <<>>
         /\ n.jobs = q.jobs /\ n.files = files /\ n.missing = q.missing /\ n.bytes = bytes
    <2>1. n = Call("next", v.modes, v.jobs, v.done + 1, v.opened, 0, <<>>, <<>>,
                   v.files, v.missing, v.bytes)
      BY <1>8, <1>9, NextIs, Zenon
    <2> QED BY <1>8, <2>1 DEF Call, CallShape
  <1>11. /\ AreFiles(files) /\ Packages!Total(files) = bytes /\ bytes \in Nat
         /\ bytes <= MaxBytes
    <2>1. AreFiles(q.files) /\ IsSeq(e.content) /\ q.bytes = Packages!Total(q.files)
      BY DEF Builds
    <2>2. AreFiles(files) /\ Packages!Total(files) = q.bytes + Len(q.staged)
      BY <1>2, <2>1, TotalIs
    <2>3. q.bytes \in Nat /\ Len(q.staged) \in Nat /\ q.bytes + Len(q.staged) <= MaxBytes
      BY SizesNat DEF Builds
    <2> QED BY <1>5, <2>2, <2>3
  <1>12. /\ Len(q.files) \in Nat /\ DOMAIN q.files = 1 .. Len(q.files)
         /\ Len(files) = Len(q.files) + 1 /\ DOMAIN files = 1 .. Len(q.files) + 1
         /\ \A k \in 1 .. Len(q.files) : files[k] = q.files[k]
         /\ files[Len(q.files) + 1] = e
    <2>1. IsSeq(q.files)  BY DEF Builds, AreFiles
    <2> QED BY <1>2, <2>1, OneMore
  <1>13. \A k \in DOMAIN files : \/ k \in DOMAIN q.files /\ files[k] = q.files[k]
                                 \/ k = Len(q.files) + 1 /\ files[k] = e
    BY <1>12
  <1>14. Honest(files, q.missing)
    <2>1. Honest(q.files, q.missing)  BY DEF Builds
    <2>2. SUFFICES ASSUME NEW k \in DOMAIN files
                   PROVE  /\ files[k].sha = files[k].content
                          /\ files[k].expected # Packages!Absent
                             /\ files[k].expected # files[k].content =>
                                <<files[k].path, "content_changed">> \in q.missing
      BY DEF Honest
    <2>3. CASE k \in DOMAIN q.files /\ files[k] = q.files[k]
      BY <2>1, <2>3 DEF Honest
    <2>4. CASE files[k] = e  BY <2>4
    <2> QED BY <1>13, <2>3, <2>4
  <1>15. \A k \in 1 .. n.done : Treated(files, q.missing, q.jobs[k])
    <2>1. ASSUME NEW k \in 1 .. q.done
          PROVE  Treated(files, q.missing, q.jobs[k])
      <3>1. Treated(q.files, q.missing, q.jobs[k])  BY DEF Builds
      <3>2. Copied(q.files, q.jobs[k]) => Copied(files, q.jobs[k])
        <4>1. \A x \in DOMAIN q.files : x \in DOMAIN files /\ files[x] = q.files[x]
          BY <1>12
        <4> QED BY <4>1 DEF Copied
      <3> QED BY <3>1, <3>2 DEF Treated
    <2>2. Treated(files, q.missing, q.jobs[q.done + 1])
      <3>1. Len(q.files) + 1 \in DOMAIN files  BY <1>12
      <3>2. Copied(files, q.jobs[q.done + 1])  BY <1>12, <3>1 DEF Copied
      <3> QED BY <3>2 DEF Treated
    <2>3. \A k \in 1 .. n.done : k \in 1 .. q.done \/ k = q.done + 1
      BY <1>10 DEF Builds
    <2> QED BY <2>1, <2>2, <2>3
  <1>16. n.bytes + Len(n.staged) <= MaxBytes
    BY <1>10, <1>11, EmptyIsSeq DEF Packages!CollectAssumption
  <1>17. Len(files) <= MaxFiles /\ n.done \in Nat
    <2>1. MaxFiles \in Nat /\ Len(q.files) < MaxFiles
      BY DEF Builds, Packages!CollectAssumption
    <2> QED BY <1>10, <1>12, <2>1 DEF Builds
  <1>18. Builds(n)
    BY <1>10, <1>11, <1>14, <1>15, <1>16, <1>17, EmptyIsSeq DEF Builds
  <1> QED BY <1>2, <1>3, <1>5, <1>6, <1>9, <1>10, <1>18, Zenon

LEMMA StoredStep ==
    ASSUME Packages!CollectAssumption, PackagesInv, NEW c \in Callers, Packages!Store(c)
    PROVE  PackagesInv'
  <1>1. call[c].step = "read" /\ UNCHANGED <<task, work, target, busy>>
    BY DEF Packages!Store, Packages!Now
  <1>2. Builds(call[c]) /\ task  BY <1>1 DEF PackagesInv, Holds
  <1>3. PICK r : r = call[c]  OBVIOUS
  <1>4. PICK job : job = r.jobs[r.done + 1]  OBVIOUS
  <1>5. Packages!Job0(c) = job /\ Packages!Now(c) = r
    BY <1>3, <1>4, Zenon DEF Packages!Job0, Packages!Now
  <1>6. Builds(r) /\ r.step = "read" /\ r.digest = r.staged
    BY <1>1, <1>2, <1>3 DEF Builds
  <1>7. PICK e : e = [mode |-> job.mode, path |-> job.path, content |-> r.staged,
                      sha |-> r.digest, expected |-> job.expected]
    OBVIOUS
  <1>8. /\ e.content = r.staged /\ e.sha = r.staged /\ e.mode = job.mode /\ e.path = job.path
        /\ e.expected = job.expected
    BY <1>6, <1>7
  <1>9. PICK noted :
          noted = IF job.expected # Packages!Absent /\ r.digest # job.expected
                  THEN Packages!Issue(r, job.path, "content_changed") ELSE r
    OBVIOUS
  <1>10. /\ Builds(noted) /\ noted.step = "read" /\ noted.jobs = r.jobs /\ noted.done = r.done
         /\ noted.staged = r.staged /\ noted.bytes = r.bytes /\ noted.files = r.files
         /\ job.expected # Packages!Absent /\ job.expected # r.staged =>
               <<job.path, "content_changed">> \in noted.missing
    <2>1. CASE job.expected # Packages!Absent /\ r.digest # job.expected
      <3>1. noted = Packages!Issue(r, job.path, "content_changed")  BY <1>9, <2>1
      <3>2. Builds(noted)  BY <1>6, <3>1, IssueBuilds
      <3>3. /\ noted.step = "read" /\ noted.jobs = r.jobs /\ noted.done = r.done
            /\ noted.staged = r.staged /\ noted.bytes = r.bytes /\ noted.files = r.files
            /\ noted.missing = r.missing \cup {<<job.path, "content_changed">>}
        BY <1>6, <3>1, IssueIs DEF Builds
      <3> QED BY <3>2, <3>3
    <2>2. CASE ~(job.expected # Packages!Absent /\ r.digest # job.expected)
      BY <1>6, <1>9, <2>2
    <2> QED BY <2>1, <2>2
  <1>11. PICK n : /\ Packages!Sets(c, n)
                  /\ \/ job.windows # {} /\ n = Packages!NextJob(r)
                     \/ n = Packages!NextJob([noted EXCEPT !.files = Append(@, e),
                                                           !.bytes = @ + Len(r.staged)])
    BY <1>5, <1>7, <1>9 DEF Packages!Store
  <1>12. Builds(n) /\ n.step = "next"
    <2>1. CASE job.windows # {} /\ n = Packages!NextJob(r)
      <3>1. Treated(r.files, r.missing, r.jobs[r.done + 1])
        BY <1>4, <2>1 DEF Treated
      <3> QED BY <1>6, <2>1, <3>1, NextBuilds
    <2>2. CASE n = Packages!NextJob([noted EXCEPT !.files = Append(@, e),
                                                  !.bytes = @ + Len(r.staged)])
      <3>1. n = Packages!NextJob([[noted EXCEPT !.files = Append(noted.files, e)]
                                     EXCEPT !.bytes = noted.bytes + Len(noted.staged)])
        <4>1. PICK u : u = [noted EXCEPT !.files = Append(noted.files, e)]  OBVIOUS
        <4>2. u.bytes = noted.bytes  BY <4>1
        <4> QED BY <1>10, <2>2, <4>1, <4>2, Zenon
      <3>2. /\ e.expected # Packages!Absent /\ e.expected # noted.staged =>
                  <<e.path, "content_changed">> \in noted.missing
            /\ e.content = noted.staged /\ e.sha = noted.staged
            /\ e.mode = noted.jobs[noted.done + 1].mode /\ e.path = noted.jobs[noted.done + 1].path
        BY <1>4, <1>8, <1>10
      <3> QED BY <1>10, <3>1, <3>2, EnteredBuilds, Zenon
    <2> QED BY <1>11, <2>1, <2>2
  <1> QED BY <1>1, <1>2, <1>11, <1>12, GoesOnWith

LEMMA FinishedStep ==
    ASSUME Packages!CollectAssumption, PackagesInv, NEW c \in Callers,
           Packages!NothingCollected(c) \/ Packages!DiskFull(c) \/ Packages!Finish(c)
    PROVE  PackagesInv'
  <1>1. /\ call[c].step \in {"next", "read"} /\ Packages!Leave(c)
        /\ UNCHANGED <<task, work>>
    BY DEF Packages!NothingCollected, Packages!DiskFull, Packages!Finish, Packages!Abandon,
           Packages!Now
  <1>2. Builds(call[c]) /\ task /\ Here(task, work, target)
    BY <1>1, OneHolds DEF Holds
  <1>3. Here(task', work', target')
    <2>1. CASE UNCHANGED target  BY <1>1, <1>2, <2>1
    <2>2. CASE Packages!Finish(c) /\ target' # target
      <3>1. PICK r : r = call[c]  OBVIOUS
      <3>2. target' = Packages!Package(r) /\ r.done = Len(r.jobs)
        BY <2>2, <3>1, Zenon DEF Packages!Finish, Packages!Now
      <3>3. PICK p : p = Packages!Package(r)  OBVIOUS
      <3>4. /\ p.files = r.files /\ p.missing = r.missing /\ p.jobs = r.jobs
            /\ p.whole = (r.done = Len(r.jobs))
        BY <3>3 DEF Packages!Package
      <3>5. Builds(r)  BY <1>2, <3>1
      <3>6. Packages!Total(r.files) <= MaxBytes
        <4>1. r.bytes \in Nat /\ Len(r.staged) \in Nat /\ MaxBytes \in Nat
          BY <3>5, SizesNat DEF Packages!CollectAssumption
        <4>2. r.bytes + Len(r.staged) <= MaxBytes /\ r.bytes = Packages!Total(r.files)
          BY <3>5 DEF Builds
        <4> QED BY <4>1, <4>2
      <3>7. Packed(p)
        <4>1. /\ Len(r.files) <= MaxFiles /\ Honest(r.files, r.missing)
              /\ \A i \in 1 .. r.done : Treated(r.files, r.missing, r.jobs[i])
          BY <3>5 DEF Builds
        <4>2. p.whole  BY <3>2, <3>4
        <4> QED BY <3>2, <3>4, <3>6, <4>1, <4>2 DEF Packed
      <3> QED BY <1>1, <1>2, <3>2, <3>3, <3>7 DEF Here
    <2> QED BY <2>1, <2>2 DEF Packages!NothingCollected, Packages!DiskFull, Packages!Abandon
  <1>4. call[c].step # "idle"  BY <1>1
  <1> QED BY <1>1, <1>3, <1>4, EndCall

\* The task is gone before it is read, or after it was removed, or stays.
LEMMA OverStep ==
    ASSUME Packages!CollectAssumption, PackagesInv, NEW c \in Callers,
           Packages!NoTask(c) \/ Packages!RemoveTask(c) \/ Packages!RemoveFails(c)
    PROVE  PackagesInv'
  <1>1. /\ call[c].step \in {"asked", "deleting", "removing"} /\ Packages!Leave(c)
        /\ UNCHANGED <<work, target>>
    BY DEF Packages!NoTask, Packages!RemoveTask, Packages!RemoveFails, Packages!Now
  <1>2. Holds(call[c], busy, task, work, target) /\ Here(task, work, target)
    BY <1>1, OneHolds
  <1>3. Here(task', work', target')
    <2>1. CASE Packages!RemoveTask(c)
      <3>1. call[c].step = "removing" /\ task' = FALSE
        BY <2>1 DEF Packages!RemoveTask, Packages!Now
      <3> QED BY <1>1, <1>2, <3>1 DEF Holds, Here
    <2>2. CASE Packages!NoTask(c) \/ Packages!RemoveFails(c)
      <3>1. task' = task  BY <2>2 DEF Packages!NoTask, Packages!RemoveFails
      <3> QED BY <1>1, <1>2, <3>1
    <2> QED BY <2>1, <2>2
  <1>4. call[c].step # "idle"  BY <1>1
  <1> QED BY <1>1, <1>3, <1>4, EndCall

LEMMA RemovingStep ==
    ASSUME PackagesInv, NEW c \in Callers, Packages!RemoveWork(c)
    PROVE  PackagesInv'
  <1>1. /\ call[c].step = "deleting" /\ work' = FALSE /\ target' = Packages!None
        /\ UNCHANGED <<task, busy>>
    BY DEF Packages!RemoveWork, Packages!Now
  <1>2. /\ Builds(call[c]) /\ busy
        /\ \A d \in Callers : d # c => call[d].step = "idle"
    BY <1>1, OneHolds
  <1>3. PICK r : r = [call[c] EXCEPT !.step = "removing"]  OBVIOUS
  <1>4. Packages!Sets(c, r)  BY <1>3, Zenon DEF Packages!RemoveWork, Packages!Now
  <1>5. PICK s, m, j, d, o, l, g, h, f, i, b :
           /\ call[c] = Call(s, m, j, d, o, l, g, h, f, i, b)
           /\ s = call[c].step /\ j = call[c].jobs /\ d = call[c].done /\ g = call[c].staged
           /\ h = call[c].digest /\ f = call[c].files /\ i = call[c].missing /\ b = call[c].bytes
    BY <1>2 DEF Builds, CallShape
  <1>6. r = Call("removing", m, j, d, o, l, g, h, f, i, b)  BY <1>3, <1>5 DEF Call
  <1>7. /\ CallShape(r) /\ r.step = "removing" /\ r.jobs = call[c].jobs /\ r.done = call[c].done
        /\ r.staged = call[c].staged /\ r.digest = call[c].digest /\ r.files = call[c].files
        /\ r.missing = call[c].missing /\ r.bytes = call[c].bytes
    BY <1>5, <1>6 DEF Call, CallShape
  <1>8. Builds(r)  BY <1>2, <1>7 DEF Builds
  <1>9. Holds(r, busy', task', work', target')  BY <1>1, <1>2, <1>7 DEF Holds
  <1>10. Here(task', work', target')  BY <1>1 DEF Here
  <1> QED BY <1>2, <1>4, <1>8, <1>9, <1>10, HolderStep

LEMMA CrashStep ==
    ASSUME Packages!CollectAssumption, PackagesInv, Packages!Crash
    PROVE  PackagesInv'
  <1>1. /\ call' = [c \in Callers |-> Packages!Idle] /\ UNCHANGED <<task, work, target>>
    BY DEF Packages!Crash
  <1>2. \A c \in Callers : call'[c] = Packages!Idle  BY <1>1
  <1>3. Packages!Idle.step = "idle"  BY DEF Packages!Idle
  <1>4. call' = [c \in Callers |-> call'[c]]  BY <1>1
  <1>5. \A c \in Callers : Holds(call'[c], busy', task', work', target')
    BY <1>2, <1>3 DEF Holds
  <1>6. Here(task', work', target')  BY <1>1 DEF PackagesInv
  <1> QED BY <1>2, <1>3, <1>4, <1>5, <1>6, IdleBuilds DEF PackagesInv

LEMMA PackagesSteps ==
    ASSUME Packages!CollectAssumption, PackagesInv, [Packages!Next]_packageVars
    PROVE  PackagesInv'
  <1>1. CASE UNCHANGED <<task, work, target, busy, call>>  BY <1>1 DEF PackagesInv
  <1>2. CASE Packages!Crash  BY <1>2, CrashStep
  <1>3. ASSUME NEW c \in Callers, Packages!Collect(c) \/ Packages!Delete(c)
        PROVE  PackagesInv'
    BY <1>3, AskedStep, OverStep, CheckedStep, OpenedStep, AddedStep, ReadingStep, StoredStep,
       FinishedStep, RemovingStep DEF Packages!Collect, Packages!Delete
  <1>4. CASE Packages!Change  BY <1>1, <1>4 DEF Packages!Change
  <1>5. CASE UNCHANGED packageVars  BY <1>1, <1>5 DEF packageVars
  <1> QED BY <1>2, <1>3, <1>4, <1>5 DEF Packages!Next

\* What the invariant says of the package that is there.
WholeFilesAccounted ==
    target # Packages!None =>
        \A i \in 1 .. Len(target.jobs) :
            LET job == target.jobs[i]
            IN  job.windows = {} =>
                   Packages!Reported(target, job.path) \/ Packages!EntriesOf(target, job) # {}

LEMMA PackagesAreSound ==
    ASSUME PackagesInv
    PROVE  /\ Packages!HashesTrue /\ Packages!WithinLimits /\ Packages!NothingComesBack
           /\ WholeFilesAccounted
  <1>1. Here(task, work, target)  BY DEF PackagesInv
  <1>2. Packages!NothingComesBack  BY <1>1 DEF Here, Packages!NothingComesBack
  <1>3. ASSUME target # Packages!None
        PROVE  Packed(target)
    BY <1>1, <1>3 DEF Here
  <1>4. Packages!HashesTrue  BY <1>3 DEF Packed, Honest, Packages!HashesTrue
  <1>5. Packages!WithinLimits  BY <1>3 DEF Packed, Packages!WithinLimits
  <1>6. WholeFilesAccounted
    <2>1. ASSUME target # Packages!None, NEW i \in 1 .. Len(target.jobs),
                 NEW job, job = target.jobs[i], job.windows = {}
          PROVE  Packages!Reported(target, job.path) \/ Packages!EntriesOf(target, job) # {}
      <3>1. Treated(target.files, target.missing, job)  BY <1>3, <2>1 DEF Packed
      <3> QED BY <2>1, <3>1 DEF Treated, Copied, Packages!Reported, Packages!EntriesOf
    <2> QED BY <2>1, Zenon DEF WholeFilesAccounted
  <1> QED BY <1>2, <1>4, <1>5, <1>6

LEMMA PackageStays ==
    ASSUME [Packages!Next]_packageVars
    PROVE  Packages!PackageKeptByStep
  <1>1. CASE UNCHANGED target  BY <1>1 DEF Packages!PackageKeptByStep
  <1>2. ASSUME NEW c \in Callers, Packages!Finish(c), target' # target
        PROVE  Packages!PackageKeptByStep
    <2>1. target' = Packages!Package(call[c]) /\ call[c].done = Len(call[c].jobs)
      BY <1>2, Zenon DEF Packages!Finish, Packages!Now
    <2>2. target'.whole  BY <2>1 DEF Packages!Package
    <2>3. target' # Packages!None
      <3>1. "whole" \in DOMAIN target' /\ "whole" \notin DOMAIN Packages!None
        BY <2>1 DEF Packages!Package, Packages!None
      <3> QED BY <3>1
    <2> QED BY <2>2, <2>3 DEF Packages!PackageKeptByStep
  <1>3. ASSUME NEW c \in Callers, Packages!RemoveWork(c)
        PROVE  Packages!PackageKeptByStep
    BY <1>3 DEF Packages!RemoveWork, Packages!PackageKeptByStep
  <1>4. ASSUME Packages!Next
        PROVE  \/ UNCHANGED target
               \/ \E c \in Callers : Packages!Finish(c) \/ Packages!RemoveWork(c)
    <2>1. CASE Packages!Change \/ Packages!Crash
      BY <2>1 DEF Packages!Change, Packages!Crash
    <2>2. ASSUME NEW c \in Callers, Packages!Collect(c)
          PROVE  UNCHANGED target \/ Packages!Finish(c)
      BY <2>2 DEF Packages!Collect, Packages!Ask, Packages!NoTask, Packages!Checked,
                  Packages!Open, Packages!AddFile, Packages!Read, Packages!ReadFails,
                  Packages!Store, Packages!NothingCollected, Packages!DiskFull, Packages!Abandon
    <2>3. ASSUME NEW c \in Callers, Packages!Delete(c)
          PROVE  UNCHANGED target \/ Packages!RemoveWork(c)
      BY <2>3 DEF Packages!Delete, Packages!AskDelete, Packages!RemoveTask, Packages!RemoveFails
    <2> QED BY <1>4, <2>1, <2>2, <2>3 DEF Packages!Next
  <1>5. CASE UNCHANGED packageVars  BY <1>1, <1>5 DEF packageVars
  <1> QED BY <1>1, <1>2, <1>3, <1>4, <1>5

-----------------------------------------------------------------------------
(* Evidence: parts of sequences.                                             *)

LEMMA SeqFacts ==
    ASSUME NEW q, IsSeq(q)
    PROVE  Len(q) \in Nat /\ DOMAIN q = 1 .. Len(q) /\ q = [i \in 1 .. Len(q) |-> q[i]]
  <1> DEFINE V == {q[i] : i \in DOMAIN q}
  <1>1. q \in Seq(V)  BY DEF IsSeq
  <1> HIDE DEF V
  <1>2. Len(q) \in Nat /\ q \in [1 .. Len(q) -> V]  BY <1>1, LenProperties
  <1> QED BY <1>2

LEMMA BuiltIsSeq ==
    ASSUME NEW n \in Nat, NEW f, f = [i \in 1 .. n |-> f[i]]
    PROVE  IsSeq(f) /\ Len(f) = n /\ DOMAIN f = 1 .. n
  <1> DEFINE V == {f[i] : i \in DOMAIN f}
  <1>1. DOMAIN f = 1 .. n  OBVIOUS
  <1>2. \A i \in 1 .. n : f[i] \in V  BY <1>1
  <1> HIDE DEF V
  <1>3. f \in [1 .. n -> V]  BY <1>2
  <1>4. f \in Seq(V)  BY <1>3, SeqDef
  <1>5. Len(f) \in Nat /\ DOMAIN f = 1 .. Len(f)  BY <1>4, LenProperties
  <1>6. Len(f) = n
    <2>1. n \in 1 .. n \/ n = 0  OBVIOUS
    <2>2. Len(f) \in 1 .. Len(f) \/ Len(f) = 0  BY <1>5
    <2> QED BY <1>1, <1>5, <2>1, <2>2
  <1> QED BY <1>1, <1>4, <1>6 DEF V, IsSeq

LEMMA MemberIsSeq ==
    ASSUME NEW V, NEW q \in Seq(V)
    PROVE  IsSeq(q) /\ \A i \in DOMAIN q : q[i] \in V
  <1>1. Len(q) \in Nat /\ q \in [1 .. Len(q) -> V]  BY LenProperties
  <1>2. q = [i \in 1 .. Len(q) |-> q[i]]  BY <1>1
  <1> QED BY <1>1, <1>2, BuiltIsSeq

LEMMA JoinedIs ==
    ASSUME NEW a, NEW b, IsSeq(a), IsSeq(b)
    PROVE  /\ IsSeq(a \o b) /\ Len(a \o b) = Len(a) + Len(b)
           /\ DOMAIN (a \o b) = 1 .. Len(a) + Len(b)
           /\ \A i \in 1 .. Len(a) : (a \o b)[i] = a[i]
           /\ \A i \in 1 .. Len(b) : (a \o b)[Len(a) + i] = b[i]
           /\ \A i \in 1 .. Len(a) + Len(b) :
                 i \in 1 .. Len(a) \/ (i - Len(a) \in 1 .. Len(b) /\ (a \o b)[i] = b[i - Len(a)])
  <1> DEFINE V == {a[i] : i \in DOMAIN a} \cup {b[i] : i \in DOMAIN b}
  <1>1. a \in Seq(V) /\ b \in Seq(V)
    <2> DEFINE A == {a[i] : i \in DOMAIN a}
               B == {b[i] : i \in DOMAIN b}
    <2>1. a \in Seq(A) /\ b \in Seq(B)  BY DEF IsSeq
    <2>2. A \subseteq V /\ B \subseteq V  OBVIOUS
    <2> HIDE DEF A, B, V
    <2> QED BY <2>1, <2>2, SeqMonotonic
  <1> HIDE DEF V
  <1>2. /\ a \o b \in Seq(V) /\ Len(a \o b) = Len(a) + Len(b)
        /\ Len(a) \in Nat /\ Len(b) \in Nat
        /\ \A i \in 1 .. Len(a) + Len(b) :
               (a \o b)[i] = IF i <= Len(a) THEN a[i] ELSE b[i - Len(a)]
    BY <1>1, ConcatProperties, LenProperties
  <1>3. IsSeq(a \o b)  BY <1>2, MemberIsSeq
  <1>4. DOMAIN (a \o b) = 1 .. Len(a) + Len(b)  BY <1>2, <1>3, SeqFacts
  <1>5. \A i \in 1 .. Len(b) :
            Len(a) + i \in 1 .. Len(a) + Len(b) /\ ~(Len(a) + i <= Len(a)) /\ (Len(a) + i) - Len(a) = i
    BY <1>2
  <1>6. \A i \in 1 .. Len(a) : i \in 1 .. Len(a) + Len(b) /\ i <= Len(a)  BY <1>2
  <1>7. \A i \in 1 .. Len(a) + Len(b) :
            i \in 1 .. Len(a) \/ (i - Len(a) \in 1 .. Len(b) /\ ~(i <= Len(a)))
    BY <1>2
  <1>8. \A i \in 1 .. Len(a) : (a \o b)[i] = a[i]  BY <1>2, <1>6
  <1>9. \A i \in 1 .. Len(b) : (a \o b)[Len(a) + i] = b[i]  BY <1>2, <1>5
  <1>10. \A i \in 1 .. Len(a) + Len(b) :
            i \in 1 .. Len(a) \/ (i - Len(a) \in 1 .. Len(b) /\ (a \o b)[i] = b[i - Len(a)])
    BY <1>2, <1>7
  <1> QED BY <1>2, <1>3, <1>4, <1>8, <1>9, <1>10

LEMMA OnlyIs ==
    ASSUME NEW x
    PROVE  IsSeq(<<x>>) /\ Len(<<x>>) = 1 /\ DOMAIN <<x>> = 1 .. 1 /\ <<x>>[1] = x
  <1>1. <<x>> = [i \in 1 .. 1 |-> <<x>>[i]]  OBVIOUS
  <1> QED BY <1>1, BuiltIsSeq

\* p leads through the members of S up to n in order.
Leads(p, n, S) ==
    /\ IsSeq(p)
    /\ \A k \in DOMAIN p : p[k] \in 1 .. n /\ p[k] \in S
    /\ \A i \in 1 .. n : i \in S => \E k \in DOMAIN p : p[k] = i
    /\ \A j, k \in DOMAIN p : j < k => p[j] < p[k]
    /\ \A k \in DOMAIN p : Cardinality({i \in 1 .. p[k] : i \in S}) = k

Gathers(f, n, S) ==
    /\ DOMAIN f = 0 .. n /\ f[0] = <<>>
    /\ \A k \in 1 .. n : f[k] = IF k \in S THEN Append(f[k - 1], k) ELSE f[k - 1]

LEMMA PlacesBuilt ==
    ASSUME NEW n \in Nat, NEW S
    PROVE  \E f : Gathers(f, n, S) /\ Catalog!Places(n, S) = f[n]
  <1> DEFINE V == Seq(Nat)
             G == [x \in (1 .. n) \X V |-> IF x[1] \in S THEN Append(x[2], x[1]) ELSE x[2]]
             Step(g) == [k \in 0 .. n |-> IF k = 0 THEN <<>>
                                          ELSE IF k \in S THEN Append(g[k - 1], k) ELSE g[k - 1]]
  <1>1. \A k \in 1 .. n : \A q \in V : Append(q, k) \in V  OBVIOUS
  <1>2. <<>> \in V  OBVIOUS
  <1> HIDE DEF V
  <1>3. G \in [(1 .. n) \X V -> V]  BY <1>1
  <1>4. \A k \in 1 .. n : \A q \in V : G[<<k, q>>] = IF k \in S THEN Append(q, k) ELSE q
    OBVIOUS
  <1> HIDE DEF G
  <1>5. PICK f \in [0 .. n -> V] :
           f[0] = <<>> /\ \A k \in 1 .. n : f[k - 1] \in V /\ f[k] = G[<<k, f[k - 1]>>]
    <2>1. \E f : Iterates(f, V, <<>>, n, G)  BY <1>2, <1>3, Iterated
    <2>2. \A k \in 1 .. n : k - 1 \in 0 .. n  OBVIOUS
    <2> QED BY <2>1, <2>2 DEF Iterates
  <1>6. \A k \in 1 .. n : f[k] = IF k \in S THEN Append(f[k - 1], k) ELSE f[k - 1]
    BY <1>4, <1>5
  <1>7. f = Step(f)
    <2>1. \A k \in 0 .. n : k # 0 => k \in 1 .. n  OBVIOUS
    <2> QED BY <1>5, <1>6, <2>1
  <1> DEFINE m == CHOOSE g : g = Step(g)
  <1>8. m = Step(m)  BY <1>7, Zenon
  <1>9. Catalog!Places(n, S) = m[n]  BY Zenon DEF Catalog!Places
  <1> HIDE DEF m
  <1>10. Gathers(m, n, S)
    <2>1. 0 \in 0 .. n /\ \A k \in 1 .. n : k \in 0 .. n /\ k # 0  OBVIOUS
    <2> QED BY <1>8, <2>1 DEF Gathers
  <1> QED BY <1>9, <1>10

LEMMA PlacesIs ==
    ASSUME NEW n \in Nat, NEW S
    PROVE  Leads(Catalog!Places(n, S), n, S)
  <1>0. PICK f : Gathers(f, n, S) /\ Catalog!Places(n, S) = f[n]  BY PlacesBuilt
  <1>1. /\ DOMAIN f = 0 .. n /\ f[0] = <<>> /\ Catalog!Places(n, S) = f[n]
        /\ \A k \in 1 .. n : f[k] = IF k \in S THEN Append(f[k - 1], k) ELSE f[k - 1]
    BY <1>0 DEF Gathers
  <1> DEFINE UpTo(m) == {i \in 1 .. m : i \in S}
             T == {m \in 0 .. n : /\ Leads(f[m], m, S)
                                  /\ IsFiniteSet(UpTo(m)) /\ Cardinality(UpTo(m)) = Len(f[m])}
  <1>2. 0 \in T
    <2>1. UpTo(0) = {}  OBVIOUS
    <2>2. Leads(<<>>, 0, S)  BY EmptyIsSeq DEF Leads
    <2>3. IsFiniteSet(UpTo(0)) /\ Cardinality(UpTo(0)) = 0  BY <2>1, FS_EmptySet
    <2> QED BY <1>1, <2>2, <2>3, EmptyIsSeq
  <1>3. ASSUME NEW m \in 0 .. n, m \in T, m < n
        PROVE  m + 1 \in T
    <2>1. m + 1 \in 1 .. n /\ m + 1 \in 0 .. n /\ (m + 1) - 1 = m /\ m \in Nat
      BY <1>3
    <2> DEFINE p == f[m]
               r == f[m + 1]
    <2>2. /\ Leads(p, m, S) /\ IsFiniteSet(UpTo(m)) /\ Cardinality(UpTo(m)) = Len(p)
          /\ r = IF m + 1 \in S THEN Append(p, m + 1) ELSE p
      BY <1>1, <1>3, <2>1
    <2> HIDE DEF p, r
    <2>3. CASE m + 1 \in S
      <3>1. UpTo(m + 1) = UpTo(m) \cup {m + 1} /\ ~(m + 1 \in UpTo(m))
        BY <2>1, <2>3
      <3> HIDE DEF UpTo
      <3>2. IsFiniteSet(UpTo(m + 1)) /\ Cardinality(UpTo(m + 1)) = Len(p) + 1
        BY <2>2, <3>1, FS_AddElement
      <3>3. IsSeq(p)  BY <2>2 DEF Leads
      <3>4. /\ IsSeq(r) /\ Len(p) \in Nat /\ DOMAIN p = 1 .. Len(p)
            /\ Len(r) = Len(p) + 1 /\ DOMAIN r = 1 .. Len(p) + 1
            /\ \A i \in 1 .. Len(p) : r[i] = p[i]
            /\ r[Len(p) + 1] = m + 1
        BY <2>2, <2>3, <3>3, OneMore
      <3>5. \A k \in 1 .. Len(p) + 1 : k \in 1 .. Len(p) \/ k = Len(p) + 1  BY <3>4
      <3>6. \A k \in DOMAIN r : r[k] \in 1 .. m + 1 /\ r[k] \in S
        BY <2>1, <2>2, <2>3, <3>4, <3>5 DEF Leads
      <3>7. \A i \in 1 .. m + 1 : i \in S => \E k \in DOMAIN r : r[k] = i
        <4>1. \A i \in 1 .. m + 1 : i \in 1 .. m \/ i = m + 1  BY <2>1
        <4>2. \A k \in 1 .. Len(p) : k \in 1 .. Len(p) + 1  BY <3>4
        <4>3. Len(p) + 1 \in 1 .. Len(p) + 1  BY <3>4
        <4> QED BY <2>2, <3>4, <4>1, <4>2, <4>3 DEF Leads
      <3>8. \A j, k \in DOMAIN r : j < k => r[j] < r[k]
        <4> SUFFICES ASSUME NEW j \in DOMAIN r, NEW k \in DOMAIN r, j < k
                     PROVE  r[j] < r[k]
          OBVIOUS
        <4>1. j \in 1 .. Len(p)  BY <3>4
        <4>2. CASE k \in 1 .. Len(p)  BY <2>2, <3>4, <4>1, <4>2 DEF Leads
        <4>3. CASE k = Len(p) + 1
          <5>1. p[j] \in 1 .. m  BY <2>2, <3>4, <4>1 DEF Leads
          <5> QED BY <2>1, <3>4, <4>1, <4>3, <5>1
        <4> QED BY <3>4, <3>5, <4>2, <4>3
      <3>9. \A k \in DOMAIN r : Cardinality({i \in 1 .. r[k] : i \in S}) = k
        <4>1. Cardinality({i \in 1 .. m + 1 : i \in S}) = Len(p) + 1
          BY <3>2 DEF UpTo
        <4> QED BY <2>2, <3>4, <3>5, <4>1 DEF Leads
      <3> QED BY <2>1, <3>2, <3>4, <3>6, <3>7, <3>8, <3>9 DEF Leads, r
    <2>4. CASE m + 1 \notin S
      <3>1. UpTo(m + 1) = UpTo(m)  BY <2>1, <2>4
      <3> HIDE DEF UpTo
      <3>2. r = p  BY <2>2, <2>4
      <3>3. Leads(p, m + 1, S)
        <4>1. \A i \in 1 .. m + 1 : i \in S => i \in 1 .. m  BY <2>1, <2>4
        <4>2. \A i \in 1 .. m : i \in 1 .. m + 1  BY <2>1
        <4> QED BY <2>2, <4>1, <4>2 DEF Leads
      <3> QED BY <2>1, <2>2, <3>1, <3>2, <3>3 DEF r
    <2> QED BY <2>3, <2>4
  <1> HIDE DEF T
  <1>4. \A m \in 0 .. n : m \in T  BY <1>2, <1>3, Induct
  <1>5. n \in T  BY <1>4
  <1> QED BY <1>1, <1>5 DEF T

Gives(r, q, p) == /\ IsSeq(r) /\ IsSeq(p) /\ Len(r) = Len(p) /\ DOMAIN r = DOMAIN p
                  /\ \A k \in DOMAIN p : r[k] = q[p[k]]

LEMMA SelectIs ==
    ASSUME NEW q, IsSeq(q), NEW S
    PROVE  \E p : Leads(p, Len(q), S) /\ Gives(Catalog!Select(q, S), q, p)
  <1> DEFINE p == Catalog!Places(Len(q), S)
             r == Catalog!Select(q, S)
  <1>1. Leads(p, Len(q), S)  BY SeqFacts, PlacesIs
  <1>2. r = [k \in DOMAIN p |-> q[p[k]]]  BY DEF Catalog!Select
  <1> HIDE DEF p, r
  <1>3. Len(p) \in Nat /\ DOMAIN p = 1 .. Len(p)  BY <1>1, SeqFacts DEF Leads
  <1>4. r = [k \in 1 .. Len(p) |-> r[k]] /\ \A k \in 1 .. Len(p) : r[k] = q[p[k]]
    BY <1>2, <1>3
  <1>5. IsSeq(r) /\ Len(r) = Len(p) /\ DOMAIN r = 1 .. Len(p)
    BY <1>3, <1>4, BuiltIsSeq
  <1>6. Gives(r, q, p)  BY <1>1, <1>3, <1>4, <1>5 DEF Gives, Leads
  <1> QED BY <1>1, <1>6 DEF p, r

\* r is the sequences of w, one after the other; off[b] are the places before
\* sequence b + 1.
Laid(r, w, off) ==
    /\ IsSeq(r) /\ off \in [0 .. Len(w) -> Nat] /\ off[0] = 0 /\ Len(r) = off[Len(w)]
    /\ \A b \in 1 .. Len(w) : off[b] = off[b - 1] + Len(w[b])
    /\ \A b \in 1 .. Len(w) : \A i \in 1 .. Len(w[b]) :
           off[b - 1] + i \in 1 .. Len(r) /\ r[off[b - 1] + i] = w[b][i]
    /\ \A p \in 1 .. Len(r) : \E b \in 1 .. Len(w) : \E i \in 1 .. Len(w[b]) : p = off[b - 1] + i

\* The sequences up to each place.
Heaps(f, w) == /\ \A k \in 0 .. Len(w) : IsSeq(f[k])
               /\ DOMAIN f = 0 .. Len(w) /\ f[0] = <<>>
               /\ \A k \in 1 .. Len(w) : f[k] = f[k - 1] \o w[k]

LEMMA FlattenBuilt ==
    ASSUME NEW w, IsSeq(w), \A b \in DOMAIN w : IsSeq(w[b])
    PROVE  \E f : Heaps(f, w) /\ Catalog!FlattenSeq(w) = f[Len(w)]
  <1> DEFINE N == Len(w)
             X == UNION {{w[b][i] : i \in DOMAIN w[b]} : b \in DOMAIN w}
             V == Seq(X)
             G == [x \in (1 .. N) \X V |-> x[2] \o w[x[1]]]
             Step(g) == [i \in 1 .. N |-> IF i = 1 THEN w[i] ELSE g[i - 1] \o w[i]]
  <1>1. N \in Nat /\ DOMAIN w = 1 .. N  BY SeqFacts
  <1>2. \A k \in 1 .. N : w[k] \in V
    <2> SUFFICES ASSUME NEW k \in 1 .. N
                 PROVE  w[k] \in V
      OBVIOUS
    <2> DEFINE U == {w[k][i] : i \in DOMAIN w[k]}
    <2>1. w[k] \in Seq(U)  BY <1>1 DEF IsSeq
    <2>2. U \subseteq X  BY <1>1
    <2> HIDE DEF U, X
    <2> QED BY <2>1, <2>2, SeqMonotonic
  <1> HIDE DEF X
  <1>3. \A k \in 1 .. N : \A q \in V : q \o w[k] \in V  BY <1>2, ConcatProperties
  <1>4. <<>> \in V  OBVIOUS
  <1>5. \A q \in V : IsSeq(q)  BY MemberIsSeq
  <1> HIDE DEF V, N
  <1>6. G \in [(1 .. N) \X V -> V]  BY <1>3
  <1>7. \A k \in 1 .. N : \A q \in V : G[<<k, q>>] = q \o w[k]  OBVIOUS
  <1> HIDE DEF G
  <1>8. PICK f \in [0 .. N -> V] :
           f[0] = <<>> /\ \A k \in 1 .. N : f[k - 1] \in V /\ f[k] = G[<<k, f[k - 1]>>]
    <2>1. \E f : Iterates(f, V, <<>>, N, G)  BY <1>1, <1>4, <1>6, Iterated
    <2>2. \A k \in 1 .. N : k - 1 \in 0 .. N  BY <1>1
    <2> QED BY <2>1, <2>2 DEF Iterates
  <1>9. Heaps(f, w)  BY <1>5, <1>7, <1>8 DEF Heaps, N
  <1>10. CASE N = 0
    <2>1. w = <<>>  BY <1>1, <1>10, SeqFacts DEF N
    <2>2. Catalog!FlattenSeq(w) = w  BY <1>10 DEF Catalog!FlattenSeq, N
    <2> QED BY <1>8, <1>9, <1>10, <2>1, <2>2 DEF N
  <1>11. CASE N # 0
    <2> DEFINE h == [i \in 1 .. N |-> f[i]]
    <2>1. h = Step(h)
      <3>1. \A i \in 1 .. N : f[i] = f[i - 1] \o w[i]  BY <1>7, <1>8
      <3>2. f[1] = w[1]
        <4>1. 1 \in 1 .. N /\ w[1] \in V  BY <1>1, <1>2, <1>11
        <4>2. f[1] = <<>> \o w[1]
          <5>1. 1 - 1 = 0  OBVIOUS
          <5>2. f[1] = f[1 - 1] \o w[1]  BY <3>1, <4>1
          <5> QED BY <1>8, <5>1, <5>2, Zenon
        <4> QED BY <4>1, <4>2, ConcatEmptySeq DEF V
      <3>3. \A i \in 1 .. N : i # 1 => i - 1 \in 1 .. N  BY <1>1
      <3> QED BY <3>1, <3>2, <3>3
    <2> DEFINE m == CHOOSE g : g = Step(g)
    <2> HIDE DEF h
    <2>2. m = Step(m)  BY <2>1, Zenon
    <2>3. Catalog!FlattenSeq(w) = m[N]  BY <1>11, Zenon DEF Catalog!FlattenSeq, N
    <2> HIDE DEF m
    <2>4. \A i \in 0 .. N : i # 0 => m[i] = f[i]
      <3> DEFINE T == {i \in 0 .. N : i # 0 => m[i] = f[i]}
      <3>1. 0 \in T  BY <1>1
      <3>2. ASSUME NEW i \in 0 .. N, i \in T, i < N
            PROVE  i + 1 \in T
        <4>1. i + 1 \in 1 .. N /\ i + 1 \in 0 .. N /\ (i + 1) - 1 = i  BY <1>1, <3>2
        <4>2. m[i + 1] = IF i + 1 = 1 THEN w[i + 1] ELSE m[i] \o w[i + 1]
          BY <2>2, <4>1
        <4>3. h[i + 1] = IF i + 1 = 1 THEN w[i + 1] ELSE h[i] \o w[i + 1]
          BY <2>1, <4>1
        <4>4. h[i + 1] = f[i + 1] /\ (i # 0 => h[i] = f[i])  BY <1>1, <4>1 DEF h
        <4> QED BY <3>2, <4>1, <4>2, <4>3, <4>4
      <3> HIDE DEF T
      <3>3. \A i \in 0 .. N : i \in T  BY <1>1, <3>1, <3>2, Induct
      <3> QED BY <3>3 DEF T
    <2>5. m[N] = f[N]  BY <1>1, <1>11, <2>4
    <2> QED BY <1>9, <2>3, <2>5 DEF N
  <1> QED BY <1>10, <1>11

LEMMA FlattenIs ==
    ASSUME NEW w, IsSeq(w), \A b \in DOMAIN w : IsSeq(w[b])
    PROVE  \E off : Laid(Catalog!FlattenSeq(w), w, off)
  <1>0. PICK f : Heaps(f, w) /\ Catalog!FlattenSeq(w) = f[Len(w)]  BY FlattenBuilt
  <1>1. Len(w) \in Nat /\ DOMAIN w = 1 .. Len(w)  BY SeqFacts
  <1> DEFINE off == [b \in 0 .. Len(w) |-> Len(f[b])]
  <1>2. off \in [0 .. Len(w) -> Nat]  BY <1>0, <1>1, SeqFacts DEF Heaps
  <1>3. \A b \in 0 .. Len(w) : off[b] = Len(f[b])  OBVIOUS
  <1> HIDE DEF off
  <1>4. off[0] = 0  BY <1>0, <1>1, <1>3, EmptyIsSeq DEF Heaps
  <1>5. \A b \in 1 .. Len(w) : off[b] = off[b - 1] + Len(w[b])
    <2> SUFFICES ASSUME NEW b \in 1 .. Len(w)
                 PROVE  off[b] = off[b - 1] + Len(w[b])
      OBVIOUS
    <2>1. b \in 0 .. Len(w) /\ b - 1 \in 0 .. Len(w)  BY <1>1
    <2>2. f[b] = f[b - 1] \o w[b] /\ IsSeq(f[b - 1]) /\ IsSeq(w[b])
      BY <1>0, <1>1, <2>1 DEF Heaps
    <2>3. Len(f[b]) = Len(f[b - 1]) + Len(w[b])  BY <2>2, JoinedIs
    <2> QED BY <1>3, <2>1, <2>3
  <1> DEFINE Holds1(m) == \A b \in 1 .. m : \A i \in 1 .. Len(w[b]) :
                             off[b - 1] + i \in 1 .. Len(f[m]) /\ f[m][off[b - 1] + i] = w[b][i]
             Holds2(m) == \A p \in 1 .. Len(f[m]) :
                             \E b \in 1 .. m : \E i \in 1 .. Len(w[b]) : p = off[b - 1] + i
             T == {m \in 0 .. Len(w) : Holds1(m) /\ Holds2(m)}
  <1>6. 0 \in T
    <2>1. f[0] = <<>> /\ Len(f[0]) = 0  BY <1>0, EmptyIsSeq DEF Heaps
    <2>2. 0 \in 0 .. Len(w)  BY <1>1
    <2> QED BY <2>1, <2>2
  <1>7. ASSUME NEW m \in 0 .. Len(w), m \in T, m < Len(w)
        PROVE  m + 1 \in T
    <2>1. m + 1 \in 1 .. Len(w) /\ m + 1 \in 0 .. Len(w) /\ (m + 1) - 1 = m /\ m \in Nat
      BY <1>1, <1>7
    <2>2. f[m + 1] = f[m] \o w[m + 1] /\ IsSeq(f[m]) /\ IsSeq(w[m + 1])
      BY <1>0, <1>1, <2>1 DEF Heaps
    <2>3. /\ Len(f[m + 1]) = Len(f[m]) + Len(w[m + 1])
          /\ \A i \in 1 .. Len(f[m]) : f[m + 1][i] = f[m][i]
          /\ \A i \in 1 .. Len(w[m + 1]) : f[m + 1][Len(f[m]) + i] = w[m + 1][i]
          /\ \A i \in 1 .. Len(f[m]) + Len(w[m + 1]) :
                i \in 1 .. Len(f[m]) \/ i - Len(f[m]) \in 1 .. Len(w[m + 1])
      <3>1. PICK a, b : a = f[m] /\ b = w[m + 1]  OBVIOUS
      <3>2. IsSeq(a) /\ IsSeq(b) /\ f[m + 1] = a \o b  BY <2>2, <3>1
      <3>3. /\ Len(a \o b) = Len(a) + Len(b)
            /\ \A i \in 1 .. Len(a) : (a \o b)[i] = a[i]
            /\ \A i \in 1 .. Len(b) : (a \o b)[Len(a) + i] = b[i]
            /\ \A i \in 1 .. Len(a) + Len(b) : i \in 1 .. Len(a) \/ i - Len(a) \in 1 .. Len(b)
        BY <3>2, JoinedIs
      <3> QED BY <3>1, <3>2, <3>3, Zenon
    <2>4. Len(f[m]) \in Nat /\ Len(w[m + 1]) \in Nat /\ off[m] = Len(f[m])
      BY <1>3, <2>2, SeqFacts
    <2>5. Holds1(m) /\ Holds2(m)  BY <1>7
    <2>6. Holds1(m + 1)
      <3> SUFFICES ASSUME NEW b \in 1 .. m + 1, NEW i \in 1 .. Len(w[b])
                   PROVE  /\ off[b - 1] + i \in 1 .. Len(f[m + 1])
                          /\ f[m + 1][off[b - 1] + i] = w[b][i]
        OBVIOUS
      <3>1. CASE b \in 1 .. m
        <4>1. off[b - 1] + i \in 1 .. Len(f[m]) /\ f[m][off[b - 1] + i] = w[b][i]
          BY <2>5, <3>1
        <4>2. \A x, y \in Nat : \A z \in 1 .. x : z \in 1 .. x + y  OBVIOUS
        <4>3. off[b - 1] + i \in 1 .. Len(f[m + 1])
          BY <2>3, <2>4, <4>1, <4>2, Zenon
        <4> QED BY <2>3, <4>1, <4>3
      <3>2. CASE b = m + 1
        <4>1. i \in 1 .. Len(w[m + 1]) /\ off[b - 1] + i = Len(f[m]) + i /\ i \in Nat
          BY <2>1, <2>4, <3>2
        <4>2. Len(f[m]) + i \in 1 .. Len(f[m]) + Len(w[m + 1])
          <5>1. \A x, y \in Nat : \A z \in 1 .. y : x + z \in 1 .. x + y  OBVIOUS
          <5> QED BY <2>4, <4>1, <5>1, Zenon
        <4> QED BY <2>3, <3>2, <4>1, <4>2
      <3> QED BY <2>1, <3>1, <3>2
    <2>7. Holds2(m + 1)
      <3> SUFFICES ASSUME NEW p \in 1 .. Len(f[m + 1])
                   PROVE  \E b \in 1 .. m + 1 : \E i \in 1 .. Len(w[b]) : p = off[b - 1] + i
        OBVIOUS
      <3>1. CASE p \in 1 .. Len(f[m])
        <4>1. PICK b \in 1 .. m : \E i \in 1 .. Len(w[b]) : p = off[b - 1] + i
          BY <2>5, <3>1
        <4>2. b \in 1 .. m + 1  BY <2>1
        <4> QED BY <4>1, <4>2
      <3>2. CASE p - Len(f[m]) \in 1 .. Len(w[m + 1])
        <4>1. p = off[(m + 1) - 1] + (p - Len(f[m])) /\ m + 1 \in 1 .. m + 1
          BY <2>1, <2>3, <2>4
        <4> QED BY <3>2, <4>1
      <3> QED BY <2>3, <3>1, <3>2
    <2> QED BY <2>1, <2>6, <2>7
  <1> HIDE DEF T
  <1>8. \A m \in 0 .. Len(w) : m \in T  BY <1>1, <1>6, <1>7, Induct
  <1>9. Len(w) \in 0 .. Len(w) /\ Len(w) \in T  BY <1>1, <1>8
  <1>10. Holds1(Len(w)) /\ Holds2(Len(w))  BY <1>9 DEF T
  <1>11. Len(f[Len(w)]) = off[Len(w)] /\ IsSeq(f[Len(w)])
    BY <1>0, <1>3, <1>9 DEF Heaps
  <1>12. Laid(f[Len(w)], w, off)  BY <1>2, <1>4, <1>5, <1>10, <1>11 DEF Laid
  <1> QED BY <1>0, <1>12, Zenon

LEMMA LaidGrows ==
    ASSUME NEW r, NEW w, NEW off, IsSeq(w), Laid(r, w, off), \A b \in DOMAIN w : IsSeq(w[b])
    PROVE  \A b \in 0 .. Len(w) : \A a \in 0 .. b : off[a] <= off[b]
  <1>1. Len(w) \in Nat /\ \A b \in 1 .. Len(w) : Len(w[b]) \in Nat  BY SeqFacts
  <1> DEFINE T == {b \in 0 .. Len(w) : \A a \in 0 .. b : off[a] <= off[b]}
  <1>2. off \in [0 .. Len(w) -> Nat] /\ \A b \in 1 .. Len(w) : off[b] = off[b - 1] + Len(w[b])
    BY DEF Laid
  <1>3. 0 \in T
    <2>1. \A a \in 0 .. 0 : a = 0  OBVIOUS
    <2>2. off[0] \in Nat /\ 0 \in 0 .. Len(w)  BY <1>1, <1>2
    <2> QED BY <2>1, <2>2
  <1>4. ASSUME NEW b \in 0 .. Len(w), b \in T, b < Len(w)
        PROVE  b + 1 \in T
    <2>1. b + 1 \in 1 .. Len(w) /\ b + 1 \in 0 .. Len(w) /\ (b + 1) - 1 = b
      BY <1>1, <1>4
    <2>2. off[b + 1] = off[b] + Len(w[b + 1]) /\ off[b] \in Nat /\ Len(w[b + 1]) \in Nat
      BY <1>1, <1>2, <2>1
    <2>3. \A a \in 0 .. b + 1 : a \in 0 .. b \/ a = b + 1  BY <2>1
    <2>4. \A a \in 0 .. b : off[a] <= off[b] /\ off[a] \in Nat
      <3>1. \A a \in 0 .. b : a \in 0 .. Len(w)  BY <1>1
      <3> QED BY <1>2, <1>4, <3>1
    <2> QED BY <2>1, <2>2, <2>3, <2>4
  <1> HIDE DEF T
  <1>5. \A b \in 0 .. Len(w) : b \in T  BY <1>1, <1>3, <1>4, Induct
  <1> QED BY <1>5 DEF T

\* A set of places has a last one.
LEMMA Greatest ==
    ASSUME NEW n \in Nat, NEW T, T \subseteq 1 .. n, T # {}
    PROVE  Catalog!Max(T) \in T /\ \A y \in T : y <= Catalog!Max(T)
  <1> DEFINE U == {k \in Nat : \A y \in T : y <= k}
  <1>1. n \in U /\ U \subseteq Nat  OBVIOUS
  <1>2. \A k \in U : k \in Nat /\ \A y \in T : y <= k  OBVIOUS
  <1>3. \A k \in Nat : k \notin U => \E y \in T : ~(y <= k)  OBVIOUS
  <1> HIDE DEF U
  <1>4. PICK k \in U : \A u \in U : k <= u  BY <1>1, Least
  <1>5. k \in T
    <2> SUFFICES ASSUME k \notin T
                 PROVE  FALSE
      OBVIOUS
    <2>1. PICK y0 \in T : TRUE  OBVIOUS
    <2>2. PICK z : z = k - 1  OBVIOUS
    <2>3. k \in Nat /\ \A y \in T : y \in Nat /\ y <= k /\ y # k  BY <1>2, <1>4
    <2>4. z \in Nat /\ ~(k <= z) /\ \A y \in T : y <= z  BY <2>1, <2>2, <2>3
    <2>5. z \in U  BY <1>3, <2>4
    <2> QED BY <1>4, <2>4, <2>5
  <1>6. \E x \in T : \A y \in T : x >= y  BY <1>2, <1>4, <1>5
  <1> DEFINE m == Catalog!Max(T)
  <1>7. m \in T /\ \A y \in T : m >= y  BY <1>6, Zenon DEF Catalog!Max
  <1> HIDE DEF m
  <1>8. \A y \in T : y <= m  BY <1>7
  <1> QED BY <1>7, <1>8 DEF m

LEMMA Smaller ==
    ASSUME NEW a \in Nat, NEW b \in Nat
    PROVE  /\ Catalog!Min({a, b}) = IF a <= b THEN a ELSE b
           /\ Catalog!Min({a, b}) \in Nat
  <1> DEFINE m == Catalog!Min({a, b})
  <1>1. \E x \in {a, b} : \A y \in {a, b} : x =< y
    <2>1. a <= b \/ b <= a  OBVIOUS
    <2> QED BY <2>1
  <1>2. m \in {a, b} /\ \A y \in {a, b} : m =< y  BY <1>1, Zenon DEF Catalog!Min
  <1> HIDE DEF m
  <1>3. m = IF a <= b THEN a ELSE b  BY <1>2
  <1> QED BY <1>2, <1>3 DEF m

\* f holds each element of T once.
Lists(f, T) == /\ IsSeq(f) /\ \A k \in DOMAIN f : f[k] \in T
               /\ \A c \in T : \E k \in DOMAIN f : f[k] = c
               /\ \A j, k \in DOMAIN f : f[j] = f[k] => j = k

LEMMA IdsIs ==
    ASSUME NEW ms, NEW kind, NEW c
    PROVE  c \in Catalog!IdsOf(ms, kind) <=> \E i \in DOMAIN ms : ms[i].kind = kind /\ ms[i].id = c
  BY DEF Catalog!IdsOf

LEMMA FirstSeenIs ==
    ASSUME NEW ms, IsSeq(ms), NEW kind, NEW known
    PROVE  Lists(Catalog!FirstSeen(ms, kind, known), Catalog!IdsOf(ms, kind) \ known)
  <1> DEFINE New(i) == /\ ms[i].kind = kind /\ ms[i].id \notin known
                       /\ \A j \in 1 .. (i - 1) : ms[j].kind = kind => ms[j].id # ms[i].id
             S == {i \in DOMAIN ms : New(i)}
             q == Catalog!Select(ms, S)
             f == Catalog!FirstSeen(ms, kind, known)
             T == Catalog!IdsOf(ms, kind) \ known
  <1>1. f = [k \in DOMAIN q |-> q[k].id]  BY Zenon DEF Catalog!FirstSeen
  <1>2. Len(ms) \in Nat /\ DOMAIN ms = 1 .. Len(ms)  BY SeqFacts
  <1>3. PICK p : Leads(p, Len(ms), S) /\ Gives(q, ms, p)  BY SelectIs
  <1> HIDE DEF f, q
  <1>4. Len(q) \in Nat /\ DOMAIN q = 1 .. Len(q)  BY <1>3, SeqFacts DEF Gives
  <1>5. f = [k \in 1 .. Len(q) |-> f[k]] /\ \A k \in 1 .. Len(q) : f[k] = q[k].id
    BY <1>1, <1>4
  <1>6. IsSeq(f) /\ DOMAIN f = 1 .. Len(q)  BY <1>4, <1>5, BuiltIsSeq
  <1>7. \A k \in 1 .. Len(q) : p[k] \in 1 .. Len(ms) /\ New(p[k]) /\ f[k] = ms[p[k]].id
    <2>1. \A k \in DOMAIN p : p[k] \in 1 .. Len(ms) /\ p[k] \in S /\ q[k] = ms[p[k]]
      BY <1>3 DEF Leads, Gives
    <2>2. DOMAIN p = 1 .. Len(q)  BY <1>3, <1>4 DEF Gives
    <2> QED BY <1>5, <2>1, <2>2
  <1>8. \A k \in DOMAIN f : f[k] \in T
    <2>1. \A k \in 1 .. Len(q) : /\ p[k] \in DOMAIN ms /\ ms[p[k]].kind = kind
                                 /\ f[k] = ms[p[k]].id /\ f[k] \notin known
      BY <1>2, <1>7
    <2> QED BY <1>6, <2>1, IdsIs
  <1>9. \A c \in T : \E k \in DOMAIN f : f[k] = c
    <2> SUFFICES ASSUME NEW c \in T
                 PROVE  \E k \in DOMAIN f : f[k] = c
      OBVIOUS
    <2> DEFINE U == {i \in 1 .. Len(ms) : ms[i].kind = kind /\ ms[i].id = c}
    <2>1. U # {} /\ U \subseteq Nat  BY <1>2, IdsIs
    <2>2. PICK i \in U : \A j \in U : i <= j  BY <2>1, Least
    <2>3. i \in S
      <3>1. \A j \in 1 .. (i - 1) : j \in 1 .. Len(ms) /\ ~(i <= j)  BY <1>2, <2>2
      <3>2. \A j \in 1 .. (i - 1) : j \notin U  BY <2>2, <3>1
      <3> QED BY <1>2, <2>2, <3>1, <3>2
    <2>4. PICK k \in DOMAIN p : p[k] = i  BY <1>3, <2>2, <2>3 DEF Leads
    <2>5. k \in 1 .. Len(q)  BY <1>3, <1>4 DEF Gives
    <2> QED BY <1>6, <1>7, <2>2, <2>4, <2>5
  <1>10. \A j, k \in DOMAIN f : f[j] = f[k] => j = k
    <2> SUFFICES ASSUME NEW j \in 1 .. Len(q), NEW k \in 1 .. Len(q), f[j] = f[k], j < k
                 PROVE  FALSE
      BY <1>4, <1>6
    <2>1. p[j] < p[k] /\ p[j] \in 1 .. Len(ms) /\ p[k] \in 1 .. Len(ms)
      BY <1>3, <1>4, <1>7 DEF Leads, Gives
    <2>2. p[j] \in 1 .. (p[k] - 1)  BY <1>2, <2>1
    <2> QED BY <1>7, <2>2
  <1>11. Lists(f, T)  BY <1>6, <1>8, <1>9, <1>10 DEF Lists
  <1> QED BY <1>11 DEF f

LEMMA SelectLists ==
    ASSUME NEW q, NEW T, Lists(q, T), NEW U
    PROVE  Lists(Catalog!Select(q, {i \in DOMAIN q : q[i] \in U}), T \cap U)
  <1> DEFINE S == {i \in DOMAIN q : q[i] \in U}
             r == Catalog!Select(q, S)
  <1>1. IsSeq(q)  BY DEF Lists
  <1>2. Len(q) \in Nat /\ DOMAIN q = 1 .. Len(q)  BY <1>1, SeqFacts
  <1>3. PICK p : Leads(p, Len(q), S) /\ Gives(r, q, p)  BY <1>1, SelectIs
  <1> HIDE DEF r
  <1>4. Len(r) \in Nat /\ DOMAIN r = 1 .. Len(r) /\ IsSeq(r) /\ DOMAIN p = 1 .. Len(r)
    BY <1>3, SeqFacts DEF Gives
  <1>5. \A k \in 1 .. Len(r) : p[k] \in DOMAIN q /\ q[p[k]] \in U /\ r[k] = q[p[k]]
    <2>1. \A k \in DOMAIN p : p[k] \in S /\ r[k] = q[p[k]]  BY <1>3 DEF Leads, Gives
    <2> QED BY <1>4, <2>1
  <1>6. \A k \in DOMAIN r : r[k] \in T \cap U  BY <1>4, <1>5 DEF Lists
  <1>7. \A c \in T \cap U : \E k \in DOMAIN r : r[k] = c
    <2> SUFFICES ASSUME NEW c \in T \cap U
                 PROVE  \E k \in DOMAIN r : r[k] = c
      OBVIOUS
    <2>1. PICK i \in DOMAIN q : q[i] = c  BY DEF Lists
    <2>2. i \in 1 .. Len(q) /\ i \in S  BY <1>2, <2>1
    <2>3. PICK k \in DOMAIN p : p[k] = i  BY <1>3, <2>2 DEF Leads
    <2> QED BY <1>4, <1>5, <2>1, <2>3
  <1>8. \A j, k \in DOMAIN r : r[j] = r[k] => j = k
    <2> SUFFICES ASSUME NEW j \in 1 .. Len(r), NEW k \in 1 .. Len(r), r[j] = r[k], j < k
                 PROVE  FALSE
      BY <1>4
    <2>1. p[j] < p[k] /\ p[j] \in 1 .. Len(q) /\ p[k] \in 1 .. Len(q)
      BY <1>3, <1>4 DEF Leads
    <2>2. p[j] # p[k]  BY <1>2, <2>1
    <2> QED BY <1>5, <2>2 DEF Lists
  <1>9. Lists(r, T \cap U)  BY <1>4, <1>6, <1>7, <1>8 DEF Lists
  <1> QED BY <1>9 DEF r

-----------------------------------------------------------------------------
(* Evidence: the trace, and the candidates of one call.                      *)

IdsIn(w, kind) == UNION {Catalog!IdsOf(w[b], kind) : b \in DOMAIN w}

LEMMA TraceIs ==
    ASSUME NEW w, IsSeq(w), \A b \in DOMAIN w : IsSeq(w[b])
    PROVE  LET tr == Catalog!Trace(w)
           IN  /\ Lists(tr.calls, IdsIn(w, "call"))
               /\ DOMAIN tr.results = IdsIn(w, "result")
               /\ \A c \in IdsIn(w, "result") :
                     \E b \in DOMAIN w : \E i \in DOMAIN w[b] :
                        tr.results[c] = w[b][i] /\ w[b][i].kind = "result" /\ w[b][i].id = c
  <1> DEFINE ms == Catalog!FlattenSeq(w)
             At(c) == {i \in DOMAIN ms : ms[i].kind = "result" /\ ms[i].id = c}
             res == [c \in Catalog!IdsOf(ms, "result") |-> ms[Catalog!Max(At(c))]]
             tr == Catalog!Trace(w)
  <1>1. PICK off : Laid(ms, w, off)  BY FlattenIs
  <1>2. tr = [calls |-> Catalog!FirstSeen(ms, "call", {}), results |-> res]
    BY Zenon DEF Catalog!Trace, Catalog!TraceOf
  <1>3. tr.calls = Catalog!FirstSeen(ms, "call", {}) /\ tr.results = res  BY <1>2
  <1>4. DOMAIN res = Catalog!IdsOf(ms, "result")
        /\ \A c \in Catalog!IdsOf(ms, "result") : res[c] = ms[Catalog!Max(At(c))]
    OBVIOUS
  <1> HIDE DEF ms, tr, res
  <1>5. Len(w) \in Nat /\ DOMAIN w = 1 .. Len(w)  BY SeqFacts
  <1>6. \A b \in 1 .. Len(w) : DOMAIN w[b] = 1 .. Len(w[b])  BY <1>5, SeqFacts
  <1>7. Len(ms) \in Nat /\ DOMAIN ms = 1 .. Len(ms) /\ IsSeq(ms)
    BY <1>1, SeqFacts DEF Laid
  <1>8. \A i \in DOMAIN ms : \E b \in DOMAIN w : \E j \in DOMAIN w[b] : ms[i] = w[b][j]
    <2> SUFFICES ASSUME NEW i \in 1 .. Len(ms)
                 PROVE  \E b \in DOMAIN w : \E j \in DOMAIN w[b] : ms[i] = w[b][j]
      BY <1>7
    <2>1. PICK b \in 1 .. Len(w) : \E j \in 1 .. Len(w[b]) : i = off[b - 1] + j
      BY <1>1 DEF Laid
    <2>2. PICK j \in 1 .. Len(w[b]) : i = off[b - 1] + j  BY <2>1
    <2>3. ms[off[b - 1] + j] = w[b][j]  BY <1>1 DEF Laid
    <2> QED BY <1>5, <1>6, <2>2, <2>3
  <1>9. \A b \in DOMAIN w : \A j \in DOMAIN w[b] : \E i \in DOMAIN ms : ms[i] = w[b][j]
    <2> SUFFICES ASSUME NEW b \in 1 .. Len(w), NEW j \in 1 .. Len(w[b])
                 PROVE  \E i \in DOMAIN ms : ms[i] = w[b][j]
      BY <1>5, <1>6
    <2>1. off[b - 1] + j \in 1 .. Len(ms) /\ ms[off[b - 1] + j] = w[b][j]
      BY <1>1 DEF Laid
    <2> QED BY <1>7, <2>1
  <1>10. \A kind : Catalog!IdsOf(ms, kind) = IdsIn(w, kind)
    <2> SUFFICES ASSUME NEW kind
                 PROVE  Catalog!IdsOf(ms, kind) = IdsIn(w, kind)
      OBVIOUS
    <2>1. \A c : c \in Catalog!IdsOf(ms, kind) => \E b \in DOMAIN w : c \in Catalog!IdsOf(w[b], kind)
      BY <1>8, IdsIs
    <2>2. \A c : \A b \in DOMAIN w : c \in Catalog!IdsOf(w[b], kind) => c \in Catalog!IdsOf(ms, kind)
      BY <1>9, IdsIs
    <2> QED BY <2>1, <2>2, Zenon DEF IdsIn
  <1>11. Lists(tr.calls, IdsIn(w, "call"))
    <2>1. Lists(Catalog!FirstSeen(ms, "call", {}), Catalog!IdsOf(ms, "call") \ {})
      BY <1>7, FirstSeenIs
    <2>2. Catalog!IdsOf(ms, "call") \ {} = IdsIn(w, "call")  BY <1>10
    <2> QED BY <1>3, <2>1, <2>2, Zenon
  <1>12. ASSUME NEW c \in IdsIn(w, "result")
         PROVE  \E b \in DOMAIN w : \E i \in DOMAIN w[b] :
                   res[c] = w[b][i] /\ w[b][i].kind = "result" /\ w[b][i].id = c
    <2>1. At(c) # {} /\ At(c) \subseteq 1 .. Len(ms)  BY <1>7, <1>10, <1>12, IdsIs
    <2>2. Catalog!Max(At(c)) \in At(c)  BY <1>7, <2>1, Greatest
    <2>3. PICK i \in DOMAIN ms : res[c] = ms[i] /\ ms[i].kind = "result" /\ ms[i].id = c
      BY <1>4, <1>10, <1>12, <2>2
    <2> QED BY <1>8, <2>3
  <1>13. DOMAIN tr.results = IdsIn(w, "result")  BY <1>3, <1>4, <1>10, Zenon
  <1>14. \A c \in IdsIn(w, "result") : \E b \in DOMAIN w : \E i \in DOMAIN w[b] :
            tr.results[c] = w[b][i] /\ w[b][i].kind = "result" /\ w[b][i].id = c
    BY <1>3, <1>12
  <1> QED BY <1>11, <1>13, <1>14 DEF tr

LineRecords == [text : STRING, chars : Nat, indent : Nat]
Sized(line) == line.chars \in Nat /\ line.indent \in Nat

\* What the sandbox prints for a call, and what OpenClaw returns of it.
Returned(c, lines) == \/ lines = Catalog!Printed(c)
                      \/ lines = Catalog!Printed(c) \o <<Catalog!ControlLine>>

LEMMA PrintedIs ==
    ASSUME Catalog!InputsAssumption, NEW c \in DOMAIN MCCalls
    PROVE  /\ IsSeq(Catalog!Printed(c))
           /\ \A i \in DOMAIN Catalog!Printed(c) : Sized(Catalog!Printed(c)[i])
           /\ MCCalls[c].tool = "exec" => Catalog!Printed(c) = MCContent[MCCalls[c].output]
  <1>0. \A l \in LineRecords : Sized(l)  BY DEF LineRecords, Sized
  <1>1. CASE MCCalls[c].tool = "read"
    <2> DEFINE all == MCContent[MCCalls[c].path]
    <2>1. all \in Seq(LineRecords) /\ MCCalls[c].offset \in Nat
      BY <1>1 DEF Catalog!InputsAssumption, LineRecords
    <2>2. Catalog!Printed(c) = SubSeq(all, MCCalls[c].offset + 1, Len(all))
      BY <1>1 DEF Catalog!Printed
    <2> HIDE DEF all
    <2>3. PICK m \in Nat : m = MCCalls[c].offset + 1 /\ m # 0  BY <2>1
    <2>4. Len(all) \in Nat /\ \A i \in m .. Len(all) : all[i] \in LineRecords
      <3>1. Len(all) \in Nat /\ \A i \in 1 .. Len(all) : all[i] \in LineRecords
        BY <2>1, LenProperties, ElementOfSeq
      <3>2. \A i \in m .. Len(all) : i \in 1 .. Len(all)  BY <2>3, <3>1
      <3> QED BY <3>1, <3>2
    <2>5. m \in Int /\ Len(all) \in Int  BY <2>4
    <2>6. SubSeq(all, m, Len(all)) \in Seq(LineRecords)
      BY <2>4, <2>5, SubSeqProperties
    <2>7. Catalog!Printed(c) \in Seq(LineRecords)  BY <2>2, <2>3, <2>6
    <2> QED BY <1>0, <1>1, <2>7, MemberIsSeq
  <1>2. CASE MCCalls[c].tool = "exec"
    <2>1. Catalog!Printed(c) = MCContent[MCCalls[c].output]
      BY <1>2 DEF Catalog!Printed
    <2>2. MCContent[MCCalls[c].output] \in Seq(LineRecords)
      BY <1>2 DEF Catalog!InputsAssumption, LineRecords
    <2>3. Catalog!Printed(c) \in Seq(LineRecords)  BY <2>1, <2>2, Zenon
    <2> QED BY <1>0, <2>1, <2>3, MemberIsSeq
  <1>3. CASE MCCalls[c].tool \notin {"read", "exec"}
    <2>1. Catalog!Printed(c) = <<>>  BY <1>3 DEF Catalog!Printed
    <2> QED BY <1>3, <2>1, EmptyIsSeq
  <1> QED BY <1>1, <1>2, <1>3

LEMMA ReturnedIs ==
    ASSUME Catalog!InputsAssumption, NEW c \in DOMAIN MCCalls, NEW lines, Returned(c, lines)
    PROVE  /\ IsSeq(lines) /\ \A i \in DOMAIN lines : Sized(lines[i])
           /\ \A i \in DOMAIN Catalog!Printed(c) :
                 i \in DOMAIN lines /\ lines[i] = Catalog!Printed(c)[i]
           /\ \A i \in DOMAIN lines : i \in DOMAIN Catalog!Printed(c) \/ ~Catalog!Says(lines[i])
  <1> DEFINE all == Catalog!Printed(c)
             x == Catalog!ControlLine
  <1>1. IsSeq(all) /\ \A i \in DOMAIN all : Sized(all[i])  BY PrintedIs
  <1>2. Sized(x) /\ ~Catalog!Says(x)
    <2>1. x.text = Catalog!Control  BY DEF Catalog!ControlLine
    <2>2. ~Catalog!Says(x)  BY <2>1, Zenon DEF Catalog!Says
    <2>3. Sized(x)  BY DEF Catalog!ControlLine, Sized
    <2> QED BY <2>2, <2>3
  <1>3. lines = all \/ lines = all \o <<x>>  BY DEF Returned
  <1> HIDE DEF all, x
  <1>4. CASE lines = all  BY <1>1, <1>4 DEF all
  <1>5. CASE lines = all \o <<x>>
    <2>1. IsSeq(<<x>>) /\ Len(<<x>>) = 1 /\ <<x>>[1] = x  BY OnlyIs
    <2>2. Len(all) \in Nat /\ DOMAIN all = 1 .. Len(all)  BY <1>1, SeqFacts
    <2>3. /\ IsSeq(lines) /\ DOMAIN lines = 1 .. Len(all) + 1
          /\ \A i \in 1 .. Len(all) : lines[i] = all[i]
          /\ \A i \in 1 .. 1 : lines[Len(all) + i] = <<x>>[i]
      BY <1>1, <1>5, <2>1, JoinedIs
    <2>4. lines[Len(all) + 1] = x  BY <2>1, <2>3
    <2>5. \A i \in 1 .. Len(all) + 1 : i \in 1 .. Len(all) \/ i = Len(all) + 1
      BY <2>2
    <2>6. \A i \in 1 .. Len(all) : i \in 1 .. Len(all) + 1  BY <2>2
    <2> QED BY <1>1, <1>2, <2>2, <2>3, <2>4, <2>5, <2>6 DEF all
  <1> QED BY <1>3, <1>4, <1>5

\* The places of the lines that say something, all of them printed by the call.
LEMMA MaterialIs ==
    ASSUME Catalog!InputsAssumption, NEW c \in DOMAIN MCCalls, NEW lines, Returned(c, lines)
    PROVE  LET kept == Catalog!Material(lines)
           IN  /\ Leads(kept, Len(lines), {i \in DOMAIN lines : Catalog!Says(lines[i])})
               /\ \A k \in DOMAIN kept : /\ kept[k] \in DOMAIN Catalog!Printed(c)
                                         /\ lines[kept[k]] = Catalog!Printed(c)[kept[k]]
                                         /\ Sized(lines[kept[k]])
  <1> DEFINE kept == Catalog!Material(lines)
             S == {i \in DOMAIN lines : Catalog!Says(lines[i])}
  <1>1. /\ IsSeq(lines) /\ \A i \in DOMAIN lines : Sized(lines[i])
        /\ \A i \in DOMAIN Catalog!Printed(c) : lines[i] = Catalog!Printed(c)[i]
        /\ \A i \in DOMAIN lines : i \in DOMAIN Catalog!Printed(c) \/ ~Catalog!Says(lines[i])
    BY ReturnedIs
  <1>2. kept = Catalog!Places(Len(lines), S)  BY Zenon DEF Catalog!Material
  <1>3. Len(lines) \in Nat  BY <1>1, SeqFacts
  <1>4. Leads(kept, Len(lines), S)  BY <1>2, <1>3, PlacesIs
  <1> HIDE DEF kept
  <1>5. \A k \in DOMAIN kept : kept[k] \in DOMAIN lines /\ Catalog!Says(lines[kept[k]])
    BY <1>4 DEF Leads
  <1> QED BY <1>1, <1>4, <1>5 DEF kept

OfPage(x) ==
    /\ x.line \in DOMAIN Catalog!Printed(x.call)
    /\ \E n \in 1 .. MaxLineChars : x.raw = Catalog!Cut(Catalog!Printed(x.call)[x.line], n)

\* An item is what its call was shown of the business data.
Fits(x) ==
    LET call0 == MCCalls[x.call]
    IN  /\ x.call \in DOMAIN MCCalls /\ x.source \notin Catalog!Internal
        /\ \/ call0.tool = "read" /\ x.type = "file_line" /\ x.source = call0.path /\ OfPage(x)
           \/ call0.tool = "exec" /\ x.type = "command_line" /\ x.source = x.call /\ OfPage(x)
           \/ call0.tool = "exec" /\ x.type = "structured" /\ MCRole[x.source] = "business_facts"
           \/ /\ call0.tool = "view_image" /\ x.type = "image" /\ MCBound[x.source]
              /\ Catalog!Cardinality(Catalog!ToSet(call0.paths)) <= MaxClaimImages

\* The candidates of one call, all of one type and source if they are lines.
Yields(xs, c) ==
    /\ IsSeq(xs) /\ \A i \in DOMAIN xs : xs[i].call = c /\ Fits(xs[i])
    /\ \A i, j \in DOMAIN xs : Catalog!GroupKey(xs[i]) = Catalog!GroupKey(xs[j])

Stands(xs, source0, raw, line) ==
    \E k \in DOMAIN xs : xs[k].source = source0 /\ xs[k].raw = raw /\ xs[k].line = line

\* What xs must hold of a call, once it is processed.
Telling(xs, c) ==
    /\ MCCalls[c].tool = "read" /\ MCCalls[c].path \notin Catalog!Internal =>
          \A i \in DOMAIN Catalog!Printed(c) :
             /\ Catalog!Says(Catalog!Printed(c)[i])
             /\ Cardinality({j \in 1 .. i : Catalog!Says(Catalog!Printed(c)[j])}) <= MaxReadLines
             => Stands(xs, MCCalls[c].path, Catalog!Cut(Catalog!Printed(c)[i], MaxLineChars), i)
    /\ MCCalls[c].tool = "exec" /\ MCRole[MCCalls[c].output] = "business_facts" =>
          \E k \in DOMAIN xs : xs[k].source \in {MCCalls[c].output, c}

LEMMA ReadIs ==
    ASSUME Catalog!InputsAssumption, Catalog!LimitsPositive,
           NEW c \in DOMAIN MCCalls, MCCalls[c].tool = "read", NEW lines, Returned(c, lines)
    PROVE  Yields(Catalog!Read(c, lines), c) /\ Telling(Catalog!Read(c, lines), c)
  <1> DEFINE path == MCCalls[c].path
             kept == Catalog!Material(lines)
             all == Catalog!Printed(c)
             role == IF path \in Catalog!Scratch THEN "working_derived" ELSE "source"
             n == Catalog!Min({Len(kept), MaxReadLines})
             item(k) == Catalog!Candidate(c, path, Catalog!Cut(lines[kept[k]], MaxLineChars), kept[k],
                                          "file_line", role, "")
             xs == Catalog!Read(c, lines)
             S == {i \in DOMAIN lines : Catalog!Says(lines[i])}
  <1>1. xs = IF path \in Catalog!Internal THEN <<>> ELSE [k \in 1 .. n |-> item(k)]
    BY Zenon DEF Catalog!Read
  <1>2. CASE path \in Catalog!Internal
    <2>1. xs = <<>>  BY <1>1, <1>2
    <2> QED BY <1>2, <2>1, EmptyIsSeq DEF Yields, Telling
  <1>3. CASE path \notin Catalog!Internal
    <2>1. xs = [k \in 1 .. n |-> item(k)]  BY <1>1, <1>3
    <2>2. /\ Leads(kept, Len(lines), S)
          /\ \A k \in DOMAIN kept : kept[k] \in DOMAIN all /\ lines[kept[k]] = all[kept[k]]
      BY MaterialIs
    <2>3. \A k : item(k).call = c /\ item(k).source = path /\ item(k).line = kept[k]
                 /\ item(k).raw = Catalog!Cut(lines[kept[k]], MaxLineChars)
                 /\ item(k).type = "file_line"
      BY DEF Catalog!Candidate
    <2> HIDE DEF kept, xs, item, n
    <2>4. IsSeq(kept) /\ Len(kept) \in Nat /\ DOMAIN kept = 1 .. Len(kept)
          /\ MaxReadLines \in Nat /\ MaxLineChars \in 1 .. MaxLineChars
      <3>1. MaxReadLines \in Nat /\ MaxLineChars \in Nat /\ MaxLineChars # 0
        BY DEF Catalog!LimitsPositive
      <3> QED BY <2>2, <3>1, SeqFacts DEF Leads
    <2>5. n \in Nat /\ \A k \in Nat : k <= n <=> k <= Len(kept) /\ k <= MaxReadLines
      <3>1. n = (IF Len(kept) <= MaxReadLines THEN Len(kept) ELSE MaxReadLines)
        BY <2>4, Smaller DEF n
      <3> QED BY <2>4, <3>1
    <2>6. xs = [k \in 1 .. n |-> xs[k]] /\ \A k \in 1 .. n : xs[k] = item(k)
      BY <2>1
    <2>7. IsSeq(xs) /\ DOMAIN xs = 1 .. n  BY <2>5, <2>6, BuiltIsSeq
    <2>8. \A k \in 1 .. n : k \in DOMAIN kept  BY <2>4, <2>5
    <2>9. \A k \in DOMAIN xs : /\ xs[k].call = c /\ xs[k].source = path /\ xs[k].type = "file_line"
                               /\ xs[k].line = kept[k] /\ kept[k] \in DOMAIN all
                               /\ xs[k].raw = Catalog!Cut(all[kept[k]], MaxLineChars)
      BY <2>2, <2>3, <2>6, <2>7, <2>8
    <2>10. Yields(xs, c)
      <3>1. \A k \in DOMAIN xs : Fits(xs[k])
        <4>1. \A k \in DOMAIN xs : OfPage(xs[k])  BY <2>4, <2>9 DEF OfPage
        <4> QED BY <1>3, <2>9, <4>1 DEF Fits
      <3>2. \A k \in DOMAIN xs : Catalog!GroupKey(xs[k]) = <<"file_line", c, path>>
        BY <2>9 DEF Catalog!GroupKey
      <3> QED BY <2>7, <2>9, <3>1, <3>2 DEF Yields
    <2>11. Telling(xs, c)
      <3> SUFFICES ASSUME NEW i \in DOMAIN all, Catalog!Says(all[i]),
                          Cardinality({j \in 1 .. i : Catalog!Says(all[j])}) <= MaxReadLines
                   PROVE  Stands(xs, path, Catalog!Cut(all[i], MaxLineChars), i)
        BY DEF Telling
      <3>1. IsSeq(lines) /\ IsSeq(all) /\ \A j \in DOMAIN all : j \in DOMAIN lines /\ lines[j] = all[j]
        BY ReturnedIs, PrintedIs
      <3>2. Len(lines) \in Nat /\ DOMAIN lines = 1 .. Len(lines) /\ Len(all) \in Nat
            /\ DOMAIN all = 1 .. Len(all)
        BY <3>1, SeqFacts
      <3>3. i \in 1 .. Len(lines) /\ i \in S  BY <3>1, <3>2
      <3>4. PICK k \in DOMAIN kept : kept[k] = i  BY <2>2, <3>3 DEF Leads
      <3>5. {j \in 1 .. i : j \in S} = {j \in 1 .. i : Catalog!Says(all[j])}
        <4>1. \A j \in 1 .. i : j \in DOMAIN all  BY <3>2
        <4> QED BY <3>1, <4>1
      <3>6. k <= MaxReadLines
        <4>1. Cardinality({j \in 1 .. kept[k] : j \in S}) = k
          BY <2>2, <3>4 DEF Leads
        <4> QED BY <3>4, <3>5, <4>1
      <3>7. k \in 1 .. n  BY <2>4, <2>5, <3>4, <3>6
      <3> QED BY <2>7, <2>9, <3>4, <3>7 DEF Stands
    <2> QED BY <2>10, <2>11 DEF xs
  <1> QED BY <1>2, <1>3

LEMMA UsedIs ==
    ASSUME NEW lines, NEW kept, IsSeq(kept), \A k \in DOMAIN kept : Sized(lines[kept[k]]),
           MaxLineChars \in Nat
    PROVE  LET used == Catalog!Used(lines, kept)
           IN  used[0] = 0 /\ \A k \in 0 .. Len(kept) : used[k] \in Nat
  <1> DEFINE N == Len(kept)
             take(k) == Catalog!Min({lines[kept[k]].chars, MaxLineChars})
             G == [x \in (1 .. N) \X Nat |-> x[2] + take(x[1])]
             Step(g) == [k \in 0 .. N |-> IF k = 0 THEN 0 ELSE g[k - 1] + take(k)]
  <1>1. N \in Nat /\ \A k \in 1 .. N : take(k) \in Nat
    <2>1. N \in Nat /\ DOMAIN kept = 1 .. N  BY SeqFacts
    <2> QED BY <2>1, Smaller DEF Sized
  <1> HIDE DEF N, take
  <1>2. 0 \in Nat /\ G \in [(1 .. N) \X Nat -> Nat]  BY <1>1
  <1>3. \A k \in 1 .. N : \A m \in Nat : G[<<k, m>>] = m + take(k)  OBVIOUS
  <1> HIDE DEF G
  <1>4. PICK f \in [0 .. N -> Nat] :
           f[0] = 0 /\ \A k \in 1 .. N : f[k - 1] \in Nat /\ f[k] = G[<<k, f[k - 1]>>]
    <2>1. \E f : Iterates(f, Nat, 0, N, G)  BY <1>1, <1>2, Iterated
    <2>2. \A k \in 1 .. N : k - 1 \in 0 .. N  BY <1>1
    <2> QED BY <2>1, <2>2 DEF Iterates
  <1>5. f = Step(f)
    <2>1. \A k \in 0 .. N : k # 0 => k \in 1 .. N  BY <1>1
    <2> QED BY <1>3, <1>4, <2>1
  <1> DEFINE m == Catalog!Used(lines, kept)
  <1>6. m = Step(m)  BY <1>5, Zenon DEF Catalog!Used, N, take
  <1> HIDE DEF m
  <1>7. \A k \in 0 .. N : m[k] = IF k = 0 THEN 0 ELSE m[k - 1] + take(k)  BY <1>6
  <1> DEFINE T == {k \in 0 .. N : m[k] \in Nat}
  <1>8. 0 \in T  BY <1>1, <1>7
  <1>9. ASSUME NEW k \in 0 .. N, k \in T, k < N
        PROVE  k + 1 \in T
    <2>1. k + 1 \in 0 .. N /\ k + 1 \in 1 .. N /\ (k + 1) - 1 = k /\ k + 1 # 0
      BY <1>1, <1>9
    <2>2. m[k + 1] = m[k] + take(k + 1)  BY <1>7, <2>1
    <2> QED BY <1>1, <1>9, <2>1, <2>2
  <1> HIDE DEF T
  <1>10. \A k \in 0 .. N : k \in T  BY <1>1, <1>8, <1>9, Induct
  <1>11. m[0] = 0
    <2>1. 0 \in 0 .. N  BY <1>1
    <2> QED BY <1>7, <2>1
  <1> QED BY <1>10, <1>11 DEF T, m, N

\* Lines of a command: at least one if any says something.
LEMMA LinesIs ==
    ASSUME Catalog!InputsAssumption, Catalog!LimitsPositive,
           NEW c \in DOMAIN MCCalls, MCCalls[c].tool = "exec", NEW lines, Returned(c, lines)
    PROVE  /\ Yields(Catalog!Lines(c, lines), c)
           /\ (\E i \in DOMAIN Catalog!Printed(c) : Catalog!Says(Catalog!Printed(c)[i]))
              => \E k \in DOMAIN Catalog!Lines(c, lines) : Catalog!Lines(c, lines)[k].source = c
  <1> DEFINE kept == Catalog!Material(lines)
             all == Catalog!Printed(c)
             used == Catalog!Used(lines, kept)
             S == {i \in DOMAIN lines : Catalog!Says(lines[i])}
             U == {k \in DOMAIN kept : k <= MaxExecLines /\ used[k - 1] < MaxExecChars}
             shown == Catalog!Places(Len(kept), U)
             limit(k) == Catalog!Min({MaxLineChars, MaxExecChars - used[k - 1]})
             item(j) == Catalog!Candidate(c, c,
                           Catalog!Cut(lines[kept[shown[j]]], limit(shown[j])), kept[shown[j]],
                           "command_line", "source", "")
             xs == Catalog!Lines(c, lines)
  <1>1. xs = [j \in DOMAIN shown |-> item(j)]  BY Zenon DEF Catalog!Lines
  <1>2. /\ Leads(kept, Len(lines), S)
        /\ \A k \in DOMAIN kept : /\ kept[k] \in DOMAIN all /\ lines[kept[k]] = all[kept[k]]
                                  /\ Sized(lines[kept[k]])
    BY MaterialIs
  <1>3. c \notin Catalog!Internal /\ \A n \in {MaxLineChars, MaxExecLines, MaxExecChars} : n \in Nat /\ n # 0
    BY DEF Catalog!InputsAssumption, Catalog!LimitsPositive
  <1> HIDE DEF kept, xs, S
  <1>4. IsSeq(kept) /\ Len(kept) \in Nat /\ DOMAIN kept = 1 .. Len(kept)
    BY <1>2, SeqFacts DEF Leads
  <1>5. used[0] = 0 /\ \A k \in 0 .. Len(kept) : used[k] \in Nat
    BY <1>2, <1>3, <1>4, UsedIs
  <1> HIDE DEF used
  <1>6. Leads(shown, Len(kept), U)  BY <1>4, PlacesIs
  <1> HIDE DEF shown
  <1>7. Len(shown) \in Nat /\ DOMAIN shown = 1 .. Len(shown)
    BY <1>6, SeqFacts DEF Leads
  <1>8. \A j \in DOMAIN shown : shown[j] \in DOMAIN kept /\ limit(shown[j]) \in 1 .. MaxLineChars
    <2> SUFFICES ASSUME NEW j \in DOMAIN shown
                 PROVE  shown[j] \in DOMAIN kept /\ limit(shown[j]) \in 1 .. MaxLineChars
      OBVIOUS
    <2>1. PICK k : k = shown[j]  OBVIOUS
    <2>2. k \in DOMAIN kept /\ used[k - 1] < MaxExecChars  BY <1>6, <2>1 DEF Leads
    <2>3. k - 1 \in 0 .. Len(kept)  BY <1>4, <2>2
    <2>4. PICK room : room = MaxExecChars - used[k - 1]  OBVIOUS
    <2>5. room \in Nat /\ room # 0  BY <1>3, <1>5, <2>2, <2>3, <2>4
    <2>6. limit(k) = IF MaxLineChars <= room THEN MaxLineChars ELSE room
      BY <1>3, <2>4, <2>5, Smaller
    <2> HIDE DEF limit
    <2>7. limit(k) \in 1 .. MaxLineChars  BY <1>3, <2>5, <2>6
    <2> QED BY <2>1, <2>2, <2>7
  <1>9. \A j : item(j).call = c /\ item(j).source = c /\ item(j).line = kept[shown[j]]
               /\ item(j).raw = Catalog!Cut(lines[kept[shown[j]]], limit(shown[j]))
               /\ item(j).type = "command_line"
    BY DEF Catalog!Candidate
  <1> HIDE DEF item, limit
  <1>10. xs = [j \in 1 .. Len(shown) |-> xs[j]] /\ \A j \in 1 .. Len(shown) : xs[j] = item(j)
    BY <1>1, <1>7
  <1>11. IsSeq(xs) /\ DOMAIN xs = 1 .. Len(shown)  BY <1>7, <1>10, BuiltIsSeq
  <1>12. \A j \in DOMAIN xs : xs[j].call = c /\ xs[j].source = c /\ xs[j].type = "command_line"
    BY <1>9, <1>10, <1>11
  <1>13. \A j \in DOMAIN xs : OfPage(xs[j])
    <2> SUFFICES ASSUME NEW j \in DOMAIN xs
                 PROVE  OfPage(xs[j])
      OBVIOUS
    <2>1. xs[j] = item(j) /\ shown[j] \in DOMAIN kept /\ limit(shown[j]) \in 1 .. MaxLineChars
      BY <1>7, <1>8, <1>10, <1>11
    <2>2. kept[shown[j]] \in DOMAIN all /\ lines[kept[shown[j]]] = all[kept[shown[j]]]
      BY <1>2, <2>1
    <2>3. xs[j].line \in DOMAIN all /\ xs[j].raw = Catalog!Cut(all[xs[j].line], limit(shown[j]))
      BY <1>9, <2>1, <2>2
    <2> QED BY <1>12, <2>1, <2>3 DEF OfPage
  <1>14. Yields(xs, c)
    <2>1. \A j \in DOMAIN xs : Catalog!GroupKey(xs[j]) = <<"command_line", c, c>>
      BY <1>12 DEF Catalog!GroupKey
    <2>2. \A j \in DOMAIN xs : Fits(xs[j])  BY <1>3, <1>12, <1>13 DEF Fits
    <2> QED BY <1>11, <1>12, <2>1, <2>2 DEF Yields
  <1>15. ASSUME NEW i \in DOMAIN all, Catalog!Says(all[i])
         PROVE  \E k \in DOMAIN xs : xs[k].source = c
    <2>1. IsSeq(lines) /\ i \in DOMAIN lines /\ lines[i] = all[i]  BY ReturnedIs
    <2>2. i \in 1 .. Len(lines) /\ i \in S  BY <1>15, <2>1, SeqFacts DEF S
    <2>3. DOMAIN kept # {}  BY <1>2, <2>2 DEF Leads
    <2>4. 1 \in DOMAIN kept /\ 1 \in 1 .. Len(kept)  BY <1>4, <2>3
    <2>5. 1 \in U
      <3>1. 1 - 1 = 0  OBVIOUS
      <3>2. used[1 - 1] < MaxExecChars  BY <1>3, <1>5, <3>1
      <3> QED BY <1>3, <2>4, <3>2
    <2>6. PICK j \in DOMAIN shown : shown[j] = 1  BY <1>6, <2>4, <2>5 DEF Leads
    <2> QED BY <1>7, <1>11, <1>12, <2>6
  <1> QED BY <1>14, <1>15 DEF xs

LEMMA ExecIs ==
    ASSUME Catalog!InputsAssumption, Catalog!LimitsPositive,
           NEW c \in DOMAIN MCCalls, MCCalls[c].tool = "exec", NEW lines, Returned(c, lines)
    PROVE  Yields(Catalog!Exec(c, lines), c) /\ Telling(Catalog!Exec(c, lines), c)
  <1> DEFINE command == MCCalls[c].output
             object == lines = MCContent[command]
             whole == Catalog!Candidate(c, command, <<command, Catalog!Length(lines)>>, 0,
                                        "structured", "business_facts", "")
             none == Catalog!Candidate(c, command, <<"omitted", 0>>, 0, "structured",
                                       "working_derived", "")
             one == IF Catalog!Length(lines) <= MaxExecChars THEN whole ELSE none
             xs == Catalog!Exec(c, lines)
  <1>1. xs = IF object /\ MCRole[command] = "locator" THEN <<>>
             ELSE IF object /\ MCRole[command] = "business_facts" THEN <<one>>
             ELSE Catalog!Lines(c, lines)
    BY Zenon DEF Catalog!Exec
  <1>2. command \notin Catalog!Internal
        /\ (MCRole[command] = "business_facts" =>
               \E i \in DOMAIN Catalog!Printed(c) : Catalog!Says(Catalog!Printed(c)[i]))
    BY PrintedIs DEF Catalog!InputsAssumption
  <1>3. one.call = c /\ one.source = command /\ one.type = "structured"
    BY DEF Catalog!Candidate
  <1> HIDE DEF xs, one
  <1>4. CASE object /\ MCRole[command] = "locator"
    <2>1. xs = <<>>  BY <1>1, <1>4
    <2> QED BY <1>4, <2>1, EmptyIsSeq DEF Yields, Telling, xs
  <1>5. CASE object /\ MCRole[command] = "business_facts"
    <2>1. xs = <<one>>  BY <1>1, <1>5
    <2>2. IsSeq(xs) /\ DOMAIN xs = 1 .. 1 /\ xs[1] = one  BY <2>1, OnlyIs
    <2>3. Fits(one)  BY <1>2, <1>3, <1>5 DEF Fits
    <2>4. Yields(xs, c)  BY <1>3, <2>2, <2>3 DEF Yields
    <2>5. Telling(xs, c)  BY <1>3, <2>2 DEF Telling
    <2> QED BY <2>4, <2>5 DEF xs
  <1>6. CASE ~(object /\ MCRole[command] = "locator") /\ ~(object /\ MCRole[command] = "business_facts")
    <2>1. xs = Catalog!Lines(c, lines)  BY <1>1, <1>6
    <2>2. Yields(xs, c) /\ ((\E i \in DOMAIN Catalog!Printed(c) : Catalog!Says(Catalog!Printed(c)[i]))
                            => \E k \in DOMAIN xs : xs[k].source = c)
      BY <2>1, LinesIs
    <2>3. Telling(xs, c)  BY <1>2, <2>2 DEF Telling
    <2> QED BY <2>2, <2>3 DEF xs
  <1> QED BY <1>4, <1>5, <1>6

LEMMA ImagesIs ==
    ASSUME Catalog!InputsAssumption, Catalog!LimitsPositive,
           NEW c \in DOMAIN MCCalls, MCCalls[c].tool = "view_image", NEW omitted
    PROVE  /\ Yields(Catalog!ViewedImages(c, omitted), c)
           /\ Telling(Catalog!ViewedImages(c, omitted), c)
  <1> DEFINE paths == MCCalls[c].paths
             S == {i \in {i \in DOMAIN paths : \A j \in 1 .. (i - 1) : paths[j] # paths[i]} :
                      Catalog!Resolved(paths[i])}
             found == Catalog!Select(paths, S)
             count == Catalog!Cardinality(Catalog!ToSet(paths))
             item(k) == Catalog!Candidate(c, found[k], <<"image", 0>>, 0, "image", "claim_grade",
                                          disk[found[k]])
             xs == Catalog!ViewedImages(c, omitted)
  <1>1. xs = IF count > MaxClaimImages \/ omitted THEN <<>>
             ELSE [k \in DOMAIN found |-> item(k)]
    BY Zenon DEF Catalog!ViewedImages
  <1>2. Telling(xs, c)  BY DEF Telling
  <1>3. CASE count > MaxClaimImages \/ omitted
    <2>1. xs = <<>>  BY <1>1, <1>3
    <2> QED BY <1>2, <2>1, EmptyIsSeq DEF Yields
  <1>4. CASE ~(count > MaxClaimImages \/ omitted)
    <2>1. xs = [k \in DOMAIN found |-> item(k)]  BY <1>1, <1>4
    <2>2. paths \in Seq(DOMAIN MCBound) /\ \A p \in DOMAIN MCBound : MCBound[p] => p \notin Catalog!Internal
      BY DEF Catalog!InputsAssumption
    <2>3. IsSeq(paths) /\ \A i \in DOMAIN paths : paths[i] \in DOMAIN MCBound
      BY <2>2, MemberIsSeq
    <2>4. count \in Nat /\ MaxClaimImages \in Nat
      <3>1. Len(paths) \in Nat /\ DOMAIN paths = 1 .. Len(paths)  BY <2>3, SeqFacts
      <3>2. Catalog!ToSet(paths) = {paths[i] : i \in 1 .. Len(paths)}
        BY <3>1 DEF Catalog!ToSet
      <3>3. IsFiniteSet(1 .. Len(paths))  BY <3>1, FS_Interval
      <3>4. IsFiniteSet({paths[i] : i \in 1 .. Len(paths)})
        <4> DEFINE T == {paths[i] : i \in 1 .. Len(paths)}
                   f == [i \in 1 .. Len(paths) |-> paths[i]]
        <4>1. f \in Surjection(1 .. Len(paths), T)  BY DEF Surjection
        <4> HIDE DEF f, T
        <4>2. IsFiniteSet(T)  BY <3>3, <4>1, FS_Surjection
        <4> QED BY <4>2 DEF T
      <3>5. Cardinality(Catalog!ToSet(paths)) \in Nat
        BY <3>2, <3>4, FS_CardinalityType
      <3>6. count = Cardinality(Catalog!ToSet(paths))
        BY DEF Catalog!Cardinality, Cardinality
      <3> QED BY <3>5, <3>6 DEF Catalog!LimitsPositive
    <2>5. PICK p : Leads(p, Len(paths), S) /\ Gives(found, paths, p)
      BY <2>3, SelectIs
    <2> HIDE DEF xs, found, count
    <2>6. \A k : item(k).call = c /\ item(k).source = found[k] /\ item(k).type = "image"
      BY DEF Catalog!Candidate
    <2> HIDE DEF item
    <2>7. Len(found) \in Nat /\ DOMAIN found = 1 .. Len(found)
      BY <2>5, SeqFacts DEF Gives
    <2>8. \A k \in DOMAIN found : found[k] \in DOMAIN MCBound /\ MCBound[found[k]]
      <3> SUFFICES ASSUME NEW k \in DOMAIN found
                   PROVE  found[k] \in DOMAIN MCBound /\ MCBound[found[k]]
        OBVIOUS
      <3>1. p[k] \in S /\ found[k] = paths[p[k]]  BY <2>5 DEF Leads, Gives
      <3> QED BY <2>3, <3>1 DEF Catalog!Resolved
    <2>9. xs = [k \in 1 .. Len(found) |-> xs[k]] /\ \A k \in 1 .. Len(found) : xs[k] = item(k)
      BY <2>1, <2>7
    <2>10. IsSeq(xs) /\ DOMAIN xs = 1 .. Len(found)  BY <2>7, <2>9, BuiltIsSeq
    <2>11. \A k \in DOMAIN xs : /\ xs[k].call = c /\ xs[k].type = "image" /\ MCBound[xs[k].source]
                                /\ xs[k].source \notin Catalog!Internal
      BY <2>2, <2>6, <2>7, <2>8, <2>9, <2>10
    <2>12. count <= MaxClaimImages  BY <1>4, <2>4
    <2>13. \A k \in DOMAIN xs : Fits(xs[k])  BY <2>11, <2>12 DEF Fits, count
    <2>14. \A k \in DOMAIN xs : Catalog!GroupKey(xs[k]) = <<>>
      BY <2>11 DEF Catalog!GroupKey
    <2>15. Yields(xs, c)  BY <2>10, <2>11, <2>13, <2>14 DEF Yields
    <2> QED BY <1>2, <2>15 DEF xs
  <1> QED BY <1>3, <1>4

LEMMA ProjectedIs ==
    ASSUME Catalog!InputsAssumption, Catalog!LimitsPositive,
           NEW c \in DOMAIN MCCalls, NEW result, Returned(c, result.lines)
    PROVE  Yields(Catalog!Projected(c, result), c) /\ Telling(Catalog!Projected(c, result), c)
  <1>1. CASE MCCalls[c].tool = "read"  BY <1>1, ReadIs DEF Catalog!Projected
  <1>2. CASE MCCalls[c].tool = "exec"  BY <1>2, ExecIs DEF Catalog!Projected
  <1>3. CASE MCCalls[c].tool = "view_image"  BY <1>3, ImagesIs DEF Catalog!Projected
  <1>4. CASE MCCalls[c].tool \notin {"read", "exec", "view_image"}
    <2>1. Catalog!Projected(c, result) = <<>>  BY <1>4 DEF Catalog!Projected
    <2> QED BY <1>4, <2>1, EmptyIsSeq DEF Yields, Telling
  <1> QED BY <1>1, <1>2, <1>3, <1>4

-----------------------------------------------------------------------------
(* Evidence: what a turn adds to the catalog.                                *)

\* xs is drawn from the sequences of w in order, b[y] the one of xs[y]; nothing
\* in it raises, and nothing is left out up to the first one that does.
Drawn(xs, w, b) ==
    /\ IsSeq(xs)
    /\ \A y \in 1 .. Len(xs) : /\ b[y] \in 1 .. Len(w) /\ ~Catalog!Raises(xs[y])
                               /\ \E i \in DOMAIN w[b[y]] : xs[y] = w[b[y]][i]
    /\ \A y, z \in 1 .. Len(xs) : y < z => b[y] <= b[z]
    /\ \A k \in 1 .. Len(w) :
          (\A j \in 1 .. k : \A i \in DOMAIN w[j] : ~Catalog!Raises(w[j][i]))
          => \A i \in DOMAIN w[k] : \E y \in 1 .. Len(xs) : xs[y] = w[k][i]

LEMMA DrawnIs ==
    ASSUME NEW w, IsSeq(w), \A k \in DOMAIN w : IsSeq(w[k])
    PROVE  LET all == Catalog!FlattenSeq(w)
               quiet == {i \in DOMAIN all : \A j \in 1 .. i : ~Catalog!Raises(all[j])}
           IN  \E b : Drawn(Catalog!Select(all, quiet), w, b)
  <1> DEFINE all == Catalog!FlattenSeq(w)
             quiet == {i \in DOMAIN all : \A j \in 1 .. i : ~Catalog!Raises(all[j])}
             xs == Catalog!Select(all, quiet)
  <1>1. PICK off : Laid(all, w, off)  BY FlattenIs
  <1>2. Len(w) \in Nat /\ DOMAIN w = 1 .. Len(w)
        /\ \A k \in 1 .. Len(w) : Len(w[k]) \in Nat /\ DOMAIN w[k] = 1 .. Len(w[k])
    BY SeqFacts
  <1>3. \A d \in 0 .. Len(w) : \A a \in 0 .. d : off[a] <= off[d]
    BY <1>1, LaidGrows
  <1> HIDE DEF all
  <1>4. IsSeq(all) /\ Len(all) \in Nat /\ DOMAIN all = 1 .. Len(all)
    BY <1>1, SeqFacts DEF Laid
  <1>5. PICK p : Leads(p, Len(all), quiet) /\ Gives(xs, all, p)  BY <1>4, SelectIs
  <1> HIDE DEF xs
  <1>6. IsSeq(xs) /\ Len(xs) \in Nat /\ DOMAIN p = 1 .. Len(xs)
        /\ \A y \in 1 .. Len(xs) : xs[y] = all[p[y]] /\ p[y] \in 1 .. Len(all) /\ p[y] \in quiet
    BY <1>5, SeqFacts DEF Gives, Leads
  <1> DEFINE In(k, x) == \E i \in 1 .. Len(w[k]) : x = off[k - 1] + i
             b == [y \in 1 .. Len(xs) |-> CHOOSE k \in 1 .. Len(w) : In(k, p[y])]
  <1>7. \A x \in 1 .. Len(all) : \E k \in 1 .. Len(w) : In(k, x)  BY <1>1 DEF Laid
  <1>8. \A k \in 1 .. Len(w) : \A x : In(k, x) =>
           x \in Nat /\ off[k - 1] \in Nat /\ off[k] \in Nat /\ off[k - 1] < x /\ x <= off[k]
    <2> SUFFICES ASSUME NEW k \in 1 .. Len(w), NEW x, In(k, x)
                 PROVE  /\ x \in Nat /\ off[k - 1] \in Nat /\ off[k] \in Nat
                        /\ off[k - 1] < x /\ x <= off[k]
      OBVIOUS
    <2>1. k \in 0 .. Len(w) /\ k - 1 \in 0 .. Len(w)  BY <1>2
    <2>2. off[k - 1] \in Nat /\ off[k] \in Nat /\ off[k] = off[k - 1] + Len(w[k])
      BY <1>1, <2>1 DEF Laid
    <2> QED BY <1>2, <2>2
  <1>9. \A k, m \in 1 .. Len(w) : \A x, z : In(k, x) /\ In(m, z) /\ x <= z => k <= m
    <2> SUFFICES ASSUME NEW k \in 1 .. Len(w), NEW m \in 1 .. Len(w), NEW x, NEW z,
                        In(k, x), In(m, z), x <= z, m < k
                 PROVE  FALSE
      BY <1>2
    <2>1. k - 1 \in 0 .. Len(w) /\ m \in 0 .. (k - 1)  BY <1>2
    <2>2. off[m] <= off[k - 1]  BY <1>3, <2>1
    <2>3. off[k - 1] < x /\ z <= off[m] /\ off[k - 1] \in Nat /\ off[m] \in Nat
      BY <1>8
    <2>4. x \in Nat /\ z \in Nat  BY <1>2, <1>8
    <2> QED BY <2>2, <2>3, <2>4
  <1>10. \A k \in 1 .. Len(w) : \A x : In(k, x) => \E i \in DOMAIN w[k] : x = off[k - 1] + i /\ all[x] = w[k][i]
    BY <1>1, <1>2 DEF Laid
  <1>11. \A y \in 1 .. Len(xs) : b[y] \in 1 .. Len(w) /\ In(b[y], p[y])
    BY <1>6, <1>7
  <1> HIDE DEF b, In
  <1>12. \A y \in 1 .. Len(xs) : ~Catalog!Raises(xs[y])
    <2> SUFFICES ASSUME NEW y \in 1 .. Len(xs)
                 PROVE  ~Catalog!Raises(xs[y])
      OBVIOUS
    <2>1. p[y] \in 1 .. p[y]  BY <1>4, <1>6
    <2> QED BY <1>6, <2>1
  <1>13. \A y \in 1 .. Len(xs) : \E i \in DOMAIN w[b[y]] : xs[y] = w[b[y]][i]
    BY <1>6, <1>10, <1>11
  <1>14. \A y, z \in 1 .. Len(xs) : y < z => b[y] <= b[z]
    <2> SUFFICES ASSUME NEW y \in 1 .. Len(xs), NEW z \in 1 .. Len(xs), y < z
                 PROVE  b[y] <= b[z]
      OBVIOUS
    <2>1. p[y] < p[z]  BY <1>5, <1>6 DEF Leads
    <2>2. p[y] <= p[z]  BY <1>4, <1>6, <2>1
    <2> QED BY <1>9, <1>11, <2>2
  <1>15. ASSUME NEW k \in 1 .. Len(w),
                \A j \in 1 .. k : \A i \in DOMAIN w[j] : ~Catalog!Raises(w[j][i]),
                NEW i \in DOMAIN w[k]
         PROVE  \E y \in 1 .. Len(xs) : xs[y] = w[k][i]
    <2> DEFINE x == off[k - 1] + i
    <2>1. i \in 1 .. Len(w[k])  BY <1>2
    <2>2. x \in 1 .. Len(all) /\ all[x] = w[k][i] /\ In(k, x)
      BY <1>1, <2>1 DEF Laid, In
    <2> HIDE DEF x
    <2>3. \A j \in 1 .. x : ~Catalog!Raises(all[j])
      <3> SUFFICES ASSUME NEW j \in 1 .. x
                   PROVE  ~Catalog!Raises(all[j])
        OBVIOUS
      <3>1. j \in 1 .. Len(all) /\ j <= x  BY <1>4, <2>2
      <3>2. PICK m \in 1 .. Len(w) : In(m, j)  BY <1>7, <3>1
      <3>3. m <= k  BY <1>9, <2>2, <3>1, <3>2
      <3>4. m \in 1 .. k  BY <1>2, <3>3
      <3> QED BY <1>10, <1>15, <3>2, <3>4
    <2>4. x \in quiet  BY <1>4, <2>2, <2>3
    <2>5. PICK y \in DOMAIN p : p[y] = x  BY <1>5, <2>2, <2>4 DEF Leads
    <2> QED BY <1>6, <2>2, <2>5
  <1>16. Drawn(xs, w, b)  BY <1>6, <1>11, <1>12, <1>13, <1>14, <1>15 DEF Drawn
  <1> QED BY <1>16, Zenon DEF xs, all

\* out is q and what is new of xs, out[Len(q) + k] being xs[g[k]].
Grown(out, q, xs, g) ==
    /\ IsSeq(out) /\ IsSeq(g) /\ Len(out) = Len(q) + Len(g)
    /\ \A i \in 1 .. Len(q) : out[i] = q[i]
    /\ \A k \in 1 .. Len(g) : g[k] \in 1 .. Len(xs) /\ out[Len(q) + k] = xs[g[k]]
    /\ \A j, k \in 1 .. Len(g) : j < k => g[j] < g[k]
    /\ \A y \in 1 .. Len(xs) :
          \E m \in 1 .. Len(out) : Catalog!Key(out[m]) = Catalog!Key(xs[y])

LEMMA GrownIs ==
    ASSUME NEW q, NEW xs, IsSeq(q), IsSeq(xs)
    PROVE  \E g : Grown(Catalog!Catalogued(q, xs), q, xs, g)
  <1> DEFINE out == Catalog!Catalogued(q, xs)
             fresh == {i \in DOMAIN xs : /\ \A j \in DOMAIN q : Catalog!Key(q[j]) # Catalog!Key(xs[i])
                                         /\ \A j \in 1 .. (i - 1) : Catalog!Key(xs[j]) # Catalog!Key(xs[i])}
             tail == Catalog!Select(xs, fresh)
  <1>1. out = q \o tail  BY Zenon DEF Catalog!Catalogued
  <1>2. PICK g : Leads(g, Len(xs), fresh) /\ Gives(tail, xs, g)  BY SelectIs
  <1> HIDE DEF out, tail
  <1>3. /\ Len(q) \in Nat /\ DOMAIN q = 1 .. Len(q) /\ Len(xs) \in Nat /\ DOMAIN xs = 1 .. Len(xs)
        /\ IsSeq(g) /\ Len(g) \in Nat /\ DOMAIN g = 1 .. Len(g) /\ IsSeq(tail) /\ Len(tail) = Len(g)
        /\ \A k \in 1 .. Len(g) : tail[k] = xs[g[k]] /\ g[k] \in 1 .. Len(xs)
    BY <1>2, SeqFacts DEF Leads, Gives
  <1>4. /\ IsSeq(out) /\ Len(out) = Len(q) + Len(g)
        /\ \A i \in 1 .. Len(q) : out[i] = q[i]
        /\ \A i \in 1 .. Len(g) : out[Len(q) + i] = tail[i]
    <2>1. PICK r : r = q \o tail  OBVIOUS
    <2>2. /\ IsSeq(r) /\ Len(r) = Len(q) + Len(tail)
          /\ \A i \in 1 .. Len(q) : r[i] = q[i]
          /\ \A i \in 1 .. Len(tail) : r[Len(q) + i] = tail[i]
      BY <1>3, <2>1, JoinedIs
    <2>3. out = r /\ Len(tail) = Len(g)  BY <1>1, <1>3, <2>1
    <2> QED BY <2>2, <2>3, Zenon
  <1>5. \A j, k \in 1 .. Len(g) : j < k => g[j] < g[k]  BY <1>2, <1>3 DEF Leads
  <1>6. ASSUME NEW y \in 1 .. Len(xs)
        PROVE  \E m \in 1 .. Len(out) : Catalog!Key(out[m]) = Catalog!Key(xs[y])
    <2> DEFINE T == {z \in 1 .. Len(xs) : Catalog!Key(xs[z]) = Catalog!Key(xs[y])}
    <2>1. T \subseteq Nat /\ T # {}  BY <1>3, <1>6
    <2>2. PICK z \in T : \A v \in T : z <= v  BY <2>1, Least
    <2>3. \A j \in 1 .. (z - 1) : Catalog!Key(xs[j]) # Catalog!Key(xs[z])
      <3> SUFFICES ASSUME NEW j \in 1 .. (z - 1), Catalog!Key(xs[j]) = Catalog!Key(xs[z])
                   PROVE  FALSE
        OBVIOUS
      <3>1. j \in 1 .. Len(xs) /\ ~(z <= j)  BY <1>3, <2>2
      <3> QED BY <2>2, <3>1
    <2>4. CASE \E j \in DOMAIN q : Catalog!Key(q[j]) = Catalog!Key(xs[z])
      <3>1. PICK j \in DOMAIN q : Catalog!Key(q[j]) = Catalog!Key(xs[z])  BY <2>4
      <3>2. j \in 1 .. Len(out) /\ out[j] = q[j]  BY <1>3, <1>4
      <3> QED BY <2>2, <3>1, <3>2
    <2>5. CASE ~\E j \in DOMAIN q : Catalog!Key(q[j]) = Catalog!Key(xs[z])
      <3>1. z \in fresh  BY <1>3, <2>2, <2>3, <2>5
      <3>2. PICK k \in DOMAIN g : g[k] = z  BY <1>2, <1>3, <2>2, <3>1 DEF Leads
      <3>3. Len(q) + k \in 1 .. Len(out) /\ out[Len(q) + k] = xs[z]
        BY <1>3, <1>4, <3>2
      <3> QED BY <2>2, <3>3
    <2> QED BY <2>4, <2>5
  <1>7. Grown(out, q, xs, g)  BY <1>3, <1>4, <1>5, <1>6 DEF Grown
  <1> QED BY <1>7 DEF out

\* Messages of calls that exist, and results that show what the call printed.
Heard(ms) ==
    /\ IsSeq(ms)
    /\ \A i \in DOMAIN ms : /\ ms[i].id \in DOMAIN MCCalls /\ ms[i].kind \in {"call", "result"}
                            /\ ms[i].kind = "result" => Returned(ms[i].id, ms[i].lines)

\* A request carries each of its calls with its result.
Carries(ms) == /\ Heard(ms) /\ Catalog!IdsOf(ms, "call") = Catalog!IdsOf(ms, "result")
               /\ Catalog!IdsOf(ms, "call") \subseteq carried

Recorded == IsSeq(audit) /\ \A a \in DOMAIN audit : Carries(audit[a])

\* What the projector finds in the trace of a turn: the newly completed calls,
\* the candidates of each, and the calls that are done with.
Found(new, w, done) ==
    /\ Lists(new, IdsIn(audit, "call") \ processed)
    /\ IsSeq(w) /\ DOMAIN w = DOMAIN new /\ Len(w) = Len(new)
    /\ \A k \in DOMAIN new : /\ new[k] \in DOMAIN MCCalls
                             /\ Yields(w[k], new[k]) /\ Telling(w[k], new[k])
    /\ done = {k \in DOMAIN new : \A j \in 1 .. k : \A i \in DOMAIN w[j] : ~Catalog!Raises(w[j][i])}

\* Adding it: all that does not come after a candidate that raises.
Outcome(out, new, w, done) ==
    /\ LET all   == Catalog!FlattenSeq(w)
           quiet == {i \in DOMAIN all : \A j \in 1 .. i : ~Catalog!Raises(all[j])}
       IN  out.items = Catalog!Catalogued(items, Catalog!Select(all, quiet))
    /\ out.events = events \o Catalog!Collected(items, out.items)
    /\ out.processed = processed \cup {new[k] : k \in done}
    /\ out.raised <=> done # DOMAIN new

LEMMA FoundIs ==
    ASSUME Catalog!InputsAssumption, Catalog!LimitsPositive, Recorded
    PROVE  \E new, w, done :
              Found(new, w, done) /\ Outcome(Catalog!ProcessTrace(Catalog!Trace(audit)), new, w, done)
  <1> DEFINE trace == Catalog!Trace(audit)
             U == DOMAIN trace.results \ processed
             new == Catalog!Select(trace.calls, {i \in DOMAIN trace.calls : trace.calls[i] \in U})
             w == [k \in DOMAIN new |-> Catalog!Projected(new[k], trace.results[new[k]])]
             done == {k \in DOMAIN new : \A j \in 1 .. k : \A i \in DOMAIN w[j] :
                                            ~Catalog!Raises(w[j][i])}
             all == Catalog!FlattenSeq(w)
             quiet == {i \in DOMAIN all : \A j \in 1 .. i : ~Catalog!Raises(all[j])}
             out == Catalog!ProcessTrace(trace)
             into == Catalog!Catalogued(items, Catalog!Select(all, quiet))
  <1>1. out = [items |-> into,
               events |-> events \o Catalog!Collected(items, into),
               processed |-> processed \cup {new[k] : k \in done},
               raised |-> done # DOMAIN new]
    BY Zenon DEF Catalog!ProcessTrace
  <1>2. IsSeq(audit) /\ \A a \in DOMAIN audit : IsSeq(audit[a]) /\ Carries(audit[a])
    BY DEF Recorded, Carries, Heard
  <1>3. /\ Lists(trace.calls, IdsIn(audit, "call"))
        /\ DOMAIN trace.results = IdsIn(audit, "result")
        /\ \A c \in IdsIn(audit, "result") :
              \E a \in DOMAIN audit : \E i \in DOMAIN audit[a] :
                 trace.results[c] = audit[a][i] /\ audit[a][i].kind = "result" /\ audit[a][i].id = c
    BY <1>2, TraceIs
  <1>4. IdsIn(audit, "call") = IdsIn(audit, "result")  BY <1>2 DEF IdsIn, Carries
  <1> HIDE DEF trace
  <1>5. Lists(new, IdsIn(audit, "call") \cap U)  BY <1>3, SelectLists
  <1>6. IdsIn(audit, "call") \cap U = IdsIn(audit, "call") \ processed
    BY <1>3, <1>4
  <1> HIDE DEF new
  <1>7. IsSeq(new) /\ Len(new) \in Nat /\ DOMAIN new = 1 .. Len(new)
    BY <1>5, SeqFacts DEF Lists
  <1>8. IsSeq(w) /\ Len(w) = Len(new) /\ DOMAIN w = 1 .. Len(new)
    BY <1>7, BuiltIsSeq
  <1>9. \A k \in DOMAIN new : /\ new[k] \in DOMAIN MCCalls
                              /\ Yields(w[k], new[k]) /\ Telling(w[k], new[k])
    <2> SUFFICES ASSUME NEW k \in DOMAIN new
                 PROVE  new[k] \in DOMAIN MCCalls /\ Yields(w[k], new[k]) /\ Telling(w[k], new[k])
      OBVIOUS
    <2>1. PICK c : c = new[k]  OBVIOUS
    <2>2. c \in IdsIn(audit, "result")  BY <1>4, <1>5, <2>1 DEF Lists
    <2>3. PICK a \in DOMAIN audit : \E i \in DOMAIN audit[a] :
             trace.results[c] = audit[a][i] /\ audit[a][i].kind = "result" /\ audit[a][i].id = c
      BY <1>3, <2>2
    <2>31. PICK i \in DOMAIN audit[a] :
             trace.results[c] = audit[a][i] /\ audit[a][i].kind = "result" /\ audit[a][i].id = c
      BY <2>3
    <2>4. c \in DOMAIN MCCalls /\ Returned(c, trace.results[c].lines)
      BY <1>2, <2>31 DEF Carries, Heard
    <2>5. PICK result : result = trace.results[c]  OBVIOUS
    <2>6. Yields(Catalog!Projected(c, result), c) /\ Telling(Catalog!Projected(c, result), c)
      BY <2>4, <2>5, ProjectedIs
    <2>7. w[k] = Catalog!Projected(c, result)  BY <2>1, <2>5
    <2> QED BY <2>1, <2>4, <2>6, <2>7
  <1>10. Found(new, w, done)  BY <1>5, <1>6, <1>7, <1>8, <1>9 DEF Found
  <1>11. /\ out.items = into
         /\ out.events = events \o Catalog!Collected(items, into)
         /\ out.processed = processed \cup {new[k] : k \in done}
         /\ out.raised = (done # DOMAIN new)
    <2> HIDE DEF w, done, into, out
    <2> QED BY <1>1
  <1>12. Outcome(out, new, w, done)
    <2>1. out.items = Catalog!Catalogued(items, Catalog!Select(all, quiet))
      BY <1>11
    <2> HIDE DEF w, out, all, quiet, into
    <2> QED BY <1>11, <2>1, Zenon DEF Outcome, all, quiet
  <1> HIDE DEF w, done, out
  <1> QED BY <1>10, <1>12, Zenon DEF out, trace

\* Evidence with the same key says the same of a call.
LEMMA TellingGoes ==
    ASSUME NEW xs, NEW ys, NEW c, Telling(xs, c),
           \A i \in DOMAIN xs : \E m \in DOMAIN ys : Catalog!Key(ys[m]) = Catalog!Key(xs[i])
    PROVE  Telling(ys, c)
  <1>1. \A i \in DOMAIN xs : \E m \in DOMAIN ys :
           /\ ys[m].source = xs[i].source /\ ys[m].raw = xs[i].raw /\ ys[m].line = xs[i].line
    BY DEF Catalog!Key
  <1>2. \A s, raw, line : Stands(xs, s, raw, line) => Stands(ys, s, raw, line)
    BY <1>1 DEF Stands
  <1>3. (\E k \in DOMAIN xs : xs[k].source \in {MCCalls[c].output, c})
        => \E k \in DOMAIN ys : ys[k].source \in {MCCalls[c].output, c}
    BY <1>1
  <1> QED BY <1>2, <1>3 DEF Telling

\* The catalog r is items and what the calls of T gave, call by call; those of D
\* are told of.
Adds(r, T, D) ==
    /\ IsSeq(r) /\ Len(items) <= Len(r) /\ \A i \in 1 .. Len(items) : r[i] = items[i]
    /\ \A m \in Len(items) + 1 .. Len(r) : Fits(r[m]) /\ r[m].call \in T /\ ~Catalog!Raises(r[m])
    /\ \A m, n \in Len(items) + 1 .. Len(r) : r[m].call = r[n].call =>
          /\ Catalog!GroupKey(r[m]) = Catalog!GroupKey(r[n])
          /\ \A l \in m .. n : r[l].call = r[m].call
    /\ \A c \in D : Telling(r, c)

LEMMA AddsIs ==
    ASSUME IsSeq(items), NEW out, NEW new, NEW w, NEW done, Found(new, w, done),
           Outcome(out, new, w, done)
    PROVE  Adds(out.items, IdsIn(audit, "call") \ processed, {new[k] : k \in done})
  <1> DEFINE all == Catalog!FlattenSeq(w)
             xs == Catalog!Select(all, {i \in DOMAIN all : \A j \in 1 .. i : ~Catalog!Raises(all[j])})
             n == Len(items)
  <1>1. /\ IsSeq(w) /\ DOMAIN w = DOMAIN new /\ Len(w) = Len(new)
        /\ \A k \in DOMAIN new : /\ new[k] \in IdsIn(audit, "call") \ processed
                                 /\ Yields(w[k], new[k]) /\ Telling(w[k], new[k])
        /\ \A j, k \in DOMAIN new : new[j] = new[k] => j = k
    BY DEF Found, Lists
  <1>2. DOMAIN new = 1 .. Len(w) /\ Len(w) \in Nat /\ DOMAIN w = 1 .. Len(w)
        /\ \A k \in DOMAIN w : IsSeq(w[k])
    BY <1>1, SeqFacts DEF Yields
  <1>3. PICK b : Drawn(xs, w, b)  BY <1>1, <1>2, DrawnIs
  <1>4. out.items = Catalog!Catalogued(items, xs)  BY DEF Outcome
  <1> HIDE DEF xs
  <1>5. PICK r : r = out.items  OBVIOUS
  <1>6. PICK g : Grown(r, items, xs, g)  BY <1>3, <1>4, <1>5, GrownIs DEF Drawn
  <1>7. n \in Nat /\ Len(xs) \in Nat /\ Len(g) \in Nat /\ IsSeq(r) /\ Len(r) = n + Len(g)
        /\ DOMAIN r = 1 .. Len(r) /\ DOMAIN items = 1 .. n
    BY <1>3, <1>6, SeqFacts DEF Grown, Drawn
  <1> DEFINE B(m) == b[g[m - n]]
  <1>8. \A m \in n + 1 .. Len(r) :
           /\ m - n \in 1 .. Len(g) /\ g[m - n] \in 1 .. Len(xs) /\ r[m] = xs[g[m - n]]
    <2> SUFFICES ASSUME NEW m \in n + 1 .. Len(r)
                 PROVE  m - n \in 1 .. Len(g) /\ g[m - n] \in 1 .. Len(xs) /\ r[m] = xs[g[m - n]]
      OBVIOUS
    <2>1. m - n \in 1 .. Len(g) /\ n + (m - n) = m  BY <1>7
    <2> QED BY <1>6, <2>1 DEF Grown
  <1>9. \A m \in n + 1 .. Len(r) :
           B(m) \in 1 .. Len(w) /\ ~Catalog!Raises(r[m]) /\ \E i \in DOMAIN w[B(m)] : r[m] = w[B(m)][i]
    <2> SUFFICES ASSUME NEW m \in n + 1 .. Len(r)
                 PROVE  /\ B(m) \in 1 .. Len(w) /\ ~Catalog!Raises(r[m])
                        /\ \E i \in DOMAIN w[B(m)] : r[m] = w[B(m)][i]
      OBVIOUS
    <2>1. PICK y : y = g[m - n]  OBVIOUS
    <2>2. y \in 1 .. Len(xs) /\ r[m] = xs[y] /\ B(m) = b[y]  BY <1>8, <2>1
    <2>3. b[y] \in 1 .. Len(w) /\ ~Catalog!Raises(xs[y]) /\ \E i \in DOMAIN w[b[y]] : xs[y] = w[b[y]][i]
      BY <1>3, <2>2 DEF Drawn
    <2> HIDE DEF B
    <2> QED BY <2>2, <2>3, Zenon
  <1>10. \A m, l \in n + 1 .. Len(r) : m <= l => B(m) <= B(l)
    <2> SUFFICES ASSUME NEW m \in n + 1 .. Len(r), NEW l \in n + 1 .. Len(r), m <= l
                 PROVE  B(m) <= B(l)
      OBVIOUS
    <2>1. CASE m = l  BY <1>2, <1>9, <2>1
    <2>2. CASE m < l
      <3>1. m - n < l - n  BY <1>7, <2>2
      <3>2. g[m - n] < g[l - n]  BY <1>6, <1>8, <3>1 DEF Grown
      <3> QED BY <1>3, <1>8, <3>2 DEF Drawn
    <2> QED BY <1>7, <2>1, <2>2
  <1> HIDE DEF B
  <1>11. \A m \in n + 1 .. Len(r) : Fits(r[m]) /\ r[m].call = new[B(m)]
    BY <1>1, <1>2, <1>9 DEF Yields
  <1>12. ASSUME NEW m \in n + 1 .. Len(r), NEW o \in n + 1 .. Len(r), r[m].call = r[o].call
         PROVE  /\ Catalog!GroupKey(r[m]) = Catalog!GroupKey(r[o])
                /\ \A l \in m .. o : r[l].call = r[m].call
    <2>1. B(m) = B(o)  BY <1>1, <1>2, <1>9, <1>11, <1>12
    <2>2. Catalog!GroupKey(r[m]) = Catalog!GroupKey(r[o])
      BY <1>1, <1>2, <1>9, <2>1 DEF Yields
    <2>3. ASSUME NEW l \in m .. o
          PROVE  r[l].call = r[m].call
      <3>1. l \in n + 1 .. Len(r) /\ m <= l /\ l <= o  BY <1>7
      <3>2. B(m) <= B(l) /\ B(l) <= B(o)  BY <1>10, <3>1
      <3>3. B(l) = B(m)  BY <1>2, <1>9, <2>1, <3>1, <3>2
      <3> QED BY <1>11, <3>1, <3>3
    <2> QED BY <2>2, <2>3
  <1>13. ASSUME NEW k \in done
         PROVE  Telling(r, new[k])
    <2>1. k \in DOMAIN new /\ \A j \in 1 .. k : \A i \in DOMAIN w[j] : ~Catalog!Raises(w[j][i])
      BY <1>13 DEF Found
    <2>2. k \in 1 .. Len(w)  BY <1>2, <2>1
    <2>3. \A i \in DOMAIN w[k] : \E y \in 1 .. Len(xs) : xs[y] = w[k][i]
      BY <1>3, <2>1, <2>2 DEF Drawn
    <2>4. \A i \in DOMAIN w[k] : \E m \in DOMAIN r : Catalog!Key(r[m]) = Catalog!Key(w[k][i])
      <3> SUFFICES ASSUME NEW i \in DOMAIN w[k]
                   PROVE  \E m \in DOMAIN r : Catalog!Key(r[m]) = Catalog!Key(w[k][i])
        OBVIOUS
      <3>1. PICK y \in 1 .. Len(xs) : xs[y] = w[k][i]  BY <2>3
      <3> QED BY <1>6, <1>7, <3>1 DEF Grown
    <2>5. Telling(w[k], new[k])  BY <1>1, <2>1
    <2> QED BY <2>4, <2>5, TellingGoes
  <1>14. \A i \in 1 .. n : r[i] = items[i]  BY <1>6 DEF Grown
  <1>15. \A m \in n + 1 .. Len(r) : r[m].call \in IdsIn(audit, "call") \ processed
    BY <1>1, <1>2, <1>9, <1>11
  <1>16. n <= Len(r)  BY <1>7
  <1>17. Adds(r, IdsIn(audit, "call") \ processed, {new[k] : k \in done})
    <2>1. \A c \in {new[k] : k \in done} : Telling(r, c)  BY <1>13
    <2> QED BY <1>7, <1>9, <1>11, <1>12, <1>14, <1>15, <1>16, <2>1 DEF Adds
  <1> QED BY <1>5, <1>17

MessagesInv ==
    /\ Heard(transcript) /\ Recorded /\ phase \in {"idle", "turn", "final", "failed"}
    /\ carried \subseteq DOMAIN MCCalls /\ carried \subseteq seenCalls
    /\ carried \subseteq seenResults /\ processed \subseteq carried
    /\ phase = "turn" => carried \subseteq processed \cup IdsIn(audit, "call")
    /\ phase \in {"idle", "final"} => carried \subseteq processed

CatalogInv ==
    /\ IsSeq(items)
    /\ \A i \in DOMAIN items : /\ Fits(items[i]) /\ items[i].call \in carried
                               /\ ~Catalog!Raises(items[i])
    /\ \A c \in processed : Telling(items, c)
    /\ phase # "failed" =>
          /\ \A i \in DOMAIN items : items[i].call \in processed
          /\ \A i, j \in DOMAIN items : items[i].call = items[j].call =>
                /\ Catalog!GroupKey(items[i]) = Catalog!GroupKey(items[j])
                /\ \A l \in i .. j : items[l].call = items[i].call

\* What the end of a turn does: of the calls T that became complete D are
\* processed, all of them unless the turn fails.
Ends(T, D) ==
    /\ Adds(items', T, D) /\ D \subseteq T
    /\ events' = events \o Catalog!Collected(items, items')
    /\ processed' = processed \cup D
    /\ \/ phase' = "idle" /\ D = T
       \/ phase' = "failed"

LEMMA EndIs ==
    ASSUME Catalog!InputsAssumption, Catalog!LimitsPositive, Recorded, IsSeq(items), Catalog!EndTurn
    PROVE  \E D : Ends(IdsIn(audit, "call") \ processed, D)
  <1> DEFINE out == Catalog!ProcessTrace(Catalog!Trace(audit))
             T == IdsIn(audit, "call") \ processed
  <1>1. PICK new, w, done : Found(new, w, done) /\ Outcome(out, new, w, done)
    BY FoundIs
  <1>2. /\ items' = out.items /\ events' = out.events /\ processed' = out.processed
        /\ phase' = IF out.raised THEN "failed" ELSE "idle"
    BY Zenon DEF Catalog!EndTurn
  <1> DEFINE D == {new[k] : k \in done}
  <1> HIDE DEF out
  <1>3. Adds(items', T, D)
    <2>1. PICK r : r = out.items  OBVIOUS
    <2>2. Adds(r, T, D)  BY <1>1, <2>1, AddsIs
    <2> QED BY <1>2, <2>1, <2>2
  <1>4. D \subseteq T  BY <1>1 DEF Found, Lists
  <1>5. ~out.raised => D = T
    <2>1. out.raised <=> done # DOMAIN new  BY <1>1 DEF Outcome
    <2>2. \A c \in T : \E k \in DOMAIN new : new[k] = c  BY <1>1 DEF Found, Lists
    <2> QED BY <1>4, <2>1, <2>2
  <1>6. events' = events \o Catalog!Collected(items, items') /\ processed' = processed \cup D
    <2>1. out.events = events \o Catalog!Collected(items, out.items)
          /\ out.processed = processed \cup D
      BY <1>1 DEF Outcome
    <2> QED BY <1>2, <2>1
  <1>7. (phase' = "idle" /\ D = T) \/ phase' = "failed"  BY <1>2, <1>5
  <1>8. Ends(T, D)  BY <1>3, <1>4, <1>6, <1>7 DEF Ends
  <1> QED BY <1>8

\* More messages are heard.
LEMMA HeardMore ==
    ASSUME NEW ms, Heard(ms), NEW m, m.id \in DOMAIN MCCalls, m.kind \in {"call", "result"},
           m.kind = "result" => Returned(m.id, m.lines)
    PROVE  Heard(Append(ms, m))
  <1>1. PICK r : r = Append(ms, m)  OBVIOUS
  <1>2. /\ IsSeq(ms) /\ IsSeq(r) /\ DOMAIN ms = 1 .. Len(ms) /\ Len(ms) \in Nat
        /\ DOMAIN r = 1 .. Len(ms) + 1 /\ \A i \in 1 .. Len(ms) : r[i] = ms[i]
        /\ r[Len(ms) + 1] = m
    BY <1>1, OneMore DEF Heard
  <1>3. \A i \in 1 .. Len(ms) + 1 : i \in 1 .. Len(ms) \/ i = Len(ms) + 1  BY <1>2
  <1>4. Heard(r)  BY <1>2, <1>3 DEF Heard
  <1> QED BY <1>1, <1>4

LEMMA HeardLess ==
    ASSUME NEW ms, Heard(ms), NEW k \in 1 .. Len(ms)
    PROVE  Heard(SubSeq(ms, k + 1, Len(ms)))
  <1> DEFINE n == Len(ms)
  <1>1. IsSeq(ms) /\ n \in Nat /\ DOMAIN ms = 1 .. n  BY SeqFacts DEF Heard
  <1>2. PICK r : r = SubSeq(ms, k + 1, n)  OBVIOUS
  <1>3. r = [i \in 1 .. (n - k) |-> ms[k + i]]
    <2>1. r = [i \in 1 .. ((n - (k + 1)) + 1) |-> ms[(k + 1 + i) - 1]]
      BY <1>1, <1>2
    <2>2. (n - (k + 1)) + 1 = n - k /\ \A i \in Nat : (k + 1 + i) - 1 = k + i
      BY <1>1
    <2> QED BY <1>1, <1>2, SMT
  <1>4. n - k \in Nat /\ \A i \in 1 .. (n - k) : k + i \in 1 .. n  BY <1>1
  <1>5. r = [i \in 1 .. (n - k) |-> r[i]] /\ \A i \in 1 .. (n - k) : r[i] = ms[k + i]
    BY <1>3
  <1>6. IsSeq(r) /\ DOMAIN r = 1 .. (n - k)  BY <1>4, <1>5, BuiltIsSeq
  <1>7. \A i \in DOMAIN r : \E j \in DOMAIN ms : r[i] = ms[j]
    BY <1>1, <1>4, <1>5, <1>6
  <1>8. Heard(r)  BY <1>6, <1>7 DEF Heard
  <1> QED BY <1>2, <1>8

\* The requests of a turn and one more.
LEMMA OneMoreRequest ==
    ASSUME NEW w, IsSeq(w), NEW ms, NEW kind
    PROVE  /\ IdsIn(Append(w, ms), kind) = IdsIn(w, kind) \cup Catalog!IdsOf(ms, kind)
           /\ IdsIn(<<>>, kind) = {}
           /\ \A a \in DOMAIN Append(w, ms) : Append(w, ms)[a] = ms
                 \/ \E b \in DOMAIN w : Append(w, ms)[a] = w[b]
  <1>1. PICK r : r = Append(w, ms)  OBVIOUS
  <1>2. /\ DOMAIN w = 1 .. Len(w) /\ Len(w) \in Nat
        /\ DOMAIN r = 1 .. Len(w) + 1 /\ \A i \in 1 .. Len(w) : r[i] = w[i]
        /\ r[Len(w) + 1] = ms
    BY <1>1, OneMore
  <1>3. \A i \in 1 .. Len(w) + 1 : i \in 1 .. Len(w) \/ i = Len(w) + 1  BY <1>2
  <1>31. \A i \in 1 .. Len(w) : i \in DOMAIN r  BY <1>2
  <1>32. Len(w) + 1 \in DOMAIN r  BY <1>2
  <1>4. IdsIn(r, kind) = IdsIn(w, kind) \cup Catalog!IdsOf(ms, kind)
    <2>1. ASSUME NEW c \in IdsIn(r, kind)
          PROVE  c \in IdsIn(w, kind) \cup Catalog!IdsOf(ms, kind)
      <3>1. PICK a \in DOMAIN r : c \in Catalog!IdsOf(r[a], kind)  BY <2>1 DEF IdsIn
      <3> QED BY <1>2, <1>3, <3>1 DEF IdsIn
    <2>2. ASSUME NEW c \in IdsIn(w, kind)
          PROVE  c \in IdsIn(r, kind)
      <3>1. PICK a \in DOMAIN w : c \in Catalog!IdsOf(w[a], kind)  BY <2>2 DEF IdsIn
      <3>2. a \in DOMAIN r /\ r[a] = w[a]  BY <1>2, <1>31, <3>1
      <3> QED BY <3>1, <3>2 DEF IdsIn
    <2>3. ASSUME NEW c \in Catalog!IdsOf(ms, kind)
          PROVE  c \in IdsIn(r, kind)
      BY <1>2, <1>32, <2>3 DEF IdsIn
    <2> QED BY <2>1, <2>2, <2>3
  <1>5. IdsIn(<<>>, kind) = {}  BY EmptyIsSeq DEF IdsIn
  <1>6. \A a \in DOMAIN r : r[a] = ms \/ \E b \in DOMAIN w : r[a] = w[b]
    BY <1>2, <1>3
  <1> QED BY <1>1, <1>4, <1>5, <1>6

\* What the steps of the agent and the host leave alone.
LEMMA MessagesStay ==
    ASSUME MessagesInv, Heard(transcript)', UNCHANGED <<audit, seenCalls, seenResults, processed, carried, phase>>
    PROVE  MessagesInv'
  BY DEF MessagesInv, Recorded, Carries

LEMMA MessagesStep ==
    ASSUME Catalog!InputsAssumption, Catalog!LimitsPositive, MessagesInv, IsSeq(items), Catalog!Next
    PROVE  MessagesInv'
  <1> USE DEF Catalog!agentVars, Catalog!observerVars, Catalog!catalogVars
  <1>1. CASE Catalog!BeginTurn
    <2>1. /\ audit' = <<>> /\ phase' = "turn" /\ phase = "idle" /\ transcript' = transcript
          /\ carried' = carried /\ processed' = processed /\ seenCalls' = seenCalls
          /\ seenResults' = seenResults
      BY <1>1 DEF Catalog!BeginTurn
    <2>2. Recorded'  BY <2>1, EmptyIsSeq DEF Recorded
    <2> QED BY <2>1, <2>2 DEF MessagesInv, Heard
  <1>2. CASE Catalog!Request
    <2> DEFINE ids == Catalog!IdsOf(transcript, "call")
    <2>1. /\ audit' = Append(audit, transcript) /\ phase' = phase /\ phase = "turn"
          /\ transcript' = transcript /\ processed' = processed
          /\ ids = Catalog!IdsOf(transcript, "result")
          /\ carried' = carried \cup (ids \cap Catalog!IdsOf(transcript, "result"))
          /\ seenCalls' = seenCalls \cup ids
          /\ seenResults' = seenResults \cup Catalog!IdsOf(transcript, "result")
      BY <1>2 DEF Catalog!Request
    <2>2. ids \subseteq DOMAIN MCCalls  BY IdsIs DEF MessagesInv, Heard
    <2> HIDE DEF ids
    <2>3. carried' = carried \cup ids  BY <2>1
    <2>4. IsSeq(audit) /\ IsSeq(Append(audit, transcript))
      BY OneMore DEF MessagesInv, Recorded
    <2>5. /\ IdsIn(Append(audit, transcript), "call") = IdsIn(audit, "call") \cup ids
          /\ \A a \in DOMAIN Append(audit, transcript) : Append(audit, transcript)[a] = transcript
                 \/ \E b \in DOMAIN audit : Append(audit, transcript)[a] = audit[b]
      BY <2>4, OneMoreRequest DEF ids
    <2>6. \A ms : (Carries(ms) \/ ms = transcript) => Carries(ms)'
      BY <2>1, <2>3 DEF Carries, MessagesInv, Heard, ids
    <2>7. PICK r : r = Append(audit, transcript)  OBVIOUS
    <2>8. audit' = r /\ IsSeq(r) /\ IdsIn(r, "call") = IdsIn(audit, "call") \cup ids
          /\ \A a \in DOMAIN r : r[a] = transcript \/ \E b \in DOMAIN audit : r[a] = audit[b]
      BY <2>1, <2>4, <2>5, <2>7
    <2>9. \A a \in DOMAIN r : Carries(r[a])'
      BY <2>6, <2>8 DEF MessagesInv, Recorded
    <2>10. Recorded'  BY <2>8, <2>9 DEF Recorded
    <2> QED BY <2>1, <2>2, <2>3, <2>8, <2>10 DEF MessagesInv, Heard
  <1>3. ASSUME NEW c \in DOMAIN MCCalls, Catalog!Invoke(c)
        PROVE  MessagesInv'
    <2> DEFINE m == [kind |-> "call", id |-> c, lines |-> <<>>, omitted |-> FALSE]
    <2>1. transcript' = Append(transcript, m)
          /\ UNCHANGED <<audit, seenCalls, seenResults, processed, carried, phase>>
      BY <1>3 DEF Catalog!Invoke
    <2>2. m.id \in DOMAIN MCCalls /\ m.kind = "call"  OBVIOUS
    <2> HIDE DEF m
    <2>3. Heard(Append(transcript, m))  BY <2>2, HeardMore DEF MessagesInv
    <2> QED BY <2>1, <2>3, MessagesStay DEF Heard
  <1>4. ASSUME NEW c \in DOMAIN MCCalls, NEW warned \in BOOLEAN, NEW omitted \in BOOLEAN,
               Catalog!Return(c, warned, omitted)
        PROVE  MessagesInv'
    <2> DEFINE shown == Catalog!Printed(c) \o (IF warned THEN <<Catalog!ControlLine>> ELSE <<>>)
               m == [kind |-> "result", id |-> c, omitted |-> omitted, lines |-> shown]
    <2>1. transcript' = Append(transcript, m)
          /\ UNCHANGED <<audit, seenCalls, seenResults, processed, carried, phase>>
      BY <1>4 DEF Catalog!Return
    <2>2. Returned(c, shown)
      <3>1. \A q : IsSeq(q) => q \o <<>> = q  BY DEF IsSeq
      <3>2. IsSeq(Catalog!Printed(c))  BY PrintedIs
      <3> QED BY <3>1, <3>2 DEF Returned
    <2>3. m.id = c /\ m.kind = "result" /\ m.lines = shown  OBVIOUS
    <2> HIDE DEF m, shown
    <2>4. Heard(Append(transcript, m))  BY <2>2, <2>3, HeardMore DEF MessagesInv
    <2> QED BY <2>1, <2>4, MessagesStay DEF Heard
  <1>5. CASE Catalog!Compact
    <2>1. PICK k \in 1 .. Len(transcript) : transcript' = SubSeq(transcript, k + 1, Len(transcript))
      BY <1>5 DEF Catalog!Compact
    <2>2. Heard(SubSeq(transcript, k + 1, Len(transcript)))
      BY HeardLess DEF MessagesInv
    <2>3. UNCHANGED <<audit, seenCalls, seenResults, processed, carried, phase>>
      BY <1>5 DEF Catalog!Compact
    <2> QED BY <2>1, <2>2, <2>3, MessagesStay DEF Heard
  <1>6. CASE Catalog!EndTurn
    <2>1. PICK D : Ends(IdsIn(audit, "call") \ processed, D)
      BY <1>6, EndIs DEF MessagesInv
    <2>2. UNCHANGED <<transcript, audit, seenCalls, seenResults, carried>> /\ phase = "turn"
      BY <1>6 DEF Catalog!EndTurn
    <2>3. IdsIn(audit, "call") \subseteq carried
      BY DEF MessagesInv, Recorded, Carries, IdsIn
    <2>4. /\ processed' = processed \cup D /\ D \subseteq IdsIn(audit, "call") \ processed
          /\ (phase' = "idle" /\ D = IdsIn(audit, "call") \ processed) \/ phase' = "failed"
      BY <2>1 DEF Ends
    <2>5. Recorded' /\ Heard(transcript)'
      BY <2>2 DEF MessagesInv, Recorded, Carries, Heard
    <2> QED BY <2>2, <2>3, <2>4, <2>5 DEF MessagesInv
  <1>7. ASSUME NEW p \in DOMAIN disk, NEW v, Catalog!Touch(p, v)
        PROVE  MessagesInv'
    BY <1>7, MessagesStay DEF Catalog!Touch, MessagesInv, Heard
  <1>8. ASSUME NEW g \in BOOLEAN, Catalog!Load(g)
        PROVE  MessagesInv'
    <2>1. UNCHANGED <<transcript, audit, seenCalls, seenResults, processed, carried>>
          /\ phase = "idle" /\ phase' \in {"final", "failed"}
      BY <1>8 DEF Catalog!Load
    <2>2. Recorded' /\ Heard(transcript)'
      BY <2>1 DEF MessagesInv, Recorded, Carries, Heard
    <2> QED BY <2>1, <2>2 DEF MessagesInv
  <1> QED BY <1>1, <1>2, <1>3, <1>4, <1>5, <1>6, <1>7, <1>8 DEF Catalog!Next

\* A turn that ends keeps the catalog in order, and only appends to it.
LEMMA CatalogEnd ==
    ASSUME MessagesInv, CatalogInv, Catalog!EndTurn,
           NEW D, Ends(IdsIn(audit, "call") \ processed, D)
    PROVE  CatalogInv'
  <1> DEFINE n == Len(items)
             T == IdsIn(audit, "call") \ processed
  <1>1. phase = "turn" /\ carried' = carried  BY DEF Catalog!EndTurn
  <1>2. PICK r : r = items'  OBVIOUS
  <1>3. /\ Adds(r, T, D) /\ processed' = processed \cup D
        /\ (phase' = "idle" /\ D = T) \/ phase' = "failed"
    BY <1>2 DEF Ends
  <1>4. /\ IsSeq(items) /\ n \in Nat /\ DOMAIN items = 1 .. n
        /\ IsSeq(r) /\ Len(r) \in Nat /\ DOMAIN r = 1 .. Len(r)
        /\ n <= Len(r) /\ \A i \in 1 .. n : r[i] = items[i]
    BY <1>3, SeqFacts DEF CatalogInv, Adds
  <1>5. \A m \in 1 .. Len(r) : m \in 1 .. n \/ m \in n + 1 .. Len(r)  BY <1>4
  <1>6. T \subseteq carried  BY DEF MessagesInv, Recorded, Carries, IdsIn
  <1>7. \A m \in n + 1 .. Len(r) : Fits(r[m]) /\ r[m].call \in T /\ ~Catalog!Raises(r[m])
    BY <1>3 DEF Adds
  <1>8. \A i \in 1 .. n : Fits(r[i]) /\ r[i].call \in carried /\ ~Catalog!Raises(r[i])
                          /\ r[i].call \in processed
    BY <1>1, <1>4 DEF CatalogInv
  <1>9. ASSUME NEW c \in processed
        PROVE  Telling(r, c)
    <2>1. Telling(items, c)  BY DEF CatalogInv
    <2>2. \A i \in DOMAIN items : i \in DOMAIN r /\ r[i] = items[i]  BY <1>4
    <2>3. \A i \in DOMAIN items : \E m \in DOMAIN r : Catalog!Key(r[m]) = Catalog!Key(items[i])
      BY <2>2
    <2> QED BY <2>1, <2>3, TellingGoes
  <1>10. \A c \in D : Telling(r, c)  BY <1>3 DEF Adds
  <1>11. ASSUME NEW i \in 1 .. Len(r), NEW j \in 1 .. Len(r), r[i].call = r[j].call
         PROVE  /\ Catalog!GroupKey(r[i]) = Catalog!GroupKey(r[j])
                /\ \A l \in i .. j : r[l].call = r[i].call
    <2>1. CASE i \in 1 .. n /\ j \in 1 .. n
      <3>1. \A l \in i .. j : l \in 1 .. n  BY <1>4, <2>1
      <3>2. items[i].call = items[j].call  BY <1>4, <1>11, <2>1
      <3>3. /\ Catalog!GroupKey(items[i]) = Catalog!GroupKey(items[j])
            /\ \A l \in i .. j : items[l].call = items[i].call
        BY <1>1, <1>4, <2>1, <3>2 DEF CatalogInv
      <3> QED BY <1>4, <2>1, <3>1, <3>3
    <2>2. CASE i \in n + 1 .. Len(r) /\ j \in n + 1 .. Len(r)
      BY <1>3, <1>11, <2>2 DEF Adds
    <2>3. ~(i \in 1 .. n /\ j \in n + 1 .. Len(r)) /\ ~(i \in n + 1 .. Len(r) /\ j \in 1 .. n)
      <3>1. \A x \in 1 .. n : \A y \in n + 1 .. Len(r) : r[x].call # r[y].call
        BY <1>7, <1>8
      <3> QED BY <1>11, <3>1
    <2> QED BY <1>5, <2>1, <2>2, <2>3
  <1>12. \A m \in 1 .. Len(r) : Fits(r[m]) /\ r[m].call \in carried /\ ~Catalog!Raises(r[m])
    BY <1>5, <1>6, <1>7, <1>8
  <1>13. phase' # "failed" => \A m \in 1 .. Len(r) : r[m].call \in processed'
    BY <1>3, <1>5, <1>7, <1>8
  <1>14. \A c \in processed' : Telling(r, c)  BY <1>3, <1>9, <1>10
  <1> HIDE DEF n, T
  <1>15. /\ IsSeq(items') /\ DOMAIN items' = 1 .. Len(r)
         /\ \A c \in processed' : Telling(items', c)
         /\ \A i \in DOMAIN items' : /\ Fits(items'[i]) /\ items'[i].call \in carried'
                                     /\ ~Catalog!Raises(items'[i])
         /\ phase' # "failed" => \A i \in DOMAIN items' : items'[i].call \in processed'
         /\ \A i, j \in DOMAIN items' : items'[i].call = items'[j].call =>
                /\ Catalog!GroupKey(items'[i]) = Catalog!GroupKey(items'[j])
                /\ \A l \in i .. j : items'[l].call = items'[i].call
    BY <1>1, <1>2, <1>4, <1>11, <1>12, <1>13, <1>14
  <1> QED BY <1>15 DEF CatalogInv, Telling, Stands, Fits, OfPage, Catalog!Raises, Catalog!GroupKey

\* What leaves the catalog alone.
LEMMA CatalogStays ==
    ASSUME CatalogInv, UNCHANGED <<items, processed>>, carried \subseteq carried',
           phase' # "failed" => phase # "failed"
    PROVE  CatalogInv' /\ Catalog!RefsKeptByStep
  <1>1. CatalogInv'
    <2>1. items' = items /\ processed' = processed  OBVIOUS
    <2>2. /\ IsSeq(items') /\ \A c \in processed' : Telling(items', c)
          /\ \A i \in DOMAIN items' : /\ Fits(items'[i]) /\ items'[i].call \in carried'
                                      /\ ~Catalog!Raises(items'[i])
      BY <2>1 DEF CatalogInv
    <2>3. phase' # "failed" =>
            /\ \A i \in DOMAIN items' : items'[i].call \in processed'
            /\ \A i, j \in DOMAIN items' : items'[i].call = items'[j].call =>
                  /\ Catalog!GroupKey(items'[i]) = Catalog!GroupKey(items'[j])
                  /\ \A l \in i .. j : items'[l].call = items'[i].call
      <3>1. phase # "failed" =>
            /\ \A i \in DOMAIN items : items[i].call \in processed
            /\ \A i, j \in DOMAIN items : items[i].call = items[j].call =>
                  /\ Catalog!GroupKey(items[i]) = Catalog!GroupKey(items[j])
                  /\ \A l \in i .. j : items[l].call = items[i].call
        BY DEF CatalogInv
      <3> QED BY <2>1, <3>1
    <2> QED
      BY <2>2, <2>3 DEF CatalogInv, Telling, Stands, Fits, OfPage, Catalog!Raises, Catalog!GroupKey
  <1>2. Catalog!RefsKeptByStep
    <2>1. IsSeq(items) /\ Len(items) \in Nat  BY SeqFacts DEF CatalogInv
    <2>2. SubSeq(items, 1, Len(items)) = items  BY <2>1 DEF IsSeq
    <2> QED BY <2>1, <2>2 DEF Catalog!RefsKeptByStep, Catalog!IsPrefix
  <1> QED BY <1>1, <1>2

LEMMA CatalogStep ==
    ASSUME Catalog!InputsAssumption, Catalog!LimitsPositive, MessagesInv, CatalogInv, Catalog!Next
    PROVE  CatalogInv' /\ Catalog!RefsKeptByStep
  <1> USE DEF Catalog!agentVars, Catalog!observerVars, Catalog!catalogVars
  <1>1. CASE Catalog!EndTurn
    <2>1. PICK D : Ends(IdsIn(audit, "call") \ processed, D)
      BY <1>1, EndIs DEF MessagesInv, CatalogInv
    <2>2. CatalogInv'  BY <1>1, <2>1, CatalogEnd
    <2>3. PICK r : r = items'  OBVIOUS
    <2>4. /\ IsSeq(items) /\ IsSeq(r) /\ Len(items) <= Len(r)
          /\ \A i \in 1 .. Len(items) : r[i] = items[i]
      BY <2>1, <2>3 DEF Ends, Adds, CatalogInv
    <2>5. /\ Len(items) \in Nat /\ items = [i \in 1 .. Len(items) |-> items[i]]
          /\ Len(r) \in Nat /\ DOMAIN r = 1 .. Len(r)
      BY <2>4, SeqFacts
    <2>6. SubSeq(r, 1, Len(items)) = items
      <3>1. PICK s : s = SubSeq(r, 1, Len(items))  OBVIOUS
      <3>2. s = [i \in 1 .. Len(items) |-> r[i]]
        <4>1. s = [i \in 1 .. ((Len(items) - 1) + 1) |-> r[(1 + i) - 1]]
          BY <2>5, <3>1
        <4>2. (Len(items) - 1) + 1 = Len(items) /\ \A i \in Nat : (1 + i) - 1 = i
          BY <2>5
        <4> QED BY <2>5, <4>1, <4>2, SMT
      <3> QED BY <2>4, <2>5, <3>1, <3>2
    <2>7. Catalog!RefsKeptByStep
      BY <2>3, <2>4, <2>6 DEF Catalog!RefsKeptByStep, Catalog!IsPrefix
    <2> QED BY <2>2, <2>7
  <1>2. CASE UNCHANGED <<items, processed>> /\ carried \subseteq carried'
             /\ (phase' # "failed" => phase # "failed")
    BY <1>2, CatalogStays
  <1>3. Catalog!Next =>
          \/ Catalog!EndTurn
          \/ UNCHANGED <<items, processed>> /\ carried \subseteq carried'
             /\ (phase' # "failed" => phase # "failed")
    <2>1. Catalog!BeginTurn \/ Catalog!Request \/ Catalog!Compact =>
             UNCHANGED <<items, processed>> /\ carried \subseteq carried' /\ phase # "failed"
      BY DEF Catalog!BeginTurn, Catalog!Request, Catalog!Compact
    <2>2. \A c \in DOMAIN MCCalls : Catalog!Invoke(c) =>
             UNCHANGED <<items, processed>> /\ carried \subseteq carried' /\ phase # "failed"
      BY DEF Catalog!Invoke
    <2>3. \A c \in DOMAIN MCCalls, u, o \in BOOLEAN : Catalog!Return(c, u, o) =>
             UNCHANGED <<items, processed>> /\ carried \subseteq carried' /\ phase # "failed"
      BY DEF Catalog!Return
    <2>4. \A p \in DOMAIN disk, v \in {"v2", "gone", "unreadable"} : Catalog!Touch(p, v) =>
             UNCHANGED <<items, processed>> /\ carried \subseteq carried' /\ phase # "failed"
      BY DEF Catalog!Touch
    <2>5. \A g \in BOOLEAN : Catalog!Load(g) =>
             UNCHANGED <<items, processed>> /\ carried \subseteq carried' /\ phase # "failed"
      BY DEF Catalog!Load
    <2> QED BY <2>1, <2>2, <2>3, <2>4, <2>5 DEF Catalog!Next
  <1> QED BY <1>1, <1>2, <1>3

LEMMA NothingIsMissed ==
    ASSUME MessagesInv, CatalogInv
    PROVE  Catalog!NothingMissed
  <1> SUFFICES ASSUME phase \in {"idle", "final"}, NEW c \in carried
               PROVE  /\ c \in processed /\ Telling(items, c)
    <2>1. \A c \in carried : phase \in {"idle", "final"} => c \in processed /\ Telling(items, c)
      OBVIOUS
    <2>2. \A S : Catalog!Cardinality(S) = Cardinality(S)
      BY DEF Catalog!Cardinality, Cardinality
    <2> QED BY <2>1, <2>2 DEF Catalog!NothingMissed, Telling, Stands
  <1>1. c \in processed  BY DEF MessagesInv
  <1> QED BY <1>1 DEF CatalogInv

LEMMA OnlyClaimGradeIs ==
    ASSUME CatalogInv
    PROVE  Catalog!OnlyClaimGrade
  <1> SUFFICES ASSUME NEW i \in DOMAIN items
               PROVE  LET x == items[i]  c == x.call
                      IN  /\ c \in carried /\ x.source \notin Catalog!Internal
                          /\ x.type \in {"file_line", "command_line"} =>
                                /\ x.line \in DOMAIN Catalog!Printed(c)
                                /\ x.raw \in {Catalog!Cut(Catalog!Printed(c)[x.line], n) :
                                                 n \in 1 .. MaxLineChars}
                          /\ x.type = "structured" => MCRole[x.source] = "business_facts"
                          /\ x.type = "image" =>
                                /\ MCBound[x.source]
                                /\ Catalog!Cardinality(Catalog!ToSet(MCCalls[c].paths)) <= MaxClaimImages
    BY DEF Catalog!OnlyClaimGrade
  <1>1. PICK x : x = items[i]  OBVIOUS
  <1>2. Fits(x) /\ x.call \in carried  BY <1>1 DEF CatalogInv
  <1>3. x.type \in {"file_line", "command_line"} => OfPage(x)  BY <1>2 DEF Fits
  <1>4. OfPage(x) => /\ x.line \in DOMAIN Catalog!Printed(x.call)
                     /\ x.raw \in {Catalog!Cut(Catalog!Printed(x.call)[x.line], n) :
                                      n \in 1 .. MaxLineChars}
    BY DEF OfPage
  <1>5. /\ x.source \notin Catalog!Internal
        /\ x.type = "structured" => MCRole[x.source] = "business_facts"
        /\ x.type = "image" =>
              /\ MCBound[x.source]
              /\ Catalog!Cardinality(Catalog!ToSet(MCCalls[x.call].paths)) <= MaxClaimImages
    BY <1>2 DEF Fits
  <1> QED BY <1>1, <1>2, <1>3, <1>4, <1>5

-----------------------------------------------------------------------------
(* Evidence: the prompt of the finalizer.                                    *)

\* Where the blocks of the prompt begin, and where the next one does.
Openings == Catalog!Places(Len(items), {k \in DOMAIN items : ~Catalog!Joins(k)})
After(b) == IF b = Len(Openings) THEN Len(items) + 1 ELSE Openings[b + 1]

LEMMA BlocksAre ==
    ASSUME IsSeq(items)
    PROVE  /\ IsSeq(Openings) /\ Len(Openings) \in Nat /\ DOMAIN Openings = 1 .. Len(Openings)
           /\ \A b \in 1 .. Len(Openings) :
                 /\ Openings[b] \in 1 .. Len(items) /\ ~Catalog!Joins(Openings[b])
                 /\ After(b) \in 1 .. Len(items) + 1 /\ Openings[b] < After(b)
                 /\ \A k \in 1 .. Len(items) : Openings[b] < k /\ k < After(b) => Catalog!Joins(k)
           /\ \A b, d \in 1 .. Len(Openings) : b < d => Openings[b] < Openings[d]
           /\ Len(items) > 0 => Len(Openings) > 0 /\ Openings[1] = 1
           /\ Len(items) = 0 => Len(Openings) = 0
  <1> DEFINE n == Len(items)
             S == {k \in DOMAIN items : ~Catalog!Joins(k)}
  <1>1. n \in Nat /\ DOMAIN items = 1 .. n  BY SeqFacts
  <1>2. Leads(Openings, n, S)  BY <1>1, PlacesIs DEF Openings
  <1>3. IsSeq(Openings) /\ Len(Openings) \in Nat /\ DOMAIN Openings = 1 .. Len(Openings)
    BY <1>2, SeqFacts DEF Leads
  <1>4. /\ \A b \in 1 .. Len(Openings) : Openings[b] \in 1 .. n /\ ~Catalog!Joins(Openings[b])
        /\ \A b, d \in 1 .. Len(Openings) : b < d => Openings[b] < Openings[d]
        /\ \A k \in 1 .. n : k \in S => \E b \in 1 .. Len(Openings) : Openings[b] = k
    BY <1>2, <1>3 DEF Leads
  <1>41. \A x \in Nat : \A y \in 1 .. x : y # x => y + 1 \in 1 .. x /\ y < y + 1
    OBVIOUS
  <1>5. \A b \in 1 .. Len(Openings) : After(b) \in 1 .. n + 1 /\ Openings[b] < After(b)
    <2> SUFFICES ASSUME NEW b \in 1 .. Len(Openings)
                 PROVE  After(b) \in 1 .. n + 1 /\ Openings[b] < After(b)
      OBVIOUS
    <2>1. CASE b = Len(Openings)  BY <1>1, <1>4, <2>1 DEF After
    <2>2. CASE b # Len(Openings)
      <3>1. b + 1 \in 1 .. Len(Openings) /\ b < b + 1  BY <1>3, <1>41, <2>2, Zenon
      <3>2. After(b) = Openings[b + 1]  BY <2>2 DEF After
      <3> QED BY <1>1, <1>4, <3>1, <3>2
    <2> QED BY <2>1, <2>2
  <1>6. ASSUME NEW b \in 1 .. Len(Openings), NEW k \in 1 .. n, Openings[b] < k, k < After(b)
        PROVE  Catalog!Joins(k)
    <2> SUFFICES ASSUME ~Catalog!Joins(k)
                 PROVE  FALSE
      OBVIOUS
    <2>1. PICK d \in 1 .. Len(Openings) : Openings[d] = k  BY <1>1, <1>4
    <2>2. b < d
      <3>1. ~(d < b) /\ d # b  BY <1>1, <1>3, <1>4, <1>6, <2>1
      <3> QED BY <1>3, <3>1
    <2>3. b + 1 \in 1 .. Len(Openings) /\ b # Len(Openings)
      <3>1. \A x \in Nat : \A y, z \in 1 .. x : y < z => y # x  OBVIOUS
      <3>2. b # Len(Openings)  BY <1>3, <2>2, <3>1, Zenon
      <3> QED BY <1>3, <1>41, <3>2, Zenon
    <2>4. Openings[b + 1] <= Openings[d]
      <3>1. b + 1 = d \/ b + 1 < d  BY <1>3, <2>2
      <3> QED BY <1>1, <1>4, <2>3, <3>1
    <2>5. After(b) = Openings[b + 1]  BY <2>3 DEF After
    <2> QED BY <1>1, <1>4, <1>6, <2>1, <2>3, <2>4, <2>5
  <1>7. ASSUME n > 0
        PROVE  Len(Openings) > 0 /\ Openings[1] = 1
    <2>1. 1 \in 1 .. n /\ ~Catalog!Joins(1)  BY <1>1, <1>7 DEF Catalog!Joins
    <2>2. PICK b \in 1 .. Len(Openings) : Openings[b] = 1  BY <1>1, <1>4, <2>1
    <2>3. 1 \in 1 .. Len(Openings) /\ (1 < b \/ b = 1)  BY <1>3, <2>2
    <2> QED BY <1>1, <1>3, <1>4, <2>2, <2>3
  <1>8. n = 0 => Len(Openings) = 0  BY <1>3, <1>4
  <1> QED BY <1>3, <1>4, <1>5, <1>6, <1>7, <1>8

\* Block b holds the items from its start to the next one, under one header.
Rows(b) == Catalog!EvidencePrompt[b].rows
Header(b) == Catalog!EvidencePrompt[b].header

LEMMA PromptIs ==
    ASSUME IsSeq(items)
    PROVE  /\ DOMAIN Catalog!EvidencePrompt = 1 .. Len(Openings)
           /\ \A b \in 1 .. Len(Openings) :
                 /\ Header(b) = Catalog!GroupKey(items[Openings[b]])
                 /\ IsSeq(Rows(b)) /\ Len(Rows(b)) = After(b) - Openings[b]
                 /\ \A i \in 1 .. Len(Rows(b)) :
                       /\ Openings[b] + i - 1 \in 1 .. Len(items)
                       /\ Rows(b)[i] = Catalog!PromptLine(Openings[b] + i - 1)
  <1> DEFINE group(b) == [i \in 1 .. (After(b) - Openings[b]) |-> Openings[b] + i - 1]
  <1>1. /\ DOMAIN Openings = 1 .. Len(Openings) /\ Len(Openings) \in Nat
        /\ \A b \in 1 .. Len(Openings) :
                 /\ Openings[b] \in 1 .. Len(items) /\ After(b) \in 1 .. Len(items) + 1
                 /\ Openings[b] < After(b)
    BY BlocksAre
  <1>2. Catalog!Groups = [b \in DOMAIN Openings |-> group(b)]
    BY Zenon DEF Catalog!Groups, Openings, After
  <1>3. /\ DOMAIN Catalog!Groups = 1 .. Len(Openings)
        /\ \A b \in 1 .. Len(Openings) : Catalog!Groups[b] = group(b)
    BY <1>1, <1>2
  <1>4. /\ DOMAIN Catalog!EvidencePrompt = 1 .. Len(Openings)
        /\ \A b \in 1 .. Len(Openings) : Catalog!EvidencePrompt[b] = Catalog!PromptBlock(group(b))
    BY <1>3 DEF Catalog!EvidencePrompt
  <1>5. ASSUME NEW b \in 1 .. Len(Openings)
        PROVE  /\ Header(b) = Catalog!GroupKey(items[Openings[b]])
               /\ IsSeq(Rows(b)) /\ Len(Rows(b)) = After(b) - Openings[b]
               /\ \A i \in 1 .. Len(Rows(b)) :
                     /\ Openings[b] + i - 1 \in 1 .. Len(items)
                     /\ Rows(b)[i] = Catalog!PromptLine(Openings[b] + i - 1)
    <2> DEFINE size == After(b) - Openings[b]
    <2>1. size \in Nat /\ size > 0 /\ Len(items) \in Nat  BY <1>1, SeqFacts
    <2>2. PICK g : g = group(b)  OBVIOUS
    <2>3. DOMAIN g = 1 .. size /\ \A i \in 1 .. size : g[i] = Openings[b] + i - 1
      BY <2>2
    <2>4. Catalog!EvidencePrompt[b] = Catalog!PromptBlock(g)  BY <1>4, <2>2
    <2>5. /\ Header(b) = Catalog!GroupKey(items[g[1]])
          /\ Rows(b) = [i \in DOMAIN g |-> Catalog!PromptLine(g[i])]
      BY <2>4 DEF Header, Rows, Catalog!PromptBlock
    <2>6. g[1] = Openings[b]  BY <1>1, <2>1, <2>3
    <2>7. \A i \in 1 .. size : Openings[b] + i - 1 \in 1 .. Len(items)
      BY <1>1, <2>1
    <2>8. PICK rows : rows = Rows(b)  OBVIOUS
    <2>9. rows = [i \in 1 .. size |-> rows[i]]
          /\ \A i \in 1 .. size : rows[i] = Catalog!PromptLine(Openings[b] + i - 1)
      BY <2>3, <2>5, <2>8
    <2>10. IsSeq(rows) /\ Len(rows) = size  BY <2>1, <2>9, BuiltIsSeq
    <2> QED BY <2>5, <2>6, <2>7, <2>8, <2>9, <2>10
  <1> QED BY <1>4, <1>5

\* The rows of all blocks are the references in order.
LEMMA PromptRowsAre ==
    ASSUME IsSeq(items), NEW rows, IsSeq(Catalog!EvidencePrompt),
           rows = Catalog!FlattenSeq([b \in DOMAIN Catalog!EvidencePrompt |-> Rows(b)])
    PROVE  /\ DOMAIN rows = 1 .. Len(items)
           /\ \A p \in 1 .. Len(items) : rows[p].ref = p
  <1> DEFINE m == Len(Openings)
             n == Len(items)
             w == [b \in DOMAIN Catalog!EvidencePrompt |-> Rows(b)]
  <1>1. /\ m \in Nat /\ n \in Nat
        /\ \A b \in 1 .. m : Openings[b] \in 1 .. n /\ After(b) \in 1 .. n + 1
        /\ n > 0 => m > 0 /\ Openings[1] = 1
        /\ n = 0 => m = 0
    BY BlocksAre, SeqFacts
  <1>2. /\ DOMAIN Catalog!EvidencePrompt = 1 .. m
        /\ \A b \in 1 .. m : /\ IsSeq(Rows(b)) /\ Len(Rows(b)) = After(b) - Openings[b]
                             /\ \A i \in 1 .. Len(Rows(b)) :
                                   Rows(b)[i] = Catalog!PromptLine(Openings[b] + i - 1)
    BY PromptIs
  <1> HIDE DEF m, n
  <1>3. w = [b \in 1 .. m |-> w[b]] /\ \A b \in 1 .. m : w[b] = Rows(b)  BY <1>2
  <1> HIDE DEF w
  <1>4. IsSeq(w) /\ Len(w) = m /\ DOMAIN w = 1 .. m  BY <1>1, <1>3, BuiltIsSeq
  <1>5. \A b \in DOMAIN w : IsSeq(w[b])  BY <1>2, <1>3, <1>4
  <1>6. PICK off : Laid(rows, w, off)
    <2>1. rows = Catalog!FlattenSeq(w)  BY DEF w
    <2> QED BY <1>4, <1>5, <2>1, FlattenIs
  <1>7. /\ IsSeq(rows) /\ off[0] = 0 /\ Len(rows) = off[m] /\ off \in [0 .. m -> Nat]
        /\ \A b \in 1 .. m : off[b] = off[b - 1] + (After(b) - Openings[b])
        /\ \A p \in 1 .. Len(rows) : \E b \in 1 .. m : \E i \in 1 .. Len(Rows(b)) :
              p = off[b - 1] + i /\ rows[p] = Rows(b)[i]
    <2>1. /\ IsSeq(rows) /\ off[0] = 0 /\ Len(rows) = off[m] /\ off \in [0 .. m -> Nat]
          /\ \A b \in 1 .. m : off[b] = off[b - 1] + Len(w[b])
          /\ \A b \in 1 .. m : \A i \in 1 .. Len(w[b]) : rows[off[b - 1] + i] = w[b][i]
          /\ \A p \in 1 .. Len(rows) : \E b \in 1 .. m : \E i \in 1 .. Len(w[b]) : p = off[b - 1] + i
      BY <1>4, <1>6, Zenon DEF Laid
    <2>2. \A b \in 1 .. m : w[b] = Rows(b) /\ Len(w[b]) = After(b) - Openings[b]
      BY <1>2, <1>3
    <2>3. \A b \in 1 .. m : off[b] = off[b - 1] + (After(b) - Openings[b])
      BY <2>1, <2>2
    <2>4. ASSUME NEW p \in 1 .. Len(rows)
          PROVE  \E b \in 1 .. m : \E i \in 1 .. Len(Rows(b)) :
                    p = off[b - 1] + i /\ rows[p] = Rows(b)[i]
      <3>1. PICK b \in 1 .. m : \E i \in 1 .. Len(w[b]) : p = off[b - 1] + i
        BY <2>1
      <3>2. PICK i \in 1 .. Len(w[b]) : p = off[b - 1] + i  BY <3>1
      <3>3. i \in 1 .. Len(Rows(b)) /\ rows[p] = Rows(b)[i]  BY <2>1, <2>2, <3>2
      <3> QED BY <3>2, <3>3
    <2> QED BY <2>1, <2>3, <2>4
  <1>8. \A x \in Nat : \A y \in 1 .. x : y # x => y + 1 \in 1 .. x /\ (y + 1) - 1 = y
    OBVIOUS
  <1> DEFINE T == {b \in 0 .. m : /\ (b < m => off[b] = Openings[b + 1] - 1)
                                  /\ (b = m => off[b] = n)}
  <1>9. 0 \in T  BY <1>1, <1>7
  <1>10. ASSUME NEW b \in 0 .. m, b \in T, b < m
         PROVE  b + 1 \in T
    <2>1. PICK d : d = b + 1  OBVIOUS
    <2>2. d \in 1 .. m /\ d \in 0 .. m /\ d - 1 = b  BY <1>1, <1>10, <2>1
    <2>3. off[d] = off[b] + (After(d) - Openings[d]) /\ off[b] = Openings[d] - 1
      BY <1>7, <1>10, <2>1, <2>2
    <2>4. off[d] = After(d) - 1  BY <1>1, <2>2, <2>3
    <2>5. CASE d = m
      <3>1. After(d) = n + 1  BY <2>5 DEF After, m, n
      <3> QED BY <1>1, <2>1, <2>2, <2>4, <2>5, <3>1
    <2>6. CASE d # m
      <3>1. After(d) = Openings[d + 1]  BY <2>6 DEF After, m
      <3> QED BY <1>1, <2>1, <2>2, <2>4, <2>6, <3>1
    <2> QED BY <2>5, <2>6
  <1> HIDE DEF T
  <1>11. \A b \in 0 .. m : b \in T  BY <1>1, <1>9, <1>10, Induct
  <1>12. Len(rows) = n
    <2>1. m \in T  BY <1>1, <1>11
    <2> QED BY <1>7, <2>1 DEF T
  <1>13. DOMAIN rows = 1 .. n  BY <1>7, <1>12, SeqFacts
  <1>14. ASSUME NEW p \in 1 .. n
         PROVE  rows[p].ref = p
    <2>1. PICK b \in 1 .. m : \E i \in 1 .. Len(Rows(b)) :
              p = off[b - 1] + i /\ rows[p] = Rows(b)[i]
      BY <1>7, <1>12
    <2>2. PICK i \in 1 .. Len(Rows(b)) : p = off[b - 1] + i /\ rows[p] = Rows(b)[i]
      BY <2>1
    <2>3. PICK k : k = Openings[b] + i - 1  OBVIOUS
    <2>4. rows[p] = Catalog!PromptLine(k)  BY <1>2, <2>2, <2>3
    <2>5. b - 1 \in 0 .. m /\ b - 1 < m /\ (b - 1) + 1 = b  BY <1>1
    <2>6. off[b - 1] = Openings[b] - 1  BY <1>11, <2>5 DEF T
    <2>7. k = p
      <3>1. Openings[b] \in Nat /\ Len(Rows(b)) \in Int  BY <1>1, <1>2
      <3> QED BY <2>2, <2>3, <2>6, <3>1
    <2>8. Catalog!PromptLine(k).ref = k  BY DEF Catalog!PromptLine
    <2> QED BY <2>4, <2>7, <2>8
  <1> QED BY <1>13, <1>14 DEF n

\* All items of a block have its header's key.
LEMMA HeadersHold ==
    ASSUME IsSeq(items), NEW b \in 1 .. Len(Openings)
    PROVE  \A k \in 1 .. Len(items) : Openings[b] <= k /\ k < After(b) =>
              Catalog!GroupKey(items[k]) = Catalog!GroupKey(items[Openings[b]])
  <1> DEFINE s == Openings[b]
             key == Catalog!GroupKey(items[s])
             n == Len(items)
  <1>1. /\ n \in Nat /\ s \in 1 .. n /\ After(b) \in 1 .. n + 1
        /\ \A k \in 1 .. n : s < k /\ k < After(b) => Catalog!Joins(k)
    BY BlocksAre, SeqFacts
  <1> HIDE DEF s, n, key
  <1> DEFINE T == {k \in 0 .. n : s <= k /\ k < After(b) => Catalog!GroupKey(items[k]) = key}
  <1>2. 0 \in T  BY <1>1
  <1>3. ASSUME NEW k \in 0 .. n, k \in T, k < n
        PROVE  k + 1 \in T
    <2>1. PICK l : l = k + 1  OBVIOUS
    <2>2. l \in 1 .. n /\ l - 1 = k  BY <1>1, <1>3, <2>1
    <2>3. CASE l = s
      <3>1. Catalog!GroupKey(items[l]) = key  BY <2>3 DEF key
      <3> QED BY <2>1, <2>2, <3>1
    <2>4. CASE s < l /\ l < After(b)
      <3>1. Catalog!Joins(l)  BY <1>1, <2>2, <2>4
      <3>2. Catalog!GroupKey(items[k]) = Catalog!GroupKey(items[l])
        BY <2>2, <3>1 DEF Catalog!Joins
      <3>3. s <= k /\ k < After(b)  BY <1>1, <2>1, <2>4
      <3> QED BY <1>3, <2>1, <2>2, <3>2, <3>3
    <2>5. CASE ~(s <= l /\ l < After(b))  BY <2>1, <2>2, <2>5
    <2> QED BY <1>1, <2>2, <2>3, <2>4, <2>5
  <1> HIDE DEF T
  <1>4. \A k \in 0 .. n : k \in T  BY <1>1, <1>2, <1>3, Induct
  <1> QED BY <1>1, <1>4 DEF T, s, n, key

LEMMA PromptIsLossless ==
    ASSUME CatalogInv
    PROVE  Catalog!PromptLossless
  <1> SUFFICES ASSUME phase = "final"
               PROVE  Catalog!PromptLossless
    BY DEF Catalog!PromptLossless
  <1> DEFINE m == Len(Openings)
             n == Len(items)
             prompt == Catalog!EvidencePrompt
             rows == Catalog!FlattenSeq([b \in DOMAIN prompt |-> prompt[b].rows])
             refs == [i \in DOMAIN rows |-> rows[i].ref]
             headed == {b \in DOMAIN prompt : prompt[b].header # <<>>}
  <1>1. /\ IsSeq(items) /\ n \in Nat /\ DOMAIN items = 1 .. n
        /\ \A i \in DOMAIN items : Fits(items[i]) /\ ~Catalog!Raises(items[i])
        /\ \A i, j \in DOMAIN items : items[i].call = items[j].call =>
                /\ Catalog!GroupKey(items[i]) = Catalog!GroupKey(items[j])
                /\ \A l \in i .. j : items[l].call = items[i].call
    BY SeqFacts DEF CatalogInv
  <1>2. /\ m \in Nat
        /\ \A b \in 1 .. m : Openings[b] \in 1 .. n /\ ~Catalog!Joins(Openings[b]) /\ After(b) \in 1 .. n + 1
        /\ \A b, d \in 1 .. m : b < d => Openings[b] < Openings[d]
    BY <1>1, BlocksAre
  <1>3. /\ DOMAIN prompt = 1 .. m
        /\ \A b \in 1 .. m :
              /\ Header(b) = Catalog!GroupKey(items[Openings[b]])
              /\ IsSeq(Rows(b)) /\ Len(Rows(b)) = After(b) - Openings[b]
              /\ \A i \in 1 .. Len(Rows(b)) :
                    /\ Openings[b] + i - 1 \in 1 .. n
                    /\ Rows(b)[i] = Catalog!PromptLine(Openings[b] + i - 1)
    BY <1>1, PromptIs
  <1>4. \A b : prompt[b].rows = Rows(b) /\ prompt[b].header = Header(b)
    BY DEF Rows, Header
  <1>5. IsSeq(prompt)
    <2>1. PICK f : f = prompt  OBVIOUS
    <2>2. f = [b \in 1 .. m |-> f[b]]  BY <1>3, <2>1 DEF Catalog!EvidencePrompt
    <2> QED BY <1>2, <2>1, <2>2, BuiltIsSeq
  <1>6. refs = [k \in 1 .. n |-> k]
    <2>1. PICK r : r = rows  OBVIOUS
    <2>2. r = Catalog!FlattenSeq([b \in DOMAIN Catalog!EvidencePrompt |-> Rows(b)])
      BY <2>1 DEF Rows
    <2>3. DOMAIN r = 1 .. n /\ \A p \in 1 .. n : r[p].ref = p
      BY <1>1, <1>5, <2>2, PromptRowsAre
    <2> HIDE DEF rows
    <2> QED BY <2>1, <2>3
  <1> HIDE DEF prompt, rows, m, n
  \* A headed block: lines of one call.
  <1>7. ASSUME NEW b \in headed
        PROVE  LET call0 == prompt[b].header[2]
                   page == Catalog!Printed(call0)
               IN  \A i \in DOMAIN prompt[b].rows :
                      LET row == prompt[b].rows[i]
                      IN  /\ row.line \in DOMAIN page /\ row.raw[1] = page[row.line].text
                          /\ items[row.ref].source = prompt[b].header[3]
    <2>1. b \in 1 .. m /\ Header(b) # <<>>  BY <1>3, <1>4
    <2>2. DOMAIN prompt[b].rows = 1 .. Len(Rows(b)) /\ prompt[b].rows = Rows(b)
      BY <1>3, <1>4, <2>1, SeqFacts
    <2>3. ASSUME NEW i \in 1 .. Len(Rows(b))
          PROVE  LET row == Rows(b)[i]
                     page == Catalog!Printed(Header(b)[2])
                 IN  /\ row.line \in DOMAIN page /\ row.raw[1] = page[row.line].text
                     /\ items[row.ref].source = Header(b)[3]
      <3>1. PICK k : k = Openings[b] + i - 1  OBVIOUS
      <3>2. PICK x : x = items[k]  OBVIOUS
      <3>3. k \in 1 .. n /\ Rows(b)[i] = Catalog!PromptLine(k)  BY <1>3, <2>1, <3>1
      <3>4. Openings[b] <= k /\ k < After(b)
        <4>1. \A s \in Nat : \A a \in Int : \A j \in 1 .. (a - s) : s <= s + j - 1 /\ s + j - 1 < a
          OBVIOUS
        <4>2. Openings[b] \in Nat /\ After(b) \in Int  BY <1>1, <1>2, <2>1
        <4>3. i \in 1 .. (After(b) - Openings[b])  BY <1>3, <2>1, Zenon
        <4>4. Openings[b] <= Openings[b] + i - 1 /\ Openings[b] + i - 1 < After(b)
          BY <4>1, <4>2, <4>3, Zenon
        <4> QED BY <3>1, <4>4
      <3>5. Catalog!GroupKey(x) = Header(b)
        <4>1. Catalog!GroupKey(items[k]) = Catalog!GroupKey(items[Openings[b]])
          BY <1>1, <2>1, <3>3, <3>4, HeadersHold DEF n, m
        <4> QED BY <1>3, <2>1, <3>2, <4>1
      <3>6. x.type \in {"file_line", "command_line"} /\ Header(b) = <<x.type, x.call, x.source>>
        BY <2>1, <3>5 DEF Catalog!GroupKey
      <3>7. Header(b)[2] = x.call /\ Header(b)[3] = x.source  BY <3>6
      <3>8. Fits(x) /\ ~Catalog!Raises(x)  BY <1>1, <3>2, <3>3
      <3>9. OfPage(x)  BY <3>6, <3>8 DEF Fits
      <3>10. x.line \in DOMAIN Catalog!Printed(x.call)
             /\ x.raw[1] = Catalog!Printed(x.call)[x.line].text
        <4>1. PICK l : l = Catalog!Printed(x.call)[x.line]  OBVIOUS
        <4>2. PICK c \in 1 .. MaxLineChars : x.raw = Catalog!Cut(l, c)
          BY <3>9, <4>1 DEF OfPage
        <4>3. x.raw[1] # ""  BY <3>8 DEF Catalog!Raises
        <4>4. Catalog!Cut(l, c)[1] \in {"", l.text}  BY DEF Catalog!Cut
        <4> QED BY <3>9, <4>1, <4>2, <4>3, <4>4 DEF OfPage
      <3>11. /\ Catalog!PromptLine(k).line = x.line /\ Catalog!PromptLine(k).raw = x.raw
             /\ Catalog!PromptLine(k).ref = k
        BY <3>2 DEF Catalog!PromptLine
      <3> QED BY <3>2, <3>3, <3>7, <3>10, <3>11
    <2> QED BY <1>4, <2>2, <2>3
  <1>8. \A b, d \in headed : prompt[b].header = prompt[d].header => b = d
    <2>1. ASSUME NEW b \in 1 .. m, NEW d \in 1 .. m, b < d, Header(b) = Header(d), Header(d) # <<>>
          PROVE  FALSE
      <3>1. PICK s : s = Openings[b]  OBVIOUS
      <3>2. PICK k : k = Openings[d]  OBVIOUS
      <3>3. s \in 1 .. n /\ k \in 1 .. n /\ s < k /\ ~Catalog!Joins(k)
        BY <1>2, <2>1, <3>1, <3>2
      <3>4. Catalog!GroupKey(items[s]) = Catalog!GroupKey(items[k]) /\ Catalog!GroupKey(items[k]) # <<>>
        BY <1>3, <2>1, <3>1, <3>2
      <3>5. items[s].call = items[k].call
        <4>1. \A x, y : /\ Catalog!GroupKey(x) = Catalog!GroupKey(y) /\ Catalog!GroupKey(y) # <<>>
                        => x.call = y.call
          <5> SUFFICES ASSUME NEW x, NEW y, Catalog!GroupKey(x) = Catalog!GroupKey(y),
                              Catalog!GroupKey(y) # <<>>
                       PROVE  x.call = y.call
            OBVIOUS
          <5>1. Catalog!GroupKey(x)[2] = x.call  BY DEF Catalog!GroupKey
          <5>2. Catalog!GroupKey(y)[2] = y.call  BY DEF Catalog!GroupKey
          <5> QED BY <5>1, <5>2, Zenon
        <4> QED BY <3>4, <4>1
      <3>6. k - 1 \in s .. k /\ k - 1 \in 1 .. n /\ k > 1  BY <1>1, <3>3
      <3>7. items[k - 1].call = items[k].call  BY <1>1, <3>3, <3>5, <3>6
      <3>8. Catalog!GroupKey(items[k - 1]) = Catalog!GroupKey(items[k])
        BY <1>1, <3>3, <3>6, <3>7
      <3>9. Catalog!Joins(k)  BY <3>4, <3>6, <3>8 DEF Catalog!Joins
      <3> QED BY <3>3, <3>9
    <2>2. \A x \in Nat : \A b, d \in 1 .. x : b < d \/ d < b \/ b = d  OBVIOUS
    <2>3. SUFFICES ASSUME NEW b \in headed, NEW d \in headed, prompt[b].header = prompt[d].header
                   PROVE  b = d
      OBVIOUS
    <2>4. b \in 1 .. m /\ d \in 1 .. m /\ Header(b) = Header(d) /\ Header(b) # <<>>
      BY <1>3, <1>4, <2>3
    <2>5. b < d \/ d < b \/ b = d  BY <1>2, <2>2, <2>4
    <2> QED BY <2>1, <2>4, <2>5
  <1> QED BY <1>6, <1>7, <1>8 DEF Catalog!PromptLossless, prompt, rows, n

-----------------------------------------------------------------------------
(* Evidence: what is announced.                                              *)
Say(q) == {q[i] : i \in DOMAIN q}
Once(q) == \A i, j \in DOMAIN q : q[i] = q[j] => i = j \/ q[i][1] = "MODEL_REQUEST"
Precedes(q, u, v) == \E i, j \in DOMAIN q : i < j /\ q[i] = u /\ q[j] = v
IsRef(v) == v[1] = "EVIDENCE_ADDED"
Rising(q) == \A i, j \in DOMAIN q : i < j /\ IsRef(q[i]) /\ IsRef(q[j]) => q[i][2] < q[j][2]

LEMMA JoinedSays ==
    ASSUME NEW a, NEW b, IsSeq(a), IsSeq(b)
    PROVE  /\ IsSeq(a \o b) /\ Say(a \o b) = Say(a) \cup Say(b)
           /\ Once(a) /\ Once(b) /\ (\A v \in Say(a) \cap Say(b) : v[1] = "MODEL_REQUEST")
              => Once(a \o b)
           /\ Rising(a) /\ Rising(b)
              /\ (\A u \in Say(a), v \in Say(b) : IsRef(u) /\ IsRef(v) => u[2] < v[2])
              => Rising(a \o b)
           /\ \A u, v : Precedes(a, u, v) \/ Precedes(b, u, v) \/ (u \in Say(a) /\ v \in Say(b))
                        => Precedes(a \o b, u, v)
  <1> DEFINE n == Len(a)
             m == Len(b)
  <1>1. PICK r : r = a \o b  OBVIOUS
  <1>2. n \in Nat /\ DOMAIN a = 1 .. n /\ m \in Nat /\ DOMAIN b = 1 .. m
    BY SeqFacts
  <1>3. /\ IsSeq(r) /\ DOMAIN r = 1 .. n + m
        /\ \A i \in 1 .. n : r[i] = a[i]
        /\ \A i \in 1 .. m : r[n + i] = b[i]
        /\ \A i \in 1 .. n + m : i \in 1 .. n \/ (i - n \in 1 .. m /\ r[i] = b[i - n])
    BY <1>1, JoinedIs
  <1> HIDE DEF n, m
  <1>4. \A i \in 1 .. n : i \in DOMAIN r /\ r[i] = a[i]  BY <1>2, <1>3
  <1>5. \A i \in 1 .. m : n + i \in DOMAIN r /\ r[n + i] = b[i]  BY <1>2, <1>3
  <1>6. \A i \in DOMAIN r : (i \in 1 .. n /\ r[i] = a[i])
                            \/ (i > n /\ i - n \in 1 .. m /\ r[i] = b[i - n])
    BY <1>2, <1>3
  <1>7. Say(r) = Say(a) \cup Say(b)
    <2>1. Say(r) \subseteq Say(a) \cup Say(b)  BY <1>2, <1>6 DEF Say
    <2>2. Say(a) \subseteq Say(r)  BY <1>2, <1>4 DEF Say
    <2>3. Say(b) \subseteq Say(r)  BY <1>2, <1>5 DEF Say
    <2> QED BY <2>1, <2>2, <2>3
  <1>8. ASSUME Once(a), Once(b), \A v \in Say(a) \cap Say(b) : v[1] = "MODEL_REQUEST"
        PROVE  Once(r)
    <2> SUFFICES ASSUME NEW i \in DOMAIN r, NEW j \in DOMAIN r, r[i] = r[j],
                        r[i][1] # "MODEL_REQUEST"
                 PROVE  i = j
      BY DEF Once
    <2>1. i \in Int /\ j \in Int  BY <1>2, <1>3
    <2>2. ~(r[i] \in Say(a) /\ r[i] \in Say(b))  BY <1>8
    <2>3. CASE i \in 1 .. n /\ r[i] = a[i] /\ j \in 1 .. n /\ r[j] = a[j]
      BY <1>2, <1>8, <2>3 DEF Once
    <2>4. CASE i - n \in 1 .. m /\ r[i] = b[i - n] /\ j - n \in 1 .. m /\ r[j] = b[j - n]
      <3>1. i - n = j - n  BY <1>2, <1>8, <2>4 DEF Once
      <3> QED BY <1>2, <2>1, <3>1
    <2>5. CASE i \in 1 .. n /\ r[i] = a[i] /\ j - n \in 1 .. m /\ r[j] = b[j - n]
      BY <1>2, <2>2, <2>5 DEF Say
    <2>6. CASE j \in 1 .. n /\ r[j] = a[j] /\ i - n \in 1 .. m /\ r[i] = b[i - n]
      BY <1>2, <2>2, <2>6 DEF Say
    <2> QED BY <1>6, <2>3, <2>4, <2>5, <2>6
  <1>9. ASSUME Rising(a), Rising(b),
               \A u \in Say(a), v \in Say(b) : IsRef(u) /\ IsRef(v) => u[2] < v[2]
        PROVE  Rising(r)
    <2> SUFFICES ASSUME NEW i \in DOMAIN r, NEW j \in DOMAIN r, i < j, IsRef(r[i]), IsRef(r[j])
                 PROVE  r[i][2] < r[j][2]
      BY DEF Rising
    <2>1. i \in Int /\ j \in Int  BY <1>2, <1>3
    <2>2. CASE i \in 1 .. n /\ r[i] = a[i] /\ j \in 1 .. n /\ r[j] = a[j]
      BY <1>2, <1>9, <2>2 DEF Rising
    <2>3. CASE i - n \in 1 .. m /\ r[i] = b[i - n] /\ j - n \in 1 .. m /\ r[j] = b[j - n]
      <3>1. i - n < j - n  BY <1>2, <2>1
      <3> QED BY <1>2, <1>9, <2>3, <3>1 DEF Rising
    <2>4. CASE i \in 1 .. n /\ r[i] = a[i] /\ j - n \in 1 .. m /\ r[j] = b[j - n]
      BY <1>2, <1>9, <2>4 DEF Say
    <2>5. ~(j \in 1 .. n /\ i > n)  BY <1>2, <2>1
    <2> QED BY <1>6, <2>2, <2>3, <2>4, <2>5
  <1>10. ASSUME NEW u, NEW v,
                Precedes(a, u, v) \/ Precedes(b, u, v) \/ (u \in Say(a) /\ v \in Say(b))
         PROVE  Precedes(r, u, v)
    <2>1. CASE Precedes(a, u, v)  BY <1>2, <1>4, <2>1 DEF Precedes
    <2>2. CASE Precedes(b, u, v)
      <3>1. PICK i \in 1 .. m, j \in 1 .. m : i < j /\ b[i] = u /\ b[j] = v
        BY <1>2, <2>2 DEF Precedes
      <3>2. n + i < n + j  BY <1>2, <3>1
      <3> QED BY <1>5, <3>1, <3>2 DEF Precedes
    <2>3. CASE u \in Say(a) /\ v \in Say(b)
      <3>1. PICK i \in 1 .. n : a[i] = u  BY <1>2, <2>3 DEF Say
      <3>2. PICK j \in 1 .. m : b[j] = v  BY <1>2, <2>3 DEF Say
      <3>3. i < n + j  BY <1>2, <3>1, <3>2
      <3> QED BY <1>4, <1>5, <3>1, <3>2, <3>3 DEF Precedes
    <2> QED BY <1>10, <2>1, <2>2, <2>3
  <1> QED BY <1>1, <1>3, <1>7, <1>8, <1>9, <1>10

\* An event for each of f, of the kind that kind gives it.
LEMMA MappedSays ==
    ASSUME NEW f, NEW T, Lists(f, T), NEW kind, NEW g, g = [k \in DOMAIN f |-> g[k]],
           \A k \in DOMAIN f : g[k] = <<kind[f[k]], f[k]>>
    PROVE  IsSeq(g) /\ Say(g) = {<<kind[c], c>> : c \in T} /\ Once(g)
  <1>1. IsSeq(f) /\ Len(f) \in Nat /\ DOMAIN f = 1 .. Len(f)  BY SeqFacts DEF Lists
  <1>2. IsSeq(g) /\ DOMAIN g = DOMAIN f
    <2>1. g = [k \in 1 .. Len(f) |-> g[k]]  BY <1>1
    <2> QED BY <1>1, <2>1, BuiltIsSeq
  <1>3. Say(g) = {<<kind[c], c>> : c \in T}
    <2>1. ASSUME NEW v \in Say(g)
          PROVE  v \in {<<kind[c], c>> : c \in T}
      <3>1. PICK k \in DOMAIN f : v = g[k]  BY <1>2, <2>1 DEF Say
      <3>2. PICK c : c = f[k]  OBVIOUS
      <3>3. c \in T /\ v = <<kind[c], c>>  BY <3>1, <3>2 DEF Lists
      <3> QED BY <3>3
    <2>2. ASSUME NEW c \in T
          PROVE  <<kind[c], c>> \in Say(g)
      <3>1. PICK k \in DOMAIN f : f[k] = c  BY DEF Lists
      <3>2. g[k] = <<kind[c], c>>  BY <3>1
      <3> QED BY <1>2, <3>1, <3>2 DEF Say
    <2> QED BY <2>1, <2>2
  <1>4. Once(g)
    <2> SUFFICES ASSUME NEW i \in DOMAIN g, NEW j \in DOMAIN g, g[i] = g[j]
                 PROVE  i = j
      BY DEF Once
    <2>1. g[i] = <<kind[f[i]], f[i]>> /\ g[j] = <<kind[f[j]], f[j]>>  BY <1>2
    <2>2. f[i] = f[j]  BY <2>1
    <2> QED BY <1>2, <2>2 DEF Lists
  <1> QED BY <1>2, <1>3, <1>4

\* The event of a call, and of a result.
CallKind == [c \in DOMAIN MCCalls |-> IF Catalog!IsCard(c) THEN "PROGRESS_UPDATE" ELSE "TOOL_CALL"]
ResultKind == [c \in DOMAIN MCCalls |-> "TOOL_RESULT"]
Cards == {c \in DOMAIN MCCalls : Catalog!IsCard(c)}
CallsOf(S) == {<<CallKind[c], c>> : c \in S}
ResultsOf(S) == {<<ResultKind[c], c>> : c \in S}
RequestEvent == <<"MODEL_REQUEST", 0>>

LEMMA KindsDiffer ==
    ASSUME NEW c \in DOMAIN MCCalls
    PROVE  /\ ResultKind[c] = "TOOL_RESULT"
           /\ CallKind[c] = IF Catalog!IsCard(c) THEN "PROGRESS_UPDATE" ELSE "TOOL_CALL"
  BY DEF CallKind, ResultKind

LEMMA AnnouncedIs ==
    ASSUME NEW ms, Heard(ms)
    PROVE  LET more == Catalog!Announced(ms)
               C == Catalog!IdsOf(ms, "call") \ seenCalls
               R == Catalog!IdsOf(ms, "result") \ (seenResults \cup Cards)
           IN  /\ IsSeq(more) /\ Say(more) = ({RequestEvent} \cup CallsOf(C)) \cup ResultsOf(R)
               /\ Once(more) /\ Rising(more)
               /\ \A u \in CallsOf(C), v \in ResultsOf(R) : Precedes(more, u, v)
  <1> DEFINE C == Catalog!IdsOf(ms, "call") \ seenCalls
             R == Catalog!IdsOf(ms, "result") \ (seenResults \cup Cards)
             calls == Catalog!FirstSeen(ms, "call", seenCalls)
             results == Catalog!FirstSeen(ms, "result", seenResults \cup Cards)
             a == [k \in DOMAIN calls |->
                     <<IF Catalog!IsCard(calls[k]) THEN "PROGRESS_UPDATE" ELSE "TOOL_CALL", calls[k]>>]
             b == [k \in DOMAIN results |-> <<"TOOL_RESULT", results[k]>>]
             e == <<RequestEvent>>
             more == Catalog!Announced(ms)
  <1>1. more = (e \o a) \o b  BY Zenon DEF Catalog!Announced, RequestEvent, Cards
  <1>2. Lists(calls, C) /\ Lists(results, R)  BY FirstSeenIs DEF Heard
  <1>3. C \subseteq DOMAIN MCCalls /\ R \subseteq DOMAIN MCCalls  BY IdsIs DEF Heard
  <1> HIDE DEF calls, results
  <1>4. IsSeq(a) /\ Say(a) = CallsOf(C) /\ Once(a)
    <2>1. \A k \in DOMAIN calls : a[k] = <<CallKind[calls[k]], calls[k]>>
      BY <1>2, <1>3, KindsDiffer DEF Lists
    <2>2. a = [k \in DOMAIN calls |-> a[k]]  OBVIOUS
    <2> HIDE DEF a, C
    <2> QED BY <1>2, <2>1, <2>2, MappedSays DEF CallsOf
  <1>5. IsSeq(b) /\ Say(b) = ResultsOf(R) /\ Once(b)
    <2>1. \A k \in DOMAIN results : b[k] = <<ResultKind[results[k]], results[k]>>
      BY <1>2, <1>3, KindsDiffer DEF Lists
    <2>2. b = [k \in DOMAIN results |-> b[k]]  OBVIOUS
    <2> HIDE DEF b, R
    <2> QED BY <1>2, <2>1, <2>2, MappedSays DEF ResultsOf
  <1>6. IsSeq(e) /\ Say(e) = {RequestEvent} /\ Once(e)
    <2>1. IsSeq(e) /\ DOMAIN e = 1 .. 1 /\ e[1] = RequestEvent  BY OnlyIs
    <2>2. \A i \in 1 .. 1 : i = 1  OBVIOUS
    <2> HIDE DEF e
    <2> QED BY <2>1, <2>2 DEF Say, Once
  <1>7. /\ \A v \in Say(e) : v[1] = "MODEL_REQUEST"
        /\ \A v \in Say(a) : v[1] \in {"PROGRESS_UPDATE", "TOOL_CALL"}
        /\ \A v \in Say(b) : v[1] = "TOOL_RESULT"
    <2>1. \A v \in Say(e) : v[1] = "MODEL_REQUEST"  BY <1>6 DEF RequestEvent
    <2>2. \A v \in CallsOf(C) : v[1] \in {"PROGRESS_UPDATE", "TOOL_CALL"}
      BY <1>3, KindsDiffer DEF CallsOf
    <2>3. \A v \in ResultsOf(R) : v[1] = "TOOL_RESULT"
      BY <1>3, KindsDiffer DEF ResultsOf
    <2> HIDE DEF e, a, b
    <2> QED BY <1>4, <1>5, <2>1, <2>2, <2>3
  <1>8. Rising(e) /\ Rising(a) /\ Rising(b)
    <2>1. \A q : (\A v \in Say(q) : ~IsRef(v)) => Rising(q)  BY DEF Rising, Say
    <2>2. \A v : v[1] \in {"MODEL_REQUEST", "PROGRESS_UPDATE", "TOOL_CALL", "TOOL_RESULT"} => ~IsRef(v)
      BY DEF IsRef
    <2> HIDE DEF e, a, b
    <2> QED BY <1>7, <2>1, <2>2
  <1> HIDE DEF e, a, b
  <1>9. PICK h : h = e \o a  OBVIOUS
  <1>10. IsSeq(h) /\ Say(h) = {RequestEvent} \cup CallsOf(C) /\ Once(h) /\ Rising(h)
    <2>1. \A v \in Say(e) \cap Say(a) : v[1] = "MODEL_REQUEST"  BY <1>7
    <2>2. \A u \in Say(e), v \in Say(a) : IsRef(u) /\ IsRef(v) => u[2] < v[2]
      BY <1>7 DEF IsRef
    <2>3. /\ IsSeq(e \o a) /\ Say(e \o a) = Say(e) \cup Say(a)
          /\ Once(e \o a) /\ Rising(e \o a)
      BY <1>4, <1>6, <1>8, <2>1, <2>2, JoinedSays
    <2> QED BY <1>4, <1>6, <1>9, <2>3
  <1>11. \A u \in Say(h) : u[1] \in {"MODEL_REQUEST", "PROGRESS_UPDATE", "TOOL_CALL"}
    BY <1>4, <1>6, <1>7, <1>10
  <1>12. PICK r : r = h \o b  OBVIOUS
  <1>13. /\ IsSeq(r) /\ Say(r) = Say(h) \cup Say(b) /\ Once(r) /\ Rising(r)
         /\ \A u, v : (u \in Say(h) /\ v \in Say(b)) => Precedes(r, u, v)
    <2>1. \A v \in Say(h) \cap Say(b) : v[1] = "MODEL_REQUEST"  BY <1>7, <1>11
    <2>2. \A u \in Say(h), v \in Say(b) : IsRef(u) /\ IsRef(v) => u[2] < v[2]
      BY <1>7 DEF IsRef
    <2>3. /\ IsSeq(h \o b) /\ Say(h \o b) = Say(h) \cup Say(b)
          /\ Once(h \o b) /\ Rising(h \o b)
          /\ \A u, v : (u \in Say(h) /\ v \in Say(b)) => Precedes(h \o b, u, v)
      BY <1>5, <1>8, <1>10, <2>1, <2>2, JoinedSays
    <2> QED BY <1>12, <2>3
  <1>14. more = r  BY <1>1, <1>9, <1>12
  <1> HIDE DEF more, C, R
  <1>15. /\ IsSeq(more) /\ Say(more) = ({RequestEvent} \cup CallsOf(C)) \cup ResultsOf(R)
         /\ Once(more) /\ Rising(more)
         /\ \A u \in CallsOf(C), v \in ResultsOf(R) : Precedes(more, u, v)
    BY <1>5, <1>10, <1>13, <1>14
  <1> QED BY <1>15, Zenon DEF more, C, R

LEMMA CollectedSays ==
    ASSUME NEW q, NEW r, IsSeq(q), IsSeq(r), Len(q) <= Len(r)
    PROVE  LET more == Catalog!Collected(q, r)
           IN  /\ IsSeq(more) /\ Once(more) /\ Rising(more)
               /\ Say(more) = {<<"EVIDENCE_ADDED", n>> : n \in Len(q) + 1 .. Len(r)}
  <1> DEFINE more == Catalog!Collected(q, r)
             m == Len(r) - Len(q)
  <1>1. Len(q) \in Nat /\ Len(r) \in Nat /\ m \in Nat  BY SeqFacts
  <1>2. more = [k \in 1 .. m |-> <<"EVIDENCE_ADDED", Len(q) + k>>]
    BY DEF Catalog!Collected
  <1> HIDE DEF more
  <1>3. more = [k \in 1 .. m |-> more[k]]
        /\ \A k \in 1 .. m : more[k] = <<"EVIDENCE_ADDED", Len(q) + k>>
    BY <1>2
  <1>4. IsSeq(more) /\ DOMAIN more = 1 .. m  BY <1>1, <1>3, BuiltIsSeq
  <1>5. \A k \in 1 .. m : more[k][1] = "EVIDENCE_ADDED" /\ more[k][2] = Len(q) + k
    BY <1>3
  <1>6. Once(more)
    <2>1. \A j, k \in 1 .. m : more[j] = more[k] => Len(q) + j = Len(q) + k  BY <1>5
    <2> QED BY <1>1, <1>4, <2>1 DEF Once
  <1>7. Rising(more)  BY <1>1, <1>4, <1>5 DEF Rising
  <1>8. Say(more) = {<<"EVIDENCE_ADDED", n>> : n \in Len(q) + 1 .. Len(r)}
    <2>1. ASSUME NEW v \in Say(more)
          PROVE  v \in {<<"EVIDENCE_ADDED", n>> : n \in Len(q) + 1 .. Len(r)}
      <3>1. PICK k \in 1 .. m : v = more[k]  BY <1>4, <2>1 DEF Say
      <3>2. Len(q) + k \in Len(q) + 1 .. Len(r)  BY <1>1
      <3> QED BY <1>3, <3>1, <3>2
    <2>2. ASSUME NEW n \in Len(q) + 1 .. Len(r)
          PROVE  <<"EVIDENCE_ADDED", n>> \in Say(more)
      <3>1. n - Len(q) \in 1 .. m /\ Len(q) + (n - Len(q)) = n  BY <1>1
      <3>2. more[n - Len(q)] = <<"EVIDENCE_ADDED", n>>  BY <1>3, <3>1
      <3> QED BY <1>4, <3>1, <3>2 DEF Say
    <2> QED BY <2>1, <2>2
  <1> QED BY <1>4, <1>6, <1>7, <1>8 DEF more

RefsOf(N) == {<<"EVIDENCE_ADDED", n>> : n \in N}
Told(C, R, n) == (CallsOf(C) \cup ResultsOf(R \ Cards)) \cup RefsOf(1 .. n)

EventsInv ==
    /\ IsSeq(events) /\ Once(events) /\ Rising(events)
    /\ seenCalls \subseteq DOMAIN MCCalls /\ seenResults \subseteq DOMAIN MCCalls
    /\ Told(seenCalls, seenResults, Len(items)) \subseteq Say(events)
    /\ Say(events) \subseteq Told(seenCalls, seenResults, Len(items)) \cup {RequestEvent}
    /\ \A c \in seenResults \ Cards : Precedes(events, <<"TOOL_CALL", c>>, <<"TOOL_RESULT", c>>)

LEMMA KindForms ==
    ASSUME NEW c \in DOMAIN MCCalls
    PROVE  /\ c \notin Cards => CallKind[c] = "TOOL_CALL"
           /\ c \in Cards => CallKind[c] = "PROGRESS_UPDATE"
           /\ ResultKind[c] = "TOOL_RESULT" /\ RequestEvent[1] = "MODEL_REQUEST"
  BY KindsDiffer DEF Cards, RequestEvent

LEMMA CallForms ==
    ASSUME NEW S \in SUBSET DOMAIN MCCalls, NEW v \in CallsOf(S)
    PROVE  v[1] \in {"TOOL_CALL", "PROGRESS_UPDATE"} /\ v[2] \in S
  <1>1. PICK c \in S : v = <<CallKind[c], c>>  BY DEF CallsOf
  <1>2. c \in DOMAIN MCCalls  OBVIOUS
  <1>3. CallKind[c] \in {"TOOL_CALL", "PROGRESS_UPDATE"}  BY <1>2, KindsDiffer
  <1> QED BY <1>1, <1>3

LEMMA ResultForms ==
    ASSUME NEW S \in SUBSET DOMAIN MCCalls, NEW v \in ResultsOf(S)
    PROVE  v[1] = "TOOL_RESULT" /\ v[2] \in S
  <1>1. PICK c \in S : v = <<ResultKind[c], c>>  BY DEF ResultsOf
  <1>2. c \in DOMAIN MCCalls  OBVIOUS
  <1>3. ResultKind[c] = "TOOL_RESULT"  BY <1>2, KindsDiffer
  <1> QED BY <1>1, <1>3

LEMMA RefForms ==
    ASSUME NEW N, NEW v \in RefsOf(N)
    PROVE  v[1] = "EVIDENCE_ADDED" /\ v[2] \in N
  BY DEF RefsOf

LEMMA RequestTells ==
    ASSUME MessagesInv, EventsInv, Catalog!Request
    PROVE  EventsInv'
  <1> DEFINE more == Catalog!Announced(transcript)
             ids == Catalog!IdsOf(transcript, "call")
             C == ids \ seenCalls
             R == Catalog!IdsOf(transcript, "result") \ (seenResults \cup Cards)
             n == Len(items)
  <1>1. /\ events' = events \o more /\ ids = Catalog!IdsOf(transcript, "result")
        /\ seenCalls' = seenCalls \cup ids /\ items' = items
        /\ seenResults' = seenResults \cup Catalog!IdsOf(transcript, "result")
    BY DEF Catalog!Request, Catalog!catalogVars
  <1>2. ids \subseteq DOMAIN MCCalls  BY IdsIs DEF MessagesInv, Heard
  <1>3. /\ IsSeq(more) /\ Say(more) = ({RequestEvent} \cup CallsOf(C)) \cup ResultsOf(R)
        /\ Once(more) /\ Rising(more)
        /\ \A u \in CallsOf(C), v \in ResultsOf(R) : Precedes(more, u, v)
    BY AnnouncedIs DEF MessagesInv
  <1> HIDE DEF more, ids, n
  <1>4. /\ IsSeq(events) /\ Once(events) /\ Rising(events)
        /\ seenCalls \subseteq DOMAIN MCCalls /\ seenResults \subseteq DOMAIN MCCalls
        /\ Told(seenCalls, seenResults, n) \subseteq Say(events)
        /\ Say(events) \subseteq Told(seenCalls, seenResults, n) \cup {RequestEvent}
        /\ \A c \in seenResults \ Cards : Precedes(events, <<"TOOL_CALL", c>>, <<"TOOL_RESULT", c>>)
    BY DEF EventsInv, n
  <1>5. /\ C \in SUBSET DOMAIN MCCalls /\ R \in SUBSET DOMAIN MCCalls
        /\ seenCalls \in SUBSET DOMAIN MCCalls /\ seenResults \ Cards \in SUBSET DOMAIN MCCalls
        /\ R \cap (seenResults \cup Cards) = {} /\ C \cap seenCalls = {}
        /\ R = ids \ (seenResults \cup Cards)
    BY <1>1, <1>2, <1>4
  <1> HIDE DEF C, R
  <1>6. \A v \in Say(events) \cap Say(more) : v[1] = "MODEL_REQUEST"
    <2> SUFFICES ASSUME NEW v, v \in Say(events), v \in Say(more), v[1] # "MODEL_REQUEST"
                 PROVE  FALSE
      OBVIOUS
    <2>1. v \in CallsOf(C) \/ v \in ResultsOf(R)
      BY <1>3, KindForms, CallForms, ResultForms, RefForms DEF RequestEvent
    <2>2. v \in CallsOf(seenCalls) \/ v \in ResultsOf(seenResults \ Cards) \/ v \in RefsOf(1 .. n)
      <3>1. v \in CallsOf(seenCalls) \/ v \in ResultsOf(seenResults \ Cards)
            \/ v \in RefsOf(1 .. n) \/ v = RequestEvent
        BY <1>4 DEF Told
      <3>2. v # RequestEvent  BY DEF RequestEvent
      <3> QED BY <3>1, <3>2
    <2>3. CASE v \in CallsOf(C)
      <3>1. v[1] \in {"TOOL_CALL", "PROGRESS_UPDATE"} /\ v[2] \in C
        BY <1>5, <2>3, KindForms, CallForms, ResultForms, RefForms
      <3>2. v \in CallsOf(seenCalls)
        BY <1>5, <2>2, <3>1, KindForms, CallForms, ResultForms, RefForms
      <3>3. v[2] \in seenCalls
        BY <1>5, <3>2, KindForms, CallForms, ResultForms, RefForms
      <3> QED BY <1>5, <3>1, <3>3
    <2>4. CASE v \in ResultsOf(R)
      <3>1. v[1] = "TOOL_RESULT" /\ v[2] \in R
        BY <1>5, <2>4, KindForms, CallForms, ResultForms, RefForms
      <3>2. v \in ResultsOf(seenResults \ Cards)
        BY <1>5, <2>2, <3>1, KindForms, CallForms, ResultForms, RefForms
      <3>3. v[2] \in seenResults
        BY <1>5, <3>2, KindForms, CallForms, ResultForms, RefForms
      <3> QED BY <1>5, <3>1, <3>3
    <2> QED BY <2>1, <2>3, <2>4
  <1>7. \A u \in Say(events), v \in Say(more) : IsRef(u) /\ IsRef(v) => u[2] < v[2]
    <2>1. \A v \in Say(more) : ~IsRef(v)
      BY <1>3, <1>5, KindForms, CallForms, ResultForms, RefForms DEF IsRef, RequestEvent
    <2> QED BY <2>1
  <1>8. PICK e : e = events \o more  OBVIOUS
  <1>9. /\ IsSeq(e) /\ Once(e) /\ Rising(e) /\ Say(e) = Say(events) \cup Say(more)
        /\ \A u, v : \/ Precedes(events, u, v) \/ Precedes(more, u, v)
                     \/ (u \in Say(events) /\ v \in Say(more))
                     => Precedes(e, u, v)
    BY <1>3, <1>4, <1>6, <1>7, <1>8, JoinedSays
  <1>10. Told(seenCalls', seenResults', n)
            = (Told(seenCalls, seenResults, n) \cup CallsOf(C)) \cup ResultsOf(R)
    <2>1. seenCalls' = seenCalls \cup C /\ seenResults' \ Cards = (seenResults \ Cards) \cup R
      BY <1>1, <1>5 DEF C
    <2>2. \A S, U : CallsOf(S \cup U) = CallsOf(S) \cup CallsOf(U)
                    /\ ResultsOf(S \cup U) = ResultsOf(S) \cup ResultsOf(U)
      BY DEF CallsOf, ResultsOf
    <2>3. /\ CallsOf(seenCalls') = CallsOf(seenCalls) \cup CallsOf(C)
          /\ ResultsOf(seenResults' \ Cards) = ResultsOf(seenResults \ Cards) \cup ResultsOf(R)
      BY <2>1, <2>2
    <2> QED BY <2>3 DEF Told
  <1>11. ASSUME NEW c \in seenResults' \ Cards
         PROVE  Precedes(e, <<"TOOL_CALL", c>>, <<"TOOL_RESULT", c>>)
    <2>1. CASE c \in seenResults  BY <1>4, <1>9, <1>11, <2>1
    <2>2. CASE c \notin seenResults
      <3>1. c \in ids /\ c \in R /\ c \in DOMAIN MCCalls
        BY <1>1, <1>2, <1>5, <1>11, <2>2
      <3>2. CallKind[c] = "TOOL_CALL" /\ ResultKind[c] = "TOOL_RESULT"
        BY <1>11, <3>1, KindForms, CallForms, ResultForms, RefForms
      <3>3. <<"TOOL_RESULT", c>> \in ResultsOf(R)  BY <3>1, <3>2 DEF ResultsOf
      <3>4. CASE c \in seenCalls
        <4>1. <<"TOOL_CALL", c>> \in CallsOf(seenCalls)  BY <3>2, <3>4 DEF CallsOf
        <4>2. <<"TOOL_CALL", c>> \in Say(events)  BY <1>4, <4>1 DEF Told
        <4>3. <<"TOOL_RESULT", c>> \in Say(more)  BY <1>3, <3>3
        <4> QED BY <1>9, <4>2, <4>3
      <3>5. CASE c \notin seenCalls
        <4>1. c \in C  BY <3>1, <3>5 DEF C
        <4>2. <<"TOOL_CALL", c>> \in CallsOf(C)  BY <3>2, <4>1 DEF CallsOf
        <4> QED BY <1>3, <1>9, <3>3, <4>2
      <3> QED BY <3>4, <3>5
    <2> QED BY <2>1, <2>2
  <1>12. /\ Told(seenCalls', seenResults', n) \subseteq Say(e)
         /\ Say(e) \subseteq Told(seenCalls', seenResults', n) \cup {RequestEvent}
    BY <1>3, <1>4, <1>9, <1>10
  <1>13. seenCalls' \subseteq DOMAIN MCCalls /\ seenResults' \subseteq DOMAIN MCCalls
    BY <1>1, <1>2, <1>4
  <1>14. events' = e /\ Len(items') = n  BY <1>1, <1>8 DEF n
  <1>15. /\ IsSeq(events') /\ Once(events') /\ Rising(events')
         /\ Told(seenCalls', seenResults', Len(items')) \subseteq Say(events')
         /\ Say(events') \subseteq Told(seenCalls', seenResults', Len(items')) \cup {RequestEvent}
         /\ \A c \in seenResults' \ Cards : Precedes(events', <<"TOOL_CALL", c>>, <<"TOOL_RESULT", c>>)
    BY <1>9, <1>11, <1>12, <1>14
  <1> QED BY <1>13, <1>15 DEF EventsInv, IsSeq, Once, Rising, Say, Precedes

LEMMA EndTells ==
    ASSUME MessagesInv, CatalogInv, EventsInv, Catalog!EndTurn,
           NEW T, NEW D, Ends(T, D)
    PROVE  EventsInv'
  <1> DEFINE n == Len(items)
  <1>1. PICK r : r = items'  OBVIOUS
  <1> DEFINE more == Catalog!Collected(items, r)
             N == n + 1 .. Len(r)
  <1>2. /\ IsSeq(items) /\ IsSeq(r) /\ n \in Nat /\ Len(r) \in Nat /\ n <= Len(r)
        /\ events' = events \o more
    BY <1>1, SeqFacts DEF Ends, Adds, CatalogInv
  <1>3. seenCalls' = seenCalls /\ seenResults' = seenResults
    BY DEF Catalog!EndTurn, Catalog!observerVars
  <1>4. IsSeq(more) /\ Once(more) /\ Rising(more) /\ Say(more) = RefsOf(N)
    BY <1>2, CollectedSays DEF RefsOf
  <1> HIDE DEF more
  <1>5. /\ IsSeq(events) /\ Once(events) /\ Rising(events)
        /\ seenCalls \in SUBSET DOMAIN MCCalls /\ seenResults \ Cards \in SUBSET DOMAIN MCCalls
        /\ Told(seenCalls, seenResults, n) \subseteq Say(events)
        /\ Say(events) \subseteq Told(seenCalls, seenResults, n) \cup {RequestEvent}
        /\ \A c \in seenResults \ Cards : Precedes(events, <<"TOOL_CALL", c>>, <<"TOOL_RESULT", c>>)
    BY DEF EventsInv
  <1> HIDE DEF n
  <1>6. \A v \in Say(events) : v[1] = "EVIDENCE_ADDED" => v[2] \in 1 .. n
    <2> SUFFICES ASSUME NEW v \in Say(events), v[1] = "EVIDENCE_ADDED"
                 PROVE  v[2] \in 1 .. n
      OBVIOUS
    <2>1. v \in CallsOf(seenCalls) \/ v \in ResultsOf(seenResults \ Cards)
          \/ v \in RefsOf(1 .. n) \/ v = RequestEvent
      BY <1>5 DEF Told
    <2>2. v \in RefsOf(1 .. n)
      BY <1>5, <2>1, CallForms, ResultForms DEF RequestEvent
    <2> QED BY <2>2, RefForms
  <1>7. \A v \in Say(more) : v[1] = "EVIDENCE_ADDED" /\ v[2] \in N
    BY <1>4, KindForms, CallForms, ResultForms, RefForms
  <1>8. \A v \in Say(events) \cap Say(more) : v[1] = "MODEL_REQUEST"
    <2>1. \A k : ~(k \in 1 .. n /\ k \in N)  BY <1>2
    <2> QED BY <1>6, <1>7, <2>1
  <1>9. \A u \in Say(events), v \in Say(more) : IsRef(u) /\ IsRef(v) => u[2] < v[2]
    <2>1. \A k \in 1 .. n : \A l \in N : k < l  BY <1>2
    <2> QED BY <1>6, <1>7, <2>1 DEF IsRef
  <1>10. PICK e : e = events \o more  OBVIOUS
  <1>11. /\ IsSeq(e) /\ Once(e) /\ Rising(e) /\ Say(e) = Say(events) \cup Say(more)
         /\ \A u, v : Precedes(events, u, v) => Precedes(e, u, v)
    BY <1>4, <1>5, <1>8, <1>9, <1>10, JoinedSays
  <1>12. RefsOf(1 .. Len(r)) = RefsOf(1 .. n) \cup RefsOf(N)
    <2>1. 1 .. Len(r) = (1 .. n) \cup N  BY <1>2
    <2> HIDE DEF N
    <2>2. RefsOf((1 .. n) \cup N) = RefsOf(1 .. n) \cup RefsOf(N)  BY DEF RefsOf
    <2> QED BY <2>1, <2>2
  <1>13. Told(seenCalls, seenResults, Len(r)) = Told(seenCalls, seenResults, n) \cup Say(more)
    BY <1>4, <1>12 DEF Told
  <1>14. /\ IsSeq(events') /\ Once(events') /\ Rising(events')
         /\ Told(seenCalls', seenResults', Len(items')) \subseteq Say(events')
         /\ Say(events') \subseteq Told(seenCalls', seenResults', Len(items')) \cup {RequestEvent}
         /\ \A c \in seenResults' \ Cards : Precedes(events', <<"TOOL_CALL", c>>, <<"TOOL_RESULT", c>>)
    BY <1>1, <1>2, <1>3, <1>5, <1>10, <1>11, <1>13
  <1> QED BY <1>3, <1>14 DEF EventsInv, IsSeq, Once, Rising, Say, Precedes

LEMMA EventsStep ==
    ASSUME Catalog!InputsAssumption, Catalog!LimitsPositive,
           MessagesInv, CatalogInv, EventsInv, Catalog!Next
    PROVE  EventsInv'
  <1> USE DEF Catalog!agentVars, Catalog!observerVars, Catalog!catalogVars
  <1>1. CASE Catalog!Request  BY <1>1, RequestTells
  <1>2. CASE Catalog!EndTurn
    <2>1. PICK D : Ends(IdsIn(audit, "call") \ processed, D)
      BY <1>2, EndIs DEF MessagesInv, CatalogInv
    <2> QED BY <1>2, <2>1, EndTells
  <1>3. CASE UNCHANGED <<events, seenCalls, seenResults, items>>
    BY <1>3 DEF EventsInv, IsSeq, Once, Rising, Say, Precedes
  <1>4. Catalog!BeginTurn \/ Catalog!Compact => UNCHANGED <<events, seenCalls, seenResults, items>>
    BY DEF Catalog!BeginTurn, Catalog!Compact
  <1>5. \A c \in DOMAIN MCCalls : Catalog!Invoke(c) =>
           UNCHANGED <<events, seenCalls, seenResults, items>>
    BY DEF Catalog!Invoke
  <1>6. \A c \in DOMAIN MCCalls, u, o \in BOOLEAN : Catalog!Return(c, u, o) =>
           UNCHANGED <<events, seenCalls, seenResults, items>>
    BY DEF Catalog!Return
  <1>7. \A p \in DOMAIN disk, v \in {"v2", "gone", "unreadable"} : Catalog!Touch(p, v) =>
           UNCHANGED <<events, seenCalls, seenResults, items>>
    BY DEF Catalog!Touch
  <1>8. \A g \in BOOLEAN : Catalog!Load(g) => UNCHANGED <<events, seenCalls, seenResults, items>>
    BY DEF Catalog!Load
  <1> QED BY <1>1, <1>2, <1>3, <1>4, <1>5, <1>6, <1>7, <1>8 DEF Catalog!Next

LEMMA AnnouncedOnceIs ==
    ASSUME MessagesInv, EventsInv, IsSeq(items)
    PROVE  Catalog!AnnouncedOnce
  <1> DEFINE at(e) == {i \in DOMAIN events : events[i] = e}
             refs == {i \in DOMAIN events : events[i][1] = "EVIDENCE_ADDED"}
             n == Len(items)
  <1>1. n \in Nat /\ DOMAIN items = 1 .. n  BY SeqFacts
  <1>2. /\ Once(events) /\ Rising(events)
        /\ seenCalls \in SUBSET DOMAIN MCCalls /\ seenResults \ Cards \in SUBSET DOMAIN MCCalls
        /\ Told(seenCalls, seenResults, n) \subseteq Say(events)
        /\ Say(events) \subseteq Told(seenCalls, seenResults, n) \cup {RequestEvent}
        /\ \A c \in seenResults \ Cards : Precedes(events, <<"TOOL_CALL", c>>, <<"TOOL_RESULT", c>>)
    BY DEF EventsInv
  <1> HIDE DEF n
  <1>3. {events[i][2] : i \in refs} = DOMAIN items
    <2>1. ASSUME NEW i \in refs
          PROVE  events[i][2] \in 1 .. n
      <3>1. events[i] \in Say(events) /\ events[i][1] = "EVIDENCE_ADDED"
        BY <2>1 DEF Say
      <3>2. PICK v : v = events[i]  OBVIOUS
      <3>3. v \in CallsOf(seenCalls) \/ v \in ResultsOf(seenResults \ Cards)
            \/ v \in RefsOf(1 .. n) \/ v = RequestEvent
        BY <1>2, <3>1, <3>2 DEF Told
      <3>4. v \in RefsOf(1 .. n)
        BY <1>2, <3>1, <3>2, <3>3, KindForms, CallForms, ResultForms, RefForms DEF RequestEvent
      <3> QED BY <3>2, <3>4, KindForms, CallForms, ResultForms, RefForms
    <2>2. ASSUME NEW k \in 1 .. n
          PROVE  \E i \in refs : events[i][2] = k
      <3>1. <<"EVIDENCE_ADDED", k>> \in RefsOf(1 .. n)  BY <2>2 DEF RefsOf
      <3>2. <<"EVIDENCE_ADDED", k>> \in Say(events)  BY <1>2, <3>1 DEF Told
      <3>3. PICK i \in DOMAIN events : events[i] = <<"EVIDENCE_ADDED", k>>
        BY <3>2 DEF Say
      <3> QED BY <3>3
    <2> QED BY <1>1, <2>1, <2>2
  <1>4. \A i, j \in refs : i < j => events[i][2] < events[j][2]
    BY <1>2 DEF Rising, IsRef
  <1>5. ASSUME NEW c \in carried
        PROVE  IF Catalog!IsCard(c) THEN at(<<"PROGRESS_UPDATE", c>>) # {} /\ at(<<"TOOL_RESULT", c>>) = {}
               ELSE \E i \in at(<<"TOOL_CALL", c>>), j \in at(<<"TOOL_RESULT", c>>) : i < j
    <2>1. c \in DOMAIN MCCalls /\ c \in seenCalls /\ c \in seenResults
      BY DEF MessagesInv
    <2>2. Catalog!IsCard(c) <=> c \in Cards  BY <2>1 DEF Cards
    <2>3. CASE c \in Cards
      <3>1. <<"PROGRESS_UPDATE", c>> \in CallsOf(seenCalls)
        BY <2>1, <2>3, KindForms, CallForms, ResultForms, RefForms DEF CallsOf
      <3>2. <<"PROGRESS_UPDATE", c>> \in Say(events)  BY <1>2, <3>1 DEF Told
      <3>3. at(<<"PROGRESS_UPDATE", c>>) # {}  BY <3>2 DEF Say
      <3>4. ASSUME NEW i \in at(<<"TOOL_RESULT", c>>)
            PROVE  FALSE
        <4>1. PICK v : v = <<"TOOL_RESULT", c>>  OBVIOUS
        <4>2. v \in Say(events) /\ v[1] = "TOOL_RESULT" /\ v[2] = c
          BY <3>4, <4>1 DEF Say
        <4>3. v \in CallsOf(seenCalls) \/ v \in ResultsOf(seenResults \ Cards)
              \/ v \in RefsOf(1 .. n) \/ v = RequestEvent
          BY <1>2, <4>2 DEF Told
        <4>4. v \in ResultsOf(seenResults \ Cards)
          BY <1>2, <4>2, <4>3, KindForms, CallForms, ResultForms, RefForms DEF RequestEvent
        <4>5. v[2] \in seenResults \ Cards
          BY <1>2, <4>4, KindForms, CallForms, ResultForms, RefForms
        <4> QED BY <2>3, <4>2, <4>5
      <3> QED BY <2>2, <2>3, <3>3, <3>4
    <2>4. CASE c \notin Cards
      <3>1. Precedes(events, <<"TOOL_CALL", c>>, <<"TOOL_RESULT", c>>)
        BY <1>2, <2>1, <2>4
      <3> QED BY <2>2, <2>4, <3>1 DEF Precedes
    <2> QED BY <2>3, <2>4
  <1>6. \A i, j \in DOMAIN events :
               events[i] = events[j] => i = j \/ events[i][1] = "MODEL_REQUEST"
    BY <1>2 DEF Once
  <1> QED BY <1>3, <1>4, <1>5, <1>6, Zenon DEF Catalog!AnnouncedOnce

-----------------------------------------------------------------------------
EvidenceInv == MessagesInv /\ CatalogInv /\ EventsInv

LEMMA EvidenceStart ==
    ASSUME Catalog!Init
    PROVE  EvidenceInv
  <1>1. /\ transcript = <<>> /\ audit = <<>> /\ seenCalls = {} /\ seenResults = {} /\ events = <<>>
        /\ processed = {} /\ items = <<>> /\ carried = {} /\ phase = "idle"
    BY DEF Catalog!Init
  <1>2. MessagesInv  BY <1>1, EmptyIsSeq DEF MessagesInv, Heard, Recorded
  <1>3. CatalogInv  BY <1>1, EmptyIsSeq DEF CatalogInv
  <1>4. EventsInv
    <2>1. CallsOf({}) = {} /\ ResultsOf({}) = {} /\ RefsOf(1 .. 0) = {}
      BY DEF CallsOf, ResultsOf, RefsOf
    <2>2. {} \ Cards = {}  OBVIOUS
    <2>3. Told({}, {}, 0) = {}  BY <2>1, <2>2 DEF Told
    <2>4. Say(<<>>) = {} /\ Once(<<>>) /\ Rising(<<>>)
      BY EmptyIsSeq DEF Say, Once, Rising
    <2> QED BY <1>1, <2>3, <2>4, EmptyIsSeq DEF EventsInv
  <1> QED BY <1>2, <1>3, <1>4 DEF EvidenceInv

LEMMA EvidenceSteps ==
    ASSUME Catalog!InputsAssumption, Catalog!LimitsPositive, EvidenceInv,
           [Catalog!Next]_evidenceVars
    PROVE  EvidenceInv' /\ Catalog!RefsKeptByStep
  <1>1. MessagesInv /\ CatalogInv /\ EventsInv /\ IsSeq(items)
    BY DEF EvidenceInv, CatalogInv
  <1>2. CASE Catalog!Next
    BY <1>1, <1>2, MessagesStep, CatalogStep, EventsStep DEF EvidenceInv
  <1>3. CASE UNCHANGED evidenceVars
    <2>1. UNCHANGED <<transcript, audit, seenCalls, seenResults, events, processed, items,
                      carried, phase>>
      BY <1>3 DEF evidenceVars
    <2>2. MessagesInv'  BY <1>1, <2>1, MessagesStay DEF MessagesInv, Heard
    <2>3. CatalogInv' /\ Catalog!RefsKeptByStep  BY <1>1, <2>1, CatalogStays
    <2>4. EventsInv'
      BY <1>1, <2>1 DEF EventsInv, IsSeq, Once, Rising, Say, Precedes
    <2> QED BY <2>2, <2>3, <2>4 DEF EvidenceInv
  <1> QED BY <1>2, <1>3

LEMMA EvidenceHolds ==
    ASSUME EvidenceInv
    PROVE  /\ Catalog!NothingMissed /\ Catalog!OnlyClaimGrade
           /\ Catalog!AnnouncedOnce /\ Catalog!PromptLossless
  BY NothingIsMissed, OnlyClaimGradeIs, AnnouncedOnceIs, PromptIsLossless DEF EvidenceInv, CatalogInv

-----------------------------------------------------------------------------
(* The root: one component is run.                                           *)

StoresAssumptions == /\ Docker!BoundAssumption /\ Starts!NoOneAssumption
                     /\ Files!RequestsAssumption /\ List!ListAssumption
                     /\ Packages!CollectAssumption
                     /\ Catalog!LimitsPositive /\ Catalog!InputsAssumption

StoresInv == /\ which = "docker" => DockerInv
             /\ which = "starts" => StartsInv
             /\ which = "files" => FilesInv
             /\ which = "list" => ListInv
             /\ which = "packages" => PackagesInv
             /\ which = "evidence" => EvidenceInv

LEMMA StoresAssumed == StoresAssumptions
  BY DockerAssumption, StartsAssumption, FilesAssumption, RowsAssumption, PackagesAssumption,
     EvidenceAssumption DEF StoresAssumptions

LEMMA StoresStart ==
    ASSUME StoresAssumptions, Init
    PROVE  StoresInv
  <1>1. which = "docker" => Docker!Init  BY DEF Init
  <1>2. which = "starts" => Starts!Init  BY DEF Init
  <1>3. which = "files" => Files!Init  BY DEF Init
  <1>4. which = "list" => List!Init  BY DEF Init
  <1>5. which = "packages" => Packages!Init  BY DEF Init
  <1>6. which = "evidence" => Catalog!Init  BY DEF Init
  <1> QED
    BY <1>1, <1>2, <1>3, <1>4, <1>5, <1>6, DockerStarts, StartsStart, FilesStart, ListStart,
       PackagesStart, EvidenceStart DEF StoresInv, StoresAssumptions

LEMMA StoresStep ==
    ASSUME StoresAssumptions, StoresInv, [Next]_vars
    PROVE  StoresInv'
  <1>1. which' = which  BY DEF Next, vars
  <1>2. ASSUME which = "docker"
        PROVE  DockerInv'
    <2>1. [Docker!Next]_dockerVars  BY <1>2 DEF Next, vars
    <2> QED BY <1>2, <2>1, DockerStep DEF StoresInv, StoresAssumptions
  <1>3. ASSUME which = "starts"
        PROVE  StartsInv'
    <2>1. [Starts!Next]_startVars  BY <1>3 DEF Next, vars
    <2> QED BY <1>3, <2>1, StartsStep DEF StoresInv, StoresAssumptions
  <1>4. ASSUME which = "files"
        PROVE  FilesInv'
    <2>1. [Files!Next]_fileVars  BY <1>4 DEF Next, vars
    <2> QED BY <1>4, <2>1, FilesStep DEF StoresInv, StoresAssumptions
  <1>5. ASSUME which = "list"
        PROVE  ListInv'
    <2>1. [List!Next]_listVars  BY <1>5 DEF Next, vars
    <2> QED BY <1>5, <2>1, ListSteps DEF StoresInv, StoresAssumptions
  <1>6. ASSUME which = "packages"
        PROVE  PackagesInv'
    <2>1. [Packages!Next]_packageVars  BY <1>6 DEF Next, vars
    <2> QED BY <1>6, <2>1, PackagesSteps DEF StoresInv, StoresAssumptions
  <1>7. ASSUME which = "evidence"
        PROVE  EvidenceInv'
    <2>1. [Catalog!Next]_evidenceVars  BY <1>7 DEF Next, vars
    <2> QED BY <1>7, <2>1, EvidenceSteps DEF StoresInv, StoresAssumptions
  <1> QED BY <1>1, <1>2, <1>3, <1>4, <1>5, <1>6, <1>7 DEF StoresInv

LEMMA StoresHold == Spec => []StoresInv
  <1>1. Init => StoresInv  BY StoresStart, StoresAssumed
  <1>2. StoresInv /\ [Next]_vars => StoresInv'  BY StoresStep, StoresAssumed
  <1> QED BY <1>1, <1>2, PTL DEF Spec

\* A cleanup that says it is clean left no container behind, no container of
\* another agent is ever touched, and a task sees its own directory only
\* (sandbox.py, whatever several runs of one agent and failing docker calls do).
THEOREM CleanupsAreTrue == Spec => []DockerSound
  <1>1. StoresInv => DockerSound
    BY DockerIsSound, DockerAssumption DEF StoresInv, DockerSound
  <1> QED BY <1>1, StoresHold, PTL

\* While a process serves, the skills and catalogs that it told its agent of are
\* whole, every unfinished record is one of its own threads', and each path is
\* mounted once, from the last source that names it (runtime_api.py, for any
\* number of starts and deaths on one data-root).
THEOREM StartsAreWhole == Spec => []StartsSound
  <1>1. StoresInv => StartsSound
    BY StartsAreSound, StartsAssumption DEF StoresInv, StartsSound
  <1> QED BY <1>1, StoresHold, PTL

\* Whatever requests read, rate, export and delete a task while its worker still
\* writes: a deletion leaves nothing of the task but a rating that was under way,
\* a bundle holds the files its manifest names, and a task that nobody deletes
\* answers every request (audit.py, delete_task).  And leafing through the list
\* shows every task that kept its place, while others come, move and change, and
\* the calendar counts each task once (list_tasks, calendar_month).
THEOREM TaskRecordsAreWhole == Spec => []TaskRecordsSound
  <1>1. StoresInv => TaskRecordsSound
    BY FilesAreSound, ListIsSound, RowsAssumption DEF StoresInv, TaskRecordsSound
  <1> QED BY <1>1, StoresHold, PTL

\* Whatever changes of the files while they are collected, and whatever fails: no
\* package exceeds its limits, its hashes are those of its copies, a copy that
\* differs from what was analysed and a whole file that has no copy are reported,
\* and nothing of a deleted task comes back (data_packages.py, _collect).  What a
\* window of a log holds is left to the run (PackagesSound).
THEOREM PackagesAreHonest ==
    Spec => [](which = "packages" => /\ Packages!HashesTrue /\ Packages!WithinLimits
                                     /\ Packages!NothingComesBack /\ WholeFilesAccounted)
  <1>1. StoresInv => (which = "packages" => /\ Packages!HashesTrue /\ Packages!WithinLimits
                                            /\ Packages!NothingComesBack /\ WholeFilesAccounted)
    BY PackagesAreSound DEF StoresInv
  <1> QED BY <1>1, StoresHold, PTL

\* What was given out is not taken back.  A package that is there goes only for
\* a finished one or with its task: no build that fails, and no crash, takes it
\* away (os.replace at the end of build).  And a reference to evidence, once given,
\* names the same evidence for good (EvidenceCatalog.add), in turns that fail too.
THEOREM NothingIsReplaced == Spec => NothingReplaced
  <1> DEFINE Kept == /\ which = "packages" => Packages!PackageKeptByStep
                     /\ which = "evidence" => Catalog!RefsKeptByStep
  <1>1. StoresInv /\ [Next]_vars => Kept
    <2>1. ASSUME [Next]_vars, which = "packages"
          PROVE  Packages!PackageKeptByStep
      <3>1. [Packages!Next]_packageVars  BY <2>1 DEF Next, vars
      <3> QED BY <3>1, PackageStays
    <2>2. ASSUME StoresInv, [Next]_vars, which = "evidence"
          PROVE  Catalog!RefsKeptByStep
      <3>1. [Catalog!Next]_evidenceVars  BY <2>2 DEF Next, vars
      <3> QED BY <2>2, <3>1, StoresAssumed, EvidenceSteps DEF StoresInv, StoresAssumptions
    <2> QED BY <2>1, <2>2
  <1>2. NothingReplaced <=> [][Kept]_vars  BY DEF NothingReplaced
  <1> HIDE DEF Kept
  <1> QED BY <1>1, <1>2, StoresHold, PTL DEF Spec

\* However the agent reads, repeats itself and is compacted, and whatever changes
\* on the host: each call that a request carried with its result is in the catalog
\* at the end of its turn, as far as it may prove something, and nothing else is;
\* every call, result and reference is announced once and in order; and the prompt
\* of the finalizer has each reference once, in order, under a header that holds
\* of it (trace.py, projector.py, catalog.py, progress.py, structured.py).
THEOREM EvidenceIsSound == Spec => []EvidenceSound
  <1>1. StoresInv => EvidenceSound  BY EvidenceHolds DEF StoresInv, EvidenceSound
  <1> QED BY <1>1, StoresHold, PTL
=============================================================================
