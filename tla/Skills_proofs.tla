---------------------------- MODULE Skills_proofs ---------------------------
(* Proofs about MC_Skills.  For every length of the host's clock: the figures  *)
(* an answer names were measured after the task left the queue and are dated   *)
(* (HostFacts.tla, FiguresAreOurs).  For every log the plant's program can     *)
(* write, every window and every limit: the log tools miss nothing, say what   *)
(* they left out and count each cow once (LogTools.tla, ToolsAreSound).  For   *)
(* every log of the controller: the encoder skill reads no event across a      *)
(* missing sample and counts each decrease once (EncoderHealth.tla,            *)
(* EncoderEventsAreSound).                                                     *)
EXTENDS MC_Skills, FiniteSetTheorems, SequenceTheorems, WellFoundedInduction, TLAPS

-----------------------------------------------------------------------------
(* HostFacts: the picture of the host.                                       *)

Snap(f, c, e) == [figures |-> f, captured_at |-> c, errors |-> e]
SnapOk(s) == /\ s = Snap(s.figures, s.captured_at, s.errors)
             /\ s.figures \in [Host!Figures -> 0 .. HostTime] /\ s.captured_at \in 0 .. HostTime
             /\ s.errors \subseteq Host!Commands \cup {"collector"}

\* The commands that may have taken their time since the first figures.
Behind(d) == IF d <= 1 THEN 0 ELSE IF d >= 4 THEN 3 ELSE d - 1

\* A figure v, of a task that was admitted at a, in a snapshot dated at c.
Obtained(f, v, a, ms) == v # 0 => <<f, v>> \in ms /\ a <= v
Within(v, c, k) == v # 0 => c # 0 /\ v <= c /\ c - v <= k

HostInv ==
    /\ HostTime \in Nat /\ now \in 1 .. HostTime /\ admitted \in 0 .. now /\ phase \in Host!Phases
    /\ done \in 0 .. 9
    /\ SnapOk(snapshot)
    /\ measured \subseteq Host!Figures \X (0 .. HostTime)
    /\ spoken \in [Host!Figures -> 0 .. HostTime]
    /\ \A f \in Host!Figures : Obtained(f, snapshot.figures[f], admitted, measured)
    /\ phase = "queued" => done = 0 /\ snapshot = Host!Empty /\ measured = {}
    /\ phase = "collecting" =>
         /\ \A f \in Host!Figures : Within(snapshot.figures[f], now, Behind(done))
         /\ done = 0 => \A f \in Host!Figures : snapshot.figures[f] = 0
         /\ done >= 6 => snapshot.captured_at = now
    /\ phase \notin {"queued", "collecting"} =>
         \A f \in Host!Figures : Within(snapshot.figures[f], snapshot.captured_at, 3)
    /\ \A f \in Host!Figures : spoken[f] # 0 => spoken[f] = snapshot.figures[f] /\ phase = "answered"

LEMMA SnapIs ==
    ASSUME NEW f, NEW c, NEW e, NEW s, s = Snap(f, c, e)
    PROVE  s.figures = f /\ s.captured_at = c /\ s.errors = e
  BY DEF Snap

LEMMA HostStarts ==
    ASSUME Host!TimeAssumption, Host!Init
    PROVE  HostInv
  <1>1. HostTime \in Nat /\ HostTime # 0
    BY DEF Host!TimeAssumption
  <1>2. Host!NoFigures \in [Host!Figures -> 0 .. HostTime] /\ \A f \in Host!Figures : Host!NoFigures[f] = 0
    BY <1>1 DEF Host!NoFigures, Host!None
  <1>3. snapshot = Snap(Host!NoFigures, 0, {})
    BY DEF Host!Init, Host!Empty, Host!None, Snap
  <1>4. snapshot.figures = Host!NoFigures /\ snapshot.captured_at = 0 /\ snapshot.errors = {}
    BY <1>3, SnapIs
  <1>5. SnapOk(snapshot)
    BY <1>1, <1>2, <1>3, <1>4 DEF SnapOk
  <1>6. /\ now = 1 /\ phase = "queued" /\ admitted = 0 /\ done = 0 /\ snapshot = Host!Empty
        /\ measured = {} /\ spoken = Host!NoFigures
    BY DEF Host!Init, Host!None
  <1>7. \A f \in Host!Figures : Obtained(f, snapshot.figures[f], admitted, measured)
    BY <1>2, <1>4 DEF Obtained
  <1> QED
    BY <1>1, <1>2, <1>5, <1>6, <1>7 DEF HostInv, Host!Phases

\* What a collector may bring.
LEMMA ObtainsFigures ==
    ASSUME NEW d \in 0 .. 8, NEW o \in Host!Obtains(Host!Collectors[d + 1])
    PROVE  o \subseteq Host!Figures
  <1>1. o \in Host!Obtains("gpu") \cup Host!Obtains("docker") \cup Host!Obtains("top_cpu")
            \cup Host!Obtains("top_memory") \cup Host!Obtains("load") \cup Host!Obtains("captured_at")
            \cup Host!Obtains("cpu") \cup Host!Obtains("memory") \cup Host!Obtains("disks")
    <2>1. \E k \in 1 .. 9 : k = d + 1
      OBVIOUS
    <2>2. Host!Collectors[d + 1] \in {"gpu", "docker", "top_cpu", "top_memory", "load",
                                      "captured_at", "cpu", "memory", "disks"}
      BY <2>1 DEF Host!Collectors
    <2> QED
      BY <2>2
  <1> QED
    BY <1>1 DEF Host!Obtains, Host!Figures

LEMMA ClockSteps ==
    ASSUME HostInv, Host!Tick \/ Host!Admit \/ Host!Write \/ Host!Pause \/ Host!Resume
    PROVE  HostInv'
  <1>1. UNCHANGED <<snapshot, measured, spoken, done>>
    BY DEF Host!Tick, Host!Admit, Host!Write, Host!Pause, Host!Resume
  <1>2. CASE Host!Tick
    <2>1. now' = now + 1 /\ now < HostTime /\ UNCHANGED <<phase, admitted>> /\ phase # "collecting"
      BY <1>2 DEF Host!Tick
    <2>2. now' \in 1 .. HostTime /\ admitted \in 0 .. now'
      BY <2>1 DEF HostInv
    <2> QED
      BY <1>1, <2>1, <2>2 DEF HostInv
  <1>3. CASE Host!Admit
    <2>1. phase = "queued" /\ phase' = "collecting" /\ admitted' = now /\ now' = now
      BY <1>3 DEF Host!Admit
    <2>2. snapshot = Host!Empty /\ done = 0 /\ measured = {}
      BY <2>1 DEF HostInv
    <2>3. \A f \in Host!Figures : snapshot.figures[f] = 0
      BY <2>2 DEF Host!Empty, Host!NoFigures, Host!None
    <2>4. \A f \in Host!Figures : Obtained(f, snapshot.figures[f], admitted', measured)
      BY <2>3 DEF Obtained
    <2>5. \A f \in Host!Figures : Within(snapshot.figures[f], now, Behind(done))
      BY <2>3 DEF Within
    <2>6. admitted' \in 0 .. now' /\ phase' \in Host!Phases
      BY <2>1 DEF HostInv, Host!Phases
    <2> QED
      BY <1>1, <2>1, <2>2, <2>3, <2>4, <2>5, <2>6 DEF HostInv
  <1>4. CASE Host!Write
    <2>1. phase = "collecting" /\ done = 9 /\ phase' = "running" /\ UNCHANGED <<now, admitted>>
      BY <1>4 DEF Host!Write, Host!Collectors
    <2>2. Behind(done) = 3 /\ snapshot.captured_at = now
      BY <2>1 DEF HostInv, Behind
    <2>3. \A f \in Host!Figures : Within(snapshot.figures[f], snapshot.captured_at, 3)
      BY <2>1, <2>2 DEF HostInv
    <2>4. phase' \in Host!Phases
      BY <2>1 DEF Host!Phases
    <2> QED
      BY <1>1, <2>1, <2>3, <2>4 DEF HostInv
  <1>5. CASE Host!Pause \/ Host!Resume
    <2>1. phase \in {"running", "paused"} /\ phase' \in {"running", "paused"} /\ UNCHANGED <<now, admitted>>
      BY <1>5 DEF Host!Pause, Host!Resume
    <2>2. phase' \in Host!Phases
      BY <2>1 DEF Host!Phases
    <2> QED
      BY <1>1, <2>1, <2>2 DEF HostInv
  <1> QED
    BY <1>2, <1>3, <1>4, <1>5

LEMMA FailsStep ==
    ASSUME HostInv, Host!WriteFails
    PROVE  HostInv'
  <1>1. /\ UNCHANGED <<now, admitted, done, measured, spoken>>
        /\ phase = "collecting" /\ phase' \in {"running", "failed"}
        /\ snapshot' = Host!Fallback \/ snapshot' = Host!Empty
    BY DEF Host!WriteFails
  <1>2. \E e \in SUBSET {"collector"} : snapshot' = Snap(Host!NoFigures, 0, e)
    BY <1>1 DEF Host!Fallback, Host!Empty, Host!None, Snap
  <1>3. PICK e \in SUBSET {"collector"} : snapshot' = Snap(Host!NoFigures, 0, e)
    BY <1>2
  <1>4. snapshot'.figures = Host!NoFigures /\ snapshot'.captured_at = 0 /\ snapshot'.errors = e
    BY <1>3, SnapIs
  <1>5. HostTime \in Nat
    BY DEF HostInv
  <1>6. Host!NoFigures \in [Host!Figures -> 0 .. HostTime] /\ \A f \in Host!Figures : Host!NoFigures[f] = 0
    BY <1>5 DEF Host!NoFigures, Host!None
  <1>7. SnapOk(snapshot')
    <2>1. snapshot' = Snap(snapshot'.figures, snapshot'.captured_at, snapshot'.errors)
      BY <1>3, <1>4
    <2>2. snapshot'.figures \in [Host!Figures -> 0 .. HostTime] /\ snapshot'.captured_at \in 0 .. HostTime
      BY <1>4, <1>5, <1>6
    <2>3. snapshot'.errors \subseteq Host!Commands \cup {"collector"}
      BY <1>4
    <2> QED
      BY <2>1, <2>2, <2>3 DEF SnapOk
  <1>8. \A f \in Host!Figures : Obtained(f, snapshot'.figures[f], admitted, measured)
    BY <1>4, <1>6 DEF Obtained
  <1>9. \A f \in Host!Figures : Within(snapshot'.figures[f], snapshot'.captured_at, 3)
    BY <1>4, <1>6 DEF Within
  <1>10. \A f \in Host!Figures : spoken[f] = 0
    BY <1>1 DEF HostInv
  <1>11. phase' \in Host!Phases
    BY <1>1 DEF Host!Phases
  <1> QED
    BY <1>1, <1>7, <1>8, <1>9, <1>10, <1>11 DEF HostInv

LEMMA CollectStep ==
    ASSUME HostInv, Host!Collect
    PROVE  HostInv'
  <1>1. phase = "collecting" /\ done \in 0 .. 8 /\ UNCHANGED <<phase, admitted, spoken>> /\ done' = done + 1
    BY DEF HostInv, Host!Collect, Host!Collectors
  <1>2. PICK c : c = Host!Collectors[done + 1]
    OBVIOUS
  <1>3. PICK o \in Host!Obtains(c), slow \in {0, 1}, failed \in BOOLEAN :
          /\ slow = 1 => c \in Host!Commands /\ now < HostTime
          /\ failed => c \in Host!Commands /\ o = {}
          /\ now' = now + slow
          /\ snapshot' = Host!Collected(c, o, now', failed)
          /\ measured' = measured \cup {<<f, now'>> : f \in o}
    BY <1>2 DEF Host!Collect
  <1>4. o \subseteq Host!Figures
    BY <1>1, <1>2, <1>3, ObtainsFigures
  <1>5. HostTime \in Nat /\ now \in 1 .. HostTime /\ now' \in 1 .. HostTime /\ now' >= now /\ admitted \in 0 .. now
    BY <1>3 DEF HostInv
  <1>6. PICK g, t, e : g = snapshot.figures /\ t = snapshot.captured_at /\ e = snapshot.errors
    OBVIOUS
  <1>7. /\ g \in [Host!Figures -> 0 .. HostTime] /\ t \in 0 .. HostTime
        /\ e \subseteq Host!Commands \cup {"collector"}
    BY <1>6 DEF HostInv, SnapOk
  <1>8. PICK g1, t1, e1 : /\ g1 = [f \in Host!Figures |-> IF f \in o THEN now' ELSE g[f]]
                          /\ t1 = IF c = "captured_at" THEN now' ELSE t
                          /\ e1 = e \cup (IF failed THEN {c} ELSE {})
    OBVIOUS
  <1>9. snapshot' = Snap(g1, t1, e1)
    BY <1>3, <1>6, <1>8 DEF Host!Collected, Snap
  <1>10. snapshot'.figures = g1 /\ snapshot'.captured_at = t1 /\ snapshot'.errors = e1
    BY <1>9, SnapIs
  <1>11. g1 \in [Host!Figures -> 0 .. HostTime] /\ t1 \in 0 .. HostTime
         /\ e1 \subseteq Host!Commands \cup {"collector"}
    BY <1>3, <1>5, <1>7, <1>8
  <1>12. SnapOk(snapshot')
    BY <1>9, <1>10, <1>11 DEF SnapOk
  <1>13. measured' \subseteq Host!Figures \X (0 .. HostTime)
    BY <1>3, <1>4, <1>5 DEF HostInv
  <1>14. \A f \in Host!Figures : Obtained(f, g1[f], admitted, measured')
    <2> TAKE f \in Host!Figures
    <2>1. CASE f \in o
      BY <2>1, <1>3, <1>5, <1>8 DEF Obtained
    <2>2. CASE f \notin o
      <3>1. g1[f] = g[f] /\ Obtained(f, g[f], admitted, measured)
        BY <2>2, <1>6, <1>8 DEF HostInv
      <3> QED
        BY <3>1, <1>3 DEF Obtained
    <2> QED
      BY <2>1, <2>2
  <1>15. slow = 1 => done <= 3
    <2>1. done \in 4 .. 8 => c \in {"load", "captured_at", "cpu", "memory", "disks"}
      <3>1. \E k \in 1 .. 9 : k = done + 1
        BY <1>1
      <3>2. done \in 4 .. 8 => \E k \in 5 .. 9 : k = done + 1
        BY <1>1
      <3> QED
        BY <3>1, <3>2, <1>2 DEF Host!Collectors
    <2>2. slow = 1 => c \notin {"load", "captured_at", "cpu", "memory", "disks"}
      BY <1>3 DEF Host!Commands
    <2> QED
      BY <2>1, <2>2, <1>1
  <1>16. \A f \in Host!Figures : Within(g1[f], now', Behind(done'))
    <2> TAKE f \in Host!Figures
    <2>1. done' \in 1 .. 9 /\ Behind(done') \in 0 .. 3
      BY <1>1 DEF Behind
    <2>2. CASE f \in o
      <3>1. g1[f] = now'
        BY <2>2, <1>8
      <3> QED
        BY <3>1, <2>1, <1>5 DEF Within
    <2>3. CASE f \notin o
      <3>1. g1[f] = g[f] /\ g[f] \in 0 .. HostTime
        BY <2>3, <1>7, <1>8
      <3>2. Within(g[f], now, Behind(done)) /\ (done = 0 => g[f] = 0)
        BY <1>1, <1>6 DEF HostInv
      <3>3. done # 0 => Behind(done) + slow <= Behind(done')
        BY <1>1, <1>3, <1>15 DEF Behind
      <3>4. Behind(done) \in 0 .. 3
        BY <1>1 DEF Behind
      <3> QED
        BY <3>1, <3>2, <3>3, <3>4, <2>1, <1>3, <1>5 DEF Within
    <2> QED
      BY <2>2, <2>3
  <1>17. done' >= 6 => t1 = now'
    <2>1. CASE done = 5
      <3>1. c = "captured_at"
        BY <2>1, <1>2 DEF Host!Collectors
      <3> QED
        BY <3>1, <1>8
    <2>2. CASE done \in 6 .. 8
      <3>1. \E k \in 7 .. 9 : k = done + 1
        BY <2>2
      <3>2. c \in {"cpu", "memory", "disks"}
        BY <3>1, <1>2 DEF Host!Collectors
      <3>3. t1 = t /\ slow = 0 /\ t = now
        BY <2>2, <3>2, <1>1, <1>3, <1>6, <1>8, <1>15 DEF HostInv
      <3> QED
        BY <3>3, <1>3, <1>5
    <2> QED
      BY <2>1, <2>2, <1>1
  <1>18. admitted' \in 0 .. now' /\ done' \in 0 .. 9 /\ done' # 0
    BY <1>1, <1>5
  <1>19. \A f \in Host!Figures : spoken[f] = 0
    BY <1>1 DEF HostInv
  <1> QED
    BY <1>1, <1>5, <1>10, <1>12, <1>13, <1>14, <1>16, <1>17, <1>18, <1>19 DEF HostInv

\* The words s name some of the figures g.
Says(s, g, named) == s = [f \in Host!Figures |-> IF f \in named THEN g[f] ELSE 0]

LEMMA AnswerStep ==
    ASSUME HostInv, Host!Answer
    PROVE  HostInv'
  <1>1. /\ phase = "running" /\ phase' = "answered"
        /\ UNCHANGED <<now, admitted, done, snapshot, measured>>
        /\ spoken' = Host!Told(Host!Facts) \/ spoken' = Host!NoFigures
    BY DEF Host!Answer
  <1>2. PICK g : g = snapshot.figures
    OBVIOUS
  <1>3. g \in [Host!Figures -> 0 .. HostTime] /\ HostTime \in Nat
    BY <1>2 DEF HostInv, SnapOk
  <1>4. \E named : Says(Host!Told(Host!Facts), g, named)
    BY <1>2 DEF Host!Told, Host!Facts, Host!None, Says
  <1>5. \E named : Says(spoken', g, named)
    <2>1. CASE spoken' = Host!NoFigures
      <3>1. Says(spoken', g, {})
        BY <2>1 DEF Host!NoFigures, Host!None, Says
      <3> QED
        BY <3>1
    <2>2. CASE spoken' = Host!Told(Host!Facts)
      BY <2>2, <1>4
    <2> QED
      BY <2>1, <2>2, <1>1
  <1>6. PICK named : spoken' = [f \in Host!Figures |-> IF f \in named THEN g[f] ELSE 0]
    BY <1>5 DEF Says
  <1>7. spoken' \in [Host!Figures -> 0 .. HostTime]
    BY <1>3, <1>6
  <1>8. \A f \in Host!Figures : spoken'[f] # 0 => spoken'[f] = snapshot'.figures[f] /\ phase' = "answered"
    BY <1>1, <1>2, <1>6
  <1>9. phase' \in Host!Phases
    BY <1>1 DEF Host!Phases
  <1> QED
    BY <1>1, <1>7, <1>8, <1>9 DEF HostInv

LEMMA HostStep ==
    ASSUME HostInv, [Host!Next]_hostVars
    PROVE  HostInv'
  <1>1. CASE UNCHANGED hostVars
    BY <1>1 DEF hostVars, HostInv
  <1>2. CASE Host!Next
    BY <1>2, ClockSteps, CollectStep, FailsStep, AnswerStep DEF Host!Next
  <1> QED
    BY <1>1, <1>2

LEMMA FourCommands == Host!Cardinality(Host!Commands) = 4
  <1>1. \A P : Host!Cardinality(P) = Cardinality(P)
    BY DEF Host!Cardinality, Cardinality
  <1>2. IsFiniteSet({}) /\ Cardinality({}) = 0
    BY FS_EmptySet
  <1>3. IsFiniteSet({"gpu"}) /\ Cardinality({"gpu"}) = 1
    BY <1>2, FS_Singleton
  <1>4. PICK P : P = {"gpu", "docker"}
    OBVIOUS
  <1>5. P = {"gpu"} \cup {"docker"}
    BY <1>4
  <1>6. IsFiniteSet(P) /\ Cardinality(P) = 2
    BY <1>3, <1>5, FS_AddElement
  <1>7. PICK T : T = P \cup {"top_cpu"}
    OBVIOUS
  <1>8. IsFiniteSet(T) /\ Cardinality(T) = 3
    BY <1>4, <1>6, <1>7, FS_AddElement
  <1>9. PICK U : U = T \cup {"top_memory"}
    OBVIOUS
  <1>10. IsFiniteSet(U) /\ Cardinality(U) = 4
    BY <1>4, <1>7, <1>8, <1>9, FS_AddElement
  <1>11. U = Host!Commands
    BY <1>4, <1>7, <1>9 DEF Host!Commands
  <1> QED
    BY <1>1, <1>10, <1>11

LEMMA HostIsSound ==
    ASSUME HostInv
    PROVE  Host!TypeOK /\ Host!FiguresAreOfThisStart /\ Host!FiguresAreDated
  <1>1. HostTime \in Nat /\ now \in 1 .. HostTime
    BY DEF HostInv
  <1>2. \A f \in Host!Spoken : f \in Host!Figures /\ spoken[f] # 0
    BY DEF Host!Spoken, Host!None
  <1>3. \A f \in Host!Spoken : spoken[f] = snapshot.figures[f] /\ phase = "answered"
    BY <1>2 DEF HostInv
  <1>4. Host!FiguresAreOfThisStart
    <2> SUFFICES ASSUME NEW f \in Host!Spoken
                 PROVE  <<f, spoken[f]>> \in measured /\ admitted <= spoken[f]
      BY DEF Host!FiguresAreOfThisStart
    <2>1. Obtained(f, snapshot.figures[f], admitted, measured)
      BY <1>2 DEF HostInv
    <2> QED
      BY <2>1, <1>2, <1>3 DEF Obtained
  <1>5. Host!FiguresAreDated
    <2>1. ASSUME NEW f \in Host!Spoken
          PROVE  /\ snapshot.captured_at # 0 /\ spoken[f] <= snapshot.captured_at
                 /\ snapshot.captured_at - spoken[f] <= 3
      <3>1. Within(snapshot.figures[f], snapshot.captured_at, 3)
        BY <1>2, <1>3 DEF HostInv
      <3> QED
        BY <3>1, <1>2, <1>3 DEF Within
    <2>2. Host!Facts.captured_at = snapshot.captured_at
      BY DEF Host!Facts
    <2>3. Host!Cardinality(Host!Commands) - 1 = 3
      BY FourCommands
    <2> QED
      BY <2>1, <2>2, <2>3 DEF Host!FiguresAreDated, Host!None
  <1>6. Host!TypeOK
    <2>1. snapshot \in [figures : [Host!Figures -> 0 .. HostTime], captured_at : 0 .. HostTime,
                        errors : SUBSET (Host!Commands \cup {"collector"})]
      BY DEF HostInv, SnapOk, Snap
    <2>2. Len(Host!Collectors) = 9
      BY DEF Host!Collectors
    <2>3. Host!Moments = 0 .. HostTime
      BY DEF Host!Moments
    <2>4. now \in 0 .. HostTime /\ admitted \in 0 .. HostTime
      BY <1>1 DEF HostInv
    <2> QED
      BY <2>1, <2>2, <2>3, <2>4 DEF HostInv, Host!TypeOK
  <1> QED
    BY <1>4, <1>5, <1>6

-----------------------------------------------------------------------------
(* A behaviour of the root module that runs the host's snapshot.             *)

SkillsInv == which = "host" => HostInv

\* Every figure the host's facts tell was obtained by a command after the
\* process was admitted, and the moment beside them is that of the last
\* command, at most three ticks later (host_snapshot, collect_snapshot).
THEOREM FiguresAreOurs == Spec => []FiguresSound
  <1>1. Init => SkillsInv
    <2> SUFFICES ASSUME Init, which = "host"
                 PROVE  HostInv
      BY DEF SkillsInv
    <2>1. Host!Init
      BY DEF Init
    <2> QED
      BY <2>1, HostAssumption, HostStarts
  <1>2. SkillsInv /\ [Next]_vars => SkillsInv'
    <2> SUFFICES ASSUME SkillsInv, [Next]_vars, which' = "host"
                 PROVE  HostInv'
      BY DEF SkillsInv
    <2>1. which = which'
      BY DEF Next, vars
    <2>2. Host!Next \/ UNCHANGED hostVars
      BY <2>1 DEF Next, vars
    <2>3. HostInv
      BY <2>1 DEF SkillsInv
    <2> QED
      BY <2>2, <2>3, HostStep
  <1>3. SkillsInv => FiguresSound
    BY HostIsSound DEF SkillsInv, FiguresSound
  <1> QED
    BY <1>1, <1>2, <1>3, PTL DEF Spec

\* A set of natural numbers has a least element.
LEMMA Least == ASSUME NEW T, T \subseteq Nat, T # {}
               PROVE  \E x \in T : \A y \in T : x <= y
  <1> DEFINE R == {ss \in Nat \X Nat : ss[1] < ss[2]}
  <1>1. IsWellFoundedOn(R, Nat)  BY NatLessThanWellFounded DEF OpToRel
  <1>2. \A a, b \in Nat : a < b => <<a, b>> \in R  OBVIOUS
  <1> HIDE DEF R
  <1>3. PICK x \in T : \A y \in T : ~(<<y, x>> \in R)  BY <1>1, WFMin
  <1>4. \A y \in T : x <= y
    <2> SUFFICES ASSUME NEW y \in T, ~(x <= y)
                 PROVE  FALSE
      OBVIOUS
    <2>1. x \in Nat /\ y \in Nat /\ y < x  OBVIOUS
    <2> QED BY <2>1, <1>2, <1>3
  <1> QED BY <1>4

LEMMA Induct ==
    ASSUME NEW N \in Nat, NEW S, 0 \in S, \A n \in 0 .. N : n \in S /\ n < N => n + 1 \in S
    PROVE  \A n \in 0 .. N : n \in S
  <1> DEFINE T == {n \in 0 .. N : n \notin S}
  <1> SUFFICES ASSUME T # {}
               PROVE  FALSE
    OBVIOUS
  <1>1. T \subseteq Nat  OBVIOUS
  <1>2. \A n \in T : n \in 0 .. N /\ n \notin S  OBVIOUS
  <1>3. \A n \in 0 .. N : n \notin S => n \in T  OBVIOUS
  <1> HIDE DEF T
  <1>4. PICK x \in T : \A y \in T : x <= y  BY <1>1, Least
  <1>5. x \in 0 .. N /\ x # 0 /\ x \notin S  BY <1>2
  <1>6. PICK z : z = x - 1  OBVIOUS
  <1>7. z \in 0 .. N /\ z < N /\ z + 1 = x /\ ~(x <= z)  BY <1>5, <1>6
  <1>8. z \in S  BY <1>3, <1>4, <1>7
  <1> QED BY <1>5, <1>7, <1>8

\* f is G iterated N times from a, on the values V.
Iterates(f, V, a, N, G) == /\ f \in [0 .. N -> V] /\ f[0] = a
                           /\ \A k \in 1 .. N : f[k] = G[<<k, f[k - 1]>>]

LEMMA Iterated ==
    ASSUME NEW V, NEW a \in V, NEW N \in Nat, NEW G \in [(1 .. N) \X V -> V]
    PROVE  \E f : Iterates(f, V, a, N, G)
  <1> DEFINE Good(n, f) == f[0] = a /\ \A k \in 1 .. n : f[k] = G[<<k, f[k - 1]>>]
  <1> DEFINE S == {n \in 0 .. N : \E f \in [0 .. n -> V] : Good(n, f)}
  <1>1. 0 \in S
    <2>1. PICK z : z = [k \in 0 .. 0 |-> a]  OBVIOUS
    <2>2. z \in [0 .. 0 -> V] /\ z[0] = a /\ \A k \in 1 .. 0 : FALSE  BY <2>1
    <2>3. Good(0, z)  BY <2>2
    <2>4. 0 \in 0 .. N  OBVIOUS
    <2> HIDE DEF Good
    <2> QED BY <2>2, <2>3, <2>4
  <1>2. ASSUME NEW n \in 0 .. N, n \in S, n < N
        PROVE  n + 1 \in S
    <2>1. PICK f \in [0 .. n -> V] : Good(n, f)  BY <1>2
    <2>2. PICK m : m = n + 1  OBVIOUS
    <2>3. m \in 1 .. N /\ m \in 0 .. N /\ n \in 0 .. n  BY <1>2, <2>2
    <2> DEFINE g == [k \in 0 .. m |-> IF k = m THEN G[<<m, f[n]>>] ELSE f[k]]
    <2>4. G[<<m, f[n]>>] \in V  BY <2>3
    <2>5. g \in [0 .. m -> V]  BY <2>2, <2>4
    <2>6. \A k \in 0 .. n : g[k] = f[k]  BY <2>2
    <2>7. g[m] = G[<<m, f[n]>>]  BY <2>3
    <2> HIDE DEF g
    <2>8. Good(m, g)
      <3>1. g[0] = a  BY <2>1, <2>6, <1>2
      <3>2. ASSUME NEW k \in 1 .. m
            PROVE  g[k] = G[<<k, g[k - 1]>>]
        <4>1. CASE k = m
          <5>1. k - 1 = n  BY <4>1, <2>2
          <5> QED BY <4>1, <5>1, <2>3, <2>6, <2>7
        <4>2. CASE k # m
          <5>1. k \in 1 .. n /\ k \in 0 .. n /\ k - 1 \in 0 .. n  BY <4>2, <2>2
          <5> QED BY <5>1, <2>1, <2>6
        <4> QED BY <4>1, <4>2
      <3> QED BY <3>1, <3>2
    <2> QED BY <2>2, <2>3, <2>5, <2>8
  <1> HIDE DEF S
  <1>3. N \in S  BY <1>1, <1>2, Induct
  <1> QED BY <1>3 DEF S, Iterates

LEMMA SameCardinality == \A S : Tools!Cardinality(S) = Cardinality(S)
  BY DEF Tools!Cardinality, Cardinality

\* q is a sequence of whatever it holds.
IsSeq(q) == q \in Seq({q[i] : i \in DOMAIN q})

LEMMA OneMore ==
    ASSUME NEW q, IsSeq(q), NEW x
    PROVE  /\ IsSeq(Append(q, x)) /\ Len(q) \in Nat /\ DOMAIN q = 1 .. Len(q)
           /\ Len(Append(q, x)) = Len(q) + 1 /\ DOMAIN Append(q, x) = 1 .. Len(q) + 1
           /\ \A i \in 1 .. Len(q) : Append(q, x)[i] = q[i]
           /\ Append(q, x)[Len(q) + 1] = x
  <1> DEFINE V == {q[i] : i \in DOMAIN q}
             W == V \cup {x}
             U == {Append(q, x)[i] : i \in DOMAIN Append(q, x)}
  <1>1. q \in Seq(V)  BY DEF IsSeq
  <1>2. q \in Seq(W)
    <2>1. V \subseteq W  OBVIOUS
    <2> HIDE DEF V, W
    <2> QED BY <1>1, <2>1
  <1>3. x \in W  OBVIOUS
  <1> HIDE DEF V, W
  <1>4. /\ Len(q) \in Nat /\ DOMAIN q = 1 .. Len(q)
        /\ Append(q, x) \in Seq(W)
        /\ Len(Append(q, x)) = Len(q) + 1
        /\ \A i \in 1 .. Len(q) : Append(q, x)[i] = q[i]
        /\ Append(q, x)[Len(q) + 1] = x
    BY <1>2, <1>3
  <1>5. DOMAIN Append(q, x) = 1 .. Len(Append(q, x)) /\ Len(Append(q, x)) \in Nat
    BY <1>4
  <1>6. IsSeq(Append(q, x))
    <2>1. \A i \in 1 .. Len(Append(q, x)) : Append(q, x)[i] \in U  BY <1>5
    <2> HIDE DEF U
    <2>2. Append(q, x) \in Seq(U)  BY <1>4, <1>5, <2>1, ElementOfSeq, IsASeq
    <2> QED BY <2>2 DEF U, IsSeq
  <1> QED BY <1>4, <1>5, <1>6

LEMMA EmptyIsSeq == IsSeq(<<>>) /\ Len(<<>>) = 0 /\ DOMAIN <<>> = {}
  BY DEF IsSeq

LEMMA SeqFacts ==
    ASSUME NEW q, IsSeq(q)
    PROVE  Len(q) \in Nat /\ DOMAIN q = 1 .. Len(q) /\ q = [i \in 1 .. Len(q) |-> q[i]]
  <1> DEFINE V == {q[i] : i \in DOMAIN q}
  <1>1. q \in Seq(V)  BY DEF IsSeq
  <1> HIDE DEF V
  <1>2. Len(q) \in Nat /\ q \in [1 .. Len(q) -> V]  BY <1>1, LenProperties
  <1> QED BY <1>2

LEMMA BuiltIsSeq ==
    ASSUME NEW n \in Nat, NEW f, f = [i \in 1 .. n |-> f[i]]
    PROVE  IsSeq(f) /\ Len(f) = n /\ DOMAIN f = 1 .. n
  <1> DEFINE V == {f[i] : i \in DOMAIN f}
  <1>1. DOMAIN f = 1 .. n  OBVIOUS
  <1>2. \A i \in 1 .. n : f[i] \in V  BY <1>1
  <1> HIDE DEF V
  <1>3. f \in [1 .. n -> V]  BY <1>2
  <1>4. f \in Seq(V)  BY <1>3, SeqDef
  <1>5. Len(f) \in Nat /\ DOMAIN f = 1 .. Len(f)  BY <1>4, LenProperties
  <1>6. Len(f) = n
    <2>1. n \in 1 .. n \/ n = 0  OBVIOUS
    <2>2. Len(f) \in 1 .. Len(f) \/ Len(f) = 0  BY <1>5
    <2> QED BY <1>1, <1>5, <2>1, <2>2
  <1> QED BY <1>1, <1>4, <1>6 DEF V, IsSeq

LEMMA MemberIsSeq ==
    ASSUME NEW V, NEW q \in Seq(V)
    PROVE  IsSeq(q) /\ \A i \in DOMAIN q : q[i] \in V
  <1>1. Len(q) \in Nat /\ q \in [1 .. Len(q) -> V]  BY LenProperties
  <1>2. q = [i \in 1 .. Len(q) |-> q[i]]  BY <1>1
  <1> QED BY <1>1, <1>2, BuiltIsSeq

LEMMA JoinedIs ==
    ASSUME NEW a, NEW b, IsSeq(a), IsSeq(b)
    PROVE  /\ IsSeq(a \o b) /\ Len(a \o b) = Len(a) + Len(b)
           /\ DOMAIN (a \o b) = 1 .. Len(a) + Len(b)
           /\ \A i \in 1 .. Len(a) : (a \o b)[i] = a[i]
           /\ \A i \in 1 .. Len(b) : (a \o b)[Len(a) + i] = b[i]
           /\ \A i \in 1 .. Len(a) + Len(b) :
                 i \in 1 .. Len(a) \/ (i - Len(a) \in 1 .. Len(b) /\ (a \o b)[i] = b[i - Len(a)])
  <1> DEFINE V == {a[i] : i \in DOMAIN a} \cup {b[i] : i \in DOMAIN b}
  <1>1. a \in Seq(V) /\ b \in Seq(V)
    <2> DEFINE A == {a[i] : i \in DOMAIN a}
               B == {b[i] : i \in DOMAIN b}
    <2>1. a \in Seq(A) /\ b \in Seq(B)  BY DEF IsSeq
    <2>2. A \subseteq V /\ B \subseteq V  OBVIOUS
    <2> HIDE DEF A, B, V
    <2> QED BY <2>1, <2>2, SeqMonotonic
  <1> HIDE DEF V
  <1>2. /\ a \o b \in Seq(V) /\ Len(a \o b) = Len(a) + Len(b)
        /\ Len(a) \in Nat /\ Len(b) \in Nat
        /\ \A i \in 1 .. Len(a) + Len(b) :
               (a \o b)[i] = IF i <= Len(a) THEN a[i] ELSE b[i - Len(a)]
    BY <1>1, ConcatProperties, LenProperties
  <1>3. IsSeq(a \o b)  BY <1>2, MemberIsSeq
  <1>4. DOMAIN (a \o b) = 1 .. Len(a) + Len(b)  BY <1>2, <1>3, SeqFacts
  <1>5. \A i \in 1 .. Len(b) :
            Len(a) + i \in 1 .. Len(a) + Len(b) /\ ~(Len(a) + i <= Len(a)) /\ (Len(a) + i) - Len(a) = i
    BY <1>2
  <1>6. \A i \in 1 .. Len(a) : i \in 1 .. Len(a) + Len(b) /\ i <= Len(a)  BY <1>2
  <1>7. \A i \in 1 .. Len(a) + Len(b) :
            i \in 1 .. Len(a) \/ (i - Len(a) \in 1 .. Len(b) /\ ~(i <= Len(a)))
    BY <1>2
  <1>8. \A i \in 1 .. Len(a) : (a \o b)[i] = a[i]  BY <1>2, <1>6
  <1>9. \A i \in 1 .. Len(b) : (a \o b)[Len(a) + i] = b[i]  BY <1>2, <1>5
  <1>10. \A i \in 1 .. Len(a) + Len(b) :
            i \in 1 .. Len(a) \/ (i - Len(a) \in 1 .. Len(b) /\ (a \o b)[i] = b[i - Len(a)])
    BY <1>2, <1>7
  <1> QED BY <1>2, <1>3, <1>4, <1>8, <1>9, <1>10

\* f gathers the members of S one by one.
Gathers(f, n, S) ==
    /\ DOMAIN f = 0 .. n /\ f[0] = <<>>
    /\ \A k \in 1 .. n : f[k] = IF k \in S THEN Append(f[k - 1], k) ELSE f[k - 1]

\* r is the sequences of w, one after the other; off[b] are the places before
\* sequence b + 1.
Laid(r, w, off) ==
    /\ IsSeq(r) /\ off \in [0 .. Len(w) -> Nat] /\ off[0] = 0 /\ Len(r) = off[Len(w)]
    /\ \A b \in 1 .. Len(w) : off[b] = off[b - 1] + Len(w[b])
    /\ \A b \in 1 .. Len(w) : \A i \in 1 .. Len(w[b]) :
           off[b - 1] + i \in 1 .. Len(r) /\ r[off[b - 1] + i] = w[b][i]
    /\ \A p \in 1 .. Len(r) : \E b \in 1 .. Len(w) : \E i \in 1 .. Len(w[b]) : p = off[b - 1] + i

\* The sequences up to each place.
Heaps(f, w) == /\ \A k \in 0 .. Len(w) : IsSeq(f[k])
               /\ DOMAIN f = 0 .. Len(w) /\ f[0] = <<>>
               /\ \A k \in 1 .. Len(w) : f[k] = f[k - 1] \o w[k]

LEMMA FlattenBuilt ==
    ASSUME NEW w, IsSeq(w), \A b \in DOMAIN w : IsSeq(w[b])
    PROVE  \E f : Heaps(f, w) /\ Tools!FlattenSeq(w) = f[Len(w)]
  <1> DEFINE N == Len(w)
             X == UNION {{w[b][i] : i \in DOMAIN w[b]} : b \in DOMAIN w}
             V == Seq(X)
             G == [x \in (1 .. N) \X V |-> x[2] \o w[x[1]]]
             Step(g) == [i \in 1 .. N |-> IF i = 1 THEN w[i] ELSE g[i - 1] \o w[i]]
  <1>1. N \in Nat /\ DOMAIN w = 1 .. N  BY SeqFacts
  <1>2. \A k \in 1 .. N : w[k] \in V
    <2> SUFFICES ASSUME NEW k \in 1 .. N
                 PROVE  w[k] \in V
      OBVIOUS
    <2> DEFINE U == {w[k][i] : i \in DOMAIN w[k]}
    <2>1. w[k] \in Seq(U)  BY <1>1 DEF IsSeq
    <2>2. U \subseteq X  BY <1>1
    <2> HIDE DEF U, X
    <2> QED BY <2>1, <2>2, SeqMonotonic
  <1> HIDE DEF X
  <1>3. \A k \in 1 .. N : \A q \in V : q \o w[k] \in V  BY <1>2, ConcatProperties
  <1>4. <<>> \in V  OBVIOUS
  <1>5. \A q \in V : IsSeq(q)  BY MemberIsSeq
  <1> HIDE DEF V, N
  <1>6. G \in [(1 .. N) \X V -> V]  BY <1>3
  <1>7. \A k \in 1 .. N : \A q \in V : G[<<k, q>>] = q \o w[k]  OBVIOUS
  <1> HIDE DEF G
  <1>8. PICK f \in [0 .. N -> V] :
           f[0] = <<>> /\ \A k \in 1 .. N : f[k - 1] \in V /\ f[k] = G[<<k, f[k - 1]>>]
    <2>1. \E f : Iterates(f, V, <<>>, N, G)  BY <1>1, <1>4, <1>6, Iterated
    <2>2. \A k \in 1 .. N : k - 1 \in 0 .. N  BY <1>1
    <2> QED BY <2>1, <2>2 DEF Iterates
  <1>9. Heaps(f, w)  BY <1>5, <1>7, <1>8 DEF Heaps, N
  <1>10. CASE N = 0
    <2>1. w = <<>>  BY <1>1, <1>10, SeqFacts DEF N
    <2>2. Tools!FlattenSeq(w) = w  BY <1>10 DEF Tools!FlattenSeq, N
    <2> QED BY <1>8, <1>9, <1>10, <2>1, <2>2 DEF N
  <1>11. CASE N # 0
    <2> DEFINE h == [i \in 1 .. N |-> f[i]]
    <2>1. h = Step(h)
      <3>1. \A i \in 1 .. N : f[i] = f[i - 1] \o w[i]  BY <1>7, <1>8
      <3>2. f[1] = w[1]
        <4>1. 1 \in 1 .. N /\ w[1] \in V  BY <1>1, <1>2, <1>11
        <4>2. f[1] = <<>> \o w[1]
          <5>1. 1 - 1 = 0  OBVIOUS
          <5>2. f[1] = f[1 - 1] \o w[1]  BY <3>1, <4>1
          <5> QED BY <1>8, <5>1, <5>2, Zenon
        <4> QED BY <4>1, <4>2, ConcatEmptySeq DEF V
      <3>3. \A i \in 1 .. N : i # 1 => i - 1 \in 1 .. N  BY <1>1
      <3> QED BY <3>1, <3>2, <3>3
    <2> DEFINE m == CHOOSE g : g = Step(g)
    <2> HIDE DEF h
    <2>2. m = Step(m)  BY <2>1, Zenon
    <2>3. Tools!FlattenSeq(w) = m[N]  BY <1>11, Zenon DEF Tools!FlattenSeq, N
    <2> HIDE DEF m
    <2>4. \A i \in 0 .. N : i # 0 => m[i] = f[i]
      <3> DEFINE T == {i \in 0 .. N : i # 0 => m[i] = f[i]}
      <3>1. 0 \in T  BY <1>1
      <3>2. ASSUME NEW i \in 0 .. N, i \in T, i < N
            PROVE  i + 1 \in T
        <4>1. i + 1 \in 1 .. N /\ i + 1 \in 0 .. N /\ (i + 1) - 1 = i  BY <1>1, <3>2
        <4>2. m[i + 1] = IF i + 1 = 1 THEN w[i + 1] ELSE m[i] \o w[i + 1]
          BY <2>2, <4>1
        <4>3. h[i + 1] = IF i + 1 = 1 THEN w[i + 1] ELSE h[i] \o w[i + 1]
          BY <2>1, <4>1
        <4>4. h[i + 1] = f[i + 1] /\ (i # 0 => h[i] = f[i])  BY <1>1, <4>1 DEF h
        <4> QED BY <3>2, <4>1, <4>2, <4>3, <4>4
      <3> HIDE DEF T
      <3>3. \A i \in 0 .. N : i \in T  BY <1>1, <3>1, <3>2, Induct
      <3> QED BY <3>3 DEF T
    <2>5. m[N] = f[N]  BY <1>1, <1>11, <2>4
    <2> QED BY <1>9, <2>3, <2>5 DEF N
  <1> QED BY <1>10, <1>11

LEMMA FlattenIs ==
    ASSUME NEW w, IsSeq(w), \A b \in DOMAIN w : IsSeq(w[b])
    PROVE  \E off : Laid(Tools!FlattenSeq(w), w, off)
  <1>0. PICK f : Heaps(f, w) /\ Tools!FlattenSeq(w) = f[Len(w)]  BY FlattenBuilt
  <1>1. Len(w) \in Nat /\ DOMAIN w = 1 .. Len(w)  BY SeqFacts
  <1> DEFINE off == [b \in 0 .. Len(w) |-> Len(f[b])]
  <1>2. off \in [0 .. Len(w) -> Nat]  BY <1>0, <1>1, SeqFacts DEF Heaps
  <1>3. \A b \in 0 .. Len(w) : off[b] = Len(f[b])  OBVIOUS
  <1> HIDE DEF off
  <1>4. off[0] = 0  BY <1>0, <1>1, <1>3, EmptyIsSeq DEF Heaps
  <1>5. \A b \in 1 .. Len(w) : off[b] = off[b - 1] + Len(w[b])
    <2> SUFFICES ASSUME NEW b \in 1 .. Len(w)
                 PROVE  off[b] = off[b - 1] + Len(w[b])
      OBVIOUS
    <2>1. b \in 0 .. Len(w) /\ b - 1 \in 0 .. Len(w)  BY <1>1
    <2>2. f[b] = f[b - 1] \o w[b] /\ IsSeq(f[b - 1]) /\ IsSeq(w[b])
      BY <1>0, <1>1, <2>1 DEF Heaps
    <2>3. Len(f[b]) = Len(f[b - 1]) + Len(w[b])  BY <2>2, JoinedIs
    <2> QED BY <1>3, <2>1, <2>3
  <1> DEFINE Holds1(m) == \A b \in 1 .. m : \A i \in 1 .. Len(w[b]) :
                             off[b - 1] + i \in 1 .. Len(f[m]) /\ f[m][off[b - 1] + i] = w[b][i]
             Holds2(m) == \A p \in 1 .. Len(f[m]) :
                             \E b \in 1 .. m : \E i \in 1 .. Len(w[b]) : p = off[b - 1] + i
             T == {m \in 0 .. Len(w) : Holds1(m) /\ Holds2(m)}
  <1>6. 0 \in T
    <2>1. f[0] = <<>> /\ Len(f[0]) = 0  BY <1>0, EmptyIsSeq DEF Heaps
    <2>2. 0 \in 0 .. Len(w)  BY <1>1
    <2> QED BY <2>1, <2>2
  <1>7. ASSUME NEW m \in 0 .. Len(w), m \in T, m < Len(w)
        PROVE  m + 1 \in T
    <2>1. m + 1 \in 1 .. Len(w) /\ m + 1 \in 0 .. Len(w) /\ (m + 1) - 1 = m /\ m \in Nat
      BY <1>1, <1>7
    <2>2. f[m + 1] = f[m] \o w[m + 1] /\ IsSeq(f[m]) /\ IsSeq(w[m + 1])
      BY <1>0, <1>1, <2>1 DEF Heaps
    <2>3. /\ Len(f[m + 1]) = Len(f[m]) + Len(w[m + 1])
          /\ \A i \in 1 .. Len(f[m]) : f[m + 1][i] = f[m][i]
          /\ \A i \in 1 .. Len(w[m + 1]) : f[m + 1][Len(f[m]) + i] = w[m + 1][i]
          /\ \A i \in 1 .. Len(f[m]) + Len(w[m + 1]) :
                i \in 1 .. Len(f[m]) \/ i - Len(f[m]) \in 1 .. Len(w[m + 1])
      <3>1. PICK a, b : a = f[m] /\ b = w[m + 1]  OBVIOUS
      <3>2. IsSeq(a) /\ IsSeq(b) /\ f[m + 1] = a \o b  BY <2>2, <3>1
      <3>3. /\ Len(a \o b) = Len(a) + Len(b)
            /\ \A i \in 1 .. Len(a) : (a \o b)[i] = a[i]
            /\ \A i \in 1 .. Len(b) : (a \o b)[Len(a) + i] = b[i]
            /\ \A i \in 1 .. Len(a) + Len(b) : i \in 1 .. Len(a) \/ i - Len(a) \in 1 .. Len(b)
        BY <3>2, JoinedIs
      <3> QED BY <3>1, <3>2, <3>3, Zenon
    <2>4. Len(f[m]) \in Nat /\ Len(w[m + 1]) \in Nat /\ off[m] = Len(f[m])
      BY <1>3, <2>2, SeqFacts
    <2>5. Holds1(m) /\ Holds2(m)  BY <1>7
    <2>6. Holds1(m + 1)
      <3> SUFFICES ASSUME NEW b \in 1 .. m + 1, NEW i \in 1 .. Len(w[b])
                   PROVE  /\ off[b - 1] + i \in 1 .. Len(f[m + 1])
                          /\ f[m + 1][off[b - 1] + i] = w[b][i]
        OBVIOUS
      <3>1. CASE b \in 1 .. m
        <4>1. off[b - 1] + i \in 1 .. Len(f[m]) /\ f[m][off[b - 1] + i] = w[b][i]
          BY <2>5, <3>1
        <4>2. \A x, y \in Nat : \A z \in 1 .. x : z \in 1 .. x + y  OBVIOUS
        <4>3. off[b - 1] + i \in 1 .. Len(f[m + 1])
          BY <2>3, <2>4, <4>1, <4>2, Zenon
        <4> QED BY <2>3, <4>1, <4>3
      <3>2. CASE b = m + 1
        <4>1. i \in 1 .. Len(w[m + 1]) /\ off[b - 1] + i = Len(f[m]) + i /\ i \in Nat
          BY <2>1, <2>4, <3>2
        <4>2. Len(f[m]) + i \in 1 .. Len(f[m]) + Len(w[m + 1])
          <5>1. \A x, y \in Nat : \A z \in 1 .. y : x + z \in 1 .. x + y  OBVIOUS
          <5> QED BY <2>4, <4>1, <5>1, Zenon
        <4> QED BY <2>3, <3>2, <4>1, <4>2
      <3> QED BY <2>1, <3>1, <3>2
    <2>7. Holds2(m + 1)
      <3> SUFFICES ASSUME NEW p \in 1 .. Len(f[m + 1])
                   PROVE  \E b \in 1 .. m + 1 : \E i \in 1 .. Len(w[b]) : p = off[b - 1] + i
        OBVIOUS
      <3>1. CASE p \in 1 .. Len(f[m])
        <4>1. PICK b \in 1 .. m : \E i \in 1 .. Len(w[b]) : p = off[b - 1] + i
          BY <2>5, <3>1
        <4>2. b \in 1 .. m + 1  BY <2>1
        <4> QED BY <4>1, <4>2
      <3>2. CASE p - Len(f[m]) \in 1 .. Len(w[m + 1])
        <4>1. p = off[(m + 1) - 1] + (p - Len(f[m])) /\ m + 1 \in 1 .. m + 1
          BY <2>1, <2>3, <2>4
        <4> QED BY <3>2, <4>1
      <3> QED BY <2>3, <3>1, <3>2
    <2> QED BY <2>1, <2>6, <2>7
  <1> HIDE DEF T
  <1>8. \A m \in 0 .. Len(w) : m \in T  BY <1>1, <1>6, <1>7, Induct
  <1>9. Len(w) \in 0 .. Len(w) /\ Len(w) \in T  BY <1>1, <1>8
  <1>10. Holds1(Len(w)) /\ Holds2(Len(w))  BY <1>9 DEF T
  <1>11. Len(f[Len(w)]) = off[Len(w)] /\ IsSeq(f[Len(w)])
    BY <1>0, <1>3, <1>9 DEF Heaps
  <1>12. Laid(f[Len(w)], w, off)  BY <1>2, <1>4, <1>5, <1>10, <1>11 DEF Laid
  <1> QED BY <1>0, <1>12, Zenon

\* p leads through the members of S up to n in order.
Leads(p, n, S) ==
    /\ IsSeq(p)
    /\ \A k \in DOMAIN p : p[k] \in 1 .. n /\ p[k] \in S
    /\ \A i \in 1 .. n : i \in S => \E k \in DOMAIN p : p[k] = i
    /\ \A j, k \in DOMAIN p : j < k => p[j] < p[k]
    /\ \A k \in DOMAIN p : Cardinality({i \in 1 .. p[k] : i \in S}) = k

LEMMA PlacesBuilt ==
    ASSUME NEW n \in Nat, NEW S
    PROVE  \E f : Gathers(f, n, S) /\ Tools!Places(n, S) = f[n]
  <1> DEFINE V == Seq(Nat)
             G == [x \in (1 .. n) \X V |-> IF x[1] \in S THEN Append(x[2], x[1]) ELSE x[2]]
             Step(g) == [k \in 0 .. n |-> IF k = 0 THEN <<>>
                                          ELSE IF k \in S THEN Append(g[k - 1], k) ELSE g[k - 1]]
  <1>1. \A k \in 1 .. n : \A q \in V : Append(q, k) \in V  OBVIOUS
  <1>2. <<>> \in V  OBVIOUS
  <1> HIDE DEF V
  <1>3. G \in [(1 .. n) \X V -> V]  BY <1>1
  <1>4. \A k \in 1 .. n : \A q \in V : G[<<k, q>>] = IF k \in S THEN Append(q, k) ELSE q
    OBVIOUS
  <1> HIDE DEF G
  <1>5. PICK f \in [0 .. n -> V] :
           f[0] = <<>> /\ \A k \in 1 .. n : f[k - 1] \in V /\ f[k] = G[<<k, f[k - 1]>>]
    <2>1. \E f : Iterates(f, V, <<>>, n, G)  BY <1>2, <1>3, Iterated
    <2>2. \A k \in 1 .. n : k - 1 \in 0 .. n  OBVIOUS
    <2> QED BY <2>1, <2>2 DEF Iterates
  <1>6. \A k \in 1 .. n : f[k] = IF k \in S THEN Append(f[k - 1], k) ELSE f[k - 1]
    BY <1>4, <1>5
  <1>7. f = Step(f)
    <2>1. \A k \in 0 .. n : k # 0 => k \in 1 .. n  OBVIOUS
    <2> QED BY <1>5, <1>6, <2>1
  <1> DEFINE m == CHOOSE g : g = Step(g)
  <1>8. m = Step(m)  BY <1>7, Zenon
  <1>9. Tools!Places(n, S) = m[n]  BY Zenon DEF Tools!Places
  <1> HIDE DEF m
  <1>10. Gathers(m, n, S)
    <2>1. 0 \in 0 .. n /\ \A k \in 1 .. n : k \in 0 .. n /\ k # 0  OBVIOUS
    <2> QED BY <1>8, <2>1 DEF Gathers
  <1> QED BY <1>9, <1>10

LEMMA PlacesIs ==
    ASSUME NEW n \in Nat, NEW S
    PROVE  Leads(Tools!Places(n, S), n, S)
  <1>0. PICK f : Gathers(f, n, S) /\ Tools!Places(n, S) = f[n]  BY PlacesBuilt
  <1>1. /\ DOMAIN f = 0 .. n /\ f[0] = <<>> /\ Tools!Places(n, S) = f[n]
        /\ \A k \in 1 .. n : f[k] = IF k \in S THEN Append(f[k - 1], k) ELSE f[k - 1]
    BY <1>0 DEF Gathers
  <1> DEFINE UpTo(m) == {i \in 1 .. m : i \in S}
             T == {m \in 0 .. n : /\ Leads(f[m], m, S)
                                  /\ IsFiniteSet(UpTo(m)) /\ Cardinality(UpTo(m)) = Len(f[m])}
  <1>2. 0 \in T
    <2>1. UpTo(0) = {}  OBVIOUS
    <2>2. Leads(<<>>, 0, S)  BY EmptyIsSeq DEF Leads
    <2>3. IsFiniteSet(UpTo(0)) /\ Cardinality(UpTo(0)) = 0  BY <2>1, FS_EmptySet
    <2> QED BY <1>1, <2>2, <2>3, EmptyIsSeq
  <1>3. ASSUME NEW m \in 0 .. n, m \in T, m < n
        PROVE  m + 1 \in T
    <2>1. m + 1 \in 1 .. n /\ m + 1 \in 0 .. n /\ (m + 1) - 1 = m /\ m \in Nat
      BY <1>3
    <2> DEFINE p == f[m]
               r == f[m + 1]
    <2>2. /\ Leads(p, m, S) /\ IsFiniteSet(UpTo(m)) /\ Cardinality(UpTo(m)) = Len(p)
          /\ r = IF m + 1 \in S THEN Append(p, m + 1) ELSE p
      BY <1>1, <1>3, <2>1
    <2> HIDE DEF p, r
    <2>3. CASE m + 1 \in S
      <3>1. UpTo(m + 1) = UpTo(m) \cup {m + 1} /\ ~(m + 1 \in UpTo(m))
        BY <2>1, <2>3
      <3> HIDE DEF UpTo
      <3>2. IsFiniteSet(UpTo(m + 1)) /\ Cardinality(UpTo(m + 1)) = Len(p) + 1
        BY <2>2, <3>1, FS_AddElement
      <3>3. IsSeq(p)  BY <2>2 DEF Leads
      <3>4. /\ IsSeq(r) /\ Len(p) \in Nat /\ DOMAIN p = 1 .. Len(p)
            /\ Len(r) = Len(p) + 1 /\ DOMAIN r = 1 .. Len(p) + 1
            /\ \A i \in 1 .. Len(p) : r[i] = p[i]
            /\ r[Len(p) + 1] = m + 1
        BY <2>2, <2>3, <3>3, OneMore
      <3>5. \A k \in 1 .. Len(p) + 1 : k \in 1 .. Len(p) \/ k = Len(p) + 1  BY <3>4
      <3>6. \A k \in DOMAIN r : r[k] \in 1 .. m + 1 /\ r[k] \in S
        BY <2>1, <2>2, <2>3, <3>4, <3>5 DEF Leads
      <3>7. \A i \in 1 .. m + 1 : i \in S => \E k \in DOMAIN r : r[k] = i
        <4>1. \A i \in 1 .. m + 1 : i \in 1 .. m \/ i = m + 1  BY <2>1
        <4>2. \A k \in 1 .. Len(p) : k \in 1 .. Len(p) + 1  BY <3>4
        <4>3. Len(p) + 1 \in 1 .. Len(p) + 1  BY <3>4
        <4> QED BY <2>2, <3>4, <4>1, <4>2, <4>3 DEF Leads
      <3>8. \A j, k \in DOMAIN r : j < k => r[j] < r[k]
        <4> SUFFICES ASSUME NEW j \in DOMAIN r, NEW k \in DOMAIN r, j < k
                     PROVE  r[j] < r[k]
          OBVIOUS
        <4>1. j \in 1 .. Len(p)  BY <3>4
        <4>2. CASE k \in 1 .. Len(p)  BY <2>2, <3>4, <4>1, <4>2 DEF Leads
        <4>3. CASE k = Len(p) + 1
          <5>1. p[j] \in 1 .. m  BY <2>2, <3>4, <4>1 DEF Leads
          <5> QED BY <2>1, <3>4, <4>1, <4>3, <5>1
        <4> QED BY <3>4, <3>5, <4>2, <4>3
      <3>9. \A k \in DOMAIN r : Cardinality({i \in 1 .. r[k] : i \in S}) = k
        <4>1. Cardinality({i \in 1 .. m + 1 : i \in S}) = Len(p) + 1
          BY <3>2 DEF UpTo
        <4> QED BY <2>2, <3>4, <3>5, <4>1 DEF Leads
      <3> QED BY <2>1, <3>2, <3>4, <3>6, <3>7, <3>8, <3>9 DEF Leads, r
    <2>4. CASE m + 1 \notin S
      <3>1. UpTo(m + 1) = UpTo(m)  BY <2>1, <2>4
      <3> HIDE DEF UpTo
      <3>2. r = p  BY <2>2, <2>4
      <3>3. Leads(p, m + 1, S)
        <4>1. \A i \in 1 .. m + 1 : i \in S => i \in 1 .. m  BY <2>1, <2>4
        <4>2. \A i \in 1 .. m : i \in 1 .. m + 1  BY <2>1
        <4> QED BY <2>2, <4>1, <4>2 DEF Leads
      <3> QED BY <2>1, <2>2, <3>1, <3>2, <3>3 DEF r
    <2> QED BY <2>3, <2>4
  <1> HIDE DEF T
  <1>4. \A m \in 0 .. n : m \in T  BY <1>2, <1>3, Induct
  <1>5. n \in T  BY <1>4
  <1> QED BY <1>1, <1>5 DEF T

-----------------------------------------------------------------------------
(* LogTools: the files of the plant's program.                               *)

\* A file and what it may hold at the time c.
IsFile(f, c) ==
    /\ f = [start |-> f.start, lines |-> f.lines] /\ f.start \in Nat /\ f.start <= c
    /\ IsSeq(f.lines)
    /\ \A n \in DOMAIN f.lines : /\ f.lines[n].at \in Nat /\ f.start <= f.lines[n].at
                                 /\ f.lines[n].at <= c /\ f.lines[n].at < f.start + Hour

\* File f ends before file g begins.
Ends(f, g) == f.start < g.start /\ \A n \in DOMAIN f.lines : f.lines[n].at < g.start

FilesInv ==
    /\ clock \in Nat /\ clock <= MaxTime /\ restarts \in Nat
    /\ IsSeq(files) /\ Len(files) > 0
    /\ \A i \in DOMAIN files : IsFile(files[i], clock)
    /\ \A i, j \in DOMAIN files : i < j => Ends(files[i], files[j])
    /\ clock < files[Len(files)].start + Hour
    /\ restarts = 0 => \A i \in DOMAIN files : \E k \in Nat : files[i].start = Hour * k

LEMMA FileIs ==
    ASSUME NEW s, NEW q, NEW f, f = [start |-> s, lines |-> q]
    PROVE  f.start = s /\ f.lines = q /\ f = [start |-> f.start, lines |-> f.lines]
  OBVIOUS

LEMMA Constants ==
    ASSUME Tools!ToolsAssumption
    PROVE  /\ Hour \in Nat /\ Hour > 0 /\ MaxTime \in Nat /\ MaxLines \in Nat
           /\ MaxRestarts \in Nat /\ Full \in Nat /\ HourLimit \in Nat /\ FileLimit \in Nat
           /\ \A n \in Counts : n \in Nat
           /\ \A n \in Samples : n \in Nat /\ n > 0
           /\ \A w \in MCWindows : w[1] \in Int /\ w[2] \in Int /\ w[1] < w[2]
  BY DEF Tools!ToolsAssumption

LEMMA FilesStart ==
    ASSUME Tools!ToolsAssumption, Tools!Init
    PROVE  FilesInv
  <1>1. clock = 0 /\ restarts = 0 /\ files = <<[start |-> 0, lines |-> <<>>]>>
    BY DEF Tools!Init
  <1>2. PICK f : f = [start |-> 0, lines |-> <<>>]  OBVIOUS
  <1>3. f.start = 0 /\ f.lines = <<>> /\ f = [start |-> f.start, lines |-> f.lines]
    BY <1>2, FileIs
  <1>4. files = Append(<<>>, f)  BY <1>1, <1>2
  <1>5. IsSeq(files) /\ Len(files) = 1 /\ DOMAIN files = 1 .. 1 /\ files[1] = f
    <2>1. /\ IsSeq(Append(<<>>, f)) /\ Len(Append(<<>>, f)) = Len(<<>>) + 1
          /\ DOMAIN Append(<<>>, f) = 1 .. Len(<<>>) + 1
          /\ Append(<<>>, f)[Len(<<>>) + 1] = f
      BY EmptyIsSeq, OneMore
    <2>2. PICK k : k = Len(<<>>)  OBVIOUS
    <2>3. k = 0 /\ k + 1 = 1  BY <2>2, EmptyIsSeq
    <2> QED BY <1>4, <2>1, <2>2, <2>3
  <1>6. IsFile(f, 0)  BY <1>3, EmptyIsSeq DEF IsFile
  <1>7. \E k \in Nat : f.start = Hour * k
    <2>1. Hour * 0 = 0  BY Constants
    <2> QED BY <1>3, <2>1
  <1>8. \A i \in DOMAIN files : i = 1  BY <1>5
  <1>9. \A i \in DOMAIN files : IsFile(files[i], clock) /\ \E k \in Nat : files[i].start = Hour * k
    BY <1>1, <1>5, <1>6, <1>7, <1>8
  <1>10. \A i, j \in DOMAIN files : ~(i < j)  BY <1>5
  <1>11. clock < files[Len(files)].start + Hour  BY <1>1, <1>3, <1>5, Constants
  <1> QED BY <1>1, <1>5, <1>9, <1>10, <1>11, Constants DEF FilesInv

\* A line is written at the end of the last file.
Writes(line) == files' = [files EXCEPT ![Len(files)].lines = Append(@, line)]

LEMMA WriteIs ==
    ASSUME FilesInv, NEW line, Writes(line)
    PROVE  LET N == Len(files)
           IN  /\ N \in Nat /\ N > 0 /\ IsSeq(files') /\ Len(files') = N
               /\ DOMAIN files = 1 .. N /\ DOMAIN files' = 1 .. N
               /\ \A i \in 1 .. N : i # N => files'[i] = files[i]
               /\ files'[N] = [start |-> files[N].start, lines |-> Append(files[N].lines, line)]
               /\ IsSeq(files[N].lines)
  <1> DEFINE N == Len(files)
  <1>1. N \in Nat /\ N > 0 /\ DOMAIN files = 1 .. N /\ files = [i \in 1 .. N |-> files[i]]
    BY SeqFacts DEF FilesInv
  <1>2. N \in 1 .. N  BY <1>1
  <1>3. files[N] = [start |-> files[N].start, lines |-> files[N].lines] /\ IsSeq(files[N].lines)
    BY <1>1, <1>2 DEF FilesInv, IsFile
  <1> HIDE DEF N
  <1>4. files' = [files EXCEPT ![N].lines = Append(@, line)]  BY DEF Writes, N
  <1>5. files' = [i \in 1 .. N |-> files'[i]]  BY <1>1, <1>4
  <1>6. IsSeq(files') /\ Len(files') = N /\ DOMAIN files' = 1 .. N  BY <1>1, <1>5, BuiltIsSeq
  <1>7. \A i \in 1 .. N : i # N => files'[i] = files[i]  BY <1>1, <1>4
  <1>8. files'[N] = [files[N] EXCEPT !.lines = Append(@, line)]  BY <1>1, <1>2, <1>4
  <1>9. files'[N] = [start |-> files[N].start, lines |-> Append(files[N].lines, line)]
    <2>1. PICK f, st, q : f = files[N] /\ st = files[N].start /\ q = files[N].lines  OBVIOUS
    <2>2. f = [start |-> st, lines |-> q]  BY <1>3, <2>1
    <2>3. [f EXCEPT !.lines = Append(@, line)] = [start |-> st, lines |-> Append(q, line)]
      BY <2>2
    <2> QED BY <1>8, <2>1, <2>3
  <1> QED BY <1>1, <1>3, <1>6, <1>7, <1>9 DEF N

LEMMA WriteKeeps ==
    ASSUME FilesInv, NEW line, Writes(line), line.at = clock, UNCHANGED <<clock, restarts>>
    PROVE  FilesInv'
  <1> DEFINE N == Len(files)
  <1>1. /\ N \in Nat /\ N > 0 /\ IsSeq(files') /\ Len(files') = N
        /\ DOMAIN files = 1 .. N /\ DOMAIN files' = 1 .. N
        /\ \A i \in 1 .. N : i # N => files'[i] = files[i]
        /\ files'[N] = [start |-> files[N].start, lines |-> Append(files[N].lines, line)]
        /\ IsSeq(files[N].lines)
    BY WriteIs
  <1>2. clock < files[N].start + Hour  BY DEF FilesInv
  <1> HIDE DEF N
  <1>3. N \in 1 .. N  BY <1>1
  <1>4. PICK q : q = files[N].lines  OBVIOUS
  <1>5. files'[N].start = files[N].start /\ files'[N].lines = Append(q, line)
        /\ files'[N] = [start |-> files'[N].start, lines |-> files'[N].lines]
    BY <1>1, <1>4, FileIs
  <1>6. /\ IsSeq(Append(q, line)) /\ Len(q) \in Nat /\ DOMAIN q = 1 .. Len(q)
        /\ DOMAIN Append(q, line) = 1 .. Len(q) + 1
        /\ \A n \in 1 .. Len(q) : Append(q, line)[n] = q[n]
        /\ Append(q, line)[Len(q) + 1] = line
    BY <1>1, <1>4, OneMore
  <1>7. \A n \in 1 .. Len(q) + 1 : n \in 1 .. Len(q) \/ n = Len(q) + 1  BY <1>6
  <1>8. clock \in Nat /\ IsFile(files[N], clock)  BY <1>1, <1>3 DEF FilesInv
  <1>9. IsFile(files'[N], clock)
    <2>1. \A n \in DOMAIN files'[N].lines :
             \/ n \in DOMAIN files[N].lines /\ files'[N].lines[n] = files[N].lines[n]
             \/ files'[N].lines[n] = line
      BY <1>4, <1>5, <1>6, <1>7
    <2>2. files[N].start <= clock  BY <1>8 DEF IsFile
    <2> QED BY <1>2, <1>5, <1>6, <1>8, <2>1, <2>2 DEF IsFile
  <1>10. \A i \in 1 .. N : IsFile(files'[i], clock)  BY <1>1, <1>9 DEF FilesInv
  <1>11. \A i \in 1 .. N : files'[i].start = files[i].start  BY <1>1, <1>5
  <1>12. \A i, j \in 1 .. N : i < j => i # N  BY <1>1
  <1>13. \A i, j \in 1 .. N : i < j => Ends(files'[i], files'[j])
    BY <1>1, <1>11, <1>12 DEF FilesInv, Ends
  <1>14. clock' = clock /\ restarts' = restarts  OBVIOUS
  <1>15. restarts = 0 => \A i \in 1 .. N : \E k \in Nat : files'[i].start = Hour * k
    BY <1>1, <1>11 DEF FilesInv
  <1>16. clock' \in Nat /\ clock' <= MaxTime /\ restarts' \in Nat  BY <1>14 DEF FilesInv
  <1>17. clock' < files'[N].start + Hour  BY <1>2, <1>5, <1>14
  <1> QED BY <1>1, <1>3, <1>10, <1>13, <1>14, <1>15, <1>16, <1>17 DEF FilesInv

\* A new file is begun at the time c.
LEMMA NewFileIs ==
    ASSUME FilesInv, NEW c, files' = Append(files, [start |-> c, lines |-> <<>>])
    PROVE  LET N == Len(files)
           IN  /\ N \in Nat /\ N > 0 /\ DOMAIN files = 1 .. N /\ IsSeq(files') /\ Len(files') = N + 1
               /\ DOMAIN files' = 1 .. N + 1
               /\ \A i \in 1 .. N : files'[i] = files[i]
               /\ files'[N + 1] = [start |-> c, lines |-> <<>>]
               /\ files'[N + 1].start = c /\ files'[N + 1].lines = <<>>
               /\ \A i \in 1 .. N + 1 : i \in 1 .. N \/ i = N + 1
  <1>1. IsSeq(files) /\ Len(files) > 0  BY DEF FilesInv
  <1>2. PICK f : f = [start |-> c, lines |-> <<>>]  OBVIOUS
  <1>3. f.start = c /\ f.lines = <<>>  BY <1>2, FileIs
  <1>4. files' = Append(files, f)  BY <1>2
  <1>5. \A n \in Nat : \A i \in 1 .. n + 1 : i \in 1 .. n \/ i = n + 1  OBVIOUS
  <1> QED BY <1>1, <1>2, <1>3, <1>4, <1>5, OneMore

LEMMA NewFileKeeps ==
    ASSUME Tools!ToolsAssumption, FilesInv, NEW c, files' = Append(files, [start |-> c, lines |-> <<>>]),
           clock' = c, c \in Nat, clock <= c, c <= MaxTime, restarts' \in Nat,
           files[Len(files)].start < c,
           \A i \in DOMAIN files : \A n \in DOMAIN files[i].lines : files[i].lines[n].at < c,
           restarts' = 0 => restarts = 0 /\ c = files[Len(files)].start + Hour
    PROVE  FilesInv'
  <1> DEFINE N == Len(files)
  <1>1. /\ N \in Nat /\ N > 0 /\ DOMAIN files = 1 .. N /\ IsSeq(files') /\ Len(files') = N + 1
        /\ DOMAIN files' = 1 .. N + 1
        /\ \A i \in 1 .. N : files'[i] = files[i]
        /\ files'[N + 1] = [start |-> c, lines |-> <<>>]
        /\ files'[N + 1].start = c /\ files'[N + 1].lines = <<>>
        /\ \A i \in 1 .. N + 1 : i \in 1 .. N \/ i = N + 1
    BY NewFileIs
  <1>2. /\ \A i \in 1 .. N : IsFile(files[i], clock)
        /\ \A i, j \in 1 .. N : i < j => Ends(files[i], files[j])
        /\ clock \in Nat /\ files[N].start < c
        /\ \A i \in 1 .. N : \A n \in DOMAIN files[i].lines : files[i].lines[n].at < c
        /\ restarts = 0 => \A i \in 1 .. N : \E k \in Nat : files[i].start = Hour * k
        /\ restarts' = 0 => restarts = 0 /\ c = files[N].start + Hour
    BY <1>1 DEF FilesInv
  <1> HIDE DEF N
  <1>3. \A i \in 1 .. N : IsFile(files[i], c)  BY <1>2 DEF IsFile
  <1>4. IsFile(files'[N + 1], c)  BY <1>1, EmptyIsSeq DEF IsFile
  <1>5. \A i \in 1 .. N : files[i].start < c
    <2>1. \A i \in 1 .. N : i < N \/ i = N  BY <1>1
    <2>2. N \in 1 .. N  BY <1>1
    <2>3. \A i \in 1 .. N : files[i].start \in Nat  BY <1>2 DEF IsFile
    <2>4. \A i \in 1 .. N : i < N => files[i].start < files[N].start  BY <1>2, <2>2 DEF Ends
    <2> QED BY <1>2, <2>1, <2>2, <2>3, <2>4
  <1>6. \A i \in 1 .. N : Ends(files[i], files'[N + 1])  BY <1>1, <1>2, <1>5 DEF Ends
  <1>7. \A i \in 1 .. N + 1 : IsFile(files'[i], c)  BY <1>1, <1>3, <1>4
  <1>8. \A i, j \in 1 .. N + 1 : i < j => i \in 1 .. N  BY <1>1
  <1>9. \A i, j \in 1 .. N + 1 : i < j => Ends(files'[i], files'[j])
    BY <1>1, <1>2, <1>6, <1>8
  <1>10. restarts' = 0 => \A i \in 1 .. N + 1 : \E k \in Nat : files'[i].start = Hour * k
    <2> SUFFICES ASSUME restarts' = 0
                 PROVE  \E k \in Nat : c = Hour * k
      BY <1>1, <1>2
    <2>1. N \in 1 .. N  BY <1>1
    <2>2. PICK k \in Nat : files[N].start = Hour * k  BY <1>2, <2>1
    <2>3. Hour \in Nat  BY Constants
    <2>4. Hour * k + Hour = Hour * (k + 1)  BY <2>3
    <2> QED BY <1>2, <2>2, <2>4
  <1>11. c < files'[N + 1].start + Hour  BY <1>1, Constants
  <1> QED BY <1>1, <1>7, <1>9, <1>10, <1>11 DEF FilesInv

-----------------------------------------------------------------------------
(* All lines of the log, file after file.                                    *)

LEMMA HeapsAgree ==
    ASSUME NEW f, NEW v, NEW g, NEW w, Heaps(f, v), Heaps(g, w), NEW n \in Nat,
           IsSeq(v), IsSeq(w), n <= Len(v), n <= Len(w), \A k \in 1 .. n : v[k] = w[k]
    PROVE  f[n] = g[n]
  <1>1. Len(v) \in Nat /\ Len(w) \in Nat  BY SeqFacts
  <1>2. f[0] = g[0]  BY DEF Heaps
  <1>3. \A k \in 1 .. n : f[k] = f[k - 1] \o v[k] /\ g[k] = g[k - 1] \o w[k]
    <2>1. \A k \in 1 .. n : k \in 1 .. Len(v) /\ k \in 1 .. Len(w)  BY <1>1
    <2> QED BY <2>1 DEF Heaps
  <1> DEFINE T == {k \in 0 .. n : f[k] = g[k]}
  <1>4. 0 \in T  BY <1>2
  <1>5. ASSUME NEW k \in 0 .. n, k \in T, k < n
        PROVE  k + 1 \in T
    <2>1. k + 1 \in 1 .. n /\ k + 1 \in 0 .. n /\ (k + 1) - 1 = k  BY <1>5
    <2>2. f[k] = g[k]  BY <1>5
    <2> QED BY <1>3, <2>1, <2>2
  <1> HIDE DEF T
  <1>6. \A k \in 0 .. n : k \in T  BY <1>4, <1>5, Induct
  <1>7. n \in 0 .. n  OBVIOUS
  <1> QED BY <1>6, <1>7 DEF T

LEMMA JoinOneMore ==
    ASSUME NEW a, NEW b, IsSeq(a), IsSeq(b), NEW x
    PROVE  a \o Append(b, x) = Append(a \o b, x)
  <1>1. IsSeq(Append(b, x)) /\ Len(Append(b, x)) = Len(b) + 1 /\ Len(b) \in Nat /\ Len(a) \in Nat
        /\ Append(b, x)[Len(b) + 1] = x /\ \A i \in 1 .. Len(b) : Append(b, x)[i] = b[i]
    BY OneMore, SeqFacts
  <1>2. PICK c : c = Append(b, x)  OBVIOUS
  <1>3. PICK d : d = a \o b  OBVIOUS
  <1>4. /\ IsSeq(d) /\ Len(d) = Len(a) + Len(b)
        /\ \A i \in 1 .. Len(a) : d[i] = a[i]
        /\ \A i \in 1 .. Len(b) : d[Len(a) + i] = b[i]
        /\ \A i \in 1 .. Len(d) : i \in 1 .. Len(a) \/ (i - Len(a) \in 1 .. Len(b) /\ d[i] = b[i - Len(a)])
    BY <1>3, JoinedIs
  <1>5. /\ IsSeq(a \o c) /\ Len(a \o c) = Len(a) + Len(c)
        /\ \A i \in 1 .. Len(a) : (a \o c)[i] = a[i]
        /\ \A i \in 1 .. Len(c) : (a \o c)[Len(a) + i] = c[i]
    BY <1>1, <1>2, JoinedIs
  <1>6. /\ IsSeq(Append(d, x)) /\ Len(Append(d, x)) = Len(d) + 1
        /\ \A i \in 1 .. Len(d) : Append(d, x)[i] = d[i]
        /\ Append(d, x)[Len(d) + 1] = x
    BY <1>4, OneMore
  <1>7. PICK y, z : y = a \o c /\ z = Append(d, x)  OBVIOUS
  <1>8. PICK m, n : m = Len(a) /\ n = Len(b)  OBVIOUS
  <1>9. m \in Nat /\ n \in Nat /\ Len(d) = m + n /\ Len(c) = n + 1 /\ c[n + 1] = x
        /\ \A i \in 1 .. n : c[i] = b[i]
    BY <1>1, <1>2, <1>4, <1>8
  <1>10. /\ y = [i \in 1 .. m + n + 1 |-> y[i]] /\ z = [i \in 1 .. m + n + 1 |-> z[i]]
    <2>1. Len(y) = m + n + 1 /\ Len(z) = m + n + 1 /\ IsSeq(y) /\ IsSeq(z)
      <3>1. m + (n + 1) = m + n + 1 /\ (m + n) + 1 = m + n + 1  BY <1>9
      <3> QED BY <1>5, <1>6, <1>7, <1>8, <1>9, <3>1
    <2> QED BY <2>1, SeqFacts
  <1>11. \A i \in 1 .. m + n + 1 : y[i] = z[i]
    <2> SUFFICES ASSUME NEW i \in 1 .. m + n + 1
                 PROVE  y[i] = z[i]
      OBVIOUS
    <2>1. CASE i \in 1 .. m
      <3>1. i \in 1 .. m + n  BY <1>9, <2>1
      <3>2. y[i] = a[i]  BY <1>5, <1>7, <1>8, <2>1
      <3>3. z[i] = d[i]  BY <1>6, <1>7, <1>9, <3>1
      <3>4. d[i] = a[i]  BY <1>4, <1>8, <2>1
      <3> QED BY <3>2, <3>3, <3>4
    <2>2. CASE i - m \in 1 .. n
      <3>1. PICK j : j = i - m  OBVIOUS
      <3>2. j \in 1 .. n /\ i = m + j /\ j \in 1 .. n + 1 /\ i \in 1 .. m + n  BY <1>9, <2>2, <3>1
      <3>3. y[m + j] = c[j]  BY <1>5, <1>7, <1>8, <1>9, <3>2
      <3>4. z[m + j] = d[m + j]  BY <1>6, <1>7, <1>9, <3>2
      <3>5. d[m + j] = b[j]  BY <1>4, <1>8, <3>2
      <3> QED BY <1>9, <3>2, <3>3, <3>4, <3>5
    <2>3. CASE i = m + n + 1
      <3>1. n + 1 \in 1 .. n + 1 /\ i = m + (n + 1) /\ i = (m + n) + 1  BY <1>9, <2>3
      <3>2. y[m + (n + 1)] = c[n + 1]  BY <1>5, <1>7, <1>8, <1>9, <3>1
      <3>3. z[(m + n) + 1] = x  BY <1>6, <1>7, <1>9
      <3> QED BY <1>9, <3>1, <3>2, <3>3
    <2>4. i \in 1 .. m \/ i - m \in 1 .. n \/ i = m + n + 1  BY <1>9
    <2> QED BY <2>1, <2>2, <2>3, <2>4
  <1>12. y = z  BY <1>10, <1>11
  <1> QED BY <1>2, <1>3, <1>7, <1>12

LEMMA JoinNothing ==
    ASSUME NEW a, IsSeq(a)
    PROVE  a \o <<>> = a
  <1> DEFINE V == {a[i] : i \in DOMAIN a}
  <1>1. a \in Seq(V)  BY DEF IsSeq
  <1> HIDE DEF V
  <1> QED BY <1>1, ConcatEmptySeq

FileLines == [i \in DOMAIN files |-> files[i].lines]

LEMMA FileLinesAre ==
    ASSUME FilesInv
    PROVE  /\ IsSeq(FileLines) /\ Len(FileLines) = Len(files) /\ Len(files) \in Nat
           /\ DOMAIN FileLines = 1 .. Len(files) /\ DOMAIN files = 1 .. Len(files)
           /\ \A i \in 1 .. Len(files) : FileLines[i] = files[i].lines /\ IsSeq(FileLines[i])
           /\ Tools!AllLines = Tools!FlattenSeq(FileLines)
  <1>1. Len(files) \in Nat /\ DOMAIN files = 1 .. Len(files)  BY SeqFacts DEF FilesInv
  <1>2. FileLines = [i \in 1 .. Len(files) |-> FileLines[i]]  BY <1>1 DEF FileLines
  <1>3. IsSeq(FileLines) /\ Len(FileLines) = Len(files) /\ DOMAIN FileLines = 1 .. Len(files)
    BY <1>1, <1>2, BuiltIsSeq
  <1>4. \A i \in 1 .. Len(files) : FileLines[i] = files[i].lines /\ IsSeq(FileLines[i])
    BY <1>1 DEF FileLines, FilesInv, IsFile
  <1> QED BY <1>1, <1>3, <1>4 DEF Tools!AllLines, FileLines

LEMMA AllLinesAre ==
    ASSUME FilesInv
    PROVE  /\ IsSeq(Tools!AllLines) /\ Len(Tools!AllLines) \in Nat
           /\ DOMAIN Tools!AllLines = 1 .. Len(Tools!AllLines)
           /\ \A i \in DOMAIN files : \A n \in DOMAIN files[i].lines :
                 \E p \in DOMAIN Tools!AllLines : Tools!AllLines[p] = files[i].lines[n]
           /\ \A p \in DOMAIN Tools!AllLines :
                 \E i \in DOMAIN files : \E n \in DOMAIN files[i].lines :
                    Tools!AllLines[p] = files[i].lines[n]
  <1>1. /\ IsSeq(FileLines) /\ Len(FileLines) = Len(files) /\ Len(files) \in Nat
        /\ DOMAIN FileLines = 1 .. Len(files) /\ DOMAIN files = 1 .. Len(files)
        /\ \A i \in 1 .. Len(files) : FileLines[i] = files[i].lines /\ IsSeq(FileLines[i])
        /\ Tools!AllLines = Tools!FlattenSeq(FileLines)
    BY FileLinesAre
  <1>2. PICK off : Laid(Tools!AllLines, FileLines, off)  BY <1>1, FlattenIs
  <1>3. IsSeq(Tools!AllLines)  BY <1>2 DEF Laid
  <1>4. Len(Tools!AllLines) \in Nat /\ DOMAIN Tools!AllLines = 1 .. Len(Tools!AllLines)
    BY <1>3, SeqFacts
  <1>5. \A i \in 1 .. Len(files) : DOMAIN FileLines[i] = 1 .. Len(FileLines[i])
    BY <1>1, SeqFacts
  <1>6. /\ \A b \in 1 .. Len(files) : \A i \in 1 .. Len(FileLines[b]) :
              off[b - 1] + i \in 1 .. Len(Tools!AllLines)
              /\ Tools!AllLines[off[b - 1] + i] = FileLines[b][i]
        /\ \A p \in 1 .. Len(Tools!AllLines) : \E b \in 1 .. Len(files) :
              \E i \in 1 .. Len(FileLines[b]) : p = off[b - 1] + i
    BY <1>1, <1>2 DEF Laid
  <1>7. \A i \in DOMAIN files : DOMAIN files[i].lines = 1 .. Len(FileLines[i])
                               /\ files[i].lines = FileLines[i]
    BY <1>1, <1>5
  <1>8. \A i \in DOMAIN files : \A n \in DOMAIN files[i].lines :
           \E p \in DOMAIN Tools!AllLines : Tools!AllLines[p] = files[i].lines[n]
    <2> SUFFICES ASSUME NEW i \in DOMAIN files, NEW n \in DOMAIN files[i].lines
                 PROVE  \E p \in DOMAIN Tools!AllLines : Tools!AllLines[p] = files[i].lines[n]
      OBVIOUS
    <2>1. i \in 1 .. Len(files) /\ n \in 1 .. Len(FileLines[i]) /\ files[i].lines = FileLines[i]
      BY <1>1, <1>7
    <2>2. off[i - 1] + n \in DOMAIN Tools!AllLines /\ Tools!AllLines[off[i - 1] + n] = FileLines[i][n]
      BY <1>4, <1>6, <2>1
    <2> QED BY <2>1, <2>2, Zenon
  <1>9. \A p \in DOMAIN Tools!AllLines :
           \E i \in DOMAIN files : \E n \in DOMAIN files[i].lines :
              Tools!AllLines[p] = files[i].lines[n]
    <2> SUFFICES ASSUME NEW p \in DOMAIN Tools!AllLines
                 PROVE  \E i \in DOMAIN files : \E n \in DOMAIN files[i].lines :
                           Tools!AllLines[p] = files[i].lines[n]
      OBVIOUS
    <2>1. PICK b \in 1 .. Len(files) : \E i \in 1 .. Len(FileLines[b]) : p = off[b - 1] + i
      BY <1>4, <1>6
    <2>2. PICK i \in 1 .. Len(FileLines[b]) : p = off[b - 1] + i  BY <2>1
    <2>3. Tools!AllLines[p] = FileLines[b][i]  BY <1>6, <2>2
    <2> QED BY <1>1, <1>7, <2>2, <2>3
  <1> QED BY <1>3, <1>4, <1>8, <1>9

LEMMA LineAdded ==
    ASSUME FilesInv, NEW line, Writes(line)
    PROVE  Tools!AllLines' = Append(Tools!AllLines, line)
  <1> DEFINE N == Len(files)
  <1>1. /\ N \in Nat /\ N > 0 /\ IsSeq(files') /\ Len(files') = N
        /\ DOMAIN files = 1 .. N /\ DOMAIN files' = 1 .. N
        /\ \A i \in 1 .. N : i # N => files'[i] = files[i]
        /\ files'[N] = [start |-> files[N].start, lines |-> Append(files[N].lines, line)]
        /\ IsSeq(files[N].lines)
    BY WriteIs
  <1>2. /\ IsSeq(FileLines) /\ Len(FileLines) = N
        /\ DOMAIN FileLines = 1 .. N
        /\ \A i \in 1 .. N : FileLines[i] = files[i].lines /\ IsSeq(FileLines[i])
        /\ Tools!AllLines = Tools!FlattenSeq(FileLines)
    BY FileLinesAre
  <1>3. Tools!AllLines' = Tools!FlattenSeq([i \in DOMAIN files' |-> files'[i].lines])
    BY DEF Tools!AllLines
  <1> HIDE DEF N
  <1>4. PICK w : w = [i \in 1 .. N |-> files'[i].lines]  OBVIOUS
  <1>5. Tools!AllLines' = Tools!FlattenSeq(w)  BY <1>1, <1>3, <1>4
  <1>6. w = [i \in 1 .. N |-> w[i]]  BY <1>4
  <1>7. IsSeq(w) /\ Len(w) = N /\ DOMAIN w = 1 .. N  BY <1>1, <1>6, BuiltIsSeq
  <1>8. N \in 1 .. N  BY <1>1
  <1>9. files'[N].lines = Append(files[N].lines, line)  BY <1>1, FileIs
  <1>10. w[N] = Append(FileLines[N], line)  BY <1>2, <1>4, <1>8, <1>9
  <1>11. \A i \in 1 .. N : i # N => w[i] = FileLines[i]  BY <1>1, <1>2, <1>4
  <1>12. IsSeq(FileLines[N]) /\ IsSeq(w[N])  BY <1>2, <1>8, <1>10, OneMore
  <1>13. \A i \in 1 .. N : IsSeq(w[i])  BY <1>2, <1>11, <1>12
  <1>14. PICK f : Heaps(f, FileLines) /\ Tools!AllLines = f[N]  BY <1>2, FlattenBuilt
  <1>15. PICK g : Heaps(g, w) /\ Tools!FlattenSeq(w) = g[N]  BY <1>7, <1>13, FlattenBuilt
  <1>16. PICK m : m = N - 1  OBVIOUS
  <1>17. m \in Nat /\ m <= N /\ \A k \in 1 .. m : k \in 1 .. N /\ k # N  BY <1>1, <1>16
  <1>18. \A k \in 1 .. m : FileLines[k] = w[k]  BY <1>11, <1>17
  <1>19. f[m] = g[m]  BY <1>2, <1>7, <1>14, <1>15, <1>17, <1>18, HeapsAgree
  <1>20. f[N] = f[m] \o FileLines[N] /\ g[N] = g[m] \o w[N] /\ IsSeq(f[m])
    <2>1. m \in 0 .. N  BY <1>1, <1>16
    <2> QED BY <1>2, <1>7, <1>8, <1>14, <1>15, <1>16, <2>1 DEF Heaps
  <1>21. g[N] = Append(f[N], line)
    <2>1. f[m] \o Append(FileLines[N], line) = Append(f[m] \o FileLines[N], line)
      <3>1. PICK a, b : a = f[m] /\ b = FileLines[N]  OBVIOUS
      <3>2. IsSeq(a) /\ IsSeq(b)  BY <1>12, <1>20, <3>1
      <3>3. a \o Append(b, line) = Append(a \o b, line)  BY <3>2, JoinOneMore
      <3> QED BY <3>1, <3>3
    <2> QED BY <1>10, <1>19, <1>20, <2>1
  <1> QED BY <1>5, <1>14, <1>15, <1>21

LEMMA NoLineAdded ==
    ASSUME FilesInv, NEW c, files' = Append(files, [start |-> c, lines |-> <<>>])
    PROVE  Tools!AllLines' = Tools!AllLines
  <1> DEFINE N == Len(files)
  <1>1. /\ N \in Nat /\ N > 0 /\ DOMAIN files = 1 .. N /\ IsSeq(files') /\ Len(files') = N + 1
        /\ DOMAIN files' = 1 .. N + 1
        /\ \A i \in 1 .. N : files'[i] = files[i]
        /\ files'[N + 1].start = c /\ files'[N + 1].lines = <<>>
        /\ \A i \in 1 .. N + 1 : i \in 1 .. N \/ i = N + 1
    BY NewFileIs
  <1>2. /\ IsSeq(FileLines) /\ Len(FileLines) = N
        /\ DOMAIN FileLines = 1 .. N
        /\ \A i \in 1 .. N : FileLines[i] = files[i].lines /\ IsSeq(FileLines[i])
        /\ Tools!AllLines = Tools!FlattenSeq(FileLines)
    BY FileLinesAre
  <1>3. Tools!AllLines' = Tools!FlattenSeq([i \in DOMAIN files' |-> files'[i].lines])
    BY DEF Tools!AllLines
  <1> HIDE DEF N
  <1>4. PICK w : w = [i \in 1 .. N + 1 |-> files'[i].lines]  OBVIOUS
  <1>5. Tools!AllLines' = Tools!FlattenSeq(w)  BY <1>1, <1>3, <1>4
  <1>6. w = [i \in 1 .. N + 1 |-> w[i]] /\ N + 1 \in Nat  BY <1>1, <1>4
  <1>7. IsSeq(w) /\ Len(w) = N + 1 /\ DOMAIN w = 1 .. N + 1  BY <1>6, BuiltIsSeq
  <1>8. N + 1 \in 1 .. N + 1 /\ \A i \in 1 .. N : i \in 1 .. N + 1  BY <1>1
  <1>9. w[N + 1] = <<>>  BY <1>1, <1>4, <1>8
  <1>10. \A i \in 1 .. N : w[i] = FileLines[i]  BY <1>1, <1>2, <1>4, <1>8
  <1>11. \A i \in 1 .. N + 1 : IsSeq(w[i])  BY <1>1, <1>2, <1>9, <1>10, EmptyIsSeq
  <1>12. PICK f : Heaps(f, FileLines) /\ Tools!AllLines = f[N]  BY <1>2, FlattenBuilt
  <1>13. PICK g : Heaps(g, w) /\ Tools!FlattenSeq(w) = g[N + 1]  BY <1>7, <1>11, FlattenBuilt
  <1>14. f[N] = g[N]
    <2>1. N <= N + 1 /\ N <= N  BY <1>1
    <2> QED BY <1>1, <1>2, <1>7, <1>10, <1>12, <1>13, <2>1, HeapsAgree
  <1>15. g[N + 1] = g[N] \o w[N + 1]
    <2>1. (N + 1) - 1 = N  BY <1>1
    <2> QED BY <1>7, <1>8, <1>13, <2>1 DEF Heaps
  <1>16. IsSeq(f[N])
    <2>1. N \in 0 .. N  BY <1>1
    <2> QED BY <1>2, <1>12, <2>1 DEF Heaps
  <1>17. g[N + 1] = f[N]  BY <1>9, <1>14, <1>15, <1>16, JoinNothing
  <1> QED BY <1>5, <1>12, <1>13, <1>17

\* The lines are in the order of their times.
Ordered(q) == \A m, n \in DOMAIN q : m <= n => q[m].at <= q[n].at

LinesInv ==
    /\ FilesInv
    /\ \A n \in DOMAIN Tools!AllLines : Tools!AllLines[n].at \in Nat /\ Tools!AllLines[n].at <= clock
    /\ Ordered(Tools!AllLines)

LEMMA LinesStart ==
    ASSUME Tools!ToolsAssumption, Tools!Init
    PROVE  LinesInv /\ Len(Tools!AllLines) = 0
  <1>1. FilesInv  BY FilesStart
  <1>2. files = <<[start |-> 0, lines |-> <<>>]>>  BY DEF Tools!Init
  <1>3. DOMAIN Tools!AllLines = {} /\ Len(Tools!AllLines) = 0
    <2>1. \A i \in DOMAIN files : files[i].lines = <<>>
      <3>1. PICK f : f = [start |-> 0, lines |-> <<>>]  OBVIOUS
      <3>2. f.lines = <<>>  BY <3>1
      <3>3. \A i \in DOMAIN <<f>> : <<f>>[i] = f  OBVIOUS
      <3> QED BY <1>2, <3>1, <3>2, <3>3
    <2>2. \A i \in DOMAIN files : DOMAIN files[i].lines = {}  BY <2>1, EmptyIsSeq
    <2>3. DOMAIN Tools!AllLines = {}  BY <1>1, <2>2, AllLinesAre
    <2>4. Len(Tools!AllLines) \in Nat /\ 1 .. Len(Tools!AllLines) = {}  BY <1>1, <2>3, AllLinesAre
    <2> QED BY <2>3, <2>4
  <1> QED BY <1>1, <1>3 DEF LinesInv, Ordered

\* A step writes a line that is dated now.
Grows(line) == /\ Tools!AllLines' = Append(Tools!AllLines, line) /\ line.at = clock
               /\ UNCHANGED <<clock, restarts>>

LEMMA WriteGrows ==
    ASSUME LinesInv, NEW line, Writes(line), line.at = clock, UNCHANGED <<clock, restarts>>
    PROVE  LinesInv' /\ Grows(line)
  <1>1. FilesInv /\ FilesInv'  BY WriteKeeps DEF LinesInv
  <1>2. Tools!AllLines' = Append(Tools!AllLines, line)  BY <1>1, LineAdded
  <1>3. IsSeq(Tools!AllLines)  BY <1>1, AllLinesAre
  <1>4. PICK q : q = Tools!AllLines  OBVIOUS
  <1>5. /\ \A n \in DOMAIN q : q[n].at \in Nat /\ q[n].at <= clock
        /\ \A m, n \in DOMAIN q : m <= n => q[m].at <= q[n].at
        /\ clock \in Nat
    BY <1>4 DEF LinesInv, FilesInv, Ordered
  <1>6. PICK r : r = Append(q, line)  OBVIOUS
  <1>7. /\ Len(q) \in Nat /\ DOMAIN q = 1 .. Len(q) /\ DOMAIN r = 1 .. Len(q) + 1
        /\ \A i \in 1 .. Len(q) : r[i] = q[i]
        /\ r[Len(q) + 1] = line
    BY <1>3, <1>4, <1>6, OneMore
  <1>8. \A i \in 1 .. Len(q) + 1 : i \in 1 .. Len(q) \/ i = Len(q) + 1  BY <1>7
  <1>9. \A n \in DOMAIN r : r[n].at \in Nat /\ r[n].at <= clock  BY <1>5, <1>7, <1>8
  <1>10. \A m, n \in DOMAIN r : m <= n => r[m].at <= r[n].at
    <2> SUFFICES ASSUME NEW m \in DOMAIN r, NEW n \in DOMAIN r, m <= n
                 PROVE  r[m].at <= r[n].at
      OBVIOUS
    <2>1. CASE n = Len(q) + 1  BY <1>7, <1>9, <2>1
    <2>2. CASE n \in 1 .. Len(q)
      <3>1. m \in 1 .. Len(q)  BY <1>7, <2>2
      <3> QED BY <1>5, <1>7, <2>2, <3>1
    <2> QED BY <1>7, <1>8, <2>1, <2>2
  <1>11. Tools!AllLines' = r /\ clock' = clock  BY <1>2, <1>4, <1>6
  <1>12. LinesInv'  BY <1>1, <1>9, <1>10, <1>11 DEF LinesInv, Ordered
  <1> QED BY <1>2, <1>12 DEF Grows

LEMMA LineIs ==
    ASSUME NEW kind, NEW no, NEW round, NEW img, NEW count, NEW l,
           l = Tools!Line(kind, no, round, img, count)
    PROVE  /\ l.kind = kind /\ l.cow = no /\ l.round = round /\ l.img = img /\ l.count = count
           /\ l.at = clock
  BY DEF Tools!Line

LEMMA TickKeepsLines ==
    ASSUME Tools!ToolsAssumption, LinesInv, Tools!Tick
    PROVE  LinesInv' /\ Tools!AllLines' = Tools!AllLines
  <1> DEFINE N == Len(files)
  <1>1. /\ clock < MaxTime /\ clock' = clock + 1 /\ restarts' = restarts
        /\ files' = IF clock + 1 - files[N].start < Hour THEN files
                    ELSE Append(files, [start |-> clock + 1, lines |-> <<>>])
    BY DEF Tools!Tick, Tools!Last
  <1>2. FilesInv /\ clock \in Nat /\ MaxTime \in Nat /\ Hour \in Nat /\ restarts \in Nat
    BY Constants DEF LinesInv, FilesInv
  <1>3. N \in Nat /\ N > 0 /\ DOMAIN files = 1 .. N  BY <1>2, SeqFacts DEF FilesInv
  <1>4. N \in 1 .. N  BY <1>3
  <1>5. /\ files[N].start \in Nat /\ files[N].start <= clock /\ clock < files[N].start + Hour
        /\ \A i \in DOMAIN files : IsFile(files[i], clock)
    BY <1>2, <1>3, <1>4 DEF FilesInv, IsFile
  <1>6. \A i \in DOMAIN files : \A n \in DOMAIN files[i].lines :
           files[i].lines[n].at < clock + 1 /\ files[i].lines[n].at <= clock + 1
           /\ files[i].start <= clock + 1
    BY <1>2, <1>5 DEF IsFile
  <1>7. CASE clock + 1 - files[N].start < Hour
    <2>1. files' = files  BY <1>1, <1>7
    <2>2. \A i \in DOMAIN files : IsFile(files[i], clock + 1)  BY <1>2, <1>5 DEF IsFile
    <2>3. clock + 1 < files[N].start + Hour  BY <1>2, <1>5, <1>7
    <2>4. FilesInv'
      <3>1. PICK c : c = clock + 1  OBVIOUS
      <3>2. clock' = c /\ c \in Nat /\ c <= MaxTime /\ c < files[Len(files)].start + Hour
            /\ \A i \in DOMAIN files : IsFile(files[i], c)
        BY <1>1, <1>2, <2>2, <2>3, <3>1
      <3>3. /\ restarts \in Nat /\ IsSeq(files) /\ Len(files) > 0
            /\ \A i, j \in DOMAIN files : i < j => Ends(files[i], files[j])
            /\ restarts = 0 => \A i \in DOMAIN files : \E k \in Nat : files[i].start = Hour * k
        BY <1>2 DEF FilesInv
      <3> QED BY <1>1, <2>1, <3>2, <3>3 DEF FilesInv
    <2>5. Tools!AllLines' = Tools!AllLines  BY <2>1 DEF Tools!AllLines
    <2> QED BY <1>1, <1>2, <2>4, <2>5 DEF LinesInv
  <1>8. CASE ~(clock + 1 - files[N].start < Hour)
    <2>1. files' = Append(files, [start |-> clock + 1, lines |-> <<>>])  BY <1>1, <1>8
    <2>2. clock + 1 = files[N].start + Hour /\ clock + 1 \in Nat /\ clock <= clock + 1
          /\ clock + 1 <= MaxTime /\ files[N].start < clock + 1
      <3>1. PICK s, t : s = files[N].start /\ t = clock  OBVIOUS
      <3>2. s \in Nat /\ t \in Nat /\ s <= t /\ t < s + Hour /\ t < MaxTime /\ ~(t + 1 - s < Hour)
        BY <1>1, <1>2, <1>5, <1>8, <3>1
      <3>3. Hour \in Nat /\ MaxTime \in Nat  BY <1>2
      <3>4. t + 1 = s + Hour /\ t + 1 \in Nat /\ t <= t + 1 /\ t + 1 <= MaxTime /\ s < t + 1
        BY <3>2, <3>3
      <3> QED BY <3>1, <3>4
    <2>3. FilesInv'
      <3>1. restarts' \in Nat /\ (restarts' = 0 => restarts = 0 /\ clock + 1 = files[Len(files)].start + Hour)
        BY <1>1, <1>2, <2>2
      <3>2. \A i \in DOMAIN files : \A n \in DOMAIN files[i].lines : files[i].lines[n].at < clock + 1
        BY <1>6
      <3>3. PICK c : c = clock + 1  OBVIOUS
      <3>4. /\ files' = Append(files, [start |-> c, lines |-> <<>>]) /\ clock' = c /\ c \in Nat
            /\ clock <= c /\ c <= MaxTime /\ files[Len(files)].start < c
            /\ \A i \in DOMAIN files : \A n \in DOMAIN files[i].lines : files[i].lines[n].at < c
            /\ restarts' \in Nat /\ (restarts' = 0 => restarts = 0 /\ c = files[Len(files)].start + Hour)
        BY <1>1, <2>1, <2>2, <3>1, <3>2, <3>3
      <3> QED BY <1>2, <3>4, NewFileKeeps
    <2>4. Tools!AllLines' = Tools!AllLines  BY <1>2, <2>1, NoLineAdded
    <2> QED BY <1>1, <1>2, <2>3, <2>4 DEF LinesInv
  <1> QED BY <1>7, <1>8

LEMMA RestartKeepsLines ==
    ASSUME Tools!ToolsAssumption, LinesInv, Tools!RestartProgram
    PROVE  LinesInv' /\ Tools!AllLines' = Tools!AllLines
  <1> DEFINE N == Len(files)
  <1>1. /\ restarts' = restarts + 1 /\ files[N].start < clock
        /\ \A n \in DOMAIN Tools!AllLines : Tools!AllLines[n].at < clock
        /\ files' = Append(files, [start |-> clock, lines |-> <<>>]) /\ clock' = clock
    BY DEF Tools!RestartProgram, Tools!Last
  <1>2. FilesInv /\ clock \in Nat /\ clock <= MaxTime /\ restarts \in Nat
    BY DEF LinesInv, FilesInv
  <1>3. \A i \in DOMAIN files : \A n \in DOMAIN files[i].lines : files[i].lines[n].at < clock
    BY <1>1, <1>2, AllLinesAre
  <1>4. FilesInv'
    <2>1. restarts' \in Nat /\ restarts' # 0 /\ clock <= clock  BY <1>1, <1>2
    <2> QED BY <1>1, <1>2, <1>3, <2>1, NewFileKeeps
  <1>5. Tools!AllLines' = Tools!AllLines  BY <1>1, <1>2, NoLineAdded
  <1> QED BY <1>1, <1>4, <1>5 DEF LinesInv

LEMMA IdleKeepsLines ==
    ASSUME LinesInv, UNCHANGED toolVars
    PROVE  LinesInv' /\ Tools!AllLines' = Tools!AllLines
  <1>1. files' = files /\ clock' = clock /\ restarts' = restarts  BY DEF toolVars
  <1>2. Tools!AllLines' = Tools!AllLines  BY <1>1 DEF Tools!AllLines
  <1>3. FilesInv'  BY <1>1 DEF LinesInv, FilesInv
  <1> QED BY <1>1, <1>2, <1>3 DEF LinesInv

-----------------------------------------------------------------------------
(* data_locator finds every file with a line of the window.                  *)

LEMMA LinesAreLocated ==
    ASSUME Tools!ToolsAssumption, LinesInv, NEW w \in MCWindows,
           NEW i \in DOMAIN files, NEW n \in DOMAIN files[i].lines,
           Tools!In(files[i].lines[n].at, w)
    PROVE  i \in Tools!Located(w)
  <1>1. /\ Len(files) \in Nat /\ DOMAIN files = 1 .. Len(files)
        /\ \A j, k \in DOMAIN files : j < k => Ends(files[j], files[k])
        /\ \A j \in DOMAIN files : IsFile(files[j], clock)
    BY SeqFacts DEF LinesInv, FilesInv
  <1>2. PICK t : t = files[i].lines[n].at  OBVIOUS
  <1>3. /\ files[i].start \in Nat /\ t \in Nat /\ files[i].start <= t /\ t < files[i].start + Hour
        /\ w[1] <= t /\ t < w[2] /\ w[1] \in Int /\ w[2] \in Int
    BY <1>1, <1>2, Constants DEF IsFile, Tools!In
  <1>4. CASE i < Len(files)
    <2>1. i + 1 \in DOMAIN files /\ i < i + 1  BY <1>1, <1>4
    <2>2. t < files[i + 1].start /\ files[i + 1].start \in Nat
      BY <1>1, <1>2, <2>1 DEF Ends, IsFile
    <2>3. Tools!FileEnd(i) = Tools!Max({files[i + 1].start, files[i].start + 1})
      BY <1>4 DEF Tools!FileEnd
    <2>4. PICK a, b : a = files[i + 1].start /\ b = files[i].start + 1  OBVIOUS
    <2>5. a \in Int /\ b \in Int  BY <1>3, <2>2, <2>4
    <2>6. Tools!Max({a, b}) >= a /\ Tools!Max({a, b}) \in {a, b}
      <3>1. \E x \in {a, b} : \A y \in {a, b} : x >= y
        <4>1. CASE a >= b  BY <2>5, <4>1
        <4>2. CASE b >= a  BY <2>5, <4>2
        <4> QED BY <2>5, <4>1, <4>2
      <3> QED BY <3>1 DEF Tools!Max
    <2>7. Tools!FileEnd(i) > w[1]  BY <1>3, <2>2, <2>3, <2>4, <2>5, <2>6
    <2> QED BY <1>3, <2>7 DEF Tools!Located
  <1>5. CASE ~(i < Len(files))
    <2>1. Tools!FileEnd(i) = files[i].start + Hour  BY <1>5 DEF Tools!FileEnd
    <2>2. Hour \in Nat  BY Constants
    <2>3. Tools!FileEnd(i) > w[1]  BY <1>3, <2>1, <2>2
    <2> QED BY <1>3, <2>3 DEF Tools!Located
  <1> QED BY <1>4, <1>5

LEMMA LogsFound ==
    ASSUME Tools!ToolsAssumption, LinesInv
    PROVE  Tools!NoLineMissed
  BY LinesAreLocated DEF Tools!NoLineMissed

LEMMA MinIs ==
    ASSUME NEW T, T \subseteq Nat, T # {}
    PROVE  Tools!Min(T) \in T /\ \A x \in T : Tools!Min(T) <= x
  <1>1. \E x \in T : \A y \in T : x <= y  BY Least
  <1> QED BY <1>1 DEF Tools!Min

LEMMA DomainCard ==
    ASSUME NEW n \in Nat, NEW T, T \subseteq 1 .. n
    PROVE  IsFiniteSet(T) /\ Cardinality(T) \in Nat /\ Cardinality(T) <= n
  <1>1. IsFiniteSet(1 .. n) /\ Cardinality(1 .. n) = n
    <2>1. IsFiniteSet(1 .. n) /\ Cardinality(1 .. n) = IF 1 <= n THEN n - 1 + 1 ELSE 0
      BY FS_Interval
    <2> QED BY <2>1
  <1> QED BY <1>1, FS_Subset, FS_CardinalityType

-----------------------------------------------------------------------------
(* The hours of a window.                                                    *)

LEMMA HourOf ==
    ASSUME NEW H \in Nat, H > 0, NEW t \in Nat
    PROVE  /\ t \div H \in Nat /\ t \div H <= t
           /\ (t \div H) * H <= t /\ t < (t \div H) * H + H
  OBVIOUS

LEMMA HoursApart ==
    ASSUME NEW H \in Nat, H > 0, NEW j \in Nat, NEW k \in Nat
    PROVE  /\ H * j \in Nat /\ H * j = j * H
           /\ H * j < H * k => H * j + H <= H * k
           /\ j < k => H * j + H <= H * k
           /\ j <= k => H * j <= H * k
  <1>1. H * j \in Nat /\ H * j = j * H /\ H * k \in Nat  OBVIOUS
  <1>2. ASSUME j < k PROVE H * j + H <= H * k
    <2>1. PICK d : d = k - j - 1  OBVIOUS
    <2>2. d \in Nat /\ k = j + 1 + d  BY <1>2, <2>1
    <2>3. H * (j + 1 + d) = H * j + H + H * d /\ H * d \in Nat  BY <2>2
    <2>4. PICK a, b, c : a = H * j /\ b = H * d /\ c = H * k  OBVIOUS
    <2>5. a \in Nat /\ b \in Nat /\ c = a + H + b  BY <1>1, <2>2, <2>3, <2>4
    <2>6. a + H <= c  BY <2>5
    <2> QED BY <2>4, <2>6
  <1>3. ASSUME H * j < H * k PROVE j < k
    <2> SUFFICES ASSUME ~(j < k) PROVE FALSE
      OBVIOUS
    <2>1. j = k \/ k < j  OBVIOUS
    <2>2. CASE j = k  BY <1>1, <1>3, <2>2
    <2>3. CASE k < j
      <3>1. PICK d : d = j - k  OBVIOUS
      <3>2. d \in Nat /\ j = k + d  BY <2>3, <3>1
      <3>3. H * (k + d) = H * k + H * d /\ H * d \in Nat  BY <3>2
      <3>4. PICK a, b, c : a = H * j /\ b = H * d /\ c = H * k  OBVIOUS
      <3>5. a = c + b /\ b \in Nat /\ c \in Nat /\ a < c  BY <1>1, <1>3, <3>2, <3>3, <3>4
      <3> QED BY <3>5
    <2> QED BY <2>1, <2>2, <2>3
  <1>4. j <= k => H * j <= H * k
    <2>1. CASE j = k  BY <1>1, <2>1
    <2>2. CASE j < k
      <3>1. PICK a, c : a = H * j /\ c = H * k  OBVIOUS
      <3>2. a \in Nat /\ c \in Nat /\ a + H <= c  BY <1>1, <1>2, <2>2, <3>1
      <3>3. a <= c  BY <3>2
      <3> QED BY <3>1, <3>3
    <2> QED BY <2>1, <2>2
  <1> QED BY <1>1, <1>2, <1>3, <1>4

LEMMA BucketsAre ==
    ASSUME Tools!ToolsAssumption, NEW w \in MCWindows
    PROVE  /\ Tools!Buckets(w) \subseteq Nat
           /\ \A h : h \in Tools!Buckets(w) <=>
                       \E k \in 0 .. MaxTime : h = Hour * k /\ h + Hour > w[1] /\ h < w[2]
           /\ \A t \in Nat : t <= MaxTime /\ Tools!In(t, w) => (t \div Hour) * Hour \in Tools!Buckets(w)
  <1>1. Hour \in Nat /\ Hour > 0 /\ MaxTime \in Nat /\ w[1] \in Int /\ w[2] \in Int
    BY Constants
  <1>2. \A h : h \in Tools!Buckets(w) <=>
                 \E k \in 0 .. MaxTime : h = Hour * k /\ h + Hour > w[1] /\ h < w[2]
    BY DEF Tools!Buckets
  <1>3. \A k \in 0 .. MaxTime : Hour * k \in Nat  BY <1>1
  <1>4. ASSUME NEW t \in Nat, t <= MaxTime, Tools!In(t, w)
        PROVE  (t \div Hour) * Hour \in Tools!Buckets(w)
    <2>1. PICK k, h : k = t \div Hour /\ h = k * Hour  OBVIOUS
    <2>2. k \in Nat /\ k <= t /\ h <= t /\ t < h + Hour  BY <1>1, <2>1, HourOf
    <2>3. k \in 0 .. MaxTime /\ h = Hour * k /\ h \in Nat  BY <1>1, <1>4, <2>1, <2>2
    <2>4. w[1] <= t /\ t < w[2]  BY <1>4 DEF Tools!In
    <2>5. h + Hour > w[1] /\ h < w[2]  BY <1>1, <2>2, <2>3, <2>4
    <2> QED BY <1>2, <2>1, <2>3, <2>5
  <1> QED BY <1>2, <1>3, <1>4

-----------------------------------------------------------------------------
(* nipple_stats finds every file of the window but those of a restart.       *)

LEMMA DiscoveryMisses ==
    ASSUME Tools!ToolsAssumption, LinesInv, NEW w \in MCWindows, NEW max \in Samples,
           ~Tools!Discovered(w, max).refused
    PROVE  LET d == Tools!Discovered(w, max)
           IN  /\ Cardinality(d.files) <= max
               /\ d.files = {i \in DOMAIN files : (files[i].start \div Hour) * Hour \in Tools!Buckets(w)}
               /\ \A i \in DOMAIN files \ d.files :
                     (\E n \in DOMAIN files[i].lines : Tools!In(files[i].lines[n].at, w))
                        => restarts > 0 /\ files[i].start < Tools!Min(Tools!Buckets(w))
  <1> DEFINE found == {i \in DOMAIN files : (files[i].start \div Hour) * Hour \in Tools!Buckets(w)}
             d == Tools!Discovered(w, max)
  <1>1. PICK r : r = (Tools!Cardinality(found) > max)  OBVIOUS
  <1>2. d = [refused |-> r, files |-> IF r THEN {} ELSE found]  BY <1>1 DEF Tools!Discovered
  <1>3. d.refused = r /\ d.files = IF r THEN {} ELSE found  BY <1>2
  <1>4. ~r /\ d.files = found  BY <1>3
  <1>5. /\ FilesInv /\ Len(files) \in Nat /\ DOMAIN files = 1 .. Len(files)
        /\ Hour \in Nat /\ Hour > 0 /\ MaxTime \in Nat /\ max \in Nat
        /\ w[1] \in Int /\ w[2] \in Int /\ clock \in Nat /\ clock <= MaxTime /\ restarts \in Nat
    BY Constants, SeqFacts DEF LinesInv, FilesInv
  <1>6. found \subseteq 1 .. Len(files)  BY <1>5
  <1> HIDE DEF d
  <1>7. Cardinality(d.files) <= max
    <2>1. Cardinality(found) \in Nat  BY <1>5, <1>6, DomainCard
    <2>2. ~(Cardinality(found) > max)  BY <1>1, <1>4, SameCardinality
    <2> QED BY <1>4, <1>5, <2>1, <2>2
  <1>8. ASSUME NEW i \in DOMAIN files, i \notin d.files,
               NEW n \in DOMAIN files[i].lines, Tools!In(files[i].lines[n].at, w)
        PROVE  restarts > 0 /\ files[i].start < Tools!Min(Tools!Buckets(w))
    <2>1. PICK t, s : t = files[i].lines[n].at /\ s = files[i].start  OBVIOUS
    <2>2. s \in Nat /\ t \in Nat /\ s <= t /\ t < s + Hour /\ t <= clock
      BY <1>5, <2>1 DEF FilesInv, IsFile
    <2>3. w[1] <= t /\ t < w[2]  BY <1>8, <2>1 DEF Tools!In
    <2>4. PICK k : k = s \div Hour  OBVIOUS
    <2>5. k \in Nat /\ k <= s /\ k * Hour <= s /\ s < k * Hour + Hour  BY <1>5, <2>2, <2>4, HourOf
    <2>6. PICK g : g = Hour * k  OBVIOUS
    <2>7. g = k * Hour /\ g \in Nat /\ k \in 0 .. MaxTime  BY <1>5, <2>2, <2>5, <2>6
    <2>8. g \notin Tools!Buckets(w)  BY <1>4, <1>8, <2>1, <2>4, <2>7
    <2>9. g < w[2]  BY <1>5, <2>2, <2>3, <2>5, <2>7
    <2>10. ~(g + Hour > w[1])  BY <2>6, <2>7, <2>8, <2>9, BucketsAre
    <2>11. g + Hour <= w[1]  BY <1>5, <2>7, <2>10
    <2>12. (t \div Hour) * Hour \in Tools!Buckets(w)
      <3>1. t <= MaxTime /\ Tools!In(t, w)  BY <1>5, <1>8, <2>1, <2>2
      <3> QED BY <2>2, <3>1, BucketsAre
    <2>13. restarts > 0
      <3> SUFFICES ASSUME restarts = 0 PROVE FALSE
        BY <1>5
      <3>1. PICK j \in Nat : s = Hour * j  BY <1>5, <2>1 DEF FilesInv
      <3>2. ~(g < s)
        <4> SUFFICES ASSUME g < s PROVE FALSE
          OBVIOUS
        <4>1. Hour * k < Hour * j  BY <2>6, <3>1
        <4>2. Hour * k + Hour <= Hour * j  BY <1>5, <2>5, <4>1, HoursApart
        <4>3. g + Hour <= s  BY <2>6, <3>1, <4>2
        <4>4. s < g + Hour  BY <2>5, <2>7
        <4> QED BY <1>5, <2>2, <2>7, <4>3, <4>4
      <3>3. g = s  BY <2>2, <2>5, <2>7, <3>2
      <3> QED BY <1>5, <2>2, <2>3, <2>7, <2>11, <3>3
    <2>14. PICK m : m = Tools!Min(Tools!Buckets(w))  OBVIOUS
    <2>15. m \in Tools!Buckets(w)  BY <2>12, <2>14, MinIs, BucketsAre
    <2>16. PICK j \in 0 .. MaxTime : m = Hour * j /\ m + Hour > w[1]  BY <2>15, BucketsAre
    <2>17. j \in Nat /\ m \in Nat  BY <1>5, <2>16
    <2>18. g < m  BY <1>5, <2>7, <2>11, <2>16, <2>17
    <2>19. g + Hour <= m
      <3>1. Hour * k < Hour * j  BY <2>6, <2>16, <2>18
      <3> QED BY <1>5, <2>5, <2>6, <2>16, <2>17, <3>1, HoursApart
    <2>20. s < m  BY <1>5, <2>2, <2>5, <2>7, <2>17, <2>19
    <2> QED BY <2>1, <2>13, <2>14, <2>20
  <1> QED BY <1>4, <1>7, <1>8 DEF d

-----------------------------------------------------------------------------
(* What data_locator says of the logs of a window.                           *)

LEMMA ToldIs ==
    ASSUME NEW there, NEW m, NEW max, NEW sel, NEW gap, NEW t,
           t = Tools!Told(there, m, max, sel, gap)
    PROVE  /\ t.status = (IF ~there THEN "source_unavailable" ELSE IF m = 0 THEN "no_data" ELSE "found")
           /\ t.matching = m /\ t.truncated = (m > max) /\ t.selected = sel /\ t.gap = gap
  BY DEF Tools!Told

LEMMA AccessIs ==
    ASSUME NEW t, t.status = "found"
    PROVE  \E a \in Tools!Access(t) : a.files = t.selected
  <1>1. PICK a : a = [matched |-> t.matching, files |-> t.selected]  OBVIOUS
  <1>2. a.files = t.selected  BY <1>1
  <1>3. a \in Tools!Access(t)  BY <1>1 DEF Tools!Access
  <1> QED BY <1>2, <1>3

LEMMA LogsAreTold ==
    ASSUME Tools!ToolsAssumption, LinesInv,
           NEW there \in BOOLEAN, NEW w \in MCWindows, NEW max \in Samples
    PROVE  LET logs     == Tools!LocateLogs(there, w, max)
               lines(i) == {l \in Tools!ToSet(files[i].lines) : Tools!In(l.at, w)}
               left     == UNION {lines(i) : i \in DOMAIN files \ logs.selected}
               kept     == UNION {lines(i) : i \in logs.selected}
           IN  /\ logs.status = "no_data" => there /\ left = {}
               /\ logs.status = "found" /\ left # {} =>
                     logs.truncated /\ \A l \in left, k \in kept : k.at <= l.at
               /\ logs.selected # {} => \E a \in Tools!Access(logs) : logs.selected \subseteq a.files
  <1> DEFINE logs     == Tools!LocateLogs(there, w, max)
             lines(i) == {l \in Tools!ToSet(files[i].lines) : Tools!In(l.at, w)}
             left     == UNION {lines(i) : i \in DOMAIN files \ logs.selected}
             kept     == UNION {lines(i) : i \in logs.selected}
             found    == IF there THEN Tools!Located(w) ELSE {}
             upto(i)  == {j \in found : j <= i}
             sel      == {i \in found : Tools!Cardinality(upto(i)) <= max}
  <1>1. logs = Tools!Told(there, Tools!Cardinality(found), max, sel, Tools!Missing)
    BY DEF Tools!LocateLogs
  <1>2. /\ logs.status = (IF ~there THEN "source_unavailable"
                          ELSE IF Cardinality(found) = 0 THEN "no_data" ELSE "found")
        /\ logs.truncated = (Cardinality(found) > max) /\ logs.selected = sel
    <2> HIDE DEF found, sel, logs
    <2>1. PICK c : c = Tools!Cardinality(found)  OBVIOUS
    <2>2. c = Cardinality(found)  BY <2>1, SameCardinality
    <2>3. logs = Tools!Told(there, c, max, sel, Tools!Missing)  BY <1>1, <2>1
    <2> QED BY <2>2, <2>3, ToldIs
  <1>3. /\ FilesInv /\ Len(files) \in Nat /\ DOMAIN files = 1 .. Len(files) /\ max \in Nat
    BY Constants, SeqFacts DEF LinesInv, FilesInv
  <1>4. found \subseteq 1 .. Len(files)  BY <1>3 DEF Tools!Located
  <1>5. sel = {i \in found : Cardinality(upto(i)) <= max}  BY SameCardinality
  <1>6. \A i : upto(i) \subseteq 1 .. Len(files) /\ upto(i) \subseteq found  BY <1>4
  <1>7. IsFiniteSet(found) /\ Cardinality(found) \in Nat
        /\ \A i : IsFiniteSet(upto(i)) /\ Cardinality(upto(i)) \in Nat
                  /\ Cardinality(upto(i)) <= Cardinality(found)
    BY <1>3, <1>4, <1>6, DomainCard, FS_Subset
  <1>8. \A i \in DOMAIN files : \A l \in lines(i) :
           \E n \in DOMAIN files[i].lines : l = files[i].lines[n] /\ Tools!In(files[i].lines[n].at, w)
    BY DEF Tools!ToSet
  <1>9. there => \A i \in DOMAIN files : lines(i) # {} => i \in found
    BY <1>8, LinesAreLocated
  <1>10. logs.selected \subseteq found  BY <1>2
  <1>11. \A l \in left : \E i \in DOMAIN files : i \notin logs.selected /\ l \in lines(i)
    OBVIOUS
  <1>12. \A k \in kept : \E i \in logs.selected : k \in lines(i)
    OBVIOUS
  <1> HIDE DEF logs, left, kept, lines, sel, found, upto
  <1>13. logs.status = "no_data" => there /\ left = {}
    <2> SUFFICES ASSUME logs.status = "no_data" PROVE there /\ left = {}
      OBVIOUS
    <2>1. there /\ Cardinality(found) = 0  BY <1>2
    <2>2. found = {}  BY <1>7, <2>1, FS_EmptySet
    <2> QED BY <1>9, <1>11, <2>1, <2>2
  <1>14. ASSUME logs.status = "found", NEW l \in left
         PROVE  logs.truncated /\ \A k \in kept : k.at <= l.at
    <2>1. there  BY <1>2, <1>14
    <2>2. PICK i \in DOMAIN files : i \notin logs.selected /\ l \in lines(i)  BY <1>11
    <2>3. i \in found  BY <1>9, <2>1, <2>2
    <2>4. ~(Cardinality(upto(i)) <= max)  BY <1>2, <1>5, <2>2, <2>3
    <2>5. Cardinality(found) > max  BY <1>3, <1>7, <2>4
    <2>6. ASSUME NEW k \in kept PROVE k.at <= l.at
      <3>1. PICK j \in logs.selected : k \in lines(j)  BY <1>12
      <3>2. j \in found /\ Cardinality(upto(j)) <= max  BY <1>2, <1>5, <3>1
      <3>3. i \in 1 .. Len(files) /\ j \in 1 .. Len(files)  BY <1>4, <2>3, <3>2
      <3>4. j < i
        <4> SUFFICES ASSUME i <= j PROVE FALSE
          BY <3>3, <1>3
        <4>1. upto(i) \subseteq upto(j)
          <5>1. \A m \in 1 .. Len(files) : m <= i => m <= j  BY <1>3, <3>3
          <5> QED BY <1>4, <5>1 DEF upto
        <4>2. Cardinality(upto(i)) <= Cardinality(upto(j))  BY <1>7, <4>1, FS_Subset
        <4> QED BY <1>3, <1>7, <2>4, <3>2, <4>2
      <3>5. PICK m \in DOMAIN files[j].lines : k = files[j].lines[m]  BY <1>3, <1>8, <3>1, <3>3
      <3>6. PICK n \in DOMAIN files[i].lines : l = files[i].lines[n]  BY <1>8, <2>2
      <3>7. Ends(files[j], files[i]) /\ IsFile(files[i], clock) /\ IsFile(files[j], clock)
        BY <1>3, <3>3, <3>4 DEF FilesInv
      <3>8. k.at < files[i].start /\ files[i].start <= l.at /\ k.at \in Nat /\ l.at \in Nat
            /\ files[i].start \in Nat
        BY <3>5, <3>6, <3>7 DEF Ends, IsFile
      <3> QED BY <3>8
    <2> QED BY <1>2, <2>5, <2>6
  <1>15. logs.selected # {} => \E a \in Tools!Access(logs) : logs.selected \subseteq a.files
    <2> SUFFICES ASSUME logs.selected # {}
                 PROVE  \E a \in Tools!Access(logs) : logs.selected \subseteq a.files
      OBVIOUS
    <2>1. found # {}  BY <1>10
    <2>2. there  BY <2>1 DEF found
    <2>3. Cardinality(found) # 0  BY <1>7, <2>1, FS_EmptySet
    <2>4. logs.status = "found"  BY <1>2, <2>2, <2>3
    <2> QED BY <2>4, AccessIs
  <1> QED BY <1>13, <1>14, <1>15 DEF logs, left, kept, lines

-----------------------------------------------------------------------------
(* The images of a window and their sample.                                  *)

LEMMA ImageOf ==
    ASSUME NEW A, IsFiniteSet(A), NEW f, DOMAIN f = A
    PROVE  IsFiniteSet({f[x] : x \in A}) /\ Cardinality({f[x] : x \in A}) <= Cardinality(A)
  <1> DEFINE B == {f[x] : x \in A}
             g == [x \in A |-> f[x]]
  <1>1. g \in Surjection(A, B)
    <2>1. g \in [A -> B]  OBVIOUS
    <2>2. \A y \in B : \E x \in A : g[x] = y  OBVIOUS
    <2> HIDE DEF B, g
    <2> QED BY <2>1, <2>2 DEF Surjection
  <1> HIDE DEF B, g
  <1>2. IsFiniteSet(B) /\ Cardinality(B) <= Cardinality(A)  BY <1>1, FS_Surjection
  <1> QED BY <1>2 DEF B

LEMMA MaxIs ==
    ASSUME NEW T, T \subseteq Int, T # {}, NEW b \in Int, \A x \in T : x <= b
    PROVE  Tools!Max(T) \in T /\ \A x \in T : Tools!Max(T) >= x
  <1> DEFINE U == {b - x : x \in T}
  <1>1. U \subseteq Nat /\ U # {}
    <2>1. \A x \in T : b - x \in Nat
      <3> SUFFICES ASSUME NEW x \in T PROVE b - x \in Nat
        OBVIOUS
      <3>1. x \in Int /\ x <= b  OBVIOUS
      <3> QED BY <3>1
    <2> QED BY <2>1
  <1>2. PICK m \in U : \A y \in U : m <= y  BY <1>1, Least
  <1>3. PICK x \in T : m = b - x  OBVIOUS
  <1>4. \A y \in T : x >= y
    <2> SUFFICES ASSUME NEW y \in T PROVE x >= y
      OBVIOUS
    <2>1. m <= b - y  BY <1>2
    <2>2. x \in Int /\ y \in Int  OBVIOUS
    <2> QED BY <1>3, <2>1, <2>2
  <1> QED BY <1>4 DEF Tools!Max

\* Images in the order of their times.
Sorted(q) == /\ IsSeq(q)
             /\ \A i \in DOMAIN q : q[i].at \in Nat
             /\ \A i, j \in DOMAIN q : i <= j => q[i].at <= q[j].at

LEMMA ImagesAre ==
    ASSUME LinesInv, NEW w
    PROVE  Sorted(Tools!Images(w))
  <1> DEFINE all == Tools!AllLines
             P == {n \in DOMAIN all :
                     /\ all[n].kind = "start" /\ (all[n].at \div Hour) * Hour \in Tools!Buckets(w)
                     /\ Tools!In(all[n].at, w)}
             found == Tools!Places(Len(all), P)
             q == [k \in DOMAIN found |-> all[found[k]]]
  <1>1. Tools!Images(w) = q
    <2>1. {n \in DOMAIN all : (all[n].kind = "start" /\ (all[n].at \div Hour) * Hour \in Tools!Buckets(w))
                              /\ Tools!In(all[n].at, w)} = P
      OBVIOUS
    <2> QED BY <2>1 DEF Tools!Images
  <1>2. FilesInv /\ Len(all) \in Nat /\ DOMAIN all = 1 .. Len(all)
    BY AllLinesAre DEF LinesInv
  <1> HIDE DEF P
  <1>3. Leads(found, Len(all), P)  BY <1>2, PlacesIs
  <1>4. /\ \A n \in DOMAIN all : all[n].at \in Nat
        /\ \A m, n \in DOMAIN all : m <= n => all[m].at <= all[n].at
    BY DEF LinesInv, Ordered
  <1> HIDE DEF all, found
  <1>5. /\ IsSeq(found) /\ \A k \in DOMAIN found : found[k] \in DOMAIN all /\ found[k] \in Nat
        /\ \A j, k \in DOMAIN found : j < k => found[j] < found[k]
    BY <1>2, <1>3 DEF Leads
  <1>6. Len(found) \in Nat /\ DOMAIN found = 1 .. Len(found)  BY <1>5, SeqFacts
  <1>7. q = [k \in 1 .. Len(found) |-> q[k]]  BY <1>6
  <1>8. IsSeq(q) /\ DOMAIN q = 1 .. Len(found)  BY <1>6, <1>7, BuiltIsSeq
  <1>9. \A k \in DOMAIN q : q[k] = all[found[k]]  BY <1>6, <1>8
  <1> HIDE DEF q
  <1>10. \A i \in DOMAIN q : q[i].at \in Nat  BY <1>4, <1>5, <1>6, <1>8, <1>9
  <1>11. \A i, j \in DOMAIN q : i <= j => q[i].at <= q[j].at
    <2> SUFFICES ASSUME NEW i \in DOMAIN q, NEW j \in DOMAIN q, i <= j
                 PROVE  q[i].at <= q[j].at
      OBVIOUS
    <2>1. found[i] \in DOMAIN all /\ found[j] \in DOMAIN all /\ found[i] \in Nat /\ found[j] \in Nat
      BY <1>5, <1>6, <1>8
    <2>2. found[i] <= found[j]
      <3>1. i = j \/ i < j  BY <1>6, <1>8
      <3> QED BY <1>5, <1>6, <1>8, <2>1, <3>1
    <2> QED BY <1>4, <1>9, <2>1, <2>2
  <1> QED BY <1>1, <1>8, <1>10, <1>11 DEF Sorted

LEMMA DistanceIs ==
    ASSUME NEW a \in Int, NEW b \in Int
    PROVE  /\ Tools!Distance(a, b) \in Nat
           /\ a <= b => Tools!Distance(a, b) = b - a
           /\ b <= a => Tools!Distance(a, b) = a - b
  BY DEF Tools!Distance

LEMMA Scaled ==
    ASSUME NEW x \in Nat, NEW y \in Nat, NEW k \in Nat
    PROVE  /\ x * k \in Nat
           /\ x <= y => x * k <= y * k
           /\ k > 0 /\ x * k = y * k => x = y
  <1>1. x * k \in Nat  OBVIOUS
  <1>2. ASSUME NEW a \in Nat, NEW b \in Nat, a <= b PROVE a * k <= b * k
    <2>1. PICK d : d = b - a  OBVIOUS
    <2>2. d \in Nat /\ b = a + d  BY <1>2, <2>1
    <2>3. (a + d) * k = a * k + d * k /\ d * k \in Nat /\ a * k \in Nat  BY <2>2
    <2>4. PICK e, f : e = a * k /\ f = d * k  OBVIOUS
    <2>5. e <= e + f  BY <2>3, <2>4
    <2> QED BY <2>2, <2>3, <2>4, <2>5
  <1>3. ASSUME NEW a \in Nat, NEW b \in Nat, a < b, k > 0 PROVE a * k # b * k
    <2>1. a + 1 \in Nat /\ a + 1 <= b  BY <1>3
    <2>2. (a + 1) * k <= b * k  BY <1>2, <2>1
    <2>3. (a + 1) * k = a * k + k /\ a * k \in Nat /\ b * k \in Nat  OBVIOUS
    <2>4. PICK e, f : e = a * k /\ f = b * k  OBVIOUS
    <2>5. e \in Nat /\ e + k <= f  BY <2>2, <2>3, <2>4
    <2>6. e # f  BY <1>3, <2>5
    <2> QED BY <2>4, <2>6
  <1>4. x < y \/ x = y \/ y < x  OBVIOUS
  <1> QED BY <1>1, <1>2, <1>3, <1>4

LEMMA NearIs ==
    ASSUME NEW q, Sorted(q), Len(q) > 0, NEW k \in Nat, NEW target \in Int
    PROVE  /\ Tools!Near(q, k, target) \in DOMAIN q
           /\ \A i \in DOMAIN q : Tools!Distance(q[Tools!Near(q, k, target)].at * k, target)
                                     <= Tools!Distance(q[i].at * k, target)
  <1> DEFINE N == Len(q)
             I == {i \in DOMAIN q : q[i].at * k >= target} \cup {N + 1}
             index == Tools!Min(I)
             two == {index - 1, index} \cap DOMAIN q
             D == [i \in DOMAIN q |-> Tools!Distance(q[i].at * k, target)]
             best == {i \in two : \A j \in two :
                        Tools!Distance(q[i].at * k, target) <= Tools!Distance(q[j].at * k, target)}
  <1>1. Tools!Near(q, k, target) = Tools!Min(best)  BY DEF Tools!Near
  <1>2. N \in Nat /\ N > 0 /\ DOMAIN q = 1 .. N  BY SeqFacts DEF Sorted
  <1> DEFINE u == [i \in DOMAIN q |-> q[i].at * k]
  <1>3. \A i \in DOMAIN q : u[i] = q[i].at * k /\ u[i] \in Nat
    BY Scaled DEF Sorted
  <1>4. \A i, j \in DOMAIN q : i <= j => u[i] <= u[j]
    BY <1>3, Scaled DEF Sorted
  <1>5. \A i \in DOMAIN q : D[i] = Tools!Distance(u[i], target)  BY <1>3
  <1>6. I = {i \in DOMAIN q : u[i] >= target} \cup {N + 1}  BY <1>3
  <1>7. best = {i \in two : \A j \in two : D[i] <= D[j]}  OBVIOUS
  <1> HIDE DEF u, D, I, best, N
  <1>8. I \subseteq Nat /\ I # {}  BY <1>2, <1>6
  <1>9. index \in I /\ \A x \in I : index <= x  BY <1>8, MinIs
  <1> HIDE DEF index
  <1>10. index \in 1 .. N + 1  BY <1>2, <1>6, <1>9
  <1>11. \A i \in 1 .. N : D[i] \in Nat /\ (u[i] <= target => D[i] = target - u[i])
                           /\ (target <= u[i] => D[i] = u[i] - target)
    <2> SUFFICES ASSUME NEW i \in 1 .. N
                 PROVE  /\ D[i] \in Nat /\ (u[i] <= target => D[i] = target - u[i])
                        /\ (target <= u[i] => D[i] = u[i] - target)
      OBVIOUS
    <2>1. PICK x : x = u[i]  OBVIOUS
    <2>2. x \in Int /\ D[i] = Tools!Distance(x, target)  BY <1>2, <1>3, <1>5, <2>1
    <2> QED BY <2>1, <2>2, DistanceIs
  <1>12. \A i \in 1 .. N : \E j \in two : D[j] <= D[i]
    <2> SUFFICES ASSUME NEW i \in 1 .. N PROVE \E j \in two : D[j] <= D[i]
      OBVIOUS
    <2>1. CASE i < index
      <3>1. PICK j : j = index - 1  OBVIOUS
      <3>2. j \in 1 .. N /\ i <= j /\ ~(index <= j) /\ ~(j = N + 1)  BY <1>2, <1>10, <2>1, <3>1
      <3>3. ~(u[j] >= target)  BY <1>2, <1>6, <1>9, <3>2
      <3>4. u[i] <= u[j] /\ u[i] \in Nat /\ u[j] \in Nat  BY <1>2, <1>3, <1>4, <3>2
      <3>5. D[j] <= D[i]  BY <1>11, <3>2, <3>3, <3>4
      <3> QED BY <1>2, <3>1, <3>2, <3>5
    <2>2. CASE ~(i < index)
      <3>1. index \in 1 .. N /\ index <= i /\ index # N + 1  BY <1>2, <1>10, <2>2
      <3>2. u[index] >= target  BY <1>6, <1>9, <3>1
      <3>3. u[index] <= u[i] /\ u[index] \in Nat /\ u[i] \in Nat  BY <1>2, <1>3, <1>4, <3>1
      <3>4. D[index] <= D[i]  BY <1>11, <3>1, <3>2, <3>3
      <3> QED BY <1>2, <3>1, <3>4
    <2> QED BY <2>1, <2>2
  <1>13. two \subseteq 1 .. N  BY <1>2
  <1> HIDE DEF two
  <1>14. \E i \in two : \A j \in two : D[i] <= D[j]
    <2> DEFINE V == {D[i] : i \in two}
    <2>1. V \subseteq Nat  BY <1>11, <1>13
    <2>2. V # {}
      <3>1. 1 \in 1 .. N  BY <1>2
      <3> QED BY <1>12, <3>1
    <2>3. PICK m \in V : \A y \in V : m <= y  BY <2>1, <2>2, Least
    <2> QED BY <2>3
  <1>15. best # {} /\ best \subseteq Nat
    <2>1. PICK i \in two : \A j \in two : D[i] <= D[j]  BY <1>14
    <2>2. i \in best  BY <1>7, <2>1
    <2>3. best \subseteq two  BY <1>7
    <2>4. \A x \in 1 .. N : x \in Nat  BY <1>2
    <2> QED BY <1>13, <2>2, <2>3, <2>4
  <1>16. PICK b : b = Tools!Near(q, k, target)  OBVIOUS
  <1>17. b \in best  BY <1>1, <1>15, <1>16, MinIs
  <1>18. b \in 1 .. N /\ \A j \in two : D[b] <= D[j]  BY <1>7, <1>13, <1>17
  <1>19. \A i \in 1 .. N : D[b] <= D[i]
    <2> SUFFICES ASSUME NEW i \in 1 .. N PROVE D[b] <= D[i]
      OBVIOUS
    <2>1. PICK j \in two : D[j] <= D[i]  BY <1>12
    <2>2. D[b] <= D[j] /\ j \in 1 .. N  BY <1>13, <1>18
    <2> QED BY <1>11, <1>18, <2>1, <2>2
  <1>20. \A i \in 1 .. N : D[i] = Tools!Distance(q[i].at * k, target)  BY <1>2 DEF D
  <1> QED BY <1>2, <1>16, <1>18, <1>19, <1>20

\* What a sample smp has of the images q: all of them, one that is in the middle,
\* or one near each point of the grid.
Samples1(q, max, smp) ==
    LET N    == Len(q)
        span == q[N].at - q[1].at
    IN  /\ N \in Nat /\ DOMAIN q = 1 .. N /\ smp \subseteq DOMAIN q
        /\ IsFiniteSet(smp) /\ Cardinality(smp) <= max
        /\ N <= max => smp = DOMAIN q
        /\ N > max /\ max = 1 => \E i : smp = {i}
        /\ N > max /\ max > 1 =>
              /\ \A g \in 0 .. max - 1 : \E j \in smp : \A i \in DOMAIN q :
                    Tools!Distance(q[j].at * (max - 1), q[1].at * (max - 1) + span * g)
                      <= Tools!Distance(q[i].at * (max - 1), q[1].at * (max - 1) + span * g)
              /\ \E i \in smp : q[i].at = q[1].at
              /\ \E i \in smp : q[i].at = q[N].at

LEMMA SampleIs ==
    ASSUME NEW q, Sorted(q), NEW max \in Nat, max > 0
    PROVE  Samples1(q, max, Tools!Sample(q, max))
  <1> DEFINE N == Len(q)
             smp == Tools!Sample(q, max)
             span == q[N].at - q[1].at
  <1>1. N \in Nat /\ DOMAIN q = 1 .. N  BY SeqFacts DEF Sorted
  <1>2. CASE N <= max
    <2>1. smp = DOMAIN q  BY <1>2 DEF Tools!Sample
    <2>2. IsFiniteSet(smp) /\ Cardinality(smp) <= N /\ Cardinality(smp) \in Nat
      BY <1>1, <2>1, DomainCard
    <2>3. Cardinality(smp) <= max /\ ~(N > max)  BY <1>1, <1>2, <2>2
    <2> HIDE DEF smp, span
    <2>4. N \in Nat /\ DOMAIN q = 1 .. N /\ smp \subseteq DOMAIN q  BY <1>1, <2>1
    <2> QED BY <2>1, <2>2, <2>3, <2>4 DEF Samples1, smp
  <1>3. CASE N > max
    <2>1. N > 0 /\ 1 \in DOMAIN q /\ N \in DOMAIN q /\ ~(N <= max)  BY <1>1, <1>3
    <2>2. q[1].at \in Nat /\ q[N].at \in Nat /\ q[1].at <= q[N].at  BY <1>1, <2>1 DEF Sorted
    <2>3. span \in Nat  BY <2>2
    <2>4. Tools!Last(q) = q[N]  BY DEF Tools!Last
    <2>5. CASE max = 1
      <3>1. smp = {Tools!Near(q, 2, q[1].at * 2 + span)}  BY <2>1, <2>4, <2>5 DEF Tools!Sample
      <3>2. q[1].at * 2 + span \in Int  BY <2>2, <2>3
      <3> HIDE DEF span
      <3>3. Tools!Near(q, 2, q[1].at * 2 + span) \in DOMAIN q  BY <2>1, <3>2, NearIs
      <3>4. IsFiniteSet(smp) /\ Cardinality(smp) = 1  BY <3>1, FS_Singleton
      <3>5. ~(N <= max) /\ ~(max > 1) /\ Cardinality(smp) <= max  BY <2>1, <2>5, <3>4
      <3>6. smp \subseteq DOMAIN q /\ \E i : smp = {i}  BY <3>1, <3>3
      <3> HIDE DEF smp
      <3> QED BY <1>1, <3>4, <3>5, <3>6 DEF Samples1, smp
    <2>6. CASE max # 1
      <3>1. PICK m : m = max - 1  OBVIOUS
      <3>2. m \in Nat /\ m > 0 /\ max > 1 /\ ~(max <= 1)  BY <2>6, <3>1
      <3> DEFINE at(g) == q[1].at * m + span * g
                 near == [g \in 0 .. m |-> Tools!Near(q, m, at(g))]
      <3>3. smp = {Tools!Near(q, m, at(i)) : i \in 0 .. m}
        BY <2>1, <2>4, <3>1, <3>2 DEF Tools!Sample
      <3>4. smp = {near[g] : g \in 0 .. m}  BY <3>3
      <3>5. \A g \in 0 .. m : at(g) \in Int
        <4>1. q[1].at * m \in Nat  BY <2>2, <3>2
        <4>2. \A g \in 0 .. m : span * g \in Nat  BY <2>3, <3>2
        <4> QED BY <4>1, <4>2
      <3>6. \A g \in 0 .. m : near[g] = Tools!Near(q, m, at(g))  OBVIOUS
      <3>7. DOMAIN near = 0 .. m  OBVIOUS
      <3> HIDE DEF near, smp
      <3>8. \A g \in 0 .. m :
              /\ near[g] \in DOMAIN q
              /\ \A i \in DOMAIN q : Tools!Distance(q[near[g]].at * m, at(g)) <= Tools!Distance(q[i].at * m, at(g))
        <4> SUFFICES ASSUME NEW g \in 0 .. m
                     PROVE  /\ near[g] \in DOMAIN q
                            /\ \A i \in DOMAIN q : Tools!Distance(q[near[g]].at * m, at(g))
                                                     <= Tools!Distance(q[i].at * m, at(g))
          OBVIOUS
        <4>1. PICK t : t = at(g)  OBVIOUS
        <4>2. t \in Int /\ near[g] = Tools!Near(q, m, t)  BY <3>5, <3>6, <4>1
        <4> HIDE DEF at
        <4>3. /\ near[g] \in DOMAIN q
              /\ \A i \in DOMAIN q : Tools!Distance(q[near[g]].at * m, t) <= Tools!Distance(q[i].at * m, t)
          BY <2>1, <3>2, <4>2, NearIs
        <4> QED BY <4>1, <4>3
      <3>9. smp \subseteq DOMAIN q  BY <3>4, <3>8
      <3>10. IsFiniteSet(smp) /\ Cardinality(smp) <= max
        <4>1. IsFiniteSet(0 .. m) /\ Cardinality(0 .. m) = m + 1
          <5>1. 0 \in Int /\ m \in Int /\ ~(0 > m) /\ m - 0 + 1 = m + 1  BY <3>2
          <5> QED BY <5>1, FS_Interval
        <4>2. IsFiniteSet(smp) /\ Cardinality(smp) <= m + 1  BY <3>4, <3>7, <4>1, ImageOf
        <4> QED BY <3>1, <4>2
      <3>11. \A g \in 0 .. max - 1 : \E j \in smp : \A i \in DOMAIN q :
                Tools!Distance(q[j].at * (max - 1), q[1].at * (max - 1) + span * g)
                  <= Tools!Distance(q[i].at * (max - 1), q[1].at * (max - 1) + span * g)
        BY <3>1, <3>4, <3>8
      <3>12. ASSUME NEW g \in 0 .. m, NEW e \in DOMAIN q, at(g) = q[e].at * m
             PROVE  \E i \in smp : q[i].at = q[e].at
        <4>1. near[g] \in DOMAIN q /\ near[g] \in smp
              /\ Tools!Distance(q[near[g]].at * m, at(g)) <= Tools!Distance(q[e].at * m, at(g))
          BY <3>4, <3>8
        <4>2. PICK a, b : a = q[near[g]].at /\ b = q[e].at  OBVIOUS
        <4>3. a \in Nat /\ b \in Nat  BY <4>1, <4>2 DEF Sorted
        <4>4. PICK x, y : x = a * m /\ y = b * m  OBVIOUS
        <4>5. x \in Nat /\ y \in Nat  BY <3>2, <4>3, <4>4
        <4>6. Tools!Distance(x, y) <= Tools!Distance(y, y)  BY <3>12, <4>1, <4>2, <4>4
        <4>7. Tools!Distance(y, y) = 0  BY <4>5, DistanceIs
        <4>8. x = y
          <5>1. x <= y \/ y <= x  BY <4>5
          <5>2. CASE x <= y
            <6>1. Tools!Distance(x, y) = y - x  BY <4>5, <5>2, DistanceIs
            <6> QED BY <4>5, <4>6, <4>7, <5>2, <6>1
          <5>3. CASE y <= x
            <6>1. Tools!Distance(x, y) = x - y  BY <4>5, <5>3, DistanceIs
            <6> QED BY <4>5, <4>6, <4>7, <5>3, <6>1
          <5> QED BY <5>1, <5>2, <5>3
        <4>9. a = b  BY <3>2, <4>3, <4>4, <4>8, Scaled
        <4> QED BY <4>1, <4>2, <4>9
      <3>13. \E i \in smp : q[i].at = q[1].at
        <4>1. span * 0 = 0 /\ q[1].at * m \in Nat  BY <2>2, <2>3, <3>2
        <4>2. 0 \in 0 .. m /\ at(0) = q[1].at * m  BY <3>2, <4>1
        <4> HIDE DEF at
        <4> QED BY <2>1, <3>12, <4>2
      <3>14. \E i \in smp : q[i].at = q[N].at
        <4>1. PICK a, b : a = q[1].at /\ b = q[N].at  OBVIOUS
        <4>2. a \in Nat /\ b \in Nat /\ a <= b  BY <2>2, <4>1
        <4>3. a * m + (b - a) * m = b * m  BY <3>2, <4>2
        <4>4. m \in 0 .. m /\ at(m) = q[N].at * m  BY <3>2, <4>1, <4>3
        <4> HIDE DEF at
        <4> QED BY <2>1, <3>12, <4>4
      <3> QED BY <1>1, <2>1, <2>6, <3>2, <3>9, <3>10, <3>11, <3>13, <3>14 DEF Samples1, smp
    <2> QED BY <2>5, <2>6
  <1>4. N <= max \/ N > max  BY <1>1
  <1> HIDE DEF N
  <1> QED BY <1>2, <1>3, <1>4

LEMMA SpanIsShown ==
    ASSUME NEW q, Sorted(q), NEW max \in Nat, max > 0, NEW S, Samples1(q, max, S), q # <<>>, max > 1
    PROVE  LET span == q[Len(q)].at - q[1].at
           IN  /\ \E i \in S : q[i].at = q[1].at
               /\ \E i \in S : q[i].at = q[Len(q)].at
               /\ \A g \in 0 .. max - 1, i \in DOMAIN q : \E j \in S :
                     Tools!Distance(q[j].at * (max - 1), q[1].at * (max - 1) + span * g)
                       <= Tools!Distance(q[i].at * (max - 1), q[1].at * (max - 1) + span * g)
  <1> DEFINE N == Len(q)
             span == q[N].at - q[1].at
  <1>1. /\ N \in Nat /\ DOMAIN q = 1 .. N
        /\ N <= max => S = DOMAIN q
        /\ N > max /\ max > 1 =>
              /\ \A g \in 0 .. max - 1 : \E j \in S : \A i \in DOMAIN q :
                    Tools!Distance(q[j].at * (max - 1), q[1].at * (max - 1) + span * g)
                      <= Tools!Distance(q[i].at * (max - 1), q[1].at * (max - 1) + span * g)
              /\ \E i \in S : q[i].at = q[1].at
              /\ \E i \in S : q[i].at = q[N].at
    BY DEF Samples1
  <1>2. N > 0
    <2> SUFFICES ASSUME N = 0 PROVE FALSE
      BY <1>1
    <2>1. q = [i \in 1 .. N |-> q[i]]  BY SeqFacts DEF Sorted
    <2> QED BY <2>1
  <1>3. \A i \in DOMAIN q : q[i].at \in Nat  BY DEF Sorted
  <1>4. CASE N <= max
    <2>1. 1 \in S /\ N \in S  BY <1>1, <1>2, <1>4
    <2>2. span \in Int  BY <1>1, <1>2, <1>3
    <2>3. PICK m : m = max - 1  OBVIOUS
    <2>4. m \in Nat  BY <2>3
    <2>5. \A g \in 0 .. m, i \in DOMAIN q :
             Tools!Distance(q[i].at * m, q[1].at * m + span * g)
               <= Tools!Distance(q[i].at * m, q[1].at * m + span * g)
      <3> SUFFICES ASSUME NEW g \in 0 .. m, NEW i \in DOMAIN q
                   PROVE  Tools!Distance(q[i].at * m, q[1].at * m + span * g)
                            <= Tools!Distance(q[i].at * m, q[1].at * m + span * g)
        OBVIOUS
      <3>1. PICK x, y : x = q[i].at * m /\ y = q[1].at * m + span * g  OBVIOUS
      <3>2. x \in Int /\ y \in Int
        <4>1. q[1].at \in Nat  BY <1>1, <1>2, <1>3
        <4>2. PICK a, b, s : a = q[i].at /\ b = q[1].at /\ s = span  OBVIOUS
        <4>3. a \in Nat /\ b \in Nat /\ s \in Int  BY <1>3, <2>2, <4>1, <4>2
        <4>4. x = a * m /\ y = b * m + s * g  BY <3>1, <4>2
        <4> QED BY <2>4, <4>3, <4>4
      <3>3. Tools!Distance(x, y) \in Nat  BY <3>2, DistanceIs
      <3> QED BY <3>1, <3>3
    <2> HIDE DEF span, N
    <2> QED BY <1>1, <1>4, <2>1, <2>3, <2>5 DEF span, N
  <1>5. CASE N > max  BY <1>1, <1>5
  <1>6. N <= max \/ N > max  BY <1>1
  <1> QED BY <1>4, <1>5, <1>6

LEMMA SamplesAreSpread ==
    ASSUME Tools!ToolsAssumption, LinesInv
    PROVE  Tools!SamplesSpan
  <1> SUFFICES ASSUME NEW w \in MCWindows, NEW max \in Samples
               PROVE  LET q == Tools!Images(w)
                          S == Tools!Sample(q, max)
                          span == Tools!Last(q).at - q[1].at
                      IN  /\ Tools!Cardinality(S) <= max
                          /\ (q # <<>> /\ max > 1) =>
                                /\ \E i \in S : q[i].at = q[1].at
                                /\ \E i \in S : q[i].at = Tools!Last(q).at
                                /\ \A g \in 0..(max - 1), i \in DOMAIN q : \E j \in S :
                                      Tools!Distance(q[j].at * (max - 1), q[1].at * (max - 1) + span * g)
                                         <= Tools!Distance(q[i].at * (max - 1), q[1].at * (max - 1) + span * g)
    BY DEF Tools!SamplesSpan
  <1>1. max \in Nat /\ max > 0  BY Constants
  <1>2. PICK q : q = Tools!Images(w)  OBVIOUS
  <1>3. PICK S : S = Tools!Sample(q, max)  OBVIOUS
  <1>4. Sorted(q)  BY <1>2, ImagesAre
  <1>5. Samples1(q, max, S)  BY <1>1, <1>3, <1>4, SampleIs
  <1>6. Tools!Cardinality(S) <= max  BY <1>5, SameCardinality DEF Samples1
  <1>7. Tools!Last(q) = q[Len(q)]  BY DEF Tools!Last
  <1>8. CASE q # <<>> /\ max > 1
    <2>1. /\ \E i \in S : q[i].at = q[1].at
          /\ \E i \in S : q[i].at = q[Len(q)].at
          /\ \A g \in 0 .. max - 1, i \in DOMAIN q : \E j \in S :
                Tools!Distance(q[j].at * (max - 1), q[1].at * (max - 1) + (q[Len(q)].at - q[1].at) * g)
                  <= Tools!Distance(q[i].at * (max - 1), q[1].at * (max - 1) + (q[Len(q)].at - q[1].at) * g)
      BY <1>1, <1>4, <1>5, <1>8, SpanIsShown
    <2> QED BY <1>2, <1>3, <1>6, <1>7, <2>1
  <1>9. CASE ~(q # <<>> /\ max > 1)  BY <1>2, <1>3, <1>6, <1>9
  <1> QED BY <1>8, <1>9

-----------------------------------------------------------------------------
(* What data_locator says of the images of a window.                         *)

Gaps(q, S) == {q[Tools!Min({j \in S : j > i})].at - q[i].at : i \in {k \in S : \E j \in S : j > k}}

\* The gap that is told is the largest between two selected images.
LEMMA GapsAre ==
    ASSUME NEW q, Sorted(q), NEW S, S \subseteq DOMAIN q
    PROVE  LET gap == Tools!Max(Gaps(q, S) \cup {Tools!Missing})
           IN  /\ Gaps(q, S) \subseteq Nat
               /\ \A x \in Gaps(q, S) : x <= gap
               /\ gap # Tools!Missing => gap \in Gaps(q, S)
  <1> DEFINE N == Len(q)
             G == Gaps(q, S)
             T == G \cup {Tools!Missing}
             gap == Tools!Max(T)
  <1>1. N \in Nat /\ DOMAIN q = 1 .. N  BY SeqFacts DEF Sorted
  <1>2. ASSUME NEW i \in S, \E j \in S : j > i
        PROVE  LET g == q[Tools!Min({j \in S : j > i})].at - q[i].at
               IN  g \in Nat /\ g <= q[N].at
    <2>1. PICK b : b = Tools!Min({j \in S : j > i})  OBVIOUS
    <2>2. b \in S /\ b > i
      <3>1. {j \in S : j > i} # {} /\ {j \in S : j > i} \subseteq Nat  BY <1>1, <1>2
      <3> QED BY <2>1, <3>1, MinIs
    <2>3. b \in 1 .. N /\ i \in 1 .. N /\ N \in 1 .. N /\ i <= b /\ b <= N  BY <1>1, <2>2
    <2>4. q[i].at \in Nat /\ q[b].at \in Nat /\ q[N].at \in Nat /\ q[i].at <= q[b].at /\ q[b].at <= q[N].at
      BY <1>1, <2>3 DEF Sorted
    <2>5. q[b].at - q[i].at \in Nat /\ q[b].at - q[i].at <= q[N].at  BY <2>4
    <2> QED BY <2>1, <2>5
  <1>3. \A x \in G : x \in Nat /\ x <= q[N].at
    <2> SUFFICES ASSUME NEW x \in G PROVE x \in Nat /\ x <= q[N].at
      OBVIOUS
    <2>1. PICK i \in S : (\E j \in S : j > i) /\ x = q[Tools!Min({j \in S : j > i})].at - q[i].at
      BY DEF Gaps
    <2> QED BY <1>2, <2>1
  <1>4. Tools!Missing = -1  BY DEF Tools!Missing
  <1> HIDE DEF G
  <1>5. PICK b : b = IF G = {} THEN 0 ELSE q[N].at  OBVIOUS
  <1>6. b \in Int /\ \A x \in T : x \in Int /\ x <= b
    <2>1. CASE G = {}  BY <1>4, <1>5, <2>1
    <2>2. CASE G # {}
      <3>1. q[N].at \in Nat
        <4>1. N > 0
          <5>1. PICK x \in G : TRUE  BY <2>2
          <5>2. PICK i \in S : TRUE  BY <5>1 DEF G, Gaps
          <5> QED BY <1>1, <5>2
        <4>2. N \in DOMAIN q  BY <1>1, <4>1
        <4> QED BY <4>2 DEF Sorted
      <3>2. b = q[N].at  BY <1>5, <2>2
      <3> QED BY <1>3, <1>4, <3>1, <3>2
    <2> QED BY <2>1, <2>2
  <1>7. T \subseteq Int /\ T # {}  BY <1>6
  <1>8. gap \in T /\ \A x \in T : gap >= x
    <2> HIDE DEF T
    <2> QED BY <1>6, <1>7, MaxIs
  <1>9. gap \in Int  BY <1>7, <1>8
  <1> HIDE DEF gap
  <1>10. \A x \in G : x <= gap
    <2> SUFFICES ASSUME NEW x \in G PROVE x <= gap
      OBVIOUS
    <2>1. x \in T  OBVIOUS
    <2>2. x \in Int /\ gap >= x  BY <1>6, <1>8, <2>1
    <2> QED BY <1>9, <2>2
  <1>11. gap # Tools!Missing => gap \in G  BY <1>8
  <1> QED BY <1>3, <1>10, <1>11 DEF G, gap

LEMMA NoneIsFar ==
    ASSUME NEW q, Sorted(q), NEW max \in Nat, max > 0, NEW S, Samples1(q, max, S),
           NEW gap, gap \in Gaps(q, S), \A x \in Gaps(q, S) : x <= gap, Gaps(q, S) \subseteq Nat,
           NEW i \in DOMAIN q
    PROVE  \E j \in S : 2 * Tools!Distance(q[i].at, q[j].at) <= gap
  <1> DEFINE N == Len(q)
  <1>1. /\ N \in Nat /\ DOMAIN q = 1 .. N /\ S \subseteq DOMAIN q
        /\ N <= max => S = DOMAIN q
        /\ N > max /\ max = 1 => \E x : S = {x}
        /\ N > max /\ max > 1 => (\E x \in S : q[x].at = q[1].at) /\ \E x \in S : q[x].at = q[N].at
    BY DEF Samples1
  <1>2. gap \in Nat  OBVIOUS
  <1>3. \A x \in DOMAIN q : q[x].at \in Nat  BY DEF Sorted
  <1>4. \A x, y \in DOMAIN q : x <= y => q[x].at <= q[y].at  BY DEF Sorted
  <1>5. ASSUME NEW j \in S, q[j].at = q[i].at
        PROVE  2 * Tools!Distance(q[i].at, q[j].at) <= gap
    <2>1. PICK t : t = q[i].at  OBVIOUS
    <2>2. t \in Nat  BY <1>3, <2>1
    <2>3. Tools!Distance(t, t) = 0  BY <2>2, DistanceIs
    <2> QED BY <1>2, <1>5, <2>1, <2>3
  <1>6. CASE i \in S  BY <1>5, <1>6
  <1>7. CASE i \notin S
    <2>1. N > max  BY <1>1, <1>7
    <2>2. max > 1
      <3> SUFFICES ASSUME max = 1 PROVE FALSE
        OBVIOUS
      <3>1. PICK x : S = {x}  BY <1>1, <2>1
      <3>2. PICK k \in S : \E j \in S : j > k  BY DEF Gaps
      <3>3. k \in Nat  BY <1>1
      <3> QED BY <3>1, <3>2, <3>3
    <2>3. PICK first \in S, last \in S : q[first].at = q[1].at /\ q[last].at = q[N].at
      BY <1>1, <2>1, <2>2
    <2>4. first \in 1 .. N /\ last \in 1 .. N /\ i \in 1 .. N /\ 1 \in 1 .. N /\ N \in 1 .. N /\ first # i /\ last # i
      BY <1>1, <1>7
    <2>5. CASE first > i
      <3>1. q[1].at <= q[i].at /\ q[i].at <= q[first].at  BY <1>1, <1>4, <2>4, <2>5
      <3>2. q[first].at = q[i].at  BY <1>1, <1>3, <2>3, <2>4, <3>1
      <3> QED BY <1>5, <3>2
    <2>6. CASE last < i
      <3>1. q[last].at <= q[i].at /\ q[i].at <= q[N].at  BY <1>1, <1>4, <2>4, <2>6
      <3>2. q[last].at = q[i].at  BY <1>1, <1>3, <2>3, <2>4, <3>1
      <3> QED BY <1>5, <3>2
    <2>7. CASE first < i /\ last > i
      <3> DEFINE A == {x \in S : x < i}
                 B == {x \in S : x > i}
      <3>1. A \subseteq Int /\ A # {} /\ B \subseteq Nat /\ B # {} /\ \A x \in A : x <= i
        BY <1>1, <2>4, <2>7
      <3>2. PICK a : a = Tools!Max(A)  OBVIOUS
      <3>3. PICK b : b = Tools!Min(B)  OBVIOUS
      <3>4. a \in A /\ \A x \in A : a >= x
        <4>1. i \in Int  BY <2>4
        <4> HIDE DEF A
        <4> QED BY <3>1, <3>2, <4>1, MaxIs
      <3>5. b \in B /\ \A x \in B : b <= x
        <4> HIDE DEF B
        <4> QED BY <3>1, <3>3, MinIs
      <3>6. a \in 1 .. N /\ b \in 1 .. N /\ a < i /\ i < b /\ a \in S /\ b \in S
        BY <1>1, <2>4, <3>4, <3>5
      <3>7. {j \in S : j > a} = B
        <4>1. \A j \in S : j \in 1 .. N /\ j # i  BY <1>1, <1>7
        <4>2. \A j \in S : j > a => j > i
          <5> SUFFICES ASSUME NEW j \in S, j > a, ~(j > i) PROVE FALSE
            OBVIOUS
          <5>1. j \in A  BY <2>4, <4>1
          <5> QED BY <3>4, <3>6, <4>1, <5>1
        <4>3. \A j \in S : j > i => j > a  BY <2>4, <3>6, <4>1
        <4> QED BY <4>2, <4>3
      <3>8. q[b].at - q[a].at \in Gaps(q, S)
        <4>1. b > a  BY <2>4, <3>6
        <4> HIDE DEF B
        <4> QED BY <3>3, <3>6, <3>7, <4>1 DEF Gaps
      <3>9. PICK x, y, z : x = q[a].at /\ y = q[i].at /\ z = q[b].at  OBVIOUS
      <3>10. x \in Nat /\ y \in Nat /\ z \in Nat /\ x <= y /\ y <= z /\ z - x <= gap
        <4>1. a <= i /\ i <= b  BY <2>4, <3>6
        <4> QED BY <1>1, <1>3, <1>4, <2>4, <3>6, <3>8, <3>9, <4>1
      <3>11. Tools!Distance(y, x) = y - x /\ Tools!Distance(y, z) = z - y
        <4>1. x \in Int /\ y \in Int /\ z \in Int /\ x <= y /\ y <= z  BY <3>10
        <4>2. Tools!Distance(y, x) = y - x  BY <4>1, DistanceIs
        <4>3. Tools!Distance(y, z) = z - y  BY <4>1, DistanceIs
        <4> QED BY <4>2, <4>3
      <3>12. 2 * (y - x) <= gap \/ 2 * (z - y) <= gap  BY <1>2, <3>10
      <3> QED BY <3>6, <3>9, <3>11, <3>12
    <2> QED BY <2>4, <2>5, <2>6, <2>7
  <1> QED BY <1>6, <1>7

LEMMA ImagesAreTold ==
    ASSUME Tools!ToolsAssumption, LinesInv,
           NEW there \in BOOLEAN, NEW w \in MCWindows, NEW max \in Samples
    PROVE  LET images == Tools!LocateImages(there, w, max)
               q      == Tools!Images(w)
           IN  /\ images.status = "no_data" => there /\ q = <<>>
               /\ images.gap # Tools!Missing =>
                     \A i \in DOMAIN q : \E j \in images.selected :
                        2 * Tools!Distance(q[i].at, q[j].at) <= images.gap
               /\ images.selected # {} => \E a \in Tools!Access(images) : images.selected \subseteq a.files
  <1> DEFINE images == Tools!LocateImages(there, w, max)
  <1>1. PICK q : q = Tools!Images(w)  OBVIOUS
  <1>2. PICK qq : qq = IF there THEN q ELSE <<>>  OBVIOUS
  <1>3. PICK S : S = Tools!Sample(qq, max)  OBVIOUS
  <1>4. PICK gap : gap = Tools!Max(Gaps(qq, S) \cup {Tools!Missing})  OBVIOUS
  <1>5. images = Tools!Told(there, Len(qq), max, S, gap)
    BY <1>1, <1>2, <1>3, <1>4 DEF Tools!LocateImages, Gaps
  <1>6. /\ images.status = (IF ~there THEN "source_unavailable" ELSE IF Len(qq) = 0 THEN "no_data" ELSE "found")
        /\ images.selected = S /\ images.gap = gap
    <2> HIDE DEF images
    <2> QED BY <1>5, ToldIs
  <1> HIDE DEF images
  <1>7. Sorted(q)  BY <1>1, ImagesAre
  <1>8. Sorted(qq)
    <2>1. Sorted(<<>>)  BY EmptyIsSeq DEF Sorted
    <2> QED BY <1>2, <1>7, <2>1
  <1>9. max \in Nat /\ max > 0  BY Constants
  <1>10. Samples1(qq, max, S)  BY <1>3, <1>8, <1>9, SampleIs
  <1>11. S \subseteq DOMAIN qq /\ Len(qq) \in Nat /\ DOMAIN qq = 1 .. Len(qq)  BY <1>10 DEF Samples1
  <1>12. /\ Gaps(qq, S) \subseteq Nat
         /\ \A x \in Gaps(qq, S) : x <= gap
         /\ gap # Tools!Missing => gap \in Gaps(qq, S)
    BY <1>4, <1>8, <1>11, GapsAre
  <1>13. ~there => S = {} /\ gap = Tools!Missing
    <2> SUFFICES ASSUME ~there PROVE S = {} /\ gap = Tools!Missing
      OBVIOUS
    <2>1. S = {}  BY <1>2, <1>11, EmptyIsSeq
    <2>2. Gaps(qq, S) = {}  BY <2>1 DEF Gaps
    <2> QED BY <1>12, <2>1, <2>2
  <1>14. images.status = "no_data" => there /\ q = <<>>
    <2> SUFFICES ASSUME images.status = "no_data" PROVE there /\ q = <<>>
      OBVIOUS
    <2>1. there /\ Len(qq) = 0  BY <1>6
    <2>2. qq = q /\ q = [k \in 1 .. Len(q) |-> q[k]]  BY <1>2, <1>7, <2>1, SeqFacts DEF Sorted
    <2> QED BY <2>1, <2>2
  <1>15. ASSUME images.gap # Tools!Missing, NEW i \in DOMAIN q
         PROVE  \E j \in images.selected : 2 * Tools!Distance(q[i].at, q[j].at) <= images.gap
    <2>1. there /\ qq = q  BY <1>2, <1>6, <1>13, <1>15
    <2>2. gap \in Gaps(q, S)  BY <1>6, <1>12, <1>15, <2>1
    <2>3. \E j \in S : 2 * Tools!Distance(q[i].at, q[j].at) <= gap
      BY <1>7, <1>9, <1>10, <1>12, <2>1, <2>2, NoneIsFar
    <2> QED BY <1>6, <2>3
  <1>16. images.selected # {} => \E a \in Tools!Access(images) : images.selected \subseteq a.files
    <2> SUFFICES ASSUME images.selected # {}
                 PROVE  \E a \in Tools!Access(images) : images.selected \subseteq a.files
      OBVIOUS
    <2>1. there  BY <1>6, <1>13
    <2>2. Len(qq) # 0  BY <1>6, <1>11
    <2>3. images.status = "found"  BY <1>6, <2>1, <2>2
    <2> QED BY <2>3, AccessIs
  <1> QED BY <1>1, <1>14, <1>15, <1>16 DEF images

LEMMA LocatorIsTruthful ==
    ASSUME Tools!ToolsAssumption, LinesInv
    PROVE  Tools!LocatorTruthful
  <1> SUFFICES ASSUME NEW there \in BOOLEAN, NEW w \in MCWindows, NEW max \in Samples
               PROVE  LET logs     == Tools!LocateLogs(there, w, max)
                          images   == Tools!LocateImages(there, w, max)
                          q        == Tools!Images(w)
                          lines(i) == {l \in Tools!ToSet(files[i].lines) : Tools!In(l.at, w)}
                          left     == UNION {lines(i) : i \in DOMAIN files \ logs.selected}
                          kept     == UNION {lines(i) : i \in logs.selected}
                      IN  /\ logs.status = "no_data" => there /\ left = {}
                          /\ logs.status = "found" /\ left # {} =>
                                logs.truncated /\ \A l \in left, k \in kept : k.at <= l.at
                          /\ images.status = "no_data" => there /\ q = <<>>
                          /\ images.gap # Tools!Missing =>
                                \A i \in DOMAIN q : \E j \in images.selected :
                                   2 * Tools!Distance(q[i].at, q[j].at) <= images.gap
                          /\ \A t \in {logs, images} :
                                t.selected # {} => \E a \in Tools!Access(t) : t.selected \subseteq a.files
    BY DEF Tools!LocatorTruthful
  <1> DEFINE logs     == Tools!LocateLogs(there, w, max)
             images   == Tools!LocateImages(there, w, max)
             q        == Tools!Images(w)
             lines(i) == {l \in Tools!ToSet(files[i].lines) : Tools!In(l.at, w)}
             left     == UNION {lines(i) : i \in DOMAIN files \ logs.selected}
             kept     == UNION {lines(i) : i \in logs.selected}
  <1>1. /\ logs.status = "no_data" => there /\ left = {}
        /\ logs.status = "found" /\ left # {} =>
              logs.truncated /\ \A l \in left, k \in kept : k.at <= l.at
        /\ logs.selected # {} => \E a \in Tools!Access(logs) : logs.selected \subseteq a.files
    BY LogsAreTold
  <1>2. /\ images.status = "no_data" => there /\ q = <<>>
        /\ images.gap # Tools!Missing =>
              \A i \in DOMAIN q : \E j \in images.selected :
                 2 * Tools!Distance(q[i].at, q[j].at) <= images.gap
        /\ images.selected # {} => \E a \in Tools!Access(images) : images.selected \subseteq a.files
    BY ImagesAreTold
  <1> HIDE DEF logs, images, q, left, kept
  <1> QED BY <1>1, <1>2 DEF logs, images, q, left, kept

-----------------------------------------------------------------------------
(* What log_context reads.                                                   *)

LEMMA ContextsAre ==
    ASSUME Tools!ToolsAssumption, NEW q \in MCContexts
    PROVE  q.before \in Nat /\ q.after \in Nat /\ q.max \in Nat /\ q.max > 0 /\ q.size \in Nat
  BY DEF Tools!ToolsAssumption

Places2 == {s \in SUBSET (Nat \X Nat) : IsFiniteSet(s)}
Scans == [lines : Places2, after : Int, truncated : BOOLEAN]

\* The lines of b are those of a and more, at most as many as there is room for.
More(a, b) == b.lines \in Places2 /\ a.lines \subseteq b.lines

LEMMA MoreIs ==
    ASSUME NEW a \in Places2, NEW b \in Places2, a \subseteq b
    PROVE  Cardinality(a) \in Nat /\ Cardinality(b) \in Nat /\ Cardinality(a) <= Cardinality(b)
  BY FS_Subset, FS_CardinalityType DEF Places2

LEMMA PicksAre ==
    ASSUME NEW r \in Scans, NEW i \in Nat, NEW q, q.max \in Nat,
           NEW ns, IsSeq(ns), \A k \in DOMAIN ns : ns[k] \in Nat
    PROVE  LET p == Tools!Picks(r, i, ns, q)
           IN  /\ p \in Scans /\ r.lines \subseteq p.lines
               /\ p.after = r.after /\ p.truncated = r.truncated
               /\ Len(ns) = 1 /\ Cardinality(r.lines) < q.max => <<i, ns[1]>> \in p.lines
  <1> DEFINE N == Len(ns)
             add(k, s) == IF Cardinality(s) < q.max THEN s \cup {<<i, ns[k]>>} ELSE s
             G == [x \in (1 .. N) \X Places2 |-> add(x[1], x[2])]
             Step(g) == [k \in 0 .. N |->
                            IF k = 0 THEN r.lines
                            ELSE IF Tools!Cardinality(g[k - 1]) < q.max THEN g[k - 1] \cup {<<i, ns[k]>>}
                            ELSE g[k - 1]]
  <1>1. N \in Nat /\ DOMAIN ns = 1 .. N  BY SeqFacts
  <1>2. r.lines \in Places2  BY DEF Scans
  <1>3. \A k \in 1 .. N : \A s \in Places2 : add(k, s) \in Places2 /\ s \subseteq add(k, s)
    <2> SUFFICES ASSUME NEW k \in 1 .. N, NEW s \in Places2
                 PROVE  add(k, s) \in Places2 /\ s \subseteq add(k, s)
      OBVIOUS
    <2>1. <<i, ns[k]>> \in Nat \X Nat  BY <1>1
    <2>2. s \in SUBSET (Nat \X Nat) /\ IsFiniteSet(s)  BY DEF Places2
    <2>3. IsFiniteSet(s \cup {<<i, ns[k]>>})  BY <2>2, FS_AddElement
    <2> QED BY <2>1, <2>2, <2>3 DEF Places2
  <1> HIDE DEF N
  <1>4. G \in [(1 .. N) \X Places2 -> Places2]
    <2>1. \A x \in (1 .. N) \X Places2 : x[1] \in 1 .. N /\ x[2] \in Places2  OBVIOUS
    <2> HIDE DEF add
    <2> QED BY <1>3, <2>1
  <1>5. \A k \in 1 .. N : \A s \in Places2 : G[<<k, s>>] = add(k, s)  OBVIOUS
  <1> HIDE DEF G
  <1>6. PICK f \in [0 .. N -> Places2] :
           f[0] = r.lines /\ \A k \in 1 .. N : f[k - 1] \in Places2 /\ f[k] = G[<<k, f[k - 1]>>]
    <2>1. \E f : Iterates(f, Places2, r.lines, N, G)  BY <1>1, <1>2, <1>4, Iterated
    <2>2. \A k \in 1 .. N : k - 1 \in 0 .. N  BY <1>1
    <2> QED BY <2>1, <2>2 DEF Iterates
  <1>7. \A k \in 1 .. N : f[k] = add(k, f[k - 1])  BY <1>5, <1>6
  <1>8. f = Step(f)
    <2>1. \A k \in 0 .. N : k # 0 => k \in 1 .. N  BY <1>1
    <2>2. \A k \in 1 .. N : f[k] = IF Tools!Cardinality(f[k - 1]) < q.max
                                   THEN f[k - 1] \cup {<<i, ns[k]>>} ELSE f[k - 1]
      BY <1>7, SameCardinality
    <2> QED BY <1>6, <2>1, <2>2
  <1> DEFINE m == CHOOSE g : g = Step(g)
  <1>9. m = Step(m)  BY <1>8, Zenon
  <1>10. Tools!Picks(r, i, ns, q) = [r EXCEPT !.lines = m[N]]  BY Zenon DEF Tools!Picks, N
  <1> HIDE DEF m
  <1>11. m[0] = r.lines /\ \A k \in 1 .. N : m[k] = add(k, m[k - 1])
    <2>1. 0 \in 0 .. N /\ \A k \in 1 .. N : k \in 0 .. N /\ k # 0  BY <1>1
    <2> QED BY <1>9, <2>1, SameCardinality
  <1> DEFINE T == {k \in 0 .. N : m[k] \in Places2 /\ r.lines \subseteq m[k]}
  <1>12. 0 \in T  BY <1>1, <1>2, <1>11
  <1>13. ASSUME NEW k \in 0 .. N, k \in T, k < N
         PROVE  k + 1 \in T
    <2>1. k + 1 \in 1 .. N /\ k + 1 \in 0 .. N /\ (k + 1) - 1 = k  BY <1>1, <1>13
    <2>2. m[k] \in Places2 /\ r.lines \subseteq m[k]  BY <1>13
    <2>3. m[k + 1] = add(k + 1, m[k])  BY <1>11, <2>1
    <2>4. add(k + 1, m[k]) \in Places2 /\ m[k] \subseteq add(k + 1, m[k])  BY <1>3, <2>1, <2>2
    <2> HIDE DEF add
    <2> QED BY <2>1, <2>2, <2>3, <2>4
  <1> HIDE DEF T
  <1>14. \A k \in 0 .. N : k \in T  BY <1>1, <1>12, <1>13, Induct
  <1>15. m[N] \in Places2 /\ r.lines \subseteq m[N]
    <2>1. N \in 0 .. N  BY <1>1
    <2> QED BY <1>14, <2>1 DEF T
  <1>16. N = 1 /\ Cardinality(r.lines) < q.max => <<i, ns[1]>> \in m[N]
    <2> SUFFICES ASSUME N = 1, Cardinality(r.lines) < q.max PROVE <<i, ns[1]>> \in m[1]
      OBVIOUS
    <2>1. 1 \in 1 .. N /\ 1 - 1 = 0  BY <1>1
    <2>2. m[1] = add(1, m[0])  BY <1>11, <2>1
    <2> QED BY <1>11, <2>2
  <1>17. PICK p : p = Tools!Picks(r, i, ns, q)  OBVIOUS
  <1>18. p = [lines |-> m[N], after |-> r.after, truncated |-> r.truncated]
    BY <1>10, <1>17 DEF Scans
  <1>19. p.lines = m[N] /\ p.after = r.after /\ p.truncated = r.truncated  BY <1>18
  <1>20. p \in Scans  BY <1>15, <1>18 DEF Scans
  <1> QED BY <1>15, <1>16, <1>17, <1>19, <1>20 DEF N

LEMMA BackIs ==
    ASSUME NEW n \in Nat, n > 0, NEW k \in Nat
    PROVE  IsSeq(Tools!Back(n, k)) /\ \A j \in DOMAIN Tools!Back(n, k) : Tools!Back(n, k)[j] \in Nat
  <1> DEFINE z == Tools!Min({k, n - 1})
  <1>1. z \in Nat /\ z <= n - 1
    <2>1. {k, n - 1} \subseteq Nat /\ {k, n - 1} # {} /\ n - 1 \in {k, n - 1}  OBVIOUS
    <2>2. PICK s : s = {k, n - 1}  OBVIOUS
    <2>3. Tools!Min(s) \in s /\ \A x \in s : Tools!Min(s) <= x  BY <2>1, <2>2, MinIs
    <2> QED BY <2>1, <2>2, <2>3
  <1>2. Tools!Back(n, k) = [j \in 1 .. z |-> n - j]  BY DEF Tools!Back
  <1> HIDE DEF z
  <1>3. PICK b : b = [j \in 1 .. z |-> n - j]  OBVIOUS
  <1>4. b = [j \in 1 .. z |-> b[j]]  BY <1>3
  <1>5. IsSeq(b) /\ DOMAIN b = 1 .. z  BY <1>1, <1>4, BuiltIsSeq
  <1>6. \A j \in 1 .. z : b[j] = n - j /\ n - j \in Nat  BY <1>1, <1>3
  <1> QED BY <1>2, <1>3, <1>5, <1>6

LEMMA OneIs ==
    ASSUME NEW n
    PROVE  IsSeq(<<n>>) /\ Len(<<n>>) = 1 /\ DOMAIN <<n>> = 1 .. 1 /\ <<n>>[1] = n
  <1>1. <<n>> = [i \in 1 .. 1 |-> <<n>>[i]]  OBVIOUS
  <1>2. PICK q : q = <<n>>  OBVIOUS
  <1>3. q = [i \in 1 .. 1 |-> q[i]]  BY <1>1, <1>2
  <1>4. IsSeq(q) /\ Len(q) = 1 /\ DOMAIN q = 1 .. 1  BY <1>3, BuiltIsSeq
  <1>5. q[1] = n  BY <1>2
  <1> QED BY <1>2, <1>4, <1>5

\* One line: an anchor is shown unless the output is said to be cut.
LEMMA ReadLineIs ==
    ASSUME NEW r \in Scans, NEW i \in Nat, NEW n \in Nat, n > 0,
           NEW q, q.before \in Nat, q.after \in Nat, q.max \in Nat
    PROVE  LET s == Tools!ReadLine(r, i, n, q)
           IN  /\ s \in Scans /\ r.lines \subseteq s.lines
               /\ ~s.truncated => ~r.truncated
               /\ files[i].lines[n].kind = "finish" /\ ~s.truncated => <<i, n>> \in s.lines
  <1> DEFINE anchor == files[i].lines[n].kind = "finish"
             p == Tools!Picks(r, i, <<n>>, q)
             b == Tools!Picks(p, i, Tools!Back(n, q.before), q)
             read == CASE anchor -> [b EXCEPT !.after = q.after]
                       [] ~anchor /\ r.after > 0 -> [p EXCEPT !.after = @ - 1]
                       [] OTHER -> r
             s == Tools!ReadLine(r, i, n, q)
  <1>1. s = IF Cardinality(read.lines) >= q.max THEN [read EXCEPT !.truncated = TRUE] ELSE read
    <2>1. s = IF Tools!Full0(read, q) THEN [read EXCEPT !.truncated = TRUE] ELSE read
      BY DEF Tools!ReadLine
    <2> HIDE DEF read, s
    <2>2. Tools!Full0(read, q) <=> Cardinality(read.lines) >= q.max
      BY SameCardinality DEF Tools!Full0
    <2> QED BY <2>1, <2>2
  <1>2. /\ p \in Scans /\ r.lines \subseteq p.lines /\ p.after = r.after /\ p.truncated = r.truncated
        /\ Cardinality(r.lines) < q.max => <<i, n>> \in p.lines
    <2>1. PICK o : o = <<n>>  OBVIOUS
    <2>2. IsSeq(o) /\ Len(o) = 1 /\ o[1] = n /\ \A k \in DOMAIN o : o[k] \in Nat
      <3>1. IsSeq(o) /\ Len(o) = 1 /\ DOMAIN o = 1 .. 1 /\ o[1] = n  BY <2>1, OneIs
      <3>2. \A k \in 1 .. 1 : k = 1  OBVIOUS
      <3> QED BY <3>1, <3>2
    <2>3. PICK pp : pp = Tools!Picks(r, i, o, q)  OBVIOUS
    <2>4. /\ pp \in Scans /\ r.lines \subseteq pp.lines /\ pp.after = r.after /\ pp.truncated = r.truncated
          /\ Cardinality(r.lines) < q.max => <<i, n>> \in pp.lines
      BY <2>2, <2>3, PicksAre
    <2> QED BY <2>1, <2>3, <2>4
  <1> HIDE DEF p
  <1>3. b \in Scans /\ p.lines \subseteq b.lines /\ b.truncated = p.truncated
    <2>1. PICK o : o = Tools!Back(n, q.before)  OBVIOUS
    <2>2. IsSeq(o) /\ \A k \in DOMAIN o : o[k] \in Nat  BY <2>1, BackIs
    <2>3. PICK bb : bb = Tools!Picks(p, i, o, q)  OBVIOUS
    <2>4. bb \in Scans /\ p.lines \subseteq bb.lines /\ bb.truncated = p.truncated
      <3>1. PICK pp : pp = p  OBVIOUS
      <3>2. pp \in Scans /\ bb = Tools!Picks(pp, i, o, q)  BY <1>2, <2>3, <3>1
      <3>3. /\ bb \in Scans /\ pp.lines \subseteq bb.lines
            /\ bb.after = pp.after /\ bb.truncated = pp.truncated
            /\ Len(o) = 1 /\ Cardinality(pp.lines) < q.max => <<i, o[1]>> \in bb.lines
        BY <2>2, <3>2, PicksAre
      <3> QED BY <3>1, <3>3
    <2> QED BY <2>1, <2>3, <2>4
  <1> HIDE DEF b
  <1>4. /\ read \in Scans /\ r.lines \subseteq read.lines /\ read.truncated = r.truncated
        /\ anchor /\ Cardinality(r.lines) < q.max => <<i, n>> \in read.lines
    <2>1. CASE anchor
      <3>1. read = [b EXCEPT !.after = q.after]  BY <2>1
      <3>2. read = [lines |-> b.lines, after |-> q.after, truncated |-> b.truncated]  BY <1>3, <3>1 DEF Scans
      <3>3. read.lines = b.lines /\ read.truncated = b.truncated  BY <3>2
      <3>4. read \in Scans  BY <1>3, <3>2 DEF Scans
      <3> QED BY <1>2, <1>3, <3>3, <3>4
    <2>2. CASE ~anchor /\ r.after > 0
      <3>1. read = [p EXCEPT !.after = @ - 1]  BY <2>2
      <3>2. read = [lines |-> p.lines, after |-> p.after - 1, truncated |-> p.truncated]  BY <1>2, <3>1 DEF Scans
      <3>3. read.lines = p.lines /\ read.truncated = p.truncated  BY <3>2
      <3>4. read \in Scans  BY <1>2, <3>2 DEF Scans
      <3> QED BY <1>2, <2>2, <3>3, <3>4
    <2>3. CASE ~anchor /\ ~(r.after > 0)
      <3>1. read = r  BY <2>3
      <3> QED BY <2>3, <3>1
    <2> QED BY <2>1, <2>2, <2>3
  <1> HIDE DEF read, s
  <1>5. CASE Cardinality(read.lines) >= q.max
    <2>1. s = [lines |-> read.lines, after |-> read.after, truncated |-> TRUE]
      BY <1>1, <1>4, <1>5 DEF Scans
    <2>2. s.lines = read.lines /\ s.truncated  BY <2>1
    <2>3. s \in Scans  BY <1>4, <2>1 DEF Scans
    <2> QED BY <1>4, <2>2, <2>3 DEF s
  <1>6. CASE ~(Cardinality(read.lines) >= q.max)
    <2>1. s = read  BY <1>1, <1>6
    <2>2. Cardinality(r.lines) < q.max
      <3>1. r.lines \in Places2 /\ read.lines \in Places2  BY <1>4 DEF Scans
      <3>2. Cardinality(r.lines) \in Nat /\ Cardinality(read.lines) \in Nat
            /\ Cardinality(r.lines) <= Cardinality(read.lines)
        BY <1>4, <3>1, MoreIs
      <3> QED BY <1>6, <3>2
    <2> QED BY <1>4, <2>1, <2>2 DEF s
  <1> QED BY <1>5, <1>6

\* The anchors of the first n lines of file i.
AnchorsOf(i, n) == {<<i, k>> : k \in {m \in 1 .. n : files[i].lines[m].kind = "finish"}}

LEMMA ScannedFileIs ==
    ASSUME NEW r \in Scans, NEW i \in Nat, IsSeq(files[i].lines),
           NEW q, q.before \in Nat, q.after \in Nat, q.max \in Nat
    PROVE  LET s == Tools!ScannedFile(r, i, q)
           IN  /\ s \in Scans /\ r.lines \subseteq s.lines
               /\ ~s.truncated => ~r.truncated /\ AnchorsOf(i, Len(files[i].lines)) \subseteq s.lines
  <1> DEFINE N == Len(files[i].lines)
             next(n, s) == IF s.truncated THEN s ELSE Tools!ReadLine(s, i, n, q)
             first == [r EXCEPT !.after = 0]
             G == [x \in (1 .. N) \X Scans |-> next(x[1], x[2])]
             Step(g) == [n \in 0 .. N |->
                            IF n = 0 THEN first
                            ELSE IF g[n - 1].truncated THEN g[n - 1] ELSE Tools!ReadLine(g[n - 1], i, n, q)]
  <1>1. N \in Nat  BY SeqFacts
  <1>2. first \in Scans /\ first.lines = r.lines /\ first.truncated = r.truncated
    <2>1. first = [lines |-> r.lines, after |-> 0, truncated |-> r.truncated]  BY DEF Scans
    <2>2. first.lines = r.lines /\ first.truncated = r.truncated  BY <2>1
    <2> QED BY <2>1, <2>2 DEF Scans
  <1> HIDE DEF first, N
  <1>3. \A n \in 1 .. N : \A s \in Scans :
           /\ next(n, s) \in Scans /\ s.lines \subseteq next(n, s).lines
           /\ ~next(n, s).truncated => ~s.truncated
           /\ files[i].lines[n].kind = "finish" /\ ~next(n, s).truncated => <<i, n>> \in next(n, s).lines
    <2> SUFFICES ASSUME NEW n \in 1 .. N, NEW s \in Scans
                 PROVE  /\ next(n, s) \in Scans /\ s.lines \subseteq next(n, s).lines
                        /\ ~next(n, s).truncated => ~s.truncated
                        /\ files[i].lines[n].kind = "finish" /\ ~next(n, s).truncated
                              => <<i, n>> \in next(n, s).lines
      OBVIOUS
    <2>1. n \in Nat /\ n > 0  BY <1>1
    <2>2. CASE s.truncated  BY <2>2
    <2>3. CASE ~s.truncated
      <3>1. next(n, s) = Tools!ReadLine(s, i, n, q)  BY <2>3
      <3> QED BY <2>1, <3>1, ReadLineIs
    <2> QED BY <2>2, <2>3
  <1>4. G \in [(1 .. N) \X Scans -> Scans]
    <2>1. \A x \in (1 .. N) \X Scans : x[1] \in 1 .. N /\ x[2] \in Scans  OBVIOUS
    <2> HIDE DEF next
    <2> QED BY <1>3, <2>1
  <1>5. \A n \in 1 .. N : \A s \in Scans : G[<<n, s>>] = next(n, s)  OBVIOUS
  <1> HIDE DEF G
  <1>6. PICK f \in [0 .. N -> Scans] :
           f[0] = first /\ \A n \in 1 .. N : f[n - 1] \in Scans /\ f[n] = G[<<n, f[n - 1]>>]
    <2>1. \E f : Iterates(f, Scans, first, N, G)  BY <1>1, <1>2, <1>4, Iterated
    <2>2. \A n \in 1 .. N : n - 1 \in 0 .. N  BY <1>1
    <2> QED BY <2>1, <2>2 DEF Iterates
  <1>7. \A n \in 1 .. N : f[n] = IF f[n - 1].truncated THEN f[n - 1] ELSE Tools!ReadLine(f[n - 1], i, n, q)
    BY <1>5, <1>6
  <1>8. f = Step(f)
    <2>1. \A n \in 0 .. N : n # 0 => n \in 1 .. N  BY <1>1
    <2> QED BY <1>6, <1>7, <2>1
  <1> DEFINE m == CHOOSE g : g = Step(g)
  <1>9. m = Step(m)  BY <1>8, Zenon
  <1>10. Tools!ScannedFile(r, i, q) = m[N]  BY Zenon DEF Tools!ScannedFile, N, first
  <1> HIDE DEF m
  <1>11. m[0] = first /\ \A n \in 1 .. N : m[n] = next(n, m[n - 1])
    <2>1. 0 \in 0 .. N /\ \A n \in 1 .. N : n \in 0 .. N /\ n # 0  BY <1>1
    <2> QED BY <1>9, <2>1
  <1> HIDE DEF next
  <1> DEFINE T == {n \in 0 .. N : /\ m[n] \in Scans /\ r.lines \subseteq m[n].lines
                                  /\ ~m[n].truncated => ~r.truncated /\ AnchorsOf(i, n) \subseteq m[n].lines}
  <1>12. 0 \in T
    <2>1. AnchorsOf(i, 0) = {}  BY DEF AnchorsOf
    <2> QED BY <1>1, <1>2, <1>11, <2>1
  <1>13. ASSUME NEW n \in 0 .. N, n \in T, n < N
         PROVE  n + 1 \in T
    <2>1. n + 1 \in 1 .. N /\ n + 1 \in 0 .. N /\ (n + 1) - 1 = n  BY <1>1, <1>13
    <2>2. m[n] \in Scans /\ r.lines \subseteq m[n].lines
          /\ (~m[n].truncated => ~r.truncated /\ AnchorsOf(i, n) \subseteq m[n].lines)
      BY <1>13
    <2>3. PICK a, b, k : a = m[n] /\ b = m[n + 1] /\ k = n + 1  OBVIOUS
    <2>4. b = next(k, a)  BY <1>11, <2>1, <2>3
    <2>5. /\ b \in Scans /\ a.lines \subseteq b.lines /\ (~b.truncated => ~a.truncated)
          /\ files[i].lines[k].kind = "finish" /\ ~b.truncated => <<i, k>> \in b.lines
      BY <1>3, <2>1, <2>2, <2>3, <2>4
    <2>6. \A x \in AnchorsOf(i, k) : x \in AnchorsOf(i, n) \/ (files[i].lines[k].kind = "finish" /\ x = <<i, k>>)
      <3>1. \A y \in 1 .. k : y \in 1 .. n \/ y = k  BY <1>1, <2>1, <2>3
      <3> QED BY <3>1 DEF AnchorsOf
    <2>7. b \in Scans /\ r.lines \subseteq b.lines
          /\ (~b.truncated => ~r.truncated /\ AnchorsOf(i, k) \subseteq b.lines)
      BY <2>2, <2>3, <2>5, <2>6
    <2> QED BY <2>1, <2>3, <2>7
  <1> HIDE DEF T
  <1>14. \A n \in 0 .. N : n \in T  BY <1>1, <1>12, <1>13, Induct
  <1>15. N \in 0 .. N  BY <1>1
  <1> QED BY <1>10, <1>14, <1>15 DEF T, N

LEMMA ScannedIs ==
    ASSUME Tools!ToolsAssumption, FilesInv, NEW q \in MCContexts
    PROVE  LET s == Tools!Scanned(q)
           IN  s \in Scans /\ (~s.truncated => Tools!Anchors \subseteq s.lines)
  <1> DEFINE N == Len(files)
             first == [lines |-> {}, after |-> 0, truncated |-> FALSE]
             G == [x \in (1 .. N) \X Scans |-> Tools!ScannedFile(x[2], x[1], q)]
             Step(g) == [i \in 0 .. N |-> IF i = 0 THEN first ELSE Tools!ScannedFile(g[i - 1], i, q)]
  <1>1. N \in Nat /\ DOMAIN files = 1 .. N /\ \A i \in 1 .. N : IsSeq(files[i].lines)
    BY SeqFacts DEF FilesInv, IsFile
  <1>2. first \in Scans
    <2>1. {} \in Places2  BY FS_EmptySet DEF Places2
    <2> QED BY <2>1 DEF Scans
  <1>3. q.before \in Nat /\ q.after \in Nat /\ q.max \in Nat  BY ContextsAre
  <1> HIDE DEF first, N
  <1>4. \A i \in 1 .. N : \A r \in Scans :
           LET s == Tools!ScannedFile(r, i, q)
           IN  /\ s \in Scans /\ r.lines \subseteq s.lines
               /\ ~s.truncated => ~r.truncated /\ AnchorsOf(i, Len(files[i].lines)) \subseteq s.lines
    <2>1. \A i \in 1 .. N : i \in Nat  BY <1>1
    <2> QED BY <1>1, <1>3, <2>1, ScannedFileIs
  <1>5. G \in [(1 .. N) \X Scans -> Scans]
    <2>1. \A x \in (1 .. N) \X Scans : x[1] \in 1 .. N /\ x[2] \in Scans  OBVIOUS
    <2> QED BY <1>4, <2>1
  <1>6. \A i \in 1 .. N : \A r \in Scans : G[<<i, r>>] = Tools!ScannedFile(r, i, q)  OBVIOUS
  <1> HIDE DEF G
  <1>7. PICK f \in [0 .. N -> Scans] :
           f[0] = first /\ \A i \in 1 .. N : f[i - 1] \in Scans /\ f[i] = G[<<i, f[i - 1]>>]
    <2>1. \E f : Iterates(f, Scans, first, N, G)  BY <1>1, <1>2, <1>5, Iterated
    <2>2. \A n \in 1 .. N : n - 1 \in 0 .. N  BY <1>1
    <2> QED BY <2>1, <2>2 DEF Iterates
  <1>8. \A i \in 1 .. N : f[i] = Tools!ScannedFile(f[i - 1], i, q)  BY <1>6, <1>7
  <1>9. f = Step(f)
    <2>1. \A i \in 0 .. N : i # 0 => i \in 1 .. N  BY <1>1
    <2> QED BY <1>7, <1>8, <2>1
  <1> DEFINE m == CHOOSE g : g = Step(g)
  <1>10. m = Step(m)  BY <1>9, Zenon
  <1>11. Tools!Scanned(q) = m[N]  BY Zenon DEF Tools!Scanned, N, first
  <1> HIDE DEF m
  <1>12. m[0] = first /\ \A i \in 1 .. N : m[i] = Tools!ScannedFile(m[i - 1], i, q)
    <2>1. 0 \in 0 .. N /\ \A i \in 1 .. N : i \in 0 .. N /\ i # 0  BY <1>1
    <2> QED BY <1>10, <2>1
  <1> DEFINE T == {n \in 0 .. N : /\ m[n] \in Scans
                                  /\ ~m[n].truncated =>
                                        \A i \in 1 .. n : AnchorsOf(i, Len(files[i].lines)) \subseteq m[n].lines}
  <1>13. 0 \in T
    <2>1. \A i \in 1 .. 0 : FALSE  OBVIOUS
    <2> QED BY <1>1, <1>2, <1>12, <2>1
  <1>14. ASSUME NEW n \in 0 .. N, n \in T, n < N
         PROVE  n + 1 \in T
    <2>1. n + 1 \in 1 .. N /\ n + 1 \in 0 .. N /\ (n + 1) - 1 = n  BY <1>1, <1>14
    <2>2. PICK a, b, k : a = m[n] /\ b = m[n + 1] /\ k = n + 1  OBVIOUS
    <2>3. a \in Scans /\ (~a.truncated => \A i \in 1 .. n : AnchorsOf(i, Len(files[i].lines)) \subseteq a.lines)
      BY <1>14, <2>2
    <2>4. b = Tools!ScannedFile(a, k, q)  BY <1>12, <2>1, <2>2
    <2>5. /\ b \in Scans /\ a.lines \subseteq b.lines
          /\ ~b.truncated => ~a.truncated /\ AnchorsOf(k, Len(files[k].lines)) \subseteq b.lines
      BY <1>4, <2>1, <2>2, <2>3, <2>4
    <2>6. \A y \in 1 .. k : y \in 1 .. n \/ y = k  BY <1>1, <2>1, <2>2
    <2>7. ~b.truncated => \A i \in 1 .. k : AnchorsOf(i, Len(files[i].lines)) \subseteq b.lines
      BY <2>3, <2>5, <2>6
    <2> QED BY <2>1, <2>2, <2>5, <2>7
  <1> HIDE DEF T
  <1>15. \A n \in 0 .. N : n \in T  BY <1>1, <1>13, <1>14, Induct
  <1>16. N \in 0 .. N  BY <1>1
  <1>17. m[N] \in Scans /\ (~m[N].truncated => \A i \in 1 .. N : AnchorsOf(i, Len(files[i].lines)) \subseteq m[N].lines)
    BY <1>15, <1>16 DEF T
  <1>18. \A x \in Tools!Anchors : \E i \in 1 .. N : x \in AnchorsOf(i, Len(files[i].lines))
    <2>1. \A i \in 1 .. N : DOMAIN files[i].lines = 1 .. Len(files[i].lines)  BY <1>1, SeqFacts
    <2> QED BY <1>1, <2>1 DEF Tools!Anchors, AnchorsOf
  <1> QED BY <1>11, <1>17, <1>18

LEMMA OmissionsAreShown ==
    ASSUME Tools!ToolsAssumption, LinesInv
    PROVE  Tools!OmissionsShown
  <1> SUFFICES ASSUME NEW q \in MCContexts
               PROVE  LET r == Tools!Context(q) IN r.truncated \/ Tools!Anchors \subseteq r.lines
    BY DEF Tools!OmissionsShown
  <1>1. PICK s : s = Tools!Scanned(q)  OBVIOUS
  <1>2. ~s.truncated => Tools!Anchors \subseteq s.lines  BY <1>1, ScannedIs DEF LinesInv
  <1>3. PICK kept : kept = {l \in s.lines :
                              Tools!Cardinality({m \in s.lines : Tools!Before(m, l)}) < q.size}
    OBVIOUS
  <1>4. PICK r : r = [lines |-> kept, truncated |-> s.truncated \/ kept # s.lines]  OBVIOUS
  <1>5. Tools!Context(q) = r  BY <1>1, <1>3, <1>4 DEF Tools!Context
  <1>6. r.lines = kept /\ r.truncated = (s.truncated \/ kept # s.lines)  BY <1>4
  <1> QED BY <1>2, <1>5, <1>6

-----------------------------------------------------------------------------
(* What nipple_stats has read.                                               *)

IsLine(l) == /\ l.kind \in {"start", "frame", "finish"} /\ l.cow \in Nat /\ l.round \in Nat
             /\ l.img \in Nat /\ l.count \in Nat /\ l.at \in Nat

\* Maps from finitely many members of D.
Maps(D, R) == {f \in UNION {[S -> R] : S \in SUBSET D} : IsFiniteSet(DOMAIN f)}
Keys == Nat \X Nat
Results == Nat \cup {Tools!Missing}
Frames == [key : Keys, count : Results]
Cycles == [first : Nat, done : BOOLEAN, final : Results]
Readings == [epoch : Nat, last : Nat, active : Maps(Keys, Nat), frames : Maps(Nat, Frames),
             cycles : Maps(Keys, Cycles), orphans : Nat]

LEMMA MapIs ==
    ASSUME NEW D, NEW R, NEW f
    PROVE  f \in Maps(D, R) <=> /\ f = [x \in DOMAIN f |-> f[x]] /\ DOMAIN f \subseteq D
                                /\ IsFiniteSet(DOMAIN f) /\ \A x \in DOMAIN f : f[x] \in R
  <1>1. ASSUME f \in Maps(D, R)
        PROVE  /\ f = [x \in DOMAIN f |-> f[x]] /\ DOMAIN f \subseteq D
               /\ IsFiniteSet(DOMAIN f) /\ \A x \in DOMAIN f : f[x] \in R
    <2>1. PICK S \in SUBSET D : f \in [S -> R]  BY <1>1 DEF Maps
    <2> QED BY <1>1, <2>1 DEF Maps
  <1>2. ASSUME f = [x \in DOMAIN f |-> f[x]], DOMAIN f \subseteq D, IsFiniteSet(DOMAIN f),
               \A x \in DOMAIN f : f[x] \in R
        PROVE  f \in Maps(D, R)
    <2>1. f \in [DOMAIN f -> R]  BY <1>2
    <2> QED BY <1>2, <2>1 DEF Maps
  <1> QED BY <1>1, <1>2

LEMMA EmptyIsMap == \A D, R : <<>> \in Maps(D, R)
  <1> TAKE D, R
  <1>1. DOMAIN <<>> = {} /\ <<>> = [x \in {} |-> <<>>[x]]  OBVIOUS
  <1>2. PICK f : f = <<>>  OBVIOUS
  <1>3. DOMAIN f = {} /\ f = [x \in DOMAIN f |-> f[x]] /\ IsFiniteSet(DOMAIN f)
    BY <1>1, <1>2, FS_EmptySet
  <1>4. DOMAIN f \subseteq D /\ \A x \in DOMAIN f : f[x] \in R  BY <1>3
  <1>5. f \in Maps(D, R)  BY <1>3, <1>4, MapIs
  <1> QED BY <1>2, <1>5

LEMMA PutIs ==
    ASSUME NEW D, NEW R, NEW f \in Maps(D, R), NEW k \in D, NEW v \in R
    PROVE  /\ Tools!Put(f, k, v) \in Maps(D, R)
           /\ DOMAIN Tools!Put(f, k, v) = DOMAIN f \cup {k}
           /\ Tools!Put(f, k, v)[k] = v
           /\ \A x \in DOMAIN f : x # k => Tools!Put(f, k, v)[x] = f[x]
  <1>1. PICK g : g = Tools!Put(f, k, v)  OBVIOUS
  <1>2. g = [x \in DOMAIN f \cup {k} |-> IF x = k THEN v ELSE f[x]]  BY <1>1 DEF Tools!Put
  <1>3. /\ DOMAIN f \subseteq D /\ IsFiniteSet(DOMAIN f) /\ \A x \in DOMAIN f : f[x] \in R
    BY MapIs
  <1>4. DOMAIN g = DOMAIN f \cup {k} /\ g[k] = v /\ \A x \in DOMAIN f : x # k => g[x] = f[x]
    BY <1>2
  <1>5. IsFiniteSet(DOMAIN g)  BY <1>3, <1>4, FS_AddElement
  <1>6. g = [x \in DOMAIN g |-> g[x]]  BY <1>2
  <1>7. \A x \in DOMAIN g : g[x] \in R  BY <1>3, <1>4
  <1>8. g \in Maps(D, R)  BY <1>3, <1>4, <1>5, <1>6, <1>7, MapIs
  <1> QED BY <1>1, <1>4, <1>8

LEMMA ReadingIs ==
    ASSUME NEW r \in Readings
    PROVE  /\ r.epoch \in Nat /\ r.last \in Nat /\ r.active \in Maps(Keys, Nat)
           /\ r.frames \in Maps(Nat, Frames) /\ r.cycles \in Maps(Keys, Cycles) /\ r.orphans \in Nat
           /\ r = [epoch |-> r.epoch, last |-> r.last, active |-> r.active, frames |-> r.frames,
                   cycles |-> r.cycles, orphans |-> r.orphans]
  BY DEF Readings

LEMMA ReadingOf ==
    ASSUME NEW e \in Nat, NEW l \in Nat, NEW a \in Maps(Keys, Nat), NEW f \in Maps(Nat, Frames),
           NEW c \in Maps(Keys, Cycles), NEW o \in Nat, NEW s,
           s = [epoch |-> e, last |-> l, active |-> a, frames |-> f, cycles |-> c, orphans |-> o]
    PROVE  /\ s \in Readings /\ s.epoch = e /\ s.last = l /\ s.active = a /\ s.frames = f
           /\ s.cycles = c /\ s.orphans = o
  BY DEF Readings

LEMMA UnreadIs ==
    /\ Tools!Unread \in Readings /\ Tools!Unread.epoch = 0 /\ Tools!Unread.last = 0
    /\ Tools!Unread.active = <<>> /\ Tools!Unread.frames = <<>> /\ Tools!Unread.cycles = <<>>
  <1>1. PICK s : s = Tools!Unread  OBVIOUS
  <1>2. PICK e : e = <<>>  OBVIOUS
  <1>3. s = [epoch |-> 0, last |-> 0, active |-> e, frames |-> e, cycles |-> e, orphans |-> 0]
    BY <1>1, <1>2 DEF Tools!Unread
  <1>4. e \in Maps(Keys, Nat) /\ e \in Maps(Nat, Frames) /\ e \in Maps(Keys, Cycles)
    BY <1>2, EmptyIsMap
  <1> QED BY <1>1, <1>2, <1>3, <1>4, ReadingOf

LEMMA ReadStartIs ==
    ASSUME NEW r \in Readings, NEW l, IsLine(l), NEW s, s = Tools!ReadStart(r, l)
    PROVE  LET epoch == Tools!Epoch(r, l)
               key   == <<epoch, l.cow>>
           IN  /\ s \in Readings /\ s.epoch = epoch /\ epoch \in Nat /\ key \in Keys
               /\ s.last = l.cow /\ s.orphans = r.orphans
               /\ s.active = Tools!Put(IF epoch = r.epoch THEN r.active ELSE <<>>, <<l.cow, l.round>>, l.img)
               /\ s.frames = Tools!Put(r.frames, l.img, [key |-> key, count |-> Tools!Missing])
               /\ s.cycles = IF key \in DOMAIN r.cycles THEN r.cycles
                             ELSE Tools!Put(r.cycles, key, [first |-> l.at, done |-> FALSE, final |-> Tools!Missing])
  <1>1. PICK epoch, key : epoch = Tools!Epoch(r, l) /\ key = <<epoch, l.cow>>  OBVIOUS
  <1>2. PICK a, f, c, n, y :
           /\ a = Tools!Put(IF epoch = r.epoch THEN r.active ELSE <<>>, <<l.cow, l.round>>, l.img)
           /\ n = [key |-> key, count |-> Tools!Missing]
           /\ f = Tools!Put(r.frames, l.img, n)
           /\ y = [first |-> l.at, done |-> FALSE, final |-> Tools!Missing]
           /\ c = IF key \in DOMAIN r.cycles THEN r.cycles ELSE Tools!Put(r.cycles, key, y)
    OBVIOUS
  <1>3. s = [epoch |-> epoch, last |-> l.cow, active |-> a, frames |-> f, cycles |-> c,
             orphans |-> r.orphans]
    <2>1. s = [r EXCEPT !.epoch = epoch, !.last = l.cow, !.active = a, !.frames = f, !.cycles = c]
      BY <1>1, <1>2 DEF Tools!ReadStart
    <2>2. PICK b1, b2, b3, b4, b5, b6 :
            r = [epoch |-> b1, last |-> b2, active |-> b3, frames |-> b4, cycles |-> b5, orphans |-> b6]
            /\ r.orphans = b6
      BY ReadingIs
    <2> QED BY <2>1, <2>2
  <1>4. /\ r.epoch \in Nat /\ r.last \in Nat /\ r.active \in Maps(Keys, Nat)
        /\ r.frames \in Maps(Nat, Frames) /\ r.cycles \in Maps(Keys, Cycles) /\ r.orphans \in Nat
    BY ReadingIs
  <1>5. l.cow \in Nat /\ l.round \in Nat /\ l.img \in Nat /\ l.at \in Nat  BY DEF IsLine
  <1>6. epoch \in Nat  BY <1>1, <1>4 DEF Tools!Epoch
  <1>7. key \in Keys /\ <<l.cow, l.round>> \in Keys  BY <1>1, <1>5, <1>6 DEF Keys
  <1>8. a \in Maps(Keys, Nat)
    <2>1. (IF epoch = r.epoch THEN r.active ELSE <<>>) \in Maps(Keys, Nat)  BY <1>4, EmptyIsMap
    <2> QED BY <1>2, <1>5, <1>7, <2>1, PutIs
  <1>9. n \in Frames /\ y \in Cycles  BY <1>2, <1>5, <1>7 DEF Frames, Cycles, Results
  <1>10. f \in Maps(Nat, Frames)  BY <1>2, <1>4, <1>5, <1>9, PutIs
  <1>11. c \in Maps(Keys, Cycles)  BY <1>2, <1>4, <1>7, <1>9, PutIs
  <1>12. s \in Readings /\ s.epoch = epoch /\ s.last = l.cow /\ s.active = a /\ s.frames = f
         /\ s.cycles = c /\ s.orphans = r.orphans
    BY <1>3, <1>4, <1>5, <1>6, <1>8, <1>10, <1>11, ReadingOf
  <1> QED BY <1>1, <1>2, <1>6, <1>7, <1>12

\* f with another value at x.
Changed(f, g, x, v) == /\ DOMAIN g = DOMAIN f /\ g[x] = v /\ \A y \in DOMAIN f : y # x => g[y] = f[y]

LEMMA ReadFrameIs ==
    ASSUME NEW r \in Readings, NEW l, IsLine(l), NEW s, s = Tools!ReadFrame(r, l)
    PROVE  LET pair == <<l.cow, l.round>>
               x    == r.active[pair]
           IN  /\ s \in Readings /\ s.epoch = r.epoch /\ s.last = r.last /\ s.active = r.active
               /\ s.cycles = r.cycles /\ s.orphans = r.orphans
               /\ pair \in DOMAIN r.active /\ x \in DOMAIN r.frames =>
                     Changed(r.frames, s.frames, x, [key |-> r.frames[x].key, count |-> l.count])
               /\ ~(pair \in DOMAIN r.active /\ x \in DOMAIN r.frames) => s.frames = r.frames
  <1>1. PICK pair, x : pair = <<l.cow, l.round>> /\ x = r.active[pair]  OBVIOUS
  <1>2. /\ r.epoch \in Nat /\ r.last \in Nat /\ r.active \in Maps(Keys, Nat)
        /\ r.frames \in Maps(Nat, Frames) /\ r.cycles \in Maps(Keys, Cycles) /\ r.orphans \in Nat
        /\ r = [epoch |-> r.epoch, last |-> r.last, active |-> r.active, frames |-> r.frames,
                cycles |-> r.cycles, orphans |-> r.orphans]
    BY ReadingIs
  <1>3. CASE pair \notin DOMAIN r.active
    <2>1. s = r  BY <1>1, <1>3 DEF Tools!ReadFrame
    <2> QED BY <1>1, <1>3, <2>1
  <1>4. CASE pair \in DOMAIN r.active
    <2>1. PICK f, g : f = r.frames /\ g = [f EXCEPT ![x].count = l.count]  OBVIOUS
    <2>2. s = [r EXCEPT !.frames[x].count = l.count]  BY <1>1, <1>4 DEF Tools!ReadFrame
    <2>3. s = [epoch |-> r.epoch, last |-> r.last, active |-> r.active, frames |-> g,
               cycles |-> r.cycles, orphans |-> r.orphans]
      <3>1. PICK b1, b2, b3, b5, b6 :
              r = [epoch |-> b1, last |-> b2, active |-> b3, frames |-> f, cycles |-> b5, orphans |-> b6]
              /\ r.epoch = b1 /\ r.last = b2 /\ r.active = b3 /\ r.cycles = b5 /\ r.orphans = b6
        BY <1>2, <2>1
      <3>2. s = [r EXCEPT !.frames = g]  BY <2>1, <2>2
      <3> QED BY <3>1, <3>2
    <2>4. f = [z \in DOMAIN f |-> f[z]] /\ DOMAIN f \subseteq Nat /\ IsFiniteSet(DOMAIN f)
          /\ \A z \in DOMAIN f : f[z] \in Frames
      BY <1>2, <2>1, MapIs
    <2>5. CASE x \in DOMAIN f
      <3>1. PICK k, n : f[x] = [key |-> k, count |-> n] /\ k \in Keys  BY <2>4, <2>5 DEF Frames
      <3>2. PICK v : v = [key |-> k, count |-> l.count]  OBVIOUS
      <3>3. [f[x] EXCEPT !.count = l.count] = v /\ f[x].key = k  BY <3>1, <3>2
      <3>4. g = [f EXCEPT ![x] = v]  BY <2>1, <3>3
      <3>5. Changed(f, g, x, v) /\ g = [z \in DOMAIN f |-> g[z]]  BY <2>4, <2>5, <3>4 DEF Changed
      <3>6. v \in Frames  BY <3>1, <3>2 DEF IsLine, Frames, Results
      <3>7. g \in Maps(Nat, Frames)
        <4>1. DOMAIN g = DOMAIN f /\ g = [z \in DOMAIN g |-> g[z]] /\ \A z \in DOMAIN g : g[z] \in Frames
          BY <2>4, <3>5, <3>6 DEF Changed
        <4> QED BY <2>4, <4>1, MapIs
      <3>8. /\ s \in Readings /\ s.epoch = r.epoch /\ s.last = r.last /\ s.active = r.active
            /\ s.frames = g /\ s.cycles = r.cycles /\ s.orphans = r.orphans
        BY <1>2, <2>3, <3>7, ReadingOf
      <3> QED BY <1>1, <1>4, <2>1, <2>5, <3>2, <3>3, <3>5, <3>8
    <2>6. CASE x \notin DOMAIN f
      <3>1. g = f  BY <2>1, <2>4, <2>6
      <3>2. s = r  BY <1>2, <2>1, <2>3, <3>1
      <3> QED BY <1>1, <2>1, <2>6, <3>2
    <2> QED BY <2>5, <2>6
  <1> QED BY <1>3, <1>4

LEMMA ReadFinishIs ==
    ASSUME NEW r \in Readings, NEW l, IsLine(l), NEW s, s = Tools!ReadFinish(r, l)
    PROVE  LET x == l.img
               k == r.frames[x].key
           IN  /\ s \in Readings /\ s.epoch = r.epoch /\ s.last = r.last /\ s.active = r.active
               /\ s.frames = r.frames
               /\ x \in DOMAIN r.frames /\ k \in DOMAIN r.cycles =>
                     Changed(r.cycles, s.cycles, k, [first |-> r.cycles[k].first, done |-> TRUE,
                                                     final |-> r.frames[x].count])
               /\ ~(x \in DOMAIN r.frames /\ k \in DOMAIN r.cycles) => s.cycles = r.cycles
  <1>1. PICK x, k : x = l.img /\ k = r.frames[x].key  OBVIOUS
  <1>2. /\ r.epoch \in Nat /\ r.last \in Nat /\ r.active \in Maps(Keys, Nat)
        /\ r.frames \in Maps(Nat, Frames) /\ r.cycles \in Maps(Keys, Cycles) /\ r.orphans \in Nat
        /\ r = [epoch |-> r.epoch, last |-> r.last, active |-> r.active, frames |-> r.frames,
                cycles |-> r.cycles, orphans |-> r.orphans]
    BY ReadingIs
  <1>3. CASE x \notin DOMAIN r.frames
    <2>1. s = [r EXCEPT !.orphans = @ + 1]  BY <1>1, <1>3 DEF Tools!ReadFinish
    <2>2. PICK o : o = r.orphans + 1  OBVIOUS
    <2>3. s = [epoch |-> r.epoch, last |-> r.last, active |-> r.active, frames |-> r.frames,
               cycles |-> r.cycles, orphans |-> o] /\ o \in Nat
      BY <1>2, <2>1, <2>2
    <2>4. /\ s \in Readings /\ s.epoch = r.epoch /\ s.last = r.last /\ s.active = r.active
          /\ s.frames = r.frames /\ s.cycles = r.cycles
      BY <1>2, <2>3, ReadingOf
    <2> QED BY <1>1, <1>3, <2>4
  <1>4. CASE x \in DOMAIN r.frames
    <2>1. PICK c, n, g : /\ c = r.cycles /\ n = r.frames[x].count
                         /\ g = [c EXCEPT ![k].done = TRUE, ![k].final = n]
      OBVIOUS
    <2>2. s = [r EXCEPT !.cycles[k].done = TRUE, !.cycles[k].final = n]
      BY <1>1, <1>4, <2>1 DEF Tools!ReadFinish
    <2>3. s = [epoch |-> r.epoch, last |-> r.last, active |-> r.active, frames |-> r.frames,
               cycles |-> g, orphans |-> r.orphans]
      <3>1. PICK b1, b2, b3, b4, b6 :
              r = [epoch |-> b1, last |-> b2, active |-> b3, frames |-> b4, cycles |-> c, orphans |-> b6]
              /\ r.epoch = b1 /\ r.last = b2 /\ r.active = b3 /\ r.frames = b4 /\ r.orphans = b6
        BY <1>2, <2>1
      <3>2. s = [r EXCEPT !.cycles = g]  BY <2>1, <2>2, <3>1
      <3> QED BY <3>1, <3>2
    <2>4. c = [z \in DOMAIN c |-> c[z]] /\ DOMAIN c \subseteq Keys /\ IsFiniteSet(DOMAIN c)
          /\ \A z \in DOMAIN c : c[z] \in Cycles
      BY <1>2, <2>1, MapIs
    <2>5. n \in Results
      <3>1. r.frames[x] \in Frames  BY <1>2, <1>4, MapIs
      <3> QED BY <2>1, <3>1 DEF Frames
    <2>6. CASE k \in DOMAIN c
      <3>1. PICK t, d, e : c[k] = [first |-> t, done |-> d, final |-> e] /\ t \in Nat
        BY <2>4, <2>6 DEF Cycles
      <3>2. PICK v : v = [first |-> t, done |-> TRUE, final |-> n]  OBVIOUS
      <3>3. [[c[k] EXCEPT !.done = TRUE] EXCEPT !.final = n] = v /\ c[k].first = t
        <4>1. PICK u : u = c[k]  OBVIOUS
        <4>2. u = [first |-> t, done |-> d, final |-> e]  BY <3>1, <4>1
        <4>3. PICK u1 : u1 = [u EXCEPT !.done = TRUE]  OBVIOUS
        <4>4. u1 = [first |-> t, done |-> TRUE, final |-> e]  BY <4>2, <4>3
        <4>5. [u1 EXCEPT !.final = n] = v
          <5>1. PICK w : w = [u1 EXCEPT !.final = n]  OBVIOUS
          <5>2. w = [first |-> t, done |-> TRUE, final |-> n]  BY <4>4, <5>1
          <5> QED BY <3>2, <5>1, <5>2
        <4>6. u.first = t  BY <4>2
        <4> QED BY <4>1, <4>3, <4>5, <4>6
      <3>4. g = [c EXCEPT ![k] = v]
        <4>1. PICK g1, v1 : g1 = [c EXCEPT ![k].done = TRUE] /\ v1 = [c[k] EXCEPT !.done = TRUE]  OBVIOUS
        <4>2. g1 = [c EXCEPT ![k] = v1] /\ g1[k] = v1  BY <2>6, <4>1
        <4>3. g = [g1 EXCEPT ![k].final = n]  BY <2>1, <4>1
        <4>4. g = [g1 EXCEPT ![k] = v]  BY <3>3, <4>1, <4>2, <4>3
        <4> QED BY <4>2, <4>4
      <3>5. Changed(c, g, k, v) /\ g = [z \in DOMAIN c |-> g[z]]  BY <2>4, <2>6, <3>4 DEF Changed
      <3>6. v \in Cycles  BY <2>5, <3>1, <3>2 DEF Cycles
      <3>7. g \in Maps(Keys, Cycles)
        <4>1. DOMAIN g = DOMAIN c /\ g = [z \in DOMAIN g |-> g[z]] /\ \A z \in DOMAIN g : g[z] \in Cycles
          BY <2>4, <3>5, <3>6 DEF Changed
        <4> QED BY <2>4, <4>1, MapIs
      <3>8. /\ s \in Readings /\ s.epoch = r.epoch /\ s.last = r.last /\ s.active = r.active
            /\ s.frames = r.frames /\ s.cycles = g
        BY <1>2, <2>3, <3>7, ReadingOf
      <3> QED BY <1>1, <1>4, <2>1, <2>6, <3>2, <3>3, <3>5, <3>8
    <2>7. CASE k \notin DOMAIN c
      <3>1. g = c  BY <2>1, <2>4, <2>7
      <3>2. s = r  BY <1>2, <2>1, <2>3, <3>1
      <3> QED BY <1>1, <2>1, <2>7, <3>2
    <2> QED BY <2>6, <2>7
  <1> QED BY <1>3, <1>4

LEMMA ReadNextIs ==
    ASSUME NEW r \in Readings, NEW l, IsLine(l)
    PROVE  /\ Tools!ReadNext(r, l) \in Readings
           /\ l.kind = "start" => Tools!ReadNext(r, l) = Tools!ReadStart(r, l)
           /\ l.kind = "frame" => Tools!ReadNext(r, l) = Tools!ReadFrame(r, l)
           /\ l.kind = "finish" => Tools!ReadNext(r, l) = Tools!ReadFinish(r, l)
  <1>1. l.kind = "start" => Tools!ReadNext(r, l) = Tools!ReadStart(r, l)  BY DEF Tools!ReadNext
  <1>2. l.kind = "frame" => Tools!ReadNext(r, l) = Tools!ReadFrame(r, l)  BY DEF Tools!ReadNext
  <1>3. l.kind = "finish" => Tools!ReadNext(r, l) = Tools!ReadFinish(r, l)  BY DEF Tools!ReadNext
  <1>4. l.kind = "start" \/ l.kind = "frame" \/ l.kind = "finish"  BY DEF IsLine
  <1>5. PICK a, b, c : a = Tools!ReadStart(r, l) /\ b = Tools!ReadFrame(r, l) /\ c = Tools!ReadFinish(r, l)
    OBVIOUS
  <1>6. a \in Readings /\ b \in Readings /\ c \in Readings
    BY <1>5, ReadStartIs, ReadFrameIs, ReadFinishIs
  <1> QED BY <1>1, <1>2, <1>3, <1>4, <1>5, <1>6

\* f are the readings of the lines q.
Reads(f, q) == /\ f \in [0 .. Len(q) -> Readings] /\ f[0] = Tools!Unread
               /\ \A n \in 1 .. Len(q) : f[n] = Tools!ReadNext(f[n - 1], q[n])

LEMMA StatsBuilt ==
    ASSUME NEW q, IsSeq(q), \A n \in DOMAIN q : IsLine(q[n])
    PROVE  \E f : Reads(f, q) /\ Tools!Stats(q) = f[Len(q)]
  <1> DEFINE N == Len(q)
             G == [x \in (1 .. N) \X Readings |-> Tools!ReadNext(x[2], q[x[1]])]
             Step(g) == [n \in 0 .. N |-> IF n = 0 THEN Tools!Unread ELSE Tools!ReadNext(g[n - 1], q[n])]
  <1>1. N \in Nat /\ DOMAIN q = 1 .. N  BY SeqFacts
  <1> HIDE DEF N
  <1>2. \A n \in 1 .. N : \A r \in Readings : Tools!ReadNext(r, q[n]) \in Readings
    <2> SUFFICES ASSUME NEW n \in 1 .. N, NEW r \in Readings
                 PROVE  Tools!ReadNext(r, q[n]) \in Readings
      OBVIOUS
    <2>1. PICK l : l = q[n]  OBVIOUS
    <2>2. IsLine(l)  BY <1>1, <2>1
    <2> QED BY <2>1, <2>2, ReadNextIs
  <1>3. G \in [(1 .. N) \X Readings -> Readings]
    <2>1. \A x \in (1 .. N) \X Readings : x[1] \in 1 .. N /\ x[2] \in Readings  OBVIOUS
    <2> QED BY <1>2, <2>1
  <1>4. \A n \in 1 .. N : \A r \in Readings : G[<<n, r>>] = Tools!ReadNext(r, q[n])  OBVIOUS
  <1> HIDE DEF G
  <1>5. Tools!Unread \in Readings  BY UnreadIs
  <1>6. PICK f \in [0 .. N -> Readings] :
           f[0] = Tools!Unread /\ \A n \in 1 .. N : f[n - 1] \in Readings /\ f[n] = G[<<n, f[n - 1]>>]
    <2>1. \E f : Iterates(f, Readings, Tools!Unread, N, G)  BY <1>1, <1>3, <1>5, Iterated
    <2>2. \A n \in 1 .. N : n - 1 \in 0 .. N  BY <1>1
    <2> QED BY <2>1, <2>2 DEF Iterates
  <1>7. \A n \in 1 .. N : f[n] = Tools!ReadNext(f[n - 1], q[n])  BY <1>4, <1>6
  <1>8. f = Step(f)
    <2>1. \A n \in 0 .. N : n # 0 => n \in 1 .. N  BY <1>1
    <2> QED BY <1>6, <1>7, <2>1
  <1> DEFINE m == CHOOSE g : g = Step(g)
  <1>9. m = Step(m)  BY <1>8, Zenon
  <1>10. Tools!Stats(q) = m[N]  BY Zenon DEF Tools!Stats, N
  <1> HIDE DEF m
  <1>11. DOMAIN m = 0 .. N /\ m[0] = Tools!Unread /\ \A n \in 1 .. N : m[n] = Tools!ReadNext(m[n - 1], q[n])
    <2>1. 0 \in 0 .. N /\ \A n \in 1 .. N : n \in 0 .. N /\ n # 0  BY <1>1
    <2> QED BY <1>9, <2>1
  <1>12. \A n \in 0 .. N : m[n] = f[n]
    <2> DEFINE T == {n \in 0 .. N : m[n] = f[n]}
    <2>1. 0 \in T  BY <1>1, <1>6, <1>11
    <2>2. ASSUME NEW n \in 0 .. N, n \in T, n < N
          PROVE  n + 1 \in T
      <3>1. n + 1 \in 1 .. N /\ n + 1 \in 0 .. N /\ (n + 1) - 1 = n  BY <1>1, <2>2
      <3>2. m[n] = f[n]  BY <2>2
      <3> QED BY <1>7, <1>11, <3>1, <3>2
    <2> HIDE DEF T
    <2>3. \A n \in 0 .. N : n \in T  BY <1>1, <2>1, <2>2, Induct
    <2> QED BY <2>3 DEF T
  <1>13. N \in 0 .. N  BY <1>1
  <1>14. Reads(f, q)  BY <1>6, <1>7 DEF Reads, N
  <1> QED BY <1>10, <1>12, <1>13, <1>14 DEF N

LEMMA ReadsAgree ==
    ASSUME NEW f, NEW p, NEW g, NEW q, Reads(f, p), Reads(g, q), NEW n \in Nat, n <= Len(p), n <= Len(q),
           IsSeq(p), IsSeq(q), \A k \in 1 .. n : p[k] = q[k]
    PROVE  f[n] = g[n]
  <1>1. Len(p) \in Nat /\ Len(q) \in Nat  BY SeqFacts
  <1>2. \A k \in 1 .. n : k \in 1 .. Len(p) /\ k \in 1 .. Len(q)  BY <1>1
  <1> DEFINE T == {k \in 0 .. n : f[k] = g[k]}
  <1>3. 0 \in T  BY DEF Reads
  <1>4. ASSUME NEW k \in 0 .. n, k \in T, k < n
        PROVE  k + 1 \in T
    <2>1. k + 1 \in 1 .. n /\ k + 1 \in 0 .. n /\ (k + 1) - 1 = k  BY <1>4
    <2>2. f[k] = g[k]  BY <1>4
    <2>3. f[k + 1] = Tools!ReadNext(f[k], p[k + 1]) /\ g[k + 1] = Tools!ReadNext(g[k], q[k + 1])
      BY <1>2, <2>1 DEF Reads
    <2> QED BY <2>1, <2>2, <2>3
  <1> HIDE DEF T
  <1>5. \A k \in 0 .. n : k \in T  BY <1>3, <1>4, Induct
  <1>6. n \in 0 .. n  OBVIOUS
  <1> QED BY <1>5, <1>6 DEF T

LEMMA StatsAre ==
    ASSUME NEW q, IsSeq(q), \A n \in DOMAIN q : IsLine(q[n])
    PROVE  Tools!Stats(q) \in Readings /\ (Len(q) = 0 => Tools!Stats(q) = Tools!Unread)
  <1>1. PICK f : Reads(f, q) /\ Tools!Stats(q) = f[Len(q)]  BY StatsBuilt
  <1>2. Len(q) \in Nat /\ Len(q) \in 0 .. Len(q)
    <2>1. Len(q) \in Nat  BY SeqFacts
    <2> QED BY <2>1
  <1> QED BY <1>1, <1>2 DEF Reads

LEMMA StatsGrow ==
    ASSUME NEW q, IsSeq(q), \A n \in DOMAIN q : IsLine(q[n]), NEW l, IsLine(l)
    PROVE  Tools!Stats(Append(q, l)) = Tools!ReadNext(Tools!Stats(q), l)
  <1>1. PICK p : p = Append(q, l)  OBVIOUS
  <1>2. PICK N : N = Len(q)  OBVIOUS
  <1>3. /\ IsSeq(p) /\ N \in Nat /\ DOMAIN q = 1 .. N /\ Len(p) = N + 1 /\ DOMAIN p = 1 .. N + 1
        /\ \A i \in 1 .. N : p[i] = q[i]
        /\ p[N + 1] = l
    BY <1>1, <1>2, OneMore
  <1>4. \A i \in 1 .. N + 1 : i \in 1 .. N \/ i = N + 1  BY <1>3
  <1>5. \A n \in DOMAIN p : IsLine(p[n])  BY <1>3, <1>4
  <1>6. PICK f : Reads(f, q) /\ Tools!Stats(q) = f[N]  BY <1>2, StatsBuilt
  <1>7. PICK g : Reads(g, p) /\ Tools!Stats(p) = g[N + 1]  BY <1>3, <1>5, StatsBuilt
  <1>8. f[N] = g[N]
    <2>1. N <= Len(q) /\ N <= Len(p) /\ \A k \in 1 .. N : q[k] = p[k]  BY <1>2, <1>3
    <2> QED BY <1>3, <1>6, <1>7, <2>1, ReadsAgree
  <1>9. g[N + 1] = Tools!ReadNext(g[N], l)
    <2>1. N + 1 \in 1 .. N + 1 /\ (N + 1) - 1 = N  BY <1>3
    <2> QED BY <1>3, <1>7, <2>1 DEF Reads
  <1> QED BY <1>1, <1>6, <1>7, <1>8, <1>9

-----------------------------------------------------------------------------
(* Sums and sizes.                                                           *)

Adds(m, f, n) == /\ DOMAIN m = 0 .. n /\ m[0] = f[0]
                 /\ \A k \in 1 .. n : m[k] = m[k - 1] + f[k]

LEMMA TotalBuilt ==
    ASSUME NEW n \in Nat, NEW f, \A k \in 0 .. n : f[k] \in Nat
    PROVE  \E m : Adds(m, f, n) /\ Tools!Total(f, n) = m[n]
  <1> DEFINE G == [x \in (1 .. n) \X Nat |-> x[2] + f[x[1]]]
             Step(g) == [k \in 0 .. n |-> IF k = 0 THEN f[0] ELSE g[k - 1] + f[k]]
  <1>1. \A k \in 1 .. n : f[k] \in Nat /\ k \in 0 .. n /\ k # 0 /\ k - 1 \in 0 .. n  OBVIOUS
  <1>2. f[0] \in Nat  OBVIOUS
  <1>3. G \in [(1 .. n) \X Nat -> Nat]
    <2>1. \A x \in (1 .. n) \X Nat : x[1] \in 1 .. n /\ x[2] \in Nat  OBVIOUS
    <2>2. \A x \in (1 .. n) \X Nat : x[2] + f[x[1]] \in Nat
      <3> SUFFICES ASSUME NEW x \in (1 .. n) \X Nat PROVE x[2] + f[x[1]] \in Nat
        OBVIOUS
      <3>1. PICK a, b : a = x[2] /\ b = f[x[1]]  OBVIOUS
      <3>2. a \in Nat /\ b \in Nat  BY <1>1, <2>1, <3>1
      <3> QED BY <3>1, <3>2
    <2> QED BY <2>2
  <1>4. \A k \in 1 .. n : \A s \in Nat : G[<<k, s>>] = s + f[k]  OBVIOUS
  <1> HIDE DEF G
  <1>5. PICK h \in [0 .. n -> Nat] :
           h[0] = f[0] /\ \A k \in 1 .. n : h[k - 1] \in Nat /\ h[k] = G[<<k, h[k - 1]>>]
    <2>1. \E h : Iterates(h, Nat, f[0], n, G)  BY <1>2, <1>3, Iterated
    <2> QED BY <1>1, <2>1 DEF Iterates
  <1>6. \A k \in 1 .. n : h[k] = h[k - 1] + f[k]  BY <1>4, <1>5
  <1>7. h = Step(h)
    <2>1. \A k \in 0 .. n : k # 0 => k \in 1 .. n  OBVIOUS
    <2> QED BY <1>5, <1>6, <2>1
  <1> DEFINE m == CHOOSE g : g = Step(g)
  <1>8. m = Step(m)  BY <1>7, Zenon
  <1>9. Tools!Total(f, n) = m[n]  BY Zenon DEF Tools!Total
  <1> HIDE DEF m
  <1>10. Adds(m, f, n)
    <2>1. 0 \in 0 .. n  OBVIOUS
    <2> QED BY <1>1, <1>8, <2>1 DEF Adds
  <1> QED BY <1>9, <1>10

\* The classes of a finite set are together as large as it is.
LEMMA ClassesAddUp ==
    ASSUME NEW n \in Nat, NEW D, IsFiniteSet(D), NEW cls, \A c \in D : cls[c] \in 0 .. n,
           NEW f, \A k \in 0 .. n : f[k] = Cardinality({c \in D : cls[c] = k})
    PROVE  Tools!Total(f, n) = Cardinality(D)
  <1> DEFINE Class(k) == {c \in D : cls[c] = k}
             UpTo(k)  == {c \in D : cls[c] <= k}
  <1>1. \A k : IsFiniteSet(Class(k)) /\ Cardinality(Class(k)) \in Nat
               /\ IsFiniteSet(UpTo(k)) /\ Cardinality(UpTo(k)) \in Nat
    BY FS_Subset, FS_CardinalityType
  <1>2. \A k \in 0 .. n : f[k] = Cardinality(Class(k))  OBVIOUS
  <1>3. \A k \in 0 .. n : f[k] \in Nat  BY <1>1, <1>2
  <1>4. PICK m : Adds(m, f, n) /\ Tools!Total(f, n) = m[n]  BY <1>3, TotalBuilt
  <1>5. \A k \in 1 .. n : Cardinality(UpTo(k)) = Cardinality(UpTo(k - 1)) + Cardinality(Class(k))
    <2> SUFFICES ASSUME NEW k \in 1 .. n
                 PROVE  Cardinality(UpTo(k)) = Cardinality(UpTo(k - 1)) + Cardinality(Class(k))
      OBVIOUS
    <2>1. UpTo(k) = UpTo(k - 1) \cup Class(k)
      <3>1. \A c \in D : cls[c] <= k <=> cls[c] <= k - 1 \/ cls[c] = k
        <4> SUFFICES ASSUME NEW c \in D PROVE cls[c] <= k <=> cls[c] <= k - 1 \/ cls[c] = k
          OBVIOUS
        <4>1. cls[c] \in Int  OBVIOUS
        <4> QED BY <4>1
      <3> QED BY <3>1
    <2>2. UpTo(k - 1) \cap Class(k) = {}
      <3> SUFFICES ASSUME NEW c \in D, cls[c] <= k - 1, cls[c] = k PROVE FALSE
        OBVIOUS
      <3> QED OBVIOUS
    <2> HIDE DEF UpTo, Class
    <2>3. Cardinality(UpTo(k - 1) \cup Class(k))
            = Cardinality(UpTo(k - 1)) + Cardinality(Class(k)) - Cardinality(UpTo(k - 1) \cap Class(k))
      BY <1>1, FS_Union
    <2>4. PICK a, b, c : a = Cardinality(UpTo(k - 1)) /\ b = Cardinality(Class(k)) /\ c = Cardinality(UpTo(k))
      OBVIOUS
    <2>5. a \in Nat /\ b \in Nat /\ c = a + b - 0
      BY <1>1, <2>1, <2>2, <2>3, <2>4, FS_EmptySet
    <2> QED BY <2>4, <2>5
  <1>6. UpTo(0) = Class(0)
    <2>1. \A c \in D : cls[c] <= 0 <=> cls[c] = 0
      <3> SUFFICES ASSUME NEW c \in D PROVE cls[c] <= 0 <=> cls[c] = 0
        OBVIOUS
      <3>1. cls[c] \in 0 .. n  OBVIOUS
      <3> QED BY <3>1
    <2> QED BY <2>1
  <1>7. UpTo(n) = D  OBVIOUS
  <1> HIDE DEF UpTo, Class
  <1> DEFINE T == {k \in 0 .. n : m[k] = Cardinality(UpTo(k))}
  <1>8. 0 \in T
    <2>1. 0 \in 0 .. n  OBVIOUS
    <2> QED BY <1>2, <1>4, <1>6, <2>1 DEF Adds
  <1>9. ASSUME NEW k \in 0 .. n, k \in T, k < n
        PROVE  k + 1 \in T
    <2>1. k + 1 \in 1 .. n /\ k + 1 \in 0 .. n /\ (k + 1) - 1 = k  BY <1>9
    <2>2. m[k] = Cardinality(UpTo(k))  BY <1>9
    <2>3. m[k + 1] = m[k] + f[k + 1]  BY <1>4, <2>1 DEF Adds
    <2> QED BY <1>2, <1>5, <2>1, <2>2, <2>3
  <1> HIDE DEF T
  <1>10. \A k \in 0 .. n : k \in T  BY <1>8, <1>9, Induct
  <1>11. n \in 0 .. n  OBVIOUS
  <1> QED BY <1>4, <1>7, <1>10, <1>11 DEF T

\* The image of a finite set under a map that is one-to-one has its size.
LEMMA OneToOne ==
    ASSUME NEW A, IsFiniteSet(A), NEW g, \A x, y \in A : g[x] = g[y] => x = y,
           NEW B, B = {g[x] : x \in A}
    PROVE  IsFiniteSet(B) /\ Cardinality(B) = Cardinality(A)
  <1> DEFINE f == [x \in A |-> g[x]]
  <1>1. f \in [A -> B] /\ (\A y \in B : \E x \in A : f[x] = y) /\ \A x, y \in A : f[x] = f[y] => x = y
    OBVIOUS
  <1> HIDE DEF f
  <1>2. f \in Bijection(A, B)
    <2>1. f \in Injection(A, B)  BY <1>1, Zenon DEF Injection, IsInjective
    <2>2. f \in Surjection(A, B)  BY <1>1, Zenon DEF Surjection
    <2> QED BY <2>1, <2>2, Zenon DEF Bijection
  <1>3. ExistsBijection(A, B)  BY <1>2 DEF ExistsBijection
  <1> QED BY <1>3, FS_Bijection

LEMMA CappedIs ==
    ASSUME Tools!ToolsAssumption, NEW n \in Results
    PROVE  Tools!Capped(n) \in 0 .. Full
  <1>1. Full \in Nat  BY Constants
  <1>2. CASE n = Tools!Missing
    <2>1. Tools!Capped(n) = 0  BY <1>2 DEF Tools!Capped
    <2> QED BY <1>1, <2>1
  <1>3. CASE n # Tools!Missing
    <2>1. n \in Nat  BY <1>3 DEF Results
    <2>2. Tools!Capped(n) = Tools!Min({n, Full})  BY <1>3 DEF Tools!Capped
    <2>3. PICK s, m : s = {n, Full} /\ m = Tools!Min(s)  OBVIOUS
    <2>4. s \subseteq Nat /\ s # {} /\ Full \in s  BY <1>1, <2>1, <2>3
    <2>5. m \in s /\ \A x \in s : m <= x  BY <2>3, <2>4, MinIs
    <2>6. m \in Nat /\ m <= Full  BY <2>4, <2>5
    <2> QED BY <1>1, <2>2, <2>3, <2>6
  <1> QED BY <1>2, <1>3

-----------------------------------------------------------------------------
(* Every count that nipple_stats can report has a word.                      *)

SelectedIs(r, w, final) ==
    /\ DOMAIN final = {k \in DOMAIN r.cycles : Tools!In(r.cycles[k].first, w)}
    /\ IsFiniteSet(DOMAIN final)
    /\ \A k \in DOMAIN final : final[k] = r.cycles[k].final /\ final[k] \in Results

LEMMA SelectedAre ==
    ASSUME NEW q, NEW w, NEW r, r \in Readings, r = Tools!Stats(q)
    PROVE  SelectedIs(r, w, Tools!Selected(q, w))
  <1>1. PICK c : c = r.cycles  OBVIOUS
  <1>2. PICK S : S = {k \in DOMAIN c : Tools!In(c[k].first, w)}  OBVIOUS
  <1>3. PICK final : final = Tools!Selected(q, w)  OBVIOUS
  <1>4. final = [k \in S |-> c[k].final]  BY <1>1, <1>2, <1>3 DEF Tools!Selected
  <1>5. c \in Maps(Keys, Cycles)  BY <1>1, ReadingIs
  <1>6. IsFiniteSet(DOMAIN c) /\ \A k \in DOMAIN c : c[k] \in Cycles  BY <1>5, MapIs
  <1>7. DOMAIN final = S /\ S \subseteq DOMAIN c  BY <1>2, <1>4
  <1>8. IsFiniteSet(S)  BY <1>6, <1>7, FS_Subset
  <1>9. \A k \in S : final[k] = c[k].final /\ c[k].final \in Results
    <2>1. \A k \in S : c[k] \in Cycles  BY <1>6, <1>7
    <2> QED BY <1>4, <2>1 DEF Cycles
  <1> QED BY <1>1, <1>2, <1>3, <1>7, <1>8, <1>9 DEF SelectedIs

LEMMA SharesAddUp ==
    ASSUME Tools!ToolsAssumption, NEW final, IsFiniteSet(DOMAIN final),
           \A k \in DOMAIN final : final[k] \in Results
    PROVE  LET told == Tools!ToldKpi(final)
               share(n) == IF n \in DOMAIN told.shares THEN told.shares[n] ELSE 0
           IN  Tools!Total([n \in 0 .. Full |-> share(n)], Full) + share(Tools!Missing) = told.total
  <1> DEFINE worded == 0 .. Full \cup {Tools!Missing}
             Sh(n) == Tools!Share(final, n)
             D == DOMAIN final
             M == {c \in D : final[c] = Tools!Missing}
             F == D \ M
             cls == [c \in F |-> Tools!Capped(final[c])]
  <1>1. PICK shares : shares = [count \in {n \in worded : Sh(n) > 0} |-> Sh(count)]  OBVIOUS
  <1>2. PICK told : told = Tools!ToldKpi(final)  OBVIOUS
  <1>3. told.total = Cardinality(D) /\ told.shares = shares
    <2>1. told = [total |-> Tools!Cardinality(D), complete |-> Sh(Full), shares |-> shares]
      BY <1>1, <1>2 DEF Tools!ToldKpi
    <2>2. told.total = Tools!Cardinality(D) /\ told.shares = shares  BY <2>1
    <2> QED BY <2>2, SameCardinality
  <1>4. Full \in Nat /\ Tools!Missing = -1  BY Constants DEF Tools!Missing
  <1>5. M \subseteq D /\ F \subseteq D /\ IsFiniteSet(M) /\ IsFiniteSet(F)
        /\ Cardinality(M) \in Nat /\ Cardinality(F) \in Nat
    BY FS_Subset, FS_CardinalityType
  <1>6. Sh(Tools!Missing) = Cardinality(M)
    BY SameCardinality DEF Tools!Share
  <1>7. \A c \in F : cls[c] \in 0 .. Full
    <2> SUFFICES ASSUME NEW c \in F PROVE cls[c] \in 0 .. Full
      OBVIOUS
    <2>1. PICK z : z = final[c]  OBVIOUS
    <2>2. z \in Results /\ cls[c] = Tools!Capped(z)  BY <2>1
    <2> QED BY <2>2, CappedIs
  <1>8. \A n \in 0 .. Full : Sh(n) = Cardinality({c \in F : cls[c] = n})
    <2> SUFFICES ASSUME NEW n \in 0 .. Full PROVE Sh(n) = Cardinality({c \in F : cls[c] = n})
      OBVIOUS
    <2>1. n # Tools!Missing  BY <1>4
    <2>2. {c \in D : IF n = Tools!Missing THEN final[c] = Tools!Missing
                     ELSE final[c] # Tools!Missing /\ Tools!Capped(final[c]) = n}
             = {c \in F : cls[c] = n}
      BY <2>1
    <2> QED BY <2>2, SameCardinality DEF Tools!Share
  <1>9. \A n \in 0 .. Full : Sh(n) \in Nat
    <2> SUFFICES ASSUME NEW n \in 0 .. Full PROVE Sh(n) \in Nat
      OBVIOUS
    <2>1. PICK Z : Z = {c \in F : cls[c] = n}  OBVIOUS
    <2>2. Z \subseteq F  BY <2>1
    <2>3. Cardinality(Z) \in Nat  BY <1>5, <2>2, FS_Subset, FS_CardinalityType
    <2> QED BY <1>8, <2>1, <2>3
  <1> DEFINE share(n) == IF n \in DOMAIN shares THEN shares[n] ELSE 0
  <1> HIDE DEF Sh, cls, M, F
  <1>10. \A n \in worded : share(n) = Sh(n)
    <2> SUFFICES ASSUME NEW n \in worded PROVE share(n) = Sh(n)
      OBVIOUS
    <2>1. Sh(n) \in Nat  BY <1>5, <1>6, <1>9
    <2>2. CASE Sh(n) > 0  BY <1>1, <2>2
    <2>3. CASE ~(Sh(n) > 0)
      <3>1. n \notin DOMAIN shares  BY <1>1, <2>3
      <3> QED BY <2>1, <2>3, <3>1
    <2> QED BY <2>2, <2>3
  <1>11. PICK f : f = [n \in 0 .. Full |-> share(n)]  OBVIOUS
  <1>12. \A n \in 0 .. Full : f[n] = Sh(n)
    <2>1. \A n \in 0 .. Full : n \in worded  OBVIOUS
    <2>2. \A n \in 0 .. Full : f[n] = share(n)  BY <1>11
    <2> HIDE DEF share, worded
    <2> QED BY <1>10, <2>1, <2>2
  <1>13. Tools!Total(f, Full) = Cardinality(F)
    <2>1. \A n \in 0 .. Full : f[n] = Cardinality({c \in F : cls[c] = n})  BY <1>8, <1>12
    <2> QED BY <1>4, <1>5, <1>7, <2>1, ClassesAddUp, SMTT(30)
  <1>14. share(Tools!Missing) = Cardinality(M)
    <2>1. Tools!Missing \in worded  OBVIOUS
    <2> HIDE DEF share, worded
    <2> QED BY <1>6, <1>10, <2>1
  <1>15. Cardinality(F) + Cardinality(M) = Cardinality(D)
    <2>1. F = D \ M /\ D \cap M = M  BY DEF F, M
    <2>2. Cardinality(F) = Cardinality(D) - Cardinality(D \cap M)  BY <2>1, FS_Difference
    <2>3. PICK a, b, c : a = Cardinality(F) /\ b = Cardinality(M) /\ c = Cardinality(D)  OBVIOUS
    <2>4. a \in Nat /\ b \in Nat /\ c \in Nat /\ a = c - b
      BY <1>5, <2>1, <2>2, <2>3, FS_CardinalityType
    <2> QED BY <2>3, <2>4
  <1>16. Tools!Total(f, Full) + share(Tools!Missing) = told.total
    <2> HIDE DEF share
    <2> QED BY <1>3, <1>13, <1>14, <1>15
  <1> QED BY <1>2, <1>3, <1>11, <1>16

LEMMA EveryCowIsTold ==
    ASSUME Tools!ToolsAssumption, LinesInv, \A n \in DOMAIN Tools!AllLines : IsLine(Tools!AllLines[n])
    PROVE  Tools!EveryCowTold
  <1> SUFFICES ASSUME NEW w \in MCWindows
               PROVE  LET told == Tools!ToldKpi(Tools!Selected(Tools!AllLines, w))
                          share(n) == IF n \in DOMAIN told.shares THEN told.shares[n] ELSE 0
                      IN  Tools!Total([n \in 0 .. Full |-> share(n)], Full) + share(Tools!Missing) = told.total
    BY DEF Tools!EveryCowTold
  <1>1. PICK q, r : q = Tools!AllLines /\ r = Tools!Stats(q)  OBVIOUS
  <1>2. IsSeq(q)  BY <1>1, AllLinesAre DEF LinesInv
  <1>3. r \in Readings  BY <1>1, <1>2, StatsAre
  <1>4. PICK final : final = Tools!Selected(q, w)  OBVIOUS
  <1>5. SelectedIs(r, w, final)  BY <1>1, <1>3, <1>4, SelectedAre
  <1>6. LET told == Tools!ToldKpi(final)
            share(n) == IF n \in DOMAIN told.shares THEN told.shares[n] ELSE 0
        IN  Tools!Total([n \in 0 .. Full |-> share(n)], Full) + share(Tools!Missing) = told.total
    BY <1>5, SharesAddUp DEF SelectedIs
  <1> QED BY <1>1, <1>4, <1>6

-----------------------------------------------------------------------------
(* What nipple_stats has read, and the cows that there were.                 *)

\* r is a reading of a log with the cows cs and the counter ct: it has the number
\* of the running program, and each of its cycles began with a cow of its own.
Counted(r, cs, ct) ==
    /\ r \in Readings /\ ct \in Nat
    /\ ct > 0 => r.last = ct /\ <<r.epoch, ct>> \in DOMAIN r.cycles
    /\ \E own : /\ \A k \in DOMAIN r.cycles : own[k] \in DOMAIN cs /\ cs[own[k]].first = r.cycles[k].first
                /\ \A j, k \in DOMAIN r.cycles : own[j] = own[k] => j = k

\* The cycle of cow c: that of its last image.
Key(fr, cs, c) == fr[cs[c].img].key

\* Each cow has a cycle of its own.
Owned(fr, cy, cs) ==
    /\ \A c \in DOMAIN cs : cs[c].img \in DOMAIN fr /\ Key(fr, cs, c) \in DOMAIN cy
    /\ \A c, d \in DOMAIN cs : Key(fr, cs, c) = Key(fr, cs, d) => c = d
    /\ \A k \in DOMAIN cy : \E c \in DOMAIN cs : Key(fr, cs, c) = k

\* What is known of a cow is in its cycle.
Agrees(fr, cy, cs) ==
    \A c \in DOMAIN cs : /\ cy[Key(fr, cs, c)].first = cs[c].first
                         /\ cy[Key(fr, cs, c)].final = IF cs[c].done THEN cs[c].final ELSE Tools!Missing

\* The cows under way are of the program's present run.
UnderWay(e, fr, cs) ==
    \A c \in DOMAIN cs : ~cs[c].done => /\ fr[cs[c].img].count = cs[c].final
                                        /\ Key(fr, cs, c) = <<e, cs[c].no>>

\* The results that are to come find their images.
Awaited(ac, fr, cs, ps) ==
    \A p \in ps : /\ ~cs[p.cow].done /\ p.round <= cs[p.cow].rounds
                  /\ <<cs[p.cow].no, p.round>> \in DOMAIN ac
                  /\ ac[<<cs[p.cow].no, p.round>>] = p.img
                  /\ p.img \in DOMAIN fr /\ fr[p.img].key = Key(fr, cs, p.cow)

\* The next image and the next cow are new.
Bounded(e, last, fr, cy, n) ==
    /\ \A x \in DOMAIN fr : x <= n
    /\ \A k \in DOMAIN cy : k[1] <= e /\ 1 <= k[2] /\ (k[1] = e => k[2] <= last)

\* After a restart nothing is under way.
Fresh(last, cs, ps, ct) == ct = 0 => ps = {} /\ (\A c \in DOMAIN cs : cs[c].done) /\ last # 1

\* r has told the cows cs apart.
Clear(r, n, cs, ps, ct) ==
    /\ Owned(r.frames, r.cycles, cs) /\ Agrees(r.frames, r.cycles, cs)
    /\ UnderWay(r.epoch, r.frames, cs) /\ Awaited(r.active, r.frames, cs, ps)
    /\ Bounded(r.epoch, r.last, r.frames, r.cycles, n) /\ Fresh(r.last, cs, ps, ct)

IsCow(x) == /\ x.no \in Nat /\ x.no > 0 /\ x.first \in Nat /\ x.rounds \in Nat /\ x.img \in Nat
            /\ x.final \in Results /\ x.done \in BOOLEAN
            /\ x = [no |-> x.no, first |-> x.first, rounds |-> x.rounds, img |-> x.img,
                    final |-> x.final, done |-> x.done]

\* cs are cows, and ps are rounds of theirs.
Herd(cs, ps) == /\ IsSeq(cs) /\ \A c \in DOMAIN cs : IsCow(cs[c])
                /\ \A p \in ps : p.cow \in DOMAIN cs /\ p.round \in Nat /\ p.img \in Nat

\* g is f with v at k.
Puts(D, R, f, k, v, g) ==
    /\ g \in Maps(D, R) /\ DOMAIN g = DOMAIN f \cup {k} /\ g[k] = v
    /\ \A z \in DOMAIN f : z # k => g[z] = f[z]

LEMMA PutOf ==
    \A D, R, f, k, v : f \in Maps(D, R) /\ k \in D /\ v \in R => Puts(D, R, f, k, v, Tools!Put(f, k, v))
  <1> SUFFICES ASSUME NEW D, NEW R, NEW f, NEW k, NEW v, f \in Maps(D, R), k \in D, v \in R
               PROVE  Puts(D, R, f, k, v, Tools!Put(f, k, v))
    OBVIOUS
  <1>1. /\ Tools!Put(f, k, v) \in Maps(D, R)
        /\ DOMAIN Tools!Put(f, k, v) = DOMAIN f \cup {k}
        /\ Tools!Put(f, k, v)[k] = v
        /\ \A x \in DOMAIN f : x # k => Tools!Put(f, k, v)[x] = f[x]
    BY PutIs
  <1> QED BY <1>1 DEF Puts

LEMMA PartsAre ==
    ASSUME NEW r \in Readings
    PROVE  /\ r.epoch \in Nat /\ r.last \in Nat
           /\ r.active \in Maps(Keys, Nat) /\ r.frames \in Maps(Nat, Frames) /\ r.cycles \in Maps(Keys, Cycles)
           /\ \A k \in DOMAIN r.cycles : k = <<k[1], k[2]>> /\ k[1] \in Nat /\ k[2] \in Nat
           /\ \A k \in DOMAIN r.cycles : r.cycles[k].first \in Nat /\ r.cycles[k].final \in Results
           /\ \A x \in DOMAIN r.frames : x \in Nat /\ r.frames[x].count \in Results
           /\ IsFiniteSet(DOMAIN r.cycles)
  <1>1. /\ r.epoch \in Nat /\ r.last \in Nat
        /\ r.active \in Maps(Keys, Nat) /\ r.frames \in Maps(Nat, Frames) /\ r.cycles \in Maps(Keys, Cycles)
    BY ReadingIs
  <1>2. /\ DOMAIN r.cycles \subseteq Keys /\ IsFiniteSet(DOMAIN r.cycles)
        /\ \A k \in DOMAIN r.cycles : r.cycles[k] \in Cycles
    BY <1>1, MapIs
  <1>3. DOMAIN r.frames \subseteq Nat /\ \A x \in DOMAIN r.frames : r.frames[x] \in Frames
    BY <1>1, MapIs
  <1>4. \A k \in DOMAIN r.cycles : k = <<k[1], k[2]>> /\ k[1] \in Nat /\ k[2] \in Nat
    BY <1>2 DEF Keys
  <1>5. \A k \in DOMAIN r.cycles : r.cycles[k].first \in Nat /\ r.cycles[k].final \in Results
    BY <1>2 DEF Cycles
  <1>6. \A x \in DOMAIN r.frames : x \in Nat /\ r.frames[x].count \in Results
    BY <1>3 DEF Frames
  <1> QED BY <1>1, <1>2, <1>4, <1>5, <1>6

-----------------------------------------------------------------------------
(* Each cycle has a cow of its own, whatever is read.                        *)

\* A line that begins no cycle.
LEMMA SameCount ==
    ASSUME NEW r, NEW cs, NEW ct, Counted(r, cs, ct), NEW s \in Readings, NEW cs2, NEW ct2 \in Nat,
           DOMAIN s.cycles = DOMAIN r.cycles, \A k \in DOMAIN r.cycles : s.cycles[k].first = r.cycles[k].first,
           ct2 > 0 => s.last = ct2 /\ <<s.epoch, ct2>> \in DOMAIN r.cycles,
           DOMAIN cs \subseteq DOMAIN cs2, \A c \in DOMAIN cs : cs2[c].first = cs[c].first
    PROVE  Counted(s, cs2, ct2)
  <1>1. PICK own : /\ \A k \in DOMAIN r.cycles : own[k] \in DOMAIN cs /\ cs[own[k]].first = r.cycles[k].first
                   /\ \A j, k \in DOMAIN r.cycles : own[j] = own[k] => j = k
    BY DEF Counted
  <1>2. /\ \A k \in DOMAIN s.cycles : own[k] \in DOMAIN cs2 /\ cs2[own[k]].first = s.cycles[k].first
        /\ \A j, k \in DOMAIN s.cycles : own[j] = own[k] => j = k
    BY <1>1
  <1> QED BY <1>2 DEF Counted

LEMMA EpochIs ==
    ASSUME NEW r \in Readings, NEW cs, NEW ct, Counted(r, cs, ct), NEW l, IsLine(l)
    PROVE  /\ ct > 0 /\ l.cow >= ct => Tools!Epoch(r, l) = r.epoch
           /\ ct = 0 /\ l.cow = 1 /\ r.last # 1 =>
                 Tools!Epoch(r, l) = IF r.last = 0 THEN r.epoch ELSE r.epoch + 1
  <1>1. ct \in Nat /\ (ct > 0 => r.last = ct) /\ r.last \in Nat /\ r.epoch \in Nat /\ l.cow \in Nat
    BY PartsAre DEF Counted, IsLine
  <1> QED BY <1>1 DEF Tools!Epoch

LEMMA NewCowCounts ==
    ASSUME NEW r, NEW cs, IsSeq(cs), NEW ct, Counted(r, cs, ct), NEW l, IsLine(l), l.cow = ct + 1,
           NEW s, s = Tools!ReadStart(r, l), NEW x, x.first = l.at
    PROVE  Counted(s, Append(cs, x), ct + 1)
  <1>1. PICK N, cs2 : N = Len(cs) /\ cs2 = Append(cs, x)  OBVIOUS
  <1>2. /\ N \in Nat /\ DOMAIN cs = 1 .. N /\ DOMAIN cs2 = 1 .. N + 1
        /\ \A c \in 1 .. N : cs2[c] = cs[c]
        /\ cs2[N + 1] = x
    BY <1>1, OneMore
  <1>3. r \in Readings /\ ct \in Nat /\ ct + 1 \in Nat /\ ct + 1 > 0  BY DEF Counted
  <1>4. PICK epoch, key, y :
           /\ epoch = Tools!Epoch(r, l) /\ key = <<epoch, l.cow>>
           /\ y = [first |-> l.at, done |-> FALSE, final |-> Tools!Missing]
    OBVIOUS
  <1>5. /\ s \in Readings /\ s.epoch = epoch /\ s.last = l.cow /\ key \in Keys
        /\ s.cycles = IF key \in DOMAIN r.cycles THEN r.cycles ELSE Tools!Put(r.cycles, key, y)
    BY <1>3, <1>4, ReadStartIs, ZenonT(40)
  <1>6. PICK own : /\ \A k \in DOMAIN r.cycles : own[k] \in DOMAIN cs /\ cs[own[k]].first = r.cycles[k].first
                   /\ \A j, k \in DOMAIN r.cycles : own[j] = own[k] => j = k
    BY DEF Counted
  <1>7. s.last = ct + 1 /\ key = <<s.epoch, ct + 1>>  BY <1>4, <1>5
  <1>8. CASE key \in DOMAIN r.cycles
    <2>1. s.cycles = r.cycles  BY <1>5, <1>8
    <2>2. \A c \in 1 .. N : c \in 1 .. N + 1  BY <1>2
    <2>3. DOMAIN cs \subseteq DOMAIN cs2 /\ \A c \in DOMAIN cs : cs2[c].first = cs[c].first
      BY <1>2, <2>2
    <2>4. Counted(s, cs2, ct + 1)  BY <1>3, <1>5, <1>7, <1>8, <2>1, <2>3, SameCount
    <2> QED BY <1>1, <2>4
  <1>9. CASE key \notin DOMAIN r.cycles
    <2>1. s.cycles = Tools!Put(r.cycles, key, y)  BY <1>5, <1>9
    <2>2. y \in Cycles /\ y.first = l.at  BY <1>4 DEF Cycles, IsLine, Results
    <2>3. r.cycles \in Maps(Keys, Cycles)  BY <1>3, PartsAre
    <2>4. /\ DOMAIN s.cycles = DOMAIN r.cycles \cup {key} /\ s.cycles[key] = y
          /\ \A k \in DOMAIN r.cycles : k # key => s.cycles[k] = r.cycles[k]
      <3>1. PICK f, g : f = r.cycles /\ g = s.cycles  OBVIOUS
      <3>2. f \in Maps(Keys, Cycles) /\ key \in Keys /\ y \in Cycles /\ g = Tools!Put(f, key, y)
        BY <1>5, <2>1, <2>2, <2>3, <3>1
      <3>3. Puts(Keys, Cycles, f, key, y, g)  BY <3>2, PutOf
      <3> QED BY <3>1, <3>3 DEF Puts
    <2>5. PICK own2 : own2 = [k \in DOMAIN s.cycles |-> IF k = key THEN N + 1 ELSE own[k]]  OBVIOUS
    <2>6. own2[key] = N + 1 /\ \A k \in DOMAIN r.cycles : own2[k] = own[k] /\ own2[k] \in 1 .. N /\ k # key
      BY <1>2, <1>6, <1>9, <2>4, <2>5
    <2>7. \A k \in DOMAIN s.cycles : own2[k] \in DOMAIN cs2 /\ cs2[own2[k]].first = s.cycles[k].first
      <3>1. N + 1 \in 1 .. N + 1 /\ \A c \in 1 .. N : c \in 1 .. N + 1  BY <1>2
      <3> QED BY <1>2, <1>6, <2>2, <2>4, <2>6, <3>1
    <2>8. \A j, k \in DOMAIN s.cycles : own2[j] = own2[k] => j = k
      <3>1. \A c \in 1 .. N : c # N + 1  BY <1>2
      <3> QED BY <1>6, <2>4, <2>6, <3>1
    <2>9. <<s.epoch, ct + 1>> \in DOMAIN s.cycles  BY <1>7, <2>4
    <2>10. Counted(s, cs2, ct + 1)  BY <1>3, <1>5, <1>7, <2>7, <2>8, <2>9 DEF Counted
    <2> QED BY <1>1, <2>10
  <1> QED BY <1>8, <1>9

LEMMA NextRoundCounts ==
    ASSUME NEW r, NEW cs, NEW ct, Counted(r, cs, ct), ct > 0, NEW l, IsLine(l), l.cow = ct,
           NEW s, s = Tools!ReadStart(r, l), NEW cs2,
           DOMAIN cs2 = DOMAIN cs, \A c \in DOMAIN cs : cs2[c].first = cs[c].first
    PROVE  Counted(s, cs2, ct) /\ s.cycles = r.cycles /\ s.epoch = r.epoch
  <1>1. r \in Readings /\ ct \in Nat /\ r.last = ct /\ <<r.epoch, ct>> \in DOMAIN r.cycles  BY DEF Counted
  <1>2. PICK epoch, key, y :
           /\ epoch = Tools!Epoch(r, l) /\ key = <<epoch, l.cow>>
           /\ y = [first |-> l.at, done |-> FALSE, final |-> Tools!Missing]
    OBVIOUS
  <1>3. /\ s \in Readings /\ s.epoch = epoch /\ s.last = l.cow
        /\ s.cycles = IF key \in DOMAIN r.cycles THEN r.cycles ELSE Tools!Put(r.cycles, key, y)
    BY <1>1, <1>2, ReadStartIs, ZenonT(40)
  <1>4. epoch = r.epoch
    <2>1. l.cow >= ct  BY <1>1
    <2> QED BY <1>1, <1>2, <2>1, EpochIs
  <1>5. s.cycles = r.cycles  BY <1>1, <1>2, <1>3, <1>4
  <1>6. Counted(s, cs2, ct)  BY <1>1, <1>3, <1>4, <1>5, SameCount
  <1> QED BY <1>3, <1>4, <1>5, <1>6

LEMMA FrameCounts ==
    ASSUME NEW r, NEW cs, NEW ct, Counted(r, cs, ct), NEW l, IsLine(l),
           NEW s, s = Tools!ReadFrame(r, l), NEW cs2,
           DOMAIN cs2 = DOMAIN cs, \A c \in DOMAIN cs : cs2[c].first = cs[c].first
    PROVE  Counted(s, cs2, ct)
  <1>1. r \in Readings /\ ct \in Nat /\ (ct > 0 => r.last = ct /\ <<r.epoch, ct>> \in DOMAIN r.cycles)
    BY DEF Counted
  <1>2. s \in Readings /\ s.epoch = r.epoch /\ s.last = r.last /\ s.cycles = r.cycles
    BY <1>1, ReadFrameIs
  <1> QED BY <1>1, <1>2, SameCount

LEMMA FinishCounts ==
    ASSUME NEW r, NEW cs, NEW ct, Counted(r, cs, ct), NEW l, IsLine(l),
           NEW s, s = Tools!ReadFinish(r, l), NEW cs2,
           DOMAIN cs2 = DOMAIN cs, \A c \in DOMAIN cs : cs2[c].first = cs[c].first
    PROVE  Counted(s, cs2, ct)
  <1>1. r \in Readings /\ ct \in Nat /\ (ct > 0 => r.last = ct /\ <<r.epoch, ct>> \in DOMAIN r.cycles)
    BY DEF Counted
  <1>2. PICK x, k, y : /\ x = l.img /\ k = r.frames[x].key
                       /\ y = [first |-> r.cycles[k].first, done |-> TRUE, final |-> r.frames[x].count]
    OBVIOUS
  <1>3. y.first = r.cycles[k].first  BY <1>2
  <1>4. /\ s \in Readings /\ s.epoch = r.epoch /\ s.last = r.last
        /\ x \in DOMAIN r.frames /\ k \in DOMAIN r.cycles => Changed(r.cycles, s.cycles, k, y)
        /\ ~(x \in DOMAIN r.frames /\ k \in DOMAIN r.cycles) => s.cycles = r.cycles
    BY <1>1, <1>2, ReadFinishIs
  <1>5. DOMAIN s.cycles = DOMAIN r.cycles /\ \A j \in DOMAIN r.cycles : s.cycles[j].first = r.cycles[j].first
    BY <1>3, <1>4 DEF Changed
  <1> QED BY <1>1, <1>4, <1>5, SameCount

-----------------------------------------------------------------------------
(* Each step keeps the cows apart.                                           *)

\* A cycle is begun for a new cow N + 1, with image m and key k.
Begun(fr, cy, cs, N, m, k, fr2, cy2, cs2) ==
    /\ N \in Nat /\ DOMAIN cs = 1 .. N /\ DOMAIN cs2 = 1 .. N + 1
    /\ \A c \in 1 .. N : cs2[c] = cs[c]
    /\ m \notin DOMAIN fr /\ k \notin DOMAIN cy /\ cs2[N + 1].img = m
    /\ DOMAIN fr2 = DOMAIN fr \cup {m} /\ fr2[m].key = k
    /\ \A z \in DOMAIN fr : fr2[z] = fr[z]
    /\ DOMAIN cy2 = DOMAIN cy \cup {k}

\* The old keys are as they were, and not the new one.
KeysStay(fr, cs, N, m, k, fr2, cs2) ==
    /\ \A c \in 1 .. N : Key(fr2, cs2, c) = Key(fr, cs, c) /\ cs[c].img # m /\ Key(fr, cs, c) # k
    /\ Key(fr2, cs2, N + 1) = k

LEMMA OwnedMore ==
    \A fr, cy, cs, N, m, k, fr2, cy2, cs2 :
       Owned(fr, cy, cs) /\ Begun(fr, cy, cs, N, m, k, fr2, cy2, cs2) =>
          Owned(fr2, cy2, cs2) /\ KeysStay(fr, cs, N, m, k, fr2, cs2)
  <1> SUFFICES ASSUME NEW fr, NEW cy, NEW cs, NEW N, NEW m, NEW k, NEW fr2, NEW cy2, NEW cs2,
                      Owned(fr, cy, cs), Begun(fr, cy, cs, N, m, k, fr2, cy2, cs2)
               PROVE  Owned(fr2, cy2, cs2) /\ KeysStay(fr, cs, N, m, k, fr2, cs2)
    OBVIOUS
  <1>a. /\ N \in Nat /\ DOMAIN cs = 1 .. N /\ DOMAIN cs2 = 1 .. N + 1
        /\ \A c \in 1 .. N : cs2[c] = cs[c]
        /\ m \notin DOMAIN fr /\ k \notin DOMAIN cy /\ cs2[N + 1].img = m
        /\ DOMAIN fr2 = DOMAIN fr \cup {m} /\ fr2[m].key = k
        /\ \A z \in DOMAIN fr : fr2[z] = fr[z]
        /\ DOMAIN cy2 = DOMAIN cy \cup {k}
    BY DEF Begun
  <1>1. \A c \in 1 .. N : cs[c].img \in DOMAIN fr /\ Key(fr, cs, c) \in DOMAIN cy  BY <1>a DEF Owned
  <1>2. \A c \in 1 .. N : Key(fr2, cs2, c) = Key(fr, cs, c) /\ cs[c].img # m /\ Key(fr, cs, c) # k
    BY <1>a, <1>1 DEF Key
  <1>3. Key(fr2, cs2, N + 1) = k  BY <1>a DEF Key
  <1>4. \A c \in 1 .. N + 1 : c \in 1 .. N \/ c = N + 1  BY <1>a
  <1>5. \A c \in 1 .. N : c \in 1 .. N + 1  BY <1>a
  <1>6. N + 1 \in 1 .. N + 1  BY <1>a
  <1>7. \A c \in DOMAIN cs2 : cs2[c].img \in DOMAIN fr2 /\ Key(fr2, cs2, c) \in DOMAIN cy2
    BY <1>a, <1>1, <1>2, <1>3, <1>4
  <1>8. \A c, d \in DOMAIN cs2 : Key(fr2, cs2, c) = Key(fr2, cs2, d) => c = d
    <2>1. \A c, d \in 1 .. N : Key(fr, cs, c) = Key(fr, cs, d) => c = d  BY <1>a DEF Owned
    <2> SUFFICES ASSUME NEW c \in 1 .. N + 1, NEW d \in 1 .. N + 1, Key(fr2, cs2, c) = Key(fr2, cs2, d)
                 PROVE  c = d
      BY <1>a
    <2> QED BY <1>2, <1>3, <1>4, <2>1
  <1>9. \A j \in DOMAIN cy2 : \E c \in DOMAIN cs2 : Key(fr2, cs2, c) = j
    <2>1. \A j \in DOMAIN cy : \E c \in 1 .. N : Key(fr, cs, c) = j  BY <1>a DEF Owned
    <2> QED BY <1>a, <1>2, <1>3, <1>5, <1>6, <2>1
  <1>10. Owned(fr2, cy2, cs2)  BY <1>7, <1>8, <1>9 DEF Owned
  <1> QED BY <1>2, <1>3, <1>10 DEF KeysStay

\* The keys stay.
LEMMA OwnedKept ==
    ASSUME NEW fr, NEW cy, NEW cs, Owned(fr, cy, cs), NEW fr2, NEW cy2, NEW cs2,
           DOMAIN cs2 = DOMAIN cs, DOMAIN cy2 = DOMAIN cy,
           \A c \in DOMAIN cs : cs2[c].img \in DOMAIN fr2 /\ Key(fr2, cs2, c) = Key(fr, cs, c)
    PROVE  Owned(fr2, cy2, cs2)
  <1>1. \A c \in DOMAIN cs2 : cs2[c].img \in DOMAIN fr2 /\ Key(fr2, cs2, c) \in DOMAIN cy2  BY DEF Owned
  <1>2. \A c, d \in DOMAIN cs2 : Key(fr2, cs2, c) = Key(fr2, cs2, d) => c = d  BY DEF Owned
  <1>3. \A j \in DOMAIN cy2 : \E c \in DOMAIN cs2 : Key(fr2, cs2, c) = j  BY DEF Owned
  <1> QED BY <1>1, <1>2, <1>3 DEF Owned

\* What a start is read as, in parts.
Started(r, l, s, key) ==
    /\ s \in Readings /\ key \in Keys /\ key = <<s.epoch, l.cow>> /\ s.last = l.cow
    /\ s.epoch = Tools!Epoch(r, l) /\ s.epoch \in Nat
    /\ DOMAIN s.frames = DOMAIN r.frames \cup {l.img}
    /\ s.frames[l.img].key = key /\ s.frames[l.img].count = Tools!Missing
    /\ \A z \in DOMAIN r.frames : z # l.img => s.frames[z] = r.frames[z]
    /\ s.epoch = r.epoch => Puts(Keys, Nat, r.active, <<l.cow, l.round>>, l.img, s.active)
    /\ s.epoch # r.epoch => s.active = Tools!Put(<<>>, <<l.cow, l.round>>, l.img)
    /\ <<l.cow, l.round>> \in DOMAIN s.active /\ s.active[<<l.cow, l.round>>] = l.img
    /\ key \in DOMAIN r.cycles => s.cycles = r.cycles
    /\ key \notin DOMAIN r.cycles => /\ DOMAIN s.cycles = DOMAIN r.cycles \cup {key}
                                     /\ s.cycles[key].first = l.at /\ s.cycles[key].final = Tools!Missing
                                     /\ \A k \in DOMAIN r.cycles : s.cycles[k] = r.cycles[k]

LEMMA StartedIs ==
    ASSUME NEW r \in Readings, NEW l, IsLine(l), NEW s, s = Tools!ReadStart(r, l)
    PROVE  \E key : Started(r, l, s, key)
  <1>1. PICK epoch, key, pair, ac, n, y :
           /\ epoch = Tools!Epoch(r, l) /\ key = <<epoch, l.cow>> /\ pair = <<l.cow, l.round>>
           /\ ac = IF epoch = r.epoch THEN r.active ELSE <<>>
           /\ n = [key |-> key, count |-> Tools!Missing]
           /\ y = [first |-> l.at, done |-> FALSE, final |-> Tools!Missing]
    OBVIOUS
  <1>2. /\ s \in Readings /\ s.epoch = epoch /\ epoch \in Nat /\ key \in Keys /\ s.last = l.cow
        /\ s.active = Tools!Put(ac, pair, l.img)
        /\ s.frames = Tools!Put(r.frames, l.img, n)
        /\ s.cycles = IF key \in DOMAIN r.cycles THEN r.cycles ELSE Tools!Put(r.cycles, key, y)
    BY <1>1, ReadStartIs
  <1>3. l.cow \in Nat /\ l.round \in Nat /\ l.img \in Nat /\ l.at \in Nat  BY DEF IsLine
  <1>4. n \in Frames /\ y \in Cycles /\ pair \in Keys
    BY <1>1, <1>2, <1>3 DEF Frames, Cycles, Results, Keys
  <1>5. PICK a, f, c, a2, f2, c2 :
           /\ a = r.active /\ f = r.frames /\ c = r.cycles
           /\ a2 = s.active /\ f2 = s.frames /\ c2 = s.cycles
    OBVIOUS
  <1>6. a \in Maps(Keys, Nat) /\ f \in Maps(Nat, Frames) /\ c \in Maps(Keys, Cycles)
    BY <1>5, PartsAre
  <1>7. ac \in Maps(Keys, Nat)  BY <1>1, <1>5, <1>6, EmptyIsMap
  <1>8. Puts(Keys, Nat, ac, pair, l.img, a2)  BY <1>2, <1>3, <1>4, <1>5, <1>7, PutOf
  <1>9. Puts(Nat, Frames, f, l.img, n, f2)  BY <1>2, <1>3, <1>4, <1>5, <1>6, PutOf
  <1>10. key \notin DOMAIN c => Puts(Keys, Cycles, c, key, y, c2)  BY <1>2, <1>4, <1>5, <1>6, PutOf
  <1>11. n.key = key /\ n.count = Tools!Missing /\ y.first = l.at /\ y.final = Tools!Missing  BY <1>1
  <1>12. /\ DOMAIN f2 = DOMAIN f \cup {l.img} /\ f2[l.img].key = key /\ f2[l.img].count = Tools!Missing
         /\ \A z \in DOMAIN f : z # l.img => f2[z] = f[z]
    BY <1>9, <1>11 DEF Puts
  <1>13. pair \in DOMAIN a2 /\ a2[pair] = l.img  BY <1>8 DEF Puts
  <1>14. key \notin DOMAIN c => /\ DOMAIN c2 = DOMAIN c \cup {key}
                                /\ c2[key].first = l.at /\ c2[key].final = Tools!Missing
                                /\ \A k \in DOMAIN c : c2[k] = c[k]
    BY <1>10, <1>11 DEF Puts
  <1>15. epoch = r.epoch => Puts(Keys, Nat, a, pair, l.img, a2)  BY <1>1, <1>5, <1>8
  <1>16. epoch # r.epoch => a2 = Tools!Put(<<>>, pair, l.img)  BY <1>1, <1>2, <1>5
  <1>17. key \in DOMAIN c => c2 = c  BY <1>2, <1>5
  <1>18. Started(r, l, s, key)
    BY <1>1, <1>2, <1>5, <1>12, <1>13, <1>14, <1>15, <1>16, <1>17 DEF Started
  <1> QED BY <1>18

\* x is a cow that has just come.
IsNew(x, l) == /\ x.no = l.cow /\ x.first = l.at /\ x.rounds = 1 /\ x.img = l.img
               /\ x.final = Tools!Missing /\ x.done = FALSE

LEMMA NewCowClear ==
    ASSUME NEW r, NEW cs, NEW ps, NEW ct, NEW n \in Nat, Counted(r, cs, ct), Herd(cs, ps), Clear(r, n, cs, ps, ct),
           NEW l, IsLine(l), l.cow = ct + 1, l.round = 1, l.img = n + 1,
           NEW s, s = Tools!ReadStart(r, l), NEW x, IsNew(x, l),
           NEW p0, p0.cow = Len(cs) + 1, p0.round = 1, p0.img = n + 1
    PROVE  Clear(s, n + 1, Append(cs, x), ps \cup {p0}, ct + 1)
  <1>1. PICK N, cs2 : N = Len(cs) /\ cs2 = Append(cs, x)  OBVIOUS
  <1>2. /\ N \in Nat /\ DOMAIN cs = 1 .. N /\ DOMAIN cs2 = 1 .. N + 1
        /\ \A c \in 1 .. N : cs2[c] = cs[c]
        /\ cs2[N + 1] = x
    BY <1>1, OneMore DEF Herd
  <1>3. /\ r \in Readings /\ ct \in Nat /\ (ct > 0 => r.last = ct) /\ r.epoch \in Nat /\ r.last \in Nat
        /\ \A k \in DOMAIN r.cycles : k = <<k[1], k[2]>> /\ k[1] \in Nat /\ k[2] \in Nat
    BY PartsAre DEF Counted
  <1>4. PICK key : Started(r, l, s, key)  BY <1>3, StartedIs
  <1>5. PICK e, last, ac, fr, cy :
           e = r.epoch /\ last = r.last /\ ac = r.active /\ fr = r.frames /\ cy = r.cycles
    OBVIOUS
  <1>6. PICK e2, last2, ac2, fr2, cy2 :
           e2 = s.epoch /\ last2 = s.last /\ ac2 = s.active /\ fr2 = s.frames /\ cy2 = s.cycles
    OBVIOUS
  <1>7. /\ Owned(fr, cy, cs) /\ Agrees(fr, cy, cs) /\ UnderWay(e, fr, cs) /\ Awaited(ac, fr, cs, ps)
        /\ Bounded(e, last, fr, cy, n) /\ Fresh(last, cs, ps, ct)
    BY <1>5 DEF Clear
  <1>8. ct > 0 \/ (ct = 0 /\ last = 0) \/ (ct = 0 /\ last > 1)
    BY <1>3, <1>5, <1>7 DEF Fresh
  <1>9. /\ ct > 0 => e2 = e /\ last = ct
        /\ ct = 0 /\ last = 0 => e2 = e
        /\ ct = 0 /\ last > 1 => e2 = e + 1
    <2>1. e2 = Tools!Epoch(r, l)  BY <1>4, <1>6 DEF Started
    <2>2. ct > 0 => l.cow >= ct  BY <1>3
    <2>3. ct = 0 => l.cow = 1  BY <1>3
    <2>4. last > 1 => r.last # 1 /\ r.last # 0  BY <1>5
    <2>5. last = 0 => r.last # 1  BY <1>5
    <2>6. ct > 0 => Tools!Epoch(r, l) = r.epoch  BY <1>3, <2>2, EpochIs
    <2>7. ct = 0 /\ r.last # 1 => Tools!Epoch(r, l) = IF r.last = 0 THEN r.epoch ELSE r.epoch + 1
      BY <1>3, <2>3 DEF Tools!Epoch
    <2> QED BY <1>3, <1>5, <2>1, <2>4, <2>5, <2>6, <2>7
  <1>10. /\ \A z \in DOMAIN fr : z <= n
         /\ \A k \in DOMAIN cy : k[1] <= e /\ 1 <= k[2] /\ (k[1] = e => k[2] <= last)
    BY <1>7 DEF Bounded
  <1>11. key = <<e2, ct + 1>> /\ key[1] = e2 /\ key[2] = ct + 1
    BY <1>4, <1>6 DEF Started
  <1>12. e \in Nat /\ last \in Nat /\ e2 \in Nat /\ e <= e2  BY <1>3, <1>5, <1>8, <1>9
  <1>13. key \notin DOMAIN cy
    <2> SUFFICES ASSUME key \in DOMAIN cy PROVE FALSE  OBVIOUS
    <2>1. e2 <= e /\ (e2 = e => ct + 1 <= last)  BY <1>10, <1>11
    <2> QED BY <1>3, <1>8, <1>9, <1>12, <2>1
  <1>14. n + 1 \notin DOMAIN fr
    <2> SUFFICES ASSUME n + 1 \in DOMAIN fr PROVE FALSE  OBVIOUS
    <2>1. n + 1 <= n  BY <1>10
    <2> QED BY <2>1
  <1>15. /\ DOMAIN fr2 = DOMAIN fr \cup {n + 1} /\ fr2[n + 1].key = key /\ fr2[n + 1].count = Tools!Missing
         /\ \A z \in DOMAIN fr : fr2[z] = fr[z]
    BY <1>4, <1>5, <1>6, <1>14 DEF Started
  <1>16. /\ DOMAIN cy2 = DOMAIN cy \cup {key} /\ cy2[key].first = l.at /\ cy2[key].final = Tools!Missing
         /\ \A k \in DOMAIN cy : cy2[k] = cy[k]
    BY <1>4, <1>5, <1>6, <1>13 DEF Started
  <1>17. x.no = ct + 1 /\ x.first = l.at /\ x.rounds = 1 /\ x.img = n + 1 /\ x.final = Tools!Missing
         /\ x.done = FALSE
    BY DEF IsNew
  <1>18. /\ Owned(fr2, cy2, cs2)
         /\ \A c \in 1 .. N : Key(fr2, cs2, c) = Key(fr, cs, c) /\ cs[c].img # n + 1 /\ Key(fr, cs, c) # key
         /\ Key(fr2, cs2, N + 1) = key
    <2>1. Begun(fr, cy, cs, N, n + 1, key, fr2, cy2, cs2)
      BY <1>2, <1>13, <1>14, <1>15, <1>16, <1>17 DEF Begun
    <2> QED BY <1>7, <2>1, OwnedMore DEF KeysStay
  <1>19. \A c \in 1 .. N + 1 : c \in 1 .. N \/ c = N + 1  BY <1>2
  <1>20. \A c \in 1 .. N : Key(fr, cs, c) \in DOMAIN cy /\ cs[c].img \in DOMAIN fr  BY <1>2, <1>7 DEF Owned
  <1>21. Agrees(fr2, cy2, cs2)
    <2> SUFFICES ASSUME NEW c \in 1 .. N + 1
                 PROVE  /\ cy2[Key(fr2, cs2, c)].first = cs2[c].first
                        /\ cy2[Key(fr2, cs2, c)].final = IF cs2[c].done THEN cs2[c].final ELSE Tools!Missing
      BY <1>2 DEF Agrees
    <2>1. CASE c = N + 1  BY <1>2, <1>16, <1>17, <1>18, <2>1
    <2>2. CASE c \in 1 .. N
      <3>1. Key(fr2, cs2, c) = Key(fr, cs, c) /\ cs2[c] = cs[c]  BY <1>2, <1>18, <2>2
      <3>2. cy2[Key(fr, cs, c)] = cy[Key(fr, cs, c)]  BY <1>16, <1>20, <2>2
      <3>3. /\ cy[Key(fr, cs, c)].first = cs[c].first
            /\ cy[Key(fr, cs, c)].final = IF cs[c].done THEN cs[c].final ELSE Tools!Missing
        BY <1>2, <1>7, <2>2 DEF Agrees
      <3> QED BY <3>1, <3>2, <3>3
    <2> QED BY <1>19, <2>1, <2>2
  <1>22. \A c \in 1 .. N : ~cs[c].done => e2 = e /\ ct > 0
    BY <1>2, <1>3, <1>7, <1>9 DEF Fresh
  <1>23. UnderWay(e2, fr2, cs2)
    <2> SUFFICES ASSUME NEW c \in 1 .. N + 1, ~cs2[c].done
                 PROVE  fr2[cs2[c].img].count = cs2[c].final /\ Key(fr2, cs2, c) = <<e2, cs2[c].no>>
      BY <1>2 DEF UnderWay
    <2>1. CASE c = N + 1  BY <1>2, <1>11, <1>15, <1>17, <1>18, <2>1
    <2>2. CASE c \in 1 .. N
      <3>1. Key(fr2, cs2, c) = Key(fr, cs, c) /\ cs2[c] = cs[c]  BY <1>2, <1>18, <2>2
      <3>2. e2 = e  BY <1>22, <2>2, <3>1
      <3>3. fr[cs[c].img].count = cs[c].final /\ Key(fr, cs, c) = <<e, cs[c].no>>
        BY <1>2, <1>7, <2>2, <3>1 DEF UnderWay
      <3>4. fr2[cs[c].img] = fr[cs[c].img]  BY <1>15, <1>20, <2>2
      <3> QED BY <3>1, <3>2, <3>3, <3>4
    <2> QED BY <1>19, <2>1, <2>2
  <1>24. <<ct + 1, 1>> \in DOMAIN ac2 /\ ac2[<<ct + 1, 1>>] = n + 1
    BY <1>4, <1>6 DEF Started
  <1>25. Awaited(ac2, fr2, cs2, ps \cup {p0})
    <2> SUFFICES ASSUME NEW p \in ps \cup {p0}
                 PROVE  /\ ~cs2[p.cow].done /\ p.round <= cs2[p.cow].rounds
                        /\ <<cs2[p.cow].no, p.round>> \in DOMAIN ac2
                        /\ ac2[<<cs2[p.cow].no, p.round>>] = p.img
                        /\ p.img \in DOMAIN fr2 /\ fr2[p.img].key = Key(fr2, cs2, p.cow)
      BY DEF Awaited
    <2>1. CASE p = p0
      <3>1. p.cow = N + 1 /\ p.round = 1 /\ p.img = n + 1  BY <1>1, <2>1
      <3> QED BY <1>2, <1>15, <1>17, <1>18, <1>24, <3>1
    <2>2. CASE p \in ps
      <3>1. PICK c, u, m : c = p.cow /\ u = p.round /\ m = p.img  OBVIOUS
      <3>2. c \in 1 .. N /\ u \in Nat  BY <1>2, <2>2, <3>1 DEF Herd
      <3>3. PICK no : no = cs[c].no  OBVIOUS
      <3>4. /\ ~cs[c].done /\ u <= cs[c].rounds /\ <<no, u>> \in DOMAIN ac /\ ac[<<no, u>>] = m
            /\ m \in DOMAIN fr /\ fr[m].key = Key(fr, cs, c)
        BY <1>7, <2>2, <3>1, <3>3 DEF Awaited
      <3>5. e2 = e /\ ct > 0 /\ last = ct  BY <1>9, <1>22, <3>2, <3>4
      <3>6. Key(fr, cs, c) = <<e, no>>  BY <1>2, <1>7, <3>2, <3>3, <3>4 DEF UnderWay
      <3>7. no <= ct
        <4>1. <<e, no>> \in DOMAIN cy  BY <1>20, <3>2, <3>6
        <4>2. <<e, no>>[1] = e /\ <<e, no>>[2] = no  OBVIOUS
        <4> QED BY <1>10, <3>5, <4>1, <4>2
      <3>8. no \in Nat  BY <1>2, <3>2, <3>3 DEF Herd, IsCow
      <3>9. <<no, u>> # <<ct + 1, 1>>
        <4>1. no # ct + 1  BY <1>3, <3>7, <3>8
        <4> QED BY <4>1
      <3>10. Puts(Keys, Nat, ac, <<ct + 1, 1>>, n + 1, ac2)
        BY <1>4, <1>5, <1>6, <3>5 DEF Started
      <3>11. <<no, u>> \in DOMAIN ac2 /\ ac2[<<no, u>>] = m
        BY <3>4, <3>9, <3>10 DEF Puts
      <3>12. m \in DOMAIN fr2 /\ fr2[m].key = Key(fr2, cs2, c)
        BY <1>15, <1>18, <3>2, <3>4
      <3> QED BY <1>2, <3>1, <3>2, <3>3, <3>4, <3>11, <3>12
    <2> QED BY <2>1, <2>2
  <1>26. Bounded(e2, ct + 1, fr2, cy2, n + 1)
    <2>1. \A z \in DOMAIN fr2 : z <= n + 1
      <3> SUFFICES ASSUME NEW z \in DOMAIN fr2 PROVE z <= n + 1
        OBVIOUS
      <3>1. CASE z = n + 1  BY <3>1
      <3>2. CASE z # n + 1
        <4>1. z \in DOMAIN fr  BY <1>15, <3>2
        <4>2. z \in Nat /\ z <= n  BY <1>3, <1>5, <1>10, <4>1, PartsAre
        <4> QED BY <4>2
      <3> QED BY <3>1, <3>2
    <2>2. \A k \in DOMAIN cy2 : k[1] <= e2 /\ 1 <= k[2] /\ (k[1] = e2 => k[2] <= ct + 1)
      <3> SUFFICES ASSUME NEW k \in DOMAIN cy2
                   PROVE  k[1] <= e2 /\ 1 <= k[2] /\ (k[1] = e2 => k[2] <= ct + 1)
        OBVIOUS
      <3>1. CASE k = key  BY <1>3, <1>11, <1>12, <3>1
      <3>2. CASE k # key
        <4>1. k \in DOMAIN cy  BY <1>16, <3>2
        <4>2. PICK a, b : a = k[1] /\ b = k[2]  OBVIOUS
        <4>3. a \in Nat /\ b \in Nat /\ a <= e /\ 1 <= b /\ (a = e => b <= last)
          BY <1>3, <1>5, <1>10, <4>1, <4>2
        <4>4. a <= e2 /\ (a = e2 => b <= ct + 1)
          BY <1>3, <1>8, <1>9, <1>12, <4>3
        <4> QED BY <4>2, <4>3, <4>4
      <3> QED BY <3>1, <3>2
    <2> QED BY <2>1, <2>2 DEF Bounded
  <1>27. last2 = ct + 1  BY <1>4, <1>6 DEF Started
  <1>28. Fresh(last2, cs2, ps \cup {p0}, ct + 1)
    <2>1. ct + 1 # 0  BY <1>3
    <2> QED BY <2>1 DEF Fresh
  <1> QED BY <1>1, <1>6, <1>18, <1>21, <1>23, <1>25, <1>26, <1>27, <1>28 DEF Clear

\* Only cow c is another.
Only(cs, c, cs2) == DOMAIN cs2 = DOMAIN cs /\ \A d \in DOMAIN cs : d # c => cs2[d] = cs[d]

\* y is cow x with another round.
NextOf(x, y, m) == /\ y.no = x.no /\ y.first = x.first /\ y.rounds = x.rounds + 1 /\ y.img = m
                   /\ y.final = Tools!Missing /\ y.done = x.done

LEMMA NextRoundClear ==
    ASSUME NEW r, NEW cs, NEW ps, NEW ct, NEW n \in Nat, Counted(r, cs, ct), Herd(cs, ps), Clear(r, n, cs, ps, ct),
           NEW c \in DOMAIN cs, ~cs[c].done, cs[c].no = ct,
           NEW l, IsLine(l), l.cow = ct, l.round = cs[c].rounds + 1, l.img = n + 1,
           NEW s, s = Tools!ReadStart(r, l), NEW cs2, Only(cs, c, cs2), NextOf(cs[c], cs2[c], n + 1),
           NEW p0, p0.cow = c, p0.round = cs[c].rounds + 1, p0.img = n + 1
    PROVE  Clear(s, n + 1, cs2, ps \cup {p0}, ct)
  <1>1. PICK e, last, ac, fr, cy :
           e = r.epoch /\ last = r.last /\ ac = r.active /\ fr = r.frames /\ cy = r.cycles
    OBVIOUS
  <1>2. /\ r \in Readings /\ ct \in Nat /\ ct > 0 /\ last = ct /\ e \in Nat
        /\ \A z \in DOMAIN fr : z \in Nat
    <2>1. ct > 0  BY DEF Herd, IsCow
    <2> QED BY <1>1, <2>1, PartsAre DEF Counted
  <1>3. /\ Owned(fr, cy, cs) /\ Agrees(fr, cy, cs) /\ UnderWay(e, fr, cs) /\ Awaited(ac, fr, cs, ps)
        /\ Bounded(e, last, fr, cy, n)
    BY <1>1 DEF Clear
  <1>4. PICK key : Started(r, l, s, key)  BY <1>2, StartedIs
  <1>5. PICK e2, ac2, fr2, cy2 : e2 = s.epoch /\ ac2 = s.active /\ fr2 = s.frames /\ cy2 = s.cycles
    OBVIOUS
  <1>6. s.last = ct /\ e2 = Tools!Epoch(r, l) /\ key = <<e2, ct>>  BY <1>4, <1>5 DEF Started
  <1>7. e2 = e
    <2>1. l.cow >= ct  BY <1>2
    <2>2. Tools!Epoch(r, l) = r.epoch  BY <1>2, <2>1, EpochIs
    <2> QED BY <1>1, <1>6, <2>2
  <1>8. Key(fr, cs, c) = key  BY <1>3, <1>6, <1>7 DEF UnderWay
  <1>9. \A d \in DOMAIN cs : cs[d].img \in DOMAIN fr /\ Key(fr, cs, d) \in DOMAIN cy  BY <1>3 DEF Owned
  <1>10. cy2 = cy  BY <1>1, <1>4, <1>5, <1>8, <1>9 DEF Started
  <1>11. n + 1 \notin DOMAIN fr
    <2> SUFFICES ASSUME n + 1 \in DOMAIN fr PROVE FALSE  OBVIOUS
    <2>1. n + 1 <= n  BY <1>3 DEF Bounded
    <2> QED BY <2>1
  <1>12. /\ DOMAIN fr2 = DOMAIN fr \cup {n + 1} /\ fr2[n + 1].key = key /\ fr2[n + 1].count = Tools!Missing
         /\ \A z \in DOMAIN fr : fr2[z] = fr[z]
    BY <1>1, <1>4, <1>5, <1>11 DEF Started
  <1>13. /\ DOMAIN cs2 = DOMAIN cs /\ \A d \in DOMAIN cs : d # c => cs2[d] = cs[d]
         /\ cs2[c].no = ct /\ cs2[c].first = cs[c].first /\ cs2[c].rounds = cs[c].rounds + 1
         /\ cs2[c].img = n + 1 /\ cs2[c].final = Tools!Missing /\ cs2[c].done = cs[c].done
    BY DEF Only, NextOf
  <1>14. \A d \in DOMAIN cs : Key(fr2, cs2, d) = Key(fr, cs, d) /\ cs2[d].img \in DOMAIN fr2
    <2> SUFFICES ASSUME NEW d \in DOMAIN cs
                 PROVE  Key(fr2, cs2, d) = Key(fr, cs, d) /\ cs2[d].img \in DOMAIN fr2
      OBVIOUS
    <2>1. CASE d = c  BY <1>8, <1>12, <1>13, <2>1 DEF Key
    <2>2. CASE d # c  BY <1>9, <1>12, <1>13, <2>2 DEF Key
    <2> QED BY <2>1, <2>2
  <1>15. Owned(fr2, cy2, cs2)  BY <1>3, <1>10, <1>13, <1>14, OwnedKept
  <1>16. \A d \in DOMAIN cs : cs2[d].no = cs[d].no /\ cs2[d].first = cs[d].first /\ cs2[d].done = cs[d].done
                              /\ (cs[d].done => cs2[d].final = cs[d].final)
    BY <1>13
  <1>17. Agrees(fr2, cy2, cs2)  BY <1>3, <1>10, <1>13, <1>14, <1>16 DEF Agrees
  <1>18. UnderWay(e2, fr2, cs2)
    <2> SUFFICES ASSUME NEW d \in DOMAIN cs, ~cs2[d].done
                 PROVE  fr2[cs2[d].img].count = cs2[d].final /\ Key(fr2, cs2, d) = <<e2, cs2[d].no>>
      BY <1>13 DEF UnderWay
    <2>1. CASE d = c  BY <1>6, <1>8, <1>12, <1>13, <1>14, <2>1
    <2>2. CASE d # c
      <3>1. cs2[d] = cs[d]  BY <1>13, <2>2
      <3>2. fr[cs[d].img].count = cs[d].final /\ Key(fr, cs, d) = <<e, cs[d].no>>
        BY <1>3, <3>1 DEF UnderWay
      <3> QED BY <1>7, <1>9, <1>12, <1>14, <3>1, <3>2
    <2> QED BY <2>1, <2>2
  <1>19. PICK u0 : u0 = cs[c].rounds + 1  OBVIOUS
  <1>20. cs[c].rounds \in Nat /\ u0 = cs[c].rounds + 1  BY <1>19 DEF Herd, IsCow
  <1>21. Puts(Keys, Nat, ac, <<ct, u0>>, n + 1, ac2)
    BY <1>1, <1>4, <1>5, <1>7, <1>19 DEF Started
  <1>22. <<ct, u0>> \in DOMAIN ac2 /\ ac2[<<ct, u0>>] = n + 1  BY <1>21 DEF Puts
  <1>23. Awaited(ac2, fr2, cs2, ps \cup {p0})
    <2> SUFFICES ASSUME NEW p \in ps \cup {p0}
                 PROVE  /\ ~cs2[p.cow].done /\ p.round <= cs2[p.cow].rounds
                        /\ <<cs2[p.cow].no, p.round>> \in DOMAIN ac2
                        /\ ac2[<<cs2[p.cow].no, p.round>>] = p.img
                        /\ p.img \in DOMAIN fr2 /\ fr2[p.img].key = Key(fr2, cs2, p.cow)
      BY DEF Awaited
    <2>1. CASE p = p0
      <3>1. p.cow = c /\ p.round = u0 /\ p.img = n + 1  BY <1>19, <2>1
      <3>2. u0 <= cs2[c].rounds  BY <1>13, <1>20
      <3> QED BY <1>8, <1>12, <1>13, <1>14, <1>22, <3>1, <3>2
    <2>2. CASE p \in ps
      <3>1. PICK d, u, m : d = p.cow /\ u = p.round /\ m = p.img  OBVIOUS
      <3>2. d \in DOMAIN cs /\ u \in Nat  BY <2>2, <3>1 DEF Herd
      <3>3. PICK no : no = cs[d].no  OBVIOUS
      <3>4. /\ ~cs[d].done /\ u <= cs[d].rounds /\ <<no, u>> \in DOMAIN ac /\ ac[<<no, u>>] = m
            /\ m \in DOMAIN fr /\ fr[m].key = Key(fr, cs, d)
        BY <1>3, <2>2, <3>1, <3>3 DEF Awaited
      <3>5. cs[d].rounds \in Nat  BY <3>2 DEF Herd, IsCow
      <3>6. u <= cs2[d].rounds  BY <1>13, <1>20, <3>2, <3>4, <3>5
      <3>7. <<no, u>> # <<ct, u0>>
        <4>1. CASE d = c
          <5>1. u # u0  BY <1>20, <3>2, <3>4, <3>5, <4>1
          <5> QED BY <5>1
        <4>2. CASE d # c
          <5>1. Key(fr, cs, d) = <<e, no>>  BY <1>3, <3>2, <3>3, <3>4 DEF UnderWay
          <5>2. no = ct => Key(fr, cs, d) = Key(fr, cs, c)  BY <1>6, <1>7, <1>8, <5>1
          <5>3. no # ct  BY <1>3, <3>2, <4>2, <5>2 DEF Owned
          <5> QED BY <5>3
        <4> QED BY <4>1, <4>2
      <3>8. <<no, u>> \in DOMAIN ac2 /\ ac2[<<no, u>>] = m  BY <1>21, <3>4, <3>7 DEF Puts
      <3>9. m \in DOMAIN fr2 /\ fr2[m].key = Key(fr2, cs2, d)  BY <1>12, <1>14, <3>2, <3>4
      <3> QED BY <1>16, <3>1, <3>2, <3>3, <3>4, <3>6, <3>8, <3>9
    <2> QED BY <2>1, <2>2
  <1>24. Bounded(e2, ct, fr2, cy2, n + 1)
    <2>1. \A z \in DOMAIN fr2 : z <= n + 1
      <3>1. \A z \in DOMAIN fr : z <= n /\ z \in Nat  BY <1>2, <1>3 DEF Bounded
      <3> QED BY <1>12, <3>1
    <2> QED BY <1>2, <1>3, <1>7, <1>10, <2>1 DEF Bounded
  <1>25. Fresh(ct, cs2, ps \cup {p0}, ct)  BY <1>2 DEF Fresh
  <1> QED BY <1>5, <1>6, <1>15, <1>17, <1>18, <1>23, <1>24, <1>25 DEF Clear

-----------------------------------------------------------------------------
\* y is cow x with a result or an end.
ResultOf(x, y, v, d) == /\ y.no = x.no /\ y.first = x.first /\ y.rounds = x.rounds /\ y.img = x.img
                        /\ y.final = v /\ y.done = d

LEMMA DetectedClear ==
    ASSUME NEW r, NEW cs, NEW ps, NEW ct, NEW n \in Nat, Counted(r, cs, ct), Herd(cs, ps), Clear(r, n, cs, ps, ct),
           NEW p0 \in ps, NEW l, IsLine(l), l.cow = cs[p0.cow].no, l.round = p0.round,
           NEW s, s = Tools!ReadFrame(r, l), NEW cs2,
           IF cs[p0.cow].img = p0.img
           THEN Only(cs, p0.cow, cs2) /\ ResultOf(cs[p0.cow], cs2[p0.cow], l.count, cs[p0.cow].done)
           ELSE cs2 = cs
    PROVE  Clear(s, n + 1, cs2, ps \ {p0}, ct)
  <1>1. PICK e, last, ac, fr, cy :
           e = r.epoch /\ last = r.last /\ ac = r.active /\ fr = r.frames /\ cy = r.cycles
    OBVIOUS
  <1>2. r \in Readings /\ \A z \in DOMAIN fr : z \in Nat  BY <1>1, PartsAre DEF Counted
  <1>3. /\ Owned(fr, cy, cs) /\ Agrees(fr, cy, cs) /\ UnderWay(e, fr, cs) /\ Awaited(ac, fr, cs, ps)
        /\ Bounded(e, last, fr, cy, n) /\ Fresh(last, cs, ps, ct)
    BY <1>1 DEF Clear
  <1>4. PICK c, m, pair, v : c = p0.cow /\ m = p0.img /\ pair = <<l.cow, l.round>> /\ v = l.count  OBVIOUS
  <1>5. c \in DOMAIN cs  BY <1>4 DEF Herd
  <1>6. /\ ~cs[c].done /\ pair \in DOMAIN ac /\ ac[pair] = m /\ m \in DOMAIN fr
        /\ fr[m].key = Key(fr, cs, c)
    BY <1>3, <1>4 DEF Awaited
  <1>7. PICK x : x = [key |-> fr[m].key, count |-> v]  OBVIOUS
  <1>8. PICK fr2 : fr2 = s.frames  OBVIOUS
  <1>9. /\ s.epoch = e /\ s.last = last /\ s.active = ac /\ s.cycles = cy
        /\ Changed(fr, fr2, m, x)
    BY <1>1, <1>2, <1>4, <1>6, <1>7, <1>8, ReadFrameIs
  <1>10. /\ DOMAIN fr2 = DOMAIN fr /\ fr2[m].key = fr[m].key /\ fr2[m].count = v
         /\ \A z \in DOMAIN fr : z # m => fr2[z] = fr[z]
    BY <1>7, <1>9 DEF Changed
  <1>11. \A z \in DOMAIN fr : fr2[z].key = fr[z].key  BY <1>10
  <1>12. DOMAIN cs2 = DOMAIN cs /\ \A d \in DOMAIN cs : /\ cs2[d].no = cs[d].no /\ cs2[d].first = cs[d].first
            /\ cs2[d].rounds = cs[d].rounds /\ cs2[d].img = cs[d].img /\ cs2[d].done = cs[d].done
            /\ (cs[d].img = m /\ d = c => cs2[d].final = v)
            /\ (~(cs[d].img = m /\ d = c) => cs2[d].final = cs[d].final)
    <2>1. CASE cs[c].img = m
      <3>1. Only(cs, c, cs2) /\ ResultOf(cs[c], cs2[c], v, cs[c].done)  BY <1>4, <2>1
      <3> QED BY <2>1, <3>1 DEF Only, ResultOf
    <2>2. CASE cs[c].img # m
      <3>1. cs2 = cs  BY <1>4, <2>2
      <3> QED BY <2>2, <3>1
    <2> QED BY <2>1, <2>2
  <1>13. \A d \in DOMAIN cs : cs[d].img \in DOMAIN fr  BY <1>3 DEF Owned
  <1>14. \A d \in DOMAIN cs : Key(fr2, cs2, d) = Key(fr, cs, d) /\ cs2[d].img \in DOMAIN fr2
    BY <1>10, <1>11, <1>12, <1>13 DEF Key
  <1>15. Owned(fr2, cy, cs2)  BY <1>3, <1>12, <1>14, OwnedKept
  <1>16. Agrees(fr2, cy, cs2)
    <2>1. \A d \in DOMAIN cs : cs[d].done => cs2[d].final = cs[d].final  BY <1>6, <1>12
    <2> QED BY <1>3, <1>12, <1>14, <2>1 DEF Agrees
  <1>17. UnderWay(e, fr2, cs2)
    <2> SUFFICES ASSUME NEW d \in DOMAIN cs, ~cs[d].done
                 PROVE  fr2[cs[d].img].count = cs2[d].final /\ Key(fr, cs, d) = <<e, cs[d].no>>
      BY <1>12, <1>14 DEF UnderWay
    <2>1. fr[cs[d].img].count = cs[d].final /\ Key(fr, cs, d) = <<e, cs[d].no>>
      BY <1>3 DEF UnderWay
    <2>2. CASE cs[d].img = m
      <3>1. Key(fr, cs, d) = Key(fr, cs, c)  BY <1>6, <2>2 DEF Key
      <3>2. d = c  BY <1>3, <1>5, <3>1 DEF Owned
      <3> QED BY <1>10, <1>12, <2>1, <2>2, <3>2
    <2>3. CASE cs[d].img # m  BY <1>10, <1>12, <1>13, <2>1, <2>3
    <2> QED BY <2>2, <2>3
  <1>18. Awaited(ac, fr2, cs2, ps \ {p0})
    <2> SUFFICES ASSUME NEW p \in ps
                 PROVE  /\ ~cs2[p.cow].done /\ p.round <= cs2[p.cow].rounds
                        /\ <<cs2[p.cow].no, p.round>> \in DOMAIN ac
                        /\ ac[<<cs2[p.cow].no, p.round>>] = p.img
                        /\ p.img \in DOMAIN fr2 /\ fr2[p.img].key = Key(fr2, cs2, p.cow)
      BY DEF Awaited
    <2>1. PICK d : d = p.cow /\ d \in DOMAIN cs  BY DEF Herd
    <2>2. /\ ~cs[d].done /\ p.round <= cs[d].rounds
          /\ <<cs[d].no, p.round>> \in DOMAIN ac /\ ac[<<cs[d].no, p.round>>] = p.img
          /\ p.img \in DOMAIN fr /\ fr[p.img].key = Key(fr, cs, d)
      BY <1>3, <2>1 DEF Awaited
    <2>3. p.img \in DOMAIN fr2 /\ fr2[p.img].key = Key(fr2, cs2, d)  BY <1>10, <1>11, <1>14, <2>1, <2>2
    <2> QED BY <1>12, <2>1, <2>2, <2>3
  <1>19. Bounded(e, last, fr2, cy, n + 1)
    <2>1. \A z \in DOMAIN fr2 : z <= n + 1
      <3>1. \A z \in DOMAIN fr : z <= n /\ z \in Nat  BY <1>2, <1>3 DEF Bounded
      <3> QED BY <1>10, <3>1
    <2> QED BY <1>3, <2>1 DEF Bounded
  <1>20. Fresh(last, cs2, ps \ {p0}, ct)  BY <1>3, <1>12 DEF Fresh
  <1> QED BY <1>8, <1>9, <1>15, <1>16, <1>17, <1>18, <1>19, <1>20 DEF Clear

\* y is cow x, finished.
EndOf(x, y) == ResultOf(x, y, x.final, TRUE)

LEMMA FinishClear ==
    ASSUME NEW r, NEW cs, NEW ps, NEW ct, NEW n \in Nat, Counted(r, cs, ct), Herd(cs, ps), Clear(r, n, cs, ps, ct),
           NEW c \in DOMAIN cs, ~cs[c].done, NEW l, IsLine(l), l.img = cs[c].img,
           NEW s, s = Tools!ReadFinish(r, l), NEW cs2, Only(cs, c, cs2),
           EndOf(cs[c], cs2[c]),
           NEW ps2, \A p \in ps2 : p \in ps /\ p.cow # c
    PROVE  Clear(s, n + 1, cs2, ps2, ct)
  <1>1. PICK e, last, ac, fr, cy :
           e = r.epoch /\ last = r.last /\ ac = r.active /\ fr = r.frames /\ cy = r.cycles
    OBVIOUS
  <1>2. r \in Readings /\ \A z \in DOMAIN fr : z \in Nat  BY <1>1, PartsAre DEF Counted
  <1>3. /\ Owned(fr, cy, cs) /\ Agrees(fr, cy, cs) /\ UnderWay(e, fr, cs) /\ Awaited(ac, fr, cs, ps)
        /\ Bounded(e, last, fr, cy, n) /\ Fresh(last, cs, ps, ct)
    BY <1>1 DEF Clear
  <1>4. PICK m, k, v : m = cs[c].img /\ k = fr[m].key /\ v = fr[m].count  OBVIOUS
  <1>5. /\ k = Key(fr, cs, c) /\ m \in DOMAIN fr /\ k \in DOMAIN cy /\ v = cs[c].final
    <2>1. k = Key(fr, cs, c)  BY <1>4 DEF Key
    <2>2. m \in DOMAIN fr /\ Key(fr, cs, c) \in DOMAIN cy  BY <1>3, <1>4 DEF Owned
    <2>3. v = cs[c].final  BY <1>3, <1>4 DEF UnderWay
    <2> QED BY <2>1, <2>2, <2>3
  <1>6. PICK y, cy2 : y = [first |-> cy[k].first, done |-> TRUE, final |-> v] /\ cy2 = s.cycles  OBVIOUS
  <1>7. /\ s.epoch = e /\ s.last = last /\ s.active = ac /\ s.frames = fr /\ Changed(cy, cy2, k, y)
    <2>1. m = l.img /\ k = r.frames[m].key
          /\ y = [first |-> r.cycles[k].first, done |-> TRUE, final |-> r.frames[m].count]
      BY <1>1, <1>4, <1>6
    <2>2. /\ s \in Readings /\ s.epoch = r.epoch /\ s.last = r.last /\ s.active = r.active
          /\ s.frames = r.frames
          /\ m \in DOMAIN r.frames /\ k \in DOMAIN r.cycles => Changed(r.cycles, s.cycles, k, y)
          /\ ~(m \in DOMAIN r.frames /\ k \in DOMAIN r.cycles) => s.cycles = r.cycles
      BY <1>2, <2>1, ReadFinishIs
    <2> QED BY <1>1, <1>5, <1>6, <2>2
  <1>8. /\ DOMAIN cy2 = DOMAIN cy /\ cy2[k].first = cy[k].first /\ cy2[k].final = v
        /\ \A j \in DOMAIN cy : j # k => cy2[j] = cy[j]
    BY <1>6, <1>7 DEF Changed
  <1>9. /\ DOMAIN cs2 = DOMAIN cs /\ \A d \in DOMAIN cs : d # c => cs2[d] = cs[d]
        /\ cs2[c].no = cs[c].no /\ cs2[c].first = cs[c].first /\ cs2[c].rounds = cs[c].rounds
        /\ cs2[c].img = m /\ cs2[c].final = v /\ cs2[c].done = TRUE
    BY <1>4, <1>5 DEF Only, EndOf, ResultOf
  <1>10. \A d \in DOMAIN cs : Key(fr, cs2, d) = Key(fr, cs, d) /\ cs2[d].img = cs[d].img
    BY <1>4, <1>9 DEF Key
  <1>11. \A d \in DOMAIN cs : cs[d].img \in DOMAIN fr /\ Key(fr, cs, d) \in DOMAIN cy  BY <1>3 DEF Owned
  <1>12. Owned(fr, cy2, cs2)  BY <1>3, <1>8, <1>9, <1>10, <1>11, OwnedKept
  <1>13. Agrees(fr, cy2, cs2)
    <2> SUFFICES ASSUME NEW d \in DOMAIN cs
                 PROVE  /\ cy2[Key(fr, cs, d)].first = cs2[d].first
                        /\ cy2[Key(fr, cs, d)].final = IF cs2[d].done THEN cs2[d].final ELSE Tools!Missing
      BY <1>9, <1>10 DEF Agrees
    <2>1. /\ cy[Key(fr, cs, d)].first = cs[d].first
          /\ cy[Key(fr, cs, d)].final = IF cs[d].done THEN cs[d].final ELSE Tools!Missing
      BY <1>3 DEF Agrees
    <2>2. CASE d = c  BY <1>5, <1>8, <1>9, <2>1, <2>2
    <2>3. CASE d # c
      <3>1. Key(fr, cs, d) # k  BY <1>3, <1>5, <2>3 DEF Owned
      <3> QED BY <1>8, <1>9, <1>11, <2>1, <2>3, <3>1
    <2> QED BY <2>2, <2>3
  <1>14. UnderWay(e, fr, cs2)
    <2> SUFFICES ASSUME NEW d \in DOMAIN cs, ~cs2[d].done
                 PROVE  fr[cs2[d].img].count = cs2[d].final /\ Key(fr, cs2, d) = <<e, cs2[d].no>>
      BY <1>9 DEF UnderWay
    <2>1. d # c /\ cs2[d] = cs[d]  BY <1>9
    <2> QED BY <1>3, <1>10, <2>1 DEF UnderWay
  <1>15. Awaited(ac, fr, cs2, ps2)
    <2> SUFFICES ASSUME NEW p \in ps2
                 PROVE  /\ ~cs2[p.cow].done /\ p.round <= cs2[p.cow].rounds
                        /\ <<cs2[p.cow].no, p.round>> \in DOMAIN ac
                        /\ ac[<<cs2[p.cow].no, p.round>>] = p.img
                        /\ p.img \in DOMAIN fr /\ fr[p.img].key = Key(fr, cs2, p.cow)
      BY DEF Awaited
    <2>1. p \in ps /\ p.cow # c /\ p.cow \in DOMAIN cs  BY DEF Herd
    <2>2. cs2[p.cow] = cs[p.cow] /\ Key(fr, cs2, p.cow) = Key(fr, cs, p.cow)  BY <1>9, <1>10, <2>1
    <2> QED BY <1>3, <2>2 DEF Awaited
  <1>16. Bounded(e, last, fr, cy2, n + 1)
    <2>1. \A z \in DOMAIN fr : z <= n + 1
      <3>1. \A z \in DOMAIN fr : z <= n /\ z \in Nat  BY <1>2, <1>3 DEF Bounded
      <3> QED BY <3>1
    <2> QED BY <1>3, <1>8, <2>1 DEF Bounded
  <1>17. Fresh(last, cs2, ps2, ct)  BY <1>3 DEF Fresh
  <1> QED BY <1>6, <1>7, <1>12, <1>13, <1>14, <1>15, <1>16, <1>17 DEF Clear

LEMMA RestartClear ==
    ASSUME NEW r, NEW cs, NEW ps, NEW ct, NEW n, Counted(r, cs, ct), Clear(r, n, cs, ps, ct), ct > 0, ct # 1,
           NEW cs2, DOMAIN cs2 = DOMAIN cs,
           \A c \in DOMAIN cs : ResultOf(cs[c], cs2[c], IF cs[c].done THEN cs[c].final ELSE Tools!Missing, TRUE)
    PROVE  Clear(r, n, cs2, {}, 0)
  <1>1. PICK e, last, ac, fr, cy :
           e = r.epoch /\ last = r.last /\ ac = r.active /\ fr = r.frames /\ cy = r.cycles
    OBVIOUS
  <1>2. /\ Owned(fr, cy, cs) /\ Agrees(fr, cy, cs) /\ Bounded(e, last, fr, cy, n)  BY <1>1 DEF Clear
  <1>3. \A c \in DOMAIN cs : /\ cs2[c].img = cs[c].img /\ cs2[c].done = TRUE /\ cs2[c].first = cs[c].first
                             /\ cs2[c].final = IF cs[c].done THEN cs[c].final ELSE Tools!Missing
    BY DEF ResultOf
  <1>4. \A c \in DOMAIN cs : Key(fr, cs2, c) = Key(fr, cs, c) /\ cs2[c].img \in DOMAIN fr
    BY <1>2, <1>3 DEF Key, Owned
  <1>5. Owned(fr, cy, cs2)  BY <1>2, <1>4, OwnedKept
  <1>6. Agrees(fr, cy, cs2)  BY <1>2, <1>3, <1>4 DEF Agrees
  <1>7. UnderWay(e, fr, cs2)  BY <1>3 DEF UnderWay
  <1>8. Awaited(ac, fr, cs2, {})  BY DEF Awaited
  <1>9. Fresh(last, cs2, {}, 0)
    <2>1. last = ct  BY <1>1 DEF Counted
    <2> QED BY <1>3, <2>1 DEF Fresh
  <1> QED BY <1>1, <1>2, <1>5, <1>6, <1>7, <1>8, <1>9 DEF Clear

-----------------------------------------------------------------------------
(* What is known of the cows in any state.                                   *)

\* Without a restart the cows are numbered as they came, and the starts of the
\* log are in that order.
InTurn(q, cs, ct) ==
    /\ ct = Len(cs) /\ \A c \in DOMAIN cs : cs[c].no = c
    /\ \A n \in DOMAIN q : q[n].kind = "start" => q[n].cow \in DOMAIN cs /\ cs[q[n].cow].first <= q[n].at
    /\ \A c \in DOMAIN cs : \E n \in DOMAIN q : q[n].kind = "start" /\ q[n].cow = c /\ q[n].at = cs[c].first
    /\ \A m, n \in DOMAIN q : m < n /\ q[m].kind = "start" /\ q[n].kind = "start" => q[m].cow <= q[n].cow

Known(q, cs, ps, ct, b, z) ==
    /\ IsSeq(q) /\ \A n \in DOMAIN q : IsLine(q[n])
    /\ Herd(cs, ps)
    /\ Counted(Tools!Stats(q), cs, ct)
    /\ b \/ Clear(Tools!Stats(q), Len(q), cs, ps, ct)
    /\ z = 0 => InTurn(q, cs, ct)

LEMMA KnownFirst == \A b, z : Known(<<>>, <<>>, {}, 0, b, z)
  <1> SUFFICES ASSUME NEW b, NEW z PROVE Known(<<>>, <<>>, {}, 0, b, z)
    OBVIOUS
  <1>1. PICK q : q = <<>>  OBVIOUS
  <1>2. PICK r : r = Tools!Stats(q)  OBVIOUS
  <1>3. IsSeq(q) /\ Len(q) = 0 /\ DOMAIN q = {}  BY <1>1, EmptyIsSeq
  <1>4. r = Tools!Unread
    <2>1. \A n \in DOMAIN q : IsLine(q[n])  BY <1>3
    <2> QED BY <1>2, <1>3, <2>1, StatsAre
  <1>5. /\ r \in Readings /\ r.epoch = 0 /\ r.last = 0 /\ r.active = q /\ r.frames = q /\ r.cycles = q
    BY <1>1, <1>4, UnreadIs
  <1>6. Herd(q, {})  BY <1>3 DEF Herd
  <1>7. Counted(r, q, 0)
    <2>1. \E own : /\ \A k \in DOMAIN r.cycles : own[k] \in DOMAIN q /\ q[own[k]].first = r.cycles[k].first
                   /\ \A j, k \in DOMAIN r.cycles : own[j] = own[k] => j = k
      BY <1>3, <1>5
    <2> QED BY <1>5, <2>1 DEF Counted
  <1>8. Clear(r, 0, q, {}, 0)
    <2>1. Owned(r.frames, r.cycles, q)  BY <1>3, <1>5 DEF Owned
    <2>2. Agrees(r.frames, r.cycles, q) /\ UnderWay(r.epoch, r.frames, q)  BY <1>3, <1>5 DEF Agrees, UnderWay
    <2>3. Awaited(r.active, r.frames, q, {}) /\ Bounded(r.epoch, r.last, r.frames, r.cycles, 0)
      BY <1>3, <1>5 DEF Awaited, Bounded
    <2>4. Fresh(r.last, q, {}, 0)  BY <1>3, <1>5 DEF Fresh
    <2> QED BY <2>1, <2>2, <2>3, <2>4 DEF Clear
  <1>9. InTurn(q, q, 0)  BY <1>3 DEF InTurn
  <1>10. Known(q, q, {}, 0, b, z)  BY <1>2, <1>3, <1>6, <1>7, <1>8, <1>9 DEF Known
  <1> QED BY <1>1, <1>10

\* What a line adds to a log.
Longer(q, l, q2) ==
    /\ IsSeq(q2) /\ Len(q) \in Nat /\ Len(q2) = Len(q) + 1
    /\ DOMAIN q = 1 .. Len(q) /\ DOMAIN q2 = 1 .. Len(q) + 1
    /\ \A n \in 1 .. Len(q) : q2[n] = q[n] /\ IsLine(q[n])
    /\ q2[Len(q) + 1] = l /\ IsLine(l)
    /\ \A n \in DOMAIN q2 : IsLine(q2[n]) /\ (n \in DOMAIN q \/ n = Len(q) + 1)
    /\ Tools!Stats(q) \in Readings /\ Tools!Stats(q2) = Tools!ReadNext(Tools!Stats(q), l)

LEMMA LongerIs ==
    ASSUME NEW q, IsSeq(q), \A n \in DOMAIN q : IsLine(q[n]), NEW l, IsLine(l), NEW q2, q2 = Append(q, l)
    PROVE  Longer(q, l, q2)
  <1>1. /\ IsSeq(q2) /\ Len(q) \in Nat /\ DOMAIN q = 1 .. Len(q) /\ Len(q2) = Len(q) + 1
        /\ DOMAIN q2 = 1 .. Len(q) + 1
        /\ \A i \in 1 .. Len(q) : q2[i] = q[i]
        /\ q2[Len(q) + 1] = l
    BY OneMore
  <1>2. \A n \in 1 .. Len(q) + 1 : n \in 1 .. Len(q) \/ n = Len(q) + 1  BY <1>1
  <1>3. \A n \in DOMAIN q2 : IsLine(q2[n]) /\ (n \in DOMAIN q \/ n = Len(q) + 1)  BY <1>1, <1>2
  <1>4. Tools!Stats(q) \in Readings  BY StatsAre
  <1>5. Tools!Stats(q2) = Tools!ReadNext(Tools!Stats(q), l)  BY StatsGrow
  <1> QED BY <1>1, <1>3, <1>4, <1>5 DEF Longer

\* A line that is not a start, or the start of a round of the last cow.
LEMMA InTurnStill ==
    ASSUME NEW q, NEW l, NEW q2, Longer(q, l, q2), NEW cs, NEW ct, InTurn(q, cs, ct), NEW cs2,
           IsSeq(cs), DOMAIN cs2 = DOMAIN cs, Len(cs2) = Len(cs),
           \A c \in DOMAIN cs : cs2[c].no = cs[c].no /\ cs2[c].first = cs[c].first,
           l.kind = "start" => l.cow = Len(cs) /\ l.cow \in DOMAIN cs /\ cs[l.cow].first <= l.at
    PROVE  InTurn(q2, cs2, ct)
  <1>1. PICK N : N = Len(q)  OBVIOUS
  <1>2. /\ N \in Nat /\ DOMAIN q = 1 .. N /\ DOMAIN q2 = 1 .. N + 1
        /\ \A n \in 1 .. N : q2[n] = q[n] /\ n \in 1 .. N + 1
        /\ q2[N + 1] = l
        /\ \A n \in 1 .. N + 1 : n \in 1 .. N \/ n = N + 1
    BY <1>1 DEF Longer
  <1>3. ct = Len(cs2) /\ \A c \in DOMAIN cs2 : cs2[c].no = c  BY DEF InTurn
  <1>4. \A n \in DOMAIN q2 : q2[n].kind = "start" => q2[n].cow \in DOMAIN cs2 /\ cs2[q2[n].cow].first <= q2[n].at
    <2> SUFFICES ASSUME NEW n \in 1 .. N + 1, q2[n].kind = "start"
                 PROVE  q2[n].cow \in DOMAIN cs /\ cs[q2[n].cow].first <= q2[n].at
      BY <1>2
    <2>1. CASE n \in 1 .. N
      <3>1. q2[n] = q[n] /\ n \in DOMAIN q  BY <1>2, <2>1
      <3> QED BY <3>1 DEF InTurn
    <2>2. CASE n = N + 1  BY <1>2, <2>2
    <2> QED BY <1>2, <2>1, <2>2
  <1>5. \A c \in DOMAIN cs2 : \E n \in DOMAIN q2 :
           q2[n].kind = "start" /\ q2[n].cow = c /\ q2[n].at = cs2[c].first
    <2> SUFFICES ASSUME NEW c \in DOMAIN cs
                 PROVE  \E n \in DOMAIN q2 : q2[n].kind = "start" /\ q2[n].cow = c /\ q2[n].at = cs[c].first
      OBVIOUS
    <2>1. PICK n \in DOMAIN q : q[n].kind = "start" /\ q[n].cow = c /\ q[n].at = cs[c].first  BY DEF InTurn
    <2> QED BY <1>2, <2>1
  <1>6. \A m, n \in DOMAIN q2 : m < n /\ q2[m].kind = "start" /\ q2[n].kind = "start" => q2[m].cow <= q2[n].cow
    <2> SUFFICES ASSUME NEW m \in 1 .. N + 1, NEW n \in 1 .. N + 1, m < n,
                        q2[m].kind = "start", q2[n].kind = "start"
                 PROVE  q2[m].cow <= q2[n].cow
      BY <1>2
    <2>1. m \in 1 .. N  BY <1>2
    <2>2. q2[m] = q[m]  BY <1>2, <2>1
    <2>3. CASE n \in 1 .. N
      <3>1. q2[n] = q[n]  BY <1>2, <2>3
      <3> QED BY <1>2, <2>1, <2>2, <2>3, <3>1 DEF InTurn
    <2>4. CASE n = N + 1
      <3>1. q2[n] = l /\ l.cow = Len(cs)  BY <1>2, <2>4
      <3>2. q[m].cow \in DOMAIN cs  BY <1>2, <2>1, <2>2 DEF InTurn
      <3>3. DOMAIN cs = 1 .. Len(cs) /\ Len(cs) \in Nat  BY SeqFacts
      <3> QED BY <2>2, <3>1, <3>2, <3>3
    <2> QED BY <1>2, <2>3, <2>4
  <1> QED BY <1>3, <1>4, <1>5, <1>6 DEF InTurn

LEMMA InTurnMore ==
    ASSUME NEW q, NEW l, NEW q2, Longer(q, l, q2), NEW cs, IsSeq(cs), NEW ct, InTurn(q, cs, ct),
           NEW x, x.no = ct + 1, x.first = l.at, l.kind = "start", l.cow = ct + 1
    PROVE  InTurn(q2, Append(cs, x), ct + 1)
  <1>1. PICK N, M, cs2 : N = Len(q) /\ M = Len(cs) /\ cs2 = Append(cs, x)  OBVIOUS
  <1>2. /\ N \in Nat /\ DOMAIN q = 1 .. N /\ DOMAIN q2 = 1 .. N + 1
        /\ \A n \in 1 .. N : q2[n] = q[n] /\ n \in 1 .. N + 1
        /\ q2[N + 1] = l /\ N + 1 \in 1 .. N + 1 /\ l.at \in Nat
        /\ \A n \in 1 .. N + 1 : n \in 1 .. N \/ n = N + 1
    BY <1>1 DEF Longer, IsLine
  <1>3. /\ M \in Nat /\ ct = M /\ DOMAIN cs = 1 .. M /\ DOMAIN cs2 = 1 .. M + 1 /\ Len(cs2) = M + 1
        /\ \A c \in 1 .. M : cs2[c] = cs[c] /\ c \in 1 .. M + 1
        /\ cs2[M + 1] = x /\ M + 1 \in 1 .. M + 1
        /\ \A c \in 1 .. M + 1 : c \in 1 .. M \/ c = M + 1
    BY <1>1, OneMore DEF InTurn
  <1>4. ct + 1 = Len(cs2) /\ \A c \in DOMAIN cs2 : cs2[c].no = c  BY <1>3 DEF InTurn
  <1>5. \A n \in DOMAIN q2 : q2[n].kind = "start" => q2[n].cow \in DOMAIN cs2 /\ cs2[q2[n].cow].first <= q2[n].at
    <2> SUFFICES ASSUME NEW n \in 1 .. N + 1, q2[n].kind = "start"
                 PROVE  q2[n].cow \in DOMAIN cs2 /\ cs2[q2[n].cow].first <= q2[n].at
      BY <1>2
    <2>1. CASE n \in 1 .. N
      <3>1. q2[n] = q[n] /\ q[n].cow \in 1 .. M /\ cs[q[n].cow].first <= q[n].at
        BY <1>2, <1>3, <2>1 DEF InTurn
      <3> QED BY <1>3, <3>1
    <2>2. CASE n = N + 1
      <3>1. q2[n] = l /\ l.cow = M + 1 /\ cs2[M + 1].first = l.at  BY <1>2, <1>3, <2>2
      <3>2. l.at <= l.at  BY <1>2
      <3> QED BY <1>3, <3>1, <3>2
    <2> QED BY <1>2, <2>1, <2>2
  <1>6. \A c \in DOMAIN cs2 : \E n \in DOMAIN q2 :
           q2[n].kind = "start" /\ q2[n].cow = c /\ q2[n].at = cs2[c].first
    <2> SUFFICES ASSUME NEW c \in 1 .. M + 1
                 PROVE  \E n \in DOMAIN q2 : q2[n].kind = "start" /\ q2[n].cow = c /\ q2[n].at = cs2[c].first
      BY <1>3
    <2>1. CASE c \in 1 .. M
      <3>1. PICK n \in DOMAIN q : q[n].kind = "start" /\ q[n].cow = c /\ q[n].at = cs[c].first
        BY <1>3, <2>1 DEF InTurn
      <3> QED BY <1>2, <1>3, <2>1, <3>1
    <2>2. CASE c = M + 1  BY <1>2, <1>3, <2>2
    <2> QED BY <1>3, <2>1, <2>2
  <1>7. \A m, n \in DOMAIN q2 : m < n /\ q2[m].kind = "start" /\ q2[n].kind = "start" => q2[m].cow <= q2[n].cow
    <2> SUFFICES ASSUME NEW m \in 1 .. N + 1, NEW n \in 1 .. N + 1, m < n,
                        q2[m].kind = "start", q2[n].kind = "start"
                 PROVE  q2[m].cow <= q2[n].cow
      BY <1>2
    <2>1. m \in 1 .. N  BY <1>2
    <2>2. q2[m] = q[m]  BY <1>2, <2>1
    <2>3. CASE n \in 1 .. N
      <3>1. q2[n] = q[n]  BY <1>2, <2>3
      <3> QED BY <1>2, <2>1, <2>2, <2>3, <3>1 DEF InTurn
    <2>4. CASE n = N + 1
      <3>1. q2[n] = l /\ l.cow = M + 1  BY <1>2, <1>3, <2>4
      <3>2. q[m].cow \in 1 .. M  BY <1>2, <1>3, <2>1, <2>2 DEF InTurn
      <3> QED BY <1>3, <2>2, <3>1, <3>2
    <2> QED BY <1>2, <2>3, <2>4
  <1>8. InTurn(q2, cs2, ct + 1)  BY <1>4, <1>5, <1>6, <1>7 DEF InTurn
  <1> QED BY <1>1, <1>8

-----------------------------------------------------------------------------
(* The changes of a cow.                                                     *)

CowIs(y, a, b, d, i, e, f) ==
    y = [no |-> a, first |-> b, rounds |-> d, img |-> i, final |-> e, done |-> f]
WithRounds(x, v, y) == y = [x EXCEPT !.rounds = v]
WithImg(x, v, y)    == y = [x EXCEPT !.img = v]
WithFinal(x, v, y)  == y = [x EXCEPT !.final = v]
WithDone(x, v, y)   == y = [x EXCEPT !.done = v]

LEMMA RoundsSet ==
    \A a, b, d, i, e, f, v, x, y :
       CowIs(x, a, b, d, i, e, f) /\ WithRounds(x, v, y) => CowIs(y, a, b, v, i, e, f)
  BY DEF CowIs, WithRounds

LEMMA ImgSet ==
    \A a, b, d, i, e, f, v, x, y :
       CowIs(x, a, b, d, i, e, f) /\ WithImg(x, v, y) => CowIs(y, a, b, d, v, e, f)
  BY DEF CowIs, WithImg

LEMMA FinalSet ==
    \A a, b, d, i, e, f, v, x, y :
       CowIs(x, a, b, d, i, e, f) /\ WithFinal(x, v, y) => CowIs(y, a, b, d, i, v, f)
  BY DEF CowIs, WithFinal

LEMMA DoneSet ==
    \A a, b, d, i, e, f, v, x, y :
       CowIs(x, a, b, d, i, e, f) /\ WithDone(x, v, y) => CowIs(y, a, b, d, i, e, v)
  BY DEF CowIs, WithDone

\* A cow with such fields.
CowWith(y, a, b, d, i, e, f) ==
    /\ IsCow(y) /\ y.no = a /\ y.first = b /\ y.rounds = d /\ y.img = i /\ y.final = e /\ y.done = f

LEMMA CowOf ==
    \A y, a, b, d, i, e, f :
       /\ CowIs(y, a, b, d, i, e, f) /\ a \in Nat /\ a > 0 /\ b \in Nat /\ d \in Nat /\ i \in Nat
       /\ e \in Results /\ f \in BOOLEAN
       => CowWith(y, a, b, d, i, e, f)
  <1> SUFFICES ASSUME NEW y, NEW a \in Nat, NEW b \in Nat, NEW d \in Nat, NEW i \in Nat, NEW e \in Results,
                      NEW f \in BOOLEAN, a > 0, CowIs(y, a, b, d, i, e, f)
               PROVE  CowWith(y, a, b, d, i, e, f)
    OBVIOUS
  <1>1. y.no = a /\ y.first = b /\ y.rounds = d /\ y.img = i /\ y.final = e  BY DEF CowIs
  <1>2. y.done = f  BY DEF CowIs
  <1>3. y = [no |-> y.no, first |-> y.first, rounds |-> y.rounds, img |-> y.img,
             final |-> y.final, done |-> y.done]
    BY <1>1, <1>2 DEF CowIs
  <1> QED BY <1>1, <1>2, <1>3 DEF IsCow, CowWith

LEMMA CowParts ==
    ASSUME NEW x, IsCow(x), NEW a, NEW b, NEW d, NEW i, NEW e, NEW f,
           a = x.no, b = x.first, d = x.rounds, i = x.img, e = x.final, f = x.done
    PROVE  /\ CowIs(x, a, b, d, i, e, f) /\ a \in Nat /\ a > 0 /\ b \in Nat /\ d \in Nat /\ i \in Nat
           /\ e \in Results /\ f \in BOOLEAN
  BY DEF IsCow, CowIs

\* Another cow in its place.
LEMMA OnlyIs ==
    ASSUME NEW cs, IsSeq(cs), NEW c \in DOMAIN cs, NEW y, NEW cs2, cs2 = [cs EXCEPT ![c] = y]
    PROVE  IsSeq(cs2) /\ Len(cs2) = Len(cs) /\ Only(cs, c, cs2) /\ cs2[c] = y
  <1>1. Len(cs) \in Nat /\ DOMAIN cs = 1 .. Len(cs)  BY SeqFacts
  <1>2. PICK n : n = Len(cs)  OBVIOUS
  <1>3. DOMAIN cs2 = 1 .. n /\ cs2 = [i \in 1 .. n |-> cs2[i]] /\ n \in Nat  BY <1>1, <1>2
  <1>4. IsSeq(cs2) /\ Len(cs2) = n  BY <1>3, BuiltIsSeq
  <1>5. Only(cs, c, cs2) /\ cs2[c] = y  BY DEF Only
  <1> QED BY <1>2, <1>4, <1>5

LEMMA HerdKept ==
    ASSUME NEW cs, NEW ps, Herd(cs, ps), NEW c \in DOMAIN cs, NEW cs2, IsSeq(cs2), Only(cs, c, cs2), IsCow(cs2[c]),
           NEW ps2, \A p \in ps2 : p \in ps \/ (p.cow = c /\ p.round \in Nat /\ p.img \in Nat)
    PROVE  Herd(cs2, ps2)
  <1>1. \A d \in DOMAIN cs2 : IsCow(cs2[d])
    <2> SUFFICES ASSUME NEW d \in DOMAIN cs2 PROVE IsCow(cs2[d])
      OBVIOUS
    <2>1. CASE d = c  BY <2>1
    <2>2. CASE d # c
      <3>1. cs2[d] = cs[d] /\ d \in DOMAIN cs  BY <2>2 DEF Only
      <3> QED BY <3>1 DEF Herd
    <2> QED BY <2>1, <2>2
  <1>2. \A p \in ps2 : p.cow \in DOMAIN cs2 /\ p.round \in Nat /\ p.img \in Nat  BY DEF Only, Herd
  <1> QED BY <1>1, <1>2 DEF Herd

LEMMA NextRoundIs ==
    ASSUME NEW cs, IsSeq(cs), NEW c \in DOMAIN cs, IsCow(cs[c]), NEW m \in Nat, NEW cs2,
           cs2 = [cs EXCEPT ![c].rounds = @ + 1, ![c].img = m, ![c].final = Tools!Missing]
    PROVE  /\ IsSeq(cs2) /\ Len(cs2) = Len(cs) /\ Only(cs, c, cs2)
           /\ NextOf(cs[c], cs2[c], m) /\ IsCow(cs2[c])
  <1>1. PICK x, a, b, d, i, e, f : /\ x = cs[c] /\ a = x.no /\ b = x.first /\ d = x.rounds /\ i = x.img
                                 /\ e = x.final /\ f = x.done
    OBVIOUS
  <1>2. IsCow(x)  BY <1>1
  <1>3. /\ CowIs(x, a, b, d, i, e, f) /\ a \in Nat /\ a > 0 /\ b \in Nat /\ d \in Nat /\ f \in BOOLEAN
    BY <1>1, <1>2, CowParts
  <1>4. PICK u1, u2, u3, k, v : /\ k = d + 1 /\ v = Tools!Missing /\ u1 = [x EXCEPT !.rounds = k]
                                /\ u2 = [u1 EXCEPT !.img = m] /\ u3 = [u2 EXCEPT !.final = v]
    OBVIOUS
  <1>5. WithRounds(x, k, u1) /\ WithImg(u1, m, u2) /\ WithFinal(u2, v, u3)
    BY <1>4 DEF WithRounds, WithImg, WithFinal
  <1>6. CowIs(u1, a, b, k, i, e, f)  BY <1>3, <1>5, RoundsSet
  <1>7. CowIs(u2, a, b, k, m, e, f)  BY <1>5, <1>6, ImgSet
  <1>8. CowIs(u3, a, b, k, m, v, f)  BY <1>5, <1>7, FinalSet
  <1>9. v \in Results /\ k \in Nat  BY <1>3, <1>4 DEF Results
  <1>10. CowWith(u3, a, b, k, m, v, f)  BY <1>3, <1>8, <1>9, CowOf
  <1>11. cs2 = [cs EXCEPT ![c] = u3]
    <2>1. PICK g1, g2 : g1 = [cs EXCEPT ![c].rounds = @ + 1] /\ g2 = [g1 EXCEPT ![c].img = m]  OBVIOUS
    <2>2. cs2 = [g2 EXCEPT ![c].final = v]  BY <1>4, <2>1
    <2>3. g1 = [cs EXCEPT ![c] = u1] /\ g1[c] = u1  BY <1>1, <1>4, <2>1
    <2>4. g2 = [g1 EXCEPT ![c] = u2]  BY <1>4, <2>1, <2>3
    <2>5. g2 = [cs EXCEPT ![c] = u2] /\ g2[c] = u2  BY <2>3, <2>4
    <2>6. cs2 = [g2 EXCEPT ![c] = u3]  BY <1>4, <2>2, <2>5
    <2> QED BY <2>5, <2>6
  <1>12. IsSeq(cs2) /\ Len(cs2) = Len(cs) /\ Only(cs, c, cs2) /\ cs2[c] = u3
    <2>1. PICK w : w = [cs EXCEPT ![c] = u3]  OBVIOUS
    <2>2. IsSeq(w) /\ Len(w) = Len(cs) /\ Only(cs, c, w) /\ w[c] = u3  BY <2>1, OnlyIs
    <2> QED BY <1>11, <2>1, <2>2
  <1> QED BY <1>1, <1>4, <1>10, <1>12 DEF NextOf, CowWith

LEMMA ResultIs ==
    ASSUME NEW cs, IsSeq(cs), NEW c \in DOMAIN cs, IsCow(cs[c]), NEW v \in Results, NEW cs2,
           cs2 = [cs EXCEPT ![c].final = v]
    PROVE  /\ IsSeq(cs2) /\ Len(cs2) = Len(cs) /\ Only(cs, c, cs2)
           /\ ResultOf(cs[c], cs2[c], v, cs[c].done) /\ IsCow(cs2[c])
  <1>1. PICK x, a, b, d, i, e, f : /\ x = cs[c] /\ a = x.no /\ b = x.first /\ d = x.rounds /\ i = x.img
                                 /\ e = x.final /\ f = x.done
    OBVIOUS
  <1>2. IsCow(x)  BY <1>1
  <1>3. /\ CowIs(x, a, b, d, i, e, f) /\ a \in Nat /\ a > 0 /\ b \in Nat /\ d \in Nat /\ i \in Nat
        /\ f \in BOOLEAN
    BY <1>1, <1>2, CowParts
  <1>4. PICK u : u = [x EXCEPT !.final = v]  OBVIOUS
  <1>5. WithFinal(x, v, u)  BY <1>4 DEF WithFinal
  <1>6. CowIs(u, a, b, d, i, v, f)  BY <1>3, <1>5, FinalSet
  <1>7. CowWith(u, a, b, d, i, v, f)  BY <1>3, <1>6, CowOf
  <1>8. cs2 = [cs EXCEPT ![c] = u]  BY <1>1, <1>4
  <1>9. IsSeq(cs2) /\ Len(cs2) = Len(cs) /\ Only(cs, c, cs2) /\ cs2[c] = u  BY <1>8, OnlyIs
  <1> QED BY <1>1, <1>7, <1>9 DEF ResultOf, CowWith

LEMMA EndIs ==
    ASSUME NEW cs, IsSeq(cs), NEW c \in DOMAIN cs, IsCow(cs[c]), NEW cs2, cs2 = [cs EXCEPT ![c].done = TRUE]
    PROVE  /\ IsSeq(cs2) /\ Len(cs2) = Len(cs) /\ Only(cs, c, cs2)
           /\ ResultOf(cs[c], cs2[c], cs[c].final, TRUE) /\ IsCow(cs2[c])
  <1>1. PICK x, a, b, d, i, e, f : /\ x = cs[c] /\ a = x.no /\ b = x.first /\ d = x.rounds /\ i = x.img
                                 /\ e = x.final /\ f = x.done
    OBVIOUS
  <1>2. IsCow(x)  BY <1>1
  <1>3. /\ CowIs(x, a, b, d, i, e, f) /\ a \in Nat /\ a > 0 /\ b \in Nat /\ d \in Nat /\ i \in Nat
        /\ e \in Results
    BY <1>1, <1>2, CowParts
  <1>4. PICK u, t : u = [x EXCEPT !.done = t] /\ t = TRUE  OBVIOUS
  <1>5. WithDone(x, t, u) /\ t \in BOOLEAN  BY <1>4 DEF WithDone
  <1>6. CowIs(u, a, b, d, i, e, t)  BY <1>3, <1>5, DoneSet
  <1>7. CowWith(u, a, b, d, i, e, t)  BY <1>3, <1>5, <1>6, CowOf
  <1>8. cs2 = [cs EXCEPT ![c] = u]  BY <1>1, <1>4
  <1>9. IsSeq(cs2) /\ Len(cs2) = Len(cs) /\ Only(cs, c, cs2) /\ cs2[c] = u  BY <1>8, OnlyIs
  <1> QED BY <1>1, <1>4, <1>7, <1>9 DEF ResultOf, CowWith

LEMMA LostIs ==
    ASSUME NEW x, IsCow(x), NEW y,
           y = [x EXCEPT !.done = TRUE, !.final = IF x.done THEN @ ELSE Tools!Missing]
    PROVE  IsCow(y) /\ ResultOf(x, y, IF x.done THEN x.final ELSE Tools!Missing, TRUE)
  <1>1. PICK a, b, d, i, e, f : a = x.no /\ b = x.first /\ d = x.rounds /\ i = x.img
                              /\ e = x.final /\ f = x.done
    OBVIOUS
  <1>2. /\ CowIs(x, a, b, d, i, e, f) /\ a \in Nat /\ a > 0 /\ b \in Nat /\ d \in Nat /\ i \in Nat
        /\ e \in Results /\ f \in BOOLEAN
    BY <1>1, CowParts
  <1>3. PICK v : v = IF f THEN e ELSE Tools!Missing  OBVIOUS
  <1>4. v \in Results  BY <1>2, <1>3 DEF Results
  <1>5. PICK u1, t : u1 = [x EXCEPT !.done = t] /\ t = TRUE  OBVIOUS
  <1>6. WithDone(x, t, u1) /\ t \in BOOLEAN  BY <1>5 DEF WithDone
  <1>7. CowIs(u1, a, b, d, i, e, t)  BY <1>2, <1>6, DoneSet
  <1>8. y = [u1 EXCEPT !.final = v]
    <2>1. u1.final = e  BY <1>7 DEF CowIs
    <2>2. y = [u1 EXCEPT !.final = IF x.done THEN @ ELSE Tools!Missing]  BY <1>5
    <2>3. y = [u1 EXCEPT !.final = IF f THEN u1.final ELSE Tools!Missing]  BY <1>1, <2>2
    <2> QED BY <1>3, <2>1, <2>3
  <1>9. WithFinal(u1, v, y)  BY <1>8 DEF WithFinal
  <1>10. CowIs(y, a, b, d, i, v, t)  BY <1>7, <1>9, FinalSet
  <1>11. CowWith(y, a, b, d, i, v, t)  BY <1>2, <1>4, <1>6, <1>10, CowOf
  <1> QED BY <1>1, <1>3, <1>5, <1>11 DEF ResultOf, CowWith

-----------------------------------------------------------------------------
(* Each line that is written keeps what is known.                            *)

LEMMA KnownParts ==
    ASSUME NEW q, NEW cs, NEW ps, NEW ct, NEW b, NEW z, Known(q, cs, ps, ct, b, z), NEW r, r = Tools!Stats(q)
    PROVE  /\ IsSeq(q) /\ (\A n \in DOMAIN q : IsLine(q[n])) /\ Herd(cs, ps) /\ Counted(r, cs, ct)
           /\ (b \/ Clear(r, Len(q), cs, ps, ct)) /\ (z = 0 => InTurn(q, cs, ct)) /\ IsSeq(cs) /\ ct \in Nat
  BY DEF Known, Herd, Counted

LEMMA KnownNewCow ==
    ASSUME NEW q, NEW cs, NEW ps, NEW ct, NEW b, NEW z, Known(q, cs, ps, ct, b, z),
           NEW l, IsLine(l), l.kind = "start", l.cow = ct + 1, l.round = 1, l.img = Len(q) + 1,
           NEW q2, q2 = Append(q, l), NEW x, IsCow(x), IsNew(x, l),
           NEW p0, p0.cow = Len(cs) + 1, p0.round = 1, p0.img = Len(q) + 1
    PROVE  Known(q2, Append(cs, x), ps \cup {p0}, ct + 1, b, z)
  <1>1. PICK r, s, n, cs2, ct2 : /\ r = Tools!Stats(q) /\ s = Tools!Stats(q2) /\ n = Len(q)
                                 /\ cs2 = Append(cs, x) /\ ct2 = ct + 1
    OBVIOUS
  <1>2. /\ IsSeq(q) /\ (\A m \in DOMAIN q : IsLine(q[m])) /\ Herd(cs, ps) /\ Counted(r, cs, ct)
        /\ (b \/ Clear(r, n, cs, ps, ct)) /\ (z = 0 => InTurn(q, cs, ct)) /\ IsSeq(cs) /\ ct \in Nat
    BY <1>1, KnownParts
  <1>3. Longer(q, l, q2)  BY <1>2, LongerIs
  <1>4. r \in Readings /\ s = Tools!ReadNext(r, l) /\ n \in Nat /\ Len(q2) = n + 1 /\ IsSeq(q2)
        /\ \A m \in DOMAIN q2 : IsLine(q2[m])
    BY <1>1, <1>3 DEF Longer
  <1>5. s = Tools!ReadStart(r, l)  BY <1>4, ReadNextIs
  <1>6. Counted(s, cs2, ct2)
    <2>1. x.first = l.at  BY DEF IsNew
    <2> QED BY <1>1, <1>2, <1>5, <2>1, NewCowCounts
  <1>7. b \/ Clear(s, n + 1, cs2, ps \cup {p0}, ct2)
    <2> SUFFICES ASSUME ~b PROVE Clear(s, n + 1, cs2, ps \cup {p0}, ct2)
      OBVIOUS
    <2>1. Clear(r, n, cs, ps, ct) /\ l.img = n + 1 /\ p0.img = n + 1  BY <1>1, <1>2
    <2> QED BY <1>1, <1>2, <1>4, <1>5, <2>1, NewCowClear
  <1>8. z = 0 => InTurn(q2, cs2, ct2)
    <2> SUFFICES ASSUME z = 0 PROVE InTurn(q2, cs2, ct2)
      OBVIOUS
    <2>1. InTurn(q, cs, ct) /\ x.no = ct + 1 /\ x.first = l.at  BY <1>2 DEF IsNew
    <2> QED BY <1>1, <1>2, <1>3, <2>1, InTurnMore
  <1>9. Herd(cs2, ps \cup {p0})
    <2>1. PICK N : N = Len(cs)  OBVIOUS
    <2>2. /\ IsSeq(cs2) /\ N \in Nat /\ DOMAIN cs = 1 .. N /\ DOMAIN cs2 = 1 .. N + 1
          /\ \A c \in 1 .. N : cs2[c] = cs[c]
          /\ cs2[N + 1] = x
      BY <1>1, <1>2, <2>1, OneMore
    <2>3. (\A c \in 1 .. N + 1 : c \in 1 .. N \/ c = N + 1) /\ N + 1 \in 1 .. N + 1
          /\ \A c \in 1 .. N : c \in 1 .. N + 1
      BY <2>2
    <2>4. \A c \in DOMAIN cs2 : IsCow(cs2[c])  BY <1>2, <2>2, <2>3 DEF Herd
    <2>5. \A p \in ps \cup {p0} : p.cow \in DOMAIN cs2 /\ p.round \in Nat /\ p.img \in Nat
      <3> SUFFICES ASSUME NEW p \in ps \cup {p0}
                   PROVE  p.cow \in DOMAIN cs2 /\ p.round \in Nat /\ p.img \in Nat
        OBVIOUS
      <3>1. CASE p \in ps  BY <1>2, <2>2, <2>3, <3>1 DEF Herd
      <3>2. CASE p = p0
        <4>1. p.cow = N + 1 /\ p.round = 1 /\ p.img = n + 1  BY <1>1, <2>1, <3>2
        <4> QED BY <1>4, <2>2, <2>3, <4>1
      <3> QED BY <3>1, <3>2
    <2> QED BY <2>2, <2>4, <2>5 DEF Herd
  <1>10. Known(q2, cs2, ps \cup {p0}, ct2, b, z)
    BY <1>1, <1>4, <1>6, <1>7, <1>8, <1>9 DEF Known
  <1> QED BY <1>1, <1>10

\* s is r with another round of cow c.
RoundRead(r, n, cs, ps, ct, c, l, s, cs2, p0, m) ==
    /\ n \in Nat /\ m = n + 1 /\ Counted(r, cs, ct) /\ Herd(cs, ps)
    /\ c \in DOMAIN cs /\ ~cs[c].done /\ cs[c].no = ct
    /\ IsLine(l) /\ l.cow = ct /\ l.round = cs[c].rounds + 1 /\ l.img = m
    /\ s = Tools!ReadStart(r, l) /\ Only(cs, c, cs2) /\ NextOf(cs[c], cs2[c], m)
    /\ p0.cow = c /\ p0.round = cs[c].rounds + 1 /\ p0.img = m

LEMMA RoundReadClear ==
    \A r, n, cs, ps, ct, c, l, s, cs2, p0, m :
       RoundRead(r, n, cs, ps, ct, c, l, s, cs2, p0, m) =>
          Counted(s, cs2, ct) /\ (Clear(r, n, cs, ps, ct) => Clear(s, m, cs2, ps \cup {p0}, ct))
  <1> SUFFICES ASSUME NEW r, NEW n, NEW cs, NEW ps, NEW ct, NEW c, NEW l, NEW s, NEW cs2, NEW p0, NEW m,
                      RoundRead(r, n, cs, ps, ct, c, l, s, cs2, p0, m)
               PROVE  Counted(s, cs2, ct) /\ (Clear(r, n, cs, ps, ct) => Clear(s, m, cs2, ps \cup {p0}, ct))
    OBVIOUS
  <1>1. /\ n \in Nat /\ Counted(r, cs, ct) /\ Herd(cs, ps)
        /\ c \in DOMAIN cs /\ ~cs[c].done /\ cs[c].no = ct
        /\ IsLine(l) /\ l.cow = ct /\ l.round = cs[c].rounds + 1 /\ l.img = n + 1
        /\ s = Tools!ReadStart(r, l) /\ Only(cs, c, cs2) /\ NextOf(cs[c], cs2[c], n + 1)
        /\ p0.cow = c /\ p0.round = cs[c].rounds + 1 /\ p0.img = n + 1
    BY DEF RoundRead
  <1>2. Counted(s, cs2, ct)
    <2>1. ct > 0  BY <1>1 DEF Herd, IsCow
    <2>2. DOMAIN cs2 = DOMAIN cs /\ \A d \in DOMAIN cs : cs2[d].first = cs[d].first
      BY <1>1 DEF Only, NextOf
    <2>3. Counted(s, cs2, ct) /\ s.cycles = r.cycles /\ s.epoch = r.epoch
      BY <1>1, <2>1, <2>2, NextRoundCounts
    <2> QED BY <2>3
  <1>3. Clear(r, n, cs, ps, ct) => Clear(s, n + 1, cs2, ps \cup {p0}, ct)  BY <1>1, NextRoundClear
  <1> QED BY <1>2, <1>3 DEF RoundRead

\* s is r with the end of cow c.
EndRead(r, n, cs, ps, ct, c, l, s, cs2, ps2, m) ==
    /\ n \in Nat /\ m = n + 1 /\ Counted(r, cs, ct) /\ Herd(cs, ps) /\ Clear(r, n, cs, ps, ct)
    /\ c \in DOMAIN cs /\ ~cs[c].done /\ IsLine(l) /\ l.img = cs[c].img
    /\ s = Tools!ReadFinish(r, l) /\ Only(cs, c, cs2) /\ EndOf(cs[c], cs2[c])
    /\ (\A p \in ps2 : p \in ps /\ p.cow # c)

LEMMA EndReadClear ==
    \A r, n, cs, ps, ct, c, l, s, cs2, ps2, m :
       EndRead(r, n, cs, ps, ct, c, l, s, cs2, ps2, m) => Clear(s, m, cs2, ps2, ct)
  <1> SUFFICES ASSUME NEW r, NEW n, NEW cs, NEW ps, NEW ct, NEW c, NEW l, NEW s, NEW cs2, NEW ps2, NEW m,
                      EndRead(r, n, cs, ps, ct, c, l, s, cs2, ps2, m)
               PROVE  Clear(s, m, cs2, ps2, ct)
    OBVIOUS
  <1>1. /\ n \in Nat /\ Counted(r, cs, ct) /\ Herd(cs, ps) /\ Clear(r, n, cs, ps, ct)
        /\ c \in DOMAIN cs /\ ~cs[c].done /\ IsLine(l) /\ l.img = cs[c].img
        /\ s = Tools!ReadFinish(r, l) /\ Only(cs, c, cs2) /\ EndOf(cs[c], cs2[c])
        /\ (\A p \in ps2 : p \in ps /\ p.cow # c)
    BY DEF EndRead
  <1>2. Clear(s, n + 1, cs2, ps2, ct)  BY <1>1, FinishClear
  <1> QED BY <1>2 DEF EndRead

LEMMA KnownNextRound ==
    ASSUME NEW q, NEW cs, NEW ps, NEW ct, NEW b, NEW z, Known(q, cs, ps, ct, b, z),
           NEW c \in DOMAIN cs, ~cs[c].done, cs[c].no = ct, c = Len(cs),
           NEW l, IsLine(l), l.kind = "start", l.cow = ct, l.round = cs[c].rounds + 1, l.img = Len(q) + 1,
           z = 0 => cs[c].first <= l.at,
           NEW q2, q2 = Append(q, l), NEW cs2,
           cs2 = [cs EXCEPT ![c].rounds = @ + 1, ![c].img = Len(q) + 1, ![c].final = Tools!Missing],
           NEW p0, p0.cow = c, p0.round = cs[c].rounds + 1, p0.img = Len(q) + 1
    PROVE  Known(q2, cs2, ps \cup {p0}, ct, b, z)
  <1>1. PICK r, s, n : r = Tools!Stats(q) /\ s = Tools!Stats(q2) /\ n = Len(q)  OBVIOUS
  <1>2. /\ IsSeq(q) /\ (\A m \in DOMAIN q : IsLine(q[m])) /\ Herd(cs, ps) /\ Counted(r, cs, ct)
        /\ (b \/ Clear(r, n, cs, ps, ct)) /\ (z = 0 => InTurn(q, cs, ct)) /\ IsSeq(cs) /\ ct \in Nat
    BY <1>1, KnownParts
  <1>3. Longer(q, l, q2)  BY <1>2, LongerIs
  <1>4. r \in Readings /\ s = Tools!ReadNext(r, l) /\ n \in Nat /\ Len(q2) = n + 1 /\ IsSeq(q2)
        /\ \A m \in DOMAIN q2 : IsLine(q2[m])
    BY <1>1, <1>3 DEF Longer
  <1>5. s = Tools!ReadStart(r, l)  BY <1>4, ReadNextIs
  <1>6. IsCow(cs[c])  BY <1>2 DEF Herd
  <1>7. PICK m : m = n + 1  OBVIOUS
  <1>8. m \in Nat /\ l.img = m /\ p0.img = m /\ Len(q) + 1 = m  BY <1>1, <1>4, <1>7
  <1>9. cs2 = [cs EXCEPT ![c].rounds = @ + 1, ![c].img = m, ![c].final = Tools!Missing]  BY <1>8
  <1>10. /\ IsSeq(cs2) /\ Len(cs2) = Len(cs) /\ Only(cs, c, cs2)
         /\ NextOf(cs[c], cs2[c], m) /\ IsCow(cs2[c])
    BY <1>2, <1>6, <1>8, <1>9, NextRoundIs
  <1>11. DOMAIN cs2 = DOMAIN cs
         /\ \A d \in DOMAIN cs : cs2[d].no = cs[d].no /\ cs2[d].first = cs[d].first
    BY <1>10 DEF Only, NextOf
  <1>12. RoundRead(r, n, cs, ps, ct, c, l, s, cs2, p0, m)
    BY <1>2, <1>4, <1>5, <1>7, <1>8, <1>10 DEF RoundRead
  <1>13. b \/ Clear(s, n + 1, cs2, ps \cup {p0}, ct)
    <2> SUFFICES ASSUME ~b PROVE Clear(s, n + 1, cs2, ps \cup {p0}, ct)
      OBVIOUS
    <2>1. Clear(r, n, cs, ps, ct)  BY <1>2
    <2> QED BY <1>7, <1>12, <2>1, RoundReadClear
  <1>14. z = 0 => InTurn(q2, cs2, ct)
    <2> SUFFICES ASSUME z = 0 PROVE InTurn(q2, cs2, ct)
      OBVIOUS
    <2>1. InTurn(q, cs, ct)  BY <1>2
    <2>2. l.cow = Len(cs) /\ l.cow \in DOMAIN cs /\ cs[l.cow].first <= l.at  BY <2>1 DEF InTurn
    <2> QED BY <1>2, <1>3, <1>10, <1>11, <2>1, <2>2, InTurnStill
  <1>15. Herd(cs2, ps \cup {p0})
    <2>1. cs[c].rounds + 1 \in Nat  BY <1>6 DEF IsCow
    <2>2. \A p \in ps \cup {p0} : p \in ps \/ (p.cow = c /\ p.round \in Nat /\ p.img \in Nat)
      BY <1>8, <2>1
    <2> QED BY <1>2, <1>10, <2>2, HerdKept
  <1>16. Counted(s, cs2, ct)  BY <1>12, RoundReadClear
  <1> QED BY <1>1, <1>4, <1>13, <1>14, <1>15, <1>16 DEF Known

LEMMA KnownDetected ==
    ASSUME NEW q, NEW cs, NEW ps, NEW ct, NEW b, NEW z, Known(q, cs, ps, ct, b, z),
           NEW p0 \in ps, NEW l, IsLine(l), l.kind = "frame", l.cow = cs[p0.cow].no, l.round = p0.round,
           NEW q2, q2 = Append(q, l), NEW cs2,
           cs2 = IF cs[p0.cow].img = p0.img THEN [cs EXCEPT ![p0.cow].final = l.count] ELSE cs
    PROVE  Known(q2, cs2, ps \ {p0}, ct, b, z)
  <1>1. PICK r, s, n, c : r = Tools!Stats(q) /\ s = Tools!Stats(q2) /\ n = Len(q) /\ c = p0.cow  OBVIOUS
  <1>2. /\ IsSeq(q) /\ (\A m \in DOMAIN q : IsLine(q[m])) /\ Herd(cs, ps) /\ Counted(r, cs, ct)
        /\ (b \/ Clear(r, n, cs, ps, ct)) /\ (z = 0 => InTurn(q, cs, ct)) /\ IsSeq(cs) /\ ct \in Nat
    BY <1>1, KnownParts
  <1>3. Longer(q, l, q2)  BY <1>2, LongerIs
  <1>4. r \in Readings /\ s = Tools!ReadNext(r, l) /\ n \in Nat /\ Len(q2) = n + 1 /\ IsSeq(q2)
        /\ \A m \in DOMAIN q2 : IsLine(q2[m])
    BY <1>1, <1>3 DEF Longer
  <1>5. s = Tools!ReadFrame(r, l)  BY <1>4, ReadNextIs
  <1>6. c \in DOMAIN cs  BY <1>1, <1>2 DEF Herd
  <1>7. IsCow(cs[c])  BY <1>2, <1>6 DEF Herd
  <1>8. PICK v : v = l.count  OBVIOUS
  <1>9. v \in Results  BY <1>8 DEF IsLine, Results
  <1>10. /\ IsSeq(cs2) /\ Len(cs2) = Len(cs) /\ Herd(cs2, ps \ {p0}) /\ DOMAIN cs2 = DOMAIN cs
         /\ \A d \in DOMAIN cs : cs2[d].no = cs[d].no /\ cs2[d].first = cs[d].first
         /\ IF cs[c].img = p0.img THEN Only(cs, c, cs2) /\ ResultOf(cs[c], cs2[c], v, cs[c].done)
            ELSE cs2 = cs
    <2>1. CASE cs[c].img = p0.img
      <3>1. cs2 = [cs EXCEPT ![c].final = v]  BY <1>1, <1>8, <2>1
      <3>2. /\ IsSeq(cs2) /\ Len(cs2) = Len(cs) /\ Only(cs, c, cs2)
            /\ ResultOf(cs[c], cs2[c], v, cs[c].done) /\ IsCow(cs2[c])
        BY <1>2, <1>6, <1>7, <1>9, <3>1, ResultIs
      <3>3. \A p \in ps \ {p0} : p \in ps \/ (p.cow = c /\ p.round \in Nat /\ p.img \in Nat)  OBVIOUS
      <3>4. Herd(cs2, ps \ {p0})  BY <1>2, <1>6, <3>2, <3>3, HerdKept
      <3>5. DOMAIN cs2 = DOMAIN cs
            /\ \A d \in DOMAIN cs : cs2[d].no = cs[d].no /\ cs2[d].first = cs[d].first
        BY <3>2 DEF Only, ResultOf
      <3> QED BY <2>1, <3>2, <3>4, <3>5
    <2>2. CASE cs[c].img # p0.img
      <3>1. cs2 = cs  BY <1>1, <2>2
      <3>2. Herd(cs, ps \ {p0})  BY <1>2 DEF Herd
      <3> QED BY <1>2, <2>2, <3>1, <3>2
    <2> QED BY <2>1, <2>2
  <1>11. Counted(s, cs2, ct)
    <2>1. \A d \in DOMAIN cs : cs2[d].first = cs[d].first  BY <1>10
    <2> QED BY <1>2, <1>5, <1>10, <2>1, FrameCounts
  <1>12. b \/ Clear(s, n + 1, cs2, ps \ {p0}, ct)
    <2> SUFFICES ASSUME ~b PROVE Clear(s, n + 1, cs2, ps \ {p0}, ct)
      OBVIOUS
    <2>1. Clear(r, n, cs, ps, ct)  BY <1>2
    <2>2. IF cs[p0.cow].img = p0.img
          THEN Only(cs, p0.cow, cs2) /\ ResultOf(cs[p0.cow], cs2[p0.cow], l.count, cs[p0.cow].done)
          ELSE cs2 = cs
      BY <1>1, <1>8, <1>10
    <2> QED BY <1>2, <1>4, <1>5, <2>1, <2>2, DetectedClear
  <1>13. z = 0 => InTurn(q2, cs2, ct)
    <2> SUFFICES ASSUME z = 0 PROVE InTurn(q2, cs2, ct)
      OBVIOUS
    <2>1. InTurn(q, cs, ct)  BY <1>2
    <2>2. l.kind # "start"  OBVIOUS
    <2> QED BY <1>2, <1>3, <1>10, <2>1, <2>2, InTurnStill, ZenonT(40)
  <1> QED BY <1>1, <1>4, <1>10, <1>11, <1>12, <1>13 DEF Known

\* Cow c is finished, and with it its rounds.
Finished(cs, ps, c, cs2, ps2) ==
    /\ cs2 = [cs EXCEPT ![c].done = TRUE]
    /\ \A p \in ps2 : p \in ps /\ p.cow # c

LEMMA KnownFinish ==
    ASSUME NEW q, NEW cs, NEW ps, NEW ct, NEW b, NEW z, Known(q, cs, ps, ct, b, z),
           NEW c \in DOMAIN cs, ~cs[c].done, NEW l, IsLine(l), l.kind = "finish", l.img = cs[c].img,
           NEW q2, q2 = Append(q, l), NEW cs2, NEW ps2, Finished(cs, ps, c, cs2, ps2)
    PROVE  Known(q2, cs2, ps2, ct, b, z)
  <1>1. PICK r, s, n : r = Tools!Stats(q) /\ s = Tools!Stats(q2) /\ n = Len(q)  OBVIOUS
  <1>2. /\ IsSeq(q) /\ (\A m \in DOMAIN q : IsLine(q[m])) /\ Herd(cs, ps) /\ Counted(r, cs, ct)
        /\ (b \/ Clear(r, n, cs, ps, ct)) /\ (z = 0 => InTurn(q, cs, ct)) /\ IsSeq(cs) /\ ct \in Nat
    BY <1>1, KnownParts
  <1>3. Longer(q, l, q2)  BY <1>2, LongerIs
  <1>4. r \in Readings /\ s = Tools!ReadNext(r, l) /\ n \in Nat /\ Len(q2) = n + 1 /\ IsSeq(q2)
        /\ \A m \in DOMAIN q2 : IsLine(q2[m])
    BY <1>1, <1>3 DEF Longer
  <1>5. s = Tools!ReadFinish(r, l)  BY <1>4, ReadNextIs
  <1>6. IsCow(cs[c])  BY <1>2 DEF Herd
  <1>7. /\ IsSeq(cs2) /\ Len(cs2) = Len(cs) /\ Only(cs, c, cs2)
        /\ ResultOf(cs[c], cs2[c], cs[c].final, TRUE) /\ IsCow(cs2[c])
    <2>1. cs2 = [cs EXCEPT ![c].done = TRUE]  BY DEF Finished
    <2> QED BY <1>2, <1>6, <2>1, EndIs
  <1>8. DOMAIN cs2 = DOMAIN cs
        /\ \A d \in DOMAIN cs : cs2[d].no = cs[d].no /\ cs2[d].first = cs[d].first
    BY <1>7 DEF Only, ResultOf
  <1>9. Herd(cs2, ps2)
    <2>1. \A p \in ps2 : p \in ps \/ (p.cow = c /\ p.round \in Nat /\ p.img \in Nat)  BY DEF Finished
    <2> QED BY <1>2, <1>7, <2>1, HerdKept
  <1>10. Counted(s, cs2, ct)
    <2>1. \A d \in DOMAIN cs : cs2[d].first = cs[d].first  BY <1>8
    <2> QED BY <1>2, <1>5, <1>8, <2>1, FinishCounts
  <1>14. \A p \in ps2 : p \in ps /\ p.cow # c  BY DEF Finished
  <1>11. b \/ Clear(s, n + 1, cs2, ps2, ct)
    <2> SUFFICES ASSUME ~b PROVE Clear(s, n + 1, cs2, ps2, ct)
      OBVIOUS
    <2>1. Clear(r, n, cs, ps, ct)  BY <1>2
    <2>2. PICK m : m = n + 1  OBVIOUS
    <2>3. EndRead(r, n, cs, ps, ct, c, l, s, cs2, ps2, m)
      BY <1>2, <1>4, <1>5, <1>7, <1>14, <2>1, <2>2 DEF EndRead, EndOf
    <2> QED BY <2>2, <2>3, EndReadClear
  <1>12. z = 0 => InTurn(q2, cs2, ct)
    <2> SUFFICES ASSUME z = 0 PROVE InTurn(q2, cs2, ct)
      OBVIOUS
    <2>1. InTurn(q, cs, ct)  BY <1>2
    <2>2. l.kind # "start"  OBVIOUS
    <2> QED BY <1>2, <1>3, <1>7, <1>8, <2>1, <2>2, InTurnStill
  <1> QED BY <1>1, <1>4, <1>9, <1>10, <1>11, <1>12 DEF Known

\* Of the cows under way the results are lost.
Lost(cs, cs2) == \A c \in DOMAIN cs :
                    ResultOf(cs[c], cs2[c], IF cs[c].done THEN cs[c].final ELSE Tools!Missing, TRUE)

LEMMA LostCows ==
    ASSUME NEW cs, NEW ps, Herd(cs, ps), NEW cs2,
           cs2 = [c \in DOMAIN cs |-> [cs[c] EXCEPT !.done = TRUE,
                                                  !.final = IF cs[c].done THEN @ ELSE Tools!Missing]]
    PROVE  Herd(cs2, {}) /\ DOMAIN cs2 = DOMAIN cs /\ Lost(cs, cs2)
  <1>1. IsSeq(cs) /\ \A c \in DOMAIN cs : IsCow(cs[c])  BY DEF Herd
  <1>3. Len(cs) \in Nat /\ DOMAIN cs = 1 .. Len(cs)  BY <1>1, SeqFacts
  <1>4. PICK N : N = Len(cs)  OBVIOUS
  <1>5. DOMAIN cs2 = DOMAIN cs /\ cs2 = [c \in 1 .. N |-> cs2[c]] /\ N \in Nat  BY <1>3, <1>4
  <1>6. IsSeq(cs2)  BY <1>5, BuiltIsSeq
  <1>7. \A c \in DOMAIN cs : IsCow(cs2[c])
           /\ ResultOf(cs[c], cs2[c], IF cs[c].done THEN cs[c].final ELSE Tools!Missing, TRUE)
    <2> SUFFICES ASSUME NEW c \in DOMAIN cs
                 PROVE  IsCow(cs2[c])
                        /\ ResultOf(cs[c], cs2[c], IF cs[c].done THEN cs[c].final ELSE Tools!Missing, TRUE)
      OBVIOUS
    <2>1. PICK x, y : x = cs[c] /\ y = cs2[c]  OBVIOUS
    <2>2. IsCow(x) /\ y = [x EXCEPT !.done = TRUE, !.final = IF x.done THEN @ ELSE Tools!Missing]
      BY <1>1, <2>1
    <2>3. IsCow(y) /\ ResultOf(x, y, IF x.done THEN x.final ELSE Tools!Missing, TRUE)  BY <2>2, LostIs
    <2> QED BY <2>1, <2>3
  <1>8. Herd(cs2, {})  BY <1>5, <1>6, <1>7 DEF Herd
  <1> QED BY <1>5, <1>7, <1>8 DEF Lost

\* A restart right after the first cow blurs.
Blurs(b, ct, b2) == ~b2 => ~b /\ ct # 1

LEMMA KnownRestart ==
    ASSUME NEW q, NEW cs, NEW ps, NEW ct, NEW b, NEW z, Known(q, cs, ps, ct, b, z), ct > 0,
           NEW cs2, Herd(cs2, {}), DOMAIN cs2 = DOMAIN cs, Lost(cs, cs2),
           NEW b2, Blurs(b, ct, b2), NEW z2, z2 # 0
    PROVE  Known(q, cs2, {}, 0, b2, z2)
  <1>1. PICK r, n : r = Tools!Stats(q) /\ n = Len(q)  OBVIOUS
  <1>2. /\ IsSeq(q) /\ (\A m \in DOMAIN q : IsLine(q[m])) /\ Herd(cs, ps) /\ Counted(r, cs, ct)
        /\ (b \/ Clear(r, n, cs, ps, ct)) /\ (z = 0 => InTurn(q, cs, ct)) /\ IsSeq(cs) /\ ct \in Nat
    BY <1>1, KnownParts
  <1>9. Counted(r, cs2, 0)
    <2>1. r \in Readings /\ 0 \in Nat /\ ~(0 > 0)  BY <1>2 DEF Counted
    <2>2. \A c \in DOMAIN cs : cs2[c].first = cs[c].first  BY DEF Lost, ResultOf
    <2>3. PICK own : /\ \A k \in DOMAIN r.cycles : own[k] \in DOMAIN cs /\ cs[own[k]].first = r.cycles[k].first
                     /\ \A j, k \in DOMAIN r.cycles : own[j] = own[k] => j = k
      BY <1>2 DEF Counted
    <2>4. /\ \A k \in DOMAIN r.cycles : own[k] \in DOMAIN cs2 /\ cs2[own[k]].first = r.cycles[k].first
          /\ \A j, k \in DOMAIN r.cycles : own[j] = own[k] => j = k
      BY <2>2, <2>3
    <2>5. \E o : /\ \A k \in DOMAIN r.cycles : o[k] \in DOMAIN cs2 /\ cs2[o[k]].first = r.cycles[k].first
                 /\ \A j, k \in DOMAIN r.cycles : o[j] = o[k] => j = k
      BY <2>4
    <2> QED BY <2>1, <2>5 DEF Counted
  <1>10. b2 \/ Clear(r, n, cs2, {}, 0)
    <2> SUFFICES ASSUME ~b2 PROVE Clear(r, n, cs2, {}, 0)
      OBVIOUS
    <2>1. Clear(r, n, cs, ps, ct) /\ ct # 1  BY <1>2 DEF Blurs
    <2> QED BY <1>2, <2>1, RestartClear DEF Lost
  <1> QED BY <1>1, <1>2, <1>9, <1>10 DEF Known

-----------------------------------------------------------------------------
(* The log and the cows in every state.                                      *)

ToolsInv == LinesInv /\ Known(Tools!AllLines, cows, pending, counter, blurred, restarts)

LEMMA ToolsStart ==
    ASSUME Tools!ToolsAssumption, Tools!Init
    PROVE  ToolsInv
  <1>1. LinesInv /\ Len(Tools!AllLines) = 0  BY LinesStart
  <1>2. PICK q : q = Tools!AllLines  OBVIOUS
  <1>3. IsSeq(q)  BY <1>1, <1>2, AllLinesAre DEF LinesInv
  <1>4. q = <<>>  BY <1>1, <1>2, <1>3, EmptySeq DEF IsSeq
  <1>5. cows = <<>> /\ pending = {} /\ counter = 0  BY DEF Tools!Init
  <1>6. PICK b, z : b = blurred /\ z = restarts  OBVIOUS
  <1>7. Known(<<>>, <<>>, {}, 0, b, z)  BY KnownFirst
  <1> QED BY <1>1, <1>2, <1>4, <1>5, <1>6, <1>7 DEF ToolsInv

\* A line that is written now.
Dated(l, kind, no, round, img, count) ==
    /\ IsLine(l) /\ l.kind = kind /\ l.cow = no /\ l.round = round /\ l.img = img /\ l.count = count
    /\ l.at = clock

LEMMA ALine ==
    ASSUME clock \in Nat
    PROVE  \A kind, no, round, img, count, l :
              /\ kind \in {"start", "frame", "finish"} /\ no \in Nat /\ round \in Nat /\ img \in Nat
              /\ count \in Nat /\ l = Tools!Line(kind, no, round, img, count)
              => Dated(l, kind, no, round, img, count)
  <1> SUFFICES ASSUME NEW kind, NEW no, NEW round, NEW img, NEW count, NEW l,
                      kind \in {"start", "frame", "finish"}, no \in Nat, round \in Nat, img \in Nat,
                      count \in Nat, l = Tools!Line(kind, no, round, img, count)
               PROVE  Dated(l, kind, no, round, img, count)
    OBVIOUS
  <1>1. /\ l.kind = kind /\ l.cow = no /\ l.round = round /\ l.img = img /\ l.count = count
        /\ l.at = clock
    BY LineIs
  <1> QED BY <1>1 DEF IsLine, Dated

\* What is known before a step.
Seen(q, cs, ps, ct, b, z, n) ==
    /\ q = Tools!AllLines /\ cs = cows /\ ps = pending /\ ct = counter /\ b = blurred
    /\ z = restarts /\ n = Len(q) + 1 /\ n = Tools!Img
    /\ Known(q, cs, ps, ct, b, z) /\ Herd(cs, ps) /\ IsSeq(cs) /\ ct \in Nat /\ clock \in Nat
    /\ Len(q) \in Nat /\ n \in Nat
    /\ \A c \in DOMAIN cs : z = 0 => cs[c].first <= clock

LEMMA SeenIs ==
    ASSUME ToolsInv
    PROVE  \E q, cs, ps, ct, b, z, n : Seen(q, cs, ps, ct, b, z, n)
  <1>1. PICK q, cs, ps, ct, b, z, n :
           /\ q = Tools!AllLines /\ cs = cows /\ ps = pending /\ ct = counter /\ b = blurred
           /\ z = restarts /\ n = Len(q) + 1 /\ n = Tools!Img
    BY DEF Tools!Img
  <1>2. Known(q, cs, ps, ct, b, z)  BY <1>1 DEF ToolsInv
  <1>3. PICK r : r = Tools!Stats(q)  OBVIOUS
  <1>4. /\ IsSeq(q) /\ (\A m \in DOMAIN q : IsLine(q[m])) /\ Herd(cs, ps) /\ Counted(r, cs, ct)
        /\ (b \/ Clear(r, Len(q), cs, ps, ct)) /\ (z = 0 => InTurn(q, cs, ct)) /\ IsSeq(cs) /\ ct \in Nat
    BY <1>2, <1>3, KnownParts
  <1>5. Len(q) \in Nat /\ n \in Nat  BY <1>1, <1>4, SeqFacts
  <1>6. clock \in Nat /\ \A m \in DOMAIN q : q[m].at <= clock
    BY <1>1 DEF ToolsInv, LinesInv, FilesInv
  <1>7. \A c \in DOMAIN cs : z = 0 => cs[c].first <= clock  BY <1>4, <1>6 DEF InTurn
  <1>8. Seen(q, cs, ps, ct, b, z, n)  BY <1>1, <1>2, <1>4, <1>5, <1>6, <1>7 DEF Seen
  <1> QED BY <1>8

LEMMA NewCowKeeps ==
    ASSUME ToolsInv, Tools!NewCow
    PROVE  ToolsInv'
  <1>0. PICK q, cs, ps, ct, b, z, n : Seen(q, cs, ps, ct, b, z, n)  BY SeenIs
  <1>1. /\ q = Tools!AllLines /\ cs = cows /\ ps = pending /\ ct = counter /\ b = blurred
        /\ z = restarts /\ n = Len(q) + 1 /\ n = Tools!Img
        /\ Known(q, cs, ps, ct, b, z) /\ Herd(cs, ps) /\ IsSeq(cs) /\ ct \in Nat /\ clock \in Nat
        /\ Len(q) \in Nat /\ n \in Nat
        /\ \A c \in DOMAIN cs : z = 0 => cs[c].first <= clock
    BY <1>0 DEF Seen
  <1>2. PICK l, x, p0 : /\ l = Tools!Line("start", ct + 1, 1, n, 0)
                        /\ x = [no |-> ct + 1, first |-> clock, rounds |-> 1, img |-> n,
                                final |-> Tools!Missing, done |-> FALSE]
                        /\ p0 = [cow |-> Len(cs) + 1, round |-> 1, img |-> n]
    OBVIOUS
  <1>3. /\ Writes(l) /\ counter' = ct + 1 /\ pending' = ps \cup {p0} /\ cows' = Append(cs, x)
        /\ clock' = clock /\ restarts' = restarts /\ blurred' = blurred
    BY <1>1, <1>2 DEF Tools!NewCow, Tools!Write, Writes
  <1>4. /\ IsLine(l) /\ l.kind = "start" /\ l.cow = ct + 1 /\ l.round = 1 /\ l.img = n /\ l.count = 0
        /\ l.at = clock
    <2>1. PICK k0, n0, r0, i0, c0 : k0 = "start" /\ n0 = ct + 1 /\ r0 = 1 /\ i0 = n /\ c0 = 0  OBVIOUS
    <2>2. /\ k0 \in {"start", "frame", "finish"} /\ n0 \in Nat /\ r0 \in Nat /\ i0 \in Nat /\ c0 \in Nat
          /\ l = Tools!Line(k0, n0, r0, i0, c0) /\ clock \in Nat
      BY <1>1, <1>2, <2>1
    <2>3. Dated(l, k0, n0, r0, i0, c0)  BY <2>2, ALine
    <2> QED BY <2>1, <2>3 DEF Dated
  <1>5. LinesInv' /\ Grows(l)  BY <1>3, <1>4, WriteGrows DEF ToolsInv
  <1>6. PICK q2 : q2 = Append(q, l)  OBVIOUS
  <1>7. Tools!AllLines' = q2  BY <1>1, <1>5, <1>6 DEF Grows
  <1>8. PICK a : a = clock  OBVIOUS
  <1>9. IsCow(x) /\ IsNew(x, l)
    <2>1. /\ x.no = ct + 1 /\ x.first = a /\ x.rounds = 1 /\ x.img = n
          /\ x.final = Tools!Missing /\ x.done = FALSE
      BY <1>2, <1>8
    <2>2. x = [no |-> x.no, first |-> x.first, rounds |-> x.rounds, img |-> x.img,
               final |-> x.final, done |-> x.done]
      BY <1>2, <1>8
    <2>3. x.final \in Results  BY <2>1 DEF Results
    <2>4. x.done \in BOOLEAN  BY <2>1
    <2>5. a \in Nat /\ l.at = a  BY <1>1, <1>4, <1>8
    <2>6. ct + 1 \in Nat /\ ct + 1 > 0 /\ 1 \in Nat  BY <1>1
    <2> QED BY <1>1, <1>4, <2>1, <2>2, <2>3, <2>4, <2>5, <2>6 DEF IsCow, IsNew
  <1>10. p0.cow = Len(cs) + 1 /\ p0.round = 1 /\ p0.img = Len(q) + 1  BY <1>1, <1>2
  <1>11. PICK cs2, ps2, ct2 : cs2 = Append(cs, x) /\ ps2 = ps \cup {p0} /\ ct2 = ct + 1  OBVIOUS
  <1>12. Known(q2, cs2, ps2, ct2, b, z)
    <2>1. l.img = Len(q) + 1  BY <1>1, <1>4
    <2> QED BY <1>1, <1>4, <1>6, <1>9, <1>10, <1>11, <2>1, KnownNewCow
  <1> QED BY <1>1, <1>3, <1>5, <1>7, <1>11, <1>12 DEF ToolsInv

LEMMA NextRoundKeeps ==
    ASSUME ToolsInv, NEW c \in DOMAIN cows, Tools!NextRound(c)
    PROVE  ToolsInv'
  <1>0. PICK q, cs, ps, ct, b, z, n : Seen(q, cs, ps, ct, b, z, n)  BY SeenIs
  <1>1. /\ q = Tools!AllLines /\ cs = cows /\ ps = pending /\ ct = counter /\ b = blurred
        /\ z = restarts /\ n = Len(q) + 1 /\ n = Tools!Img
        /\ Known(q, cs, ps, ct, b, z) /\ Herd(cs, ps) /\ IsSeq(cs) /\ ct \in Nat /\ clock \in Nat
        /\ Len(q) \in Nat /\ n \in Nat
        /\ \A d \in DOMAIN cs : z = 0 => cs[d].first <= clock
    BY <1>0 DEF Seen
  <1>2. /\ c \in DOMAIN cs /\ ~cs[c].done /\ c = Len(cs) /\ cs[c].no = ct
    BY <1>1 DEF Tools!NextRound
  <1>3. PICK u : u = cs[c].rounds + 1  OBVIOUS
  <1>4. u \in Nat  BY <1>1, <1>2, <1>3 DEF Herd, IsCow
  <1>5. PICK l, p0, cs2 : /\ l = Tools!Line("start", ct, u, n, 0)
                          /\ p0 = [cow |-> c, round |-> u, img |-> n]
                          /\ cs2 = [cs EXCEPT ![c].rounds = @ + 1, ![c].img = n, ![c].final = Tools!Missing]
    OBVIOUS
  <1>6. /\ Writes(l) /\ pending' = ps \cup {p0} /\ cows' = cs2
        /\ clock' = clock /\ counter' = ct /\ restarts' = restarts /\ blurred' = blurred
    <2>1. pending' = ps \cup {p0}  BY <1>1, <1>3, <1>5 DEF Tools!NextRound
    <2>2. cows' = cs2  BY <1>1, <1>5 DEF Tools!NextRound
    <2>3. Writes(l)  BY <1>1, <1>2, <1>3, <1>5 DEF Tools!NextRound, Tools!Write, Writes
    <2>4. clock' = clock /\ counter' = ct /\ restarts' = restarts /\ blurred' = blurred
      BY <1>1 DEF Tools!NextRound
    <2> QED BY <2>1, <2>2, <2>3, <2>4
  <1>7. /\ IsLine(l) /\ l.kind = "start" /\ l.cow = ct /\ l.round = u /\ l.img = n /\ l.count = 0
        /\ l.at = clock
    <2>1. PICK k0, n0, r0, i0, c0 : k0 = "start" /\ n0 = ct /\ r0 = u /\ i0 = n /\ c0 = 0  OBVIOUS
    <2>2. /\ k0 \in {"start", "frame", "finish"} /\ n0 \in Nat /\ r0 \in Nat /\ i0 \in Nat /\ c0 \in Nat
          /\ l = Tools!Line(k0, n0, r0, i0, c0) /\ clock \in Nat
      BY <1>1, <1>4, <1>5, <2>1
    <2>3. Dated(l, k0, n0, r0, i0, c0)  BY <2>2, ALine
    <2> QED BY <2>1, <2>3 DEF Dated
  <1>8. LinesInv' /\ Grows(l)  BY <1>6, <1>7, WriteGrows DEF ToolsInv
  <1>9. PICK q2 : q2 = Append(q, l)  OBVIOUS
  <1>10. Tools!AllLines' = q2  BY <1>1, <1>8, <1>9 DEF Grows
  <1>11. p0.cow = c /\ p0.round = cs[c].rounds + 1 /\ p0.img = Len(q) + 1  BY <1>1, <1>3, <1>5
  <1>12. l.round = cs[c].rounds + 1 /\ l.img = Len(q) + 1 /\ (z = 0 => cs[c].first <= l.at)
    BY <1>1, <1>2, <1>3, <1>7
  <1>13. cs2 = [cs EXCEPT ![c].rounds = @ + 1, ![c].img = Len(q) + 1, ![c].final = Tools!Missing]
    BY <1>1, <1>5
  <1>14. PICK ps2 : ps2 = ps \cup {p0}  OBVIOUS
  <1>15. Known(q2, cs2, ps2, ct, b, z)
    BY <1>1, <1>2, <1>7, <1>9, <1>11, <1>12, <1>13, <1>14, KnownNextRound
  <1> QED BY <1>1, <1>6, <1>8, <1>10, <1>14, <1>15 DEF ToolsInv

LEMMA DetectedKeeps ==
    ASSUME Tools!ToolsAssumption, ToolsInv, NEW p0 \in pending, Tools!Detected(p0)
    PROVE  ToolsInv'
  <1>0. PICK q, cs, ps, ct, b, z, n : Seen(q, cs, ps, ct, b, z, n)  BY SeenIs
  <1>1. /\ q = Tools!AllLines /\ cs = cows /\ ps = pending /\ ct = counter /\ b = blurred
        /\ z = restarts /\ n = Len(q) + 1 /\ n = Tools!Img
        /\ Known(q, cs, ps, ct, b, z) /\ Herd(cs, ps) /\ IsSeq(cs) /\ ct \in Nat /\ clock \in Nat
        /\ Len(q) \in Nat /\ n \in Nat
        /\ \A d \in DOMAIN cs : z = 0 => cs[d].first <= clock
    BY <1>0 DEF Seen
  <1>2. PICK v \in Counts :
           /\ Tools!Write(Tools!Line("frame", cows[p0.cow].no, p0.round, 0, v))
           /\ cows' = IF cows[p0.cow].img = p0.img THEN [cows EXCEPT ![p0.cow].final = v] ELSE cows
    BY DEF Tools!Detected
  <1>3. v \in Nat  BY Constants
  <1>4. PICK no, u : no = cs[p0.cow].no /\ u = p0.round  OBVIOUS
  <1>5. no \in Nat /\ u \in Nat /\ p0 \in ps  BY <1>1, <1>4 DEF Herd, IsCow
  <1>6. PICK l, cs2, ps2 : /\ l = Tools!Line("frame", no, u, 0, v)
                           /\ cs2 = IF cs[p0.cow].img = p0.img THEN [cs EXCEPT ![p0.cow].final = v] ELSE cs
                           /\ ps2 = ps \ {p0}
    OBVIOUS
  <1>7. /\ Writes(l) /\ pending' = ps2 /\ cows' = cs2
        /\ clock' = clock /\ counter' = ct /\ restarts' = restarts /\ blurred' = blurred
    <2>1. pending' = ps2  BY <1>1, <1>6 DEF Tools!Detected
    <2>2. cows' = cs2  BY <1>1, <1>2, <1>6
    <2>3. Writes(l)  BY <1>1, <1>2, <1>4, <1>6 DEF Tools!Write, Writes
    <2>4. clock' = clock /\ counter' = ct /\ restarts' = restarts /\ blurred' = blurred
      BY <1>1 DEF Tools!Detected
    <2> QED BY <2>1, <2>2, <2>3, <2>4
  <1>8. /\ IsLine(l) /\ l.kind = "frame" /\ l.cow = no /\ l.round = u /\ l.img = 0 /\ l.count = v
        /\ l.at = clock
    <2>1. PICK k0, n0, r0, i0, c0 : k0 = "frame" /\ n0 = no /\ r0 = u /\ i0 = 0 /\ c0 = v  OBVIOUS
    <2>2. /\ k0 \in {"start", "frame", "finish"} /\ n0 \in Nat /\ r0 \in Nat /\ i0 \in Nat /\ c0 \in Nat
          /\ l = Tools!Line(k0, n0, r0, i0, c0) /\ clock \in Nat
      BY <1>1, <1>3, <1>5, <1>6, <2>1
    <2>3. Dated(l, k0, n0, r0, i0, c0)  BY <2>2, ALine
    <2> QED BY <2>1, <2>3 DEF Dated
  <1>9. LinesInv' /\ Grows(l)  BY <1>7, <1>8, WriteGrows DEF ToolsInv
  <1>10. PICK q2 : q2 = Append(q, l)  OBVIOUS
  <1>11. Tools!AllLines' = q2  BY <1>1, <1>9, <1>10 DEF Grows
  <1>12. l.cow = cs[p0.cow].no /\ l.round = p0.round  BY <1>4, <1>8
  <1>13. cs2 = IF cs[p0.cow].img = p0.img THEN [cs EXCEPT ![p0.cow].final = l.count] ELSE cs
    BY <1>6, <1>8
  <1>14. Known(q2, cs2, ps \ {p0}, ct, b, z)
    BY <1>1, <1>5, <1>8, <1>10, <1>12, <1>13, KnownDetected
  <1>15. Known(q2, cs2, ps2, ct, b, z)  BY <1>6, <1>14
  <1> QED BY <1>1, <1>7, <1>9, <1>11, <1>15 DEF ToolsInv

LEMMA FinishKeeps ==
    ASSUME ToolsInv, NEW c \in DOMAIN cows, Tools!FinishCow(c)
    PROVE  ToolsInv'
  <1>0. PICK q, cs, ps, ct, b, z, n : Seen(q, cs, ps, ct, b, z, n)  BY SeenIs
  <1>1. /\ q = Tools!AllLines /\ cs = cows /\ ps = pending /\ ct = counter /\ b = blurred
        /\ z = restarts /\ n = Len(q) + 1 /\ n = Tools!Img
        /\ Known(q, cs, ps, ct, b, z) /\ Herd(cs, ps) /\ IsSeq(cs) /\ ct \in Nat /\ clock \in Nat
        /\ Len(q) \in Nat /\ n \in Nat
        /\ \A d \in DOMAIN cs : z = 0 => cs[d].first <= clock
    BY <1>0 DEF Seen
  <1>2. c \in DOMAIN cs /\ ~cs[c].done  BY <1>1 DEF Tools!FinishCow
  <1>4. PICK no, m : no = cs[c].no /\ m = cs[c].img  OBVIOUS
  <1>5. no \in Nat /\ m \in Nat  BY <1>1, <1>2, <1>4 DEF Herd, IsCow
  <1>6. PICK l, cs2, ps2 : /\ l = Tools!Line("finish", no, 0, m, 0)
                           /\ cs2 = [cs EXCEPT ![c].done = TRUE]
                           /\ ps2 = {p \in ps : p.cow # c}
    OBVIOUS
  <1>7. /\ Writes(l) /\ pending' = ps2 /\ cows' = cs2
        /\ clock' = clock /\ counter' = ct /\ restarts' = restarts /\ blurred' = blurred
    <2>1. pending' = ps2  BY <1>1, <1>6 DEF Tools!FinishCow
    <2>2. cows' = cs2  BY <1>1, <1>6 DEF Tools!FinishCow
    <2>3. Writes(l)  BY <1>1, <1>4, <1>6 DEF Tools!FinishCow, Tools!Write, Writes
    <2>4. clock' = clock /\ counter' = ct /\ restarts' = restarts /\ blurred' = blurred
      BY <1>1 DEF Tools!FinishCow
    <2> QED BY <2>1, <2>2, <2>3, <2>4
  <1>8. /\ IsLine(l) /\ l.kind = "finish" /\ l.cow = no /\ l.round = 0 /\ l.img = m /\ l.count = 0
        /\ l.at = clock
    <2>1. PICK k0, n0, r0, i0, c0 : k0 = "finish" /\ n0 = no /\ r0 = 0 /\ i0 = m /\ c0 = 0  OBVIOUS
    <2>2. /\ k0 \in {"start", "frame", "finish"} /\ n0 \in Nat /\ r0 \in Nat /\ i0 \in Nat /\ c0 \in Nat
          /\ l = Tools!Line(k0, n0, r0, i0, c0) /\ clock \in Nat
      BY <1>1, <1>5, <1>6, <2>1
    <2>3. Dated(l, k0, n0, r0, i0, c0)  BY <2>2, ALine
    <2> QED BY <2>1, <2>3 DEF Dated
  <1>9. LinesInv' /\ Grows(l)  BY <1>7, <1>8, WriteGrows DEF ToolsInv
  <1>10. PICK q2 : q2 = Append(q, l)  OBVIOUS
  <1>11. Tools!AllLines' = q2  BY <1>1, <1>9, <1>10 DEF Grows
  <1>12. l.img = cs[c].img  BY <1>4, <1>8
  <1>13. Known(q2, cs2, ps2, ct, b, z)
    <2>1. Finished(cs, ps, c, cs2, ps2)  BY <1>6 DEF Finished
    <2> QED BY <1>1, <1>2, <1>8, <1>10, <1>12, <2>1, KnownFinish
  <1> QED BY <1>1, <1>7, <1>9, <1>11, <1>13 DEF ToolsInv

LEMMA RestartKeeps ==
    ASSUME Tools!ToolsAssumption, ToolsInv, Tools!RestartProgram
    PROVE  ToolsInv'
  <1>0. PICK q, cs, ps, ct, b, z, n : Seen(q, cs, ps, ct, b, z, n)  BY SeenIs
  <1>1. /\ q = Tools!AllLines /\ cs = cows /\ ps = pending /\ ct = counter /\ b = blurred
        /\ z = restarts /\ n = Len(q) + 1 /\ n = Tools!Img
        /\ Known(q, cs, ps, ct, b, z) /\ Herd(cs, ps) /\ IsSeq(cs) /\ ct \in Nat /\ clock \in Nat
        /\ Len(q) \in Nat /\ n \in Nat
        /\ \A d \in DOMAIN cs : z = 0 => cs[d].first <= clock
    BY <1>0 DEF Seen
  <1>2. LinesInv' /\ Tools!AllLines' = q
    BY <1>1, RestartKeepsLines DEF ToolsInv
  <1>3. PICK cs2 : cs2 = [c \in DOMAIN cs |-> [cs[c] EXCEPT !.done = TRUE,
                                                  !.final = IF cs[c].done THEN @ ELSE Tools!Missing]]
    OBVIOUS
  <1>4. cows' = cs2  BY <1>1, <1>3 DEF Tools!RestartProgram
  <1>5. ct > 0 /\ counter' = 0 /\ pending' = {} /\ restarts' = z + 1 /\ blurred' = (b \/ ct = 1)
    BY <1>1 DEF Tools!RestartProgram
  <1>6. z \in Nat  BY <1>1 DEF ToolsInv, LinesInv, FilesInv
  <1>7. PICK z2 : z2 = z + 1  OBVIOUS
  <1>8. z2 # 0  BY <1>6, <1>7
  <1>9. PICK b2 : b2 = (b \/ ct = 1)  OBVIOUS
  <1>10. Blurs(b, ct, b2)  BY <1>9 DEF Blurs
  <1>11. Herd(cs2, {}) /\ DOMAIN cs2 = DOMAIN cs /\ Lost(cs, cs2)  BY <1>1, <1>3, LostCows
  <1>12. Known(q, cs2, {}, 0, b2, z2)
    <2> HIDE <1>3, <1>9
    <2> QED BY <1>1, <1>5, <1>8, <1>10, <1>11, KnownRestart
  <1> QED BY <1>2, <1>4, <1>5, <1>7, <1>9, <1>12 DEF ToolsInv

LEMMA ToolsStep ==
    ASSUME Tools!ToolsAssumption, ToolsInv, Tools!Next \/ UNCHANGED toolVars
    PROVE  ToolsInv'
  <1>1. CASE UNCHANGED toolVars
    <2>1. LinesInv' /\ Tools!AllLines' = Tools!AllLines  BY <1>1, IdleKeepsLines DEF ToolsInv
    <2>2. /\ cows' = cows /\ pending' = pending /\ counter' = counter /\ blurred' = blurred
          /\ restarts' = restarts
      BY <1>1 DEF toolVars
    <2> QED BY <2>1, <2>2 DEF ToolsInv
  <1>2. CASE Tools!Tick
    <2>1. LinesInv' /\ Tools!AllLines' = Tools!AllLines  BY <1>2, TickKeepsLines DEF ToolsInv
    <2>2. /\ cows' = cows /\ pending' = pending /\ counter' = counter /\ blurred' = blurred
          /\ restarts' = restarts
      BY <1>2 DEF Tools!Tick
    <2> QED BY <2>1, <2>2 DEF ToolsInv
  <1>3. CASE Tools!NewCow  BY <1>3, NewCowKeeps
  <1>4. CASE Tools!RestartProgram  BY <1>4, RestartKeeps
  <1>5. CASE \E c \in DOMAIN cows : Tools!NextRound(c) \/ Tools!FinishCow(c)
    BY <1>5, NextRoundKeeps, FinishKeeps
  <1>6. CASE \E p \in pending : Tools!Detected(p)  BY <1>6, DetectedKeeps
  <1> QED BY <1>1, <1>2, <1>3, <1>4, <1>5, <1>6 DEF Tools!Next

-----------------------------------------------------------------------------
(* The report over the whole log.                                            *)

\* h pairs the members of g with those of f that have the same result.
Pairs(h, g, f) ==
    /\ \A x \in DOMAIN g : h[x] \in DOMAIN f /\ f[h[x]] = g[x]
    /\ \A x, y \in DOMAIN g : h[x] = h[y] => x = y
    /\ \A k \in DOMAIN f : \E x \in DOMAIN g : h[x] = k

\* Of paired results as many are in a class.
LEMMA PairedClass ==
    ASSUME NEW g, NEW f, NEW h, Pairs(h, g, f), NEW A, NEW B,
           A \subseteq DOMAIN g, B \subseteq DOMAIN f, IsFiniteSet(DOMAIN g),
           \A x \in DOMAIN g : x \in A <=> h[x] \in B
    PROVE  Cardinality(A) = Cardinality(B)
  <1>1. IsFiniteSet(A)  BY FS_Subset
  <1>2. \A x, y \in A : h[x] = h[y] => x = y  BY DEF Pairs
  <1>3. B = {h[x] : x \in A}
    <2>1. \A k \in B : k \in {h[x] : x \in A}
      <3> SUFFICES ASSUME NEW k \in B PROVE k \in {h[x] : x \in A}  OBVIOUS
      <3>1. PICK x \in DOMAIN g : h[x] = k  BY DEF Pairs
      <3>2. x \in A  BY <3>1
      <3> QED BY <3>1, <3>2
    <2>2. \A x \in A : h[x] \in B  OBVIOUS
    <2> QED BY <2>1, <2>2
  <1> QED BY <1>1, <1>2, <1>3, OneToOne

LEMMA PairedSummaries ==
    ASSUME NEW g, NEW f, NEW h, Pairs(h, g, f), IsFiniteSet(DOMAIN g)
    PROVE  Tools!Summary(f) = Tools!Summary(g)
  <1>1. Tools!Cardinality(DOMAIN f) = Tools!Cardinality(DOMAIN g)
    <2>1. \A x \in DOMAIN g : h[x] \in DOMAIN f  BY DEF Pairs
    <2>2. PICK A, B : A = DOMAIN g /\ B = DOMAIN f  OBVIOUS
    <2>3. Cardinality(A) = Cardinality(B)  BY <2>1, <2>2, PairedClass
    <2> QED BY <2>2, <2>3, SameCardinality
  <1>2. Tools!Cardinality({c \in DOMAIN f : f[c] = Tools!Missing})
           = Tools!Cardinality({c \in DOMAIN g : g[c] = Tools!Missing})
    <2>1. PICK A, B : A = {c \in DOMAIN g : g[c] = Tools!Missing} /\ B = {c \in DOMAIN f : f[c] = Tools!Missing}
      OBVIOUS
    <2>2. A \subseteq DOMAIN g /\ B \subseteq DOMAIN f  BY <2>1
    <2>3. \A x \in DOMAIN g : x \in A <=> h[x] \in B  BY <2>1 DEF Pairs
    <2>4. Cardinality(A) = Cardinality(B)  BY <2>2, <2>3, PairedClass
    <2> QED BY <2>1, <2>4, SameCardinality
  <1>3. \A n : Tools!Cardinality({c \in DOMAIN f : Tools!Capped(f[c]) = n})
                  = Tools!Cardinality({c \in DOMAIN g : Tools!Capped(g[c]) = n})
    <2> SUFFICES ASSUME NEW n
                 PROVE  Tools!Cardinality({c \in DOMAIN f : Tools!Capped(f[c]) = n})
                           = Tools!Cardinality({c \in DOMAIN g : Tools!Capped(g[c]) = n})
      OBVIOUS
    <2>1. PICK A, B : A = {c \in DOMAIN g : Tools!Capped(g[c]) = n} /\ B = {c \in DOMAIN f : Tools!Capped(f[c]) = n}
      OBVIOUS
    <2>2. A \subseteq DOMAIN g /\ B \subseteq DOMAIN f  BY <2>1
    <2>3. \A x \in DOMAIN g : x \in A <=> h[x] \in B  BY <2>1 DEF Pairs
    <2>4. Cardinality(A) = Cardinality(B)  BY <2>2, <2>3, PairedClass
    <2> QED BY <2>1, <2>4, SameCardinality
  <1>4. PICK F, G : /\ F = [n \in 0 .. Full |-> n * Tools!Cardinality({c \in DOMAIN f : Tools!Capped(f[c]) = n})]
                    /\ G = [n \in 0 .. Full |-> n * Tools!Cardinality({c \in DOMAIN g : Tools!Capped(g[c]) = n})]
    OBVIOUS
  <1>5. F = G  BY <1>3, <1>4
  <1>6. Tools!Total(F, Full) = Tools!Total(G, Full)  BY <1>5
  <1> QED BY <1>1, <1>2, <1>4, <1>6 DEF Tools!Summary

\* The cows of a window with their results.
RealOf(cs, w) == [c \in {k \in DOMAIN cs : Tools!In(cs[k].first, w)} |->
                     IF cs[c].done THEN cs[c].final ELSE Tools!Missing]

LEMMA RealOfIs ==
    ASSUME NEW cs, IsSeq(cs), NEW w, NEW g, g = RealOf(cs, w)
    PROVE  /\ DOMAIN g = {k \in DOMAIN cs : Tools!In(cs[k].first, w)} /\ IsFiniteSet(DOMAIN g)
           /\ \A c \in DOMAIN g : g[c] = IF cs[c].done THEN cs[c].final ELSE Tools!Missing
  <1>1. DOMAIN g = {k \in DOMAIN cs : Tools!In(cs[k].first, w)}
        /\ \A c \in DOMAIN g : g[c] = IF cs[c].done THEN cs[c].final ELSE Tools!Missing
    BY DEF RealOf
  <1>2. Len(cs) \in Nat /\ DOMAIN cs = 1 .. Len(cs)  BY SeqFacts
  <1>3. IsFiniteSet(DOMAIN g)
    <2>1. PICK T, n : T = DOMAIN g /\ n = Len(cs)  OBVIOUS
    <2>2. n \in Nat /\ T \subseteq 1 .. n  BY <1>1, <1>2, <2>1
    <2> QED BY <2>1, <2>2, DomainCard
  <1> QED BY <1>1, <1>3

\* A reading that has told the cows apart reports what was.
LEMMA ClearReport ==
    ASSUME NEW r, r \in Readings, NEW cs, IsSeq(cs), NEW n, NEW ps, NEW ct, Clear(r, n, cs, ps, ct), NEW w,
           NEW f, SelectedIs(r, w, f)
    PROVE  Tools!Summary(f) = Tools!Summary(RealOf(cs, w))
  <1>1. PICK fr, cy, g : fr = r.frames /\ cy = r.cycles /\ g = RealOf(cs, w)  OBVIOUS
  <1>2. Owned(fr, cy, cs) /\ Agrees(fr, cy, cs)  BY <1>1 DEF Clear
  <1>3. /\ DOMAIN g = {k \in DOMAIN cs : Tools!In(cs[k].first, w)} /\ IsFiniteSet(DOMAIN g)
        /\ \A c \in DOMAIN g : g[c] = IF cs[c].done THEN cs[c].final ELSE Tools!Missing
    BY <1>1, RealOfIs
  <1>4. /\ DOMAIN f = {k \in DOMAIN cy : Tools!In(cy[k].first, w)}
        /\ \A k \in DOMAIN f : f[k] = cy[k].final
    BY <1>1 DEF SelectedIs
  <1>5. PICK h : h = [c \in DOMAIN cs |-> Key(fr, cs, c)]  OBVIOUS
  <1>6. \A c \in DOMAIN g : c \in DOMAIN cs /\ Tools!In(cs[c].first, w) /\ h[c] = Key(fr, cs, c)
    BY <1>3, <1>5
  <1>7. \A c \in DOMAIN cs : h[c] = Key(fr, cs, c) /\ h[c] \in DOMAIN cy /\ cy[h[c]].first = cs[c].first
                             /\ cy[h[c]].final = IF cs[c].done THEN cs[c].final ELSE Tools!Missing
    BY <1>2, <1>5 DEF Owned, Agrees
  <1>8. \A c \in DOMAIN g : h[c] \in DOMAIN f /\ f[h[c]] = g[c]
    BY <1>3, <1>4, <1>6, <1>7
  <1>9. \A x, y \in DOMAIN g : h[x] = h[y] => x = y
    BY <1>2, <1>6 DEF Owned
  <1>10. \A k \in DOMAIN f : \E x \in DOMAIN g : h[x] = k
    <2> SUFFICES ASSUME NEW k \in DOMAIN f PROVE \E x \in DOMAIN g : h[x] = k
      OBVIOUS
    <2>1. k \in DOMAIN cy /\ Tools!In(cy[k].first, w)  BY <1>4
    <2>2. PICK c \in DOMAIN cs : Key(fr, cs, c) = k  BY <1>2, <2>1 DEF Owned
    <2>3. h[c] = k /\ cs[c].first = cy[k].first  BY <1>7, <2>2
    <2>4. Tools!In(cs[c].first, w)  BY <2>1, <2>3
    <2> QED BY <1>3, <2>3, <2>4
  <1>11. Pairs(h, g, f)  BY <1>8, <1>9, <1>10 DEF Pairs
  <1>12. Tools!Summary(f) = Tools!Summary(g)  BY <1>3, <1>11, PairedSummaries
  <1> QED BY <1>1, <1>12

\* Whatever is read, no cow counts twice.
LEMMA CountedReport ==
    ASSUME NEW r, NEW cs, IsSeq(cs), NEW ct, Counted(r, cs, ct), NEW w, NEW f, SelectedIs(r, w, f)
    PROVE  Tools!Summary(f).total <= Tools!Summary(RealOf(cs, w)).total
  <1>1. PICK cy, g : cy = r.cycles /\ g = RealOf(cs, w)  OBVIOUS
  <1>2. PICK own : /\ \A k \in DOMAIN cy : own[k] \in DOMAIN cs /\ cs[own[k]].first = cy[k].first
                   /\ \A j, k \in DOMAIN cy : own[j] = own[k] => j = k
    BY <1>1 DEF Counted
  <1>3. /\ DOMAIN g = {k \in DOMAIN cs : Tools!In(cs[k].first, w)} /\ IsFiniteSet(DOMAIN g)
    BY <1>1, RealOfIs
  <1>4. DOMAIN f = {k \in DOMAIN cy : Tools!In(cy[k].first, w)} /\ IsFiniteSet(DOMAIN f)
    BY <1>1 DEF SelectedIs
  <1>5. PICK A, B : A = DOMAIN f /\ B = {own[x] : x \in A}  OBVIOUS
  <1>6. \A x, y \in A : own[x] = own[y] => x = y  BY <1>2, <1>4, <1>5
  <1>7. IsFiniteSet(B) /\ Cardinality(B) = Cardinality(A)  BY <1>4, <1>5, <1>6, OneToOne
  <1>8. \A x \in A : own[x] \in DOMAIN g
    <2> SUFFICES ASSUME NEW x \in A PROVE own[x] \in DOMAIN g  OBVIOUS
    <2>1. x \in DOMAIN cy /\ Tools!In(cy[x].first, w)  BY <1>4, <1>5
    <2>2. own[x] \in DOMAIN cs /\ cs[own[x]].first = cy[x].first  BY <1>2, <2>1
    <2>3. Tools!In(cs[own[x]].first, w)  BY <2>1, <2>2
    <2> QED BY <1>3, <2>2, <2>3
  <1>9. B \subseteq DOMAIN g  BY <1>5, <1>8
  <1>10. Cardinality(B) <= Cardinality(DOMAIN g)  BY <1>3, <1>9, FS_Subset
  <1>11. Cardinality(DOMAIN f) <= Cardinality(DOMAIN g)  BY <1>5, <1>7, <1>10
  <1>12. Tools!Summary(f).total = Cardinality(DOMAIN f) /\ Tools!Summary(g).total = Cardinality(DOMAIN g)
    BY SameCardinality DEF Tools!Summary
  <1> QED BY <1>1, <1>11, <1>12

LEMMA CowsAreCounted ==
    ASSUME ToolsInv
    PROVE  Tools!CowsCounted
  <1>1. PICK q, cs, ps, ct, b, z, n : Seen(q, cs, ps, ct, b, z, n)  BY SeenIs
  <1>2. /\ q = Tools!AllLines /\ cs = cows /\ b = blurred /\ Known(q, cs, ps, ct, b, z) /\ IsSeq(cs)
    BY <1>1 DEF Seen
  <1>3. PICK r : r = Tools!Stats(q)  OBVIOUS
  <1>4. /\ IsSeq(q) /\ (\A m \in DOMAIN q : IsLine(q[m])) /\ Herd(cs, ps) /\ Counted(r, cs, ct)
        /\ (b \/ Clear(r, Len(q), cs, ps, ct)) /\ (z = 0 => InTurn(q, cs, ct)) /\ IsSeq(cs) /\ ct \in Nat
    BY <1>2, <1>3, KnownParts
  <1> SUFFICES ASSUME NEW w \in MCWindows
               PROVE  /\ ~blurred => Tools!Reported(Tools!AllLines, w) = Tools!Real(w)
                      /\ Tools!Reported(Tools!AllLines, w).total <= Tools!Real(w).total
    BY DEF Tools!CowsCounted
  <1>5. PICK f : f = Tools!Selected(q, w)  OBVIOUS
  <1>6. r \in Readings  BY <1>4 DEF Counted
  <1>7. SelectedIs(r, w, f)  BY <1>3, <1>5, <1>6, SelectedAre
  <1>8. Tools!Reported(Tools!AllLines, w) = Tools!Summary(f)  BY <1>2, <1>5 DEF Tools!Reported
  <1>9. Tools!Real(w) = Tools!Summary(RealOf(cs, w))  BY <1>2 DEF Tools!Real, RealOf
  <1>10. ~b => Tools!Summary(f) = Tools!Summary(RealOf(cs, w))  BY <1>4, <1>6, <1>7, ClearReport
  <1>11. Tools!Summary(f).total <= Tools!Summary(RealOf(cs, w)).total  BY <1>4, <1>7, CountedReport
  <1> QED BY <1>2, <1>8, <1>9, <1>10, <1>11

-----------------------------------------------------------------------------
(* The lines of some files, among all lines.                                 *)

\* Two places of r, that of u[a] before that of u[b].
Apart(r, x, y) == \E p, s \in DOMAIN r : p < s /\ r[p] = x /\ r[s] = y

\* The members of u are in r, in the same order.
Within1(u, r) ==
    /\ \A a \in DOMAIN u : \E p \in DOMAIN r : r[p] = u[a]
    /\ \A a, b \in DOMAIN u : a < b => Apart(r, u[a], u[b])

LEMMA LaidGrows ==
    ASSUME NEW r, NEW w, NEW off, Laid(r, w, off), IsSeq(w), \A b \in DOMAIN w : IsSeq(w[b])
    PROVE  \A a, b \in 0 .. Len(w) : a <= b => off[a] <= off[b]
  <1>1. Len(w) \in Nat /\ DOMAIN w = 1 .. Len(w)  BY SeqFacts
  <1> SUFFICES ASSUME NEW a \in 0 .. Len(w)
               PROVE  \A b \in 0 .. Len(w) : a <= b => off[a] <= off[b]
    OBVIOUS
  <1>2. PICK N : N = Len(w)  OBVIOUS
  <1>3. N \in Nat /\ \A b \in 0 .. N : off[b] \in Nat  BY <1>1, <1>2 DEF Laid
  <1>4. \A b \in 1 .. N : off[b] = off[b - 1] + Len(w[b]) /\ Len(w[b]) \in Nat
    BY <1>1, <1>2, SeqFacts DEF Laid
  <1> DEFINE T == {m \in 0 .. N : a <= m => off[a] <= off[m]}
  <1>5. 0 \in T  BY <1>2, <1>3
  <1>6. \A m \in 0 .. N : m \in T /\ m < N => m + 1 \in T
    <2> SUFFICES ASSUME NEW m \in 0 .. N, m \in T, m < N PROVE m + 1 \in T  OBVIOUS
    <2>1. m + 1 \in 1 .. N /\ (m + 1) - 1 = m  BY <1>3
    <2>2. off[m + 1] = off[m] + Len(w[m + 1]) /\ Len(w[m + 1]) \in Nat  BY <1>4, <2>1
    <2>3. off[m] \in Nat /\ off[m + 1] \in Nat /\ off[a] \in Nat  BY <1>2, <1>3, <2>1
    <2>4. a <= m + 1 => off[a] <= off[m + 1]
      <3>1. CASE a <= m  BY <2>2, <2>3, <3>1
      <3>2. CASE a = m + 1  BY <2>3, <3>2
      <3> QED BY <3>1, <3>2, <1>3
    <2> QED BY <2>1, <2>4
  <1> HIDE DEF T
  <1>7. \A m \in 0 .. N : m \in T  BY <1>3, <1>5, <1>6, Induct
  <1> QED BY <1>2, <1>7 DEF T

LEMMA LaidOrder ==
    ASSUME NEW r, NEW w, NEW off, Laid(r, w, off), IsSeq(w), \A b \in DOMAIN w : IsSeq(w[b]),
           NEW b1 \in 1 .. Len(w), NEW b2 \in 1 .. Len(w), b1 < b2,
           NEW i1 \in 1 .. Len(w[b1]), NEW i2 \in 1 .. Len(w[b2])
    PROVE  off[b1 - 1] + i1 < off[b2 - 1] + i2
  <1>1. Len(w) \in Nat /\ DOMAIN w = 1 .. Len(w)  BY SeqFacts
  <1>2. Len(w[b1]) \in Nat /\ Len(w[b2]) \in Nat  BY <1>1, SeqFacts
  <1>3. b1 \in 0 .. Len(w) /\ b1 - 1 \in 0 .. Len(w) /\ b2 - 1 \in 0 .. Len(w) /\ b1 <= b2 - 1
    BY <1>1
  <1>4. off[b1 - 1] \in Nat /\ off[b1] \in Nat /\ off[b2 - 1] \in Nat  BY <1>3 DEF Laid
  <1>5. off[b1] = off[b1 - 1] + Len(w[b1])  BY DEF Laid
  <1>6. off[b1] <= off[b2 - 1]  BY <1>3, LaidGrows
  <1> QED BY <1>2, <1>4, <1>5, <1>6

\* v has the sequences of w that are in S.
LEMMA SomeAreWithin ==
    ASSUME NEW w, IsSeq(w), \A b \in DOMAIN w : IsSeq(w[b]), NEW S, NEW v, IsSeq(v), Len(v) = Len(w),
           \A b \in DOMAIN w : v[b] = IF b \in S THEN w[b] ELSE <<>>,
           NEW r, NEW off, Laid(r, w, off), NEW u, NEW of2, Laid(u, v, of2)
    PROVE  Within1(u, r)
  <1>1. PICK N : N = Len(w)  OBVIOUS
  <1>2. N \in Nat /\ DOMAIN w = 1 .. N /\ DOMAIN v = 1 .. N /\ Len(v) = N  BY <1>1, SeqFacts
  <1>3. \A b \in 1 .. N : IsSeq(v[b])  BY <1>2, EmptyIsSeq
  <1>4. \A b \in 1 .. N : \A i \in 1 .. Len(v[b]) : v[b] = w[b] /\ i \in 1 .. Len(w[b]) /\ i \in Nat
    BY <1>2, EmptyIsSeq
  <1>5. DOMAIN u = 1 .. Len(u) /\ Len(u) \in Nat /\ DOMAIN r = 1 .. Len(r)  BY SeqFacts DEF Laid
  <1>6. \A a \in DOMAIN u : \E b \in 1 .. N : \E i \in 1 .. Len(v[b]) : a = of2[b - 1] + i
    BY <1>2, <1>5 DEF Laid
  <1>7. \A b \in 1 .. N : \A i \in 1 .. Len(v[b]) :
           of2[b - 1] + i \in DOMAIN u /\ u[of2[b - 1] + i] = v[b][i]
           /\ off[b - 1] + i \in DOMAIN r /\ r[off[b - 1] + i] = v[b][i]
           /\ of2[b - 1] \in Nat /\ off[b - 1] \in Nat
    <2> SUFFICES ASSUME NEW b \in 1 .. N, NEW i \in 1 .. Len(v[b])
                 PROVE  of2[b - 1] + i \in DOMAIN u /\ u[of2[b - 1] + i] = v[b][i]
                        /\ off[b - 1] + i \in DOMAIN r /\ r[off[b - 1] + i] = v[b][i]
                        /\ of2[b - 1] \in Nat /\ off[b - 1] \in Nat
      OBVIOUS
    <2>1. of2[b - 1] + i \in DOMAIN u /\ u[of2[b - 1] + i] = v[b][i]  BY <1>2, <1>5 DEF Laid
    <2>2. v[b] = w[b] /\ i \in 1 .. Len(w[b])  BY <1>4
    <2>3. off[b - 1] + i \in DOMAIN r /\ r[off[b - 1] + i] = v[b][i]  BY <1>1, <1>2, <1>5, <2>2 DEF Laid
    <2>4. b - 1 \in 0 .. N  BY <1>2
    <2>5. of2[b - 1] \in Nat /\ off[b - 1] \in Nat  BY <1>1, <1>2, <2>4 DEF Laid
    <2> QED BY <2>1, <2>3, <2>5
  <1>8. \A a \in DOMAIN u : \E p \in DOMAIN r : r[p] = u[a]
    <2> SUFFICES ASSUME NEW a \in DOMAIN u PROVE \E p \in DOMAIN r : r[p] = u[a]  OBVIOUS
    <2>1. PICK b \in 1 .. N : \E i \in 1 .. Len(v[b]) : a = of2[b - 1] + i  BY <1>6
    <2>2. PICK i \in 1 .. Len(v[b]) : a = of2[b - 1] + i  BY <2>1
    <2>3. PICK p : p = off[b - 1] + i  OBVIOUS
    <2>4. p \in DOMAIN r /\ r[p] = v[b][i] /\ u[a] = v[b][i]  BY <1>7, <2>2, <2>3
    <2> QED BY <2>4
  <1>9. \A a, b \in DOMAIN u : a < b => Apart(r, u[a], u[b])
    <2> SUFFICES ASSUME NEW a \in DOMAIN u, NEW b \in DOMAIN u, a < b
                 PROVE  Apart(r, u[a], u[b])
      OBVIOUS
    <2>1. PICK b1 \in 1 .. N : \E i \in 1 .. Len(v[b1]) : a = of2[b1 - 1] + i  BY <1>6
    <2>2. PICK i1 \in 1 .. Len(v[b1]) : a = of2[b1 - 1] + i1  BY <2>1
    <2>3. PICK b2 \in 1 .. N : \E i \in 1 .. Len(v[b2]) : b = of2[b2 - 1] + i  BY <1>6
    <2>4. PICK i2 \in 1 .. Len(v[b2]) : b = of2[b2 - 1] + i2  BY <2>3
    <2>5. PICK p, s : p = off[b1 - 1] + i1 /\ s = off[b2 - 1] + i2  OBVIOUS
    <2>6. p \in DOMAIN r /\ r[p] = u[a] /\ of2[b1 - 1] \in Nat /\ off[b1 - 1] \in Nat
      BY <1>7, <2>2, <2>5
    <2>7. s \in DOMAIN r /\ r[s] = u[b] /\ of2[b2 - 1] \in Nat /\ off[b2 - 1] \in Nat
      BY <1>7, <2>4, <2>5
    <2>8. i1 \in Nat /\ i2 \in Nat /\ i1 \in 1 .. Len(w[b1]) /\ i2 \in 1 .. Len(w[b2])  BY <1>4
    <2>9. ~(b2 < b1)
      <3> SUFFICES ASSUME b2 < b1 PROVE FALSE  OBVIOUS
      <3>1. of2[b2 - 1] + i2 < of2[b1 - 1] + i1  BY <1>2, <1>3, LaidOrder
      <3> QED BY <2>2, <2>4, <2>6, <2>7, <2>8, <3>1
    <2>10. p < s
      <3>1. CASE b1 = b2
        <4>1. i1 < i2  BY <2>2, <2>4, <2>6, <2>8, <3>1
        <4> QED BY <2>5, <2>6, <2>8, <3>1, <4>1
      <3>2. CASE b1 < b2  BY <1>1, <1>2, <2>5, <2>8, <3>2, LaidOrder
      <3> QED BY <1>2, <2>9, <3>1, <3>2
    <2> QED BY <2>6, <2>7, <2>10 DEF Apart
  <1> QED BY <1>8, <1>9 DEF Within1

\* The lines of the files S.
LEMMA LinesOfAre ==
    ASSUME LinesInv, NEW S, S \subseteq DOMAIN files, NEW u, u = Tools!LinesOf(S)
    PROVE  /\ IsSeq(u) /\ Within1(u, Tools!AllLines)
           /\ \A a \in DOMAIN u : \E i \in S : \E n \in DOMAIN files[i].lines : u[a] = files[i].lines[n]
           /\ \A i \in S : \A n \in DOMAIN files[i].lines : \E a \in DOMAIN u : u[a] = files[i].lines[n]
  <1>1. /\ IsSeq(FileLines) /\ Len(FileLines) = Len(files) /\ Len(files) \in Nat
        /\ DOMAIN FileLines = 1 .. Len(files) /\ DOMAIN files = 1 .. Len(files)
        /\ \A i \in 1 .. Len(files) : FileLines[i] = files[i].lines /\ IsSeq(FileLines[i])
        /\ Tools!AllLines = Tools!FlattenSeq(FileLines)
    BY FileLinesAre DEF LinesInv
  <1>2. PICK N, w : N = Len(files) /\ w = FileLines  OBVIOUS
  <1>3. PICK v : v = [i \in DOMAIN files |-> IF i \in S THEN files[i].lines ELSE <<>>]  OBVIOUS
  <1>4. u = Tools!FlattenSeq(v)  BY <1>3 DEF Tools!LinesOf
  <1>5. v = [i \in 1 .. N |-> v[i]] /\ N \in Nat  BY <1>1, <1>2, <1>3
  <1>6. IsSeq(v) /\ Len(v) = N /\ DOMAIN v = 1 .. N  BY <1>5, BuiltIsSeq
  <1>7. \A b \in 1 .. N : v[b] = (IF b \in S THEN w[b] ELSE <<>>) /\ IsSeq(w[b]) /\ w[b] = files[b].lines
    BY <1>1, <1>2, <1>3
  <1>8. \A b \in 1 .. N : IsSeq(v[b])  BY <1>7, EmptyIsSeq
  <1>9. PICK off : Laid(Tools!AllLines, w, off)  BY <1>1, <1>2, FlattenIs
  <1>10. PICK of2 : Laid(u, v, of2)  BY <1>4, <1>6, <1>8, FlattenIs
  <1>11. IsSeq(u)  BY <1>10 DEF Laid
  <1>12. Within1(u, Tools!AllLines)
    <2>1. PICK r : r = Tools!AllLines  OBVIOUS
    <2>2. IsSeq(w) /\ Len(v) = Len(w) /\ DOMAIN w = 1 .. N  BY <1>1, <1>2, <1>6
    <2>3. Laid(r, w, off)  BY <1>9, <2>1
    <2>4. Within1(u, r)  BY <1>6, <1>7, <1>10, <2>2, <2>3, SomeAreWithin
    <2> QED BY <2>1, <2>4
  <1>13. DOMAIN u = 1 .. Len(u)  BY <1>11, SeqFacts
  <1>14. \A a \in DOMAIN u : \E i \in S : \E n \in DOMAIN files[i].lines : u[a] = files[i].lines[n]
    <2> SUFFICES ASSUME NEW a \in DOMAIN u
                 PROVE  \E i \in S : \E n \in DOMAIN files[i].lines : u[a] = files[i].lines[n]
      OBVIOUS
    <2>1. PICK b \in 1 .. N : \E i \in 1 .. Len(v[b]) : a = of2[b - 1] + i
      BY <1>6, <1>10, <1>13 DEF Laid
    <2>2. PICK i \in 1 .. Len(v[b]) : a = of2[b - 1] + i  BY <2>1
    <2>3. u[a] = v[b][i]  BY <1>6, <1>10, <2>2 DEF Laid
    <2>4. b \in S /\ v[b] = files[b].lines
      <3>1. CASE b \in S  BY <1>7, <3>1
      <3>2. CASE b \notin S
        <4>1. v[b] = <<>>  BY <1>7, <3>2
        <4>2. Len(v[b]) = 0  BY <4>1, EmptyIsSeq
        <4> QED BY <4>2
      <3> QED BY <3>1, <3>2
    <2>5. i \in DOMAIN files[b].lines  BY <1>7, <2>4, SeqFacts
    <2> QED BY <2>3, <2>4, <2>5
  <1>15. \A i \in S : \A n \in DOMAIN files[i].lines : \E a \in DOMAIN u : u[a] = files[i].lines[n]
    <2> SUFFICES ASSUME NEW i \in S, NEW n \in DOMAIN files[i].lines
                 PROVE  \E a \in DOMAIN u : u[a] = files[i].lines[n]
      OBVIOUS
    <2>1. i \in 1 .. N  BY <1>1, <1>2
    <2>2. v[i] = files[i].lines /\ IsSeq(v[i])  BY <1>7, <1>8, <2>1
    <2>3. n \in 1 .. Len(v[i])  BY <2>2, SeqFacts
    <2>4. PICK a : a = of2[i - 1] + n  OBVIOUS
    <2>5. a \in DOMAIN u /\ u[a] = v[i][n]  BY <1>6, <1>10, <1>13, <2>1, <2>3, <2>4 DEF Laid
    <2> QED BY <2>2, <2>5
  <1> QED BY <1>11, <1>12, <1>14, <1>15

-----------------------------------------------------------------------------
(* Reading lines whose starts are in the order of the cows.                  *)

InOrder(u) ==
    /\ IsSeq(u) /\ Ordered(u)
    /\ \A n \in DOMAIN u : IsLine(u[n]) /\ (u[n].kind = "start" => u[n].cow > 0)
    /\ \A m, n \in DOMAIN u : m < n /\ u[m].kind = "start" /\ u[n].kind = "start" => u[m].cow <= u[n].cow

\* Line n starts a round of cow c.
StartOf(u, n, c) == u[n].kind = "start" /\ u[n].cow = c

\* The first of the starts of c in the first n lines is at t.
FirstOf(u, n, c, t) == /\ \E m \in 1 .. n : StartOf(u, m, c) /\ u[m].at = t
                       /\ \A m \in 1 .. n : StartOf(u, m, c) => t <= u[m].at

\* r is what has been read of the first n lines.
ReadSoFar(u, n, r) ==
    /\ r \in Readings /\ r.epoch = 0
    /\ r.last = 0 \/ \E m \in 1 .. n : StartOf(u, m, r.last)
    /\ \A k \in DOMAIN r.cycles : k[1] = 0 /\ FirstOf(u, n, k[2], r.cycles[k].first)
    /\ \A m \in 1 .. n : u[m].kind = "start" => <<0, u[m].cow>> \in DOMAIN r.cycles

LEMMA ReadOther ==
    ASSUME NEW u, NEW n \in Nat, NEW r, ReadSoFar(u, n, r), u[n + 1].kind # "start",
           NEW s \in Readings, s.epoch = r.epoch, s.last = r.last, DOMAIN s.cycles = DOMAIN r.cycles,
           \A k \in DOMAIN r.cycles : s.cycles[k].first = r.cycles[k].first
    PROVE  ReadSoFar(u, n + 1, s)
  <1>1. \A m \in 1 .. n + 1 : m \in 1 .. n \/ m = n + 1  OBVIOUS
  <1>2. \A m \in 1 .. n : m \in 1 .. n + 1  OBVIOUS
  <1>3. \A m, c : m = n + 1 => ~StartOf(u, m, c)  BY DEF StartOf
  <1>4. \A c, t : FirstOf(u, n, c, t) => FirstOf(u, n + 1, c, t)  BY <1>1, <1>2, <1>3 DEF FirstOf
  <1>5. s.last = 0 \/ \E m \in 1 .. n + 1 : StartOf(u, m, s.last)  BY <1>2 DEF ReadSoFar
  <1>6. \A k \in DOMAIN s.cycles : k[1] = 0 /\ FirstOf(u, n + 1, k[2], s.cycles[k].first)
    BY <1>4 DEF ReadSoFar
  <1>7. \A m \in 1 .. n + 1 : u[m].kind = "start" => <<0, u[m].cow>> \in DOMAIN s.cycles
    BY <1>1 DEF ReadSoFar
  <1> QED BY <1>5, <1>6, <1>7 DEF ReadSoFar

LEMMA ReadOneStart ==
    ASSUME NEW u, InOrder(u), NEW n \in Nat, n < Len(u), NEW r, ReadSoFar(u, n, r),
           NEW l, l = u[n + 1], l.kind = "start", NEW s, s = Tools!ReadStart(r, l)
    PROVE  ReadSoFar(u, n + 1, s)
  <1>1. PICK N, m1 : N = Len(u) /\ m1 = n + 1  OBVIOUS
  <1>2. N \in Nat /\ DOMAIN u = 1 .. N /\ m1 \in 1 .. N /\ m1 \in 1 .. m1 /\ m1 \in Nat
        /\ (\A m \in 1 .. m1 : m \in 1 .. n \/ m = m1)
        /\ (\A m \in 1 .. n : m \in 1 .. m1 /\ m \in 1 .. N /\ m < m1 /\ m <= m1)
    BY <1>1, SeqFacts DEF InOrder
  <1>3. IsLine(l) /\ l = u[m1] /\ l.cow > 0 /\ l.cow \in Nat  BY <1>1, <1>2 DEF InOrder, IsLine
  <1>4. \A m \in 1 .. n : u[m].at <= l.at /\ (u[m].kind = "start" => u[m].cow <= l.cow)
    BY <1>2, <1>3 DEF InOrder, Ordered
  <1>5. r \in Readings /\ r.epoch = 0 /\ r.last \in Nat  BY PartsAre DEF ReadSoFar
  <1>6. Tools!Epoch(r, l) = 0
    <2>1. ~(r.last # 0 /\ l.cow < r.last)
      <3> SUFFICES ASSUME r.last # 0, l.cow < r.last PROVE FALSE  OBVIOUS
      <3>1. PICK m \in 1 .. n : StartOf(u, m, r.last)  BY DEF ReadSoFar
      <3>2. r.last <= l.cow  BY <1>4, <3>1 DEF StartOf
      <3> QED BY <1>3, <1>5, <3>2
    <2> QED BY <1>5, <2>1 DEF Tools!Epoch
  <1>7. PICK key : Started(r, l, s, key)  BY <1>3, <1>5, StartedIs
  <1>8. s \in Readings /\ s.epoch = 0 /\ s.last = l.cow /\ key = <<0, l.cow>>
    BY <1>6, <1>7 DEF Started
  <1>9. key[1] = 0 /\ key[2] = l.cow  BY <1>8
  <1>10. StartOf(u, m1, l.cow) /\ \A c : StartOf(u, m1, c) => c = l.cow  BY <1>3 DEF StartOf
  <1>11. \E m \in 1 .. m1 : StartOf(u, m, s.last)  BY <1>2, <1>8, <1>10
  <1>12. \A k \in DOMAIN r.cycles : k[1] = 0 /\ FirstOf(u, m1, k[2], r.cycles[k].first)
    <2> SUFFICES ASSUME NEW k \in DOMAIN r.cycles
                 PROVE  k[1] = 0 /\ FirstOf(u, m1, k[2], r.cycles[k].first)
      OBVIOUS
    <2>1. PICK c, t : c = k[2] /\ t = r.cycles[k].first  OBVIOUS
    <2>2. k[1] = 0 /\ FirstOf(u, n, c, t)  BY <2>1 DEF ReadSoFar
    <2>3. PICK m \in 1 .. n : StartOf(u, m, c) /\ u[m].at = t  BY <2>2 DEF FirstOf
    <2>4. m \in 1 .. m1 /\ t <= l.at  BY <1>2, <1>4, <2>3
    <2>5. \A j \in 1 .. m1 : StartOf(u, j, c) => t <= u[j].at
      <3> SUFFICES ASSUME NEW j \in 1 .. m1, StartOf(u, j, c) PROVE t <= u[j].at  OBVIOUS
      <3>1. CASE j \in 1 .. n  BY <2>2, <3>1 DEF FirstOf
      <3>2. CASE j = m1  BY <1>3, <2>4, <3>2
      <3> QED BY <1>2, <3>1, <3>2
    <2>6. FirstOf(u, m1, c, t)  BY <2>3, <2>4, <2>5 DEF FirstOf
    <2> QED BY <2>1, <2>2, <2>6
  <1>13. \A m \in 1 .. n : u[m].kind = "start" => <<0, u[m].cow>> \in DOMAIN r.cycles  BY DEF ReadSoFar
  <1>14. CASE key \in DOMAIN r.cycles
    <2>1. s.cycles = r.cycles  BY <1>7, <1>14 DEF Started
    <2>2. \A k \in DOMAIN s.cycles : k[1] = 0 /\ FirstOf(u, m1, k[2], s.cycles[k].first)
      BY <1>12, <2>1
    <2>3. \A m \in 1 .. m1 : u[m].kind = "start" => <<0, u[m].cow>> \in DOMAIN s.cycles
      BY <1>2, <1>3, <1>8, <1>13, <1>14, <2>1
    <2>4. ReadSoFar(u, m1, s)  BY <1>8, <1>11, <2>2, <2>3 DEF ReadSoFar
    <2> QED BY <1>1, <2>4
  <1>15. CASE key \notin DOMAIN r.cycles
    <2>1. /\ DOMAIN s.cycles = DOMAIN r.cycles \cup {key} /\ s.cycles[key].first = l.at
          /\ \A k \in DOMAIN r.cycles : s.cycles[k] = r.cycles[k]
      BY <1>7, <1>15 DEF Started
    <2>2. FirstOf(u, m1, l.cow, l.at)
      <3>1. \A m \in 1 .. n : ~StartOf(u, m, l.cow)
        BY <1>8, <1>13, <1>15 DEF StartOf
      <3>2. l.at <= l.at  BY <1>3 DEF IsLine
      <3>3. \A m \in 1 .. m1 : StartOf(u, m, l.cow) => l.at <= u[m].at
        BY <1>2, <1>3, <3>1, <3>2
      <3> QED BY <1>2, <1>3, <1>10, <3>3 DEF FirstOf
    <2>3. \A k \in DOMAIN s.cycles : k[1] = 0 /\ FirstOf(u, m1, k[2], s.cycles[k].first)
      BY <1>9, <1>12, <2>1, <2>2
    <2>4. \A m \in 1 .. m1 : u[m].kind = "start" => <<0, u[m].cow>> \in DOMAIN s.cycles
      BY <1>2, <1>3, <1>8, <1>13, <2>1
    <2>5. ReadSoFar(u, m1, s)  BY <1>8, <1>11, <2>3, <2>4 DEF ReadSoFar
    <2> QED BY <1>1, <2>5
  <1> QED BY <1>14, <1>15

\* The cycles of such lines: one for each cow, from its first start.
LEMMA ReadInOrder ==
    ASSUME NEW u, InOrder(u)
    PROVE  ReadSoFar(u, Len(u), Tools!Stats(u))
  <1>1. IsSeq(u) /\ Len(u) \in Nat /\ DOMAIN u = 1 .. Len(u) /\ \A n \in DOMAIN u : IsLine(u[n])
    BY SeqFacts DEF InOrder
  <1>2. PICK f : Reads(f, u) /\ Tools!Stats(u) = f[Len(u)]  BY <1>1, StatsBuilt
  <1>3. PICK N : N = Len(u)  OBVIOUS
  <1> DEFINE T == {n \in 0 .. N : ReadSoFar(u, n, f[n])}
  <1>4. 0 \in T
    <2>1. f[0] = Tools!Unread  BY <1>2 DEF Reads
    <2>2. PICK r : r = f[0]  OBVIOUS
    <2>3. r \in Readings /\ r.epoch = 0 /\ r.last = 0 /\ r.cycles = <<>>  BY <2>1, <2>2, UnreadIs
    <2>4. DOMAIN r.cycles = {}  BY <2>3, EmptyIsSeq
    <2>5. ReadSoFar(u, 0, r)
      <3>1. \A m \in 1 .. 0 : FALSE  OBVIOUS
      <3> QED BY <2>3, <2>4, <3>1 DEF ReadSoFar
    <2> QED BY <1>1, <1>3, <2>2, <2>5
  <1>5. \A n \in 0 .. N : n \in T /\ n < N => n + 1 \in T
    <2> SUFFICES ASSUME NEW n \in 0 .. N, n \in T, n < N PROVE n + 1 \in T  OBVIOUS
    <2>1. PICK r, s, l, m1 : r = f[n] /\ s = f[n + 1] /\ l = u[n + 1] /\ m1 = n + 1  OBVIOUS
    <2>2. n \in Nat /\ m1 \in 1 .. N /\ m1 \in 0 .. N /\ m1 - 1 = n  BY <1>1, <1>3, <2>1
    <2>3. ReadSoFar(u, n, r)  BY <2>1
    <2>4. s = Tools!ReadNext(r, l)  BY <1>2, <1>3, <2>1, <2>2 DEF Reads
    <2>5. r \in Readings /\ IsLine(l)  BY <1>1, <1>3, <2>1, <2>2, <2>3 DEF ReadSoFar
    <2>6. CASE l.kind = "start"
      <3>1. s = Tools!ReadStart(r, l)  BY <2>4, <2>5, <2>6, ReadNextIs
      <3>2. ReadSoFar(u, n + 1, s)  BY <1>3, <2>1, <2>2, <2>3, <2>6, <3>1, ReadOneStart
      <3> QED BY <2>1, <2>2, <3>2
    <2>7. CASE l.kind = "frame"
      <3>1. s = Tools!ReadFrame(r, l)  BY <2>4, <2>5, <2>7, ReadNextIs
      <3>2. s \in Readings /\ s.epoch = r.epoch /\ s.last = r.last /\ s.cycles = r.cycles
        BY <2>5, <3>1, ReadFrameIs
      <3>3. u[n + 1].kind # "start"  BY <2>1, <2>7
      <3>4. ReadSoFar(u, n + 1, s)  BY <2>2, <2>3, <3>2, <3>3, ReadOther
      <3> QED BY <2>1, <2>2, <3>4
    <2>8. CASE l.kind = "finish"
      <3>1. s = Tools!ReadFinish(r, l)  BY <2>4, <2>5, <2>8, ReadNextIs
      <3>2. PICK x, k, y : /\ x = l.img /\ k = r.frames[x].key
                           /\ y = [first |-> r.cycles[k].first, done |-> TRUE, final |-> r.frames[x].count]
        OBVIOUS
      <3>3. y.first = r.cycles[k].first  BY <3>2
      <3>4. /\ s \in Readings /\ s.epoch = r.epoch /\ s.last = r.last
            /\ x \in DOMAIN r.frames /\ k \in DOMAIN r.cycles => Changed(r.cycles, s.cycles, k, y)
            /\ ~(x \in DOMAIN r.frames /\ k \in DOMAIN r.cycles) => s.cycles = r.cycles
        BY <2>5, <3>1, <3>2, ReadFinishIs
      <3>5. DOMAIN s.cycles = DOMAIN r.cycles /\ \A j \in DOMAIN r.cycles : s.cycles[j].first = r.cycles[j].first
        BY <3>3, <3>4 DEF Changed
      <3>6. u[n + 1].kind # "start"  BY <2>1, <2>8
      <3>7. ReadSoFar(u, n + 1, s)  BY <2>2, <2>3, <3>4, <3>5, <3>6, ReadOther
      <3> QED BY <2>1, <2>2, <3>7
    <2> QED BY <2>5, <2>6, <2>7, <2>8 DEF IsLine
  <1> HIDE DEF T
  <1>6. \A n \in 0 .. N : n \in T  BY <1>1, <1>3, <1>4, <1>5, Induct
  <1>7. N \in T  BY <1>1, <1>3, <1>6
  <1> QED BY <1>2, <1>3, <1>7 DEF T

-----------------------------------------------------------------------------
(* The files that nipple_stats finds for a window.                           *)

\* Without a restart a file begins on the hour.
LEMMA HourFiles ==
    ASSUME Tools!ToolsAssumption, LinesInv, restarts = 0, NEW i \in DOMAIN files
    PROVE  (files[i].start \div Hour) * Hour = files[i].start
  <1>1. Hour \in Nat /\ Hour > 0  BY Constants
  <1>2. PICK s : s = files[i].start  OBVIOUS
  <1>3. PICK k \in Nat : s = Hour * k  BY <1>2 DEF LinesInv, FilesInv
  <1>4. s \in Nat  BY <1>2 DEF LinesInv, FilesInv, IsFile
  <1>5. PICK j : j = s \div Hour  OBVIOUS
  <1>6. j \in Nat /\ j * Hour <= s /\ s < j * Hour + Hour  BY <1>1, <1>4, <1>5, HourOf
  <1>7. PICK g : g = Hour * j  OBVIOUS
  <1>8. g \in Nat /\ g = j * Hour  BY <1>1, <1>3, <1>6, <1>7, HoursApart
  <1>9. ~(g < s)
    <2> SUFFICES ASSUME g < s PROVE FALSE  OBVIOUS
    <2>1. Hour * j < Hour * k  BY <1>3, <1>7
    <2>2. Hour * j + Hour <= Hour * k  BY <1>1, <1>6, <2>1, HoursApart
    <2>3. g + Hour <= s  BY <1>3, <1>7, <2>2
    <2> QED BY <1>1, <1>4, <1>6, <1>8, <2>3
  <1>10. g = s  BY <1>4, <1>6, <1>8, <1>9
  <1> QED BY <1>2, <1>5, <1>8, <1>10

\* u has the lines of q from lo on, as far as they are before top, and none before lo.
Segment(u, q, lo, top) ==
    /\ InOrder(u)
    /\ \A a \in DOMAIN u : u[a].at >= lo /\ \E p \in DOMAIN q : q[p] = u[a]
    /\ \A p \in DOMAIN q : lo <= q[p].at /\ q[p].at < top => \E a \in DOMAIN u : u[a] = q[p]

LEMMA WithinIsInOrder ==
    ASSUME NEW q, NEW cs, NEW ct, InTurn(q, cs, ct), IsSeq(cs), IsSeq(q), \A n \in DOMAIN q : IsLine(q[n]),
           Ordered(q), NEW u, IsSeq(u), Within1(u, q)
    PROVE  InOrder(u)
  <1>1. DOMAIN cs = 1 .. Len(cs) /\ DOMAIN q = 1 .. Len(q) /\ DOMAIN u = 1 .. Len(u) /\ Len(q) \in Nat
    BY SeqFacts
  <1>2. \A n \in DOMAIN u : IsLine(u[n]) /\ (u[n].kind = "start" => u[n].cow > 0)
    <2> SUFFICES ASSUME NEW n \in DOMAIN u
                 PROVE  IsLine(u[n]) /\ (u[n].kind = "start" => u[n].cow > 0)
      OBVIOUS
    <2>1. PICK p \in DOMAIN q : q[p] = u[n]  BY DEF Within1
    <2>2. IsLine(u[n]) /\ (u[n].kind = "start" => u[n].cow \in DOMAIN cs)  BY <2>1 DEF InTurn
    <2> QED BY <1>1, <2>2
  <1>3. \A m, n \in DOMAIN u : m < n =>
           /\ u[m].at <= u[n].at
           /\ u[m].kind = "start" /\ u[n].kind = "start" => u[m].cow <= u[n].cow
    <2> SUFFICES ASSUME NEW m \in DOMAIN u, NEW n \in DOMAIN u, m < n
                 PROVE  /\ u[m].at <= u[n].at
                        /\ u[m].kind = "start" /\ u[n].kind = "start" => u[m].cow <= u[n].cow
      OBVIOUS
    <2>1. PICK p, s \in DOMAIN q : p < s /\ q[p] = u[m] /\ q[s] = u[n]  BY DEF Within1, Apart
    <2>2. p <= s  BY <1>1, <2>1
    <2>3. q[p].at <= q[s].at  BY <2>2 DEF Ordered
    <2>4. q[p].kind = "start" /\ q[s].kind = "start" => q[p].cow <= q[s].cow  BY <2>1 DEF InTurn
    <2> QED BY <2>1, <2>3, <2>4
  <1>4. Ordered(u)
    <2> SUFFICES ASSUME NEW m \in DOMAIN u, NEW n \in DOMAIN u, m <= n
                 PROVE  u[m].at <= u[n].at
      BY DEF Ordered
    <2>1. CASE m < n  BY <1>3, <2>1
    <2>2. CASE m = n
      <3>1. u[n].at \in Nat  BY <1>2 DEF IsLine
      <3> QED BY <2>2, <3>1
    <2> QED BY <1>1, <2>1, <2>2
  <1> QED BY <1>2, <1>3, <1>4 DEF InOrder

LEMMA DiscoveredSegment ==
    ASSUME Tools!ToolsAssumption, LinesInv, restarts = 0, NEW w \in MCWindows,
           NEW q, q = Tools!AllLines, \A n \in DOMAIN q : IsLine(q[n]),
           NEW cs, IsSeq(cs), NEW ct, InTurn(q, cs, ct),
           NEW S, \A i : i \in S <=> i \in DOMAIN files /\ (files[i].start \div Hour) * Hour \in Tools!Buckets(w),
           NEW u, u = Tools!LinesOf(S), Tools!Buckets(w) # {}, NEW lo, lo = Tools!Min(Tools!Buckets(w))
    PROVE  Segment(u, q, lo, w[2]) /\ lo \in Nat /\ \A t \in Nat : t <= clock /\ Tools!In(t, w) => lo <= t
  <1>1. /\ IsSeq(q) /\ Len(q) \in Nat /\ DOMAIN q = 1 .. Len(q) /\ Ordered(q)
        /\ \A i \in DOMAIN files : \A n \in DOMAIN files[i].lines : \E p \in DOMAIN q : q[p] = files[i].lines[n]
        /\ \A p \in DOMAIN q : \E i \in DOMAIN files : \E n \in DOMAIN files[i].lines : q[p] = files[i].lines[n]
    BY AllLinesAre DEF LinesInv
  <1>2. \A i \in S : i \in DOMAIN files /\ files[i].start \in Tools!Buckets(w)  BY HourFiles
  <1>3. \A i \in DOMAIN files : files[i].start \in Tools!Buckets(w) => i \in S  BY HourFiles
  <1>4. S \subseteq DOMAIN files  BY <1>2
  <1>5. /\ IsSeq(u) /\ Within1(u, q)
        /\ \A a \in DOMAIN u : \E i \in S : \E n \in DOMAIN files[i].lines : u[a] = files[i].lines[n]
        /\ \A i \in S : \A n \in DOMAIN files[i].lines : \E a \in DOMAIN u : u[a] = files[i].lines[n]
    BY <1>4, LinesOfAre
  <1>6. /\ Hour \in Nat /\ Hour > 0 /\ MaxTime \in Nat /\ w[1] \in Int /\ w[2] \in Int
        /\ clock \in Nat /\ clock <= MaxTime
    BY Constants DEF LinesInv, FilesInv
  <1>7. /\ Tools!Buckets(w) \subseteq Nat
        /\ \A h : h \in Tools!Buckets(w) <=>
                    \E k \in 0 .. MaxTime : h = Hour * k /\ h + Hour > w[1] /\ h < w[2]
        /\ \A t \in Nat : t <= MaxTime /\ Tools!In(t, w) => (t \div Hour) * Hour \in Tools!Buckets(w)
    BY BucketsAre
  <1>8. lo \in Tools!Buckets(w) /\ \A x \in Tools!Buckets(w) : lo <= x  BY <1>7, MinIs
  <1>9. lo \in Nat  BY <1>7, <1>8
  <1>10. PICK k0 \in 0 .. MaxTime : lo = Hour * k0 /\ lo + Hour > w[1] /\ lo < w[2]  BY <1>7, <1>8
  <1>11. InOrder(u)  BY <1>1, <1>5, WithinIsInOrder
  <1>12. \A i \in DOMAIN files : \A n \in DOMAIN files[i].lines :
            /\ files[i].lines[n].at \in Nat /\ files[i].start \in Nat /\ files[i].start <= files[i].lines[n].at
            /\ files[i].lines[n].at < files[i].start + Hour /\ files[i].lines[n].at <= clock
    BY DEF LinesInv, FilesInv, IsFile
  <1>13. \A a \in DOMAIN u : u[a].at >= lo /\ \E p \in DOMAIN q : q[p] = u[a]
    <2> SUFFICES ASSUME NEW a \in DOMAIN u
                 PROVE  u[a].at >= lo /\ \E p \in DOMAIN q : q[p] = u[a]
      OBVIOUS
    <2>1. PICK i \in S : \E n \in DOMAIN files[i].lines : u[a] = files[i].lines[n]  BY <1>5
    <2>2. PICK n \in DOMAIN files[i].lines : u[a] = files[i].lines[n]  BY <2>1
    <2>3. i \in DOMAIN files /\ lo <= files[i].start  BY <1>2, <1>8
    <2>4. u[a].at >= lo  BY <1>9, <1>12, <2>2, <2>3
    <2> QED BY <1>5, <2>4 DEF Within1
  <1>14. \A p \in DOMAIN q : lo <= q[p].at /\ q[p].at < w[2] => \E a \in DOMAIN u : u[a] = q[p]
    <2> SUFFICES ASSUME NEW p \in DOMAIN q, lo <= q[p].at, q[p].at < w[2]
                 PROVE  \E a \in DOMAIN u : u[a] = q[p]
      OBVIOUS
    <2>1. PICK i \in DOMAIN files : \E n \in DOMAIN files[i].lines : q[p] = files[i].lines[n]  BY <1>1
    <2>2. PICK n \in DOMAIN files[i].lines : q[p] = files[i].lines[n]  BY <2>1
    <2>3. PICK s, t : s = files[i].start /\ t = q[p].at  OBVIOUS
    <2>4. /\ t \in Nat /\ s \in Nat /\ s <= t /\ t < s + Hour /\ t <= clock /\ lo <= t /\ t < w[2]
      BY <1>12, <2>2, <2>3
    <2>5. PICK k \in Nat : s = Hour * k  BY <2>3 DEF LinesInv, FilesInv
    <2>6. lo <= s
      <3> SUFFICES ASSUME s < lo PROVE FALSE  BY <1>9, <2>4
      <3>1. Hour * k < Hour * k0  BY <1>10, <2>5
      <3>2. Hour * k + Hour <= Hour * k0  BY <1>6, <3>1, HoursApart
      <3>3. s + Hour <= lo  BY <1>10, <2>5, <3>2
      <3> QED BY <1>6, <1>9, <2>4, <3>3
    <2>7. k <= MaxTime
      <3> SUFFICES ASSUME MaxTime < k PROVE FALSE  BY <1>6
      <3>1. Hour * MaxTime + Hour <= Hour * k  BY <1>6, HoursApart
      <3>2. MaxTime <= Hour * MaxTime
        <4>1. 1 * MaxTime <= Hour * MaxTime
          <5>1. MaxTime * 1 \in Nat /\ (1 <= Hour => 1 * MaxTime <= Hour * MaxTime)  BY <1>6, Scaled
          <5> QED BY <1>6, <5>1
        <4> QED BY <1>6, <4>1
      <3>3. PICK e : e = Hour * MaxTime  OBVIOUS
      <3>4. e \in Nat
        <4>1. Hour * MaxTime \in Nat /\ Hour * MaxTime = MaxTime * Hour  BY <1>6, HoursApart
        <4> QED BY <3>3, <4>1
      <3>5. e + Hour <= s  BY <2>5, <3>1, <3>3
      <3> QED BY <1>6, <2>4, <3>2, <3>3, <3>4, <3>5
    <2>8. s + Hour > w[1] /\ s < w[2]  BY <1>6, <1>9, <1>10, <2>4, <2>6
    <2>9. k \in 0 .. MaxTime  BY <1>6, <2>7
    <2>10. s \in Tools!Buckets(w)  BY <1>7, <2>5, <2>8, <2>9
    <2>11. i \in S  BY <1>3, <2>3, <2>10
    <2>12. PICK a \in DOMAIN u : u[a] = files[i].lines[n]  BY <1>5, <2>11
    <2> QED BY <2>2, <2>12
  <1>15. \A t \in Nat : t <= clock /\ Tools!In(t, w) => lo <= t
    <2> SUFFICES ASSUME NEW t \in Nat, t <= clock, Tools!In(t, w) PROVE lo <= t  OBVIOUS
    <2>1. PICK g : g = (t \div Hour) * Hour  OBVIOUS
    <2>2. g \in Tools!Buckets(w)  BY <1>6, <1>7, <2>1
    <2>3. lo <= g /\ g \in Nat  BY <1>7, <1>8, <2>2
    <2>4. g <= t  BY <1>6, <2>1, HourOf
    <2> QED BY <1>9, <2>3, <2>4
  <1> QED BY <1>9, <1>11, <1>13, <1>14, <1>15 DEF Segment

-----------------------------------------------------------------------------
(* The cows that nipple_stats counts by itself.                              *)

\* A round of c starts at t.
StartsAt(q, c, t) == \E n \in DOMAIN q : StartOf(q, n, c) /\ q[n].at = t

\* The cows that began before lo and are first seen in the window.
GoOn(q, cs, lo, w, G) ==
    \A c : c \in G <=> /\ c \in DOMAIN cs /\ cs[c].first < lo
                       /\ \E t \in Nat : /\ Tools!In(t, w) /\ StartsAt(q, c, t)
                                         /\ \A x \in lo .. w[1] - 1 : ~StartsAt(q, c, x)

\* Cow c is counted in the window.
IsCounted(u, c, w) == \E t : FirstOf(u, Len(u), c, t) /\ Tools!In(t, w)

LEMMA CountedCows ==
    ASSUME NEW q, IsSeq(q), \A n \in DOMAIN q : IsLine(q[n]), NEW cs, IsSeq(cs),
           \A c \in DOMAIN cs : IsCow(cs[c]), NEW ct, InTurn(q, cs, ct),
           NEW w, w[1] \in Int, w[2] \in Int, w[1] < w[2], NEW u, NEW lo \in Nat, Segment(u, q, lo, w[2]),
           \A n \in DOMAIN q : Tools!In(q[n].at, w) => lo <= q[n].at, NEW G, GoOn(q, cs, lo, w, G),
           NEW c
    PROVE  /\ c \in DOMAIN cs /\ IsCounted(u, c, w) <=> (c \in DOMAIN cs /\ Tools!In(cs[c].first, w)) \/ c \in G
           /\ ~(c \in DOMAIN cs /\ Tools!In(cs[c].first, w) /\ c \in G)
           /\ IsCounted(u, c, w) => c \in DOMAIN cs
  <1>1. DOMAIN u = 1 .. Len(u) /\ Len(u) \in Nat /\ DOMAIN q = 1 .. Len(q)
    BY SeqFacts DEF Segment, InOrder
  <1>2. \A n \in DOMAIN u : u[n].at \in Nat /\ u[n].at >= lo /\ \E p \in DOMAIN q : q[p] = u[n]
    BY DEF Segment, InOrder, IsLine
  <1>3. \A n \in DOMAIN q : q[n].at \in Nat  BY DEF IsLine
  \* What u has of c.
  <1>4. \A n \in DOMAIN u : StartOf(u, n, c) =>
           /\ c \in DOMAIN cs /\ cs[c].first <= u[n].at /\ StartsAt(q, c, u[n].at)
    <2> SUFFICES ASSUME NEW n \in DOMAIN u, StartOf(u, n, c)
                 PROVE  c \in DOMAIN cs /\ cs[c].first <= u[n].at /\ StartsAt(q, c, u[n].at)
      OBVIOUS
    <2>1. PICK p \in DOMAIN q : q[p] = u[n]  BY <1>2
    <2>2. StartOf(q, p, c) /\ q[p].at = u[n].at  BY <2>1 DEF StartOf
    <2>3. c \in DOMAIN cs /\ cs[c].first <= q[p].at  BY <2>2 DEF InTurn, StartOf
    <2> QED BY <2>2, <2>3 DEF StartsAt
  <1>5. \A t \in Nat : StartsAt(q, c, t) /\ lo <= t /\ t < w[2] =>
           \E n \in DOMAIN u : StartOf(u, n, c) /\ u[n].at = t
    <2> SUFFICES ASSUME NEW t \in Nat, StartsAt(q, c, t), lo <= t, t < w[2]
                 PROVE  \E n \in DOMAIN u : StartOf(u, n, c) /\ u[n].at = t
      OBVIOUS
    <2>1. PICK p \in DOMAIN q : StartOf(q, p, c) /\ q[p].at = t  BY DEF StartsAt
    <2>2. PICK n \in DOMAIN u : u[n] = q[p]  BY <2>1 DEF Segment
    <2> QED BY <2>1, <2>2 DEF StartOf
  <1>6. c \in DOMAIN cs => cs[c].first \in Nat /\ StartsAt(q, c, cs[c].first)
    BY DEF InTurn, StartsAt, StartOf, IsCow
  <1>7. \A t \in Nat : StartsAt(q, c, t) /\ Tools!In(t, w) => lo <= t  BY DEF StartsAt
  \* A start of c makes a first one.
  <1>8. ASSUME NEW n0 \in DOMAIN u, StartOf(u, n0, c)
        PROVE  \E t : FirstOf(u, Len(u), c, t)
    <2> DEFINE T == {u[n].at : n \in {m \in DOMAIN u : StartOf(u, m, c)}}
    <2>1. T \subseteq Nat  BY <1>2
    <2>2. u[n0].at \in T  BY <1>8
    <2>3. \A m \in DOMAIN u : StartOf(u, m, c) => u[m].at \in T  OBVIOUS
    <2>4. \A t \in T : \E m \in DOMAIN u : StartOf(u, m, c) /\ u[m].at = t  OBVIOUS
    <2> HIDE DEF T
    <2>5. PICK t \in T : \A y \in T : t <= y  BY <2>1, <2>2, Least
    <2>6. FirstOf(u, Len(u), c, t)  BY <1>1, <2>3, <2>4, <2>5 DEF FirstOf
    <2> QED BY <2>6
  <1>9. \A t : FirstOf(u, Len(u), c, t) =>
           /\ t \in Nat /\ lo <= t /\ c \in DOMAIN cs /\ cs[c].first <= t /\ StartsAt(q, c, t)
           /\ \A n \in DOMAIN u : StartOf(u, n, c) => t <= u[n].at
    BY <1>1, <1>2, <1>4 DEF FirstOf
  <1>10. IsCounted(u, c, w) => c \in DOMAIN cs  BY <1>9 DEF IsCounted
  <1>11. ASSUME c \in DOMAIN cs, Tools!In(cs[c].first, w)
         PROVE  IsCounted(u, c, w) /\ c \notin G
    <2>1. PICK t0 : t0 = cs[c].first  OBVIOUS
    <2>2. t0 \in Nat /\ StartsAt(q, c, t0) /\ lo <= t0 /\ t0 < w[2]
      BY <1>6, <1>7, <1>11, <2>1 DEF Tools!In
    <2>3. PICK n \in DOMAIN u : StartOf(u, n, c) /\ u[n].at = t0  BY <1>5, <2>2
    <2>4. PICK t : FirstOf(u, Len(u), c, t)  BY <1>8, <2>3
    <2>5. t \in Nat /\ t0 <= t /\ t <= t0  BY <1>9, <2>1, <2>3, <2>4
    <2>6. t = t0  BY <2>2, <2>5
    <2>7. ~(cs[c].first < lo)  BY <2>1, <2>2
    <2>8. c \notin G  BY <2>7 DEF GoOn
    <2> QED BY <1>11, <2>1, <2>4, <2>6, <2>8 DEF IsCounted
  <1>12. ASSUME c \in G
         PROVE  c \in DOMAIN cs /\ IsCounted(u, c, w)
    <2>1. c \in DOMAIN cs  BY <1>12 DEF GoOn
    <2>2. PICK t \in Nat : /\ Tools!In(t, w) /\ StartsAt(q, c, t)
                           /\ \A x \in lo .. w[1] - 1 : ~StartsAt(q, c, x)
      BY <1>12 DEF GoOn
    <2>3. lo <= t /\ t < w[2]  BY <1>7, <2>2 DEF Tools!In
    <2>4. PICK n \in DOMAIN u : StartOf(u, n, c) /\ u[n].at = t  BY <1>5, <2>2, <2>3
    <2>5. PICK x : FirstOf(u, Len(u), c, x)  BY <1>8, <2>4
    <2>6. x \in Nat /\ lo <= x /\ StartsAt(q, c, x) /\ x <= t  BY <1>9, <2>4, <2>5
    <2>7. w[1] <= x
      <3> SUFFICES ASSUME x < w[1] PROVE FALSE  BY <2>6
      <3>1. x \in lo .. w[1] - 1  BY <2>6
      <3> QED BY <2>2, <2>6, <3>1
    <2>8. x < w[2]  BY <2>3, <2>6
    <2> QED BY <2>1, <2>5, <2>7, <2>8 DEF IsCounted, Tools!In
  <1>13. ASSUME IsCounted(u, c, w), ~Tools!In(cs[c].first, w)
         PROVE  c \in G
    <2>1. PICK t : FirstOf(u, Len(u), c, t) /\ Tools!In(t, w)  BY <1>13 DEF IsCounted
    <2>2. /\ t \in Nat /\ lo <= t /\ c \in DOMAIN cs /\ cs[c].first <= t /\ StartsAt(q, c, t)
          /\ \A n \in DOMAIN u : StartOf(u, n, c) => t <= u[n].at
      BY <1>9, <2>1
    <2>3. w[1] <= t /\ t < w[2]  BY <2>1 DEF Tools!In
    <2>4. PICK t0 : t0 = cs[c].first  OBVIOUS
    <2>5. t0 \in Nat /\ StartsAt(q, c, t0) /\ t0 <= t  BY <1>6, <2>2, <2>4
    <2>6. t0 < lo
      <3> SUFFICES ASSUME lo <= t0 PROVE FALSE  BY <2>5
      <3>1. t0 < w[2]  BY <2>2, <2>3, <2>5
      <3>2. PICK n \in DOMAIN u : StartOf(u, n, c) /\ u[n].at = t0  BY <1>5, <2>5, <3>1
      <3>3. t <= t0  BY <2>2, <3>2
      <3>4. t0 = t  BY <2>2, <2>5, <3>3
      <3> QED BY <1>13, <2>1, <2>4, <3>4
    <2>7. \A x \in lo .. w[1] - 1 : ~StartsAt(q, c, x)
      <3> SUFFICES ASSUME NEW x \in lo .. w[1] - 1, StartsAt(q, c, x) PROVE FALSE  OBVIOUS
      <3>1. x \in Nat /\ lo <= x /\ x < w[1] /\ x < w[2]  OBVIOUS
      <3>2. PICK n \in DOMAIN u : StartOf(u, n, c) /\ u[n].at = x  BY <1>5, <3>1
      <3>3. t <= x  BY <2>2, <3>2
      <3> QED BY <2>2, <2>3, <3>1, <3>3
    <2> QED BY <2>1, <2>2, <2>4, <2>6, <2>7 DEF GoOn
  <1> QED BY <1>10, <1>11, <1>12, <1>13

LEMMA CountedSet ==
    ASSUME NEW q, IsSeq(q), \A n \in DOMAIN q : IsLine(q[n]), NEW cs, IsSeq(cs),
           \A c \in DOMAIN cs : IsCow(cs[c]), NEW ct, InTurn(q, cs, ct),
           NEW w, w[1] \in Int, w[2] \in Int, w[1] < w[2], NEW u, NEW lo \in Nat, Segment(u, q, lo, w[2]),
           \A n \in DOMAIN q : Tools!In(q[n].at, w) => lo <= q[n].at, NEW G, GoOn(q, cs, lo, w, G),
           NEW f, SelectedIs(Tools!Stats(u), w, f), NEW R, R = {c \in DOMAIN cs : Tools!In(cs[c].first, w)}
    PROVE  Cardinality(DOMAIN f) = Cardinality(R) + Cardinality(G)
  <1>1. PICK r, cy, N : r = Tools!Stats(u) /\ cy = r.cycles /\ N = Len(u)  OBVIOUS
  <1>2. InOrder(u)  BY DEF Segment
  <1>3. ReadSoFar(u, N, r)  BY <1>1, <1>2, ReadInOrder
  <1>4. DOMAIN f = {k \in DOMAIN cy : Tools!In(cy[k].first, w)} /\ IsFiniteSet(DOMAIN f)
    BY <1>1 DEF SelectedIs
  <1>5. \A k \in DOMAIN cy : k = <<k[1], k[2]>> /\ k[1] = 0 /\ FirstOf(u, N, k[2], cy[k].first)
    <2>1. \A k \in DOMAIN cy : k = <<k[1], k[2]>>  BY <1>1, <1>3, PartsAre DEF ReadSoFar
    <2> QED BY <1>1, <1>3, <2>1 DEF ReadSoFar
  <1>6. \A m \in 1 .. N : u[m].kind = "start" => <<0, u[m].cow>> \in DOMAIN cy
    BY <1>1, <1>3 DEF ReadSoFar
  <1>7. PICK A : A = DOMAIN f  OBVIOUS
  <1>8. PICK h : h = [k \in A |-> k[2]]  OBVIOUS
  <1>9. \A k \in A : h[k] = k[2] /\ k \in DOMAIN cy /\ Tools!In(cy[k].first, w)  BY <1>4, <1>7, <1>8
  <1>10. \A j, k \in A : h[j] = h[k] => j = k
    <2> SUFFICES ASSUME NEW j \in A, NEW k \in A, h[j] = h[k] PROVE j = k  OBVIOUS
    <2>1. j = <<0, j[2]>> /\ k = <<0, k[2]>> /\ j[2] = k[2]
      <3>1. j \in DOMAIN cy /\ k \in DOMAIN cy /\ j[2] = k[2]  BY <1>9
      <3> QED BY <1>5, <3>1
    <2> QED BY <2>1
  <1>11. PICK B : B = {h[k] : k \in A}  OBVIOUS
  <1>12. IsFiniteSet(B) /\ Cardinality(B) = Cardinality(A)  BY <1>4, <1>7, <1>10, <1>11, OneToOne
  <1>13. \A c : c \in B <=> IsCounted(u, c, w)
    <2>1. ASSUME NEW c, c \in B PROVE IsCounted(u, c, w)
      <3>1. PICK k \in A : c = h[k]  BY <1>11, <2>1
      <3>2. k \in DOMAIN cy /\ c = k[2] /\ Tools!In(cy[k].first, w)  BY <1>9, <3>1
      <3>3. FirstOf(u, N, c, cy[k].first)  BY <1>5, <3>2
      <3> QED BY <1>1, <3>2, <3>3 DEF IsCounted
    <2>2. ASSUME NEW c, IsCounted(u, c, w) PROVE c \in B
      <3>1. PICK t : FirstOf(u, N, c, t) /\ Tools!In(t, w)  BY <1>1, <2>2 DEF IsCounted
      <3>2. PICK m \in 1 .. N : StartOf(u, m, c) /\ u[m].at = t  BY <3>1 DEF FirstOf
      <3>3. PICK k : k = <<0, c>>  OBVIOUS
      <3>4. k \in DOMAIN cy /\ k[2] = c  BY <1>6, <3>2, <3>3 DEF StartOf
      <3>5. FirstOf(u, N, c, cy[k].first)  BY <1>5, <3>4
      <3>6. cy[k].first = t
        <4>1. PICK x : x = cy[k].first  OBVIOUS
        <4>2. PICK j \in 1 .. N : StartOf(u, j, c) /\ u[j].at = x  BY <3>5, <4>1 DEF FirstOf
        <4>3. x <= t /\ t <= x  BY <3>1, <3>2, <3>5, <4>1, <4>2 DEF FirstOf
        <4>4. DOMAIN u = 1 .. N /\ \A n \in DOMAIN u : u[n].at \in Nat
          BY <1>1, <1>2, SeqFacts DEF InOrder, IsLine
        <4>5. x \in Nat /\ t \in Nat  BY <3>2, <4>2, <4>4
        <4> QED BY <4>1, <4>3, <4>5
      <3>7. k \in A  BY <1>4, <1>7, <3>1, <3>4, <3>6
      <3>8. h[k] = c  BY <1>9, <3>4, <3>7
      <3> QED BY <1>11, <3>7, <3>8
    <2> QED BY <2>1, <2>2
  <1>14. \A c : /\ c \in DOMAIN cs /\ IsCounted(u, c, w) <=> (c \in DOMAIN cs /\ Tools!In(cs[c].first, w)) \/ c \in G
                /\ ~(c \in DOMAIN cs /\ Tools!In(cs[c].first, w) /\ c \in G)
                /\ IsCounted(u, c, w) => c \in DOMAIN cs
    BY CountedCows
  <1>15. B = R \cup G /\ R \cap G = {}
    <2>1. \A c : c \in R <=> c \in DOMAIN cs /\ Tools!In(cs[c].first, w)  OBVIOUS
    <2>2. \A c : c \in B <=> c \in R \/ c \in G  BY <1>13, <1>14, <2>1
    <2>3. \A c : ~(c \in R /\ c \in G)  BY <1>14, <2>1
    <2> QED BY <2>2, <2>3
  <1>16. IsFiniteSet(R) /\ IsFiniteSet(G)  BY <1>12, <1>15, FS_Subset
  <1>17. Cardinality(R) \in Nat /\ Cardinality(G) \in Nat  BY <1>16, FS_CardinalityType
  <1>18. Cardinality(B) = Cardinality(R) + Cardinality(G)
    <2>1. Cardinality(R \cup G) = Cardinality(R) + Cardinality(G) - Cardinality(R \cap G)
      BY <1>16, FS_Union
    <2>2. Cardinality(R \cap G) = 0  BY <1>15, FS_EmptySet
    <2> QED BY <1>15, <1>17, <2>1, <2>2
  <1> QED BY <1>7, <1>12, <1>18

-----------------------------------------------------------------------------
(* What nipple_stats counts by itself, and what it misses.                   *)

\* A line says at t that cow c begins a round.
RoundAt(q, cs, c, t) ==
    \E n \in DOMAIN q : /\ q[n].kind = "start" /\ q[n].cow = cs[c].no /\ q[n].at = t

\* The cows that went on in the window, by the numbers in the log.
WentOn(q, cs, lo, w, top, G) ==
    \A c : c \in G <=> /\ c \in DOMAIN cs /\ cs[c].first < lo
                       /\ \E t \in 0 .. top : /\ Tools!In(t, w) /\ RoundAt(q, cs, c, t)
                                              /\ \A x \in lo .. w[1] - 1 : ~RoundAt(q, cs, c, x)

\* The files with an hour of the window in their names.
Named(S, w) ==
    \A i : i \in S <=> i \in DOMAIN files /\ (files[i].start \div Hour) * Hour \in Tools!Buckets(w)

LEMMA GoOnIs ==
    ASSUME NEW q, \A n \in DOMAIN q : IsLine(q[n]), NEW top \in Nat, \A n \in DOMAIN q : q[n].at <= top,
           NEW cs, NEW ct, InTurn(q, cs, ct), NEW lo, NEW w, NEW G, WentOn(q, cs, lo, w, top, G)
    PROVE  GoOn(q, cs, lo, w, G)
  <1>1. \A c \in DOMAIN cs : \A t : RoundAt(q, cs, c, t) <=> StartsAt(q, c, t)
    BY DEF RoundAt, StartsAt, StartOf, InTurn
  <1>2. \A c, t : t \in Nat /\ StartsAt(q, c, t) => t \in 0 .. top
    <2> SUFFICES ASSUME NEW c, NEW t \in Nat, StartsAt(q, c, t) PROVE t \in 0 .. top  OBVIOUS
    <2>1. t <= top  BY DEF StartsAt
    <2> QED BY <2>1
  <1>3. \A t \in 0 .. top : t \in Nat  OBVIOUS
  <1>4. ASSUME NEW c
        PROVE  c \in G <=> /\ c \in DOMAIN cs /\ cs[c].first < lo
                           /\ \E t \in Nat : /\ Tools!In(t, w) /\ StartsAt(q, c, t)
                                             /\ \A x \in lo .. w[1] - 1 : ~StartsAt(q, c, x)
    <2>1. ASSUME c \in G
          PROVE  /\ c \in DOMAIN cs /\ cs[c].first < lo
                 /\ \E t \in Nat : /\ Tools!In(t, w) /\ StartsAt(q, c, t)
                                   /\ \A x \in lo .. w[1] - 1 : ~StartsAt(q, c, x)
      <3>1. c \in DOMAIN cs /\ cs[c].first < lo  BY <2>1 DEF WentOn
      <3>2. PICK t \in 0 .. top : /\ Tools!In(t, w) /\ RoundAt(q, cs, c, t)
                                  /\ \A x \in lo .. w[1] - 1 : ~RoundAt(q, cs, c, x)
        BY <2>1 DEF WentOn
      <3>3. t \in Nat /\ StartsAt(q, c, t)  BY <1>1, <1>3, <3>1, <3>2
      <3>4. \A x \in lo .. w[1] - 1 : ~StartsAt(q, c, x)  BY <1>1, <3>1, <3>2
      <3> QED BY <3>1, <3>2, <3>3, <3>4
    <2>2. ASSUME c \in DOMAIN cs, cs[c].first < lo,
                 NEW t \in Nat, Tools!In(t, w), StartsAt(q, c, t),
                 \A x \in lo .. w[1] - 1 : ~StartsAt(q, c, x)
          PROVE  c \in G
      <3>1. t \in 0 .. top  BY <1>2, <2>2
      <3>2. RoundAt(q, cs, c, t)  BY <1>1, <2>2
      <3>3. \A x \in lo .. w[1] - 1 : ~RoundAt(q, cs, c, x)  BY <1>1, <2>2
      <3> QED BY <2>2, <3>1, <3>2, <3>3 DEF WentOn
    <2> QED BY <2>1, <2>2
  <1> QED BY <1>4 DEF GoOn

\* Without a restart every cow of the window is counted, and those that went on.
LEMMA TotalsAre ==
    ASSUME Tools!ToolsAssumption, LinesInv, restarts = 0, NEW w \in MCWindows,
           NEW q, q = Tools!AllLines, \A n \in DOMAIN q : IsLine(q[n]),
           NEW cs, IsSeq(cs), \A c \in DOMAIN cs : IsCow(cs[c]), NEW ct, InTurn(q, cs, ct),
           NEW S, Named(S, w), NEW f, f = Tools!Selected(Tools!LinesOf(S), w),
           NEW G, WentOn(q, cs, Tools!Min(Tools!Buckets(w)), w, clock, G),
           NEW R, R = {c \in DOMAIN cs : Tools!In(cs[c].first, w)}
    PROVE  Cardinality(DOMAIN f) = Cardinality(R) + Cardinality(G)
  <1>1. /\ w[1] \in Int /\ w[2] \in Int /\ w[1] < w[2] /\ clock \in Nat /\ clock <= MaxTime
        /\ \A n \in DOMAIN q : q[n].at \in Nat /\ q[n].at <= clock
    BY Constants DEF LinesInv, FilesInv
  <1>2. IsSeq(q) /\ Ordered(q)  BY AllLinesAre DEF LinesInv
  <1>3. PICK u, lo : u = Tools!LinesOf(S) /\ lo = Tools!Min(Tools!Buckets(w))  OBVIOUS
  <1>4. S \subseteq DOMAIN files  BY DEF Named
  <1>5. /\ IsSeq(u) /\ Within1(u, q)
        /\ \A a \in DOMAIN u : \E i \in S : \E n \in DOMAIN files[i].lines : u[a] = files[i].lines[n]
        /\ \A i \in S : \A n \in DOMAIN files[i].lines : \E a \in DOMAIN u : u[a] = files[i].lines[n]
    BY <1>3, <1>4, LinesOfAre
  <1>6. InOrder(u)  BY <1>2, <1>5, WithinIsInOrder
  <1>7. PICK r : r = Tools!Stats(u)  OBVIOUS
  <1>8. ReadSoFar(u, Len(u), r)  BY <1>6, <1>7, ReadInOrder
  <1>9. r \in Readings  BY <1>8 DEF ReadSoFar
  <1>10. SelectedIs(r, w, f)  BY <1>3, <1>7, <1>9, SelectedAre
  <1>11. GoOn(q, cs, lo, w, G)  BY <1>1, <1>3, GoOnIs
  <1>12. CASE Tools!Buckets(w) # {}
    <2>1. Segment(u, q, lo, w[2]) /\ lo \in Nat /\ \A t \in Nat : t <= clock /\ Tools!In(t, w) => lo <= t
      BY <1>3, <1>12, DiscoveredSegment DEF Named
    <2>2. \A n \in DOMAIN q : Tools!In(q[n].at, w) => lo <= q[n].at  BY <1>1, <2>1
    <2>3. SelectedIs(Tools!Stats(u), w, f)  BY <1>7, <1>10
    <2> QED BY <1>1, <1>2, <1>11, <2>1, <2>2, <2>3, CountedSet
  <1>13. CASE Tools!Buckets(w) = {}
    <2>1. \A t \in Nat : t <= clock => ~Tools!In(t, w)
      <3> SUFFICES ASSUME NEW t \in Nat, t <= clock, Tools!In(t, w) PROVE FALSE  OBVIOUS
      <3>1. MaxTime \in Nat  BY Constants
      <3>2. t <= MaxTime  BY <1>1, <3>1
      <3>3. (t \div Hour) * Hour \in Tools!Buckets(w)  BY <3>2, BucketsAre
      <3> QED BY <1>13, <3>3
    <2>2. \A n \in DOMAIN q : ~Tools!In(q[n].at, w)  BY <1>1, <2>1
    <2>3. G = {}
      <3> SUFFICES ASSUME NEW c \in G PROVE FALSE  OBVIOUS
      <3>1. PICK t \in Nat : Tools!In(t, w) /\ StartsAt(q, c, t)  BY <1>11 DEF GoOn
      <3>2. PICK n \in DOMAIN q : q[n].at = t  BY <3>1 DEF StartsAt
      <3> QED BY <2>2, <3>1, <3>2
    <2>4. R = {}
      <3> SUFFICES ASSUME NEW c \in DOMAIN cs, Tools!In(cs[c].first, w) PROVE FALSE  OBVIOUS
      <3>1. PICK n \in DOMAIN q : q[n].at = cs[c].first  BY DEF InTurn
      <3> QED BY <2>2, <3>1
    <2>5. S = {}  BY <1>13 DEF Named
    <2>6. DOMAIN u = {}  BY <1>5, <2>5
    <2>7. PICK N : N = Len(u)  OBVIOUS
    <2>8. N \in Nat /\ DOMAIN u = 1 .. N  BY <1>5, <2>7, SeqFacts
    <2>9. \A c, t : ~FirstOf(u, N, c, t)  BY <2>6, <2>8 DEF FirstOf
    <2>10. \A k \in DOMAIN r.cycles : FALSE  BY <1>8, <2>7, <2>9 DEF ReadSoFar
    <2>11. DOMAIN f = {}  BY <1>10, <2>10 DEF SelectedIs
    <2>12. Cardinality({}) = 0  BY FS_EmptySet
    <2>13. Cardinality(DOMAIN f) = 0 /\ Cardinality(R) = 0 /\ Cardinality(G) = 0
      BY <2>3, <2>4, <2>11, <2>12, Zenon
    <2> QED BY <2>13
  <1> QED BY <1>12, <1>13

LEMMA DiscoveryIsTold ==
    ASSUME Tools!ToolsAssumption, ToolsInv
    PROVE  Tools!DiscoveryMissesEarlierOnly
  <1> SUFFICES ASSUME NEW w \in MCWindows, NEW max \in Samples
               PROVE  LET d == Tools!Discovered(w, max)
                          missed == {i \in DOMAIN files \ d.files :
                                        \E n \in DOMAIN files[i].lines : Tools!In(files[i].lines[n].at, w)}
                          total  == Tools!Reported(Tools!LinesOf(d.files), w).total
                          all    == Tools!AllLines
                          begun(c, t) == \E n \in DOMAIN all :
                                            all[n].kind = "start" /\ all[n].cow = cows[c].no
                                               /\ all[n].at = t
                          goesOn == {c \in DOMAIN cows :
                                        /\ cows[c].first < Tools!Min(Tools!Buckets(w))
                                        /\ \E t \in 0 .. clock :
                                              /\ Tools!In(t, w) /\ begun(c, t)
                                              /\ \A u \in Tools!Min(Tools!Buckets(w)) .. (w[1] - 1) : ~begun(c, u)}
                      IN  ~d.refused =>
                            /\ Tools!Cardinality(d.files) <= max
                            /\ \A i \in missed : restarts > 0 /\ files[i].start < Tools!Min(Tools!Buckets(w))
                            /\ restarts = 0 => total = Tools!Real(w).total + Tools!Cardinality(goesOn)
    BY Zenon DEF Tools!DiscoveryMissesEarlierOnly
  <1>1. PICK d, lo, q, cs : /\ d = Tools!Discovered(w, max) /\ lo = Tools!Min(Tools!Buckets(w))
                            /\ q = Tools!AllLines /\ cs = cows
    OBVIOUS
  <1> DEFINE goesOn == {c \in DOMAIN cs :
                          /\ cs[c].first < lo
                          /\ \E t \in 0 .. clock : /\ Tools!In(t, w) /\ RoundAt(q, cs, c, t)
                                                   /\ \A u \in lo .. (w[1] - 1) : ~RoundAt(q, cs, c, u)}
  <1>2. SUFFICES ASSUME ~d.refused
                 PROVE  /\ Tools!Cardinality(d.files) <= max
                        /\ \A i \in DOMAIN files \ d.files :
                              (\E n \in DOMAIN files[i].lines : Tools!In(files[i].lines[n].at, w))
                                 => restarts > 0 /\ files[i].start < lo
                        /\ restarts = 0 => Tools!Reported(Tools!LinesOf(d.files), w).total
                                              = Tools!Real(w).total + Tools!Cardinality(goesOn)
    BY <1>1, ZenonT(60) DEF RoundAt
  <1>3. /\ Cardinality(d.files) <= max
        /\ d.files = {i \in DOMAIN files : (files[i].start \div Hour) * Hour \in Tools!Buckets(w)}
        /\ \A i \in DOMAIN files \ d.files :
              (\E n \in DOMAIN files[i].lines : Tools!In(files[i].lines[n].at, w))
                 => restarts > 0 /\ files[i].start < lo
    BY <1>1, <1>2, DiscoveryMisses DEF ToolsInv
  <1>4. Tools!Cardinality(d.files) <= max  BY <1>3, SameCardinality
  <1>5. ASSUME restarts = 0
        PROVE  Tools!Reported(Tools!LinesOf(d.files), w).total
                  = Tools!Real(w).total + Tools!Cardinality(goesOn)
    <2>1. PICK S, G : S = d.files /\ G = goesOn  OBVIOUS
    <2>2. Named(S, w)  BY <1>3, <2>1 DEF Named
    <2>3. WentOn(q, cs, lo, w, clock, G)  BY <2>1 DEF WentOn
    <2> HIDE DEF goesOn
    <2>4. PICK q0, cs0, ps, ct, b, z, n : Seen(q0, cs0, ps, ct, b, z, n)  BY SeenIs
    <2>5. /\ q0 = q /\ cs0 = cs /\ z = 0 /\ Known(q0, cs0, ps, ct, b, z)
      BY <1>1, <1>5, <2>4 DEF Seen
    <2>6. PICK r : r = Tools!Stats(q0)  OBVIOUS
    <2>7. /\ IsSeq(q0) /\ (\A m \in DOMAIN q0 : IsLine(q0[m])) /\ Herd(cs0, ps) /\ Counted(r, cs0, ct)
          /\ (b \/ Clear(r, Len(q0), cs0, ps, ct)) /\ (z = 0 => InTurn(q0, cs0, ct)) /\ IsSeq(cs0) /\ ct \in Nat
      BY <2>5, <2>6, KnownParts
    <2>8. /\ (\A m \in DOMAIN q : IsLine(q[m])) /\ IsSeq(cs) /\ (\A c \in DOMAIN cs : IsCow(cs[c]))
          /\ InTurn(q, cs, ct)
      BY <2>5, <2>7 DEF Herd
    <2>9. PICK f, R : /\ f = Tools!Selected(Tools!LinesOf(S), w)
                      /\ R = {c \in DOMAIN cs : Tools!In(cs[c].first, w)}
      OBVIOUS
    <2>10. Cardinality(DOMAIN f) = Cardinality(R) + Cardinality(G)
      <3>1. LinesInv  BY DEF ToolsInv
      <3> QED BY <1>1, <1>5, <2>2, <2>3, <2>8, <2>9, <3>1, TotalsAre
    <2>11. Tools!Reported(Tools!LinesOf(S), w).total = Cardinality(DOMAIN f)
      BY <2>9, SameCardinality DEF Tools!Reported, Tools!Summary
    <2>12. PICK g : g = RealOf(cs, w)  OBVIOUS
    <2>13. /\ DOMAIN g = {k \in DOMAIN cs : Tools!In(cs[k].first, w)} /\ IsFiniteSet(DOMAIN g)
           /\ \A c \in DOMAIN g : g[c] = IF cs[c].done THEN cs[c].final ELSE Tools!Missing
      BY <2>8, <2>12, RealOfIs
    <2>14. Tools!Real(w) = Tools!Summary(g)  BY <1>1, <2>12 DEF Tools!Real, RealOf
    <2>15. DOMAIN g = R  BY <2>9, <2>13
    <2>16. Tools!Real(w).total = Cardinality(R)
      BY <2>14, <2>15, SameCardinality DEF Tools!Summary
    <2>17. Tools!Cardinality(G) = Cardinality(G)  BY SameCardinality
    <2> QED BY <2>1, <2>10, <2>11, <2>16, <2>17
  <1> QED BY <1>3, <1>4, <1>5

-----------------------------------------------------------------------------
(* A behaviour of the root module that runs the log tools.                   *)

LEMMA ToolsAreAsSaid ==
    ASSUME Tools!ToolsAssumption, ToolsInv
    PROVE  /\ Tools!NoLineMissed /\ Tools!SamplesSpan /\ Tools!LocatorTruthful
           /\ Tools!OmissionsShown
           /\ Tools!CowsCounted /\ Tools!EveryCowTold /\ Tools!DiscoveryMissesEarlierOnly
  <1>1. LinesInv  BY DEF ToolsInv
  <1>2. \A n \in DOMAIN Tools!AllLines : IsLine(Tools!AllLines[n])  BY DEF ToolsInv, Known
  <1>3. Tools!NoLineMissed /\ Tools!SamplesSpan  BY <1>1, LogsFound, SamplesAreSpread
  <1>4. Tools!LocatorTruthful /\ Tools!OmissionsShown  BY <1>1, LocatorIsTruthful, OmissionsAreShown
  <1>5. Tools!CowsCounted /\ Tools!EveryCowTold  BY <1>1, <1>2, CowsAreCounted, EveryCowIsTold
  <1>6. Tools!DiscoveryMissesEarlierOnly  BY DiscoveryIsTold
  <1> QED BY <1>3, <1>4, <1>5, <1>6

ToolsRun == which = "tools" => ToolsInv

\* Whatever the plant's program has written, however its rounds, cows, files and
\* restarts are mixed: data_locator.py chooses every file with a line of the
\* window, samples images evenly and says what it left out; log_context.py shows
\* what it cut; nipple_stats.py counts each cow once with the result of its last
\* image, the shares it tells add up to the cows, and by itself it misses only
\* files that a restarted program began in an earlier hour.
THEOREM ToolsAreSound == Spec => []ToolsSound
  <1>1. Init => ToolsRun
    <2> SUFFICES ASSUME Init, which = "tools"
                 PROVE  ToolsInv
      BY DEF ToolsRun
    <2>1. Tools!Init
      BY DEF Init
    <2> QED
      BY <2>1, ToolsAssumption, ToolsStart
  <1>2. ToolsRun /\ [Next]_vars => ToolsRun'
    <2> SUFFICES ASSUME ToolsRun, [Next]_vars, which' = "tools"
                 PROVE  ToolsInv'
      BY DEF ToolsRun
    <2>1. which = which'
      BY DEF Next, vars
    <2>2. Tools!Next \/ UNCHANGED toolVars
      BY <2>1 DEF Next, vars
    <2>3. ToolsInv
      BY <2>1 DEF ToolsRun
    <2> QED
      BY <2>2, <2>3, ToolsAssumption, ToolsStep
  <1>3. ToolsRun => ToolsSound
    BY ToolsAssumption, ToolsAreAsSaid DEF ToolsRun, ToolsSound
  <1> QED
    BY <1>1, <1>2, <1>3, PTL DEF Spec

-----------------------------------------------------------------------------
(* EncoderHealth: the log of a window.                                       *)

EncSamples == [line : Streams, t : Int, n : Int, bad : BOOLEAN, v : Int]
EncSteps   == [dt : Nat, d : Int, v : Nat, bad : BOOLEAN, to : Int]

EncoderInv == stream \in Streams /\ log \in Seq(EncSamples)

LEMMA WrittenIs ==
    ASSUME stream \in Streams, NEW q \in Seq(EncSamples), NEW step \in EncSteps
    PROVE  Encoder!Written(q, step) \in Seq(EncSamples)
  <1> DEFINE last == IF Len(q) = 0 THEN [t |-> 0, n |-> 12000] ELSE q[Len(q)]
             n == IF step.to >= 0 THEN step.to ELSE last.n + step.d
             r == [line |-> stream, t |-> last.t + step.dt, n |-> n,
                   bad |-> step.bad /\ stream = "raw",
                   v |-> IF stream = "raw" THEN 0 ELSE step.v]
  <1>1. /\ step.dt \in Int /\ step.d \in Int /\ step.to \in Int /\ step.v \in Int /\ step.bad \in BOOLEAN
    BY DEF EncSteps
  <1>2. last.t \in Int /\ last.n \in Int
    <2>1. CASE Len(q) = 0  BY <2>1
    <2>2. CASE Len(q) # 0
      <3>1. q[Len(q)] \in EncSamples  BY <2>2, LenProperties, ElementOfSeq
      <3> QED BY <2>2, <3>1 DEF EncSamples
    <2> QED BY <2>1, <2>2
  <1>3. Encoder!Written(q, step) = Append(q, r)
    BY DEF Encoder!Written
  <1> HIDE DEF last
  <1>4. n \in Int /\ last.t + step.dt \in Int  BY <1>1, <1>2
  <1> HIDE DEF n
  <1>5. (step.bad /\ stream = "raw") \in BOOLEAN /\ (IF stream = "raw" THEN 0 ELSE step.v) \in Int
    BY <1>1
  <1>6. r \in EncSamples  BY <1>4, <1>5 DEF EncSamples
  <1> HIDE DEF r
  <1> QED BY <1>3, <1>6, AppendProperties

LEMMA RecordIs ==
    ASSUME Encoder!MovementsAssumption, EncoderInv, NEW m \in DOMAIN MCMovements, Encoder!Record(m)
    PROVE  EncoderInv'
  <1> DEFINE V == Seq(EncSamples)
             N == Len(MCMovements[m])
             G == [x \in (1 .. N) \X V |-> Encoder!Written(x[2], MCMovements[m][x[1]])]
             Step(g) == [k \in 0 .. N |-> IF k = 0 THEN log
                                          ELSE Encoder!Written(g[k - 1], MCMovements[m][k])]
  <1>1. MCMovements[m] \in Seq(EncSteps)
    BY DEF Encoder!MovementsAssumption, EncSteps
  <1>2. N \in Nat /\ \A k \in 1 .. N : MCMovements[m][k] \in EncSteps
    BY <1>1, LenProperties, ElementOfSeq
  <1>3. \A k \in 1 .. N : \A q \in V : Encoder!Written(q, MCMovements[m][k]) \in V
    BY <1>2, WrittenIs DEF EncoderInv
  <1>4. log \in V  BY DEF EncoderInv
  <1>5. stream' = stream /\ log' = (CHOOSE g : g = Step(g))[N]
    BY Zenon DEF Encoder!Record
  <1> HIDE DEF V, N
  <1>6. G \in [(1 .. N) \X V -> V]  BY <1>3
  <1>7. \A k \in 1 .. N : \A q \in V : G[<<k, q>>] = Encoder!Written(q, MCMovements[m][k])
    OBVIOUS
  <1> HIDE DEF G
  <1>8. PICK f \in [0 .. N -> V] : f[0] = log /\ \A k \in 1 .. N : f[k] = G[<<k, f[k - 1]>>]
    <2>1. \E f : Iterates(f, V, log, N, G)  BY <1>2, <1>4, <1>6, Iterated
    <2> QED BY <2>1 DEF Iterates
  <1>9. \A k \in 1 .. N : k - 1 \in 0 .. N /\ f[k - 1] \in V  BY <1>2, <1>8
  <1>10. f = Step(f)
    <2>1. \A k \in 0 .. N : k # 0 => k \in 1 .. N  OBVIOUS
    <2> QED BY <1>7, <1>8, <1>9, <2>1
  <1> DEFINE g == CHOOSE g : g = Step(g)
  <1>11. g = Step(g)  BY <1>10, Zenon
  <1>12. log' = g[N]  BY <1>5
  <1>13. /\ g[0] = log
         /\ \A k \in 1 .. N : g[k] = Encoder!Written(g[k - 1], MCMovements[m][k])
    <2>1. 0 \in 0 .. N /\ \A k \in 1 .. N : k \in 0 .. N /\ k # 0  BY <1>2
    <2> HIDE DEF g
    <2> QED BY <1>11, <2>1
  <1> HIDE DEF g
  <1> DEFINE S == {k \in 0 .. N : g[k] \in V}
  <1>14. 0 \in S  BY <1>2, <1>4, <1>13
  <1>15. ASSUME NEW k \in 0 .. N, k \in S, k < N
         PROVE  k + 1 \in S
    <2>1. k + 1 \in 1 .. N /\ k + 1 \in 0 .. N /\ (k + 1) - 1 = k  BY <1>2, <1>15
    <2> QED BY <1>3, <1>13, <1>15, <2>1
  <1> HIDE DEF S
  <1>16. N \in S
    <2>1. \A k \in 0 .. N : k \in S  BY <1>2, <1>14, <1>15, Induct
    <2> QED BY <1>2, <2>1
  <1> QED BY <1>5, <1>12, <1>16 DEF S, EncoderInv, V

LEMMA EncoderStart == ASSUME Encoder!Init PROVE EncoderInv
  BY DEF Encoder!Init, EncoderInv

LEMMA EncoderStep ==
    ASSUME Encoder!MovementsAssumption, EncoderInv, Encoder!Next \/ UNCHANGED encoderVars
    PROVE  EncoderInv'
  <1>1. CASE Encoder!Next
    <2>1. PICK m \in DOMAIN MCMovements : Encoder!Record(m)  BY <1>1 DEF Encoder!Next
    <2> QED BY <2>1, RecordIs
  <1>2. CASE UNCHANGED encoderVars  BY <1>2 DEF EncoderInv, encoderVars
  <1> QED BY <1>1, <1>2

-----------------------------------------------------------------------------
(* The samples in order, and the differences of neighbours.                  *)

LEMMA EncoderCard == \A S : Encoder!Cardinality(S) = Cardinality(S)
  BY DEF Encoder!Cardinality, Cardinality

LEMMA InsertedIs ==
    ASSUME NEW V, NEW p \in Seq(V), NEW r \in V, NEW n \in Nat, n <= Len(p)
    PROVE  Encoder!InsertAt(p, n + 1, r) \in Seq(V)
  <1>1. Len(p) \in Nat  BY LenProperties
  <1>2. SubSeq(p, 1, n) \in Seq(V)
    <2>1. \A i \in 1 .. n : p[i] \in V  BY <1>1, ElementOfSeq
    <2> QED BY <1>1, <2>1, SubSeqProperties
  <1>3. SubSeq(p, n + 1, Len(p)) \in Seq(V)
    <2>1. \A i \in (n + 1) .. Len(p) : p[i] \in V  BY <1>1, ElementOfSeq
    <2> QED BY <1>1, <2>1, SubSeqProperties
  <1>4. <<r>> \in Seq(V)  OBVIOUS
  <1>5. (SubSeq(p, 1, n) \o <<r>>) \o SubSeq(p, n + 1, Len(p)) \in Seq(V)
    BY <1>2, <1>3, <1>4, ConcatProperties
  <1>6. (n + 1) - 1 = n  OBVIOUS
  <1> QED BY <1>5, <1>6 DEF Encoder!InsertAt

LEMMA LoadedIs ==
    ASSUME NEW V, NEW q \in Seq(V), NEW kind
    PROVE  Encoder!Loaded(q, kind) \in Seq(V)
  <1> DEFINE W == Seq(V)
             N == Len(q)
             Placed(p, r) == Encoder!InsertAt(p, Encoder!Cardinality({i \in 1 .. Len(p) : p[i].t <= r.t}) + 1, r)
             Grow(p, k) == IF q[k].line = kind THEN Placed(p, q[k]) ELSE p
             G == [x \in (1 .. N) \X W |-> Grow(x[2], x[1])]
             Step(g) == [k \in 0 .. N |-> IF k = 0 THEN <<>>
                                          ELSE IF q[k].line = kind THEN Placed(g[k - 1], q[k])
                                          ELSE g[k - 1]]
  <1>1. N \in Nat /\ \A k \in 1 .. N : q[k] \in V  BY LenProperties, ElementOfSeq
  <1>2. ASSUME NEW p \in W, NEW r \in V
        PROVE  Placed(p, r) \in W
    <2>1. PICK T : T = {i \in 1 .. Len(p) : p[i].t <= r.t}  OBVIOUS
    <2>2. Len(p) \in Nat /\ T \subseteq 1 .. Len(p)  BY <2>1, LenProperties
    <2>3. Cardinality(T) \in Nat /\ Cardinality(T) <= Len(p)  BY <2>2, DomainCard
    <2>4. Encoder!Cardinality(T) = Cardinality(T)  BY EncoderCard
    <2>5. Encoder!InsertAt(p, Encoder!Cardinality(T) + 1, r) \in W
      BY <2>3, <2>4, InsertedIs
    <2> QED BY <2>1, <2>5
  <1>3. Encoder!Loaded(q, kind) = (CHOOSE g : g = Step(g))[N]
    BY Zenon DEF Encoder!Loaded
  <1> HIDE DEF N, Placed
  <1>4. \A k \in 1 .. N : \A p \in W : Grow(p, k) \in W  BY <1>1, <1>2
  <1>5. <<>> \in W  OBVIOUS
  <1> HIDE DEF W
  <1>6. /\ G \in [(1 .. N) \X W -> W]
        /\ \A k \in 1 .. N : \A p \in W : G[<<k, p>>] = Grow(p, k)
    <2> HIDE DEF Grow
    <2> QED BY <1>4
  <1> HIDE DEF G
  <1>7. PICK f \in [0 .. N -> W] : f[0] = <<>> /\ \A k \in 1 .. N : f[k] = G[<<k, f[k - 1]>>]
    <2>1. \E f : Iterates(f, W, <<>>, N, G)  BY <1>1, <1>5, <1>6, Iterated
    <2> QED BY <2>1 DEF Iterates
  <1>8. \A k \in 1 .. N : k - 1 \in 0 .. N /\ f[k - 1] \in W  BY <1>1, <1>7
  <1>9. \A k \in 1 .. N : f[k] = Grow(f[k - 1], k)  BY <1>6, <1>7, <1>8
  <1>10. f = Step(f)
    <2>1. \A k \in 0 .. N : k # 0 => k \in 1 .. N  OBVIOUS
    <2> QED BY <1>7, <1>9, <2>1
  <1> DEFINE g == CHOOSE g : g = Step(g)
  <1>11. g = Step(g)  BY <1>10, Zenon
  <1>12. Encoder!Loaded(q, kind) = g[N]  BY <1>3
  <1>13. g[0] = <<>> /\ \A k \in 1 .. N : g[k] = Grow(g[k - 1], k)
    <2>1. 0 \in 0 .. N /\ \A k \in 1 .. N : k \in 0 .. N /\ k # 0  BY <1>1
    <2> HIDE DEF g
    <2> QED BY <1>11, <2>1
  <1> HIDE DEF g, Grow
  <1> DEFINE S == {k \in 0 .. N : g[k] \in W}
  <1>14. 0 \in S  BY <1>1, <1>5, <1>13
  <1>15. ASSUME NEW k \in 0 .. N, k \in S, k < N
         PROVE  k + 1 \in S
    <2>1. k + 1 \in 1 .. N /\ k + 1 \in 0 .. N /\ (k + 1) - 1 = k  BY <1>1, <1>15
    <2> QED BY <1>4, <1>13, <1>15, <2>1
  <1> HIDE DEF S
  <1>16. \A k \in 0 .. N : k \in S  BY <1>1, <1>14, <1>15, Induct
  <1>17. N \in S  BY <1>1, <1>16
  <1> QED BY <1>12, <1>17 DEF S, W

LEMMA PrimaryIs ==
    ASSUME EncoderInv
    PROVE  Encoder!Primary(log) \in Seq(EncSamples)
  BY LoadedIs DEF EncoderInv, Encoder!Primary, Encoder!Application, Encoder!RawFiltered

\* Place i of s and its successor may be subtracted.
SoundAt(s, i) ==
    /\ Encoder!Readable(s, i) /\ s[i + 1].t > s[i].t
    /\ Encoder!IsBoundary(s[i], s[i + 1]) => Encoder!Pattern(s, i) = "return_toward_previous_level"

\* ps are differences of neighbours of s, in order.
Paired(ps, s) ==
    /\ Len(ps) \in Nat
    /\ \A k \in 1 .. Len(ps) :
          /\ ps[k].seq \in 1 .. Len(s) - 1 /\ SoundAt(s, ps[k].seq)
          /\ ps[k].d \in Int /\ ps[k].d = s[ps[k].seq + 1].n - s[ps[k].seq].n
          /\ ps[k].dt = s[ps[k].seq + 1].t - s[ps[k].seq].t
    /\ \A j, k \in 1 .. Len(ps) : j < k => ps[j].seq < ps[k].seq

LEMMA EncoderPlaces ==
    ASSUME NEW n \in Nat, NEW S
    PROVE  Leads(Encoder!Places(n, S), n, S)
  <1>1. Encoder!Places(n, S) = Tools!Places(n, S)
    BY Zenon DEF Encoder!Places, Tools!Places
  <1> QED BY <1>1, PlacesIs

LEMMA PairsAre ==
    ASSUME NEW s \in Seq(EncSamples)
    PROVE  Paired(Encoder!Pairs(s), s)
  <1> DEFINE Kept(i) == /\ Encoder!Readable(s, i)
                        /\ Encoder!IsBoundary(s[i], s[i + 1]) => Encoder!Returns(s, i)
                        /\ s[i + 1].t > s[i].t
             K == {i \in 1 .. Len(s) - 1 : Kept(i)}
             p == Encoder!Places(Len(s), K)
             Pair(i) == [seq |-> i, t |-> s[i].t, dt |-> s[i + 1].t - s[i].t,
                         n |-> s[i].n, d |-> s[i + 1].n - s[i].n, v |-> s[i + 1].v]
             ps == Encoder!Pairs(s)
  <1>1. ps = [k \in 1 .. Len(p) |-> Pair(p[k])]
    BY DEF Encoder!Pairs, Encoder!Values
  <1>2. Len(s) \in Nat /\ \A i \in 1 .. Len(s) : s[i] \in EncSamples
    BY LenProperties, ElementOfSeq
  <1> HIDE DEF Kept
  <1>3. Leads(p, Len(s), K)  BY <1>2, EncoderPlaces
  <1> HIDE DEF p, ps
  <1>4. /\ Len(p) \in Nat /\ DOMAIN p = 1 .. Len(p)
        /\ \A k \in 1 .. Len(p) : p[k] \in K
        /\ \A j, k \in 1 .. Len(p) : j < k => p[j] < p[k]
    BY <1>3, SeqFacts DEF Leads
  <1>5. Len(ps) = Len(p) /\ \A k \in 1 .. Len(p) : ps[k] = Pair(p[k])
    <2>1. \A k \in 1 .. Len(p) : ps[k] = Pair(p[k])  BY <1>1
    <2>2. ps = [k \in 1 .. Len(p) |-> ps[k]]  BY <1>1, <2>1
    <2> QED BY <1>4, <2>1, <2>2, BuiltIsSeq
  <1>6. \A i \in K : /\ i \in 1 .. Len(s) - 1 /\ Kept(i) /\ i \in 1 .. Len(s) /\ i + 1 \in 1 .. Len(s)
    BY <1>2
  <1> HIDE DEF K
  <1>7. ASSUME NEW k \in 1 .. Len(ps)
        PROVE  /\ ps[k].seq \in 1 .. Len(s) - 1 /\ SoundAt(s, ps[k].seq) /\ ps[k].seq = p[k]
               /\ ps[k].d \in Int /\ ps[k].d = s[ps[k].seq + 1].n - s[ps[k].seq].n
               /\ ps[k].dt = s[ps[k].seq + 1].t - s[ps[k].seq].t
    <2>1. PICK i \in K : i = p[k]  BY <1>4, <1>5
    <2>2. ps[k] = Pair(i)  BY <1>5, <2>1
    <2>3. /\ ps[k].seq = i /\ ps[k].d = s[i + 1].n - s[i].n /\ ps[k].dt = s[i + 1].t - s[i].t
      BY <2>2
    <2> HIDE DEF Pair
    <2>4. i \in 1 .. Len(s) - 1 /\ Kept(i) /\ s[i] \in EncSamples /\ s[i + 1] \in EncSamples
      BY <1>2, <1>6
    <2>5. s[i + 1].n - s[i].n \in Int
      <3>1. \A r \in EncSamples : r.n \in Int  BY DEF EncSamples
      <3>2. s[i].n \in Int /\ s[i + 1].n \in Int  BY <2>4, <3>1
      <3>3. \A x, y \in Int : x - y \in Int  OBVIOUS
      <3> QED BY <3>2, <3>3
    <2>6. SoundAt(s, i)
      BY <2>4 DEF SoundAt, Kept, Encoder!Pattern
    <2> QED BY <2>1, <2>3, <2>4, <2>5, <2>6
  <1>8. Len(ps) \in Nat  BY <1>4, <1>5
  <1>9. \A j, k \in 1 .. Len(ps) : j < k => ps[j].seq < ps[k].seq
    BY <1>4, <1>5, <1>7
  <1>10. Paired(ps, s)  BY <1>7, <1>8, <1>9 DEF Paired
  <1> QED BY <1>10 DEF ps


-----------------------------------------------------------------------------
(* The maximal groups of neighbouring decreases.                             *)

LEMMA GreatestIs ==
    ASSUME NEW T, T \subseteq Int, T # {}, NEW b \in Int, \A x \in T : x <= b
    PROVE  Encoder!Max(T) \in T /\ \A x \in T : Encoder!Max(T) >= x
  <1>1. Encoder!Max(T) = Tools!Max(T)  BY Zenon DEF Encoder!Max, Tools!Max
  <1> QED BY <1>1, MaxIs, Zenon

\* The places of the decreases that no gap hides.
Falls(ps, gap2) == {i \in 1 .. Len(ps) : Encoder!Within(ps[i], gap2) /\ ps[i].d < 0}

\* i is the first of its group of neighbouring decreases.
Begins(ps, gap2) ==
    {i \in Falls(ps, gap2) : i - 1 \notin Falls(ps, gap2) \/ ~Encoder!Follows(ps, i)}

\* How far the group that begins at i reaches.
Reach(ps, gap2, i) ==
    {j \in Falls(ps, gap2) : /\ j >= i
                             /\ \A k \in (i + 1) .. j : k \in Falls(ps, gap2) /\ k \notin Begins(ps, gap2)}

LEMMA ReachIs ==
    ASSUME NEW ps, Len(ps) \in Nat, NEW gap2, NEW i \in Begins(ps, gap2)
    PROVE  /\ i \in Falls(ps, gap2) /\ i \in 1 .. Len(ps)
           /\ i \in Reach(ps, gap2, i)
           /\ Encoder!Max(Reach(ps, gap2, i)) \in Reach(ps, gap2, i)
           /\ \A j \in Reach(ps, gap2, i) : j <= Encoder!Max(Reach(ps, gap2, i))
  <1> DEFINE R == Reach(ps, gap2, i)
  <1>1. i \in Falls(ps, gap2) /\ i \in 1 .. Len(ps)  BY DEF Begins, Falls
  <1>2. \A k \in (i + 1) .. i : FALSE  BY <1>1
  <1>3. i \in R  BY <1>1, <1>2 DEF Reach
  <1>4. R \subseteq 1 .. Len(ps)  BY DEF Reach, Falls
  <1> HIDE DEF R
  <1>5. R \subseteq Int /\ \A j \in R : j <= Len(ps)  BY <1>4
  <1>6. Encoder!Max(R) \in R /\ \A j \in R : Encoder!Max(R) >= j
    <2>1. R \subseteq Int /\ R # {} /\ Len(ps) \in Int  BY <1>3, <1>5
    <2>2. \A j \in R : j <= Len(ps)  BY <1>5
    <2> QED BY <2>1, <2>2, GreatestIs
  <1>7. \A j \in R : j <= Encoder!Max(R)
    <2> SUFFICES ASSUME NEW j \in R PROVE j <= Encoder!Max(R)
      OBVIOUS
    <2>1. Encoder!Max(R) \in Int /\ j \in Int /\ Encoder!Max(R) >= j  BY <1>5, <1>6
    <2> QED BY <2>1
  <1> QED BY <1>1, <1>3, <1>6, <1>7 DEF R

LEMMA GroupsBegin ==
    ASSUME NEW ps, NEW gap2
    PROVE  Encoder!NegativeGroups(ps, gap2)
               = {<<i, Encoder!Max(Reach(ps, gap2, i))>> : i \in Begins(ps, gap2)}
  BY Zenon DEF Encoder!NegativeGroups, Encoder!Runs, Reach, Begins, Falls

\* g is a maximal run of neighbouring decreases.
IsGroup(g, ps, gap2) ==
    /\ g[1] \in 1 .. Len(ps) /\ g[2] \in 1 .. Len(ps) /\ g[1] <= g[2]
    /\ \A k \in g[1] .. g[2] : k \in Falls(ps, gap2)
    /\ \A k \in (g[1] + 1) .. g[2] : ps[k].seq = ps[k - 1].seq + 1
    /\ g = <<g[1], g[2]>>

LEMMA GroupIs ==
    ASSUME NEW ps, Len(ps) \in Nat, NEW gap2, NEW g \in Encoder!NegativeGroups(ps, gap2)
    PROVE  /\ IsGroup(g, ps, gap2) /\ g[1] \in Begins(ps, gap2)
           /\ g[2] = Encoder!Max(Reach(ps, gap2, g[1]))
           /\ g[2] \in Reach(ps, gap2, g[1])
  <1>1. PICK i \in Begins(ps, gap2) : g = <<i, Encoder!Max(Reach(ps, gap2, i))>>
    BY GroupsBegin
  <1>2. PICK m : m = Encoder!Max(Reach(ps, gap2, i))  OBVIOUS
  <1>3. g[1] = i /\ g[2] = m /\ g = <<g[1], g[2]>>  BY <1>1, <1>2
  <1>4. m \in Reach(ps, gap2, i) /\ i \in Falls(ps, gap2) /\ i \in 1 .. Len(ps)
    BY <1>2, ReachIs
  <1>5. /\ m \in Falls(ps, gap2) /\ m >= i /\ m \in 1 .. Len(ps)
        /\ \A k \in (i + 1) .. m : k \in Falls(ps, gap2) /\ k \notin Begins(ps, gap2)
    BY <1>4 DEF Reach, Falls
  <1>6. \A k \in i .. m : k \in Falls(ps, gap2)
    <2>1. \A k \in i .. m : k = i \/ k \in (i + 1) .. m  BY <1>4, <1>5
    <2> QED BY <1>4, <1>5, <2>1
  <1>7. \A k \in (i + 1) .. m : ps[k].seq = ps[k - 1].seq + 1
    BY <1>5 DEF Begins, Encoder!Follows
  <1>8. IsGroup(g, ps, gap2)  BY <1>3, <1>4, <1>5, <1>6, <1>7 DEF IsGroup
  <1> QED BY <1>1, <1>2, <1>3, <1>4, <1>8

\* Two groups are one after the other.
LEMMA GroupsApart ==
    ASSUME NEW ps, Len(ps) \in Nat, NEW gap2,
           NEW g \in Encoder!NegativeGroups(ps, gap2), NEW h \in Encoder!NegativeGroups(ps, gap2),
           g # h
    PROVE  g[2] < h[1] \/ h[2] < g[1]
  <1>1. ASSUME NEW a \in Encoder!NegativeGroups(ps, gap2), NEW b \in Encoder!NegativeGroups(ps, gap2),
               a[1] < b[1]
        PROVE  a[2] < b[1]
    <2>1. /\ a[2] \in Reach(ps, gap2, a[1]) /\ b[1] \in Begins(ps, gap2)
          /\ a[1] \in 1 .. Len(ps) /\ a[2] \in 1 .. Len(ps) /\ b[1] \in 1 .. Len(ps)
      BY GroupIs DEF IsGroup
    <2>2. ~(b[1] \in (a[1] + 1) .. a[2])  BY <2>1 DEF Reach
    <2> QED BY <1>1, <2>1, <2>2
  <1>2. g[1] \in 1 .. Len(ps) /\ h[1] \in 1 .. Len(ps)
    BY GroupIs DEF IsGroup
  <1>3. g[1] # h[1]
    BY GroupIs DEF IsGroup
  <1>4. g[1] < h[1] \/ h[1] < g[1]  BY <1>2, <1>3
  <1> QED BY <1>1, <1>4

\* Every decrease is in a group.
LEMMA GroupsCover ==
    ASSUME NEW ps, Len(ps) \in Nat, NEW gap2, NEW j \in Falls(ps, gap2)
    PROVE  \E g \in Encoder!NegativeGroups(ps, gap2) : j \in g[1] .. g[2]
  <1> DEFINE T == {i \in 1 .. j : \A k \in i .. j : k \in Falls(ps, gap2)
                                                  /\ (k # i => k \notin Begins(ps, gap2))}
  <1>1. j \in 1 .. Len(ps)  BY DEF Falls
  <1>2. j \in T
    <2>1. \A k \in j .. j : k = j  BY <1>1
    <2>2. j \in 1 .. j  BY <1>1
    <2> QED BY <2>1, <2>2
  <1>3. T \subseteq Nat  OBVIOUS
  <1>4. \A i \in T : i \in 1 .. j /\ \A k \in i .. j : k \in Falls(ps, gap2)
                                                      /\ (k # i => k \notin Begins(ps, gap2))
    OBVIOUS
  <1>5. \A i \in 1 .. j : (\A k \in i .. j : k \in Falls(ps, gap2) /\ (k # i => k \notin Begins(ps, gap2)))
                             => i \in T
    OBVIOUS
  <1> HIDE DEF T
  <1>6. PICK i \in T : \A k \in T : i <= k  BY <1>2, <1>3, Least
  <1>7. i \in 1 .. j /\ i \in i .. j /\ i \in Falls(ps, gap2)
    <2>1. i \in 1 .. j  BY <1>4
    <2>2. i \in i .. j  BY <2>1, <1>1
    <2> QED BY <2>1, <2>2, <1>4
  <1>8. i \in Begins(ps, gap2)
    <2> SUFFICES ASSUME i \notin Begins(ps, gap2)
                 PROVE  FALSE
      OBVIOUS
    <2>1. i - 1 \in Falls(ps, gap2)  BY <1>7 DEF Begins
    <2>2. i - 1 \in 1 .. Len(ps)  BY <2>1 DEF Falls
    <2>3. i - 1 \in 1 .. j /\ ~(i <= i - 1)  BY <1>7, <2>2, <1>1
    <2>4. \A k \in (i - 1) .. j : k = i - 1 \/ k = i \/ (k \in i .. j /\ k # i)  BY <1>7, <1>1
    <2>5. \A k \in (i - 1) .. j : k \in Falls(ps, gap2) /\ (k # i - 1 => k \notin Begins(ps, gap2))
      BY <1>4, <1>7, <2>1, <2>4
    <2>6. i - 1 \in T  BY <1>5, <2>3, <2>5
    <2> QED BY <1>6, <2>3, <2>6
  <1>9. j \in Reach(ps, gap2, i)
    <2>1. j >= i  BY <1>7, <1>1
    <2>2. \A k \in (i + 1) .. j : k \in i .. j /\ k # i  BY <1>7, <1>1
    <2> QED BY <1>4, <2>1, <2>2 DEF Reach
  <1>10. PICK m : m = Encoder!Max(Reach(ps, gap2, i))  OBVIOUS
  <1>11. j <= m /\ m \in 1 .. Len(ps)
    BY <1>8, <1>9, <1>10, ReachIs DEF Reach, Falls
  <1>12. PICK g : g = <<i, m>>  OBVIOUS
  <1>13. g \in Encoder!NegativeGroups(ps, gap2)  BY <1>8, <1>10, <1>12, GroupsBegin
  <1>14. g[1] = i /\ g[2] = m  BY <1>12
  <1>15. j \in i .. m  BY <1>1, <1>7, <1>11
  <1> QED BY <1>13, <1>14, <1>15

LEMMA GroupsAreFew ==
    ASSUME NEW ps, Len(ps) \in Nat, NEW gap2
    PROVE  IsFiniteSet(Encoder!NegativeGroups(ps, gap2))
  <1> DEFINE f == [i \in Begins(ps, gap2) |-> <<i, Encoder!Max(Reach(ps, gap2, i))>>]
  <1>1. Begins(ps, gap2) \subseteq 1 .. Len(ps)  BY DEF Begins, Falls
  <1>2. IsFiniteSet(Begins(ps, gap2))  BY <1>1, DomainCard
  <1>3. DOMAIN f = Begins(ps, gap2)  OBVIOUS
  <1>4. Encoder!NegativeGroups(ps, gap2) = {f[i] : i \in Begins(ps, gap2)}
    BY GroupsBegin
  <1> HIDE DEF f
  <1> QED BY <1>2, <1>3, <1>4, ImageOf

\* Each of the differences a .. b follows the one before it.
Unbroken(ps, a, b) == \A k \in (a + 1) .. b : ps[k].seq = ps[k - 1].seq + 1
Dense(ps, a, b) == \A i \in ps[a].seq .. ps[b].seq : \E k \in a .. b : ps[k].seq = i

\* A stretch of neighbouring differences leaves no place of the log out.
LEMMA StretchIs ==
    ASSUME NEW s, NEW ps, Paired(ps, s), NEW a \in 1 .. Len(ps), NEW b \in 1 .. Len(ps), a <= b,
           Unbroken(ps, a, b)
    PROVE  Dense(ps, a, b)
  <1> DEFINE N == b - a
             S == {n \in 0 .. N : ps[a + n].seq = ps[a].seq + n}
  <1>1. /\ Len(ps) \in Nat /\ a \in Nat /\ b \in Nat /\ N \in Nat
        /\ \A k \in 1 .. Len(ps) : ps[k].seq \in Int
    BY DEF Paired
  <1>2. ps[a].seq \in Int  BY <1>1
  <1>3. 0 \in S
    <2>1. a + 0 = a /\ ps[a].seq + 0 = ps[a].seq /\ 0 \in 0 .. N  BY <1>1, <1>2
    <2> QED BY <2>1
  <1>4. ASSUME NEW n \in 0 .. N, n \in S, n < N
        PROVE  n + 1 \in S
    <2>1. /\ a + (n + 1) \in (a + 1) .. b /\ (a + (n + 1)) - 1 = a + n /\ n + 1 \in 0 .. N
      BY <1>1, <1>4
    <2>2. ps[a + (n + 1)].seq = ps[a + n].seq + 1  BY <2>1 DEF Unbroken
    <2>3. ps[a + n].seq = ps[a].seq + n  BY <1>4
    <2>4. ps[a + (n + 1)].seq = ps[a].seq + (n + 1)
      <3>1. n \in Int /\ \A x \in Int : (x + n) + 1 = x + (n + 1)  BY <1>1
      <3> QED BY <1>2, <2>2, <2>3, <3>1
    <2> QED BY <2>1, <2>4
  <1>5. \A n \in 0 .. N : n \in S
    <2> HIDE DEF S, N
    <2> QED BY <1>1, <1>3, <1>4, Induct
  <1>6. \A n \in 0 .. N : ps[a + n].seq = ps[a].seq + n  BY <1>5
  <1>7. ps[b].seq = ps[a].seq + (b - a)
    <2>1. N \in 0 .. N /\ a + N = b  BY <1>1
    <2> QED BY <1>6, <2>1
  <1>8. ASSUME NEW i \in ps[a].seq .. ps[b].seq
        PROVE  \E k \in a .. b : ps[k].seq = i
    <2>1. PICK x : x = ps[a].seq  OBVIOUS
    <2>2. x \in Int /\ ps[b].seq = x + (b - a) /\ i \in x .. ps[b].seq  BY <1>2, <1>7, <2>1
    <2>3. i \in x .. (x + (b - a))  BY <2>2
    <2>4. PICK n : n = i - x  OBVIOUS
    <2>5. n \in 0 .. N /\ x + n = i /\ a + n \in a .. b  BY <1>1, <2>2, <2>3, <2>4
    <2>6. ps[a + n].seq = x + n  BY <1>6, <2>1, <2>5
    <2> QED BY <2>5, <2>6
  <1> QED BY <1>8 DEF Dense

-----------------------------------------------------------------------------
(* Events of decreases and of spikes, and what they rest on.                 *)

\* The differences g[2] + 1 .. j do not fall.
LEMMA RecoveryIs ==
    ASSUME NEW ps, Len(ps) \in Nat, NEW gap2, NEW g, g[2] \in 1 .. Len(ps),
           NEW j \in Encoder!Recovery(ps, g, gap2)
    PROVE  /\ j \in (g[2] + 1) .. Len(ps) /\ \A k \in (g[2] + 1) .. j : ps[k].d >= 0
  <1>1. PICK E \in SUBSET Encoder!Recovering(ps, g, gap2) :
           Encoder!Recovery(ps, g, gap2)
             = IF E = {} THEN {} ELSE {i \in (g[2] + 1) .. Encoder!Min(E) : ps[i].d > 0}
    <2>1. \E F : /\ F \subseteq Encoder!Recovering(ps, g, gap2)
                 /\ Encoder!Recovery(ps, g, gap2)
                      = IF F = {} THEN {} ELSE {i \in (g[2] + 1) .. Encoder!Min(F) : ps[i].d > 0}
      <3> DEFINE F == {i \in Encoder!Recovering(ps, g, gap2) :
                         5 * Encoder!SumOver((g[2] + 1) .. i, LAMBDA k : ps[k].d)
                           >= 4 * Encoder!Drop(ps, g)}
      <3>1. F \subseteq Encoder!Recovering(ps, g, gap2)  OBVIOUS
      <3>2. Encoder!Recovery(ps, g, gap2)
              = IF F = {} THEN {} ELSE {i \in (g[2] + 1) .. Encoder!Min(F) : ps[i].d > 0}
        BY Zenon DEF Encoder!Recovery
      <3> HIDE DEF F
      <3> QED BY <3>1, <3>2
    <2> QED BY <2>1
  <1>2. E # {} /\ j \in (g[2] + 1) .. Encoder!Min(E)  BY <1>1
  <1>3. \A i \in Encoder!Recovering(ps, g, gap2) :
           i \in (g[2] + 1) .. Len(ps) /\ \A k \in (g[2] + 1) .. i : ps[k].d >= 0
    BY DEF Encoder!Recovering
  <1>4. E \subseteq Nat
    <2> SUFFICES ASSUME NEW i \in E PROVE i \in Nat
      OBVIOUS
    <2>1. i \in (g[2] + 1) .. Len(ps)  BY <1>3
    <2> QED BY <2>1
  <1>5. Encoder!Min(E) \in E
    <2>1. \E x \in E : \A y \in E : x <= y  BY <1>2, <1>4, Least
    <2> QED BY <2>1 DEF Encoder!Min
  <1>6. PICK m : m = Encoder!Min(E)  OBVIOUS
  <1>7. m \in (g[2] + 1) .. Len(ps) /\ \A k \in (g[2] + 1) .. m : ps[k].d >= 0
    BY <1>3, <1>5, <1>6
  <1>8. j \in (g[2] + 1) .. m  BY <1>2, <1>6
  <1>9. j \in (g[2] + 1) .. Len(ps) /\ \A k \in (g[2] + 1) .. j : k \in (g[2] + 1) .. m
    BY <1>7, <1>8
  <1> QED BY <1>7, <1>9

LEMMA BesideIs ==
    ASSUME NEW ps, NEW from, NEW dir, NEW gap2
    PROVE  Encoder!Beside(ps, from, dir, gap2) \subseteq 1 .. Len(ps)
  <1> SUFFICES ASSUME NEW x \in Encoder!Beside(ps, from, dir, gap2)
               PROVE  x \in 1 .. Len(ps)
    OBVIOUS
  <1>1. PICK k \in 1 .. Len(ps) : x = from + dir * k /\ \A i \in 1 .. k : from + dir * i \in 1 .. Len(ps)
    BY Zenon DEF Encoder!Beside
  <1>2. k \in 1 .. k  OBVIOUS
  <1> QED BY <1>1, <1>2

ReverseType(ps, g, gap2) ==
    IF g[1] = g[2] /\ Encoder!Recovery(ps, g, gap2) # {} THEN "reverse_glitch_candidate"
    ELSE IF g[1] < g[2] THEN "reverse_interval_candidate"
    ELSE "reverse_step_candidate"

ReverseOf(ps, g, gap2) ==
    [type |-> ReverseType(ps, g, gap2),
     at |-> ps[g[1]].seq, end |-> ps[g[2]].seq + 1,
     drop |-> Encoder!Drop(ps, g), delta |-> 0, dt |-> 0,
     recovery |-> Encoder!Recovery(ps, g, gap2),
     limit |-> Encoder!Thresholds(ps, g[1], gap2).reverse,
     context |-> Encoder!Beside(ps, g[1], -1, gap2) \cup Encoder!Beside(ps, g[2], 1, gap2)]

LEMMA ReversesAre ==
    ASSUME NEW s, NEW ps, NEW gap2
    PROVE  Encoder!ReverseEvents(s, ps, gap2)
             = {ReverseOf(ps, g, gap2) : g \in Encoder!Significant(ps, gap2)}
  BY Zenon DEF Encoder!ReverseEvents, ReverseOf, ReverseType

LEMMA ReverseIs ==
    ASSUME NEW ps, NEW g, NEW gap2, NEW e, e = ReverseOf(ps, g, gap2)
    PROVE  /\ e.type = ReverseType(ps, g, gap2)
           /\ e.at = ps[g[1]].seq /\ e.end = ps[g[2]].seq + 1
           /\ e.recovery = Encoder!Recovery(ps, g, gap2)
           /\ e.context = Encoder!Beside(ps, g[1], -1, gap2) \cup Encoder!Beside(ps, g[2], 1, gap2)
  BY DEF ReverseOf

\* e covers the places of ps[a] .. ps[b] and rests on others of ps.
Covers(e, ps, a, b) ==
    /\ a \in 1 .. Len(ps) /\ b \in 1 .. Len(ps) /\ a <= b
    /\ \A k \in (a + 1) .. b : ps[k].seq = ps[k - 1].seq + 1
    /\ e.at = ps[a].seq /\ e.end = ps[b].seq + 1

LEMMA ReverseCovers ==
    ASSUME NEW s, NEW ps, Len(ps) \in Nat, NEW gap2, NEW e \in Encoder!ReverseEvents(s, ps, gap2)
    PROVE  \E g \in Encoder!Significant(ps, gap2) :
              /\ g \in Encoder!NegativeGroups(ps, gap2) /\ IsGroup(g, ps, gap2)
              /\ e = ReverseOf(ps, g, gap2)
              /\ Covers(e, ps, g[1], g[2])
              /\ e.recovery = Encoder!Recovery(ps, g, gap2)
              /\ e.recovery \subseteq 1 .. Len(ps) /\ e.context \subseteq 1 .. Len(ps)
  <1>1. PICK g \in Encoder!Significant(ps, gap2) : e = ReverseOf(ps, g, gap2)
    BY ReversesAre
  <1>2. g \in Encoder!NegativeGroups(ps, gap2)  BY DEF Encoder!Significant
  <1>3. IsGroup(g, ps, gap2)  BY <1>2, GroupIs
  <1>4. /\ e.at = ps[g[1]].seq /\ e.end = ps[g[2]].seq + 1
        /\ e.recovery = Encoder!Recovery(ps, g, gap2)
        /\ e.context = Encoder!Beside(ps, g[1], -1, gap2) \cup Encoder!Beside(ps, g[2], 1, gap2)
    BY <1>1, ReverseIs
  <1>5. Covers(e, ps, g[1], g[2])  BY <1>3, <1>4 DEF Covers, IsGroup
  <1>6. e.context \subseteq 1 .. Len(ps)  BY <1>4, BesideIs
  <1>7. e.recovery \subseteq 1 .. Len(ps)
    <2> SUFFICES ASSUME NEW j \in Encoder!Recovery(ps, g, gap2)
                 PROVE  j \in 1 .. Len(ps)
      BY <1>4
    <2>1. g[2] \in 1 .. Len(ps)  BY <1>3 DEF IsGroup
    <2>2. j \in (g[2] + 1) .. Len(ps)  BY <2>1, RecoveryIs
    <2> QED BY <2>1, <2>2
  <1> QED BY <1>1, <1>2, <1>3, <1>4, <1>5, <1>6, <1>7

SpikeOf(ps, i, gap2) ==
    [type |-> "positive_spike_candidate",
     at |-> ps[i].seq, end |-> ps[i].seq + 1,
     drop |-> 0, delta |-> ps[i].d, dt |-> ps[i].dt, recovery |-> {},
     limit |-> Encoder!Thresholds(ps, i, gap2).spike,
     context |-> Encoder!Beside(ps, i, -1, gap2) \cup Encoder!Beside(ps, i, 1, gap2)]

LEMMA SpikeCovers ==
    ASSUME NEW ps, Len(ps) \in Nat, NEW gap2, NEW e \in Encoder!SpikeEvents(ps, gap2)
    PROVE  \E i \in 1 .. Len(ps) :
              /\ i \notin Encoder!Recovered(ps, gap2)
              /\ e.type = "positive_spike_candidate"
              /\ Covers(e, ps, i, i)
              /\ e.recovery = {} /\ e.context \subseteq 1 .. Len(ps)
  <1>1. PICK i \in 1 .. Len(ps) : i \notin Encoder!Recovered(ps, gap2) /\ e = SpikeOf(ps, i, gap2)
    BY Zenon DEF Encoder!SpikeEvents, SpikeOf
  <1>2. /\ e.at = ps[i].seq /\ e.end = ps[i].seq + 1 /\ e.recovery = {}
        /\ e.type = "positive_spike_candidate"
        /\ e.context = Encoder!Beside(ps, i, -1, gap2) \cup Encoder!Beside(ps, i, 1, gap2)
    BY <1>1 DEF SpikeOf
  <1>3. e.context \subseteq 1 .. Len(ps)  BY <1>2, BesideIs
  <1>4. \A k \in (i + 1) .. i : FALSE  OBVIOUS
  <1>5. Covers(e, ps, i, i)  BY <1>2, <1>4 DEF Covers
  <1> QED BY <1>1, <1>2, <1>3, <1>5

LEMMA CoveredSound ==
    ASSUME NEW s, NEW ps, Paired(ps, s), NEW e, NEW a, NEW b, Covers(e, ps, a, b)
    PROVE  \A i \in e.at .. (e.end - 1) : SoundAt(s, i)
  <1> SUFFICES ASSUME NEW i \in e.at .. (e.end - 1)
               PROVE  SoundAt(s, i)
    OBVIOUS
  <1>1. /\ a \in 1 .. Len(ps) /\ b \in 1 .. Len(ps) /\ a <= b
        /\ \A k \in (a + 1) .. b : ps[k].seq = ps[k - 1].seq + 1
        /\ e.at = ps[a].seq /\ e.end = ps[b].seq + 1
    BY DEF Covers
  <1>2. ps[b].seq \in Int  BY <1>1 DEF Paired
  <1>3. i \in ps[a].seq .. ps[b].seq
    <2>1. \A x \in Int : (x + 1) - 1 = x  OBVIOUS
    <2>2. (ps[b].seq + 1) - 1 = ps[b].seq  BY <1>2, <2>1
    <2>3. e.end - 1 = ps[b].seq  BY <1>1, <2>2
    <2> QED BY <1>1, <2>3
  <1>4. PICK k \in a .. b : ps[k].seq = i
    <2>1. Unbroken(ps, a, b)  BY <1>1 DEF Unbroken
    <2>2. Dense(ps, a, b)  BY <1>1, <2>1, StretchIs
    <2> QED BY <1>3, <2>2 DEF Dense
  <1>5. Len(ps) \in Nat /\ \A j \in 1 .. Len(ps) : SoundAt(s, ps[j].seq)  BY DEF Paired
  <1>6. k \in 1 .. Len(ps)  BY <1>1, <1>4, <1>5
  <1> QED BY <1>4, <1>5, <1>6

-----------------------------------------------------------------------------
(* The loop that finds flat intervals.                                       *)

FlatOf(s, ps, a, b) ==
    [type |-> "flat_count_candidate", at |-> ps[a].seq, end |-> ps[b].seq + 1,
     ms |-> s[ps[b].seq + 1].t - s[ps[a].seq].t]
FlatClosed(s, ps, acc, b) ==
    IF FlatOf(s, ps, acc.start, b).ms >= 10
    THEN acc.out \cup {FlatOf(s, ps, acc.start, b)} ELSE acc.out
FlatStill(ps, gap2, i) == Encoder!Within(ps[i], gap2) /\ ps[i].d = 0
FlatEnds(ps, gap2, acc, i) ==
    acc.start # 0 /\ ~(Encoder!Follows(ps, i) /\ FlatStill(ps, gap2, i))
FlatStep(s, ps, gap2, acc, i) ==
    [out   |-> IF FlatEnds(ps, gap2, acc, i) THEN FlatClosed(s, ps, acc, i - 1) ELSE acc.out,
     start |-> IF FlatStill(ps, gap2, i)
                  /\ (IF FlatEnds(ps, gap2, acc, i) THEN 0 ELSE acc.start) = 0
               THEN i ELSE IF FlatEnds(ps, gap2, acc, i) THEN 0 ELSE acc.start]

\* The states of the loop over n differences.
FlatLoop(s, ps, n) ==
    [out : SUBSET {FlatOf(s, ps, a, b) : a \in 1 .. n, b \in 0 .. n}, start : 0 .. n]

LEMMA FlatCloses ==
    ASSUME NEW s, NEW ps, NEW n \in Nat, NEW acc \in FlatLoop(s, ps, n), acc.start # 0, NEW b \in 0 .. n
    PROVE  /\ acc.out \subseteq FlatClosed(s, ps, acc, b)
           /\ \A e \in FlatClosed(s, ps, acc, b) : e \in acc.out \/ e = FlatOf(s, ps, acc.start, b)
           /\ FlatClosed(s, ps, acc, b) \subseteq {FlatOf(s, ps, x, y) : x \in 1 .. n, y \in 0 .. n}
  <1> DEFINE X == {FlatOf(s, ps, x, y) : x \in 1 .. n, y \in 0 .. n}
  <1>1. acc.out \subseteq X /\ acc.start \in 1 .. n  BY DEF FlatLoop
  <1>2. FlatOf(s, ps, acc.start, b) \in X  BY <1>1
  <1> HIDE DEF X
  <1>3. /\ acc.out \subseteq FlatClosed(s, ps, acc, b)
        /\ \A e \in FlatClosed(s, ps, acc, b) : e \in acc.out \/ e = FlatOf(s, ps, acc.start, b)
    BY Zenon DEF FlatClosed
  <1>4. FlatClosed(s, ps, acc, b) \subseteq X  BY <1>1, <1>2, <1>3
  <1> QED BY <1>3, <1>4 DEF X

LEMMA FlatGoesOn ==
    ASSUME NEW s, NEW ps, NEW gap2, NEW n \in Nat, NEW acc \in FlatLoop(s, ps, n), NEW i \in 1 .. n
    PROVE  FlatStep(s, ps, gap2, acc, i) \in FlatLoop(s, ps, n)
  <1> DEFINE X == {FlatOf(s, ps, x, y) : x \in 1 .. n, y \in 0 .. n}
             o == IF FlatEnds(ps, gap2, acc, i) THEN FlatClosed(s, ps, acc, i - 1) ELSE acc.out
             st == IF FlatStill(ps, gap2, i)
                      /\ (IF FlatEnds(ps, gap2, acc, i) THEN 0 ELSE acc.start) = 0
                   THEN i ELSE IF FlatEnds(ps, gap2, acc, i) THEN 0 ELSE acc.start
  <1>1. acc.out \in SUBSET X /\ acc.start \in 0 .. n  BY DEF FlatLoop
  <1>2. i - 1 \in 0 .. n  OBVIOUS
  <1>3. o \in SUBSET X
    <2>1. CASE FlatEnds(ps, gap2, acc, i)
      <3>1. acc.start # 0  BY <2>1 DEF FlatEnds
      <3>2. FlatClosed(s, ps, acc, i - 1) \in SUBSET X  BY <1>2, <3>1, FlatCloses
      <3> QED BY <2>1, <3>2
    <2>2. CASE ~FlatEnds(ps, gap2, acc, i)  BY <1>1, <2>2
    <2> QED BY <2>1, <2>2
  <1>4. st \in 0 .. n
    <2>1. 0 \in 0 .. n /\ i \in 0 .. n  OBVIOUS
    <2> QED BY <1>1, <2>1
  <1>5. FlatStep(s, ps, gap2, acc, i) = [out |-> o, start |-> st]  BY DEF FlatStep
  <1> HIDE DEF X, o, st
  <1>6. [out |-> o, start |-> st] \in [out : SUBSET X, start : 0 .. n]  BY <1>3, <1>4
  <1> QED BY <1>5, <1>6 DEF FlatLoop, X

LEMMA FlatBuilt ==
    ASSUME NEW s, NEW ps, NEW gap2, Len(ps) \in Nat
    PROVE  \E f : /\ f \in [0 .. Len(ps) -> FlatLoop(s, ps, Len(ps))]
                  /\ f[0] = [start |-> 0, out |-> {}]
                  /\ \A k \in 1 .. Len(ps) : f[k] = FlatStep(s, ps, gap2, f[k - 1], k)
                  /\ Encoder!FlatEvents(s, ps, gap2)
                       = IF f[Len(ps)].start # 0 THEN FlatClosed(s, ps, f[Len(ps)], Len(ps))
                         ELSE f[Len(ps)].out
  <1> DEFINE N == Len(ps)
             V == FlatLoop(s, ps, N)
             a == [start |-> 0, out |-> {}]
             G == [x \in (1 .. N) \X V |-> FlatStep(s, ps, gap2, x[2], x[1])]
             Step(g) == [k \in 0 .. N |-> IF k = 0 THEN [start |-> 0, out |-> {}]
                                          ELSE FlatStep(s, ps, gap2, g[k - 1], k)]
             m == CHOOSE g : g = Step(g)
  <1>1. Encoder!FlatEvents(s, ps, gap2)
          = IF m[N].start # 0 THEN FlatClosed(s, ps, m[N], N) ELSE m[N].out
    BY Zenon DEF Encoder!FlatEvents, FlatStep, FlatEnds, FlatStill, FlatClosed, FlatOf
  <1>2. N \in Nat /\ \A k \in 1 .. N : k \in 0 .. N /\ k # 0 /\ k - 1 \in 0 .. N  OBVIOUS
  <1>3. a \in V
    <2>1. 0 \in 0 .. N  OBVIOUS
    <2> HIDE DEF N
    <2> QED BY <2>1 DEF FlatLoop
  <1>4. \A k \in 1 .. N : \A acc \in V : FlatStep(s, ps, gap2, acc, k) \in V
    BY <1>2, FlatGoesOn
  <1> HIDE DEF N, V
  <1>5. G \in [(1 .. N) \X V -> V]
    BY <1>4
  <1>6. \A k \in 1 .. N : \A acc \in V : G[<<k, acc>>] = FlatStep(s, ps, gap2, acc, k)
    OBVIOUS
  <1> HIDE DEF G
  <1>7. PICK f : Iterates(f, V, a, N, G)  BY <1>2, <1>3, <1>5, Iterated
  <1>8. /\ f \in [0 .. N -> V] /\ f[0] = a
        /\ \A k \in 1 .. N : f[k] = FlatStep(s, ps, gap2, f[k - 1], k)
    BY <1>2, <1>6, <1>7 DEF Iterates
  <1>9. f = Step(f)
    <2>1. \A k \in 0 .. N : k # 0 => k \in 1 .. N  OBVIOUS
    <2> QED BY <1>8, <2>1
  <1>10. m = Step(m)  BY <1>9, Zenon
  <1>11. /\ m[0] = a /\ DOMAIN m = 0 .. N
         /\ \A k \in 1 .. N : m[k] = FlatStep(s, ps, gap2, m[k - 1], k)
    <2>1. 0 \in 0 .. N  BY <1>2
    <2> HIDE DEF m
    <2> QED BY <1>2, <1>10, <2>1
  <1> HIDE DEF m, a
  <1> DEFINE S == {k \in 0 .. N : m[k] \in V}
  <1>12. 0 \in S  BY <1>2, <1>3, <1>11
  <1>13. ASSUME NEW k \in 0 .. N, k \in S, k < N
         PROVE  k + 1 \in S
    <2>1. k + 1 \in 1 .. N /\ k + 1 \in 0 .. N /\ (k + 1) - 1 = k  BY <1>2, <1>13
    <2>2. m[k + 1] = FlatStep(s, ps, gap2, m[k], k + 1)  BY <1>11, <2>1
    <2>3. m[k] \in V  BY <1>13
    <2>4. m[k + 1] \in V  BY <1>4, <2>1, <2>2, <2>3
    <2> QED BY <2>1, <2>4
  <1>14. \A k \in 0 .. N : k \in S
    <2> HIDE DEF S
    <2> QED BY <1>2, <1>12, <1>13, Induct
  <1>15. m \in [0 .. N -> V]
    <2>1. \A k \in 0 .. N : m[k] \in V  BY <1>14
    <2>2. m = [k \in 0 .. N |-> m[k]]  BY <1>10, <1>11
    <2> QED BY <2>1, <2>2
  <1> QED BY <1>1, <1>11, <1>15 DEF N, V, a

\* e covers a stretch of ps.
Flat(e, ps) == \E a, b \in 1 .. Len(ps) : Covers(e, ps, a, b)

\* What the loop has found after i differences.
FlatSoFar(acc, ps, i) ==
    /\ \A e \in acc.out : Flat(e, ps)
    /\ acc.start \in 0 .. i
    /\ acc.start # 0 => \A k \in (acc.start + 1) .. i : ps[k].seq = ps[k - 1].seq + 1

LEMMA FlatCloseIs ==
    ASSUME NEW s, NEW ps, Len(ps) \in Nat, NEW acc \in FlatLoop(s, ps, Len(ps)), NEW i \in 0 .. Len(ps),
           FlatSoFar(acc, ps, i), acc.start # 0
    PROVE  \A e \in FlatClosed(s, ps, acc, i) : Flat(e, ps)
  <1> SUFFICES ASSUME NEW e \in FlatClosed(s, ps, acc, i)
               PROVE  Flat(e, ps)
    OBVIOUS
  <1>1. e \in acc.out \/ e = FlatOf(s, ps, acc.start, i)  BY FlatCloses
  <1>2. CASE e \in acc.out  BY <1>2 DEF FlatSoFar
  <1>3. CASE e = FlatOf(s, ps, acc.start, i)
    <2>1. e.at = ps[acc.start].seq /\ e.end = ps[i].seq + 1  BY <1>3 DEF FlatOf
    <2>2. acc.start \in 1 .. Len(ps) /\ i \in 1 .. Len(ps) /\ acc.start <= i
      BY DEF FlatSoFar
    <2>3. \A k \in (acc.start + 1) .. i : ps[k].seq = ps[k - 1].seq + 1  BY DEF FlatSoFar
    <2>4. Covers(e, ps, acc.start, i)  BY <2>1, <2>2, <2>3 DEF Covers
    <2> QED BY <2>2, <2>4 DEF Flat
  <1> QED BY <1>1, <1>2, <1>3

LEMMA FlatStepIs ==
    ASSUME NEW s, NEW ps, NEW gap2, Len(ps) \in Nat, NEW acc \in FlatLoop(s, ps, Len(ps)),
           NEW i \in 1 .. Len(ps), FlatSoFar(acc, ps, i - 1),
           NEW new, new = FlatStep(s, ps, gap2, acc, i)
    PROVE  FlatSoFar(new, ps, i)
  <1>1. i - 1 \in 0 .. Len(ps)  OBVIOUS
  <1>2. /\ new.out = IF FlatEnds(ps, gap2, acc, i) THEN FlatClosed(s, ps, acc, i - 1) ELSE acc.out
        /\ new.start = IF FlatStill(ps, gap2, i)
                          /\ (IF FlatEnds(ps, gap2, acc, i) THEN 0 ELSE acc.start) = 0
                       THEN i ELSE IF FlatEnds(ps, gap2, acc, i) THEN 0 ELSE acc.start
    BY DEF FlatStep
  <1>3. acc.start \in 0 .. i - 1  BY DEF FlatSoFar
  <1>4. \A e \in new.out : Flat(e, ps)
    <2>1. CASE FlatEnds(ps, gap2, acc, i)
      <3>1. acc.start # 0  BY <2>1 DEF FlatEnds
      <3>2. \A e \in FlatClosed(s, ps, acc, i - 1) : Flat(e, ps)  BY <1>1, <3>1, FlatCloseIs
      <3> QED BY <1>2, <2>1, <3>2
    <2>2. CASE ~FlatEnds(ps, gap2, acc, i)  BY <1>2, <2>2 DEF FlatSoFar
    <2> QED BY <2>1, <2>2
  <1>5. new.start = i \/ new.start = 0 \/ (new.start = acc.start /\ ~FlatEnds(ps, gap2, acc, i))
    BY <1>2
  <1>6. new.start \in 0 .. i  BY <1>3, <1>5
  <1>7. ASSUME new.start # 0, NEW k \in (new.start + 1) .. i
        PROVE  ps[k].seq = ps[k - 1].seq + 1
    <2>1. new.start # i  BY <1>6, <1>7
    <2>2. new.start = acc.start /\ ~FlatEnds(ps, gap2, acc, i)  BY <1>5, <1>7, <2>1
    <2>3. k = i \/ k \in (acc.start + 1) .. (i - 1)  BY <1>3, <1>7, <2>2
    <2>4. CASE k = i
      <3>1. Encoder!Follows(ps, i)  BY <1>7, <2>2 DEF FlatEnds
      <3> QED BY <2>4, <3>1 DEF Encoder!Follows
    <2>5. CASE k \in (acc.start + 1) .. (i - 1)
      BY <1>7, <2>2, <2>5 DEF FlatSoFar
    <2> QED BY <2>3, <2>4, <2>5
  <1> QED BY <1>4, <1>6, <1>7 DEF FlatSoFar

LEMMA FlatsAre ==
    ASSUME NEW s, NEW ps, NEW gap2, Len(ps) \in Nat, NEW e \in Encoder!FlatEvents(s, ps, gap2)
    PROVE  Flat(e, ps)
  <1> DEFINE N == Len(ps)
  <1>1. PICK f : /\ f \in [0 .. N -> FlatLoop(s, ps, N)]
                 /\ f[0] = [start |-> 0, out |-> {}]
                 /\ \A k \in 1 .. N : f[k] = FlatStep(s, ps, gap2, f[k - 1], k)
                 /\ Encoder!FlatEvents(s, ps, gap2)
                      = IF f[N].start # 0 THEN FlatClosed(s, ps, f[N], N) ELSE f[N].out
    BY FlatBuilt
  <1> DEFINE S == {k \in 0 .. N : FlatSoFar(f[k], ps, k)}
  <1>2. 0 \in S
    <2>1. f[0].start = 0 /\ f[0].out = {}  BY <1>1
    <2> QED BY <2>1 DEF FlatSoFar
  <1>3. ASSUME NEW k \in 0 .. N, k \in S, k < N
        PROVE  k + 1 \in S
    <2>1. k + 1 \in 1 .. N /\ k + 1 \in 0 .. N /\ (k + 1) - 1 = k  BY <1>3
    <2>2. f[k + 1] = FlatStep(s, ps, gap2, f[k], k + 1)  BY <1>1, <2>1
    <2>3. f[k] \in FlatLoop(s, ps, N) /\ FlatSoFar(f[k], ps, (k + 1) - 1)  BY <1>1, <1>3, <2>1
    <2>4. FlatSoFar(f[k + 1], ps, k + 1)  BY <2>1, <2>2, <2>3, FlatStepIs
    <2> QED BY <2>1, <2>4
  <1>4. \A k \in 0 .. N : k \in S
    <2> HIDE DEF S
    <2> QED BY <1>2, <1>3, Induct
  <1>5. N \in 0 .. N /\ f[N] \in FlatLoop(s, ps, N)  BY <1>1
  <1>6. FlatSoFar(f[N], ps, N)  BY <1>4, <1>5
  <1>7. CASE f[N].start # 0
    <2>1. e \in FlatClosed(s, ps, f[N], N)  BY <1>1, <1>7
    <2> QED BY <1>5, <1>6, <1>7, <2>1, FlatCloseIs
  <1>8. CASE f[N].start = 0
    <2>1. e \in f[N].out  BY <1>1, <1>8
    <2> QED BY <1>6, <2>1 DEF FlatSoFar
  <1> QED BY <1>7, <1>8

-----------------------------------------------------------------------------
(* Nothing is read across a sample that is missing.                          *)

LEMMA NothingIsReadAcross ==
    ASSUME EncoderInv
    PROVE  Encoder!NothingAcrossABarrier
  <1> DEFINE s == Encoder!Primary(log)
             ps == Encoder!Pairs(s)
             gap2 == Encoder!Gap2(s)
  <1>1. Paired(ps, s)  BY PrimaryIs, PairsAre
  <1>2. Encoder!Shown.flat = Encoder!FlatEvents(s, ps, gap2)
    BY DEF Encoder!Shown, Encoder!Report, Encoder!ReportOf
  <1>3. Encoder!Reverses = Encoder!ReverseEvents(s, ps, gap2) /\ Encoder!Spikes = Encoder!SpikeEvents(ps, gap2)
    BY DEF Encoder!Reverses, Encoder!Spikes
  <1> SUFFICES Encoder!ReadAcrossNothing(Encoder!Reverses \cup Encoder!Spikes, Encoder!Shown.flat, s, ps)
    BY DEF Encoder!NothingAcrossABarrier
  <1> HIDE DEF s, ps, gap2
  <1>4. Len(ps) \in Nat /\ \A k \in 1 .. Len(ps) : SoundAt(s, ps[k].seq)  BY <1>1 DEF Paired
  <1>5. ASSUME NEW e \in Encoder!Reverses \cup Encoder!Spikes,
               NEW i \in (e.at .. (e.end - 1)) \cup {ps[k].seq : k \in e.recovery \cup e.context}
        PROVE  SoundAt(s, i)
    <2>1. \E a, b : Covers(e, ps, a, b) /\ e.recovery \subseteq 1 .. Len(ps) /\ e.context \subseteq 1 .. Len(ps)
      <3>1. CASE e \in Encoder!Reverses
        <4>1. e \in Encoder!ReverseEvents(s, ps, gap2)  BY <1>3, <3>1
        <4> QED BY <1>4, <4>1, ReverseCovers
      <3>2. CASE e \in Encoder!Spikes
        <4>1. e \in Encoder!SpikeEvents(ps, gap2)  BY <1>3, <3>2
        <4> QED BY <1>4, <4>1, SpikeCovers
      <3> QED BY <3>1, <3>2
    <2>2. CASE i \in e.at .. (e.end - 1)  BY <1>1, <2>1, <2>2, CoveredSound
    <2>3. CASE i \in {ps[k].seq : k \in e.recovery \cup e.context}
      <3>1. PICK k \in e.recovery \cup e.context : i = ps[k].seq  BY <2>3
      <3>2. k \in 1 .. Len(ps)  BY <2>1
      <3> QED BY <1>4, <3>1, <3>2
    <2> QED BY <2>2, <2>3
  <1>6. ASSUME NEW e \in Encoder!Shown.flat, NEW i \in e.at .. (e.end - 1)
        PROVE  SoundAt(s, i)
    <2>1. e \in Encoder!FlatEvents(s, ps, gap2)  BY <1>2
    <2>2. PICK a, b : Covers(e, ps, a, b)  BY <1>4, <2>1, FlatsAre DEF Flat
    <2> QED BY <1>1, <2>2, CoveredSound
  <1>7. ASSUME NEW i, SoundAt(s, i)
        PROVE  Encoder!Readable(s, i) /\ s[i + 1].t > s[i].t
               /\ (Encoder!IsBoundary(s[i], s[i + 1]) => Encoder!Pattern(s, i) = "return_toward_previous_level")
    BY <1>7 DEF SoundAt
  <1> QED BY <1>5, <1>6, <1>7, Zenon DEF Encoder!ReadAcrossNothing

-----------------------------------------------------------------------------
(* Every decrease is counted once.                                           *)

FallTypes == {"reverse_glitch_candidate", "reverse_interval_candidate", "reverse_step_candidate"}

\* The counter of a type counts the decreases of that type, whatever else is found.
LEMMA FallsStandOut ==
    ASSUME NEW app, NEW s, NEW ps, Paired(ps, s), NEW gap2, NEW type \in FallTypes,
           Len(s) \in Nat
    PROVE  {e \in Encoder!CandidatesOf(app, s, ps, gap2) : e.type = type}
             = {e \in Encoder!ReverseEvents(s, ps, gap2) : e.type = type}
  <1> DEFINE C == Encoder!CandidatesOf(app, s, ps, gap2)
             R == Encoder!ReverseEvents(s, ps, gap2)
             Few == Encoder!Cardinality(Encoder!Valid(s)) < 2
             Other(e) == e.type \notin FallTypes
  <1>1. \A e \in Encoder!SpikeEvents(ps, gap2) : Other(e)
    <2>1. Len(ps) \in Nat  BY DEF Paired
    <2>2. \A e \in Encoder!SpikeEvents(ps, gap2) : e.type = "positive_spike_candidate"
      BY <2>1, SpikeCovers
    <2> QED BY <2>2 DEF FallTypes
  <1>2. \A e \in Encoder!GapEvents(s, gap2) : Other(e)
    <2> SUFFICES ASSUME NEW e \in Encoder!GapEvents(s, gap2)
                 PROVE  e.type = "sampling_gap"
      BY DEF FallTypes
    <2>1. PICK i : e = [type |-> "sampling_gap", at |-> i, end |-> i + 1, drop |-> 0, delta |-> 0,
                        dt |-> s[i + 1].t - s[i].t, recovery |-> {}, limit |-> gap2, context |-> {}]
      BY Zenon DEF Encoder!GapEvents
    <2> QED BY <2>1
  <1>3. \A g : \A e \in Encoder!FalseZeros(app, g) : Other(e)
    <2> SUFFICES ASSUME NEW g, NEW e \in Encoder!FalseZeros(app, g)
                 PROVE  e.type = "zero_speed_with_rising_count_candidate"
      BY DEF FallTypes
    <2>1. PICK i : e = [type |-> "zero_speed_with_rising_count_candidate", at |-> i, end |-> i,
                        drop |-> 0, delta |-> 0, dt |-> 0, recovery |-> {}, limit |-> 1,
                        context |-> {}]
      BY Zenon DEF Encoder!FalseZeros
    <2> QED BY <2>1
  <1>4. \A e \in C : e \in R \/ Other(e)
    BY <1>1, <1>2, <1>3 DEF Encoder!CandidatesOf
  <1>5. ~Few => R \subseteq C
    BY DEF Encoder!CandidatesOf
  <1>6. Few => R = {}
    <2> SUFFICES ASSUME Few, R # {}
                 PROVE  FALSE
      OBVIOUS
    <2>1. Len(ps) \in Nat  BY DEF Paired
    <2>2. PICK e \in R : TRUE  OBVIOUS
    <2>3. PICK k \in 1 .. Len(ps) : TRUE
      <3>1. \E a, b : Covers(e, ps, a, b)  BY <2>1, ReverseCovers
      <3> QED BY <3>1 DEF Covers
    <2>4. PICK i : i = ps[k].seq  OBVIOUS
    <2>5. /\ i \in 1 .. Len(s) - 1 /\ Encoder!Readable(s, i)
      BY <2>4 DEF Paired, SoundAt
    <2>6. PICK T : T = Encoder!Valid(s)  OBVIOUS
    <2>7. i \in T /\ i + 1 \in T /\ T \subseteq 1 .. Len(s) /\ i # i + 1
      BY <2>5, <2>6 DEF Encoder!Valid, Encoder!Readable
    <2>8. IsFiniteSet(T) /\ Cardinality(T) \in Nat  BY <2>7, DomainCard
    <2>9. Cardinality({i, i + 1}) = 2
      <3>1. IsFiniteSet({i}) /\ Cardinality({i}) = 1  BY FS_Singleton
      <3>2. {i, i + 1} = {i} \cup {i + 1} /\ i + 1 \notin {i}  BY <2>7
      <3>3. Cardinality({i} \cup {i + 1}) = Cardinality({i}) + 1  BY <2>7, <3>1, <3>2, FS_AddElement
      <3>4. Cardinality({i, i + 1}) = Cardinality({i} \cup {i + 1})  BY <3>2, Zenon
      <3>5. 1 + 1 = 2  OBVIOUS
      <3> QED BY <3>1, <3>3, <3>4, <3>5, Zenon
    <2>10. Cardinality({i, i + 1}) <= Cardinality(T)
      <3>1. {i, i + 1} \subseteq T  BY <2>7
      <3>2. {i, i + 1} \in SUBSET T  BY <3>1
      <3> QED BY <2>8, <3>2, FS_Subset, Zenon
    <2>11. Encoder!Cardinality(T) = Cardinality(T)  BY EncoderCard
    <2> QED BY <2>6, <2>8, <2>9, <2>10, <2>11
  <1> HIDE DEF C, R, Few
  <1>7. \A e \in C : e.type = type => e \in R  BY <1>4
  <1>8. \A e \in R : e \in C  BY <1>5, <1>6
  <1> QED BY <1>7, <1>8 DEF C, R

\* Each significant group is one event.
LEMMA OneEach ==
    ASSUME NEW s, NEW ps, Paired(ps, s), NEW gap2
    PROVE  /\ IsFiniteSet(Encoder!ReverseEvents(s, ps, gap2))
           /\ Cardinality(Encoder!ReverseEvents(s, ps, gap2)) = Cardinality(Encoder!Significant(ps, gap2))
  <1> DEFINE Sig == Encoder!Significant(ps, gap2)
             R == Encoder!ReverseEvents(s, ps, gap2)
             f == [g \in Sig |-> ReverseOf(ps, g, gap2)]
  <1>1. Len(ps) \in Nat  BY DEF Paired
  <1>2. Sig \subseteq Encoder!NegativeGroups(ps, gap2)  BY DEF Encoder!Significant
  <1>3. IsFiniteSet(Sig)  BY <1>1, <1>2, GroupsAreFew, FS_Subset
  <1>4. R = {ReverseOf(ps, g, gap2) : g \in Sig}  BY ReversesAre
  <1>5. ASSUME NEW g \in Sig, NEW h \in Sig, g # h
        PROVE  ReverseOf(ps, g, gap2) # ReverseOf(ps, h, gap2)
    <2>1. g[2] < h[1] \/ h[2] < g[1]  BY <1>1, <1>2, <1>5, GroupsApart
    <2>2. IsGroup(g, ps, gap2) /\ IsGroup(h, ps, gap2)  BY <1>1, <1>2, GroupIs
    <2>3. g[1] \in 1 .. Len(ps) /\ h[1] \in 1 .. Len(ps) /\ (g[1] < h[1] \/ h[1] < g[1])
      BY <1>1, <2>1, <2>2 DEF IsGroup
    <2>4. ps[g[1]].seq < ps[h[1]].seq \/ ps[h[1]].seq < ps[g[1]].seq  BY <2>3 DEF Paired
    <2>5. ps[g[1]].seq \in Int /\ ps[h[1]].seq \in Int  BY <2>3 DEF Paired
    <2>6. ps[g[1]].seq # ps[h[1]].seq  BY <2>4, <2>5
    <2>7. ReverseOf(ps, g, gap2).at = ps[g[1]].seq /\ ReverseOf(ps, h, gap2).at = ps[h[1]].seq
      BY ReverseIs
    <2> QED BY <2>6, <2>7
  <1> HIDE DEF Sig, R
  <1>6. f \in Bijection(Sig, R)
    <2>1. f \in [Sig -> R]  BY <1>4
    <2>2. \A g, h \in Sig : f[g] = f[h] => g = h  BY <1>5
    <2>3. \A e \in R : \E g \in Sig : f[g] = e  BY <1>4
    <2> HIDE DEF f
    <2>4. f \in Injection(Sig, R)  BY <2>1, <2>2 DEF Injection, IsInjective
    <2>5. f \in Surjection(Sig, R)  BY <2>1, <2>3 DEF Surjection
    <2> QED BY <2>4, <2>5 DEF Bijection
  <1> HIDE DEF f
  <1>7. IsFiniteSet(R) /\ Cardinality(Sig) = Cardinality(R)
    <2>1. ExistsBijection(Sig, R)  BY <1>6 DEF ExistsBijection
    <2> QED BY <1>3, <2>1, FS_Bijection
  <1> QED BY <1>7 DEF Sig, R

LEMMA FallTypesAdd ==
    ASSUME NEW R, IsFiniteSet(R), \A e \in R : e.type \in FallTypes
    PROVE  Cardinality({e \in R : e.type = "reverse_glitch_candidate"})
             + Cardinality({e \in R : e.type = "reverse_interval_candidate"})
             + Cardinality({e \in R : e.type = "reverse_step_candidate"}) = Cardinality(R)
  <1> DEFINE Of(type) == {e \in R : e.type = type}
             A == Of("reverse_glitch_candidate")
             B == Of("reverse_interval_candidate")
             D == Of("reverse_step_candidate")
  <1>1. IsFiniteSet(A) /\ IsFiniteSet(B) /\ IsFiniteSet(D)
    <2>1. A \subseteq R /\ B \subseteq R /\ D \subseteq R  OBVIOUS
    <2> HIDE DEF A, B, D
    <2> QED BY <2>1, FS_Subset
  <1>2. R = (A \cup B) \cup D /\ A \cap B = {} /\ (A \cup B) \cap D = {}
    <2>1. \A e \in R : e \in A \/ e \in B \/ e \in D  BY DEF FallTypes
    <2>2. A \cap B = {} /\ A \cap D = {} /\ B \cap D = {}  OBVIOUS
    <2>3. A \subseteq R /\ B \subseteq R /\ D \subseteq R  OBVIOUS
    <2> HIDE DEF A, B, D
    <2> QED BY <2>1, <2>2, <2>3
  <1> HIDE DEF A, B, D, Of
  <1>3. /\ Cardinality(A) \in Nat /\ Cardinality(B) \in Nat /\ Cardinality(D) \in Nat
        /\ Cardinality({}) = 0
    BY <1>1, FS_CardinalityType, FS_EmptySet
  <1>4. IsFiniteSet(A \cup B) /\ Cardinality(A \cup B) = Cardinality(A) + Cardinality(B)
    <2>1. /\ IsFiniteSet(A \cup B)
          /\ Cardinality(A \cup B) = Cardinality(A) + Cardinality(B) - Cardinality(A \cap B)
      BY <1>1, FS_Union
    <2>2. Cardinality(A \cap B) = 0  BY <1>2, <1>3, Zenon
    <2>3. Cardinality(A) + Cardinality(B) - 0 = Cardinality(A) + Cardinality(B)  BY <1>3
    <2> QED BY <2>1, <2>2, <2>3, Zenon
  <1>5. Cardinality((A \cup B) \cup D) = Cardinality(A \cup B) + Cardinality(D) - Cardinality((A \cup B) \cap D)
    <2> DEFINE U == A \cup B
    <2>1. IsFiniteSet(U)  BY <1>4
    <2> HIDE DEF U
    <2>2. Cardinality(U \cup D) = Cardinality(U) + Cardinality(D) - Cardinality(U \cap D)
      BY <1>1, <2>1, FS_Union
    <2> QED BY <2>2 DEF U
  <1>6. Cardinality(R) = Cardinality(A) + Cardinality(B) + Cardinality(D)
    <2>1. Cardinality(R) = Cardinality(A \cup B) + Cardinality(D) - 0
      BY <1>2, <1>3, <1>5
    <2> QED BY <1>3, <1>4, <2>1
  <1> QED BY <1>6, Zenon DEF A, B, D, Of

\* Of two decreases the later one begins when the earlier one is over, and no
\* increase makes up for both.
LEMMA FallsApart ==
    ASSUME NEW s, NEW ps, Paired(ps, s), NEW gap2, NEW g, NEW h,
           IsGroup(g, ps, gap2), IsGroup(h, ps, gap2), g[2] < h[1]
    PROVE  /\ ps[g[2]].seq + 1 <= ps[h[1]].seq
           /\ Encoder!Recovery(ps, g, gap2) \cap Encoder!Recovery(ps, h, gap2) = {}
  <1>1. /\ Len(ps) \in Nat /\ g[2] \in 1 .. Len(ps) /\ h[1] \in 1 .. Len(ps) /\ h[2] \in 1 .. Len(ps)
        /\ h[1] <= h[2] /\ h[1] \in Falls(ps, gap2)
    <2>1. h[1] \in 1 .. Len(ps) /\ h[1] <= h[2] /\ h[2] \in 1 .. Len(ps)  BY DEF IsGroup
    <2>2. h[1] \in h[1] .. h[2]  BY <2>1
    <2> QED BY <2>1, <2>2 DEF IsGroup, Paired
  <1>2. ps[g[2]].seq \in Int /\ ps[h[1]].seq \in Int /\ ps[g[2]].seq < ps[h[1]].seq
    BY <1>1 DEF Paired
  <1>3. ps[h[1]].d \in Int /\ ps[h[1]].d < 0  BY <1>1 DEF Paired, Falls
  <1>4. ASSUME NEW j \in Encoder!Recovery(ps, g, gap2), j \in Encoder!Recovery(ps, h, gap2)
        PROVE  FALSE
    <2>1. j \in (h[2] + 1) .. Len(ps)  BY <1>1, <1>4, RecoveryIs
    <2>2. \A k \in (g[2] + 1) .. j : ps[k].d >= 0  BY <1>1, <1>4, RecoveryIs
    <2>3. h[1] \in (g[2] + 1) .. j  BY <1>1, <2>1
    <2> QED BY <1>3, <2>2, <2>3
  <1> QED BY <1>2, <1>4

LEMMA DecreasesAreCounted ==
    ASSUME EncoderInv
    PROVE  Encoder!EachDecreaseOnce
  <1> DEFINE s == Encoder!Primary(log)
             ps == Encoder!Pairs(s)
             gap2 == Encoder!Gap2(s)
             app == Encoder!Application(log)
             C == Encoder!CandidatesOf(app, s, ps, gap2)
             R == Encoder!ReverseEvents(s, ps, gap2)
             facts == Encoder!Shown.facts
             NumberOf(type) == Encoder!OfType(C, {type})
  <1>1. s \in Seq(EncSamples) /\ Paired(ps, s)  BY PrimaryIs, PairsAre
  <1>2. facts = Encoder!Facts(Encoder!Candidates(log), s) /\ Encoder!Candidates(log) = C
    BY DEF Encoder!Shown, Encoder!Report, Encoder!ReportOf, Encoder!Candidates
  <1>3. Encoder!Reverses = R /\ Encoder!Spikes = Encoder!SpikeEvents(ps, gap2)
        /\ Encoder!Groups = Encoder!NegativeGroups(ps, gap2)
    BY DEF Encoder!Reverses, Encoder!Spikes, Encoder!Groups
  <1>4. /\ facts.glitches = NumberOf("reverse_glitch_candidate")
        /\ facts.intervals = NumberOf("reverse_interval_candidate")
        /\ facts.steps = NumberOf("reverse_step_candidate")
        /\ facts.reverse = Encoder!Cardinality(Encoder!Significant(ps, gap2))
    BY <1>2 DEF Encoder!Facts
  <1> SUFFICES Encoder!DecreasesCounted(facts, Encoder!Reverses, Encoder!Spikes, Encoder!Groups, s, ps, gap2)
    BY DEF Encoder!EachDecreaseOnce
  <1> HIDE DEF s, ps, gap2, app, facts
  <1>5. Len(ps) \in Nat  BY <1>1 DEF Paired
  <1>6. \A e \in R : e.type \in FallTypes
    <2> SUFFICES ASSUME NEW e \in R PROVE e.type \in FallTypes
      OBVIOUS
    <2>1. PICK g : e = ReverseOf(ps, g, gap2)  BY ReversesAre
    <2>2. e.type = ReverseType(ps, g, gap2)  BY <2>1, ReverseIs
    <2> QED BY <2>2 DEF ReverseType, FallTypes
  <1>7. IsFiniteSet(R) /\ Cardinality(R) = Cardinality(Encoder!Significant(ps, gap2))
    BY <1>1, OneEach
  <1>8. ASSUME NEW type \in FallTypes
        PROVE  NumberOf(type) = Cardinality({e \in R : e.type = type})
    <2>1. Len(s) \in Nat  BY <1>1, LenProperties
    <2>2. {e \in C : e.type = type} = {e \in R : e.type = type}  BY <1>1, <2>1, FallsStandOut
    <2>3. {e \in C : e.type \in {type}} = {e \in C : e.type = type}  OBVIOUS
    <2>4. NumberOf(type) = Encoder!Cardinality({e \in C : e.type \in {type}})  BY DEF Encoder!OfType
    <2> HIDE DEF C, R
    <2> QED BY <2>2, <2>3, <2>4, EncoderCard
  <1> HIDE DEF C, R, NumberOf
  <1>9. facts.glitches + facts.intervals + facts.steps = facts.reverse
    <2>1. /\ NumberOf("reverse_glitch_candidate") = Cardinality({e \in R : e.type = "reverse_glitch_candidate"})
          /\ NumberOf("reverse_interval_candidate") = Cardinality({e \in R : e.type = "reverse_interval_candidate"})
          /\ NumberOf("reverse_step_candidate") = Cardinality({e \in R : e.type = "reverse_step_candidate"})
      BY <1>8 DEF FallTypes
    <2> QED BY <1>4, <1>6, <1>7, <2>1, FallTypesAdd, EncoderCard
  <1>10. Encoder!Cardinality(Encoder!Reverses) = facts.reverse
    BY <1>3, <1>4, <1>7, EncoderCard
  <1>11. ASSUME NEW a \in Encoder!Reverses, NEW b \in Encoder!Reverses, a # b
         PROVE  a.recovery \cap b.recovery = {} /\ (a.end <= b.at \/ b.end <= a.at)
    <2>1. a \in Encoder!ReverseEvents(s, ps, gap2) /\ b \in Encoder!ReverseEvents(s, ps, gap2)
      BY <1>3 DEF R
    <2>2. PICK g \in Encoder!NegativeGroups(ps, gap2) :
             /\ IsGroup(g, ps, gap2) /\ a = ReverseOf(ps, g, gap2)
             /\ Covers(a, ps, g[1], g[2]) /\ a.recovery = Encoder!Recovery(ps, g, gap2)
      BY <1>5, <2>1, ReverseCovers
    <2>3. PICK h \in Encoder!NegativeGroups(ps, gap2) :
             /\ IsGroup(h, ps, gap2) /\ b = ReverseOf(ps, h, gap2)
             /\ Covers(b, ps, h[1], h[2]) /\ b.recovery = Encoder!Recovery(ps, h, gap2)
      BY <1>5, <2>1, ReverseCovers
    <2>4. g # h  BY <1>11, <2>2, <2>3
    <2>5. g[2] < h[1] \/ h[2] < g[1]  BY <1>5, <2>4, GroupsApart
    <2>6. /\ a.at = ps[g[1]].seq /\ a.end = ps[g[2]].seq + 1
          /\ b.at = ps[h[1]].seq /\ b.end = ps[h[2]].seq + 1
      BY <2>2, <2>3 DEF Covers
    <2>7. CASE g[2] < h[1]
      <3>1. /\ ps[g[2]].seq + 1 <= ps[h[1]].seq
            /\ Encoder!Recovery(ps, g, gap2) \cap Encoder!Recovery(ps, h, gap2) = {}
        BY <1>1, <2>2, <2>3, <2>7, FallsApart
      <3> QED BY <2>2, <2>3, <2>6, <3>1
    <2>8. CASE h[2] < g[1]
      <3>1. /\ ps[h[2]].seq + 1 <= ps[g[1]].seq
            /\ Encoder!Recovery(ps, h, gap2) \cap Encoder!Recovery(ps, g, gap2) = {}
        BY <1>1, <2>2, <2>3, <2>8, FallsApart
      <3> QED BY <2>2, <2>3, <2>6, <3>1
    <2> QED BY <2>5, <2>7, <2>8
  <1>12. ASSUME NEW e \in Encoder!Spikes, NEW r \in Encoder!Reverses
         PROVE  e.at \notin {ps[k].seq : k \in r.recovery}
    <2>1. e \in Encoder!SpikeEvents(ps, gap2) /\ r \in Encoder!ReverseEvents(s, ps, gap2)
      BY <1>3 DEF R
    <2>2. PICK i \in 1 .. Len(ps) : i \notin Encoder!Recovered(ps, gap2) /\ Covers(e, ps, i, i)
      BY <1>5, <2>1, SpikeCovers
    <2>3. PICK g \in Encoder!Significant(ps, gap2) :
             r.recovery = Encoder!Recovery(ps, g, gap2) /\ r.recovery \subseteq 1 .. Len(ps)
      BY <1>5, <2>1, ReverseCovers
    <2> SUFFICES ASSUME NEW k \in r.recovery, e.at = ps[k].seq
                 PROVE  FALSE
      OBVIOUS
    <2>4. k \in 1 .. Len(ps) /\ k \in Encoder!Recovered(ps, gap2)
      BY <2>3 DEF Encoder!Recovered
    <2>5. ps[i].seq = ps[k].seq /\ i # k  BY <2>2, <2>4 DEF Covers
    <2>6. i < k \/ k < i  BY <2>4, <2>5
    <2>7. ps[i].seq < ps[k].seq \/ ps[k].seq < ps[i].seq  BY <1>1, <2>4, <2>6 DEF Paired
    <2>8. ps[i].seq \in Int  BY <1>1 DEF Paired
    <2> QED BY <2>5, <2>7, <2>8
  <1>13. ASSUME NEW i \in {ps[k].seq : k \in 1 .. Len(ps)},
                s[i + 1].n < s[i].n, 2 * (s[i + 1].t - s[i].t) <= gap2
         PROVE  \E g \in Encoder!Groups : i \in {ps[k].seq : k \in g[1] .. g[2]}
    <2>1. PICK k \in 1 .. Len(ps) : i = ps[k].seq  OBVIOUS
    <2>2. /\ i \in 1 .. Len(s) - 1 /\ ps[k].d = s[i + 1].n - s[i].n
          /\ ps[k].dt = s[i + 1].t - s[i].t
      BY <1>1, <2>1 DEF Paired
    <2>3. s[i].n \in Int /\ s[i + 1].n \in Int
      <3>1. Len(s) \in Nat  BY <1>1, LenProperties
      <3>2. i \in 1 .. Len(s) /\ i + 1 \in 1 .. Len(s)  BY <2>2, <3>1
      <3>3. s[i] \in EncSamples /\ s[i + 1] \in EncSamples  BY <1>1, <3>2, ElementOfSeq
      <3> QED BY <3>3 DEF EncSamples
    <2>4. ps[k].d < 0  BY <1>13, <2>2, <2>3
    <2>5. k \in Falls(ps, gap2)  BY <1>13, <2>2, <2>4 DEF Falls, Encoder!Within
    <2>6. PICK g \in Encoder!NegativeGroups(ps, gap2) : k \in g[1] .. g[2]  BY <1>5, <2>5, GroupsCover
    <2> QED BY <1>3, <2>1, <2>6
  <1> QED BY <1>9, <1>10, <1>11, <1>12, <1>13, Zenon DEF Encoder!DecreasesCounted

-----------------------------------------------------------------------------
(* A behaviour of the root module that runs the encoder skill.               *)

EncoderRun == which = "encoder" => EncoderInv

\* Whatever movements, gaps, resets and unreadable samples the log of a window
\* is made of, encoder_health.py reads no event, recovery or context across a
\* sample that is missing, and counts every decrease of the count once.
THEOREM EncoderEventsAreSound == Spec => []EncoderEventsSound
  <1>1. Init => EncoderRun
    BY EncoderStart DEF Init, EncoderRun
  <1>2. EncoderRun /\ [Next]_vars => EncoderRun'
    <2> SUFFICES ASSUME EncoderRun, [Next]_vars, which' = "encoder"
                 PROVE  EncoderInv'
      BY DEF EncoderRun
    <2>1. which = which'
      BY DEF Next, vars
    <2>2. Encoder!Next \/ UNCHANGED encoderVars
      BY <2>1 DEF Next, vars
    <2>3. EncoderInv
      BY <2>1 DEF EncoderRun
    <2> QED
      BY <2>2, <2>3, EncoderAssumption, EncoderStep
  <1>3. EncoderRun => EncoderEventsSound
    BY NothingIsReadAcross, DecreasesAreCounted DEF EncoderRun, EncoderEventsSound
  <1> QED
    BY <1>1, <1>2, <1>3, PTL DEF Spec

=============================================================================
