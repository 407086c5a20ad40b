---------------------------- MODULE Pages_proofs ----------------------------
(* Proofs about MC_Pages, for every bound of its configuration: what the pages *)
(* of the browser show (PagesAreShown), and that the feed of a task's events   *)
(* skips and repeats nothing (FeedIsWhole).  The lines a poll picks are       *)
(* followed element after element, by the induction of the first section.      *)
EXTENDS MC_Pages, SequenceTheorems, WellFoundedInduction, TLAPS

-----------------------------------------------------------------------------
(* A set of numbers that has 0 and, with each number below N, the next one has *)
(* all up to N; a function that is defined from its previous value exists.     *)

LEMMA Least == ASSUME NEW T, T \subseteq Nat, T # {}
               PROVE  \E x \in T : \A y \in T : x <= y
  <1> DEFINE R == {ss \in Nat \X Nat : ss[1] < ss[2]}
  <1>1. IsWellFoundedOn(R, Nat)
    BY NatLessThanWellFounded DEF OpToRel
  <1>2. \A a, b \in Nat : a < b => <<a, b>> \in R
    OBVIOUS
  <1> HIDE DEF R
  <1>3. PICK x \in T : \A y \in T : ~(<<y, x>> \in R)
    BY <1>1, WFMin
  <1>4. \A y \in T : x <= y
    <2> SUFFICES ASSUME NEW y \in T, ~(x <= y)
                 PROVE  FALSE
      OBVIOUS
    <2>1. x \in Nat /\ y \in Nat /\ y < x
      OBVIOUS
    <2> QED
      BY <2>1, <1>2, <1>3
  <1> QED
    BY <1>4

LEMMA Induct ==
    ASSUME NEW N \in Nat, NEW S, 0 \in S, \A n \in 0 .. N : n \in S /\ n < N => n + 1 \in S
    PROVE  \A n \in 0 .. N : n \in S
  <1> DEFINE T == {n \in 0 .. N : n \notin S}
  <1> SUFFICES ASSUME T # {}
               PROVE  FALSE
    OBVIOUS
  <1>1. T \subseteq Nat
    OBVIOUS
  <1>2. \A n \in T : n \in 0 .. N /\ n \notin S
    OBVIOUS
  <1>3. \A n \in 0 .. N : n \notin S => n \in T
    OBVIOUS
  <1> HIDE DEF T
  <1>4. PICK x \in T : \A y \in T : x <= y
    BY <1>1, Least
  <1>5. x \in 0 .. N /\ x # 0 /\ x \notin S
    BY <1>2
  <1>6. PICK z : z = x - 1
    OBVIOUS
  <1>7. z \in 0 .. N /\ z < N /\ z + 1 = x /\ ~(x <= z)
    BY <1>5, <1>6
  <1>8. z \in S
    BY <1>3, <1>4, <1>7
  <1> QED
    BY <1>5, <1>7, <1>8

\* f is G iterated N times from a, on the values V.
Iterates(f, V, a, N, G) == /\ f \in [0 .. N -> V] /\ f[0] = a
                           /\ \A k \in 1 .. N : f[k] = G[<<k, f[k - 1]>>]

LEMMA Iterated ==
    ASSUME NEW V, NEW a \in V, NEW N \in Nat, NEW G \in [(1 .. N) \X V -> V]
    PROVE  \E f : Iterates(f, V, a, N, G)
  <1> DEFINE Good(n, f) == f[0] = a /\ \A k \in 1 .. n : f[k] = G[<<k, f[k - 1]>>]
  <1> DEFINE S == {n \in 0 .. N : \E f \in [0 .. n -> V] : Good(n, f)}
  <1>1. 0 \in S
    <2>1. PICK z : z = [k \in 0 .. 0 |-> a]
      OBVIOUS
    <2>2. z \in [0 .. 0 -> V] /\ z[0] = a /\ \A k \in 1 .. 0 : FALSE
      BY <2>1
    <2>3. Good(0, z)
      BY <2>2
    <2>4. 0 \in 0 .. N
      OBVIOUS
    <2> HIDE DEF Good
    <2> QED
      BY <2>2, <2>3, <2>4
  <1>2. ASSUME NEW n \in 0 .. N, n \in S, n < N
        PROVE  n + 1 \in S
    <2>1. PICK f \in [0 .. n -> V] : Good(n, f)
      BY <1>2
    <2>2. PICK m : m = n + 1
      OBVIOUS
    <2>3. m \in 1 .. N /\ m \in 0 .. N /\ n \in 0 .. n
      BY <1>2, <2>2
    <2> DEFINE g == [k \in 0 .. m |-> IF k = m THEN G[<<m, f[n]>>] ELSE f[k]]
    <2>4. G[<<m, f[n]>>] \in V
      BY <2>3
    <2>5. g \in [0 .. m -> V]
      BY <2>2, <2>4
    <2>6. \A k \in 0 .. n : g[k] = f[k]
      BY <2>2
    <2>7. g[m] = G[<<m, f[n]>>]
      BY <2>3
    <2> HIDE DEF g
    <2>8. Good(m, g)
      <3>1. g[0] = a
        BY <2>1, <2>6, <1>2
      <3>2. ASSUME NEW k \in 1 .. m
            PROVE  g[k] = G[<<k, g[k - 1]>>]
        <4>1. CASE k = m
          <5>1. k - 1 = n
            BY <4>1, <2>2
          <5> QED
            BY <4>1, <5>1, <2>3, <2>6, <2>7
        <4>2. CASE k # m
          <5>1. k \in 1 .. n /\ k \in 0 .. n /\ k - 1 \in 0 .. n
            BY <4>2, <2>2
          <5> QED
            BY <5>1, <2>1, <2>6
        <4> QED
          BY <4>1, <4>2
      <3> QED
        BY <3>1, <3>2
    <2> QED
      BY <2>2, <2>3, <2>5, <2>8
  <1> HIDE DEF S
  <1>3. N \in S
    BY <1>1, <1>2, Induct
  <1> QED
    BY <1>3 DEF S, Iterates

-----------------------------------------------------------------------------
(* EventFeed: the progress events of a task.                                 *)

Kinds  == {"MODEL_REQUEST", "PROGRESS_UPDATE", "TOOL_CALL", "TOOL_RESULT", "USER_STEER"}
Events == [seq : Nat, type : Kinds, of : {read, card, "none"}, text : {"short", "long", "separator"}]
Lines   == [e : Events, whole : BOOLEAN]

Numbered(m)   == m \in Seq(Events) /\ \A i \in 1 .. Len(m) : m[i].seq = i
Increasing(r) == \A i, j \in 1 .. Len(r) : i < j => r[i].e.seq < r[j].e.seq
Stored(f, n)  == f \in Seq(Lines) /\ Increasing(f) /\ \A i \in 1 .. Len(f) : f[i].e.seq \in 1 .. n

\* The event that is being written is the newest one, no page has its number,
\* and only the first part of its line may be in the file.
Writing(w, f, p, n) ==
    w # Feed!Nobody =>
      /\ w.e \in Events /\ w.e.seq = n /\ p.cursor < n
      /\ \A i \in 1 .. Len(f) : f[i].e.seq = n => i = Len(f) /\ f[i] = Feed!Half(w.e)

ShownSo(p, f, n) ==
    /\ p.cursor \in 0 .. n
    /\ p.shown \in Seq(Events)
    /\ \A i, j \in 1 .. Len(p.shown) : i < j => p.shown[i].seq < p.shown[j].seq
    /\ \A i \in 1 .. Len(p.shown) : p.shown[i].seq <= p.cursor
    /\ \A i \in 1 .. Len(f) : f[i].whole /\ f[i].e.seq <= p.cursor =>
         \E j \in 1 .. Len(p.shown) : p.shown[j] = f[i].e

FeedCore(m, w, f, p) ==
    Numbered(m) /\ Stored(f, Len(m)) /\ Writing(w, f, p, Len(m)) /\ ShownSo(p, f, Len(m))

\* What has been told is remembered, and told once.
Remembered(e, s) ==
    CASE e.type \in {"TOOL_CALL", "PROGRESS_UPDATE"} -> e.of \in s.calls
      [] e.type = "TOOL_RESULT" -> e.of \in s.results
      [] OTHER -> e.of = "none"
Told(m, s) ==
    /\ \A i \in 1 .. Len(m) : Remembered(m[i], s)
    /\ \A i, j \in 1 .. Len(m) :
         m[i].type = m[j].type /\ m[i].of = m[j].of /\ m[i].of # "none" => i = j

Script(a, c, r) == [made |-> a, calls |-> c, results |-> r]
ScriptOk(t) == /\ t = Script(t.made, t.calls, t.results)
               /\ t.calls \subseteq {read, card} /\ t.results \subseteq {read, card}

FeedInv ==
    /\ ScriptOk(transcript)
    /\ FeedCore(memory, writer, file, feed)
    /\ seen = [calls |-> seen.calls, results |-> seen.results]
    /\ Told(memory, seen)

LEMMA FeedStarts ==
    ASSUME Feed!Init
    PROVE  FeedInv
  <1>1. memory = <<>> /\ writer = Feed!Nobody /\ file = <<>> /\ feed.cursor = 0 /\ feed.shown = <<>>
    BY DEF Feed!Init
  <1>2. seen = [calls |-> seen.calls, results |-> seen.results]
    BY DEF Feed!Init
  <1>3. Numbered(memory) /\ Stored(file, Len(memory)) /\ Writing(writer, file, feed, Len(memory))
    BY <1>1 DEF Numbered, Stored, Increasing, Writing
  <1>4. ShownSo(feed, file, Len(memory))
    BY <1>1 DEF ShownSo
  <1>5. Told(memory, seen)
    BY <1>1 DEF Told
  <1>6. ScriptOk(transcript)
    BY DEF Feed!Init, ScriptOk, Script
  <1> QED
    BY <1>2, <1>3, <1>4, <1>5, <1>6 DEF FeedInv, FeedCore

\* A line with a number above those of the file may follow.
LEMMA LineFollows ==
    ASSUME NEW f, NEW n \in Nat, NEW m \in Nat, m <= n, Stored(f, m), NEW r \in Lines,
           r.e.seq \in 1 .. n, \A i \in 1 .. Len(f) : f[i].e.seq < r.e.seq
    PROVE  /\ Stored(Append(f, r), n)
           /\ Len(Append(f, r)) = Len(f) + 1 /\ Append(f, r)[Len(f) + 1] = r
           /\ \A i \in 1 .. Len(f) : Append(f, r)[i] = f[i]
  <1>1. PICK g : g = Append(f, r)
    OBVIOUS
  <1>2. f \in Seq(Lines) /\ Len(f) \in Nat
    BY DEF Stored
  <1>3. g \in Seq(Lines) /\ Len(g) = Len(f) + 1 /\ g[Len(f) + 1] = r /\ \A i \in 1 .. Len(f) : g[i] = f[i]
    BY <1>1, <1>2
  <1>4. \A i \in 1 .. Len(g) : i = Len(f) + 1 \/ i \in 1 .. Len(f)
    BY <1>2, <1>3
  <1>5. \A i \in 1 .. Len(g) : g[i].e.seq \in 1 .. n
    BY <1>3, <1>4 DEF Stored
  <1>6. \A i, j \in 1 .. Len(g) : i < j => g[i].e.seq < g[j].e.seq
    <2> TAKE i, j \in 1 .. Len(g)
    <2>1. i < j => i \in 1 .. Len(f)
      BY <1>2, <1>3
    <2>2. CASE j \in 1 .. Len(f)
      BY <2>1, <2>2, <1>3 DEF Stored, Increasing
    <2>3. CASE j = Len(f) + 1
      BY <2>1, <2>3, <1>3
    <2> QED
      BY <1>4, <2>2, <2>3
  <1>7. Stored(g, n)
    BY <1>3, <1>5, <1>6 DEF Stored, Increasing
  <1> QED
    BY <1>1, <1>3, <1>7

\* The page shows no less of a file that only gained the line r, of a number
\* that it has not come to.
LEMMA ShownStill ==
    ASSUME NEW p, NEW f, NEW g, NEW n \in Nat, NEW m \in Nat, m <= n, ShownSo(p, f, m),
           \A i \in 1 .. Len(g) :
              \/ i \in 1 .. Len(f) /\ g[i] = f[i]
              \/ ~g[i].whole \/ ~(g[i].e.seq <= p.cursor)
    PROVE  ShownSo(p, g, n)
  <1>1. p.cursor \in 0 .. n
    BY DEF ShownSo
  <1>2. ASSUME NEW i \in 1 .. Len(g), g[i].whole, g[i].e.seq <= p.cursor
        PROVE  \E j \in 1 .. Len(p.shown) : p.shown[j] = g[i].e
    <2>1. i \in 1 .. Len(f) /\ g[i] = f[i]
      BY <1>2
    <2> QED
      BY <1>2, <2>1 DEF ShownSo
  <1> QED
    BY <1>1, <1>2 DEF ShownSo

\* The line of the event that is being written, or its first part.
LEMMA LineStep ==
    ASSUME FeedCore(memory, writer, file, feed), writer # Feed!Nobody, ~Feed!Started,
           NEW b \in BOOLEAN, NEW r, r = [e |-> writer.e, whole |-> b]
    PROVE  /\ Stored(Append(file, r), Len(memory)) /\ ShownSo(feed, Append(file, r), Len(memory))
           /\ ~b => Writing(writer, Append(file, r), feed, Len(memory))
  <1>1. /\ writer.e \in Events /\ writer.e.seq = Len(memory) /\ feed.cursor < Len(memory)
        /\ \A i \in 1 .. Len(file) : file[i].e.seq = Len(memory) => i = Len(file) /\ file[i] = Feed!Half(writer.e)
    BY DEF FeedCore, Writing
  <1>2. PICK n : n = Len(memory)
    OBVIOUS
  <1>3. n \in Nat /\ n \in 1 .. n
    <2>1. memory \in Seq(Events) /\ feed.cursor \in 0 .. n
      BY <1>2 DEF FeedCore, Numbered, ShownSo
    <2> QED
      BY <1>1, <1>2, <2>1
  <1>4. r \in Lines /\ r.e = writer.e /\ r.whole = b
    BY <1>1 DEF Lines
  <1>5. Stored(file, n) /\ file \in Seq(Lines) /\ Len(file) \in Nat
    BY <1>2 DEF FeedCore, Stored
  <1>6. \A i \in 1 .. Len(file) : file[i].e.seq # n
    <2>1. Len(file) # 0 => file # <<>>
      OBVIOUS
    <2>2. ~(file # <<>> /\ file[Len(file)] = Feed!Half(writer.e))
      BY DEF Feed!Started, Feed!Last
    <2> QED
      BY <2>1, <2>2, <1>1, <1>2, <1>5
  <1>7. \A i \in 1 .. Len(file) : file[i].e.seq < n
    BY <1>3, <1>5, <1>6 DEF Stored
  <1>8. \A i \in 1 .. Len(file) : file[i].e.seq < r.e.seq
    BY <1>1, <1>2, <1>4, <1>7
  <1>9. r.e.seq \in 1 .. n /\ n <= n
    BY <1>1, <1>2, <1>3, <1>4
  <1>10. PICK g : g = Append(file, r)
    OBVIOUS
  <1>11. /\ Stored(g, n) /\ Len(g) = Len(file) + 1 /\ g[Len(file) + 1] = r
         /\ \A i \in 1 .. Len(file) : g[i] = file[i]
    BY <1>3, <1>4, <1>5, <1>8, <1>9, <1>10, LineFollows
  <1>12. \A i \in 1 .. Len(g) : (i \in 1 .. Len(file) /\ g[i] = file[i]) \/ (i = Len(g) /\ g[i] = r)
    BY <1>5, <1>11
  <1>13. ShownSo(feed, g, n)
    <2>1. feed.cursor \in 0 .. n
      BY <1>2 DEF FeedCore, ShownSo
    <2>2. ~(r.e.seq <= feed.cursor)
      BY <2>1, <1>1, <1>2, <1>3, <1>4
    <2>3. \A i \in 1 .. Len(g) : \/ i \in 1 .. Len(file) /\ g[i] = file[i]
                                 \/ ~g[i].whole \/ ~(g[i].e.seq <= feed.cursor)
      BY <2>2, <1>12
    <2>4. ShownSo(feed, file, n)
      BY <1>2 DEF FeedCore
    <2> QED
      BY <2>3, <2>4, <1>3, <1>9, ShownStill
  <1>14. ~b => Writing(writer, g, feed, n)
    <2> SUFFICES ASSUME ~b
                 PROVE  Writing(writer, g, feed, n)
      OBVIOUS
    <2>1. r = Feed!Half(writer.e)
      BY DEF Feed!Half
    <2>2. \A i \in 1 .. Len(g) : g[i].e.seq = n => i = Len(g) /\ g[i] = Feed!Half(writer.e)
      BY <2>1, <1>6, <1>12
    <2> QED
      BY <2>2, <1>1, <1>2 DEF Writing
  <1> QED
    BY <1>2, <1>10, <1>11, <1>13, <1>14

\* The second part of a line that was begun.
LEMMA RestStep ==
    ASSUME FeedCore(memory, writer, file, feed), writer # Feed!Nobody, Feed!Started,
           NEW g, g = [file EXCEPT ![Len(file)] = Feed!Whole(writer.e)]
    PROVE  Stored(g, Len(memory)) /\ ShownSo(feed, g, Len(memory))
  <1>1. writer.e \in Events /\ writer.e.seq = Len(memory) /\ feed.cursor < Len(memory)
    BY DEF FeedCore, Writing
  <1>2. /\ file \in Seq(Lines) /\ Increasing(file)
        /\ \A i \in 1 .. Len(file) : file[i].e.seq \in 1 .. Len(memory)
    BY DEF FeedCore, Stored
  <1>3. file # <<>> /\ file[Len(file)] = Feed!Half(writer.e)
    BY DEF Feed!Started, Feed!Last
  <1>4. PICK l : l = Len(file)
    OBVIOUS
  <1>5. l \in Nat /\ l \in 1 .. l /\ file[l].e = writer.e
    BY <1>2, <1>3, <1>4 DEF Feed!Half
  <1>6. PICK r : r = Feed!Whole(writer.e)
    OBVIOUS
  <1>7. r \in Lines /\ r.e = writer.e
    BY <1>1, <1>6 DEF Lines, Feed!Whole
  <1>8. /\ g \in Seq(Lines) /\ Len(g) = l /\ g[l] = r
        /\ \A i \in 1 .. l : i # l => g[i] = file[i]
    BY <1>2, <1>4, <1>5, <1>6, <1>7
  <1>9. \A i \in 1 .. l : g[i].e = file[i].e
    BY <1>5, <1>7, <1>8
  <1>10. Stored(g, Len(memory))
    BY <1>2, <1>4, <1>8, <1>9 DEF Stored, Increasing
  <1>11. feed.cursor \in 0 .. Len(memory) /\ Len(memory) \in Nat
    BY DEF FeedCore, ShownSo, Numbered
  <1>12. \A i \in 1 .. Len(g) : \/ i \in 1 .. Len(file) /\ g[i] = file[i]
                                \/ ~g[i].whole \/ ~(g[i].e.seq <= feed.cursor)
    BY <1>1, <1>4, <1>5, <1>7, <1>8, <1>11
  <1>13. ShownSo(feed, file, Len(memory)) /\ Len(memory) <= Len(memory)
    BY <1>11 DEF FeedCore
  <1> QED
    BY <1>10, <1>11, <1>12, <1>13, ShownStill

LEMMA WriterSteps ==
    ASSUME FeedInv,
           Feed!WriteLine \/ Feed!WriteFirstPart \/ Feed!WriteFails \/ Feed!Crash
    PROVE  FeedInv'
  <1>1. FeedCore(memory, writer, file, feed)
    BY DEF FeedInv
  <1>2. UNCHANGED <<memory, seen, feed, transcript>>
    BY DEF Feed!WriteLine, Feed!WriteFirstPart, Feed!WriteFails, Feed!Crash
  <1>3. Numbered(memory) /\ Stored(file, Len(memory)) /\ ShownSo(feed, file, Len(memory))
    BY <1>1 DEF FeedCore
  <1>4. Stored(file', Len(memory)) /\ ShownSo(feed, file', Len(memory))
    <2>1. CASE Feed!WriteLine
      <3>1. writer # Feed!Nobody
        BY <2>1 DEF Feed!WriteLine, Feed!Free
      <3>2. CASE Feed!Started
        BY <2>1, <3>1, <3>2, <1>1, RestStep DEF Feed!WriteLine
      <3>3. CASE ~Feed!Started
        <4>1. file' = Append(file, [e |-> writer.e, whole |-> TRUE])
          BY <2>1, <3>3 DEF Feed!WriteLine, Feed!Whole
        <4> QED
          BY <3>1, <3>3, <4>1, <1>1, LineStep
      <3> QED
        BY <3>2, <3>3
    <2>2. CASE Feed!WriteFirstPart
      <3>1. writer # Feed!Nobody /\ ~Feed!Started /\ file' = Append(file, [e |-> writer.e, whole |-> FALSE])
        BY <2>2 DEF Feed!WriteFirstPart, Feed!Free, Feed!Half
      <3> QED
        BY <3>1, <1>1, LineStep
    <2>3. CASE Feed!WriteFails
      <3>1. writer # Feed!Nobody
        BY <2>3 DEF Feed!WriteFails, Feed!Free
      <3>2. file' = file \/ (~Feed!Started /\ file' = Append(file, [e |-> writer.e, whole |-> FALSE]))
        BY <2>3 DEF Feed!WriteFails, Feed!Half
      <3> QED
        BY <3>1, <3>2, <1>1, <1>3, LineStep
    <2>4. CASE Feed!Crash
      BY <2>4, <1>3 DEF Feed!Crash
    <2> QED
      BY <2>1, <2>2, <2>3, <2>4
  <1>5. Writing(writer', file', feed, Len(memory))
    <2>1. CASE writer' = Feed!Nobody
      BY <2>1 DEF Writing
    <2>2. CASE Feed!WriteFirstPart
      <3>1. writer # Feed!Nobody /\ ~Feed!Started /\ file' = Append(file, [e |-> writer.e, whole |-> FALSE])
            /\ writer' = writer
        BY <2>2 DEF Feed!WriteFirstPart, Feed!Free, Feed!Half
      <3> QED
        BY <3>1, <1>1, LineStep
    <2> QED
      BY <2>1, <2>2 DEF Feed!WriteLine, Feed!WriteFails, Feed!Crash
  <1>6. FeedCore(memory', writer', file', feed')
    BY <1>2, <1>3, <1>4, <1>5 DEF FeedCore
  <1> QED
    BY <1>2, <1>6 DEF FeedInv

-----------------------------------------------------------------------------
(* EventFeed: the events.                                                    *)

\* An event that was never told, or of nothing, takes the next number.
LEMMA EmitStep ==
    ASSUME FeedInv, NEW who, NEW type \in Kinds, NEW of \in {read, card, "none"},
           NEW text \in {"short", "long", "separator"}, Feed!Emit(who, type, of, text),
           seen' = [calls |-> seen'.calls, results |-> seen'.results],
           seen.calls \subseteq seen'.calls, seen.results \subseteq seen'.results,
           CASE type \in {"TOOL_CALL", "PROGRESS_UPDATE"} -> of \in seen'.calls \ seen.calls
             [] type = "TOOL_RESULT" -> of \in seen'.results \ seen.results
             [] OTHER -> of = "none",
           UNCHANGED <<feed, transcript>>
    PROVE  FeedInv'
  <1>1. PICK n : n = Len(memory) + 1
    OBVIOUS
  <1>2. memory \in Seq(Events) /\ Len(memory) \in Nat /\ \A i \in 1 .. Len(memory) : memory[i].seq = i
    BY DEF FeedInv, FeedCore, Numbered
  <1>3. PICK e : e = [seq |-> n, type |-> type, of |-> of, text |-> text]
    OBVIOUS
  <1>4. e \in Events /\ e.seq = n /\ e.type = type /\ e.of = of /\ n \in Nat
    BY <1>1, <1>2, <1>3 DEF Events
  <1>5. memory' = Append(memory, e) /\ writer' = [who |-> who, e |-> e] /\ UNCHANGED file
    BY <1>1, <1>3 DEF Feed!Emit, Feed!Event
  <1>6. /\ memory' \in Seq(Events) /\ Len(memory') = n /\ memory'[n] = e
        /\ \A i \in 1 .. Len(memory) : memory'[i] = memory[i]
    BY <1>1, <1>2, <1>4, <1>5
  <1>7. \A i \in 1 .. n : i = n \/ i \in 1 .. Len(memory)
    BY <1>1, <1>2
  <1>8. Numbered(memory')
    BY <1>2, <1>4, <1>6, <1>7 DEF Numbered
  <1>9. Stored(file, Len(memory)) /\ ShownSo(feed, file, Len(memory))
    BY DEF FeedInv, FeedCore
  <1>10. \A i \in 1 .. Len(file) : file[i].e.seq \in 1 .. Len(memory)
    BY <1>9 DEF Stored
  <1>11. Stored(file', Len(memory'))
    BY <1>1, <1>2, <1>5, <1>6, <1>9, <1>10 DEF Stored
  <1>12. feed.cursor \in 0 .. Len(memory)
    BY <1>9 DEF ShownSo
  <1>13. ShownSo(feed', file', Len(memory'))
    <2>1. feed' = feed /\ file' = file /\ Len(memory') = n
      BY <1>5, <1>6
    <2>2. feed.cursor \in 0 .. n
      BY <1>1, <1>2, <1>12
    <2> QED
      BY <2>1, <2>2, <1>9 DEF ShownSo
  <1>14. Writing(writer', file', feed', Len(memory'))
    <2>1. writer'.e = e /\ feed'.cursor < n
      BY <1>1, <1>2, <1>5, <1>12
    <2>2. \A i \in 1 .. Len(file') : file'[i].e.seq # n
      BY <1>1, <1>2, <1>5, <1>10
    <2> QED
      BY <2>1, <2>2, <1>4, <1>6 DEF Writing
  <1>15. Told(memory, seen)
    BY DEF FeedInv
  <1>16. \A i \in 1 .. n : Remembered(memory'[i], seen')
    <2> TAKE i \in 1 .. n
    <2>1. CASE i = n
      BY <2>1, <1>4, <1>6 DEF Remembered
    <2>2. CASE i \in 1 .. Len(memory)
      <3>1. Remembered(memory[i], seen) /\ memory'[i] = memory[i]
        BY <2>2, <1>6, <1>15 DEF Told
      <3> QED
        BY <3>1 DEF Remembered
    <2> QED
      BY <2>1, <2>2, <1>7
  <1>17. ASSUME NEW i \in 1 .. Len(memory), memory[i].type = type, memory[i].of = of, of # "none"
         PROVE  FALSE
    <2>1. Remembered(memory[i], seen)
      BY <1>15 DEF Told
    <2> QED
      BY <2>1, <1>17 DEF Remembered
  <1>18. ASSUME NEW i \in 1 .. n, NEW j \in 1 .. n, memory'[i].type = memory'[j].type,
                memory'[i].of = memory'[j].of, memory'[i].of # "none"
         PROVE  i = j
    <2>1. CASE i \in 1 .. Len(memory) /\ j \in 1 .. Len(memory)
      BY <2>1, <1>6, <1>15, <1>18 DEF Told
    <2>2. CASE i \in 1 .. Len(memory) /\ j = n
      BY <2>2, <1>4, <1>6, <1>17, <1>18
    <2>3. CASE j \in 1 .. Len(memory) /\ i = n
      BY <2>3, <1>4, <1>6, <1>17, <1>18
    <2> QED
      BY <2>1, <2>2, <2>3, <1>7
  <1>19. Told(memory', seen')
    BY <1>6, <1>16, <1>18 DEF Told
  <1> QED
    BY <1>8, <1>11, <1>13, <1>14, <1>19 DEF FeedInv, FeedCore

LEMMA SeenGrows ==
    ASSUME FeedInv, NEW c
    PROVE  /\ Feed!Remember(seen, "calls", c) = [calls |-> seen.calls \cup {c}, results |-> seen.results]
           /\ Feed!Remember(seen, "results", c) = [calls |-> seen.calls, results |-> seen.results \cup {c}]
  <1>1. PICK a, b : seen = [calls |-> a, results |-> b]
    BY DEF FeedInv
  <1>2. [seen EXCEPT !["calls"] = a \cup {c}] = [calls |-> a \cup {c}, results |-> b]
    BY <1>1
  <1>3. [seen EXCEPT !["results"] = b \cup {c}] = [calls |-> a, results |-> b \cup {c}]
    BY <1>1
  <1>4. seen.calls = a /\ seen.results = b
    BY <1>1
  <1> QED
    BY <1>2, <1>3, <1>4 DEF Feed!Remember

\* What is remembered and not told.
LEMMA MoreSeen ==
    ASSUME FeedInv, seen' = [calls |-> seen'.calls, results |-> seen'.results],
           seen.calls \subseteq seen'.calls, seen.results \subseteq seen'.results,
           UNCHANGED <<memory, writer, file, feed, transcript>>
    PROVE  FeedInv'
  <1>1. Told(memory, seen)
    BY DEF FeedInv
  <1>2. Told(memory, seen')
    <2>1. \A i \in 1 .. Len(memory) : Remembered(memory[i], seen')
      <3> TAKE i \in 1 .. Len(memory)
      <3>1. Remembered(memory[i], seen)
        BY <1>1 DEF Told
      <3> QED
        BY <3>1 DEF Remembered
    <2> QED
      BY <2>1, <1>1 DEF Told
  <1> QED
    BY <1>2 DEF FeedInv

LEMMA ToldSteps ==
    ASSUME FeedInv, Feed!Request \/ Feed!UserControl
    PROVE  FeedInv'
  <1>1. \E who : \E type \in {"MODEL_REQUEST", "USER_STEER"} : Feed!Emit(who, type, "none", "short")
    BY DEF Feed!Request, Feed!UserControl
  <1>2. PICK who : \E type \in {"MODEL_REQUEST", "USER_STEER"} : Feed!Emit(who, type, "none", "short")
    BY <1>1
  <1>3. PICK type \in {"MODEL_REQUEST", "USER_STEER"} : Feed!Emit(who, type, "none", "short")
    BY <1>2
  <1>4. UNCHANGED <<seen, feed, transcript>>
    BY DEF Feed!Request, Feed!UserControl
  <1>5. PICK of, text : of = "none" /\ text = "short"
    OBVIOUS
  <1>6. Feed!Emit(who, type, of, text)
    BY <1>3, <1>5
  <1>7. type \in Kinds /\ type \notin {"TOOL_CALL", "PROGRESS_UPDATE"} /\ type # "TOOL_RESULT"
    BY DEF Kinds
  <1>8. of \in {read, card, "none"} /\ text \in {"short", "long", "separator"}
    BY <1>5
  <1>9. seen' = [calls |-> seen'.calls, results |-> seen'.results]
    BY <1>4 DEF FeedInv
  <1>10. /\ seen.calls \subseteq seen'.calls /\ seen.results \subseteq seen'.results
         /\ UNCHANGED <<feed, transcript>>
    BY <1>4
  <1>11. (CASE type \in {"TOOL_CALL", "PROGRESS_UPDATE"} -> of \in seen'.calls \ seen.calls
           [] type = "TOOL_RESULT" -> of \in seen'.results \ seen.results
           [] OTHER -> of = "none")
    BY <1>5, <1>7
  <1> QED
    BY <1>6, <1>7, <1>8, <1>9, <1>10, <1>11, EmitStep

\* A call or a result is told, and remembered as told.
LEMMA TellsStep ==
    ASSUME FeedInv, NEW c \in {read, card}, NEW type, NEW text \in {"short", "long", "separator"},
           Feed!Emit("handler", type, c, text), UNCHANGED <<feed, transcript>>,
           \/ /\ type \in {"TOOL_CALL", "PROGRESS_UPDATE"} /\ c \notin seen.calls
              /\ seen' = Feed!Remember(seen, "calls", c)
           \/ /\ type = "TOOL_RESULT" /\ c \notin seen.results
              /\ seen' = Feed!Remember(seen, "results", c)
    PROVE  FeedInv'
  <1>1. \/ seen' = [calls |-> seen.calls \cup {c}, results |-> seen.results]
        \/ seen' = [calls |-> seen.calls, results |-> seen.results \cup {c}]
    BY SeenGrows
  <1>2. /\ seen' = [calls |-> seen'.calls, results |-> seen'.results]
        /\ seen.calls \subseteq seen'.calls /\ seen.results \subseteq seen'.results
    BY <1>1
  <1>3. type \in {"TOOL_CALL", "PROGRESS_UPDATE"} => c \in seen'.calls \ seen.calls
    BY SeenGrows
  <1>4. type = "TOOL_RESULT" => c \in seen'.results \ seen.results
    BY SeenGrows
  <1>5. type \in {"TOOL_CALL", "PROGRESS_UPDATE"} \/ type = "TOOL_RESULT"
    OBVIOUS
  <1>6. (CASE type \in {"TOOL_CALL", "PROGRESS_UPDATE"} -> c \in seen'.calls \ seen.calls
          [] type = "TOOL_RESULT" -> c \in seen'.results \ seen.results
          [] OTHER -> c = "none")
    BY <1>3, <1>4, <1>5
  <1>7. type \in Kinds /\ c \in {read, card, "none"}
    BY <1>5 DEF Kinds
  <1>8. PICK who : Feed!Emit(who, type, c, text)
    OBVIOUS
  <1> QED
    BY <1>2, <1>6, <1>7, <1>8, EmitStep

LEMMA ObserveSteps ==
    ASSUME FeedInv, Feed!ObserveCall \/ Feed!ObserveResult
    PROVE  FeedInv'
  <1>1. \A c \in {read, card} : MCText[c] \in {"short", "long", "separator"}
    BY DEF MCText
  <1>2. UNCHANGED <<feed, transcript>>
    BY DEF Feed!ObserveCall, Feed!ObserveResult
  <1>3. transcript.calls \subseteq {read, card} /\ transcript.results \subseteq {read, card}
    BY DEF FeedInv, ScriptOk
  <1>4. CASE Feed!ObserveCall
    <2>1. PICK c \in Feed!NewCalls :
             /\ seen' = Feed!Remember(seen, "calls", c)
             /\ Feed!Emit("handler", IF c \in {card} THEN "PROGRESS_UPDATE" ELSE "TOOL_CALL",
                          c, IF c \in {card} THEN MCText[c] ELSE "short")
      BY <1>4 DEF Feed!ObserveCall
    <2>2. c \in {read, card} /\ c \notin seen.calls
      BY <1>3 DEF Feed!NewCalls
    <2>3. PICK type : type = IF c \in {card} THEN "PROGRESS_UPDATE" ELSE "TOOL_CALL"
      OBVIOUS
    <2>4. PICK text : text = IF c \in {card} THEN MCText[c] ELSE "short"
      OBVIOUS
    <2>5. Feed!Emit("handler", type, c, text)
      BY <2>1, <2>3, <2>4
    <2>6. type \in {"TOOL_CALL", "PROGRESS_UPDATE"}
      BY <2>3
    <2>7. text \in {"short", "long", "separator"}
      BY <2>2, <2>4, <1>1
    <2>8. seen' = Feed!Remember(seen, "calls", c)
      BY <2>1
    <2> QED
      BY <2>2, <2>5, <2>6, <2>7, <2>8, <1>2, TellsStep
  <1>5. CASE Feed!ObserveResult
    <2>1. PICK c \in Feed!NewResults :
             /\ seen' = Feed!Remember(seen, "results", c)
             /\ IF c \in {card} \cap transcript.calls
                THEN UNCHANGED <<memory, writer, file>>
                ELSE Feed!Emit("handler", "TOOL_RESULT", c, MCText[c])
      BY <1>5 DEF Feed!ObserveResult
    <2>2. c \in {read, card} /\ c \notin seen.results
      BY <1>3 DEF Feed!NewResults
    <2>3. seen' = Feed!Remember(seen, "results", c)
      BY <2>1
    <2>4. CASE c \in {card} \cap transcript.calls
      <3>1. UNCHANGED <<memory, writer, file, feed, transcript>>
        BY <2>1, <2>4, <1>2
      <3>2. seen' = [calls |-> seen.calls, results |-> seen.results \cup {c}]
        BY <2>3, SeenGrows
      <3> QED
        BY <3>1, <3>2, MoreSeen
    <2>5. CASE c \notin {card} \cap transcript.calls
      <3>1. PICK type : type = "TOOL_RESULT"
        OBVIOUS
      <3>2. PICK text : text = MCText[c]
        OBVIOUS
      <3>3. Feed!Emit("handler", type, c, text)
        BY <2>1, <2>5, <3>1, <3>2
      <3>4. text \in {"short", "long", "separator"}
        BY <2>2, <3>2, <1>1
      <3> QED
        BY <2>2, <2>3, <3>1, <3>3, <3>4, <1>2, TellsStep
    <2> QED
      BY <2>4, <2>5
  <1> QED
    BY <1>4, <1>5

\* The agent and its messages, which no event depends on.
LEMMA ScriptSteps ==
    ASSUME FeedInv, Feed!AgentCalls \/ Feed!ToolReturns \/ Feed!Compact \/ Feed!Observed
    PROVE  FeedInv'
  <1>1. UNCHANGED <<memory, writer, file, feed, seen>>
    BY DEF Feed!AgentCalls, Feed!ToolReturns, Feed!Compact, Feed!Observed
  <1>2. PICK a, c, r : /\ transcript = Script(a, c, r) /\ transcript.made = a
                       /\ transcript.calls = c /\ transcript.results = r
                       /\ c \subseteq {read, card} /\ r \subseteq {read, card}
    BY DEF FeedInv, ScriptOk
  <1>3. ASSUME NEW x, NEW y \in SUBSET {read, card}, NEW z \in SUBSET {read, card},
               transcript' = Script(x, y, z)
        PROVE  ScriptOk(transcript')
    BY <1>3 DEF ScriptOk, Script
  <1>4. CASE Feed!AgentCalls
    <2>1. PICK d \in {read, card} : transcript' = [transcript EXCEPT !.made = @ \cup {d}, !.calls = @ \cup {d}]
      BY <1>4 DEF Feed!AgentCalls
    <2>2. PICK f : f = [transcript EXCEPT !.made = a \cup {d}]
      OBVIOUS
    <2>3. f = Script(a \cup {d}, c, r)
      BY <2>2, <1>2 DEF Script
    <2>4. transcript' = [f EXCEPT !.calls = c \cup {d}]
      BY <2>1, <2>2, <1>2
    <2>5. transcript' = Script(a \cup {d}, c \cup {d}, r)
      BY <2>3, <2>4 DEF Script
    <2>6. c \cup {d} \in SUBSET {read, card} /\ r \in SUBSET {read, card}
      BY <1>2
    <2> QED
      BY <2>5, <2>6, <1>1, <1>3 DEF FeedInv
  <1>5. CASE Feed!ToolReturns
    <2>1. PICK d \in c : transcript' = [transcript EXCEPT !.results = r \cup {d}]
      BY <1>5, <1>2 DEF Feed!ToolReturns
    <2>2. transcript' = Script(a, c, r \cup {d})
      BY <2>1, <1>2 DEF Script
    <2>3. c \in SUBSET {read, card} /\ r \cup {d} \in SUBSET {read, card}
      BY <1>2
    <2> QED
      BY <2>2, <2>3, <1>1, <1>3 DEF FeedInv
  <1>6. CASE Feed!Compact
    <2>1. PICK d \in c \cap r : \E both \in BOOLEAN :
            transcript' = [transcript EXCEPT !.calls = @ \ {d}, !.results = IF both THEN @ \ {d} ELSE @]
      BY <1>6, <1>2 DEF Feed!Compact
    <2>2. PICK both \in BOOLEAN :
            transcript' = [transcript EXCEPT !.calls = @ \ {d}, !.results = IF both THEN @ \ {d} ELSE @]
      BY <2>1
    <2>3. PICK s : s = IF both THEN r \ {d} ELSE r
      OBVIOUS
    <2>4. PICK f : f = [transcript EXCEPT !.calls = c \ {d}]
      OBVIOUS
    <2>5. f = Script(a, c \ {d}, r)
      BY <2>4, <1>2 DEF Script
    <2>6. transcript' = [f EXCEPT !.results = s]
      <3>1. f.results = r
        BY <2>5 DEF Script
      <3> QED
        BY <3>1, <2>2, <2>3, <2>4, <1>2
    <2>7. transcript' = Script(a, c \ {d}, s)
      BY <2>5, <2>6 DEF Script
    <2>8. c \ {d} \in SUBSET {read, card} /\ s \in SUBSET {read, card}
      BY <2>3, <1>2
    <2> QED
      BY <2>7, <2>8, <1>1, <1>3 DEF FeedInv
  <1>7. CASE Feed!Observed
    <2>1. transcript' = transcript
      BY <1>7 DEF Feed!Observed
    <2> QED
      BY <2>1, <1>1 DEF FeedInv
  <1> QED
    BY <1>4, <1>5, <1>6, <1>7

-----------------------------------------------------------------------------
(* EventFeed: the poll, which picks the new lines of the file one by one.     *)

\* k is what the first n lines of f give a page with the cursor c.
PickedSo(f, c, n, k) ==
    /\ k \in Seq(Lines)
    /\ \A i, j \in 1 .. Len(k) : i < j => k[i].e.seq < k[j].e.seq
    /\ \A i \in 1 .. Len(k) : k[i].e.seq > c /\ \E j \in 1 .. n : k[i] = f[j]
    /\ \A j \in 1 .. n : f[j].e.seq > c => \E i \in 1 .. Len(k) : k[i] = f[j]

LEMMA PickedIs ==
    ASSUME NEW f \in Seq(Lines), NEW c \in Nat
    PROVE  /\ Feed!Picked(f, c)[0] = <<>>
           /\ \A n \in 1 .. Len(f) :
                Feed!Picked(f, c)[n] = IF f[n].e.seq > c THEN Append(Feed!Picked(f, c)[n - 1], f[n])
                                       ELSE Feed!Picked(f, c)[n - 1]
  <1> DEFINE V == Seq(Lines)
             More(n, s) == IF f[n].e.seq > c THEN Append(s, f[n]) ELSE s
             G == [x \in (1 .. Len(f)) \X V |-> More(x[1], x[2])]
             Step(g) == [n \in 0 .. Len(f) |-> IF n = 0 THEN <<>> ELSE More(n, g[n - 1])]
  <1>1. G \in [(1 .. Len(f)) \X V -> V]
    <2>1. ASSUME NEW x \in (1 .. Len(f)) \X V
          PROVE  More(x[1], x[2]) \in V
      <3>1. x[2] \in Seq(Lines) /\ f[x[1]] \in Lines
        BY <2>1
      <3> QED
        BY <3>1
    <2> QED
      BY <2>1
  <1>2. <<>> \in V /\ Len(f) \in Nat
    OBVIOUS
  <1>3. \A n \in 1 .. Len(f) : \A v \in V : G[<<n, v>>] = More(n, v)
    OBVIOUS
  <1> HIDE DEF V, G, More
  <1>4. PICK h \in [0 .. Len(f) -> V] : h[0] = <<>> /\ \A k \in 1 .. Len(f) : h[k] = G[<<k, h[k - 1]>>]
    <2>1. \E h : Iterates(h, V, <<>>, Len(f), G)
      BY <1>1, <1>2, Iterated
    <2> QED
      BY <2>1 DEF Iterates
  <1>5. h = Step(h)
    <2>1. \A n \in 1 .. Len(f) : h[n] = More(n, h[n - 1])
      <3> TAKE n \in 1 .. Len(f)
      <3>1. n - 1 \in 0 .. Len(f)
        OBVIOUS
      <3> QED
        BY <3>1, <1>3, <1>4
    <2>2. \A n \in 0 .. Len(f) : n # 0 => n \in 1 .. Len(f)
      OBVIOUS
    <2> QED
      BY <2>1, <2>2, <1>4
  <1>6. Feed!Picked(f, c) = Step(Feed!Picked(f, c))
    BY <1>5, Zenon DEF Feed!Picked, More
  <1>7. PICK m : m = Feed!Picked(f, c)
    OBVIOUS
  <1>8. m = Step(m)
    BY <1>6, <1>7
  <1>9. m[0] = <<>> /\ \A n \in 1 .. Len(f) : m[n] = More(n, m[n - 1])
    BY <1>2, <1>8
  <1> QED
    BY <1>7, <1>9 DEF More

LEMMA NewerIs ==
    ASSUME NEW f, NEW n \in Nat, Stored(f, n), NEW c \in Nat
    PROVE  PickedSo(f, c, Len(f), Feed!Newer(f, c))
  <1>1. /\ f \in Seq(Lines) /\ Len(f) \in Nat
        /\ \A i, j \in 1 .. Len(f) : i < j => f[i].e.seq < f[j].e.seq
        /\ \A i \in 1 .. Len(f) : f[i].e.seq \in Nat /\ f[i] \in Lines
    BY DEF Stored, Increasing
  <1>2. PICK m : m = Feed!Picked(f, c)
    OBVIOUS
  <1>3. /\ m[0] = <<>>
        /\ \A k \in 1 .. Len(f) : m[k] = IF f[k].e.seq > c THEN Append(m[k - 1], f[k]) ELSE m[k - 1]
    BY <1>1, <1>2, PickedIs
  <1> DEFINE S == {k \in 0 .. Len(f) : PickedSo(f, c, k, m[k])}
  <1>4. 0 \in S
    <2>1. PickedSo(f, c, 0, m[0])
      BY <1>3 DEF PickedSo
    <2> QED
      BY <2>1, <1>1
  <1>5. ASSUME NEW k \in 0 .. Len(f), k \in S, k < Len(f)
        PROVE  k + 1 \in S
    <2>1. PICK a, b, l : a = m[k] /\ l = k + 1 /\ b = m[l]
      OBVIOUS
    <2>2. l \in 1 .. Len(f) /\ l - 1 = k /\ k \in Nat
      BY <1>1, <1>5, <2>1
    <2>3. PickedSo(f, c, k, a)
      BY <1>5, <2>1
    <2>4. b = IF f[l].e.seq > c THEN Append(a, f[l]) ELSE a
      BY <1>3, <2>1, <2>2
    <2>5. a \in Seq(Lines) /\ Len(a) \in Nat
      BY <2>3 DEF PickedSo
    <2>6. \A j \in 1 .. l : j = l \/ j \in 1 .. k
      BY <2>1, <2>2
    <2>7. \A j \in 1 .. k : j \in 1 .. l /\ j \in 1 .. Len(f) /\ j < l
      BY <1>1, <2>1, <2>2
    <2>8. PickedSo(f, c, l, b)
      <3>1. CASE ~(f[l].e.seq > c)
        <4>1. b = a
          BY <2>4, <3>1
        <4>2. \A i \in 1 .. Len(a) : a[i].e.seq > c /\ \E j \in 1 .. l : a[i] = f[j]
          BY <2>3, <2>7 DEF PickedSo
        <4>3. \A j \in 1 .. l : f[j].e.seq > c => \E i \in 1 .. Len(a) : a[i] = f[j]
          BY <2>3, <2>6, <3>1 DEF PickedSo
        <4> QED
          BY <2>3, <4>1, <4>2, <4>3 DEF PickedSo
      <3>2. CASE f[l].e.seq > c
        <4>1. PICK r \in Lines : r = f[l]
          BY <1>1, <2>2
        <4>2. b = Append(a, r)
          BY <2>4, <3>2, <4>1
        <4>3. /\ b \in Seq(Lines) /\ Len(b) = Len(a) + 1 /\ b[Len(a) + 1] = r
              /\ \A i \in 1 .. Len(a) : b[i] = a[i]
          BY <2>5, <4>1, <4>2
        <4>4. \A i \in 1 .. Len(b) : i = Len(a) + 1 \/ i \in 1 .. Len(a)
          BY <2>5, <4>3
        <4>5. \A i \in 1 .. Len(a) : a[i].e.seq < r.e.seq
          <5> TAKE i \in 1 .. Len(a)
          <5>1. PICK j \in 1 .. k : a[i] = f[j]
            BY <2>3 DEF PickedSo
          <5> QED
            BY <5>1, <1>1, <2>2, <2>7, <4>1
        <4>6. \A i, j \in 1 .. Len(b) : i < j => b[i].e.seq < b[j].e.seq
          <5> TAKE i, j \in 1 .. Len(b)
          <5>1. i < j => i \in 1 .. Len(a)
            BY <2>5, <4>3
          <5>2. CASE j \in 1 .. Len(a)
            BY <5>1, <5>2, <2>3, <4>3 DEF PickedSo
          <5>3. CASE j = Len(a) + 1
            BY <5>1, <5>3, <4>3, <4>5
          <5> QED
            BY <5>2, <5>3, <4>4
        <4>7. \A i \in 1 .. Len(b) : b[i].e.seq > c /\ \E j \in 1 .. l : b[i] = f[j]
          <5> TAKE i \in 1 .. Len(b)
          <5>1. CASE i \in 1 .. Len(a)
            <6>1. b[i] = a[i] /\ a[i].e.seq > c /\ \E j \in 1 .. k : a[i] = f[j]
              BY <5>1, <2>3, <4>3 DEF PickedSo
            <6> QED
              BY <6>1, <2>7
          <5>2. CASE i = Len(a) + 1
            <6>1. b[i] = f[l] /\ l \in 1 .. l
              BY <5>2, <4>1, <4>3, <2>2
            <6> QED
              BY <6>1, <3>2
          <5> QED
            BY <5>1, <5>2, <4>4
        <4>8. ASSUME NEW j \in 1 .. l, f[j].e.seq > c
              PROVE  \E i \in 1 .. Len(b) : b[i] = f[j]
          <5>1. CASE j = l
            <6>1. Len(a) + 1 \in 1 .. Len(b) /\ b[Len(a) + 1] = f[j]
              BY <5>1, <2>5, <4>1, <4>3
            <6> QED
              BY <6>1
          <5>2. CASE j \in 1 .. k
            <6>1. PICK i \in 1 .. Len(a) : a[i] = f[j]
              BY <5>2, <4>8, <2>3 DEF PickedSo
            <6>2. i \in 1 .. Len(b) /\ b[i] = f[j]
              BY <6>1, <2>5, <4>3
            <6> QED
              BY <6>2
          <5> QED
            BY <5>1, <5>2, <2>6
        <4> QED
          BY <4>3, <4>6, <4>7, <4>8 DEF PickedSo
      <3> QED
        BY <3>1, <3>2
    <2> QED
      BY <2>1, <2>2, <2>8
  <1> HIDE DEF S
  <1>6. \A k \in 0 .. Len(f) : k \in S
    BY <1>1, <1>4, <1>5, Induct
  <1>7. Len(f) \in S
    BY <1>1, <1>6
  <1>8. PickedSo(f, c, Len(f), m[Len(f)])
    BY <1>7 DEF S
  <1> QED
    BY <1>2, <1>8 DEF Feed!Newer

\* The largest of a cursor and the numbers of lines.
LEMMA CursorIs ==
    ASSUME NEW f, NEW c \in Nat, NEW n \in Nat, c <= n, NEW k, PickedSo(f, c, Len(f), k),
           \A i \in 1 .. Len(f) : f[i].e.seq \in 1 .. n
    PROVE  /\ Feed!NextAfter(k, c) \in c .. n
           /\ \A i \in 1 .. Len(k) : k[i].e.seq <= Feed!NextAfter(k, c)
           /\ Feed!NextAfter(k, c) = c \/ \E i \in 1 .. Len(k) : Feed!NextAfter(k, c) = k[i].e.seq
  <1>1. PICK M : M = {c} \cup Feed!Seqs(k)
    OBVIOUS
  <1>2. k \in Seq(Lines) /\ Len(k) \in Nat
    BY DEF PickedSo
  <1>3. \A x : x \in M <=> (x = c \/ \E i \in 1 .. Len(k) : x = k[i].e.seq)
    BY <1>1, <1>2 DEF Feed!Seqs
  <1>4. \A i \in 1 .. Len(k) : k[i].e.seq \in c .. n
    <2> TAKE i \in 1 .. Len(k)
    <2>1. k[i].e.seq > c /\ \E j \in 1 .. Len(f) : k[i] = f[j]
      BY DEF PickedSo
    <2>2. k[i].e.seq \in 1 .. n
      BY <2>1
    <2> QED
      BY <2>1, <2>2
  <1>5. \E x \in M : \A y \in M : x >= y
    <2>1. CASE Len(k) = 0
      <3>1. \A y \in M : y = c
        BY <2>1, <1>3
      <3> QED
        BY <3>1, <1>3
    <2>2. CASE Len(k) # 0
      <3>1. PICK l : l = Len(k)
        OBVIOUS
      <3>2. l \in 1 .. Len(k) /\ \A i \in 1 .. Len(k) : i = l \/ i < l
        BY <3>1, <2>2, <1>2
      <3>3. PICK x : x = k[l].e.seq
        OBVIOUS
      <3>4. x \in M /\ x \in c .. n
        BY <3>2, <3>3, <1>3, <1>4
      <3>5. \A i \in 1 .. Len(k) : x >= k[i].e.seq
        <4> TAKE i \in 1 .. Len(k)
        <4>1. i < l => k[i].e.seq < k[l].e.seq
          BY <3>2 DEF PickedSo
        <4> QED
          BY <4>1, <3>2, <3>3, <3>4, <1>4
      <3>6. \A y \in M : x >= y
        BY <3>4, <3>5, <1>3
      <3> QED
        BY <3>4, <3>6
    <2> QED
      BY <2>1, <2>2
  <1>6. PICK z : z = Feed!Max(M)
    OBVIOUS
  <1>7. z \in M /\ \A y \in M : z >= y
    BY <1>5, <1>6, Zenon DEF Feed!Max
  <1>8. z = Feed!NextAfter(k, c)
    BY <1>1, <1>6 DEF Feed!NextAfter
  <1>9. z = c \/ \E i \in 1 .. Len(k) : z = k[i].e.seq
    BY <1>3, <1>7
  <1>10. z \in c .. n
    BY <1>4, <1>9
  <1>11. \A i \in 1 .. Len(k) : k[i].e.seq <= z
    <2> TAKE i \in 1 .. Len(k)
    <2>1. z >= k[i].e.seq /\ k[i].e.seq \in c .. n
      BY <1>3, <1>4, <1>7
    <2> QED
      BY <2>1, <1>10
  <1> QED
    BY <1>8, <1>9, <1>10, <1>11

LEMMA PollStep ==
    ASSUME FeedInv, Feed!Poll
    PROVE  FeedInv'
  <1>1. UNCHANGED <<transcript, seen, memory, writer, file>>
    BY DEF Feed!Poll
  <1>2. PICK n : n = Len(memory)
    OBVIOUS
  <1>3. /\ Numbered(memory) /\ Stored(file, n) /\ Writing(writer, file, feed, n)
        /\ ShownSo(feed, file, n) /\ n \in Nat
    BY <1>2 DEF FeedInv, FeedCore, Numbered
  <1>4. PICK c : c = feed.cursor
    OBVIOUS
  <1>5. PICK s : s = feed.shown
    OBVIOUS
  <1>6. /\ c \in Nat /\ c <= n /\ s \in Seq(Events)
        /\ \A i, j \in 1 .. Len(s) : i < j => s[i].seq < s[j].seq
        /\ \A i \in 1 .. Len(s) : s[i].seq <= c
        /\ \A i \in 1 .. Len(file) : file[i].whole /\ file[i].e.seq <= c =>
             \E j \in 1 .. Len(s) : s[j] = file[i].e
    BY <1>3, <1>4, <1>5 DEF ShownSo
  <1>7. PICK k : k = Feed!Newer(file, c)
    OBVIOUS
  <1>8. PickedSo(file, c, Len(file), k)
    BY <1>3, <1>6, <1>7, NewerIs
  <1>9. PICK z : z = Feed!NextAfter(k, c)
    OBVIOUS
  <1>10. \A i \in 1 .. Len(file) : file[i].e.seq \in 1 .. n
    BY <1>3 DEF Stored
  <1>11. Feed!NextAfter(k, c) \in c .. n
    BY <1>3, <1>6, <1>8, <1>10, CursorIs
  <1>12. \A i \in 1 .. Len(k) : k[i].e.seq <= Feed!NextAfter(k, c)
    BY <1>3, <1>6, <1>8, <1>10, CursorIs
  <1>13. Feed!NextAfter(k, c) = c \/ \E i \in 1 .. Len(k) : Feed!NextAfter(k, c) = k[i].e.seq
    BY <1>3, <1>6, <1>8, <1>10, CursorIs
  <1>14. /\ z \in c .. n /\ \A i \in 1 .. Len(k) : k[i].e.seq <= z
         /\ z = c \/ \E i \in 1 .. Len(k) : z = k[i].e.seq
    BY <1>9, <1>11, <1>12, <1>13
  <1>15. /\ k \in Seq(Lines) /\ Len(k) \in Nat
         /\ \A i, j \in 1 .. Len(k) : i < j => k[i].e.seq < k[j].e.seq
         /\ \A i \in 1 .. Len(k) : k[i].e.seq > c
         /\ \A i \in 1 .. Len(k) : \E j \in 1 .. Len(file) : k[i] = file[j]
         /\ \A j \in 1 .. Len(file) : file[j].e.seq > c => \E i \in 1 .. Len(k) : k[i] = file[j]
    BY <1>8 DEF PickedSo
  <1>16. PICK t : t = [i \in 1 .. Len(k) |-> k[i].e]
    OBVIOUS
  <1>17. t \in Seq(Events) /\ Len(t) = Len(k) /\ \A i \in 1 .. Len(k) : t[i] = k[i].e
    <2>1. k \in Seq(Lines) /\ Len(k) \in Nat
      BY <1>15
    <2>2. \A i \in 1 .. Len(k) : k[i] \in Lines
      BY <2>1
    <2>3. \A i \in 1 .. Len(k) : k[i].e \in Events
      BY <2>2 DEF Lines
    <2> QED
      BY <2>3, <1>15, <1>16
  <1>18. DOMAIN k = 1 .. Len(k)
    BY <1>15
  <1>19. feed' = [cursor |-> z, shown |-> s \o t] /\ Feed!Readable
    BY <1>4, <1>5, <1>7, <1>9, <1>16, <1>18 DEF Feed!Poll
  <1>20. PICK v : v = s \o t
    OBVIOUS
  <1>21. feed'.cursor = z /\ feed'.shown = v
    BY <1>19, <1>20
  <1>22. /\ v \in Seq(Events) /\ Len(v) = Len(s) + Len(k) /\ Len(s) \in Nat
         /\ \A i \in 1 .. Len(s) : v[i] = s[i]
         /\ \A i \in 1 .. Len(k) : v[Len(s) + i] = k[i].e
    <2>4. s \in Seq(Events) /\ t \in Seq(Events)
      BY <1>6, <1>17
    <2>1. v \in Seq(Events) /\ Len(v) = Len(s) + Len(t) /\ Len(s) \in Nat
      BY <2>4, <1>20
    <2>2. \A i \in 1 .. Len(s) : v[i] = s[i]
      BY <1>6, <1>17, <1>20
    <2>3. \A i \in 1 .. Len(k) : v[Len(s) + i] = t[i]
      BY <1>6, <1>15, <1>17, <1>20
    <2> QED
      BY <2>1, <2>2, <2>3, <1>17
  <1>23. \A i \in 1 .. Len(v) : i \in 1 .. Len(s) \/ \E j \in 1 .. Len(k) : i = Len(s) + j
    <2> TAKE i \in 1 .. Len(v)
    <2>1. CASE i <= Len(s)
      BY <2>1, <1>22
    <2>2. CASE i > Len(s)
      <3>1. i - Len(s) \in 1 .. Len(k) /\ i = Len(s) + (i - Len(s))
        BY <2>2, <1>15, <1>22
      <3> QED
        BY <3>1
    <2> QED
      BY <2>1, <2>2, <1>22
  <1>24. \A i \in 1 .. Len(k) : k[i].e.seq \in Nat
    <2>1. k \in Seq(Lines) /\ Len(k) \in Nat
      BY <1>15
    <2>2. \A i \in 1 .. Len(k) : k[i] \in Lines
      BY <2>1
    <2> QED
      BY <2>2 DEF Lines, Events
  <1>25. \A i \in 1 .. Len(s) : s[i].seq \in Nat
    <2>1. s \in Seq(Events)
      BY <1>6
    <2>2. \A i \in 1 .. Len(s) : s[i] \in Events
      BY <2>1
    <2> QED
      BY <2>2 DEF Events
  <1>26. \A i, j \in 1 .. Len(v) : i < j => v[i].seq < v[j].seq
    <2> SUFFICES ASSUME NEW i \in 1 .. Len(v), NEW j \in 1 .. Len(v), i < j
                 PROVE  v[i].seq < v[j].seq
      OBVIOUS
    <2>1. CASE j \in 1 .. Len(s)
      <3>1. i \in 1 .. Len(s)
        BY <2>1, <1>22
      <3> QED
        BY <2>1, <3>1, <1>6, <1>22
    <2>2. ASSUME NEW b \in 1 .. Len(k), j = Len(s) + b
          PROVE  v[i].seq < v[j].seq
      <3>1. v[j].seq = k[b].e.seq /\ k[b].e.seq > c
        BY <2>2, <1>15, <1>22
      <3>2. CASE i \in 1 .. Len(s)
        BY <3>1, <3>2, <1>6, <1>22, <1>24, <1>25
      <3>3. ASSUME NEW a \in 1 .. Len(k), i = Len(s) + a
            PROVE  v[i].seq < v[j].seq
        <4>1. a < b /\ v[i].seq = k[a].e.seq
          BY <2>2, <3>3, <1>15, <1>22
        <4> QED
          BY <3>1, <4>1, <1>15
      <3> QED
        BY <3>2, <3>3, <1>23
    <2> QED
      BY <2>1, <2>2, <1>23
  <1>27. \A i \in 1 .. Len(v) : v[i].seq <= z
    <2> TAKE i \in 1 .. Len(v)
    <2>1. CASE i \in 1 .. Len(s)
      BY <2>1, <1>6, <1>14, <1>22, <1>25
    <2>2. ASSUME NEW a \in 1 .. Len(k), i = Len(s) + a
          PROVE  v[i].seq <= z
      BY <2>2, <1>14, <1>22
    <2> QED
      BY <2>1, <2>2, <1>23
  <1>28. ASSUME NEW i \in 1 .. Len(file), file[i].whole
         PROVE  \E j \in 1 .. Len(v) : v[j] = file[i].e
    <2>1. CASE file[i].e.seq <= c
      <3>1. PICK j \in 1 .. Len(s) : s[j] = file[i].e
        BY <2>1, <1>6, <1>28
      <3>2. j \in 1 .. Len(v) /\ v[j] = file[i].e
        BY <3>1, <1>15, <1>22
      <3> QED
        BY <3>2
    <2>2. CASE file[i].e.seq > c
      <3>1. PICK j \in 1 .. Len(k) : k[j] = file[i]
        BY <2>2, <1>15
      <3>2. Len(s) + j \in 1 .. Len(v) /\ v[Len(s) + j] = file[i].e
        BY <3>1, <1>15, <1>22
      <3> QED
        BY <3>2
    <2> QED
      BY <2>1, <2>2, <1>6, <1>10
  <1>29. ShownSo(feed', file, n)
    <2>1. z \in 0 .. n
      BY <1>6, <1>14
    <2> QED
      BY <2>1, <1>21, <1>22, <1>26, <1>27, <1>28 DEF ShownSo
  <1>30. Writing(writer, file, feed', n)
    <2> SUFFICES ASSUME writer # Feed!Nobody
                 PROVE  Writing(writer, file, feed', n)
      BY DEF Writing
    <2>1. /\ writer.e \in Events /\ writer.e.seq = n /\ c < n
          /\ \A i \in 1 .. Len(file) : file[i].e.seq = n => i = Len(file) /\ file[i] = Feed!Half(writer.e)
      BY <1>3, <1>4 DEF Writing
    <2>2. \A i \in 1 .. Len(file) : file[i].whole
      <3>1. DOMAIN file = 1 .. Len(file)
        BY <1>3 DEF Stored
      <3> QED
        BY <3>1, <1>19 DEF Feed!Readable
    <2>3. \A i \in 1 .. Len(file) : file[i].e.seq # n
      <3> SUFFICES ASSUME NEW i \in 1 .. Len(file), file[i].e.seq = n
                   PROVE  FALSE
        OBVIOUS
      <3>1. file[i] = Feed!Half(writer.e)
        BY <2>1
      <3>2. ~file[i].whole
        BY <3>1 DEF Feed!Half
      <3> QED
        BY <3>2, <2>2
    <2>4. \A i \in 1 .. Len(k) : k[i].e.seq # n
      BY <2>3, <1>15
    <2>5. z < n
      BY <2>1, <2>4, <1>3, <1>6, <1>14
    <2> QED
      BY <2>1, <2>5, <1>21 DEF Writing
  <1>31. FeedCore(memory', writer', file', feed')
    BY <1>1, <1>2, <1>3, <1>29, <1>30 DEF FeedCore
  <1> QED
    BY <1>1, <1>31 DEF FeedInv

LEMMA FeedStep ==
    ASSUME FeedInv, [Feed!Next]_feedVars
    PROVE  FeedInv'
  <1>1. CASE UNCHANGED feedVars
    BY <1>1 DEF feedVars, FeedInv
  <1>2. CASE Feed!Next
    BY <1>2, WriterSteps, ToldSteps, ObserveSteps, ScriptSteps, PollStep DEF Feed!Next
  <1> QED
    BY <1>1, <1>2

LEMMA FeedIsSound ==
    ASSUME FeedInv
    PROVE  Feed!NothingSkipped /\ Feed!ToldOnce
  <1>1. ShownSo(feed, file, Len(memory)) /\ Told(memory, seen)
    BY DEF FeedInv, FeedCore
  <1>2. /\ DOMAIN feed.shown = 1 .. Len(feed.shown) /\ DOMAIN file = 1 .. Len(file)
        /\ DOMAIN memory = 1 .. Len(memory)
    BY DEF FeedInv, FeedCore, ShownSo, Stored, Numbered
  <1>3. Feed!NothingSkipped
    BY <1>1, <1>2 DEF Feed!NothingSkipped, Feed!Contains, ShownSo
  <1>4. Feed!ToldOnce
    BY <1>1, <1>2 DEF Feed!ToldOnce, Told
  <1> QED
    BY <1>3, <1>4

-----------------------------------------------------------------------------
(* TaskPage: the page of one task.                                           *)

ServerOf(st, a, l, r, e, p) ==
    [state |-> st, at |-> a, log |-> l, result |-> r, rating |-> e, package |-> p]
PageOf(st, a, e, c, r, g, p, m) ==
    [state |-> st, at |-> a, events |-> e, cursor |-> c, result |-> r, rating |-> g,
     package |-> p, modes |-> m]
ReadOf(st, c, a) == [step |-> st, cursor |-> c, answer |-> a]
FormOf(o, r, m) == [open |-> o, rating |-> r, meant |-> m]

ServerOk(v) == /\ v = ServerOf(v.state, v.at, v.log, v.result, v.rating, v.package)
               /\ v.at \in Nat /\ v.log \in Nat

\* A page p shows the first events of a log of n events.
PageOk(p, n) ==
    /\ p = PageOf(p.state, p.at, p.events, p.cursor, p.result, p.rating, p.package, p.modes)
    /\ p.cursor \in 0 .. n /\ p.events = Shows!Upto(p.cursor)

\* A read r of a server v for a page p: the cursor that was sent is the page's,
\* and, while no control was pressed, no answer is older than what is shown.
ReadOk(r, p, v, controls) ==
    /\ r = ReadOf(r.step, r.cursor, r.answer)
    /\ r.step = "events" =>
         r.cursor = p.cursor /\ (r.answer # Shows!None => r.answer.last \in p.cursor .. v.log)
    /\ controls = 0 /\ r.step = "task" /\ r.answer # Shows!None => r.answer.at \in p.at .. v.at

FormOk(f) == f = FormOf(f.open, f.rating, f.meant) /\ (f.open => f.rating = f.meant)
SpentOk(x) == x = [calls |-> x.calls, controls |-> x.controls, failures |-> x.failures]
              /\ x.controls \in Nat
Called(c) == c = [b \in Shows!Buttons |-> c[b]]

\* No control was pressed: none is under way, and time has not gone back.
Forward(p, v, c, w) == c["control"] = Shows!Unused /\ p.at \in 0 .. v.at /\ ~w

PageInv ==
    /\ ServerOk(server) /\ PageOk(page, server.log) /\ FormOk(form) /\ SpentOk(spent)
    /\ Called(calls)
    /\ refreshes = [s \in Shows!Slots |-> refreshes[s]]
    /\ \A s \in Shows!Slots : ReadOk(refreshes[s], page, server, spent.controls)
    /\ \A s, u \in Shows!Slots :
         refreshes[s].step # "idle" /\ refreshes[u].step # "idle" => s = u
    /\ ~refreshing => \A s \in Shows!Slots : refreshes[s].step = "idle"
    /\ spent.controls = 0 => Forward(page, server, calls, rewound)

LEMMA PageStart ==
    ASSUME Shows!Init
    PROVE  PageInv
  <1>1. ServerOk(server)
    BY DEF Shows!Init, ServerOk, ServerOf
  <1>2. PageOk(page, server.log)
    <2>1. page = PageOf("LOADING", 0, <<>>, 0, FALSE, "none", "unknown", "unset") /\ server.log = 0
      BY DEF Shows!Init, PageOf
    <2>2. Shows!Upto(0) = <<>>
      BY DEF Shows!Upto
    <2> QED
      BY <2>1, <2>2 DEF PageOk, PageOf
  <1>3. FormOk(form) /\ SpentOk(spent) /\ Called(calls)
    BY DEF Shows!Init, FormOk, FormOf, SpentOk, Called
  <1>4. \A s \in Shows!Slots : refreshes[s].step = "idle" /\ ReadOk(refreshes[s], page, server, spent.controls)
    BY DEF Shows!Init, Shows!Idle, ReadOk, ReadOf
  <1>5. refreshes = [s \in Shows!Slots |-> refreshes[s]]
    BY DEF Shows!Init
  <1>6. Forward(page, server, calls, rewound)
    BY DEF Shows!Init, Forward, Shows!Buttons
  <1> QED
    BY <1>1, <1>2, <1>3, <1>4, <1>5, <1>6 DEF PageInv

\* The server goes on, by itself or for a button.
LEMMA ServerStep ==
    ASSUME PageInv, ServerOk(server'), server'.at >= server.at, server'.log >= server.log,
           UNCHANGED <<page, refreshing, refreshes, form, spent, rewound>>,
           Called(calls'), spent.controls = 0 => calls'["control"] = calls["control"]
    PROVE  PageInv'
  <1>1. /\ server.at \in Nat /\ server.log \in Nat /\ server'.at \in Nat /\ server'.log \in Nat
    BY DEF PageInv, ServerOk
  <1>2. PageOk(page, server'.log)
    BY <1>1 DEF PageInv, PageOk
  <1>3. \A s \in Shows!Slots : ReadOk(refreshes[s], page, server', spent.controls)
    <2> TAKE s \in Shows!Slots
    <2>1. ReadOk(refreshes[s], page, server, spent.controls)
      BY DEF PageInv
    <2>2. page.cursor \in Nat
      BY DEF PageInv, PageOk
    <2>3. spent.controls = 0 => page.at \in Nat
      BY DEF PageInv, Forward
    <2> QED
      BY <1>1, <2>1, <2>2, <2>3 DEF ReadOk
  <1>4. spent.controls = 0 => Forward(page, server', calls', rewound)
    BY <1>1 DEF PageInv, Forward
  <1> QED
    BY <1>2, <1>3, <1>4 DEF PageInv

\* The one refresh that is under way takes a step; a button may be set free.
LEMMA ReaderStep ==
    ASSUME PageInv, NEW s \in Shows!Slots, \A u \in Shows!Slots : u # s => refreshes[u].step = "idle",
           NEW r, refreshes' = [refreshes EXCEPT ![s] = r],
           ReadOk(r, page', server, spent.controls), ~refreshing' => r.step = "idle",
           PageOk(page', server.log), FormOk(form'), Called(calls'),
           spent.controls = 0 => Forward(page', server, calls', rewound'),
           UNCHANGED <<server, spent>>
    PROVE  PageInv'
  <1>1. \A u \in Shows!Slots : refreshes'[u] = IF u = s THEN r ELSE refreshes[u]
    BY DEF PageInv
  <1>2. refreshes' = [u \in Shows!Slots |-> refreshes'[u]]
    BY DEF PageInv
  <1>3. \A u \in Shows!Slots : ReadOk(refreshes'[u], page', server, spent.controls)
    <2> TAKE u \in Shows!Slots
    <2>1. CASE u = s
      BY <2>1, <1>1
    <2>2. CASE u # s
      <3>1. refreshes'[u] = refreshes[u] /\ refreshes[u].step = "idle"
        BY <2>2, <1>1
      <3>2. ReadOk(refreshes[u], page, server, spent.controls)
        BY DEF PageInv
      <3> QED
        BY <3>1, <3>2 DEF ReadOk
    <2> QED
      BY <2>1, <2>2
  <1>4. \A u, w \in Shows!Slots : refreshes'[u].step # "idle" /\ refreshes'[w].step # "idle" => u = w
    BY <1>1
  <1>5. ~refreshing' => \A u \in Shows!Slots : refreshes'[u].step = "idle"
    BY <1>1
  <1> QED
    BY <1>2, <1>3, <1>4, <1>5 DEF PageInv

\* What only touches the rest keeps the reads sound.
LEMMA SameReads ==
    ASSUME PageInv, PageOk(page', server.log), page'.cursor = page.cursor,
           spent'.controls = 0 => page'.at = page.at /\ spent.controls = 0,
           FormOk(form'), SpentOk(spent'), Called(calls'),
           spent'.controls = 0 => Forward(page', server, calls', rewound'),
           UNCHANGED <<server, refreshing, refreshes>>
    PROVE  PageInv'
  <1>1. \A s \in Shows!Slots : ReadOk(refreshes[s], page', server, spent'.controls)
    <2> TAKE s \in Shows!Slots
    <2>1. ReadOk(refreshes[s], page, server, spent.controls)
      BY DEF PageInv
    <2> QED
      BY <2>1 DEF ReadOk
  <1> QED
    BY <1>1 DEF PageInv

LEMMA PageIs ==
    ASSUME NEW st, NEW a, NEW e, NEW c, NEW r, NEW g, NEW p, NEW m, NEW q,
           q = PageOf(st, a, e, c, r, g, p, m)
    PROVE  /\ q.state = st /\ q.at = a /\ q.events = e /\ q.cursor = c
           /\ q.result = r /\ q.rating = g /\ q.package = p /\ q.modes = m
  BY DEF PageOf

\* A page with another result, rating, package or modes shows the same events.
Alike(v, q) == \E r, g, p, m : v = PageOf(q.state, q.at, q.events, q.cursor, r, g, p, m)

LEMMA AlikeWith ==
    ASSUME NEW n, NEW q, PageOk(q, n), NEW x
    PROVE  /\ Alike([q EXCEPT !.result = x], q) /\ Alike([q EXCEPT !.rating = x], q)
           /\ Alike([q EXCEPT !.package = x], q) /\ Alike([q EXCEPT !.modes = x], q)
  <1>1. PICK st, a, e, c, r, g, p, m : q = PageOf(st, a, e, c, r, g, p, m)
    BY DEF PageOk
  <1>2. q.cursor = c /\ q.at = a /\ q.state = st /\ q.events = e
    BY <1>1, PageIs
  <1>3. [q EXCEPT !.result = x] = PageOf(st, a, e, c, x, g, p, m)
    BY <1>1 DEF PageOf
  <1>4. [q EXCEPT !.rating = x] = PageOf(st, a, e, c, r, x, p, m)
    BY <1>1 DEF PageOf
  <1>5. [q EXCEPT !.package = x] = PageOf(st, a, e, c, r, g, x, m)
    BY <1>1 DEF PageOf
  <1>6. [q EXCEPT !.modes = x] = PageOf(st, a, e, c, r, g, p, x)
    BY <1>1 DEF PageOf
  <1>7. Alike([q EXCEPT !.result = x], q)
    BY <1>2, <1>3 DEF Alike
  <1>8. Alike([q EXCEPT !.rating = x], q)
    BY <1>2, <1>4 DEF Alike
  <1>9. Alike([q EXCEPT !.package = x], q)
    BY <1>2, <1>5 DEF Alike
  <1>10. Alike([q EXCEPT !.modes = x], q)
    BY <1>2, <1>6 DEF Alike
  <1> QED
    BY <1>7, <1>8, <1>9, <1>10

LEMMA AlikeIsOk ==
    ASSUME NEW n, NEW q, PageOk(q, n), NEW v, Alike(v, q)
    PROVE  PageOk(v, n) /\ v.cursor = q.cursor /\ v.at = q.at /\ v.state = q.state
  <1>1. PICK st, a, e, c : st = q.state /\ a = q.at /\ e = q.events /\ c = q.cursor
    OBVIOUS
  <1>2. PICK r, g, p, m : v = PageOf(st, a, e, c, r, g, p, m)
    BY <1>1 DEF Alike
  <1>3. /\ v.state = st /\ v.at = a /\ v.events = e /\ v.cursor = c
        /\ v.result = r /\ v.rating = g /\ v.package = p /\ v.modes = m
    BY <1>2, PageIs
  <1> QED
    BY <1>1, <1>2, <1>3 DEF PageOk

\* The page v is q with another state and time.
Moved(v, q, x, y) == v = [q EXCEPT !.state = x, !.at = y]

LEMMA PageMoved ==
    ASSUME NEW n, NEW q, PageOk(q, n), NEW x, NEW y
    PROVE  \E v : /\ Moved(v, q, x, y)
                  /\ PageOk(v, n) /\ v.cursor = q.cursor /\ v.at = y
  <1>1. PICK st, a, e, c, r, g, p, m : q = PageOf(st, a, e, c, r, g, p, m)
    BY DEF PageOk
  <1>2. PICK f : f = [q EXCEPT !.state = x]
    OBVIOUS
  <1>3. f = PageOf(x, a, e, c, r, g, p, m)
    BY <1>1, <1>2 DEF PageOf
  <1>4. PICK v : v = [f EXCEPT !.at = y]
    OBVIOUS
  <1>5. v = PageOf(x, y, e, c, r, g, p, m)
    BY <1>3, <1>4 DEF PageOf
  <1>6. q.cursor = c /\ q.events = e
    BY <1>1, PageIs
  <1>7. /\ v.state = x /\ v.at = y /\ v.events = e /\ v.cursor = c
        /\ v.result = r /\ v.rating = g /\ v.package = p /\ v.modes = m
    BY <1>5, PageIs
  <1>8. PageOk(v, n) /\ v.cursor = q.cursor /\ v.at = y
    BY <1>5, <1>6, <1>7 DEF PageOk
  <1>9. Moved(v, q, x, y)
    BY <1>2, <1>4 DEF Moved
  <1> QED
    BY <1>8, <1>9, Zenon

LEMMA UptoJoin ==
    ASSUME NEW c \in Nat, NEW last \in Nat, c <= last
    PROVE  Shows!Upto(c) \o [i \in 1 .. last - c |-> c + i] = Shows!Upto(last)
  <1>1. PICK k : k = last - c
    OBVIOUS
  <1>2. k \in Nat
    BY <1>1
  <1>3. PICK a : a = Shows!Upto(c)
    OBVIOUS
  <1>4. PICK b : b = [i \in 1 .. k |-> c + i]
    OBVIOUS
  <1>5. a \in Seq(Nat) /\ Len(a) = c /\ \A i \in 1 .. c : a[i] = i
    BY <1>3 DEF Shows!Upto
  <1>6. b \in Seq(Nat) /\ Len(b) = k /\ \A i \in 1 .. k : b[i] = c + i
    BY <1>2, <1>4
  <1>7. PICK d : d = a \o b
    OBVIOUS
  <1>8. d \in Seq(Nat) /\ Len(d) = last
    BY <1>1, <1>2, <1>5, <1>6, <1>7
  <1>9. \A i \in 1 .. last : d[i] = i
    <2> TAKE i \in 1 .. last
    <2>1. CASE i <= c
      BY <2>1, <1>5, <1>6, <1>7
    <2>2. CASE i > c
      <3>1. PICK j : j = i - c
        OBVIOUS
      <3>2. j \in 1 .. k /\ i = c + j
        BY <3>1, <2>2, <1>1
      <3>3. d[i] = b[j]
        BY <3>1, <3>2, <2>2, <1>5, <1>6, <1>7, <1>8
      <3> QED
        BY <3>2, <3>3, <1>6
    <2> QED
      BY <2>1, <2>2
  <1>10. d = [i \in 1 .. last |-> d[i]]
    BY <1>8
  <1>11. d = [i \in 1 .. last |-> i]
    BY <1>9, <1>10
  <1> QED
    BY <1>1, <1>3, <1>4, <1>7, <1>11 DEF Shows!Upto

\* At most one refresh is under way, and none unless the guard is set.
LEMMA OneReader ==
    ASSUME PageInv, NEW s \in Shows!Slots, s \in Shows!Reading
    PROVE  /\ \A u \in Shows!Slots : u # s => refreshes[u].step = "idle"
           /\ refreshing
  BY DEF PageInv, Shows!Reading

LEMMA BeginsStep ==
    ASSUME PageInv, Shows!Begin, PageOk(page', server.log), Called(calls'),
           spent.controls = 0 => Forward(page', server, calls', rewound'),
           UNCHANGED <<server, spent, form>>
    PROVE  PageInv'
  <1>1. PICK r : r = ReadOf("task", page.cursor, Shows!None)
    OBVIOUS
  <1>2. r.step = "task" /\ r.answer = Shows!None /\ r = ReadOf(r.step, r.cursor, r.answer)
    BY <1>1 DEF ReadOf
  <1>3. \A s \in Shows!Slots : refreshes[s].step = "idle"
    BY DEF PageInv, Shows!Begin
  <1>4. Shows!Free \in Shows!Slots
    BY <1>3 DEF Shows!Free, Shows!Slots
  <1>5. PICK s \in Shows!Slots : s = Shows!Free
    BY <1>4
  <1>6. refreshes' = [refreshes EXCEPT ![s] = r]
    BY <1>1, <1>5 DEF Shows!Begin, Shows!At, ReadOf
  <1>7. refreshing' = TRUE
    BY DEF Shows!Begin
  <1>8. ReadOk(r, page', server, spent.controls)
    BY <1>2 DEF ReadOk
  <1>9. FormOk(form')
    BY DEF PageInv
  <1>10. \A u \in Shows!Slots : u # s => refreshes[u].step = "idle"
    BY <1>3
  <1> QED
    BY <1>6, <1>7, <1>8, <1>9, <1>10, ReaderStep

-----------------------------------------------------------------------------
(* TaskPage: one lemma per action.                                           *)

LEMMA ReadIs ==
    ASSUME NEW st, NEW c, NEW a, NEW r, r = ReadOf(st, c, a)
    PROVE  r.step = st /\ r.cursor = c /\ r.answer = a
  BY DEF ReadOf

LEMMA ServerIs ==
    ASSUME NEW st, NEW a, NEW l, NEW r, NEW e, NEW p, NEW v, v = ServerOf(st, a, l, r, e, p)
    PROVE  v.state = st /\ v.at = a /\ v.log = l /\ v.result = r /\ v.rating = e /\ v.package = p
  BY DEF ServerOf

LEMMA FormIs ==
    ASSUME NEW o, NEW r, NEW m, NEW f, f = FormOf(o, r, m)
    PROVE  f.open = o /\ f.rating = r /\ f.meant = m
  BY DEF FormOf

LEMMA IdleIsOk ==
    ASSUME NEW p, NEW v, NEW n
    PROVE  ReadOk(Shows!Idle, p, v, n) /\ Shows!Idle.step = "idle"
  BY DEF Shows!Idle, ReadOk, ReadOf

\* A read that has not been answered.
Asked(st) == ReadOf(st, page.cursor, Shows!None)

LEMMA AskedIsOk ==
    ASSUME NEW st, NEW p, p.cursor = page.cursor, NEW v, NEW n
    PROVE  ReadOk(Asked(st), p, v, n)
  <1>1. PICK r : r = Asked(st)
    OBVIOUS
  <1>2. r.step = st /\ r.cursor = page.cursor /\ r.answer = Shows!None
    BY <1>1, ReadIs DEF Asked
  <1>3. r = ReadOf(r.step, r.cursor, r.answer)
    BY <1>1, <1>2 DEF Asked
  <1> QED
    BY <1>1, <1>2, <1>3 DEF ReadOk

LEMMA GoesOnAsks ==
    ASSUME NEW s, NEW st, Shows!GoesOn(s, st)
    PROVE  refreshes' = [refreshes EXCEPT ![s] = Asked(st)] /\ UNCHANGED <<refreshing, calls>>
  BY DEF Shows!GoesOn, Shows!At, Asked, ReadOf

\* At the end of a refresh the control that waits for it is set free.
LEMMA EndFrees ==
    ASSUME PageInv, NEW s, Shows!End(s)
    PROVE  /\ refreshes' = [refreshes EXCEPT ![s] = Shows!Idle] /\ refreshing' = FALSE
           /\ Called(calls')
           /\ calls["control"] = Shows!Unused => calls'["control"] = Shows!Unused
  <1>1. calls = [b \in Shows!Buttons |-> calls[b]] /\ "control" \in Shows!Buttons
    BY DEF PageInv, Called, Shows!Buttons
  <1>2. PICK x : x = IF calls["control"].phase = "refreshing" THEN Shows!Unused ELSE calls["control"]
    OBVIOUS
  <1>3. calls' = [calls EXCEPT !["control"] = x]
    BY <1>2 DEF Shows!End
  <1>4. calls'["control"] = x
    BY <1>1, <1>3
  <1>5. Called(calls')
    BY <1>1, <1>3 DEF Called
  <1>6. calls["control"] = Shows!Unused => calls'["control"] = Shows!Unused
    BY <1>2, <1>4
  <1>7. refreshes' = [refreshes EXCEPT ![s] = Shows!Idle] /\ refreshing' = FALSE
    BY DEF Shows!End
  <1> QED
    BY <1>5, <1>6, <1>7

LEMMA TaskStep ==
    ASSUME PageInv, Shows!Task
    PROVE  PageInv'
  <1>1. PICK st, a, l, r, e, p : server = ServerOf(st, a, l, r, e, p)
    BY DEF PageInv, ServerOk
  <1>2. server.at = a /\ server.log = l /\ a \in Nat /\ l \in Nat
    BY <1>1, ServerIs DEF PageInv, ServerOk
  <1>3. Called(calls)
    BY DEF PageInv
  <1>4. CASE Shows!Emit
    <2>1. server' = ServerOf(st, a, l + 1, r, e, p) /\ Shows!Serves
      BY <1>4, <1>1, <1>2 DEF Shows!Emit, ServerOf
    <2>2. ServerOk(server') /\ server'.at >= server.at /\ server'.log >= server.log
      BY <2>1, <1>2, ServerIs DEF ServerOk
    <2>3. UNCHANGED <<page, refreshing, refreshes, form, spent, rewound, calls>>
      BY <2>1 DEF Shows!Serves
    <2> QED
      BY <2>2, <2>3, <1>3, ServerStep
  <1>5. CASE Shows!Boundary
    <2>1. PICK v : v = [server EXCEPT !.state = "PAUSED"]
      OBVIOUS
    <2>2. v = ServerOf("PAUSED", a, l, r, e, p)
      BY <2>1, <1>1 DEF ServerOf
    <2>3. server' = [v EXCEPT !.at = a + 1] /\ Shows!Serves
      BY <1>5, <1>2, <2>1 DEF Shows!Boundary
    <2>4. server' = ServerOf("PAUSED", a + 1, l, r, e, p)
      BY <2>2, <2>3 DEF ServerOf
    <2>5. ServerOk(server') /\ server'.at >= server.at /\ server'.log >= server.log
      BY <2>4, <1>2, ServerIs DEF ServerOk
    <2>6. UNCHANGED <<page, refreshing, refreshes, form, spent, rewound, calls>>
      BY <2>3 DEF Shows!Serves
    <2> QED
      BY <2>5, <2>6, <1>3, ServerStep
  <1>6. CASE Shows!Finish
    <2>1. PICK v : v = [server EXCEPT !.state = "COMPLETED"]
      OBVIOUS
    <2>2. v = ServerOf("COMPLETED", a, l, r, e, p)
      BY <2>1, <1>1 DEF ServerOf
    <2>3. PICK w : w = [v EXCEPT !.at = a + 1]
      OBVIOUS
    <2>4. w = ServerOf("COMPLETED", a + 1, l, r, e, p)
      BY <2>2, <2>3 DEF ServerOf
    <2>5. server' = [w EXCEPT !.result = TRUE] /\ Shows!Serves
      BY <1>6, <1>2, <2>1, <2>3 DEF Shows!Finish
    <2>6. \E t : server' = ServerOf("COMPLETED", a + 1, l, t, e, p)
      BY <2>4, <2>5 DEF ServerOf
    <2>7. ServerOk(server') /\ server'.at >= server.at /\ server'.log >= server.log
      BY <2>6, <1>2, ServerIs DEF ServerOk
    <2>8. UNCHANGED <<page, refreshing, refreshes, form, spent, rewound, calls>>
      BY <2>5 DEF Shows!Serves
    <2> QED
      BY <2>7, <2>8, <1>3, ServerStep
  <1> QED
    BY <1>4, <1>5, <1>6 DEF Shows!Task

LEMMA ServeCallStep ==
    ASSUME PageInv, NEW b \in Shows!Buttons, Shows!ServeCall(b)
    PROVE  PageInv'
  <1>1. PICK st, a, l, r, e, p : server = ServerOf(st, a, l, r, e, p)
    BY DEF PageInv, ServerOk
  <1>2. server.at = a /\ server.log = l /\ a \in Nat /\ l \in Nat
    BY <1>1, ServerIs DEF PageInv, ServerOk
  <1>3. Called(calls)
    BY DEF PageInv
  <1>4. ServerOk(server') /\ server'.at >= a /\ server'.log >= l
    <2>1. CASE b = "control"
      <3>1. PICK kind : kind = calls["control"].kind
        OBVIOUS
      <3>2. server' = Shows!Controlled(kind)
        BY <2>1, <3>1 DEF Shows!ServeCall
      <3>3. CASE kind = "stop" /\ server.state = "RUNNING"
        <4>1. PICK v : v = [server EXCEPT !.state = "PAUSING"]
          OBVIOUS
        <4>2. v = ServerOf("PAUSING", a, l, r, e, p)
          BY <4>1, <1>1 DEF ServerOf
        <4>3. server' = [v EXCEPT !.at = a + 1]
          BY <3>2, <3>3, <1>2, <4>1 DEF Shows!Controlled
        <4>4. server' = ServerOf("PAUSING", a + 1, l, r, e, p)
          BY <4>2, <4>3 DEF ServerOf
        <4> QED
          BY <4>4, <1>2, ServerIs DEF ServerOk
      <3>4. CASE kind = "resume" /\ server.state = "PAUSED"
        <4>1. PICK v : v = [server EXCEPT !.state = "RUNNING"]
          OBVIOUS
        <4>2. v = ServerOf("RUNNING", a, l, r, e, p)
          BY <4>1, <1>1 DEF ServerOf
        <4>3. server' = [v EXCEPT !.at = a + 1]
          BY <3>2, <3>4, <1>2, <4>1 DEF Shows!Controlled
        <4>4. server' = ServerOf("RUNNING", a + 1, l, r, e, p)
          BY <4>2, <4>3 DEF ServerOf
        <4> QED
          BY <4>4, <1>2, ServerIs DEF ServerOk
      <3>5. CASE ~(kind = "stop" /\ server.state = "RUNNING") /\ ~(kind = "resume" /\ server.state = "PAUSED")
        <4>1. server' = server
          BY <3>2, <3>5 DEF Shows!Controlled
        <4> QED
          BY <4>1, <1>2 DEF PageInv
      <3> QED
        BY <3>3, <3>4, <3>5
    <2>2. CASE b = "rating"
      <3>1. PICK kind : server' = [server EXCEPT !.rating = kind]
        BY <2>2 DEF Shows!ServeCall
      <3>2. server' = ServerOf(st, a, l, r, kind, p)
        BY <3>1, <1>1 DEF ServerOf
      <3> QED
        BY <3>2, <1>2, ServerIs DEF ServerOk
    <2>3. CASE b = "collect"
      <3>1. server' = [server EXCEPT !.package = "ready"]
        BY <2>3 DEF Shows!ServeCall
      <3>2. server' = ServerOf(st, a, l, r, e, "ready")
        BY <3>1, <1>1 DEF ServerOf
      <3> QED
        BY <3>2, <1>2, ServerIs DEF ServerOk
    <2> QED
      BY <2>1, <2>2, <2>3 DEF Shows!Buttons
  <1>5. Called(calls') /\ (b # "control" => calls'["control"] = calls["control"])
    <2>1. PICK f : f = [calls EXCEPT ![b].phase = "served"]
      OBVIOUS
    <2>2. f = [c \in Shows!Buttons |-> f[c]] /\ \A c \in Shows!Buttons : c # b => f[c] = calls[c]
      BY <2>1, <1>3 DEF Called
    <2>3. PICK x : calls' = [f EXCEPT ![b] = x]
      BY <2>1 DEF Shows!ServeCall
    <2>4. calls' = [c \in Shows!Buttons |-> calls'[c]] /\ \A c \in Shows!Buttons : c # b => calls'[c] = calls[c]
      BY <2>2, <2>3
    <2> QED
      BY <2>4 DEF Called, Shows!Buttons
  <1>6. spent.controls = 0 => b # "control"
    <2>1. calls[b].phase = "sent"
      BY DEF Shows!ServeCall
    <2>2. Shows!Unused.phase = "idle"
      BY DEF Shows!Unused
    <2> QED
      BY <2>1, <2>2 DEF PageInv, Forward
  <1>7. UNCHANGED <<page, refreshing, refreshes, form, spent, rewound>>
    BY DEF Shows!ServeCall
  <1> QED
    BY <1>2, <1>4, <1>5, <1>6, <1>7, ServerStep

LEMMA TickStep ==
    ASSUME PageInv, Shows!Tick
    PROVE  PageInv'
  <1>1. Shows!Begin /\ UNCHANGED <<server, page, calls, form, spent, rewound>>
    BY DEF Shows!Tick
  <1> QED
    BY <1>1, BeginsStep DEF PageInv

LEMMA ServeReadStep ==
    ASSUME PageInv, NEW s \in Shows!Slots, Shows!ServeRead(s)
    PROVE  PageInv'
  <1>1. /\ s \in Shows!Reading
        /\ UNCHANGED <<server, page, refreshing, calls, form, spent, rewound>>
    BY DEF Shows!ServeRead
  <1>2. PICK q : q = refreshes[s]
    OBVIOUS
  <1>3. PICK x : x = Shows!Answer(q)
    OBVIOUS
  <1>4. PICK r : r = [q EXCEPT !.answer = x]
    OBVIOUS
  <1>5. refreshes' = [refreshes EXCEPT ![s] = r]
    BY <1>2, <1>3, <1>4 DEF Shows!ServeRead
  <1>6. ReadOk(q, page, server, spent.controls)
    BY <1>2 DEF PageInv
  <1>7. PICK st, c, a : q = ReadOf(st, c, a)
    BY <1>6 DEF ReadOk
  <1>8. r = ReadOf(st, c, x) /\ q.step = st /\ q.cursor = c
    BY <1>4, <1>7 DEF ReadOf
  <1>9. r.step = st /\ r.cursor = c /\ r.answer = x
    BY <1>8, ReadIs
  <1>10. st = "events" => x.last = server.log
    BY <1>3, <1>8 DEF Shows!Answer
  <1>11. st = "task" => x.at = server.at
    BY <1>3, <1>8 DEF Shows!Answer
  <1>12. page.cursor \in 0 .. server.log /\ server.log \in Nat /\ server.at \in Nat
    BY DEF PageInv, PageOk, ServerOk
  <1>13. spent.controls = 0 => page.at \in 0 .. server.at
    BY DEF PageInv, Forward
  <1>14. ReadOk(r, page, server, spent.controls)
    <2>1. r = ReadOf(r.step, r.cursor, r.answer)
      BY <1>8, <1>9
    <2>2. st = "events" => c = page.cursor /\ x.last \in page.cursor .. server.log
      BY <1>6, <1>8, <1>10, <1>12 DEF ReadOk
    <2>3. spent.controls = 0 /\ st = "task" => x.at \in page.at .. server.at
      BY <1>11, <1>12, <1>13
    <2> QED
      BY <2>1, <2>2, <2>3, <1>9 DEF ReadOk
  <1>15. ~refreshing' => r.step = "idle"
    BY <1>1, OneReader
  <1>16. \A u \in Shows!Slots : u # s => refreshes[u].step = "idle"
    BY <1>1, OneReader
  <1>17. /\ PageOk(page', server.log) /\ FormOk(form') /\ Called(calls')
         /\ (spent.controls = 0 => Forward(page', server, calls', rewound'))
         /\ ReadOk(r, page', server, spent.controls)
    BY <1>1, <1>14 DEF PageInv
  <1> QED
    BY <1>1, <1>5, <1>15, <1>16, <1>17, ReaderStep

LEMMA TaskArrivesStep ==
    ASSUME PageInv, NEW s \in Shows!Slots, Shows!TaskArrives(s)
    PROVE  PageInv'
  <1>1. /\ s \in Shows!Reading /\ refreshes[s].step = "task" /\ refreshes[s].answer # Shows!None
        /\ UNCHANGED <<server, spent, form>> /\ Shows!GoesOn(s, "events")
    BY DEF Shows!TaskArrives, Shows!Arrives
  <1>2. PICK x : x = refreshes[s].answer
    OBVIOUS
  <1>3. rewound' = (rewound \/ x.at < page.at)
    BY <1>2 DEF Shows!TaskArrives
  <1>4. PICK st, at : st = x.state /\ at = x.at
    OBVIOUS
  <1>5. page' = [page EXCEPT !.state = st, !.at = at]
    BY <1>2, <1>4 DEF Shows!TaskArrives
  <1>6. PageOk(page, server.log)
    BY DEF PageInv
  <1>7. \A x1, y1 : \E v : /\ Moved(v, page, x1, y1)
                          /\ PageOk(v, server.log) /\ v.cursor = page.cursor /\ v.at = y1
    BY <1>6, PageMoved
  <1>8. \E v : /\ Moved(v, page, st, at)
              /\ PageOk(v, server.log) /\ v.cursor = page.cursor /\ v.at = at
    BY <1>7, Zenon
  <1>9. PageOk(page', server.log) /\ page'.cursor = page.cursor /\ page'.at = at
    BY <1>5, <1>8, Zenon DEF Moved
  <1>10. refreshes' = [refreshes EXCEPT ![s] = Asked("events")] /\ UNCHANGED <<refreshing, calls>>
    BY <1>1, GoesOnAsks
  <1>11. ReadOk(Asked("events"), page', server, spent.controls)
    BY <1>9, AskedIsOk
  <1>12. spent.controls = 0 => Forward(page', server, calls', rewound')
    <2> SUFFICES ASSUME spent.controls = 0
                 PROVE  Forward(page', server, calls', rewound')
      OBVIOUS
    <2>1. Forward(page, server, calls, rewound)
      BY DEF PageInv
    <2>2. ReadOk(refreshes[s], page, server, spent.controls)
      BY DEF PageInv
    <2>3. x.at \in page.at .. server.at
      BY <2>2, <1>1, <1>2 DEF ReadOk
    <2>4. page.at \in 0 .. server.at /\ server.at \in Nat
      BY <2>1 DEF Forward, PageInv, ServerOk
    <2>5. ~(x.at < page.at) /\ x.at \in 0 .. server.at
      BY <2>3, <2>4
    <2>6. ~rewound'
      BY <2>1, <2>5, <1>3, Zenon DEF Forward
    <2>7. page'.at \in 0 .. server.at
      BY <2>5, <1>4, <1>9
    <2> QED
      BY <2>1, <2>6, <2>7, <1>10 DEF Forward
  <1>13. ~refreshing' => Asked("events").step = "idle"
    BY <1>1, <1>10, OneReader
  <1>14. \A u \in Shows!Slots : u # s => refreshes[u].step = "idle"
    BY <1>1, OneReader
  <1>15. FormOk(form') /\ Called(calls')
    BY <1>1, <1>10 DEF PageInv
  <1>16. UNCHANGED <<server, spent>>
    BY <1>1
  <1>17. refreshes' = [refreshes EXCEPT ![s] = Asked("events")]
    BY <1>10
  <1>18. PageOk(page', server.log)
    BY <1>9
  <1> QED
    BY <1>11, <1>12, <1>13, <1>14, <1>15, <1>16, <1>17, <1>18, ReaderStep

LEMMA EventsArriveStep ==
    ASSUME PageInv, NEW s \in Shows!Slots, Shows!EventsArrive(s)
    PROVE  PageInv'
  <1>1. /\ s \in Shows!Reading /\ refreshes[s].step = "events" /\ refreshes[s].answer # Shows!None
        /\ UNCHANGED <<server, spent, form, rewound>> /\ Shows!GoesOn(s, "result")
    BY DEF Shows!EventsArrive, Shows!Arrives
  <1>2. PICK last : last = refreshes[s].answer.last
    OBVIOUS
  <1>3. PICK new : new = [i \in 1 .. (last - refreshes[s].cursor) |-> refreshes[s].cursor + i]
    OBVIOUS
  <1>4. page' = IF new = <<>> THEN page ELSE [page EXCEPT !.events = @ \o new, !.cursor = last]
    BY <1>2, <1>3 DEF Shows!EventsArrive
  <1>5. PICK st, a, e, c, r, g, p, m : page = PageOf(st, a, e, c, r, g, p, m)
    BY DEF PageInv, PageOk
  <1>6. page.cursor = c /\ page.events = e /\ page.at = a
    BY <1>5, PageIs
  <1>7. server.log \in Nat /\ c \in 0 .. server.log /\ e = Shows!Upto(c)
    BY <1>6 DEF PageInv, PageOk, ServerOk
  <1>8. ReadOk(refreshes[s], page, server, spent.controls)
    BY DEF PageInv
  <1>9. refreshes[s].cursor = c /\ last \in c .. server.log
    BY <1>1, <1>2, <1>6, <1>8 DEF ReadOk
  <1>10. new = [i \in 1 .. last - c |-> c + i] /\ last \in Nat /\ c \in Nat /\ c <= last
    BY <1>3, <1>7, <1>9
  <1>11. e \o new = Shows!Upto(last)
    BY <1>7, <1>10, UptoJoin
  <1>12. PageOk(page', server.log) /\ page'.at = page.at
    <2>1. CASE new = <<>>
      BY <2>1, <1>4 DEF PageInv
    <2>2. CASE new # <<>>
      <3>1. PICK f : f = [page EXCEPT !.events = @ \o new]
        OBVIOUS
      <3>2. f = PageOf(st, a, e \o new, c, r, g, p, m)
        BY <3>1, <1>5 DEF PageOf
      <3>3. page' = [f EXCEPT !.cursor = last]
        BY <3>1, <2>2, <1>4
      <3>4. page' = PageOf(st, a, Shows!Upto(last), last, r, g, p, m)
        BY <3>2, <3>3, <1>11 DEF PageOf
      <3>5. PICK v : v = page'
        OBVIOUS
      <3>6. PICK u : u = Shows!Upto(last)
        OBVIOUS
      <3>7. v = PageOf(st, a, u, last, r, g, p, m)
        BY <3>4, <3>5, <3>6
      <3>8. /\ v.state = st /\ v.at = a /\ v.events = u /\ v.cursor = last
            /\ v.result = r /\ v.rating = g /\ v.package = p /\ v.modes = m
        BY <3>7, PageIs
      <3>9. PageOk(v, server.log)
        BY <3>6, <3>7, <3>8, <1>7, <1>9 DEF PageOk
      <3> QED
        BY <3>5, <3>8, <3>9, <1>6
    <2> QED
      BY <2>1, <2>2
  <1>13. refreshes' = [refreshes EXCEPT ![s] = Asked("result")] /\ UNCHANGED <<refreshing, calls>>
    BY <1>1, GoesOnAsks
  <1>14. Asked("result").step = "result"
    BY ReadIs DEF Asked
  <1>15. ReadOk(Asked("result"), page', server, spent.controls)
    <2>1. PICK q : q = Asked("result")
      OBVIOUS
    <2>2. q.step = "result" /\ q = ReadOf(q.step, q.cursor, q.answer)
      BY <2>1, ReadIs DEF Asked
    <2> QED
      BY <2>1, <2>2 DEF ReadOk
  <1>16. refreshing
    BY <1>1, OneReader
  <1>17. \A u \in Shows!Slots : u # s => refreshes[u].step = "idle"
    BY <1>1, OneReader
  <1>18. FormOk(form') /\ Called(calls')
    BY <1>1, <1>13 DEF PageInv
  <1>19. spent.controls = 0 => Forward(page', server, calls', rewound')
    <2>1. page'.at = page.at /\ calls' = calls /\ rewound' = rewound
      BY <1>1, <1>12, <1>13
    <2> QED
      BY <2>1 DEF PageInv, Forward
  <1>20. ~refreshing' => Asked("result").step = "idle"
    BY <1>13, <1>16
  <1>21. UNCHANGED <<server, spent>>
    BY <1>1
  <1>22. refreshes' = [refreshes EXCEPT ![s] = Asked("result")]
    BY <1>13
  <1>23. PageOk(page', server.log)
    BY <1>12
  <1> QED
    BY <1>15, <1>17, <1>18, <1>19, <1>20, <1>21, <1>22, <1>23, ReaderStep

\* A read whose answer does not touch the state, the time and the events
\* goes on to the next read or ends the refresh.
LEMMA ReadGoesOn ==
    ASSUME PageInv, NEW s \in Shows!Slots, s \in Shows!Reading, Alike(page', page),
           NEW st, Shows!GoesOn(s, st), FormOk(form'), UNCHANGED <<server, spent, rewound>>
    PROVE  PageInv'
  <1>1. PageOk(page, server.log)
    BY DEF PageInv
  <1>2. PageOk(page', server.log) /\ page'.cursor = page.cursor /\ page'.at = page.at
    BY <1>1, AlikeIsOk
  <1>3. refreshes' = [refreshes EXCEPT ![s] = Asked(st)] /\ UNCHANGED <<refreshing, calls>>
    BY GoesOnAsks
  <1>4. ReadOk(Asked(st), page', server, spent.controls)
    BY <1>2, AskedIsOk
  <1>5. spent.controls = 0 => Forward(page', server, calls', rewound')
    <2>1. page'.at = page.at /\ calls' = calls /\ rewound' = rewound
      BY <1>2, <1>3
    <2> QED
      BY <2>1 DEF PageInv, Forward
  <1>6. ~refreshing' => Asked(st).step = "idle"
    BY <1>3, OneReader
  <1>7. \A u \in Shows!Slots : u # s => refreshes[u].step = "idle"
    BY OneReader
  <1>8. Called(calls')
    BY <1>3 DEF PageInv
  <1>9. UNCHANGED <<server, spent>>
    OBVIOUS
  <1>10. refreshes' = [refreshes EXCEPT ![s] = Asked(st)]
    BY <1>3
  <1>11. PageOk(page', server.log)
    BY <1>2
  <1> QED
    BY <1>4, <1>5, <1>6, <1>7, <1>8, <1>9, <1>10, <1>11, ReaderStep

LEMMA ReadEnds ==
    ASSUME PageInv, NEW s \in Shows!Slots, s \in Shows!Reading, Alike(page', page) \/ page' = page,
           Shows!End(s), FormOk(form'), UNCHANGED <<server, rewound>>,
           SpentOk(spent'), spent'.controls = spent.controls
    PROVE  PageInv'
  <1>1. PageOk(page, server.log)
    BY DEF PageInv
  <1>2. PageOk(page', server.log) /\ page'.cursor = page.cursor /\ page'.at = page.at
    BY <1>1, AlikeIsOk
  <1>3. refreshes' = [refreshes EXCEPT ![s] = Shows!Idle] /\ refreshing' = FALSE
    BY EndFrees
  <1>4. /\ Called(calls')
        /\ calls["control"] = Shows!Unused => calls'["control"] = Shows!Unused
    BY EndFrees
  <1>5. \A u \in Shows!Slots : u # s => refreshes[u].step = "idle"
    BY OneReader
  <1>6. Shows!Idle.step = "idle"
    BY IdleIsOk
  <1>7. \A u \in Shows!Slots : refreshes'[u].step = "idle"
    BY <1>3, <1>5, <1>6 DEF PageInv
  <1>8. \A u \in Shows!Slots : ReadOk(refreshes'[u], page', server, spent'.controls)
    <2> TAKE u \in Shows!Slots
    <2>1. CASE u = s
      <3>1. refreshes'[u] = Shows!Idle
        BY <2>1, <1>3 DEF PageInv
      <3> QED
        BY <3>1, IdleIsOk
    <2>2. CASE u # s
      <3>1. refreshes'[u] = refreshes[u] /\ refreshes[u].step = "idle"
        BY <2>2, <1>3, <1>5 DEF PageInv
      <3>2. ReadOk(refreshes[u], page, server, spent.controls)
        BY DEF PageInv
      <3> QED
        BY <3>1, <3>2 DEF ReadOk
    <2> QED
      BY <2>1, <2>2
  <1>9. refreshes' = [u \in Shows!Slots |-> refreshes'[u]]
    BY <1>3 DEF PageInv
  <1>10. spent'.controls = 0 => Forward(page', server, calls', rewound')
    <2>1. page'.at = page.at /\ rewound' = rewound
      BY <1>2
    <2> QED
      BY <2>1, <1>4 DEF PageInv, Forward
  <1> QED
    BY <1>2, <1>4, <1>7, <1>8, <1>9, <1>10 DEF PageInv

LEMMA ResultsStep ==
    ASSUME PageInv, NEW s \in Shows!Slots,
           Shows!ResultArrives(s) \/ Shows!RatingArrives(s) \/ Shows!PackageArrives(s)
    PROVE  PageInv'
  <1>1. PageOk(page, server.log) /\ FormOk(form) /\ SpentOk(spent)
    BY DEF PageInv
  <1>2. CASE Shows!ResultArrives(s)
    <2>1. s \in Shows!Reading /\ UNCHANGED <<server, spent, form, rewound>>
      BY <1>2 DEF Shows!ResultArrives, Shows!Arrives
    <2>2. PICK x : page' = [page EXCEPT !.result = x]
      BY <1>2 DEF Shows!ResultArrives
    <2>3. Alike(page', page)
      BY <2>2, <1>1, AlikeWith
    <2>4. FormOk(form') /\ SpentOk(spent') /\ spent'.controls = spent.controls
      BY <2>1, <1>1
    <2>5. Shows!GoesOn(s, "rating") \/ Shows!End(s)
      BY <1>2 DEF Shows!ResultArrives
    <2>6. CASE Shows!GoesOn(s, "rating")
      BY <2>1, <2>3, <2>4, <2>6, ReadGoesOn
    <2>7. CASE Shows!End(s)
      BY <2>1, <2>3, <2>4, <2>7, ReadEnds
    <2> QED
      BY <2>5, <2>6, <2>7
  <1>3. CASE Shows!RatingArrives(s)
    <2>1. s \in Shows!Reading /\ UNCHANGED <<server, spent, rewound>> /\ Shows!GoesOn(s, "package")
      BY <1>3 DEF Shows!RatingArrives, Shows!Arrives
    <2>2. PICK x : page' = [page EXCEPT !.rating = x] /\ form' = Shows!Prefilled(x)
      BY <1>3 DEF Shows!RatingArrives
    <2>3. Alike(page', page)
      BY <2>2, <1>1, AlikeWith
    <2>4. FormOk(form')
      <3>1. PICK o, r, m : form = FormOf(o, r, m)
        BY <1>1 DEF FormOk
      <3>2. form.open = o /\ form.rating = r /\ form.meant = m
        BY <3>1, FormIs
      <3>3. PICK y : y = IF x = "none" \/ form.open THEN form.rating ELSE x
        OBVIOUS
      <3>4. form' = [form EXCEPT !.rating = y]
        BY <2>2, <3>3 DEF Shows!Prefilled
      <3>5. form' = FormOf(o, y, m)
        BY <3>1, <3>4 DEF FormOf
      <3>6. form'.open = o /\ form'.rating = y /\ form'.meant = m
        BY <3>5, FormIs
      <3>7. o => r = m
        BY <1>1, <3>2 DEF FormOk
      <3>8. o => y = m
        BY <3>2, <3>3, <3>7
      <3> QED
        BY <3>5, <3>6, <3>8 DEF FormOk
    <2> QED
      BY <2>1, <2>3, <2>4, ReadGoesOn
  <1>4. CASE Shows!PackageArrives(s)
    <2>1. s \in Shows!Reading /\ UNCHANGED <<server, spent, form, rewound>> /\ Shows!End(s)
      BY <1>4 DEF Shows!PackageArrives, Shows!Arrives
    <2>2. PICK x : x = refreshes[s].answer.package
      OBVIOUS
    <2>3. PICK st, a, e, c, r, g, p, m : page = PageOf(st, a, e, c, r, g, p, m)
      BY <1>1 DEF PageOk
    <2>4. page.state = st /\ page.at = a /\ page.events = e /\ page.cursor = c
      BY <2>3, PageIs
    <2>5. PICK f : f = [page EXCEPT !.package = x]
      OBVIOUS
    <2>6. f = PageOf(st, a, e, c, r, g, x, m)
      BY <2>3, <2>5 DEF PageOf
    <2>7. PICK y : y = IF page.modes = "unset" THEN "recommended" ELSE page.modes
      OBVIOUS
    <2>8. page' = [f EXCEPT !.modes = y]
      BY <1>4, <2>2, <2>5, <2>7 DEF Shows!PackageArrives
    <2>9. page' = PageOf(st, a, e, c, r, g, x, y)
      BY <2>6, <2>8 DEF PageOf
    <2>10. Alike(page', page)
      BY <2>4, <2>9 DEF Alike
    <2>11. FormOk(form') /\ SpentOk(spent') /\ spent'.controls = spent.controls
      BY <2>1, <1>1
    <2> QED
      BY <2>1, <2>10, <2>11, ReadEnds
  <1> QED
    BY <1>2, <1>3, <1>4

LEMMA FailsSpends ==
    ASSUME SpentOk(spent), Shows!Fails
    PROVE  SpentOk(spent') /\ spent'.controls = spent.controls
  <1>1. PICK a, c, f : spent = [calls |-> a, controls |-> c, failures |-> f]
    BY DEF SpentOk
  <1>2. PICK g : g = spent.failures + 1
    OBVIOUS
  <1>3. spent' = [spent EXCEPT !.failures = g]
    BY <1>2 DEF Shows!Fails
  <1>4. spent' = [calls |-> a, controls |-> c, failures |-> g]
    BY <1>1, <1>3
  <1>5. c = spent.controls /\ c \in Nat
    BY <1>1 DEF SpentOk
  <1> QED
    BY <1>4, <1>5 DEF SpentOk

LEMMA ReadFailsStep ==
    ASSUME PageInv, NEW s \in Shows!Slots, Shows!ReadFails(s)
    PROVE  PageInv'
  <1>1. /\ s \in Shows!Reading /\ Shows!Fails /\ Shows!End(s)
        /\ UNCHANGED <<server, page, form, rewound>>
    BY DEF Shows!ReadFails
  <1>2. SpentOk(spent') /\ spent'.controls = spent.controls
    BY <1>1, FailsSpends DEF PageInv
  <1>3. FormOk(form')
    BY <1>1 DEF PageInv
  <1> QED
    BY <1>1, <1>2, <1>3, ReadEnds

LEMMA RefreshGoesStep ==
    ASSUME PageInv, NEW s \in Shows!Slots, Shows!Refresh(s) \/ Shows!ReadFails(s)
    PROVE  PageInv'
  BY ServeReadStep, TaskArrivesStep, EventsArriveStep, ResultsStep, ReadFailsStep DEF Shows!Refresh

\* A button is pressed: of the controls it leaves a trace.
LEMMA PressStep ==
    ASSUME PageInv, NEW b \in Shows!Buttons, NEW kind, Shows!Press(b, kind)
    PROVE  PageInv'
  <1>1. PICK a, c, f : spent = [calls |-> a, controls |-> c, failures |-> f]
    BY DEF PageInv, SpentOk
  <1>2. c = spent.controls /\ c \in Nat
    BY <1>1 DEF PageInv, SpentOk
  <1>3. PICK x : x = spent.calls + 1
    OBVIOUS
  <1>4. PICK g : g = [spent EXCEPT !.calls = x]
    OBVIOUS
  <1>5. g = [calls |-> x, controls |-> c, failures |-> f]
    BY <1>1, <1>4
  <1>6. PICK y : y = IF b = "control" THEN c + 1 ELSE c
    OBVIOUS
  <1>7. spent' = [g EXCEPT !.controls = y]
    BY <1>2, <1>3, <1>4, <1>6 DEF Shows!Press
  <1>8. spent' = [calls |-> x, controls |-> y, failures |-> f]
    BY <1>5, <1>7
  <1>9. spent'.controls = y /\ y \in Nat
    BY <1>2, <1>6, <1>8
  <1>10. SpentOk(spent')
    BY <1>8, <1>9 DEF SpentOk
  <1>11. PICK z : calls' = [calls EXCEPT ![b] = z]
    BY DEF Shows!Press
  <1>12. Called(calls') /\ (b # "control" => calls'["control"] = calls["control"])
    BY <1>11 DEF PageInv, Called, Shows!Buttons
  <1>13. UNCHANGED <<server, page, refreshing, refreshes, form, rewound>>
    BY DEF Shows!Press
  <1>14. spent'.controls = 0 => spent.controls = 0 /\ b # "control"
    BY <1>2, <1>6, <1>9
  <1>15. spent'.controls = 0 => Forward(page', server, calls', rewound')
    BY <1>12, <1>13, <1>14 DEF PageInv, Forward
  <1>16. PageOk(page', server.log) /\ page'.cursor = page.cursor /\ FormOk(form')
    BY <1>13 DEF PageInv
  <1>17. spent'.controls = 0 => page'.at = page.at /\ spent.controls = 0
    BY <1>13, <1>14
  <1> QED
    BY <1>10, <1>12, <1>13, <1>15, <1>16, <1>17, SameReads

\* A press of a mode, and what the editor does.
LEMMA EditStep ==
    ASSUME PageInv, Shows!Open \/ (\E r \in Shows!Ratings : Shows!Choose(r)) \/ Shows!ToggleMode
    PROVE  PageInv'
  <1>1. PageOk(page, server.log) /\ FormOk(form) /\ SpentOk(spent) /\ Called(calls)
    BY DEF PageInv
  <1>2. FormOk(form') /\ (Alike(page', page) \/ page' = page)
    <2>1. PICK o, r, m : form = FormOf(o, r, m)
      BY <1>1 DEF FormOk
    <2>2. form.open = o /\ form.rating = r /\ form.meant = m
      BY <2>1, FormIs
    <2>3. CASE Shows!Open
      <3>1. PICK t : t = TRUE
        OBVIOUS
      <3>2. PICK f : f = [form EXCEPT !.open = t]
        OBVIOUS
      <3>3. f = FormOf(t, r, m)
        BY <2>1, <3>2 DEF FormOf
      <3>4. form' = [f EXCEPT !.meant = r] /\ page' = page
        BY <2>2, <2>3, <3>1, <3>2 DEF Shows!Open
      <3>5. form' = FormOf(t, r, r)
        BY <3>3, <3>4 DEF FormOf
      <3>6. FormOk(form')
        BY <3>5, FormIs DEF FormOk
      <3> QED
        BY <3>4, <3>6
    <2>4. ASSUME NEW x \in Shows!Ratings, Shows!Choose(x)
          PROVE  FormOk(form') /\ page' = page
      <3>1. PICK f : f = [form EXCEPT !.rating = x]
        OBVIOUS
      <3>2. f = FormOf(o, x, m)
        BY <2>1, <3>1 DEF FormOf
      <3>3. form' = [f EXCEPT !.meant = x] /\ page' = page
        BY <2>4, <3>1 DEF Shows!Choose
      <3>4. form' = FormOf(o, x, x)
        BY <3>2, <3>3 DEF FormOf
      <3>5. FormOk(form')
        BY <3>4, FormIs DEF FormOk
      <3> QED
        BY <3>3, <3>5
    <2>5. CASE Shows!ToggleMode
      <3>1. page' = [page EXCEPT !.modes = "chosen"] /\ form' = form
        BY <2>5 DEF Shows!ToggleMode
      <3>2. Alike(page', page)
        BY <3>1, <1>1, AlikeWith
      <3> QED
        BY <3>1, <3>2, <1>1
    <2> QED
      BY <2>3, <2>4, <2>5
  <1>3. PageOk(page', server.log) /\ page'.cursor = page.cursor /\ page'.at = page.at
    BY <1>1, <1>2, AlikeIsOk
  <1>4. UNCHANGED <<server, refreshing, refreshes, calls, spent, rewound>>
    BY DEF Shows!Open, Shows!Choose, Shows!ToggleMode
  <1>5. spent'.controls = 0 => Forward(page', server, calls', rewound')
    BY <1>3, <1>4 DEF PageInv, Forward
  <1>6. SpentOk(spent') /\ Called(calls') /\ spent'.controls = spent.controls
    BY <1>1, <1>4
  <1> QED
    BY <1>2, <1>3, <1>4, <1>5, <1>6, SameReads

LEMMA UserStep ==
    ASSUME PageInv, Shows!User
    PROVE  PageInv'
  <1>1. "control" \in Shows!Buttons /\ "rating" \in Shows!Buttons /\ "collect" \in Shows!Buttons
    BY DEF Shows!Buttons
  <1>2. \A b \in Shows!Buttons : \A k : Shows!Press(b, k) => PageInv'
    BY PressStep
  <1>3. CASE \E b \in Shows!Buttons : \E k : Shows!Press(b, k)
    BY <1>2, <1>3
  <1>4. CASE Shows!Open \/ (\E r \in Shows!Ratings : Shows!Choose(r)) \/ Shows!ToggleMode
    BY <1>4, EditStep
  <1> QED
    BY <1>1, <1>3, <1>4
       DEF Shows!User, Shows!Stop, Shows!Steer, Shows!Resume, Shows!Save, Shows!Collect

\* The answer of a button that is not a control.
LEMMA SavedStep ==
    ASSUME PageInv, Shows!SaveArrives \/ Shows!CollectArrives
    PROVE  PageInv'
  <1>1. PageOk(page, server.log) /\ FormOk(form) /\ SpentOk(spent) /\ Called(calls)
    BY DEF PageInv
  <1>2. Alike(page', page)
    <2>1. (\E x : page' = [page EXCEPT !.rating = x]) \/ (\E x : page' = [page EXCEPT !.package = x])
      BY DEF Shows!SaveArrives, Shows!CollectArrives
    <2> QED
      BY <2>1, <1>1, AlikeWith
  <1>3. FormOk(form')
    <2>1. CASE Shows!CollectArrives
      BY <2>1, <1>1 DEF Shows!CollectArrives
    <2>2. CASE Shows!SaveArrives
      <3>1. PICK o, r, m : form = FormOf(o, r, m)
        BY <1>1 DEF FormOk
      <3>2. PICK t : t = FALSE
        OBVIOUS
      <3>3. form' = [form EXCEPT !.open = t]
        BY <2>2, <3>2 DEF Shows!SaveArrives
      <3>4. form' = FormOf(t, r, m)
        BY <3>1, <3>3 DEF FormOf
      <3>5. form'.open = t /\ form'.rating = r /\ form'.meant = m
        BY <3>4, FormIs
      <3> QED
        BY <3>2, <3>4, <3>5 DEF FormOk
    <2> QED
      BY <2>1, <2>2
  <1>4. Called(calls') /\ calls'["control"] = calls["control"]
    <2>1. \E b \in {"rating", "collect"} : calls' = [calls EXCEPT ![b] = Shows!Unused]
      BY DEF Shows!SaveArrives, Shows!CollectArrives
    <2> QED
      BY <2>1, <1>1 DEF Called, Shows!Buttons
  <1>5. UNCHANGED <<server, refreshing, refreshes, spent, rewound>>
    BY DEF Shows!SaveArrives, Shows!CollectArrives
  <1>6. PageOk(page', server.log) /\ page'.cursor = page.cursor /\ page'.at = page.at
    BY <1>1, <1>2, AlikeIsOk
  <1>7. spent'.controls = 0 => Forward(page', server, calls', rewound')
    BY <1>4, <1>5, <1>6 DEF PageInv, Forward
  <1>8. SpentOk(spent') /\ spent'.controls = spent.controls
    BY <1>1, <1>5
  <1> QED
    BY <1>3, <1>4, <1>5, <1>6, <1>7, <1>8, SameReads

\* A button whose request or answer is lost, and a control that is refused.
LEMMA LostStep ==
    ASSUME PageInv, NEW b \in Shows!Buttons, calls' = [calls EXCEPT ![b] = Shows!Unused],
           UNCHANGED <<server, page, refreshing, refreshes, form, rewound>>,
           SpentOk(spent'), spent'.controls = spent.controls
    PROVE  PageInv'
  <1>1. Called(calls') /\ (calls["control"] = Shows!Unused => calls'["control"] = Shows!Unused)
    BY DEF PageInv, Called, Shows!Buttons
  <1>2. PageOk(page', server.log) /\ page'.cursor = page.cursor /\ page'.at = page.at /\ FormOk(form')
    BY DEF PageInv
  <1>3. spent'.controls = 0 => Forward(page', server, calls', rewound')
    BY <1>1 DEF PageInv, Forward
  <1> QED
    BY <1>1, <1>2, <1>3, SameReads

LEMMA ControlArrivesStep ==
    ASSUME PageInv, Shows!ControlArrives
    PROVE  PageInv'
  <1>1. PICK st, at : st = calls["control"].answer.state /\ at = calls["control"].answer.at
    OBVIOUS
  <1>2. /\ calls["control"].phase = "served" /\ UNCHANGED <<server, form, spent, rewound>>
        /\ Moved(page', page, st, at)
    BY <1>1 DEF Shows!ControlArrives, Moved
  <1>3. FormOk(form) /\ SpentOk(spent) /\ Called(calls)
    BY DEF PageInv
  <1>10. PageOk(page, server.log)
    BY DEF PageInv
  <1>4. \A x, y : \E v : /\ Moved(v, page, x, y)
                         /\ PageOk(v, server.log) /\ v.cursor = page.cursor /\ v.at = y
    BY <1>10, PageMoved
  <1>5. \E v : /\ Moved(v, page, st, at)
               /\ PageOk(v, server.log) /\ v.cursor = page.cursor /\ v.at = at
    BY <1>4, Zenon
  <1>6. PageOk(page', server.log) /\ page'.cursor = page.cursor
    BY <1>2, <1>5, Zenon DEF Moved
  <1>7. spent.controls # 0
    BY <1>2 DEF PageInv, Forward, Shows!Unused
  <1>8. CASE Shows!Begin /\ calls' = [calls EXCEPT !["control"].phase = "refreshing"]
    <2>1. Called(calls')
      BY <1>3, <1>8 DEF Called
    <2> QED
      BY <2>1, <1>2, <1>6, <1>7, <1>8, BeginsStep
  <1>9. CASE calls' = [calls EXCEPT !["control"] = Shows!Unused] /\ UNCHANGED <<refreshing, refreshes>>
    <2>1. Called(calls')
      BY <1>3, <1>9 DEF Called
    <2>2. FormOk(form') /\ SpentOk(spent') /\ spent'.controls # 0
      BY <1>2, <1>3, <1>7
    <2> QED
      BY <2>1, <2>2, <1>2, <1>6, <1>9, SameReads
  <1> QED
    BY <1>8, <1>9 DEF Shows!ControlArrives

LEMMA CallFailsStep ==
    ASSUME PageInv, Shows!CallRefused \/ (\E b \in Shows!Buttons : Shows!CallFails(b))
    PROVE  PageInv'
  <1>1. CASE Shows!CallRefused
    <2>1. /\ calls' = [calls EXCEPT !["control"] = Shows!Unused]
          /\ UNCHANGED <<server, page, refreshing, refreshes, form, spent, rewound>>
      BY <1>1 DEF Shows!CallRefused
    <2>2. SpentOk(spent') /\ spent'.controls = spent.controls /\ "control" \in Shows!Buttons
      BY <2>1 DEF PageInv, Shows!Buttons
    <2> QED
      BY <2>1, <2>2, LostStep
  <1>2. ASSUME NEW b \in Shows!Buttons, Shows!CallFails(b)
        PROVE  PageInv'
    <2>1. /\ calls' = [calls EXCEPT ![b] = Shows!Unused] /\ Shows!Fails
          /\ UNCHANGED <<server, page, refreshing, refreshes, form, rewound>>
      BY <1>2 DEF Shows!CallFails
    <2>2. SpentOk(spent') /\ spent'.controls = spent.controls
      BY <2>1, FailsSpends DEF PageInv
    <2> QED
      BY <2>1, <2>2, LostStep
  <1> QED
    BY <1>1, <1>2

LEMMA PageStep ==
    ASSUME PageInv, [Shows!Next]_taskVars
    PROVE  PageInv'
  <1>1. CASE UNCHANGED taskVars
    BY <1>1 DEF taskVars, PageInv
  <1>2. CASE Shows!Next
    BY <1>2, TaskStep, UserStep, TickStep, ControlArrivesStep, SavedStep, CallFailsStep,
       RefreshGoesStep, ServeCallStep
       DEF Shows!Next, Shows!Answered
  <1> QED
    BY <1>1, <1>2

LEMMA PageIsSound ==
    ASSUME PageInv
    PROVE  Shows!ShownSound
  <1>1. page.events = Shows!Upto(page.cursor) /\ page.cursor <= server.log
    BY DEF PageInv, PageOk, ServerOk
  <1>2. form.open => form.rating = form.meant
    BY DEF PageInv, FormOk
  <1>3. rewound => spent.controls > 0
    <2>1. spent.controls \in Nat /\ (spent.controls = 0 => ~rewound)
      BY DEF PageInv, SpentOk, Forward
    <2> QED
      BY <2>1
  <1> QED
    BY <1>1, <1>2, <1>3
       DEF Shows!ShownSound, Shows!TimelineIsLog, Shows!ChoicesAreUsers, Shows!BackOnlyByControl

-----------------------------------------------------------------------------
(* Board: the runs of a day.                                                 *)

Flying(k, o, l) == [token |-> k, of |-> o, list |-> l]
Listed(o, r, n) == [of |-> o, runs |-> r, at |-> n]

\* A flight f of which generation g is the last number, at world time n, while
\* the list shown is of time m.
FlightSound(f, g, n, sel, m) ==
    /\ f = Flying(f.token, f.of, f.list) /\ f.token \in 1 .. g
    /\ f.list # Days!None => /\ f.list.of = f.of
                             /\ f.list.at \in 0 .. n
    /\ f.token = g => /\ f.of = sel
                      /\ f.list # Days!None => m <= f.list.at

\* What is shown is of the selection unless something says that it may not be.
Settled(gen, load, err, del, cre, l, cal, sel) ==
    gen > 0 /\ ~load /\ ~err /\ del.step \notin {"request", "served"} /\ ~cre
      => l.of = sel /\ cal = [month |-> sel.month]

BoardInv ==
    /\ generation \in Nat /\ world.at \in Nat /\ list.at \in 0 .. world.at
    /\ deleting = [run |-> deleting.run, step |-> deleting.step, token |-> deleting.token]
    /\ \A f \in flights : FlightSound(f, generation, world.at, selected, list.at)
    /\ \A f, g \in flights : f.token = g.token => f = g
    /\ Settled(generation, loading, error, deleting, creating, list, calendar, selected)
    /\ ~regressed

LEMMA BoardStart ==
    ASSUME Days!Init
    PROVE  BoardInv
  BY DEF Days!Init, BoardInv, Days!Cleared, Days!Nobody, Settled

\* A refresh takes the next number; the list shown is the same or cleared.
LEMMA RefreshStep ==
    ASSUME BoardInv, Days!Refresh(selected'), list'.at = list.at \/ list'.at = 0,
           deleting' = [run |-> deleting'.run, step |-> deleting'.step, token |-> deleting'.token],
           UNCHANGED <<world, regressed>>
    PROVE  BoardInv'
  <1>1. PICK n : n = generation + 1
    OBVIOUS
  <1>2. PICK new : new = Flying(n, selected', Days!None)
    OBVIOUS
  <1>3. /\ new.token = n /\ new.of = selected' /\ new.list = Days!None
        /\ new = Flying(new.token, new.of, new.list)
    BY <1>2 DEF Flying
  <1>4. generation' = n /\ flights' = flights \cup {new} /\ loading' = TRUE
    BY <1>1, <1>2, Zenon DEF Days!Refresh, Days!Flight, Flying
  <1>5. n \in Nat /\ n \in 1 .. n /\ generation \in Nat /\ list'.at \in 0 .. world.at
    BY <1>1 DEF BoardInv
  <1>6. \A f \in flights : f.token \in 1 .. generation /\ f.token # n /\ f.token \in 1 .. n
    BY <1>1 DEF BoardInv, FlightSound
  <1>7. \A f \in flights' : FlightSound(f, n, world.at, selected', list'.at)
    BY <1>3, <1>4, <1>5, <1>6 DEF BoardInv, FlightSound
  <1>8. \A f, g \in flights' : f.token = g.token => f = g
    BY <1>3, <1>4, <1>6 DEF BoardInv
  <1>9. Settled(generation', loading', error', deleting', creating', list', calendar', selected')
    BY <1>4 DEF Settled
  <1> QED
    BY <1>4, <1>5, <1>7, <1>8, <1>9 DEF BoardInv

\* A step that leaves the requests and the list alone.
LEMMA AsideStep ==
    ASSUME BoardInv, UNCHANGED <<world, selected, generation, flights, list, calendar, loading, regressed>>,
           deleting' = [run |-> deleting'.run, step |-> deleting'.step, token |-> deleting'.token],
           error' \/ creating' \/ deleting'.step \in {"request", "served"}
    PROVE  BoardInv'
  BY DEF BoardInv, Settled

LEMMA ServeListStep ==
    ASSUME BoardInv, NEW f \in flights, Days!ServeList(f)
    PROVE  BoardInv'
  <1>1. PICK l : l = Listed(f.of, world.runs, world.at)
    OBVIOUS
  <1>2. l.of = f.of /\ l.at = world.at
    BY <1>1 DEF Listed
  <1>3. PICK g : g = Flying(f.token, f.of, l)
    OBVIOUS
  <1>4. g.token = f.token /\ g.of = f.of /\ g.list = l /\ g = Flying(g.token, g.of, g.list)
    BY <1>3 DEF Flying
  <1>5. FlightSound(f, generation, world.at, selected, list.at)
    BY DEF BoardInv
  <1>6. [f EXCEPT !.list = l] = g
    <2>1. PICK k, o, x : k = f.token /\ o = f.of /\ x = f.list
      OBVIOUS
    <2>2. f = Flying(k, o, x)
      BY <1>5, <2>1 DEF FlightSound
    <2>3. [f EXCEPT !.list = l] = Flying(k, o, l)
      BY <2>2 DEF Flying
    <2> QED
      BY <1>3, <2>1, <2>3
  <1>7. /\ flights' = (flights \ {f}) \cup {g}
        /\ UNCHANGED <<world, deleting, selected, generation, list, calendar, loading, error,
                       creating, regressed>>
    <2>1. Days!Replace(f, [f EXCEPT !.list = l])
      BY <1>1, Zenon DEF Days!ServeList, Listed
    <2> QED
      BY <2>1, <1>6 DEF Days!ServeList, Days!Replace, Days!Server
  <1>8. FlightSound(g, generation, world.at, selected, list.at)
    BY <1>2, <1>4, <1>5 DEF FlightSound, BoardInv
  <1>9. \A h, i \in flights' : h.token = i.token => h = i
    BY <1>4, <1>7 DEF BoardInv
  <1>10. \A h \in flights' : FlightSound(h, generation, world.at, selected, list.at)
    BY <1>7, <1>8 DEF BoardInv
  <1> QED
    BY <1>7, <1>9, <1>10 DEF BoardInv

LEMMA DeletedFields ==
    ASSUME BoardInv, NEW f, deleting' = Days!Deleted(f)
    PROVE  /\ deleting' = [run |-> deleting'.run, step |-> deleting'.step, token |-> deleting'.token]
           /\ deleting'.step \in {"request", "served"} <=> deleting.step \in {"request", "served"}
  <1>1. Days!Nobody = [run |-> Days!Nobody.run, step |-> Days!Nobody.step, token |-> Days!Nobody.token]
        /\ Days!Nobody.step = "idle"
    BY DEF Days!Nobody
  <1>2. deleting' = deleting \/ (deleting.step = "refresh" /\ deleting' = Days!Nobody)
    BY DEF Days!Deleted
  <1> QED
    BY <1>1, <1>2 DEF BoardInv

LEMMA AnswersStep ==
    ASSUME BoardInv, NEW f \in flights, Days!Answered(f) \/ Days!Rejected(f)
    PROVE  BoardInv'
  <1>1. /\ flights' = flights \ {f} /\ deleting' = Days!Deleted(f)
        /\ UNCHANGED <<world, selected, generation, creating>>
    BY DEF Days!Answered, Days!Rejected
  <1>2. /\ deleting' = [run |-> deleting'.run, step |-> deleting'.step, token |-> deleting'.token]
        /\ deleting'.step \in {"request", "served"} <=> deleting.step \in {"request", "served"}
    BY <1>1, DeletedFields
  <1>3. FlightSound(f, generation, world.at, selected, list.at)
    BY DEF BoardInv
  <1>4. CASE Days!Answered(f) /\ f.token = generation
    <2>1. /\ f.list # Days!None /\ list' = f.list /\ calendar' = [month |-> f.of.month]
          /\ regressed' = (regressed \/ f.list.at < list.at)
      BY <1>4 DEF Days!Answered, Days!Current
    <2>2. f.of = selected /\ f.list.of = selected /\ list.at <= f.list.at /\ f.list.at \in 0 .. world.at
      BY <1>3, <1>4, <2>1 DEF FlightSound
    <2>3. \A g \in flights' : g \in flights /\ g.token # generation
      BY <1>1, <1>4 DEF BoardInv
    <2>4. \A g \in flights' : FlightSound(g, generation, world.at, selected, list'.at)
      BY <2>3 DEF BoardInv, FlightSound
    <2>5. ~regressed'
      <3>1. ~regressed /\ ~(f.list.at < list.at)
        BY <2>2 DEF BoardInv
      <3> QED
        BY <2>1, <3>1
    <2>6. Settled(generation', loading', error', deleting', creating', list', calendar', selected')
      BY <1>1, <2>1, <2>2 DEF Settled
    <2> QED
      BY <1>1, <1>2, <2>1, <2>2, <2>4, <2>5, <2>6 DEF BoardInv
  <1>5. CASE ~(Days!Answered(f) /\ f.token = generation)
    <2>1. UNCHANGED <<list, calendar, regressed>>
          /\ (UNCHANGED <<error, loading>> \/ error' = TRUE)
      BY <1>5 DEF Days!Answered, Days!Rejected, Days!Current
    <2>2. Settled(generation', loading', error', deleting', creating', list', calendar', selected')
      BY <1>1, <1>2, <2>1 DEF BoardInv, Settled
    <2> QED
      BY <1>1, <1>2, <2>1, <2>2 DEF BoardInv
  <1> QED
    BY <1>4, <1>5

LEMMA BoardStep ==
    ASSUME BoardInv, [Days!Next]_<<boardVars, bothVars>>
    PROVE  BoardInv'
  <1>1. CASE UNCHANGED <<boardVars, bothVars>>
    BY <1>1 DEF boardVars, bothVars, BoardInv
  <1>2. CASE Days!Tick
    BY <1>2, RefreshStep DEF Days!Tick, BoardInv
  <1>3. ASSUME NEW of, Days!Selects(of), list' = list \/ list' = Days!Cleared(selected')
        PROVE  BoardInv'
    <2>1. list'.at = list.at \/ list'.at = 0
      BY <1>3 DEF Days!Cleared
    <2>2. Days!Refresh(selected') /\ UNCHANGED <<world, deleting, regressed>>
      BY <1>3 DEF Days!Selects
    <2> QED
      BY <2>1, <2>2, RefreshStep DEF BoardInv
  <1>4. CASE Days!ShiftMonth \/ (\E day \in 1 .. 2 : Days!SelectDay(day))
             \/ \E filters \in SUBSET {"state"} : Days!SetFilters(filters)
    BY <1>3, <1>4, Zenon DEF Days!ShiftMonth, Days!SelectDay, Days!SetFilters
  <1>5. ASSUME NEW run, Days!Delete(run)
        PROVE  BoardInv'
    <2>1. deleting' = [run |-> deleting'.run, step |-> deleting'.step, token |-> deleting'.token]
          /\ deleting'.step = "request"
      BY <1>5 DEF Days!Delete
    <2> QED
      BY <1>5, <2>1, AsideStep DEF Days!Delete
  <1>6. CASE Days!Create \/ Days!CreateFails
    BY <1>6, AsideStep DEF Days!Create, Days!CreateFails, BoardInv
  <1>7. CASE Days!DeleteFails
    <2>1. deleting' = [run |-> deleting'.run, step |-> deleting'.step, token |-> deleting'.token]
      BY <1>7 DEF Days!DeleteFails, Days!Nobody
    <2> QED
      BY <1>7, <2>1, AsideStep DEF Days!DeleteFails
  <1>8. CASE Days!DeleteAnswered
    <2>1. deleting' = [run |-> deleting'.run, step |-> deleting'.step, token |-> deleting'.token]
      <3>1. PICK r, s, k : deleting = [run |-> r, step |-> s, token |-> k]
        BY DEF BoardInv
      <3>2. PICK n : n = generation + 1
        OBVIOUS
      <3>3. deleting' = [run |-> r, step |-> "refresh", token |-> n]
        BY <1>8, <3>1, <3>2 DEF Days!DeleteAnswered
      <3> QED
        BY <3>3
    <2> QED
      BY <1>8, <2>1, RefreshStep DEF Days!DeleteAnswered
  <1>9. CASE Days!ServeDelete
    <2>1. deleting' = [run |-> deleting'.run, step |-> deleting'.step, token |-> deleting'.token]
          /\ deleting'.step = "served"
      <3>1. PICK r, s, k : deleting = [run |-> r, step |-> s, token |-> k]
        BY DEF BoardInv
      <3>2. deleting' = [run |-> r, step |-> "served", token |-> k]
        BY <1>9, <3>1 DEF Days!ServeDelete
      <3> QED
        BY <3>2
    <2>2. world'.at = world.at + 1 /\ world.at \in Nat
      BY <1>9 DEF Days!ServeDelete, BoardInv
    <2>3. UNCHANGED <<selected, generation, flights, list, calendar, loading, error, creating, regressed>>
      BY <1>9 DEF Days!ServeDelete, Days!Server
    <2>4. \A f \in flights : FlightSound(f, generation, world'.at, selected, list.at)
      BY <2>2 DEF BoardInv, FlightSound
    <2>5. Settled(generation, loading, error, deleting', creating, list, calendar, selected)
      BY <2>1 DEF Settled
    <2> QED
      BY <2>1, <2>2, <2>3, <2>4, <2>5 DEF BoardInv
  <1> QED
    BY <1>1, <1>2, <1>4, <1>5, <1>6, <1>7, <1>8, <1>9, ServeListStep, AnswersStep
       DEF Days!Next, Days!User

LEMMA BoardIsSound ==
    ASSUME BoardInv
    PROVE  Days!BoardSound
  BY DEF BoardInv, Settled, Days!BoardSound, Days!SelectionShown, Days!NeverRegresses, Days!Nobody

-----------------------------------------------------------------------------
(* Panels: the drawer.                                                       *)

Rows == [at : Nat, on : BOOLEAN, there : BOOLEAN]
Orders == [id : Nat, kind : {"set", "guarded", "remove"}, on : BOOLEAN, step : {"sent", "served"}]

PanelInv ==
    /\ row \in Rows /\ shown \in Rows /\ shown.at <= row.at
    /\ commands \subseteq Orders /\ given \in Nat
    /\ reads \in [Fresh!Slots -> [step : {"idle", "sent", "served"}, row : Rows]]
    /\ \A s \in Fresh!Slots : reads[s].step = "served" => reads[s].row.at <= row.at
    /\ panel = "activity" =>
         /\ \A s, u \in Fresh!Slots :
              reads[s].step # "idle" /\ reads[u].step # "idle" => s = u
         /\ \A s \in Fresh!Slots : reads[s].step = "served" => shown.at <= reads[s].row.at
         /\ ~regressed

LEMMA PanelStart ==
    ASSUME Fresh!Init
    PROVE  PanelInv
  BY DEF Fresh!Init, PanelInv, Fresh!None, Fresh!Idle, Rows

LEMMA BegunStep ==
    ASSUME PanelInv, NEW s \in Fresh!Slots, Fresh!Begun(s), UNCHANGED <<panel, row, shown, given, regressed>>,
           commands' \subseteq commands
    PROVE  PanelInv'
  <1>1. PICK r : r = [step |-> "sent", row |-> Fresh!None]
    OBVIOUS
  <1>2. r \in [step : {"idle", "sent", "served"}, row : Rows] /\ r.step = "sent"
    BY <1>1 DEF Fresh!None, Rows
  <1>3. reads' = [reads EXCEPT ![s] = r] /\ (panel = "activity" => \A u \in Fresh!Slots : reads[u].step = "idle")
    BY <1>1 DEF Fresh!Begun, Fresh!Dropped, Fresh!Reading
  <1>4. \A u \in Fresh!Slots : reads'[u] = IF u = s THEN r ELSE reads[u]
    BY <1>3 DEF PanelInv
  <1>5. reads' \in [Fresh!Slots -> [step : {"idle", "sent", "served"}, row : Rows]]
    BY <1>2, <1>3 DEF PanelInv
  <1> QED
    BY <1>2, <1>3, <1>4, <1>5 DEF PanelInv

LEMMA IdleAgain ==
    ASSUME PanelInv, NEW s \in Fresh!Slots, reads' = [reads EXCEPT ![s] = Fresh!Idle]
    PROVE  /\ reads' \in [Fresh!Slots -> [step : {"idle", "sent", "served"}, row : Rows]]
           /\ \A u \in Fresh!Slots : /\ u # s => reads'[u] = reads[u]
                                     /\ u = s => reads'[u].step = "idle"
  <1>1. PICK r : r = Fresh!Idle
    OBVIOUS
  <1>2. r \in [step : {"idle", "sent", "served"}, row : Rows] /\ r.step = "idle"
    BY <1>1 DEF Fresh!Idle, Fresh!None, Rows
  <1>3. \A u \in Fresh!Slots : reads'[u] = IF u = s THEN r ELSE reads[u]
    BY <1>1 DEF PanelInv
  <1> QED
    BY <1>1, <1>2, <1>3 DEF PanelInv

LEMMA ReadSteps ==
    ASSUME PanelInv, NEW s \in Fresh!Slots,
           Fresh!Tick(s) \/ Fresh!Read(s) \/ Fresh!ReadFails(s)
    PROVE  PanelInv'
  <1>1. CASE Fresh!Tick(s)
    BY <1>1, BegunStep DEF Fresh!Tick
  <1>2. CASE Fresh!ServeRead(s)
    <2>1. PICK r : r = [step |-> "served", row |-> row]
      OBVIOUS
    <2>2. /\ r \in [step : {"idle", "sent", "served"}, row : Rows]
          /\ r.step = "served" /\ r.row = row
      BY <2>1 DEF PanelInv
    <2>3. /\ reads' = [reads EXCEPT ![s] = r] /\ reads[s].step = "sent"
          /\ UNCHANGED <<panel, row, shown, commands, given, regressed>>
      BY <1>2, <2>1 DEF Fresh!ServeRead
    <2>4. \A u \in Fresh!Slots : reads'[u] = IF u = s THEN r ELSE reads[u]
      BY <2>3 DEF PanelInv
    <2>5. reads' \in [Fresh!Slots -> [step : {"idle", "sent", "served"}, row : Rows]]
      BY <2>2, <2>3 DEF PanelInv
    <2>6. row.at \in Nat
      BY DEF PanelInv, Rows
    <2> QED
      BY <2>2, <2>3, <2>4, <2>5, <2>6 DEF PanelInv
  <1>3. CASE Fresh!Arrives(s)
    <2>1. /\ reads' = [reads EXCEPT ![s] = Fresh!Idle] /\ reads[s].step = "served"
          /\ shown' = reads[s].row /\ regressed' = (regressed \/ reads[s].row.at < shown.at)
          /\ UNCHANGED <<panel, row, commands, given>>
      BY <1>3 DEF Fresh!Arrives
    <2>2. /\ reads' \in [Fresh!Slots -> [step : {"idle", "sent", "served"}, row : Rows]]
          /\ \A u \in Fresh!Slots : /\ u # s => reads'[u] = reads[u]
                                    /\ u = s => reads'[u].step = "idle"
      BY <2>1, IdleAgain
    <2>3. reads[s].row \in Rows /\ reads[s].row.at \in Nat /\ shown.at \in Nat
          /\ reads[s].row.at <= row.at
      BY <2>1 DEF PanelInv, Rows
    <2>4. panel = "activity" =>
             shown.at <= reads[s].row.at /\ \A u \in Fresh!Slots : u # s => reads[u].step = "idle"
      BY <2>1 DEF PanelInv
    <2>5. panel = "activity" => \A u \in Fresh!Slots : reads'[u].step = "idle"
      BY <2>2, <2>4
    <2>6. panel = "activity" => ~regressed'
      <3>1. panel = "activity" => ~regressed /\ ~(reads[s].row.at < shown.at)
        BY <2>3, <2>4 DEF PanelInv
      <3> QED
        BY <2>1, <3>1
    <2> QED
      BY <2>1, <2>2, <2>3, <2>5, <2>6 DEF PanelInv
  <1>4. CASE Fresh!ReadFails(s)
    <2>1. /\ reads' = [reads EXCEPT ![s] = Fresh!Idle]
          /\ UNCHANGED <<panel, row, shown, commands, given, regressed>>
      BY <1>4 DEF Fresh!ReadFails
    <2>2. /\ reads' \in [Fresh!Slots -> [step : {"idle", "sent", "served"}, row : Rows]]
          /\ \A u \in Fresh!Slots : /\ u # s => reads'[u] = reads[u]
                                    /\ u = s => reads'[u].step = "idle"
      BY <2>1, IdleAgain
    <2> QED
      BY <2>1, <2>2 DEF PanelInv
  <1> QED
    BY <1>1, <1>2, <1>3, <1>4 DEF Fresh!Read

\* The row changes on the server: it is later than every one that was read.
LEMMA RowStep ==
    ASSUME PanelInv, row' \in Rows, row'.at = row.at + 1,
           UNCHANGED <<panel, shown, reads, given, regressed>>, commands' \subseteq Orders
    PROVE  PanelInv'
  <1>1. row.at \in Nat /\ shown.at \in Nat
    BY DEF PanelInv, Rows
  <1>2. \A s \in Fresh!Slots : reads[s].row.at \in Nat
    BY DEF PanelInv, Rows
  <1> QED
    BY <1>1, <1>2 DEF PanelInv

LEMMA PanelStep ==
    ASSUME PanelInv, [Fresh!Next]_<<panelVars, bothVars>>
    PROVE  PanelInv'
  <1>1. CASE UNCHANGED <<panelVars, bothVars>>
    BY <1>1 DEF panelVars, bothVars, PanelInv
  <1>2. CASE Fresh!Pause \/ Fresh!Toggle \/ Fresh!ToggleGuarded \/ Fresh!Remove
    <2>1. PICK kind \in {"set", "guarded", "remove"}, on \in BOOLEAN : Fresh!Give(kind, on)
      <3>1. FALSE \in BOOLEAN /\ (~shown.on) \in BOOLEAN
        BY DEF PanelInv, Rows
      <3> QED
        BY <1>2, <3>1 DEF Fresh!Pause, Fresh!Toggle, Fresh!ToggleGuarded, Fresh!Remove
    <2>2. UNCHANGED <<panel, row, shown, reads, regressed>> /\ given' = given + 1
          /\ commands' = commands \cup {[id |-> given', kind |-> kind, on |-> on, step |-> "sent"]}
      BY <2>1 DEF Fresh!Give
    <2>3. given' \in Nat /\ commands' \subseteq Orders
      BY <2>2 DEF PanelInv, Orders
    <2> QED
      BY <2>2, <2>3 DEF PanelInv
  <1>3. CASE Fresh!Resumed
    <2>1. /\ row' = [row EXCEPT !.at = @ + 1, !.on = TRUE]
          /\ UNCHANGED <<panel, shown, reads, commands, given, regressed>>
      BY <1>3 DEF Fresh!Resumed
    <2>2. row' \in Rows /\ row'.at = row.at + 1
      <3>1. PICK a, o, h : row = [at |-> a, on |-> o, there |-> h] /\ a \in Nat /\ h \in BOOLEAN
        BY DEF PanelInv, Rows
      <3>2. row' = [at |-> a + 1, on |-> TRUE, there |-> h]
        BY <2>1, <3>1
      <3> QED
        BY <3>1, <3>2 DEF Rows
    <2> QED
      BY <2>1, <2>2, RowStep DEF PanelInv
  <1>4. ASSUME NEW c \in commands, Fresh!ServeCommand(c)
        PROVE  PanelInv'
    <2>1. UNCHANGED <<panel, shown, reads, given, regressed>>
          /\ commands' = (commands \ {c}) \cup {[c EXCEPT !.step = "served"]}
      BY <1>4 DEF Fresh!ServeCommand
    <2>2. [c EXCEPT !.step = "served"] \in Orders /\ c.on \in BOOLEAN
      BY DEF PanelInv, Orders
    <2>3. commands' \subseteq Orders
      BY <2>1, <2>2 DEF PanelInv
    <2>4. row' \in Rows /\ row'.at = row.at + 1
      <3>1. PICK a, o, h : row = [at |-> a, on |-> o, there |-> h] /\ a \in Nat /\ h \in BOOLEAN
        BY DEF PanelInv, Rows
      <3>2. \/ row' = [at |-> row.at + 1, on |-> FALSE, there |-> FALSE]
            \/ row' = [row EXCEPT !.at = @ + 1, !.on = c.on]
        BY <1>4, Zenon DEF Fresh!ServeCommand
      <3>3. PICK n : n = a + 1
        OBVIOUS
      <3>7. PICK no, on \in BOOLEAN : no = FALSE /\ on = c.on
        BY <2>2
      <3>4. row' = [at |-> n, on |-> no, there |-> no] \/ row' = [at |-> n, on |-> on, there |-> h]
        BY <3>1, <3>2, <3>3, <3>7
      <3>5. n \in Nat /\ n = row.at + 1
        BY <3>1, <3>3
      <3>6. row'.at = n /\ row' \in Rows
        BY <3>1, <3>4, <3>5 DEF Rows
      <3> QED
        BY <3>5, <3>6
    <2> QED
      BY <2>1, <2>3, <2>4, RowStep
  <1>5. ASSUME NEW c \in commands, Fresh!CommandAnswered(c)
        PROVE  PanelInv'
    <2>1. UNCHANGED <<panel, row, shown, given, regressed>> /\ commands' \subseteq commands
      BY <1>5 DEF Fresh!CommandAnswered
    <2>2. CASE reads' = reads
      BY <2>1, <2>2 DEF PanelInv
    <2>3. ASSUME NEW s \in Fresh!Slots, Fresh!Begun(s)
          PROVE  PanelInv'
      BY <2>1, <2>3, BegunStep
    <2> QED
      BY <1>5, <2>2, <2>3 DEF Fresh!CommandAnswered
  <1>6. ASSUME NEW c \in commands, Fresh!CommandFails(c)
        PROVE  PanelInv'
    <2>1. UNCHANGED <<panel, row, shown, reads, given, regressed>> /\ commands' \subseteq commands
      BY <1>6 DEF Fresh!CommandFails
    <2> QED
      BY <2>1 DEF PanelInv
  <1> QED
    BY <1>1, <1>2, <1>3, <1>4, <1>5, <1>6, ReadSteps DEF Fresh!Next, Fresh!Obeyed

-----------------------------------------------------------------------------
(* One component runs per behaviour.                                         *)

PagesInv ==
    /\ which = "feed" => FeedInv
    /\ which = "task page" => PageInv
    /\ which = "board" => BoardInv
    /\ which = "panels" => PanelInv

LEMMA PagesStart ==
    ASSUME Init
    PROVE  PagesInv
  <1>1. which = "feed" => Feed!Init
    BY DEF Init
  <1>2. which = "task page" => Shows!Init
    BY DEF Init
  <1>3. which = "board" => Days!Init
    BY DEF Init
  <1>4. which = "panels" => Fresh!Init
    BY DEF Init
  <1> QED
    BY <1>1, <1>2, <1>3, <1>4, FeedStarts, PageStart, BoardStart, PanelStart DEF PagesInv

LEMMA PagesStep ==
    ASSUME PagesInv, [Next]_vars
    PROVE  PagesInv'
  <1>1. which' = which
    BY DEF Next, vars, OnlyFeed, OnlyShows, OnlyDays, OnlyFresh
  <1>2. ASSUME which = "feed"
        PROVE  FeedInv'
    <2>1. [Feed!Next]_feedVars
      BY <1>2 DEF Next, vars, OnlyFeed, OnlyShows, OnlyDays, OnlyFresh
    <2> QED
      BY <1>2, <2>1, FeedStep DEF PagesInv
  <1>3. ASSUME which = "task page"
        PROVE  PageInv'
    <2>1. [Shows!Next]_taskVars
      BY <1>3 DEF Next, vars, OnlyFeed, OnlyShows, OnlyDays, OnlyFresh
    <2> QED
      BY <1>3, <2>1, PageStep DEF PagesInv
  <1>4. ASSUME which = "board"
        PROVE  BoardInv'
    <2>1. [Days!Next]_<<boardVars, bothVars>>
      BY <1>4 DEF Next, vars, OnlyFeed, OnlyShows, OnlyDays, OnlyFresh
    <2> QED
      BY <1>4, <2>1, BoardStep DEF PagesInv
  <1>5. ASSUME which = "panels"
        PROVE  PanelInv'
    <2>1. [Fresh!Next]_<<panelVars, bothVars>>
      BY <1>5 DEF Next, vars, OnlyFeed, OnlyShows, OnlyDays, OnlyFresh
    <2> QED
      BY <1>5, <2>1, PanelStep DEF PagesInv
  <1> QED
    BY <1>1, <1>2, <1>3, <1>4, <1>5 DEF PagesInv

\* Whatever answers overtake each other, fail or come late, the page of a task
\* shows its log from the start, keeps what the user chose and goes back by a
\* control only; the board shows the runs of the day that is selected and
\* nothing older than before; the drawer of the active tasks does not go back
\* (frontend/src/views/TaskView.vue, DashboardView.vue, components/ActivityPanel.vue).
THEOREM PagesAreShown == Spec => []PagesShown
  <1>1. Init => PagesInv
    BY PagesStart
  <1>2. PagesInv /\ [Next]_vars => PagesInv'
    BY PagesStep
  <1>3. PagesInv => PagesShown
    <2> SUFFICES ASSUME PagesInv
                 PROVE  PagesShown
      OBVIOUS
    <2>1. which = "task page" => Shows!ShownSound
      BY PageIsSound DEF PagesInv
    <2>2. which = "board" => Days!BoardSound
      BY BoardIsSound DEF PagesInv
    <2>3. which = "panels" => Fresh!DrawerNeverRegresses
      BY DEF PagesInv, PanelInv, Fresh!DrawerNeverRegresses
    <2> QED
      BY <2>1, <2>2, <2>3 DEF PagesShown
  <1> QED
    BY <1>1, <1>2, <1>3, PTL DEF Spec

\* The page passes over no line of the file, and each tool call and result is
\* told once, whichever threads emit, whatever write fails or is caught half
\* done, and however the agent's messages are sent again (progress.py, audit.py,
\* observer.py, TaskView.vue).
THEOREM FeedIsWhole == Spec => []FeedSound
  <1>1. Init => PagesInv
    BY PagesStart
  <1>2. PagesInv /\ [Next]_vars => PagesInv'
    BY PagesStep
  <1>3. PagesInv => FeedSound
    BY FeedIsSound DEF PagesInv, FeedSound
  <1> QED
    BY <1>1, <1>2, <1>3, PTL DEF Spec
=============================================================================
