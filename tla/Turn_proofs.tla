----------------------------- MODULE Turn_proofs -----------------------------
(***************************************************************************)
(* Machine-checked safety of the model proxy within one turn, for every    *)
(* number of requests, every budget and every number of failed writes.     *)
(***************************************************************************)
EXTENDS Turn, FiniteSetTheorems, SequenceTheorems, TLAPS

-----------------------------------------------------------------------------
(* The invariant: where a handler is determines what it has done.          *)

\* The steps of a handler that holds a record of the admission.
Recorded == {"save", "hook", "connect", "forward", "respond", "stream", "commit"}

\* The steps at which a request has been sent, or will not be any more.
Past == {"respond", "stream", "commit", "answer", "final", "done"}

\* What the step of handler h says of its record.
Fits(h) ==
    /\ handler[h].step # "idle" => handler[h].body \in Requests
    /\ handler[h].step \in {"idle", "admit"} => h \notin ToSet(admitted)
    /\ handler[h].step \in Recorded => h \in ToSet(admitted)
    /\ handler[h].step \in {"hook", "connect", "forward"} => handler[h].file
    /\ handler[h].forwarded => handler[h].file
    /\ handler[h].heard => handler[h].step \in {"final", "done"}
    /\ handler[h].step = "answer" /\ h \in ToSet(admitted) => handler[h].meta
    /\ handler[h].heard /\ h \in ToSet(admitted) => handler[h].meta
    /\ handler[h].blocked = "budget" => limit # "none"

HandlerInv == \A h \in Handlers : Fits(h)

\* The history agrees with where the handlers are, and the budget was taken
\* at admission.
ServedInv ==
    /\ served \subseteq ToSet(admitted)
    /\ \A h \in served : handler[h].step \in Past
    /\ \A h \in silenced : h \notin served /\ handler[h].step \in Past
    /\ Len(admitted) <= max

\* A turn has a result only after its process is over.
ResultInv ==
    /\ turn # None => process.state = "over" /\ worker \notin {"setup", "wait"}
    /\ (turn # None /\ \E h \in Handlers : handler[h].blocked = "budget" /\ handler[h].heard)
         => turn.limit # "none"
    /\ DraftIsAssistants

ProxyInv == TypeOK /\ HandlerInv /\ ServedInv /\ ResultInv

\* The end of a sequence: what it holds, and how long it is.
LEMMA AdmittedGrows ==
    ASSUME admitted \in Seq(Handlers), NEW h \in Handlers
    PROVE  /\ Append(admitted, h) \in Seq(Handlers)
           /\ ToSet(Append(admitted, h)) = ToSet(admitted) \cup {h}
           /\ Len(Append(admitted, h)) = Len(admitted) + 1 /\ Len(admitted) \in Nat
    <1>1. /\ Len(admitted) \in Nat /\ DOMAIN admitted = 1 .. Len(admitted)
          /\ Append(admitted, h) \in Seq(Handlers)
          /\ Len(Append(admitted, h)) = Len(admitted) + 1
          /\ DOMAIN Append(admitted, h) = 1 .. Len(admitted) + 1
          /\ \A i \in 1 .. Len(admitted) : Append(admitted, h)[i] = admitted[i]
          /\ Append(admitted, h)[Len(admitted) + 1] = h
        OBVIOUS
    <1>2. \A i \in Int : i \in 1 .. Len(admitted) + 1
                           <=> i \in 1 .. Len(admitted) \/ i = Len(admitted) + 1
        BY <1>1
    <1>3. ToSet(Append(admitted, h)) = ToSet(admitted) \cup {h}
        BY <1>1, <1>2 DEF ToSet
    <1> QED
        BY <1>1, <1>3

-----------------------------------------------------------------------------
(* What the updates of one handler do to its record.                       *)

Rec(s, body, forwarded, blocked, file, meta, heard) ==
    [step |-> s, body |-> body, forwarded |-> forwarded, blocked |-> blocked,
     file |-> file, meta |-> meta, heard |-> heard]

\* Only the handler of h changes, and it becomes r.
Becomes(h, r) == handler' = [handler EXCEPT ![h] = r]

LEMMA Updates ==
    ASSUME TypeOK, NEW h \in Handlers, NEW s, NEW v, NEW r, r = handler[h]
    PROVE  /\ Moves(h, s) => Becomes(h, Rec(s, r.body, r.forwarded, r.blocked, r.file, r.meta, r.heard))
           /\ handler' = [handler EXCEPT ![h].step = s, ![h].body = v]
                => Becomes(h, Rec(s, v, r.forwarded, r.blocked, r.file, r.meta, r.heard))
           /\ handler' = [handler EXCEPT ![h].step = s, ![h].forwarded = v]
                => Becomes(h, Rec(s, r.body, v, r.blocked, r.file, r.meta, r.heard))
           /\ handler' = [handler EXCEPT ![h].step = s, ![h].blocked = v]
                => Becomes(h, Rec(s, r.body, r.forwarded, v, r.file, r.meta, r.heard))
           /\ handler' = [handler EXCEPT ![h].step = s, ![h].file = v]
                => Becomes(h, Rec(s, r.body, r.forwarded, r.blocked, v, r.meta, r.heard))
           /\ handler' = [handler EXCEPT ![h].step = s, ![h].meta = v]
                => Becomes(h, Rec(s, r.body, r.forwarded, r.blocked, r.file, v, r.heard))
           /\ handler' = [handler EXCEPT ![h].step = s, ![h].heard = v]
                => Becomes(h, Rec(s, r.body, r.forwarded, r.blocked, r.file, r.meta, v))
    <1>1. r \in HandlerState
        BY DEF TypeOK
    <1>2. [r EXCEPT !.step = s] = Rec(s, r.body, r.forwarded, r.blocked, r.file, r.meta, r.heard)
        BY <1>1 DEF HandlerState, Rec
    <1>3. [handler EXCEPT ![h].step = s, ![h].body = v] = [handler EXCEPT ![h] = Rec(s, v, r.forwarded, r.blocked, r.file, r.meta, r.heard)]
        <2>1. [handler EXCEPT ![h].step = s, ![h].body = v]
                = [handler EXCEPT ![h] = [r EXCEPT !.step = s, !.body = v]]
            BY DEF TypeOK
        <2>2. [Rec(s, r.body, r.forwarded, r.blocked, r.file, r.meta, r.heard) EXCEPT !.body = v]
                = Rec(s, v, r.forwarded, r.blocked, r.file, r.meta, r.heard)
            BY DEF Rec
        <2>3. [r EXCEPT !.step = s, !.body = v] = [[r EXCEPT !.step = s] EXCEPT !.body = v]
            OBVIOUS
        <2> QED
            BY <1>2, <2>1, <2>2, <2>3
    <1>4. [handler EXCEPT ![h].step = s, ![h].forwarded = v] = [handler EXCEPT ![h] = Rec(s, r.body, v, r.blocked, r.file, r.meta, r.heard)]
        <2>1. [handler EXCEPT ![h].step = s, ![h].forwarded = v]
                = [handler EXCEPT ![h] = [r EXCEPT !.step = s, !.forwarded = v]]
            BY DEF TypeOK
        <2>2. [Rec(s, r.body, r.forwarded, r.blocked, r.file, r.meta, r.heard) EXCEPT !.forwarded = v]
                = Rec(s, r.body, v, r.blocked, r.file, r.meta, r.heard)
            BY DEF Rec
        <2>3. [r EXCEPT !.step = s, !.forwarded = v] = [[r EXCEPT !.step = s] EXCEPT !.forwarded = v]
            OBVIOUS
        <2> QED
            BY <1>2, <2>1, <2>2, <2>3
    <1>5. [handler EXCEPT ![h].step = s, ![h].blocked = v] = [handler EXCEPT ![h] = Rec(s, r.body, r.forwarded, v, r.file, r.meta, r.heard)]
        <2>1. [handler EXCEPT ![h].step = s, ![h].blocked = v]
                = [handler EXCEPT ![h] = [r EXCEPT !.step = s, !.blocked = v]]
            BY DEF TypeOK
        <2>2. [Rec(s, r.body, r.forwarded, r.blocked, r.file, r.meta, r.heard) EXCEPT !.blocked = v]
                = Rec(s, r.body, r.forwarded, v, r.file, r.meta, r.heard)
            BY DEF Rec
        <2>3. [r EXCEPT !.step = s, !.blocked = v] = [[r EXCEPT !.step = s] EXCEPT !.blocked = v]
            OBVIOUS
        <2> QED
            BY <1>2, <2>1, <2>2, <2>3
    <1>6. [handler EXCEPT ![h].step = s, ![h].file = v] = [handler EXCEPT ![h] = Rec(s, r.body, r.forwarded, r.blocked, v, r.meta, r.heard)]
        <2>1. [handler EXCEPT ![h].step = s, ![h].file = v]
                = [handler EXCEPT ![h] = [r EXCEPT !.step = s, !.file = v]]
            BY DEF TypeOK
        <2>2. [Rec(s, r.body, r.forwarded, r.blocked, r.file, r.meta, r.heard) EXCEPT !.file = v]
                = Rec(s, r.body, r.forwarded, r.blocked, v, r.meta, r.heard)
            BY DEF Rec
        <2>3. [r EXCEPT !.step = s, !.file = v] = [[r EXCEPT !.step = s] EXCEPT !.file = v]
            OBVIOUS
        <2> QED
            BY <1>2, <2>1, <2>2, <2>3
    <1>7. [handler EXCEPT ![h].step = s, ![h].meta = v] = [handler EXCEPT ![h] = Rec(s, r.body, r.forwarded, r.blocked, r.file, v, r.heard)]
        <2>1. [handler EXCEPT ![h].step = s, ![h].meta = v]
                = [handler EXCEPT ![h] = [r EXCEPT !.step = s, !.meta = v]]
            BY DEF TypeOK
        <2>2. [Rec(s, r.body, r.forwarded, r.blocked, r.file, r.meta, r.heard) EXCEPT !.meta = v]
                = Rec(s, r.body, r.forwarded, r.blocked, r.file, v, r.heard)
            BY DEF Rec
        <2>3. [r EXCEPT !.step = s, !.meta = v] = [[r EXCEPT !.step = s] EXCEPT !.meta = v]
            OBVIOUS
        <2> QED
            BY <1>2, <2>1, <2>2, <2>3
    <1>8. [handler EXCEPT ![h].step = s, ![h].heard = v] = [handler EXCEPT ![h] = Rec(s, r.body, r.forwarded, r.blocked, r.file, r.meta, v)]
        <2>1. [handler EXCEPT ![h].step = s, ![h].heard = v]
                = [handler EXCEPT ![h] = [r EXCEPT !.step = s, !.heard = v]]
            BY DEF TypeOK
        <2>2. [Rec(s, r.body, r.forwarded, r.blocked, r.file, r.meta, r.heard) EXCEPT !.heard = v]
                = Rec(s, r.body, r.forwarded, r.blocked, r.file, r.meta, v)
            BY DEF Rec
        <2>3. [r EXCEPT !.step = s, !.heard = v] = [[r EXCEPT !.step = s] EXCEPT !.heard = v]
            OBVIOUS
        <2> QED
            BY <1>2, <2>1, <2>2, <2>3
    <1>9. [handler EXCEPT ![h].step = s] = [handler EXCEPT ![h] = [r EXCEPT !.step = s]]
        BY DEF TypeOK
    <1> QED
        BY <1>2, <1>3, <1>4, <1>5, <1>6, <1>7, <1>8, <1>9 DEF Moves, Becomes

\* The same for the updates as the actions name them.
LEMMA NamedUpdates ==
    ASSUME TypeOK, NEW h \in Handlers, NEW r, r = handler[h]
    PROVE  /\ \A s : Moves(h, s)
                => Becomes(h, Rec(s, r.body, r.forwarded, r.blocked, r.file, r.meta, r.heard))
           /\ \A why : Blocks(h, why)
                => Becomes(h, Rec("commit", r.body, r.forwarded, why, r.file, r.meta, r.heard))
           /\ \A why : Refused(h, why)
                => Becomes(h, Rec("answer", r.body, r.forwarded, why, r.file, r.meta, r.heard))
           /\ Breaks(h)
                => Becomes(h, Rec("final", r.body, r.forwarded, "proxy_error", r.file, r.meta, r.heard))
           /\ Arrive(h)
                => \E body \in Requests :
                     Becomes(h, Rec("admit", body, r.forwarded, r.blocked, r.file, r.meta, r.heard))
           /\ SaveBody(h)
                => Becomes(h, Rec("hook", r.body, r.forwarded, r.blocked, TRUE, r.meta, r.heard))
           /\ Forward(h)
                => Becomes(h, Rec("respond", r.body, TRUE, r.blocked, r.file, r.meta, r.heard))
           /\ Commit(h)
                => Becomes(h, Rec("answer", r.body, r.forwarded, r.blocked, r.file, TRUE, r.heard))
           /\ Answer(h)
                => Becomes(h, Rec("final", r.body, r.forwarded, r.blocked, r.file, r.meta,
                                  process.state = "alive"))
           /\ Finally(h)
                => Becomes(h, Rec("done", r.body, r.forwarded, r.blocked, r.file,
                                  h \in ToSet(admitted), r.heard))
    <1>1. \A s : Moves(h, s)
                => Becomes(h, Rec(s, r.body, r.forwarded, r.blocked, r.file, r.meta, r.heard))
        BY Updates
    <1>2. \A why : Blocks(h, why)
                => Becomes(h, Rec("commit", r.body, r.forwarded, why, r.file, r.meta, r.heard))
        BY Updates DEF Blocks
    <1>3. \A why : Refused(h, why)
                => Becomes(h, Rec("answer", r.body, r.forwarded, why, r.file, r.meta, r.heard))
        BY Updates DEF Refused
    <1>4. Breaks(h)
                => Becomes(h, Rec("final", r.body, r.forwarded, "proxy_error", r.file, r.meta, r.heard))
        BY Updates DEF Breaks
    <1>5. ASSUME Arrive(h)
          PROVE  \E body \in Requests :
                     Becomes(h, Rec("admit", body, r.forwarded, r.blocked, r.file, r.meta, r.heard))
        <2>1. PICK body \in Requests :
                handler' = [handler EXCEPT ![h].step = "admit", ![h].body = body]
            BY <1>5 DEF Arrive
        <2> QED
            BY <2>1, Updates
    <1>6. SaveBody(h)
                => Becomes(h, Rec("hook", r.body, r.forwarded, r.blocked, TRUE, r.meta, r.heard))
        BY Updates DEF SaveBody
    <1>7. Forward(h)
                => Becomes(h, Rec("respond", r.body, TRUE, r.blocked, r.file, r.meta, r.heard))
        BY Updates DEF Forward
    <1>8. Commit(h)
                => Becomes(h, Rec("answer", r.body, r.forwarded, r.blocked, r.file, TRUE, r.heard))
        BY Updates DEF Commit
    <1>9. ASSUME Answer(h)
          PROVE  Becomes(h, Rec("final", r.body, r.forwarded, r.blocked, r.file, r.meta,
                                  process.state = "alive"))
        <2>1. handler' = [handler EXCEPT ![h].step = "final", ![h].heard = (process.state = "alive")]
            BY <1>9 DEF Answer
        <2> QED
            BY <2>1, Updates
    <1>10. ASSUME Finally(h)
           PROVE  Becomes(h, Rec("done", r.body, r.forwarded, r.blocked, r.file,
                                  h \in ToSet(admitted), r.heard))
        <2>1. handler' = [handler EXCEPT ![h].step = "done", ![h].meta = h \in ToSet(admitted)]
            BY <1>10 DEF Finally
        <2> QED
            BY <2>1, Updates
    <1> QED
        BY <1>1, <1>2, <1>3, <1>4, <1>5, <1>6, <1>7, <1>8, <1>9, <1>10

Steps == {"idle", "admit", "save", "hook", "connect", "forward", "respond",
          "stream", "commit", "answer", "final", "done"}
Reasons == {"no", "request", "budget", "policy", "safe_stop", "local_terminal", "proxy_error"}

\* Every update leaves a typed record; a request is one that OpenClaw may send.
LEMMA UpdatesTyped ==
    ASSUME TypeOK, NEW h \in Handlers
    PROVE  LET typed == handler' \in [Handlers -> HandlerState] IN
           /\ \A s \in Steps : Moves(h, s) => typed
           /\ \A why \in Reasons : (Blocks(h, why) => typed) /\ (Refused(h, why) => typed)
           /\ Breaks(h) => typed
           /\ Arrive(h) => typed
           /\ SaveBody(h) \/ Forward(h) \/ Commit(h) => typed
           /\ Answer(h) \/ Finally(h) => typed
    <1> DEFINE typed == handler' \in [Handlers -> HandlerState]
    <1>1. PICK r : r = handler[h]
        OBVIOUS
    <1>2. /\ r.body \in Requests \cup {None} /\ r.forwarded \in BOOLEAN
          /\ r.blocked \in Reasons /\ r.file \in BOOLEAN
          /\ r.meta \in BOOLEAN /\ r.heard \in BOOLEAN
        BY <1>1 DEF TypeOK, HandlerState, Reasons
    <1>3. ASSUME NEW s \in Steps, NEW body \in Requests \cup {None}, NEW forwarded \in BOOLEAN,
                 NEW blocked \in Reasons, NEW file \in BOOLEAN, NEW meta \in BOOLEAN,
                 NEW heard \in BOOLEAN,
                 Becomes(h, Rec(s, body, forwarded, blocked, file, meta, heard))
          PROVE  typed
        <2>1. Rec(s, body, forwarded, blocked, file, meta, heard) \in HandlerState
            BY DEF Rec, HandlerState, Steps, Reasons
        <2> QED
            BY <1>3, <2>1 DEF TypeOK, Becomes
    <1> HIDE DEF typed
    <1>4. ASSUME NEW s \in Steps, Moves(h, s) PROVE typed
        <2>1. Becomes(h, Rec(s, r.body, r.forwarded, r.blocked, r.file, r.meta, r.heard))
            BY <1>1, <1>4, NamedUpdates
        <2> QED
            BY <1>2, <1>3, <2>1
    <1>5. ASSUME NEW why \in Reasons, Blocks(h, why) PROVE typed
        <2>1. Becomes(h, Rec("commit", r.body, r.forwarded, why, r.file, r.meta, r.heard))
            BY <1>1, <1>5, NamedUpdates
        <2>2. "commit" \in Steps
            BY DEF Steps, Reasons
        <2> QED
            BY <1>2, <1>3, <2>1, <2>2
    <1>6. ASSUME NEW why \in Reasons, Refused(h, why) PROVE typed
        <2>1. Becomes(h, Rec("answer", r.body, r.forwarded, why, r.file, r.meta, r.heard))
            BY <1>1, <1>6, NamedUpdates
        <2>2. "answer" \in Steps
            BY DEF Steps, Reasons
        <2> QED
            BY <1>2, <1>3, <2>1, <2>2
    <1>7. ASSUME Breaks(h) PROVE typed
        <2>1. Becomes(h, Rec("final", r.body, r.forwarded, "proxy_error", r.file, r.meta, r.heard))
            BY <1>1, <1>7, NamedUpdates
        <2>2. "final" \in Steps /\ "proxy_error" \in Reasons
            BY DEF Steps, Reasons
        <2> QED
            BY <1>2, <1>3, <2>1, <2>2
    <1>8. ASSUME Arrive(h) PROVE typed
        <2>1. PICK body \in Requests :
                 Becomes(h, Rec("admit", body, r.forwarded, r.blocked, r.file, r.meta, r.heard))
            BY <1>1, <1>8, NamedUpdates
        <2>2. "admit" \in Steps
            BY DEF Steps
        <2> QED
            BY <1>2, <1>3, <2>1, <2>2
    <1>9. ASSUME SaveBody(h) PROVE typed
        <2>1. Becomes(h, Rec("hook", r.body, r.forwarded, r.blocked, TRUE, r.meta, r.heard))
            BY <1>1, <1>9, NamedUpdates
        <2>2. "hook" \in Steps /\ TRUE \in BOOLEAN
            BY DEF Steps, Reasons
        <2> QED
            BY <1>2, <1>3, <2>1, <2>2
    <1>10. ASSUME Forward(h) PROVE typed
        <2>1. Becomes(h, Rec("respond", r.body, TRUE, r.blocked, r.file, r.meta, r.heard))
            BY <1>1, <1>10, NamedUpdates
        <2>2. "respond" \in Steps /\ TRUE \in BOOLEAN
            BY DEF Steps, Reasons
        <2> QED
            BY <1>2, <1>3, <2>1, <2>2
    <1>11. ASSUME Commit(h) PROVE typed
        <2>1. Becomes(h, Rec("answer", r.body, r.forwarded, r.blocked, r.file, TRUE, r.heard))
            BY <1>1, <1>11, NamedUpdates
        <2>2. "answer" \in Steps /\ TRUE \in BOOLEAN
            BY DEF Steps, Reasons
        <2> QED
            BY <1>2, <1>3, <2>1, <2>2
    <1>12. ASSUME Answer(h) PROVE typed
        <2>1. Becomes(h, Rec("final", r.body, r.forwarded, r.blocked, r.file, r.meta, process.state = "alive"))
            BY <1>1, <1>12, NamedUpdates
        <2>2. "final" \in Steps /\ (process.state = "alive") \in BOOLEAN
            BY DEF Steps, Reasons
        <2> QED
            BY <1>2, <1>3, <2>1, <2>2
    <1>13. ASSUME Finally(h) PROVE typed
        <2>1. Becomes(h, Rec("done", r.body, r.forwarded, r.blocked, r.file, h \in ToSet(admitted), r.heard))
            BY <1>1, <1>13, NamedUpdates
        <2>2. "done" \in Steps /\ (h \in ToSet(admitted)) \in BOOLEAN
            BY DEF Steps, Reasons
        <2> QED
            BY <1>2, <1>3, <2>1, <2>2
    <1> QED
        BY <1>4, <1>5, <1>6, <1>7, <1>8, <1>9, <1>10, <1>11, <1>12, <1>13 DEF typed

LEMMA TypeStep == TypeOK /\ HandlerInv /\ [Next]_vars => TypeOK'
    <1> SUFFICES ASSUME TypeOK, HandlerInv, [Next]_vars PROVE TypeOK'
        OBVIOUS
    <1>1. ASSUME Run PROVE TypeOK'
        BY <1>1 DEF TypeOK, Run, Start, Kill, Collect, Cancel, proxyVars, history
    <1>2. ASSUME Exit \/ RequestStop \/ TimePasses, UNCHANGED max PROVE TypeOK'
        BY <1>2 DEF TypeOK, Exit, RequestStop, TimePasses, proxyVars, history
    <1>3. ASSUME NEW h \in Handlers, UNCHANGED max, Admit(h) PROVE TypeOK'
        <2>1. handler' \in [Handlers -> HandlerState]
            BY <1>3, UpdatesTyped DEF Admit, Steps, Reasons
        <2> QED
            BY <1>3, <2>1, AdmittedGrows DEF TypeOK, Admit, history, NoteLimit
    <1>4. ASSUME NEW h \in Handlers, UNCHANGED max, Hook(h) PROVE TypeOK'
        <2>1. handler' \in [Handlers -> HandlerState]
            BY <1>4, UpdatesTyped DEF Hook, Steps, Reasons
        <2>2. handler[h].body \in Requests
            BY <1>4 DEF Hook, At, HandlerInv, Fits
        <2>3. handler[h].body.empty \in BOOLEAN
            BY <2>2, RequestsAssumption
        <2> QED
            BY <1>4, <2>1, <2>3 DEF TypeOK, Hook
    <1>5. ASSUME NEW h \in Handlers, UNCHANGED max,
                 \/ Arrive(h) \/ SaveBody(h) \/ Connect(h) \/ Forward(h)
                 \/ Respond(h) \/ Stream(h) \/ Overdue(h)
          PROVE  TypeOK'
        <2>1. handler' \in [Handlers -> HandlerState]
            BY <1>5, UpdatesTyped DEF Connect, Respond, Stream, Overdue, Steps, Reasons
        <2> QED
            BY <1>5, <2>1 DEF TypeOK, proxyVars, history, NoteLimit, Arrive, SaveBody, Connect,
                              Forward, Respond, Stream, Overdue
    <1>6. ASSUME NEW h \in Handlers, UNCHANGED max,
                 \/ SaveBodyFails(h) \/ Commit(h) \/ CommitFails(h)
                 \/ Answer(h) \/ Finally(h) \/ FinallyFails(h)
          PROVE  TypeOK'
        <2>1. handler' \in [Handlers -> HandlerState]
            BY <1>6, UpdatesTyped DEF SaveBodyFails, CommitFails, FinallyFails, Steps, Reasons
        <2> QED
            BY <1>6, <2>1, BoundsAssumption
            DEF TypeOK, proxyVars, history, SaveBodyFails, Commit, CommitFails, Answer, Finally,
                FinallyFails
    <1>7. ASSUME UNCHANGED vars PROVE TypeOK'
        BY <1>7 DEF TypeOK, vars, proxyVars, history
    <1> QED
        BY <1>1, <1>2, <1>3, <1>4, <1>5, <1>6, <1>7 DEF Next, Around, Clock, Serve, Server, Fail

-----------------------------------------------------------------------------
(* A handler's step and its record.                                        *)

\* What a step may do to a handler: it does not go back to before its request
\* was sent or refused, and only a living process hears an answer.
Onward(h) ==
    /\ handler[h].step \in Past => handler'[h].step \in Past
    /\ handler'[h].heard => \/ process.state = "alive"
                            \/ handler[h].heard /\ handler'[h].blocked = handler[h].blocked

\* A step of one handler leaves the others as they are.
LEMMA OthersFit ==
    ASSUME TypeOK, HandlerInv, NEW h \in Handlers, NEW r, Becomes(h, r),
           \A g \in Handlers \ {h} : g \in ToSet(admitted') <=> g \in ToSet(admitted),
           limit # "none" => limit' # "none"
    PROVE  /\ handler'[h] = r
           /\ Fits(h)' /\ Onward(h) => HandlerInv' /\ \A g \in Handlers : Onward(g)
    <1>1. handler'[h] = r /\ \A g \in Handlers \ {h} : handler'[g] = handler[g]
        BY DEF TypeOK, Becomes
    <1>2. ASSUME NEW g \in Handlers \ {h} PROVE Fits(g)' /\ Onward(g)
        BY <1>1, <1>2 DEF HandlerInv, Fits, Onward
    <1> QED
        BY <1>1, <1>2 DEF HandlerInv

LEMMA HandlerStep ==
    TypeOK /\ HandlerInv /\ [Next]_vars => HandlerInv' /\ \A h \in Handlers : Onward(h)
    <1> DEFINE Goal == HandlerInv' /\ \A h \in Handlers : Onward(h)
    <1> SUFFICES ASSUME TypeOK, HandlerInv, [Next]_vars PROVE Goal
        OBVIOUS
    <1>a. ASSUME UNCHANGED <<handler, admitted, limit>> PROVE Goal
        BY <1>a DEF HandlerInv, Fits, Onward
    <1>1. ASSUME Run \/ Exit \/ RequestStop \/ TimePasses \/ UNCHANGED vars PROVE Goal
        BY <1>1, <1>a DEF Run, Start, Kill, Collect, Cancel, Exit, RequestStop, TimePasses,
                          vars, proxyVars
    <1>2. ASSUME NEW h \in Handlers, UNCHANGED max,
                 Arrive(h) \/ Serve(h) \/ Server(h) \/ Fail(h)
          PROVE  Goal
        <2>1. PICK r : r = handler[h]
            OBVIOUS
        <2>2. Fits(h) /\ admitted \in Seq(Handlers)
            BY DEF HandlerInv, TypeOK
        <2> USE DEF Recorded, Rec
        <2>3. CASE Arrive(h)
            <3>1. PICK body \in Requests :
                    Becomes(h, Rec("admit", body, r.forwarded, r.blocked, r.file, r.meta, r.heard))
                BY <2>1, <2>3, NamedUpdates
            <3>2. admitted' = admitted /\ limit' = limit /\ r.step = "idle"
                BY <2>1, <2>3 DEF Arrive, proxyVars, At
            <3> QED
                BY <2>1, <2>2, <3>1, <3>2, OthersFit DEF Fits, Onward, Past
        <2>4. CASE Admit(h)
            <3>1. r.step = "admit" /\ (limit # "none" => limit' # "none")
                BY <2>1, <2>4 DEF Admit, At, NoteLimit
            <3>2. CASE \E why \in {"request", "budget"} :
                          /\ Refused(h, why) /\ admitted' = admitted
                          /\ why = "budget" => limit' # "none"
                <4>1. PICK why \in {"request", "budget"} :
                          /\ Refused(h, why) /\ admitted' = admitted
                          /\ why = "budget" => limit' # "none"
                    BY <3>2
                <4>2. Becomes(h, Rec("answer", r.body, r.forwarded, why, r.file, r.meta, r.heard))
                    BY <2>1, <4>1, NamedUpdates
                <4> QED
                    BY <2>1, <2>2, <3>1, <4>1, <4>2, OthersFit DEF Fits, Onward, Past
            <3>3. CASE Moves(h, "save") /\ admitted' = Append(admitted, h) /\ limit' = limit
                <4>1. Becomes(h, Rec("save", r.body, r.forwarded, r.blocked, r.file, r.meta, r.heard))
                    BY <2>1, <3>3, NamedUpdates
                <4>2. ToSet(admitted') = ToSet(admitted) \cup {h}
                    BY <2>2, <3>3, AdmittedGrows
                <4> QED
                    BY <2>1, <2>2, <3>1, <3>3, <4>1, <4>2, OthersFit DEF Fits, Onward, Past
            <3> QED
                BY <2>4, <3>2, <3>3 DEF Admit, NoteLimit
        <2>5. CASE SaveBody(h)
            <3>1. Becomes(h, Rec("hook", r.body, r.forwarded, r.blocked, TRUE, r.meta, r.heard))
                BY <2>1, <2>5, NamedUpdates
            <3>2. admitted' = admitted /\ limit' = limit /\ r.step = "save"
                BY <2>1, <2>5 DEF SaveBody, proxyVars, At
            <3> QED
                BY <2>1, <2>2, <3>1, <3>2, OthersFit DEF Fits, Onward, Past
        <2>6. CASE /\ \E why \in Reasons \ {"budget"} : Blocks(h, why)
                   /\ admitted' = admitted /\ (limit # "none" => limit' # "none")
                   /\ r.step \in Recorded
            <3>1. PICK why \in Reasons \ {"budget"} : Blocks(h, why)
                BY <2>6
            <3>2. Becomes(h, Rec("commit", r.body, r.forwarded, why, r.file, r.meta, r.heard))
                BY <2>1, <3>1, NamedUpdates
            <3> QED
                BY <2>1, <2>2, <2>6, <3>1, <3>2, OthersFit DEF Fits, Onward, Past
        <2>7. CASE /\ \E s \in {"connect", "forward", "stream", "final"} :
                        /\ Moves(h, s)
                        /\ s = "connect" => r.step = "hook"
                        /\ s = "forward" => r.step = "connect"
                        /\ r.step \in Recorded
                   /\ admitted' = admitted /\ limit' = limit
            <3>1. PICK s \in {"connect", "forward", "stream", "final"} :
                        /\ Moves(h, s)
                        /\ s = "connect" => r.step = "hook"
                        /\ s = "forward" => r.step = "connect"
                        /\ r.step \in Recorded
                BY <2>7
            <3>2. Becomes(h, Rec(s, r.body, r.forwarded, r.blocked, r.file, r.meta, r.heard))
                BY <2>1, <3>1, NamedUpdates
            <3> QED
                BY <2>1, <2>2, <2>7, <3>1, <3>2, OthersFit DEF Fits, Onward, Past
        <2>8. CASE Moves(h, "done") /\ r.step = "final" /\ admitted' = admitted /\ limit' = limit
            <3>1. Becomes(h, Rec("done", r.body, r.forwarded, r.blocked, r.file, r.meta, r.heard))
                BY <2>1, <2>8, NamedUpdates
            <3> QED
                BY <2>1, <2>2, <2>8, <3>1, OthersFit DEF Fits, Onward, Past
        <2>9. CASE Breaks(h) /\ r.step = "stream" /\ admitted' = admitted
                   /\ (limit # "none" => limit' # "none")
            <3>1. Becomes(h, Rec("final", r.body, r.forwarded, "proxy_error", r.file, r.meta, r.heard))
                BY <2>1, <2>9, NamedUpdates
            <3> QED
                BY <2>1, <2>2, <2>9, <3>1, OthersFit DEF Fits, Onward, Past
        <2>10. CASE Forward(h)
            <3>1. Becomes(h, Rec("respond", r.body, TRUE, r.blocked, r.file, r.meta, r.heard))
                BY <2>1, <2>10, NamedUpdates
            <3>2. admitted' = admitted /\ limit' = limit /\ r.step = "forward"
                BY <2>1, <2>10 DEF Forward, proxyVars, At
            <3> QED
                BY <2>1, <2>2, <3>1, <3>2, OthersFit DEF Fits, Onward, Past
        <2>11. CASE Commit(h)
            <3>1. Becomes(h, Rec("answer", r.body, r.forwarded, r.blocked, r.file, TRUE, r.heard))
                BY <2>1, <2>11, NamedUpdates
            <3>2. admitted' = admitted /\ limit' = limit /\ r.step = "commit"
                BY <2>1, <2>11 DEF Commit, proxyVars, At
            <3> QED
                BY <2>1, <2>2, <3>1, <3>2, OthersFit DEF Fits, Onward, Past
        <2>12. CASE Answer(h)
            <3>1. Becomes(h, Rec("final", r.body, r.forwarded, r.blocked, r.file, r.meta,
                                 process.state = "alive"))
                BY <2>1, <2>12, NamedUpdates
            <3>2. admitted' = admitted /\ limit' = limit /\ r.step = "answer"
                BY <2>1, <2>12 DEF Answer, proxyVars, At
            <3>3. handler'[h] = Rec("final", r.body, r.forwarded, r.blocked, r.file, r.meta,
                                    process.state = "alive")
                  /\ (Fits(h)' /\ Onward(h) => Goal)
                BY <3>1, <3>2, OthersFit
            <3>4. /\ handler'[h].step = "final" /\ handler'[h].body = r.body
                  /\ handler'[h].forwarded = r.forwarded /\ handler'[h].blocked = r.blocked
                  /\ handler'[h].file = r.file /\ handler'[h].meta = r.meta
                BY <3>3
            <3>5. process.state # "alive" => ~handler'[h].heard
                <4> SUFFICES ASSUME process.state # "alive" PROVE ~handler'[h].heard
                    OBVIOUS
                <4>1. (process.state = "alive") = FALSE
                    OBVIOUS
                <4> HIDE DEF Rec
                <4>2. handler'[h] = Rec("final", r.body, r.forwarded, r.blocked, r.file, r.meta,
                                        FALSE)
                    BY <3>3, <4>1, Zenon
                <4> QED
                    BY <4>2 DEF Rec
            <3> QED
                BY <2>1, <2>2, <3>2, <3>3, <3>4, <3>5 DEF Fits, Onward, Past
        <2>13. CASE Finally(h)
            <3>1. Becomes(h, Rec("done", r.body, r.forwarded, r.blocked, r.file,
                                 h \in ToSet(admitted), r.heard))
                BY <2>1, <2>13, NamedUpdates
            <3>2. admitted' = admitted /\ limit' = limit /\ r.step = "final"
                BY <2>1, <2>13 DEF Finally, At
            <3>3. handler'[h] = Rec("done", r.body, r.forwarded, r.blocked, r.file,
                                    h \in ToSet(admitted), r.heard)
                  /\ (Fits(h)' /\ Onward(h) => Goal)
                BY <3>1, <3>2, OthersFit
            <3>4. /\ handler'[h].step = "done" /\ handler'[h].body = r.body
                  /\ handler'[h].forwarded = r.forwarded /\ handler'[h].blocked = r.blocked
                  /\ handler'[h].file = r.file /\ handler'[h].heard = r.heard
                BY <3>3
            <3>5. h \in ToSet(admitted) => handler'[h].meta
                <4> SUFFICES ASSUME h \in ToSet(admitted) PROVE handler'[h].meta
                    OBVIOUS
                <4>1. (h \in ToSet(admitted)) = TRUE
                    OBVIOUS
                <4> HIDE DEF Rec
                <4>2. handler'[h] = Rec("done", r.body, r.forwarded, r.blocked, r.file,
                                        TRUE, r.heard)
                    BY <3>3, <4>1, Zenon
                <4> QED
                    BY <4>2 DEF Rec
            <3> QED
                BY <2>1, <2>2, <3>2, <3>3, <3>4, <3>5 DEF Fits, Onward, Past
        <2>14. CASE Hook(h) \/ Connect(h)
            BY <2>1, <2>6, <2>7, <2>14 DEF Hook, Connect, At, NoteLimit, Reasons
        <2>15. CASE SaveBodyFails(h) \/ CommitFails(h) \/ FinallyFails(h)
            BY <2>1, <2>6, <2>7, <2>8, <2>15
            DEF SaveBodyFails, CommitFails, FinallyFails, At, proxyVars, Reasons
        <2>16. CASE Respond(h) \/ Stream(h) \/ Overdue(h)
            BY <2>1, <2>6, <2>7, <2>9, <2>16
            DEF Respond, Stream, Overdue, At, proxyVars, Reasons, NoteLimit
        <2> QED
            BY <1>2, <2>3, <2>4, <2>5, <2>10, <2>11, <2>12, <2>13, <2>14, <2>15, <2>16
            DEF Serve, Server, Fail
    <1> QED
        BY <1>1, <1>2 DEF Next, Around, Clock, Run, Serve, Server, Fail

-----------------------------------------------------------------------------
(* What reached the model, and the result of the turn.                     *)

LEMMA ServedStep == TypeOK /\ HandlerInv /\ ServedInv /\ [Next]_vars => ServedInv'
    <1> SUFFICES ASSUME TypeOK, HandlerInv, ServedInv, [Next]_vars PROVE ServedInv'
        OBVIOUS
    <1>a. \A h \in Handlers : handler[h].step \in Past => handler'[h].step \in Past
        BY HandlerStep DEF Onward
    <1>b. served \subseteq Handlers /\ silenced \subseteq Handlers /\ admitted \in Seq(Handlers)
        BY DEF TypeOK
    <1>1. ASSUME UNCHANGED <<admitted, served, silenced, max>> PROVE ServedInv'
        BY <1>1, <1>a, <1>b DEF ServedInv
    <1>2. ASSUME NEW h \in Handlers, Admit(h), UNCHANGED max PROVE ServedInv'
        <2>1. CASE admitted' = admitted
            BY <1>1, <1>2, <2>1 DEF Admit, history
        <2>2. CASE admitted' = Append(admitted, h) /\ ~Spent
            <3>1. /\ ToSet(admitted') = ToSet(admitted) \cup {h}
                  /\ Len(admitted') = Len(admitted) + 1 /\ Len(admitted) \in Nat
                BY <1>b, <2>2, AdmittedGrows
            <3>2. max \in Nat
                BY BoundsAssumption DEF TypeOK
            <3>3. Len(admitted') <= max
                BY <2>2, <3>1, <3>2 DEF Spent
            <3> QED
                BY <1>2, <1>a, <1>b, <3>1, <3>3 DEF ServedInv, Admit, history
        <2> QED
            BY <1>2, <2>1, <2>2 DEF Admit
    <1>3. ASSUME NEW h \in Handlers, Hook(h), UNCHANGED max PROVE ServedInv'
        <2>1. CASE silenced' = silenced
            BY <1>1, <1>3, <2>1 DEF Hook
        <2>2. CASE silenced' # silenced
            <3>1. PICK r : r = handler[h]
                OBVIOUS
            <3>2. /\ Blocks(h, "local_terminal") /\ r.step = "hook"
                  /\ silenced' = silenced \cup {h}
                BY <1>3, <2>2, <3>1 DEF Hook, HookFinds, At
            <3>3. Becomes(h, Rec("commit", r.body, r.forwarded, "local_terminal", r.file,
                                 r.meta, r.heard))
                BY <3>1, <3>2, NamedUpdates
            <3>4. handler'[h].step \in Past /\ h \notin served
                BY <3>1, <3>2, <3>3 DEF Becomes, Rec, Past, ServedInv, TypeOK
            <3> QED
                BY <1>3, <1>a, <1>b, <3>2, <3>4 DEF ServedInv, Hook
        <2> QED
            BY <1>3, <2>1, <2>2 DEF Hook
    <1>4. ASSUME NEW h \in Handlers, Forward(h), UNCHANGED max PROVE ServedInv'
        <2>1. PICK r : r = handler[h]
            OBVIOUS
        <2>2. r.step = "forward" /\ h \in ToSet(admitted) /\ h \notin silenced
            BY <1>4, <2>1 DEF Forward, At, HandlerInv, Fits, Recorded, ServedInv, Past
        <2>3. Becomes(h, Rec("respond", r.body, TRUE, r.blocked, r.file, r.meta, r.heard))
            BY <1>4, <2>1, NamedUpdates
        <2>4. handler'[h].step \in Past
            BY <2>3 DEF Becomes, Rec, Past, TypeOK
        <2> QED
            BY <1>4, <1>a, <1>b, <2>2, <2>4 DEF ServedInv, Forward, proxyVars
    <1>5. ASSUME Run \/ Around \/ Clock \/ UNCHANGED vars PROVE ServedInv'
        BY <1>1, <1>5 DEF Run, Start, Kill, Collect, Cancel, Around, Exit, RequestStop, Arrive,
                          Clock, TimePasses, vars, proxyVars, history
    <1>6. ASSUME NEW h \in Handlers, UNCHANGED max,
                 \/ SaveBody(h) \/ SaveBodyFails(h) \/ Connect(h) \/ Respond(h) \/ Stream(h)
                 \/ Overdue(h) \/ Commit(h) \/ CommitFails(h) \/ Answer(h) \/ Finally(h)
                 \/ FinallyFails(h)
          PROVE  ServedInv'
        BY <1>1, <1>6 DEF SaveBody, SaveBodyFails, Connect, Respond, Stream, Overdue, Commit,
                          CommitFails, Answer, Finally, FinallyFails, proxyVars, history
    <1> QED
        BY <1>2, <1>3, <1>4, <1>5, <1>6 DEF Next, Serve, Server, Fail

LEMMA ResultStep == TypeOK /\ HandlerInv /\ ResultInv /\ [Next]_vars => ResultInv'
    <1> SUFFICES ASSUME TypeOK, HandlerInv, ResultInv, [Next]_vars PROVE ResultInv'
        OBVIOUS
    <1>a. \A h \in Handlers :
            handler'[h].heard => \/ process.state = "alive"
                                 \/ handler[h].heard /\ handler'[h].blocked = handler[h].blocked
        BY HandlerStep DEF Onward
    <1>1. ASSUME turn' = turn,
                 turn # None => process'.state = "over" /\ worker' \notin {"setup", "wait"}
          PROVE  ResultInv'
        BY <1>1, <1>a DEF ResultInv, DraftIsAssistants
    <1>2. ASSUME Collect, UNCHANGED max PROVE ResultInv'
        <2>1. PICK out \in Envelopes :
                turn' = [stop |-> process.stop, outcome |-> Outcome(process.stop, out),
                         guard |-> Guard(process.stop, out), limit |-> Reported,
                         noData |-> noData,
                         forwarded |-> {h \in ToSet(admitted) : handler[h].forwarded}]
            BY <1>2 DEF Collect
        <2>2. process' = process /\ process.state = "over" /\ worker' = "cancel"
            BY <1>2 DEF Collect
        <2>3. turn'.limit = Reported /\ turn'.outcome = Outcome(process.stop, out)
            BY <2>1
        <2>4. (\E h \in Handlers : handler'[h].blocked = "budget" /\ handler'[h].heard)
                => turn'.limit # "none"
            BY <1>2, <2>3 DEF Collect, Reported, HandlerInv, Fits
        <2>5. DraftIsAssistants'
            <3>1. \/ Outcome(process.stop, out) = None
                  \/ Outcome(process.stop, out) = [blockers |-> Blockers(out), answer |-> Draft(out)]
                BY DEF Outcome
            <3>2. "error" \in Blockers(out) => Draft(out) \in {"assistant", "none"}
                BY EnvelopesAssumption DEF Blockers, Draft
            <3> QED
                BY <2>3, <3>1, <3>2 DEF DraftIsAssistants
        <2> QED
            BY <2>2, <2>4, <2>5 DEF ResultInv
    <1>3. ASSUME Start \/ Kill \/ Cancel \/ Around \/ Clock \/ UNCHANGED vars PROVE ResultInv'
        BY <1>1, <1>3 DEF ResultInv, Start, Kill, Cancel, Around, Exit, RequestStop, Arrive,
                          Clock, TimePasses, vars, TypeOK
    <1>4. ASSUME NEW h \in Handlers, Serve(h) \/ Server(h) \/ Fail(h) PROVE ResultInv'
        BY <1>1, <1>4 DEF ResultInv, Serve, Server, Fail, Admit, Hook, SaveBody, SaveBodyFails,
                          Connect, Forward, Respond, Stream, Overdue, Commit, CommitFails,
                          Answer, Finally, FinallyFails
    <1> QED
        BY <1>2, <1>3, <1>4 DEF Next, Run

LEMMA ProxyInvariant == Spec => []ProxyInv
    <1>1. Init => ProxyInv
        <2> SUFFICES ASSUME Init PROVE ProxyInv
            OBVIOUS
        <2>1. \A h \in Handlers : handler[h] = Idle
            BY DEF Init
        <2>2. TypeOK
            <3>1. Idle \in HandlerState
                BY DEF Idle, HandlerState
            <3>2. <<>> \in Seq(Handlers) /\ 0 \in 0 .. MaxFaults
                BY BoundsAssumption
            <3> QED
                BY <3>1, <3>2 DEF Init, TypeOK
        <2>3. ToSet(admitted) = {} /\ Len(admitted) = 0
            BY DEF Init, ToSet
        <2>4. HandlerInv
            BY <2>1, <2>3 DEF HandlerInv, Fits, Idle, Recorded
        <2>5. ServedInv
            BY <2>3, BoundsAssumption DEF Init, ServedInv
        <2>6. ResultInv
            BY DEF Init, ResultInv, DraftIsAssistants
        <2> QED
            BY <2>2, <2>4, <2>5, <2>6 DEF ProxyInv
    <1>2. ProxyInv /\ [Next]_vars => ProxyInv'
        BY TypeStep, HandlerStep, ServedStep, ResultStep DEF ProxyInv
    <1> QED
        BY <1>1, <1>2, PTL DEF Spec

-----------------------------------------------------------------------------
(* The theorems.                                                           *)

\* The variables keep their types.
THEOREM TypeCorrect == Spec => []TypeOK
    BY ProxyInvariant, PTL DEF ProxyInv

\* The model server never sees more requests of a turn than max_requests.
LEMMA ServedWithinBudget == ProxyInv => BudgetHolds
    <1> SUFFICES ASSUME ProxyInv PROVE BudgetHolds
        OBVIOUS
    <1>1. /\ admitted \in Seq(Handlers) /\ Len(admitted) \in Nat /\ max \in Nat
          /\ Len(admitted) <= max /\ served \subseteq ToSet(admitted)
        BY BoundsAssumption DEF ProxyInv, TypeOK, ServedInv
    <1>2. IsFiniteSet(1 .. Len(admitted)) /\ Cardinality(1 .. Len(admitted)) = Len(admitted)
        <2>1. \A n \in Nat : IsFiniteSet(1 .. n) /\ Cardinality(1 .. n) = n
            BY FS_Interval
        <2> QED
            BY <1>1, <2>1
    <1>3. admitted \in Surjection(1 .. Len(admitted), ToSet(admitted))
        BY <1>1 DEF Surjection, ToSet
    <1>4. /\ IsFiniteSet(ToSet(admitted)) /\ Cardinality(ToSet(admitted)) <= Len(admitted)
          /\ Cardinality(ToSet(admitted)) \in Nat
        BY <1>2, <1>3, FS_Surjection, FS_CardinalityType
    <1>5. Cardinality(served) <= Cardinality(ToSet(admitted)) /\ Cardinality(served) \in Nat
        BY <1>1, <1>4, FS_Subset, FS_CardinalityType
    <1> QED
        BY <1>1, <1>4, <1>5 DEF BudgetHolds

\* However the handlers overlap: the budget, the audit before the request, and
\* the locator's verdict hold.
THEOREM ProxyIsSound == Spec => []ProxySound
    <1>1. ProxyInv => AuditedFirst
        <2>1. ASSUME ProxyInv, NEW h \in ToSet(admitted) PROVE h \in Handlers
            <3>1. admitted \in Seq(Handlers)
                BY <2>1 DEF ProxyInv, TypeOK
            <3> QED
                BY <2>1, <3>1 DEF ToSet
        <2> QED
            BY <2>1 DEF ProxyInv, HandlerInv, Fits, AuditedFirst
    <1>2. ProxyInv => NoDataSticks
        BY DEF ProxyInv, ServedInv, NoDataSticks
    <1> QED
        BY <1>1, <1>2, ServedWithinBudget, ProxyInvariant, PTL DEF ProxySound

\* What the turn reports is what the agent was told, and what the assistant said.
THEOREM OutcomeIsReported == Spec => []OutcomeReported
    <1>1. ProxyInv => OutcomeReported
        BY DEF ProxyInv, ResultInv, OutcomeReported, RefusalReported
    <1> QED
        BY <1>1, ProxyInvariant, PTL

==============================================================================
