------------------------- MODULE TurnControl_proofs -------------------------
(***************************************************************************)
(* Machine-checked safety of TurnControl for any number of handler         *)
(* threads and of instructions, on both publication paths, with and        *)
(* without faults.                                                         *)
(***************************************************************************)
EXTENDS TurnControl, TLAPS

\* Where the worker is tells what the task may look like to everybody else.
PlaceInv ==
  /\ pc = "none" => state \in {Absent, "PAUSED"} \cup Terminal
  /\ pc = "begin" => state = "CREATED"
  /\ pc = "resuming" => state = "PAUSED"
  /\ pc \in {"enter", "turn", "drive", "steer"} => state \in {"RUNNING", "PAUSING", "PAUSED"}
  /\ pc = "safestop" => state \in {"PAUSING", "PAUSED"}
  /\ pc \in {"publish", "settle"} => state = "FINALIZING"
  /\ pc = "raise" => state \in {"RUNNING", "PAUSING", "PAUSED", "FINALIZING"}
  /\ result # "valid" => state # "COMPLETED"

\* The gate is closed whenever an instruction waits or a stop is on its way,
\* open before the task has run, and a reached boundary was asked for.
GateInv ==
  /\ gate.reached # "no" => gate.requested
  /\ state \in {Absent, "CREATED"} => gate = OpenGate /\ pending = <<>>
  /\ pending # <<>> => gate.requested
  /\ state = "RUNNING" /\ gate.requested => pending # <<>>
  /\ state \in {"PAUSING", "PAUSED"} => gate.requested /\ pending = <<>>

\* An accepted instruction is never lost: it was heard or withdrawn, it waits,
\* or the worker holds it on its way into a turn.
HeardInv ==
  /\ inhand # {} => pc = "enter"
  /\ state \in {"PAUSING", "PAUSED"} => waived = steers
  /\ state \notin {"FAILED", "CANCELLED"} /\ pc # "raise" =>
       \A i \in 1 .. steers : i \in heard \/ i <= waived \/ i \in inhand \/ i \in Elements(pending)
  /\ state \in {"FINALIZING", "COMPLETED"} => \A i \in 1 .. steers : i \in heard \/ i <= waived

\* Heard before held before waiting, in the order of acceptance.
OrderInv ==
  /\ \A i \in heard \cup inhand \cup Elements(pending) : i <= steers
  /\ \A i \in heard, j \in inhand \cup Elements(pending) : i < j
  /\ \A i \in inhand, j \in Elements(pending) : i < j

-----------------------------------------------------------------------------
LEMMA TypeStep == TypeOK /\ [Next]_vars => TypeOK'
  <1> SUFFICES ASSUME TypeOK, [Next]_vars PROVE TypeOK'
    OBVIOUS
  <1> USE DEF TypeOK, TaskState, Terminal, Reasons, control, proxy
  <1>a. /\ MaxSteers \in Nat /\ pending \in Seq(1 .. MaxSteers)
        /\ Elements(pending) \in SUBSET (1 .. MaxSteers)
    BY SteersAssumption DEF Elements
  <1>b. /\ Requested("user_stop") \in [requested : BOOLEAN, reason : Reasons,
                                       reached : Reasons \cup {"no"}]
        /\ Requested("user_steer") \in [requested : BOOLEAN, reason : Reasons,
                                        reached : Reasons \cup {"no"}]
        /\ OpenGate \in [requested : BOOLEAN, reason : Reasons, reached : Reasons \cup {"no"}]
        /\ Boundary \in Reasons \cup {"no"}
    BY DEF Requested, OpenGate, Boundary
  <1>1. CASE Launch \/ Resume \/ ShutdownCancel
    BY <1>1 DEF Launch, Resume, ShutdownCancel
  <1>2. CASE Stop
    <2>1. <<>> \in Seq(1 .. MaxSteers)
      OBVIOUS
    <2> QED
      BY <1>2, <1>b, <2>1 DEF Stop
  <1>3. CASE Steer
    <2>1. steers + 1 \in 1 .. MaxSteers
      BY <1>3, <1>a DEF Steer
    <2>2. Append(pending, steers + 1) \in Seq(1 .. MaxSteers)
      BY <1>a, <2>1
    <2> QED
      BY <1>3, <1>a, <1>b, <2>1, <2>2 DEF Steer
  <1>4. CASE BeginStart \/ BeginResume \/ EnterTurn \/ EnterRefused
    BY <1>4, <1>b DEF BeginStart, BeginResume, EnterTurn, EnterRefused
  <1>5. CASE BeginSteer
    <2>1. <<>> \in Seq(1 .. MaxSteers)
      OBVIOUS
    <2> QED
      BY <1>5, <1>a, <1>b, <2>1 DEF BeginSteer
  <1>6. CASE TurnEnds \/ TurnRaises \/ DrivePausing \/ TurnEndSafeStop
    BY <1>6 DEF TurnEnds, TurnRaises, ProxyStops, DrivePausing, TurnEndSafeStop
  <1>7. CASE \/ DriveSteer \/ DriveFinalize \/ DriveWithoutFinalization \/ WriteResult
             \/ Settle \/ PublishRaises \/ WorkerFails
    BY <1>7 DEF DriveSteer, DriveFinalize, DriveWithoutFinalization, WriteResult,
                Settle, PublishRaises, WorkerFails
  <1>8. CASE \E h \in Handlers : Arrive(h) \/ OnSafeStop(h) \/ Respond(h)
    <2>1. PICK h \in Handlers : Arrive(h) \/ OnSafeStop(h) \/ Respond(h)
      BY <1>8
    <2>2. CASE Arrive(h)
      BY <2>2 DEF Arrive
    <2>3. CASE OnSafeStop(h)
      BY <2>3 DEF OnSafeStop
    <2>4. CASE Respond(h)
      BY <2>4 DEF Respond
    <2> QED
      BY <2>1, <2>2, <2>3, <2>4
  <1>9. CASE \E h \in Handlers : AskGate(h)
    <2>1. PICK h \in Handlers : AskGate(h)
      BY <1>9
    <2>2. /\ gate' = [gate EXCEPT !.reached = Boundary]
          /\ \E to \in {"idle", "hook", "forward"} \cup Reasons :
               handler' = [handler EXCEPT ![h] = to]
      BY <1>b, <2>1 DEF AskGate
    <2>3. gate' \in [requested : BOOLEAN, reason : Reasons, reached : Reasons \cup {"no"}]
      BY <1>b, <2>2
    <2>4. handler' \in [Handlers -> {"idle", "hook", "forward"} \cup Reasons]
      BY <2>2
    <2> QED
      BY <2>1, <2>3, <2>4 DEF AskGate
  <1>10. CASE UNCHANGED vars
    BY <1>10 DEF vars
  <1> QED
    BY <1>1, <1>2, <1>3, <1>4, <1>5, <1>6, <1>7, <1>8, <1>9, <1>10 DEF Next, Worker, Proxy

\* Every variable of the turn control keeps its type.
THEOREM TypeCorrect == Spec => []TypeOK
  <1>1. Init => TypeOK
    BY SteersAssumption DEF Init, TypeOK, OpenGate, Reasons
  <1> QED
    BY <1>1, TypeStep, PTL DEF Spec

-----------------------------------------------------------------------------
LEMMA PlaceStep == TypeOK /\ PlaceInv /\ [Next]_vars => PlaceInv'
  <1> SUFFICES ASSUME TypeOK, PlaceInv, [Next]_vars PROVE PlaceInv'
    OBVIOUS
  <1> USE DEF PlaceInv, Terminal, Absent
  <1>1. CASE Launch \/ Stop \/ Steer \/ Resume \/ ShutdownCancel
    BY <1>1 DEF Launch, Stop, Steer, Resume, ShutdownCancel, Live, TaskState
  <1>2. CASE BeginStart \/ BeginResume \/ BeginSteer \/ EnterTurn \/ EnterRefused
    BY <1>2 DEF BeginStart, BeginResume, BeginSteer, EnterTurn, EnterRefused
  <1>3. CASE \/ TurnEnds \/ TurnRaises \/ DrivePausing \/ TurnEndSafeStop \/ DriveSteer
             \/ DriveFinalize \/ DriveWithoutFinalization
    BY <1>3 DEF TurnEnds, TurnRaises, DrivePausing, TurnEndSafeStop, DriveSteer,
                DriveFinalize, DriveWithoutFinalization
  <1>4. CASE WriteResult \/ Settle \/ PublishRaises \/ WorkerFails
    BY <1>4 DEF WriteResult, Settle, PublishRaises, WorkerFails
  <1>5. CASE \E h \in Handlers : Proxy(h)
    BY <1>5 DEF Proxy, Arrive, AskGate, OnSafeStop, Respond
  <1>6. CASE UNCHANGED vars
    BY <1>6 DEF vars
  <1> QED
    BY <1>1, <1>2, <1>3, <1>4, <1>5, <1>6 DEF Next, Worker

LEMMA GateStep == TypeOK /\ PlaceInv /\ GateInv /\ [Next]_vars => GateInv'
  <1> SUFFICES ASSUME TypeOK, PlaceInv, GateInv, [Next]_vars PROVE GateInv'
    OBVIOUS
  <1> USE DEF GateInv, PlaceInv, Terminal, Absent, control
  <1>1. CASE Launch \/ Resume \/ ShutdownCancel
    BY <1>1 DEF Launch, Resume, ShutdownCancel
  <1>2. CASE Stop
    BY <1>2 DEF Stop, Requested, TypeOK
  <1>3. CASE Steer
    <2>1. Append(pending, steers + 1) # <<>>
      BY DEF TypeOK
    <2> QED
      BY <1>3, <2>1 DEF Steer, Requested, TypeOK
  <1>4. CASE BeginStart \/ EnterTurn \/ EnterRefused
    BY <1>4 DEF BeginStart, EnterTurn, EnterRefused, OpenGate
  <1>5. CASE BeginResume \/ BeginSteer
    BY <1>5 DEF BeginResume, BeginSteer, OpenGate
  <1>6. CASE \/ TurnEnds \/ TurnRaises \/ DrivePausing \/ TurnEndSafeStop \/ DriveSteer
             \/ DriveFinalize \/ DriveWithoutFinalization
    BY <1>6 DEF TurnEnds, TurnRaises, DrivePausing, TurnEndSafeStop, DriveSteer,
                DriveFinalize, DriveWithoutFinalization
  <1>7. CASE WriteResult \/ Settle \/ PublishRaises \/ WorkerFails
    BY <1>7 DEF WriteResult, Settle, PublishRaises, WorkerFails
  <1>8. CASE \E h \in Handlers : Arrive(h) \/ OnSafeStop(h) \/ Respond(h)
    BY <1>8 DEF Arrive, OnSafeStop, Respond
  <1>9. CASE \E h \in Handlers : AskGate(h)
    <2>1. gate' = [gate EXCEPT !.reached = Boundary] /\ UNCHANGED <<state, pending>>
      BY <1>9 DEF AskGate
    <2>2. gate'.requested = gate.requested /\ gate'.reached = Boundary
      BY <2>1 DEF TypeOK
    <2>3. Boundary # "no" => gate.requested
      BY DEF Boundary
    <2>4. gate = OpenGate => gate' = OpenGate
      BY <2>1 DEF OpenGate, Boundary
    <2> QED
      BY <2>1, <2>2, <2>3, <2>4
  <1>10. CASE UNCHANGED vars
    BY <1>10 DEF vars
  <1> QED
    BY <1>1, <1>2, <1>3, <1>4, <1>5, <1>6, <1>7, <1>8, <1>9, <1>10 DEF Next, Worker, Proxy

LEMMA AppendElements ==
  ASSUME NEW S, NEW s \in Seq(S), NEW e
  PROVE  Elements(Append(s, e)) = Elements(s) \cup {e}
  <1>1. /\ Len(s) \in Nat
        /\ Len(Append(s, e)) = Len(s) + 1
        /\ \A i \in 1 .. Len(s) : Append(s, e)[i] = s[i]
        /\ Append(s, e)[Len(s) + 1] = e
    OBVIOUS
  <1>2. \A i \in Int : i \in 1 .. Len(s) + 1 <=> i \in 1 .. Len(s) \/ i = Len(s) + 1
    BY <1>1
  <1> QED
    BY <1>1, <1>2 DEF Elements

LEMMA HeardStep ==
  TypeOK /\ PlaceInv /\ GateInv /\ HeardInv /\ [Next]_vars => HeardInv'
  <1> SUFFICES ASSUME TypeOK, PlaceInv, GateInv, HeardInv, [Next]_vars PROVE HeardInv'
    OBVIOUS
  <1> USE DEF HeardInv, PlaceInv, Terminal, Absent, control
  <1>a. /\ steers \in Nat /\ waived \in 0 .. steers /\ pending \in Seq(1 .. MaxSteers)
        /\ \A i \in 1 .. steers : i \in Nat
        /\ Elements(<<>>) = {}
    BY SteersAssumption DEF TypeOK, Elements
  <1>1. CASE Launch \/ Resume \/ ShutdownCancel
    BY <1>1 DEF Launch, Resume, ShutdownCancel
  <1>2. CASE Stop
    BY <1>2, <1>a DEF Stop
  <1>3. CASE Steer
    <2>1. Elements(Append(pending, steers + 1)) = Elements(pending) \cup {steers + 1}
      BY <1>a, AppendElements
    <2>2. \A i \in 1 .. steers + 1 : i \in 1 .. steers \/ i = steers + 1
      BY <1>a
    <2> QED
      BY <1>3, <1>a, <2>1, <2>2 DEF Steer
  <1>4. CASE BeginStart \/ EnterTurn
    BY <1>4 DEF BeginStart, EnterTurn
  <1>5. CASE EnterRefused
    BY <1>5, <1>a DEF EnterRefused
  <1>6. CASE BeginResume
    BY <1>6 DEF BeginResume
  <1>7. CASE BeginSteer
    BY <1>7, <1>a DEF BeginSteer
  <1>8. CASE \/ TurnEnds \/ TurnRaises \/ DrivePausing \/ TurnEndSafeStop \/ DriveSteer
    BY <1>8 DEF TurnEnds, TurnRaises, DrivePausing, TurnEndSafeStop, DriveSteer
  <1>9. CASE DriveFinalize \/ DriveWithoutFinalization
    BY <1>9, <1>a DEF DriveFinalize, DriveWithoutFinalization
  <1>10. CASE WriteResult \/ Settle \/ PublishRaises \/ WorkerFails
    BY <1>10 DEF WriteResult, Settle, PublishRaises, WorkerFails
  <1>11. CASE \E h \in Handlers : Proxy(h)
    BY <1>11 DEF Proxy, Arrive, AskGate, OnSafeStop, Respond
  <1>12. CASE UNCHANGED vars
    BY <1>12 DEF vars
  <1> QED
    BY <1>1, <1>2, <1>3, <1>4, <1>5, <1>6, <1>7, <1>8, <1>9, <1>10, <1>11, <1>12
    DEF Next, Worker

LEMMA OrderStep ==
  TypeOK /\ PlaceInv /\ GateInv /\ HeardInv /\ OrderInv /\ [Next]_vars => OrderInv'
  <1> SUFFICES ASSUME TypeOK, PlaceInv, GateInv, HeardInv, OrderInv, [Next]_vars
               PROVE  OrderInv'
    OBVIOUS
  <1>a. /\ steers \in Nat /\ pending \in Seq(1 .. MaxSteers)
        /\ heard \subseteq Nat /\ inhand \subseteq Nat /\ Elements(pending) \subseteq Nat
        /\ Elements(<<>>) = {}
    BY SteersAssumption DEF TypeOK, Elements
  <1>b. /\ \A i \in heard \cup inhand \cup Elements(pending) : i <= steers
        /\ \A i \in heard, j \in inhand \cup Elements(pending) : i < j
        /\ \A i \in inhand, j \in Elements(pending) : i < j
    BY DEF OrderInv
  <1>1. CASE Stop
    BY <1>1, <1>a, <1>b DEF Stop, OrderInv
  <1>2. CASE Steer
    <2>1. Elements(pending') = Elements(pending) \cup {steers + 1} /\ steers' = steers + 1
      BY <1>2, <1>a, AppendElements DEF Steer
    <2>2. heard' = heard /\ inhand' = inhand
      BY <1>2 DEF Steer
    <2>3. \A i \in heard \cup inhand \cup Elements(pending) : i <= steers + 1 /\ i < steers + 1
      BY <1>a, <1>b
    <2> QED
      BY <1>a, <1>b, <2>1, <2>2, <2>3 DEF OrderInv
  <1>3. CASE BeginSteer
    <2>1. CASE state = "RUNNING"
      <3>1. /\ inhand' = Elements(pending) /\ Elements(pending') = {}
            /\ heard' = heard /\ steers' = steers
        BY <1>3, <1>a, <2>1 DEF BeginSteer
      <3> QED
        BY <1>b, <3>1 DEF OrderInv
    <2>2. CASE state # "RUNNING"
      BY <1>3, <2>2, <1>b DEF BeginSteer, OrderInv
    <2> QED
      BY <2>1, <2>2
  <1>4. CASE EnterTurn
    <2>1. heard' = heard \cup inhand /\ inhand' = {} /\ pending' = pending /\ steers' = steers
      BY <1>4 DEF EnterTurn
    <2> QED
      BY <1>b, <2>1 DEF OrderInv
  <1>5. CASE EnterRefused
    <2>1. heard' = heard /\ inhand' = {} /\ pending' = pending /\ steers' = steers
      BY <1>5 DEF EnterRefused
    <2> QED
      BY <1>b, <2>1 DEF OrderInv
  <1>6. CASE \/ Launch \/ Resume \/ ShutdownCancel \/ BeginStart \/ BeginResume
             \/ TurnEnds \/ TurnRaises \/ DrivePausing \/ TurnEndSafeStop \/ DriveSteer
             \/ DriveFinalize \/ DriveWithoutFinalization \/ WriteResult \/ Settle
             \/ PublishRaises \/ WorkerFails
             \/ \E h \in Handlers : Proxy(h)
             \/ UNCHANGED vars
    <2>1. UNCHANGED <<heard, inhand, pending, steers>>
      BY <1>6 DEF Launch, Resume, ShutdownCancel, BeginStart, BeginResume, TurnEnds,
                  TurnRaises, DrivePausing, TurnEndSafeStop, DriveSteer, DriveFinalize,
                  DriveWithoutFinalization, WriteResult, Settle, PublishRaises, WorkerFails,
                  Proxy, Arrive, AskGate, OnSafeStop, Respond, control, vars
    <2> QED
      BY <1>b, <2>1 DEF OrderInv
  <1> QED
    BY <1>1, <1>2, <1>3, <1>4, <1>5, <1>6 DEF Next, Worker

-----------------------------------------------------------------------------
ControlInv == TypeOK /\ PlaceInv /\ GateInv /\ HeardInv /\ OrderInv

LEMMA ControlInvariant == Spec => []ControlInv
  <1>1. Init => ControlInv
    <2> SUFFICES ASSUME Init PROVE ControlInv
      OBVIOUS
    <2>1. Elements(<<>>) = {} /\ \A i : i \notin 1 .. 0
      BY DEF Elements
    <2>2. TypeOK
      BY SteersAssumption DEF Init, TypeOK, OpenGate, Reasons
    <2>3. PlaceInv /\ GateInv /\ HeardInv /\ OrderInv
      BY <2>1 DEF Init, PlaceInv, GateInv, HeardInv, OrderInv, OpenGate, Absent
    <2> QED
      BY <2>2, <2>3 DEF ControlInv
  <1>2. ControlInv /\ [Next]_vars => ControlInv'
    BY TypeStep, PlaceStep, GateStep, HeardStep, OrderStep DEF ControlInv
  <1> QED
    BY <1>1, <1>2, PTL DEF Spec

\* Gate, steering queue and task state agree at every moment.
THEOREM GateMatches == Spec => []GateMatchesControl
  <1>1. ControlInv => GateMatchesControl
    BY DEF ControlInv, GateInv, GateMatchesControl
  <1> QED
    BY <1>1, ControlInvariant, PTL

\* No handler, however late, forwards a request past a stop or an instruction.
THEOREM NothingForwarded == Spec => NoForwardPastControl
  <1> DEFINE Held == state \in {"PAUSING", "PAUSED"} \/ pending # <<>> =>
               \A h \in Handlers : handler'[h] = "forward" => handler[h] = "forward"
  <1>1. ControlInv /\ [Next]_vars => [Held]_vars
    <2> SUFFICES ASSUME ControlInv, Next, state \in {"PAUSING", "PAUSED"} \/ pending # <<>>,
                        NEW h \in Handlers, handler'[h] = "forward"
                 PROVE  handler[h] = "forward"
      OBVIOUS
    <2>1. gate.requested /\ handler \in [Handlers -> {"idle", "hook", "forward"} \cup Reasons]
      BY DEF ControlInv, GateInv, TypeOK
    <2>2. Boundary # "no"
      BY <2>1 DEF Boundary, ControlInv, TypeOK, Reasons
    <2>3. ASSUME NEW g \in Handlers, Proxy(g) PROVE handler[h] = "forward"
      BY <2>1, <2>2, <2>3 DEF Proxy, Arrive, AskGate, OnSafeStop, Respond, Boundary,
                              ControlInv, TypeOK, Reasons
    <2>4. ASSUME Worker PROVE handler' = handler
      BY <2>4 DEF Worker, BeginStart, BeginResume, BeginSteer, EnterTurn, EnterRefused,
                  TurnEnds, TurnRaises, ProxyStops, DrivePausing, TurnEndSafeStop, DriveSteer,
                  DriveFinalize, DriveWithoutFinalization, WriteResult, Settle,
                  PublishRaises, WorkerFails, proxy
    <2>5. ASSUME Launch \/ Stop \/ Steer \/ Resume \/ ShutdownCancel PROVE handler' = handler
      BY <2>5 DEF Launch, Stop, Steer, Resume, ShutdownCancel, proxy
    <2> QED
      BY <2>3, <2>4, <2>5 DEF Next
  <1>2. Spec => [][Held]_vars
    BY <1>1, ControlInvariant, PTL DEF Spec
  <1> QED
    BY <1>2 DEF NoForwardPastControl

\* A published answer heard every instruction that no later stop withdrew.
THEOREM AnswersHearEverything == Spec => []AnswerHeardEverything
  <1>1. ControlInv => AnswerHeardEverything
    <2> SUFFICES ASSUME ControlInv, state \in {"FINALIZING", "COMPLETED"},
                        NEW i \in 1 .. steers
                 PROVE  i \in heard \/ i \in 1 .. waived
      BY DEF AnswerHeardEverything
    <2>1. i \in heard \/ i <= waived
      BY DEF ControlInv, HeardInv
    <2>2. waived \in Nat /\ i \in Nat /\ i >= 1
      BY DEF ControlInv, TypeOK
    <2> QED
      BY <2>1, <2>2
  <1> QED
    BY <1>1, ControlInvariant, PTL

\* Instructions are heard in the order given, each at most once.
THEOREM InstructionsOrdered == Spec => InstructionsInOrder
  <1> DEFINE Ordered == \A i \in heard' \ heard, j \in heard : j < i
  <1>1. ControlInv /\ [Next]_vars => [Ordered]_vars
    <2> SUFFICES ASSUME ControlInv, Next PROVE Ordered
      OBVIOUS
    <2>1. heard' \subseteq heard \cup inhand
      BY DEF Next, Worker, Launch, Stop, Steer, Resume, ShutdownCancel, BeginStart,
             BeginResume, BeginSteer, EnterTurn, EnterRefused, TurnEnds, TurnRaises,
             DrivePausing, TurnEndSafeStop, DriveSteer, DriveFinalize,
             DriveWithoutFinalization, WriteResult, Settle, PublishRaises, WorkerFails,
             Proxy, Arrive, AskGate, OnSafeStop, Respond, control
    <2> QED
      BY <2>1 DEF ControlInv, OrderInv
  <1>2. Spec => [][Ordered]_vars
    BY <1>1, ControlInvariant, PTL DEF Spec
  <1> QED
    BY <1>2 DEF InstructionsInOrder

\* COMPLETED is never visible before a valid result.json.
THEOREM ResultsFirst == Spec => []PublishedBeforeCompleted
  <1>1. ControlInv => PublishedBeforeCompleted
    BY DEF ControlInv, PlaceInv, PublishedBeforeCompleted
  <1> QED
    BY <1>1, ControlInvariant, PTL

\* No call of the worker, of a handler or of the user asks Task.transition for
\* a transition it refuses.
THEOREM LifecycleImplemented == Spec => ImplementsLifecycle
  <1> USE DEF Life!Next, Life!Submit, Life!Advance, Life!Discard, Life!Absent,
              Life!TaskState, Life!Terminal, Life!Allowed
  <1>1. Init => Life!Init
    BY DEF Init, Life!Init, Absent
  <1>2. ControlInv /\ [Next]_vars => [Life!Next]_state
    <2> SUFFICES ASSUME ControlInv, [Next]_vars, state' # state PROVE Life!Next
      OBVIOUS
    <2> USE DEF ControlInv, PlaceInv, Absent, Terminal
    <2>1. CASE Launch \/ Stop \/ Steer \/ Resume
      BY <2>1 DEF Launch, Stop, Steer, Resume
    <2>2. CASE ShutdownCancel
      BY <2>2 DEF ShutdownCancel, Live, TaskState
    <2>3. CASE BeginStart \/ BeginResume \/ BeginSteer \/ EnterTurn \/ EnterRefused
      BY <2>3 DEF BeginStart, BeginResume, BeginSteer, EnterTurn, EnterRefused
    <2>4. CASE \/ TurnEnds \/ TurnRaises \/ DrivePausing \/ TurnEndSafeStop \/ DriveSteer
               \/ DriveFinalize \/ DriveWithoutFinalization
      BY <2>4 DEF TurnEnds, TurnRaises, DrivePausing, TurnEndSafeStop, DriveSteer,
                  DriveFinalize, DriveWithoutFinalization
    <2>5. CASE WriteResult \/ Settle \/ PublishRaises
      BY <2>5 DEF WriteResult, Settle, PublishRaises
    <2>6. CASE WorkerFails
      BY <2>6 DEF WorkerFails
    <2>7. CASE \E h \in Handlers : Proxy(h)
      BY <2>7 DEF Proxy, Arrive, AskGate, OnSafeStop, Respond
    <2>8. CASE UNCHANGED vars
      BY <2>8 DEF vars
    <2> QED
      BY <2>1, <2>2, <2>3, <2>4, <2>5, <2>6, <2>7, <2>8 DEF Next, Worker
  <1>3. Spec => Life!Init /\ [][Life!Next]_state
    BY <1>1, <1>2, ControlInvariant, PTL DEF Spec
  <1> QED
    BY <1>3 DEF ImplementsLifecycle, Life!Spec

-----------------------------------------------------------------------------
(* The invariant as the run checks it.                                       *)

\* A published answer heard every instruction, COMPLETED means a valid result,
\* and the gate agrees with the controls.
THEOREM AnswersAreSound == Spec => []AnswersSound
  BY TypeCorrect, GateMatches, AnswersHearEverything, ResultsFirst, PTL DEF AnswersSound

=============================================================================
