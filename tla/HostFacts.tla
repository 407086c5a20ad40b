----------------------------- MODULE HostFacts -----------------------------
(* The picture of the host a task reasons about.  A queued task has none; when  *)
(* it is admitted, the runtime factory runs the collectors of                  *)
(* scopex/host_snapshot.py one after the other, each of which may fail on its  *)
(* own, and writes current.json, or a file without figures when anything       *)
(* raises.  The agent reads the file through the system-health skill, perhaps  *)
(* much later, after a pause, and the finalizer puts the figures into words.   *)
(*                                                                             *)
(* A figure is abstracted to the moment it was measured; None says that it is  *)
(* missing.  Values, units and labels are left out.                            *)
EXTENDS Integers, FiniteSets, Sequences

CONSTANT MaxTime  \* bound on the host's clock

TimeAssumption == MaxTime \in Nat \ {0}

VARIABLES now,       \* the host's clock
          phase,     \* where the task stands
          admitted,  \* when the task left the queue, None before
          done,      \* the number of collectors that have run
          snapshot,  \* what has been collected so far, then current.json
          measured,  \* history: every <<figure, moment>> a collector obtained
          spoken     \* the answer's figures with their moments
vars == <<now, phase, admitted, done, snapshot, measured, spoken>>

None == 0
Moments == 0 .. MaxTime
Phases == {"queued", "collecting", "running", "paused", "answered", "failed"}

Figures == {"gpu_count", "gpu_util", "containers", "load", "cpu",
            "mem_total", "mem_available", "mem_used", "disk_used", "disk_free"}

(* The order in which the payload's fields are evaluated: the date is taken     *)
(* after the external commands and before the readings of /proc.               *)
Collectors == <<"gpu", "docker", "top_cpu", "top_memory", "load", "captured_at",
                "cpu", "memory", "disks">>

(* The commands have a timeout and may use it up before they answer or fail.   *)
Commands == {"gpu", "docker", "top_cpu", "top_memory"}

(* What a collector may obtain of the figures the skill hands on.  A GPU may   *)
(* report a utilisation that is not a number; used memory needs both of the    *)
(* other lines; an empty disk has no percentage.                               *)
Obtains(collector) ==
  CASE collector = "gpu" -> {{}, {"gpu_count"}, {"gpu_count", "gpu_util"}}
    [] collector = "docker" -> {{}, {"containers"}}
    [] collector = "load" -> {{}, {"load"}}
    [] collector \in {"top_cpu", "top_memory", "captured_at"} -> {{}}
    [] collector = "cpu" -> {{}, {"cpu"}}
    [] collector = "memory" -> {{}, {"mem_total"}, {"mem_available"},
                                {"mem_total", "mem_available", "mem_used"}}
    [] collector = "disks" -> {{}, {"disk_free"}, {"disk_free", "disk_used"}}

NoFigures == [f \in Figures |-> None]

(* The file the factory writes when the collection or its serialisation        *)
(* raised: a source, no date, no figures, the error of "collector".            *)
Fallback == [figures |-> NoFigures, captured_at |-> None, errors |-> {"collector"}]

Empty == [figures |-> NoFigures, captured_at |-> None, errors |-> {}]

Init == /\ now = 1
        /\ phase = "queued"
        /\ admitted = None
        /\ done = 0
        /\ snapshot = Empty
        /\ measured = {}
        /\ spoken = NoFigures

(* The host's clock runs whatever the task does; during the collection it runs *)
(* with the commands.                                                          *)
Tick == /\ phase \in {"queued", "running", "paused"}
        /\ now < MaxTime
        /\ now' = now + 1
        /\ UNCHANGED <<phase, admitted, done, snapshot, measured, spoken>>

(* A worker starts and asks the factory for the task's coordinator.            *)
Admit == /\ phase = "queued"
         /\ phase' = "collecting"
         /\ admitted' = now
         /\ UNCHANGED <<now, done, snapshot, measured, spoken>>

\* Mutant: a failed reading leaves the figure at the moment of the attempt.
CollectedAnyway(collector, obtained, moment, failed) ==
  [figures |-> [f \in Figures |-> IF f \in UNION Obtains(collector) THEN moment
                                                              ELSE snapshot.figures[f]],
   captured_at |-> IF collector = "captured_at" THEN moment ELSE snapshot.captured_at,
   errors |-> snapshot.errors \cup (IF failed THEN {collector} ELSE {})]

(* The collection with one more collector's part.  Only the commands record an *)
(* error; a failing reading of /proc or of the disk leaves its figures None.   *)
Collected(collector, obtained, moment, failed) ==
  [figures |-> [f \in Figures |-> IF f \in obtained THEN moment ELSE snapshot.figures[f]],
   captured_at |-> IF collector = "captured_at" THEN moment ELSE snapshot.captured_at,
   errors |-> snapshot.errors \cup (IF failed THEN {collector} ELSE {})]

Collect ==
  /\ phase = "collecting"
  /\ done < Len(Collectors)
  /\ LET collector == Collectors[done + 1] IN
       \E obtained \in Obtains(collector), slow \in {0, 1}, failed \in BOOLEAN :
         /\ slow = 1 => collector \in Commands /\ now < MaxTime
         /\ failed => collector \in Commands /\ obtained = {}
         /\ now' = now + slow
         /\ snapshot' = Collected(collector, obtained, now', failed)
         /\ measured' = measured \cup {<<f, now'>> : f \in obtained}
  /\ done' = done + 1
  /\ UNCHANGED <<phase, admitted, spoken>>

(* The temporary file is written and renamed; the factory goes on to build the *)
(* coordinator and the first turn runs.                                        *)
Write == /\ phase = "collecting"
         /\ done = Len(Collectors)
         /\ phase' = "running"
         /\ UNCHANGED <<now, admitted, done, snapshot, measured, spoken>>

(* A collector, the serialisation or the temporary file raises: the factory    *)
(* writes the fallback in its place, or raises itself and the task fails.      *)
WriteFails == /\ phase = "collecting"
              /\ \/ phase' = "running" /\ snapshot' = Fallback
                 \/ phase' = "failed" /\ snapshot' = Empty
              /\ UNCHANGED <<now, admitted, done, measured, spoken>>

Pause == /\ phase = "running"
         /\ phase' = "paused"
         /\ UNCHANGED <<now, admitted, done, snapshot, measured, spoken>>

(* The resumed task keeps its coordinator and with it the mounted file.        *)
Resume == /\ phase = "paused"
          /\ phase' = "running"
          /\ UNCHANGED <<now, admitted, done, snapshot, measured, spoken>>

(* The compact facts of the skill: a figure that is no number is None, and a   *)
(* count is the length of a list, zero also where the collector failed.        *)
Facts == [figures |-> snapshot.figures, captured_at |-> snapshot.captured_at]

(* What the answer says of them: memory with its total, the number of GPUs     *)
(* only beside a utilisation, and never containers or load.         *)
Told(facts) ==
  LET has(f) == facts.figures[f] # None
      memory == IF has("mem_used") \/ has("mem_available")
                THEN {"mem_used", "mem_available", "mem_total"} ELSE {}
      gpu == IF has("gpu_util") THEN {"gpu_util", "gpu_count"} ELSE {}
      named == {"cpu", "disk_used", "disk_free"} \cup memory \cup gpu
  IN [f \in Figures |-> IF f \in named THEN facts.figures[f] ELSE None]

(* Without the mounted file the helper's message becomes the sentence that the *)
(* host's figures are unavailable.                                             *)
Answer == /\ phase = "running"
          /\ phase' = "answered"
          /\ spoken' \in {Told(Facts), NoFigures}
          /\ UNCHANGED <<now, admitted, done, snapshot, measured>>

Next == \/ Tick \/ Admit \/ Collect \/ Write \/ WriteFails
        \/ Pause \/ Resume \/ Answer

Spec == Init /\ [][Next]_vars

-----------------------------------------------------------------------------
Spoken == {f \in Figures : spoken[f] # None}

(* Every figure of the answer was obtained by a collector at the moment the    *)
(* answer attributes to it, after the task had left the queue: a failed        *)
(* collector, an old file or the time spent in the queue never puts a figure   *)
(* into an answer (host_snapshot.py, factory.py, system_health.py, answer.py). *)
FiguresAreOfThisStart ==
  \A f \in Spoken : <<f, spoken[f]>> \in measured /\ admitted <= spoken[f]

(* An answer with figures carries the date of the snapshot, no figure is older *)
(* than the time the commands may take before it, and none is younger: also    *)
(* after a pause the date says how old the "current" figures are.              *)
FiguresAreDated ==
  Spoken # {} =>
    /\ Facts.captured_at # None
    /\ \A f \in Spoken : /\ spoken[f] <= Facts.captured_at
                         /\ Facts.captured_at - spoken[f] <= Cardinality(Commands) - 1

TypeOK == /\ now \in Moments /\ admitted \in Moments /\ phase \in Phases
          /\ done \in 0 .. Len(Collectors)
          /\ snapshot \in [figures : [Figures -> Moments], captured_at : Moments,
                           errors : SUBSET (Commands \cup {"collector"})]
          /\ measured \subseteq Figures \X Moments
          /\ spoken \in [Figures -> Moments]
=============================================================================
