------------------------------- MODULE Evidence -------------------------------
(***************************************************************************)
(* From the agent's transcript to the evidence of a task.                  *)
(*                                                                         *)
(* OpenClaw (external) keeps a transcript of tool calls and results and    *)
(* sends it whole with every model request, possibly compacted.  The proxy *)
(* records each request of a turn in the turn's audit directory and lets   *)
(* AgentProgressObserver announce what is new in it.  When the turn is     *)
(* over, load_audit_trace reads the requests back as one trace and         *)
(* OpenClawEvidenceProjector adds the claim-grade part of every newly      *)
(* completed call to EvidenceCatalog, through EvidenceCollector.  Before   *)
(* the answer EvidenceMediaLoader opens the images again.                  *)
(*                                                                         *)
(* A line is [text, chars, indent], the last the blanks it begins with; a  *)
(* message is [kind, id, lines, omitted].                                  *)
(***************************************************************************)
EXTENDS Integers, Sequences, FiniteSets, SequencesExt

CONSTANTS
    Calls,          \* call id |-> [tool, path, offset, output, paths]
    Content,        \* path or command |-> the lines it holds or prints
    Role,           \* command |-> "business_facts", "locator" or "none"
    Bound,          \* image |-> whether a read-only bind covers its path
    Typed,          \* image |-> whether its name has an image suffix
    MaxReadLines, MaxLineChars, MaxExecLines, MaxExecChars,
    MaxClaimImages, \* images of one view that may be evidence
    MaxImages,      \* images the finalizer may be given
    MaxStaleRounds, \* ConvergencePolicy.max_stale_rounds
    MaxTurns,       \* bound: turns of the task
    MaxCalls,       \* bound: calls of the task
    MaxTouched      \* bound: images that change while the task runs

Internal == {"skill", "data_catalog"}   \* what _is_internal_read_target matches
Scratch  == {"scratch"}                 \* paths below /task-scratch/
Control  == "loop_warning"              \* an OpenClaw runtime control line
ControlLine == [text |-> Control, chars |-> 1, indent |-> 0]
Blank(line) == line.text = ""
Says(line) == ~Blank(line) /\ line.text # Control

LimitsPositive ==
    \A n \in {MaxReadLines, MaxLineChars, MaxExecLines, MaxExecChars,
              MaxClaimImages, MaxImages} : n \in Nat \ {0}

\* What is read or run is there, and a report of business facts says something;
\* no command and nothing below a data bind is a skill or the data catalog.
InputsAssumption ==
    /\ \A p \in DOMAIN Content :
           Content[p] \in Seq([text : STRING, chars : Nat, indent : Nat])
    /\ \A c \in DOMAIN Calls :
           /\ Calls[c].offset \in Nat /\ Calls[c].paths \in Seq(DOMAIN Bound)
           /\ Calls[c].tool = "read" => Calls[c].path \in DOMAIN Content
           /\ Calls[c].tool = "exec" =>
                 LET command == Calls[c].output
                 IN  /\ command \in DOMAIN Content \ Internal /\ c \notin Internal
                     /\ Role[command] = "business_facts" =>
                           \E i \in DOMAIN Content[command] : Says(Content[command][i])
    /\ \A p \in DOMAIN Bound \cap Internal : ~Bound[p]

VARIABLES
    transcript,     \* the messages OpenClaw holds
    invoked,        \* the calls the agent has made so far
    audit,          \* the requests recorded in this turn, each a transcript
    seenCalls, seenResults,     \* what the observer has announced
    events,         \* the task's events, in order
    processed,      \* the calls the projector is done with
    items,          \* the catalog: item k has the reference Ek
    counts,         \* how many items there were after each turn
    stale,          \* turns in a row that brought nothing new
    disk,           \* image |-> its version; "gone" or "unreadable"
    carried,        \* history: calls some request carried with their result
    phase,          \* "idle", "turn", "final" or "failed"
    given           \* the images the finalizer is given

agentVars == <<transcript, invoked>>
observerVars == <<seenCalls, seenResults>>
catalogVars == <<processed, items, counts, stale>>
vars == <<agentVars, audit, observerVars, events, catalogVars, disk, carried,
          phase, given>>

-----------------------------------------------------------------------------
(* Parts of sequences.                                                     *)

\* The members of S up to n, in order.
Places(n, S) ==
    LET upto[k \in 0..n] == IF k = 0 THEN <<>>
                            ELSE IF k \in S THEN Append(upto[k - 1], k) ELSE upto[k - 1]
    IN  upto[n]

\* What stands at the places S of q.
Select(q, S) ==
    LET places == Places(Len(q), S) IN [k \in DOMAIN places |-> q[places[k]]]

-----------------------------------------------------------------------------
(* The trace of a turn.                                                    *)

IdsOf(ms, kind) == {ms[i].id : i \in {j \in DOMAIN ms : ms[j].kind = kind}}

\* The ids of messages of a kind by first occurrence, the known ones left out.
FirstSeen(ms, kind, known) ==
    LET first == {i \in DOMAIN ms :
                    /\ ms[i].kind = kind /\ ms[i].id \notin known
                    /\ \A j \in 1..(i - 1) : ms[j].kind = kind => ms[j].id # ms[i].id}
        found == Select(ms, first)
    IN  [k \in DOMAIN found |-> found[k].id]

\* parse_messages: of a repeated id the last message counts.
TraceOf(ms) ==
    LET last(c) == Max({i \in DOMAIN ms : ms[i].kind = "result" /\ ms[i].id = c})
    IN  [calls   |-> FirstSeen(ms, "call", {}),
         results |-> [c \in IdsOf(ms, "result") |-> ms[last(c)]]]

\* Mutant of Trace: only the turn's last request is read.
TraceOfLast(wires) == TraceOf(wires[Len(wires)])

\* load_audit_trace: the requests of a turn as one trace.
Trace(wires) == TraceOf(FlattenSeq(wires))

-----------------------------------------------------------------------------
(* The catalog.                                                            *)

\* EvidenceCatalog._dedupe_key: a line has its number, an image its digest.
Key(x) == <<x.source, x.raw, x.line, x.sha>>

\* EvidenceCatalog.add, for each of xs: known evidence keeps its reference.
Catalogued(q, xs) ==
    q \o Select(xs, {i \in DOMAIN xs :
                       /\ \A j \in DOMAIN q : Key(q[j]) # Key(xs[i])
                       /\ \A j \in 1..(i - 1) : Key(xs[j]) # Key(xs[i])})

\* EvidenceCollector.add: what is new to the catalog is announced.
Collected(q, more) ==
    [k \in 1..(Len(more) - Len(q)) |-> <<"EVIDENCE_ADDED", Len(q) + k>>]

\* What cannot be added: the image could not be opened, or raw is blank.
Raises(x) == x.sha = "unreadable" \/ x.raw[1] = ""

-----------------------------------------------------------------------------
(* The projector.  Its candidates are [source, raw, line, type, role, sha, *)
(* call]; a raw text is the pair of a text and how much of it is kept.     *)

\* The first characters of a line; no text if they are its indentation.
Cut(line, limit) ==
    LET kept == Min({line.chars, limit})
    IN  <<IF kept <= line.indent THEN "" ELSE line.text, kept>>

\* The lines that are neither empty nor a note of the runtime, as places.
Material(lines) == Places(Len(lines), {i \in DOMAIN lines : Says(lines[i])})

Candidate(c, source, raw, line, type, role, sha) ==
    [source |-> source, raw |-> raw, line |-> line, type |-> type,
     role |-> role, sha |-> sha, call |-> c]

\* _project_read
Read(c, lines) ==
    LET path == Calls[c].path
        kept == Material(lines)
    IN  IF path \in Internal THEN <<>>
        ELSE [k \in 1..Min({Len(kept), MaxReadLines}) |->
                Candidate(c, path, Cut(lines[kept[k]], MaxLineChars), kept[k], "file_line",
                          IF path \in Scratch THEN "working_derived" ELSE "source", "")]

\* The characters that the first lines take, as long as there is room.
Used(lines, kept) ==
    LET used[k \in 0..Len(kept)] ==
            IF k = 0 THEN 0 ELSE used[k - 1] + Min({lines[kept[k]].chars, MaxLineChars})
    IN  used

\* The lines of a command, up to both limits; the rest of the capacity
\* shortens the line that reaches it.
Lines(c, lines) ==
    LET kept  == Material(lines)
        used  == Used(lines, kept)
        shown == Places(Len(kept), {k \in DOMAIN kept : k <= MaxExecLines /\ used[k - 1] < MaxExecChars})
        limit(k) == Min({MaxLineChars, MaxExecChars - used[k - 1]})
    IN  [j \in DOMAIN shown |->
            LET i == kept[shown[j]]
            IN  Candidate(c, c, Cut(lines[i], limit(shown[j])), i, "command_line", "source", "")]

Length(lines) == FoldLeft(LAMBDA n, l : n + l.chars, 0, lines)

\* _project_exec.  A result that the runtime added a line to is no JSON object.
Exec(c, lines) ==
    LET command == Calls[c].output
        object  == lines = Content[command]
        fits    == Length(lines) <= MaxExecChars
    IN  IF object /\ Role[command] = "locator" THEN <<>>
        ELSE IF object /\ Role[command] = "business_facts"
        THEN <<IF fits
               THEN Candidate(c, command, <<command, Length(lines)>>, 0, "structured", "business_facts", "")
               ELSE Candidate(c, command, <<"omitted", 0>>, 0, "structured", "working_derived", "")>>
        ELSE Lines(c, lines)

\* DataBindResolver.resolve
Resolved(p) == Bound[p] /\ disk[p] # "gone"

\* _project_images
ViewedImages(c, omitted) ==
    LET paths == Calls[c].paths
        once  == {i \in DOMAIN paths : \A j \in 1..(i - 1) : paths[j] # paths[i]}
        found == Select(paths, {i \in once : Resolved(paths[i])})
    IN  IF Cardinality(ToSet(paths)) > MaxClaimImages \/ omitted THEN <<>>
        ELSE [k \in DOMAIN found |->
                Candidate(c, found[k], <<"image", 0>>, 0, "image", "claim_grade", disk[found[k]])]

Projected(c, result) ==
    CASE Calls[c].tool = "read" -> Read(c, result.lines)
      [] Calls[c].tool = "exec" -> Exec(c, result.lines)
      [] Calls[c].tool = "view_image" -> ViewedImages(c, result.omitted)
      [] OTHER -> <<>>

\* process_trace: the newly completed calls in the trace's order.  Adding can
\* raise, with part of its call already in the catalog.
ProcessTrace(trace) ==
    LET new   == Select(trace.calls, {i \in DOMAIN trace.calls :
                            trace.calls[i] \in DOMAIN trace.results \ processed})
        found == [k \in DOMAIN new |-> Projected(new[k], trace.results[new[k]])]
        all   == FlattenSeq(found)
        added == Select(all, {i \in DOMAIN all : \A j \in 1..i : ~Raises(all[j])})
        done  == {k \in DOMAIN new :
                    \A j \in 1..k : \A i \in DOMAIN found[j] : ~Raises(found[j][i])}
        out   == Catalogued(items, added)
    IN  [items |-> out, events |-> events \o Collected(items, out),
         processed |-> processed \cup {new[k] : k \in done}, raised |-> done # DOMAIN new]

-----------------------------------------------------------------------------
(* The observer.                                                           *)

\* observe_request: each call and each result is announced once; a progress
\* card as such, its result not at all.
IsCard(c) == Calls[c].tool = "progress_card"

Announced(ms) ==
    LET calls   == FirstSeen(ms, "call", seenCalls)
        results == FirstSeen(ms, "result", seenResults \cup {c \in DOMAIN Calls : IsCard(c)})
    IN  <<<<"MODEL_REQUEST", 0>>>>
        \o [k \in DOMAIN calls |->
              <<IF IsCard(calls[k]) THEN "PROGRESS_UPDATE" ELSE "TOOL_CALL", calls[k]>>]
        \o [k \in DOMAIN results |-> <<"TOOL_RESULT", results[k]>>]

-----------------------------------------------------------------------------
Init ==
    /\ transcript = <<>> /\ invoked = {} /\ audit = <<>>
    /\ seenCalls = {} /\ seenResults = {} /\ events = <<>>
    /\ processed = {} /\ items = <<>> /\ counts = <<>> /\ stale = 0
    /\ disk = [p \in DOMAIN Bound |-> "v1"]
    /\ carried = {} /\ phase = "idle" /\ given = <<>>

\* A turn begins with its own audit directory and a first request.
BeginTurn ==
    /\ phase = "idle" /\ Len(counts) < MaxTurns
    /\ phase' = "turn"
    /\ audit' = <<>>
    /\ UNCHANGED <<agentVars, observerVars, events, catalogVars, disk, carried, given>>

\* The proxy records a request and lets the observer see it.
Request ==
    /\ phase = "turn"
    /\ IdsOf(transcript, "call") = IdsOf(transcript, "result")
    /\ Len(audit) > 0 => Last(audit) # transcript
    /\ audit' = Append(audit, transcript)
    /\ events' = events \o Announced(transcript)
    /\ seenCalls' = seenCalls \cup IdsOf(transcript, "call")
    /\ seenResults' = seenResults \cup IdsOf(transcript, "result")
    /\ carried' = carried \cup (IdsOf(transcript, "call") \cap IdsOf(transcript, "result"))
    /\ UNCHANGED <<agentVars, catalogVars, disk, phase, given>>

\* The agent (external) makes a call in its answer to a request ...
Invoke(c) ==
    /\ phase = "turn" /\ Len(audit) > 0
    /\ c \notin invoked /\ Cardinality(invoked) < MaxCalls
    /\ transcript' = Append(transcript, [kind |-> "call", id |-> c,
                                         lines |-> <<>>, omitted |-> FALSE])
    /\ invoked' = invoked \cup {c}
    /\ UNCHANGED <<audit, observerVars, events, catalogVars, disk, carried, phase, given>>

\* ... and OpenClaw (external) appends its result: a page of a file, what a
\* command prints, images or a note that they are left out; after a repeated
\* call with a warning of its own.
Printed(c) ==
    CASE Calls[c].tool = "read" ->
            LET all == Content[Calls[c].path]
            IN  SubSeq(all, Calls[c].offset + 1, Len(all))
      [] Calls[c].tool = "exec" -> Content[Calls[c].output]
      [] OTHER -> <<>>

Return(c, warned, omitted) ==
    /\ phase = "turn"
    /\ c \in IdsOf(transcript, "call") \ IdsOf(transcript, "result")
    /\ omitted => Calls[c].tool = "view_image"
    /\ warned => Calls[c].tool \in {"read", "exec"}
    /\ transcript' = Append(transcript,
            [kind |-> "result", id |-> c, omitted |-> omitted,
             lines |-> Printed(c) \o (IF warned THEN <<ControlLine>> ELSE <<>>)])
    /\ UNCHANGED <<invoked, audit, observerVars, events, catalogVars, disk, carried,
                   phase, given>>

\* OpenClaw (external) compacts: the first messages go, calls with results.
Compact ==
    /\ phase = "turn"
    /\ \E k \in 1..Len(transcript) :
          LET gone == SubSeq(transcript, 1, k)
          IN  /\ IdsOf(gone, "call") = IdsOf(gone, "result")
              /\ transcript' = SubSeq(transcript, k + 1, Len(transcript))
    /\ UNCHANGED <<invoked, audit, observerVars, events, catalogVars, disk, carried,
                   phase, given>>

\* _run_turn after the agent: the evidence of the turn, checkpoint_evidence_progress.
EndTurn ==
    /\ phase = "turn" /\ Len(audit) > 0
    /\ LET out == ProcessTrace(Trace(audit))
           before == IF Len(counts) = 0 THEN 0 ELSE counts[Len(counts)]
       IN  /\ items' = out.items /\ events' = out.events /\ processed' = out.processed
           /\ phase' = IF out.raised THEN "failed" ELSE "idle"
           /\ IF out.raised THEN UNCHANGED <<counts, stale>>
              ELSE /\ counts' = Append(counts, Len(out.items))
                   /\ stale' = IF Len(out.items) > before THEN 0 ELSE stale + 1
    /\ UNCHANGED <<agentVars, audit, observerVars, disk, carried, given>>

\* An image is replaced, removed or made unreadable on the host (external).
Touch(p, version) ==
    /\ Bound[p] /\ disk[p] = "v1"
    /\ Cardinality({q \in DOMAIN disk : disk[q] # "v1"}) < MaxTouched
    /\ phase \in {"idle", "turn"}
    /\ \E c \in invoked : Contains(Calls[c].paths, p)
    /\ disk' = [disk EXCEPT ![p] = version]
    /\ UNCHANGED <<agentVars, audit, observerVars, events, catalogVars, carried,
                   phase, given>>

\* evaluate, begin_finalization: enough turns brought nothing, or the goal is met.
Converged(goalSatisfied) == goalSatisfied \/ stale >= MaxStaleRounds

\* EvidenceMediaLoader.load for the finalizer: every image, or an error.
Pictures == SelectSeq(items, LAMBDA x : x.type = "image")

Loadable(x) == Typed[x.source] /\ Resolved(x.source) /\ disk[x.source] = x.sha

Load(goalSatisfied) ==
    /\ phase = "idle" /\ Len(counts) > 0 /\ Converged(goalSatisfied)
    /\ IF /\ Len(Pictures) <= MaxImages
          /\ \A i \in DOMAIN Pictures : Loadable(Pictures[i])
       THEN phase' = "final" /\ given' = Pictures
       ELSE phase' = "failed" /\ UNCHANGED given
    /\ UNCHANGED <<agentVars, audit, observerVars, events, catalogVars, disk, carried>>

-----------------------------------------------------------------------------
(* The catalog as the finalizer's model reads it: build_evidence_prompt.   *)

\* _group_key: only lines of one call and one source share a header.
GroupKey(x) ==
    IF x.type \in {"file_line", "command_line"} THEN <<x.type, x.call, x.source>> ELSE <<>>

\* An item joins the block before it if both are lines of one call and source.
Joins(k) == k > 1 /\ GroupKey(items[k]) # <<>> /\ GroupKey(items[k - 1]) = GroupKey(items[k])

\* The references that stand in one block, block by block (pending, flush).
Groups ==
    LET starts  == Places(Len(items), {k \in DOMAIN items : ~Joins(k)})
        next(b) == IF b = Len(starts) THEN Len(items) + 1 ELSE starts[b + 1]
    IN  [b \in DOMAIN starts |->
            [i \in 1..(next(b) - starts[b]) |-> starts[b] + i - 1]]

\* _evidence_prompt_line: a grouped line leaves its source to the header.
PromptLine(k) ==
    LET x == items[k]
    IN  [ref |-> k, line |-> x.line, raw |-> x.raw, sha |-> x.sha,
         source |-> IF GroupKey(x) = <<>> THEN x.source ELSE "header"]

\* _render_evidence_group: the header is the first item's.
PromptBlock(group) ==
    [header |-> GroupKey(items[group[1]]),
     rows |-> [i \in DOMAIN group |-> PromptLine(group[i])]]

EvidencePrompt == [b \in DOMAIN Groups |-> PromptBlock(Groups[b])]

Next ==
    \/ BeginTurn \/ Request \/ Compact \/ EndTurn
    \/ \E c \in DOMAIN Calls : Invoke(c) \/ \E w, o \in BOOLEAN : Return(c, w, o)
    \/ \E p \in DOMAIN disk, v \in {"v2", "gone", "unreadable"} : Touch(p, v)
    \/ \E g \in BOOLEAN : Load(g)

Spec == Init /\ [][Next]_vars

-----------------------------------------------------------------------------
\* No result is lost between the transcript, which may be compacted, and the
\* catalog: once a turn is over, the projector is done with every call that any
\* request ever carried with its result, and each line of a page read, up to
\* the limit, and each report of a skill has an item.
NothingMissed ==
    LET has(source, raw, line) ==
            \E i \in DOMAIN items : /\ items[i].source = source
                                    /\ items[i].raw = raw /\ items[i].line = line
        page(c) == Printed(c)
        rank(c, i) == Cardinality({j \in 1..i : Says(page(c)[j])})
    IN  phase \in {"idle", "final"} => \A c \in carried :
            /\ c \in processed
            /\ Calls[c].tool = "read" /\ Calls[c].path \notin Internal =>
                 \A i \in DOMAIN page(c) :
                     Says(page(c)[i]) /\ rank(c, i) <= MaxReadLines =>
                         has(Calls[c].path, Cut(page(c)[i], MaxLineChars), i)
            /\ Calls[c].tool = "exec" /\ Role[Calls[c].output] = "business_facts" =>
                 \E i \in DOMAIN items : items[i].source \in {Calls[c].output, c}

\* Only what the agent was shown of the business data is evidence: no skill, no
\* data catalog, no locator, no note of the runtime, no view left incomplete or
\* too large; and a line stands where its call printed it.
OnlyClaimGrade ==
    \A i \in DOMAIN items :
        LET x == items[i]  c == x.call
        IN  /\ c \in carried /\ x.source \notin Internal
            /\ x.type \in {"file_line", "command_line"} =>
                  /\ x.line \in DOMAIN Printed(c)
                  /\ x.raw \in {Cut(Printed(c)[x.line], n) : n \in 1..MaxLineChars}
            /\ x.type = "structured" => Role[x.source] = "business_facts"
            /\ x.type = "image" => /\ Bound[x.source]
                                   /\ Cardinality(ToSet(Calls[c].paths)) <= MaxClaimImages

\* Each call and each result is announced once, in that order, whatever the
\* number of requests that repeat them, turns and compactions; and evidence is
\* announced once, reference by reference.
AnnouncedOnce ==
    LET at(e) == {i \in DOMAIN events : events[i] = e}
        refs  == {i \in DOMAIN events : events[i][1] = "EVIDENCE_ADDED"}
    IN  /\ \A i, j \in DOMAIN events :
               events[i] = events[j] => i = j \/ events[i][1] = "MODEL_REQUEST"
        /\ {events[i][2] : i \in refs} = DOMAIN items
        /\ \A i, j \in refs : i < j => events[i][2] < events[j][2]
        /\ \A c \in carried :
               IF IsCard(c) THEN at(<<"PROGRESS_UPDATE", c>>) # {} /\ at(<<"TOOL_RESULT", c>>) = {}
               ELSE \E i \in at(<<"TOOL_CALL", c>>), j \in at(<<"TOOL_RESULT", c>>) : i < j

\* "Render all Evidence refs losslessly with bounded repeated tool metadata":
\* the model reads every reference once and in order, as it must cite it; what
\* a header says holds of each of its rows, which stands where the header's
\* call printed it; and no call's header is repeated, whatever other evidence
\* came between its lines in other turns.
PromptLossless ==
    LET prompt == EvidencePrompt
        rows   == FlattenSeq([b \in DOMAIN prompt |-> prompt[b].rows])
        refs   == [i \in DOMAIN rows |-> rows[i].ref]
        headed == {b \in DOMAIN prompt : prompt[b].header # <<>>}
    IN  phase = "final" =>
        /\ refs = [k \in 1..Len(items) |-> k]
        /\ \A b \in headed : LET call == prompt[b].header[2]
                                page == Printed(call)
                            IN  \A i \in DOMAIN prompt[b].rows :
               LET row == prompt[b].rows[i]
               IN  /\ row.line \in DOMAIN page
                   /\ row.raw[1] = page[row.line].text
                   /\ items[row.ref].source = prompt[b].header[3]
        /\ \A b, d \in headed : prompt[b].header = prompt[d].header => b = d

\* A reference, once given, names the same evidence for good.
RefsKeptByStep == IsPrefix(items, items')
RefsPermanent == [][RefsKeptByStep]_vars

\* "Identity includes source position for line evidence" (catalog.py): lines
\* read from different places of a file are different evidence.
PositionsKept ==
    \A c, d \in {k \in processed : Calls[k].tool = "read"}, i \in DOMAIN items :
        LET stands(k) == /\ items[i].source = Calls[k].path
                         /\ items[i].line \in DOMAIN Printed(k)
                         /\ items[i].raw = Cut(Printed(k)[items[i].line], MaxLineChars)
        IN  stands(c) /\ stands(d) => Calls[c].offset = Calls[d].offset
=============================================================================
