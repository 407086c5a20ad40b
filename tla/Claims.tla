------------------------------- MODULE Claims -------------------------------
(***************************************************************************)
(* What the finalizer may publish.  A model answers with a payload of      *)
(* claims; it is normalised, validated against the evidence of the task    *)
(* and only then turned into the text, the product answer and the report   *)
(* the user sees (finalizer/validator.py, claims.py, service.py,           *)
(* renderer.py, answer.py, report.py).                                     *)
(*                                                                         *)
(* An item of the catalog is [source, type, role, shown]: shown is what    *)
(* _humanize_raw makes of its raw text, and two items may read the same.   *)
(* A claim is [keys, id, kind, relation, scope, confidence, topic, refs]:  *)
(* keys says whether it has exactly the fields a claim has, id is 0 for    *)
(* anything but C1, C2, ...; topic is 0 for a missing or overlong text.    *)
(* A field may hold "list", a JSON container where a string belongs.       *)
(***************************************************************************)
EXTENDS Integers, Sequences, FiniteSets, SequencesExt

CONSTANTS
    Items,          \* the catalog: Items[k] has the reference Ek
    MaxClaims, MaxRefs, MaxSummary,     \* limits of validate_claim_payload
    MaxExplanations, MaxRows,           \* limits of the product answer
    MaxSection      \* report section |-> how many items it may have

LimitsAssumption ==
    /\ {MaxClaims, MaxRefs, MaxSummary, MaxExplanations, MaxRows} \subseteq Nat
    /\ MaxSection \in [{"facts", "possibilities", "next_steps", "limitations"} -> Nat]

Kinds       == {"fact", "inference", "unknown"}
Relations   == {"observed", "temporal_association", "causal_hypothesis", "unknown"}
Scopes      == {"event", "time_window", "component", "global", "unknown"}
Confidences == {"high", "medium", "low", "unknown"}

\* What a field may hold: a word the validator knows, a container, or
\* anything else.
Words == Kinds \cup Relations \cup Scopes \cup Confidences \cup {"list", "else"}
Claim == [keys : BOOLEAN, id : Nat, kind : Words, relation : Words, scope : Words,
          confidence : Words, topic : Nat, refs : Seq(Nat)]

Refs == DOMAIN Items
IsOfType(ref, type) == Items[ref].type = type
Distinct(s) == \A i, j \in DOMAIN s : i # j => s[i] # s[j]

\* The elements at some positions, in order: distinct elements by first
\* occurrence, and the elements a test admits.
Picking(s, K) ==
    LET upto[n \in 0 .. Len(s)] ==
            IF n = 0 THEN <<>>
            ELSE IF n \in K THEN Append(upto[n - 1], s[n]) ELSE upto[n - 1]
    IN  upto
Picked(s, K) == Picking(s, K)[Len(s)]
FirstOf(s)  == Picked(s, {i \in DOMAIN s : \A j \in 1 .. i - 1 : s[j] # s[i]})
Only(s, Test(_)) == Picked(s, {i \in DOMAIN s : Test(s[i])})
UpTo(s, n) == SubSeq(s, 1, IF Len(s) < n THEN Len(s) ELSE n)
Flat(s, f(_)) == FlattenSeq([i \in DOMAIN s |-> f(s[i])])

-----------------------------------------------------------------------------
(* Normalisation and validation.                                           *)

\* normalize_claim_payload: the relation decides, except that nothing is
\* ever made a fact.
KindFor(claim) ==
    CASE claim.relation \in {"temporal_association", "causal_hypothesis"} -> "inference"
      [] claim.relation = "unknown" -> "unknown"
      [] OTHER -> claim.kind

Normalized(payload) ==
    LET repaired(claim) == [claim EXCEPT !.kind = KindFor(claim)]
    IN  [payload EXCEPT !.claims = [i \in DOMAIN @ |-> repaired(@[i])]]

\* Set membership of a list raises: `relation in {...}` when normalising,
\* `kind not in _KINDS` when validating.
Unhashable(payload) ==
    \E i \in DOMAIN payload.claims :
       LET claim == payload.claims[i]
       IN  \/ claim.relation = "list"
           \/ /\ "list" \in {claim.kind, claim.scope, claim.confidence}
              /\ Len(payload.claims) <= MaxClaims

WellFormed(claim) ==
    /\ claim.keys
    /\ claim.id > 0
    /\ claim.kind \in Kinds
    /\ claim.relation \in Relations
    /\ claim.scope \in Scopes
    /\ claim.confidence \in Confidences
    /\ claim.topic > 0

Cited(claim) ==
    /\ Distinct(claim.refs)
    /\ ToSet(claim.refs) \subseteq Refs
    /\ Len(claim.refs) <= MaxRefs

Supported(claim) ==
    CASE claim.kind = "fact" ->
            /\ claim.refs # <<>>
            /\ claim.relation = "observed"
            /\ claim.confidence \in {"high", "medium"}
            /\ claim.scope # "unknown"
      [] claim.kind = "inference" ->
            /\ claim.refs # <<>>
            /\ \/ /\ claim.relation = "temporal_association"
                  /\ Len(claim.refs) >= 2
                  /\ claim.confidence # "unknown"
               \/ /\ claim.relation = "causal_hypothesis"
                  /\ claim.confidence \in {"medium", "low"}
      [] OTHER -> claim.relation = "unknown" /\ claim.confidence = "unknown"

\* _claim_signature: what makes two claims the same.
Signature(claim) ==
    LET refs == ToSet(claim.refs)
        aggregate == \E ref \in refs : IsOfType(ref, "facts")
    IN  CASE claim.kind = "fact" ->
                <<"fact", claim.scope, "", refs, IF aggregate THEN claim.topic ELSE 0>>
          [] claim.relation = "temporal_association" ->
                <<"temporal", claim.scope, claim.confidence, refs, 0>>
          [] claim.relation = "causal_hypothesis" ->
                <<"causal", claim.scope, claim.confidence, refs, claim.topic>>
          [] OTHER -> <<"unknown", claim.scope, "", refs, claim.topic>>

\* validate_claim_payload returns no error.
Valid(payload) ==
    LET claims == payload.claims
        ids    == {claims[i].id : i \in DOMAIN claims}
    IN  /\ payload.keys
        /\ Len(claims) \in 1 .. MaxClaims
        /\ \A i \in DOMAIN claims :
              WellFormed(claims[i]) /\ Cited(claims[i]) /\ Supported(claims[i])
        /\ \A i, j \in DOMAIN claims : i # j =>
              /\ claims[i].id # claims[j].id
              /\ Signature(claims[i]) # Signature(claims[j])
        /\ Len(payload.summary) \in 1 .. MaxSummary
        /\ Distinct(payload.summary)
        /\ ToSet(payload.summary) \subseteq ids

-----------------------------------------------------------------------------
(* The text of a valid payload: render_claims.                             *)

IsFact(claim) == claim.kind = "fact"
Visual(claim) == \E i \in DOMAIN claim.refs : IsOfType(claim.refs[i], "image")

\* The raw rows of textual facts: each once, those of one source together.
ObservedRows(claims) ==
    LET textual(c) == IsFact(c) /\ ~Visual(c)
        refsOf(c)  == c.refs
        refs       == FirstOf(Flat(Only(claims, textual), refsOf))
        sourceOf(ref) == Items[ref].source
        sources    == FirstOf([i \in DOMAIN refs |-> sourceOf(refs[i])])
        block(s)   == Only(refs, LAMBDA ref : sourceOf(ref) = s)
    IN  Flat(sources, block)

Wording(claim) ==
    IF IsFact(claim) THEN "visual"
    ELSE CASE claim.relation = "temporal_association" -> "temporal"
           [] claim.relation = "causal_hypothesis"    -> "hypothesis"
           [] OTHER -> "unknown"

Rendered(payload) ==
    LET rows    == ObservedRows(payload.claims)
        seen(c) == IsFact(c) /\ Visual(c)
        other(c) == ~IsFact(c)
        line(c) == <<[wording |-> Wording(c), refs |-> ToSet(c.refs), claim |-> c.id]>>
    IN  [i \in DOMAIN rows |-> [wording |-> "observed", refs |-> {rows[i]}, claim |-> 0]]
        \o Flat(Only(payload.claims, seen), line)
        \o Flat(Only(payload.claims, other), line)

-----------------------------------------------------------------------------
(* The product answer: compose_product_answer.                             *)

\* _humanized_claim_evidence_text: one structured result, or the raw rows.
Shown(claim) ==
    LET facts == Only(claim.refs, LAMBDA ref : IsOfType(ref, "facts"))
        used  == IF facts = <<>> THEN claim.refs ELSE UpTo(facts, 1)
    IN  UpTo(FirstOf([i \in DOMAIN used |-> Items[used[i]].shown]), MaxRows)

Topical(claim) ==
    \/ Visual(claim) /\ IsFact(claim)
    \/ ~IsFact(claim) /\ claim.relation # "temporal_association"

AnswerItem(claim) ==
    [claim |-> claim.id, kind |-> claim.kind,
     text  |-> [wording |-> Wording(claim),
                topic   |-> IF Topical(claim) THEN claim.topic ELSE 0,
                shown   |-> IF Topical(claim) THEN <<>> ELSE Shown(claim)]]

\* _ordered_summary_claims: the summary first, then the others.
Ordered(payload) ==
    LET inSummary(id) == Only(payload.claims, LAMBDA c : c.id = id)
        others == Only(payload.claims, LAMBDA c : ~Contains(payload.summary, c.id))
    IN  Flat(payload.summary, inSummary) \o others

\* Explanations: the other claims, none reading like one already there.
Explaining(conclusion, claims) ==
    LET skipped(q, c) == \/ Len(q) > MaxExplanations
                         \/ c.id = conclusion.id
                         \/ \E i \in DOMAIN q : q[i].text = AnswerItem(c).text
        upto[n \in 0 .. Len(claims)] ==
            IF n = 0 THEN <<AnswerItem(conclusion)>>
            ELSE IF skipped(upto[n - 1], claims[n]) THEN upto[n - 1]
            ELSE Append(upto[n - 1], AnswerItem(claims[n]))
    IN  upto
Explained(conclusion, claims) == Explaining(conclusion, claims)[Len(claims)]

Conclusion(ordered) ==
    LET facts == Only(ordered, IsFact)
    IN  IF facts = <<>> THEN ordered[1] ELSE facts[1]

Answer(payload) ==
    LET ordered    == Ordered(payload)
        items      == Explained(Conclusion(ordered), ordered)
        verified(c) == /\ IsFact(c)
                       /\ \E i \in DOMAIN c.refs : Items[c.refs[i]].role = "action_verification"
        open(c)    == c.kind = "unknown" \/ c.relation = "causal_hypothesis"
        idOf(c)    == <<c.id>>
    IN  [conclusion      |-> items[1],
         explanation     |-> SubSeq(items, 2, Len(items)),
         execution       |-> Flat(UpTo(Only(ordered, verified), 4), idOf),
         recommendations |-> Flat(UpTo(Only(ordered, open), 3), idOf)]

-----------------------------------------------------------------------------
(* What that second model is given: _composer_input.                       *)

\* _composer_evidence_content: of a structured result the fields a report
\* tells, with the strongest candidates; of anything else its beginning.
Content(ref) ==
    <<IF IsOfType(ref, "facts") /\ Items[ref].role # "working_derived"
      THEN "selected fields" ELSE "beginning", Items[ref].shown>>

\* The evidence of all claims, each once, where it is first referred to; a
\* reference the catalog does not hold is skipped.
ComposerInput(payload) ==
    LET refsOf(c) == c.refs
        refs  == Only(FirstOf(Flat(payload.claims, refsOf)), LAMBDA ref : ref \in Refs)
        row(c) == [id |-> c.id, kind |-> c.kind, relation |-> c.relation, scope |-> c.scope,
                   confidence |-> c.confidence, topic |-> c.topic, refs |-> c.refs]
        evidence(ref) == [ref |-> ref, type |-> Items[ref].type, role |-> Items[ref].role,
                          source |-> Items[ref].source, content |-> Content(ref)]
    IN  [summary  |-> payload.summary,
         claims   |-> [i \in DOMAIN payload.claims |-> row(payload.claims[i])],
         evidence |-> [i \in DOMAIN refs |-> evidence(refs[i])]]

-----------------------------------------------------------------------------
(* The report a second model call may write: validate_report_payload.      *)
(* A report is a function from sections to sequences of items              *)
(* [text, claims, refs]; text says whether the item's text is acceptable.  *)

Sections == {"facts", "possibilities", "next_steps", "limitations"}

ClaimOf(payload, id) == CHOOSE c \in ToSet(payload.claims) : c.id = id

\* _validate_item: facts rest on observed facts, the rest never does.
Allowed(section, claim) ==
    CASE section = "conclusion" -> TRUE
      [] section = "facts"      -> IsFact(claim)
      [] OTHER                  -> ~IsFact(claim)

ValidItem(section, item, payload) ==
    LET ids   == {c.id : c \in ToSet(payload.claims)}
        cited == {ClaimOf(payload, id) : id \in ToSet(item.claims)}
    IN  /\ item.text
        /\ Len(item.claims) \in 1 .. 3 /\ Distinct(item.claims)
        /\ Len(item.refs) <= MaxRefs /\ Distinct(item.refs)
        /\ ToSet(item.claims) \subseteq ids
        /\ ToSet(item.refs) \subseteq UNION {ToSet(c.refs) : c \in cited}
        /\ \A c \in cited : Allowed(section, c)

ValidReport(report, payload) ==
    /\ Len(report["conclusion"]) = 1
    /\ \A s \in Sections : Len(report[s]) <= MaxSection[s]
    /\ \A s \in DOMAIN report : \A i \in DOMAIN report[s] :
          ValidItem(s, report[s][i], payload)

=============================================================================
