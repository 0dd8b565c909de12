----------------------------- MODULE Preparation -----------------------------
(* What the pipeline does to one conversation between the archive and the memory: *)
(* sanitization/pattern_sanitizer.py field by field over TextRedaction, every     *)
(* overlap settled by SpanMerge, then the tag of ProjectMatching, from the rules  *)
(* loaded when the run began. A conversation maps each field to a text or None:   *)
(* the title, and one message with one tool activity and one part.                *)
EXTENDS SpanMerge, TextRedaction, ProjectMatching

CONSTANTS
    Conversations,      \* the conversations that may be handed in
    RuleFiles,          \* what may lie at the rules' path: [state, rules, required]
    Fallbacks           \* the classifiers asked after the loaded rules

\* In the order sanitize, _message and _tool_activity read them; the source id and
\* the times are never scanned.
Fields == <<"title", "text", "name", "request", "result", "part">>

ASSUME PreparationAssumption ==
    /\ Categories = {"token", "kubernetes", "password"}
    /\ None \notin Seq(Line)
    /\ Conversations \subseteq [ToSet(Fields) -> {None} \cup Seq(Line)]
    /\ \A file \in RuleFiles : file.rules \in Seq(ProjectRule)
    /\ Fallbacks \in Seq({rs \in Seq(ProjectRule) : RuleSetValid(rs)})

VARIABLES
    phase,          \* load, sanitize, merge, classify, done, failed or refused
    configured,     \* the rules' file
    rules,          \* the rule set of the run
    conversation,   \* as it was handed in
    copy,           \* as rewritten so far
    field,          \* how many fields are rewritten
    counts,         \* the report
    prepared,       \* the conversation that was returned, or None
    tag             \* its project, or None

own == <<phase, configured, rules, conversation, copy, field, counts, prepared, tag>>
vars == <<own, mergeVars>>

InitPreparation ==
    /\ Init
    /\ phase = "load"
    /\ configured \in RuleFiles /\ rules = <<>>
    /\ conversation \in Conversations /\ copy = conversation
    /\ field = 0 /\ counts = [c \in Categories |-> 0]
    /\ prepared = None /\ tag = None

Load ==
    /\ phase = "load"
    /\ Loads(configured)
    /\ rules' = RulesOf(configured)
    /\ phase' = "sanitize"
    /\ UNCHANGED <<configured, conversation, copy, field, counts, prepared, tag, mergeVars>>

RefuseRules ==
    /\ phase = "load"
    /\ ~Loads(configured)
    /\ phase' = "refused"
    /\ UNCHANGED <<configured, rules, conversation, copy, field, counts, prepared, tag, mergeVars>>

InHand == phase = "sanitize" /\ field < Len(Fields)
Current == Fields[field + 1]
Absent(text) == text = None \/ text = <<>>

\* Mutant: "" becomes None.
UntouchedAsNone ==
    /\ InHand /\ Absent(copy[Current])
    /\ field' = field + 1 /\ copy' = [copy EXCEPT ![Current] = None]
    /\ UNCHANGED <<phase, configured, rules, conversation, counts, prepared, tag, mergeVars>>

\* None stays None and "" stays "".
Untouched ==
    /\ InHand /\ Absent(copy[Current])
    /\ field' = field + 1
    /\ UNCHANGED <<phase, configured, rules, conversation, copy, counts, prepared, tag, mergeVars>>

Scan ==
    /\ InHand /\ ~Absent(copy[Current])
    /\ Fresh /\ waiting' = FindSpans(copy[Current])
    /\ phase' = "merge"
    /\ UNCHANGED <<configured, rules, conversation, copy, field, counts, prepared, tag>>

\* Mutant: the input is returned unchanged.
ScanFailureIgnored ==
    /\ InHand /\ ~Absent(copy[Current])
    /\ phase' = "classify" /\ prepared' = conversation
    /\ UNCHANGED <<configured, rules, conversation, copy, field, counts, tag, mergeVars>>

\* Any error of the rewriting is a SanitizationError; nothing is returned.
ScanFails ==
    /\ InHand /\ ~Absent(copy[Current])
    /\ phase' = "failed"
    /\ UNCHANGED <<configured, rules, conversation, copy, field, counts, prepared, tag, mergeVars>>

MergeStep == phase = "merge" /\ Merge /\ UNCHANGED own

\* Mutant: matches are counted, and not replacements.
RewriteCountingMatches ==
    /\ phase = "merge" /\ ~merging /\ waiting = <<>>
    /\ copy' = [copy EXCEPT ![Current] = Rewritten(copy[Current], kept)]
    /\ counts' = [c \in Categories |-> counts[c] + Counted(kept, c) + Cardinality({s \in lost : s.category = c})]
    /\ field' = field + 1 /\ phase' = "sanitize"
    /\ UNCHANGED <<configured, rules, conversation, prepared, tag, mergeVars>>

Rewrite ==
    /\ phase = "merge" /\ ~merging /\ waiting = <<>>
    /\ copy' = [copy EXCEPT ![Current] = Rewritten(copy[Current], kept)]
    /\ counts' = [c \in Categories |-> counts[c] + Counted(kept, c)]
    /\ field' = field + 1 /\ phase' = "sanitize"
    /\ UNCHANGED <<configured, rules, conversation, prepared, tag, mergeVars>>

Sanitized ==
    /\ phase = "sanitize" /\ field = Len(Fields)
    /\ prepared' = copy /\ phase' = "classify"
    /\ UNCHANGED <<configured, rules, conversation, copy, field, counts, tag, mergeVars>>

\* The characters of a field, for the classifier.
Characters(text) ==
    FlattenSeq([l \in DOMAIN text |->
        (IF l = 1 THEN <<>> ELSE <<"nl">>)
        \o (IF text[l].item THEN <<"-", " ">> ELSE <<>>)
        \o (IF text[l].key = None THEN <<>> ELSE <<"key", ":">>)
        \o text[l].value])

\* _sweep: the fields that are there, in order.
Parts(c) ==
    LET there == Ascending({i \in DOMAIN Fields : c[Fields[i]] # None})
    IN  [k \in DOMAIN there |-> Characters(c[Fields[there[k]]])]

Classify ==
    /\ phase = "classify"
    /\ tag' = Chained(<<rules>> \o Fallbacks, Parts(prepared))
    /\ phase' = "done"
    /\ UNCHANGED <<configured, rules, conversation, copy, field, counts, prepared, mergeVars>>

\* The call has returned or raised.
Over == phase \in {"done", "failed", "refused"} /\ UNCHANGED vars

NextPreparation ==
    \/ Load \/ RefuseRules
    \/ Untouched \/ Scan \/ ScanFails \/ Rewrite \/ Sanitized
    \/ MergeStep
    \/ Classify
    \/ Over

Preparing == InitPreparation /\ [][NextPreparation]_vars

----------------------------------------------------------------------------
\* A list of spans is always the Seq it should be, and a rewritten copy differs
\* from its conversation in values only: the fields, the lines and what is None or
\* empty are those of the input (SS-2).
TypeOK ==
    /\ phase \in {"load", "sanitize", "merge", "classify", "done", "failed", "refused"}
    /\ field \in 0 .. Len(Fields)
    /\ kept \in Seq(Span) /\ merged \in Seq(Span) /\ incoming \in Seq(Span)
    /\ \A f \in ToSet(Fields) :
          IF Absent(conversation[f]) THEN copy[f] = conversation[f]
          ELSE /\ Len(copy[f]) = Len(conversation[f])
               /\ \A l \in DOMAIN copy[f] :
                     [copy[f][l] EXCEPT !.value = <<>>] = [conversation[f][l] EXCEPT !.value = <<>>]

Texts(c) == {f \in ToSet(Fields) : ~Absent(c[f])}

MarkersOf(text) ==
    Cardinality({o \in Offsets(text) : AtomsAt(text, o, 1) = <<"red">>})

Markers(c) ==
    LET Of(f) == IF f \in Texts(c) THEN MarkersOf(c[f]) ELSE 0
    IN  Of("title") + Of("text") + Of("name") + Of("request") + Of("result") + Of("part")

\* The report counts what is in the text: of a conversation that had no marker, as
\* many redactions as it has markers now, and not one for each match (RR-5).
CountsAreReplacements ==
    (prepared # None /\ Markers(conversation) = 0) =>
        counts["token"] + counts["kubernetes"] + counts["password"] = Markers(prepared)

\* Whatever any pattern still finds in a conversation that was returned is what was
\* left around an earlier replacement: every finding was replaced or overlaps one
\* that was, and rewriting makes none (SS-8, RR-6).
LeftoversAreRemainders ==
    prepared # None =>
        \A f \in Texts(prepared) : \A s \in AllFindings(prepared[f]) :
            "red" \in ToSet(Covered(prepared[f], s))

\* An entry under a data key, of the form no other pattern finds.
Entry(line) == line.indent > 0 /\ ~line.item /\ line.key = "name" /\ line.value = <<"f">>

DataOf(lines, l) == {i \in 1 .. l - 1 : IsDataKey(lines[i]) /\ l <= BlockEnd(lines, i)}

Settled(before, after, l) ==
    after[l].value = <<"red">> <=> \E i \in DataOf(before, l) : OwnMappingIsSecret(before, i)

\* In manifests without a list inside a mapping: a data entry is replaced exactly
\* when the mapping its data key belongs to says kind: Secret (RC-13).
SecretDataIsReplaced ==
    prepared # None =>
        \A f \in Texts(prepared) : \A l \in DOMAIN prepared[f] :
            (/\ Entry(conversation[f][l])
             /\ \A i \in DataOf(conversation[f], l) : NoInnerList(conversation[f], i))
            => Settled(conversation[f], prepared[f], l)

\* A project an alias names in one field with no rival decides over one classifier.
Certain(ruleSet, parts) ==
    {p \in StandingFirst(ruleSet, parts) :
        \A q \in Standing(ruleSet, parts) \ {p} : PriorityOf(ruleSet, q) < PriorityOf(ruleSet, p)}

\* A tag rests on an alias that stands as a word inside one field, against no rival
\* of its priority, and no earlier classifier was certain; and unknown is never the
\* answer when one was (AM-2, AM-7, AR-3, AR-4).
TagIsEarned ==
    phase = "done" =>
        LET all == <<rules>> \o Fallbacks
            parts == Parts(prepared)
        IN  \E n \in 1 .. Len(all) + 1 :
              /\ \A m \in 1 .. n - 1 : Certain(all[m], parts) = {}
              /\ IF n > Len(all) THEN tag = Unknown
                 ELSE /\ tag \in Standing(all[n], parts)
                      /\ \A q \in StandingFirst(all[n], parts) \ {tag} :
                            PriorityOf(all[n], q) < PriorityOf(all[n], tag)
=============================================================================
