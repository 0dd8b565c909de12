------------------------------ MODULE SpanMerge ------------------------------
(* resolve() and _merge() of sanitization/scanner.py: which of the findings of    *)
(* all patterns are replaced. One walk of the spans already kept and of one       *)
(* pattern's findings settles every overlap between them; a finding that overlaps *)
(* a kept one is dropped whole. Positions are offsets into one text, and a batch  *)
(* holds the findings of one pattern; `lost` is history, for the properties.      *)
EXTENDS Integers, Sequences

CONSTANT Categories     \* RedactionCategory

VARIABLES
    waiting,    \* the batches not merged yet, most specific pattern first
    incoming,   \* what is left of the batch that is being merged
    kept,       \* the spans that survive so far
    index,      \* how many of kept the walk has passed
    merged,     \* the result of the walk so far
    merging,    \* whether a walk is under way
    lost        \* every span dropped since resolve began

mergeVars == <<waiting, incoming, kept, index, merged, merging, lost>>

\* Half-open, and never empty: a pattern's minimum length is 1 or more.
Span == {s \in [start : Nat, end : Nat, category : Categories, precedence : Nat] : s.start < s.end}

\* The key resolve sorts one pattern's findings by.
Before(s, t) == s.start < t.start \/ (s.start = t.start /\ s.end >= t.end)

Batches ==
    {w \in Seq(Seq(Span)) :
        /\ \A b \in 1 .. Len(w) : \A i, j \in 1 .. Len(w[b]) : i < j => Before(w[b][i], w[b][j])
        /\ \A a, b \in 1 .. Len(w) : \A i \in 1 .. Len(w[a]), j \in 1 .. Len(w[b]) :
              IF a = b THEN w[a][i].precedence = w[b][j].precedence
              ELSE a < b => w[a][i].precedence < w[b][j].precedence}

Init ==
    /\ waiting = <<>> /\ incoming = <<>>
    /\ kept = <<>> /\ index = 0
    /\ merged = <<>> /\ merging = FALSE
    /\ lost = {}

\* resolve is entered: nothing is kept yet.
Fresh ==
    /\ ~merging /\ waiting = <<>>
    /\ kept' = <<>> /\ lost' = {}
    /\ UNCHANGED <<incoming, index, merged, merging>>

Begin == Fresh /\ waiting' \in Batches

\* The next pattern's findings are merged into the kept ones.
NextPattern ==
    /\ ~merging /\ waiting # <<>>
    /\ merging' = TRUE
    /\ incoming' = Head(waiting) /\ waiting' = Tail(waiting)
    /\ index' = 0 /\ merged' = <<>>
    /\ UNCHANGED <<kept, lost>>

Walking == merging /\ incoming # <<>>

LastMerged == merged[Len(merged)]

\* The kept span under the walk ends before the finding starts.
Behind == index < Len(kept) /\ kept[index + 1].end <= Head(incoming).start

Pass ==
    /\ Walking /\ Behind
    /\ merged' = Append(merged, kept[index + 1]) /\ index' = index + 1
    /\ UNCHANGED <<waiting, incoming, kept, merging, lost>>

\* Mutant: the ends are not compared.
BeatenByAny == index < Len(kept)

\* The finding overlaps the next kept span.
Beaten == index < Len(kept) /\ kept[index + 1].start < Head(incoming).end

\* Mutant: regions are taken to be disjoint.
RepeatedUnseen == FALSE /\ merged # <<>>

\* The finding overlaps what was just put out: two regions of one pattern overlap.
Repeated == merged # <<>> /\ LastMerged.end > Head(incoming).start

Drop ==
    /\ Walking /\ ~Behind
    /\ Beaten \/ Repeated
    /\ lost' = lost \cup {Head(incoming)}
    /\ incoming' = Tail(incoming)
    /\ UNCHANGED <<waiting, kept, index, merged, merging>>

Emit ==
    /\ Walking /\ ~Behind /\ ~Beaten /\ ~Repeated
    /\ merged' = Append(merged, Head(incoming))
    /\ incoming' = Tail(incoming)
    /\ UNCHANGED <<waiting, kept, index, merging, lost>>

\* What the walk has not reached is kept as it is.
Finish ==
    /\ merging /\ incoming = <<>>
    /\ kept' = merged \o SubSeq(kept, index + 1, Len(kept))
    /\ merging' = FALSE
    /\ index' = 0 /\ merged' = <<>>
    /\ UNCHANGED <<waiting, incoming, lost>>

Merge == NextPattern \/ Pass \/ Drop \/ Emit \/ Finish

Next == Begin \/ Merge

Spec == Init /\ [][Next]_mergeVars

Disjoint(spans) == \A i, j \in 1 .. Len(spans) : i < j => spans[i].end <= spans[j].start

\* The spans that are rewritten are disjoint and in order, whatever the patterns
\* found and however their regions overlap (RR-5, RR-6): one join rewrites the text
\* and no replacement is counted twice.
OrderedAndDisjoint == Disjoint(kept) /\ Disjoint(merged)

Overlap(s, t) == s.start < t.end /\ t.start < s.end

\* A finding is given up only to a finding that is replaced, overlaps it, and comes
\* from a pattern at least as specific (RR-6): no secret is lost to nothing.
LosersOverlapWinners ==
    \A s \in lost : \E list \in {kept, merged} : \E i \in 1 .. Len(list) :
        Overlap(s, list[i]) /\ list[i].precedence <= s.precedence
=============================================================================
