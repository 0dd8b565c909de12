-------------------------- MODULE PreparationProofs --------------------------
(* What the pipeline does to one conversation, for texts, patterns and findings   *)
(* of any number: the spans kept are disjoint and in order, and a finding is      *)
(* given up only to one that is kept and overlaps it; the copy has the form of    *)
(* the input; the report counts the redactions of the text; nothing is found in a *)
(* rewritten text that no marker is part of; the data of Secrets is replaced.     *)
EXTENDS Preparation, SequenceTheorems, FiniteSetTheorems, FunctionTheorems, WellFoundedInduction, TLAPS

----------------------------------------------------------------------------
(* The settling of overlaps *)

\* Every list is a list of spans, and the walk is inside the list it walks.
MergeTypes ==
    /\ waiting \in Batches
    /\ incoming \in Seq(Span)
    /\ kept \in Seq(Span)
    /\ merged \in Seq(Span)
    /\ index \in 0 .. Len(kept)
    /\ merging \in BOOLEAN
    /\ lost \in SUBSET Span

\* What was put out ends before what is still to be walked begins.
Apart == \A i \in 1 .. Len(merged), j \in index + 1 .. Len(kept) : merged[i].end <= kept[j].start

\* What was put out begins no later than the findings that are to come, which come
\* in order.
Sorted ==
    /\ \A i \in 1 .. Len(merged), j \in 1 .. Len(incoming) : merged[i].start <= incoming[j].start
    /\ \A i, j \in 1 .. Len(incoming) : i < j => incoming[i].start <= incoming[j].start

\* Everything the walk has passed was put out.
Passed == \A i \in 1 .. index : \E j \in 1 .. Len(merged) : merged[j] = kept[i]

\* Everything kept or put out is at least as specific as what is to come.
Specific ==
    /\ \A i \in 1 .. Len(kept), j \in 1 .. Len(incoming) : kept[i].precedence <= incoming[j].precedence
    /\ \A i \in 1 .. Len(merged), j \in 1 .. Len(incoming) : merged[i].precedence <= incoming[j].precedence
    /\ \A i \in 1 .. Len(incoming), b \in 1 .. Len(waiting) : \A j \in 1 .. Len(waiting[b]) :
          incoming[i].precedence <= waiting[b][j].precedence
    /\ \A i \in 1 .. Len(kept), b \in 1 .. Len(waiting) : \A j \in 1 .. Len(waiting[b]) :
          kept[i].precedence <= waiting[b][j].precedence
    /\ \A i \in 1 .. Len(merged), b \in 1 .. Len(waiting) : \A j \in 1 .. Len(waiting[b]) :
          merged[i].precedence <= waiting[b][j].precedence
    /\ \A i, j \in 1 .. Len(incoming) : incoming[i].precedence = incoming[j].precedence

\* Between two walks nothing is half done.
Rest == ~merging => incoming = <<>> /\ merged = <<>> /\ index = 0

\* The part of the invariant that needs no order of the findings.
MInv == MergeTypes /\ OrderedAndDisjoint /\ Apart /\ Rest

\* The whole of it.
WInv == MInv /\ Sorted /\ Passed /\ Specific /\ LosersOverlapWinners

\* What a span is.
LEMMA SpanFields ==
    ASSUME NEW s \in Span
    PROVE  s.start \in Nat /\ s.end \in Nat /\ s.precedence \in Nat /\ s.start < s.end
BY DEF Span

\* The next batch of any is sorted, of one pattern, and before the others.
LEMMA FirstBatch ==
    ASSUME NEW w \in Batches, w # <<>>
    PROVE  /\ Head(w) \in Seq(Span) /\ Tail(w) \in Batches
           /\ \A i, j \in 1 .. Len(Head(w)) : i < j => Head(w)[i].start <= Head(w)[j].start
           /\ \A i, j \in 1 .. Len(Head(w)) : Head(w)[i].precedence = Head(w)[j].precedence
           /\ \A i \in 1 .. Len(Head(w)), b \in 1 .. Len(Tail(w)) : \A j \in 1 .. Len(Tail(w)[b]) :
                 Head(w)[i].precedence <= Tail(w)[b][j].precedence
<1>1. w \in Seq(Seq(Span)) /\ Len(w) \in Nat /\ Len(w) > 0 /\ Head(w) = w[1]
  BY DEF Batches
<1>2. Tail(w) \in Seq(Seq(Span)) /\ Len(Tail(w)) = Len(w) - 1
      /\ \A b \in 1 .. Len(Tail(w)) : Tail(w)[b] = w[b + 1]
  BY <1>1
<1>3. \A b \in 1 .. Len(w) : \A i \in 1 .. Len(w[b]) : w[b] \in Seq(Span) /\ w[b][i] \in Span
  BY <1>1
<1>4. ASSUME NEW b \in 1 .. Len(w), NEW i \in 1 .. Len(w[b]), NEW j \in 1 .. Len(w[b]), i < j
      PROVE  Before(w[b][i], w[b][j])
  BY <1>4 DEF Batches
<1>5. ASSUME NEW a \in 1 .. Len(w), NEW b \in 1 .. Len(w), NEW i \in 1 .. Len(w[a]), NEW j \in 1 .. Len(w[b])
      PROVE  /\ a = b => w[a][i].precedence = w[b][j].precedence
             /\ a < b => w[a][i].precedence < w[b][j].precedence
  <2>1. a < b => a # b
    BY <1>1
  <2> QED BY <2>1 DEF Batches
<1>6. Tail(w) \in Batches
  <2>1. \A b \in 1 .. Len(Tail(w)) : b + 1 \in 1 .. Len(w)
    BY <1>1, <1>2
  <2>2. \A b \in 1 .. Len(Tail(w)) : \A i, j \in 1 .. Len(Tail(w)[b]) : i < j => Before(Tail(w)[b][i], Tail(w)[b][j])
    BY <2>1, <1>2, <1>4
  <2>3. ASSUME NEW a \in 1 .. Len(Tail(w)), NEW b \in 1 .. Len(Tail(w)),
               NEW i \in 1 .. Len(Tail(w)[a]), NEW j \in 1 .. Len(Tail(w)[b])
        PROVE  IF a = b THEN Tail(w)[a][i].precedence = Tail(w)[b][j].precedence
               ELSE a < b => Tail(w)[a][i].precedence < Tail(w)[b][j].precedence
    <3>1. a + 1 \in 1 .. Len(w) /\ b + 1 \in 1 .. Len(w) /\ Tail(w)[a] = w[a + 1] /\ Tail(w)[b] = w[b + 1]
      BY <2>1, <1>2
    <3>2. /\ a + 1 = b + 1 => w[a + 1][i].precedence = w[b + 1][j].precedence
          /\ a + 1 < b + 1 => w[a + 1][i].precedence < w[b + 1][j].precedence
      BY <3>1, <1>5
    <3> QED BY <3>1, <3>2
  <2> QED BY <2>2, <2>3, <1>2 DEF Batches
<1>7. \A i, j \in 1 .. Len(Head(w)) : i < j => Head(w)[i].start <= Head(w)[j].start
  <2> SUFFICES ASSUME NEW i \in 1 .. Len(w[1]), NEW j \in 1 .. Len(w[1]), i < j PROVE w[1][i].start <= w[1][j].start
    BY <1>1
  <2>1. Before(w[1][i], w[1][j])
    BY <1>1, <1>4
  <2>2. w[1][i] \in Span /\ w[1][j] \in Span
    BY <1>1, <1>3
  <2> QED BY <2>1, <2>2, SpanFields DEF Before
<1>8. \A i, j \in 1 .. Len(Head(w)) : Head(w)[i].precedence = Head(w)[j].precedence
  BY <1>1, <1>5
<1>9. \A i \in 1 .. Len(Head(w)), b \in 1 .. Len(Tail(w)) : \A j \in 1 .. Len(Tail(w)[b]) :
          Head(w)[i].precedence <= Tail(w)[b][j].precedence
  <2> SUFFICES ASSUME NEW i \in 1 .. Len(w[1]), NEW b \in 1 .. Len(Tail(w)), NEW j \in 1 .. Len(Tail(w)[b])
               PROVE  w[1][i].precedence <= Tail(w)[b][j].precedence
    BY <1>1
  <2>1. b + 1 \in 1 .. Len(w) /\ 1 \in 1 .. Len(w) /\ 1 < b + 1 /\ Tail(w)[b] = w[b + 1]
    BY <1>1, <1>2
  <2>2. w[1][i].precedence < w[b + 1][j].precedence
    BY <2>1, <1>5
  <2>3. w[1][i] \in Span /\ w[b + 1][j] \in Span
    BY <2>1, <1>3
  <2> QED BY <2>1, <2>2, <2>3, SpanFields
<1> QED BY <1>1, <1>3, <1>6, <1>7, <1>8, <1>9

\* A step of the walk on a finding: the finding, and the rest behind it.
LEMMA Walk ==
    ASSUME MergeTypes, incoming # <<>>
    PROVE  /\ Head(incoming) = incoming[1] /\ Head(incoming) \in Span
           /\ Tail(incoming) \in Seq(Span) /\ Len(Tail(incoming)) = Len(incoming) - 1
           /\ \A i \in 1 .. Len(incoming) - 1 : Tail(incoming)[i] = incoming[i + 1]
           /\ Len(incoming) \in Nat /\ Len(incoming) > 0
BY DEF MergeTypes

\* One more span is put out.
LEMMA PutOut ==
    ASSUME MergeTypes, NEW s \in Span
    PROVE  /\ Append(merged, s) \in Seq(Span) /\ Len(Append(merged, s)) = Len(merged) + 1
           /\ \A i \in 1 .. Len(merged) : Append(merged, s)[i] = merged[i]
           /\ Append(merged, s)[Len(merged) + 1] = s
           /\ Len(merged) \in Nat
BY DEF MergeTypes

\* The walk's result and what it has not reached, one after the other.
LEMMA Joined ==
    ASSUME MergeTypes
    PROVE  LET all == merged \o SubSeq(kept, index + 1, Len(kept)) IN
           /\ all \in Seq(Span) /\ Len(all) = Len(merged) + (Len(kept) - index)
           /\ \A i \in 1 .. Len(merged) : all[i] = merged[i]
           /\ \A i \in 1 .. Len(kept) - index : all[Len(merged) + i] = kept[index + i]
           /\ Len(merged) \in Nat /\ Len(kept) \in Nat /\ index \in Nat /\ index <= Len(kept)
<1> DEFINE rest == SubSeq(kept, index + 1, Len(kept))
<1>1. Len(kept) \in Nat /\ Len(merged) \in Nat /\ index \in Nat /\ index <= Len(kept)
  BY DEF MergeTypes
<1>2. rest \in Seq(Span) /\ Len(rest) = Len(kept) - index
      /\ \A i \in 1 .. Len(kept) - index : rest[i] = kept[index + i]
  <2>1. \A i \in index + 1 .. Len(kept) : i \in 1 .. Len(kept)
    BY <1>1
  <2>2. \A i \in index + 1 .. Len(kept) : kept[i] \in Span
    BY <2>1 DEF MergeTypes
  <2>3. rest \in Seq(Span)
    BY <2>1, <1>1 DEF MergeTypes
  <2>4. Len(rest) = Len(kept) - index
    BY <1>1 DEF MergeTypes
  <2>5. ASSUME NEW i \in 1 .. Len(kept) - index PROVE rest[i] = kept[index + i]
    <3>1. rest[i] = kept[(index + 1) + i - 1]
      BY <1>1 DEF MergeTypes
    <3> QED BY <3>1, <1>1
  <2> QED BY <2>3, <2>4, <2>5
<1> HIDE DEF rest
<1>3. /\ merged \o rest \in Seq(Span) /\ Len(merged \o rest) = Len(merged) + Len(rest)
      /\ \A i \in 1 .. Len(merged) + Len(rest) :
            (merged \o rest)[i] = IF i <= Len(merged) THEN merged[i] ELSE rest[i - Len(merged)]
  BY <1>2, ConcatProperties DEF MergeTypes
<1>4. \A i \in 1 .. Len(merged) : (merged \o rest)[i] = merged[i]
  BY <1>1, <1>2, <1>3
<1>5. ASSUME NEW i \in 1 .. Len(kept) - index PROVE (merged \o rest)[Len(merged) + i] = kept[index + i]
  <2>1. Len(merged) + i \in 1 .. Len(merged) + Len(rest) /\ ~(Len(merged) + i <= Len(merged))
        /\ Len(merged) + i - Len(merged) = i
    BY <1>1, <1>2
  <2> QED BY <2>1, <1>2, <1>3
<1> QED BY <1>1, <1>2, <1>3, <1>4, <1>5 DEF rest

\* A span that begins behind all of a disjoint list may be put at its end.
LEMMA PutBehind ==
    ASSUME NEW old, NEW new, NEW n \in Nat, NEW s, Len(old) = n, Len(new) = n + 1, Disjoint(old),
           \A i \in 1 .. n : new[i] = old[i], new[n + 1] = s, \A i \in 1 .. n : old[i].end <= s.start
    PROVE  Disjoint(new)
<1>1. ASSUME NEW i \in 1 .. n + 1, NEW j \in 1 .. n + 1, i < j PROVE new[i].end <= new[j].start
  <2>1. i \in 1 .. n /\ (j \in 1 .. n \/ j = n + 1)
    BY <1>1
  <2>2. CASE j \in 1 .. n
    BY <1>1, <2>1, <2>2 DEF Disjoint
  <2>3. CASE j = n + 1
    BY <2>1, <2>3
  <2> QED BY <2>1, <2>2, <2>3
<1> QED BY <1>1 DEF Disjoint

\* The lists stay disjoint and in order.
LEMMA MergeInductive == MInv /\ [Next]_mergeVars => MInv'
<1> SUFFICES ASSUME MInv, [Next]_mergeVars PROVE MInv'
  OBVIOUS
<1> USE DEF MInv
<1>0. Len(kept) \in Nat /\ Len(merged) \in Nat /\ index \in Nat /\ index <= Len(kept)
  BY DEF MergeTypes
<1>1. CASE Begin
  <2>1. kept' = <<>> /\ lost' = {} /\ waiting' \in Batches
    BY <1>1 DEF Begin, Fresh
  <2>2. UNCHANGED <<incoming, index, merged, merging>> /\ ~merging
    BY <1>1 DEF Begin, Fresh
  <2>3. incoming = <<>> /\ merged = <<>> /\ index = 0
    BY <2>2 DEF Rest
  <2> QED BY <2>1, <2>2, <2>3 DEF MergeTypes, OrderedAndDisjoint, Disjoint, Apart, Rest
<1>2. CASE NextPattern
  <2>1. Head(waiting) \in Seq(Span) /\ Tail(waiting) \in Batches
    BY <1>2, FirstBatch DEF NextPattern, MergeTypes
  <2> QED BY <1>2, <2>1, <1>0 DEF NextPattern, MergeTypes, OrderedAndDisjoint, Disjoint, Apart, Rest
<1>3. CASE Pass
  <2> DEFINE k == kept[index + 1]
  <2>1. index + 1 \in 1 .. Len(kept) /\ k \in Span /\ k.end <= Head(incoming).start
    BY <1>3, <1>0 DEF Pass, Behind, MergeTypes
  <2>2. merged' = Append(merged, k) /\ index' = index + 1 /\ UNCHANGED <<waiting, incoming, kept, merging, lost>>
    BY <1>3 DEF Pass
  <2> HIDE DEF k
  <2>3. /\ merged' \in Seq(Span) /\ Len(merged') = Len(merged) + 1
        /\ \A i \in 1 .. Len(merged) : merged'[i] = merged[i]
        /\ merged'[Len(merged) + 1] = k
    BY <2>1, <2>2, PutOut
  <2>4. MergeTypes'
    BY <2>1, <2>2, <2>3, <1>0 DEF MergeTypes
  <2>5. \A i \in 1 .. Len(merged) : merged[i].end <= k.start
    BY <2>1, <1>0 DEF Apart, k
  <2>6. Disjoint(merged)'
    <3>1. Disjoint(merged)
      BY DEF OrderedAndDisjoint
    <3> QED BY ONLY <3>1, <2>3, <2>5, <1>0, PutBehind
  <2>7. \A j \in index + 2 .. Len(kept) : k.end <= kept[j].start
    BY <2>1, <1>0 DEF OrderedAndDisjoint, Disjoint, k
  <2>8. Apart'
    BY <2>2, <2>3, <2>7, <1>0 DEF Apart
  <2>9. Rest' /\ Disjoint(kept)'
    BY <1>3, <2>2 DEF Pass, Walking, Rest, OrderedAndDisjoint, Disjoint
  <2> QED BY <2>4, <2>6, <2>8, <2>9 DEF OrderedAndDisjoint
<1>4. CASE Drop
  <2>1. Head(incoming) \in Span /\ Tail(incoming) \in Seq(Span)
    BY <1>4, Walk DEF Drop, Walking
  <2>2. UNCHANGED <<waiting, kept, index, merged, merging>> /\ merging
        /\ incoming' = Tail(incoming) /\ lost' = lost \cup {Head(incoming)}
    BY <1>4 DEF Drop, Walking
  <2> QED BY <2>1, <2>2 DEF MergeTypes, OrderedAndDisjoint, Disjoint, Apart, Rest
<1>5. CASE Emit
  <2> DEFINE s == Head(incoming)
  <2>1. s \in Span /\ Tail(incoming) \in Seq(Span)
    BY <1>5, Walk DEF Emit, Walking
  <2>2. merged' = Append(merged, s) /\ incoming' = Tail(incoming) /\ UNCHANGED <<waiting, kept, index, merging, lost>>
        /\ merging
    BY <1>5 DEF Emit, Walking
  <2>3. /\ merged' \in Seq(Span) /\ Len(merged') = Len(merged) + 1
        /\ \A i \in 1 .. Len(merged) : merged'[i] = merged[i]
        /\ merged'[Len(merged) + 1] = s
    BY <2>1, <2>2, PutOut
  <2>4. MergeTypes'
    BY <2>1, <2>2, <2>3 DEF MergeTypes
  <2>5. ASSUME NEW i \in 1 .. Len(merged) PROVE merged[i].end <= s.start
    <3>1. merged # <<>> /\ Len(merged) \in 1 .. Len(merged)
      BY <1>0
    <3>2. merged[Len(merged)] \in Span /\ merged[i] \in Span
      BY <3>1 DEF MergeTypes
    <3>3. ~(merged[Len(merged)].end > s.start)
      BY <1>5, <3>1 DEF Emit, Repeated, LastMerged
    <3>4. i < Len(merged) => merged[i].end <= merged[Len(merged)].start
      BY <3>1, <1>0 DEF OrderedAndDisjoint, Disjoint
    <3>5. i = Len(merged) \/ i < Len(merged)
      BY <1>0
    <3> QED BY <2>1, <3>2, <3>3, <3>4, <3>5, SpanFields
  <2> HIDE DEF s
  <2>6. Disjoint(merged)'
    <3>1. \A i \in 1 .. Len(merged) : merged[i].end <= s.start
      BY <2>5
    <3>2. Disjoint(merged)
      BY DEF OrderedAndDisjoint
    <3> QED BY ONLY <2>3, <3>1, <3>2, <1>0, PutBehind
  <2>7. ASSUME NEW j \in index + 1 .. Len(kept) PROVE s.end <= kept[j].start
    <3>1. index < Len(kept) /\ index + 1 \in 1 .. Len(kept) /\ j \in 1 .. Len(kept)
      BY <1>0
    <3>2. kept[index + 1] \in Span /\ kept[j] \in Span
      BY <3>1 DEF MergeTypes
    <3>3. ~(kept[index + 1].start < s.end)
      BY <1>5, <3>1 DEF Emit, Beaten, s
    <3>4. index + 1 < j => kept[index + 1].end <= kept[j].start
      BY <3>1 DEF OrderedAndDisjoint, Disjoint
    <3>5. index + 1 = j \/ index + 1 < j
      BY <1>0
    <3> QED BY <2>1, <3>2, <3>3, <3>4, <3>5, SpanFields
  <2>8. Apart'
    BY <2>2, <2>3, <2>7, <1>0 DEF Apart
  <2>9. Rest' /\ Disjoint(kept)'
    BY <2>2 DEF Rest, OrderedAndDisjoint, Disjoint
  <2> QED BY <2>4, <2>6, <2>8, <2>9 DEF OrderedAndDisjoint
<1>6. CASE Finish
  <2> DEFINE all == merged \o SubSeq(kept, index + 1, Len(kept))
  <2>1. kept' = all /\ merging' = FALSE /\ index' = 0 /\ merged' = <<>> /\ UNCHANGED <<waiting, incoming, lost>>
        /\ incoming = <<>>
    BY <1>6 DEF Finish
  <2>2. /\ all \in Seq(Span) /\ Len(all) = Len(merged) + (Len(kept) - index)
        /\ \A i \in 1 .. Len(merged) : all[i] = merged[i]
        /\ \A i \in 1 .. Len(kept) - index : all[Len(merged) + i] = kept[index + i]
    BY Joined
  <2> HIDE DEF all
  <2>3. MergeTypes'
    <3>1. Len(all) \in Nat /\ 0 \in 0 .. Len(all)
      BY <2>2
    <3> QED BY <2>1, <2>2, <3>1 DEF MergeTypes
  <2>4. ASSUME NEW i \in 1 .. Len(all), NEW j \in 1 .. Len(all), i < j PROVE all[i].end <= all[j].start
    <3>1. CASE j <= Len(merged)
      <4>1. i \in 1 .. Len(merged) /\ j \in 1 .. Len(merged)
        BY <3>1, <2>4, <1>0
      <4>2. all[i] = merged[i] /\ all[j] = merged[j]
        BY <4>1, <2>2
      <4> QED BY <4>1, <4>2, <2>4 DEF OrderedAndDisjoint, Disjoint
    <3>2. CASE i <= Len(merged) /\ j > Len(merged)
      <4>1. j - Len(merged) \in 1 .. Len(kept) - index /\ j = Len(merged) + (j - Len(merged))
        BY <3>2, <2>2, <1>0
      <4>2. PICK d \in 1 .. Len(kept) - index : j = Len(merged) + d
        BY <4>1
      <4>3. all[j] = kept[index + d] /\ index + d \in index + 1 .. Len(kept)
        BY <4>2, <2>2, <1>0
      <4>4. i \in 1 .. Len(merged) /\ all[i] = merged[i]
        BY <3>2, <2>2, <1>0
      <4> QED BY <4>3, <4>4 DEF Apart
    <3>3. CASE i > Len(merged)
      <4>1. /\ i - Len(merged) \in 1 .. Len(kept) - index /\ i = Len(merged) + (i - Len(merged))
            /\ j - Len(merged) \in 1 .. Len(kept) - index /\ j = Len(merged) + (j - Len(merged))
        BY <3>3, <2>2, <2>4, <1>0
      <4>2. PICK c \in 1 .. Len(kept) - index : i = Len(merged) + c
        BY <4>1
      <4>3. PICK d \in 1 .. Len(kept) - index : j = Len(merged) + d
        BY <4>1
      <4>4. all[i] = kept[index + c] /\ index + c \in 1 .. Len(kept)
        BY <4>2, <2>2, <1>0
      <4>5. all[j] = kept[index + d] /\ index + d \in 1 .. Len(kept)
        BY <4>3, <2>2, <1>0
      <4>6. index + c < index + d
        BY <4>2, <4>3, <2>4, <1>0
      <4> QED BY <4>4, <4>5, <4>6 DEF OrderedAndDisjoint, Disjoint
    <3> QED BY <3>1, <3>2, <3>3, <1>0, <2>2
  <2>5. Disjoint(kept)'
    BY <2>1, <2>4 DEF Disjoint
  <2> QED BY <2>1, <2>3, <2>5 DEF OrderedAndDisjoint, Disjoint, Apart, Rest
<1>7. CASE UNCHANGED mergeVars
  BY <1>7 DEF mergeVars, MergeTypes, OrderedAndDisjoint, Disjoint, Apart, Rest
<1> QED BY <1>1, <1>2, <1>3, <1>4, <1>5, <1>6, <1>7 DEF Next, Merge

\* Before the first batch nothing is kept, lost or in hand.
LEMMA MergeInitial == Init => MInv
<1>1. <<>> \in Batches
  BY DEF Batches
<1>2. Init => MergeTypes
  <2>1. <<>> \in Seq(Span) /\ Len(<<>>) = 0 /\ 0 \in 0 .. 0
    OBVIOUS
  <2> QED BY <1>1, <2>1 DEF Init, MergeTypes
<1>3. Init => OrderedAndDisjoint /\ Apart /\ Rest
  BY DEF Init, OrderedAndDisjoint, Disjoint, Apart, Rest
<1> QED BY <1>2, <1>3 DEF MInv

\* The spans that are rewritten are disjoint and in order, whatever was found.
THEOREM MergeIsDisjoint == Spec => []OrderedAndDisjoint
<1>1. MInv => OrderedAndDisjoint
  BY DEF MInv
<1> QED BY <1>1, MergeInitial, MergeInductive, PTL DEF Spec

\* A finding in hand that meets a kept span, or the last that was put out, overlaps it.
LEMMA DropHasAWinner ==
    ASSUME WInv, Drop
    PROVE  \E list \in {kept, merged} : \E i \in 1 .. Len(list) :
              Overlap(Head(incoming), list[i]) /\ list[i].precedence <= Head(incoming).precedence
<1> USE DEF WInv, MInv
<1> DEFINE s == Head(incoming)
<1>1. incoming # <<>> /\ ~Behind /\ (Beaten \/ Repeated)
  BY DEF Drop, Walking
<1>2. s \in Span /\ s = incoming[1] /\ 1 \in 1 .. Len(incoming)
  BY <1>1, Walk
<1>3. Len(kept) \in Nat /\ Len(merged) \in Nat /\ index \in Nat
  BY DEF MergeTypes
<1>4. CASE Beaten
  <2>1. index + 1 \in 1 .. Len(kept)
    BY <1>3, <1>4 DEF Beaten
  <2>2. kept[index + 1] \in Span
    BY <2>1 DEF MergeTypes
  <2>3. kept[index + 1].start < s.end /\ ~(kept[index + 1].end <= s.start)
    BY <1>1, <1>4 DEF Beaten, Behind
  <2>4. Overlap(s, kept[index + 1])
    BY <1>2, <2>2, <2>3, SpanFields DEF Overlap
  <2>5. kept[index + 1].precedence <= s.precedence
    BY <1>2, <2>1 DEF Specific
  <2> QED BY <2>1, <2>4, <2>5
<1>5. CASE Repeated
  <2>1. Len(merged) \in 1 .. Len(merged)
    BY <1>3, <1>5 DEF Repeated
  <2>2. merged[Len(merged)] \in Span
    BY <2>1 DEF MergeTypes
  <2>3. merged[Len(merged)].end > s.start
    BY <1>5 DEF Repeated, LastMerged
  <2>4. merged[Len(merged)].start <= s.start
    BY <1>2, <2>1 DEF Sorted
  <2>5. Overlap(s, merged[Len(merged)])
    BY <1>2, <2>2, <2>3, <2>4, SpanFields DEF Overlap
  <2>6. merged[Len(merged)].precedence <= s.precedence
    BY <1>2, <2>1 DEF Specific
  <2> QED BY <2>1, <2>5, <2>6
<1> QED BY <1>1, <1>4, <1>5

\* The findings come in order, and what was put out stays the more specific.
LEMMA WinnersInductive == WInv /\ [Next]_mergeVars => WInv'
<1> SUFFICES ASSUME WInv, [Next]_mergeVars PROVE WInv'
  OBVIOUS
<1>0. MInv /\ MInv' /\ MergeTypes /\ MergeTypes'
  BY MergeInductive DEF WInv, MInv
<1>a. /\ Len(kept) \in Nat /\ Len(merged) \in Nat /\ index \in Nat /\ index <= Len(kept)
      /\ Len(incoming) \in Nat
  BY <1>0 DEF MergeTypes
<1> USE DEF WInv
<1>1. CASE Begin
  <2>1. kept' = <<>> /\ lost' = {} /\ incoming' = incoming /\ merged' = merged /\ index' = index /\ ~merging
    BY <1>1 DEF Begin, Fresh
  <2>2. incoming = <<>> /\ merged = <<>> /\ index = 0
    BY <2>1, <1>0 DEF MInv, Rest
  <2> QED BY <1>0, <2>1, <2>2 DEF Sorted, Passed, Specific, LosersOverlapWinners
<1>2. CASE NextPattern
  <2>1. waiting # <<>> /\ waiting \in Batches
    BY <1>0, <1>2 DEF NextPattern, MergeTypes
  <2>2. /\ incoming' = Head(waiting) /\ waiting' = Tail(waiting) /\ index' = 0 /\ merged' = <<>>
        /\ kept' = kept /\ lost' = lost /\ ~merging
    BY <1>2 DEF NextPattern
  <2>3. incoming = <<>> /\ merged = <<>>
    BY <2>2, <1>0 DEF MInv, Rest
  <2>4. /\ \A i, j \in 1 .. Len(Head(waiting)) : i < j => Head(waiting)[i].start <= Head(waiting)[j].start
        /\ \A i, j \in 1 .. Len(Head(waiting)) : Head(waiting)[i].precedence = Head(waiting)[j].precedence
        /\ \A i \in 1 .. Len(Head(waiting)), b \in 1 .. Len(Tail(waiting)) : \A j \in 1 .. Len(Tail(waiting)[b]) :
              Head(waiting)[i].precedence <= Tail(waiting)[b][j].precedence
    BY <2>1, FirstBatch
  <2>5. /\ 1 \in 1 .. Len(waiting) /\ Head(waiting) = waiting[1] /\ Len(Tail(waiting)) = Len(waiting) - 1
        /\ \A b \in 1 .. Len(Tail(waiting)) : b + 1 \in 1 .. Len(waiting) /\ Tail(waiting)[b] = waiting[b + 1]
    BY <2>1 DEF Batches
  <2>6. Sorted' /\ Passed'
    BY <2>2, <2>4 DEF Sorted, Passed
  <2>7. \A i \in 1 .. Len(kept), j \in 1 .. Len(Head(waiting)) : kept[i].precedence <= Head(waiting)[j].precedence
    BY <2>5 DEF Specific
  <2>8. \A i \in 1 .. Len(kept), b \in 1 .. Len(Tail(waiting)) : \A j \in 1 .. Len(Tail(waiting)[b]) :
          kept[i].precedence <= Tail(waiting)[b][j].precedence
    BY <2>5 DEF Specific
  <2>9. Specific'
    BY <2>2, <2>4, <2>7, <2>8 DEF Specific
  <2>10. LosersOverlapWinners'
    BY <2>2, <2>3 DEF LosersOverlapWinners
  <2> QED BY <1>0, <2>6, <2>9, <2>10
<1>3. CASE Pass
  <2> DEFINE k == kept[index + 1]
  <2>1. /\ index + 1 \in 1 .. Len(kept) /\ k \in Span /\ k.end <= Head(incoming).start
        /\ Head(incoming) \in Span /\ Head(incoming) = incoming[1] /\ 1 \in 1 .. Len(incoming)
    BY <1>0, <1>3, <1>a, Walk DEF Pass, Behind, Walking, MergeTypes
  <2>2. /\ merged' = Append(merged, k) /\ index' = index + 1
        /\ waiting' = waiting /\ incoming' = incoming /\ kept' = kept /\ lost' = lost
    BY <1>3 DEF Pass
  <2>3. /\ Len(merged') = Len(merged) + 1 /\ merged'[Len(merged) + 1] = k
        /\ \A i \in 1 .. Len(merged) : merged'[i] = merged[i]
    BY <1>0, <2>1, <2>2, PutOut
  <2>4. \A j \in 1 .. Len(incoming) : k.start <= incoming[j].start
    <3> SUFFICES ASSUME NEW j \in 1 .. Len(incoming) PROVE k.start <= incoming[j].start
      OBVIOUS
    <3>1. incoming[j] \in Span
      BY <1>0 DEF MergeTypes
    <3>2. incoming[1].start <= incoming[j].start
      <4>1. j = 1 \/ 1 < j
        BY <1>a
      <4> QED BY <4>1, <2>1, <3>1, SpanFields DEF Sorted
    <3> QED BY <2>1, <3>1, <3>2, SpanFields
  <2>5. /\ \A j \in 1 .. Len(incoming) : k.precedence <= incoming[j].precedence
        /\ \A b \in 1 .. Len(waiting) : \A j \in 1 .. Len(waiting[b]) : k.precedence <= waiting[b][j].precedence
    BY <2>1 DEF Specific
  <2> HIDE DEF k
  <2>6. Sorted'
    <3>1. \A i \in 1 .. Len(merged) + 1 : i \in 1 .. Len(merged) \/ i = Len(merged) + 1
      BY <1>a
    <3>2. ASSUME NEW i \in 1 .. Len(merged) + 1, NEW j \in 1 .. Len(incoming)
          PROVE  merged'[i].start <= incoming[j].start
      BY <3>1, <2>3, <2>4 DEF Sorted
    <3>3. Len(merged') = Len(merged) + 1 /\ incoming' = incoming
      BY <2>2, <2>3
    <3> QED BY <3>2, <3>3 DEF Sorted
  <2>7. Passed'
    <3> SUFFICES ASSUME NEW i \in 1 .. index + 1 PROVE \E j \in 1 .. Len(merged) + 1 : merged'[j] = kept[i]
      BY <2>2, <2>3 DEF Passed
    <3>1. CASE i \in 1 .. index
      <4>1. PICK j \in 1 .. Len(merged) : merged[j] = kept[i]
        BY <3>1 DEF Passed
      <4> QED BY <4>1, <2>3, <1>a
    <3>2. CASE i = index + 1
      BY <3>2, <2>3, <1>a DEF k
    <3> QED BY <3>1, <3>2, <1>a
  <2>8. Specific'
    <3>1. \A i \in 1 .. Len(merged) + 1 : i \in 1 .. Len(merged) \/ i = Len(merged) + 1
      BY <1>a
    <3>2. ASSUME NEW i \in 1 .. Len(merged) + 1, NEW j \in 1 .. Len(incoming)
          PROVE  merged'[i].precedence <= incoming[j].precedence
      BY <3>1, <2>3, <2>5 DEF Specific
    <3>3. ASSUME NEW i \in 1 .. Len(merged) + 1, NEW b \in 1 .. Len(waiting), NEW j \in 1 .. Len(waiting[b])
          PROVE  merged'[i].precedence <= waiting[b][j].precedence
      BY <3>1, <2>3, <2>5 DEF Specific
    <3>4. Len(merged') = Len(merged) + 1
      BY <2>3
    <3> QED BY <2>2, <3>2, <3>3, <3>4 DEF Specific
  <2>9. LosersOverlapWinners'
    <3> SUFFICES ASSUME NEW s \in lost
                 PROVE  \E list \in {kept, merged'} : \E i \in 1 .. Len(list) :
                            Overlap(s, list[i]) /\ list[i].precedence <= s.precedence
      BY <2>2 DEF LosersOverlapWinners
    <3>1. PICK list \in {kept, merged} : \E i \in 1 .. Len(list) :
                            Overlap(s, list[i]) /\ list[i].precedence <= s.precedence
      BY DEF LosersOverlapWinners
    <3>2. CASE list = kept
      BY <3>1, <3>2
    <3>3. CASE list = merged
      <4>1. PICK i \in 1 .. Len(merged) : Overlap(s, merged[i]) /\ merged[i].precedence <= s.precedence
        BY <3>1, <3>3
      <4>2. i \in 1 .. Len(merged') /\ merged'[i] = merged[i]
        BY <2>3, <1>a
      <4> QED BY <4>1, <4>2
    <3> QED BY <3>1, <3>2, <3>3
  <2> QED BY <1>0, <2>6, <2>7, <2>8, <2>9
<1>4. CASE Drop
  <2>1. /\ lost' = lost \cup {Head(incoming)} /\ incoming' = Tail(incoming)
        /\ waiting' = waiting /\ kept' = kept /\ index' = index /\ merged' = merged
    BY <1>4 DEF Drop
  <2>2. /\ Len(Tail(incoming)) = Len(incoming) - 1
        /\ \A i \in 1 .. Len(incoming) - 1 : Tail(incoming)[i] = incoming[i + 1] /\ i + 1 \in 1 .. Len(incoming)
    BY <1>0, <1>4, <1>a, Walk DEF Drop, Walking
  <2>3. Sorted'
    <3> DEFINE rest == Tail(incoming)
    <3>1. ASSUME NEW i \in 1 .. Len(merged), NEW j \in 1 .. Len(rest)
          PROVE  merged[i].start <= rest[j].start
      <4>1. rest[j] = incoming[j + 1] /\ j + 1 \in 1 .. Len(incoming)
        BY ONLY <2>2, <3>1
      <4> QED BY <4>1, <3>1 DEF Sorted
    <3>2. ASSUME NEW i \in 1 .. Len(rest), NEW j \in 1 .. Len(rest), i < j
          PROVE  rest[i].start <= rest[j].start
      <4>1. /\ rest[i] = incoming[i + 1] /\ i + 1 \in 1 .. Len(incoming)
            /\ rest[j] = incoming[j + 1] /\ j + 1 \in 1 .. Len(incoming)
        BY ONLY <2>2, <3>2
      <4>2. i + 1 < j + 1
        BY ONLY <3>2
      <4> QED BY <4>1, <4>2 DEF Sorted
    <3> QED BY ONLY <2>1, <3>1, <3>2 DEF Sorted
  <2>3a. Passed'
    BY <2>1, <1>a DEF Passed
  <2>3b. Specific'
    BY <2>1, <2>2, <1>a DEF Specific
  <2>4. LosersOverlapWinners'
    BY <2>1, <1>4, DropHasAWinner DEF LosersOverlapWinners
  <2> QED BY <1>0, <2>3, <2>3a, <2>3b, <2>4
<1>5. CASE Emit
  <2> DEFINE s == Head(incoming)
  <2>1. s \in Span /\ s = incoming[1] /\ 1 \in 1 .. Len(incoming)
    BY <1>0, <1>5, Walk DEF Emit, Walking
  <2>2. /\ merged' = Append(merged, s) /\ incoming' = Tail(incoming)
        /\ waiting' = waiting /\ kept' = kept /\ index' = index /\ lost' = lost
    BY <1>5 DEF Emit
  <2>3. /\ Len(merged') = Len(merged) + 1 /\ merged'[Len(merged) + 1] = s
        /\ \A i \in 1 .. Len(merged) : merged'[i] = merged[i]
    BY <1>0, <2>1, <2>2, PutOut
  <2>4. /\ Len(Tail(incoming)) = Len(incoming) - 1
        /\ \A i \in 1 .. Len(incoming) - 1 : Tail(incoming)[i] = incoming[i + 1] /\ i + 1 \in 1 .. Len(incoming)
                                            /\ 1 < i + 1
    BY <1>0, <1>5, <1>a, Walk DEF Emit, Walking
  <2> HIDE DEF s
  <2>5. Sorted'
    BY <2>1, <2>2, <2>3, <2>4, <1>a DEF Sorted
  <2>6. Passed'
    <3> SUFFICES ASSUME NEW i \in 1 .. index PROVE \E j \in 1 .. Len(merged) + 1 : merged'[j] = kept[i]
      BY <2>2, <2>3 DEF Passed
    <3>1. PICK j \in 1 .. Len(merged) : merged[j] = kept[i]
      BY DEF Passed
    <3> QED BY <3>1, <2>3, <1>a
  <2>7. /\ \A j \in 1 .. Len(incoming) - 1 : s.precedence <= incoming[j + 1].precedence
        /\ \A b \in 1 .. Len(waiting) : \A j \in 1 .. Len(waiting[b]) : s.precedence <= waiting[b][j].precedence
    <3>1. ASSUME NEW j \in 1 .. Len(incoming) - 1 PROVE s.precedence <= incoming[j + 1].precedence
      <4>1. s.precedence = incoming[j + 1].precedence
        BY <2>1, <2>4 DEF Specific
      <4> QED BY <4>1, <2>1, SpanFields
    <3> QED BY <2>1, <3>1 DEF Specific
  <2>8. Specific'
    <3>1. \A i \in 1 .. Len(merged) + 1 : i \in 1 .. Len(merged) \/ i = Len(merged) + 1
      BY <1>a
    <3>2. ASSUME NEW i \in 1 .. Len(merged) + 1, NEW j \in 1 .. Len(incoming) - 1
          PROVE  merged'[i].precedence <= incoming[j + 1].precedence
      <4>1. j + 1 \in 1 .. Len(incoming)
        BY <2>4
      <4> QED BY <3>1, <4>1, <2>3, <2>7 DEF Specific
    <3>3. ASSUME NEW i \in 1 .. Len(merged) + 1, NEW b \in 1 .. Len(waiting), NEW j \in 1 .. Len(waiting[b])
          PROVE  merged'[i].precedence <= waiting[b][j].precedence
      BY <3>1, <2>3, <2>7 DEF Specific
    <3>4. Len(merged') = Len(merged) + 1 /\ Len(incoming') = Len(incoming) - 1
      BY <2>2, <2>3, <2>4
    <3>5. \A i \in 1 .. Len(incoming) - 1 : incoming'[i] = incoming[i + 1] /\ i + 1 \in 1 .. Len(incoming)
      BY <2>2, <2>4
    <3>6. kept' = kept /\ waiting' = waiting
      BY <2>2
    <3>7. /\ \A i \in 1 .. Len(kept), j \in 1 .. Len(incoming') : kept[i].precedence <= incoming'[j].precedence
          /\ \A i \in 1 .. Len(incoming'), b \in 1 .. Len(waiting) : \A j \in 1 .. Len(waiting[b]) :
                incoming'[i].precedence <= waiting[b][j].precedence
          /\ \A i, j \in 1 .. Len(incoming') : incoming'[i].precedence = incoming'[j].precedence
      <4>1. \A i \in 1 .. Len(kept), j \in 1 .. Len(incoming') : kept[i].precedence <= incoming'[j].precedence
        BY <3>4, <3>5 DEF Specific
      <4>2. \A i \in 1 .. Len(incoming'), b \in 1 .. Len(waiting) : \A j \in 1 .. Len(waiting[b]) :
               incoming'[i].precedence <= waiting[b][j].precedence
        <5>1. \A i \in 1 .. Len(incoming), b \in 1 .. Len(waiting) : \A j \in 1 .. Len(waiting[b]) :
                 incoming[i].precedence <= waiting[b][j].precedence
          BY DEF Specific
        <5> QED BY ONLY <5>1, <3>4, <3>5
      <4>3. \A i, j \in 1 .. Len(incoming') : incoming'[i].precedence = incoming'[j].precedence
        BY <3>4, <3>5 DEF Specific
      <4> QED BY <4>1, <4>2, <4>3
    <3>8. \A i \in 1 .. Len(merged'), j \in 1 .. Len(incoming') : merged'[i].precedence <= incoming'[j].precedence
      BY ONLY <3>2, <3>4, <3>5
    <3>9. \A i \in 1 .. Len(merged'), b \in 1 .. Len(waiting) : \A j \in 1 .. Len(waiting[b]) :
             merged'[i].precedence <= waiting[b][j].precedence
      BY ONLY <3>3, <3>4
    <3> QED BY <3>6, <3>7, <3>8, <3>9 DEF Specific
  <2>9. LosersOverlapWinners'
    <3> SUFFICES ASSUME NEW l \in lost
                 PROVE  \E list \in {kept, merged'} : \E i \in 1 .. Len(list) :
                            Overlap(l, list[i]) /\ list[i].precedence <= l.precedence
      BY <2>2 DEF LosersOverlapWinners
    <3>1. PICK list \in {kept, merged} : \E i \in 1 .. Len(list) :
                            Overlap(l, list[i]) /\ list[i].precedence <= l.precedence
      BY DEF LosersOverlapWinners
    <3>2. CASE list = kept
      BY <3>1, <3>2
    <3>3. CASE list = merged
      <4>1. PICK i \in 1 .. Len(merged) : Overlap(l, merged[i]) /\ merged[i].precedence <= l.precedence
        BY <3>1, <3>3
      <4>2. i \in 1 .. Len(merged') /\ merged'[i] = merged[i]
        BY <2>3, <1>a
      <4> QED BY <4>1, <4>2
    <3> QED BY <3>1, <3>2, <3>3
  <2> QED BY <1>0, <2>5, <2>6, <2>8, <2>9
<1>6. CASE Finish
  <2> DEFINE all == merged \o SubSeq(kept, index + 1, Len(kept))
  <2>1. /\ kept' = all /\ index' = 0 /\ merged' = <<>> /\ incoming' = <<>> /\ incoming = <<>>
        /\ waiting' = waiting /\ lost' = lost
    BY <1>6 DEF Finish
  <2>2. /\ Len(all) = Len(merged) + (Len(kept) - index)
        /\ \A i \in 1 .. Len(merged) : all[i] = merged[i]
        /\ \A i \in 1 .. Len(kept) - index : all[Len(merged) + i] = kept[index + i]
    BY <1>0, Joined
  <2> HIDE DEF all
  <2>3. Sorted' /\ Passed'
    BY <2>1 DEF Sorted, Passed
  <2>4. ASSUME NEW i \in 1 .. Len(all)
        PROVE  (\E j \in 1 .. Len(merged) : all[i] = merged[j]) \/ (\E j \in 1 .. Len(kept) : all[i] = kept[j])
    <3>1. CASE i <= Len(merged)
      BY <3>1, <2>2, <1>a
    <3>2. CASE i > Len(merged)
      <4>1. i - Len(merged) \in 1 .. Len(kept) - index /\ i = Len(merged) + (i - Len(merged))
        BY <3>2, <2>2, <1>a
      <4>2. PICK d \in 1 .. Len(kept) - index : i = Len(merged) + d
        BY <4>1
      <4>3. all[i] = kept[index + d] /\ index + d \in 1 .. Len(kept)
        BY <4>2, <2>2, <1>a
      <4> QED BY <4>3
    <3> QED BY <3>1, <3>2, <1>a
  <2>5. ASSUME NEW j \in 1 .. Len(kept) PROVE \E i \in 1 .. Len(all) : all[i] = kept[j]
    <3>1. CASE j \in 1 .. index
      <4>1. PICK i \in 1 .. Len(merged) : merged[i] = kept[j]
        BY <3>1 DEF Passed
      <4> QED BY <4>1, <2>2, <1>a
    <3>2. CASE j > index
      <4>1. j - index \in 1 .. Len(kept) - index /\ j = index + (j - index)
        BY <3>2, <1>a
      <4>2. PICK d \in 1 .. Len(kept) - index : j = index + d
        BY <4>1
      <4>3. all[Len(merged) + d] = kept[j] /\ Len(merged) + d \in 1 .. Len(all)
        BY <4>2, <2>2, <1>a
      <4> QED BY <4>3
    <3> QED BY <3>1, <3>2, <1>a
  <2>6. ASSUME NEW j \in 1 .. Len(merged) PROVE \E i \in 1 .. Len(all) : all[i] = merged[j]
    BY <2>2, <1>a
  <2>7. Specific'
    <3>1. \A i \in 1 .. Len(all), b \in 1 .. Len(waiting) : \A j \in 1 .. Len(waiting[b]) :
              all[i].precedence <= waiting[b][j].precedence
      BY <2>4 DEF Specific
    <3> QED BY <2>1, <3>1 DEF Specific
  <2>8. LosersOverlapWinners'
    <3> SUFFICES ASSUME NEW s \in lost
                 PROVE  \E i \in 1 .. Len(all) : Overlap(s, all[i]) /\ all[i].precedence <= s.precedence
      BY <2>1 DEF LosersOverlapWinners
    <3>1. PICK list \in {kept, merged} : \E i \in 1 .. Len(list) :
                            Overlap(s, list[i]) /\ list[i].precedence <= s.precedence
      BY DEF LosersOverlapWinners
    <3>2. PICK i \in 1 .. Len(list) : Overlap(s, list[i]) /\ list[i].precedence <= s.precedence
      BY <3>1
    <3>3. \E j \in 1 .. Len(all) : all[j] = list[i]
      BY <3>1, <3>2, <2>5, <2>6
    <3> QED BY <3>2, <3>3
  <2> QED BY <1>0, <2>3, <2>7, <2>8
<1>7. CASE UNCHANGED mergeVars
  <2>1. UNCHANGED <<waiting, incoming, kept, merged, index, merging, lost>>
    BY <1>7 DEF mergeVars
  <2>2. Sorted' /\ Passed'
    BY <2>1 DEF Sorted, Passed
  <2>3. Specific'
    BY <2>1 DEF Specific
  <2>4. LosersOverlapWinners'
    BY <2>1 DEF LosersOverlapWinners
  <2> QED BY <1>0, <2>2, <2>3, <2>4
<1> QED BY <1>1, <1>2, <1>3, <1>4, <1>5, <1>6, <1>7 DEF Next, Merge

\* Before the first batch nothing was given up.
LEMMA WinnersInitial == Init => WInv
<1>1. Init => Sorted /\ Passed /\ Specific /\ LosersOverlapWinners
  BY DEF Init, Sorted, Passed, Specific, LosersOverlapWinners
<1> QED BY <1>1, MergeInitial DEF WInv

\* No finding is given up but to one that is kept, overlaps it and is as specific.
THEOREM NothingIsLostToNothing == Spec => []LosersOverlapWinners
<1>1. WInv => LosersOverlapWinners
  BY DEF WInv
<1> QED BY <1>1, WinnersInitial, WinnersInductive, PTL DEF Spec

\* Every nonempty set of natural numbers has a least member.
LEMMA HasLeast ==
  ASSUME NEW S \in SUBSET Nat, S # {}
  PROVE  \E n \in S : \A m \in S : n <= m
<1> DEFINE Below == OpToRel(<, Nat)
<1>1. IsWellFoundedOn(Below, Nat)
  BY NatLessThanWellFounded
<1>2. \A m, n \in Nat : m < n => <<m, n>> \in Below
  BY DEF OpToRel
<1> HIDE DEF Below
<1>3. PICK n \in S : \A m \in S : ~ (<<m, n>> \in Below)
  BY <1>1, WFMin
<1>4. \A m \in S : ~(m < n)
  BY <1>2, <1>3, Zenon
<1> QED
  BY <1>4

\* And every bounded one a greatest, which is its maximum.
LEMMA MaxOf ==
  ASSUME NEW S \in SUBSET Nat, S # {}, NEW b \in Nat, \A n \in S : n <= b
  PROVE  Max(S) \in S /\ \A n \in S : n <= Max(S)
<1> DEFINE T == {k \in Nat : \E n \in S : n + k = b}
<1>1. PICK n0 \in S : TRUE
  OBVIOUS
<1>2. b - n0 \in T
  BY <1>1
<1>3. T \in SUBSET Nat /\ T # {}
  BY <1>2
<1>4. PICK k \in T : \A m \in T : k <= m
  BY <1>3, HasLeast
<1>5. PICK n \in S : n + k = b
  BY <1>4
<1>6. ASSUME NEW m \in S PROVE m <= n
  <2>1. b - m \in T
    OBVIOUS
  <2>2. k <= b - m
    BY <1>4, <2>1
  <2> QED BY <2>2, <1>4, <1>5
<1>7. \E x \in S : \A y \in S : x >= y
  BY <1>5, <1>6
<1>8. Max(S) \in S /\ \A y \in S : Max(S) >= y
  BY <1>7 DEF Max
<1> QED BY <1>8

----------------------------------------------------------------------------
(* The members of a set of positions, in order *)

\* A finite set of positions is counted through in order.
LEMMA UpToCounts ==
  ASSUME NEW S \in SUBSET Nat, IsFiniteSet(S)
  PROVE  /\ Cardinality(S) \in Nat
         /\ \A i \in S : UpTo(S, i) \in 1 .. Cardinality(S)
         /\ \A i, j \in S : i < j => UpTo(S, i) < UpTo(S, j)
<1>1. Cardinality(S) \in Nat
  BY FS_CardinalityType
<1> DEFINE Low(i) == {j \in S : j <= i}
<1>2. ASSUME NEW i \in S
      PROVE  /\ IsFiniteSet(Low(i)) /\ Cardinality(Low(i)) \in Nat
             /\ Cardinality(Low(i)) <= Cardinality(S) /\ Cardinality(Low(i)) # 0
  <2>1. Low(i) \in SUBSET S /\ i \in Low(i)
    OBVIOUS
  <2> HIDE DEF Low
  <2>2. IsFiniteSet(Low(i)) /\ Cardinality(Low(i)) <= Cardinality(S)
    BY <2>1, FS_Subset
  <2>3. Cardinality(Low(i)) \in Nat /\ (Cardinality(Low(i)) = 0 => Low(i) = {})
    BY <2>2, FS_CardinalityType, FS_EmptySet
  <2> QED BY <2>1, <2>2, <2>3
<1>3. ASSUME NEW i \in S, NEW j \in S, i < j
      PROVE  Cardinality(Low(i)) < Cardinality(Low(j))
  <2>0. i \in Nat /\ j \in Nat
    OBVIOUS
  <2>1. Low(i) \in SUBSET Low(j) /\ j \in Low(j) /\ j \notin Low(i)
    <3>1. \A n \in S : n \in Nat /\ (n <= i => n <= j)
      BY <1>3, <2>0
    <3>2. j <= j /\ ~(j <= i)
      BY <1>3, <2>0
    <3> QED BY <3>1, <3>2
  <2>2. /\ IsFiniteSet(Low(j)) /\ Cardinality(Low(j)) \in Nat /\ Cardinality(Low(i)) \in Nat
    BY <1>2
  <2> HIDE DEF Low
  <2>3. Cardinality(Low(i)) <= Cardinality(Low(j)) /\ (Cardinality(Low(j)) = Cardinality(Low(i)) => Low(j) = Low(i))
    BY <2>1, <2>2, FS_Subset
  <2> QED BY <2>1, <2>2, <2>3
<1>4. \A i : UpTo(S, i) = Cardinality(Low(i))
  BY DEF UpTo
<1> HIDE DEF Low
<1> QED BY <1>1, <1>2, <1>3, <1>4

\* Ascending(S) lists S, each member once and in order.
LEMMA AscendingLists ==
  ASSUME NEW S \in SUBSET Nat, IsFiniteSet(S)
  PROVE  /\ Cardinality(S) \in Nat
         /\ Ascending(S) \in Seq(S) /\ Len(Ascending(S)) = Cardinality(S)
         /\ DOMAIN Ascending(S) = 1 .. Cardinality(S)
         /\ \A k \in 1 .. Cardinality(S) : Ascending(S)[k] \in S /\ Ascending(S)[k] \in Nat
         /\ \A k, l \in 1 .. Cardinality(S) : k < l => Ascending(S)[k] < Ascending(S)[l]
         /\ \A i \in S : \E k \in 1 .. Cardinality(S) : Ascending(S)[k] = i
<1> DEFINE c == Cardinality(S)
<1>1. /\ c \in Nat
      /\ \A i \in S : UpTo(S, i) \in 1 .. c
      /\ \A i, j \in S : i < j => UpTo(S, i) < UpTo(S, j)
  BY UpToCounts
<1> DEFINE f == [i \in S |-> UpTo(S, i)]
<1>2. f \in Injection(S, 1 .. c)
  <2>1. f \in [S -> 1 .. c]
    BY <1>1
  <2>2. ASSUME NEW i \in S, NEW j \in S, f[i] = f[j] PROVE i = j
    <3>1. UpTo(S, i) = UpTo(S, j) /\ UpTo(S, i) \in Nat
      BY <2>2, <1>1
    <3>2. ~(i < j) /\ ~(j < i)
      BY <3>1, <1>1
    <3> QED BY <3>2
  <2> QED BY <2>1, <2>2 DEF Injection, IsInjective
<1>3. IsFiniteSet(1 .. c) /\ Cardinality(1 .. c) = c
  BY <1>1, FS_Interval
<1> HIDE DEF f
<1>4. f \in Surjection(S, 1 .. c)
  BY <1>2, <1>3, FS_Injection
<1>5. \A k \in 1 .. c : \E i \in S : UpTo(S, i) = k
  BY <1>4 DEF Surjection, f
<1>6. \A k \in 1 .. c : Ascending(S)[k] = CHOOSE i \in S : UpTo(S, i) = k
  BY DEF Ascending
<1>7. \A k \in 1 .. c : Ascending(S)[k] \in S /\ UpTo(S, Ascending(S)[k]) = k
  BY <1>5, <1>6
<1>8. ASSUME NEW k \in 1 .. c, NEW l \in 1 .. c, k < l PROVE Ascending(S)[k] < Ascending(S)[l]
  <2>1. PICK x \in S : x = Ascending(S)[k] /\ UpTo(S, x) = k
    BY <1>7
  <2>2. PICK y \in S : y = Ascending(S)[l] /\ UpTo(S, y) = l
    BY <1>7
  <2>3. x \in Nat /\ y \in Nat /\ k \in Nat /\ l \in Nat
    BY <1>1
  <2>4. y < x => l < k
    BY <2>1, <2>2, <1>1
  <2>5. x # y
    BY <2>1, <2>2, <2>3, <1>8
  <2>6. x < y
    BY <2>3, <2>4, <2>5, <1>8
  <2> QED BY <2>1, <2>2, <2>6
<1>9. ASSUME NEW i \in S PROVE \E k \in 1 .. c : Ascending(S)[k] = i
  <2>1. UpTo(S, i) \in 1 .. c
    BY <1>1
  <2>2. PICK k \in 1 .. c : k = UpTo(S, i)
    BY <2>1
  <2>3. PICK x \in S : x = Ascending(S)[k] /\ UpTo(S, x) = k
    BY <1>7
  <2>4. (x < i => k < k) /\ (i < x => k < k)
    BY <2>2, <2>3, <1>1
  <2>5. k \in Nat /\ x \in Nat /\ i \in Nat
    BY <1>1
  <2>6. x = i
    BY <2>4, <2>5
  <2> QED BY <2>3, <2>6
<1>10. DOMAIN Ascending(S) = 1 .. c /\ Ascending(S) = [k \in 1 .. c |-> Ascending(S)[k]]
  BY DEF Ascending
<1>11. Ascending(S) \in Seq(S) /\ Len(Ascending(S)) = c
  <2>1. Ascending(S) \in [1 .. c -> S]
    BY <1>10, <1>7
  <2> HIDE DEF c
  <2> QED BY <2>1, <1>1, IsASeq, LenProperties
<1> QED BY <1>1, <1>7, <1>8, <1>9, <1>10, <1>11

----------------------------------------------------------------------------
(* Offsets *)

\* Products keep the order.
LEMMA ProductOrder ==
  ASSUME NEW w \in Nat, NEW a \in Nat, NEW b \in Nat, a < b
  PROVE  a * w \in Nat /\ b * w \in Nat /\ a * w + w <= b * w
<1>1. PICK d \in Nat : b = a + 1 + d
  <2>1. b - a - 1 \in Nat /\ b = a + 1 + (b - a - 1)
    OBVIOUS
  <2> QED BY <2>1
<1>2. b * w = a * w + w + d * w
  BY <1>1
<1>3. d * w \in Nat /\ a * w \in Nat
  OBVIOUS
<1> QED BY <1>2, <1>3

\* An offset is one line and one place in it.
LEMMA OffsetParts ==
  ASSUME NEW w \in Nat \ {0}, NEW q \in Nat, NEW r \in 0 .. w - 1
  PROVE  (q * w + r) \div w = q /\ ((q * w + r) % w) = r
<1>1. q * w \in Nat
  OBVIOUS
<1> QED BY SMTT(30)

\* An offset is its quotient and its remainder.
LEMMA PartsOffset ==
  ASSUME NEW w \in Nat \ {0}, NEW o \in Nat
  PROVE  o \div w \in Nat /\ o % w \in 0 .. w - 1 /\ o = (o \div w) * w + (o % w)
<1>1. o \div w \in Nat
  BY SMTT(30)
<1>2. o % w \in 0 .. w - 1
  BY SMTT(30)
<1>3. o = w * (o \div w) + (o % w)
  BY SMTT(30)
<1> QED BY <1>1, <1>2, <1>3

\* Place k of line l.
Place(l, k) == (l - 1) * Width + k

\* The line and the column of a place.
LEMMA PlaceParts ==
  ASSUME NEW l \in Nat \ {0}, NEW k \in 0 .. Width - 1
  PROVE  Place(l, k) \in Nat /\ LineAt(Place(l, k)) = l /\ Place(l, k) % Width = k
<1>1. l - 1 \in Nat /\ Width \in Nat \ {0} /\ k \in Nat
  BY TextAssumption
<1>2. (l - 1) * Width \in Nat
  BY <1>1
<1>3. ((l - 1) * Width + k) \div Width = l - 1 /\ (((l - 1) * Width + k) % Width) = k
  BY <1>1, OffsetParts
<1>4. l - 1 + 1 = l
  OBVIOUS
<1> QED BY <1>1, <1>2, <1>3, <1>4 DEF Place, LineAt

\* Every offset is a place.
LEMMA PlaceOfOffset ==
  ASSUME NEW o \in Nat
  PROVE  LineAt(o) \in Nat \ {0} /\ o % Width \in 0 .. Width - 1 /\ o = Place(LineAt(o), o % Width)
<1>1. o \div Width \in Nat /\ o % Width \in 0 .. Width - 1 /\ o = (o \div Width) * Width + (o % Width)
  BY TextAssumption, PartsOffset
<1>2. LineAt(o) - 1 = o \div Width /\ LineAt(o) \in Nat \ {0}
  BY <1>1 DEF LineAt
<1> QED BY <1>1, <1>2 DEF Place

\* Places are ordered by line, then by column.
LEMMA PlaceOrder ==
  ASSUME NEW l \in Nat \ {0}, NEW m \in Nat \ {0}, NEW j \in 0 .. Width - 1, NEW k \in 0 .. Width - 1
  PROVE  Place(l, j) < Place(m, k) <=> l < m \/ (l = m /\ j < k)
<1>1. Place(l, j) \in Nat /\ Place(m, k) \in Nat /\ Width \in Nat \ {0}
  BY PlaceParts, TextAssumption
<1>2. CASE l < m
  <2>1. l - 1 \in Nat /\ m - 1 \in Nat /\ l - 1 < m - 1
    BY <1>2
  <2>2. (l - 1) * Width \in Nat /\ (m - 1) * Width \in Nat /\ (l - 1) * Width + Width <= (m - 1) * Width
    BY <2>1, <1>1, ProductOrder
  <2>3. Place(l, j) < Place(m, k)
    <3> DEFINE a == (l - 1) * Width
               b == (m - 1) * Width
    <3>1. a \in Nat /\ b \in Nat /\ a + Width <= b
      BY <2>2
    <3> HIDE DEF a, b
    <3>2. a + j < b + k
      BY <3>1, <1>1
    <3> QED BY <3>2 DEF Place, a, b
  <2> QED BY <1>2, <2>3
<1>3. CASE m < l
  <2>1. l - 1 \in Nat /\ m - 1 \in Nat /\ m - 1 < l - 1
    BY <1>3
  <2>2. (l - 1) * Width \in Nat /\ (m - 1) * Width \in Nat /\ (m - 1) * Width + Width <= (l - 1) * Width
    BY <2>1, <1>1, ProductOrder
  <2>3. ~(Place(l, j) < Place(m, k))
    <3> DEFINE a == (l - 1) * Width
               b == (m - 1) * Width
    <3>1. a \in Nat /\ b \in Nat /\ b + Width <= a
      BY <2>2
    <3> HIDE DEF a, b
    <3>2. ~(a + j < b + k)
      BY <3>1, <1>1
    <3> QED BY <3>2 DEF Place, a, b
  <2> QED BY <1>3, <2>3
<1>4. CASE l = m
  <2>1. (l - 1) * Width \in Nat
    BY <1>1
  <2> DEFINE a == (l - 1) * Width
  <2> HIDE DEF a
  <2>2. a \in Nat
    BY <2>1 DEF a
  <2>3. a + j < a + k <=> j < k
    BY <2>2, <1>1
  <2> QED BY <2>3, <1>4 DEF Place, a
<1> QED BY <1>2, <1>3, <1>4

\* The offsets in a text are the places of its lines.
LEMMA OffsetsAre ==
  ASSUME NEW text \in Seq(Line)
  PROVE  /\ Offsets(text) \in SUBSET Nat /\ IsFiniteSet(Offsets(text))
         /\ \A o \in Nat : o \in Offsets(text) <=> LineAt(o) \in 1 .. Len(text)
<1>1. Len(text) \in Nat /\ Width \in Nat \ {0}
  BY TextAssumption
<1>2. Len(text) * Width \in Nat
  BY <1>1
<1>3. Offsets(text) \in SUBSET Nat /\ IsFiniteSet(Offsets(text))
  <2> DEFINE n == Len(text) * Width - 1
  <2>1. n \in Int
    BY <1>2
  <2> HIDE DEF n
  <2>2. IsFiniteSet(0 .. n) /\ 0 .. n \in SUBSET Nat
    BY <2>1, FS_Interval
  <2> QED BY <2>2 DEF Offsets, n
<1>4. ASSUME NEW o \in Nat PROVE o \in Offsets(text) <=> LineAt(o) \in 1 .. Len(text)
  <2>1. LineAt(o) \in Nat \ {0} /\ o % Width \in 0 .. Width - 1 /\ o = Place(LineAt(o), o % Width)
    BY PlaceOfOffset
  <2>2. Len(text) + 1 \in Nat \ {0} /\ 0 \in 0 .. Width - 1
    BY <1>1
  <2>3. Place(Len(text) + 1, 0) = Len(text) * Width
    BY <1>1, <1>2 DEF Place
  <2>4. o < Len(text) * Width <=> LineAt(o) < Len(text) + 1
    BY <2>1, <2>2, <2>3, PlaceOrder
  <2>5. o \in Offsets(text) <=> o < Len(text) * Width
    BY <1>2 DEF Offsets
  <2> QED BY <2>1, <2>4, <2>5, <1>1
<1> QED BY <1>3, <1>4

----------------------------------------------------------------------------
(* Lines *)

\* What a line of a text is.
LEMMA LineFacts ==
  ASSUME NEW text \in Seq(Line), NEW l \in 1 .. Len(text)
  PROVE  /\ text[l] \in Line
         /\ text[l].value \in Seq(Atoms) /\ Len(text[l].value) \in 0 .. Width - 1
         /\ DOMAIN text[l].value = 1 .. Len(text[l].value)
         /\ text[l].indent \in Nat /\ text[l].item \in BOOLEAN
<1>1. text[l] \in Line
  OBVIOUS
<1>2. text[l].value \in Seq(Atoms) /\ Len(text[l].value) < Width /\ text[l].indent \in Nat /\ text[l].item \in BOOLEAN
  BY <1>1 DEF Line
<1>3. Len(text[l].value) \in Nat /\ DOMAIN text[l].value = 1 .. Len(text[l].value)
  BY <1>2
<1>4. Len(text[l].value) \in 0 .. Width - 1
  BY <1>2, <1>3, TextAssumption
<1> QED BY <1>1, <1>2, <1>3, <1>4

\* The value up to the first space.
LEMMA WordFacts ==
  ASSUME NEW value \in Seq(Atoms)
  PROVE  /\ Word(value) \in Seq(Atoms) /\ Len(Word(value)) \in 0 .. Len(value)
         /\ \A j \in 1 .. Len(Word(value)) : Word(value)[j] = value[j] /\ value[j] # " "
         /\ Len(Word(value)) < Len(value) => value[Len(Word(value)) + 1] = " "
<1> DEFINE S == {k \in 0 .. Len(value) : \A j \in 1 .. k : value[j] # " "}
           n == Max(S)
<1>1. Len(value) \in Nat
  OBVIOUS
<1>0. \A k : k \in S <=> k \in 0 .. Len(value) /\ \A j \in 1 .. k : value[j] # " "
  OBVIOUS
<1> HIDE DEF S
<1>2. \A k \in S : k \in Nat /\ k <= Len(value)
  <2>1. \A k \in 0 .. Len(value) : k \in Nat /\ k <= Len(value)
    BY <1>1
  <2> QED BY <1>0, <2>1
<1>3. 0 \in S
  <2>1. 0 \in 0 .. Len(value) /\ 1 .. 0 = {}
    BY <1>1
  <2> QED BY <2>1, <1>0
<1>4. n \in S /\ \A k \in S : k <= n
  <2>1. S \in SUBSET Nat /\ S # {}
    BY <1>2, <1>3
  <2> QED BY <1>1, <1>2, <2>1, MaxOf
<1> HIDE DEF n
<1>5. n \in 0 .. Len(value)
  BY <1>0, <1>4
<1>6. \A j \in 1 .. n : value[j] # " "
  BY <1>0, <1>4
<1>7. n \in Nat /\ n <= Len(value) /\ (n < Len(value) => n + 1 \in 0 .. Len(value) /\ ~(n + 1 <= n))
  BY ONLY <1>5, <1>1
<1>8. \A j \in 1 .. n + 1 : j \in 1 .. n \/ j = n + 1
  BY ONLY <1>7
<1>9. n < Len(value) => value[n + 1] = " "
  <2> SUFFICES ASSUME n < Len(value), value[n + 1] # " " PROVE FALSE
    OBVIOUS
  <2>1. n + 1 \in S
    BY <1>0, <1>6, <1>7, <1>8
  <2> QED BY <2>1, <1>4, <1>7
<1>10. Word(value) = SubSeq(value, 1, n)
  BY DEF Word, n, S
<1>11. /\ SubSeq(value, 1, n) \in Seq(Atoms) /\ Len(SubSeq(value, 1, n)) = n
       /\ \A j \in 1 .. n : SubSeq(value, 1, n)[j] = value[j]
  <2>1. value \in Seq(Atoms) /\ 1 \in 1 .. Len(value) + 1 /\ n \in 0 .. Len(value)
    BY <1>1, <1>5
  <2> HIDE DEF n
  <2>2. SubSeq(value, 1, n) \in Seq(Atoms) /\ Len(SubSeq(value, 1, n)) = n
    <3>1. \A i \in 1 .. n : value[i] \in Atoms
      BY <2>1, <1>7
    <3>2. Len(SubSeq(value, 1, n)) = IF 1 <= n THEN n - 1 + 1 ELSE 0
      BY ONLY <2>1, <3>1, <1>7, SubSeqProperties
    <3>3. SubSeq(value, 1, n) \in Seq(Atoms)
      BY ONLY <2>1, <3>1, <1>7, SubSeqProperties
    <3> QED BY <3>2, <3>3, <1>7
  <2>3. \A j \in 1 .. n : SubSeq(value, 1, n)[j] = value[1 + j - 1]
    BY ONLY <2>1, <2>2, <1>7, SubSeqProperties
  <2>4. \A j \in 1 .. n : 1 + j - 1 = j
    BY ONLY <1>7
  <2> QED BY <2>2, <2>3, <2>4
<1> QED BY <1>5, <1>6, <1>9, <1>10, <1>11

----------------------------------------------------------------------------
(* What each pattern finds *)

\* The findings of one pattern, as resolve takes them.
Batch(b, p) ==
    /\ b \in Seq(Span)
    /\ \A i, j \in 1 .. Len(b) : i < j => Before(b[i], b[j])
    /\ \A i \in 1 .. Len(b) : b[i].precedence = p

In(b, s) == \E n \in 1 .. Len(b) : b[n] = s

SpanAt(o, length, category, p) == [start |-> o, end |-> o + length, category |-> category, precedence |-> p]

\* A span that is not empty.
LEMMA SpanAtIs ==
  ASSUME NEW o \in Nat, NEW length \in Nat \ {0}, NEW c \in Categories, NEW p \in Nat
  PROVE  /\ SpanAt(o, length, c, p) \in Span
         /\ SpanAt(o, length, c, p).start = o /\ SpanAt(o, length, c, p).end = o + length
         /\ SpanAt(o, length, c, p).precedence = p
BY DEF SpanAt, Span

\* A function on 1 .. n is a sequence.
LEMMA FunctionIsSeq ==
  ASSUME NEW n \in Nat, NEW S, NEW f, f \in [1 .. n -> S]
  PROVE  f \in Seq(S) /\ Len(f) = n
<1>1. f \in Seq(S)
  BY IsASeq
<1>2. DOMAIN f = 1 .. n /\ DOMAIN f = 1 .. Len(f) /\ Len(f) \in Nat
  BY <1>1, LenProperties
<1> QED BY <1>1, <1>2

\* Matches of a word begin at different offsets.
LEMMA TokensFind ==
  ASSUME NEW text \in Seq(Line), NEW word, Len(word) \in Nat \ {0}, NEW p \in Nat
  PROVE  /\ Batch(Tokens(text, word, p), p)
         /\ \A s : In(Tokens(text, word, p), s) <=>
                \E o \in Offsets(text) : AtomsAt(text, o, Len(word)) = word /\ s = SpanAt(o, Len(word), "token", p)
<1> DEFINE S == {o \in Offsets(text) : AtomsAt(text, o, Len(word)) = word}
           starts == Ascending(S)
           n == Cardinality(S)
           b == Tokens(text, word, p)
<1>1. S \in SUBSET Nat /\ IsFiniteSet(S)
  <2>1. S \in SUBSET Offsets(text) /\ Offsets(text) \in SUBSET Nat /\ IsFiniteSet(Offsets(text))
    BY OffsetsAre
  <2> HIDE DEF S
  <2> QED BY <2>1, FS_Subset
<1>2. b = [k \in DOMAIN starts |-> SpanAt(starts[k], Len(word), "token", p)]
  BY DEF Tokens, SpanAt
<1>s. \A o : o \in S <=> o \in Offsets(text) /\ AtomsAt(text, o, Len(word)) = word
  OBVIOUS
<1> HIDE DEF S, b
<1>3. /\ n \in Nat /\ DOMAIN starts = 1 .. n
      /\ \A k \in 1 .. n : starts[k] \in S /\ starts[k] \in Nat
      /\ \A k, l \in 1 .. n : k < l => starts[k] < starts[l]
      /\ \A o \in S : \E k \in 1 .. n : starts[k] = o
  BY <1>1, AscendingLists
<1> HIDE DEF starts, n
<1>4. "token" \in Categories
  BY PreparationAssumption
<1>5. \A k \in 1 .. n : /\ b[k] = SpanAt(starts[k], Len(word), "token", p)
                        /\ b[k] \in Span /\ b[k].start = starts[k] /\ b[k].precedence = p
  <2> SUFFICES ASSUME NEW k \in 1 .. n
               PROVE  /\ b[k] = SpanAt(starts[k], Len(word), "token", p)
                      /\ b[k] \in Span /\ b[k].start = starts[k] /\ b[k].precedence = p
    OBVIOUS
  <2>1. b[k] = SpanAt(starts[k], Len(word), "token", p)
    BY <1>2, <1>3
  <2>2. starts[k] \in Nat
    BY <1>3
  <2>3. Len(word) \in Nat \ {0} /\ p \in Nat
    OBVIOUS
  <2>4. /\ SpanAt(starts[k], Len(word), "token", p) \in Span
        /\ SpanAt(starts[k], Len(word), "token", p).start = starts[k]
        /\ SpanAt(starts[k], Len(word), "token", p).precedence = p
    <3> DEFINE c == "token"
               len == Len(word)
               o == starts[k]
    <3>1. o \in Nat /\ len \in Nat \ {0} /\ c \in Categories /\ p \in Nat
      BY <2>2, <2>3, <1>4
    <3> HIDE DEF c, len, o
    <3>2. SpanAt(o, len, c, p) \in Span /\ SpanAt(o, len, c, p).start = o /\ SpanAt(o, len, c, p).precedence = p
      BY ONLY <3>1, SpanAtIs, SMTT(30)
    <3> QED BY ONLY <3>2 DEF c, len, o
  <2> QED BY ONLY <2>1, <2>4
<1>6. b \in Seq(Span) /\ Len(b) = n
  <2>1. b \in [1 .. n -> Span]
    BY <1>2, <1>3, <1>5
  <2> QED BY <2>1, <1>3, FunctionIsSeq
<1>7. Batch(b, p)
  BY <1>3, <1>5, <1>6 DEF Batch, Before
<1>8. ASSUME NEW s PROVE In(b, s) <=> \E o \in S : s = SpanAt(o, Len(word), "token", p)
  BY <1>3, <1>5, <1>6 DEF In
<1> QED BY <1>7, <1>8, <1>s DEF b

KeyedSpan(text, l, category, p) == SpanAt(Place(l, 1), Len(Word(text[l].value)), category, p)

\* Values beside keys, found line by line; a line may be found twice.
LEMMA KeyedFind ==
  ASSUME NEW text \in Seq(Line), NEW n \in Nat, NEW lines \in [1 .. n -> 1 .. Len(text)],
         \A i, j \in 1 .. n : i < j => lines[i] <= lines[j],
         \A i \in 1 .. n : Word(text[lines[i]].value) # <<>>,
         NEW c \in Categories, NEW p \in Nat
  PROVE  /\ Batch(Keyed(text, lines, c, p), p)
         /\ \A s : In(Keyed(text, lines, c, p), s) <=> \E i \in 1 .. n : s = KeyedSpan(text, lines[i], c, p)
<1> DEFINE b == Keyed(text, lines, c, p)
<1>1. b = [i \in 1 .. n |-> KeyedSpan(text, lines[i], c, p)]
  <2>1. DOMAIN lines = 1 .. n
    OBVIOUS
  <2> QED BY <2>1 DEF Keyed, KeyedSpan, SpanAt, Place
<1> HIDE DEF b
<1>0. Width \in Nat \ {0}
  BY TextAssumption
<1>2. ASSUME NEW i \in 1 .. n
      PROVE  /\ lines[i] \in Nat \ {0} /\ lines[i] \in 1 .. Len(text)
             /\ Len(Word(text[lines[i]].value)) \in Nat \ {0}
             /\ 1 \in 0 .. Width - 1 /\ Place(lines[i], 1) \in Nat
  <2>1. lines[i] \in 1 .. Len(text) /\ lines[i] \in Nat \ {0}
    OBVIOUS
  <2>2. PICK l \in 1 .. Len(text) : l = lines[i]
    BY <2>1
  <2>3. text[l].value \in Seq(Atoms) /\ Len(text[l].value) \in 0 .. Width - 1
    BY LineFacts
  <2>4. Word(text[l].value) \in Seq(Atoms) /\ Len(Word(text[l].value)) \in 0 .. Len(text[l].value)
    BY <2>3, WordFacts
  <2>5. Word(text[l].value) # <<>>
    BY <2>2
  <2>6. Len(Word(text[l].value)) \in Nat \ {0}
    BY <2>4, <2>5, EmptySeq
  <2>7. 1 \in 0 .. Width - 1
    BY ONLY <2>3, <2>4, <2>6, <1>0
  <2> QED BY <2>1, <2>2, <2>6, <2>7, PlaceParts
<1>3. \A i \in 1 .. n : /\ b[i] = KeyedSpan(text, lines[i], c, p)
                        /\ b[i] \in Span /\ b[i].start = Place(lines[i], 1) /\ b[i].precedence = p
                        /\ b[i].end \in Nat
  <2> SUFFICES ASSUME NEW i \in 1 .. n
               PROVE  /\ b[i] = KeyedSpan(text, lines[i], c, p)
                      /\ b[i] \in Span /\ b[i].start = Place(lines[i], 1) /\ b[i].precedence = p
                      /\ b[i].end \in Nat
    OBVIOUS
  <2>1. b[i] = KeyedSpan(text, lines[i], c, p)
    BY <1>1
  <2>2. Place(lines[i], 1) \in Nat /\ Len(Word(text[lines[i]].value)) \in Nat \ {0}
    BY <1>2
  <2>3. b[i] = SpanAt(Place(lines[i], 1), Len(Word(text[lines[i]].value)), c, p)
    BY <2>1 DEF KeyedSpan
  <2>4. b[i] \in Span /\ b[i].start = Place(lines[i], 1) /\ b[i].precedence = p
    <3> DEFINE len == Len(Word(text[lines[i]].value))
               o == Place(lines[i], 1)
    <3> HIDE DEF len, o
    <3>1. o \in Nat /\ len \in Nat \ {0} /\ c \in Categories /\ p \in Nat
      BY <2>2 DEF len, o
    <3>2. /\ SpanAt(o, len, c, p) \in Span /\ SpanAt(o, len, c, p).start = o /\ SpanAt(o, len, c, p).precedence = p
      BY ONLY <3>1, SpanAtIs, SMTT(30)
    <3>3. b[i] = SpanAt(o, len, c, p)
      BY <2>3 DEF len, o
    <3> QED BY ONLY <3>2, <3>3 DEF o
  <2> QED BY <2>1, <2>4, SpanFields
<1>4. b \in Seq(Span) /\ Len(b) = n
  <2>1. b \in [1 .. n -> Span]
    BY <1>1, <1>3
  <2> QED BY <2>1, FunctionIsSeq
<1>5. ASSUME NEW i \in 1 .. n, NEW j \in 1 .. n, i < j PROVE Before(b[i], b[j])
  <2>1. lines[i] <= lines[j] /\ lines[i] \in Nat \ {0} /\ lines[j] \in Nat \ {0} /\ 1 \in 0 .. Width - 1
    BY <1>2, <1>5
  <2>2. CASE lines[i] = lines[j]
    <3>1. b[i] = b[j] /\ b[i].end \in Nat
      BY <1>3, <2>2
    <3>2. b[i].start = b[j].start /\ b[i].end >= b[j].end
      BY <3>1
    <3> QED BY <3>2 DEF Before
  <2>3. CASE lines[i] # lines[j]
    <3>1. lines[i] < lines[j]
      BY <2>1, <2>3
    <3>2. Place(lines[i], 1) < Place(lines[j], 1)
      BY <2>1, <3>1, PlaceOrder
    <3> QED BY <3>2, <1>3 DEF Before
  <2> QED BY <2>2, <2>3
<1>6. Batch(b, p)
  BY <1>3, <1>4, <1>5 DEF Batch
<1>7. \A s : In(b, s) <=> \E i \in 1 .. n : s = KeyedSpan(text, lines[i], c, p)
  BY <1>3, <1>4 DEF In
<1> QED BY <1>6, <1>7 DEF b

\* Whole quotients keep the order.
LEMMA QuotientOrder ==
  ASSUME NEW w \in Nat \ {0}, NEW a \in Nat, NEW b \in Nat, a < b
  PROVE  a \div w <= b \div w
<1> DEFINE p == a \div w
           q == b \div w
           r == a % w
           s == b % w
<1>1. p \in Nat /\ r \in 0 .. w - 1 /\ a = p * w + r /\ q \in Nat /\ s \in 0 .. w - 1 /\ b = q * w + s
  BY PartsOffset
<1> HIDE DEF p, q, r, s
<1>2. CASE q < p
  <2>1. q * w \in Nat /\ p * w \in Nat /\ q * w + w <= p * w
    BY <1>1, <1>2, ProductOrder
  <2> DEFINE x == q * w
             y == p * w
  <2>2. x \in Nat /\ y \in Nat /\ x + w <= y /\ a = y + r /\ b = x + s
    BY <2>1, <1>1
  <2> HIDE DEF x, y
  <2>3. FALSE
    BY <2>2, <1>1
  <2> QED BY <2>3
<1>3. CASE ~(q < p)
  BY <1>1, <1>3 DEF p, q
<1> QED BY <1>2, <1>3

----------------------------------------------------------------------------
(* The blocks of Secrets *)

\* The lines of a block after its key.
InBlock(text, i, l) == i < l /\ l <= BlockEnd(text, i)

\* A block ends in the text, at a line that holds something and before which none
\* ends it.
LEMMA BlockFacts ==
  ASSUME NEW text \in Seq(Line), NEW i \in 1 .. Len(text)
  PROVE  /\ BlockEnd(text, i) \in i .. Len(text)
         /\ \A l \in Nat : InBlock(text, i, l) <=>
              \E j \in i + 1 .. Len(text) :
                  /\ i < l /\ l <= j /\ ~Blank(text[j])
                  /\ \A k \in i + 1 .. j :
                        Blank(text[k]) \/ (~Separator(text[k]) /\ text[k].indent > text[i].indent)
<1> DEFINE Ends(j) == /\ ~Blank(text[j])
                      /\ \A k \in i + 1 .. j :
                            Blank(text[k]) \/ (~Separator(text[k]) /\ text[k].indent > text[i].indent)
           B == {j \in i + 1 .. Len(text) : Ends(j)}
           S == {i} \cup B
           e == BlockEnd(text, i)
<1>1. e = Max(S)
  BY DEF BlockEnd
<1> HIDE DEF e, Ends
<1>2. Len(text) \in Nat /\ i \in Nat /\ i <= Len(text)
  OBVIOUS
<1>3. \A j : j \in S <=> j = i \/ (j \in i + 1 .. Len(text) /\ Ends(j))
  OBVIOUS
<1> HIDE DEF S
<1>4. \A j \in S : j \in Nat /\ j <= Len(text) /\ i <= j
  BY <1>2, <1>3
<1>5. S \in SUBSET Nat /\ S # {}
  BY <1>3, <1>4
<1>6. e \in S /\ \A j \in S : j <= e
  BY <1>1, <1>2, <1>4, <1>5, MaxOf
<1>7. e \in i .. Len(text)
  BY <1>4, <1>6, <1>2
<1>8. ASSUME NEW l \in Nat PROVE (i < l /\ l <= e) <=> \E j \in i + 1 .. Len(text) : i < l /\ l <= j /\ Ends(j)
  <2>1. ASSUME i < l, l <= e PROVE \E j \in i + 1 .. Len(text) : i < l /\ l <= j /\ Ends(j)
    <3>1. e # i
      BY <2>1, <1>2, <1>7
    <3>2. e \in i + 1 .. Len(text) /\ Ends(e)
      BY <3>1, <1>3, <1>6
    <3> QED BY <2>1, <3>2
  <2>2. ASSUME NEW j \in i + 1 .. Len(text), i < l, l <= j, Ends(j) PROVE i < l /\ l <= e
    <3>1. j <= e
      BY <2>2, <1>3, <1>6
    <3> QED BY <2>2, <3>1, <1>2, <1>7
  <2> QED BY <2>1, <2>2
<1> QED BY <1>7, <1>8 DEF e, Ends, InBlock

\* What the pattern of the block takes from a line.
ValueFound(text, l) ==
    /\ text[l].indent > 0 /\ ~text[l].item
    /\ text[l].key \notin {None, "---"}
    /\ Word(text[l].value) = text[l].value /\ Credential(text[l].value)

\* In a block of a Secret.
InSecret(text, l) == \E i \in 1 .. Len(text) : SecretBlock(text, i) /\ InBlock(text, i, l)

\* The blocks of a text are those of the data keys of its Secrets.
LEMMA BlocksAre ==
  ASSUME NEW text \in Seq(Line)
  PROVE  LET blocks == SecretManifestBlocks(text)
         IN  /\ Len(blocks) \in Nat
             /\ \A n \in 1 .. Len(blocks) :
                   \E i \in 1 .. Len(text) : /\ SecretBlock(text, i)
                                             /\ blocks[n].first = i + 1 /\ blocks[n].last = BlockEnd(text, i)
             /\ \A i \in 1 .. Len(text) : SecretBlock(text, i) =>
                   \E n \in 1 .. Len(blocks) : blocks[n].first = i + 1 /\ blocks[n].last = BlockEnd(text, i)
<1> DEFINE S == {i \in DOMAIN text : SecretBlock(text, i)}
           opening == Ascending(S)
           blocks == SecretManifestBlocks(text)
           m == Cardinality(S)
<1>0. DOMAIN text = 1 .. Len(text) /\ Len(text) \in Nat
  OBVIOUS
<1>1. S \in SUBSET Nat /\ IsFiniteSet(S)
  <2>1. S \in SUBSET (1 .. Len(text))
    BY <1>0
  <2>2. IsFiniteSet(1 .. Len(text)) /\ 1 .. Len(text) \in SUBSET Nat
    BY <1>0, FS_Interval
  <2> HIDE DEF S
  <2> QED BY <2>1, <2>2, FS_Subset
<1>2. blocks = [n \in DOMAIN opening |-> [first |-> opening[n] + 1, last |-> BlockEnd(text, opening[n])]]
  BY DEF SecretManifestBlocks
<1>s. \A i : i \in S <=> i \in 1 .. Len(text) /\ SecretBlock(text, i)
  BY <1>0
<1> HIDE DEF S, blocks
<1>3. /\ m \in Nat /\ DOMAIN opening = 1 .. m
      /\ \A k \in 1 .. m : opening[k] \in S
      /\ \A i \in S : \E k \in 1 .. m : opening[k] = i
  BY <1>1, AscendingLists
<1> HIDE DEF opening, m
<1>4. Len(blocks) = m
  <2>1. blocks \in [1 .. m -> {blocks[k] : k \in 1 .. m}]
    BY <1>2, <1>3
  <2> QED BY <2>1, <1>3, FunctionIsSeq
<1>5. \A k \in 1 .. m : blocks[k].first = opening[k] + 1 /\ blocks[k].last = BlockEnd(text, opening[k])
  BY <1>2, <1>3
<1>6. Len(blocks) \in Nat
  BY <1>3, <1>4
<1>7. \A n \in 1 .. Len(blocks) :
         \E i \in 1 .. Len(text) : SecretBlock(text, i) /\ blocks[n].first = i + 1 /\ blocks[n].last = BlockEnd(text, i)
  BY <1>3, <1>4, <1>5, <1>s
<1>8. ASSUME NEW i \in 1 .. Len(text), SecretBlock(text, i)
      PROVE  \E n \in 1 .. Len(blocks) : blocks[n].first = i + 1 /\ blocks[n].last = BlockEnd(text, i)
  <2>1. i \in S
    BY <1>8, <1>s
  <2>2. PICK k \in 1 .. m : opening[k] = i
    BY <2>1, <1>3
  <2> QED BY <2>2, <1>4, <1>5
<1> QED BY <1>6, <1>7, <1>8 DEF blocks

\* A value that may be a credential is not empty.
LEMMA CredentialIsThere ==
  ASSUME NEW value \in Seq(Atoms), Credential(value)
  PROVE  value # <<>>
<1>1. value = <<>> => IsPlaceholder(value)
  <2>1. Len(<<>>) = 0 /\ 1 .. 0 = {}
    OBVIOUS
  <2> QED BY <2>1 DEF IsPlaceholder
<1> QED BY <1>1 DEF Credential

\* The values in the blocks of Secrets, a line in two blocks twice.
LEMMA BlockValuesFind ==
  ASSUME NEW text \in Seq(Line)
  PROVE  /\ Batch(BlockValues(text), 2)
         /\ \A s : In(BlockValues(text), s) <=>
                \E l \in 1 .. Len(text) : /\ ValueFound(text, l) /\ InSecret(text, l)
                                          /\ s = KeyedSpan(text, l, "kubernetes", 2)
<1> DEFINE blocks == SecretManifestBlocks(text)
           m == Len(blocks)
           S == {n \in 0 .. Len(text) * m - 1 :
                   /\ blocks[(n % m) + 1].first <= (n \div m) + 1 /\ (n \div m) + 1 <= blocks[(n % m) + 1].last
                   /\ ValueFound(text, (n \div m) + 1)}
           hits == Ascending(S)
           c == Cardinality(S)
           lines == [n \in DOMAIN hits |-> (hits[n] \div m) + 1]
<1>0. Len(text) \in Nat
  OBVIOUS
<1>1. BlockValues(text) = Keyed(text, lines, "kubernetes", 2)
  BY DEF BlockValues, ValueFound
<1>2. /\ m \in Nat
      /\ \A n \in 1 .. m :
            \E i \in 1 .. Len(text) : SecretBlock(text, i) /\ blocks[n].first = i + 1 /\ blocks[n].last = BlockEnd(text, i)
      /\ \A i \in 1 .. Len(text) : SecretBlock(text, i) =>
            \E n \in 1 .. m : blocks[n].first = i + 1 /\ blocks[n].last = BlockEnd(text, i)
  BY BlocksAre
<1> HIDE DEF blocks, m
<1>3. \A n : n \in S <=>
         /\ n \in 0 .. Len(text) * m - 1
         /\ blocks[(n % m) + 1].first <= (n \div m) + 1 /\ (n \div m) + 1 <= blocks[(n % m) + 1].last
         /\ ValueFound(text, (n \div m) + 1)
  OBVIOUS
<1> HIDE DEF S
<1>4. S \in SUBSET Nat /\ IsFiniteSet(S)
  <2> DEFINE b == Len(text) * m - 1
  <2>1. b \in Int
    BY <1>0, <1>2
  <2>2. S \in SUBSET (0 .. b)
    BY <1>3
  <2> HIDE DEF b
  <2>3. IsFiniteSet(0 .. b) /\ 0 .. b \in SUBSET Nat
    BY <2>1, FS_Interval
  <2> QED BY <2>2, <2>3, FS_Subset
<1>5. /\ c \in Nat /\ DOMAIN hits = 1 .. c
      /\ \A k \in 1 .. c : hits[k] \in S /\ hits[k] \in Nat
      /\ \A k, l \in 1 .. c : k < l => hits[k] < hits[l]
      /\ \A n \in S : \E k \in 1 .. c : hits[k] = n
  BY <1>4, AscendingLists
<1> HIDE DEF hits, c
<1>6. ASSUME NEW n \in S
      PROVE  /\ m \in Nat \ {0} /\ n \in Nat
             /\ (n \div m) + 1 \in 1 .. Len(text) /\ ValueFound(text, (n \div m) + 1) /\ InSecret(text, (n \div m) + 1)
  <2>1. n \in Nat /\ n < Len(text) * m
    <3> DEFINE b == Len(text) * m
    <3>1. b \in Nat
      BY <1>0, <1>2
    <3>2. n \in 0 .. b - 1
      BY <1>3
    <3> HIDE DEF b
    <3>3. n \in Nat /\ n < b
      BY <3>1, <3>2
    <3> QED BY <3>3 DEF b
  <2>2. m # 0
    <3>1. m = 0 => Len(text) * m = 0
      BY <1>0
    <3> QED BY <2>1, <3>1
  <2>3. m \in Nat \ {0}
    BY <1>2, <2>2
  <2> DEFINE q == n \div m
             r == n % m
  <2>4. q \in Nat /\ r \in 0 .. m - 1 /\ n = q * m + r
    BY <2>1, <2>3, PartsOffset
  <2>5. q < Len(text)
    <3>1. Len(text) <= q => FALSE
      <4> SUFFICES ASSUME Len(text) <= q PROVE FALSE
        OBVIOUS
      <4> HIDE DEF q, r
      <4>1. Len(text) * m <= q * m
        <5>1. CASE Len(text) = q
          BY <5>1, <2>3, <2>4
        <5>2. CASE Len(text) < q
          <6>1. Len(text) * m \in Nat /\ q * m \in Nat /\ Len(text) * m + m <= q * m
            BY ONLY <5>2, <2>3, <2>4, <1>0, ProductOrder
          <6> DEFINE x == Len(text) * m
                     y == q * m
          <6>2. x \in Nat /\ y \in Nat /\ x + m <= y
            BY <6>1
          <6> HIDE DEF x, y
          <6>3. x <= y
            BY ONLY <6>2, <2>3
          <6> QED BY <6>3 DEF x, y
        <5> QED BY <5>1, <5>2, <2>4, <1>0
      <4>2. Len(text) * m \in Nat /\ q * m \in Nat
        BY ONLY <1>0, <2>3, <2>4
      <4> DEFINE x == Len(text) * m
                 y == q * m
      <4>3. x \in Nat /\ y \in Nat /\ x <= y /\ n < x /\ n = y + r /\ r \in 0 .. m - 1
        BY <4>1, <4>2, <2>1, <2>4
      <4> HIDE DEF x, y
      <4> QED BY ONLY <4>3, <2>3
    <3> HIDE DEF q
    <3> QED BY ONLY <3>1, <2>4, <1>0
  <2>6. blocks[r + 1].first <= q + 1 /\ q + 1 <= blocks[r + 1].last /\ ValueFound(text, q + 1)
    BY <1>3
  <2> HIDE DEF q, r
  <2>7. r + 1 \in 1 .. m /\ q + 1 \in 1 .. Len(text)
    BY ONLY <2>3, <2>4, <2>5, <1>0
  <2>8. PICK i \in 1 .. Len(text) : /\ SecretBlock(text, i)
                                    /\ blocks[r + 1].first = i + 1 /\ blocks[r + 1].last = BlockEnd(text, i)
    BY <2>7, <1>2
  <2>9. i < q + 1
    <3>1. i + 1 <= q + 1
      BY ONLY <2>6, <2>8
    <3> QED BY ONLY <3>1, <2>4, <2>8
  <2>10. InSecret(text, q + 1)
    BY <2>6, <2>8, <2>9 DEF InSecret, InBlock
  <2> QED BY <2>1, <2>3, <2>6, <2>7, <2>10 DEF q
<1>7. ASSUME NEW l \in 1 .. Len(text), ValueFound(text, l), InSecret(text, l)
      PROVE  \E n \in S : (n \div m) + 1 = l
  <2>1. PICK i \in 1 .. Len(text) : SecretBlock(text, i) /\ i < l /\ l <= BlockEnd(text, i)
    BY <1>7 DEF InSecret, InBlock
  <2>2. PICK k \in 1 .. m : blocks[k].first = i + 1 /\ blocks[k].last = BlockEnd(text, i)
    BY <2>1, <1>2
  <2>3. m \in Nat \ {0} /\ l - 1 \in Nat /\ k - 1 \in 0 .. m - 1
    BY <1>2, <2>2
  <2> DEFINE n == (l - 1) * m + (k - 1)
  <2>4. n \div m = l - 1 /\ (n % m) = k - 1
    <3> DEFINE q == l - 1
               r == k - 1
    <3>1. q \in Nat /\ r \in 0 .. m - 1
      BY <2>3
    <3> HIDE DEF q, r
    <3>2. (q * m + r) \div m = q /\ ((q * m + r) % m) = r
      BY ONLY <3>1, <2>3, OffsetParts
    <3> QED BY <3>2 DEF q, r
  <2>5. n \in 0 .. Len(text) * m - 1
    <3> DEFINE q == l - 1
               r == k - 1
               x == q * m
               y == Len(text) * m
    <3>1. q \in Nat /\ r \in 0 .. m - 1 /\ q < Len(text)
      BY <2>3
    <3> HIDE DEF q, r
    <3>2. x \in Nat /\ y \in Nat /\ x + m <= y
      BY ONLY <3>1, <2>3, <1>0, ProductOrder
    <3> HIDE DEF x, y
    <3>3. x + r \in 0 .. y - 1
      BY ONLY <3>1, <3>2, <2>3
    <3> QED BY <3>3 DEF x, y, q, r
  <2> HIDE DEF n
  <2>6. l - 1 + 1 = l /\ k - 1 + 1 = k /\ i + 1 <= l
    BY <2>1
  <2>7. n \in S
    BY <2>1, <2>2, <2>4, <2>5, <2>6, <1>3, <1>7
  <2> QED BY <2>4, <2>6, <2>7
<1>8. /\ lines \in [1 .. c -> 1 .. Len(text)]
      /\ \A i \in 1 .. c : lines[i] = (hits[i] \div m) + 1
  BY <1>5, <1>6
<1>9. \A i, j \in 1 .. c : i < j => lines[i] <= lines[j]
  <2> SUFFICES ASSUME NEW i \in 1 .. c, NEW j \in 1 .. c, i < j PROVE lines[i] <= lines[j]
    OBVIOUS
  <2>1. hits[i] \in Nat /\ hits[j] \in Nat /\ hits[i] < hits[j] /\ m \in Nat \ {0}
    BY <1>5, <1>6
  <2> DEFINE p == hits[i] \div m
             q == hits[j] \div m
  <2>2. p <= q /\ p \in Nat /\ q \in Nat
    BY <2>1, QuotientOrder, PartsOffset
  <2> HIDE DEF p, q
  <2>3. p + 1 <= q + 1
    BY <2>2
  <2> QED BY <2>3, <1>8 DEF p, q
<1>10. \A i \in 1 .. c : Word(text[lines[i]].value) # <<>>
  <2> SUFFICES ASSUME NEW i \in 1 .. c PROVE Word(text[lines[i]].value) # <<>>
    OBVIOUS
  <2>1. PICK l \in 1 .. Len(text) : l = lines[i]
    BY <1>8
  <2>2. ValueFound(text, l)
    BY <2>1, <1>5, <1>6, <1>8
  <2>3. text[l].value \in Seq(Atoms)
    BY LineFacts
  <2>4. text[l].value # <<>>
    BY <2>2, <2>3, CredentialIsThere DEF ValueFound
  <2> QED BY <2>1, <2>2, <2>4 DEF ValueFound
<1>11. "kubernetes" \in Categories /\ 2 \in Nat
  BY PreparationAssumption
<1> HIDE DEF lines
<1>12. /\ Batch(Keyed(text, lines, "kubernetes", 2), 2)
       /\ \A s : In(Keyed(text, lines, "kubernetes", 2), s) <=> \E i \in 1 .. c : s = KeyedSpan(text, lines[i], "kubernetes", 2)
  <2> DEFINE k == "kubernetes"
             p == 2
  <2>1. k \in Categories /\ p \in Nat /\ c \in Nat
    BY <1>11, <1>5
  <2> HIDE DEF k, p
  <2>2. /\ Batch(Keyed(text, lines, k, p), p)
        /\ \A s : In(Keyed(text, lines, k, p), s) <=> \E i \in 1 .. c : s = KeyedSpan(text, lines[i], k, p)
    BY <2>1, <1>8, <1>9, <1>10, KeyedFind
  <2> QED BY <2>2 DEF k, p
<1>13. ASSUME NEW s
       PROVE  (\E i \in 1 .. c : s = KeyedSpan(text, lines[i], "kubernetes", 2)) <=>
              \E l \in 1 .. Len(text) : /\ ValueFound(text, l) /\ InSecret(text, l)
                                        /\ s = KeyedSpan(text, l, "kubernetes", 2)
  <2>1. ASSUME NEW i \in 1 .. c
        PROVE  lines[i] \in 1 .. Len(text) /\ ValueFound(text, lines[i]) /\ InSecret(text, lines[i])
    <3>1. hits[i] \in S /\ lines[i] = (hits[i] \div m) + 1
      BY <1>5, <1>8
    <3> QED BY <3>1, <1>6
  <2>2. ASSUME NEW l \in 1 .. Len(text), ValueFound(text, l), InSecret(text, l)
        PROVE  \E i \in 1 .. c : lines[i] = l
    <3>1. PICK n \in S : (n \div m) + 1 = l
      BY <2>2, <1>7
    <3>2. PICK i \in 1 .. c : hits[i] = n
      BY <1>5
    <3> QED BY <3>1, <3>2, <1>8
  <2> QED BY <2>1, <2>2
<1> QED BY <1>1, <1>12, <1>13

\* The value beside the key password.
PasswordFound(text, l) == text[l].key = "password" /\ Credential(Word(text[l].value))

\* Every password is found, and nothing else under that pattern.
LEMMA PasswordsFind ==
  ASSUME NEW text \in Seq(Line)
  PROVE  /\ Batch(Passwords(text), 3)
         /\ \A s : In(Passwords(text), s) <=>
                \E l \in 1 .. Len(text) : PasswordFound(text, l) /\ s = KeyedSpan(text, l, "password", 3)
<1> DEFINE S == {l \in DOMAIN text : text[l].key = "password" /\ Credential(Word(text[l].value))}
           lines == Ascending(S)
           c == Cardinality(S)
<1>0. DOMAIN text = 1 .. Len(text) /\ Len(text) \in Nat
  OBVIOUS
<1>1. Passwords(text) = Keyed(text, lines, "password", 3)
  BY DEF Passwords
<1>2. \A l : l \in S <=> l \in 1 .. Len(text) /\ PasswordFound(text, l)
  BY <1>0 DEF PasswordFound
<1>3. S \in SUBSET Nat /\ IsFiniteSet(S)
  <2>1. S \in SUBSET (1 .. Len(text))
    BY <1>0
  <2>2. IsFiniteSet(1 .. Len(text)) /\ 1 .. Len(text) \in SUBSET Nat
    BY <1>0, FS_Interval
  <2> HIDE DEF S
  <2> QED BY <2>1, <2>2, FS_Subset
<1> HIDE DEF S
<1>4. /\ c \in Nat /\ DOMAIN lines = 1 .. c /\ lines \in Seq(S) /\ Len(lines) = c
      /\ \A k \in 1 .. c : lines[k] \in S
      /\ \A k, l \in 1 .. c : k < l => lines[k] < lines[l]
      /\ \A n \in S : \E k \in 1 .. c : lines[k] = n
  BY <1>3, AscendingLists
<1> HIDE DEF lines, c
<1>5. lines \in [1 .. c -> 1 .. Len(text)]
  <2>1. lines \in [1 .. c -> S]
    BY <1>4
  <2> QED BY <2>1, <1>2
<1>6. \A i, j \in 1 .. c : i < j => lines[i] <= lines[j]
  <2>1. \A i \in 1 .. c : lines[i] \in Nat
    BY <1>5
  <2> QED BY <2>1, <1>4
<1>7. \A i \in 1 .. c : Word(text[lines[i]].value) # <<>>
  <2> SUFFICES ASSUME NEW i \in 1 .. c PROVE Word(text[lines[i]].value) # <<>>
    OBVIOUS
  <2>1. PICK l \in 1 .. Len(text) : l = lines[i]
    BY <1>5
  <2>2. PasswordFound(text, l)
    BY <2>1, <1>2, <1>4
  <2>3. Word(text[l].value) \in Seq(Atoms)
    BY LineFacts, WordFacts
  <2> QED BY <2>1, <2>2, <2>3, CredentialIsThere DEF PasswordFound
<1>8. /\ Batch(Keyed(text, lines, "password", 3), 3)
      /\ \A s : In(Keyed(text, lines, "password", 3), s) <=> \E i \in 1 .. c : s = KeyedSpan(text, lines[i], "password", 3)
  <2> DEFINE k == "password"
             p == 3
  <2>1. k \in Categories /\ p \in Nat /\ c \in Nat
    BY <1>4, PreparationAssumption
  <2> HIDE DEF k, p
  <2>2. /\ Batch(Keyed(text, lines, k, p), p)
        /\ \A s : In(Keyed(text, lines, k, p), s) <=> \E i \in 1 .. c : s = KeyedSpan(text, lines[i], k, p)
    BY <2>1, <1>5, <1>6, <1>7, KeyedFind
  <2> QED BY <2>2 DEF k, p
<1>9. ASSUME NEW s
      PROVE  (\E i \in 1 .. c : s = KeyedSpan(text, lines[i], "password", 3)) <=>
             \E l \in 1 .. Len(text) : PasswordFound(text, l) /\ s = KeyedSpan(text, l, "password", 3)
  BY <1>2, <1>4
<1> QED BY <1>1, <1>8, <1>9

----------------------------------------------------------------------------
(* find_spans *)

\* Batches below a precedence.
Below(w, p) == w \in Batches /\ \A a \in 1 .. Len(w) : \A i \in 1 .. Len(w[a]) : w[a][i].precedence < p

InAny(w, s) == \E a \in 1 .. Len(w) : In(w[a], s)

\* The findings of one more pattern follow those of the patterns before.
LEMMA OneMore ==
  ASSUME NEW p \in Nat, NEW w, Below(w, p), NEW b, Batch(b, p)
  PROVE  Below(w \o IfAny(b), p + 1) /\ \A s : InAny(w \o IfAny(b), s) <=> InAny(w, s) \/ In(b, s)
<1>1. w \in Seq(Seq(Span)) /\ b \in Seq(Span) /\ Len(w) \in Nat
  BY DEF Below, Batch, Batches
<1>2. CASE b = <<>>
  <2>1. w \o IfAny(b) = w
    BY <1>1, <1>2, ConcatEmptySeq DEF IfAny
  <2>2. \A s : ~In(b, s)
    BY <1>2 DEF In
  <2>3. ASSUME NEW a \in 1 .. Len(w), NEW i \in 1 .. Len(w[a]) PROVE w[a][i].precedence < p + 1
    <3>1. w[a][i].precedence < p /\ w[a][i] \in Span
      BY <1>1 DEF Below
    <3> QED BY <3>1, SpanFields
  <2> QED BY <2>1, <2>2, <2>3 DEF Below
<1>3. CASE b # <<>>
  <2> DEFINE v == w \o <<b>>
             n == Len(w)
  <2>1. w \o IfAny(b) = v
    BY <1>3 DEF IfAny
  <2>2. /\ v \in Seq(Seq(Span)) /\ Len(v) = n + 1 /\ n \in Nat
        /\ \A a \in 1 .. n : v[a] = w[a]
        /\ v[n + 1] = b
    BY <1>1
  <2> HIDE DEF v, n
  <2>n. n = Len(w)
    BY DEF n
  <2>3. \A a \in 1 .. n + 1 : a \in 1 .. n \/ a = n + 1
    BY <2>2
  <2>4. ASSUME NEW a \in 1 .. n + 1, NEW i \in 1 .. Len(v[a])
        PROVE  /\ v[a][i].precedence \in Nat
               /\ a \in 1 .. n => v[a][i].precedence < p
               /\ a = n + 1 => v[a][i].precedence = p
    <3>1. CASE a \in 1 .. n
      <4>1. v[a] = w[a] /\ w[a] \in Seq(Span)
        BY <3>1, <2>2, <2>n, <1>1
      <4>2. v[a][i] \in Span /\ v[a][i].precedence < p
        BY <4>1, <3>1, <2>n DEF Below
      <4>3. a # n + 1
        BY <3>1, <2>2
      <4> QED BY <3>1, <4>2, <4>3, SpanFields
    <3>2. CASE a = n + 1
      <4>1. v[a] = b /\ v[a][i].precedence = p
        BY <3>2, <2>2 DEF Batch
      <4>2. a \notin 1 .. n
        BY <3>2, <2>2
      <4> QED BY <4>1, <4>2
    <3> QED BY <3>1, <3>2, <2>3
  <2>5. ASSUME NEW a \in 1 .. n + 1, NEW i \in 1 .. Len(v[a]), NEW j \in 1 .. Len(v[a]), i < j
        PROVE  Before(v[a][i], v[a][j])
    <3>1. CASE a \in 1 .. n
      <4>1. v[a] = w[a]
        BY <3>1, <2>2
      <4> QED BY <4>1, <3>1, <2>5, <2>n DEF Below, Batches
    <3>2. CASE a = n + 1
      BY <3>2, <2>2, <2>5 DEF Batch
    <3> QED BY <3>1, <3>2, <2>3
  <2>6. ASSUME NEW a \in 1 .. n + 1, NEW c \in 1 .. n + 1, NEW i \in 1 .. Len(v[a]), NEW j \in 1 .. Len(v[c])
        PROVE  IF a = c THEN v[a][i].precedence = v[c][j].precedence
               ELSE a < c => v[a][i].precedence < v[c][j].precedence
    <3>1. CASE a \in 1 .. n /\ c \in 1 .. n
      <4>1. v[a] = w[a] /\ v[c] = w[c] /\ a \in 1 .. Len(w) /\ c \in 1 .. Len(w)
        BY <3>1, <2>2, <2>n
      <4>2. i \in 1 .. Len(w[a]) /\ j \in 1 .. Len(w[c])
        BY <4>1
      <4>3. IF a = c THEN w[a][i].precedence = w[c][j].precedence
            ELSE a < c => w[a][i].precedence < w[c][j].precedence
        BY <4>1, <4>2 DEF Below, Batches
      <4> QED BY <4>1, <4>3
    <3>2. CASE a \in 1 .. n /\ c = n + 1
      <4>1. v[a][i].precedence < p /\ v[c][j].precedence = p
        BY <3>2, <2>4
      <4>2. a # c
        BY <3>2, <2>2
      <4> QED BY <4>1, <4>2
    <3>3. CASE a = n + 1 /\ c \in 1 .. n
      <4>1. ~(a < c) /\ a # c
        BY <3>3, <2>2
      <4> QED BY <4>1
    <3>4. CASE a = n + 1 /\ c = n + 1
      BY <3>4, <2>4
    <3> QED BY <3>1, <3>2, <3>3, <3>4, <2>3
  <2>7. v \in Batches
    BY <2>2, <2>5, <2>6 DEF Batches
  <2>8. ASSUME NEW a \in 1 .. n + 1, NEW i \in 1 .. Len(v[a]) PROVE v[a][i].precedence < p + 1
    <3>1. v[a][i].precedence \in Nat /\ (v[a][i].precedence < p \/ v[a][i].precedence = p)
      BY <2>3, <2>4
    <3> QED BY <3>1
  <2>9. ASSUME NEW s PROVE InAny(v, s) <=> InAny(w, s) \/ In(b, s)
    <3>1. ASSUME NEW a \in 1 .. n + 1, In(v[a], s) PROVE InAny(w, s) \/ In(b, s)
      BY <3>1, <2>2, <2>3, <2>n DEF InAny
    <3>2. ASSUME NEW a \in 1 .. n, In(w[a], s) PROVE InAny(v, s)
      <4>1. a \in 1 .. n + 1 /\ v[a] = w[a]
        BY <2>2
      <4> QED BY <4>1, <3>2, <2>2 DEF InAny
    <3>3. ASSUME In(b, s) PROVE InAny(v, s)
      <4>1. n + 1 \in 1 .. n + 1
        BY <2>2
      <4> QED BY <4>1, <3>3, <2>2 DEF InAny
    <3> QED BY <3>1, <3>2, <3>3, <2>2, <2>n DEF InAny
  <2> QED BY <2>1, <2>2, <2>7, <2>8, <2>9 DEF Below
<1> QED BY <1>2, <1>3

\* The findings of a text: what the four patterns find.
LEMMA FindSpansFind ==
  ASSUME NEW text \in Seq(Line)
  PROVE  /\ FindSpans(text) \in Batches
         /\ \A s : InAny(FindSpans(text), s) <=>
              \/ \E o \in Offsets(text) : AtomsAt(text, o, 2) = <<"t", "u">> /\ s = SpanAt(o, 2, "token", 0)
              \/ \E o \in Offsets(text) : AtomsAt(text, o, 2) = <<"u", "s">> /\ s = SpanAt(o, 2, "token", 1)
              \/ \E l \in 1 .. Len(text) : /\ ValueFound(text, l) /\ InSecret(text, l)
                                           /\ s = KeyedSpan(text, l, "kubernetes", 2)
              \/ \E l \in 1 .. Len(text) : PasswordFound(text, l) /\ s = KeyedSpan(text, l, "password", 3)
<1> DEFINE A == Tokens(text, <<"t", "u">>, 0)
           B == Tokens(text, <<"u", "s">>, 1)
           C == BlockValues(text)
           D == Passwords(text)
<1>1. Len(<<"t", "u">>) = 2 /\ Len(<<"u", "s">>) = 2 /\ 2 \in Nat \ {0} /\ 0 \in Nat /\ 1 \in Nat /\ 2 \in Nat /\ 3 \in Nat
  OBVIOUS
<1>2. /\ Batch(A, 0)
      /\ \A s : In(A, s) <=> \E o \in Offsets(text) : AtomsAt(text, o, 2) = <<"t", "u">> /\ s = SpanAt(o, 2, "token", 0)
  <2> DEFINE w == <<"t", "u">>
             p == 0
  <2>1. Len(w) = 2 /\ Len(w) \in Nat \ {0} /\ p \in Nat
    BY <1>1
  <2> HIDE DEF w, p
  <2>2. /\ Batch(Tokens(text, w, p), p)
        /\ \A s : In(Tokens(text, w, p), s) <=> \E o \in Offsets(text) : AtomsAt(text, o, Len(w)) = w /\ s = SpanAt(o, Len(w), "token", p)
    BY <2>1, TokensFind
  <2>3. /\ Batch(Tokens(text, w, p), p)
        /\ \A s : In(Tokens(text, w, p), s) <=> \E o \in Offsets(text) : AtomsAt(text, o, 2) = w /\ s = SpanAt(o, 2, "token", p)
    BY <2>1, <2>2
  <2> QED BY <2>3 DEF w, p
<1>3. /\ Batch(B, 1)
      /\ \A s : In(B, s) <=> \E o \in Offsets(text) : AtomsAt(text, o, 2) = <<"u", "s">> /\ s = SpanAt(o, 2, "token", 1)
  <2> DEFINE w == <<"u", "s">>
             p == 1
  <2>1. Len(w) = 2 /\ Len(w) \in Nat \ {0} /\ p \in Nat
    BY <1>1
  <2> HIDE DEF w, p
  <2>2. /\ Batch(Tokens(text, w, p), p)
        /\ \A s : In(Tokens(text, w, p), s) <=> \E o \in Offsets(text) : AtomsAt(text, o, Len(w)) = w /\ s = SpanAt(o, Len(w), "token", p)
    BY <2>1, TokensFind
  <2>3. /\ Batch(Tokens(text, w, p), p)
        /\ \A s : In(Tokens(text, w, p), s) <=> \E o \in Offsets(text) : AtomsAt(text, o, 2) = w /\ s = SpanAt(o, 2, "token", p)
    BY <2>1, <2>2
  <2> QED BY <2>3 DEF w, p
<1>4. /\ Batch(C, 2)
      /\ \A s : In(C, s) <=> \E l \in 1 .. Len(text) : ValueFound(text, l) /\ InSecret(text, l)
                                                       /\ s = KeyedSpan(text, l, "kubernetes", 2)
  BY BlockValuesFind
<1>5. /\ Batch(D, 3)
      /\ \A s : In(D, s) <=> \E l \in 1 .. Len(text) : PasswordFound(text, l) /\ s = KeyedSpan(text, l, "password", 3)
  BY PasswordsFind
<1>6. FindSpans(text) = IfAny(A) \o IfAny(B) \o IfAny(C) \o IfAny(D)
  BY DEF FindSpans
<1> HIDE DEF A, B, C, D
<1>7. Below(<<>>, 0) /\ \A s : ~InAny(<<>>, s)
  BY DEF Below, Batches, InAny
<1>8. <<>> \o IfAny(A) = IfAny(A)
  <2>1. IfAny(A) \in Seq(Seq(Span))
    BY <1>2 DEF IfAny, Batch
  <2> QED BY <2>1, ConcatEmptySeq
<1>9. Below(IfAny(A), 0 + 1) /\ \A s : InAny(IfAny(A), s) <=> In(A, s)
  <2> DEFINE w == <<>>
             p == 0
  <2>1. p \in Nat /\ Below(w, p) /\ Batch(A, p) /\ \A s : ~InAny(w, s)
    BY <1>1, <1>2, <1>7
  <2>2. w \o IfAny(A) = IfAny(A)
    BY <1>8
  <2> HIDE DEF w, p
  <2>3. Below(w \o IfAny(A), p + 1) /\ \A s : InAny(w \o IfAny(A), s) <=> InAny(w, s) \/ In(A, s)
    BY ONLY <2>1, OneMore
  <2>4. Below(IfAny(A), p + 1) /\ \A s : InAny(IfAny(A), s) <=> In(A, s)
    BY ONLY <2>1, <2>2, <2>3
  <2> QED BY <2>4 DEF p
<1>10. Below(IfAny(A), 1)
  BY <1>9
<1>11. Below(IfAny(A) \o IfAny(B), 1 + 1)
       /\ \A s : InAny(IfAny(A) \o IfAny(B), s) <=> In(A, s) \/ In(B, s)
  BY <1>1, <1>3, <1>9, <1>10, OneMore
<1>12. Below(IfAny(A) \o IfAny(B), 2)
  BY <1>11
<1>13. Below(IfAny(A) \o IfAny(B) \o IfAny(C), 2 + 1)
       /\ \A s : InAny(IfAny(A) \o IfAny(B) \o IfAny(C), s) <=> In(A, s) \/ In(B, s) \/ In(C, s)
  BY <1>1, <1>4, <1>11, <1>12, OneMore
<1>14. Below(IfAny(A) \o IfAny(B) \o IfAny(C), 3)
  BY <1>13
<1>15. Below(FindSpans(text), 3 + 1)
       /\ \A s : InAny(FindSpans(text), s) <=> In(A, s) \/ In(B, s) \/ In(C, s) \/ In(D, s)
  BY <1>1, <1>5, <1>6, <1>13, <1>14, OneMore
<1>16. FindSpans(text) \in Batches
  BY <1>15 DEF Below
<1> QED BY <1>2, <1>3, <1>4, <1>5, <1>15, <1>16

----------------------------------------------------------------------------
(* The rewriting *)

Covers(spans, o) == \E n \in 1 .. Len(spans) : spans[n].start <= o /\ o < spans[n].end
Opens(spans, o) == \E n \in 1 .. Len(spans) : spans[n].start = o

\* The places of a line that stay, the first of each span for its marker.
Stays(text, spans, l) ==
    {k \in 1 .. Len(text[l].value) : Covers(spans, Place(l, k)) => Opens(spans, Place(l, k))}

\* What is at the n-th of them afterwards.
AfterAt(text, spans, l, n) ==
    IF Covers(spans, Place(l, Ascending(Stays(text, spans, l))[n])) THEN "red"
    ELSE text[l].value[Ascending(Stays(text, spans, l))[n]]

\* Two lines that differ in their values only.
SameLine(a, b) == a.indent = b.indent /\ a.item = b.item /\ a.key = b.key

\* The places of a line that stay are some of its places.
LEMMA StaysAre ==
  ASSUME NEW text \in Seq(Line), NEW l \in 1 .. Len(text), NEW spans
  PROVE  /\ Stays(text, spans, l) \in SUBSET (1 .. Len(text[l].value))
         /\ Stays(text, spans, l) \in SUBSET Nat /\ IsFiniteSet(Stays(text, spans, l))
         /\ Cardinality(Stays(text, spans, l)) \in 0 .. Len(text[l].value)
<1>1. Stays(text, spans, l) \in SUBSET (1 .. Len(text[l].value))
  BY DEF Stays
<1>2. Len(text[l].value) \in Nat
  BY LineFacts
<1>3. IsFiniteSet(1 .. Len(text[l].value)) /\ Cardinality(1 .. Len(text[l].value)) = Len(text[l].value)
  <2> DEFINE len == Len(text[l].value)
  <2>1. len \in Nat
    BY <1>2
  <2> HIDE DEF len
  <2>2. IsFiniteSet(1 .. len) /\ Cardinality(1 .. len) = IF 1 > len THEN 0 ELSE len - 1 + 1
    BY ONLY <2>1, FS_Interval
  <2>3. Cardinality(1 .. len) = len
    BY ONLY <2>1, <2>2
  <2> QED BY <2>2, <2>3 DEF len
<1>4. IsFiniteSet(Stays(text, spans, l)) /\ Cardinality(Stays(text, spans, l)) <= Len(text[l].value)
  BY <1>1, <1>3, FS_Subset
<1>5. Cardinality(Stays(text, spans, l)) \in Nat
  BY <1>4, FS_CardinalityType
<1> QED BY <1>1, <1>2, <1>4, <1>5

\* A text is rewritten line by line, in the values only.
LEMMA RewrittenIs ==
  ASSUME NEW text \in Seq(Line), NEW spans \in Seq(Span)
  PROVE  /\ Rewritten(text, spans) \in Seq(Line) /\ Len(Rewritten(text, spans)) = Len(text)
         /\ \A l \in 1 .. Len(text) :
               /\ SameLine(Rewritten(text, spans)[l], text[l])
               /\ [Rewritten(text, spans)[l] EXCEPT !.value = <<>>] = [text[l] EXCEPT !.value = <<>>]
               /\ Rewritten(text, spans)[l].value \in Seq(Atoms)
               /\ Len(Rewritten(text, spans)[l].value) = Cardinality(Stays(text, spans, l))
               /\ \A n \in 1 .. Cardinality(Stays(text, spans, l)) :
                     Rewritten(text, spans)[l].value[n] = AfterAt(text, spans, l, n)
<1> DEFINE R == Rewritten(text, spans)
           Value(l) == [n \in DOMAIN Ascending(Stays(text, spans, l)) |-> AfterAt(text, spans, l, n)]
<1>0. DOMAIN text = 1 .. Len(text) /\ Len(text) \in Nat /\ DOMAIN spans = 1 .. Len(spans)
  OBVIOUS
<1>1. R = [l \in 1 .. Len(text) |-> [text[l] EXCEPT !.value = Value(l)]]
  <2> DEFINE Over1(o) == \E n \in DOMAIN spans : spans[n].start <= o /\ o < spans[n].end
             Starts(o) == \E n \in DOMAIN spans : spans[n].start = o
             Left(l) == Ascending({k \in DOMAIN text[l].value :
                                      Over1((l - 1) * Width + k) => Starts((l - 1) * Width + k)})
  <2>1. R = [l \in DOMAIN text |->
               [text[l] EXCEPT !.value =
                  [n \in DOMAIN Left(l) |-> IF Over1((l - 1) * Width + Left(l)[n]) THEN "red" ELSE text[l].value[Left(l)[n]]]]]
    BY DEF Rewritten
  <2>2. \A o : (Over1(o) <=> Covers(spans, o)) /\ (Starts(o) <=> Opens(spans, o))
    BY <1>0 DEF Covers, Opens
  <2> HIDE DEF Over1, Starts
  <2>3. ASSUME NEW l \in 1 .. Len(text) PROVE Left(l) = Ascending(Stays(text, spans, l))
    <3>1. DOMAIN text[l].value = 1 .. Len(text[l].value)
      BY LineFacts
    <3>2. {k \in DOMAIN text[l].value : Over1((l - 1) * Width + k) => Starts((l - 1) * Width + k)} = Stays(text, spans, l)
      BY <2>2, <3>1 DEF Stays, Place
    <3> QED BY <3>2
  <2> HIDE DEF Left
  <2>4. ASSUME NEW l \in 1 .. Len(text)
        PROVE  [n \in DOMAIN Left(l) |-> IF Over1((l - 1) * Width + Left(l)[n]) THEN "red" ELSE text[l].value[Left(l)[n]]]
               = Value(l)
    BY <2>2, <2>3 DEF AfterAt, Place
  <2> QED BY <2>1, <2>4, <1>0
<1> HIDE DEF R
<1>2. ASSUME NEW l \in 1 .. Len(text)
      PROVE  /\ Value(l) \in Seq(Atoms) /\ Len(Value(l)) = Cardinality(Stays(text, spans, l))
             /\ Len(Value(l)) \in 0 .. Len(text[l].value)
             /\ \A n \in 1 .. Cardinality(Stays(text, spans, l)) : Value(l)[n] = AfterAt(text, spans, l, n)
  <2> DEFINE S == Stays(text, spans, l)
             c == Cardinality(S)
             len == Len(text[l].value)
  <2>1. S \in SUBSET Nat /\ IsFiniteSet(S) /\ S \in SUBSET (1 .. len) /\ c \in 0 .. len
    BY StaysAre
  <2>2. len \in Nat /\ text[l].value \in Seq(Atoms)
    BY LineFacts
  <2>3. /\ DOMAIN Ascending(S) = 1 .. c /\ c \in Nat
        /\ \A k \in 1 .. c : Ascending(S)[k] \in S
    BY <2>1, AscendingLists
  <2>4. ASSUME NEW n \in 1 .. c PROVE AfterAt(text, spans, l, n) \in Atoms
    <3>1. Ascending(S)[n] \in 1 .. len
      BY <2>1, <2>3
    <3>2. text[l].value[Ascending(S)[n]] \in Atoms
      BY <2>2, <3>1
    <3>3. "red" \in Atoms
      BY TextAssumption
    <3>4. AfterAt(text, spans, l, n) \in {"red", text[l].value[Ascending(S)[n]]}
      BY DEF AfterAt
    <3> QED BY ONLY <3>2, <3>3, <3>4
  <2> HIDE DEF S
  <2>5. Value(l) \in [1 .. c -> Atoms] /\ \A n \in 1 .. c : Value(l)[n] = AfterAt(text, spans, l, n)
    BY <2>3, <2>4 DEF S
  <2>6. Value(l) \in Seq(Atoms) /\ Len(Value(l)) = c
    <3> HIDE DEF Value, c
    <3> QED BY <2>3, <2>5, FunctionIsSeq DEF c
  <2> QED BY <2>1, <2>5, <2>6 DEF S
<1> HIDE DEF Value
<1>3. ASSUME NEW l \in 1 .. Len(text)
      PROVE  /\ R[l] \in Line /\ SameLine(R[l], text[l]) /\ R[l].value = Value(l)
             /\ [R[l] EXCEPT !.value = <<>>] = [text[l] EXCEPT !.value = <<>>]
  <2>1. R[l] = [text[l] EXCEPT !.value = Value(l)]
    BY <1>1
  <2>2. text[l] \in [indent : Nat, item : BOOLEAN, key : {None} \cup STRING, value : Seq(Atoms)]
    BY LineFacts DEF Line
  <2>3. R[l] \in [indent : Nat, item : BOOLEAN, key : {None} \cup STRING, value : Seq(Atoms)]
    BY <2>1, <2>2, <1>2
  <2>4. R[l].value = Value(l) /\ SameLine(R[l], text[l])
    BY <2>1, <2>2 DEF SameLine
  <2>5. Len(Value(l)) < Width
    <3> DEFINE len == Len(text[l].value)
               v == Len(Value(l))
    <3>1. len \in 0 .. Width - 1 /\ v \in 0 .. len /\ Width \in Nat \ {0}
      BY <1>2, LineFacts, TextAssumption
    <3> HIDE DEF len, v
    <3>2. v < Width
      BY ONLY <3>1
    <3> QED BY <3>2 DEF v
  <2>6. [R[l] EXCEPT !.value = <<>>] = [text[l] EXCEPT !.value = <<>>]
    BY <2>1, <2>2, <1>2
  <2> QED BY <2>3, <2>4, <2>5, <2>6 DEF Line
<1>4. R \in Seq(Line) /\ Len(R) = Len(text)
  <2>1. R \in [1 .. Len(text) -> Line]
    BY <1>1, <1>3
  <2> QED BY <2>1, <1>0, FunctionIsSeq
<1> QED BY <1>2, <1>3, <1>4 DEF R

----------------------------------------------------------------------------
(* No finding gets out of sight *)

\* Where a finding may be.
Somewhere(s) == InAny(waiting, s) \/ In(incoming, s) \/ In(kept, s) \/ In(merged, s) \/ s \in lost

\* What is in a list is its head or in its tail.
LEMMA HeadOrTail ==
  ASSUME NEW S, NEW w \in Seq(S), w # <<>>
  PROVE  /\ \A s : In(w, s) <=> Head(w) = s \/ In(Tail(w), s)
         /\ \A s : InAny(w, s) <=> In(Head(w), s) \/ InAny(Tail(w), s)
<1>1. Len(w) \in Nat /\ Len(w) > 0 /\ Head(w) = w[1]
  OBVIOUS
<1>2. Len(Tail(w)) = Len(w) - 1 /\ \A i \in 1 .. Len(w) - 1 : Tail(w)[i] = w[i + 1]
  OBVIOUS
<1>3. 1 \in 1 .. Len(w) /\ \A i \in 1 .. Len(w) - 1 : i + 1 \in 1 .. Len(w)
  BY ONLY <1>1
<1>4. \A j \in 1 .. Len(w) : j = 1 \/ \E i \in 1 .. Len(w) - 1 : j = i + 1
  <2> SUFFICES ASSUME NEW j \in 1 .. Len(w), j # 1 PROVE \E i \in 1 .. Len(w) - 1 : j = i + 1
    OBVIOUS
  <2>1. j - 1 \in 1 .. Len(w) - 1 /\ j = (j - 1) + 1
    BY <1>1
  <2> QED BY <2>1
<1>5. ASSUME NEW s PROVE In(w, s) <=> Head(w) = s \/ In(Tail(w), s)
  BY <1>1, <1>2, <1>3, <1>4 DEF In
<1>6. ASSUME NEW s PROVE InAny(w, s) <=> In(Head(w), s) \/ InAny(Tail(w), s)
  BY <1>1, <1>2, <1>3, <1>4 DEF InAny
<1> QED BY <1>5, <1>6

\* What is in a list with one more is in the list or is that one.
LEMMA InAppended ==
  ASSUME NEW S, NEW w \in Seq(S), NEW e \in S
  PROVE  \A s : In(Append(w, e), s) <=> In(w, s) \/ e = s
<1>1. /\ Len(w) \in Nat /\ Len(Append(w, e)) = Len(w) + 1 /\ Append(w, e)[Len(w) + 1] = e
      /\ \A i \in 1 .. Len(w) : Append(w, e)[i] = w[i]
  OBVIOUS
<1>2. /\ Len(w) + 1 \in 1 .. Len(w) + 1
      /\ \A i \in 1 .. Len(w) : i \in 1 .. Len(w) + 1
      /\ \A i \in 1 .. Len(w) + 1 : i \in 1 .. Len(w) \/ i = Len(w) + 1
  BY ONLY <1>1
<1> QED BY <1>1, <1>2 DEF In

\* A step of the walk loses no finding and makes none up.
LEMMA MergeKeeps ==
  ASSUME WInv, Merge
  PROVE  \A s : Somewhere(s)' <=> Somewhere(s)
<1> USE DEF WInv, MInv
<1>0. /\ waiting \in Seq(Seq(Span)) /\ incoming \in Seq(Span) /\ kept \in Seq(Span) /\ merged \in Seq(Span)
      /\ index \in 0 .. Len(kept) /\ Len(kept) \in Nat /\ Len(merged) \in Nat /\ index \in Nat
  BY DEF MergeTypes, Batches
<1>a. \A s : ~In(<<>>, s)
  BY DEF In
<1>1. CASE NextPattern
  <2>1. waiting # <<>> /\ incoming' = Head(waiting) /\ waiting' = Tail(waiting) /\ merged' = <<>>
        /\ kept' = kept /\ lost' = lost /\ incoming = <<>> /\ merged = <<>>
    BY <1>1 DEF NextPattern, Rest
  <2>2. \A s : InAny(waiting, s) <=> In(Head(waiting), s) \/ InAny(Tail(waiting), s)
    BY <1>0, <2>1, HeadOrTail
  <2> QED BY <2>1, <2>2, <1>a DEF Somewhere
<1>2. CASE Pass
  <2>1. /\ merged' = Append(merged, kept[index + 1]) /\ index < Len(kept)
        /\ waiting' = waiting /\ incoming' = incoming /\ kept' = kept /\ lost' = lost
    BY <1>2 DEF Pass, Behind
  <2>2. index + 1 \in 1 .. Len(kept)
    BY ONLY <1>0, <2>1
  <2>3. kept[index + 1] \in Span /\ In(kept, kept[index + 1])
    BY <1>0, <2>2 DEF In
  <2>4. \A s : In(merged', s) <=> In(merged, s) \/ kept[index + 1] = s
    BY <1>0, <2>1, <2>3, InAppended
  <2> QED BY <2>1, <2>3, <2>4 DEF Somewhere
<1>3. CASE Drop
  <2>1. /\ incoming # <<>> /\ lost' = lost \cup {Head(incoming)} /\ incoming' = Tail(incoming)
        /\ waiting' = waiting /\ kept' = kept /\ merged' = merged
    BY <1>3 DEF Drop, Walking
  <2>2. \A s : In(incoming, s) <=> Head(incoming) = s \/ In(Tail(incoming), s)
    BY <1>0, <2>1, HeadOrTail
  <2> QED BY <2>1, <2>2 DEF Somewhere
<1>4. CASE Emit
  <2>1. /\ incoming # <<>> /\ lost' = lost /\ incoming' = Tail(incoming)
        /\ waiting' = waiting /\ kept' = kept /\ merged' = Append(merged, Head(incoming))
    BY <1>4 DEF Emit, Walking
  <2>2. \A s : In(incoming, s) <=> Head(incoming) = s \/ In(Tail(incoming), s)
    BY <1>0, <2>1, HeadOrTail
  <2>3. Head(incoming) \in Span
    BY <1>0, <2>1
  <2>4. \A s : In(merged', s) <=> In(merged, s) \/ Head(incoming) = s
    BY <1>0, <2>1, <2>3, InAppended
  <2> QED BY <2>1, <2>2, <2>4 DEF Somewhere
<1>5. CASE Finish
  <2> DEFINE all == merged \o SubSeq(kept, index + 1, Len(kept))
  <2>1. /\ kept' = all /\ merged' = <<>> /\ incoming' = incoming /\ incoming = <<>>
        /\ waiting' = waiting /\ lost' = lost
    BY <1>5 DEF Finish
  <2>2. /\ Len(all) = Len(merged) + (Len(kept) - index)
        /\ \A i \in 1 .. Len(merged) : all[i] = merged[i]
        /\ \A i \in 1 .. Len(kept) - index : all[Len(merged) + i] = kept[index + i]
    BY Joined
  <2> HIDE DEF all
  <2>3. ASSUME NEW s, In(all, s) PROVE In(merged, s) \/ In(kept, s)
    <3>1. PICK i \in 1 .. Len(all) : all[i] = s
      BY <2>3 DEF In
    <3>2. i \in 1 .. Len(merged) \/ (i > Len(merged) /\ i - Len(merged) \in 1 .. Len(kept) - index)
      BY ONLY <1>0, <2>2, <3>1
    <3>3. CASE i \in 1 .. Len(merged)
      BY <3>1, <3>3, <2>2 DEF In
    <3>4. CASE i > Len(merged) /\ i - Len(merged) \in 1 .. Len(kept) - index
      <4>1. PICK d \in 1 .. Len(kept) - index : d = i - Len(merged)
        BY <3>4
      <4>2. i = Len(merged) + d /\ index + d \in 1 .. Len(kept)
        BY ONLY <1>0, <3>1, <4>1
      <4> QED BY <4>2, <3>1, <2>2 DEF In
    <3> QED BY <3>2, <3>3, <3>4
  <2>4. ASSUME NEW s, In(merged, s) PROVE In(all, s)
    <3>1. PICK i \in 1 .. Len(merged) : merged[i] = s
      BY <2>4 DEF In
    <3>2. i \in 1 .. Len(all)
      BY ONLY <1>0, <2>2, <3>1
    <3> QED BY <3>1, <3>2, <2>2 DEF In
  <2>5. ASSUME NEW s, In(kept, s) PROVE In(all, s)
    <3>1. PICK i \in 1 .. Len(kept) : kept[i] = s
      BY <2>5 DEF In
    <3>2. CASE i \in 1 .. index
      <4>1. In(merged, s)
        BY <3>1, <3>2 DEF Passed, In
      <4> QED BY <4>1, <2>4
    <3>3. CASE i \notin 1 .. index
      <4>1. i - index \in 1 .. Len(kept) - index
        BY ONLY <1>0, <3>1, <3>3
      <4>2. PICK d \in 1 .. Len(kept) - index : d = i - index
        BY <4>1
      <4>3. i = index + d /\ Len(merged) + d \in 1 .. Len(all)
        BY ONLY <1>0, <2>2, <3>1, <4>2
      <4> QED BY <4>3, <3>1, <2>2 DEF In
    <3> QED BY <3>2, <3>3
  <2> QED BY <2>1, <2>3, <2>4, <2>5, <1>a DEF Somewhere
<1> QED BY <1>1, <1>2, <1>3, <1>4, <1>5 DEF Merge

----------------------------------------------------------------------------
(* One conversation, field by field *)

\* A copy has the form of what was handed in.
SameForm(after, before) ==
    IF Absent(before) THEN after = before
    ELSE /\ Len(after) = Len(before)
         /\ \A l \in DOMAIN after : [after[l] EXCEPT !.value = <<>>] = [before[l] EXCEPT !.value = <<>>]

\* What the rewriting of a text is: every finding was replaced or overlaps one that
\* was, what was replaced are findings, and they are disjoint and in order.
Redaction(text, spans) ==
    /\ spans \in Seq(Span) /\ Disjoint(spans)
    /\ \A i \in 1 .. Len(spans) : InAny(FindSpans(text), spans[i])
    /\ \A s : InAny(FindSpans(text), s) => \E i \in 1 .. Len(spans) : s = spans[i] \/ Overlap(s, spans[i])

Redacted(after, before) ==
    IF Absent(before) THEN after = before
    ELSE \E spans \in Seq(Span) : Redaction(before, spans) /\ after = Rewritten(before, spans)

\* The copy has the form of what was handed in, and the fields to come are as they were.
FormInv ==
    /\ phase \in {"load", "sanitize", "merge", "classify", "done", "failed", "refused"}
    /\ field \in 0 .. 6
    /\ conversation \in [ToSet(Fields) -> {None} \cup Seq(Line)]
    /\ copy \in [ToSet(Fields) -> {None} \cup Seq(Line)]
    /\ \A f \in ToSet(Fields) : SameForm(copy[f], conversation[f])
    /\ \A i \in 1 .. 6 : i > field => copy[Fields[i]] = conversation[Fields[i]]
    /\ phase = "merge" => field < 6 /\ ~Absent(copy[Current])

\* While a field is in hand its findings are all somewhere; the fields before it
\* are redacted.
FindingInv ==
    /\ phase = "merge" => \A s : InAny(FindSpans(copy[Current]), s) <=> Somewhere(s)
    /\ \A i \in 1 .. 6 : i <= field => Redacted(copy[Fields[i]], conversation[Fields[i]])

\* What is returned is the whole copy.
ReturnInv ==
    /\ prepared = None \/ (prepared = copy /\ field = 6 /\ phase \in {"classify", "done"})
    /\ phase \in {"classify", "done"} => prepared = copy /\ field = 6

\* The inductive invariant of a preparation.
PrepInv == WInv /\ FormInv /\ FindingInv /\ ReturnInv

\* The six fields.
LEMMA FieldsAre ==
  /\ Len(Fields) = 6
  /\ \A i \in 1 .. 6 : Fields[i] \in ToSet(Fields)
  /\ \A i, j \in 1 .. 6 : Fields[i] = Fields[j] => i = j
  /\ \A f \in ToSet(Fields) : \E i \in 1 .. 6 : Fields[i] = f
<1>1. Len(Fields) = 6 /\ DOMAIN Fields = 1 .. 6
  BY DEF Fields
<1>2. /\ Fields[1] = "title" /\ Fields[2] = "text" /\ Fields[3] = "name"
      /\ Fields[4] = "request" /\ Fields[5] = "result" /\ Fields[6] = "part"
  BY DEF Fields
<1>3. \A i \in 1 .. 6 : i = 1 \/ i = 2 \/ i = 3 \/ i = 4 \/ i = 5 \/ i = 6
  OBVIOUS
<1>4. ASSUME NEW i \in 1 .. 6, NEW j \in 1 .. 6, Fields[i] = Fields[j] PROVE i = j
  BY <1>2, <1>3, <1>4
<1>5. ToSet(Fields) = {Fields[i] : i \in 1 .. 6}
  BY <1>1 DEF ToSet
<1> QED BY <1>1, <1>4, <1>5

\* The steps that leave the spans, the copy and the return alone.
Aside == UNCHANGED <<conversation, copy, field, prepared, mergeVars>>

\* A step that leaves spans, copy and return alone keeps the invariant.
LEMMA AsideKeeps ==
  ASSUME PrepInv, Aside, phase' \in {"load", "sanitize", "failed", "refused", "done", "classify"},
         phase' \in {"classify", "done"} => phase \in {"classify", "done"},
         phase \in {"classify", "done"} => phase' \in {"classify", "done"}
  PROVE  PrepInv'
<1>1. WInv'
  <2>1. [Next]_mergeVars
    BY DEF Aside
  <2> QED BY <2>1, WinnersInductive DEF PrepInv
<1>2. FormInv'
  BY DEF PrepInv, FormInv, Aside, Current
<1>3. FindingInv'
  BY DEF PrepInv, FindingInv, Aside
<1>4. ReturnInv'
  BY DEF PrepInv, ReturnInv, Aside
<1> QED BY <1>1, <1>2, <1>3, <1>4 DEF PrepInv

\* Every step of the preparation is a step of the merge, or leaves it alone.
LEMMA StepsOfMerge ==
  ASSUME FormInv, NextPreparation
  PROVE  [Next]_mergeVars
<1>1. CASE Load \/ RefuseRules \/ Untouched \/ ScanFails \/ Rewrite \/ Sanitized \/ Classify
  <2>1. UNCHANGED mergeVars
    BY <1>1 DEF Load, RefuseRules, Untouched, ScanFails, Rewrite, Sanitized, Classify
  <2> QED BY <2>1
<1>2. CASE Over
  BY <1>2 DEF Over, vars
<1>3. CASE MergeStep
  BY <1>3 DEF MergeStep, Next
<1>4. CASE Scan
  <2>1. field \in 0 .. 5 /\ ~Absent(copy[Current]) /\ Fresh /\ waiting' = FindSpans(copy[Current])
    BY <1>4, FieldsAre DEF Scan, InHand, FormInv
  <2>2. Current \in ToSet(Fields)
    BY <2>1, FieldsAre DEF Current
  <2>3. copy[Current] \in Seq(Line)
    BY <2>1, <2>2 DEF FormInv, Absent
  <2>4. waiting' \in Batches
    BY <2>1, <2>3, FindSpansFind
  <2> QED BY <2>1, <2>4 DEF Begin, Next
<1> QED BY <1>1, <1>2, <1>3, <1>4 DEF NextPreparation

\* The rewriting of one field keeps the invariant.
LEMMA RewriteKeeps ==
  ASSUME PrepInv, Rewrite
  PROVE  PrepInv'
<1> DEFINE text == copy[Current]
           R == Rewritten(text, kept)
<1>1. /\ phase = "merge" /\ ~merging /\ waiting = <<>> /\ phase' = "sanitize" /\ field' = field + 1
      /\ copy' = [copy EXCEPT ![Current] = R]
      /\ conversation' = conversation /\ prepared' = prepared /\ UNCHANGED mergeVars
  BY DEF Rewrite
<1>2. FormInv /\ FindingInv /\ ReturnInv /\ WInv
  BY DEF PrepInv
<1>3. field \in 0 .. 5 /\ ~Absent(text) /\ field + 1 \in 1 .. 6 /\ field' \in 0 .. 6
  BY <1>1, <1>2 DEF FormInv
<1>4. Current \in ToSet(Fields) /\ Current = Fields[field + 1]
  BY <1>3, FieldsAre DEF Current
<1>5. text \in Seq(Line) /\ text # <<>> /\ text = conversation[Current]
  <2>1. text \in Seq(Line) /\ text # <<>>
    BY <1>2, <1>3, <1>4 DEF FormInv, Absent
  <2>2. field + 1 > field
    BY <1>3
  <2> QED BY <2>1, <2>2, <1>2, <1>3, <1>4 DEF FormInv
<1>6. kept \in Seq(Span) /\ incoming = <<>> /\ merged = <<>> /\ Disjoint(kept) /\ LosersOverlapWinners
  BY <1>1, <1>2 DEF WInv, MInv, MergeTypes, Rest, OrderedAndDisjoint
<1>7. copy \in [ToSet(Fields) -> {None} \cup Seq(Line)]
  BY <1>2 DEF FormInv
<1>8. R \in Seq(Line) /\ Len(R) = Len(text)
      /\ \A l \in 1 .. Len(text) : [R[l] EXCEPT !.value = <<>>] = [text[l] EXCEPT !.value = <<>>]
  BY <1>5, <1>6, RewrittenIs
<1> HIDE DEF R, text
<1>9. /\ copy' \in [ToSet(Fields) -> {None} \cup Seq(Line)]
      /\ copy'[Current] = R /\ \A f \in ToSet(Fields) : f # Current => copy'[f] = copy[f]
  BY <1>1, <1>4, <1>7, <1>8
<1>10. WInv'
  <2>1. [Next]_mergeVars
    BY <1>1
  <2> QED BY <2>1, <1>2, WinnersInductive
<1>11. SameForm(R, conversation[Current])
  <2>1. DOMAIN R = 1 .. Len(text)
    BY <1>8
  <2>2. ~Absent(text)
    BY <1>3 DEF text
  <2> QED BY <2>1, <2>2, <1>5, <1>8 DEF SameForm
<1>12. \A i \in 1 .. 6 : Fields[i] = Current <=> i = field + 1
  BY <1>3, <1>4, FieldsAre
<1>13. \A i \in 1 .. 6 : (i > field' => i > field /\ i # field + 1) /\ (i <= field' => i <= field \/ i = field + 1)
  BY <1>1, <1>3
<1>14. FormInv'
  <2>1. \A f \in ToSet(Fields) : SameForm(copy'[f], conversation[f])
    BY <1>2, <1>9, <1>11 DEF FormInv
  <2>2. \A i \in 1 .. 6 : i > field' => copy'[Fields[i]] = conversation[Fields[i]]
    BY <1>2, <1>9, <1>12, <1>13, FieldsAre DEF FormInv
  <2> QED BY <2>1, <2>2, <1>1, <1>2, <1>3, <1>9 DEF FormInv
<1>15. Redaction(text, kept)
  <2>1. \A s : InAny(FindSpans(text), s) <=> Somewhere(s)
    BY <1>1, <1>2 DEF FindingInv, text
  <2>2. \A s : Somewhere(s) <=> In(kept, s) \/ s \in lost
    BY <1>1, <1>6 DEF Somewhere, InAny, In
  <2>3. \A s \in lost : \E i \in 1 .. Len(kept) : Overlap(s, kept[i])
    BY <1>6 DEF LosersOverlapWinners
  <2> QED BY <2>1, <2>2, <2>3, <1>6 DEF Redaction, In
<1>16. Redacted(R, conversation[Current])
  <2>1. ~Absent(text) /\ R = Rewritten(text, kept)
    BY <1>3 DEF text, R
  <2> QED BY <2>1, <1>5, <1>6, <1>15 DEF Redacted
<1>17. FindingInv'
  <2>1. ASSUME NEW i \in 1 .. 6, i <= field' PROVE Redacted(copy'[Fields[i]], conversation[Fields[i]])
    <3>1. CASE i = field + 1
      BY <3>1, <1>9, <1>12, <1>16
    <3>2. CASE i <= field /\ i # field + 1
      BY <3>2, <1>2, <1>9, <1>12, FieldsAre DEF FindingInv
    <3>3. i <= field => i # field + 1
      BY <1>3
    <3> QED BY <3>1, <3>2, <3>3, <2>1, <1>13
  <2> QED BY <2>1, <1>1 DEF FindingInv
<1>18. ReturnInv'
  <2>1. prepared = None
    BY <1>1, <1>2 DEF ReturnInv
  <2> QED BY <2>1, <1>1 DEF ReturnInv
<1> QED BY <1>10, <1>14, <1>17, <1>18 DEF PrepInv

\* Every step of a preparation keeps the invariant.
LEMMA PrepInductive == PrepInv /\ [NextPreparation]_vars => PrepInv'
<1> SUFFICES ASSUME PrepInv, [NextPreparation]_vars PROVE PrepInv'
  OBVIOUS
<1>0. FormInv /\ FindingInv /\ ReturnInv /\ WInv
  BY DEF PrepInv
<1>1. CASE Load
  <2>1. Aside /\ phase' = "sanitize" /\ phase = "load"
    BY <1>1 DEF Load, Aside
  <2> QED BY <2>1, AsideKeeps
<1>2. CASE RefuseRules
  <2>1. Aside /\ phase' = "refused" /\ phase = "load"
    BY <1>2 DEF RefuseRules, Aside
  <2> QED BY <2>1, AsideKeeps
<1>3. CASE Untouched
  <2>1. /\ phase = "sanitize" /\ phase' = phase /\ field < 6 /\ field' = field + 1 /\ Absent(copy[Current])
        /\ copy' = copy /\ conversation' = conversation /\ prepared' = prepared /\ UNCHANGED mergeVars
    BY <1>3, FieldsAre DEF Untouched, InHand
  <2>2. field \in 0 .. 5 /\ field + 1 \in 1 .. 6 /\ field + 1 > field
    BY <2>1, <1>0 DEF FormInv
  <2>3. Absent(conversation[Fields[field + 1]]) /\ copy[Fields[field + 1]] = conversation[Fields[field + 1]]
    BY <2>1, <2>2, <1>0 DEF FormInv, Current
  <2>4. WInv'
    <3>1. [Next]_mergeVars
      BY <2>1
    <3> QED BY <3>1, <1>0, WinnersInductive
  <2>5. \A i \in 1 .. 6 : (i > field' => i > field) /\ (i <= field' => i <= field \/ i = field + 1)
    BY <2>1, <2>2
  <2>6. FormInv'
    BY <2>1, <2>2, <2>5, <1>0 DEF FormInv
  <2>7. FindingInv'
    BY <2>1, <2>3, <2>5, <1>0 DEF FindingInv, Redacted
  <2>8. ReturnInv'
    <3>1. prepared = None
      BY <2>1, <1>0 DEF ReturnInv
    <3> QED BY <3>1, <2>1 DEF ReturnInv
  <2> QED BY <2>4, <2>6, <2>7, <2>8 DEF PrepInv
<1>4. CASE Scan
  <2>1. /\ phase = "sanitize" /\ phase' = "merge" /\ field' = field /\ field < 6 /\ ~Absent(copy[Current])
        /\ copy' = copy /\ conversation' = conversation /\ prepared' = prepared
        /\ Fresh /\ waiting' = FindSpans(copy[Current])
    BY <1>4, FieldsAre DEF Scan, InHand
  <2>2. WInv'
    <3>1. [Next]_mergeVars
      BY <1>4, <1>0, StepsOfMerge DEF NextPreparation
    <3> QED BY <3>1, <1>0, WinnersInductive
  <2>3. FormInv'
    BY <2>1, <1>0 DEF FormInv, Current
  <2>4. kept' = <<>> /\ lost' = {} /\ incoming' = <<>> /\ merged' = <<>>
    BY <2>1, <1>0 DEF Fresh, WInv, MInv, Rest
  <2>5. Current' = Current
    BY <2>1 DEF Current
  <2>6. \A s : InAny(FindSpans(copy[Current]), s) <=> InAny(waiting', s) \/ In(incoming', s) \/ In(kept', s) \/ In(merged', s) \/ s \in lost'
    BY <2>1, <2>4 DEF In
  <2>7. FindingInv'
    BY <2>1, <2>5, <2>6, <1>0 DEF FindingInv, Somewhere
  <2>8. ReturnInv'
    <3>1. prepared = None
      BY <2>1, <1>0 DEF ReturnInv
    <3> QED BY <3>1, <2>1 DEF ReturnInv
  <2> QED BY <2>2, <2>3, <2>7, <2>8 DEF PrepInv
<1>5. CASE ScanFails
  <2>1. Aside /\ phase' = "failed" /\ phase = "sanitize"
    BY <1>5 DEF ScanFails, InHand, Aside
  <2> QED BY <2>1, AsideKeeps
<1>6. CASE Rewrite
  BY <1>6, RewriteKeeps
<1>7. CASE Sanitized
  <2>1. /\ phase = "sanitize" /\ phase' = "classify" /\ field = 6 /\ field' = field /\ prepared' = copy
        /\ copy' = copy /\ conversation' = conversation /\ UNCHANGED mergeVars
    BY <1>7, FieldsAre DEF Sanitized
  <2>2. WInv'
    <3>1. [Next]_mergeVars
      BY <2>1
    <3> QED BY <3>1, <1>0, WinnersInductive
  <2>3. FormInv'
    BY <2>1, <1>0 DEF FormInv
  <2>4. FindingInv'
    BY <2>1, <1>0 DEF FindingInv
  <2>5. ReturnInv'
    BY <2>1 DEF ReturnInv
  <2> QED BY <2>2, <2>3, <2>4, <2>5 DEF PrepInv
<1>8. CASE MergeStep
  <2>1. phase = "merge" /\ Merge /\ UNCHANGED own
    BY <1>8 DEF MergeStep
  <2>2. phase' = phase /\ field' = field /\ copy' = copy /\ conversation' = conversation /\ prepared' = prepared
    BY <2>1 DEF own
  <2>3. WInv'
    <3>1. [Next]_mergeVars
      BY <2>1 DEF Next
    <3> QED BY <3>1, <1>0, WinnersInductive
  <2>4. FormInv'
    BY <2>2, <1>0 DEF FormInv, Current
  <2>5. \A s : Somewhere(s)' <=> Somewhere(s)
    BY <2>1, <1>0, MergeKeeps
  <2>6. FindingInv'
    BY <2>2, <2>5, <1>0 DEF FindingInv, Current
  <2>7. ReturnInv'
    BY <2>2, <1>0 DEF ReturnInv
  <2> QED BY <2>3, <2>4, <2>6, <2>7 DEF PrepInv
<1>9. CASE Classify
  <2>1. Aside /\ phase' = "done" /\ phase = "classify"
    BY <1>9 DEF Classify, Aside
  <2> QED BY <2>1, AsideKeeps
<1>10. CASE UNCHANGED vars
  <2>1. phase' = phase /\ field' = field /\ copy' = copy /\ conversation' = conversation /\ prepared' = prepared /\ UNCHANGED mergeVars
    BY <1>10 DEF vars, own
  <2>2. WInv'
    <3>1. [Next]_mergeVars
      BY <2>1
    <3> QED BY <3>1, <1>0, WinnersInductive
  <2>3. FormInv'
    BY <2>1, <1>0 DEF FormInv, Current
  <2>4. FindingInv'
    BY <2>1, <1>0 DEF FindingInv, Somewhere, mergeVars, Current
  <2>5. ReturnInv'
    BY <2>1, <1>0 DEF ReturnInv
  <2> QED BY <2>2, <2>3, <2>4, <2>5 DEF PrepInv
<1> QED BY <1>1, <1>2, <1>3, <1>4, <1>5, <1>6, <1>7, <1>8, <1>9, <1>10 DEF NextPreparation, Over

\* A conversation that was handed in satisfies it.
LEMMA PrepInitial == InitPreparation => PrepInv
<1> SUFFICES ASSUME InitPreparation PROVE PrepInv
  OBVIOUS
<1>1. /\ Init /\ phase = "load" /\ conversation \in Conversations /\ copy = conversation
      /\ field = 0 /\ prepared = None
  BY DEF InitPreparation
<1>2. conversation \in [ToSet(Fields) -> {None} \cup Seq(Line)]
  BY <1>1, PreparationAssumption
<1>3. \A f \in ToSet(Fields) : SameForm(conversation[f], conversation[f])
  BY DEF SameForm
<1>4. FormInv
  <2>1. 0 \in 0 .. 6
    OBVIOUS
  <2> QED BY <2>1, <1>1, <1>2, <1>3 DEF FormInv
<1>5. FindingInv
  BY <1>1 DEF FindingInv
<1>6. ReturnInv
  BY <1>1 DEF ReturnInv
<1> QED BY <1>1, <1>4, <1>5, <1>6, WinnersInitial DEF PrepInv

\* A preparation takes the steps of the merge and no others.
THEOREM PreparationMerges == Preparing => Spec
<1>1. InitPreparation => Init
  BY DEF InitPreparation
<1>2. PrepInv /\ [NextPreparation]_vars => [Next]_mergeVars
  <2>1. UNCHANGED vars => UNCHANGED mergeVars
    BY DEF vars
  <2> QED BY <2>1, StepsOfMerge DEF PrepInv
<1> QED BY <1>1, <1>2, PrepInitial, PrepInductive, PTL DEF Preparing, Spec

\* A copy has the fields, the lines and the gaps of what was handed in.
THEOREM PreparationTypes == Preparing => []TypeOK
<1>1. PrepInv => TypeOK
  BY FieldsAre DEF PrepInv, WInv, MInv, MergeTypes, FormInv, TypeOK, SameForm
<1> QED BY <1>1, PrepInitial, PrepInductive, PTL DEF Preparing

\* Among the findings of any text the spans kept are disjoint and in order.
THEOREM PreparationIsDisjoint == Preparing => []OrderedAndDisjoint
BY PreparationMerges, MergeIsDisjoint, PTL

\* And no finding of it is given up but to one that is kept and overlaps it.
THEOREM PreparationLosesNothing == Preparing => []LosersOverlapWinners
BY PreparationMerges, NothingIsLostToNothing, PTL

----------------------------------------------------------------------------
(* Where a finding lies *)

\* From place j of line l, n atoms.
Within(text, s, l, j, n) ==
    /\ l \in 1 .. Len(text) /\ j \in 1 .. Len(text[l].value) /\ n \in Nat \ {0}
    /\ j + n - 1 <= Len(text[l].value)
    /\ s.start = Place(l, j) /\ s.end = Place(l, j) + n

\* Places of one line follow each other.
LEMMA PlaceNext ==
  ASSUME NEW l \in Nat \ {0}, NEW j \in Nat, NEW d \in Nat
  PROVE  Place(l, j + d) = Place(l, j) + d
<1>1. (l - 1) * Width \in Nat
  BY TextAssumption
<1> DEFINE x == (l - 1) * Width
<1>2. x \in Nat
  BY <1>1
<1> HIDE DEF x
<1>3. x + (j + d) = (x + j) + d
  BY <1>2
<1> QED BY <1>3 DEF Place, x

\* It covers these and no others.
LEMMA CoverIs ==
  ASSUME NEW text \in Seq(Line), NEW s, NEW l, NEW j, NEW n, Within(text, s, l, j, n),
         NEW m \in Nat \ {0}, NEW k \in 0 .. Width - 1
  PROVE  (s.start <= Place(m, k) /\ Place(m, k) < s.end) <=> (m = l /\ j <= k /\ k < j + n)
<1> DEFINE len == Len(text[l].value)
<1>1. /\ l \in 1 .. Len(text) /\ l \in Nat \ {0} /\ j \in 1 .. len /\ n \in Nat \ {0} /\ j + n - 1 <= len
      /\ s.start = Place(l, j) /\ s.end = Place(l, j) + n
  BY DEF Within
<1>2. len \in 0 .. Width - 1 /\ Width \in Nat \ {0}
  BY <1>1, LineFacts, TextAssumption
<1> HIDE DEF len
<1>3. /\ j \in 0 .. Width - 1 /\ j + (n - 1) \in 0 .. Width - 1 /\ n - 1 \in Nat /\ j \in Nat /\ k \in Nat
      /\ j + (n - 1) < k <=> ~(k < j + n)
  BY ONLY <1>1, <1>2, k \in 0 .. Width - 1
<1>4. Place(l, j) \in Nat /\ Place(m, k) \in Nat
  BY <1>1, <1>3, PlaceParts
<1>5. Place(l, j + (n - 1)) = Place(l, j) + (n - 1)
  BY ONLY <1>1, <1>3, PlaceNext
<1>6. Place(m, k) < Place(l, j) <=> m < l \/ (m = l /\ k < j)
  BY <1>1, <1>3, PlaceOrder
<1>7. Place(l, j + (n - 1)) < Place(m, k) <=> l < m \/ (l = m /\ j + (n - 1) < k)
  <2> DEFINE e == j + (n - 1)
  <2>1. e \in 0 .. Width - 1
    BY <1>3
  <2> HIDE DEF e
  <2>2. Place(l, e) < Place(m, k) <=> l < m \/ (l = m /\ e < k)
    BY <1>1, <2>1, PlaceOrder
  <2> QED BY <2>2 DEF e
<1> DEFINE x == Place(l, j)
           y == Place(m, k)
<1>8. x \in Nat /\ y \in Nat /\ s.start = x /\ s.end = x + n
  BY <1>1, <1>4
<1>9. /\ y < x <=> m < l \/ (m = l /\ k < j)
      /\ x + (n - 1) < y <=> l < m \/ (l = m /\ j + (n - 1) < k)
  BY <1>5, <1>6, <1>7
<1> HIDE DEF x, y
<1>10. /\ s.start <= y <=> ~(y < x)
       /\ y < s.end <=> ~(x + (n - 1) < y)
  BY ONLY <1>1, <1>8
<1>m. m \in Nat /\ l \in Nat
  BY <1>1
<1>11. (s.start <= y /\ y < s.end) <=> (m = l /\ j <= k /\ k < j + n)
  BY ONLY <1>3, <1>9, <1>10, <1>m
<1> QED BY <1>11 DEF y

Pair(a, b) == <<a, b>>

\* Two atoms at a place of a line.
LEMMA AtomsAtPlace ==
  ASSUME NEW text \in Seq(Line), NEW l \in 1 .. Len(text), NEW k \in 0 .. Width - 1, NEW a, NEW b
  PROVE  AtomsAt(text, Place(l, k), 2) = Pair(a, b) <=>
           k > 0 /\ k + 1 <= Len(text[l].value) /\ text[l].value[k] = a /\ text[l].value[k + 1] = b
<1> DEFINE v == text[l].value
<1>1. l \in Nat \ {0} /\ LineAt(Place(l, k)) = l /\ Place(l, k) % Width = k
  BY PlaceParts
<1>2. AtomsAt(text, Place(l, k), 2) = IF k > 0 /\ k + 2 - 1 <= Len(v) THEN SubSeq(v, k, k + 2 - 1) ELSE <<>>
  BY <1>1 DEF AtomsAt
<1>3. v \in Seq(Atoms) /\ Len(v) \in Nat /\ k \in Nat
  BY LineFacts, TextAssumption
<1> HIDE DEF v
<1>4. k + 2 - 1 = k + 1
  BY <1>3
<1>5. CASE k > 0 /\ k + 1 <= Len(v)
  <2>1. k \in Int /\ k + 1 \in Int /\ \A i \in k .. k + 1 : i \in 1 .. Len(v)
    BY <1>3, <1>5
  <2>2. \A i \in k .. k + 1 : v[i] \in Atoms
    BY <1>3, <2>1
  <2>3. /\ SubSeq(v, k, k + 1) \in Seq(Atoms)
        /\ Len(SubSeq(v, k, k + 1)) = IF k <= k + 1 THEN k + 1 - k + 1 ELSE 0
        /\ \A i \in 1 .. k + 1 - k + 1 : SubSeq(v, k, k + 1)[i] = v[k + i - 1]
    BY ONLY <2>1, <2>2, SubSeqProperties
  <2>4. k + 1 - k + 1 = 2 /\ k <= k + 1 /\ k + 1 - 1 = k /\ k + 2 - 1 = k + 1
    BY ONLY <2>1
  <2>5. Len(SubSeq(v, k, k + 1)) = 2 /\ SubSeq(v, k, k + 1)[1] = v[k] /\ SubSeq(v, k, k + 1)[2] = v[k + 1]
    <3>1. 1 \in 1 .. 2 /\ 2 \in 1 .. 2
      OBVIOUS
    <3>2. Len(SubSeq(v, k, k + 1)) = 2
      BY ONLY <2>3, <2>4
    <3>3. SubSeq(v, k, k + 1)[1] = v[k + 1 - 1] /\ SubSeq(v, k, k + 1)[2] = v[k + 2 - 1]
      BY ONLY <2>3, <2>4, <3>1
    <3> QED BY ONLY <3>2, <3>3, <2>4
  <2>6. SubSeq(v, k, k + 1) = <<v[k], v[k + 1]>>
    <3>1. v[k] \in Atoms /\ v[k + 1] \in Atoms
      BY <2>1, <2>2
    <3> DEFINE p == SubSeq(v, k, k + 1)
               x == v[k]
               y == v[k + 1]
    <3>2. p \in Seq(Atoms) /\ Len(p) = 2 /\ p[1] = x /\ p[2] = y /\ x \in Atoms /\ y \in Atoms
      BY <2>3, <2>5, <3>1
    <3> HIDE DEF p, x, y
    <3>3. p = <<x, y>>
      BY ONLY <3>2
    <3> QED BY <3>3 DEF p, x, y
  <2>7. AtomsAt(text, Place(l, k), 2) = <<v[k], v[k + 1]>>
    BY <1>2, <1>4, <1>5, <2>6
  <2> DEFINE x == v[k]
             y == v[k + 1]
  <2> HIDE DEF x, y
  <2>8. <<x, y>> = <<a, b>> <=> x = a /\ y = b
    OBVIOUS
  <2> QED BY <2>7, <2>8, <1>5 DEF v, x, y, Pair
<1>6. CASE ~(k > 0 /\ k + 1 <= Len(v))
  <2>1. AtomsAt(text, Place(l, k), 2) = <<>>
    BY <1>2, <1>4, <1>6
  <2>2. <<>> # <<a, b>>
    OBVIOUS
  <2> QED BY <2>1, <2>2, <1>6 DEF v, Pair
<1> QED BY <1>5, <1>6

\* A pair of atoms in a line.
PairAt(text, l, k, a, b) ==
    /\ l \in 1 .. Len(text) /\ k \in 1 .. Len(text[l].value) /\ k + 1 <= Len(text[l].value)
    /\ text[l].value[k] = a /\ text[l].value[k + 1] = b

PairByOffset(text, a, b, p, s) ==
    \E o \in Offsets(text) : AtomsAt(text, o, 2) = Pair(a, b) /\ s = SpanAt(o, 2, "token", p)

PairFound(text, a, b, p, s) ==
    \E l, k \in Nat : PairAt(text, l, k, a, b) /\ s = SpanAt(Place(l, k), 2, "token", p)

\* The pairs found by offset are those found line by line.
LEMMA PairsAre ==
  ASSUME NEW text \in Seq(Line), NEW a, NEW b, NEW p \in Nat, NEW s
  PROVE  PairByOffset(text, a, b, p, s) <=> PairFound(text, a, b, p, s)
<1>1. ASSUME NEW o \in Offsets(text), AtomsAt(text, o, 2) = Pair(a, b), s = SpanAt(o, 2, "token", p)
      PROVE  \E l, k \in Nat : PairAt(text, l, k, a, b) /\ s = SpanAt(Place(l, k), 2, "token", p)
  <2>1. o \in Nat /\ LineAt(o) \in 1 .. Len(text)
    BY OffsetsAre
  <2>2. o % Width \in 0 .. Width - 1 /\ o = Place(LineAt(o), o % Width)
    BY <2>1, PlaceOfOffset
  <2> DEFINE l == LineAt(o)
             k == o % Width
  <2>3. l \in 1 .. Len(text) /\ k \in 0 .. Width - 1 /\ o = Place(l, k) /\ AtomsAt(text, Place(l, k), 2) = Pair(a, b)
    BY <2>1, <2>2, <1>1
  <2> HIDE DEF l, k
  <2>t. text \in Seq(Line)
    OBVIOUS
  <2>4. k > 0 /\ k + 1 <= Len(text[l].value) /\ text[l].value[k] = a /\ text[l].value[k + 1] = b
    BY ONLY <2>t, <2>3, AtomsAtPlace
  <2>5. k \in Nat /\ l \in Nat /\ Len(text[l].value) \in Nat
    BY <2>3, LineFacts, TextAssumption
  <2>6. k \in 1 .. Len(text[l].value)
    BY ONLY <2>4, <2>5
  <2> QED BY <2>3, <2>4, <2>5, <2>6, <1>1 DEF PairAt
<1>2. ASSUME NEW l \in Nat, NEW k \in Nat, PairAt(text, l, k, a, b), s = SpanAt(Place(l, k), 2, "token", p)
      PROVE  \E o \in Offsets(text) : AtomsAt(text, o, 2) = Pair(a, b) /\ s = SpanAt(o, 2, "token", p)
  <2>1. /\ l \in 1 .. Len(text) /\ k \in 1 .. Len(text[l].value) /\ k + 1 <= Len(text[l].value)
        /\ text[l].value[k] = a /\ text[l].value[k + 1] = b
    BY <1>2 DEF PairAt
  <2>2. Len(text[l].value) \in 0 .. Width - 1 /\ Width \in Nat
    BY <2>1, LineFacts, TextAssumption
  <2>3. k \in 0 .. Width - 1 /\ k > 0
    BY ONLY <2>1, <2>2
  <2>4. l \in Nat \ {0}
    BY <2>1
  <2>5. Place(l, k) \in Nat /\ LineAt(Place(l, k)) = l
    BY <2>3, <2>4, PlaceParts
  <2>6. Place(l, k) \in Offsets(text)
    BY <2>1, <2>5, OffsetsAre
  <2>7. AtomsAt(text, Place(l, k), 2) = Pair(a, b)
    <3>1. text \in Seq(Line)
      OBVIOUS
    <3>2. l \in 1 .. Len(text) /\ k \in 0 .. Width - 1
      BY <2>1, <2>3
    <3>3. AtomsAt(text, Place(l, k), 2) = Pair(a, b) <=>
             k > 0 /\ k + 1 <= Len(text[l].value) /\ text[l].value[k] = a /\ text[l].value[k + 1] = b
      BY ONLY <3>1, <3>2, AtomsAtPlace
    <3> QED BY ONLY <2>1, <2>3, <3>3
  <2> QED BY <2>6, <2>7, <1>2
<1> QED BY <1>1, <1>2 DEF PairByOffset, PairFound

\* The findings of a text, line by line.
Finding(text, s) ==
    \/ PairFound(text, "t", "u", 0, s)
    \/ PairFound(text, "u", "s", 1, s)
    \/ \E l \in 1 .. Len(text) : ValueFound(text, l) /\ InSecret(text, l) /\ s = KeyedSpan(text, l, "kubernetes", 2)
    \/ \E l \in 1 .. Len(text) : PasswordFound(text, l) /\ s = KeyedSpan(text, l, "password", 3)

\* find_spans finds what is stated line by line.
LEMMA FindingsAre ==
  ASSUME NEW text \in Seq(Line), NEW s
  PROVE  InAny(FindSpans(text), s) <=> Finding(text, s)
<1>1. PairByOffset(text, "t", "u", 0, s) <=> PairFound(text, "t", "u", 0, s)
  BY PairsAre
<1>2. PairByOffset(text, "u", "s", 1, s) <=> PairFound(text, "u", "s", 1, s)
  BY PairsAre
<1>3. PairByOffset(text, "t", "u", 0, s) <=>
          \E o \in Offsets(text) : AtomsAt(text, o, 2) = <<"t", "u">> /\ s = SpanAt(o, 2, "token", 0)
  BY DEF PairByOffset, Pair
<1>4. PairByOffset(text, "u", "s", 1, s) <=>
          \E o \in Offsets(text) : AtomsAt(text, o, 2) = <<"u", "s">> /\ s = SpanAt(o, 2, "token", 1)
  BY DEF PairByOffset, Pair
<1> QED BY <1>1, <1>2, <1>3, <1>4, FindSpansFind DEF Finding

\* Where they lie.
LEMMA PairWithin ==
  ASSUME NEW text \in Seq(Line), NEW l, NEW k, NEW a, NEW b, PairAt(text, l, k, a, b), NEW p
  PROVE  Within(text, SpanAt(Place(l, k), 2, "token", p), l, k, 2)
<1>1. l \in 1 .. Len(text) /\ k \in 1 .. Len(text[l].value) /\ k + 1 <= Len(text[l].value)
  BY DEF PairAt
<1>2. k + 2 - 1 = k + 1 /\ 2 \in Nat \ {0}
  BY <1>1, LineFacts
<1> QED BY <1>1, <1>2 DEF Within, SpanAt

\* A value beside a key begins its line and is its word.
LEMMA KeyedWithin ==
  ASSUME NEW text \in Seq(Line), NEW l \in 1 .. Len(text), Word(text[l].value) # <<>>, NEW c, NEW p
  PROVE  Within(text, KeyedSpan(text, l, c, p), l, 1, Len(Word(text[l].value)))
<1> DEFINE v == text[l].value
           w == Word(v)
<1>1. v \in Seq(Atoms) /\ w \in Seq(Atoms) /\ Len(w) \in 0 .. Len(v) /\ Len(v) \in Nat
  <2>1. v \in Seq(Atoms)
    BY LineFacts
  <2> HIDE DEF v
  <2>2. w \in Seq(Atoms) /\ Len(w) \in 0 .. Len(v)
    BY ONLY <2>1, WordFacts
  <2> QED BY <2>1, <2>2
<1>2. w # <<>>
  OBVIOUS
<1> HIDE DEF v, w
<1>3. Len(w) # 0
  BY <1>1, <1>2, EmptySeq
<1>4. Len(w) \in Nat \ {0} /\ 1 \in 1 .. Len(v) /\ 1 + Len(w) - 1 <= Len(v)
  BY ONLY <1>1, <1>3
<1> QED BY <1>4 DEF Within, KeyedSpan, SpanAt, v, w

\* A value that is found is not empty.
LEMMA FoundWords ==
  ASSUME NEW text \in Seq(Line), NEW l \in 1 .. Len(text), ValueFound(text, l) \/ PasswordFound(text, l)
  PROVE  Word(text[l].value) # <<>>
<1>0. text[l].value \in Seq(Atoms)
  BY LineFacts
<1>1. text[l].value \in Seq(Atoms) /\ Word(text[l].value) \in Seq(Atoms)
  BY ONLY <1>0, WordFacts
<1> QED BY <1>1, CredentialIsThere DEF ValueFound, PasswordFound

\* Every finding lies within one line.
LEMMA FindingWithin ==
  ASSUME NEW text \in Seq(Line), NEW s, Finding(text, s)
  PROVE  \E l, j, n \in Nat : Within(text, s, l, j, n)
<1>1. CASE PairFound(text, "t", "u", 0, s)
  BY <1>1, PairWithin DEF PairFound
<1>2. CASE PairFound(text, "u", "s", 1, s)
  BY <1>2, PairWithin DEF PairFound
<1>3. CASE \E l \in 1 .. Len(text) : ValueFound(text, l) /\ InSecret(text, l) /\ s = KeyedSpan(text, l, "kubernetes", 2)
  <2>1. PICK l \in 1 .. Len(text) : ValueFound(text, l) /\ s = KeyedSpan(text, l, "kubernetes", 2)
    BY <1>3
  <2>2. Within(text, s, l, 1, Len(Word(text[l].value)))
    BY <2>1, FoundWords, KeyedWithin
  <2>3. l \in Nat /\ 1 \in Nat /\ Len(Word(text[l].value)) \in Nat
    BY <2>2 DEF Within
  <2> QED BY <2>2, <2>3
<1>4. CASE \E l \in 1 .. Len(text) : PasswordFound(text, l) /\ s = KeyedSpan(text, l, "password", 3)
  <2>1. PICK l \in 1 .. Len(text) : PasswordFound(text, l) /\ s = KeyedSpan(text, l, "password", 3)
    BY <1>4
  <2>2. Within(text, s, l, 1, Len(Word(text[l].value)))
    BY <2>1, FoundWords, KeyedWithin
  <2>3. l \in Nat /\ 1 \in Nat /\ Len(Word(text[l].value)) \in Nat
    BY <2>2 DEF Within
  <2> QED BY <2>2, <2>3
<1> QED BY <1>1, <1>2, <1>3, <1>4 DEF Finding

----------------------------------------------------------------------------
(* What a redaction covers *)

\* The bounds of an atom and its place.
LEMMA PlaceIs ==
  ASSUME NEW text \in Seq(Line), NEW l \in 1 .. Len(text), NEW k \in 1 .. Len(text[l].value)
  PROVE  l \in Nat \ {0} /\ k \in 0 .. Width - 1 /\ k \in Nat \ {0} /\ Place(l, k) \in Nat
<1>1. Len(text[l].value) \in 0 .. Width - 1 /\ l \in Nat \ {0}
  BY LineFacts
<1>2. Width \in Nat \ {0}
  BY TextAssumption
<1>3. k \in 0 .. Width - 1 /\ k \in Nat \ {0}
  BY ONLY <1>1, <1>2, k \in 1 .. Len(text[l].value)
<1> QED BY <1>1, <1>3, PlaceParts

\* Every span that is replaced lies within one line.
LEMMA SpanWithin ==
  ASSUME NEW text \in Seq(Line), NEW spans, Redaction(text, spans), NEW i \in 1 .. Len(spans)
  PROVE  \E l, j, n \in Nat : Within(text, spans[i], l, j, n)
BY FindingsAre, FindingWithin DEF Redaction

\* And at one place only.
LEMMA WithinOnce ==
  ASSUME NEW text \in Seq(Line), NEW s, NEW l, NEW j, NEW n, Within(text, s, l, j, n),
         NEW m, NEW k, NEW p, Within(text, s, m, k, p)
  PROVE  l = m /\ j = k
<1>1. l \in 1 .. Len(text) /\ j \in 1 .. Len(text[l].value) /\ s.start = Place(l, j)
  BY DEF Within
<1>2. m \in 1 .. Len(text) /\ k \in 1 .. Len(text[m].value) /\ s.start = Place(m, k)
  BY DEF Within
<1>3. l \in Nat \ {0} /\ j \in 0 .. Width - 1 /\ j \in Nat \ {0} /\ Place(l, j) \in Nat
  BY <1>1, PlaceIs
<1>4. m \in Nat \ {0} /\ k \in 0 .. Width - 1 /\ k \in Nat \ {0}
  BY <1>2, PlaceIs
<1>5. ~(Place(l, j) < Place(m, k)) /\ ~(Place(m, k) < Place(l, j))
  BY <1>1, <1>2, <1>3
<1>6. ~(l < m \/ (l = m /\ j < k)) /\ ~(m < l \/ (l = m /\ k < j))
  BY <1>3, <1>4, <1>5, PlaceOrder
<1> QED BY ONLY <1>3, <1>4, <1>6

\* What covers a place of a line, and what begins there.
LEMMA CoversAre ==
  ASSUME NEW text \in Seq(Line), NEW spans, Redaction(text, spans),
         NEW l \in 1 .. Len(text), NEW k \in 1 .. Len(text[l].value)
  PROVE  /\ Covers(spans, Place(l, k)) <=>
               \E i \in 1 .. Len(spans) : \E j, n \in Nat : Within(text, spans[i], l, j, n) /\ j <= k /\ k < j + n
         /\ Opens(spans, Place(l, k)) <=>
               \E i \in 1 .. Len(spans) : \E n \in Nat : Within(text, spans[i], l, k, n)
<1>1. l \in Nat \ {0} /\ k \in 0 .. Width - 1 /\ k \in Nat \ {0} /\ Place(l, k) \in Nat
  BY PlaceIs
<1>2. ASSUME NEW i \in 1 .. Len(spans), spans[i].start <= Place(l, k), Place(l, k) < spans[i].end
      PROVE  \E j, n \in Nat : Within(text, spans[i], l, j, n) /\ j <= k /\ k < j + n
  <2>1. PICK m, j, n \in Nat : Within(text, spans[i], m, j, n)
    BY SpanWithin
  <2>2. l = m /\ j <= k /\ k < j + n
    BY <2>1, <1>1, <1>2, CoverIs
  <2> QED BY <2>1, <2>2
<1>3. ASSUME NEW i \in 1 .. Len(spans), NEW j \in Nat, NEW n \in Nat, Within(text, spans[i], l, j, n), j <= k, k < j + n
      PROVE  spans[i].start <= Place(l, k) /\ Place(l, k) < spans[i].end
  BY <1>1, <1>3, CoverIs
<1>4. ASSUME NEW i \in 1 .. Len(spans), spans[i].start = Place(l, k)
      PROVE  \E n \in Nat : Within(text, spans[i], l, k, n)
  <2>1. PICK m, j, n \in Nat : Within(text, spans[i], m, j, n)
    BY SpanWithin
  <2>2. l \in Nat /\ k \in Nat /\ LineAt(Place(l, k)) = l /\ Place(l, k) % Width = k
    BY <1>1, PlaceParts
  <2>3. m \in Nat \ {0} /\ j \in 0 .. Width - 1 /\ spans[i].start = Place(m, j)
    BY <2>1, PlaceIs DEF Within
  <2>4. LineAt(Place(m, j)) = m /\ Place(m, j) % Width = j
    BY <2>3, PlaceParts
  <2>5. m = l /\ j = k
    BY <1>4, <2>2, <2>3, <2>4
  <2> QED BY <2>1, <2>5
<1>5. ASSUME NEW i \in 1 .. Len(spans), NEW n \in Nat, Within(text, spans[i], l, k, n)
      PROVE  spans[i].start = Place(l, k)
  BY <1>5 DEF Within
<1> QED BY <1>2, <1>3, <1>4, <1>5 DEF Covers, Opens

\* The first place of a line stays, whatever is replaced.
LEMMA FirstStays ==
  ASSUME NEW text \in Seq(Line), NEW spans, Redaction(text, spans),
         NEW l \in 1 .. Len(text), 1 \in 1 .. Len(text[l].value)
  PROVE  1 \in Stays(text, spans, l)
<1> SUFFICES ASSUME Covers(spans, Place(l, 1)) PROVE Opens(spans, Place(l, 1))
  BY DEF Stays
<1>1. PICK i \in 1 .. Len(spans) : \E j, n \in Nat : Within(text, spans[i], l, j, n) /\ j <= 1 /\ 1 < j + n
  BY CoversAre
<1>2. PICK j, n \in Nat : Within(text, spans[i], l, j, n) /\ j <= 1
  BY <1>1
<1>3. j = 1
  BY <1>2 DEF Within
<1> QED BY <1>2, <1>3, CoversAre

\* A value of one atom is its marker, or as it was.
LEMMA OneAtom ==
  ASSUME NEW text \in Seq(Line), NEW spans, Redaction(text, spans),
         NEW l \in 1 .. Len(text), NEW a, text[l].value = <<a>>
  PROVE  Rewritten(text, spans)[l].value = IF Covers(spans, Place(l, 1)) THEN <<"red">> ELSE <<a>>
<1> DEFINE S == Stays(text, spans, l)
           v == Rewritten(text, spans)[l].value
<1>1. Len(text[l].value) = 1 /\ text[l].value[1] = a /\ 1 \in 1 .. Len(text[l].value)
  OBVIOUS
<1>2. S = {1}
  <2>1. 1 \in S
    BY <1>1, FirstStays
  <2>2. \A k \in S : k \in 1 .. 1
    BY <1>1, StaysAre
  <2> HIDE DEF S
  <2> QED BY <2>1, <2>2
<1>3. Cardinality(S) = 1
  BY <1>2, FS_Singleton
<1>4. S \in SUBSET Nat /\ IsFiniteSet(S)
  BY StaysAre
<1>5. 1 \in 1 .. Cardinality(S) /\ Ascending(S)[1] = 1
  <2> HIDE DEF S
  <2>1. 1 \in 1 .. Cardinality(S)
    BY <1>3
  <2>2. Ascending(S)[1] \in S
    BY <2>1, <1>4, AscendingLists
  <2> QED BY <2>1, <2>2, <1>2
<1>6. spans \in Seq(Span)
  BY DEF Redaction
<1>7. v \in Seq(Atoms) /\ Len(v) = Cardinality(S) /\ v[1] = AfterAt(text, spans, l, 1)
  <2>1. /\ v \in Seq(Atoms) /\ Len(v) = Cardinality(S)
        /\ \A n \in 1 .. Cardinality(S) : v[n] = AfterAt(text, spans, l, n)
    <3>1. text \in Seq(Line) /\ spans \in Seq(Span) /\ l \in 1 .. Len(text)
      BY <1>6
    <3> QED BY ONLY <3>1, RewrittenIs
  <2> HIDE DEF v, S
  <2> QED BY ONLY <2>1, <1>5
<1>8. AfterAt(text, spans, l, 1) = IF Covers(spans, Place(l, 1)) THEN "red" ELSE a
  BY <1>1, <1>5 DEF AfterAt
<1> HIDE DEF v
<1>9. v \in Seq(Atoms) /\ Len(v) = 1
  BY <1>3, <1>7
<1> DEFINE x == v[1]
<1>10. v = <<x>>
  <2>1. v[1] = x
    OBVIOUS
  <2> HIDE DEF x
  <2>2. Len(<<x>>) = 1 /\ <<x>>[1] = x /\ DOMAIN <<x>> = 1 .. 1
    OBVIOUS
  <2>3. DOMAIN v = 1 .. 1
    BY ONLY <1>9
  <2>4. v = [n \in 1 .. 1 |-> v[n]]
    BY ONLY <1>9
  <2> QED BY ONLY <2>1, <2>4
<1>11. x = IF Covers(spans, Place(l, 1)) THEN "red" ELSE a
  BY <1>7, <1>8
<1> HIDE DEF x
<1> QED BY <1>10, <1>11 DEF v

----------------------------------------------------------------------------
(* The data of a Secret *)

\* The code's two walks from a data key meet the lines of its own mapping.
LEMMA SiblingsAreTheMapping ==
  ASSUME NEW text \in Seq(Line), NEW i \in 1 .. Len(text), IsDataKey(text[i]), NoInnerList(text, i)
  PROVE  SecretBlock(text, i) <=> OwnMappingIsSecret(text, i)
<1>0. Len(text) \in Nat /\ i \in Nat /\ i <= Len(text) /\ text[i].indent \in Nat
  BY LineFacts DEF Line
<1>1. /\ ~text[i].item /\ \A k \in 1 .. Len(text) : text[k].item => text[k].indent <= text[i].indent
      /\ ~Blank(text[i]) /\ ~Separator(text[i])
  <2>1. text[i].key = "data"
    BY DEF IsDataKey
  <2>2. None # "data" /\ "data" # "---"
    BY TextAssumption
  <2> QED BY <2>1, <2>2 DEF NoInnerList, Blank, Separator
<1> DEFINE Stops(k) == ~Blank(text[k]) /\ (Outside(text[k], text[i]) \/ text[k].item)
           Halts(k) == ~Blank(text[k]) /\ (Outside(text[k], text[i]) \/ (text[k].item /\ text[k].indent = text[i].indent))
           Beside(j) == ~Blank(text[j]) /\ ~Outside(text[j], text[i]) /\ text[j].indent = text[i].indent
<1>2. ASSUME NEW k \in 1 .. Len(text) PROVE Stops(k) <=> Halts(k)
  <2>1. text[k].indent \in Nat
    BY LineFacts DEF Line
  <2>2. text[k].item => text[k].indent < text[i].indent \/ text[k].indent = text[i].indent
    BY <2>1, <1>0, <1>1
  <2> QED BY <2>2 DEF Outside
<1>3. ~Halts(i)
  BY <1>0, <1>1 DEF Outside
<1>4. ASSUME NEW j \in 1 .. Len(text)
      PROVE  Beside(j) <=> ~Blank(text[j]) /\ ~Separator(text[j]) /\ text[i].indent = text[j].indent
  <2>1. text[j].indent \in Nat
    BY LineFacts DEF Line
  <2> QED BY <2>1, <1>0 DEF Outside
<1>5. Siblings(text, i) =
        {j \in 1 .. i - 1 : Beside(j) /\ \A k \in j + 1 .. i - 1 : ~Stops(k)}
        \cup {j \in i + 1 .. Len(text) : Beside(j) /\ \A k \in i + 1 .. j : ~Stops(k)}
  BY DEF Siblings
<1>6. ASSUME NEW j \in 1 .. Len(text)
      PROVE  SameMapping(text, i, j) <=>
               i # j /\ Beside(j) /\ \A k \in 1 .. Len(text) : (i < k /\ k <= j) \/ (j < k /\ k <= i) => ~Halts(k)
  BY <1>4 DEF SameMapping
<1> HIDE DEF Stops, Halts, Beside
<1>7. ASSUME NEW j \in 1 .. Len(text) PROVE j \in Siblings(text, i) <=> SameMapping(text, i, j)
  <2>0. j \in Nat /\ j <= Len(text) /\ 1 <= j
    BY <1>0
  <2>1. CASE j < i
    <3>1. j \in 1 .. i - 1 /\ j \notin i + 1 .. Len(text) /\ i # j
      BY <2>0, <2>1, <1>0
    <3>2. \A k \in j + 1 .. i - 1 : k \in 1 .. Len(text) /\ j < k /\ k <= i
      BY <2>0, <2>1, <1>0
    <3>3. \A k \in 1 .. Len(text) : (i < k /\ k <= j) \/ (j < k /\ k <= i) => k \in j + 1 .. i - 1 \/ k = i
      BY <2>0, <2>1, <1>0
    <3>4. (\A k \in j + 1 .. i - 1 : ~Stops(k)) <=>
          \A k \in 1 .. Len(text) : (i < k /\ k <= j) \/ (j < k /\ k <= i) => ~Halts(k)
      BY <3>2, <3>3, <1>2, <1>3
    <3> QED BY <3>1, <3>4, <1>5, <1>6
  <2>2. CASE i < j
    <3>1. j \notin 1 .. i - 1 /\ j \in i + 1 .. Len(text) /\ i # j
      BY <2>0, <2>2, <1>0
    <3>2. \A k \in i + 1 .. j : k \in 1 .. Len(text) /\ i < k /\ k <= j
      BY <2>0, <2>2, <1>0
    <3>3. \A k \in 1 .. Len(text) : (i < k /\ k <= j) \/ (j < k /\ k <= i) => k \in i + 1 .. j
      BY <2>0, <2>2, <1>0
    <3>4. (\A k \in i + 1 .. j : ~Stops(k)) <=>
          \A k \in 1 .. Len(text) : (i < k /\ k <= j) \/ (j < k /\ k <= i) => ~Halts(k)
      BY <3>2, <3>3, <1>2
    <3> QED BY <3>1, <3>4, <1>5, <1>6
  <2>3. CASE i = j
    <3>1. j \notin 1 .. i - 1 /\ j \notin i + 1 .. Len(text)
      BY <2>0, <2>3, <1>0
    <3> QED BY <3>1, <2>3, <1>5, <1>6
  <2> QED BY <2>0, <2>1, <2>2, <2>3, <1>0
<1>8. Siblings(text, i) \subseteq 1 .. Len(text)
  <2>1. 1 .. i - 1 \subseteq 1 .. Len(text) /\ i + 1 .. Len(text) \subseteq 1 .. Len(text)
    BY <1>0
  <2> QED BY <2>1, <1>5
<1> QED BY <1>7, <1>8 DEF SecretBlock, OwnMappingIsSecret

\* An entry is covered when it lies in the block of a Secret, and only then.
LEMMA EntryIsCovered ==
  ASSUME NEW text \in Seq(Line), NEW spans, Redaction(text, spans), NEW l \in 1 .. Len(text), Entry(text[l])
  PROVE  Covers(spans, Place(l, 1)) <=> InSecret(text, l)
<1>1. text[l].value = <<"f">> /\ text[l].key = "name" /\ text[l].indent > 0 /\ ~text[l].item
  BY DEF Entry
<1>2. Len(text[l].value) = 1 /\ 1 \in 1 .. Len(text[l].value)
  BY <1>1
<1>3. Word(text[l].value) = text[l].value
  <2> DEFINE v == text[l].value
  <2>1. v \in Seq(Atoms) /\ Len(v) = 1 /\ v[1] = "f"
    <3>1. v \in Seq(Atoms)
      BY LineFacts
    <3> QED BY <3>1, <1>1
  <2> HIDE DEF v
  <2>2. /\ Word(v) \in Seq(Atoms) /\ Len(Word(v)) \in 0 .. Len(v)
        /\ \A j \in 1 .. Len(Word(v)) : Word(v)[j] = v[j] /\ v[j] # " "
        /\ Len(Word(v)) < Len(v) => v[Len(Word(v)) + 1] = " "
    BY <2>1, WordFacts
  <2> DEFINE n == Len(Word(v))
  <2>3. n \in 0 .. 1 /\ (n < 1 => v[n + 1] = " ") /\ v[1] = "f"
    BY <2>1, <2>2
  <2> HIDE DEF n
  <2>4. n = 1
    <3>1. "f" # " "
      OBVIOUS
    <3>0. n \in 0 .. 1
      BY <2>3
    <3>2. n = 0 \/ n = 1
      BY ONLY <3>0
    <3>3. ASSUME n = 0 PROVE FALSE
      <4>1. n + 1 = 1 /\ n < 1
        BY ONLY <3>3
      <4> QED BY ONLY <4>1, <2>3, <3>1
    <3> QED BY ONLY <3>2, <3>3
  <2>5. Word(v) = v
    <3> DEFINE w == Word(v)
    <3>1. w \in Seq(Atoms) /\ Len(w) = 1 /\ w[1] = v[1] /\ v \in Seq(Atoms) /\ Len(v) = 1
      <4>1. 1 \in 1 .. 1
        OBVIOUS
      <4> QED BY <4>1, <2>1, <2>2, <2>4 DEF n
    <3> HIDE DEF w
    <3>2. w = [i \in 1 .. 1 |-> w[i]] /\ v = [i \in 1 .. 1 |-> v[i]]
      BY ONLY <3>1
    <3>3. [i \in 1 .. 1 |-> w[i]] = [i \in 1 .. 1 |-> v[i]]
      BY ONLY <3>1
    <3> QED BY <3>2, <3>3 DEF w
  <2> QED BY <2>5 DEF v
<1>4. Credential(text[l].value)
  <2>1. ~IsPlaceholder(text[l].value)
    BY <1>1 DEF IsPlaceholder
  <2>2. ~IsACodeExpression(text[l].value)
    BY <1>1 DEF IsACodeExpression
  <2> QED BY <2>1, <2>2 DEF Credential
<1>5. ValueFound(text, l)
  <2>1. "name" \notin {None, "---"}
    BY TextAssumption
  <2> QED BY <2>1, <1>1, <1>3, <1>4 DEF ValueFound
<1>6. ~PasswordFound(text, l)
  BY <1>1 DEF PasswordFound
<1>7. ASSUME InSecret(text, l) PROVE Covers(spans, Place(l, 1))
  <2> DEFINE s == KeyedSpan(text, l, "kubernetes", 2)
  <2>1. InAny(FindSpans(text), s)
    BY <1>5, <1>7, FindingsAre DEF Finding
  <2>2. Within(text, s, l, 1, 1)
    <3>1. Word(text[l].value) # <<>>
      <4>1. <<"f">> # <<>>
        OBVIOUS
      <4> QED BY ONLY <4>1, <1>1, <1>3
    <3>2. Len(Word(text[l].value)) = 1
      BY ONLY <1>2, <1>3
    <3> DEFINE w == Word(text[l].value)
    <3>3. w # <<>> /\ Len(w) = 1
      BY <3>1, <3>2
    <3>4. Within(text, s, l, 1, Len(w))
      BY <3>1, KeyedWithin
    <3> HIDE DEF w, s
    <3> QED BY ONLY <3>3, <3>4
  <2> HIDE DEF s
  <2>3. PICK i \in 1 .. Len(spans) : s = spans[i] \/ Overlap(s, spans[i])
    BY <2>1 DEF Redaction
  <2> DEFINE t == spans[i]
             x == Place(l, 1)
  <2>4. s.start = x /\ s.end = x + 1 /\ x \in Nat /\ t.start \in Nat /\ t.end \in Nat /\ t.start < t.end
    <3>1. t \in Span
      BY DEF Redaction
    <3>2. s.start = x /\ s.end = x + 1
      BY <2>2 DEF Within
    <3>3. x \in Nat
      BY <1>2, PlaceIs
    <3> QED BY <3>1, <3>2, <3>3, SpanFields
  <2>5. s = t \/ (s.start < t.end /\ t.start < s.end)
    BY <2>3 DEF Overlap
  <2> HIDE DEF t, x
  <2>6. t.start <= x /\ x < t.end
    BY <2>4, <2>5
  <2> QED BY <2>6 DEF Covers, t, x
<1>8. ASSUME Covers(spans, Place(l, 1)) PROVE InSecret(text, l)
  <2>1. PICK i \in 1 .. Len(spans) : \E j, n \in Nat : Within(text, spans[i], l, j, n) /\ j <= 1 /\ 1 < j + n
    BY <1>2, <1>8, CoversAre
  <2>2. PICK j, n \in Nat : Within(text, spans[i], l, j, n) /\ j <= 1
    BY <2>1
  <2> DEFINE s == spans[i]
  <2>3. Within(text, s, l, j, n)
    BY <2>2
  <2>4. Finding(text, s)
    BY FindingsAre DEF Redaction
  <2> HIDE DEF s
  <2>5. ASSUME NEW a, NEW b, NEW p, PairFound(text, a, b, p, s) PROVE FALSE
    <3>1. PICK m, k \in Nat : PairAt(text, m, k, a, b) /\ s = SpanAt(Place(m, k), 2, "token", p)
      BY <2>5 DEF PairFound
    <3>2. Within(text, s, m, k, 2)
      BY <3>1, PairWithin
    <3>3. m = l
      BY <2>3, <3>2, WithinOnce
    <3>4. k \in 1 .. 1 /\ k + 1 <= 1
      BY <3>1, <3>3, <1>2 DEF PairAt
    <3> QED BY <3>4
  <2>6. ASSUME NEW m \in 1 .. Len(text), NEW c, NEW p, s = KeyedSpan(text, m, c, p), Word(text[m].value) # <<>>
        PROVE  m = l
    <3>1. Within(text, s, m, 1, Len(Word(text[m].value)))
      BY <2>6, KeyedWithin
    <3> QED BY <3>1, <2>3, WithinOnce
  <2>7. CASE \E m \in 1 .. Len(text) : ValueFound(text, m) /\ InSecret(text, m) /\ s = KeyedSpan(text, m, "kubernetes", 2)
    <3>1. PICK m \in 1 .. Len(text) : ValueFound(text, m) /\ InSecret(text, m) /\ s = KeyedSpan(text, m, "kubernetes", 2)
      BY <2>7
    <3>2. m = l
      BY <3>1, <2>6, FoundWords
    <3> QED BY <3>1, <3>2
  <2>8. CASE \E m \in 1 .. Len(text) : PasswordFound(text, m) /\ s = KeyedSpan(text, m, "password", 3)
    <3>1. PICK m \in 1 .. Len(text) : PasswordFound(text, m) /\ s = KeyedSpan(text, m, "password", 3)
      BY <2>8
    <3>2. m = l
      BY <3>1, <2>6, FoundWords
    <3> QED BY <3>1, <3>2, <1>6
  <2> QED BY <2>4, <2>5, <2>7, <2>8 DEF Finding
<1> QED BY <1>7, <1>8

\* A field of a conversation that was returned, as it was handed in.
LEMMA ReturnedFields ==
  ASSUME PrepInv, prepared # None, NEW f \in Texts(prepared)
  PROVE  /\ conversation[f] \in Seq(Line) /\ prepared[f] \in Seq(Line)
         /\ \E spans \in Seq(Span) : Redaction(conversation[f], spans) /\ prepared[f] = Rewritten(conversation[f], spans)
<1>1. prepared = copy /\ field = 6 /\ f \in ToSet(Fields) /\ ~Absent(copy[f])
  BY DEF PrepInv, ReturnInv, Texts
<1>2. PICK i \in 1 .. 6 : Fields[i] = f
  BY <1>1, FieldsAre
<1>3. Redacted(copy[f], conversation[f])
  BY <1>1, <1>2 DEF PrepInv, FindingInv
<1>4. ~Absent(conversation[f])
  BY <1>1, <1>3 DEF Redacted
<1>5. conversation[f] \in Seq(Line) /\ copy[f] \in Seq(Line)
  BY <1>1, <1>4 DEF PrepInv, FormInv, Absent
<1> QED BY <1>1, <1>3, <1>4, <1>5 DEF Redacted

\* The data of the Secrets is replaced, and no other (RC-13).
THEOREM SecretDataIsHidden == Preparing => []SecretDataIsReplaced
<1>1. ASSUME PrepInv PROVE SecretDataIsReplaced
  <2> SUFFICES ASSUME prepared # None, NEW f \in Texts(prepared), NEW l \in DOMAIN prepared[f],
                      Entry(conversation[f][l]),
                      \A i \in DataOf(conversation[f], l) : NoInnerList(conversation[f], i)
               PROVE  Settled(conversation[f], prepared[f], l)
    BY DEF SecretDataIsReplaced
  <2> DEFINE text == conversation[f]
  <2>1. PICK spans \in Seq(Span) : Redaction(text, spans) /\ prepared[f] = Rewritten(text, spans)
    BY <1>1, ReturnedFields
  <2>2. text \in Seq(Line)
    BY <1>1, ReturnedFields
  <2> DEFINE after == Rewritten(text, spans)
  <2>3. l \in 1 .. Len(text)
    BY <2>1, <2>2, RewrittenIs
  <2>4. prepared[f] = after /\ Entry(text[l]) /\ \A i \in DataOf(text, l) : NoInnerList(text, i)
    BY <2>1
  <2> HIDE DEF text, after
  <2>5. after[l].value = IF Covers(spans, Place(l, 1)) THEN <<"red">> ELSE <<"f">>
    BY <2>1, <2>2, <2>3, <2>4, OneAtom DEF after, Entry
  <2>6. <<"red">> # <<"f">>
    OBVIOUS
  <2>7. Covers(spans, Place(l, 1)) <=> InSecret(text, l)
    BY <2>1, <2>2, <2>3, <2>4, EntryIsCovered
  <2>8. InSecret(text, l) <=> \E i \in DataOf(text, l) : OwnMappingIsSecret(text, i)
    <3>1. ASSUME NEW i \in 1 .. Len(text), SecretBlock(text, i), InBlock(text, i, l)
          PROVE  i \in DataOf(text, l)
      BY <2>3, <3>1 DEF DataOf, InBlock, SecretBlock
    <3>2. ASSUME NEW i \in DataOf(text, l)
          PROVE  i \in 1 .. Len(text) /\ InBlock(text, i, l) /\ (SecretBlock(text, i) <=> OwnMappingIsSecret(text, i))
      <4>1. i \in 1 .. Len(text) /\ IsDataKey(text[i]) /\ InBlock(text, i, l)
        BY <2>2, <2>3 DEF DataOf, InBlock
      <4> QED BY <4>1, <2>2, <2>4, SiblingsAreTheMapping
    <3> QED BY <3>1, <3>2 DEF InSecret
  <2> QED BY <2>4, <2>5, <2>6, <2>7, <2>8 DEF Settled, text
<1> QED BY <1>1, PrepInitial, PrepInductive, PTL DEF Preparing

----------------------------------------------------------------------------
(* What is left of a line *)

\* Where the q-th atom of a rewritten line was.
Was(text, spans, l, q) == Ascending(Stays(text, spans, l))[q]

\* The places that stay, in order.
LEMMA WasFacts ==
  ASSUME NEW text \in Seq(Line), NEW spans, NEW l \in 1 .. Len(text)
  PROVE  LET c == Cardinality(Stays(text, spans, l))
         IN  /\ c \in Nat /\ Len(text[l].value) \in Nat /\ c <= Len(text[l].value)
             /\ \A q \in 1 .. c : /\ Was(text, spans, l, q) \in Stays(text, spans, l)
                                  /\ Was(text, spans, l, q) \in 1 .. Len(text[l].value)
             /\ \A q, r \in 1 .. c : q < r => Was(text, spans, l, q) < Was(text, spans, l, r)
             /\ \A k \in Stays(text, spans, l) : \E q \in 1 .. c : Was(text, spans, l, q) = k
             /\ \A k \in Stays(text, spans, l) : k \in 1 .. Len(text[l].value)
<1> DEFINE S == Stays(text, spans, l)
<1>1. S \in SUBSET (1 .. Len(text[l].value)) /\ S \in SUBSET Nat /\ IsFiniteSet(S)
      /\ Cardinality(S) \in 0 .. Len(text[l].value)
  BY StaysAre
<1>2. Len(text[l].value) \in Nat
  BY LineFacts
<1> HIDE DEF S
<1>3. /\ Cardinality(S) \in Nat
      /\ \A k \in 1 .. Cardinality(S) : Ascending(S)[k] \in S
      /\ \A k, m \in 1 .. Cardinality(S) : k < m => Ascending(S)[k] < Ascending(S)[m]
      /\ \A i \in S : \E k \in 1 .. Cardinality(S) : Ascending(S)[k] = i
  BY ONLY <1>1, AscendingLists
<1> QED BY <1>1, <1>2, <1>3 DEF Was, S

\* A place that goes is covered from one that stays on.
LEMMA GapIsCovered ==
  ASSUME NEW text \in Seq(Line), NEW spans, Redaction(text, spans),
         NEW l \in 1 .. Len(text), NEW k \in 1 .. Len(text[l].value), k \notin Stays(text, spans, l)
  PROVE  \E j \in Stays(text, spans, l) : j < k /\ \A m \in j .. k : Covers(spans, Place(l, m))
<1>0. Len(text[l].value) \in Nat /\ k \in Nat
  BY LineFacts
<1>1. Covers(spans, Place(l, k)) /\ ~Opens(spans, Place(l, k))
  BY DEF Stays
<1>2. PICK i \in 1 .. Len(spans) : \E j, n \in Nat : Within(text, spans[i], l, j, n) /\ j <= k /\ k < j + n
  BY <1>1, CoversAre
<1>3. PICK j, n \in Nat : Within(text, spans[i], l, j, n) /\ j <= k /\ k < j + n
  BY <1>2
<1>4. j # k
  BY <1>1, <1>3, CoversAre
<1>5. j \in 1 .. Len(text[l].value)
  BY <1>3 DEF Within
<1>6. Opens(spans, Place(l, j))
  BY <1>3, <1>5, CoversAre
<1>7. j \in Stays(text, spans, l)
  BY <1>5, <1>6 DEF Stays
<1>8. ASSUME NEW m \in j .. k PROVE Covers(spans, Place(l, m))
  <2>1. m \in 1 .. Len(text[l].value) /\ j <= m /\ m < j + n
    BY <1>0, <1>3, <1>5
  <2> QED BY <2>1, <1>3, CoversAre
<1>9. j < k
  BY <1>0, <1>3, <1>4, <1>5
<1> QED BY <1>7, <1>8, <1>9

\* What follows an atom that was not replaced is what followed it.
LEMMA NextIsNext ==
  ASSUME NEW text \in Seq(Line), NEW spans, Redaction(text, spans), NEW l \in 1 .. Len(text),
         NEW q \in 1 .. Cardinality(Stays(text, spans, l)), q + 1 \in 1 .. Cardinality(Stays(text, spans, l)),
         ~Covers(spans, Place(l, Was(text, spans, l, q)))
  PROVE  Was(text, spans, l, q + 1) = Was(text, spans, l, q) + 1
<1> DEFINE S == Stays(text, spans, l)
           c == Cardinality(S)
           len == Len(text[l].value)
           W(i) == Was(text, spans, l, i)
<1>1. /\ c \in Nat /\ len \in Nat
      /\ \A i \in 1 .. c : W(i) \in S /\ W(i) \in 1 .. len
      /\ \A i, r \in 1 .. c : i < r => W(i) < W(r)
      /\ \A k \in S : \E i \in 1 .. c : W(i) = k
      /\ \A k \in S : k \in 1 .. len
  BY WasFacts
<1>2. q \in 1 .. c /\ q + 1 \in 1 .. c
  OBVIOUS
<1>3. \A k \in 1 .. len : k \notin S => \E j \in S : j < k /\ \A m \in j .. k : Covers(spans, Place(l, m))
  BY GapIsCovered
<1>4. ~Covers(spans, Place(l, W(q)))
  OBVIOUS
<1> HIDE DEF S, c, len, W
<1>5. ASSUME NEW j \in S, j < W(q) + 1 PROVE j <= W(q)
  BY <1>1, <1>2, <1>5
<1>6. W(q) \in Nat /\ W(q + 1) \in Nat /\ W(q) < W(q + 1) /\ W(q + 1) <= len /\ 1 <= W(q)
  <2>1. q < q + 1
    BY <1>1, <1>2
  <2> QED BY <2>1, <1>1, <1>2
<1>7. ASSUME W(q) + 1 # W(q + 1) PROVE FALSE
  <2> DEFINE k == W(q) + 1
  <2>1. k \in 1 .. len /\ k < W(q + 1) /\ W(q) < k
    BY <1>1, <1>6, <1>7
  <2>2. CASE k \in S
    <3>1. PICK r \in 1 .. c : W(r) = k
      BY <2>2, <1>1
    <3>2. ~(r < q) /\ ~(r = q)
      BY <3>1, <2>1, <1>1, <1>2, <1>6
    <3>3. ~(q + 1 < r) /\ ~(q + 1 = r)
      BY <3>1, <2>1, <1>1, <1>2, <1>6
    <3> QED BY <3>2, <3>3, <1>1, <1>2
  <2>3. CASE k \notin S
    <3>1. PICK j \in S : j < k /\ \A m \in j .. k : Covers(spans, Place(l, m))
      BY <2>1, <2>3, <1>3
    <3>2. j \in Nat /\ j <= W(q)
      BY <3>1, <1>1, <1>5
    <3>3. W(q) \in j .. k
      BY <3>2, <1>6, <2>1
    <3> QED BY <3>1, <3>3, <1>4
  <2> QED BY <2>2, <2>3
<1> QED BY <1>6, <1>7 DEF W

\* A line begins with what it began with, up to where something was replaced: all
\* of it, if nothing was.
LEMMA BeginningIsKept ==
  ASSUME NEW text \in Seq(Line), NEW spans, Redaction(text, spans), NEW l \in 1 .. Len(text),
         NEW n \in 0 .. Cardinality(Stays(text, spans, l)),
         \A q \in 1 .. n : ~Covers(spans, Place(l, Was(text, spans, l, q)))
  PROVE  /\ \A q \in 1 .. n : Was(text, spans, l, q) = q
         /\ n < Cardinality(Stays(text, spans, l)) => Was(text, spans, l, n + 1) = n + 1
         /\ n = Cardinality(Stays(text, spans, l)) => Len(text[l].value) = n
<1> DEFINE S == Stays(text, spans, l)
           c == Cardinality(S)
           len == Len(text[l].value)
           W(i) == Was(text, spans, l, i)
<1>1. /\ c \in Nat /\ len \in Nat /\ c <= len
      /\ \A i \in 1 .. c : W(i) \in S /\ W(i) \in 1 .. len
      /\ \A i, r \in 1 .. c : i < r => W(i) < W(r)
      /\ \A k \in S : \E i \in 1 .. c : W(i) = k
      /\ \A k \in S : k \in 1 .. len
  BY WasFacts
<1>2. \A k \in 1 .. len : k \notin S => \E j \in S : j < k /\ \A m \in j .. k : Covers(spans, Place(l, m))
  BY GapIsCovered
<1>3. \A q \in 1 .. n : ~Covers(spans, Place(l, W(q)))
  OBVIOUS
<1>4. ASSUME NEW q \in 1 .. c, q + 1 \in 1 .. c, ~Covers(spans, Place(l, W(q))) PROVE W(q + 1) = W(q) + 1
  BY <1>4, NextIsNext
<1>5. 1 \in 1 .. len => 1 \in S
  BY FirstStays
<1>6. n \in 0 .. c
  OBVIOUS
<1> HIDE DEF S, c, len, W
<1>7. 1 \in 1 .. c => W(1) = 1
  <2> SUFFICES ASSUME 1 \in 1 .. c PROVE W(1) = 1
    OBVIOUS
  <2>1. 1 \in 1 .. len
    BY <1>1
  <2>2. PICK r \in 1 .. c : W(r) = 1
    BY <2>1, <1>1, <1>5
  <2>3. 1 < r => W(1) < W(r)
    BY <1>1
  <2>4. W(1) \in 1 .. len
    BY <1>1
  <2>5. r = 1 \/ 1 < r
    BY <1>1
  <2> QED BY <2>2, <2>3, <2>4, <2>5, <1>1
<1>8. \A q \in 1 .. c : q <= n + 1 => W(q) = q
  <2> DEFINE B == {q \in 1 .. c : q <= n + 1 /\ W(q) # q}
  <2>1. SUFFICES ASSUME B # {} PROVE FALSE
    OBVIOUS
  <2>2. B \in SUBSET Nat
    BY <1>1
  <2>3. PICK q \in B : \A m \in B : q <= m
    <3> HIDE DEF B
    <3> QED BY ONLY <2>1, <2>2, HasLeast
  <2>4. q \in 1 .. c /\ q <= n + 1 /\ W(q) # q
    OBVIOUS
  <2>5. q # 1
    BY <2>4, <1>7
  <2> DEFINE p == q - 1
  <2>6. p \in 1 .. n /\ p \in 1 .. c /\ p + 1 = q /\ p <= n + 1 /\ ~(q <= p)
    BY <2>4, <2>5, <1>1, <1>6
  <2>7. p \notin B
    BY <2>3, <2>6
  <2>8. W(p) = p
    BY <2>6, <2>7
  <2>9. W(p + 1) = W(p) + 1
    BY <2>4, <2>6, <1>3, <1>4
  <2> QED BY <2>4, <2>6, <2>8, <2>9
<1>9. \A q \in 1 .. n : W(q) = q
  <2>1. \A q \in 1 .. n : q \in 1 .. c /\ q <= n + 1
    BY <1>1, <1>6
  <2> QED BY <2>1, <1>8
<1>10. n < c => W(n + 1) = n + 1
  <2>1. n < c => n + 1 \in 1 .. c /\ n + 1 <= n + 1
    BY <1>1, <1>6
  <2> QED BY <2>1, <1>8
<1>11. ASSUME n = c, len # n PROVE FALSE
  <2> DEFINE k == n + 1
  <2>1. k \in 1 .. len /\ k \notin 1 .. n
    BY <1>1, <1>6, <1>11
  <2>2. \A j \in S : j \in 1 .. n
    BY <1>1, <1>9, <1>11
  <2>3. PICK j \in S : \A m \in j .. k : Covers(spans, Place(l, m))
    BY <2>1, <2>2, <1>2
  <2>4. j \in 1 .. n /\ j \in j .. k
    BY <2>2, <1>6, <1>1
  <2> QED BY <2>3, <2>4, <1>3, <1>9
<1> QED BY <1>9, <1>10, <1>11 DEF c, len, W, S

\* What is no marker was not replaced.
LEMMA UnmarkedIsAsItWas ==
  ASSUME NEW text \in Seq(Line), NEW spans, Redaction(text, spans), NEW l \in 1 .. Len(text),
         NEW q \in 1 .. Len(Rewritten(text, spans)[l].value), Rewritten(text, spans)[l].value[q] # "red"
  PROVE  /\ q \in 1 .. Cardinality(Stays(text, spans, l))
         /\ ~Covers(spans, Place(l, Was(text, spans, l, q)))
         /\ Rewritten(text, spans)[l].value[q] = text[l].value[Was(text, spans, l, q)]
<1>1. spans \in Seq(Span)
  BY DEF Redaction
<1>2. /\ Len(Rewritten(text, spans)[l].value) = Cardinality(Stays(text, spans, l))
      /\ \A n \in 1 .. Cardinality(Stays(text, spans, l)) :
                     Rewritten(text, spans)[l].value[n] = AfterAt(text, spans, l, n)
  BY <1>1, RewrittenIs
<1>3. q \in 1 .. Cardinality(Stays(text, spans, l))
  BY <1>2
<1>4. Rewritten(text, spans)[l].value[q] = AfterAt(text, spans, l, q)
  BY <1>2, <1>3
<1> QED BY <1>3, <1>4 DEF AfterAt, Was

----------------------------------------------------------------------------
(* What a second pass may find *)

\* A finding has a place that is covered.
LEMMA FindingIsCovered ==
  ASSUME NEW text \in Seq(Line), NEW spans, Redaction(text, spans), NEW s, Finding(text, s),
         NEW l, NEW j, NEW n, Within(text, s, l, j, n)
  PROVE  \E k \in Nat : j <= k /\ k < j + n /\ k \in 1 .. Len(text[l].value) /\ Covers(spans, Place(l, k))
<1>1. PICK i \in 1 .. Len(spans) : s = spans[i] \/ Overlap(s, spans[i])
  BY FindingsAre DEF Redaction
<1> DEFINE t == spans[i]
<1>2. PICK m, h, p \in Nat : Within(text, t, m, h, p)
  BY SpanWithin
<1>3. t \in Span
  BY DEF Redaction
<1>4. s = t \/ (s.start < t.end /\ t.start < s.end)
  BY <1>1 DEF Overlap
<1>5. t.start \in Nat /\ t.end \in Nat /\ t.start < t.end
  BY <1>3, SpanFields
<1>6. /\ l \in 1 .. Len(text) /\ j \in 1 .. Len(text[l].value) /\ n \in Nat \ {0}
      /\ s.start = Place(l, j) /\ s.end = Place(l, j) + n
  BY DEF Within
<1>7. /\ m \in 1 .. Len(text) /\ h \in 1 .. Len(text[m].value) /\ t.start = Place(m, h)
  BY <1>2 DEF Within
<1>8. l \in Nat \ {0} /\ j \in 0 .. Width - 1 /\ j \in Nat \ {0} /\ Place(l, j) \in Nat
  BY <1>6, PlaceIs
<1>9. m \in Nat \ {0} /\ h \in 0 .. Width - 1 /\ h \in Nat \ {0}
  BY <1>7, PlaceIs
<1>10. CASE t.start <= s.start
  <2>1. s.start < t.end
    BY <1>4, <1>5, <1>6, <1>8, <1>10
  <2>2. Covers(spans, Place(l, j))
    BY <2>1, <1>6, <1>10 DEF Covers
  <2>3. j <= j /\ j < j + n
    BY <1>6, <1>8
  <2> QED BY <2>2, <2>3, <1>6, <1>8
<1>11. CASE s.start < t.start
  <2>1. t.start < s.end
    BY <1>4, <1>11, <1>6, <1>8
  <2>2. s.start <= Place(m, h) /\ Place(m, h) < s.end
    BY <2>1, <1>5, <1>6, <1>7, <1>8, <1>11
  <2>3. m = l /\ j <= h /\ h < j + n
    BY <2>2, <1>9, CoverIs
  <2>4. Covers(spans, Place(l, h))
    BY <2>3, <1>5, <1>7 DEF Covers
  <2> QED BY <2>3, <2>4, <1>7, <1>9
<1> QED BY <1>5, <1>6, <1>8, <1>10, <1>11

\* What the redaction of a line is: no marker from its first atom to its n-th, and
\* these were not replaced.
Unmarked(value, j, n) == \A q \in j .. j + n - 1 : value[q] # "red"

\* A pair of atoms without a marker was a pair.
LEMMA PairWasAPair ==
  ASSUME NEW text \in Seq(Line), NEW spans, Redaction(text, spans), NEW l, NEW k \in Nat, NEW a, NEW b,
         PairAt(Rewritten(text, spans), l, k, a, b), a # "red", b # "red"
  PROVE  \E h \in Nat : PairAt(text, l, h, a, b) /\ ~Covers(spans, Place(l, h)) /\ ~Covers(spans, Place(l, h + 1))
<1> DEFINE R == Rewritten(text, spans)
           h == Was(text, spans, l, k)
           c == Cardinality(Stays(text, spans, l))
           len == Len(text[l].value)
<1>1. spans \in Seq(Span)
  BY DEF Redaction
<1>2. R \in Seq(Line) /\ Len(R) = Len(text)
  BY <1>1, RewrittenIs
<1>3. /\ l \in 1 .. Len(text) /\ k \in 1 .. Len(R[l].value) /\ k + 1 <= Len(R[l].value)
      /\ R[l].value[k] = a /\ R[l].value[k + 1] = b
  BY <1>2 DEF PairAt
<1>4. k + 1 \in 1 .. Len(R[l].value)
  BY <1>2, <1>3, LineFacts
<1>5. k \in 1 .. c /\ ~Covers(spans, Place(l, h)) /\ a = text[l].value[h]
  BY <1>3, UnmarkedIsAsItWas
<1>6. k + 1 \in 1 .. c /\ ~Covers(spans, Place(l, Was(text, spans, l, k + 1)))
      /\ b = text[l].value[Was(text, spans, l, k + 1)]
  BY <1>3, <1>4, UnmarkedIsAsItWas
<1>7. Was(text, spans, l, k + 1) = h + 1
  BY <1>3, <1>5, <1>6, NextIsNext
<1>8. h \in 1 .. len /\ h + 1 \in 1 .. len /\ len \in Nat
  BY <1>3, <1>5, <1>6, <1>7, WasFacts
<1> HIDE DEF h, len
<1>9. h \in Nat /\ h + 1 <= len
  BY <1>8
<1>10. PairAt(text, l, h, a, b)
  BY <1>3, <1>5, <1>6, <1>7, <1>8, <1>9 DEF PairAt, len
<1> QED BY <1>5, <1>6, <1>7, <1>9, <1>10

\* A pair that a second pass finds has a marker in it.
LEMMA NoPairIsLeft ==
  ASSUME NEW text \in Seq(Line), NEW spans, Redaction(text, spans), NEW a, NEW b, NEW p \in Nat, NEW s,
         PairFound(Rewritten(text, spans), a, b, p, s), a # "red", b # "red",
         \A z : PairFound(text, a, b, p, z) => Finding(text, z)
  PROVE  FALSE
<1>1. PICK l, k \in Nat : PairAt(Rewritten(text, spans), l, k, a, b)
  BY DEF PairFound
<1>2. PICK h \in Nat : PairAt(text, l, h, a, b) /\ ~Covers(spans, Place(l, h)) /\ ~Covers(spans, Place(l, h + 1))
  BY <1>1, PairWasAPair
<1> DEFINE z == SpanAt(Place(l, h), 2, "token", p)
<1>3. PairFound(text, a, b, p, z)
  BY <1>1, <1>2 DEF PairFound
<1>4. Finding(text, z)
  BY <1>3
<1>5. Within(text, z, l, h, 2)
  BY <1>2, PairWithin
<1> HIDE DEF z
<1>6. PICK k2 \in Nat : h <= k2 /\ k2 < h + 2 /\ Covers(spans, Place(l, k2))
  BY <1>4, <1>5, FindingIsCovered
<1>7. k2 = h \/ k2 = h + 1
  BY <1>6
<1> QED BY <1>2, <1>6, <1>7

\* A line that holds no marker is what it was.
LEMMA UnmarkedLine ==
  ASSUME NEW text \in Seq(Line), NEW spans, Redaction(text, spans), NEW l \in 1 .. Len(text),
         \A q \in 1 .. Len(Rewritten(text, spans)[l].value) : Rewritten(text, spans)[l].value[q] # "red"
  PROVE  /\ Rewritten(text, spans)[l].value = text[l].value
         /\ \A k \in 1 .. Len(text[l].value) : ~Covers(spans, Place(l, k))
<1> DEFINE R == Rewritten(text, spans)
           v == R[l].value
           c == Cardinality(Stays(text, spans, l))
<1>1. spans \in Seq(Span)
  BY DEF Redaction
<1>2. R \in Seq(Line) /\ Len(R) = Len(text) /\ Len(v) = c /\ v \in Seq(Atoms)
  BY <1>1, RewrittenIs
<1>3. \A q \in 1 .. c : ~Covers(spans, Place(l, Was(text, spans, l, q))) /\ v[q] = text[l].value[Was(text, spans, l, q)]
  BY <1>2, UnmarkedIsAsItWas
<1>4. c \in 0 .. c
  BY WasFacts
<1>5. (\A q \in 1 .. c : Was(text, spans, l, q) = q) /\ Len(text[l].value) = c
  BY <1>3, <1>4, BeginningIsKept
<1>6. \A q \in 1 .. c : ~Covers(spans, Place(l, q)) /\ v[q] = text[l].value[q]
  BY <1>3, <1>5
<1>7. text[l].value \in Seq(Atoms)
  BY LineFacts
<1>8. v = text[l].value
  <2> DEFINE u == text[l].value
  <2>1. v \in Seq(Atoms) /\ u \in Seq(Atoms) /\ Len(v) = c /\ Len(u) = c /\ \A q \in 1 .. c : v[q] = u[q]
    BY <1>2, <1>5, <1>6, <1>7
  <2> HIDE DEF v, u, c
  <2> QED BY ONLY <2>1, SeqEqual DEF u
<1> QED BY <1>5, <1>6, <1>8

\* The word of a value is known by where it ends.
LEMMA WordIs ==
  ASSUME NEW value \in Seq(Atoms), NEW n \in 0 .. Len(value), \A j \in 1 .. n : value[j] # " ",
         n < Len(value) => value[n + 1] = " "
  PROVE  Len(Word(value)) = n
<1> DEFINE m == Len(Word(value))
           len == Len(value)
<1>1. /\ m \in 0 .. len
      /\ \A j \in 1 .. m : value[j] # " "
      /\ m < len => value[m + 1] = " "
  BY WordFacts
<1>2. /\ n \in 0 .. len
      /\ \A j \in 1 .. n : value[j] # " "
      /\ n < len => value[n + 1] = " "
  OBVIOUS
<1>3. len \in Nat
  BY ONLY value \in Seq(Atoms)
<1>4. m \in 0 .. len /\ n \in 0 .. len
  BY WordFacts
<1> HIDE DEF m, len
<1>5. ~(m < n)
  <2> SUFFICES ASSUME m < n PROVE FALSE
    OBVIOUS
  <2>1. m + 1 \in 1 .. n /\ m < len
    BY ONLY <1>3, <1>4, m < n
  <2> QED BY <2>1, <1>1, <1>2
<1>6. ~(n < m)
  <2> SUFFICES ASSUME n < m PROVE FALSE
    OBVIOUS
  <2>1. n + 1 \in 1 .. m /\ n < len
    BY ONLY <1>3, <1>4, n < m
  <2> QED BY <2>1, <1>1, <1>2
<1>7. m = n
  BY ONLY <1>3, <1>4, <1>5, <1>6
<1> QED BY <1>7 DEF m

\* A word that holds no marker is what it was, and nothing of it was replaced.
LEMMA WordWas ==
  ASSUME NEW text \in Seq(Line), NEW spans, Redaction(text, spans), NEW l \in 1 .. Len(text),
         \A q \in 1 .. Len(Word(Rewritten(text, spans)[l].value)) : Rewritten(text, spans)[l].value[q] # "red"
  PROVE  /\ Word(Rewritten(text, spans)[l].value) = Word(text[l].value)
         /\ \A k \in 1 .. Len(Word(text[l].value)) : ~Covers(spans, Place(l, k))
<1> DEFINE R == Rewritten(text, spans)
           v == R[l].value
           u == text[l].value
           c == Cardinality(Stays(text, spans, l))
           n == Len(Word(v))
           W(q) == Was(text, spans, l, q)
<1>1. spans \in Seq(Span)
  BY DEF Redaction
<1>2. Len(v) = c /\ v \in Seq(Atoms)
  BY <1>1, RewrittenIs
<1>3. u \in Seq(Atoms) /\ c \in Nat /\ Len(u) \in Nat /\ c <= Len(u)
  BY LineFacts, WasFacts
<1>4. /\ \A q \in 1 .. n : v[q] # "red"
      /\ \A q \in 1 .. Len(v) : v[q] # "red" => q \in 1 .. c /\ ~Covers(spans, Place(l, W(q))) /\ v[q] = u[W(q)]
  BY UnmarkedIsAsItWas
<1> HIDE DEF v
<1>5. /\ Word(v) \in Seq(Atoms) /\ n \in 0 .. Len(v)
      /\ \A j \in 1 .. n : Word(v)[j] = v[j] /\ v[j] # " "
      /\ n < Len(v) => v[n + 1] = " "
  BY <1>2, WordFacts
<1> HIDE DEF n
<1>t. n \in 0 .. Len(v) /\ Len(v) \in Nat
  BY <1>2, <1>3, <1>5
<1>6. \A q \in 1 .. n : q \in 1 .. Len(v)
  BY ONLY <1>t
<1>7. \A q \in 1 .. n : ~Covers(spans, Place(l, W(q))) /\ v[q] = u[W(q)]
  BY <1>4, <1>6
<1>8. n \in 0 .. c
  BY <1>2, <1>5
<1>9. /\ \A q \in 1 .. n : W(q) = q
      /\ n < c => W(n + 1) = n + 1
      /\ n = c => Len(u) = n
  BY <1>7, <1>8, BeginningIsKept
<1> HIDE DEF u, W, c
<1>10. \A q \in 1 .. n : ~Covers(spans, Place(l, q)) /\ v[q] = u[q]
  BY <1>7, <1>9
<1>11. n < Len(u) => u[n + 1] = " "
  <2> SUFFICES ASSUME n < Len(u) PROVE u[n + 1] = " "
    OBVIOUS
  <2>1. n < c /\ n + 1 \in 1 .. c
    BY <1>3, <1>8, <1>9
  <2>2. v[n + 1] = " " /\ n + 1 \in 1 .. Len(v)
    BY <2>1, <1>2, <1>5
  <2>3. " " # "red"
    OBVIOUS
  <2>4. v[n + 1] = u[W(n + 1)]
    BY <2>2, <2>3, <1>4
  <2> QED BY <2>1, <2>2, <2>4, <1>9
<1>12. n \in 0 .. Len(u) /\ \A j \in 1 .. n : u[j] # " "
  <2>1. n \in 0 .. Len(u)
    BY <1>3, <1>8
  <2> QED BY <2>1, <1>5, <1>10
<1>13. Len(Word(u)) = n
  BY <1>3, <1>11, <1>12, WordIs
<1>14. Word(u) \in Seq(Atoms) /\ \A j \in 1 .. Len(Word(u)) : Word(u)[j] = u[j]
  BY <1>3, WordFacts
<1> DEFINE x == Word(u)
           y == Word(v)
<1>15. /\ x \in Seq(Atoms) /\ y \in Seq(Atoms) /\ Len(x) = n /\ Len(y) = n
       /\ \A j \in 1 .. n : x[j] = y[j]
  BY <1>5, <1>10, <1>13, <1>14 DEF n
<1> HIDE DEF x, y
<1>16. x = y
  BY ONLY <1>15, SeqEqual
<1> QED BY <1>10, <1>13, <1>16 DEF x, y, u, v

\* A line that is rewritten is empty when it was.
LEMMA StillEmpty ==
  ASSUME NEW text \in Seq(Line), NEW spans, Redaction(text, spans), NEW l \in 1 .. Len(text)
  PROVE  Rewritten(text, spans)[l].value = <<>> <=> text[l].value = <<>>
<1> DEFINE v == Rewritten(text, spans)[l].value
           u == text[l].value
           S == Stays(text, spans, l)
<1>1. spans \in Seq(Span)
  BY DEF Redaction
<1>2. v \in Seq(Atoms) /\ Len(v) = Cardinality(S)
  BY <1>1, RewrittenIs
<1>3. u \in Seq(Atoms) /\ Len(u) \in Nat /\ Cardinality(S) \in Nat /\ Cardinality(S) <= Len(u)
  BY LineFacts, WasFacts
<1>4. ASSUME Len(u) # 0 PROVE Cardinality(S) # 0
  <2>1. 1 \in 1 .. Len(u)
    BY <1>3, <1>4
  <2>2. 1 \in S
    BY <2>1, FirstStays
  <2>3. \E q \in 1 .. Cardinality(S) : Was(text, spans, l, q) = 1
    BY <2>2, WasFacts
  <2> HIDE DEF S
  <2> QED BY <2>3, <1>3
<1> HIDE DEF u, v, S
<1>5. (v = <<>> <=> Len(v) = 0) /\ (u = <<>> <=> Len(u) = 0)
  BY <1>2, <1>3
<1>6. Len(v) = 0 <=> Len(u) = 0
  BY <1>2, <1>3, <1>4
<1> QED BY <1>5, <1>6 DEF u, v

\* A line in the block of a Secret was in the block of a Secret.
LEMMA SecretsWere ==
  ASSUME NEW text \in Seq(Line), NEW spans, Redaction(text, spans), NEW l \in 1 .. Len(text),
         InSecret(Rewritten(text, spans), l)
  PROVE  InSecret(text, l)
<1> DEFINE R == Rewritten(text, spans)
<1>1. R \in Seq(Line) /\ Len(R) = Len(text) /\ Len(text) \in Nat
  BY RewrittenIs DEF Redaction
<1>2. \A k \in 1 .. Len(text) : R[k].indent = text[k].indent /\ R[k].item = text[k].item /\ R[k].key = text[k].key
  BY RewrittenIs DEF Redaction, SameLine
<1>3. \A k \in 1 .. Len(text) : R[k].value = <<>> <=> text[k].value = <<>>
  BY StillEmpty
<1>4. ASSUME NEW k \in 1 .. Len(text), IsKindSecret(R[k]) PROVE IsKindSecret(text[k])
  <2>1. R[k].value = <<"Secret">>
    BY <1>4 DEF IsKindSecret
  <2>2. Len(R[k].value) = 1 /\ R[k].value[1] = "Secret" /\ "Secret" # "red"
    BY <2>1
  <2>3. \A q \in 1 .. Len(R[k].value) : R[k].value[q] # "red"
    BY <2>2
  <2>4. R[k].value = text[k].value
    BY <2>3, UnmarkedLine
  <2> QED BY <2>4, <1>2, <1>4 DEF IsKindSecret
<1> HIDE DEF R
<1>5. \A k \in 1 .. Len(text) : /\ Blank(R[k]) <=> Blank(text[k])
                                /\ Separator(R[k]) <=> Separator(text[k])
                                /\ IsDataKey(R[k]) <=> IsDataKey(text[k])
  BY <1>2, <1>3 DEF Blank, Separator, IsDataKey
<1>6. PICK i \in 1 .. Len(text) : SecretBlock(R, i) /\ InBlock(R, i, l)
  BY <1>1 DEF InSecret, R
<1>7. \A k \in 1 .. Len(text) : Outside(R[k], R[i]) <=> Outside(text[k], text[i])
  BY <1>2, <1>5 DEF Outside
<1>8. Siblings(R, i) = Siblings(text, i)
  <2> DEFINE Stops(t, k) == ~Blank(t[k]) /\ (Outside(t[k], t[i]) \/ t[k].item)
             Beside(t, j) == ~Blank(t[j]) /\ ~Outside(t[j], t[i]) /\ t[j].indent = t[i].indent
             Above(t) == {j \in 1 .. i - 1 : Beside(t, j) /\ \A k \in j + 1 .. i - 1 : ~Stops(t, k)}
             Under(t) == {j \in i + 1 .. Len(t) : Beside(t, j) /\ \A k \in i + 1 .. j : ~Stops(t, k)}
  <2>1. \A k \in 1 .. Len(text) : (Stops(R, k) <=> Stops(text, k)) /\ (Beside(R, k) <=> Beside(text, k))
    BY <1>2, <1>5, <1>7
  <2> HIDE DEF Stops, Beside
  <2>2. Above(R) = Above(text)
    <3>1. \A j \in 1 .. i - 1 : j \in 1 .. Len(text) /\ \A k \in j + 1 .. i - 1 : k \in 1 .. Len(text)
      BY <1>1
    <3> QED BY <3>1, <2>1
  <2>3. Under(R) = Under(text)
    <3>1. \A j \in i + 1 .. Len(text) : j \in 1 .. Len(text) /\ \A k \in i + 1 .. j : k \in 1 .. Len(text)
      BY <1>1
    <3> QED BY <3>1, <2>1, <1>1
  <2>4. Siblings(R, i) = Above(R) \cup Under(R) /\ Siblings(text, i) = Above(text) \cup Under(text)
    BY DEF Siblings, Stops, Beside
  <2> QED BY <2>2, <2>3, <2>4
<1>9. SecretBlock(text, i)
  <2>1. PICK j \in Siblings(R, i) : IsKindSecret(R[j])
    BY <1>6 DEF SecretBlock
  <2>2. j \in 1 .. Len(text)
    BY <2>1, <1>1 DEF Siblings
  <2> QED BY <2>1, <2>2, <1>4, <1>5, <1>6, <1>8 DEF SecretBlock, R
<1>10. InBlock(text, i, l)
  <2>1. PICK j \in i + 1 .. Len(text) :
           /\ i < l /\ l <= j /\ ~Blank(R[j])
           /\ \A k \in i + 1 .. j : Blank(R[k]) \/ (~Separator(R[k]) /\ R[k].indent > R[i].indent)
    <3>1. i \in 1 .. Len(R) /\ l \in Nat
      BY <1>1
    <3> QED BY <3>1, <1>1, <1>6, BlockFacts
  <2>2. j \in 1 .. Len(text) /\ \A k \in i + 1 .. j : k \in 1 .. Len(text)
    BY <1>1
  <2>3. /\ ~Blank(text[j])
        /\ \A k \in i + 1 .. j : Blank(text[k]) \/ (~Separator(text[k]) /\ text[k].indent > text[i].indent)
    BY <2>1, <2>2, <1>2, <1>5
  <2>4. l \in Nat
    BY <1>1
  <2> QED BY <2>1, <2>3, <2>4, BlockFacts
<1> QED BY <1>9, <1>10 DEF InSecret

\* The atoms a finding covers.
LEMMA CoveredAre ==
  ASSUME NEW text \in Seq(Line), NEW s, NEW l, NEW j, NEW n, Within(text, s, l, j, n), NEW q \in Nat, j <= q, q < j + n
  PROVE  text[l].value[q] \in ToSet(Covered(text, s))
<1> DEFINE v == text[l].value
           len == Len(v)
           x == Place(l, j)
           b == j + n - 1
<1>1. l \in 1 .. Len(text) /\ j \in 1 .. len /\ n \in Nat \ {0} /\ b <= len /\ s.start = x /\ s.end = x + n
  BY DEF Within
<1>2. l \in Nat \ {0} /\ j \in 0 .. Width - 1 /\ j \in Nat \ {0} /\ x \in Nat
  BY <1>1, PlaceIs
<1>3. LineAt(x) = l /\ x % Width = j
  BY <1>2, PlaceParts
<1>4. v \in Seq(Atoms) /\ len \in Nat
  BY <1>1, LineFacts
<1> HIDE DEF x
<1>5. s.end - s.start = n
  BY <1>1, <1>2
<1>6. Covered(text, s) = IF j > 0 /\ j + n - 1 <= Len(v) THEN SubSeq(v, j, j + n - 1) ELSE <<>>
  BY <1>1, <1>3, <1>5 DEF Covered, AtomsAt
<1>7. Covered(text, s) = SubSeq(v, j, b)
  BY <1>1, <1>2, <1>6
<1> HIDE DEF v
<1>8. b \in Nat /\ j <= b /\ \A i \in j .. b : i \in 1 .. len
  BY <1>1, <1>2, <1>4
<1>9. \A i \in j .. b : v[i] \in Atoms
  BY <1>4, <1>8
<1> HIDE DEF b
<1>10. /\ Len(SubSeq(v, j, b)) = IF j <= b THEN b - j + 1 ELSE 0
       /\ \A i \in 1 .. Len(SubSeq(v, j, b)) : SubSeq(v, j, b)[i] = v[j + i - 1]
       /\ SubSeq(v, j, b) \in Seq(Atoms)
  BY ONLY <1>2, <1>4, <1>8, <1>9, SubSeqProperties
<1> DEFINE i0 == q - j + 1
<1>11. i0 \in 1 .. b - j + 1 /\ j + i0 - 1 = q
  BY <1>1, <1>2 DEF b
<1> HIDE DEF i0
<1>12. i0 \in DOMAIN SubSeq(v, j, b) /\ SubSeq(v, j, b)[i0] = v[q]
  BY <1>8, <1>10, <1>11
<1> QED BY <1>7, <1>12 DEF ToSet, v

\* Whatever a second pass finds holds a marker.
LEMMA NothingNewIsFound ==
  ASSUME NEW text \in Seq(Line), NEW spans, Redaction(text, spans), NEW s, Finding(Rewritten(text, spans), s)
  PROVE  "red" \in ToSet(Covered(Rewritten(text, spans), s))
<1> SUFFICES ASSUME "red" \notin ToSet(Covered(Rewritten(text, spans), s)) PROVE FALSE
  OBVIOUS
<1> DEFINE R == Rewritten(text, spans)
<1>1. R \in Seq(Line) /\ Len(R) = Len(text) /\ Len(text) \in Nat
  BY RewrittenIs DEF Redaction
<1>2. \A k \in 1 .. Len(text) : R[k].indent = text[k].indent /\ R[k].item = text[k].item /\ R[k].key = text[k].key
  BY RewrittenIs DEF Redaction, SameLine
<1>3. CASE PairFound(R, "t", "u", 0, s)
  <2>1. \A z : PairFound(text, "t", "u", 0, z) => Finding(text, z)
    BY DEF Finding
  <2>2. "t" # "red" /\ "u" # "red" /\ 0 \in Nat
    OBVIOUS
  <2> QED BY <1>3, <2>1, <2>2, NoPairIsLeft
<1>4. CASE PairFound(R, "u", "s", 1, s)
  <2>1. \A z : PairFound(text, "u", "s", 1, z) => Finding(text, z)
    BY DEF Finding
  <2>2. "u" # "red" /\ "s" # "red" /\ 1 \in Nat
    OBVIOUS
  <2> QED BY <1>4, <2>1, <2>2, NoPairIsLeft
\* A keyed finding covers the word of its line.
<1>5. ASSUME NEW l \in 1 .. Len(text), ValueFound(R, l) \/ PasswordFound(R, l), NEW c, NEW p, s = KeyedSpan(R, l, c, p)
      PROVE  \A q \in 1 .. Len(Word(R[l].value)) : R[l].value[q] # "red"
  <2> DEFINE n == Len(Word(R[l].value))
  <2>1. l \in 1 .. Len(R)
    BY <1>1
  <2>2. Word(R[l].value) # <<>>
    BY <1>1, <1>5, <2>1, FoundWords
  <2>3. Within(R, s, l, 1, n)
    BY <1>1, <1>5, <2>1, <2>2, KeyedWithin
  <2>4. n \in Nat
    BY <2>3 DEF Within
  <2> HIDE DEF n
  <2>5. ASSUME NEW q \in 1 .. n PROVE R[l].value[q] # "red"
    <3>1. q \in Nat /\ 1 <= q /\ q < 1 + n
      BY <2>4
    <3>2. R[l].value[q] \in ToSet(Covered(R, s))
      BY <1>1, <2>3, <3>1, CoveredAre
    <3> QED BY <3>2
  <2> QED BY <2>5 DEF n
<1>6. ASSUME NEW l \in 1 .. Len(text), NEW c, NEW p, Finding(text, KeyedSpan(text, l, c, p)), Word(text[l].value) # <<>>,
             \A q \in 1 .. Len(Word(R[l].value)) : R[l].value[q] # "red"
      PROVE  FALSE
  <2> DEFINE z == KeyedSpan(text, l, c, p)
             n == Len(Word(text[l].value))
  <2>1. \A k \in 1 .. n : ~Covers(spans, Place(l, k))
    BY <1>6, WordWas
  <2>2. Within(text, z, l, 1, n) /\ Finding(text, z)
    BY <1>6, KeyedWithin
  <2>3. n \in Nat
    BY <2>2 DEF Within
  <2> HIDE DEF z, n
  <2>4. PICK k \in Nat : 1 <= k /\ k < 1 + n /\ Covers(spans, Place(l, k))
    BY <2>2, FindingIsCovered
  <2>5. k \in 1 .. n
    BY <2>3, <2>4
  <2> QED BY <2>1, <2>4, <2>5
<1>7. CASE \E l \in 1 .. Len(R) : ValueFound(R, l) /\ InSecret(R, l) /\ s = KeyedSpan(R, l, "kubernetes", 2)
  <2>1. PICK l \in 1 .. Len(text) : ValueFound(R, l) /\ InSecret(R, l) /\ s = KeyedSpan(R, l, "kubernetes", 2)
    BY <1>1, <1>7
  <2>2. \A q \in 1 .. Len(Word(R[l].value)) : R[l].value[q] # "red"
    BY <2>1, <1>5
  <2>3. Word(R[l].value) = R[l].value
    BY <2>1 DEF ValueFound
  <2>4. R[l].value = text[l].value
    <3>1. \A q \in 1 .. Len(R[l].value) : R[l].value[q] # "red"
      BY <2>2, <2>3
    <3> QED BY <3>1, UnmarkedLine
  <2>5. ValueFound(text, l)
    <3> HIDE DEF R
    <3> QED BY <2>1, <2>4, <1>2 DEF ValueFound
  <2>6. InSecret(text, l)
    BY <2>1, SecretsWere
  <2>7. Finding(text, KeyedSpan(text, l, "kubernetes", 2)) /\ Word(text[l].value) # <<>>
    BY <2>5, <2>6, FoundWords DEF Finding
  <2> QED BY <2>2, <2>7, <1>6
<1>8. CASE \E l \in 1 .. Len(R) : PasswordFound(R, l) /\ s = KeyedSpan(R, l, "password", 3)
  <2>1. PICK l \in 1 .. Len(text) : PasswordFound(R, l) /\ s = KeyedSpan(R, l, "password", 3)
    BY <1>1, <1>8
  <2>2. \A q \in 1 .. Len(Word(R[l].value)) : R[l].value[q] # "red"
    BY <2>1, <1>5
  <2>3. Word(R[l].value) = Word(text[l].value)
    BY <2>2, WordWas
  <2>4. PasswordFound(text, l)
    <3> HIDE DEF R
    <3> QED BY <2>1, <2>3, <1>2 DEF PasswordFound
  <2>5. Finding(text, KeyedSpan(text, l, "password", 3)) /\ Word(text[l].value) # <<>>
    BY <2>4, FoundWords DEF Finding
  <2> QED BY <2>2, <2>5, <1>6
<1> QED BY <1>3, <1>4, <1>7, <1>8 DEF Finding

\* Whatever any pattern finds in a conversation that was returned is what was left
\* around an earlier replacement (SS-8, RR-6).
THEOREM OnlyRemaindersAreLeft == Preparing => []LeftoversAreRemainders
<1>1. ASSUME PrepInv PROVE LeftoversAreRemainders
  <2> SUFFICES ASSUME prepared # None, NEW f \in Texts(prepared), NEW s \in AllFindings(prepared[f])
               PROVE  "red" \in ToSet(Covered(prepared[f], s))
    BY DEF LeftoversAreRemainders
  <2> DEFINE text == conversation[f]
  <2>1. PICK spans \in Seq(Span) : Redaction(text, spans) /\ prepared[f] = Rewritten(text, spans)
    BY <1>1, ReturnedFields
  <2>2. text \in Seq(Line) /\ prepared[f] \in Seq(Line)
    BY <1>1, ReturnedFields
  <2>3. InAny(FindSpans(prepared[f]), s)
    <3> DEFINE w == FindSpans(prepared[f])
    <3>1. w \in Batches
      BY <2>2, FindSpansFind
    <3>2. PICK a \in DOMAIN w : s \in ToSet(w[a])
      BY DEF AllFindings
    <3> HIDE DEF w
    <3>3. w \in Seq(Seq(Span))
      BY <3>1 DEF Batches
    <3>4. a \in 1 .. Len(w) /\ w[a] \in Seq(Span)
      BY <3>2, <3>3
    <3>5. PICK i \in DOMAIN w[a] : w[a][i] = s
      BY <3>2 DEF ToSet
    <3>6. i \in 1 .. Len(w[a])
      BY <3>4, <3>5
    <3> QED BY <3>4, <3>5, <3>6 DEF InAny, In, w
  <2>4. Finding(prepared[f], s)
    BY <2>2, <2>3, FindingsAre
  <2> HIDE DEF text
  <2> QED BY <2>1, <2>2, <2>4, NothingNewIsFound
<1> QED BY <1>1, PrepInitial, PrepInductive, PTL DEF Preparing

----------------------------------------------------------------------------
(* What is counted *)

\* A relation that pairs the numbers up to n with the members of a set, each with
\* one, counts the set.
LEMMA PairedOff ==
  ASSUME NEW n \in Nat, NEW T, NEW r,
         \A i \in 1 .. n : \E y \in T : <<i, y>> \in r,
         \A y \in T : \E i \in 1 .. n : <<i, y>> \in r,
         \A i \in 1 .. n, y \in T, z \in T : <<i, y>> \in r /\ <<i, z>> \in r => y = z,
         \A i, j \in 1 .. n : \A y \in T : <<i, y>> \in r /\ <<j, y>> \in r => i = j
  PROVE  Cardinality(T) = n
<1> DEFINE f == [i \in 1 .. n |-> CHOOSE y \in T : <<i, y>> \in r]
<1>1. \A i \in 1 .. n : f[i] \in T /\ <<i, f[i]>> \in r
  OBVIOUS
<1>2. f \in [1 .. n -> T]
  BY <1>1
<1> HIDE DEF f
<1>3. ASSUME NEW i \in 1 .. n, NEW j \in 1 .. n, f[i] = f[j] PROVE i = j
  <2>1. f[i] \in T /\ <<i, f[i]>> \in r /\ <<j, f[i]>> \in r
    BY <1>1, <1>3
  <2> QED BY <2>1
<1>4. ASSUME NEW y \in T PROVE \E i \in 1 .. n : f[i] = y
  <2>1. PICK i \in 1 .. n : <<i, y>> \in r
    OBVIOUS
  <2>2. f[i] \in T /\ <<i, f[i]>> \in r
    BY <1>1
  <2>3. f[i] = y
    BY <2>1, <2>2
  <2> QED BY <2>3
<1>5. f \in Injection(1 .. n, T)
  BY <1>2, <1>3 DEF Injection, IsInjective
<1>6. f \in Surjection(1 .. n, T)
  BY <1>2, <1>4 DEF Surjection
<1>7. ExistsBijection(1 .. n, T)
  BY <1>5, <1>6 DEF ExistsBijection, Bijection
<1> QED BY <1>7, FS_CountingElements

\* A marker in a line.
MarkAt(text, l, q) ==
    l \in 1 .. Len(text) /\ q \in 1 .. Len(text[l].value) /\ text[l].value[q] = "red"

Marks(text) == {o \in Offsets(text) : AtomsAt(text, o, 1) = <<"red">>}

\* A marker is found at its place.
LEMMA OneAtomAt ==
  ASSUME NEW text \in Seq(Line), NEW l \in 1 .. Len(text), NEW k \in 0 .. Width - 1
  PROVE  AtomsAt(text, Place(l, k), 1) = <<"red">> <=> MarkAt(text, l, k)
<1> DEFINE v == text[l].value
<1>1. l \in Nat \ {0} /\ LineAt(Place(l, k)) = l /\ Place(l, k) % Width = k
  BY PlaceParts
<1>2. AtomsAt(text, Place(l, k), 1) = IF k > 0 /\ k + 1 - 1 <= Len(v) THEN SubSeq(v, k, k + 1 - 1) ELSE <<>>
  BY <1>1 DEF AtomsAt
<1>3. v \in Seq(Atoms) /\ Len(v) \in Nat /\ k \in Nat
  BY LineFacts, TextAssumption
<1>m. MarkAt(text, l, k) <=> k \in 1 .. Len(v) /\ v[k] = "red"
  BY DEF MarkAt
<1> HIDE DEF v
<1>4. k + 1 - 1 = k
  BY <1>3
<1>5. CASE k \in 1 .. Len(v)
  <2>1. k \in Int /\ k > 0 /\ k <= Len(v) /\ \A i \in k .. k : i = k
    BY <1>3, <1>5
  <2>2. \A i \in k .. k : v[i] \in Atoms
    BY <1>3, <1>5, <2>1
  <2>3. /\ SubSeq(v, k, k) \in Seq(Atoms)
        /\ Len(SubSeq(v, k, k)) = IF k <= k THEN k - k + 1 ELSE 0
        /\ \A i \in 1 .. k - k + 1 : SubSeq(v, k, k)[i] = v[k + i - 1]
    BY ONLY <2>1, <2>2, SubSeqProperties
  <2>4. k - k + 1 = 1 /\ k <= k /\ 1 \in 1 .. 1
    BY ONLY <2>1
  <2> DEFINE p == SubSeq(v, k, k)
             x == v[k]
  <2>5. p \in Seq(Atoms) /\ Len(p) = 1 /\ p[1] = x
    <3>1. p[1] = v[k + 1 - 1]
      BY ONLY <2>3, <2>4
    <3> QED BY <3>1, <2>3, <2>4, <1>4
  <2>6. AtomsAt(text, Place(l, k), 1) = p
    BY <1>2, <1>4, <2>1
  <2> HIDE DEF p, x
  <2>7. p = <<"red">> <=> x = "red"
    <3>1. p = [i \in 1 .. 1 |-> p[i]]
      BY ONLY <2>5
    <3>2. p = <<x>>
      BY ONLY <3>1, <2>5
    <3> QED BY <3>2
  <2> QED BY <2>6, <2>7, <1>5, <1>m DEF x
<1>6. CASE k \notin 1 .. Len(v)
  <2>1. ~(k > 0 /\ k <= Len(v))
    BY <1>3, <1>6
  <2>2. AtomsAt(text, Place(l, k), 1) = <<>>
    BY <1>2, <1>4, <2>1
  <2>3. <<>> # <<"red">>
    OBVIOUS
  <2> QED BY <2>2, <2>3, <1>6, <1>m
<1> QED BY <1>5, <1>6

\* The markers of a text, line by line.
LEMMA MarksAre ==
  ASSUME NEW text \in Seq(Line)
  PROVE  /\ MarkersOf(text) = Cardinality(Marks(text)) /\ MarkersOf(text) \in Nat
         /\ \A l, q : MarkAt(text, l, q) => Place(l, q) \in Marks(text)
         /\ \A o \in Marks(text) : \E l, q \in Nat : MarkAt(text, l, q) /\ o = Place(l, q)
<1>1. MarkersOf(text) = Cardinality(Marks(text))
  BY DEF MarkersOf, Marks
<1>2. MarkersOf(text) \in Nat
  <2>1. IsFiniteSet(Marks(text))
    <3>1. Marks(text) \subseteq Offsets(text)
      BY DEF Marks
    <3> QED BY <3>1, OffsetsAre, FS_Subset
  <2> QED BY <1>1, <2>1, FS_CardinalityType
<1>3. ASSUME NEW l, NEW q, MarkAt(text, l, q) PROVE Place(l, q) \in Marks(text)
  <2>1. l \in 1 .. Len(text) /\ q \in 1 .. Len(text[l].value)
    BY <1>3 DEF MarkAt
  <2>2. l \in Nat \ {0} /\ q \in 0 .. Width - 1 /\ Place(l, q) \in Nat
    BY <2>1, PlaceIs
  <2>3. LineAt(Place(l, q)) = l
    BY <2>2, PlaceParts
  <2>4. Place(l, q) \in Offsets(text)
    BY <2>1, <2>2, <2>3, OffsetsAre
  <2>5. AtomsAt(text, Place(l, q), 1) = <<"red">>
    BY <1>3, <2>1, <2>2, OneAtomAt
  <2> QED BY <2>4, <2>5 DEF Marks
<1>4. ASSUME NEW o \in Marks(text) PROVE \E l, q \in Nat : MarkAt(text, l, q) /\ o = Place(l, q)
  <2>1. o \in Offsets(text) /\ AtomsAt(text, o, 1) = <<"red">>
    BY DEF Marks
  <2>2. o \in Nat /\ LineAt(o) \in 1 .. Len(text)
    BY <2>1, OffsetsAre
  <2>3. o % Width \in 0 .. Width - 1 /\ o = Place(LineAt(o), o % Width)
    BY <2>2, PlaceOfOffset
  <2> DEFINE l == LineAt(o)
             k == o % Width
  <2>4. l \in 1 .. Len(text) /\ k \in 0 .. Width - 1 /\ o = Place(l, k)
    BY <2>2, <2>3
  <2> HIDE DEF l, k
  <2>5. AtomsAt(text, Place(l, k), 1) = <<"red">>
    BY <2>1, <2>4
  <2>6. MarkAt(text, l, k)
    BY <2>4, <2>5, OneAtomAt
  <2>7. l \in Nat /\ k \in Nat
    BY <2>4, TextAssumption
  <2> QED BY <2>4, <2>6, <2>7
<1> QED BY <1>1, <1>2, <1>3, <1>4

\* A place is on one line, at one column.
LEMMA PlaceOnce ==
  ASSUME NEW text \in Seq(Line), NEW l \in 1 .. Len(text), NEW j \in 1 .. Len(text[l].value),
         NEW m \in 1 .. Len(text), NEW k \in 1 .. Len(text[m].value), Place(l, j) = Place(m, k)
  PROVE  l = m /\ j = k
<1>1. l \in Nat \ {0} /\ j \in 0 .. Width - 1 /\ m \in Nat \ {0} /\ k \in 0 .. Width - 1
  BY PlaceIs
<1>2. LineAt(Place(l, j)) = l /\ Place(l, j) % Width = j
  BY <1>1, PlaceParts
<1>3. LineAt(Place(m, k)) = m /\ Place(m, k) % Width = k
  BY <1>1, PlaceParts
<1> QED BY <1>2, <1>3

\* The marker a span left.
Left(text, spans, i, o) ==
    \E l, q \in Nat : /\ MarkAt(Rewritten(text, spans), l, q) /\ o = Place(l, q)
                      /\ spans[i].start = Place(l, Was(text, spans, l, q))

\* What a marker of a rewritten text was.
LEMMA MarkWas ==
  ASSUME NEW text \in Seq(Line), NEW spans, Redaction(text, spans),
         NEW l, NEW q, MarkAt(Rewritten(text, spans), l, q)
  PROVE  /\ l \in 1 .. Len(text) /\ q \in 1 .. Cardinality(Stays(text, spans, l))
         /\ q \in 1 .. Len(Rewritten(text, spans)[l].value)
         /\ Was(text, spans, l, q) \in 1 .. Len(text[l].value)
         /\ Was(text, spans, l, q) \in Stays(text, spans, l)
         /\ Covers(spans, Place(l, Was(text, spans, l, q))) \/ MarkAt(text, l, Was(text, spans, l, q))
<1>1. spans \in Seq(Span)
  BY DEF Redaction
<1>2. /\ l \in 1 .. Len(text) /\ q \in 1 .. Len(Rewritten(text, spans)[l].value)
      /\ Rewritten(text, spans)[l].value[q] = "red"
  BY <1>1, RewrittenIs DEF MarkAt
<1>3. /\ q \in 1 .. Cardinality(Stays(text, spans, l))
      /\ Rewritten(text, spans)[l].value[q] = AfterAt(text, spans, l, q)
  <2>1. /\ Len(Rewritten(text, spans)[l].value) = Cardinality(Stays(text, spans, l))
        /\ \A n \in 1 .. Cardinality(Stays(text, spans, l)) :
                     Rewritten(text, spans)[l].value[n] = AfterAt(text, spans, l, n)
    BY <1>1, <1>2, RewrittenIs
  <2> QED BY <1>2, <2>1
<1>4. Was(text, spans, l, q) \in 1 .. Len(text[l].value) /\ Was(text, spans, l, q) \in Stays(text, spans, l)
  BY <1>2, <1>3, WasFacts
<1>5. ~Covers(spans, Place(l, Was(text, spans, l, q))) => text[l].value[Was(text, spans, l, q)] = "red"
  BY <1>2, <1>3 DEF AfterAt, Was
<1> QED BY <1>2, <1>3, <1>4, <1>5 DEF MarkAt

\* Every span left a marker.
LEMMA OneForEachSpan ==
  ASSUME NEW text \in Seq(Line), NEW spans, Redaction(text, spans), NEW i \in 1 .. Len(spans)
  PROVE  \E o \in Marks(Rewritten(text, spans)) : Left(text, spans, i, o)
<1> DEFINE R == Rewritten(text, spans)
<1>1. spans \in Seq(Span)
  BY DEF Redaction
<1>2. R \in Seq(Line) /\ Len(R) = Len(text)
  BY <1>1, RewrittenIs
<1>3. PICK l, j, n \in Nat : Within(text, spans[i], l, j, n)
  BY SpanWithin
<1>4. l \in 1 .. Len(text) /\ j \in 1 .. Len(text[l].value) /\ n \in Nat \ {0} /\ spans[i].start = Place(l, j)
  BY <1>3 DEF Within
<1>5. Opens(spans, Place(l, j))
  BY <1>3, <1>4, CoversAre
<1>6. Covers(spans, Place(l, j))
  <2>1. j <= j /\ j < j + n
    BY <1>3, <1>4
  <2> QED BY <2>1, <1>3, <1>4, CoversAre
<1>7. j \in Stays(text, spans, l)
  BY <1>4, <1>5 DEF Stays
<1>8. PICK q \in 1 .. Cardinality(Stays(text, spans, l)) : Was(text, spans, l, q) = j
  BY <1>4, <1>7, WasFacts
<1>9. /\ Len(R[l].value) = Cardinality(Stays(text, spans, l)) /\ R[l].value[q] = AfterAt(text, spans, l, q)
  <2>1. /\ Len(R[l].value) = Cardinality(Stays(text, spans, l))
        /\ \A m \in 1 .. Cardinality(Stays(text, spans, l)) : R[l].value[m] = AfterAt(text, spans, l, m)
    BY <1>1, <1>4, RewrittenIs
  <2> QED BY <2>1
<1>10. AfterAt(text, spans, l, q) = "red"
  BY <1>6, <1>8 DEF AfterAt, Was
<1>11. MarkAt(R, l, q)
  BY <1>2, <1>4, <1>8, <1>9, <1>10 DEF MarkAt
<1>12. Place(l, q) \in Marks(R)
  BY <1>2, <1>11, MarksAre
<1>13. q \in Nat /\ l \in Nat
  BY <1>3, <1>4, <1>8, WasFacts
<1> QED BY <1>4, <1>8, <1>11, <1>12, <1>13 DEF Left

\* Of a text that had no marker, the markers are the spans that were replaced.
LEMMA MarkersAreSpans ==
  ASSUME NEW text \in Seq(Line), NEW spans, Redaction(text, spans), MarkersOf(text) = 0
  PROVE  MarkersOf(Rewritten(text, spans)) = Len(spans)
<1> DEFINE R == Rewritten(text, spans)
           M == Marks(R)
           n == Len(spans)
           r == {p \in (1 .. n) \X M : Left(text, spans, p[1], p[2])}
<1>1. spans \in Seq(Span) /\ Disjoint(spans) /\ n \in Nat
  BY DEF Redaction
<1>2. R \in Seq(Line) /\ Len(R) = Len(text)
  BY <1>1, RewrittenIs
<1>3. \A l, q : ~MarkAt(text, l, q)
  <2>1. IsFiniteSet(Marks(text))
    <3>1. Marks(text) \subseteq Offsets(text)
      BY DEF Marks
    <3> QED BY <3>1, OffsetsAre, FS_Subset
  <2>2. Marks(text) = {}
    BY <2>1, MarksAre, FS_EmptySet
  <2> QED BY <2>2, MarksAre
<1>4. \A i \in 1 .. n, o \in M : <<i, o>> \in r <=> Left(text, spans, i, o)
  OBVIOUS
<1>5. \A i \in 1 .. n : \E o \in M : Left(text, spans, i, o)
  BY OneForEachSpan
<1>6. ASSUME NEW o \in M PROVE \E i \in 1 .. n : Left(text, spans, i, o)
  <2>1. PICK l, q \in Nat : MarkAt(R, l, q) /\ o = Place(l, q)
    BY <1>2, MarksAre
  <2>2. Was(text, spans, l, q) \in Stays(text, spans, l) /\ Covers(spans, Place(l, Was(text, spans, l, q)))
    BY <2>1, <1>3, MarkWas
  <2>3. PICK i \in 1 .. n : spans[i].start = Place(l, Was(text, spans, l, q))
    BY <2>2 DEF Stays, Opens
  <2> QED BY <2>1, <2>3 DEF Left
<1>7. ASSUME NEW i \in 1 .. n, NEW o \in M, NEW z \in M, Left(text, spans, i, o), Left(text, spans, i, z)
      PROVE  o = z
  <2>1. PICK l, q \in Nat : MarkAt(R, l, q) /\ o = Place(l, q) /\ spans[i].start = Place(l, Was(text, spans, l, q))
    BY <1>7 DEF Left
  <2>2. PICK m, p \in Nat : MarkAt(R, m, p) /\ z = Place(m, p) /\ spans[i].start = Place(m, Was(text, spans, m, p))
    BY <1>7 DEF Left
  <2>3. /\ l \in 1 .. Len(text) /\ Was(text, spans, l, q) \in 1 .. Len(text[l].value)
        /\ q \in 1 .. Cardinality(Stays(text, spans, l))
    BY <2>1, MarkWas
  <2>4. /\ m \in 1 .. Len(text) /\ Was(text, spans, m, p) \in 1 .. Len(text[m].value)
        /\ p \in 1 .. Cardinality(Stays(text, spans, m))
    BY <2>2, MarkWas
  <2>5. l = m /\ Was(text, spans, l, q) = Was(text, spans, m, p)
    <3>1. Place(l, Was(text, spans, l, q)) = Place(m, Was(text, spans, m, p))
      BY <2>1, <2>2
    <3> QED BY <3>1, <2>3, <2>4, PlaceOnce
  <2>6. q = p
    <3>1. q < p => Was(text, spans, l, q) < Was(text, spans, l, p)
      BY <2>3, <2>4, <2>5, WasFacts
    <3>2. p < q => Was(text, spans, l, p) < Was(text, spans, l, q)
      BY <2>3, <2>4, <2>5, WasFacts
    <3> DEFINE x == Was(text, spans, l, q)
    <3>3. x \in Nat
      BY <2>3
    <3>4. Was(text, spans, l, p) = x
      BY <2>5
    <3> HIDE DEF x
    <3>5. ~(x < x)
      BY <3>3
    <3>6. ~(q < p) /\ ~(p < q)
      BY <3>1, <3>2, <3>4, <3>5 DEF x
    <3> QED BY ONLY <3>6, q \in Nat, p \in Nat
  <2> QED BY <2>1, <2>2, <2>5, <2>6
<1>8. ASSUME NEW i \in 1 .. n, NEW j \in 1 .. n, NEW o \in M, Left(text, spans, i, o), Left(text, spans, j, o)
      PROVE  i = j
  <2>1. PICK l, q \in Nat : MarkAt(R, l, q) /\ o = Place(l, q) /\ spans[i].start = Place(l, Was(text, spans, l, q))
    BY <1>8 DEF Left
  <2>2. PICK m, p \in Nat : MarkAt(R, m, p) /\ o = Place(m, p) /\ spans[j].start = Place(m, Was(text, spans, m, p))
    BY <1>8 DEF Left
  <2>3. l \in 1 .. Len(R) /\ q \in 1 .. Len(R[l].value) /\ m \in 1 .. Len(R) /\ p \in 1 .. Len(R[m].value)
    BY <2>1, <2>2 DEF MarkAt
  <2>4. l = m /\ q = p
    <3>1. R \in Seq(Line) /\ Place(l, q) = Place(m, p)
      BY <1>2, <2>1, <2>2
    <3> HIDE DEF R
    <3> QED BY ONLY <2>3, <3>1, PlaceOnce
  <2>5. spans[i].start = spans[j].start
    BY <2>1, <2>2, <2>4
  <2>6. /\ i < j => spans[i].end <= spans[j].start
        /\ j < i => spans[j].end <= spans[i].start
    BY <1>1 DEF Disjoint
  <2>7. /\ spans[i].start \in Nat /\ spans[i].end \in Nat /\ spans[i].start < spans[i].end
        /\ spans[j].start \in Nat /\ spans[j].end \in Nat /\ spans[j].start < spans[j].end
    <3>1. spans[i] \in Span /\ spans[j] \in Span
      BY <1>1
    <3> QED BY <3>1, SpanFields
  <2>8. i \in Nat /\ j \in Nat
    BY <1>1
  <2> QED BY ONLY <2>5, <2>6, <2>7, <2>8
<1> HIDE DEF M, n, r
<1>9. Cardinality(M) = n
  <2>1. /\ n \in Nat
        /\ \A i \in 1 .. n : \E y \in M : <<i, y>> \in r
        /\ \A y \in M : \E i \in 1 .. n : <<i, y>> \in r
        /\ \A i \in 1 .. n, y \in M, z \in M : <<i, y>> \in r /\ <<i, z>> \in r => y = z
        /\ \A i, j \in 1 .. n : \A y \in M : <<i, y>> \in r /\ <<j, y>> \in r => i = j
    BY <1>1, <1>4, <1>5, <1>6, <1>7, <1>8
  <2> QED BY ONLY <2>1, PairedOff
<1>10. MarkersOf(R) = Cardinality(M)
  BY <1>2, MarksAre DEF M
<1> QED BY <1>9, <1>10 DEF n

\* Every span is counted under one category.
LEMMA CountedAre ==
  ASSUME NEW spans \in Seq(Span)
  PROVE  /\ \A c \in Categories : Counted(spans, c) \in Nat
         /\ Counted(spans, "token") + Counted(spans, "kubernetes") + Counted(spans, "password") = Len(spans)
<1> DEFINE C(c) == {n \in DOMAIN spans : spans[n].category = c}
           A == C("token")
           B == C("kubernetes")
           D == C("password")
           len == Len(spans)
<1>1. DOMAIN spans = 1 .. len /\ len \in Nat
  OBVIOUS
<1>2. \A n \in 1 .. len : spans[n].category \in {"token", "kubernetes", "password"}
  BY PreparationAssumption DEF Span
<1> HIDE DEF len
<1>3. IsFiniteSet(1 .. len) /\ Cardinality(1 .. len) = len
  <2>1. IsFiniteSet(1 .. len) /\ Cardinality(1 .. len) = IF 1 > len THEN 0 ELSE len - 1 + 1
    BY ONLY <1>1, FS_Interval
  <2> QED BY ONLY <1>1, <2>1
<1>4. \A c : C(c) \subseteq 1 .. len
  BY <1>1
<1>5. \A c : IsFiniteSet(C(c)) /\ Cardinality(C(c)) \in Nat
  <2> SUFFICES ASSUME NEW c PROVE IsFiniteSet(C(c)) /\ Cardinality(C(c)) \in Nat
    OBVIOUS
  <2>1. IsFiniteSet(C(c))
    BY <1>3, <1>4, FS_Subset
  <2> QED BY <2>1, FS_CardinalityType
<1>6. A \cup B \cup D = 1 .. len
  BY <1>1, <1>2
<1>7. A \cap B = {} /\ (A \cup B) \cap D = {}
  <2>1. "token" # "kubernetes" /\ "token" # "password" /\ "kubernetes" # "password"
    OBVIOUS
  <2> QED BY <2>1
<1>8. /\ IsFiniteSet(A) /\ IsFiniteSet(B) /\ IsFiniteSet(D)
      /\ Cardinality(A) \in Nat /\ Cardinality(B) \in Nat /\ Cardinality(D) \in Nat
  BY <1>5
<1>9. /\ Counted(spans, "token") = Cardinality(A) /\ Counted(spans, "kubernetes") = Cardinality(B)
      /\ Counted(spans, "password") = Cardinality(D)
  BY DEF Counted
<1>10. \A c \in Categories : Counted(spans, c) \in Nat
  BY <1>5 DEF Counted
<1> HIDE DEF A, B, D
<1>11. IsFiniteSet(A \cup B) /\ Cardinality(A \cup B) = Cardinality(A) + Cardinality(B) - Cardinality(A \cap B)
  BY ONLY <1>8, FS_Union
<1>12. Cardinality(A \cup B \cup D) = Cardinality(A \cup B) + Cardinality(D) - Cardinality((A \cup B) \cap D)
  BY ONLY <1>8, <1>11, FS_Union
<1>13. Cardinality({}) = 0
  BY FS_EmptySet
<1>14. Cardinality(A) + Cardinality(B) + Cardinality(D) = len
  <2> DEFINE a == Cardinality(A)
             b == Cardinality(B)
             d == Cardinality(D)
             ab == Cardinality(A \cup B)
  <2>1. Cardinality(A \cap B) = 0 /\ Cardinality((A \cup B) \cap D) = 0
    BY ONLY <1>7, <1>13
  <2>2. ab = a + b - 0 /\ len = ab + d - 0
    BY ONLY <1>3, <1>6, <1>11, <1>12, <2>1
  <2>3. a \in Nat /\ b \in Nat /\ d \in Nat
    BY <1>8
  <2> HIDE DEF a, b, d, ab
  <2>4. a + b + d = len
    BY ONLY <2>2, <2>3
  <2> QED BY <2>4 DEF a, b, d
<1> QED BY <1>9, <1>10, <1>14 DEF len

\* The markers of one field.
MarkersIn(c, f) == IF f \in Texts(c) THEN MarkersOf(c[f]) ELSE 0

\* The markers of a conversation are those of its fields.
LEMMA MarkersSum ==
  ASSUME NEW c \in [ToSet(Fields) -> {None} \cup Seq(Line)]
  PROVE  /\ \A i \in 1 .. 6 : MarkersIn(c, Fields[i]) \in Nat
         /\ Markers(c) = MarkersIn(c, Fields[1]) + MarkersIn(c, Fields[2]) + MarkersIn(c, Fields[3])
                         + MarkersIn(c, Fields[4]) + MarkersIn(c, Fields[5]) + MarkersIn(c, Fields[6])
<1>1. ASSUME NEW i \in 1 .. 6 PROVE MarkersIn(c, Fields[i]) \in Nat
  <2>1. CASE Fields[i] \in Texts(c)
    <3>1. c[Fields[i]] \in Seq(Line)
      BY <2>1 DEF Texts, Absent
    <3>2. MarkersOf(c[Fields[i]]) \in Nat
      BY <3>1, MarksAre
    <3> QED BY <2>1, <3>2 DEF MarkersIn
  <2>2. CASE Fields[i] \notin Texts(c)
    BY <2>2 DEF MarkersIn
  <2> QED BY <2>1, <2>2
<1>2. /\ Fields[1] = "title" /\ Fields[2] = "text" /\ Fields[3] = "name"
      /\ Fields[4] = "request" /\ Fields[5] = "result" /\ Fields[6] = "part"
  BY DEF Fields
<1>3. Markers(c) = MarkersIn(c, "title") + MarkersIn(c, "text") + MarkersIn(c, "name")
                   + MarkersIn(c, "request") + MarkersIn(c, "result") + MarkersIn(c, "part")
  BY DEF Markers, MarkersIn
<1> QED BY <1>1, <1>2, <1>3

\* A conversation without a marker has none in any field.
LEMMA NoMarkerAnywhere ==
  ASSUME NEW c \in [ToSet(Fields) -> {None} \cup Seq(Line)], Markers(c) = 0, NEW i \in 1 .. 6
  PROVE  MarkersIn(c, Fields[i]) = 0
<1> DEFINE N(j) == MarkersIn(c, Fields[j])
<1>1. (\A j \in 1 .. 6 : N(j) \in Nat) /\ N(1) + N(2) + N(3) + N(4) + N(5) + N(6) = 0
  BY MarkersSum
<1> HIDE DEF N
<1>2. N(1) \in Nat /\ N(2) \in Nat /\ N(3) \in Nat /\ N(4) \in Nat /\ N(5) \in Nat /\ N(6) \in Nat
  BY ONLY <1>1
<1>3. N(1) = 0 /\ N(2) = 0 /\ N(3) = 0 /\ N(4) = 0 /\ N(5) = 0 /\ N(6) = 0
  BY ONLY <1>1, <1>2, SMTT(30)
<1>4. i = 1 \/ i = 2 \/ i = 3 \/ i = 4 \/ i = 5 \/ i = 6
  OBVIOUS
<1>5. N(i) = 0
  BY <1>3, <1>4
<1> QED BY <1>5 DEF N

\* One field that changes adds its markers.
LEMMA OneFieldChanges ==
  ASSUME NEW c \in [ToSet(Fields) -> {None} \cup Seq(Line)], NEW d \in [ToSet(Fields) -> {None} \cup Seq(Line)],
         NEW i \in 1 .. 6, \A j \in 1 .. 6 : j # i => d[Fields[j]] = c[Fields[j]], MarkersIn(c, Fields[i]) = 0
  PROVE  Markers(d) = Markers(c) + MarkersIn(d, Fields[i])
<1> DEFINE N(j) == MarkersIn(c, Fields[j])
           M(j) == MarkersIn(d, Fields[j])
<1>1. (\A j \in 1 .. 6 : N(j) \in Nat) /\ Markers(c) = N(1) + N(2) + N(3) + N(4) + N(5) + N(6)
  BY MarkersSum
<1>2. (\A j \in 1 .. 6 : M(j) \in Nat) /\ Markers(d) = M(1) + M(2) + M(3) + M(4) + M(5) + M(6)
  BY MarkersSum
<1>3. \A j \in 1 .. 6 : j # i => M(j) = N(j)
  <2> SUFFICES ASSUME NEW j \in 1 .. 6, j # i PROVE M(j) = N(j)
    OBVIOUS
  <2>1. Fields[j] \in ToSet(Fields) /\ d[Fields[j]] = c[Fields[j]]
    BY FieldsAre
  <2>2. Fields[j] \in Texts(c) <=> Fields[j] \in Texts(d)
    BY <2>1 DEF Texts
  <2> QED BY <2>1, <2>2 DEF MarkersIn
<1>4. N(i) = 0
  OBVIOUS
<1> HIDE DEF N, M
<1>5. /\ N(1) \in Nat /\ N(2) \in Nat /\ N(3) \in Nat /\ N(4) \in Nat /\ N(5) \in Nat /\ N(6) \in Nat
      /\ M(1) \in Nat /\ M(2) \in Nat /\ M(3) \in Nat /\ M(4) \in Nat /\ M(5) \in Nat /\ M(6) \in Nat
  BY ONLY <1>1, <1>2
<1>6. /\ i # 1 => M(1) = N(1)
      /\ i # 2 => M(2) = N(2)
      /\ i # 3 => M(3) = N(3)
      /\ i # 4 => M(4) = N(4)
      /\ i # 5 => M(5) = N(5)
      /\ i # 6 => M(6) = N(6)
  BY <1>3
<1>7. Markers(c) = N(1) + N(2) + N(3) + N(4) + N(5) + N(6) /\ Markers(d) = M(1) + M(2) + M(3) + M(4) + M(5) + M(6)
  BY <1>1, <1>2
<1>8. i = 1 \/ i = 2 \/ i = 3 \/ i = 4 \/ i = 5 \/ i = 6
  OBVIOUS
<1>9. Markers(d) = Markers(c) + M(i)
  <2>1. CASE i = 1
    BY ONLY <2>1, <1>4, <1>5, <1>6, <1>7, SMTT(30)
  <2>2. CASE i = 2
    BY ONLY <2>2, <1>4, <1>5, <1>6, <1>7, SMTT(30)
  <2>3. CASE i = 3
    BY ONLY <2>3, <1>4, <1>5, <1>6, <1>7, SMTT(30)
  <2>4. CASE i = 4
    BY ONLY <2>4, <1>4, <1>5, <1>6, <1>7, SMTT(30)
  <2>5. CASE i = 5
    BY ONLY <2>5, <1>4, <1>5, <1>6, <1>7, SMTT(30)
  <2>6. CASE i = 6
    BY ONLY <2>6, <1>4, <1>5, <1>6, <1>7, SMTT(30)
  <2> QED BY <1>8, <2>1, <2>2, <2>3, <2>4, <2>5, <2>6
<1> QED BY <1>9 DEF M

Total(n) == n["token"] + n["kubernetes"] + n["password"]

\* What is counted is what was marked so far.
CountInv ==
    /\ counts \in [Categories -> Nat]
    /\ Markers(conversation) = 0 => Total(counts) = Markers(copy)

\* The rewriting of one field counts the markers it leaves.
LEMMA RewriteCounts ==
  ASSUME PrepInv, CountInv, Rewrite
  PROVE  CountInv'
<1> DEFINE text == copy[Current]
           R == Rewritten(text, kept)
           i == field + 1
<1>1. /\ phase = "merge" /\ ~merging /\ waiting = <<>> /\ field' = field + 1
      /\ copy' = [copy EXCEPT ![Current] = R]
      /\ conversation' = conversation
      /\ counts' = [c \in Categories |-> counts[c] + Counted(kept, c)]
  BY DEF Rewrite
<1>2. FormInv /\ FindingInv /\ WInv
  BY DEF PrepInv
<1>3. field \in 0 .. 5 /\ ~Absent(text) /\ i \in 1 .. 6 /\ i > field
  BY <1>1, <1>2 DEF FormInv
<1>4. Current \in ToSet(Fields) /\ Current = Fields[i]
  BY <1>3, FieldsAre DEF Current
<1>5. text \in Seq(Line) /\ text # <<>> /\ text = conversation[Current]
  BY <1>2, <1>3, <1>4 DEF FormInv, Absent
<1>6. kept \in Seq(Span) /\ incoming = <<>> /\ merged = <<>> /\ Disjoint(kept) /\ LosersOverlapWinners
  BY <1>1, <1>2 DEF WInv, MInv, MergeTypes, Rest, OrderedAndDisjoint
<1>7. Redaction(text, kept)
  <2>1. \A s : InAny(FindSpans(text), s) <=> Somewhere(s)
    BY <1>1, <1>2 DEF FindingInv
  <2>2. \A s : Somewhere(s) <=> In(kept, s) \/ s \in lost
    BY <1>1, <1>6 DEF Somewhere, InAny, In
  <2>3. \A s \in lost : \E n \in 1 .. Len(kept) : Overlap(s, kept[n])
    BY <1>6 DEF LosersOverlapWinners
  <2> QED BY <2>1, <2>2, <2>3, <1>6 DEF Redaction, In
<1>8. copy \in [ToSet(Fields) -> {None} \cup Seq(Line)] /\ conversation \in [ToSet(Fields) -> {None} \cup Seq(Line)]
  BY <1>2 DEF FormInv
<1>9. R \in Seq(Line) /\ Len(R) = Len(text)
  BY <1>5, <1>6, RewrittenIs
<1>10. R # <<>> /\ R # None /\ ~Absent(R)
  <2>1. R # None
    BY <1>9, PreparationAssumption
  <2>2. Len(text) # 0
    BY <1>5
  <2> HIDE DEF R
  <2>3. R # <<>>
    BY <1>9, <2>2
  <2> QED BY <2>1, <2>3 DEF Absent
<1>11. MarkersOf(text) = 0 => MarkersOf(R) = Len(kept)
  BY <1>5, <1>7, MarkersAreSpans
<1> HIDE DEF R, text, i
<1>12. /\ copy' \in [ToSet(Fields) -> {None} \cup Seq(Line)]
       /\ copy'[Current] = R /\ \A f \in ToSet(Fields) : f # Current => copy'[f] = copy[f]
  BY <1>1, <1>4, <1>8, <1>9
<1>13. \A j \in 1 .. 6 : j # i => copy'[Fields[j]] = copy[Fields[j]]
  BY <1>3, <1>4, <1>12, FieldsAre
<1>14. /\ \A c \in Categories : Counted(kept, c) \in Nat
       /\ Counted(kept, "token") + Counted(kept, "kubernetes") + Counted(kept, "password") = Len(kept)
  BY <1>6, CountedAre
<1>15. counts' \in [Categories -> Nat] /\ \A c \in Categories : counts[c] \in Nat /\ counts'[c] = counts[c] + Counted(kept, c)
  BY <1>1, <1>14 DEF CountInv
<1>16. Total(counts') = Total(counts) + Len(kept)
  <2>1. "token" \in Categories /\ "kubernetes" \in Categories /\ "password" \in Categories
    BY PreparationAssumption
  <2> DEFINE a == counts["token"]
             b == counts["kubernetes"]
             c == counts["password"]
             x == Counted(kept, "token")
             y == Counted(kept, "kubernetes")
             z == Counted(kept, "password")
             n == Len(kept)
  <2>2. a \in Nat /\ b \in Nat /\ c \in Nat /\ x \in Nat /\ y \in Nat /\ z \in Nat /\ x + y + z = n
    BY <2>1, <1>14, <1>15
  <2>3. counts'["token"] = a + x /\ counts'["kubernetes"] = b + y /\ counts'["password"] = c + z
    BY <2>1, <1>15
  <2> HIDE DEF a, b, c, x, y, z, n
  <2>4. (a + x) + (b + y) + (c + z) = (a + b + c) + n
    BY ONLY <2>2
  <2>5. Total(counts') = (a + x) + (b + y) + (c + z)
    BY <2>3 DEF Total
  <2>6. Total(counts) = a + b + c
    BY DEF Total, a, b, c
  <2> QED BY <2>4, <2>5, <2>6 DEF n
<1>17. ASSUME Markers(conversation) = 0 PROVE Total(counts') = Markers(copy')
  <2>1. MarkersIn(conversation, Current) = 0
    BY <1>3, <1>4, <1>8, <1>17, NoMarkerAnywhere
  <2>2. Current \in Texts(copy) /\ Current \in Texts(conversation)
    BY <1>3, <1>4, <1>5 DEF Texts, text, Absent
  <2>3. MarkersOf(text) = 0 /\ MarkersIn(copy, Current) = 0
    BY <2>1, <2>2, <1>5 DEF MarkersIn, text
  <2>4. MarkersIn(copy', Current) = Len(kept)
    <3>1. Current \in Texts(copy')
      BY <1>4, <1>10, <1>12 DEF Texts
    <3> QED BY <3>1, <2>3, <1>11, <1>12 DEF MarkersIn
  <2>5. Markers(copy') = Markers(copy) + MarkersIn(copy', Current)
    <3> DEFINE d == copy'
    <3>1. d \in [ToSet(Fields) -> {None} \cup Seq(Line)] /\ \A j \in 1 .. 6 : j # i => d[Fields[j]] = copy[Fields[j]]
      BY <1>12, <1>13
    <3>2. MarkersIn(copy, Fields[i]) = 0 /\ i \in 1 .. 6
      BY <2>3, <1>3, <1>4
    <3> HIDE DEF d
    <3>3. Markers(d) = Markers(copy) + MarkersIn(d, Fields[i])
      BY ONLY <3>1, <3>2, <1>8, OneFieldChanges
    <3> QED BY <3>3, <1>4 DEF d
  <2> QED BY <2>4, <2>5, <1>16, <1>17 DEF CountInv
<1> QED BY <1>1, <1>15, <1>17 DEF CountInv

\* No other step changes the report or the copy.
LEMMA CountInductive == PrepInv /\ CountInv /\ [NextPreparation]_vars => CountInv'
<1> SUFFICES ASSUME PrepInv, CountInv, [NextPreparation]_vars PROVE CountInv'
  OBVIOUS
<1>1. ASSUME counts' = counts, copy' = copy, conversation' = conversation PROVE CountInv'
  BY <1>1 DEF CountInv
<1>2. CASE Load \/ RefuseRules \/ Untouched \/ Scan \/ ScanFails \/ Sanitized \/ Classify
  <2>1. counts' = counts /\ copy' = copy /\ conversation' = conversation
    BY <1>2 DEF Load, RefuseRules, Untouched, Scan, ScanFails, Sanitized, Classify
  <2> QED BY <2>1, <1>1
<1>3. CASE MergeStep
  <2>1. counts' = counts /\ copy' = copy /\ conversation' = conversation
    BY <1>3 DEF MergeStep, own
  <2> QED BY <2>1, <1>1
<1>4. CASE Rewrite
  BY <1>4, RewriteCounts
<1>5. CASE UNCHANGED vars
  <2>1. counts' = counts /\ copy' = copy /\ conversation' = conversation
    BY <1>5 DEF vars, own
  <2> QED BY <2>1, <1>1
<1> QED BY <1>2, <1>3, <1>4, <1>5 DEF NextPreparation, Over

\* The report begins at zero, with the conversation as it was handed in.
LEMMA CountInitial == InitPreparation => CountInv
<1> SUFFICES ASSUME InitPreparation PROVE CountInv
  OBVIOUS
<1>1. counts = [c \in Categories |-> 0] /\ copy = conversation
  BY DEF InitPreparation
<1>2. "token" \in Categories /\ "kubernetes" \in Categories /\ "password" \in Categories
  BY PreparationAssumption
<1>3. counts \in [Categories -> Nat]
  BY <1>1
<1>4. Total(counts) = 0
  <2>1. counts["token"] = 0 /\ counts["kubernetes"] = 0 /\ counts["password"] = 0
    BY <1>1, <1>2
  <2> QED BY <2>1 DEF Total
<1> QED BY <1>1, <1>3, <1>4 DEF CountInv

\* The report counts the redactions of the text that is returned, and not the
\* matches (RR-5).
THEOREM ReportCountsReplacements == Preparing => []CountsAreReplacements
<1>1. PrepInv /\ CountInv => CountsAreReplacements
  BY DEF PrepInv, CountInv, ReturnInv, CountsAreReplacements, Total
<1> QED BY <1>1, PrepInitial, PrepInductive, CountInitial, CountInductive, PTL DEF Preparing

----------------------------------------------------------------------------
(* The key of an alias *)

\* What the key of a list of atoms keeps: all but whitespace, and of each run of
\* whitespace between two others the first.
Solid(atoms, k) == atoms[k] \notin Whitespace

KeptIn(atoms) ==
    {k \in DOMAIN atoms :
        \/ Solid(atoms, k)
        \/ ~Solid(atoms, k) /\ k > 1 /\ Solid(atoms, k - 1) /\ \E j \in k + 1 .. Len(atoms) : Solid(atoms, j)}

FoldedAtom(atom) == IF atom = "F" THEN "f" ELSE atom

KeyAtom(atoms, k) == FoldedAtom(IF Solid(atoms, k) THEN atoms[k] ELSE " ")

\* What the key is, atom by atom.
LEMMA KeyIs ==
  ASSUME NEW T, NEW atoms \in Seq(T)
  PROVE  /\ KeptIn(atoms) \in SUBSET (1 .. Len(atoms)) /\ IsFiniteSet(KeptIn(atoms))
         /\ Cardinality(KeptIn(atoms)) \in Nat /\ Cardinality(KeptIn(atoms)) <= Len(atoms)
         /\ AliasKey(atoms) \in Seq(T \cup {"f", " "}) /\ Len(AliasKey(atoms)) = Cardinality(KeptIn(atoms))
         /\ \A n \in 1 .. Cardinality(KeptIn(atoms)) : AliasKey(atoms)[n] = KeyAtom(atoms, Ascending(KeptIn(atoms))[n])
<1> DEFINE K == KeptIn(atoms)
           c == Cardinality(K)
           left == Ascending(K)
           U == T \cup {"f", " "}
           key == [n \in 1 .. c |-> KeyAtom(atoms, left[n])]
<1>1. Len(atoms) \in Nat /\ DOMAIN atoms = 1 .. Len(atoms) /\ \A k \in 1 .. Len(atoms) : atoms[k] \in T
  OBVIOUS
<1>2. K \in SUBSET (1 .. Len(atoms))
  BY <1>1 DEF KeptIn
<1>3. IsFiniteSet(1 .. Len(atoms)) /\ Cardinality(1 .. Len(atoms)) = Len(atoms)
  <2> DEFINE len == Len(atoms)
  <2>1. len \in Nat
    BY <1>1
  <2> HIDE DEF len
  <2>2. IsFiniteSet(1 .. len) /\ Cardinality(1 .. len) = (IF 1 <= len THEN len - 1 + 1 ELSE 0)
    BY ONLY <2>1, FS_Interval
  <2>3. Cardinality(1 .. len) = len
    BY ONLY <2>1, <2>2
  <2> QED BY <2>2, <2>3 DEF len
<1> HIDE DEF K
<1>4. IsFiniteSet(K) /\ c <= Len(atoms)
  BY <1>2, <1>3, FS_Subset
<1>5. K \in SUBSET Nat
  BY <1>1, <1>2
<1>6. /\ c \in Nat /\ DOMAIN left = 1 .. c
      /\ \A n \in 1 .. c : left[n] \in K
  BY <1>4, <1>5, AscendingLists
<1>7. \A n \in 1 .. c : KeyAtom(atoms, left[n]) \in U
  BY <1>1, <1>2, <1>6 DEF KeyAtom, FoldedAtom
<1>8. key \in [1 .. c -> U]
  BY <1>7
<1>9. AliasKey(atoms) = key
  BY <1>6 DEF AliasKey, Fold, KeyAtom, FoldedAtom, KeptIn, Solid, K
<1> HIDE DEF c, left, U
<1>10. key \in Seq(U) /\ Len(key) = c
  BY ONLY <1>6, <1>8, FunctionIsSeq
<1>11. \A n \in 1 .. c : key[n] = KeyAtom(atoms, left[n])
  OBVIOUS
<1> HIDE DEF key
<1> QED BY <1>2, <1>4, <1>6, <1>9, <1>10, <1>11 DEF K, c, left, U

\* The join of two fields stays in a key.
LEMMA JoinStays ==
  ASSUME NEW T, NEW atoms \in Seq(T), NEW k \in 1 .. Len(atoms), atoms[k] = "nul"
  PROVE  \E n \in 1 .. Len(AliasKey(atoms)) : AliasKey(atoms)[n] = "nul"
<1> DEFINE K == KeptIn(atoms)
<1>1. DOMAIN atoms = 1 .. Len(atoms)
  OBVIOUS
<1>2. k \in K /\ KeyAtom(atoms, k) = "nul"
  BY <1>1 DEF KeptIn, Solid, Whitespace, KeyAtom, FoldedAtom
<1>3. /\ K \in SUBSET (1 .. Len(atoms)) /\ IsFiniteSet(K) /\ Len(AliasKey(atoms)) = Cardinality(K)
      /\ \A n \in 1 .. Cardinality(K) : AliasKey(atoms)[n] = KeyAtom(atoms, Ascending(K)[n])
  BY KeyIs
<1> HIDE DEF K
<1>4. K \in SUBSET Nat
  BY <1>3
<1>5. PICK n \in 1 .. Cardinality(K) : Ascending(K)[n] = k
  BY <1>2, <1>3, <1>4, AscendingLists
<1> QED BY <1>2, <1>3, <1>5

\* A piece of a text that goes on to another word has a longer key.
LEMMA LongerKey ==
  ASSUME NEW T, NEW text \in Seq(T), NEW p \in 1 .. Len(text), NEW d \in p .. Len(text), NEW e \in d + 1 .. Len(text),
         Solid(text, e)
  PROVE  Len(AliasKey(SubSeq(text, p, d))) < Len(AliasKey(SubSeq(text, p, e)))
<1> DEFINE u == SubSeq(text, p, d)
           v == SubSeq(text, p, e)
           K == KeptIn(u)
           M == KeptIn(v)
<1>0. Len(text) \in Nat /\ p \in Nat /\ d \in Nat /\ e \in Nat /\ 1 <= p /\ p <= d /\ d < e /\ e <= Len(text)
  OBVIOUS
<1>1. /\ u \in Seq(T) /\ Len(u) = d - p + 1 /\ \A i \in 1 .. d - p + 1 : u[i] = text[p + i - 1]
      /\ v \in Seq(T) /\ Len(v) = e - p + 1 /\ \A i \in 1 .. e - p + 1 : v[i] = text[p + i - 1]
  BY <1>0, SubSeqProperties
<1> HIDE DEF u, v
<1>2. DOMAIN u = 1 .. d - p + 1 /\ DOMAIN v = 1 .. e - p + 1
  BY <1>1
<1>3. \A i \in 1 .. d - p + 1 : i \in 1 .. e - p + 1
  BY <1>0
<1>4. \A i \in 1 .. d - p + 1 : Solid(u, i) <=> Solid(v, i)
  BY <1>1, <1>3 DEF Solid
<1>5. ASSUME NEW k \in K PROVE k \in M
  <2>1. k \in 1 .. d - p + 1 /\ k \in 1 .. e - p + 1
    BY <1>2, <1>3 DEF KeptIn
  <2>2. CASE Solid(u, k)
    BY <2>1, <2>2, <1>2, <1>4 DEF KeptIn
  <2>3. CASE ~Solid(u, k)
    <3>1. k > 1 /\ Solid(u, k - 1) /\ \E j \in k + 1 .. d - p + 1 : Solid(u, j)
      BY <2>3, <1>1 DEF KeptIn
    <3>2. PICK j \in k + 1 .. d - p + 1 : Solid(u, j)
      BY <3>1
    <3>3. k - 1 \in 1 .. d - p + 1 /\ j \in 1 .. d - p + 1 /\ j \in k + 1 .. e - p + 1
      BY <3>1, <3>2, <2>1, <1>0
    <3>4. ~Solid(v, k) /\ Solid(v, k - 1) /\ Solid(v, j)
      BY <3>1, <3>2, <3>3, <2>1, <2>3, <1>4
    <3> QED BY <3>1, <3>3, <3>4, <2>1, <1>1, <1>2 DEF KeptIn
  <2> QED BY <2>2, <2>3
<1>6. e - p + 1 \in 1 .. e - p + 1 /\ e - p + 1 \notin 1 .. d - p + 1 /\ p + (e - p + 1) - 1 = e
  BY <1>0
<1>7. e - p + 1 \in M /\ e - p + 1 \notin K
  <2>1. v[e - p + 1] = text[e]
    BY <1>1, <1>6
  <2> QED BY <2>1, <1>2, <1>6 DEF KeptIn, Solid
<1>8. /\ IsFiniteSet(K) /\ Cardinality(K) \in Nat /\ Len(AliasKey(u)) = Cardinality(K)
      /\ IsFiniteSet(M) /\ Cardinality(M) \in Nat /\ Len(AliasKey(v)) = Cardinality(M)
  BY <1>1, KeyIs
<1> HIDE DEF K, M
<1>9. K \in SUBSET M /\ K # M
  BY <1>5, <1>7
<1>10. Cardinality(K) <= Cardinality(M) /\ (Cardinality(K) = Cardinality(M) => K = M)
  BY ONLY <1>8, <1>9, FS_Subset
<1> QED BY <1>8, <1>9, <1>10 DEF u, v

----------------------------------------------------------------------------
(* What a search from the left finds *)

\* The search through 1 .. n that goes on from p at J[p] and finds G[p] there.
Searches(f, n, J, G) == f = [p \in 1 .. n + 1 |-> IF p > n THEN {} ELSE G[p] \cup f[J[p]]]

\* What holds at a position when it holds at all later ones holds at all.
LEMMA FromTheEnd ==
  ASSUME NEW n \in Nat, NEW S,
         \A p \in 1 .. n + 1 : (\A q \in p + 1 .. n + 1 : q \in S) => p \in S
  PROVE  \A p \in 1 .. n + 1 : p \in S
<1> DEFINE Bad == {p \in 1 .. n + 1 : p \notin S}
<1>1. ASSUME Bad # {} PROVE FALSE
  <2>1. Bad \in SUBSET Nat /\ n + 1 \in Nat /\ \A p \in Bad : p <= n + 1
    OBVIOUS
  <2> DEFINE p == Max(Bad)
  <2>2. p \in Bad /\ \A q \in Bad : q <= p
    <3> HIDE DEF Bad
    <3> QED BY <1>1, <2>1, MaxOf
  <2> HIDE DEF p
  <2>3. p \in 1 .. n + 1 /\ p \notin S
    BY <2>2
  <2>4. ASSUME NEW q \in p + 1 .. n + 1 PROVE q \in S
    <3>1. q \in 1 .. n + 1 /\ ~(q <= p)
      BY <2>3
    <3> QED BY <2>2, <3>1
  <2> QED BY <2>3, <2>4
<1> QED BY <1>1

\* Where a search finds what it finds.
LEMMA SearchAt ==
  ASSUME NEW n \in Nat, NEW J, NEW G, NEW f, Searches(f, n, J, G)
  PROVE  f[n + 1] = {} /\ \A p \in 1 .. n : f[p] = G[p] \cup f[J[p]]
<1>1. n + 1 \in 1 .. n + 1 /\ n + 1 > n /\ \A p \in 1 .. n : p \in 1 .. n + 1 /\ ~(p > n)
  OBVIOUS
<1>2. f = [p \in 1 .. n + 1 |-> IF p > n THEN {} ELSE G[p] \cup f[J[p]]]
  BY DEF Searches
<1>3. \A p \in 1 .. n + 1 : f[p] = IF p > n THEN {} ELSE G[p] \cup f[J[p]]
  BY ONLY <1>2
<1> QED BY <1>1, <1>3

\* There is such a search.
LEMMA SearchExists ==
  ASSUME NEW n \in Nat, NEW J, NEW G, \A p \in 1 .. n : J[p] \in p + 1 .. n + 1
  PROVE  \E f : Searches(f, n, J, G)
<1> DEFINE From(m, g) ==
             /\ DOMAIN g = m .. n + 1
             /\ \A p \in m .. n + 1 : g[p] = IF p > n THEN {} ELSE G[p] \cup g[J[p]]
           Able == {m \in 1 .. n + 1 : \E g : From(m, g)}
<1>1. ASSUME NEW m \in 1 .. n + 1, \A q \in m + 1 .. n + 1 : q \in Able
      PROVE  m \in Able
  <2>1. CASE m = n + 1
    <3> DEFINE g == [p \in m .. n + 1 |-> {}]
    <3>1. \A p \in m .. n + 1 : p > n
      BY <2>1
    <3>2. From(m, g)
      BY <3>1
    <3> QED BY <3>2
  <2>2. CASE m # n + 1
    <3>1. m \in 1 .. n /\ m + 1 \in m + 1 .. n + 1 /\ ~(m > n)
      BY <2>2
    <3>2. PICK h : From(m + 1, h)
      BY <1>1, <3>1
    <3>3. DOMAIN h = m + 1 .. n + 1
      BY <3>2
    <3>3a. \A p \in m + 1 .. n + 1 : h[p] = IF p > n THEN {} ELSE G[p] \cup h[J[p]]
      BY <3>2
    <3> DEFINE g == [p \in m .. n + 1 |-> IF p = m THEN G[m] \cup h[J[m]] ELSE h[p]]
    <3>4. J[m] \in m + 1 .. n + 1
      BY <3>1
    <3>5. \A p \in m + 1 .. n + 1 : p \in m .. n + 1 /\ p # m
      BY <3>1
    <3>6. \A p \in m + 1 .. n + 1 : g[p] = h[p]
      BY <3>5
    <3>7. m \in m .. n + 1 /\ g[m] = G[m] \cup h[J[m]]
      BY <3>1
    <3>8. DOMAIN g = m .. n + 1
      OBVIOUS
    <3> HIDE DEF g
    <3>9. g[m] = G[m] \cup g[J[m]]
      BY <3>4, <3>6, <3>7
    <3>10. ASSUME NEW p \in m + 1 .. n + 1 PROVE g[p] = IF p > n THEN {} ELSE G[p] \cup g[J[p]]
      <4>1. CASE p > n
        BY <4>1, <3>3a, <3>6
      <4>2. CASE ~(p > n)
        <5>1. p \in 1 .. n /\ p \in Nat /\ m \in Nat /\ p >= m + 1
          BY <4>2, <3>1
        <5>2. J[p] \in p + 1 .. n + 1
          BY <5>1
        <5>3. J[p] \in m + 1 .. n + 1
          BY <5>1, <5>2
        <5> QED BY <5>3, <4>2, <3>3a, <3>6
      <4> QED BY <4>1, <4>2
    <3>11. \A p \in m .. n + 1 : p = m \/ p \in m + 1 .. n + 1
      BY <3>1
    <3>12. \A p \in m .. n + 1 : g[p] = IF p > n THEN {} ELSE G[p] \cup g[J[p]]
      BY <3>1, <3>9, <3>10, <3>11
    <3>13. From(m, g)
      BY <3>8, <3>12
    <3> QED BY <3>13
  <2> QED BY <2>1, <2>2
<1>2. 1 \in 1 .. n + 1
  OBVIOUS
<1>3. 1 \in Able
  <2> HIDE DEF Able
  <2>1. \A p \in 1 .. n + 1 : p \in Able
    BY <1>1, FromTheEnd
  <2> QED BY <1>2, <2>1
<1>4. PICK g : From(1, g)
  BY <1>3
<1> DEFINE k == [p \in 1 .. n + 1 |-> IF p > n THEN {} ELSE G[p] \cup g[J[p]]]
<1>5. \A p \in 1 .. n + 1 : g[p] = IF p > n THEN {} ELSE G[p] \cup g[J[p]]
  BY <1>4
<1>6. \A p \in 1 .. n + 1 : k[p] = g[p]
  BY <1>5
<1>7. DOMAIN k = 1 .. n + 1
  OBVIOUS
<1> HIDE DEF k
<1>8. \A p \in 1 .. n + 1 : k[p] = IF p > n THEN {} ELSE G[p] \cup k[J[p]]
  <2> SUFFICES ASSUME NEW p \in 1 .. n + 1 PROVE k[p] = IF p > n THEN {} ELSE G[p] \cup k[J[p]]
    OBVIOUS
  <2>1. CASE p > n
    BY <2>1, <1>5, <1>6
  <2>2. CASE ~(p > n)
    <3>1. J[p] \in 1 .. n + 1
      <4>1. p \in 1 .. n
        BY <2>2
      <4>2. J[p] \in p + 1 .. n + 1
        BY <4>1
      <4> QED BY <4>1, <4>2
    <3> QED BY <3>1, <2>2, <1>5, <1>6
  <2> QED BY <2>1, <2>2
<1> DEFINE h == [p \in 1 .. n + 1 |-> IF p > n THEN {} ELSE G[p] \cup k[J[p]]]
<1>9. k = [p \in 1 .. n + 1 |-> k[p]]
  <2>1. \A p \in 1 .. n + 1 : k[p] = g[p]
    BY <1>6
  <2> QED BY <1>7 DEF k
<1>10. h = k
  BY <1>8, <1>9
<1>11. Searches(k, n, J, G)
  BY <1>10 DEF Searches
<1> QED BY <1>11

\* What it finds, it finds at some position behind.
LEMMA SearchFindsOnly ==
  ASSUME NEW n \in Nat, NEW J, NEW G, NEW f, Searches(f, n, J, G),
         \A p \in 1 .. n : J[p] \in p + 1 .. n + 1
  PROVE  \A x \in f[1] : \E q \in 1 .. n : x \in G[q]
<1> DEFINE Found(x) == \E q \in 1 .. n : x \in G[q]
           S == {p \in 1 .. n + 1 : \A x \in f[p] : Found(x)}
<1>1. ASSUME NEW p \in 1 .. n + 1, \A q \in p + 1 .. n + 1 : q \in S PROVE p \in S
  <2>1. CASE p = n + 1
    <3>1. f[p] = {}
      BY <2>1, SearchAt
    <3> QED BY <3>1
  <2>2. CASE p # n + 1
    <3>1. p \in 1 .. n
      BY <2>2
    <3>2. J[p] \in S
      BY <3>1, <1>1
    <3>3. f[p] = G[p] \cup f[J[p]]
      BY <3>1, SearchAt
    <3> QED BY <3>1, <3>2, <3>3
  <2> QED BY <2>1, <2>2
<1>2. 1 \in 1 .. n + 1
  OBVIOUS
<1>3. 1 \in S
  <2> HIDE DEF S
  <2> QED BY <1>1, <1>2, FromTheEnd
<1> QED BY <1>3

\* And a position no step jumps over is searched.
LEMMA SearchFinds ==
  ASSUME NEW n \in Nat, NEW J, NEW G, NEW f, Searches(f, n, J, G),
         \A p \in 1 .. n : J[p] \in p + 1 .. n + 1,
         NEW at \in 1 .. n, \A p \in 1 .. n : p < at => J[p] <= at
  PROVE  G[at] \subseteq f[1]
<1> DEFINE S == {p \in 1 .. n + 1 : p <= at => G[at] \subseteq f[p]}
<1>1. ASSUME NEW p \in 1 .. n + 1, \A q \in p + 1 .. n + 1 : q \in S PROVE p \in S
  <2> SUFFICES ASSUME p <= at PROVE G[at] \subseteq f[p]
    OBVIOUS
  <2>1. p \in 1 .. n
    OBVIOUS
  <2>2. f[p] = G[p] \cup f[J[p]]
    BY <2>1, SearchAt
  <2>3. CASE p = at
    BY <2>2, <2>3
  <2>4. CASE p # at
    <3>1. p < at
      BY <2>1, <2>4
    <3>2. J[p] <= at /\ J[p] \in p + 1 .. n + 1
      BY <2>1, <3>1
    <3>3. G[at] \subseteq f[J[p]]
      BY <3>2, <1>1
    <3> QED BY <2>2, <3>3
  <2> QED BY <2>3, <2>4
<1>2. 1 \in 1 .. n + 1 /\ 1 <= at
  OBVIOUS
<1>3. 1 \in S
  <2> HIDE DEF S
  <2> QED BY <1>1, <1>2, FromTheEnd
<1> QED BY <1>2, <1>3

----------------------------------------------------------------------------
(* The fields in their join *)

\* A part stands in a text behind its first b atoms, apart from what is around it.
PartAt(text, part, b) ==
    /\ b \in Nat /\ b + Len(part) <= Len(text)
    /\ \A i \in 1 .. Len(part) : text[b + i] = part[i]
    /\ b = 0 \/ text[b] = "nul"
    /\ b + Len(part) = Len(text) \/ text[b + Len(part) + 1] = "nul"

\* A text in which the first n parts stand, and nothing else but what parts them.
Holds(text, parts, n) ==
    /\ \A k \in 1 .. n : \E b \in Nat : PartAt(text, parts[k], b)
    /\ \A x \in 1 .. Len(text) :
          text[x] = "nul" \/ \E k \in 1 .. n, b \in Nat : PartAt(text, parts[k], b) /\ b < x /\ x <= b + Len(parts[k])

\* One part more is joined.
LEMMA PartJoined ==
  ASSUME NEW T, "nul" \in T, NEW text \in Seq(T), NEW more \in Seq(T)
  PROVE  LET new == text \o (<<"nul">> \o more) IN
         /\ new \in Seq(T) /\ Len(new) = Len(text) + 1 + Len(more)
         /\ \A x \in 1 .. Len(text) : new[x] = text[x]
         /\ new[Len(text) + 1] = "nul"
         /\ \A i \in 1 .. Len(more) : new[Len(text) + 1 + i] = more[i]
<1> DEFINE one == <<"nul">>
           tail == one \o more
           new == text \o tail
<1>1. one \in Seq(T) /\ Len(one) = 1 /\ one[1] = "nul"
  OBVIOUS
<1>2. Len(text) \in Nat /\ Len(more) \in Nat
  OBVIOUS
<1> HIDE DEF one
<1>2a. one \in Seq(T) /\ more \in Seq(T) /\ text \in Seq(T)
  BY <1>1
<1>3. /\ tail \in Seq(T) /\ Len(tail) = 1 + Len(more)
      /\ \A i \in 1 .. Len(one) + Len(more) : tail[i] = IF i <= Len(one) THEN one[i] ELSE more[i - Len(one)]
  <2>1. one \o more \in Seq(T)
    BY ONLY <1>2a, ConcatProperties
  <2>2. Len(one \o more) = Len(one) + Len(more)
    BY ONLY <1>2a, ConcatProperties
  <2>3. \A i \in 1 .. Len(one) + Len(more) : (one \o more)[i] = IF i <= Len(one) THEN one[i] ELSE more[i - Len(one)]
    BY ONLY <1>2a, ConcatProperties
  <2> QED BY <2>1, <2>2, <2>3, <1>1
<1>4. tail[1] = "nul" /\ \A i \in 1 .. Len(more) : tail[1 + i] = more[i]
  BY <1>1, <1>2, <1>3
<1> HIDE DEF tail
<1>4a. text \in Seq(T) /\ tail \in Seq(T)
  BY <1>3
<1>5. /\ new \in Seq(T) /\ Len(new) = Len(text) + Len(tail)
      /\ \A i \in 1 .. Len(text) + Len(tail) : new[i] = IF i <= Len(text) THEN text[i] ELSE tail[i - Len(text)]
  BY ONLY <1>4a, ConcatProperties
<1> HIDE DEF new
<1>6. \A x \in 1 .. Len(text) : new[x] = text[x]
  BY <1>2, <1>3, <1>5
<1>7. new[Len(text) + 1] = "nul"
  BY <1>2, <1>3, <1>4, <1>5
<1>8. ASSUME NEW i \in 1 .. Len(more) PROVE new[Len(text) + 1 + i] = more[i]
  <2>1. /\ Len(text) + 1 + i \in 1 .. Len(text) + Len(tail) /\ ~(Len(text) + 1 + i <= Len(text))
        /\ (Len(text) + 1 + i) - Len(text) = 1 + i
    BY <1>2, <1>3
  <2> QED BY <2>1, <1>4, <1>5
<1> QED BY <1>3, <1>5, <1>6, <1>7, <1>8 DEF new, tail, one

\* A part that stands in a text still stands in what goes on with another.
LEMMA StillThere ==
  ASSUME NEW text, NEW new, Len(text) \in Nat, Len(new) \in Nat, Len(new) > Len(text),
         \A x \in 1 .. Len(text) : new[x] = text[x], new[Len(text) + 1] = "nul",
         NEW part, Len(part) \in Nat, NEW b \in Nat, PartAt(text, part, b)
  PROVE  PartAt(new, part, b)
<1>1. /\ b + Len(part) <= Len(text)
      /\ \A i \in 1 .. Len(part) : text[b + i] = part[i]
      /\ b = 0 \/ text[b] = "nul"
      /\ b + Len(part) = Len(text) \/ text[b + Len(part) + 1] = "nul"
  BY DEF PartAt
<1>2. \A i \in 1 .. Len(part) : b + i \in 1 .. Len(text)
  BY <1>1
<1>3. \A i \in 1 .. Len(part) : new[b + i] = part[i]
  BY <1>1, <1>2
<1>4. b = 0 \/ new[b] = "nul"
  <2>1. b # 0 => b \in 1 .. Len(text)
    BY <1>1
  <2> QED BY <2>1, <1>1
<1>5. new[b + Len(part) + 1] = "nul"
  <2>1. b + Len(part) # Len(text) => b + Len(part) + 1 \in 1 .. Len(text)
    BY <1>1
  <2> QED BY <2>1, <1>1
<1>6. b + Len(part) <= Len(new)
  BY <1>1
<1> QED BY <1>3, <1>4, <1>5, <1>6 DEF PartAt

\* A text that holds some parts holds one more when it is joined.
LEMMA HoldsMore ==
  ASSUME NEW T, "nul" \in T, NEW text \in Seq(T), NEW parts \in Seq(Seq(T)), NEW n \in Nat, n + 1 \in 1 .. Len(parts),
         Holds(text, parts, n)
  PROVE  /\ text \o (<<"nul">> \o parts[n + 1]) \in Seq(T)
         /\ Holds(text \o (<<"nul">> \o parts[n + 1]), parts, n + 1)
<1> DEFINE part == parts[n + 1]
           new == text \o (<<"nul">> \o part)
<1>1. part \in Seq(T) /\ Len(part) \in Nat /\ Len(text) \in Nat /\ \A k \in 1 .. n : Len(parts[k]) \in Nat
  OBVIOUS
<1>2. /\ new \in Seq(T) /\ Len(new) = Len(text) + 1 + Len(part)
      /\ \A x \in 1 .. Len(text) : new[x] = text[x]
      /\ new[Len(text) + 1] = "nul"
      /\ \A i \in 1 .. Len(part) : new[Len(text) + 1 + i] = part[i]
  <2> HIDE DEF part
  <2>1. "nul" \in T /\ text \in Seq(T) /\ part \in Seq(T)
    BY <1>1
  <2> QED BY ONLY <2>1, PartJoined
<1> HIDE DEF new
<1>3. \A k \in 1 .. n, b \in Nat : PartAt(text, parts[k], b) => PartAt(new, parts[k], b)
  <2>0. Len(part) \in Nat /\ Len(text) \in Nat /\ Len(new) = Len(text) + 1 + Len(part)
    BY <1>1, <1>2
  <2>1. Len(new) \in Nat /\ Len(new) > Len(text)
    <3> HIDE DEF part
    <3> QED BY ONLY <2>0
  <2>2. SUFFICES ASSUME NEW k \in 1 .. n, NEW b \in Nat, PartAt(text, parts[k], b) PROVE PartAt(new, parts[k], b)
    OBVIOUS
  <2> DEFINE old == parts[k]
  <2>3. Len(text) \in Nat /\ Len(old) \in Nat /\ b \in Nat /\ PartAt(text, old, b)
    BY <1>1, <2>2
  <2>4. (\A x \in 1 .. Len(text) : new[x] = text[x]) /\ new[Len(text) + 1] = "nul"
    BY <1>2
  <2> HIDE DEF old
  <2>5. PartAt(new, old, b)
    BY ONLY <2>1, <2>3, <2>4, StillThere
  <2> QED BY <2>5 DEF old
<1>4. PartAt(new, part, Len(text) + 1)
  <2> HIDE DEF part
  <2>1. Len(text) + 1 \in Nat /\ Len(text) + 1 + Len(part) = Len(new)
    BY <1>1, <1>2
  <2> QED BY <2>1, <1>2 DEF PartAt
<1>5. \A k \in 1 .. n + 1 : \E b \in Nat : PartAt(new, parts[k], b)
  <2> SUFFICES ASSUME NEW k \in 1 .. n + 1 PROVE \E b \in Nat : PartAt(new, parts[k], b)
    OBVIOUS
  <2>1. CASE k \in 1 .. n
    BY <2>1, <1>3 DEF Holds
  <2>2. CASE k = n + 1
    BY <2>2, <1>1, <1>4
  <2> QED BY <2>1, <2>2
<1>6. ASSUME NEW x \in 1 .. Len(new)
      PROVE  new[x] = "nul" \/ \E k \in 1 .. n + 1, b \in Nat :
                                   PartAt(new, parts[k], b) /\ b < x /\ x <= b + Len(parts[k])
  <2>1. CASE x \in 1 .. Len(text)
    <3>1. CASE text[x] = "nul"
      BY <2>1, <3>1, <1>2
    <3>2. CASE text[x] # "nul"
      <4>1. PICK k \in 1 .. n, b \in Nat : PartAt(text, parts[k], b) /\ b < x /\ x <= b + Len(parts[k])
        BY <2>1, <3>2 DEF Holds
      <4>2. k \in 1 .. n + 1 /\ PartAt(new, parts[k], b)
        BY <1>3, <4>1
      <4> QED BY <4>1, <4>2
    <3> QED BY <3>1, <3>2
  <2>2. CASE x = Len(text) + 1
    BY <2>2, <1>2
  <2>3. CASE x > Len(text) + 1
    <3>0. Len(text) \in Nat /\ Len(part) \in Nat /\ Len(new) = Len(text) + 1 + Len(part)
      BY <1>1, <1>2
    <3>1. Len(text) + 1 < x /\ x <= Len(text) + 1 + Len(part) /\ Len(text) + 1 \in Nat /\ n + 1 \in 1 .. n + 1
      <4> HIDE DEF part
      <4> QED BY ONLY <2>3, <3>0, x \in 1 .. Len(new), n \in Nat
    <3>2. part = parts[n + 1]
      OBVIOUS
    <3> HIDE DEF part
    <3> QED BY <3>1, <3>2, <1>4
  <2>4. x \in Nat /\ x >= 1
    BY <1>1, <1>2
  <2> QED BY <2>1, <2>2, <2>3, <2>4, <1>1
<1> QED BY <1>2, <1>5, <1>6 DEF Holds, new

\* The first part alone.
LEMMA HoldsFirst ==
  ASSUME NEW T, NEW parts \in Seq(Seq(T)), Len(parts) > 0
  PROVE  parts[1] \in Seq(T) /\ Holds(parts[1], parts, 1)
<1>1. parts[1] \in Seq(T) /\ Len(parts[1]) \in Nat /\ 1 \in 1 .. 1 /\ \A k \in 1 .. 1 : k = 1
  OBVIOUS
<1> DEFINE part == parts[1]
<1> HIDE DEF part
<1>2. part \in Seq(T) /\ Len(part) \in Nat
  BY <1>1 DEF part
<1>3. PartAt(part, part, 0)
  BY <1>2 DEF PartAt
<1>4. \A x \in 1 .. Len(part) : 0 < x /\ x <= 0 + Len(part)
  BY <1>2
<1> QED BY <1>1, <1>3, <1>4 DEF Holds, part

\* A function that joins the parts one by one.
Joins(f, seqs, n) == f = [i \in 1 .. n |-> IF i = 1 THEN seqs[i] ELSE f[i - 1] \o seqs[i]]

LEMMA JoinsAt ==
  ASSUME NEW f, NEW seqs, NEW n, Joins(f, seqs, n), NEW i \in 1 .. n
  PROVE  DOMAIN f = 1 .. n /\ f[i] = IF i = 1 THEN seqs[i] ELSE f[i - 1] \o seqs[i]
<1>1. f = [j \in 1 .. n |-> IF j = 1 THEN seqs[j] ELSE f[j - 1] \o seqs[j]]
  BY DEF Joins
<1> DEFINE g == [j \in 1 .. n |-> IF j = 1 THEN seqs[j] ELSE f[j - 1] \o seqs[j]]
<1>2. DOMAIN g = 1 .. n /\ g[i] = IF i = 1 THEN seqs[i] ELSE f[i - 1] \o seqs[i]
  OBVIOUS
<1>3. f = g
  BY <1>1
<1> HIDE DEF g
<1> QED BY <1>2, <1>3

\* There is such a function.
LEMMA JoinsExists ==
  ASSUME NEW seqs, NEW n \in Nat
  PROVE  \E f : Joins(f, seqs, n)
<1> DEFINE Bad == {m \in Nat : ~ \E f : Joins(f, seqs, m)}
<1> SUFFICES ASSUME Bad # {} PROVE FALSE
  OBVIOUS
<1>1. PICK m \in Bad : \A k \in Bad : m <= k
  BY HasLeast
<1>2. m \in Nat /\ ~ \E f : Joins(f, seqs, m)
  BY <1>1
<1>3. CASE m = 0
  <2> DEFINE f == [i \in 1 .. 0 |-> {}]
  <2>1. f = [i \in 1 .. 0 |-> IF i = 1 THEN seqs[i] ELSE f[i - 1] \o seqs[i]]
    OBVIOUS
  <2> QED BY <1>2, <1>3, <2>1 DEF Joins
<1>4. CASE m # 0
  <2>1. m - 1 \in Nat /\ ~(m <= m - 1)
    BY <1>2, <1>4
  <2>2. m - 1 \notin Bad
    BY <1>1, <2>1
  <2>3. PICK f : Joins(f, seqs, m - 1)
    BY <2>1, <2>2
  <2> DEFINE g == [i \in 1 .. m |-> IF i = 1 THEN seqs[i] ELSE f[i - 1] \o seqs[i]]
  <2>4. \A i \in 1 .. m - 1 : g[i] = f[i]
    <3>1. \A i \in 1 .. m - 1 : i \in 1 .. m
      BY <2>1
    <3>2. \A i \in 1 .. m - 1 : f[i] = IF i = 1 THEN seqs[i] ELSE f[i - 1] \o seqs[i]
      BY <2>3, JoinsAt
    <3> QED BY <3>1, <3>2
  <2>5. \A i \in 1 .. m : i # 1 => i - 1 \in 1 .. m - 1
    BY <2>1
  <2>6. g = [i \in 1 .. m |-> IF i = 1 THEN seqs[i] ELSE g[i - 1] \o seqs[i]]
    BY <2>4, <2>5
  <2> QED BY <1>2, <2>6 DEF Joins
<1> QED BY <1>3, <1>4

\* The join of the parts is a text that holds them, and nothing else.
LEMMA JoinHolds ==
  ASSUME NEW T, "nul" \in T, NEW parts \in Seq(Seq(T))
  PROVE  Join(parts) \in Seq(T) /\ Holds(Join(parts), parts, Len(parts))
<1> DEFINE n == Len(parts)
           seqs == [k \in DOMAIN parts |-> IF k = 1 THEN parts[k] ELSE <<"nul">> \o parts[k]]
<1>1. n \in Nat /\ DOMAIN parts = 1 .. n
  OBVIOUS
<1>2. DOMAIN seqs = 1 .. n /\ \A k \in 1 .. n : seqs[k] = IF k = 1 THEN parts[k] ELSE <<"nul">> \o parts[k]
  BY <1>1
<1>3. Len(seqs) = n
  <2> HIDE DEF seqs
  <2> QED BY <1>1, <1>2
<1>4. Join(parts) = FlattenSeq(seqs)
  BY DEF Join
<1> HIDE DEF seqs
<1>5. CASE n = 0
  <2>1. parts = <<>>
    BY <1>5
  <2>2. seqs = <<>>
    BY <1>2, <1>5
  <2>3. Join(parts) = <<>>
    BY <1>3, <1>4, <1>5, <2>2 DEF FlattenSeq
  <2>4. Len(<<>>) = 0 /\ <<>> \in Seq(T)
    OBVIOUS
  <2> QED BY <2>3, <2>4, <1>5 DEF Holds
<1>6. CASE n # 0
  <2>1. \E f : Joins(f, seqs, n)
    BY <1>1, JoinsExists
  <2> DEFINE h == CHOOSE f : f = [i \in 1 .. n |-> IF i = 1 THEN seqs[i] ELSE f[i - 1] \o seqs[i]]
  <2>2. Joins(h, seqs, n)
    BY <2>1 DEF Joins
  <2>3. Join(parts) = h[n]
    BY <1>3, <1>4, <1>6, <2>2 DEF FlattenSeq
  <2> HIDE DEF h
  <2> DEFINE Bad == {i \in 1 .. n : ~(h[i] \in Seq(T) /\ Holds(h[i], parts, i))}
  <2>4. ASSUME Bad # {} PROVE FALSE
    <3>1. Bad \in SUBSET Nat
      BY <1>1
    <3>2. PICK i \in Bad : \A k \in Bad : i <= k
      <4> HIDE DEF Bad
      <4> QED BY <2>4, <3>1, HasLeast
    <3>3. i \in 1 .. n /\ ~(h[i] \in Seq(T) /\ Holds(h[i], parts, i))
      BY <3>2
    <3>4. h[i] = IF i = 1 THEN seqs[i] ELSE h[i - 1] \o seqs[i]
      BY <2>2, <3>3, JoinsAt
    <3>5. CASE i = 1
      <4>1. h[i] = parts[1]
        BY <3>3, <3>4, <3>5, <1>2
      <4>2. Len(parts) > 0
        BY <1>1, <1>6
      <4> QED BY <4>1, <4>2, <3>3, <3>5, HoldsFirst
    <3>6. CASE i # 1
      <4> DEFINE m == i - 1
      <4>1. m \in Nat /\ m \in 1 .. n /\ ~(i <= m) /\ m + 1 = i /\ m + 1 \in 1 .. Len(parts)
        BY <1>1, <3>3, <3>6
      <4>2. h[m] \in Seq(T) /\ Holds(h[m], parts, m)
        <5> HIDE DEF m
        <5>1. m \notin Bad
          BY <3>2, <4>1
        <5> QED BY <5>1, <4>1
      <4>3. h[i] = h[m] \o (<<"nul">> \o parts[m + 1])
        BY <3>3, <3>4, <3>6, <1>2, <4>1
      <4> DEFINE text == h[m]
      <4> HIDE DEF text, m
      <4>4. "nul" \in T /\ text \in Seq(T) /\ parts \in Seq(Seq(T)) /\ m \in Nat /\ m + 1 \in 1 .. Len(parts) /\ Holds(text, parts, m)
        BY <4>1, <4>2 DEF text
      <4>5. /\ text \o (<<"nul">> \o parts[m + 1]) \in Seq(T)
            /\ Holds(text \o (<<"nul">> \o parts[m + 1]), parts, m + 1)
        BY ONLY <4>4, HoldsMore
      <4>6. h[i] = text \o (<<"nul">> \o parts[m + 1])
        BY <4>3 DEF text
      <4> QED BY <4>1, <4>5, <4>6, <3>3
    <3> QED BY <3>5, <3>6
  <2>5. n \in 1 .. n
    BY <1>1, <1>6
  <2> QED BY <2>3, <2>4, <2>5
<1> QED BY <1>5, <1>6

----------------------------------------------------------------------------
(* An alias in a field and in the join *)

\* A piece of a part is that piece of the text.
LEMMA PieceOf ==
  ASSUME NEW T, NEW text \in Seq(T), NEW part \in Seq(T), NEW b \in Nat, PartAt(text, part, b),
         NEW p \in 1 .. Len(part), NEW e \in p .. Len(part)
  PROVE  SubSeq(part, p, e) = SubSeq(text, b + p, b + e)
<1> DEFINE u == SubSeq(part, p, e)
           v == SubSeq(text, b + p, b + e)
           n == e - p + 1
<1>1. Len(part) \in Nat /\ Len(text) \in Nat /\ p \in Nat /\ e \in Nat /\ 1 <= p /\ p <= e /\ e <= Len(part)
  OBVIOUS
<1>2. b + Len(part) <= Len(text) /\ \A i \in 1 .. Len(part) : text[b + i] = part[i]
  BY DEF PartAt
<1>3. b + p \in 1 .. Len(text) /\ b + e \in (b + p) .. Len(text) /\ (b + e) - (b + p) + 1 = n /\ n \in Nat
  BY <1>1, <1>2
<1>4. u \in Seq(T) /\ Len(u) = n /\ \A i \in 1 .. n : u[i] = part[p + i - 1]
  BY <1>1, SubSeqProperties
<1> DEFINE bp == b + p
           be == b + e
<1>5. bp \in 1 .. Len(text) /\ be \in bp .. Len(text) /\ be - bp + 1 = n
  BY <1>3
<1>6. v \in Seq(T) /\ Len(v) = n /\ \A i \in 1 .. n : v[i] = text[bp + i - 1]
  <2> HIDE DEF bp, be
  <2>1. text \in Seq(T) /\ bp \in 1 .. Len(text) + 1 /\ be \in bp - 1 .. Len(text)
    <3>1. bp \in Int /\ be \in Int /\ Len(text) \in Int
      BY <1>1, <1>5
    <3> QED BY <3>1, <1>1, <1>5
  <2>2. LET w == SubSeq(text, bp, be) IN
        w \in Seq(T) /\ Len(w) = be - bp + 1 /\ \A i \in 1 .. be - bp + 1 : w[i] = text[bp + i - 1]
    BY ONLY <2>1, SubSeqProperties
  <2>3. v = SubSeq(text, bp, be)
    BY DEF bp, be
  <2> HIDE DEF v, n
  <2> QED BY <1>5, <2>2, <2>3
<1>7. ASSUME NEW i \in 1 .. n PROVE u[i] = v[i]
  <2>1. p + i - 1 \in 1 .. Len(part) /\ bp + i - 1 = b + (p + i - 1)
    BY <1>1
  <2>2. text[b + (p + i - 1)] = part[p + i - 1]
    BY <1>2, <2>1
  <2> QED BY <1>4, <1>6, <2>1, <2>2
<1> HIDE DEF u, v, n
<1>8. u = [i \in 1 .. n |-> u[i]] /\ v = [i \in 1 .. n |-> v[i]]
  BY <1>4, <1>6
<1> QED BY <1>7, <1>8 DEF u, v

\* An alias stands in the join where it stands in the part.
LEMMA OccursIn ==
  ASSUME NEW T, NEW text \in Seq(T), NEW part \in Seq(T), NEW b \in Nat, PartAt(text, part, b),
         NEW p \in 1 .. Len(part), NEW e \in p .. Len(part), NEW key
  PROVE  OccursAt(part, key, p, e) <=> OccursAt(text, key, b + p, b + e)
<1>1. Len(part) \in Nat /\ Len(text) \in Nat /\ p \in Nat /\ e \in Nat /\ 1 <= p /\ p <= e /\ e <= Len(part)
  OBVIOUS
<1>2. /\ b + Len(part) <= Len(text)
      /\ \A i \in 1 .. Len(part) : text[b + i] = part[i]
      /\ b = 0 \/ text[b] = "nul"
      /\ b + Len(part) = Len(text) \/ text[b + Len(part) + 1] = "nul"
  BY DEF PartAt
<1>3. text[b + p] = part[p] /\ text[b + e] = part[e]
  BY <1>1, <1>2
<1>4. SubSeq(part, p, e) = SubSeq(text, b + p, b + e)
  BY PieceOf
<1>5. "nul" \notin WordAtoms /\ "nul" \notin Openings
  BY DEF WordAtoms, Openings
<1>6. (p = 1 \/ part[p - 1] \notin WordAtoms) <=> (b + p = 1 \/ text[(b + p) - 1] \notin WordAtoms)
  <2>1. CASE p = 1
    <3>1. (b + p) - 1 = b /\ (b = 0 => b + p = 1)
      BY <2>1
    <3> QED BY <2>1, <3>1, <1>2, <1>5
  <2>2. CASE p # 1
    <3>1. p - 1 \in 1 .. Len(part) /\ (b + p) - 1 = b + (p - 1) /\ b + p # 1
      BY <2>2, <1>1
    <3>2. text[b + (p - 1)] = part[p - 1]
      BY <3>1, <1>2
    <3> QED BY <2>2, <3>1, <3>2
  <2> QED BY <2>1, <2>2
<1>7. (e = Len(part) \/ part[e + 1] \notin Openings) <=> (b + e = Len(text) \/ text[(b + e) + 1] \notin Openings)
  <2>1. CASE e = Len(part)
    <3>1. b + e = b + Len(part) /\ (b + e) + 1 = b + Len(part) + 1
      BY <2>1
    <3> QED BY <2>1, <3>1, <1>2, <1>5
  <2>2. CASE e # Len(part)
    <3>1. e + 1 \in 1 .. Len(part) /\ (b + e) + 1 = b + (e + 1) /\ b + e # Len(text)
      BY <2>2, <1>1, <1>2
    <3>2. text[b + (e + 1)] = part[e + 1]
      BY <3>1, <1>2
    <3> QED BY <2>2, <3>1, <3>2
  <2> QED BY <2>1, <2>2
<1> QED BY <1>3, <1>4, <1>6, <1>7 DEF OccursAt

\* What an alias stands on.
LEMMA OccursOn ==
  ASSUME NEW T, NEW text \in Seq(T), NEW x \in 1 .. Len(text), NEW y \in x .. Len(text), NEW key,
         OccursAt(text, key, x, y)
  PROVE  /\ Len(key) \in Nat /\ Len(key) <= Len(text)
         /\ key = AliasKey(SubSeq(text, x, y)) /\ Solid(text, x) /\ Solid(text, y)
         /\ \A i \in x .. y : text[i] = "nul" => \E n \in 1 .. Len(key) : key[n] = "nul"
<1> DEFINE u == SubSeq(text, x, y)
<1>1. Len(text) \in Nat /\ x \in Nat /\ y \in Nat /\ 1 <= x /\ x <= y /\ y <= Len(text)
  OBVIOUS
<1>2. u \in Seq(T) /\ Len(u) = y - x + 1 /\ \A i \in 1 .. y - x + 1 : u[i] = text[x + i - 1]
  BY <1>1, SubSeqProperties
<1>3. key = AliasKey(u) /\ Solid(text, x) /\ Solid(text, y)
  BY DEF OccursAt, Solid
<1> HIDE DEF u
<1>4. Len(AliasKey(u)) \in Nat /\ Len(AliasKey(u)) <= Len(u)
  BY <1>2, KeyIs
<1>5. Len(key) \in Nat /\ Len(key) <= Len(text)
  <2>1. Len(u) = y - x + 1
    BY <1>2
  <2> QED BY <1>1, <1>3, <1>4, <2>1
<1>6. ASSUME NEW i \in x .. y, text[i] = "nul" PROVE \E n \in 1 .. Len(key) : key[n] = "nul"
  <2> DEFINE j == i - x + 1
  <2>1. j \in 1 .. y - x + 1 /\ x + j - 1 = i /\ j \in 1 .. Len(u)
    BY <1>1, <1>2
  <2> HIDE DEF j
  <2>2. u[j] = "nul"
    BY <1>2, <1>6, <2>1
  <2> QED BY <1>2, <1>3, <2>1, <2>2, JoinStays
<1> QED BY <1>3, <1>5, <1>6 DEF u

\* An alias that holds no join and stands on some atom of a part stands in it.
LEMMA StaysIn ==
  ASSUME NEW T, NEW text \in Seq(T), NEW part, Len(part) \in Nat, NEW b \in Nat, PartAt(text, part, b),
         NEW key, \A n \in 1 .. Len(key) : key[n] # "nul",
         NEW x \in 1 .. Len(text), NEW y \in x .. Len(text), OccursAt(text, key, x, y),
         NEW at \in x .. y, b < at, at <= b + Len(part)
  PROVE  b < x /\ y <= b + Len(part)
<1>1. text \in Seq(T) /\ x \in 1 .. Len(text) /\ y \in x .. Len(text) /\ OccursAt(text, key, x, y)
  OBVIOUS
<1>2. \A i \in x .. y : text[i] = "nul" => \E n \in 1 .. Len(key) : key[n] = "nul"
  BY ONLY <1>1, OccursOn
<1>3. \A i \in x .. y : text[i] # "nul"
  BY <1>2
<1>4. /\ x \in Nat /\ y \in Nat /\ at \in Nat /\ x <= at /\ at <= y /\ Len(text) \in Nat /\ y <= Len(text) /\ 1 <= x
      /\ b \in Nat /\ Len(part) \in Nat /\ b < at /\ at <= b + Len(part)
  OBVIOUS
<1>5. b = 0 \/ text[b] = "nul"
  BY DEF PartAt
<1>6. b + Len(part) = Len(text) \/ text[b + Len(part) + 1] = "nul"
  BY DEF PartAt
<1>7. b < x
  <2> SUFFICES ASSUME ~(b < x) PROVE FALSE
    OBVIOUS
  <2>1. b \in x .. y /\ b # 0
    BY ONLY <1>4, ~(b < x)
  <2> QED BY <2>1, <1>3, <1>5
<1>8. y <= b + Len(part)
  <2> SUFFICES ASSUME ~(y <= b + Len(part)) PROVE FALSE
    OBVIOUS
  <2>1. b + Len(part) + 1 \in x .. y /\ b + Len(part) # Len(text)
    BY ONLY <1>4, ~(y <= b + Len(part))
  <2> QED BY <2>1, <1>3, <1>6
<1> QED BY <1>7, <1>8

\* It stands in one part.
LEMMA InOnePart ==
  ASSUME NEW T, NEW text \in Seq(T), NEW parts \in Seq(Seq(T)), Holds(text, parts, Len(parts)),
         NEW key, \A n \in 1 .. Len(key) : key[n] # "nul",
         NEW x \in 1 .. Len(text), NEW y \in x .. Len(text), OccursAt(text, key, x, y)
  PROVE  \E k \in 1 .. Len(parts), b \in Nat : PartAt(text, parts[k], b) /\ b < x /\ y <= b + Len(parts[k])
<1>1. text \in Seq(T) /\ x \in 1 .. Len(text) /\ y \in x .. Len(text) /\ OccursAt(text, key, x, y)
  OBVIOUS
<1>2. \A i \in x .. y : text[i] = "nul" => \E n \in 1 .. Len(key) : key[n] = "nul"
  BY ONLY <1>1, OccursOn
<1>3. x \in x .. y
  OBVIOUS
<1>4. text[x] # "nul"
  BY <1>2, <1>3
<1>5. PICK k \in 1 .. Len(parts), b \in Nat : PartAt(text, parts[k], b) /\ b < x /\ x <= b + Len(parts[k])
  BY <1>4 DEF Holds
<1> DEFINE part == parts[k]
<1>6. Len(part) \in Nat /\ PartAt(text, part, b) /\ b < x /\ x <= b + Len(part)
  BY <1>5
<1> HIDE DEF part
<1>7. b < x /\ y <= b + Len(part)
  BY <1>3, <1>6, StaysIn
<1> QED BY <1>6, <1>7 DEF part

----------------------------------------------------------------------------
(* The projects a text names *)

\* The aliases that stand at a position, the one the search takes, where that ends
\* and what it finds.
HereAt(ruleSet, text, p) == {key \in Keys(ruleSet) : EndsOf(text, key, p) # {}}

Taken(ruleSet, text, p) ==
    CHOOSE k \in HereAt(ruleSet, text, p) : \A other \in HereAt(ruleSet, text, p) : Len(other) <= Len(k)

TakenTo(ruleSet, text, p) == Max(EndsOf(text, Taken(ruleSet, text, p), p))

StepTo(ruleSet, text) ==
    [p \in 1 .. Len(text) |-> IF HereAt(ruleSet, text, p) = {} THEN p + 1 ELSE TakenTo(ruleSet, text, p) + 1]

FoundAt(ruleSet, text) ==
    [p \in 1 .. Len(text) |-> IF HereAt(ruleSet, text, p) = {} THEN {} ELSE {ProjectOf(ruleSet, Taken(ruleSet, text, p))}]

\* What is taken is an alias that stands there, none is longer, and it is followed
\* as far as it goes.
LEMMA TakenStands ==
  ASSUME NEW T, NEW text \in Seq(T), NEW ruleSet, NEW p \in 1 .. Len(text), HereAt(ruleSet, text, p) # {}
  PROVE  /\ Taken(ruleSet, text, p) \in Keys(ruleSet)
         /\ \A other \in Keys(ruleSet), e \in p .. Len(text) :
               OccursAt(text, other, p, e) => Len(other) <= Len(Taken(ruleSet, text, p))
         /\ TakenTo(ruleSet, text, p) \in p .. Len(text)
         /\ OccursAt(text, Taken(ruleSet, text, p), p, TakenTo(ruleSet, text, p))
<1> DEFINE H == HereAt(ruleSet, text, p)
           S == {Len(k) : k \in H}
<1>1. Len(text) \in Nat /\ p \in Nat
  OBVIOUS
<1>2. \A k \in H : k \in Keys(ruleSet) /\ \E e \in p .. Len(text) : OccursAt(text, k, p, e)
  BY DEF HereAt, EndsOf
<1>3. \A k \in Keys(ruleSet), e \in p .. Len(text) : OccursAt(text, k, p, e) => k \in H
  BY DEF HereAt, EndsOf
<1>4. ASSUME NEW k \in H PROVE Len(k) \in Nat /\ Len(k) <= Len(text)
  <2>1. PICK e \in p .. Len(text) : OccursAt(text, k, p, e)
    BY <1>2
  <2> QED BY <2>1, OccursOn
<1>5. H # {}
  OBVIOUS
<1> HIDE DEF H
<1>6. S \in SUBSET Nat /\ S # {} /\ \A n \in S : n <= Len(text)
  BY <1>4, <1>5
<1>7. Max(S) \in S /\ \A n \in S : n <= Max(S)
  <2> HIDE DEF S
  <2> QED BY <1>1, <1>6, MaxOf
<1>8. \E k \in H : \A other \in H : Len(other) <= Len(k)
  BY <1>7
<1> DEFINE key == Taken(ruleSet, text, p)
<1>9. key \in H /\ \A other \in H : Len(other) <= Len(key)
  BY <1>8 DEF Taken, H
<1> HIDE DEF key
<1> DEFINE E == EndsOf(text, key, p)
<1>10. E \in SUBSET (p .. Len(text)) /\ \A e \in E : OccursAt(text, key, p, e)
  BY DEF EndsOf
<1>11. E # {}
  BY <1>9 DEF HereAt, H
<1> HIDE DEF E
<1>12. E \in SUBSET Nat /\ \A e \in E : e <= Len(text)
  BY <1>1, <1>10
<1>13. Max(E) \in E
  BY <1>1, <1>11, <1>12, MaxOf
<1>14. TakenTo(ruleSet, text, p) = Max(E)
  BY DEF TakenTo, E, key
<1>15. key \in Keys(ruleSet)
  BY <1>2, <1>9
<1>16. \A other \in Keys(ruleSet), e \in p .. Len(text) : OccursAt(text, other, p, e) => Len(other) <= Len(key)
  BY <1>3, <1>9
<1> QED BY <1>10, <1>13, <1>14, <1>15, <1>16 DEF key

\* Each step goes on.
LEMMA StepsOn ==
  ASSUME NEW T, NEW text \in Seq(T), NEW ruleSet
  PROVE  \A p \in 1 .. Len(text) : StepTo(ruleSet, text)[p] \in p + 1 .. Len(text) + 1
<1> SUFFICES ASSUME NEW p \in 1 .. Len(text) PROVE StepTo(ruleSet, text)[p] \in p + 1 .. Len(text) + 1
  OBVIOUS
<1>1. Len(text) \in Nat /\ p \in Nat /\ p <= Len(text)
  OBVIOUS
<1>2. StepTo(ruleSet, text)[p] = IF HereAt(ruleSet, text, p) = {} THEN p + 1 ELSE TakenTo(ruleSet, text, p) + 1
  BY DEF StepTo
<1>3. CASE HereAt(ruleSet, text, p) = {}
  BY <1>1, <1>2, <1>3
<1>4. CASE HereAt(ruleSet, text, p) # {}
  <2> DEFINE e == TakenTo(ruleSet, text, p)
  <2>1. e \in p .. Len(text)
    BY <1>4, TakenStands
  <2>2. StepTo(ruleSet, text)[p] = e + 1
    BY <1>2, <1>4
  <2> HIDE DEF e
  <2> QED BY <1>1, <2>1, <2>2
<1> QED BY <1>3, <1>4

\* The projects a text names are what a search from the left finds.
LEMMA NamedIs ==
  ASSUME NEW T, NEW text \in Seq(T), NEW ruleSet
  PROVE  \E f : Searches(f, Len(text), StepTo(ruleSet, text), FoundAt(ruleSet, text)) /\ ProjectsNamed(ruleSet, text) = f[1]
<1> DEFINE n == Len(text)
           J == StepTo(ruleSet, text)
           G == FoundAt(ruleSet, text)
           Body(f) == [p \in 1 .. n + 1 |->
                          IF p > n THEN {}
                          ELSE LET here == {key \in Keys(ruleSet) : EndsOf(text, key, p) # {}} IN
                               IF here = {} THEN f[p + 1]
                               ELSE LET key == CHOOSE k \in here : \A other \in here : Len(other) <= Len(k)
                                    IN  {ProjectOf(ruleSet, key)} \cup f[Max(EndsOf(text, key, p)) + 1]]
           h == CHOOSE f : f = Body(f)
<1>1. n \in Nat
  OBVIOUS
<1>2. ASSUME NEW f PROVE Body(f) = [p \in 1 .. n + 1 |-> IF p > n THEN {} ELSE G[p] \cup f[J[p]]]
  <2> SUFFICES ASSUME NEW p \in 1 .. n + 1, ~(p > n)
               PROVE  LET here == {key \in Keys(ruleSet) : EndsOf(text, key, p) # {}} IN
                      (IF here = {} THEN f[p + 1]
                       ELSE LET key == CHOOSE k \in here : \A other \in here : Len(other) <= Len(k)
                            IN  {ProjectOf(ruleSet, key)} \cup f[Max(EndsOf(text, key, p)) + 1])
                      = G[p] \cup f[J[p]]
    OBVIOUS
  <2>1. p \in 1 .. n
    BY <1>1
  <2>2. /\ J[p] = IF HereAt(ruleSet, text, p) = {} THEN p + 1 ELSE TakenTo(ruleSet, text, p) + 1
        /\ G[p] = IF HereAt(ruleSet, text, p) = {} THEN {} ELSE {ProjectOf(ruleSet, Taken(ruleSet, text, p))}
    BY <2>1 DEF StepTo, FoundAt
  <2>3. CASE HereAt(ruleSet, text, p) = {}
    <3> HIDE DEF J, G
    <3>1. J[p] = p + 1 /\ G[p] = {}
      BY <2>2, <2>3
    <3> QED BY <3>1, <2>3 DEF HereAt
  <2>4. CASE HereAt(ruleSet, text, p) # {}
    <3> HIDE DEF J, G
    <3>1. J[p] = TakenTo(ruleSet, text, p) + 1 /\ G[p] = {ProjectOf(ruleSet, Taken(ruleSet, text, p))}
      BY <2>2, <2>4
    <3> QED BY <3>1, <2>4 DEF HereAt, Taken, TakenTo
  <2> QED BY <2>3, <2>4
<1>3. \E f : Searches(f, n, J, G)
  <2>1. \A p \in 1 .. n : J[p] \in p + 1 .. n + 1
    BY StepsOn
  <2> HIDE DEF n, J, G
  <2> QED BY <1>1, <2>1, SearchExists
<1>4. \A f : Searches(f, n, J, G) <=> f = Body(f)
  <2> HIDE DEF n, J, G, Body
  <2> QED BY <1>2 DEF Searches
<1>5. h = Body(h)
  <2> HIDE DEF Body
  <2> QED BY <1>3, <1>4
<1>6. Searches(h, n, J, G)
  BY ONLY <1>4, <1>5
<1>7. ProjectsNamed(ruleSet, text) = h[1]
  BY DEF ProjectsNamed
<1> HIDE DEF h
<1> QED BY <1>6, <1>7

----------------------------------------------------------------------------
(* What a text of joined fields names *)

\* No alias holds the join of two fields.
HoldsNoJoin(ruleSet) == \A key \in Keys(ruleSet) : \A n \in 1 .. Len(key) : key[n] # "nul"

\* What the search takes at a position behind which a part begins stands in that part.
LEMMA TakenInPart ==
  ASSUME NEW T, NEW text \in Seq(T), NEW part \in Seq(T), NEW b \in Nat, PartAt(text, part, b),
         NEW ruleSet, HoldsNoJoin(ruleSet),
         NEW p \in 1 .. Len(text), HereAt(ruleSet, text, p) # {},
         NEW at \in p .. TakenTo(ruleSet, text, p), b < at, at <= b + Len(part)
  PROVE  /\ b < p /\ TakenTo(ruleSet, text, p) <= b + Len(part)
         /\ [project |-> ProjectOf(ruleSet, Taken(ruleSet, text, p)), first |-> p - b, last |-> TakenTo(ruleSet, text, p) - b]
               \in Occurrences(ruleSet, part)
<1> DEFINE e == TakenTo(ruleSet, text, p)
           key == Taken(ruleSet, text, p)
<1>1. key \in Keys(ruleSet) /\ e \in p .. Len(text) /\ OccursAt(text, key, p, e)
  BY TakenStands
<1>2. at \in p .. e /\ Len(part) \in Nat /\ Len(text) \in Nat
  OBVIOUS
<1> HIDE DEF e, key
<1>3. \A n \in 1 .. Len(key) : key[n] # "nul"
  BY <1>1 DEF HoldsNoJoin
<1>4. b < p /\ e <= b + Len(part)
  BY <1>1, <1>2, <1>3, StaysIn
<1> DEFINE f == p - b
           l == e - b
<1>5. f \in 1 .. Len(part) /\ l \in f .. Len(part) /\ b + f = p /\ b + l = e /\ f <= l
  BY <1>1, <1>2, <1>4
<1> HIDE DEF f, l
<1>6. OccursAt(part, key, f, l)
  BY <1>1, <1>5, OccursIn
<1>7. DOMAIN part = 1 .. Len(part) /\ l \in 1 .. Len(part)
  BY <1>2, <1>5
<1> DEFINE o == <<key, f, l>>
<1>8. o \in {c \in Keys(ruleSet) \X (DOMAIN part) \X (DOMAIN part) : c[2] <= c[3] /\ OccursAt(part, c[1], c[2], c[3])}
  BY <1>1, <1>5, <1>6, <1>7
<1>9. o[1] = key /\ o[2] = f /\ o[3] = l
  OBVIOUS
<1> HIDE DEF o
<1>10. [project |-> ProjectOf(ruleSet, o[1]), first |-> o[2], last |-> o[3]] \in Occurrences(ruleSet, part)
  BY <1>8 DEF Occurrences
<1>11. [project |-> ProjectOf(ruleSet, key), first |-> f, last |-> l] \in Occurrences(ruleSet, part)
  BY <1>9, <1>10
<1> QED BY <1>4, <1>11 DEF e, key, f, l

\* Whatever is named stands in one of the fields.
LEMMA NamedStand ==
  ASSUME NEW T, NEW text \in Seq(T), NEW parts \in Seq(Seq(T)), Holds(text, parts, Len(parts)),
         NEW ruleSet, HoldsNoJoin(ruleSet)
  PROVE  ProjectsNamed(ruleSet, text) \subseteq Standing(ruleSet, parts)
<1> DEFINE n == Len(text)
           J == StepTo(ruleSet, text)
           G == FoundAt(ruleSet, text)
<1>1. PICK f : Searches(f, n, J, G) /\ ProjectsNamed(ruleSet, text) = f[1]
  BY NamedIs
<1>2. \A p \in 1 .. n : J[p] \in p + 1 .. n + 1
  BY StepsOn
<1>3. n \in Nat
  OBVIOUS
<1>4. \A x \in f[1] : \E q \in 1 .. n : x \in G[q]
  <2> HIDE DEF n, J, G
  <2> QED BY <1>1, <1>2, <1>3, SearchFindsOnly
<1> SUFFICES ASSUME NEW x \in ProjectsNamed(ruleSet, text) PROVE x \in Standing(ruleSet, parts)
  OBVIOUS
<1>5. PICK q \in 1 .. Len(text) : x \in FoundAt(ruleSet, text)[q]
  BY <1>1, <1>4
<1>6. HereAt(ruleSet, text, q) # {} /\ x = ProjectOf(ruleSet, Taken(ruleSet, text, q))
  BY <1>5 DEF FoundAt
<1> DEFINE e == TakenTo(ruleSet, text, q)
           key == Taken(ruleSet, text, q)
<1>7. key \in Keys(ruleSet) /\ e \in q .. Len(text) /\ OccursAt(text, key, q, e)
  BY <1>6, TakenStands
<1>8. \A i \in 1 .. Len(key) : key[i] # "nul"
  BY <1>7 DEF HoldsNoJoin
<1>9. PICK k \in 1 .. Len(parts), b \in Nat : PartAt(text, parts[k], b) /\ b < q /\ e <= b + Len(parts[k])
  <2> HIDE DEF e, key
  <2> QED BY <1>7, <1>8, InOnePart
<1> DEFINE part == parts[k]
<1>10. part \in Seq(T) /\ PartAt(text, part, b) /\ Len(part) \in Nat /\ k \in DOMAIN parts
  BY <1>9
<1>11. b < q /\ q \in Nat /\ q \in q .. e /\ q <= b + Len(part)
  <2>1. Len(text) \in Nat /\ b < q /\ e <= b + Len(part)
    BY <1>9
  <2> HIDE DEF e, part
  <2> QED BY <1>7, <1>10, <2>1
<1> HIDE DEF part
<1> DEFINE d == [project |-> ProjectOf(ruleSet, key), first |-> q - b, last |-> e - b]
<1>12. d \in Occurrences(ruleSet, part)
  BY <1>6, <1>10, <1>11, TakenInPart
<1>13. d.project = x
  BY <1>6
<1> HIDE DEF d
<1> QED BY <1>10, <1>12, <1>13 DEF Standing, part

\* And what stands in a field with no rival is named.
LEMMA FirstNamed ==
  ASSUME NEW T, NEW text \in Seq(T), NEW parts \in Seq(Seq(T)), Holds(text, parts, Len(parts)),
         NEW ruleSet, HoldsNoJoin(ruleSet)
  PROVE  StandingFirst(ruleSet, parts) \subseteq ProjectsNamed(ruleSet, text)
<1> SUFFICES ASSUME NEW x \in StandingFirst(ruleSet, parts) PROVE x \in ProjectsNamed(ruleSet, text)
  OBVIOUS
<1>1. PICK k \in DOMAIN parts : \E c \in Occurrences(ruleSet, parts[k]) :
         /\ x = c.project
         /\ \A d \in Occurrences(ruleSet, parts[k]) :
               ~(d.first < c.first /\ c.first <= d.last) /\ (d.first = c.first => d.last <= c.last)
  BY DEF StandingFirst
<1> DEFINE part == parts[k]
<1>2. part \in Seq(T) /\ Len(part) \in Nat /\ k \in 1 .. Len(parts) /\ DOMAIN part = 1 .. Len(part)
  OBVIOUS
<1>3. PICK c \in Occurrences(ruleSet, part) :
         /\ x = c.project
         /\ \A d \in Occurrences(ruleSet, part) :
               ~(d.first < c.first /\ c.first <= d.last) /\ (d.first = c.first => d.last <= c.last)
  BY <1>1
<1>4. PICK b \in Nat : PartAt(text, part, b)
  BY <1>2 DEF Holds
<1> HIDE DEF part
<1>5. PICK o \in Keys(ruleSet) \X (DOMAIN part) \X (DOMAIN part) :
         /\ o[2] <= o[3] /\ OccursAt(part, o[1], o[2], o[3])
         /\ c = [project |-> ProjectOf(ruleSet, o[1]), first |-> o[2], last |-> o[3]]
  BY <1>3 DEF Occurrences
<1> DEFINE key == o[1]
           f == o[2]
           l == o[3]
           at == b + f
           till == b + l
<1>6. /\ key \in Keys(ruleSet) /\ f \in 1 .. Len(part) /\ l \in f .. Len(part) /\ OccursAt(part, key, f, l)
      /\ c.project = ProjectOf(ruleSet, key) /\ c.first = f /\ c.last = l
  <2>1. key \in Keys(ruleSet) /\ f \in DOMAIN part /\ l \in DOMAIN part /\ f <= l
    BY <1>5
  <2>2. c.project = ProjectOf(ruleSet, key) /\ c.first = f /\ c.last = l /\ OccursAt(part, key, f, l)
    BY <1>5
  <2> HIDE DEF key, f, l
  <2>3. l \in f .. Len(part)
    BY <2>1, <1>2
  <2> QED BY <2>1, <2>2, <2>3, <1>2
<1> HIDE DEF key, f, l
<1>7. b + Len(part) <= Len(text) /\ Len(text) \in Nat
  BY <1>4 DEF PartAt
<1>8. /\ at \in 1 .. Len(text) /\ till \in at .. Len(text) /\ b < at /\ at <= b + Len(part) /\ till <= b + Len(part)
      /\ at - b = f /\ till - b = l /\ at \in Nat /\ till \in Nat
  BY <1>2, <1>6, <1>7
<1>9. OccursAt(text, key, at, till)
  BY <1>2, <1>4, <1>6, OccursIn
<1> HIDE DEF at, till
<1>10. HereAt(ruleSet, text, at) # {}
  BY <1>6, <1>8, <1>9 DEF HereAt, EndsOf
<1> DEFINE other == Taken(ruleSet, text, at)
           e == TakenTo(ruleSet, text, at)
<1>11. other \in Keys(ruleSet) /\ e \in at .. Len(text) /\ OccursAt(text, other, at, e) /\ Len(key) <= Len(other)
  BY <1>6, <1>8, <1>9, <1>10, TakenStands
<1>12. at \in at .. e
  BY <1>8, <1>11
<1> DEFINE d == [project |-> ProjectOf(ruleSet, other), first |-> at - b, last |-> e - b]
<1>13. d \in Occurrences(ruleSet, part)
  BY <1>2, <1>4, <1>8, <1>10, <1>12, TakenInPart
<1>14. d.first = at - b /\ d.last = e - b
  OBVIOUS
<1> HIDE DEF d, e, other
<1>15. d.last <= c.last
  <2>1. d.first = c.first
    BY <1>6, <1>8, <1>14
  <2> QED BY <1>3, <1>13, <2>1
<1>16. e <= till /\ e \in Nat
  <2>1. e - b <= l /\ l = till - b
    BY <1>6, <1>8, <1>14, <1>15
  <2>2. e \in Nat
    BY <1>7, <1>8, <1>11
  <2> QED BY <1>8, <2>1, <2>2
<1>17. /\ key = AliasKey(SubSeq(text, at, till)) /\ Solid(text, till) /\ Len(key) \in Nat
  BY <1>8, <1>9, OccursOn
<1>18. other = AliasKey(SubSeq(text, at, e)) /\ Len(other) \in Nat
  BY <1>8, <1>11, OccursOn
<1>19. e = till
  <2> SUFFICES ASSUME e # till PROVE FALSE
    OBVIOUS
  <2>1. till \in e + 1 .. Len(text) /\ e \in at .. Len(text)
    BY <1>7, <1>8, <1>11, <1>16
  <2>2. Len(AliasKey(SubSeq(text, at, e))) < Len(AliasKey(SubSeq(text, at, till)))
    BY <1>8, <1>17, <2>1, LongerKey
  <2> QED BY <1>11, <1>17, <1>18, <2>2
<1>20. other = key
  BY <1>17, <1>18, <1>19
<1> DEFINE n == Len(text)
           J == StepTo(ruleSet, text)
           G == FoundAt(ruleSet, text)
<1>21. G[at] = {x}
  BY <1>3, <1>6, <1>8, <1>10, <1>20 DEF FoundAt, other
<1>22. \A p \in 1 .. n : J[p] \in p + 1 .. n + 1
  BY StepsOn
<1>23. ASSUME NEW p \in 1 .. n, p < at PROVE J[p] <= at
  <2>1. J[p] = IF HereAt(ruleSet, text, p) = {} THEN p + 1 ELSE TakenTo(ruleSet, text, p) + 1
    BY DEF StepTo
  <2>2. p \in Nat /\ p \in 1 .. Len(text)
    BY <1>7
  <2>3. CASE HereAt(ruleSet, text, p) = {}
    <3>1. J[p] = p + 1
      BY <2>1, <2>3
    <3> HIDE DEF J
    <3> QED BY <1>8, <1>23, <2>2, <3>1
  <2>4. CASE HereAt(ruleSet, text, p) # {}
    <3> DEFINE g == TakenTo(ruleSet, text, p)
               h == [project |-> ProjectOf(ruleSet, Taken(ruleSet, text, p)), first |-> p - b, last |-> g - b]
    <3>1. J[p] = g + 1
      BY <2>1, <2>4
    <3>2. g \in p .. Len(text)
      BY <2>4, TakenStands
    <3>3. ASSUME g >= at PROVE FALSE
      <4>1. at \in p .. g
        <5> HIDE DEF g, J, n
        <5> QED BY <1>7, <1>8, <1>23, <2>2, <3>2, <3>3
      <4>2. h \in Occurrences(ruleSet, part) /\ b < p
        BY <1>2, <1>4, <1>8, <2>2, <2>4, <4>1, TakenInPart
      <4>3. h.first = p - b /\ h.last = g - b
        OBVIOUS
      <4> HIDE DEF h, g, J, n
      <4>4. ~(h.first < c.first /\ c.first <= h.last)
        BY <1>3, <4>2
      <4>5. c.first = at - b
        BY <1>6, <1>8
      <4>6. g \in Nat
        BY <1>7, <2>2, <3>2
      <4>7. ~(p - b < at - b /\ at - b <= g - b)
        BY <4>3, <4>4, <4>5
      <4> QED BY <1>8, <1>23, <2>2, <3>3, <4>6, <4>7
    <3> HIDE DEF g, h, J, n
    <3> QED BY <1>7, <1>8, <2>2, <3>1, <3>2, <3>3
  <2> QED BY <2>3, <2>4
<1>24. PICK s : Searches(s, n, J, G) /\ ProjectsNamed(ruleSet, text) = s[1]
  BY NamedIs
<1>25. n \in Nat /\ at \in 1 .. n
  BY <1>7, <1>8
<1>26. G[at] \subseteq s[1]
  <2> HIDE DEF n, J, G
  <2> QED BY <1>22, <1>23, <1>24, <1>25, SearchFinds
<1> QED BY <1>21, <1>24, <1>26

----------------------------------------------------------------------------
(* The answer of one classifier *)

\* The least of some naturals.
LEMMA MinOf ==
  ASSUME NEW S \in SUBSET Nat, S # {}
  PROVE  Min(S) \in S /\ \A n \in S : Min(S) <= n
<1>1. \E n \in S : \A m \in S : n <= m
  BY HasLeast
<1> QED BY <1>1 DEF Min

\* Finitely many integers have a greatest.
LEMMA GreatestOf ==
  ASSUME NEW n \in Nat, NEW g, \A i \in 1 .. n : g[i] \in Int,
         NEW S, S # {}, \A s \in S : \E i \in 1 .. n : s = g[i]
  PROVE  S \in SUBSET Int /\ Max(S) \in S /\ \A s \in S : s <= Max(S)
<1> DEFINE Bounded(m) == \E b \in Int : \A i \in 1 .. m : g[i] <= b
           Bad == {m \in 0 .. n : ~Bounded(m)}
<1>1. ASSUME Bad # {} PROVE FALSE
  <2>1. Bad \in SUBSET Nat
    OBVIOUS
  <2>2. PICK m \in Bad : \A k \in Bad : m <= k
    <3> HIDE DEF Bad
    <3> QED BY <1>1, <2>1, HasLeast
  <2>3. m \in 0 .. n /\ ~Bounded(m)
    BY <2>2
  <2>4. m # 0
    <3>1. \A i \in 1 .. 0 : g[i] <= 0
      OBVIOUS
    <3> QED BY <2>3, <3>1
  <2>5. m - 1 \in 0 .. n /\ ~(m <= m - 1) /\ m \in 1 .. n
    BY <2>3, <2>4
  <2>6. Bounded(m - 1)
    <3> HIDE DEF Bounded
    <3>1. m - 1 \notin Bad
      <4> HIDE DEF Bad
      <4> QED BY <2>2, <2>5
    <3> QED BY <2>5, <3>1
  <2>7. PICK b \in Int : \A i \in 1 .. m - 1 : g[i] <= b
    BY <2>6
  <2>8. g[m] \in Int
    BY <2>5
  <2>9. PICK c \in Int : b <= c /\ g[m] <= c
    <3> DEFINE v == g[m]
    <3> HIDE DEF v
    <3>1. v \in Int
      BY <2>8 DEF v
    <3>2. \E c \in Int : b <= c /\ v <= c
      <4>1. CASE b <= v
        <5>1. b <= v /\ v <= v
          BY <3>1, <4>1
        <5> QED BY <3>1, <5>1
      <4>2. CASE ~(b <= v)
        <5>1. v <= b /\ b <= b
          BY <3>1, <4>2
        <5> QED BY <5>1
      <4> QED BY <4>1, <4>2
    <3> QED BY <3>2 DEF v
  <2>10. \A i \in 1 .. m : g[i] <= c
    <3> SUFFICES ASSUME NEW i \in 1 .. m PROVE g[i] <= c
      OBVIOUS
    <3>1. i = m \/ i \in 1 .. m - 1
      BY <2>5
    <3>2. CASE i = m
      BY <2>9, <3>2
    <3>3. CASE i \in 1 .. m - 1
      <4>1. g[i] <= b /\ g[i] \in Int
        BY <2>5, <2>7, <3>3
      <4> QED BY <2>9, <4>1
    <3> QED BY <3>1, <3>2, <3>3
  <2> QED BY <2>3, <2>10
<1>2. Bounded(n)
  <2> HIDE DEF Bounded
  <2> QED BY <1>1
<1>3. PICK b \in Int : \A i \in 1 .. n : g[i] <= b
  BY <1>2
<1>4. S \in SUBSET Int /\ \A s \in S : s <= b
  BY <1>3
<1> HIDE DEF Bounded
<1> DEFINE Gaps == {k \in Nat : \E s \in S : s + k = b}
<1>5. Gaps \in SUBSET Nat /\ Gaps # {}
  <2>1. PICK s \in S : TRUE
    OBVIOUS
  <2>2. b - s \in Nat /\ s + (b - s) = b
    BY <1>4
  <2> QED BY <2>1, <2>2
<1>6. PICK k \in Gaps : \A j \in Gaps : k <= j
  <2> HIDE DEF Gaps
  <2> QED BY <1>5, HasLeast
<1>7. PICK top \in S : top + k = b
  BY <1>6
<1>8. ASSUME NEW s \in S PROVE s <= top
  <2>1. b - s \in Nat /\ s + (b - s) = b
    BY <1>4
  <2>2. k <= b - s
    BY <1>6, <2>1
  <2>3. s \in Int /\ top \in Int /\ k \in Nat
    BY <1>4, <1>6
  <2> QED BY <1>7, <2>2, <2>3
<1>9. \A s \in S : top >= s
  <2>1. top \in Int
    BY <1>4
  <2> QED BY <1>4, <1>8, <2>1
<1>10. Max(S) \in S /\ \A s \in S : Max(S) >= s
  BY <1>9 DEF Max
<1> QED BY <1>4, <1>10

\* The projects of a rule set, and their priorities.
LEMMA ProjectIs ==
  ASSUME NEW ruleSet \in Seq(ProjectRule), NEW key \in Keys(ruleSet)
  PROVE  \E i \in 1 .. Len(ruleSet) : ProjectOf(ruleSet, key) = ruleSet[i].project
<1> DEFINE I == {i \in DOMAIN ruleSet : \E a \in ruleSet[i].aliases : AliasKey(a) = key}
<1>1. DOMAIN ruleSet = 1 .. Len(ruleSet) /\ Len(ruleSet) \in Nat
  OBVIOUS
<1>2. I # {}
  BY DEF Keys
<1>3. I \in SUBSET Nat /\ \A i \in I : i <= Len(ruleSet) /\ i \in 1 .. Len(ruleSet)
  BY <1>1
<1>4. ProjectOf(ruleSet, key) = ruleSet[Max(I)].project
  BY DEF ProjectOf
<1> HIDE DEF I
<1>5. Max(I) \in I
  BY <1>1, <1>2, <1>3, MaxOf
<1> QED BY <1>3, <1>4, <1>5

LEMMA PriorityIs ==
  ASSUME NEW ruleSet \in Seq(ProjectRule), NEW p, \E i \in 1 .. Len(ruleSet) : p = ruleSet[i].project
  PROVE  \E i \in 1 .. Len(ruleSet) : PriorityOf(ruleSet, p) = ruleSet[i].priority
<1>1. DOMAIN ruleSet = 1 .. Len(ruleSet)
  OBVIOUS
<1> DEFINE j == CHOOSE i \in DOMAIN ruleSet : ruleSet[i].project = p
<1>2. j \in 1 .. Len(ruleSet)
  BY <1>1
<1>3. PriorityOf(ruleSet, p) = ruleSet[j].priority
  BY DEF PriorityOf
<1> HIDE DEF j
<1> QED BY <1>2, <1>3

\* A set of two or more has more than one.
LEMMA MoreThanOne ==
  ASSUME NEW S, IsFiniteSet(S), NEW a \in S, NEW b \in S, a # b
  PROVE  Cardinality(S) > 1
<1>1. IsFiniteSet({a}) /\ Cardinality({a}) = 1
  BY FS_Singleton
<1>2. {a} \in SUBSET S /\ {a} # S
  OBVIOUS
<1>3. Cardinality({a}) <= Cardinality(S) /\ Cardinality(S) # Cardinality({a})
  <2> DEFINE one == {a}
  <2>1. one \in SUBSET S /\ one # S
    BY <1>2
  <2> HIDE DEF one
  <2>2. Cardinality(one) <= Cardinality(S) /\ (Cardinality(S) = Cardinality(one) => S = one)
    BY ONLY IsFiniteSet(S), <2>1, FS_Subset
  <2> QED BY <2>1, <2>2 DEF one
<1>4. Cardinality(S) \in Nat
  BY FS_CardinalityType
<1> QED BY <1>1, <1>3, <1>4

\* The projects of a rule set are finitely many.
LEMMA ProjectsFinite ==
  ASSUME NEW ruleSet \in Seq(ProjectRule), NEW S, \A p \in S : \E i \in 1 .. Len(ruleSet) : p = ruleSet[i].project
  PROVE  IsFiniteSet(S)
<1> DEFINE n == Len(ruleSet)
           D == {ruleSet[i].project : i \in 1 .. n}
           f == [i \in 1 .. n |-> ruleSet[i].project]
<1>1. n \in Nat
  OBVIOUS
<1>2. f \in Surjection(1 .. n, D)
  BY DEF Surjection
<1>3. IsFiniteSet(1 .. n)
  <2> HIDE DEF n
  <2> QED BY <1>1, FS_Interval
<1> DEFINE I == 1 .. n
<1>4. S \in SUBSET D
  OBVIOUS
<1> HIDE DEF f, D, I
<1>5. f \in Surjection(I, D) /\ IsFiniteSet(I)
  BY <1>2, <1>3 DEF I
<1>6. IsFiniteSet(D)
  BY ONLY <1>5, FS_Surjection
<1> QED BY <1>4, <1>6, FS_Subset

\* Of the projects named, the answer is one with a priority above all others, and
\* unknown only when there is none.
LEMMA AnswerIs ==
  ASSUME NEW ruleSet \in Seq(ProjectRule), \A i \in DOMAIN ruleSet : ruleSet[i].project # Unknown,
         NEW named, named # {}, \A p \in named : \E i \in 1 .. Len(ruleSet) : p = ruleSet[i].project
  PROVE  /\ Resolve(ruleSet, named) # Unknown =>
               /\ Resolve(ruleSet, named) \in named
               /\ \A q \in named \ {Resolve(ruleSet, named)} :
                     PriorityOf(ruleSet, q) < PriorityOf(ruleSet, Resolve(ruleSet, named))
         /\ Resolve(ruleSet, named) = Unknown =>
               \A p \in named : \E q \in named \ {p} : ~(PriorityOf(ruleSet, q) < PriorityOf(ruleSet, p))
<1> DEFINE P == {PriorityOf(ruleSet, p) : p \in named}
           highest == Max(P)
           tied == {p \in named : PriorityOf(ruleSet, p) = highest}
           n == Len(ruleSet)
           g == [i \in 1 .. n |-> ruleSet[i].priority]
<1>1. n \in Nat /\ DOMAIN ruleSet = 1 .. n /\ \A i \in 1 .. n : ruleSet[i] \in ProjectRule
  OBVIOUS
<1>2. \A i \in 1 .. n : g[i] \in Int
  BY <1>1 DEF ProjectRule
<1>3. \A p \in named : \E i \in 1 .. n : PriorityOf(ruleSet, p) = g[i]
  <2> SUFFICES ASSUME NEW p \in named PROVE \E i \in 1 .. n : PriorityOf(ruleSet, p) = g[i]
    OBVIOUS
  <2>1. \E i \in 1 .. Len(ruleSet) : p = ruleSet[i].project
    OBVIOUS
  <2>2. PICK i \in 1 .. Len(ruleSet) : PriorityOf(ruleSet, p) = ruleSet[i].priority
    BY <2>1, PriorityIs
  <2> QED BY <2>2
<1>4. P # {} /\ \A s \in P : \E i \in 1 .. n : s = g[i]
  BY <1>3
<1>5. P \in SUBSET Int /\ highest \in P /\ \A s \in P : s <= highest
  <2> HIDE DEF P, n, g
  <2>1. n \in Nat /\ (\A i \in 1 .. n : g[i] \in Int) /\ P # {} /\ \A s \in P : \E i \in 1 .. n : s = g[i]
    BY <1>1, <1>2, <1>4
  <2>2. P \in SUBSET Int /\ Max(P) \in P /\ \A s \in P : s <= Max(P)
    BY ONLY <2>1, GreatestOf
  <2> QED BY <2>2
<1>6. \A p \in named : PriorityOf(ruleSet, p) \in Int /\ PriorityOf(ruleSet, p) <= highest
  BY <1>5
<1>7. tied # {} /\ highest \in Int
  BY <1>5
<1>8. IsFiniteSet(tied)
  <2>1. \A p \in tied : \E i \in 1 .. Len(ruleSet) : p = ruleSet[i].project
    OBVIOUS
  <2> HIDE DEF tied
  <2> QED BY <2>1, ProjectsFinite
<1>9. Cardinality(tied) \in Nat
  <2> HIDE DEF tied
  <2> QED BY <1>8, FS_CardinalityType
<1>10. Resolve(ruleSet, named) = IF Cardinality(tied) > 1 THEN Unknown ELSE CHOOSE p \in tied : TRUE
  BY DEF Resolve
<1>11. \A p \in tied : p \in named /\ PriorityOf(ruleSet, p) = highest
  OBVIOUS
<1>12. \A p \in named : p \notin tied => PriorityOf(ruleSet, p) # highest
  OBVIOUS
<1> HIDE DEF P, highest, tied, n, g
<1>13. CASE Cardinality(tied) > 1
  <2>1. Resolve(ruleSet, named) = Unknown
    BY <1>10, <1>13
  <2>2. ASSUME NEW p \in named PROVE \E q \in named \ {p} : ~(PriorityOf(ruleSet, q) < PriorityOf(ruleSet, p))
    <3>1. PICK q \in tied : q # p
      <4> SUFFICES ASSUME \A q \in tied : q = p PROVE FALSE
        OBVIOUS
      <4>1. tied = {p}
        BY <1>7
      <4>2. Cardinality({p}) = 1
        BY FS_Singleton
      <4> QED BY <1>13, <4>1, <4>2
    <3>2. q \in named \ {p} /\ PriorityOf(ruleSet, q) = highest
      BY <1>11, <3>1
    <3>3. ~(highest < PriorityOf(ruleSet, p))
      <4> DEFINE v == PriorityOf(ruleSet, p)
      <4>1. v \in Int /\ v <= highest
        BY <1>6
      <4> HIDE DEF v
      <4>2. ~(highest < v)
        BY ONLY <4>1, <1>7
      <4> QED BY <4>2 DEF v
    <3> QED BY <3>2, <3>3
  <2> QED BY <2>1, <2>2
<1>14. CASE ~(Cardinality(tied) > 1)
  <2> DEFINE t == CHOOSE p \in tied : TRUE
  <2>1. t \in tied
    BY <1>7
  <2>2. Resolve(ruleSet, named) = t
    BY <1>10, <1>14
  <2> HIDE DEF t
  <2>3. \A q \in tied : q = t
    BY <1>8, <1>14, <2>1, MoreThanOne
  <2>4. t \in named /\ PriorityOf(ruleSet, t) = highest
    BY <1>11, <2>1
  <2>5. t # Unknown
    BY <1>1, <2>4
  <2>6. ASSUME NEW q \in named \ {t} PROVE PriorityOf(ruleSet, q) < PriorityOf(ruleSet, t)
    <3>1. PriorityOf(ruleSet, q) # highest
      BY <1>12, <2>3
    <3> DEFINE v == PriorityOf(ruleSet, q)
    <3>2. v \in Int /\ v <= highest /\ v # highest
      BY <1>6, <3>1
    <3> HIDE DEF v
    <3>3. v < highest
      BY ONLY <3>2, <1>7
    <3> QED BY <2>4, <3>3 DEF v
  <2> QED BY <2>2, <2>4, <2>5, <2>6
<1> QED BY <1>13, <1>14

----------------------------------------------------------------------------
(* The answer of a chain *)

\* No alias was declared with the join of two fields in it. Nothing in the code
\* refuses one that was (rules.py, alias_classifier.py).
DeclaresNoJoin(ruleSet) ==
    \A i \in DOMAIN ruleSet : \A a \in ruleSet[i].aliases : \A k \in DOMAIN a : a[k] # "nul"

LEMMA KeysHoldNoJoin ==
  ASSUME NEW ruleSet \in Seq(ProjectRule), DeclaresNoJoin(ruleSet)
  PROVE  HoldsNoJoin(ruleSet)
<1> SUFFICES ASSUME NEW key \in Keys(ruleSet), NEW n \in 1 .. Len(key) PROVE key[n] # "nul"
  BY DEF HoldsNoJoin
<1>1. PICK i \in DOMAIN ruleSet : key \in {AliasKey(a) : a \in ruleSet[i].aliases}
  BY DEF Keys
<1>2. PICK a \in ruleSet[i].aliases : key = AliasKey(a)
  BY <1>1
<1>3. ruleSet[i] \in ProjectRule
  OBVIOUS
<1>4. a \in Seq(STRING)
  BY <1>3 DEF ProjectRule
<1> DEFINE K == KeptIn(a)
           left == Ascending(K)
<1>5. /\ K \in SUBSET (1 .. Len(a)) /\ IsFiniteSet(K) /\ Len(AliasKey(a)) = Cardinality(K)
      /\ \A m \in 1 .. Cardinality(K) : AliasKey(a)[m] = KeyAtom(a, left[m])
  BY <1>4, KeyIs
<1>6. DOMAIN a = 1 .. Len(a) /\ \A k \in 1 .. Len(a) : a[k] # "nul"
  BY <1>2, <1>4 DEF DeclaresNoJoin
<1> HIDE DEF K
<1>7. K \in SUBSET Nat
  BY <1>5
<1>8. n \in 1 .. Cardinality(K)
  BY <1>2, <1>5
<1>9. left[n] \in K
  BY <1>5, <1>7, <1>8, AscendingLists
<1> HIDE DEF left
<1>10. key[n] = KeyAtom(a, left[n])
  BY <1>2, <1>5, <1>8
<1>11. a[left[n]] # "nul"
  BY <1>5, <1>6, <1>9
<1> QED BY <1>10, <1>11 DEF KeyAtom, FoldedAtom

\* What a classifier answers of a text of joined fields, and what it does not.
LEMMA ClassifierEarns ==
  ASSUME NEW T, "nul" \in T, NEW parts \in Seq(Seq(T)),
         NEW ruleSet \in Seq(ProjectRule), \A i \in DOMAIN ruleSet : ruleSet[i].project # Unknown,
         DeclaresNoJoin(ruleSet)
  PROVE  LET answer == ClassifyText(ruleSet, Join(parts)) IN
         /\ answer # Unknown =>
               /\ answer \in Standing(ruleSet, parts)
               /\ \A q \in StandingFirst(ruleSet, parts) \ {answer} :
                     PriorityOf(ruleSet, q) < PriorityOf(ruleSet, answer)
         /\ answer = Unknown => Certain(ruleSet, parts) = {}
<1> DEFINE text == Join(parts)
           named == ProjectsNamed(ruleSet, text)
           answer == ClassifyText(ruleSet, text)
<1>1. text \in Seq(T) /\ Holds(text, parts, Len(parts))
  BY JoinHolds
<1>2. HoldsNoJoin(ruleSet)
  BY KeysHoldNoJoin
<1>3. answer = IF named = {} THEN Unknown ELSE Resolve(ruleSet, named)
  BY DEF ClassifyText
<1> HIDE DEF text
<1>4. named \subseteq Standing(ruleSet, parts)
  BY <1>1, <1>2, NamedStand
<1>5. StandingFirst(ruleSet, parts) \subseteq named
  BY <1>1, <1>2, FirstNamed
<1>6. ASSUME NEW p \in named PROVE \E i \in 1 .. Len(ruleSet) : p = ruleSet[i].project
  <2>1. PICK k \in DOMAIN parts : p \in {o.project : o \in Occurrences(ruleSet, parts[k])}
    BY <1>4 DEF Standing
  <2>2. PICK o \in Occurrences(ruleSet, parts[k]) : p = o.project
    BY <2>1
  <2>3. PICK key \in Keys(ruleSet) : o.project = ProjectOf(ruleSet, key)
    BY DEF Occurrences
  <2> QED BY <2>2, <2>3, ProjectIs
<1> HIDE DEF named, answer
<1>7. CASE named = {}
  <2>1. answer = Unknown
    BY <1>3, <1>7
  <2>2. Certain(ruleSet, parts) = {}
    BY <1>5, <1>7 DEF Certain
  <2> QED BY <2>1, <2>2 DEF answer, text
<1>8. CASE named # {}
  <2>1. answer = Resolve(ruleSet, named)
    BY <1>3, <1>8
  <2>2. /\ answer # Unknown =>
              /\ answer \in named
              /\ \A q \in named \ {answer} : PriorityOf(ruleSet, q) < PriorityOf(ruleSet, answer)
        /\ answer = Unknown =>
              \A p \in named : \E q \in named \ {p} : ~(PriorityOf(ruleSet, q) < PriorityOf(ruleSet, p))
    BY <1>6, <1>8, <2>1, AnswerIs
  <2>3. ASSUME answer # Unknown
        PROVE  /\ answer \in Standing(ruleSet, parts)
               /\ \A q \in StandingFirst(ruleSet, parts) \ {answer} :
                     PriorityOf(ruleSet, q) < PriorityOf(ruleSet, answer)
    BY <1>4, <1>5, <2>2, <2>3
  <2>4. ASSUME answer = Unknown, NEW p \in Certain(ruleSet, parts) PROVE FALSE
    <3>1. p \in named /\ \A q \in Standing(ruleSet, parts) \ {p} : PriorityOf(ruleSet, q) < PriorityOf(ruleSet, p)
      BY <1>5 DEF Certain
    <3>2. PICK q \in named \ {p} : ~(PriorityOf(ruleSet, q) < PriorityOf(ruleSet, p))
      BY <2>2, <2>4, <3>1
    <3> QED BY <1>4, <3>1, <3>2
  <2>5. answer = Unknown => Certain(ruleSet, parts) = {}
    BY <2>4
  <2> QED BY <2>3, <2>5 DEF answer, text
<1> QED BY <1>7, <1>8

\* What a chain answers: the first of its classifiers that has an answer decides.
LEMMA ChainEarns ==
  ASSUME NEW T, "nul" \in T, NEW parts \in Seq(Seq(T)),
         NEW all, Len(all) \in Nat, DOMAIN all = 1 .. Len(all),
         \A m \in 1 .. Len(all) :
            /\ all[m] \in Seq(ProjectRule) /\ DeclaresNoJoin(all[m])
            /\ \A i \in DOMAIN all[m] : all[m][i].project # Unknown
  PROVE  \E n \in 1 .. Len(all) + 1 :
            /\ \A m \in 1 .. n - 1 : Certain(all[m], parts) = {}
            /\ IF n > Len(all) THEN Chained(all, parts) = Unknown
               ELSE /\ Chained(all, parts) \in Standing(all[n], parts)
                    /\ \A q \in StandingFirst(all[n], parts) \ {Chained(all, parts)} :
                          PriorityOf(all[n], q) < PriorityOf(all[n], Chained(all, parts))
<1> DEFINE text == Join(parts)
           answered == {n \in DOMAIN all : ClassifyText(all[n], text) # Unknown}
           tagged == Chained(all, parts)
           len == Len(all)
<1>1. tagged = IF answered = {} THEN Unknown ELSE ClassifyText(all[Min(answered)], text)
  BY DEF Chained
<1>2. ASSUME NEW m \in 1 .. len
      PROVE  /\ ClassifyText(all[m], text) # Unknown =>
                   /\ ClassifyText(all[m], text) \in Standing(all[m], parts)
                   /\ \A q \in StandingFirst(all[m], parts) \ {ClassifyText(all[m], text)} :
                         PriorityOf(all[m], q) < PriorityOf(all[m], ClassifyText(all[m], text))
             /\ ClassifyText(all[m], text) = Unknown => Certain(all[m], parts) = {}
  <2> DEFINE ruleSet == all[m]
  <2>1. /\ ruleSet \in Seq(ProjectRule) /\ DeclaresNoJoin(ruleSet)
        /\ \A i \in DOMAIN ruleSet : ruleSet[i].project # Unknown
    OBVIOUS
  <2>2. "nul" \in T /\ parts \in Seq(Seq(T))
    OBVIOUS
  <2> HIDE DEF ruleSet
  <2>3. LET answer == ClassifyText(ruleSet, Join(parts)) IN
        /\ answer # Unknown =>
              /\ answer \in Standing(ruleSet, parts)
              /\ \A q \in StandingFirst(ruleSet, parts) \ {answer} :
                    PriorityOf(ruleSet, q) < PriorityOf(ruleSet, answer)
        /\ answer = Unknown => Certain(ruleSet, parts) = {}
    BY ONLY <2>1, <2>2, ClassifierEarns
  <2> QED BY <2>3 DEF ruleSet
<1>3. /\ answered \in SUBSET (1 .. len) /\ \A n \in answered : ClassifyText(all[n], text) # Unknown
      /\ \A n \in 1 .. len : n \notin answered => ClassifyText(all[n], text) = Unknown
  OBVIOUS
<1>4. len \in Nat
  OBVIOUS
<1> HIDE DEF text, answered, tagged, len
<1>5. CASE answered = {}
  <2>1. len + 1 \in 1 .. len + 1 /\ len + 1 > len /\ (len + 1) - 1 = len
    BY ONLY <1>4
  <2>2. tagged = Unknown
    BY <1>1, <1>5
  <2>3. \A m \in 1 .. len : Certain(all[m], parts) = {}
    BY <1>2, <1>3, <1>5
  <2> DEFINE n == len + 1
  <2>4. n \in 1 .. len + 1 /\ n > len /\ \A m \in 1 .. n - 1 : Certain(all[m], parts) = {}
    BY <2>1, <2>3
  <2> HIDE DEF n
  <2> QED BY <2>2, <2>4 DEF len, tagged
<1>6. CASE answered # {}
  <2> DEFINE n == Min(answered)
  <2>1. answered \in SUBSET Nat
    BY <1>3, <1>4
  <2>2. n \in answered /\ \A k \in answered : n <= k
    BY <1>6, <2>1, MinOf
  <2>3. tagged = ClassifyText(all[n], text)
    BY <1>1, <1>6
  <2> HIDE DEF n
  <2>4. n \in 1 .. len /\ n \in 1 .. len + 1 /\ ~(n > len)
    <3>1. n \in 1 .. len
      BY <1>3, <2>2
    <3> QED BY ONLY <1>4, <3>1
  <2>5. ASSUME NEW m \in 1 .. n - 1 PROVE Certain(all[m], parts) = {}
    <3>1. m \in 1 .. len /\ ~(n <= m)
      BY ONLY <1>4, <2>4, m \in 1 .. n - 1
    <3>2. m \notin answered
      BY <2>2, <3>1
    <3> QED BY <1>2, <1>3, <3>1, <3>2
  <2>6. /\ tagged \in Standing(all[n], parts)
        /\ \A q \in StandingFirst(all[n], parts) \ {tagged} : PriorityOf(all[n], q) < PriorityOf(all[n], tagged)
    BY <1>2, <1>3, <2>2, <2>3, <2>4
  <2> QED BY <2>4, <2>5, <2>6 DEF len, tagged
<1> QED BY <1>5, <1>6

----------------------------------------------------------------------------
(* The tag of a conversation *)

\* What the classifier reads is made of.
Character == Atoms \cup {"nl", "-", " ", "key", ":", "nul"}

\* Sequences of characters come to one.
LEMMA FlatIsSeq ==
  ASSUME NEW T, NEW n \in Nat, NEW seqs, seqs \in [1 .. n -> Seq(T)]
  PROVE  FlattenSeq(seqs) \in Seq(T)
<1>1. Len(seqs) = n
  BY FunctionIsSeq
<1>2. CASE n = 0
  <2>1. seqs = <<>>
    BY <1>2
  <2>2. FlattenSeq(seqs) = <<>>
    BY <1>1, <1>2, <2>1 DEF FlattenSeq
  <2>3. <<>> \in Seq(T)
    OBVIOUS
  <2> QED BY <2>2, <2>3
<1>3. CASE n # 0
  <2>1. \E f : Joins(f, seqs, n)
    BY JoinsExists
  <2> DEFINE h == CHOOSE f : f = [i \in 1 .. n |-> IF i = 1 THEN seqs[i] ELSE f[i - 1] \o seqs[i]]
  <2>2. Joins(h, seqs, n)
    BY <2>1 DEF Joins
  <2>3. FlattenSeq(seqs) = h[n]
    BY <1>1, <1>3, <2>2 DEF FlattenSeq
  <2> HIDE DEF h
  <2> DEFINE Bad == {i \in 1 .. n : h[i] \notin Seq(T)}
  <2>4. ASSUME Bad # {} PROVE FALSE
    <3>1. Bad \in SUBSET Nat
      OBVIOUS
    <3>2. PICK i \in Bad : \A k \in Bad : i <= k
      <4> HIDE DEF Bad
      <4> QED BY <2>4, <3>1, HasLeast
    <3>3. i \in 1 .. n /\ h[i] \notin Seq(T) /\ seqs[i] \in Seq(T)
      BY <3>2
    <3>4. h[i] = IF i = 1 THEN seqs[i] ELSE h[i - 1] \o seqs[i]
      BY <2>2, <3>3, JoinsAt
    <3>5. i # 1
      BY <3>3, <3>4
    <3>6. i - 1 \in 1 .. n /\ ~(i <= i - 1)
      BY <3>3, <3>5
    <3>7. h[i - 1] \in Seq(T)
      <4>1. i - 1 \notin Bad
        <5> HIDE DEF Bad
        <5> QED BY <3>2, <3>6
      <4> QED BY <3>6, <4>1
    <3>8. h[i - 1] \o seqs[i] \in Seq(T)
      BY ONLY <3>3, <3>7, ConcatProperties
    <3> QED BY <3>3, <3>4, <3>5, <3>8
  <2>5. n \in 1 .. n
    BY <1>3
  <2> QED BY <2>3, <2>4, <2>5
<1> QED BY <1>2, <1>3

\* Sequences of none, one and two.
LEMMA ShortSequences ==
  ASSUME NEW T
  PROVE  /\ <<>> \in Seq(T)
         /\ \A a \in T : <<a>> \in Seq(T)
         /\ \A a, b \in T : <<a, b>> \in Seq(T)
OBVIOUS

\* The characters of a field.
LEMMA CharactersAre ==
  ASSUME NEW text \in Seq(Line)
  PROVE  Characters(text) \in Seq(Character)
<1> DEFINE T == Character
           Start(l) == IF l = 1 THEN <<>> ELSE <<"nl">>
           Bullet(l) == IF text[l].item THEN <<"-", " ">> ELSE <<>>
           Named(l) == IF text[l].key = None THEN <<>> ELSE <<"key", ":">>
           seqs == [l \in DOMAIN text |-> Start(l) \o Bullet(l) \o Named(l) \o text[l].value]
<1>1. Len(text) \in Nat /\ DOMAIN text = 1 .. Len(text) /\ \A l \in 1 .. Len(text) : text[l] \in Line
  OBVIOUS
<1>2. /\ <<>> \in Seq(T) /\ <<"nl">> \in Seq(T) /\ <<"-", " ">> \in Seq(T) /\ <<"key", ":">> \in Seq(T)
  <2>1. "nl" \in T /\ "-" \in T /\ " " \in T /\ "key" \in T /\ ":" \in T
    BY DEF Character
  <2> HIDE DEF T
  <2> QED BY ONLY <2>1, ShortSequences
<1>3. ASSUME NEW l \in 1 .. Len(text) PROVE Start(l) \o Bullet(l) \o Named(l) \o text[l].value \in Seq(T)
  <2> DEFINE a == Start(l)
             b == Bullet(l)
             c == Named(l)
             d == text[l].value
  <2>1. a \in Seq(T) /\ b \in Seq(T) /\ c \in Seq(T)
    BY <1>2
  <2>2. d \in Seq(Atoms)
    <3>1. text[l] \in Line
      BY <1>1
    <3> QED BY <3>1 DEF Line
  <2>3. d \in Seq(T)
    <3>1. Atoms \subseteq T
      BY DEF Character
    <3> HIDE DEF d, T
    <3> QED BY <2>2, <3>1
  <2> HIDE DEF a, b, c, d, T
  <2>4. a \o b \o c \o d \in Seq(T)
    BY <2>1, <2>3
  <2> QED BY <2>4 DEF a, b, c, d
<1>4. Characters(text) = FlattenSeq(seqs)
  BY DEF Characters
<1>5. seqs \in [1 .. Len(text) -> Seq(T)]
  BY <1>1, <1>3
<1> HIDE DEF seqs
<1> QED BY <1>1, <1>4, <1>5, FlatIsSeq

\* The fields that are there, as the classifier reads them.
LEMMA PartsAre ==
  ASSUME NEW c \in [ToSet(Fields) -> {None} \cup Seq(Line)]
  PROVE  Parts(c) \in Seq(Seq(Character))
<1> DEFINE S == {i \in DOMAIN Fields : c[Fields[i]] # None}
           there == Ascending(S)
           n == Cardinality(S)
<1>1. DOMAIN Fields = 1 .. 6
  BY DEF Fields
<1>2. S \in SUBSET (1 .. 6) /\ \A i \in S : c[Fields[i]] # None
  BY <1>1
<1>3. Parts(c) = [k \in DOMAIN there |-> Characters(c[Fields[there[k]]])]
  BY DEF Parts
<1> HIDE DEF S
<1>4. IsFiniteSet(S) /\ S \in SUBSET Nat
  <2> DEFINE six == 1 .. 6
  <2>1. IsFiniteSet(six)
    <3>1. 1 \in Int /\ 6 \in Int
      OBVIOUS
    <3> QED BY ONLY <3>1, FS_Interval
  <2>2. S \in SUBSET six /\ six \in SUBSET Nat
    BY <1>2
  <2> HIDE DEF six
  <2>3. IsFiniteSet(S)
    BY ONLY <2>1, <2>2, FS_Subset
  <2> QED BY <2>2, <2>3
<1>5. n \in Nat /\ DOMAIN there = 1 .. n /\ \A k \in 1 .. n : there[k] \in S
  BY <1>4, AscendingLists
<1> HIDE DEF there, n
<1>6. ASSUME NEW k \in 1 .. n PROVE Characters(c[Fields[there[k]]]) \in Seq(Character)
  <2>1. there[k] \in S /\ there[k] \in 1 .. 6
    BY <1>2, <1>5
  <2>2. c[Fields[there[k]]] \in Seq(Line)
    BY <1>2, <2>1, FieldsAre
  <2> QED BY <2>2, CharactersAre
<1>7. Parts(c) \in [1 .. n -> Seq(Character)]
  BY <1>3, <1>5, <1>6
<1> QED BY <1>5, <1>7, FunctionIsSeq

\* The rules of a run are those of a file that loads, and the tag is the answer of
\* the chain to what was returned.
TagInv ==
    /\ configured \in RuleFiles
    /\ rules = <<>> \/ (Loads(configured) /\ rules = RulesOf(configured))
    /\ phase = "done" => tag = Chained(<<rules>> \o Fallbacks, Parts(prepared))

LEMMA TagInitial == InitPreparation => TagInv
BY DEF InitPreparation, TagInv

LEMMA TagInductive == TagInv /\ [NextPreparation]_vars => TagInv'
<1> SUFFICES ASSUME TagInv, [NextPreparation]_vars PROVE TagInv'
  OBVIOUS
<1>1. CASE Load
  BY <1>1 DEF Load, TagInv
<1>2. CASE RefuseRules \/ Untouched \/ Scan \/ ScanFails \/ Rewrite \/ Sanitized
  BY <1>2 DEF RefuseRules, Untouched, Scan, ScanFails, Rewrite, Sanitized, TagInv
<1>3. CASE MergeStep
  BY <1>3 DEF MergeStep, own, TagInv
<1>4. CASE Classify
  BY <1>4 DEF Classify, TagInv
<1>5. CASE UNCHANGED vars
  BY <1>5 DEF vars, own, TagInv
<1> QED BY <1>1, <1>2, <1>3, <1>4, <1>5 DEF NextPreparation, Over

\* None of the rule sets a run may have declares an alias with the join in it.
AliasesHoldNoJoin ==
    /\ \A file \in RuleFiles : DeclaresNoJoin(RulesOf(file))
    /\ \A n \in DOMAIN Fallbacks : DeclaresNoJoin(Fallbacks[n])

\* The classifiers of a run.
LEMMA ChainIs ==
  ASSUME TagInv, AliasesHoldNoJoin, NEW all, all = <<rules>> \o Fallbacks
  PROVE  /\ Len(all) \in Nat /\ DOMAIN all = 1 .. Len(all)
         /\ \A m \in 1 .. Len(all) :
               /\ all[m] \in Seq(ProjectRule) /\ DeclaresNoJoin(all[m])
               /\ \A i \in DOMAIN all[m] : all[m][i].project # Unknown
<1> DEFINE RuleSets == {rs \in Seq(ProjectRule) : RuleSetValid(rs) /\ DeclaresNoJoin(rs)}
<1>1. rules \in RuleSets
  <2>1. RuleSetValid(<<>>) /\ DeclaresNoJoin(<<>>) /\ <<>> \in Seq(ProjectRule)
    BY DEF RuleSetValid, DeclaresNoJoin
  <2>2. CASE rules = <<>>
    BY <2>1, <2>2
  <2>3. CASE Loads(configured) /\ rules = RulesOf(configured)
    <3>1. configured \in RuleFiles /\ configured.rules \in Seq(ProjectRule) /\ DeclaresNoJoin(rules)
      BY <2>3, PreparationAssumption DEF TagInv, AliasesHoldNoJoin
    <3>2. CASE configured.state = "document"
      BY <2>3, <3>1, <3>2 DEF Loads, RulesOf
    <3>3. CASE configured.state # "document"
      BY <2>1, <2>3, <3>3 DEF RulesOf
    <3> QED BY <3>2, <3>3
  <2> QED BY <2>2, <2>3 DEF TagInv
<1>2. Fallbacks \in Seq(RuleSets)
  <2>1. Fallbacks \in Seq({rs \in Seq(ProjectRule) : RuleSetValid(rs)})
    BY PreparationAssumption
  <2>2. Len(Fallbacks) \in Nat /\ DOMAIN Fallbacks = 1 .. Len(Fallbacks)
    BY <2>1
  <2>3. \A n \in 1 .. Len(Fallbacks) : Fallbacks[n] \in RuleSets
    BY <2>1, <2>2 DEF AliasesHoldNoJoin
  <2>4. Fallbacks \in [1 .. Len(Fallbacks) -> RuleSets]
    <3>1. Fallbacks = [n \in 1 .. Len(Fallbacks) |-> Fallbacks[n]]
      BY <2>1
    <3> HIDE DEF RuleSets
    <3> QED BY <2>3, <3>1
  <2> HIDE DEF RuleSets
  <2> QED BY <2>2, <2>4, FunctionIsSeq
<1>3. \A rs \in RuleSets : rs \in Seq(ProjectRule) /\ DeclaresNoJoin(rs) /\ \A i \in DOMAIN rs : rs[i].project # Unknown
  BY DEF RuleSetValid, RuleValid
<1> HIDE DEF RuleSets
<1>4. <<rules>> \in Seq(RuleSets)
  BY <1>1
<1>5. all \in Seq(RuleSets)
  BY ONLY <1>2, <1>4, all = <<rules>> \o Fallbacks, ConcatProperties
<1>6. Len(all) \in Nat /\ DOMAIN all = 1 .. Len(all) /\ \A m \in 1 .. Len(all) : all[m] \in RuleSets
  BY <1>5
<1> QED BY <1>3, <1>6

\* A tag rests on an alias that stands as a word inside one field, with a priority
\* above every other that has no rival there; no earlier classifier of the chain was
\* certain, and unknown is the answer only when none was (AM-2, AM-7, AR-3, AR-4).
THEOREM TagsAreEarned == AliasesHoldNoJoin => (Preparing => []TagIsEarned)
<1>1. ASSUME AliasesHoldNoJoin, PrepInv, TagInv PROVE TagIsEarned
  <2> SUFFICES ASSUME phase = "done"
               PROVE  LET all == <<rules>> \o Fallbacks
                          parts == Parts(prepared)
                      IN  \E n \in 1 .. Len(all) + 1 :
                            /\ \A m \in 1 .. n - 1 : Certain(all[m], parts) = {}
                            /\ IF n > Len(all) THEN tag = Unknown
                               ELSE /\ tag \in Standing(all[n], parts)
                                    /\ \A q \in StandingFirst(all[n], parts) \ {tag} :
                                          PriorityOf(all[n], q) < PriorityOf(all[n], tag)
    BY DEF TagIsEarned
  <2> DEFINE all == <<rules>> \o Fallbacks
             parts == Parts(prepared)
             T == Character
  <2>1. prepared \in [ToSet(Fields) -> {None} \cup Seq(Line)]
    BY <1>1 DEF PrepInv, ReturnInv, FormInv
  <2>2. parts \in Seq(Seq(T)) /\ "nul" \in T
    <3>1. "nul" \in Character
      BY DEF Character
    <3> QED BY <2>1, <3>1, PartsAre
  <2>3. tag = Chained(all, parts)
    BY <1>1 DEF TagInv
  <2>4. /\ Len(all) \in Nat /\ DOMAIN all = 1 .. Len(all)
        /\ \A m \in 1 .. Len(all) :
              /\ all[m] \in Seq(ProjectRule) /\ DeclaresNoJoin(all[m])
              /\ \A i \in DOMAIN all[m] : all[m][i].project # Unknown
    <3> DEFINE every == all
    <3>1. every = <<rules>> \o Fallbacks
      OBVIOUS
    <3> HIDE DEF every
    <3>2. /\ Len(every) \in Nat /\ DOMAIN every = 1 .. Len(every)
          /\ \A m \in 1 .. Len(every) :
                /\ every[m] \in Seq(ProjectRule) /\ DeclaresNoJoin(every[m])
                /\ \A i \in DOMAIN every[m] : every[m][i].project # Unknown
      BY ONLY <1>1, <3>1, ChainIs
    <3> QED BY <3>2 DEF every
  <2> HIDE DEF all, parts, T
  <2>5. \E n \in 1 .. Len(all) + 1 :
           /\ \A m \in 1 .. n - 1 : Certain(all[m], parts) = {}
           /\ IF n > Len(all) THEN Chained(all, parts) = Unknown
              ELSE /\ Chained(all, parts) \in Standing(all[n], parts)
                   /\ \A q \in StandingFirst(all[n], parts) \ {Chained(all, parts)} :
                         PriorityOf(all[n], q) < PriorityOf(all[n], Chained(all, parts))
    BY ONLY <2>2, <2>4, ChainEarns
  <2> QED BY <2>3, <2>5 DEF all, parts
<1> SUFFICES ASSUME AliasesHoldNoJoin PROVE Preparing => []TagIsEarned
  OBVIOUS
<1>2. PrepInv /\ TagInv => TagIsEarned
  BY <1>1
<1> QED BY <1>2, PrepInitial, PrepInductive, TagInitial, TagInductive, PTL DEF Preparing
==============================================================================
