-------------------------- MODULE ExportReaderProofs --------------------------
(***************************************************************************)
(* The reader of an export and the conversion of its records, for every    *)
(* set of exports, every graph of a record and every number of files.      *)
(* What recursion there is in the definitions (FlattenSeq, Ancestors) is   *)
(* over positions and rounds, and every set of natural numbers has a least *)
(* member (HasLeast); so the facts about it need no induction scheme.      *)
(*                                                                         *)
(*   1. Sequences of sequences: what FlattenSeq returns.                   *)
(*   2. Graphs, trees and the thread: the ancestors of a node are the ways *)
(*      from a root to it; the walk of _validate tells a tree (WalkState); *)
(*      the last children lead to the displayed node (Lastborn).           *)
(*   3. The conversion, stage by stage (ConversionInv).                    *)
(*   4. The answers: there is one order of the files, and what has been    *)
(*      given and what is still to be found are together all that is due   *)
(*      (ReaderInv).                                                       *)
(***************************************************************************)
EXTENDS ExportReader, SequenceTheorems, FiniteSetTheorems, WellFoundedInduction, TLAPS

\* Every nonempty set of natural numbers has a least member.
LEMMA HasLeast ==
  ASSUME NEW S \in SUBSET Nat, S # {}
  PROVE  \E n \in S : \A m \in S : n <= m
<1> DEFINE Below == OpToRel(<, Nat)
<1>1. IsWellFoundedOn(Below, Nat)
  BY NatLessThanWellFounded
<1>2. \A m, n \in Nat : m < n => <<m, n>> \in Below
  BY DEF OpToRel
<1> HIDE DEF Below
<1>3. PICK n \in S : \A m \in S : ~ (<<m, n>> \in Below)
  BY <1>1, WFMin
<1>4. \A m \in S : ~(m < n)
  BY <1>2, <1>3, Zenon
<1> QED
  BY <1>4

-----------------------------------------------------------------------------
(* Sequences of sequences *)

\* f has the first n of a sequence of sequences put together.
Flattens(f, seqs, n) ==
    f = [i \in 1 .. n |-> IF i = 1 THEN seqs[i] ELSE f[i - 1] \o seqs[i]]

\* Its values.
LEMMA FlattensAt ==
  ASSUME NEW f, NEW seqs, NEW n, Flattens(f, seqs, n), NEW i \in 1 .. n
  PROVE  f[i] = IF i = 1 THEN seqs[i] ELSE f[i - 1] \o seqs[i]
<1> DEFINE g == [j \in 1 .. n |-> IF j = 1 THEN seqs[j] ELSE f[j - 1] \o seqs[j]]
<1>1. g[i] = IF i = 1 THEN seqs[i] ELSE f[i - 1] \o seqs[i]
  OBVIOUS
<1>2. f = g
  BY DEF Flattens
<1> HIDE DEF g
<1> QED
  BY <1>1, <1>2

\* There is such a function,
LEMMA FlattensExists ==
  ASSUME NEW seqs, NEW n \in Nat
  PROVE  \E f : Flattens(f, seqs, n)
<1> DEFINE Bad == {m \in Nat : ~ \E f : Flattens(f, seqs, m)}
<1> SUFFICES ASSUME Bad # {} PROVE FALSE
  OBVIOUS
<1>1. PICK m \in Bad : \A k \in Bad : m <= k
  BY HasLeast
<1>2. m \in Nat /\ ~ \E f : Flattens(f, seqs, m)
  BY <1>1
<1>3. CASE m = 0
  <2> DEFINE f == [i \in 1 .. 0 |-> {}]
  <2>1. f = [i \in 1 .. 0 |-> IF i = 1 THEN seqs[i] ELSE f[i - 1] \o seqs[i]]
    OBVIOUS
  <2> QED
    BY <1>2, <1>3, <2>1 DEF Flattens
<1>4. CASE m # 0
  <2>1. m - 1 \in Nat /\ ~(m <= m - 1)
    BY <1>2, <1>4
  <2>2. m - 1 \notin Bad
    BY <1>1, <2>1
  <2>3. PICK f : Flattens(f, seqs, m - 1)
    BY <2>1, <2>2
  <2> DEFINE g == [i \in 1 .. m |-> IF i = 1 THEN seqs[i] ELSE f[i - 1] \o seqs[i]]
  <2>4. \A i \in 1 .. m - 1 : g[i] = f[i]
    <3>1. \A i \in 1 .. m - 1 : i \in 1 .. m
      BY <2>1
    <3>2. \A i \in 1 .. m - 1 : f[i] = IF i = 1 THEN seqs[i] ELSE f[i - 1] \o seqs[i]
      BY <2>3, FlattensAt
    <3> QED
      BY <3>1, <3>2
  <2>5. \A i \in 1 .. m : i # 1 => i - 1 \in 1 .. m - 1
    BY <2>1
  <2>6. g = [i \in 1 .. m |-> IF i = 1 THEN seqs[i] ELSE g[i - 1] \o seqs[i]]
    BY <2>4, <2>5
  <2> QED
    BY <1>2, <2>6 DEF Flattens
<1> QED
  BY <1>3, <1>4

\* and two of them agree as far as both go.
LEMMA FlattensAgree ==
  ASSUME NEW seqs, NEW more, NEW n \in Nat, NEW f, NEW g,
         \A i \in 1 .. n : more[i] = seqs[i],
         Flattens(f, seqs, n), Flattens(g, more, n + 1)
  PROVE  \A i \in 1 .. n : f[i] = g[i]
<1> DEFINE Bad == {i \in 1 .. n : f[i] # g[i]}
<1> SUFFICES ASSUME Bad # {} PROVE FALSE
  OBVIOUS
<1>1. Bad \in SUBSET Nat
  OBVIOUS
<1>2. PICK i \in Bad : \A k \in Bad : i <= k
  BY <1>1, HasLeast
<1>3. i \in 1 .. n /\ i \in 1 .. n + 1 /\ f[i] # g[i]
  BY <1>2
<1>4. /\ f[i] = IF i = 1 THEN seqs[i] ELSE f[i - 1] \o seqs[i]
      /\ g[i] = IF i = 1 THEN more[i] ELSE g[i - 1] \o more[i]
  BY <1>3, FlattensAt
<1>5. i # 1 /\ i - 1 \in 1 .. n /\ ~(i <= i - 1)
  BY <1>3, <1>4
<1>6. i - 1 \notin Bad
  BY <1>2, <1>5
<1>7. f[i - 1] = g[i - 1]
  BY <1>5, <1>6
<1> QED
  BY <1>3, <1>4, <1>7

\* FlattenSeq is the last value of such a function.
LEMMA FlattenIs ==
  ASSUME NEW seqs, Len(seqs) \in Nat \ {0}
  PROVE  \E f : Flattens(f, seqs, Len(seqs)) /\ FlattenSeq(seqs) = f[Len(seqs)]
<1>1. \E f : Flattens(f, seqs, Len(seqs))
  BY FlattensExists
<1> DEFINE h == CHOOSE f : f = [i \in 1 .. Len(seqs) |-> IF i = 1 THEN seqs[i] ELSE f[i - 1] \o seqs[i]]
<1>2. Flattens(h, seqs, Len(seqs))
  BY <1>1 DEF Flattens
<1>3. FlattenSeq(seqs) = h[Len(seqs)]
  BY DEF FlattenSeq
<1> QED
  BY <1>2, <1>3

\* One more sequence comes behind the others.
LEMMA FlattenMore ==
  ASSUME NEW S, NEW seqs \in Seq(Seq(S)), NEW one \in Seq(S)
  PROVE  FlattenSeq(Append(seqs, one)) = FlattenSeq(seqs) \o one
<1> DEFINE more == Append(seqs, one)
           n == Len(seqs)
<1>1. /\ n \in Nat /\ Len(more) = n + 1 /\ more[n + 1] = one
      /\ \A i \in 1 .. n : more[i] = seqs[i]
  OBVIOUS
<1> HIDE DEF more, n
<1>2. PICK g : Flattens(g, more, n + 1) /\ FlattenSeq(more) = g[n + 1]
  BY <1>1, FlattenIs
<1>3. g[n + 1] = IF n + 1 = 1 THEN one ELSE g[n] \o one
  <2>1. n + 1 \in 1 .. n + 1 /\ n + 1 - 1 = n
    BY <1>1
  <2> QED
    BY <1>1, <1>2, <2>1, FlattensAt
<1>4. CASE n = 0
  <2>1. seqs = <<>> /\ FlattenSeq(seqs) = seqs
    BY <1>4 DEF FlattenSeq, n
  <2>2. <<>> \o one = one
    BY ConcatEmptySeq
  <2> QED
    BY <1>2, <1>3, <1>4, <2>1, <2>2 DEF more
<1>5. CASE n # 0
  <2>1. PICK f : Flattens(f, seqs, n) /\ FlattenSeq(seqs) = f[n]
    BY <1>1, <1>5, FlattenIs DEF n
  <2>2. \A i \in 1 .. n : f[i] = g[i]
    <3>1. n \in Nat /\ \A i \in 1 .. n : more[i] = seqs[i]
      BY <1>1
    <3>2. Flattens(f, seqs, n) /\ Flattens(g, more, n + 1)
      BY <1>2, <2>1
    <3> QED
      BY ONLY <3>1, <3>2, FlattensAgree
  <2>3. f[n] = g[n] /\ n + 1 # 1
    BY <1>1, <1>5, <2>2
  <2> QED
    BY <1>2, <1>3, <2>1, <2>3 DEF more
<1> QED
  BY <1>4, <1>5

\* The beginnings of a sequence are sequences, each the one before it and one more.
LEMMA Beginnings ==
  ASSUME NEW T, NEW seq \in Seq(T), NEW n \in 1 .. Len(seq)
  PROVE  /\ SubSeq(seq, 1, n - 1) \in Seq(T)
         /\ seq[n] \in T
         /\ SubSeq(seq, 1, n) = Append(SubSeq(seq, 1, n - 1), seq[n])
<1>1. Len(seq) \in Nat /\ 1 \in 1 .. Len(seq) /\ n \in Int /\ n - 1 \in Int
  BY LenProperties
<1>2. \A i \in 1 .. n - 1 : seq[i] \in T
  BY <1>1, ElementOfSeq
<1>3. SubSeq(seq, 1, n - 1) \in Seq(T)
  BY <1>1, <1>2, SubSeqProperties
<1>4. seq[n] \in T
  BY ElementOfSeq
<1>5. n \in 1 .. Len(seq)
  OBVIOUS
<1>6. SubSeq(seq, 1, n) = SubSeq(seq, 1, n - 1) \o <<seq[n]>>
  BY <1>1, <1>5, SubSeqRecursiveSecond
<1>7. Append(SubSeq(seq, 1, n - 1), seq[n]) = SubSeq(seq, 1, n - 1) \o <<seq[n]>>
  BY <1>3, <1>4, AppendIsConcat
<1> QED
  BY <1>3, <1>4, <1>6, <1>7

\* What is put together grows by one sequence after the other,
LEMMA FlattenBeginning ==
  ASSUME NEW S, NEW seqs \in Seq(Seq(S)), NEW n \in 1 .. Len(seqs)
  PROVE  FlattenSeq(SubSeq(seqs, 1, n)) = FlattenSeq(SubSeq(seqs, 1, n - 1)) \o seqs[n]
<1>1. /\ SubSeq(seqs, 1, n - 1) \in Seq(Seq(S))
      /\ seqs[n] \in Seq(S)
      /\ SubSeq(seqs, 1, n) = Append(SubSeq(seqs, 1, n - 1), seqs[n])
  <2> DEFINE T == Seq(S)
  <2>1. seqs \in Seq(T)
    OBVIOUS
  <2> HIDE DEF T
  <2>2. /\ SubSeq(seqs, 1, n - 1) \in Seq(T)
        /\ seqs[n] \in T
        /\ SubSeq(seqs, 1, n) = Append(SubSeq(seqs, 1, n - 1), seqs[n])
    BY <2>1, Beginnings
  <2> QED
    BY <2>2 DEF T
<1>2. FlattenSeq(Append(SubSeq(seqs, 1, n - 1), seqs[n])) = FlattenSeq(SubSeq(seqs, 1, n - 1)) \o seqs[n]
  BY <1>1, FlattenMore
<1> QED
  BY <1>1, <1>2

\* and is a sequence of what they hold.
LEMMA FlattenType ==
  ASSUME NEW S, NEW seqs \in Seq(Seq(S))
  PROVE  FlattenSeq(seqs) \in Seq(S)
<1> DEFINE Bad == {n \in 0 .. Len(seqs) : FlattenSeq(SubSeq(seqs, 1, n)) \notin Seq(S)}
<1>1. Len(seqs) \in Nat
  OBVIOUS
<1>2. SubSeq(seqs, 1, Len(seqs)) = seqs
  BY SubSeqFull
<1>3. FlattenSeq(SubSeq(seqs, 1, 0)) \in Seq(S)
  <2>1. SubSeq(seqs, 1, 0) = <<>>
    BY SubSeqEmpty
  <2>2. FlattenSeq(<<>>) = <<>>
    BY DEF FlattenSeq
  <2>3. <<>> \in Seq(S)
    BY EmptySeq
  <2> QED
    BY <2>1, <2>2, <2>3
<1>4. Bad = {}
  <2> SUFFICES ASSUME Bad # {} PROVE FALSE
    OBVIOUS
  <2>1. Bad \in SUBSET Nat
    BY <1>1
  <2>2. PICK n \in Bad : \A k \in Bad : n <= k
    BY <2>1, HasLeast
  <2>3. n \in 0 .. Len(seqs) /\ FlattenSeq(SubSeq(seqs, 1, n)) \notin Seq(S)
    BY <2>2
  <2>4. n # 0
    BY <1>3, <2>3
  <2>5. n \in 1 .. Len(seqs) /\ n - 1 \in 0 .. Len(seqs) /\ ~(n <= n - 1)
    BY <1>1, <2>3, <2>4
  <2>6. FlattenSeq(SubSeq(seqs, 1, n - 1)) \in Seq(S)
    BY <2>2, <2>5
  <2>7. seqs[n] \in Seq(S)
    BY <2>5
  <2>8. FlattenSeq(SubSeq(seqs, 1, n)) = FlattenSeq(SubSeq(seqs, 1, n - 1)) \o seqs[n]
    BY <2>5, FlattenBeginning
  <2>9. FlattenSeq(SubSeq(seqs, 1, n - 1)) \o seqs[n] \in Seq(S)
    BY <2>6, <2>7, ConcatProperties
  <2> QED
    BY <2>3, <2>8, <2>9
<1>5. Len(seqs) \in 0 .. Len(seqs)
  BY <1>1
<1>6. FlattenSeq(SubSeq(seqs, 1, Len(seqs))) \in Seq(S)
  BY <1>4, <1>5
<1> QED
  BY <1>2, <1>6

-----------------------------------------------------------------------------
(* Graphs *)

\* The first k of c lead from a root down, each the parent of the next.
Rooted(g, c, k) ==
    /\ k \in Nat \ {0}
    /\ \A i \in 1 .. k : c[i] \in DOMAIN g
    /\ g[c[1]].parent = None
    /\ \A i \in 2 .. k : g[c[i]].parent = c[i - 1]

\* No node is met twice on the way,
LEMMA RootedOnce ==
  ASSUME NEW g, None \notin DOMAIN g, NEW c, NEW k, Rooted(g, c, k)
  PROVE  \A i, j \in 1 .. k : c[i] = c[j] => i = j
<1> DEFINE Bad == {i \in 1 .. k : \E j \in 1 .. k : i < j /\ c[i] = c[j]}
<1>0. k \in Nat
  BY DEF Rooted
<1>1. Bad = {}
  <2> SUFFICES ASSUME Bad # {} PROVE FALSE
    OBVIOUS
  <2>1. Bad \in SUBSET Nat
    BY <1>0
  <2>2. PICK i \in Bad : \A m \in Bad : i <= m
    BY <2>1, HasLeast
  <2>3. PICK j \in 1 .. k : i < j /\ c[i] = c[j]
    BY <2>2
  <2>4. i \in 1 .. k
    BY <2>2
  <2>5. j \in 2 .. k /\ j - 1 \in 1 .. k
    BY <1>0, <2>3, <2>4
  <2>6. g[c[j]].parent = c[j - 1] /\ c[j - 1] \in DOMAIN g
    BY <2>5 DEF Rooted
  <2>7. i # 1
    BY <2>3, <2>6 DEF Rooted
  <2>8. i \in 2 .. k /\ i - 1 \in 1 .. k /\ i - 1 < j - 1 /\ ~(i <= i - 1)
    BY <1>0, <2>3, <2>4, <2>5, <2>7
  <2>9. g[c[i]].parent = c[i - 1]
    BY <2>8 DEF Rooted
  <2>10. c[i - 1] = c[j - 1]
    BY <2>3, <2>6, <2>9
  <2>11. i - 1 \in Bad
    BY <2>5, <2>8, <2>10
  <2> QED
    BY <2>2, <2>8, <2>11
<1>2. ASSUME NEW i \in 1 .. k, NEW j \in 1 .. k, c[i] = c[j], i # j
      PROVE  FALSE
  <2>1. i < j \/ j < i
    BY <1>0, <1>2
  <2> QED
    BY <1>1, <1>2, <2>1
<1> QED
  BY <1>2

\* so that it is no longer than the graph, and has as many nodes as steps.
LEMMA RootedCount ==
  ASSUME NEW g, IsFiniteSet(DOMAIN g), None \notin DOMAIN g, NEW c, NEW k, Rooted(g, c, k)
  PROVE  /\ k <= Cardinality(DOMAIN g)
         /\ Cardinality({c[i] : i \in 1 .. k}) = k
<1> DEFINE f == [i \in 1 .. k |-> c[i]]
           T == {c[i] : i \in 1 .. k}
<1>0. k \in Nat /\ k >= 1
  BY DEF Rooted
<1>1. \A i, j \in 1 .. k : c[i] = c[j] => i = j
  BY RootedOnce
<1>2. f \in Injection(1 .. k, DOMAIN g)
  <2>1. \A i \in 1 .. k : c[i] \in DOMAIN g
    BY DEF Rooted
  <2>2. f \in [1 .. k -> DOMAIN g]
    BY <2>1
  <2>3. \A i, j \in 1 .. k : f[i] = f[j] => i = j
    BY <1>1
  <2> HIDE DEF f
  <2> QED
    BY <2>2, <2>3 DEF Injection, IsInjective
<1>3. Cardinality(1 .. k) <= Cardinality(DOMAIN g)
  BY <1>2, FS_Injection
<1>4. Cardinality(1 .. k) = k
  <2>1. 1 \in Int /\ k \in Int /\ ~(1 > k)
    BY <1>0
  <2> QED
    BY <1>0, <2>1, FS_Interval
<1>5. f \in Bijection(1 .. k, T)
  <2>1. f \in [1 .. k -> T]
    OBVIOUS
  <2>2. \A i, j \in 1 .. k : f[i] = f[j] => i = j
    BY <1>1
  <2>3. \A t \in T : \E i \in 1 .. k : f[i] = t
    OBVIOUS
  <2> HIDE DEF f, T
  <2> QED
    BY <2>1, <2>2, <2>3 DEF Bijection, Injection, Surjection, IsInjective
<1>6. Cardinality(T) = k
  BY <1>0, <1>5, FS_CountingElements DEF ExistsBijection
<1> QED
  BY <1>3, <1>4, <1>6

\* Some nodes and their parents.
WithParents(g, nodes) == nodes \cup ({g[m].parent : m \in nodes \cap DOMAIN g} \ {None})

\* f has the first rounds of the ancestors of n.
Rises(f, g, n, rounds) ==
    f = [k \in 0 .. rounds |->
            IF k = 0 THEN {n}
            ELSE WithParents(g, f[k - 1])]

\* Its values.
LEMMA RisesAt ==
  ASSUME NEW f, NEW g, NEW n, NEW rounds, Rises(f, g, n, rounds), NEW k \in 0 .. rounds
  PROVE  /\ k = 0 => f[k] = {n}
         /\ k # 0 => f[k] = WithParents(g, f[k - 1])
<1> DEFINE h == [i \in 0 .. rounds |->
                    IF i = 0 THEN {n}
                    ELSE WithParents(g, f[i - 1])]
<1>1. h[k] = IF k = 0 THEN {n}
             ELSE WithParents(g, f[k - 1])
  OBVIOUS
<1>2. f = h
  BY DEF Rises
<1> HIDE DEF h
<1> QED
  BY <1>1, <1>2

\* There is such a function,
LEMMA RisesExists ==
  ASSUME NEW g, NEW n, NEW rounds \in Nat
  PROVE  \E f : Rises(f, g, n, rounds)
<1> DEFINE Bad == {m \in Nat : ~ \E f : Rises(f, g, n, m)}
<1> SUFFICES ASSUME Bad # {} PROVE FALSE
  OBVIOUS
<1>1. PICK m \in Bad : \A k \in Bad : m <= k
  BY HasLeast
<1>2. m \in Nat /\ ~ \E f : Rises(f, g, n, m)
  BY <1>1
<1>3. CASE m = 0
  <2> DEFINE f == [k \in 0 .. 0 |-> {n}]
  <2>1. f = [k \in 0 .. 0 |-> IF k = 0 THEN {n} ELSE WithParents(g, f[k - 1])]
    OBVIOUS
  <2> QED
    BY <1>2, <1>3, <2>1 DEF Rises
<1>4. CASE m # 0
  <2>1. m - 1 \in Nat /\ ~(m <= m - 1)
    BY <1>2, <1>4
  <2>2. m - 1 \notin Bad
    BY <1>1, <2>1
  <2>3. PICK f : Rises(f, g, n, m - 1)
    BY <2>1, <2>2
  <2> DEFINE h == [k \in 0 .. m |-> IF k = 0 THEN {n} ELSE WithParents(g, f[k - 1])]
  <2>4. \A k \in 0 .. m - 1 : h[k] = f[k]
    <3>1. \A k \in 0 .. m - 1 : k \in 0 .. m
      BY <2>1
    <3>2. \A k \in 0 .. m - 1 : /\ k = 0 => f[k] = {n}
                                /\ k # 0 => f[k] = WithParents(g, f[k - 1])
      BY <2>3, RisesAt
    <3> QED
      BY <3>1, <3>2
  <2>5. \A k \in 0 .. m : k # 0 => k - 1 \in 0 .. m - 1
    BY <2>1
  <2>6. h = [k \in 0 .. m |-> IF k = 0 THEN {n} ELSE WithParents(g, h[k - 1])]
    BY <2>4, <2>5
  <2> QED
    BY <1>2, <2>6 DEF Rises
<1> QED
  BY <1>3, <1>4

\* and the ancestors are its last value.
LEMMA AncestorsRise ==
  ASSUME NEW g, NEW n, IsFiniteSet(DOMAIN g)
  PROVE  /\ Cardinality(DOMAIN g) \in Nat
         /\ \E f : /\ Rises(f, g, n, Cardinality(DOMAIN g))
                   /\ Ancestors(g, n) = f[Cardinality(DOMAIN g)]
<1>1. Cardinality(DOMAIN g) \in Nat
  BY FS_CardinalityType
<1>2. \E f : Rises(f, g, n, Cardinality(DOMAIN g))
  BY <1>1, RisesExists
<1> DEFINE h == CHOOSE f : f =
       [k \in 0 .. Cardinality(DOMAIN g) |->
            IF k = 0 THEN {n}
            ELSE f[k - 1] \cup ({g[m].parent : m \in f[k - 1] \cap DOMAIN g} \ {None})]
<1>3. Rises(h, g, n, Cardinality(DOMAIN g))
  BY <1>2 DEF Rises, WithParents
<1>4. Ancestors(g, n) = h[Cardinality(DOMAIN g)]
  BY DEF Ancestors
<1> QED
  BY <1>1, <1>3, <1>4

\* The ancestors stay within any set that holds the node and the parents of its own.
LEMMA AncestorsWithin ==
  ASSUME NEW g, IsFiniteSet(DOMAIN g), NEW W, NEW n \in W,
         \A m \in W \cap DOMAIN g : g[m].parent \in W \cup {None}
  PROVE  Ancestors(g, n) \subseteq W
<1> DEFINE N == Cardinality(DOMAIN g)
<1>1. N \in Nat
  BY AncestorsRise
<1>2. PICK f : Rises(f, g, n, N) /\ Ancestors(g, n) = f[N]
  BY AncestorsRise
<1> HIDE DEF N
<1> DEFINE Bad == {k \in 0 .. N : ~(f[k] \subseteq W)}
<1>3. Bad = {}
  <2> SUFFICES ASSUME Bad # {} PROVE FALSE
    OBVIOUS
  <2>0. Bad \in SUBSET Nat
    BY <1>1
  <2>1. PICK k \in Bad : \A i \in Bad : k <= i
    BY <2>0, HasLeast
  <2>2. k \in 0 .. N /\ ~(f[k] \subseteq W)
    BY <2>1
  <2>3. /\ k = 0 => f[k] = {n}
        /\ k # 0 => f[k] = WithParents(g, f[k - 1])
    BY <1>2, <2>2, RisesAt
  <2>4. k # 0
    BY <2>2, <2>3
  <2>5. k - 1 \in 0 .. N /\ ~(k <= k - 1)
    BY <1>1, <2>2, <2>4
  <2>6. f[k - 1] \subseteq W
    BY <2>1, <2>5
  <2> QED
    BY <2>2, <2>3, <2>4, <2>6 DEF WithParents
<1>4. N \in 0 .. N
  BY <1>1
<1> QED
  BY <1>2, <1>3, <1>4

\* The ancestors of a node on a way from the root are the nodes of the way so far.
LEMMA AncestorsOfRooted ==
  ASSUME NEW g, IsFiniteSet(DOMAIN g), None \notin DOMAIN g,
         NEW c, NEW k, Rooted(g, c, k)
  PROVE  /\ Ancestors(g, c[k]) = {c[i] : i \in 1 .. k}
         /\ Cardinality(Ancestors(g, c[k])) = k
<1> DEFINE N == Cardinality(DOMAIN g)
           T == {c[i] : i \in 1 .. k}
<1>1. N \in Nat
  BY AncestorsRise
<1>2. PICK f : Rises(f, g, c[k], N) /\ Ancestors(g, c[k]) = f[N]
  BY AncestorsRise
<1>3. k <= N /\ Cardinality(T) = k /\ k \in Nat \ {0}
  <2>1. k \in Nat \ {0}
    BY DEF Rooted
  <2> QED
    BY <2>1, RootedCount
<1> HIDE DEF N
<1>4. Ancestors(g, c[k]) \subseteq T
  <2>1. c[k] \in T
    BY <1>3
  <2>2. ASSUME NEW m \in T \cap DOMAIN g
        PROVE  g[m].parent \in T \cup {None}
    <3>1. PICK i \in 1 .. k : m = c[i]
      OBVIOUS
    <3>2. CASE i = 1
      BY <3>1, <3>2 DEF Rooted
    <3>3. CASE i # 1
      <4>1. i \in 2 .. k /\ i - 1 \in 1 .. k
        BY <1>3, <3>3
      <4>2. g[m].parent = c[i - 1]
        BY <3>1, <4>1 DEF Rooted
      <4> QED
        BY <4>1, <4>2
    <3> QED
      BY <3>2, <3>3
  <2> HIDE DEF T
  <2> QED
    BY <2>1, <2>2, AncestorsWithin
<1> DEFINE Bad == {j \in 0 .. N : ~ \A i \in 1 .. k : i >= k - j => c[i] \in f[j]}
<1>5. Bad = {}
  <2> SUFFICES ASSUME Bad # {} PROVE FALSE
    OBVIOUS
  <2>0. Bad \in SUBSET Nat
    BY <1>1
  <2>1. PICK j \in Bad : \A i \in Bad : j <= i
    BY <2>0, HasLeast
  <2>2. j \in 0 .. N
    BY <2>1
  <2>3. PICK i \in 1 .. k : i >= k - j /\ c[i] \notin f[j]
    BY <2>1
  <2>4. /\ j = 0 => f[j] = {c[k]}
        /\ j # 0 => f[j] = WithParents(g, f[j - 1])
    BY <1>2, <2>2, RisesAt
  <2>5. j # 0
    <3> SUFFICES ASSUME j = 0 PROVE FALSE
      OBVIOUS
    <3>1. i = k
      BY <1>3, <2>3
    <3> QED
      BY <2>3, <2>4, <3>1
  <2>6. j - 1 \in 0 .. N /\ ~(j <= j - 1)
    BY <1>1, <2>2, <2>5
  <2>7. \A x \in 1 .. k : x >= k - (j - 1) => c[x] \in f[j - 1]
    BY <2>1, <2>6
  <2>8. CASE i >= k - (j - 1)
    BY <2>3, <2>4, <2>5, <2>7, <2>8 DEF WithParents
  <2>9. CASE ~(i >= k - (j - 1))
    <3>1. i + 1 \in 2 .. k /\ i + 1 \in 1 .. k /\ i + 1 >= k - (j - 1) /\ i + 1 - 1 = i
      BY <1>3, <2>2, <2>3, <2>5, <2>9
    <3>2. c[i + 1] \in f[j - 1]
      BY <2>7, <3>1
    <3>3. c[i + 1] \in DOMAIN g /\ g[c[i + 1]].parent = c[i] /\ c[i] \in DOMAIN g
      BY <3>1 DEF Rooted
    <3> QED
      BY <2>3, <2>4, <2>5, <3>2, <3>3 DEF WithParents
  <2> QED
    BY <2>8, <2>9
<1>6. N \in 0 .. N /\ \A i \in 1 .. k : i >= k - N
  BY <1>1, <1>3
<1>7. T \subseteq Ancestors(g, c[k])
  BY <1>2, <1>5, <1>6
<1> QED
  BY <1>3, <1>4, <1>7

-----------------------------------------------------------------------------
(* Trees *)

\* A graph has finitely many nodes and a size.
LEMMA GraphFinite ==
  ASSUME NEW g, IsGraph(g)
  PROVE  IsFiniteSet(DOMAIN g) /\ None \notin DOMAIN g
BY ConversionAssumption, FS_Subset DEF IsGraph

\* A sequence without repetition has as many elements as places, and only such a one.
LEMMA OnceEach ==
  ASSUME NEW T, NEW s \in Seq(T)
  PROVE  Cardinality({s[k] : k \in DOMAIN s}) = Len(s)
             <=> \A k \in DOMAIN s : \A l \in DOMAIN s : s[k] = s[l] => k = l
<1> DEFINE R == {s[k] : k \in DOMAIN s}
<1>1. DOMAIN s = 1 .. Len(s) /\ Len(s) \in Nat
  BY LenProperties
<1>2. IsFiniteSet(1 .. Len(s)) /\ Cardinality(1 .. Len(s)) = Len(s)
  <2>1. 1 \in Int /\ Len(s) \in Int
    BY <1>1
  <2>2. /\ IsFiniteSet(1 .. Len(s))
        /\ Cardinality(1 .. Len(s)) = IF 1 > Len(s) THEN 0 ELSE Len(s) - 1 + 1
    BY <2>1, FS_Interval
  <2> QED
    BY <1>1, <2>2
<1>3. s \in [1 .. Len(s) -> R]
  BY <1>1
<1>4. \A t \in R : \E k \in 1 .. Len(s) : s[k] = t
  BY <1>1
<1> HIDE DEF R
<1>5. s \in Surjection(1 .. Len(s), R)
  BY <1>3, <1>4 DEF Surjection
<1>6. Cardinality(R) = Cardinality(1 .. Len(s)) <=> s \in Injection(1 .. Len(s), R)
  BY <1>2, <1>5, FS_Surjection
<1>7. s \in Injection(1 .. Len(s), R)
          <=> \A k \in DOMAIN s : \A l \in DOMAIN s : s[k] = s[l] => k = l
  BY <1>3 DEF Injection, IsInjective
<1> QED
  BY <1>2, <1>6, <1>7 DEF R

\* Each node lies on a way from the root.
AllRooted(g) == \A n \in DOMAIN g : \E c, k : Rooted(g, c, k) /\ c[k] = n

\* Each node is its parent's child and its children's parent.
AllLinked(g) == \A n \in DOMAIN g : Linked(g, n)

\* What _validate makes sure of is that the graph is a tree,
LEMMA WalkedIsTree ==
  ASSUME NEW g, IsGraph(g), AllLinked(g), AllRooted(g), NEW root, Roots(g) = {root}
  PROVE  IsTree(g)
<1>0. IsFiniteSet(DOMAIN g) /\ None \notin DOMAIN g
  BY GraphFinite
<1>1. Cardinality(Roots(g)) = 1
  BY FS_Singleton
<1>2. ASSUME NEW n \in DOMAIN g
      PROVE  Roots(g) \subseteq Ancestors(g, n)
  <2>1. PICK c, k : Rooted(g, c, k) /\ c[k] = n
    BY DEF AllRooted
  <2>2. Ancestors(g, n) = {c[i] : i \in 1 .. k}
    BY <1>0, <2>1, AncestorsOfRooted
  <2>3. 1 \in 1 .. k
    BY <2>1 DEF Rooted
  <2>4. c[1] \in Roots(g)
    BY <2>1, <2>3 DEF Rooted, Roots
  <2> QED
    BY <2>2, <2>3, <2>4
<1>3. ASSUME NEW n \in DOMAIN g
      PROVE  {g[n].children[k] : k \in DOMAIN g[n].children} = {m \in DOMAIN g : g[m].parent = n}
  <2>1. \A k \in DOMAIN g[n].children :
           g[n].children[k] \in DOMAIN g /\ g[g[n].children[k]].parent = n
    BY DEF AllLinked, Linked
  <2>2. ASSUME NEW m \in DOMAIN g, g[m].parent = n
        PROVE  \E k \in DOMAIN g[n].children : g[n].children[k] = m
    BY <1>0, <2>2 DEF AllLinked, Linked
  <2> QED
    BY <2>1, <2>2
<1>4. ASSUME NEW n \in DOMAIN g
      PROVE  Cardinality({g[n].children[k] : k \in DOMAIN g[n].children}) = Len(g[n].children)
  <2>1. g[n].children \in Seq(Nodes)
    BY DEF IsGraph
  <2>2. \A k \in DOMAIN g[n].children : \A l \in DOMAIN g[n].children :
          g[n].children[k] = g[n].children[l] => k = l
    BY DEF AllLinked, Linked
  <2> QED
    BY <2>1, <2>2, OnceEach
<1> QED
  BY <1>1, <1>2, <1>3, <1>4 DEF IsTree

\* and a graph it refuses for its links or its roots is none.
LEMMA TreeIsLinked ==
  ASSUME NEW g, IsGraph(g), IsTree(g)
  PROVE  AllLinked(g)
<1> SUFFICES ASSUME NEW n \in DOMAIN g
             PROVE  Linked(g, n)
  BY DEF AllLinked
<1>0. IsFiniteSet(DOMAIN g) /\ None \notin DOMAIN g
  BY GraphFinite
<1>1. \A m \in DOMAIN g :
         /\ {g[m].children[k] : k \in DOMAIN g[m].children} = {x \in DOMAIN g : g[x].parent = m}
         /\ Cardinality({g[m].children[k] : k \in DOMAIN g[m].children}) = Len(g[m].children)
  BY DEF IsTree
<1>2. g[n].parent # None => g[n].parent \in DOMAIN g
  <2> SUFFICES ASSUME g[n].parent # None, g[n].parent \notin DOMAIN g
               PROVE  FALSE
    OBVIOUS
  <2> DEFINE W == {n, g[n].parent}
  <2>1. \A m \in W \cap DOMAIN g : g[m].parent \in W \cup {None}
    OBVIOUS
  <2>2. n \in W
    OBVIOUS
  <2>3. Ancestors(g, n) \subseteq W
    <3> HIDE DEF W
    <3> QED
      BY <1>0, <2>1, <2>2, AncestorsWithin
  <2>4. IsFiniteSet(Roots(g)) /\ Cardinality(Roots(g)) = 1
    BY <1>0, FS_Subset DEF IsTree, Roots
  <2>5. PICK root : Roots(g) = {root}
    BY <2>4, FS_Singleton
  <2>6. root \in Ancestors(g, n) /\ root \in DOMAIN g /\ g[root].parent = None
    BY <2>5 DEF IsTree, Roots
  <2> QED
    BY <2>3, <2>6
<1>3. g[n].parent # None =>
          \E k \in DOMAIN g[g[n].parent].children : g[g[n].parent].children[k] = n
  <2> SUFFICES ASSUME NEW p, p = g[n].parent, p \in DOMAIN g
               PROVE  \E k \in DOMAIN g[p].children : g[p].children[k] = n
    BY <1>2
  <2>1. n \in {g[p].children[k] : k \in DOMAIN g[p].children}
    BY <1>1
  <2> QED
    BY <2>1
<1>4. \A k \in DOMAIN g[n].children :
         g[n].children[k] \in DOMAIN g /\ g[g[n].children[k]].parent = n
  BY <1>1
<1>5. \A k \in DOMAIN g[n].children : \A l \in DOMAIN g[n].children :
          g[n].children[k] = g[n].children[l] => k = l
  <2>1. g[n].children \in Seq(Nodes)
    BY DEF IsGraph
  <2> QED
    BY <1>1, <2>1, OnceEach
<1> QED
  BY <1>2, <1>3, <1>4, <1>5 DEF Linked

-----------------------------------------------------------------------------
(* The thread of a tree *)

\* The way goes over last children.
Lastward(g, c, k) == \A i \in 2 .. k : Last(g[c[i - 1]].children) = c[i]

\* Two such ways from the root go together as far as both go.
LEMMA SameWay ==
  ASSUME NEW g, None \notin DOMAIN g, NEW root, Roots(g) = {root},
         NEW c, NEW k, Rooted(g, c, k), NEW d, NEW l, Rooted(g, d, l),
         Lastward(g, c, k), Lastward(g, d, l)
  PROVE  \A i \in 1 .. k : i <= l => c[i] = d[i]
<1> DEFINE Bad == {i \in 1 .. k : i <= l /\ c[i] # d[i]}
<1> SUFFICES ASSUME Bad # {} PROVE FALSE
  OBVIOUS
<1>1. k \in Nat \ {0} /\ l \in Nat \ {0}
  BY DEF Rooted
<1>2. Bad \in SUBSET Nat
  BY <1>1
<1>3. PICK i \in Bad : \A j \in Bad : i <= j
  BY <1>2, HasLeast
<1>4. i \in 1 .. k /\ i \in 1 .. l /\ c[i] # d[i]
  BY <1>1, <1>3
<1>5. i # 1
  <2>1. c[1] \in Roots(g) /\ d[1] \in Roots(g)
    BY <1>1 DEF Rooted, Roots
  <2> QED
    BY <1>4, <2>1
<1>6. i \in 2 .. k /\ i \in 2 .. l /\ i - 1 \in 1 .. k /\ i - 1 <= l /\ ~(i <= i - 1)
  BY <1>1, <1>4, <1>5
<1>7. i - 1 \notin Bad
  BY <1>3, <1>6
<1>8. c[i - 1] = d[i - 1]
  BY <1>6, <1>7
<1> QED
  BY <1>4, <1>6, <1>8 DEF Lastward

\* All ancestors of n below the root are last children.
Lastborn(g, n) ==
    \A m \in Ancestors(g, n) \ Roots(g) : Last(g[g[m].parent].children) = m

\* Along the way to it.
LEMMA LastbornWay ==
  ASSUME NEW g, IsGraph(g), NEW c, NEW k, Rooted(g, c, k), Lastborn(g, c[k])
  PROVE  Lastward(g, c, k)
<1> SUFFICES ASSUME NEW i \in 2 .. k
             PROVE  Last(g[c[i - 1]].children) = c[i]
  BY DEF Lastward
<1>0. IsFiniteSet(DOMAIN g) /\ None \notin DOMAIN g
  BY GraphFinite
<1>1. Ancestors(g, c[k]) = {c[j] : j \in 1 .. k}
  BY <1>0, AncestorsOfRooted
<1>2. k \in Nat /\ i \in 1 .. k /\ i - 1 \in 1 .. k
  BY DEF Rooted
<1>3. c[i] \in DOMAIN g /\ g[c[i]].parent = c[i - 1] /\ c[i - 1] \in DOMAIN g
  BY <1>2 DEF Rooted
<1>4. c[i] \in Ancestors(g, c[k]) \ Roots(g)
  BY <1>0, <1>1, <1>2, <1>3 DEF Roots
<1> QED
  BY <1>3, <1>4 DEF Lastborn

\* A leaf found by the last children has none of its kind below it.
LEMMA NoDeeper ==
  ASSUME NEW g, IsGraph(g), AllLinked(g), NEW root, Roots(g) = {root},
         NEW c, NEW k, Rooted(g, c, k), Lastborn(g, c[k]), g[c[k]].children = <<>>,
         NEW d, NEW l, Rooted(g, d, l), Lastborn(g, d[l])
  PROVE  l <= k
<1> SUFFICES ASSUME ~(l <= k) PROVE FALSE
  OBVIOUS
<1>0. IsFiniteSet(DOMAIN g) /\ None \notin DOMAIN g
  BY GraphFinite
<1>1. k \in Nat \ {0} /\ l \in Nat \ {0}
  BY DEF Rooted
<1>2. \A i \in 1 .. k : i <= l => c[i] = d[i]
  <2>1. Lastward(g, c, k) /\ Lastward(g, d, l)
    BY LastbornWay
  <2>2. Rooted(g, c, k) /\ Rooted(g, d, l) /\ Roots(g) = {root}
    OBVIOUS
  <2> QED
    BY ONLY <1>0, <2>1, <2>2, SameWay
<1>3. k \in 1 .. k /\ k <= l /\ k + 1 \in 2 .. l /\ k + 1 \in 1 .. l /\ k \in 1 .. l /\ k + 1 - 1 = k
  BY <1>1
<1>4. d[k + 1] \in DOMAIN g /\ g[d[k + 1]].parent = d[k] /\ d[k] = c[k] /\ c[k] \in DOMAIN g
  BY <1>2, <1>3 DEF Rooted
<1>5. \E j \in DOMAIN g[c[k]].children : g[c[k]].children[j] = d[k + 1]
  BY <1>0, <1>4 DEF AllLinked, Linked
<1> QED
  BY <1>5

\* There is one displayed node.
LEMMA OneDisplayed ==
  ASSUME NEW r, IsGraph(r.mapping), AllLinked(r.mapping), AllRooted(r.mapping),
         NEW root, Roots(r.mapping) = {root},
         NEW n \in DOMAIN r.mapping, IsDisplayed(r, n),
         NEW m \in DOMAIN r.mapping, IsDisplayed(r, m)
  PROVE  n = m
<1>1. CASE r.current \in DOMAIN r.mapping
  BY <1>1 DEF IsDisplayed
<1>2. CASE r.current \notin DOMAIN r.mapping
  <2> DEFINE g == r.mapping
  <2>1. /\ g[n].children = <<>> /\ Lastborn(g, n)
        /\ g[m].children = <<>> /\ Lastborn(g, m)
    BY <1>2 DEF IsDisplayed, Lastborn
  <2>2. PICK c, k : Rooted(g, c, k) /\ c[k] = n
    BY DEF AllRooted
  <2>3. PICK d, l : Rooted(g, d, l) /\ d[l] = m
    BY DEF AllRooted
  <2>4. IsGraph(g) /\ AllLinked(g) /\ Roots(g) = {root} /\ None \notin DOMAIN g
    BY GraphFinite
  <2> HIDE DEF g
  <2>5. l <= k /\ k <= l
    BY <2>1, <2>2, <2>3, <2>4, NoDeeper
  <2>6. k \in 1 .. k /\ k = l
    BY <2>2, <2>3, <2>5 DEF Rooted
  <2>7. \A i \in 1 .. k : i <= l => c[i] = d[i]
    <3>1. Lastward(g, c, k) /\ Lastward(g, d, l)
      BY <2>1, <2>2, <2>3, <2>4, LastbornWay
    <3> QED
      BY <2>2, <2>3, <2>4, <3>1, SameWay
  <2> QED
    BY <2>2, <2>3, <2>5, <2>6, <2>7
<1> QED
  BY <1>1, <1>2

\* A way from the root to the displayed node is the thread.
LEMMA ThreadIs ==
  ASSUME NEW r, IsGraph(r.mapping), AllLinked(r.mapping), AllRooted(r.mapping),
         NEW root, Roots(r.mapping) = {root},
         NEW c \in Seq(DOMAIN r.mapping), Rooted(r.mapping, c, Len(c)),
         IsDisplayed(r, c[Len(c)])
  PROVE  ThreadOf(r) = c
<1> DEFINE g == r.mapping
           shown == CHOOSE n \in DOMAIN g : IsDisplayed(r, n)
           thread == Ancestors(g, shown)
<1>1. IsFiniteSet(DOMAIN g) /\ None \notin DOMAIN g
  BY GraphFinite
<1>2. Len(c) \in Nat \ {0} /\ \A i \in 1 .. Len(c) : c[i] \in DOMAIN g
  BY DEF Rooted
<1>3. c[Len(c)] \in DOMAIN g
  BY <1>2
<1>4. shown = c[Len(c)]
  <2>1. shown \in DOMAIN g /\ IsDisplayed(r, shown)
    BY <1>3
  <2> HIDE DEF shown
  <2> QED
    BY <1>3, <2>1, OneDisplayed
<1>5. \A i \in 1 .. Len(c) : Cardinality(Ancestors(g, c[i])) = i
  <2> SUFFICES ASSUME NEW i \in 1 .. Len(c)
               PROVE  Cardinality(Ancestors(g, c[i])) = i
    OBVIOUS
  <2>1. Rooted(g, c, i)
    BY DEF Rooted
  <2> HIDE DEF g
  <2> QED
    BY <1>1, <2>1, AncestorsOfRooted
<1>6. thread = {c[i] : i \in 1 .. Len(c)} /\ Cardinality(thread) = Len(c)
  <2>1. Rooted(g, c, Len(c))
    OBVIOUS
  <2> HIDE DEF g, shown
  <2> QED
    BY <1>1, <1>4, <2>1, AncestorsOfRooted
<1>7. ASSUME NEW i \in 1 .. Len(c)
      PROVE  (CHOOSE n \in thread : Cardinality(Ancestors(g, n)) = i) = c[i]
  <2>1. c[i] \in thread /\ Cardinality(Ancestors(g, c[i])) = i
    BY <1>5, <1>6
  <2>2. \A n \in thread : Cardinality(Ancestors(g, n)) = i => n = c[i]
    BY <1>5, <1>6
  <2> HIDE DEF thread, g
  <2> QED
    BY <2>1, <2>2
<1>8. ThreadOf(r) = [k \in 1 .. Cardinality(thread) |-> CHOOSE n \in thread : Cardinality(Ancestors(g, n)) = k]
  BY DEF ThreadOf
<1>9. [k \in 1 .. Len(c) |-> c[k]] = c
  OBVIOUS
<1> HIDE DEF thread, g
<1>10. [k \in 1 .. Len(c) |-> CHOOSE n \in thread : Cardinality(Ancestors(g, n)) = k]
         = [k \in 1 .. Len(c) |-> c[k]]
  BY <1>7
<1> QED
  BY <1>6, <1>8, <1>9, <1>10

-----------------------------------------------------------------------------
(* The walk of _validate *)

\* m was visited or is to be.
Met(V, nodes, m) == m \in V \/ \E i \in DOMAIN nodes : nodes[i] = m

\* V has been visited and nodes are next: the children of what was visited and no
\* others, each on a way from the root, and none met twice.
WalkState(g, V, nodes, count) ==
    /\ V \subseteq DOMAIN g /\ count = Cardinality(V)
    /\ nodes \in Seq(DOMAIN g)
    /\ \A i \in DOMAIN nodes : nodes[i] \notin V
    /\ \A i \in DOMAIN nodes : \A j \in DOMAIN nodes : nodes[i] = nodes[j] => i = j
    /\ \A m \in DOMAIN g : Met(V, nodes, m) <=> g[m].parent \in V \cup {None}
    /\ \A m \in DOMAIN g : Met(V, nodes, m) => \E c, k : Rooted(g, c, k) /\ c[k] = m

\* A way leads on to every child.
LEMMA RootedChild ==
  ASSUME NEW g, NEW c, NEW k, Rooted(g, c, k), NEW m \in DOMAIN g, g[m].parent = c[k]
  PROVE  LET d == [i \in 1 .. k + 1 |-> IF i = k + 1 THEN m ELSE c[i]]
         IN  Rooted(g, d, k + 1) /\ d[k + 1] = m
<1> DEFINE d == [i \in 1 .. k + 1 |-> IF i = k + 1 THEN m ELSE c[i]]
<1>0. k \in Nat \ {0} /\ 1 \in 1 .. k
  BY DEF Rooted
<1>1. d[k + 1] = m /\ \A i \in 1 .. k : d[i] = c[i]
  BY <1>0
<1> HIDE DEF d
<1>2. \A i \in 1 .. k + 1 : d[i] \in DOMAIN g
  <2> SUFFICES ASSUME NEW i \in 1 .. k + 1 PROVE d[i] \in DOMAIN g
    OBVIOUS
  <2>1. i = k + 1 \/ i \in 1 .. k
    BY <1>0
  <2> QED
    BY <1>1, <2>1 DEF Rooted
<1>3. \A i \in 2 .. k + 1 : g[d[i]].parent = d[i - 1]
  <2> SUFFICES ASSUME NEW i \in 2 .. k + 1 PROVE g[d[i]].parent = d[i - 1]
    OBVIOUS
  <2>1. CASE i = k + 1
    <3>1. i - 1 = k /\ k \in 1 .. k
      BY <1>0, <2>1
    <3> QED
      BY <1>1, <2>1, <3>1
  <2>2. CASE i # k + 1
    <3>1. i \in 1 .. k /\ i - 1 \in 1 .. k /\ i \in 2 .. k
      BY <1>0, <2>2
    <3> QED
      BY <1>1, <3>1 DEF Rooted
  <2> QED
    BY <2>1, <2>2
<1>4. g[d[1]].parent = None
  BY <1>0, <1>1 DEF Rooted
<1>5. Rooted(g, d, k + 1)
  <2>1. k + 1 \in Nat \ {0}
    BY <1>0
  <2> QED
    BY <1>2, <1>3, <1>4, <2>1 DEF Rooted
<1> QED
  BY <1>1, <1>5 DEF d

\* The root alone is to be visited at first.
LEMMA WalkStarts ==
  ASSUME NEW g, None \notin DOMAIN g, NEW root, Roots(g) = {root}
  PROVE  WalkState(g, {}, <<root>>, 0)
<1>1. root \in DOMAIN g /\ \A m \in DOMAIN g : g[m].parent = None <=> m = root
  BY DEF Roots
<1>2. Rooted(g, <<root>>, 1) /\ <<root>>[1] = root
  BY <1>1 DEF Rooted
<1>3. \A m : Met({}, <<root>>, m) <=> m = root
  BY DEF Met
<1>4. <<root>> \in Seq(DOMAIN g)
  BY <1>1
<1>5. Cardinality({}) = 0
  BY FS_EmptySet
<1>6. \A i \in DOMAIN <<root>> : i = 1
  OBVIOUS
<1>7. \A m \in DOMAIN g : Met({}, <<root>>, m) => \E c, k : Rooted(g, c, k) /\ c[k] = m
  BY <1>2, <1>3
<1> QED
  BY <1>1, <1>3, <1>4, <1>5, <1>6, <1>7 DEF WalkState

\* Then one more, and its children are next.
LEMMA WalkGoesOn ==
  ASSUME NEW g, IsGraph(g), AllLinked(g), NEW V, NEW nodes, NEW count,
         WalkState(g, V, nodes, count), nodes # <<>>
  PROVE  WalkState(g, V \cup {Last(nodes)}, Front(nodes) \o g[Last(nodes)].children, count + 1)
<1> DEFINE L == Len(nodes)
           x == Last(nodes)
           kids == g[x].children
           rest == Front(nodes)
           next == rest \o kids
<1>0. IsFiniteSet(DOMAIN g) /\ None \notin DOMAIN g
  BY GraphFinite
<1>1. L \in Nat \ {0} /\ nodes \in Seq(DOMAIN g) /\ DOMAIN nodes = 1 .. L
  BY DEF WalkState
<1>2. x = nodes[L] /\ L \in 1 .. L
  BY <1>1 DEF Last
<1>3. x \in DOMAIN g /\ x \notin V
  BY <1>1, <1>2 DEF WalkState
<1>4. rest \in Seq(DOMAIN g) /\ Len(rest) = L - 1 /\ \A i \in 1 .. L - 1 : rest[i] = nodes[i]
  BY <1>1 DEF Front
<1>5. /\ kids \in Seq(DOMAIN g)
      /\ \A j \in DOMAIN kids : kids[j] \in DOMAIN g /\ g[kids[j]].parent = x
      /\ \A j \in DOMAIN kids : \A l \in DOMAIN kids : kids[j] = kids[l] => j = l
      /\ \A m \in DOMAIN g : g[m].parent = x => \E j \in DOMAIN kids : kids[j] = m
  <2>1. kids \in Seq(Nodes)
    BY <1>3 DEF IsGraph
  <2>2. /\ \A j \in DOMAIN kids : kids[j] \in DOMAIN g /\ g[kids[j]].parent = x
        /\ \A j \in DOMAIN kids : \A l \in DOMAIN kids : kids[j] = kids[l] => j = l
    BY <1>3 DEF AllLinked, Linked
  <2>3. kids \in Seq(DOMAIN g)
    <3> HIDE DEF kids
    <3> QED
      BY <2>1, <2>2
  <2>4. \A m \in DOMAIN g : g[m].parent = x => \E j \in DOMAIN kids : kids[j] = m
    BY <1>0, <1>3 DEF AllLinked, Linked
  <2> QED
    BY <2>2, <2>3, <2>4
<1> HIDE DEF kids, rest, x
<1> HIDE DEF L
<1>6. /\ next \in Seq(DOMAIN g) /\ DOMAIN next = 1 .. L - 1 + Len(kids)
      /\ \A i \in 1 .. L - 1 : next[i] = nodes[i]
      /\ \A i \in DOMAIN next : i > L - 1 => i - (L - 1) \in DOMAIN kids /\ next[i] = kids[i - (L - 1)]
      /\ \A j \in DOMAIN kids : L - 1 + j \in DOMAIN next /\ next[L - 1 + j] = kids[j]
  <2>1. Len(kids) \in Nat /\ DOMAIN kids = 1 .. Len(kids) /\ L - 1 \in Nat
    BY <1>1, <1>5
  <2>2. /\ next \in Seq(DOMAIN g)
        /\ Len(next) = L - 1 + Len(kids)
        /\ \A i \in 1 .. L - 1 + Len(kids) :
              next[i] = IF i <= L - 1 THEN rest[i] ELSE kids[i - (L - 1)]
    <3>1. rest \in Seq(DOMAIN g) /\ kids \in Seq(DOMAIN g)
      BY <1>4, <1>5
    <3>2. /\ rest \o kids \in Seq(DOMAIN g)
          /\ Len(rest \o kids) = Len(rest) + Len(kids)
          /\ \A i \in 1 .. Len(rest) + Len(kids) :
                (rest \o kids)[i] = IF i <= Len(rest) THEN rest[i] ELSE kids[i - Len(rest)]
      BY ONLY <3>1, ConcatProperties
    <3> QED
      BY <1>4, <3>2
  <2> HIDE DEF next
  <2>3. DOMAIN next = 1 .. L - 1 + Len(kids)
    BY <2>2, LenProperties
  <2>4. \A i \in 1 .. L - 1 : next[i] = nodes[i]
    BY <1>4, <2>1, <2>2
  <2>5. \A i \in DOMAIN next : i > L - 1 => i - (L - 1) \in DOMAIN kids /\ next[i] = kids[i - (L - 1)]
    BY <2>1, <2>2, <2>3
  <2>6. ASSUME NEW j \in DOMAIN kids
        PROVE  L - 1 + j \in DOMAIN next /\ next[L - 1 + j] = kids[j]
    <3>1. L - 1 + j \in DOMAIN next /\ L - 1 + j > L - 1 /\ (L - 1 + j) - (L - 1) = j
      BY <2>1, <2>3
    <3> QED
      BY <2>5, <3>1
  <2> QED
    BY <2>2, <2>3, <2>4, <2>5, <2>6
<1> HIDE DEF next
<1>7. ASSUME NEW m
      PROVE  Met(V \cup {x}, next, m) <=> Met(V, nodes, m) \/ \E j \in DOMAIN kids : kids[j] = m
  <2>1. ASSUME Met(V \cup {x}, next, m)
        PROVE  Met(V, nodes, m) \/ \E j \in DOMAIN kids : kids[j] = m
    <3>1. CASE m \in V \cup {x}
      BY <1>1, <1>2, <3>1 DEF Met
    <3>2. CASE \E i \in DOMAIN next : next[i] = m
      <4>1. PICK i \in DOMAIN next : next[i] = m
        BY <3>2
      <4>2. CASE i > L - 1
        BY <1>6, <4>1, <4>2
      <4>3. CASE ~(i > L - 1)
        <5>1. i \in 1 .. L - 1 /\ i \in DOMAIN nodes
          BY <1>1, <1>6, <4>3
        <5> QED
          BY <1>6, <4>1, <5>1 DEF Met
      <4> QED
        BY <4>2, <4>3
    <3> QED
      BY <2>1, <3>1, <3>2 DEF Met
  <2>2. ASSUME Met(V, nodes, m)
        PROVE  Met(V \cup {x}, next, m)
    <3>1. CASE m \in V
      BY <3>1 DEF Met
    <3>2. CASE \E i \in DOMAIN nodes : nodes[i] = m
      <4>1. PICK i \in DOMAIN nodes : nodes[i] = m
        BY <3>2
      <4>2. CASE i = L
        BY <1>2, <4>1, <4>2 DEF Met
      <4>3. CASE i # L
        <5>1. i \in 1 .. L - 1 /\ i \in DOMAIN next
          BY <1>1, <1>5, <1>6, <4>3
        <5> QED
          BY <1>6, <4>1, <5>1 DEF Met
      <4> QED
        BY <4>2, <4>3
    <3> QED
      BY <2>2, <3>1, <3>2 DEF Met
  <2>3. ASSUME NEW j \in DOMAIN kids, kids[j] = m
        PROVE  Met(V \cup {x}, next, m)
    BY <1>6, <2>3 DEF Met
  <2> QED
    BY <2>1, <2>2, <2>3
<1>8. \A j \in DOMAIN kids : ~Met(V, nodes, kids[j])
  <2> SUFFICES ASSUME NEW j \in DOMAIN kids, Met(V, nodes, kids[j]) PROVE FALSE
    OBVIOUS
  <2>1. g[kids[j]].parent \in V \cup {None}
    BY <1>5 DEF WalkState
  <2> QED
    BY <1>0, <1>3, <1>5, <2>1
<1>9. Met(V, nodes, x)
  BY <1>1, <1>2 DEF Met
<1>10. V \cup {x} \subseteq DOMAIN g /\ count + 1 = Cardinality(V \cup {x})
  <2>1. IsFiniteSet(V) /\ V \subseteq DOMAIN g /\ count = Cardinality(V)
    BY <1>0, FS_Subset DEF WalkState
  <2>2. Cardinality(V \cup {x}) = Cardinality(V) + 1
    BY <1>3, <2>1, FS_AddElement
  <2> QED
    BY <1>3, <2>1, <2>2
<1>11. \A i \in DOMAIN next : next[i] \notin V \cup {x}
  <2> SUFFICES ASSUME NEW i \in DOMAIN next PROVE next[i] \notin V \cup {x}
    OBVIOUS
  <2>1. CASE i > L - 1
    <3>1. ~Met(V, nodes, next[i])
      BY <1>6, <1>8, <2>1
    <3> QED
      BY <1>9, <3>1 DEF Met
  <2>2. CASE ~(i > L - 1)
    <3>1. i \in 1 .. L - 1 /\ i \in DOMAIN nodes /\ i # L /\ L \in DOMAIN nodes
      BY <1>1, <1>6, <2>2
    <3>2. nodes[i] \notin V /\ nodes[i] # nodes[L]
      BY <3>1 DEF WalkState
    <3> QED
      BY <1>2, <1>6, <3>1, <3>2
  <2> QED
    BY <2>1, <2>2
<1>12. ASSUME NEW i \in DOMAIN next, NEW j \in DOMAIN next, next[i] = next[j]
       PROVE  i = j
  <2>1. ASSUME NEW a \in DOMAIN next, NEW b \in DOMAIN next, next[a] = next[b],
               ~(a > L - 1), b > L - 1
        PROVE  FALSE
    <3>1. a \in 1 .. L - 1 /\ a \in DOMAIN nodes
      BY <1>1, <1>6, <2>1
    <3>2. Met(V, nodes, next[a])
      BY <1>6, <3>1 DEF Met
    <3>3. ~Met(V, nodes, next[b])
      BY <1>6, <1>8, <2>1
    <3> QED
      BY <2>1, <3>2, <3>3
  <2>2. CASE i > L - 1 /\ j > L - 1
    <3>1. i - (L - 1) = j - (L - 1)
      BY <1>5, <1>6, <1>12, <2>2
    <3> QED
      BY <1>1, <1>6, <3>1
  <2>3. CASE ~(i > L - 1) /\ ~(j > L - 1)
    <3>1. i \in 1 .. L - 1 /\ i \in DOMAIN nodes /\ j \in 1 .. L - 1 /\ j \in DOMAIN nodes
      BY <1>1, <1>6, <2>3
    <3>2. nodes[i] = nodes[j]
      BY <1>6, <1>12, <3>1
    <3> QED
      BY <3>1, <3>2 DEF WalkState
  <2> QED
    BY <1>12, <2>1, <2>2, <2>3
<1>13. ASSUME NEW m \in DOMAIN g
       PROVE  Met(V \cup {x}, next, m) <=> g[m].parent \in V \cup {x} \cup {None}
  <2>1. Met(V, nodes, m) <=> g[m].parent \in V \cup {None}
    BY DEF WalkState
  <2>2. (\E j \in DOMAIN kids : kids[j] = m) <=> g[m].parent = x
    BY <1>5
  <2> QED
    BY <1>7, <2>1, <2>2
<1>14. ASSUME NEW m \in DOMAIN g, Met(V \cup {x}, next, m)
       PROVE  \E c, k : Rooted(g, c, k) /\ c[k] = m
  <2>1. CASE Met(V, nodes, m)
    BY <2>1 DEF WalkState
  <2>2. CASE \E j \in DOMAIN kids : kids[j] = m
    <3>1. g[m].parent = x
      BY <1>5, <2>2
    <3>2. PICK c, k : Rooted(g, c, k) /\ c[k] = x
      BY <1>3, <1>9 DEF WalkState
    <3>3. g[m].parent = c[k]
      BY <3>1, <3>2
    <3> DEFINE d == [i \in 1 .. k + 1 |-> IF i = k + 1 THEN m ELSE c[i]]
    <3>4. Rooted(g, d, k + 1) /\ d[k + 1] = m
      BY <3>2, <3>3, RootedChild
    <3> QED
      BY <3>4
  <2> QED
    BY <1>7, <1>14, <2>1, <2>2
<1> QED
  BY <1>6, <1>10, <1>11, <1>12, <1>13, <1>14 DEF WalkState, x, kids, rest, next

\* When nothing is to be visited any more, all nodes have been or it is no tree.
LEMMA WalkEnds ==
  ASSUME NEW g, IsGraph(g), AllLinked(g), NEW V, NEW nodes, NEW count,
         WalkState(g, V, nodes, count)
  PROVE  /\ count <= Cardinality(DOMAIN g)
         /\ nodes = <<>> /\ count = Cardinality(DOMAIN g) => AllRooted(g)
         /\ nodes = <<>> /\ count # Cardinality(DOMAIN g) => ~IsTree(g)
<1>0. IsFiniteSet(DOMAIN g) /\ None \notin DOMAIN g
  BY GraphFinite
<1>1. V \in SUBSET DOMAIN g /\ count = Cardinality(V)
  BY DEF WalkState
<1>2. Cardinality(V) <= Cardinality(DOMAIN g) /\ (Cardinality(DOMAIN g) = Cardinality(V) => DOMAIN g = V)
  BY <1>0, <1>1, FS_Subset
<1>3. ASSUME nodes = <<>>, count = Cardinality(DOMAIN g)
      PROVE  AllRooted(g)
  <2>1. \A m \in DOMAIN g : Met(V, nodes, m)
    BY <1>1, <1>2, <1>3 DEF Met
  <2> QED
    BY <2>1 DEF WalkState, AllRooted
<1>4. ASSUME nodes = <<>>, count # Cardinality(DOMAIN g), IsTree(g)
      PROVE  FALSE
  <2>1. PICK n \in DOMAIN g : n \notin V
    BY <1>1, <1>4
  <2>2. \A m : Met(V, nodes, m) <=> m \in V
    BY <1>4 DEF Met
  <2>3. \A m \in DOMAIN g : m \in V <=> g[m].parent \in V \cup {None}
    BY <2>2 DEF WalkState
  <2> DEFINE W == DOMAIN g \ V
  <2>4. \A m \in W \cap DOMAIN g : g[m].parent \in W \cup {None}
    BY <2>3 DEF AllLinked, Linked
  <2>5. n \in W
    BY <2>1
  <2>6. Ancestors(g, n) \subseteq W
    <3> HIDE DEF W
    <3> QED
      BY <1>0, <2>4, <2>5, AncestorsWithin
  <2>7. IsFiniteSet(Roots(g)) /\ Cardinality(Roots(g)) = 1
    BY <1>0, <1>4, FS_Subset DEF IsTree, Roots
  <2>8. PICK root : Roots(g) = {root}
    BY <2>7, FS_Singleton
  <2>9. root \in Ancestors(g, n) /\ root \in DOMAIN g /\ g[root].parent = None
    BY <1>4, <2>8 DEF IsTree, Roots
  <2> QED
    BY <2>3, <2>6, <2>9
<1> QED
  BY <1>1, <1>2, <1>3, <1>4

-----------------------------------------------------------------------------
(* Down to the leaf *)

\* The only root is where the search for the leaf begins,
LEMMA LastbornRoot ==
  ASSUME NEW g, IsGraph(g), NEW root \in Roots(g)
  PROVE  Lastborn(g, root)
<1>1. IsFiniteSet(DOMAIN g) /\ g[root].parent = None /\ root \in DOMAIN g
  BY GraphFinite DEF Roots
<1> DEFINE W == {root}
<1>2. root \in W /\ \A m \in W \cap DOMAIN g : g[m].parent \in W \cup {None}
  BY <1>1
<1>3. Ancestors(g, root) \subseteq W
  <2> HIDE DEF W
  <2> QED
    BY <1>1, <1>2, AncestorsWithin
<1> QED
  BY <1>3 DEF Lastborn

\* and a last child is one step down.
LEMMA LastbornChild ==
  ASSUME NEW g, IsGraph(g), AllLinked(g), AllRooted(g), NEW n \in DOMAIN g, Lastborn(g, n),
         g[n].children # <<>>
  PROVE  /\ Last(g[n].children) \in DOMAIN g
         /\ g[Last(g[n].children)].parent = n
         /\ Lastborn(g, Last(g[n].children))
<1> DEFINE m == Last(g[n].children)
<1>0. IsFiniteSet(DOMAIN g) /\ None \notin DOMAIN g
  BY GraphFinite
<1>1. m \in DOMAIN g /\ g[m].parent = n
  <2>1. g[n].children \in Seq(Nodes) /\ Len(g[n].children) \in DOMAIN g[n].children
    BY DEF IsGraph
  <2> QED
    BY <2>1 DEF Last, AllLinked, Linked
<1>2. PICK c, k : Rooted(g, c, k) /\ c[k] = n
  BY DEF AllRooted
<1> DEFINE d == [i \in 1 .. k + 1 |-> IF i = k + 1 THEN m ELSE c[i]]
<1>3. Rooted(g, d, k + 1) /\ d[k + 1] = m
  <2> HIDE DEF m
  <2> QED
    BY <1>1, <1>2, RootedChild DEF d
<1>4. \A i \in 1 .. k + 1 : i # k + 1 => i \in 1 .. k /\ d[i] = c[i]
  <2>1. k \in Nat
    BY <1>2 DEF Rooted
  <2>2. \A i \in 1 .. k + 1 : d[i] = IF i = k + 1 THEN m ELSE c[i]
    OBVIOUS
  <2> HIDE DEF d, m
  <2>3. ASSUME NEW i \in 1 .. k + 1, i # k + 1
        PROVE  i \in 1 .. k /\ d[i] = c[i]
    <3>1. i \in 1 .. k
      BY <2>1, <2>3
    <3> QED
      BY <2>2, <2>3, <3>1
  <2> QED
    BY <2>3
<1> HIDE DEF d
<1> HIDE DEF m
<1>5. /\ Ancestors(g, m) = {d[i] : i \in 1 .. k + 1}
      /\ Ancestors(g, n) = {c[i] : i \in 1 .. k}
  <2>1. Ancestors(g, d[k + 1]) = {d[i] : i \in 1 .. k + 1}
    BY <1>0, <1>3, AncestorsOfRooted
  <2>2. Ancestors(g, c[k]) = {c[i] : i \in 1 .. k}
    <3>1. Rooted(g, c, k)
      BY <1>2
    <3> QED
      BY ONLY <1>0, <3>1, AncestorsOfRooted
  <2> QED
    BY <1>2, <1>3, <2>1, <2>2
<1>6. \A a \in Ancestors(g, m) : a = m \/ a \in Ancestors(g, n)
  BY <1>3, <1>4, <1>5
<1>7. Last(g[g[m].parent].children) = m
  BY <1>1 DEF m
<1>8. Lastborn(g, m)
  BY <1>6, <1>7 DEF Lastborn
<1> QED
  BY <1>1, <1>8 DEF m

-----------------------------------------------------------------------------
(* What a thread says *)

\* The node as one turn or as none.
AsTurn(g, n) == IF g[n].message.kind = "turn" THEN <<n>> ELSE <<>>

\* One node more is one turn more, or none.
LEMMA TurnsGrow ==
  ASSUME NEW g, NEW T, NEW nodes \in Seq(T), NEW n \in T
  PROVE  /\ TurnsAmong(g, nodes) \in Seq(T)
         /\ TurnsAmong(g, Append(nodes, n)) = TurnsAmong(g, nodes) \o AsTurn(g, n)
<1> DEFINE seqs == [k \in DOMAIN nodes |-> AsTurn(g, nodes[k])]
           longer == Append(nodes, n)
           more == [k \in DOMAIN longer |-> AsTurn(g, longer[k])]
           U == Seq(T)
<1>1. Len(nodes) \in Nat /\ DOMAIN nodes = 1 .. Len(nodes) /\ \A k \in DOMAIN nodes : nodes[k] \in T
  BY LenProperties, ElementOfSeq
<1>2. \A m \in T : AsTurn(g, m) \in Seq(T)
  BY DEF AsTurn
<1>3. /\ longer \in Seq(T) /\ Len(longer) = Len(nodes) + 1 /\ DOMAIN longer = 1 .. Len(nodes) + 1
      /\ \A k \in 1 .. Len(nodes) : longer[k] = nodes[k]
      /\ longer[Len(nodes) + 1] = n
  BY <1>1
<1> HIDE DEF longer
<1>4. \A m \in T : AsTurn(g, m) \in U
  BY <1>2
<1> HIDE DEF U
<1>5. seqs \in Seq(U) /\ Len(seqs) = Len(nodes)
  BY <1>1, <1>4
<1>6. more \in Seq(U) /\ Len(more) = Len(nodes) + 1
  <2>1. \A k \in DOMAIN longer : longer[k] \in T
    BY <1>3, ElementOfSeq
  <2> QED
    BY <1>1, <1>3, <1>4, <2>1
<1>7. more = Append(seqs, AsTurn(g, n))
  <2>1. AsTurn(g, n) \in U
    BY <1>4
  <2>2. /\ Append(seqs, AsTurn(g, n)) \in Seq(U)
        /\ Len(Append(seqs, AsTurn(g, n))) = Len(nodes) + 1
        /\ \A k \in 1 .. Len(nodes) : Append(seqs, AsTurn(g, n))[k] = seqs[k]
        /\ Append(seqs, AsTurn(g, n))[Len(nodes) + 1] = AsTurn(g, n)
    BY <1>5, <2>1, AppendProperties
  <2>3. \A k \in 1 .. Len(nodes) : seqs[k] = AsTurn(g, nodes[k])
    BY <1>1
  <2>4. \A k \in 1 .. Len(nodes) + 1 : more[k] = AsTurn(g, longer[k])
    BY <1>3
  <2> HIDE DEF seqs, more
  <2>5. \A k \in 1 .. Len(more) : more[k] = Append(seqs, AsTurn(g, n))[k]
    <3> SUFFICES ASSUME NEW k \in 1 .. Len(nodes) + 1
                 PROVE  more[k] = Append(seqs, AsTurn(g, n))[k]
      BY <1>6
    <3>1. CASE k = Len(nodes) + 1
      BY <1>3, <2>2, <2>4, <3>1
    <3>2. CASE k # Len(nodes) + 1
      <4>1. k \in 1 .. Len(nodes)
        BY <1>1, <3>2
      <4> QED
        BY <1>3, <2>2, <2>3, <2>4, <4>1
    <3> QED
      BY <3>1, <3>2
  <2> QED
    BY <1>6, <2>2, <2>5, SeqEqual
<1>8. TurnsAmong(g, nodes) = FlattenSeq(seqs) /\ TurnsAmong(g, Append(nodes, n)) = FlattenSeq(more)
  BY DEF TurnsAmong, AsTurn, longer
<1> HIDE DEF seqs, more
<1>9. FlattenSeq(Append(seqs, AsTurn(g, n))) = FlattenSeq(seqs) \o AsTurn(g, n)
  BY <1>2, <1>5, FlattenMore DEF U
<1>10. FlattenSeq(seqs) \in Seq(T)
  BY <1>5, FlattenType DEF U
<1> QED
  BY <1>7, <1>8, <1>9, <1>10

\* Of no nodes there are none.
LEMMA NoTurns ==
  ASSUME NEW g
  PROVE  TurnsAmong(g, <<>>) = <<>>
<1> DEFINE none == [k \in DOMAIN <<>> |-> AsTurn(g, <<>>[k])]
<1>1. none = <<>>
  OBVIOUS
<1>2. TurnsAmong(g, <<>>) = FlattenSeq(none)
  BY DEF TurnsAmong, AsTurn
<1>3. FlattenSeq(<<>>) = <<>>
  BY DEF FlattenSeq
<1> QED
  BY <1>1, <1>2, <1>3

\* A message that cannot be read.
Unreadable(message) ==
    \/ message.kind \in {"malformed", "unhashable"}
    \/ message.kind = "turn" /\ message.time = "bad"

\* The first of them in the thread decides.
LEMMA VerdictUnreadable ==
  ASSUME NEW r, r.id # None, IsTree(r.mapping), NEW T, ThreadOf(r) \in Seq(T),
         NEW p \in 1 .. Len(ThreadOf(r)), Unreadable(r.mapping[ThreadOf(r)[p]].message),
         \A j \in 1 .. p - 1 : ~Unreadable(r.mapping[ThreadOf(r)[j]].message)
  PROVE  Verdict(r) = IF r.mapping[ThreadOf(r)[p]].message.kind = "unhashable"
                      THEN "escaped" ELSE "refused"
<1> DEFINE thread == ThreadOf(r)
           Says(k) == r.mapping[thread[k]].message
           first == {k \in DOMAIN thread : Unreadable(Says(k)) /\ \A j \in 1 .. k - 1 : ~Unreadable(Says(j))}
<1>1. DOMAIN thread = 1 .. Len(thread) /\ Len(thread) \in Nat
  BY LenProperties
<1>2. Unreadable(Says(p)) /\ \A j \in 1 .. p - 1 : ~Unreadable(Says(j))
  OBVIOUS
<1>3. Verdict(r) = TreeVerdict(r)
  BY DEF Verdict
<1>4. first # {} => TreeVerdict(r) = IF \A k \in first : Says(k).kind = "unhashable"
                                     THEN "escaped" ELSE "refused"
  BY DEF TreeVerdict, Unreadable
<1> HIDE DEF thread, Says
<1>5. first = {p}
  <2>1. p \in first
    BY <1>1, <1>2 DEF thread
  <2>2. ASSUME NEW k \in first
        PROVE  k = p
    <3>1. k \in Nat /\ p \in Nat /\ p >= 1 /\ k >= 1
      BY <1>1
    <3>2. ~(k < p)
      BY <1>2, <3>1
    <3>3. ~(p < k)
      BY <1>2, <3>1
    <3> QED
      BY <3>1, <3>2, <3>3
  <2> QED
    BY <2>1, <2>2
<1> HIDE DEF first
<1> QED
  BY <1>3, <1>4, <1>5 DEF Says, thread

\* There is a time to give the conversation.
Timed(r) ==
    \/ r.created = "time"
    \/ /\ r.created = "none"
       /\ \E k \in DOMAIN TurnsOf(r) :
             ~IsFolded(r, k) /\ r.mapping[TurnsOf(r)[k]].message.time = "time"

\* If there is none the times decide.
LEMMA VerdictReadable ==
  ASSUME NEW r, r.id # None, IsTree(r.mapping),
         \A j \in DOMAIN ThreadOf(r) : ~Unreadable(r.mapping[ThreadOf(r)[j]].message)
  PROVE  Verdict(r) = IF Timed(r) /\ r.updated # "bad" THEN "conversation" ELSE "refused"
<1> DEFINE thread == ThreadOf(r)
           Says(k) == r.mapping[thread[k]].message
           first == {k \in DOMAIN thread : Unreadable(Says(k)) /\ \A j \in 1 .. k - 1 : ~Unreadable(Says(j))}
<1>1. first = {}
  OBVIOUS
<1>2. Verdict(r) = TreeVerdict(r)
  BY DEF Verdict
<1>3. first = {} => TreeVerdict(r) = IF Timed(r) /\ r.updated # "bad" THEN "conversation" ELSE "refused"
  BY DEF TreeVerdict, Unreadable, Timed
<1> QED
  BY <1>1, <1>2, <1>3

-----------------------------------------------------------------------------
(* The conversion of a record, stage by stage *)

\* Nothing of the thread has been read.
Early == items = <<>> /\ omitted = Nothing /\ turns = <<>> /\ position = 1

\* Stage by stage, what is known of the record.
AtGraph == IsGraph(Graph) /\ Early /\ reached = 0

\* The graph has links both ways and one root,
Checked ==
    /\ record.id # None
    /\ IsGraph(Graph) /\ AllLinked(Graph)
    /\ \E root : Roots(Graph) = {root}

AtWalk == Checked /\ Early /\ \E V : WalkState(Graph, V, pending, reached)

\* and all its nodes hang from it.
Sound == Checked /\ AllRooted(Graph)

\* One node, reached over last children; or the path from here down to the displayed node.
AtLeaf ==
    /\ Sound /\ Early
    /\ record.current \notin DOMAIN Graph
    /\ \E n \in DOMAIN Graph : path = <<n>> /\ Lastborn(Graph, n)

AtClimb ==
    /\ Sound /\ Early
    /\ path \in Seq(DOMAIN Graph) /\ path # <<>>
    /\ \A i \in 2 .. Len(path) : Graph[path[i]].parent = path[i - 1]
    /\ IsDisplayed(record, path[Len(path)])

\* The path is the thread.
OnThread == Sound /\ path \in Seq(DOMAIN Graph) /\ path = ThreadOf(record)

\* What is left out, and how much of it is left out of the turns altogether.
Counts == [structural : Nat, hidden : Nat, reasoning : Nat, folded : Nat]

Omitted == omitted.structural + omitted.hidden + omitted.reasoning

\* The nodes before position have been read: each is an item or counted.
AtRead ==
    /\ OnThread
    /\ position \in 1 .. Len(path) + 1
    /\ items \in Seq(DOMAIN Graph)
    /\ items = TurnsAmong(Graph, SubSeq(path, 1, position - 1))
    /\ omitted \in Counts /\ omitted.folded = 0
    /\ position - 1 = Len(items) + Omitted
    /\ turns = <<>>
    /\ \A j \in 1 .. position - 1 : ~Unreadable(Message(path[j]))

\* All of them have been.
AllRead ==
    /\ OnThread
    /\ \A j \in DOMAIN path : ~Unreadable(Message(path[j]))
    /\ items \in Seq(DOMAIN Graph) /\ items = TurnsOf(record)
    /\ omitted \in Counts
    /\ Len(path) = Len(items) + Omitted

\* Each result stands with its call, and no other turn with one.
StandsRight(r, all) ==
    \A k \in DOMAIN all : \A j \in DOMAIN all[k] :
        (j > 1) = IsFolded(r, Len(FlattenSeq(SubSeq(all, 1, k - 1))) + j)

\* Some turn has a time; some item that is not folded has one.
HasTime == \E k \in DOMAIN turns : Message(turns[k][1]).time = "time"

TimeAmong(last) ==
    \E i \in 1 .. last : ~IsFolded(record, i) /\ Message(items[i]).time = "time"

\* The items before position are in the turns, with their results.
AtFold ==
    /\ AllRead
    /\ position \in 1 .. Len(items) + 1
    /\ turns \in Seq(Seq(DOMAIN Graph))
    /\ FlattenSeq(turns) = SubSeq(items, 1, position - 1)
    /\ position - 1 = Len(turns) + omitted.folded
    /\ position <= Len(items) => ~IsFolded(record, position)
    /\ StandsRight(record, turns)
    /\ HasTime <=> TimeAmong(position - 1)

AtTimes == AtFold /\ position > Len(items)

AtParsed == AtTimes /\ Verdict(record) = "conversation"

\* The invariant of a conversion.
ConversionInv ==
    /\ stage \in {"none", "graph", "walk", "leaf", "climb", "read", "fold", "times",
                  "parsed", "refused", "escaped"}
    /\ stage = "graph" => AtGraph
    /\ stage = "walk" => AtWalk
    /\ stage = "leaf" => AtLeaf
    /\ stage = "climb" => AtClimb
    /\ stage = "read" => AtRead
    /\ stage = "fold" => AtFold
    /\ stage = "times" => AtTimes
    /\ stage = "parsed" => AtParsed
    /\ stage \in {"refused", "escaped"} => Verdict(record) = stage

-----------------------------------------------------------------------------
(* _validate *)

\* A linked graph with one root is walked from it.
LEMMA StageCheckLinks ==
  ASSUME AtGraph, CheckLinks
  PROVE  AtWalk'
<1>1. UNCHANGED <<record, Graph>> /\ UNCHANGED <<reached, items, omitted, turns, position>>
  BY DEF CheckLinks, Graph
<1>2. Checked /\ Early /\ reached = 0 /\ IsGraph(Graph)
  BY DEF AtGraph, Checked, CheckLinks, AllLinked
<1>3. PICK root : Roots(Graph) = {root} /\ pending' = <<root>>
  BY DEF CheckLinks
<1>4. WalkState(Graph, {}, <<root>>, 0)
  BY <1>2, <1>3, GraphFinite, WalkStarts
<1>5. Checked' /\ Early'
  BY <1>1, <1>2 DEF Checked, Early
<1> QED
  BY <1>1, <1>2, <1>3, <1>4, <1>5 DEF AtWalk

\* A graph refused for its links or its roots is no tree, and no record without an
\* identifier is a conversation.
LEMMA StageCheckRefuses ==
  ASSUME AtGraph, CheckRefuses
  PROVE  Verdict(record) = "refused"
<1> SUFFICES ASSUME record.id # None, IsTree(Graph) PROVE FALSE
  BY DEF Verdict, Graph
<1>1. AllLinked(Graph) /\ Cardinality(Roots(Graph)) = 1
  BY TreeIsLinked DEF AtGraph, IsTree
<1> QED
  BY <1>1 DEF CheckRefuses, AllLinked

\* One node more has been visited.
LEMMA StageWalk ==
  ASSUME AtWalk, Walk
  PROVE  AtWalk'
<1>1. UNCHANGED <<record, Graph>> /\ UNCHANGED <<items, omitted, turns, position>>
  BY DEF Walk, Graph
<1>2. PICK V : WalkState(Graph, V, pending, reached)
  BY DEF AtWalk
<1>3. WalkState(Graph, V \cup {Last(pending)}, pending', reached')
  <2>1. IsGraph(Graph) /\ AllLinked(Graph) /\ pending # <<>>
    BY DEF AtWalk, Checked, Walk, Walking
  <2>2. WalkState(Graph, V \cup {Last(pending)}, Front(pending) \o Graph[Last(pending)].children,
                  reached + 1)
    BY <1>2, <2>1, WalkGoesOn
  <2> QED
    BY <2>2 DEF Walk
<1>4. Checked' /\ Early'
  BY <1>1 DEF AtWalk, Checked, Early
<1> QED
  BY <1>1, <1>3, <1>4 DEF AtWalk

\* The walk ends with all nodes visited, or with fewer than there are in a graph that
\* is no tree: a node that was visited twice would make them more.
LEMMA WalkOver ==
  ASSUME AtWalk, ~Walking
  PROVE  /\ reached = Size => AllRooted(Graph)
         /\ reached # Size => ~IsTree(Graph)
<1>1. PICK V : WalkState(Graph, V, pending, reached)
  BY DEF AtWalk
<1>2. IsGraph(Graph) /\ AllLinked(Graph)
  BY DEF AtWalk, Checked
<1>3. /\ reached <= Size
      /\ pending = <<>> /\ reached = Size => AllRooted(Graph)
      /\ pending = <<>> /\ reached # Size => ~IsTree(Graph)
  BY <1>1, <1>2, WalkEnds DEF Size
<1> QED
  BY <1>3 DEF Walking

\* The walk refuses no tree.
LEMMA StageWalkRefuses ==
  ASSUME AtWalk, WalkRefuses
  PROVE  Verdict(record) = "refused"
BY WalkOver DEF WalkRefuses, Verdict, Graph

\* After the walk the thread begins at the current node or at the leaf looked for.
LEMMA StageWalked ==
  ASSUME AtWalk, Walked
  PROVE  \/ stage' = "leaf" /\ AtLeaf'
         \/ stage' = "climb" /\ AtClimb'
<1>1. UNCHANGED <<record, Graph>> /\ UNCHANGED <<items, omitted, turns, position>>
  BY DEF Walked, Graph
<1>2. AllRooted(Graph) /\ Checked /\ Early
  BY WalkOver DEF Walked, AtWalk
<1>3. Sound' /\ Early'
  BY <1>1, <1>2 DEF Sound, Checked, Early
<1>4. CASE record.current \in DOMAIN Graph
  <2>1. path' = <<record.current>> /\ stage' = "climb"
    BY <1>4 DEF Walked
  <2>2. IsDisplayed(record, record.current)
    BY <1>4 DEF IsDisplayed, Graph
  <2>3. /\ path' \in Seq(DOMAIN Graph) /\ path' # <<>> /\ Len(path') = 1
        /\ path'[Len(path')] = record.current
    BY <1>4, <2>1
  <2> QED
    BY <1>1, <1>3, <2>1, <2>2, <2>3 DEF AtClimb
<1>5. CASE record.current \notin DOMAIN Graph
  <2>1. PICK root \in Roots(Graph) : path' = <<root>>
    BY <1>5 DEF Walked
  <2>2. stage' = "leaf"
    BY <1>5 DEF Walked
  <2>3. root \in DOMAIN Graph /\ Lastborn(Graph, root)
    BY <1>2, LastbornRoot DEF Checked, Roots
  <2> QED
    BY <1>1, <1>3, <1>5, <2>1, <2>2, <2>3 DEF AtLeaf
<1> QED
  BY <1>4, <1>5

-----------------------------------------------------------------------------
(* The thread *)

\* Down to a last child, or the leaf is found.
LEMMA StageDescend ==
  ASSUME AtLeaf, Descend
  PROVE  \/ stage' = "leaf" /\ AtLeaf'
         \/ stage' = "climb" /\ AtClimb'
<1>1. UNCHANGED <<record, Graph>> /\ UNCHANGED <<items, omitted, turns, position>>
  BY DEF Descend, Graph
<1>2. Sound' /\ Early' /\ Sound
  BY <1>1 DEF AtLeaf, Sound, Checked, Early
<1>3. PICK n \in DOMAIN Graph : path = <<n>> /\ Lastborn(Graph, n)
  BY DEF AtLeaf
<1>4. CASE Graph[n].children # <<>>
  <2>1. path' = <<Last(Graph[n].children)>> /\ stage' = "leaf"
    BY <1>3, <1>4 DEF Descend
  <2>2. Last(Graph[n].children) \in DOMAIN Graph /\ Lastborn(Graph, Last(Graph[n].children))
    BY <1>2, <1>3, <1>4, LastbornChild DEF Sound, Checked
  <2> QED
    BY <1>1, <1>2, <2>1, <2>2 DEF AtLeaf
<1>5. CASE Graph[n].children = <<>>
  <2>1. path' = <<n>> /\ stage' = "climb"
    BY <1>3, <1>5 DEF Descend
  <2>2. IsDisplayed(record, n)
    BY <1>3, <1>5 DEF AtLeaf, IsDisplayed, Lastborn, Graph
  <2>3. /\ path' \in Seq(DOMAIN Graph) /\ path' # <<>> /\ Len(path') = 1
        /\ path'[Len(path')] = n
    BY <2>1
  <2> QED
    BY <1>1, <1>2, <2>1, <2>2, <2>3 DEF AtClimb
<1> QED
  BY <1>4, <1>5

\* Up to a parent; at the root the path is the thread.
LEMMA StageClimb ==
  ASSUME AtClimb, Climb
  PROVE  \/ stage' = "climb" /\ AtClimb'
         \/ stage' = "read" /\ AtRead'
<1>1. UNCHANGED <<record, Graph>> /\ UNCHANGED <<items, omitted, turns, position>>
  BY DEF Climb, Graph
<1>2. Sound' /\ Early' /\ Sound /\ Early /\ IsGraph(Graph) /\ AllLinked(Graph)
  BY <1>1 DEF AtClimb, Sound, Checked, Early
<1>3. /\ path \in Seq(DOMAIN Graph) /\ Len(path) \in Nat \ {0}
      /\ \A i \in 2 .. Len(path) : Graph[path[i]].parent = path[i - 1]
      /\ IsDisplayed(record, path[Len(path)])
      /\ path[1] \in DOMAIN Graph
      /\ \A i \in 1 .. Len(path) : path[i] \in DOMAIN Graph
  BY DEF AtClimb
<1>4. CASE Graph[path[1]].parent # None
  <2> DEFINE p == Graph[path[1]].parent
             longer == <<p>> \o path
  <2>1. path' = longer /\ stage' = "climb"
    BY <1>4 DEF Climb
  <2>2. p \in DOMAIN Graph
    BY <1>2, <1>3, <1>4 DEF AllLinked, Linked
  <2>3. /\ longer \in Seq(DOMAIN Graph) /\ Len(longer) = Len(path) + 1
        /\ longer[1] = p /\ \A i \in 1 .. Len(path) : longer[i + 1] = path[i]
    <3> HIDE DEF p
    <3> QED
      BY <1>3, <2>2
  <2> HIDE DEF longer
  <2>4. ASSUME NEW i \in 2 .. Len(longer)
        PROVE  Graph[longer[i]].parent = longer[i - 1]
    <3>1. i - 1 \in 1 .. Len(path) /\ longer[i] = path[i - 1]
      <4>1. i - 1 \in 1 .. Len(path) /\ (i - 1) + 1 = i
        BY <1>3, <2>3
      <4> QED
        BY <2>3, <4>1
    <3>2. CASE i = 2
      BY <2>3, <3>1, <3>2
    <3>3. CASE i # 2
      <4>1. i - 1 \in 2 .. Len(path) /\ i - 2 \in 1 .. Len(path) /\ (i - 2) + 1 = i - 1 /\ (i - 1) - 1 = i - 2
        BY <1>3, <2>3, <3>3
      <4>2. longer[i - 1] = path[i - 2] /\ Graph[path[i - 1]].parent = path[i - 2]
        BY <1>3, <2>3, <4>1
      <4> QED
        BY <3>1, <4>2
    <3> QED
      BY <3>2, <3>3
  <2>5. longer[Len(longer)] = path[Len(path)]
    BY <1>3, <2>3
  <2> QED
    BY <1>1, <1>2, <1>3, <2>1, <2>3, <2>4, <2>5 DEF AtClimb
<1>5. CASE Graph[path[1]].parent = None
  <2>1. path' = path /\ stage' = "read"
    BY <1>5 DEF Climb
  <2>2. Rooted(Graph, path, Len(path))
    BY <1>3, <1>5 DEF Rooted
  <2>3. path = ThreadOf(record)
    <3>1. PICK root : Roots(Graph) = {root}
      BY <1>2 DEF Sound, Checked
    <3> QED
      BY <1>2, <1>3, <2>2, <3>1, ThreadIs DEF Sound, Graph
  <2>4. /\ position = 1 /\ items = <<>> /\ turns = <<>> /\ omitted = Nothing
    BY <1>2 DEF Early
  <2>5. SubSeq(path, 1, 0) = <<>>
    BY SubSeqEmpty
  <2>6. items = TurnsAmong(Graph, SubSeq(path, 1, position - 1))
    <3>1. position - 1 = 0
      BY <2>4
    <3>2. TurnsAmong(Graph, <<>>) = <<>>
      BY NoTurns
    <3> QED
      BY <2>4, <2>5, <3>1, <3>2
  <2>7. omitted \in Counts /\ omitted.folded = 0 /\ Omitted = 0
    BY <2>4 DEF Counts, Nothing, Omitted
  <2>8. AtRead
    BY <1>2, <1>3, <2>3, <2>4, <2>6, <2>7 DEF AtRead, OnThread
  <2>9. UNCHANGED <<record, path, position, items, omitted, turns>>
    BY <2>1 DEF Climb
  <2> QED
    BY <2>1, <2>8, <2>9 DEF AtRead, OnThread, Sound, Checked, Omitted, Message, Graph
<1> QED
  BY <1>4, <1>5

-----------------------------------------------------------------------------
(* read_message *)

\* What has been validated is a tree.
LEMMA SoundIsTree ==
  ASSUME Sound
  PROVE  record.id # None /\ IsTree(Graph) /\ IsGraph(Graph)
BY WalkedIsTree DEF Sound, Checked

\* The part of the thread that has been read, and one node more.
LEMMA ReadOne ==
  ASSUME AtRead, Reading
  PROVE  /\ position \in 1 .. Len(path) /\ path[position] \in DOMAIN Graph
         /\ (position + 1) - 1 = position
         /\ TurnsAmong(Graph, SubSeq(path, 1, position)) = items \o AsTurn(Graph, path[position])
<1>1. /\ path \in Seq(DOMAIN Graph) /\ position \in 1 .. Len(path) + 1 /\ position <= Len(path)
      /\ items = TurnsAmong(Graph, SubSeq(path, 1, position - 1))
  BY DEF AtRead, OnThread, Reading
<1>2. Len(path) \in Nat /\ position \in 1 .. Len(path)
  BY <1>1
<1>3. /\ SubSeq(path, 1, position - 1) \in Seq(DOMAIN Graph)
      /\ path[position] \in DOMAIN Graph
      /\ SubSeq(path, 1, position) = Append(SubSeq(path, 1, position - 1), path[position])
  BY <1>1, <1>2, Beginnings
<1>4. TurnsAmong(Graph, Append(SubSeq(path, 1, position - 1), path[position]))
          = TurnsAmong(Graph, SubSeq(path, 1, position - 1)) \o AsTurn(Graph, path[position])
  BY <1>3, TurnsGrow
<1>5. (position + 1) - 1 = position
  BY <1>2
<1>6. TurnsAmong(Graph, SubSeq(path, 1, position)) = items \o AsTurn(Graph, path[position])
  BY <1>1, <1>3, <1>4
<1> QED
  BY <1>2, <1>3, <1>5, <1>6

\* A readable node is counted or becomes a turn.
LEMMA StageReadOn ==
  ASSUME AtRead, Reading, ~Unreadable(Message(path[position])),
         UNCHANGED <<record, path, turns>>, position' = position + 1,
         \/ /\ Message(path[position]).kind = "turn"
            /\ items' = Append(items, path[position]) /\ UNCHANGED omitted
         \/ \E reason \in {"structural", "hidden", "reasoning"} :
               /\ Message(path[position]).kind # "turn"
               /\ UNCHANGED items
               /\ omitted' = [omitted EXCEPT ![reason] = @ + 1]
  PROVE  AtRead'
<1>1. /\ UNCHANGED Graph /\ Sound' /\ OnThread'
  BY DEF AtRead, OnThread, Sound, Checked, Graph
<1>2. /\ position \in 1 .. Len(path) /\ path[position] \in DOMAIN Graph
      /\ (position + 1) - 1 = position
      /\ TurnsAmong(Graph, SubSeq(path, 1, position)) = items \o AsTurn(Graph, path[position])
  BY ReadOne
<1>3. /\ path \in Seq(DOMAIN Graph) /\ Len(path) \in Nat
      /\ items \in Seq(DOMAIN Graph) /\ Len(items) \in Nat
      /\ omitted \in Counts /\ omitted.folded = 0
      /\ position - 1 = Len(items) + Omitted
  BY DEF AtRead, OnThread
<1>4. items' \in Seq(DOMAIN Graph) /\ items' = items \o AsTurn(Graph, path[position])
  <2>1. CASE Message(path[position]).kind = "turn" /\ items' = Append(items, path[position])
    <3>1. AsTurn(Graph, path[position]) = <<path[position]>>
      BY <2>1 DEF AsTurn, Message
    <3>2. Append(items, path[position]) = items \o <<path[position]>>
      BY <1>2, <1>3, AppendIsConcat
    <3> QED
      BY <1>2, <1>3, <2>1, <3>1, <3>2
  <2>2. CASE Message(path[position]).kind # "turn" /\ items' = items
    <3>1. AsTurn(Graph, path[position]) = <<>>
      BY <2>2 DEF AsTurn, Message
    <3>2. items \o <<>> = items
      BY <1>3, ConcatEmptySeq
    <3> QED
      BY <1>3, <2>2, <3>1, <3>2
  <2> QED
    BY <2>1, <2>2
<1>5. /\ omitted' \in Counts /\ omitted'.folded = 0
      /\ (position + 1) - 1 = Len(items') + Omitted'
  <2>0. /\ omitted.structural \in Nat /\ omitted.hidden \in Nat /\ omitted.reasoning \in Nat
        /\ omitted = [structural |-> omitted.structural, hidden |-> omitted.hidden,
                      reasoning |-> omitted.reasoning, folded |-> omitted.folded]
    BY <1>3 DEF Counts
  <2>1. CASE items' = Append(items, path[position]) /\ UNCHANGED omitted
    <3>1. Len(items') = Len(items) + 1 /\ Omitted' = Omitted
      BY <1>2, <1>3, <2>1 DEF Omitted
    <3>2. Omitted \in Nat
      BY <2>0 DEF Omitted
    <3> QED
      BY <1>2, <1>3, <2>1, <3>1, <3>2
  <2>2. ASSUME NEW reason \in {"structural", "hidden", "reasoning"}, UNCHANGED items,
               omitted' = [omitted EXCEPT ![reason] = @ + 1]
        PROVE  /\ omitted' \in Counts /\ omitted'.folded = 0
               /\ (position + 1) - 1 = Len(items') + Omitted'
    <3>1. omitted' \in Counts /\ omitted'.folded = 0 /\ Omitted' = Omitted + 1 /\ Omitted \in Nat
      <4>1. CASE reason = "structural"
        <5>1. omitted' = [structural |-> omitted.structural + 1, hidden |-> omitted.hidden,
                          reasoning |-> omitted.reasoning, folded |-> omitted.folded]
          BY <2>0, <2>2, <4>1
        <5> QED
          <6>1. omitted' \in Counts /\ omitted'.folded = 0
            BY <1>3, <2>0, <5>1 DEF Counts
          <6>2. Omitted' = (omitted.structural + 1) + omitted.hidden + omitted.reasoning
            BY <5>1 DEF Omitted
          <6>3. Omitted' = Omitted + 1 /\ Omitted \in Nat
            BY <2>0, <6>2 DEF Omitted
          <6> QED
            BY <6>1, <6>3
      <4>2. CASE reason = "hidden"
        <5>1. omitted' = [structural |-> omitted.structural, hidden |-> omitted.hidden + 1,
                          reasoning |-> omitted.reasoning, folded |-> omitted.folded]
          BY <2>0, <2>2, <4>2
        <5> QED
          <6>1. omitted' \in Counts /\ omitted'.folded = 0
            BY <1>3, <2>0, <5>1 DEF Counts
          <6>2. Omitted' = omitted.structural + (omitted.hidden + 1) + omitted.reasoning
            BY <5>1 DEF Omitted
          <6>3. Omitted' = Omitted + 1 /\ Omitted \in Nat
            BY <2>0, <6>2 DEF Omitted
          <6> QED
            BY <6>1, <6>3
      <4>3. CASE reason = "reasoning"
        <5>1. omitted' = [structural |-> omitted.structural, hidden |-> omitted.hidden,
                          reasoning |-> omitted.reasoning + 1, folded |-> omitted.folded]
          BY <2>0, <2>2, <4>3
        <5> QED
          <6>1. omitted' \in Counts /\ omitted'.folded = 0
            BY <1>3, <2>0, <5>1 DEF Counts
          <6>2. Omitted' = omitted.structural + omitted.hidden + (omitted.reasoning + 1)
            BY <5>1 DEF Omitted
          <6>3. Omitted' = Omitted + 1 /\ Omitted \in Nat
            BY <2>0, <6>2 DEF Omitted
          <6> QED
            BY <6>1, <6>3
      <4> QED
        BY <2>2, <4>1, <4>2, <4>3
    <3> QED
      BY <1>2, <1>3, <2>2, <3>1
  <2> QED
    BY <2>1, <2>2
<1>6. \A j \in 1 .. position : ~Unreadable(Message(path[j]))
  <2> SUFFICES ASSUME NEW j \in 1 .. position PROVE ~Unreadable(Message(path[j]))
    OBVIOUS
  <2>1. j = position \/ j \in 1 .. position - 1
    BY <1>2
  <2> QED
    BY <2>1 DEF AtRead
<1>7. position + 1 \in 1 .. Len(path) + 1
  BY <1>2, <1>3
<1>8. turns = <<>>
  BY DEF AtRead
<1> QED
  BY <1>1, <1>2, <1>4, <1>5, <1>6, <1>7, <1>8 DEF AtRead, Message

\* A node that is left out is counted.
LEMMA StageOmit ==
  ASSUME AtRead, NEW reason \in {"structural", "hidden", "reasoning"}, Omit(reason)
  PROVE  AtRead'
<1>1. ~Unreadable(Message(path[position])) /\ Message(path[position]).kind # "turn"
  BY DEF Omit, Unreadable
<1> QED
  BY <1>1, StageReadOn DEF Omit

\* A node that says something is a turn.
LEMMA StageReadTurn ==
  ASSUME AtRead, ReadTurn
  PROVE  AtRead'
<1>1. ~Unreadable(Message(path[position]))
  BY DEF ReadTurn, Unreadable
<1> QED
  BY <1>1, StageReadOn DEF ReadTurn

\* One that is not is what becomes of the record.
LEMMA ReadStops ==
  ASSUME AtRead, Reading, Unreadable(Message(path[position]))
  PROVE  Verdict(record) = IF Message(path[position]).kind = "unhashable"
                           THEN "escaped" ELSE "refused"
<1>1. record.id # None /\ IsTree(record.mapping)
  BY SoundIsTree DEF AtRead, OnThread, Graph
<1>2. ThreadOf(record) = path /\ path \in Seq(DOMAIN Graph) /\ position \in 1 .. Len(path)
  BY ReadOne DEF AtRead, OnThread
<1>3. /\ Unreadable(record.mapping[ThreadOf(record)[position]].message)
      /\ \A j \in 1 .. position - 1 : ~Unreadable(record.mapping[ThreadOf(record)[j]].message)
  BY <1>2 DEF AtRead, Message, Graph
<1> QED
  BY <1>1, <1>2, <1>3, VerdictUnreadable DEF Message, Graph

\* An unreadable message refuses its record,
LEMMA StageReadRefuses ==
  ASSUME AtRead, ReadRefuses
  PROVE  Verdict(record) = "refused"
BY ReadStops DEF ReadRefuses, Unreadable

\* or escapes from it.
LEMMA StageReadEscapes ==
  ASSUME AtRead, ReadEscapes
  PROVE  Verdict(record) = "escaped"
BY ReadStops DEF ReadEscapes, Unreadable

\* The whole thread has been read.
LEMMA StageReadAll ==
  ASSUME AtRead, ReadAll
  PROVE  AtFold'
<1>1. /\ UNCHANGED <<record, path, items, omitted, turns>> /\ position' = 1 /\ UNCHANGED Graph
  BY DEF ReadAll, Graph
<1>2. /\ path \in Seq(DOMAIN Graph) /\ Len(path) \in Nat /\ position \in 1 .. Len(path) + 1
      /\ position > Len(path)
      /\ items \in Seq(DOMAIN Graph) /\ Len(items) \in Nat /\ omitted \in Counts
      /\ OnThread /\ path = ThreadOf(record)
      /\ items = TurnsAmong(Graph, SubSeq(path, 1, position - 1))
      /\ omitted.folded = 0 /\ turns = <<>>
      /\ position - 1 = Len(items) + Omitted
      /\ \A j \in 1 .. position - 1 : ~Unreadable(Message(path[j]))
  BY DEF AtRead, OnThread, ReadAll
<1>3. position - 1 = Len(path) /\ SubSeq(path, 1, Len(path)) = path /\ DOMAIN path = 1 .. Len(path)
  BY <1>2
<1>4. items = TurnsOf(record)
  BY <1>2, <1>3 DEF TurnsOf, Graph
<1>5. AllRead
  BY <1>2, <1>3, <1>4 DEF AllRead
<1>6. AllRead'
  BY <1>1, <1>5 DEF AllRead, OnThread, Sound, Checked, Message, Omitted, Graph
<1>7. SubSeq(items, 1, 0) = <<>> /\ FlattenSeq(<<>>) = <<>>
  BY SubSeqEmpty DEF FlattenSeq
<1>8. ~IsFolded(record, 1)
  BY DEF IsFolded
<1>9. StandsRight(record, <<>>)
  BY DEF StandsRight
<1>10. ~HasTime' /\ ~TimeAmong(position - 1)'
  BY <1>1, <1>2 DEF HasTime, TimeAmong
<1>11. <<>> \in Seq(Seq(DOMAIN Graph)) /\ Len(<<>>) = 0
  BY EmptySeq
<1>12. position' \in 1 .. Len(items) + 1 /\ position' - 1 = 0
  BY <1>1, <1>2
<1>13. (/\ position <= Len(items) => ~IsFolded(record, position)
        /\ StandsRight(record, turns)
        /\ HasTime <=> TimeAmong(position - 1))'
  BY <1>1, <1>2, <1>8, <1>9, <1>10
<1>14. (/\ position \in 1 .. Len(items) + 1
        /\ turns \in Seq(Seq(DOMAIN Graph))
        /\ FlattenSeq(turns) = SubSeq(items, 1, position - 1)
        /\ position - 1 = Len(turns) + omitted.folded)'
  <2>1. SubSeq(items', 1, position' - 1) = <<>> /\ FlattenSeq(turns') = <<>>
    BY <1>1, <1>2, <1>7, <1>12
  <2>2. position' - 1 = Len(turns') + omitted'.folded
    BY <1>1, <1>2, <1>11, <1>12
  <2>3. turns' \in Seq(Seq(DOMAIN Graph'))
    BY <1>1, <1>2, <1>11
  <2>4. position' \in 1 .. Len(items') + 1
    BY <1>1, <1>12
  <2> QED
    BY <2>1, <2>2, <2>3, <2>4
<1> QED
  BY <1>6, <1>13, <1>14 DEF AtFold

-----------------------------------------------------------------------------
(* fold_tool_calls *)

\* What comes before a place does not change when something is appended.
LEMMA BeforeAppend ==
  ASSUME NEW T, NEW seq \in Seq(T), NEW x \in T, NEW k \in 1 .. Len(seq) + 1
  PROVE  SubSeq(Append(seq, x), 1, k - 1) = SubSeq(seq, 1, k - 1)
<1> DEFINE longer == Append(seq, x)
<1>1. Len(seq) \in Nat /\ k - 1 \in 0 .. Len(seq) /\ 1 \in Int /\ k - 1 \in Int
  BY LenProperties
<1>2. \A i \in 1 .. Len(seq) : longer[i] = seq[i]
  BY AppendProperties
<1>3. \A i \in 1 .. k - 1 : i \in 1 .. Len(seq) /\ seq[i] \in T /\ longer[i] \in T
  BY <1>1, <1>2, ElementOfSeq
<1> HIDE DEF longer
<1>4. /\ SubSeq(seq, 1, k - 1) \in Seq(T)
      /\ Len(SubSeq(seq, 1, k - 1)) = k - 1
      /\ \A i \in 1 .. k - 1 : SubSeq(seq, 1, k - 1)[i] = seq[i]
  BY <1>1, <1>3, SubSeqProperties
<1>5. /\ SubSeq(longer, 1, k - 1) \in Seq(T)
      /\ Len(SubSeq(longer, 1, k - 1)) = k - 1
      /\ \A i \in 1 .. k - 1 : SubSeq(longer, 1, k - 1)[i] = longer[i]
  BY <1>1, <1>3, SubSeqProperties
<1>6. \A i \in 1 .. k - 1 : SubSeq(longer, 1, k - 1)[i] = SubSeq(seq, 1, k - 1)[i]
  BY <1>2, <1>3, <1>4, <1>5
<1> QED
  BY <1>4, <1>5, <1>6, SeqEqual DEF longer

\* One turn more stands right if its own parts do.
LEMMA StandsRightMore ==
  ASSUME NEW r, NEW S, NEW all \in Seq(Seq(S)), NEW one \in Seq(S), StandsRight(r, all),
         \A j \in DOMAIN one : (j > 1) = IsFolded(r, Len(FlattenSeq(all)) + j)
  PROVE  StandsRight(r, Append(all, one))
<1> DEFINE longer == Append(all, one)
<1> SUFFICES ASSUME NEW k \in DOMAIN longer, NEW j \in DOMAIN longer[k]
             PROVE  (j > 1) = IsFolded(r, Len(FlattenSeq(SubSeq(longer, 1, k - 1))) + j)
  BY DEF StandsRight
<1>1. /\ Len(all) \in Nat /\ DOMAIN all = 1 .. Len(all) /\ DOMAIN longer = 1 .. Len(all) + 1
      /\ \A i \in 1 .. Len(all) : longer[i] = all[i]
      /\ longer[Len(all) + 1] = one
  OBVIOUS
<1>2. SubSeq(longer, 1, k - 1) = SubSeq(all, 1, k - 1)
  <2> DEFINE T == Seq(S)
  <2>1. all \in Seq(T) /\ one \in T /\ k \in 1 .. Len(all) + 1
    BY <1>1
  <2> HIDE DEF T
  <2> QED
    BY <2>1, BeforeAppend
<1> HIDE DEF longer
<1>3. CASE k \in 1 .. Len(all)
  BY <1>1, <1>2, <1>3 DEF StandsRight
<1>4. CASE k = Len(all) + 1
  <2>1. SubSeq(longer, 1, k - 1) = all
    <3>1. k - 1 = Len(all)
      BY <1>1, <1>4
    <3>2. SubSeq(all, 1, Len(all)) = all
      BY SubSeqFull
    <3> QED
      BY <1>2, <3>1, <3>2
  <2> QED
    BY <1>1, <1>4, <2>1
<1> QED
  BY <1>1, <1>3, <1>4

\* What it is for a turn to be the result of the one before it.
LEMMA FoldedIs ==
  ASSUME AllRead, NEW k
  PROVE  IsFolded(record, k) <=>
             /\ k > 1
             /\ IsCall(Message(items[k - 1]))
             /\ Answers(Message(items[k]), Message(items[k - 1]))
BY DEF AllRead, IsFolded, Message, Graph

\* The beginning of a sequence, with one element more.
LEMMA OneMore ==
  ASSUME NEW T, NEW seq \in Seq(T), NEW n \in 1 .. Len(seq)
  PROVE  SubSeq(seq, 1, n) = SubSeq(seq, 1, n - 1) \o <<seq[n]>>
<1>1. /\ SubSeq(seq, 1, n - 1) \in Seq(T) /\ seq[n] \in T
      /\ SubSeq(seq, 1, n) = Append(SubSeq(seq, 1, n - 1), seq[n])
  BY Beginnings
<1> QED
  BY <1>1, AppendIsConcat

\* Two elements one after the other are two elements at once.
LEMMA TwoMore ==
  ASSUME NEW T, NEW seq \in Seq(T), NEW a \in T, NEW b \in T
  PROVE  (seq \o <<a>>) \o <<b>> = seq \o <<a, b>>
<1> DEFINE left == (seq \o <<a>>) \o <<b>>
           right == seq \o <<a, b>>
           n == Len(seq)
<1>1. n \in Nat /\ <<a>> \in Seq(T) /\ <<b>> \in Seq(T) /\ <<a, b>> \in Seq(T)
  OBVIOUS
<1>2. /\ seq \o <<a>> \in Seq(T) /\ Len(seq \o <<a>>) = n + 1
      /\ \A i \in 1 .. n : (seq \o <<a>>)[i] = seq[i]
      /\ (seq \o <<a>>)[n + 1] = a
  OBVIOUS
<1>3. /\ left \in Seq(T) /\ Len(left) = n + 2
      /\ \A i \in 1 .. n : left[i] = seq[i]
      /\ left[n + 1] = a /\ left[n + 2] = b
  <2> DEFINE s == seq \o <<a>>
  <2>1. s \in Seq(T) /\ Len(s) = n + 1
    BY <1>2
  <2> HIDE DEF s, n
  <2>2. /\ s \o <<b>> \in Seq(T) /\ Len(s \o <<b>>) = n + 2
        /\ \A i \in 1 .. n + 1 : (s \o <<b>>)[i] = s[i]
        /\ (s \o <<b>>)[n + 2] = b
    BY <1>1, <2>1
  <2>3. \A i \in 1 .. n : i \in 1 .. n + 1
    BY <1>1
  <2>4. n + 1 \in 1 .. n + 1
    BY <1>1
  <2> QED
    BY <1>2, <2>2, <2>3, <2>4 DEF s
<1>4. /\ right \in Seq(T) /\ Len(right) = n + 2
      /\ \A i \in 1 .. n : right[i] = seq[i]
      /\ right[n + 1] = a /\ right[n + 2] = b
  OBVIOUS
<1> HIDE DEF left, right, n
<1>5. ASSUME NEW i \in 1 .. n + 2
      PROVE  left[i] = right[i]
  <2>1. i \in 1 .. n \/ i = n + 1 \/ i = n + 2
    BY <1>1
  <2> QED
    BY <1>3, <1>4, <2>1
<1>6. left = right
  BY <1>3, <1>4, <1>5, SeqEqual
<1> QED
  BY <1>6 DEF left, right

\* A turn is added, of one item or of a call and its answer.
LEMMA TurnAdded ==
  ASSUME AtFold, NEW one \in Seq(DOMAIN Graph), NEW next \in 1 .. Len(items) + 1,
         UNCHANGED <<record, path, items>>,
         turns' = Append(turns, one), position' = next,
         omitted' \in Counts, Omitted' = Omitted,
         next - 1 = Len(turns) + 1 + omitted'.folded,
         SubSeq(items, 1, position - 1) \o one = SubSeq(items, 1, next - 1),
         next <= Len(items) => ~IsFolded(record, next),
         \A j \in DOMAIN one : (j > 1) = IsFolded(record, position - 1 + j),
         one[1] = items[position],
         TimeAmong(next - 1) <=> TimeAmong(position - 1) \/ Message(items[position]).time = "time"
  PROVE  AtFold'
<1>1. /\ UNCHANGED Graph /\ items \in Seq(DOMAIN Graph) /\ Len(items) \in Nat
      /\ position \in 1 .. Len(items) + 1 /\ AllRead
      /\ turns \in Seq(Seq(DOMAIN Graph)) /\ Len(turns) \in Nat
      /\ FlattenSeq(turns) = SubSeq(items, 1, position - 1)
      /\ StandsRight(record, turns)
      /\ HasTime <=> TimeAmong(position - 1)
  <2>1. /\ items \in Seq(DOMAIN Graph) /\ AllRead /\ position \in 1 .. Len(items) + 1
        /\ turns \in Seq(Seq(DOMAIN Graph))
        /\ FlattenSeq(turns) = SubSeq(items, 1, position - 1)
        /\ StandsRight(record, turns)
        /\ HasTime <=> TimeAmong(position - 1)
    BY DEF AtFold, AllRead
  <2>2. UNCHANGED Graph
    BY DEF Graph
  <2>3. Len(items) \in Nat /\ Len(turns) \in Nat
    BY <2>1, LenProperties
  <2> QED
    BY <2>1, <2>2, <2>3
<1>2. AllRead'
  BY <1>1 DEF AllRead, OnThread, Sound, Checked, Message, Graph
<1>3. turns' \in Seq(Seq(DOMAIN Graph)) /\ Len(turns') = Len(turns) + 1
  BY <1>1
<1>4. FlattenSeq(turns') = SubSeq(items, 1, next - 1)
  BY <1>1, FlattenMore
<1>5. Len(FlattenSeq(turns)) = position - 1
  <2>1. \A i \in 1 .. position - 1 : items[i] \in DOMAIN Graph
    BY <1>1
  <2>2. Len(SubSeq(items, 1, position - 1)) = IF 1 <= position - 1 THEN position - 1 - 1 + 1 ELSE 0
    BY <1>1, <2>1, SubSeqProperties
  <2> QED
    BY <1>1, <2>2
<1>6. StandsRight(record, turns')
  <2>1. \A j \in DOMAIN one : (j > 1) = IsFolded(record, Len(FlattenSeq(turns)) + j)
    BY <1>5
  <2> QED
    BY <1>1, <2>1, StandsRightMore
<1>7. HasTime' <=> HasTime \/ Message(items[position]).time = "time"
  <2>1. /\ DOMAIN turns = 1 .. Len(turns) /\ DOMAIN turns' = 1 .. Len(turns) + 1
        /\ \A k \in 1 .. Len(turns) : turns'[k] = turns[k]
        /\ turns'[Len(turns) + 1] = one
    BY <1>1
  <2>2. HasTime' <=> \E k \in DOMAIN turns' : Message(turns'[k][1]).time = "time"
    BY <1>1 DEF HasTime, Message
  <2>3. ASSUME NEW k \in DOMAIN turns', Message(turns'[k][1]).time = "time"
        PROVE  HasTime \/ Message(items[position]).time = "time"
    <3>1. CASE k = Len(turns) + 1
      BY <2>1, <2>3, <3>1
    <3>2. CASE k # Len(turns) + 1
      <4>1. k \in 1 .. Len(turns)
        <5>1. Len(turns) \in Nat /\ k \in 1 .. Len(turns) + 1
          BY <1>1, <2>1
        <5> QED
          BY ONLY <3>2, <5>1
      <4> QED
        BY <2>1, <2>3, <4>1 DEF HasTime
    <3> QED
      BY <3>1, <3>2
  <2>4. HasTime => HasTime'
    <3>1. \A k \in DOMAIN turns : k \in DOMAIN turns' /\ turns'[k] = turns[k]
      BY <1>1, <2>1
    <3> QED
      BY <2>2, <3>1 DEF HasTime
  <2>5. Message(items[position]).time = "time" => HasTime'
    <3>1. Len(turns) + 1 \in DOMAIN turns'
      BY <1>1, <2>1
    <3> QED
      BY <2>1, <2>2, <3>1
  <2> QED
    BY <2>2, <2>3, <2>4, <2>5
<1>8. TimeAmong(position - 1)' <=> TimeAmong(next - 1)
  BY <1>1 DEF TimeAmong, Message
<1>9. HasTime' <=> TimeAmong(position - 1)'
  BY <1>1, <1>7, <1>8
<1>10. position' - 1 = Len(turns') + omitted'.folded
  BY <1>3
<1>11. (/\ position \in 1 .. Len(items) + 1
        /\ turns \in Seq(Seq(DOMAIN Graph))
        /\ FlattenSeq(turns) = SubSeq(items, 1, position - 1))'
  BY <1>1, <1>3, <1>4
<1>12. (/\ position <= Len(items) => ~IsFolded(record, position)
        /\ StandsRight(record, turns))'
  BY <1>6
<1> QED
  BY <1>2, <1>9, <1>10, <1>11, <1>12 DEF AtFold

\* A turn that is the result of none stands alone.
LEMMA StageKeep ==
  ASSUME AtFold, Keep
  PROVE  AtFold'
<1> DEFINE p == position
           one == <<items[p]>>
<1>1. /\ UNCHANGED <<record, path, items, omitted>> /\ turns' = Append(turns, one)
      /\ position' = p + 1 /\ p <= Len(items) /\ ~Folds /\ stage = "fold"
  BY DEF Keep
<1>2. /\ AllRead /\ items \in Seq(DOMAIN Graph) /\ Len(items) \in Nat /\ p \in 1 .. Len(items)
      /\ p - 1 = Len(turns) + omitted.folded /\ Len(turns) \in Nat /\ omitted \in Counts
      /\ ~IsFolded(record, p)
  BY <1>1 DEF AtFold, AllRead
<1>3. one \in Seq(DOMAIN Graph) /\ one[1] = items[p] /\ DOMAIN one = {1}
  BY <1>2
<1>4. p + 1 \in 1 .. Len(items) + 1 /\ (p + 1) - 1 = p /\ p - 1 + 1 = p
  BY <1>2
<1>5. SubSeq(items, 1, p - 1) \o one = SubSeq(items, 1, p)
  BY <1>2, OneMore
<1>6. p + 1 <= Len(items) => ~IsFolded(record, p + 1)
  <2> SUFFICES ASSUME p + 1 <= Len(items), IsFolded(record, p + 1) PROVE FALSE
    OBVIOUS
  <2>1. IsCall(Message(items[p])) /\ Answers(Message(items[p + 1]), Message(items[p]))
    BY <1>2, <1>4, FoldedIs
  <2>2. p < Len(items)
    BY <1>2
  <2> QED
    BY <1>1, <2>1, <2>2 DEF Folds
<1>7. \A j \in DOMAIN one : (j > 1) = IsFolded(record, p - 1 + j)
  <2>1. IsFolded(record, p) = FALSE
    BY <1>2 DEF IsFolded
  <2> SUFFICES ASSUME NEW j \in DOMAIN one
               PROVE  (j > 1) = IsFolded(record, p - 1 + j)
    OBVIOUS
  <2>2. j = 1 /\ (j > 1) = FALSE
    BY <1>3
  <2> QED
    BY <1>4, <2>1, <2>2
<1>8. TimeAmong(p) <=> TimeAmong(p - 1) \/ Message(items[p]).time = "time"
  <2>1. \A i : i \in 1 .. p <=> i \in 1 .. p - 1 \/ i = p
    BY <1>2
  <2> QED
    BY <1>2, <2>1 DEF TimeAmong
<1>9. p = Len(turns) + 1 + omitted'.folded
  <2>1. omitted.folded \in Nat
    BY <1>2 DEF Counts
  <2> QED
    BY <1>1, <1>2, <2>1
<1>10. omitted' \in Counts /\ Omitted' = Omitted
  BY <1>1, <1>2 DEF Omitted
<1> HIDE DEF p, one
<1> QED
  BY <1>1, <1>3, <1>4, <1>5, <1>6, <1>7, <1>8, <1>9, <1>10, TurnAdded DEF p

\* A call and its result are one turn.
LEMMA StageFold ==
  ASSUME AtFold, Fold
  PROVE  AtFold'
<1> DEFINE p == position
           one == <<items[p], items[p + 1]>>
<1>1. /\ UNCHANGED <<record, path, items>> /\ turns' = Append(turns, one)
      /\ omitted' = [omitted EXCEPT !.folded = @ + 1]
      /\ position' = p + 2 /\ p < Len(items) /\ Folds
  BY DEF Fold, Folds
<1>2. /\ AllRead /\ items \in Seq(DOMAIN Graph) /\ Len(items) \in Nat
      /\ p \in 1 .. Len(items) /\ p + 1 \in 1 .. Len(items)
      /\ p - 1 = Len(turns) + omitted.folded /\ Len(turns) \in Nat /\ omitted \in Counts
      /\ ~IsFolded(record, p)
  BY <1>1 DEF AtFold, AllRead
<1>3. /\ one \in Seq(DOMAIN Graph) /\ one[1] = items[p] /\ DOMAIN one = {1, 2}
      /\ items[p] \in DOMAIN Graph /\ items[p + 1] \in DOMAIN Graph
  BY <1>2
<1>4. /\ p + 2 \in 1 .. Len(items) + 1 /\ (p + 2) - 1 = p + 1
      /\ p - 1 + 1 = p /\ p - 1 + 2 = p + 1 /\ (p + 1) - 1 = p
  BY <1>2
<1>5. SubSeq(items, 1, p - 1) \o one = SubSeq(items, 1, p + 1)
  <2>1. SubSeq(items, 1, p) = SubSeq(items, 1, p - 1) \o <<items[p]>>
    BY <1>2, OneMore
  <2>2. SubSeq(items, 1, p + 1) = SubSeq(items, 1, p) \o <<items[p + 1]>>
    BY <1>2, <1>4, OneMore
  <2>3. SubSeq(items, 1, p - 1) \in Seq(DOMAIN Graph)
    BY <1>2, Beginnings
  <2>4. (SubSeq(items, 1, p - 1) \o <<items[p]>>) \o <<items[p + 1]>> = SubSeq(items, 1, p - 1) \o one
    <3> DEFINE D == DOMAIN Graph
    <3>1. SubSeq(items, 1, p - 1) \in Seq(D) /\ items[p] \in D /\ items[p + 1] \in D
      BY <1>3, <2>3
    <3> HIDE DEF D
    <3> QED
      BY ONLY <3>1, TwoMore DEF one
  <2> QED
    BY <2>1, <2>2, <2>4
<1>6. IsCall(Message(items[p])) /\ Answers(Message(items[p + 1]), Message(items[p]))
  BY <1>1 DEF Folds
<1>7. IsFolded(record, p + 1)
  <2>1. p + 1 > 1
    BY <1>2
  <2> QED
    BY <1>2, <1>4, <1>6, <2>1, FoldedIs
<1>8. ~IsFolded(record, p + 2)
  <2> SUFFICES ASSUME IsFolded(record, p + 2) PROVE FALSE
    OBVIOUS
  <2>1. IsCall(Message(items[p + 1]))
    BY <1>2, <1>4, FoldedIs
  <2> QED
    BY <1>6, <2>1 DEF IsCall, Answers
<1>9. \A j \in DOMAIN one : (j > 1) = IsFolded(record, p - 1 + j)
  <2>1. IsFolded(record, p) = FALSE /\ IsFolded(record, p + 1) = TRUE
    BY <1>2, <1>7 DEF IsFolded
  <2> SUFFICES ASSUME NEW j \in DOMAIN one
               PROVE  (j > 1) = IsFolded(record, p - 1 + j)
    OBVIOUS
  <2>2. CASE j = 1
    <3>1. (j > 1) = FALSE
      BY <2>2
    <3> QED
      BY <1>4, <2>1, <2>2, <3>1
  <2>3. CASE j = 2
    <3>1. (j > 1) = TRUE
      BY <2>3
    <3> QED
      BY <1>4, <2>1, <2>3, <3>1
  <2> QED
    BY <1>3, <2>2, <2>3
<1>10. TimeAmong(p + 1) <=> TimeAmong(p - 1) \/ Message(items[p]).time = "time"
  <2>1. \A i : i \in 1 .. p + 1 <=> i \in 1 .. p - 1 \/ i = p \/ i = p + 1
    BY <1>2
  <2> QED
    BY <1>2, <1>7, <2>1 DEF TimeAmong
<1>11. /\ omitted' \in Counts /\ omitted'.folded = omitted.folded + 1 /\ Omitted' = Omitted
       /\ omitted.folded \in Nat
  <2>1. omitted' = [structural |-> omitted.structural, hidden |-> omitted.hidden,
                    reasoning |-> omitted.reasoning, folded |-> omitted.folded + 1]
    BY <1>1, <1>2 DEF Counts
  <2> QED
    BY <1>2, <2>1 DEF Counts, Omitted
<1>12. p + 1 = Len(turns) + 1 + omitted'.folded
  BY <1>2, <1>11
<1> HIDE DEF p, one
<1> QED
  BY <1>1, <1>3, <1>4, <1>5, <1>8, <1>9, <1>10, <1>11, <1>12, TurnAdded DEF p

-----------------------------------------------------------------------------
(* The times *)

\* All items have their turns.
LEMMA StageFoldedAll ==
  ASSUME AtFold, FoldedAll
  PROVE  AtTimes'
<1>1. UNCHANGED <<record, path, position, items, omitted, turns>> /\ position > Len(items)
  BY DEF FoldedAll
<1> QED
  BY <1>1 DEF AtTimes, AtFold, AllRead, OnThread, Sound, Checked, HasTime, TimeAmong, Omitted,
              Message, Graph

\* The turns have a time exactly when an item that is not folded has one.
LEMMA TimesDecide ==
  ASSUME AtTimes
  PROVE  Verdict(record) = IF Started /\ record.updated # "bad" THEN "conversation" ELSE "refused"
<1>1. /\ AllRead /\ items \in Seq(DOMAIN Graph) /\ position - 1 = Len(items)
      /\ HasTime <=> TimeAmong(position - 1)
  BY DEF AtTimes, AtFold, AllRead
<1>2. /\ record.id # None /\ IsTree(record.mapping)
      /\ \A j \in DOMAIN ThreadOf(record) : ~Unreadable(record.mapping[ThreadOf(record)[j]].message)
  BY <1>1, SoundIsTree DEF AllRead, OnThread, Message, Graph
<1>3. DOMAIN items = 1 .. Len(items) /\ items = TurnsOf(record)
  BY <1>1 DEF AllRead
<1>4. Started <=> Timed(record)
  BY <1>1, <1>3 DEF Started, Timed, HasTime, TimeAmong, Message, Graph
<1> QED
  BY <1>2, <1>4, VerdictReadable

\* A conversation without any time is refused,
LEMMA StageTimesRefuse ==
  ASSUME AtTimes, TimesRefuse
  PROVE  Verdict(record) = "refused"
BY TimesDecide DEF TimesRefuse

\* and any other is a conversation.
LEMMA StageParsed ==
  ASSUME AtTimes, Parsed
  PROVE  AtParsed'
<1>1. UNCHANGED <<record, path, position, items, omitted, turns>> /\ Verdict(record) = "conversation"
  BY TimesDecide DEF Parsed
<1> QED
  BY <1>1 DEF AtParsed, AtTimes, AtFold, AllRead, OnThread, Sound, Checked, HasTime, TimeAmong,
              Omitted, Message, Graph

-----------------------------------------------------------------------------
(* The files of an export in their order *)

\* Every file, record and identifier the exports hold.
PartsOf == UNION {e.parts : e \in Exports}
SinglesOf == {e.single : e \in Exports}
FilesOf == (PartsOf \cup SinglesOf) \ {None}
RecordsOf == UNION {ToSet(file.records) : file \in FilesOf}
Ids == {r.id : r \in RecordsOf} \cup {None}

\* Everything a call can answer.
Kinds == {"conversation", "refused", "escaped", "unavailable", "unscannable", "end"}
AnswerSet == [kind : Kinds, id : Ids]

\* ExportsAssumption, for every file and record of the exports.
LEMMA FilesAreFiles ==
  /\ \A file \in FilesOf : IsFile(file) /\ file.records \in Seq(RecordsOf)
  /\ \A r \in RecordsOf : IsGraph(r.mapping)
<1>1. \A file \in FilesOf : IsFile(file)
  <2> SUFFICES ASSUME NEW file \in FilesOf PROVE IsFile(file)
    OBVIOUS
  <2>1. file # None /\ \E e \in Exports : file \in e.parts \/ file = e.single
    <3>1. file # None /\ (file \in PartsOf \/ file \in SinglesOf)
      BY DEF FilesOf
    <3>2. file \in PartsOf => \E e \in Exports : file \in e.parts
      BY DEF PartsOf
    <3>3. file \in SinglesOf => \E e \in Exports : file = e.single
      BY DEF SinglesOf
    <3> QED
      BY <3>1, <3>2, <3>3
  <2> QED
    BY <2>1, ExportsAssumption
<1>2. \A r \in RecordsOf : IsGraph(r.mapping)
  BY <1>1 DEF RecordsOf, IsFile
<1>3. ASSUME NEW file \in FilesOf
      PROVE  file.records \in Seq(RecordsOf)
  <2>1. file.records \in Seq(ToSet(file.records)) /\ ToSet(file.records) \subseteq RecordsOf
    BY <1>1 DEF RecordsOf, IsFile
  <2> QED
    BY <2>1, SeqMonotonic
<1> QED
  BY <1>1, <1>2, <1>3

\* The files of an export with one layout are files, and finitely many.
LEMMA FilesType ==
  ASSUME export \in Exports
  PROVE  IsFiniteSet(Files) /\ (Files \subseteq FilesOf \/ (export.single = None) = (export.parts = {}))
<1>1. IsFiniteSet(export.parts)
  BY ExportsAssumption
<1>2. IsFiniteSet({export.single})
  BY FS_Singleton
<1>3. export.single = None => export.parts \subseteq FilesOf
  <2>1. \A file \in export.parts : file # None
    BY ExportsAssumption DEF IsFile
  <2>2. export.parts \subseteq PartsOf
    BY DEF PartsOf
  <2> QED
    BY <2>1, <2>2 DEF FilesOf
<1>4. export.single # None => {export.single} \subseteq FilesOf
  <2>1. export.single \in SinglesOf
    BY DEF SinglesOf
  <2> QED
    BY <2>1 DEF FilesOf
<1> QED
  BY <1>1, <1>2, <1>3, <1>4 DEF Files

\* There is one order.
LEMMA OneOrder ==
  ASSUME NEW parts \in SUBSET FilesOf, IsFiniteSet(parts),
         NEW a \in Arrangements(parts), InOrder(parts, a),
         NEW b \in Arrangements(parts), InOrder(parts, b)
  PROVE  a = b
<1> DEFINE N == Cardinality(parts)
           Before(x, y) == x.number < y.number \/ (x.number = y.number /\ x.rank < y.rank)
           Bad == {k \in 1 .. N : a[k] # b[k]}
<1>1. N \in Nat
  BY FS_CardinalityType
<1>2. a \in [1 .. N -> parts] /\ b \in [1 .. N -> parts]
  BY DEF Arrangements
<1>3. \A x \in parts : x.number \in Nat /\ x.rank \in Nat
  BY FilesAreFiles DEF IsFile
<1>4. /\ \A k \in 1 .. N : \A l \in 1 .. N : k < l => Before(a[k], a[l]) /\ Before(b[k], b[l])
      /\ \A x \in parts : \E k \in 1 .. N : a[k] = x
      /\ \A x \in parts : \E k \in 1 .. N : b[k] = x
  BY <1>2 DEF InOrder
<1> HIDE DEF N
<1>5. \A x \in parts : ~Before(x, x)
  BY <1>3
<1>6. \A x \in parts : \A y \in parts : ~(Before(x, y) /\ Before(y, x))
  BY <1>3
<1> HIDE DEF Before
<1>7. Bad = {}
  <2> SUFFICES ASSUME Bad # {} PROVE FALSE
    OBVIOUS
  <2>1. Bad \in SUBSET Nat
    BY <1>1
  <2>2. PICK k \in Bad : \A j \in Bad : k <= j
    BY <2>1, HasLeast
  <2>3. k \in 1 .. N /\ a[k] # b[k] /\ a[k] \in parts /\ b[k] \in parts
    BY <1>2, <2>2
  <2>4. PICK i \in 1 .. N : a[i] = b[k]
    BY <1>4, <2>3
  <2>5. PICK j \in 1 .. N : b[j] = a[k]
    BY <1>4, <2>3
  <2>6. i > k
    <3> SUFFICES ASSUME ~(i > k) PROVE FALSE
      OBVIOUS
    <3>1. i # k /\ i < k /\ ~(k <= i)
      BY <1>1, <2>3, <2>4
    <3>2. a[i] = b[i]
      BY <2>2, <3>1
    <3>3. Before(b[i], b[k])
      BY <1>4, <2>3, <3>1
    <3> QED
      BY <1>5, <2>3, <2>4, <3>2, <3>3
  <2>7. j > k
    <3> SUFFICES ASSUME ~(j > k) PROVE FALSE
      OBVIOUS
    <3>1. j # k /\ j < k /\ ~(k <= j)
      BY <1>1, <2>3, <2>5
    <3>2. a[j] = b[j]
      BY <2>2, <3>1
    <3>3. Before(a[j], a[k])
      BY <1>4, <2>3, <3>1
    <3> QED
      BY <1>5, <2>3, <2>5, <3>2, <3>3
  <2>8. Before(a[k], a[i]) /\ Before(b[k], b[j])
    BY <1>4, <2>3, <2>6, <2>7
  <2> QED
    BY <1>6, <2>3, <2>4, <2>5, <2>8
<1>8. \A k \in 1 .. N : a[k] = b[k]
  BY <1>7
<1>9. a = [k \in 1 .. N |-> a[k]] /\ b = [k \in 1 .. N |-> b[k]]
  BY <1>2
<1> QED
  BY <1>8, <1>9

-----------------------------------------------------------------------------
(* What is due *)

\* Where the elements of a part are in what is put together.
LEMMA FlattenPlaces ==
  ASSUME NEW S, NEW seqs \in Seq(Seq(S)), NEW i \in 1 .. Len(seqs)
  PROVE  /\ Len(FlattenSeq(SubSeq(seqs, 1, i - 1))) \in Nat /\ Len(seqs[i]) \in Nat
         /\ Len(FlattenSeq(SubSeq(seqs, 1, i))) = Len(FlattenSeq(SubSeq(seqs, 1, i - 1))) + Len(seqs[i])
         /\ Len(FlattenSeq(SubSeq(seqs, 1, i))) <= Len(FlattenSeq(seqs))
         /\ \A j \in 1 .. Len(seqs[i]) :
               FlattenSeq(seqs)[Len(FlattenSeq(SubSeq(seqs, 1, i - 1))) + j] = seqs[i][j]
<1> DEFINE Flat(n) == FlattenSeq(SubSeq(seqs, 1, n))
           start == Len(Flat(i - 1))
           size == Len(seqs[i])
           L == Len(seqs)
           Good(n) == /\ start + size <= Len(Flat(n))
                      /\ \A j \in 1 .. size : Flat(n)[start + j] = seqs[i][j]
           Bad == {n \in i .. L : ~Good(n)}
<1>1. L \in Nat /\ i \in 1 .. L
  OBVIOUS
<1>2. \A n \in 0 .. L : Flat(n) \in Seq(S)
  <2> SUFFICES ASSUME NEW n \in 0 .. L PROVE Flat(n) \in Seq(S)
    OBVIOUS
  <2> DEFINE U == Seq(S)
  <2>1. \A k \in 1 .. n : seqs[k] \in U
    BY <1>1
  <2>2. seqs \in Seq(U) /\ 1 \in Int /\ n \in Int
    BY <1>1
  <2> HIDE DEF U
  <2>3. SubSeq(seqs, 1, n) \in Seq(U)
    BY <2>1, <2>2, SubSeqProperties
  <2> QED
    BY <2>3, FlattenType DEF U
<1>3. \A n \in 1 .. L : Flat(n) = Flat(n - 1) \o seqs[n] /\ seqs[n] \in Seq(S)
  <2> SUFFICES ASSUME NEW n \in 1 .. L
               PROVE  Flat(n) = Flat(n - 1) \o seqs[n] /\ seqs[n] \in Seq(S)
    OBVIOUS
  <2>1. FlattenSeq(SubSeq(seqs, 1, n)) = FlattenSeq(SubSeq(seqs, 1, n - 1)) \o seqs[n]
    BY FlattenBeginning
  <2>2. seqs[n] \in Seq(S)
    OBVIOUS
  <2> QED
    BY <2>1, <2>2
<1>4. Flat(L) = FlattenSeq(seqs)
  BY SubSeqFull
<1> HIDE DEF Flat, L
<1>5. ASSUME NEW n \in 1 .. L
      PROVE  /\ Len(Flat(n - 1)) \in Nat /\ Len(seqs[n]) \in Nat
             /\ Len(Flat(n)) = Len(Flat(n - 1)) + Len(seqs[n])
             /\ \A j \in 1 .. Len(Flat(n - 1)) : Flat(n)[j] = Flat(n - 1)[j]
             /\ \A j \in 1 .. Len(seqs[n]) : Flat(n)[Len(Flat(n - 1)) + j] = seqs[n][j]
  <2> DEFINE s == Flat(n - 1)
             t == seqs[n]
  <2>1. n - 1 \in 0 .. L
    BY <1>1
  <2>2. s \in Seq(S) /\ t \in Seq(S) /\ Flat(n) = s \o t
    BY <1>2, <1>3, <2>1
  <2> HIDE DEF s, t
  <2>3. /\ Len(s) \in Nat /\ Len(t) \in Nat /\ Len(s \o t) = Len(s) + Len(t)
        /\ \A j \in 1 .. Len(s) : (s \o t)[j] = s[j]
        /\ \A j \in 1 .. Len(t) : (s \o t)[Len(s) + j] = t[j]
    BY <2>2
  <2> QED
    BY <2>2, <2>3 DEF s, t
<1>6. start \in Nat /\ size \in Nat /\ Len(Flat(i)) = start + size
  BY <1>1, <1>5
<1>7. Good(i)
  <2>1. \A j \in 1 .. size : Flat(i)[start + j] = seqs[i][j]
    BY <1>1, <1>5
  <2>2. start + size <= Len(Flat(i))
    BY <1>6
  <2> QED
    BY <2>1, <2>2
<1> HIDE DEF start, size
<1>8. Bad = {}
  <2> SUFFICES ASSUME Bad # {} PROVE FALSE
    OBVIOUS
  <2>1. Bad \in SUBSET Nat
    BY <1>1
  <2>2. PICK n \in Bad : \A k \in Bad : n <= k
    BY <2>1, HasLeast
  <2>3. n \in i .. L /\ ~Good(n) /\ n # i
    BY <1>7, <2>2
  <2>4. n \in 1 .. L /\ n - 1 \in i .. L /\ ~(n <= n - 1)
    BY <1>1, <2>3
  <2>5. /\ start + size <= Len(Flat(n - 1))
        /\ \A j \in 1 .. size : Flat(n - 1)[start + j] = seqs[i][j]
    BY <2>2, <2>4
  <2>6. /\ Len(Flat(n - 1)) \in Nat /\ Len(seqs[n]) \in Nat
        /\ Len(Flat(n)) = Len(Flat(n - 1)) + Len(seqs[n])
        /\ \A j \in 1 .. Len(Flat(n - 1)) : Flat(n)[j] = Flat(n - 1)[j]
    BY <1>5, <2>4
  <2> HIDE DEF Flat
  <2> DEFINE before == Len(Flat(n - 1))
             more == Len(seqs[n])
  <2>a. /\ before \in Nat /\ more \in Nat /\ start \in Nat /\ size \in Nat
        /\ Len(Flat(n)) = before + more /\ start + size <= before
    BY <1>6, <2>5, <2>6
  <2> HIDE DEF before, more
  <2>7. start + size <= Len(Flat(n))
    BY ONLY <2>a
  <2>8. ASSUME NEW j \in 1 .. size
        PROVE  Flat(n)[start + j] = seqs[i][j]
    <3>1. start + j \in 1 .. Len(Flat(n - 1))
      <4>1. start + j \in 1 .. before
        BY <2>a
      <4> QED
        BY <4>1 DEF before
    <3> QED
      BY <2>5, <2>6, <3>1
  <2> QED
    BY <2>3, <2>7, <2>8
<1>9. L \in i .. L
  BY <1>1
<1>10. Good(L)
  BY <1>8, <1>9
<1> QED
  BY <1>4, <1>6, <1>10 DEF Flat, start, size

\* The answer due for a record.
Outcome(r) == [kind |-> Verdict(r), id |-> r.id]
Outcomes(records) == [k \in DOMAIN records |-> Outcome(records[k])]

\* The answer due when a file ends.
EndOf(file) ==
    IF file = None \/ file.ending = "complete" THEN <<>> ELSE <<[kind |-> file.ending, id |-> None]>>

\* What becomes of a record is an answer that does not end the export.
LEMMA OutcomeType ==
  ASSUME NEW r \in RecordsOf
  PROVE  Outcome(r) \in AnswerSet /\ Outcome(r).kind \notin Finals
<1>1. Verdict(r) \in {"conversation", "refused", "escaped"}
  BY DEF Verdict, TreeVerdict
<1>2. Outcome(r).kind = Verdict(r) /\ Outcome(r).id = r.id
  BY DEF Outcome
<1> QED
  BY <1>1, <1>2 DEF Outcome, AnswerSet, Kinds, Ids, Finals

\* The answers of several records, and the answer when their file ends.
LEMMA OutcomesType ==
  ASSUME NEW records \in Seq(RecordsOf), NEW file \in FilesOf \cup {None}
  PROVE  /\ Outcomes(records) \in Seq(AnswerSet) /\ Len(Outcomes(records)) = Len(records)
         /\ EndOf(file) \in Seq(AnswerSet)
<1>1. \A k \in DOMAIN records : Outcome(records[k]) \in AnswerSet
  BY OutcomeType
<1>2. Outcomes(records) \in Seq(AnswerSet) /\ Len(Outcomes(records)) = Len(records)
  <2>1. DOMAIN records = 1 .. Len(records) /\ Len(records) \in Nat
    OBVIOUS
  <2> QED
    BY <1>1, <2>1 DEF Outcomes
<1>3. EndOf(file) \in Seq(AnswerSet)
  <2>1. CASE file = None \/ file.ending = "complete"
    BY <2>1, EmptySeq DEF EndOf
  <2>2. CASE file # None /\ file.ending # "complete"
    <3>1. file.ending \in {"unavailable", "unscannable"}
      BY <2>2, FilesAreFiles DEF IsFile
    <3>2. [kind |-> file.ending, id |-> None] \in AnswerSet
      BY <3>1 DEF AnswerSet, Kinds, Ids
    <3> QED
      BY <2>2, <3>2 DEF EndOf
  <2> QED
    BY <2>1, <2>2
<1> QED
  BY <1>2, <1>3

\* What is due for a file, by how it opens.
LEMMA DueIs ==
  ASSUME NEW file \in FilesOf
  PROVE  /\ Due(file) \in Seq(AnswerSet)
         /\ file.opens = "yes" => Due(file) = Outcomes(file.records) \o EndOf(file)
         /\ file.opens # "yes" => Due(file) = <<[kind |-> file.opens, id |-> None]>>
<1>1. IsFile(file) /\ file.records \in Seq(RecordsOf) /\ file # None
  <2>1. file # None
    BY DEF FilesOf
  <2> QED
    BY <2>1, FilesAreFiles
<1>2. CASE file.opens = "yes"
  <2>1. Due(file) = Outcomes(file.records) \o EndOf(file)
    BY <1>1, <1>2 DEF Due, Outcomes, Outcome, EndOf
  <2>2. Outcomes(file.records) \in Seq(AnswerSet) /\ EndOf(file) \in Seq(AnswerSet)
    BY <1>1, OutcomesType
  <2>3. Outcomes(file.records) \o EndOf(file) \in Seq(AnswerSet)
    BY <2>2, ConcatProperties
  <2> QED
    BY <1>2, <2>1, <2>3
<1>3. CASE file.opens # "yes"
  <2>1. Due(file) = <<[kind |-> file.opens, id |-> None]>>
    BY <1>3 DEF Due
  <2>2. [kind |-> file.opens, id |-> None] \in AnswerSet
    BY <1>1, <1>3 DEF IsFile, AnswerSet, Kinds, Ids
  <2> QED
    BY <1>3, <2>1, <2>2
<1> QED
  BY <1>2, <1>3

-----------------------------------------------------------------------------
(* One step of a conversion *)

\* Every step of parse_record keeps the invariant of the conversion, and its record.
LEMMA ConvertKeeps ==
  ASSUME ConversionInv, Convert
  PROVE  ConversionInv' /\ stage # "none" /\ stage' # "none" /\ UNCHANGED record
<1>1. ASSUME CheckRefuses
      PROVE  ConversionInv' /\ stage # "none" /\ stage' # "none" /\ UNCHANGED record
  <2>1. stage = "graph" /\ stage' = "refused" /\ UNCHANGED record
    BY <1>1 DEF CheckRefuses, Refuse
  <2>2. Verdict(record) = "refused"
    BY <1>1, <2>1, StageCheckRefuses DEF ConversionInv
  <2> QED
    BY <2>1, <2>2 DEF ConversionInv
<1>2. ASSUME CheckLinks
      PROVE  ConversionInv' /\ stage # "none" /\ stage' # "none" /\ UNCHANGED record
  <2>1. stage = "graph" /\ stage' = "walk" /\ UNCHANGED record
    BY <1>2 DEF CheckLinks
  <2>2. AtWalk'
    BY <1>2, <2>1, StageCheckLinks DEF ConversionInv
  <2> QED
    BY <2>1, <2>2 DEF ConversionInv
<1>3. ASSUME Walk
      PROVE  ConversionInv' /\ stage # "none" /\ stage' # "none" /\ UNCHANGED record
  <2>1. stage = "walk" /\ stage' = "walk" /\ UNCHANGED record
    BY <1>3 DEF Walk
  <2>2. AtWalk'
    BY <1>3, <2>1, StageWalk DEF ConversionInv
  <2> QED
    BY <2>1, <2>2 DEF ConversionInv
<1>4. ASSUME WalkRefuses
      PROVE  ConversionInv' /\ stage # "none" /\ stage' # "none" /\ UNCHANGED record
  <2>1. stage = "walk" /\ stage' = "refused" /\ UNCHANGED record
    BY <1>4 DEF WalkRefuses, Refuse
  <2>2. Verdict(record) = "refused"
    BY <1>4, <2>1, StageWalkRefuses DEF ConversionInv
  <2> QED
    BY <2>1, <2>2 DEF ConversionInv
<1>5. ASSUME Walked
      PROVE  ConversionInv' /\ stage # "none" /\ stage' # "none" /\ UNCHANGED record
  <2>1. stage = "walk" /\ UNCHANGED record
    BY <1>5 DEF Walked
  <2>2. (stage' = "leaf" /\ AtLeaf') \/ (stage' = "climb" /\ AtClimb')
    BY <1>5, <2>1, StageWalked DEF ConversionInv
  <2> QED
    BY <2>1, <2>2 DEF ConversionInv
<1>6. ASSUME Descend
      PROVE  ConversionInv' /\ stage # "none" /\ stage' # "none" /\ UNCHANGED record
  <2>1. stage = "leaf" /\ UNCHANGED record
    BY <1>6 DEF Descend
  <2>2. (stage' = "leaf" /\ AtLeaf') \/ (stage' = "climb" /\ AtClimb')
    BY <1>6, <2>1, StageDescend DEF ConversionInv
  <2> QED
    BY <2>1, <2>2 DEF ConversionInv
<1>7. ASSUME Climb
      PROVE  ConversionInv' /\ stage # "none" /\ stage' # "none" /\ UNCHANGED record
  <2>1. stage = "climb" /\ UNCHANGED record
    BY <1>7 DEF Climb
  <2>2. (stage' = "climb" /\ AtClimb') \/ (stage' = "read" /\ AtRead')
    BY <1>7, <2>1, StageClimb DEF ConversionInv
  <2> QED
    BY <2>1, <2>2 DEF ConversionInv
<1>8. ASSUME NEW reason \in {"structural", "hidden", "reasoning"}, Omit(reason)
      PROVE  ConversionInv' /\ stage # "none" /\ stage' # "none" /\ UNCHANGED record
  <2>1. stage = "read" /\ stage' = "read" /\ UNCHANGED record
    BY <1>8 DEF Omit, Reading
  <2>2. AtRead'
    BY <1>8, <2>1, StageOmit DEF ConversionInv
  <2> QED
    BY <2>1, <2>2 DEF ConversionInv
<1>9. ASSUME ReadRefuses
      PROVE  ConversionInv' /\ stage # "none" /\ stage' # "none" /\ UNCHANGED record
  <2>1. stage = "read" /\ stage' = "refused" /\ UNCHANGED record
    BY <1>9 DEF ReadRefuses, Refuse, Reading
  <2>2. Verdict(record) = "refused"
    BY <1>9, <2>1, StageReadRefuses DEF ConversionInv
  <2> QED
    BY <2>1, <2>2 DEF ConversionInv
<1>10. ASSUME ReadEscapes
       PROVE  ConversionInv' /\ stage # "none" /\ stage' # "none" /\ UNCHANGED record
  <2>1. stage = "read" /\ stage' = "escaped" /\ UNCHANGED record
    BY <1>10 DEF ReadEscapes, Reading
  <2>2. Verdict(record) = "escaped"
    BY <1>10, <2>1, StageReadEscapes DEF ConversionInv
  <2> QED
    BY <2>1, <2>2 DEF ConversionInv
<1>11. ASSUME ReadTurn
       PROVE  ConversionInv' /\ stage # "none" /\ stage' # "none" /\ UNCHANGED record
  <2>1. stage = "read" /\ stage' = "read" /\ UNCHANGED record
    BY <1>11 DEF ReadTurn, Reading
  <2>2. AtRead'
    BY <1>11, <2>1, StageReadTurn DEF ConversionInv
  <2> QED
    BY <2>1, <2>2 DEF ConversionInv
<1>12. ASSUME ReadAll
       PROVE  ConversionInv' /\ stage # "none" /\ stage' # "none" /\ UNCHANGED record
  <2>1. stage = "read" /\ stage' = "fold" /\ UNCHANGED record
    BY <1>12 DEF ReadAll
  <2>2. AtFold'
    BY <1>12, <2>1, StageReadAll DEF ConversionInv
  <2> QED
    BY <2>1, <2>2 DEF ConversionInv
<1>13. ASSUME Fold
       PROVE  ConversionInv' /\ stage # "none" /\ stage' # "none" /\ UNCHANGED record
  <2>1. stage = "fold" /\ stage' = "fold" /\ UNCHANGED record
    BY <1>13 DEF Fold, Folds
  <2>2. AtFold'
    BY <1>13, <2>1, StageFold DEF ConversionInv
  <2> QED
    BY <2>1, <2>2 DEF ConversionInv
<1>14. ASSUME Keep
       PROVE  ConversionInv' /\ stage # "none" /\ stage' # "none" /\ UNCHANGED record
  <2>1. stage = "fold" /\ stage' = "fold" /\ UNCHANGED record
    BY <1>14 DEF Keep
  <2>2. AtFold'
    BY <1>14, <2>1, StageKeep DEF ConversionInv
  <2> QED
    BY <2>1, <2>2 DEF ConversionInv
<1>15. ASSUME FoldedAll
       PROVE  ConversionInv' /\ stage # "none" /\ stage' # "none" /\ UNCHANGED record
  <2>1. stage = "fold" /\ stage' = "times" /\ UNCHANGED record
    BY <1>15 DEF FoldedAll
  <2>2. AtTimes'
    BY <1>15, <2>1, StageFoldedAll DEF ConversionInv
  <2> QED
    BY <2>1, <2>2 DEF ConversionInv
<1>16. ASSUME TimesRefuse
       PROVE  ConversionInv' /\ stage # "none" /\ stage' # "none" /\ UNCHANGED record
  <2>1. stage = "times" /\ stage' = "refused" /\ UNCHANGED record
    BY <1>16 DEF TimesRefuse, Refuse
  <2>2. Verdict(record) = "refused"
    BY <1>16, <2>1, StageTimesRefuse DEF ConversionInv
  <2> QED
    BY <2>1, <2>2 DEF ConversionInv
<1>17. ASSUME Parsed
       PROVE  ConversionInv' /\ stage # "none" /\ stage' # "none" /\ UNCHANGED record
  <2>1. stage = "times" /\ stage' = "parsed" /\ UNCHANGED record
    BY <1>17 DEF Parsed
  <2>2. AtParsed'
    BY <1>17, <2>1, StageParsed DEF ConversionInv
  <2> QED
    BY <2>1, <2>2 DEF ConversionInv
<1> QED
  BY <1>1, <1>2, <1>3, <1>4, <1>5, <1>6, <1>7, <1>8, <1>9, <1>10, <1>11, <1>12, <1>13, <1>14,
     <1>15, <1>16, <1>17 DEF Convert

\* Nor does a step of the reader that leaves the conversion alone break it.
LEMMA ConversionRests ==
  ASSUME ConversionInv, UNCHANGED conversion
  PROVE  ConversionInv'
<1>1. /\ UNCHANGED <<record, stage, pending, reached, path, position, items, omitted, turns>>
      /\ UNCHANGED Graph
  BY DEF conversion, Graph
<1>2. AtGraph => AtGraph'
  BY <1>1 DEF AtGraph, Early
<1>3. AtWalk => AtWalk'
  BY <1>1 DEF AtWalk, Checked, Early
<1>4. AtLeaf => AtLeaf'
  BY <1>1 DEF AtLeaf, Sound, Checked, Early
<1>5. AtClimb => AtClimb'
  BY <1>1 DEF AtClimb, Sound, Checked, Early
<1>6. AtRead => AtRead'
  BY <1>1 DEF AtRead, OnThread, Sound, Checked, Omitted, Message, Graph
<1>7. AtFold => AtFold'
  BY <1>1 DEF AtFold, AllRead, OnThread, Sound, Checked, Omitted, HasTime, TimeAmong, Message, Graph
<1>8. (AtTimes => AtTimes') /\ (AtParsed => AtParsed')
  BY <1>1, <1>7 DEF AtTimes, AtParsed
<1> QED
  BY <1>1, <1>2, <1>3, <1>4, <1>5, <1>6, <1>7, <1>8 DEF ConversionInv

\* A record begins unread,
LEMMA ConversionBegins ==
  ASSUME NEW r, IsGraph(r.mapping), Begin(r)
  PROVE  ConversionInv' /\ stage' # "none" /\ record' = r
BY DEF Begin, Fresh, ConversionInv, AtGraph, Early, Graph

\* and when it has been answered nothing is converted.
LEMMA ConversionReturns ==
  ASSUME Return
  PROVE  ConversionInv' /\ stage' = "none"
BY DEF Return, ConversionInv

-----------------------------------------------------------------------------
(* The reader *)

\* What its variables have to do with one another.
Shape ==
    /\ export \in Exports
    /\ at \in {"idle", "reading", "converting"}
    /\ opened \in {"no", "open", "closed"} /\ done \in BOOLEAN
    /\ names \in Seq(FilesOf)
    /\ stream \in FilesOf \cup {None} /\ unread \in Seq(RecordsOf)
    /\ stage # "none" => record \in RecordsOf
    /\ at = "converting" <=> stage # "none"
    /\ at = "converting" => stream # None
    /\ at # "idle" => ~done
    /\ stream = None => unread = <<>>
    /\ stream # None => opened = "open"
    /\ done <=> opened = "closed" \/ (opened = "no" /\ done)
    /\ done => opened # "open"

\* The variables of the reader begin in their relation
LEMMA ShapeInit == ReaderInit => Shape
BY EmptySeq DEF ReaderInit, Init, Shape

\* and stay in it.
LEMMA ShapeNext ==
  ASSUME ConversionInv, Shape, [Next]_vars
  PROVE  Shape'
<1> USE DEF Shape
<1>1. ASSUME UNCHANGED vars
      PROVE  Shape'
  BY <1>1 DEF vars, reader, conversion
<1>2. ASSUME Ask
      PROVE  Shape'
  BY <1>2 DEF Ask, conversion
<1>3. ASSUME Close
      PROVE  Shape'
  BY <1>3, EmptySeq DEF Close, Finish, conversion
<1>4. ASSUME Unreachable \/ NoExport \/ NoMoreFiles \/ ScanFails
      PROVE  Shape'
  BY <1>4, EmptySeq DEF Unreachable, NoExport, NoMoreFiles, ScanFails, Answer, Finish, conversion
<1>5. ASSUME OpenExport
      PROVE  Shape'
  <2>1. PICK order \in Arrangements(Files) : names' = order
    BY <1>5 DEF OpenExport
  <2>2. IsFiniteSet(Files) /\ Files \subseteq FilesOf
    BY <1>5, FilesType DEF OpenExport
  <2>3. names' \in Seq(FilesOf)
    <3>1. Cardinality(Files) \in Nat
      BY <2>2, FS_CardinalityType
    <3>2. names' \in [1 .. Cardinality(Files) -> FilesOf]
      BY <2>1, <2>2 DEF Arrangements
    <3> QED
      BY <3>1, <3>2
  <2> QED
    BY <1>5, <2>3 DEF OpenExport, conversion
<1>6. ASSUME OpenFile
      PROVE  Shape'
  <2>1. Head(names) \in FilesOf /\ Tail(names) \in Seq(FilesOf)
    BY <1>6 DEF OpenFile
  <2>2. Head(names).records \in Seq(RecordsOf) /\ Head(names) # None
    BY <2>1, FilesAreFiles DEF FilesOf
  <2> QED
    BY <1>6, <2>1, <2>2 DEF OpenFile, conversion
<1>7. ASSUME OpenFails
      PROVE  Shape'
  <2>1. Tail(names) \in Seq(FilesOf)
    BY <1>7 DEF OpenFails
  <2> QED
    BY <1>7, <2>1, EmptySeq DEF OpenFails, Answer, Finish, conversion
<1>8. ASSUME NextRecord
      PROVE  Shape'
  <2>1. Head(unread) \in RecordsOf /\ Tail(unread) \in Seq(RecordsOf)
    BY <1>8 DEF NextRecord
  <2>2. stage' # "none" /\ record' = Head(unread)
    BY <1>8 DEF NextRecord, Begin, Fresh
  <2> QED
    BY <1>8, <2>1, <2>2 DEF NextRecord
<1>9. ASSUME FileEnds
      PROVE  Shape'
  BY <1>9 DEF FileEnds, conversion
<1>10. ASSUME Convert, UNCHANGED reader
       PROVE  Shape'
  BY <1>10, ConvertKeeps DEF reader
<1>11. ASSUME Refused \/ Escaped \/ Duplicate \/ Yield
       PROVE  Shape'
  BY <1>11 DEF Refused, Escaped, Duplicate, Yield, Converted, Answer, Return
<1> QED
  BY <1>1, <1>2, <1>3, <1>4, <1>5, <1>6, <1>7, <1>8, <1>9, <1>10, <1>11
     DEF Next, Step, AskedAfterEnd

\* Every step of the reader keeps the invariant of the conversion.
LEMMA ConversionNext ==
  ASSUME ConversionInv, Shape, [Next]_vars
  PROVE  ConversionInv'
<1>1. ASSUME Convert
      PROVE  ConversionInv'
  BY <1>1, ConvertKeeps
<1>2. ASSUME NextRecord
      PROVE  ConversionInv'
  <2>1. IsGraph(Head(unread).mapping)
    BY <1>2, FilesAreFiles DEF NextRecord, Shape
  <2> QED
    BY <1>2, <2>1, ConversionBegins DEF NextRecord
<1>3. ASSUME Refused \/ Escaped \/ Duplicate \/ Yield
      PROVE  ConversionInv'
  BY <1>3, ConversionReturns DEF Refused, Escaped, Duplicate, Yield
<1>4. ASSUME UNCHANGED conversion
      PROVE  ConversionInv'
  BY <1>4, ConversionRests
<1> QED
  BY <1>1, <1>2, <1>3, <1>4
     DEF Next, Step, Ask, AskedAfterEnd, Close, Unreachable, NoExport, OpenExport, OpenFile, OpenFails,
         NoMoreFiles, FileEnds, ScanFails, vars

\* The turns of every conversation are those of the displayed thread (TurnsAreTheThread
\* of RecordConversion), for every graph.
LEMMA ThreadAccounted == ConversionInv => TurnsAreTheThread
<1> SUFFICES ASSUME ConversionInv, stage = "parsed"
             PROVE  /\ FlattenSeq(turns) = TurnsOf(record)
                    /\ StandsRight(record, turns)
                    /\ Len(path) = Len(turns) + omitted.folded + omitted.structural + omitted.hidden
                                       + omitted.reasoning
  BY DEF TurnsAreTheThread, StandsRight
<1>1. /\ items \in Seq(DOMAIN Graph) /\ items = TurnsOf(record)
      /\ position \in 1 .. Len(items) + 1 /\ position > Len(items)
      /\ turns \in Seq(Seq(DOMAIN Graph))
      /\ FlattenSeq(turns) = SubSeq(items, 1, position - 1)
      /\ position - 1 = Len(turns) + omitted.folded
      /\ StandsRight(record, turns)
      /\ omitted \in Counts
      /\ Len(path) = Len(items) + Omitted
  BY DEF ConversionInv, AtParsed, AtTimes, AtFold, AllRead
<1>2. Len(items) \in Nat /\ position - 1 = Len(items) /\ SubSeq(items, 1, Len(items)) = items
  <2>1. Len(items) \in Nat
    BY <1>1
  <2>2. position - 1 = Len(items)
    BY ONLY <1>1, <2>1
  <2> QED
    BY <1>1, <2>1, <2>2, SubSeqFull
<1>3. Len(turns) \in Nat
  BY <1>1
<1>4. /\ omitted.structural \in Nat /\ omitted.hidden \in Nat /\ omitted.reasoning \in Nat
      /\ omitted.folded \in Nat
  BY <1>1 DEF Counts
<1>5. Len(path) = Len(turns) + omitted.folded + omitted.structural + omitted.hidden + omitted.reasoning
  <2>1. Len(path) = Len(items) + (omitted.structural + omitted.hidden + omitted.reasoning)
    BY <1>1 DEF Omitted
  <2>2. Len(items) = Len(turns) + omitted.folded
    BY <1>1, <1>2
  <2> QED
    BY ONLY <1>2, <1>3, <1>4, <2>1, <2>2
<1> QED
  BY <1>1, <1>2, <1>5

\* What is known of the conversion and the reader's variables, in every state.
THEOREM Conversions == Spec => [](ConversionInv /\ Shape)
<1>1. ReaderInit => ConversionInv /\ Shape
  BY ShapeInit DEF ReaderInit, Init, ConversionInv
<1>2. ConversionInv /\ Shape /\ [Next]_vars => ConversionInv' /\ Shape'
  BY ShapeNext, ConversionNext
<1> QED
  BY <1>1, <1>2, PTL DEF Spec

\* For every export: of every record that is a conversation the turns are those of the
\* displayed thread, in its order, each tool result with its call, and every node of
\* the thread is in a turn or counted as left out (conversation.py: parse_record).
THEOREM TurnsAreRight == Spec => []TurnsAreTheThread
BY Conversions, ThreadAccounted, PTL

\* For every export: a reading that has ended, by an answer or by close, leaves no file
\* of it open (source.py: _finish, close).
THEOREM NothingStaysOpen == Spec => []NothingLeftOpen
<1>1. Shape => NothingLeftOpen
  BY DEF Shape, NothingLeftOpen
<1> QED
  BY <1>1, Conversions, PTL

-----------------------------------------------------------------------------
(* All answers of an export *)

\* The last answer of an export that is read to its end.
TheEnd == [kind |-> "end", id |-> None]

\* Files, the order of Expected, what is due for each file, and all of it.
FilesIn(e) == IF e.single = None THEN e.parts ELSE {e.single}
OrderOf(e) == CHOOSE o \in Arrangements(FilesIn(e)) : InOrder(FilesIn(e), o)
Dues(e) == [k \in DOMAIN OrderOf(e) |-> Due(OrderOf(e)[k])]
AllOf(e) == FlattenSeq(Dues(e)) \o <<TheEnd>>

\* How many answers the first i files have.
AnsweredTo(e, i) == Len(FlattenSeq(SubSeq(Dues(e), 1, i)))

\* Where they stand among all.
Arranged(e) ==
    /\ OrderOf(e) \in Seq(FilesOf)
    /\ AllOf(e) \in Seq(AnswerSet)
    /\ AnsweredTo(e, 0) = 0
    /\ \A i \in 0 .. Len(OrderOf(e)) : AnsweredTo(e, i) \in Nat /\ AnsweredTo(e, i) < Len(AllOf(e))
    /\ \A i \in 1 .. Len(OrderOf(e)) :
          /\ AnsweredTo(e, i) = AnsweredTo(e, i - 1) + Len(Due(OrderOf(e)[i]))
          /\ \A j \in 1 .. Len(Due(OrderOf(e)[i])) :
                AllOf(e)[AnsweredTo(e, i - 1) + j] = Due(OrderOf(e)[i])[j]
    /\ Len(AllOf(e)) = AnsweredTo(e, Len(OrderOf(e))) + 1
    /\ AllOf(e)[Len(AllOf(e))] = TheEnd

\* The order in which the files of an export are read is the one Expected names.
LEMMA OrderIs ==
  ASSUME NEW parts \in SUBSET FilesOf, IsFiniteSet(parts),
         NEW a \in Arrangements(parts), InOrder(parts, a)
  PROVE  /\ a = CHOOSE o \in Arrangements(parts) : InOrder(parts, o)
         /\ a \in Seq(FilesOf)
<1> DEFINE b == CHOOSE o \in Arrangements(parts) : InOrder(parts, o)
<1>1. b \in Arrangements(parts) /\ InOrder(parts, b)
  OBVIOUS
<1> HIDE DEF b
<1>2. a = b
  BY <1>1, OneOrder
<1>3. a \in Seq(FilesOf)
  <2>1. Cardinality(parts) \in Nat
    BY FS_CardinalityType
  <2>2. a \in [1 .. Cardinality(parts) -> FilesOf]
    BY DEF Arrangements
  <2> QED
    BY <2>1, <2>2
<1> QED
  BY <1>2, <1>3 DEF b

\* All answers of an export are those of its files, one file after the other.
LEMMA AllIs ==
  ASSUME NEW e \in Exports, OrderOf(e) \in Seq(FilesOf)
  PROVE  Arranged(e)
<1> DEFINE L == Len(OrderOf(e))
           D == Dues(e)
           F == FlattenSeq(D)
<1>1. L \in Nat /\ DOMAIN OrderOf(e) = 1 .. L /\ \A k \in 1 .. L : OrderOf(e)[k] \in FilesOf
  BY LenProperties
<1>2. \A k \in 1 .. L : Due(OrderOf(e)[k]) \in Seq(AnswerSet)
  BY <1>1, DueIs
<1>3. D \in Seq(Seq(AnswerSet)) /\ Len(D) = L /\ \A k \in 1 .. L : D[k] = Due(OrderOf(e)[k])
  <2> DEFINE T == Seq(AnswerSet)
  <2>1. \A k \in 1 .. L : Due(OrderOf(e)[k]) \in T
    BY <1>2
  <2>2. D = [k \in 1 .. L |-> Due(OrderOf(e)[k])]
    BY <1>1 DEF Dues
  <2> HIDE DEF T, D, L
  <2>3. D \in Seq(T) /\ Len(D) = L /\ \A k \in 1 .. L : D[k] = Due(OrderOf(e)[k])
    BY <1>1, <2>1, <2>2
  <2> QED
    BY <2>3 DEF T
<1> HIDE DEF L, D
<1>4. F \in Seq(AnswerSet)
  BY <1>3, FlattenType
<1>5. AnsweredTo(e, L) = Len(F) /\ Len(F) \in Nat
  <2>1. SubSeq(D, 1, L) = D
    BY <1>3, SubSeqFull
  <2>2. AnsweredTo(e, L) = Len(FlattenSeq(SubSeq(D, 1, L)))
    BY DEF AnsweredTo, D
  <2>3. Len(F) \in Nat
    BY <1>4, LenProperties
  <2> QED
    BY <2>1, <2>2, <2>3
<1>6. AnsweredTo(e, 0) = 0
  <2>1. SubSeq(D, 1, 0) = <<>>
    BY SubSeqEmpty
  <2>2. FlattenSeq(<<>>) = <<>>
    BY DEF FlattenSeq
  <2> QED
    BY <2>1, <2>2, EmptySeq DEF AnsweredTo, D
<1>7. ASSUME NEW i \in 1 .. L
      PROVE  /\ AnsweredTo(e, i - 1) \in Nat
             /\ AnsweredTo(e, i) = AnsweredTo(e, i - 1) + Len(Due(OrderOf(e)[i]))
             /\ AnsweredTo(e, i) <= Len(F)
             /\ \A j \in 1 .. Len(Due(OrderOf(e)[i])) :
                   F[AnsweredTo(e, i - 1) + j] = Due(OrderOf(e)[i])[j]
  <2>1. D \in Seq(Seq(AnswerSet)) /\ i \in 1 .. Len(D) /\ D[i] = Due(OrderOf(e)[i])
    BY <1>3
  <2>2. /\ Len(FlattenSeq(SubSeq(D, 1, i - 1))) \in Nat
        /\ Len(FlattenSeq(SubSeq(D, 1, i))) = Len(FlattenSeq(SubSeq(D, 1, i - 1))) + Len(D[i])
        /\ Len(FlattenSeq(SubSeq(D, 1, i))) <= Len(FlattenSeq(D))
        /\ \A j \in 1 .. Len(D[i]) :
              FlattenSeq(D)[Len(FlattenSeq(SubSeq(D, 1, i - 1))) + j] = D[i][j]
    BY ONLY <2>1, FlattenPlaces
  <2> QED
    BY <2>1, <2>2 DEF AnsweredTo, D
<1>8. /\ AllOf(e) = F \o <<TheEnd>>
      /\ TheEnd \in AnswerSet
  BY DEF AllOf, D, AnswerSet, Kinds, Ids, TheEnd
<1> HIDE DEF F
<1>9. /\ AllOf(e) \in Seq(AnswerSet)
      /\ Len(AllOf(e)) = Len(F) + 1
      /\ AllOf(e)[Len(F) + 1] = TheEnd
      /\ \A k \in 1 .. Len(F) : AllOf(e)[k] = F[k]
  BY <1>4, <1>8
<1>10. \A i \in 0 .. L : AnsweredTo(e, i) \in Nat /\ AnsweredTo(e, i) <= Len(F)
  <2> SUFFICES ASSUME NEW i \in 0 .. L
               PROVE  AnsweredTo(e, i) \in Nat /\ AnsweredTo(e, i) <= Len(F)
    OBVIOUS
  <2>1. CASE i = 0
    BY <1>5, <1>6, <2>1
  <2>2. CASE i # 0
    <3>1. i \in 1 .. L
      BY <1>1, <2>2
    <3>2. Len(Due(OrderOf(e)[i])) \in Nat
      BY <1>2, <3>1, LenProperties
    <3> QED
      BY <1>7, <3>1, <3>2
  <2> QED
    BY <2>1, <2>2
<1>11. ASSUME NEW i \in 1 .. L, NEW j \in 1 .. Len(Due(OrderOf(e)[i]))
       PROVE  AllOf(e)[AnsweredTo(e, i - 1) + j] = Due(OrderOf(e)[i])[j]
  <2> DEFINE before == AnsweredTo(e, i - 1)
             size == Len(Due(OrderOf(e)[i]))
  <2>1. before \in Nat /\ before + size <= Len(F) /\ F[before + j] = Due(OrderOf(e)[i])[j]
    BY <1>7
  <2>2. size \in Nat /\ Len(F) \in Nat /\ j \in 1 .. size
    BY <1>2, <1>5, LenProperties
  <2> HIDE DEF before, size
  <2>3. before + j \in 1 .. Len(F)
    BY <2>1, <2>2
  <2> QED
    BY <1>9, <2>1, <2>3 DEF before
<1>12. \A i \in 0 .. L : AnsweredTo(e, i) \in Nat /\ AnsweredTo(e, i) < Len(AllOf(e))
  BY <1>5, <1>9, <1>10
<1> QED
  BY <1>5, <1>6, <1>7, <1>9, <1>11, <1>12 DEF Arranged, L

-----------------------------------------------------------------------------
(* The answers so far *)

\* The answer that stands at k: of the records of one identifier only the first is
\* a conversation.
Shown(e, k) ==
    IF AllOf(e)[k].kind = "conversation" /\ \E j \in 1 .. k - 1 : AllOf(e)[j] = AllOf(e)[k]
    THEN [AllOf(e)[k] EXCEPT !.kind = "refused"]
    ELSE AllOf(e)[k]

\* There is an export, in one layout.
IsExport(e) == e.form = "export" /\ (e.single = None) # (e.parts = {})

\* The answers given are the first of all, and before the last none ends the export.
Given ==
    /\ Arranged(export) /\ IsExport(export)
    /\ answers \in Seq(AnswerSet)
    /\ Len(answers) <= Len(AllOf(export))
    /\ \A k \in 1 .. Len(answers) : answers[k] = Shown(export, k)
    /\ \A k \in 1 .. Len(answers) - 1 : AllOf(export)[k].kind \notin Finals

\* What seen holds are the identifiers of the conversations so far.
SeenSoFar ==
    /\ \A k \in 1 .. Len(answers) : AllOf(export)[k].kind \notin Finals
    /\ \A x : x \in seen <=> \E k \in 1 .. Len(answers) : AllOf(export)[k] = [kind |-> "conversation", id |-> x]

\* A record is being converted; a file ends with an answer of its own.
Busy == IF at = "converting" THEN 1 ELSE 0
Tailed(file) == IF file.ending = "complete" THEN 0 ELSE 1

\* What the reader has yet to find are the answers after those given.
InFile(i) ==
    /\ Len(answers) + Busy + Len(unread) + Tailed(stream) = AnsweredTo(export, i)
    /\ \A j \in 1 .. Len(unread) : AllOf(export)[Len(answers) + Busy + j] = Outcome(unread[j])
    /\ stream.ending # "complete" =>
          AllOf(export)[AnsweredTo(export, i)] = [kind |-> stream.ending, id |-> None]
    /\ at = "converting" => AllOf(export)[Len(answers) + 1] = Outcome(record)

\* The first i files have been opened: their answers are given, or the last of them is open.
Progress ==
    \E i \in 0 .. Len(OrderOf(export)) :
        /\ names = SubSeq(OrderOf(export), i + 1, Len(OrderOf(export)))
        /\ stream = None => Len(answers) = AnsweredTo(export, i)
        /\ stream # None => InFile(i)

\* Before the export is open there is no answer, or the only one.
Unopened ==
    /\ seen = {}
    /\ \/ answers = <<>>
       \/ done /\ export.form = "unreachable" /\ answers = <<[kind |-> "unavailable", id |-> None]>>
       \/ /\ done /\ export.form # "unreachable"
          /\ export.form = "unreadable" \/ (export.single = None) = (export.parts = {})
          /\ answers = <<[kind |-> "unscannable", id |-> None]>>

\* The invariant of the reader.
ReaderInv ==
    /\ opened = "no" => Unopened
    /\ opened # "no" => Given
    /\ opened = "open" => SeenSoFar /\ Progress

-----------------------------------------------------------------------------
(* One more answer *)

\* The next answer of all is given.
LEMMA OneMoreGiven ==
  ASSUME Given, SeenSoFar, export' = export, NEW answer, answers' = Append(answers, answer),
         Len(answers) + 1 <= Len(AllOf(export)),
         answer = Shown(export, Len(answers) + 1), answer \in AnswerSet
  PROVE  Given'
<1> DEFINE n == Len(answers) + 1
<1>1. n \in Nat /\ Len(answers) = n - 1 /\ Len(answers) \in Nat
  BY DEF Given
<1>2. /\ answers' \in Seq(AnswerSet) /\ Len(answers') = n /\ answers'[n] = answer
      /\ \A k \in 1 .. n - 1 : answers'[k] = answers[k]
  BY <1>1, AppendProperties DEF Given
<1>3. n <= Len(AllOf(export)) /\ answer = Shown(export, n)
  OBVIOUS
<1> HIDE DEF n
<1>4. ASSUME NEW k \in 1 .. n
      PROVE  answers'[k] = Shown(export, k)
  <2>1. CASE k = n
    BY <1>2, <1>3, <2>1
  <2>2. CASE k # n
    <3>1. k \in 1 .. n - 1 /\ k \in 1 .. Len(answers)
      BY <1>1, <2>2
    <3> QED
      BY <1>2, <3>1 DEF Given
  <2> QED
    BY <2>1, <2>2
<1>5. \A k \in 1 .. Len(answers') - 1 : AllOf(export)[k].kind \notin Finals
  BY <1>1, <1>2 DEF SeenSoFar
<1>6. Arranged(export)' /\ IsExport(export)'
  BY DEF Given
<1>7. /\ \A k \in 1 .. Len(answers') : answers'[k] = Shown(export', k)
      /\ Len(answers') <= Len(AllOf(export'))
      /\ \A k \in 1 .. Len(answers') - 1 : AllOf(export')[k].kind \notin Finals
  BY <1>2, <1>3, <1>4, <1>5
<1> QED
  BY <1>2, <1>6, <1>7 DEF Given

\* With a conversation its identifier is seen.
LEMMA OneMoreSeen ==
  ASSUME Given, SeenSoFar, export' = export, NEW answer, answers' = Append(answers, answer),
         AllOf(export)[Len(answers) + 1].kind \notin Finals,
         \/ seen' = seen /\ AllOf(export)[Len(answers) + 1].kind # "conversation"
         \/ \E x : seen' = seen \cup {x} /\ AllOf(export)[Len(answers) + 1] = [kind |-> "conversation", id |-> x]
  PROVE  SeenSoFar'
<1> DEFINE n == Len(answers) + 1
           All == AllOf(export)
           At(k, x) == All[k] = [kind |-> "conversation", id |-> x]
<1>1. n \in Nat /\ Len(answers) = n - 1 /\ Len(answers) \in Nat /\ n \in 1 .. n
  BY DEF Given
<1>2. Len(answers') = n
  BY <1>1 DEF Given
<1>3. All[n].kind \notin Finals
  OBVIOUS
<1>4. \/ seen' = seen /\ All[n].kind # "conversation"
      \/ \E x : seen' = seen \cup {x} /\ At(n, x)
  OBVIOUS
<1>5. /\ \A k \in 1 .. n - 1 : All[k].kind \notin Finals
      /\ \A x : x \in seen <=> \E k \in 1 .. n - 1 : At(k, x)
  BY <1>1 DEF SeenSoFar
<1>6. \A x, y : At(n, x) /\ At(n, y) => x = y
  <2> SUFFICES ASSUME NEW x, NEW y, At(n, x), At(n, y) PROVE x = y
    OBVIOUS
  <2>1. [kind |-> "conversation", id |-> x].id = [kind |-> "conversation", id |-> y].id
    OBVIOUS
  <2> QED
    BY <2>1
<1>7. \A x : At(n, x) => All[n].kind = "conversation"
  OBVIOUS
<1>8. \A k : k \in 1 .. n <=> k \in 1 .. n - 1 \/ k = n
  BY <1>1
<1>9. AllOf(export') = All
  OBVIOUS
<1> HIDE DEF At, n, All
<1>10. \A k \in 1 .. n : All[k].kind \notin Finals
  BY <1>3, <1>5, <1>8
<1>11. \A x : x \in seen' <=> \E k \in 1 .. n : At(k, x)
  BY <1>4, <1>5, <1>6, <1>7, <1>8
<1> QED
  BY <1>2, <1>9, <1>10, <1>11 DEF SeenSoFar, At

-----------------------------------------------------------------------------
(* A record answered *)

\* While a record is converted its answer is the next of all.
LEMMA InConversion ==
  ASSUME Shape, ReaderInv, at = "converting"
  PROVE  /\ opened = "open" /\ stream # None /\ record \in RecordsOf
         /\ Given /\ SeenSoFar /\ Progress
         /\ Len(answers) \in Nat /\ Len(answers) + 1 <= Len(AllOf(export))
         /\ AllOf(export)[Len(answers) + 1] = Outcome(record)
<1>1. opened = "open" /\ stream # None /\ record \in RecordsOf /\ unread \in Seq(RecordsOf)
  BY DEF Shape
<1>2. Given /\ SeenSoFar /\ Progress
  BY <1>1 DEF ReaderInv
<1>3. PICK i \in 0 .. Len(OrderOf(export)) : InFile(i)
  BY <1>1, <1>2 DEF Progress
<1>4. AllOf(export)[Len(answers) + 1] = Outcome(record)
  BY <1>3 DEF InFile
<1>5. /\ Len(answers) + 1 + Len(unread) + Tailed(stream) = AnsweredTo(export, i)
      /\ Len(answers) \in Nat /\ Len(unread) \in Nat /\ Tailed(stream) \in Nat
  BY <1>1, <1>2, <1>3 DEF InFile, Busy, Tailed, Given
<1>6. AnsweredTo(export, i) \in Nat /\ AnsweredTo(export, i) < Len(AllOf(export))
      /\ Len(AllOf(export)) \in Nat
  BY <1>2, LenProperties DEF Given, Arranged
<1>7. Len(answers) + 1 <= Len(AllOf(export))
  BY <1>5, <1>6
<1> QED
  BY <1>1, <1>2, <1>4, <1>5, <1>7

\* When it is given, the rest of the file is still to come.
LEMMA RecordAnswered ==
  ASSUME Shape, ReaderInv, at = "converting",
         NEW answer \in AnswerSet, Answer(answer),
         UNCHANGED <<export, opened, names, stream, unread>>,
         answer = Shown(export, Len(answers) + 1),
         \/ seen' = seen /\ Outcome(record).kind # "conversation"
         \/ seen' = seen \cup {record.id} /\ Outcome(record).kind = "conversation"
  PROVE  ReaderInv'
<1>1. /\ opened = "open" /\ stream # None /\ record \in RecordsOf
      /\ Given /\ SeenSoFar /\ Progress
      /\ Len(answers) \in Nat /\ Len(answers) + 1 <= Len(AllOf(export))
      /\ AllOf(export)[Len(answers) + 1] = Outcome(record)
  BY InConversion
<1>2. answers' = Append(answers, answer) /\ at' = "idle" /\ export' = export
  BY DEF Answer
<1>3. Given'
  BY <1>1, <1>2, OneMoreGiven
<1>4. SeenSoFar'
  <2>1. AllOf(export)[Len(answers) + 1].kind \notin Finals
    BY <1>1, OutcomeType
  <2>2. \/ seen' = seen /\ AllOf(export)[Len(answers) + 1].kind # "conversation"
        \/ \E x : seen' = seen \cup {x} /\ AllOf(export)[Len(answers) + 1] = [kind |-> "conversation", id |-> x]
    <3>1. CASE seen' = seen /\ Outcome(record).kind # "conversation"
      BY <1>1, <3>1
    <3>2. CASE seen' = seen \cup {record.id} /\ Outcome(record).kind = "conversation"
      BY <1>1, <3>2 DEF Outcome
    <3> QED
      BY <3>1, <3>2
  <2> QED
    BY <1>1, <1>2, <2>1, <2>2, OneMoreSeen
<1>5. Progress'
  <2>1. PICK i \in 0 .. Len(OrderOf(export)) :
             names = SubSeq(OrderOf(export), i + 1, Len(OrderOf(export))) /\ InFile(i)
    BY <1>1 DEF Progress
  <2>2. Len(answers') = Len(answers) + 1
    BY <1>1, <1>2 DEF Given
  <2>3. /\ Len(answers) + 1 + Len(unread) + Tailed(stream) = AnsweredTo(export, i)
        /\ \A j \in 1 .. Len(unread) : AllOf(export)[Len(answers) + 1 + j] = Outcome(unread[j])
        /\ stream.ending # "complete" =>
              AllOf(export)[AnsweredTo(export, i)] = [kind |-> stream.ending, id |-> None]
    BY <2>1 DEF InFile, Busy
  <2>4. /\ Len(unread) \in Nat /\ Tailed(stream) \in Nat
    BY DEF Shape, Tailed
  <2>5. /\ Len(answers') + 0 + Len(unread) + Tailed(stream) = AnsweredTo(export, i)
        /\ \A j \in 1 .. Len(unread) : AllOf(export)[Len(answers') + 0 + j] = Outcome(unread[j])
    BY <1>1, <2>2, <2>3, <2>4
  <2>6. InFile(i)'
    BY <1>2, <2>3, <2>5 DEF InFile, Busy, Tailed
  <2> QED
    BY <1>1, <1>2, <2>1, <2>6 DEF Progress
<1> QED
  BY <1>1, <1>3, <1>4, <1>5 DEF ReaderInv

\* The identifier of a record that is a conversation has been seen exactly when the
\* same answer stands before.
LEMMA SeenBefore ==
  ASSUME Shape, ReaderInv, at = "converting", Verdict(record) = "conversation"
  PROVE  record.id \in seen <=>
             \E j \in 1 .. (Len(answers) + 1) - 1 : AllOf(export)[j] = AllOf(export)[Len(answers) + 1]
<1>1. /\ SeenSoFar /\ Len(answers) \in Nat
      /\ AllOf(export)[Len(answers) + 1] = [kind |-> "conversation", id |-> record.id]
  BY InConversion DEF Outcome
<1>2. (Len(answers) + 1) - 1 = Len(answers)
  BY <1>1
<1> QED
  BY <1>1, <1>2 DEF SeenSoFar

\* Each of the four answers of _convert is the one that stands next: a conversation
\* whose identifier has been seen is refused.
LEMMA ReaderAnswersRecord ==
  ASSUME ConversionInv, Shape, ReaderInv, Refused \/ Escaped \/ Duplicate \/ Yield
  PROVE  ReaderInv'
<1> DEFINE n == Len(answers) + 1
<1>1. at = "converting" /\ UNCHANGED <<export, opened, names, stream, unread>>
  BY DEF Refused, Escaped, Duplicate, Yield, Converted
<1>2. AllOf(export)[n] = Outcome(record) /\ record \in RecordsOf
  BY <1>1, InConversion
<1>3. record.id \in Ids
  BY <1>2 DEF Ids
<1>4. Outcome(record) = [kind |-> Verdict(record), id |-> record.id]
  BY DEF Outcome
<1>5. ASSUME NEW kind \in {"refused", "escaped"}, Verdict(record) = kind, seen' = seen,
             Answer([kind |-> kind, id |-> record.id])
      PROVE  ReaderInv'
  <2>1. Outcome(record) = [kind |-> kind, id |-> record.id]
    BY <1>4, <1>5
  <2>2. Outcome(record).kind = kind
    BY <2>1
  <2>3. Shown(export, n) = Outcome(record)
    BY <1>2, <2>2 DEF Shown
  <2>4. [kind |-> kind, id |-> record.id] \in AnswerSet
    BY <1>3 DEF AnswerSet, Kinds
  <2> QED
    BY <1>1, <1>5, <2>1, <2>2, <2>3, <2>4, RecordAnswered
<1>6. CASE Refused
  <2>1. /\ stage = "refused" /\ seen' = seen
        /\ Answer([kind |-> "refused", id |-> record.id])
    BY <1>6 DEF Refused, Converted
  <2>2. Verdict(record) = "refused"
    BY <2>1 DEF ConversionInv
  <2> QED
    BY <1>5, <2>1, <2>2
<1>7. CASE Escaped
  <2>1. /\ stage = "escaped" /\ seen' = seen
        /\ Answer([kind |-> "escaped", id |-> record.id])
    BY <1>7 DEF Escaped, Converted
  <2>2. Verdict(record) = "escaped"
    BY <2>1 DEF ConversionInv
  <2> QED
    BY <1>5, <2>1, <2>2
<1>8. CASE Duplicate
  <2>1. /\ stage = "parsed" /\ seen' = seen /\ record.id \in seen
        /\ Answer([kind |-> "refused", id |-> record.id])
    BY <1>8 DEF Duplicate, Converted
  <2>2. Verdict(record) = "conversation"
    BY <2>1 DEF ConversionInv, AtParsed
  <2>3. AllOf(export)[n] = [kind |-> "conversation", id |-> record.id]
    BY <1>2, <1>4, <2>2
  <2>4. \E j \in 1 .. n - 1 : AllOf(export)[j] = AllOf(export)[n]
    BY <1>1, <2>1, <2>2, SeenBefore
  <2>5. Shown(export, n) = [kind |-> "refused", id |-> record.id]
    BY <2>3, <2>4 DEF Shown
  <2>6. [kind |-> "refused", id |-> record.id] \in AnswerSet
    BY <1>3 DEF AnswerSet, Kinds
  <2>7. seen' = seen \cup {record.id} /\ Outcome(record).kind = "conversation"
    BY <1>4, <2>1, <2>2
  <2> QED
    BY <1>1, <2>1, <2>5, <2>6, <2>7, RecordAnswered
<1>9. CASE Yield
  <2>1. /\ stage = "parsed" /\ seen' = seen \cup {record.id} /\ record.id \notin seen
        /\ Answer([kind |-> "conversation", id |-> record.id])
    BY <1>9 DEF Yield, Converted
  <2>2. Verdict(record) = "conversation"
    BY <2>1 DEF ConversionInv, AtParsed
  <2>3. AllOf(export)[n] = [kind |-> "conversation", id |-> record.id]
    BY <1>2, <1>4, <2>2
  <2>4. ~ \E j \in 1 .. n - 1 : AllOf(export)[j] = AllOf(export)[n]
    BY <1>1, <2>1, <2>2, SeenBefore
  <2>5. Shown(export, n) = [kind |-> "conversation", id |-> record.id]
    BY <2>3, <2>4 DEF Shown
  <2>6. [kind |-> "conversation", id |-> record.id] \in AnswerSet
    BY <1>3 DEF AnswerSet, Kinds
  <2>7. Outcome(record).kind = "conversation"
    BY <1>4, <2>2
  <2> QED
    BY <1>1, <2>1, <2>5, <2>6, <2>7, RecordAnswered
<1> QED
  BY <1>6, <1>7, <1>8, <1>9

-----------------------------------------------------------------------------
(* The other steps of the reader *)

\* An answer that ends the export.
LEMMA ReaderEnds ==
  ASSUME Given, SeenSoFar, opened = "open", NEW answer \in AnswerSet,
         Answer(answer), Finish, export' = export,
         Len(answers) + 1 <= Len(AllOf(export)),
         answer = AllOf(export)[Len(answers) + 1], answer.kind # "conversation"
  PROVE  ReaderInv'
<1>1. answer = Shown(export, Len(answers) + 1)
  BY DEF Shown
<1>2. Given'
  BY <1>1, OneMoreGiven DEF Answer
<1>3. opened' = "closed"
  BY DEF Finish
<1> QED
  BY <1>2, <1>3 DEF ReaderInv

\* The export cannot be opened, and says so once.
LEMMA ReaderNoExport ==
  ASSUME ReaderInv, Shape, Unreachable \/ NoExport
  PROVE  ReaderInv'
<1>1. opened = "no" /\ opened' = "no" /\ ~done /\ done' /\ UNCHANGED <<export, seen>>
  BY DEF Unreachable, NoExport, Finish, Shape
<1>2. seen = {} /\ answers = <<>>
  BY <1>1 DEF ReaderInv, Unopened
<1>3. CASE Unreachable
  <2>1. answers' = <<[kind |-> "unavailable", id |-> None]>> /\ export.form = "unreachable"
    BY <1>2, <1>3 DEF Unreachable, Answer
  <2> QED
    BY <1>1, <1>2, <2>1 DEF ReaderInv, Unopened
<1>4. CASE NoExport
  <2>1. answers' = <<[kind |-> "unscannable", id |-> None]>>
    BY <1>2, <1>4 DEF NoExport, Answer
  <2>2. /\ export.form # "unreachable"
        /\ export.form = "unreadable" \/ (export.single = None) = (export.parts = {})
    BY <1>4 DEF NoExport
  <2> QED
    BY <1>1, <1>2, <2>1, <2>2 DEF ReaderInv, Unopened
<1> QED
  BY <1>3, <1>4

\* The export is open, its files in their order and nothing answered.
LEMMA ReaderOpensExport ==
  ASSUME ReaderInv, Shape, OpenExport
  PROVE  ReaderInv'
<1>1. /\ opened = "no" /\ opened' = "open" /\ ~done /\ at = "reading" /\ export \in Exports
      /\ UNCHANGED <<export, at, stream, unread, seen, answers>>
      /\ IsExport(export)
  BY DEF OpenExport, Shape, IsExport
<1>2. seen = {} /\ answers = <<>> /\ stream = None
  BY <1>1 DEF ReaderInv, Unopened, Shape
<1>3. Files = FilesIn(export)
  BY DEF Files, FilesIn
<1>4. PICK order \in Arrangements(Files) : InOrder(Files, order) /\ names' = order
  BY DEF OpenExport
<1>5. Files \in SUBSET FilesOf /\ IsFiniteSet(Files)
  BY <1>1, FilesType DEF IsExport
<1>6. order = OrderOf(export) /\ OrderOf(export) \in Seq(FilesOf)
  <2>1. /\ order = CHOOSE o \in Arrangements(Files) : InOrder(Files, o)
        /\ order \in Seq(FilesOf)
    BY <1>4, <1>5, OrderIs
  <2> QED
    BY <1>3, <2>1 DEF OrderOf
<1>7. Arranged(export)
  BY <1>1, <1>6, AllIs
<1>8. Given'
  <2>1. <<>> \in Seq(AnswerSet) /\ Len(<<>>) = 0
    BY EmptySeq
  <2>2. Len(AllOf(export)) \in Nat
    BY <1>7, LenProperties DEF Arranged
  <2> QED
    BY <1>1, <1>2, <1>7, <2>1, <2>2 DEF Given
<1>9. SeenSoFar'
  BY <1>1, <1>2, EmptySeq DEF SeenSoFar
<1>10. Progress'
  <2>1. names' = SubSeq(OrderOf(export), 0 + 1, Len(OrderOf(export)))
    BY <1>4, <1>6, SubSeqFull
  <2>2. Len(answers') = AnsweredTo(export, 0)
    BY <1>1, <1>2, <1>7, EmptySeq DEF Arranged
  <2>3. 0 \in 0 .. Len(OrderOf(export))
    BY <1>6
  <2> QED
    BY <1>1, <1>2, <2>1, <2>2, <2>3 DEF Progress
<1> QED
  BY <1>1, <1>8, <1>9, <1>10 DEF ReaderInv

\* The next file is the one that stands next.
LEMMA NextName ==
  ASSUME Given, NEW i \in 0 .. Len(OrderOf(export)), names # <<>>,
         names = SubSeq(OrderOf(export), i + 1, Len(OrderOf(export)))
  PROVE  /\ i + 1 \in 1 .. Len(OrderOf(export)) /\ (i + 1) - 1 = i
         /\ Head(names) = OrderOf(export)[i + 1] /\ Head(names) \in FilesOf
         /\ Tail(names) = SubSeq(OrderOf(export), (i + 1) + 1, Len(OrderOf(export)))
<1> DEFINE o == OrderOf(export)
<1>1. o \in Seq(FilesOf) /\ Len(o) \in Nat /\ i \in 0 .. Len(o)
  BY DEF Given, Arranged
<1>2. names # <<>> /\ names = SubSeq(o, i + 1, Len(o))
  OBVIOUS
<1> HIDE DEF o
<1>3. i # Len(o)
  <2> SUFFICES ASSUME i = Len(o) PROVE FALSE
    OBVIOUS
  <2>1. Len(o) < i + 1 /\ i + 1 \in Int /\ Len(o) \in Int
    BY <1>1
  <2> QED
    BY <1>2, <2>1, SubSeqEmpty
<1>4. i + 1 \in 1 .. Len(o) /\ (i + 1) - 1 = i /\ Len(o) \in i + 1 .. Len(o)
  BY <1>1, <1>3
<1>5. Head(names) = o[i + 1] /\ Tail(names) = SubSeq(o, (i + 1) + 1, Len(o))
  BY <1>1, <1>2, <1>4, HeadTailOfSubSeq
<1>6. o[i + 1] \in FilesOf
  BY <1>1, <1>4, ElementOfSeq
<1> QED
  BY <1>4, <1>5, <1>6 DEF o

\* The records of the next file are what is due next.
LEMMA ReaderOpensFile ==
  ASSUME ReaderInv, Shape, OpenFile
  PROVE  ReaderInv'
<1> DEFINE file == Head(names)
<1>1. /\ opened = "open" /\ stream = None /\ names # <<>> /\ file.opens = "yes" /\ at = "reading"
      /\ names' = Tail(names) /\ stream' = file /\ unread' = file.records
      /\ UNCHANGED <<export, at, opened, seen, answers>>
  BY DEF OpenFile
<1>2. Given /\ SeenSoFar /\ Progress
  BY <1>1 DEF ReaderInv
<1>3. PICK i \in 0 .. Len(OrderOf(export)) :
           /\ names = SubSeq(OrderOf(export), i + 1, Len(OrderOf(export)))
           /\ Len(answers) = AnsweredTo(export, i)
  BY <1>1, <1>2 DEF Progress
<1>4. /\ i + 1 \in 1 .. Len(OrderOf(export)) /\ (i + 1) - 1 = i
      /\ file = OrderOf(export)[i + 1] /\ file \in FilesOf
      /\ Tail(names) = SubSeq(OrderOf(export), (i + 1) + 1, Len(OrderOf(export)))
  BY <1>1, <1>2, <1>3, NextName
<1>5. /\ AnsweredTo(export, i + 1) = AnsweredTo(export, i) + Len(Due(file))
      /\ \A j \in 1 .. Len(Due(file)) : AllOf(export)[AnsweredTo(export, i) + j] = Due(file)[j]
      /\ AnsweredTo(export, i) \in Nat
  BY <1>2, <1>4 DEF Given, Arranged
<1> HIDE DEF file
<1> DEFINE before == AnsweredTo(export, i)
           rs == Outcomes(file.records)
           en == EndOf(file)
           d == Due(file)
<1>6. /\ file.records \in Seq(RecordsOf) /\ file # None /\ Len(file.records) \in Nat
      /\ d = rs \o en
      /\ rs \in Seq(AnswerSet) /\ Len(rs) = Len(file.records) /\ en \in Seq(AnswerSet)
  <2>1. file.records \in Seq(RecordsOf) /\ file # None
    BY <1>4, FilesAreFiles DEF FilesOf
  <2> QED
    BY <1>1, <1>4, <2>1, OutcomesType, DueIs, LenProperties
<1>7. Len(en) = Tailed(file) /\ (file.ending # "complete" => en[1] = [kind |-> file.ending, id |-> None])
  BY <1>6 DEF EndOf, Tailed
<1>8. \A j \in 1 .. Len(file.records) : rs[j] = Outcome(file.records[j])
  BY <1>6 DEF Outcomes
<1>9. Tailed(file) \in {0, 1} /\ (file.ending # "complete" => Tailed(file) = 1)
  BY DEF Tailed
<1> HIDE DEF rs, en, d
<1>10. /\ Len(d) = Len(rs) + Len(en) /\ Len(rs) \in Nat /\ Len(en) \in Nat
       /\ \A j \in 1 .. Len(rs) : d[j] = rs[j]
       /\ \A j \in 1 .. Len(en) : d[Len(rs) + j] = en[j]
  <2>1. rs \in Seq(AnswerSet) /\ en \in Seq(AnswerSet) /\ d = rs \o en
    BY <1>6
  <2> QED
    BY ONLY <2>1
<1>11. /\ AnsweredTo(export, i + 1) = before + Len(d) /\ before \in Nat /\ Len(answers) = before
       /\ \A j \in 1 .. Len(d) : AllOf(export)[before + j] = d[j]
  BY <1>3, <1>5 DEF d
<1> HIDE DEF before
<1>12. AnsweredTo(export, i + 1) = Len(answers) + 0 + Len(file.records) + Tailed(file)
  BY <1>6, <1>7, <1>9, <1>10, <1>11
<1>13. ASSUME NEW j \in 1 .. Len(file.records)
       PROVE  AllOf(export)[Len(answers) + 0 + j] = Outcome(file.records[j])
  <2>1. j \in 1 .. Len(rs) /\ j \in 1 .. Len(d) /\ Len(answers) + 0 + j = before + j
    BY <1>6, <1>10, <1>11
  <2> QED
    BY <1>8, <1>10, <1>11, <2>1
<1>14. ASSUME file.ending # "complete"
       PROVE  AllOf(export)[AnsweredTo(export, i + 1)] = [kind |-> file.ending, id |-> None]
  <2>1. 1 \in 1 .. Len(en) /\ Len(d) = Len(rs) + 1 /\ Len(rs) + 1 \in 1 .. Len(d)
    BY <1>7, <1>9, <1>10, <1>14
  <2>2. AnsweredTo(export, i + 1) = before + (Len(rs) + 1)
    BY <1>11, <2>1
  <2> QED
    BY <1>7, <1>10, <1>11, <1>14, <2>1, <2>2
<1>15. InFile(i + 1)'
  BY <1>1, <1>12, <1>13, <1>14 DEF InFile, Busy, file
<1>16. Progress'
  <2>1. i + 1 \in 0 .. Len(OrderOf(export)) /\ stream' # None
    BY <1>1, <1>4, <1>6
  <2> QED
    BY <1>1, <1>4, <1>15, <2>1 DEF Progress
<1>17. Given' /\ SeenSoFar'
  BY <1>1, <1>2 DEF Given, SeenSoFar
<1> QED
  BY <1>1, <1>16, <1>17 DEF ReaderInv

\* A file that does not open is the last answer.
LEMMA ReaderOpenFails ==
  ASSUME ReaderInv, Shape, OpenFails
  PROVE  ReaderInv'
<1> DEFINE file == Head(names)
           answer == [kind |-> file.opens, id |-> None]
<1>1. /\ opened = "open" /\ stream = None /\ names # <<>> /\ file.opens # "yes"
      /\ export' = export /\ Answer(answer) /\ Finish
  BY DEF OpenFails
<1>2. Given /\ SeenSoFar /\ Progress
  BY <1>1 DEF ReaderInv
<1>3. PICK i \in 0 .. Len(OrderOf(export)) :
           /\ names = SubSeq(OrderOf(export), i + 1, Len(OrderOf(export)))
           /\ Len(answers) = AnsweredTo(export, i)
  BY <1>1, <1>2 DEF Progress
<1>4. /\ i + 1 \in 1 .. Len(OrderOf(export)) /\ (i + 1) - 1 = i
      /\ file = OrderOf(export)[i + 1] /\ file \in FilesOf
  BY <1>1, <1>2, <1>3, NextName
<1>5. Due(file) = <<answer>> /\ Len(Due(file)) = 1 /\ Due(file)[1] = answer
  BY <1>1, <1>4, DueIs
<1>6. /\ AnsweredTo(export, i + 1) = AnsweredTo(export, i) + 1
      /\ AllOf(export)[AnsweredTo(export, i) + 1] = answer
      /\ AnsweredTo(export, i) \in Nat /\ AnsweredTo(export, i + 1) < Len(AllOf(export))
  <2>1. i + 1 \in 0 .. Len(OrderOf(export)) /\ 1 \in 1 .. Len(Due(file))
    BY <1>4, <1>5
  <2> QED
    BY <1>2, <1>4, <1>5, <2>1 DEF Given, Arranged
<1>7. Len(answers) + 1 <= Len(AllOf(export)) /\ answer = AllOf(export)[Len(answers) + 1]
  <2>1. Len(AllOf(export)) \in Nat
    BY <1>2, LenProperties DEF Given, Arranged
  <2> QED
    BY <1>3, <1>6, <2>1
<1>8. answer \in AnswerSet /\ answer.kind # "conversation"
  <2>1. file.opens \in {"unavailable", "unscannable"}
    BY <1>1, <1>4, FilesAreFiles DEF IsFile
  <2> QED
    BY <2>1 DEF AnswerSet, Kinds, Ids
<1> HIDE DEF answer
<1> QED
  BY <1>1, <1>2, <1>7, <1>8, ReaderEnds

\* After the last file there is the end.
LEMMA ReaderNoMoreFiles ==
  ASSUME ReaderInv, Shape, NoMoreFiles
  PROVE  ReaderInv'
<1>1. /\ opened = "open" /\ stream = None /\ names = <<>>
      /\ export' = export /\ Answer(TheEnd) /\ Finish
  BY DEF NoMoreFiles, TheEnd
<1>2. Given /\ SeenSoFar /\ Progress
  BY <1>1 DEF ReaderInv
<1>3. PICK i \in 0 .. Len(OrderOf(export)) :
           /\ names = SubSeq(OrderOf(export), i + 1, Len(OrderOf(export)))
           /\ Len(answers) = AnsweredTo(export, i)
  BY <1>1, <1>2 DEF Progress
<1>4. i = Len(OrderOf(export))
  <2> DEFINE o == OrderOf(export)
  <2>1. o \in Seq(FilesOf) /\ Len(o) \in Nat
    BY <1>2 DEF Given, Arranged
  <2>2. i \in 0 .. Len(o) /\ SubSeq(o, i + 1, Len(o)) = <<>>
    BY <1>1, <1>3
  <2> HIDE DEF o
  <2> SUFFICES ASSUME i # Len(o) PROVE FALSE
    BY DEF o
  <2>3. i + 1 <= Len(o) /\ i + 1 \in Int /\ Len(o) \in Int /\ Len(o) - (i + 1) + 1 > 0
    BY <2>1, <2>2
  <2>4. \A k \in i + 1 .. Len(o) : o[k] \in FilesOf
    BY <2>1, <2>2
  <2>5. Len(SubSeq(o, i + 1, Len(o))) = Len(o) - (i + 1) + 1
    BY <2>3, <2>4, SubSeqProperties
  <2>6. Len(SubSeq(o, i + 1, Len(o))) = 0
    BY <2>2
  <2> DEFINE rest == Len(SubSeq(o, i + 1, Len(o)))
             size == Len(o) - (i + 1) + 1
  <2>7. rest = size /\ rest = 0 /\ size > 0
    BY <2>3, <2>5, <2>6
  <2> HIDE DEF rest, size
  <2> QED
    BY <2>7
<1>5. /\ Len(AllOf(export)) = Len(answers) + 1
      /\ AllOf(export)[Len(AllOf(export))] = TheEnd
      /\ Len(AllOf(export)) \in Nat
  BY <1>2, <1>3, <1>4, LenProperties DEF Given, Arranged
<1>6. TheEnd \in AnswerSet /\ TheEnd.kind # "conversation"
  BY DEF TheEnd, AnswerSet, Kinds, Ids
<1>7. Len(answers) + 1 <= Len(AllOf(export)) /\ TheEnd = AllOf(export)[Len(answers) + 1]
  BY <1>5
<1> HIDE DEF TheEnd
<1> QED
  BY <1>1, <1>2, <1>6, <1>7, ReaderEnds

\* The next record is converted, and the others are behind it.
LEMMA ReaderNextRecord ==
  ASSUME ReaderInv, Shape, NextRecord
  PROVE  ReaderInv'
<1>1. /\ at = "reading" /\ at' = "converting" /\ stream # None /\ unread # <<>>
      /\ unread' = Tail(unread) /\ record' = Head(unread)
      /\ UNCHANGED <<export, opened, names, stream, seen, answers>>
  BY DEF NextRecord, Begin, Fresh
<1>2. opened = "open" /\ unread \in Seq(RecordsOf)
  BY <1>1 DEF Shape
<1>3. Given /\ SeenSoFar /\ Progress
  BY <1>2 DEF ReaderInv
<1>4. PICK i \in 0 .. Len(OrderOf(export)) :
           names = SubSeq(OrderOf(export), i + 1, Len(OrderOf(export))) /\ InFile(i)
  BY <1>1, <1>3 DEF Progress
<1>5. /\ Len(answers) + 0 + Len(unread) + Tailed(stream) = AnsweredTo(export, i)
      /\ \A j \in 1 .. Len(unread) : AllOf(export)[Len(answers) + 0 + j] = Outcome(unread[j])
      /\ stream.ending # "complete" =>
            AllOf(export)[AnsweredTo(export, i)] = [kind |-> stream.ending, id |-> None]
  BY <1>1, <1>4 DEF InFile, Busy
<1>6. /\ Len(answers) \in Nat /\ Tailed(stream) \in Nat /\ Len(unread) \in Nat \ {0}
  BY <1>1, <1>2, <1>3, EmptySeq DEF Given, Tailed
<1>7. /\ Len(unread') = Len(unread) - 1 /\ record' = unread[1]
      /\ \A j \in 1 .. Len(unread') : unread'[j] = unread[j + 1]
  BY <1>1, <1>2, HeadTailProperties
<1>8. Len(answers) + 1 + Len(unread') + Tailed(stream) = AnsweredTo(export, i)
  BY <1>5, <1>6, <1>7
<1>9. ASSUME NEW j \in 1 .. Len(unread')
      PROVE  AllOf(export)[Len(answers) + 1 + j] = Outcome(unread'[j])
  <2>1. j + 1 \in 1 .. Len(unread) /\ Len(answers) + 1 + j = Len(answers) + 0 + (j + 1)
    BY <1>6, <1>7
  <2> QED
    BY <1>5, <1>7, <2>1
<1>10. AllOf(export)[Len(answers) + 1] = Outcome(record')
  <2>1. 1 \in 1 .. Len(unread) /\ Len(answers) + 1 = Len(answers) + 0 + 1
    BY <1>6
  <2> QED
    BY <1>5, <1>7, <2>1
<1>11. InFile(i)'
  BY <1>1, <1>5, <1>8, <1>9, <1>10 DEF InFile, Busy, Tailed
<1>12. Progress'
  BY <1>1, <1>4, <1>11 DEF Progress
<1>13. Given' /\ SeenSoFar'
  BY <1>1, <1>3 DEF Given, SeenSoFar
<1> QED
  BY <1>1, <1>2, <1>12, <1>13 DEF ReaderInv

\* A file that has ended has had all its answers,
LEMMA ReaderFileEnds ==
  ASSUME ReaderInv, Shape, FileEnds
  PROVE  ReaderInv'
<1>1. /\ at = "reading" /\ stream # None /\ unread = <<>> /\ stream.ending = "complete"
      /\ stream' = None
      /\ UNCHANGED <<export, opened, names, seen, answers>>
  BY DEF FileEnds
<1>2. opened = "open"
  BY <1>1 DEF Shape
<1>3. Given /\ SeenSoFar /\ Progress
  BY <1>2 DEF ReaderInv
<1>4. PICK i \in 0 .. Len(OrderOf(export)) :
           names = SubSeq(OrderOf(export), i + 1, Len(OrderOf(export))) /\ InFile(i)
  BY <1>1, <1>3 DEF Progress
<1>5. Len(answers) \in Nat /\ Len(unread) = 0
  BY <1>1, <1>3, EmptySeq DEF Given
<1>6. Len(answers) + 0 + 0 + 0 = AnsweredTo(export, i)
  BY <1>1, <1>4, <1>5 DEF InFile, Busy, Tailed
<1>7. Len(answers) = AnsweredTo(export, i)
  BY <1>5, <1>6
<1>8. Progress'
  BY <1>1, <1>4, <1>7 DEF Progress
<1>9. Given' /\ SeenSoFar'
  BY <1>1, <1>3 DEF Given, SeenSoFar
<1> QED
  BY <1>1, <1>2, <1>8, <1>9 DEF ReaderInv

\* and one that cannot be read on has one more, the last.
LEMMA ReaderScanFails ==
  ASSUME ReaderInv, Shape, ScanFails
  PROVE  ReaderInv'
<1> DEFINE answer == [kind |-> stream.ending, id |-> None]
<1>1. /\ at = "reading" /\ stream # None /\ unread = <<>> /\ stream.ending # "complete"
      /\ export' = export /\ Answer(answer) /\ Finish
  BY DEF ScanFails
<1>2. opened = "open" /\ stream \in FilesOf
  BY <1>1 DEF Shape
<1>3. Given /\ SeenSoFar /\ Progress
  BY <1>2 DEF ReaderInv
<1>4. PICK i \in 0 .. Len(OrderOf(export)) :
           names = SubSeq(OrderOf(export), i + 1, Len(OrderOf(export))) /\ InFile(i)
  BY <1>1, <1>3 DEF Progress
<1>5. Len(answers) \in Nat /\ Len(unread) = 0
  BY <1>1, <1>3, EmptySeq DEF Given
<1>6. /\ Len(answers) + 0 + 0 + 1 = AnsweredTo(export, i)
      /\ AllOf(export)[AnsweredTo(export, i)] = answer
  BY <1>1, <1>4, <1>5 DEF InFile, Busy, Tailed
<1>7. /\ Len(AllOf(export)) \in Nat /\ AnsweredTo(export, i) < Len(AllOf(export))
      /\ AnsweredTo(export, i) \in Nat
  BY <1>3, LenProperties DEF Given, Arranged
<1>8. Len(answers) + 1 <= Len(AllOf(export)) /\ answer = AllOf(export)[Len(answers) + 1]
  BY <1>5, <1>6, <1>7
<1>9. answer \in AnswerSet /\ answer.kind # "conversation"
  <2>1. stream.ending \in {"unavailable", "unscannable"}
    BY <1>1, <1>2, FilesAreFiles DEF IsFile
  <2> QED
    BY <2>1 DEF AnswerSet, Kinds, Ids
<1> HIDE DEF answer
<1> QED
  BY <1>1, <1>2, <1>3, <1>8, <1>9, ReaderEnds

\* The caller closes the reader, and no answer is added.
LEMMA ReaderCloses ==
  ASSUME ReaderInv, Shape, Close
  PROVE  ReaderInv'
<1>1. /\ opened' = IF opened = "no" THEN "no" ELSE "closed"
      /\ ~done /\ UNCHANGED <<export, seen, answers>>
  BY DEF Close, Finish
<1>2. CASE opened = "no"
  BY <1>1, <1>2 DEF ReaderInv, Unopened
<1>3. CASE opened # "no"
  <2>1. Given'
    BY <1>1, <1>3 DEF ReaderInv, Given
  <2> QED
    BY <1>1, <1>3, <2>1 DEF ReaderInv
<1> QED
  BY <1>2, <1>3

\* Nothing the invariant speaks of changes.
LEMMA ReaderRests ==
  ASSUME ReaderInv, UNCHANGED <<export, opened, names, stream, unread, done, seen, answers>>,
         Busy' = Busy, at' = "converting" => at = "converting" /\ record' = record
  PROVE  ReaderInv'
<1>1. Unopened => Unopened'
  BY DEF Unopened
<1>2. Given => Given'
  BY DEF Given
<1>3. SeenSoFar => SeenSoFar'
  BY DEF SeenSoFar
<1>4. ASSUME NEW i, InFile(i)
      PROVE  InFile(i)'
  BY <1>4 DEF InFile, Tailed
<1>5. Progress => Progress'
  BY <1>4 DEF Progress
<1> QED
  BY <1>1, <1>2, <1>3, <1>5 DEF ReaderInv

\* Every step of the reader keeps its invariant.
LEMMA ReaderNext ==
  ASSUME ConversionInv, Shape, ReaderInv, [Next]_vars
  PROVE  ReaderInv'
<1>1. CASE UNCHANGED vars
  BY <1>1, ReaderRests DEF vars, reader, conversion, Busy
<1>2. CASE Ask
  BY <1>2, ReaderRests DEF Ask, Busy
<1>3. CASE Convert /\ UNCHANGED reader
  BY <1>3, ConvertKeeps, ReaderRests DEF reader, Busy
<1>4. CASE Unreachable \/ NoExport
  BY <1>4, ReaderNoExport
<1>5. CASE OpenExport
  BY <1>5, ReaderOpensExport
<1>6. CASE OpenFile
  BY <1>6, ReaderOpensFile
<1>7. CASE OpenFails
  BY <1>7, ReaderOpenFails
<1>8. CASE NoMoreFiles
  BY <1>8, ReaderNoMoreFiles
<1>9. CASE NextRecord
  BY <1>9, ReaderNextRecord
<1>10. CASE FileEnds
  BY <1>10, ReaderFileEnds
<1>11. CASE ScanFails
  BY <1>11, ReaderScanFails
<1>12. CASE Close
  BY <1>12, ReaderCloses
<1>13. CASE Refused \/ Escaped \/ Duplicate \/ Yield
  BY <1>13, ReaderAnswersRecord
<1> QED
  BY <1>1, <1>2, <1>3, <1>4, <1>5, <1>6, <1>7, <1>8, <1>9, <1>10, <1>11, <1>12, <1>13
     DEF Next, Step, AskedAfterEnd

\* Sequences that agree so far have the same beginning.
LEMMA SameBeginning ==
  ASSUME NEW S, NEW s, NEW t, NEW n \in Nat, \A k \in 1 .. n : s[k] = t[k] /\ s[k] \in S
  PROVE  SubSeq(s, 1, n) = SubSeq(t, 1, n)
<1> DEFINE a == SubSeq(s, 1, n)
           b == SubSeq(t, 1, n)
           N == IF 1 <= n THEN n - 1 + 1 ELSE 0
<1>1. /\ a \in Seq(S) /\ Len(a) = N
      /\ \A i \in 1 .. n - 1 + 1 : a[i] = s[1 + i - 1]
  BY SubSeqProperties
<1>2. \A k \in 1 .. n : t[k] \in S
  OBVIOUS
<1>3. /\ b \in Seq(S) /\ Len(b) = N
      /\ \A i \in 1 .. n - 1 + 1 : b[i] = t[1 + i - 1]
  BY <1>2, SubSeqProperties
<1>4. N = n
  OBVIOUS
<1> HIDE DEF a, b, N
<1>5. \A i \in 1 .. n : a[i] = b[i]
  <2> SUFFICES ASSUME NEW i \in 1 .. n PROVE a[i] = b[i]
    OBVIOUS
  <2>1. i \in 1 .. n - 1 + 1 /\ 1 + i - 1 = i
    OBVIOUS
  <2>2. a[i] = s[i] /\ b[i] = t[i]
    BY <1>1, <1>3, <2>1
  <2> QED
    BY <2>2
<1>6. a = b
  BY <1>1, <1>3, <1>4, <1>5, SeqEqual
<1> QED
  BY <1>6 DEF a, b

\* What is given is a beginning of what is expected.
LEMMA GivenIsExpected ==
  ASSUME Given
  PROVE  IsPrefix(answers, Expected)
<1> DEFINE All == AllOf(export)
           n == Len(answers)
           ends == {k \in DOMAIN All : All[k].kind \in Finals}
           dom == {m \in DOMAIN All : \A k \in ends : m <= k}
<1>1. All \in Seq(AnswerSet) /\ Len(All) \in Nat /\ DOMAIN All = 1 .. Len(All)
  BY LenProperties DEF Given, Arranged
<1>2. n \in Nat /\ n <= Len(All) /\ answers \in Seq(AnswerSet)
  BY LenProperties DEF Given
<1>3. Expected = [k \in dom |-> Shown(export, k)]
  <2>1. FilesIn(export) = Files
    BY DEF Files, FilesIn
  <2>2. OrderOf(export) = CHOOSE o \in Arrangements(Files) : InOrder(Files, o)
    BY <2>1 DEF OrderOf
  <2>3. Expected =
          LET again(k) == \E j \in 1 .. k - 1 : All[j] = All[k]
          IN  [k \in {m \in DOMAIN All : \A e \in {k \in DOMAIN All : All[k].kind \in Finals} : m <= e} |->
                  IF All[k].kind = "conversation" /\ again(k) THEN [All[k] EXCEPT !.kind = "refused"]
                  ELSE All[k]]
    BY <2>2 DEF Expected, AllOf, Dues, TheEnd
  <2> QED
    BY <2>3 DEF Shown
<1>4. All[Len(All)] = TheEnd
  BY DEF Given, Arranged
<1>5. \A k \in 1 .. n - 1 : All[k].kind \notin Finals
  BY DEF Given
<1>6. \A k \in 1 .. n : answers[k] = Shown(export, k)
  BY DEF Given
<1> HIDE DEF n, All
<1>7. ends \in SUBSET Nat /\ ends # {}
  <2>1. Len(All) \in ends
    <3>1. Len(All) # 0
      <4>1. 0 \in 0 .. Len(OrderOf(export)) /\ AnsweredTo(export, 0) = 0
        BY LenProperties DEF Given, Arranged
      <4> QED
        BY <1>1, <4>1 DEF Given, Arranged, All
    <3> QED
      BY <1>1, <1>4, <3>1 DEF TheEnd, Finals
  <2> QED
    BY <1>1, <2>1
<1>8. PICK last \in ends : \A k \in ends : last <= k
  BY <1>7, HasLeast
<1>9. last \in 1 .. Len(All) /\ All[last].kind \in Finals
  BY <1>1, <1>8
<1>10. dom = 1 .. last
  BY <1>1, <1>7, <1>8, <1>9
<1>11. n <= last
  BY <1>1, <1>2, <1>5, <1>9
<1> HIDE DEF dom
<1>12. Expected = [k \in 1 .. last |-> Shown(export, k)] /\ last \in Nat
  BY <1>1, <1>3, <1>9, <1>10
<1>13. Len(Expected) = last /\ \A k \in 1 .. last : Expected[k] = Shown(export, k)
  BY <1>12
<1>14. ASSUME NEW k \in 1 .. n
       PROVE  answers[k] = Expected[k] /\ answers[k] \in AnswerSet
  <2>1. k \in 1 .. last
    BY <1>2, <1>11, <1>12
  <2>2. answers[k] \in AnswerSet
    BY <1>2, ElementOfSeq DEF n
  <2> QED
    BY <1>6, <1>13, <2>1, <2>2
<1>15. SubSeq(answers, 1, n) = SubSeq(Expected, 1, n)
  BY <1>2, <1>14, SameBeginning
<1> QED
  BY <1>2, <1>11, <1>13, <1>15 DEF IsPrefix, n

\* The invariant of the reader says what AnswersInOrder does.
LEMMA GivenInOrder == ReaderInv => AnswersInOrder
<1> SUFFICES ASSUME ReaderInv, at = "idle", answers # <<>>
             PROVE  AnswersInOrder
  BY DEF AnswersInOrder
<1>1. CASE opened = "no"
  BY <1>1 DEF ReaderInv, Unopened, AnswersInOrder
<1>2. CASE opened # "no"
  <2>1. Given
    BY <1>2 DEF ReaderInv
  <2>2. /\ export.form # "unreachable" /\ export.form # "unreadable"
        /\ (export.single = None) # (export.parts = {})
    BY <2>1 DEF Given, IsExport
  <2> QED
    BY <2>1, <2>2, GivenIsExpected DEF AnswersInOrder
<1> QED
  BY <1>1, <1>2

\* The inductive invariant of the reader and of the conversion in it.
THEOREM Readings == Spec => [](ConversionInv /\ Shape /\ ReaderInv)
<1>1. ReaderInit => ConversionInv /\ Shape /\ ReaderInv
  BY ShapeInit DEF ReaderInit, Init, ConversionInv, ReaderInv, Unopened
<1>2. ConversionInv /\ Shape /\ ReaderInv /\ [Next]_vars => ConversionInv' /\ Shape' /\ ReaderInv'
  BY ShapeNext, ConversionNext, ReaderNext
<1> QED
  BY <1>1, <1>2, PTL DEF Spec

\* For every export: every record has one answer, at its place, the conversation it
\* defines or its own refusal; of the records of one identifier the first is the
\* conversation; and nothing follows the answer that ends the export (source.py:
\* __next__, _convert; export.py: _conversation_files).
THEOREM AnswersAreInOrder == Spec => []AnswersInOrder
BY Readings, GivenInOrder, PTL
=============================================================================
