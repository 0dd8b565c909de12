------------------------- MODULE RecordScannerProofs -------------------------
(***************************************************************************)
(* The scanner over every text, cut into chunks of any size.  Three parts: *)
(* what the operators of RecordScanner return (there is no recursion but   *)
(* over positions, and every set of positions has a least member); the     *)
(* buffer shows the text (BufferInv), so that a value decoded from it is   *)
(* the value of the text unless it might go on behind it; and the text     *)
(* holds what was found followed by what is read on from here (TextInv).   *)
(***************************************************************************)
EXTENDS RecordScanner, SequenceTheorems, WellFoundedInduction, TLAPS

\* Every nonempty set of natural numbers has a least member: what induction over the
\* positions of a text rests on.
LEMMA HasLeast ==
  ASSUME NEW S \in SUBSET Nat, S # {}
  PROVE  \E n \in S : \A m \in S : n <= m
<1> DEFINE Below == OpToRel(<, Nat)
<1>1. IsWellFoundedOn(Below, Nat)
  BY NatLessThanWellFounded
<1>2. \A m, n \in Nat : m < n => <<m, n>> \in Below
  BY DEF OpToRel
<1> HIDE DEF Below
<1>3. PICK n \in S : \A m \in S : ~ (<<m, n>> \in Below)
  BY <1>1, WFMin
<1>4. \A m \in S : ~(m < n)
  BY <1>2, <1>3, Zenon
<1> QED
  BY <1>4

\* Least is what it is called.
LEMMA LeastFacts ==
  ASSUME NEW S \in SUBSET Nat, S # {}
  PROVE  Least(S) \in S /\ \A m \in S : Least(S) <= m
  BY HasLeast DEF Least

-----------------------------------------------------------------------------
(* Skip and DigitsEnd *)

\* The positions a scan of s can stand at.
Start(s) == 1 .. Len(s) + 1

\* From i to where Skip leads there is white space, and there is none.
LEMMA SkipFacts ==
  ASSUME NEW s \in Seq(STRING), NEW i \in Start(s)
  PROVE  /\ Skip(s, i) \in i .. Len(s) + 1
         /\ Skip(s, i) = Len(s) + 1 \/ s[Skip(s, i)] # Space
         /\ \A n \in i .. Skip(s, i) - 1 : s[n] = Space
<1> DEFINE S == {n \in i .. Len(s) + 1 : n = Len(s) + 1 \/ s[n] # Space}
<1>1. S \in SUBSET Nat /\ Len(s) + 1 \in S
  BY DEF Start
<1>2. Least(S) \in S /\ \A m \in S : Least(S) <= m
  BY <1>1, LeastFacts
<1>3. Skip(s, i) = Least(S)
  BY DEF Skip
<1> HIDE DEF S
<1>4. Skip(s, i) \in S /\ \A m \in S : Skip(s, i) <= m
  BY <1>2, <1>3
<1> QED
  BY <1>4 DEF S, Start

\* Only one position is like that.
LEMMA SkipIs ==
  ASSUME NEW s \in Seq(STRING), NEW i \in Start(s), NEW n \in i .. Len(s) + 1,
         n = Len(s) + 1 \/ s[n] # Space, \A m \in i .. n - 1 : s[m] = Space
  PROVE  Skip(s, i) = n
<1> DEFINE k == Skip(s, i)
<1>1. k \in i .. Len(s) + 1 /\ (k = Len(s) + 1 \/ s[k] # Space) /\ \A m \in i .. k - 1 : s[m] = Space
  BY SkipFacts
<1> HIDE DEF k
<1>2. ~(k < n) /\ ~(n < k)
  BY <1>1 DEF Start
<1> QED
  BY <1>1, <1>2 DEF Start, k

\* From i to where DigitsEnd leads there are digits, and there is none.
LEMMA DigitsFacts ==
  ASSUME NEW s \in Seq(STRING), NEW i \in Start(s)
  PROVE  /\ DigitsEnd(s, i) \in i .. Len(s) + 1
         /\ DigitsEnd(s, i) = Len(s) + 1 \/ s[DigitsEnd(s, i)] # Digit
         /\ \A n \in i .. DigitsEnd(s, i) - 1 : s[n] = Digit
<1> DEFINE S == {n \in i .. Len(s) + 1 : n = Len(s) + 1 \/ s[n] # Digit}
<1>1. S \in SUBSET Nat /\ Len(s) + 1 \in S
  BY DEF Start
<1>2. Least(S) \in S /\ \A m \in S : Least(S) <= m
  BY <1>1, LeastFacts
<1>3. DigitsEnd(s, i) = Least(S)
  BY DEF DigitsEnd
<1> HIDE DEF S
<1>4. DigitsEnd(s, i) \in S /\ \A m \in S : DigitsEnd(s, i) <= m
  BY <1>2, <1>3
<1> QED
  BY <1>4 DEF S, Start

-----------------------------------------------------------------------------
(* Decode *)

\* A number is longer than nothing and ends inside the text.
LEMMA NumberFacts ==
  ASSUME NEW s \in Seq(STRING), NEW i \in 1 .. Len(s), s[i] = Digit
  PROVE  /\ DigitsEnd(s, i) \in i + 1 .. Len(s) + 1
         /\ NumberEnd(s, i) \in i + 1 .. Len(s) + 1
<1> DEFINE n == DigitsEnd(s, i)
<1>1. n \in i + 1 .. Len(s) + 1
  BY DigitsFacts DEF Start
<1>2. CASE n < Len(s) /\ s[n] = Point /\ s[n + 1] = Digit
  <2>1. n + 1 \in Start(s)
    BY <1>1, <1>2 DEF Start
  <2>2. DigitsEnd(s, n + 1) \in n + 1 .. Len(s) + 1
    BY <2>1, DigitsFacts
  <2>3. NumberEnd(s, i) = DigitsEnd(s, n + 1)
    BY <1>2 DEF NumberEnd
  <2> QED
    BY <1>1, <2>2, <2>3
<1>3. CASE ~(n < Len(s) /\ s[n] = Point /\ s[n + 1] = Digit)
  BY <1>1, <1>3 DEF NumberEnd
<1> QED
  BY <1>1, <1>2, <1>3

\* Where the string that opens at i closes, if it does.
Closing(s, i) == {n \in i + 1 .. Len(s) : s[n] = Quote}

\* A string ends at the first quotation mark behind its own.
LEMMA ClosingFacts ==
  ASSUME NEW s \in Seq(STRING), NEW i \in 1 .. Len(s), Closing(s, i) # {}
  PROVE  /\ Least(Closing(s, i)) \in Closing(s, i)
         /\ \A n \in Closing(s, i) : Least(Closing(s, i)) <= n
<1>1. Closing(s, i) \in SUBSET Nat
  BY DEF Closing
<1> QED
  BY <1>1, LeastFacts

\* What Decode answers, by the character it starts at.
LEMMA DecodeCases ==
  ASSUME NEW s \in Seq(STRING), NEW i \in 1 .. Len(s)
  PROVE  /\ s[i] = Digit => Decode(s, i) = Value(TRUE, NumberEnd(s, i))
         /\ s[i] = Quote /\ Closing(s, i) = {} => Decode(s, i) = Invalid("unterminated", i)
         /\ s[i] = Quote /\ Closing(s, i) # {} =>
               Decode(s, i) = Value(FALSE, Least(Closing(s, i)) + 1)
         /\ s[i] = "t" /\ i < Len(s) /\ s[i + 1] = "u" => Decode(s, i) = Value(FALSE, i + 2)
         /\ s[i] = "t" /\ ~(i < Len(s) /\ s[i + 1] = "u") => Decode(s, i) = Invalid("syntax", i)
         /\ s[i] \notin {Digit, Quote, "t"} => Decode(s, i) = Invalid("syntax", i)
<1>0. /\ i <= Len(s) /\ ~(i > Len(s)) /\ Closing(s, i) = {n \in i + 1 .. Len(s) : s[n] = Quote}
      /\ Digit # Quote /\ Digit # "t" /\ Quote # "t"
  BY DEF Closing, Digit, Quote
<1>1. s[i] = Digit => Decode(s, i) = Value(TRUE, NumberEnd(s, i))
  BY <1>0 DEF Decode
<1>2. s[i] = Quote /\ Closing(s, i) = {} => Decode(s, i) = Invalid("unterminated", i)
  BY <1>0 DEF Decode
<1>3. s[i] = Quote /\ Closing(s, i) # {} => Decode(s, i) = Value(FALSE, Least(Closing(s, i)) + 1)
  BY <1>0 DEF Decode
<1>4. s[i] = "t" /\ i < Len(s) /\ s[i + 1] = "u" => Decode(s, i) = Value(FALSE, i + 2)
  BY <1>0 DEF Decode
<1>5. s[i] = "t" /\ ~(i < Len(s) /\ s[i + 1] = "u") => Decode(s, i) = Invalid("syntax", i)
  BY <1>0 DEF Decode
<1>6. s[i] \notin {Digit, Quote, "t"} => Decode(s, i) = Invalid("syntax", i)
  BY <1>0 DEF Decode
<1> QED
  BY <1>1, <1>2, <1>3, <1>4, <1>5, <1>6

\* A value is longer than nothing and ends inside the text.
LEMMA DecodeFacts ==
  ASSUME NEW s \in Seq(STRING), NEW i \in 1 .. Len(s), Decode(s, i).error = "none"
  PROVE  Decode(s, i).end \in i + 1 .. Len(s) + 1
<1>1. CASE s[i] = Digit
  BY <1>1, DecodeCases, NumberFacts DEF Value
<1>2. CASE s[i] = Quote /\ Closing(s, i) # {}
  <2>1. Least(Closing(s, i)) \in i + 1 .. Len(s)
    BY <1>2, ClosingFacts DEF Closing
  <2> QED
    BY <1>2, <2>1, DecodeCases DEF Value
<1>3. CASE s[i] = "t" /\ i < Len(s) /\ s[i + 1] = "u"
  BY <1>3, DecodeCases DEF Value
<1>4. CASE \/ s[i] = Quote /\ Closing(s, i) = {}
           \/ s[i] = "t" /\ ~(i < Len(s) /\ s[i + 1] = "u")
           \/ s[i] \notin {Digit, Quote, "t"}
  <2>1. Decode(s, i) = Invalid("unterminated", i) \/ Decode(s, i) = Invalid("syntax", i)
    BY <1>4, DecodeCases
  <2>2. Decode(s, i).error # "none"
    BY <2>1 DEF Invalid
  <2> QED
    BY <2>2
<1> QED
  BY <1>1, <1>2, <1>3, <1>4

-----------------------------------------------------------------------------
(* The reading of the whole text is what its definition says *)

\* What was found, and how the text ends.
Results == [records : Seq(Seq(STRING)), ending : {"complete", "refused"}]

\* The readings there are.
LEMMA ReadingIsResult ==
  ASSUME NEW found \in Seq(Seq(STRING)), NEW how \in {"complete", "refused"}
  PROVE  Reading(found, how) \in Results
  BY DEF Reading, Results

\* A text refused with nothing found is one of them,
LEMMA NothingIsResult == Reading(<<>>, "refused") \in Results
<1>1. <<>> \in Seq(Seq(STRING))
  OBVIOUS
<1> QED
  BY <1>1, ReadingIsResult

\* so is what is read behind the array,
LEMMA ReadClosingIsResult ==
  ASSUME NEW s \in Seq(STRING), NEW i \in Start(s)
  PROVE  ReadClosing(s, i) \in Results
<1>1. <<>> \in Seq(Seq(STRING))
  OBVIOUS
<1> QED
  BY <1>1, ReadingIsResult DEF ReadClosing

\* Only what lies ahead of a position matters for the reading from there.
LEMMA ReadsAhead ==
  ASSUME NEW s \in Seq(STRING), NEW i \in Start(s), NEW f, NEW g,
         \A j \in i + 1 .. Len(s) + 1 : f[j] = g[j]
  PROVE  ReadElement(s, i, f) = ReadElement(s, i, g)
<1> DEFINE start == Skip(s, i)
           value == Decode(s, start)
<1>1. start \in i .. Len(s) + 1
  BY SkipFacts
<1>2. CASE start <= Len(s) /\ value.error = "none"
  <2>1. start \in 1 .. Len(s) /\ i \in Nat
    BY <1>1, <1>2 DEF Start
  <2>2. value.end \in start + 1 .. Len(s) + 1
    BY <1>2, <2>1, DecodeFacts
  <2>3. value.end \in Start(s)
    BY <2>1, <2>2 DEF Start
  <2> HIDE DEF start, value
  <2> DEFINE after == Skip(s, value.end)
  <2>4. after \in value.end .. Len(s) + 1
    BY <2>3, SkipFacts
  <2>5. after <= Len(s) => f[after + 1] = g[after + 1]
    BY <1>1, <2>1, <2>2, <2>4
  <2>6. ~(after > Len(s)) => after <= Len(s)
    BY <2>1, <2>2, <2>4
  <2>7. ReadAfter(s, value.end, f) = ReadAfter(s, value.end, g)
    BY <2>5, <2>6 DEF ReadAfter
  <2> QED
    BY <2>7 DEF ReadElement, start, value
<1>3. CASE ~(start <= Len(s)) \/ value.error # "none"
  <2>1. start > Len(s) \/ value.error # "none"
    BY <1>1, <1>3 DEF Start
  <2> QED
    BY <2>1 DEF ReadElement
<1> QED
  BY <1>2, <1>3

\* behind a value,
LEMMA ReadAfterIsResult ==
  ASSUME NEW s \in Seq(STRING), NEW i \in Start(s), NEW f,
         \A j \in i + 1 .. Len(s) + 1 : f[j] \in Results
  PROVE  ReadAfter(s, i, f) \in Results
<1> DEFINE after == Skip(s, i)
<1>1. after \in i .. Len(s) + 1
  BY SkipFacts
<1>2. Reading(<<>>, "refused") \in Results
  BY NothingIsResult
<1>3. after <= Len(s) => ReadClosing(s, after + 1) \in Results /\ f[after + 1] \in Results
  <2> SUFFICES ASSUME after <= Len(s) PROVE ReadClosing(s, after + 1) \in Results /\ f[after + 1] \in Results
    OBVIOUS
  <2>1. after + 1 \in i + 1 .. Len(s) + 1 /\ after + 1 \in Start(s)
    BY <1>1 DEF Start
  <2> QED
    BY <2>1, ReadClosingIsResult
<1> HIDE DEF after
<1>4. ~(after > Len(s)) => after <= Len(s)
  BY <1>1 DEF Start
<1> QED
  BY <1>2, <1>3, <1>4 DEF ReadAfter, after

\* and from a value on, if what comes later reads as it should.
LEMMA ReadElementIsResult ==
  ASSUME NEW s \in Seq(STRING), NEW i \in Start(s), NEW f,
         \A j \in i + 1 .. Len(s) + 1 : f[j] \in Results
  PROVE  ReadElement(s, i, f) \in Results
<1> DEFINE start == Skip(s, i)
           value == Decode(s, start)
<1>1. start \in i .. Len(s) + 1
  BY SkipFacts
<1>2. Reading(<<>>, "refused") \in Results
  BY NothingIsResult
<1>3. CASE start > Len(s)
  BY <1>2, <1>3 DEF ReadElement
<1>4. CASE ~(start > Len(s)) /\ s[start] = "]"
  <2>1. start + 1 \in Start(s)
    BY <1>1, <1>4 DEF Start
  <2> QED
    BY <1>4, <2>1, ReadClosingIsResult DEF ReadElement
<1>5. CASE ~(start > Len(s)) /\ s[start] # "]" /\ value.error # "none"
  BY <1>2, <1>5 DEF ReadElement
<1>6. CASE ~(start > Len(s)) /\ s[start] # "]" /\ value.error = "none"
  <2>1. start \in 1 .. Len(s)
    BY <1>1, <1>6 DEF Start
  <2>2. value.end \in start + 1 .. Len(s) + 1
    BY <1>6, <2>1, DecodeFacts
  <2> HIDE DEF start
  <2>3. value.end \in Start(s) /\ \A j \in value.end + 1 .. Len(s) + 1 : j \in i + 1 .. Len(s) + 1
    BY <1>1, <2>1, <2>2 DEF Start
  <2> HIDE DEF value
  <2> DEFINE after == ReadAfter(s, value.end, f)
             piece == SubSeq(s, start, value.end - 1)
  <2>4. after \in Results
    BY <2>3, ReadAfterIsResult
  <2>5. piece \in Seq(STRING)
    BY <2>1, <2>2
  <2>6. ReadElement(s, i, f) = Reading(<<piece>> \o after.records, after.ending)
    BY <1>6 DEF ReadElement, start, value
  <2> HIDE DEF after, piece
  <2>7. <<piece>> \o after.records \in Seq(Seq(STRING)) /\ after.ending \in {"complete", "refused"}
    BY <2>4, <2>5 DEF Results
  <2> QED
    BY <2>6, <2>7, ReadingIsResult
<1> QED
  BY <1>3, <1>4, <1>5, <1>6

\* The function that reads from every position exists: position by position, from the
\* last to the first.
LEMMA ReadElementsDef ==
  ASSUME NEW s \in Seq(STRING)
  PROVE  ReadElements(s) = [i \in Start(s) |-> ReadElement(s, i, ReadElements(s))]
<1> DEFINE Reads(f, n) == \A i \in n .. Len(s) + 1 : f[i] = ReadElement(s, i, f)
           Unread == {k \in 0 .. Len(s) : ~ \E f : Reads(f, Len(s) + 1 - k)}
<1>1. Unread = {}
  <2> SUFFICES ASSUME Unread # {} PROVE FALSE
    OBVIOUS
  <2>0. Unread \in SUBSET Nat
    OBVIOUS
  <2>1. PICK k \in Unread : \A m \in Unread : k <= m
    BY <2>0, HasLeast
  <2>k. k \in 0 .. Len(s) /\ Len(s) \in Nat
    BY <2>1
  <2>2. PICK n \in Start(s) : n = Len(s) + 1 - k
    <3>1. Len(s) + 1 - k \in Start(s)
      BY <2>k DEF Start
    <3> QED
      BY <3>1
  <2>3. ~ \E f : Reads(f, n)
    BY <2>1, <2>2
  <2>4. \E f : Reads(f, n + 1)
    <3>1. CASE k = 0
      <4>1. n + 1 .. Len(s) + 1 = {}
        BY <2>2, <3>1 DEF Start
      <4> QED
        BY <4>1
    <3>2. CASE k # 0
      <4>1. k - 1 \in 0 .. Len(s) /\ ~(k <= k - 1)
        BY <2>k, <3>2
      <4>3. k - 1 \notin Unread
        BY <2>1, <4>1
      <4>2. Len(s) + 1 - (k - 1) = n + 1
        BY <2>2, <2>k
      <4> QED
        BY <4>1, <4>2, <4>3
    <3> QED
      BY <3>1, <3>2
  <2>5. PICK f : Reads(f, n + 1)
    BY <2>4
  <2> DEFINE g == [i \in n .. Len(s) + 1 |-> IF i = n THEN ReadElement(s, n, f) ELSE f[i]]
  <2>6. \A i \in n + 1 .. Len(s) + 1 : g[i] = f[i]
    BY <2>2 DEF Start
  <2> HIDE DEF g
  <2>7. ASSUME NEW i \in n .. Len(s) + 1 PROVE ReadElement(s, i, g) = ReadElement(s, i, f)
    <3>1. i \in Start(s) /\ \A j \in i + 1 .. Len(s) + 1 : j \in n + 1 .. Len(s) + 1
      BY <2>2, <2>k DEF Start
    <3>2. \A j \in i + 1 .. Len(s) + 1 : g[j] = f[j]
      BY <2>6, <3>1
    <3> QED
      BY <3>1, <3>2, ReadsAhead
  <2>8. ASSUME NEW i \in n .. Len(s) + 1 PROVE g[i] = ReadElement(s, i, g)
    <3>1. g[i] = IF i = n THEN ReadElement(s, n, f) ELSE f[i]
      BY DEF g
    <3>2. i = n \/ i \in n + 1 .. Len(s) + 1
      BY <2>2 DEF Start
    <3>3. g[i] = ReadElement(s, i, f)
      BY <2>5, <3>1, <3>2
    <3> QED
      BY <2>7, <3>3
  <2> QED
    BY <2>3, <2>8
<1>2. PICK f : Reads(f, 1)
  <2>1. Len(s) \in 0 .. Len(s) /\ Len(s) + 1 - Len(s) = 1
    OBVIOUS
  <2> QED
    BY <1>1, <2>1
<1> DEFINE g == [i \in Start(s) |-> f[i]]
<1>3. g = [i \in Start(s) |-> ReadElement(s, i, g)]
  <2>1. \A i \in Start(s) : ReadElement(s, i, g) = ReadElement(s, i, f)
    BY ReadsAhead DEF Start
  <2> QED
    BY <1>2, <2>1 DEF Start
<1>4. \E h : h = [i \in Start(s) |-> ReadElement(s, i, h)]
  BY <1>3
<1> QED
  BY <1>4 DEF ReadElements, Start

\* What it reads from a position, by what it reads from later ones.
LEMMA ReadElementsAt ==
  ASSUME NEW s \in Seq(STRING), NEW i \in Start(s)
  PROVE  ReadElements(s)[i] = ReadElement(s, i, ReadElements(s))
<1> DEFINE f == ReadElements(s)
<1>1. f = [j \in Start(s) |-> ReadElement(s, j, f)]
  BY ReadElementsDef
<1> HIDE DEF f
<1>2. f[i] = ReadElement(s, i, f)
  BY <1>1
<1> QED
  BY <1>2 DEF f

\* From every position it reads elements and an ending.
LEMMA ReadElementsIsResult ==
  ASSUME NEW s \in Seq(STRING), NEW i \in Start(s)
  PROVE  ReadElements(s)[i] \in Results
<1> DEFINE f == ReadElements(s)
           Strange == {k \in 0 .. Len(s) : f[Len(s) + 1 - k] \notin Results}
<1>1. \A j \in Start(s) : f[j] = ReadElement(s, j, f)
  BY ReadElementsAt
<1> HIDE DEF f
<1>2. Strange = {}
  <2> SUFFICES ASSUME Strange # {} PROVE FALSE
    OBVIOUS
  <2>1. Strange \in SUBSET Nat
    OBVIOUS
  <2>2. PICK k \in Strange : \A m \in Strange : k <= m
    BY <2>1, HasLeast
  <2>3. k \in 0 .. Len(s) /\ f[Len(s) + 1 - k] \notin Results
    BY <2>2
  <2> DEFINE n == Len(s) + 1 - k
  <2>4. n \in Start(s)
    BY <2>3 DEF Start
  <2>5. ASSUME NEW j \in n + 1 .. Len(s) + 1 PROVE f[j] \in Results
    <3>1. Len(s) + 1 - j \in 0 .. Len(s) /\ ~(k <= Len(s) + 1 - j)
      BY <2>3
    <3>2. Len(s) + 1 - j \notin Strange
      BY <2>2, <3>1
    <3>3. Len(s) + 1 - (Len(s) + 1 - j) = j
      BY <2>3
    <3> QED
      BY <3>1, <3>2, <3>3
  <2>6. ReadElement(s, n, f) \in Results
    BY <2>4, <2>5, ReadElementIsResult
  <2> QED
    BY <1>1, <2>3, <2>4, <2>6
<1>3. Len(s) + 1 - i \in 0 .. Len(s) /\ Len(s) + 1 - (Len(s) + 1 - i) = i
  BY DEF Start
<1>4. f[i] \in Results
  BY <1>2, <1>3
<1> QED
  BY <1>4 DEF f

-----------------------------------------------------------------------------
(* What a buffer says of the text *)

\* b is what stands in s behind position o.
Shows(b, s, o) ==
    /\ o \in Nat /\ o + Len(b) <= Len(s)
    /\ \A j \in 1 .. Len(b) : b[j] = s[o + j]

\* The value could go on behind the buffer.
GoesOn(b, d) ==
    \/ d.end = Len(b) + 1
    \/ d.number /\ d.end <= Len(b) /\ b[d.end] \in {Digit, Point}

\* Digits that end inside the buffer, or with the text, end there in the text.
LEMMA DigitsShown ==
  ASSUME NEW s \in Seq(STRING), NEW b \in Seq(STRING), NEW o, Shows(b, s, o),
         NEW i \in Start(b), o + Len(b) = Len(s) \/ DigitsEnd(b, i) <= Len(b)
  PROVE  DigitsEnd(s, o + i) = o + DigitsEnd(b, i)
<1> DEFINE n == DigitsEnd(b, i)
           m == DigitsEnd(s, o + i)
<1>1. /\ n \in i .. Len(b) + 1
      /\ n = Len(b) + 1 \/ b[n] # Digit
      /\ \A j \in i .. n - 1 : b[j] = Digit
  BY DigitsFacts
<1>2. o \in Nat /\ o + Len(b) <= Len(s) /\ \A j \in 1 .. Len(b) : b[j] = s[o + j]
  BY DEF Shows
<1>3. o + i \in Start(s)
  BY <1>2 DEF Start
<1>4. /\ m \in o + i .. Len(s) + 1
      /\ m = Len(s) + 1 \/ s[m] # Digit
      /\ \A j \in o + i .. m - 1 : s[j] = Digit
  BY <1>3, DigitsFacts
<1>5. o + Len(b) = Len(s) \/ n <= Len(b)
  OBVIOUS
<1> HIDE DEF n, m
<1>6. ~(m < o + n)
  <2> SUFFICES ASSUME m < o + n PROVE FALSE
    OBVIOUS
  <2>1. m - o \in i .. n - 1 /\ m - o \in 1 .. Len(b) /\ o + (m - o) = m
    BY <1>1, <1>2, <1>4 DEF Start
  <2>2. b[m - o] = Digit /\ b[m - o] = s[m]
    BY <1>1, <1>2, <2>1
  <2> QED
    BY <1>1, <1>2, <1>4, <2>1, <2>2
<1>7. ~(o + n < m)
  <2> SUFFICES ASSUME o + n < m PROVE FALSE
    OBVIOUS
  <2>1. o + n \in o + i .. m - 1 /\ n \in Nat
    BY <1>1, <1>2, <1>4 DEF Start
  <2>2. s[o + n] = Digit
    BY <1>4, <2>1
  <2>3. n # Len(b) + 1
    BY <1>1, <1>2, <1>4, <1>5
  <2>4. n \in 1 .. Len(b)
    BY <1>1, <2>3 DEF Start
  <2> QED
    BY <1>1, <1>2, <2>2, <2>3, <2>4
<1>8. m = o + n
  BY <1>1, <1>2, <1>4, <1>6, <1>7 DEF Start
<1> QED
  BY <1>8 DEF n, m

\* A number that nothing in the buffer or behind it continues is that number in the text.
LEMMA NumberShown ==
  ASSUME NEW s \in Seq(STRING), NEW b \in Seq(STRING), NEW o, Shows(b, s, o),
         NEW i \in 1 .. Len(b), b[i] = Digit,
         \/ o + Len(b) = Len(s)
         \/ NumberEnd(b, i) <= Len(b) /\ b[NumberEnd(b, i)] \notin {Digit, Point}
  PROVE  NumberEnd(s, o + i) = o + NumberEnd(b, i)
<1> DEFINE n == DigitsEnd(b, i)
<1>1. o \in Nat /\ o + Len(b) <= Len(s) /\ \A j \in 1 .. Len(b) : b[j] = s[o + j]
  BY DEF Shows
<1>2. n \in i + 1 .. Len(b) + 1 /\ NumberEnd(b, i) \in i + 1 .. Len(b) + 1
  BY NumberFacts
<1>3. i \in Start(b)
  BY DEF Start
<1> HIDE DEF n
<1>4. CASE n < Len(b) /\ b[n] = Point /\ b[n + 1] = Digit
  <2>1. NumberEnd(b, i) = DigitsEnd(b, n + 1)
    BY <1>4 DEF NumberEnd, n
  <2>2. n + 1 \in Start(b) /\ n \in 1 .. Len(b) /\ n + 1 \in 1 .. Len(b)
    BY <1>2, <1>4 DEF Start
  <2>3. DigitsEnd(s, o + (n + 1)) = o + NumberEnd(b, i)
    BY <2>1, <2>2, DigitsShown
  <2>4. DigitsEnd(s, o + i) = o + n
    BY <1>2, <1>3, <1>4, DigitsShown DEF n
  <2>5. b[n] = s[o + n] /\ b[n + 1] = s[o + (n + 1)]
    BY <1>1, <2>2
  <2>6. o + n < Len(s) /\ o + n + 1 = o + (n + 1)
    BY <1>1, <1>2, <1>4
  <2>7. s[o + n] = Point /\ s[o + n + 1] = Digit
    BY <1>4, <2>5, <2>6
  <2> QED
    BY <2>3, <2>4, <2>6, <2>7 DEF NumberEnd
<1>5. CASE ~(n < Len(b) /\ b[n] = Point /\ b[n + 1] = Digit)
  <2>1. NumberEnd(b, i) = n
    BY <1>5 DEF NumberEnd, n
  <2>2. \/ o + Len(b) = Len(s)
        \/ n <= Len(b) /\ b[n] \notin {Digit, Point}
    BY <2>1
  <2>3. DigitsEnd(s, o + i) = o + n
    BY <1>3, <2>2, DigitsShown DEF n
  <2>4. ~(o + n < Len(s) /\ s[o + n] = Point /\ s[o + n + 1] = Digit)
    <3>1. CASE o + Len(b) = Len(s)
      <4> SUFFICES ASSUME o + n < Len(s) PROVE ~(s[o + n] = Point /\ s[o + n + 1] = Digit)
        OBVIOUS
      <4>1. n \in 1 .. Len(b) /\ n + 1 \in 1 .. Len(b) /\ n < Len(b) /\ o + n + 1 = o + (n + 1)
        BY <1>1, <1>2, <3>1
      <4> QED
        BY <1>1, <1>5, <4>1
    <3>2. CASE n <= Len(b) /\ b[n] \notin {Digit, Point}
      BY <1>1, <1>2, <3>2
    <3> QED
      BY <2>2, <3>1, <3>2
  <2> QED
    BY <2>1, <2>3, <2>4 DEF NumberEnd
<1> QED
  BY <1>4, <1>5

\* A string that closes inside the buffer closes there in the text.
LEMMA ClosingShown ==
  ASSUME NEW s \in Seq(STRING), NEW b \in Seq(STRING), NEW o, Shows(b, s, o),
         NEW i \in 1 .. Len(b), Closing(b, i) # {}
  PROVE  /\ Closing(s, o + i) # {}
         /\ Least(Closing(s, o + i)) = o + Least(Closing(b, i))
<1> DEFINE n == Least(Closing(b, i))
           m == Least(Closing(s, o + i))
<1>1. o \in Nat /\ o + Len(b) <= Len(s) /\ \A j \in 1 .. Len(b) : b[j] = s[o + j]
  BY DEF Shows
<1>2. n \in Closing(b, i) /\ \A j \in Closing(b, i) : n <= j
  BY ClosingFacts
<1>3. n \in i + 1 .. Len(b) /\ b[n] = Quote
  BY <1>2 DEF Closing
<1> HIDE DEF n
<1>4. o + n \in Closing(s, o + i)
  BY <1>1, <1>3 DEF Closing
<1>5. o + i \in 1 .. Len(s)
  BY <1>1
<1>6. m \in Closing(s, o + i) /\ \A j \in Closing(s, o + i) : m <= j
  BY <1>4, <1>5, ClosingFacts
<1>7. m \in o + i + 1 .. Len(s) /\ s[m] = Quote /\ m <= o + n
  BY <1>4, <1>6 DEF Closing
<1> HIDE DEF m
<1>8. m - o \in i + 1 .. Len(b) /\ m - o \in 1 .. Len(b) /\ o + (m - o) = m
  BY <1>1, <1>3, <1>7
<1>9. m - o \in Closing(b, i)
  BY <1>1, <1>7, <1>8 DEF Closing
<1>10. n <= m - o
  BY <1>2, <1>9
<1>11. m = o + n
  BY <1>1, <1>3, <1>7, <1>10
<1> QED
  BY <1>4, <1>11 DEF n, m

\* A value that cannot go on behind the buffer is the value in the text.
LEMMA ValueShown ==
  ASSUME NEW s \in Seq(STRING), NEW b \in Seq(STRING), NEW o, Shows(b, s, o),
         NEW i \in 1 .. Len(b), Decode(b, i).error = "none",
         o + Len(b) = Len(s) \/ ~GoesOn(b, Decode(b, i))
  PROVE  Decode(s, o + i).error = "none" /\ Decode(s, o + i).end = o + Decode(b, i).end
<1>1. o \in Nat /\ o + Len(b) <= Len(s) /\ \A j \in 1 .. Len(b) : b[j] = s[o + j]
  BY DEF Shows
<1>2. o + i \in 1 .. Len(s) /\ s[o + i] = b[i]
  BY <1>1
<1>3. CASE b[i] = Digit
  <2>1. Decode(b, i) = Value(TRUE, NumberEnd(b, i)) /\ NumberEnd(b, i) \in i + 1 .. Len(b) + 1
    BY <1>3, DecodeCases, NumberFacts
  <2>2. Decode(s, o + i) = Value(TRUE, NumberEnd(s, o + i))
    BY <1>2, <1>3, DecodeCases
  <2>3. \/ o + Len(b) = Len(s)
        \/ NumberEnd(b, i) <= Len(b) /\ b[NumberEnd(b, i)] \notin {Digit, Point}
    BY <2>1 DEF GoesOn, Value
  <2>4. NumberEnd(s, o + i) = o + NumberEnd(b, i)
    BY <1>3, <2>3, NumberShown
  <2> QED
    BY <2>1, <2>2, <2>4 DEF Value
<1>4. CASE b[i] = Quote /\ Closing(b, i) # {}
  <2>0. Least(Closing(b, i)) \in Nat
    BY <1>4, ClosingFacts DEF Closing
  <2>1. Decode(b, i) = Value(FALSE, Least(Closing(b, i)) + 1)
    BY <1>4, DecodeCases
  <2>2. Closing(s, o + i) # {} /\ Least(Closing(s, o + i)) = o + Least(Closing(b, i))
    BY <1>4, ClosingShown
  <2>3. Decode(s, o + i) = Value(FALSE, Least(Closing(s, o + i)) + 1)
    BY <1>2, <1>4, <2>2, DecodeCases
  <2> QED
    <3>1. Decode(b, i).end = Least(Closing(b, i)) + 1
      BY <2>1 DEF Value
    <3>2. /\ Decode(s, o + i).error = "none"
          /\ Decode(s, o + i).end = Least(Closing(s, o + i)) + 1
      BY <2>3 DEF Value
    <3>3. Least(Closing(s, o + i)) + 1 = o + (Least(Closing(b, i)) + 1)
      BY <1>1, <2>0, <2>2
    <3> QED
      BY <3>1, <3>2, <3>3
<1>5. CASE b[i] = "t" /\ i < Len(b) /\ b[i + 1] = "u"
  <2>1. Decode(b, i) = Value(FALSE, i + 2)
    BY <1>5, DecodeCases
  <2>2. o + i < Len(s) /\ s[o + i + 1] = "u"
    BY <1>1, <1>5
  <2>3. Decode(s, o + i) = Value(FALSE, o + i + 2)
    BY <1>2, <1>5, <2>2, DecodeCases
  <2> QED
    BY <1>1, <2>1, <2>3 DEF Value
<1>6. CASE \/ b[i] = Quote /\ Closing(b, i) = {}
           \/ b[i] = "t" /\ ~(i < Len(b) /\ b[i + 1] = "u")
           \/ b[i] \notin {Digit, Quote, "t"}
  <2>1. Decode(b, i) = Invalid("unterminated", i) \/ Decode(b, i) = Invalid("syntax", i)
    BY <1>6, DecodeCases
  <2> QED
    BY <2>1 DEF Invalid
<1> QED
  BY <1>3, <1>4, <1>5, <1>6

\* What is no value, and not for want of the rest of it, is none in the text.
LEMMA ErrorShown ==
  ASSUME NEW s \in Seq(STRING), NEW b \in Seq(STRING), NEW o, Shows(b, s, o),
         NEW i \in 1 .. Len(b), Decode(b, i).error # "none", Slack \in Nat \ {0},
         \/ o + Len(b) = Len(s)
         \/ Decode(b, i).error = "syntax" /\ ~(Decode(b, i).end - 1 >= Len(b) - Slack)
  PROVE  Decode(s, o + i).error # "none"
<1>1. o \in Nat /\ o + Len(b) <= Len(s) /\ \A j \in 1 .. Len(b) : b[j] = s[o + j]
  BY DEF Shows
<1>2. o + i \in 1 .. Len(s) /\ s[o + i] = b[i]
  BY <1>1
<1>3. CASE b[i] = Quote /\ Closing(b, i) = {}
  <2>1. Decode(b, i) = Invalid("unterminated", i)
    BY <1>3, DecodeCases
  <2>2. o + Len(b) = Len(s)
    BY <2>1 DEF Invalid
  <2>3. Closing(s, o + i) = {}
    <3> SUFFICES ASSUME NEW m \in Closing(s, o + i) PROVE FALSE
      OBVIOUS
    <3>1. m - o \in i + 1 .. Len(b) /\ m - o \in 1 .. Len(b) /\ o + (m - o) = m /\ s[m] = Quote
      BY <1>1, <2>2 DEF Closing
    <3>2. m - o \in Closing(b, i)
      BY <1>1, <3>1 DEF Closing
    <3> QED
      BY <1>3, <3>2
  <2>4. Decode(s, o + i) = Invalid("unterminated", o + i)
    BY <1>2, <1>3, <2>3, DecodeCases
  <2> QED
    BY <2>4 DEF Invalid
<1>4. CASE b[i] = "t" /\ ~(i < Len(b) /\ b[i + 1] = "u")
  <2>1. Decode(b, i) = Invalid("syntax", i)
    BY <1>4, DecodeCases
  <2>2. o + Len(b) = Len(s) \/ i < Len(b)
    BY <2>1 DEF Invalid
  <2>3. ~(o + i < Len(s) /\ s[o + i + 1] = "u")
    <3> SUFFICES ASSUME o + i < Len(s) PROVE s[o + i + 1] # "u"
      OBVIOUS
    <3>1. i < Len(b) /\ i + 1 \in 1 .. Len(b) /\ o + i + 1 = o + (i + 1)
      BY <1>1, <2>2
    <3>2. b[i + 1] = s[o + i + 1]
      BY <1>1, <3>1
    <3> QED
      BY <1>4, <3>1, <3>2
  <2>4. Decode(s, o + i) = Invalid("syntax", o + i)
    BY <1>2, <1>4, <2>3, DecodeCases
  <2> QED
    BY <2>4 DEF Invalid
<1>5. CASE b[i] \notin {Digit, Quote, "t"}
  <2>1. Decode(s, o + i) = Invalid("syntax", o + i)
    BY <1>2, <1>5, DecodeCases
  <2> QED
    BY <2>1 DEF Invalid
<1>6. CASE \/ b[i] = Digit
           \/ b[i] = Quote /\ Closing(b, i) # {}
           \/ b[i] = "t" /\ i < Len(b) /\ b[i + 1] = "u"
  <2>1. \/ Decode(b, i) = Value(TRUE, NumberEnd(b, i))
        \/ Decode(b, i) = Value(FALSE, Least(Closing(b, i)) + 1)
        \/ Decode(b, i) = Value(FALSE, i + 2)
    BY <1>6, DecodeCases
  <2> QED
    BY <2>1 DEF Value
<1> QED
  BY <1>3, <1>4, <1>5, <1>6

-----------------------------------------------------------------------------
(* The buffer shows the text up to what was read *)

\* What stands where in a sequence put together from two,
LEMMA Joined ==
  ASSUME NEW a \in Seq(STRING), NEW b \in Seq(STRING)
  PROVE  /\ a \o b \in Seq(STRING) /\ Len(a \o b) = Len(a) + Len(b)
         /\ \A i \in 1 .. Len(a) + Len(b) :
               (a \o b)[i] = IF i <= Len(a) THEN a[i] ELSE b[i - Len(a)]
  BY ConcatProperties

\* and in a piece of one.
LEMMA Piece ==
  ASSUME NEW q \in Seq(STRING), NEW m \in 1 .. Len(q) + 1, NEW n \in m - 1 .. Len(q)
  PROVE  /\ SubSeq(q, m, n) \in Seq(STRING) /\ Len(SubSeq(q, m, n)) = n + 1 - m
         /\ \A j \in 1 .. n + 1 - m : SubSeq(q, m, n)[j] = q[m + j - 1]
<1>1. m \in Int /\ n \in Int /\ \A i \in m .. n : q[i] \in STRING
  OBVIOUS
<1>2. /\ SubSeq(q, m, n) \in Seq(STRING)
      /\ Len(SubSeq(q, m, n)) = IF m <= n THEN n - m + 1 ELSE 0
      /\ \A i \in 1 .. n - m + 1 : SubSeq(q, m, n)[i] = q[m + i - 1]
  BY <1>1, SubSeqProperties
<1>3. n - m + 1 = n + 1 - m /\ (~(m <= n) => n + 1 - m = 0)
  OBVIOUS
<1> QED
  BY <1>2, <1>3

\* A piece of the buffer is the piece of the text at that place.
LEMMA SamePiece ==
  ASSUME NEW s \in Seq(STRING), NEW b \in Seq(STRING), NEW o, Shows(b, s, o),
         NEW m \in 1 .. Len(b), NEW n \in m .. Len(b),
         NEW k, k = o + m, NEW l, l = o + n
  PROVE  SubSeq(b, m, n) = SubSeq(s, k, l)
<1>1. o \in Nat /\ o + Len(b) <= Len(s) /\ \A j \in 1 .. Len(b) : b[j] = s[o + j]
  BY DEF Shows
<1>2. k \in 1 .. Len(s) + 1 /\ l \in k - 1 .. Len(s) /\ l + 1 - k = n + 1 - m
  BY <1>1
<1>3. /\ SubSeq(s, k, l) \in Seq(STRING) /\ Len(SubSeq(s, k, l)) = n + 1 - m
      /\ \A j \in 1 .. n + 1 - m : SubSeq(s, k, l)[j] = s[k + j - 1]
  <2>1. /\ SubSeq(s, k, l) \in Seq(STRING) /\ Len(SubSeq(s, k, l)) = l + 1 - k
        /\ \A j \in 1 .. l + 1 - k : SubSeq(s, k, l)[j] = s[k + j - 1]
    BY <1>2, Piece
  <2> QED
    BY <1>2, <2>1
<1>4. /\ SubSeq(b, m, n) \in Seq(STRING) /\ Len(SubSeq(b, m, n)) = n + 1 - m
      /\ \A j \in 1 .. n + 1 - m : SubSeq(b, m, n)[j] = b[m + j - 1]
  BY Piece
<1>5. ASSUME NEW j \in 1 .. n + 1 - m PROVE SubSeq(b, m, n)[j] = SubSeq(s, k, l)[j]
  <2>1. m + j - 1 \in 1 .. Len(b) /\ o + (m + j - 1) = k + j - 1
    BY <1>1
  <2> QED
    BY <1>1, <1>3, <1>4, <2>1
<1> QED
  BY <1>3, <1>4, <1>5, SeqEqual

\* Characters of the text in front of the buffer, and where the next one stands.
Offset == consumed - Len(buffer)
Here == Offset + position

\* The buffer shows the text from Offset to what was read.
BufferInv ==
    /\ text \in Seq(STRING)
    /\ chunk \in Nat \ {0}
    /\ consumed \in 0 .. Len(text)
    /\ buffer \in Seq(STRING)
    /\ Shows(buffer, text, Offset)
    /\ position \in 1 .. Len(buffer) + 1
    /\ at_end \in BOOLEAN
    /\ at_end => consumed = Len(text)
    /\ at = "decode" => position <= Len(buffer)

\* At the start the buffer is empty and so shows the text.
LEMMA BufferInvInit == Init => BufferInv
<1> SUFFICES ASSUME Init PROVE BufferInv
  OBVIOUS
<1>1. text \in Seq(STRING) /\ chunk \in Nat \ {0}
  BY ScannerAssumption DEF Init
<1>2. Len(buffer) = 0 /\ buffer \in Seq(STRING) /\ consumed = 0 /\ position = 1 /\ Len(text) \in Nat
  BY <1>1 DEF Init
<1>3. Shows(buffer, text, Offset)
  BY <1>1, <1>2 DEF Shows, Offset
<1>4. at_end = FALSE /\ at # "decode"
  BY DEF Init
<1>5. consumed \in 0 .. Len(text) /\ position \in 1 .. Len(buffer) + 1
  BY <1>2
<1> QED
  BY <1>1, <1>2, <1>3, <1>4, <1>5 DEF BufferInv

\* A read adds the next characters of the text to what was kept of the buffer.
LEMMA ReadShows ==
  ASSUME BufferInv, NEW size \in Nat \ {0}, NEW kept \in Seq(STRING),
         NEW o, Shows(kept, text, o), o + Len(kept) = consumed, Read(size, kept)
  PROVE  /\ buffer' \in Seq(STRING) /\ Len(buffer') >= Len(kept)
         /\ consumed' \in 0 .. Len(text)
         /\ Shows(buffer', text, o) /\ o + Len(buffer') = consumed'
         /\ \A j \in 1 .. Len(kept) : buffer'[j] = kept[j]
         /\ at_end' \in BOOLEAN /\ (at_end' => consumed' = Len(text))
<1> DEFINE n == IF consumed + size < Len(text) THEN consumed + size ELSE Len(text)
           new == SubSeq(text, consumed + 1, n)
<1>1. /\ buffer' = kept \o new /\ consumed' = n /\ at_end' = (n = consumed)
  BY DEF Read
<1>2. /\ text \in Seq(STRING) /\ consumed \in 0 .. Len(text) /\ Len(text) \in Nat
      /\ o \in Nat /\ Len(kept) \in Nat
      /\ \A j \in 1 .. Len(kept) : kept[j] = text[o + j]
  BY DEF BufferInv, Shows
<1>3. n \in consumed .. Len(text) /\ (n = consumed => n = Len(text))
  BY <1>2
<1> HIDE DEF n
<1>4. /\ new \in Seq(STRING) /\ Len(new) = n - consumed
      /\ \A i \in 1 .. n - consumed : new[i] = text[consumed + i]
  <2>1. \A i \in consumed + 1 .. n : text[i] \in STRING
    BY <1>2, <1>3
  <2>2. /\ new \in Seq(STRING)
        /\ Len(new) = IF consumed + 1 <= n THEN n - (consumed + 1) + 1 ELSE 0
        /\ \A i \in 1 .. n - (consumed + 1) + 1 : new[i] = text[consumed + 1 + i - 1]
    BY <1>2, <1>3, <2>1, SubSeqProperties
  <2> HIDE DEF new
  <2> QED
    BY <1>2, <1>3, <2>2
<1> HIDE DEF new
<1>5. /\ buffer' \in Seq(STRING) /\ Len(buffer') = Len(kept) + (n - consumed)
      /\ \A i \in 1 .. Len(kept) + (n - consumed) :
            buffer'[i] = IF i <= Len(kept) THEN kept[i] ELSE new[i - Len(kept)]
  <2>1. /\ kept \o new \in Seq(STRING) /\ Len(kept \o new) = Len(kept) + Len(new)
        /\ \A i \in 1 .. Len(kept) + Len(new) :
              (kept \o new)[i] = IF i <= Len(kept) THEN kept[i] ELSE new[i - Len(kept)]
    BY <1>4, Joined
  <2> QED
    BY <1>1, <1>4, <2>1
<1>l. Len(buffer') \in Nat /\ n \in Nat /\ Len(kept) \in Nat /\ Len(kept) <= Len(buffer')
  BY <1>2, <1>3, <1>5
<1>6. \A j \in 1 .. Len(buffer') : buffer'[j] = text[o + j]
  <2> SUFFICES ASSUME NEW j \in 1 .. Len(buffer') PROVE buffer'[j] = text[o + j]
    OBVIOUS
  <2>1. CASE j <= Len(kept)
    <3>1. j \in 1 .. Len(kept) /\ j \in 1 .. Len(kept) + (n - consumed)
      BY <1>2, <1>5, <1>l, <2>1
    <3> QED
      BY <1>2, <1>5, <2>1, <3>1
  <2>2. CASE j > Len(kept)
    <3>1. /\ j \in Nat /\ j - Len(kept) \in 1 .. n - consumed
          /\ j \in 1 .. Len(kept) + (n - consumed) /\ ~(j <= Len(kept))
      BY <1>2, <1>5, <1>l, <2>2
    <3>2. buffer'[j] = new[j - Len(kept)]
      BY <1>5, <3>1
    <3>3. consumed + (j - Len(kept)) = o + j
      BY <1>2, <1>l, <3>1
    <3>4. new[j - Len(kept)] = text[consumed + (j - Len(kept))]
      BY <1>4, <3>1
    <3> QED
      BY <3>2, <3>3, <3>4
  <2> QED
    BY <1>l, <2>1, <2>2
<1>7. o + Len(buffer') = consumed' /\ consumed' \in 0 .. Len(text) /\ Len(buffer') >= Len(kept)
  <2>1. consumed' = n /\ n \in 0 .. Len(text)
    BY <1>1, <1>2, <1>3
  <2>2. Len(buffer') = Len(kept) + (n - consumed) /\ o + Len(kept) = consumed
    BY <1>5
  <2> QED
    BY <1>2, <1>l, <2>1, <2>2
<1>8. \A j \in 1 .. Len(kept) : buffer'[j] = kept[j]
  <2> SUFFICES ASSUME NEW j \in 1 .. Len(kept) PROVE buffer'[j] = kept[j]
    OBVIOUS
  <2>1. j \in 1 .. Len(kept) + (n - consumed) /\ j <= Len(kept)
    BY <1>5, <1>l
  <2> QED
    BY <1>5, <2>1
<1>9. Shows(buffer', text, o)
  BY <1>2, <1>6, <1>7 DEF Shows
<1>10. at_end' \in BOOLEAN /\ (at_end' => consumed' = Len(text))
  BY <1>1, <1>3
<1> QED
  BY <1>5, <1>7, <1>8, <1>9, <1>10

\* Reading on with nothing left in the buffer leaves the scanner where it stands,
LEMMA PeekReadKeeps ==
  ASSUME BufferInv, PeekRead
  PROVE  BufferInv' /\ Here' = Here
<1>1. /\ <<>> \in Seq(STRING) /\ Len(<<>>) = 0 /\ consumed \in Nat /\ Len(text) \in Nat
      /\ consumed <= Len(text)
  BY DEF BufferInv
<1>2. Shows(<<>>, text, consumed) /\ consumed + Len(<<>>) = consumed
  BY <1>1 DEF Shows
<1>3. /\ buffer' \in Seq(STRING) /\ consumed' \in 0 .. Len(text)
      /\ Shows(buffer', text, consumed) /\ consumed + Len(buffer') = consumed'
      /\ at_end' \in BOOLEAN /\ (at_end' => consumed' = Len(text))
  BY <1>1, <1>2, ReadShows DEF PeekRead, BufferInv
<1>4. /\ position' = 1 /\ position = Len(buffer) + 1 /\ at # "decode"
      /\ UNCHANGED <<text, chunk, at>> /\ Len(buffer) \in Nat
  BY DEF PeekRead, BufferInv, Peeking
<1>5. consumed' - Len(buffer') = consumed
  BY <1>1, <1>3
<1>6. Here' = Here
  BY <1>1, <1>4, <1>5 DEF Here, Offset
<1>7. BufferInv'
  BY <1>1, <1>3, <1>4, <1>5 DEF BufferInv, Offset, Shows
<1> QED
  BY <1>6, <1>7

\* so does reading more of an element, which keeps what is buffered of it.
LEMMA DecodeGrowsKeeps ==
  ASSUME BufferInv, DecodeGrows
  PROVE  /\ BufferInv' /\ Here' = Here
         /\ position' = position /\ buffer'[position] = buffer[position]
<1>1. /\ buffer \in Seq(STRING) /\ Len(buffer) \in Nat /\ position \in 1 .. Len(buffer)
      /\ consumed \in Nat /\ chunk \in Nat \ {0} /\ Shows(buffer, text, Offset)
      /\ Offset \in Nat /\ Offset + Len(buffer) = consumed
  BY DEF BufferInv, DecodeGrows, NeedsMore, Shows, Offset
<1>2. PICK size \in Nat \ {0} : Read(size, buffer)
  <2>1. (IF Len(buffer) + 1 - position < chunk THEN chunk ELSE Len(buffer) + 1 - position) \in Nat \ {0}
    BY <1>1
  <2> QED
    BY <2>1 DEF DecodeGrows, Grow
<1>3. /\ buffer' \in Seq(STRING) /\ Len(buffer') >= Len(buffer) /\ consumed' \in 0 .. Len(text)
      /\ Shows(buffer', text, Offset) /\ Offset + Len(buffer') = consumed'
      /\ \A j \in 1 .. Len(buffer) : buffer'[j] = buffer[j]
      /\ at_end' \in BOOLEAN /\ (at_end' => consumed' = Len(text))
  BY <1>1, <1>2, ReadShows
<1>4. UNCHANGED <<text, chunk, position, at>>
  BY DEF DecodeGrows, Grow
<1>5. Offset' = Offset
  BY <1>1, <1>3 DEF Offset
<1>6. Here' = Here
  BY <1>4, <1>5 DEF Here
<1>7. BufferInv'
  BY <1>1, <1>3, <1>4, <1>5 DEF BufferInv, Shows
<1> QED
  BY <1>1, <1>3, <1>4, <1>6, <1>7

\* Yielding an element moves past it; its text is the text between the two places.
LEMMA DecodeYieldsKeeps ==
  ASSUME BufferInv, DecodeYields
  PROVE  /\ BufferInv' /\ Here' = Offset + Decoded.end
         /\ Decoded.end \in position + 1 .. Len(buffer) + 1
         /\ SubSeq(buffer, position, Decoded.end - 1) = SubSeq(text, Here, Offset + Decoded.end - 1)
<1> DEFINE end == Decoded.end
<1>1. /\ buffer \in Seq(STRING) /\ Len(buffer) \in Nat /\ position \in 1 .. Len(buffer)
      /\ consumed \in Nat /\ consumed <= Len(text) /\ Len(text) \in Nat
      /\ text \in Seq(STRING) /\ Shows(buffer, text, Offset)
      /\ Offset \in Nat /\ Offset + Len(buffer) = consumed
      /\ \A j \in 1 .. Len(buffer) : buffer[j] = text[Offset + j]
  BY DEF BufferInv, DecodeYields, Shows, Offset
<1>2. end \in position + 1 .. Len(buffer) + 1
  BY <1>1, DecodeFacts DEF DecodeYields, Decoded
<1>3. /\ buffer' = SubSeq(buffer, end, Len(buffer)) /\ position' = 1 /\ at' = "next"
      /\ UNCHANGED <<text, chunk, consumed, at_end>>
  BY DEF DecodeYields
<1> HIDE DEF end
<1>4. /\ buffer' \in Seq(STRING) /\ Len(buffer') = Len(buffer) + 1 - end
      /\ \A j \in 1 .. Len(buffer) + 1 - end : buffer'[j] = buffer[end + j - 1]
  <2>1. \A j \in end .. Len(buffer) : buffer[j] \in STRING
    BY <1>1, <1>2
  <2>2. /\ buffer' \in Seq(STRING)
        /\ Len(buffer') = IF end <= Len(buffer) THEN Len(buffer) - end + 1 ELSE 0
        /\ \A j \in 1 .. Len(buffer) - end + 1 : buffer'[j] = buffer[end + j - 1]
    BY <1>1, <1>2, <1>3, <2>1, SubSeqProperties
  <2>3. Len(buffer) - end + 1 = Len(buffer) + 1 - end
    BY <1>1, <1>2
  <2>4. ~(end <= Len(buffer)) => Len(buffer) + 1 - end = 0
    BY <1>1, <1>2
  <2> QED
    BY <2>2, <2>3, <2>4
<1>5. Offset' = Offset + end - 1 /\ Offset' \in Nat /\ Offset' + Len(buffer') = consumed
  BY <1>1, <1>2, <1>3, <1>4 DEF Offset
<1>6. \A j \in 1 .. Len(buffer') : buffer'[j] = text[Offset' + j]
  <2> SUFFICES ASSUME NEW j \in 1 .. Len(buffer') PROVE buffer'[j] = text[Offset' + j]
    OBVIOUS
  <2>1. end + j - 1 \in 1 .. Len(buffer) /\ Offset + (end + j - 1) = Offset' + j
    BY <1>1, <1>2, <1>4, <1>5
  <2> QED
    BY <1>1, <1>4, <2>1
<1>7. BufferInv'
  <2>1. Offset' + Len(buffer') <= Len(text) /\ text' = text
    BY <1>1, <1>3, <1>5
  <2>2. Shows(buffer', text', Offset')
    BY <1>5, <1>6, <2>1 DEF Shows
  <2>3. position' \in 1 .. Len(buffer') + 1 /\ at' # "decode"
    BY <1>3, <1>4
  <2>4. /\ chunk' \in Nat \ {0} /\ consumed' \in 0 .. Len(text')
        /\ at_end' \in BOOLEAN /\ (at_end' => consumed' = Len(text'))
    BY <1>1, <1>3 DEF BufferInv
  <2> QED
    BY <1>1, <1>4, <2>1, <2>2, <2>3, <2>4 DEF BufferInv
<1>8. Here' = Offset + end
  BY <1>1, <1>2, <1>3, <1>5 DEF Here
<1>9. SubSeq(buffer, position, end - 1) = SubSeq(text, Here, Offset + end - 1)
  <2>1. end - 1 \in position .. Len(buffer) /\ Offset + end - 1 = Offset + (end - 1)
    BY <1>1, <1>2
  <2> QED
    BY <1>1, <2>1, SamePiece DEF Here
<1> QED
  BY <1>2, <1>7, <1>8, <1>9 DEF end

\* What the scanner sees stands in the text.
LEMMA SeenThere ==
  ASSUME BufferInv
  PROVE  /\ Here \in Start(text)
         /\ position <= Len(buffer) => Here \in 1 .. Len(text) /\ text[Here] = buffer[position]
         /\ SeesNothing => Here = Len(text) + 1
<1>1. /\ Offset \in Nat /\ Offset + Len(buffer) <= Len(text) /\ Offset + Len(buffer) = consumed
      /\ \A j \in 1 .. Len(buffer) : buffer[j] = text[Offset + j]
      /\ position \in 1 .. Len(buffer) + 1 /\ Len(buffer) \in Nat /\ Len(text) \in Nat
      /\ at_end => consumed = Len(text)
  BY DEF BufferInv, Shows, Offset
<1>2. Here \in Start(text)
  BY <1>1 DEF Here, Start
<1>3. position <= Len(buffer) => Here \in 1 .. Len(text) /\ text[Here] = buffer[position]
  BY <1>1 DEF Here
<1>4. SeesNothing => Here = Len(text) + 1
  BY <1>1 DEF Here, SeesNothing
<1> QED
  BY <1>2, <1>3, <1>4

\* Every step keeps the buffer showing the text.
LEMMA BufferInvNext == BufferInv /\ [Next]_vars => BufferInv'
<1> SUFFICES ASSUME BufferInv, [Next]_vars PROVE BufferInv'
  OBVIOUS
<1>1. ASSUME UNCHANGED <<text, chunk, consumed, buffer, at_end>>,
             position' \in 1 .. Len(buffer) + 1,
             at' = "decode" => position' <= Len(buffer)
      PROVE  BufferInv'
  BY <1>1 DEF BufferInv, Shows, Offset
<1>2. Len(buffer) \in Nat /\ position \in 1 .. Len(buffer) + 1 /\ (at = "decode" => position <= Len(buffer))
  BY DEF BufferInv
<1>3. CASE PeekRead
  BY <1>3, PeekReadKeeps
<1>4. CASE DecodeGrows
  BY <1>4, DecodeGrowsKeeps
<1>5. CASE DecodeYields
  BY <1>5, DecodeYieldsKeeps
<1>6. CASE PeekSpace
  <2>1. position <= Len(buffer) /\ at # "decode" /\ at' = at /\ position' = position + 1
    BY <1>6 DEF PeekSpace, Peeking
  <2> QED
    BY <1>1, <1>2, <1>6, <2>1 DEF PeekSpace
<1>7. CASE PassMark \/ Open \/ CloseArray \/ Separator \/ TrailingComma
  <2>1. /\ position <= Len(buffer) /\ position' = position + 1 /\ at' # "decode"
        /\ UNCHANGED <<text, chunk, consumed, buffer, at_end>>
    BY <1>7 DEF PassMark, Open, CloseArray, Separator, TrailingComma, Sees, Pass
  <2> QED
    BY <1>1, <1>2, <2>1
<1>8. CASE FirstElement \/ NextElement
  <2>1. /\ position <= Len(buffer) /\ position' = position
        /\ UNCHANGED <<text, chunk, consumed, buffer, at_end>>
    BY <1>8 DEF FirstElement, NextElement, SeesOther, Stand
  <2> QED
    BY <1>1, <1>2, <2>1
<1>9. ASSUME NEW how, End(how) PROVE BufferInv'
  <2>1. at' # "decode" /\ UNCHANGED <<text, chunk, consumed, buffer, position, at_end>>
    BY <1>9 DEF End
  <2> QED
    BY <1>1, <1>2, <2>1
<1>10. CASE \/ NoArray \/ EndsBeforeArray \/ NoSeparator \/ Complete \/ Continues \/ DecodeRefused
            \/ ReadFails \/ Unscannable
  BY <1>9, <1>10
     DEF NoArray, EndsBeforeArray, NoSeparator, Complete, Continues, DecodeRefused, ReadFails, Unscannable
<1>11. CASE UNCHANGED vars
  <2>1. at' = at /\ UNCHANGED <<text, chunk, consumed, buffer, position, at_end>>
    BY <1>11 DEF vars
  <2> QED
    BY <1>1, <1>2, <2>1
<1> QED
  BY <1>3, <1>4, <1>5, <1>6, <1>7, <1>8, <1>10, <1>11 DEF Next, Advance

-----------------------------------------------------------------------------
(* What the scanner has found is the beginning of what the text holds *)

\* The text s holds what was found and then rest.
Holds(s, found, rest) == ReadFrom(s) = Reading(found \o rest.records, rest.ending)

\* What was found begins the reading, and an end is the end of the text.
FoundInv ==
    /\ records \in Seq(Seq(STRING))
    /\ \E rest \in Results : Holds(text, records, rest)
    /\ ending \in {"none", "complete", "refused", "unavailable", "unscannable"}
    /\ ending \in {"complete", "refused"} => ReadFrom(text) = Reading(records, ending)
    /\ at # "done" => ending = "none"

\* Where the scanner stands, the text goes on as the scanner will read it.
PlaceInv ==
    /\ at = "opening" => records = <<>> /\ Skip(text, Here) = Skip(text, 1)
    /\ at = "bracket" =>
          /\ records = <<>>
          /\ Skip(text, 1) <= Len(text) /\ text[Skip(text, 1)] = Mark
          /\ Skip(text, Here) = Skip(text, Skip(text, 1) + 1)
    /\ at = "next" => state \in {"first", "after"}
    /\ at = "next" /\ state = "first" => Holds(text, records, ReadElements(text)[Here])
    /\ at = "next" /\ state = "after" =>
          Holds(text, records, ReadAfter(text, Here, ReadElements(text)))
    /\ at = "element" => Holds(text, records, ReadElements(text)[Here])
    /\ at = "decode" =>
          /\ Holds(text, records, ReadElements(text)[Here])
          /\ buffer[position] \notin {Space, "]"}
    /\ at = "closing" => Holds(text, records, ReadClosing(text, Here))

TextInv == FoundInv /\ PlaceInv

\* A reading from a position depends on what stands behind the white space there.
LEMMA SkipsAlike ==
  ASSUME NEW s \in Seq(STRING), NEW i \in 1 .. Len(s), s[i] = Space
  PROVE  Skip(s, i + 1) = Skip(s, i)
<1> DEFINE n == Skip(s, i)
<1>1. /\ n \in i .. Len(s) + 1 /\ (n = Len(s) + 1 \/ s[n] # Space)
      /\ \A m \in i .. n - 1 : s[m] = Space
  BY SkipFacts DEF Start
<1> HIDE DEF n
<1>2. n # i
  BY <1>1
<1>3. i + 1 \in Start(s) /\ n \in i + 1 .. Len(s) + 1 /\ \A m \in i + 1 .. n - 1 : s[m] = Space
  BY <1>1, <1>2 DEF Start
<1>4. Skip(s, i + 1) = n
  BY <1>1, <1>3, SkipIs
<1> QED
  BY <1>4 DEF n

\* In front of anything else there is nothing to pass over,
LEMMA SkipsNothing ==
  ASSUME NEW s \in Seq(STRING), NEW i \in 1 .. Len(s), s[i] # Space
  PROVE  Skip(s, i) = i
<1>1. i \in Start(s) /\ i \in i .. Len(s) + 1 /\ \A m \in i .. i - 1 : s[m] = Space
  BY DEF Start
<1> QED
  BY <1>1, SkipIs

\* nor at the end.
LEMMA SkipsToEnd ==
  ASSUME NEW s \in Seq(STRING)
  PROVE  Skip(s, Len(s) + 1) = Len(s) + 1
  BY SkipFacts DEF Start

\* So white space changes no reading.
LEMMA ReadsAlike ==
  ASSUME NEW s \in Seq(STRING), NEW i \in 1 .. Len(s), s[i] = Space
  PROVE  /\ ReadElements(s)[i + 1] = ReadElements(s)[i]
         /\ \A f : ReadAfter(s, i + 1, f) = ReadAfter(s, i, f)
         /\ ReadClosing(s, i + 1) = ReadClosing(s, i)
<1>1. i \in Start(s) /\ i + 1 \in Start(s) /\ Skip(s, i + 1) = Skip(s, i)
  BY SkipsAlike DEF Start
<1>2. \A f : ReadElement(s, i + 1, f) = ReadElement(s, i, f)
  BY <1>1 DEF ReadElement
<1>3. ReadElements(s)[i + 1] = ReadElements(s)[i]
  BY <1>1, <1>2, ReadElementsAt
<1>4. \A f : ReadAfter(s, i + 1, f) = ReadAfter(s, i, f)
  BY <1>1 DEF ReadAfter
<1>5. ReadClosing(s, i + 1) = ReadClosing(s, i)
  BY <1>1 DEF ReadClosing
<1> QED
  BY <1>3, <1>4, <1>5

\* The reading where something else than white space stands.
LEMMA ReadsHere ==
  ASSUME NEW s \in Seq(STRING), NEW i \in 1 .. Len(s), s[i] # Space
  PROVE  /\ s[i] = "]" => /\ ReadElements(s)[i] = ReadClosing(s, i + 1)
                          /\ \A f : ReadAfter(s, i, f) = ReadClosing(s, i + 1)
         /\ s[i] = "," => \A f : ReadAfter(s, i, f) = f[i + 1]
         /\ s[i] \notin {"]", ","} => \A f : ReadAfter(s, i, f) = Reading(<<>>, "refused")
         /\ ReadClosing(s, i) = Reading(<<>>, "refused")
<1>1. i \in Start(s) /\ Skip(s, i) = i /\ ~(i > Len(s))
  BY SkipsNothing DEF Start
<1>2. s[i] = "]" => ReadElements(s)[i] = ReadClosing(s, i + 1)
  BY <1>1, ReadElementsAt DEF ReadElement
<1>3. \A f : ReadAfter(s, i, f) = IF s[i] = "]" THEN ReadClosing(s, i + 1)
                                  ELSE IF s[i] = "," THEN f[i + 1] ELSE Reading(<<>>, "refused")
  BY <1>1 DEF ReadAfter
<1>4. ReadClosing(s, i) = Reading(<<>>, "refused")
  BY <1>1 DEF ReadClosing
<1> QED
  BY <1>2, <1>3, <1>4

\* The reading at the end of the text.
LEMMA ReadsNothing ==
  ASSUME NEW s \in Seq(STRING)
  PROVE  /\ ReadElements(s)[Len(s) + 1] = Reading(<<>>, "refused")
         /\ \A f : ReadAfter(s, Len(s) + 1, f) = Reading(<<>>, "refused")
         /\ ReadClosing(s, Len(s) + 1) = Reading(<<>>, "complete")
<1> DEFINE n == Len(s) + 1
<1>1. n \in Start(s) /\ Skip(s, n) = n /\ n > Len(s)
  BY SkipsToEnd DEF Start
<1> HIDE DEF n
<1>2. ReadElements(s)[n] = Reading(<<>>, "refused")
  BY <1>1, ReadElementsAt DEF ReadElement
<1>3. \A f : ReadAfter(s, n, f) = Reading(<<>>, "refused")
  BY <1>1 DEF ReadAfter
<1>4. ReadClosing(s, n) = Reading(<<>>, "complete")
  BY <1>1 DEF ReadClosing
<1> QED
  BY <1>2, <1>3, <1>4 DEF n

\* The reading where a value should stand.
LEMMA ReadsValue ==
  ASSUME NEW s \in Seq(STRING), NEW i \in 1 .. Len(s), s[i] \notin {Space, "]"}
  PROVE  /\ Decode(s, i).error # "none" => ReadElements(s)[i] = Reading(<<>>, "refused")
         /\ Decode(s, i).error = "none" =>
               LET after == ReadAfter(s, Decode(s, i).end, ReadElements(s))
               IN  ReadElements(s)[i] =
                     Reading(<<SubSeq(s, i, Decode(s, i).end - 1)>> \o after.records, after.ending)
<1>1. i \in Start(s) /\ Skip(s, i) = i /\ ~(i > Len(s)) /\ s[i] # "]"
  BY SkipsNothing DEF Start
<1>2. ReadElements(s)[i] = ReadElement(s, i, ReadElements(s))
  BY <1>1, ReadElementsAt
<1> QED
  BY <1>1, <1>2 DEF ReadElement

\* Every text has a reading.
LEMMA ReadFromIsResult ==
  ASSUME NEW s \in Seq(STRING)
  PROVE  ReadFrom(s) \in Results
<1>1. CASE Opening(s) <= Len(s) /\ s[Opening(s)] = "["
  <2>1. Skip(s, 1) \in 1 .. Len(s) + 1
    BY SkipFacts DEF Start
  <2>2. Opening(s) \in 1 .. Len(s) + 1
    <3>1. CASE Skip(s, 1) <= Len(s) /\ s[Skip(s, 1)] = Mark
      <4>1. Skip(s, 1) + 1 \in Start(s)
        BY <2>1, <3>1 DEF Start
      <4>2. Skip(s, Skip(s, 1) + 1) \in Skip(s, 1) + 1 .. Len(s) + 1
        BY <4>1, SkipFacts
      <4> QED
        BY <2>1, <3>1, <4>2 DEF Opening
    <3>2. CASE ~(Skip(s, 1) <= Len(s) /\ s[Skip(s, 1)] = Mark)
      BY <2>1, <3>2 DEF Opening
    <3> QED
      BY <3>1, <3>2
  <2>3. Opening(s) + 1 \in Start(s)
    BY <1>1, <2>2 DEF Start
  <2>4. ReadElements(s)[Opening(s) + 1] \in Results
    BY <2>3, ReadElementsIsResult
  <2> QED
    BY <1>1, <2>4 DEF ReadFrom
<1>2. CASE ~(Opening(s) <= Len(s) /\ s[Opening(s)] = "[")
  BY <1>2, NothingIsResult DEF ReadFrom
<1> QED
  BY <1>1, <1>2

\* Before anything was found, the rest is the reading itself.
LEMMA HoldsFirst ==
  ASSUME NEW s, NEW rest \in Results, ReadFrom(s) = rest
  PROVE  Holds(s, <<>>, rest)
<1>1. <<>> \o rest.records = rest.records /\ rest = Reading(rest.records, rest.ending)
  BY ConcatEmptySeq DEF Results, Reading
<1> QED
  BY <1>1 DEF Holds

\* If nothing follows, the reading is what was found.
LEMMA HoldsNothing ==
  ASSUME NEW s, NEW found \in Seq(Seq(STRING)), NEW how, Holds(s, found, Reading(<<>>, how))
  PROVE  ReadFrom(s) = Reading(found, how)
<1>1. found \o <<>> = found
  BY ConcatEmptySeq
<1> QED
  BY <1>1 DEF Holds, Reading

\* Putting an element behind what was found, or in front of what follows.
LEMMA Appended ==
  ASSUME NEW S, NEW found \in Seq(S), NEW more \in Seq(S), NEW piece \in S
  PROVE  found \o (<<piece>> \o more) = Append(found, piece) \o more
<1> DEFINE one == <<piece>>
<1>1. one \in Seq(S) /\ Append(found, piece) = found \o one
  BY AppendIsConcat
<1> HIDE DEF one
<1>2. (found \o one) \o more = found \o (one \o more)
  BY <1>1, ConcatAssociative
<1> QED
  BY <1>1, <1>2 DEF one

\* The next element moves from the rest to what was found.
LEMMA HoldsMore ==
  ASSUME NEW s, NEW found \in Seq(Seq(STRING)), NEW piece \in Seq(STRING), NEW rest \in Results,
         Holds(s, found, Reading(<<piece>> \o rest.records, rest.ending))
  PROVE  Holds(s, Append(found, piece), rest)
<1>1. rest.records \in Seq(Seq(STRING))
  BY DEF Results
<1>2. found \o (<<piece>> \o rest.records) = Append(found, piece) \o rest.records
  BY <1>1, Appended
<1> QED
  BY <1>2 DEF Holds, Reading

\* A sequence begins what it is prolonged to.
LEMMA Begins ==
  ASSUME NEW S, NEW a \in Seq(S), NEW b \in Seq(S)
  PROVE  Len(a) <= Len(a \o b) /\ a = SubSeq(a \o b, 1, Len(a))
<1> DEFINE c == a \o b
           d == SubSeq(c, 1, Len(a))
<1>1. /\ c \in Seq(S) /\ Len(c) = Len(a) + Len(b)
      /\ \A i \in 1 .. Len(a) + Len(b) : c[i] = IF i <= Len(a) THEN a[i] ELSE b[i - Len(a)]
  BY ConcatProperties
<1> HIDE DEF c
<1>2. Len(a) \in Nat /\ Len(b) \in Nat /\ \A i \in 1 .. Len(a) : c[i] \in S /\ c[i] = a[i]
  BY <1>1
<1>3. /\ d \in Seq(S) /\ Len(d) = IF 1 <= Len(a) THEN Len(a) - 1 + 1 ELSE 0
      /\ \A i \in 1 .. Len(a) - 1 + 1 : d[i] = c[1 + i - 1]
  BY <1>2, SubSeqProperties
<1> HIDE DEF d
<1>4. Len(d) = Len(a) /\ \A i \in 1 .. Len(a) : d[i] = a[i]
  BY <1>2, <1>3
<1>5. a = d
  BY <1>3, <1>4, SeqEqual
<1> QED
  BY <1>1, <1>2, <1>5 DEF c, d

\* At the start nothing is found and everything is rest.
LEMMA TextInvInit == Init => TextInv
<1> SUFFICES ASSUME Init PROVE TextInv
  OBVIOUS
<1>1. text \in Seq(STRING) /\ ReadFrom(text) \in Results
  BY ScannerAssumption, ReadFromIsResult DEF Init
<1>2. Holds(text, <<>>, ReadFrom(text))
  BY <1>1, HoldsFirst
<1>3. records = <<>> /\ ending = "none" /\ at = "opening" /\ records \in Seq(Seq(STRING))
  BY DEF Init
<1>4. Here = 1
  BY DEF Init, Here, Offset
<1> QED
  BY <1>1, <1>2, <1>3, <1>4 DEF TextInv, FoundInv, PlaceInv

\* A step that finds nothing and does not end keeps what was found.
LEMMA FoundKept ==
  ASSUME FoundInv, at # "done", UNCHANGED <<text, records, ending>>
  PROVE  FoundInv'
<1>1. ending' = "none"
  BY DEF FoundInv
<1> QED
  BY <1>1 DEF FoundInv

\* Where the scan ends as the text does, or cannot go on, the invariant is kept.
LEMMA EndKeeps ==
  ASSUME FoundInv, at # "done", NEW how, End(how),
         \/ how \in {"unavailable", "unscannable"}
         \/ how \in {"complete", "refused"} /\ ReadFrom(text) = Reading(records, how)
  PROVE  TextInv'
<1>1. at' = "done" /\ ending' = how /\ UNCHANGED <<text, records>>
  BY DEF End
<1>2. FoundInv'
  BY <1>1 DEF FoundInv
<1>3. PlaceInv'
  BY <1>1 DEF PlaceInv
<1> QED
  BY <1>2, <1>3 DEF TextInv

\* Every step keeps what was found and what is read on in agreement with the text.
LEMMA TextInvNext == BufferInv /\ TextInv /\ [Next]_vars => TextInv'
<1> SUFFICES ASSUME BufferInv, TextInv, [Next]_vars PROVE TextInv'
  OBVIOUS
<1> DEFINE H(rest) == Holds(text, records, rest)
           From == ReadElements(text)
           Refused == Reading(<<>>, "refused")
<1>a. /\ text \in Seq(STRING) /\ Len(text) \in Nat
      /\ records \in Seq(Seq(STRING)) /\ FoundInv /\ PlaceInv
  BY DEF BufferInv, TextInv, FoundInv
<1>b. /\ Here \in Nat
      /\ position <= Len(buffer) => Here \in 1 .. Len(text) /\ text[Here] = buffer[position]
      /\ SeesNothing => Here = Len(text) + 1
  BY <1>a, SeenThere DEF Start
<1>c. ASSUME at # "done", H(Refused), End("refused") PROVE TextInv'
  BY <1>a, <1>c, EndKeeps, HoldsNothing
<1>d. ASSUME UNCHANGED <<text, consumed, buffer>>, position' = position + 1 PROVE Here' = Here + 1
  <2>1. position \in Nat /\ Offset \in Nat /\ Offset' = Offset
    BY <1>d DEF BufferInv, Offset, Shows
  <2> QED
    BY <1>d, <2>1 DEF Here
<1>e. /\ text[Here] = Space /\ Here \in 1 .. Len(text) =>
            /\ From[Here + 1] = From[Here] /\ Skip(text, Here + 1) = Skip(text, Here)
            /\ ReadAfter(text, Here + 1, From) = ReadAfter(text, Here, From)
            /\ ReadClosing(text, Here + 1) = ReadClosing(text, Here)
  BY <1>a, ReadsAlike, SkipsAlike
<1> HIDE DEF H, From
<1>1. CASE PeekRead
  <2>1. Here' = Here /\ at # "decode" /\ at # "done" /\ UNCHANGED <<text, at, state, records, ending>>
    BY <1>1, PeekReadKeeps DEF PeekRead, Peeking
  <2>2. PlaceInv'
    BY <1>a, <2>1 DEF PlaceInv
  <2> QED
    BY <1>a, <2>1, <2>2, FoundKept DEF TextInv
<1>2. CASE PeekSpace
  <2>1. /\ at # "decode" /\ at # "done" /\ UNCHANGED <<text, at, state, records, ending>>
        /\ Here' = Here + 1 /\ Here \in 1 .. Len(text) /\ text[Here] = Space
    BY <1>2, <1>b, <1>d DEF PeekSpace, Peeking
  <2>2. PlaceInv'
    BY <1>a, <1>e, <2>1 DEF PlaceInv, From
  <2> QED
    BY <1>a, <2>1, <2>2, FoundKept DEF TextInv
<1>3. CASE DecodeGrows
  <2>1. /\ Here' = Here /\ buffer'[position'] = buffer[position] /\ at = "decode"
        /\ UNCHANGED <<text, at, state, records, ending>>
    BY <1>3, DecodeGrowsKeeps DEF DecodeGrows, NeedsMore, Grow
  <2>2. PlaceInv'
    BY <1>a, <2>1 DEF PlaceInv
  <2> QED
    BY <1>a, <2>1, <2>2, FoundKept DEF TextInv
<1>4. CASE PassMark
  <2>1. /\ at = "opening" /\ at' = "bracket" /\ UNCHANGED <<text, records, ending>>
        /\ Here' = Here + 1 /\ Here \in 1 .. Len(text) /\ text[Here] = Mark
    BY <1>4, <1>b, <1>d DEF PassMark, Sees, Pass
  <2>2. records = <<>> /\ Skip(text, 1) = Here
    BY <1>a, <2>1, SkipsNothing DEF PlaceInv, Mark, Space
  <2>3. PlaceInv'
    BY <1>a, <2>1, <2>2 DEF PlaceInv
  <2> QED
    BY <1>a, <2>1, <2>3, FoundKept DEF TextInv
<1>5. ASSUME at \in {"opening", "bracket"}
      PROVE  /\ records = <<>>
             /\ Skip(text, Here) = Here =>
                   \/ at = "opening" /\ Here <= Len(text) /\ text[Here] = Mark
                   \/ Opening(text) = Here
  BY <1>5, <1>a DEF PlaceInv, Opening
<1>6. CASE Open
  <2>1. /\ at \in {"opening", "bracket"} /\ at' = "next" /\ state' = "first"
        /\ UNCHANGED <<text, records, ending>>
        /\ Here' = Here + 1 /\ Here \in 1 .. Len(text) /\ text[Here] = "["
    BY <1>6, <1>b, <1>d DEF Open, Sees, Pass
  <2>2. records = <<>> /\ Opening(text) = Here
    BY <1>a, <1>5, <2>1, SkipsNothing DEF Mark, Space
  <2>3. ReadFrom(text) = ReadElements(text)[Here + 1] /\ ReadFrom(text) \in Results
    BY <1>a, <2>1, <2>2, ReadFromIsResult DEF ReadFrom
  <2>4. Holds(text, records, ReadElements(text)[Here + 1])
    BY <2>2, <2>3, HoldsFirst
  <2>5. PlaceInv'
    BY <2>1, <2>4 DEF PlaceInv
  <2> QED
    BY <1>a, <2>1, <2>5, FoundKept DEF TextInv
<1>7. CASE NoArray
  <2>1. at \in {"opening", "bracket"} /\ at # "done" /\ End("refused")
    BY <1>7 DEF NoArray
  <2>2. Skip(text, Here) = Here /\ ~(Here <= Len(text) /\ text[Here] = "[")
    <3>1. CASE SeesNothing
      BY <1>a, <1>b, <3>1, SkipsToEnd
    <3>2. CASE SeesOther({"[", Mark}) \/ SeesOther({"["})
      BY <1>a, <1>b, <3>2, SkipsNothing DEF SeesOther
    <3> QED
      BY <1>7, <3>1, <3>2 DEF NoArray
  <2>3. ~(at = "opening" /\ Here <= Len(text) /\ text[Here] = Mark)
    <3>1. CASE SeesNothing
      BY <1>a, <1>b, <3>1
    <3>2. CASE SeesOther({"[", Mark})
      BY <1>a, <1>b, <3>2 DEF SeesOther
    <3> QED
      BY <1>7, <3>1, <3>2 DEF NoArray
  <2>4. records = <<>> /\ Opening(text) = Here
    BY <1>5, <2>1, <2>2, <2>3
  <2>5. ReadFrom(text) = Refused
    BY <2>2, <2>4 DEF ReadFrom
  <2>6. ReadFrom(text) = Reading(records, "refused")
    BY <2>4, <2>5
  <2> QED
    BY <1>a, <2>1, <2>6, EndKeeps
<1>8. CASE CloseArray \/ TrailingComma
  <2>1. /\ at \in {"next", "element"} /\ at' = "closing" /\ UNCHANGED <<text, records, ending>>
        /\ Here' = Here + 1 /\ Here \in 1 .. Len(text) /\ text[Here] = "]"
    BY <1>8, <1>b, <1>d DEF CloseArray, TrailingComma, Sees, Pass
  <2>2. /\ ReadElements(text)[Here] = ReadClosing(text, Here + 1)
        /\ ReadAfter(text, Here, ReadElements(text)) = ReadClosing(text, Here + 1)
    BY <1>a, <2>1, ReadsHere DEF Space
  <2>3. PlaceInv'
    BY <1>a, <2>1, <2>2 DEF PlaceInv
  <2> QED
    BY <1>a, <2>1, <2>3, FoundKept DEF TextInv
<1>9. CASE EndsBeforeArray
  <2>1. at \in {"next", "element"} /\ End("refused") /\ Here = Len(text) + 1
    BY <1>9, <1>b DEF EndsBeforeArray
  <2>2. ReadElements(text)[Here] = Refused /\ ReadAfter(text, Here, ReadElements(text)) = Refused
    BY <1>a, <2>1, ReadsNothing
  <2>3. H(Refused)
    BY <1>a, <2>1, <2>2 DEF PlaceInv, H
  <2> QED
    BY <1>c, <2>1, <2>3
<1>10. CASE FirstElement \/ NextElement
  <2>1. /\ \/ at = "element"
           \/ at = "next" /\ state = "first"
        /\ SeesOther({"]"}) /\ Stand("decode")
    BY <1>10 DEF FirstElement, NextElement
  <2>4. /\ at' = "decode" /\ UNCHANGED <<text, records, ending, buffer, consumed, position>>
        /\ buffer[position] \notin {Space, "]"}
    BY <2>1 DEF SeesOther, Stand
  <2>2. Here' = Here
    BY <2>4 DEF Here, Offset
  <2>3. PlaceInv'
    BY <1>a, <2>1, <2>2, <2>4 DEF PlaceInv
  <2> QED
    BY <1>a, <2>1, <2>3, <2>4, FoundKept DEF TextInv
<1>11. CASE Separator
  <2>1. /\ at = "next" /\ state = "after" /\ at' = "element" /\ UNCHANGED <<text, records, ending>>
        /\ Here' = Here + 1 /\ Here \in 1 .. Len(text) /\ text[Here] = ","
    BY <1>11, <1>b, <1>d DEF Separator, Sees, Pass
  <2>2. ReadAfter(text, Here, ReadElements(text)) = ReadElements(text)[Here + 1]
    BY <1>a, <2>1, ReadsHere DEF Space
  <2>3. PlaceInv'
    BY <1>a, <2>1, <2>2 DEF PlaceInv
  <2> QED
    BY <1>a, <2>1, <2>3, FoundKept DEF TextInv
<1>12. CASE NoSeparator
  <2>1. /\ at = "next" /\ state = "after" /\ End("refused")
        /\ Here \in 1 .. Len(text) /\ text[Here] \notin {"]", ",", Space}
    BY <1>12, <1>b DEF NoSeparator, SeesOther
  <2>2. ReadAfter(text, Here, ReadElements(text)) = Refused
    BY <1>a, <2>1, ReadsHere
  <2>3. H(Refused)
    BY <1>a, <2>1, <2>2 DEF PlaceInv, H
  <2> QED
    BY <1>c, <2>1, <2>3
<1>13. CASE Complete
  <2>1. at = "closing" /\ End("complete") /\ Here = Len(text) + 1
    BY <1>13, <1>b DEF Complete
  <2>2. ReadClosing(text, Here) = Reading(<<>>, "complete")
    BY <1>a, <2>1, ReadsNothing
  <2>3. Holds(text, records, Reading(<<>>, "complete"))
    BY <1>a, <2>1, <2>2 DEF PlaceInv
  <2>4. ReadFrom(text) = Reading(records, "complete")
    BY <1>a, <2>3, HoldsNothing
  <2> QED
    BY <1>a, <2>1, <2>4, EndKeeps
<1>14. CASE Continues
  <2>1. /\ at = "closing" /\ End("refused")
        /\ Here \in 1 .. Len(text) /\ text[Here] # Space
    BY <1>14, <1>b DEF Continues, SeesOther
  <2>2. ReadClosing(text, Here) = Refused
    BY <1>a, <2>1, ReadsHere
  <2>3. H(Refused)
    BY <1>a, <2>1, <2>2 DEF PlaceInv, H
  <2> QED
    BY <1>c, <2>1, <2>3
<1>15. ASSUME at = "decode"
       PROVE  /\ position \in 1 .. Len(buffer) /\ buffer \in Seq(STRING) /\ Shows(buffer, text, Offset)
              /\ Here = Offset + position /\ (at_end => Offset + Len(buffer) = Len(text))
              /\ Here \in 1 .. Len(text) /\ text[Here] \notin {Space, "]"}
              /\ Holds(text, records, ReadElements(text)[Here])
  <2>1. /\ position \in 1 .. Len(buffer) /\ buffer \in Seq(STRING) /\ Shows(buffer, text, Offset)
        /\ at_end => Offset + Len(buffer) = Len(text)
    BY <1>15 DEF BufferInv, Offset
  <2> QED
    BY <1>15, <1>a, <1>b, <2>1 DEF PlaceInv, Here
<1>16. CASE DecodeRefused
  <2>1. /\ at = "decode" /\ End("refused") /\ Decode(buffer, position).error # "none"
        /\ at_end \/ ~CouldBeTruncation
    BY <1>16 DEF DecodeRefused, Decoded
  <2>2. Decode(buffer, position).error \in {"syntax", "unterminated"}
    <3>1. \/ Decode(buffer, position) = Value(TRUE, NumberEnd(buffer, position))
          \/ Decode(buffer, position) = Value(FALSE, Least(Closing(buffer, position)) + 1)
          \/ Decode(buffer, position) = Value(FALSE, position + 2)
          \/ Decode(buffer, position) = Invalid("syntax", position)
          \/ Decode(buffer, position) = Invalid("unterminated", position)
      BY <1>15, <2>1, DecodeCases
    <3> QED
      BY <2>1, <3>1 DEF Value, Invalid
  <2>3. \/ Offset + Len(buffer) = Len(text)
        \/ /\ Decode(buffer, position).error = "syntax"
           /\ ~(Decode(buffer, position).end - 1 >= Len(buffer) - Slack)
    BY <1>15, <2>1, <2>2 DEF CouldBeTruncation, Decoded
  <2>4. Decode(text, Offset + position).error # "none"
    BY <1>a, <1>15, <2>1, <2>3, ErrorShown, ScannerAssumption
  <2>5. ReadElements(text)[Here] = Refused
    BY <1>a, <1>15, <2>1, <2>4, ReadsValue
  <2>6. H(Refused)
    BY <1>15, <2>1, <2>5 DEF H
  <2> QED
    BY <1>c, <2>1, <2>6
<1>17. CASE DecodeYields
  <2> DEFINE end == Decoded.end
             piece == SubSeq(buffer, position, end - 1)
             after == ReadAfter(text, Offset + end, ReadElements(text))
  <2>1. /\ at = "decode" /\ Decode(buffer, position).error = "none"
        /\ at_end \/ ~GoesOn(buffer, Decode(buffer, position))
        /\ records' = Append(records, piece) /\ at' = "next" /\ state' = "after"
        /\ UNCHANGED <<text, ending>>
    BY <1>17 DEF DecodeYields, Decoded, MayContinue, GoesOn
  <2>2. /\ Here' = Offset + end /\ end \in position + 1 .. Len(buffer) + 1
        /\ piece = SubSeq(text, Here, Offset + end - 1)
    BY <1>17, DecodeYieldsKeeps
  <2>3. Decode(text, Here).error = "none" /\ Decode(text, Here).end = Offset + end
    BY <1>a, <1>15, <2>1, ValueShown DEF Decoded
  <2> HIDE DEF end
  <2>4. /\ Offset \in Nat /\ Offset + end \in Start(text)
        /\ end - 1 \in position - 1 .. Len(buffer) /\ position \in 1 .. Len(buffer) + 1
    <3>1. /\ Offset \in Nat /\ Offset + Len(buffer) <= Len(text) /\ Len(buffer) \in Nat
          /\ position \in 1 .. Len(buffer)
      BY <1>15, <2>1 DEF Shows
    <3> HIDE DEF Offset
    <3> QED
      BY <1>a, <2>2, <3>1 DEF Start
  <2>5. piece \in Seq(STRING)
    BY <1>15, <2>1, <2>4, Piece
  <2>6. after \in Results
    <3>1. \A j \in Offset + end + 1 .. Len(text) + 1 : j \in Start(text)
      BY <1>a, <2>4 DEF Start
    <3>2. \A j \in Offset + end + 1 .. Len(text) + 1 : ReadElements(text)[j] \in Results
      BY <1>a, <3>1, ReadElementsIsResult
    <3> QED
      BY <1>a, <2>4, <3>2, ReadAfterIsResult
  <2>7. ReadElements(text)[Here] = Reading(<<piece>> \o after.records, after.ending)
    <3>1. /\ Here \in 1 .. Len(text) /\ text[Here] \notin {Space, "]"}
          /\ SubSeq(text, Here, Decode(text, Here).end - 1) = piece
          /\ ReadAfter(text, Decode(text, Here).end, ReadElements(text)) = after
      <4>1. Here \in 1 .. Len(text) /\ text[Here] \notin {Space, "]"}
        BY <1>15, <2>1
      <4>2. SubSeq(text, Here, Decode(text, Here).end - 1) = piece
        <5>1. piece = SubSeq(text, Here, Offset + end - 1)
          BY <2>2
        <5>2. Decode(text, Here).end - 1 = Offset + end - 1
          <6>1. Offset \in Int /\ end \in Int
            BY <2>2, <2>4
          <6> HIDE DEF Offset
          <6> QED
            BY <2>3, <6>1
        <5> HIDE DEF piece
        <5> QED
          BY <5>1, <5>2
      <4>3. ReadAfter(text, Decode(text, Here).end, ReadElements(text)) = after
        BY <2>3, Zenon
      <4> QED
        BY <4>1, <4>2, <4>3
    <3> HIDE DEF piece, after
    <3> QED
      BY <1>a, <2>3, <3>1, ReadsValue
  <2> HIDE DEF piece, after
  <2>8. Holds(text, records', after)
    BY <1>a, <1>15, <2>1, <2>5, <2>6, <2>7, HoldsMore
  <2>9. records' \in Seq(Seq(STRING))
    BY <1>a, <2>1, <2>5
  <2>10. ending = "none"
    BY <1>a, <2>1 DEF FoundInv
  <2>11. FoundInv'
    BY <2>1, <2>6, <2>8, <2>9, <2>10 DEF FoundInv
  <2>12. PlaceInv'
    BY <2>1, <2>2, <2>8 DEF PlaceInv, after
  <2> QED
    BY <2>11, <2>12 DEF TextInv
<1>18. CASE ReadFails \/ Unscannable
  <2>1. at # "done" /\ (End("unavailable") \/ End("unscannable"))
    BY <1>18 DEF ReadFails, Unscannable, WouldRead, Peeking, NeedsMore
  <2> QED
    BY <1>a, <2>1, EndKeeps
<1>19. CASE UNCHANGED vars
  <2>1. UNCHANGED <<text, consumed, buffer, position, state, at, records, ending>> /\ Here' = Here
    BY <1>19 DEF vars, Here, Offset
  <2>2. FoundInv' /\ PlaceInv'
    BY <1>a, <2>1 DEF FoundInv, PlaceInv
  <2> QED
    BY <2>2 DEF TextInv
<1> QED
  BY <1>1, <1>2, <1>3, <1>4, <1>6, <1>7, <1>8, <1>9, <1>10, <1>11, <1>12, <1>13, <1>14, <1>16,
     <1>17, <1>18, <1>19 DEF Next, Advance

-----------------------------------------------------------------------------
\* For every text, of any length, and every size of the chunks it is cut into, the
\* scanner yields the elements the whole text has, in their order and with their exact
\* text, and where it ends it ends as the whole text does: how the chunks fall makes
\* no difference (records.py:11).
THEOREM ChunksMakeNoDifference == Spec => []CutsMakeNoDifference
<1>1. FoundInv => CutsMakeNoDifference
  <2> SUFFICES ASSUME FoundInv PROVE CutsMakeNoDifference
    OBVIOUS
  <2>1. PICK rest \in Results : Holds(text, records, rest)
    BY DEF FoundInv
  <2> DEFINE all == records \o rest.records
  <2>2. records \in Seq(Seq(STRING)) /\ rest.records \in Seq(Seq(STRING))
    BY <2>1 DEF FoundInv, Results
  <2>3. ReadFrom(text).records = all
    BY <2>1 DEF Holds, Reading
  <2>4. Len(records) <= Len(all) /\ records = SubSeq(all, 1, Len(records))
    BY <2>2, Begins
  <2> HIDE DEF all
  <2>5. ending \in {"complete", "refused"} =>
           records = ReadFrom(text).records /\ ending = ReadFrom(text).ending
    BY DEF FoundInv, Reading
  <2> QED
    BY <2>3, <2>4, <2>5 DEF CutsMakeNoDifference
<1>2. Init => BufferInv /\ TextInv
  BY BufferInvInit, TextInvInit
<1>3. BufferInv /\ TextInv /\ [Next]_vars => (BufferInv /\ TextInv)'
  BY BufferInvNext, TextInvNext
<1>4. TextInv => FoundInv
  BY DEF TextInv
<1> QED
  BY <1>1, <1>2, <1>3, <1>4, PTL DEF Spec
=============================================================================
