---------------------------- MODULE RecordScanner ----------------------------
(***************************************************************************)
(* RecordScanner (engineering_memory/ingestion/chatgpt/records.py): the    *)
(* elements of a JSON array, one at a time, from a text that is read in    *)
(* chunks.  How the text is cut must make no difference.                   *)
(*                                                                         *)
(* Characters stand for kinds of characters: "1" a digit, "." what may     *)
(* continue a number, "q" a quotation mark, "t" and "u" the two halves of  *)
(* a literal such as true, " " white space, "mark" the byte order mark.    *)
(* Positions count from 1.                                                 *)
(***************************************************************************)
EXTENDS Integers, Sequences

CONSTANTS
    Texts,   \* the texts read, sequences of characters
    Chunks,  \* values of chunk_size
    Slack    \* _TRUNCATION_SLACK, at least the length of a literal less one

ASSUME ScannerAssumption ==
    /\ Texts \subseteq Seq(STRING)
    /\ Chunks \subseteq Nat \ {0}
    /\ Slack \in Nat \ {0}

Digit == "1"
Point == "."
Quote == "q"
Space == " "
Mark == "mark"

Least(S) == CHOOSE n \in S : \A m \in S : n <= m

-----------------------------------------------------------------------------
(* json.JSONDecoder.raw_decode on one buffer, from position i. *)

\* Where the digits that start at i end.
DigitsEnd(s, i) == Least({n \in i .. Len(s) + 1 : n = Len(s) + 1 \/ s[n] # Digit})

\* The longest number: digits, and a fraction if at least one digit follows.
NumberEnd(s, i) ==
    LET n == DigitsEnd(s, i)
    IN  IF n < Len(s) /\ s[n] = Point /\ s[n + 1] = Digit THEN DigitsEnd(s, n + 1) ELSE n

Value(number, end) == [error |-> "none", number |-> number, end |-> end]
Invalid(error, at) == [error |-> error, number |-> FALSE, end |-> at]

Decode(s, i) ==
    LET closing == {n \in i + 1 .. Len(s) : s[n] = Quote}
    IN  CASE i > Len(s) -> Invalid("syntax", i)
          [] i <= Len(s) /\ s[i] = Digit -> Value(TRUE, NumberEnd(s, i))
          [] i <= Len(s) /\ s[i] = Quote ->
                IF closing = {} THEN Invalid("unterminated", i)
                                ELSE Value(FALSE, Least(closing) + 1)
          [] i <= Len(s) /\ s[i] = "t" ->
                IF i < Len(s) /\ s[i + 1] = "u" THEN Value(FALSE, i + 2)
                                               ELSE Invalid("syntax", i)
          [] OTHER -> Invalid("syntax", i)

-----------------------------------------------------------------------------

VARIABLES
    text,      \* the file
    chunk,     \* chunk_size
    consumed,  \* characters read from the stream
    buffer, position, at_end, state,
    at,        \* where _advance stands
    attempts,  \* decodes of the element in hand
    records,   \* the elements yielded, each with its exact text
    ending     \* "complete" (StopIteration), "refused" (for what the text holds),
               \* "unscannable" or "unavailable" (the text cannot be read, inflated or
               \* decoded); "none" while the scan goes on

vars == <<text, chunk, consumed, buffer, position, at_end, state, at, attempts, records, ending>>

Init ==
    /\ text \in Texts
    /\ chunk \in Chunks
    /\ consumed = 0
    /\ buffer = <<>>
    /\ position = 1
    /\ at_end = FALSE
    /\ state = "start"
    /\ at = "opening"
    /\ attempts = 0
    /\ records = <<>>
    /\ ending = "none"

\* _read: up to size characters; an empty answer is the end of the stream.
Read(size, kept) ==
    LET n == IF consumed + size < Len(text) THEN consumed + size ELSE Len(text)
    IN  /\ ~at_end
        /\ buffer' = kept \o SubSeq(text, consumed + 1, n)
        /\ consumed' = n
        /\ at_end' = (n = consumed)

\* _peek, before it has a character: read on, or pass over white space.
Peeking == at \in {"opening", "bracket", "next", "element", "closing"}

\* Mutant: an empty answer is not taken for the end of the stream.
PeekReadEndless ==
    /\ Peeking
    /\ position > Len(buffer)
    /\ LET n == IF consumed + chunk < Len(text) THEN consumed + chunk ELSE Len(text)
       IN  buffer' = SubSeq(text, consumed + 1, n) /\ consumed' = n
    /\ position' = 1
    /\ UNCHANGED <<text, chunk, at_end, state, at, attempts, records, ending>>

PeekRead ==
    /\ Peeking
    /\ position > Len(buffer)
    /\ Read(chunk, <<>>)
    /\ position' = 1
    /\ UNCHANGED <<text, chunk, state, at, attempts, records, ending>>

PeekSpace ==
    /\ Peeking
    /\ position <= Len(buffer)
    /\ buffer[position] = Space
    /\ position' = position + 1
    /\ UNCHANGED <<text, chunk, consumed, buffer, at_end, state, at, attempts, records, ending>>

Sees(c) == position <= Len(buffer) /\ buffer[position] = c
SeesNothing == position > Len(buffer) /\ at_end
SeesOther(cs) == position <= Len(buffer) /\ buffer[position] \notin cs \cup {Space}

End(how) ==
    /\ ending' = how
    /\ state' = "done"
    /\ at' = "done"
    /\ UNCHANGED <<text, chunk, consumed, buffer, position, at_end, attempts, records>>

\* Past one character, to what _advance does next.
Pass(next_state, next_at) ==
    /\ position' = position + 1
    /\ state' = next_state
    /\ at' = next_at
    /\ attempts' = 0
    /\ UNCHANGED <<text, chunk, consumed, buffer, at_end, records, ending>>

Stand(next_at) ==
    /\ at' = next_at
    /\ attempts' = 0
    /\ UNCHANGED <<text, chunk, consumed, buffer, position, at_end, state, records, ending>>

\* One byte order mark, and the bracket of the array.
PassMark == at = "opening" /\ Sees(Mark) /\ Pass(state, "bracket")
Open == at \in {"opening", "bracket"} /\ Sees("[") /\ Pass("first", "next")
NoArray ==
    /\ \/ at = "opening" /\ SeesOther({"[", Mark})
       \/ at = "bracket" /\ SeesOther({"["})
       \/ at \in {"opening", "bracket"} /\ SeesNothing
    /\ End("refused")

\* Before an element, or after one.
CloseArray == at = "next" /\ Sees("]") /\ Pass(state, "closing")
EndsBeforeArray == at \in {"next", "element"} /\ SeesNothing /\ End("refused")
FirstElement == at = "next" /\ state = "first" /\ SeesOther({"]"}) /\ Stand("decode")
Separator == at = "next" /\ state = "after" /\ Sees(",") /\ Pass(state, "element")
NoSeparator == at = "next" /\ state = "after" /\ SeesOther({"]", ","}) /\ End("refused")

\* A comma may close the array.
TrailingComma == at = "element" /\ Sees("]") /\ Pass(state, "closing")
NextElement == at = "element" /\ SeesOther({"]"}) /\ Stand("decode")

\* The file must end with its array.
Complete == at = "closing" /\ SeesNothing /\ End("complete")
Continues == at = "closing" /\ SeesOther({}) /\ End("refused")

-----------------------------------------------------------------------------
(* _decode_one *)

Decoded == Decode(buffer, position)

CouldBeTruncation ==
    \/ Decoded.error = "unterminated"
    \/ Decoded.error = "syntax" /\ Decoded.end - 1 >= Len(buffer) - Slack

\* Mutant: a value that ends before the end of the buffer is trusted.
EndsAtEdge(decoded) == decoded.end = Len(buffer) + 1

\* More text could change the value.
MayContinue(decoded) ==
    \/ decoded.end = Len(buffer) + 1
    \/ decoded.number /\ decoded.end <= Len(buffer) /\ buffer[decoded.end] \in {Digit, Point}

\* At least as much again as is buffered of the element.
Grow ==
    LET buffered == Len(buffer) + 1 - position
    IN  /\ Read(IF buffered < chunk THEN chunk ELSE buffered, buffer)
        /\ attempts' = attempts + 1
        /\ UNCHANGED <<text, chunk, position, state, at, records, ending>>

NeedsMore ==
    /\ at = "decode"
    /\ ~at_end
    /\ IF Decoded.error = "none" THEN MayContinue(Decoded) ELSE CouldBeTruncation

DecodeGrows == NeedsMore /\ Grow

DecodeRefused ==
    /\ at = "decode"
    /\ Decoded.error # "none"
    /\ at_end \/ ~CouldBeTruncation
    /\ End("refused")

DecodeYields ==
    /\ at = "decode"
    /\ Decoded.error = "none"
    /\ at_end \/ ~MayContinue(Decoded)
    /\ records' = Append(records, SubSeq(buffer, position, Decoded.end - 1))
    /\ buffer' = SubSeq(buffer, Decoded.end, Len(buffer))
    /\ position' = 1
    /\ state' = "after"
    /\ at' = "next"
    /\ UNCHANGED <<text, chunk, consumed, at_end, attempts, ending>>

\* The stream raises instead of answering.
WouldRead == (Peeking /\ position > Len(buffer) /\ ~at_end) \/ NeedsMore

ReadFails == WouldRead /\ End("unavailable")

\* It answers bytes that are no UTF-8, do not inflate or fail their checksum, or
\* holds a number or a nesting past the limits of the interpreter.
Unscannable == (WouldRead \/ at = "decode") /\ End("unscannable")

Advance ==
    \/ PeekRead \/ PeekSpace
    \/ PassMark \/ Open \/ NoArray
    \/ CloseArray \/ EndsBeforeArray \/ FirstElement \/ Separator \/ NoSeparator
    \/ TrailingComma \/ NextElement \/ Complete \/ Continues
    \/ DecodeGrows \/ DecodeRefused \/ DecodeYields

Next == Advance \/ ReadFails \/ Unscannable

\* Sequential code over a stream that answers; nothing makes it fail.
Spec == Init /\ [][Next]_vars /\ WF_vars(Advance)

-----------------------------------------------------------------------------
(* The same text in one piece. *)

\* The first position from i that is no white space.
Skip(s, i) == Least({n \in i .. Len(s) + 1 : n = Len(s) + 1 \/ s[n] # Space})

Reading(found, how) == [records |-> found, ending |-> how]

ReadClosing(s, i) == Reading(<<>>, IF Skip(s, i) > Len(s) THEN "complete" ELSE "refused")

\* What follows a value that ends before position i; rest reads on after a comma.
ReadAfter(s, i, rest) ==
    LET after == Skip(s, i)
    IN  IF after > Len(s) THEN Reading(<<>>, "refused")
        ELSE IF s[after] = "]" THEN ReadClosing(s, after + 1)
        ELSE IF s[after] = "," THEN rest[after + 1]
        ELSE Reading(<<>>, "refused")

\* What is read from position i, where a value or the end of the array stands.
ReadElement(s, i, rest) ==
    LET start == Skip(s, i)
        value == Decode(s, start)
        after == ReadAfter(s, value.end, rest)
    IN  IF start > Len(s) THEN Reading(<<>>, "refused")
        ELSE IF s[start] = "]" THEN ReadClosing(s, start + 1)
        ELSE IF value.error # "none" THEN Reading(<<>>, "refused")
        ELSE Reading(<<SubSeq(s, start, value.end - 1)>> \o after.records, after.ending)

\* The elements from position i on, and how the text ends.
ReadElements(s) ==
    LET from[i \in 1 .. Len(s) + 1] == ReadElement(s, i, from)
    IN  from

\* Where the array should open: behind one byte order mark.
Opening(s) ==
    LET mark == Skip(s, 1)
    IN  IF mark <= Len(s) /\ s[mark] = Mark THEN Skip(s, mark + 1) ELSE mark

ReadFrom(s) ==
    IF Opening(s) <= Len(s) /\ s[Opening(s)] = "[" THEN ReadElements(s)[Opening(s) + 1]
                                                 ELSE Reading(<<>>, "refused")

-----------------------------------------------------------------------------
(* Properties. *)

\* Wherever the chunks end - inside a number, a string, a literal, before a comma -
\* the scanner yields the elements of the whole text with their exact text, and
\* ends as the whole text does (records.py:11), unless it cannot read on.
CutsMakeNoDifference ==
    LET whole == ReadFrom(text)
    IN  /\ Len(records) <= Len(whole.records)
        /\ records = SubSeq(whole.records, 1, Len(records))
        /\ ending \in {"complete", "refused"} =>
              records = whole.records /\ ending = whole.ending

\* Every scan ends.
ScanEnds == <>(at = "done")
=============================================================================
