---------------------------- MODULE TextRedaction ----------------------------
(* find_spans and redact of sanitization/scanner.py, and of patterns.py what is   *)
(* code: the stand-ins and the blocks of Kubernetes Secrets. A text is a sequence *)
(* of lines [indent, item, key, value], a value a sequence of atoms. An atom is a *)
(* run of characters, long enough for any pattern, which no pattern tells apart:  *)
(*   t u s   pieces of tokens      f F g   words       - and " "   themselves     *)
(*   red     [REDACTED]            str, ref, call      a type, ${TOKEN}, getenv(  *)
(*   Secret  the kind, a word that is a stand-in too                              *)
(* The blanks behind a key's separator belong to the separator: no value of a key *)
(* begins with one.                                                               *)
(* Four patterns stand for the table: two tokens that can share a piece, the      *)
(* block of a Secret, and a password beside its name.                             *)
EXTENDS Integers, Sequences, FiniteSets, SequencesExt, FiniteSetsExt, Positions, TLC

CONSTANTS
    None,       \* no key, no field
    Atoms,      \* what values are made of
    Width       \* a line is shorter; its key has the offset 0 in it

ASSUME TextAssumption ==
    /\ Width \in Nat \ {0} /\ "red" \in Atoms
    /\ None \notin {"data", "kind", "name", "password", "---"}

Line ==
    {line \in [indent : Nat, item : BOOLEAN, key : {None} \cup STRING, value : Seq(Atoms)] :
        Len(line.value) < Width}

Blank(line) == line.key = None /\ line.value = <<>>
Separator(line) == line.key = "---"

----------------------------------------------------------------------------
(* secret_manifest_blocks *)

IsDataKey(line) == line.key = "data" /\ line.value = <<>>
IsKindSecret(line) == line.key = "kind" /\ line.value = <<"Secret">>

\* Where a walk from line i stops: above it at the first line of a list item as
\* well, once that line was looked at; below it before one.
Outside(line, i) == Separator(line) \/ line.indent < i.indent

\* Mutant: the walk down runs on into the next list item.
SiblingsOfEveryItem(lines, i) ==
    {j \in 1 .. Len(lines) : j # i /\ lines[j].indent = lines[i].indent
        /\ \A k \in (j .. i) \cup (i .. j) : Blank(lines[k]) \/ ~Outside(lines[k], lines[i])}

Siblings(lines, i) ==
    LET Ends(k) == ~Blank(lines[k]) /\ (Outside(lines[k], lines[i]) \/ lines[k].item)
        Beside(j) == ~Blank(lines[j]) /\ ~Outside(lines[j], lines[i]) /\ lines[j].indent = lines[i].indent
    IN  {j \in 1 .. i - 1 : Beside(j) /\ \A k \in j + 1 .. i - 1 : ~Ends(k)}
        \cup {j \in i + 1 .. Len(lines) : Beside(j) /\ \A k \in i + 1 .. j : ~Ends(k)}

BlockEnd(lines, i) ==
    Max({i} \cup {j \in i + 1 .. Len(lines) :
        /\ ~Blank(lines[j])
        /\ \A k \in i + 1 .. j : Blank(lines[k]) \/ (~Separator(lines[k]) /\ lines[k].indent > lines[i].indent)})

SecretBlock(lines, i) == IsDataKey(lines[i]) /\ \E j \in Siblings(lines, i) : IsKindSecret(lines[j])

\* The first and the last line of each block, in order of the keys that open them.
SecretManifestBlocks(lines) ==
    LET opening == Ascending({i \in DOMAIN lines : SecretBlock(lines, i)})
    IN  [n \in DOMAIN opening |-> [first |-> opening[n] + 1, last |-> BlockEnd(lines, opening[n])]]

----------------------------------------------------------------------------
(* The patterns and find_spans *)

\* is_placeholder, which does not look at the case, and a keyed value that is code.
IsPlaceholder(value) ==
    \/ value \in {<<"str">>, <<"ref">>, <<"red">>, <<"Secret">>}
    \/ \A k \in 1 .. Len(value) : value[k] = "-"

IsACodeExpression(value) == value # <<>> /\ Head(value) = "call" /\ Last(value) = "call"

\* Offsets in a text: atom k of line l, the key being atom 0.
Offsets(text) == 0 .. Len(text) * Width - 1
LineAt(offset) == (offset \div Width) + 1

AtomsAt(text, offset, length) ==
    LET value == text[LineAt(offset)].value
        k == offset % Width
    IN  IF k > 0 /\ k + length - 1 <= Len(value) THEN SubSeq(value, k, k + length - 1) ELSE <<>>

\* The matches of a pattern with its own shape, for which the match is the value.
Tokens(text, word, precedence) ==
    LET starts == Ascending({o \in Offsets(text) : AtomsAt(text, o, Len(word)) = word})
    IN  [n \in DOMAIN starts |-> [start |-> starts[n], end |-> starts[n] + Len(word),
                                  category |-> "token", precedence |-> precedence]]

\* The value a key pattern takes: up to the first space.
Word(value) ==
    SubSeq(value, 1, Max({k \in 0 .. Len(value) : \A j \in 1 .. k : value[j] # " "}))

Credential(value) == ~IsPlaceholder(value) /\ ~IsACodeExpression(value)

Keyed(text, lines, category, precedence) ==
    [n \in DOMAIN lines |->
        [start |-> (lines[n] - 1) * Width + 1, end |-> (lines[n] - 1) * Width + 1 + Len(Word(text[lines[n]].value)),
         category |-> category, precedence |-> precedence]]

\* In the block of a Secret: every indented key whose value is the rest of its line.
\* A line in two of the regions is found twice.
BlockValues(text) ==
    LET blocks == SecretManifestBlocks(text)
        Found(l) == /\ text[l].indent > 0 /\ ~text[l].item
                    /\ text[l].key \notin {None, "---"}
                    /\ Word(text[l].value) = text[l].value /\ Credential(text[l].value)
        Region(n) == blocks[(n % Len(blocks)) + 1]
        LineOf(n) == (n \div Len(blocks)) + 1
        hits == Ascending({n \in 0 .. Len(text) * Len(blocks) - 1 :
                              Region(n).first <= LineOf(n) /\ LineOf(n) <= Region(n).last /\ Found(LineOf(n))})
    IN  Keyed(text, [n \in DOMAIN hits |-> LineOf(hits[n])], "kubernetes", 2)

Passwords(text) ==
    Keyed(text, Ascending({l \in DOMAIN text : text[l].key = "password" /\ Credential(Word(text[l].value))}),
          "password", 3)

IfAny(batch) == IF batch = <<>> THEN <<>> ELSE <<batch>>

\* The findings of each pattern that has any, sorted.
FindSpans(text) ==
    IfAny(Tokens(text, <<"t", "u">>, 0)) \o IfAny(Tokens(text, <<"u", "s">>, 1))
        \o IfAny(BlockValues(text)) \o IfAny(Passwords(text))

----------------------------------------------------------------------------
(* redact *)

\* The text with each span replaced once.
Rewritten(text, spans) ==
    LET Over(o) == \E n \in DOMAIN spans : spans[n].start <= o /\ o < spans[n].end
        Starts(o) == \E n \in DOMAIN spans : spans[n].start = o
        Offset(l, k) == (l - 1) * Width + k
        Left(l) == Ascending({k \in DOMAIN text[l].value : Over(Offset(l, k)) => Starts(Offset(l, k))})
        Value(l, left) ==
            [n \in DOMAIN left |-> IF Over(Offset(l, left[n])) THEN "red" ELSE text[l].value[left[n]]]
    IN  [l \in DOMAIN text |-> [text[l] EXCEPT !.value = Value(l, Left(l))]]

\* How many spans of each category were replaced.
Counted(spans, category) == Cardinality({n \in DOMAIN spans : spans[n].category = category})

----------------------------------------------------------------------------
(* What the blocks are for: RC-13's own words, and what a second pass may find *)

\* Two lines of one mapping: at one indentation, with no line between them that
\* ends the document or the mapping, or starts another item at that indentation.
SameMapping(lines, i, j) ==
    /\ i # j /\ ~Blank(lines[j]) /\ ~Separator(lines[j])
    /\ lines[i].indent = lines[j].indent
    /\ \A k \in 1 .. Len(lines) :
          (~Blank(lines[k]) /\ ((i < k /\ k <= j) \/ (j < k /\ k <= i))) =>
              ~(Outside(lines[k], lines[i]) \/ (lines[k].item /\ lines[k].indent = lines[i].indent))

OwnMappingIsSecret(lines, i) ==
    IsDataKey(lines[i]) /\ \E j \in 1 .. Len(lines) : SameMapping(lines, i, j) /\ IsKindSecret(lines[j])

\* The shape of a manifest and of `kubectl get secrets -o yaml`: no list inside the
\* mapping, and no item that begins with its data.
NoInnerList(lines, i) ==
    ~lines[i].item /\ \A k \in 1 .. Len(lines) : lines[k].item => lines[k].indent <= lines[i].indent

\* All findings of a text, before any overlap is settled.
AllFindings(text) == UNION {ToSet(FindSpans(text)[n]) : n \in DOMAIN FindSpans(text)}

\* The atoms a span covers.
Covered(text, span) == AtomsAt(text, span.start, span.end - span.start)
=============================================================================
