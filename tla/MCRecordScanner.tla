--------------------------- MODULE MCRecordScanner ---------------------------
(* Values for the constants of RecordScanner. *)
EXTENDS RecordScanner

CONSTANT MaxLength  \* length of a text behind its opening bracket

Characters == {Mark, "[", "]", ",", Digit, Point, Quote, "t", "u", Space}

\* Every text of some length, behind an array's first character or without it.
AllTexts ==
    {<<"[">> \o s : s \in UNION {[1 .. n -> Characters \ {"[", Mark}] : n \in 0 .. MaxLength}}
        \cup UNION {[1 .. n -> Characters] : n \in 0 .. 3}

\* Long numbers, strings and literals, with what may follow them.
Tails == {<<>>, <<"]">>, <<",", Digit, "]">>, <<Space, "]", Space>>, <<Point, "]">>}
Repeat(c, n) == [i \in 1 .. n |-> c]

LongTexts ==
    {<<"[">> \o Repeat(Digit, n) \o tail : n \in 1 .. 9, tail \in Tails}
        \cup {<<"[">> \o Repeat(Digit, n) \o <<Point>> \o Repeat(Digit, 3) \o tail :
                n \in 1 .. 9, tail \in Tails}
        \cup {<<"[", Quote>> \o Repeat(Digit, n) \o <<Quote>> \o tail : n \in 1 .. 9, tail \in Tails}
        \cup {<<"[">> \o Repeat(Space, n) \o <<"t", "u">> \o tail : n \in 0 .. 4, tail \in Tails}

ScannedTexts == AllTexts \cup LongTexts
=============================================================================
