---------------------------- MODULE MCPreparation ----------------------------
(* Conversations and rules for Preparation. Most conversations have one field     *)
(* with one text: what is exhausted is the text.                                  *)
EXTENDS Preparation

AllAtoms == {"t", "u", "s", "f", "F", "g", "-", " ", "str", "ref", "red", "call", "Secret"}

Only(f, text) == [g \in ToSet(Fields) |-> IF g = f THEN text ELSE None]

L(indent, item, key, value) == [indent |-> indent, item |-> item, key |-> key, value |-> value]
Prose(value) == L(0, FALSE, None, value)

\* One line of up to four atoms, as prose and beside a password's key.
Letters == {"t", "u", "s", "f", "-", " "}
Values == UNION {[1 .. n -> Letters] : n \in 0 .. 4}
Lines == {<<Prose(value)>> : value \in Values}
    \cup {<<L(0, FALSE, "password", value)>> : value \in {v \in Values : v = <<>> \/ Head(v) # " "}}

\* Values that stand for a secret without being one, and code.
StandIns == {<<L(0, FALSE, "password", value)>> :
                value \in {<<"str">>, <<"ref">>, <<"red">>, <<"Secret">>, <<"call">>, <<"call", "f", "call">>, <<"call", "f">>,
                           <<"red", "f">>}}

Kind(n, item) == L(n, item, "kind", <<"Secret">>)
Config(n, item) == L(n, item, "kind", <<"f">>)
Data(n, item) == L(n, item, "data", <<>>)
Value(n) == L(n, FALSE, "name", <<"f">>)
Separate == L(0, FALSE, "---", <<>>)
Keep(n) == L(n, TRUE, None, <<"f">>)

\* Manifests: the lines a block depends on, in every order.
ManifestLines ==
    {Kind(0, FALSE), Kind(1, TRUE), Kind(1, FALSE), Config(1, TRUE), Data(0, FALSE), Data(1, FALSE),
     Data(1, TRUE), Value(1), Value(2), Separate, Keep(1), L(0, FALSE, None, <<>>)}

Short == [1 .. 3 -> ManifestLines]
Long == {<<a, b, c, d>> :
            <<a, b, c, d>> \in {Kind(0, FALSE), Kind(1, TRUE), Config(1, TRUE), Data(0, FALSE), Data(1, TRUE)}
                               \X {Kind(1, FALSE), Kind(1, TRUE), Data(1, FALSE), Value(1), Separate}
                               \X {Data(1, FALSE), Data(1, TRUE), Data(0, FALSE), Kind(1, TRUE), Value(2), Keep(1)}
                               \X {Value(1), Value(2), Kind(0, FALSE), Kind(1, FALSE), L(1, FALSE, "password", <<"f">>)}}
\* A Secret in the data of a Secret: two blocks, one inside the other.
Nested == {<<Kind(0, FALSE), Data(0, FALSE), Kind(1, FALSE), Data(1, FALSE), Value(2), Value(2)>>}

\* Several fields: an alias of two words whose halves meet only across a join, and
\* secrets in more than one field.
Fielded ==
    [title : {None, <<Prose(<<"f">>)>>, <<Prose(<<"t", "u">>)>>}, text : {<<>>, <<Prose(<<"g">>)>>},
     name : {<<Prose(<<"-">>)>>}, request : {None, <<L(0, FALSE, "password", <<"g">>)>>},
     result : {None, <<Prose(<<"F">>), Prose(<<"g">>)>>}, part : {None, <<Prose(<<"g", " ", " ", "F">>)>>}]

AllConversations == {Only("text", text) : text \in Lines \cup StandIns \cup Short \cup Long \cup Nested} \cup Fielded

Rule(project, aliases, priority) == [project |-> project, aliases |-> aliases, priority |-> priority]

\* Two projects of one priority, one above them named by two words, one hyphenated.
Projects == <<Rule("p", {<<"f">>}, 0), Rule("q", {<<"g">>, <<"f", "-", "f">>}, 0), Rule("r", {<<"F", " ", "g">>}, 1)>>
Document(rs) == [state |-> "document", rules |-> rs, required |-> TRUE]

Files ==
    {Document(Projects), [state |-> "absent", rules |-> <<>>, required |-> FALSE]}
    \cup {[state |-> s, rules |-> <<>>, required |-> TRUE] : s \in {"absent", "unreadable", "malformed"}}
    \cup {Document(<<Rule("p", {<<"f", " ", "g">>}, 0), Rule("q", {<<"F", "nl", "g", " ">>}, 0)>>),
          Document(<<Rule("p", {<<"-">>}, 0)>>), Document(<<Rule(Unknown, {<<"f">>}, 0)>>), Document(<<Rule("p", {}, 0)>>)}

\* Asked when the rules have no answer.
Later == <<<<Rule("z", {<<"f">>}, 0)>>>>
=============================================================================
