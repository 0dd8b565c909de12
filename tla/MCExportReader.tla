--------------------------- MODULE MCExportReader ---------------------------
\* Exports for TLC: every small graph, every short thread, every small layout.
EXTENDS ExportReader

Timed == Turn("user", None, "time")
BadTime == Turn("user", None, "bad")

\* Exports of one file with one record.
Alone(mappings, currents, creations, updates) ==
    [form : {"export"}, parts : {{}},
     single : [number : {0}, rank : {0}, opens : {"yes"}, ending : {"complete"},
               records : [{1} -> [id : {"a"}, mapping : mappings, current : currents,
                                  created : creations, updated : updates]]]]

-----------------------------------------------------------------------------

\* Graphs with no more links than nodes, right or wrong.
GraphsOf(present) ==
    {g \in [present -> [parent : 1 .. 3 \cup {None}, message : {Timed},
                        children : UNION {[1 .. n -> 1 .. 3] : n \in 0 .. 2}]] :
        FoldFunctionOnSet(LAMBDA node, total : Len(node.children) + total, 0, g, present)
            <= Cardinality(present)}

\* The names are arbitrary: node 1 is the root, if it is one, and the current node
\* is the root, another node, or none of the graph.
SmallGraphs ==
    GraphsOf({}) \cup GraphsOf({1}) \cup GraphsOf({1, 2})
    \cup {g \in GraphsOf({1, 2, 3}) : Roots(g) = {1}}

-----------------------------------------------------------------------------

\* A thread without forks, and one with a fork, that carry the messages in turn.
Chain(messages) ==
    [n \in DOMAIN messages |->
        [parent |-> IF n = 1 THEN None ELSE n - 1,
         children |-> IF n = Len(messages) THEN <<>> ELSE <<n + 1>>,
         message |-> messages[n]]]

Fork(messages) ==
    [n \in 1 .. 3 |->
        [parent |-> IF n = 1 THEN None ELSE 1,
         children |-> IF n = 1 THEN <<2, 3>> ELSE <<>>,
         message |-> messages[n]]]

ToolMessages ==
    {Hidden, Turn("assistant", "search", "none"), Turn("tool", "search", "time"),
     Turn("tool", "other", "none"), Turn("user", None, "none")}

AnyMessages == {Structural, Malformed, Unhashable, Reasoning, BadTime, Timed}

-----------------------------------------------------------------------------

Short(id, message) ==
    [id |-> id, mapping |-> Chain(<<message>>), current |-> 1, created |-> "none", updated |-> "time"]

SomeRecords == {Short("a", Timed), Short("a", Malformed), Short("b", Timed), Short("b", Unhashable)}

File(number, rank, opens, records, ending) ==
    [number |-> number, rank |-> rank, opens |-> opens, records |-> records, ending |-> ending]

Whole(number, rank, records) == File(number, rank, "yes", records, "complete")

SomeFiles(number, rank, most) ==
    {File(number, rank, "yes", records, ending) :
        records \in UNION {[1 .. n -> SomeRecords] : n \in 0 .. most},
        ending \in {"complete", "unavailable", "unscannable"}}
    \cup {File(number, rank, opens, <<>>, "complete") : opens \in {"unavailable", "unscannable"}}

Layout(form, single, parts) == [form |-> form, single |-> single, parts |-> parts]

\* conversations-2.json comes after conversations-10.json by name, 07 before 7.
Layouts ==
    {Layout("export", None, {two, ten}) : two \in SomeFiles(2, 2, 2), ten \in SomeFiles(10, 1, 1)}
    \cup {Layout("export", None, {Whole(7, 1, <<Short(None, Timed), Short("a", Malformed)>>),
                                  Whole(7, 2, <<Short("a", Timed)>>)}),
          Layout("export", Whole(0, 0, <<>>), {Whole(2, 2, <<Short("a", Timed)>>)})}
    \cup {Layout(form, None, {}) : form \in {"export", "unreachable", "unreadable"}}

SomeExports ==
    Layouts
    \cup Alone(SmallGraphs, {1, 2, 4}, {"time"}, {"none"})
    \cup Alone({Chain(m) : m \in [1 .. 4 -> ToolMessages]}, {None}, {"none", "time"}, {"none"})
    \cup Alone({Chain(m) : m \in [1 .. 2 -> AnyMessages]}, {2}, Times, {"none", "bad"})
    \cup Alone({Fork(m) : m \in [1 .. 3 -> AnyMessages]}, {2, None}, {"none"}, {"none"})

=============================================================================
