-------------------------- MODULE RecordConversion --------------------------
(***************************************************************************)
(* RecordConversion (engineering_memory/ingestion/chatgpt/conversation.py, *)
(* thread.py, content.py): parse_record, from one element of an export to  *)
(* a conversation or to a refusal.                                         *)
(*                                                                         *)
(* A record is [id, mapping, current, created, updated]: its identifier or *)
(* None, its graph of message nodes, the node the interface stood at, and  *)
(* its two times.  A node is [parent, children, message].  What is not of  *)
(* the shape JSON should have is refused like a link to no node.           *)
(***************************************************************************)
EXTENDS Integers, Sequences, FiniteSets, SequencesExt

CONSTANTS
    None,  \* an absent identifier, parent, current node or tool
    Nodes  \* the names a node, a parent, a child or current_node can have

ASSUME ConversionAssumption ==
    /\ IsFiniteSet(Nodes)
    /\ None \notin Nodes

\* export_time: an absent time, a usable one, a value that is none.
Times == {"none", "time", "bad"}

\* What a message can be: absent; one whose role or time is not recognized; one
\* whose role or content type is no text at all, which Python cannot look up in a
\* set; one hidden from the conversation; reasoning; a turn of a role with the
\* tool it addresses (assistant) or is named after (tool).
Structural == [kind |-> "structural"]
Malformed == [kind |-> "malformed"]
Unhashable == [kind |-> "unhashable"]
Hidden == [kind |-> "hidden"]
Reasoning == [kind |-> "reasoning"]
Turn(role, tool, time) == [kind |-> "turn", role |-> role, tool |-> tool, time |-> time]

-----------------------------------------------------------------------------

VARIABLES
    stage,     \* where parse_record stands
    record,    \* the record in hand, or None
    pending,   \* _validate: nodes to be visited from the root
    reached,   \* _validate: nodes visited
    path,      \* reconstruct, _last_child_leaf: the thread as far as it is known
    position,  \* the next node of the thread, then the next item
    items,     \* the nodes of the thread that are turns
    omitted,   \* nodes left out, by reason
    turns      \* fold_tool_calls: the turns, each with the nodes it was made of

conversion == <<stage, record, pending, reached, path, position, items, omitted, turns>>

Nothing == [structural |-> 0, hidden |-> 0, reasoning |-> 0, folded |-> 0]

Init ==
    /\ stage = "none"
    /\ record = None
    /\ pending = <<>> /\ reached = 0
    /\ path = <<>> /\ position = 1
    /\ items = <<>> /\ omitted = Nothing /\ turns = <<>>

Fresh(r) ==
    /\ record' = r
    /\ pending' = <<>> /\ reached' = 0
    /\ path' = <<>> /\ position' = 1
    /\ items' = <<>> /\ omitted' = Nothing /\ turns' = <<>>

\* parse_record is called with a record, and has returned or raised.
Begin(r) == stage' = "graph" /\ Fresh(r)
Return == stage' = "none" /\ Fresh(None)

Graph == record.mapping
Size == Cardinality(DOMAIN Graph)
Message(n) == Graph[n].message

-----------------------------------------------------------------------------
(* _validate, _last_child_leaf and reconstruct: the thread of the graph. *)

\* Mutant: the repeated child is let through.
LinkedThoughRepeated(g, n) ==
    /\ g[n].parent = None \/ /\ g[n].parent \in DOMAIN g
                             /\ \E k \in DOMAIN g[g[n].parent].children :
                                    g[g[n].parent].children[k] = n
    /\ \A k \in DOMAIN g[n].children :
          /\ g[n].children[k] \in DOMAIN g
          /\ g[g[n].children[k]].parent = n

\* The parent of a node lists it, its children name it, and none twice.
Linked(g, n) ==
    /\ g[n].parent = None \/ /\ g[n].parent \in DOMAIN g
                             /\ \E k \in DOMAIN g[g[n].parent].children :
                                    g[g[n].parent].children[k] = n
    /\ \A k \in DOMAIN g[n].children :
          /\ g[n].children[k] \in DOMAIN g
          /\ g[g[n].children[k]].parent = n
    /\ \A k \in DOMAIN g[n].children : \A l \in DOMAIN g[n].children :
          g[n].children[k] = g[n].children[l] => k = l

Roots(g) == {n \in DOMAIN g : g[n].parent = None}

Refuse ==
    /\ stage' = "refused"
    /\ UNCHANGED <<record, pending, reached, path, position, items, omitted, turns>>

CheckRefuses ==
    /\ stage = "graph"
    /\ \/ record.id = None
       \/ \E n \in DOMAIN Graph : ~Linked(Graph, n)
       \/ Cardinality(Roots(Graph)) # 1
    /\ Refuse

CheckLinks ==
    /\ stage = "graph"
    /\ record.id # None
    /\ \A n \in DOMAIN Graph : Linked(Graph, n)
    /\ \E root \in Nodes :
          /\ Roots(Graph) = {root}
          /\ pending' = <<root>>
    /\ stage' = "walk"
    /\ UNCHANGED <<record, reached, path, position, items, omitted, turns>>

\* The walk stops when it has seen more nodes than there are.
Walking == pending # <<>> /\ reached <= Size

Walk ==
    /\ stage = "walk" /\ Walking
    /\ reached' = reached + 1
    /\ pending' = Front(pending) \o Graph[Last(pending)].children
    /\ UNCHANGED <<stage, record, path, position, items, omitted, turns>>

WalkRefuses ==
    /\ stage = "walk" /\ ~Walking
    /\ reached # Size
    /\ Refuse

\* The displayed node is the one marked, or the leaf found by the last children.
Walked ==
    /\ stage = "walk" /\ ~Walking
    /\ reached = Size
    /\ \/ /\ record.current \in DOMAIN Graph
          /\ path' = <<record.current>> /\ stage' = "climb"
       \/ /\ record.current \notin DOMAIN Graph
          /\ \E root \in Roots(Graph) : path' = <<root>>
          /\ stage' = "leaf"
    /\ UNCHANGED <<record, pending, reached, position, items, omitted, turns>>

Descend ==
    /\ stage = "leaf"
    /\ LET children == Graph[path[1]].children
       IN  IF children # <<>> THEN path' = <<Last(children)>> /\ stage' = "leaf"
                              ELSE stage' = "climb" /\ UNCHANGED path
    /\ UNCHANGED <<record, pending, reached, position, items, omitted, turns>>

Climb ==
    /\ stage = "climb"
    /\ LET parent == Graph[path[1]].parent
       IN  IF parent # None THEN path' = <<parent>> \o path /\ stage' = "climb"
                            ELSE stage' = "read" /\ UNCHANGED path
    /\ UNCHANGED <<record, pending, reached, position, items, omitted, turns>>

-----------------------------------------------------------------------------
(* read_message for each node of the thread. *)

Reading == stage = "read" /\ position <= Len(path)

\* Count a node under a reason; it is no turn.
Omit(reason) ==
    /\ Reading
    /\ Message(path[position]).kind = reason
    /\ omitted' = [omitted EXCEPT ![reason] = @ + 1]
    /\ position' = position + 1
    /\ UNCHANGED <<stage, record, pending, reached, path, items, turns>>

\* A role that is not recognized, a message that is no object, a time that is none.
ReadRefuses ==
    /\ Reading
    /\ LET message == Message(path[position])
       IN  \/ message.kind = "malformed"
           \/ message.kind = "turn" /\ message.time = "bad"
    /\ Refuse

\* TypeError of a look-up of a list or an object: no error of this package.
ReadEscapes ==
    /\ Reading
    /\ Message(path[position]).kind = "unhashable"
    /\ stage' = "escaped"
    /\ UNCHANGED <<record, pending, reached, path, position, items, omitted, turns>>

ReadTurn ==
    /\ Reading
    /\ Message(path[position]).kind = "turn"
    /\ Message(path[position]).time # "bad"
    /\ items' = Append(items, path[position])
    /\ position' = position + 1
    /\ UNCHANGED <<stage, record, pending, reached, path, omitted, turns>>

ReadAll ==
    /\ stage = "read" /\ position > Len(path)
    /\ stage' = "fold"
    /\ position' = 1
    /\ UNCHANGED <<record, pending, reached, path, items, omitted, turns>>

-----------------------------------------------------------------------------
(* fold_tool_calls, and the times of the conversation. *)

\* _tool_call and _tool_name.
IsCall(message) == message.role = "assistant" /\ message.tool # None
Answers(result, call) == result.role = "tool" /\ result.tool = call.tool

\* Mutant: any turn of a tool answers the call before it.
FoldsAnyTool ==
    /\ stage = "fold" /\ position < Len(items)
    /\ IsCall(Message(items[position]))
    /\ Message(items[position + 1]).role = "tool"

\* The turn in hand is a call and the very next one its answer.
Folds ==
    /\ stage = "fold" /\ position < Len(items)
    /\ IsCall(Message(items[position]))
    /\ Answers(Message(items[position + 1]), Message(items[position]))

Fold ==
    /\ Folds
    /\ turns' = Append(turns, <<items[position], items[position + 1]>>)
    /\ omitted' = [omitted EXCEPT !.folded = @ + 1]
    /\ position' = position + 2
    /\ UNCHANGED <<stage, record, pending, reached, path, items>>

Keep ==
    /\ stage = "fold" /\ position <= Len(items)
    /\ ~Folds
    /\ turns' = Append(turns, <<items[position]>>)
    /\ position' = position + 1
    /\ UNCHANGED <<stage, record, pending, reached, path, items, omitted>>

FoldedAll ==
    /\ stage = "fold" /\ position > Len(items)
    /\ stage' = "times"
    /\ UNCHANGED <<record, pending, reached, path, position, items, omitted, turns>>

\* started_at: the creation time, or else the earliest time of a turn.  The time of
\* a folded result is not looked at.
Started ==
    \/ record.created = "time"
    \/ record.created = "none" /\ \E k \in DOMAIN turns : Message(turns[k][1]).time = "time"

TimesRefuse ==
    /\ stage = "times"
    /\ ~Started \/ record.updated = "bad"
    /\ Refuse

Parsed ==
    /\ stage = "times"
    /\ Started /\ record.updated # "bad"
    /\ stage' = "parsed"
    /\ UNCHANGED <<record, pending, reached, path, position, items, omitted, turns>>

-----------------------------------------------------------------------------
(* What the record says, by definition rather than by walking it. *)

\* The ancestors of n: the least set that holds its parent and theirs.  A path in a
\* graph of Size nodes is no longer than that, so this many rounds close the set.
Ancestors(g, n) ==
    LET above[k \in 0 .. Cardinality(DOMAIN g)] ==
            IF k = 0 THEN {n}
            ELSE above[k - 1] \cup ({g[m].parent : m \in above[k - 1] \cap DOMAIN g} \ {None})
    IN  above[Cardinality(DOMAIN g)]

\* One root, above every node; the children of a node are listed once each and are
\* the nodes whose parent it is.
IsTree(g) ==
    /\ Cardinality(Roots(g)) = 1
    /\ \A n \in DOMAIN g :
          /\ Roots(g) \subseteq Ancestors(g, n)
          /\ LET listed == {g[n].children[k] : k \in DOMAIN g[n].children}
             IN  /\ listed = {m \in DOMAIN g : g[m].parent = n}
                 /\ Cardinality(listed) = Len(g[n].children)

\* The displayed node: where the interface stood, or the leaf of which every
\* ancestor below the root is its parent's last child.
IsDisplayed(r, n) ==
    IF r.current \in DOMAIN r.mapping
    THEN n = r.current
    ELSE /\ r.mapping[n].children = <<>>
         /\ \A m \in Ancestors(r.mapping, n) \ Roots(r.mapping) :
               Last(r.mapping[r.mapping[m].parent].children) = m

\* The thread of a tree: the displayed node and its ancestors, by their depth.
ThreadOf(r) ==
    LET shown == CHOOSE n \in DOMAIN r.mapping : IsDisplayed(r, n)
        thread == Ancestors(r.mapping, shown)
    IN  [k \in 1 .. Cardinality(thread) |->
            CHOOSE n \in thread : Cardinality(Ancestors(r.mapping, n)) = k]

\* The nodes of a sequence that are turns.
TurnsAmong(g, nodes) ==
    FlattenSeq([k \in DOMAIN nodes |->
                   IF g[nodes[k]].message.kind = "turn" THEN <<nodes[k]>> ELSE <<>>])

TurnsOf(r) == TurnsAmong(r.mapping, ThreadOf(r))

\* The k-th turn is the result of the call right before it.
IsFolded(r, k) ==
    LET Said(j) == r.mapping[TurnsOf(r)[j]].message
    IN  k > 1 /\ IsCall(Said(k - 1)) /\ Answers(Said(k), Said(k - 1))

\* What is to become of a tree: the first message of the thread that cannot be read
\* decides, and then the times.
TreeVerdict(r) ==
    LET thread == ThreadOf(r)
        Says(k) == r.mapping[thread[k]].message
        Unread(k) == \/ Says(k).kind \in {"malformed", "unhashable"}
                     \/ Says(k).kind = "turn" /\ Says(k).time = "bad"
        first == {k \in DOMAIN thread : Unread(k) /\ \A j \in 1 .. k - 1 : ~Unread(j)}
        timed == \/ r.created = "time"
                 \/ /\ r.created = "none"
                    /\ \E k \in DOMAIN TurnsOf(r) :
                          ~IsFolded(r, k) /\ r.mapping[TurnsOf(r)[k]].message.time = "time"
    IN  IF first # {} THEN IF \A k \in first : Says(k).kind = "unhashable"
                           THEN "escaped" ELSE "refused"
        ELSE IF timed /\ r.updated # "bad" THEN "conversation" ELSE "refused"

Verdict(r) == IF r.id # None /\ IsTree(r.mapping) THEN TreeVerdict(r) ELSE "refused"

-----------------------------------------------------------------------------
(* Properties of one conversion. *)

\* The turns of a conversation are those of the displayed thread, each once and in
\* their order, and a result stands with its call exactly when it is the turn right
\* after it and names its tool (fold_tool_calls, content.py: "Anything looser would
\* pair a result with the wrong call").  Every other node of the thread is omitted for
\* one reason: ThreadAccount raises otherwise, and nothing above it expects that.
TurnsAreTheThread ==
    stage = "parsed" =>
        /\ FlattenSeq(turns) = TurnsOf(record)
        /\ \A k \in DOMAIN turns : \A j \in DOMAIN turns[k] :
              (j > 1) = IsFolded(record, Len(FlattenSeq(SubSeq(turns, 1, k - 1))) + j)
        /\ Len(path) = Len(turns) + omitted.folded + omitted.structural + omitted.hidden
                           + omitted.reasoning

=============================================================================
