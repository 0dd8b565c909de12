---------------------------- MODULE ExportReader ----------------------------
(***************************************************************************)
(* ExportReader (engineering_memory/ingestion/chatgpt/source.py,           *)
(* export.py): the iterator over a ChatGPT export.  It opens the export    *)
(* when first asked, reads its conversation files one after another, and   *)
(* converts one record per call (RecordConversion).  The caller may ask    *)
(* again after any answer, and may close the reader between two.           *)
(*                                                                         *)
(* An export is [form, single, parts]: whether it can be reached and is an *)
(* export at all, the file conversations.json or None, and the files of a  *)
(* split export, each with its number and the rank of its name among       *)
(* theirs.  A file is [number, rank, opens, records, ending]: whether it   *)
(* opens, the elements RecordScanner finds and how it ends.                *)
(***************************************************************************)
EXTENDS RecordConversion

CONSTANT Exports  \* the exports read

\* What a mapping is once its nodes are known to be objects: parents and children are
\* names, of nodes or of none.
IsGraph(g) ==
    /\ DOMAIN g \subseteq Nodes
    /\ \A n \in DOMAIN g : g[n].parent \in Nodes \cup {None} /\ g[n].children \in Seq(Nodes)

IsFile(file) ==
    /\ file # None
    /\ file.number \in Nat /\ file.rank \in Nat
    /\ file.opens \in {"yes", "unavailable", "unscannable"}
    /\ file.records \in Seq(ToSet(file.records))
    /\ \A r \in ToSet(file.records) : IsGraph(r.mapping)
    /\ file.ending \in {"complete", "unavailable", "unscannable"}

ASSUME ExportsAssumption ==
    \A e \in Exports :
        /\ IsFiniteSet(e.parts)
        /\ \A file \in e.parts : IsFile(file)
        /\ e.single = None \/ IsFile(e.single)

VARIABLES
    export,   \* the export at the path
    at,       \* "idle" between two calls, "reading" and "converting" in one
    opened,   \* _export: "no" before the first call, "open", or "closed"
    names,    \* _names: the files not yet opened
    stream,   \* _stream and _scanner: the open file, or None
    unread,   \* the elements the scanner has yet to yield
    done,     \* _done
    seen,     \* _seen
    answers   \* history: what each call returned or raised, and of which record:
              \* "conversation", "refused" (SourceFormatError for one record), "escaped"
              \* (an exception of Python), "unavailable" or "unscannable" (the export or
              \* the rest of it), "end" (StopIteration)

reader == <<export, at, opened, names, stream, unread, done, seen, answers>>
vars == <<conversion, reader>>

ReaderInit ==
    /\ Init
    /\ export \in Exports
    /\ at = "idle"
    /\ opened = "no"
    /\ names = <<>> /\ stream = None /\ unread = <<>>
    /\ done = FALSE
    /\ seen = {}
    /\ answers = <<>>

-----------------------------------------------------------------------------

\* _conversation_files: by number, and by name where two numbers are the same.
InOrder(parts, order) ==
    /\ Len(order) = Cardinality(parts)
    /\ {order[k] : k \in DOMAIN order} = parts
    /\ \A k \in DOMAIN order : \A l \in DOMAIN order :
          k < l => \/ order[k].number < order[l].number
                   \/ order[k].number = order[l].number /\ order[k].rank < order[l].rank

Files == IF export.single = None THEN export.parts ELSE {export.single}

\* The sequences that hold each file of an export once.
Arrangements(parts) == [1 .. Cardinality(parts) -> parts]

Answer(answer) ==
    /\ answers' = Append(answers, answer)
    /\ at' = "idle"

\* _finish: nothing of the export stays open, and there is nothing after it.
Finish ==
    /\ done' = TRUE
    /\ stream' = None /\ unread' = <<>>
    /\ opened' = IF opened = "no" THEN "no" ELSE "closed"

\* next(reader), while there is something to find.
Ask ==
    /\ at = "idle" /\ ~done
    /\ at' = "reading"
    /\ UNCHANGED <<conversion, export, opened, names, stream, unread, done, seen, answers>>

\* StopIteration again.
AskedAfterEnd ==
    /\ at = "idle" /\ done
    /\ UNCHANGED vars

\* The path cannot be reached, or what is there cannot be read.
Unreachable ==
    /\ at = "reading" /\ opened = "no"
    /\ export.form = "unreachable"
    /\ Answer([kind |-> "unavailable", id |-> None])
    /\ Finish
    /\ UNCHANGED <<conversion, export, names, seen>>

\* Not an export, no conversations in it, or two layouts of them.
NoExport ==
    /\ at = "reading" /\ opened = "no"
    /\ \/ export.form = "unreadable"
       \/ export.form = "export" /\ (export.single = None) = (export.parts = {})
    /\ Answer([kind |-> "unscannable", id |-> None])
    /\ Finish
    /\ UNCHANGED <<conversion, export, names, seen>>

OpenExport ==
    /\ at = "reading" /\ opened = "no"
    /\ export.form = "export"
    /\ (export.single = None) # (export.parts = {})
    /\ opened' = "open"
    /\ \E order \in Arrangements(Files) : InOrder(Files, order) /\ names' = order
    /\ UNCHANGED <<conversion, export, at, stream, unread, done, seen, answers>>

OpenFile ==
    /\ at = "reading" /\ opened = "open" /\ stream = None
    /\ names # <<>> /\ Head(names).opens = "yes"
    /\ names' = Tail(names)
    /\ stream' = Head(names)
    /\ unread' = Head(names).records
    /\ UNCHANGED <<conversion, export, at, opened, done, seen, answers>>

OpenFails ==
    /\ at = "reading" /\ opened = "open" /\ stream = None
    /\ names # <<>> /\ Head(names).opens # "yes"
    /\ names' = Tail(names)
    /\ Answer([kind |-> Head(names).opens, id |-> None])
    /\ Finish
    /\ UNCHANGED <<conversion, export, seen>>

NoMoreFiles ==
    /\ at = "reading" /\ opened = "open" /\ stream = None
    /\ names = <<>>
    /\ Answer([kind |-> "end", id |-> None])
    /\ Finish
    /\ UNCHANGED <<conversion, export, names, seen>>

NextRecord ==
    /\ at = "reading" /\ stream # None /\ unread # <<>>
    /\ unread' = Tail(unread)
    /\ Begin(Head(unread))
    /\ at' = "converting"
    /\ UNCHANGED <<export, opened, names, stream, done, seen, answers>>

\* Mutant: the scanner of a file that has ended is kept.
FileEndsKept ==
    /\ at = "reading" /\ stream # None /\ unread = <<>>
    /\ stream.ending = "complete"
    /\ UNCHANGED <<conversion, export, at, opened, names, stream, unread, done, seen, answers>>

\* The scanner is exhausted: _close_stream, and on to the next file.
FileEnds ==
    /\ at = "reading" /\ stream # None /\ unread = <<>>
    /\ stream.ending = "complete"
    /\ stream' = None
    /\ UNCHANGED <<conversion, export, at, opened, names, unread, done, seen, answers>>

\* The text cannot be scanned on, or not read on.
ScanFails ==
    /\ at = "reading" /\ stream # None /\ unread = <<>>
    /\ stream.ending # "complete"
    /\ Answer([kind |-> stream.ending, id |-> None])
    /\ Finish
    /\ UNCHANGED <<conversion, export, names, seen>>

-----------------------------------------------------------------------------
(* _convert: what becomes of a record. *)

Converted(final) == at = "converting" /\ stage = final

Refused ==
    /\ Converted("refused")
    /\ Answer([kind |-> "refused", id |-> record.id])
    /\ Return
    /\ UNCHANGED <<export, opened, names, stream, unread, done, seen>>

\* What _convert does not catch reaches the caller as it is.
Escaped ==
    /\ Converted("escaped")
    /\ Answer([kind |-> "escaped", id |-> record.id])
    /\ Return
    /\ UNCHANGED <<export, opened, names, stream, unread, done, seen>>

Duplicate ==
    /\ Converted("parsed") /\ record.id \in seen
    /\ Answer([kind |-> "refused", id |-> record.id])
    /\ Return
    /\ UNCHANGED <<export, opened, names, stream, unread, done, seen>>

Yield ==
    /\ Converted("parsed") /\ record.id \notin seen
    /\ seen' = seen \cup {record.id}
    /\ Answer([kind |-> "conversation", id |-> record.id])
    /\ Return
    /\ UNCHANGED <<export, opened, names, stream, unread, done>>

\* Mutant: closing only marks the reader as finished.
CloseQuietly ==
    /\ at = "idle" /\ ~done
    /\ done' = TRUE
    /\ UNCHANGED <<conversion, export, at, opened, names, stream, unread, seen, answers>>

\* close() or __del__ between two calls.
Close ==
    /\ at = "idle" /\ ~done
    /\ Finish
    /\ UNCHANGED <<conversion, export, at, names, seen, answers>>

\* The steps of parse_record; nothing of the reader changes in them.
Convert ==
    \/ CheckRefuses \/ CheckLinks \/ Walk \/ WalkRefuses \/ Walked \/ Descend \/ Climb
    \/ \E reason \in {"structural", "hidden", "reasoning"} : Omit(reason)
    \/ ReadRefuses \/ ReadEscapes \/ ReadTurn \/ ReadAll
    \/ Fold \/ Keep \/ FoldedAll \/ TimesRefuse \/ Parsed

\* The code's own steps, from one question to its answer.
Step ==
    \/ Unreachable \/ NoExport \/ OpenExport
    \/ OpenFile \/ OpenFails \/ NoMoreFiles \/ NextRecord \/ FileEnds \/ ScanFails
    \/ Convert /\ UNCHANGED reader
    \/ Refused \/ Escaped \/ Duplicate \/ Yield

Next == Ask \/ AskedAfterEnd \/ Close \/ Step

\* A call is sequential code over a file; that the caller asks or closes is not owed.
Spec == ReaderInit /\ [][Next]_vars /\ WF_vars(Step)

-----------------------------------------------------------------------------
(* What the export holds, and the properties. *)

Finals == {"unavailable", "unscannable", "end"}

\* The answers due for a file: one for each record, and one if it cannot be read on.
Due(file) ==
    IF file.opens # "yes" THEN <<[kind |-> file.opens, id |-> None]>>
    ELSE [k \in DOMAIN file.records |->
              [kind |-> Verdict(file.records[k]), id |-> file.records[k].id]]
            \o IF file.ending = "complete" THEN <<>>
               ELSE <<[kind |-> file.ending, id |-> None]>>

\* All answers of the files by number, ended by the first that leaves nothing to
\* find.  Of the readable records of one identifier the first is a conversation.
Expected ==
    LET order == CHOOSE o \in Arrangements(Files) : InOrder(Files, o)
        all == FlattenSeq([k \in DOMAIN order |-> Due(order[k])])
                   \o <<[kind |-> "end", id |-> None]>>
        ends == {k \in DOMAIN all : all[k].kind \in Finals}
        again(k) == \E j \in 1 .. k - 1 : all[j] = all[k]
    IN  [k \in {n \in DOMAIN all : \A m \in ends : n <= m} |->
            IF all[k].kind = "conversation" /\ again(k) THEN [all[k] EXCEPT !.kind = "refused"]
            ELSE all[k]]

\* Every record of the export has one answer, at its place: the conversation the
\* record defines, or the refusal of that record alone, also when records before it
\* were refused, files before it have ended or its identifier was seen (source.py:
\* CS-5; export.py: split files by number).  After the first answer that ends the
\* export there is no other.
AnswersInOrder ==
    at = "idle" /\ answers # <<>> =>
        IF export.form = "unreachable" THEN answers = <<[kind |-> "unavailable", id |-> None]>>
        ELSE IF export.form = "unreadable" \/ (export.single = None) = (export.parts = {})
        THEN answers = <<[kind |-> "unscannable", id |-> None]>>
        ELSE IsPrefix(answers, Expected)

\* However a reading ends, by its last answer, by a failure at any depth or because
\* the caller has had enough, no file of the export is left open: on Windows an
\* open export could not be replaced by the next one (source.py: __del__).
NothingLeftOpen == done => stream = None /\ opened # "open"

\* Every question is answered, whatever the graph of a record looks like: neither
\* the walks over it nor the loop over files goes on for ever.
AskIsAnswered == (at # "idle") ~> (at = "idle")

\* Whatever a message carries, it becomes text, a marker or an omission, or its
\* record is refused (content.py); no exception but the boundary's own reaches the
\* caller (CS-7).
OutcomeForEveryMessage == \A k \in DOMAIN answers : answers[k].kind # "escaped"

=============================================================================
