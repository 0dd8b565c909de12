------------------------------ MODULE Pipeline ------------------------------
(***************************************************************************)
(* The ingestion pipeline (engineering_memory/ingestion/pipeline.py): one  *)
(* importer process that reads conversations from a source and takes each  *)
(* one through hash, state read, skip decision, sanitize/classify/enrich,  *)
(* archive, retain and state write.  The process may die between any two   *)
(* of those steps; what survives is the raw archive, the memory engine and *)
(* the import state.  Runs repeat for ever: an operator imports fresh      *)
(* exports, or replays the archive.                                        *)
(*                                                                         *)
(* The content of a conversation is abstracted to a version number: two    *)
(* readings have the same content hash exactly when the version is equal.  *)
(* The sequence `answers` is a history of what the source answered in this *)
(* run; the code keeps only the outcomes made from it.                     *)
(***************************************************************************)
EXTENDS Integers, Sequences

CONSTANTS
    Ids,         \* native conversation identities of one source
    MaxVersion,  \* how many different contents a conversation takes on
    Faults,      \* the kinds of fault the environment may exhibit
    MaxFaults,   \* bound on the number of faults in a behaviour
    None         \* no identity, no record, no error

FaultKinds ==
    {"malformed", "duplicate", "truncated", "unavailable", \* of a source
     "unhashable", \* a record on which the export's reader raises TypeError
     "step",      \* a call of the pipeline to a boundary raises
     "crash",     \* the process is killed or interrupted
     "corrupt",   \* an archived record is damaged on disk
     "reverts",   \* an export holds an older content than an earlier one
     "reorder"}   \* the engine completes an older retention after a newer

Versions == 1 .. MaxVersion
Absent == 0
Corrupt == -1

\* report.py: the fixed failure vocabulary, in processing order.
Stage == {"source", "hash", "state_read", "sanitize", "classify", "enrich",
          "archive", "retain", "state_write"}

\* The stages at which a content hash is known, so that the failure is recorded.
RecordedStage == Stage \ {"source", "hash"}

\* A record of the import state: imported carries no error, failed names its
\* stage, and a skip is never stored.
Imported(c) == [status |-> "imported", hash |-> c, error |-> None]
Failed(c, stage) == [status |-> "failed", hash |-> c, error |-> stage]

ImportRecord ==
    {Imported(c) : c \in Versions}
        \cup {Failed(c, s) : c \in Versions, s \in RecordedStage}

ConversationOutcome ==
    [id : Ids \cup {None}, status : {"imported", "skipped", "failed"},
     error : Stage \cup {None}, unrecorded : BOOLEAN]

Answer ==
    [kind : {"conversation", "malformed", "truncated", "escaped", "unavailable", "corrupt"},
     id : Ids \cup {None}, content : Versions \cup {Absent}]

Item == [id : Ids, content : Versions]

ASSUME PipelineAssumption ==
    /\ MaxVersion \in Nat \ {0}
    /\ MaxFaults \in Nat
    /\ Faults \subseteq FaultKinds
    /\ None \notin Ids
    /\ None \notin Stage
    /\ None \notin Item
    /\ None \notin ImportRecord

VARIABLES
    \* What survives the process.
    archive,   \* raw archive: identity -> archived version
    memory,    \* engine: identity -> version whose extraction completed last
    limbo,     \* engine: identity -> versions sent whose fate nobody learned
    records,   \* import state: identity -> ImportRecord
    newest,    \* identity -> newest version any export has shown
    budget,    \* faults left
    \* One run of the process.
    pc,        \* where run() and _process() stand
    origin,    \* "export" or "replay": which source this run reads
    force,     \* run(force=...)
    todo,      \* identities the source has still to yield
    ended,     \* the reader is finished: next() raises StopIteration
    answers,   \* what next() answered, in order
    item,      \* the conversation in _process
    error,     \* the stage at which _process failed
    outcomes,  \* the outcomes so far
    terminal   \* terminal_error of the report

store == <<archive, memory, limbo, records>>
world == <<newest>>
reader == <<origin, force, todo, ended, answers>>
vars == <<archive, memory, limbo, records, newest, budget, pc, origin, force,
          todo, ended, answers, item, error, outcomes, terminal>>

Fault(kind) ==
    /\ kind \in Faults
    /\ budget > 0
    /\ budget' = budget - 1

-----------------------------------------------------------------------------
(* The start of a run. *)

Init ==
    /\ archive = [i \in Ids |-> Absent]
    /\ memory = [i \in Ids |-> Absent]
    /\ limbo = [i \in Ids |-> {}]
    /\ records = [i \in Ids |-> None]
    /\ newest = [i \in Ids |-> Absent]
    /\ budget = MaxFaults
    /\ pc = "idle"
    /\ origin = "export"
    /\ force = FALSE
    /\ todo = {}
    /\ ended = TRUE
    /\ answers = <<>>
    /\ item = None
    /\ error = None
    /\ outcomes = <<>>
    /\ terminal = None

\* ChatGPTExportSource(path).read(): an export holds any set of conversations.
BeginExport(ids) ==
    /\ pc = "idle"
    /\ pc' = "reading"
    /\ origin' = "export"
    /\ force' \in BOOLEAN
    /\ todo' = ids
    /\ ended' = FALSE
    /\ UNCHANGED <<store, world, budget, answers, item, error, outcomes, terminal>>

\* ChatGPTArchiveSource(archive).read(): every archived record is listed.
BeginReplay ==
    /\ pc = "idle"
    /\ pc' = "reading"
    /\ origin' = "replay"
    /\ force' \in BOOLEAN
    /\ todo' = {i \in Ids : archive[i] # Absent}
    /\ ended' = FALSE
    /\ UNCHANGED <<store, world, budget, answers, item, error, outcomes, terminal>>

-----------------------------------------------------------------------------
(* What next(reader) answers. *)

Answered(kind, id, content) ==
    answers' = Append(answers, [kind |-> kind, id |-> id, content |-> content])

\* The contents the source may yield for identity i: an export holds the
\* conversation as it is now, a replay the content that was archived.
Readable(i) ==
    IF origin = "replay"
    THEN {archive[i]} \cap Versions
    ELSE {c \in Versions : c >= newest[i] \/ "reverts" \in Faults}

Latest(c, d) == IF c > d THEN c ELSE d

ReadConversation(i, c) ==
    /\ pc = "reading" /\ ~ended
    /\ i \in todo
    /\ c \in Readable(i)
    /\ todo' = todo \ {i}
    /\ newest' = [newest EXCEPT ![i] = Latest(c, @)]
    /\ item' = [id |-> i, content |-> c]
    /\ Answered("conversation", i, c)
    /\ pc' = "looking"
    /\ UNCHANGED <<store, budget, origin, force, ended, error, outcomes, terminal>>

\* A failed outcome for something the source could not read; the loop goes on.
SourceFailed(id) ==
    outcomes' = Append(outcomes, [id |-> id, status |-> "failed",
                                  error |-> "source", unrecorded |-> FALSE])

\* Mutant: the failure is swallowed without an outcome.
MalformedUnreported(i, subject) ==
    /\ pc = "reading" /\ ~ended
    /\ i \in todo
    /\ subject \in {i, None}
    /\ Fault("malformed")
    /\ todo' = todo \ {i}
    /\ Answered("malformed", subject, Absent)
    /\ UNCHANGED <<store, world, pc, origin, force, ended, item, error, outcomes, terminal>>

\* Mutant: the source is a generator, which the exception closes (CS-5).
MalformedCloses(i, subject) ==
    /\ pc = "reading" /\ ~ended
    /\ i \in todo
    /\ subject \in {i, None}
    /\ Fault("malformed")
    /\ todo' = todo \ {i}
    /\ ended' = TRUE
    /\ Answered("malformed", subject, Absent)
    /\ SourceFailed(subject)
    /\ UNCHANGED <<store, world, pc, origin, force, item, error, terminal>>

\* SourceFormatError for one conversation, with or without a usable subject; a
\* replay always knows the identity it asked the archive for (and tells it in the
\* form of the document, which is one with the native identity here).
ReadMalformed(i, subject) ==
    /\ pc = "reading" /\ ~ended
    /\ i \in todo
    /\ origin = "replay" => archive[i] # Corrupt /\ subject = i
    /\ subject \in {i, None}
    /\ Fault("malformed")
    /\ todo' = todo \ {i}
    /\ Answered("malformed", subject, Absent)
    /\ SourceFailed(subject)
    /\ UNCHANGED <<store, world, pc, origin, force, ended, item, error, terminal>>

\* An export that holds an identity twice: _seen refuses the second one.
ReadDuplicate(i) ==
    /\ pc = "reading" /\ ~ended
    /\ origin = "export"
    /\ \E k \in 1 .. Len(answers) :
          answers[k].kind = "conversation" /\ answers[k].id = i
    /\ Fault("duplicate")
    /\ Answered("malformed", i, Absent)
    /\ SourceFailed(i)
    /\ UNCHANGED <<store, world, pc, origin, force, todo, ended, item, error, terminal>>

\* The scanner cannot go on (a cut-off export, or one that is no export): the
\* reader raises SourceFormatError once and is finished.
ReadTruncated ==
    /\ pc = "reading" /\ ~ended
    /\ origin = "export"
    /\ Fault("truncated")
    /\ ended' = TRUE
    /\ Answered("truncated", None, Absent)
    /\ SourceFailed(None)
    /\ UNCHANGED <<store, world, pc, origin, force, todo, item, error, terminal>>

\* One record of an export whose role or type is a JSON list or object: the look-up
\* raises TypeError, which the reader takes for no refusal, and the run returns at
\* once. The archive source takes it for one (ReadMalformed).
ReadEscapes(i) ==
    /\ pc = "reading" /\ ~ended
    /\ origin = "export"
    /\ i \in todo
    /\ Fault("unhashable")
    /\ todo' = todo \ {i}
    /\ Answered("escaped", i, Absent)
    /\ terminal' = "source"
    /\ pc' = "reported"
    /\ UNCHANGED <<store, world, origin, force, ended, item, error, outcomes>>

\* The source is out of reach: source.read() or next() raises what is about no
\* record, and the run returns at once.
ReadUnavailable ==
    /\ pc = "reading" /\ ~ended
    /\ Fault("unavailable")
    /\ Answered("unavailable", None, Absent)
    /\ terminal' = "source"
    /\ pc' = "reported"
    /\ UNCHANGED <<store, world, origin, force, todo, ended, item, error, outcomes>>

\* A damaged archive record raises ArchiveRejected from the listing, which is
\* no SourceFormatError either.
ReadCorrupt(i) ==
    /\ pc = "reading" /\ ~ended
    /\ origin = "replay"
    /\ i \in todo
    /\ archive[i] = Corrupt
    /\ todo' = todo \ {i}
    /\ Answered("corrupt", i, Absent)
    /\ terminal' = "source"
    /\ pc' = "reported"
    /\ UNCHANGED <<store, world, budget, origin, force, ended, item, error, outcomes>>

\* StopIteration.
ReadEnd ==
    /\ pc = "reading"
    /\ todo = {} \/ ended
    /\ pc' = "reported"
    /\ UNCHANGED <<store, world, budget, reader, item, error, outcomes, terminal>>

Read ==
    \/ \E i \in Ids, c \in Versions : ReadConversation(i, c)
    \/ \E i \in Ids, subject \in Ids \cup {None} : ReadMalformed(i, subject)
    \/ \E i \in Ids : ReadDuplicate(i)
    \/ ReadTruncated
    \/ \E i \in Ids : ReadEscapes(i)
    \/ ReadUnavailable
    \/ \E i \in Ids : ReadCorrupt(i)
    \/ ReadEnd

-----------------------------------------------------------------------------
(* _process: what becomes of the conversation that was read. *)

\* Append the outcome of the item and go back to the reader.
Finish(status, stage, unrecorded) ==
    /\ outcomes' = Append(outcomes, [id |-> item.id, status |-> status,
                                     error |-> stage, unrecorded |-> unrecorded])
    /\ item' = None
    /\ error' = None
    /\ pc' = "reading"

\* An exception of _process with the content hash known: next, the failure is
\* recorded.
Fail(stage) ==
    /\ error' = stage
    /\ pc' = "failing"
    /\ UNCHANGED <<item, outcomes>>

\* Mutant: the status is not looked at, so a recorded failure is skipped too.
MaySkipAnyStatus(record, hash) ==
    /\ ~force
    /\ record # None
    /\ record.hash = hash

\* state.py, may_skip: an imported record with an unchanged hash.
MaySkip(record, hash) ==
    /\ ~force
    /\ record # None
    /\ record.status = "imported"
    /\ record.hash = hash

\* Without a content hash there is nothing to record the failure under.
HashFails ==
    /\ pc = "looking"
    /\ Fault("step")
    /\ Finish("failed", "hash", FALSE)
    /\ UNCHANGED <<store, world, reader, terminal>>

FindFails ==
    /\ pc = "looking"
    /\ Fault("step")
    /\ Fail("state_read")
    /\ UNCHANGED <<store, world, reader, terminal>>

Skip ==
    /\ pc = "looking"
    /\ MaySkip(records[item.id], item.content)
    /\ Finish("skipped", None, FALSE)
    /\ UNCHANGED <<store, world, budget, reader, terminal>>

\* Sanitize, classify and enrich touch nothing that outlives the step.
Prepare ==
    /\ pc = "looking"
    /\ ~MaySkip(records[item.id], item.content)
    /\ pc' = "archiving"
    /\ UNCHANGED <<store, world, budget, reader, item, error, outcomes, terminal>>

PrepareFails(stage) ==
    /\ pc = "looking"
    /\ ~MaySkip(records[item.id], item.content)
    /\ Fault("step")
    /\ Fail(stage)
    /\ UNCHANGED <<store, world, reader, terminal>>

Archive ==
    /\ pc = "archiving"
    /\ archive' = [archive EXCEPT ![item.id] = item.content]
    /\ pc' = "retaining"
    /\ UNCHANGED <<memory, limbo, records, world, budget, reader, item, error,
                   outcomes, terminal>>

\* Mutant: a failed archive does not stop the conversation.
ArchiveFailureIgnored ==
    /\ pc = "archiving"
    /\ Fault("step")
    /\ pc' = "retaining"
    /\ UNCHANGED <<store, world, reader, item, error, outcomes, terminal>>

\* store() raises: before the record is published, or after it, when only the
\* directory could not be synchronized.
ArchiveFails ==
    /\ pc = "archiving"
    /\ Fault("step")
    /\ \/ UNCHANGED archive
       \/ archive' = [archive EXCEPT ![item.id] = item.content]
    /\ Fail("archive")
    /\ UNCHANGED <<memory, limbo, records, world, reader, terminal>>

\* retain() returns: the engine has extracted this content.  An engine that
\* works through a document's operations in order has none left before it.
Retain ==
    /\ pc = "retaining"
    /\ memory' = [memory EXCEPT ![item.id] = item.content]
    /\ limbo' = IF "reorder" \in Faults
                THEN limbo
                ELSE [limbo EXCEPT ![item.id] = {}]
    /\ pc' = "recording"
    /\ UNCHANGED <<archive, records, world, budget, reader, item, error, outcomes,
                   terminal>>

\* Mutant: a submission is taken for a retention.
RetainFailureIgnored ==
    /\ pc = "retaining"
    /\ Fault("step")
    /\ limbo' = [limbo EXCEPT ![item.id] = @ \cup {item.content}]
    /\ pc' = "recording"
    /\ UNCHANGED <<archive, memory, records, world, reader, item, error, outcomes,
                   terminal>>

\* retain() raises: the engine refused, or never heard of it, or (a lost answer,
\* a deadline) may still complete it.
RetainFails ==
    /\ pc = "retaining"
    /\ Fault("step")
    /\ \/ UNCHANGED limbo
       \/ limbo' = [limbo EXCEPT ![item.id] = @ \cup {item.content}]
    /\ Fail("retain")
    /\ UNCHANGED <<archive, memory, records, world, reader, terminal>>

Record ==
    /\ pc = "recording"
    /\ records' = [records EXCEPT ![item.id] = Imported(item.content)]
    /\ Finish("imported", None, FALSE)
    /\ UNCHANGED <<archive, memory, limbo, world, budget, reader, terminal>>

RecordFails ==
    /\ pc = "recording"
    /\ Fault("step")
    /\ Fail("state_write")
    /\ UNCHANGED <<store, world, reader, terminal>>

RecordFailure ==
    /\ pc = "failing"
    /\ records' = [records EXCEPT ![item.id] = Failed(item.content, error)]
    /\ Finish("failed", error, FALSE)
    /\ UNCHANGED <<archive, memory, limbo, world, budget, reader, terminal>>

\* Mutant: the outcome does not say that recording failed.
SecondaryFailureHidden ==
    /\ pc = "failing"
    /\ "step" \in Faults
    /\ Finish("failed", error, FALSE)
    /\ UNCHANGED <<store, world, budget, reader, terminal>>

\* The secondary failure is swallowed and shows in the outcome only. It is counted
\* with the failure it follows.
RecordFailureFails ==
    /\ pc = "failing"
    /\ "step" \in Faults
    /\ Finish("failed", error, TRUE)
    /\ UNCHANGED <<store, world, budget, reader, terminal>>

Process ==
    \/ HashFails
    \/ FindFails
    \/ Skip
    \/ Prepare
    \/ \E stage \in {"sanitize", "classify", "enrich"} : PrepareFails(stage)
    \/ Archive
    \/ ArchiveFails
    \/ Retain
    \/ RetainFails
    \/ Record
    \/ RecordFails
    \/ RecordFailure
    \/ RecordFailureFails

-----------------------------------------------------------------------------
(* The end of the process, and what goes on without it. *)

\* Everything the process kept in memory is gone.
Forget ==
    /\ pc' = "idle"
    /\ origin' = "export"
    /\ force' = FALSE
    /\ todo' = {}
    /\ ended' = TRUE
    /\ answers' = <<>>
    /\ item' = None
    /\ error' = None
    /\ outcomes' = <<>>
    /\ terminal' = None

\* The report was printed and the process exits.
Exit ==
    /\ pc = "reported"
    /\ Forget
    /\ UNCHANGED <<store, world, budget>>

\* A kill, a power cut or Ctrl-C (which _process does not catch).  A retention
\* under way is left to the engine.
Crash ==
    /\ pc \notin {"idle", "reported"}
    /\ Fault("crash")
    /\ \/ UNCHANGED limbo
       \/ /\ pc = "retaining"
          /\ limbo' = [limbo EXCEPT ![item.id] = @ \cup {item.content}]
    /\ Forget
    /\ UNCHANGED <<archive, memory, records, world>>

\* The engine completes a retention nobody waits for any more, or drops it.
LateRetention(i, c) ==
    /\ c \in limbo[i]
    /\ limbo' = [limbo EXCEPT ![i] = @ \ {c}]
    /\ \/ memory' = [memory EXCEPT ![i] = c]
       \/ UNCHANGED memory
    /\ UNCHANGED <<archive, records, world, budget, pc, reader, item, error,
                   outcomes, terminal>>

CorruptRecord(i) ==
    /\ pc = "idle"
    /\ archive[i] \in Versions
    /\ Fault("corrupt")
    /\ archive' = [archive EXCEPT ![i] = Corrupt]
    /\ UNCHANGED <<memory, limbo, records, world, pc, reader, item, error, outcomes,
                   terminal>>

Step == Read \/ Process \/ Exit

Next ==
    \/ Step
    \/ \E ids \in SUBSET Ids : BeginExport(ids)
    \/ BeginReplay
    \/ Crash
    \/ \E i \in Ids, c \in Versions : LateRetention(i, c)
    \/ \E i \in Ids : CorruptRecord(i)

\* run() is sequential code over calls that each have a deadline, so it keeps
\* going.  Whether anybody starts another run is up to the operator.
Spec == Init /\ [][Next]_vars /\ WF_vars(Step)

\* ADR-006: the operator imports a full fresh export again and again.
Refresh == BeginExport(Ids)
RefreshedSpec == Spec /\ SF_vars(Refresh)

-----------------------------------------------------------------------------
(* Properties. *)

TypeOK ==
    /\ archive \in [Ids -> Versions \cup {Absent, Corrupt}]
    /\ memory \in [Ids -> Versions \cup {Absent}]
    /\ limbo \in [Ids -> SUBSET Versions]
    /\ records \in [Ids -> ImportRecord \cup {None}]
    /\ newest \in [Ids -> Versions \cup {Absent}]
    /\ budget \in 0 .. MaxFaults
    /\ pc \in {"idle", "reading", "looking", "archiving", "retaining",
               "recording", "failing", "reported"}
    /\ origin \in {"export", "replay"}
    /\ force \in BOOLEAN
    /\ todo \in SUBSET Ids
    /\ ended \in BOOLEAN
    /\ answers \in Seq(Answer)
    /\ item \in Item \cup {None}
    /\ (item # None) <=> pc \in {"looking", "archiving", "retaining", "recording",
                                 "failing"}
    /\ error \in RecordedStage \cup {None}
    /\ (error # None) <=> pc = "failing"
    /\ outcomes \in Seq(ConversationOutcome)
    /\ terminal \in {"source", None}

\* A conversation reported as imported or skipped is in memory with the content
\* that was read in this run, whatever happened in earlier runs: crashes
\* between retain and state write, failed records, retentions that landed late.
ReportedIsRetained ==
    \A k \in 1 .. Len(outcomes) :
        outcomes[k].status \in {"imported", "skipped"} =>
            memory[answers[k].id] = answers[k].content

Held(i) == ({memory[i]} \cup limbo[i]) \ {Absent}

\* Nothing reaches the engine that the archive does not hold at that moment, by
\* any route (retain, an abandoned retain, a crash): FR-003, "Archive failure
\* MUST prevent retention".
ArchivedBeforeRetained ==
    [][\A i \in Ids : Held(i)' \subseteq Held(i) \cup {archive[i]}]_vars

\* A record becomes imported only for the content that both the archive and the
\* memory hold as it is written (FR-006).
RecordsAreEarned ==
    [][\A i \in Ids, c \in Versions :
          (records[i]' = Imported(c) /\ records[i] # Imported(c)) =>
              archive[i] = c /\ memory[i] = c]_vars

\* What the run reports of a conversation is what the next run will find in the
\* import state, unless the outcome says that recording failed.  An identity
\* the export held twice keeps the record of its first reading.
ReportMatchesState ==
    \A k \in 1 .. Len(outcomes) :
        answers[k].kind = "conversation" =>
            LET record == records[answers[k].id] IN
            /\ outcomes[k].status # "failed" => record = Imported(answers[k].content)
            /\ (/\ outcomes[k].status = "failed"
                /\ outcomes[k].error # "hash"
                /\ ~outcomes[k].unrecorded)
               => record = Failed(answers[k].content, outcomes[k].error)

\* One outcome for each answer of the source, in source order and under the
\* identity that was read; only the conversation in hand and the error that ends
\* the run have none (FR-005).
OutcomesFollowSource ==
    /\ Len(answers) = Len(outcomes) + (IF item # None \/ terminal # None THEN 1 ELSE 0)
    /\ \A k \in 1 .. Len(outcomes) :
          /\ outcomes[k].id = answers[k].id
          /\ outcomes[k].error = "source" <=> answers[k].kind # "conversation"

\* No conversation is missing from a report in silence: what the source listed and the
\* run did not come to is behind the ending that the report shows last, a terminal
\* error or the refusal of the text (FR-007). It does not say that individual failures
\* never end a run: of a replay a damaged record does, and of an export, against
\* FR-007, one record on which the reader raises what it takes for no refusal.
MissingIsTold ==
    pc = "reported" /\ todo # {} =>
        \/ terminal = "source"
        \/ /\ outcomes # <<>>
           /\ answers[Len(answers)].kind = "truncated"
           /\ outcomes[Len(outcomes)] =
                 [id |-> None, status |-> "failed", error |-> "source", unrecorded |-> FALSE]

\* Once faults cease and the operator keeps importing fresh exports, memory comes
\* to hold the newest content of every conversation and keeps it: no failure of
\* the past is forgotten.
Converges == <>[](\A i \in Ids : memory[i] = newest[i])
=============================================================================
