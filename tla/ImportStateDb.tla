---------------------------- MODULE ImportStateDb ----------------------------
(* ingestion/sqlite_state.py under several processes: importers (cli/runtime.py   *)
(* run_import) that initialize, find and record, and status commands (run_status) *)
(* that validate and list. SQLite is external: pages written under a rollback     *)
(* journal, and the locks shared, reserved, pending, exclusive. The adapter opens *)
(* a connection for each operation; its transaction reads before it writes.       *)
EXTENDS Integers, FiniteSets, Sequences

CONSTANTS
    Importers, Readers,     \* processes
    Ids,
    Orders,                 \* the orders in which a command comes by them
    None,
    MaxStarts,              \* processes started
    MaxFaults,              \* crashes and interrupts
    Foreign,                \* what the table is to a reader when the file is someone else's
    Foreigns                \* whether the file may be someone else's at first

Processes == Importers \cup Readers

\* What is in the file, and what a transaction may have read of it.
Rows == [Ids -> {None, "imported", "failed"}]
Written == [schema : {"none", "ours", "foreign", "torn"}, rows : Rows]
Sound == [schema : {"none", "ours", "foreign"}, rows : Rows]

\* A command comes by every identity; None and Foreign are no values of the table.
ASSUME ImportStateDbAssumption ==
    /\ \A o \in Orders : o \in Seq(Ids) /\ o # <<>> /\ \A id \in Ids : \E k \in 1 .. Len(o) : o[k] = id
    /\ None \notin Written /\ None \notin {"imported", "failed", "lost", "corrupt"}
    /\ Foreign # None /\ Foreign \notin Rows /\ None \notin Rows
    /\ MaxStarts \in Nat /\ MaxFaults \in Nat

VARIABLES
    disk,       \* None, or the pages in the file: [schema, rows]
    journal,    \* None, or the pages a rollback brings back
    lock,       \* the lock of each process's connection
    pc,
    view,       \* what the open transaction has read
    todo,       \* the conversations an importer has before it
    status,     \* what it is about to record of the first, or failed twice
    seen,       \* the rows a status command has read
    result,     \* of the command that ended last: [code, error], or None
    starts, faults

vars == <<disk, journal, lock, pc, view, todo, status, seen, result, starts, faults>>
files == <<disk, journal>>
budget == <<starts, faults>>

Empty == [schema |-> "none", rows |-> [id \in Ids |-> None]]
Other == [schema |-> "foreign", rows |-> [id \in Ids |-> None]]

\* What a reader gets: a rollback brings back the journal.
Visible == IF journal # None THEN journal ELSE disk

Init ==
    /\ disk \in {None} \cup (IF Foreigns THEN {Other} ELSE {}) /\ journal = None
    /\ lock = [p \in Processes |-> "none"]
    /\ pc = [p \in Processes |-> "idle"]
    /\ view = [p \in Processes |-> None]
    /\ todo = [p \in Processes |-> <<>>]
    /\ status = [p \in Processes |-> None]
    /\ seen = [p \in Processes |-> <<>>]
    /\ result = [p \in Processes |-> None]
    /\ starts = 0 /\ faults = 0

Goto(p, label) == pc' = [pc EXCEPT ![p] = label]
Lock(p, kind) == lock' = [lock EXCEPT ![p] = kind]

Others(p) == {lock[q] : q \in Processes \ {p}}

\* The journal of a writer that is no more.
Hot == journal # None /\ "exclusive" \notin {lock[q] : q \in Processes}

\* _execute: the command ends with its code; its connection is closed.
Exit(p, code, error) ==
    /\ result' = [result EXCEPT ![p] = [code |-> code, error |-> error]]
    /\ Goto(p, "idle") /\ Lock(p, "none")
    /\ view' = [view EXCEPT ![p] = None]
    /\ todo' = [todo EXCEPT ![p] = <<>>] /\ status' = [status EXCEPT ![p] = None]

Start(p) ==
    /\ pc[p] = "idle" /\ starts < MaxStarts
    /\ starts' = starts + 1
    /\ result' = [result EXCEPT ![p] = None]
    /\ seen' = [seen EXCEPT ![p] = <<>>]
    /\ Goto(p, IF p \in Importers THEN "exists" ELSE "look")
    /\ \E order \in Orders : todo' = [todo EXCEPT ![p] = order]
    /\ UNCHANGED <<files, lock, view, status, faults>>

----------------------------------------------------------------------------
(* initialize *)

\* Mutant: a file that exists is validated, not inspected.
ExistsSoFilled(p) ==
    /\ pc[p] = "exists"
    /\ Goto(p, IF disk = None THEN "touch" ELSE "validate")
    /\ UNCHANGED <<files, lock, view, todo, status, seen, result, budget>>

Exists(p) ==
    /\ pc[p] = "exists"
    /\ Goto(p, IF disk = None THEN "touch" ELSE "open")
    /\ UNCHANGED <<files, lock, view, todo, status, seen, result, budget>>

\* touch(exist_ok=False): another importer may have been first.
Touch(p) ==
    /\ pc[p] = "touch"
    /\ IF disk = None
       THEN /\ disk' = Empty /\ Goto(p, "open")
            /\ UNCHANGED <<lock, view, todo, status, result>>
       ELSE Exit(p, 1, "unavailable") /\ UNCHANGED disk
    /\ UNCHANGED <<journal, seen, budget>>

Opening == {"open", "find", "select", "validate", "list"}

\* A connection reads for the first time.
Holding(p, kind) ==
    /\ pc[p] \in Opening
    /\ Lock(p, kind)
    /\ view' = [view EXCEPT ![p] = disk]
    /\ Goto(p, CASE pc[p] = "open" -> "inspect" [] pc[p] = "find" -> "found" [] pc[p] = "select" -> "write"
                 [] pc[p] = "validate" -> "validated" [] pc[p] = "list" -> "listing")
    /\ UNCHANGED <<files, todo, status, seen, result, budget>>

Readable(p) == Others(p) \cap {"pending", "exclusive"} = {} /\ ~Hot

\* Mutant: the selection of a record runs on a connection of its own.
ReadAndLetGo(p) == Readable(p) /\ Holding(p, IF pc[p] = "select" THEN "none" ELSE "shared")

\* Mutant: status opens the file as one that nobody changes (immutable=1).
ReadImmutable(p) == IF p \in Readers THEN Holding(p, "none") ELSE Readable(p) /\ Holding(p, "shared")

\* It takes a shared lock and with it a state of the file that no commit changes
\* until it is given back.
Read(p) == Readable(p) /\ Holding(p, "shared")

\* Mutant: only the start of an import repairs.
RecoverAtFirst(p) ==
    /\ pc[p] = "open" /\ p \in Importers
    /\ Hot /\ Others(p) \subseteq {"none"}
    /\ disk' = journal /\ journal' = None
    /\ UNCHANGED <<lock, pc, view, todo, status, seen, result, budget>>

\* The first reader that may write rolls a hot journal back.
Recover(p) ==
    /\ pc[p] \in Opening /\ p \in Importers
    /\ Hot /\ Others(p) \subseteq {"none"}
    /\ disk' = journal /\ journal' = None
    /\ UNCHANGED <<lock, pc, view, todo, status, seen, result, budget>>

\* An operation raises ImportStateUnavailable. initialize and status end with it;
\* the pipeline turns it into the outcome of one conversation, and tries once more
\* to record that one as failed.
Unavailable(p) ==
    IF pc[p] \in {"find", "select", "write", "commit"}
    THEN /\ IF pc[p] # "find" /\ status[p] = "failed"
            THEN Goto(p, "next") /\ status' = [status EXCEPT ![p] = "lost"]
            ELSE Goto(p, "select") /\ status' = [status EXCEPT ![p] = "failed"]
         /\ Lock(p, "none") /\ view' = [view EXCEPT ![p] = None]
         /\ UNCHANGED <<todo, result>>
    ELSE Exit(p, 1, "unavailable")

\* The wait for a lock ends after five seconds.
TimesOut(p) ==
    /\ \/ pc[p] \in Opening /\ Others(p) \cap {"pending", "exclusive"} # {}
       \/ pc[p] \in {"commit", "create commit"} /\ lock[p] = "pending" /\ ~(Others(p) \subseteq {"none"})
    /\ Unavailable(p)
    /\ UNCHANGED <<files, seen, budget>>

\* A connection that may not write cannot roll back a hot journal.
ReadOnly(p) ==
    /\ pc[p] \in Opening /\ p \in Readers /\ Hot
    /\ Unavailable(p)
    /\ UNCHANGED <<files, seen, budget>>

\* Storage without a table is created in the transaction that saw it empty.
Inspect(p) ==
    /\ pc[p] = "inspect"
    /\ CASE view[p].schema = "none" ->
              Goto(p, "create") /\ UNCHANGED <<lock, view, todo, status, result>>
         [] view[p].schema = "ours" ->
              /\ Goto(p, "run") /\ Lock(p, "none")
              /\ view' = [view EXCEPT ![p] = None]
              /\ UNCHANGED <<todo, status, result>>
         [] OTHER -> Exit(p, 1, "corrupt")
    /\ UNCHANGED <<files, seen, budget>>

----------------------------------------------------------------------------
(* A transaction that writes: create_all and the version, or one record *)

Writing == {"create", "write"}

Reserve(p) ==
    /\ pc[p] \in Writing
    /\ Others(p) \cap {"reserved", "pending", "exclusive"} = {}
    /\ Lock(p, "reserved")
    /\ Goto(p, IF pc[p] = "create" THEN "create commit" ELSE "commit")
    /\ UNCHANGED <<files, view, todo, status, seen, result, budget>>

\* Its lock is shared already, so a second writer is told at once.
Busy(p) ==
    /\ pc[p] \in Writing
    /\ Others(p) \cap {"reserved", "pending", "exclusive"} # {}
    /\ Unavailable(p)
    /\ UNCHANGED <<files, seen, budget>>

Commits == {"create commit", "commit"}

Pend(p) ==
    /\ pc[p] \in Commits /\ lock[p] = "reserved"
    /\ Lock(p, "pending")
    /\ UNCHANGED <<files, pc, view, todo, status, seen, result, budget>>

\* No reader is left: the journal is synced and the pages are written.
Exclude(p) ==
    /\ pc[p] \in Commits /\ lock[p] = "pending" /\ Others(p) \subseteq {"none"}
    /\ Lock(p, "exclusive")
    /\ journal' = disk
    /\ UNCHANGED <<disk, pc, view, todo, status, seen, result, budget>>

\* Mutant: the update has lost its key.
PagesOfEvery(p) ==
    IF pc[p] = "create commit" THEN [Empty EXCEPT !.schema = "ours"]
    ELSE [view[p] EXCEPT !.rows =
             [id \in Ids |-> IF id = Head(todo[p]) \/ @[id] # None THEN status[p] ELSE None]]

Pages(p) ==
    IF pc[p] = "create commit" THEN [Empty EXCEPT !.schema = "ours"]
    ELSE [view[p] EXCEPT !.rows[Head(todo[p])] = status[p]]

WritePart(p) ==
    /\ lock[p] = "exclusive" /\ disk.schema # "torn" /\ disk # Pages(p)
    /\ disk' = [disk EXCEPT !.schema = "torn"]
    /\ UNCHANGED <<journal, lock, pc, view, todo, status, seen, result, budget>>

WriteRest(p) ==
    /\ lock[p] = "exclusive" /\ disk.schema = "torn"
    /\ disk' = Pages(p)
    /\ UNCHANGED <<journal, lock, pc, view, todo, status, seen, result, budget>>

\* The journal is deleted: that is the commit.
Commit(p) ==
    /\ lock[p] = "exclusive" /\ disk = Pages(p)
    /\ journal' = None
    /\ Lock(p, "none")
    /\ Goto(p, IF pc[p] = "create commit" THEN "run" ELSE "next")
    /\ view' = [view EXCEPT ![p] = None]
    /\ UNCHANGED <<disk, todo, status, seen, result, budget>>

----------------------------------------------------------------------------
(* run: the pipeline finds and records, one conversation after the other *)

\* The memory and the archive may fail as well; the record says so.
Run(p) ==
    /\ pc[p] = "run"
    /\ Goto(p, "find")
    /\ \E s \in {"imported", "failed"} : status' = [status EXCEPT ![p] = s]
    /\ UNCHANGED <<files, lock, view, todo, seen, result, budget>>

\* may_skip: a record that says imported, of the same content and not forced.
Found(p) ==
    /\ pc[p] = "found"
    /\ \/ Goto(p, "select") /\ UNCHANGED status
       \/ /\ view[p].rows[Head(todo[p])] = "imported"
          /\ Goto(p, "next") /\ status' = [status EXCEPT ![p] = "imported"]
    /\ Lock(p, "none") /\ view' = [view EXCEPT ![p] = None]
    /\ UNCHANGED <<files, todo, seen, result, budget>>

\* Mutant: a failure that could not be recorded is not counted.
NextUnlessRecorded(p) ==
    /\ pc[p] = "next"
    /\ LET failed == status[p] = "failed" \/ seen[p] # <<>> IN
       IF Len(todo[p]) = 1
       THEN Exit(p, IF failed THEN 1 ELSE 0, None) /\ UNCHANGED seen
       ELSE /\ Goto(p, "run")
            /\ todo' = [todo EXCEPT ![p] = Tail(@)]
            /\ seen' = [seen EXCEPT ![p] = IF failed THEN <<"failed">> ELSE <<>>]
            /\ UNCHANGED <<lock, view, status, result>>
    /\ UNCHANGED <<files, budget>>

\* seen holds whether anything failed: the report's status decides the code.
NextConversation(p) ==
    /\ pc[p] = "next"
    /\ LET failed == status[p] # "imported" \/ seen[p] # <<>> IN
       IF Len(todo[p]) = 1
       THEN Exit(p, IF failed THEN 1 ELSE 0, None) /\ UNCHANGED seen
       ELSE /\ Goto(p, "run")
            /\ todo' = [todo EXCEPT ![p] = Tail(@)]
            /\ seen' = [seen EXCEPT ![p] = IF failed THEN <<"failed">> ELSE <<>>]
            /\ UNCHANGED <<lock, view, status, result>>
    /\ UNCHANGED <<files, budget>>

----------------------------------------------------------------------------
(* status *)

Look(p) ==
    /\ pc[p] = "look"
    /\ IF disk = None THEN Exit(p, 0, None)
       ELSE Goto(p, "validate") /\ UNCHANGED <<lock, view, todo, status, result>>
    /\ UNCHANGED <<files, seen, budget>>

Validated(p) ==
    /\ pc[p] = "validated"
    /\ IF view[p].schema = "ours"
       THEN /\ Goto(p, "list") /\ Lock(p, "none")
            /\ view' = [view EXCEPT ![p] = None]
            /\ UNCHANGED <<todo, status, result>>
       ELSE Exit(p, 1, "corrupt")
    /\ UNCHANGED <<files, seen, budget>>

\* Mutant: the rows are fetched page by page, each on a connection of its own.
ListInPages(p) ==
    /\ pc[p] = "listing" /\ todo[p] # <<>>
    /\ seen' = [seen EXCEPT ![p] = Append(@, <<Head(todo[p]), disk.rows[Head(todo[p])]>>)]
    /\ todo' = [todo EXCEPT ![p] = Tail(@)]
    /\ Lock(p, "none")
    /\ UNCHANGED <<files, pc, view, status, result, budget>>

\* One row after the other comes from the open connection.
List(p) ==
    /\ pc[p] = "listing" /\ todo[p] # <<>>
    /\ seen' = [seen EXCEPT ![p] = Append(@, <<Head(todo[p]), disk.rows[Head(todo[p])]>>)]
    /\ todo' = [todo EXCEPT ![p] = Tail(@)]
    /\ UNCHANGED <<files, lock, pc, view, status, result, budget>>

Listed(p) ==
    /\ pc[p] = "listing" /\ todo[p] = <<>>
    /\ Exit(p, 0, None)
    /\ UNCHANGED <<files, seen, budget>>

----------------------------------------------------------------------------
(* Faults *)

\* A signal is delivered between two calls into SQLite: the transaction is rolled
\* back, everything is closed, and the code is 130.
Interrupt(p) ==
    /\ pc[p] # "idle" /\ lock[p] \notin {"pending", "exclusive"} /\ faults < MaxFaults
    /\ faults' = faults + 1
    /\ Exit(p, 130, "interrupted")
    /\ UNCHANGED <<files, seen, starts>>

\* The process is gone, its locks with it; its journal stays.
Crash(p) ==
    /\ pc[p] # "idle" /\ faults < MaxFaults
    /\ faults' = faults + 1
    /\ Goto(p, "idle") /\ Lock(p, "none")
    /\ view' = [view EXCEPT ![p] = None]
    /\ todo' = [todo EXCEPT ![p] = <<>>] /\ status' = [status EXCEPT ![p] = None]
    /\ UNCHANGED <<files, seen, result, starts>>

Step(p) ==
    \/ Exists(p) \/ Touch(p) \/ Read(p) \/ Recover(p) \/ TimesOut(p) \/ ReadOnly(p) \/ Inspect(p)
    \/ Reserve(p) \/ Busy(p) \/ Pend(p) \/ Exclude(p) \/ WritePart(p) \/ WriteRest(p) \/ Commit(p)
    \/ Run(p) \/ Found(p) \/ NextConversation(p)
    \/ Look(p) \/ Validated(p) \/ List(p) \/ Listed(p)

\* Every process that may be started has been, and has ended.
Over == starts = MaxStarts /\ (\A p \in Processes : pc[p] = "idle") /\ UNCHANGED vars

Next == Over \/ \E p \in Processes : Start(p) \/ Step(p) \/ Interrupt(p) \/ Crash(p)

\* The processes are scheduled; that one is started, interrupted or killed is not.
Spec == Init /\ [][Next]_vars /\ \A p \in Processes : WF_vars(Step(p))

----------------------------------------------------------------------------
(* Properties *)

Labels == {"idle", "exists", "touch", "inspect", "create", "create commit", "run", "found", "write", "commit",
           "next", "look", "validated", "listing"} \cup Opening

\* Every value has its type; nothing half written is ever read or rolled back to.
TypeOK ==
    /\ disk \in {None} \cup Written
    /\ journal \in {None} \cup Sound
    /\ lock \in [Processes -> {"none", "shared", "reserved", "pending", "exclusive"}]
    /\ pc \in [Processes -> Labels]
    /\ view \in [Processes -> {None} \cup Sound]
    /\ \A p \in Processes : todo[p] \in Seq(Ids)
    /\ status \in [Processes -> {None, "imported", "failed", "lost"}]
    /\ starts \in 0 .. MaxStarts /\ faults \in 0 .. MaxFaults

\* A transaction that is about to write decides on what it has read: to create the
\* tables, to insert or to update. Until its commit no other process makes that
\* untrue, however many importers share the file and wherever one of them dies.
DecisionIsCurrent ==
    \A p \in Processes : pc[p] \in {"create", "write"} \cup Commits =>
        view[p] = IF lock[p] = "exclusive" THEN journal ELSE disk

\* No order of importers, crashes and interrupts leaves storage that a later import
\* refuses as corrupt: it says so of a database of something else alone.
SoundStorageIsNeverCorrupt ==
    \A p \in Importers : result[p] # None /\ result[p].error = "corrupt" => disk.schema = "foreign"

\* An import that ended with code 0 has an outcome on disk for every conversation,
\* although a record may have been refused and recorded as failed instead.
SuccessIsRecorded ==
    \A p \in Importers : result[p] # None /\ result[p].code = 0 => \A id \in Ids : Visible.rows[id] # None

\* The list a status command ends with is the table as it is at that moment, row
\* for row, whatever importers recorded while it was being read.
ReportIsCurrent ==
    \A p \in Readers : pc[p] = "listing" /\ todo[p] = <<>> =>
        {seen[p][i] : i \in DOMAIN seen[p]} = {<<id, Visible.rows[id]>> : id \in Ids}

\* Whatever happens between the processes and to them, a reader sees the promised
\* table: no table, then an empty one, then one outcome replaced whole at a time; a
\* database of something else is never written (IS-3; sqlite_state.py record).
Table == CASE Visible = None -> None
           [] Visible # None /\ Visible.schema = "none" -> None
           [] Visible # None /\ Visible.schema = "ours" -> Visible.rows
           [] OTHER -> Foreign
AnyTable == INSTANCE ImportTable WITH table <- Table
ImplementsTable == AnyTable!Spec

\* A command that was started ends, or is interrupted or killed: no two processes
\* wait for one another's locks, and a dead writer's journal blocks nobody for good.
CommandEnds == \A p \in Processes : pc[p] # "idle" ~> pc[p] = "idle"
=============================================================================
