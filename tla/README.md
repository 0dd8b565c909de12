# Engineering memory: a TLA+ model

This directory models the program under `src/src/engineering_memory/` (paths
below are relative to that package): a command line importer that reads ChatGPT
conversations, removes secrets, classifies and enriches each one, stores it in a
raw archive, sends it to an external memory engine (Hindsight) and remembers
what became of it; the commands that provision and probe that engine; and the
runner under `src/deploy/` that starts, tests and removes the containers.  `PROJECT.json` lists the runs, the theorems, and for every
definition the source lines it stands for.

## 1. The system

| Component | State it keeps | Operations |
|---|---|---|
| Pipeline (`ingestion/pipeline.py`, `report.py`) | outcomes of the run, in memory only | `run`, `_process` |
| Import state (`ingestion/state.py`, `sqlite_state.py`) | one record per conversation, durable | `find`, `record`, `iter_records`, `initialize`, `validate`; the rule `may_skip` |
| Export source (`ingestion/chatgpt/source.py`, `export.py`, `records.py`) | position in the export, identities seen | `read`, `next`, `close` |
| Record conversion (`ingestion/chatgpt/{conversation,thread,content}.py`) | none | `parse_record` |
| Archive source (`ingestion/chatgpt/archive_source.py`) | position in the listing | `read`, `next` |
| Raw archive (`archive/local.py`) | one file per conversation, durable | `store`, `load`, `load_original`, `iter_document_ids` |
| Memory store (`memory/hindsight/store.py`, `retry.py`, `serialization.py`) | `_pending`: uncertain submissions, in memory only | `retain`, `recall` |
| Provisioning, smoke (`memory/hindsight/{provision,smoke}.py`) | the engine's banks | `provision`, the probe |
| Sanitizer (`sanitization/`) | none | `sanitize`: find, settle overlaps, rewrite, count |
| Classifier (`classification/`) | the rules of a run | `load_rules`, `classify`, the chain |
| Normalized model, enrichment | none | value objects |
| Command line (`cli/`) | none | `provision`, `import`, `status` |
| Settings, observability | configuration, log sink | - |
| Deployment runner (`src/deploy/product/run.py`, `src/deploy/hindsight/contract.py`) | container stacks and volumes | `config`, `dependencies`, `start`, `stop`, `reset`, `e2e`; the contract run |

Within a run the calls are sequential: the pipeline pulls one conversation from
the source, asks the import state, and calls archive, memory store and import
state in that order.  What is concurrent is everything that outlives a call: the
engine extracts asynchronously, an abandoned request may still arrive, and the
process can die between any two calls while archive, engine and import state keep
what they have.

The documents promise one importer at a time
(`specs/018-ingestion-pipeline/plan.md:19`), and `Pipeline` and `LocalArchive`
have one writer.  The SQLite file is different: SQLite's locks serialize whoever
opens it, a status command reads it during an import, and nothing stops a second
import; `ImportStateDb` therefore has several processes.  So has the
administration: provisionings, probes and commands of the runner may be started
beside one another, on one engine.

The hard behaviours are therefore: a crash or a failed call between two durable
writes; a failed attempt to record a failure; the skip decision taken from a
record that later events overtook; one bad conversation in a long export; lost,
late and repeated submissions under one deadline; a refusal that says nothing
about an earlier copy; SQLite transactions that read before they write; administrative
commands that stop waiting for what the engine or Compose does later.  The list, line by line, is `hazards` in `PROJECT.json`.

What makes each part correct:

* pipeline - what is reported as imported or skipped is in memory; nothing is in
  memory that is not archived; the report and the import state agree; one
  failure costs one outcome; what is missing from a report is told in it; every
  run ends; failures are made good by later runs;
* memory store - a normal return means the engine extracted this content; an
  operation that may still take effect is not forgotten; unchanged content is
  not queued twice; every call ends by its deadline;
* archive - a record is whole or absent, a listing shows each record once;
* import state - a record is replaced whole, initialization can be interrupted,
  nobody waits for ever, and an exit code tells the truth about the table;
* source - every record of the export is yielded or refused, however the text
  is cut into chunks;
* record conversion - the turns are those of the displayed thread;
* sanitizer - nothing is given up but to a replacement that overlaps it, the
  counts are those of the replacements, a failure returns nothing;
* classifier - a tag rests on an alias that stands as a word in one field and has
  no rival of its priority;
* administration - a code of 0 is true of the bank and leaves nothing behind, a
  leftover is told, only a reset destroys what was kept.

## 2. Modules

| Module | Models | Used by |
|---|---|---|
| `Pipeline` | one importer, its source, the archive, the engine's memory, the import state, and their faults | `MCPipeline`, `PipelineProofs` |
| `MemoryStore` | what the memory boundary promises of `retain` | `HindsightStore` |
| `HindsightStore` | `retain` with its retry loop, the network, the engine's operations, time | `MCHindsightStore`, `HindsightStoreProofs` |
| `RawArchive` | what the archive boundary promises its callers | `LocalArchive` |
| `LocalArchive` | the archive on a file system: one writer, one reader, one listing | `MCLocalArchive`, `LocalArchiveProofs` |
| `RecordScanner` | the elements of a JSON array out of a text that is read in chunks | `MCRecordScanner`, `RecordScannerProofs` |
| `RecordConversion` | `parse_record`: the message graph, the thread, its turns and its account | `ExportReader` |
| `ExportReader` | the iterator over an export, composed with `RecordConversion` | `MCExportReader`, `ExportReaderProofs` |
| `SpanMerge` | `resolve` and `_merge`: which findings of all patterns are replaced | `Preparation`, `PreparationProofs` |
| `Positions` | the members of a finite set of numbers in order | `TextRedaction`, `ProjectMatching` |
| `TextRedaction` | the findings in a text, the blocks of Kubernetes Secrets, the rewriting | `Preparation` |
| `ProjectMatching` | rules, aliases, matching, priorities, the chain | `Preparation` |
| `Preparation` | what the pipeline does to one conversation between archive and memory | `MCPreparation`, `PreparationProofs` |
| `ImportTable` | what the import state promises its callers | `ImportStateDb` |
| `ImportStateDb` | the SQLite adapter under `import` and `status`, several processes | `MCImportStateDb` |
| `BankAdmin` | provisioning and probe over an engine | `Deployment` |
| `Deployment` | the runner over Docker Compose, composed with `BankAdmin` | `MCDeployment`, `DeploymentProofs` |
| `PipelineProofs`, `HindsightStoreProofs`, `PreparationProofs`, `ImportStateDbProofs`, `DeploymentProofs`, `LocalArchiveProofs`, `RecordScannerProofs`, `ExportReaderProofs` | inductive invariants and theorems | - |
| `MC...` | values and symmetry for TLC | the runs of that name |

`Pipeline` takes its neighbours as they are seen from it: a conversation's
durable record, a memory with a limbo, a source that answers.  The other modules
open one neighbour each; that archive, import state and memory store keep their boundaries'
promises is shown as refinements (`LocalArchive` implements `RawArchive`,
`ImportStateDb` implements `ImportTable`, `HindsightStore` implements `MemoryStore`),
the others' promises are stated as
properties of their own.

### Pipeline

`pc` says where `run()` and `_process()` stand: `reading` is `next(reader)`,
`looking` is hash, `find` and `may_skip`, `archiving`, `retaining` and
`recording` are the three durable calls, `failing` is the `except` branch that
records the failure, `reported` is the return.  Each durable call is an action
with an action for its failure beside it, so a crash (`Crash`) may fall between
any two.  `store()` may fail before or after it published; `retain()` may fail
with the engine never having heard of it or still able to complete it: `limbo`
holds the contents whose fate nobody learned, and `LateRetention` completes or
drops them at any later time, in this run or in another.

Sanitizing, classifying and enriching change nothing that outlives the step:
they are one action `Prepare` that can fail at each of the three stages.  The
content of a conversation is a version number, and equality of versions is
equality of content hashes.  `answers` is a history of what the source answered;
the code has only the outcomes made from it, and the properties compare the two.
`newest` is another: the newest version any export has shown.

The source is part of the module.  An export yields any set of conversations,
each with a content at least as new as any export showed before; a replay yields
what the archive holds.  Its failures are the ones the code tells apart: a
refusal of one conversation (`ReadMalformed`, `ReadDuplicate`), after which the
reader is asked again; a text that cannot be scanned on (`ReadTruncated`), which
is the same exception but finishes the reader; a record on which the export's
reader raises `TypeError` instead of refusing it (`ReadEscapes`; a replay catches
it and refuses), an export or archive that cannot be reached (`ReadUnavailable`)
and a damaged archive record (`ReadCorrupt`), which end the run.  The refusal of a
replay carries the id of the document in the code and the native one here.

A failed record of a failure is not counted as a fault of its own: a run that can
have one failure can have that failure unrecorded.

`Faults` names what may go wrong.  Two of its members are not failures but
circumstances: `reverts` (an export shows an older content than an earlier
export) and `reorder` (the engine completes an older retention of a document
after a newer one).  `Supported` excludes both: exports are full and fresh
(ADR-006), and the order in which the engine works is the engine's.

### MemoryStore and HindsightStore

`MemoryStore` is what a caller of `retain` can rely on (`memory/interface/store.py`,
with MS-2 and MS-3 of the contract suites).  Of a document it knows the last request
(`newest`): its content, and whether that may still become memory (`open`), has become
it (`kept`), or will not unless it is submitted again (`void`).  `late` are contents of
earlier requests that may still become memory, and so replace a newer one: the boundary
cannot exclude it, and it is where `limbo` of `Pipeline` comes from (`late` and an open
`newest` of a call that has failed).  A call either makes a request of its own
(`Retain`) or takes the last one up where it stands (`RetainAgain`), and must do the
latter for unchanged content of this process (`ours`) that may still become memory.  It
returns only when the last request is its own and kept; it fails whenever it likes.
`ImplementsStore` maps the newest operation of a document to `newest`, the older ones
that may take effect to `late`.  A submission in the air counts as open: sending it
opens the call's own request and no other, and an answer, a loss or a late delivery
moves at most one request from open to kept or void.

`pc` follows `retain` and `RetryPolicy.run`: `submit` and `ask` stand before an
attempt of the submission or of a poll, `posting` and `polling` wait for its
answer, `backoff` is the sleep of the retry loop and `pause` the one of the poll
loop.  `left` counts the ticks to the deadline, which every sleep and answer is
compared with.  `protect` is the code's `reject_identity`.  A UUID is an index of
`ops`, which holds what the engine knows of each operation and whether an
abandoned submission (`stray`) is still on its way.  `Restart` is a new adapter in
a new process: `_pending` is empty and `since` marks the operations minted before.

The engine is external.  It is modelled by what `store.py` relies on: one
operation per UUID however often it is submitted, and a submission answered with
a refusal was not accepted.  The retry policy's error answers can come at any
time, also from something between client and engine.

### RawArchive and LocalArchive

`RawArchive` is the boundary as `archive/interface.py` words it: a record is
replaced whole, a store that returned is durable (`fates` is what a loss of power
may leave), and a load answers with a record that was there at some time of the
load.  `LocalArchive` is `archive/local.py` with `_windows.py`.  `pc` follows
`store`: make the missing directories and sync each in its parent, create the
temporary file, write, sync, rename (tried `MaxTries` times on Windows, where a
reader can be in the way), sync the directory.  `dir` is what a reader sees,
`disk` what a loss of power may leave of it.  `load` opens the record and reads
it later; an open file outlives the rename over its name.  The listing is a
directory stream that runs while the writer works.  `ImplementsBoundary` maps
`held` to `dir`, `fates` to `disk`, and a store's commit to the rename.

The file system is external and is what POSIX says of it: rename is atomic; what
has been synced survives a loss of power, what has not may; a directory stream
shows an entry that stays in place once.  On Windows a directory is not synced,
and the code promises nothing for one made there (`_sync_directory`), so a
Windows archive starts with its directories made.  A valid envelope is one value,
whatever is damaged is another; the validation compares nothing a property needs.

### RecordScanner

`at` says where `_advance` stands, `buffer`, `position` and `at_end` are the
code's.  A character stands for a kind of character, and a number, a string and a
literal are enough to tell the ways in which a cut can mislead the decoder: a
number that decodes and goes on, a string that ends too early, a literal that is
no value yet.  `Decode` is the standard library's `raw_decode`, external.  The
reference is `ReadFrom`, the array read from the uncut text: what is read from a
position (`ReadElement`), by what is read from later ones.

### RecordConversion and ExportReader

`stage` follows `parse_record`: the links of every node (`graph`), the visit from
the root with its stack (`walk`), the leaf of the last children (`leaf`), the way
up to the root (`climb`), the messages of the thread (`read`), the folding of
results into calls (`fold`), the times (`times`).  All links are checked in one
step, as only the refusal can be told from outside.  A message is one of the
cases `read_message` tells apart; its text and markers are left out.  One of them
is `Unhashable`, a role or content type that is a JSON list or object, for which
Python's look-up raises.

The reference (`IsTree`, `ThreadOf`, `IsFolded`, `Verdict`) says by ancestors and
depths, without any walk, what a record is to become.

`ExportReader` adds `_Reader` and `Export`: the layouts, the files by number, the
open stream, the identities seen, the ways to end.  `ReaderInit` chooses an
export; the caller asks or closes.  A file is what `RecordScanner` makes of it:
its elements and its ending.  How a path is recognized as archive, directory or
file is abstracted to reachable, readable, or an export.

### SpanMerge, TextRedaction, ProjectMatching and Preparation

`SpanMerge` is the walk that settles overlaps, one action per turn of its loop:
a kept span that ends before the finding is passed (`Pass`), a finding that
overlaps a kept one or what was just put out is dropped (`Drop`), or it is put
out (`Emit`).  `lost` is history.  As a module of its own it is started with any
batches of findings (`Begin`), which is what its theorems are about;
`Preparation` starts it with what `FindSpans` finds and takes its steps as they
are.

A text is a sequence of lines with an indent, a list mark, a key and a value of
atoms.  Four patterns stand for the table of regular expressions: two tokens
that overlap one another (`t u` and `u s`), the password under a key, and the
values in the block of a Secret.  `SecretManifestBlocks` is the code's search: a
`data` key, the lines of its own mapping above and below it (`Siblings`), the end
of its block.  `ProjectMatching` keeps the code's order: the longest alias first,
the boundary test on both sides, the strongest priority, none when two projects
share it, and the next classifier of the chain then.

`Preparation` walks the fields in the order of `sanitize`; `None` stays `None`,
a failure in any field returns nothing, and the tag is taken from the rewritten
conversation with the rules loaded at the start of the run.

A finding that overlaps a kept one is dropped whole (`scanner.py:129`): of
`password=head-<key>-tail` the key is replaced and head and tail stay, which a
second pass would find.  The properties say what the code does:
`LeftoversAreRemainders` allows such a remainder and nothing else.  That a second
pass changes nothing (RR-8) is not claimed.  `SecretDataIsReplaced` is stated for
manifests (RC-13) without a list inside the mapping of the data key, where the
indents alone say which mapping a line belongs to.  With a list in it the code
departs from RC-13: `_siblings` (`patterns.py:248`, `253`) stops at the first item
of that list as at the mark of its own, may not come to the line `kind: Secret`
beyond it, and then leaves the entries of the data as they are.

### ImportStateDb and ImportTable

`pc` follows `initialize` (`exists`, `touch`, `open`, `inspect`, `create`), then
for each conversation `find` and, if it is not to be skipped, `record` (`select`,
`write`, commit), and for a status command `validate` and `list`.  Every operation
has a connection and a transaction of its own.  SQLite is external: a connection
that reads takes a shared lock and sees one state; a writer reserves, waits for
readers (`pending`), writes the journal and the pages in parts (`exclusive`,
`torn`), and commits by removing the journal.  A busy lock may end in `unavailable`
at the timeout.  A crash anywhere leaves the journal, which the next connection
that may write rolls back; a read-only connection may not, and a status command
answers `unavailable` then.  `ImplementsTable` maps the table to what a reader
gets, which is the journal's pages while there is a journal.

### BankAdmin and Deployment

`flying` holds the requests an engine was sent and may still do, whoever gave them
up; `Serve` does one and answers if the client still waits, `Lose` never does it.
A probe's stages end at the work deadline, its cleanup and closing at the second
(`clock`), and whatever went wrong is kept in `problem` for its report.

`Deployment` adds the runner.  A command (`Commands`) checks its environment,
brings the development project up or down and provisions through a container
whose client it waits for; an end-to-end run and the contract run have projects of
their own, with stages under one deadline and a cleanup.  Compose is external: what
it brings up or takes down may be done in part, fail, or outlast the client.  An
interrupt may fall anywhere.  `told` says that the project to recover was printed:
by the report of `run_e2e` when its cleanup failed, or by the exception of a failed
cleanup that ends `contract.py` and names the command with its project.  It is not
printed after an interrupt that no handler but that of `main` catches
(`run.py:310`): between the last stage and the guarded cleanup of `run_e2e`
(`run.py:202`), where the stack also stays, or behind the cleanup and before the
report; nor after one in the cleanup of `contract.py`, which catches none.
`UntoldIsInterrupted` says what holds all the same; `LeftoverIsTold` is what
`full-product.md:153` says of an end-to-end run, and is violated.  What kills the
runner outright (SIGKILL, and SIGTERM for `contract.py`) is left out.

## 3. Runs

| Run | Question | Bounds | Result |
|---|---|---|---|
| `Pipeline_runs` | do report, import state, archive and memory ever disagree? is what is missing told? is every failure made good in the end? | 2 conversations, 2 contents, 2 faults of the supported kinds | passes |
| `Pipeline_reverting` | the skip rule with reverting exports | 2 faults: a crash, a reverting export | violated |
| `HindsightStore_calls` | what does a normal return mean, what may be forgotten, what is queued twice, is the table bounded, is the boundary's promise kept, does every call end? | 2 documents, 2 contents, room for 1, 4 ticks, interval 2, 3 attempts, 2 operations | passes |
| `LocalArchive_boundary` | does the archive keep the boundary's promises? what does a listing show? | 2 documents, 2 forms, 1 level, both platforms, 1 fault (failed call, crash, loss of power, damage) | passes |
| `LocalArchive_halfmade` | is a stored record durable after a store that did not finish? | 1 document, 2 levels, 2 faults | violated |
| `RecordScanner_cuts` | does it matter how the text is cut? does the scan end? | every text of up to 5 characters of 10 kinds, long values, chunks of 1 and 3 | passes |
| `ExportReader_answers` | what does a reader answer for an export, record by record? | every graph of up to 2 nodes and every one of 3 with one root, no more links than nodes; threads of up to 4 messages; 2 files of up to 2 records | passes |
| `Preparation_fields` | what is replaced, counted, left, and on what does the tag rest? | every line of up to 4 atoms of 6 kinds as prose and as a password, every manifest of 3 of 12 lines, 750 of 4 and one nested, fielded conversations; 9 rule files, 1 further classifier | passes |
| `ImportStateDb_shared` | is the table's promise kept, is a decision still true when it is written, does every command end? | 2 importers, 1 status command, 2 identities, 3 starts, 1 crash or interrupt, no file or a foreign one at first | passes |
| `Deployment_runs` | what does an exit code say, what is left behind and who is told, what may destroy the shared bank? | 2 provisionings, 2 probes (one keeps its bank), 2 commands, 1 end-to-end run, 1 contract run, 2 starts, 1 interrupt | passes |
| `Deployment_leftover` | is what an end-to-end run leaves behind told? | 1 end-to-end run, 1 interrupt | violated |
| `ExportReader_unhashable` | does every message have an outcome? | as `answers` | violated |

The bounds.  In `Pipeline`, two contents are what a record, an archive entry and a
memory can disagree about; two conversations show that they do not disturb each
other; two faults, and a failed record beside each, let a crash, a failed
secondary record and a late retention meet.  (The safety properties are proved for
any number of faults; it is `Converges` that rests on the bound.)  Only the faults are counted down (`budget`): the number of runs is not
bounded, so a failure of one run is seen by any later one.  In `HindsightStore`
two documents compete for a table with room for one; two operations are an
uncertain one and its replacement; four ticks leave room for an attempt, the
longest backoff and a poll before the deadline; `MaxOps` bounds the operations
minted and nothing else.  In `LocalArchive` two forms are an
old and a new record, two documents one that is replaced and one that stays while
a listing runs; `MaxShown` bounds how often a stream shows an entry that is being
replaced, two renames are one that is contended and one that is not.  In
`RecordScanner` five characters hold an opening bracket, a value cut in two and
what follows it; the long values let the buffer double more than once.  In
`ExportReader` three nodes with three links are enough for a repeated child that
makes up for a cycle of another node, a fork, a dangling link and two roots; four
messages are a call, its result and what may stand between or behind; two files
of unlike number and name order show what one file's ending does to the next.  In
`Preparation` four atoms hold two tokens that overlap and one beside them, three
patterns that overlap in a chain and a word boundary; the lists of manifests are
exhaustive in the lines a block depends on.  In `ImportStateDb` three starts are
two importers and a reader, or an importer that is started again after its crash;
in `Deployment` two runs are started of eight that could be, since a third
actor only repeats what the engine and Compose already do late.  `MaxStarts` and
`MaxFaults` bound nothing else.

Fairness.  In `Pipeline`, weak fairness of the process's own steps (`Step`): a
run is sequential code over calls that each have a deadline or touch a local
file.  Starting a run, crashing, and the engine's late work are not fair.
`RefreshedSpec` adds that the operator starts full fresh exports again and again
(strong fairness of `Refresh`, since a run in progress disables it); the faults
are finite by `MaxFaults`, which is what "once faults cease" means in `Converges`.
That includes the refusals of a source and `ReadEscapes`: a record that stays
unhashable in every later export keeps out what stands behind it for good.
In `HindsightStore`, weak fairness of the adapter's steps and of the clock; the
engine and the network owe nothing, a poll may say `processing` for ever.  In
`RecordScanner` and `ExportReader`, weak fairness of the code's own steps between
a question and its answer; the caller need not ask or close.  In `ImportStateDb`
each process's steps are weakly fair (a lock that is waited for ends in `busy`);
starts, interrupts and crashes are not.  In `Deployment` the steps of a run and of
the runner and their clocks are fair; the engine and Compose owe nothing, so that
`EveryRunEnds` rests on deadlines alone.  `Preparation` has no fairness.  `LocalArchive` has
no liveness property and no fairness.  A scan really stops, so `RecordScanner_cuts`
does not look for deadlock.

### Violated runs

* `Pipeline_reverting`: `state.py:115` promises a skip only for a conversation
  "whose content has not moved since".  With content h1 imported and recorded,
  h2 retained, and a crash before the state write, an export that shows h1 again
  is skipped while the memory holds h2.
* `LocalArchive_halfmade`: `interface.py:108` says "Durable before it returns".
  `_mkdir` takes an existing directory for a durable one.  If the store that made
  it ended before it synced the parent, no later store does, and a loss of power
  can take the directory with every record stored since.
* `ExportReader_unhashable`: `content.py:3` says that whatever a message carries
  has an outcome.  A role, content type or part type that is a list or an object
  raises `TypeError` from a look-up; the reader catches two other exceptions, and
  the pipeline ends the run: one record costs all behind it, where FR-007
  (`specs/018-ingestion-pipeline/spec.md:68`) has a run continue after individual
  failures.  The archive source catches it.
* `Deployment_leftover`: `full-product.md:153` says that cleanup runs after Ctrl+C
  and SIGTERM, and that a failed cleanup gives the exact project id.  A signal
  after the last stage and before the inner `try` (`run.py:202`) is caught by `main`
  only, which prints "FAIL: interrupted": the stack stays and nothing names it.

Two more places where code and documents part have no run of their own.
`ARCHITECTURE.md` §18 says that individual corrupt entries are reported and
iteration can continue; the archive's listing can, but its `ArchiveRejected` is no
`SourceFormatError` and ends a replay (`archive_source.py:45`).  `MissingIsTold`
does not call that wrong, nor the record that escapes: it says that whatever a run
did not come to is behind an ending that its report shows last.  And
`errors.py:15` promises that no exception of a backend leaves an adapter, while
`httpx.DecodingError` is not caught (`store.py:154`).

## 4. Theorems

TLC checks the instances above.  The theorems hold for every value of the
constants: any number of conversations, contents, documents, attempts and faults.

`PipelineProofs`:

* `TypeCorrect`, `OutcomesFollow`, `ReportMatches`, `ArchiveFirst`,
  `MissingAreTold` - without any assumption on the faults;
* `ReportedRetained`, `RecordsEarned` - assuming `Supported`.

They rest on `PipelineAssumption`: `None` is no identity, stage, item or record,
and the bounds are numbers.

`RunInv` is the strengthening for the first group.  It ties the position in the
run to the history: there is one answer more than outcomes exactly while a
conversation is in hand or the run has ended early; the item in hand is the last
answer; an identity still in `todo` has not been answered; every identity is
answered by a conversation at most once; and past the archive step the archive
holds the item.  Without "at most once" the agreement of report and state is not
inductive: a second reading could change the record of the first.
`MissingInv` adds for `MissingAreTold` that a reader which is finished before its
end, or a report without a terminal error that leaves something in `todo`, was ended
by its last answer, a text that cannot be scanned on, whose refusal is the last
outcome (`EndedByText`): nothing can be answered, and so no outcome follow, after it.

`StoreInv` is the strengthening for the second group.  A record that says
imported cannot be trusted as it stands: after a crash between retain and the
state write it is out of date.  What is inductive is that a recorded content that
an export or the archive can still yield - the newest content, or the archived
one - is *settled*: the memory holds it and nothing else of this conversation is
in limbo.  The skip rule can only meet such a record; reverting exports are the
case that breaks it, which is what `Pipeline_reverting` shows.  The same must be
carried for the item past `retain` and for every outcome of the run that is not a
failure.

`HindsightStoreProofs`, from `StoreAssumption` (the settings are numbers in the
order their validators enforce, `None` is no value): `TypeCorrect`,
`SuccessExtracted`, `UncertainRemembered`, `NoneTwice`, `PendingSound`,
`StoreKeepsItsPromises`.

What a call returns depends on what earlier calls left in the table, so none of
these is inductive by itself.  `IdentityInv` carries that the operation of the
call was minted for its document and content (`CallSound`) and is the one
remembered (`InHand`); that a remembered operation is of this process and the
newest of its document (`PendingNewest`, with `SinceSound` for the process); that
while a refusal is taken as the end of a submission the engine has no other copy
of it (`OnlyCopy`), without which forgetting a refused operation would lose one
that may still take effect; and that a normal return is that of a completed
operation (`Succeeded`).  `AttemptLeft`, that whatever is about to be sent has an
attempt left, is what the type of the attempt counter needs (`TypeCorrect`: never more
attempts than the policy allows; proved, and in no run); `Bounded` is the
capacity.

The refinement needs no further invariant but that the operations of a document have
a last one (`NewestExists`).  Its lemmas say what a step does to the mapping:
`StoreSame` that operations which keep their state leave it as it is, `NewestMoves` and
`LateMoves` what one operation that moves does to it, `NewRequest` what a new UUID does.
That only the operation in hand can be opened again, and that it is the newest of its
document, is `HandNewest`, from `InHand` and `PendingNewest`; that a new request is
never made of unchanged content that may still become memory is `UncertainIsRemembered`.

`PreparationProofs`, of the merge alone, for findings of any number, with no
assumption but that the findings of each pattern come sorted by start and the
patterns in order (`Batches`, which is what `find_spans` and `resolve` hand over):

* `MergeIsDisjoint` - the spans that are replaced are disjoint and in order;
* `NothingIsLostToNothing` - a finding is given up only to a replaced one that
  overlaps it, of a pattern at least as specific.

For the first, `MInv` adds that what was put out ends before what is still to be
walked begins (`Apart`).  For the second, `WInv` adds that what was put out begins
no later than the findings to come (`Sorted`), so that the last one put out is the
one to compare with; that everything the walk has passed was put out (`Passed`),
so that a winner among the kept spans survives the walk; and that everything kept
is at least as specific as what is to come (`Specific`).

And of the whole preparation, for conversations of texts of any number of lines,
of any indents, keys and values, any rules and classifiers, from
`TextAssumption` and `PreparationAssumption` (a line is shorter than `Width`, the
marker is an atom, `None` is no text and no key, what lies at the rules' path is a
list of rules, the fallbacks are valid rule sets):

* `PreparationMerges` - a preparation takes the steps of `SpanMerge` and stutters
  otherwise; `PreparationIsDisjoint` and `PreparationLosesNothing` follow;
* `PreparationTypes` - the copy has the fields, lines and gaps of the input (SS-2);
* `SecretDataIsHidden` - an entry is replaced exactly when the mapping of its data
  key says `kind: Secret` (RC-13);
* `OnlyRemaindersAreLeft` - a pattern finds nothing in a returned conversation but
  what contains a marker (SS-8, RR-6);
* `ReportCountsReplacements` - the report counts the markers of the text (RR-5);
* `TagsAreEarned` - a tag rests on an alias that stands as a word inside one field,
  above every rival, no earlier classifier was certain, and unknown is the answer
  only when none was (AM-2, AM-7, AR-3, AR-4) - assuming `AliasesHoldNoJoin`.

`PreparationMerges` needs that what `FindSpans` hands over is a batch list: each
pattern's matches in order of their starts, which is a fact about `Ascending`
(`AscendingLists`: it lists each member of a finite set once, in order), and each
finding a span inside one line.  `PrepInv` then carries, beside `WInv`, the form of
the copy (`FormInv`), that every finding of the field in hand is waiting, in the
walk, kept or lost (`FindingInv`), so that when the merge is at rest the kept spans
are a `Redaction`: disjoint findings, each finding one of them or overlapping one;
and that the returned conversation is the whole copy (`ReturnInv`).  The rest is
about one text and one redaction of it.  That an entry is replaced follows from
where the code looks for siblings, and `Siblings` is the code's search while
`SameMapping` is what a manifest means: they agree where no list is inside the
mapping.  That rewriting makes no new finding is a look at every pattern: it takes
a match in the rewritten text without a marker back, atom by atom, to the same match
in the text before (`PairWasAPair`, `WordWas`), of which no atom was replaced, though
each finding is replaced or overlaps what is.  Rewriting opens no block of a Secret
either, since a line is empty only when it was and a marker is no `Secret`
(`SecretsWere`).  And the markers of a rewritten text are, if it had
none, one for each span, at its start (`CountInv`).

`TagsAreEarned` needs little of the run (`TagInv`: the rules are those of a file that
loads, the tag is the chain's answer to what was returned) and much of the matcher.
The search is a function of the position it goes on from (`Searches`, `NamedIs`): it
finds nothing but what is found at some position (`SearchFindsOnly`), and all that is
found at a position no step jumps over (`SearchFinds`).  The join holds every part,
between two joins or an end, and nothing else (`JoinHolds`), so that an alias without
the join in it stands in the text exactly where it stands in one of the parts
(`OccursIn`, `InOnePart`).  An occurrence with no rival in its field is therefore not
jumped over; and the alias that is taken there is its own: no alias at that place is
longer, what is taken ends no later, and a piece that ends earlier has a shorter key
(`LongerKey`).  Of the projects named, the answer is the one whose priority is above
all others, and unknown when no such project is (`AnswerIs`).

`AliasesHoldNoJoin` says that no alias was declared with a NUL in it.  It is a
hypothesis of the theorem and not an assumption of the module, since nothing in the
code refuses such an alias (`rules.py:126` asks for a letter or a digit): it would
match across two fields joined at `alias_classifier.py:43`, which AM-7 says none
does.  The rule sets of the runs meet it.

`ImportStateDbProofs`, for any number of importers, status
commands, identities, starts and faults, from `ImportStateDbAssumption` (a command
comes by every identity; `None` and `Foreign` are no values of the table; the bounds
are numbers):

* `TypeCorrect`, `DecisionStands`, and `Implements`: the safety refinement of
  `ImportTable`, with `LocksHeld` below them;
* `SoundStorage`, `SuccessRecorded`, `ReportTrue`.

`IInv` has three layers.  `Locks` says which lock a connection holds where, that of
two writers one has no more than read, and that a writer of pages is alone.  `Work`
says that an importer has a conversation in hand and an outcome for it, so that the
pages it writes are a table.  `Files` ties the file to the journal and to what was
read: half written pages have a journal; a journal is sound and no one else's
database; whoever holds a lock has read what a rollback would bring back; and past
`initialize` there is a table.  None of the three is inductive without the one
before: that a journal is the state its writer read needs the locks, and that the
journal's removal brings one outcome needs the conversation in hand.  The refinement
then has three steps that a reader sees (`VisibleStep`): nothing, a file, a commit.
The results add `CorruptIsForeign` and `Account`: what an importer has passed without
a failure is on disk, and what a status command has passed is in its list.

`DeploymentProofs`, for any number of provisionings, probes, commands and isolated
runs, from `RunsAssumption` (a run is a provisioning or a probe, and the bank a probe
makes up is not the shared one), `KeptAssumption` and `ProjectsAssumption` (a command
is no isolated run, and those have projects of their own):

* `PassedProbesLeaveNothing`, `UntoldAreInterrupted` - invariants;
* `OnlyAResetForgets`, `StartsAreProvisioned` - what a step may do.

`BankInv` counts the requests of a probe that may still take effect: as long as
nothing went wrong there is at most the one it waits for, or the extraction that
followed it, and none once the deletion was answered (`ProbeIsClean`).  Without it a
late retention could make the bank again after the probe has passed.  `RunInv` says
that one command runs at a time, that the shared bank holds nothing where the project
has no volumes, and what an isolated run knows of its stack at each step.

`LocalArchiveProofs`, for any documents, forms, depth of directories, both platforms and
any number of faults, from `ArchiveAssumption` and `NothingAssumption` (`None` is no
store and no load):

* `ListingsAreExact`;
* `ArchiveKeepsItsPromises` (the refinement of `RawArchive`) and `StoresAreDurable` -
  assuming `Steady`, that no store ends between making a directory and syncing it in
  its parent.  The run `LocalArchive_halfmade` shows that they fail without it.

`ListingInv` counts for each record that stayed in place that it is still to come or has
been told, and not both.  `FilesInv` relates what is seen to what is durable: what is
published was synced, and in a directory that may itself be lost there is nothing
(`LevelsInv` says which those are), so that the fates of a document are what the disk
may still hold of it.

`RecordScannerProofs`, for every text of any length and chunks of any size, from
`ScannerAssumption` (texts are sequences, chunks and slack are positive):

* `ChunksMakeNoDifference`.

The induction over the text is made of sets: a nonempty set of natural numbers has a
least member (`HasLeast`), so of the positions at which something fails one would be
the last, and there it does not.  That gives the existence of the function that reads
from every position (`ReadElementsDef`), and what `Skip`, `DigitsEnd` and `Decode`
return.  `BufferInv` says that the buffer shows the text up to what was read; from it
follow the two facts on which the design of the scanner rests: a value that nothing
can continue behind the buffer is the value in the text (`ValueShown`), and an error
that is no truncation is one in the text (`ErrorShown`, where `Slack` is at least the
length of a literal less one).  `TextInv` says that the whole text holds what was found
followed by what is read on from where the scanner stands.

`ExportReaderProofs`, for every set of exports, with any number of files and records,
graphs of any shape and size and any identifiers among the records, from
`ConversionAssumption` (there are finitely many names, and `None` is none) and
`ExportsAssumption` (an export has finitely many files, with numbers, ranks and
sequences of records, whose graphs name nodes or none):

* `TurnsAreRight`, `AnswersAreInOrder`, `NothingStaysOpen`.

The code walks down and climbs up; the properties speak of a thread that is defined by
ancestors (`ThreadOf`) and of an order that is chosen (`Expected`).  Three facts join
them.  The ancestors of a node on a way from a root are exactly the nodes of the way so
far (`AncestorsOfRooted`), which makes the climbed path the thread (`ThreadIs`).  The
walk of `_validate` visits each node once, since a child is its parent's once and no
node is met twice (`WalkState`), so that it counts as many nodes as there are exactly in
a tree: without that argument a cycle beside the tree would pass.  And the numbers and
ranks leave one order of the files (`OneOrder`).  `ConversionInv` says stage by stage what
is known of the record: which part of the thread has been read, which items are in
turns (`FlattenSeq(turns)` is what has been folded so far), and that a refusal or an escape
is what the record defines.  `ReaderInv` says that the answers given are a beginning of all
that is due, that `seen` holds the identifiers of the conversations among them, and that
what the reader has still to find - the record in hand, the rest of the open file, the
files not yet opened - is what comes next.

Only model-checked: liveness (`Converges`, `CallsReturn`, `ScanEnds`,
`AskIsAnswered`, `CommandEnds`, `EveryRunEnds`), since the prover does not do
fairness.  Every invariant and every action property of the runs is also proved.

## 5. Not modelled

`recall` changes no state.  The table of regular expressions, the comparison of
columns and constraints of a schema, TOML, the words of messages and the layout of
results are abstracted as the modules say.  `is_placeholder` is one atom
(`IsPlaceholder`).  Settings are read once and are constants here; observability
(logging, correlation, redaction and tracing of log records) and the normalized
model's value objects change no state that another part reads; the outcome a
retried request logs is left out with them (the retry contract lists four, the
code has `unavailable` as a fifth).  The packages `access`, `api`, `evaluation`,
`ingestion/codex` and `ingestion/claude_code` are empty.

## 6. Plan

The archive source over `LocalArchive`: a replay that stores while it lists.
