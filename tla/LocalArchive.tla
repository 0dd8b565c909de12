----------------------------- MODULE LocalArchive -----------------------------
(***************************************************************************)
(* LocalRawArchive (engineering_memory/archive/local.py and _windows.py):  *)
(* store writes a temporary file beside the records, syncs it, renames it  *)
(* over the record and syncs the directory; load and the listing run in    *)
(* other processes.  The writer may die, power may be lost, a file may be  *)
(* damaged.                                                                *)
(*                                                                         *)
(* The file system is external and is modelled by what POSIX says of it: a *)
(* rename is atomic; what a directory or a file holds survives a loss of   *)
(* power once it has been synced, and may survive before; a directory      *)
(* stream shows each entry that stays in place once, and may show or miss  *)
(* an entry that is replaced while it is open.                             *)
(***************************************************************************)
EXTENDS Integers, FiniteSets

CONSTANTS
    Docs,       \* document identities, and with them the names of the records
    Forms,      \* envelopes: both forms of a conversation
    Levels,     \* directories down to <root>/v1 that store creates if absent
    Platforms,  \* "posix", "windows"
    MaxTries,   \* how often the rename is tried on Windows (8)
    Faults,     \* what may go wrong
    MaxFaults,  \* bound on the faults of a behaviour
    MaxShown,   \* bound on how often one listing shows a name
    Temp,       \* the name of a temporary file
    Damaged,    \* bytes that are no valid envelope
    None

FaultKinds ==
    {"io",      \* a call of store fails
     "mkdir",   \* store ends between the making of a directory and its sync
     "crash",   \* the writing process dies
     "power",   \* the machine loses power
     "damage"}  \* a stored record is damaged

Values == Forms \cup {Damaged, None}

\* What store and load work on.
Task == [doc : Docs, form : Forms]
Reading == [doc : Docs, read : BOOLEAN, bytes : Values, seen : SUBSET Values]

ASSUME ArchiveAssumption ==
    /\ Levels \in Nat
    /\ Platforms \subseteq {"posix", "windows"}
    /\ MaxTries \in Nat \ {0}
    /\ Faults \subseteq FaultKinds
    /\ MaxFaults \in Nat
    /\ MaxShown \in Nat \ {0}
    /\ Temp \notin Docs
    /\ Damaged \notin Forms /\ None \notin Forms /\ None # Damaged

\* Nothing is no store and no load in progress, seen from here or from the boundary.
ASSUME NothingAssumption ==
    /\ None \notin Reading
    /\ None \notin [doc : Docs, seen : SUBSET Values]
    /\ None \notin [doc : Docs, form : Forms, done : BOOLEAN]

VARIABLES
    platform, \* os.name
    \* The file system.
    made,     \* how many of the Levels exist
    kept,     \* the levels whose entry in their parent is durable
    dir,      \* record of each document, as a reader sees it
    disk,     \* the records of each document that a loss of power may leave
    stray,    \* an abandoned temporary file lies in the directory
    \* The writer.
    pc,       \* where store() stands
    task,     \* the store in progress, or the last one
    temp,     \* its temporary file: "none", "empty", "written", "synced"
    tries,    \* renames tried
    answer,   \* what store answered
    \* A load in another process.
    load,     \* None, or the document, the bytes read and those it could have read
    reply,    \* what load answered
    \* A listing in another process.
    listing,  \* "closed", "open", "ended" or "failed"
    unread,   \* names the directory stream will still show
    told,     \* how often each document was answered, as identity or as error
    still,    \* documents whose record stayed in place since the listing began
    budget    \* faults left

files == <<platform, made, kept, dir, disk, stray>>
writer == <<pc, task, temp, tries, answer>>
loader == <<load, reply>>
lister == <<listing, unread, told, still>>
vars == <<platform, made, kept, dir, disk, stray, pc, task, temp, tries, answer, load, reply,
          listing, unread, told, still, budget>>

Fault(kind) ==
    /\ kind \in Faults
    /\ budget > 0
    /\ budget' = budget - 1

\* Directories can be synced, but not on Windows, where the rename is repeated.
SyncsDirs == platform = "posix"
Tries == IF platform = "posix" THEN 1 ELSE MaxTries

\* The code claims nothing for directories it makes on Windows (local.py:69).
Init ==
    /\ platform \in Platforms
    /\ made \in 0 .. Levels
    /\ platform = "windows" => made = Levels
    /\ kept = 1 .. made
    /\ dir = [d \in Docs |-> None]
    /\ disk = [d \in Docs |-> {None}]
    /\ stray = FALSE
    /\ pc = "idle" /\ task = None /\ temp = "none" /\ tries = 0 /\ answer = "none"
    /\ load = None /\ reply = "none"
    /\ listing = "closed" /\ unread = {} /\ told = [d \in Docs |-> 0] /\ still = {}
    /\ budget = MaxFaults

-----------------------------------------------------------------------------
(* store() *)

\* A refused input (a redirected path, an envelope that is no JSON) changes nothing.
Refuse(d, f) ==
    /\ pc = "idle"
    /\ task' = [doc |-> d, form |-> f]
    /\ answer' = "rejected"
    /\ UNCHANGED <<files, pc, temp, tries, loader, lister, budget>>

Store(d, f) ==
    /\ pc = "idle"
    /\ task' = [doc |-> d, form |-> f]
    /\ answer' = "none"
    /\ pc' = IF made < Levels THEN "mkdir" ELSE "create"
    /\ UNCHANGED <<files, temp, tries, loader, lister, budget>>

\* _mkdir makes what is absent, from the outermost directory inwards.
MakeDirectory ==
    /\ pc = "mkdir"
    /\ made' = made + 1
    /\ pc' = "mkdirsync"
    /\ UNCHANGED <<platform, kept, dir, disk, stray, task, temp, tries, answer, loader,
                   lister, budget>>

SyncParent ==
    /\ pc = "mkdirsync"
    /\ kept' = IF SyncsDirs THEN kept \cup {made} ELSE kept
    /\ pc' = IF made < Levels THEN "mkdir" ELSE "create"
    /\ UNCHANGED <<platform, made, dir, disk, stray, task, temp, tries, answer, loader,
                   lister, budget>>

\* What an open directory stream may make of a new entry.
StreamMaySee(name) ==
    unread' \in IF listing = "open" THEN {unread, unread \cup {name}} ELSE {unread}

CreateTemporary ==
    /\ pc = "create"
    /\ temp' = "empty"
    /\ pc' = "write"
    /\ StreamMaySee(Temp)
    /\ UNCHANGED <<files, task, tries, answer, loader, listing, told, still, budget>>

Write ==
    /\ pc = "write"
    /\ temp' = "written"
    /\ pc' = "fsync"
    /\ UNCHANGED <<files, task, tries, answer, loader, lister, budget>>

\* Mutant: the data is left to the operating system.
NoSync ==
    /\ pc = "fsync"
    /\ pc' = "publish"
    /\ UNCHANGED <<files, temp, task, tries, answer, loader, lister, budget>>

Sync ==
    /\ pc = "fsync"
    /\ temp' = "synced"
    /\ pc' = "publish"
    /\ UNCHANGED <<files, task, tries, answer, loader, lister, budget>>

\* A load in progress could have read what the document holds from now on.
Shown(d, v) ==
    load' = IF load # None /\ load.doc = d THEN [load EXCEPT !.seen = @ \cup {v}] ELSE load

\* Renaming over the record of a document changes what the stream shows of it.
StreamMayMiss(d) ==
    /\ unread' \in IF listing = "open"
                     THEN {unread, unread \ {d}}
                            \cup (IF told[d] < MaxShown THEN {unread \cup {d}} ELSE {})
                     ELSE {unread}
    /\ still' = still \ {d}

\* os.replace, or MoveFileEx with write-through.
Publish ==
    /\ pc = "publish"
    /\ LET d == task.doc
           survives == {task.form} \cup IF temp = "synced" THEN {} ELSE {Damaged}
       IN  /\ dir' = [dir EXCEPT ![d] = task.form]
           /\ disk' = [disk EXCEPT ![d] = @ \cup survives]
           /\ Shown(d, task.form)
           /\ StreamMayMiss(d)
    /\ temp' = "none"
    /\ tries' = 0
    /\ pc' = "dirsync"
    /\ UNCHANGED <<platform, made, kept, stray, task, answer, reply, listing, told, budget>>

\* Another process still has the record open (Windows): sleep and rename again.
Contended ==
    /\ pc = "publish"
    /\ tries < Tries - 1
    /\ tries' = tries + 1
    /\ UNCHANGED <<files, pc, task, temp, answer, loader, lister, budget>>

\* The directory sync makes every rename so far durable, write-through its own;
\* store returns.
SyncDirectory ==
    /\ pc = "dirsync"
    /\ disk' = IF SyncsDirs THEN [d \in Docs |-> {dir[d]}]
               ELSE [disk EXCEPT ![task.doc] = {dir[task.doc]}]
    /\ answer' = "ok"
    /\ pc' = "idle"
    /\ UNCHANGED <<platform, made, kept, dir, stray, task, temp, tries, loader, lister, budget>>

\* A call fails.  The temporary file is unlinked, unless that fails as well.
Interruptible == pc # "idle" /\ (pc = "mkdirsync" => "mkdir" \in Faults)

StoreFails ==
    /\ Interruptible
    /\ Fault("io")
    /\ pc' = "idle"
    /\ answer' = "unavailable"
    /\ temp' = "none"
    /\ tries' = 0
    /\ stray' \in {stray, stray \/ temp # "none"}
    /\ UNCHANGED <<platform, made, kept, dir, disk, task, loader, lister>>

Crash ==
    /\ Interruptible
    /\ Fault("crash")
    /\ pc' = "idle"
    /\ answer' = "none"
    /\ temp' = "none"
    /\ tries' = 0
    /\ stray' = (stray \/ temp # "none")
    /\ UNCHANGED <<platform, made, kept, dir, disk, task, loader, lister>>

-----------------------------------------------------------------------------
(* The machine and the disk. *)

\* Directories that were not synced may be gone, and with them what they hold.
PowerLoss ==
    /\ Fault("power")
    /\ \E n \in 0 .. made :
          /\ n = made \/ n + 1 \notin kept
          /\ made' = n
          /\ kept' = 1 .. n
          /\ IF n < Levels
               THEN dir' = [d \in Docs |-> None]
               ELSE dir' \in [Docs -> Values] /\ \A d \in Docs : dir'[d] \in disk[d]
          /\ disk' = [d \in Docs |-> {dir'[d]}]
          /\ stray' \in IF n < Levels THEN {FALSE} ELSE BOOLEAN
    /\ pc' = "idle" /\ temp' = "none" /\ tries' = 0 /\ answer' = "none"
    /\ load' = None /\ reply' = "none"
    /\ listing' = "closed" /\ unread' = {} /\ told' = [d \in Docs |-> 0] /\ still' = {}
    /\ UNCHANGED <<platform, task>>

Damage(d) ==
    /\ Fault("damage")
    /\ dir[d] \in Forms
    /\ dir' = [dir EXCEPT ![d] = Damaged]
    /\ disk' = [disk EXCEPT ![d] = {Damaged}]
    /\ Shown(d, Damaged)
    /\ UNCHANGED <<platform, made, kept, stray, writer, reply, lister>>

-----------------------------------------------------------------------------
(* load() and load_original() *)

Load(d) ==
    /\ load = None
    /\ load' = [doc |-> d, read |-> FALSE, bytes |-> None, seen |-> {dir[d]}]
    /\ reply' = "none"
    /\ UNCHANGED <<files, writer, lister, budget>>

\* The opened file stays the same file when another is renamed over its name.
Open ==
    /\ load # None
    /\ ~load.read
    /\ load' = [load EXCEPT !.read = TRUE, !.bytes = dir[load.doc]]
    /\ UNCHANGED <<files, writer, reply, lister, budget>>

\* Identity, digest and content hash are checked before anything is returned.
Validate ==
    /\ load # None
    /\ load.read
    /\ reply' = CASE load.bytes = None -> "not found"
                  [] load.bytes = Damaged -> "rejected"
                  [] OTHER -> load.bytes
    /\ load' = None
    /\ UNCHANGED <<files, writer, lister, budget>>

\* The directory is redirected, or a call fails.
LoadFails ==
    /\ load # None
    /\ reply' \in {"rejected", "unavailable"}
    /\ load' = None
    /\ UNCHANGED <<files, writer, lister, budget>>

-----------------------------------------------------------------------------
(* iter_document_ids() *)

\* The first __next__ opens the directory; an absent archive is empty.
ListOpen ==
    /\ listing = "closed"
    /\ LET present == {d \in Docs : dir[d] # None}
           temporary == IF stray \/ temp # "none" THEN {Temp} ELSE {}
       IN  IF made < Levels
             THEN listing' = "ended" /\ unread' = {} /\ still' = {}
             ELSE listing' = "open" /\ unread' = present \cup temporary /\ still' = present
    /\ told' = [d \in Docs |-> 0]
    /\ UNCHANGED <<files, writer, loader, budget>>

\* Mutant: the first damaged record ends the listing.
ListOrStop(name) ==
    /\ listing = "open"
    /\ name \in unread
    /\ told' = IF name = Temp THEN told ELSE [told EXCEPT ![name] = @ + 1]
    /\ IF name # Temp /\ dir[name] = Damaged
         THEN listing' = "ended" /\ unread' = {}
         ELSE listing' = listing /\ unread' = unread \ {name}
    /\ UNCHANGED <<files, writer, loader, still, budget>>

\* The stream has moved on before the record is read and found good or bad.
List(name) ==
    /\ listing = "open"
    /\ name \in unread
    /\ unread' = unread \ {name}
    /\ told' = IF name = Temp THEN told ELSE [told EXCEPT ![name] = @ + 1]
    /\ UNCHANGED <<files, writer, loader, listing, still, budget>>

ListEnd ==
    /\ listing = "open"
    /\ unread = {}
    /\ listing' = "ended"
    /\ UNCHANGED <<files, writer, loader, unread, told, still, budget>>

\* A failure to open or to advance the stream is reported once and ends it.
ListFails ==
    /\ listing \in {"closed", "open"}
    /\ listing' = "failed"
    /\ unread' = {} /\ told' = [d \in Docs |-> 0] /\ still' = {}
    /\ UNCHANGED <<files, writer, loader, budget>>

Close ==
    /\ listing # "closed"
    /\ listing' = "closed"
    /\ unread' = {}
    /\ told' = [d \in Docs |-> 0]
    /\ still' = {}
    /\ UNCHANGED <<files, writer, loader, budget>>

Next ==
    \/ \E d \in Docs, f \in Forms : Refuse(d, f) \/ Store(d, f)
    \/ MakeDirectory \/ SyncParent
    \/ CreateTemporary \/ Write \/ Sync \/ Publish \/ Contended \/ SyncDirectory
    \/ StoreFails \/ Crash
    \/ PowerLoss
    \/ \E d \in Docs : Damage(d) \/ Load(d)
    \/ Open \/ Validate \/ LoadFails
    \/ ListOpen \/ ListEnd \/ ListFails \/ Close
    \/ \E name \in Docs \cup {Temp} : List(name)

Spec == Init /\ [][Next]_vars

-----------------------------------------------------------------------------
(* Properties. *)

\* What a loss of power may leave of a document: nothing, if a directory above it
\* is not durable.
Fates == [d \in Docs |-> disk[d] \cup IF 1 .. Levels \subseteq kept THEN {} ELSE {None}]

Boundary == INSTANCE RawArchive WITH
    held <- dir,
    fates <- Fates,
    task <- IF pc = "idle" THEN None
              ELSE [doc |-> task.doc, form |-> task.form, done |-> pc = "dirsync"],
    load <- IF load = None THEN None ELSE [doc |-> load.doc, seen |-> load.seen]

\* Whatever fails or dies in between, a record is replaced whole or not at all, a
\* store that returned survives a loss of power, and a load answers with a record
\* that was there while it ran: the promises of interface.py (RA-1 to RA-9).
ImplementsBoundary == Boundary!Spec

\* A listing that ends has answered once for each record that stayed in place,
\* damaged or not, however many others came and went, and only for records.
ListingIsExact ==
    /\ listing = "ended" => \A d \in still : told[d] = 1
    /\ \A d \in Docs : told[d] > 0 => dir[d] # None

\* interface.py:109: a record is durable before store returns.
StoredIsDurable == answer = "ok" => Fates[task.doc] = {dir[task.doc]}
=============================================================================
