------------------------- MODULE LocalArchiveProofs -------------------------
(***************************************************************************)
(* What holds of the archive on local files for any documents, any depth   *)
(* of directories, any number of faults, and both platforms.               *)
(***************************************************************************)
EXTENDS LocalArchive, TLAPS

StoreStep ==
    {"idle", "mkdir", "mkdirsync", "create", "write", "fsync", "publish", "dirsync"}

(* The file system and the writer *)

WriterTypes ==
    /\ platform \in {"posix", "windows"}
    /\ made \in 0 .. Levels
    /\ dir \in [Docs -> Values]
    /\ disk \in [Docs -> SUBSET Values]
    /\ pc \in StoreStep
    /\ task \in Task \cup {None}
    /\ pc # "idle" => task \in Task
    /\ load \in Reading \cup {None}
    /\ pc = "mkdir" => made < Levels

\* While store makes directories the last one may not be durable; otherwise all are.
LevelsInv ==
    /\ kept = IF pc = "mkdirsync" THEN 1 .. (made - 1) ELSE 1 .. made
    /\ pc = "mkdirsync" => made > 0
    /\ pc \in {"create", "write", "fsync", "publish", "dirsync"} => made = Levels
    /\ platform = "windows" => made = Levels /\ pc \notin {"mkdir", "mkdirsync"}

\* What is seen may be what a loss of power leaves; what is published was synced; and
\* there is nothing in a directory that is not durable.
FilesInv ==
    /\ \A d \in Docs : dir[d] \in disk[d]
    /\ pc = "publish" => temp = "synced"
    /\ ~(1 .. Levels \subseteq kept) => \A d \in Docs : disk[d] = {None}

\* What a load has read was there since it began, as is what it may still read.
LoadInv == load # None => /\ dir[load.doc] \in load.seen
                          /\ load.read => load.bytes \in load.seen

(* The listing in another process *)

\* A name the stream will show is that of a record, and a record that stayed in place
\* is shown once: it is either still to come or has been told.
ListingInv ==
    /\ listing \in {"closed", "open", "ended", "failed"}
    /\ unread \subseteq Docs \cup {Temp}
    /\ told \in [Docs -> Nat]
    /\ still \subseteq Docs
    /\ listing # "open" => unread = {}
    /\ \A d \in Docs : d \in unread \/ told[d] > 0 => dir[d] # None
    /\ listing = "open" => \A d \in still : told[d] = IF d \in unread THEN 0 ELSE 1
    /\ listing = "ended" => \A d \in still : told[d] = 1

-----------------------------------------------------------------------------
(* Types *)

LEMMA WriterTypesInit == Init => WriterTypes
  BY ArchiveAssumption DEF Init, WriterTypes, StoreStep, Values

\* A load in progress goes on with the same document.
LEMMA ShownKeepsType ==
  ASSUME load \in Reading \cup {None}, NEW d \in Docs, NEW v \in Values, Shown(d, v)
  PROVE  load' \in Reading \cup {None}
  BY DEF Shown, Reading

LEMMA WriterTypesNext == WriterTypes /\ [Next]_vars => WriterTypes'
<1> SUFFICES ASSUME WriterTypes, [Next]_vars PROVE WriterTypes'
  OBVIOUS
<1> USE DEF WriterTypes, StoreStep
<1>1. ASSUME NEW d \in Docs, NEW f \in Forms, Refuse(d, f) \/ Store(d, f) PROVE WriterTypes'
  BY <1>1 DEF Refuse, Store, Task, files, loader
<1>2. CASE MakeDirectory
  <2>1. made' \in 0 .. Levels
    BY <1>2, ArchiveAssumption DEF MakeDirectory
  <2> QED
    BY <1>2, <2>1 DEF MakeDirectory, loader
<1>3. CASE SyncParent
  BY <1>3 DEF SyncParent, loader
<1>4. CASE CreateTemporary \/ Write \/ Sync \/ Contended \/ StoreFails \/ Crash
  BY <1>4 DEF CreateTemporary, Write, Sync, Contended, StoreFails, Crash, files, loader
<1>5. CASE Publish
  <2>1. task.doc \in Docs /\ task.form \in Values
    BY <1>5 DEF Publish, Task, Values
  <2>2. load' \in Reading \cup {None}
    BY <1>5, <2>1, ShownKeepsType DEF Publish
  <2>3. dir' \in [Docs -> Values] /\ disk' \in [Docs -> SUBSET Values]
    BY <1>5, <2>1 DEF Publish, Values
  <2> QED
    BY <1>5, <2>2, <2>3 DEF Publish
<1>6. CASE SyncDirectory
  <2>1. task.doc \in Docs
    BY <1>6 DEF SyncDirectory, Task
  <2> QED
    BY <1>6, <2>1 DEF SyncDirectory, loader
<1>7. CASE PowerLoss
  <2>1. PICK n \in 0 .. made :
           /\ made' = n
           /\ IF n < Levels
                THEN dir' = [d \in Docs |-> None]
                ELSE dir' \in [Docs -> Values] /\ \A d \in Docs : dir'[d] \in disk[d]
           /\ disk' = [d \in Docs |-> {dir'[d]}]
    BY <1>7 DEF PowerLoss
  <2>2. made' \in 0 .. Levels
    BY <2>1, ArchiveAssumption
  <2>3. dir' \in [Docs -> Values]
    BY <2>1 DEF Values
  <2> QED
    BY <1>7, <2>1, <2>2, <2>3 DEF PowerLoss
<1>8. ASSUME NEW d \in Docs, Damage(d) PROVE WriterTypes'
  <2>1. load' \in Reading \cup {None}
    BY <1>8, ShownKeepsType DEF Damage, Values
  <2> QED
    BY <1>8, <2>1 DEF Damage, writer, Values
<1>9. ASSUME NEW d \in Docs, Load(d) PROVE WriterTypes'
  BY <1>9 DEF Load, files, writer, Reading, Values
<1>10. CASE Open
  BY <1>10 DEF Open, files, writer, Reading
<1>11. CASE Validate \/ LoadFails
  BY <1>11 DEF Validate, LoadFails, files, writer
<1>12. CASE ListOpen \/ ListEnd \/ ListFails \/ Close
            \/ \E name \in Docs \cup {Temp} : List(name)
  BY <1>12 DEF ListOpen, ListEnd, ListFails, Close, List, files, writer, loader
<1>13. CASE UNCHANGED vars
  BY <1>13 DEF vars
<1> QED
  BY <1>1, <1>2, <1>3, <1>4, <1>5, <1>6, <1>7, <1>8, <1>9, <1>10, <1>11, <1>12, <1>13 DEF Next

LEMMA WriterTypesCorrect == Spec => []WriterTypes
  BY WriterTypesInit, WriterTypesNext, PTL DEF Spec

-----------------------------------------------------------------------------
(* The listing, whatever may go wrong. *)

\* Nothing the listing sees is changed.
LEMMA ListingStays ==
  ASSUME ListingInv, UNCHANGED lister,
         \A d \in Docs : dir[d] # None => dir'[d] # None
  PROVE  ListingInv'
  BY DEF ListingInv, lister

\* Nobody lists.
LEMMA ListingRests ==
  ASSUME listing' \in {"closed", "failed"}, unread' = {}, told' = [d \in Docs |-> 0], still' = {}
  PROVE  ListingInv'
  BY DEF ListingInv

LEMMA ListingInvNext == WriterTypes /\ ListingInv /\ [Next]_vars => ListingInv'
<1> SUFFICES ASSUME WriterTypes, ListingInv, [Next]_vars PROVE ListingInv'
  OBVIOUS
<1>1. CASE CreateTemporary
  <2>1. unread' \in {unread, unread \cup {Temp}} /\ (listing # "open" => unread' = unread)
    BY <1>1 DEF CreateTemporary, StreamMaySee
  <2>2. UNCHANGED <<dir, listing, told, still>>
    BY <1>1 DEF CreateTemporary, files
  <2>3. \A d \in Docs : d \in unread' <=> d \in unread
    BY <2>1, ArchiveAssumption
  <2> QED
    BY <2>1, <2>2, <2>3 DEF ListingInv
<1>2. CASE Publish
  <2> DEFINE d == task.doc
  <2>1. d \in Docs /\ task.form \in Forms
    BY <1>2 DEF Publish, WriterTypes, Task
  <2>2. /\ unread' \subseteq unread \cup {d} /\ (listing # "open" => unread' = unread)
        /\ \A e \in Docs \ {d} : e \in unread' <=> e \in unread
        /\ still' = still \ {d}
        /\ UNCHANGED <<told, listing>>
    BY <1>2, <2>1 DEF Publish, StreamMayMiss
  <2>3. /\ dir'[d] # None
        /\ \A e \in Docs \ {d} : dir'[e] = dir[e]
    BY <1>2, <2>1, ArchiveAssumption DEF Publish, WriterTypes
  <2> HIDE DEF d
  <2> QED
    BY <2>1, <2>2, <2>3 DEF ListingInv
<1>3. CASE PowerLoss
  BY <1>3, ListingRests DEF PowerLoss
<1>4. ASSUME NEW d \in Docs, Damage(d) PROVE ListingInv'
  BY <1>4, ListingStays, ArchiveAssumption DEF Damage, WriterTypes
<1>5. CASE ListOpen
  BY <1>5, ArchiveAssumption DEF ListOpen, ListingInv, files
<1>6. ASSUME NEW name \in Docs \cup {Temp}, List(name) PROVE ListingInv'
  <2>1. CASE name = Temp
    BY <1>6, <2>1, ArchiveAssumption DEF List, ListingInv, files
  <2>2. CASE name \in Docs
    <3>1. /\ unread' = unread \ {name} /\ told' = [told EXCEPT ![name] = @ + 1]
          /\ UNCHANGED <<dir, listing, still>> /\ listing = "open" /\ name \in unread
      BY <1>6, <2>2, ArchiveAssumption DEF List, files
    <3>2. /\ told' \in [Docs -> Nat] /\ told'[name] = told[name] + 1
          /\ \A d \in Docs \ {name} : told'[d] = told[d]
      BY <2>2, <3>1 DEF ListingInv
    <3> QED
      BY <2>2, <3>1, <3>2 DEF ListingInv
  <2> QED
    BY <2>1, <2>2
<1>7. CASE ListEnd
  BY <1>7 DEF ListEnd, ListingInv, files
<1>8. CASE ListFails \/ Close
  BY <1>8, ListingRests DEF ListFails, Close
<1>9. ASSUME UNCHANGED <<dir, lister>> PROVE ListingInv'
  BY <1>9, ListingStays
<1> QED
  BY <1>1, <1>2, <1>3, <1>4, <1>5, <1>6, <1>7, <1>8, <1>9
     DEF Next, Refuse, Store, MakeDirectory, SyncParent, Write, Sync, Contended, SyncDirectory,
         StoreFails, Crash, Load, Open, Validate, LoadFails, vars, files, lister

(* Whatever is stored, damaged or lost meanwhile: a listing that ends has told once *)
(* each record that stayed in place, and never tells what is no record.             *)
THEOREM ListingsAreExact == Spec => []ListingIsExact
<1>1. Init => ListingInv
  BY DEF Init, ListingInv
<1>2. ListingInv => ListingIsExact
  BY DEF ListingInv, ListingIsExact
<1> QED
  BY <1>1, <1>2, ListingInvNext, WriterTypesCorrect, PTL DEF Spec

-----------------------------------------------------------------------------
(* The file system, when store always syncs a directory after it made it. *)

Steady == "mkdir" \notin Faults

LEMMA UpTo == \A n \in Nat : (1 .. n) \cup {n + 1} = 1 .. (n + 1) /\ (n + 1) - 1 = n
  OBVIOUS

LEMMA LevelsInvNext ==
  ASSUME Steady PROVE WriterTypes /\ LevelsInv /\ [Next]_vars => LevelsInv'
<1> SUFFICES ASSUME WriterTypes, LevelsInv, [Next]_vars PROVE LevelsInv'
  OBVIOUS
<1>0. made \in Nat /\ made <= Levels /\ Levels \in Nat /\ (Interruptible => pc # "mkdirsync")
  BY ArchiveAssumption DEF WriterTypes, Steady, Interruptible
<1>1. ASSUME NEW d \in Docs, NEW f \in Forms, Store(d, f) PROVE LevelsInv'
  BY <1>0, <1>1 DEF Store, LevelsInv, files
<1>2. CASE MakeDirectory
  BY <1>0, <1>2, UpTo DEF MakeDirectory, LevelsInv, WriterTypes
<1>3. CASE SyncParent
  <2>1. /\ pc = "mkdirsync" /\ made > 0 /\ SyncsDirs
        /\ kept' = kept \cup {made} /\ kept = 1 .. (made - 1)
        /\ pc' = (IF made < Levels THEN "mkdir" ELSE "create") /\ UNCHANGED <<platform, made>>
    BY <1>3 DEF SyncParent, LevelsInv, SyncsDirs, WriterTypes
  <2>2. made - 1 \in Nat /\ made = (made - 1) + 1
    BY <1>0, <2>1
  <2>3. kept' = 1 .. made
    BY <2>1, <2>2, UpTo
  <2> QED
    BY <1>0, <2>1, <2>3 DEF LevelsInv, SyncsDirs
<1>4. ASSUME UNCHANGED <<platform, made, kept>>, pc \notin {"mkdir", "mkdirsync"},
             \/ pc' = "idle"
             \/ /\ pc \in {"create", "write", "fsync", "publish", "dirsync"}
                /\ pc' \in {"create", "write", "fsync", "publish", "dirsync"}
      PROVE  LevelsInv'
  BY <1>0, <1>4 DEF LevelsInv
<1>5. CASE CreateTemporary \/ Write \/ Sync \/ Publish \/ SyncDirectory
  BY <1>4, <1>5 DEF CreateTemporary, Write, Sync, Publish, SyncDirectory, files
<1>6. CASE StoreFails \/ Crash
  BY <1>0, <1>6 DEF StoreFails, Crash, LevelsInv
<1>7. CASE PowerLoss
  <2>1. PICK n \in 0 .. made :
           /\ n = made \/ n + 1 \notin kept
           /\ made' = n
           /\ kept' = 1 .. n
    BY <1>7 DEF PowerLoss
  <2>2. platform = "windows" => n = made
    BY <1>0, <2>1 DEF LevelsInv
  <2> QED
    BY <1>7, <2>1, <2>2 DEF PowerLoss, LevelsInv
<1>8. ASSUME UNCHANGED <<platform, made, kept, pc>> PROVE LevelsInv'
  BY <1>8 DEF LevelsInv
<1> QED
  BY <1>1, <1>2, <1>3, <1>5, <1>6, <1>7, <1>8
     DEF Next, Refuse, Contended, Damage, Load, Open, Validate, LoadFails, ListOpen, ListEnd,
         ListFails, Close, List, vars, files, writer

\* Above a record every directory is durable.
LEMMA Grounded ==
  ASSUME WriterTypes, LevelsInv
  PROVE  /\ made = Levels /\ pc # "mkdirsync" => 1 .. Levels \subseteq kept
         /\ pc \in {"create", "write", "fsync", "publish", "dirsync"} => 1 .. Levels \subseteq kept
         /\ made < Levels => ~(1 .. Levels \subseteq kept)
         /\ \A n \in 0 .. made : n < made /\ n + 1 \notin kept => ~(1 .. Levels \subseteq kept)
<1>0. made \in Nat /\ made <= Levels /\ Levels \in Nat
  BY ArchiveAssumption DEF WriterTypes
<1>1. made < Levels => Levels \in (1 .. Levels) \ kept
  BY <1>0 DEF LevelsInv
<1>2. \A n \in 0 .. made : n < made => n + 1 \in 1 .. Levels
  BY <1>0
<1> QED
  BY <1>0, <1>1, <1>2 DEF LevelsInv

LEMMA FilesInvNext ==
  ASSUME Steady PROVE WriterTypes /\ LevelsInv /\ LevelsInv' /\ FilesInv /\ [Next]_vars => FilesInv'
<1> SUFFICES ASSUME WriterTypes, LevelsInv, LevelsInv', FilesInv, [Next]_vars PROVE FilesInv'
  OBVIOUS
<1>1. CASE SyncParent
  BY <1>1 DEF SyncParent, FilesInv
<1>2. CASE MakeDirectory \/ CreateTemporary \/ Write \/ Sync \/ StoreFails \/ Crash
  BY <1>2 DEF MakeDirectory, CreateTemporary, Write, Sync, StoreFails, Crash, FilesInv, files
<1>3. CASE Publish
  <2>1. /\ task.doc \in Docs /\ 1 .. Levels \subseteq kept /\ kept' = kept /\ pc' = "dirsync"
        /\ dir' = [dir EXCEPT ![task.doc] = task.form]
        /\ task.form \in disk'[task.doc]
        /\ \A d \in Docs : disk[d] \subseteq disk'[d]
    BY <1>3, Grounded DEF Publish, WriterTypes, Task
  <2> QED
    BY <2>1 DEF FilesInv, WriterTypes
<1>4. CASE SyncDirectory
  <2>1. /\ task.doc \in Docs /\ 1 .. Levels \subseteq kept /\ kept' = kept /\ pc' = "idle"
        /\ dir' = dir
    BY <1>4, Grounded DEF SyncDirectory, WriterTypes, Task
  <2>2. \A d \in Docs : dir[d] \in disk'[d]
    BY <1>4, <2>1 DEF SyncDirectory, FilesInv, WriterTypes
  <2> QED
    BY <2>1, <2>2 DEF FilesInv
<1>5. CASE PowerLoss
  <2>1. PICK n \in 0 .. made :
           /\ made' = n /\ kept' = 1 .. n
           /\ n < Levels => dir' = [d \in Docs |-> None]
           /\ disk' = [d \in Docs |-> {dir'[d]}]
    BY <1>5 DEF PowerLoss
  <2>2. n \in Nat /\ Levels \in Nat /\ n <= Levels
    BY <2>1, ArchiveAssumption DEF WriterTypes
  <2>3. ~(1 .. Levels \subseteq kept') => n < Levels
    BY <2>1, <2>2
  <2> QED
    BY <1>5, <2>1, <2>3 DEF FilesInv, PowerLoss
<1>6. ASSUME NEW d \in Docs, Damage(d) PROVE FilesInv'
  <2>1. 1 .. Levels \subseteq kept
    BY <1>6, ArchiveAssumption DEF Damage, FilesInv
  <2> QED
    BY <1>6, <2>1 DEF Damage, FilesInv, WriterTypes, writer
<1>7. ASSUME UNCHANGED <<dir, disk, kept>>, UNCHANGED <<pc, temp>> \/ pc' # "publish"
      PROVE  FilesInv'
  BY <1>7 DEF FilesInv
<1> QED
  BY <1>1, <1>2, <1>3, <1>4, <1>5, <1>6, <1>7
     DEF Next, Refuse, Store, Contended, Load, Open, Validate, LoadFails, ListOpen, ListEnd,
         ListFails, Close, List, vars, files, writer

\* One document changes, and a load in progress takes note of it.
LEMMA ShownKeepsLoadInv ==
  ASSUME WriterTypes, LoadInv, NEW d \in Docs, NEW v, Shown(d, v), dir' = [dir EXCEPT ![d] = v]
  PROVE  LoadInv'
<1>1. CASE load # None /\ load.doc = d
  BY <1>1 DEF Shown, LoadInv, WriterTypes, Reading
<1>2. CASE load # None /\ load.doc # d
  <2>1. load' = load /\ dir'[load.doc] = dir[load.doc]
    BY <1>2 DEF Shown, WriterTypes, Reading
  <2> QED
    BY <2>1 DEF LoadInv
<1>3. CASE load = None
  BY <1>3 DEF Shown, LoadInv
<1> QED
  BY <1>1, <1>2, <1>3

LEMMA LoadInvNext == WriterTypes /\ LoadInv /\ [Next]_vars => LoadInv'
<1> SUFFICES ASSUME WriterTypes, LoadInv, [Next]_vars PROVE LoadInv'
  OBVIOUS
<1>1. CASE Publish
  <2>1. task.doc \in Docs
    BY <1>1 DEF Publish, WriterTypes, Task
  <2> QED
    BY <1>1, <2>1, ShownKeepsLoadInv DEF Publish
<1>2. ASSUME NEW d \in Docs, Damage(d) PROVE LoadInv'
  BY <1>2, ShownKeepsLoadInv DEF Damage
<1>3. CASE PowerLoss
  BY <1>3 DEF PowerLoss, LoadInv
<1>4. ASSUME NEW d \in Docs, Load(d) PROVE LoadInv'
  BY <1>4 DEF Load, LoadInv, files
<1>5. CASE Open
  BY <1>5 DEF Open, LoadInv, WriterTypes, Reading, files
<1>6. CASE Validate \/ LoadFails
  BY <1>6 DEF Validate, LoadFails, LoadInv
<1>7. ASSUME UNCHANGED <<dir, load>> PROVE LoadInv'
  BY <1>7 DEF LoadInv
<1> QED
  BY <1>1, <1>2, <1>3, <1>4, <1>5, <1>6, <1>7
     DEF Next, Refuse, Store, MakeDirectory, SyncParent, CreateTemporary, Write, Sync, Contended,
         SyncDirectory, StoreFails, Crash, ListOpen, ListEnd, ListFails, Close, List, vars, files,
         loader

ArchiveInv == WriterTypes /\ LevelsInv /\ FilesInv /\ LoadInv

LEMMA ArchiveInvariant == ASSUME Steady PROVE Spec => []ArchiveInv
<1>1. Init => ArchiveInv
  <2> SUFFICES ASSUME Init PROVE ArchiveInv
    OBVIOUS
  <2>1. LevelsInv
    BY DEF Init, LevelsInv
  <2>2. FilesInv
    BY DEF Init, FilesInv
  <2>3. LoadInv
    BY DEF Init, LoadInv
  <2> QED
    BY <2>1, <2>2, <2>3, WriterTypesInit DEF ArchiveInv
<1>2. ArchiveInv /\ [Next]_vars => ArchiveInv'
  BY WriterTypesNext, LevelsInvNext, FilesInvNext, LoadInvNext DEF ArchiveInv
<1> QED
  BY <1>1, <1>2, PTL DEF Spec

-----------------------------------------------------------------------------
(* The boundary of interface.py *)

\* What a loss of power may leave is what is on the disk: nothing lies in a directory
\* that is not durable.
LEMMA FatesAreDisk == ASSUME WriterTypes, FilesInv PROVE Fates = disk
  BY DEF Fates, FilesInv, WriterTypes

TaskSeen == IF pc = "idle" THEN None
            ELSE [doc |-> task.doc, form |-> task.form, done |-> pc = "dirsync"]
LoadSeen == IF load = None THEN None ELSE [doc |-> load.doc, seen |-> load.seen]

LEMMA SeenFacts ==
  ASSUME WriterTypes
  PROVE  /\ TaskSeen = None <=> pc = "idle"
         /\ LoadSeen = None <=> load = None
         /\ pc # "idle" => /\ task.doc \in Docs /\ task.form \in Forms
                           /\ TaskSeen.doc = task.doc /\ TaskSeen.form = task.form
                           /\ TaskSeen.done = (pc = "dirsync")
         /\ load # None => LoadSeen.doc = load.doc /\ LoadSeen.seen = load.seen
                           /\ load.doc \in Docs
<1>1. pc # "idle" => TaskSeen \in [doc : Docs, form : Forms, done : BOOLEAN]
  BY DEF WriterTypes, Task, TaskSeen
<1>2. load # None => LoadSeen \in [doc : Docs, seen : SUBSET Values]
  BY DEF WriterTypes, Reading, LoadSeen
<1>3. pc # "idle" => task.doc \in Docs /\ task.form \in Forms
  BY DEF WriterTypes, Task
<1> QED
  BY <1>1, <1>2, <1>3, NothingAssumption DEF TaskSeen, LoadSeen, WriterTypes, Reading

\* A load takes note of a record in the archive as it does at the boundary.
LEMMA ShownAlike ==
  ASSUME WriterTypes, NEW d \in Docs, NEW v \in Values, Shown(d, v)
  PROVE  LoadSeen' = IF LoadSeen # None /\ LoadSeen.doc = d
                     THEN [LoadSeen EXCEPT !.seen = @ \cup {v}] ELSE LoadSeen
<1>1. CASE load = None
  BY <1>1 DEF Shown, LoadSeen
<1>2. CASE load # None /\ load.doc # d
  BY <1>2, SeenFacts DEF Shown, LoadSeen
<1>3. CASE load # None /\ load.doc = d
  <2>1. load' # None /\ load'.doc = load.doc /\ load'.seen = load.seen \cup {v}
    BY <1>3, NothingAssumption DEF Shown, WriterTypes, Reading
  <2>2. LoadSeen' = [doc |-> load.doc, seen |-> load.seen \cup {v}]
    BY <2>1 DEF LoadSeen
  <2> QED
    BY <1>3, <2>2, SeenFacts DEF LoadSeen
<1> QED
  BY <1>1, <1>2, <1>3

\* A task is the record of its fields, and what it means to mark one as done.
LEMMA DoneFields ==
  ASSUME NEW t \in [doc : Docs, form : Forms, done : BOOLEAN], t.done = TRUE
  PROVE  t = [doc |-> t.doc, form |-> t.form, done |-> TRUE]
  OBVIOUS

LEMMA MarkDone ==
  ASSUME NEW t \in [doc : Docs, form : Forms, done : BOOLEAN]
  PROVE  [t EXCEPT !.done = TRUE] = [doc |-> t.doc, form |-> t.form, done |-> TRUE]
<1> DEFINE marked == [t EXCEPT !.done = TRUE]
<1>1. /\ marked \in [doc : Docs, form : Forms, done : BOOLEAN]
      /\ marked.doc = t.doc /\ marked.form = t.form /\ marked.done = TRUE
  OBVIOUS
<1> HIDE DEF marked
<1>2. marked = [doc |-> t.doc, form |-> t.form, done |-> TRUE]
  BY <1>1, DoneFields
<1> QED
  BY <1>2 DEF marked

\* The archive begins as the boundary does.
LEMMA BoundaryInit == Init => Boundary!Init
  BY DEF Init, Boundary!Init, Fates

LEMMA BoundaryNext ==
  ASSUME ArchiveInv, ArchiveInv', [Next]_vars
  PROVE  [Boundary!Next]_(Boundary!vars)
<1>0. WriterTypes /\ WriterTypes' /\ FilesInv /\ LevelsInv /\ LoadInv
  BY DEF ArchiveInv
<1>1. Fates = disk /\ Fates' = disk'
  <2>1. Fates = disk
    BY <1>0, FatesAreDisk
  <2>2. Fates' = disk'
    BY DEF ArchiveInv, Fates, FilesInv, WriterTypes
  <2> QED
    BY <2>1, <2>2
<1> USE DEF TaskSeen, LoadSeen
<1>s. ASSUME UNCHANGED <<dir, disk, answer, load, reply>>,
             \/ pc # "idle" /\ pc' # "idle" /\ pc # "dirsync" /\ pc' # "dirsync" /\ task' = task
             \/ UNCHANGED <<pc, task>>
      PROVE  UNCHANGED Boundary!vars
  BY <1>s, <1>1 DEF Boundary!vars
<1>2. ASSUME NEW d \in Docs, NEW f \in Forms, Refuse(d, f) PROVE Boundary!Refuse
  BY <1>1, <1>2 DEF Refuse, Boundary!Refuse, files, loader
<1>3. ASSUME NEW d \in Docs, NEW f \in Forms, Store(d, f) PROVE Boundary!Store(d, f)
  BY <1>1, <1>3 DEF Store, Boundary!Store, files, loader
<1>4. CASE MakeDirectory \/ SyncParent \/ CreateTemporary \/ Write \/ Sync \/ Contended
  BY <1>s, <1>4 DEF MakeDirectory, SyncParent, CreateTemporary, Write, Sync, Contended, files, loader
<1>5. CASE Publish
  <2>1. /\ pc = "publish" /\ pc' = "dirsync" /\ task' = task /\ task.doc \in Docs /\ task.form \in Forms
        /\ dir' = [dir EXCEPT ![task.doc] = task.form]
        /\ disk' = [disk EXCEPT ![task.doc] = @ \cup {task.form}]
        /\ Shown(task.doc, task.form)
        /\ UNCHANGED <<answer, reply>>
    BY <1>0, <1>5 DEF Publish, FilesInv, WriterTypes, Task
  <2>2. /\ TaskSeen # None /\ TaskSeen.doc = task.doc /\ TaskSeen.form = task.form
        /\ TaskSeen' = [TaskSeen EXCEPT !.done = TRUE]
    <3>1. TaskSeen = [doc |-> task.doc, form |-> task.form, done |-> FALSE]
      BY <2>1
    <3>2. TaskSeen' = [doc |-> task.doc, form |-> task.form, done |-> TRUE]
      BY <2>1
    <3>3. TaskSeen \in [doc : Docs, form : Forms, done : BOOLEAN]
      BY <2>1, <3>1
    <3>4. TaskSeen.doc = task.doc /\ TaskSeen.form = task.form
      BY <3>1
    <3> HIDE DEF TaskSeen
    <3> QED
      BY <1>0, <2>1, <3>2, <3>3, <3>4, SeenFacts, MarkDone
  <2>3. LoadSeen' = IF LoadSeen # None /\ LoadSeen.doc = task.doc
                    THEN [LoadSeen EXCEPT !.seen = @ \cup {task.form}] ELSE LoadSeen
    BY <1>0, <2>1, ShownAlike DEF Values
  <2>4. Boundary!Commit
    BY <1>1, <2>1, <2>2, <2>3 DEF Boundary!Commit, Boundary!Shown
  <2> QED
    BY <2>4 DEF Boundary!Next
<1>6. CASE SyncDirectory
  <2>1. /\ pc = "dirsync" /\ pc' = "idle" /\ task.doc \in Docs
        /\ UNCHANGED <<dir, load, reply>> /\ answer' = "ok"
    BY <1>0, <1>6 DEF SyncDirectory, WriterTypes, Task, loader
  <2>2. /\ disk' \in [Docs -> SUBSET Values]
        /\ \A d \in Docs : disk'[d] \subseteq disk[d] /\ dir[d] \in disk'[d]
        /\ disk'[task.doc] = {dir[task.doc]}
    BY <1>0, <1>6, <2>1 DEF SyncDirectory, FilesInv, WriterTypes
  <2>3. TaskSeen # None /\ TaskSeen.done /\ TaskSeen.doc = task.doc /\ TaskSeen' = None
    BY <1>0, <2>1, SeenFacts
  <2>4. Boundary!Succeed
    BY <1>1, <2>1, <2>2, <2>3 DEF Boundary!Succeed, Boundary!Settling
  <2> QED
    BY <2>4 DEF Boundary!Next
<1>7. CASE StoreFails
  <2>1. Boundary!Fail
    BY <1>0, <1>1, <1>7, SeenFacts DEF StoreFails, Interruptible, Boundary!Fail, loader
  <2> QED
    BY <2>1 DEF Boundary!Next
<1>8. CASE Crash
  <2>1. Boundary!Die
    BY <1>1, <1>8 DEF Crash, Boundary!Die, loader
  <2> QED
    BY <2>1 DEF Boundary!Next
<1>9. CASE PowerLoss
  <2>1. PICK n \in 0 .. made :
           /\ n = made \/ n + 1 \notin kept
           /\ made' = n
           /\ kept' = 1 .. n
           /\ IF n < Levels
                THEN dir' = [d \in Docs |-> None]
                ELSE dir' \in [Docs -> Values] /\ \A d \in Docs : dir'[d] \in disk[d]
           /\ disk' = [d \in Docs |-> {dir'[d]}]
    BY <1>9 DEF PowerLoss
  <2>2. n \in Nat /\ made \in Nat /\ Levels \in Nat /\ n <= made /\ made <= Levels
    BY <1>0, <2>1, ArchiveAssumption DEF WriterTypes
  <2>3. n < Levels => \A d \in Docs : disk[d] = {None}
    <3>1. n < Levels => made < Levels \/ (n < made /\ n + 1 \notin kept)
      BY <2>1, <2>2
    <3>2. n < Levels => ~(1 .. Levels \subseteq kept)
      BY <1>0, <2>1, <3>1, Grounded
    <3> QED
      BY <1>0, <3>2 DEF FilesInv
  <2>4. dir' \in [Docs -> Values] /\ \A d \in Docs : dir'[d] \in disk[d]
    BY <2>1, <2>3 DEF Values
  <2>5. /\ pc' = "idle" /\ answer' = "none" /\ load' = None /\ reply' = "none"
    BY <1>9 DEF PowerLoss
  <2>6. Boundary!PowerLoss
    BY <1>1, <2>1, <2>4, <2>5 DEF Boundary!PowerLoss
  <2> QED
    BY <2>6 DEF Boundary!Next
<1>10. ASSUME NEW d \in Docs, Damage(d) PROVE Boundary!Damage(d)
  <2>1. /\ dir[d] \in Forms /\ dir' = [dir EXCEPT ![d] = Damaged]
        /\ disk' = [disk EXCEPT ![d] = {Damaged}]
        /\ Shown(d, Damaged)
        /\ UNCHANGED <<pc, task, answer, reply>>
    BY <1>10 DEF Damage, writer
  <2>2. LoadSeen' = IF LoadSeen # None /\ LoadSeen.doc = d
                    THEN [LoadSeen EXCEPT !.seen = @ \cup {Damaged}] ELSE LoadSeen
    BY <1>0, <2>1, ShownAlike DEF Values
  <2>3. \E left \in SUBSET {None} : disk' = [disk EXCEPT ![d] = {Damaged} \cup (left \cap @)]
    <3>1. {} \in SUBSET {None} /\ {Damaged} \cup ({} \cap disk[d]) = {Damaged}
      OBVIOUS
    <3> QED
      BY <2>1, <3>1
  <2> QED
    BY <1>1, <2>1, <2>2, <2>3 DEF Boundary!Damage, Boundary!Shown
<1>11. ASSUME NEW d \in Docs, Load(d) PROVE Boundary!Load(d)
  <2>1. /\ load = None /\ load' = [doc |-> d, read |-> FALSE, bytes |-> None, seen |-> {dir[d]}]
        /\ reply' = "none" /\ UNCHANGED <<dir, disk, pc, task, answer>>
    BY <1>11 DEF Load, files, writer
  <2>2. load' # None
    <3>1. load' \in Reading
      BY <1>0, <2>1 DEF Reading, Values, WriterTypes
    <3> QED
      BY <3>1, NothingAssumption
  <2>3. LoadSeen' = [doc |-> d, seen |-> {dir[d]}]
    BY <2>1, <2>2
  <2> QED
    BY <1>1, <2>1, <2>3 DEF Boundary!Load
<1>12. CASE Open
  <2>1. LoadSeen' = LoadSeen
    <3>1. load' \in Reading /\ load'.doc = load.doc /\ load'.seen = load.seen
      BY <1>0, <1>12 DEF Open, WriterTypes, Reading
    <3> QED
      BY <1>12, <3>1, NothingAssumption DEF Open
  <2> QED
    BY <1>1, <1>12, <2>1 DEF Open, Boundary!vars, files, writer
<1>13. CASE Validate
  <2>1. /\ load # None /\ load.read /\ load' = None
        /\ reply' = CASE load.bytes = None -> "not found"
                      [] load.bytes = Damaged -> "rejected"
                      [] OTHER -> load.bytes
        /\ UNCHANGED <<dir, disk, pc, task, answer>>
    BY <1>13 DEF Validate, files, writer
  <2>2. reply' = Boundary!Reply(load.bytes) /\ load.bytes \in load.seen
    BY <1>0, <2>1 DEF Boundary!Reply, LoadInv
  <2>3. LoadSeen # None /\ LoadSeen.seen = load.seen
    BY <1>0, <2>1, SeenFacts
  <2>4. Boundary!Loaded
    BY <1>1, <2>1, <2>2, <2>3 DEF Boundary!Loaded
  <2> QED
    BY <2>4 DEF Boundary!Next
<1>14. CASE LoadFails
  <2>1. Boundary!Loaded
    BY <1>0, <1>1, <1>14, SeenFacts DEF LoadFails, Boundary!Loaded, files, writer
  <2> QED
    BY <2>1 DEF Boundary!Next
<1>15. CASE ListOpen \/ ListEnd \/ ListFails \/ Close
            \/ (\E name \in Docs \cup {Temp} : List(name)) \/ UNCHANGED vars
  BY <1>s, <1>15 DEF ListOpen, ListEnd, ListFails, Close, List, vars, files, writer, loader
<1> QED
  BY <1>2, <1>3, <1>4, <1>5, <1>6, <1>7, <1>8, <1>9, <1>10, <1>11, <1>12, <1>13, <1>14, <1>15
     DEF Next, Boundary!Next

(* Provided store always syncs a directory it has made before it ends: whatever     *)
(* else fails, dies or loses power, the archive on local files keeps the promises   *)
(* of the boundary.                                                                 *)
THEOREM ArchiveKeepsItsPromises == ASSUME Steady PROVE Spec => ImplementsBoundary
<1>1. Init => Boundary!Init
  BY BoundaryInit
<1>2. ArchiveInv /\ ArchiveInv' /\ [Next]_vars => [Boundary!Next]_(Boundary!vars)
  BY BoundaryNext
<1> QED
  BY <1>1, <1>2, ArchiveInvariant, PTL DEF Spec, ImplementsBoundary, Boundary!Spec

(* On the same condition: a record is durable before store returns, and stays so.  *)
THEOREM StoresAreDurable == ASSUME Steady PROVE Spec => []StoredIsDurable
<1> DEFINE Durable == answer = "ok" => task \in Task /\ pc = "idle" /\ disk[task.doc] = {dir[task.doc]}
<1>1. Init => Durable
  BY DEF Init
<1>2. ArchiveInv /\ Durable /\ [Next]_vars => Durable'
  <2> SUFFICES ASSUME ArchiveInv, Durable, [Next]_vars PROVE Durable'
    OBVIOUS
  <2>0. WriterTypes /\ (pc # "idle" => task \in Task)
    BY DEF ArchiveInv, WriterTypes
  <2>1. ASSUME NEW d \in Docs, Damage(d) PROVE Durable'
    BY <2>0, <2>1 DEF Damage, writer, WriterTypes, Task
  <2>2. CASE SyncDirectory
    BY <2>0, <2>2 DEF SyncDirectory, WriterTypes, Task
  <2>3. CASE PowerLoss
    BY <2>3 DEF PowerLoss
  <2>4. ASSUME \/ answer' # "ok"
               \/ UNCHANGED <<answer, task, dir, disk>> /\ (pc = "idle" => pc' = "idle")
        PROVE  Durable'
    BY <2>4
  <2> QED
    BY <2>1, <2>2, <2>3, <2>4
       DEF Next, Refuse, Store, MakeDirectory, SyncParent, CreateTemporary, Write, Sync, Publish,
           Contended, StoreFails, Crash, Load, Open, Validate, LoadFails, ListOpen, ListEnd,
           ListFails, Close, List, vars, files, writer, loader
<1>3. ArchiveInv /\ Durable => StoredIsDurable
  BY FatesAreDisk DEF ArchiveInv, StoredIsDurable
<1> QED
  BY <1>1, <1>2, <1>3, ArchiveInvariant, PTL DEF Spec
=============================================================================
