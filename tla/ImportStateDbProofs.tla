------------------------ MODULE ImportStateDbProofs ------------------------
(* However many importers and status commands share the file, whatever the order  *)
(* of their steps and wherever they are killed: the locks are kept, a decision to  *)
(* write still stands at its commit, and the file implements ImportTable. The      *)
(* inductive invariant IInv has three layers, each proved with those before it:    *)
(* Locks, Work (what a command has before it) and Files (what is on disk, and what *)
(* a transaction has read of it). On top of it, CorruptIsForeign and Account: the  *)
(* result of an import and the list of a status command agree with what is on disk.*)
EXTENDS ImportStateDb, SequenceTheorems, TLAPS

----------------------------------------------------------------------------
(* Locks *)

\* Where a connection has read and not yet written.
Keeping == {"inspect", "create", "found", "write", "validated", "listing"}
Writers == {"reserved", "pending", "exclusive"}

LockTypes ==
    /\ lock \in [Processes -> {"none", "shared"} \cup Writers]
    /\ pc \in [Processes -> Labels]

\* A lock is held from the first read of an operation to its end.
LockOf(p) ==
    /\ pc[p] \in Keeping => lock[p] = "shared"
    /\ pc[p] \in Commits => lock[p] \in Writers
    /\ pc[p] \notin Keeping \cup Commits => lock[p] = "none"

\* Of two writers one has no more than read; a writer of pages is alone.
Exclusion(p, q) ==
    /\ lock[p] \in Writers => lock[q] \in {"none", "shared"}
    /\ lock[p] = "exclusive" => lock[q] = "none"

Locks ==
    /\ LockTypes
    /\ \A p \in Processes : LockOf(p)
    /\ \A p, q \in Processes : p # q => Exclusion(p, q)

\* At first nobody has a lock.
LEMMA LocksInit == Init => Locks
BY DEF Init, Locks, LockTypes, LockOf, Exclusion, Labels, Keeping, Commits, Writers

\* A step of one process, and what it has to keep.
LEMMA LocksMove ==
    ASSUME Locks, LockTypes', NEW p \in Processes, LockOf(p)',
           \A q \in Processes \ {p} : pc'[q] = pc[q] /\ lock'[q] = lock[q],
           \A q \in Processes \ {p} : Exclusion(p, q)' /\ Exclusion(q, p)'
    PROVE  Locks'
<1>1. ASSUME NEW q \in Processes PROVE LockOf(q)'
  BY <1>1 DEF Locks, LockOf
<1>2. ASSUME NEW q \in Processes, NEW r \in Processes, q # r PROVE Exclusion(q, r)'
  BY <1>2 DEF Locks, Exclusion
<1> QED
  BY <1>1, <1>2 DEF Locks

\* A process that gives its lock back, or had none, disturbs nobody.
LEMMA LocksFree ==
    ASSUME Locks, NEW p \in Processes, NEW label \in Labels \ (Keeping \cup Commits),
           pc' = [pc EXCEPT ![p] = label], lock' = [lock EXCEPT ![p] = "none"]
    PROVE  Locks'
<1>1. LockTypes' /\ LockOf(p)'
  BY DEF Locks, LockTypes, LockOf
<1>2. ASSUME NEW q \in Processes \ {p} PROVE Exclusion(p, q)' /\ Exclusion(q, p)'
  BY <1>2 DEF Locks, LockTypes, Exclusion, Writers
<1> QED
  BY <1>1, <1>2, LocksMove DEF Locks, LockTypes

\* A command that ends has given its lock back.
LEMMA LocksExit ==
    ASSUME Locks, NEW p \in Processes, NEW code, NEW error, Exit(p, code, error)
    PROVE  Locks'
<1>1. "idle" \in Labels \ (Keeping \cup Commits)
  BY DEF Labels, Keeping, Commits
<1> QED
  BY <1>1, LocksFree DEF Exit, Goto, Lock

\* A process that has no lock moves without one.
LEMMA LocksWalk ==
    ASSUME Locks, NEW p \in Processes, NEW label \in Labels \ (Keeping \cup Commits),
           pc[p] \notin Keeping \cup Commits, Goto(p, label), UNCHANGED lock
    PROVE  Locks'
<1>1. lock' = [lock EXCEPT ![p] = "none"]
  BY DEF Locks, LockTypes, LockOf
<1> QED
  BY <1>1, LocksFree DEF Goto

\* A process that goes on with the lock it holds.
LEMMA LocksStay ==
    ASSUME Locks, NEW p \in Processes, UNCHANGED lock, NEW label \in Labels, Goto(p, label),
           \/ label \in Keeping /\ pc[p] \in Keeping
           \/ label \in Commits /\ pc[p] \in Commits
    PROVE  Locks'
<1>1. LockTypes' /\ LockOf(p)'
  BY DEF Locks, LockTypes, LockOf, Goto, Keeping, Commits
<1> QED
  BY <1>1, LocksMove DEF Locks, LockTypes, Exclusion, Goto

\* So has one whose operation fails.
LEMMA LocksUnavailable ==
    ASSUME Locks, NEW p \in Processes, Unavailable(p)
    PROVE  Locks'
<1>1. CASE pc[p] \in {"find", "select", "write", "commit"}
  <2>1. PICK label \in {"next", "select"} : Goto(p, label) /\ Lock(p, "none")
    BY <1>1 DEF Unavailable
  <2> QED
    BY <2>1, LocksFree DEF Goto, Lock, Labels, Opening, Keeping, Commits
<1>2. CASE pc[p] \notin {"find", "select", "write", "commit"}
  BY <1>2, LocksExit DEF Unavailable
<1> QED
  BY <1>1, <1>2

\* Every step keeps the rules of the locks.
LEMMA LocksNext == Locks /\ [Next]_vars => Locks'
<1> SUFFICES ASSUME Locks, [Next]_vars PROVE Locks'
  OBVIOUS
<1>0. CASE UNCHANGED vars \/ Over
  BY <1>0 DEF vars, Over, Locks, LockTypes, LockOf, Exclusion
<1> SUFFICES ASSUME NEW p \in Processes, Start(p) \/ Step(p) \/ Interrupt(p) \/ Crash(p) PROVE Locks'
  BY <1>0 DEF Next
<1> USE DEF Labels, Opening, Keeping, Commits
<1>1. CASE Start(p)
  BY <1>1, LocksWalk DEF Start
<1>2. CASE Exists(p)
  BY <1>2, LocksWalk DEF Exists
<1>3. CASE Touch(p)
  BY <1>3, LocksWalk, LocksExit DEF Touch
<1>4. CASE Read(p)
  <2>1. LockTypes' /\ LockOf(p)'
    BY <1>4 DEF Read, Holding, Goto, Lock, Locks, LockTypes, LockOf
  <2>2. ASSUME NEW q \in Processes \ {p} PROVE Exclusion(p, q)' /\ Exclusion(q, p)'
    <3>1. lock[q] \notin {"pending", "exclusive"}
      BY <1>4, <2>2 DEF Read, Readable, Others
    <3> QED
      BY <1>4, <2>2, <3>1 DEF Read, Holding, Goto, Lock, Locks, LockTypes, Exclusion, Writers
  <2> QED
    BY <1>4, <2>1, <2>2, LocksMove DEF Read, Holding, Goto, Lock, Locks, LockTypes
<1>5. CASE Recover(p)
  BY <1>5 DEF Recover, Locks, LockTypes, LockOf, Exclusion
<1>6. CASE TimesOut(p) \/ ReadOnly(p) \/ Busy(p)
  BY <1>6, LocksUnavailable DEF TimesOut, ReadOnly, Busy
<1>7. CASE Inspect(p)
  <2>1. CASE Goto(p, "create") /\ UNCHANGED lock
    BY <1>7, <2>1, LocksStay DEF Inspect
  <2>2. CASE Goto(p, "run") /\ Lock(p, "none")
    BY <1>7, <2>2, LocksFree DEF Inspect, Goto, Lock
  <2>3. CASE Exit(p, 1, "corrupt")
    BY <2>3, LocksExit
  <2> QED
    BY <1>7, <2>1, <2>2, <2>3 DEF Inspect
<1>8. CASE Reserve(p)
  <2>1. LockTypes' /\ LockOf(p)'
    BY <1>8 DEF Reserve, Writing, Goto, Lock, Locks, LockTypes, LockOf, Writers
  <2>2. ASSUME NEW q \in Processes \ {p} PROVE Exclusion(p, q)' /\ Exclusion(q, p)'
    <3>1. lock[q] \notin Writers
      BY <1>8, <2>2 DEF Reserve, Others, Writers
    <3> QED
      BY <1>8, <2>2, <3>1 DEF Reserve, Goto, Lock, Locks, LockTypes, Exclusion, Writers
  <2> QED
    BY <1>8, <2>1, <2>2, LocksMove DEF Reserve, Goto, Lock, Locks, LockTypes
<1>9. CASE Pend(p)
  <2>1. LockTypes' /\ LockOf(p)'
    BY <1>9 DEF Pend, Lock, Locks, LockTypes, LockOf, Writers
  <2>2. ASSUME NEW q \in Processes \ {p} PROVE Exclusion(p, q)' /\ Exclusion(q, p)'
    BY <1>9, <2>2 DEF Pend, Lock, Locks, LockTypes, Exclusion, Writers
  <2> QED
    BY <1>9, <2>1, <2>2, LocksMove DEF Pend, Lock, Locks, LockTypes
<1>10. CASE Exclude(p)
  <2>1. LockTypes' /\ LockOf(p)'
    BY <1>10 DEF Exclude, Lock, Locks, LockTypes, LockOf, Writers
  <2>2. ASSUME NEW q \in Processes \ {p} PROVE Exclusion(p, q)' /\ Exclusion(q, p)'
    <3>1. lock[q] = "none"
      BY <1>10, <2>2 DEF Exclude, Others
    <3> QED
      BY <1>10, <2>2, <3>1 DEF Exclude, Lock, Locks, LockTypes, Exclusion, Writers
  <2> QED
    BY <1>10, <2>1, <2>2, LocksMove DEF Exclude, Lock, Locks, LockTypes
<1>11. CASE WritePart(p) \/ WriteRest(p) \/ List(p)
  BY <1>11 DEF WritePart, WriteRest, List, Locks, LockTypes, LockOf, Exclusion
<1>12. CASE Commit(p)
  <2>1. PICK label \in {"run", "next"} : Goto(p, label)
    BY <1>12 DEF Commit
  <2> QED
    BY <1>12, <2>1, LocksFree DEF Commit, Goto, Lock
<1>13. CASE Run(p)
  BY <1>13, LocksWalk DEF Run
<1>14. CASE Found(p)
  BY <1>14, LocksFree DEF Found, Goto, Lock
<1>15. CASE NextConversation(p)
  BY <1>15, LocksWalk, LocksExit DEF NextConversation
<1>16. CASE Look(p)
  BY <1>16, LocksWalk, LocksExit DEF Look
<1>17. CASE Validated(p)
  BY <1>17, LocksFree, LocksExit DEF Validated, Goto, Lock
<1>18. CASE Listed(p)
  BY <1>18, LocksExit DEF Listed
<1>19. CASE Interrupt(p)
  BY <1>19, LocksExit DEF Interrupt
<1>20. CASE Crash(p)
  BY <1>20, LocksFree DEF Crash, Goto, Lock
<1> QED
  BY <1>1, <1>2, <1>3, <1>4, <1>5, <1>6, <1>7, <1>8, <1>9, <1>10, <1>11, <1>12, <1>13, <1>14, <1>15,
     <1>16, <1>17, <1>18, <1>19, <1>20 DEF Step

\* SQLite's locks as the adapter uses them: one writer at most, alone while it writes
\* pages; and no operation keeps a lock when its connection is closed.
THEOREM LocksHeld == Spec => []Locks
BY LocksInit, LocksNext, PTL DEF Spec

----------------------------------------------------------------------------
(* What a command has before it *)

Before == {"exists", "touch", "open", "inspect", "create", "create commit"}
Past == {"run", "find", "found", "select", "write", "commit", "next"}
Looking == {"look", "validate", "validated", "list", "listing"}
Answers == [code : {0, 1, 130}, error : {None, "unavailable", "corrupt", "interrupted"}]

WorkTypes ==
    /\ pc \in [Processes -> Labels]
    /\ todo \in [Processes -> Seq(Ids)]
    /\ status \in [Processes -> {None, "imported", "failed", "lost"}]
    /\ result \in [Processes -> {None} \cup Answers]
    /\ starts \in 0 .. MaxStarts /\ faults \in 0 .. MaxFaults

\* An importer has a conversation in hand and an outcome for it; only a status
\* command looks.
WorkOf(p) ==
    /\ pc[p] \in Before \cup Past => p \in Importers /\ todo[p] # <<>>
    /\ pc[p] \in Looking => p \notin Importers
    /\ pc[p] \in {"find", "found", "select", "write", "commit"} => status[p] \in {"imported", "failed"}
    /\ pc[p] = "next" => status[p] # None

Work == WorkTypes /\ \A p \in Processes : WorkOf(p)

\* The bounds are numbers; the rest of the assumption is left out where they are used.
LEMMA Bounds == MaxStarts \in Nat /\ MaxFaults \in Nat
BY ImportStateDbAssumption

\* A start keeps its bound.
LEMMA OneStartMore ==
    ASSUME starts \in 0 .. MaxStarts, starts < MaxStarts, starts' = starts + 1
    PROVE  starts' \in 0 .. MaxStarts
BY Bounds

\* A fault keeps its bound.
LEMMA OneFaultMore ==
    ASSUME faults \in 0 .. MaxFaults, faults < MaxFaults, faults' = faults + 1
    PROVE  faults' \in 0 .. MaxFaults
BY Bounds

\* After one of several conversations there is another.
LEMMA LongTail ==
    ASSUME NEW s \in Seq(Ids), s # <<>>, Len(s) # 1
    PROVE  Tail(s) \in Seq(Ids) /\ Tail(s) # <<>>
<1>1. Len(s) \in Nat \ {0, 1}
  BY EmptySeq, LenProperties
<1>2. Tail(s) \in Seq(Ids) /\ Len(Tail(s)) = Len(s) - 1
  BY HeadTailProperties
<1>3. Len(Tail(s)) # 0
  BY <1>1, <1>2
<1> QED
  BY <1>2, <1>3, EmptySeq

\* No outcome is not an outcome, and no error is not the error of a corrupt file.
LEMMA NoneIsNoOutcome == None \notin {"imported", "failed", "lost", "corrupt"}
BY ImportStateDbAssumption

\* At first no command has anything before it.
LEMMA WorkInit == Init => Work
BY ImportStateDbAssumption DEF Init, Work, WorkTypes, WorkOf, Labels, Opening, Before, Past, Looking

\* A step of one process.
LEMMA WorkMove ==
    ASSUME Work, WorkTypes', NEW p \in Processes, WorkOf(p)',
           \A q \in Processes \ {p} : pc'[q] = pc[q] /\ todo'[q] = todo[q] /\ status'[q] = status[q]
    PROVE  Work'
BY DEF Work, WorkOf

\* A command that ends has nothing before it.
LEMMA WorkExit ==
    ASSUME Work, NEW p \in Processes, NEW code \in {0, 1, 130},
           NEW error \in {None, "unavailable", "corrupt", "interrupted"}, Exit(p, code, error),
           UNCHANGED starts, faults' \in 0 .. MaxFaults
    PROVE  Work'
<1>1. [code |-> code, error |-> error] \in Answers
  BY DEF Answers
<1>2. WorkTypes'
  BY <1>1, EmptySeq DEF Work, WorkTypes, Exit, Goto, Labels
<1>3. WorkOf(p)'
  BY DEF Work, WorkTypes, WorkOf, Exit, Goto, Before, Past, Looking
<1> QED
  BY <1>2, <1>3, WorkMove DEF Exit, Goto, Work, WorkTypes

\* An operation that fails leaves the conversation in hand, to be recorded as failed.
LEMMA WorkUnavailable ==
    ASSUME Work, NEW p \in Processes, Unavailable(p), UNCHANGED budget
    PROVE  Work'
<1>1. CASE pc[p] \in {"find", "select", "write", "commit"}
  <2>1. WorkTypes'
    BY <1>1 DEF Unavailable, Goto, Work, WorkTypes, Labels, Opening, budget
  <2>2. WorkOf(p)'
    BY <1>1, NoneIsNoOutcome
       DEF Unavailable, Goto, Work, WorkTypes, WorkOf, Before, Past, Looking
  <2> QED
    BY <1>1, <2>1, <2>2, WorkMove DEF Unavailable, Goto, Work, WorkTypes
<1>2. CASE pc[p] \notin {"find", "select", "write", "commit"}
  BY <1>2, WorkExit DEF Unavailable, Work, WorkTypes, budget
<1> QED
  BY <1>1, <1>2

\* A process that goes on with the same before it.
LEMMA WorkGoto ==
    ASSUME Work, NEW p \in Processes, NEW label \in Labels, Goto(p, label), UNCHANGED <<todo, status, result, budget>>,
           \/ label \in Before /\ pc[p] \in Before
           \/ label \in Past \ {"find"} /\ pc[p] \in Past \ {"run", "next"}
           \/ label \in Looking /\ pc[p] \in Looking
           \/ label = "run" /\ pc[p] \in Before
    PROVE  Work'
<1>1. WorkTypes' /\ WorkOf(p)'
  BY NoneIsNoOutcome DEF Work, WorkTypes, WorkOf, Goto, Before, Past, Looking, budget
<1> QED
  BY <1>1, WorkMove DEF Goto, Work, WorkTypes

\* Every step keeps the course of a command.
LEMMA WorkNext == Locks /\ Work /\ [Next]_vars => Work'
<1> SUFFICES ASSUME Locks, Work, [Next]_vars PROVE Work'
  OBVIOUS
<1>0. CASE UNCHANGED vars \/ Over
  BY <1>0 DEF vars, budget, Over, Work, WorkTypes, WorkOf
<1> SUFFICES ASSUME NEW p \in Processes, Start(p) \/ Step(p) \/ Interrupt(p) \/ Crash(p) PROVE Work'
  BY <1>0 DEF Next
<1> USE DEF Labels, Opening, Before, Past, Looking
<1>1. CASE Start(p)
  <2>1. PICK order \in Orders : todo' = [todo EXCEPT ![p] = order]
    BY <1>1 DEF Start
  <2>2. order \in Seq(Ids) /\ order # <<>>
    BY ImportStateDbAssumption
  <2>3. WorkTypes'
    <3>1. starts' \in 0 .. MaxStarts
      <4>1. starts < MaxStarts /\ starts' = starts + 1 /\ starts \in 0 .. MaxStarts
        BY <1>1 DEF Start, Work, WorkTypes
      <4> QED
        BY <4>1, OneStartMore
    <3> QED
      BY <1>1, <2>1, <2>2, <3>1 DEF Start, Goto, Work, WorkTypes
  <2>4. WorkOf(p)'
    BY <1>1, <2>1, <2>2 DEF Start, Goto, Work, WorkTypes, WorkOf, Processes
  <2> QED
    BY <1>1, <2>1, <2>3, <2>4, WorkMove DEF Start, Goto, Work, WorkTypes
<1>2. CASE Exists(p)
  BY <1>2, WorkGoto DEF Exists
<1>3. CASE Touch(p)
  BY <1>3, WorkGoto, WorkExit DEF Touch, Work, WorkTypes, budget
<1>4. CASE Read(p)
  <2>0. PICK label \in {"inspect", "found", "write", "validated", "listing"} : Goto(p, label)
    BY <1>4 DEF Read, Holding
  <2>1. \/ pc[p] = "open" /\ label = "inspect"
        \/ pc[p] = "find" /\ label = "found"
        \/ pc[p] = "select" /\ label = "write"
        \/ pc[p] \in Looking /\ label \in Looking
    BY <1>4, <2>0 DEF Read, Holding, Goto, Work, WorkTypes
  <2> QED
    BY <1>4, <2>0, <2>1, WorkGoto DEF Read, Holding
<1>5. CASE Recover(p) \/ Reserve(p) \/ Pend(p) \/ Exclude(p) \/ WritePart(p) \/ WriteRest(p)
  <2>1. CASE Reserve(p)
    <3>1. PICK label \in {"create commit", "commit"} :
             /\ Goto(p, label)
             /\ (pc[p] = "create" /\ label = "create commit") \/ (pc[p] = "write" /\ label = "commit")
      BY <2>1 DEF Reserve, Writing, Goto, Work, WorkTypes
    <3> QED
      BY <2>1, <3>1, WorkGoto DEF Reserve
  <2>2. CASE ~Reserve(p)
    BY <1>5, <2>2 DEF Recover, Pend, Exclude, WritePart, WriteRest, Work, WorkTypes, WorkOf, budget
  <2> QED
    BY <2>1, <2>2
<1>6. CASE TimesOut(p) \/ ReadOnly(p) \/ Busy(p)
  BY <1>6, WorkUnavailable DEF TimesOut, ReadOnly, Busy
<1>7. CASE Inspect(p)
  BY <1>7, WorkGoto, WorkExit DEF Inspect, Work, WorkTypes, budget
<1>8. CASE Commit(p)
  <2>1. pc[p] \in Commits
    BY <1>8 DEF Commit, Locks, LockTypes, LockOf
  <2>2. PICK label \in {"run", "next"} :
           /\ Goto(p, label)
           /\ (pc[p] = "create commit" /\ label = "run") \/ (pc[p] = "commit" /\ label = "next")
    BY <1>8, <2>1 DEF Commit, Commits
  <2> QED
    BY <1>8, <2>2, WorkGoto DEF Commit
<1>9. CASE Run(p)
  <2>1. WorkTypes'
    BY <1>9 DEF Run, Goto, Work, WorkTypes, budget
  <2>2. WorkOf(p)'
    BY <1>9, NoneIsNoOutcome DEF Run, Goto, Work, WorkTypes, WorkOf
  <2> QED
    BY <1>9, <2>1, <2>2, WorkMove DEF Run, Goto, Work, WorkTypes
<1>10. CASE Found(p)
  <2>1. CASE UNCHANGED status
    BY <1>10, <2>1, WorkGoto DEF Found
  <2>2. CASE Goto(p, "next") /\ status' = [status EXCEPT ![p] = "imported"]
    <3>1. WorkTypes'
      BY <1>10, <2>2 DEF Found, Goto, Work, WorkTypes, budget
    <3>2. WorkOf(p)'
      BY <1>10, <2>2, NoneIsNoOutcome DEF Found, Goto, Work, WorkTypes, WorkOf
    <3> QED
      BY <1>10, <2>2, <3>1, <3>2, WorkMove DEF Found, Goto, Work, WorkTypes
  <2> QED
    BY <1>10, <2>1, <2>2 DEF Found
<1>11. CASE NextConversation(p)
  <2>1. CASE Len(todo[p]) = 1
    BY <1>11, <2>1, WorkExit DEF NextConversation, Work, WorkTypes, budget
  <2>2. CASE Len(todo[p]) # 1
    <3>1. todo[p] \in Seq(Ids) /\ todo[p] # <<>>
      BY <1>11 DEF NextConversation, Work, WorkTypes, WorkOf
    <3>2. Tail(todo[p]) \in Seq(Ids) /\ Tail(todo[p]) # <<>>
      BY <2>2, <3>1, LongTail
    <3>3. WorkTypes'
      BY <1>11, <2>2, <3>2 DEF NextConversation, Goto, Work, WorkTypes, budget
    <3>4. WorkOf(p)'
      BY <1>11, <2>2, <3>2 DEF NextConversation, Goto, Work, WorkTypes, WorkOf
    <3> QED
      BY <1>11, <2>2, <3>3, <3>4, WorkMove DEF NextConversation, Goto, Work, WorkTypes
  <2> QED
    BY <2>1, <2>2
<1>12. CASE Look(p)
  BY <1>12, WorkGoto, WorkExit DEF Look, Work, WorkTypes, budget
<1>13. CASE Validated(p)
  BY <1>13, WorkGoto, WorkExit DEF Validated, Work, WorkTypes, budget
<1>14. CASE List(p)
  <2>1. Tail(todo[p]) \in Seq(Ids)
    BY <1>14, HeadTailProperties DEF List, Work, WorkTypes
  <2>2. WorkTypes' /\ WorkOf(p)'
    BY <1>14, <2>1 DEF List, Work, WorkTypes, WorkOf, budget
  <2> QED
    BY <1>14, <2>2, WorkMove DEF List, Work, WorkTypes
<1>15. CASE Listed(p)
  BY <1>15, WorkExit DEF Listed, Work, WorkTypes, budget
<1>16. CASE Interrupt(p)
  <2>1. faults' \in 0 .. MaxFaults
    BY <1>16, OneFaultMore DEF Interrupt, Work, WorkTypes
  <2> QED
    BY <1>16, <2>1, WorkExit DEF Interrupt
<1>17. CASE Crash(p)
  <2>1. WorkTypes'
    <3>1. faults' \in 0 .. MaxFaults
      BY <1>17, OneFaultMore DEF Crash, Work, WorkTypes
    <3> QED
      BY <1>17, <3>1, EmptySeq DEF Crash, Goto, Work, WorkTypes
  <2>2. WorkOf(p)'
    BY <1>17 DEF Crash, Goto, Work, WorkTypes, WorkOf
  <2> QED
    BY <1>17, <2>1, <2>2, WorkMove DEF Crash, Goto, Work, WorkTypes
<1> QED
  BY <1>1, <1>2, <1>3, <1>4, <1>5, <1>6, <1>7, <1>8, <1>9, <1>10, <1>11, <1>12, <1>13, <1>14, <1>15, <1>16,
     <1>17 DEF Step

----------------------------------------------------------------------------
(* What is on disk, and what a transaction has read of it *)

FilesTypes ==
    /\ disk \in {None} \cup Written
    /\ journal \in {None} \cup Sound
    /\ view \in [Processes -> {None} \cup Sound]

\* A journal is the sound state before a write; half written pages have one.
JournalRules ==
    /\ journal # None => disk # None /\ journal.schema \in {"none", "ours"} /\ disk.schema # "foreign"
    /\ disk # None /\ disk.schema = "torn" => journal # None

\* Who holds a lock has read what a rollback would bring back.
FileOf(p) ==
    /\ pc[p] \notin {"idle", "exists", "touch", "look"} => disk # None
    /\ lock[p] \in {"shared", "reserved", "pending"} => journal = None /\ view[p] = disk
    /\ lock[p] = "exclusive" => journal # None /\ view[p] = journal
    /\ pc[p] \in {"create", "create commit"} => view[p].schema = "none"
    /\ pc[p] \in Past => Visible.schema = "ours"

Files == FilesTypes /\ JournalRules /\ \A p \in Processes : FileOf(p)

\* What is made of the values of the table is one of them.
LEMMA Values ==
    /\ Sound \subseteq Written /\ None \notin Written
    /\ Empty \in Sound /\ Other \in Sound
    /\ [Empty EXCEPT !.schema = "ours"] \in Sound
    /\ \A w \in Written : w.schema # "torn" => w \in Sound
    /\ \A w \in Written : [w EXCEPT !.schema = "torn"] \in Written
<1>1. None \notin Written
  BY ImportStateDbAssumption
<1> QED
  BY <1>1 DEF Sound, Written, Empty, Other, Rows

\* At first there is no file, or one of something else.
LEMMA FilesInit == Init => Files
<1> SUFFICES ASSUME Init PROVE Files
  OBVIOUS
<1>1. disk \in {None, Other}
  BY DEF Init
<1>2. disk # None => disk.schema = "foreign"
  BY <1>1 DEF Other
<1>3. FilesTypes
  BY <1>1, Values DEF Init, FilesTypes
<1> QED
  BY <1>2, <1>3 DEF Init, Files, JournalRules, FileOf, Past

\* A step of one process that leaves the file and the journal alone.
LEMMA FilesKeep ==
    ASSUME Files, UNCHANGED files, NEW p \in Processes, FilesTypes', FileOf(p)',
           \A q \in Processes \ {p} : pc'[q] = pc[q] /\ lock'[q] = lock[q] /\ view'[q] = view[q]
    PROVE  Files'
<1>1. ASSUME NEW q \in Processes \ {p} PROVE FileOf(q)'
  <2>1. FileOf(q) /\ pc'[q] = pc[q] /\ lock'[q] = lock[q] /\ view'[q] = view[q]
    BY <1>1 DEF Files
  <2>2. Visible' = Visible
    BY DEF files, Visible
  <2> QED
    BY <2>1, <2>2 DEF FileOf, files
<1>2. JournalRules'
  BY DEF Files, JournalRules, files
<1> QED
  BY <1>1, <1>2 DEF Files

\* A process that gives its lock back, or had none.
LEMMA FilesFree ==
    ASSUME Locks, Files, UNCHANGED files, NEW p \in Processes, NEW label \in Labels,
           pc' = [pc EXCEPT ![p] = label], lock' = [lock EXCEPT ![p] = "none"],
           view' = view \/ view' = [view EXCEPT ![p] = None],
           label \notin {"create", "create commit"},
           label \in {"idle", "exists", "touch", "look"} \/ disk # None,
           label \in Past => Visible.schema = "ours"
    PROVE  Files'
<1>1. FilesTypes'
  BY DEF Files, FilesTypes, files
<1>2. FileOf(p)'
  BY DEF Locks, LockTypes, FileOf, files, Visible
<1> QED
  BY <1>1, <1>2, FilesKeep DEF Locks, LockTypes, Files, FilesTypes

\* A command that ends leaves the file alone.
LEMMA FilesExit ==
    ASSUME Locks, Files, UNCHANGED files, NEW p \in Processes, NEW code, NEW error, Exit(p, code, error)
    PROVE  Files'
<1>1. "idle" \in Labels \ Past
  BY DEF Labels, Past
<1> QED
  BY <1>1, FilesFree DEF Exit, Goto, Lock

\* So does an operation that fails.
LEMMA FilesUnavailable ==
    ASSUME Locks, Files, UNCHANGED files, NEW p \in Processes, Unavailable(p)
    PROVE  Files'
<1>1. CASE pc[p] \in {"find", "select", "write", "commit"}
  <2>1. PICK label \in {"next", "select"} :
           Goto(p, label) /\ Lock(p, "none") /\ view' = [view EXCEPT ![p] = None]
    BY <1>1 DEF Unavailable
  <2>2. disk # None /\ Visible.schema = "ours"
    BY <1>1 DEF Files, FileOf, Past
  <2> QED
    BY <2>1, <2>2, FilesFree DEF Goto, Lock, Labels, Opening
<1>2. CASE pc[p] \notin {"find", "select", "write", "commit"}
  BY <1>2, FilesExit DEF Unavailable
<1> QED
  BY <1>1, <1>2

\* A process that has no lock moves without one.
LEMMA FilesWalk ==
    ASSUME Locks, Files, UNCHANGED files, NEW p \in Processes, NEW label \in Labels,
           Goto(p, label), UNCHANGED <<lock, view>>, pc[p] \notin Keeping \cup Commits,
           label \notin {"create", "create commit"},
           label \in {"idle", "exists", "touch", "look"} \/ disk # None,
           label \in Past => Visible.schema = "ours"
    PROVE  Files'
<1>1. lock' = [lock EXCEPT ![p] = "none"]
  BY DEF Locks, LockTypes, LockOf
<1> QED
  BY <1>1, FilesFree DEF Goto

\* A process that goes on with the lock and the pages it has.
LEMMA FilesStay ==
    ASSUME Locks, Files, UNCHANGED <<files, view>>, NEW p \in Processes, NEW label \in Labels,
           Goto(p, label), pc[p] \in Keeping \cup Commits,
           \/ UNCHANGED lock
           \/ \E kind \in {"reserved", "pending"} : Lock(p, kind) /\ lock[p] # "exclusive",
           label \in {"create", "create commit"} => view[p].schema = "none",
           label \in Past => Visible.schema = "ours"
    PROVE  Files'
<1>1. FilesTypes'
  BY DEF Files, FilesTypes, files
<1>2. FileOf(p) /\ disk # None
  BY DEF Files, FileOf, Keeping, Commits
<1>3. lock[p] \in {"shared", "reserved", "pending", "exclusive"}
  BY DEF Locks, LockOf, Writers
<1>4. FileOf(p)'
  BY <1>2, <1>3 DEF Locks, LockTypes, FileOf, Goto, Lock, files, Visible
<1> QED
  BY <1>1, <1>4, FilesKeep DEF Goto, Lock, Locks, LockTypes, Files, FilesTypes

\* A reader gets a sound state: without a journal nothing is half written.
LEMMA FilesRead ==
    ASSUME Locks, Files, NEW p \in Processes, Read(p)
    PROVE  Files'
<1>1. disk # None /\ FileOf(p) /\ lock[p] = "none"
  BY DEF Read, Holding, Opening, Files, FileOf, Locks, LockOf, Keeping, Commits
<1>2. journal = None
  BY <1>1 DEF Read, Readable, Hot, Others
<1>3. disk \in Sound
  BY <1>1, <1>2, Values DEF Files, FilesTypes, JournalRules
<1>4. FilesTypes'
  BY <1>3 DEF Read, Holding, Files, FilesTypes, files
<1>5. PICK label \in {"inspect", "found", "write", "validated", "listing"} :
         Goto(p, label) /\ (label \in Past => pc[p] \in Past)
  BY DEF Read, Holding, Opening, Past
<1>6. FileOf(p)'
  BY <1>1, <1>2, <1>5
     DEF Read, Holding, Goto, Lock, Locks, LockTypes, Files, FilesTypes, FileOf, files, Visible
<1> QED
  BY <1>4, <1>5, <1>6, FilesKeep DEF Read, Holding, Goto, Lock, Locks, LockTypes, Files, FilesTypes

\* The file is made while nobody has opened it.
LEMMA FilesTouch ==
    ASSUME Locks, Files, NEW p \in Processes, Touch(p), disk = None
    PROVE  Files'
<1>1. journal = None /\ disk' = Empty /\ journal' = None
  BY DEF Touch, Files, JournalRules
<1>2. FilesTypes' /\ JournalRules'
  BY <1>1, Values DEF Touch, Files, FilesTypes, JournalRules, Empty
<1>3. ASSUME NEW q \in Processes PROVE FileOf(q)'
  <2>1. pc[q] \in {"idle", "exists", "touch", "look"} /\ lock[q] = "none"
    BY <1>3 DEF Files, FileOf, Locks, LockOf, Keeping, Commits
  <2>2. pc'[q] \in {"idle", "exists", "touch", "look", "open"} /\ lock'[q] = "none"
    BY <2>1 DEF Touch, Goto, Locks, LockTypes
  <2>3. disk' # None
    BY <1>1, Values
  <2> QED
    BY <2>2, <2>3 DEF FileOf, Past
<1> QED
  BY <1>2, <1>3 DEF Files

\* A rollback is seen by nobody: no lock is held, and readers got the journal.
LEMMA FilesRecover ==
    ASSUME Locks, Files, NEW p \in Processes, Recover(p)
    PROVE  Files'
<1>1. journal # None /\ journal \in Sound /\ disk' = journal /\ journal' = None
  BY DEF Recover, Hot, Files, FilesTypes
<1>2. FilesTypes' /\ JournalRules'
  BY <1>1, Values DEF Recover, Files, FilesTypes, JournalRules
<1>3. ASSUME NEW q \in Processes PROVE FileOf(q)'
  <2>1. FileOf(q) /\ lock[q] = "none"
    BY <1>1 DEF Recover, Others, Files, Locks, LockOf, Opening, Keeping, Commits
  <2>2. Visible' = Visible
    BY <1>1 DEF Visible
  <2> QED
    BY <1>1, <2>1, <2>2 DEF FileOf, Recover
<1> QED
  BY <1>2, <1>3 DEF Files

\* The journal is the state the writer has read.
LEMMA FilesExclude ==
    ASSUME Locks, Files, NEW p \in Processes, Exclude(p)
    PROVE  Files'
<1>1. FileOf(p) /\ disk # None /\ journal = None /\ view[p] = disk
  BY DEF Exclude, Commits, Files, FileOf
<1>2. disk' = disk /\ journal' = disk /\ pc' = pc /\ view' = view
  BY DEF Exclude
<1>3. disk \in Sound /\ disk.schema \in {"none", "ours"}
  <2>1. disk \in Sound
    BY <1>1, Values DEF Files, FilesTypes, JournalRules
  <2>2. pc[p] \in Past => disk.schema = "ours"
    BY <1>1 DEF FileOf, Visible
  <2>3. pc[p] \in Past \/ pc[p] = "create commit"
    BY DEF Exclude, Commits, Past
  <2> QED
    BY <1>1, <2>1, <2>2, <2>3 DEF FileOf
<1>4. FilesTypes' /\ JournalRules'
  BY <1>1, <1>2, <1>3 DEF Files, FilesTypes, JournalRules
<1>5. ASSUME NEW q \in Processes PROVE FileOf(q)'
  <2>1. FileOf(q) /\ (q = p => lock'[q] = "exclusive") /\ (q # p => lock'[q] = "none")
    BY DEF Files, Exclude, Others, Lock, Locks, LockTypes
  <2>2. Visible' = Visible
    BY <1>1, <1>2 DEF Visible
  <2> QED
    BY <1>1, <1>2, <2>1, <2>2 DEF FileOf
<1> QED
  BY <1>4, <1>5 DEF Files

\* What a writer brings to the file: the empty table in storage that had none, or
\* the table it has read with one outcome replaced.
LEMMA PagesAre ==
    ASSUME Locks, Work, Files, NEW p \in Processes, lock[p] = "exclusive"
    PROVE  /\ Pages(p) \in Sound /\ Pages(p).schema = "ours"
           /\ journal \in Sound /\ disk \in Written /\ pc[p] \in Commits
           /\ pc[p] = "create commit" => /\ journal.schema = "none"
                                         /\ Pages(p).rows = [id \in Ids |-> None]
           /\ pc[p] = "commit" => /\ journal.schema = "ours"
                                  /\ Head(todo[p]) \in Ids /\ status[p] \in {"imported", "failed"}
                                  /\ Pages(p).rows = [journal.rows EXCEPT ![Head(todo[p])] = status[p]]
<1>1. pc[p] \in Commits
  BY DEF Locks, LockOf, Keeping, Writers
<1>2. view[p] = journal /\ journal \in Sound /\ disk \in Written
  BY <1>1 DEF Files, FilesTypes, FileOf, JournalRules, Commits
<1>3. CASE pc[p] = "create commit"
  <2>1. Pages(p) = [Empty EXCEPT !.schema = "ours"] /\ journal.schema = "none"
    BY <1>2, <1>3 DEF Pages, Files, FileOf
  <2>2. Pages(p).schema = "ours" /\ Pages(p).rows = [id \in Ids |-> None]
    BY <2>1 DEF Empty
  <2> QED
    BY <1>1, <1>2, <1>3, <2>1, <2>2, Values
<1>4. CASE pc[p] = "commit"
  <2>1. status[p] \in {"imported", "failed"} /\ Head(todo[p]) \in Ids
    BY <1>4, HeadTailProperties DEF Work, WorkTypes, WorkOf, Past
  <2>2. journal.schema = "ours"
    BY <1>2, <1>4, ImportStateDbAssumption DEF Files, FileOf, Visible, Past
  <2>3. Pages(p) = [journal EXCEPT !.rows[Head(todo[p])] = status[p]]
    BY <1>2, <1>4 DEF Pages
  <2>4. Pages(p) \in Sound /\ Pages(p).schema = "ours"
        /\ Pages(p).rows = [journal.rows EXCEPT ![Head(todo[p])] = status[p]]
    BY <1>2, <2>1, <2>2, <2>3 DEF Sound, Rows
  <2> QED
    BY <1>1, <1>2, <1>4, <2>1, <2>2, <2>4
<1> QED
  BY <1>1, <1>3, <1>4 DEF Commits

\* While it writes, readers get the journal, and no one else has a lock.
LEMMA FilesWrite ==
    ASSUME Locks, Work, Files, NEW p \in Processes, WritePart(p) \/ WriteRest(p)
    PROVE  Files'
<1>1. lock[p] = "exclusive" /\ journal # None /\ disk # None
  BY DEF WritePart, WriteRest, Files, FileOf, JournalRules
<1>2. disk' \in Written /\ disk'.schema # "foreign"
  <2>1. CASE WritePart(p)
    BY <1>1, <2>1, PagesAre, Values DEF WritePart, Written
  <2>2. CASE WriteRest(p)
    BY <1>1, <2>2, PagesAre, Values DEF WriteRest
  <2> QED
    BY <2>1, <2>2
<1>3. disk' # None /\ journal' = journal /\ pc' = pc /\ lock' = lock /\ view' = view
  BY <1>2, Values DEF WritePart, WriteRest
<1>4. FilesTypes' /\ JournalRules'
  BY <1>1, <1>2, <1>3 DEF Files, FilesTypes, JournalRules
<1>5. ASSUME NEW q \in Processes PROVE FileOf(q)'
  <2>1. FileOf(q) /\ lock[q] \in {"none", "exclusive"}
    BY <1>1 DEF Files, Locks, Exclusion
  <2>2. Visible' = Visible
    BY <1>1, <1>3 DEF Visible
  <2> QED
    BY <1>3, <2>1, <2>2 DEF FileOf
<1> QED
  BY <1>4, <1>5 DEF Files

\* With the journal gone, readers get the pages written, and nobody had read others.
LEMMA FilesCommit ==
    ASSUME Locks, Work, Files, NEW p \in Processes, Commit(p)
    PROVE  Files'
<1>1. lock[p] = "exclusive" /\ disk = Pages(p) /\ disk \in Sound /\ disk.schema = "ours" /\ disk # None
  BY PagesAre, Values DEF Commit
<1>2. disk' = disk /\ journal' = None /\ view' = [view EXCEPT ![p] = None]
  BY DEF Commit
<1>3. FilesTypes' /\ JournalRules'
  BY <1>1, <1>2 DEF Files, FilesTypes, JournalRules
<1>4. ASSUME NEW q \in Processes PROVE FileOf(q)'
  <2>1. lock'[q] = "none"
    BY <1>1 DEF Commit, Lock, Locks, LockTypes, Exclusion
  <2>2. pc'[q] \in {"create", "create commit"} => pc'[q] = pc[q] /\ q # p
    BY DEF Commit, Goto, Locks, LockTypes
  <2>3. pc[q] \in {"create", "create commit"} => lock[q] # "none"
    BY DEF Locks, LockOf, Keeping, Commits, Writers
  <2>4. q # p => lock[q] = "none"
    BY <1>1 DEF Locks, Exclusion
  <2>5. Visible'.schema = "ours"
    BY <1>1, <1>2 DEF Visible
  <2> QED
    BY <1>1, <1>2, <2>1, <2>2, <2>3, <2>4, <2>5 DEF FileOf
<1> QED
  BY <1>3, <1>4 DEF Files

\* Every step keeps the file, the journal and what was read of them together.
LEMMA FilesNext == Locks /\ Work /\ Files /\ [Next]_vars => Files'
<1> SUFFICES ASSUME Locks, Work, Files, [Next]_vars PROVE Files'
  OBVIOUS
<1>0. CASE UNCHANGED vars \/ Over
  <2>1. UNCHANGED <<disk, journal, lock, pc, view>>
    BY <1>0 DEF vars, Over
  <2>2. Visible' = Visible
    BY <2>1 DEF Visible
  <2>3. \A p \in Processes : FileOf(p)'
    BY <2>1, <2>2 DEF Files, FileOf
  <2> QED
    BY <2>1, <2>3 DEF Files, FilesTypes, JournalRules
<1> SUFFICES ASSUME NEW p \in Processes, Start(p) \/ Step(p) \/ Interrupt(p) \/ Crash(p) PROVE Files'
  BY <1>0 DEF Next
<1>p. FileOf(p)
  BY DEF Files
<1> USE DEF Labels, Opening, Past, Keeping, Commits
<1>1. CASE Start(p)
  BY <1>1, FilesWalk DEF Start
<1>2. CASE Exists(p)
  BY <1>2, FilesWalk DEF Exists
<1>3. CASE Touch(p)
  BY <1>3, FilesTouch, FilesExit DEF Touch, files
<1>4. CASE Read(p)
  BY <1>4, FilesRead
<1>5. CASE Recover(p)
  BY <1>5, FilesRecover
<1>6. CASE TimesOut(p) \/ ReadOnly(p) \/ Busy(p)
  BY <1>6, FilesUnavailable DEF TimesOut, ReadOnly, Busy
<1>7. CASE Inspect(p)
  <2>1. CASE view[p].schema = "none" /\ Goto(p, "create") /\ UNCHANGED <<lock, view>>
    BY <1>7, <2>1, FilesStay DEF Inspect
  <2>2. CASE view[p].schema = "ours" /\ Goto(p, "run") /\ Lock(p, "none") /\ view' = [view EXCEPT ![p] = None]
    <3>1. lock[p] = "shared" /\ Visible = disk /\ view[p] = disk
      BY <1>7, <1>p DEF Inspect, Locks, LockOf, FileOf, Visible
    <3> QED
      BY <1>7, <1>p, <2>2, <3>1, FilesFree DEF Inspect, Goto, Lock, FileOf
  <2>3. CASE Exit(p, 1, "corrupt")
    BY <1>7, <2>3, FilesExit DEF Inspect
  <2> QED
    BY <1>7, <2>1, <2>2, <2>3 DEF Inspect
<1>8. CASE Reserve(p)
  <2>1. lock[p] = "shared"
    BY <1>8 DEF Reserve, Writing, Locks, LockOf
  <2> QED
    BY <1>8, <1>p, <2>1, FilesStay DEF Reserve, Writing, FileOf
<1>9. CASE Pend(p)
  <2>1. Goto(p, pc[p])
    BY <1>9 DEF Pend, Goto, Locks, LockTypes
  <2> QED
    BY <1>9, <1>p, <2>1, FilesStay DEF Pend, FileOf
<1>10. CASE Exclude(p)
  BY <1>10, FilesExclude
<1>11. CASE WritePart(p) \/ WriteRest(p)
  BY <1>11, FilesWrite
<1>12. CASE Commit(p)
  BY <1>12, FilesCommit
<1>13. CASE Run(p)
  BY <1>13, <1>p, FilesWalk DEF Run, FileOf
<1>14. CASE Found(p)
  <2>1. disk # None /\ Visible.schema = "ours"
    BY <1>14, <1>p DEF Found, FileOf
  <2>2. PICK label \in {"select", "next"} : Goto(p, label)
    BY <1>14 DEF Found
  <2> QED
    BY <1>14, <2>1, <2>2, FilesFree DEF Found, Goto, Lock
<1>15. CASE NextConversation(p)
  BY <1>15, <1>p, FilesWalk, FilesExit DEF NextConversation, FileOf
<1>16. CASE Look(p)
  BY <1>16, FilesWalk, FilesExit DEF Look
<1>17. CASE Validated(p)
  BY <1>17, <1>p, FilesFree, FilesExit DEF Validated, Goto, Lock, FileOf
<1>18. CASE List(p)
  <2>1. Goto(p, pc[p])
    BY <1>18 DEF List, Goto, Locks, LockTypes
  <2> QED
    BY <1>18, <1>p, <2>1, FilesStay DEF List, FileOf
<1>19. CASE Listed(p)
  BY <1>19, FilesExit DEF Listed
<1>20. CASE Interrupt(p)
  BY <1>20, FilesExit DEF Interrupt
<1>21. CASE Crash(p)
  <2>1. pc' = [pc EXCEPT ![p] = "idle"] /\ lock' = [lock EXCEPT ![p] = "none"]
        /\ view' = [view EXCEPT ![p] = None] /\ UNCHANGED files
    BY <1>21 DEF Crash, Goto, Lock
  <2>2. "idle" \in Labels /\ "idle" \notin Past
    OBVIOUS
  <2> QED
    BY <2>1, <2>2, FilesFree
<1> QED
  BY <1>1, <1>2, <1>3, <1>4, <1>5, <1>6, <1>7, <1>8, <1>9, <1>10, <1>11, <1>12, <1>13, <1>14, <1>15,
     <1>16, <1>17, <1>18, <1>19, <1>20, <1>21 DEF Step

IInv == Locks /\ Work /\ Files

\* The inductive invariant.
LEMMA Invariance == Spec => []IInv
<1>1. Init => IInv
  BY LocksInit, WorkInit, FilesInit DEF IInv
<1>2. IInv /\ [Next]_vars => IInv'
  BY LocksNext, WorkNext, FilesNext DEF IInv
<1> QED
  BY <1>1, <1>2, PTL DEF Spec

----------------------------------------------------------------------------
(* Theorems *)

\* Every value has its type; what is half written is never read, and never what a
\* rollback brings back.
THEOREM TypeCorrect == Spec => []TypeOK
<1>1. IInv => TypeOK
  BY DEF IInv, Locks, LockTypes, Writers, Work, WorkTypes, Files, FilesTypes, TypeOK
<1> QED
  BY <1>1, Invariance, PTL

\* Between what a transaction has read and its commit no other process writes: the
\* decision to create the tables, to insert or to update still stands.
THEOREM DecisionStands == Spec => []DecisionIsCurrent
<1>1. IInv => DecisionIsCurrent
  <2> SUFFICES ASSUME IInv, NEW p \in Processes, pc[p] \in {"create", "write"} \cup Commits
               PROVE  view[p] = IF lock[p] = "exclusive" THEN journal ELSE disk
    BY DEF DecisionIsCurrent
  <2>1. lock[p] \in {"shared"} \cup Writers
    BY DEF IInv, Locks, LockOf, Keeping
  <2> QED
    BY <2>1 DEF IInv, Files, FileOf, Writers
<1> QED
  BY <1>1, Invariance, PTL

\* What a step does to what readers get: nothing, or it makes the file, or it commits.
LEMMA VisibleStep ==
    ASSUME IInv, [Next]_vars
    PROVE  \/ Visible' = Visible
           \/ Visible = None /\ Visible' = Empty
           \/ \E p \in Processes : /\ Commit(p) /\ lock[p] = "exclusive"
                                   /\ Visible = journal /\ journal # None /\ Visible' = Pages(p)
<1>0. CASE UNCHANGED files
  BY <1>0 DEF files, Visible
<1>1. CASE ~UNCHANGED files
  <2>1. PICK p \in Processes :
           \/ Touch(p) /\ disk = None
           \/ Recover(p) \/ Exclude(p) \/ WritePart(p) \/ WriteRest(p) \/ Commit(p)
    <3>1. PICK p \in Processes : Start(p) \/ Step(p) \/ Interrupt(p) \/ Crash(p)
      BY <1>1 DEF Next, Over, vars, files
    <3>2. CASE Start(p) \/ Interrupt(p) \/ Crash(p)
      BY <1>1, <3>2 DEF Start, Interrupt, Crash
    <3>3. CASE Step(p)
      BY <1>1, <3>3
         DEF Step, Exists, Touch, Read, Holding, TimesOut, ReadOnly, Inspect, Reserve, Busy, Pend, Run,
             Found, NextConversation, Look, Validated, List, Listed, files
    <3> QED
      BY <3>1, <3>2, <3>3
  <2>2. CASE Touch(p) /\ disk = None
    BY <2>2, Values DEF IInv, Files, JournalRules, Touch, Visible
  <2>3. CASE Recover(p)
    BY <2>3 DEF Recover, Hot, Visible
  <2>4. CASE Exclude(p)
    BY <2>4 DEF Exclude, IInv, Files, FileOf, Visible
  <2>5. CASE WritePart(p) \/ WriteRest(p)
    BY <2>5 DEF WritePart, WriteRest, IInv, Files, FileOf, Visible
  <2>6. CASE Commit(p)
    BY <2>6 DEF Commit, IInv, Files, FileOf, Visible
  <2> QED
    BY <2>1, <2>2, <2>3, <2>4, <2>5, <2>6
<1> QED
  BY <1>0, <1>1

\* Whatever the processes do and whatever is done to them, a reader sees the promised
\* table: none, then an empty one, then one outcome replaced whole at a time.
THEOREM Implements == Spec => ImplementsTable
<1>1. Init => AnyTable!Init
  <2> SUFFICES ASSUME Init PROVE Table \in {None, Foreign}
    BY DEF AnyTable!Init
  <2>1. Visible = None \/ Visible.schema = "foreign"
    BY DEF Init, Visible, Other
  <2> QED
    BY <2>1 DEF Table
<1>2. IInv /\ [Next]_vars => [AnyTable!Next]_Table
  <2> SUFFICES ASSUME IInv, [Next]_vars PROVE AnyTable!Next \/ Table' = Table
    OBVIOUS
  <2>1. CASE Visible' = Visible
    BY <2>1 DEF Table
  <2>2. CASE Visible = None /\ Visible' = Empty
    <3>1. Empty.schema = "none" /\ Empty # None
      BY Values DEF Empty
    <3> QED
      BY <2>2, <3>1 DEF Table
  <2>3. ASSUME NEW p \in Processes, Commit(p), lock[p] = "exclusive",
               Visible = journal, journal # None, Visible' = Pages(p)
        PROVE  AnyTable!Next
    <3>1. Pages(p) # None /\ Table' = Pages(p).rows
      BY <2>3, PagesAre, Values DEF IInv, Table
    <3>2. CASE pc[p] = "create commit"
      <4>1. Table = None /\ Table' = [id \in Ids |-> None]
        BY <2>3, <3>1, <3>2, PagesAre DEF IInv, Table
      <4> QED
        BY <4>1 DEF AnyTable!Next, AnyTable!Create
    <3>3. CASE pc[p] = "commit"
      <4>1. /\ Table = journal.rows /\ journal \in Sound
            /\ Head(todo[p]) \in Ids /\ status[p] \in {"imported", "failed"}
            /\ Table' = [journal.rows EXCEPT ![Head(todo[p])] = status[p]]
        BY <2>3, <3>1, <3>3, PagesAre DEF IInv, Table
      <4>2. Table \notin {None, Foreign}
        BY <4>1, ImportStateDbAssumption DEF Sound
      <4>3. AnyTable!Record(Head(todo[p]), status[p])
        BY <4>1, <4>2 DEF AnyTable!Record
      <4> QED
        BY <4>1, <4>3 DEF AnyTable!Next, AnyTable!Status
    <3> QED
      BY <2>3, <3>2, <3>3, PagesAre DEF IInv, Commits
  <2> QED
    BY <2>1, <2>2, <2>3, VisibleStep
<1> QED
  BY <1>1, <1>2, Invariance, PTL DEF Spec, ImplementsTable, AnyTable!Spec

-----------------------------------------------------------------------------
(* What the commands end with *)

\* How a command of an importer gets a new result.
LEMMA ResultStep ==
    ASSUME IInv, [Next]_vars, NEW p \in Importers, result'[p] # result[p], result'[p] # None
    PROVE  \/ result'[p].code = 1 /\ result'[p].error = "unavailable"
           \/ result'[p].code = 130 /\ result'[p].error = "interrupted"
           \/ /\ result'[p].code = 1 /\ result'[p].error = "corrupt"
              /\ Inspect(p) /\ view[p].schema \notin {"none", "ours"}
           \/ /\ result'[p].code \in {0, 1} /\ result'[p].error = None
              /\ NextConversation(p) /\ Len(todo[p]) = 1
              /\ result'[p].code = 0 => status[p] = "imported" /\ seen[p] = <<>>
<1>0. p \in Processes /\ result \in [Processes -> {None} \cup Answers]
  BY DEF Processes, IInv, Work, WorkTypes
<1>1. PICK q \in Processes : Start(q) \/ Step(q) \/ Interrupt(q) \/ Crash(q)
  BY DEF Next, Over, vars
<1>2. q = p
  <2> SUFFICES ASSUME q # p PROVE result'[p] = result[p]
    OBVIOUS
  <2>1. result' = result \/ \E r : result' = [result EXCEPT ![q] = r]
    BY <1>1
       DEF Start, Interrupt, Crash, Step, Exists, Touch, Read, Holding, Recover, TimesOut, ReadOnly, Inspect,
           Reserve, Busy, Pend, Exclude, WritePart, WriteRest, Commit, Run, Found, NextConversation, Look,
           Validated, List, Listed, Unavailable, Exit
  <2> QED
    BY <1>0, <2>1
<1>3. ASSUME NEW code, NEW error, Exit(p, code, error)
      PROVE  result'[p].code = code /\ result'[p].error = error
  BY <1>0, <1>3 DEF Exit
<1>4. CASE Start(p)
  BY <1>0, <1>4 DEF Start
<1>5. CASE Touch(p) \/ TimesOut(p) \/ ReadOnly(p) \/ Busy(p)
  BY <1>3, <1>5 DEF Touch, TimesOut, ReadOnly, Busy, Unavailable
<1>6. CASE Inspect(p)
  BY <1>3, <1>6 DEF Inspect
<1>7. CASE NextConversation(p)
  <2>1. Len(todo[p]) = 1
    BY <1>7 DEF NextConversation
  <2>2. PICK code \in {0, 1} : Exit(p, code, None) /\ (code = 0 => status[p] = "imported" /\ seen[p] = <<>>)
    BY <1>7, <2>1 DEF NextConversation
  <2>3. result'[p].code = code /\ result'[p].error = None
    BY <1>3, <2>2
  <2> QED
    BY <1>7, <2>1, <2>2, <2>3
<1>8. CASE Look(p) \/ Validated(p) \/ Listed(p)
  BY <1>0, <1>8 DEF Look, Validated, Listed, IInv, Work, WorkOf, Looking
<1>9. CASE Interrupt(p)
  BY <1>3, <1>9 DEF Interrupt
<1>10. CASE Exists(p) \/ Read(p) \/ Recover(p) \/ Reserve(p) \/ Pend(p) \/ Exclude(p) \/ WritePart(p)
            \/ WriteRest(p) \/ Commit(p) \/ Run(p) \/ Found(p) \/ List(p) \/ Crash(p)
  BY <1>10 DEF Exists, Read, Holding, Recover, Reserve, Pend, Exclude, WritePart, WriteRest, Commit, Run,
               Found, List, Crash
<1> QED
  BY <1>1, <1>2, <1>4, <1>5, <1>6, <1>7, <1>8, <1>9, <1>10 DEF Step

\* An importer that refused storage as corrupt met a database of something else, and
\* nothing writes to such a file.
CorruptIsForeign ==
    \A p \in Importers : result[p] # None /\ result[p].error = "corrupt" =>
        disk # None /\ disk.schema = "foreign"

\* No step makes storage of the program's own look corrupt.
LEMMA CorruptNext == IInv /\ IInv' /\ CorruptIsForeign /\ [Next]_vars => CorruptIsForeign'
<1> SUFFICES ASSUME IInv, IInv', CorruptIsForeign, [Next]_vars, NEW p \in Importers,
                    result'[p] # None, result'[p].error = "corrupt"
             PROVE  disk' # None /\ disk'.schema = "foreign"
  BY DEF CorruptIsForeign
<1>1. disk # None /\ disk.schema = "foreign"
  <2>1. CASE result'[p] = result[p]
    BY <2>1 DEF CorruptIsForeign
  <2>2. CASE result'[p] # result[p]
    <3>1. p \in Processes /\ Inspect(p) /\ view[p].schema \notin {"none", "ours"}
      BY <2>2, ResultStep, NoneIsNoOutcome DEF Processes
    <3>2. lock[p] = "shared" /\ view[p] = disk /\ disk # None
      BY <3>1 DEF Inspect, IInv, Locks, LockOf, Keeping, Files, FileOf
    <3>3. disk \in Sound
      BY <3>1, <3>2, Values DEF IInv, Files, FilesTypes
    <3> QED
      BY <3>1, <3>2, <3>3 DEF Sound
  <2> QED
    BY <2>1, <2>2
<1>2. journal = None /\ Visible = disk
  BY <1>1 DEF IInv, Files, JournalRules, Visible
<1>3. Visible' = disk
  BY <1>1, <1>2, VisibleStep
<1> QED
  BY <1>1, <1>3 DEF IInv, Files, JournalRules, Visible

\* No order of importers, crashes and interrupts leaves storage that a later import
\* refuses as corrupt, unless the file was of something else.
THEOREM SoundStorage == Spec => []SoundStorageIsNeverCorrupt
<1>1. Init => CorruptIsForeign
  BY DEF Init, CorruptIsForeign, Processes
<1>2. CorruptIsForeign => SoundStorageIsNeverCorrupt
  BY DEF CorruptIsForeign, SoundStorageIsNeverCorrupt
<1> QED
  BY <1>1, <1>2, CorruptNext, Invariance, PTL DEF Spec

\* The conversations an importer still has before it, or a status command has to list.
Ahead(p) == {todo[p][k] : k \in 1 .. Len(todo[p])}

\* Readers get a table with an outcome for it.
Kept(id) == Visible # None /\ Visible.schema = "ours" /\ Visible.rows[id] # None

\* No step takes an outcome away.
LEMMA KeptStays ==
    ASSUME IInv, [Next]_vars, NEW id \in Ids, Kept(id)
    PROVE  Kept(id)'
<1>1. CASE Visible' = Visible
  BY <1>1 DEF Kept
<1>2. ASSUME NEW p \in Processes, Commit(p), lock[p] = "exclusive",
             Visible = journal, journal # None, Visible' = Pages(p)
      PROVE  Kept(id)'
  <2>1. Pages(p) # None /\ Pages(p).schema = "ours" /\ pc[p] = "commit" /\ journal \in Sound
        /\ Pages(p).rows = [journal.rows EXCEPT ![Head(todo[p])] = status[p]]
        /\ status[p] \in {"imported", "failed"}
    BY <1>2, PagesAre, Values DEF IInv, Kept, Commits
  <2>2. journal.rows[id] # None /\ journal.rows \in Rows
    BY <1>2, <2>1 DEF Kept, Sound
  <2>3. Pages(p).rows[id] # None
    BY <2>1, <2>2, NoneIsNoOutcome DEF Rows
  <2> QED
    BY <1>2, <2>1, <2>3 DEF Kept
<1> QED
  BY <1>1, <1>2, VisibleStep DEF Kept

\* The elements of a sequence: its head and those of its tail.
LEMMA AheadOfTail ==
    ASSUME NEW s \in Seq(Ids), s # <<>>
    PROVE  {s[k] : k \in 1 .. Len(s)} = {Head(s)} \cup {Tail(s)[k] : k \in 1 .. Len(Tail(s))}
<1>1. Len(s) \in Nat \ {0} /\ Len(Tail(s)) = Len(s) - 1
  BY EmptySeq, HeadTailProperties
<1>2. \A k \in 1 .. Len(Tail(s)) : Tail(s)[k] = s[k + 1] /\ k + 1 \in 1 .. Len(s)
  BY <1>1, HeadTailProperties
<1>3. \A k \in 1 .. Len(s) : k = 1 \/ (k - 1 \in 1 .. Len(Tail(s)) /\ (k - 1) + 1 = k)
  BY <1>1
<1>4. Head(s) = s[1] /\ 1 \in 1 .. Len(s)
  BY <1>1
<1>5. ASSUME NEW k \in 1 .. Len(s)
      PROVE  s[k] \in {Head(s)} \cup {Tail(s)[i] : i \in 1 .. Len(Tail(s))}
  BY <1>2, <1>3, <1>4, <1>5
<1> QED
  BY <1>2, <1>4, <1>5

\* A command that passes one conversation has the others before it.
LEMMA AheadMoves ==
    ASSUME NEW p \in Processes, todo[p] \in Seq(Ids), todo[p] # <<>>, todo'[p] = Tail(todo[p])
    PROVE  Ahead(p) = {Head(todo[p])} \cup Ahead(p)'
<1>1. Ahead(p) = {Head(todo[p])} \cup {Tail(todo[p])[k] : k \in 1 .. Len(Tail(todo[p]))}
  BY AheadOfTail DEF Ahead
<1>2. Ahead(p)' = {Tail(todo[p])[k] : k \in 1 .. Len(Tail(todo[p]))}
  BY DEF Ahead
<1> QED
  BY <1>1, <1>2

\* The last conversation is the only one before its command.
LEMMA AheadOfOne ==
    ASSUME NEW s \in Seq(Ids), Len(s) = 1
    PROVE  {s[k] : k \in 1 .. Len(s)} = {Head(s)}
<1>1. s # <<>>
  BY EmptySeq
<1>2. Len(Tail(s)) = 0
  BY <1>1, HeadTailProperties
<1> QED
  BY <1>1, <1>2, AheadOfTail

\* A command comes by every conversation.
LEMMA AheadAtFirst ==
    ASSUME NEW order \in Orders
    PROVE  order \in Seq(Ids) /\ {order[k] : k \in 1 .. Len(order)} = Ids
<1>1. order \in Seq(Ids) /\ \A id \in Ids : \E k \in 1 .. Len(order) : order[k] = id
  BY ImportStateDbAssumption
<1> QED
  BY <1>1, ElementOfSeq

Fresh == Before \cup {"look", "validate", "validated", "list"}

\* How far a command has come: what an importer has passed without a failure is on
\* disk; what a status command has passed is in its list as it is on disk.
CourseOf(p) ==
    /\ pc[p] \in Fresh => Ahead(p) = Ids /\ seen[p] = <<>>
    /\ pc[p] \in Past /\ seen[p] = <<>> => \A id \in Ids \ Ahead(p) : Kept(id)
    /\ pc[p] = "next" /\ status[p] = "imported" => Kept(Head(todo[p]))
    /\ pc[p] = "listing" =>
          /\ \A i \in 1 .. Len(seen[p]) : \E id \in Ids : seen[p][i] = <<id, disk.rows[id]>>
          /\ \A id \in Ids \ Ahead(p) : \E i \in 1 .. Len(seen[p]) : seen[p][i] = <<id, disk.rows[id]>>

ResultOf(p) == p \in Importers /\ result[p] # None /\ result[p].code = 0 => \A id \in Ids : Kept(id)

Rec == {"failed"} \cup (Ids \X {None, "imported", "failed"})

Account ==
    /\ seen \in [Processes -> Seq(Rec)]
    /\ \A p \in Processes : CourseOf(p) /\ ResultOf(p)

\* What seen holds of an importer: nothing, or that something failed.
LEMMA FailedOnce == <<>> \in Seq(Rec) /\ <<"failed">> \in Seq(Rec)
<1>1. "failed" \in Rec
  BY DEF Rec
<1>2. ASSUME NEW S, NEW e \in S PROVE <<e>> \in Seq(S)
  OBVIOUS
<1> QED
  BY <1>1, <1>2, EmptySeq

\* At first there is nothing to account for.
LEMMA AccountInit == Init => Account
BY EmptySeq DEF Init, Account, CourseOf, ResultOf, Fresh, Before, Past

\* A result of code 0 comes with an outcome for all, and these stay.
LEMMA ResultKept ==
    ASSUME IInv, [Next]_vars, NEW p \in Processes, CourseOf(p), ResultOf(p)
    PROVE  ResultOf(p)'
<1> SUFFICES ASSUME p \in Importers, result'[p] # None, result'[p].code = 0, NEW id \in Ids
             PROVE  Kept(id)'
  BY DEF ResultOf
<1>1. Kept(id)
  <2>1. CASE result'[p] = result[p]
    BY <2>1 DEF ResultOf
  <2>2. CASE result'[p] # result[p]
    <3>1. NextConversation(p) /\ Len(todo[p]) = 1 /\ status[p] = "imported" /\ seen[p] = <<>>
      BY <2>2, ResultStep
    <3>2. pc[p] = "next" /\ todo[p] \in Seq(Ids)
      BY <3>1 DEF NextConversation, IInv, Work, WorkTypes
    <3>3. Ahead(p) = {Head(todo[p])}
      BY <3>1, <3>2, AheadOfOne DEF Ahead
    <3> QED
      BY <3>1, <3>2, <3>3 DEF CourseOf, Past
  <2> QED
    BY <2>1, <2>2
<1> QED
  BY <1>1, KeptStays

\* A process that stays where it is, whatever the others do.
LEMMA CourseStays ==
    ASSUME IInv, IInv', [Next]_vars, NEW q \in Processes, CourseOf(q), pc'[q] = pc[q], view'[q] = view[q],
           todo'[q] = todo[q], seen'[q] = seen[q], status'[q] = status[q]
    PROVE  CourseOf(q)'
<1>1. Ahead(q)' = Ahead(q)
  BY DEF Ahead
<1>2. pc[q] = "listing" => disk' = disk
  <2>1. pc[q] = "listing" => view[q] = disk
    BY DEF IInv, Locks, LockOf, Keeping, Files, FileOf
  <2>2. pc'[q] = "listing" => view'[q] = disk'
    BY DEF IInv, Locks, LockOf, Keeping, Files, FileOf
  <2> QED
    BY <2>1, <2>2
<1>3. pc[q] = "next" => Head(todo[q]) \in Ids
  BY HeadTailProperties DEF IInv, Work, WorkTypes, WorkOf, Past
<1> QED
  BY <1>1, <1>2, <1>3, KeptStays DEF CourseOf

\* A process that moves with the same before it and behind it.
LEMMA CourseGoes ==
    ASSUME IInv, [Next]_vars, NEW p \in Processes, CourseOf(p), todo'[p] = todo[p], seen'[p] = seen[p],
           \/ pc[p] \in Past /\ pc'[p] \in Past
           \/ pc[p] \in Fresh /\ pc'[p] \in Fresh \cup {"run"},
           pc'[p] = "next" /\ status'[p] = "imported" => Kept(Head(todo[p]))'
    PROVE  CourseOf(p)'
<1>1. Ahead(p)' = Ahead(p)
  BY DEF Ahead
<1>2. pc'[p] # "listing" /\ (pc'[p] \in Fresh => pc[p] \in Fresh)
  BY DEF Past, Fresh, Before
<1>3. seen[p] = <<>> => \A id \in Ids \ Ahead(p) : Kept(id)'
  BY KeptStays DEF CourseOf
<1> QED
  BY <1>1, <1>2, <1>3 DEF CourseOf

\* A command that has ended has nothing to account for but its result.
LEMMA CourseEnds ==
    ASSUME NEW p \in Processes, pc'[p] = "idle"
    PROVE  CourseOf(p)'
BY DEF CourseOf, Fresh, Before, Past

\* A step of one process leaves the others where they are.
LEMMA OthersStay ==
    ASSUME IInv, Account, NEW p \in Processes, Start(p) \/ Step(p) \/ Interrupt(p) \/ Crash(p),
           NEW q \in Processes \ {p}
    PROVE  /\ pc'[q] = pc[q] /\ view'[q] = view[q] /\ todo'[q] = todo[q]
           /\ seen'[q] = seen[q] /\ status'[q] = status[q]
<1>1. /\ pc' = pc \/ \E v : pc' = [pc EXCEPT ![p] = v]
      /\ view' = view \/ \E v : view' = [view EXCEPT ![p] = v]
      /\ todo' = todo \/ \E v : todo' = [todo EXCEPT ![p] = v]
      /\ seen' = seen \/ \E v : seen' = [seen EXCEPT ![p] = v]
      /\ status' = status \/ \E v : status' = [status EXCEPT ![p] = v]
  <2>1. CASE Start(p) \/ Interrupt(p) \/ Crash(p)
    BY <2>1 DEF Start, Interrupt, Crash, Exit, Goto
  <2>2. CASE Exists(p) \/ Read(p) \/ Recover(p) \/ Reserve(p) \/ Pend(p) \/ Exclude(p) \/ WritePart(p) \/ WriteRest(p)
    BY <2>2 DEF Exists, Read, Holding, Recover, Reserve, Pend, Exclude, WritePart, WriteRest, Goto
  <2>3. CASE Touch(p) \/ Inspect(p) \/ Look(p) \/ Validated(p) \/ Listed(p)
    BY <2>3 DEF Touch, Inspect, Look, Validated, Listed, Exit, Goto
  <2>4. CASE TimesOut(p) \/ ReadOnly(p) \/ Busy(p)
    BY <2>4 DEF TimesOut, ReadOnly, Busy, Unavailable, Exit, Goto
  <2>5. CASE Commit(p) \/ Run(p) \/ Found(p) \/ List(p)
    BY <2>5 DEF Commit, Run, Found, List, Goto
  <2>6. CASE NextConversation(p)
    BY <2>6 DEF NextConversation, Exit, Goto
  <2> QED
    BY <2>1, <2>2, <2>3, <2>4, <2>5, <2>6 DEF Step
<1>2. /\ DOMAIN pc = Processes /\ DOMAIN view = Processes /\ DOMAIN todo = Processes
      /\ DOMAIN seen = Processes /\ DOMAIN status = Processes
  BY DEF IInv, Locks, LockTypes, Files, FilesTypes, Work, WorkTypes, Account
<1> QED
  BY <1>1, <1>2

\* One conversation after the other: what was passed without a failure is on disk.
LEMMA CourseNextConversation ==
    ASSUME IInv, Account, [Next]_vars, NEW p \in Processes, NextConversation(p)
    PROVE  CourseOf(p)' /\ seen' \in [Processes -> Seq(Rec)]
<1>1. CourseOf(p) /\ pc \in [Processes -> Labels] /\ todo \in [Processes -> Seq(Ids)]
      /\ seen \in [Processes -> Seq(Rec)] /\ pc[p] = "next" /\ todo[p] \in Seq(Ids) /\ todo[p] # <<>>
  BY DEF Account, IInv, Work, WorkTypes, WorkOf, NextConversation, Past
<1>2. CASE Len(todo[p]) = 1
  BY <1>1, <1>2, CourseEnds DEF NextConversation, Exit, Goto
<1>3. CASE Len(todo[p]) # 1
  <2>1. /\ pc'[p] = "run" /\ todo'[p] = Tail(todo[p])
        /\ seen' \in [Processes -> Seq(Rec)]
        /\ seen'[p] = <<>> => status[p] = "imported" /\ seen[p] = <<>>
    <3>1. PICK s \in {<<>>, <<"failed">>} :
             seen' = [seen EXCEPT ![p] = s] /\ (s = <<>> => status[p] = "imported" /\ seen[p] = <<>>)
      BY <1>3 DEF NextConversation
    <3>2. s \in Seq(Rec)
      BY FailedOnce
    <3> QED
      BY <1>1, <1>3, <3>1, <3>2 DEF NextConversation, Goto
  <2>2. Ahead(p) = {Head(todo[p])} \cup Ahead(p)'
    BY <1>1, <2>1, AheadMoves
  <2>3. ASSUME seen'[p] = <<>>, NEW id \in Ids \ Ahead(p)' PROVE Kept(id)'
    <3>1. Kept(id)
      BY <1>1, <2>1, <2>2, <2>3 DEF CourseOf, Past
    <3> QED
      BY <3>1, KeptStays
  <2> QED
    BY <2>1, <2>3 DEF CourseOf, Fresh, Before, Past
<1> QED
  BY <1>2, <1>3

\* One row after the other: what was passed is in the list, as it is on disk.
LEMMA CourseList ==
    ASSUME IInv, IInv', Account, NEW p \in Processes, List(p)
    PROVE  CourseOf(p)' /\ seen' \in [Processes -> Seq(Rec)]
<1> DEFINE row == <<Head(todo[p]), disk.rows[Head(todo[p])]>>
<1>1. /\ CourseOf(p) /\ pc[p] = "listing" /\ pc'[p] = "listing" /\ disk' = disk
      /\ todo[p] \in Seq(Ids) /\ todo[p] # <<>> /\ todo'[p] = Tail(todo[p])
      /\ seen \in [Processes -> Seq(Rec)] /\ seen' = [seen EXCEPT ![p] = Append(@, row)]
  BY DEF Account, IInv, Work, WorkTypes, List, files
<1>2. Head(todo[p]) \in Ids /\ row \in Rec
  <2>1. Head(todo[p]) \in Ids
    BY <1>1, HeadTailProperties
  <2>2. disk \in Written
    BY <1>1 DEF IInv, Files, FilesTypes, FileOf
  <2>3. disk.rows[Head(todo[p])] \in {None, "imported", "failed"}
    BY <2>1, <2>2 DEF Written, Rows
  <2> QED
    BY <2>1, <2>3 DEF Rec
<1> HIDE DEF row
<1>3. /\ seen'[p] = Append(seen[p], row) /\ seen[p] \in Seq(Rec)
      /\ seen' \in [Processes -> Seq(Rec)] /\ Len(seen'[p]) = Len(seen[p]) + 1 /\ Len(seen[p]) \in Nat
      /\ \A i \in 1 .. Len(seen[p]) : seen'[p][i] = seen[p][i]
      /\ seen'[p][Len(seen[p]) + 1] = row
  BY <1>1, <1>2, AppendProperties, LenProperties
<1>4. ASSUME NEW i \in 1 .. Len(seen'[p]) PROVE \E id \in Ids : seen'[p][i] = <<id, disk.rows[id]>>
  <2>1. CASE i = Len(seen[p]) + 1
    BY <1>2, <1>3, <2>1 DEF row
  <2>2. CASE i # Len(seen[p]) + 1
    BY <1>1, <1>3, <2>2 DEF CourseOf
  <2> QED
    BY <2>1, <2>2
<1>5. ASSUME NEW id \in Ids \ Ahead(p)' PROVE \E i \in 1 .. Len(seen'[p]) : seen'[p][i] = <<id, disk.rows[id]>>
  <2>1. Ahead(p) = {Head(todo[p])} \cup Ahead(p)'
    BY <1>1, AheadMoves
  <2>2. CASE id = Head(todo[p])
    <3>1. Len(seen[p]) + 1 \in 1 .. Len(seen'[p])
      BY <1>3
    <3> QED
      BY <1>3, <2>2, <3>1 DEF row
  <2>3. CASE id # Head(todo[p])
    <3>1. PICK i \in 1 .. Len(seen[p]) : seen[p][i] = <<id, disk.rows[id]>>
      BY <1>1, <2>1, <2>3 DEF CourseOf
    <3>2. i \in 1 .. Len(seen'[p])
      BY <1>3
    <3> QED
      BY <1>3, <3>1, <3>2
  <2> QED
    BY <2>2, <2>3
<1> QED
  BY <1>1, <1>3, <1>4, <1>5 DEF CourseOf, Fresh, Before, Past

\* Every step of a process keeps account of what it has passed.
LEMMA CourseMoves ==
    ASSUME IInv, IInv', Account, [Next]_vars, NEW p \in Processes,
           Start(p) \/ Step(p) \/ Interrupt(p) \/ Crash(p)
    PROVE  CourseOf(p)' /\ seen' \in [Processes -> Seq(Rec)]
<1>0. /\ CourseOf(p) /\ pc \in [Processes -> Labels] /\ todo \in [Processes -> Seq(Ids)]
      /\ status \in [Processes -> {None, "imported", "failed", "lost"}] /\ seen \in [Processes -> Seq(Rec)]
  BY DEF Account, IInv, Work, WorkTypes
<1> USE DEF Past, Fresh, Before
<1>1. CASE Start(p)
  <2>1. PICK order \in Orders : todo' = [todo EXCEPT ![p] = order]
    BY <1>1 DEF Start
  <2>2. todo'[p] = order /\ seen'[p] = <<>> /\ seen' \in [Processes -> Seq(Rec)]
    BY <1>0, <1>1, <2>1, EmptySeq DEF Start
  <2>3. pc'[p] \in {"exists", "look"}
    BY <1>0, <1>1 DEF Start, Goto
  <2>4. Ahead(p)' = Ids
    BY <2>2, AheadAtFirst DEF Ahead
  <2> QED
    BY <2>2, <2>3, <2>4 DEF CourseOf
<1>2. CASE NextConversation(p)
  BY <1>2, CourseNextConversation
<1>3. CASE List(p)
  BY <1>3, CourseList
<1>4. CASE Interrupt(p) \/ Crash(p) \/ Listed(p)
  BY <1>0, <1>4, CourseEnds DEF Interrupt, Crash, Listed, Exit, Goto
<1>5. CASE Recover(p) \/ Pend(p) \/ Exclude(p) \/ WritePart(p) \/ WriteRest(p)
  <2>1. UNCHANGED <<pc, view, todo, seen, status>>
    BY <1>5 DEF Recover, Pend, Exclude, WritePart, WriteRest
  <2> QED
    BY <1>0, <2>1, CourseStays
<1>6. CASE Exists(p) \/ Touch(p) \/ Inspect(p) \/ Look(p) \/ Validated(p)
  <2>1. UNCHANGED seen
    BY <1>6 DEF Exists, Touch, Inspect, Look, Validated
  <2>2. \/ pc'[p] = "idle"
        \/ pc[p] \in Fresh /\ pc'[p] \in Fresh \cup {"run"} /\ UNCHANGED todo
    <3>1. CASE Exists(p) \/ Touch(p)
      BY <1>0, <3>1 DEF Exists, Touch, Exit, Goto
    <3>2. CASE Inspect(p)
      BY <1>0, <3>2 DEF Inspect, Exit, Goto
    <3>3. CASE Look(p) \/ Validated(p)
      BY <1>0, <3>3 DEF Look, Validated, Exit, Goto
    <3> QED
      BY <1>6, <3>1, <3>2, <3>3
  <2> QED
    BY <1>0, <2>1, <2>2, CourseGoes, CourseEnds
<1>7. CASE TimesOut(p) \/ ReadOnly(p) \/ Busy(p)
  <2>1. UNCHANGED seen /\ Unavailable(p)
    BY <1>7 DEF TimesOut, ReadOnly, Busy
  <2>2. CASE pc[p] \in {"find", "select", "write", "commit"}
    <3>1. pc'[p] \in {"next", "select"} /\ (pc'[p] = "next" => status'[p] = "lost") /\ UNCHANGED todo
      BY <1>0, <2>1, <2>2 DEF Unavailable, Goto
    <3> QED
      BY <1>0, <2>1, <2>2, <3>1, CourseGoes
  <2>3. CASE pc[p] \notin {"find", "select", "write", "commit"}
    BY <1>0, <2>1, <2>3, CourseEnds DEF Unavailable, Exit, Goto
  <2> QED
    BY <2>2, <2>3
<1>8. CASE Read(p)
  <2>1. UNCHANGED <<todo, seen>>
    BY <1>8 DEF Read, Holding
  <2>2. CASE pc[p] = "list"
    <3>1. Ahead(p)' = Ids /\ seen'[p] = <<>> /\ pc'[p] = "listing"
      BY <1>0, <1>8, <2>1, <2>2 DEF CourseOf, Ahead, Read, Holding, Goto
    <3>2. Len(seen'[p]) = 0
      BY <3>1, EmptySeq
    <3>3. Ids \ Ahead(p)' = {} /\ 1 .. Len(seen'[p]) = {}
      BY <3>1, <3>2
    <3> QED
      BY <1>0, <2>1, <3>1, <3>3 DEF CourseOf
  <2>3. CASE pc[p] # "list"
    <3>1. \/ pc[p] \in {"find", "select"} /\ pc'[p] \in {"found", "write"}
          \/ pc[p] \in {"open", "validate"} /\ pc'[p] \in {"inspect", "validated"}
      BY <1>0, <1>8, <2>3 DEF Read, Holding, Opening, Goto
    <3> QED
      BY <1>0, <2>1, <3>1, CourseGoes
  <2> QED
    BY <2>2, <2>3
<1>9. CASE Reserve(p)
  <2>1. UNCHANGED <<todo, seen>>
    BY <1>9 DEF Reserve
  <2>2. (pc[p] = "create" /\ pc'[p] = "create commit") \/ (pc[p] = "write" /\ pc'[p] = "commit")
    BY <1>0, <1>9 DEF Reserve, Writing, Goto
  <2> QED
    BY <1>0, <2>1, <2>2, CourseGoes
<1>10. CASE Commit(p)
  <2>1. UNCHANGED <<todo, seen, status>> /\ lock[p] = "exclusive" /\ disk = Pages(p) /\ Visible' = disk
    BY <1>10 DEF Commit, Visible
  <2>2. CASE pc[p] = "create commit"
    BY <1>0, <1>10, <2>1, <2>2, CourseGoes DEF Commit, Goto
  <2>3. CASE pc[p] = "commit"
    <3>1. pc'[p] = "next"
      BY <1>0, <1>10, <2>3 DEF Commit, Goto
    <3>2. /\ disk \in Sound /\ disk.schema = "ours" /\ journal \in Sound
          /\ Head(todo[p]) \in Ids /\ status[p] \in {"imported", "failed"}
          /\ disk.rows = [journal.rows EXCEPT ![Head(todo[p])] = status[p]]
      BY <2>1, <2>3, PagesAre DEF IInv
    <3>3. disk.rows[Head(todo[p])] # None /\ disk # None
      BY <3>2, NoneIsNoOutcome, Values DEF Sound, Rows
    <3>4. Kept(Head(todo[p]))'
      BY <2>1, <3>2, <3>3 DEF Kept
    <3> QED
      BY <1>0, <2>1, <2>3, <3>1, <3>4, CourseGoes
  <2> QED
    BY <2>1, <2>2, <2>3, PagesAre DEF IInv, Commits
<1>11. CASE Run(p)
  <2>1. pc[p] = "run" /\ pc'[p] = "find" /\ UNCHANGED <<todo, seen>>
    BY <1>0, <1>11 DEF Run, Goto
  <2> QED
    BY <1>0, <2>1, CourseGoes
<1>12. CASE Found(p)
  <2>1. pc[p] = "found" /\ pc'[p] \in {"select", "next"} /\ UNCHANGED <<todo, seen>>
    BY <1>0, <1>12 DEF Found, Goto
  <2>2. pc'[p] = "next" => view[p].rows[Head(todo[p])] = "imported"
    BY <1>0, <1>12 DEF Found, Goto
  <2>3. view[p] = disk /\ journal = None /\ disk # None /\ Visible.schema = "ours"
    BY <1>12 DEF Found, IInv, Locks, LockOf, Keeping, Files, FileOf
  <2>4. Head(todo[p]) \in Ids
    BY <1>0, <2>1, HeadTailProperties DEF IInv, Work, WorkOf
  <2>5. pc'[p] = "next" => Kept(Head(todo[p]))
    BY <2>2, <2>3, NoneIsNoOutcome DEF Kept, Visible
  <2>6. pc'[p] = "next" => Kept(Head(todo[p]))'
    BY <2>1, <2>4, <2>5, KeptStays DEF Kept
  <2> QED
    BY <1>0, <2>1, <2>6, CourseGoes
<1> QED
  BY <1>1, <1>2, <1>3, <1>4, <1>5, <1>6, <1>7, <1>8, <1>9, <1>10, <1>11, <1>12 DEF Step

\* Every step of any process keeps the account of all.
LEMMA AccountNext == IInv /\ IInv' /\ Account /\ [Next]_vars => Account'
<1> SUFFICES ASSUME IInv, IInv', Account, [Next]_vars PROVE Account'
  OBVIOUS
<1>1. ASSUME NEW p \in Processes PROVE ResultOf(p)'
  BY <1>1, ResultKept DEF Account
<1>2. seen' \in [Processes -> Seq(Rec)] /\ \A p \in Processes : CourseOf(p)'
  <2>1. CASE UNCHANGED vars
    BY <2>1, CourseStays DEF vars, Account
  <2>2. CASE ~UNCHANGED vars
    <3>1. PICK p \in Processes : Start(p) \/ Step(p) \/ Interrupt(p) \/ Crash(p)
      BY <2>2 DEF Next, Over
    <3>2. ASSUME NEW q \in Processes \ {p} PROVE CourseOf(q)'
      BY <3>1, <3>2, OthersStay, CourseStays DEF Account
    <3> QED
      BY <3>1, <3>2, CourseMoves
  <2> QED
    BY <2>1, <2>2
<1> QED
  BY <1>1, <1>2 DEF Account

\* The account is kept.
LEMMA Accounted == Spec => []Account
BY AccountInit, AccountNext, Invariance, PTL DEF Spec

\* An import that ended with code 0 left an outcome on disk for every conversation,
\* and no later step takes it away.
THEOREM SuccessRecorded == Spec => []SuccessIsRecorded
<1>1. Account => SuccessIsRecorded
  BY DEF Account, ResultOf, SuccessIsRecorded, Kept, Processes
<1> QED
  BY <1>1, Accounted, PTL

\* The list of a status command is the table as it is when the list is complete.
THEOREM ReportTrue == Spec => []ReportIsCurrent
<1>1. IInv /\ Account => ReportIsCurrent
  <2> SUFFICES ASSUME IInv, Account, NEW p \in Readers, pc[p] = "listing", todo[p] = <<>>
               PROVE  {seen[p][i] : i \in DOMAIN seen[p]} = {<<id, Visible.rows[id]>> : id \in Ids}
    BY DEF ReportIsCurrent
  <2>1. p \in Processes /\ CourseOf(p) /\ DOMAIN seen[p] = 1 .. Len(seen[p])
    BY LenProperties DEF Account, Processes
  <2>2. Visible = disk
    BY <2>1 DEF IInv, Locks, LockOf, Keeping, Files, FileOf, Visible
  <2>3. Ahead(p) = {}
    BY EmptySeq DEF Ahead
  <2>4. \A i \in 1 .. Len(seen[p]) : \E id \in Ids : seen[p][i] = <<id, disk.rows[id]>>
    BY <2>1 DEF CourseOf
  <2>5. \A id \in Ids : \E i \in 1 .. Len(seen[p]) : seen[p][i] = <<id, disk.rows[id]>>
    BY <2>1, <2>3 DEF CourseOf
  <2>6. ASSUME NEW i \in 1 .. Len(seen[p]) PROVE seen[p][i] \in {<<id, Visible.rows[id]>> : id \in Ids}
    BY <2>2, <2>4
  <2>7. ASSUME NEW id \in Ids PROVE <<id, Visible.rows[id]>> \in {seen[p][i] : i \in DOMAIN seen[p]}
    <3>1. PICK i \in 1 .. Len(seen[p]) : seen[p][i] = <<id, Visible.rows[id]>>
      BY <2>2, <2>5
    <3> QED
      BY <2>1, <3>1
  <2> QED
    BY <2>1, <2>6, <2>7
<1> QED
  BY <1>1, Invariance, Accounted, PTL
=============================================================================
