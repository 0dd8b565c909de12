--------------------------- MODULE PipelineProofs ---------------------------
(***************************************************************************)
(* What holds of the pipeline for any number of conversations, versions,   *)
(* runs and faults.                                                        *)
(***************************************************************************)
EXTENDS Pipeline, TLAPS

(* Every variable keeps its type, whatever faults occur. *)
THEOREM TypeCorrect == Spec => []TypeOK
<1> USE PipelineAssumption DEF Versions, Absent, Corrupt
<1>0. <<>> \in Seq(Answer) /\ <<>> \in Seq(ConversationOutcome)
  OBVIOUS
<1>1. Init => TypeOK
  <2> SUFFICES ASSUME Init PROVE TypeOK
    OBVIOUS
  <2> USE DEF Init
  <2>1. /\ archive \in [Ids -> Versions \cup {Absent, Corrupt}]
        /\ memory \in [Ids -> Versions \cup {Absent}]
        /\ limbo \in [Ids -> SUBSET Versions]
        /\ records \in [Ids -> ImportRecord \cup {None}]
        /\ newest \in [Ids -> Versions \cup {Absent}]
    OBVIOUS
  <2>2. /\ budget \in 0 .. MaxFaults
        /\ todo \in SUBSET Ids
        /\ item \in Item \cup {None}
        /\ error \in RecordedStage \cup {None}
    OBVIOUS
  <2> QED
    BY <1>0, <2>1, <2>2 DEF TypeOK
<1>2. TypeOK /\ [Next]_vars => TypeOK'
  <2> SUFFICES ASSUME TypeOK, [Next]_vars
               PROVE  TypeOK'
    OBVIOUS
  <2> USE DEF TypeOK, store, world, reader, Fault
  <2>1. ASSUME NEW i \in Ids, NEW c \in Versions, ReadConversation(i, c)
        PROVE  TypeOK'
    BY <2>1 DEF ReadConversation, Answered, Answer, Item, Latest
  <2>2. ASSUME NEW i \in Ids, NEW subject \in Ids \cup {None}, ReadMalformed(i, subject)
        PROVE  TypeOK'
    BY <2>2 DEF ReadMalformed, Answered, Answer, SourceFailed, ConversationOutcome, Stage
  <2>3. ASSUME NEW i \in Ids, ReadDuplicate(i)
        PROVE  TypeOK'
    BY <2>3 DEF ReadDuplicate, Answered, Answer, SourceFailed, ConversationOutcome, Stage
  <2>4. CASE ReadTruncated
    BY <2>4 DEF ReadTruncated, Answered, Answer, SourceFailed, ConversationOutcome, Stage
  <2>5. CASE ReadUnavailable
    BY <2>5 DEF ReadUnavailable, Answered, Answer
  <2>6. ASSUME NEW i \in Ids, ReadCorrupt(i)
        PROVE  TypeOK'
    BY <2>6 DEF ReadCorrupt, Answered, Answer
  <2>7. CASE ReadEnd
    BY <2>7 DEF ReadEnd
  <2>28. ASSUME NEW i \in Ids, ReadEscapes(i)
         PROVE  TypeOK'
    BY <2>28 DEF ReadEscapes, Answered, Answer
  <2>8. CASE HashFails
    BY <2>8 DEF HashFails, Finish, Item, ConversationOutcome, Stage
  <2>9. CASE FindFails
    BY <2>9 DEF FindFails, Fail, RecordedStage, Stage
  <2>10. CASE Skip
    BY <2>10 DEF Skip, Finish, Item, ConversationOutcome
  <2>11. CASE Prepare
    BY <2>11 DEF Prepare
  <2>12. ASSUME NEW stage \in {"sanitize", "classify", "enrich"}, PrepareFails(stage)
         PROVE  TypeOK'
    BY <2>12 DEF PrepareFails, Fail, RecordedStage, Stage
  <2>13. CASE Archive
    BY <2>13 DEF Archive, Item
  <2>14. CASE ArchiveFails
    BY <2>14 DEF ArchiveFails, Fail, Item, RecordedStage, Stage
  <2>15. CASE Retain
    BY <2>15 DEF Retain, Item
  <2>16. CASE RetainFails
    <3>1. item \in Item /\ item' = item
      BY <2>16 DEF RetainFails, Fail
    <3>2. limbo' \in [Ids -> SUBSET Versions]
      BY <2>16, <3>1 DEF RetainFails, Item
    <3>3. budget' \in 0 .. MaxFaults
      BY <2>16 DEF RetainFails
    <3>4. error' \in RecordedStage /\ error' # None /\ pc' = "failing"
      BY <2>16, PipelineAssumption DEF RetainFails, Fail, RecordedStage, Stage
    <3> QED
      BY <2>16, <3>1, <3>2, <3>3, <3>4, PipelineAssumption DEF RetainFails, Fail
  <2>17. CASE Record
    BY <2>17 DEF Record, Finish, Item, ConversationOutcome, ImportRecord
  <2>18. CASE RecordFails
    BY <2>18 DEF RecordFails, Fail, RecordedStage, Stage
  <2>19. CASE RecordFailure
    <3>1. item.id \in Ids /\ item.content \in Versions /\ error \in RecordedStage
      BY <2>19 DEF RecordFailure, Item
    <3>2. records' \in [Ids -> ImportRecord \cup {None}]
      BY <2>19, <3>1 DEF RecordFailure, ImportRecord
    <3>3. outcomes' \in Seq(ConversationOutcome)
      BY <2>19, <3>1 DEF RecordFailure, Finish, ConversationOutcome, RecordedStage
    <3> QED
      BY <2>19, <3>2, <3>3 DEF RecordFailure, Finish
  <2>20. CASE RecordFailureFails
    BY <2>20 DEF RecordFailureFails, Finish, Item, ConversationOutcome, RecordedStage
  <2>21. CASE Exit
    BY <1>0, <2>21 DEF Exit, Forget
  <2>22. ASSUME NEW ids \in SUBSET Ids, BeginExport(ids)
         PROVE  TypeOK'
    BY <2>22 DEF BeginExport
  <2>23. CASE BeginReplay
    BY <2>23 DEF BeginReplay
  <2>24. CASE Crash
    <3>1. limbo' \in [Ids -> SUBSET Versions]
      BY <2>24 DEF Crash, Item
    <3>2. budget' \in 0 .. MaxFaults
      BY <2>24 DEF Crash
    <3>3. /\ UNCHANGED <<archive, memory, records, newest>>
          /\ Forget
      BY <2>24 DEF Crash
    <3> QED
      BY <1>0, <3>1, <3>2, <3>3 DEF Forget
  <2>25. ASSUME NEW i \in Ids, NEW c \in Versions, LateRetention(i, c)
         PROVE  TypeOK'
    <3>1. limbo' \in [Ids -> SUBSET Versions]
      BY <2>25 DEF LateRetention
    <3>2. memory' \in [Ids -> Versions \cup {Absent}]
      BY <2>25 DEF LateRetention
    <3> QED
      BY <2>25, <3>1, <3>2 DEF LateRetention
  <2>26. ASSUME NEW i \in Ids, CorruptRecord(i)
         PROVE  TypeOK'
    BY <2>26 DEF CorruptRecord
  <2>27. CASE UNCHANGED vars
    BY <2>27 DEF vars
  <2> QED
    BY <2>1, <2>2, <2>3, <2>4, <2>5, <2>6, <2>7, <2>8, <2>9, <2>10, <2>11, <2>12, <2>13,
       <2>14, <2>15, <2>16, <2>17, <2>18, <2>19, <2>20, <2>21, <2>22, <2>23, <2>24,
       <2>25, <2>26, <2>27, <2>28 DEF Next, Step, Read, Process
<1> QED
  BY <1>1, <1>2, PTL DEF Spec

-----------------------------------------------------------------------------
(* The bookkeeping of one run, whatever faults occur. *)

\* The source yields an identity as a conversation once, and then never again.
YieldedOnce ==
    /\ \A k \in 1 .. Len(answers) :
          answers[k].kind = "conversation" => answers[k].id \in Ids \ todo
    /\ \A j, k \in 1 .. Len(answers) :
          (/\ answers[j].kind = "conversation"
           /\ answers[k].kind = "conversation"
           /\ answers[j].id = answers[k].id) => j = k

RunInv ==
    /\ OutcomesFollowSource
    /\ ReportMatchesState
    /\ YieldedOnce
    /\ pc = "idle" => answers = <<>> /\ outcomes = <<>> /\ terminal = None
    /\ terminal # None => pc = "reported"
    /\ item # None => answers[Len(answers)] =
                         [kind |-> "conversation", id |-> item.id, content |-> item.content]
    /\ pc \in {"retaining", "recording"} => archive[item.id] = item.content

LEMMA RunInvInit == Init => RunInv
  BY PipelineAssumption
     DEF Init, RunInv, OutcomesFollowSource, ReportMatchesState, YieldedOnce

\* A failed outcome for an answer that is no conversation.
LEMMA SourceFailureKeepsRunInv ==
  ASSUME TypeOK, RunInv, pc = "reading", pc' = "reading",
         NEW kind \in {"malformed", "truncated"}, NEW id \in Ids \cup {None},
         Answered(kind, id, Absent), SourceFailed(id),
         todo' \subseteq todo,
         UNCHANGED <<store, item, terminal>>
  PROVE  RunInv'
<1> DEFINE a == [kind |-> kind, id |-> id, content |-> Absent]
           o == [id |-> id, status |-> "failed", error |-> "source", unrecorded |-> FALSE]
<1>1. /\ answers \in Seq(Answer) /\ outcomes \in Seq(ConversationOutcome)
      /\ item = None /\ terminal = None
      /\ Len(answers) = Len(outcomes)
      /\ item' = None /\ terminal' = None /\ records' = records
  BY DEF TypeOK, RunInv, OutcomesFollowSource, store
<1>2. answers' = Append(answers, a) /\ outcomes' = Append(outcomes, o)
  BY DEF Answered, SourceFailed
<1>3. /\ Len(answers') = Len(answers) + 1 /\ Len(outcomes') = Len(outcomes) + 1
      /\ \A k \in 1 .. Len(answers) : answers'[k] = answers[k] /\ outcomes'[k] = outcomes[k]
      /\ answers'[Len(answers) + 1] = a /\ outcomes'[Len(answers) + 1] = o
  BY <1>1, <1>2
<1>4. Len(answers) \in Nat
  BY <1>1
<1>5. a.kind # "conversation" /\ a.id = o.id /\ o.error = "source"
  OBVIOUS
<1> HIDE DEF a, o
<1>6. OutcomesFollowSource'
  BY <1>1, <1>3, <1>4, <1>5 DEF RunInv, OutcomesFollowSource
<1>7. ReportMatchesState'
  BY <1>1, <1>3, <1>4, <1>5 DEF RunInv, ReportMatchesState
<1>8. YieldedOnce'
  <2>1. \A k \in 1 .. Len(answers') : k \in 1 .. Len(answers) \/ answers'[k].kind # "conversation"
    BY ONLY <1>3, <1>4, <1>5
  <2>2. \A k \in 1 .. Len(answers') : answers'[k].kind = "conversation" =>
           k \in 1 .. Len(answers) /\ answers'[k] = answers[k]
    BY ONLY <1>3, <2>1
  <2>3. todo' \subseteq todo /\ YieldedOnce
    BY DEF RunInv
  <2> QED
    BY ONLY <2>2, <2>3 DEF YieldedOnce
<1> QED
  BY <1>1, <1>6, <1>7, <1>8 DEF RunInv

\* The outcome of the conversation in hand, with the record it leaves.
LEMMA FinishKeepsRunInv ==
  ASSUME TypeOK, RunInv, item # None,
         NEW status \in {"imported", "skipped", "failed"},
         NEW stage \in (Stage \ {"source"}) \cup {None}, NEW unrecorded \in BOOLEAN,
         Finish(status, stage, unrecorded),
         \A i \in Ids \ {item.id} : records'[i] = records[i],
         status # "failed" => records'[item.id] = Imported(item.content),
         (status = "failed" /\ stage # "hash" /\ ~unrecorded)
            => records'[item.id] = Failed(item.content, stage),
         UNCHANGED <<archive, answers, todo, terminal>>
  PROVE  RunInv'
<1> DEFINE o == [id |-> item.id, status |-> status, error |-> stage,
                 unrecorded |-> unrecorded]
           n == Len(outcomes) + 1
<1>0. None # "source"
  BY PipelineAssumption DEF Stage
<1>1. /\ answers \in Seq(Answer) /\ outcomes \in Seq(ConversationOutcome)
      /\ item \in Item /\ pc # "reported"
      /\ Len(answers) = n /\ Len(outcomes) \in Nat
      /\ answers' = answers /\ item' = None /\ terminal = None /\ terminal' = None
  BY DEF TypeOK, RunInv, OutcomesFollowSource, Finish
<1>2. outcomes' = Append(outcomes, o)
  BY DEF Finish
<1>3. /\ Len(outcomes') = n
      /\ \A k \in 1 .. Len(outcomes) : outcomes'[k] = outcomes[k]
      /\ outcomes'[n] = o
  BY <1>1, <1>2
<1>4. /\ answers[n].kind = "conversation" /\ answers[n].id = item.id
      /\ answers[n].content = item.content
  BY <1>1 DEF RunInv
<1>5. /\ o.id = item.id /\ o.status = status /\ o.error = stage
      /\ o.unrecorded = unrecorded
  OBVIOUS
<1> HIDE DEF o
<1>6. OutcomesFollowSource'
  BY <1>0, <1>1, <1>3, <1>4, <1>5 DEF RunInv, OutcomesFollowSource
<1>7. ReportMatchesState'
  <2> SUFFICES ASSUME NEW k \in 1 .. n, answers[k].kind = "conversation"
               PROVE  LET record == records'[answers[k].id] IN
                      /\ outcomes'[k].status # "failed"
                            => record = Imported(answers[k].content)
                      /\ (/\ outcomes'[k].status = "failed"
                          /\ outcomes'[k].error # "hash"
                          /\ ~outcomes'[k].unrecorded)
                         => record = Failed(answers[k].content, outcomes'[k].error)
    BY <1>1, <1>3 DEF ReportMatchesState, Imported, Failed
  <2>1. CASE k = n
    BY <2>1, <1>3, <1>4, <1>5
  <2>2. CASE k # n
    <3>1. k \in 1 .. Len(outcomes)
      BY <1>1, <2>2
    <3>2. answers[k].id \in Ids \ {item.id}
      BY <1>1, <1>4, <2>2 DEF RunInv, YieldedOnce
    <3> QED
      BY <1>3, <3>1, <3>2 DEF RunInv, ReportMatchesState
  <2> QED
    BY <2>1, <2>2
<1>8. YieldedOnce'
  BY <1>1 DEF RunInv, YieldedOnce
<1> QED
  BY <1>1, <1>6, <1>7, <1>8 DEF RunInv, Finish

\* A step that neither hears from the source nor reports.
LEMMA QuietKeepsRunInv ==
  ASSUME TypeOK, RunInv, pc # "idle", pc' # "idle",
         UNCHANGED <<records, answers, outcomes, item, terminal>>,
         todo' \subseteq todo,
         terminal # None => pc' = "reported",
         pc' \in {"retaining", "recording"} => archive'[item.id] = item.content
  PROVE  RunInv'
<1>1. OutcomesFollowSource' /\ ReportMatchesState'
  BY DEF RunInv, OutcomesFollowSource, ReportMatchesState, Imported, Failed
<1>2. YieldedOnce'
  BY DEF RunInv, YieldedOnce
<1> QED
  BY <1>1, <1>2 DEF RunInv

\* Nothing of the run is left.
LEMMA ForgetKeepsRunInv == Forget => RunInv'
  BY PipelineAssumption
     DEF Forget, RunInv, OutcomesFollowSource, ReportMatchesState, YieldedOnce

\* The conversation that is read becomes the item and the last answer.
LEMMA ReadKeepsRunInv ==
  ASSUME TypeOK, TypeOK', RunInv, NEW i \in Ids, NEW c \in Versions, ReadConversation(i, c)
  PROVE  RunInv'
<1> DEFINE a == [kind |-> "conversation", id |-> i, content |-> c]
<1>1. /\ answers \in Seq(Answer) /\ outcomes \in Seq(ConversationOutcome)
      /\ item = None /\ item' # None /\ item'.id = i /\ item'.content = c
      /\ terminal = None /\ terminal' = None
      /\ Len(answers) = Len(outcomes) /\ Len(answers) \in Nat
      /\ i \in todo /\ todo' = todo \ {i}
      /\ records' = records /\ outcomes' = outcomes /\ pc' = "looking"
      /\ answers' = Append(answers, a)
  BY DEF TypeOK, RunInv, OutcomesFollowSource, ReadConversation, Answered, store
<1>2. /\ Len(answers') = Len(answers) + 1
      /\ \A k \in 1 .. Len(answers) : answers'[k] = answers[k]
      /\ answers'[Len(answers) + 1] = a
  BY <1>1
<1>3. a.kind = "conversation" /\ a.id = i /\ a.content = c
  OBVIOUS
<1>4. OutcomesFollowSource'
  BY <1>1, <1>2 DEF RunInv, OutcomesFollowSource
<1>5. ReportMatchesState'
  BY <1>1, <1>2 DEF RunInv, ReportMatchesState
<1> HIDE DEF a
<1>6. YieldedOnce'
  BY <1>1, <1>2, <1>3 DEF RunInv, YieldedOnce
<1>7. a = [kind |-> "conversation", id |-> item'.id, content |-> item'.content]
  BY <1>1 DEF a
<1> QED
  BY <1>1, <1>2, <1>4, <1>5, <1>6, <1>7 DEF RunInv

\* The answer that ends the run has no outcome.
LEMMA TerminalKeepsRunInv ==
  ASSUME TypeOK, RunInv, pc = "reading",
         NEW kind \in {"escaped", "unavailable", "corrupt"}, NEW id \in Ids \cup {None},
         Answered(kind, id, Absent),
         terminal' = "source", pc' = "reported",
         todo' \subseteq todo,
         UNCHANGED <<store, item, outcomes>>
  PROVE  RunInv'
<1> DEFINE a == [kind |-> kind, id |-> id, content |-> Absent]
<1>1. /\ answers \in Seq(Answer) /\ outcomes \in Seq(ConversationOutcome)
      /\ item = None /\ item' = None /\ terminal = None /\ terminal' # None
      /\ Len(answers) = Len(outcomes) /\ Len(answers) \in Nat
      /\ records' = records /\ outcomes' = outcomes
      /\ answers' = Append(answers, a)
  BY PipelineAssumption DEF TypeOK, RunInv, OutcomesFollowSource, Answered, store, Stage
<1>2. /\ Len(answers') = Len(answers) + 1
      /\ \A k \in 1 .. Len(answers) : answers'[k] = answers[k]
      /\ answers'[Len(answers) + 1] = a
      /\ a.kind # "conversation"
  BY <1>1
<1> HIDE DEF a
<1>3. OutcomesFollowSource'
  BY <1>1, <1>2 DEF RunInv, OutcomesFollowSource
<1>4. ReportMatchesState'
  BY <1>1, <1>2 DEF RunInv, ReportMatchesState
<1>5. YieldedOnce'
  BY <1>1, <1>2 DEF RunInv, YieldedOnce
<1> QED
  BY <1>1, <1>3, <1>4, <1>5 DEF RunInv

LEMMA RunInvNext == TypeOK /\ TypeOK' /\ RunInv /\ [Next]_vars => RunInv'
<1> SUFFICES ASSUME TypeOK, TypeOK', RunInv, [Next]_vars
             PROVE  RunInv'
  OBVIOUS
<1>0. /\ item # None => item \in Item
      /\ terminal # None => pc = "reported"
  BY DEF TypeOK, RunInv
<1>1. ASSUME NEW i \in Ids, NEW c \in Versions, ReadConversation(i, c)
      PROVE  RunInv'
  BY <1>1, ReadKeepsRunInv
<1>2. ASSUME NEW i \in Ids, NEW subject \in Ids \cup {None}, ReadMalformed(i, subject)
      PROVE  RunInv'
  BY <1>2, SourceFailureKeepsRunInv DEF ReadMalformed
<1>3. ASSUME NEW i \in Ids, ReadDuplicate(i)
      PROVE  RunInv'
  BY <1>3, SourceFailureKeepsRunInv DEF ReadDuplicate
<1>4. CASE ReadTruncated
  BY <1>4, SourceFailureKeepsRunInv DEF ReadTruncated
<1>5. CASE ReadUnavailable
  BY <1>5, TerminalKeepsRunInv DEF ReadUnavailable
<1>6. ASSUME NEW i \in Ids, ReadCorrupt(i)
      PROVE  RunInv'
  BY <1>6, TerminalKeepsRunInv DEF ReadCorrupt
<1>7. CASE ReadEnd
  BY <1>7, QuietKeepsRunInv DEF ReadEnd, store, reader
<1>28. ASSUME NEW i \in Ids, ReadEscapes(i)
       PROVE  RunInv'
  BY <1>28, TerminalKeepsRunInv DEF ReadEscapes
<1>8. CASE HashFails
  BY <1>8, FinishKeepsRunInv DEF HashFails, TypeOK, store, reader, Stage
<1>9. CASE FindFails
  BY <1>0, <1>9, QuietKeepsRunInv DEF FindFails, Fail, store, reader
<1>10. CASE Skip
  <2>1. records[item.id] = Imported(item.content)
    BY <1>10 DEF Skip, MaySkip, TypeOK, ImportRecord, Imported, Failed, Item
  <2> QED
    BY <1>10, <2>1, FinishKeepsRunInv DEF Skip, TypeOK, store, reader
<1>11. CASE Prepare
  BY <1>0, <1>11, QuietKeepsRunInv DEF Prepare, store, reader
<1>12. ASSUME NEW stage \in {"sanitize", "classify", "enrich"}, PrepareFails(stage)
       PROVE  RunInv'
  BY <1>0, <1>12, QuietKeepsRunInv DEF PrepareFails, Fail, store, reader
<1>13. CASE Archive
  BY <1>0, <1>13, QuietKeepsRunInv DEF Archive, TypeOK, Item, reader
<1>14. CASE ArchiveFails
  BY <1>0, <1>14, QuietKeepsRunInv DEF ArchiveFails, Fail, reader
<1>15. CASE Retain
  BY <1>0, <1>15, QuietKeepsRunInv DEF Retain, RunInv, reader
<1>16. CASE RetainFails
  BY <1>0, <1>16, QuietKeepsRunInv DEF RetainFails, Fail, reader
<1>17. CASE Record
  <2>1. item # None /\ item.id \in Ids /\ records \in [Ids -> ImportRecord \cup {None}]
    BY <1>17 DEF Record, TypeOK, Item
  <2>2. /\ records'[item.id] = Imported(item.content)
        /\ \A i \in Ids \ {item.id} : records'[i] = records[i]
    BY ONLY <1>17, <2>1 DEF Record
  <2> QED
    BY <1>17, <2>1, <2>2, FinishKeepsRunInv DEF Record, reader
<1>18. CASE RecordFails
  BY <1>0, <1>18, QuietKeepsRunInv DEF RecordFails, Fail, store, reader
<1>19. CASE RecordFailure
  <2>1. /\ item # None /\ item.id \in Ids /\ records \in [Ids -> ImportRecord \cup {None}]
        /\ error \in Stage \ {"source"}
    BY <1>19 DEF RecordFailure, TypeOK, Item, RecordedStage
  <2>2. /\ records'[item.id] = Failed(item.content, error)
        /\ \A i \in Ids \ {item.id} : records'[i] = records[i]
    BY ONLY <1>19, <2>1 DEF RecordFailure
  <2> QED
    BY <1>19, <2>1, <2>2, FinishKeepsRunInv DEF RecordFailure, reader
<1>20. CASE RecordFailureFails
  BY <1>20, FinishKeepsRunInv DEF RecordFailureFails, TypeOK, store, reader, RecordedStage
<1>21. CASE Exit
  BY <1>21, ForgetKeepsRunInv DEF Exit
<1>22. ASSUME NEW ids \in SUBSET Ids, BeginExport(ids)
       PROVE  RunInv'
  BY <1>22 DEF BeginExport, RunInv, OutcomesFollowSource, ReportMatchesState, YieldedOnce,
               TypeOK
<1>23. CASE BeginReplay
  BY <1>23 DEF BeginReplay, RunInv, OutcomesFollowSource, ReportMatchesState, YieldedOnce,
               TypeOK
<1>24. CASE Crash
  BY <1>24, ForgetKeepsRunInv DEF Crash
<1>25. ASSUME NEW i \in Ids, NEW c \in Versions, LateRetention(i, c)
       PROVE  RunInv'
  BY <1>25 DEF LateRetention, RunInv, OutcomesFollowSource, ReportMatchesState, YieldedOnce,
               reader
<1>26. ASSUME NEW i \in Ids, CorruptRecord(i)
       PROVE  RunInv'
  BY <1>26 DEF CorruptRecord, RunInv, OutcomesFollowSource, ReportMatchesState, YieldedOnce,
               reader
<1>27. CASE UNCHANGED vars
  BY <1>27 DEF vars, RunInv, OutcomesFollowSource, ReportMatchesState, YieldedOnce
<1> QED
  BY <1>1, <1>2, <1>3, <1>4, <1>5, <1>6, <1>7, <1>8, <1>9, <1>10, <1>11, <1>12, <1>13,
     <1>14, <1>15, <1>16, <1>17, <1>18, <1>19, <1>20, <1>21, <1>22, <1>23, <1>24, <1>25,
     <1>26, <1>27, <1>28 DEF Next, Step, Read, Process

LEMMA RunInvariant == Spec => []RunInv
  BY TypeCorrect, RunInvInit, RunInvNext, PTL DEF Spec

(* Every outcome stands for one answer of the source, and what it says is what  *)
(* the import state says, after any faults: Pipeline!OutcomesFollowSource and   *)
(* Pipeline!ReportMatchesState.                                                 *)
THEOREM OutcomesFollow == Spec => []OutcomesFollowSource
<1>1. RunInv => OutcomesFollowSource
  BY DEF RunInv
<1> QED
  BY <1>1, RunInvariant, PTL

(* The import state never contradicts the report of the run. *)
THEOREM ReportMatches == Spec => []ReportMatchesState
<1>1. RunInv => ReportMatchesState
  BY DEF RunInv
<1> QED
  BY <1>1, RunInvariant, PTL

(* The engine never comes to hold what the archive does not, on any path. *)
THEOREM ArchiveFirst == Spec => ArchivedBeforeRetained
<1> DEFINE A == \A i \in Ids : Held(i)' \subseteq Held(i) \cup {archive[i]}
<1>1. TypeOK /\ RunInv /\ [Next]_vars => [A]_vars
  <2> SUFFICES ASSUME TypeOK, RunInv, Next, NEW i \in Ids
               PROVE  Held(i)' \subseteq Held(i) \cup {archive[i]}
    BY DEF vars
  <2> USE DEF Held
  <2>1. CASE UNCHANGED <<memory, limbo>>
    BY <2>1
  <2>2. CASE Retain
    BY <2>2 DEF Retain, RunInv, TypeOK
  <2>3. CASE RetainFails
    BY <2>3 DEF RetainFails, RunInv, TypeOK
  <2>4. CASE Crash
    <3>1. memory' = memory /\ archive' = archive
      BY <2>4 DEF Crash
    <3>2. CASE limbo' = limbo
      BY <3>1, <3>2
    <3>3. CASE pc = "retaining" /\ limbo' = [limbo EXCEPT ![item.id] = @ \cup {item.content}]
      <4>1. archive[item.id] = item.content
        BY <3>3 DEF RunInv
      <4>2. limbo'[i] \subseteq limbo[i] \cup {archive[i]}
        BY <3>3, <4>1 DEF TypeOK
      <4> QED
        BY <3>1, <4>2
    <3> QED
      BY <2>4, <3>2, <3>3 DEF Crash
  <2>5. ASSUME NEW j \in Ids, NEW c \in Versions, LateRetention(j, c)
        PROVE  Held(i)' \subseteq Held(i) \cup {archive[i]}
    BY <2>5 DEF LateRetention, TypeOK
  <2>6. ASSUME NEW j \in Ids, CorruptRecord(j)
        PROVE  UNCHANGED <<memory, limbo>>
    BY <2>6 DEF CorruptRecord
  <2>7. ASSUME NEW ids \in SUBSET Ids, BeginExport(ids)
        PROVE  UNCHANGED <<memory, limbo>>
    BY <2>7 DEF BeginExport, store
  <2>8. ASSUME BeginReplay \/ Exit
        PROVE  UNCHANGED <<memory, limbo>>
    BY <2>8 DEF BeginReplay, Exit, store
  <2>9. ASSUME Read
        PROVE  UNCHANGED <<memory, limbo>>
    BY <2>9 DEF Read, ReadConversation, ReadMalformed, ReadDuplicate, ReadTruncated,
                ReadUnavailable, ReadEscapes, ReadCorrupt, ReadEnd, store
  <2>10. ASSUME Process, ~Retain, ~RetainFails
         PROVE  UNCHANGED <<memory, limbo>>
    BY <2>10 DEF Process, HashFails, FindFails, Skip, Prepare, PrepareFails, Archive,
                 ArchiveFails, Record, RecordFails, RecordFailure, RecordFailureFails, store
  <2> QED
    BY <2>1, <2>2, <2>3, <2>4, <2>5, <2>6, <2>7, <2>8, <2>9, <2>10 DEF Next, Step
<1> QED
  BY <1>1, TypeCorrect, RunInvariant, PTL DEF Spec, ArchivedBeforeRetained

-----------------------------------------------------------------------------
(* What the source did not come to, whatever faults occur. *)

\* The text was refused, and that is the last that the report shows.
TextRefused ==
    /\ outcomes # <<>>
    /\ answers[Len(answers)].kind = "truncated"
    /\ outcomes[Len(outcomes)] =
          [id |-> None, status |-> "failed", error |-> "source", unrecorded |-> FALSE]

\* Inside a run only a text that cannot be scanned on finishes the reader, and then
\* nothing more is read.
EndedByText ==
    ended /\ pc # "idle" => pc \in {"reading", "reported"} /\ TextRefused

MissingInv == EndedByText /\ MissingIsTold

\* The refusal of the text is the last answer and the last outcome.
LEMMA TruncationIsTold ==
  ASSUME TypeOK, Answered("truncated", None, Absent), SourceFailed(None)
  PROVE  TextRefused'
<1> DEFINE a == [kind |-> "truncated", id |-> None, content |-> Absent]
           o == [id |-> None, status |-> "failed", error |-> "source", unrecorded |-> FALSE]
<1>1. /\ answers \in Seq(Answer) /\ Len(answers) \in Nat /\ answers' = Append(answers, a)
      /\ outcomes \in Seq(ConversationOutcome) /\ Len(outcomes) \in Nat
      /\ outcomes' = Append(outcomes, o)
  BY DEF TypeOK, Answered, SourceFailed
<1>2. /\ Len(answers') = Len(answers) + 1 /\ answers'[Len(answers) + 1] = a
      /\ Len(outcomes') = Len(outcomes) + 1 /\ outcomes'[Len(outcomes) + 1] = o
      /\ a.kind = "truncated"
  BY <1>1
<1>3. outcomes' # <<>>
  BY <1>1
<1> QED
  BY <1>2, <1>3 DEF TextRefused

\* While the reader is not finished and the run goes on there is nothing to show.
LEMMA GoingOnKeepsMissingInv == ~ended' /\ pc' # "reported" => MissingInv'
BY DEF MissingInv, EndedByText, MissingIsTold

LEMMA MissingInvNext == TypeOK /\ RunInv /\ MissingInv /\ [Next]_vars => MissingInv'
<1> SUFFICES ASSUME TypeOK, RunInv, MissingInv, [Next]_vars
             PROVE  MissingInv'
  OBVIOUS
<1>1. ASSUME NEW i \in Ids, NEW c \in Versions, ReadConversation(i, c)
      PROVE  MissingInv'
  BY <1>1, GoingOnKeepsMissingInv DEF ReadConversation
<1>2. ASSUME NEW i \in Ids, NEW subject \in Ids \cup {None}, ReadMalformed(i, subject)
      PROVE  MissingInv'
  BY <1>2, GoingOnKeepsMissingInv DEF ReadMalformed
<1>3. ASSUME NEW i \in Ids, ReadDuplicate(i)
      PROVE  MissingInv'
  BY <1>3, GoingOnKeepsMissingInv DEF ReadDuplicate
<1>4. CASE ReadTruncated
  BY <1>4, TruncationIsTold DEF ReadTruncated, MissingInv, EndedByText, MissingIsTold
<1>5. ASSUME ~ended', terminal' = "source"
      PROVE  MissingInv'
  BY <1>5 DEF MissingInv, EndedByText, MissingIsTold
<1>6. CASE ReadUnavailable
  BY <1>5, <1>6 DEF ReadUnavailable
<1>7. ASSUME NEW i \in Ids, ReadEscapes(i)
      PROVE  MissingInv'
  BY <1>5, <1>7 DEF ReadEscapes
<1>8. ASSUME NEW i \in Ids, ReadCorrupt(i)
      PROVE  MissingInv'
  BY <1>5, <1>8 DEF ReadCorrupt
<1>9. CASE ReadEnd
  BY <1>9 DEF ReadEnd, reader, MissingInv, EndedByText, MissingIsTold, TextRefused
<1>10. CASE Process
  <2>1. /\ pc \notin {"idle", "reading", "reported"} /\ pc' # "reported" /\ ended' = ended
    BY <1>10 DEF Process, HashFails, FindFails, Skip, Prepare, PrepareFails, Archive,
                ArchiveFails, Retain, RetainFails, Record, RecordFails, RecordFailure,
                RecordFailureFails, Finish, Fail, reader
  <2>2. ~ended
    BY <2>1 DEF MissingInv, EndedByText
  <2> QED
    BY <2>1, <2>2, GoingOnKeepsMissingInv DEF TypeOK
<1>11. CASE Forget
  BY <1>11 DEF Forget, MissingInv, EndedByText, MissingIsTold
<1>12. ASSUME NEW ids \in SUBSET Ids, BeginExport(ids)
       PROVE  MissingInv'
  BY <1>12, GoingOnKeepsMissingInv DEF BeginExport
<1>13. CASE BeginReplay
  BY <1>13, GoingOnKeepsMissingInv DEF BeginReplay
<1>14. ASSUME UNCHANGED <<pc, reader, outcomes, terminal>>
       PROVE  MissingInv'
  BY <1>14 DEF reader, MissingInv, EndedByText, MissingIsTold, TextRefused
<1> QED
  BY <1>1, <1>2, <1>3, <1>4, <1>6, <1>7, <1>8, <1>9, <1>10, <1>11, <1>12, <1>13, <1>14
     DEF Next, Step, Read, Exit, Crash, LateRetention, CorruptRecord, vars, reader

(* Whatever faults occur: what the source listed and a run did not come to is     *)
(* behind a terminal error or behind the refusal of the text, which the report    *)
(* shows last.  A refusal of one conversation ends no run.                        *)
THEOREM MissingAreTold == Spec => []MissingIsTold
<1>1. Init => MissingInv
  BY DEF Init, MissingInv, EndedByText, MissingIsTold
<1>2. TypeOK /\ RunInv /\ MissingInv /\ [Next]_vars => MissingInv'
  BY MissingInvNext
<1>3. MissingInv => MissingIsTold
  BY DEF MissingInv
<1> QED
  BY <1>1, <1>2, <1>3, TypeCorrect, RunInvariant, PTL DEF Spec

-----------------------------------------------------------------------------
(* The stores, when exports do not revert and the engine works in order. *)

Settled(i, c) == memory[i] = c /\ limbo[i] \subseteq {c}

\* An imported record stands for what the engine holds unless the conversation
\* has moved on, and then it matches no content the source can yield again.
RecordsInv ==
    \A i \in Ids :
        /\ archive[i] <= newest[i]
        /\ \A c \in Versions :
              records[i] = Imported(c) =>
                  /\ c <= newest[i]
                  /\ (c = newest[i] \/ c = archive[i]) => Settled(i, c)
                  /\ c = newest[i] => archive[i] \in {c, Corrupt}

\* The conversation in hand is the newest or the archived one.
ItemInv ==
    item # None =>
        /\ item.content <= newest[item.id]
        /\ item.content = newest[item.id] \/ item.content = archive[item.id]
        /\ pc = "recording" => memory[item.id] = item.content /\ limbo[item.id] = {}

\* What was reported stays settled for the rest of the run.
OutcomesSettled ==
    \A k \in 1 .. Len(outcomes) :
        outcomes[k].status # "failed" =>
            /\ answers[k].kind = "conversation"
            /\ Settled(answers[k].id, answers[k].content)

StoreInv == RecordsInv /\ ItemInv /\ OutcomesSettled

\* Exports never revert and the engine completes retentions of one document in
\* the order it received them.
Supported == "reverts" \notin Faults /\ "reorder" \notin Faults

LEMMA StoreInvInit == Init => StoreInv
  BY PipelineAssumption
     DEF Init, StoreInv, RecordsInv, ItemInv, OutcomesSettled, Absent, Versions, Imported,
         ImportRecord

\* Reports and reads that change no store.
LEMMA SourceFailureKeepsStoreInv ==
  ASSUME TypeOK, RunInv, StoreInv, item = None, item' = None,
         UNCHANGED <<store, newest>>,
         NEW a \in Answer, answers' = Append(answers, a),
         \/ outcomes' = outcomes
         \/ \E id \in Ids \cup {None} : SourceFailed(id)
  PROVE  StoreInv'
<1>1. /\ answers \in Seq(Answer) /\ outcomes \in Seq(ConversationOutcome)
      /\ Len(outcomes) <= Len(answers)
      /\ Len(outcomes) \in Nat /\ Len(answers) \in Nat
  BY DEF TypeOK, RunInv, OutcomesFollowSource
<1>2. \A k \in 1 .. Len(outcomes) : answers'[k] = answers[k]
  BY <1>1
<1>3. RecordsInv' /\ ItemInv'
  BY DEF StoreInv, RecordsInv, ItemInv, Settled, store, Imported
<1>4. OutcomesSettled'
  <2>1. CASE outcomes' = outcomes
    BY <1>2, <2>1 DEF StoreInv, OutcomesSettled, Settled, store
  <2>2. ASSUME NEW id \in Ids \cup {None}, SourceFailed(id)
        PROVE  OutcomesSettled'
    <3>1. /\ Len(outcomes') = Len(outcomes) + 1
          /\ \A k \in 1 .. Len(outcomes) : outcomes'[k] = outcomes[k]
          /\ outcomes'[Len(outcomes) + 1].status = "failed"
      BY <1>1, <2>2 DEF SourceFailed
    <3> SUFFICES ASSUME NEW k \in 1 .. Len(outcomes) + 1, outcomes'[k].status # "failed"
                 PROVE  /\ answers'[k].kind = "conversation"
                        /\ Settled(answers'[k].id, answers'[k].content)
      BY <3>1 DEF OutcomesSettled, Settled, store
    <3>2. k \in 1 .. Len(outcomes)
      BY <1>1, <3>1
    <3> QED
      BY <1>2, <3>1, <3>2 DEF StoreInv, OutcomesSettled
  <2> QED
    BY <2>1, <2>2
<1> QED
  BY <1>3, <1>4 DEF StoreInv

\* The outcome of the conversation in hand, which is settled unless it failed.
LEMMA FinishKeepsStoreInv ==
  ASSUME TypeOK, RunInv, StoreInv, item # None,
         NEW status, NEW stage, NEW unrecorded,
         Finish(status, stage, unrecorded),
         status # "failed" => Settled(item.id, item.content),
         UNCHANGED <<archive, memory, limbo, newest, answers>>,
         RecordsInv'
  PROVE  StoreInv'
<1> DEFINE n == Len(outcomes) + 1
           o == [id |-> item.id, status |-> status, error |-> stage,
                 unrecorded |-> unrecorded]
<1>1. /\ outcomes \in Seq(ConversationOutcome)
      /\ Len(answers) = n /\ Len(outcomes) \in Nat
  BY DEF TypeOK, RunInv, OutcomesFollowSource
<1>2. /\ answers[n].kind = "conversation" /\ answers[n].id = item.id
      /\ answers[n].content = item.content
  BY <1>1 DEF RunInv
<1>3. /\ Len(outcomes') = n
      /\ \A k \in 1 .. Len(outcomes) : outcomes'[k] = outcomes[k]
      /\ outcomes'[n] = o /\ o.status = status
  BY <1>1 DEF Finish
<1> HIDE DEF o
<1>4. OutcomesSettled'
  <2> SUFFICES ASSUME NEW k \in 1 .. n, outcomes'[k].status # "failed"
               PROVE  /\ answers[k].kind = "conversation"
                      /\ Settled(answers[k].id, answers[k].content)
    BY <1>3 DEF OutcomesSettled, Settled
  <2>1. CASE k = n
    BY <1>2, <1>3, <2>1
  <2>2. CASE k # n
    BY <1>1, <1>3, <2>2 DEF StoreInv, OutcomesSettled
  <2> QED
    BY <2>1, <2>2
<1>5. ItemInv'
  BY DEF ItemInv, Finish
<1> QED
  BY <1>4, <1>5 DEF StoreInv

\* A step that changes the stores only for the identity in hand disturbs nothing
\* that was reported: no identity is processed twice in a run.
LEMMA ItemStepKeepsOutcomesSettled ==
  ASSUME TypeOK, RunInv, StoreInv, item # None,
         UNCHANGED <<outcomes, answers>>,
         \A i \in Ids \ {item.id} : memory'[i] = memory[i] /\ limbo'[i] = limbo[i]
  PROVE  OutcomesSettled'
<1> SUFFICES ASSUME NEW k \in 1 .. Len(outcomes), outcomes[k].status # "failed"
             PROVE  /\ answers[k].kind = "conversation"
                    /\ Settled(answers[k].id, answers[k].content)'
  BY DEF OutcomesSettled, Settled
<1>1. /\ answers[k].kind = "conversation"
      /\ Settled(answers[k].id, answers[k].content)
  BY DEF StoreInv, OutcomesSettled
<1>2. /\ Len(answers) = Len(outcomes) + 1 /\ Len(outcomes) \in Nat
      /\ answers[Len(answers)].kind = "conversation"
      /\ answers[Len(answers)].id = item.id
  BY DEF TypeOK, RunInv, OutcomesFollowSource
<1>3. answers[k].id \in Ids \ {item.id}
  BY <1>1, <1>2 DEF RunInv, YieldedOnce
<1> QED
  BY <1>1, <1>3 DEF Settled

LEMMA StoreInvNext ==
  ASSUME Supported
  PROVE  TypeOK /\ TypeOK' /\ RunInv /\ StoreInv /\ [Next]_vars => StoreInv'
<1> SUFFICES ASSUME TypeOK, TypeOK', RunInv, StoreInv, [Next]_vars
             PROVE  StoreInv'
  OBVIOUS
<1> USE DEF Absent, Corrupt
<1>0. /\ item # None => item.id \in Ids /\ item.content \in Versions
      /\ Versions \subseteq Int /\ 0 \notin Versions /\ -1 \notin Versions
      /\ \A c, d : Imported(c) = Imported(d) => c = d
      /\ \A c, d, s : Imported(c) # Failed(d, s)
  BY PipelineAssumption DEF TypeOK, Item, Versions, Imported, Failed
<1>p. \A c \in Versions : c > -1 /\ c # -1
  BY PipelineAssumption DEF Versions
<1>1. ASSUME NEW i \in Ids, NEW c \in Versions, ReadConversation(i, c)
      PROVE  StoreInv'
  <2>1. /\ newest[i] <= c \/ c = archive[i]
        /\ newest' = [newest EXCEPT ![i] = IF c > @ THEN c ELSE @]
        /\ item' = [id |-> i, content |-> c]
        /\ pc' = "looking"
        /\ UNCHANGED <<archive, memory, limbo, records, outcomes>>
        /\ \A j \in Ids : newest[j] \in Int
    BY <1>1, <1>0 DEF ReadConversation, Readable, Supported, Latest, store, TypeOK
  <2>2. RecordsInv'
    BY <2>1, <1>0 DEF StoreInv, RecordsInv, Settled, TypeOK
  <2>3. ItemInv'
    BY <2>1, <1>0 DEF StoreInv, RecordsInv, ItemInv, TypeOK
  <2>4. OutcomesSettled'
    <3>1. /\ answers \in Seq(Answer) /\ Len(outcomes) <= Len(answers)
          /\ Len(outcomes) \in Nat
      BY DEF TypeOK, RunInv, OutcomesFollowSource
    <3>2. \A k \in 1 .. Len(outcomes) : answers'[k] = answers[k]
      BY <1>1, <3>1 DEF ReadConversation, Answered
    <3> QED
      BY <2>1, <3>2 DEF StoreInv, OutcomesSettled, Settled
  <2> QED
    BY <2>2, <2>3, <2>4 DEF StoreInv
<1>2. ASSUME NEW i \in Ids, NEW subject \in Ids \cup {None}, ReadMalformed(i, subject)
      PROVE  StoreInv'
  BY <1>2, SourceFailureKeepsStoreInv DEF ReadMalformed, Answered, Answer, world, TypeOK
<1>3. ASSUME NEW i \in Ids, ReadDuplicate(i)
      PROVE  StoreInv'
  BY <1>3, SourceFailureKeepsStoreInv DEF ReadDuplicate, Answered, Answer, world, TypeOK
<1>4. CASE ReadTruncated
  BY <1>4, SourceFailureKeepsStoreInv DEF ReadTruncated, Answered, Answer, world, TypeOK
<1>5. CASE ReadUnavailable
  BY <1>5, SourceFailureKeepsStoreInv DEF ReadUnavailable, Answered, Answer, world, TypeOK
<1>31. ASSUME NEW i \in Ids, ReadEscapes(i)
       PROVE  StoreInv'
  BY <1>31, SourceFailureKeepsStoreInv DEF ReadEscapes, Answered, Answer, world, TypeOK
<1>6. ASSUME NEW i \in Ids, ReadCorrupt(i)
      PROVE  StoreInv'
  BY <1>6, SourceFailureKeepsStoreInv DEF ReadCorrupt, Answered, Answer, world, TypeOK
<1>7. ASSUME UNCHANGED <<store, newest, answers, outcomes, item>>, pc' # "recording"
      PROVE  StoreInv'
  BY <1>7 DEF StoreInv, RecordsInv, ItemInv, OutcomesSettled, Settled, store, Imported
<1>8. ASSUME UNCHANGED <<store, newest>>
      PROVE  RecordsInv'
  BY <1>8 DEF StoreInv, RecordsInv, Settled, store, Imported
<1>9. CASE HashFails
  BY <1>8, <1>9, FinishKeepsStoreInv DEF HashFails, TypeOK, store, world, reader
<1>10. CASE Skip
  <2>1. records[item.id] = Imported(item.content)
    BY <1>10 DEF Skip, MaySkip, TypeOK, ImportRecord, Imported, Failed, Item
  <2>2. item # None
    BY <1>10 DEF Skip, TypeOK
  <2>3. Settled(item.id, item.content)
    BY <1>0, <2>1, <2>2 DEF StoreInv, RecordsInv, ItemInv
  <2> QED
    BY <1>8, <1>10, <2>2, <2>3, FinishKeepsStoreInv DEF Skip, store, world, reader
<1>11. CASE FindFails \/ Prepare \/ RecordFails
  BY <1>7, <1>11 DEF FindFails, Prepare, RecordFails, Fail, world, reader
<1>12. ASSUME NEW stage \in {"sanitize", "classify", "enrich"}, PrepareFails(stage)
       PROVE  StoreInv'
  BY <1>7, <1>12 DEF PrepareFails, Fail, world, reader
<1>13. ASSUME item # None, UNCHANGED <<memory, limbo, records, newest, item, outcomes, answers>>,
              archive' = [archive EXCEPT ![item.id] = item.content],
              pc' # "recording"
       PROVE  StoreInv'
  <2>1. RecordsInv'
    BY <1>0, <1>13 DEF StoreInv, RecordsInv, ItemInv, Settled, TypeOK
  <2>2. ItemInv'
    BY <1>0, <1>13 DEF StoreInv, ItemInv, TypeOK
  <2>3. OutcomesSettled'
    BY <1>13, ItemStepKeepsOutcomesSettled
  <2> QED
    BY <2>1, <2>2, <2>3 DEF StoreInv
<1>14. CASE Archive
  BY <1>13, <1>14 DEF Archive, TypeOK, world, reader
<1>15. CASE ArchiveFails
  BY <1>7, <1>13, <1>15 DEF ArchiveFails, Fail, TypeOK, store, world, reader
<1>16. CASE Retain
  <2>1. /\ item # None /\ item' = item /\ pc' = "recording"
        /\ memory' = [memory EXCEPT ![item.id] = item.content]
        /\ limbo' = [limbo EXCEPT ![item.id] = {}]
        /\ UNCHANGED <<archive, records, newest, outcomes, answers>>
        /\ archive[item.id] = item.content
    BY <1>16 DEF Retain, Supported, TypeOK, RunInv, world, reader
  <2>2. RecordsInv'
    BY <1>0, <2>1 DEF StoreInv, RecordsInv, ItemInv, Settled, TypeOK
  <2>3. ItemInv'
    BY <1>0, <2>1 DEF StoreInv, ItemInv, TypeOK
  <2>4. OutcomesSettled'
    BY <1>0, <2>1, ItemStepKeepsOutcomesSettled DEF TypeOK
  <2> QED
    BY <2>2, <2>3, <2>4 DEF StoreInv
<1>17. ASSUME pc = "retaining", RecordsInv, ItemInv, item # None,
              limbo' = [limbo EXCEPT ![item.id] = @ \cup {item.content}],
              UNCHANGED <<archive, memory, records, newest>>
       PROVE  RecordsInv'
  <2>1. archive[item.id] = item.content
    BY <1>17 DEF RunInv
  <2> QED
    BY <1>0, <1>17, <2>1 DEF RecordsInv, ItemInv, Settled, TypeOK
<1>18. CASE RetainFails
  <2>1. CASE UNCHANGED limbo
    BY <1>7, <1>18, <2>1 DEF RetainFails, Fail, store, world, reader
  <2>2. CASE limbo' = [limbo EXCEPT ![item.id] = @ \cup {item.content}]
    <3>1. /\ item # None /\ item' = item /\ pc = "retaining" /\ pc' = "failing"
          /\ UNCHANGED <<archive, memory, records, newest, outcomes, answers>>
      BY <1>18 DEF RetainFails, Fail, TypeOK, world, reader
    <3>2. RecordsInv'
      BY <1>17, <2>2, <3>1 DEF StoreInv
    <3>3. ItemInv'
      BY <3>1 DEF StoreInv, ItemInv
    <3>4. OutcomesSettled'
      BY <1>0, <2>2, <3>1, ItemStepKeepsOutcomesSettled DEF TypeOK
    <3> QED
      BY <3>2, <3>3, <3>4 DEF StoreInv
  <2> QED
    BY <1>18, <2>1, <2>2 DEF RetainFails
<1>19. CASE Record
  <2>1. /\ item # None
        /\ records' = [records EXCEPT ![item.id] = Imported(item.content)]
        /\ UNCHANGED <<archive, memory, limbo, newest, answers>>
        /\ archive[item.id] = item.content
        /\ memory[item.id] = item.content /\ limbo[item.id] = {}
    BY <1>19 DEF Record, TypeOK, RunInv, StoreInv, ItemInv, world, reader
  <2>2. RecordsInv'
    BY <1>0, <2>1 DEF StoreInv, RecordsInv, ItemInv, Settled, TypeOK
  <2> QED
    BY <1>19, <2>1, <2>2, FinishKeepsStoreInv DEF Record, Settled
<1>20. CASE RecordFailure
  <2>1. /\ item # None
        /\ records' = [records EXCEPT ![item.id] = Failed(item.content, error)]
        /\ UNCHANGED <<archive, memory, limbo, newest, answers>>
    BY <1>20 DEF RecordFailure, TypeOK, world, reader
  <2>2. RecordsInv'
    BY <1>0, <2>1 DEF StoreInv, RecordsInv, Settled, TypeOK
  <2> QED
    BY <1>20, <2>1, <2>2, FinishKeepsStoreInv DEF RecordFailure
<1>21. CASE RecordFailureFails
  BY <1>8, <1>21, FinishKeepsStoreInv DEF RecordFailureFails, TypeOK, store, world, reader
<1>22. ASSUME Forget, RecordsInv'
       PROVE  StoreInv'
  BY <1>22 DEF Forget, StoreInv, ItemInv, OutcomesSettled
<1>23. CASE Exit
  BY <1>8, <1>22, <1>23 DEF Exit, world
<1>24. CASE Crash
  <2>1. CASE UNCHANGED limbo
    BY <1>8, <1>22, <1>24, <2>1 DEF Crash, store, world
  <2>2. CASE pc = "retaining" /\ limbo' = [limbo EXCEPT ![item.id] = @ \cup {item.content}]
    BY <1>17, <1>22, <1>24, <2>2 DEF Crash, StoreInv, TypeOK, world
  <2> QED
    BY <1>24, <2>1, <2>2 DEF Crash
<1>25. CASE ReadEnd
  BY <1>7, <1>25 DEF ReadEnd, world, reader
<1>26. ASSUME NEW ids \in SUBSET Ids, BeginExport(ids)
       PROVE  StoreInv'
  BY <1>7, <1>26 DEF BeginExport, world
<1>27. CASE BeginReplay
  BY <1>7, <1>27 DEF BeginReplay, world
<1>28. ASSUME NEW i \in Ids, NEW c \in Versions, LateRetention(i, c)
       PROVE  StoreInv'
  <2>1. /\ c \in limbo[i]
        /\ limbo' = [limbo EXCEPT ![i] = @ \ {c}]
        /\ memory' = [memory EXCEPT ![i] = c] \/ memory' = memory
        /\ UNCHANGED <<archive, records, newest, outcomes, answers, item, pc>>
    BY <1>28 DEF LateRetention, world, reader
  <2>2. \A j \in Ids : \A d : Settled(j, d) => Settled(j, d)'
    BY <2>1 DEF Settled, TypeOK
  <2>3. RecordsInv'
    <3>1. \A j \in Ids : \A d \in Versions :
             (d = newest[j] \/ d = archive[j]) /\ records[j] = Imported(d)
                => Settled(j, d)'
      BY <2>2 DEF StoreInv, RecordsInv
    <3> QED
      BY <2>1, <3>1 DEF StoreInv, RecordsInv, Imported
  <2>4. ItemInv'
    BY <1>0, <2>1 DEF StoreInv, ItemInv, TypeOK
  <2>5. OutcomesSettled'
    <3> SUFFICES ASSUME NEW k \in 1 .. Len(outcomes), outcomes[k].status # "failed"
                 PROVE  /\ answers[k].kind = "conversation"
                        /\ Settled(answers[k].id, answers[k].content)'
      BY <2>1 DEF OutcomesSettled, Settled
    <3>1. /\ answers[k].kind = "conversation"
          /\ Settled(answers[k].id, answers[k].content)
      BY DEF StoreInv, OutcomesSettled
    <3>2. k \in 1 .. Len(answers)
      BY DEF RunInv, OutcomesFollowSource, TypeOK
    <3>3. answers[k].id \in Ids
      BY <3>1, <3>2 DEF RunInv, YieldedOnce
    <3> QED
      BY <2>1, <2>2, <3>1, <3>3 DEF Settled
  <2> QED
    BY <2>3, <2>4, <2>5 DEF StoreInv
<1>29. ASSUME NEW i \in Ids, CorruptRecord(i)
       PROVE  StoreInv'
  <2>1. /\ archive' = [archive EXCEPT ![i] = Corrupt]
        /\ archive[i] \in Versions
        /\ UNCHANGED <<memory, limbo, records, newest, outcomes, answers, item, pc>>
        /\ item = None
    BY <1>29 DEF CorruptRecord, TypeOK, world, reader
  <2>2. \A j \in Ids : archive'[j] = -1 \/ archive'[j] = archive[j]
    BY <2>1 DEF TypeOK
  <2>3. \A j \in Ids : archive'[j] <= newest[j]
    <3> SUFFICES ASSUME NEW j \in Ids, j = i PROVE -1 <= newest[j]
      BY <2>1 DEF StoreInv, RecordsInv, TypeOK
    <3>1. archive[i] <= newest[i] /\ archive[i] > -1
      BY <1>p, <2>1 DEF StoreInv, RecordsInv
    <3>2. archive[i] \in Versions /\ newest[i] \in Versions \cup {0}
      BY <2>1 DEF TypeOK
    <3>3. archive[i] \in Int /\ newest[i] \in Int
      BY <3>2 DEF Versions
    <3> QED
      BY <3>1, <3>3
  <2>4. RecordsInv'
    <3> SUFFICES ASSUME NEW j \in Ids, NEW c \in Versions, records[j] = Imported(c)
                 PROVE  /\ c <= newest[j]
                        /\ (c = newest[j] \/ c = archive'[j]) => Settled(j, c)
                        /\ c = newest[j] => archive'[j] \in {c, -1}
      BY <2>1, <2>3 DEF RecordsInv, Settled, Imported
    <3> QED
      BY <1>p, <2>2 DEF StoreInv, RecordsInv
  <2> QED
    BY <2>1, <2>4 DEF StoreInv, ItemInv, OutcomesSettled, Settled
<1>30. CASE UNCHANGED vars
  BY <1>30 DEF vars, StoreInv, RecordsInv, ItemInv, OutcomesSettled, Settled, Imported
<1> QED
  BY <1>1, <1>2, <1>3, <1>4, <1>5, <1>6, <1>9, <1>10, <1>11, <1>12, <1>14, <1>15, <1>16,
     <1>18, <1>19, <1>20, <1>21, <1>23, <1>24, <1>25, <1>26, <1>27, <1>28, <1>29, <1>30, <1>31
     DEF Next, Step, Read, Process

LEMMA StoreInvariant == ASSUME Supported PROVE Spec => []StoreInv
<1>1. TypeOK /\ TypeOK' /\ RunInv /\ StoreInv /\ [Next]_vars => StoreInv'
  BY StoreInvNext
<1> QED
  BY <1>1, TypeCorrect, RunInvariant, StoreInvInit, PTL DEF Spec

(* For any number of conversations, contents, runs, crashes and failures: what  *)
(* a run reports as imported or skipped is in memory with the content that was  *)
(* read, provided exports never revert and the engine works in order.           *)
THEOREM ReportedRetained == ASSUME Supported PROVE Spec => []ReportedIsRetained
<1>1. TypeOK /\ StoreInv => ReportedIsRetained
  BY DEF StoreInv, OutcomesSettled, ReportedIsRetained, Settled
<1> QED
  BY <1>1, TypeCorrect, StoreInvariant, PTL

(* An imported record is written only for what archive and memory both hold.    *)
THEOREM RecordsEarned == ASSUME Supported PROVE Spec => RecordsAreEarned
<1> DEFINE A == \A i \in Ids, c \in Versions :
                   (records[i]' = Imported(c) /\ records[i] # Imported(c)) =>
                       archive[i] = c /\ memory[i] = c
<1>1. TypeOK /\ RunInv /\ StoreInv /\ [Next]_vars => [A]_vars
  <2> SUFFICES ASSUME TypeOK, RunInv, StoreInv, Next, NEW i \in Ids, NEW c \in Versions,
                      records'[i] = Imported(c), records[i] # Imported(c)
               PROVE  archive[i] = c /\ memory[i] = c
    BY DEF vars, Imported
  <2>1. CASE Record
    BY <2>1 DEF Record, RunInv, StoreInv, ItemInv, TypeOK, Imported
  <2>2. CASE RecordFailure
    BY <2>2 DEF RecordFailure, TypeOK, Imported, Failed
  <2>3. CASE records' = records
    BY <2>3
  <2>4. ASSUME Read PROVE records' = records
    BY <2>4 DEF Read, ReadConversation, ReadMalformed, ReadDuplicate, ReadTruncated,
                ReadUnavailable, ReadEscapes, ReadCorrupt, ReadEnd, store
  <2>5. ASSUME Process, ~Record, ~RecordFailure PROVE records' = records
    BY <2>5 DEF Process, HashFails, FindFails, Skip, Prepare, PrepareFails, Archive,
                ArchiveFails, Retain, RetainFails, RecordFails, RecordFailureFails, store
  <2>6. ASSUME ~Step PROVE records' = records
    BY <2>6 DEF Next, BeginExport, BeginReplay, Crash, LateRetention, CorruptRecord, store
  <2> QED
    BY <2>1, <2>2, <2>3, <2>4, <2>5, <2>6 DEF Step, Exit, store
<1> QED
  BY <1>1, TypeCorrect, RunInvariant, StoreInvariant, PTL DEF Spec, RecordsAreEarned
=============================================================================
