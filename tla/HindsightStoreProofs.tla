------------------------ MODULE HindsightStoreProofs ------------------------
(***************************************************************************)
(* What holds of HindsightStore.retain for any documents, contents, bounds *)
(* and delays, however submissions are lost, repeated or late.             *)
(***************************************************************************)
EXTENDS HindsightStore, FiniteSetTheorems, TLAPS

-----------------------------------------------------------------------------
(* Types, and the budget of attempts. *)

\* A request that is about to be sent, or repeated, has an attempt left.
AttemptLeft == pc \in {"submit", "ask", "backoff", "pause"} => attempt < MaxAttempts

\* TypeOK in two parts: the locals and flags, and what is kept by identity.
ScalarsOK ==
    /\ pc \in {"idle", "submit", "posting", "ask", "polling", "backoff", "pause"}
    /\ attempt \in 0 .. MaxAttempts
    /\ protect \in BOOLEAN
    /\ left \in 0 .. Completion
    /\ wake \in 0 .. Completion
    /\ next \in {"submit", "ask"}
    /\ result \in {"none", "ok", "rejected", "unavailable", "foreign"}
    /\ since \in 0 .. MaxOps
    /\ wire \in {"none", "sent", "accepted"}
    /\ wire # "none" => pc = "posting"

MapsOK ==
    /\ pending \in [Docs -> Pending \cup {None}]
    /\ call \in Call \cup {None}
    /\ pc # "idle" => call # None
    /\ ops \in Seq(Operation)
    /\ Len(ops) <= MaxOps
    /\ call # None => call.op <= Len(ops)
    /\ \A d \in Docs : pending[d] # None => pending[d].op <= Len(ops)

LEMMA TypeParts == TypeOK <=> ScalarsOK /\ MapsOK
  BY DEF TypeOK, ScalarsOK, MapsOK

Results == {"none", "ok", "rejected", "unavailable", "foreign"}

\* A call that ended has no locals.
LEMMA IdleScalars ==
  ASSUME NoLocals, pc' = "idle", result' \in Results,
         since' \in 0 .. MaxOps, wire' = "none"
  PROVE  ScalarsOK' /\ AttemptLeft'
<1>1. left' \in 0 .. Completion /\ attempt' \in 0 .. MaxAttempts /\ wake' \in 0 .. Completion
  BY StoreAssumption DEF NoLocals
<1>2. protect' \in BOOLEAN /\ next' \in {"submit", "ask"}
  BY DEF NoLocals
<1>3. AttemptLeft'
  BY DEF AttemptLeft
<1> QED
  BY <1>1, <1>2, <1>3 DEF ScalarsOK, Results

LEMMA ReturnScalars ==
  ASSUME ScalarsOK, NEW r \in Results, Return(r),
         UNCHANGED since, wire' = "none"
  PROVE  ScalarsOK' /\ AttemptLeft'
<1>1. /\ since' \in 0 .. MaxOps
      /\ NoLocals /\ pc' = "idle" /\ result' \in Results
  BY DEF ScalarsOK, Return
<1> QED
  BY <1>1, IdleScalars

LEMMA TypeInit == Init => TypeOK /\ AttemptLeft
<1> SUFFICES ASSUME Init PROVE TypeOK /\ AttemptLeft
  OBVIOUS
<1>1. <<>> \in Seq(Operation) /\ Len(<<>>) = 0
  OBVIOUS
<1>2. /\ 0 \in 0 .. Completion /\ 0 \in 0 .. MaxAttempts /\ 0 \in 0 .. MaxOps
      /\ 0 <= MaxOps
  BY StoreAssumption
<1>3. ScalarsOK
  BY <1>2 DEF Init, ScalarsOK
<1>4. MapsOK
  BY <1>1, <1>2 DEF Init, MapsOK
<1> QED
  BY <1>3, <1>4, TypeParts DEF Init, AttemptLeft

\* Nothing is forgotten but settled submissions and the call itself.
LEMMA MapsKept ==
  ASSUME MapsOK, pc' # "idle" => pc # "idle" /\ call' = call,
         pending' = pending \/ pending' = [pending EXCEPT ![call.doc] = None]
                            \/ pending' = [d \in Docs |-> None],
         call' \in {call, None}, ops' \in Seq(Operation), Len(ops') = Len(ops)
  PROVE  MapsOK'
  BY DEF MapsOK

\* After a transient failure a request is out of budget or goes to sleep.
LEMMA RetryKeepsType ==
  ASSUME ScalarsOK, NEW request \in {"submit", "ask"}, RetryOrStop(request)
  PROVE  /\ pc' \in {"idle", "backoff"}
         /\ attempt' \in 0 .. MaxAttempts /\ (pc' = "backoff" => attempt' < MaxAttempts)
         /\ protect' = FALSE
         /\ left' \in 0 .. Completion /\ wake' \in 0 .. Completion
         /\ next' \in {"submit", "ask"}
         /\ result' \in {result, "unavailable"}
<1> USE StoreAssumption
<1>1. CASE Return("unavailable")
  BY <1>1 DEF Return, NoLocals, ScalarsOK
<1>2. CASE \E delay \in Delays(attempt) :
              /\ attempt < MaxAttempts
              /\ delay < left
              /\ wake' = left - delay
              /\ next' = request
              /\ protect' = FALSE
              /\ pc' = "backoff"
              /\ UNCHANGED <<attempt, left, result>>
  <2>1. \A n : \A delay \in Delays(n) : delay \in Nat
    BY DEF Delays
  <2> QED
    BY <1>2, <2>1 DEF ScalarsOK
<1> QED
  BY <1>1, <1>2 DEF RetryOrStop

\* Giving a submission up only marks it.
LEMMA AbandonKeepsOps ==
  ASSUME MapsOK, Abandon, wire # "none" => pc # "idle"
  PROVE  wire' = "none" /\ ops' \in Seq(Operation) /\ Len(ops') = Len(ops)
<1>1. CASE UNCHANGED ops
  BY <1>1 DEF Abandon, MapsOK
<1>2. CASE wire = "sent" /\ ops' = [ops EXCEPT ![call.op].stray = TRUE]
  <2>1. call.op \in 1 .. Len(ops)
    BY <1>2 DEF MapsOK, Call
  <2>2. ops[call.op] \in Operation
    BY <2>1 DEF MapsOK
  <2>3. [ops[call.op] EXCEPT !.stray = TRUE] \in Operation
    BY <2>2 DEF Operation
  <2> QED
    BY <1>2, <2>1, <2>3 DEF Abandon, MapsOK
<1> QED
  BY <1>1, <1>2 DEF Abandon

\* The engine and the network change what is known of operations.
LEMMA EngineKeepsOps ==
  ASSUME TypeOK, Engine
  PROVE  /\ ops' \in Seq(Operation) /\ Len(ops') = Len(ops)
         /\ UNCHANGED adapter
         /\ wire' = wire \/ (wire = "sent" /\ wire' = "accepted")
<1>1. ASSUME NEW k \in 1 .. Len(ops), NEW o \in Operation, ops' = [ops EXCEPT ![k] = o]
      PROVE  ops' \in Seq(Operation) /\ Len(ops') = Len(ops)
  BY <1>1 DEF TypeOK
<1>2. \A k \in 1 .. Len(ops) : ops[k] \in Operation
  BY DEF TypeOK
<1>3. CASE Deliver
  <2>1. call.op \in 1 .. Len(ops)
    BY <1>3 DEF Deliver, TypeOK, Call
  <2>2. [ops[call.op] EXCEPT !.status = Accepted(@)] \in Operation
    BY <1>2, <2>1 DEF Operation, Status, Accepted
  <2> QED
    BY <1>1, <1>3, <2>1, <2>2 DEF Deliver
<1>4. ASSUME NEW k \in 1 .. Len(ops),
             DeliverStray(k) \/ LoseStray(k) \/ Complete(k) \/ FailExtraction(k)
                \/ LoseOperation(k)
      PROVE  /\ ops' \in Seq(Operation) /\ Len(ops') = Len(ops)
             /\ UNCHANGED adapter
             /\ wire' = wire
  <2>1. /\ [ops[k] EXCEPT !.stray = FALSE, !.status = Accepted(@)] \in Operation
        /\ [ops[k] EXCEPT !.stray = FALSE] \in Operation
        /\ \A to \in Status : [ops[k] EXCEPT !.status = to] \in Operation
    BY <1>2 DEF Operation, Status, Accepted
  <2>2. PICK o \in Operation : ops' = [ops EXCEPT ![k] = o]
    <3>1. CASE DeliverStray(k)
      BY <2>1, <3>1 DEF DeliverStray
    <3>2. CASE LoseStray(k)
      BY <2>1, <3>2 DEF LoseStray
    <3>3. CASE Complete(k) \/ FailExtraction(k) \/ LoseOperation(k)
      BY <2>1, <3>3 DEF Complete, FailExtraction, LoseOperation, Advance, Status
    <3> QED
      BY <1>4, <3>1, <3>2, <3>3
  <2>3. UNCHANGED <<adapter, wire>>
    BY <1>4 DEF DeliverStray, LoseStray, Complete, FailExtraction, LoseOperation, Advance
  <2> QED
    BY <1>1, <2>2, <2>3
<1> QED
  BY <1>3, <1>4 DEF Engine, Deliver

LEMMA TypeNext == TypeOK /\ AttemptLeft /\ [Next]_vars => TypeOK' /\ AttemptLeft'
<1> SUFFICES ASSUME TypeOK, ScalarsOK, MapsOK, AttemptLeft, [Next]_vars
             PROVE  (ScalarsOK /\ MapsOK)' /\ AttemptLeft'
  BY TypeParts DEF TypeOK, ScalarsOK, MapsOK
<1> USE StoreAssumption
<1>1. ASSUME UNCHANGED ops,
             pending' = pending \/ pending' = [pending EXCEPT ![call.doc] = None],
             pc' # "idle" => pc # "idle", call' = call
      PROVE  MapsOK'
  BY <1>1, MapsKept DEF MapsOK
<1>2. ASSUME Abandon, pc \in {"posting", "polling"}, UNCHANGED <<pending, call>>
      PROVE  MapsOK' /\ wire' = "none"
  BY <1>2, AbandonKeepsOps, MapsKept
<1>3. CASE RefuseInput \/ \E d \in Docs : TooManyUncertain(d)
  <2>1. ScalarsOK' /\ AttemptLeft'
    BY <1>3, ReturnScalars DEF RefuseInput, TooManyUncertain, ScalarsOK, Results
  <2>2. MapsOK'
    BY <1>3, MapsKept DEF RefuseInput, TooManyUncertain, Return, MapsOK
  <2> QED
    BY <2>1, <2>2
<1>4. ASSUME NEW d \in Docs, NEW p \in Payloads, NEW op \in 1 .. MaxOps, Start(d, p, op),
             ops' \in Seq(Operation), Len(ops') <= MaxOps, Len(ops) <= Len(ops'),
             op <= Len(ops'), protect' \in BOOLEAN, pc = "idle"
      PROVE  (ScalarsOK /\ MapsOK)' /\ AttemptLeft'
  <2>1. [payload |-> p, op |-> op] \in Pending /\ [doc |-> d, payload |-> p, op |-> op] \in Call
    BY DEF Pending, Call
  <2>2. pending' \in [Docs -> Pending \cup {None}]
    BY <1>4, <2>1 DEF Start, MapsOK
  <2>3. call' \in Call /\ call'.op = op /\ call' # None
    BY <1>4, <2>1 DEF Start
  <2>4. \A e \in Docs : pending'[e] # None => pending'[e].op <= Len(ops')
    <3> SUFFICES ASSUME NEW e \in Docs, pending'[e] # None
                 PROVE  pending'[e].op <= Len(ops')
      OBVIOUS
    <3>1. CASE e = d
      BY <1>4, <3>1 DEF Start, MapsOK
    <3>2. CASE e # d
      <4>1. pending'[e] = pending[e] /\ pending[e] \in Pending
        BY <1>4, <3>2 DEF Start, MapsOK
      <4>2. pending[e].op <= Len(ops) /\ pending[e].op \in Int
        BY <4>1 DEF MapsOK, Pending
      <4> QED
        BY <1>4, <4>1, <4>2 DEF MapsOK
    <3> QED
      BY <3>1, <3>2
  <2>5. MapsOK'
    BY <1>4, <2>2, <2>3, <2>4 DEF MapsOK
  <2>6. ScalarsOK' /\ AttemptLeft'
    BY <1>4 DEF Start, ScalarsOK, AttemptLeft
  <2> QED
    BY <2>5, <2>6
<1>5. ASSUME NEW d \in Docs, NEW p \in Payloads, RetainNew(d, p)
      PROVE  (ScalarsOK /\ MapsOK)' /\ AttemptLeft'
  <2>1. [doc |-> d, payload |-> p, stray |-> FALSE, status |-> "unknown"] \in Operation
    BY DEF Operation, Status
  <2>2. /\ ops' \in Seq(Operation) /\ Len(ops') = Len(ops) + 1
        /\ Len(ops') <= MaxOps /\ Len(ops) \in Nat
    BY <1>5, <2>1 DEF RetainNew, MapsOK
  <2> QED
    BY <1>4, <1>5, <2>2 DEF RetainNew
<1>6. ASSUME NEW d \in Docs, NEW p \in Payloads, RetainAgain(d, p)
      PROVE  (ScalarsOK /\ MapsOK)' /\ AttemptLeft'
  <2>1. pending[d].op \in 1 .. MaxOps /\ pending[d].op <= Len(ops)
    BY <1>6 DEF RetainAgain, Replaying, MapsOK, Pending
  <2>2. ops' \in Seq(Operation) /\ Len(ops') <= MaxOps /\ Len(ops) <= Len(ops')
    BY <1>6 DEF RetainAgain, MapsOK
  <2>3. pending[d].op <= Len(ops') /\ protect' \in BOOLEAN /\ pc = "idle"
    BY <1>6, <2>1 DEF RetainAgain
  <2> QED
    BY <1>4, <1>6, <2>1, <2>2, <2>3 DEF RetainAgain
<1>7. CASE Expired \/ Send \/ Ask \/ Wake \/ Tick
  <2>1. ScalarsOK' /\ AttemptLeft'
    <3>1. CASE Expired
      BY <3>1, ReturnScalars DEF Expired, ScalarsOK, Results
    <3>2. CASE Send \/ Ask
      BY <3>2 DEF Send, Ask, ScalarsOK, AttemptLeft
    <3>3. CASE Wake
      BY <3>3 DEF Wake, ScalarsOK, AttemptLeft
    <3>4. CASE Tick
      BY <3>4 DEF Tick, ScalarsOK, AttemptLeft
    <3> QED
      BY <1>7, <3>1, <3>2, <3>3, <3>4
  <2>2. MapsOK'
    BY <1>1, <1>7 DEF Expired, Send, Ask, Wake, Tick, Return
  <2> QED
    BY <2>1, <2>2
<1>8. CASE Acknowledged \/ Refused
  <2>1. ScalarsOK' /\ AttemptLeft'
    <3>1. CASE Acknowledged
      <4>1. attempt' \in 0 .. MaxAttempts /\ attempt' < MaxAttempts
        BY <3>1 DEF Acknowledged
      <4> QED
        BY <3>1, <4>1 DEF Acknowledged, ScalarsOK, AttemptLeft
    <3>2. CASE Refused
      BY <3>2, ReturnScalars DEF Refused, Results
    <3> QED
      BY <1>8, <3>1, <3>2
  <2>2. MapsOK'
    BY <1>1, <1>8 DEF Acknowledged, Refused, Return
  <2> QED
    BY <2>1, <2>2
<1>9. CASE MisAcknowledged \/ SubmitLost \/ Undecodable
  <2>1. MapsOK' /\ wire' = "none"
    BY <1>2, <1>9 DEF MisAcknowledged, SubmitLost, Undecodable
  <2>2. ScalarsOK' /\ AttemptLeft'
    BY <1>9, <2>1, ReturnScalars DEF MisAcknowledged, SubmitLost, Undecodable, Results
  <2> QED
    BY <2>1, <2>2
<1>10. CASE SubmitTransient \/ PollTransient
  <2>1. MapsOK' /\ wire' = "none"
    <3>1. CASE SubmitTransient
      BY <1>2, <3>1 DEF SubmitTransient
    <3>2. CASE PollTransient
      BY <1>1, <3>2 DEF PollTransient, ScalarsOK
    <3> QED
      BY <1>10, <3>1, <3>2
  <2>2. PICK request \in {"submit", "ask"} : RetryOrStop(request)
    BY <1>10 DEF SubmitTransient, PollTransient
  <2>3. UNCHANGED since
    BY <1>10 DEF SubmitTransient, PollTransient
  <2>4. ScalarsOK' /\ AttemptLeft'
    BY <2>1, <2>2, <2>3, RetryKeepsType DEF ScalarsOK, AttemptLeft
  <2> QED
    BY <2>1, <2>4
<1>11. CASE PollCompleted \/ PollFailed \/ PollNotFound \/ PollInvalid \/ PollLost
  <2>1. ScalarsOK' /\ AttemptLeft'
    BY <1>11, ReturnScalars
       DEF PollCompleted, PollFailed, PollNotFound, PollInvalid, PollLost, Settle, ScalarsOK,
           Results
  <2>2. MapsOK'
    BY <1>1, <1>11 DEF PollCompleted, PollFailed, PollNotFound, PollInvalid, PollLost, Settle,
                       Return
  <2> QED
    BY <2>1, <2>2
<1>12. CASE PollRunning
  <2>1. left - Clip(Interval, left) \in 0 .. Completion
    BY DEF Clip, ScalarsOK
  <2>2. ScalarsOK' /\ AttemptLeft'
    BY <1>12, <2>1 DEF PollRunning, ScalarsOK, AttemptLeft
  <2>3. MapsOK'
    BY <1>1, <1>12 DEF PollRunning
  <2> QED
    BY <2>2, <2>3
<1>13. CASE Restart
  <2>1. /\ wire' = "none" /\ ops' \in Seq(Operation) /\ Len(ops') = Len(ops)
        /\ Len(ops) \in 0 .. MaxOps
    BY <1>13, AbandonKeepsOps DEF Restart, MapsOK, ScalarsOK
  <2>2. MapsOK'
    BY <1>13, <2>1, MapsKept DEF Restart
  <2>3. ScalarsOK' /\ AttemptLeft'
    BY <1>13, <2>1, IdleScalars DEF Restart, Results
  <2> QED
    BY <2>2, <2>3
<1>14. CASE Engine
  <2>1. ScalarsOK' /\ AttemptLeft'
    BY <1>14, EngineKeepsOps DEF adapter, locals, ScalarsOK, AttemptLeft
  <2>2. MapsOK'
    BY <1>14, EngineKeepsOps, MapsKept DEF adapter
  <2> QED
    BY <2>1, <2>2
<1>15. CASE UNCHANGED vars
  BY <1>15 DEF vars, ScalarsOK, MapsOK, AttemptLeft
<1> QED
  BY <1>3, <1>5, <1>6, <1>7, <1>8, <1>9, <1>10, <1>11, <1>12, <1>13, <1>14, <1>15
     DEF Next, Adapter

(* Every variable keeps its type, and no request is repeated more often than    *)
(* the policy allows.                                                           *)
THEOREM TypeCorrect == Spec => []TypeOK
<1>1. Spec => [](TypeOK /\ AttemptLeft)
  BY TypeInit, TypeNext, PTL DEF Spec
<1> QED
  BY <1>1, PTL

-----------------------------------------------------------------------------
(* Which operation is remembered, and what it stands for. *)

\* The operation of the call was minted for the content of the call.
CallSound ==
    call # None => ops[call.op].doc = call.doc /\ ops[call.op].payload = call.payload

\* A remembered operation is one of this adapter, for this document, for the
\* content remembered with it, and the last one minted for the document.
PendingNewest ==
    \A d \in Docs :
        pending[d] # None =>
            /\ pending[d].op > since
            /\ ops[pending[d].op].doc = d
            /\ ops[pending[d].op].payload = pending[d].payload
            /\ \A m \in (pending[d].op + 1) .. Len(ops) : ops[m].doc # d

\* The operation of a running call is remembered.
InHand == pc # "idle" => pending[call.doc] = [payload |-> call.payload, op |-> call.op]

\* While a refusal settles the submission, the engine has no other copy of it.
OnlyCopy ==
    protect =>
        /\ pc \in {"submit", "posting"}
        /\ ~ops[call.op].stray
        /\ wire # "accepted" => ops[call.op].status = "unknown"

Succeeded ==
    result = "ok" => pc = "idle" /\ call # None /\ ops[call.op].status = "completed"

\* Operations minted before this adapter come first.
SinceSound == since <= Len(ops)

IdentityInv ==
    /\ SinceSound
    /\ CallSound
    /\ PendingNewest
    /\ InHand
    /\ OnlyCopy
    /\ Succeeded
    /\ UncertainIsRemembered
    /\ NoSecondDelivery

LEMMA IdentityInit == Init => IdentityInv
  BY DEF Init, IdentityInv, SinceSound, CallSound, PendingNewest, InHand, OnlyCopy, Succeeded,
         UncertainIsRemembered, NoSecondDelivery

\* What is learned of operations changes nothing of what they are, and lets none
\* take effect again but the one in hand.
Marks ==
    /\ Len(ops') = Len(ops)
    /\ \A k \in 1 .. Len(ops) :
          /\ ops'[k].doc = ops[k].doc
          /\ ops'[k].payload = ops[k].payload
          /\ ops[k].status = "completed" => ops'[k].status = "completed"
          /\ Effective(ops'[k]) => Effective(ops[k]) \/ (pc # "idle" /\ k = call.op)

LEMMA CallOp == TypeOK /\ pc # "idle" => /\ call # None /\ call.doc \in Docs
                                         /\ call.payload \in Payloads
                                         /\ call.op \in 1 .. Len(ops)
                                         /\ Len(ops) \in Nat
  BY StoreAssumption DEF TypeOK, Call

LEMMA SameMarks == ASSUME TypeOK, UNCHANGED ops PROVE Marks
  BY DEF Marks

LEMMA AbandonMarks == ASSUME TypeOK, Abandon PROVE Marks
<1>1. CASE UNCHANGED ops
  BY <1>1, SameMarks
<1>2. CASE wire = "sent" /\ ops' = [ops EXCEPT ![call.op].stray = TRUE]
  <2>1. pc # "idle"
    BY <1>2 DEF TypeOK
  <2>2. call.op \in 1 .. Len(ops)
    BY <2>1, CallOp
  <2>3. Len(ops') = Len(ops)
    BY <1>2 DEF TypeOK
  <2>4. \A k \in 1 .. Len(ops) :
           /\ ops'[k].doc = ops[k].doc /\ ops'[k].payload = ops[k].payload
           /\ ops'[k].status = ops[k].status
           /\ k # call.op => ops'[k] = ops[k]
    BY <1>2, <2>2 DEF TypeOK, Operation
  <2> QED
    BY <2>1, <2>3, <2>4 DEF Marks
<1> QED
  BY <1>1, <1>2 DEF Abandon

LEMMA EngineMarks == ASSUME TypeOK, Engine PROVE Marks
<1>1. CASE Deliver
  <2>1. pc # "idle" /\ call.op \in 1 .. Len(ops)
    BY <1>1, CallOp DEF Deliver, TypeOK
  <2>2. Len(ops') = Len(ops)
    BY <1>1 DEF Deliver, TypeOK
  <2>3. \A k \in 1 .. Len(ops) :
           /\ ops'[k].doc = ops[k].doc /\ ops'[k].payload = ops[k].payload
           /\ ops[k].status = "completed" => ops'[k].status = "completed"
           /\ k # call.op => ops'[k] = ops[k]
    BY <1>1, <2>1 DEF Deliver, TypeOK, Operation, Accepted
  <2> QED
    BY <2>1, <2>2, <2>3 DEF Marks
<1>2. ASSUME NEW i \in 1 .. Len(ops),
             DeliverStray(i) \/ LoseStray(i) \/ Complete(i) \/ FailExtraction(i)
                \/ LoseOperation(i)
      PROVE  Marks
  <2>1. Len(ops') = Len(ops)
    BY <1>2 DEF TypeOK, DeliverStray, LoseStray, Complete, FailExtraction, LoseOperation, Advance
  <2>2. \A k \in 1 .. Len(ops) : k # i => ops'[k] = ops[k]
    BY <1>2 DEF TypeOK, DeliverStray, LoseStray, Complete, FailExtraction, LoseOperation, Advance
  <2>3. /\ ops'[i].doc = ops[i].doc /\ ops'[i].payload = ops[i].payload
        /\ ops[i].status = "completed" => ops'[i].status = "completed"
        /\ Effective(ops'[i]) => Effective(ops[i])
    <3>1. ops[i] \in Operation
      BY DEF TypeOK
    <3>2. CASE DeliverStray(i)
      BY <3>1, <3>2 DEF DeliverStray, Operation, Accepted, Effective, TypeOK
    <3>3. CASE LoseStray(i)
      BY <3>1, <3>3 DEF LoseStray, Operation, Effective, TypeOK
    <3>4. CASE Complete(i) \/ FailExtraction(i) \/ LoseOperation(i)
      BY <3>1, <3>4 DEF Complete, FailExtraction, LoseOperation, Advance, Operation, Effective,
                        TypeOK
    <3> QED
      BY <1>2, <3>2, <3>3, <3>4
  <2> QED
    BY <2>1, <2>2, <2>3 DEF Marks
<1> QED
  BY <1>1, <1>2 DEF Engine

\* Nothing of what is remembered changes.
LEMMA QuietStep ==
  ASSUME TypeOK, IdentityInv, Marks, UNCHANGED <<pending, since>>
  PROVE  SinceSound' /\ PendingNewest' /\ UncertainIsRemembered' /\ NoSecondDelivery'
<1>1. /\ Len(ops) \in Nat /\ Len(ops') = Len(ops)
      /\ \A k \in 1 .. Len(ops) :
            /\ ops'[k].doc = ops[k].doc /\ ops'[k].payload = ops[k].payload
            /\ Effective(ops'[k]) => Effective(ops[k]) \/ (pc # "idle" /\ k = call.op)
  BY DEF Marks, TypeOK
<1>2. \A d \in Docs : pending[d] # None => pending[d].op \in 1 .. Len(ops)
  BY <1>1 DEF TypeOK, Pending
<1>3. pc # "idle" => /\ call.op \in 1 .. Len(ops)
                     /\ ops[call.op].doc = call.doc /\ call.doc \in Docs
                     /\ pending[call.doc] = [payload |-> call.payload, op |-> call.op]
                     /\ pending[call.doc] # None
  BY CallOp, StoreAssumption DEF IdentityInv, CallSound, InHand, Pending, TypeOK, Call
<1>4. PendingNewest'
  BY <1>1, <1>2 DEF IdentityInv, PendingNewest
<1>5. UncertainIsRemembered'
  <2> SUFFICES ASSUME NEW k \in 1 .. Len(ops), Live(k)',
                      \A m \in (k + 1) .. Len(ops) : ops'[m].doc # ops'[k].doc
               PROVE  pending[ops[k].doc] # None /\ pending[ops[k].doc].op = k
    BY <1>1 DEF UncertainIsRemembered
  <2>1. \A m \in (k + 1) .. Len(ops) : ops[m].doc # ops[k].doc
    BY <1>1
  <2>2. k > since /\ (Effective(ops[k]) \/ (pc # "idle" /\ k = call.op))
    BY <1>1 DEF Live
  <2>3. CASE Effective(ops[k])
    BY <2>1, <2>2, <2>3 DEF IdentityInv, UncertainIsRemembered, Live
  <2>4. CASE pc # "idle" /\ k = call.op
    BY <1>3, <2>4
  <2> QED
    BY <2>2, <2>3, <2>4
<1>6. NoSecondDelivery'
  <2> SUFFICES ASSUME NEW j \in 1 .. Len(ops), NEW k \in 1 .. Len(ops), Adjacent(j, k)',
                      ops'[j].payload = ops'[k].payload, Live(j)'
               PROVE  FALSE
    BY <1>1 DEF NoSecondDelivery
  <2>1. Adjacent(j, k) /\ ops[j].payload = ops[k].payload
    BY <1>1 DEF Adjacent
  <2>2. j > since /\ (Effective(ops[j]) \/ (pc # "idle" /\ j = call.op))
    BY <1>1 DEF Live
  <2>3. CASE Effective(ops[j])
    BY <2>1, <2>2, <2>3 DEF IdentityInv, NoSecondDelivery, Live
  <2>4. CASE pc # "idle" /\ j = call.op
    <3>1. \A m \in (j + 1) .. Len(ops) : ops[m].doc # ops[j].doc
      BY <1>3, <2>4 DEF IdentityInv, PendingNewest
    <3> QED
      BY <1>1, <2>1, <3>1 DEF Adjacent
  <2> QED
    BY <2>2, <2>3, <2>4
<1>7. SinceSound'
  BY <1>1 DEF IdentityInv, SinceSound
<1> QED
  BY <1>4, <1>5, <1>6, <1>7

\* A call that goes on, or ends without success, keeping what is remembered.
LEMMA UnprotectedStep ==
  ASSUME TypeOK, IdentityInv, Marks, UNCHANGED <<pending, since>>, protect' = FALSE,
         result' # "ok",
         \/ pc' = "idle" /\ call' \in {call, None}
         \/ pc # "idle" /\ call' = call
  PROVE  IdentityInv'
<1>1. CallSound'
  <2>1. call # None => call.op \in 1 .. Len(ops)
    BY DEF TypeOK, Call
  <2> QED
    BY <2>1 DEF IdentityInv, CallSound, Marks
<1>2. InHand'
  BY DEF IdentityInv, InHand
<1> QED
  BY <1>1, <1>2, QuietStep DEF IdentityInv, OnlyCopy, Succeeded

\* A call that ends and forgets its submission, which cannot take effect any more.
LEMMA ForgetStep ==
  ASSUME TypeOK, IdentityInv, pc # "idle", UNCHANGED <<since, call, ops>>,
         pending' = [pending EXCEPT ![call.doc] = None],
         ~Effective(ops[call.op]), protect' = FALSE, pc' = "idle",
         result' = "ok" => ops[call.op].status = "completed"
  PROVE  IdentityInv'
<1>1. /\ call # None /\ call.op \in 1 .. Len(ops) /\ Len(ops) \in Nat /\ call.doc \in Docs
      /\ ops[call.op].doc = call.doc
      /\ pending[call.doc] # None /\ pending[call.doc].op = call.op
  BY CallOp, StoreAssumption DEF IdentityInv, CallSound, InHand, Pending, TypeOK, Call
<1>2. \A m \in (call.op + 1) .. Len(ops) : ops[m].doc # call.doc
  BY <1>1 DEF IdentityInv, PendingNewest
<1>3. \A d \in Docs : pending'[d] = IF d = call.doc THEN None ELSE pending[d]
  BY DEF TypeOK
<1>4. PendingNewest'
  BY <1>3 DEF IdentityInv, PendingNewest
<1>5. UncertainIsRemembered'
  <2> SUFFICES ASSUME NEW k \in 1 .. Len(ops), Live(k),
                      \A m \in (k + 1) .. Len(ops) : ops[m].doc # ops[k].doc
               PROVE  pending'[ops[k].doc] # None /\ pending'[ops[k].doc].op = k
    BY DEF UncertainIsRemembered, Live
  <2>1. pending[ops[k].doc] # None /\ pending[ops[k].doc].op = k
    BY DEF IdentityInv, UncertainIsRemembered
  <2>2. ops[k].doc # call.doc
    BY <1>1, <2>1 DEF Live
  <2>3. ops[k] \in Operation
    BY DEF TypeOK
  <2> QED
    BY <1>3, <2>1, <2>2, <2>3 DEF Operation
<1>6. NoSecondDelivery'
  BY DEF IdentityInv, NoSecondDelivery, Adjacent, Live
<1> QED
  BY <1>1, <1>4, <1>5, <1>6
     DEF IdentityInv, SinceSound, CallSound, InHand, OnlyCopy, Succeeded

\* Changed or settled content gets the newest operation of its document.
LEMMA NewStep ==
  ASSUME TypeOK, TypeOK', IdentityInv, NEW d \in Docs, NEW p \in Payloads, RetainNew(d, p)
  PROVE  IdentityInv'
<1> DEFINE n == Len(ops) + 1
<1>1. /\ Len(ops) \in Nat /\ Len(ops') = n /\ n \in 1 .. Len(ops') /\ n \in 1 .. MaxOps
      /\ ops'[n] = [doc |-> d, payload |-> p, stray |-> FALSE, status |-> "unknown"]
      /\ \A k \in 1 .. Len(ops) : ops'[k] = ops[k]
      /\ \A k \in 1 .. Len(ops') : k = n \/ k \in 1 .. Len(ops)
      /\ since' = since /\ since <= Len(ops)
  BY DEF RetainNew, Start, TypeOK, IdentityInv, SinceSound
<1>2. /\ call' = [doc |-> d, payload |-> p, op |-> n]
      /\ pending' = [pending EXCEPT ![d] = [payload |-> p, op |-> n]]
      /\ pc' = "submit" /\ result' = "none" /\ wire' = wire /\ wire = "none"
  BY DEF RetainNew, Start, TypeOK
<1>3. \A e \in Docs : pending'[e] = IF e = d THEN [payload |-> p, op |-> n] ELSE pending[e]
  BY <1>2 DEF TypeOK
<1>4. \A e \in Docs : pending[e] # None => pending[e].op \in 1 .. Len(ops)
  BY <1>1 DEF TypeOK, Pending
<1>5. [payload |-> p, op |-> n] # None
  BY <1>1, StoreAssumption DEF Pending
<1>6. ~Effective(ops'[n])
  BY <1>1 DEF Effective
<1>7. PendingNewest'
  <2> SUFFICES ASSUME NEW e \in Docs, pending'[e] # None
               PROVE  /\ pending'[e].op > since
                      /\ ops'[pending'[e].op].doc = e
                      /\ ops'[pending'[e].op].payload = pending'[e].payload
                      /\ \A m \in (pending'[e].op + 1) .. Len(ops') : ops'[m].doc # e
    BY <1>1 DEF PendingNewest
  <2>1. CASE e = d
    BY <1>1, <1>3, <2>1 DEF TypeOK
  <2>2. CASE e # d
    <3> DEFINE i == pending[e].op
    <3>1. pending'[e] = pending[e] /\ pending[e] # None /\ i \in 1 .. Len(ops)
      BY <1>3, <1>4, <2>2
    <3>2. /\ i > since /\ ops[i].doc = e /\ ops[i].payload = pending[e].payload
          /\ \A m \in (i + 1) .. Len(ops) : ops[m].doc # e
      BY <3>1 DEF IdentityInv, PendingNewest
    <3>3. ops'[i] = ops[i]
      BY <1>1, <3>1
    <3>4. ASSUME NEW m \in (i + 1) .. Len(ops')
          PROVE  ops'[m].doc # e
      <4>1. CASE m = n
        BY <1>1, <2>2, <4>1
      <4>2. CASE m # n
        BY <1>1, <3>1, <3>2, <3>4, <4>2
      <4> QED
        BY <4>1, <4>2
    <3> HIDE DEF i
    <3>5. pending'[e].op = i
      BY <3>1 DEF i
    <3> QED
      BY <3>1, <3>2, <3>3, <3>4, <3>5
  <2> QED
    BY <2>1, <2>2
<1>8. UncertainIsRemembered'
  <2> SUFFICES ASSUME NEW k \in 1 .. Len(ops'), Live(k)',
                      \A m \in (k + 1) .. Len(ops') : ops'[m].doc # ops'[k].doc
               PROVE  /\ pending'[ops'[k].doc] # None
                      /\ pending'[ops'[k].doc].op = k
    BY DEF UncertainIsRemembered
  <2>1. k \in 1 .. Len(ops) /\ Live(k) /\ ops'[k] = ops[k] /\ ops[k] \in Operation
    BY <1>1, <1>6 DEF Live, TypeOK
  <2>2. ops[k].doc # d /\ ops[k].doc \in Docs
    BY <1>1, <2>1 DEF Operation
  <2>3. pending[ops[k].doc] # None /\ pending[ops[k].doc].op = k
    BY <1>1, <2>1 DEF IdentityInv, UncertainIsRemembered
  <2> QED
    BY <1>3, <2>1, <2>2, <2>3
<1>9. NoSecondDelivery'
  <2> SUFFICES ASSUME NEW j \in 1 .. Len(ops'), NEW k \in 1 .. Len(ops'), Adjacent(j, k)',
                      ops'[j].payload = ops'[k].payload, Live(j)'
               PROVE  FALSE
    BY DEF NoSecondDelivery
  <2>1. j \in 1 .. Len(ops) /\ ops'[j] = ops[j] /\ Live(j) /\ j < k /\ ops'[j].doc = ops'[k].doc
    BY <1>1 DEF Adjacent, Live
  <2>2. CASE k \in 1 .. Len(ops)
    <3>1. Adjacent(j, k) /\ ops[j].payload = ops[k].payload
      BY <1>1, <2>1, <2>2 DEF Adjacent
    <3> QED
      BY <2>1, <2>2, <3>1 DEF IdentityInv, NoSecondDelivery
  <2>3. CASE k = n
    <3>1. ops[j].doc = d /\ ops[j].payload = p
      BY <1>1, <2>1, <2>3
    <3>2. \A m \in (j + 1) .. Len(ops) : ops[m].doc # d
      BY <1>1, <2>1, <2>3, <3>1 DEF Adjacent
    <3>3. pending[d] # None /\ pending[d].op = j
      BY <2>1, <3>1, <3>2 DEF IdentityInv, UncertainIsRemembered
    <3>4. pending[d].payload = p
      BY <3>1, <3>3 DEF IdentityInv, PendingNewest
    <3> QED
      BY <3>3, <3>4 DEF RetainNew, Replaying
  <2> QED
    BY <1>1, <2>2, <2>3
<1>10. CallSound' /\ InHand' /\ Succeeded' /\ SinceSound'
  <2>1. CallSound'
    BY <1>1, <1>2 DEF CallSound
  <2>2. pending'[d] = [payload |-> p, op |-> n]
    BY <1>3
  <2>3. InHand'
    BY <1>2, <1>5, <2>2 DEF InHand
  <2>4. Succeeded'
    BY <1>2 DEF Succeeded
  <2>5. SinceSound'
    <3>1. since' = since /\ since \in Int /\ since <= Len(ops) /\ Len(ops') = Len(ops) + 1
          /\ Len(ops) \in Nat
      BY <1>1 DEF TypeOK
    <3> QED
      BY <3>1 DEF SinceSound
  <2> QED
    BY <2>1, <2>3, <2>4, <2>5
<1>11. OnlyCopy'
  BY <1>1, <1>2 DEF OnlyCopy
<1> QED
  BY <1>7, <1>8, <1>9, <1>10, <1>11 DEF IdentityInv

\* An unchanged uncertain document keeps the operation it has.
LEMMA AgainStep ==
  ASSUME TypeOK, IdentityInv, NEW d \in Docs, NEW p \in Payloads, RetainAgain(d, p)
  PROVE  IdentityInv'
<1>1. pending[d] \in Pending /\ pending[d].payload = p
  BY DEF RetainAgain, Replaying, TypeOK
<1>2. pending[d] = [payload |-> p, op |-> pending[d].op]
  BY <1>1 DEF Pending
<1>3. pending' = pending
  BY <1>2 DEF RetainAgain, Start, TypeOK
<1>4. /\ UNCHANGED <<ops, since>> /\ protect' = FALSE /\ result' = "none"
      /\ call' = [doc |-> d, payload |-> p, op |-> pending[d].op]
  BY DEF RetainAgain, Start
<1>5. SinceSound' /\ PendingNewest' /\ UncertainIsRemembered' /\ NoSecondDelivery'
  BY <1>3, <1>4, SameMarks, QuietStep
<1>6. CallSound' /\ InHand'
  BY <1>1, <1>2, <1>3, <1>4 DEF RetainAgain, Replaying, IdentityInv, PendingNewest, CallSound,
                                InHand
<1> QED
  BY <1>4, <1>5, <1>6 DEF IdentityInv, OnlyCopy, Succeeded

LEMMA IdentityNext == TypeOK /\ TypeOK' /\ IdentityInv /\ [Next]_vars => IdentityInv'
<1> SUFFICES ASSUME TypeOK, TypeOK', IdentityInv, [Next]_vars
             PROVE  IdentityInv'
  OBVIOUS
<1>1. pc # "idle" => result # "ok"
  BY DEF IdentityInv, Succeeded
<1>2. pc \notin {"submit", "posting"} => protect = FALSE
  BY DEF IdentityInv, OnlyCopy, TypeOK
<1>3. UNCHANGED ops => Marks
  BY SameMarks
<1>4. CASE RefuseInput \/ \E d \in Docs : TooManyUncertain(d)
  BY <1>3, <1>4, UnprotectedStep DEF RefuseInput, TooManyUncertain, Return, NoLocals
<1>5. ASSUME NEW d \in Docs, NEW p \in Payloads, RetainNew(d, p) \/ RetainAgain(d, p)
      PROVE  IdentityInv'
  BY <1>5, NewStep, AgainStep
<1>6. CASE Expired
  BY <1>3, <1>6, UnprotectedStep DEF Expired, Return, NoLocals
<1>7. CASE Send
  <2>1. UNCHANGED <<pending, since, call, ops, protect, result>> /\ pc = "submit"
    BY <1>7 DEF Send
  <2>2. OnlyCopy'
    BY <1>7, <2>1 DEF Send, IdentityInv, OnlyCopy, TypeOK
  <2>3. SinceSound' /\ PendingNewest' /\ UncertainIsRemembered' /\ NoSecondDelivery'
    BY <1>3, <2>1, QuietStep
  <2> QED
    BY <1>1, <1>7, <2>1, <2>2, <2>3 DEF Send, IdentityInv, CallSound, InHand, Succeeded
<1>8. CASE Ask \/ Wake \/ PollRunning \/ Acknowledged
  BY <1>1, <1>2, <1>3, <1>8, UnprotectedStep DEF Ask, Wake, PollRunning, Acknowledged
<1>9. CASE MisAcknowledged \/ SubmitLost \/ Undecodable
  BY <1>9, AbandonMarks, UnprotectedStep
     DEF MisAcknowledged, SubmitLost, Undecodable, Return, NoLocals
<1>10. ASSUME NEW request \in {"submit", "ask"}, RetryOrStop(request), pc # "idle"
       PROVE  /\ protect' = FALSE /\ result' # "ok"
              /\ pc' \in {"idle", "backoff"}
  BY <1>1, <1>10 DEF RetryOrStop, Return, NoLocals
<1>11. CASE SubmitTransient \/ PollTransient
  <2>1. Marks
    BY <1>3, <1>11, AbandonMarks DEF SubmitTransient, PollTransient
  <2> QED
    BY <1>10, <1>11, <2>1, UnprotectedStep DEF SubmitTransient, PollTransient
<1>12. CASE Refused
  <2>1. CASE protect
    <3>1. ~Effective(ops[call.op])
      BY <1>12, <2>1 DEF Refused, IdentityInv, OnlyCopy, Effective
    <3> QED
      BY <1>12, <2>1, <3>1, ForgetStep DEF Refused, Return, NoLocals
  <2>2. CASE ~protect
    BY <1>3, <1>12, <2>2, UnprotectedStep DEF Refused, Return, NoLocals
  <2> QED
    BY <2>1, <2>2
<1>13. CASE PollCompleted \/ PollFailed
  <2>1. ~Effective(ops[call.op])
    BY <1>13 DEF PollCompleted, PollFailed, Progress, Effective
  <2> QED
    BY <1>13, <2>1, ForgetStep DEF PollCompleted, PollFailed, Settle, Return, NoLocals, Progress
<1>14. CASE PollNotFound \/ PollInvalid \/ PollLost
  BY <1>3, <1>14, UnprotectedStep DEF PollNotFound, PollInvalid, PollLost, Return, NoLocals
<1>15. ASSUME Marks, UNCHANGED <<pending, since, pc, call, protect, result>>, OnlyCopy'
       PROVE  IdentityInv'
  <2>1. SinceSound' /\ PendingNewest' /\ UncertainIsRemembered' /\ NoSecondDelivery'
    BY <1>15, QuietStep
  <2>2. call # None => call.op \in 1 .. Len(ops)
    BY DEF TypeOK, Call
  <2> QED
    BY <1>15, <2>1, <2>2 DEF IdentityInv, CallSound, InHand, Succeeded, Marks
<1>16. CASE Tick
  BY <1>3, <1>15, <1>16 DEF Tick, IdentityInv, OnlyCopy
<1>17. CASE Engine
  <2>1. UNCHANGED adapter
    BY <1>17, EngineKeepsOps
  <2>2. OnlyCopy'
    <3> SUFFICES ASSUME protect
                 PROVE  /\ ~ops'[call.op].stray
                        /\ wire' # "accepted" => ops'[call.op].status = "unknown"
      BY <2>1 DEF adapter, locals, IdentityInv, OnlyCopy
    <3>1. pc # "idle" /\ call.op \in 1 .. Len(ops) /\ ~ops[call.op].stray
          /\ (wire # "accepted" => ops[call.op].status = "unknown")
      BY CallOp DEF IdentityInv, OnlyCopy
    <3>2. CASE Deliver
      BY <3>1, <3>2 DEF Deliver, TypeOK, Operation
    <3>3. ASSUME NEW i \in 1 .. Len(ops), DeliverStray(i)
          PROVE  ops'[call.op] = ops[call.op] /\ wire' = wire
      BY <3>1, <3>3 DEF DeliverStray, TypeOK
    <3>4. ASSUME NEW i \in 1 .. Len(ops), LoseStray(i)
          PROVE  ops'[call.op] = ops[call.op] /\ wire' = wire
      BY <3>1, <3>4 DEF LoseStray, TypeOK
    <3>5. ASSUME NEW i \in 1 .. Len(ops), Complete(i) \/ FailExtraction(i) \/ LoseOperation(i)
          PROVE  /\ ops'[call.op].stray = ops[call.op].stray /\ wire' = wire
                 /\ ops[call.op].status = "unknown" => ops'[call.op] = ops[call.op]
      <4>1. PICK to \in {"completed", "failed", "unknown"} : Advance(i, to)
        BY <3>5 DEF Complete, FailExtraction, LoseOperation
      <4>2. /\ ops[i].status = "running" /\ wire' = wire
            /\ ops' = [ops EXCEPT ![i] = [ops[i] EXCEPT !.status = to]]
        BY <4>1 DEF Advance
      <4>3. ops[i] \in Operation /\ ops \in Seq(Operation)
        BY DEF TypeOK
      <4>4. CASE i = call.op
        <5>1. ops'[i] = [ops[i] EXCEPT !.status = to]
          BY <4>2, <4>3
        <5>2. ops'[i].stray = ops[i].stray
          BY <4>3, <5>1 DEF Operation
        <5> QED
          BY <4>2, <4>4, <5>2
      <4>5. CASE i # call.op
        BY <3>1, <4>2, <4>3, <4>5
      <4> QED
        BY <4>4, <4>5
    <3> QED
      BY <1>17, <3>1, <3>2, <3>3, <3>4, <3>5 DEF Engine
  <2> QED
    BY <1>15, <1>17, <2>1, <2>2, EngineMarks DEF adapter, locals
<1>18. CASE Restart
  <2>1. Len(ops') = Len(ops) /\ Len(ops) \in Nat
    <3>1. UNCHANGED ops \/ Abandon
      BY <1>18 DEF Restart
    <3> QED
      BY <1>3, <3>1, AbandonMarks DEF Marks, TypeOK
  <2>2. /\ since' = Len(ops) /\ pc' = "idle" /\ call' = None /\ result' = "none"
        /\ protect' = FALSE /\ \A d \in Docs : pending'[d] = None
    BY <1>18 DEF Restart, NoLocals
  <2>3. UncertainIsRemembered' /\ NoSecondDelivery'
    BY <2>1, <2>2 DEF UncertainIsRemembered, NoSecondDelivery, Live
  <2> QED
    BY <2>1, <2>2, <2>3 DEF IdentityInv, SinceSound, CallSound, PendingNewest, InHand, OnlyCopy,
                            Succeeded
<1>19. CASE UNCHANGED vars
  BY <1>3, <1>15, <1>19 DEF vars, IdentityInv, OnlyCopy
<1> QED
  BY <1>4, <1>5, <1>6, <1>7, <1>8, <1>9, <1>11, <1>12, <1>13, <1>14, <1>16, <1>17, <1>18, <1>19
     DEF Next, Adapter

LEMMA IdentityInvariant == Spec => []IdentityInv
  BY IdentityInit, IdentityNext, TypeCorrect, PTL DEF Spec

(* A normal return of retain means that the engine has extracted exactly what   *)
(* was retained, for any number of repetitions, lost answers and restarts.      *)
THEOREM SuccessExtracted == Spec => []SuccessIsExtracted
<1>1. IdentityInv => SuccessIsExtracted
  BY DEF IdentityInv, Succeeded, CallSound, SuccessIsExtracted
<1> QED
  BY <1>1, IdentityInvariant, PTL

(* The newest operation of a document keeps its UUID for as long as it may take *)
(* effect without the caller having heard how it ended.                         *)
THEOREM UncertainRemembered == Spec => []UncertainIsRemembered
<1>1. IdentityInv => UncertainIsRemembered
  BY DEF IdentityInv
<1> QED
  BY <1>1, IdentityInvariant, PTL

(* Unchanged content is not queued again while its submission may take effect.  *)
THEOREM NoneTwice == Spec => []NoSecondDelivery
<1>1. IdentityInv => NoSecondDelivery
  BY DEF IdentityInv
<1> QED
  BY <1>1, IdentityInvariant, PTL

-----------------------------------------------------------------------------
(* How many documents are remembered. *)

Remembered == {d \in Docs : pending[d] # None}

Bounded == IsFiniteSet(Remembered) /\ Cardinality(Remembered) <= Capacity

\* A step that remembers no further document.
LEMMA FewerRemembered ==
  ASSUME Bounded, Remembered' \subseteq Remembered
  PROVE  Bounded'
<1>1. /\ IsFiniteSet(Remembered') /\ Cardinality(Remembered') <= Cardinality(Remembered)
      /\ Cardinality(Remembered) \in Nat /\ Cardinality(Remembered') \in Nat
  BY FS_Subset, FS_CardinalityType DEF Bounded
<1> QED
  BY <1>1, StoreAssumption DEF Bounded

LEMMA BoundedInit == Init => Bounded
<1> SUFFICES ASSUME Init PROVE Bounded
  OBVIOUS
<1>1. Remembered = {}
  BY DEF Init, Remembered
<1> QED
  BY <1>1, FS_EmptySet, StoreAssumption DEF Bounded

LEMMA BoundedNext == TypeOK /\ Bounded /\ [Next]_vars => Bounded'
<1> SUFFICES ASSUME TypeOK, Bounded, [Next]_vars
             PROVE  Bounded'
  OBVIOUS
<1>1. ASSUME pending' = pending \/ pending' = [pending EXCEPT ![call.doc] = None]
                \/ pending' = [d \in Docs |-> None]
      PROVE  Bounded'
  <2>1. Remembered' \subseteq Remembered
    BY <1>1 DEF Remembered, TypeOK
  <2> QED
    BY <2>1, FewerRemembered
<1>2. ASSUME NEW d \in Docs, NEW p \in Payloads, NEW op, Start(d, p, op), pending[d] # None
      PROVE  Bounded'
  <2>1. Remembered' \subseteq Remembered
    BY <1>2 DEF Start, Remembered, TypeOK
  <2> QED
    BY <2>1, FewerRemembered
<1>3. ASSUME NEW d \in Docs, NEW p \in Payloads, NEW op, Start(d, p, op), pending[d] = None,
             ~Full(d)
      PROVE  Bounded'
  <2>1. /\ IsFiniteSet(Remembered) /\ Cardinality(Remembered) < Capacity
        /\ Cardinality(Remembered) \in Nat
    BY <1>3, FS_CardinalityType, StoreAssumption DEF Bounded, Full, Remembered
  <2>2. d \notin Remembered /\ Remembered' \subseteq Remembered \cup {d}
    BY <1>3 DEF Start, Remembered, TypeOK
  <2>3. /\ IsFiniteSet(Remembered \cup {d})
        /\ Cardinality(Remembered \cup {d}) = Cardinality(Remembered) + 1
    BY <2>1, <2>2, FS_AddElement
  <2>4. /\ IsFiniteSet(Remembered') /\ Cardinality(Remembered') \in Nat
        /\ Cardinality(Remembered') <= Cardinality(Remembered \cup {d})
    BY <2>2, <2>3, FS_Subset, FS_CardinalityType
  <2> QED
    BY <2>1, <2>3, <2>4, StoreAssumption DEF Bounded
<1>4. ASSUME NEW d \in Docs, NEW p \in Payloads, RetainNew(d, p) \/ RetainAgain(d, p)
      PROVE  Bounded'
  BY <1>2, <1>3, <1>4 DEF RetainNew, RetainAgain, Replaying
<1>5. CASE Engine
  BY <1>1, <1>5, EngineKeepsOps DEF adapter
<1>6. CASE Adapter
  BY <1>1, <1>6
     DEF Adapter, Expired, Send, Ask, Wake, Acknowledged, Refused, MisAcknowledged,
         SubmitTransient, SubmitLost, Undecodable, PollCompleted, PollFailed, PollNotFound,
         PollRunning, PollInvalid, PollTransient, PollLost, Settle
<1>7. CASE RefuseInput \/ (\E d \in Docs : TooManyUncertain(d)) \/ Tick \/ Restart
  BY <1>1, <1>7 DEF RefuseInput, TooManyUncertain, Tick, Restart
<1>8. CASE UNCHANGED vars
  BY <1>1, <1>8 DEF vars
<1> QED
  BY <1>4, <1>5, <1>6, <1>7, <1>8 DEF Next

(* The adapter never remembers more uncertain documents than it may, and what   *)
(* it remembers under a UUID is what was submitted under it.                    *)
THEOREM PendingSound == Spec => []PendingIsSound
<1>1. Spec => []Bounded
  BY TypeCorrect, BoundedInit, BoundedNext, PTL DEF Spec
<1>2. Bounded /\ IdentityInv => PendingIsSound
  <2>1. Bounded => Cardinality({d \in Docs : pending[d] # None}) <= Capacity
    BY DEF Bounded, Remembered
  <2> QED
    BY <2>1 DEF IdentityInv, PendingNewest, PendingIsSound
<1> QED
  BY <1>1, <1>2, IdentityInvariant, PTL

-----------------------------------------------------------------------------
(* The promises of the boundary: what a caller knows of the last request of a    *)
(* document moves only as MemoryStore allows.                                    *)

\* The operations of a document have a last one.
NewestExists == \A d \in Docs : OpsOf(d) # {} => \E k \in OpsOf(d) : IsNewest(k)

\* No operation is minted, and each remains what it was minted for.
SameOps ==
    /\ Len(ops') = Len(ops)
    /\ \A k \in 1 .. Len(ops) : ops'[k].doc = ops[k].doc /\ ops'[k].payload = ops[k].payload

LEMMA OpsOfSame ==
  ASSUME SameOps
  PROVE  /\ \A d : OpsOf(d)' = OpsOf(d)
         /\ \A k \in 1 .. Len(ops) : IsNewest(k)' <=> IsNewest(k)
<1>1. \A d : OpsOf(d)' = OpsOf(d)
  BY DEF SameOps, OpsOf
<1>2. \A k \in 1 .. Len(ops) : ops'[k].doc = ops[k].doc
  BY DEF SameOps
<1> QED
  BY <1>1, <1>2 DEF IsNewest

\* The last operation of a document is the request a caller knows of.
NewestShown ==
    \A k \in 1 .. Len(ops) :
        IsNewest(k) =>
            /\ ops[k].doc \in Docs
            /\ Newest[ops[k].doc] = [payload |-> ops[k].payload, state |-> StateOf(k)]

LEMMA NewestIs == TypeOK => NewestShown
<1> SUFFICES ASSUME TypeOK, NEW k \in 1 .. Len(ops), IsNewest(k)
             PROVE  /\ ops[k].doc \in Docs
                    /\ Newest[ops[k].doc] = [payload |-> ops[k].payload, state |-> StateOf(k)]
  BY DEF NewestShown
<1> DEFINE d == ops[k].doc
           j == CHOOSE j \in OpsOf(d) : IsNewest(j)
<1>1. d \in Docs
  <2>1. ops[k] \in Operation
    BY DEF TypeOK
  <2> QED
    BY <2>1 DEF Operation
<1>2. k \in OpsOf(d)
  BY DEF OpsOf
<1>3. j \in OpsOf(d) /\ IsNewest(j)
  BY <1>2
<1>4. j \in 1 .. Len(ops) /\ ops[j].doc = d
  BY <1>3 DEF OpsOf
<1>5. j <= k /\ k <= j
  BY <1>2, <1>3, <1>4 DEF IsNewest
<1>6. j = k
  BY <1>4, <1>5 DEF TypeOK
<1>7. Newest[d] = [payload |-> ops[j].payload, state |-> StateOf(j)]
  BY <1>1, <1>2 DEF Newest
<1> QED
  BY <1>1, <1>6, <1>7

LEMMA NewestIsPrimed == TypeOK' => NewestShown'
  BY NewestIs, PTL

LEMMA NewestIsNext ==
  ASSUME TypeOK', SameOps, NEW k \in 1 .. Len(ops), IsNewest(k)
  PROVE  Newest'[ops[k].doc] = [payload |-> ops[k].payload, state |-> StateOf(k)']
<1>1. NewestShown'
  BY NewestIsPrimed
<1>2. IsNewest(k)' /\ ops'[k].doc = ops[k].doc /\ ops'[k].payload = ops[k].payload
      /\ Len(ops') = Len(ops)
  BY OpsOfSame DEF SameOps
<1> QED
  BY <1>1, <1>2 DEF NewestShown

\* A request may become memory just when its state says so.
LEMMA OpenState == \A k : StateOf(k) = "open" <=> Open(k)
  BY DEF StateOf, Open, Effective

LEMMA OpenStateNext == \A k : StateOf(k)' = "open" <=> Open(k)'
  BY DEF StateOf, Open, Effective

LEMMA MapsDomain ==
  /\ Newest = [d \in Docs |-> Newest[d]] /\ Late = [d \in Docs |-> Late[d]]
  /\ Newest' = [d \in Docs |-> Newest'[d]] /\ Late' = [d \in Docs |-> Late'[d]]
<1>1. Newest = [d \in Docs |-> Newest[d]]
  BY DEF Newest
<1>2. Late = [d \in Docs |-> Late[d]]
  BY DEF Late
<1>3. Newest' = [d \in Docs |-> Newest'[d]]
  BY DEF Newest
<1>4. Late' = [d \in Docs |-> Late'[d]]
  BY DEF Late
<1> QED
  BY <1>1, <1>2, <1>3, <1>4

\* The requests of a document of which no operation changes its state.
LEMMA DocSame ==
  ASSUME TypeOK, TypeOK', NewestExists, SameOps, NEW d \in Docs,
         \A k \in OpsOf(d) : StateOf(k)' = StateOf(k)
  PROVE  Newest'[d] = Newest[d] /\ Late'[d] = Late[d]
<1>1. OpsOf(d)' = OpsOf(d) /\ OpsOf(d) \subseteq 1 .. Len(ops)
  BY OpsOfSame DEF OpsOf
<1>2. Newest'[d] = Newest[d]
  <2>1. CASE OpsOf(d) = {}
    BY <1>1, <2>1 DEF Newest
  <2>2. CASE OpsOf(d) # {}
    <3>1. PICK k \in OpsOf(d) : IsNewest(k)
      BY <2>2 DEF NewestExists
    <3>2. k \in 1 .. Len(ops) /\ ops[k].doc = d
      BY DEF OpsOf
    <3> QED
      BY <3>1, <3>2, NewestIs, NewestIsNext DEF NewestShown
  <2> QED
    BY <2>1, <2>2
<1>3. Late'[d] = Late[d]
  <2>1. Late[d] = {ops[k].payload : k \in {j \in OpsOf(d) : Open(j) /\ ~IsNewest(j)}}
    BY DEF Late
  <2>2. Late'[d] = {ops'[k].payload : k \in {j \in OpsOf(d)' : Open(j)' /\ ~IsNewest(j)'}}
    BY DEF Late
  <2>3. \A j \in OpsOf(d) : /\ Open(j)' <=> Open(j)
                            /\ IsNewest(j)' <=> IsNewest(j)
                            /\ ops'[j].payload = ops[j].payload
    BY <1>1, OpenState, OpenStateNext, OpsOfSame DEF SameOps
  <2> HIDE DEF Late
  <2> QED
    BY <1>1, <2>1, <2>2, <2>3
<1> QED
  BY <1>2, <1>3

LEMMA StoreSame ==
  ASSUME TypeOK, TypeOK', NewestExists, SameOps,
         \A k \in 1 .. Len(ops) : StateOf(k)' = StateOf(k)
  PROVE  Newest' = Newest /\ Late' = Late
<1>1. \A d \in Docs : Newest'[d] = Newest[d] /\ Late'[d] = Late[d]
  BY DocSame DEF OpsOf
<1> QED
  BY <1>1, MapsDomain

\* The last request of a document changes its state.
LEMMA NewestMoves ==
  ASSUME TypeOK, TypeOK', NewestExists, SameOps, NEW i \in 1 .. Len(ops), IsNewest(i),
         \A k \in 1 .. Len(ops) : k # i => StateOf(k)' = StateOf(k)
  PROVE  /\ Newest' = [Newest EXCEPT ![ops[i].doc] = [payload |-> ops[i].payload,
                                                      state |-> StateOf(i)']]
         /\ Late' = Late
<1>0. PICK e \in Docs : e = ops[i].doc
  BY NewestIs DEF NewestShown
<1>1. \A d \in Docs \ {e} : Newest'[d] = Newest[d] /\ Late'[d] = Late[d]
  <2> SUFFICES ASSUME NEW d \in Docs \ {e}
               PROVE  Newest'[d] = Newest[d] /\ Late'[d] = Late[d]
    OBVIOUS
  <2>1. \A k \in OpsOf(d) : k \in 1 .. Len(ops) /\ k # i
    BY <1>0 DEF OpsOf
  <2> QED
    BY <2>1, DocSame
<1>2. Newest'[e] = [payload |-> ops[i].payload, state |-> StateOf(i)']
  BY <1>0, NewestIsNext
<1>3. Late'[e] = Late[e]
  <2>1. Late[e] = {ops[k].payload : k \in {j \in OpsOf(e) : Open(j) /\ ~IsNewest(j)}}
    BY DEF Late
  <2>2. Late'[e] = {ops'[k].payload : k \in {j \in OpsOf(e)' : Open(j)' /\ ~IsNewest(j)'}}
    BY DEF Late
  <2>3. OpsOf(e)' = OpsOf(e) /\ OpsOf(e) \subseteq 1 .. Len(ops)
    BY OpsOfSame DEF OpsOf
  <2>4. \A j \in OpsOf(e) : /\ j # i => (Open(j)' <=> Open(j))
                            /\ IsNewest(j)' <=> IsNewest(j)
                            /\ ops'[j].payload = ops[j].payload
    BY <2>3, OpenState, OpenStateNext, OpsOfSame DEF SameOps
  <2>5. \A j \in OpsOf(e) : (Open(j)' /\ ~IsNewest(j)') <=> (Open(j) /\ ~IsNewest(j))
    BY <2>4
  <2> QED
    BY <2>1, <2>2, <2>3, <2>4, <2>5
<1>4. Late' = Late
  BY <1>1, <1>3, MapsDomain
<1>5. Newest' = [Newest EXCEPT ![e] = [payload |-> ops[i].payload, state |-> StateOf(i)']]
  BY <1>0, <1>1, <1>2, MapsDomain
<1> QED
  BY <1>0, <1>4, <1>5

\* An earlier request that might still have become memory becomes it, or never will.
LEMMA LateMoves ==
  ASSUME TypeOK, TypeOK', NewestExists, SameOps, NEW i \in 1 .. Len(ops), ~IsNewest(i),
         Open(i), ~Open(i)',
         \A k \in 1 .. Len(ops) : k # i => StateOf(k)' = StateOf(k)
  PROVE  /\ Newest' = Newest
         /\ ops[i].doc \in Docs /\ ops[i].payload \in Late[ops[i].doc]
         /\ Late' \in {Late, [Late EXCEPT ![ops[i].doc] = @ \ {ops[i].payload}]}
<1>a. ops[i] \in Operation
  BY DEF TypeOK
<1>0. PICK e \in Docs, q \in Payloads : e = ops[i].doc /\ q = ops[i].payload
  BY <1>a DEF Operation
<1>1. \A d \in Docs \ {e} : Newest'[d] = Newest[d] /\ Late'[d] = Late[d]
  <2> SUFFICES ASSUME NEW d \in Docs \ {e}
               PROVE  Newest'[d] = Newest[d] /\ Late'[d] = Late[d]
    OBVIOUS
  <2>1. \A k \in OpsOf(d) : k \in 1 .. Len(ops) /\ k # i
    BY <1>0 DEF OpsOf
  <2> QED
    BY <2>1, DocSame
<1>2. Newest'[e] = Newest[e]
  <2>1. i \in OpsOf(e)
    BY <1>0 DEF OpsOf
  <2>2. PICK k \in OpsOf(e) : IsNewest(k)
    BY <1>0, <2>1 DEF NewestExists
  <2>3. k \in 1 .. Len(ops) /\ ops[k].doc = e /\ k # i
    BY <1>0, <2>2 DEF OpsOf
  <2>4. StateOf(k)' = StateOf(k)
    BY <2>3
  <2> QED
    BY <2>2, <2>3, <2>4, NewestIs, NewestIsNext DEF NewestShown
<1>3. q \in Late[e] /\ Late'[e] \in {Late[e], Late[e] \ {q}}
  <2>1. Late[e] = {ops[k].payload : k \in {j \in OpsOf(e) : Open(j) /\ ~IsNewest(j)}}
    BY DEF Late
  <2>2. Late'[e] = {ops'[k].payload : k \in {j \in OpsOf(e)' : Open(j)' /\ ~IsNewest(j)'}}
    BY DEF Late
  <2>3. OpsOf(e)' = OpsOf(e) /\ OpsOf(e) \subseteq 1 .. Len(ops) /\ i \in OpsOf(e)
    BY <1>0, OpsOfSame DEF OpsOf
  <2>4. \A j \in OpsOf(e) : /\ j # i => (Open(j)' <=> Open(j))
                            /\ IsNewest(j)' <=> IsNewest(j)
                            /\ ops'[j].payload = ops[j].payload
    BY <2>3, OpenState, OpenStateNext, OpsOfSame DEF SameOps
  <2>5. \A j \in OpsOf(e) : (Open(j)' /\ ~IsNewest(j)') <=> (j # i /\ Open(j) /\ ~IsNewest(j))
    BY <2>4
  <2>6. q \in Late[e]
    BY <1>0, <2>1, <2>3
  <2>7. Late'[e] = {ops[k].payload : k \in {j \in OpsOf(e) : j # i /\ Open(j) /\ ~IsNewest(j)}}
    BY <2>2, <2>3, <2>4, <2>5
  <2>8. Late[e] \ {q} \subseteq Late'[e] /\ Late'[e] \subseteq Late[e]
    BY <1>0, <2>1, <2>7
  <2> QED
    BY <2>6, <2>8
<1>4. Newest' = Newest
  BY <1>1, <1>2, MapsDomain
<1>5. Late' \in {Late, [Late EXCEPT ![e] = @ \ {q}]}
  <2>1. CASE Late'[e] = Late[e]
    BY <1>1, <2>1, MapsDomain
  <2>2. CASE Late'[e] = Late[e] \ {q}
    BY <1>0, <1>1, <2>2, MapsDomain
  <2> QED
    BY <1>3, <2>1, <2>2
<1> QED
  BY <1>0, <1>3, <1>4, <1>5

\* The call in progress is about the last operation of its document.
LEMMA HandNewest ==
  ASSUME TypeOK, IdentityInv, pc # "idle"
  PROVE  /\ call.op \in 1 .. Len(ops) /\ call.op > since
         /\ call.doc \in Docs /\ call.payload \in Payloads
         /\ ops[call.op].doc = call.doc /\ ops[call.op].payload = call.payload
         /\ IsNewest(call.op)
         /\ Asked = [doc |-> call.doc, payload |-> call.payload] /\ Asked # None
         /\ Newest[call.doc] = [payload |-> call.payload, state |-> StateOf(call.op)]
<1>1. /\ call # None /\ call.doc \in Docs /\ call.payload \in Payloads
      /\ call.op \in 1 .. Len(ops) /\ Len(ops) \in Nat
  BY CallOp
<1>2. /\ ops[call.op].doc = call.doc /\ ops[call.op].payload = call.payload
      /\ pending[call.doc] = [payload |-> call.payload, op |-> call.op]
  BY <1>1 DEF IdentityInv, CallSound, InHand
<1>3. pending[call.doc] # None /\ pending[call.doc].op = call.op
  BY <1>1, <1>2, StoreAssumption DEF TypeOK, Call, Pending
<1>4. call.op > since /\ \A m \in (call.op + 1) .. Len(ops) : ops[m].doc # call.doc
  BY <1>1, <1>3 DEF IdentityInv, PendingNewest
<1>5. IsNewest(call.op)
  BY <1>1, <1>2, <1>4 DEF IsNewest, OpsOf
<1>6. Asked = [doc |-> call.doc, payload |-> call.payload] /\ Asked \in Task
  BY <1>1 DEF Asked, Task
<1>7. Asked # None
  BY <1>6, StoreAssumption
<1> QED
  BY <1>1, <1>2, <1>4, <1>5, <1>6, <1>7, NewestIs DEF NewestShown

\* Of an operation that is not in hand only what the engine knows of it tells.
LEMMA OpenAlone ==
  ASSUME NEW k
  PROVE  /\ (wire # "sent" \/ call.op # k) => (Open(k) <=> Effective(ops[k]))
         /\ (wire' # "sent" \/ call'.op # k) => (Open(k)' <=> Effective(ops'[k]))
  BY DEF Open

LEMMA StateAlone ==
  ASSUME NEW k, ops'[k] = ops[k], wire # "sent" \/ call.op # k, wire' # "sent" \/ call'.op # k
  PROVE  StateOf(k)' = StateOf(k)
<1>1. Open(k)' <=> Open(k)
  BY OpenAlone
<1> QED
  BY <1>1 DEF StateOf

LEMMA NoRequestNewlyOurs ==
  ASSUME SameOps, UNCHANGED since
  PROVE  Ours' = Ours
<1>1. \A d : OpsOf(d)' = OpsOf(d)
  BY OpsOfSame
<1> QED
  BY <1>1 DEF Ours

LEMMA NothingSent == TypeOK /\ pc # "posting" => wire = "none"
  BY DEF TypeOK

\* A step of which the caller sees nothing, and that changes no operation.
LEMMA HiddenStep ==
  ASSUME TypeOK, TypeOK', NewestExists, UNCHANGED <<ops, since>>, UNCHANGED <<Asked, Answer>>,
         wire # "sent", wire' # "sent"
  PROVE  UNCHANGED Store!vars
<1>1. SameOps
  BY DEF SameOps
<1>2. \A k \in 1 .. Len(ops) : StateOf(k)' = StateOf(k)
  BY StateAlone
<1>3. Newest' = Newest /\ Late' = Late
  BY <1>1, <1>2, StoreSame
<1> QED
  BY <1>1, <1>3, NoRequestNewlyOurs DEF Store!vars

\* An open request comes to something, or stays open, and the caller sees nothing.
LEMMA SettleStep ==
  ASSUME TypeOK, TypeOK', NewestExists, SameOps, UNCHANGED since, UNCHANGED <<Asked, Answer>>,
         NEW i \in 1 .. Len(ops), Open(i) \/ StateOf(i)' = StateOf(i),
         \A k \in 1 .. Len(ops) : k # i => StateOf(k)' = StateOf(k)
  PROVE  [Store!Next]_(Store!vars)
<1>1. Ours' = Ours
  BY NoRequestNewlyOurs
<1>2. CASE StateOf(i)' = StateOf(i)
  <2>1. \A k \in 1 .. Len(ops) : StateOf(k)' = StateOf(k)
    BY <1>2
  <2>2. Newest' = Newest /\ Late' = Late
    BY <2>1, StoreSame
  <2> QED
    BY <1>1, <2>2 DEF Store!vars
<1>3. CASE StateOf(i)' # StateOf(i) /\ IsNewest(i)
  <2>1. StateOf(i) = "open" /\ StateOf(i)' \in {"kept", "void"}
    <3>1. StateOf(i) = "open"
      BY <1>3, OpenState
    <3>2. StateOf(i)' \in {"kept", "open", "void"}
      BY DEF StateOf
    <3> QED
      BY <1>3, <3>1, <3>2
  <2>a. ops[i] \in Operation
    BY DEF TypeOK
  <2>2. ops[i].doc \in Docs /\ ops[i].payload \in Payloads
    BY <2>a DEF Operation
  <2>3. Newest[ops[i].doc] = [payload |-> ops[i].payload, state |-> "open"]
    BY <1>3, <2>1, NewestIs DEF NewestShown
  <2>4. /\ Newest' = [Newest EXCEPT ![ops[i].doc] = [payload |-> ops[i].payload,
                                                     state |-> StateOf(i)']]
        /\ Late' = Late
    BY <1>3, NewestMoves
  <2>5. /\ Newest[ops[i].doc] # None /\ Newest[ops[i].doc].state = "open"
        /\ [Newest[ops[i].doc] EXCEPT !.state = StateOf(i)']
              = [payload |-> ops[i].payload, state |-> StateOf(i)']
    <3>1. Newest[ops[i].doc] \in Request
      BY <2>2, <2>3 DEF Request
    <3> QED
      BY <2>3, <3>1, StoreAssumption
  <2>6. \E state \in {"kept", "void"} : Newest' = [Newest EXCEPT ![ops[i].doc].state = state]
    BY <2>1, <2>4, <2>5
  <2>7. Store!Settle(ops[i].doc)
    BY <1>1, <2>4, <2>5, <2>6 DEF Store!Settle
  <2> QED
    BY <2>2, <2>7 DEF Store!Next
<1>4. CASE StateOf(i)' # StateOf(i) /\ ~IsNewest(i)
  <2>1. Open(i) /\ ~Open(i)'
    BY <1>4, OpenState, OpenStateNext
  <2>2. /\ Newest' = Newest
        /\ ops[i].doc \in Docs /\ ops[i].payload \in Late[ops[i].doc]
        /\ Late' \in {Late, [Late EXCEPT ![ops[i].doc] = @ \ {ops[i].payload}]}
    BY <1>4, <2>1, LateMoves
  <2>a. ops[i] \in Operation
    BY DEF TypeOK
  <2>3. ops[i].payload \in Payloads
    BY <2>a DEF Operation
  <2>4. CASE Late' = Late
    BY <1>1, <2>2, <2>4 DEF Store!vars
  <2>5. CASE Late' = [Late EXCEPT ![ops[i].doc] = @ \ {ops[i].payload}]
    <3>1. Store!SettleLate(ops[i].doc, ops[i].payload)
      BY <1>1, <2>2, <2>5 DEF Store!SettleLate
    <3> QED
      BY <2>2, <2>3, <3>1 DEF Store!Next
  <2> QED
    BY <2>2, <2>4, <2>5
<1> QED
  BY <1>2, <1>3, <1>4

\* The request in hand is given up: it stays as it is, or never arrives.
LEMMA GiveUpStep ==
  ASSUME TypeOK, TypeOK', IdentityInv, NewestExists, pc # "idle", SameOps,
         NEW i \in 1 .. Len(ops), i = call.op,
         \A k \in 1 .. Len(ops) : k # i => StateOf(k)' = StateOf(k),
         StateOf(i)' = StateOf(i) \/ (StateOf(i) = "open" /\ StateOf(i)' = "void")
  PROVE  Store!GivenUp /\ Late' = Late
<1>1. CASE StateOf(i)' = StateOf(i)
  <2>1. \A k \in 1 .. Len(ops) : StateOf(k)' = StateOf(k)
    BY <1>1
  <2> QED
    BY <2>1, StoreSame DEF Store!GivenUp
<1>2. CASE StateOf(i) = "open" /\ StateOf(i)' = "void"
  <2>1. /\ IsNewest(i) /\ ops[i].doc = call.doc /\ ops[i].payload = call.payload
        /\ Asked # None /\ Asked.doc = call.doc /\ Asked.payload = call.payload
        /\ Newest[call.doc] = [payload |-> call.payload, state |-> StateOf(i)]
    BY HandNewest
  <2>2. /\ Newest' = [Newest EXCEPT ![call.doc] = [payload |-> call.payload, state |-> StateOf(i)']]
        /\ Late' = Late
    BY <2>1, NewestMoves
  <2> QED
    BY <1>2, <2>1, <2>2 DEF Store!GivenUp, Store!Request
<1> QED
  BY <1>1, <1>2

\* Giving the submission up, or forgetting it, is giving up the request in hand.
LEMMA AbandonStep ==
  ASSUME TypeOK, TypeOK', IdentityInv, NewestExists, Abandon, pc # "idle"
  PROVE  /\ SameOps /\ Store!GivenUp /\ Late' = Late
         /\ \E i \in 1 .. Len(ops) :
               /\ Open(i) \/ StateOf(i)' = StateOf(i)
               /\ \A k \in 1 .. Len(ops) : k # i => StateOf(k)' = StateOf(k)
<1>1. PICK i \in 1 .. Len(ops) : i = call.op
  BY HandNewest
<1>2. SameOps
  BY AbandonMarks DEF Marks, SameOps
<1>3. wire' = "none"
  BY DEF Abandon
<1>4. \A k \in 1 .. Len(ops) : k # i => StateOf(k)' = StateOf(k)
  <2> SUFFICES ASSUME NEW k \in 1 .. Len(ops), k # i
               PROVE  StateOf(k)' = StateOf(k)
    OBVIOUS
  <2>1. ops'[k] = ops[k]
    BY <1>1 DEF Abandon, TypeOK
  <2> QED
    BY <1>1, <1>3, <2>1, StateAlone
<1>5. StateOf(i)' = StateOf(i) \/ (StateOf(i) = "open" /\ StateOf(i)' = "void")
  <2>1. ops[i] \in Operation
    BY DEF TypeOK
  <2>2. Open(i)' <=> Effective(ops'[i])
    BY <1>3, OpenAlone
  <2>3. CASE wire = "sent" /\ ops' = [ops EXCEPT ![i].stray = TRUE]
    <3>1. ops \in Seq(Operation)
      BY DEF TypeOK
    <3>2. ops'[i].status = ops[i].status /\ ops'[i].stray
      BY <2>1, <2>3, <3>1 DEF Operation
    <3>3. Open(i) <=> ops[i].status # "completed"
      BY <1>1, <2>3 DEF Open, Effective
    <3>4. Open(i)' => ops[i].status # "completed"
      BY <2>2, <3>2 DEF Effective
    <3> QED
      BY <3>2, <3>3, <3>4 DEF StateOf
  <2>4. CASE UNCHANGED ops
    <3>1. Open(i)' => Open(i)
      BY <2>2, <2>4 DEF Open
    <3> QED
      BY <2>4, <3>1 DEF StateOf
  <2> QED
    BY <1>1, <2>3, <2>4 DEF Abandon
<1>6. Store!GivenUp /\ Late' = Late
  BY <1>1, <1>2, <1>4, <1>5, GiveUpStep
<1>7. Open(i) \/ StateOf(i)' = StateOf(i)
  BY <1>5, OpenState
<1> QED
  BY <1>2, <1>4, <1>6, <1>7

LEMMA NewestExistsInit == Init => NewestExists
  BY DEF Init, NewestExists, OpsOf

\* New content: the last request is another one, and an open one becomes a late one.
LEMMA NewRequest ==
  ASSUME TypeOK, TypeOK', IdentityInv, NewestExists, NEW d \in Docs, NEW p \in Payloads,
         RetainNew(d, p)
  PROVE  NewestExists' /\ Store!Retain(d, p)
<1>n. PICK n \in Nat : n = Len(ops) + 1
  BY DEF TypeOK
<1>1. /\ pc = "idle" /\ wire = "none" /\ wire' = "none" /\ since' = since
      /\ n \in Nat /\ Len(ops) \in Nat /\ Len(ops') = n
      /\ ops'[n] = [doc |-> d, payload |-> p, stray |-> FALSE, status |-> "unknown"]
      /\ \A k \in 1 .. Len(ops) : ops'[k] = ops[k]
  BY <1>n, NothingSent DEF RetainNew, Start, TypeOK
<1>2. \A k \in 1 .. Len(ops) : StateOf(k)' = StateOf(k)
  BY <1>1, StateAlone
<1>3. /\ \A e : e # d => OpsOf(e)' = OpsOf(e)
      /\ OpsOf(d)' = OpsOf(d) \cup {n}
      /\ \A e : OpsOf(e) \subseteq 1 .. Len(ops)
  <2>1. \A e : OpsOf(e)' = {k \in 1 .. n : ops'[k].doc = e}
    BY <1>1 DEF OpsOf
  <2>2. \A e : OpsOf(e) = {k \in 1 .. Len(ops) : ops[k].doc = e}
    BY DEF OpsOf
  <2>3. 1 .. n = (1 .. Len(ops)) \cup {n} /\ ops'[n].doc = d
    BY <1>1, <1>n
  <2> QED
    BY <1>1, <2>1, <2>2, <2>3
<1>4. /\ IsNewest(n)'
      /\ \A k \in OpsOf(d) : ~IsNewest(k)'
      /\ \A k \in 1 .. Len(ops) : ops[k].doc # d => (IsNewest(k)' <=> IsNewest(k))
  <2>1. \A k, e : ops'[k].doc = e => (IsNewest(k)' <=> \A m \in OpsOf(e)' : m <= k)
    BY DEF IsNewest, OpsOf
  <2>2. ops'[n].doc = d
    BY <1>1
  <2>3. \A m \in OpsOf(d)' : m <= n
    BY <1>1, <1>3, <1>n
  <2>4. \A k \in OpsOf(d) : ops'[k].doc = d /\ n \in OpsOf(d)' /\ ~(n <= k)
    BY <1>1, <1>3, <1>n DEF OpsOf
  <2>5. \A k \in 1 .. Len(ops) : ops'[k].doc = ops[k].doc
    BY <1>1
  <2>6. \A k \in 1 .. Len(ops) : ops[k].doc # d => (IsNewest(k)' <=> IsNewest(k))
    BY <1>3, <2>1, <2>5 DEF IsNewest
  <2> QED
    BY <2>1, <2>2, <2>3, <2>4, <2>6
<1>5. NewestExists'
  <2> SUFFICES ASSUME NEW e \in Docs, OpsOf(e)' # {}
               PROVE  \E k \in OpsOf(e)' : IsNewest(k)'
    BY DEF NewestExists
  <2>1. CASE e = d
    BY <1>3, <1>4, <2>1
  <2>2. CASE e # d
    <3>1. PICK k \in OpsOf(e) : IsNewest(k)
      BY <1>3, <2>2 DEF NewestExists
    <3>2. k \in 1 .. Len(ops) /\ ops[k].doc = e
      BY DEF OpsOf
    <3> QED
      BY <1>3, <1>4, <2>2, <3>1, <3>2
  <2> QED
    BY <2>1, <2>2
<1>p. NewestShown /\ NewestShown'
  BY NewestIs, NewestIsPrimed
<1>6. Newest'[d] = [payload |-> p, state |-> "void"]
  <2>1. Newest'[ops'[n].doc] = [payload |-> ops'[n].payload, state |-> StateOf(n)']
    BY <1>1, <1>4, <1>n, <1>p DEF NewestShown
  <2>2. ops'[n].doc = d /\ ops'[n].payload = p
    BY <1>1
  <2>3. StateOf(n)' = "void"
    BY <1>1 DEF StateOf, Open, Effective
  <2> QED
    BY <2>1, <2>2, <2>3
<1>7. \A e \in Docs \ {d} : Newest'[e] = Newest[e]
  <2> SUFFICES ASSUME NEW e \in Docs \ {d}
               PROVE  Newest'[e] = Newest[e]
    OBVIOUS
  <2>1. CASE OpsOf(e) = {}
    BY <1>3, <2>1 DEF Newest
  <2>2. CASE OpsOf(e) # {}
    <3>1. PICK k \in OpsOf(e) : IsNewest(k)
      BY <2>2 DEF NewestExists
    <3>2. k \in 1 .. Len(ops) /\ ops[k].doc = e /\ k \in 1 .. n
      BY <1>n, <1>1 DEF OpsOf
    <3>3. Newest[e] = [payload |-> ops[k].payload, state |-> StateOf(k)]
      BY <1>p, <3>1, <3>2 DEF NewestShown
    <3>4. IsNewest(k)' /\ ops'[k] = ops[k] /\ k \in 1 .. Len(ops')
      BY <1>1, <1>4, <3>1, <3>2
    <3>5. Newest'[ops'[k].doc] = [payload |-> ops'[k].payload, state |-> StateOf(k)']
      BY <1>p, <3>4 DEF NewestShown
    <3> QED
      BY <1>2, <3>2, <3>3, <3>4, <3>5
  <2> QED
    BY <2>1, <2>2
<1>8. \A e \in Docs : /\ Late[e] = {ops[k].payload : k \in {j \in OpsOf(e) : Open(j) /\ ~IsNewest(j)}}
                      /\ Late'[e] = {ops'[k].payload :
                                        k \in {j \in OpsOf(e)' : Open(j)' /\ ~IsNewest(j)'}}
  BY DEF Late
<1>o. \A k \in 1 .. Len(ops) : Open(k)' <=> Open(k)
  BY <1>2, OpenState, OpenStateNext
<1>9. \A e \in Docs \ {d} : Late'[e] = Late[e]
  <2> SUFFICES ASSUME NEW e \in Docs \ {d}
               PROVE  Late'[e] = Late[e]
    OBVIOUS
  <2>1. \A k \in OpsOf(e) : /\ Open(k)' <=> Open(k)
                            /\ IsNewest(k)' <=> IsNewest(k)
                            /\ ops'[k].payload = ops[k].payload
    BY <1>1, <1>3, <1>4, <1>o DEF OpsOf
  <2>2. /\ Late[e] = {ops[k].payload : k \in {j \in OpsOf(e) : Open(j) /\ ~IsNewest(j)}}
        /\ Late'[e] = {ops'[k].payload : k \in {j \in OpsOf(e)' : Open(j)' /\ ~IsNewest(j)'}}
    BY <1>8
  <2>3. OpsOf(e)' = OpsOf(e)
    BY <1>3
  <2> QED
    BY <2>1, <2>2, <2>3
<1>10. Late'[d] = Late[d] \cup {q \in Payloads : Newest[d] = [payload |-> q, state |-> "open"]}
  <2>1. Late'[d] = {ops[k].payload : k \in {j \in OpsOf(d) : Open(j)}}
    <3>1. \A k \in OpsOf(d) : ops'[k].payload = ops[k].payload /\ (Open(k)' <=> Open(k))
      BY <1>1, <1>3, <1>o
    <3> QED
      BY <1>3, <1>4, <1>8, <3>1
  <2>2. CASE OpsOf(d) = {}
    <3>1. Newest[d] = None
      BY <2>2 DEF Newest
    <3>2. \A q \in Payloads : [payload |-> q, state |-> "open"] \in Request
      BY DEF Request
    <3>3. \A q \in Payloads : [payload |-> q, state |-> "open"] # None
      BY <3>2, StoreAssumption
    <3> QED
      BY <1>8, <2>1, <2>2, <3>1, <3>3
  <2>3. CASE OpsOf(d) # {}
    <3>1. PICK k \in OpsOf(d) : IsNewest(k)
      BY <2>3 DEF NewestExists
    <3>2. k \in 1 .. Len(ops) /\ ops[k].doc = d
      BY DEF OpsOf
    <3>3. Newest[d] = [payload |-> ops[k].payload, state |-> StateOf(k)]
      BY <1>p, <3>1, <3>2 DEF NewestShown
    <3>4. ops[k].payload \in Payloads
      <4>1. ops[k] \in Operation
        BY <3>2 DEF TypeOK
      <4> QED
        BY <4>1 DEF Operation
    <3>5. {q \in Payloads : Newest[d] = [payload |-> q, state |-> "open"]}
             = {q \in {ops[k].payload} : Open(k)}
      BY <3>3, <3>4, OpenState
    <3>6. \A j \in OpsOf(d) : IsNewest(j) <=> j = k
      <4>1. \A j \in OpsOf(d) : ops[j].doc = d /\ j \in Nat
        BY DEF OpsOf
      <4>2. k \in Nat
        BY <3>2 DEF TypeOK
      <4>3. \A j \in OpsOf(d) : j <= k
        BY <3>1, <3>2 DEF IsNewest
      <4>4. \A j \in OpsOf(d) : IsNewest(j) => k <= j
        BY <4>1 DEF IsNewest
      <4> QED
        BY <3>1, <4>1, <4>2, <4>3, <4>4
    <3> QED
      BY <1>8, <2>1, <3>5, <3>6
  <2> QED
    BY <2>2, <2>3
<1>11. /\ Newest' = [Newest EXCEPT ![d] = [payload |-> p, state |-> "void"]]
       /\ Late' = [Late EXCEPT ![d] = @ \cup
                      {q \in Payloads : Newest[d] = [payload |-> q, state |-> "open"]}]
  BY <1>6, <1>7, <1>9, <1>10, MapsDomain
<1>12. Ours' = Ours \cup {d}
  <2>1. n > since /\ since \in Int
    BY <1>1, <1>n DEF IdentityInv, SinceSound, TypeOK
  <2>2. \A e \in Docs \ {d} : e \in Ours' <=> e \in Ours
    BY <1>1, <1>3 DEF Ours
  <2>3. d \in Ours'
    BY <1>1, <1>3, <2>1 DEF Ours
  <2> QED
    BY <2>2, <2>3 DEF Ours
<1>13. /\ Asked = None /\ Asked' = [doc |-> d, payload |-> p] /\ Answer' = "none"
  BY DEF RetainNew, Start, Asked, Answer
<1>14. ~(d \in Ours /\ Newest[d] = [payload |-> p, state |-> "open"])
  <2> SUFFICES ASSUME d \in Ours, Newest[d] = [payload |-> p, state |-> "open"]
               PROVE  FALSE
    OBVIOUS
  <2>1. PICK j \in OpsOf(d) : j > since
    BY DEF Ours
  <2>2. PICK k \in OpsOf(d) : IsNewest(k)
    BY <2>1 DEF NewestExists
  <2>3. k \in 1 .. Len(ops) /\ ops[k].doc = d
    BY DEF OpsOf
  <2>4. j <= k
    BY <2>2, <2>3 DEF IsNewest
  <2>5. k > since
    <3>1. j \in Int /\ k \in Int /\ since \in Int
      BY <2>3 DEF OpsOf, TypeOK
    <3> QED
      BY <2>1, <2>4, <3>1
  <2>6. ops[k].payload = p /\ StateOf(k) = "open"
    <3>1. Newest[d] = [payload |-> ops[k].payload, state |-> StateOf(k)]
      BY <1>p, <2>2, <2>3 DEF NewestShown
    <3> QED
      BY <3>1
  <2>7. Live(k)
    BY <1>1, <2>5, <2>6, OpenState, OpenAlone DEF Live
  <2>8. \A m \in (k + 1) .. Len(ops) : ops[m].doc # ops[k].doc
    BY <2>2, <2>3 DEF IsNewest, OpsOf
  <2>9. pending[d] # None /\ pending[d].op = k
    BY <2>3, <2>7, <2>8 DEF IdentityInv, UncertainIsRemembered
  <2>10. pending[d].payload = p
    BY <2>6, <2>9 DEF IdentityInv, PendingNewest
  <2> QED
    BY <2>9, <2>10 DEF RetainNew, Replaying
<1> QED
  BY <1>5, <1>11, <1>12, <1>13, <1>14 DEF Store!Retain, Store!Called, Store!Request

\* Unchanged content that is uncertain: the request is taken up again.
LEMMA RequestAgain ==
  ASSUME TypeOK, TypeOK', IdentityInv, NewestExists, NEW d \in Docs, NEW p \in Payloads,
         RetainAgain(d, p)
  PROVE  Store!RetainAgain(d, p)
<1>1. /\ pc = "idle" /\ wire = "none" /\ wire' = "none" /\ UNCHANGED <<ops, since>>
  BY NothingSent DEF RetainAgain, Start
<1>2. SameOps
  BY <1>1 DEF SameOps
<1>3. \A k \in 1 .. Len(ops) : StateOf(k)' = StateOf(k)
  BY <1>1, StateAlone
<1>4. Newest' = Newest /\ Late' = Late /\ Ours' = Ours
  BY <1>1, <1>2, <1>3, StoreSame, NoRequestNewlyOurs
<1>5. /\ Asked = None /\ Asked' = [doc |-> d, payload |-> p] /\ Answer' = "none"
  BY DEF RetainAgain, Start, Asked, Answer
<1>6. pending[d] # None /\ pending[d].payload = p
  BY DEF RetainAgain, Replaying
<1>7. PICK k \in 1 .. Len(ops) : k = pending[d].op
  BY <1>6 DEF TypeOK, Pending
<1>8. /\ k > since /\ ops[k].doc = d /\ ops[k].payload = p
      /\ \A m \in (k + 1) .. Len(ops) : ops[m].doc # d
  BY <1>6, <1>7 DEF IdentityInv, PendingNewest
<1>9. k \in OpsOf(d) /\ IsNewest(k)
  <2>1. Len(ops) \in Nat
    BY DEF TypeOK
  <2> QED
    BY <1>8, <2>1 DEF OpsOf, IsNewest
<1>10. d \in Ours
  BY <1>8, <1>9 DEF Ours
<1>11. Newest[d] = [payload |-> p, state |-> StateOf(k)]
  BY <1>8, <1>9, NewestIs DEF NewestShown
<1>12. StateOf(k) \in {"open", "kept", "void"}
  BY DEF StateOf
<1> QED
  BY <1>4, <1>5, <1>10, <1>11, <1>12 DEF Store!RetainAgain, Store!Called, Store!Request

\* A call that ends without success leaves its request as it is, or gives it up.
LEMMA FailStep ==
  ASSUME TypeOK, TypeOK', IdentityInv, NewestExists, Abandon, pc # "idle", UNCHANGED since,
         NEW r \in {"rejected", "unavailable", "foreign"}, Return(r)
  PROVE  Store!Next
<1>1. SameOps /\ Store!GivenUp /\ Late' = Late
  BY AbandonStep
<1>2. Ours' = Ours
  BY <1>1, NoRequestNewlyOurs
<1>3. Asked # None
  BY HandNewest
<1>4. Asked' = None /\ Answer' = "error"
  BY DEF Return, Asked, Answer
<1>5. Store!Fail
  BY <1>1, <1>2, <1>3, <1>4 DEF Store!Fail
<1> QED
  BY <1>5 DEF Store!Next

\* After a transient failure the call ends, or the caller sees nothing of it.
LEMMA RetryStep ==
  ASSUME TypeOK, TypeOK', IdentityInv, NewestExists, Abandon, pc # "idle",
         UNCHANGED <<since, call>>, NEW request, RetryOrStop(request)
  PROVE  [Store!Next]_(Store!vars)
<1>1. CASE Return("unavailable")
  BY <1>1, FailStep
<1>2. CASE pc' = "backoff" /\ UNCHANGED result
  <2>1. UNCHANGED <<Asked, Answer>>
    BY <1>2 DEF Asked, Answer
  <2>2. /\ SameOps
        /\ \E i \in 1 .. Len(ops) :
              /\ Open(i) \/ StateOf(i)' = StateOf(i)
              /\ \A k \in 1 .. Len(ops) : k # i => StateOf(k)' = StateOf(k)
    BY AbandonStep
  <2> QED
    BY <2>1, <2>2, SettleStep
<1> QED
  BY <1>1, <1>2 DEF RetryOrStop

\* Without a submission in the air there is nothing to give up.
LEMMA NothingToAbandon == TypeOK /\ pc # "posting" /\ UNCHANGED <<wire, ops>> => Abandon
  BY NothingSent DEF Abandon

\* The submission goes out: a void request is open again.
LEMMA SendStep ==
  ASSUME TypeOK, TypeOK', IdentityInv, NewestExists, Send
  PROVE  [Store!Next]_(Store!vars)
<1>1. /\ pc = "submit" /\ pc' = "posting" /\ wire = "none" /\ wire' = "sent"
      /\ UNCHANGED <<call, ops, since, result>>
  BY NothingSent DEF Send
<1>2. UNCHANGED <<Asked, Answer>>
  BY <1>1 DEF Asked, Answer
<1>3. SameOps /\ Ours' = Ours
  BY <1>1, NoRequestNewlyOurs DEF SameOps
<1>4. PICK i \in 1 .. Len(ops) : i = call.op
  BY <1>1, HandNewest
<1>5. \A k \in 1 .. Len(ops) : k # i => StateOf(k)' = StateOf(k)
  BY <1>1, <1>4, StateAlone
<1>6. CASE Open(i) \/ StateOf(i)' = StateOf(i)
  BY <1>1, <1>2, <1>3, <1>5, <1>6, SettleStep
<1>7. CASE ~Open(i) /\ StateOf(i)' # StateOf(i)
  <2>1. StateOf(i) = "void" /\ StateOf(i)' = "open"
    <3>1. StateOf(i) # "open"
      BY <1>7, OpenState
    <3>2. ops[i].status # "completed"
      BY <1>1, <1>7 DEF StateOf
    <3>3. Open(i)'
      BY <1>1, <1>4, <3>2 DEF Open
    <3> QED
      BY <3>1, <3>2, <3>3, OpenStateNext DEF StateOf
  <2>2. /\ IsNewest(i) /\ ops[i].doc = call.doc /\ ops[i].payload = call.payload
        /\ Asked # None /\ Asked.doc = call.doc /\ Asked.payload = call.payload
        /\ Newest[call.doc] = [payload |-> call.payload, state |-> StateOf(i)]
    BY <1>1, <1>4, HandNewest
  <2>3. /\ Newest' = [Newest EXCEPT ![call.doc] = [payload |-> call.payload, state |-> StateOf(i)']]
        /\ Late' = Late
    BY <1>3, <1>5, <2>2, NewestMoves
  <2>4. Store!Submit
    BY <1>2, <1>3, <2>1, <2>2, <2>3 DEF Store!Submit, Store!Request
  <2> QED
    BY <2>4 DEF Store!Next
<1> QED
  BY <1>6, <1>7

\* The extraction is reported: the request of the call has been kept.
LEMMA CompletedStep ==
  ASSUME TypeOK, TypeOK', IdentityInv, NewestExists, PollCompleted
  PROVE  Store!Next
<1>1. /\ pc = "polling" /\ wire = "none" /\ wire' = "none" /\ UNCHANGED <<ops, since>>
      /\ ops[call.op].status = "completed" /\ pc' = "idle" /\ result' = "ok"
  BY NothingSent DEF PollCompleted, Settle, Return, Progress
<1>2. SameOps
  BY <1>1 DEF SameOps
<1>3. \A k \in 1 .. Len(ops) : StateOf(k)' = StateOf(k)
  BY <1>1, StateAlone
<1>4. Newest' = Newest /\ Late' = Late /\ Ours' = Ours
  BY <1>1, <1>2, <1>3, StoreSame, NoRequestNewlyOurs
<1>5. /\ Asked # None /\ Asked.doc = call.doc /\ Asked.payload = call.payload
      /\ Newest[call.doc] = [payload |-> call.payload, state |-> StateOf(call.op)]
  BY <1>1, HandNewest
<1>6. StateOf(call.op) = "kept" /\ Asked' = None /\ Answer' = "ok"
  BY <1>1 DEF StateOf, Asked, Answer
<1>7. Store!Succeed
  BY <1>4, <1>5, <1>6 DEF Store!Succeed, Store!Request
<1> QED
  BY <1>7 DEF Store!Next

\* What the engine and the network do settles one request, or none.
LEMMA EngineStep ==
  ASSUME TypeOK, TypeOK', IdentityInv, NewestExists, Engine
  PROVE  [Store!Next]_(Store!vars)
<1>1. UNCHANGED <<since, call, pc, result>>
  BY EngineKeepsOps DEF adapter
<1>2. SameOps
  BY EngineMarks DEF Marks, SameOps
<1>3. UNCHANGED <<Asked, Answer>>
  BY <1>1 DEF Asked, Answer
<1>t. ops \in Seq(Operation)
  BY DEF TypeOK
<1>4. CASE Deliver
  <2>1. pc # "idle" /\ wire = "sent" /\ wire' = "accepted"
    BY <1>4 DEF Deliver, TypeOK
  <2>2. PICK i \in 1 .. Len(ops) : i = call.op
    BY <2>1, HandNewest
  <2>3. \A k \in 1 .. Len(ops) : k # i => ops'[k] = ops[k]
    BY <1>4, <1>t, <2>2 DEF Deliver
  <2>4. \A k \in 1 .. Len(ops) : k # i => StateOf(k)' = StateOf(k)
    BY <2>1, <2>2, <2>3, StateAlone
  <2>5. ops[i].status = "completed" => ops'[i].status = "completed"
    BY EngineMarks DEF Marks
  <2>6. Open(i) \/ StateOf(i)' = StateOf(i)
    BY <2>1, <2>2, <2>5 DEF Open, StateOf
  <2> QED
    BY <1>1, <1>2, <1>3, <2>4, <2>6, SettleStep
<1>5. ASSUME NEW i \in 1 .. Len(ops),
             DeliverStray(i) \/ LoseStray(i) \/ Complete(i) \/ FailExtraction(i)
                \/ LoseOperation(i)
      PROVE  [Store!Next]_(Store!vars)
  <2>1. wire' = wire
    BY <1>5 DEF DeliverStray, LoseStray, Complete, FailExtraction, LoseOperation, Advance
  <2>2. \A k \in 1 .. Len(ops) : k # i => ops'[k] = ops[k]
    BY <1>5, <1>t DEF DeliverStray, LoseStray, Complete, FailExtraction, LoseOperation, Advance
  <2>3. \A k \in 1 .. Len(ops) : k # i => StateOf(k)' = StateOf(k)
    BY <1>1, <2>1, <2>2 DEF StateOf, Open
  <2>4. ops[i] \in Operation
    BY <1>t
  <2>5. Open(i) \/ StateOf(i)' = StateOf(i)
    <3>1. CASE Effective(ops[i])
      BY <3>1 DEF Open
    <3>2. CASE ~Effective(ops[i])
      <4>1. /\ ops[i].stray /\ ops[i].status \in {"completed", "failed"}
            /\ DeliverStray(i) \/ LoseStray(i)
        BY <1>5, <2>4, <3>2
           DEF Effective, DeliverStray, LoseStray, Complete, FailExtraction, LoseOperation,
               Advance, Operation, Status
      <4>2. ops'[i].status = ops[i].status
        <5>1. CASE DeliverStray(i)
          <6>1. ops'[i].status = Accepted(ops[i].status)
            BY <1>t, <2>4, <5>1 DEF DeliverStray, Operation
          <6> QED
            BY <4>1, <6>1 DEF Accepted
        <5>2. CASE LoseStray(i)
          BY <1>t, <2>4, <5>2 DEF LoseStray, Operation
        <5> QED
          BY <4>1, <5>1, <5>2
      <4> QED
        BY <1>1, <2>1, <4>1, <4>2 DEF StateOf, Open, Effective
    <3> QED
      BY <3>1, <3>2
  <2> QED
    BY <1>1, <1>2, <1>3, <2>3, <2>5, SettleStep
<1> QED
  BY <1>4, <1>5 DEF Engine

\* With the process what it knew of its requests is gone.
LEMMA RestartStep ==
  ASSUME TypeOK, TypeOK', IdentityInv, NewestExists, Restart
  PROVE  Store!Next
<1>1. Abandon
  BY DEF Restart, Abandon
<1>2. SameOps
  BY <1>1, AbandonMarks DEF Marks, SameOps
<1>3. Asked' = None /\ Answer' = "none"
  BY DEF Restart, Asked, Answer
<1>4. Ours' = {}
  <2>1. since' = Len(ops) /\ Len(ops') = Len(ops) /\ Len(ops) \in Nat
    BY <1>2 DEF Restart, SameOps, TypeOK
  <2> QED
    BY <2>1 DEF Ours, OpsOf
<1>5. Store!GivenUp /\ Late' = Late
  <2>1. CASE pc # "idle"
    BY <1>1, <2>1, AbandonStep
  <2>2. CASE pc = "idle"
    <3>1. wire = "none" /\ wire' = "none" /\ UNCHANGED ops
      BY <1>1, <2>2, NothingSent DEF Abandon
    <3>2. \A k \in 1 .. Len(ops) : StateOf(k)' = StateOf(k)
      BY <3>1, StateAlone
    <3> QED
      BY <1>2, <3>2, StoreSame DEF Store!GivenUp
  <2> QED
    BY <2>1, <2>2
<1>6. Store!Die
  BY <1>3, <1>4, <1>5 DEF Store!Die
<1> QED
  BY <1>6 DEF Store!Next

LEMMA StoreInit == Init => Store!Init
<1> SUFFICES ASSUME Init PROVE Store!Init
  OBVIOUS
<1>1. \A d : OpsOf(d) = {}
  BY DEF Init, OpsOf
<1>2. Newest = [d \in Docs |-> None] /\ Late = [d \in Docs |-> {}] /\ Ours = {}
  BY <1>1 DEF Newest, Late, Ours
<1>3. Asked = None /\ Answer = "none"
  BY DEF Init, Asked, Answer
<1> QED
  BY <1>2, <1>3 DEF Store!Init

LEMMA StoreNext ==
  TypeOK /\ TypeOK' /\ IdentityInv /\ NewestExists /\ [Next]_vars
     => NewestExists' /\ [Store!Next]_(Store!vars)
<1> SUFFICES ASSUME TypeOK, TypeOK', IdentityInv, NewestExists, [Next]_vars
             PROVE  NewestExists' /\ [Store!Next]_(Store!vars)
  OBVIOUS
<1>1. SameOps => NewestExists'
  BY OpsOfSame DEF NewestExists, OpsOf
<1>2. UNCHANGED ops => SameOps
  BY DEF SameOps
<1>3. Abandon => SameOps
  BY AbandonMarks DEF Marks, SameOps
<1>4. CASE RefuseInput \/ \E d \in Docs : TooManyUncertain(d)
  <2>1. /\ pc = "idle" /\ pc' = "idle" /\ wire = "none" /\ wire' = "none"
        /\ UNCHANGED <<ops, since>> /\ result' \in {"rejected", "unavailable"}
    BY <1>4, NothingSent DEF RefuseInput, TooManyUncertain, Return
  <2>2. \A k \in 1 .. Len(ops) : StateOf(k)' = StateOf(k)
    BY <2>1, StateAlone
  <2>3. Newest' = Newest /\ Late' = Late /\ Ours' = Ours
    BY <1>2, <2>1, <2>2, StoreSame, NoRequestNewlyOurs
  <2>4. Asked = None /\ Asked' = None /\ Answer' = "error"
    BY <2>1 DEF Asked, Answer
  <2>5. Store!Refuse
    BY <2>3, <2>4 DEF Store!Refuse
  <2> QED
    BY <1>1, <1>2, <2>1, <2>5 DEF Store!Next
<1>5. ASSUME NEW d \in Docs, NEW p \in Payloads, RetainNew(d, p) \/ RetainAgain(d, p)
      PROVE  NewestExists' /\ Store!Next
  <2>1. CASE RetainNew(d, p)
    BY <2>1, NewRequest DEF Store!Next
  <2>2. CASE RetainAgain(d, p)
    <3>1. Store!RetainAgain(d, p)
      BY <2>2, RequestAgain
    <3>2. NewestExists'
      BY <1>1, <1>2, <2>2 DEF RetainAgain
    <3> QED
      BY <3>1, <3>2 DEF Store!Next
  <2> QED
    BY <1>5, <2>1, <2>2
<1>6. CASE Expired \/ PollFailed \/ PollNotFound \/ PollInvalid \/ PollLost
  <2>1. /\ pc \notin {"idle", "posting"} /\ UNCHANGED <<wire, ops, since>>
        /\ \E r \in {"rejected", "unavailable", "foreign"} : Return(r)
    BY <1>6 DEF Expired, PollFailed, PollNotFound, PollInvalid, PollLost, Settle
  <2>2. Store!Next
    BY <2>1, NothingToAbandon, FailStep
  <2> QED
    BY <1>1, <1>2, <2>1, <2>2
<1>7. CASE Refused \/ MisAcknowledged \/ SubmitLost \/ Undecodable
  <2>1. Abandon
    BY <1>7 DEF Refused, MisAcknowledged, SubmitLost, Undecodable, Abandon
  <2>2. /\ pc # "idle" /\ UNCHANGED since
        /\ \E r \in {"rejected", "unavailable", "foreign"} : Return(r)
    BY <1>7 DEF Refused, MisAcknowledged, SubmitLost, Undecodable
  <2>3. Store!Next
    BY <2>1, <2>2, FailStep
  <2> QED
    BY <1>1, <1>3, <2>1, <2>3
<1>8. CASE SubmitTransient \/ PollTransient
  <2>1. Abandon
    BY <1>8, NothingToAbandon DEF SubmitTransient, PollTransient
  <2>2. pc # "idle" /\ UNCHANGED <<since, call>> /\ \E request : RetryOrStop(request)
    BY <1>8 DEF SubmitTransient, PollTransient
  <2>3. [Store!Next]_(Store!vars)
    BY <2>1, <2>2, RetryStep
  <2> QED
    BY <1>1, <1>3, <2>1, <2>3
<1>9. CASE Send
  BY <1>1, <1>2, <1>9, SendStep DEF Send
<1>10. CASE Ask \/ Wake \/ Acknowledged \/ PollRunning
  <2>1. /\ UNCHANGED <<ops, since, call, result>> /\ pc # "idle" /\ pc' # "idle"
        /\ wire # "sent" /\ wire' # "sent"
    <3>1. CASE Ask
      BY <3>1, NothingSent DEF Ask
    <3>2. CASE Wake
      BY <3>2, NothingSent DEF Wake, TypeOK
    <3>3. CASE Acknowledged
      BY <3>3 DEF Acknowledged
    <3>4. CASE PollRunning
      BY <3>4, NothingSent DEF PollRunning
    <3> QED
      BY <1>10, <3>1, <3>2, <3>3, <3>4
  <2>2. UNCHANGED <<Asked, Answer>>
    BY <2>1 DEF Asked, Answer
  <2>3. UNCHANGED Store!vars
    BY <2>1, <2>2, HiddenStep
  <2> QED
    BY <1>1, <1>2, <2>1, <2>3
<1>11. CASE PollCompleted
  BY <1>1, <1>2, <1>11, CompletedStep DEF PollCompleted, Settle
<1>12. CASE Tick \/ UNCHANGED vars
  <2>1. UNCHANGED <<ops, since, call, pc, result, wire>>
    BY <1>12 DEF Tick, vars
  <2>2. \A k \in 1 .. Len(ops) : StateOf(k)' = StateOf(k)
    BY <2>1 DEF StateOf, Open
  <2>3. Newest' = Newest /\ Late' = Late /\ Ours' = Ours
    BY <1>2, <2>1, <2>2, StoreSame, NoRequestNewlyOurs
  <2>4. UNCHANGED <<Asked, Answer>>
    BY <2>1 DEF Asked, Answer
  <2> QED
    BY <1>1, <1>2, <2>1, <2>3, <2>4 DEF Store!vars
<1>13. CASE Restart
  <2>1. Abandon
    BY <1>13 DEF Restart, Abandon
  <2> QED
    BY <1>1, <1>3, <1>13, <2>1, RestartStep
<1>14. CASE Engine
  <2>1. SameOps
    BY <1>14, EngineMarks DEF Marks, SameOps
  <2> QED
    BY <1>1, <1>14, <2>1, EngineStep
<1> QED
  BY <1>4, <1>5, <1>6, <1>7, <1>8, <1>9, <1>10, <1>11, <1>12, <1>13, <1>14 DEF Next, Adapter

(* However submissions are lost, repeated or late, and wherever the process ends,  *)
(* the adapter keeps what the memory boundary promises of retain.                  *)
THEOREM StoreKeepsItsPromises == Spec => ImplementsStore
<1>1. Spec => []NewestExists
  BY TypeCorrect, IdentityInvariant, NewestExistsInit, StoreNext, PTL DEF Spec
<1>2. Init => Store!Init
  BY StoreInit
<1>3. Spec => [][Store!Next]_(Store!vars)
  BY <1>1, TypeCorrect, IdentityInvariant, StoreNext, PTL DEF Spec
<1> QED
  BY <1>2, <1>3, PTL DEF Spec, ImplementsStore, Store!Spec
=============================================================================
