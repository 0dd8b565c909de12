--------------------------- MODULE HindsightStore ---------------------------
(***************************************************************************)
(* HindsightStore.retain (engineering_memory/memory/hindsight/store.py) and *)
(* the request loop under it (retry.py): a submission under an operation   *)
(* UUID, repeated after transient failures, then polls of that operation   *)
(* until the engine has extracted it, all within one deadline.  Submissions *)
(* may be lost on the way, or arrive after the client gave them up.        *)
(*                                                                         *)
(* A UUID is an index of `ops`, the operations minted so far; a payload    *)
(* stands for the encoded item and so for its fingerprint.  Time is        *)
(* counted in ticks down from the deadline of the call.                    *)
(*                                                                         *)
(* The engine is external and is modelled by what store.py relies on: it   *)
(* keeps one operation per UUID, and it has not accepted a submission that *)
(* it answers with a refusal.                                              *)
(***************************************************************************)
EXTENDS Integers, Sequences, FiniteSets

CONSTANTS
    Docs,         \* document identities
    Payloads,     \* encoded items
    Capacity,     \* how many uncertain documents are remembered (128)
    Completion,   \* completion_timeout, in ticks
    Interval,     \* poll_interval, in ticks
    MaxAttempts,  \* RetryPolicy.max_attempts
    Initial, Maximum, Jitter,  \* RetryPolicy's delays, in ticks
    MaxOps,       \* bound on the operations minted
    None

\* What a poll tells of an operation: not_found; pending or processing; completed;
\* failed or cancelled.
Status == {"unknown", "running", "completed", "failed"}

Operation == [doc : Docs, payload : Payloads, stray : BOOLEAN, status : Status]

Pending == [payload : Payloads, op : 1 .. MaxOps]

Call == [doc : Docs, payload : Payloads, op : 1 .. MaxOps]

\* What a caller knows of them: the request of a document, and the call under way.
Request == [payload : Payloads, state : {"open", "kept", "void"}]

Task == [doc : Docs, payload : Payloads]

ASSUME StoreAssumption ==
    /\ Capacity \in Nat \ {0}
    /\ Completion \in Nat \ {0}
    /\ Interval \in Nat
    /\ MaxAttempts \in Nat \ {0}
    /\ Initial \in Nat \ {0} /\ Maximum \in Nat /\ Jitter \in Nat
    /\ Initial <= Maximum
    /\ MaxOps \in Nat
    /\ None \notin Docs /\ None \notin Pending /\ None \notin Call
    /\ None \notin Request /\ None \notin Task

VARIABLES
    \* The adapter.
    pending,   \* _pending: document -> [payload, op] of an uncertain submission
    pc,        \* where retain() stands
    call,      \* the current call, or the last one
    attempt,   \* attempts of the current request
    protect,   \* reject_identity is set: a refusal settles this submission
    left,      \* ticks to the deadline
    wake,      \* the value of left at which a sleep ends
    next,      \* the request that follows a sleep
    result,    \* how the last call ended
    since,     \* operations minted before this adapter was created
    \* The network and the engine.
    wire,      \* the submission in the air: "sent", "accepted" or "none"
    ops        \* every operation minted, and what the engine knows of it

locals == <<attempt, protect, left, wake, next>>  \* of one call
adapter == <<pending, pc, call, locals, result, since>>
vars == <<pending, pc, call, attempt, protect, left, wake, next, result, since,
          wire, ops>>

Init ==
    /\ pending = [d \in Docs |-> None]
    /\ pc = "idle"
    /\ call = None
    /\ attempt = 0
    /\ protect = FALSE
    /\ left = 0
    /\ wake = 0
    /\ next = "submit"
    /\ result = "none"
    /\ since = 0
    /\ wire = "none"
    /\ ops = <<>>

-----------------------------------------------------------------------------
(* retain(): the decisions before the first request. *)

NoLocals ==
    /\ attempt' = 0
    /\ protect' = FALSE
    /\ left' = 0
    /\ wake' = 0
    /\ next' = "submit"

Return(r) ==
    /\ result' = r
    /\ pc' = "idle"
    /\ NoLocals

\* item_for refuses an empty conversation, and retain an oversized body.
RefuseInput ==
    /\ pc = "idle"
    /\ call' = None
    /\ Return("rejected")
    /\ UNCHANGED <<pending, since, wire, ops>>

\* Mutant: every call mints a UUID.
NeverReplaying(d, p) == d \in Docs /\ p \notin Payloads

\* Mutant: any uncertain submission of the document is taken up.
ReplayingChanged(d, p) == pending[d] # None /\ p \in Payloads

Replaying(d, p) == pending[d] # None /\ pending[d].payload = p

\* Mutant: the bound is met one too late.
FullTooLate(d) ==
    /\ pending[d] = None
    /\ Cardinality({e \in Docs : pending[e] # None}) > Capacity

Full(d) ==
    /\ pending[d] = None
    /\ Cardinality({e \in Docs : pending[e] # None}) >= Capacity

TooManyUncertain(d) ==
    /\ pc = "idle"
    /\ Full(d)
    /\ call' = None
    /\ Return("unavailable")
    /\ UNCHANGED <<pending, since, wire, ops>>

\* The deadline covers everything that follows.
Start(d, p, op) ==
    /\ pending' = [pending EXCEPT ![d] = [payload |-> p, op |-> op]]
    /\ call' = [doc |-> d, payload |-> p, op |-> op]
    /\ left' = Completion
    /\ attempt' = 0
    /\ result' = "none"
    /\ pc' = "submit"
    /\ UNCHANGED <<wake, next, since, wire>>

\* A changed or settled document gets an operation of its own.
RetainNew(d, p) ==
    /\ pc = "idle"
    /\ ~Replaying(d, p)
    /\ ~Full(d)
    /\ Len(ops) < MaxOps
    /\ ops' = Append(ops, [doc |-> d, payload |-> p, stray |-> FALSE, status |-> "unknown"])
    /\ protect' = TRUE
    /\ Start(d, p, Len(ops) + 1)

\* An unchanged uncertain document is submitted again under its UUID.
RetainAgain(d, p) ==
    /\ pc = "idle"
    /\ Replaying(d, p)
    /\ protect' = FALSE
    /\ Start(d, p, pending[d].op)
    /\ UNCHANGED ops

-----------------------------------------------------------------------------
(* One request: attempts, retries and the end of the budget. *)

\* No request is sent, and no answer believed, at or after the deadline.
Expired ==
    /\ pc \in {"submit", "ask"}
    /\ left = 0
    /\ Return("unavailable")
    /\ UNCHANGED <<pending, call, since, wire, ops>>

Send ==
    /\ pc = "submit"
    /\ left > 0
    /\ attempt' = attempt + 1
    /\ wire' = "sent"
    /\ pc' = "posting"
    /\ UNCHANGED <<pending, call, protect, left, wake, next, result, since, ops>>

Ask ==
    /\ pc = "ask"
    /\ left > 0
    /\ attempt' = attempt + 1
    /\ pc' = "polling"
    /\ UNCHANGED <<pending, call, protect, left, wake, next, result, since, wire, ops>>

\* The client gives the submission up; a copy may still be on its way.
Abandon ==
    /\ wire' = "none"
    /\ \/ UNCHANGED ops
       \/ /\ wire = "sent"
          /\ ops' = [ops EXCEPT ![call.op].stray = TRUE]

Clip(a, b) == IF a < b THEN a ELSE b

\* tenacity's wait_exponential_jitter after the n-th attempt.
Delays(n) ==
    {d \in 0 .. Maximum : \E j \in 0 .. Jitter : d = Clip(Initial * 2 ^ (n - 1) + j, Maximum)}

\* Mutant: a later refusal is taken to settle an earlier, uncertain attempt.
RetryProtected(request) ==
    \/ /\ attempt >= MaxAttempts
       /\ Return("unavailable")
    \/ /\ attempt < MaxAttempts
       /\ wake' = left - 1
       /\ next' = request
       /\ pc' = "backoff"
       /\ UNCHANGED <<attempt, protect, left, result>>

\* RetryPolicy.run after a TransientFailure: stop, or sleep and send again.
RetryOrStop(request) ==
    \/ /\ attempt >= MaxAttempts
       /\ Return("unavailable")
    \/ /\ attempt < MaxAttempts
       /\ \E delay \in Delays(attempt) :
             \/ /\ delay >= left
                /\ Return("unavailable")
             \/ /\ delay < left
                /\ wake' = left - delay
                /\ next' = request
                /\ protect' = FALSE
                /\ pc' = "backoff"
                /\ UNCHANGED <<attempt, left, result>>

\* Mutant: every request has the whole budget.
WakeAfresh ==
    /\ pc \in {"backoff", "pause"}
    /\ left <= wake
    /\ pc' = next
    /\ wake' = 0
    /\ next' = "submit"
    /\ left' = Completion
    /\ UNCHANGED <<pending, call, attempt, protect, result, since, wire, ops>>

\* A sleep of the retry loop or of the poll loop is over.
Wake ==
    /\ pc \in {"backoff", "pause"}
    /\ left <= wake
    /\ pc' = next
    /\ wake' = 0
    /\ next' = "submit"
    /\ UNCHANGED <<pending, call, attempt, protect, left, result, since, wire, ops>>

-----------------------------------------------------------------------------
(* Answers to the submission. *)

\* Mutant: a success answer to the submission is taken for the extraction.
AcknowledgedIsDone ==
    /\ pc = "posting" /\ left > 0
    /\ wire = "accepted"
    /\ wire' = "none"
    /\ pending' = [pending EXCEPT ![call.doc] = None]
    /\ Return("ok")
    /\ UNCHANGED <<call, since, ops>>

\* A valid acknowledgement; the polls are requests of their own.
Acknowledged ==
    /\ pc = "posting" /\ left > 0
    /\ wire = "accepted"
    /\ wire' = "none"
    /\ attempt' = 0
    /\ protect' = FALSE
    /\ pc' = "ask"
    /\ UNCHANGED <<pending, call, left, wake, next, result, since, ops>>

\* 400, 401, 403, 500...: definitive only if no earlier copy can be under way.
Refused ==
    /\ pc = "posting" /\ left > 0
    /\ wire = "sent"
    /\ wire' = "none"
    /\ pending' = IF protect THEN [pending EXCEPT ![call.doc] = None] ELSE pending
    /\ Return("rejected")
    /\ UNCHANGED <<call, since, ops>>

\* A success that is no JSON object, or no acknowledgement of this operation.
MisAcknowledged ==
    /\ pc = "posting" /\ left > 0
    /\ Abandon
    /\ Return("rejected")
    /\ UNCHANGED <<pending, call, since>>

\* 429, 502, 503, 504, a request timeout or a connection reset.
SubmitTransient ==
    /\ pc = "posting" /\ left > 0
    /\ Abandon
    /\ RetryOrStop("submit")
    /\ UNCHANGED <<pending, call, since>>

\* Any other transport failure, or the deadline while waiting.
SubmitLost ==
    /\ pc = "posting"
    /\ Abandon
    /\ Return("unavailable")
    /\ UNCHANGED <<pending, call, since>>

\* An exception of the HTTP library that is no TransportError (DecodingError).
Undecodable ==
    /\ pc \in {"posting", "polling"}
    /\ Abandon
    /\ Return("foreign")
    /\ UNCHANGED <<pending, call, since>>

-----------------------------------------------------------------------------
(* Answers to a poll. *)

Progress == ops[call.op].status

Settle(r) ==
    /\ pending' = [pending EXCEPT ![call.doc] = None]
    /\ Return(r)
    /\ UNCHANGED <<call, since, wire, ops>>

PollCompleted ==
    /\ pc = "polling" /\ left > 0
    /\ Progress = "completed"
    /\ Settle("ok")

PollFailed ==
    /\ pc = "polling" /\ left > 0
    /\ Progress = "failed"
    /\ Settle("rejected")

PollNotFound ==
    /\ pc = "polling" /\ left > 0
    /\ Progress = "unknown"
    /\ Return("unavailable")
    /\ UNCHANGED <<pending, call, since, wire, ops>>

PollRunning ==
    /\ pc = "polling" /\ left > 0
    /\ Progress = "running"
    /\ attempt' = 0
    /\ wake' = left - Clip(Interval, left)
    /\ next' = "ask"
    /\ pc' = "pause"
    /\ UNCHANGED <<pending, call, protect, left, result, since, wire, ops>>

\* A refusal, an unreadable answer or an unknown status.
PollInvalid ==
    /\ pc = "polling" /\ left > 0
    /\ Return("rejected")
    /\ UNCHANGED <<pending, call, since, wire, ops>>

PollTransient ==
    /\ pc = "polling" /\ left > 0
    /\ RetryOrStop("ask")
    /\ UNCHANGED <<pending, call, since, wire, ops>>

PollLost ==
    /\ pc = "polling"
    /\ Return("unavailable")
    /\ UNCHANGED <<pending, call, since, wire, ops>>

-----------------------------------------------------------------------------
(* Time, the process, the network and the engine. *)

Tick ==
    /\ pc # "idle"
    /\ left > 0
    /\ left' = left - 1
    /\ UNCHANGED <<pending, pc, call, attempt, protect, wake, next, result, since,
                   wire, ops>>

\* A new adapter in a new process knows nothing of earlier operations.
Restart ==
    /\ IF wire = "none" THEN UNCHANGED <<wire, ops>> ELSE Abandon
    /\ pending' = [d \in Docs |-> None]
    /\ pc' = "idle"
    /\ call' = None
    /\ NoLocals
    /\ result' = "none"
    /\ since' = Len(ops)

\* The engine accepts a submission, and knows one UUID only once.
Accepted(status) == IF status = "unknown" THEN "running" ELSE status

Deliver ==
    /\ wire = "sent"
    /\ wire' = "accepted"
    /\ ops' = [ops EXCEPT ![call.op].status = Accepted(@)]
    /\ UNCHANGED adapter

DeliverStray(k) ==
    /\ ops[k].stray
    /\ ops' = [ops EXCEPT ![k] = [@ EXCEPT !.stray = FALSE,
                                         !.status = Accepted(ops[k].status)]]
    /\ UNCHANGED <<adapter, wire>>

LoseStray(k) ==
    /\ ops[k].stray
    /\ ops' = [ops EXCEPT ![k].stray = FALSE]
    /\ UNCHANGED <<adapter, wire>>

Advance(k, to) ==
    /\ ops[k].status = "running"
    /\ ops' = [ops EXCEPT ![k].status = to]
    /\ UNCHANGED <<adapter, wire>>

Complete(k) == Advance(k, "completed")
FailExtraction(k) == Advance(k, "failed")
LoseOperation(k) == Advance(k, "unknown")

Adapter ==
    \/ Expired \/ Send \/ Ask \/ Wake
    \/ Acknowledged \/ Refused \/ MisAcknowledged \/ SubmitTransient \/ SubmitLost
    \/ Undecodable
    \/ PollCompleted \/ PollFailed \/ PollNotFound \/ PollRunning \/ PollInvalid
    \/ PollTransient \/ PollLost

Engine ==
    \/ Deliver
    \/ \E k \in 1 .. Len(ops) :
          \/ DeliverStray(k) \/ LoseStray(k)
          \/ Complete(k) \/ FailExtraction(k) \/ LoseOperation(k)

Next ==
    \/ RefuseInput
    \/ \E d \in Docs : TooManyUncertain(d)
    \/ \E d \in Docs, p \in Payloads : RetainNew(d, p) \/ RetainAgain(d, p)
    \/ Adapter
    \/ Tick
    \/ Restart
    \/ Engine

\* The adapter is sequential code whose waits are all bounded by the clock.
Spec == Init /\ [][Next]_vars /\ WF_vars(Adapter) /\ WF_vars(Tick)

-----------------------------------------------------------------------------
(* Properties. *)

TypeOK ==
    /\ pending \in [Docs -> Pending \cup {None}]
    /\ pc \in {"idle", "submit", "posting", "ask", "polling", "backoff", "pause"}
    /\ call \in Call \cup {None}
    /\ pc # "idle" => call # None
    /\ attempt \in 0 .. MaxAttempts
    /\ protect \in BOOLEAN
    /\ left \in 0 .. Completion
    /\ wake \in 0 .. Completion
    /\ next \in {"submit", "ask"}
    /\ result \in {"none", "ok", "rejected", "unavailable", "foreign"}
    /\ since \in 0 .. MaxOps
    /\ wire \in {"none", "sent", "accepted"}
    /\ wire # "none" => pc = "posting"
    /\ ops \in Seq(Operation)
    /\ Len(ops) <= MaxOps
    /\ call # None => call.op <= Len(ops)
    /\ \A d \in Docs : pending[d] # None => pending[d].op <= Len(ops)

\* retain() returns normally only when the engine has extracted exactly the
\* content of this call, however many submissions of this or of an earlier call
\* it took (store.py:221; a submission that was merely accepted is no success).
SuccessIsExtracted ==
    result = "ok" =>
        /\ ops[call.op].status = "completed"
        /\ ops[call.op].doc = call.doc
        /\ ops[call.op].payload = call.payload

\* Operation o may still take effect: it runs, or will once a copy arrives.
Effective(o) == o.status = "running" \/ (o.stray /\ o.status = "unknown")

\* An operation of this adapter that may still take effect.
Live(k) == k > since /\ Effective(ops[k])

\* No operation of the same document was minted between j and k.
Adjacent(j, k) ==
    /\ j < k
    /\ ops[j].doc = ops[k].doc
    /\ \A m \in (j + 1) .. (k - 1) : ops[m].doc # ops[k].doc

\* The newest operation of a document keeps its UUID in _pending for as long as
\* it may take effect without the caller having heard how it ended: after lost
\* answers, refusals of a repetition, deadlines, wrong acknowledgements.
UncertainIsRemembered ==
    \A k \in 1 .. Len(ops) :
        (Live(k) /\ \A m \in (k + 1) .. Len(ops) : ops[m].doc # ops[k].doc) =>
            /\ pending[ops[k].doc] # None
            /\ pending[ops[k].doc].op = k

\* Unchanged content is never queued a second time while its first submission may
\* still be extracted (015 FR-004): retries cost no extraction.
NoSecondDelivery ==
    \A j, k \in 1 .. Len(ops) :
        Adjacent(j, k) /\ ops[j].payload = ops[k].payload => ~Live(j)

\* The adapter remembers at most as many uncertain documents as it may, and a
\* document it remembers is remembered with what was submitted under its UUID.
PendingIsSound ==
    /\ Cardinality({d \in Docs : pending[d] # None}) <= Capacity
    /\ \A d \in Docs :
          pending[d] # None =>
              /\ ops[pending[d].op].doc = d
              /\ ops[pending[d].op].payload = pending[d].payload

\* The operations of a document, the last of them, and what an operation has come
\* to: it may take effect on its own, or is on its way.
OpsOf(d) == {k \in 1 .. Len(ops) : ops[k].doc = d}

IsNewest(k) == \A m \in OpsOf(ops[k].doc) : m <= k

Open(k) == Effective(ops[k]) \/ (wire = "sent" /\ call.op = k /\ ops[k].status # "completed")

StateOf(k) ==
    IF ops[k].status = "completed" THEN "kept" ELSE IF Open(k) THEN "open" ELSE "void"

Newest ==
    [d \in Docs |->
        IF OpsOf(d) = {} THEN None
        ELSE LET k == CHOOSE k \in OpsOf(d) : IsNewest(k)
             IN  [payload |-> ops[k].payload, state |-> StateOf(k)]]

Late == [d \in Docs |-> {ops[k].payload : k \in {j \in OpsOf(d) : Open(j) /\ ~IsNewest(j)}}]

Ours == {d \in Docs : \E k \in OpsOf(d) : k > since}

Asked == IF pc = "idle" THEN None ELSE [doc |-> call.doc, payload |-> call.payload]

Answer == IF result \in {"none", "ok"} THEN result ELSE "error"

Store == INSTANCE MemoryStore
    WITH newest <- Newest, late <- Late, ours <- Ours, task <- Asked, answer <- Answer

\* However often it submits and asks, and whatever is lost, delayed or doubled in
\* between, the adapter makes one request of a call, returns only when the last
\* request of the document is the call's and extracted, and takes an uncertain one
\* up again instead of making another: the promises of interface/store.py (MS-2,
\* MS-3).
ImplementsStore == Store!Spec

\* Every call returns or raises: no retry and no poll extends the deadline.
CallsReturn == pc = "submit" ~> pc = "idle"
=============================================================================
