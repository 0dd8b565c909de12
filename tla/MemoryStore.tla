------------------------------ MODULE MemoryStore ------------------------------
(***************************************************************************)
(* What the memory store boundary promises of retain                        *)
(* (engineering_memory/memory/interface/store.py, MS-2, MS-3): a call that  *)
(* returns has made its content the memory of the document, the last one    *)
(* asked for; unchanged content that may still become memory is not asked   *)
(* for twice; and nothing becomes memory that was not asked for.  How often *)
(* a request is sent, and whether an answer was lost, no caller can tell.   *)
(***************************************************************************)
CONSTANTS
    Docs,      \* document identities
    Payloads,  \* contents
    None

VARIABLES
    newest,  \* the last request of each document: its content and its state
    late,    \* contents of earlier requests that may still become memory
    ours,    \* the documents whose last request is of this process
    task,    \* the call in progress
    answer   \* how the last call ended

vars == <<newest, late, ours, task, answer>>

\* A request is open while its content may become memory, kept once it has, and
\* void if it will not unless it is submitted again.
Request(p, state) == [payload |-> p, state |-> state]

Init ==
    /\ newest = [d \in Docs |-> None]
    /\ late = [d \in Docs |-> {}]
    /\ ours = {}
    /\ task = None
    /\ answer = "none"

\* A call that is refused before anything was asked of the engine.
Refuse ==
    /\ task = None
    /\ answer' = "error"
    /\ UNCHANGED <<newest, late, ours, task>>

Called(d, p) ==
    /\ task = None
    /\ task' = [doc |-> d, payload |-> p]
    /\ answer' = "none"

\* New content, or content of which this process has learned what became of it.
Retain(d, p) ==
    /\ Called(d, p)
    /\ ~(d \in ours /\ newest[d] = Request(p, "open"))
    /\ newest' = [newest EXCEPT ![d] = Request(p, "void")]
    /\ late' = [late EXCEPT ![d] = @ \cup {q \in Payloads : newest[d] = Request(q, "open")}]
    /\ ours' = ours \cup {d}

\* The same content again: the request is taken up where it stands.
RetainAgain(d, p) ==
    /\ Called(d, p)
    /\ d \in ours
    /\ \E state \in {"open", "kept", "void"} : newest[d] = Request(p, state)
    /\ UNCHANGED <<newest, late, ours>>

Submit ==
    /\ task # None
    /\ newest[task.doc] = Request(task.payload, "void")
    /\ newest' = [newest EXCEPT ![task.doc] = Request(task.payload, "open")]
    /\ UNCHANGED <<late, ours, task, answer>>

\* The engine extracts what it was asked for, or does not.
Settle(d) ==
    /\ newest[d] # None
    /\ newest[d].state = "open"
    /\ \E state \in {"kept", "void"} : newest' = [newest EXCEPT ![d].state = state]
    /\ UNCHANGED <<late, ours, task, answer>>

\* An earlier content becomes memory after all, or never will.
SettleLate(d, p) ==
    /\ p \in late[d]
    /\ late' = [late EXCEPT ![d] = @ \ {p}]
    /\ UNCHANGED <<newest, ours, task, answer>>

\* retain returns: the memory of the document is the content of the call.
Succeed ==
    /\ task # None
    /\ task' = None
    /\ answer' = "ok"
    /\ newest[task.doc] = Request(task.payload, "kept")
    /\ UNCHANGED <<newest, late, ours>>

\* The request in hand is left as it is, or never arrives.
GivenUp ==
    \/ UNCHANGED newest
    \/ /\ task # None
       /\ newest[task.doc] = Request(task.payload, "open")
       /\ newest' = [newest EXCEPT ![task.doc] = Request(task.payload, "void")]

\* retain raises, whatever has become of the request.
Fail ==
    /\ task # None
    /\ task' = None
    /\ answer' = "error"
    /\ GivenUp
    /\ UNCHANGED <<late, ours>>

\* The process ends; what was asked for may still become memory.
Die ==
    /\ task' = None
    /\ answer' = "none"
    /\ ours' = {}
    /\ GivenUp
    /\ UNCHANGED late

Next ==
    \/ Refuse
    \/ \E d \in Docs, p \in Payloads : Retain(d, p) \/ RetainAgain(d, p)
    \/ Submit
    \/ \E d \in Docs : Settle(d)
    \/ \E d \in Docs, p \in Payloads : SettleLate(d, p)
    \/ Succeed \/ Fail \/ Die

Spec == Init /\ [][Next]_vars
=============================================================================
