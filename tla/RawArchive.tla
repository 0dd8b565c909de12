------------------------------ MODULE RawArchive ------------------------------
(***************************************************************************)
(* What the raw archive boundary promises (engineering_memory/archive/     *)
(* interface.py): both forms of a conversation are one record, the last    *)
(* store wins, a store that returned is durable, and a load answers with a *)
(* record that was committed while it ran.  One writer, one reader.        *)
(***************************************************************************)
CONSTANTS
    Docs,     \* document identities
    Forms,    \* the two forms of a conversation, as one value
    Damaged,  \* a record that is not valid
    None

VARIABLES
    held,    \* the record each document has now
    fates,   \* the records a loss of power may leave it with
    task,    \* the store in progress
    answer,  \* what the last store answered
    load,    \* the load in progress, and the records it may answer with
    reply    \* what the last load answered

vars == <<held, fates, task, answer, load, reply>>

Values == Forms \cup {Damaged, None}

Reply(v) ==
    CASE v = None -> "not found"
      [] v = Damaged -> "rejected"
      [] OTHER -> v

Init ==
    /\ held = [d \in Docs |-> None]
    /\ fates = [d \in Docs |-> {None}]
    /\ task = None
    /\ answer = "none"
    /\ load = None
    /\ reply = "none"

Store(d, f) ==
    /\ task = None
    /\ task' = [doc |-> d, form |-> f, done |-> FALSE]
    /\ answer' = "none"
    /\ UNCHANGED <<held, fates, load, reply>>

\* A refused input changes nothing.
Refuse ==
    /\ task = None
    /\ answer' = "rejected"
    /\ UNCHANGED <<held, fates, task, load, reply>>

\* A load in progress may answer with what document d holds from now on.
Shown(d, v) ==
    load' = IF load # None /\ load.doc = d THEN [load EXCEPT !.seen = @ \cup {v}] ELSE load

\* The record is visible, and not yet durable.
Commit ==
    /\ task # None
    /\ held' = [held EXCEPT ![task.doc] = task.form]
    /\ fates' = [fates EXCEPT ![task.doc] = @ \cup {task.form}]
    /\ task' = [task EXCEPT !.done = TRUE]
    /\ Shown(task.doc, task.form)
    /\ UNCHANGED <<answer, reply>>

\* Written data reaches the disk, with or without being asked to.
Settling == \A d \in Docs : fates'[d] \subseteq fates[d] /\ held[d] \in fates'[d]

Settle ==
    /\ fates' = [d \in Docs |-> fates'[d]]
    /\ Settling
    /\ UNCHANGED <<held, task, answer, load, reply>>

\* store returns: what any reader finds now is what it will find after a loss of power.
Succeed ==
    /\ task # None
    /\ task.done
    /\ fates' = [d \in Docs |-> fates'[d]]
    /\ Settling
    /\ fates'[task.doc] = {held[task.doc]}
    /\ task' = None
    /\ answer' = "ok"
    /\ UNCHANGED <<held, load, reply>>

\* store raises: the document has its old record or the new one.
Fail ==
    /\ task # None
    /\ task' = None
    /\ answer' \in {"rejected", "unavailable"}
    /\ UNCHANGED <<held, fates, load, reply>>

Die ==
    /\ task' = None
    /\ answer' = "none"
    /\ UNCHANGED <<held, fates, load, reply>>

PowerLoss ==
    /\ \A d \in Docs : held'[d] \in fates[d]
    /\ held' = [d \in Docs |-> held'[d]]
    /\ fates' = [d \in Docs |-> {held'[d]}]
    /\ task' = None /\ answer' = "none"
    /\ load' = None /\ reply' = "none"

Damage(d) ==
    /\ held[d] \in Forms
    /\ held' = [held EXCEPT ![d] = Damaged]
    /\ \E left \in SUBSET {None} :
          fates' = [fates EXCEPT ![d] = {Damaged} \cup (left \cap @)]
    /\ Shown(d, Damaged)
    /\ UNCHANGED <<task, answer, reply>>

Load(d) ==
    /\ load = None
    /\ load' = [doc |-> d, seen |-> {held[d]}]
    /\ reply' = "none"
    /\ UNCHANGED <<held, fates, task, answer>>

\* The answer is the record of some moment of the load, or the reason for none.
Loaded ==
    /\ load # None
    /\ reply' \in {Reply(v) : v \in load.seen} \cup {"rejected", "unavailable"}
    /\ load' = None
    /\ UNCHANGED <<held, fates, task, answer>>

Next ==
    \/ \E d \in Docs, f \in Forms : Store(d, f)
    \/ Refuse \/ Commit \/ Settle \/ Succeed \/ Fail \/ Die
    \/ PowerLoss
    \/ \E d \in Docs : Damage(d)
    \/ \E d \in Docs : Load(d)
    \/ Loaded

Spec == Init /\ [][Next]_vars
=============================================================================
