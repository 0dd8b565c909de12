----------------------------- MODULE ImportTable -----------------------------
(* What ingestion/state.py promises of any ImportState: a table that exists or    *)
(* does not, and one current outcome per identity, replaced whole (IS-3).         *)
CONSTANTS
    Ids,
    None,       \* no table yet, or no outcome yet
    Foreign     \* a database of something else

VARIABLE table

Status == {"imported", "failed"}

Init == table \in {None, Foreign}

Create == table = None /\ table' = [id \in Ids |-> None]

Record(id, status) ==
    /\ table \notin {None, Foreign}
    /\ table' = [table EXCEPT ![id] = status]

Next == Create \/ \E id \in Ids, status \in Status : Record(id, status)

Spec == Init /\ [][Next]_table
=============================================================================
