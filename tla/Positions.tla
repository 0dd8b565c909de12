----------------------------- MODULE Positions ------------------------------
(* The members of a finite set of positions, in order.                       *)
EXTENDS Integers, FiniteSets

UpTo(S, i) == Cardinality({j \in S : j <= i})

Ascending(S) == [k \in 1 .. Cardinality(S) |-> CHOOSE i \in S : UpTo(S, i) = k]
=============================================================================
