------------------------------ MODULE MCUniTx ------------------------------
(* Instances of UniTx for TLC: two goroutines on one engine, or each on a  *)
(* copy of its own.                                                        *)
EXTENDS UniTx

CONSTANTS p1, p2, e1, e2

MCShared == [p \in {p1, p2} |-> e1]
MCOne == [p \in {p1} |-> e1]
MCOwn == [p \in {p1, p2} |-> IF p = p1 THEN e1 ELSE e2]
=============================================================================
