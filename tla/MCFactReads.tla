---------------------------- MODULE MCFactReads ----------------------------
(* A small instance of FactReads.  The slots are interchangeable. *)
EXTENDS FactReads, TLC

CONSTANTS owner, s1, s2, v1, v2, daemon

(* The second and the third moment share a millisecond. *)
Milliseconds == [t \in 1..4 |-> IF t <= 2 THEN t ELSE t - 1]

SlotSymmetry == Permutations({s1, s2})
=============================================================================
