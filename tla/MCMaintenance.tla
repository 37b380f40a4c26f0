--------------------------- MODULE MCMaintenance ---------------------------
(* Small instances of Maintenance.  Commands are interchangeable. *)
EXTENDS Maintenance, TLC

CONSTANTS l1, m1, m2

CommandSymmetry == Permutations({m1, m2})
=============================================================================
