------------------------------- MODULE Legacy -------------------------------
(***************************************************************************)
(* What the two halves of the in-process (v0) provider share: the fact     *)
(* table (LegacyFacts) and the extraction queue that feeds it              *)
(* (LegacyQueue).  Their other names are distinct, so that one module can  *)
(* extend both.                                                            *)
(***************************************************************************)

CONSTANTS
    Processes,   \* processes that have the provider open
    Texts,       \* contents of facts
    Near,        \* pairs of texts that restate one another
    Updates,     \* pairs of texts of which each is a value update of the other
    None
=============================================================================
