--------------------------- MODULE MCLegacyQueue ----------------------------
(* Two processes.  The model proposes a fact, one that restates it, and    *)
(* another, in one or two proposals; each behaviour has one of a few sets  *)
(* of misfortunes.                                                         *)
EXTENDS LegacyQueue

CONSTANTS a, b, c

MCNear == {<<a, b>>, <<b, a>>}
MCUpdates == {<<b, c>>, <<c, b>>}
MCExtractions == {<<a>>, <<b, c>>}

Quiet == [k \in QueueEvents |-> 0]
MCChances == {
    [Quiet EXCEPT !["enqueue"] = 1, !["lapse"] = 2, !["remove"] = 1],
    [Quiet EXCEPT !["enqueue"] = 2, !["crash"] = 1, !["add"] = 1],
    [Quiet EXCEPT !["enqueue"] = 1, !["reinit"] = 1, !["lapse"] = 1],
    [Quiet EXCEPT !["enqueue"] = 1, !["quota"] = 1, !["markfail"] = 2],
    [Quiet EXCEPT !["enqueue"] = 1, !["revive"] = 1],
    [Quiet EXCEPT !["enqueue"] = 1, !["add"] = 1, !["unchecked"] = 1, !["blind"] = 1]}
=============================================================================
