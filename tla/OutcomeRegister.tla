--------------------------- MODULE OutcomeRegister ---------------------------
(***************************************************************************)
(* What idempotency keys promise: the first outcome recorded under a key   *)
(* is the only one, and whoever is told an outcome of the key, now or      *)
(* after any number of retries, is told that one.  A privacy erasure takes *)
(* the detail from the outcomes of the erased fact and may move the        *)
(* observation of others, and no other step changes a recorded outcome.    *)
(***************************************************************************)
CONSTANTS Keys, Outcomes, Facts, None

VARIABLES
    recorded,    \* key -> its outcome, or None
    told,        \* <<key, outcome>> pairs that clients have been told
    erased       \* facts that have been erased

vars == <<recorded, told, erased>>

Init == recorded = [k \in Keys |-> None] /\ told = {} /\ erased = {}

Record(k) ==
    /\ recorded[k] = None
    /\ recorded'[k] \in Outcomes
    /\ recorded' = [recorded EXCEPT ![k] = recorded'[k]]

Tell(k) == recorded'[k] # None /\ told' = told \cup {<<k, recorded'[k]>>}

(* An outcome after the erasure of fact f, in terms of that before it. *)
Amended(old, new, f) ==
    IF old = None THEN new = None
    ELSE \/ old.fact = f /\ new = [old EXCEPT !.detail = "erased"]
         \/ old.fact # f /\ new = [old EXCEPT !.observation = new.observation]

Erase(f) ==
    /\ f \notin erased /\ erased' = erased \cup {f}
    /\ \A k \in Keys : Amended(recorded[k], recorded'[k], f)
    /\ UNCHANGED told

Next ==
    \/ \E k \in Keys :
         /\ \/ Record(k) /\ UNCHANGED told
            \/ Tell(k) /\ UNCHANGED recorded
            \/ Record(k) /\ Tell(k)
         /\ UNCHANGED erased
    \/ \E f \in Facts : Erase(f)

Spec == Init /\ [][Next]_vars
=============================================================================
