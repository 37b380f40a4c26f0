---------------------------- MODULE MCFactStore ----------------------------
(* Small instances of FactStore.  Values and texts are interchangeable.    *)
(* MixSpec explores two populations of inputs, each to the end: typed      *)
(* writes with valid times by clients of every authority, and all writes   *)
(* without valid times by the owner.                                       *)
EXTENDS FactStore, TLC

CONSTANTS agent, corrector, owner, s1, v1, v2

VARIABLE inputs

Valued == Permutations({v1, v2})

mixVars == <<facts, count, conflicts, opened, inputs>>

MixInit == Init /\ inputs \in {"timed", "untimed"}

Timed == {c \in Candidates : c.cites = None}

Untimed == {c \in Candidates : c.vf = None /\ c.vt = None}

MixNext ==
    /\ \/ /\ inputs = "timed" /\ Room
          /\ \E k \in Clients, c \in Timed : TypedWrite(k, c)
       \/ /\ inputs = "untimed" /\ Room
          /\ \E c \in Untimed : TypedWrite(owner, c)
       \/ /\ inputs = "untimed" /\ Room
          /\ \E u \in Untyped : UntypedWrite(owner, u)
       \/ /\ inputs = "untimed"
          /\ \E u \in Untyped : ReplaceByDuplicate(owner, u)
       \/ \E g \in ConflictIds, w \in Ids : ResolveConflict(owner, g, w)
       \/ \E x \in Ids : EraseFact(x)
    /\ UNCHANGED inputs

MixSpec == MixInit /\ [][MixNext]_mixVars
=============================================================================
