---------------------------- MODULE ClusterMerge ----------------------------
(***************************************************************************)
(* The offline near-duplicate merge (cluster_merge.execute_merge) of a     *)
(* copy of the fact store, which then goes on being written.  It clusters  *)
(* the settled facts whose stored vectors lie close to each other, deletes *)
(* all of a cluster but one survivor and moves what refers to a deleted    *)
(* fact to the survivor, in one transaction.                               *)
(*                                                                         *)
(* A deleted fact leaves a blank row that no query selects, so that ids    *)
(* stay 1..count.  Which facts lie close together, which of them have      *)
(* vectors and which has the best trust and the earliest date is left      *)
(* open.  Of the tags only the source that is listed first is kept, the    *)
(* one privacy erasure reads: merging and rewriting tags never moves       *)
(* another one to its place.  facts[f].cites is that source for an insight;*)
(* a fact that is none may be left with the tags of one it was merged with.*)
(***************************************************************************)
EXTENDS FactStore, FiniteSetsExt

VARIABLES
    gone,   \* deleted facts
    source  \* fact_id -> source listed first in the source_facts tags

mergeVars == <<facts, count, conflicts, opened, gone, source>>

MergeInit == Init /\ gone = {} /\ source = [f \in {} |-> None]

Blank ==
    [slot |-> NoSlot, value |-> Erased, auth |-> 0, claims |-> "none",
     vf |-> None, vt |-> None, invalid |-> TRUE, expired |-> FALSE,
     sup |-> None, group |-> None, cites |-> None]

(* A new insight can cite only a fact the store still holds. *)
Present(r) == r.cites \notin gone

(* A transaction of the daemon. *)
Serve ==
    /\ \/ Room /\ \E k \in Clients, c \in Candidates : Present(c) /\ TypedWrite(k, c)
       \/ Room /\ \E k \in Clients, u \in Untyped : Present(u) /\ UntypedWrite(k, u)
       \/ \E k \in Clients, u \in Untyped : ReplaceByDuplicate(k, u)
       \/ \E k \in Clients, g \in ConflictIds, w \in Ids : ResolveConflict(k, g, w)
       \/ \E x \in Ids \ gone : EraseFact(x)
    /\ source' = [f \in 1..count' |->
                    IF f > count THEN facts'[f].cites
                    ELSE IF facts'[f].value = Erased THEN None ELSE source[f]]
    /\ UNCHANGED gone

-----------------------------------------------------------------------------
(* The plan.                                                               *)

(* Mutated form of Mergeable: superseded and disputed facts are clustered too. *)
MergeableInvalid == {f \in Ids \ gone : facts[f].value # Erased}

(* _active_fact_ids *)
Mergeable == {f \in Ids \ gone : Settled(f)}

(* build_clusters: connected components of two facts or more.  The texts   *)
(* of a component agree in the values, negations and states they name,     *)
(* which is an equivalence, so the survivor is mergeable with all of them. *)
Clusterings ==
    {C \in SUBSET {S \in SUBSET Mergeable : Cardinality(S) > 1} :
        C # {} /\ \A S, T \in C : S = T \/ S \cap T = {}}

(* choose_survivor, for each cluster *)
Elections(C) == {e \in [C -> Mergeable] : \A S \in C : e[S] \in S}

Losers(C, e) == UNION {S \ {e[S]} : S \in C}

(* The relative cap of execute_merge, with max_drop_fraction one half. *)
WithinCap(C, e) == 2 * Cardinality(Losers(C, e)) <= Cardinality(Mergeable)

-----------------------------------------------------------------------------
(* The merge.                                                              *)

(* Mutated form of Moved: references keep naming the deleted fact. *)
MovedNowhere(C, e, f) == f

(* The fact that stands for f after the merge. *)
Moved(C, e, f) ==
    IF \E S \in C : f \in S \ {e[S]} THEN e[CHOOSE S \in C : f \in S] ELSE f

(* superseded_by: a survivor that a deleted fact had superseded comes free.*)
Relinked(C, e, f) ==
    IF Moved(C, e, facts[f].sup) = f THEN None ELSE Moved(C, e, facts[f].sup)

Tagged(S) == {f \in S : source[f] # None}

(* _merge_tags, in the order of the ids, as planned before any rewriting *)
MergedSource(S) == IF Tagged(S) = {} THEN None ELSE source[Min(Tagged(S))]

(* Clusters are applied in the order of their first members. *)
From(C, S) == {T \in C : Min(T) >= Min(S)}

(* _rewrite_reflection_source_tags: done for each deleted fact in turn, in *)
(* insights in force.  The survivor of a cluster gets its planned tags when*)
(* its cluster's turn comes, so only later rewriting shows.                *)
Rewritten(C, e, f) ==
    IF \E S \in C : e[S] = f
    THEN LET S == CHOOSE S \in C : e[S] = f
         IN  IF facts[f].cites = None THEN MergedSource(S)
             ELSE Moved(From(C, S), e, MergedSource(S))
    ELSE IF facts[f].cites # None /\ Settled(f) THEN Moved(C, e, source[f])
    ELSE source[f]

(* execute_merge and _apply_merge.  The check for orphaned references      *)
(* before the commit is no part of the action: see LinksLive.              *)
ExecuteMerge ==
    /\ \E C \in Clusterings : \E e \in Elections(C) :
         /\ WithinCap(C, e)
         /\ gone' = gone \cup Losers(C, e)
         /\ source' = [f \in Ids |-> IF f \in gone' THEN None ELSE Rewritten(C, e, f)]
         /\ facts' = [f \in Ids |->
                        IF f \in gone' THEN Blank
                        ELSE [facts[f] EXCEPT
                                !.sup = Relinked(C, e, f),
                                !.cites = IF @ = None THEN None ELSE source'[f]]]
         /\ conflicts' = [g \in ConflictIds |->
                            [conflicts[g] EXCEPT
                                !.members = {Moved(C, e, f) : f \in @},
                                !.winner = Moved(C, e, @)]]
    /\ UNCHANGED <<count, opened>>

MergeNext == Serve \/ ExecuteMerge

MergeSpec == MergeInit /\ [][MergeNext]_mergeVars

-----------------------------------------------------------------------------
(* Properties.                                                             *)

(* No reference to a deleted fact remains after any sequence of merges and *)
(* writes: what _check_fact_reference_orphans tests before the commit.     *)
(* The test is no part of the action, so no merge is ever refused for it.  *)
LinksLive ==
    /\ \A f \in Ids : facts[f].sup \notin gone
    /\ \A g \in ConflictIds :
         conflicts[g].members \cap gone = {} /\ conflicts[g].winner \notin gone

(* Merged stores are as sound as others: no reference dangles, and no      *)
(* conflict has lost a member to a merge.                                  *)
MergeSound == LinksLive /\ ConflictsSound

=============================================================================
