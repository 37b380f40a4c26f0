------------------------------ MODULE FactLife ------------------------------
(***************************************************************************)
(* The life of a fact: what the transactions of module FactStore mean to   *)
(* those who only ask whether a fact is settled, a member of a conflict,   *)
(* out of force or erased, as the embedding outbox and the searches do     *)
(* (modules EmbeddingJobs and Recall).                                     *)
(***************************************************************************)
EXTENDS Naturals

CONSTANT MaxFacts  \* bound on fact ids

ASSUME FactLifeAssumption == MaxFacts \in Nat

VARIABLE fact  \* fact_id -> life stage of the fact

Facts == 1..MaxFacts

Stages == {"absent", "settled", "disputed", "history", "erased"}

Stage(s) == {f \in Facts : fact[f] = s}

(* The first facts of a store may have been written before. *)
LifeInit ==
    \E n \in 0..MaxFacts, s \in [Facts -> {"settled", "disputed", "history"}] :
        fact = [f \in Facts |-> IF f <= n THEN s[f] ELSE "absent"]

NextId(f) == f \in Stage("absent") /\ \A g \in Stage("absent") : f <= g

(* What a fact replaces on arrival: at most one settled fact. *)
AtMostOne(R) == \A f \in R : fact[f] = "settled" /\ \A g \in R : f = g

(* The members of a conflict, of which there are at least two. *)
Members(R) == (\A f \in R : fact[f] = "disputed") /\ \E f, g \in R : f # g

(* One fact enters a stage, and others go out of force. *)
Moves(f, stage, R) ==
    fact' = [g \in Facts |-> IF g = f THEN stage ELSE IF g \in R THEN "history" ELSE fact[g]]

(* A new fact is settled: it replaces an older one or none, or settles a   *)
(* conflict by putting all of its members out of force.                    *)
NewSettled(f, R) ==
    /\ NextId(f)
    /\ AtMostOne(R) \/ Members(R)
    /\ Moves(f, "settled", R)

(* A new value of a closed interval is history from the start. *)
NewClosed(f, R) == NextId(f) /\ AtMostOne(R) /\ Moves(f, "history", R)

(* A new fact opens a conflict with old or joins the one old is in. *)
NewDisputed(f, old) ==
    /\ NextId(f) /\ fact[old] \in {"settled", "disputed"}
    /\ fact' = [fact EXCEPT ![f] = "disputed", ![old] = "disputed"]

(* A new fact loses at once to the settled one it nearly repeats. *)
NewMerged(f, old) == NextId(f) /\ fact[old] = "settled" /\ Moves(f, "history", {})

(* A settled fact gives way to another that was there before. *)
Replaced(f, by) ==
    /\ fact[f] = "settled" /\ fact[by] = "settled" /\ f # by
    /\ Moves(f, "history", {})

(* A member of a conflict is elected over the others. *)
Elected(f, losers) ==
    /\ fact[f] = "disputed" /\ f \notin losers /\ Members({f} \cup losers)
    /\ Moves(f, "settled", losers)

(* A fact is erased, and insights that rest on it go out of force. *)
Wiped(f, insights) ==
    /\ fact[f] # "absent" /\ \A g \in insights : g # f /\ fact[g] \in {"settled", "disputed"}
    /\ Moves(f, "erased", insights)

(* The others that go out of force in a step. *)
Displaced(f) == {g \in Facts \ {f} : fact[g] # "history" /\ fact'[g] = "history"}

(* A step by the stage it leaves the fact in that it is about. *)
LifeNext ==
    \E f \in Facts :
      \/ fact'[f] = "settled" /\ \E R \in {Displaced(f)} : NewSettled(f, R) \/ Elected(f, R)
      \/ fact'[f] = "disputed" /\ \E old \in Facts : NewDisputed(f, old)
      \/ fact'[f] = "history" /\ NewClosed(f, Displaced(f))
      \/ fact'[f] = "history" /\ \E g \in Facts : NewMerged(f, g) \/ Replaced(f, g)
      \/ fact'[f] = "erased" /\ Wiped(f, Displaced(f))

LifeSpec == LifeInit /\ [][LifeNext]_fact

=============================================================================
