----------------------------- MODULE FactStore -----------------------------
(***************************************************************************)
(* The authoritative fact table of Enfold and its conflict records: what   *)
(* one committed transaction of MemoryWriteService.write, of               *)
(* EnfoldService._resolve_conflict or of erase_fact does to them.          *)
(*                                                                         *)
(* Every transaction runs under BEGIN IMMEDIATE on the single writer, so   *)
(* one transaction is one action.  A transaction that raises is rolled     *)
(* back and is no step: the conditions under which the code raises are     *)
(* conjuncts of the guards.  Answers that leave both tables alone (dedup,  *)
(* needs_review, rejected, idempotent replay) are no steps either.         *)
(*                                                                         *)
(* One access scope is modelled; it is a constant part of every slot.      *)
(* valid_from and valid_to are natural numbers with None = 0, invalid_at   *)
(* and expired_at are the flags "is not NULL", fact and conflict ids are   *)
(* 1, 2, ... in insertion order and 0 is NULL.  Content and object_value   *)
(* are one abstract value: two facts agree when either of them is equal.   *)
(***************************************************************************)
EXTENDS Naturals, FiniteSets

CONSTANTS
    Slots,                \* (scope, subject_key, predicate_key) of typed state
    Values,               \* contents / object values of typed state
    Texts,                \* contents of untyped memories
    Authorities,          \* source_authority levels
    Times,                \* valid-time points
    Clients,              \* connected memory clients
    CorrectionAuthority,  \* clients that may assert a human correction
    ResolutionAuthority,  \* clients that may resolve conflicts
    NoSlot,               \* slot of a memory that is not typed state
    Erased,               \* content placeholder written by privacy erasure
    Citations,            \* source facts an insight may cite, 0 for none
    MaxFacts              \* bound on inserted facts

ASSUME FactStoreAssumption ==
    /\ Authorities \subseteq Nat
    /\ Times \subseteq Nat \ {0}
    /\ MaxFacts \in Nat
    /\ Citations \subseteq 0..MaxFacts
    /\ NoSlot \notin Slots
    /\ Erased \notin Values \cup Texts
    /\ CorrectionAuthority \subseteq Clients
    /\ ResolutionAuthority \subseteq Clients

VARIABLES
    facts,      \* fact_id -> row
    count,      \* last assigned fact_id
    conflicts,  \* conflict_id -> fact_conflicts row and its members
    opened      \* last assigned conflict_id

vars == <<facts, count, conflicts, opened>>

None == 0
Ids == 1..count
ConflictIds == 1..opened

(* "corrects" is a human correction known from the fact's provenance only  *)
(* (source_type, relation), "confirmed" one that sets correction_status.   *)
Claims == {"none", "corrects", "confirmed"}

Fact ==
    [slot : Slots \cup {NoSlot}, value : Values \cup Texts \cup {Erased},
     auth : Nat, claims : Claims,
     vf : Nat, vt : Nat, invalid : BOOLEAN, expired : BOOLEAN,
     sup : 0..MaxFacts, group : 0..MaxFacts, cites : 0..MaxFacts]

Conflict == [open : BOOLEAN, members : SUBSET (1..MaxFacts), winner : 0..MaxFacts]

(* StateCandidate: valid_to, when both ends are given, is after valid_from. *)
Candidates ==
    {c \in [slot : Slots, value : Values, auth : Authorities,
            vf : Times \cup {None}, vt : Times \cup {None}, claims : Claims,
            cites : Citations] :
       c.vf # None /\ c.vt # None => c.vt > c.vf}

(* An untyped write: target is supersede_fact_id.  A request of category   *)
(* insight cites the fact named in its source_facts tag.                   *)
Untyped ==
    [value : Texts, auth : Authorities, claims : Claims,
     target : 0..MaxFacts, cites : Citations]

TypeOK ==
    /\ count \in 0..MaxFacts
    /\ opened \in 0..MaxFacts
    /\ facts \in [Ids -> Fact]
    /\ conflicts \in [ConflictIds -> Conflict]

Init ==
    /\ facts = [f \in {} |-> f]
    /\ count = 0
    /\ conflicts = [c \in {} |-> c]
    /\ opened = 0

-----------------------------------------------------------------------------
(* What the queries select.                                                *)

InForce(f) == ~facts[f].invalid /\ facts[f].sup = None

Settled(f) == InForce(f) /\ facts[f].group = None

(* current_state_facts *)
Current(s) == {f \in Ids : facts[f].slot = s /\ InForce(f) /\ facts[f].vt = None}

(* _believed_state_facts *)
Believed(s) ==
    {f \in Ids : /\ facts[f].slot = s
                 /\ ~facts[f].expired
                 /\ ~facts[f].invalid \/ facts[f].vt # None}

(* _intervals_overlap: half-open intervals, None is unbounded *)
Overlaps(a, b) ==
    /\ a.vt # None /\ b.vf # None => a.vt > b.vf
    /\ b.vt # None /\ a.vf # None => b.vt > a.vf

Overlapping(c) == {f \in Believed(c.slot) : Overlaps(facts[f], c)}

Oldest(f, S) == f \in S /\ \A g \in S : f <= g

Groups(S) == {facts[f].group : f \in S} \ {None}

(* The slot's truth is an unresolved conflict. *)
Disputed(s) ==
    \/ \E f \in Current(s) : facts[f].group # None
    \/ \E f, g \in Current(s) : f # g

(* next(fact for fact in peers if it has the candidate's content or value) *)
HasExact(c) ==
    LET peers == IF Current(c.slot) # {} THEN Current(c.slot) ELSE Overlapping(c)
    IN  \E f \in peers : facts[f].value = c.value

-----------------------------------------------------------------------------
(* decide_state_write and the write policy.                                *)

Human(r) == r.claims # "none"

(* MemoryPolicy.evaluate_write: only an authority may claim a correction.  *)
MayAssert(k, r) == Human(r) => k \in CorrectionAuthority

(* An insight cites a fact that exists when it is written. *)
WellCited(r) == r.cites \in Ids \cup {None}

(* Mutated form of Outranks: higher authority wins however old it is. *)
OutranksStale(r, f) ==
    \/ r.auth > facts[f].auth
    \/ r.auth = facts[f].auth /\ r.vf > facts[f].vf

(* None = 0 sorts before every time: an undated fact is never newer. *)
Outranks(r, f) ==
    \/ r.auth > facts[f].auth /\ r.vf >= facts[f].vf
    \/ r.auth = facts[f].auth /\ r.vf > facts[f].vf

WinsConflict(c, S) ==
    \/ c.vf # None /\ \A f \in S : Outranks(c, f)
    \/ \A f \in S : c.auth > facts[f].auth

(* Mutated form of Protected: correction_status is forgotten. *)
ProtectedByAuthorityOnly(r, f) == facts[f].auth > r.auth

(* _supersession_policy: the write is answered needs_review *)
Protected(r, f) ==
    \/ facts[f].claims = "confirmed" /\ ~Human(r)
    \/ facts[f].auth > r.auth

(* The decision names a supersession of every open conflict member: either *)
(* the candidate outranks them, or a human correction resolves the one     *)
(* conflict.  Without the authority to resolve, it stays a conflict.       *)
WantsToSettle(k, c) ==
    \/ WinsConflict(c, Current(c.slot))
    \/ Human(c) /\ k \in ResolutionAuthority

(* Mutated form of MayReplaceMembers: the per-member policy loop is gone. *)
MayReplaceMembersUnchecked(c) == TRUE

(* A correction overrides protection inside a conflict, automation does not. *)
MayReplaceMembers(c) ==
    Human(c) \/ \A f \in Current(c.slot) : ~Protected(c, f)

-----------------------------------------------------------------------------
(* The rows a transaction writes.                                          *)

(* _fact_writer and _persist_state_candidate: a closed interval is stored  *)
(* as history, with invalid_at already set.                                *)
StateRow(c, g) ==
    [slot |-> c.slot, value |-> c.value, auth |-> c.auth,
     claims |-> c.claims, vf |-> c.vf, vt |-> c.vt,
     invalid |-> c.vt # None, expired |-> FALSE,
     sup |-> None, group |-> g, cites |-> c.cites]

UntypedRow(u, g) ==
    [slot |-> NoSlot, value |-> u.value, auth |-> u.auth,
     claims |-> u.claims, vf |-> None, vt |-> None,
     invalid |-> FALSE, expired |-> FALSE,
     sup |-> None, group |-> g, cites |-> u.cites]

(* Mutated form of Retired: expired_at is not stamped. *)
RetiredStillBelieved(f, by, vt) ==
    [facts[f] EXCEPT !.invalid = TRUE, !.sup = by, !.vt = vt]

Retired(f, by, vt) ==
    [facts[f] EXCEPT !.invalid = TRUE, !.expired = TRUE, !.sup = by, !.vt = vt]

Insert(row) == facts' = [f \in 1..(count + 1) |-> IF f = count + 1 THEN row ELSE facts[f]]

ClosedAt(f, t) == IF facts[f].vt = None THEN t ELSE facts[f].vt

OpenConflict(S) ==
    conflicts' = [c \in 1..(opened + 1) |->
                    IF c = opened + 1
                    THEN [open |-> TRUE, members |-> S, winner |-> None]
                    ELSE conflicts[c]]

Room == count < MaxFacts

-----------------------------------------------------------------------------
(* Typed state writes.                                                     *)

(* No current value, or only intervals that do not overlap: insert. *)
AddState(k, c) ==
    /\ Room /\ MayAssert(k, c) /\ WellCited(c)
    /\ ~Disputed(c.slot) /\ ~HasExact(c) /\ Overlapping(c) = {}
    /\ Insert(StateRow(c, None))
    /\ count' = count + 1
    /\ UNCHANGED <<conflicts, opened>>

(* The oldest overlapping fact loses: it is closed at the candidate's      *)
(* valid_from and linked to it.  _prepare_state_mutation raises unless the *)
(* target is settled.                                                      *)
SupersedeState(k, c) ==
    /\ Room /\ MayAssert(k, c) /\ WellCited(c)
    /\ ~Disputed(c.slot) /\ ~HasExact(c)
    /\ \E old \in Ids :
         /\ Oldest(old, Overlapping(c)) /\ Outranks(c, old)
         /\ ~Protected(c, old)
         /\ Settled(old)
         /\ facts' = [f \in 1..(count + 1) |->
                        IF f = count + 1 THEN StateRow(c, None)
                        ELSE IF f = old THEN Retired(f, count + 1, ClosedAt(f, c.vf))
                        ELSE facts[f]]
    /\ count' = count + 1
    /\ UNCHANGED <<conflicts, opened>>

(* Mutated form of OpenStateConflict: the rows are not marked. *)
OpenStateConflictSilently(k, c) ==
    /\ Room /\ MayAssert(k, c) /\ WellCited(c)
    /\ ~Disputed(c.slot) /\ ~HasExact(c) /\ c.vt = None
    /\ \E old \in Ids :
         /\ Oldest(old, Overlapping(c)) /\ ~Outranks(c, old)
         /\ Settled(old)
         /\ facts' = [f \in 1..(count + 1) |->
                        IF f = count + 1 THEN StateRow(c, None) ELSE facts[f]]
         /\ OpenConflict({old, count + 1})
    /\ count' = count + 1
    /\ opened' = opened + 1

(* No clear winner: open_state_conflict moves the old fact out of settled  *)
(* truth, add_conflict_member attaches the candidate, which must be in     *)
(* force (an open interval).                                               *)
OpenStateConflict(k, c) ==
    /\ Room /\ MayAssert(k, c) /\ WellCited(c)
    /\ ~Disputed(c.slot) /\ ~HasExact(c) /\ c.vt = None
    /\ \E old \in Ids :
         /\ Oldest(old, Overlapping(c)) /\ ~Outranks(c, old)
         /\ Settled(old)
         /\ facts' = [f \in 1..(count + 1) |->
                        IF f = count + 1 THEN StateRow(c, opened + 1)
                        ELSE IF f = old THEN [facts[f] EXCEPT !.group = opened + 1]
                        ELSE facts[f]]
         /\ OpenConflict({old, count + 1})
    /\ count' = count + 1
    /\ opened' = opened + 1

(* The slot is disputed and the candidate neither settles the conflict nor *)
(* repeats a member (an unauthorised settling candidate joins even then).  *)
JoinConflict(k, c) ==
    /\ Room /\ MayAssert(k, c) /\ WellCited(c)
    /\ Disputed(c.slot) /\ c.vt = None
    /\ IF WantsToSettle(k, c) THEN k \notin ResolutionAuthority ELSE ~HasExact(c)
    /\ \E g \in ConflictIds :
         /\ Groups(Current(c.slot)) = {g}
         /\ conflicts[g].open
         /\ Insert(StateRow(c, g))
         /\ conflicts' = [conflicts EXCEPT ![g].members = @ \cup {count + 1}]
    /\ count' = count + 1
    /\ UNCHANGED opened

(* The candidate joins the conflict and resolve_state_conflict elects it.  *)
SettleConflict(k, c) ==
    /\ Room /\ MayAssert(k, c) /\ WellCited(c)
    /\ Disputed(c.slot) /\ c.vt = None
    /\ WantsToSettle(k, c) /\ k \in ResolutionAuthority
    /\ MayReplaceMembers(c)
    /\ \E g \in ConflictIds :
         /\ Groups(Current(c.slot)) = {g}
         /\ conflicts[g].open
         /\ \A f \in conflicts[g].members : facts[f].group = g /\ ~facts[f].invalid
         /\ facts' = [f \in 1..(count + 1) |->
                        IF f = count + 1 THEN StateRow(c, None)
                        ELSE IF f \in conflicts[g].members THEN Retired(f, count + 1, c.vf)
                        ELSE facts[f]]
         /\ conflicts' = [conflicts EXCEPT ![g].open = FALSE,
                                           ![g].members = @ \cup {count + 1},
                                           ![g].winner = count + 1]
    /\ count' = count + 1
    /\ UNCHANGED opened

TypedWrite(k, c) ==
    \/ AddState(k, c)
    \/ SupersedeState(k, c)
    \/ OpenStateConflict(k, c)
    \/ JoinConflict(k, c)
    \/ SettleConflict(k, c)

-----------------------------------------------------------------------------
(* Untyped writes.  Whether two texts contradict or nearly repeat each     *)
(* other is a property of their words and is left open.                    *)

(* Mutated form of Duplicates: history rows count as duplicates. *)
DuplicatesInHistory(u) == {f \in Ids : facts[f].value = u.value}

(* _find_untyped_exact_duplicate: any settled fact, typed ones included *)
Duplicates(u) == {f \in Ids : Settled(f) /\ facts[f].value = u.value}

SettledUntyped == {f \in Ids : Settled(f) /\ facts[f].slot = NoSlot}

AddUntyped(k, u) ==
    /\ Room /\ MayAssert(k, u) /\ WellCited(u)
    /\ u.target = None /\ Duplicates(u) = {}
    /\ Insert(UntypedRow(u, None))
    /\ count' = count + 1
    /\ UNCHANGED <<conflicts, opened>>

(* _open_untyped_write_conflict: the new fact and the settled untyped fact *)
(* it contradicts share a fresh conflict.                                  *)
ContradictUntyped(k, u) ==
    /\ Room /\ MayAssert(k, u) /\ WellCited(u)
    /\ u.target = None /\ Duplicates(u) = {}
    /\ \E old \in SettledUntyped :
         /\ facts' = [f \in 1..(count + 1) |->
                        IF f = count + 1 THEN UntypedRow(u, opened + 1)
                        ELSE IF f = old THEN [facts[f] EXCEPT !.group = opened + 1]
                        ELSE facts[f]]
         /\ OpenConflict({old, count + 1})
    /\ count' = count + 1
    /\ opened' = opened + 1

(* _merge_near_duplicate: one of the two survives.  The newcomer can win   *)
(* only over an unprotected memory that is not typed state; by trust and   *)
(* time it then may or may not.                                            *)
MergeNearDuplicate(k, u) ==
    /\ Room /\ MayAssert(k, u) /\ WellCited(u)
    /\ u.target = None /\ Duplicates(u) = {}
    /\ \E old \in Ids :
         /\ Settled(old)
         /\ \/ /\ facts[old].slot = NoSlot
               /\ facts[old].claims # "confirmed" /\ facts[old].auth <= u.auth
               /\ facts' = [f \in 1..(count + 1) |->
                              IF f = count + 1 THEN UntypedRow(u, None)
                              ELSE IF f = old THEN Retired(f, count + 1, facts[f].vt)
                              ELSE facts[f]]
            \/ Insert([UntypedRow(u, None) EXCEPT
                          !.invalid = TRUE, !.expired = TRUE, !.sup = old])
    /\ count' = count + 1
    /\ UNCHANGED <<conflicts, opened>>

(* The checks on supersede_fact_id made by _supersession_policy and again  *)
(* by _supersede_if_requested.                                             *)
Replaceable(u) ==
    /\ u.target \in Ids
    /\ facts[u.target].slot = NoSlot
    /\ Settled(u.target)
    /\ ~Protected(u, u.target)

(* Explicit supersession by a new fact. *)
ReplaceUntyped(k, u) ==
    /\ Room /\ MayAssert(k, u) /\ WellCited(u)
    /\ Replaceable(u) /\ Duplicates(u) = {}
    /\ facts' = [f \in 1..(count + 1) |->
                   IF f = count + 1 THEN UntypedRow(u, None)
                   ELSE IF f = u.target THEN Retired(f, count + 1, facts[f].vt)
                   ELSE facts[f]]
    /\ count' = count + 1
    /\ UNCHANGED <<conflicts, opened>>

(* Explicit supersession by a text the store already holds: the oldest     *)
(* settled fact with that content becomes the successor.                   *)
ReplaceByDuplicate(k, u) ==
    /\ MayAssert(k, u) /\ Replaceable(u)
    /\ \E old \in Ids :
         /\ Oldest(old, Duplicates(u)) /\ old # u.target
         /\ facts' = [facts EXCEPT ![u.target] = Retired(u.target, old, facts[u.target].vt)]
    /\ UNCHANGED <<count, conflicts, opened>>

UntypedWrite(k, u) ==
    \/ AddUntyped(k, u)
    \/ ContradictUntyped(k, u)
    \/ MergeNearDuplicate(k, u)
    \/ ReplaceUntyped(k, u)

-----------------------------------------------------------------------------
(* Conflict resolution and privacy erasure.                                *)

(* What resolve_state_conflict demands of the members. *)
CanElect(g, w) ==
    /\ w \in conflicts[g].members
    /\ facts[w].group = g /\ InForce(w)
    /\ \A f \in conflicts[g].members : facts[f].group = g /\ ~facts[f].invalid

ResolveConflict(k, g, w) ==
    /\ k \in ResolutionAuthority
    /\ conflicts[g].open /\ CanElect(g, w)
    /\ facts' = [f \in Ids |->
                   IF f = w THEN [facts[f] EXCEPT !.group = None]
                   ELSE IF f \in conflicts[g].members THEN Retired(f, w, facts[w].vf)
                   ELSE facts[f]]
    /\ conflicts' = [conflicts EXCEPT ![g].open = FALSE, ![g].winner = w]
    /\ UNCHANGED <<count, opened>>

Scrubbed(f) ==
    [facts[f] EXCEPT !.value = Erased, !.slot = NoSlot, !.cites = None]

(* Mutated form of ErasedRow: the history link is scrubbed too. *)
ErasedRowUnlinked(f) ==
    [Scrubbed(f) EXCEPT !.invalid = TRUE, !.group = None, !.sup = None]

ErasedRow(f) ==
    [Scrubbed(f) EXCEPT !.invalid = TRUE, !.group = None]

(* Mutated form of AfterErasure: a conflict of one member stays open. *)
AfterErasureStillOpen(c, x) ==
    [conflicts[c] EXCEPT !.members = @ \ {x}]

(* The erased fact leaves its conflicts; one with at most one member left  *)
(* is closed without a winner.                                             *)
AfterErasure(c, x) ==
    LET left == conflicts[c].members \ {x} IN
    IF x \notin conflicts[c].members THEN conflicts[c]
    ELSE IF conflicts[c].open /\ \A f, g \in left : f = g
         THEN [open |-> FALSE, members |-> left, winner |-> None]
         ELSE [conflicts[c] EXCEPT !.members = left]

(* erase_fact: scrub the fact, invalidate the insights citing it. *)
EraseFact(x) ==
    /\ facts' = [f \in Ids |->
                   IF f = x THEN ErasedRow(f)
                   ELSE IF facts[f].cites = x THEN [facts[f] EXCEPT !.invalid = TRUE]
                   ELSE facts[f]]
    /\ conflicts' = [c \in ConflictIds |-> AfterErasure(c, x)]
    /\ UNCHANGED <<count, opened>>

(* All writes but ReplaceByDuplicate insert a row. *)
Next ==
    \/ Room /\ \E k \in Clients, c \in Candidates : TypedWrite(k, c)
    \/ Room /\ \E k \in Clients, u \in Untyped : UntypedWrite(k, u)
    \/ \E k \in Clients, u \in Untyped : ReplaceByDuplicate(k, u)
    \/ \E k \in Clients, g \in ConflictIds, w \in Ids : ResolveConflict(k, g, w)
    \/ \E x \in Ids : EraseFact(x)

Spec == Init /\ [][Next]_vars

-----------------------------------------------------------------------------
(* What the outbox and the searches see of a fact.                         *)

LifeStage(f) ==
    IF f \notin Ids THEN "absent"
    ELSE IF facts[f].value = Erased THEN "erased"
    ELSE IF Settled(f) THEN "settled"
    ELSE IF InForce(f) THEN "disputed"
    ELSE "history"

Life == INSTANCE FactLife WITH fact <- [f \in 1..MaxFacts |-> LifeStage(f)]

-----------------------------------------------------------------------------
(* Properties.                                                             *)

(* The invariant the partial unique index uq_facts_current_state_slot      *)
(* guards: a slot has at most one settled current value.  The index is no  *)
(* part of the actions, so this also says that the decisions alone keep    *)
(* it, and no write ever fails on it.                                      *)
OneSettledValue ==
    \A f, g \in Ids :
        facts[f].slot # NoSlot /\ facts[f].slot = facts[g].slot
          /\ Settled(f) /\ Settled(g) => f = g

(* An open conflict has at least two members, all marked with it and none  *)
(* superseded, typed ones in one slot; one that is no longer in force is   *)
(* an insight whose source was erased.  A conflict resolved to a winner    *)
(* leaves every other member superseded by that winner for good.           *)
ConflictsSound ==
    \A g \in ConflictIds :
        LET M == conflicts[g].members IN
        /\ conflicts[g].open =>
             /\ \E f, h \in M : f # h
             /\ \A f \in M :
                  /\ facts[f].group = g /\ facts[f].sup = None
                  /\ facts[f].invalid => facts[f].cites # None
             /\ \A f, h \in M : facts[f].slot = facts[h].slot
        /\ conflicts[g].winner # None =>
             \A f \in M \ {conflicts[g].winner} : facts[f].sup = conflicts[g].winner

(* As-of reads: two believed facts of one slot that hold at a common       *)
(* instant are members of an open conflict, or one of them was elected in  *)
(* one.  Additions and supersessions alone keep the valid intervals of a   *)
(* slot disjoint.                                                          *)
BelievedIntervalsDisjoint ==
    \A f, h \in Ids :
        /\ f # h /\ facts[f].slot # NoSlot /\ facts[f].slot = facts[h].slot
        /\ {f, h} \subseteq Believed(facts[f].slot)
        /\ facts[f].group = None /\ facts[h].group = None
        /\ Overlaps(facts[f], facts[h])
        => \E g \in ConflictIds : conflicts[g].winner \in {f, h}

(* superseded_by links never form a cycle, so fact_history ends: every     *)
(* non-empty set of facts has one whose successor lies outside it.         *)
NoSupersessionCycle ==
    \A S \in SUBSET Ids : S # {} => \E f \in S : facts[f].sup \notin S

(* Superseded facts are out of force and expired, whatever path (typed,    *)
(* untyped, near-duplicate, resolution) superseded them, and their         *)
(* successor exists.                                                       *)
SupersededIsHistory ==
    \A f \in Ids : facts[f].sup # None =>
        facts[f].invalid /\ facts[f].expired /\ facts[f].sup \in Ids

(* What is superseded is history, and the links from a fact to what came   *)
(* after it end, also when a text returns (X, then Y, then X again).       *)
HistorySound == NoSupersessionCycle /\ SupersededIsHistory

(* A step that loses nothing silently. *)
HistoryStep ==
    \A f \in Ids :
      /\ facts[f].sup # None => facts'[f].sup = facts[f].sup
      /\ InForce(f) /\ facts'[f].invalid =>
           \/ facts'[f].sup # None
           \/ facts'[f].value = Erased
           \/ facts[f].cites # None /\ facts'[facts[f].cites].value = Erased

(* Nothing is lost silently: a fact goes out of force only by being        *)
(* superseded, by privacy erasure, or as an insight on an erased source;   *)
(* and a supersession is never undone or redirected.                       *)
HistoryKept == [][HistoryStep]_vars

(* Every transaction is one of those the outbox and the searches are ready *)
(* for: it settles one fact at most, which is new or elected, takes a      *)
(* whole conflict out of force or leaves it, and brings nothing back that  *)
(* is history or erased.                                                   *)
ImplementsFactLife == Life!LifeSpec

(* A newly written fact replaces another only with the authority to: not   *)
(* a more authoritative one, not a human-confirmed one unless it is itself *)
(* a human correction, and typed state of equal authority only when it is  *)
(* strictly fresher.  The one exception is a human correction that settles *)
(* an open conflict.                                                       *)
TruthReplacement ==
    [][\A f \in Ids :
         facts[f].sup = None /\ facts'[f].sup = count + 1 =>
           LET new == facts'[count + 1] IN
           \/ new.claims # "none" /\ facts[f].group # None
           \/ /\ facts[f].auth <= new.auth
              /\ facts[f].claims = "confirmed" => new.claims # "none"
              /\ facts[f].slot # NoSlot /\ facts[f].auth = new.auth => new.vf > facts[f].vf]_vars

=============================================================================
