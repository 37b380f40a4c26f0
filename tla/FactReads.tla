------------------------------ MODULE FactReads ------------------------------
(***************************************************************************)
(* The read operations over the fact table: plain search, search as of a   *)
(* valid time or a transaction time, the changes of a window, the history  *)
(* of a fact or a slot, and the conflicts operation.  A transaction of     *)
(* FactStore is given the wall-clock stamps its rows carry.  Valid times   *)
(* and transaction times are points of one line, with None = 0.            *)
(*                                                                         *)
(* What a query matches, the access scopes, limits and output budgets      *)
(* narrow every answer and are left out: an answer is what a query that    *)
(* matches every text returns.  No query about a text matches the          *)
(* placeholder that replaced it.                                           *)
(***************************************************************************)
EXTENDS FactStore

CONSTANTS
    Writers,  \* connections that write: the daemon's, its extraction worker's, an operator's
    MaxNow,   \* bound on the clock
    Julian    \* moment -> the millisecond that julianday() makes of it

(* julianday() loses what is below a millisecond, in order. *)
ASSUME FactReadsAssumption ==
    /\ MaxNow \in Nat \ {0}
    /\ Julian \in [1..(MaxNow + 1) -> Nat]
    /\ \A t, u \in 1..(MaxNow + 1) : t <= u => Julian[t] <= Julian[u]

VARIABLES
    now,       \* the clock
    created,   \* fact_id -> created_at
    left,      \* fact_id -> invalid_at, which is also expired_at when that is set
    recorded   \* writer -> recorded_at of the transaction it prepares, or None

readVars == <<facts, count, conflicts, opened, now, created, left, recorded>>

ReadInit ==
    /\ Init
    /\ now = 1
    /\ created = [f \in {} |-> 0]
    /\ left = [f \in {} |-> 0]
    /\ recorded = [w \in Writers |-> None]

(* A writer reads the clock before BEGIN IMMEDIATE lets it in. *)
Prepare(w) ==
    /\ recorded[w] = None
    /\ recorded' = [recorded EXCEPT ![w] = now]
    /\ UNCHANGED <<facts, count, conflicts, opened, now, created, left>>

(* The transaction changes nothing or is rolled back. *)
GiveUp(w) ==
    /\ recorded[w] # None
    /\ recorded' = [recorded EXCEPT ![w] = None]
    /\ UNCHANGED <<facts, count, conflicts, opened, now, created, left>>

(* Mutated form of OutStamp: the successor's valid time is written into    *)
(* the transaction-time columns.                                           *)
OutStampFromSuccessor(w, f, closed) ==
    IF facts'[f].sup = None THEN closed ELSE facts'[facts'[f].sup].vf

(* A closed interval is stamped when it is stored, what a transaction puts *)
(* out of force with the time it was prepared.                             *)
OutStamp(w, f, closed) ==
    IF f > count /\ facts'[f].sup = None THEN closed ELSE recorded[w]

(* Other connections see the rows from the commit on.  insert_fact reads   *)
(* the clock again for created_at once the writer is let in, after those   *)
(* whose facts have lower ids, and a closed interval is stamped after that.*)
Commit(w) ==
    /\ recorded[w] # None
    /\ Next
    /\ \E inserted, closed \in recorded[w]..now :
         /\ inserted <= closed /\ \A f \in Ids : created[f] <= inserted
         /\ created' = [f \in 1..count' |-> IF f <= count THEN created[f] ELSE inserted]
         /\ left' = [f \in 1..count' |->
                       IF f <= count /\ facts[f].invalid THEN left[f]
                       ELSE IF facts'[f].invalid THEN OutStamp(w, f, closed) ELSE None]
    /\ recorded' = [recorded EXCEPT ![w] = None]
    /\ UNCHANGED now

Tick ==
    /\ now < MaxNow
    /\ now' = now + 1
    /\ UNCHANGED <<facts, count, conflicts, opened, created, left, recorded>>

ReadNext ==
    \/ \E w \in Writers : Prepare(w) \/ GiveUp(w) \/ Commit(w)
    \/ Tick

ReadSpec == ReadInit /\ [][ReadNext]_readVars

-----------------------------------------------------------------------------
(* Search.                                                                 *)

Readable(f) == facts[f].value # Erased

(* active_facts, search_fts *)
Active == {f \in Ids : Settled(f) /\ Readable(f)}

(* The end of the valid interval: without a transaction time, a fact that  *)
(* went out of force with an open interval ended then.                     *)
ValidEnd(f, tx) ==
    IF facts[f].vt = None /\ tx = None /\ ~InForce(f) THEN left[f] ELSE facts[f].vt

(* row_matches_as_of, None where a clock is not given *)
MatchesAsOf(f, valid, tx) ==
    /\ valid # None =>
         /\ facts[f].vf <= valid
         /\ ValidEnd(f, tx) # None => ValidEnd(f, tx) > valid
         /\ tx = None => ~facts[f].expired
    /\ tx # None =>
         /\ created[f] <= tx
         /\ facts[f].expired \/ (facts[f].sup # None /\ facts[f].vt = None) => left[f] > tx

(* _search_as_of *)
SearchAsOf(valid, tx) ==
    {f \in Ids : /\ Readable(f)
                 /\ tx = None => facts[f].group = None
                 /\ MatchesAsOf(f, valid, tx)}

-----------------------------------------------------------------------------
(* Changes, history and conflicts.                                         *)

(* Mutated form of Within: the window is closed at its end. *)
WithinBothEnds(t, since, until) == Julian[since] <= Julian[t] /\ Julian[t] <= Julian[until]

(* _event_rows: the ends of a window are compared by julianday(). *)
Within(t, since, until) == Julian[since] <= Julian[t] /\ Julian[t] < Julian[until]

(* The "created" events: withheld while the fact is marked with a conflict.*)
CreatedIn(since, until) ==
    {f \in Ids : facts[f].group = None /\ Within(created[f], since, until)}

(* Mutated form of SupersededIn: every invalidation is reported as one. *)
SupersededInAny(since, until) ==
    {f \in Ids : facts[f].invalid /\ Within(left[f], since, until)}

(* The "superseded" events. *)
SupersededIn(since, until) ==
    {f \in Ids : /\ facts[f].invalid /\ facts[f].sup # None
                 /\ Within(left[f], since, until)}

(* Mutated form of SlotHistory: closed intervals are left out. *)
SlotHistoryOpen(s) == {f \in Ids : facts[f].slot = s /\ facts[f].vt = None}

(* _slot_history *)
SlotHistory(s) == {f \in Ids : facts[f].slot = s}

Linked(f, g) == facts[f].sup = g \/ facts[g].sup = f

(* _fact_history, temporal.fact_history: what links reach in any direction *)
Chain(f) ==
    {g \in Ids : \A S \in SUBSET Ids :
        f \in S /\ (\A a \in S, b \in Ids : Linked(a, b) => b \in S) => g \in S}

(* _history by fact_id: a typed fact is answered with its slot. *)
History(f) == IF facts[f].slot # NoSlot THEN SlotHistory(facts[f].slot) ELSE Chain(f)

(* Mutated form of Listed: a conflict must name a state slot. *)
ListedOfSlots ==
    UNION {conflicts[g].members :
             g \in {c \in ConflictIds : /\ conflicts[c].open
                                        /\ \A f \in conflicts[c].members : facts[f].slot # NoSlot}}

(* list_state_conflicts with unresolved_only, and the members' rows *)
Listed == UNION {conflicts[g].members : g \in {c \in ConflictIds : conflicts[c].open}}

(* entity_dossier.  The subject of a slot is its entity; tags name none. *)
DossierCurrent(e) == {f \in Active : facts[f].slot = e}

(* _entity_conflicts: the whole of every open conflict with a member of e *)
DossierConflicts(e) ==
    UNION {conflicts[g].members :
             g \in {c \in ConflictIds : /\ conflicts[c].open
                                        /\ \E f \in conflicts[c].members : facts[f].slot = e}}

-----------------------------------------------------------------------------
(* Properties.                                                             *)

(* A moment that has passed answers a transaction-time search the same for *)
(* ever, whatever is written, disputed or resolved later.  Only a privacy  *)
(* erasure removes a text from the answer, and only a transaction that had *)
(* read the clock by that moment and waited to be let in or to commit may  *)
(* still add to it or take away from it.                                   *)
AsOfStable ==
    [][\A t \in 1..(now - 1) :
         \/ SearchAsOf(None, t)' = {f \in SearchAsOf(None, t) : facts'[f].value # Erased}
         \/ \E w \in Writers :
              recorded[w] # None /\ recorded[w] <= t /\ recorded'[w] = None]_readVars

(* A moment no earlier one shares the millisecond of. *)
Distinct(t) == \A u \in 1..(t - 1) : Julian[u] < Julian[t]

(* Two read paths agree: what was believed before a window, with what the  *)
(* changes operation reports for the window, is what was believed at its   *)
(* end, if the ends of the window are distinct milliseconds.  Facts a      *)
(* conflict marks are withheld from changes; and a fact that was put out   *)
(* of force by a transaction prepared before it was created (a newcomer    *)
(* that lost to a near duplicate, or one another writer overtook) is       *)
(* stamped superseded before created and believed at no moment.            *)
ChangesBridgeReads ==
    \A since \in 1..now, until \in 1..(now + 1) :
      since < until /\ Distinct(since) /\ Distinct(until) =>
        LET Told == {f \in Ids : /\ Readable(f) /\ facts[f].group = None
                                 /\ facts[f].expired => created[f] <= left[f]}
            Before(t) == IF t = 1 THEN {} ELSE SearchAsOf(None, t - 1)
        IN  Before(until) \cap Told =
              ((Before(since) \cup CreatedIn(since, until))
                  \ SupersededIn(since, until)) \cap Told

(* No fact in force is hidden: plain search answers it or the conflicts    *)
(* operation lists it, and so does the dossier of its entity, unless a     *)
(* privacy erasure closed its conflict and left it marked.                 *)
InForceIsShown ==
    \A f \in Ids : InForce(f) =>
        LET e == facts[f].slot
        IN  \/ /\ f \in Active \cup Listed
               /\ e # NoSlot => f \in DossierCurrent(e) \cup DossierConflicts(e)
            \/ ~conflicts[facts[f].group].open /\ conflicts[facts[f].group].winner = None

(* History does not depend on the fact it is asked of: the typed facts     *)
(* that supersession connects lie in one slot, so asking by slot misses    *)
(* none of them.                                                           *)
ChainStaysInSlot ==
    \A f \in Ids : facts[f].slot # NoSlot =>
        \A g \in Chain(f) : facts[g].slot # NoSlot => g \in History(f)

(* No fact is hidden from the reads that should show it, whatever disputes *)
(* it, replaces it or closes its interval: search, conflicts and dossiers  *)
(* together show all that is in force, and a history is complete.          *)
NoFactHidden == InForceIsShown /\ ChainStaysInSlot

=============================================================================
