----------------------------- MODULE FactProofs -----------------------------
(* Theorems of the fact table for every number of facts, slots, values,   *)
(* clients and every assignment of authority.  First FactStore: what       *)
(* supersession links and settled values keep (IInv), then what conflicts  *)
(* and valid intervals do (TInv).  Then FactReads: the clock and the trees *)
(* of successors (RInv), and FactLife: what a transaction means to the     *)
(* outbox and the searches (LInv).  Last ClusterMerge: deletions and the   *)
(* references they move (MInv).                                            *)
EXTENDS FactReads, ClusterMerge, WellFoundedInduction, TLAPS

(* A row that has ended or expired is out of force; a marked row is a      *)
(* member of the conflict it is marked with.                               *)
RowsSound ==
    \A f \in Ids :
        /\ facts[f].vt # None => facts[f].invalid
        /\ facts[f].expired => facts[f].invalid
        /\ facts[f].group # None =>
             facts[f].group \in ConflictIds /\ f \in conflicts[facts[f].group].members

(* Two facts in force share a slot only as members of one conflict. *)
ShareOnlyInConflict ==
    \A f, g \in Ids :
        /\ f # g /\ facts[f].slot # NoSlot /\ facts[f].slot = facts[g].slot
        /\ InForce(f) /\ InForce(g)
        => facts[f].group = facts[g].group /\ facts[f].group # None

(* No conflict without the fact that opened it. *)
FewerConflictsThanFacts == opened <= count

-----------------------------------------------------------------------------
(* The rows a transaction writes are rows.                                 *)

LEMMA CandidateTypes ==
    ASSUME NEW c \in Candidates
    PROVE  /\ c.slot \in Slots /\ c.slot # NoSlot
           /\ c.value \in Values /\ c.auth \in Nat /\ c.claims \in Claims
           /\ c.vf \in Nat /\ c.vt \in Nat /\ c.cites \in 0..MaxFacts
  <1>1. c \in [slot : Slots, value : Values, auth : Authorities,
               vf : Times \cup {None}, vt : Times \cup {None}, claims : Claims,
               cites : Citations]
    BY DEF Candidates
  <1>2. /\ c.slot \in Slots /\ c.value \in Values /\ c.auth \in Authorities
        /\ c.vf \in Times \cup {None} /\ c.vt \in Times \cup {None}
        /\ c.claims \in Claims /\ c.cites \in Citations
    BY <1>1
  <1>3. c.slot # NoSlot
    BY <1>2, FactStoreAssumption
  <1>4. c.auth \in Nat
    BY <1>2, FactStoreAssumption
  <1>0. \A t \in Times \cup {None} : t \in Nat
    <2>1. Times \subseteq Nat
      BY FactStoreAssumption, Zenon
    <2>2. None \in Nat
      BY DEF None
    <2> QED
      BY <2>1, <2>2
  <1>5. c.vf \in Nat
    BY <1>2, <1>0
  <1>6. c.vt \in Nat
    BY <1>2, <1>0
  <1>7. c.cites \in 0..MaxFacts
    BY <1>2, FactStoreAssumption
  <1> QED
    BY <1>2, <1>3, <1>4, <1>5, <1>6, <1>7

LEMMA UntypedTypes ==
    ASSUME NEW u \in Untyped
    PROVE  /\ u.value \in Texts /\ u.auth \in Nat /\ u.claims \in Claims
           /\ u.target \in 0..MaxFacts /\ u.cites \in 0..MaxFacts
  BY FactStoreAssumption DEF Untyped

LEMMA StateRowType ==
    ASSUME NEW c \in Candidates, NEW g \in 0..MaxFacts
    PROVE  StateRow(c, g) \in Fact
  <1>1. 0 \in 0..MaxFacts /\ (c.vt # None) \in BOOLEAN
    BY FactStoreAssumption
  <1> QED
    BY <1>1, CandidateTypes DEF StateRow, Fact, None

LEMMA UntypedRowType ==
    ASSUME NEW u \in Untyped, NEW g \in 0..MaxFacts
    PROVE  UntypedRow(u, g) \in Fact
  BY FactStoreAssumption, UntypedTypes DEF UntypedRow, Fact, None

LEMMA ScrubbedType ==
    ASSUME TypeOK, NEW f \in Ids
    PROVE  Scrubbed(f) \in Fact
  <1>1. facts[f] \in Fact
    BY DEF TypeOK
  <1>2. \A r \in Fact : [r EXCEPT !.value = Erased] \in Fact
    BY DEF Fact
  <1>3. \A r \in Fact : [r EXCEPT !.slot = NoSlot] \in Fact
    BY DEF Fact
  <1>4. \A r \in Fact : [r EXCEPT !.cites = None] \in Fact
    BY FactStoreAssumption DEF Fact, None
  <1> QED
    BY <1>1, <1>2, <1>3, <1>4 DEF Scrubbed

-----------------------------------------------------------------------------
(* What a transaction does to the rows, field by field.                    *)

(* The row new is fact f superseded by w. *)
RetiredAs(new, f, w) ==
    /\ new \in Fact
    /\ new.slot = facts[f].slot /\ new.group = facts[f].group
    /\ new.invalid /\ new.expired /\ new.sup = w

(* The row new is fact f marked as a member of conflict g, 0 for none. *)
MarkedAs(new, f, g) ==
    /\ new \in Fact
    /\ new.slot = facts[f].slot /\ new.vt = facts[f].vt
    /\ new.invalid = facts[f].invalid /\ new.expired = facts[f].expired
    /\ new.sup = facts[f].sup /\ new.group = g

(* A row nothing has happened to yet. *)
Fresh(row) ==
    /\ row \in Fact /\ ~row.expired /\ row.sup = None
    /\ row.vt # None => row.invalid

(* The transaction inserts row, retires the facts in R in favour of it and *)
(* marks those in M with conflict g.                                       *)
Inserts(row, R, M, g) ==
    /\ Room /\ count' = count + 1
    /\ facts' = [f \in 1..(count + 1) |-> facts'[f]]
    /\ facts'[count + 1] = row
    /\ \A f \in Ids :
         IF f \in R THEN RetiredAs(facts'[f], f, count + 1)
         ELSE IF f \in M THEN MarkedAs(facts'[f], f, g)
         ELSE facts'[f] = facts[f]

(* No conflict disappears and none loses a member. *)
ConflictsGrow ==
    /\ opened' \in 0..MaxFacts
    /\ opened <= opened' /\ opened' <= opened + 1
    /\ conflicts' \in [ConflictIds' -> Conflict]
    /\ \A g \in ConflictIds : conflicts[g].members \subseteq conflicts'[g].members

LEMMA NoneIsNoId == None \in 0..MaxFacts /\ None \in Nat /\ \A i \in 1..MaxFacts : i # None
  BY FactStoreAssumption DEF None

LEMMA StateRowFresh ==
    ASSUME NEW c \in Candidates, NEW g \in 0..MaxFacts
    PROVE  LET row == StateRow(c, g) IN
           Fresh(row) /\ row.slot = c.slot /\ row.vt = c.vt /\ row.group = g
  <1>1. StateRow(c, g) \in Fact
    BY StateRowType
  <1>2. c.vt # None => StateRow(c, g).invalid
    BY DEF StateRow
  <1>3. /\ StateRow(c, g).slot = c.slot /\ StateRow(c, g).vt = c.vt
        /\ StateRow(c, g).group = g /\ StateRow(c, g).sup = None
    BY DEF StateRow
  <1>4. ~StateRow(c, g).expired
    BY DEF StateRow
  <1> QED
    BY <1>1, <1>2, <1>3, <1>4 DEF Fresh

LEMMA UntypedRowFresh ==
    ASSUME NEW u \in Untyped, NEW g \in 0..MaxFacts
    PROVE  LET row == UntypedRow(u, g) IN
           Fresh(row) /\ row.slot = NoSlot /\ row.group = g
  <1>1. UntypedRow(u, g) \in Fact
    BY UntypedRowType
  <1>2. /\ UntypedRow(u, g).slot = NoSlot /\ UntypedRow(u, g).vt = None
        /\ UntypedRow(u, g).group = g /\ UntypedRow(u, g).sup = None
    BY DEF UntypedRow
  <1>3. ~UntypedRow(u, g).expired
    BY DEF UntypedRow
  <1> QED
    BY <1>1, <1>2, <1>3 DEF Fresh

LEMMA RetiredIsRetired ==
    ASSUME TypeOK, NEW f \in Ids, NEW by \in 0..MaxFacts, NEW vt \in Nat
    PROVE  RetiredAs(Retired(f, by, vt), f, by)
  <1>1. facts[f] \in Fact
    BY DEF TypeOK
  <1>2. Retired(f, by, vt) \in Fact
    BY <1>1 DEF Retired, Fact
  <1>3. /\ Retired(f, by, vt).slot = facts[f].slot
        /\ Retired(f, by, vt).group = facts[f].group
        /\ Retired(f, by, vt).sup = by
    BY <1>1 DEF Retired, Fact
  <1>4. Retired(f, by, vt).invalid /\ Retired(f, by, vt).expired
    BY <1>1 DEF Retired, Fact
  <1> QED
    BY <1>2, <1>3, <1>4 DEF RetiredAs

LEMMA MarkedIsMarked ==
    ASSUME TypeOK, NEW f \in Ids, NEW g \in 0..MaxFacts
    PROVE  MarkedAs([facts[f] EXCEPT !.group = g], f, g)
  <1>1. facts[f] \in Fact
    BY DEF TypeOK
  <1> DEFINE m == [facts[f] EXCEPT !.group = g]
  <1>2. m \in Fact
    BY <1>1 DEF Fact
  <1>3. /\ m.slot = facts[f].slot /\ m.vt = facts[f].vt
        /\ m.sup = facts[f].sup /\ m.group = g
    BY <1>1 DEF Fact
  <1>4. m.invalid = facts[f].invalid /\ m.expired = facts[f].expired
    BY <1>1 DEF Fact
  <1> QED
    BY <1>2, <1>3, <1>4 DEF MarkedAs

LEMMA ErasedRowFields ==
    ASSUME TypeOK, NEW f \in Ids
    PROVE  /\ ErasedRow(f) \in Fact
           /\ ErasedRow(f).slot = NoSlot /\ ErasedRow(f).value = Erased
           /\ ErasedRow(f).invalid /\ ErasedRow(f).group = None
           /\ ErasedRow(f).expired = facts[f].expired
           /\ ErasedRow(f).sup = facts[f].sup
  <1>1. Scrubbed(f) \in Fact
    BY ScrubbedType
  <1>2. /\ Scrubbed(f).slot = NoSlot /\ Scrubbed(f).value = Erased
        /\ Scrubbed(f).expired = facts[f].expired /\ Scrubbed(f).sup = facts[f].sup
    BY DEF Scrubbed, TypeOK, Fact
  <1>3. \A r \in Fact : [r EXCEPT !.invalid = TRUE] \in Fact
    BY DEF Fact
  <1>4. \A r \in Fact : [r EXCEPT !.group = None] \in Fact
    BY FactStoreAssumption DEF Fact, None
  <1>5. ErasedRow(f) \in Fact
    BY <1>1, <1>3, <1>4 DEF ErasedRow
  <1>6. ErasedRow(f).invalid
    BY <1>1 DEF ErasedRow, Fact
  <1> QED
    BY <1>1, <1>2, <1>5, <1>6 DEF ErasedRow, Fact

LEMMA ClosedAtType ==
    ASSUME TypeOK, NEW f \in Ids, NEW t \in Nat
    PROVE  ClosedAt(f, t) \in Nat
  BY DEF TypeOK, ClosedAt, Fact

-----------------------------------------------------------------------------
(* The inductive invariant.                                                *)

IInv ==
    /\ TypeOK
    /\ FewerConflictsThanFacts
    /\ RowsSound
    /\ SupersededIsHistory
    /\ ShareOnlyInConflict
    /\ NoSupersessionCycle

(* Supersession links stay acyclic when every link that is added points to *)
(* one fact w that has no successor itself.                                *)
LEMMA LinksToOneFact ==
    ASSUME NoSupersessionCycle, NEW w,
           Ids' \subseteq Ids \cup {w},
           \A f \in Ids' : IF f = w THEN facts'[f].sup \notin Ids'
                           ELSE facts'[f].sup \in {facts[f].sup, w}
    PROVE  NoSupersessionCycle'
  <1> SUFFICES ASSUME NEW S \in SUBSET Ids', S # {}
               PROVE  \E f \in S : facts'[f].sup \notin S
    BY DEF NoSupersessionCycle
  <1>1. CASE w \in S
    BY <1>1
  <1>2. CASE w \notin S
    <2>1. PICK f \in S : facts[f].sup \notin S
      BY <1>2 DEF NoSupersessionCycle
    <2> QED
      BY <1>2, <2>1
  <1> QED
    BY <1>1, <1>2

(* A transaction that inserts a row grows the table by one row. *)
LEMMA Growth ==
    ASSUME TypeOK, Room, count' = count + 1
    PROVE  /\ count + 1 \in 1..MaxFacts /\ count + 1 \in 0..MaxFacts
           /\ count' \in 0..MaxFacts
           /\ Ids' = 1..(count + 1) /\ Ids' = Ids \cup {count + 1}
           /\ count + 1 \notin Ids /\ count + 1 # None
           /\ None \notin Ids'
  BY FactStoreAssumption DEF TypeOK, Room, Ids, None

(* The inductive step of every transaction that inserts a row: what is     *)
(* left to show of one is what it does to the rows, to the conflicts and   *)
(* to the facts in force in the slot it writes.                            *)
LEMMA InsertKeeps ==
    ASSUME IInv, NEW row, NEW R, NEW M, NEW g, Inserts(row, R, M, g),
           Fresh(row), ConflictsGrow,
           R \cap M = {}, \A f \in Ids : f \in R => facts[f].sup = None,
           \* the marks are backed by members
           row.group # None =>
             row.group \in ConflictIds' /\ count + 1 \in conflicts'[row.group].members,
           M # {} => g \in ConflictIds' /\ M \subseteq conflicts'[g].members,
           \* facts that stay in force in the slot of a marked fact are marked
           \A f \in M, h \in Ids :
             facts[f].slot # NoSlot /\ facts[h].slot = facts[f].slot /\ InForce(h)
               => h \in M \cup R,
           M # {} => g # None,
           \* and those in the slot of the new fact share its conflict
           \A f \in Ids \ R :
             row.slot # NoSlot /\ facts[f].slot = row.slot /\ InForce(f) /\ ~row.invalid
               => row.group # None
                    /\ row.group = IF f \in M THEN g ELSE facts[f].group
    PROVE  IInv' /\ HistoryStep
  <1>0. PICK n \in Nat : n = count + 1
    BY DEF IInv, TypeOK
  <1>1. /\ TypeOK /\ FewerConflictsThanFacts /\ RowsSound /\ SupersededIsHistory
        /\ ShareOnlyInConflict /\ NoSupersessionCycle
    BY DEF IInv
  <1>2. /\ Room /\ count' = n /\ facts' = [f \in 1..n |-> facts'[f]] /\ facts'[n] = row
    BY <1>0 DEF Inserts
  <1>3. /\ count' \in 0..MaxFacts /\ Ids' = 1..n /\ Ids' = Ids \cup {n}
        /\ n \notin Ids /\ n # None /\ None \notin Ids'
    BY <1>0, <1>1, <1>2, Growth
  <1>4. \A f \in Ids : f \in R => RetiredAs(facts'[f], f, n)
    BY <1>0 DEF Inserts
  <1>5. \A f \in Ids : f \in M => MarkedAs(facts'[f], f, g)
    BY <1>0 DEF Inserts
  <1>6. \A f \in Ids : f \notin R /\ f \notin M => facts'[f] = facts[f]
    BY <1>0 DEF Inserts
  <1>7. TypeOK'
    <2>1. \A f \in Ids' : facts'[f] \in Fact
      BY <1>1, <1>2, <1>3, <1>4, <1>5, <1>6 DEF TypeOK, RetiredAs, MarkedAs, Fresh
    <2>2. facts' \in [Ids' -> Fact]
      BY <1>2, <1>3, <2>1
    <2> QED
      BY <1>3, <2>2 DEF TypeOK, ConflictsGrow
  <1>8. FewerConflictsThanFacts'
    BY <1>0, <1>1, <1>2 DEF FewerConflictsThanFacts, TypeOK, ConflictsGrow
  <1>9. \A c \in ConflictIds : c \in ConflictIds'
    BY <1>1 DEF ConflictIds, ConflictsGrow, TypeOK
  <1>10. RowsSound'
    <2> SUFFICES ASSUME NEW f \in Ids'
                 PROVE  /\ facts'[f].vt # None => facts'[f].invalid
                        /\ facts'[f].expired => facts'[f].invalid
                        /\ facts'[f].group # None =>
                             /\ facts'[f].group \in ConflictIds'
                             /\ f \in conflicts'[facts'[f].group].members
      BY DEF RowsSound
    <2>1. CASE f = n
      BY <1>0, <1>2, <2>1 DEF Fresh
    <2>2. CASE f \in R /\ f # n
      BY <1>1, <1>3, <1>4, <1>9, <2>2 DEF RowsSound, RetiredAs, ConflictsGrow
    <2>3. CASE f \in M /\ f # n
      BY <1>1, <1>3, <1>5, <2>3 DEF RowsSound, MarkedAs
    <2>4. CASE f \notin R /\ f \notin M /\ f # n
      BY <1>1, <1>3, <1>6, <1>9, <2>4 DEF RowsSound, ConflictsGrow
    <2> QED
      BY <2>1, <2>2, <2>3, <2>4
  <1>11. SupersededIsHistory'
    BY <1>1, <1>2, <1>3, <1>4, <1>5, <1>6
       DEF SupersededIsHistory, Fresh, RetiredAs, MarkedAs
  <1>12. ShareOnlyInConflict'
    <2>1. \A f \in Ids : f \in R => ~InForce(f)'
      BY <1>4 DEF InForce, RetiredAs
    <2>2. \A f \in Ids : f \notin R => InForce(f)' = InForce(f)
      BY <1>5, <1>6 DEF InForce, MarkedAs
    <2>3. \A f \in Ids : facts'[f].slot = facts[f].slot
      BY <1>4, <1>5, <1>6 DEF RetiredAs, MarkedAs
    <2>4. \A f \in Ids \ R : facts'[f].group = IF f \in M THEN g ELSE facts[f].group
      BY <1>5, <1>6 DEF MarkedAs
    <2>5. InForce(n)' => ~row.invalid
      BY <1>2 DEF InForce
    <2> SUFFICES ASSUME NEW f \in Ids', NEW h \in Ids', f # h,
                        facts'[f].slot # NoSlot, facts'[f].slot = facts'[h].slot,
                        InForce(f)', InForce(h)'
                 PROVE  facts'[f].group = facts'[h].group /\ facts'[f].group # None
      BY DEF ShareOnlyInConflict
    <2>6. CASE f = n
      BY <1>2, <1>3, <2>1, <2>2, <2>3, <2>4, <2>5, <2>6
    <2>7. CASE h = n
      BY <1>2, <1>3, <2>1, <2>2, <2>3, <2>4, <2>5, <2>7
    <2>8. CASE f # n /\ h # n
      <3>1. /\ f \in Ids \ R /\ h \in Ids \ R /\ InForce(f) /\ InForce(h)
            /\ facts[f].slot # NoSlot /\ facts[f].slot = facts[h].slot
        BY <1>3, <2>1, <2>2, <2>3, <2>8
      <3>2. f \in M <=> h \in M
        BY <3>1
      <3> QED
        BY <1>1, <2>4, <3>1, <3>2 DEF ShareOnlyInConflict
    <2> QED
      BY <2>6, <2>7, <2>8
  <1>13. NoSupersessionCycle'
    <2>1. \A f \in Ids' : IF f = n THEN facts'[f].sup \notin Ids'
                          ELSE facts'[f].sup \in {facts[f].sup, n}
      BY <1>2, <1>3, <1>4, <1>5, <1>6 DEF Fresh, RetiredAs, MarkedAs
    <2> QED
      BY <1>1, <1>3, <2>1, LinksToOneFact
  <1>14. HistoryStep
    BY <1>3, <1>4, <1>5, <1>6 DEF HistoryStep, RetiredAs, MarkedAs, InForce
  <1> QED
    BY <1>7, <1>8, <1>10, <1>11, <1>12, <1>13, <1>14 DEF IInv

-----------------------------------------------------------------------------
(* Typed writes.                                                           *)

LEMMA SameConflicts ==
    ASSUME TypeOK, UNCHANGED <<conflicts, opened>>
    PROVE  ConflictsGrow /\ ConflictIds' = ConflictIds
  BY DEF TypeOK, ConflictsGrow, ConflictIds

(* A new conflict among facts S of the grown table. *)
LEMMA NewConflict ==
    ASSUME IInv, Room, NEW S \in SUBSET (1..(count + 1)),
           OpenConflict(S), opened' = opened + 1
    PROVE  /\ ConflictsGrow
           /\ opened + 1 \in ConflictIds' /\ opened + 1 \in 1..MaxFacts
           /\ conflicts'[opened + 1].members = S
  <1>1. TypeOK /\ opened <= count
    BY DEF IInv, FewerConflictsThanFacts
  <1>2. /\ opened \in Nat /\ count \in Nat /\ opened + 1 \in 1..MaxFacts
        /\ ConflictIds' = 1..(opened + 1) /\ opened + 1 \notin ConflictIds
        /\ 1..(count + 1) \subseteq 1..MaxFacts /\ ConflictIds = 1..opened
        /\ \A g \in ConflictIds' : g # opened + 1 => g \in ConflictIds
    BY <1>1, FactStoreAssumption DEF TypeOK, Room, ConflictIds
  <1> DEFINE C == [open |-> TRUE, members |-> S, winner |-> None]
  <1>3. C \in Conflict
    BY <1>2, NoneIsNoId DEF Conflict
  <1>4. conflicts' = [g \in 1..(opened + 1) |-> IF g = opened + 1 THEN C ELSE conflicts[g]]
    BY DEF OpenConflict
  <1>5. C.members = S
    OBVIOUS
  <1> HIDE DEF C
  <1>6. conflicts' \in [ConflictIds' -> Conflict]
    BY <1>1, <1>2, <1>3, <1>4 DEF TypeOK
  <1>7. \A g \in ConflictIds : conflicts'[g] = conflicts[g]
    BY <1>2, <1>4
  <1>8. conflicts'[opened + 1].members = S
    BY <1>2, <1>4, <1>5
  <1> QED
    BY <1>2, <1>6, <1>7, <1>8 DEF ConflictsGrow

(* A fact in force with an open end overlaps every candidate for its slot  *)
(* whose end is open too.                                                  *)
LEMMA InForceOverlaps ==
    ASSUME RowsSound, NEW c, c.vt = None, NEW f \in Ids,
           facts[f].slot = c.slot, InForce(f)
    PROVE  f \in Overlapping(c) /\ f \in Current(c.slot)
  <1>1. facts[f].vt = None /\ ~facts[f].invalid /\ ~facts[f].expired
    BY DEF RowsSound, InForce
  <1>2. f \in Believed(c.slot) /\ Overlaps(facts[f], c)
    BY <1>1 DEF Believed, Overlaps
  <1> QED
    BY <1>1, <1>2 DEF Overlapping, Current

LEMMA AddStateKeeps ==
    ASSUME IInv, NEW k \in Clients, NEW c \in Candidates, AddState(k, c)
    PROVE  IInv' /\ HistoryStep
  <1> DEFINE row == StateRow(c, None)
  <1>1. /\ Room /\ count' = count + 1 /\ UNCHANGED <<conflicts, opened>>
        /\ Overlapping(c) = {}
        /\ facts' = [f \in 1..(count + 1) |-> IF f = count + 1 THEN row ELSE facts[f]]
    BY DEF AddState, Insert
  <1>2. TypeOK /\ RowsSound
    BY DEF IInv
  <1>3. Fresh(row) /\ row.slot = c.slot /\ row.vt = c.vt /\ row.group = None
    BY StateRowFresh, NoneIsNoId
  <1> HIDE DEF row
  <1>4. Inserts(row, {}, {}, None)
    BY <1>1, <1>2, Growth DEF Inserts
  <1>5. \A f \in Ids : facts[f].slot = c.slot /\ InForce(f) => row.invalid
    BY <1>1, <1>2, <1>3, InForceOverlaps DEF Fresh
  <1>6. ConflictsGrow
    BY <1>1, <1>2, SameConflicts
  <1> QED
    BY <1>3, <1>4, <1>5, <1>6, InsertKeeps

LEMMA SupersedeStateKeeps ==
    ASSUME IInv, NEW k \in Clients, NEW c \in Candidates, SupersedeState(k, c)
    PROVE  IInv' /\ HistoryStep
  <1> DEFINE row == StateRow(c, None)
  <1>1. PICK old \in Ids :
          /\ old \in Overlapping(c) /\ Settled(old)
          /\ facts' = [f \in 1..(count + 1) |->
                         IF f = count + 1 THEN row
                         ELSE IF f = old THEN Retired(f, count + 1, ClosedAt(f, c.vf))
                         ELSE facts[f]]
    BY DEF SupersedeState, Oldest
  <1>2. Room /\ count' = count + 1 /\ UNCHANGED <<conflicts, opened>>
    BY DEF SupersedeState
  <1>3. TypeOK /\ ShareOnlyInConflict
    BY DEF IInv
  <1>4. Fresh(row) /\ row.slot = c.slot /\ row.group = None
    BY StateRowFresh, NoneIsNoId
  <1> HIDE DEF row
  <1>5. Inserts(row, {old}, {}, None)
    <2>1. ClosedAt(old, c.vf) \in Nat
      BY <1>1, <1>3, CandidateTypes, ClosedAtType
    <2>2. RetiredAs(Retired(old, count + 1, ClosedAt(old, c.vf)), old, count + 1)
      BY <1>1, <1>2, <1>3, <2>1, Growth, RetiredIsRetired
    <2> QED
      BY <1>1, <1>2, <1>3, <2>2, Growth DEF Inserts
  <1>6. \A f \in Ids \ {old} : facts[f].slot = c.slot => ~InForce(f)
    BY <1>1, <1>3, CandidateTypes
       DEF ShareOnlyInConflict, Settled, Overlapping, Believed
  <1>7. ConflictsGrow
    BY <1>2, <1>3, SameConflicts
  <1>8. facts[old].sup = None
    BY <1>1 DEF Settled, InForce
  <1> QED
    BY <1>4, <1>5, <1>6, <1>7, <1>8, InsertKeeps

LEMMA OpenStateConflictKeeps ==
    ASSUME IInv, NEW k \in Clients, NEW c \in Candidates, OpenStateConflict(k, c)
    PROVE  IInv' /\ HistoryStep
  <1> DEFINE g == opened + 1
  <1> DEFINE row == StateRow(c, g)
  <1>1. PICK old \in Ids :
          /\ old \in Overlapping(c) /\ Settled(old)
          /\ facts' = [f \in 1..(count + 1) |->
                         IF f = count + 1 THEN row
                         ELSE IF f = old THEN [facts[f] EXCEPT !.group = g]
                         ELSE facts[f]]
          /\ OpenConflict({old, count + 1})
    BY DEF OpenStateConflict, Oldest
  <1>2. Room /\ count' = count + 1 /\ opened' = opened + 1
    BY DEF OpenStateConflict
  <1>3. TypeOK /\ ShareOnlyInConflict
    BY DEF IInv
  <1>4. {old, count + 1} \in SUBSET (1..(count + 1))
    BY <1>1, <1>3 DEF TypeOK, Ids
  <1>5. /\ ConflictsGrow /\ g \in ConflictIds' /\ g \in 1..MaxFacts
        /\ conflicts'[g].members = {old, count + 1}
    BY <1>1, <1>2, <1>4, NewConflict
  <1>6. g \in 0..MaxFacts /\ g # None
    BY <1>5, NoneIsNoId
  <1>7. Fresh(row) /\ row.slot = c.slot /\ row.group = g
    BY <1>6, StateRowFresh
  <1> HIDE DEF row, g
  <1>8. Inserts(row, {}, {old}, g)
    <2>1. MarkedAs([facts[old] EXCEPT !.group = g], old, g)
      BY <1>1, <1>3, <1>6, MarkedIsMarked
    <2> QED
      BY <1>1, <1>2, <1>3, <2>1, Growth DEF Inserts
  <1>9. /\ facts[old].slot = c.slot
        /\ \A f \in Ids : f # old /\ facts[f].slot = c.slot => ~InForce(f)
    BY <1>1, <1>3, CandidateTypes
       DEF ShareOnlyInConflict, Settled, Overlapping, Believed
  <1> QED
    BY <1>5, <1>6, <1>7, <1>8, <1>9, InsertKeeps

(* All facts in force in a disputed slot are members of the one conflict.  *)
LEMMA DisputedSlot ==
    ASSUME IInv, NEW c \in Candidates, c.vt = None,
           NEW g \in ConflictIds, Groups(Current(c.slot)) = {g},
           NEW f \in Ids, facts[f].slot = c.slot, InForce(f)
    PROVE  facts[f].group = g /\ f \in conflicts[g].members
  <1>1. RowsSound /\ ShareOnlyInConflict
    BY DEF IInv
  <1>2. g # None
    BY DEF Groups
  <1>3. PICK h \in Current(c.slot) : facts[h].group = g
    BY DEF Groups
  <1>4. h \in Ids /\ facts[h].slot = c.slot /\ InForce(h)
    BY <1>3 DEF Current
  <1>5. facts[f].group = g
    BY <1>1, <1>3, <1>4, CandidateTypes DEF ShareOnlyInConflict
  <1> QED
    BY <1>1, <1>2, <1>5 DEF RowsSound

LEMMA JoinConflictKeeps ==
    ASSUME IInv, NEW k \in Clients, NEW c \in Candidates, JoinConflict(k, c)
    PROVE  IInv' /\ HistoryStep
  <1>1. PICK g \in ConflictIds :
          /\ Groups(Current(c.slot)) = {g}
          /\ facts' = [f \in 1..(count + 1) |->
                         IF f = count + 1 THEN StateRow(c, g) ELSE facts[f]]
          /\ conflicts' = [conflicts EXCEPT ![g].members = @ \cup {count + 1}]
    BY DEF JoinConflict, Insert
  <1> DEFINE row == StateRow(c, g)
  <1>2. Room /\ count' = count + 1 /\ opened' = opened /\ c.vt = None
    BY DEF JoinConflict
  <1>3. TypeOK
    BY DEF IInv
  <1>4. g \in 0..MaxFacts /\ g # None /\ ConflictIds' = ConflictIds
    BY <1>2, <1>3, FactStoreAssumption DEF TypeOK, ConflictIds, None
  <1>5. Fresh(row) /\ row.slot = c.slot /\ row.group = g
    BY <1>4, StateRowFresh
  <1>6. facts' = [f \in 1..(count + 1) |-> IF f = count + 1 THEN row ELSE facts[f]]
    BY <1>1
  <1> HIDE DEF row
  <1>7. Inserts(row, {}, {}, None)
    BY <1>2, <1>3, <1>6, Growth DEF Inserts
  <1>8. conflicts'[g].members = conflicts[g].members \cup {count + 1}
    BY <1>1, <1>3 DEF TypeOK, Conflict
  <1>9. ConflictsGrow
    <2>1. count + 1 \in 1..MaxFacts
      BY <1>2, <1>3, Growth
    <2>2. conflicts' \in [ConflictIds' -> Conflict]
      BY <1>1, <1>3, <1>4, <2>1 DEF TypeOK, Conflict
    <2>3. \A h \in ConflictIds : h # g => conflicts'[h] = conflicts[h]
      BY <1>1, <1>3 DEF TypeOK
    <2> QED
      BY <1>2, <1>3, <1>8, <2>2, <2>3 DEF ConflictsGrow, TypeOK
  <1>10. \A f \in Ids : facts[f].slot = c.slot /\ InForce(f) => facts[f].group = g
    BY <1>1, <1>2, DisputedSlot
  <1> QED
    BY <1>1, <1>4, <1>5, <1>7, <1>8, <1>9, <1>10, InsertKeeps

LEMMA SettleConflictKeeps ==
    ASSUME IInv, NEW k \in Clients, NEW c \in Candidates, SettleConflict(k, c)
    PROVE  IInv' /\ HistoryStep
  <1> DEFINE row == StateRow(c, None)
  <1>1. PICK g \in ConflictIds :
          /\ \A f \in conflicts[g].members : ~facts[f].invalid
          /\ Groups(Current(c.slot)) = {g}
          /\ facts' = [f \in 1..(count + 1) |->
                         IF f = count + 1 THEN row
                         ELSE IF f \in conflicts[g].members THEN Retired(f, count + 1, c.vf)
                         ELSE facts[f]]
          /\ conflicts' = [conflicts EXCEPT ![g].open = FALSE,
                                            ![g].members = @ \cup {count + 1},
                                            ![g].winner = count + 1]
    BY DEF SettleConflict
  <1>2. Room /\ count' = count + 1 /\ opened' = opened /\ c.vt = None
    BY DEF SettleConflict
  <1>3. TypeOK
    BY DEF IInv
  <1>4. Fresh(row) /\ row.slot = c.slot /\ row.group = None
    BY StateRowFresh, NoneIsNoId
  <1> HIDE DEF row
  <1> DEFINE R == conflicts[g].members
  <1>5. Inserts(row, R, {}, None)
    <2>1. \A f \in Ids : RetiredAs(Retired(f, count + 1, c.vf), f, count + 1)
      BY <1>2, <1>3, CandidateTypes, Growth, RetiredIsRetired
    <2> QED
      BY <1>1, <1>2, <1>3, <2>1, Growth DEF Inserts
  <1>6. ConflictsGrow
    <2>1. count + 1 \in 1..MaxFacts /\ count + 1 \in 0..MaxFacts
      BY <1>2, <1>3, Growth
    <2>2. ConflictIds' = ConflictIds
      BY <1>2 DEF ConflictIds
    <2> DEFINE C == [conflicts[g] EXCEPT !.open = FALSE,
                                         !.members = @ \cup {count + 1},
                                         !.winner = count + 1]
    <2>3. conflicts[g] \in Conflict
      BY <1>3 DEF TypeOK
    <2>4. C \in Conflict /\ C.members = conflicts[g].members \cup {count + 1}
      BY <2>1, <2>3 DEF Conflict
    <2>5. conflicts' = [conflicts EXCEPT ![g] = C]
      BY <1>1, <1>3 DEF TypeOK
    <2> HIDE DEF C
    <2>6. conflicts' \in [ConflictIds' -> Conflict]
      BY <1>3, <2>2, <2>4, <2>5 DEF TypeOK
    <2>7. \A h \in ConflictIds : conflicts[h].members \subseteq conflicts'[h].members
      BY <1>3, <2>4, <2>5 DEF TypeOK
    <2> QED
      BY <1>2, <1>3, <2>6, <2>7 DEF ConflictsGrow, TypeOK
  <1>7. \A f \in Ids \ R : facts[f].slot = c.slot => ~InForce(f)
    BY <1>1, <1>2, DisputedSlot
  <1>8. \A f \in Ids : f \in R => facts[f].sup = None
    BY <1>1 DEF IInv, SupersededIsHistory
  <1> QED
    BY <1>4, <1>5, <1>6, <1>7, <1>8, InsertKeeps

LEMMA TypedWriteKeeps ==
    ASSUME IInv, NEW k \in Clients, NEW c \in Candidates, TypedWrite(k, c)
    PROVE  IInv' /\ HistoryStep
  BY AddStateKeeps, SupersedeStateKeeps, OpenStateConflictKeeps, JoinConflictKeeps,
     SettleConflictKeeps DEF TypedWrite

-----------------------------------------------------------------------------
(* Untyped writes.                                                         *)

LEMMA AddUntypedKeeps ==
    ASSUME IInv, NEW k \in Clients, NEW u \in Untyped, AddUntyped(k, u)
    PROVE  IInv' /\ HistoryStep
  <1> DEFINE row == UntypedRow(u, None)
  <1>1. /\ Room /\ count' = count + 1 /\ UNCHANGED <<conflicts, opened>>
        /\ facts' = [f \in 1..(count + 1) |-> IF f = count + 1 THEN row ELSE facts[f]]
    BY DEF AddUntyped, Insert
  <1>2. TypeOK
    BY DEF IInv
  <1>3. Fresh(row) /\ row.slot = NoSlot /\ row.group = None
    BY UntypedRowFresh, NoneIsNoId
  <1> HIDE DEF row
  <1>4. Inserts(row, {}, {}, None)
    BY <1>1, <1>2, Growth DEF Inserts
  <1>5. ConflictsGrow
    BY <1>1, <1>2, SameConflicts
  <1> QED
    BY <1>3, <1>4, <1>5, InsertKeeps

LEMMA ContradictUntypedKeeps ==
    ASSUME IInv, NEW k \in Clients, NEW u \in Untyped, ContradictUntyped(k, u)
    PROVE  IInv' /\ HistoryStep
  <1> DEFINE g == opened + 1
  <1> DEFINE row == UntypedRow(u, g)
  <1>1. PICK old \in SettledUntyped :
          /\ facts' = [f \in 1..(count + 1) |->
                         IF f = count + 1 THEN row
                         ELSE IF f = old THEN [facts[f] EXCEPT !.group = g]
                         ELSE facts[f]]
          /\ OpenConflict({old, count + 1})
    BY DEF ContradictUntyped
  <1>2. old \in Ids /\ facts[old].slot = NoSlot
    BY <1>1 DEF SettledUntyped
  <1>3. Room /\ count' = count + 1 /\ opened' = opened + 1
    BY DEF ContradictUntyped
  <1>4. TypeOK
    BY DEF IInv
  <1>5. {old, count + 1} \in SUBSET (1..(count + 1))
    BY <1>2, <1>4 DEF TypeOK, Ids
  <1>6. /\ ConflictsGrow /\ g \in ConflictIds' /\ g \in 1..MaxFacts
        /\ conflicts'[g].members = {old, count + 1}
    BY <1>1, <1>3, <1>5, NewConflict
  <1>7. g \in 0..MaxFacts /\ g # None
    BY <1>6, NoneIsNoId
  <1>8. Fresh(row) /\ row.slot = NoSlot /\ row.group = g
    BY <1>7, UntypedRowFresh
  <1> HIDE DEF row, g
  <1>9. Inserts(row, {}, {old}, g)
    <2>1. MarkedAs([facts[old] EXCEPT !.group = g], old, g)
      BY <1>2, <1>4, <1>7, MarkedIsMarked
    <2> QED
      BY <1>1, <1>2, <1>3, <1>4, <2>1, Growth DEF Inserts
  <1> QED
    BY <1>2, <1>6, <1>7, <1>8, <1>9, InsertKeeps

(* An untyped fact replaced by the new one. *)
LEMMA ReplacementKeeps ==
    ASSUME IInv, NEW u \in Untyped, NEW old \in Ids, Settled(old), Room, count' = count + 1,
           UNCHANGED <<conflicts, opened>>,
           facts' = [f \in 1..(count + 1) |->
                       IF f = count + 1 THEN UntypedRow(u, None)
                       ELSE IF f = old THEN Retired(f, count + 1, facts[f].vt)
                       ELSE facts[f]]
    PROVE  IInv' /\ HistoryStep
  <1> DEFINE row == UntypedRow(u, None)
  <1>1. TypeOK
    BY DEF IInv
  <1>2. Fresh(row) /\ row.slot = NoSlot /\ row.group = None
    BY UntypedRowFresh, NoneIsNoId
  <1> HIDE DEF row
  <1>3. Inserts(row, {old}, {}, None)
    <2>1. facts[old].vt \in Nat
      BY <1>1 DEF TypeOK, Fact
    <2>2. RetiredAs(Retired(old, count + 1, facts[old].vt), old, count + 1)
      BY <1>1, <2>1, Growth, RetiredIsRetired
    <2> QED
      BY <1>1, <2>2, Growth DEF Inserts, row
  <1>4. ConflictsGrow
    BY <1>1, SameConflicts
  <1>5. facts[old].sup = None
    BY DEF Settled, InForce
  <1> QED
    BY <1>2, <1>3, <1>4, <1>5, InsertKeeps

LEMMA ReplaceUntypedKeeps ==
    ASSUME IInv, NEW k \in Clients, NEW u \in Untyped, ReplaceUntyped(k, u)
    PROVE  IInv' /\ HistoryStep
  BY ReplacementKeeps DEF ReplaceUntyped, Replaceable

(* The newcomer merged into an older near-duplicate: it is history at once. *)
LEMMA MergedAwayKeeps ==
    ASSUME IInv, NEW u \in Untyped, NEW old \in Ids, Settled(old),
           Room, count' = count + 1, UNCHANGED <<conflicts, opened>>,
           Insert([UntypedRow(u, None) EXCEPT
                      !.invalid = TRUE, !.expired = TRUE, !.sup = old])
    PROVE  IInv' /\ HistoryStep
  <1>0. PICK n \in Nat : n = count + 1
    BY DEF IInv, TypeOK
  <1> DEFINE row == [UntypedRow(u, None) EXCEPT
                        !.invalid = TRUE, !.expired = TRUE, !.sup = old]
  <1>1. /\ TypeOK /\ FewerConflictsThanFacts /\ RowsSound /\ SupersededIsHistory
        /\ ShareOnlyInConflict /\ NoSupersessionCycle
    BY DEF IInv
  <1>2. /\ count' \in 0..MaxFacts /\ Ids' = 1..n /\ Ids' = Ids \cup {n}
        /\ n \notin Ids /\ n # None /\ None \notin Ids'
    BY <1>0, <1>1, Growth
  <1>3. old \in 0..MaxFacts
    BY <1>1, FactStoreAssumption DEF TypeOK, Ids
  <1>4. /\ row \in Fact /\ row.invalid /\ row.expired
        /\ row.sup = old /\ row.group = None
    <2>1. UntypedRow(u, None) \in Fact /\ UntypedRow(u, None).group = None
      BY UntypedRowFresh, NoneIsNoId DEF Fresh
    <2>2. row \in Fact
      BY <1>3, <2>1 DEF Fact
    <2>3. row.sup = old /\ row.group = None
      BY <2>1 DEF Fact
    <2>4. row.invalid /\ row.expired
      BY <2>1 DEF Fact
    <2> QED
      BY <2>2, <2>3, <2>4
  <1>5. facts' = [f \in 1..n |-> IF f = n THEN row ELSE facts[f]]
    BY <1>0 DEF Insert
  <1> HIDE DEF row
  <1>6. facts'[n] = row /\ \A f \in Ids : facts'[f] = facts[f]
    BY <1>2, <1>5
  <1>7. TypeOK'
    <2>1. \A f \in Ids' : facts'[f] \in Fact
      BY <1>1, <1>2, <1>4, <1>6 DEF TypeOK
    <2>2. facts' \in [Ids' -> Fact]
      BY <1>2, <1>5, <2>1
    <2> QED
      BY <1>1, <1>2, <2>2 DEF TypeOK, ConflictIds
  <1>8. FewerConflictsThanFacts'
    BY <1>1 DEF FewerConflictsThanFacts, TypeOK
  <1>9. RowsSound'
    BY <1>1, <1>2, <1>4, <1>6 DEF RowsSound, ConflictIds
  <1>10. SupersededIsHistory'
    BY <1>1, <1>2, <1>4, <1>6 DEF SupersededIsHistory
  <1>11. ShareOnlyInConflict'
    <2>1. ~InForce(n)' /\ \A f \in Ids : InForce(f)' = InForce(f)
      BY <1>4, <1>6 DEF InForce
    <2> QED
      BY <1>1, <1>2, <1>6, <2>1 DEF ShareOnlyInConflict
  <1>12. NoSupersessionCycle'
    <2> SUFFICES ASSUME NEW S \in SUBSET Ids', S # {}
                 PROVE  \E f \in S : facts'[f].sup \notin S
      BY DEF NoSupersessionCycle
    <2>1. CASE S = {n}
      BY <1>2, <1>4, <1>6, <2>1
    <2>2. CASE S # {n}
      <3>1. S \ {n} \in SUBSET Ids /\ S \ {n} # {}
        BY <1>2, <2>2
      <3>2. PICK f \in S \ {n} : facts[f].sup \notin S \ {n}
        BY <1>1, <3>1 DEF NoSupersessionCycle
      <3>3. facts[f].sup # n
        BY <1>1, <1>2, <3>1, <3>2 DEF SupersededIsHistory
      <3> QED
        BY <1>6, <3>1, <3>2, <3>3
    <2> QED
      BY <2>1, <2>2
  <1>13. HistoryStep
    BY <1>6 DEF HistoryStep, InForce
  <1> QED
    BY <1>7, <1>8, <1>9, <1>10, <1>11, <1>12, <1>13 DEF IInv

LEMMA MergeNearDuplicateKeeps ==
    ASSUME IInv, NEW k \in Clients, NEW u \in Untyped, MergeNearDuplicate(k, u)
    PROVE  IInv' /\ HistoryStep
  <1>1. Room /\ count' = count + 1 /\ UNCHANGED <<conflicts, opened>>
    BY DEF MergeNearDuplicate
  <1>2. PICK old \in Ids :
          /\ Settled(old)
          /\ \/ facts' = [f \in 1..(count + 1) |->
                            IF f = count + 1 THEN UntypedRow(u, None)
                            ELSE IF f = old THEN Retired(f, count + 1, facts[f].vt)
                            ELSE facts[f]]
             \/ Insert([UntypedRow(u, None) EXCEPT
                           !.invalid = TRUE, !.expired = TRUE, !.sup = old])
    BY DEF MergeNearDuplicate
  <1> QED
    BY <1>1, <1>2, ReplacementKeeps, MergedAwayKeeps

(* Facts R are superseded by w, a fact in force outside R, which leaves    *)
(* its conflict; no fact is inserted.                                      *)
LEMMA RetireInPlaceKeeps ==
    ASSUME IInv, NEW w \in Ids, InForce(w), NEW R, w \notin R,
           \A f \in Ids : f \in R => facts[f].sup = None,
           NEW g \in 0..MaxFacts,
           facts' \in [Ids -> Fact], UNCHANGED <<count, opened>>,
           \A f \in Ids : IF f = w THEN MarkedAs(facts'[f], f, g)
                          ELSE IF f \in R THEN RetiredAs(facts'[f], f, w)
                          ELSE facts'[f] = facts[f],
           conflicts' \in [ConflictIds -> Conflict],
           \A c \in ConflictIds : conflicts'[c].members = conflicts[c].members,
           g \in {None, facts[w].group},
           \* a fact elected out of its conflict is left alone in its slot
           g # facts[w].group =>
             \A f \in Ids : f # w /\ facts[f].slot = facts[w].slot /\ InForce(f)
                              /\ facts[w].slot # NoSlot => f \in R
    PROVE  IInv' /\ HistoryStep
  <1>1. /\ TypeOK /\ FewerConflictsThanFacts /\ RowsSound /\ SupersededIsHistory
        /\ ShareOnlyInConflict /\ NoSupersessionCycle
    BY DEF IInv
  <1>2. Ids' = Ids /\ ConflictIds' = ConflictIds /\ None \notin Ids
    BY <1>1 DEF Ids, ConflictIds, None, TypeOK
  <1>3. MarkedAs(facts'[w], w, g)
    OBVIOUS
  <1>4. \A f \in Ids : f # w /\ f \in R => RetiredAs(facts'[f], f, w)
    OBVIOUS
  <1>5. \A f \in Ids : f # w /\ f \notin R => facts'[f] = facts[f]
    OBVIOUS
  <1>6. TypeOK'
    BY <1>1, <1>2 DEF TypeOK
  <1>7. FewerConflictsThanFacts'
    BY <1>1 DEF FewerConflictsThanFacts
  <1>8. RowsSound'
    <2> SUFFICES ASSUME NEW f \in Ids
                 PROVE  /\ facts'[f].vt # None => facts'[f].invalid
                        /\ facts'[f].expired => facts'[f].invalid
                        /\ facts'[f].group # None =>
                             /\ facts'[f].group \in ConflictIds
                             /\ f \in conflicts'[facts'[f].group].members
      BY <1>2 DEF RowsSound
    <2>1. CASE f = w
      BY <1>1, <1>3, <2>1 DEF RowsSound, MarkedAs
    <2>2. CASE f # w /\ f \in R
      BY <1>1, <1>4, <2>2 DEF RowsSound, RetiredAs
    <2>3. CASE f # w /\ f \notin R
      BY <1>1, <1>5, <2>3 DEF RowsSound
    <2> QED
      BY <2>1, <2>2, <2>3
  <1>9. SupersededIsHistory'
    BY <1>1, <1>2, <1>3, <1>4, <1>5 DEF SupersededIsHistory, MarkedAs, RetiredAs, InForce
  <1>10. ShareOnlyInConflict'
    <2>1. \A f \in Ids : facts'[f].slot = facts[f].slot
      BY <1>3, <1>4, <1>5 DEF MarkedAs, RetiredAs
    <2>2. \A f \in Ids : InForce(f)' => InForce(f) /\ (f = w \/ f \notin R)
      BY <1>3, <1>4, <1>5 DEF MarkedAs, RetiredAs, InForce
    <2>3. \A f \in Ids : f # w => facts'[f].group = facts[f].group
      BY <1>4, <1>5 DEF RetiredAs
    <2>4. facts'[w].group = g
      BY <1>3 DEF MarkedAs
    <2> SUFFICES ASSUME NEW f \in Ids, NEW h \in Ids, f # h,
                        facts[f].slot # NoSlot, facts[f].slot = facts[h].slot,
                        InForce(f)', InForce(h)'
                 PROVE  facts'[f].group = facts'[h].group /\ facts'[f].group # None
      BY <1>2, <2>1 DEF ShareOnlyInConflict
    <2>5. InForce(f) /\ InForce(h) /\ facts[f].group = facts[h].group /\ facts[f].group # None
      BY <1>1, <2>2 DEF ShareOnlyInConflict
    <2>6. f = w \/ h = w => g = facts[w].group
      BY <2>2, <2>5
    <2> QED
      BY <2>3, <2>4, <2>5, <2>6
  <1>11. NoSupersessionCycle'
    <2>1. \A f \in Ids' : IF f = w THEN facts'[f].sup \notin Ids'
                          ELSE facts'[f].sup \in {facts[f].sup, w}
      BY <1>2, <1>3, <1>4, <1>5 DEF MarkedAs, RetiredAs, InForce
    <2> QED
      BY <1>1, <1>2, <2>1, LinksToOneFact
  <1>12. HistoryStep
    BY <1>2, <1>3, <1>4, <1>5 DEF HistoryStep, RetiredAs, MarkedAs, InForce
  <1> QED
    BY <1>6, <1>7, <1>8, <1>9, <1>10, <1>11, <1>12 DEF IInv

LEMMA ReplaceByDuplicateKeeps ==
    ASSUME IInv, NEW k \in Clients, NEW u \in Untyped, ReplaceByDuplicate(k, u)
    PROVE  IInv' /\ HistoryStep
  <1> DEFINE x == u.target
  <1> DEFINE R == {x}
  <1>1. PICK old \in Ids :
          /\ Settled(old) /\ old # x
          /\ facts' = [facts EXCEPT ![x] = Retired(x, old, facts[x].vt)]
    BY DEF ReplaceByDuplicate, Oldest, Duplicates
  <1>2. x \in Ids /\ UNCHANGED <<count, conflicts, opened>>
    BY DEF ReplaceByDuplicate, Replaceable
  <1>3. TypeOK
    BY DEF IInv
  <1>4. facts[x].vt \in Nat /\ old \in 0..MaxFacts
    BY <1>2, <1>3, FactStoreAssumption DEF TypeOK, Fact, Ids
  <1>5. RetiredAs(Retired(x, old, facts[x].vt), x, old)
    BY <1>2, <1>3, <1>4, RetiredIsRetired
  <1>6. facts[old].group = None /\ facts[old] \in Fact /\ InForce(old)
    BY <1>1, <1>3 DEF Settled, TypeOK
  <1>7. MarkedAs(facts[old], old, None)
    BY <1>6 DEF MarkedAs
  <1>8. facts' \in [Ids -> Fact]
    BY <1>1, <1>2, <1>3, <1>5 DEF TypeOK, RetiredAs
  <1>9. \A f \in Ids : IF f = old THEN MarkedAs(facts'[f], f, None)
                       ELSE IF f \in R THEN RetiredAs(facts'[f], f, old)
                       ELSE facts'[f] = facts[f]
    BY <1>1, <1>2, <1>3, <1>5, <1>7 DEF TypeOK
  <1>10. conflicts' \in [ConflictIds -> Conflict]
    BY <1>2, <1>3 DEF TypeOK
  <1>11. \A c \in ConflictIds : conflicts'[c].members = conflicts[c].members
    BY <1>2
  <1>12. old \in Ids /\ old \notin R /\ None \in {None, facts[old].group}
    BY <1>1
  <1>13. \A f \in Ids : f \in R => facts[f].sup = None
    BY DEF ReplaceByDuplicate, Replaceable, Settled, InForce
  <1>14. InForce(old) /\ facts[old].group = None /\ UNCHANGED <<count, opened>>
    BY <1>2, <1>6
  <1> HIDE DEF x, R
  <1> QED
    BY <1>13, <1>14, <1>8, <1>9, <1>10, <1>11, <1>12, NoneIsNoId, RetireInPlaceKeeps

LEMMA UntypedWriteKeeps ==
    ASSUME IInv, NEW k \in Clients, NEW u \in Untyped, UntypedWrite(k, u)
    PROVE  IInv' /\ HistoryStep
  BY AddUntypedKeeps, ContradictUntypedKeeps, MergeNearDuplicateKeeps,
     ReplaceUntypedKeeps DEF UntypedWrite

-----------------------------------------------------------------------------
(* Resolution and erasure.                                                 *)

LEMMA ResolveConflictKeeps ==
    ASSUME IInv, NEW k \in Clients, NEW g \in ConflictIds, NEW w \in Ids,
           ResolveConflict(k, g, w)
    PROVE  IInv' /\ HistoryStep
  <1> DEFINE R == conflicts[g].members \ {w}
  <1>1. /\ TypeOK /\ RowsSound /\ ShareOnlyInConflict
    BY DEF IInv
  <1>2. /\ facts[w].group = g /\ InForce(w)
        /\ UNCHANGED <<count, opened>>
        /\ facts' = [f \in Ids |->
                       IF f = w THEN [facts[f] EXCEPT !.group = None]
                       ELSE IF f \in conflicts[g].members THEN Retired(f, w, facts[w].vf)
                       ELSE facts[f]]
        /\ conflicts' = [conflicts EXCEPT ![g].open = FALSE, ![g].winner = w]
    BY DEF ResolveConflict, CanElect
  <1>3. g # None /\ w \in 0..MaxFacts /\ facts[w].vf \in Nat
    BY <1>1, FactStoreAssumption DEF TypeOK, ConflictIds, Ids, None, Fact
  <1>4. MarkedAs([facts[w] EXCEPT !.group = None], w, None)
    BY <1>1, NoneIsNoId, MarkedIsMarked
  <1>5. \A f \in Ids : RetiredAs(Retired(f, w, facts[w].vf), f, w)
    BY <1>1, <1>3, RetiredIsRetired
  <1>6. \A f \in Ids : IF f = w THEN MarkedAs(facts'[f], f, None)
                       ELSE IF f \in R THEN RetiredAs(facts'[f], f, w)
                       ELSE facts'[f] = facts[f]
    BY <1>2, <1>4, <1>5
  <1>7. facts' \in [Ids -> Fact]
    <2>1. \A f \in Ids : facts'[f] \in Fact
      BY <1>1, <1>6 DEF TypeOK, MarkedAs, RetiredAs
    <2> QED
      BY <1>2, <2>1
  <1>8. /\ conflicts' \in [ConflictIds -> Conflict]
        /\ \A c \in ConflictIds : conflicts'[c].members = conflicts[c].members
    <2>1. \A C \in Conflict : /\ [C EXCEPT !.open = FALSE, !.winner = w] \in Conflict
                              /\ [C EXCEPT !.open = FALSE, !.winner = w].members = C.members
      BY <1>3 DEF Conflict
    <2>2. conflicts \in [ConflictIds -> Conflict] /\ conflicts[g] \in Conflict
      BY <1>1 DEF TypeOK
    <2>3. conflicts' = [conflicts EXCEPT ![g] = [@ EXCEPT !.open = FALSE, !.winner = w]]
      BY <1>2, <2>2
    <2> QED
      BY <2>1, <2>2, <2>3
  <1>9. \A f \in Ids : f # w /\ facts[f].slot = facts[w].slot /\ InForce(f)
                         /\ facts[w].slot # NoSlot => f \in R
    BY <1>1, <1>2, <1>3 DEF ShareOnlyInConflict, RowsSound
  <1>10. w \notin R /\ None \in {None, facts[w].group}
    OBVIOUS
  <1>11. InForce(w) /\ UNCHANGED <<count, opened>>
    BY <1>2
  <1>12. \A f \in Ids : f \in R => facts[f].sup = None
    BY DEF ResolveConflict, CanElect, IInv, SupersededIsHistory
  <1> HIDE DEF R
  <1> QED
    BY <1>11, <1>12, <1>6, <1>7, <1>8, <1>9, <1>10, NoneIsNoId, RetireInPlaceKeeps

LEMMA EraseFactKeeps ==
    ASSUME IInv, NEW x \in Ids, EraseFact(x)
    PROVE  IInv' /\ HistoryStep
  <1>1. /\ TypeOK /\ FewerConflictsThanFacts /\ RowsSound /\ SupersededIsHistory
        /\ ShareOnlyInConflict /\ NoSupersessionCycle
    BY DEF IInv
  <1>2. UNCHANGED <<count, opened>>
    BY DEF EraseFact
  <1>3. Ids' = Ids /\ ConflictIds' = ConflictIds
    BY <1>2 DEF Ids, ConflictIds
  <1>4. /\ facts'[x] \in Fact /\ facts'[x].slot = NoSlot
        /\ facts'[x].invalid /\ facts'[x].group = None
        /\ facts'[x].expired = facts[x].expired /\ facts'[x].sup = facts[x].sup
    <2>1. facts'[x] = ErasedRow(x)
      BY DEF EraseFact
    <2> QED
      BY <1>1, <2>1, ErasedRowFields
  <1>5. \A f \in Ids : f # x =>
          /\ facts'[f] \in Fact
          /\ facts'[f].slot = facts[f].slot /\ facts'[f].vt = facts[f].vt
          /\ facts'[f].group = facts[f].group /\ facts'[f].sup = facts[f].sup
          /\ facts'[f].expired = facts[f].expired
          /\ facts[f].invalid => facts'[f].invalid
    <2> SUFFICES ASSUME NEW f \in Ids, f # x
                 PROVE  /\ facts'[f] \in Fact
                        /\ facts'[f].slot = facts[f].slot /\ facts'[f].vt = facts[f].vt
                        /\ facts'[f].group = facts[f].group
                        /\ facts'[f].sup = facts[f].sup
                        /\ facts'[f].expired = facts[f].expired
                        /\ facts[f].invalid => facts'[f].invalid
      OBVIOUS
    <2>1. facts[f] \in Fact
      BY <1>1 DEF TypeOK
    <2>2. CASE facts[f].cites = x
      <3>1. facts'[f] = [facts[f] EXCEPT !.invalid = TRUE]
        BY <2>2 DEF EraseFact
      <3> QED
        BY <2>1, <3>1 DEF Fact
    <2>3. CASE facts[f].cites # x
      BY <2>1, <2>3 DEF EraseFact
    <2> QED
      BY <2>2, <2>3
  <1>6. conflicts' = [c \in ConflictIds |-> AfterErasure(c, x)]
    BY DEF EraseFact
  <1>7. \A c \in ConflictIds :
          /\ AfterErasure(c, x) \in Conflict
          /\ AfterErasure(c, x).members = conflicts[c].members \ {x}
    <2> SUFFICES ASSUME NEW c \in ConflictIds
                 PROVE  /\ AfterErasure(c, x) \in Conflict
                        /\ AfterErasure(c, x).members = conflicts[c].members \ {x}
      OBVIOUS
    <2>1. conflicts[c] \in Conflict
      BY <1>1 DEF TypeOK
    <2> QED
      BY <2>1, NoneIsNoId DEF AfterErasure, Conflict
  <1>8. TypeOK'
    <2>1. facts' \in [Ids -> Fact]
      <3>1. DOMAIN facts' = Ids /\ facts' = [f \in Ids |-> facts'[f]]
        BY DEF EraseFact
      <3> QED
        BY <1>4, <1>5, <3>1
    <2>2. conflicts' \in [ConflictIds -> Conflict]
      BY <1>6, <1>7
    <2> QED
      BY <1>1, <1>2, <1>3, <2>1, <2>2 DEF TypeOK
  <1>9. FewerConflictsThanFacts'
    BY <1>1, <1>2 DEF FewerConflictsThanFacts
  <1>10. RowsSound'
    <2>1. \A c \in ConflictIds : conflicts'[c].members = conflicts[c].members \ {x}
      BY <1>6, <1>7
    <2> QED
      BY <1>1, <1>3, <1>4, <1>5, <2>1 DEF RowsSound
  <1>11. SupersededIsHistory'
    BY <1>1, <1>3, <1>4, <1>5 DEF SupersededIsHistory
  <1>12. ShareOnlyInConflict'
    <2>1. \A f \in Ids : InForce(f)' => InForce(f) /\ f # x
      BY <1>4, <1>5 DEF InForce
    <2> QED
      BY <1>1, <1>3, <1>5, <2>1 DEF ShareOnlyInConflict
  <1>13. NoSupersessionCycle'
    <2>1. \A f \in Ids : facts'[f].sup = facts[f].sup
      BY <1>4, <1>5
    <2> QED
      BY <1>1, <1>3, <2>1 DEF NoSupersessionCycle
  <1>14. HistoryStep
    <2> SUFFICES ASSUME NEW f \in Ids
                 PROVE  /\ facts[f].sup # None => facts'[f].sup = facts[f].sup
                        /\ InForce(f) /\ facts'[f].invalid =>
                             \/ facts'[f].sup # None
                             \/ facts'[f].value = Erased
                             \/ /\ facts[f].cites # None
                                /\ facts'[facts[f].cites].value = Erased
      BY DEF HistoryStep
    <2>1. facts'[x].value = Erased
      BY <1>1, ErasedRowFields DEF EraseFact
    <2>2. CASE f = x
      BY <1>4, <2>1, <2>2
    <2>3. CASE f # x /\ facts[f].cites = x
      BY <1>1, <1>5, <2>1, <2>3 DEF TypeOK, Ids, None
    <2>4. CASE f # x /\ facts[f].cites # x
      BY <2>4 DEF EraseFact, InForce
    <2> QED
      BY <2>2, <2>3, <2>4
  <1> QED
    BY <1>8, <1>9, <1>10, <1>11, <1>12, <1>13, <1>14 DEF IInv

-----------------------------------------------------------------------------
(* The invariant and its consequences.                                     *)

LEMMA InitIInv == Init => IInv
  <1> SUFFICES ASSUME Init PROVE IInv
    OBVIOUS
  <1>1. Ids = {} /\ ConflictIds = {}
    BY DEF Init, Ids, ConflictIds
  <1>2. TypeOK
    BY <1>1, FactStoreAssumption DEF Init, TypeOK
  <1>3. FewerConflictsThanFacts
    BY DEF Init, FewerConflictsThanFacts
  <1> QED
    BY <1>1, <1>2, <1>3 DEF IInv, RowsSound, SupersededIsHistory, ShareOnlyInConflict,
       NoSupersessionCycle

LEMMA NextKeeps ==
    ASSUME IInv, Next
    PROVE  IInv' /\ HistoryStep
  BY TypedWriteKeeps, UntypedWriteKeeps, ReplaceByDuplicateKeeps, ResolveConflictKeeps,
     EraseFactKeeps DEF Next

LEMMA StepsKeep == IInv /\ [Next]_vars => IInv'
  <1>1. ASSUME IInv, UNCHANGED vars PROVE IInv'
    BY <1>1 DEF IInv, vars, TypeOK, FewerConflictsThanFacts, RowsSound,
       SupersededIsHistory, ShareOnlyInConflict, NoSupersessionCycle, Ids, ConflictIds,
       InForce
  <1> QED
    BY <1>1, NextKeeps

(* The invariant that carries the theorems below. *)
THEOREM FactStoreInvariant == Spec => []IInv
  BY InitIInv, StepsKeep, PTL DEF Spec

(* Every reachable table is well typed: links, groups and citations name   *)
(* rows within the bound, whatever the clients write.                      *)
THEOREM FactStoreTypes == Spec => []TypeOK
  <1>1. IInv => TypeOK
    BY DEF IInv
  <1> QED
    BY <1>1, FactStoreInvariant, PTL

(* decide_state_write and resolve_state_conflict alone keep a slot at one  *)
(* settled value, without the unique index over facts.                     *)
THEOREM SettledValueUnique == Spec => []OneSettledValue
  <1>1. IInv => OneSettledValue
    BY DEF IInv, ShareOnlyInConflict, OneSettledValue, Settled
  <1> QED
    BY <1>1, FactStoreInvariant, PTL

(* A superseded row is out of force, expired and linked to a row there is, *)
(* and fact_history's walk along superseded_by ends on every table the     *)
(* writes, resolutions and erasures can produce.                           *)
THEOREM HistoryEnds == Spec => []HistorySound
  <1>1. IInv => HistorySound
    BY DEF IInv, HistorySound
  <1> QED
    BY <1>1, FactStoreInvariant, PTL

(* No write, resolution or erasure takes a fact out of force silently, or  *)
(* redirects the link of one that is already superseded.                   *)
THEOREM NothingLostSilently == Spec => HistoryKept
  <1>1. IInv /\ [Next]_vars => [HistoryStep]_vars
    BY NextKeeps
  <1> QED
    BY <1>1, FactStoreInvariant, PTL DEF Spec, HistoryKept

-----------------------------------------------------------------------------
(* What the records of conflicts say of the rows, the valid intervals of a *)
(* slot, and what may replace what.                                        *)

(* A record names rows there are, and has no winner while it is open; the  *)
(* members of an open one have no end of their own.                        *)
RecordsFit ==
    \A g \in ConflictIds :
        /\ conflicts[g].members \subseteq Ids
        /\ conflicts[g].winner \in Ids \cup {None}
        /\ conflicts[g].open => conflicts[g].winner = None
        /\ conflicts[g].open => \A f \in conflicts[g].members : facts[f].vt = None

(* An elected fact was open-ended, and stays so until it is superseded. *)
WinnersOpenEnded ==
    \A g \in ConflictIds : conflicts[g].winner # None =>
        \/ facts[conflicts[g].winner].vt = None
        \/ facts[conflicts[g].winner].expired

Elected(f) == \E g \in ConflictIds : conflicts[g].winner = f

Holds(f) == ~facts[f].expired /\ (~facts[f].invalid \/ facts[f].vt # None)

(* A fact that overlaps an earlier one of its slot, be that one settled or *)
(* a member of a conflict in force, came to be settled by an election.     *)
LaterIsElected ==
    \A f, h \in Ids :
        /\ f < h /\ facts[f].slot # NoSlot /\ facts[f].slot = facts[h].slot
        /\ Holds(f) /\ (facts[f].group = None \/ InForce(f))
        /\ Holds(h) /\ facts[h].group = None
        /\ Overlaps(facts[f], facts[h])
        => Elected(h)

TInv == IInv /\ RecordsFit /\ WinnersOpenEnded /\ ConflictsSound /\ LaterIsElected

-----------------------------------------------------------------------------
(* Steps that touch no record of a conflict, and no member of an open one. *)

LEMMA SameIds == UNCHANGED opened => ConflictIds' = ConflictIds
  BY DEF ConflictIds

LEMMA RecordIds ==
    ASSUME TypeOK
    PROVE  None \notin ConflictIds /\ None \notin Ids
  BY DEF TypeOK, ConflictIds, Ids, None

LEMMA QuietRecords ==
    ASSUME TInv, UNCHANGED <<conflicts, opened>>, Ids \subseteq Ids',
           \A f \in Ids : \/ facts'[f] = facts[f]
                          \/ facts[f].group = None /\ facts[f].sup = None /\ facts'[f].expired
    PROVE  RecordsFit' /\ WinnersOpenEnded' /\ ConflictsSound'
  <1> USE DEF TInv
  <1>1. ConflictIds' = ConflictIds /\ None \notin ConflictIds
    BY SameIds, RecordIds DEF IInv
  <1>2. \A g \in ConflictIds : conflicts[g].members \subseteq Ids
    BY DEF RecordsFit
  <1>3. \A g \in ConflictIds : conflicts[g].open =>
          \A f \in conflicts[g].members : facts'[f] = facts[f]
    BY <1>1, <1>2 DEF ConflictsSound
  <1>4. RecordsFit'
    BY <1>1, <1>2, <1>3 DEF RecordsFit
  <1>5. WinnersOpenEnded'
    BY <1>1 DEF WinnersOpenEnded, RecordsFit
  <1>6. ConflictsSound'
    <2> SUFFICES ASSUME NEW g \in ConflictIds
                 PROVE  LET M == conflicts[g].members IN
                        /\ conflicts[g].open =>
                             /\ \E f, h \in M : f # h
                             /\ \A f \in M :
                                  /\ facts'[f].group = g /\ facts'[f].sup = None
                                  /\ facts'[f].invalid => facts'[f].cites # None
                             /\ \A f, h \in M : facts'[f].slot = facts'[h].slot
                        /\ conflicts[g].winner # None =>
                             \A f \in M \ {conflicts[g].winner} : facts'[f].sup = conflicts[g].winner
      BY <1>1 DEF ConflictsSound
    <2>1. CASE conflicts[g].open
      BY <1>3, <2>1 DEF ConflictsSound, RecordsFit
    <2>2. CASE ~conflicts[g].open
      BY <1>2, <2>2 DEF ConflictsSound
    <2> QED
      BY <2>1, <2>2
  <1> QED
    BY <1>4, <1>5, <1>6

-----------------------------------------------------------------------------
(* What a step may do to a row and leave the intervals of a slot alone.    *)

Stays(f) ==
    /\ facts'[f].slot = facts[f].slot
    /\ facts'[f].vf = facts[f].vf /\ facts'[f].vt = facts[f].vt
    /\ facts'[f].expired = facts[f].expired /\ facts'[f].sup = facts[f].sup
    /\ facts[f].invalid => facts'[f].invalid

RowEvolves(f) ==
    \/ facts'[f] = facts[f]
    \/ facts'[f].expired \/ facts'[f].slot = NoSlot
    \/ Stays(f) /\ facts'[f].group = facts[f].group
    \/ Stays(f) /\ InForce(f) /\ (facts'[f].group # None \/ Elected(f)')

LEMMA RowBefore ==
    ASSUME NEW f \in Ids, RowEvolves(f), Holds(f)', facts'[f].slot # NoSlot
    PROVE  /\ facts'[f].slot = facts[f].slot
           /\ facts'[f].vf = facts[f].vf /\ facts'[f].vt = facts[f].vt
           /\ Holds(f)
           /\ facts'[f].group = None \/ InForce(f)' => facts[f].group = None \/ InForce(f)
           /\ facts'[f].group = None => facts[f].group = None \/ Elected(f)'
  <1>1. ~facts'[f].expired /\ (~facts'[f].invalid \/ facts'[f].vt # None)
    BY DEF Holds
  <1>2. CASE facts'[f] = facts[f]
    BY <1>1, <1>2 DEF Holds, InForce
  <1>3. CASE Stays(f) /\ facts'[f].group = facts[f].group
    BY <1>1, <1>3 DEF Stays, Holds, InForce
  <1>4. CASE Stays(f) /\ InForce(f) /\ (facts'[f].group # None \/ Elected(f)')
    BY <1>1, <1>4 DEF Stays, Holds, InForce
  <1> QED
    BY <1>1, <1>2, <1>3, <1>4 DEF RowEvolves

(* The new row n is beside the typed state, disputed, history or elected,  *)
(* or overlaps nothing that counts.                                        *)
NewRowFits(n) ==
    \/ facts'[n].slot = NoSlot \/ facts'[n].group # None \/ facts'[n].expired
    \/ \E g \in ConflictIds' : conflicts'[g].winner = n
    \/ \A f \in Ids :
         /\ facts'[f].slot = facts'[n].slot /\ facts'[f].slot # NoSlot /\ Holds(f)'
         /\ facts'[f].group = None \/ InForce(f)'
         => ~Overlaps(facts'[f], facts'[n])

LEMMA LaterKeeps ==
    ASSUME LaterIsElected, NEW n, Ids' \subseteq Ids \cup {n}, \A f \in Ids : ~(n < f), ~(n < n),
           \A f \in Ids : RowEvolves(f), \A f \in Ids : Elected(f) => Elected(f)',
           n \in Ids' => NewRowFits(n)
    PROVE  LaterIsElected'
  <1> SUFFICES ASSUME NEW f \in Ids', NEW h \in Ids', f < h,
                      facts'[f].slot # NoSlot, facts'[f].slot = facts'[h].slot,
                      Holds(f)', facts'[f].group = None \/ InForce(f)',
                      Holds(h)', facts'[h].group = None,
                      Overlaps(facts'[f], facts'[h])
               PROVE  Elected(h)'
    BY DEF LaterIsElected
  <1>1. f \in Ids /\ f # n
    OBVIOUS
  <1>2. CASE h = n
    <2>1. ~facts'[n].expired
      BY <1>2 DEF Holds
    <2> QED
      BY <1>1, <1>2, <2>1 DEF NewRowFits, Elected
  <1>3. CASE h # n
    <2>1. h \in Ids
      BY <1>3
    <2>2. /\ facts'[f].slot = facts[f].slot
          /\ facts'[f].vf = facts[f].vf /\ facts'[f].vt = facts[f].vt
          /\ Holds(f) /\ (facts[f].group = None \/ InForce(f))
      BY <1>1, RowBefore
    <2>3. /\ facts'[h].slot = facts[h].slot
          /\ facts'[h].vf = facts[h].vf /\ facts'[h].vt = facts[h].vt
          /\ Holds(h) /\ (facts[h].group = None \/ Elected(h)')
      BY <2>1, RowBefore
    <2>4. Overlaps(facts[f], facts[h])
      BY <2>2, <2>3 DEF Overlaps
    <2> QED
      BY <1>1, <2>1, <2>2, <2>3, <2>4 DEF LaterIsElected
  <1> QED
    BY <1>2, <1>3

(* The last id is later than every other.                                  *)
LEMMA LastId ==
    ASSUME TypeOK
    PROVE  /\ \A f \in Ids : ~(count + 1 < f) /\ f # count + 1
           /\ ~(count + 1 < count + 1) /\ count + 1 \notin Ids
  BY DEF TypeOK, Ids

LEMMA SameElected ==
    ASSUME UNCHANGED <<conflicts, opened>>
    PROVE  \A f : Elected(f)' <=> Elected(f)
  BY DEF Elected, ConflictIds

LEMMA RetiredFields ==
    ASSUME TypeOK, NEW f \in Ids, NEW by, NEW vt
    PROVE  /\ Retired(f, by, vt).expired /\ Retired(f, by, vt).invalid
           /\ Retired(f, by, vt).sup = by /\ Retired(f, by, vt).vt = vt
           /\ Retired(f, by, vt).slot = facts[f].slot
  <1>1. facts[f] \in Fact
    BY DEF TypeOK
  <1> QED
    BY <1>1 DEF Retired, Fact

LEMMA StateRowFields ==
    ASSUME NEW c, NEW g
    PROVE  /\ StateRow(c, g).slot = c.slot /\ StateRow(c, g).vf = c.vf /\ StateRow(c, g).vt = c.vt
           /\ StateRow(c, g).auth = c.auth /\ StateRow(c, g).claims = c.claims
           /\ StateRow(c, g).group = g /\ StateRow(c, g).sup = None
           /\ c.vt = None => ~StateRow(c, g).invalid
  <1>1. (c.vt # None) \in BOOLEAN
    OBVIOUS
  <1>2. StateRow(c, g).invalid = (c.vt # None)
    BY DEF StateRow
  <1> QED
    BY <1>2 DEF StateRow

LEMMA UntypedRowFields ==
    ASSUME NEW u, NEW g
    PROVE  /\ UntypedRow(u, g).slot = NoSlot /\ UntypedRow(u, g).vt = None
           /\ UntypedRow(u, g).auth = u.auth /\ UntypedRow(u, g).claims = u.claims
           /\ UntypedRow(u, g).group = g /\ UntypedRow(u, g).sup = None
           /\ ~UntypedRow(u, g).invalid
  BY DEF UntypedRow

-----------------------------------------------------------------------------
(* Typed writes.                                                           *)

TruthKept == RecordsFit' /\ WinnersOpenEnded' /\ ConflictsSound' /\ LaterIsElected'

LEMMA AddStateTruth ==
    ASSUME TInv, NEW k \in Clients, NEW c \in Candidates, AddState(k, c)
    PROVE  TruthKept
  <1> DEFINE n == count + 1
  <1>1. TypeOK /\ Ids' = Ids \cup {n} /\ n \notin Ids
    BY Growth DEF TInv, IInv, AddState
  <1>2. facts' = [f \in 1..n |-> IF f = n THEN StateRow(c, None) ELSE facts[f]]
    BY DEF AddState, Insert
  <1>3. UNCHANGED <<conflicts, opened>> /\ Overlapping(c) = {}
    BY DEF AddState
  <1>4. Ids' = 1..n
    BY <1>1, Growth DEF AddState
  <1>5. facts'[n] = StateRow(c, None) /\ \A f \in Ids : facts'[f] = facts[f]
    BY <1>1, <1>2, <1>4
  <1>6. RecordsFit' /\ WinnersOpenEnded' /\ ConflictsSound'
    BY <1>1, <1>3, <1>5, QuietRecords
  <1>7. NewRowFits(n)
    <2> SUFFICES ASSUME NEW f \in Ids, facts'[f].slot = facts'[n].slot, Holds(f)'
                 PROVE  ~Overlaps(facts'[f], facts'[n])
      BY DEF NewRowFits
    <2>1. facts[f].slot = c.slot /\ Holds(f)
      BY <1>5, StateRowFields DEF Holds
    <2>2. ~Overlaps(facts[f], c)
      BY <1>3, <2>1 DEF Overlapping, Believed, Holds
    <2> QED
      BY <1>5, <2>2, StateRowFields DEF Overlaps
  <1>8. LaterIsElected'
    BY <1>1, <1>3, <1>5, <1>7, LastId, SameElected, LaterKeeps DEF TInv, RowEvolves
  <1> QED
    BY <1>6, <1>8 DEF TruthKept

(* The settled fact that a supersession retires is the only one that       *)
(* counts among those its successor overlaps.                              *)
LEMMA OnlyOldestOverlaps ==
    ASSUME TInv, NEW c \in Candidates, NEW old \in Ids, Oldest(old, Overlapping(c)),
           Settled(old), Outranks(c, old), NEW f \in Overlapping(c), f # old,
           facts[f].group = None \/ InForce(f)
    PROVE  FALSE
  <1>1. /\ TypeOK /\ RowsSound /\ ShareOnlyInConflict /\ SupersededIsHistory
        /\ LaterIsElected /\ WinnersOpenEnded
    BY DEF TInv, IInv
  <1>2. /\ f \in Ids /\ facts[f].slot = c.slot /\ facts[old].slot = c.slot /\ c.slot # NoSlot
        /\ Holds(f) /\ Holds(old) /\ Overlaps(facts[f], c) /\ Overlaps(facts[old], c)
    BY CandidateTypes DEF Overlapping, Believed, Holds, Oldest
  <1>3. old < f
    BY <1>1, <1>2 DEF Oldest, Ids, TypeOK
  <1>4. ~InForce(f)
    BY <1>1, <1>2 DEF ShareOnlyInConflict, Settled
  <1>5. facts[f].group = None /\ facts[f].vt # None
    BY <1>1, <1>2, <1>4 DEF SupersededIsHistory, InForce, Holds
  <1>6. facts[old].vt = None /\ facts[old].group = None
    BY <1>1 DEF RowsSound, Settled, InForce
  <1>7. c.vf \in Nat /\ facts[old].vf \in Nat /\ facts[f].vt \in Nat
    BY <1>1, <1>2, CandidateTypes DEF TypeOK, Fact
  <1>8. c.vf >= facts[old].vf
    BY <1>7 DEF Outranks
  <1>9. Overlaps(facts[old], facts[f])
    <2>1. c.vf # None => facts[f].vt > c.vf
      BY <1>2, <1>5 DEF Overlaps
    <2>2. facts[old].vf # None => facts[f].vt > facts[old].vf
      BY <1>7, <1>8, <2>1 DEF None
    <2> QED
      BY <1>6, <2>2 DEF Overlaps
  <1>10. Elected(f)
    BY <1>1, <1>2, <1>3, <1>5, <1>6, <1>9 DEF LaterIsElected
  <1>11. f # None
    BY <1>1, <1>2, RecordIds
  <1> QED
    BY <1>1, <1>2, <1>5, <1>10, <1>11 DEF Elected, WinnersOpenEnded, Holds

LEMMA SupersedeStateTruth ==
    ASSUME TInv, NEW k \in Clients, NEW c \in Candidates, SupersedeState(k, c)
    PROVE  TruthKept
  <1> DEFINE n == count + 1
  <1>1. TypeOK /\ Ids' = Ids \cup {n} /\ n \notin Ids /\ Ids' = 1..n
    BY Growth DEF TInv, IInv, SupersedeState
  <1>2. UNCHANGED <<conflicts, opened>>
    BY DEF SupersedeState
  <1>3. PICK old \in Ids :
          /\ Oldest(old, Overlapping(c)) /\ Outranks(c, old) /\ Settled(old)
          /\ facts' = [f \in 1..n |->
                         IF f = n THEN StateRow(c, None)
                         ELSE IF f = old THEN Retired(f, n, ClosedAt(f, c.vf))
                         ELSE facts[f]]
    BY DEF SupersedeState
  <1>4. /\ facts'[n] = StateRow(c, None) /\ facts'[old].expired
        /\ \A f \in Ids : f # old => facts'[f] = facts[f]
    BY <1>1, <1>3, RetiredFields
  <1>5. facts[old].group = None /\ facts[old].sup = None
    BY <1>3 DEF Settled, InForce
  <1>6. RecordsFit' /\ WinnersOpenEnded' /\ ConflictsSound'
    BY <1>1, <1>2, <1>4, <1>5, QuietRecords
  <1>7. NewRowFits(n)
    <2> SUFFICES ASSUME NEW f \in Ids, facts'[f].slot = facts'[n].slot, Holds(f)',
                        facts'[f].group = None \/ InForce(f)',
                        Overlaps(facts'[f], facts'[n])
                 PROVE  FALSE
      BY DEF NewRowFits
    <2>1. f # old
      BY <1>4 DEF Holds
    <2>2. /\ facts[f].slot = c.slot /\ Holds(f) /\ Overlaps(facts[f], c)
          /\ facts[f].group = None \/ InForce(f)
      BY <1>4, <2>1, StateRowFields DEF Holds, InForce, Overlaps
    <2>3. f \in Overlapping(c)
      BY <2>2 DEF Overlapping, Believed, Holds
    <2> QED
      BY <1>3, <2>1, <2>2, <2>3, OnlyOldestOverlaps
  <1>8. LaterIsElected'
    BY <1>1, <1>2, <1>4, <1>7, LastId, SameElected, LaterKeeps DEF TInv, RowEvolves
  <1> QED
    BY <1>6, <1>8 DEF TruthKept

(* A conflict between a settled fact and a new one in its slot, or beside  *)
(* the typed state.                                                        *)
LEMMA OpenedTruth ==
    ASSUME TInv, Room, count' = count + 1, opened' = opened + 1, NEW old \in Ids, Settled(old),
           NEW row, row.slot = facts[old].slot, row.sup = None, row.vt = None, ~row.invalid,
           row.group = opened + 1,
           facts' = [f \in 1..(count + 1) |->
                       IF f = count + 1 THEN row
                       ELSE IF f = old THEN [facts[f] EXCEPT !.group = opened + 1]
                       ELSE facts[f]],
           OpenConflict({old, count + 1})
    PROVE  TruthKept
  <1> DEFINE n == count + 1
  <1> DEFINE g == opened + 1
  <1>1. /\ TypeOK /\ Ids' = Ids \cup {n} /\ n \notin Ids /\ Ids' = 1..n /\ None \notin ConflictIds
        /\ RowsSound
    BY Growth, RecordIds DEF TInv, IInv
  <1>2. /\ ConflictIds' = ConflictIds \cup {g} /\ g \notin ConflictIds /\ g # None
    BY <1>1 DEF ConflictIds, TypeOK, None
  <1>3. /\ conflicts'[g] = [open |-> TRUE, members |-> {old, n}, winner |-> None]
        /\ \A e \in ConflictIds : conflicts'[e] = conflicts[e]
    BY <1>1, <1>2 DEF OpenConflict, ConflictIds, TypeOK
  <1>4. facts[old] \in Fact
    BY <1>1 DEF TypeOK
  <1>5. /\ facts[old].group = None /\ facts[old].sup = None /\ ~facts[old].invalid
        /\ facts[old].vt = None
    BY <1>1 DEF Settled, InForce, RowsSound
  <1>6. facts'[n] = row /\ \A f \in Ids : f # old => facts'[f] = facts[f]
    BY <1>1
  <1>7. facts'[old] = [facts[old] EXCEPT !.group = g]
    BY <1>1
  <1>8. /\ facts'[old].slot = facts[old].slot /\ facts'[old].vf = facts[old].vf
        /\ facts'[old].vt = None /\ facts'[old].expired = facts[old].expired
        /\ facts'[old].sup = None /\ facts'[old].invalid = facts[old].invalid
        /\ facts'[old].group = g
    BY <1>4, <1>5, <1>7 DEF Fact
  <1> HIDE DEF n, g
  <1>9. \A e \in ConflictIds : conflicts[e].members \subseteq Ids
    BY DEF TInv, RecordsFit
  <1>10. \A e \in ConflictIds : conflicts[e].open => old \notin conflicts[e].members
    BY <1>1, <1>5 DEF TInv, ConflictsSound
  <1>11. RecordsFit'
    <2> SUFFICES ASSUME NEW e \in ConflictIds'
                 PROVE  /\ conflicts'[e].members \subseteq Ids'
                        /\ conflicts'[e].winner \in Ids' \cup {None}
                        /\ conflicts'[e].open => conflicts'[e].winner = None
                        /\ conflicts'[e].open => \A f \in conflicts'[e].members : facts'[f].vt = None
      BY DEF RecordsFit
    <2>1. CASE e = g
      <3>1. conflicts'[e].members = {old, n} /\ conflicts'[e].winner = None
        BY <1>3, <2>1
      <3>2. facts'[n].vt = None /\ facts'[old].vt = None /\ {old, n} \subseteq Ids'
        BY <1>1, <1>6, <1>8
      <3> QED
        BY <3>1, <3>2
    <2>2. CASE e \in ConflictIds
      BY <1>1, <1>3, <1>6, <1>9, <1>10, <2>2 DEF TInv, RecordsFit
    <2> QED
      BY <1>2, <2>1, <2>2
  <1>12. WinnersOpenEnded'
    <2> SUFFICES ASSUME NEW e \in ConflictIds', conflicts'[e].winner # None
                 PROVE  \/ facts'[conflicts'[e].winner].vt = None
                        \/ facts'[conflicts'[e].winner].expired
      BY DEF WinnersOpenEnded
    <2>1. e \in ConflictIds /\ conflicts'[e].winner = conflicts[e].winner
      BY <1>2, <1>3
    <2>2. conflicts[e].winner \in Ids
      BY <2>1 DEF TInv, RecordsFit
    <2>3. facts[conflicts[e].winner].vt = None \/ facts[conflicts[e].winner].expired
      BY <2>1 DEF TInv, WinnersOpenEnded
    <2> QED
      BY <1>6, <1>8, <2>1, <2>2, <2>3
  <1>13. ConflictsSound'
    <2> SUFFICES ASSUME NEW e \in ConflictIds'
                 PROVE  LET M == conflicts'[e].members IN
                        /\ conflicts'[e].open =>
                             /\ \E f, h \in M : f # h
                             /\ \A f \in M :
                                  /\ facts'[f].group = e /\ facts'[f].sup = None
                                  /\ facts'[f].invalid => facts'[f].cites # None
                             /\ \A f, h \in M : facts'[f].slot = facts'[h].slot
                        /\ conflicts'[e].winner # None =>
                             \A f \in M \ {conflicts'[e].winner} : facts'[f].sup = conflicts'[e].winner
      BY DEF ConflictsSound
    <2>1. CASE e = g
      <3>1. conflicts'[e].members = {old, n} /\ conflicts'[e].winner = None /\ old # n
        BY <1>1, <1>3, <2>1
      <3>2. row.group = g
        BY DEF g
      <3>3. /\ facts'[n].group = e /\ facts'[n].sup = None /\ ~facts'[n].invalid
            /\ facts'[n].slot = facts[old].slot
        BY <1>6, <2>1, <3>2
      <3>4. /\ facts'[old].group = e /\ facts'[old].sup = None /\ ~facts'[old].invalid
            /\ facts'[old].slot = facts[old].slot
        BY <1>5, <1>8, <2>1
      <3>5. \A f \in {old, n} : /\ facts'[f].group = e /\ facts'[f].sup = None
                               /\ ~facts'[f].invalid /\ facts'[f].slot = facts[old].slot
        BY <3>3, <3>4
      <3> QED
        BY <3>1, <3>5
    <2>2. CASE e \in ConflictIds /\ conflicts[e].open
      <3>1. \A f \in conflicts[e].members : facts'[f] = facts[f]
        BY <1>6, <1>9, <1>10, <2>2
      <3>2. conflicts[e].winner = None
        BY <2>2 DEF TInv, RecordsFit
      <3>3. /\ \E f, h \in conflicts[e].members : f # h
            /\ \A f \in conflicts[e].members :
                 /\ facts[f].group = e /\ facts[f].sup = None
                 /\ facts[f].invalid => facts[f].cites # None
            /\ \A f, h \in conflicts[e].members : facts[f].slot = facts[h].slot
        BY <2>2 DEF TInv, ConflictsSound
      <3>4. /\ \A f \in conflicts[e].members :
                 /\ facts'[f].group = e /\ facts'[f].sup = None
                 /\ facts'[f].invalid => facts'[f].cites # None
            /\ \A f, h \in conflicts[e].members : facts'[f].slot = facts'[h].slot
        <4>1. \A f \in conflicts[e].members :
                /\ facts'[f].group = e /\ facts'[f].sup = None
                /\ facts'[f].invalid => facts'[f].cites # None
          BY <3>1, <3>3, ZenonT(60)
        <4>2. \A f, h \in conflicts[e].members : facts[f].slot = facts[h].slot
          BY <3>3
        <4>3. \A f, h \in conflicts[e].members : facts'[f].slot = facts'[h].slot
          BY <3>1, <4>2, ZenonT(60)
        <4> QED
          BY <4>1, <4>3
      <3>5. conflicts'[e] = conflicts[e]
        BY <1>3, <2>2
      <3> QED
        BY <3>2, <3>3, <3>4, <3>5
    <2>3. CASE e \in ConflictIds /\ ~conflicts[e].open
      <3>1. \A f \in conflicts[e].members : facts'[f].sup = facts[f].sup
        BY <1>5, <1>6, <1>8, <1>9, <2>3
      <3> QED
        BY <1>3, <2>3, <3>1 DEF TInv, ConflictsSound
    <2> QED
      BY <1>2, <2>1, <2>2, <2>3
  <1>14. RowEvolves(old)
    BY <1>2, <1>5, <1>8 DEF RowEvolves, Stays, Settled
  <1>15. NewRowFits(n)
    BY <1>2, <1>6 DEF NewRowFits, g
  <1>16. \A f \in Ids : Elected(f) => Elected(f)'
    BY <1>2, <1>3 DEF Elected
  <1>17. LaterIsElected'
    BY <1>1, <1>6, <1>14, <1>15, <1>16, LastId, LaterKeeps DEF TInv, RowEvolves, n
  <1> QED
    BY <1>11, <1>12, <1>13, <1>17 DEF TruthKept

LEMMA OpenStateConflictTruth ==
    ASSUME TInv, NEW k \in Clients, NEW c \in Candidates, OpenStateConflict(k, c)
    PROVE  TruthKept
  <1>1. PICK old \in Ids :
          /\ Oldest(old, Overlapping(c)) /\ Settled(old)
          /\ facts' = [f \in 1..(count + 1) |->
                         IF f = count + 1 THEN StateRow(c, opened + 1)
                         ELSE IF f = old THEN [facts[f] EXCEPT !.group = opened + 1]
                         ELSE facts[f]]
          /\ OpenConflict({old, count + 1})
    BY DEF OpenStateConflict
  <1>2. facts[old].slot = c.slot
    BY <1>1 DEF Oldest, Overlapping, Believed
  <1>3. Room /\ count' = count + 1 /\ opened' = opened + 1 /\ c.vt = None
    BY DEF OpenStateConflict
  <1>4. PICK row : row = StateRow(c, opened + 1)
    OBVIOUS
  <1>5. /\ row.slot = facts[old].slot /\ row.sup = None /\ row.vt = None /\ ~row.invalid
        /\ row.group = opened + 1
    BY <1>2, <1>3, <1>4, StateRowFields
  <1> QED
    BY <1>1, <1>3, <1>4, <1>5, OpenedTruth


-----------------------------------------------------------------------------
(* Untyped writes.                                                         *)

(* The new row is no typed state, and at most one settled fact retires.    *)
LEMMA UntypedTruth ==
    ASSUME TInv, Room, count' = count + 1, UNCHANGED <<conflicts, opened>>,
           facts' = [f \in 1..(count + 1) |-> facts'[f]],
           facts'[count + 1].slot = NoSlot, NEW old,
           \A f \in Ids : IF f = old THEN Settled(f) /\ facts'[f].expired
                          ELSE facts'[f] = facts[f]
    PROVE  TruthKept
  <1>1. TypeOK /\ Ids' = Ids \cup {count + 1}
    BY Growth DEF TInv, IInv
  <1>2. RecordsFit' /\ WinnersOpenEnded' /\ ConflictsSound'
    BY <1>1, QuietRecords DEF Settled, InForce
  <1>3. NewRowFits(count + 1)
    BY DEF NewRowFits
  <1>4. LaterIsElected'
    BY <1>1, <1>3, LastId, SameElected, LaterKeeps DEF TInv, RowEvolves
  <1> QED
    BY <1>2, <1>4 DEF TruthKept

LEMMA AddUntypedTruth ==
    ASSUME TInv, NEW k \in Clients, NEW u \in Untyped, AddUntyped(k, u)
    PROVE  TruthKept
  <1>1. /\ Room /\ count' = count + 1 /\ UNCHANGED <<conflicts, opened>>
        /\ facts' = [f \in 1..(count + 1) |->
                       IF f = count + 1 THEN UntypedRow(u, None) ELSE facts[f]]
    BY DEF AddUntyped, Insert
  <1>2. count + 1 \in 1..(count + 1) /\ \A f \in Ids : f \in 1..(count + 1) /\ f # count + 1
    BY Growth, <1>1 DEF TInv, IInv, TypeOK, Ids
  <1>3. /\ facts'[count + 1].slot = NoSlot
        /\ facts' = [f \in 1..(count + 1) |-> facts'[f]]
        /\ \A f \in Ids : facts'[f] = facts[f]
    BY <1>1, <1>2, UntypedRowFields
  <1>4. None \notin Ids
    BY RecordIds DEF TInv, IInv
  <1> QED
    BY <1>1, <1>3, <1>4, UntypedTruth

LEMMA MergeNearDuplicateTruth ==
    ASSUME TInv, NEW k \in Clients, NEW u \in Untyped, MergeNearDuplicate(k, u)
    PROVE  TruthKept
  <1>1. Room /\ count' = count + 1 /\ UNCHANGED <<conflicts, opened>>
    BY DEF MergeNearDuplicate
  <1>2. TypeOK /\ None \notin Ids
    BY RecordIds DEF TInv, IInv
  <1>3. count + 1 \in 1..(count + 1) /\ \A f \in Ids : f \in 1..(count + 1) /\ f # count + 1
    BY <1>2 DEF TypeOK, Ids
  <1>4. PICK old \in Ids :
          /\ Settled(old)
          /\ \/ facts' = [f \in 1..(count + 1) |->
                            IF f = count + 1 THEN UntypedRow(u, None)
                            ELSE IF f = old THEN Retired(f, count + 1, facts[f].vt)
                            ELSE facts[f]]
             \/ Insert([UntypedRow(u, None) EXCEPT
                          !.invalid = TRUE, !.expired = TRUE, !.sup = old])
    BY DEF MergeNearDuplicate
  <1>5. CASE facts' = [f \in 1..(count + 1) |->
                         IF f = count + 1 THEN UntypedRow(u, None)
                         ELSE IF f = old THEN Retired(f, count + 1, facts[f].vt)
                         ELSE facts[f]]
    <2>1. /\ facts'[count + 1].slot = NoSlot
          /\ facts' = [f \in 1..(count + 1) |-> facts'[f]]
          /\ facts'[old].expired
          /\ \A f \in Ids : f # old => facts'[f] = facts[f]
      BY <1>2, <1>3, <1>5, UntypedRowFields, RetiredFields
    <2> QED
      BY <1>1, <1>4, <2>1, UntypedTruth
  <1>6. CASE Insert([UntypedRow(u, None) EXCEPT
                       !.invalid = TRUE, !.expired = TRUE, !.sup = old])
    <2>1. PICK row : row = [UntypedRow(u, None) EXCEPT
                              !.invalid = TRUE, !.expired = TRUE, !.sup = old]
      OBVIOUS
    <2>2. row.slot = NoSlot
      BY <2>1 DEF UntypedRow
    <2>3. facts' = [f \in 1..(count + 1) |-> IF f = count + 1 THEN row ELSE facts[f]]
      BY <1>6, <2>1 DEF Insert
    <2>4. /\ facts'[count + 1].slot = NoSlot
          /\ facts' = [f \in 1..(count + 1) |-> facts'[f]]
          /\ \A f \in Ids : facts'[f] = facts[f]
      BY <1>3, <2>2, <2>3
    <2> QED
      BY <1>1, <1>2, <2>4, UntypedTruth
  <1> QED
    BY <1>4, <1>5, <1>6

LEMMA ReplaceUntypedTruth ==
    ASSUME TInv, NEW k \in Clients, NEW u \in Untyped, ReplaceUntyped(k, u)
    PROVE  TruthKept
  <1>1. /\ Room /\ count' = count + 1 /\ UNCHANGED <<conflicts, opened>>
        /\ u.target \in Ids /\ Settled(u.target)
        /\ facts' = [f \in 1..(count + 1) |->
                       IF f = count + 1 THEN UntypedRow(u, None)
                       ELSE IF f = u.target THEN Retired(f, count + 1, facts[f].vt)
                       ELSE facts[f]]
    BY DEF ReplaceUntyped, Replaceable
  <1>2. TypeOK
    BY DEF TInv, IInv
  <1>3. count + 1 \in 1..(count + 1) /\ \A f \in Ids : f \in 1..(count + 1) /\ f # count + 1
    BY <1>2 DEF TypeOK, Ids
  <1>4. /\ facts'[count + 1].slot = NoSlot
        /\ facts' = [f \in 1..(count + 1) |-> facts'[f]]
        /\ facts'[u.target].expired
        /\ \A f \in Ids : f # u.target => facts'[f] = facts[f]
    BY <1>1, <1>2, <1>3, UntypedRowFields, RetiredFields
  <1> QED
    BY <1>1, <1>4, UntypedTruth

LEMMA ReplaceByDuplicateTruth ==
    ASSUME TInv, NEW k \in Clients, NEW u \in Untyped, ReplaceByDuplicate(k, u)
    PROVE  TruthKept
  <1>1. /\ UNCHANGED <<count, conflicts, opened>> /\ u.target \in Ids /\ Settled(u.target)
    BY DEF ReplaceByDuplicate, Replaceable
  <1>2. PICK old \in Ids :
          facts' = [facts EXCEPT ![u.target] = Retired(u.target, old, facts[u.target].vt)]
    BY DEF ReplaceByDuplicate
  <1>3. TypeOK /\ DOMAIN facts = Ids
    BY DEF TInv, IInv, TypeOK
  <1>4. facts'[u.target].expired /\ \A f \in Ids : f # u.target => facts'[f] = facts[f]
    BY <1>1, <1>2, <1>3, RetiredFields
  <1>5. Ids' = Ids
    BY <1>1 DEF Ids
  <1>6. RecordsFit' /\ WinnersOpenEnded' /\ ConflictsSound'
    BY <1>1, <1>4, <1>5, QuietRecords DEF Settled, InForce
  <1>7. LaterIsElected'
    BY <1>1, <1>3, <1>4, <1>5, LastId, SameElected, LaterKeeps DEF TInv, RowEvolves
  <1> QED
    BY <1>6, <1>7 DEF TruthKept

LEMMA ContradictUntypedTruth ==
    ASSUME TInv, NEW k \in Clients, NEW u \in Untyped, ContradictUntyped(k, u)
    PROVE  TruthKept
  <1>1. PICK old \in SettledUntyped :
          /\ facts' = [f \in 1..(count + 1) |->
                         IF f = count + 1 THEN UntypedRow(u, opened + 1)
                         ELSE IF f = old THEN [facts[f] EXCEPT !.group = opened + 1]
                         ELSE facts[f]]
          /\ OpenConflict({old, count + 1})
    BY DEF ContradictUntyped
  <1>2. old \in Ids /\ Settled(old) /\ facts[old].slot = NoSlot
    BY DEF SettledUntyped
  <1>3. Room /\ count' = count + 1 /\ opened' = opened + 1
    BY DEF ContradictUntyped
  <1>4. PICK row : row = UntypedRow(u, opened + 1)
    OBVIOUS
  <1>5. /\ row.slot = facts[old].slot /\ row.sup = None /\ row.vt = None /\ ~row.invalid
        /\ row.group = opened + 1
    BY <1>2, <1>4, UntypedRowFields
  <1> QED
    BY <1>1, <1>2, <1>3, <1>4, <1>5, OpenedTruth

-----------------------------------------------------------------------------
(* Steps that add to a conflict or close one.                              *)

(* What an open record says of its members. *)
LEMMA OpenMembers ==
    ASSUME TInv, NEW g \in ConflictIds, conflicts[g].open
    PROVE  /\ conflicts[g].members \subseteq Ids
           /\ conflicts[g].winner = None
           /\ \E f, h \in conflicts[g].members : f # h
           /\ \A f \in conflicts[g].members :
                /\ facts[f].group = g /\ facts[f].sup = None /\ facts[f].vt = None
                /\ facts[f].invalid => facts[f].cites # None
           /\ \A f, h \in conflicts[g].members : facts[f].slot = facts[h].slot
  <1>1. conflicts[g].members \subseteq Ids /\ conflicts[g].winner = None
    BY DEF TInv, RecordsFit
  <1>2. \A f \in conflicts[g].members : facts[f].vt = None
    BY DEF TInv, RecordsFit
  <1>3. /\ \E f, h \in conflicts[g].members : f # h
        /\ \A f \in conflicts[g].members :
             /\ facts[f].group = g /\ facts[f].sup = None
             /\ facts[f].invalid => facts[f].cites # None
        /\ \A f, h \in conflicts[g].members : facts[f].slot = facts[h].slot
    BY DEF TInv, ConflictsSound
  <1> QED
    BY <1>1, <1>2, <1>3

(* The same of an open record after a step, from what it says of each row. *)
OpenRecordFits(g, M) ==
    /\ M \subseteq Ids' /\ conflicts'[g].winner = None
    /\ \E f, h \in M : f # h
    /\ \A f \in M :
         /\ facts'[f].group = g /\ facts'[f].sup = None /\ facts'[f].vt = None
         /\ facts'[f].invalid => facts'[f].cites # None
    /\ \A f, h \in M : facts'[f].slot = facts'[h].slot

ClosedRecordFits(g) ==
    /\ conflicts'[g].members \subseteq Ids'
    /\ conflicts'[g].winner \in Ids' \cup {None}
    /\ conflicts'[g].winner # None =>
         \A f \in conflicts'[g].members \ {conflicts'[g].winner} :
            facts'[f].sup = conflicts'[g].winner

LEMMA RecordsKept ==
    ASSUME ConflictIds' = ConflictIds,
           \A g \in ConflictIds : IF conflicts'[g].open
                                  THEN OpenRecordFits(g, conflicts'[g].members)
                                  ELSE ClosedRecordFits(g)
    PROVE  RecordsFit' /\ ConflictsSound'
  <1>1. RecordsFit'
    <2> SUFFICES ASSUME NEW g \in ConflictIds
                 PROVE  /\ conflicts'[g].members \subseteq Ids'
                        /\ conflicts'[g].winner \in Ids' \cup {None}
                        /\ conflicts'[g].open => conflicts'[g].winner = None
                        /\ conflicts'[g].open => \A f \in conflicts'[g].members : facts'[f].vt = None
      BY DEF RecordsFit
    <2>1. CASE conflicts'[g].open
      BY <2>1 DEF OpenRecordFits
    <2>2. CASE ~conflicts'[g].open
      BY <2>2 DEF ClosedRecordFits
    <2> QED
      BY <2>1, <2>2
  <1>2. ConflictsSound'
    <2> SUFFICES ASSUME NEW g \in ConflictIds
                 PROVE  LET M == conflicts'[g].members IN
                        /\ conflicts'[g].open =>
                             /\ \E f, h \in M : f # h
                             /\ \A f \in M :
                                  /\ facts'[f].group = g /\ facts'[f].sup = None
                                  /\ facts'[f].invalid => facts'[f].cites # None
                             /\ \A f, h \in M : facts'[f].slot = facts'[h].slot
                        /\ conflicts'[g].winner # None =>
                             \A f \in M \ {conflicts'[g].winner} : facts'[f].sup = conflicts'[g].winner
      BY DEF ConflictsSound
    <2>1. CASE conflicts'[g].open
      BY <2>1 DEF OpenRecordFits
    <2>2. CASE ~conflicts'[g].open
      BY <2>2 DEF ClosedRecordFits
    <2> QED
      BY <2>1, <2>2
  <1> QED
    BY <1>1, <1>2

(* A record the step leaves alone, whose rows it leaves alone. *)
LEMMA UntouchedRecord ==
    ASSUME TInv, Ids \subseteq Ids', NEW g \in ConflictIds, conflicts'[g] = conflicts[g],
           \A f \in conflicts[g].members :
              \/ facts'[f] = facts[f]
              \/ ~conflicts[g].open /\ facts[f].sup = None
    PROVE  IF conflicts'[g].open THEN OpenRecordFits(g, conflicts'[g].members)
           ELSE ClosedRecordFits(g)
  <1>1. conflicts[g].members \subseteq Ids /\ conflicts[g].winner \in Ids \cup {None}
    BY DEF TInv, RecordsFit
  <1>2. CASE conflicts[g].open
    <2>1. \A f \in conflicts[g].members : facts'[f] = facts[f]
      BY <1>2
    <2>2. \A f, h \in conflicts[g].members : facts'[f].slot = facts'[h].slot
      BY <1>2, <2>1, OpenMembers
    <2>3. \A f \in conflicts[g].members :
            /\ facts'[f].group = g /\ facts'[f].sup = None /\ facts'[f].vt = None
            /\ facts'[f].invalid => facts'[f].cites # None
      BY <1>2, <2>1, OpenMembers
    <2>4. conflicts[g].winner = None /\ \E f, h \in conflicts[g].members : f # h
      BY <1>2, OpenMembers
    <2> QED
      BY <1>1, <1>2, <2>2, <2>3, <2>4 DEF OpenRecordFits
  <1>3. CASE ~conflicts[g].open
    <2>1. conflicts[g].winner # None =>
            \A f \in conflicts[g].members \ {conflicts[g].winner} :
               facts[f].sup = conflicts[g].winner
      BY DEF TInv, ConflictsSound
    <2>2. conflicts[g].winner # None =>
            \A f \in conflicts[g].members \ {conflicts[g].winner} :
               facts'[f].sup = conflicts[g].winner
      BY <1>3, <2>1
    <2> QED
      BY <1>1, <1>3, <2>2 DEF ClosedRecordFits
  <1> QED
    BY <1>2, <1>3

LEMMA JoinConflictTruth ==
    ASSUME TInv, NEW k \in Clients, NEW c \in Candidates, JoinConflict(k, c)
    PROVE  TruthKept
  <1> DEFINE n == count + 1
  <1>1. /\ TypeOK /\ RowsSound
    BY DEF TInv, IInv
  <1>2. Room /\ count' = count + 1 /\ opened' = opened /\ c.vt = None
    BY DEF JoinConflict
  <1>3. Ids' = Ids \cup {n} /\ n \notin Ids /\ Ids' = 1..n
    BY <1>1, <1>2, Growth
  <1>4. PICK g \in ConflictIds :
          /\ Groups(Current(c.slot)) = {g} /\ conflicts[g].open
          /\ facts' = [f \in 1..n |-> IF f = n THEN StateRow(c, g) ELSE facts[f]]
          /\ conflicts' = [conflicts EXCEPT ![g].members = @ \cup {n}]
    BY DEF JoinConflict, Insert
  <1>5. facts'[n] = StateRow(c, g) /\ \A f \in Ids : facts'[f] = facts[f]
    BY <1>3, <1>4
  <1>6. conflicts[g] \in Conflict /\ DOMAIN conflicts = ConflictIds
    BY <1>1 DEF TypeOK
  <1>7. /\ conflicts'[g].members = conflicts[g].members \cup {n}
        /\ conflicts'[g].open = conflicts[g].open /\ conflicts'[g].winner = conflicts[g].winner
        /\ \A e \in ConflictIds : e # g => conflicts'[e] = conflicts[e]
    BY <1>4, <1>6 DEF Conflict
  <1>8. /\ facts'[n].slot = c.slot /\ facts'[n].group = g /\ facts'[n].sup = None
        /\ facts'[n].vt = None /\ ~facts'[n].invalid
    BY <1>2, <1>5, StateRowFields
  <1> HIDE DEF n
  <1>9. ConflictIds' = ConflictIds /\ g # None
    BY <1>1, <1>2, RecordIds DEF ConflictIds
  <1>10. PICK h \in conflicts[g].members : facts[h].slot = c.slot
    <2>1. PICK h \in Current(c.slot) : facts[h].group = g
      BY <1>4 DEF Groups
    <2> QED
      BY <1>1, <1>9, <2>1 DEF RowsSound, Current
  <1>11. /\ conflicts[g].members \subseteq Ids /\ conflicts[g].winner = None
         /\ \E e, f \in conflicts[g].members : e # f
    BY <1>4, OpenMembers
  <1>12. \A f \in conflicts[g].members :
           /\ facts[f].group = g /\ facts[f].sup = None /\ facts[f].vt = None
           /\ facts[f].invalid => facts[f].cites # None
    BY <1>4, OpenMembers
  <1>13. \A f \in conflicts[g].members : facts[f].slot = c.slot
    BY <1>4, <1>10, OpenMembers
  <1>14. OpenRecordFits(g, conflicts[g].members \cup {n})
    <2>1. \A f \in conflicts[g].members :
            /\ facts'[f].group = g /\ facts'[f].sup = None /\ facts'[f].vt = None
            /\ facts'[f].invalid => facts'[f].cites # None
      BY <1>5, <1>11, <1>12
    <2>2. \A f \in conflicts[g].members \cup {n} : facts'[f].slot = c.slot
      BY <1>5, <1>8, <1>11, <1>13
    <2> QED
      BY <1>3, <1>7, <1>8, <1>11, <2>1, <2>2 DEF OpenRecordFits
  <1>15. \A e \in ConflictIds : IF conflicts'[e].open
                                THEN OpenRecordFits(e, conflicts'[e].members)
                                ELSE ClosedRecordFits(e)
    <2> SUFFICES ASSUME NEW e \in ConflictIds
                 PROVE  IF conflicts'[e].open THEN OpenRecordFits(e, conflicts'[e].members)
                        ELSE ClosedRecordFits(e)
      OBVIOUS
    <2>1. CASE e = g
      BY <1>4, <1>7, <1>14, <2>1
    <2>2. CASE e # g
      <3>1. conflicts[e].members \subseteq Ids
        BY DEF TInv, RecordsFit
      <3> QED
        BY <1>3, <1>5, <1>7, <2>2, <3>1, UntouchedRecord
    <2> QED
      BY <2>1, <2>2
  <1>16. \A e \in ConflictIds : conflicts'[e].winner = conflicts[e].winner
    BY <1>7
  <1>17. WinnersOpenEnded'
    BY <1>5, <1>9, <1>16 DEF TInv, WinnersOpenEnded, RecordsFit
  <1>18. LaterIsElected'
    <2>1. NewRowFits(n)
      BY <1>8, <1>9 DEF NewRowFits
    <2>2. \A f \in Ids : Elected(f) => Elected(f)'
      BY <1>9, <1>16 DEF Elected
    <2> QED
      BY <1>1, <1>3, <1>5, <2>1, <2>2, LastId, LaterKeeps DEF TInv, RowEvolves, n
  <1> QED
    BY <1>9, <1>15, <1>17, <1>18, RecordsKept DEF TruthKept

(* The step closes conflict g in favour of w, which stays open-ended or is *)
(* new, and retires the other members.                                     *)
LEMMA ElectionTruth ==
    ASSUME TInv, Ids \subseteq Ids', ConflictIds' = ConflictIds,
           NEW g \in ConflictIds, conflicts[g].open,
           NEW w \in Ids', facts'[w].vt = None, w # None,
           ~conflicts'[g].open, conflicts'[g].winner = w,
           conflicts'[g].members \subseteq Ids',
           conflicts'[g].members \subseteq conflicts[g].members \cup {w},
           \A e \in ConflictIds : e # g => conflicts'[e] = conflicts[e],
           \A f \in conflicts[g].members \ {w} : facts'[f].expired /\ facts'[f].sup = w,
           w \in Ids => w \in conflicts[g].members,
           \A f \in Ids \ conflicts[g].members : facts'[f] = facts[f]
    PROVE  RecordsFit' /\ WinnersOpenEnded' /\ ConflictsSound'
           /\ \A f \in Ids : Elected(f) => Elected(f)'
  <1>1. \A f \in conflicts[g].members : facts[f].group = g /\ facts[f].sup = None
    BY OpenMembers
  <1>2. conflicts[g].winner = None /\ None \notin Ids
    BY OpenMembers, RecordIds DEF TInv, IInv
  <1>3. ClosedRecordFits(g)
    BY DEF ClosedRecordFits
  <1>4. ASSUME NEW e \in ConflictIds, e # g
        PROVE  IF conflicts'[e].open THEN OpenRecordFits(e, conflicts'[e].members)
               ELSE ClosedRecordFits(e)
    <2>1. conflicts[e].members \subseteq Ids
      BY DEF TInv, RecordsFit
    <2>2. conflicts[e].open => \A f \in conflicts[e].members : f \notin conflicts[g].members
      BY <1>1, <1>4, OpenMembers
    <2>3. \A f \in conflicts[e].members :
            \/ facts'[f] = facts[f]
            \/ ~conflicts[e].open /\ facts[f].sup = None
      <3> TAKE f \in conflicts[e].members
      <3>1. CASE f \in conflicts[g].members
        BY <1>1, <2>2, <3>1
      <3>2. CASE f \notin conflicts[g].members
        BY <2>1, <3>2
      <3> QED
        BY <3>1, <3>2
    <2>4. conflicts'[e] = conflicts[e]
      BY <1>4
    <2> QED
      BY <2>3, <2>4, UntouchedRecord
  <1>5. RecordsFit' /\ ConflictsSound'
    BY <1>3, <1>4, RecordsKept
  <1>6. WinnersOpenEnded'
    <2> SUFFICES ASSUME NEW e \in ConflictIds, conflicts'[e].winner # None
                 PROVE  \/ facts'[conflicts'[e].winner].vt = None
                        \/ facts'[conflicts'[e].winner].expired
      BY DEF WinnersOpenEnded
    <2>1. CASE e = g
      BY <2>1
    <2>2. CASE e # g
      <3>1. PICK v \in Ids : v = conflicts[e].winner /\ v = conflicts'[e].winner
        BY <2>2 DEF TInv, RecordsFit
      <3>2. facts[v].vt = None \/ facts[v].expired
        BY <2>2, <3>1 DEF TInv, WinnersOpenEnded
      <3>3. CASE v = w
        BY <3>1, <3>3
      <3>4. CASE v \in conflicts[g].members \ {w}
        BY <3>1, <3>4
      <3>5. CASE v \notin conflicts[g].members
        BY <3>1, <3>2, <3>5
      <3> QED
        BY <3>3, <3>4, <3>5
    <2> QED
      BY <2>1, <2>2
  <1>7. \A f \in Ids : Elected(f) => Elected(f)'
    BY <1>2 DEF Elected
  <1> QED
    BY <1>5, <1>6, <1>7

LEMMA SettleConflictTruth ==
    ASSUME TInv, NEW k \in Clients, NEW c \in Candidates, SettleConflict(k, c)
    PROVE  TruthKept
  <1> DEFINE n == count + 1
  <1>1. TypeOK
    BY DEF TInv, IInv
  <1>2. Room /\ count' = count + 1 /\ opened' = opened /\ c.vt = None
    BY DEF SettleConflict
  <1>3. Ids' = Ids \cup {n} /\ n \notin Ids /\ Ids' = 1..n /\ n # None
    BY <1>1, <1>2, Growth
  <1>4. PICK g \in ConflictIds :
          /\ conflicts[g].open
          /\ facts' = [f \in 1..n |->
                         IF f = n THEN StateRow(c, None)
                         ELSE IF f \in conflicts[g].members THEN Retired(f, n, c.vf)
                         ELSE facts[f]]
          /\ conflicts' = [conflicts EXCEPT ![g].open = FALSE,
                                            ![g].members = @ \cup {n},
                                            ![g].winner = n]
    BY DEF SettleConflict
  <1>5. facts'[n] = StateRow(c, None)
    BY <1>3, <1>4
  <1>6. conflicts[g].members \subseteq Ids
    BY DEF TInv, RecordsFit
  <1>7. \A f \in conflicts[g].members : facts'[f].expired /\ facts'[f].sup = n
    BY <1>1, <1>3, <1>4, <1>6, RetiredFields
  <1>8. \A f \in Ids \ conflicts[g].members : facts'[f] = facts[f]
    BY <1>3, <1>4
  <1>9. conflicts[g] \in Conflict /\ DOMAIN conflicts = ConflictIds
    BY <1>1 DEF TypeOK
  <1>10. /\ conflicts'[g].members = conflicts[g].members \cup {n}
         /\ ~conflicts'[g].open /\ conflicts'[g].winner = n
         /\ \A e \in ConflictIds : e # g => conflicts'[e] = conflicts[e]
    BY <1>4, <1>9 DEF Conflict
  <1>11. facts'[n].vt = None
    BY <1>2, <1>5, StateRowFields
  <1>12. ConflictIds' = ConflictIds
    BY <1>2 DEF ConflictIds
  <1> HIDE DEF n
  <1>13. RecordsFit' /\ WinnersOpenEnded' /\ ConflictsSound'
         /\ \A f \in Ids : Elected(f) => Elected(f)'
    BY <1>3, <1>4, <1>6, <1>7, <1>8, <1>10, <1>11, <1>12, ElectionTruth
  <1>14. NewRowFits(n)
    <2>1. \E e \in ConflictIds' : conflicts'[e].winner = n
      BY <1>10, <1>12
    <2> QED
      BY <2>1 DEF NewRowFits
  <1>15. \A f \in Ids : RowEvolves(f)
    BY <1>7, <1>8 DEF RowEvolves
  <1>16. LaterIsElected'
    BY <1>1, <1>3, <1>13, <1>14, <1>15, LastId, LaterKeeps DEF TInv, n
  <1> QED
    BY <1>13, <1>16 DEF TruthKept

LEMMA ResolveConflictTruth ==
    ASSUME TInv, NEW k \in Clients, NEW g \in ConflictIds, NEW w \in Ids,
           ResolveConflict(k, g, w)
    PROVE  TruthKept
  <1>1. TypeOK /\ None \notin Ids
    BY RecordIds DEF TInv, IInv
  <1>2. /\ conflicts[g].open /\ w \in conflicts[g].members /\ InForce(w)
        /\ UNCHANGED <<count, opened>>
        /\ facts' = [f \in Ids |->
                       IF f = w THEN [facts[f] EXCEPT !.group = None]
                       ELSE IF f \in conflicts[g].members THEN Retired(f, w, facts[w].vf)
                       ELSE facts[f]]
        /\ conflicts' = [conflicts EXCEPT ![g].open = FALSE, ![g].winner = w]
    BY DEF ResolveConflict, CanElect
  <1>3. Ids' = Ids /\ ConflictIds' = ConflictIds
    BY <1>2 DEF Ids, ConflictIds
  <1>4. conflicts[g].members \subseteq Ids /\ facts[w].vt = None
    BY <1>2, OpenMembers
  <1>5. \A f \in conflicts[g].members \ {w} : facts'[f].expired /\ facts'[f].sup = w
    BY <1>1, <1>2, <1>4, RetiredFields
  <1>6. \A f \in Ids \ conflicts[g].members : facts'[f] = facts[f]
    BY <1>2
  <1>7. facts[w] \in Fact /\ facts'[w] = [facts[w] EXCEPT !.group = None]
    BY <1>1, <1>2 DEF TypeOK
  <1>8. /\ facts'[w].slot = facts[w].slot /\ facts'[w].vf = facts[w].vf
        /\ facts'[w].vt = facts[w].vt /\ facts'[w].expired = facts[w].expired
        /\ facts'[w].sup = facts[w].sup /\ facts'[w].invalid = facts[w].invalid
    BY <1>7 DEF Fact
  <1>9. conflicts[g] \in Conflict /\ DOMAIN conflicts = ConflictIds
    BY <1>1 DEF TypeOK
  <1>10. /\ conflicts'[g].members = conflicts[g].members
         /\ ~conflicts'[g].open /\ conflicts'[g].winner = w
         /\ \A e \in ConflictIds : e # g => conflicts'[e] = conflicts[e]
    BY <1>2, <1>9 DEF Conflict
  <1>11. RecordsFit' /\ WinnersOpenEnded' /\ ConflictsSound'
         /\ \A f \in Ids : Elected(f) => Elected(f)'
    BY <1>1, <1>2, <1>3, <1>4, <1>5, <1>6, <1>8, <1>10, ElectionTruth
  <1>12. Elected(w)'
    BY <1>3, <1>10 DEF Elected
  <1>13. \A f \in Ids : RowEvolves(f)
    <2>1. RowEvolves(w)
      BY <1>2, <1>8, <1>12 DEF RowEvolves, Stays
    <2> QED
      BY <1>5, <1>6, <2>1 DEF RowEvolves
  <1>14. LaterIsElected'
    BY <1>1, <1>3, <1>11, <1>13, LastId, LaterKeeps DEF TInv
  <1> QED
    BY <1>11, <1>14 DEF TruthKept

(* Erasure: a record loses the erased row, and closes with one row left.   *)
LEMMA EraseFactTruth ==
    ASSUME TInv, NEW x \in Ids, EraseFact(x)
    PROVE  TruthKept
  <1>1. TypeOK /\ x # None
    BY RecordIds DEF TInv, IInv
  <1>2. UNCHANGED <<count, opened>>
    BY DEF EraseFact
  <1>3. Ids' = Ids /\ ConflictIds' = ConflictIds
    BY <1>2 DEF Ids, ConflictIds
  <1>4. /\ facts'[x].slot = NoSlot /\ facts'[x].vt = facts[x].vt
        /\ facts'[x].expired = facts[x].expired /\ facts'[x].sup = facts[x].sup
    <2>1. facts'[x] = ErasedRow(x) /\ facts[x] \in Fact
      BY <1>1 DEF EraseFact, TypeOK
    <2>2. facts'[x].vt = facts[x].vt
      BY <2>1 DEF ErasedRow, Scrubbed, Fact
    <2> QED
      BY <1>1, <2>1, <2>2, ErasedRowFields
  <1>5. \A f \in Ids : f # x =>
          /\ Stays(f)
          /\ facts'[f].group = facts[f].group /\ facts'[f].cites = facts[f].cites
          /\ facts'[f].invalid => facts[f].invalid \/ facts[f].cites = x
    <2> SUFFICES ASSUME NEW f \in Ids, f # x
                 PROVE  /\ Stays(f)
                        /\ facts'[f].group = facts[f].group /\ facts'[f].cites = facts[f].cites
                        /\ facts'[f].invalid => facts[f].invalid \/ facts[f].cites = x
      OBVIOUS
    <2>1. facts[f] \in Fact
      BY <1>1 DEF TypeOK
    <2>2. CASE facts[f].cites = x
      <3>1. facts'[f] = [facts[f] EXCEPT !.invalid = TRUE]
        BY <2>2 DEF EraseFact
      <3> QED
        BY <2>1, <2>2, <3>1 DEF Fact, Stays
    <2>3. CASE facts[f].cites # x
      <3>1. facts'[f] = facts[f]
        BY <2>3 DEF EraseFact
      <3> QED
        BY <3>1 DEF Stays
    <2> QED
      BY <2>2, <2>3
  <1>6. \A e \in ConflictIds :
          /\ conflicts'[e].members = conflicts[e].members \ {x}
          /\ conflicts'[e].winner = conflicts[e].winner
          /\ conflicts'[e].open =>
               conflicts[e].open /\ \E f, h \in conflicts[e].members \ {x} : f # h
    <2> SUFFICES ASSUME NEW e \in ConflictIds
                 PROVE  /\ conflicts'[e].members = conflicts[e].members \ {x}
                        /\ conflicts'[e].winner = conflicts[e].winner
                        /\ conflicts'[e].open =>
                             /\ conflicts[e].open
                             /\ \E f, h \in conflicts[e].members \ {x} : f # h
      OBVIOUS
    <2>1. conflicts[e] \in Conflict /\ conflicts'[e] = AfterErasure(e, x)
      BY <1>1 DEF TypeOK, EraseFact
    <2>2. conflicts[e].open =>
            conflicts[e].winner = None /\ \E f, h \in conflicts[e].members : f # h
      BY OpenMembers
    <2>3. CASE x \notin conflicts[e].members
      <3>1. conflicts'[e] = conflicts[e] /\ conflicts[e].members \ {x} = conflicts[e].members
        BY <2>1, <2>3 DEF AfterErasure
      <3> QED
        BY <2>2, <3>1
    <2> DEFINE rest == conflicts[e].members \ {x}
    <2>4. CASE x \in conflicts[e].members /\ conflicts[e].open /\ \A f, h \in rest : f = h
      <3>1. conflicts'[e] = [open |-> FALSE, members |-> rest, winner |-> None]
        BY <2>1, <2>4 DEF AfterErasure
      <3> QED
        BY <2>2, <2>4, <3>1
    <2>5. CASE x \in conflicts[e].members /\ ~(conflicts[e].open /\ \A f, h \in rest : f = h)
      <3>1. conflicts'[e] = [conflicts[e] EXCEPT !.members = rest]
        BY <2>1, <2>5 DEF AfterErasure
      <3>2. /\ conflicts'[e].members = rest /\ conflicts'[e].winner = conflicts[e].winner
            /\ conflicts'[e].open = conflicts[e].open
        BY <2>1, <3>1 DEF Conflict
      <3> QED
        BY <2>5, <3>2
    <2> QED
      BY <2>3, <2>4, <2>5
  <1>7. \A f \in Ids : /\ facts'[f].vt = facts[f].vt /\ facts'[f].sup = facts[f].sup
                       /\ facts'[f].expired = facts[f].expired
    BY <1>4, <1>5 DEF Stays
  <1>8. ASSUME NEW e \in ConflictIds
        PROVE  IF conflicts'[e].open THEN OpenRecordFits(e, conflicts'[e].members)
               ELSE ClosedRecordFits(e)
    <2>1. /\ conflicts[e].members \subseteq Ids /\ conflicts[e].winner \in Ids \cup {None}
          /\ conflicts'[e].members = conflicts[e].members \ {x}
          /\ conflicts'[e].winner = conflicts[e].winner
      BY <1>6 DEF TInv, RecordsFit
    <2>2. CASE conflicts'[e].open
      <3>1. conflicts[e].open /\ conflicts[e].winner = None
        BY <1>6, <2>2, OpenMembers
      <3>2. \A f \in conflicts[e].members \ {x} :
              /\ facts'[f].group = e /\ facts'[f].sup = None /\ facts'[f].vt = None
              /\ facts'[f].invalid => facts'[f].cites # None
        BY <1>1, <1>5, <2>1, <3>1, OpenMembers DEF Stays
      <3>3. \A f, h \in conflicts[e].members \ {x} : facts'[f].slot = facts'[h].slot
        <4>1. \A f \in conflicts[e].members \ {x} : facts'[f].slot = facts[f].slot
          BY <1>5, <2>1 DEF Stays
        <4>2. \A f, h \in conflicts[e].members : facts[f].slot = facts[h].slot
          BY <3>1, OpenMembers
        <4> QED
          BY <4>1, <4>2
      <3>4. \E f, h \in conflicts[e].members \ {x} : f # h
        BY <1>6, <2>2
      <3> QED
        BY <1>3, <2>1, <2>2, <3>1, <3>2, <3>3, <3>4 DEF OpenRecordFits
    <2>3. CASE ~conflicts'[e].open
      <3>1. conflicts[e].winner # None =>
              \A f \in conflicts[e].members \ {conflicts[e].winner} :
                 facts[f].sup = conflicts[e].winner
        BY DEF TInv, ConflictsSound
      <3> QED
        BY <1>3, <1>7, <2>1, <2>3, <3>1 DEF ClosedRecordFits
    <2> QED
      BY <2>2, <2>3
  <1>9. RecordsFit' /\ ConflictsSound'
    BY <1>3, <1>8, RecordsKept
  <1>10. WinnersOpenEnded'
    BY <1>3, <1>6, <1>7 DEF TInv, WinnersOpenEnded, RecordsFit
  <1>11. \A f \in Ids : RowEvolves(f)
    BY <1>4, <1>5 DEF RowEvolves
  <1>12. \A f \in Ids : Elected(f) => Elected(f)'
    BY <1>3, <1>6 DEF Elected
  <1>13. LaterIsElected'
    BY <1>1, <1>3, <1>11, <1>12, LastId, LaterKeeps DEF TInv
  <1> QED
    BY <1>9, <1>10, <1>13 DEF TruthKept

-----------------------------------------------------------------------------
(* The invariant and its consequences.                                     *)

LEMMA InitTInv == Init => TInv
  <1> SUFFICES ASSUME Init PROVE TInv
    OBVIOUS
  <1>1. Ids = {} /\ ConflictIds = {}
    BY DEF Init, Ids, ConflictIds
  <1> QED
    BY <1>1, InitIInv DEF TInv, RecordsFit, WinnersOpenEnded, ConflictsSound, LaterIsElected

LEMMA NextTruth ==
    ASSUME TInv, Next
    PROVE  TInv'
  <1>1. IInv'
    BY NextKeeps DEF TInv
  <1>2. ASSUME NEW k \in Clients, NEW c \in Candidates, TypedWrite(k, c) PROVE TruthKept
    BY <1>2, AddStateTruth, SupersedeStateTruth, OpenStateConflictTruth, JoinConflictTruth,
       SettleConflictTruth DEF TypedWrite
  <1>3. ASSUME NEW k \in Clients, NEW u \in Untyped, UntypedWrite(k, u) PROVE TruthKept
    BY <1>3, AddUntypedTruth, ContradictUntypedTruth, MergeNearDuplicateTruth,
       ReplaceUntypedTruth DEF UntypedWrite
  <1>4. TruthKept
    BY <1>2, <1>3, ReplaceByDuplicateTruth, ResolveConflictTruth, EraseFactTruth DEF Next
  <1> QED
    BY <1>1, <1>4 DEF TInv, TruthKept

LEMMA TruthStepsKeep == TInv /\ [Next]_vars => TInv'
  <1>1. ASSUME TInv, UNCHANGED vars PROVE TInv'
    <2>1. IInv'
      BY <1>1, StepsKeep DEF TInv
    <2>2. UNCHANGED <<facts, conflicts, opened>> /\ Ids' = Ids
      BY <1>1 DEF vars, Ids
    <2>3. RecordsFit' /\ WinnersOpenEnded' /\ ConflictsSound'
      BY <1>1, <2>2, QuietRecords
    <2>4. LaterIsElected'
      BY <1>1, <2>2, SameElected, LastId, LaterKeeps DEF TInv, IInv, RowEvolves
    <2> QED
      BY <2>1, <2>3, <2>4 DEF TInv
  <1> QED
    BY <1>1, NextTruth

(* The invariant that carries the theorems below. *)
THEOREM TruthInvariant == Spec => []TInv
  BY InitTInv, TruthStepsKeep, PTL DEF Spec

(* An open conflict always has two members that are marked with it, share  *)
(* its slot and have not been replaced; an election leaves every other     *)
(* member linked to the winner, whatever is written or erased later.       *)
THEOREM ConflictsAreSound == Spec => []ConflictsSound
  <1>1. TInv => ConflictsSound
    BY DEF TInv
  <1> QED
    BY <1>1, TruthInvariant, PTL

(* An as-of read finds one value in a slot at every instant, unless a      *)
(* conflict is open on it or elected one of the two.                       *)
THEOREM IntervalsDisjoint == Spec => []BelievedIntervalsDisjoint
  <1>1. TInv => BelievedIntervalsDisjoint
    <2> SUFFICES ASSUME TInv, NEW f \in Ids, NEW h \in Ids,
                        f # h, facts[f].slot # NoSlot, facts[f].slot = facts[h].slot,
                        {f, h} \subseteq Believed(facts[f].slot),
                        facts[f].group = None, facts[h].group = None,
                        Overlaps(facts[f], facts[h])
                 PROVE  \E g \in ConflictIds : conflicts[g].winner \in {f, h}
      BY DEF BelievedIntervalsDisjoint
    <2>1. Holds(f) /\ Holds(h)
      BY DEF Believed, Holds
    <2>2. Overlaps(facts[h], facts[f])
      BY DEF Overlaps
    <2>3. f < h \/ h < f
      BY DEF TInv, IInv, TypeOK, Ids
    <2>4. Elected(f) \/ Elected(h)
      BY <2>1, <2>2, <2>3 DEF TInv, LaterIsElected
    <2> QED
      BY <2>4 DEF Elected
  <1> QED
    BY <1>1, TruthInvariant, PTL

-----------------------------------------------------------------------------
(* What a new fact may replace.                                            *)

Earned(f) ==
    facts[f].sup = None /\ facts'[f].sup = count + 1 =>
      LET new == facts'[count + 1] IN
      \/ new.claims # "none" /\ facts[f].group # None
      \/ /\ facts[f].auth <= new.auth
         /\ facts[f].claims = "confirmed" => new.claims # "none"
         /\ facts[f].slot # NoSlot /\ facts[f].auth = new.auth => new.vf > facts[f].vf

(* A fact the step links to no new one replaces nothing. *)
LEMMA NotReplaced ==
    ASSUME TypeOK, NEW f \in Ids, facts'[f].sup \in Ids \cup {facts[f].sup}
    PROVE  Earned(f)
  BY NoneIsNoId DEF Earned, TypeOK, Ids, None

LEMMA SupersedeStateEarned ==
    ASSUME TInv, NEW k \in Clients, NEW c \in Candidates, SupersedeState(k, c), NEW f \in Ids
    PROVE  Earned(f)
  <1>1. TypeOK /\ Ids' = 1..(count + 1) /\ Ids' = Ids \cup {count + 1} /\ count + 1 \notin Ids
    BY Growth DEF TInv, IInv, SupersedeState
  <1>2. PICK old \in Ids :
          /\ Outranks(c, old) /\ ~Protected(c, old)
          /\ facts' = [h \in 1..(count + 1) |->
                         IF h = count + 1 THEN StateRow(c, None)
                         ELSE IF h = old THEN Retired(h, count + 1, ClosedAt(h, c.vf))
                         ELSE facts[h]]
    BY DEF SupersedeState
  <1>3. facts'[count + 1] = StateRow(c, None) /\ (f # old => facts'[f] = facts[f])
    BY <1>1, <1>2
  <1>4. CASE f = old
    <2>1. c.auth \in Nat /\ c.vf \in Nat /\ facts[f].auth \in Nat /\ facts[f].vf \in Nat
      BY <1>1, CandidateTypes DEF TypeOK, Fact
    <2>2. /\ facts[f].auth <= c.auth /\ (facts[f].claims = "confirmed" => c.claims # "none")
          /\ facts[f].auth = c.auth => c.vf > facts[f].vf
      BY <1>2, <1>4, <2>1 DEF Protected, Outranks, Human
    <2> QED
      BY <1>3, <2>2, StateRowFields DEF Earned
  <1>5. CASE f # old
    BY <1>1, <1>3, <1>5, NotReplaced
  <1> QED
    BY <1>4, <1>5

LEMMA SettleConflictEarned ==
    ASSUME TInv, NEW k \in Clients, NEW c \in Candidates, SettleConflict(k, c), NEW f \in Ids
    PROVE  Earned(f)
  <1>1. /\ TypeOK /\ RowsSound
        /\ Ids' = 1..(count + 1) /\ Ids' = Ids \cup {count + 1} /\ count + 1 \notin Ids
    BY Growth DEF TInv, IInv, SettleConflict
  <1>2. WantsToSettle(k, c) /\ MayReplaceMembers(c)
    BY DEF SettleConflict
  <1>3. PICK g \in ConflictIds :
          /\ Groups(Current(c.slot)) = {g} /\ conflicts[g].open
          /\ \A h \in conflicts[g].members : facts[h].group = g /\ ~facts[h].invalid
          /\ facts' = [h \in 1..(count + 1) |->
                         IF h = count + 1 THEN StateRow(c, None)
                         ELSE IF h \in conflicts[g].members THEN Retired(h, count + 1, c.vf)
                         ELSE facts[h]]
    BY DEF SettleConflict
  <1>4. /\ facts'[count + 1] = StateRow(c, None)
        /\ f \notin conflicts[g].members => facts'[f] = facts[f]
    BY <1>1, <1>3
  <1>5. g # None
    BY <1>1, RecordIds
  <1>6. CASE f \notin conflicts[g].members
    BY <1>1, <1>4, <1>6, NotReplaced
  <1>7. CASE f \in conflicts[g].members /\ Human(c)
    <2>1. facts[f].group # None
      BY <1>3, <1>5, <1>7
    <2>2. facts'[count + 1].claims # "none"
      BY <1>4, <1>7, StateRowFields DEF Human
    <2> QED
      BY <2>1, <2>2 DEF Earned
  <1>8. CASE f \in conflicts[g].members /\ ~Human(c)
    <2>1. PICK h \in Current(c.slot) : facts[h].group = g
      BY <1>3 DEF Groups
    <2>2. h \in conflicts[g].members /\ facts[h].slot = c.slot
      BY <1>1, <1>5, <2>1 DEF RowsSound, Current
    <2>3. facts[f].slot = c.slot /\ facts[f].sup = None /\ facts[f].vt = None
      BY <1>3, <1>8, <2>2, OpenMembers
    <2>4. f \in Current(c.slot)
      BY <1>3, <1>8, <2>3 DEF Current, InForce
    <2>5. ~Protected(c, f) /\ (Outranks(c, f) \/ c.auth > facts[f].auth)
      BY <1>2, <1>8, <2>4 DEF MayReplaceMembers, WantsToSettle, WinsConflict
    <2>6. c.auth \in Nat /\ c.vf \in Nat /\ facts[f].auth \in Nat /\ facts[f].vf \in Nat
      BY <1>1, CandidateTypes DEF TypeOK, Fact
    <2>7. /\ facts[f].auth <= c.auth /\ (facts[f].claims = "confirmed" => c.claims # "none")
          /\ facts[f].auth = c.auth => c.vf > facts[f].vf
      BY <2>5, <2>6 DEF Protected, Outranks, Human
    <2> QED
      BY <1>4, <2>7, StateRowFields DEF Earned
  <1> QED
    BY <1>6, <1>7, <1>8

LEMMA TypedWriteEarned ==
    ASSUME TInv, NEW k \in Clients, NEW c \in Candidates, TypedWrite(k, c), NEW f \in Ids
    PROVE  Earned(f)
  <1>1. TypeOK /\ f # count + 1 /\ f \in 1..(count + 1)
    BY DEF TInv, IInv, TypeOK, Ids
  <1>2. CASE AddState(k, c)
    BY <1>1, <1>2, NotReplaced DEF AddState, Insert
  <1>3. CASE JoinConflict(k, c)
    BY <1>1, <1>3, NotReplaced DEF JoinConflict, Insert
  <1>4. CASE OpenStateConflict(k, c)
    <2>1. facts[f] \in Fact
      BY <1>1 DEF TypeOK
    <2>2. facts'[f] \in {facts[f], [facts[f] EXCEPT !.group = opened + 1]}
      BY <1>1, <1>4 DEF OpenStateConflict
    <2>3. facts'[f].sup = facts[f].sup
      BY <2>1, <2>2 DEF Fact
    <2> QED
      BY <1>1, <2>3, NotReplaced
  <1> QED
    BY <1>2, <1>3, <1>4, SupersedeStateEarned, SettleConflictEarned DEF TypedWrite

(* An unprotected memory gives way to the text that replaces it. *)
LEMMA UntypedReplacementEarned ==
    ASSUME TypeOK, NEW u \in Untyped, NEW old \in Ids, facts[old].slot = NoSlot,
           facts[old].claims = "confirmed" => Human(u), ~(facts[old].auth > u.auth),
           facts'[count + 1] = UntypedRow(u, None),
           NEW f \in Ids, f # old => facts'[f].sup = facts[f].sup
    PROVE  Earned(f)
  <1>1. CASE f = old
    <2>1. u.auth \in Nat /\ facts[f].auth \in Nat
      BY UntypedTypes DEF TypeOK, Fact
    <2>2. facts[f].auth <= u.auth /\ (facts[f].claims = "confirmed" => u.claims # "none")
      BY <1>1, <2>1 DEF Human
    <2> QED
      BY <1>1, <2>2, UntypedRowFields DEF Earned
  <1>2. CASE f # old
    BY <1>2, NotReplaced
  <1> QED
    BY <1>1, <1>2

LEMMA UntypedWriteEarned ==
    ASSUME TInv, NEW k \in Clients, NEW u \in Untyped, UntypedWrite(k, u), NEW f \in Ids
    PROVE  Earned(f)
  <1>1. TypeOK /\ f # count + 1 /\ f \in 1..(count + 1) /\ count + 1 \in 1..(count + 1)
    BY DEF TInv, IInv, TypeOK, Ids
  <1>2. CASE AddUntyped(k, u)
    BY <1>1, <1>2, NotReplaced DEF AddUntyped, Insert
  <1>3. CASE ContradictUntyped(k, u)
    <2>1. facts[f] \in Fact
      BY <1>1 DEF TypeOK
    <2>2. facts'[f] \in {facts[f], [facts[f] EXCEPT !.group = opened + 1]}
      BY <1>1, <1>3 DEF ContradictUntyped
    <2>3. facts'[f].sup = facts[f].sup
      BY <2>1, <2>2 DEF Fact
    <2> QED
      BY <1>1, <2>3, NotReplaced
  <1>4. CASE MergeNearDuplicate(k, u)
    <2>1. PICK old \in Ids :
            \/ /\ facts[old].slot = NoSlot
               /\ facts[old].claims # "confirmed" /\ facts[old].auth <= u.auth
               /\ facts' = [h \in 1..(count + 1) |->
                              IF h = count + 1 THEN UntypedRow(u, None)
                              ELSE IF h = old THEN Retired(h, count + 1, facts[h].vt)
                              ELSE facts[h]]
            \/ Insert([UntypedRow(u, None) EXCEPT
                          !.invalid = TRUE, !.expired = TRUE, !.sup = old])
      BY <1>4 DEF MergeNearDuplicate
    <2>2. CASE Insert([UntypedRow(u, None) EXCEPT
                          !.invalid = TRUE, !.expired = TRUE, !.sup = old])
      <3>1. facts'[f] = facts[f]
        BY <1>1, <2>2 DEF Insert
      <3> QED
        BY <1>1, <3>1, NotReplaced
    <2>3. CASE ~Insert([UntypedRow(u, None) EXCEPT
                          !.invalid = TRUE, !.expired = TRUE, !.sup = old])
      <3>1. facts'[count + 1] = UntypedRow(u, None) /\ (f # old => facts'[f] = facts[f])
        BY <1>1, <2>1, <2>3
      <3>2. facts[old].auth <= u.auth
        BY <2>1, <2>3, Zenon
      <3>3. facts[old].auth \in Nat /\ u.auth \in Nat
        BY <1>1, UntypedTypes DEF TypeOK, Fact
      <3>4. ~(facts[old].auth > u.auth)
        BY <3>2, <3>3
      <3> QED
        BY <1>1, <2>1, <2>3, <3>1, <3>4, UntypedReplacementEarned
    <2> QED
      BY <2>2, <2>3
  <1>5. CASE ReplaceUntyped(k, u)
    <2>1. /\ u.target \in Ids /\ facts[u.target].slot = NoSlot /\ ~Protected(u, u.target)
          /\ facts' = [h \in 1..(count + 1) |->
                         IF h = count + 1 THEN UntypedRow(u, None)
                         ELSE IF h = u.target THEN Retired(h, count + 1, facts[h].vt)
                         ELSE facts[h]]
      BY <1>5 DEF ReplaceUntyped, Replaceable
    <2>2. facts'[count + 1] = UntypedRow(u, None) /\ (f # u.target => facts'[f] = facts[f])
      BY <1>1, <2>1
    <2>3. /\ ~(facts[u.target].auth > u.auth)
          /\ facts[u.target].claims = "confirmed" => Human(u)
      BY <2>1 DEF Protected
    <2> QED
      BY <1>1, <2>1, <2>2, <2>3, UntypedReplacementEarned
  <1> QED
    BY <1>2, <1>3, <1>4, <1>5 DEF UntypedWrite

(* Resolution and a stored duplicate link to a fact there was; erasure     *)
(* links nothing.                                                          *)
LEMMA OthersEarned ==
    ASSUME TInv, NEW f \in Ids,
           \/ \E k \in Clients, u \in Untyped : ReplaceByDuplicate(k, u)
           \/ \E k \in Clients, g \in ConflictIds, w \in Ids : ResolveConflict(k, g, w)
           \/ \E x \in Ids : EraseFact(x)
    PROVE  Earned(f)
  <1>1. TypeOK /\ facts[f] \in Fact /\ DOMAIN facts = Ids
    BY DEF TInv, IInv, TypeOK
  <1>2. ASSUME NEW k \in Clients, NEW u \in Untyped, ReplaceByDuplicate(k, u) PROVE Earned(f)
    <2>1. PICK old \in Ids :
            facts' = [facts EXCEPT ![u.target] = Retired(u.target, old, facts[u.target].vt)]
      BY <1>2 DEF ReplaceByDuplicate
    <2>2. facts'[f] = facts[f] \/ facts'[f].sup = old
      BY <1>1, <2>1, RetiredFields
    <2> QED
      BY <1>1, <2>2, NotReplaced
  <1>3. ASSUME NEW k \in Clients, NEW g \in ConflictIds, NEW w \in Ids, ResolveConflict(k, g, w)
        PROVE Earned(f)
    <2>1. facts'[f] \in {facts[f], [facts[f] EXCEPT !.group = None], Retired(f, w, facts[w].vf)}
      BY <1>3 DEF ResolveConflict
    <2>2. facts'[f].sup \in {facts[f].sup, w}
      BY <1>1, <2>1, RetiredFields DEF Fact
    <2> QED
      BY <1>1, <2>2, NotReplaced
  <1>4. ASSUME NEW x \in Ids, EraseFact(x) PROVE Earned(f)
    <2>1. facts'[f] \in {facts[f], [facts[f] EXCEPT !.invalid = TRUE], ErasedRow(f)}
      BY <1>4 DEF EraseFact
    <2>2. facts'[f].sup = facts[f].sup
      BY <1>1, <2>1, ErasedRowFields DEF Fact
    <2> QED
      BY <1>1, <2>2, NotReplaced
  <1> QED
    BY <1>2, <1>3, <1>4

(* A newly written fact replaces another only with the authority to, on    *)
(* every path of the write service: by trust and freshness, or as a human  *)
(* correction of an open conflict.                                         *)
THEOREM TruthIsEarned == Spec => TruthReplacement
  <1>1. TInv /\ Next => \A f \in Ids : Earned(f)
    BY TypedWriteEarned, UntypedWriteEarned, OthersEarned DEF Next
  <1>2. TInv /\ [Next]_vars =>
          [\A f \in Ids :
             facts[f].sup = None /\ facts'[f].sup = count + 1 =>
               LET new == facts'[count + 1] IN
               \/ new.claims # "none" /\ facts[f].group # None
               \/ /\ facts[f].auth <= new.auth
                  /\ facts[f].claims = "confirmed" => new.claims # "none"
                  /\ facts[f].slot # NoSlot /\ facts[f].auth = new.auth => new.vf > facts[f].vf]_vars
    BY <1>1 DEF Earned
  <1> QED
    BY <1>2, TruthInvariant, PTL DEF Spec, TruthReplacement

-----------------------------------------------------------------------------
(* FactReads: the stamps of rows and the trees their links form.           *)

(* Stamps are moments that have been, and what is out of force has one.    *)
ClocksFit ==
    /\ now \in 1..MaxNow
    /\ created \in [Ids -> 1..now]
    /\ left \in [Ids -> 0..now]
    /\ \A f \in Ids : facts[f].invalid => left[f] # None
    /\ recorded \in [Writers -> 0..now]

(* Erased text is out of force; only a superseded fact expires; the winner *)
(* of a conflict has lost its mark.                                        *)
ErasedIsOut == \A f \in Ids : ~Readable(f) => facts[f].invalid

OnlySupersededExpire == \A f \in Ids : facts[f].expired => facts[f].sup # None

WinnersUnmarked ==
    \A g \in ConflictIds :
        conflicts[g].winner # None => facts[conflicts[g].winner].group # g

(* The links are a forest: every fact has the end of its chain of          *)
(* successors as its root.                                                 *)
Rooted(root) ==
    /\ root \in [Ids -> Ids]
    /\ \A f \in Ids :
         /\ facts[root[f]].sup = None
         /\ facts[f].sup = None => root[f] = f
         /\ facts[f].sup # None => facts[f].sup \in Ids /\ root[f] = root[facts[f].sup]

(* The typed facts of a tree have one slot, which is that of its root      *)
(* unless the root was erased: no untyped fact succeeds a typed one.       *)
OneSlotPerTree(root) ==
    /\ \A f, g \in Ids :
         /\ facts[f].slot # NoSlot /\ facts[g].slot # NoSlot /\ root[f] = root[g]
         => facts[f].slot = facts[g].slot
    /\ \A f \in Ids :
         /\ facts[f].slot # NoSlot /\ Readable(root[f])
         => facts[root[f]].slot = facts[f].slot

TreesKeepSlots == \E root \in [Ids -> Ids] : Rooted(root) /\ OneSlotPerTree(root)

RowsTold == ErasedIsOut /\ OnlySupersededExpire /\ WinnersUnmarked /\ TreesKeepSlots

RInv == TInv /\ ClocksFit /\ RowsTold

-----------------------------------------------------------------------------
(* What a transaction does to the rows: a row remains, but for its text,   *)
(* its mark and its being in force; or it gives way to an heir.            *)

Remains(f) ==
    /\ facts'[f].sup = facts[f].sup /\ facts'[f].expired = facts[f].expired
    /\ facts'[f].vt = facts[f].vt
    /\ facts[f].invalid => facts'[f].invalid
    /\ \/ facts'[f].slot = facts[f].slot /\ facts'[f].value = facts[f].value
       \/ facts'[f].slot = NoSlot /\ facts'[f].value = Erased /\ facts'[f].invalid

GivesWay(f, w) ==
    /\ InForce(f) /\ f # w
    /\ facts'[f].sup = w /\ facts'[f].expired /\ facts'[f].invalid
    /\ facts'[f].slot = facts[f].slot /\ facts'[f].value = facts[f].value
    /\ facts[f].slot \in {NoSlot, facts'[w].slot}

Heir(w) == w \in Ids' /\ facts'[w].sup = None /\ facts'[w].value # Erased

Arrives(f, w) ==
    /\ facts'[f].value # Erased
    /\ \/ facts'[f].sup = None /\ ~facts'[f].expired
       \/ facts'[f].sup = w /\ facts'[f].slot = NoSlot /\ f # w /\ Heir(w)

RowsStep(w) ==
    /\ Ids \subseteq Ids'
    /\ \A f \in Ids : Remains(f) \/ (GivesWay(f, w) /\ Heir(w))
    /\ \A f \in Ids' \ Ids : Arrives(f, w)

(* What it does to marks and elections: only an open conflict marks a      *)
(* fact, and an election unmarks its winner.                               *)
MarksStep ==
    /\ \A f \in Ids' : facts'[f].group # None =>
         \/ f \in Ids /\ facts[f].group = facts'[f].group
         \/ conflicts'[facts'[f].group].open
    /\ \A g \in ConflictIds' : conflicts'[g].winner # None =>
         \/ g \in ConflictIds /\ conflicts'[g].winner = conflicts[g].winner
         \/ facts'[conflicts'[g].winner].group = None

Told == MarksStep /\ \E w : RowsStep(w)

(* A row that a transaction writes has the text it was asked to write.     *)
LEMMA StateRowTold ==
    ASSUME NEW c \in Candidates, NEW g
    PROVE  StateRow(c, g).value # Erased /\ ~StateRow(c, g).expired
  BY FactStoreAssumption DEF StateRow, Candidates

LEMMA UntypedRowTold ==
    ASSUME NEW u \in Untyped, NEW g
    PROVE  UntypedRow(u, g).value # Erased /\ ~UntypedRow(u, g).expired
  BY FactStoreAssumption DEF UntypedRow, Untyped

LEMMA MarkedRemains ==
    ASSUME TypeOK, NEW f \in Ids, NEW g, facts'[f] = [facts[f] EXCEPT !.group = g]
    PROVE  Remains(f) /\ facts'[f].group = g
  <1>1. facts[f] \in Fact
    BY DEF TypeOK
  <1> QED
    BY <1>1 DEF Remains, Fact

LEMMA RetiredGivesWay ==
    ASSUME TypeOK, NEW f \in Ids, NEW w, NEW vt, facts'[f] = Retired(f, w, vt),
           InForce(f), f # w, facts[f].slot \in {NoSlot, facts'[w].slot}
    PROVE  GivesWay(f, w) /\ facts'[f].group = facts[f].group
  <1>1. facts[f] \in Fact
    BY DEF TypeOK
  <1>2. facts'[f].value = facts[f].value /\ facts'[f].group = facts[f].group
    BY <1>1 DEF Retired, Fact
  <1> QED
    BY <1>2, RetiredFields DEF GivesWay

(* A new row n, which nothing succeeds, and what it does to the others.    *)
LEMMA NewRowStep ==
    ASSUME TypeOK, NEW n, n \notin Ids, Ids' = Ids \cup {n},
           facts'[n].sup = None, ~facts'[n].expired, facts'[n].value # Erased,
           \A f \in Ids :
             \/ facts'[f] = facts[f]
             \/ \E g : facts'[f] = [facts[f] EXCEPT !.group = g]
             \/ /\ \E vt : facts'[f] = Retired(f, n, vt)
                /\ InForce(f) /\ facts[f].slot \in {NoSlot, facts'[n].slot}
    PROVE  RowsStep(n)
  <1>1. Heir(n)
    BY DEF Heir
  <1>2. ASSUME NEW f \in Ids PROVE Remains(f) \/ (GivesWay(f, n) /\ Heir(n))
    <2>1. CASE facts'[f] = facts[f]
      BY <2>1 DEF Remains
    <2>2. CASE \E g : facts'[f] = [facts[f] EXCEPT !.group = g]
      BY <2>2, MarkedRemains
    <2>3. CASE /\ \E vt : facts'[f] = Retired(f, n, vt)
               /\ InForce(f) /\ facts[f].slot \in {NoSlot, facts'[n].slot}
      BY <1>1, <2>3, RetiredGivesWay
    <2> QED
      BY <2>1, <2>2, <2>3
  <1>3. \A f \in Ids' \ Ids : Arrives(f, n)
    BY DEF Arrives
  <1> QED
    BY <1>2, <1>3 DEF RowsStep

LEMMA QuietMarks ==
    ASSUME UNCHANGED <<conflicts, opened>>,
           \A f \in Ids' : facts'[f].group = None \/ (f \in Ids /\ facts'[f].group = facts[f].group)
    PROVE  MarksStep
  BY DEF MarksStep, ConflictIds

LEMMA NewConflictMarks ==
    ASSUME TypeOK, NEW S, OpenConflict(S), opened' = opened + 1,
           \A f \in Ids' : \/ facts'[f].group \in {None, opened + 1}
                           \/ f \in Ids /\ facts'[f].group = facts[f].group
    PROVE  MarksStep
  <1>1. /\ ConflictIds' = 1..(opened + 1) /\ ConflictIds' = ConflictIds \cup {opened + 1}
        /\ opened + 1 \in 1..(opened + 1)
    BY DEF TypeOK, ConflictIds
  <1>2. conflicts'[opened + 1] = [open |-> TRUE, members |-> S, winner |-> None]
    BY <1>1 DEF OpenConflict
  <1>3. \A g \in ConflictIds : g # opened + 1 => conflicts'[g] = conflicts[g]
    BY <1>1 DEF OpenConflict
  <1> QED
    BY <1>1, <1>2, <1>3 DEF MarksStep

-----------------------------------------------------------------------------
(* Typed writes.                                                           *)

LEMMA AddStateTold ==
    ASSUME TInv, NEW k \in Clients, NEW c \in Candidates, AddState(k, c)
    PROVE  Told
  <1> DEFINE n == count + 1
  <1>1. TypeOK /\ Ids' = 1..n /\ Ids' = Ids \cup {n} /\ n \notin Ids
    BY Growth DEF TInv, IInv, AddState
  <1>2. facts'[n] = StateRow(c, None) /\ \A f \in Ids : facts'[f] = facts[f]
    BY <1>1 DEF AddState, Insert
  <1>3. RowsStep(n)
    BY <1>1, <1>2, StateRowTold, StateRowFields, NewRowStep
  <1>4. MarksStep
    BY <1>1, <1>2, StateRowFields, QuietMarks DEF AddState
  <1> QED
    BY <1>3, <1>4 DEF Told

LEMMA SupersedeStateTold ==
    ASSUME TInv, NEW k \in Clients, NEW c \in Candidates, SupersedeState(k, c)
    PROVE  Told
  <1> DEFINE n == count + 1
  <1>1. TypeOK /\ Ids' = 1..n /\ Ids' = Ids \cup {n} /\ n \notin Ids
    BY Growth DEF TInv, IInv, SupersedeState
  <1>2. PICK old \in Ids :
          /\ old \in Overlapping(c) /\ Settled(old)
          /\ facts' = [f \in 1..n |->
                         IF f = n THEN StateRow(c, None)
                         ELSE IF f = old THEN Retired(f, n, ClosedAt(f, c.vf))
                         ELSE facts[f]]
    BY DEF SupersedeState, Oldest
  <1>3. /\ facts'[n] = StateRow(c, None) /\ facts'[old] = Retired(old, n, ClosedAt(old, c.vf))
        /\ \A f \in Ids : f # old => facts'[f] = facts[f]
    BY <1>1, <1>2
  <1>4. facts[old].slot = c.slot /\ InForce(old)
    BY <1>2 DEF Overlapping, Believed, Settled
  <1>5. RowsStep(n)
    BY <1>1, <1>3, <1>4, StateRowTold, StateRowFields, NewRowStep
  <1>6. facts'[old].group = facts[old].group
    BY <1>1, <1>3 DEF TypeOK, Retired, Fact
  <1>7. MarksStep
    BY <1>1, <1>3, <1>6, StateRowFields, QuietMarks DEF SupersedeState
  <1> QED
    BY <1>5, <1>7 DEF Told

LEMMA OpenStateConflictTold ==
    ASSUME TInv, NEW k \in Clients, NEW c \in Candidates, OpenStateConflict(k, c)
    PROVE  Told
  <1> DEFINE n == count + 1
  <1>1. TypeOK /\ Ids' = 1..n /\ Ids' = Ids \cup {n} /\ n \notin Ids
    BY Growth DEF TInv, IInv, OpenStateConflict
  <1>2. PICK old \in Ids :
          /\ facts' = [f \in 1..n |->
                         IF f = n THEN StateRow(c, opened + 1)
                         ELSE IF f = old THEN [facts[f] EXCEPT !.group = opened + 1]
                         ELSE facts[f]]
          /\ OpenConflict({old, n})
    BY DEF OpenStateConflict
  <1>3. /\ facts'[n] = StateRow(c, opened + 1)
        /\ facts'[old] = [facts[old] EXCEPT !.group = opened + 1]
        /\ \A f \in Ids : f # old => facts'[f] = facts[f]
    BY <1>1, <1>2
  <1>4. RowsStep(n)
    <2>1. \A f \in Ids : facts'[f] = facts[f] \/ \E g : facts'[f] = [facts[f] EXCEPT !.group = g]
      BY <1>3
    <2>2. facts'[n].sup = None /\ ~facts'[n].expired /\ facts'[n].value # Erased
      BY <1>3, StateRowTold, StateRowFields
    <2> QED
      BY <1>1, <2>1, <2>2, NewRowStep
  <1>5. facts'[old].group = opened + 1
    BY <1>1, <1>3, MarkedRemains
  <1>6. MarksStep
    BY <1>1, <1>2, <1>3, <1>5, StateRowFields, NewConflictMarks DEF OpenStateConflict
  <1> QED
    BY <1>4, <1>6 DEF Told

LEMMA JoinConflictTold ==
    ASSUME TInv, NEW k \in Clients, NEW c \in Candidates, JoinConflict(k, c)
    PROVE  Told
  <1> DEFINE n == count + 1
  <1>1. TypeOK /\ Ids' = 1..n /\ Ids' = Ids \cup {n} /\ n \notin Ids
    BY Growth DEF TInv, IInv, JoinConflict
  <1>2. PICK g \in ConflictIds :
          /\ conflicts[g].open /\ Insert(StateRow(c, g))
          /\ conflicts' = [conflicts EXCEPT ![g].members = @ \cup {n}]
    BY DEF JoinConflict
  <1>3. facts'[n] = StateRow(c, g) /\ \A f \in Ids : facts'[f] = facts[f]
    BY <1>1, <1>2 DEF Insert
  <1>4. RowsStep(n)
    BY <1>1, <1>3, StateRowTold, StateRowFields, NewRowStep
  <1>5. conflicts[g] \in Conflict /\ DOMAIN conflicts = ConflictIds /\ ConflictIds' = ConflictIds
    BY <1>1 DEF TypeOK, JoinConflict, ConflictIds
  <1>6. /\ conflicts'[g].open /\ conflicts'[g].winner = conflicts[g].winner
        /\ \A e \in ConflictIds : e # g => conflicts'[e] = conflicts[e]
    BY <1>2, <1>5 DEF Conflict
  <1>7. MarksStep
    BY <1>1, <1>3, <1>5, <1>6, StateRowFields DEF MarksStep
  <1> QED
    BY <1>4, <1>7 DEF Told

LEMMA SettleConflictTold ==
    ASSUME TInv, NEW k \in Clients, NEW c \in Candidates, SettleConflict(k, c)
    PROVE  Told
  <1> DEFINE n == count + 1
  <1>1. TypeOK /\ RowsSound /\ Ids' = 1..n /\ Ids' = Ids \cup {n} /\ n \notin Ids
    BY Growth DEF TInv, IInv, SettleConflict
  <1>2. PICK g \in ConflictIds :
          /\ Groups(Current(c.slot)) = {g} /\ conflicts[g].open
          /\ \A f \in conflicts[g].members : facts[f].group = g /\ ~facts[f].invalid
          /\ facts' = [f \in 1..n |->
                         IF f = n THEN StateRow(c, None)
                         ELSE IF f \in conflicts[g].members THEN Retired(f, n, c.vf)
                         ELSE facts[f]]
          /\ conflicts' = [conflicts EXCEPT ![g].open = FALSE,
                                            ![g].members = @ \cup {n},
                                            ![g].winner = n]
    BY DEF SettleConflict
  <1>3. /\ facts'[n] = StateRow(c, None)
        /\ \A f \in Ids : f \in conflicts[g].members => facts'[f] = Retired(f, n, c.vf)
        /\ \A f \in Ids : f \notin conflicts[g].members => facts'[f] = facts[f]
    BY <1>1, <1>2
  <1>4. PICK h \in Current(c.slot) : facts[h].group = g /\ g # None
    BY <1>1, <1>2, RecordIds DEF Groups
  <1>5. h \in conflicts[g].members /\ facts[h].slot = c.slot
    BY <1>1, <1>4 DEF RowsSound, Current
  <1>6. \A f \in conflicts[g].members : f \in Ids /\ InForce(f) /\ facts[f].slot = c.slot
    BY <1>2, <1>5, OpenMembers DEF InForce
  <1>7. RowsStep(n)
    BY <1>1, <1>3, <1>6, StateRowTold, StateRowFields, NewRowStep
  <1>8. \A f \in Ids : f \in conflicts[g].members => facts'[f].group = facts[f].group
    BY <1>1, <1>3, ZenonT(60) DEF TypeOK, Retired, Fact
  <1>9. conflicts[g] \in Conflict /\ DOMAIN conflicts = ConflictIds /\ ConflictIds' = ConflictIds
    BY <1>1 DEF TypeOK, SettleConflict, ConflictIds
  <1>10. /\ conflicts'[g].winner = n
         /\ \A e \in ConflictIds : e # g => conflicts'[e] = conflicts[e]
    BY <1>2, <1>9 DEF Conflict
  <1>11. MarksStep
    BY <1>1, <1>3, <1>8, <1>9, <1>10, StateRowFields DEF MarksStep
  <1> QED
    BY <1>7, <1>11 DEF Told

-----------------------------------------------------------------------------
(* Untyped writes.                                                         *)

LEMMA AddUntypedTold ==
    ASSUME TInv, NEW k \in Clients, NEW u \in Untyped, AddUntyped(k, u)
    PROVE  Told
  <1> DEFINE n == count + 1
  <1>1. TypeOK /\ Ids' = 1..n /\ Ids' = Ids \cup {n} /\ n \notin Ids
    BY Growth DEF TInv, IInv, AddUntyped
  <1>2. facts'[n] = UntypedRow(u, None) /\ \A f \in Ids : facts'[f] = facts[f]
    BY <1>1 DEF AddUntyped, Insert
  <1>3. RowsStep(n)
    BY <1>1, <1>2, UntypedRowTold, UntypedRowFields, NewRowStep
  <1>4. MarksStep
    BY <1>1, <1>2, UntypedRowFields, QuietMarks DEF AddUntyped
  <1> QED
    BY <1>3, <1>4 DEF Told

LEMMA ContradictUntypedTold ==
    ASSUME TInv, NEW k \in Clients, NEW u \in Untyped, ContradictUntyped(k, u)
    PROVE  Told
  <1> DEFINE n == count + 1
  <1>1. TypeOK /\ Ids' = 1..n /\ Ids' = Ids \cup {n} /\ n \notin Ids
    BY Growth DEF TInv, IInv, ContradictUntyped
  <1>2. PICK old \in Ids :
          /\ facts' = [f \in 1..n |->
                         IF f = n THEN UntypedRow(u, opened + 1)
                         ELSE IF f = old THEN [facts[f] EXCEPT !.group = opened + 1]
                         ELSE facts[f]]
          /\ OpenConflict({old, n})
    BY DEF ContradictUntyped, SettledUntyped
  <1>3. /\ facts'[n] = UntypedRow(u, opened + 1)
        /\ facts'[old] = [facts[old] EXCEPT !.group = opened + 1]
        /\ \A f \in Ids : f # old => facts'[f] = facts[f]
    BY <1>1, <1>2
  <1>4. RowsStep(n)
    <2>1. \A f \in Ids : facts'[f] = facts[f] \/ \E g : facts'[f] = [facts[f] EXCEPT !.group = g]
      BY <1>3
    <2>2. facts'[n].sup = None /\ ~facts'[n].expired /\ facts'[n].value # Erased
      BY <1>3, UntypedRowTold, UntypedRowFields
    <2> QED
      BY <1>1, <2>1, <2>2, NewRowStep
  <1>5. facts'[old].group = opened + 1
    BY <1>1, <1>3, MarkedRemains
  <1>6. MarksStep
    BY <1>1, <1>2, <1>3, <1>5, UntypedRowFields, NewConflictMarks DEF ContradictUntyped
  <1> QED
    BY <1>4, <1>6 DEF Told

(* A text replaces an untyped fact in force.                               *)
LEMMA UntypedReplacementTold ==
    ASSUME TypeOK, NEW u \in Untyped, NEW n, n \notin Ids, Ids' = Ids \cup {n},
           NEW old \in Ids, Settled(old), facts[old].slot = NoSlot,
           facts'[n] = UntypedRow(u, None), NEW vt, facts'[old] = Retired(old, n, vt),
           \A f \in Ids : f # old => facts'[f] = facts[f],
           UNCHANGED <<conflicts, opened>>
    PROVE  Told
  <1>1. RowsStep(n)
    BY UntypedRowTold, UntypedRowFields, NewRowStep DEF Settled
  <1>2. facts'[old].group = facts[old].group
    BY DEF TypeOK, Retired, Fact
  <1>3. MarksStep
    BY <1>2, UntypedRowFields, QuietMarks
  <1> QED
    BY <1>1, <1>3 DEF Told

LEMMA MergeNearDuplicateTold ==
    ASSUME TInv, ErasedIsOut, NEW k \in Clients, NEW u \in Untyped, MergeNearDuplicate(k, u)
    PROVE  Told
  <1> DEFINE n == count + 1
             lost(old) == [UntypedRow(u, None) EXCEPT
                             !.invalid = TRUE, !.expired = TRUE, !.sup = old]
  <1>1. /\ TypeOK /\ Ids' = 1..n /\ Ids' = Ids \cup {n} /\ n \notin Ids
        /\ UNCHANGED <<conflicts, opened>>
    BY Growth DEF TInv, IInv, MergeNearDuplicate
  <1>2. PICK old \in Ids :
          /\ Settled(old)
          /\ \/ /\ facts[old].slot = NoSlot
                /\ facts' = [f \in 1..n |->
                               IF f = n THEN UntypedRow(u, None)
                               ELSE IF f = old THEN Retired(f, n, facts[f].vt)
                               ELSE facts[f]]
             \/ Insert(lost(old))
    BY DEF MergeNearDuplicate
  <1>3. CASE Insert(lost(old))
    <2>1. facts'[n] = lost(old) /\ \A f \in Ids : facts'[f] = facts[f]
      BY <1>1, <1>3 DEF Insert
    <2>2. /\ lost(old).value = UntypedRow(u, None).value /\ lost(old).sup = old
          /\ lost(old).slot = NoSlot /\ lost(old).group = None
      BY DEF UntypedRow
    <2>3. Heir(old)
      BY <1>1, <1>2, <2>1 DEF Heir, ErasedIsOut, Readable, Settled, InForce
    <2>4. RowsStep(old)
      BY <1>1, <2>1, <2>2, <2>3, UntypedRowTold DEF RowsStep, Remains, Arrives
    <2>5. MarksStep
      BY <1>1, <2>1, <2>2, QuietMarks
    <2> QED
      BY <2>4, <2>5 DEF Told
  <1>4. CASE ~Insert(lost(old))
    <2>1. /\ facts[old].slot = NoSlot /\ facts'[n] = UntypedRow(u, None)
          /\ facts'[old] = Retired(old, n, facts[old].vt)
          /\ \A f \in Ids : f # old => facts'[f] = facts[f]
      BY <1>1, <1>2, <1>4
    <2> QED
      BY <1>1, <1>2, <2>1, UntypedReplacementTold
  <1> QED
    BY <1>3, <1>4

LEMMA ReplaceUntypedTold ==
    ASSUME TInv, NEW k \in Clients, NEW u \in Untyped, ReplaceUntyped(k, u)
    PROVE  Told
  <1> DEFINE n == count + 1
  <1>1. TypeOK /\ Ids' = 1..n /\ Ids' = Ids \cup {n} /\ n \notin Ids
    BY Growth DEF TInv, IInv, ReplaceUntyped
  <1>2. /\ u.target \in Ids /\ facts[u.target].slot = NoSlot /\ Settled(u.target)
        /\ facts' = [h \in 1..n |->
                       IF h = n THEN UntypedRow(u, None)
                       ELSE IF h = u.target THEN Retired(h, n, facts[h].vt)
                       ELSE facts[h]]
    BY DEF ReplaceUntyped, Replaceable
  <1>3. /\ facts'[n] = UntypedRow(u, None)
        /\ facts'[u.target] = Retired(u.target, n, facts[u.target].vt)
        /\ \A f \in Ids : f # u.target => facts'[f] = facts[f]
    BY <1>1, <1>2
  <1> QED
    BY <1>1, <1>2, <1>3, UntypedReplacementTold DEF ReplaceUntyped

LEMMA ReplaceByDuplicateTold ==
    ASSUME TInv, ErasedIsOut, NEW k \in Clients, NEW u \in Untyped, ReplaceByDuplicate(k, u)
    PROVE  Told
  <1> DEFINE x == u.target
  <1>1. TypeOK /\ x \in Ids /\ facts[x].slot = NoSlot /\ Settled(x) /\ Ids' = Ids
        /\ UNCHANGED <<conflicts, opened>>
    BY DEF TInv, IInv, ReplaceByDuplicate, Replaceable, Ids
  <1>2. PICK old \in Ids :
          /\ Settled(old) /\ old # x
          /\ facts' = [facts EXCEPT ![x] = Retired(x, old, facts[x].vt)]
    BY DEF ReplaceByDuplicate, Oldest, Duplicates
  <1>3. /\ facts'[x] = Retired(x, old, facts[x].vt)
        /\ \A f \in Ids : f # x => facts'[f] = facts[f]
    BY <1>1, <1>2 DEF TypeOK
  <1>4. GivesWay(x, old) /\ facts'[x].group = facts[x].group
    BY <1>1, <1>2, <1>3, RetiredGivesWay DEF Settled
  <1>5. Heir(old)
    BY <1>1, <1>2, <1>3 DEF Heir, ErasedIsOut, Readable, Settled, InForce
  <1>6. RowsStep(old)
    BY <1>1, <1>3, <1>4, <1>5 DEF RowsStep, Remains
  <1>7. MarksStep
    BY <1>1, <1>3, <1>4, QuietMarks
  <1> QED
    BY <1>6, <1>7 DEF Told

-----------------------------------------------------------------------------
(* Conflict resolution and privacy erasure.                                *)

LEMMA ResolveConflictTold ==
    ASSUME TInv, ErasedIsOut, NEW k \in Clients, NEW g \in ConflictIds, NEW w \in Ids,
           ResolveConflict(k, g, w)
    PROVE  Told
  <1>1. TypeOK /\ Ids' = Ids /\ ConflictIds' = ConflictIds
    BY DEF TInv, IInv, ResolveConflict, Ids, ConflictIds
  <1>2. /\ conflicts[g].open /\ w \in conflicts[g].members /\ InForce(w)
        /\ \A f \in conflicts[g].members : ~facts[f].invalid
        /\ facts' = [f \in Ids |->
                       IF f = w THEN [facts[f] EXCEPT !.group = None]
                       ELSE IF f \in conflicts[g].members THEN Retired(f, w, facts[w].vf)
                       ELSE facts[f]]
        /\ conflicts' = [conflicts EXCEPT ![g].open = FALSE, ![g].winner = w]
    BY DEF ResolveConflict, CanElect
  <1>3. \A f \in conflicts[g].members :
          f \in Ids /\ InForce(f) /\ facts[f].slot = facts[w].slot
    BY <1>2, OpenMembers DEF InForce
  <1>4. Remains(w) /\ facts'[w].group = None
    BY <1>1, <1>2, MarkedRemains
  <1>5. /\ facts'[w].slot = facts[w].slot /\ facts'[w].sup = None
        /\ facts'[w].value = facts[w].value
    BY <1>1, <1>2 DEF TypeOK, Fact, InForce
  <1>6. Heir(w)
    BY <1>1, <1>2, <1>5 DEF Heir, ErasedIsOut, Readable, InForce
  <1>7. ASSUME NEW f \in Ids, f # w
        PROVE  /\ Remains(f) \/ (GivesWay(f, w) /\ Heir(w))
               /\ facts'[f].group = facts[f].group
    <2>1. CASE f \in conflicts[g].members
      <3>1. facts'[f] = Retired(f, w, facts[w].vf)
        BY <1>2, <1>7, <2>1
      <3> QED
        BY <1>1, <1>3, <1>5, <1>6, <1>7, <2>1, <3>1, RetiredGivesWay
    <2>2. CASE f \notin conflicts[g].members
      BY <1>2, <1>7, <2>2 DEF Remains
    <2> QED
      BY <2>1, <2>2
  <1>8. RowsStep(w)
    BY <1>1, <1>4, <1>7 DEF RowsStep
  <1>9. conflicts[g] \in Conflict /\ DOMAIN conflicts = ConflictIds
    BY <1>1 DEF TypeOK
  <1>10. /\ conflicts'[g].winner = w
         /\ \A e \in ConflictIds : e # g => conflicts'[e] = conflicts[e]
    BY <1>2, <1>9 DEF Conflict
  <1>11. MarksStep
    BY <1>1, <1>4, <1>7, <1>10 DEF MarksStep
  <1> QED
    BY <1>8, <1>11 DEF Told

LEMMA EraseFactTold ==
    ASSUME TInv, NEW x \in Ids, EraseFact(x)
    PROVE  Told
  <1>1. TypeOK /\ Ids' = Ids /\ ConflictIds' = ConflictIds
    BY DEF TInv, IInv, EraseFact, Ids, ConflictIds
  <1>2. /\ facts'[x] = ErasedRow(x)
        /\ \A f \in Ids : f # x => facts'[f] \in {facts[f], [facts[f] EXCEPT !.invalid = TRUE]}
        /\ \A c \in ConflictIds : conflicts'[c] = AfterErasure(c, x)
    BY DEF EraseFact
  <1>3. Remains(x) /\ facts'[x].group = None
    <2>1. ErasedRow(x).vt = facts[x].vt
      BY <1>1 DEF TypeOK, ErasedRow, Scrubbed, Fact
    <2> QED
      BY <1>1, <1>2, <2>1, ErasedRowFields DEF Remains
  <1>4. ASSUME NEW f \in Ids, f # x PROVE Remains(f) /\ facts'[f].group = facts[f].group
    <2>1. facts[f] \in Fact
      BY <1>1 DEF TypeOK
    <2> QED
      BY <1>2, <1>4, <2>1 DEF Remains, Fact
  <1>5. RowsStep(x)
    BY <1>1, <1>3, <1>4 DEF RowsStep
  <1>6. \A c \in ConflictIds : conflicts'[c].winner \in {None, conflicts[c].winner}
    <2> SUFFICES ASSUME NEW c \in ConflictIds
                 PROVE  conflicts'[c].winner \in {None, conflicts[c].winner}
      OBVIOUS
    <2> DEFINE rest == conflicts[c].members \ {x}
    <2>1. conflicts[c] \in Conflict
      BY <1>1 DEF TypeOK
    <2>2. conflicts'[c] \in {conflicts[c], [conflicts[c] EXCEPT !.members = rest],
                             [open |-> FALSE, members |-> rest, winner |-> None]}
      BY <1>2 DEF AfterErasure
    <2> QED
      BY <2>1, <2>2 DEF Conflict
  <1>7. MarksStep
    BY <1>1, <1>3, <1>4, <1>6 DEF MarksStep
  <1> QED
    BY <1>5, <1>7 DEF Told

LEMMA NextTells ==
    ASSUME TInv, ErasedIsOut, Next
    PROVE  Told
  <1>1. ASSUME NEW k \in Clients, NEW c \in Candidates, TypedWrite(k, c) PROVE Told
    BY <1>1, AddStateTold, SupersedeStateTold, OpenStateConflictTold, JoinConflictTold,
       SettleConflictTold DEF TypedWrite
  <1>2. ASSUME NEW k \in Clients, NEW u \in Untyped, UntypedWrite(k, u) PROVE Told
    BY <1>2, AddUntypedTold, ContradictUntypedTold, MergeNearDuplicateTold,
       ReplaceUntypedTold DEF UntypedWrite
  <1> QED
    BY <1>1, <1>2, ReplaceByDuplicateTold, ResolveConflictTold, EraseFactTold DEF Next

-----------------------------------------------------------------------------
(* The invariant of the reads.                                             *)

LEMMA ErasedStayOut ==
    ASSUME ErasedIsOut, NEW w, RowsStep(w)
    PROVE  ErasedIsOut'
  <1> SUFFICES ASSUME NEW f \in Ids', facts'[f].value = Erased
               PROVE  facts'[f].invalid
    BY DEF ErasedIsOut, Readable
  <1>1. f \in Ids
    BY DEF RowsStep, Arrives
  <1>2. CASE Remains(f)
    BY <1>1, <1>2 DEF Remains, ErasedIsOut, Readable
  <1>3. CASE GivesWay(f, w)
    BY <1>3 DEF GivesWay
  <1> QED
    BY <1>1, <1>2, <1>3 DEF RowsStep

LEMMA OnlySupersededKeepExpiring ==
    ASSUME OnlySupersededExpire, TypeOK', NEW w, RowsStep(w)
    PROVE  OnlySupersededExpire'
  <1> SUFFICES ASSUME NEW f \in Ids', facts'[f].expired
               PROVE  facts'[f].sup # None
    BY DEF OnlySupersededExpire
  <1>1. Heir(w) => w # None
    BY DEF Heir, Ids, TypeOK, None
  <1>2. CASE f \notin Ids
    BY <1>1, <1>2 DEF RowsStep, Arrives
  <1>3. CASE f \in Ids /\ Remains(f)
    BY <1>3 DEF Remains, OnlySupersededExpire
  <1>4. CASE f \in Ids /\ GivesWay(f, w) /\ Heir(w)
    BY <1>1, <1>4 DEF GivesWay
  <1> QED
    BY <1>2, <1>3, <1>4 DEF RowsStep

LEMMA WinnersStayUnmarked ==
    ASSUME WinnersUnmarked, RecordsFit, RecordsFit', TypeOK', TypeOK, MarksStep
    PROVE  WinnersUnmarked'
  <1> SUFFICES ASSUME NEW g \in ConflictIds', conflicts'[g].winner # None,
                      facts'[conflicts'[g].winner].group = g
               PROVE  FALSE
    BY DEF WinnersUnmarked
  <1> DEFINE x == conflicts'[g].winner
  <1>1. g # None
    BY DEF ConflictIds, TypeOK, None
  <1>2. g \in ConflictIds /\ x = conflicts[g].winner
    BY <1>1 DEF MarksStep
  <1>3. facts[x].group # g
    BY <1>2 DEF WinnersUnmarked
  <1>4. x \in Ids'
    BY DEF RecordsFit
  <1>5. conflicts'[g].open
    BY <1>1, <1>3, <1>4 DEF MarksStep
  <1> QED
    BY <1>5 DEF RecordsFit

(* A tree that loses its root to an heir gets the heir as its root.        *)
LEMMA TreesGrow ==
    ASSUME TypeOK, TypeOK', SupersededIsHistory, ErasedIsOut, TreesKeepSlots, NEW w, RowsStep(w)
    PROVE  TreesKeepSlots'
  <1>1. PICK root \in [Ids -> Ids] : Rooted(root) /\ OneSlotPerTree(root)
    BY DEF TreesKeepSlots
  <1> DEFINE Joined == {f \in Ids : GivesWay(f, w) /\ Heir(w)}
             next == [f \in Ids' |->
                        IF f \notin Ids THEN IF facts'[f].sup = None THEN f ELSE w
                        ELSE IF root[f] \in Joined THEN w ELSE root[f]]
  <1>2. None \notin Ids' /\ Ids \subseteq Ids'
    <2>1. None \notin Ids'
      BY DEF Ids, None
    <2> QED
      BY <2>1 DEF RowsStep
  <1>3. \A f \in Ids : f \in Joined \/ (Remains(f) /\ facts'[f].sup = facts[f].sup)
    BY DEF RowsStep, Remains
  <1>4. \A f \in Joined : facts[f].sup = None /\ facts'[f].sup = w /\ Heir(w) /\ Readable(f)
    BY DEF GivesWay, InForce, ErasedIsOut
  <1>5. Heir(w) => /\ w \in Ids' /\ facts'[w].sup = None /\ next[w] = w
                   /\ facts'[w].value # Erased
    <2> SUFFICES ASSUME Heir(w) PROVE next[w] = w
      BY DEF Heir
    <2>1. w \in Ids' /\ facts'[w].sup = None
      BY DEF Heir
    <2>2. CASE w \in Ids
      <3>1. w \notin Joined
        BY <1>2, <1>4, <2>1
      <3>2. root[w] = w
        BY <1>1, <1>3, <2>1, <2>2, <3>1 DEF Rooted
      <3> QED
        BY <2>1, <2>2, <3>1, <3>2
    <2> QED
      BY <2>1, <2>2
  <1>6. next \in [Ids' -> Ids']
    BY <1>2, <1>4, <1>5 DEF RowsStep, Arrives
  <1>7. ASSUME NEW f \in Ids'
        PROVE  /\ facts'[next[f]].sup = None
               /\ facts'[f].sup = None => next[f] = f
               /\ facts'[f].sup # None => facts'[f].sup \in Ids' /\ next[f] = next[facts'[f].sup]
    <2>1. CASE f \notin Ids
      BY <1>2, <1>5, <2>1 DEF RowsStep, Arrives
    <2>2. CASE f \in Joined
      <3>1. root[f] = f /\ next[f] = w
        BY <1>1, <1>2, <1>4, <2>2 DEF Rooted
      <3> QED
        BY <1>2, <1>4, <1>5, <2>2, <3>1
    <2>3. CASE f \in Ids /\ f \notin Joined
      <3>1. facts'[f].sup = facts[f].sup
        BY <1>3, <2>3
      <3>2. facts'[next[f]].sup = None
        <4>1. CASE root[f] \in Joined
          BY <1>2, <1>4, <1>5, <2>3, <4>1
        <4>2. CASE root[f] \notin Joined
          BY <1>1, <1>2, <1>3, <2>3, <4>2 DEF Rooted
        <4> QED
          BY <4>1, <4>2
      <3>3. CASE facts[f].sup = None
        BY <1>1, <1>2, <2>3, <3>1, <3>2, <3>3 DEF Rooted
      <3>4. CASE facts[f].sup # None
        <4>1. facts[f].sup \in Ids /\ root[f] = root[facts[f].sup]
          BY <1>1, <2>3, <3>4 DEF Rooted
        <4> QED
          BY <1>2, <2>3, <3>1, <3>2, <3>4, <4>1
      <3> QED
        BY <3>3, <3>4
    <2> QED
      BY <2>1, <2>2, <2>3
  <1>8. ASSUME NEW f \in Ids', facts'[f].slot # NoSlot, facts'[next[f]].value # Erased
        PROVE  facts'[next[f]].slot = facts'[f].slot
    <2>1. CASE f \notin Ids
      BY <1>2, <1>8, <2>1 DEF RowsStep, Arrives
    <2>2. CASE f \in Ids
      <3>1. facts'[f].slot = facts[f].slot
        BY <1>8, <2>2 DEF RowsStep, Remains, GivesWay
      <3>2. root[f] \in Ids
        BY <1>1, <2>2
      <3>3. CASE root[f] \in Joined
        <4>1. facts[root[f]].slot = facts[f].slot
          BY <1>1, <1>4, <1>8, <2>2, <3>1, <3>3 DEF OneSlotPerTree
        <4>2. facts[root[f]].slot \in {NoSlot, facts'[w].slot}
          BY <3>3 DEF GivesWay
        <4> QED
          BY <1>2, <1>8, <2>2, <3>1, <3>3, <4>1, <4>2
      <3>4. CASE root[f] \notin Joined
        <4>1. next[f] = root[f] /\ Remains(root[f])
          BY <1>2, <1>3, <2>2, <3>2, <3>4
        <4>2. facts'[root[f]].slot = facts[root[f]].slot /\ Readable(root[f])
          BY <1>8, <4>1 DEF Remains, Readable
        <4> QED
          BY <1>1, <1>8, <2>2, <3>1, <4>1, <4>2 DEF OneSlotPerTree
      <3> QED
        BY <3>3, <3>4
    <2> QED
      BY <2>1, <2>2
  <1>9. ASSUME NEW f \in Ids', NEW g \in Ids', facts'[f].slot # NoSlot, facts'[g].slot # NoSlot,
               next[f] = next[g]
        PROVE  facts'[f].slot = facts'[g].slot
    <2>1. CASE facts'[next[f]].value # Erased
      BY <1>8, <1>9, <2>1
    <2>2. CASE facts'[next[f]].value = Erased
      <3>1. ASSUME NEW h \in Ids', facts'[h].slot # NoSlot, next[h] = next[f]
            PROVE  /\ h \in Ids /\ root[h] = next[h]
                   /\ facts'[h].slot = facts[h].slot
        <4>1. h \in Ids
          BY <1>2, <2>2, <3>1 DEF RowsStep, Arrives
        <4>2. root[h] \notin Joined
          BY <1>2, <1>4, <1>5, <2>2, <3>1, <4>1
        <4>3. facts'[h].slot = facts[h].slot
          BY <3>1, <4>1 DEF RowsStep, Remains, GivesWay
        <4> QED
          BY <1>2, <4>1, <4>2, <4>3
      <3> QED
        BY <1>1, <1>9, <3>1 DEF OneSlotPerTree
    <2> QED
      BY <2>1, <2>2
  <1>10. \E r \in [Ids' -> Ids'] :
           /\ \A f \in Ids' :
                /\ facts'[r[f]].sup = None
                /\ facts'[f].sup = None => r[f] = f
                /\ facts'[f].sup # None => facts'[f].sup \in Ids' /\ r[f] = r[facts'[f].sup]
           /\ \A f, g \in Ids' :
                facts'[f].slot # NoSlot /\ facts'[g].slot # NoSlot /\ r[f] = r[g]
                => facts'[f].slot = facts'[g].slot
           /\ \A f \in Ids' :
                facts'[f].slot # NoSlot /\ facts'[r[f]].value # Erased
                => facts'[r[f]].slot = facts'[f].slot
    <2> HIDE DEF next
    <2> WITNESS next \in [Ids' -> Ids']
    <2> QED
      BY <1>7, <1>8, <1>9
  <1> QED
    BY <1>10 DEF TreesKeepSlots, Rooted, OneSlotPerTree, Readable

(* What the clocks of a commit read: the stamps of the rows it inserts.    *)
LEMMA CommitStamps ==
    ASSUME ClocksFit, NEW w \in Writers, Commit(w), Ids' = 1..count',
           \A f \in Ids' : f <= count <=> f \in Ids
    PROVE  \E inserted, closed \in recorded[w]..now :
             /\ recorded[w] \in 1..now
             /\ created' = [f \in Ids' |-> IF f \in Ids THEN created[f] ELSE inserted]
             /\ left' = [f \in Ids' |->
                           IF f \in Ids /\ facts[f].invalid THEN left[f]
                           ELSE IF facts'[f].invalid THEN OutStamp(w, f, closed) ELSE None]
  <1>1. recorded[w] \in 1..now
    BY DEF ClocksFit, Commit, None
  <1>2. PICK inserted, closed \in recorded[w]..now :
          /\ created' = [f \in 1..count' |-> IF f <= count THEN created[f] ELSE inserted]
          /\ left' = [f \in 1..count' |->
                        IF f <= count /\ facts[f].invalid THEN left[f]
                        ELSE IF facts'[f].invalid THEN OutStamp(w, f, closed) ELSE None]
    BY DEF Commit
  <1> QED
    BY <1>1, <1>2

LEMMA ClocksKeep ==
    ASSUME TypeOK, TypeOK', ClocksFit, NEW w \in Writers, Commit(w), NEW x, RowsStep(x)
    PROVE  ClocksFit'
  <1>1. now' = now /\ now \in 1..MaxNow
    BY DEF ClocksFit, Commit
  <1>2. Ids' = 1..count' /\ Ids \subseteq Ids' /\ \A f \in Ids' : f <= count <=> f \in Ids
    BY DEF TypeOK, Ids, RowsStep
  <1>3. PICK inserted, closed \in recorded[w]..now :
          /\ recorded[w] \in 1..now
          /\ created' = [f \in Ids' |-> IF f \in Ids THEN created[f] ELSE inserted]
          /\ left' = [f \in Ids' |->
                        IF f \in Ids /\ facts[f].invalid THEN left[f]
                        ELSE IF facts'[f].invalid THEN OutStamp(w, f, closed) ELSE None]
    BY <1>2, CommitStamps
  <1>4. inserted \in 1..now /\ closed \in 1..now
    BY <1>1, <1>3
  <1>5. created' \in [Ids' -> 1..now']
    BY <1>1, <1>3, <1>4 DEF ClocksFit
  <1>6. \A f \in Ids : left[f] \in 0..now
    BY DEF ClocksFit
  <1>7. None \in 0..now /\ \A f : OutStamp(w, f, closed) \in 1..now
    BY <1>1, <1>3, <1>4 DEF OutStamp, None
  <1>8. \A f \in Ids' : left'[f] \in 0..now
    BY <1>1, <1>3, <1>6, <1>7
  <1>9. left' \in [Ids' -> 0..now']
    <2>1. left' = [f \in Ids' |-> left'[f]]
      BY <1>3
    <2> QED
      BY <1>1, <1>8, <2>1
  <1>10. \A f \in Ids' : facts'[f].invalid => left'[f] # None
    BY <1>1, <1>3, <1>7 DEF ClocksFit, None
  <1>11. recorded' \in [Writers -> 0..now']
    BY <1>1 DEF ClocksFit, Commit, None
  <1> QED
    BY <1>1, <1>5, <1>9, <1>10, <1>11 DEF ClocksFit

LEMMA CommitKeeps ==
    ASSUME RInv, NEW x \in Writers, Commit(x)
    PROVE  RInv' /\ Told
  <1>1. TInv /\ Next /\ ErasedIsOut
    BY DEF RInv, RowsTold, Commit
  <1>2. TInv' /\ Told
    BY <1>1, NextTruth, NextTells
  <1>3. PICK w : RowsStep(w)
    BY <1>2 DEF Told
  <1>4. TypeOK /\ TypeOK' /\ RecordsFit /\ RecordsFit' /\ SupersededIsHistory
    BY <1>1, <1>2 DEF TInv, IInv
  <1>5. ClocksFit'
    BY <1>3, <1>4, ClocksKeep DEF RInv
  <1>6. ErasedIsOut' /\ OnlySupersededExpire'
    BY <1>3, <1>4, ErasedStayOut, OnlySupersededKeepExpiring DEF RInv, RowsTold
  <1>7. WinnersUnmarked'
    BY <1>2, <1>4, WinnersStayUnmarked DEF RInv, RowsTold, Told
  <1>8. TreesKeepSlots'
    BY <1>3, <1>4, TreesGrow DEF RInv, RowsTold
  <1> QED
    BY <1>2, <1>5, <1>6, <1>7, <1>8 DEF RInv, RowsTold

LEMMA TimeKeeps ==
    ASSUME RInv, UNCHANGED vars, ClocksFit'
    PROVE  RInv'
  <1>1. TInv'
    BY TruthStepsKeep DEF RInv
  <1>2. Ids' = Ids /\ ConflictIds' = ConflictIds /\ UNCHANGED <<facts, conflicts>>
    BY DEF vars, Ids, ConflictIds
  <1>3. RowsTold'
    BY <1>2 DEF RInv, RowsTold, ErasedIsOut, OnlySupersededExpire, WinnersUnmarked,
       TreesKeepSlots, Rooted, OneSlotPerTree, Readable
  <1> QED
    BY <1>1, <1>3 DEF RInv

LEMMA InitRInv == ReadInit => RInv
  <1> SUFFICES ASSUME ReadInit PROVE RInv
    OBVIOUS
  <1>1. TInv /\ Ids = {} /\ ConflictIds = {}
    BY InitTInv DEF ReadInit, Init, Ids, ConflictIds
  <1>2. ClocksFit
    BY <1>1, FactReadsAssumption DEF ReadInit, ClocksFit, None
  <1>3. TreesKeepSlots
    <2>1. [f \in {} |-> f] \in [Ids -> Ids]
      BY <1>1
    <2> QED
      BY <1>1, <2>1 DEF TreesKeepSlots, Rooted, OneSlotPerTree
  <1> QED
    BY <1>1, <1>2, <1>3
       DEF RInv, RowsTold, ErasedIsOut, OnlySupersededExpire, WinnersUnmarked

LEMMA ReadStepsKeep == RInv /\ [ReadNext]_readVars => RInv'
  <1> SUFFICES ASSUME RInv, [ReadNext]_readVars PROVE RInv'
    OBVIOUS
  <1>1. ASSUME NEW w \in Writers, Commit(w) PROVE RInv'
    BY <1>1, CommitKeeps
  <1>2. ASSUME NEW w \in Writers, Prepare(w) \/ GiveUp(w) PROVE RInv'
    <2>1. UNCHANGED vars /\ Ids' = Ids
      BY <1>2 DEF Prepare, GiveUp, vars, Ids
    <2>2. recorded' \in [Writers -> 0..now]
      BY <1>2 DEF Prepare, GiveUp, RInv, ClocksFit, None
    <2>3. ClocksFit'
      BY <1>2, <2>1, <2>2 DEF Prepare, GiveUp, RInv, ClocksFit, vars
    <2> QED
      BY <2>1, <2>3, TimeKeeps
  <1>3. CASE Tick
    <2>1. UNCHANGED vars /\ Ids' = Ids
      BY <1>3 DEF Tick, vars, Ids
    <2>2. now' \in 1..MaxNow /\ now \in Nat /\ now' = now + 1
      BY <1>3, FactReadsAssumption DEF Tick, RInv, ClocksFit
    <2>3. ClocksFit'
      BY <1>3, <2>1, <2>2 DEF Tick, RInv, ClocksFit, vars
    <2> QED
      BY <2>1, <2>3, TimeKeeps
  <1>4. CASE UNCHANGED readVars
    <2>1. UNCHANGED vars /\ Ids' = Ids
      BY <1>4 DEF readVars, vars, Ids
    <2>2. ClocksFit'
      BY <1>4, <2>1 DEF readVars, RInv, ClocksFit
    <2> QED
      BY <2>1, <2>2, TimeKeeps
  <1> QED
    BY <1>1, <1>2, <1>3, <1>4 DEF ReadNext

(* The invariant that carries the theorems below.                          *)
THEOREM ReadsInvariant == ReadSpec => []RInv
  BY InitRInv, ReadStepsKeep, PTL DEF ReadSpec

-----------------------------------------------------------------------------
(* Transaction-time searches.                                              *)

(* A fact is found as of a moment if it was created by then and has not    *)
(* been superseded before it was over.                                     *)
SearchByStamps ==
    \A t \in Nat \ {0} : \A f \in Ids :
        f \in SearchAsOf(None, t) <=>
            Readable(f) /\ created[f] <= t /\ (facts[f].sup # None => left[f] > t)

LEMMA FoundAsOf == RInv => SearchByStamps
  <1> SUFFICES ASSUME RInv, NEW t \in Nat \ {0}, NEW f \in Ids
               PROVE  f \in SearchAsOf(None, t) <=>
                        Readable(f) /\ created[f] <= t /\ (facts[f].sup # None => left[f] > t)
    BY DEF SearchByStamps
  <1>1. t # None
    BY DEF None
  <1>2. facts[f].expired <=> facts[f].sup # None
    BY DEF RInv, RowsTold, OnlySupersededExpire, TInv, IInv, SupersededIsHistory, TypeOK, Fact
  <1> QED
    BY <1>1, <1>2 DEF SearchAsOf, MatchesAsOf

(* The answer about a moment after a step that only erases.                *)
OnlyErased(t) == SearchAsOf(None, t)' = {f \in SearchAsOf(None, t) : facts'[f].value # Erased}

(* A transaction prepared after the moment changes nothing of it.          *)
LEMMA LateCommit ==
    ASSUME RInv, SearchByStamps, SearchByStamps', NEW t \in 1..(now - 1),
           NEW w \in Writers, Commit(w), ~(recorded[w] <= t)
    PROVE  OnlyErased(t)
  <1>1. t \in Nat \ {0} /\ now \in Nat /\ TypeOK /\ SupersededIsHistory /\ ClocksFit
    BY DEF RInv, ClocksFit, TInv, IInv
  <1>2. PICK x : RowsStep(x)
    BY CommitKeeps DEF Told
  <1>3. /\ Ids \subseteq Ids' /\ Ids' = 1..count'
        /\ \A f \in Ids' : f <= count <=> f \in Ids
    BY <1>1, <1>2 DEF RowsStep, TypeOK, Ids
  <1>4. PICK inserted, closed \in recorded[w]..now :
          /\ recorded[w] \in 1..now
          /\ created' = [f \in Ids' |-> IF f \in Ids THEN created[f] ELSE inserted]
          /\ left' = [f \in Ids' |->
                        IF f \in Ids /\ facts[f].invalid THEN left[f]
                        ELSE IF facts'[f].invalid THEN OutStamp(w, f, closed) ELSE None]
    BY <1>1, <1>3, CommitStamps
  <1>5. t < inserted /\ t < recorded[w] /\ t < closed
    BY <1>1, <1>4
  <1>6. ASSUME NEW f \in Ids' \ Ids PROVE f \notin SearchAsOf(None, t)'
    BY <1>1, <1>4, <1>5 DEF SearchByStamps
  <1>7. ASSUME NEW f \in Ids
        PROVE  f \in SearchAsOf(None, t)' <=>
                 f \in SearchAsOf(None, t) /\ facts'[f].value # Erased
    <2>1. created'[f] = created[f]
      BY <1>3, <1>4
    <2>2. facts'[f].value # Erased => facts[f].value # Erased
      BY <1>2 DEF RowsStep, Remains, GivesWay
    <2>3. (facts'[f].sup # None => left'[f] > t) <=> (facts[f].sup # None => left[f] > t)
      <3>1. CASE facts[f].invalid
        <4>1. facts'[f].sup = facts[f].sup
          BY <1>2, <3>1 DEF RowsStep, Remains, GivesWay, InForce
        <4>2. left'[f] = left[f]
          BY <1>3, <1>4, <3>1
        <4> QED
          BY <4>1, <4>2
      <3>2. CASE ~facts[f].invalid
        <4>1. facts[f].sup = None
          BY <1>1, <3>2 DEF SupersededIsHistory
        <4>2. facts'[f].sup # None => facts'[f].invalid
          BY <1>2, <4>1 DEF RowsStep, Remains, GivesWay
        <4>3. facts'[f].invalid => left'[f] > t
          BY <1>1, <1>3, <1>4, <1>5, <3>2 DEF OutStamp
        <4> QED
          BY <4>1, <4>2, <4>3
      <3> QED
        BY <3>1, <3>2
    <2> QED
      BY <1>1, <1>3, <2>1, <2>2, <2>3 DEF SearchByStamps, Readable
  <1>8. SearchAsOf(None, t)' \subseteq Ids' /\ SearchAsOf(None, t) \subseteq Ids
    BY DEF SearchAsOf
  <1> QED
    BY <1>3, <1>6, <1>7, <1>8 DEF OnlyErased

LEMMA PastStays ==
    ASSUME RInv, SearchByStamps, SearchByStamps', [ReadNext]_readVars, NEW t \in 1..(now - 1)
    PROVE  \/ OnlyErased(t)
           \/ \E w \in Writers :
                recorded[w] # None /\ recorded[w] <= t /\ recorded'[w] = None
  <1>1. ASSUME NEW w \in Writers, Commit(w), recorded[w] <= t
        PROVE  recorded[w] # None /\ recorded'[w] = None
    BY <1>1 DEF Commit, RInv, ClocksFit
  <1>2. CASE UNCHANGED <<facts, count, created, left>>
    <2>1. Ids' = Ids /\ \A f \in SearchAsOf(None, t) : f \in Ids /\ facts[f].value # Erased
      BY <1>2 DEF SearchAsOf, Readable, Ids
    <2>2. SearchAsOf(None, t)' = SearchAsOf(None, t)
      BY <1>2, <2>1 DEF SearchAsOf, Readable, MatchesAsOf, ValidEnd, InForce
    <2> QED
      BY <1>2, <2>1, <2>2 DEF OnlyErased
  <1>3. ASSUME NEW w \in Writers, Prepare(w) \/ GiveUp(w)
        PROVE  UNCHANGED <<facts, count, created, left>>
    BY <1>3 DEF Prepare, GiveUp
  <1>4. Tick \/ UNCHANGED readVars => UNCHANGED <<facts, count, created, left>>
    BY DEF Tick, readVars
  <1> QED
    BY <1>1, <1>2, <1>3, <1>4, LateCommit DEF ReadNext

(* What a search as of a moment that has passed answers is changed by a    *)
(* privacy erasure, by the commit of a transaction that had read the clock *)
(* by then, and by nothing else: no later write, merge or resolution.      *)
THEOREM ThePastIsStable == ReadSpec => AsOfStable
  <1>1. RInv /\ SearchByStamps /\ SearchByStamps' /\ [ReadNext]_readVars =>
          [\A t \in 1..(now - 1) :
             \/ SearchAsOf(None, t)' = {f \in SearchAsOf(None, t) : facts'[f].value # Erased}
             \/ \E w \in Writers :
                  recorded[w] # None /\ recorded[w] <= t /\ recorded'[w] = None]_readVars
    BY PastStays DEF OnlyErased
  <1> QED
    BY <1>1, ReadsInvariant, FoundAsOf, PTL DEF ReadSpec, AsOfStable

(* At a moment that shares its millisecond with no earlier one, the order  *)
(* of julianday() is the order of the clock.                               *)
LEMMA JulianKeepsOrder ==
    ASSUME NEW t \in 1..(MaxNow + 1), Distinct(t), NEW u \in 1..(MaxNow + 1)
    PROVE  Julian[t] <= Julian[u] <=> t <= u
  <1>1. MaxNow \in Nat /\ Julian[t] \in Nat /\ Julian[u] \in Nat
    BY FactReadsAssumption
  <1>2. CASE t <= u
    BY <1>2, FactReadsAssumption
  <1>3. CASE ~(t <= u)
    <2>1. u \in 1..(t - 1)
      BY <1>1, <1>3
    <2>2. Julian[u] < Julian[t]
      BY <2>1 DEF Distinct
    <2> QED
      BY <1>1, <1>3, <2>2
  <1> QED
    BY <1>2, <1>3

(* What changes reports for a window leads from what was believed before   *)
(* it to what is believed at its end, though the window is cut at          *)
(* milliseconds and the search at the exact stamps.                        *)
THEOREM ChangesBridge == ReadSpec => []ChangesBridgeReads
  <1>1. RInv => ChangesBridgeReads
    <2> SUFFICES ASSUME RInv, NEW since \in 1..now, NEW until \in 1..(now + 1), since < until,
                        Distinct(since), Distinct(until)
                 PROVE  LET Plain == {f \in Ids : /\ Readable(f) /\ facts[f].group = None
                                                  /\ facts[f].expired => created[f] <= left[f]}
                            Before(t) == IF t = 1 THEN {} ELSE SearchAsOf(None, t - 1)
                        IN  Before(until) \cap Plain =
                              ((Before(since) \cup CreatedIn(since, until))
                                  \ SupersededIn(since, until)) \cap Plain
      BY DEF ChangesBridgeReads
    <2> DEFINE Before(t) == IF t = 1 THEN {} ELSE SearchAsOf(None, t - 1)
    <2>1. now \in Nat /\ since \in Nat /\ until \in Nat
      BY DEF RInv, ClocksFit
    <2>2. ASSUME NEW t \in Nat \ {0}, NEW f \in Ids
          PROVE  f \in Before(t) <=>
                   Readable(f) /\ created[f] < t /\ (facts[f].sup # None => left[f] >= t)
      <3>1. created[f] \in Nat \ {0} /\ left[f] \in Nat
        BY <2>1 DEF RInv, ClocksFit
      <3>2. CASE t = 1
        BY <3>1, <3>2
      <3>3. CASE t # 1
        <4>1. t - 1 \in Nat \ {0}
          BY <3>3
        <4> QED
          BY <3>1, <3>3, <4>1, FoundAsOf DEF SearchByStamps
      <3> QED
        BY <3>2, <3>3
    <2>6. ASSUME NEW u \in 1..now
          PROVE  Within(u, since, until) <=> since <= u /\ u < until
      <3>1. /\ MaxNow \in Nat /\ u \in 1..(MaxNow + 1) /\ u \in Nat
            /\ since \in 1..(MaxNow + 1) /\ until \in 1..(MaxNow + 1)
        BY <2>1, <2>6, FactReadsAssumption DEF RInv, ClocksFit
      <3>2. Julian[u] \in Nat /\ Julian[until] \in Nat
        BY <3>1, FactReadsAssumption
      <3>3. Julian[since] <= Julian[u] <=> since <= u
        BY <3>1, JulianKeepsOrder
      <3>4. Julian[until] <= Julian[u] <=> until <= u
        BY <3>1, JulianKeepsOrder
      <3> QED
        BY <2>1, <3>1, <3>2, <3>3, <3>4 DEF Within
    <2>3. ASSUME NEW f \in Ids, Readable(f), facts[f].group = None,
                 facts[f].expired => created[f] <= left[f]
          PROVE  f \in Before(until) <=>
                   /\ f \in Before(since) \/ f \in CreatedIn(since, until)
                   /\ f \notin SupersededIn(since, until)
      <3>1. created[f] \in Nat \ {0} /\ left[f] \in Nat
        BY <2>1 DEF RInv, ClocksFit
      <3>2. facts[f].sup # None => facts[f].invalid /\ facts[f].expired
        BY DEF RInv, TInv, IInv, SupersededIsHistory
      <3>3. f \in CreatedIn(since, until) <=> since <= created[f] /\ created[f] < until
        <4>1. created[f] \in 1..now
          BY DEF RInv, ClocksFit
        <4> QED
          BY <2>3, <2>6, <4>1 DEF CreatedIn
      <3>4. f \in SupersededIn(since, until) <=>
              facts[f].sup # None /\ since <= left[f] /\ left[f] < until
        <4>1. facts[f].sup # None => left[f] \in 1..now
          BY <3>2 DEF RInv, ClocksFit, None
        <4> QED
          BY <2>6, <3>2, <4>1 DEF SupersededIn
      <3>5. f \in Before(until) <=>
              created[f] < until /\ (facts[f].sup # None => left[f] >= until)
        BY <2>1, <2>2, <2>3
      <3>6. f \in Before(since) <=>
              created[f] < since /\ (facts[f].sup # None => left[f] >= since)
        BY <2>1, <2>2, <2>3
      <3> HIDE DEF Before
      <3> QED
        BY <2>1, <2>3, <3>1, <3>2, <3>3, <3>4, <3>5, <3>6
    <2> DEFINE Plain == {f \in Ids : /\ Readable(f) /\ facts[f].group = None
                                     /\ facts[f].expired => created[f] <= left[f]}
    <2>4. \A f : f \in Before(until) \cap Plain <=>
                f \in ((Before(since) \cup CreatedIn(since, until))
                         \ SupersededIn(since, until)) \cap Plain
      <3> HIDE DEF Before
      <3> TAKE f
      <3>1. CASE f \in Plain
        <4>1. /\ f \in Ids /\ Readable(f) /\ facts[f].group = None
              /\ facts[f].expired => created[f] <= left[f]
          BY <3>1
        <4>2. f \in Before(until) <=>
                /\ f \in Before(since) \/ f \in CreatedIn(since, until)
                /\ f \notin SupersededIn(since, until)
          BY <2>3, <4>1
        <4> HIDE DEF Plain
        <4> QED
          BY <3>1, <4>2
      <3>2. CASE f \notin Plain
        <4> HIDE DEF Plain
        <4> QED
          BY <3>2
      <3> QED
        BY <3>1, <3>2
    <2>5. Before(until) \cap Plain =
            ((Before(since) \cup CreatedIn(since, until)) \ SupersededIn(since, until)) \cap Plain
      <3> HIDE DEF Before, Plain
      <3> QED
        BY <2>4
    <2> QED
      BY <2>5
  <1> QED
    BY <1>1, ReadsInvariant, PTL

-----------------------------------------------------------------------------
(* Nothing in force is hidden, and a history is complete.                  *)

LEMMA InForceShows == RInv => InForceIsShown
  <1> SUFFICES ASSUME RInv, NEW f \in Ids, InForce(f)
               PROVE  \/ /\ f \in Active \cup Listed
                         /\ facts[f].slot # NoSlot =>
                              f \in DossierCurrent(facts[f].slot) \cup DossierConflicts(facts[f].slot)
                      \/ /\ ~conflicts[facts[f].group].open
                         /\ conflicts[facts[f].group].winner = None
    BY DEF InForceIsShown
  <1> DEFINE g == facts[f].group
  <1>1. CASE g = None
    <2>1. f \in Active
      BY <1>1 DEF Active, Settled, InForce, RInv, RowsTold, ErasedIsOut
    <2> QED
      BY <2>1 DEF DossierCurrent
  <1>2. CASE g # None
    <2>1. g \in ConflictIds /\ f \in conflicts[g].members
      BY <1>2 DEF RInv, TInv, IInv, RowsSound
    <2>2. CASE conflicts[g].open
      BY <2>1, <2>2 DEF Listed, DossierConflicts
    <2>3. CASE conflicts[g].winner # None
      <3>1. f # conflicts[g].winner
        BY <2>1, <2>3 DEF RInv, RowsTold, WinnersUnmarked
      <3>2. facts[f].sup = conflicts[g].winner
        BY <2>1, <2>3, <3>1 DEF RInv, TInv, ConflictsSound
      <3> QED
        BY <2>3, <3>2 DEF InForce
    <2> QED
      BY <2>2, <2>3
  <1> QED
    BY <1>1, <1>2

LEMMA ChainsStay == RInv => ChainStaysInSlot
  <1> SUFFICES ASSUME RInv, NEW f \in Ids, facts[f].slot # NoSlot,
                      NEW g \in Chain(f), facts[g].slot # NoSlot
               PROVE  g \in History(f)
    BY DEF ChainStaysInSlot
  <1>1. PICK root \in [Ids -> Ids] : Rooted(root) /\ OneSlotPerTree(root)
    BY DEF RInv, RowsTold, TreesKeepSlots
  <1> DEFINE tree == {h \in Ids : root[h] = root[f]}
  <1>2. ASSUME NEW a \in tree, NEW b \in Ids, Linked(a, b)
        PROVE  b \in tree
    <2>1. None \notin Ids
      BY RecordIds DEF RInv, TInv, IInv
    <2>2. root[a] = root[b]
      BY <1>1, <1>2, <2>1 DEF Linked, Rooted
    <2> QED
      BY <2>2
  <1>3. tree \in SUBSET Ids /\ f \in tree
    OBVIOUS
  <1>4. g \in Ids /\ g \in tree
    BY <1>2, <1>3 DEF Chain
  <1>5. facts[g].slot = facts[f].slot
    BY <1>1, <1>4 DEF OneSlotPerTree
  <1> QED
    BY <1>4, <1>5 DEF History, SlotHistory

(* Search, conflicts and dossiers together show all that is in force, and  *)
(* what supersession connects to a typed fact lies in its slot.            *)
THEOREM NothingIsHidden == ReadSpec => []NoFactHidden
  <1>1. RInv => NoFactHidden
    BY InForceShows, ChainsStay DEF NoFactHidden
  <1> QED
    BY <1>1, ReadsInvariant, PTL

-----------------------------------------------------------------------------
(* FactLife: what a transaction means to the outbox and the searches.      *)

LInv == TInv /\ ErasedIsOut

life == [f \in 1..MaxFacts |-> LifeStage(f)]

(* The stage a row is in. *)
StageOf(row) ==
    IF row.value = Erased THEN "erased"
    ELSE IF row.invalid \/ row.sup # None THEN "history"
    ELSE IF row.group = None THEN "settled"
    ELSE "disputed"

LEMMA StagesOfRows ==
    /\ \A f \in Ids : LifeStage(f) = StageOf(facts[f])
    /\ \A f : f \notin Ids => LifeStage(f) = "absent"
    /\ \A f \in Ids' : LifeStage(f)' = StageOf(facts'[f])
    /\ \A f : f \notin Ids' => LifeStage(f)' = "absent"
    /\ \A f \in Ids : LifeStage(f) # "absent"
  BY DEF LifeStage, StageOf, Settled, InForce

LEMMA InForceStages ==
    ASSUME LInv, NEW f \in Ids
    PROVE  /\ Settled(f) => LifeStage(f) = "settled"
           /\ InForce(f) /\ facts[f].group # None => LifeStage(f) = "disputed"
           /\ LifeStage(f) \in {"settled", "disputed"} => InForce(f) /\ facts[f].value # Erased
  BY DEF LInv, ErasedIsOut, Readable, LifeStage, Settled, InForce

LEMMA RowsWithin ==
    ASSUME LInv
    PROVE  Ids \subseteq 1..MaxFacts
  BY FactStoreAssumption DEF LInv, TInv, IInv, TypeOK, Ids

(* A step that moves one fact and puts others out of force.                *)
LifeMoves(f, stage, R) ==
    \A g \in 1..MaxFacts : LifeStage(g)' = IF g = f THEN stage
                                           ELSE IF g \in R THEN "history" ELSE LifeStage(g)

LEMMA MovesMap ==
    ASSUME NEW f \in 1..MaxFacts, NEW stage, NEW R \in SUBSET (1..MaxFacts),
           LifeMoves(f, stage, R), f \notin R, \A g \in R : LifeStage(g) # "history"
    PROVE  /\ Life!Moves(f, stage, R)
           /\ Life!Displaced(f) = R
           /\ LifeStage(f)' = stage
  BY DEF LifeMoves, Life!Moves, Life!Displaced, Life!Facts

(* One lemma for each step of FactLife. *)
LEMMA NewMap ==
    ASSUME NEW f \in 1..MaxFacts, LifeStage(f) = "absent",
           \A g \in 1..MaxFacts : g < f => LifeStage(g) # "absent"
    PROVE  Life!NextId(f)
  BY FactStoreAssumption DEF Life!NextId, Life!Stage, Life!Facts

LEMMA SettlesMap ==
    ASSUME NEW f \in 1..MaxFacts, NEW R \in SUBSET (1..MaxFacts),
           Life!NextId(f), LifeMoves(f, "settled", R), f \notin R,
           \/ \A g \in R : LifeStage(g) = "settled" /\ \A h \in R : g = h
           \/ (\A g \in R : LifeStage(g) = "disputed") /\ \E g, h \in R : g # h
    PROVE  Life!LifeNext
  <1>1. \A g \in R : LifeStage(g) # "history"
    OBVIOUS
  <1>2. Life!AtMostOne(R) \/ Life!Members(R)
    BY DEF Life!AtMostOne, Life!Members
  <1>3. Life!NewSettled(f, Life!Displaced(f)) /\ LifeStage(f)' = "settled"
    BY <1>1, <1>2, MovesMap DEF Life!NewSettled
  <1> QED
    BY <1>3 DEF Life!LifeNext, Life!Facts

LEMMA ClosesMap ==
    ASSUME NEW f \in 1..MaxFacts, NEW R \in SUBSET (1..MaxFacts),
           Life!NextId(f), LifeMoves(f, "history", R), f \notin R,
           \A g \in R : LifeStage(g) = "settled" /\ \A h \in R : g = h
    PROVE  Life!LifeNext
  <1>1. \A g \in R : LifeStage(g) # "history"
    OBVIOUS
  <1>2. Life!AtMostOne(R)
    BY DEF Life!AtMostOne
  <1>3. Life!NewClosed(f, Life!Displaced(f)) /\ LifeStage(f)' = "history"
    BY <1>1, <1>2, MovesMap DEF Life!NewClosed
  <1> QED
    BY <1>3 DEF Life!LifeNext, Life!Facts

LEMMA DisputesMap ==
    ASSUME NEW f \in 1..MaxFacts, NEW old \in 1..MaxFacts, Life!NextId(f),
           LifeStage(old) \in {"settled", "disputed"},
           \A g \in 1..MaxFacts :
             LifeStage(g)' = IF g \in {f, old} THEN "disputed" ELSE LifeStage(g)
    PROVE  Life!LifeNext
  <1>1. Life!NewDisputed(f, old) /\ LifeStage(f)' = "disputed"
    BY DEF Life!NewDisputed
  <1> QED
    BY <1>1 DEF Life!LifeNext, Life!Facts

LEMMA MergesMap ==
    ASSUME NEW f \in 1..MaxFacts, NEW old \in 1..MaxFacts, Life!NextId(f),
           LifeStage(old) = "settled", LifeMoves(f, "history", {})
    PROVE  Life!LifeNext
  <1>1. Life!NewMerged(f, old) /\ LifeStage(f)' = "history"
    BY MovesMap DEF Life!NewMerged
  <1> QED
    BY <1>1 DEF Life!LifeNext, Life!Facts

LEMMA ReplacesMap ==
    ASSUME NEW f \in 1..MaxFacts, NEW by \in 1..MaxFacts, f # by,
           LifeStage(f) = "settled", LifeStage(by) = "settled", LifeMoves(f, "history", {})
    PROVE  Life!LifeNext
  <1>1. Life!Replaced(f, by) /\ LifeStage(f)' = "history"
    BY MovesMap DEF Life!Replaced
  <1> QED
    BY <1>1 DEF Life!LifeNext, Life!Facts

LEMMA ElectsMap ==
    ASSUME NEW f \in 1..MaxFacts, NEW R \in SUBSET (1..MaxFacts), f \notin R, R # {},
           LifeStage(f) = "disputed", \A g \in R : LifeStage(g) = "disputed",
           LifeMoves(f, "settled", R)
    PROVE  Life!LifeNext
  <1>1. \A g \in R : LifeStage(g) # "history"
    OBVIOUS
  <1>2. Life!Members({f} \cup R)
    <2>1. PICK h \in R : TRUE
      OBVIOUS
    <2>2. h # f /\ {h, f} \subseteq {f} \cup R
      BY <2>1
    <2>3. \A g \in {f} \cup R : LifeStage(g) = "disputed" /\ g \in 1..MaxFacts
      OBVIOUS
    <2> QED
      BY <2>2, <2>3 DEF Life!Members
  <1>3. Life!Elected(f, Life!Displaced(f)) /\ LifeStage(f)' = "settled"
    BY <1>1, <1>2, MovesMap DEF Life!Elected
  <1> QED
    BY <1>3 DEF Life!LifeNext, Life!Facts

LEMMA ErasesMap ==
    ASSUME NEW f \in 1..MaxFacts, NEW R \in SUBSET (1..MaxFacts), f \notin R,
           LifeStage(f) # "absent", \A g \in R : LifeStage(g) \in {"settled", "disputed"},
           LifeMoves(f, "erased", R)
    PROVE  Life!LifeNext
  <1>1. \A g \in R : g # f /\ LifeStage(g) # "history"
    OBVIOUS
  <1>2. Life!Wiped(f, Life!Displaced(f)) /\ LifeStage(f)' = "erased"
    BY <1>1, MovesMap DEF Life!Wiped
  <1> QED
    BY <1>2 DEF Life!LifeNext, Life!Facts

(* What the rows of a transaction are in terms of stages.                  *)
LEMMA RetiredStage ==
    ASSUME LInv, NEW f \in Ids, InForce(f), NEW by, NEW t
    PROVE  StageOf(Retired(f, by, t)) = "history"
  BY DEF LInv, TInv, IInv, TypeOK, Fact, ErasedIsOut, Readable, InForce, Retired, StageOf

LEMMA StateRowStage ==
    ASSUME NEW c \in Candidates, NEW g
    PROVE  StageOf(StateRow(c, g)) = IF c.vt # None THEN "history"
                                     ELSE IF g = None THEN "settled" ELSE "disputed"
  BY StateRowTold DEF StageOf, StateRow

LEMMA UntypedRowStage ==
    ASSUME NEW u \in Untyped, NEW g
    PROVE  StageOf(UntypedRow(u, g)) = IF g = None THEN "settled" ELSE "disputed"
  BY UntypedRowTold DEF StageOf, UntypedRow

LEMMA MarkedStage ==
    ASSUME LInv, NEW f \in Ids, InForce(f), NEW g, g # None
    PROVE  StageOf([facts[f] EXCEPT !.group = g]) = "disputed"
  BY DEF LInv, TInv, IInv, TypeOK, Fact, ErasedIsOut, Readable, InForce, StageOf

(* A transaction that inserts a row and retires others. *)
LEMMA InsertMoves ==
    ASSUME LInv, Room, count' = count + 1, NEW row, NEW R \in SUBSET Ids,
           facts' = [f \in 1..(count + 1) |-> facts'[f]], facts'[count + 1] = row,
           \A f \in R : StageOf(facts'[f]) = "history",
           \A f \in Ids \ R : facts'[f] = facts[f]
    PROVE  /\ count + 1 \in 1..MaxFacts /\ count + 1 \notin R
           /\ R \in SUBSET (1..MaxFacts)
           /\ Life!NextId(count + 1)
           /\ LifeMoves(count + 1, StageOf(row), R)
  <1>1. /\ count + 1 \in 1..MaxFacts /\ Ids' = Ids \cup {count + 1} /\ count + 1 \notin Ids
        /\ Ids = 1..count /\ count \in Nat
    BY Growth DEF LInv, TInv, IInv, TypeOK, Ids
  <1>2. Life!NextId(count + 1)
    BY <1>1, StagesOfRows, NewMap
  <1>3. ASSUME NEW g \in 1..MaxFacts
        PROVE  LifeStage(g)' = IF g = count + 1 THEN StageOf(row)
                               ELSE IF g \in R THEN "history" ELSE LifeStage(g)
    <2>1. CASE g = count + 1
      BY <1>1, <2>1, StagesOfRows
    <2>2. CASE g \in Ids
      BY <1>1, <2>2, StagesOfRows
    <2>3. CASE g \notin Ids'
      BY <1>1, <2>3, StagesOfRows
    <2> QED
      BY <1>1, <2>1, <2>2, <2>3
  <1>4. LifeMoves(count + 1, StageOf(row), R)
    BY <1>3 DEF LifeMoves
  <1> QED
    BY <1>1, <1>2, <1>4, RowsWithin

LEMMA AddStateLife ==
    ASSUME LInv, NEW k \in Clients, NEW c \in Candidates, AddState(k, c)
    PROVE  Life!LifeNext
  <1> DEFINE n == count + 1
             row == StateRow(c, None)
  <1>1. /\ Room /\ count' = n /\ facts' = [f \in 1..n |-> facts'[f]] /\ facts'[n] = row
        /\ \A f \in Ids : facts'[f] = facts[f]
    BY DEF AddState, Insert, LInv, TInv, IInv, TypeOK, Ids
  <1>2. /\ n \in 1..MaxFacts /\ Life!NextId(n) /\ LifeMoves(n, StageOf(row), {})
    BY <1>1, InsertMoves, {} \in SUBSET Ids, Zenon
  <1>3. StageOf(row) \in {"settled", "history"}
    BY StateRowStage
  <1> QED
    BY <1>2, <1>3, SettlesMap, ClosesMap

LEMMA SupersedeStateLife ==
    ASSUME LInv, NEW k \in Clients, NEW c \in Candidates, SupersedeState(k, c)
    PROVE  Life!LifeNext
  <1> DEFINE n == count + 1
             row == StateRow(c, None)
  <1>1. PICK old \in Ids :
          /\ Settled(old)
          /\ facts' = [f \in 1..n |->
                         IF f = n THEN row
                         ELSE IF f = old THEN Retired(f, n, ClosedAt(f, c.vf)) ELSE facts[f]]
    BY DEF SupersedeState
  <1>2. InForce(old) /\ LifeStage(old) = "settled"
    BY <1>1, InForceStages DEF Settled
  <1>3. count \in Nat /\ Ids = 1..count
    BY DEF LInv, TInv, IInv, TypeOK, Ids
  <1>4. /\ Room /\ count' = n /\ facts' = [f \in 1..n |-> facts'[f]] /\ facts'[n] = row
        /\ \A f \in Ids \ {old} : facts'[f] = facts[f]
        /\ facts'[old] = Retired(old, n, ClosedAt(old, c.vf))
    BY <1>1, <1>3 DEF SupersedeState
  <1>5. StageOf(facts'[old]) = "history"
    BY <1>2, <1>4, RetiredStage
  <1>6. /\ n \in 1..MaxFacts /\ Life!NextId(n) /\ LifeMoves(n, StageOf(row), {old})
        /\ n \notin {old} /\ {old} \in SUBSET (1..MaxFacts)
    <2>1. {old} \in SUBSET Ids
      OBVIOUS
    <2>2. \A f \in {old} : StageOf(facts'[f]) = "history"
      BY <1>5
    <2> HIDE DEF row
    <2> QED
      BY <1>4, <2>1, <2>2, InsertMoves
  <1>7. StageOf(row) \in {"settled", "history"}
    BY StateRowStage
  <1> QED
    BY <1>2, <1>6, <1>7, SettlesMap, ClosesMap

(* A transaction that opens a conflict, or joins the one old is in.        *)
LEMMA DisputeLife ==
    ASSUME LInv, Room, count' = count + 1, NEW row, StageOf(row) = "disputed",
           NEW old \in Ids, InForce(old),
           facts' = [f \in 1..(count + 1) |-> facts'[f]], facts'[count + 1] = row,
           StageOf(facts'[old]) = "disputed",
           \A f \in Ids \ {old} : facts'[f] = facts[f]
    PROVE  Life!LifeNext
  <1>1. /\ count + 1 \in 1..MaxFacts /\ Ids' = Ids \cup {count + 1} /\ count + 1 \notin Ids
        /\ Ids = 1..count /\ count \in Nat
    BY Growth DEF LInv, TInv, IInv, TypeOK, Ids
  <1>2. Life!NextId(count + 1)
    BY <1>1, StagesOfRows, NewMap
  <1>3. ASSUME NEW g \in 1..MaxFacts
        PROVE  LifeStage(g)' = IF g \in {count + 1, old} THEN "disputed" ELSE LifeStage(g)
    <2>1. CASE g = count + 1
      BY <1>1, <2>1, StagesOfRows
    <2>2. CASE g \in Ids
      BY <1>1, <2>2, StagesOfRows
    <2>3. CASE g \notin Ids'
      BY <1>1, <2>3, StagesOfRows
    <2> QED
      BY <1>1, <2>1, <2>2, <2>3
  <1>4. LifeStage(old) \in {"settled", "disputed"} /\ old \in 1..MaxFacts
    BY InForceStages, RowsWithin DEF Settled
  <1> QED
    BY <1>1, <1>2, <1>3, <1>4, DisputesMap

LEMMA OpenStateConflictLife ==
    ASSUME LInv, NEW k \in Clients, NEW c \in Candidates, OpenStateConflict(k, c)
    PROVE  Life!LifeNext
  <1> DEFINE n == count + 1
             row == StateRow(c, opened + 1)
  <1>1. PICK old \in Ids :
          /\ Settled(old)
          /\ facts' = [f \in 1..n |->
                         IF f = n THEN row
                         ELSE IF f = old THEN [facts[f] EXCEPT !.group = opened + 1] ELSE facts[f]]
    BY DEF OpenStateConflict
  <1>2. count \in Nat /\ Ids = 1..count /\ opened \in Nat /\ opened + 1 # None
    BY DEF LInv, TInv, IInv, TypeOK, Ids, None
  <1>3. /\ Room /\ count' = n /\ facts' = [f \in 1..n |-> facts'[f]] /\ facts'[n] = row
        /\ \A f \in Ids \ {old} : facts'[f] = facts[f]
        /\ facts'[old] = [facts[old] EXCEPT !.group = opened + 1]
    <2>1. Room /\ count' = n
      BY DEF OpenStateConflict
    <2> HIDE DEF row
    <2> QED
      BY <1>1, <1>2, <2>1
  <1>4. InForce(old) /\ StageOf(facts'[old]) = "disputed"
    <2>1. InForce(old)
      BY <1>1 DEF Settled
    <2>2. StageOf([facts[old] EXCEPT !.group = opened + 1]) = "disputed"
      BY <1>2, <2>1, MarkedStage, Zenon
    <2> QED
      BY <1>3, <2>1, <2>2
  <1>5. StageOf(row) = "disputed"
    BY <1>2, StateRowStage DEF OpenStateConflict
  <1> HIDE DEF row
  <1> QED
    BY <1>3, <1>4, <1>5, DisputeLife

LEMMA JoinConflictLife ==
    ASSUME LInv, NEW k \in Clients, NEW c \in Candidates, JoinConflict(k, c)
    PROVE  Life!LifeNext
  <1> DEFINE n == count + 1
  <1>1. PICK g \in ConflictIds : Groups(Current(c.slot)) = {g} /\ Insert(StateRow(c, g))
    BY DEF JoinConflict
  <1>2. count \in Nat /\ Ids = 1..count /\ g # None
    BY <1>1 DEF LInv, TInv, IInv, TypeOK, Ids, ConflictIds, None
  <1>3. PICK old \in Current(c.slot) : facts[old].group = g
    BY <1>1 DEF Groups
  <1>4. /\ Room /\ count' = n /\ facts' = [f \in 1..n |-> facts'[f]] /\ facts'[n] = StateRow(c, g)
        /\ \A f \in Ids : facts'[f] = facts[f]
    BY <1>1, <1>2 DEF JoinConflict, Insert
  <1>5. old \in Ids /\ InForce(old)
    BY <1>3 DEF Current
  <1>6. StageOf(facts'[old]) = "disputed"
    BY <1>2, <1>3, <1>4, <1>5, InForceStages, StagesOfRows
  <1>7. StageOf(StateRow(c, g)) = "disputed"
    BY <1>2, StateRowStage DEF JoinConflict
  <1> QED
    BY <1>4, <1>5, <1>6, <1>7, DisputeLife

(* The members of an open conflict that can be settled.                    *)
LEMMA MembersDisputed ==
    ASSUME LInv, NEW g \in ConflictIds, conflicts[g].open,
           \A f \in conflicts[g].members : facts[f].group = g /\ ~facts[f].invalid
    PROVE  /\ conflicts[g].members \in SUBSET Ids
           /\ \A f \in conflicts[g].members : InForce(f) /\ LifeStage(f) = "disputed"
           /\ \E f, h \in conflicts[g].members : f # h
  <1>1. /\ conflicts[g].members \in SUBSET Ids
        /\ \E f, h \in conflicts[g].members : f # h
        /\ \A f \in conflicts[g].members : facts[f].sup = None
    BY DEF LInv, TInv, RecordsFit, ConflictsSound
  <1>2. g # None
    BY DEF LInv, TInv, IInv, TypeOK, ConflictIds, None
  <1>3. \A f \in conflicts[g].members : InForce(f)
    BY <1>1 DEF InForce
  <1> QED
    BY <1>1, <1>2, <1>3, InForceStages

LEMMA SettleConflictLife ==
    ASSUME LInv, NEW k \in Clients, NEW c \in Candidates, SettleConflict(k, c)
    PROVE  Life!LifeNext
  <1> DEFINE n == count + 1
             row == StateRow(c, None)
  <1>1. PICK g \in ConflictIds :
          /\ conflicts[g].open
          /\ \A f \in conflicts[g].members : facts[f].group = g /\ ~facts[f].invalid
          /\ facts' = [f \in 1..n |->
                         IF f = n THEN row
                         ELSE IF f \in conflicts[g].members THEN Retired(f, n, c.vf) ELSE facts[f]]
    BY DEF SettleConflict
  <1> DEFINE R == conflicts[g].members
  <1>2. /\ R \in SUBSET Ids /\ \A f \in R : InForce(f) /\ LifeStage(f) = "disputed"
        /\ \E f, h \in R : f # h
    BY <1>1, MembersDisputed
  <1>3. count \in Nat /\ Ids = 1..count
    BY DEF LInv, TInv, IInv, TypeOK, Ids
  <1>4. /\ Room /\ count' = n /\ facts' = [f \in 1..n |-> facts'[f]] /\ facts'[n] = row
        /\ \A f \in Ids \ R : facts'[f] = facts[f]
        /\ \A f \in R : facts'[f] = Retired(f, n, c.vf)
    BY <1>1, <1>2, <1>3 DEF SettleConflict
  <1>5. \A f \in R : StageOf(facts'[f]) = "history"
    BY <1>2, <1>4, RetiredStage
  <1>6. StageOf(row) = "settled"
    BY StateRowStage DEF SettleConflict
  <1> HIDE DEF row, R
  <1>7. /\ n \in 1..MaxFacts /\ Life!NextId(n) /\ LifeMoves(n, "settled", R)
        /\ n \notin R /\ R \in SUBSET (1..MaxFacts)
    BY <1>2, <1>4, <1>5, <1>6, InsertMoves
  <1> QED
    BY <1>2, <1>7, SettlesMap

LEMMA AddUntypedLife ==
    ASSUME LInv, NEW k \in Clients, NEW u \in Untyped, AddUntyped(k, u)
    PROVE  Life!LifeNext
  <1> DEFINE n == count + 1
             row == UntypedRow(u, None)
  <1>1. /\ Room /\ count' = n /\ facts' = [f \in 1..n |-> facts'[f]] /\ facts'[n] = row
        /\ \A f \in Ids : facts'[f] = facts[f]
    BY DEF AddUntyped, Insert, LInv, TInv, IInv, TypeOK, Ids
  <1>2. /\ n \in 1..MaxFacts /\ Life!NextId(n) /\ LifeMoves(n, StageOf(row), {})
    BY <1>1, InsertMoves, {} \in SUBSET Ids, Zenon
  <1>3. StageOf(row) = "settled"
    BY UntypedRowStage
  <1> QED
    BY <1>2, <1>3, SettlesMap

LEMMA ContradictUntypedLife ==
    ASSUME LInv, NEW k \in Clients, NEW u \in Untyped, ContradictUntyped(k, u)
    PROVE  Life!LifeNext
  <1> DEFINE n == count + 1
             row == UntypedRow(u, opened + 1)
  <1>1. PICK old \in SettledUntyped :
          facts' = [f \in 1..n |->
                     IF f = n THEN row
                     ELSE IF f = old THEN [facts[f] EXCEPT !.group = opened + 1] ELSE facts[f]]
    BY DEF ContradictUntyped
  <1>2. count \in Nat /\ Ids = 1..count /\ opened \in Nat /\ opened + 1 # None
    BY DEF LInv, TInv, IInv, TypeOK, Ids, None
  <1>3. old \in Ids /\ InForce(old)
    BY DEF SettledUntyped, Settled
  <1>4. /\ Room /\ count' = n /\ facts' = [f \in 1..n |-> facts'[f]] /\ facts'[n] = row
        /\ \A f \in Ids \ {old} : facts'[f] = facts[f]
        /\ facts'[old] = [facts[old] EXCEPT !.group = opened + 1]
    BY <1>1, <1>2, <1>3 DEF ContradictUntyped
  <1>5. StageOf(facts'[old]) = "disputed"
    <2>1. StageOf([facts[old] EXCEPT !.group = opened + 1]) = "disputed"
      BY <1>2, <1>3, MarkedStage, Zenon
    <2> QED
      BY <1>4, <2>1
  <1>6. StageOf(row) = "disputed"
    BY <1>2, UntypedRowStage
  <1> HIDE DEF row
  <1> QED
    BY <1>3, <1>4, <1>5, <1>6, DisputeLife

(* A new memory that takes the place of a settled one. *)
LEMMA ReplaceLife ==
    ASSUME LInv, NEW u \in Untyped, Room, count' = count + 1, NEW old \in Ids, Settled(old),
           facts' = [f \in 1..(count + 1) |->
                       IF f = count + 1 THEN UntypedRow(u, None)
                       ELSE IF f = old THEN Retired(f, count + 1, facts[f].vt) ELSE facts[f]]
    PROVE  Life!LifeNext
  <1> DEFINE n == count + 1
             row == UntypedRow(u, None)
  <1>1. InForce(old) /\ LifeStage(old) = "settled"
    BY InForceStages DEF Settled
  <1>2. count \in Nat /\ Ids = 1..count
    BY DEF LInv, TInv, IInv, TypeOK, Ids
  <1>3. /\ facts' = [f \in 1..n |-> facts'[f]] /\ facts'[n] = row
        /\ \A f \in Ids \ {old} : facts'[f] = facts[f]
        /\ facts'[old] = Retired(old, n, facts[old].vt)
    BY <1>2
  <1>4. StageOf(facts'[old]) = "history"
    BY <1>1, <1>3, RetiredStage
  <1>5. StageOf(row) = "settled"
    BY UntypedRowStage
  <1>6. /\ n \in 1..MaxFacts /\ Life!NextId(n) /\ LifeMoves(n, StageOf(row), {old})
        /\ n \notin {old} /\ {old} \in SUBSET (1..MaxFacts)
    <2>1. {old} \in SUBSET Ids
      OBVIOUS
    <2>2. \A f \in {old} : StageOf(facts'[f]) = "history"
      BY <1>4
    <2> HIDE DEF row
    <2> QED
      BY <1>3, <2>1, <2>2, InsertMoves
  <1> QED
    BY <1>1, <1>5, <1>6, SettlesMap

LEMMA MergeNearDuplicateLife ==
    ASSUME LInv, NEW k \in Clients, NEW u \in Untyped, MergeNearDuplicate(k, u)
    PROVE  Life!LifeNext
  <1> DEFINE n == count + 1
  <1>1. PICK old \in Ids :
          /\ Settled(old)
          /\ \/ facts' = [f \in 1..n |->
                            IF f = n THEN UntypedRow(u, None)
                            ELSE IF f = old THEN Retired(f, n, facts[f].vt) ELSE facts[f]]
             \/ Insert([UntypedRow(u, None) EXCEPT
                          !.invalid = TRUE, !.expired = TRUE, !.sup = old])
    BY DEF MergeNearDuplicate
  <1>2. Room /\ count' = n
    BY DEF MergeNearDuplicate
  <1>3. CASE facts' = [f \in 1..n |->
                         IF f = n THEN UntypedRow(u, None)
                         ELSE IF f = old THEN Retired(f, n, facts[f].vt) ELSE facts[f]]
    BY <1>1, <1>2, <1>3, ReplaceLife
  <1>4. CASE Insert([UntypedRow(u, None) EXCEPT !.invalid = TRUE, !.expired = TRUE, !.sup = old])
    <2> DEFINE new == [UntypedRow(u, None) EXCEPT !.invalid = TRUE, !.expired = TRUE, !.sup = old]
    <2>1. /\ facts' = [f \in 1..n |-> facts'[f]] /\ facts'[n] = new
          /\ \A f \in Ids : facts'[f] = facts[f]
      BY <1>4 DEF Insert, LInv, TInv, IInv, TypeOK, Ids
    <2>2. StageOf(new) = "history"
      BY UntypedRowTold DEF StageOf, UntypedRow
    <2> HIDE DEF new
    <2>3. n \in 1..MaxFacts /\ Life!NextId(n) /\ LifeMoves(n, StageOf(new), {})
      BY <1>2, <2>1, InsertMoves, {} \in SUBSET Ids, Zenon
    <2>4. LifeStage(old) = "settled" /\ old \in 1..MaxFacts
      BY <1>1, InForceStages, RowsWithin
    <2> QED
      BY <2>2, <2>3, <2>4, MergesMap
  <1> QED
    BY <1>1, <1>3, <1>4

LEMMA ReplaceUntypedLife ==
    ASSUME LInv, NEW k \in Clients, NEW u \in Untyped, ReplaceUntyped(k, u)
    PROVE  Life!LifeNext
  <1>1. /\ Room /\ count' = count + 1 /\ u.target \in Ids /\ Settled(u.target)
        /\ facts' = [f \in 1..(count + 1) |->
                       IF f = count + 1 THEN UntypedRow(u, None)
                       ELSE IF f = u.target THEN Retired(f, count + 1, facts[f].vt) ELSE facts[f]]
    BY DEF ReplaceUntyped, Replaceable
  <1> QED
    BY <1>1, ReplaceLife

(* A transaction that inserts no row moves the facts there are. *)
LEMMA SteadyMoves ==
    ASSUME LInv, UNCHANGED count, NEW f \in Ids, NEW stage, StageOf(facts'[f]) = stage,
           NEW R \in SUBSET Ids, f \notin R, \A g \in R : StageOf(facts'[g]) = "history",
           \A g \in Ids \ (R \cup {f}) : StageOf(facts'[g]) = StageOf(facts[g])
    PROVE  LifeMoves(f, stage, R)
  <1>1. Ids' = Ids
    BY DEF Ids
  <1>2. ASSUME NEW g \in 1..MaxFacts
        PROVE  LifeStage(g)' = IF g = f THEN stage
                               ELSE IF g \in R THEN "history" ELSE LifeStage(g)
    <2>1. CASE g \in Ids
      BY <1>1, <2>1, StagesOfRows
    <2>2. CASE g \notin Ids
      BY <1>1, <2>2, StagesOfRows
    <2> QED
      BY <2>1, <2>2
  <1> QED
    BY <1>2 DEF LifeMoves

LEMMA ReplaceByDuplicateLife ==
    ASSUME LInv, NEW k \in Clients, NEW u \in Untyped, ReplaceByDuplicate(k, u)
    PROVE  Life!LifeNext
  <1> DEFINE t == u.target
  <1>1. PICK old \in Ids :
          /\ Oldest(old, Duplicates(u)) /\ old # t
          /\ facts' = [facts EXCEPT ![t] = Retired(t, old, facts[t].vt)]
    BY DEF ReplaceByDuplicate
  <1>2. t \in Ids /\ Settled(t) /\ Settled(old) /\ UNCHANGED count
    BY <1>1 DEF ReplaceByDuplicate, Replaceable, Oldest, Duplicates
  <1>3. facts'[t] = Retired(t, old, facts[t].vt) /\ \A g \in Ids \ {t} : facts'[g] = facts[g]
    BY <1>1, <1>2 DEF LInv, TInv, IInv, TypeOK
  <1>4. StageOf(facts'[t]) = "history"
    BY <1>2, <1>3, RetiredStage DEF Settled
  <1>5. LifeMoves(t, "history", {})
    BY <1>2, <1>3, <1>4, SteadyMoves
  <1>6. /\ LifeStage(t) = "settled" /\ LifeStage(old) = "settled"
        /\ t \in 1..MaxFacts /\ old \in 1..MaxFacts
    BY <1>2, InForceStages, RowsWithin
  <1> QED
    BY <1>1, <1>5, <1>6, ReplacesMap

LEMMA ResolveConflictLife ==
    ASSUME LInv, NEW k \in Clients, NEW g \in ConflictIds, NEW w \in Ids,
           ResolveConflict(k, g, w)
    PROVE  Life!LifeNext
  <1> DEFINE R == conflicts[g].members \ {w}
  <1>1. /\ conflicts[g].members \in SUBSET Ids
        /\ \A f \in conflicts[g].members : InForce(f) /\ LifeStage(f) = "disputed"
        /\ \E f, h \in conflicts[g].members : f # h
    BY MembersDisputed DEF ResolveConflict, CanElect
  <1>2. w \in conflicts[g].members /\ UNCHANGED count
    BY DEF ResolveConflict, CanElect
  <1>3. /\ facts'[w] = [facts[w] EXCEPT !.group = None]
        /\ \A f \in R : facts'[f] = Retired(f, w, facts[w].vf)
        /\ \A f \in Ids \ (R \cup {w}) : facts'[f] = facts[f]
    BY <1>1 DEF ResolveConflict
  <1>4. StageOf(facts'[w]) = "settled"
    <2>1. InForce(w) /\ facts[w].value # Erased
      BY <1>1, <1>2, InForceStages
    <2> QED
      BY <1>3, <2>1 DEF StageOf, InForce, LInv, TInv, IInv, TypeOK, Fact
  <1>5. \A f \in R : StageOf(facts'[f]) = "history"
    BY <1>1, <1>3, RetiredStage
  <1>6. R \in SUBSET Ids /\ R # {} /\ w \notin R
    BY <1>1, <1>2
  <1>7. LifeStage(w) = "disputed" /\ \A f \in R : LifeStage(f) = "disputed"
    BY <1>1, <1>2
  <1> HIDE DEF R
  <1>8. LifeMoves(w, "settled", R)
    BY <1>2, <1>3, <1>4, <1>5, <1>6, SteadyMoves
  <1> QED
    BY <1>6, <1>7, <1>8, RowsWithin, ElectsMap

LEMMA EraseFactLife ==
    ASSUME LInv, NEW x \in Ids, EraseFact(x)
    PROVE  Life!LifeNext
  <1> DEFINE R == {f \in Ids : f # x /\ facts[f].cites = x
                               /\ LifeStage(f) \in {"settled", "disputed"}}
  <1>1. facts'[x] = ErasedRow(x) /\ UNCHANGED count
    BY DEF EraseFact
  <1>2. StageOf(facts'[x]) = "erased"
    BY <1>1, ErasedRowFields DEF StageOf, LInv, TInv, IInv
  <1>3. \A f \in R : StageOf(facts'[f]) = "history"
    <2> SUFFICES ASSUME NEW f \in R PROVE StageOf(facts'[f]) = "history"
      OBVIOUS
    <2>1. facts[f].value # Erased
      BY InForceStages
    <2>2. facts'[f] = [facts[f] EXCEPT !.invalid = TRUE]
      BY DEF EraseFact
    <2> QED
      BY <2>1, <2>2 DEF StageOf, LInv, TInv, IInv, TypeOK, Fact
  <1>4. ASSUME NEW f \in Ids \ (R \cup {x}) PROVE StageOf(facts'[f]) = StageOf(facts[f])
    <2>1. CASE facts[f].cites # x
      BY <2>1 DEF EraseFact
    <2>2. CASE facts[f].cites = x
      <3>1. StageOf(facts[f]) \notin {"settled", "disputed"}
        BY <2>2, StagesOfRows
      <3>2. facts'[f] = [facts[f] EXCEPT !.invalid = TRUE]
        BY <2>2 DEF EraseFact
      <3> QED
        BY <3>1, <3>2 DEF StageOf, LInv, TInv, IInv, TypeOK, Fact
    <2> QED
      BY <2>1, <2>2
  <1>5. R \in SUBSET Ids /\ x \notin R /\ \A f \in R : LifeStage(f) \in {"settled", "disputed"}
    OBVIOUS
  <1> HIDE DEF R
  <1>6. LifeMoves(x, "erased", R)
    BY <1>1, <1>2, <1>3, <1>4, <1>5, SteadyMoves
  <1>7. LifeStage(x) # "absent"
    BY StagesOfRows
  <1> QED
    BY <1>5, <1>6, <1>7, RowsWithin, ErasesMap

LEMMA NextLife ==
    ASSUME LInv, Next
    PROVE  Life!LifeNext
  <1>1. ASSUME NEW k \in Clients, NEW c \in Candidates, TypedWrite(k, c) PROVE Life!LifeNext
    BY <1>1, AddStateLife, SupersedeStateLife, OpenStateConflictLife, JoinConflictLife,
       SettleConflictLife DEF TypedWrite
  <1>2. ASSUME NEW k \in Clients, NEW u \in Untyped, UntypedWrite(k, u) PROVE Life!LifeNext
    BY <1>2, AddUntypedLife, ContradictUntypedLife, MergeNearDuplicateLife,
       ReplaceUntypedLife DEF UntypedWrite
  <1> QED
    BY <1>1, <1>2, ReplaceByDuplicateLife, ResolveConflictLife, EraseFactLife DEF Next

LEMMA QuietLife == UNCHANGED vars => UNCHANGED life
  BY DEF vars, life, LifeStage, Settled, InForce, Ids

(* The rows a new store has: none. *)
LEMMA InitLife == Init => Life!LifeInit
  <1> SUFFICES ASSUME Init PROVE Life!LifeInit
    OBVIOUS
  <1>1. \A f \in 1..MaxFacts : LifeStage(f) = "absent"
    BY DEF Init, Ids, LifeStage
  <1> DEFINE s == [f \in 1..MaxFacts |-> "history"]
  <1>2. life = [f \in 1..MaxFacts |-> IF f <= 0 THEN s[f] ELSE "absent"]
    BY <1>1 DEF life
  <1>3. 0 \in 0..MaxFacts /\ s \in [1..MaxFacts -> {"settled", "disputed", "history"}]
    BY FactStoreAssumption
  <1> HIDE DEF s
  <1>4. \E n \in 0..MaxFacts, t \in [1..MaxFacts -> {"settled", "disputed", "history"}] :
          life = [f \in 1..MaxFacts |-> IF f <= n THEN t[f] ELSE "absent"]
    BY <1>2, <1>3
  <1> QED
    BY <1>4 DEF life, Life!LifeInit, Life!Facts

LEMMA LifeStepsKeep == LInv /\ [Next]_vars => LInv'
  <1>1. ASSUME LInv, Next PROVE ErasedIsOut'
    BY <1>1, NextTells, ErasedStayOut DEF LInv, Told
  <1>2. ASSUME LInv, UNCHANGED vars PROVE ErasedIsOut'
    BY <1>2 DEF LInv, ErasedIsOut, Readable, vars, Ids
  <1> QED
    BY <1>1, <1>2, TruthStepsKeep DEF LInv

LEMMA ReadsAreTransactions == ReadSpec => Spec
  <1>1. ReadInit => Init
    BY DEF ReadInit
  <1>2. [ReadNext]_readVars => [Next]_vars
    BY DEF ReadNext, Prepare, GiveUp, Commit, Tick, readVars, vars
  <1> QED
    BY <1>1, <1>2, PTL DEF ReadSpec, Spec

(* FactStore implements FactLife: every transaction of a store, also of    *)
(* one that keeps time for its readers, moves one fact into a stage and    *)
(* takes out of force only what it replaces.                               *)
THEOREM FactStoreImplementsLife == Spec \/ ReadSpec => ImplementsFactLife
  <1>1. Init => LInv
    BY InitTInv DEF LInv, ErasedIsOut, Init, Ids
  <1>2. LInv /\ [Next]_vars => [Life!LifeNext]_life
    BY NextLife, QuietLife
  <1>3. Spec => []LInv
    BY <1>1, LifeStepsKeep, PTL DEF Spec
  <1>4. Spec => ImplementsFactLife
    BY <1>2, <1>3, InitLife, PTL DEF Spec, ImplementsFactLife, Life!LifeSpec, life
  <1> QED
    BY <1>4, ReadsAreTransactions

-----------------------------------------------------------------------------
(* ClusterMerge: what a served transaction means for the sources insights  *)
(* cite and for the members of conflicts, and what a merge does to both.   *)

(* What is deleted holds no text. *)
GoneErased == gone \subseteq Ids /\ \A f \in gone : facts[f].value = Erased

(* An insight cites the source its tags list first, and an erased one none.*)
SourcesFit ==
    /\ source \in [Ids -> 0..MaxFacts]
    /\ \A f \in Ids :
         /\ facts[f].cites \in {None, source[f]}
         /\ facts[f].value = Erased => facts[f].cites = None

MInv == TInv /\ ErasedIsOut /\ GoneErased /\ LinksLive /\ SourcesFit

(* Only erasure takes a fact's text and its source from it. *)
SourceKept(f) ==
    \/ facts'[f].cites = facts[f].cites /\ facts'[f].value = facts[f].value
    \/ facts'[f].value = Erased /\ facts'[f].cites = None

SourcesKept == \A f \in Ids : SourceKept(f)

(* Who becomes a member of a conflict is new or was settled, and who wins  *)
(* one is a member of it.                                                  *)
MembersKept ==
    \A g \in ConflictIds' :
        /\ \A f \in conflicts'[g].members :
             f \notin Ids \/ Settled(f) \/ (g \in ConflictIds /\ f \in conflicts[g].members)
        /\ \/ conflicts'[g].winner \in conflicts'[g].members \cup {None}
           \/ g \in ConflictIds /\ conflicts'[g].winner = conflicts[g].winner

LEMMA RowKeepsSource ==
    ASSUME TypeOK, NEW f \in Ids,
           \/ facts'[f] = facts[f]
           \/ facts'[f] = [facts[f] EXCEPT !.invalid = TRUE]
           \/ facts'[f] = ErasedRow(f)
           \/ \E g : facts'[f] = [facts[f] EXCEPT !.group = g]
           \/ \E w, vt : facts'[f] = Retired(f, w, vt)
    PROVE  SourceKept(f)
  <1>1. facts[f] \in Fact
    BY DEF TypeOK
  <1>2. CASE facts'[f] \in {facts[f], [facts[f] EXCEPT !.invalid = TRUE]}
    BY <1>1, <1>2 DEF SourceKept, Fact
  <1>3. CASE facts'[f] = ErasedRow(f)
    <2>1. facts'[f].value = Erased /\ facts'[f].cites = None
      BY <1>1, <1>3 DEF ErasedRow, Scrubbed, Fact
    <2> QED
      BY <2>1 DEF SourceKept
  <1>4. CASE \E g : facts'[f] = [facts[f] EXCEPT !.group = g]
    BY <1>1, <1>4 DEF SourceKept, Fact
  <1>5. CASE \E w, vt : facts'[f] = Retired(f, w, vt)
    BY <1>1, <1>5 DEF SourceKept, Retired, Fact
  <1> QED
    BY <1>2, <1>3, <1>4, <1>5

LEMMA SameMembers == UNCHANGED <<conflicts, opened>> => MembersKept
  BY DEF MembersKept, ConflictIds

LEMMA NewMembers ==
    ASSUME TypeOK, NEW S, OpenConflict(S), opened' = opened + 1,
           \A f \in S : f \notin Ids \/ Settled(f)
    PROVE  MembersKept
  <1>1. ConflictIds' = 1..(opened + 1) /\ ConflictIds' = ConflictIds \cup {opened + 1}
    BY DEF TypeOK, ConflictIds
  <1>2. conflicts'[opened + 1] = [open |-> TRUE, members |-> S, winner |-> None]
    BY <1>1 DEF OpenConflict
  <1>3. \A c \in ConflictIds : conflicts'[c] = conflicts[c]
    BY <1>1 DEF OpenConflict, ConflictIds, TypeOK
  <1> QED
    BY <1>1, <1>2, <1>3 DEF MembersKept

Kept == SourcesKept /\ MembersKept

LEMMA AddStateSources ==
    ASSUME TypeOK, NEW k \in Clients, NEW c \in Candidates, AddState(k, c)
    PROVE  Kept
  <1> DEFINE n == count + 1
  <1>1. Ids' = 1..n /\ Ids' = Ids \cup {n} /\ n \notin Ids
    BY Growth DEF AddState
  <1>2. \A f \in Ids : SourceKept(f)
    BY <1>1, RowKeepsSource DEF AddState, Insert
  <1>3. MembersKept
    BY SameMembers DEF AddState, Insert
  <1> QED
    BY <1>2, <1>3 DEF Kept, SourcesKept

LEMMA SupersedeStateSources ==
    ASSUME TypeOK, NEW k \in Clients, NEW c \in Candidates, SupersedeState(k, c)
    PROVE  Kept
  <1> DEFINE n == count + 1
  <1>1. Ids' = 1..n /\ Ids' = Ids \cup {n} /\ n \notin Ids
    BY Growth DEF SupersedeState
  <1>2. \A f \in Ids : SourceKept(f)
    <2>1. PICK old :
            facts' = [f \in 1..n |-> IF f = n THEN StateRow(c, None)
                                     ELSE IF f = old THEN Retired(f, n, ClosedAt(f, c.vf))
                                     ELSE facts[f]]
      BY DEF SupersedeState
    <2>2. \A f \in Ids : facts'[f] = facts[f] \/ facts'[f] = Retired(f, n, ClosedAt(f, c.vf))
      BY <1>1, <2>1
    <2> QED
      BY <2>2, RowKeepsSource
  <1>3. MembersKept
    BY SameMembers DEF SupersedeState
  <1> QED
    BY <1>2, <1>3 DEF Kept, SourcesKept

LEMMA OpenStateConflictSources ==
    ASSUME TypeOK, NEW k \in Clients, NEW c \in Candidates, OpenStateConflict(k, c)
    PROVE  Kept
  <1> DEFINE n == count + 1
  <1>1. Ids' = 1..n /\ Ids' = Ids \cup {n} /\ n \notin Ids
    BY Growth DEF OpenStateConflict
  <1>2. \A f \in Ids : SourceKept(f)
    BY <1>1, RowKeepsSource DEF OpenStateConflict
  <1>3. PICK old \in Ids : Settled(old) /\ OpenConflict({old, n}) /\ opened' = opened + 1
    BY DEF OpenStateConflict
  <1>4. MembersKept
    BY <1>1, <1>3, NewMembers
  <1> QED
    BY <1>2, <1>4 DEF Kept, SourcesKept

LEMMA AddUntypedSources ==
    ASSUME TypeOK, NEW k \in Clients, NEW u \in Untyped, AddUntyped(k, u)
    PROVE  Kept
  <1> DEFINE n == count + 1
  <1>1. Ids' = 1..n /\ Ids' = Ids \cup {n} /\ n \notin Ids
    BY Growth DEF AddUntyped
  <1>2. \A f \in Ids : SourceKept(f)
    BY <1>1, RowKeepsSource DEF AddUntyped, Insert
  <1>3. MembersKept
    BY SameMembers DEF AddUntyped, Insert
  <1> QED
    BY <1>2, <1>3 DEF Kept, SourcesKept

LEMMA ContradictUntypedSources ==
    ASSUME TypeOK, NEW k \in Clients, NEW u \in Untyped, ContradictUntyped(k, u)
    PROVE  Kept
  <1> DEFINE n == count + 1
  <1>1. Ids' = 1..n /\ Ids' = Ids \cup {n} /\ n \notin Ids
    BY Growth DEF ContradictUntyped
  <1>2. \A f \in Ids : SourceKept(f)
    BY <1>1, RowKeepsSource DEF ContradictUntyped, SettledUntyped
  <1>3. PICK old \in Ids : Settled(old) /\ OpenConflict({old, n}) /\ opened' = opened + 1
    BY DEF ContradictUntyped, SettledUntyped
  <1>4. MembersKept
    BY <1>1, <1>3, NewMembers
  <1> QED
    BY <1>2, <1>4 DEF Kept, SourcesKept

LEMMA MergeNearDuplicateSources ==
    ASSUME TypeOK, NEW k \in Clients, NEW u \in Untyped, MergeNearDuplicate(k, u)
    PROVE  Kept
  <1> DEFINE n == count + 1
  <1>1. Ids' = 1..n /\ Ids' = Ids \cup {n} /\ n \notin Ids
    BY Growth DEF MergeNearDuplicate
  <1>2. \A f \in Ids : SourceKept(f)
    <2>1. PICK old \in Ids :
            \/ facts' = [f \in 1..n |-> IF f = n THEN UntypedRow(u, None)
                                        ELSE IF f = old THEN Retired(f, n, facts[f].vt)
                                        ELSE facts[f]]
            \/ Insert([UntypedRow(u, None) EXCEPT
                         !.invalid = TRUE, !.expired = TRUE, !.sup = old])
      BY DEF MergeNearDuplicate
    <2>2. \A f \in Ids : facts'[f] = facts[f] \/ facts'[f] = Retired(f, n, facts[f].vt)
      BY <1>1, <2>1 DEF Insert
    <2> QED
      BY <2>2, RowKeepsSource
  <1>3. MembersKept
    BY SameMembers DEF MergeNearDuplicate, Insert
  <1> QED
    BY <1>2, <1>3 DEF Kept, SourcesKept

LEMMA ReplaceUntypedSources ==
    ASSUME TypeOK, NEW k \in Clients, NEW u \in Untyped, ReplaceUntyped(k, u)
    PROVE  Kept
  <1> DEFINE n == count + 1
  <1>1. Ids' = 1..n /\ Ids' = Ids \cup {n} /\ n \notin Ids
    BY Growth DEF ReplaceUntyped
  <1>2. \A f \in Ids : SourceKept(f)
    BY <1>1, RowKeepsSource DEF ReplaceUntyped
  <1>3. MembersKept
    BY SameMembers DEF ReplaceUntyped
  <1> QED
    BY <1>2, <1>3 DEF Kept, SourcesKept

LEMMA JoinConflictSources ==
    ASSUME TypeOK, NEW k \in Clients, NEW c \in Candidates, JoinConflict(k, c)
    PROVE  Kept
  <1> DEFINE n == count + 1
  <1>1. Ids' = 1..n /\ Ids' = Ids \cup {n} /\ n \notin Ids
    BY Growth DEF JoinConflict
  <1>2. \A f \in Ids : SourceKept(f)
    BY <1>1, RowKeepsSource DEF JoinConflict, Insert
  <1>3. PICK g \in ConflictIds :
          conflicts' = [conflicts EXCEPT ![g].members = @ \cup {n}]
    BY DEF JoinConflict
  <1>4. conflicts[g] \in Conflict /\ DOMAIN conflicts = ConflictIds /\ ConflictIds' = ConflictIds
    BY DEF TypeOK, JoinConflict, ConflictIds
  <1>5. /\ conflicts'[g].members = conflicts[g].members \cup {n}
        /\ conflicts'[g].winner = conflicts[g].winner
        /\ \A e \in ConflictIds : e # g => conflicts'[e] = conflicts[e]
    BY <1>3, <1>4 DEF Conflict
  <1>6. MembersKept
    BY <1>1, <1>4, <1>5 DEF MembersKept
  <1> QED
    BY <1>2, <1>6 DEF Kept, SourcesKept

LEMMA SettleConflictSources ==
    ASSUME TypeOK, NEW k \in Clients, NEW c \in Candidates, SettleConflict(k, c)
    PROVE  Kept
  <1> DEFINE n == count + 1
  <1>1. Ids' = 1..n /\ Ids' = Ids \cup {n} /\ n \notin Ids
    BY Growth DEF SettleConflict
  <1>2. \A f \in Ids : SourceKept(f)
    <2>1. PICK S :
            facts' = [f \in 1..n |-> IF f = n THEN StateRow(c, None)
                                     ELSE IF f \in S THEN Retired(f, n, c.vf) ELSE facts[f]]
      BY DEF SettleConflict
    <2>2. \A f \in Ids : facts'[f] = facts[f] \/ facts'[f] = Retired(f, n, c.vf)
      BY <1>1, <2>1
    <2> QED
      BY <2>2, RowKeepsSource
  <1>3. PICK g \in ConflictIds :
          conflicts' = [conflicts EXCEPT ![g].open = FALSE,
                                            ![g].members = @ \cup {n},
                                            ![g].winner = n]
    BY DEF SettleConflict
  <1>4. conflicts[g] \in Conflict /\ DOMAIN conflicts = ConflictIds /\ ConflictIds' = ConflictIds
    BY DEF TypeOK, SettleConflict, ConflictIds
  <1>5. /\ conflicts'[g].members = conflicts[g].members \cup {n}
        /\ conflicts'[g].winner = n
        /\ \A e \in ConflictIds : e # g => conflicts'[e] = conflicts[e]
    BY <1>3, <1>4 DEF Conflict
  <1>6. MembersKept
    BY <1>1, <1>4, <1>5 DEF MembersKept
  <1> QED
    BY <1>2, <1>6 DEF Kept, SourcesKept

LEMMA ReplaceByDuplicateSources ==
    ASSUME TypeOK, NEW k \in Clients, NEW u \in Untyped, ReplaceByDuplicate(k, u)
    PROVE  Kept
  <1>1. PICK old \in Ids :
          facts' = [facts EXCEPT ![u.target] = Retired(u.target, old, facts[u.target].vt)]
    BY DEF ReplaceByDuplicate
  <1>2. ASSUME NEW f \in Ids PROVE SourceKept(f)
    <2>1. facts'[f] = facts[f] \/ facts'[f] = Retired(f, old, facts[u.target].vt)
      BY <1>1 DEF TypeOK
    <2> QED
      BY <2>1, RowKeepsSource
  <1>3. MembersKept
    BY SameMembers DEF ReplaceByDuplicate
  <1> QED
    BY <1>2, <1>3 DEF Kept, SourcesKept

LEMMA ResolveConflictSources ==
    ASSUME TypeOK, NEW k \in Clients, NEW g \in ConflictIds, NEW w \in Ids,
           ResolveConflict(k, g, w)
    PROVE  Kept
  <1>1. /\ w \in conflicts[g].members
        /\ facts' = [f \in Ids |->
                       IF f = w THEN [facts[f] EXCEPT !.group = None]
                       ELSE IF f \in conflicts[g].members THEN Retired(f, w, facts[w].vf)
                       ELSE facts[f]]
        /\ conflicts' = [conflicts EXCEPT ![g].open = FALSE, ![g].winner = w]
    BY DEF ResolveConflict, CanElect
  <1>2. \A f \in Ids : SourceKept(f)
    BY <1>1, RowKeepsSource
  <1>3. conflicts[g] \in Conflict /\ DOMAIN conflicts = ConflictIds /\ ConflictIds' = ConflictIds
    BY DEF TypeOK, ResolveConflict, ConflictIds
  <1>4. /\ conflicts'[g].members = conflicts[g].members /\ conflicts'[g].winner = w
        /\ \A e \in ConflictIds : e # g => conflicts'[e] = conflicts[e]
    BY <1>1, <1>3 DEF Conflict
  <1>5. MembersKept
    BY <1>1, <1>3, <1>4 DEF MembersKept
  <1> QED
    BY <1>2, <1>5 DEF Kept, SourcesKept

LEMMA EraseFactSources ==
    ASSUME TypeOK, NEW x \in Ids, EraseFact(x)
    PROVE  Kept
  <1>1. \A f \in Ids : SourceKept(f)
    BY RowKeepsSource DEF EraseFact
  <1>2. ConflictIds' = ConflictIds /\ \A c \in ConflictIds : conflicts'[c] = AfterErasure(c, x)
    BY DEF EraseFact, ConflictIds
  <1>3. ASSUME NEW c \in ConflictIds
        PROVE  /\ conflicts'[c].members \subseteq conflicts[c].members
               /\ conflicts'[c].winner \in {None, conflicts[c].winner}
    <2> DEFINE rest == conflicts[c].members \ {x}
    <2>1. conflicts[c] \in Conflict
      BY DEF TypeOK
    <2>2. conflicts'[c] \in {conflicts[c], [conflicts[c] EXCEPT !.members = rest],
                             [open |-> FALSE, members |-> rest, winner |-> None]}
      BY <1>2 DEF AfterErasure
    <2> QED
      BY <2>1, <2>2 DEF Conflict
  <1>4. MembersKept
    BY <1>2, <1>3 DEF MembersKept
  <1> QED
    BY <1>1, <1>4 DEF Kept, SourcesKept

LEMMA NextSources ==
    ASSUME TypeOK, Next
    PROVE  Kept
  <1>1. ASSUME NEW k \in Clients, NEW c \in Candidates, TypedWrite(k, c) PROVE Kept
    BY <1>1, AddStateSources, SupersedeStateSources, OpenStateConflictSources,
       JoinConflictSources, SettleConflictSources DEF TypedWrite
  <1>2. ASSUME NEW k \in Clients, NEW u \in Untyped, UntypedWrite(k, u) PROVE Kept
    BY <1>2, AddUntypedSources, ContradictUntypedSources, MergeNearDuplicateSources,
       ReplaceUntypedSources DEF UntypedWrite
  <1> QED
    BY <1>1, <1>2, ReplaceByDuplicateSources, ResolveConflictSources, EraseFactSources DEF Next

(* A served transaction. *)
LEMMA ServeKeeps ==
    ASSUME MInv, Serve
    PROVE  MInv'
  <1>1. Next /\ gone' = gone
    BY DEF Serve, Next
  <1>2. TInv /\ TypeOK /\ ErasedIsOut /\ GoneErased /\ LinksLive /\ SourcesFit
    BY DEF MInv, TInv, IInv
  <1>3. TInv' /\ TypeOK'
    BY <1>1, <1>2, NextTruth DEF TInv, IInv
  <1>4. PICK w : RowsStep(w)
    BY <1>1, <1>2, NextTells DEF Told
  <1>5. ErasedIsOut'
    BY <1>2, <1>4, ErasedStayOut
  <1>6. SourcesKept /\ MembersKept
    BY <1>1, <1>2, NextSources DEF Kept
  <1>7. Ids \subseteq Ids' /\ None \notin Ids' /\ None \notin gone
    BY <1>2, <1>3, <1>4 DEF RowsStep, GoneErased, TypeOK, Ids, None
  <1>8. ASSUME NEW f \in gone
        PROVE  f \in Ids /\ ~Settled(f) /\ facts'[f].value = Erased
    <2>1. f \in Ids /\ facts[f].value = Erased /\ ~InForce(f)
      BY <1>2 DEF GoneErased, ErasedIsOut, Readable, InForce
    <2>2. Remains(f)
      BY <1>4, <2>1 DEF RowsStep, GivesWay
    <2> QED
      BY <2>1, <2>2 DEF Remains, Settled
  <1>9. GoneErased'
    BY <1>1, <1>7, <1>8 DEF GoneErased
  <1>10. LinksLive'
    <2>1. ASSUME NEW f \in Ids' PROVE facts'[f].sup \notin gone
      <3>1. Heir(w) => w \notin gone
        BY <1>8 DEF Heir
      <3>2. CASE f \in Ids
        BY <1>2, <1>4, <3>1, <3>2 DEF RowsStep, Remains, GivesWay, LinksLive
      <3>3. CASE f \notin Ids
        BY <1>4, <1>7, <3>1, <3>3 DEF RowsStep, Arrives
      <3> QED
        BY <3>2, <3>3
    <2>2. ASSUME NEW g \in ConflictIds'
          PROVE  conflicts'[g].members \cap gone = {} /\ conflicts'[g].winner \notin gone
      <3>1. conflicts'[g].members \cap gone = {}
        BY <1>2, <1>6, <1>8 DEF MembersKept, LinksLive
      <3> QED
        BY <1>2, <1>6, <1>7, <3>1 DEF MembersKept, LinksLive
    <2> QED
      BY <1>1, <2>1, <2>2 DEF LinksLive
  <1>11. SourcesFit'
    <2>1. Ids' = 1..count' /\ \A f \in Ids' : f > count <=> f \notin Ids
      BY <1>2, <1>3 DEF TypeOK, Ids
    <2>2. source' = [f \in Ids' |->
                      IF f \notin Ids THEN facts'[f].cites
                      ELSE IF facts'[f].value = Erased THEN None ELSE source[f]]
      BY <2>1 DEF Serve
    <2>3. ASSUME NEW f \in Ids'
          PROVE  /\ source'[f] \in 0..MaxFacts
                 /\ facts'[f].cites \in {None, source'[f]}
                 /\ facts'[f].value = Erased => facts'[f].cites = None
      <3>1. facts'[f].cites \in 0..MaxFacts /\ None \in 0..MaxFacts
        BY <1>3, NoneIsNoId DEF TypeOK, Fact
      <3>2. CASE f \notin Ids
        <4>1. facts'[f].value # Erased
          BY <1>4, <3>2 DEF RowsStep, Arrives
        <4> QED
          BY <2>2, <3>1, <3>2, <4>1
      <3>3. CASE f \in Ids /\ facts'[f].value = Erased
        <4>1. facts'[f].cites = None
          BY <1>2, <1>6, <3>3 DEF SourcesFit, SourcesKept, SourceKept
        <4> QED
          BY <2>2, <3>1, <3>3, <4>1
      <3>4. CASE f \in Ids /\ facts'[f].value # Erased
        BY <1>2, <1>6, <2>2, <3>4 DEF SourcesFit, SourcesKept, SourceKept
      <3> QED
        BY <3>2, <3>3, <3>4
    <2> QED
      BY <2>2, <2>3 DEF SourcesFit
  <1> QED
    BY <1>3, <1>5, <1>9, <1>10, <1>11 DEF MInv

-----------------------------------------------------------------------------
(* What the merge of a clustering C does whose survivors are e.            *)

LEMMA HasMin ==
    ASSUME NEW T \in SUBSET Nat, T # {}
    PROVE  Min(T) \in T
  <1> DEFINE Less == {p \in Nat \X Nat : p[1] < p[2]}
  <1>1. IsWellFoundedOn(Less, Nat)
    BY NatLessThanWellFounded DEF OpToRel
  <1>2. PICK x \in T : \A y \in T : <<y, x>> \notin Less
    <2> HIDE DEF Less
    <2> QED
      BY <1>1, WFMin
  <1>3. ASSUME NEW y \in T PROVE x <= y
    <2>1. <<y, x>> \notin Less /\ x \in Nat /\ y \in Nat
      BY <1>2
    <2> QED
      BY <2>1
  <1> QED
    BY <1>3 DEF Min

LEMMA ClusterFacts ==
    ASSUME NEW C \in Clusterings, NEW e \in Elections(C)
    PROVE  /\ \A S \in C : S \subseteq Mergeable /\ e[S] \in S
           /\ \A S, T \in C : S = T \/ S \cap T = {}
  BY DEF Clusterings, Elections

LEMMA SurvivorsStay ==
    ASSUME NEW C \in Clusterings, NEW e \in Elections(C), NEW S \in C
    PROVE  e[S] \in Mergeable \ Losers(C, e)
  BY ClusterFacts DEF Losers

LEMMA LosersMergeable ==
    ASSUME NEW C \in Clusterings, NEW e \in Elections(C)
    PROVE  Losers(C, e) \subseteq Mergeable
  BY ClusterFacts DEF Losers

(* A reference to what is no loser stays; one to a loser goes to what      *)
(* survives it.                                                            *)
LEMMA MovedStays ==
    ASSUME NEW C, NEW e, NEW f, f \notin Losers(C, e)
    PROVE  Moved(C, e, f) = f
  BY DEF Moved, Losers

LEMMA MovedSurvives ==
    ASSUME NEW C \in Clusterings, NEW e \in Elections(C), NEW f \in Losers(C, e)
    PROVE  Moved(C, e, f) \in Mergeable \ Losers(C, e)
  <1>1. PICK S \in C : f \in S \ {e[S]}
    BY DEF Losers
  <1>2. (CHOOSE T \in C : f \in T) = S
    BY <1>1, ClusterFacts
  <1>3. Moved(C, e, f) = e[S]
    BY <1>1, <1>2 DEF Moved
  <1> QED
    BY <1>3, SurvivorsStay

(* Some of the clusters move a reference to a mergeable fact or nowhere. *)
LEMMA MovedSomewhere ==
    ASSUME NEW C \in Clusterings, NEW e \in Elections(C), NEW D \in SUBSET C, NEW f
    PROVE  Moved(D, e, f) = f \/ Moved(D, e, f) \in Mergeable
  <1>1. CASE \E S \in D : f \in S \ {e[S]}
    <2>1. (CHOOSE S \in D : f \in S) \in D
      BY <1>1
    <2> QED
      BY <1>1, <2>1, ClusterFacts DEF Moved
  <1>2. CASE ~\E S \in D : f \in S \ {e[S]}
    BY <1>2 DEF Moved
  <1> QED
    BY <1>1, <1>2

LEMMA MergeableFacts ==
    ASSUME MInv
    PROVE  \A f \in Mergeable :
             /\ f \in Ids /\ f \notin gone /\ f # None /\ f \in 0..MaxFacts
             /\ ~facts[f].invalid /\ facts[f].sup = None /\ facts[f].group = None
             /\ facts[f].vt = None
  <1>1. TypeOK /\ RowsSound
    BY DEF MInv, TInv, IInv
  <1>2. \A f \in Ids : f # None /\ f \in 0..MaxFacts
    BY <1>1, FactStoreAssumption DEF TypeOK, Ids, None
  <1> QED
    BY <1>1, <1>2 DEF Mergeable, Settled, InForce, RowsSound

(* A fact that cites a source goes on citing one. *)
LEMMA RewrittenFits ==
    ASSUME MInv, NEW C \in Clusterings, NEW e \in Elections(C), NEW f \in Ids
    PROVE  /\ Rewritten(C, e, f) \in 0..MaxFacts
           /\ source[f] # None => Rewritten(C, e, f) # None
  <1>1. /\ \A h \in Ids : source[h] \in 0..MaxFacts /\ None \in 0..MaxFacts
        /\ \A h \in Mergeable : h \in Ids /\ h # None /\ h \in 0..MaxFacts
    BY MergeableFacts, NoneIsNoId DEF MInv, SourcesFit
  <1>2. ASSUME NEW D \in SUBSET C, NEW x \in 0..MaxFacts
        PROVE  Moved(D, e, x) \in 0..MaxFacts /\ (x # None => Moved(D, e, x) # None)
    BY <1>1, MovedSomewhere
  <1>3. ASSUME NEW S \in C
        PROVE  /\ MergedSource(S) \in 0..MaxFacts
               /\ \A h \in S : source[h] # None => MergedSource(S) # None
    <2>1. Tagged(S) \subseteq Ids /\ Tagged(S) \in SUBSET Nat
      BY <1>1, ClusterFacts DEF Tagged, Ids
    <2>2. CASE Tagged(S) = {}
      BY <1>1, <2>2 DEF Tagged, MergedSource
    <2>3. CASE Tagged(S) # {}
      BY <1>1, <2>1, <2>3, HasMin DEF Tagged, MergedSource
    <2> QED
      BY <2>2, <2>3
  <1>4. CASE \E S \in C : e[S] = f
    <2> DEFINE S == CHOOSE T \in C : e[T] = f
    <2>1. S \in C /\ f \in S /\ From(C, S) \in SUBSET C
      BY <1>4, ClusterFacts DEF From
    <2>2. Rewritten(C, e, f) \in {MergedSource(S), Moved(From(C, S), e, MergedSource(S))}
      BY <1>4 DEF Rewritten
    <2> HIDE DEF S
    <2> QED
      BY <1>2, <1>3, <2>1, <2>2
  <1>5. CASE ~\E S \in C : e[S] = f
    <2>1. Rewritten(C, e, f) \in {source[f], Moved(C, e, source[f])}
      BY <1>5 DEF Rewritten
    <2> QED
      BY <1>1, <1>2, <2>1
  <1> QED
    BY <1>4, <1>5

MergedBy(C, e) ==
    /\ gone' = gone \cup Losers(C, e)
    /\ source' = [f \in Ids |-> IF f \in gone' THEN None ELSE Rewritten(C, e, f)]
    /\ facts' = [f \in Ids |->
                   IF f \in gone' THEN Blank
                   ELSE [facts[f] EXCEPT
                           !.sup = Relinked(C, e, f),
                           !.cites = IF @ = None THEN None ELSE source'[f]]]
    /\ conflicts' = [g \in ConflictIds |->
                       [conflicts[g] EXCEPT
                           !.members = {Moved(C, e, f) : f \in @},
                           !.winner = Moved(C, e, @)]]
    /\ UNCHANGED <<count, opened>>

(* The row of a fact that is not deleted: the links that led to a loser    *)
(* lead to a survivor, which nothing supersedes.                           *)
Survives(C, e, f) ==
    /\ facts'[f].slot = facts[f].slot /\ facts'[f].value = facts[f].value
    /\ facts'[f].auth = facts[f].auth /\ facts'[f].claims = facts[f].claims
    /\ facts'[f].vf = facts[f].vf /\ facts'[f].vt = facts[f].vt
    /\ facts'[f].invalid = facts[f].invalid /\ facts'[f].expired = facts[f].expired
    /\ facts'[f].group = facts[f].group
    /\ facts[f].sup = None => facts'[f].sup = None
    /\ facts[f].sup # None => facts'[f].sup = Moved(C, e, facts[f].sup)
    /\ facts'[f].sup \in 0..MaxFacts
    /\ facts'[f].cites \in 0..MaxFacts /\ facts'[f].cites \in {None, source'[f]}
    /\ facts'[f].cites = None <=> facts[f].cites = None
    /\ facts'[f] \in Fact

LEMMA RelinkedFits ==
    ASSUME MInv, NEW C \in Clusterings, NEW e \in Elections(C), NEW f \in Ids
    PROVE  /\ facts[f].sup = None => Relinked(C, e, f) = None
           /\ facts[f].sup # None => Relinked(C, e, f) = Moved(C, e, facts[f].sup)
           /\ Relinked(C, e, f) \in 0..MaxFacts
  <1>1. /\ SupersededIsHistory /\ NoSupersessionCycle /\ f # None /\ f \in 0..MaxFacts
        /\ None \in 0..MaxFacts /\ facts[f].sup \in 0..MaxFacts
    BY NoneIsNoId, FactStoreAssumption DEF MInv, TInv, IInv, TypeOK, Fact, Ids, None
  <1>2. None \notin Losers(C, e)
    BY LosersMergeable, MergeableFacts
  <1>3. CASE facts[f].sup = None
    BY <1>1, <1>2, <1>3, MovedStays DEF Relinked
  <1>4. CASE facts[f].sup # None
    <2>1. f \notin Mergeable /\ facts[f].sup # f
      <3>1. facts[f].sup \notin {f}
        BY <1>1 DEF NoSupersessionCycle
      <3> QED
        BY <1>4, <3>1, MergeableFacts
    <2>2. Moved(C, e, facts[f].sup) = facts[f].sup \/ Moved(C, e, facts[f].sup) \in Mergeable
      BY MovedSomewhere
    <2>3. Moved(C, e, facts[f].sup) # f /\ Moved(C, e, facts[f].sup) \in 0..MaxFacts
      BY <1>1, <2>1, <2>2, MergeableFacts
    <2> QED
      BY <1>4, <2>3 DEF Relinked
  <1> QED
    BY <1>3, <1>4

LEMMA RowsMerged ==
    ASSUME MInv, NEW C \in Clusterings, NEW e \in Elections(C), MergedBy(C, e)
    PROVE  /\ Ids' = Ids /\ ConflictIds' = ConflictIds
           /\ \A f \in gone' : f \in Ids /\ facts'[f] = Blank
           /\ \A f \in Ids \ gone' : f \notin Losers(C, e) /\ Survives(C, e, f)
  <1>1. Ids' = Ids /\ ConflictIds' = ConflictIds
    BY DEF MergedBy, Ids, ConflictIds
  <1>2. \A f \in gone' : f \in Ids /\ facts'[f] = Blank
    BY LosersMergeable, MergeableFacts DEF MergedBy, MInv, GoneErased
  <1>3. ASSUME NEW f \in Ids \ gone' PROVE f \notin Losers(C, e) /\ Survives(C, e, f)
    <2> DEFINE p == Relinked(C, e, f)
               q == IF facts[f].cites = None THEN None ELSE source'[f]
    <2>1. facts'[f] = [facts[f] EXCEPT !.sup = p, !.cites = q]
      BY DEF MergedBy
    <2>2. facts[f] \in Fact /\ None \in 0..MaxFacts
      BY NoneIsNoId DEF MInv, TInv, IInv, TypeOK
    <2>3. /\ source'[f] \in 0..MaxFacts
          /\ source[f] # None => source'[f] # None
      BY RewrittenFits DEF MergedBy
    <2>4. /\ q \in 0..MaxFacts /\ q \in {None, source'[f]}
          /\ q = None <=> facts[f].cites = None
      BY <2>2, <2>3 DEF MInv, SourcesFit
    <2>5. /\ facts[f].sup = None => p = None
          /\ facts[f].sup # None => p = Moved(C, e, facts[f].sup)
          /\ p \in 0..MaxFacts
      BY RelinkedFits
    <2> HIDE DEF p, q
    <2>6. facts'[f] \in Fact
      BY <2>1, <2>2, <2>4, <2>5 DEF Fact
    <2> QED
      BY <2>1, <2>2, <2>4, <2>5, <2>6 DEF Survives, MergedBy, Fact
  <1> QED
    BY <1>1, <1>2, <1>3

LEMMA RecordsMerged ==
    ASSUME MInv, NEW C \in Clusterings, NEW e \in Elections(C), MergedBy(C, e),
           NEW g \in ConflictIds
    PROVE  /\ conflicts'[g].open = conflicts[g].open
           /\ conflicts'[g].members = {Moved(C, e, f) : f \in conflicts[g].members}
           /\ conflicts'[g].winner = Moved(C, e, conflicts[g].winner)
  <1>1. conflicts[g] \in Conflict
    BY DEF MInv, TInv, IInv, TypeOK
  <1> DEFINE M == {Moved(C, e, f) : f \in conflicts[g].members}
             w == Moved(C, e, conflicts[g].winner)
  <1>2. conflicts'[g] = [conflicts[g] EXCEPT !.members = M, !.winner = w]
    BY DEF MergedBy
  <1> HIDE DEF M, w
  <1>3. conflicts'[g].open = conflicts[g].open /\ conflicts'[g].members = M /\ conflicts'[g].winner = w
    BY <1>1, <1>2 DEF Conflict
  <1> QED
    BY <1>3 DEF M, w

LEMMA BlankFields ==
    /\ Blank \in Fact /\ Blank.slot = NoSlot /\ Blank.value = Erased /\ Blank.invalid
    /\ ~Blank.expired /\ Blank.sup = None /\ Blank.group = None /\ Blank.cites = None
    /\ Blank.vt = None
  BY NoneIsNoId DEF Blank, Fact, Claims

(* What a merge keeps of the rows. *)
LEMMA MergedRowsKeep ==
    ASSUME MInv, NEW C \in Clusterings, NEW e \in Elections(C), MergedBy(C, e)
    PROVE  IInv'
  <1> DEFINE L == Losers(C, e)
  <1>1. /\ TypeOK /\ FewerConflictsThanFacts /\ RowsSound /\ SupersededIsHistory
        /\ ShareOnlyInConflict /\ NoSupersessionCycle /\ LinksLive
    BY DEF MInv, TInv, IInv
  <1>2. /\ Ids' = Ids /\ ConflictIds' = ConflictIds
        /\ \A f \in gone' : f \in Ids /\ facts'[f] = Blank
        /\ \A f \in Ids \ gone' : f \notin L /\ Survives(C, e, f)
    BY RowsMerged
  <1>3. ASSUME NEW f \in Ids, facts[f].sup # None
        PROVE  /\ f \notin Mergeable /\ facts[f].sup \in Ids
               /\ Moved(C, e, facts[f].sup) \in Ids
               /\ \/ Moved(C, e, facts[f].sup) = facts[f].sup
                  \/ facts'[Moved(C, e, facts[f].sup)].sup = None
    <2>1. f \notin Mergeable /\ facts[f].sup \in Ids
      BY <1>1, <1>3, MergeableFacts DEF SupersededIsHistory
    <2>2. CASE facts[f].sup \notin L
      BY <2>1, <2>2, MovedStays
    <2>3. CASE facts[f].sup \in L
      <3>1. Moved(C, e, facts[f].sup) \in Mergeable \ L
        BY <2>3, MovedSurvives
      <3>2. Moved(C, e, facts[f].sup) \in Ids \ gone' /\ facts[Moved(C, e, facts[f].sup)].sup = None
        BY <3>1, MergeableFacts DEF MergedBy
      <3> QED
        BY <1>2, <2>1, <3>2 DEF Survives
    <2> QED
      BY <2>1, <2>2, <2>3
  <1>4. TypeOK'
    <2>1. facts' \in [Ids -> Fact]
      <3>1. DOMAIN facts' = Ids
        BY DEF MergedBy
      <3>2. \A f \in Ids : facts'[f] \in Fact
        BY <1>2, BlankFields DEF Survives
      <3>3. facts' = [f \in Ids |-> facts'[f]]
        BY <3>1 DEF MergedBy
      <3> QED
        BY <3>2, <3>3
    <2>2. ASSUME NEW g \in ConflictIds PROVE conflicts'[g] \in Conflict
      <3>1. conflicts[g] \in Conflict
        BY <1>1 DEF TypeOK
      <3>2. ASSUME NEW x \in 0..MaxFacts
            PROVE  /\ Moved(C, e, x) \in 0..MaxFacts
                   /\ x \in 1..MaxFacts => Moved(C, e, x) \in 1..MaxFacts
        BY MovedSomewhere, MergeableFacts, FactStoreAssumption DEF None
      <3> DEFINE M == {Moved(C, e, f) : f \in conflicts[g].members}
                 w == Moved(C, e, conflicts[g].winner)
      <3>3. M \in SUBSET (1..MaxFacts) /\ w \in 0..MaxFacts
        BY <3>1, <3>2, FactStoreAssumption DEF Conflict
      <3>4. conflicts'[g] = [conflicts[g] EXCEPT !.members = M, !.winner = w]
        BY DEF MergedBy
      <3> HIDE DEF M, w
      <3> QED
        BY <3>1, <3>3, <3>4 DEF Conflict
    <2>3. conflicts' \in [ConflictIds -> Conflict]
      <3>1. conflicts' = [g \in ConflictIds |-> conflicts'[g]]
        BY DEF MergedBy
      <3> QED
        BY <2>2, <3>1
    <2> QED
      BY <1>1, <1>2, <2>1, <2>3 DEF MergedBy, TypeOK
  <1>5. FewerConflictsThanFacts'
    BY <1>1 DEF FewerConflictsThanFacts, MergedBy
  <1>6. RowsSound'
    <2> SUFFICES ASSUME NEW f \in Ids \ gone'
                 PROVE  /\ facts'[f].vt # None => facts'[f].invalid
                        /\ facts'[f].expired => facts'[f].invalid
                        /\ facts'[f].group # None =>
                             /\ facts'[f].group \in ConflictIds
                             /\ f \in conflicts'[facts'[f].group].members
      BY <1>2, BlankFields DEF RowsSound
    <2>1. Survives(C, e, f) /\ Moved(C, e, f) = f
      BY <1>2, MovedStays
    <2>2. ASSUME facts[f].group # None
          PROVE  f \in conflicts'[facts[f].group].members
      <3>1. facts[f].group \in ConflictIds /\ f \in conflicts[facts[f].group].members
        BY <1>1, <2>2 DEF RowsSound
      <3>2. conflicts'[facts[f].group].members
              = {Moved(C, e, h) : h \in conflicts[facts[f].group].members}
        BY <3>1, RecordsMerged
      <3> QED
        BY <2>1, <3>1, <3>2
    <2> QED
      BY <1>1, <2>1, <2>2 DEF RowsSound, Survives
  <1>7. SupersededIsHistory'
    <2> SUFFICES ASSUME NEW f \in Ids \ gone', facts'[f].sup # None
                 PROVE  facts'[f].invalid /\ facts'[f].expired /\ facts'[f].sup \in Ids
      BY <1>2, BlankFields DEF SupersededIsHistory
    <2> QED
      BY <1>1, <1>2, <1>3 DEF SupersededIsHistory, Survives
  <1>8. ShareOnlyInConflict'
    <2> SUFFICES ASSUME NEW f \in Ids \ gone', NEW g \in Ids \ gone',
                        f # g, facts'[f].slot # NoSlot, facts'[f].slot = facts'[g].slot,
                        InForce(f)', InForce(g)'
                 PROVE  facts'[f].group = facts'[g].group /\ facts'[f].group # None
      BY <1>2, BlankFields DEF ShareOnlyInConflict, InForce
    <2>1. Survives(C, e, f) /\ Survives(C, e, g)
      BY <1>2
    <2>2. InForce(f) /\ InForce(g)
      BY <1>1, <2>1 DEF InForce, Survives, SupersededIsHistory
    <2> QED
      BY <1>1, <2>1, <2>2, ZenonT(60) DEF ShareOnlyInConflict, Survives
  <1>9. NoSupersessionCycle'
    <2> SUFFICES ASSUME NEW S \in SUBSET Ids, S # {}, \A f \in S : facts'[f].sup \in S
                 PROVE  FALSE
      BY <1>2 DEF NoSupersessionCycle
    <2>1. None \notin S
      BY RecordIds, <1>1
    <2>2. ASSUME NEW f \in S PROVE facts'[f].sup = facts[f].sup
      <3>1. f \notin gone' /\ facts[f].sup # None /\ facts'[f].sup # None
        BY <1>2, <2>1, BlankFields DEF Survives
      <3>2. facts'[f].sup = Moved(C, e, facts[f].sup)
        BY <1>2, <3>1 DEF Survives
      <3>3. facts'[facts'[f].sup].sup # None
        BY <2>1
      <3> QED
        BY <1>3, <3>1, <3>2, <3>3
    <2> QED
      BY <1>1, <2>2 DEF NoSupersessionCycle
  <1> QED
    BY <1>4, <1>5, <1>6, <1>7, <1>8, <1>9 DEF IInv

(* What it keeps of the records of conflicts and of valid intervals. *)
LEMMA MergedRecordsKeep ==
    ASSUME MInv, NEW C \in Clusterings, NEW e \in Elections(C), MergedBy(C, e)
    PROVE  /\ RecordsFit' /\ WinnersOpenEnded' /\ ConflictsSound' /\ LaterIsElected'
           /\ LinksLive'
  <1> DEFINE L == Losers(C, e)
  <1>1. /\ TypeOK /\ RowsSound /\ SupersededIsHistory /\ RecordsFit /\ WinnersOpenEnded
        /\ ConflictsSound /\ LaterIsElected /\ LinksLive /\ gone \subseteq Ids
        /\ None \notin Ids
    BY RecordIds DEF MInv, TInv, IInv, GoneErased
  <1>2. /\ Ids' = Ids /\ ConflictIds' = ConflictIds
        /\ \A f \in gone' : f \in Ids /\ facts'[f] = Blank
        /\ \A f \in Ids \ gone' : f \notin L /\ Survives(C, e, f)
        /\ gone' = gone \cup L
    BY RowsMerged DEF MergedBy
  <1>3. /\ \A f \in L : f \in Mergeable /\ Moved(C, e, f) \in Mergeable \ L
        /\ \A f : f \notin L => Moved(C, e, f) = f
        /\ None \notin L
    BY LosersMergeable, MovedSurvives, MovedStays, MergeableFacts
  <1>4. \A f \in Ids \cup {None} : f \notin gone => Moved(C, e, f) \notin gone'
    BY <1>2, <1>3, MergeableFacts
  <1>5. \A f \in Ids : Moved(C, e, f) \in Ids /\ Moved(C, e, f) # None
    BY <1>1, <1>3, MergeableFacts
  <1>6. LinksLive'
    <2>1. ASSUME NEW f \in Ids PROVE facts'[f].sup \notin gone'
      <3>1. CASE f \in gone' \/ facts'[f].sup = None
        BY <1>1, <1>2, <3>1, BlankFields
      <3>2. CASE f \notin gone' /\ facts'[f].sup # None
        BY <1>1, <1>2, <1>4, <3>2 DEF Survives, LinksLive, SupersededIsHistory
      <3> QED
        BY <3>1, <3>2
    <2>2. ASSUME NEW g \in ConflictIds
          PROVE  conflicts'[g].members \cap gone' = {} /\ conflicts'[g].winner \notin gone'
      <3>1. /\ conflicts[g].members \cap gone = {} /\ conflicts[g].winner \notin gone
            /\ conflicts[g].members \subseteq Ids /\ conflicts[g].winner \in Ids \cup {None}
        BY <1>1 DEF LinksLive, RecordsFit
      <3>2. /\ conflicts'[g].members = {Moved(C, e, f) : f \in conflicts[g].members}
            /\ conflicts'[g].winner = Moved(C, e, conflicts[g].winner)
        BY RecordsMerged
      <3> QED
        BY <1>4, <3>1, <3>2
    <2> QED
      BY <1>2, <2>1, <2>2 DEF LinksLive
  (* The members of a conflict that is open are marked: they stay. *)
  <1>7. ASSUME NEW g \in ConflictIds, conflicts[g].open
        PROVE  /\ conflicts'[g].members = conflicts[g].members
               /\ \A f \in conflicts[g].members :
                    f \in Ids /\ facts[f].group = g /\ f \notin gone' /\ Survives(C, e, f)
    <2>1. \A f \in conflicts[g].members :
            /\ f \in Ids /\ facts[f].group = g /\ g # None /\ f \notin gone /\ f \notin Mergeable
      BY <1>1, <1>7, RecordIds, MergeableFacts DEF RecordsFit, ConflictsSound, LinksLive
    <2>2. conflicts'[g].members = {Moved(C, e, f) : f \in conflicts[g].members}
      BY RecordsMerged
    <2> QED
      BY <1>2, <1>3, <2>1, <2>2
  <1>8. RecordsFit'
    <2> SUFFICES ASSUME NEW g \in ConflictIds
                 PROVE  /\ conflicts'[g].members \subseteq Ids
                        /\ conflicts'[g].winner \in Ids \cup {None}
                        /\ conflicts'[g].open => conflicts'[g].winner = None
                        /\ conflicts'[g].open =>
                             \A f \in conflicts'[g].members : facts'[f].vt = None
      BY <1>2 DEF RecordsFit
    <2>1. /\ conflicts[g].members \subseteq Ids /\ conflicts[g].winner \in Ids \cup {None}
          /\ conflicts[g].open => conflicts[g].winner = None
          /\ conflicts[g].open => \A f \in conflicts[g].members : facts[f].vt = None
      BY <1>1 DEF RecordsFit
    <2>2. /\ conflicts'[g].open = conflicts[g].open
          /\ conflicts'[g].members = {Moved(C, e, f) : f \in conflicts[g].members}
          /\ conflicts'[g].winner = Moved(C, e, conflicts[g].winner)
      BY RecordsMerged
    <2> QED
      BY <1>3, <1>5, <1>7, <2>1, <2>2 DEF Survives
  <1>9. WinnersOpenEnded'
    <2> SUFFICES ASSUME NEW g \in ConflictIds, conflicts'[g].winner # None
                 PROVE  \/ facts'[conflicts'[g].winner].vt = None
                        \/ facts'[conflicts'[g].winner].expired
      BY <1>2 DEF WinnersOpenEnded
    <2> DEFINE w == conflicts[g].winner
               v == conflicts'[g].winner
    <2>1. v = Moved(C, e, w) /\ w # None /\ w \in Ids /\ w \notin gone
      BY <1>1, <1>3, RecordsMerged DEF RecordsFit, LinksLive
    <2>2. CASE w \in L
      <3>1. v \in Mergeable /\ v \in Ids \ gone'
        BY <1>2, <1>3, <2>1, <2>2, MergeableFacts
      <3> QED
        BY <1>2, <3>1, MergeableFacts DEF Survives
    <2>3. CASE w \notin L
      <3>1. v = w /\ w \in Ids \ gone'
        BY <1>2, <1>3, <2>1, <2>3
      <3> QED
        BY <1>1, <1>2, <2>1, <3>1 DEF Survives, WinnersOpenEnded
    <2> QED
      BY <2>2, <2>3
  <1>10. ConflictsSound'
    <2> SUFFICES ASSUME NEW g \in ConflictIds
                 PROVE  LET M == conflicts'[g].members IN
                        /\ conflicts'[g].open =>
                             /\ \E f, h \in M : f # h
                             /\ \A f \in M :
                                  /\ facts'[f].group = g /\ facts'[f].sup = None
                                  /\ facts'[f].invalid => facts'[f].cites # None
                             /\ \A f, h \in M : facts'[f].slot = facts'[h].slot
                        /\ conflicts'[g].winner # None =>
                             \A f \in M \ {conflicts'[g].winner} :
                               facts'[f].sup = conflicts'[g].winner
      BY <1>2 DEF ConflictsSound
    <2>1. /\ conflicts'[g].open = conflicts[g].open
          /\ conflicts'[g].members = {Moved(C, e, f) : f \in conflicts[g].members}
          /\ conflicts'[g].winner = Moved(C, e, conflicts[g].winner)
      BY RecordsMerged
    <2>2. ASSUME conflicts[g].open
          PROVE  /\ \E f, h \in conflicts'[g].members : f # h
                 /\ \A f \in conflicts'[g].members :
                      /\ facts'[f].group = g /\ facts'[f].sup = None
                      /\ facts'[f].invalid => facts'[f].cites # None
                 /\ \A f, h \in conflicts'[g].members : facts'[f].slot = facts'[h].slot
      BY <1>1, <1>7, <2>2 DEF ConflictsSound, Survives
    <2>3. ASSUME conflicts'[g].winner # None, NEW f \in conflicts'[g].members,
                 f # conflicts'[g].winner
          PROVE  facts'[f].sup = conflicts'[g].winner
      <3> DEFINE w == conflicts[g].winner
      <3>1. PICK x \in conflicts[g].members : f = Moved(C, e, x)
        BY <2>1
      <3>2. w # None /\ x # w
        BY <1>3, <2>1, <2>3, <3>1
      <3>3. facts[x].sup = w /\ x \in Ids /\ x \notin gone
        BY <1>1, <3>2 DEF ConflictsSound, RecordsFit, LinksLive
      <3>4. x \notin L /\ f = x
        BY <1>3, <3>1, <3>2, <3>3, MergeableFacts
      <3> QED
        BY <1>2, <2>1, <3>2, <3>3, <3>4 DEF Survives
    <2> QED
      BY <2>1, <2>2, <2>3
  <1>11. LaterIsElected'
    <2> SUFFICES ASSUME NEW f \in Ids \ gone', NEW h \in Ids \ gone',
                        f < h, facts'[f].slot # NoSlot, facts'[f].slot = facts'[h].slot,
                        Holds(f)', facts'[f].group = None \/ InForce(f)',
                        Holds(h)', facts'[h].group = None,
                        Overlaps(facts'[f], facts'[h])
                 PROVE  Elected(h)'
      BY <1>2, BlankFields DEF LaterIsElected
    <2>1. Survives(C, e, f) /\ Survives(C, e, h) /\ Moved(C, e, h) = h
      BY <1>2, <1>3
    <2>2. /\ facts[f].slot # NoSlot /\ facts[f].slot = facts[h].slot
          /\ Holds(f) /\ Holds(h) /\ facts[h].group = None
          /\ Overlaps(facts[f], facts[h])
      BY <2>1 DEF Survives, Holds, Overlaps
    <2>3. facts[f].group = None \/ InForce(f)
      BY <1>1, <2>1 DEF Survives, InForce, SupersededIsHistory
    <2>4. PICK g \in ConflictIds : conflicts[g].winner = h
      BY <1>1, <2>2, <2>3 DEF LaterIsElected, Elected
    <2>5. conflicts'[g].winner = h
      BY <2>1, <2>4, RecordsMerged
    <2> QED
      BY <1>2, <2>5 DEF Elected
  <1> QED
    BY <1>6, <1>8, <1>9, <1>10, <1>11

LEMMA MergeKeeps ==
    ASSUME MInv, ExecuteMerge
    PROVE  MInv'
  <1>1. PICK C \in Clusterings : \E e \in Elections(C) : MergedBy(C, e)
    BY DEF ExecuteMerge, MergedBy
  <1>2. PICK e \in Elections(C) : MergedBy(C, e)
    BY <1>1
  <1>3. TInv' /\ LinksLive'
    BY <1>2, MergedRowsKeep, MergedRecordsKeep DEF TInv
  <1>4. /\ Ids' = Ids
        /\ \A f \in gone' : f \in Ids /\ facts'[f] = Blank
        /\ \A f \in Ids \ gone' : Survives(C, e, f)
    BY <1>2, RowsMerged
  <1>5. ErasedIsOut'
    BY <1>4, BlankFields DEF MInv, ErasedIsOut, Readable, Survives
  <1>6. GoneErased'
    BY <1>4, BlankFields DEF GoneErased
  <1>7. SourcesFit'
    <2>1. \A f \in Ids : Rewritten(C, e, f) \in 0..MaxFacts /\ None \in 0..MaxFacts
      BY RewrittenFits, NoneIsNoId
    <2>2. source' \in [Ids -> 0..MaxFacts]
      BY <1>2, <2>1 DEF MergedBy
    <2>3. ASSUME NEW f \in Ids
          PROVE  /\ facts'[f].cites \in {None, source'[f]}
                 /\ facts'[f].value = Erased => facts'[f].cites = None
      BY <1>4, BlankFields DEF MInv, SourcesFit, Survives
    <2> QED
      BY <1>4, <2>2, <2>3 DEF SourcesFit
  <1> QED
    BY <1>3, <1>5, <1>6, <1>7 DEF MInv

LEMMA InitMInv == MergeInit => MInv
  <1> SUFFICES ASSUME MergeInit PROVE MInv
    OBVIOUS
  <1>1. TInv /\ Ids = {} /\ ConflictIds = {}
    BY InitTInv DEF MergeInit, Init, Ids, ConflictIds
  <1> QED
    BY <1>1 DEF MInv, MergeInit, ErasedIsOut, GoneErased, LinksLive, SourcesFit

LEMMA MergeStepsKeep == MInv /\ [MergeNext]_mergeVars => MInv'
  <1> SUFFICES ASSUME MInv, [MergeNext]_mergeVars PROVE MInv'
    OBVIOUS
  <1>1. CASE MergeNext
    BY <1>1, ServeKeeps, MergeKeeps DEF MergeNext
  <1>2. CASE UNCHANGED mergeVars
    <2>1. TInv'
      BY <1>2, TruthStepsKeep DEF MInv, mergeVars, vars
    <2>2. ErasedIsOut' /\ GoneErased' /\ LinksLive' /\ SourcesFit'
      BY <1>2 DEF MInv, mergeVars, ErasedIsOut, GoneErased, LinksLive, SourcesFit, Readable,
         Ids, ConflictIds
    <2> QED
      BY <2>1, <2>2 DEF MInv
  <1> QED
    BY <1>1, <1>2

THEOREM MergeInvariant == MergeSpec => []MInv
  BY InitMInv, MergeStepsKeep, PTL DEF MergeSpec

(* Whatever clusters the offline merge deletes, in whatever order merges   *)
(* and writes follow each other, no supersession link, no conflict and no  *)
(* winner names a deleted fact, and conflicts stay sound: the check for    *)
(* orphaned references before its commit never fails.                      *)
THEOREM MergesAreSound == MergeSpec => []MergeSound
  <1>1. MInv => MergeSound
    BY DEF MInv, TInv, MergeSound
  <1> QED
    BY <1>1, MergeInvariant, PTL

=============================================================================
