--------------------------- MODULE WriteLogProofs ---------------------------
(* Theorems of WriteLog: an idempotency key has one outcome for any orders *)
(* and any losses, which only an erasure amends, and facts, evidence and   *)
(* outcomes agree.                                                         *)
EXTENDS WriteLog, TLAPS

(* TypeOK, of the database and of the rest.                                *)
TablesFit ==
    /\ facts \in [FactIds -> [state : {"none", "active", "superseded", "erased"},
                              text : Texts \cup {None}, scope : Scopes \cup {None},
                              key : Keys \cup {None}]]
    /\ observations \in [ObservationIds -> [hash : {Hash(o) : o \in Orders} \cup {None, Unique},
                                            content : Evidence \cup {None, "erased"}]]
    /\ \A i, j \in ObservationIds :
         observations[i].hash = observations[j].hash /\ i # j =>
             observations[i].hash \in {None, Unique}
    /\ provenance \subseteq FactIds \X ObservationIds
    /\ log \in [Keys -> Rows \cup {None}]
    /\ sessions \in [Sessions -> (SUBSET Scopes) \cup {None}]

WorldFits ==
    /\ grants \subseteq Scopes
    /\ calls \in [Orders -> Nat]
    /\ state \in [Orders -> {"idle", "waiting", "failed", "done", "refused"}]
    /\ told \subseteq Keys \X Rows
    /\ budget \in [Kinds -> Nat]

Kept(i) == facts[i].state \in {"active", "superseded"}

(* A link joins a fact and an observation that there are.                  *)
LinksFit ==
    \A i \in FactIds, j \in ObservationIds : <<i, j>> \in provenance =>
        facts[i].state # "none" /\ observations[j].content # None

(* What supported an erased fact has a hash no write computes, so the same *)
(* evidence given again is a new observation.                              *)
ErasedIsScrubbed ==
    \A i \in FactIds, j \in ObservationIds :
        <<i, j>> \in provenance /\ facts[i].state = "erased" =>
            observations[j] = [hash |-> Unique, content |-> "erased"]

(* What supports a kept fact is there in full, and something does unless   *)
(* the fact lost to a near duplicate when it came.                         *)
EvidenceKept ==
    /\ \A i \in FactIds, j \in ObservationIds :
         <<i, j>> \in provenance /\ Kept(i) => observations[j].content \in Evidence
    /\ \A i \in FactIds : Kept(i) => Lost(i) \/ \E j \in ObservationIds : <<i, j>> \in provenance

TextKept == \A i \in FactIds : Kept(i) => facts[i].text \in Texts

(* A key that named a fact has been used.                                  *)
KeysLogged == \A i \in FactIds : facts[i].key # None => log[facts[i].key] # None

TablesSound ==
    /\ TablesFit /\ LinksFit /\ ErasedIsScrubbed /\ EvidenceKept /\ TextKept /\ KeysLogged
    /\ OneFactPerKey /\ LogAgrees

IInv == WorldFits /\ TablesSound

-----------------------------------------------------------------------------
(* Constants and the parts of the invariant.                               *)

LEMMA OrderTypes ==
    ASSUME NEW o \in Orders
    PROVE  /\ Order[o].session \in Sessions /\ Order[o].key \in Keys
           /\ Order[o].method \in {"write", "promote"}
           /\ Order[o].text \in Texts /\ Order[o].evidence \in Evidence
           /\ Order[o].scope \in Scopes /\ Order[o].target \in 0..MaxFacts
  <1>1. Order[o] \in [session : Sessions, key : Keys, method : {"write", "promote"},
                      text : Texts, evidence : Evidence, scope : Scopes,
                      target : 0..MaxFacts]
    BY WriteLogAssumption
  <1> QED
    BY <1>1

LEMMA TypeParts == TypeOK <=> TablesFit /\ WorldFits
  BY DEF TypeOK, TablesFit, WorldFits

LEMMA LinkPairs ==
    ASSUME TablesFit, NEW l \in provenance
    PROVE  /\ l[1] \in FactIds /\ l[2] \in ObservationIds /\ l = <<l[1], l[2]>>
  BY DEF TablesFit

LEMMA TablesTell == TablesSound => EvidenceIntact /\ ErasedEvidenceGone
  <1> SUFFICES ASSUME TablesSound PROVE EvidenceIntact /\ ErasedEvidenceGone
    OBVIOUS
  <1>1. EvidenceIntact
    <2> SUFFICES ASSUME NEW i \in FactIds, Kept(i), facts[Holder(i)].state # "erased"
                 PROVE  \E l \in provenance :
                          l[1] = Holder(i) /\ observations[l[2]].content \in Evidence
      BY DEF EvidenceIntact, Kept
    <2>1. PICK h : h = Holder(i)
      OBVIOUS
    <2>2. h \in FactIds /\ facts[h].state \notin {"none", "erased"}
          /\ \E j \in ObservationIds : <<h, j>> \in provenance
      <3>1. CASE Lost(i)
        <4>1. PICK k \in Keys : k = facts[i].key /\ log[k] # None /\ log[k].outcome = "near_dedup"
          BY <3>1 DEF Lost, TablesSound, TablesFit
        <4>2. h = log[k].fact /\ <<h, log[k].observation>> \in provenance
          BY <2>1, <3>1, <4>1 DEF Holder, TablesSound, LogAgrees
        <4>3. h \in FactIds /\ log[k].observation \in ObservationIds
          BY <4>2 DEF TablesSound, TablesFit
        <4> QED
          BY <2>1, <4>2, <4>3 DEF TablesSound, LinksFit
      <3>2. CASE ~Lost(i)
        BY <2>1, <3>2 DEF Holder, Kept, TablesSound, EvidenceKept
      <3> QED
        BY <3>1, <3>2
    <2>3. Kept(h)
      <3>1. facts[h].state \in {"none", "active", "superseded", "erased"}
        BY <2>2 DEF TablesSound, TablesFit
      <3> QED
        BY <2>2, <3>1 DEF Kept
    <2>4. PICK j \in ObservationIds : <<h, j>> \in provenance /\ observations[j].content \in Evidence
      BY <2>2, <2>3 DEF TablesSound, EvidenceKept
    <2> QED
      BY <2>1, <2>4
  <1>2. ErasedEvidenceGone
    <2> SUFFICES ASSUME NEW l \in provenance, facts[l[1]].state = "erased"
                 PROVE  observations[l[2]].content = "erased"
      BY DEF ErasedEvidenceGone
    <2>1. /\ l[1] \in FactIds /\ l[2] \in ObservationIds /\ <<l[1], l[2]>> \in provenance
      BY LinkPairs DEF TablesSound
    <2>2. observations[l[2]] = [hash |-> Unique, content |-> "erased"]
      BY <2>1 DEF TablesSound, ErasedIsScrubbed
    <2> QED
      BY <2>2
  <1> QED
    BY <1>1, <1>2

-----------------------------------------------------------------------------
(* Steps that leave the tables of facts and outcomes alone.                *)

LEMMA TablesStay ==
    ASSUME TablesSound, UNCHANGED <<facts, observations, provenance, log>>,
           sessions' \in [Sessions -> (SUBSET Scopes) \cup {None}]
    PROVE  TablesSound'
  BY DEF TablesSound, TablesFit, LinksFit, ErasedIsScrubbed, EvidenceKept, TextKept, KeysLogged,
     OneFactPerKey, LogAgrees, Kept, Lost

LEMMA SameTables ==
    ASSUME TablesSound, UNCHANGED tables
    PROVE  TablesSound'
  <1>1. /\ UNCHANGED <<facts, observations, provenance, log>>
        /\ sessions' \in [Sessions -> (SUBSET Scopes) \cup {None}]
    BY DEF tables, TablesSound, TablesFit
  <1> QED
    BY <1>1, TablesStay

LEMMA RegisterFits ==
    ASSUME IInv, NEW o \in Orders, Register(o)
    PROVE  sessions' \in [Sessions -> (SUBSET Scopes) \cup {None}]
  <1>1. /\ grants \subseteq Scopes /\ sessions \in [Sessions -> (SUBSET Scopes) \cup {None}]
    BY DEF IInv, WorldFits, TablesSound, TablesFit
  <1> QED
    BY <1>1 DEF Register

LEMMA SpendFits ==
    ASSUME WorldFits, NEW kind \in Kinds, Spend(kind)
    PROVE  budget' \in [Kinds -> Nat]
  <1>1. budget \in [Kinds -> Nat] /\ budget[kind] - 1 \in Nat
    BY DEF WorldFits, Spend
  <1> QED
    BY <1>1 DEF Spend

LEMMA LessFits ==
    ASSUME WorldFits, NEW o \in Orders, calls[o] > 0
    PROVE  [calls EXCEPT ![o] = @ - 1] \in [Orders -> Nat]
  <1>1. calls \in [Orders -> Nat] /\ calls[o] - 1 \in Nat
    BY DEF WorldFits
  <1> QED
    BY <1>1

LEMMA AnswerFits ==
    ASSUME WorldFits, NEW o \in Orders, calls[o] > 0, NEW end \in {"done", "refused"},
           NEW rows \in SUBSET Rows, Answer(o, end, rows)
    PROVE  WorldFits'
  <1>1. calls' \in [Orders -> Nat]
    BY LessFits DEF Answer
  <1>2. state' \in [Orders -> {"idle", "waiting", "failed", "done", "refused"}]
    BY DEF Answer, WorldFits
  <1>3. told' \subseteq Keys \X Rows
    BY OrderTypes DEF Answer, WorldFits
  <1> QED
    BY <1>1, <1>2, <1>3 DEF Answer, WorldFits

LEMMA FrontEndKeeps ==
    ASSUME IInv, NEW o \in Orders, Ask(o) \/ Retry(o) \/ GiveUp(o) \/ Fail(o)
    PROVE  WorldFits' /\ UNCHANGED <<tables, told>>
  <1>1. WorldFits
    BY DEF IInv
  <1>2. ASSUME Send(o)
        PROVE  /\ calls' \in [Orders -> Nat]
               /\ state' \in [Orders -> {"idle", "waiting", "failed", "done", "refused"}]
               /\ UNCHANGED <<tables, grants, told>>
    BY <1>1, <1>2 DEF Send, WorldFits
  <1>3. CASE Ask(o)
    BY <1>1, <1>2, <1>3, SpendFits DEF Ask, Kinds, WorldFits
  <1>4. CASE Retry(o)
    BY <1>1, <1>2, <1>4 DEF Retry, WorldFits
  <1>5. CASE GiveUp(o)
    <2>1. UNCHANGED <<tables, grants, told>>
      BY <1>5 DEF GiveUp
    <2>2. state' \in [Orders -> {"idle", "waiting", "failed", "done", "refused"}]
      BY <1>1, <1>5 DEF GiveUp, WorldFits
    <2>3. calls' \in [Orders -> Nat] /\ budget' \in [Kinds -> Nat]
      <3>1. CASE UNCHANGED <<calls, budget>>
        BY <1>1, <3>1 DEF WorldFits
      <3>2. CASE Spend("loss") /\ calls[o] > 0 /\ calls' \in {calls, [calls EXCEPT ![o] = @ - 1]}
        BY <1>1, <3>2, SpendFits, LessFits DEF Kinds, WorldFits
      <3> QED
        BY <1>5, <3>1, <3>2 DEF GiveUp
    <2> QED
      BY <1>1, <2>1, <2>2, <2>3 DEF WorldFits
  <1>6. CASE Fail(o)
    BY <1>1, <1>6, SpendFits, LessFits DEF Fail, Kinds, WorldFits
  <1> QED
    BY <1>3, <1>4, <1>5, <1>6

LEMMA RestartKeeps ==
    ASSUME IInv, Kill \/ Regrant
    PROVE  WorldFits' /\ UNCHANGED <<tables, told>>
  <1>1. WorldFits
    BY DEF IInv
  <1>2. calls' \in [Orders -> Nat]
    BY DEF Kill, Regrant
  <1>3. CASE Kill
    BY <1>1, <1>2, <1>3, SpendFits DEF Kill, Kinds, WorldFits
  <1>4. CASE Regrant
    BY <1>1, <1>2, <1>4, SpendFits DEF Regrant, Kinds, WorldFits
  <1> QED
    BY <1>3, <1>4

LEMMA RefuseKeeps ==
    ASSUME IInv, NEW o \in Orders, Refuse(o)
    PROVE  IInv'
  BY AnswerFits, SameTables DEF Refuse, IInv

LEMMA HoldKeeps ==
    ASSUME IInv, NEW o \in Orders, Hold(o)
    PROVE  IInv'
  BY AnswerFits, RegisterFits, TablesStay DEF Hold, Accepted, IInv

-----------------------------------------------------------------------------
(* The rows of the log.                                                    *)

LEMMA BodyFits ==
    ASSUME TablesSound, NEW o \in Orders, Promotable(o)
    PROVE  Text(o) \in Texts /\ Body(o) \in Bodies
  <1>1. Text(o) \in Texts
    <2>1. CASE Order[o].method = "promote"
      <3>1. Order[o].target \in FactIds /\ Kept(Order[o].target)
        BY <2>1, OrderTypes, WriteLogAssumption DEF Promotable, Active, Kept, FactIds
      <3> QED
        BY <2>1, <3>1 DEF Text, TablesSound, TextKept
    <2>2. CASE Order[o].method # "promote"
      BY <2>2, OrderTypes DEF Text
    <2> QED
      BY <2>1, <2>2
  <1> QED
    BY <1>1, OrderTypes DEF Body, Bodies

LEMMA ReplayKeeps ==
    ASSUME IInv, NEW o \in Orders, Replay(o)
    PROVE  IInv'
  <1>1. log[Order[o].key] \in Rows
    BY OrderTypes DEF Replay, IInv, TablesSound, TablesFit
  <1>2. {log[Order[o].key]} \in SUBSET Rows
    BY <1>1
  <1>3. WorldFits'
    BY <1>2, AnswerFits DEF Replay, Accepted, Tell, IInv
  <1>4. TablesSound'
    BY RegisterFits, TablesStay DEF Replay, IInv
  <1> QED
    BY <1>3, <1>4 DEF IInv

(* A row is recorded under a key that has none.                            *)
LEMMA RecordFits ==
    ASSUME TablesSound, NEW k \in Keys, NEW row \in Rows, log' = [log EXCEPT ![k] = row]
    PROVE  /\ log' \in [Keys -> Rows \cup {None}] /\ log'[k] = row /\ row # None
           /\ \A e \in Keys : e # k => log'[e] = log[e]
  BY NullAssumption DEF TablesSound, TablesFit

LEMMA RejectKeeps ==
    ASSUME IInv, NEW o \in Orders, Reject(o)
    PROVE  IInv'
  <1>1. WorldFits /\ TablesSound
    BY DEF IInv
  <1>2. PICK row : row = [outcome |-> "rejected", fact |-> 0, existing |-> 0, observation |-> 0,
                          detail |-> "full", body |-> Body(o)]
    OBVIOUS
  <1>3. /\ Accepted(o) /\ log' = [log EXCEPT ![Order[o].key] = row] /\ Tell(o, row)
        /\ Register(o) /\ UNCHANGED <<facts, observations, provenance>>
    BY <1>2 DEF Reject
  <1>4. row \in Rows /\ row.outcome = "rejected"
    <2>1. Body(o) \in Bodies /\ 0 \in 0..MaxFacts /\ 0 \in 0..MaxObservations
      BY <1>1, <1>3, BodyFits, WriteLogAssumption DEF Accepted
    <2> QED
      BY <1>2, <2>1 DEF Rows
  <1>5. /\ Order[o].key \in Keys /\ log' \in [Keys -> Rows \cup {None}]
        /\ log'[Order[o].key] = row /\ row # None
        /\ \A e \in Keys : e # Order[o].key => log'[e] = log[e]
    BY <1>1, <1>3, <1>4, OrderTypes, RecordFits
  <1>6. WorldFits'
    <2>1. {row} \in SUBSET Rows
      BY <1>4
    <2> QED
      BY <1>1, <1>3, <2>1, AnswerFits DEF Tell, Accepted
  <1>7. TablesFit'
    BY <1>1, <1>3, <1>5, RegisterFits DEF TablesSound, TablesFit
  <1>8. (LinksFit /\ ErasedIsScrubbed /\ TextKept /\ OneFactPerKey)'
    BY <1>1, <1>3 DEF TablesSound, LinksFit, ErasedIsScrubbed, TextKept, OneFactPerKey, Kept
  <1>11. EvidenceKept'
    <2>1. \A i \in FactIds : Lost(i) => Lost(i)'
      <3> SUFFICES ASSUME NEW i \in FactIds, Lost(i) PROVE Lost(i)'
        OBVIOUS
      <3>1. facts[i].key \in Keys /\ log[facts[i].key] # None
        BY <1>1 DEF Lost, TablesSound, TablesFit
      <3>2. log'[facts[i].key] = log[facts[i].key]
        BY <1>5, <3>1 DEF Reject
      <3> QED
        BY <1>3, <3>2 DEF Lost
    <2> QED
      BY <1>1, <1>3, <2>1 DEF TablesSound, EvidenceKept, Kept
  <1>9. KeysLogged'
    BY <1>1, <1>3, <1>5 DEF TablesSound, TablesFit, KeysLogged
  <1>10. LogAgrees'
    BY <1>1, <1>3, <1>4, <1>5 DEF TablesSound, LogAgrees
  <1> QED
    BY <1>6, <1>7, <1>8, <1>9, <1>10, <1>11 DEF IInv, TablesSound

-----------------------------------------------------------------------------
(* A write that is carried out.                                            *)

(* The row is recorded for an active fact and its observation; at most one *)
(* fact is new and bears the key, and one is superseded.                   *)
Writes(o, seen, new, row, k) ==
    /\ log[k] = None /\ row.observation = seen /\ row.outcome # "rejected"
    /\ log' = [log EXCEPT ![k] = row]
    /\ provenance' = provenance \cup {<<row.fact, seen>>}
    /\ observations' = [observations EXCEPT ![seen] =
                          [hash |-> Hash(o), content |-> Order[o].evidence]]
    /\ seen \in Observed(o) \/ (Observed(o) = {} /\ observations[seen] = NoObservation)
    /\ facts' \in [FactIds -> [state : {"none", "active", "superseded", "erased"},
                               text : Texts \cup {None}, scope : Scopes \cup {None},
                               key : Keys \cup {None}]]
    /\ row.fact \in FactIds /\ facts'[row.fact].state = "active"
    /\ row.fact \in new \/ Active(row.fact)
    /\ \A i, j \in new : i = j
    /\ \A j \in FactIds :
         IF j \in new
         THEN /\ facts[j] = NoFact /\ facts'[j].key = k /\ facts'[j].text \in Texts
              /\ facts'[j].state \in {"active", "superseded"}
              /\ j # row.fact => row.outcome = "near_dedup"
         ELSE /\ facts'[j].text = facts[j].text /\ facts'[j].key = facts[j].key
              /\ facts'[j].state # facts[j].state =>
                   facts[j].state = "active" /\ facts'[j].state = "superseded"
    /\ sessions' \in [Sessions -> (SUBSET Scopes) \cup {None}]

LEMMA WriteTables ==
    ASSUME TablesSound, NEW o \in Orders, NEW seen \in ObservationIds,
           NEW new \in SUBSET FactIds, NEW row \in Rows, NEW k \in Keys,
           Writes(o, seen, new, row, k)
    PROVE  TablesSound' /\ ErasedFacts' = ErasedFacts
  <1> USE DEF Writes
  <1>1. /\ TablesFit /\ LinksFit /\ ErasedIsScrubbed /\ EvidenceKept /\ TextKept /\ KeysLogged
        /\ OneFactPerKey /\ LogAgrees
    BY DEF TablesSound
  <1>2. /\ log' \in [Keys -> Rows \cup {None}] /\ log'[k] = row /\ row # None
        /\ \A e \in Keys : e # k => log'[e] = log[e]
    BY RecordFits
  <1>3. /\ Order[o].evidence \in Evidence /\ None \notin Evidence /\ None # "erased"
        /\ Hash(o) # Unique
    BY OrderTypes, WriteLogAssumption, NullAssumption
  <1>4. PICK fresh : fresh = [hash |-> Hash(o), content |-> Order[o].evidence]
    OBVIOUS
  <1>5. fresh.hash = Hash(o) /\ fresh.content \in Evidence
    BY <1>3, <1>4
  <1>6. /\ observations'[seen] = fresh
        /\ \A j \in ObservationIds : j # seen => observations'[j] = observations[j]
        /\ observations' \in [ObservationIds -> [hash : {Hash(e) : e \in Orders} \cup {None, Unique},
                                                 content : Evidence \cup {None, "erased"}]]
    BY <1>1, <1>3, <1>4 DEF TablesFit
  <1>7. \A j \in FactIds :
          /\ j \notin new => (Kept(j)' <=> Kept(j))
          /\ j \in new => facts[j].state = "none" /\ facts[j].key = None
          /\ facts'[j].state = "erased" <=> facts[j].state = "erased"
          /\ facts'[j].state = "none" => facts[j].state = "none"
    BY DEF Kept, NoFact
  <1>17. ErasedFacts' = ErasedFacts
    BY <1>7 DEF ErasedFacts
  <1>8. TablesFit'
    <2>1. \A a, b \in ObservationIds :
            observations'[a].hash = observations'[b].hash /\ a # b =>
              observations'[a].hash \in {None, Unique}
      <3> SUFFICES ASSUME NEW a \in ObservationIds, NEW b \in ObservationIds,
                          observations'[a].hash = observations'[b].hash, a # b
                   PROVE  observations'[a].hash \in {None, Unique}
        OBVIOUS
      <3>1. \A c \in ObservationIds \ {seen} :
              observations[c].hash = Hash(o) => Hash(o) \in {None, Unique}
        <4> SUFFICES ASSUME NEW c \in ObservationIds \ {seen}, observations[c].hash = Hash(o)
                     PROVE  Hash(o) \in {None, Unique}
          OBVIOUS
        <4>1. observations[seen].hash = Hash(o)
          BY DEF Observed
        <4> QED
          BY <1>1, <4>1 DEF TablesFit
      <3>2. CASE a = seen
        BY <1>5, <1>6, <3>1, <3>2
      <3>3. CASE b = seen
        BY <1>5, <1>6, <3>1, <3>3
      <3>4. CASE a # seen /\ b # seen
        BY <1>1, <1>6, <3>4 DEF TablesFit
      <3> QED
        BY <3>2, <3>3, <3>4
    <2>2. provenance' \subseteq FactIds \X ObservationIds
      BY <1>1 DEF TablesFit
    <2> QED
      BY <1>2, <1>6, <2>1, <2>2 DEF TablesFit
  <1>9. LinksFit'
    <2> SUFFICES ASSUME NEW a \in FactIds, NEW b \in ObservationIds, <<a, b>> \in provenance'
                 PROVE  facts'[a].state # "none" /\ observations'[b].content # None
      BY DEF LinksFit
    <2>1. facts'[a].state # "none"
      BY <1>1, <1>7 DEF LinksFit
    <2>2. observations'[b].content # None
      BY <1>1, <1>3, <1>5, <1>6 DEF LinksFit
    <2> QED
      BY <2>1, <2>2
  <1>10. ErasedIsScrubbed'
    <2> SUFFICES ASSUME NEW a \in FactIds, NEW b \in ObservationIds, <<a, b>> \in provenance',
                        facts'[a].state = "erased"
                 PROVE  observations'[b] = [hash |-> Unique, content |-> "erased"]
      BY DEF ErasedIsScrubbed
    <2>1. facts[a].state = "erased" /\ <<a, b>> \in provenance
      BY <1>7
    <2>2. observations[b] = [hash |-> Unique, content |-> "erased"]
      BY <1>1, <2>1 DEF ErasedIsScrubbed
    <2>3. observations[b].hash = Unique /\ observations[b].content = "erased"
      BY <2>2
    <2>4. b # seen
      BY <1>3, <2>3 DEF Observed, NoObservation
    <2> QED
      BY <1>6, <2>2, <2>4
  <1>11. EvidenceKept'
    <2>1. ASSUME NEW a \in FactIds, NEW b \in ObservationIds, <<a, b>> \in provenance', Kept(a)'
          PROVE  observations'[b].content \in Evidence
      <3>1. CASE b = seen
        BY <1>5, <1>6, <3>1
      <3>2. CASE b # seen
        <4>1. <<a, b>> \in provenance
          BY <2>1, <3>2
        <4>2. a \notin new
          BY <1>1, <1>7, <4>1 DEF LinksFit
        <4> QED
          BY <1>1, <1>6, <1>7, <2>1, <3>2, <4>1, <4>2 DEF EvidenceKept
      <3> QED
        BY <3>1, <3>2
    <2>2. ASSUME NEW a \in FactIds, Kept(a)'
          PROVE  Lost(a)' \/ \E b \in ObservationIds : <<a, b>> \in provenance'
      <3>1. CASE a = row.fact
        BY <3>1
      <3>2. CASE a # row.fact /\ a \in new
        <4>1. facts'[a].key = k /\ row.outcome = "near_dedup"
          BY <3>2
        <4>2. k # None
          BY NullAssumption
        <4> QED
          BY <1>2, <3>2, <4>1, <4>2 DEF Lost
      <3>3. CASE a # row.fact /\ a \notin new
        <4>1. Kept(a)
          BY <1>7, <2>2, <3>3
        <4>2. CASE Lost(a)
          <5>1. facts[a].key \in Keys /\ log[facts[a].key] # None
            BY <1>1, <4>2 DEF Lost, TablesFit
          <5>2. log'[facts[a].key] = log[facts[a].key] /\ facts'[a].key = facts[a].key
            BY <1>2, <3>3, <5>1
          <5> QED
            BY <4>2, <5>2 DEF Lost
        <4> QED
          BY <1>1, <4>1, <4>2 DEF EvidenceKept
      <3> QED
        BY <3>1, <3>2, <3>3
    <2> QED
      BY <2>1, <2>2 DEF EvidenceKept
  <1>12. TextKept'
    BY <1>1, <1>7 DEF TextKept
  <1>13. \A j \in FactIds : facts[j].key # k \/ k = None
    BY <1>1 DEF KeysLogged
  <1>14. KeysLogged'
    <2> SUFFICES ASSUME NEW a \in FactIds, facts'[a].key # None
                 PROVE  log'[facts'[a].key] # None
      BY DEF KeysLogged
    <2>1. CASE facts'[a].key = k
      BY <1>2, <2>1
    <2>2. CASE facts'[a].key # k
      <3>1. facts'[a].key = facts[a].key
        BY <2>2
      <3>2. facts[a].key \in Keys /\ log[facts[a].key] # None
        BY <1>1, <3>1 DEF TablesFit, KeysLogged
      <3> QED
        BY <1>2, <2>2, <3>1, <3>2
    <2> QED
      BY <2>1, <2>2
  <1>15. OneFactPerKey'
    <2> SUFFICES ASSUME NEW a \in FactIds, NEW b \in FactIds,
                        facts'[a].key = facts'[b].key, facts'[a].key # None
                 PROVE  a = b
      BY DEF OneFactPerKey
    <2>1. CASE a \in new /\ b \in new
      BY <2>1
    <2>2. CASE a \notin new /\ b \notin new
      BY <1>1, <2>2 DEF OneFactPerKey
    <2>3. CASE a \in new /\ b \notin new
      BY <1>13, <2>3
    <2>4. CASE a \notin new /\ b \in new
      BY <1>13, <2>4
    <2> QED
      BY <2>1, <2>2, <2>3, <2>4
  <1>16. LogAgrees'
    BY <1>1, <1>2 DEF LogAgrees
  <1> QED
    BY <1>8, <1>9, <1>10, <1>11, <1>12, <1>14, <1>15, <1>16, <1>17 DEF TablesSound

LEMMA WrittenBy ==
    ASSUME IInv, NEW o \in Orders, Writable(o), NEW seen \in Seen(o), NEW row \in Rows,
           NEW new \in SUBSET FactIds, NEW out \in 0..MaxFacts, Stored(o, new, out, seen, row),
           row.observation = seen, row.outcome # "rejected",
           row.fact \in FactIds, row.fact \in new \/ Active(row.fact), row.fact # out,
           \A i, j \in new : i = j, \A i \in new : facts[i] = NoFact,
           out # 0 => out \in new \/ Active(out), out \in new => row.outcome = "near_dedup",
           new \subseteq {row.fact, out}
    PROVE  /\ TablesSound' /\ Register(o) /\ Tell(o, row) /\ ErasedFacts' = ErasedFacts
           /\ log[Order[o].key] = None /\ log' = [log EXCEPT ![Order[o].key] = row]
  <1>1. TablesSound /\ TablesFit /\ Accepted(o) /\ log[Order[o].key] = None
    BY DEF IInv, TablesSound, Writable
  <1>2. /\ Text(o) \in Texts /\ Order[o].key \in Keys /\ Order[o].scope \in Scopes
    BY <1>1, BodyFits, OrderTypes DEF Accepted
  <1> DEFINE FactRow == [state : {"none", "active", "superseded", "erased"},
                         text : Texts \cup {None}, scope : Scopes \cup {None},
                         key : Keys \cup {None}]
  <1> DEFINE fresh == [state |-> "active", text |-> Text(o), scope |-> Order[o].scope,
                       key |-> Order[o].key]
  <1> DEFINE before(j) == IF j \in new THEN fresh ELSE facts[j]
  <1>3. facts \in [FactIds -> FactRow]
    BY <1>1 DEF TablesFit
  <1>4. \A j \in FactIds : before(j) \in FactRow
    BY <1>2, <1>3
  <1>5. /\ facts' = [j \in FactIds |->
                      IF j = out THEN [before(j) EXCEPT !.state = "superseded"] ELSE before(j)]
        /\ Register(o) /\ Tell(o, row)
        /\ log' = [log EXCEPT ![Order[o].key] = row]
        /\ provenance' = provenance \cup {<<row.fact, seen>>}
        /\ observations' = [observations EXCEPT ![seen] =
                              [hash |-> Hash(o), content |-> Order[o].evidence]]
    BY DEF Stored, Record
  <1>6. \A j \in FactIds :
          /\ facts'[j] \in FactRow
          /\ facts'[j].text = before(j).text /\ facts'[j].key = before(j).key
          /\ facts'[j].state = IF j = out THEN "superseded" ELSE before(j).state
    <2> SUFFICES ASSUME NEW j \in FactIds
                 PROVE  /\ facts'[j] \in FactRow
                        /\ facts'[j].text = before(j).text /\ facts'[j].key = before(j).key
                        /\ facts'[j].state = IF j = out THEN "superseded" ELSE before(j).state
      OBVIOUS
    <2>1. PICK old : old = before(j) /\ old \in FactRow
      BY <1>4
    <2>2. facts'[j] = IF j = out THEN [old EXCEPT !.state = "superseded"] ELSE old
      BY <1>5, <2>1
    <2> HIDE DEF before
    <2> QED
      BY <2>1, <2>2
  <1>7. facts' \in [FactIds -> FactRow]
    <2>1. facts' = [j \in FactIds |-> facts'[j]]
      BY <1>5
    <2> HIDE DEF FactRow, before
    <2> QED
      BY <1>6, <2>1
  <1>8. \A j \in FactIds :
          IF j \in new
          THEN /\ facts[j] = NoFact /\ facts'[j].key = Order[o].key /\ facts'[j].text \in Texts
               /\ facts'[j].state \in {"active", "superseded"}
               /\ j # row.fact => row.outcome = "near_dedup"
          ELSE /\ facts'[j].text = facts[j].text /\ facts'[j].key = facts[j].key
               /\ facts'[j].state # facts[j].state =>
                    facts[j].state = "active" /\ facts'[j].state = "superseded"
    <2> SUFFICES ASSUME NEW j \in FactIds
                 PROVE  IF j \in new
                        THEN /\ facts[j] = NoFact /\ facts'[j].key = Order[o].key
                             /\ facts'[j].text \in Texts
                             /\ facts'[j].state \in {"active", "superseded"}
                             /\ j # row.fact => row.outcome = "near_dedup"
                        ELSE /\ facts'[j].text = facts[j].text /\ facts'[j].key = facts[j].key
                             /\ facts'[j].state # facts[j].state =>
                                  facts[j].state = "active" /\ facts'[j].state = "superseded"
      OBVIOUS
    <2>1. CASE j \in new
      BY <1>2, <1>6, <2>1
    <2>2. CASE j \notin new
      <3>1. j # 0
        BY WriteLogAssumption DEF FactIds
      <3> QED
        BY <1>6, <2>2, <3>1 DEF Active
    <2> QED
      BY <2>1, <2>2
  <1>9. facts'[row.fact].state = "active"
    BY <1>6 DEF Active
  <1>10. /\ seen \in ObservationIds
         /\ seen \in Observed(o) \/ (Observed(o) = {} /\ observations[seen] = NoObservation)
    BY DEF Seen, Observed, Fresh
  <1>11. sessions' \in [Sessions -> (SUBSET Scopes) \cup {None}]
    BY <1>5, RegisterFits
  <1>12. Writes(o, seen, new, row, Order[o].key)
    <2> HIDE DEF before, fresh
    <2> QED
      BY <1>1, <1>5, <1>7, <1>8, <1>9, <1>10, <1>11 DEF Writes
  <1> QED
    BY <1>1, <1>2, <1>5, <1>10, <1>12, WriteTables

LEMMA WriteEffect ==
    ASSUME IInv, NEW o \in Orders, Write(o) \/ Merge(o)
    PROVE  \/ Answer(o, "refused", {}) /\ UNCHANGED tables
           \/ \E row \in Rows :
                /\ TablesSound' /\ Register(o) /\ Tell(o, row) /\ ErasedFacts' = ErasedFacts
                /\ log[Order[o].key] = None /\ log' = [log EXCEPT ![Order[o].key] = row]
  <1>1. TablesSound /\ Writable(o)
    BY DEF IInv, Write, Merge
  <1>2. Body(o) \in Bodies /\ Target(o) \in 0..MaxFacts
    BY <1>1, BodyFits, OrderTypes, WriteLogAssumption DEF Accepted, Writable, Target
  <1>3. \A seen \in Seen(o) : seen \in 0..MaxObservations
    BY WriteLogAssumption DEF Seen, Observed, Fresh, ObservationIds
  <1>4. \A i \in FactIds : i \in 0..MaxFacts /\ i # 0
    BY WriteLogAssumption DEF FactIds
  <1>5. CASE Write(o)
    <2> DEFINE inserted == Duplicates(o) = {}
    <2>1. PICK seen \in Seen(o),
               i \in (IF Duplicates(o) # {} THEN Duplicates(o) ELSE Fresh(FactIds, facts, NoFact)) :
            LET row == [outcome |-> IF inserted THEN "inserted" ELSE "dedup", fact |-> i,
                        existing |-> IF inserted THEN 0 ELSE i, observation |-> seen,
                        detail |-> "full", body |-> Body(o)]
            IN  IF Target(o) # 0 /\ (Target(o) = i \/ ~Active(Target(o)))
                THEN Answer(o, "refused", {}) /\ UNCHANGED tables
                ELSE Stored(o, IF inserted THEN {i} ELSE {}, Target(o), seen, row)
      BY <1>5 DEF Write
    <2>2. i \in FactIds /\ IF inserted THEN facts[i] = NoFact ELSE Active(i)
      BY DEF Duplicates, Fresh
    <2>3. PICK row : row = [outcome |-> IF inserted THEN "inserted" ELSE "dedup", fact |-> i,
                            existing |-> IF inserted THEN 0 ELSE i, observation |-> seen,
                            detail |-> "full", body |-> Body(o)]
      OBVIOUS
    <2>4. /\ row \in Rows /\ row.fact = i /\ row.observation = seen
          /\ row.outcome \in {"inserted", "dedup"}
      BY <1>2, <1>3, <1>4, <2>2, <2>3, WriteLogAssumption DEF Rows
    <2>5. PICK new \in SUBSET FactIds : new = IF inserted THEN {i} ELSE {}
      BY <2>2
    <2>6. CASE Target(o) # 0 /\ (Target(o) = i \/ ~Active(Target(o)))
      BY <2>1, <2>6
    <2>7. CASE ~(Target(o) # 0 /\ (Target(o) = i \/ ~Active(Target(o))))
      <3>1. Stored(o, new, Target(o), seen, row)
        BY <2>1, <2>3, <2>5, <2>7
      <3>2. /\ Target(o) # i /\ (Target(o) # 0 => Active(Target(o)))
            /\ i \in new \/ Active(i)
        BY <1>4, <2>2, <2>5, <2>7
      <3>3. /\ \A a, b \in new : a = b
            /\ \A a \in new : a = i /\ facts[a] = NoFact
            /\ Target(o) \notin new /\ new \subseteq {i, Target(o)}
        BY <2>2, <2>5, <3>2
      <3> HIDE DEF inserted
      <3> QED
        BY <1>1, <1>2, <2>2, <2>4, <3>1, <3>2, <3>3, WrittenBy
    <2> QED
      BY <2>6, <2>7
  <1>6. CASE Merge(o)
    <2>1. PICK seen \in Seen(o), i \in Fresh(FactIds, facts, NoFact), near \in NearDuplicates(o) :
          \E survivor \in {i, near} :
            LET row == [outcome |-> "near_dedup", fact |-> survivor, existing |-> near,
                        observation |-> seen, detail |-> "full", body |-> Body(o)]
            IN  Stored(o, {i}, IF survivor = i THEN near ELSE i, seen, row)
      BY <1>6 DEF Merge
    <2>2. PICK survivor \in {i, near} :
            LET row == [outcome |-> "near_dedup", fact |-> survivor, existing |-> near,
                        observation |-> seen, detail |-> "full", body |-> Body(o)]
            IN  Stored(o, {i}, IF survivor = i THEN near ELSE i, seen, row)
      BY <2>1
    <2>3. i \in FactIds /\ facts[i] = NoFact /\ near \in FactIds /\ Active(near)
      BY DEF Fresh, NearDuplicates
    <2>4. i # near
      BY <2>3 DEF Active, NoFact
    <2>5. PICK row : row = [outcome |-> "near_dedup", fact |-> survivor, existing |-> near,
                            observation |-> seen, detail |-> "full", body |-> Body(o)]
      OBVIOUS
    <2>6. /\ row \in Rows /\ row.fact = survivor /\ row.observation = seen
          /\ row.outcome = "near_dedup"
      BY <1>2, <1>3, <1>4, <2>3, <2>5, WriteLogAssumption DEF Rows
    <2>7. PICK out : out = IF survivor = i THEN near ELSE i
      OBVIOUS
    <2>8. Stored(o, {i}, out, seen, row)
      BY <2>2, <2>5, <2>7
    <2>9. /\ out \in 0..MaxFacts /\ survivor \in FactIds /\ survivor # out
          /\ survivor \in {i} \/ Active(survivor)
          /\ out \in {i} \/ Active(out)
          /\ {i} \subseteq {survivor, out}
      BY <1>4, <2>2, <2>3, <2>4, <2>7
    <2>10. PICK new \in SUBSET FactIds : new = {i}
      BY <2>3
    <2>11. /\ \A a, b \in new : a = b
           /\ \A a \in new : facts[a] = NoFact
           /\ survivor \in new \/ Active(survivor)
           /\ out \in new \/ Active(out)
           /\ new \subseteq {survivor, out}
           /\ Stored(o, new, out, seen, row)
      BY <2>3, <2>8, <2>9, <2>10, <2>2, <2>7
    <2> QED
      BY <1>1, <2>6, <2>9, <2>11, WrittenBy
  <1> QED
    BY <1>5, <1>6

LEMMA WriteKeeps ==
    ASSUME IInv, NEW o \in Orders, Write(o) \/ Merge(o)
    PROVE  IInv'
  <1>1. WorldFits /\ TablesSound /\ calls[o] > 0
    BY DEF IInv, Write, Merge, Writable, Accepted
  <1>2. CASE Answer(o, "refused", {}) /\ UNCHANGED tables
    BY <1>1, <1>2, AnswerFits, SameTables DEF IInv
  <1>3. ASSUME NEW row \in Rows, TablesSound', Tell(o, row) PROVE IInv'
    <2>1. {row} \in SUBSET Rows
      OBVIOUS
    <2> QED
      BY <1>1, <1>3, <2>1, AnswerFits DEF IInv, Tell
  <1> QED
    BY <1>2, <1>3, WriteEffect

-----------------------------------------------------------------------------
(* Privacy erasure.                                                        *)

(* What erasing f does to the observations: those of f are scrubbed, those *)
(* it shared live on in clones, and every other link finds the content it  *)
(* had before.                                                             *)
ErasedLinks(f, clone) ==
    /\ provenance' \subseteq FactIds \X ObservationIds
    /\ \A b \in ObservationIds :
         \/ observations'[b] = observations[b]
         \/ \E c \in {"erased"} \cup {observations[j].content : j \in Shared(f)} :
              observations'[b] = [hash |-> Unique, content |-> c]
    /\ \A b \in ObservationIds : <<f, b>> \in provenance' =>
         observations'[b] = [hash |-> Unique, content |-> "erased"]
    /\ \A b \in ObservationIds : <<f, b>> \in provenance => <<f, b>> \in provenance'
    /\ \A a \in FactIds \ {f}, c \in ObservationIds : <<a, c>> \in provenance =>
         LET b == IF c \in Shared(f) THEN clone[c] ELSE c IN
         <<a, b>> \in provenance' /\ b \in ObservationIds
           /\ observations'[b].content = observations[c].content
    /\ \A a \in FactIds \ {f}, b \in ObservationIds : <<a, b>> \in provenance' =>
         \E c \in ObservationIds :
           /\ <<a, c>> \in provenance
           /\ \/ observations'[b] = observations[c]
              \/ observations'[b] = [hash |-> Unique, content |-> observations[c].content]

LEMMA ErasedObservations ==
    ASSUME TablesSound, NEW f \in FactIds,
           NEW clone \in [Shared(f) -> {i \in ObservationIds : observations[i] = NoObservation}],
           \A i, j \in Shared(f) : clone[i] = clone[j] => i = j,
           LET Clone(i) == IF i \in Shared(f) THEN clone[i] ELSE i
               Clones == {clone[i] : i \in Shared(f)}
           IN  /\ observations' = [i \in ObservationIds |->
                      IF i \in Sources(f) THEN [hash |-> Unique, content |-> "erased"]
                      ELSE IF i \in Clones
                      THEN [hash |-> Unique,
                            content |-> observations[CHOOSE j \in Shared(f) : clone[j] = i].content]
                      ELSE observations[i]]
               /\ provenance' = {IF l[1] = f THEN l ELSE <<l[1], Clone(l[2])>> : l \in provenance}
    PROVE  ErasedLinks(f, clone)
  <1> DEFINE Clone(i) == IF i \in Shared(f) THEN clone[i] ELSE i
  <1> DEFINE Clones == {clone[i] : i \in Shared(f)}
  <1> DEFINE Moved(l) == IF l[1] = f THEN l ELSE <<l[1], Clone(l[2])>>
  <1>1. /\ observations' = [i \in ObservationIds |->
                      IF i \in Sources(f) THEN [hash |-> Unique, content |-> "erased"]
                      ELSE IF i \in Clones
                      THEN [hash |-> Unique,
                            content |-> observations[CHOOSE j \in Shared(f) : clone[j] = i].content]
                      ELSE observations[i]]
        /\ provenance' = {Moved(l) : l \in provenance}
    OBVIOUS
  <1>2. TablesFit /\ LinksFit
    BY DEF TablesSound
  <1>3. /\ Shared(f) \subseteq Sources(f) /\ Sources(f) \subseteq ObservationIds
        /\ \A j \in Sources(f) : <<f, j>> \in provenance
        /\ \A a \in FactIds \ {f}, j \in ObservationIds :
             <<a, j>> \in provenance /\ j \in Sources(f) => j \in Shared(f)
    BY DEF Shared, Sources
  <1>4. \A j \in Shared(f) : /\ clone[j] \in ObservationIds /\ observations[clone[j]] = NoObservation
                             /\ observations[clone[j]].content = None
    BY DEF NoObservation
  <1>5. \A a \in FactIds, j \in ObservationIds : <<a, j>> \in provenance => j \notin Clones
    BY <1>2, <1>4 DEF LinksFit
  <1>6. \A j \in Shared(f) : clone[j] \notin Sources(f)
    <2> SUFFICES ASSUME NEW j \in Shared(f), clone[j] \in Sources(f) PROVE FALSE
      OBVIOUS
    <2>1. clone[j] \in Clones /\ clone[j] \in ObservationIds /\ <<f, clone[j]>> \in provenance
      BY <1>3
    <2> HIDE DEF Clones
    <2> QED
      BY <1>5, <2>1
  <1>7. \A j \in Sources(f) : observations'[j] = [hash |-> Unique, content |-> "erased"]
    BY <1>1, <1>3
  <1>8. \A j \in Shared(f) :
          observations'[clone[j]] = [hash |-> Unique, content |-> observations[j].content]
    <2> SUFFICES ASSUME NEW j \in Shared(f)
                 PROVE  observations'[clone[j]] = [hash |-> Unique, content |-> observations[j].content]
      OBVIOUS
    <2>1. (CHOOSE e \in Shared(f) : clone[e] = clone[j]) = j
      OBVIOUS
    <2> QED
      BY <1>1, <1>4, <1>6, <2>1
  <1>9. \A j \in ObservationIds : j \notin Sources(f) /\ j \notin Clones =>
          observations'[j] = observations[j]
    BY <1>1
  <1>10. \A a \in FactIds, c \in ObservationIds : <<a, c>> \in provenance =>
           (IF a = f THEN <<a, c>> ELSE <<a, Clone(c)>>) \in provenance'
    <2> SUFFICES ASSUME NEW a \in FactIds, NEW c \in ObservationIds, <<a, c>> \in provenance
                 PROVE  (IF a = f THEN <<a, c>> ELSE <<a, Clone(c)>>) \in provenance'
      OBVIOUS
    <2>1. PICK l \in provenance : l = <<a, c>>
      OBVIOUS
    <2>2. l[1] = a /\ l[2] = c
      BY <2>1
    <2>3. Moved(l) \in provenance'
      <3> HIDE DEF Moved
      <3> QED
        BY <1>1
    <2>4. Moved(l) = IF a = f THEN <<a, c>> ELSE <<a, Clone(c)>>
      BY <2>1, <2>2
    <2> QED
      BY <2>3, <2>4
  <1>11. \A a \in FactIds, b \in ObservationIds : <<a, b>> \in provenance' =>
           \E c \in ObservationIds : <<a, c>> \in provenance /\ b = (IF a = f THEN c ELSE Clone(c))
    <2> SUFFICES ASSUME NEW a \in FactIds, NEW b \in ObservationIds, <<a, b>> \in provenance'
                 PROVE  \E c \in ObservationIds :
                          <<a, c>> \in provenance /\ b = (IF a = f THEN c ELSE Clone(c))
      OBVIOUS
    <2>1. PICK l \in provenance : <<a, b>> = IF l[1] = f THEN l ELSE <<l[1], Clone(l[2])>>
      BY <1>1
    <2>2. l[1] \in FactIds /\ l[2] \in ObservationIds /\ l = <<l[1], l[2]>>
      BY <1>2, LinkPairs
    <2> HIDE DEF Clone
    <2>3. a = l[1] /\ b = IF l[1] = f THEN l[2] ELSE Clone(l[2])
      BY <2>1, <2>2
    <2> QED
      BY <2>2, <2>3
  <1>12. provenance' \subseteq FactIds \X ObservationIds
    <2> SUFFICES ASSUME NEW m \in provenance' PROVE m \in FactIds \X ObservationIds
      OBVIOUS
    <2>1. PICK l \in provenance : m = IF l[1] = f THEN l ELSE <<l[1], Clone(l[2])>>
      BY <1>1
    <2>2. l[1] \in FactIds /\ l[2] \in ObservationIds /\ l = <<l[1], l[2]>>
      BY <1>2, LinkPairs
    <2>3. Clone(l[2]) \in ObservationIds
      BY <1>4, <2>2
    <2> QED
      BY <2>1, <2>2, <2>3
  <1>13. \A a \in FactIds \ {f}, c \in ObservationIds : <<a, c>> \in provenance =>
           /\ Clone(c) \in ObservationIds /\ <<a, Clone(c)>> \in provenance'
           /\ \/ observations'[Clone(c)] = observations[c]
              \/ observations'[Clone(c)] = [hash |-> Unique, content |-> observations[c].content]
    <2> SUFFICES ASSUME NEW a \in FactIds \ {f}, NEW c \in ObservationIds, <<a, c>> \in provenance
                 PROVE  /\ Clone(c) \in ObservationIds /\ <<a, Clone(c)>> \in provenance'
                        /\ \/ observations'[Clone(c)] = observations[c]
                           \/ observations'[Clone(c)] =
                                [hash |-> Unique, content |-> observations[c].content]
      OBVIOUS
    <2>1. CASE c \in Shared(f)
      BY <1>4, <1>8, <1>10, <2>1
    <2>2. CASE c \notin Shared(f)
      BY <1>3, <1>5, <1>9, <1>10, <2>2
    <2> QED
      BY <2>1, <2>2
  <1>14. \A b \in ObservationIds :
           \/ observations'[b] = observations[b]
           \/ \E c \in {"erased"} \cup {observations[j].content : j \in Shared(f)} :
                observations'[b] = [hash |-> Unique, content |-> c]
    <2> SUFFICES ASSUME NEW b \in ObservationIds
                 PROVE  \/ observations'[b] = observations[b]
                        \/ \E c \in {"erased"} \cup {observations[j].content : j \in Shared(f)} :
                             observations'[b] = [hash |-> Unique, content |-> c]
      OBVIOUS
    <2>1. CASE b \in Sources(f)
      BY <1>7, <2>1
    <2>2. CASE b \in Clones
      <3>1. PICK j \in Shared(f) : b = clone[j]
        BY <2>2
      <3>2. observations'[b] = [hash |-> Unique, content |-> observations[j].content]
        BY <1>8, <3>1
      <3>3. observations[j].content \in {"erased"} \cup {observations[e].content : e \in Shared(f)}
        OBVIOUS
      <3> QED
        BY <3>2, <3>3
    <2>3. CASE b \notin Sources(f) /\ b \notin Clones
      BY <1>9, <2>3
    <2> QED
      BY <2>1, <2>2, <2>3
  <1>15. \A b \in ObservationIds : <<f, b>> \in provenance' =>
           observations'[b] = [hash |-> Unique, content |-> "erased"]
    BY <1>7, <1>11 DEF Sources
  <1>16. \A b \in ObservationIds : <<f, b>> \in provenance => <<f, b>> \in provenance'
    BY <1>10
  <1>17. \A a \in FactIds \ {f}, b \in ObservationIds : <<a, b>> \in provenance' =>
           \E c \in ObservationIds :
             /\ <<a, c>> \in provenance
             /\ \/ observations'[b] = observations[c]
                \/ observations'[b] = [hash |-> Unique, content |-> observations[c].content]
    <2> SUFFICES ASSUME NEW a \in FactIds \ {f}, NEW b \in ObservationIds, <<a, b>> \in provenance'
                 PROVE  \E c \in ObservationIds :
                          /\ <<a, c>> \in provenance
                          /\ \/ observations'[b] = observations[c]
                             \/ observations'[b] = [hash |-> Unique, content |-> observations[c].content]
      OBVIOUS
    <2> HIDE DEF Clone
    <2>1. PICK c \in ObservationIds : <<a, c>> \in provenance /\ b = Clone(c)
      BY <1>11
    <2> QED
      BY <1>13, <2>1
  <1>18. \A a \in FactIds \ {f}, c \in ObservationIds : <<a, c>> \in provenance =>
           /\ <<a, Clone(c)>> \in provenance' /\ Clone(c) \in ObservationIds
           /\ observations'[Clone(c)].content = observations[c].content
    BY <1>13
  <1> QED
    BY <1>12, <1>14, <1>15, <1>16, <1>17, <1>18 DEF ErasedLinks

LEMMA EraseTables ==
    ASSUME IInv, NEW f \in FactIds, Erase(f)
    PROVE  /\ TablesSound' /\ WorldFits' /\ told' = told
           /\ f \notin ErasedFacts /\ ErasedFacts' = ErasedFacts \cup {f}
           /\ \A k \in Keys : Register_!Amended(log[k], log'[k], f)
  <1>1. /\ WorldFits /\ TablesFit /\ LinksFit /\ ErasedIsScrubbed /\ EvidenceKept /\ TextKept
        /\ KeysLogged /\ OneFactPerKey /\ LogAgrees /\ TablesSound
    BY DEF IInv, TablesSound
  <1>2. PICK clone \in [Shared(f) -> {i \in ObservationIds : observations[i] = NoObservation}] :
          /\ \A i, j \in Shared(f) : clone[i] = clone[j] => i = j
          /\ LET Clone(i) == IF i \in Shared(f) THEN clone[i] ELSE i
                 Clones == {clone[i] : i \in Shared(f)}
             IN  /\ observations' = [i \in ObservationIds |->
                        IF i \in Sources(f) THEN [hash |-> Unique, content |-> "erased"]
                        ELSE IF i \in Clones
                        THEN [hash |-> Unique,
                              content |-> observations[CHOOSE j \in Shared(f) : clone[j] = i].content]
                        ELSE observations[i]]
                 /\ provenance' = {IF l[1] = f THEN l ELSE <<l[1], Clone(l[2])>> : l \in provenance}
          /\ log' = [k \in Keys |-> Scrubbed(Repointed(log[k], f, clone), f)]
    BY DEF Erase
  <1>0. ErasedLinks(f, clone)
    BY <1>1, <1>2, ErasedObservations
  <1>3. provenance' \subseteq FactIds \X ObservationIds
    BY <1>0 DEF ErasedLinks
  <1>4. \A b \in ObservationIds :
          \/ observations'[b] = observations[b]
          \/ \E c \in {"erased"} \cup {observations[j].content : j \in Shared(f)} :
               observations'[b] = [hash |-> Unique, content |-> c]
    BY <1>0 DEF ErasedLinks
  <1>5. \A b \in ObservationIds : <<f, b>> \in provenance' =>
          observations'[b] = [hash |-> Unique, content |-> "erased"]
    BY <1>0 DEF ErasedLinks
  <1>6. \A b \in ObservationIds : <<f, b>> \in provenance => <<f, b>> \in provenance'
    BY <1>0 DEF ErasedLinks
  <1>7. \A a \in FactIds \ {f}, c \in ObservationIds : <<a, c>> \in provenance =>
          LET b == IF c \in Shared(f) THEN clone[c] ELSE c IN
          <<a, b>> \in provenance' /\ b \in ObservationIds
            /\ observations'[b].content = observations[c].content
    BY <1>0 DEF ErasedLinks
  <1>8. \A a \in FactIds \ {f}, b \in ObservationIds : <<a, b>> \in provenance' =>
          \E c \in ObservationIds :
            /\ <<a, c>> \in provenance
            /\ \/ observations'[b] = observations[c]
               \/ observations'[b] = [hash |-> Unique, content |-> observations[c].content]
    BY <1>0 DEF ErasedLinks
  <1>9. DOMAIN observations' = ObservationIds
    BY <1>2
  <1>10. DOMAIN clone = Shared(f) /\ Shared(f) \subseteq ObservationIds
         /\ \A j \in Shared(f) : clone[j] \in ObservationIds
    BY DEF Shared, Sources
  <1>11. /\ facts' = [facts EXCEPT ![f].state = "erased", ![f].text = None]
         /\ UNCHANGED <<sessions, grants, state, told>> /\ Spend("erase")
         /\ calls' = [o \in Orders |-> 0]
         /\ Kept(f)
    BY DEF Erase, Kept
  <1>12. /\ facts'[f].state = "erased" /\ facts'[f].key = facts[f].key
         /\ facts' \in [FactIds -> [state : {"none", "active", "superseded", "erased"},
                                    text : Texts \cup {None}, scope : Scopes \cup {None},
                                    key : Keys \cup {None}]]
         /\ \A a \in FactIds : a # f => facts'[a] = facts[a]
    <2>1. PICK row : row = [facts[f] EXCEPT !.state = "erased", !.text = None]
      OBVIOUS
    <2>2. facts' = [facts EXCEPT ![f] = row]
      BY <1>1, <1>11, <2>1 DEF TablesFit
    <2>3. facts[f] \in [state : {"none", "active", "superseded", "erased"},
                        text : Texts \cup {None}, scope : Scopes \cup {None},
                        key : Keys \cup {None}]
      BY <1>1 DEF TablesFit
    <2>4. /\ row.state = "erased" /\ row.key = facts[f].key
          /\ row \in [state : {"none", "active", "superseded", "erased"},
                      text : Texts \cup {None}, scope : Scopes \cup {None},
                      key : Keys \cup {None}]
      BY <2>1, <2>3
    <2> QED
      BY <1>1, <2>2, <2>4 DEF TablesFit
  <1>13. \A k \in Keys :
           /\ log[k] = None => log'[k] = None
           /\ log[k] # None =>
                /\ log'[k] \in Rows /\ log'[k] # None
                /\ log'[k].fact = log[k].fact /\ log'[k].outcome = log[k].outcome
                /\ log'[k].observation =
                     IF log[k].fact # f /\ log[k].observation \in Shared(f)
                     THEN clone[log[k].observation] ELSE log[k].observation
           /\ Register_!Amended(log[k], log'[k], f)
    <2> SUFFICES ASSUME NEW k \in Keys
                 PROVE  /\ log[k] = None => log'[k] = None
                        /\ log[k] # None =>
                             /\ log'[k] \in Rows /\ log'[k] # None
                             /\ log'[k].fact = log[k].fact /\ log'[k].outcome = log[k].outcome
                             /\ log'[k].observation =
                                  IF log[k].fact # f /\ log[k].observation \in Shared(f)
                                  THEN clone[log[k].observation] ELSE log[k].observation
                        /\ Register_!Amended(log[k], log'[k], f)
      OBVIOUS
    <2>1. log'[k] = Scrubbed(Repointed(log[k], f, clone), f)
      BY <1>2
    <2>2. CASE log[k] = None
      BY <2>1, <2>2 DEF Scrubbed, Repointed, Register_!Amended
    <2>3. CASE log[k] # None
      <3>1. PICK row \in Rows : row = log[k] /\ row # None
        BY <1>1, <2>3 DEF TablesFit
      <3>2. CASE row.fact = f
        <4>1. log'[k] = [row EXCEPT !.detail = "erased"]
          BY <2>1, <3>1, <3>2 DEF Scrubbed, Repointed
        <4>2. /\ log'[k] \in Rows /\ log'[k].fact = row.fact /\ log'[k].outcome = row.outcome
              /\ log'[k].observation = row.observation
          BY <4>1 DEF Rows
        <4> QED
          BY <3>1, <3>2, <4>1, <4>2, NullAssumption DEF Register_!Amended
      <3>3. CASE row.fact # f /\ row.observation \in Shared(f)
        <4>1. PICK seen : seen = clone[row.observation]
          OBVIOUS
        <4>2. PICK next : next = [row EXCEPT !.observation = seen]
          OBVIOUS
        <4>3. seen \in 0..MaxObservations
          BY <1>10, <3>3, <4>1, WriteLogAssumption DEF ObservationIds
        <4>4. /\ next \in Rows /\ next.fact = row.fact /\ next.outcome = row.outcome
              /\ next.observation = seen
          BY <4>2, <4>3 DEF Rows
        <4>5. log'[k] = next
          BY <1>10, <2>1, <3>1, <3>3, <4>1, <4>2, <4>4 DEF Scrubbed, Repointed
        <4> QED
          BY <3>1, <3>3, <4>1, <4>2, <4>4, <4>5, NullAssumption DEF Register_!Amended
      <3>4. CASE row.fact # f /\ row.observation \notin Shared(f)
        <4>1. log'[k] = row
          BY <1>10, <2>1, <3>1, <3>4 DEF Scrubbed, Repointed
        <4>2. row = [row EXCEPT !.observation = row.observation]
          BY DEF Rows
        <4> QED
          BY <3>1, <3>4, <4>1, <4>2 DEF Register_!Amended
      <3> QED
        BY <3>2, <3>3, <3>4
    <2> QED
      BY <2>2, <2>3
  <1>14. TablesFit'
    <2> DEFINE Observation == [hash : {Hash(o) : o \in Orders} \cup {None, Unique},
                               content : Evidence \cup {None, "erased"}]
    <2>1. observations \in [ObservationIds -> Observation]
      BY <1>1 DEF TablesFit
    <2>2. \A j \in Shared(f) : observations[j].content \in Evidence \cup {None, "erased"}
      BY <1>10, <2>1
    <2>3. \A b \in ObservationIds : observations'[b] \in Observation
      <3> SUFFICES ASSUME NEW b \in ObservationIds, observations'[b] # observations[b]
                   PROVE  observations'[b] \in Observation
        BY <2>1
      <3>1. PICK c \in {"erased"} \cup {observations[j].content : j \in Shared(f)} :
              observations'[b] = [hash |-> Unique, content |-> c]
        BY <1>4
      <3>2. c \in Evidence \cup {None, "erased"}
        BY <2>2
      <3> QED
        BY <3>1, <3>2
    <2>4. observations' \in [ObservationIds -> Observation]
      <3>1. observations' = [b \in ObservationIds |-> observations'[b]]
        BY <1>2
      <3> HIDE DEF Observation
      <3> QED
        BY <2>3, <3>1
    <2>5. \A b \in ObservationIds : observations'[b].hash \in {observations[b].hash, Unique}
                                    /\ (observations'[b].hash # Unique =>
                                          observations'[b].hash = observations[b].hash)
      <3> TAKE b \in ObservationIds
      <3>1. CASE observations'[b] = observations[b]
        BY <3>1
      <3>2. CASE observations'[b] # observations[b]
        <4>1. PICK c : observations'[b] = [hash |-> Unique, content |-> c]
          BY <1>4, <3>2
        <4>2. observations'[b].hash = Unique
          BY <4>1
        <4> QED
          BY <4>2
      <3> QED
        BY <3>1, <3>2
    <2>6. \A a, b \in ObservationIds :
            observations'[a].hash = observations'[b].hash /\ a # b =>
              observations'[a].hash \in {None, Unique}
      BY <1>1, <2>5 DEF TablesFit
    <2>7. log' \in [Keys -> Rows \cup {None}]
      BY <1>1, <1>2, <1>13 DEF TablesFit
    <2>8. sessions' \in [Sessions -> (SUBSET Scopes) \cup {None}]
      BY <1>1, <1>11 DEF TablesFit
    <2> QED
      BY <1>3, <1>12, <2>4, <2>6, <2>7, <2>8 DEF TablesFit
  <1>15. LinksFit'
    <2> SUFFICES ASSUME NEW a \in FactIds, NEW b \in ObservationIds, <<a, b>> \in provenance'
                 PROVE  facts'[a].state # "none" /\ observations'[b].content # None
      BY DEF LinksFit
    <2>1. CASE a = f
      BY <1>5, <1>12, <2>1, NullAssumption
    <2>2. CASE a # f
      <3>1. PICK c \in ObservationIds :
              /\ <<a, c>> \in provenance
              /\ \/ observations'[b] = observations[c]
                 \/ observations'[b] = [hash |-> Unique, content |-> observations[c].content]
        BY <1>8, <2>2
      <3>2. facts[a].state # "none" /\ observations[c].content # None
        BY <1>1, <3>1 DEF LinksFit
      <3>3. observations'[b].content = observations[c].content
        BY <3>1
      <3> QED
        BY <1>12, <2>2, <3>2, <3>3
    <2> QED
      BY <2>1, <2>2
  <1>16. ErasedIsScrubbed'
    <2> SUFFICES ASSUME NEW a \in FactIds, NEW b \in ObservationIds, <<a, b>> \in provenance',
                        facts'[a].state = "erased"
                 PROVE  observations'[b] = [hash |-> Unique, content |-> "erased"]
      BY DEF ErasedIsScrubbed
    <2>1. CASE a = f
      BY <1>5, <2>1
    <2>2. CASE a # f
      <3>1. PICK c \in ObservationIds :
              /\ <<a, c>> \in provenance
              /\ \/ observations'[b] = observations[c]
                 \/ observations'[b] = [hash |-> Unique, content |-> observations[c].content]
        BY <1>8, <2>2
      <3>2. observations[c] = [hash |-> Unique, content |-> "erased"]
        BY <1>1, <1>12, <2>2, <3>1 DEF ErasedIsScrubbed
      <3> QED
        BY <3>1, <3>2
    <2> QED
      BY <2>1, <2>2
  <1>17. EvidenceKept'
    <2>1. ASSUME NEW a \in FactIds, NEW b \in ObservationIds, <<a, b>> \in provenance', Kept(a)'
          PROVE  observations'[b].content \in Evidence
      <3>1. a # f /\ Kept(a)
        BY <1>12, <2>1 DEF Kept
      <3>2. PICK c \in ObservationIds :
              /\ <<a, c>> \in provenance
              /\ \/ observations'[b] = observations[c]
                 \/ observations'[b] = [hash |-> Unique, content |-> observations[c].content]
        BY <1>8, <2>1, <3>1
      <3>3. observations[c].content \in Evidence
        BY <1>1, <3>1, <3>2 DEF EvidenceKept
      <3>4. observations'[b].content = observations[c].content
        BY <3>2
      <3> QED
        BY <3>3, <3>4
    <2>2. ASSUME NEW a \in FactIds, Kept(a)'
          PROVE  Lost(a)' \/ \E b \in ObservationIds : <<a, b>> \in provenance'
      <3>1. a # f /\ Kept(a) /\ facts'[a] = facts[a]
        BY <1>12, <2>2 DEF Kept
      <3>2. CASE Lost(a)
        <4>1. facts[a].key \in Keys
          BY <1>1, <3>2 DEF Lost, TablesFit
        <4> QED
          BY <1>13, <3>1, <3>2, <4>1 DEF Lost
      <3>3. ASSUME NEW c \in ObservationIds, <<a, c>> \in provenance
            PROVE  \E b \in ObservationIds : <<a, b>> \in provenance'
        <4>1. PICK b : b = IF c \in Shared(f) THEN clone[c] ELSE c
          OBVIOUS
        <4>2. <<a, b>> \in provenance' /\ b \in ObservationIds
          BY <1>7, <3>1, <3>3, <4>1
        <4> QED
          BY <4>2
      <3> QED
        BY <1>1, <3>1, <3>2, <3>3 DEF EvidenceKept
    <2> QED
      BY <2>1, <2>2 DEF EvidenceKept
  <1>18. TextKept'
    BY <1>1, <1>12 DEF TextKept, Kept
  <1>19. \A a \in FactIds : facts'[a].key = facts[a].key
    BY <1>12
  <1>20. KeysLogged'
    BY <1>1, <1>13, <1>19 DEF KeysLogged, TablesFit
  <1>21. OneFactPerKey'
    BY <1>1, <1>19 DEF OneFactPerKey
  <1>22. LogAgrees'
    <2> SUFFICES ASSUME NEW k \in Keys, log'[k] # None, log'[k].outcome # "rejected"
                 PROVE  <<log'[k].fact, log'[k].observation>> \in provenance'
      BY DEF LogAgrees
    <2>1. log[k] # None
      BY <1>13
    <2>2. log[k].outcome # "rejected"
      BY <1>13, <2>1
    <2>3. <<log[k].fact, log[k].observation>> \in provenance
      BY <1>1, <2>1, <2>2 DEF LogAgrees
    <2>4. log[k].fact \in FactIds /\ log[k].observation \in ObservationIds
      BY <1>1, <2>3 DEF TablesFit
    <2>5. CASE log[k].fact = f
      BY <1>6, <1>13, <2>1, <2>3, <2>4, <2>5
    <2>6. CASE log[k].fact # f
      BY <1>7, <1>13, <2>1, <2>3, <2>4, <2>6
    <2> QED
      BY <2>5, <2>6
  <1>23. WorldFits'
    BY <1>1, <1>11, SpendFits DEF WorldFits, Kinds
  <1>24. f \notin ErasedFacts /\ ErasedFacts' = ErasedFacts \cup {f}
    BY <1>11, <1>12 DEF ErasedFacts, Kept
  <1> QED
    BY <1>11, <1>13, <1>14, <1>15, <1>16, <1>17, <1>18, <1>20, <1>21, <1>22, <1>23, <1>24
       DEF TablesSound

-----------------------------------------------------------------------------
(* The invariant and its consequences.                                     *)

LEMMA InitIInv ==
    ASSUME Init
    PROVE  IInv
  <1>1. WorldFits
    BY BudgetAssumption DEF Init, WorldFits
  <1>2. /\ \A i \in FactIds : facts[i] = NoFact /\ facts[i].state = "none" /\ facts[i].key = None
        /\ \A i \in ObservationIds : observations[i] = NoObservation /\ observations[i].hash = None
        /\ provenance = {} /\ \A k \in Keys : log[k] = None
    BY DEF Init, NoFact, NoObservation
  <1>3. TablesFit
    BY <1>2 DEF Init, TablesFit, NoFact, NoObservation
  <1> QED
    BY <1>1, <1>2, <1>3 DEF IInv, TablesSound, LinksFit, ErasedIsScrubbed, EvidenceKept, TextKept,
       KeysLogged, OneFactPerKey, LogAgrees, Kept

LEMMA NextKeeps ==
    ASSUME IInv, Next
    PROVE  IInv'
  <1>1. ASSUME NEW o \in Orders, Ask(o) \/ Retry(o) \/ GiveUp(o) \/ Fail(o)
        PROVE  IInv'
    BY <1>1, FrontEndKeeps, SameTables DEF IInv
  <1>2. CASE Kill \/ Regrant
    BY <1>2, RestartKeeps, SameTables DEF IInv
  <1>3. ASSUME NEW f \in FactIds, Erase(f) PROVE IInv'
    BY <1>3, EraseTables DEF IInv
  <1> QED
    BY <1>1, <1>2, <1>3, RefuseKeeps, ReplayKeeps, RejectKeeps, HoldKeeps, WriteKeeps DEF Next

LEMMA StepsKeep == IInv /\ [Next]_vars => IInv'
  <1>1. ASSUME IInv, UNCHANGED vars PROVE IInv'
    <2>1. UNCHANGED tables /\ WorldFits'
      BY <1>1 DEF vars, tables, IInv, WorldFits
    <2> QED
      BY <1>1, <2>1, SameTables DEF IInv
  <1> QED
    BY <1>1, NextKeeps

(* The invariant that carries the theorems below. *)
THEOREM WriteLogInvariant == Spec => []IInv
  BY InitIInv, StepsKeep, PTL DEF Spec

(* One fact per key, evidence complete at the fact that holds it until     *)
(* that one is erased and gone then, and no log row that names another     *)
(* fact's evidence, after any retries, races, merges and erasures.         *)
THEOREM EvidenceIsSound == Spec => []EvidenceSound
  <1>1. IInv => EvidenceSound
    BY TypeParts, TablesTell DEF IInv, TablesSound, EvidenceSound
  <1> QED
    BY <1>1, WriteLogInvariant, PTL

-----------------------------------------------------------------------------
(* The log implements a register of outcomes.                              *)

(* What a step does to the row of key k and to what was told of it.        *)
RegisterStep(k, row) ==
    /\ row # None /\ ErasedFacts' = ErasedFacts
    /\ \/ log' = log /\ log[k] = row
       \/ log[k] = None /\ row \in Rows /\ log'[k] = row /\ log' = [log EXCEPT ![k] = row]
    /\ told' \in {told, told \cup {<<k, row>>}}

LEMMA RegisterStepsMap ==
    ASSUME NEW k \in Keys, NEW row, RegisterStep(k, row)
    PROVE  [Register_!Next]_(Register_!vars)
  <1>1. log'[k] = row /\ row # None /\ ErasedFacts' = ErasedFacts
    BY DEF RegisterStep
  <1>2. log' = log \/ Register_!Record(k)
    BY DEF RegisterStep, Register_!Record
  <1>3. told' = told \/ Register_!Tell(k)
    BY <1>1 DEF RegisterStep, Register_!Tell
  <1> QED
    BY <1>1, <1>2, <1>3 DEF Register_!Next, Register_!vars

LEMMA TellSays ==
    ASSUME NEW o \in Orders, NEW row, Tell(o, row)
    PROVE  told' \in {told, told \cup {<<Order[o].key, row>>}}
  <1>1. {Order[o].key} \X {row} = {<<Order[o].key, row>>}
    OBVIOUS
  <1> QED
    BY <1>1 DEF Tell, Answer

LEMMA SilentAnswer ==
    ASSUME NEW o \in Orders, NEW end, Answer(o, end, {})
    PROVE  told' = told
  <1>1. {Order[o].key} \X {} = {}
    OBVIOUS
  <1> QED
    BY <1>1 DEF Answer

LEMMA RecordingStep ==
    ASSUME TablesSound, NEW o \in Orders, NEW row \in Rows, Tell(o, row),
           ErasedFacts' = ErasedFacts,
           log[Order[o].key] = None, log' = [log EXCEPT ![Order[o].key] = row]
    PROVE  RegisterStep(Order[o].key, row)
  BY OrderTypes, RecordFits, TellSays DEF RegisterStep

LEMMA StepsMap == IInv /\ [Next]_vars => [Register_!Next]_(Register_!vars)
  <1> SUFFICES ASSUME IInv, [Next]_vars
               PROVE  [Register_!Next]_(Register_!vars)
    OBVIOUS
  <1>1. TablesSound
    BY DEF IInv
  <1>2. ASSUME UNCHANGED <<facts, log, told>> PROVE [Register_!Next]_(Register_!vars)
    BY <1>2 DEF Register_!vars, ErasedFacts
  <1>3. CASE UNCHANGED vars
    BY <1>2, <1>3 DEF vars
  <1>4. ASSUME NEW o \in Orders, Ask(o) \/ Retry(o) \/ GiveUp(o) \/ Fail(o)
        PROVE  [Register_!Next]_(Register_!vars)
    BY <1>2, <1>4, FrontEndKeeps DEF tables
  <1>5. CASE Kill \/ Regrant
    BY <1>2, <1>5, RestartKeeps DEF tables
  <1>6. ASSUME NEW o \in Orders, Refuse(o) PROVE [Register_!Next]_(Register_!vars)
    BY <1>2, <1>6, SilentAnswer DEF Refuse, tables
  <1>7. ASSUME NEW o \in Orders, Hold(o) PROVE [Register_!Next]_(Register_!vars)
    BY <1>2, <1>7, SilentAnswer DEF Hold
  <1>8. ASSUME NEW o \in Orders, Replay(o) PROVE [Register_!Next]_(Register_!vars)
    <2>1. /\ log' = log /\ log[Order[o].key] # None /\ Tell(o, log[Order[o].key])
          /\ Order[o].key \in Keys /\ facts' = facts
      BY <1>8, OrderTypes DEF Replay
    <2>2. PICK row : row = log[Order[o].key]
      OBVIOUS
    <2>3. told' \in {told, told \cup {<<Order[o].key, row>>}}
      BY <2>1, <2>2, TellSays
    <2>4. RegisterStep(Order[o].key, row)
      BY <2>1, <2>2, <2>3 DEF RegisterStep, ErasedFacts
    <2> QED
      BY <2>1, <2>4, RegisterStepsMap
  <1>9. ASSUME NEW o \in Orders, Reject(o) PROVE [Register_!Next]_(Register_!vars)
    <2>1. PICK row : row = [outcome |-> "rejected", fact |-> 0, existing |-> 0, observation |-> 0,
                            detail |-> "full", body |-> Body(o)]
      OBVIOUS
    <2>2. /\ log[Order[o].key] = None /\ log' = [log EXCEPT ![Order[o].key] = row] /\ Tell(o, row)
          /\ Promotable(o) /\ facts' = facts
      BY <1>9, <2>1 DEF Reject, Accepted
    <2>3. row \in Rows
      <3>1. Body(o) \in Bodies /\ 0 \in 0..MaxFacts /\ 0 \in 0..MaxObservations
        BY <1>1, <2>2, BodyFits, WriteLogAssumption
      <3> QED
        BY <2>1, <3>1 DEF Rows
    <2>4. ErasedFacts' = ErasedFacts
      BY <2>2 DEF ErasedFacts
    <2> QED
      BY <1>1, <2>2, <2>3, <2>4, OrderTypes, RecordingStep, RegisterStepsMap
  <1>10. ASSUME NEW o \in Orders, Write(o) \/ Merge(o)
         PROVE  [Register_!Next]_(Register_!vars)
    <2>1. CASE Answer(o, "refused", {}) /\ UNCHANGED tables
      BY <1>2, <2>1, SilentAnswer DEF tables
    <2>2. ASSUME NEW row \in Rows, Tell(o, row), ErasedFacts' = ErasedFacts,
                 log[Order[o].key] = None, log' = [log EXCEPT ![Order[o].key] = row]
          PROVE  [Register_!Next]_(Register_!vars)
      BY <1>1, <2>2, OrderTypes, RecordingStep, RegisterStepsMap
    <2> QED
      BY <1>10, <2>1, <2>2, WriteEffect
  <1>11. ASSUME NEW f \in FactIds, Erase(f) PROVE [Register_!Next]_(Register_!vars)
    <2>1. Register_!Erase(f)
      BY <1>11, EraseTables DEF Register_!Erase
    <2> QED
      BY <2>1 DEF Register_!Next
  <1> QED
    BY <1>3, <1>4, <1>5, <1>6, <1>7, <1>8, <1>9, <1>10, <1>11 DEF Next

(* Whatever is lost, retried, raced or restarted: a key keeps the first    *)
(* outcome recorded under it, and nobody is told another.  A privacy       *)
(* erasure takes the detail from the outcomes of the erased fact, may move *)
(* the observation of others and changes nothing else of any outcome.      *)
THEOREM OutcomeIsFinal == Spec => OneOutcomePerKey
  <1>1. Init => Register_!Init
    BY DEF Init, Register_!Init, ErasedFacts, NoFact
  <1> QED
    BY <1>1, StepsMap, WriteLogInvariant, PTL DEF Spec, OneOutcomePerKey, Register_!Spec

=============================================================================
