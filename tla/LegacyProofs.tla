----------------------------- MODULE LegacyProofs -----------------------------
(***************************************************************************)
(* Theorems of the two halves of the in-process provider: of LegacyFacts   *)
(* for every number of processes, facts and texts, whatever restates or    *)
(* updates what, and every budget; of LegacyQueue for every number of      *)
(* processes, generations, rows and attempts, and every answer the model   *)
(* may give.                                                               *)
(***************************************************************************)
EXTENDS LegacyFacts, LegacyQueue, TLAPS

-----------------------------------------------------------------------------
(* The fact table.                                                         *)

Row0 == [text : Contents \cup {None}, state : {"none", "active", "retired", "removed"},
         by : 0..MaxFacts, cites : SUBSET Ids, cascade : {"run", "failed"}]

Kept(row) == row.state \in {"active", "retired"}

(* The fact table: a stored row has a text of its own, a row in force has  *)
(* no successor, and what an insight in force cites are rows that are no   *)
(* insights and were not superseded with a cascade.                        *)
RowsFit(table) ==
    /\ table \in [Ids -> Row0]
    /\ \A i \in Ids : Kept(table[i]) => table[i].text \in Contents
    /\ \A i, j \in Ids : Kept(table[i]) /\ Kept(table[j]) /\ table[i].text = table[j].text => i = j
    /\ \A i \in Ids : table[i].state = "active" => table[i].by = 0
    /\ \A i \in Ids : table[i].state = "active" => \A c \in table[i].cites :
         /\ table[c].state # "none" /\ table[c].cites = {}
         /\ table[c].state = "retired" => table[c].by = 0 \/ table[c].cascade = "failed"

(* Additions follow their steps under the lock. *)
AdditionsFit ==
    /\ holder \in Processes \cup {None}
    /\ adding \in [Processes -> [pc : {"none", "screened", "stored", "found"}, text : Contents \cup {None},
                                 target : 0..MaxFacts, new : 0..MaxFacts]]
    /\ \A p \in Processes :
         /\ adding[p].pc # "none" <=> holder = p
         /\ adding[p].pc # "none" => adding[p].text \in Contents
         /\ adding[p].pc = "screened" => adding[p].new = 0
         /\ adding[p].pc \in {"stored", "found"} =>
              p \notin Mcp /\ adding[p].new # 0 /\ adding[p].target # 0

(* Vectors, and the caches that hold them: whoever writes another vector   *)
(* drops its own cache and makes all others foreign.                       *)
VectorsFit ==
    /\ vectors \in [Ids -> Contents \cup {None}]
    /\ cached \in [Processes -> [Ids -> Contents \cup {None}] \cup {None}]
    /\ foreign \subseteq Processes
    /\ CacheCoherent

(* What is under way outside the lock. *)
WorkFits ==
    /\ reflecting \in [Processes -> [cites : SUBSET Ids, text : Insights \cup {None}]]
    /\ tasks \subseteq [process : Processes, id : Ids, text : Contents]
    /\ filling \in [Processes -> SUBSET (Ids \X Contents)]

IInv ==
    /\ RowsFit(facts) /\ AdditionsFit /\ VectorsFit /\ WorkFits
    /\ budget \in [Kinds -> Nat]

-----------------------------------------------------------------------------
(* What a step may not do.                                                 *)

SettleStep ==
    \A p \in Processes :
         /\ adding[p].target # 0 /\ adding'[p] = NoAdd
         /\ budget'["crash"] = budget["crash"] /\ budget'["error"] = budget["error"]
         => \A i \in Ids \ {adding[p].target} :
              /\ facts'[i].text = adding[p].text
              /\ adding[p].new \in {0, i}
              => ~(facts'[i].state = "active" /\ facts'[adding[p].target].state = "active")

McpStep ==
    \A i \in Ids : Active(i) /\ facts'[i].state = "retired" /\ facts'[i].by # 0
         /\ (holder = None \/ holder \in Mcp) =>
           LET new == facts'[i].by
           IN  facts'[new].state = "active" \/ i \in facts'[new].cites

Settles == SettleStep /\ McpStep

-----------------------------------------------------------------------------
(* What writes do to a table.                                              *)

LEMMA InsertFits ==
    ASSUME NEW table, RowsFit(table), NEW n \in Ids, table[n].state = "none",
           NEW x \in Contents, \A i \in Ids : Kept(table[i]) => table[i].text # x,
           NEW cites \in SUBSET Ids,
           \A c \in cites : table[c].state = "active" /\ table[c].cites = {}
    PROVE  /\ RowsFit([table EXCEPT ![n] = Row(x, cites)])
           /\ [table EXCEPT ![n] = Row(x, cites)][n].state = "active"
           /\ \A i \in Ids : i # n => [table EXCEPT ![n] = Row(x, cites)][i] = table[i]
  <1> DEFINE new == [table EXCEPT ![n] = Row(x, cites)]
  <1>1. table \in [Ids -> Row0]
    BY DEF RowsFit
  <1>2. /\ Row(x, cites).text = x /\ Row(x, cites).state = "active"
        /\ Row(x, cites).by = 0 /\ Row(x, cites).cites = cites
    BY DEF Row, NoFact
  <1>3. Row(x, cites) \in Row0
    <2>1. NoFact \in Row0
      BY LegacyFactsAssumption DEF Row0, NoFact
    <2> QED
      BY <2>1 DEF Row, Row0
  <1>4. new \in [Ids -> Row0] /\ new[n] = Row(x, cites) /\ \A i \in Ids : i # n => new[i] = table[i]
    BY <1>1, <1>3
  <1> HIDE DEF new
  <1>5. ASSUME NEW i \in Ids, new[i].state = "active", NEW c \in new[i].cites
        PROVE  /\ new[c].state # "none" /\ new[c].cites = {}
               /\ new[c].state = "retired" => new[c].by = 0 \/ new[c].cascade = "failed"
    <2>1. c \in Ids
      BY <1>4, <1>5 DEF Row0
    <2>2. CASE i = n
      BY <1>2, <1>4, <1>5, <2>1, <2>2
    <2>3. CASE i # n
      BY <1>4, <1>5, <2>1, <2>3 DEF RowsFit
    <2> QED
      BY <2>2, <2>3
  <1>6. RowsFit(new)
    BY <1>2, <1>4, <1>5 DEF RowsFit, Kept
  <1> QED
    BY <1>2, <1>4, <1>6 DEF new

LEMMA SupersedeFits ==
    ASSUME NEW table, RowsFit(table), NEW old \in Ids, NEW new \in Ids,
           table[old].state = "active"
    PROVE  /\ RowsFit(Supersede(table, old, new))
           /\ Supersede(table, old, new)[old].state = "retired"
           /\ Supersede(table, old, new)[old].by = new
           /\ \A i \in Ids :
                /\ Supersede(table, old, new)[i].cites = table[i].cites
                /\ Supersede(table, old, new)[i].text = table[i].text
                /\ i # old => Supersede(table, old, new)[i].by = table[i].by
                /\ i # old /\ old \notin table[i].cites =>
                     Supersede(table, old, new)[i] = table[i]
  <1> DEFINE mid == [table EXCEPT ![old].state = "retired", ![old].by = new]
             fin == Supersede(table, old, new)
  <1>1. table \in [Ids -> Row0] /\ new \in 0..MaxFacts
    BY LegacyFactsAssumption DEF RowsFit, Ids
  <1>2. /\ mid \in [Ids -> Row0] /\ \A i \in Ids : i # old => mid[i] = table[i]
        /\ mid[old] = [table[old] EXCEPT !.state = "retired", !.by = new]
    <2>1. [table EXCEPT ![old].state = "retired"] \in [Ids -> Row0]
      BY <1>1 DEF Row0
    <2>2. mid = [i \in Ids |->
                   IF i = old THEN [table[old] EXCEPT !.state = "retired", !.by = new] ELSE table[i]]
      BY <1>1, <2>1
    <2>3. [table[old] EXCEPT !.state = "retired", !.by = new] \in Row0
      <3>1. table[old] \in Row0
        BY <1>1
      <3>2. [table[old] EXCEPT !.state = "retired"] \in Row0
        BY <3>1 DEF Row0
      <3> QED
        BY <1>1, <3>2 DEF Row0
    <2> QED
      BY <1>1, <2>2, <2>3
  <1>3. /\ mid[old].state = "retired" /\ mid[old].by = new
        /\ mid[old].cites = table[old].cites /\ mid[old].text = table[old].text
        /\ mid[old].cascade = table[old].cascade
    BY <1>1, <1>2 DEF Row0
  <1>4. fin = [i \in Ids |-> IF mid[i].state = "active" /\ old \in mid[i].cites
                             THEN [mid[i] EXCEPT !.state = "retired"] ELSE mid[i]]
    BY DEF Supersede, Replaced, Cascade
  <1> HIDE DEF mid, fin
  <1>5. ASSUME NEW i \in Ids
        PROVE  /\ fin[i] \in Row0 /\ fin[i].text = table[i].text /\ fin[i].cites = table[i].cites
               /\ fin[i].by = IF i = old THEN new ELSE table[i].by
               /\ fin[i].cascade = table[i].cascade
               /\ fin[i].state = IF i = old \/ (table[i].state = "active" /\ old \in table[i].cites)
                                 THEN "retired" ELSE table[i].state
    <2>1. CASE mid[i].state = "active" /\ old \in mid[i].cites
      <3>1. fin[i] = [mid[i] EXCEPT !.state = "retired"] /\ i # old
        BY <1>3, <1>4, <2>1
      <3> QED
        BY <1>2, <2>1, <3>1 DEF Row0
    <2>2. CASE ~(mid[i].state = "active" /\ old \in mid[i].cites)
      BY <1>2, <1>3, <1>4, <2>2
    <2> QED
      BY <2>1, <2>2
  <1>6. fin \in [Ids -> Row0]
    BY <1>4, <1>5
  <1>7. ASSUME NEW i \in Ids, fin[i].state = "active", NEW c \in fin[i].cites
        PROVE  /\ fin[c].state # "none" /\ fin[c].cites = {}
               /\ fin[c].state = "retired" => fin[c].by = 0 \/ fin[c].cascade = "failed"
    <2>1. table[i].state = "active" /\ c \in table[i].cites /\ c # old
      BY <1>5, <1>7
    <2>2. c \in Ids
      BY <1>1, <2>1 DEF Row0
    <2>3. /\ table[c].state # "none" /\ table[c].cites = {}
          /\ table[c].state = "retired" => table[c].by = 0 \/ table[c].cascade = "failed"
      BY <2>1, <2>2 DEF RowsFit
    <2> QED
      BY <1>5, <2>1, <2>2, <2>3
  <1>8. RowsFit(fin)
    BY <1>5, <1>6, <1>7 DEF RowsFit, Kept
  <1>9. \A i \in Ids : i # old /\ old \notin table[i].cites => fin[i] = table[i]
    BY <1>2, <1>4
  <1> QED
    BY <1>3, <1>5, <1>8, <1>9 DEF fin

(* memory_supersede, when its cascade fails. *)
LEMMA UncascadedFits ==
    ASSUME NEW table, RowsFit(table), NEW old \in Ids, NEW new \in Ids,
           table[old].state = "active"
    PROVE  LET fin == [Replaced(table, old, new) EXCEPT ![old].cascade = "failed"]
           IN  /\ RowsFit(fin) /\ fin[old].state = "retired" /\ fin[old].by = new
               /\ \A i \in Ids : i # old => fin[i] = table[i]
  <1> DEFINE row == [table[old] EXCEPT !.state = "retired", !.by = new, !.cascade = "failed"]
             fin == [Replaced(table, old, new) EXCEPT ![old].cascade = "failed"]
  <1>1. table \in [Ids -> Row0] /\ new \in 0..MaxFacts
    BY LegacyFactsAssumption DEF RowsFit, Ids
  <1>2. /\ row \in Row0 /\ row.state = "retired" /\ row.by = new /\ row.cascade = "failed"
        /\ row.cites = table[old].cites /\ row.text = table[old].text
    <2>1. table[old] \in Row0
      BY <1>1
    <2> QED
      BY <1>1, <2>1 DEF Row0
  <1>3. fin = [table EXCEPT ![old] = row]
    BY <1>1 DEF Replaced
  <1>4. fin \in [Ids -> Row0] /\ fin[old] = row /\ \A i \in Ids : i # old => fin[i] = table[i]
    BY <1>1, <1>2, <1>3
  <1> HIDE DEF row, fin
  <1>5. ASSUME NEW i \in Ids, fin[i].state = "active", NEW c \in fin[i].cites
        PROVE  /\ fin[c].state # "none" /\ fin[c].cites = {}
               /\ fin[c].state = "retired" => fin[c].by = 0 \/ fin[c].cascade = "failed"
    <2>1. i # old /\ fin[i] = table[i] /\ c \in Ids
      BY <1>2, <1>4, <1>5 DEF Row0
    <2>2. /\ table[c].state # "none" /\ table[c].cites = {}
          /\ table[c].state = "retired" => table[c].by = 0 \/ table[c].cascade = "failed"
      BY <1>5, <2>1 DEF RowsFit
    <2> QED
      BY <1>2, <1>4, <2>1, <2>2
  <1>6. RowsFit(fin)
    BY <1>2, <1>4, <1>5 DEF RowsFit, Kept
  <1> QED
    BY <1>2, <1>4, <1>6 DEF fin

LEMMA WithdrawFits ==
    ASSUME NEW table, RowsFit(table), NEW i \in Ids, table[i].state = "active"
    PROVE  RowsFit([table EXCEPT ![i].state = "retired"])
  <1> DEFINE new == [table EXCEPT ![i].state = "retired"]
  <1>1. table \in [Ids -> Row0]
    BY DEF RowsFit
  <1>2. /\ new \in [Ids -> Row0] /\ \A j \in Ids : j # i => new[j] = table[j]
        /\ new[i].state = "retired" /\ new[i].text = table[i].text
        /\ new[i].by = table[i].by /\ new[i].cites = table[i].cites
        /\ new[i].cascade = table[i].cascade
    BY <1>1 DEF Row0
  <1> HIDE DEF new
  <1>3. ASSUME NEW j \in Ids, new[j].state = "active", NEW c \in new[j].cites
        PROVE  /\ new[c].state # "none" /\ new[c].cites = {}
               /\ new[c].state = "retired" => new[c].by = 0 \/ new[c].cascade = "failed"
    <2>1. table[j].state = "active" /\ c \in table[j].cites /\ c \in Ids
      BY <1>1, <1>2, <1>3 DEF Row0
    <2> QED
      BY <1>2, <2>1 DEF RowsFit
  <1>4. RowsFit(new)
    BY <1>2, <1>3 DEF RowsFit, Kept
  <1> QED
    BY <1>4 DEF new

LEMMA UpdateFits ==
    ASSUME NEW table, RowsFit(table), NEW i \in Ids, Kept(table[i]), NEW x \in Contents,
           \A j \in Ids : Kept(table[j]) => table[j].text # x
    PROVE  RowsFit([table EXCEPT ![i].text = x])
  <1> DEFINE new == [table EXCEPT ![i].text = x]
  <1>1. table \in [Ids -> Row0]
    BY DEF RowsFit
  <1>2. /\ new \in [Ids -> Row0] /\ \A j \in Ids : j # i => new[j] = table[j]
        /\ new[i].state = table[i].state /\ new[i].text = x
        /\ new[i].by = table[i].by /\ new[i].cites = table[i].cites
        /\ new[i].cascade = table[i].cascade
    BY <1>1 DEF Row0
  <1> HIDE DEF new
  <1>3. ASSUME NEW j \in Ids, new[j].state = "active", NEW c \in new[j].cites
        PROVE  /\ new[c].state # "none" /\ new[c].cites = {}
               /\ new[c].state = "retired" => new[c].by = 0 \/ new[c].cascade = "failed"
    <2>1. table[j].state = "active" /\ c \in table[j].cites /\ c \in Ids
      BY <1>1, <1>2, <1>3 DEF Row0
    <2> QED
      BY <1>2, <2>1 DEF RowsFit
  <1>4. RowsFit(new)
    BY <1>2, <1>3 DEF RowsFit, Kept
  <1> QED
    BY <1>4 DEF new

LEMMA RemoveFits ==
    ASSUME NEW table, RowsFit(table), NEW i \in Ids, Kept(table[i])
    PROVE  RowsFit([table EXCEPT ![i].state = "removed"])
  <1> DEFINE new == [table EXCEPT ![i].state = "removed"]
  <1>1. table \in [Ids -> Row0]
    BY DEF RowsFit
  <1>2. /\ new \in [Ids -> Row0] /\ \A j \in Ids : j # i => new[j] = table[j]
        /\ new[i].state = "removed" /\ new[i].text = table[i].text
        /\ new[i].by = table[i].by /\ new[i].cites = table[i].cites
        /\ new[i].cascade = table[i].cascade
    BY <1>1 DEF Row0
  <1> HIDE DEF new
  <1>3. ASSUME NEW j \in Ids, new[j].state = "active", NEW c \in new[j].cites
        PROVE  /\ new[c].state # "none" /\ new[c].cites = {}
               /\ new[c].state = "retired" => new[c].by = 0 \/ new[c].cascade = "failed"
    <2>1. table[j].state = "active" /\ c \in table[j].cites /\ c \in Ids
      BY <1>1, <1>2, <1>3 DEF Row0
    <2> QED
      BY <1>2, <2>1 DEF RowsFit
  <1>4. RowsFit(new)
    BY <1>2, <1>3 DEF RowsFit, Kept
  <1> QED
    BY <1>4 DEF new

-----------------------------------------------------------------------------
(* The row that a text is stored in: the one that has it, or a fresh one.  *)
RowFor(x) == IF Holding(x) = {} THEN Fresh ELSE Holding(x)

Storing(x, n, cites) == IF Holding(x) = {} THEN [facts EXCEPT ![n] = Row(x, cites)] ELSE facts

LEMMA StoringFits ==
    ASSUME RowsFit(facts), NEW x \in Contents, NEW n \in RowFor(x), NEW cites \in SUBSET Ids,
           \A c \in cites : Active(c) /\ facts[c].cites = {}
    PROVE  /\ n \in Ids /\ RowsFit(Storing(x, n, cites))
           /\ Kept(Storing(x, n, cites)[n]) /\ Storing(x, n, cites)[n].text = x
           /\ \A i \in Ids : i # n => Storing(x, n, cites)[i] = facts[i]
           /\ \A i \in Ids : Active(i) => Storing(x, n, cites)[i] = facts[i]
  <1>1. CASE Holding(x) = {}
    <2>1. n \in Ids /\ facts[n].state = "none"
      BY <1>1 DEF RowFor, Fresh
    <2>2. \A i \in Ids : Kept(facts[i]) => facts[i].text # x
      BY <1>1 DEF Holding, Stored, Kept
    <2>3. \A c \in cites : facts[c].state = "active" /\ facts[c].cites = {}
      BY DEF Active
    <2> DEFINE t == facts
    <2>6. RowsFit(t) /\ t[n].state = "none" /\ n \in Ids
      BY <2>1
    <2>7. \A i \in Ids : Kept(t[i]) => t[i].text # x
      BY <2>2
    <2>8. \A c \in cites : t[c].state = "active" /\ t[c].cites = {}
      BY <2>3
    <2> HIDE DEF t
    <2>9. RowsFit([t EXCEPT ![n] = Row(x, cites)])
      BY <2>6, <2>7, <2>8, InsertFits
    <2>4. t \in [Ids -> Row0]
      BY <2>6 DEF RowsFit
    <2>5. /\ [t EXCEPT ![n] = Row(x, cites)][n] = Row(x, cites)
          /\ \A i \in Ids : i # n => [t EXCEPT ![n] = Row(x, cites)][i] = t[i]
      BY <2>4, <2>6
    <2>10. Row(x, cites).text = x /\ Row(x, cites).state = "active"
      BY DEF Row, NoFact
    <2>11. Storing(x, n, cites) = [t EXCEPT ![n] = Row(x, cites)]
      BY <1>1 DEF Storing, t
    <2>12. \A i \in Ids : Active(i) => i # n
      BY <2>1 DEF Active
    <2> QED
      BY <2>1, <2>5, <2>9, <2>10, <2>11, <2>12 DEF Kept, t
  <1>2. CASE Holding(x) # {}
    <2>1. n \in Ids /\ Stored(n) /\ facts[n].text = x
      BY <1>2 DEF RowFor, Holding
    <2> QED
      BY <1>2, <2>1 DEF Storing, Stored, Kept
  <1> QED
    BY <1>1, <1>2

(* The replacement of a fact by one that is stored with it.                *)
LEMMA ReplacingFits ==
    ASSUME RowsFit(facts), NEW x \in Contents, NEW n \in RowFor(x),
           NEW old \in Ids, old # n, Active(old)
    PROVE  /\ RowsFit(Supersede(Storing(x, n, {}), old, n))
           /\ Supersede(Storing(x, n, {}), old, n)[old].state = "retired"
           /\ \A i \in Ids :
                 Active(i) /\ Supersede(Storing(x, n, {}), old, n)[i].by # 0 => i = old
           /\ Supersede(Storing(x, n, {}), old, n)[old].by = n
           /\ Storing(x, n, {})[n].state = "active" =>
                 \/ Supersede(Storing(x, n, {}), old, n)[n].state = "active"
                 \/ old \in Supersede(Storing(x, n, {}), old, n)[n].cites
  <1> DEFINE table == Storing(x, n, {})
  <1>1. /\ n \in Ids /\ RowsFit(table)
        /\ \A i \in Ids : Active(i) => table[i] = facts[i]
    BY StoringFits
  <1>2. table[old].state = "active" /\ \A i \in Ids : Active(i) => table[i].by = 0
    BY <1>1 DEF Active, RowsFit
  <1> HIDE DEF table
  <1>3. /\ RowsFit(Supersede(table, old, n))
        /\ Supersede(table, old, n)[old].state = "retired"
        /\ Supersede(table, old, n)[old].by = n
        /\ \A i \in Ids :
             /\ Supersede(table, old, n)[i].cites = table[i].cites
             /\ i # old => Supersede(table, old, n)[i].by = table[i].by
             /\ i # old /\ old \notin table[i].cites => Supersede(table, old, n)[i] = table[i]
    BY <1>1, <1>2, SupersedeFits
  <1> QED
    BY <1>1, <1>2, <1>3 DEF table

LEMMA WithTaskFits ==
    ASSUME WorkFits, NEW p \in Processes, NEW i \in Ids, NEW x \in Contents
    PROVE  WithTask(p, i, x) \subseteq [process : Processes, id : Ids, text : Contents]
  BY DEF WorkFits, WithTask

LEMMA WriteVectorsFits ==
    ASSUME VectorsFit, NEW p \in Processes, NEW new \in [Ids -> Contents \cup {None}],
           WriteVectors(p, new)
    PROVE  VectorsFit'
  BY DEF VectorsFit, WriteVectors, CacheCoherent, Hit

LEMMA SpendFits ==
    ASSUME budget \in [Kinds -> Nat], NEW kind \in Kinds, Spend(kind)
    PROVE  /\ budget' \in [Kinds -> Nat] /\ budget'[kind] # budget[kind]
           /\ \A k \in Kinds : k # kind => budget'[k] = budget[k]
  BY DEF Spend

LEMMA SameAdditions ==
    ASSUME AdditionsFit, UNCHANGED <<holder, adding>>
    PROVE  AdditionsFit'
  BY DEF AdditionsFit

LEMMA SameVectors ==
    ASSUME VectorsFit, UNCHANGED <<vectors, cached, foreign>>
    PROVE  VectorsFit'
  BY DEF VectorsFit, CacheCoherent, Hit

LEMMA EndAddFits ==
    ASSUME AdditionsFit, NEW p \in Processes, adding[p].pc # "none", EndAdd(p)
    PROVE  AdditionsFit' /\ \A q \in Processes : q # p => adding'[q] = adding[q]
  <1>1. holder = p /\ \A q \in Processes : q # p => adding[q].pc = "none"
    BY DEF AdditionsFit
  <1> QED
    BY <1>1, LegacyFactsAssumption DEF AdditionsFit, EndAdd, NoAdd

LEMMA SameFactsMcp ==
    ASSUME facts' = facts
    PROVE  McpStep
  BY DEF McpStep, Active

-----------------------------------------------------------------------------
(* The steps.                                                              *)

LEMMA StartAddStep ==
    ASSUME IInv, NEW p \in Processes, NEW x \in Contents, StartAdd(p, x)
    PROVE  IInv' /\ Settles
  <1> USE DEF StartAdd
  <1>1. budget' \in [Kinds -> Nat]
    BY SpendFits DEF IInv, Kinds
  <1>2. PICK target \in (IF Targets(x) = {} THEN {0} ELSE Targets(x)) :
          adding' = [adding EXCEPT ![p] = [NoAdd EXCEPT !.pc = "screened", !.text = x,
                                                        !.target = target]]
    OBVIOUS
  <1>3. target \in 0..MaxFacts
    BY LegacyFactsAssumption DEF Targets, Ids
  <1> DEFINE add == [NoAdd EXCEPT !.pc = "screened", !.text = x, !.target = target]
  <1>4. /\ add.pc = "screened" /\ add.text = x /\ add.target = target /\ add.new = 0
        /\ add \in [pc : {"none", "screened", "stored", "found"}, text : Contents \cup {None},
                    target : 0..MaxFacts, new : 0..MaxFacts]
    <2>1. add.pc = "screened" /\ add.text = x /\ add.target = target /\ add.new = 0
      BY DEF NoAdd
    <2>2. NoAdd \in [pc : {"none", "screened", "stored", "found"}, text : Contents \cup {None},
                     target : 0..MaxFacts, new : 0..MaxFacts]
      BY LegacyFactsAssumption DEF NoAdd
    <2> QED
      BY <1>3, <2>1, <2>2
  <1>5. add # NoAdd
    BY <1>4 DEF NoAdd
  <1>6. adding' = [adding EXCEPT ![p] = add]
    BY <1>2
  <1> HIDE DEF add
  <1>7. adding'[p] = add /\ \A q \in Processes : q # p => adding'[q] = adding[q]
    BY <1>6 DEF IInv, AdditionsFit
  <1>8. AdditionsFit'
    BY <1>4, <1>6, <1>7, LegacyFactsAssumption DEF IInv, AdditionsFit
  <1>9. SettleStep
    BY <1>5, <1>7 DEF SettleStep, NoAdd
  <1> QED
    BY <1>1, <1>8, <1>9, SameFactsMcp, SameVectors DEF IInv, WorkFits, Settles

LEMMA StoreAddStep ==
    ASSUME IInv, NEW p \in Processes, StoreAdd(p)
    PROVE  IInv' /\ Settles
  <1> USE DEF StoreAdd
  <1> DEFINE x == adding[p].text
  <1>1. x \in Contents
    BY DEF IInv, AdditionsFit
  <1>2. PICK new \in RowFor(x) :
          /\ facts' = Storing(x, new, {})
          /\ IF adding[p].target = 0
             THEN EndAdd(p) /\ tasks' = WithTask(p, new, x)
             ELSE /\ adding' = [adding EXCEPT ![p].new = new,
                                              ![p].pc = IF Holding(x) = {} THEN "stored"
                                                        ELSE "found"]
                  /\ UNCHANGED <<holder, tasks>>
    BY DEF RowFor, Storing
  <1>3. /\ new \in Ids /\ RowsFit(Storing(x, new, {}))
        /\ \A i \in Ids : Active(i) => Storing(x, new, {})[i] = facts[i]
    <2> HIDE DEF x
    <2> QED
      BY <1>1, StoringFits DEF IInv
  <1>4. RowsFit(facts') /\ McpStep
    BY <1>2, <1>3 DEF McpStep, Active
  <1>5. CASE adding[p].target = 0
    <2>1. AdditionsFit' /\ \A q \in Processes : q # p => adding'[q] = adding[q]
      BY <1>2, <1>5, EndAddFits DEF IInv
    <2>2. WorkFits'
      BY <1>1, <1>2, <1>3, <1>5, WithTaskFits DEF IInv, WorkFits
    <2>3. SettleStep
      BY <1>5, <2>1 DEF SettleStep, NoAdd
    <2> QED
      BY <1>4, <2>1, <2>2, <2>3, SameVectors DEF IInv, Settles
  <1>6. CASE adding[p].target # 0
    <2> DEFINE pc == IF Holding(x) = {} THEN "stored" ELSE "found"
    <2>1. /\ adding' = [adding EXCEPT ![p].new = new, ![p].pc = pc]
          /\ UNCHANGED <<holder, tasks>>
      BY <1>2, <1>6
    <2>2. new \in 0..MaxFacts /\ new # 0 /\ pc \in {"stored", "found"}
      BY <1>3, LegacyFactsAssumption DEF Ids
    <2> HIDE DEF pc
    <2>3. /\ adding[p] \in [pc : {"none", "screened", "stored", "found"}, text : Contents \cup {None},
                            target : 0..MaxFacts, new : 0..MaxFacts]
          /\ adding' = [adding EXCEPT ![p] = [adding[p] EXCEPT !.new = new, !.pc = pc]]
      BY <2>1 DEF IInv, AdditionsFit
    <2>4. /\ adding'[p].pc \in {"stored", "found"} /\ adding'[p].new = new
          /\ adding'[p].text = adding[p].text /\ adding'[p].target = adding[p].target
          /\ \A q \in Processes : q # p => adding'[q] = adding[q]
      BY <2>2, <2>3 DEF IInv, AdditionsFit
    <2>5. AdditionsFit'
      BY <1>6, <2>1, <2>2, <2>3, <2>4 DEF IInv, AdditionsFit
    <2>6. SettleStep
      BY <2>4 DEF SettleStep, NoAdd
    <2> QED
      BY <1>4, <2>1, <2>5, <2>6, SameVectors DEF IInv, WorkFits, Settles
  <1> QED
    BY <1>5, <1>6

LEMMA SupersedeAddStep ==
    ASSUME IInv, NEW p \in Processes, SupersedeAdd(p)
    PROVE  IInv' /\ Settles
  <1> USE DEF SupersedeAdd
  <1> DEFINE old == adding[p].target
             new == adding[p].new
  <1>1. /\ adding[p].pc \in {"stored", "found"} /\ EndAdd(p)
        /\ old \in Ids /\ new \in Ids /\ p \notin Mcp /\ adding[p].text \in Contents
        /\ holder = p
    BY LegacyFactsAssumption DEF IInv, AdditionsFit, Ids
  <1>2. AdditionsFit' /\ \A q \in Processes : q # p => adding'[q] = adding[q]
    BY <1>1, EndAddFits DEF IInv
  <1>3. McpStep
    BY <1>1, LegacyFactsAssumption DEF McpStep
  <1>5. ASSUME RowsFit(facts'),
               budget'["error"] = budget["error"] =>
                 \A i \in Ids \ {old} : new = i =>
                   ~(facts'[i].state = "active" /\ facts'[old].state = "active")
        PROVE  RowsFit(facts') /\ SettleStep
    BY <1>1, <1>2, <1>5 DEF SettleStep, NoAdd, Ids
  <1>6. CASE /\ Active(old) /\ old # new
             /\ facts' = Supersede(facts, old, new)
             /\ tasks' = WithTask(p, new, adding[p].text)
             /\ UNCHANGED budget
    <2>1. RowsFit(facts') /\ facts'[old].state = "retired"
      <3> HIDE DEF old, new
      <3> QED
        BY <1>1, <1>6, SupersedeFits DEF IInv, Active
    <2>2. WorkFits'
      BY <1>1, <1>6, WithTaskFits DEF IInv, WorkFits
    <2> QED
      BY <1>2, <1>3, <1>5, <1>6, <2>1, <2>2, SameVectors DEF IInv, Settles
  <1>7. CASE /\ Spend("refused")
             /\ facts' = IF Active(old) /\ Active(new)
                         THEN [facts EXCEPT ![new].state = "retired"] ELSE facts
             /\ UNCHANGED tasks
    <2>1. budget' \in [Kinds -> Nat]
      BY <1>7, SpendFits DEF IInv, Kinds
    <2>2. RowsFit(facts')
      <3> HIDE DEF old, new
      <3> QED
        BY <1>1, <1>7, WithdrawFits DEF IInv, Active
    <2>3. \A i \in Ids \ {old} : new = i =>
            ~(facts'[i].state = "active" /\ facts'[old].state = "active")
      <3> HIDE DEF old, new
      <3> QED
        BY <1>1, <1>7 DEF IInv, RowsFit, Row0, Active
    <2> QED
      BY <1>2, <1>3, <1>5, <1>7, <2>1, <2>2, <2>3, SameVectors DEF IInv, WorkFits, Settles
  <1>8. CASE /\ IF Active(old) /\ old # new THEN Spend("error") ELSE UNCHANGED budget
             /\ UNCHANGED <<facts, tasks>>
    <2>1. /\ budget' \in [Kinds -> Nat]
          /\ Active(old) /\ old # new => budget'["error"] # budget["error"]
      BY <1>8, SpendFits DEF IInv, Kinds
    <2>2. RowsFit(facts')
      BY <1>8 DEF IInv
    <2>3. budget'["error"] = budget["error"] =>
            \A i \in Ids \ {old} : new = i =>
              ~(facts'[i].state = "active" /\ facts'[old].state = "active")
      BY <1>8, <2>1 DEF Active
    <2> QED
      BY <1>2, <1>3, <1>5, <1>8, <2>1, <2>2, <2>3, SameVectors DEF IInv, WorkFits, Settles
  <1> QED
    BY <1>6, <1>7, <1>8

LEMMA McpAddStep ==
    ASSUME IInv, NEW p \in Processes, McpAdd(p)
    PROVE  IInv' /\ Settles
  <1> USE DEF McpAdd
  <1> DEFINE x == adding[p].text
             old == adding[p].target
  <1>1. /\ adding[p].pc = "screened" /\ EndAdd(p)
        /\ x \in Contents /\ old \in Ids \cup {0} /\ adding[p].new = 0
    BY LegacyFactsAssumption DEF IInv, AdditionsFit, Ids
  <1>2. AdditionsFit' /\ \A q \in Processes : q # p => adding'[q] = adding[q]
    BY <1>1, EndAddFits DEF IInv
  <1> HIDE DEF x, old
  <1>3. PICK n \in RowFor(x) :
          LET table == Storing(x, n, {})
              done == old = 0 \/ (old # n /\ table[n].state = "active" /\ Active(old))
          IN  /\ facts' = IF ~done THEN facts
                          ELSE IF old = 0 THEN table ELSE Supersede(table, old, n)
              /\ tasks' = IF done /\ Holding(x) = {} THEN WithTask(p, n, x) ELSE tasks
    BY DEF RowFor, Storing, x, old
  <1> DEFINE table == Storing(x, n, {})
             done == old = 0 \/ (old # n /\ table[n].state = "active" /\ Active(old))
  <1>4. /\ n \in Ids /\ RowsFit(table)
        /\ \A i \in Ids : Active(i) => table[i] = facts[i]
    BY <1>1, StoringFits DEF IInv
  <1>5. WorkFits'
    BY <1>1, <1>3, <1>4, WithTaskFits DEF IInv, WorkFits
  <1>6. ASSUME old # 0 => \A i \in Ids \ {old} : facts'[i].text = x =>
                 ~(facts'[i].state = "active" /\ facts'[old].state = "active")
        PROVE  SettleStep
    <2>1. ASSUME NEW q \in Processes, adding[q].target # 0, adding'[q] = NoAdd
          PROVE  q = p
      BY <1>2, <2>1 DEF NoAdd
    <2> QED
      BY <1>6, <2>1 DEF SettleStep, x, old
  <1>7. CASE old = 0
    <2>1. facts' = table
      BY <1>3, <1>7
    <2> HIDE DEF table
    <2>2. RowsFit(facts') /\ McpStep
      BY <1>4, <2>1 DEF McpStep, Active
    <2> QED
      BY <1>2, <1>5, <1>6, <1>7, <2>2, SameVectors DEF IInv, Settles
  <1>8. CASE old # 0 /\ done
    <2>1. facts' = Supersede(table, old, n) /\ old # n /\ table[n].state = "active" /\ Active(old)
      BY <1>3, <1>8
    <2>2. /\ RowsFit(facts') /\ facts'[old].state = "retired" /\ facts'[old].by = n
          /\ \A i \in Ids : Active(i) /\ facts'[i].by # 0 => i = old
          /\ facts'[n].state = "active" \/ old \in facts'[n].cites
      <3>1. old \in Ids
        BY <1>1, <1>8
      <3> QED
        <4> DEFINE after == Supersede(Storing(x, n, {}), old, n)
        <4>1. facts' = after /\ Storing(x, n, {})[n].state = "active"
          BY <2>1
        <4>2. RowsFit(facts)
          BY DEF IInv
        <4>3. RowsFit(after)
          BY <1>1, <2>1, <3>1, <4>2, ReplacingFits
        <4>4. after[old].state = "retired" /\ after[old].by = n
          BY <1>1, <2>1, <3>1, <4>2, ReplacingFits
        <4>5. \A i \in Ids : Active(i) /\ after[i].by # 0 => i = old
          BY <1>1, <2>1, <3>1, <4>2, ReplacingFits
        <4>6. after[n].state = "active" \/ old \in after[n].cites
          BY <1>1, <2>1, <3>1, <4>1, <4>2, ReplacingFits
        <4> HIDE DEF after
        <4> QED
          BY <4>1, <4>3, <4>4, <4>5, <4>6
    <2>3. McpStep
      BY <2>2 DEF McpStep
    <2> QED
      BY <1>2, <1>5, <1>6, <2>2, <2>3, SameVectors DEF IInv, Settles
  <1>9. CASE old # 0 /\ ~done
    <2>1. facts' = facts
      BY <1>3, <1>9
    <2>2. ASSUME NEW i \in Ids, i # old, facts[i].text = x, Active(i), Active(old)
          PROVE  FALSE
      <3>1. i \in Holding(x)
        BY <2>2 DEF Holding, Stored, Active
      <3>2. n \in Holding(x) /\ table = facts
        BY <3>1 DEF RowFor, Storing
      <3>3. n = i
        BY <3>1, <3>2 DEF Holding, Stored, IInv, RowsFit, Kept
      <3> QED
        BY <1>9, <2>2, <3>2, <3>3 DEF Active
    <2>3. SettleStep
      BY <1>6, <2>1, <2>2 DEF Active
    <2> QED
      BY <1>2, <1>5, <2>1, <2>3, SameFactsMcp, SameVectors DEF IInv, Settles
  <1> QED
    BY <1>7, <1>8, <1>9

(* Whoever leaves the additions as they are has ended none. *)
LEMMA SameSettles ==
    ASSUME IInv, UNCHANGED adding
    PROVE  SettleStep
  <1>1. \A p \in Processes : adding'[p] = NoAdd => adding[p].target = 0
    BY DEF NoAdd
  <1> QED
    BY <1>1 DEF SettleStep

LEMMA McpReplaceStep ==
    ASSUME IInv, NEW p \in Processes, NEW old \in Ids, NEW x \in Contents, McpReplace(p, old, x)
    PROVE  IInv' /\ Settles
  <1> USE DEF McpReplace
  <1>1. budget' \in [Kinds -> Nat]
    BY SpendFits DEF IInv, Kinds
  <1> DEFINE failing(n) == [Replaced(Storing(x, n, {}), old, n) EXCEPT ![old].cascade = "failed"]
  <1>2. PICK n \in RowFor(x) :
          /\ n # old /\ Storing(x, n, {})[n].state = "active"
          /\ facts' = Supersede(Storing(x, n, {}), old, n) \/ facts' = failing(n)
          /\ tasks' = IF Holding(x) = {} THEN WithTask(p, n, x) ELSE tasks
    BY DEF RowFor, Storing
  <1>3. Active(old) /\ RowsFit(facts)
    BY DEF IInv
  <1>4. n \in Ids /\ RowsFit(Storing(x, n, {})) /\ \A i \in Ids : Active(i) => Storing(x, n, {})[i] = facts[i]
    BY <1>3, StoringFits
  <1>5. RowsFit(facts') /\ McpStep
    <2>1. CASE facts' = Supersede(Storing(x, n, {}), old, n)
      <3> DEFINE after == Supersede(Storing(x, n, {}), old, n)
      <3>1. RowsFit(after)
        BY <1>2, <1>3, ReplacingFits
      <3>2. \A i \in Ids : Active(i) /\ after[i].by # 0 => i = old
        BY <1>2, <1>3, ReplacingFits
      <3>3. after[old].by = n
        BY <1>2, <1>3, ReplacingFits
      <3>4. after[n].state = "active" \/ old \in after[n].cites
        BY <1>2, <1>3, ReplacingFits
      <3>5. facts' = after
        BY <2>1
      <3> HIDE DEF after
      <3> QED
        BY <3>1, <3>2, <3>3, <3>4, <3>5 DEF McpStep
    <2>2. CASE facts' = failing(n)
      <3> DEFINE table == Storing(x, n, {})
      <3>1. table[old].state = "active" /\ \A i \in Ids : Active(i) => table[i].by = 0
        BY <1>3, <1>4 DEF Active, RowsFit
      <3>2. RowsFit(table) /\ table[n].state = "active" /\ n # old /\ n \in Ids
        BY <1>2, <1>4
      <3> HIDE DEF table
      <3>3. LET fin == [Replaced(table, old, n) EXCEPT ![old].cascade = "failed"]
            IN  /\ RowsFit(fin) /\ fin[old].state = "retired" /\ fin[old].by = n
                /\ \A i \in Ids : i # old => fin[i] = table[i]
        BY <3>1, <3>2, UncascadedFits
      <3>4. /\ RowsFit(failing(n)) /\ failing(n)[old].by = n
            /\ \A i \in Ids : i # old => failing(n)[i] = table[i]
        BY <3>3 DEF table
      <3> HIDE DEF failing
      <3> QED
        BY <2>2, <3>1, <3>2, <3>4 DEF McpStep
    <2> QED
      BY <1>2, <2>1, <2>2
  <1>11. WorkFits'
    BY <1>2, <1>4, WithTaskFits DEF IInv, WorkFits
  <1> QED
    BY <1>1, <1>5, <1>11, SameSettles, SameAdditions, SameVectors DEF IInv, Settles

(* A row stored by itself, with what it cites. *)
LEMMA StoredAlone ==
    ASSUME IInv, NEW x \in Contents, NEW n \in RowFor(x), NEW cites \in SUBSET Ids,
           \A c \in cites : Active(c) /\ facts[c].cites = {},
           facts' = Storing(x, n, cites)
    PROVE  RowsFit(facts') /\ McpStep /\ n \in Ids
  <1> DEFINE after == Storing(x, n, cites)
  <1>1. RowsFit(facts)
    BY DEF IInv
  <1>2. RowsFit(after)
    BY <1>1, StoringFits
  <1>3. n \in Ids /\ \A i \in Ids : Active(i) => after[i] = facts[i]
    BY <1>1, StoringFits
  <1>4. facts' = after
    OBVIOUS
  <1> HIDE DEF after
  <1> QED
    BY <1>2, <1>3, <1>4 DEF McpStep, Active

LEMMA MirrorStep ==
    ASSUME IInv, NEW p \in Processes, NEW x \in Contents, Mirror(p, x)
    PROVE  IInv' /\ Settles
  <1> USE DEF Mirror
  <1>1. budget' \in [Kinds -> Nat]
    BY SpendFits DEF IInv, Kinds
  <1>2. PICK n \in RowFor(x) : facts' = Storing(x, n, {}) /\ tasks' = WithTask(p, n, x)
    BY DEF RowFor, Storing
  <1> DEFINE cites == {}
  <1>5. cites \in SUBSET Ids /\ \A c \in cites : Active(c) /\ facts[c].cites = {}
    OBVIOUS
  <1>6. facts' = Storing(x, n, cites)
    BY <1>2
  <1> HIDE DEF cites
  <1>3. RowsFit(facts') /\ McpStep /\ n \in Ids
    BY <1>5, <1>6, StoredAlone
  <1>4. WorkFits'
    BY <1>2, <1>3, WithTaskFits DEF IInv, WorkFits
  <1> QED
    BY <1>1, <1>3, <1>4, SameSettles, SameAdditions, SameVectors DEF IInv, Settles

LEMMA InsertInsightStep ==
    ASSUME IInv, NEW p \in Processes, InsertInsight(p)
    PROVE  IInv' /\ Settles
  <1> USE DEF InsertInsight
  <1> DEFINE x == reflecting[p].text
             cites == reflecting[p].cites
  <1>1. x \in Contents /\ cites \in SUBSET Ids
    BY DEF IInv, WorkFits, Contents
  <1>2. reflecting' \in [Processes -> [cites : SUBSET Ids, text : Insights \cup {None}]]
    BY DEF IInv, WorkFits, NoInsight
  <1>3. PICK n \in RowFor(x) :
          IF \A c \in cites : Source(c)
          THEN facts' = Storing(x, n, cites) /\ tasks' = WithTask(p, n, x)
          ELSE UNCHANGED <<facts, tasks>>
    BY DEF RowFor, Storing
  <1> HIDE DEF x, cites
  <1>4. CASE \A c \in cites : Source(c)
    <2>1. RowsFit(facts') /\ McpStep /\ n \in Ids
      BY <1>1, <1>3, <1>4, StoredAlone DEF Source
    <2>2. WorkFits'
      BY <1>1, <1>2, <1>3, <1>4, <2>1, WithTaskFits DEF IInv, WorkFits
    <2> QED
      BY <2>1, <2>2, SameSettles, SameAdditions, SameVectors DEF IInv, Settles
  <1>5. CASE ~\A c \in cites : Source(c)
    BY <1>2, <1>3, <1>5, SameSettles, SameAdditions, SameVectors, SameFactsMcp
    DEF IInv, WorkFits, Settles
  <1> QED
    BY <1>4, <1>5

LEMMA UpdateStep ==
    ASSUME IInv, NEW p \in Processes, NEW i \in Ids, NEW x \in Contents, Update(p, i, x)
    PROVE  IInv' /\ Settles
  <1> USE DEF Update
  <1>1. budget' \in [Kinds -> Nat]
    BY SpendFits DEF IInv, Kinds
  <1>2. RowsFit(facts')
    BY UpdateFits DEF IInv, Stored, Kept, Holding
  <1>3. McpStep
    BY DEF McpStep, Active, IInv, RowsFit, Row0
  <1>4. VectorsFit'
    <2>1. CASE Embedder
      BY <2>1, SameVectors DEF IInv
    <2>2. CASE ~Embedder
      <3>1. [vectors EXCEPT ![i] = None] \in [Ids -> Contents \cup {None}]
        BY DEF IInv, VectorsFit
      <3> QED
        BY <2>2, <3>1, WriteVectorsFits DEF IInv
    <2> QED
      BY <2>1, <2>2
  <1>5. WorkFits'
    BY WithTaskFits DEF IInv, WorkFits
  <1> QED
    BY <1>1, <1>2, <1>3, <1>4, <1>5, SameSettles, SameAdditions DEF IInv, Settles

LEMMA RemoveStep ==
    ASSUME IInv, NEW p \in Processes, NEW i \in Ids, RemoveFact(p, i)
    PROVE  IInv' /\ Settles
  <1> USE DEF RemoveFact
  <1>1. budget' \in [Kinds -> Nat]
    BY SpendFits DEF IInv, Kinds
  <1>2. RowsFit(facts')
    BY RemoveFits DEF IInv, Stored, Kept
  <1>3. McpStep
    BY DEF McpStep, Active, IInv, RowsFit, Row0
  <1>4. [vectors EXCEPT ![i] = None] \in [Ids -> Contents \cup {None}]
    BY DEF IInv, VectorsFit
  <1>5. VectorsFit'
    BY <1>4, WriteVectorsFits DEF IInv
  <1> QED
    BY <1>1, <1>2, <1>3, <1>5, SameSettles, SameAdditions DEF IInv, WorkFits, Settles

LEMMA ReflectStep ==
    ASSUME IInv, NEW p \in Processes, Reflect(p)
    PROVE  IInv' /\ Settles
  <1> USE DEF Reflect
  <1>1. budget' \in [Kinds -> Nat]
    BY SpendFits DEF IInv, Kinds
  <1>2. PICK cites \in SUBSET Ids : reflecting' = [reflecting EXCEPT ![p].cites = cites]
    OBVIOUS
  <1>3. WorkFits'
    BY <1>2 DEF IInv, WorkFits
  <1> QED
    BY <1>1, <1>3, SameFactsMcp, SameSettles, SameAdditions, SameVectors DEF IInv, Settles

LEMMA CompareStep ==
    ASSUME IInv, NEW p \in Processes, Compare(p)
    PROVE  IInv' /\ Settles
  <1> USE DEF Compare
  <1>1. PICK x \in Insights :
          reflecting' = [reflecting EXCEPT ![p] =
                           IF Restated(x) THEN NoInsight ELSE [@ EXCEPT !.text = x]]
    OBVIOUS
  <1>2. WorkFits'
    BY <1>1 DEF IInv, WorkFits, NoInsight
  <1> QED
    BY <1>2, SameFactsMcp, SameSettles, SameAdditions, SameVectors DEF IInv, Settles

-----------------------------------------------------------------------------
(* The steps of the vectors.                                               *)

LEMMA EmbedStep ==
    ASSUME IInv, NEW k \in tasks, Embed(k)
    PROVE  IInv' /\ Settles
  <1> USE DEF Embed
  <1>1. k \in [process : Processes, id : Ids, text : Contents] /\ WorkFits'
    BY DEF IInv, WorkFits
  <1>2. VectorsFit' /\ budget' \in [Kinds -> Nat]
    <2>1. CASE WriteVectors(k.process, [vectors EXCEPT ![k.id] = k.text]) /\ UNCHANGED budget
      <3>1. [vectors EXCEPT ![k.id] = k.text] \in [Ids -> Contents \cup {None}]
        BY <1>1 DEF IInv, VectorsFit
      <3> QED
        BY <1>1, <2>1, <3>1, WriteVectorsFits DEF IInv
    <2>2. CASE Spend("embedfail") /\ UNCHANGED <<vectors, cached, foreign>>
      BY <2>2, SpendFits, SameVectors DEF IInv, Kinds
    <2> QED
      BY <2>1, <2>2
  <1> QED
    BY <1>1, <1>2, SameFactsMcp, SameSettles, SameAdditions DEF IInv, Settles

LEMMA BackfillStep ==
    ASSUME IInv, NEW p \in Processes, Backfill(p)
    PROVE  IInv' /\ Settles
  <1> USE DEF Backfill
  <1>1. {<<i, facts[i].text>> : i \in {j \in Ids : Stored(j) /\ vectors[j] = None}}
          \subseteq Ids \X Contents
    BY DEF IInv, RowsFit, Stored, Kept
  <1>2. WorkFits'
    BY <1>1 DEF IInv, WorkFits
  <1> QED
    BY <1>2, SameFactsMcp, SameSettles, SameAdditions, SameVectors DEF IInv, Settles

LEMMA RebuildStep ==
    ASSUME IInv, NEW p \in Processes, Rebuild(p)
    PROVE  IInv' /\ Settles
  <1> USE DEF Rebuild
  <1>1. {<<i, facts[i].text>> : i \in {j \in Ids : Stored(j)}} \subseteq Ids \X Contents
    BY DEF IInv, RowsFit, Stored, Kept
  <1>2. WorkFits'
    BY <1>1 DEF IInv, WorkFits
  <1>3. budget' \in [Kinds -> Nat]
    BY SpendFits DEF IInv, Kinds
  <1> QED
    BY <1>2, <1>3, SameFactsMcp, SameSettles, SameAdditions, SameVectors DEF IInv, Settles

LEMMA FillOneStep ==
    ASSUME IInv, NEW p \in Processes, FillOne(p)
    PROVE  IInv' /\ Settles
  <1> USE DEF FillOne
  <1>1. PICK e \in filling[p] :
          /\ \/ /\ WriteVectors(p, [vectors EXCEPT ![e[1]] = e[2]])
                /\ UNCHANGED budget
             \/ /\ Spend("embedfail")
                /\ UNCHANGED <<vectors, cached, foreign>>
          /\ filling' = [filling EXCEPT ![p] = @ \ {e}]
    OBVIOUS
  <1>2. e[1] \in Ids /\ e[2] \in Contents /\ WorkFits'
    BY <1>1 DEF IInv, WorkFits
  <1>3. VectorsFit' /\ budget' \in [Kinds -> Nat]
    <2>1. CASE WriteVectors(p, [vectors EXCEPT ![e[1]] = e[2]]) /\ UNCHANGED budget
      <3>1. [vectors EXCEPT ![e[1]] = e[2]] \in [Ids -> Contents \cup {None}]
        BY <1>2 DEF IInv, VectorsFit
      <3> QED
        BY <2>1, <3>1, WriteVectorsFits DEF IInv
    <2>2. CASE Spend("embedfail") /\ UNCHANGED <<vectors, cached, foreign>>
      BY <2>2, SpendFits, SameVectors DEF IInv, Kinds
    <2> QED
      BY <1>1, <2>1, <2>2
  <1> QED
    BY <1>2, <1>3, SameFactsMcp, SameSettles, SameAdditions DEF IInv, Settles

LEMMA LoadMatrixStep ==
    ASSUME IInv, NEW p \in Processes, LoadMatrix(p)
    PROVE  IInv' /\ Settles
  <1>1. VectorsFit'
    BY DEF LoadMatrix, IInv, VectorsFit, CacheCoherent, Hit
  <1> QED
    BY <1>1, SameFactsMcp, SameSettles, SameAdditions DEF LoadMatrix, IInv, WorkFits, Settles

LEMMA CrashStep ==
    ASSUME IInv, NEW p \in Processes, Crash(p)
    PROVE  IInv' /\ Settles
  <1> USE DEF Crash
  <1>1. budget' \in [Kinds -> Nat] /\ budget'["crash"] # budget["crash"]
    BY SpendFits DEF IInv, Kinds
  <1>2. AdditionsFit'
    <2>1. /\ adding'[p].pc = "none" /\ \A q \in Processes : q # p => adding'[q] = adding[q]
          /\ adding' \in [Processes -> [pc : {"none", "screened", "stored", "found"},
                                        text : Contents \cup {None},
                                        target : 0..MaxFacts, new : 0..MaxFacts]]
      BY LegacyFactsAssumption DEF IInv, AdditionsFit, NoAdd
    <2> QED
      BY <2>1, LegacyFactsAssumption DEF IInv, AdditionsFit
  <1>3. VectorsFit'
    BY DEF IInv, VectorsFit, CacheCoherent, Hit
  <1>4. WorkFits'
    BY DEF IInv, WorkFits, NoInsight
  <1>5. SettleStep
    BY <1>1 DEF SettleStep
  <1> QED
    BY <1>1, <1>2, <1>3, <1>4, <1>5, SameFactsMcp DEF IInv, Settles

-----------------------------------------------------------------------------
(* The theorems.                                                           *)

LEMMA InitFits == Init => IInv
  <1> SUFFICES ASSUME Init PROVE IInv
    OBVIOUS
  <1> USE LegacyFactsAssumption DEF Init
  <1>1. RowsFit(facts)
    BY DEF RowsFit, Row0, NoFact, Kept
  <1>2. AdditionsFit
    BY DEF AdditionsFit, NoAdd
  <1>3. VectorsFit
    BY DEF VectorsFit, CacheCoherent, Hit
  <1>4. WorkFits
    BY DEF WorkFits, NoInsight
  <1> QED
    BY <1>1, <1>2, <1>3, <1>4 DEF IInv

LEMMA StepFits == IInv /\ [Next]_vars => IInv' /\ (Settles \/ UNCHANGED vars)
  <1> SUFFICES ASSUME IInv, [Next]_vars PROVE IInv' /\ (Settles \/ UNCHANGED vars)
    OBVIOUS
  <1>1. CASE UNCHANGED vars
    BY <1>1, SameAdditions, SameVectors DEF vars, IInv, WorkFits
  <1>2. CASE Next
    <2>1. PICK p \in Processes :
            \/ \E x \in Contents : StartAdd(p, x) \/ Mirror(p, x)
            \/ StoreAdd(p) \/ SupersedeAdd(p) \/ McpAdd(p)
            \/ \E i \in Ids, x \in Contents : McpReplace(p, i, x) \/ Update(p, i, x)
            \/ \E i \in Ids : RemoveFact(p, i)
            \/ Reflect(p) \/ Compare(p) \/ InsertInsight(p)
            \/ \E k \in tasks : k.process = p /\ Embed(k)
            \/ Backfill(p) \/ Rebuild(p) \/ FillOne(p) \/ LoadMatrix(p)
            \/ Crash(p)
      BY <1>2 DEF Next
    <2> QED
      BY <2>1, StartAddStep, MirrorStep, StoreAddStep, SupersedeAddStep, McpAddStep,
         McpReplaceStep, UpdateStep, RemoveStep, ReflectStep, CompareStep, InsertInsightStep,
         EmbedStep, BackfillStep, RebuildStep, FillOneStep, LoadMatrixStep, CrashStep
  <1> QED
    BY <1>1, <1>2

LEMMA Fits == Spec => []IInv
  <1> QED
    BY InitFits, StepFits, PTL DEF Spec

(* The facts that both processes write are well formed: a text is on       *)
(* record once, only the holder of the lock is adding, and an insight in   *)
(* force rests on sources that are no insights and that nobody superseded, *)
(* but for a memory_supersede whose cascade failed.                        *)
THEOREM FactsAreSound == Spec => []FactsSound
  <1>1. IInv => TypeOK
    <2> SUFFICES ASSUME IInv PROVE TypeOK
      OBVIOUS
    <2>1. /\ holder \in Processes \cup {None}
          /\ adding \in [Processes -> [pc : {"none", "screened", "stored", "found"},
                                       text : Contents \cup {None},
                                       target : 0..MaxFacts, new : 0..MaxFacts]]
          /\ \A p \in Processes : adding[p].pc # "none" <=> holder = p
      BY DEF IInv, AdditionsFit
    <2>2. /\ facts \in [Ids -> [text : Contents \cup {None},
                                state : {"none", "active", "retired", "removed"},
                                by : 0..MaxFacts, cites : SUBSET Ids,
                                cascade : {"run", "failed"}]]
          /\ \A i, j \in Ids : facts[i].state \in {"active", "retired"}
               /\ facts[j].state \in {"active", "retired"} /\ facts[i].text = facts[j].text
                 => i = j
      BY DEF IInv, RowsFit, Row0, Kept
    <2> QED
      BY <2>1, <2>2 DEF IInv, VectorsFit, WorkFits, TypeOK
  <1>2. IInv => InsightsGrounded
    BY DEF IInv, RowsFit, InsightsGrounded, Active
  <1> QED
    BY <1>1, <1>2, Fits, PTL DEF FactsSound

(* A search through a cached matrix compares with the vectors stored: each *)
(* writer of vectors drops its own cache, and makes the others see another *)
(* data_version.                                                           *)
THEOREM CachesAreCoherent == Spec => []CacheCoherent
  <1>1. IInv => CacheCoherent
    BY DEF IInv, VectorsFit
  <1> QED
    BY <1>1, Fits, PTL

(* Replacing a fact in two transactions does not leave both in force,      *)
(* whatever is updated or removed between them and when the second is      *)
(* refused, only when it begins and fails; what the MCP server's one       *)
(* transaction supersedes has a successor in force.                        *)
THEOREM ReplacementsAreSettled == Spec => ReplacementsSettle
  <1>1. IInv /\ [Next]_vars => [SettleStep /\ McpStep]_vars
    BY StepFits DEF Settles
  <1>2. Spec => [][SettleStep]_vars
    BY <1>1, Fits, PTL DEF Spec
  <1>3. Spec => [][McpStep]_vars
    BY <1>1, Fits, PTL DEF Spec
  <1>4. Spec => ReplacementSettles
    BY <1>2 DEF ReplacementSettles, SettleStep
  <1>5. Spec => McpSuccessorInForce
    BY <1>3 DEF McpSuccessorInForce, McpStep
  <1> QED
    BY <1>4, <1>5 DEF ReplacementsSettle

-----------------------------------------------------------------------------
(* The extraction queue.                                                   *)

QueueRow0 ==
    [status : {"none", "pending", "processing", "dead", "done"},
     transcript : Transcripts \cup {None}, attempts : 0..MaxAttempts,
     lease : Workers \cup {None}, lapsed : BOOLEAN, deferred : BOOLEAN,
     old : BOOLEAN, error : {"none", "error", "quota"},
     proposals : Extractions \cup {None}]

Worker0 ==
    [pc : {"gone", "idle", "claimed", "extracted", "saved", "inserting", "storing",
           "blind", "inserted", "failing"},
     row : 0..MaxRows, facts : Seq(Texts), todo : Seq(Texts),
     error : {"none", "error", "quota"}]

(* The queue table: a row that can be claimed has attempts left, and one   *)
(* row per transcript can be.                                              *)
TableFits ==
    /\ rows \in [Rows -> QueueRow0]
    /\ \A r \in Rows : ActiveRow(r) => rows[r].attempts < MaxAttempts
    /\ OneActiveRow

(* What processes remember: a worker that has not been started yet is      *)
(* gone, and so is one whose store was closed, which only happens to the   *)
(* workers of earlier generations.                                         *)
ProcessesFit ==
    /\ generation \in [Processes -> 0..MaxGeneration]
    /\ serving \subseteq Processes /\ closed \subseteq Workers
    /\ memory \in [Processes -> [Rows -> 0..MaxAttempts]]
    /\ \A w \in Workers :
         generation[w[1]] < w[2] \/ (generation[w[1]] = w[2] /\ w[1] \notin serving)
           => At(w, "gone")
    /\ \A w \in closed : w[2] < generation[w[1]] /\ At(w, "gone")

Working(w) == workers[w].pc \notin {"gone", "idle"}

(* A worker works on a row that exists, with an answer of the model and,   *)
(* from saving it on, with the one that is saved.                          *)
AnswerFits(w) ==
    /\ Working(w) => workers[w].row \in Rows /\ rows[workers[w].row].status # "none"
    /\ At(w, "extracted") => /\ workers[w].facts \in Extractions
                             /\ Holds(w) => rows[workers[w].row].proposals = None
    /\ workers[w].pc \in {"saved", "inserting", "storing", "blind", "inserted"} =>
         /\ workers[w].facts \in Extractions
         /\ workers[w].facts = rows[workers[w].row].proposals

(* It has not been given up on by its own process before.                  *)
CountFits(w) == Working(w) /\ ~Stale(w) => memory[w[1]][workers[w].row] < MaxAttempts

(* What a search under the lock would have found. *)
Unrestated(x) == \A y \in checked : texts[y] = "active" => <<x, y>> \notin Near

Locked == {"inserting", "storing", "blind"}

(* It inserts under the lock, where nothing that was itself searched for   *)
(* comes to restate what was screened; and of what it has gone through     *)
(* nothing is lost unless it failed.                                       *)
InsertionFits(w) ==
    /\ workers[w].pc \in Locked <=> writer = w
    /\ At(w, "storing") \/ At(w, "blind") => workers[w].todo # <<>>
    /\ At(w, "storing") => Unrestated(Head(workers[w].todo))
    /\ workers[w].pc \in Locked /\ workers[w].error = "none" =>
         \A x \in ToSet(workers[w].facts) : Accounted(x) \/ x \in ToSet(workers[w].todo)
    /\ At(w, "inserted") => \A x \in ToSet(workers[w].facts) : Accounted(x)

TextsFit ==
    /\ texts \in [Texts -> {"absent", "active", "retired"}] /\ removed \subseteq Texts
    /\ checked \subseteq {x \in Texts : texts[x] # "absent"}
    /\ writer \in Workers \cup {None}
    /\ NoRestatedFacts

QueueIInv ==
    /\ TableFits /\ ProcessesFit /\ TextsFit
    /\ workers \in [Workers -> Worker0]
    /\ \A w \in Workers : AnswerFits(w) /\ CountFits(w) /\ InsertionFits(w)
    /\ chances \in [QueueEvents -> Nat]

-----------------------------------------------------------------------------
(* Sequences of proposals.                                                 *)

LEMMA HeadOrTail ==
    ASSUME NEW s \in Seq(Texts), s # <<>>, NEW x \in ToSet(s)
    PROVE  x = Head(s) \/ x \in ToSet(Tail(s))
  <1>1. PICK i \in 1..Len(s) : x = s[i]
    BY DEF ToSet
  <1>2. CASE i = 1
    BY <1>1, <1>2
  <1>3. CASE i # 1
    <2>1. i - 1 \in 1..Len(Tail(s)) /\ Tail(s)[i - 1] = s[i]
      BY <1>1, <1>3
    <2>2. i - 1 \in DOMAIN Tail(s)
      BY <2>1
    <2> QED
      BY <1>1, <2>1, <2>2 DEF ToSet
  <1> QED
    BY <1>2, <1>3

LEMMA NothingInEmpty == ToSet(<<>>) = {}
  BY DEF ToSet

LEMMA InTexts ==
    ASSUME NEW s \in Seq(Texts), NEW x \in ToSet(s)
    PROVE  x \in Texts
  BY DEF ToSet

-----------------------------------------------------------------------------
(* What a step keeps.                                                      *)

(* The rows that exist go on existing, and proposals saved stay saved. *)
RowsKept ==
    \A r \in Rows : rows[r].status # "none" =>
        /\ rows'[r].status # "none"
        /\ rows[r].proposals # None => rows'[r].proposals = rows[r].proposals

(* What a worker holds it held before, with the proposals it has. *)
HeldKept(w) ==
    \A r \in Rows : rows'[r].status = "processing" /\ rows'[r].lease = w =>
        /\ rows[r].status = "processing" /\ rows[r].lease = w
        /\ rows'[r].proposals = rows[r].proposals

(* What is accounted for stays so. *)
TextsKept == \A y \in Texts : texts[y] # "absent" \/ y \in removed =>
                              texts'[y] # "absent" \/ y \in removed'

(* Nothing comes into force as searched for. *)
CheckedKept == \A y \in checked' : texts'[y] = "active" => y \in checked /\ texts[y] = "active"

LEMMA AnswerKept ==
    ASSUME LegacyQueueAssumption, NEW w \in Workers, AnswerFits(w), RowsKept,
           HeldKept(w), workers'[w] = workers[w]
    PROVE  AnswerFits(w)'
  BY DEF AnswerFits, RowsKept, HeldKept, Holds, At, Working, LegacyQueueAssumption

LEMMA AccountedKept ==
    ASSUME TextsKept, NEW x, Accounted(x)
    PROVE  Accounted(x)'
  BY DEF TextsKept, Accounted

LEMMA InsertionKept ==
    ASSUME NEW w \in Workers, InsertionFits(w), TextsKept, workers'[w] = workers[w],
           writer' = w <=> writer = w,
           At(w, "storing") => CheckedKept
    PROVE  InsertionFits(w)'
  <1>1. \A x : Accounted(x) => Accounted(x)'
    BY AccountedKept
  <1>2. At(w, "storing") /\ Unrestated(Head(workers[w].todo)) =>
          Unrestated(Head(workers[w].todo))'
    BY DEF Unrestated, CheckedKept
  <1> QED
    BY <1>1, <1>2 DEF InsertionFits, At, Locked

LEMMA SameTable ==
    ASSUME TableFits, UNCHANGED rows
    PROVE  TableFits' /\ RowsKept /\ \A w \in Workers : HeldKept(w)
  BY DEF TableFits, OneActiveRow, ActiveRow, RowsKept, HeldKept

LEMMA SameTexts ==
    ASSUME TextsFit, UNCHANGED <<texts, checked, removed, writer>>
    PROVE  TextsFit' /\ TextsKept /\ CheckedKept
  BY DEF TextsFit, NoRestatedFacts, TextsKept, CheckedKept

LEMMA HappensFits ==
    ASSUME chances \in [QueueEvents -> Nat], NEW kind \in QueueEvents, Happens(kind)
    PROVE  chances' \in [QueueEvents -> Nat]
  BY DEF Happens

(* The workers of one generation and their processes stay as they are but  *)
(* for one worker, which has been started.                                 *)
LEMMA SameProcesses ==
    ASSUME ProcessesFit, UNCHANGED <<generation, serving, closed>>,
           NEW w \in Workers, ~At(w, "gone"),
           \A v \in Workers : v # w => workers'[v] = workers[v],
           memory' \in [Processes -> [Rows -> 0..MaxAttempts]]
    PROVE  ProcessesFit'
  BY DEF ProcessesFit, At

LEMMA CountKept ==
    ASSUME NEW w \in Workers, CountFits(w), workers'[w] = workers[w],
           generation' = generation, Stale(w) \/ memory'[w[1]] = memory[w[1]]
    PROVE  CountFits(w)'
  BY DEF CountFits, Working, Stale

(* One row changes: an active row was active before. *)
LEMMA RowChanges ==
    ASSUME TableFits, NEW r \in Rows, NEW new \in QueueRow0, rows' = [rows EXCEPT ![r] = new],
           new.transcript = rows[r].transcript,
           new.status \in {"pending", "processing"} => ActiveRow(r) /\ new.attempts < MaxAttempts,
           rows[r].status # "none" => new.status # "none",
           rows[r].proposals # None => new.proposals = rows[r].proposals
    PROVE  /\ TableFits' /\ RowsKept
           /\ \A w \in Workers :
                \/ ~(new.status = "processing" /\ new.lease = w)
                \/ /\ rows[r].status = "processing" /\ rows[r].lease = w
                   /\ new.proposals = rows[r].proposals
                => HeldKept(w)
  <1>1. /\ rows' \in [Rows -> QueueRow0] /\ rows'[r] = new
        /\ \A s \in Rows : s # r => rows'[s] = rows[s]
    BY DEF TableFits
  <1>2. \A s \in Rows : /\ ActiveRow(s)' => ActiveRow(s) /\ rows'[s].attempts < MaxAttempts
                        /\ rows'[s].transcript = rows[s].transcript
    BY <1>1 DEF ActiveRow, TableFits
  <1>3. OneActiveRow'
    BY <1>2 DEF TableFits, OneActiveRow
  <1> QED
    BY <1>1, <1>2, <1>3 DEF TableFits, RowsKept, HeldKept

(* One worker steps, and what it shares with the others stays in order. *)
LEMMA WorkerSteps ==
    ASSUME QueueIInv, NEW w \in Workers, ~At(w, "gone"), NEW new \in Worker0,
           workers' = [workers EXCEPT ![w] = new],
           TableFits', RowsKept, \A v \in Workers : v # w => HeldKept(v), TextsFit', TextsKept,
           UNCHANGED <<generation, serving, closed>>,
           memory' \in [Processes -> [Rows -> 0..MaxAttempts]],
           \A p \in Processes : p # w[1] => memory'[p] = memory[p],
           Stale(w) => memory' = memory,
           chances' \in [QueueEvents -> Nat],
           \A v \in Workers : v # w => (writer' = v <=> writer = v),
           UNCHANGED <<texts, checked>> \/ writer = w,
           AnswerFits(w)', CountFits(w)', InsertionFits(w)'
    PROVE  QueueIInv'
  <1>1. /\ workers' \in [Workers -> Worker0]
        /\ \A v \in Workers : v # w => workers'[v] = workers[v]
    BY DEF QueueIInv
  <1>2. ProcessesFit'
    BY <1>1, SameProcesses DEF QueueIInv
  <1>3. ASSUME NEW v \in Workers, v # w
        PROVE  AnswerFits(v)' /\ CountFits(v)' /\ InsertionFits(v)'
    <2>1. AnswerFits(v)'
      BY <1>1, <1>3, AnswerKept, LegacyQueueAssumption DEF QueueIInv
    <2>2. Stale(v) \/ memory'[v[1]] = memory[v[1]]
      <3>1. CASE v[1] = w[1] /\ ~Stale(w)
        <4>1. v[2] # w[2]
          BY <1>3, <3>1 DEF Workers
        <4> QED
          BY <3>1, <4>1 DEF Stale
      <3>2. CASE v[1] # w[1]
        BY <3>2 DEF Workers
      <3> QED
        BY <3>1, <3>2
    <2>3. CountFits(v)'
      BY <1>1, <1>3, <2>2, CountKept DEF QueueIInv
    <2>4. At(v, "storing") => CheckedKept
      BY <1>3 DEF QueueIInv, InsertionFits, At, Locked, CheckedKept
    <2>5. InsertionFits(v)'
      BY <1>1, <1>3, <2>4, InsertionKept DEF QueueIInv
    <2> QED
      BY <2>1, <2>3, <2>5
  <1>4. \A v \in Workers : AnswerFits(v)' /\ CountFits(v)' /\ InsertionFits(v)'
    BY <1>3
  <1> QED
    BY <1>1, <1>2, <1>4 DEF QueueIInv

LEMMA IdleFits ==
    /\ Gone \in Worker0 /\ Gone.pc = "gone"
    /\ Idle \in Worker0 /\ Idle.pc = "idle" /\ Idle.error = "none"
  <1>1. Gone \in Worker0 /\ Gone.pc = "gone" /\ Gone.error = "none"
    BY LegacyQueueAssumption DEF Gone, Worker0
  <1> QED
    BY <1>1 DEF Idle, Worker0

(* A worker that comes to rest. *)
LEMMA RestFits ==
    ASSUME QueueIInv, NEW w \in Workers, workers' = [workers EXCEPT ![w] = Idle] \/ Leave(w),
           writer # w, writer' = writer
    PROVE  AnswerFits(w)' /\ CountFits(w)' /\ InsertionFits(w)'
  <1>1. workers'[w] \in {Idle, Gone}
    BY DEF QueueIInv, Leave
  <1>2. workers'[w].pc \in {"idle", "gone"}
    BY <1>1, IdleFits
  <1> QED
    BY <1>2 DEF AnswerFits, CountFits, InsertionFits, Working, At, Locked

LEMMA ClaimStep ==
    ASSUME QueueIInv, NEW w \in Workers, Claim(w)
    PROVE  QueueIInv'
  <1> USE DEF Claim
  <1>1. PICK r \in Due(w) :
          /\ rows' = [rows EXCEPT ![r].status = "processing", ![r].lease = w, ![r].lapsed = FALSE]
          /\ workers' = [workers EXCEPT ![w] = [Idle EXCEPT !.pc = "claimed", !.row = r]]
    OBVIOUS
  <1>2. /\ r \in Rows /\ rows[r].attempts < MaxAttempts /\ memory[w[1]][r] < MaxAttempts
        /\ ActiveRow(r)
    BY DEF Due, ActiveRow
  <1> DEFINE row == [rows[r] EXCEPT !.status = "processing", !.lease = w, !.lapsed = FALSE]
             new == [Idle EXCEPT !.pc = "claimed", !.row = r]
  <1>3. rows[r] \in QueueRow0 /\ rows \in [Rows -> QueueRow0]
    BY <1>2 DEF QueueIInv, TableFits
  <1>4. /\ row \in QueueRow0 /\ row.transcript = rows[r].transcript /\ row.status = "processing"
        /\ row.lease = w
        /\ row.attempts = rows[r].attempts /\ row.proposals = rows[r].proposals
    BY <1>3 DEF QueueRow0
  <1>5. rows' = [rows EXCEPT ![r] = row]
    BY <1>1, <1>2, <1>3
  <1>6. TableFits' /\ RowsKept /\ \A v \in Workers : v # w => HeldKept(v)
    <2> HIDE DEF row
    <2> QED
      BY <1>2, <1>4, <1>5, RowChanges DEF QueueIInv
  <1>7. new \in Worker0 /\ new.pc = "claimed" /\ new.row = r
    <2>1. Idle \in Worker0 /\ r \in 0..MaxRows
      BY <1>2, IdleFits, LegacyQueueAssumption DEF Rows
    <2> QED
      BY <2>1 DEF Worker0
  <1>8. TextsFit' /\ TextsKept
    BY SameTexts DEF QueueIInv
  <1>9. workers'[w] = new /\ workers' = [workers EXCEPT ![w] = new]
    BY <1>1 DEF QueueIInv
  <1>10. rows'[r].status = "processing"
    BY <1>2, <1>3, <1>4, <1>5
  <1> HIDE DEF new
  <1>11. AnswerFits(w)'
    BY <1>2, <1>7, <1>9, <1>10 DEF AnswerFits, Working, At
  <1>12. CountFits(w)'
    BY <1>2, <1>7, <1>9 DEF CountFits, Working, Stale
  <1>13. InsertionFits(w)'
    BY <1>7, <1>9 DEF QueueIInv, InsertionFits, At, Locked
  <1>14. memory \in [Processes -> [Rows -> 0..MaxAttempts]] /\ chances \in [QueueEvents -> Nat]
    BY DEF QueueIInv, ProcessesFit
  <1>15. ~At(w, "gone")
    BY DEF At
  <1> QED
    BY <1>6, <1>7, <1>8, <1>9, <1>11, <1>12, <1>13, <1>14, <1>15, WorkerSteps

LEMMA ExtractStep ==
    ASSUME QueueIInv, NEW w \in Workers, Extract(w)
    PROVE  QueueIInv'
  <1> USE DEF Extract
  <1>1. /\ workers \in [Workers -> Worker0] /\ At(w, "claimed") /\ ~At(w, "gone")
        /\ workers[w] \in Worker0
        /\ workers[w].row \in Rows /\ rows[workers[w].row].status # "none"
        /\ writer # w
    BY DEF QueueIInv, At, AnswerFits, InsertionFits, Working, Locked
  <1>2. rows[workers[w].row].proposals \in Extractions \cup {None}
    BY <1>1 DEF QueueIInv, TableFits, QueueRow0
  <1>3. PICK new \in Worker0 :
          /\ workers' = [workers EXCEPT ![w] = new] /\ new.row = workers[w].row
          /\ \/ /\ new.pc = "saved" /\ new.facts = rows[workers[w].row].proposals
                /\ new.facts \in Extractions
             \/ /\ new.pc = "extracted" /\ new.facts \in Extractions
                /\ rows[workers[w].row].proposals = None
             \/ new.pc = "failing"
    <2>1. CASE /\ rows[workers[w].row].proposals # None
               /\ workers' = [workers EXCEPT ![w].pc = "saved",
                                             ![w].facts = rows[workers[w].row].proposals]
      <3> DEFINE new == [workers[w] EXCEPT !.pc = "saved", !.facts = rows[workers[w].row].proposals]
      <3>1. rows[workers[w].row].proposals \in Extractions
        BY <1>2, <2>1
      <3>2. rows[workers[w].row].proposals \in Seq(Texts)
        BY <3>1, LegacyQueueAssumption
      <3>6. [workers[w] EXCEPT !.pc = "saved"] \in Worker0
        BY <1>1 DEF Worker0
      <3>7. \A work \in Worker0, f \in Seq(Texts) : [work EXCEPT !.facts = f] \in Worker0
        BY DEF Worker0
      <3>5. new \in Worker0
        BY <3>2, <3>6, <3>7
      <3>3. new \in Worker0 /\ workers' = [workers EXCEPT ![w] = new]
        BY <1>1, <2>1, <3>2, <3>5
      <3>4. new.pc = "saved" /\ new.facts = rows[workers[w].row].proposals
            /\ new.row = workers[w].row
        BY <1>1 DEF Worker0
      <3> QED
        BY <3>1, <3>3, <3>4
    <2>2. CASE /\ rows[workers[w].row].proposals = None
               /\ \E answer \in Extractions :
                 workers' = [workers EXCEPT ![w].pc = "extracted", ![w].facts = answer]
      <3>1. PICK answer \in Extractions :
              workers' = [workers EXCEPT ![w].pc = "extracted", ![w].facts = answer]
        BY <2>2
      <3> DEFINE new == [workers[w] EXCEPT !.pc = "extracted", !.facts = answer]
      <3>2. answer \in Seq(Texts)
        BY LegacyQueueAssumption
      <3>6. [workers[w] EXCEPT !.pc = "extracted"] \in Worker0
        BY <1>1 DEF Worker0
      <3>7. \A work \in Worker0, f \in Seq(Texts) : [work EXCEPT !.facts = f] \in Worker0
        BY DEF Worker0
      <3>5. new \in Worker0
        BY <3>2, <3>6, <3>7
      <3>3. new \in Worker0 /\ workers' = [workers EXCEPT ![w] = new]
        BY <1>1, <3>1, <3>2, <3>5
      <3>4. new.pc = "extracted" /\ new.facts = answer /\ new.row = workers[w].row
        BY <1>1 DEF Worker0
      <3> QED
        BY <2>2, <3>3, <3>4
    <2>3. CASE \E f \in {"error"} \cup (IF chances["quota"] > 0 THEN {"quota"} ELSE {}) :
                 workers' = [workers EXCEPT ![w].pc = "failing", ![w].error = f]
      <3>1. PICK f \in {"error", "quota"} :
              workers' = [workers EXCEPT ![w].pc = "failing", ![w].error = f]
        BY <2>3
      <3> DEFINE new == [workers[w] EXCEPT !.pc = "failing", !.error = f]
      <3>5. new \in Worker0
        BY <1>1, <3>1 DEF Worker0
      <3>3. new \in Worker0 /\ workers' = [workers EXCEPT ![w] = new]
        BY <1>1, <3>1, <3>5
      <3>4. new.pc = "failing" /\ new.row = workers[w].row
        BY <1>1 DEF Worker0
      <3> QED
        BY <3>3, <3>4
    <2> QED
      BY <2>1, <2>2, <2>3
  <1>4. /\ TableFits' /\ RowsKept /\ \A v \in Workers : HeldKept(v)
        /\ TextsFit' /\ TextsKept
    BY SameTable, SameTexts DEF QueueIInv
  <1>5. workers'[w] = new
    BY <1>1, <1>3
  <1>6. AnswerFits(w)'
    BY <1>1, <1>2, <1>3, <1>5, LegacyQueueAssumption DEF AnswerFits, Working, At, Holds
  <1>7. CountFits(w)'
    BY <1>1, <1>3, <1>5 DEF QueueIInv, CountFits, Working, Stale, At
  <1>8. InsertionFits(w)'
    BY <1>1, <1>3, <1>5 DEF InsertionFits, At, Locked
  <1>9. memory \in [Processes -> [Rows -> 0..MaxAttempts]] /\ chances \in [QueueEvents -> Nat]
    BY DEF QueueIInv, ProcessesFit
  <1> QED
    BY <1>1, <1>3, <1>4, <1>6, <1>7, <1>8, <1>9, WorkerSteps

LEMMA SaveProposalsStep ==
    ASSUME QueueIInv, NEW w \in Workers, SaveProposals(w)
    PROVE  QueueIInv'
  <1> USE DEF SaveProposals
  <1> DEFINE r == workers[w].row
  <1>1. /\ workers \in [Workers -> Worker0] /\ At(w, "extracted") /\ ~At(w, "gone")
        /\ workers[w] \in Worker0
        /\ r \in Rows /\ rows[r].status # "none" /\ writer # w /\ workers[w].facts \in Extractions
        /\ memory \in [Processes -> [Rows -> 0..MaxAttempts]] /\ chances \in [QueueEvents -> Nat]
    BY DEF QueueIInv, At, AnswerFits, InsertionFits, Working, ProcessesFit, Locked
  <1>2. TextsFit' /\ TextsKept
    BY SameTexts DEF QueueIInv
  <1>3. CASE Holds(w)
    <2> DEFINE row == [rows[r] EXCEPT !.proposals = IF @ = None THEN workers[w].facts ELSE @]
               new == [workers[w] EXCEPT !.pc = "saved"]
    <2>1. rows[r] \in QueueRow0 /\ rows \in [Rows -> QueueRow0]
      BY <1>1 DEF QueueIInv, TableFits
    <2>2. /\ row \in QueueRow0 /\ row.transcript = rows[r].transcript
          /\ row.status = rows[r].status /\ row.attempts = rows[r].attempts
          /\ row.lease = rows[r].lease
          /\ row.proposals = IF rows[r].proposals = None THEN workers[w].facts
                             ELSE rows[r].proposals
      BY <1>1, <2>1 DEF QueueRow0
    <2>3. rows' = [rows EXCEPT ![r] = row]
      BY <1>3, <2>1
    <2>4. /\ rows[r].status = "processing" /\ rows[r].attempts < MaxAttempts /\ ActiveRow(r)
          /\ rows[r].lease = w /\ rows[r].proposals = None
      BY <1>1, <1>3 DEF Holds, QueueIInv, TableFits, ActiveRow, AnswerFits
    <2>5. TableFits' /\ RowsKept /\ \A v \in Workers : v # w => HeldKept(v)
      <3> HIDE DEF row, r
      <3> QED
        BY <1>1, <2>2, <2>3, <2>4, RowChanges DEF QueueIInv
    <2>11. /\ new \in Worker0 /\ new.pc = "saved"
           /\ new.row = r /\ new.facts = workers[w].facts
      BY <1>1 DEF Worker0
    <2>6. /\ new \in Worker0 /\ workers' = [workers EXCEPT ![w] = new] /\ new.pc = "saved"
          /\ new.row = r /\ new.facts = workers[w].facts
      BY <1>1, <1>3, <2>11 DEF Go
    <2>7. workers'[w] = new
      BY <1>1, <2>6
    <2> HIDE DEF new
    <2>8. AnswerFits(w)'
      BY <1>1, <2>1, <2>2, <2>3, <2>4, <2>6, <2>7 DEF AnswerFits, Working, At
    <2>9. CountFits(w)'
      BY <1>1, <2>6, <2>7 DEF QueueIInv, CountFits, Working, Stale, At
    <2>10. InsertionFits(w)'
      BY <1>1, <2>6, <2>7 DEF InsertionFits, At, Locked
    <2> QED
      BY <1>1, <1>2, <2>5, <2>6, <2>8, <2>9, <2>10, WorkerSteps
  <1>4. CASE ~Holds(w)
    <2> DEFINE new == [workers[w] EXCEPT !.pc = "failing", !.error = "error"]
    <2>5. TableFits' /\ RowsKept /\ \A v \in Workers : v # w => HeldKept(v)
      BY <1>4, SameTable DEF QueueIInv
    <2>12. [workers[w] EXCEPT !.pc = "failing"] \in Worker0
      BY <1>1 DEF Worker0
    <2>13. \A work \in Worker0 : [work EXCEPT !.error = "error"] \in Worker0
      BY DEF Worker0
    <2>11. /\ new \in Worker0 /\ new.pc = "failing" /\ new.row = r
      BY <1>1, <2>12, <2>13 DEF Worker0
    <2>6. /\ new \in Worker0 /\ workers' = [workers EXCEPT ![w] = new] /\ new.pc = "failing"
          /\ new.row = r
      BY <1>1, <1>4, <2>11
    <2>7. workers'[w] = new
      BY <1>1, <2>6
    <2> HIDE DEF new
    <2>8. AnswerFits(w)'
      BY <1>1, <1>4, <2>6, <2>7 DEF AnswerFits, Working, At
    <2>9. CountFits(w)'
      BY <1>1, <2>6, <2>7 DEF QueueIInv, CountFits, Working, Stale, At
    <2>10. InsertionFits(w)'
      BY <1>1, <2>6, <2>7 DEF InsertionFits, At, Locked
    <2> QED
      BY <1>1, <1>2, <2>5, <2>6, <2>8, <2>9, <2>10, WorkerSteps
  <1> QED
    BY <1>3, <1>4

(* What is the same whatever a worker that steps does. *)
LEMMA WorkerFacts ==
    ASSUME QueueIInv, NEW w \in Workers
    PROVE  /\ workers \in [Workers -> Worker0] /\ workers[w] \in Worker0
           /\ AnswerFits(w) /\ CountFits(w) /\ InsertionFits(w)
           /\ memory \in [Processes -> [Rows -> 0..MaxAttempts]]
           /\ chances \in [QueueEvents -> Nat]
           /\ \A v \in Workers : v # w => v # writer \/ w # writer
  BY DEF QueueIInv, ProcessesFit

LEMMA LeaveStep ==
    ASSUME QueueIInv, NEW w \in Workers, ~At(w, "gone"), writer # w,
           workers' = [workers EXCEPT ![w] = Idle] \/ Leave(w),
           TableFits', RowsKept, \A v \in Workers : v # w => HeldKept(v),
           UNCHANGED <<texts, checked, removed, writer, generation, serving, closed>>,
           memory' \in [Processes -> [Rows -> 0..MaxAttempts]],
           \A p \in Processes : p # w[1] => memory'[p] = memory[p],
           Stale(w) => memory' = memory,
           chances' \in [QueueEvents -> Nat]
    PROVE  QueueIInv'
  <1>1. AnswerFits(w)' /\ CountFits(w)' /\ InsertionFits(w)'
    BY RestFits
  <1>2. TextsFit' /\ TextsKept
    BY SameTexts DEF QueueIInv
  <1>3. PICK new \in {Idle, Gone} : workers' = [workers EXCEPT ![w] = new]
    BY DEF Leave
  <1>4. new \in Worker0
    BY <1>3, IdleFits
  <1> QED
    BY <1>1, <1>2, <1>3, <1>4, WorkerSteps

LEMMA StopStep ==
    ASSUME QueueIInv, NEW w \in Workers, Stop(w)
    PROVE  QueueIInv'
  <1>1. ~At(w, "gone") /\ writer # w
    BY WorkerFacts DEF Stop, At, InsertionFits, Locked
  <1>2. TableFits' /\ RowsKept /\ \A v \in Workers : HeldKept(v)
    BY SameTable DEF QueueIInv, Stop
  <1> QED
    BY <1>1, <1>2, WorkerFacts, LeaveStep DEF Stop

LEMMA EnterStep ==
    ASSUME QueueIInv, NEW w \in Workers, Enter(w)
    PROVE  QueueIInv'
  <1> USE DEF Enter
  <1>1. /\ At(w, "saved") /\ ~At(w, "gone") /\ writer # w /\ workers[w] \in Worker0
        /\ workers \in [Workers -> Worker0]
        /\ memory \in [Processes -> [Rows -> 0..MaxAttempts]] /\ chances \in [QueueEvents -> Nat]
        /\ AnswerFits(w) /\ CountFits(w)
    BY WorkerFacts DEF At, InsertionFits, Locked
  <1>2. TableFits' /\ RowsKept /\ \A v \in Workers : HeldKept(v)
    BY SameTable DEF QueueIInv
  <1>3. CASE Stale(w) /\ Leave(w) /\ UNCHANGED writer
    BY <1>1, <1>2, <1>3, LeaveStep
  <1>4. CASE workers[w].facts = <<>> /\ Go(w, "inserted") /\ UNCHANGED writer
    <2> DEFINE new == [workers[w] EXCEPT !.pc = "inserted"]
    <2>1. /\ new \in Worker0 /\ new.pc = "inserted" /\ new.row = workers[w].row
          /\ new.facts = workers[w].facts
      BY <1>1 DEF Worker0
    <2>2. workers' = [workers EXCEPT ![w] = new] /\ workers'[w] = new
      BY <1>1, <1>4 DEF Go
    <2> HIDE DEF new
    <2>3. AnswerFits(w)'
      BY <1>1, <2>1, <2>2 DEF AnswerFits, Working, At
    <2>4. CountFits(w)'
      BY <1>1, <2>1, <2>2 DEF CountFits, Working, Stale, At
    <2>5. InsertionFits(w)'
      BY <1>1, <1>4, <2>1, <2>2, NothingInEmpty DEF InsertionFits, At, Locked
    <2>6. TextsFit' /\ TextsKept
      BY <1>4, SameTexts DEF QueueIInv
    <2> QED
      BY <1>1, <1>2, <1>4, <2>1, <2>2, <2>3, <2>4, <2>5, <2>6, WorkerSteps
  <1>5. CASE /\ writer = None /\ writer' = w
             /\ workers' = [workers EXCEPT ![w].pc = "inserting", ![w].todo = workers[w].facts]
    <2> DEFINE new == [workers[w] EXCEPT !.pc = "inserting", !.todo = workers[w].facts]
    <2>1. [workers[w] EXCEPT !.pc = "inserting"] \in Worker0 /\ workers[w].facts \in Seq(Texts)
      BY <1>1 DEF Worker0
    <2>2. \A work \in Worker0, f \in Seq(Texts) : [work EXCEPT !.todo = f] \in Worker0
      BY DEF Worker0
    <2>3. new \in Worker0
      BY <2>1, <2>2
    <2>4. /\ new.pc = "inserting" /\ new.row = workers[w].row
          /\ new.facts = workers[w].facts /\ new.todo = workers[w].facts
      BY <1>1 DEF Worker0
    <2>5. workers' = [workers EXCEPT ![w] = new] /\ workers'[w] = new
      BY <1>1, <1>5
    <2> HIDE DEF new
    <2>6. AnswerFits(w)'
      BY <1>1, <2>4, <2>5 DEF AnswerFits, Working, At
    <2>7. CountFits(w)'
      BY <1>1, <2>4, <2>5 DEF CountFits, Working, Stale, At
    <2>8. InsertionFits(w)'
      BY <1>5, <2>4, <2>5 DEF InsertionFits, At, Locked
    <2>9. TextsFit' /\ TextsKept
      BY <1>5 DEF QueueIInv, TextsFit, NoRestatedFacts, TextsKept
    <2>10. \A v \in Workers : v # w => (writer' = v <=> writer = v)
      BY <1>5, LegacyQueueAssumption
    <2> QED
      BY <1>1, <1>2, <1>5, <2>3, <2>5, <2>6, <2>7, <2>8, <2>9, <2>10, WorkerSteps
  <1> QED
    BY <1>3, <1>4, <1>5

LEMMA ScreenStep ==
    ASSUME QueueIInv, NEW w \in Workers, Screen(w)
    PROVE  QueueIInv'
  <1> USE DEF Screen
  <1>1. /\ At(w, "inserting") /\ ~At(w, "gone") /\ writer = w /\ workers[w] \in Worker0
        /\ workers \in [Workers -> Worker0]
        /\ memory \in [Processes -> [Rows -> 0..MaxAttempts]] /\ chances \in [QueueEvents -> Nat]
        /\ AnswerFits(w) /\ CountFits(w) /\ InsertionFits(w)
    BY WorkerFacts DEF At, InsertionFits, Locked
  <1>2. /\ TableFits' /\ RowsKept /\ \A v \in Workers : HeldKept(v)
        /\ TextsFit' /\ TextsKept
    BY SameTable, SameTexts DEF QueueIInv
  <1> DEFINE x == Head(workers[w].todo)
  <1>3. /\ workers[w].todo \in Seq(Texts) /\ workers[w].todo # <<>> /\ x \in Texts
        /\ Tail(workers[w].todo) \in Seq(Texts)
    BY <1>1 DEF Worker0
  <1>4. \A y : Accounted(y)' <=> Accounted(y)
    BY DEF Accounted
  <1>5. PICK searches \in SUBSET Searches :
          /\ Unsearched(searches)
          /\ workers' = IF Skipped(x, searches)
                        THEN [workers EXCEPT ![w].todo = Tail(@)]
                        ELSE [workers EXCEPT ![w].pc = IF "restated" \in searches
                                                       THEN "storing" ELSE "blind"]
    OBVIOUS
  <1>6. chances' \in [QueueEvents -> Nat]
    BY <1>1, <1>5, HappensFits DEF Unsearched, QueueEvents
  <1>7. CASE Skipped(x, searches)
    <2> DEFINE new == [workers[w] EXCEPT !.todo = Tail(workers[w].todo)]
    <2>1. /\ new \in Worker0 /\ new.pc = workers[w].pc /\ new.row = workers[w].row
          /\ new.facts = workers[w].facts /\ new.todo = Tail(workers[w].todo)
          /\ new.error = workers[w].error
      BY <1>1, <1>3 DEF Worker0
    <2>2. workers' = [workers EXCEPT ![w] = new] /\ workers'[w] = new
      BY <1>1, <1>5, <1>7
    <2> HIDE DEF new
    <2>3. AnswerFits(w)' /\ CountFits(w)'
      BY <1>1, <2>1, <2>2 DEF AnswerFits, CountFits, Working, Stale, At
    <2>4. Accounted(x)
      BY <1>3, <1>7 DEF Skipped, RestatedText, UpdateTargets, Accounted
    <2>5. \A y \in ToSet(workers[w].todo) : y = x \/ y \in ToSet(Tail(workers[w].todo))
      BY <1>3, HeadOrTail
    <2>6. InsertionFits(w)'
      BY <1>1, <1>4, <2>1, <2>2, <2>4, <2>5 DEF InsertionFits, At, Locked
    <2> QED
      BY <1>1, <1>2, <1>6, <2>1, <2>2, <2>3, <2>6, WorkerSteps
  <1>8. CASE ~Skipped(x, searches)
    <2> DEFINE pc == IF "restated" \in searches THEN "storing" ELSE "blind"
               new == [workers[w] EXCEPT !.pc = pc]
    <2>1. /\ new \in Worker0 /\ new.pc = pc /\ new.row = workers[w].row
          /\ new.facts = workers[w].facts /\ new.todo = workers[w].todo
          /\ new.error = workers[w].error
      BY <1>1, <1>3 DEF Worker0
    <2>2. workers' = [workers EXCEPT ![w] = new] /\ workers'[w] = new
      BY <1>1, <1>5, <1>8
    <2> HIDE DEF new
    <2>3. AnswerFits(w)' /\ CountFits(w)'
      BY <1>1, <2>1, <2>2 DEF AnswerFits, CountFits, Working, Stale, At
    <2>5. pc = "storing" => Unrestated(Head(workers[w].todo))'
      <3>1. Head(workers[w].todo)' = x
        BY <2>1, <2>2
      <3>2. pc = "storing" => ~RestatedText(x)
        BY <1>8 DEF Skipped
      <3> QED
        BY <3>1, <3>2 DEF Unrestated, RestatedText, QueueIInv, TextsFit
    <2>6. InsertionFits(w)'
      BY <1>1, <1>3, <1>4, <2>1, <2>2, <2>5 DEF InsertionFits, At, Locked
    <2> QED
      BY <1>1, <1>2, <1>6, <2>1, <2>2, <2>3, <2>6, WorkerSteps
  <1> QED
    BY <1>7, <1>8

LEMMA StoreFactStep ==
    ASSUME QueueIInv, NEW w \in Workers, StoreFact(w)
    PROVE  QueueIInv'
  <1> USE DEF StoreFact
  <1>1. /\ At(w, "storing") \/ At(w, "blind")
        /\ ~At(w, "gone") /\ writer = w /\ workers[w] \in Worker0
        /\ workers \in [Workers -> Worker0]
        /\ memory \in [Processes -> [Rows -> 0..MaxAttempts]] /\ chances \in [QueueEvents -> Nat]
        /\ AnswerFits(w) /\ CountFits(w) /\ InsertionFits(w)
    BY WorkerFacts DEF At, InsertionFits, Locked
  <1>2. TableFits' /\ RowsKept /\ \A v \in Workers : HeldKept(v)
    BY SameTable DEF QueueIInv
  <1> DEFINE x == Head(workers[w].todo)
             next == [workers[w] EXCEPT !.pc = "inserting", !.todo = Tail(@)]
             failed == [next EXCEPT !.error = "error"]
  <1>3. /\ workers[w].todo \in Seq(Texts) /\ workers[w].todo # <<>> /\ x \in Texts
        /\ Tail(workers[w].todo) \in Seq(Texts)
        /\ At(w, "storing") => Unrestated(x)
    BY <1>1 DEF Worker0, InsertionFits, Locked
  <1>4. next \in Worker0
    <2>1. [workers[w] EXCEPT !.pc = "inserting"] \in Worker0
      BY <1>1 DEF Worker0
    <2>2. \A work \in Worker0, f \in Seq(Texts) : [work EXCEPT !.todo = f] \in Worker0
      BY DEF Worker0
    <2> QED
      BY <1>3, <2>1, <2>2
  <1>5. /\ next.pc = "inserting" /\ next.row = workers[w].row
        /\ next.facts = workers[w].facts /\ next.todo = Tail(workers[w].todo)
        /\ next.error = workers[w].error
    BY <1>1 DEF Worker0
  <1>6. \A y \in ToSet(workers[w].todo) : y = x \/ y \in ToSet(Tail(workers[w].todo))
    BY <1>3, HeadOrTail
  <1>7. CASE /\ texts' = [texts EXCEPT ![x] = IF @ = "absent" THEN "active" ELSE @]
             /\ checked' = IF At(w, "storing") /\ texts[x] = "absent"
                           THEN checked \cup {x} ELSE checked
             /\ workers' = [workers EXCEPT ![w] = next]
    <2> HIDE DEF next
    <2>1. workers'[w] = next
      BY <1>1, <1>7
    <2>2. /\ texts \in [Texts -> {"absent", "active", "retired"}]
          /\ checked \subseteq {y \in Texts : texts[y] # "absent"} /\ NoRestatedFacts
      BY DEF QueueIInv, TextsFit
    <2>3. texts' \in [Texts -> {"absent", "active", "retired"}] /\ texts'[x] # "absent"
          /\ (texts[x] # "absent" => texts'[x] = texts[x])
          /\ \A y \in Texts : y # x => texts'[y] = texts[y]
      BY <1>3, <1>7, <2>2
    <2>4. At(w, "storing") => \A y \in checked : texts[y] = "active" =>
                                <<x, y>> \notin Near /\ <<y, x>> \notin Near
      BY <1>3, <2>2, LegacyQueueAssumption DEF Unrestated
    <2>5. NoRestatedFacts'
      <3>1. SUFFICES ASSUME NEW y \in checked', NEW z \in checked', texts'[y] = "active",
                            texts'[z] = "active", y # z
                     PROVE  <<y, z>> \notin Near
        BY DEF NoRestatedFacts
      <3>2. CASE checked' = checked
        BY <2>2, <2>3, <3>1, <3>2 DEF NoRestatedFacts
      <3>3. CASE At(w, "storing") /\ texts[x] = "absent" /\ checked' = checked \cup {x}
        BY <1>3, <2>2, <2>3, <2>4, <3>1, <3>3 DEF NoRestatedFacts
      <3> QED
        BY <1>7, <3>2, <3>3
    <2>6. TextsFit' /\ TextsKept
      BY <1>3, <1>7, <2>2, <2>3, <2>5 DEF QueueIInv, TextsFit, TextsKept
    <2>7. AnswerFits(w)' /\ CountFits(w)'
      BY <1>1, <1>5, <2>1 DEF AnswerFits, CountFits, Working, Stale, At
    <2>8. \A y \in Texts : y = x => Accounted(y)'
      <3>1. SUFFICES ASSUME NEW y \in Texts, y = x PROVE Accounted(y)'
        OBVIOUS
      <3>2. texts'[y] # "absent"
        BY <2>3, <3>1
      <3> QED
        BY <3>1, <3>2 DEF Accounted
    <2>9. \A y : Accounted(y) => Accounted(y)'
      BY <2>6, AccountedKept
    <2>11. ASSUME workers[w].error = "none", NEW y \in ToSet(workers[w].facts)
           PROVE  Accounted(y)' \/ y \in ToSet(Tail(workers[w].todo))
      <3>1. Accounted(y) \/ y \in ToSet(workers[w].todo)
        BY <1>1, <2>11 DEF InsertionFits, At, Locked
      <3> HIDE DEF x
      <3> QED
        BY <1>3, <1>6, <2>8, <2>9, <3>1
    <2>10. InsertionFits(w)'
      BY <1>1, <1>5, <2>1, <2>11 DEF InsertionFits, At, Locked
    <2> QED
      BY <1>1, <1>2, <1>4, <1>7, <2>6, <2>7, <2>10, WorkerSteps
  <1>8. CASE workers' = [workers EXCEPT ![w] = failed] /\ UNCHANGED <<texts, checked>>
    <2>1. /\ failed \in Worker0 /\ failed.pc = "inserting" /\ failed.row = workers[w].row
          /\ failed.facts = workers[w].facts /\ failed.error = "error"
      <3> HIDE DEF next
      <3> QED
        BY <1>4, <1>5 DEF Worker0
    <2> HIDE DEF next, failed
    <2>2. workers'[w] = failed
      BY <1>1, <1>8
    <2>3. TextsFit' /\ TextsKept
      BY <1>8, SameTexts DEF QueueIInv
    <2>4. AnswerFits(w)' /\ CountFits(w)'
      BY <1>1, <2>1, <2>2 DEF AnswerFits, CountFits, Working, Stale, At
    <2>5. InsertionFits(w)'
      BY <1>1, <2>1, <2>2 DEF InsertionFits, At, Locked
    <2> QED
      BY <1>1, <1>2, <1>8, <2>1, <2>3, <2>4, <2>5, WorkerSteps
  <1> QED
    BY <1>7, <1>8

LEMMA LeaveLockStep ==
    ASSUME QueueIInv, NEW w \in Workers, LeaveLock(w)
    PROVE  QueueIInv'
  <1> USE DEF LeaveLock
  <1>1. /\ At(w, "inserting") /\ ~At(w, "gone") /\ writer = w /\ workers[w] \in Worker0
        /\ workers \in [Workers -> Worker0]
        /\ memory \in [Processes -> [Rows -> 0..MaxAttempts]] /\ chances \in [QueueEvents -> Nat]
        /\ AnswerFits(w) /\ CountFits(w) /\ InsertionFits(w)
    BY WorkerFacts DEF At, InsertionFits, Locked
  <1>2. TableFits' /\ RowsKept /\ \A v \in Workers : HeldKept(v)
    BY SameTable DEF QueueIInv
  <1> DEFINE new == [workers[w] EXCEPT !.pc = IF workers[w].error = "none" THEN "inserted"
                                              ELSE "failing"]
  <1>3. /\ new \in Worker0 /\ new.row = workers[w].row /\ new.facts = workers[w].facts
        /\ new.pc = IF workers[w].error = "none" THEN "inserted" ELSE "failing"
    BY <1>1 DEF Worker0
  <1>4. workers' = [workers EXCEPT ![w] = new] /\ workers'[w] = new
    BY <1>1 DEF Go
  <1> HIDE DEF new
  <1>5. AnswerFits(w)' /\ CountFits(w)'
    BY <1>1, <1>3, <1>4 DEF AnswerFits, CountFits, Working, Stale, At
  <1>6. TextsFit' /\ TextsKept
    BY DEF QueueIInv, TextsFit, NoRestatedFacts, TextsKept
  <1>7. \A y : Accounted(y) => Accounted(y)'
    BY <1>6, AccountedKept
  <1>8. InsertionFits(w)'
    BY <1>1, <1>3, <1>4, <1>7, NothingInEmpty, LegacyQueueAssumption DEF InsertionFits, At, Locked
  <1>9. \A v \in Workers : v # w => (writer' = v <=> writer = v)
    BY <1>1, LegacyQueueAssumption
  <1> QED
    BY <1>1, <1>2, <1>3, <1>4, <1>5, <1>6, <1>8, <1>9, WorkerSteps

LEMMA MarkDoneStep ==
    ASSUME QueueIInv, NEW w \in Workers, MarkDone(w)
    PROVE  QueueIInv'
  <1> USE DEF MarkDone
  <1> DEFINE r == workers[w].row
  <1>1. /\ ~At(w, "gone") /\ writer # w /\ r \in Rows /\ rows[r].status # "none"
        /\ memory \in [Processes -> [Rows -> 0..MaxAttempts]] /\ chances \in [QueueEvents -> Nat]
        /\ rows[r] \in QueueRow0 /\ rows \in [Rows -> QueueRow0] /\ w[1] \in Processes
    BY WorkerFacts DEF At, InsertionFits, AnswerFits, Working, QueueIInv, TableFits, Workers, Locked
  <1>2. CASE Stale(w)
    <2>1. TableFits' /\ RowsKept /\ \A v \in Workers : HeldKept(v)
      BY <1>2, SameTable DEF QueueIInv
    <2> QED
      BY <1>1, <1>2, <2>1, LeaveStep
  <1>3. CASE ~Stale(w)
    <2>1. TableFits' /\ RowsKept /\ \A v \in Workers : HeldKept(v)
      <3>1. CASE Holds(w)
        <4> DEFINE row == [rows[r] EXCEPT !.status = "done"]
        <4>1. /\ row \in QueueRow0 /\ row.transcript = rows[r].transcript /\ row.status = "done"
              /\ row.proposals = rows[r].proposals
          BY <1>1 DEF QueueRow0
        <4>2. rows' = [rows EXCEPT ![r] = row]
          BY <1>1, <1>3, <3>1
        <4> HIDE DEF row, r
        <4> QED
          BY <1>1, <4>1, <4>2, RowChanges DEF QueueIInv
      <3>2. CASE ~Holds(w)
        BY <1>3, <3>2, SameTable DEF QueueIInv
      <3> QED
        BY <3>1, <3>2
    <2>3. [memory[w[1]] EXCEPT ![r] = 0] \in [Rows -> 0..MaxAttempts]
      BY <1>1, LegacyQueueAssumption
    <2>4. memory' = [memory EXCEPT ![w[1]] = [memory[w[1]] EXCEPT ![r] = 0]]
      BY <1>3
    <2>2. /\ memory' \in [Processes -> [Rows -> 0..MaxAttempts]]
          /\ \A p \in Processes : p # w[1] => memory'[p] = memory[p]
      BY <1>1, <2>3, <2>4
    <2> QED
      BY <1>1, <1>3, <2>1, <2>2, LeaveStep
  <1> QED
    BY <1>2, <1>3

LEMMA FailedFits ==
    ASSUME NEW row \in QueueRow0, NEW e \in {"none", "error", "quota"},
           row.status = "processing", row.attempts < MaxAttempts
    PROVE  LET new == Failed(row, e)
           IN  /\ new \in QueueRow0 /\ new.transcript = row.transcript
               /\ new.status \in {"pending", "dead"} /\ new.proposals = row.proposals
               /\ new.status = "pending" => new.attempts < MaxAttempts
  <1> DEFINE mid == Unleased(row)
  <1>1. /\ mid \in QueueRow0 /\ mid.transcript = row.transcript /\ mid.attempts = row.attempts
        /\ mid.proposals = row.proposals
    BY DEF Unleased, QueueRow0
  <1> DEFINE more == row.attempts + 1
             dead == row.old \/ more >= MaxAttempts
  <1>2. more \in 0..MaxAttempts /\ row.old \in BOOLEAN
    BY LegacyQueueAssumption DEF QueueRow0
  <1>3. CASE e = "quota"
    <2> DEFINE new == [mid EXCEPT !.error = e, !.status = IF row.old THEN "dead" ELSE "pending",
                                  !.deferred = ~row.old]
    <2>1. Failed(row, e) = new
      BY <1>3 DEF Failed
    <2> HIDE DEF mid
    <2>2. /\ new \in QueueRow0 /\ new.transcript = mid.transcript
          /\ new.attempts = mid.attempts /\ new.proposals = mid.proposals
          /\ new.status \in {"pending", "dead"}
      BY <1>1, <1>2, ZenonT(60) DEF QueueRow0
    <2> HIDE DEF new
    <2> QED
      BY <1>1, <2>1, <2>2
  <1>4. CASE e # "quota"
    <2> DEFINE new == [mid EXCEPT !.error = e, !.attempts = more,
                                  !.status = IF dead THEN "dead" ELSE "pending"]
    <2>1. Failed(row, e) = new
      BY <1>4 DEF Failed
    <2> HIDE DEF mid, more
    <2>2. /\ new \in QueueRow0 /\ new.transcript = mid.transcript
          /\ new.attempts = more /\ new.proposals = mid.proposals
          /\ new.status = IF dead THEN "dead" ELSE "pending"
      BY <1>1, <1>2 DEF QueueRow0
    <2>3. ~dead => more < MaxAttempts
      BY <1>2, LegacyQueueAssumption
    <2> HIDE DEF new, dead
    <2> QED
      BY <1>1, <2>1, <2>2, <2>3
  <1> QED
    BY <1>3, <1>4

(* What a process remembers of a row it works on. *)
LEMMA RememberedFits ==
    ASSUME QueueIInv, NEW w \in Workers, Working(w), ~Stale(w)
    PROVE  /\ Remembered(w) \in [Processes -> [Rows -> 0..MaxAttempts]]
           /\ \A p \in Processes : p # w[1] => Remembered(w)[p] = memory[p]
  <1> DEFINE r == workers[w].row
             n == memory[w[1]][r] + 1
  <1>1. /\ memory \in [Processes -> [Rows -> 0..MaxAttempts]] /\ w[1] \in Processes
        /\ r \in Rows /\ memory[w[1]][r] < MaxAttempts
    BY WorkerFacts DEF CountFits, AnswerFits, Workers
  <1>2. n \in 0..MaxAttempts
    BY <1>1, LegacyQueueAssumption
  <1>3. Remembered(w) = [memory EXCEPT ![w[1]] = [memory[w[1]] EXCEPT ![r] = n]]
    BY DEF Remembered
  <1> HIDE DEF n, r
  <1>4. [memory[w[1]] EXCEPT ![r] = n] \in [Rows -> 0..MaxAttempts]
    BY <1>1, <1>2
  <1> QED
    BY <1>1, <1>3, <1>4

LEMMA MarkFailedStep ==
    ASSUME QueueIInv, NEW w \in Workers, MarkFailed(w)
    PROVE  QueueIInv'
  <1> USE DEF MarkFailed
  <1> DEFINE r == workers[w].row
  <1>1. /\ ~At(w, "gone") /\ Working(w) /\ writer # w /\ r \in Rows
        /\ memory \in [Processes -> [Rows -> 0..MaxAttempts]] /\ chances \in [QueueEvents -> Nat]
        /\ rows[r] \in QueueRow0 /\ rows \in [Rows -> QueueRow0]
        /\ workers[w].error \in {"none", "error", "quota"}
    BY WorkerFacts DEF At, InsertionFits, AnswerFits, Working, QueueIInv, TableFits, Worker0, Locked
  <1>2. CASE Stale(w)
    <2>1. TableFits' /\ RowsKept /\ \A v \in Workers : HeldKept(v)
      BY <1>2, SameTable DEF QueueIInv
    <2> QED
      BY <1>1, <1>2, <2>1, LeaveStep
  <1>3. CASE ~Stale(w)
    <2>1. TableFits' /\ RowsKept /\ \A v \in Workers : HeldKept(v)
      <3>1. CASE Holds(w)
        <4> DEFINE row == Failed(rows[r], workers[w].error)
        <4>1. rows[r].status = "processing" /\ ActiveRow(r) /\ rows[r].attempts < MaxAttempts
          BY <1>1, <3>1 DEF Holds, ActiveRow, QueueIInv, TableFits
        <4>2. rows' = [rows EXCEPT ![r] = row]
          BY <1>1, <1>3, <3>1
        <4>3. /\ row \in QueueRow0 /\ row.transcript = rows[r].transcript
              /\ row.status \in {"pending", "dead"} /\ row.proposals = rows[r].proposals
              /\ row.status = "pending" => row.attempts < MaxAttempts
          BY <1>1, <4>1, FailedFits
        <4> HIDE DEF row, r
        <4> QED
          BY <1>1, <4>1, <4>2, <4>3, RowChanges DEF QueueIInv
      <3>2. CASE ~Holds(w)
        BY <1>3, <3>2, SameTable DEF QueueIInv
      <3> QED
        BY <3>1, <3>2
    <2>2. /\ memory' \in [Processes -> [Rows -> 0..MaxAttempts]]
          /\ \A p \in Processes : p # w[1] => memory'[p] = memory[p]
      BY <1>1, <1>3, RememberedFits
    <2> QED
      BY <1>1, <1>3, <2>1, <2>2, LeaveStep
  <1> QED
    BY <1>2, <1>3

LEMMA MarkRaisesStep ==
    ASSUME QueueIInv, NEW w \in Workers, MarkRaises(w)
    PROVE  QueueIInv'
  <1> USE DEF MarkRaises
  <1> DEFINE r == workers[w].row
  <1>1. /\ ~At(w, "gone") /\ Working(w) /\ writer # w /\ r \in Rows
        /\ rows[r] \in QueueRow0 /\ rows \in [Rows -> QueueRow0]
    BY WorkerFacts DEF At, InsertionFits, AnswerFits, Working, QueueIInv, TableFits, Worker0, Locked
  <1>2. TableFits' /\ RowsKept /\ \A v \in Workers : HeldKept(v)
    <2>1. CASE Holds(w) /\ rows' # rows
      <3> DEFINE row == [Unleased(rows[r]) EXCEPT !.status = "pending"]
      <3>1. rows[r].status = "processing" /\ ActiveRow(r) /\ rows[r].attempts < MaxAttempts
        BY <1>1, <2>1 DEF Holds, ActiveRow, QueueIInv, TableFits
      <3>2. rows' = [rows EXCEPT ![r] = row]
        BY <1>1, <2>1
      <3>3. /\ row \in QueueRow0 /\ row.transcript = rows[r].transcript
            /\ row.status = "pending" /\ row.proposals = rows[r].proposals
            /\ row.attempts = rows[r].attempts
        BY <1>1 DEF QueueRow0, Unleased
      <3> HIDE DEF row, r
      <3> QED
        BY <1>1, <3>1, <3>2, <3>3, RowChanges DEF QueueIInv
    <2>2. CASE rows' = rows
      BY <2>2, SameTable DEF QueueIInv
    <2> QED
      BY <2>1, <2>2
  <1>3. /\ memory' \in [Processes -> [Rows -> 0..MaxAttempts]]
        /\ \A p \in Processes : p # w[1] => memory'[p] = memory[p]
    BY <1>1, RememberedFits
  <1>4. chances' \in [QueueEvents -> Nat]
    BY HappensFits DEF QueueIInv, QueueEvents
  <1> QED
    BY <1>1, <1>2, <1>3, <1>4, LeaveStep

-----------------------------------------------------------------------------
(* The steps of the table and the tools.                                   *)

LEMMA TableSteps ==
    ASSUME QueueIInv, TableFits', RowsKept, \A v \in Workers : HeldKept(v),
           UNCHANGED <<texts, checked, removed, writer, generation, serving, closed, workers, memory>>,
           chances' \in [QueueEvents -> Nat]
    PROVE  QueueIInv'
  <1>1. ProcessesFit'
    BY DEF QueueIInv, ProcessesFit, At
  <1>2. TextsFit' /\ TextsKept
    BY SameTexts DEF QueueIInv
  <1>3. ASSUME NEW v \in Workers
        PROVE  AnswerFits(v)' /\ CountFits(v)' /\ InsertionFits(v)'
    <2>1. AnswerFits(v)'
      BY AnswerKept, LegacyQueueAssumption DEF QueueIInv
    <2>2. CountFits(v)'
      BY CountKept DEF QueueIInv
    <2>3. InsertionFits(v)'
      BY <1>2, InsertionKept DEF QueueIInv, CheckedKept
    <2> QED
      BY <2>1, <2>2, <2>3
  <1> QED
    BY <1>1, <1>2, <1>3 DEF QueueIInv

LEMMA EnqueueStep ==
    ASSUME QueueIInv, NEW p \in Processes, NEW t \in Transcripts, Enqueue(p, t)
    PROVE  QueueIInv'
  <1> USE DEF Enqueue
  <1> DEFINE new == [NoRow EXCEPT !.status = "pending", !.transcript = t]
  <1>1. PICK r \in Rows : rows[r].status = "none" /\ rows' = [rows EXCEPT ![r] = new]
    OBVIOUS
  <1>2. /\ new.status = "pending" /\ new.transcript = t /\ new.attempts = 0
    BY DEF NoRow
  <1>3. new \in QueueRow0
    <2>1. NoRow \in QueueRow0
      BY LegacyQueueAssumption DEF NoRow, QueueRow0
    <2>2. [NoRow EXCEPT !.status = "pending"] \in QueueRow0
      BY <2>1 DEF QueueRow0
    <2>3. \A row \in QueueRow0 : [row EXCEPT !.transcript = t] \in QueueRow0
      BY DEF QueueRow0
    <2> QED
      BY <2>2, <2>3
  <1> HIDE DEF new
  <1>4. /\ rows' \in [Rows -> QueueRow0] /\ rows'[r] = new
        /\ \A s \in Rows : s # r => rows'[s] = rows[s]
    BY <1>1, <1>3 DEF QueueIInv, TableFits
  <1>5. \A s \in Rows : ActiveRow(s) => rows[s].transcript # t
    OBVIOUS
  <1>6. OneActiveRow'
    BY <1>2, <1>4, <1>5 DEF QueueIInv, TableFits, OneActiveRow, ActiveRow
  <1>7. \A s \in Rows : ActiveRow(s)' => rows'[s].attempts < MaxAttempts
    <2>1. 0 < MaxAttempts
      BY LegacyQueueAssumption
    <2>2. \A s \in Rows : s # r => (ActiveRow(s)' => ActiveRow(s)) /\ rows'[s] = rows[s]
      BY <1>4 DEF ActiveRow
    <2>3. \A s \in Rows : ActiveRow(s) => rows[s].attempts < MaxAttempts
      BY DEF QueueIInv, TableFits
    <2> QED
      BY <1>2, <1>4, <2>1, <2>2, <2>3
  <1>8. TableFits'
    BY <1>4, <1>6, <1>7 DEF TableFits
  <1>9. RowsKept /\ \A v \in Workers : HeldKept(v)
    BY <1>1, <1>2, <1>4 DEF RowsKept, HeldKept
  <1>10. chances' \in [QueueEvents -> Nat]
    BY HappensFits DEF QueueIInv, QueueEvents
  <1> QED
    BY <1>8, <1>9, <1>10, TableSteps

(* Reviving dead rows: one row of a transcript, if none of it is active. *)
LEMMA RevivedFits ==
    ASSUME TableFits, NEW ids \in SUBSET Rows, rows' = Revived(ids)
    PROVE  TableFits' /\ RowsKept /\ \A v \in Workers : HeldKept(v)
  <1>1. ASSUME NEW r \in Rows
        PROVE  /\ rows'[r] \in QueueRow0 /\ rows'[r].transcript = rows[r].transcript
               /\ rows'[r].proposals = rows[r].proposals
               /\ \/ rows'[r] = rows[r]
                  \/ Revivable(r) /\ rows'[r].attempts = 0 /\ rows'[r].status = "pending"
    <2>1. CASE r \in ids /\ Revivable(r)
      <3> DEFINE mid == Unleased(rows[r])
      <3>1. /\ mid \in QueueRow0 /\ mid.transcript = rows[r].transcript
            /\ mid.proposals = rows[r].proposals
        BY ZenonT(60) DEF Unleased, QueueRow0, TableFits
      <3>2. rows'[r] = [mid EXCEPT !.status = "pending", !.attempts = 0, !.deferred = FALSE]
        BY <2>1 DEF Revived
      <3> HIDE DEF mid
      <3>3. /\ rows'[r] \in QueueRow0 /\ rows'[r].transcript = mid.transcript
            /\ rows'[r].proposals = mid.proposals
            /\ rows'[r].attempts = 0 /\ rows'[r].status = "pending"
        <4> DEFINE part == [mid EXCEPT !.status = "pending", !.attempts = 0]
        <4>1. [mid EXCEPT !.status = "pending"] \in QueueRow0 /\ 0 \in 0..MaxAttempts
          BY <3>1, LegacyQueueAssumption, SMTT(30) DEF QueueRow0
        <4>2. \A row \in QueueRow0 : [row EXCEPT !.attempts = 0] \in QueueRow0
          BY <4>1 DEF QueueRow0
        <4>3. part \in QueueRow0
          BY <4>1, <4>2
        <4>4. /\ part.transcript = mid.transcript /\ part.proposals = mid.proposals
              /\ part.attempts = 0 /\ part.status = "pending"
          BY <3>1 DEF QueueRow0
        <4>5. rows'[r] = [part EXCEPT !.deferred = FALSE]
          BY <3>2
        <4> HIDE DEF part
        <4> QED
          BY <4>3, <4>4, <4>5 DEF QueueRow0
      <3> QED
        BY <2>1, <3>1, <3>3
    <2>2. CASE ~(r \in ids /\ Revivable(r))
      BY <2>2 DEF Revived, TableFits
    <2> QED
      BY <2>1, <2>2
  <1>2. rows' \in [Rows -> QueueRow0]
    BY <1>1 DEF Revived
  <1>3. ASSUME NEW r \in Rows, NEW s \in Rows, ActiveRow(r)', ActiveRow(s)',
               rows'[r].transcript = rows'[s].transcript
        PROVE  r = s
    <2>1. rows[r].transcript = rows[s].transcript
      BY <1>1, <1>3
    <2>2. CASE ActiveRow(r) /\ ActiveRow(s)
      BY <2>1, <2>2 DEF TableFits, OneActiveRow
    <2>3. CASE ~ActiveRow(r)
      <3>1. Revivable(r) /\ rows[r].status = "dead"
        BY <1>1, <1>3, <2>3 DEF ActiveRow, Revivable
      <3>2. ~ActiveRow(s)
        BY <2>1, <3>1 DEF Revivable
      <3>3. Revivable(s) /\ rows[s].status = "dead"
        BY <1>1, <1>3, <3>2 DEF ActiveRow, Revivable
      <3>4. r <= s /\ s <= r
        BY <2>1, <3>1, <3>3 DEF Revivable
      <3> QED
        BY <3>4 DEF Rows
    <2>4. CASE ~ActiveRow(s)
      <3>1. Revivable(s) /\ rows[s].status = "dead"
        BY <1>1, <1>3, <2>4 DEF ActiveRow, Revivable
      <3>2. ~ActiveRow(r)
        BY <2>1, <3>1 DEF Revivable
      <3> QED
        BY <2>3, <3>2
    <2> QED
      BY <2>2, <2>3, <2>4
  <1>4. \A r \in Rows : ActiveRow(r)' => rows'[r].attempts < MaxAttempts
    BY <1>1, LegacyQueueAssumption DEF TableFits, ActiveRow
  <1>5. TableFits'
    BY <1>2, <1>3, <1>4 DEF TableFits, OneActiveRow
  <1> QED
    BY <1>1, <1>5 DEF RowsKept, HeldKept

LEMMA ReviveDeadStep ==
    ASSUME QueueIInv, ReviveDead
    PROVE  QueueIInv'
  <1>1. PICK ids \in SUBSET Rows : rows' = Revived(ids)
    BY DEF ReviveDead
  <1>2. TableFits' /\ RowsKept /\ \A v \in Workers : HeldKept(v)
    BY <1>1, RevivedFits DEF QueueIInv
  <1>3. chances' \in [QueueEvents -> Nat]
    BY HappensFits DEF QueueIInv, QueueEvents, ReviveDead
  <1> QED
    BY <1>2, <1>3, TableSteps DEF ReviveDead

LEMMA TimeStep ==
    ASSUME QueueIInv, NEW r \in Rows, Lapse(r) \/ Reopen(r) \/ Age(r)
    PROVE  QueueIInv'
  <1>1. PICK new \in {[rows[r] EXCEPT !.lapsed = TRUE], [rows[r] EXCEPT !.deferred = FALSE],
                      [rows[r] EXCEPT !.old = TRUE]} : rows' = [rows EXCEPT ![r] = new]
    <2>1. rows' \in {[rows EXCEPT ![r].lapsed = TRUE], [rows EXCEPT ![r].deferred = FALSE],
                     [rows EXCEPT ![r].old = TRUE]}
      BY DEF Lapse, Reopen, Age
    <2> QED
      BY <2>1
  <1>2. rows[r] \in QueueRow0
    BY DEF QueueIInv, TableFits
  <1>3. /\ new \in QueueRow0 /\ new.transcript = rows[r].transcript
        /\ new.status = rows[r].status /\ new.proposals = rows[r].proposals
        /\ new.attempts = rows[r].attempts /\ new.lease = rows[r].lease
    BY <1>1, <1>2 DEF QueueRow0
  <1>4. new.status \in {"pending", "processing"} => ActiveRow(r) /\ new.attempts < MaxAttempts
    BY <1>3 DEF ActiveRow, QueueIInv, TableFits
  <1>5. TableFits' /\ RowsKept /\ \A v \in Workers : HeldKept(v)
    <2> DEFINE row == new
    <2>1. /\ rows' = [rows EXCEPT ![r] = row] /\ row \in QueueRow0
          /\ row.transcript = rows[r].transcript
          /\ row.status = rows[r].status /\ row.proposals = rows[r].proposals
          /\ row.lease = rows[r].lease
          /\ row.status \in {"pending", "processing"} => ActiveRow(r) /\ row.attempts < MaxAttempts
      BY <1>1, <1>3, <1>4
    <2> HIDE DEF row
    <2>2. TableFits
      BY DEF QueueIInv
    <2>3. TableFits' /\ RowsKept
      BY <2>1, <2>2, RowChanges
    <2>4. \A v \in Workers : HeldKept(v)
      BY <2>1, <2>2 DEF HeldKept, TableFits
    <2> QED
      BY <2>3, <2>4
  <1>6. chances' \in [QueueEvents -> Nat]
    BY HappensFits DEF QueueIInv, QueueEvents, Lapse, Reopen, Age
  <1> QED
    BY <1>5, <1>6, TableSteps DEF Lapse, Reopen, Age

-----------------------------------------------------------------------------
(* The steps of processes.                                                 *)

LEMMA TeardownStep ==
    ASSUME QueueIInv, NEW p \in Processes, Teardown(p)
    PROVE  QueueIInv'
  <1> USE DEF Teardown
  <1>1. generation \in [Processes -> 0..MaxGeneration] /\ generation[p] < MaxGeneration
    BY DEF QueueIInv, ProcessesFit
  <1>2. /\ generation' \in [Processes -> 0..MaxGeneration]
        /\ generation'[p] = generation[p] + 1
        /\ \A q \in Processes : q # p => generation'[q] = generation[q]
    BY <1>1, LegacyQueueAssumption
  <1>3. \A w \in Workers : w[1] \in Processes /\ w[2] \in Nat
    BY DEF Workers
  <1>4. ASSUME NEW w \in Workers
        PROVE  /\ generation'[w[1]] < w[2] => generation[w[1]] < w[2]
               /\ generation'[w[1]] = w[2] => generation[w[1]] < w[2]
                                              \/ (generation[w[1]] = w[2] /\ w[1] # p)
               /\ w[2] < generation[w[1]] => w[2] < generation'[w[1]]
    BY <1>1, <1>2, <1>3
  <1>5. \A w \in Workers : At(w, "gone")' <=> At(w, "gone")
    BY DEF At
  <1>6. ProcessesFit'
    BY <1>2, <1>4, <1>5 DEF QueueIInv, ProcessesFit
  <1>7. /\ TableFits' /\ RowsKept /\ \A v \in Workers : HeldKept(v)
        /\ TextsFit' /\ TextsKept
    BY SameTable, SameTexts DEF QueueIInv
  <1>8. ASSUME NEW w \in Workers
        PROVE  AnswerFits(w)' /\ CountFits(w)' /\ InsertionFits(w)'
    <2>1. AnswerFits(w)'
      BY <1>7, AnswerKept, LegacyQueueAssumption DEF QueueIInv
    <2>2. InsertionFits(w)'
      BY <1>7, InsertionKept DEF QueueIInv, CheckedKept
    <2>3. ~Stale(w)' => At(w, "gone") \/ ~Stale(w)
      BY <1>4 DEF Stale, QueueIInv, ProcessesFit
    <2>4. CountFits(w)'
      BY <2>3 DEF QueueIInv, CountFits, Working, At
    <2> QED
      BY <2>1, <2>2, <2>4
  <1>9. chances' \in [QueueEvents -> Nat]
    BY HappensFits DEF QueueIInv, QueueEvents
  <1> QED
    BY <1>6, <1>7, <1>8, <1>9 DEF QueueIInv

LEMMA StartStep ==
    ASSUME QueueIInv, NEW p \in Processes, Start(p)
    PROVE  QueueIInv'
  <1> USE DEF Start
  <1> DEFINE c == <<p, generation[p]>>
  <1>1. generation \in [Processes -> 0..MaxGeneration]
    BY DEF QueueIInv, ProcessesFit
  <1>2. c \in Workers /\ c[1] = p /\ c[2] = generation[p]
    BY <1>1, LegacyQueueAssumption DEF Workers
  <1>3. At(c, "gone")
    BY <1>2 DEF QueueIInv, ProcessesFit
  <1>4. /\ workers' \in [Workers -> Worker0] /\ workers'[c] = Idle
        /\ \A w \in Workers : w # c => workers'[w] = workers[w]
    BY <1>2, IdleFits DEF QueueIInv
  <1>5. \A w \in Workers : w[1] \in Processes /\ w = <<w[1], w[2]>>
    BY DEF Workers
  <1> HIDE DEF c
  <1>6. /\ closed' \subseteq Workers
        /\ \A w \in closed' : w[2] < generation[w[1]] /\ At(w, "gone")
    <2> DEFINE old == <<p, generation[p] - 1>>
    <2>1. closed' \in {closed, closed \cup {old}}
          /\ (closed' # closed => old \in Workers /\ At(old, "gone"))
      OBVIOUS
    <2>2. old[1] = p /\ old[2] < generation[p]
      BY <1>1
    <2> HIDE DEF old
    <2> QED
      BY <2>1, <2>2 DEF QueueIInv, ProcessesFit
  <1>7. memory' \in [Processes -> [Rows -> 0..MaxAttempts]]
    BY LegacyQueueAssumption DEF QueueIInv, ProcessesFit
  <1>8. ProcessesFit'
    <2>1. \A w \in Workers : /\ w[1] = p /\ generation[p] = w[2] => w = c
                             /\ w # c /\ At(w, "gone") => At(w, "gone")'
      BY <1>4, <1>5 DEF At, c
    <2>2. \A w \in Workers :
            generation'[w[1]] < w[2] \/ (generation'[w[1]] = w[2] /\ w[1] \notin serving')
              => At(w, "gone")'
      <3> SUFFICES ASSUME NEW w \in Workers,
                          generation[w[1]] < w[2]
                            \/ (generation[w[1]] = w[2] /\ w[1] \notin serving \cup {p})
                   PROVE  At(w, "gone")'
        OBVIOUS
      <3>1. w # c
        BY <1>1, <1>2
      <3>2. At(w, "gone")
        BY DEF QueueIInv, ProcessesFit
      <3> QED
        BY <2>1, <3>1, <3>2
    <2>3. \A w \in closed' : w[2] < generation'[w[1]] /\ At(w, "gone")'
      <3> SUFFICES ASSUME NEW w \in closed' PROVE w[2] < generation[w[1]] /\ At(w, "gone")'
        OBVIOUS
      <3>1. w \in Workers /\ w[2] < generation[w[1]] /\ At(w, "gone")
        BY <1>6
      <3>2. w # c
        BY <1>1, <1>2, <3>1
      <3> QED
        BY <2>1, <3>1, <3>2
    <2> QED
      BY <1>6, <1>7, <2>2, <2>3 DEF QueueIInv, ProcessesFit
  <1>9. TableFits' /\ RowsKept /\ \A v \in Workers : HeldKept(v)
    <2>1. RecentQuotaDead \in SUBSET Rows
      BY DEF RecentQuotaDead
    <2> QED
      BY <2>1, RevivedFits DEF QueueIInv
  <1>10. TextsFit' /\ TextsKept
    BY SameTexts DEF QueueIInv
  <1>11. ASSUME NEW w \in Workers
         PROVE  AnswerFits(w)' /\ CountFits(w)' /\ InsertionFits(w)'
    <2>1. CASE w = c
      <3>1. writer # c
        BY <1>2, <1>3 DEF QueueIInv, InsertionFits, At, Locked
      <3>2. workers'[w].pc = "idle"
        BY <1>4, <2>1, IdleFits
      <3> QED
        BY <2>1, <3>1, <3>2 DEF AnswerFits, CountFits, InsertionFits, Working, At, Locked
    <2>2. CASE w # c
      <3>1. AnswerFits(w)'
        BY <1>4, <1>9, <2>2, AnswerKept, LegacyQueueAssumption DEF QueueIInv
      <3>2. InsertionFits(w)'
        BY <1>4, <1>10, <2>2, InsertionKept DEF QueueIInv, CheckedKept
      <3>3. Stale(w) \/ memory'[w[1]] = memory[w[1]]
        BY <1>5, <2>2 DEF Stale, c, QueueIInv, ProcessesFit
      <3>4. CountFits(w)'
        BY <1>4, <2>2, <3>3, CountKept DEF QueueIInv
      <3> QED
        BY <3>1, <3>2, <3>4
    <2> QED
      BY <2>1, <2>2
  <1> QED
    BY <1>4, <1>8, <1>9, <1>10, <1>11 DEF QueueIInv

LEMMA KillProcessStep ==
    ASSUME QueueIInv, NEW p \in Processes, KillProcess(p)
    PROVE  QueueIInv'
  <1> USE DEF KillProcess
  <1> DEFINE mine == {p} \X (1..MaxGeneration)
  <1>1. \A w \in Workers : w[1] \in Processes /\ w[2] \in 1..MaxGeneration
                           /\ (w \in mine <=> w[1] = p)
    BY DEF Workers
  <1>2. workers' = [w \in Workers |-> IF w \in mine THEN Gone ELSE workers[w]]
    OBVIOUS
  <1>3. rows' = [r \in Rows |-> IF rows[r].lease \in mine
                                THEN [rows[r] EXCEPT !.lease = None] ELSE rows[r]]
    OBVIOUS
  <1>4. /\ writer' = IF writer \in mine THEN None ELSE writer
        /\ closed' = closed \ mine
    OBVIOUS
  <1> HIDE DEF mine
  <1>5. /\ workers' \in [Workers -> Worker0]
        /\ \A w \in Workers : /\ w[1] = p => workers'[w] = Gone
                              /\ w[1] # p => workers'[w] = workers[w]
    BY <1>1, <1>2, IdleFits DEF QueueIInv
  <1>6. ASSUME NEW r \in Rows
        PROVE  /\ rows'[r] \in QueueRow0 /\ rows'[r].transcript = rows[r].transcript
               /\ rows'[r].proposals = rows[r].proposals /\ rows'[r].status = rows[r].status
               /\ rows'[r].attempts = rows[r].attempts
               /\ rows'[r].lease = rows[r].lease \/ rows'[r].lease = None
    <2>1. rows[r] \in QueueRow0
      BY DEF QueueIInv, TableFits
    <2> QED
      BY <1>3, <2>1 DEF QueueRow0
  <1>7. TableFits'
    <2>1. rows' \in [Rows -> QueueRow0]
      BY <1>3, <1>6
    <2> QED
      BY <1>6, <2>1 DEF QueueIInv, TableFits, OneActiveRow, ActiveRow
  <1>8. RowsKept /\ \A w \in Workers : HeldKept(w)
    BY <1>6, LegacyQueueAssumption DEF RowsKept, HeldKept
  <1>9. TextsFit' /\ TextsKept
    BY <1>4 DEF QueueIInv, TextsFit, NoRestatedFacts, TextsKept
  <1>10. ProcessesFit'
    <2>1. generation' \in [Processes -> 0..MaxGeneration] /\ generation'[p] = 0
          /\ \A q \in Processes : q # p => generation'[q] = generation[q]
      BY LegacyQueueAssumption DEF QueueIInv, ProcessesFit
    <2>2. memory' \in [Processes -> [Rows -> 0..MaxAttempts]]
      BY LegacyQueueAssumption DEF QueueIInv, ProcessesFit
    <2>3. \A w \in Workers : At(w, "gone") => At(w, "gone")'
      BY <1>5, IdleFits DEF At
    <2>4. \A w \in Workers : w[1] = p => At(w, "gone")'
      BY <1>5, IdleFits DEF At
    <2>5. \A w \in closed' : w \in closed /\ w \in Workers /\ w[1] # p
      BY <1>1, <1>4 DEF QueueIInv, ProcessesFit
    <2>6. \A w \in closed' : w[2] < generation'[w[1]] /\ At(w, "gone")'
      BY <1>1, <2>1, <2>3, <2>5 DEF QueueIInv, ProcessesFit
    <2>7. \A w \in Workers :
            generation'[w[1]] < w[2] \/ (generation'[w[1]] = w[2] /\ w[1] \notin serving')
              => At(w, "gone")'
      BY <1>1, <2>1, <2>3, <2>4 DEF QueueIInv, ProcessesFit
    <2> QED
      BY <2>1, <2>2, <2>5, <2>6, <2>7 DEF QueueIInv, ProcessesFit
  <1>11. ASSUME NEW w \in Workers
         PROVE  AnswerFits(w)' /\ CountFits(w)' /\ InsertionFits(w)'
    <2>1. CASE w[1] = p
      <3>1. workers'[w].pc = "gone"
        BY <1>5, <2>1, IdleFits
      <3>2. writer' # w
        BY <1>1, <1>4, <2>1, LegacyQueueAssumption
      <3> QED
        BY <3>1, <3>2 DEF AnswerFits, CountFits, InsertionFits, Working, At, Locked
    <2>2. CASE w[1] # p
      <3>1. AnswerFits(w)'
        BY <1>5, <1>8, <2>2, AnswerKept, LegacyQueueAssumption DEF QueueIInv
      <3>2. writer' = w <=> writer = w
        BY <1>1, <1>4, <2>2, LegacyQueueAssumption
      <3>3. InsertionFits(w)'
        BY <1>5, <1>9, <2>2, <3>2, InsertionKept DEF QueueIInv, CheckedKept
      <3>4. CountFits(w)'
        BY <1>1, <1>5, <2>2 DEF QueueIInv, ProcessesFit, CountFits, Working, Stale
      <3> QED
        BY <3>1, <3>3, <3>4
    <2> QED
      BY <2>1, <2>2
  <1>12. chances' \in [QueueEvents -> Nat]
    BY HappensFits DEF QueueIInv, QueueEvents
  <1> QED
    BY <1>5, <1>7, <1>9, <1>10, <1>11, <1>12 DEF QueueIInv

(* A tool changes the texts: between a worker's search and its insertion   *)
(* only in ways that put nothing searched for in force.                    *)
LEMMA ToolSteps ==
    ASSUME QueueIInv, TextsFit', TextsKept, writer = None \/ CheckedKept,
           UNCHANGED <<rows, writer, generation, serving, closed, workers, memory>>,
           chances' \in [QueueEvents -> Nat]
    PROVE  QueueIInv'
  <1>1. TableFits' /\ RowsKept /\ \A v \in Workers : HeldKept(v)
    BY SameTable DEF QueueIInv
  <1>2. ProcessesFit'
    BY DEF QueueIInv, ProcessesFit, At
  <1>3. ASSUME NEW w \in Workers
        PROVE  AnswerFits(w)' /\ CountFits(w)' /\ InsertionFits(w)'
    <2>1. AnswerFits(w)'
      BY <1>1, AnswerKept, LegacyQueueAssumption DEF QueueIInv
    <2>2. At(w, "storing") => CheckedKept
      BY LegacyQueueAssumption DEF QueueIInv, InsertionFits, At, Locked
    <2>3. InsertionFits(w)'
      BY <2>2, InsertionKept DEF QueueIInv
    <2>4. CountFits(w)'
      BY CountKept DEF QueueIInv
    <2> QED
      BY <2>1, <2>3, <2>4
  <1> QED
    BY <1>1, <1>2, <1>3 DEF QueueIInv

LEMMA ToolAddStep ==
    ASSUME QueueIInv, NEW x \in Texts, ToolAdd(x)
    PROVE  QueueIInv'
  <1> USE DEF ToolAdd
  <1>1. PICK searches \in SUBSET Searches :
          /\ chances' = [chances EXCEPT !["add"] = @ - 1,
                                        !["blind"] = IF searches = Searches THEN @ ELSE @ - 1]
          /\ searches = Searches \/ chances["blind"] > 0
          /\ "restated" \in searches => ~RestatedText(x)
          /\ LET targets == IF "update" \in searches THEN UpdateTargets(x) ELSE {} IN
             \E old \in (IF targets = {} THEN {{}} ELSE {{y} : y \in targets}) :
               texts' = [y \in Texts |-> IF y = x THEN "active"
                                        ELSE IF y \in old THEN "retired" ELSE texts[y]]
          /\ checked' = IF "restated" \in searches THEN checked \cup {x} ELSE checked
    OBVIOUS
  <1>2. PICK old \in SUBSET UpdateTargets(x) :
          texts' = [y \in Texts |-> IF y = x THEN "active"
                                   ELSE IF y \in old THEN "retired" ELSE texts[y]]
    BY <1>1
  <1>3. \A y \in old : y \in Texts /\ texts[y] = "active"
    BY DEF UpdateTargets
  <1>4. /\ texts \in [Texts -> {"absent", "active", "retired"}] /\ NoRestatedFacts
        /\ checked \subseteq {y \in Texts : texts[y] # "absent"} /\ x \notin checked
    BY DEF QueueIInv, TextsFit
  <1>5. /\ texts' \in [Texts -> {"absent", "active", "retired"}] /\ texts'[x] = "active"
        /\ \A y \in Texts : /\ texts[y] # "absent" => texts'[y] # "absent"
                            /\ y # x /\ texts'[y] = "active" => texts[y] = "active"
    BY <1>2, <1>3, <1>4
  <1>6. x \in checked' =>
          \A y \in Texts : texts[y] = "active" => <<x, y>> \notin Near /\ <<y, x>> \notin Near
    BY <1>1, <1>4, LegacyQueueAssumption DEF RestatedText
  <1>7. NoRestatedFacts'
    BY <1>1, <1>4, <1>5, <1>6 DEF NoRestatedFacts
  <1>8. TextsFit' /\ TextsKept
    BY <1>1, <1>4, <1>5, <1>7 DEF QueueIInv, TextsFit, TextsKept
  <1>9. chances' \in [QueueEvents -> Nat]
    BY <1>1 DEF QueueIInv, QueueEvents
  <1> QED
    BY <1>8, <1>9, ToolSteps

LEMMA StoreUncheckedStep ==
    ASSUME QueueIInv, NEW x \in Texts, StoreUnchecked(x)
    PROVE  QueueIInv'
  <1> USE DEF StoreUnchecked
  <1>1. /\ texts' \in [Texts -> {"absent", "active", "retired"}] /\ texts'[x] = "active"
        /\ x \notin checked /\ \A y \in Texts : y # x => texts'[y] = texts[y]
    BY DEF QueueIInv, TextsFit
  <1>2. TextsFit' /\ TextsKept /\ CheckedKept
    BY <1>1 DEF QueueIInv, TextsFit, NoRestatedFacts, TextsKept, CheckedKept
  <1>3. chances' \in [QueueEvents -> Nat]
    BY HappensFits DEF QueueIInv, QueueEvents
  <1> QED
    BY <1>2, <1>3, ToolSteps

LEMMA ToolReplaceStep ==
    ASSUME QueueIInv, NEW x \in Texts, NEW y \in Texts, ToolReplace(y, x)
    PROVE  QueueIInv'
  <1> USE DEF ToolReplace
  <1>1. /\ texts' \in [Texts -> {"absent", "active", "retired"}]
        /\ texts'[x] = "active" /\ texts'[y] = "retired" /\ (x \in checked => texts[x] = "active")
        /\ \A z \in Texts : z \notin {x, y} => texts'[z] = texts[z]
    BY DEF QueueIInv, TextsFit
  <1>2. TextsFit' /\ TextsKept
    BY <1>1 DEF QueueIInv, TextsFit, NoRestatedFacts, TextsKept
  <1>3. chances' \in [QueueEvents -> Nat]
    BY HappensFits DEF QueueIInv, QueueEvents
  <1> QED
    BY <1>2, <1>3, ToolSteps

LEMMA ToolEditStep ==
    ASSUME QueueIInv, NEW x \in Texts, NEW y \in Texts, ToolEdit(y, x)
    PROVE  QueueIInv'
  <1> USE DEF ToolEdit
  <1>1. /\ texts' \in [Texts -> {"absent", "active", "retired"}] /\ x # y
        /\ texts'[y] = "absent" /\ texts'[x] = texts[y]
        /\ \A z \in Texts : z \notin {x, y} => texts'[z] = texts[z]
    BY DEF QueueIInv, TextsFit
  <1>2. TextsFit' /\ TextsKept /\ CheckedKept
    BY <1>1 DEF QueueIInv, TextsFit, NoRestatedFacts, TextsKept, CheckedKept
  <1>3. chances' \in [QueueEvents -> Nat]
    BY HappensFits DEF QueueIInv, QueueEvents
  <1> QED
    BY <1>2, <1>3, ToolSteps

LEMMA ToolRemoveStep ==
    ASSUME QueueIInv, NEW x \in Texts, ToolRemove(x)
    PROVE  QueueIInv'
  <1> USE DEF ToolRemove
  <1>1. /\ texts' \in [Texts -> {"absent", "active", "retired"}] /\ texts'[x] = "absent"
        /\ \A y \in Texts : y # x => texts'[y] = texts[y]
    BY DEF QueueIInv, TextsFit
  <1>2. TextsFit' /\ TextsKept /\ CheckedKept
    BY <1>1 DEF QueueIInv, TextsFit, NoRestatedFacts, TextsKept, CheckedKept
  <1>3. chances' \in [QueueEvents -> Nat]
    BY HappensFits DEF QueueIInv, QueueEvents
  <1> QED
    BY <1>2, <1>3, ToolSteps

-----------------------------------------------------------------------------
(* The theorems.                                                           *)

LEMMA QueueInitFits == QueueInit => QueueIInv
  <1> SUFFICES ASSUME QueueInit PROVE QueueIInv
    OBVIOUS
  <1> USE DEF QueueInit
  <1>1. PICK t \in Transcripts : rows = [r \in Rows |->
         IF r = 1 /\ chances["revive"] > 0
         THEN [NoRow EXCEPT !.status = "dead", !.transcript = t,
                            !.attempts = MaxAttempts, !.error = "quota"]
         ELSE NoRow]
    OBVIOUS
  <1> DEFINE dead == [NoRow EXCEPT !.status = "dead", !.transcript = t,
                                   !.attempts = MaxAttempts, !.error = "quota"]
  <1>2. NoRow \in QueueRow0 /\ NoRow.status = "none"
    BY LegacyQueueAssumption DEF NoRow, QueueRow0
  <1>3. dead \in QueueRow0 /\ dead.status = "dead"
    <2> DEFINE half == [NoRow EXCEPT !.status = "dead", !.transcript = t]
    <2>1. half \in QueueRow0 /\ half.status = "dead"
      BY <1>2 DEF QueueRow0
    <2>2. dead = [half EXCEPT !.attempts = MaxAttempts, !.error = "quota"]
      OBVIOUS
    <2>3. MaxAttempts \in 0..MaxAttempts
      BY LegacyQueueAssumption
    <2> HIDE DEF half
    <2>4. \A row \in QueueRow0 : [row EXCEPT !.attempts = MaxAttempts] \in QueueRow0
      BY <2>3 DEF QueueRow0
    <2>5. \A row \in QueueRow0 : [row EXCEPT !.error = "quota"] \in QueueRow0
      BY DEF QueueRow0
    <2>6. [half EXCEPT !.attempts = MaxAttempts] \in QueueRow0
      BY <2>1, <2>4
    <2>7. [half EXCEPT !.attempts = MaxAttempts, !.error = "quota"] \in QueueRow0
      BY <2>5, <2>6
    <2> QED
      BY <2>2, <2>7 DEF NoRow
  <1> HIDE DEF dead
  <1>4. rows = [r \in Rows |-> IF r = 1 /\ chances["revive"] > 0 THEN dead ELSE NoRow]
    BY <1>1 DEF dead
  <1>5. TableFits
    BY <1>2, <1>3, <1>4 DEF TableFits, OneActiveRow, ActiveRow
  <1>6. \A w \in Workers : At(w, "gone")
    BY IdleFits DEF At
  <1>7. ProcessesFit
    BY <1>6, LegacyQueueAssumption DEF ProcessesFit
  <1>8. TextsFit
    BY DEF TextsFit, NoRestatedFacts
  <1>9. \A w \in Workers : AnswerFits(w) /\ CountFits(w) /\ InsertionFits(w)
    BY <1>6, LegacyQueueAssumption DEF AnswerFits, CountFits, InsertionFits, Working, At, Locked
  <1> QED
    BY <1>5, <1>7, <1>8, <1>9, IdleFits, LegacyQueueAssumption DEF QueueIInv

LEMMA QueueStepFits == QueueIInv /\ [QueueNext]_queueVars => QueueIInv'
  <1> SUFFICES ASSUME QueueIInv, [QueueNext]_queueVars PROVE QueueIInv'
    OBVIOUS
  <1>1. CASE UNCHANGED queueVars
    <2>1. TableFits' /\ RowsKept /\ \A v \in Workers : HeldKept(v)
      BY <1>1, SameTable DEF queueVars, QueueIInv
    <2> QED
      BY <1>1, <2>1, TableSteps DEF queueVars, QueueIInv
  <1>2. CASE QueueNext
    <2>1. CASE \E w \in Workers : Drain(w) \/ MarkRaises(w)
      BY <2>1, ClaimStep, ExtractStep, SaveProposalsStep, EnterStep, ScreenStep, StoreFactStep,
         LeaveLockStep, MarkDoneStep, MarkFailedStep, StopStep, MarkRaisesStep DEF Drain
    <2>2. CASE \E p \in Processes : Teardown(p) \/ Start(p) \/ KillProcess(p)
      BY <2>2, TeardownStep, StartStep, KillProcessStep
    <2>3. CASE \E p \in Processes, t \in Transcripts : Enqueue(p, t)
      BY <2>3, EnqueueStep
    <2>4. CASE ReviveDead
      BY <2>4, ReviveDeadStep
    <2>5. CASE \E x \in Texts : ToolAdd(x) \/ ToolRemove(x) \/ StoreUnchecked(x)
      BY <2>5, ToolAddStep, ToolRemoveStep, StoreUncheckedStep
    <2>7. CASE \E x, y \in Texts : ToolReplace(y, x) \/ ToolEdit(y, x)
      BY <2>7, ToolReplaceStep, ToolEditStep
    <2>6. CASE \E r \in Rows : Lapse(r) \/ Reopen(r) \/ Age(r)
      BY <2>6, TimeStep
    <2> QED
      BY <1>2, <2>1, <2>2, <2>3, <2>4, <2>5, <2>6, <2>7 DEF QueueNext
  <1> QED
    BY <1>1, <1>2

LEMMA QueueFits == QueueSpec => []QueueIInv
  BY QueueInitFits, QueueStepFits, PTL DEF QueueSpec

(* Only MarkDone completes a row. *)
NoneCompleted == \A r \in Rows : rows'[r].status = "done" => rows[r].status = "done"

LEMMA DrainCompletesNone ==
    ASSUME QueueIInv, NEW w \in Workers, Drain(w) \/ MarkRaises(w), ~MarkDone(w)
    PROVE  NoneCompleted
  <1>1. rows \in [Rows -> QueueRow0]
    BY DEF QueueIInv, TableFits
  <1>2. CASE UNCHANGED rows
    BY <1>2 DEF NoneCompleted
  <1>3. CASE Claim(w)
    <2>1. PICK s \in Due(w) :
            rows' = [rows EXCEPT ![s].status = "processing", ![s].lease = w, ![s].lapsed = FALSE]
      BY <1>3 DEF Claim
    <2>2. s \in Rows
      BY DEF Due
    <2> QED
      BY <1>1, <2>1, <2>2 DEF NoneCompleted, QueueRow0
  <1> DEFINE s == workers[w].row
  <1>4. CASE SaveProposals(w)
    <2>1. s \in Rows
      BY <1>4 DEF SaveProposals, QueueIInv, AnswerFits, Working, At
    <2> QED
      BY <1>1, <1>4, <2>1 DEF SaveProposals, NoneCompleted, QueueRow0
  <1>5. CASE MarkFailed(w) /\ ~UNCHANGED rows
    <2>1. /\ s \in Rows /\ Holds(w) /\ workers[w].error \in {"none", "error", "quota"}
          /\ rows' = [rows EXCEPT ![s] = Failed(@, workers[w].error)]
      BY <1>5 DEF MarkFailed, QueueIInv, AnswerFits, Working, At, Worker0
    <2>2. rows[s].status = "processing" /\ rows[s].attempts < MaxAttempts
      BY <2>1 DEF Holds, QueueIInv, TableFits, ActiveRow
    <2> DEFINE new == Failed(rows[s], workers[w].error)
    <2>3. new.status \in {"pending", "dead"} /\ rows' = [rows EXCEPT ![s] = new]
      BY <1>1, <2>1, <2>2, FailedFits
    <2> HIDE DEF new
    <2> QED
      BY <1>1, <2>1, <2>3 DEF NoneCompleted
  <1>6. CASE MarkRaises(w) /\ ~UNCHANGED rows
    <2>1. s \in Rows /\ rows' = [rows EXCEPT ![s] = [Unleased(@) EXCEPT !.status = "pending"]]
      BY <1>6 DEF MarkRaises, QueueIInv, AnswerFits, Working, At
    <2> DEFINE new == [Unleased(rows[s]) EXCEPT !.status = "pending"]
    <2>2. new.status = "pending" /\ rows' = [rows EXCEPT ![s] = new]
      BY <1>1, <2>1 DEF Unleased, QueueRow0
    <2> HIDE DEF new
    <2> QED
      BY <1>1, <2>1, <2>2 DEF NoneCompleted
  <1> QED
    BY <1>2, <1>3, <1>4, <1>5, <1>6
    DEF Drain, Extract, Enter, Screen, StoreFact, LeaveLock, Stop

LEMMA OthersCompleteNone ==
    ASSUME QueueIInv, QueueNext, ~\E w \in Workers : Drain(w) \/ MarkRaises(w)
    PROVE  NoneCompleted
  <1>1. rows \in [Rows -> QueueRow0]
    BY DEF QueueIInv, TableFits
  <1>2. CASE UNCHANGED rows
    BY <1>2 DEF NoneCompleted
  <1>3. ASSUME NEW p \in Processes, NEW t \in Transcripts, Enqueue(p, t) PROVE NoneCompleted
    <2>1. PICK s \in Rows :
            rows' = [rows EXCEPT ![s] = [NoRow EXCEPT !.status = "pending", !.transcript = t]]
      BY <1>3 DEF Enqueue
    <2> QED
      BY <1>1, <2>1 DEF NoneCompleted, NoRow
  <1>4. ASSUME NEW ids, rows' = Revived(ids) PROVE NoneCompleted
    BY <1>1, <1>4 DEF NoneCompleted, Revived, Unleased, QueueRow0
  <1>5. ASSUME NEW r \in Rows, Lapse(r) \/ Reopen(r) \/ Age(r) PROVE NoneCompleted
    BY <1>1, <1>5 DEF NoneCompleted, Lapse, Reopen, Age, QueueRow0
  <1>6. ASSUME NEW p \in Processes, KillProcess(p) PROVE NoneCompleted
    BY <1>1, <1>6 DEF NoneCompleted, KillProcess, QueueRow0
  <1> QED
    BY <1>2, <1>3, <1>4, <1>5, <1>6 
    DEF QueueNext, Teardown, Start, ReviveDead, ToolAdd, ToolRemove, StoreUnchecked,
        ToolReplace, ToolEdit

(* Workers of several processes and generations stay out of each other's   *)
(* way: one active row per transcript, no answer of the model inserted for *)
(* a row but the one saved in it, no store closed under its worker.        *)
THEOREM QueueIsSound == QueueSpec => []QueueSound
  <1>1. QueueIInv => QueueSound
    <2> SUFFICES ASSUME QueueIInv PROVE QueueSound
      OBVIOUS
    <2>1. QueueTypeOK
      BY DEF QueueIInv, TableFits, TextsFit, ProcessesFit, QueueTypeOK, QueueRow0, Worker0
    <2>2. OneActiveRow /\ InsertsSavedProposals
      BY DEF QueueIInv, TableFits, AnswerFits, InsertsSavedProposals
    <2>3. ClosedStoreUnused
      BY DEF QueueIInv, ProcessesFit, ClosedStoreUnused
    <2> QED
      BY <2>1, <2>2, <2>3 DEF QueueSound
  <1> QED
    BY <1>1, QueueFits, PTL

(* What was stored after a search that answered is in force once, not in   *)
(* different words: it is looked for and inserted under one lock, which is *)
(* taken and kept in the right order, whatever is stored unsearched.       *)
THEOREM NothingIsRestated == QueueSpec => []NoRestatedFacts
  <1>1. QueueIInv => NoRestatedFacts
    BY DEF QueueIInv, TextsFit
  <1> QED
    BY <1>1, QueueFits, PTL

(* A row is completed only when each of its proposals is stored, restates  *)
(* or would update a fact that was, or has been removed or rewritten.      *)
THEOREM CompletionLosesNothing == QueueSpec => CompletedIsAccounted
  <1> DEFINE Completed ==
        \A r \in Rows : rows'[r].status = "done" /\ rows[r].status # "done" =>
          rows[r].proposals # None /\ \A x \in ToSet(rows[r].proposals) : Accounted(x)
  <1>1. QueueIInv /\ [QueueNext]_queueVars => [Completed]_queueVars
    <2> SUFFICES ASSUME QueueIInv, QueueNext, NEW r \in Rows,
                        rows'[r].status = "done", rows[r].status # "done"
                 PROVE  rows[r].proposals # None
                        /\ \A x \in ToSet(rows[r].proposals) : Accounted(x)
      OBVIOUS
    <2>1. PICK w \in Workers : MarkDone(w)
      BY DrainCompletesNone, OthersCompleteNone DEF NoneCompleted
    <2>2. /\ AnswerFits(w) /\ InsertionFits(w) /\ At(w, "inserted")
          /\ rows \in [Rows -> QueueRow0] /\ workers[w].row \in Rows
      BY <2>1 DEF MarkDone, QueueIInv, TableFits, AnswerFits, Working, At
    <2>3. r = workers[w].row
      BY <2>1, <2>2 DEF MarkDone
    <2>4. workers[w].facts = rows[r].proposals /\ workers[w].facts \in Extractions
      BY <2>2, <2>3 DEF AnswerFits, At
    <2>5. \A x \in ToSet(workers[w].facts) : Accounted(x)
      BY <2>2 DEF InsertionFits, Locked
    <2> QED
      BY <2>4, <2>5, LegacyQueueAssumption
  <1>2. QueueSpec => [][Completed]_queueVars
    BY <1>1, QueueFits, PTL DEF QueueSpec
  <1> QED
    BY <1>2 DEF CompletedIsAccounted

===============================================================================
