---------------------------- MODULE LegacyFacts -----------------------------
(***************************************************************************)
(* The fact table of the in-process (v0) provider and what hangs on it.    *)
(* The agent and an MCP server write it, each through one connection, and  *)
(* additions take the cross-process lock, but the parent plugin's update   *)
(* and remove do not.  The parent's add commits by itself, so in the agent *)
(* an addition that replaces a fact is two transactions; the MCP server    *)
(* makes it one.  Reflection asks a model about a cluster of facts without *)
(* any lock.  Vectors are written by a pool of threads, healed by a        *)
(* backfill, and read through a matrix that each connection caches.        *)
(***************************************************************************)
EXTENDS Legacy, Naturals, FiniteSets

CONSTANTS
    Mcp,         \* the processes that are MCP servers
    Insights,    \* contents a reflection may come up with
    MaxFacts,    \* bound on rows ever inserted
    Budgets      \* bounds on what the world does, one of which is chosen

Contents == Texts \cup Insights

(* What the world may do: each kind but embedder is used up; with embedder *)
(* the embedding backend was available at start-up.  A supersession is     *)
(* refused before it writes, for a typed or disputed fact, or is in error  *)
(* and rolled back; uncascaded, it leaves insights on the fact in force.   *)
Kinds == {"add", "replace", "mirror", "update", "remove", "reflect", "crash", "error",
          "refused", "uncascaded", "embedfail", "rebuild", "embedder"}

ASSUME LegacyFactsAssumption ==
    /\ Mcp \subseteq Processes /\ None \notin Processes \cup Contents
    /\ MaxFacts \in Nat /\ Budgets \subseteq [Kinds -> Nat]
    /\ \A x, y \in Contents : /\ <<x, y>> \in Near => <<y, x>> \in Near
                              /\ <<x, y>> \in Updates => <<y, x>> \in Updates

VARIABLES
    facts,       \* fact_id -> row
    holder,      \* process inside the cross-process write lock, or None
    adding,      \* process -> addition it is in the middle of
    reflecting,  \* process -> insight it is about to store, and its sources
    tasks,       \* embedding tasks in the pools
    filling,     \* process -> facts its backfill has read and not yet embedded
    vectors,     \* fact_id -> text embedded in its stored vector, or None
    cached,      \* process -> vectors in its matrix cache, or None
    foreign,     \* processes that see another data_version than when they cached
    budget

vars == <<facts, holder, adding, reflecting, tasks, filling, vectors, cached, foreign, budget>>

Ids == 1..MaxFacts

NoFact == [text |-> None, state |-> "none", by |-> 0, cites |-> {}, cascade |-> "run"]

NoInsight == [cites |-> {}, text |-> None]

NoAdd == [pc |-> "none", text |-> None, target |-> 0, new |-> 0]

TypeOK ==
    /\ facts \in [Ids -> [text : Contents \cup {None},
                          state : {"none", "active", "retired", "removed"},
                          by : 0..MaxFacts, cites : SUBSET Ids, cascade : {"run", "failed"}]]
    /\ \A i, j \in Ids : facts[i].state \in {"active", "retired"}
           /\ facts[j].state \in {"active", "retired"} /\ facts[i].text = facts[j].text => i = j
    /\ holder \in Processes \cup {None}
    /\ adding \in [Processes -> [pc : {"none", "screened", "stored", "found"},
                                 text : Contents \cup {None},
                                 target : 0..MaxFacts, new : 0..MaxFacts]]
    /\ \A p \in Processes : adding[p].pc # "none" <=> holder = p
    /\ reflecting \in [Processes -> [cites : SUBSET Ids, text : Insights \cup {None}]]
    /\ tasks \subseteq [process : Processes, id : Ids, text : Contents]
    /\ \A p \in Processes : filling[p] \subseteq Ids \X Contents
    /\ vectors \in [Ids -> Contents \cup {None}]
    /\ \A p \in Processes : cached[p] \in [Ids -> Contents \cup {None}] \cup {None}
    /\ foreign \subseteq Processes
    /\ budget \in [Kinds -> Nat]

Init ==
    /\ facts = [i \in Ids |-> NoFact]
    /\ holder = None
    /\ adding = [p \in Processes |-> NoAdd]
    /\ reflecting = [p \in Processes |-> NoInsight]
    /\ tasks = {}
    /\ filling = [p \in Processes |-> {}]
    /\ vectors = [i \in Ids |-> None]
    /\ cached = [p \in Processes |-> None]
    /\ foreign = {}
    /\ budget \in Budgets

Spend(kind) == budget[kind] > 0 /\ budget' = [budget EXCEPT ![kind] = @ - 1]

Active(i) == facts[i].state = "active"

Stored(i) == facts[i].state \in {"active", "retired"}

Fresh == {i \in Ids : facts[i].state = "none" /\ \A j \in 1..(i - 1) : facts[j].state # "none"}

Holding(x) == {i \in Ids : Stored(i) /\ facts[i].text = x}

Row(x, cites) == [NoFact EXCEPT !.text = x, !.state = "active", !.cites = cites]

(* invalidate_insights_citing: insights go with the fact they cite.        *)
Cascade(table, old) ==
    [i \in Ids |-> IF table[i].state = "active" /\ old \in table[i].cites
                   THEN [table[i] EXCEPT !.state = "retired"] ELSE table[i]]

(* temporal.supersede, for a fact that is still in force, and the cascade. *)
Replaced(table, old, new) == [table EXCEPT ![old].state = "retired", ![old].by = new]

Supersede(table, old, new) == Cascade(Replaced(table, old, new), old)

Embedder == budget["embedder"] > 0

(* _submit_embed, when there is a backend.                                 *)
WithTask(p, i, x) ==
    IF Embedder THEN tasks \cup {[process |-> p, id |-> i, text |-> x]} ELSE tasks

-----------------------------------------------------------------------------
(* Additions.                                                              *)

Restated(x) == \E i \in Ids : Active(i) /\ (facts[i].text = x \/ <<x, facts[i].text>> \in Near)

Targets(x) == {i \in Ids : Active(i) /\ <<x, facts[i].text>> \in Updates}

(* The lock is taken and the text is looked up: a restatement is not       *)
(* stored; a fact of which it is a value update will be superseded.        *)
StartAdd(p, x) ==
    /\ holder = None
    /\ Spend("add")
    /\ ~Restated(x)
    /\ \E target \in (IF Targets(x) = {} THEN {0} ELSE Targets(x)) :
         adding' = [adding EXCEPT ![p] = [NoAdd EXCEPT !.pc = "screened", !.text = x,
                                                       !.target = target]]
    /\ holder' = p
    /\ UNCHANGED <<facts, reflecting, tasks, filling, vectors, cached, foreign>>

EndAdd(p) ==
    /\ holder' = None
    /\ adding' = [adding EXCEPT ![p] = NoAdd]

(* The agent: the parent inserts the row and commits, or finds the text    *)
(* stored already, in force or not, and leaves the transaction open.       *)
StoreAdd(p) ==
    /\ p \notin Mcp
    /\ adding[p].pc = "screened"
    /\ LET x == adding[p].text IN
       \E new \in (IF Holding(x) = {} THEN Fresh ELSE Holding(x)) :
         /\ facts' = IF Holding(x) = {} THEN [facts EXCEPT ![new] = Row(x, {})] ELSE facts
         /\ IF adding[p].target = 0
            THEN /\ EndAdd(p)
                 /\ tasks' = WithTask(p, new, x)
            ELSE /\ adding' = [adding EXCEPT ![p].new = new,
                                              ![p].pc = IF Holding(x) = {} THEN "stored"
                                                        ELSE "found"]
                 /\ UNCHANGED <<holder, tasks>>
    /\ UNCHANGED <<reflecting, filling, vectors, cached, foreign, budget>>

(* Mutant: a refused supersession is not made up for.                      *)
SupersedeAddUncompensated(p) ==
    /\ adding[p].pc \in {"stored", "found"}
    /\ LET old == adding[p].target
           new == adding[p].new
       IN  \/ /\ Active(old) /\ old # new
              /\ facts' = Supersede(facts, old, new)
              /\ tasks' = WithTask(p, new, adding[p].text)
              /\ UNCHANGED budget
           \/ /\ adding[p].pc = "stored"
              /\ Spend("refused")
              /\ UNCHANGED <<facts, tasks>>
           \/ /\ IF Active(old) /\ old # new THEN Spend("error") ELSE UNCHANGED budget
              /\ UNCHANGED <<facts, tasks>>
    /\ EndAdd(p)
    /\ UNCHANGED <<reflecting, filling, vectors, cached, foreign>>

(* The agent's second transaction.  When the supersession is refused, no   *)
(* transaction is open and the new fact is withdrawn again, unless it is   *)
(* all there is.  When the target has gone out of force, or a statement    *)
(* fails after one has begun, that is rolled back and nothing is made up.  *)
SupersedeAdd(p) ==
    /\ adding[p].pc \in {"stored", "found"}
    /\ LET old == adding[p].target
           new == adding[p].new
       IN  \/ /\ Active(old) /\ old # new
              /\ facts' = Supersede(facts, old, new)
              /\ tasks' = WithTask(p, new, adding[p].text)
              /\ UNCHANGED budget
           \/ /\ adding[p].pc = "stored"
              /\ Spend("refused")
              /\ facts' = IF Active(old) /\ Active(new)
                          THEN [facts EXCEPT ![new].state = "retired"] ELSE facts
              /\ UNCHANGED tasks
           \/ /\ IF Active(old) /\ old # new THEN Spend("error") ELSE UNCHANGED budget
              /\ UNCHANGED <<facts, tasks>>
    /\ EndAdd(p)
    /\ UNCHANGED <<reflecting, filling, vectors, cached, foreign>>

(* Mutant: the row found may be out of force.                              *)
McpAddUnchecked(p) ==
    /\ p \in Mcp
    /\ adding[p].pc = "screened"
    /\ LET x == adding[p].text
           old == adding[p].target
           inserted == Holding(x) = {}
       IN  \E new \in (IF inserted THEN Fresh ELSE Holding(x)) :
             LET table == IF inserted THEN [facts EXCEPT ![new] = Row(x, {})] ELSE facts
                 done == old = 0 \/ (old # new /\ Active(old))
             IN  /\ facts' = IF ~done THEN facts
                             ELSE IF old = 0 THEN table ELSE Supersede(table, old, new)
                 /\ tasks' = IF done /\ inserted THEN WithTask(p, new, x) ELSE tasks
    /\ EndAdd(p)
    /\ UNCHANGED <<reflecting, filling, vectors, cached, foreign, budget>>

(* The MCP server's transaction: both or, when the row found is not in     *)
(* force or the target is not any more, neither.                           *)
McpAdd(p) ==
    /\ p \in Mcp
    /\ adding[p].pc = "screened"
    /\ LET x == adding[p].text
           old == adding[p].target
           inserted == Holding(x) = {}
       IN  \E new \in (IF inserted THEN Fresh ELSE Holding(x)) :
             LET table == IF inserted THEN [facts EXCEPT ![new] = Row(x, {})] ELSE facts
                 done == old = 0 \/ (old # new /\ table[new].state = "active" /\ Active(old))
             IN  /\ facts' = IF ~done THEN facts
                             ELSE IF old = 0 THEN table ELSE Supersede(table, old, new)
                 /\ tasks' = IF done /\ inserted THEN WithTask(p, new, x) ELSE tasks
    /\ EndAdd(p)
    /\ UNCHANGED <<reflecting, filling, vectors, cached, foreign, budget>>

(* memory_supersede: an explicit replacement, one transaction under the    *)
(* lock.  A text stored already is reused when it is in force.  An error   *)
(* of the cascade is swallowed, and the rest of the transaction commits.   *)
McpReplace(p, old, x) ==
    /\ p \in Mcp /\ holder = None
    /\ Active(old)
    /\ \E new \in (IF Holding(x) = {} THEN Fresh ELSE Holding(x)) :
         LET inserted == Holding(x) = {}
             table == IF inserted THEN [facts EXCEPT ![new] = Row(x, {})] ELSE facts
         IN  /\ new # old /\ table[new].state = "active"
             /\ \/ /\ Spend("replace")
                   /\ facts' = Supersede(table, old, new)
                \/ /\ budget["replace"] > 0 /\ budget["uncascaded"] > 0
                   /\ budget' = [budget EXCEPT !["replace"] = @ - 1, !["uncascaded"] = @ - 1]
                   /\ facts' = [Replaced(table, old, new) EXCEPT ![old].cascade = "failed"]
             /\ tasks' = IF inserted THEN WithTask(p, new, x) ELSE tasks
    /\ UNCHANGED <<holder, adding, reflecting, filling, vectors, cached, foreign>>

(* on_memory_write: the host's own memory is mirrored, without looking for *)
(* restatements or values it changes.                                      *)
Mirror(p, x) ==
    /\ p \notin Mcp /\ holder = None
    /\ Spend("mirror")
    /\ \E i \in (IF Holding(x) = {} THEN Fresh ELSE Holding(x)) :
         /\ facts' = IF Holding(x) = {} THEN [facts EXCEPT ![i] = Row(x, {})] ELSE facts
         /\ tasks' = WithTask(p, i, x)
    /\ UNCHANGED <<holder, adding, reflecting, filling, vectors, cached, foreign>>

(* Mutant: the writing process keeps its own cache, which its own writes   *)
(* do not invalidate through data_version.                                 *)
WriteVectorsOnly(p, new) ==
    /\ vectors' = new
    /\ foreign' = foreign \cup (Processes \ {p})
    /\ UNCHANGED cached

(* The mutation of the vector table by process p: its own cache goes, the  *)
(* other connections will see a new data_version.                          *)
WriteVectors(p, new) ==
    /\ vectors' = new
    /\ cached' = [cached EXCEPT ![p] = None]
    /\ foreign' = (foreign \ {p}) \cup (Processes \ {p})

(* fact_store update and remove: the parent's, under no lock but SQLite's. *)
(* The text stays unique.  A changed text is embedded, or its vector goes. *)
Update(p, i, x) ==
    /\ p \notin Mcp /\ Stored(i) /\ Holding(x) = {}
    /\ Spend("update")
    /\ facts' = [facts EXCEPT ![i].text = x]
    /\ tasks' = WithTask(p, i, x)
    /\ IF Embedder THEN UNCHANGED <<vectors, cached, foreign>>
       ELSE WriteVectors(p, [vectors EXCEPT ![i] = None])
    /\ UNCHANGED <<holder, adding, reflecting, filling>>

RemoveFact(p, i) ==
    /\ p \notin Mcp /\ Stored(i)
    /\ Spend("remove")
    /\ facts' = [facts EXCEPT ![i].state = "removed"]
    /\ WriteVectors(p, [vectors EXCEPT ![i] = None])
    /\ UNCHANGED <<holder, adding, reflecting, tasks, filling>>

-----------------------------------------------------------------------------
(* Reflection.                                                             *)

(* A fact in force that is not an insight; an edited insight remains one.  *)
Source(i) == Active(i) /\ facts[i].cites = {}

(* A cluster is chosen and the model draws an insight from at least two of *)
(* its facts, outside every lock.                                          *)
Reflect(p) ==
    /\ reflecting[p] = NoInsight
    /\ Spend("reflect")
    /\ \E cites \in SUBSET {i \in Ids : Source(i)} :
         /\ Cardinality(cites) >= 2
         /\ reflecting' = [reflecting EXCEPT ![p].cites = cites]
    /\ UNCHANGED <<facts, holder, adding, tasks, filling, vectors, cached, foreign>>

(* The answer is dropped when it restates a fact in force: no lock yet.    *)
Compare(p) ==
    /\ reflecting[p].cites # {} /\ reflecting[p].text = None
    /\ \E x \in Insights :
         reflecting' = [reflecting EXCEPT ![p] =
                          IF Restated(x) THEN NoInsight ELSE [@ EXCEPT !.text = x]]
    /\ UNCHANGED <<facts, holder, adding, tasks, filling, vectors, cached, foreign, budget>>

(* Mutant: the sources are not looked at again after the model call.       *)
InsertInsightUnchecked(p) ==
    /\ reflecting[p].text # None
    /\ holder = None
    /\ LET x == reflecting[p].text IN
       \E i \in (IF Holding(x) = {} THEN Fresh ELSE Holding(x)) :
         /\ facts' = IF Holding(x) = {} THEN [facts EXCEPT ![i] = Row(x, reflecting[p].cites)]
                     ELSE facts
         /\ tasks' = WithTask(p, i, x)
    /\ reflecting' = [reflecting EXCEPT ![p] = NoInsight]
    /\ UNCHANGED <<holder, adding, filling, vectors, cached, foreign, budget>>

(* Under the cross-process lock and the store lock its sources are looked  *)
(* at once more, and the insight is added or dropped.                      *)
InsertInsight(p) ==
    /\ reflecting[p].text # None
    /\ holder = None
    /\ LET x == reflecting[p].text IN
       \E i \in (IF Holding(x) = {} THEN Fresh ELSE Holding(x)) :
         IF \A c \in reflecting[p].cites : Source(c)
         THEN /\ facts' = IF Holding(x) = {} THEN [facts EXCEPT ![i] = Row(x, reflecting[p].cites)]
                          ELSE facts
              /\ tasks' = WithTask(p, i, x)
         ELSE UNCHANGED <<facts, tasks>>
    /\ reflecting' = [reflecting EXCEPT ![p] = NoInsight]
    /\ UNCHANGED <<holder, adding, filling, vectors, cached, foreign, budget>>

-----------------------------------------------------------------------------
(* Vectors.                                                                *)

(* A pool thread embeds the text its task was given and stores the vector; *)
(* or the backend fails and the task is gone.  Tasks finish in any order.  *)
Embed(k) ==
    /\ k \in tasks
    /\ tasks' = tasks \ {k}
    /\ \/ /\ WriteVectors(k.process, [vectors EXCEPT ![k.id] = k.text])
          /\ UNCHANGED budget
       \/ /\ Spend("embedfail")
          /\ UNCHANGED <<vectors, cached, foreign>>
    /\ UNCHANGED <<facts, holder, adding, reflecting, filling>>

(* The backfill reads the facts that have no vector ...                    *)
Backfill(p) ==
    /\ Embedder
    /\ filling[p] = {}
    /\ filling' = [filling EXCEPT ![p] =
         {<<i, facts[i].text>> : i \in {j \in Ids : Stored(j) /\ vectors[j] = None}}]
    /\ filling' # filling
    /\ UNCHANGED <<facts, holder, adding, reflecting, tasks, vectors, cached, foreign, budget>>

(* ... embed_rebuild reads all facts ...                                   *)
Rebuild(p) ==
    /\ Embedder
    /\ filling[p] = {}
    /\ Spend("rebuild")
    /\ filling' = [filling EXCEPT ![p] = {<<i, facts[i].text>> : i \in {j \in Ids : Stored(j)}}]
    /\ UNCHANGED <<facts, holder, adding, reflecting, tasks, vectors, cached, foreign>>

(* ... and both embed the texts they read, one after the other, or fail.   *)
FillOne(p) ==
    /\ \E e \in filling[p] :
         /\ \A f \in filling[p] : e[1] <= f[1]
         /\ \/ /\ WriteVectors(p, [vectors EXCEPT ![e[1]] = e[2]])
               /\ UNCHANGED budget
            \/ /\ Spend("embedfail")
               /\ UNCHANGED <<vectors, cached, foreign>>
         /\ filling' = [filling EXCEPT ![p] = @ \ {e}]
    /\ UNCHANGED <<facts, holder, adding, reflecting, tasks>>

(* _embedding_matrix: a cache of the current data_version is used as it    *)
(* is, any other is loaded again.                                          *)
Hit(p) == cached[p] # None /\ p \notin foreign

LoadMatrix(p) ==
    /\ Embedder /\ ~Hit(p)
    /\ cached' = [cached EXCEPT ![p] = vectors]
    /\ foreign' = foreign \ {p}
    /\ UNCHANGED <<facts, holder, adding, reflecting, tasks, filling, vectors, budget>>

(* A process is killed and started again: what was committed stays.        *)
Crash(p) ==
    /\ Spend("crash")
    /\ holder' = IF holder = p THEN None ELSE holder
    /\ adding' = [adding EXCEPT ![p] = NoAdd]
    /\ reflecting' = [reflecting EXCEPT ![p] = NoInsight]
    /\ tasks' = {k \in tasks : k.process # p}
    /\ filling' = [filling EXCEPT ![p] = {}]
    /\ cached' = [cached EXCEPT ![p] = None]
    /\ foreign' = foreign \ {p}
    /\ UNCHANGED <<facts, vectors>>

Next ==
    \E p \in Processes :
        \/ \E x \in Contents : StartAdd(p, x) \/ Mirror(p, x)
        \/ StoreAdd(p) \/ SupersedeAdd(p) \/ McpAdd(p)
        \/ \E i \in Ids, x \in Contents : McpReplace(p, i, x) \/ Update(p, i, x)
        \/ \E i \in Ids : RemoveFact(p, i)
        \/ Reflect(p) \/ Compare(p) \/ InsertInsight(p)
        \/ \E k \in tasks : k.process = p /\ Embed(k)
        \/ Backfill(p) \/ Rebuild(p) \/ FillOne(p) \/ LoadMatrix(p)
        \/ Crash(p)

Spec == Init /\ [][Next]_vars

(* Started threads go on and the backfill runs every quarter of an hour.   *)
FairSpec ==
    /\ Spec
    /\ \A p \in Processes :
         /\ WF_vars(StoreAdd(p) \/ SupersedeAdd(p) \/ McpAdd(p))
         /\ WF_vars(Compare(p) \/ InsertInsight(p))
         /\ WF_vars(\E k \in tasks : k.process = p /\ Embed(k))
         /\ WF_vars(Backfill(p))
         /\ WF_vars(FillOne(p))

-----------------------------------------------------------------------------
(* Properties.                                                             *)

(* An insight in force rests on facts that nobody superseded: whatever     *)
(* superseded one of its sources, before, during or after the model call,  *)
(* retired the insight too; and none of its sources is an insight, so that *)
(* one round of retirements is enough.  The exception is a memory_supersede*)
(* whose own cascade failed, which it does not report.  (Removing or       *)
(* editing a source, or withdrawing it after a refusal, does not retire    *)
(* the insight.)                                                           *)
InsightsGrounded ==
    \A i \in Ids : Active(i) => \A c \in facts[i].cites :
        /\ facts[c].cites = {}
        /\ facts[c].state = "retired" => facts[c].by = 0 \/ facts[c].cascade = "failed"

(* The facts of both processes are well formed: a text is on record once,  *)
(* only the holder of the lock is adding, and insights rest on sources     *)
(* that nobody superseded.                                                 *)
FactsSound == TypeOK /\ InsightsGrounded

(* An addition that replaces a fact and returns has not left both in       *)
(* force, though its two transactions can be separated by an update or a   *)
(* removal and the supersession can be refused; unless a statement of the  *)
(* second transaction fails: it is rolled back, the new fact is not        *)
(* withdrawn, and the answer says supersede_failed.                        *)
ReplacementSettles ==
    [][\A p \in Processes :
         /\ adding[p].target # 0 /\ adding'[p] = NoAdd
         /\ budget'["crash"] = budget["crash"] /\ budget'["error"] = budget["error"]
         => \A i \in Ids \ {adding[p].target} :
              /\ facts'[i].text = adding[p].text
              /\ adding[p].new \in {0, i}
              => ~(facts'[i].state = "active" /\ facts'[adding[p].target].state = "active")]_vars

(* What the MCP server supersedes is replaced by a fact in force, unless   *)
(* the replacement is an insight that cites it: superseding its source     *)
(* retires an insight, also the one that was to be the successor.          *)
McpSuccessorInForce ==
    [][\A i \in Ids : Active(i) /\ facts'[i].state = "retired" /\ facts'[i].by # 0
         /\ (holder = None \/ holder \in Mcp) =>
           LET new == facts'[i].by
           IN  facts'[new].state = "active" \/ i \in facts'[new].cites]_vars

(* Both ways of replacing a fact: the agent's does not leave both in force,*)
(* the MCP server's leaves the new one in force.                           *)
ReplacementsSettle == ReplacementSettles /\ McpSuccessorInForce

(* A search that uses its cached matrix uses the vectors that are stored.  *)
CacheCoherent == \A p \in Processes : Hit(p) => cached[p] = vectors

=============================================================================
