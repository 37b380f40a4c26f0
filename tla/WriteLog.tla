------------------------------ MODULE WriteLog ------------------------------
(***************************************************************************)
(* Durable writes as their clients see them: a front end derives a key,    *)
(* opens a connection per request and may lose the answer; the daemon      *)
(* writes the log row of the key, the fact, the observation that supports  *)
(* it and the link between them in one transaction, and replays the row    *)
(* when the key comes again.  The daemon may die, be restarted with other  *)
(* grants, and be stopped for a privacy erasure.                           *)
(***************************************************************************)
EXTENDS Naturals

CONSTANTS
    Orders,
    Order,       \* order -> the request a host asks a front end for
    Sessions, Keys, Texts, Evidence,
    Scopes,      \* scopes the sessions ask for
    RunScopes,   \* the scopes of single runs
    Secrets,     \* texts the credential screen rejects
    None,
    Unique,      \* a hash made up for one observation, that no write computes
    MaxFacts, MaxObservations,
    Budgets      \* bounds on what the world does, one of which is chosen

ASSUME WriteLogAssumption ==
    /\ Secrets \subseteq Texts /\ None \notin Texts \cup Evidence
    /\ MaxFacts \in Nat /\ MaxObservations \in Nat
    /\ RunScopes \subseteq Scopes
    /\ Order \in [Orders -> [session : Sessions, key : Keys, method : {"write", "promote"},
                            text : Texts, evidence : Evidence, scope : Scopes,
                            target : 0..MaxFacts]]
    /\ \A o \in Orders : Order[o].method = "promote" =>
         Order[o].scope \notin RunScopes /\ Order[o].target # 0

VARIABLES
    facts,         \* fact_id -> row of facts
    observations,  \* observation_id -> row of observations
    provenance,    \* <<fact_id, observation_id>> links
    log,           \* key -> row of memory_write_log, or None
    sessions,      \* session -> access scopes it is registered with, or None
    grants,        \* scopes the server's configuration grants
    calls,         \* order -> copies of its request the daemon still holds
    state,         \* order -> what the front end is doing about it
    told,          \* <<key, row>> pairs the front ends were told
    budget

vars == <<facts, observations, provenance, log, sessions, grants, calls, state, told, budget>>

(* What the world may do.  An ask is a request of a host, not its retries. *)
Kinds == {"ask", "loss", "kill", "fail", "regrant", "erase"}

ASSUME BudgetAssumption == Budgets \subseteq [Kinds -> Nat]

FactIds == 1..MaxFacts

ObservationIds == 1..MaxObservations

NoFact == [state |-> "none", text |-> None, scope |-> None, key |-> None]

NoObservation == [hash |-> None, content |-> None]

(* A promotion repeats the text of its source.                             *)
Text(o) == IF Order[o].method = "promote" THEN facts[Order[o].target].text ELSE Order[o].text

(* What _request_sha256 covers: the session is not part of it.             *)
Body(o) == <<Text(o), Order[o].evidence, Order[o].scope, Order[o].method, Order[o].target>>

Bodies == Texts \X Evidence \X Scopes \X {"write", "promote"} \X (0..MaxFacts)

(* A row of the log, all of which an answer shows.  The detail is scrubbed *)
(* by an erasure.                                                          *)
Rows == [outcome : {"inserted", "dedup", "near_dedup", "rejected"}, fact : 0..MaxFacts,
         existing : 0..MaxFacts, observation : 0..MaxObservations,
         detail : {"full", "erased"}, body : Bodies]

(* What _observation_sha256 covers.                                        *)
Hash(o) == <<Order[o].session, Order[o].evidence, Order[o].scope, Order[o].method>>

(* NULL is no row, no answer and no content; no write computes Unique.     *)
ASSUME NullAssumption ==
    /\ None \notin Rows \cup Keys /\ None # "erased"
    /\ \A o \in Orders : Hash(o) # Unique

TypeOK ==
    /\ facts \in [FactIds -> [state : {"none", "active", "superseded", "erased"},
                              text : Texts \cup {None}, scope : Scopes \cup {None},
                              key : Keys \cup {None}]]
    /\ observations \in [ObservationIds -> [hash : {Hash(o) : o \in Orders} \cup {None, Unique},
                                            content : Evidence \cup {None, "erased"}]]
    /\ \A i, j \in ObservationIds :
         observations[i].hash = observations[j].hash /\ i # j =>
             observations[i].hash \in {None, Unique}
    /\ provenance \subseteq FactIds \X ObservationIds
    /\ log \in [Keys -> Rows \cup {None}]
    /\ sessions \in [Sessions -> (SUBSET Scopes) \cup {None}]
    /\ grants \subseteq Scopes
    /\ calls \in [Orders -> Nat]
    /\ state \in [Orders -> {"idle", "waiting", "failed", "done", "refused"}]
    /\ told \subseteq Keys \X Rows
    /\ budget \in [Kinds -> Nat]

Init ==
    /\ facts = [i \in FactIds |-> NoFact]
    /\ observations = [i \in ObservationIds |-> NoObservation]
    /\ provenance = {}
    /\ log = [k \in Keys |-> None]
    /\ sessions = [s \in Sessions |-> None]
    /\ grants = Scopes
    /\ calls = [o \in Orders |-> 0]
    /\ state = [o \in Orders |-> "idle"]
    /\ told = {}
    /\ budget \in Budgets

tables == <<facts, observations, provenance, log, sessions>>

Spend(kind) == budget[kind] > 0 /\ budget' = [budget EXCEPT ![kind] = @ - 1]

-----------------------------------------------------------------------------
(* Front ends.                                                             *)

(* EnfoldClient.request connects and sends the order: the host asks, for   *)
(* the first time or once more, or retries after a transport failure.      *)
Send(o) ==
    /\ state' = [state EXCEPT ![o] = "waiting"]
    /\ calls' = [calls EXCEPT ![o] = @ + 1]
    /\ UNCHANGED <<tables, grants, told>>

Ask(o) == state[o] \in {"idle", "done", "refused"} /\ Spend("ask") /\ Send(o)

Retry(o) == state[o] = "failed" /\ Send(o) /\ UNCHANGED budget

(* Mutant: a client with no timeout never notices that the daemon is gone. *)
GiveUpHeld(o) ==
    /\ state[o] = "waiting"
    /\ Spend("loss") /\ calls[o] > 0 /\ calls' \in {calls, [calls EXCEPT ![o] = @ - 1]}
    /\ state' = [state EXCEPT ![o] = "failed"]
    /\ UNCHANGED <<tables, grants, told>>

(* The connection fails or the answer takes too long: a retryable error,   *)
(* whether or not the daemon has, or will have, carried the request out.   *)
GiveUp(o) ==
    /\ state[o] = "waiting"
    /\ \/ calls[o] = 0 /\ UNCHANGED <<calls, budget>>
       \/ Spend("loss") /\ calls[o] > 0 /\ calls' \in {calls, [calls EXCEPT ![o] = @ - 1]}
    /\ state' = [state EXCEPT ![o] = "failed"]
    /\ UNCHANGED <<tables, grants, told>>

(* The answer of one copy of the request: it reaches the front end when it *)
(* is the copy the front end waits for.  It shows the row of the log, or   *)
(* none when it is an error or a decision of the moment.                   *)
Answer(o, end, rows) ==
    /\ calls' = [calls EXCEPT ![o] = @ - 1]
    /\ IF state[o] = "waiting" /\ calls[o] = 1
       THEN /\ state' = [state EXCEPT ![o] = end]
            /\ told' = told \cup ({Order[o].key} \X rows)
       ELSE UNCHANGED <<state, told>>
    /\ UNCHANGED <<grants, budget>>

Tell(o, row) == Answer(o, "done", {row})

-----------------------------------------------------------------------------
(* The daemon's write.                                                     *)

Fresh(ids, table, none) == {i \in ids : table[i] = none /\ \A j \in 1..(i - 1) : table[j] # none}

Active(i) == facts[i].state = "active"

Authorized == grants # {}

(* _register_session: the row must carry the context of this connection.   *)
Registered(o) == sessions[Order[o].session] \in {None, grants}

Register(o) == sessions' = [sessions EXCEPT ![Order[o].session] = grants]

(* The service's promote looks at its source before the write: a current   *)
(* fact of a run the client may see, for a scope granted to it.            *)
Promotable(o) ==
    Order[o].method = "promote" =>
        /\ Order[o].scope \in grants
        /\ Active(Order[o].target)
        /\ facts[Order[o].target].scope \in grants \cap RunScopes

(* No grant for the client, a session registered with other scopes, a key  *)
(* used for another body, a source that cannot be promoted: an error, and  *)
(* the transaction, if one was begun, is rolled back.                      *)
Refuse(o) ==
    /\ calls[o] > 0
    /\ \/ ~Authorized
       \/ ~Promotable(o)
       \/ ~Registered(o)
       \/ log[Order[o].key] # None /\ log[Order[o].key].body # Body(o)
    /\ Answer(o, "refused", {})
    /\ UNCHANGED tables

Accepted(o) == calls[o] > 0 /\ Authorized /\ Promotable(o) /\ Registered(o)

(* The key has been used for this body: the row is the answer.             *)
Replay(o) ==
    /\ Accepted(o)
    /\ log[Order[o].key] # None /\ log[Order[o].key].body = Body(o)
    /\ Tell(o, log[Order[o].key])
    /\ Register(o)
    /\ UNCHANGED <<facts, observations, provenance, log>>

Secret(o) == Text(o) \in Secrets

(* The fact it corrects is there, in the write's own scope.                *)
TargetAvailable(o) ==
    Order[o].method = "write" /\ Order[o].target # 0 =>
        facts[Order[o].target].state # "none" /\ facts[Order[o].target].scope = Order[o].scope

(* A decision about the request alone is recorded; one about the grants or *)
(* the tables at this moment is not.                                       *)
Reject(o) ==
    /\ Accepted(o) /\ log[Order[o].key] = None
    /\ Secret(o)
    /\ LET row == [outcome |-> "rejected", fact |-> 0, existing |-> 0, observation |-> 0,
                   detail |-> "full", body |-> Body(o)] IN
         /\ log' = [log EXCEPT ![Order[o].key] = row]
         /\ Tell(o, row)
    /\ Register(o)
    /\ UNCHANGED <<facts, observations, provenance>>

Hold(o) ==
    /\ Accepted(o) /\ log[Order[o].key] = None
    /\ ~Secret(o)
    /\ Order[o].scope \notin grants \/ ~TargetAvailable(o)
    /\ Answer(o, "done", {})
    /\ Register(o)
    /\ UNCHANGED <<facts, observations, provenance, log>>

(* _record_observation: the session's observation of the same evidence, or *)
(* a new one.                                                              *)
Observed(o) == {i \in ObservationIds : observations[i].hash = Hash(o)}

Duplicates(o) == {i \in FactIds : Active(i) /\ facts[i].text = Text(o) /\ facts[i].scope = Order[o].scope}

(* Mutant: the log row is left to a transaction of its own, which is lost. *)
RecordLater(o, row) == UNCHANGED log

Record(o, row) == log' = [log EXCEPT ![Order[o].key] = row]

Writable(o) ==
    /\ Accepted(o) /\ log[Order[o].key] = None
    /\ ~Secret(o) /\ Order[o].scope \in grants /\ TargetAvailable(o)

(* What a write leaves in one transaction: the new fact if it inserts one, *)
(* the fact out of force that it replaces, if any, the observation linked  *)
(* to the fact the outcome names, and the row.                             *)
Stored(o, new, out, seen, row) ==
    /\ facts' = [f \in FactIds |->
          LET fact == IF f \in new
                      THEN [state |-> "active", text |-> Text(o),
                            scope |-> Order[o].scope, key |-> Order[o].key]
                      ELSE facts[f]
          IN  IF f = out THEN [fact EXCEPT !.state = "superseded"] ELSE fact]
    /\ observations' = [observations EXCEPT ![seen] =
                          [hash |-> Hash(o), content |-> Order[o].evidence]]
    /\ provenance' = provenance \cup {<<row.fact, seen>>}
    /\ Record(o, row)
    /\ Register(o)
    /\ Tell(o, row)

Seen(o) == IF Observed(o) # {} THEN Observed(o)
           ELSE Fresh(ObservationIds, observations, NoObservation)

Target(o) == IF Order[o].method = "write" THEN Order[o].target ELSE 0

(* A fact is inserted, or found to be there; the one it corrects goes out  *)
(* of force, if it is another and still in force.  One that is stored in   *)
(* conflict with what it contradicts leaves the same rows, and its outcome *)
(* counts as an insert.                                                    *)
Write(o) ==
    /\ Writable(o)
    /\ \E seen \in Seen(o),
          i \in (IF Duplicates(o) # {} THEN Duplicates(o) ELSE Fresh(FactIds, facts, NoFact)) :
         LET inserted == Duplicates(o) = {}
             row == [outcome |-> IF inserted THEN "inserted" ELSE "dedup", fact |-> i,
                     existing |-> IF inserted THEN 0 ELSE i, observation |-> seen,
                     detail |-> "full", body |-> Body(o)]
         IN  IF Target(o) # 0 /\ (Target(o) = i \/ ~Active(Target(o)))
             THEN Answer(o, "refused", {}) /\ UNCHANGED tables
             ELSE Stored(o, IF inserted THEN {i} ELSE {}, Target(o), seen, row)

(* Whether another text of the scope nearly repeats this one is a property *)
(* of the words and left open, as is which of the two is trusted more.     *)
NearDuplicates(o) ==
    {i \in FactIds : Active(i) /\ facts[i].text # Text(o) /\ facts[i].scope = Order[o].scope}

(* The new fact is stored beside a near duplicate and one of the two goes  *)
(* out of force at once: the survivor is named by the outcome and gets the *)
(* evidence, so a newcomer that loses has none of its own.                 *)
Merge(o) ==
    /\ Writable(o) /\ Target(o) = 0 /\ Duplicates(o) = {}
    /\ \E seen \in Seen(o), i \in Fresh(FactIds, facts, NoFact), near \in NearDuplicates(o) :
       \E survivor \in {i, near} :
         LET row == [outcome |-> "near_dedup", fact |-> survivor, existing |-> near,
                     observation |-> seen, detail |-> "full", body |-> Body(o)]
         IN  Stored(o, {i}, IF survivor = i THEN near ELSE i, seen, row)

(* The transaction fails and is rolled back, or the daemon cannot answer.  *)
Fail(o) ==
    /\ calls[o] > 0
    /\ Spend("fail")
    /\ calls' = [calls EXCEPT ![o] = @ - 1]
    /\ UNCHANGED <<tables, grants, state, told>>

-----------------------------------------------------------------------------
(* Restarts.                                                               *)

(* The daemon dies; requests it had not carried out are gone, and waiting  *)
(* front ends will give up.                                                *)
Kill ==
    /\ Spend("kill")
    /\ calls' = [o \in Orders |-> 0]
    /\ UNCHANGED <<tables, grants, state, told>>

(* It is started with another configuration.                               *)
Regrant ==
    /\ Spend("regrant")
    /\ \E g \in SUBSET Scopes : g # grants /\ grants' = g
    /\ calls' = [o \in Orders |-> 0]
    /\ UNCHANGED <<tables, state, told>>

(* Mutant: only the first observation is read.                             *)
SourcesFirst(f) ==
    {i \in ObservationIds : <<f, i>> \in provenance /\ \A j \in 1..(i - 1) : <<f, j>> \notin provenance}

(* erase_fact on a stopped store: observations other facts share are       *)
(* cloned for them, then the fact's own lose content and hash.             *)
Sources(f) == {i \in ObservationIds : <<f, i>> \in provenance}

(* Mutant: no observation is taken to be shared.                           *)
SharedNone(f) == {}

Shared(f) == {i \in Sources(f) : \E g \in FactIds \ {f} : <<g, i>> \in provenance}

(* Mutants: the log rows of an erased fact are deleted; those of other     *)
(* facts keep the observation that was erased.                             *)
RepointedDeleted(row, f, clone) ==
    IF row # None /\ row.fact = f THEN None
    ELSE IF row # None /\ row.observation \in DOMAIN clone
    THEN [row EXCEPT !.observation = clone[@]] ELSE row

RepointedKept(row, f, clone) == row

(* The rows of other facts name the clones.                                *)
Repointed(row, f, clone) ==
    IF row # None /\ row.fact # f /\ row.observation \in DOMAIN clone
    THEN [row EXCEPT !.observation = clone[@]] ELSE row

(* Mutant: the rows that name the fact as the one it met are scrubbed too. *)
ScrubbedMet(row, f) ==
    IF row # None /\ f \in {row.fact, row.existing} THEN [row EXCEPT !.detail = "erased"] ELSE row

(* The rows that name the erased fact or its evidence lose their detail,   *)
(* once those of other facts name the clones.  (Details that contain the   *)
(* text would be scrubbed as well; those of writes quote ids and slots.)   *)
Scrubbed(row, f) ==
    IF row # None /\ row.fact = f THEN [row EXCEPT !.detail = "erased"] ELSE row

Erase(f) ==
    /\ facts[f].state \in {"active", "superseded"}
    /\ Spend("erase")
    /\ calls' = [o \in Orders |-> 0]
    /\ \E clone \in [Shared(f) -> {i \in ObservationIds : observations[i] = NoObservation}] :
         LET Clone(i) == IF i \in Shared(f) THEN clone[i] ELSE i
             Clones == {clone[i] : i \in Shared(f)}
         IN  /\ \A i, j \in Shared(f) : clone[i] = clone[j] => i = j
             /\ observations' = [i \in ObservationIds |->
                    IF i \in Sources(f) THEN [hash |-> Unique, content |-> "erased"]
                    ELSE IF i \in Clones
                    THEN [hash |-> Unique,
                          content |-> observations[CHOOSE j \in Shared(f) : clone[j] = i].content]
                    ELSE observations[i]]
             /\ provenance' = {IF l[1] = f THEN l ELSE <<l[1], Clone(l[2])>> : l \in provenance}
             /\ log' = [k \in Keys |-> Scrubbed(Repointed(log[k], f, clone), f)]
    /\ facts' = [facts EXCEPT ![f].state = "erased", ![f].text = None]
    /\ UNCHANGED <<sessions, grants, state, told>>

Serve(o) == Refuse(o) \/ Replay(o) \/ Reject(o) \/ Hold(o) \/ Write(o) \/ Merge(o)

Next ==
    \/ \E o \in Orders : Ask(o) \/ Retry(o) \/ GiveUp(o) \/ Refuse(o) \/ Replay(o) \/ Reject(o) \/ Hold(o)
                         \/ Write(o) \/ Merge(o) \/ Fail(o)
    \/ Kill \/ Regrant
    \/ \E f \in FactIds : Erase(f)

Spec == Init /\ [][Next]_vars

(* The daemon serves what it holds, clients time out, hosts retry: one of  *)
(* them, as long as any can.                                               *)
Work(o) == Serve(o) \/ Retry(o) \/ (calls[o] = 0 /\ GiveUp(o))

FairSpec == Spec /\ WF_vars(\E o \in Orders : Work(o))

-----------------------------------------------------------------------------
(* Properties.                                                             *)

ErasedFacts == {i \in FactIds : facts[i].state = "erased"}

(* Whatever is lost, retried, raced or restarted, a key has one outcome,   *)
(* and every outcome on record that a front end is told is that one.  Only *)
(* a privacy erasure changes what a replay answers: it moves the           *)
(* observation the outcomes of other facts name and empties the detail of  *)
(* the erased fact's, and leaves the rest as it was.                       *)
Register_ ==
    INSTANCE OutcomeRegister WITH
        Outcomes <- Rows, Facts <- FactIds, recorded <- log,
        erased <- ErasedFacts

OneOutcomePerKey == Register_!Spec

(* A key never inserts a second fact.                                      *)
OneFactPerKey ==
    \A i, j \in FactIds : facts[i].key = facts[j].key /\ facts[i].key # None => i = j

(* A newcomer lost to a near duplicate, the survivor its outcome names. *)
Lost(i) ==
    LET k == facts[i].key
    IN  k # None /\ log[k] # None /\ log[k].outcome = "near_dedup" /\ log[k].fact # i

(* The fact that holds the evidence of a fact. *)
Holder(i) == IF Lost(i) THEN log[facts[i].key].fact ELSE i

(* The evidence of every fact that was not erased is kept in full while    *)
(* its holder is not erased, also when it was shared with an erased fact   *)
(* or given again after the same evidence was erased.                      *)
EvidenceIntact ==
    \A i \in FactIds :
        facts[i].state \in {"active", "superseded"} /\ facts[Holder(i)].state # "erased" =>
            \E l \in provenance : l[1] = Holder(i) /\ observations[l[2]].content \in Evidence

(* An erased fact has none.                                                *)
ErasedEvidenceGone ==
    \A l \in provenance : facts[l[1]].state = "erased" => observations[l[2]].content = "erased"

(* The observation a log row names supports the fact it names.             *)
LogAgrees ==
    \A k \in Keys : log[k] # None /\ log[k].outcome # "rejected" =>
        <<log[k].fact, log[k].observation>> \in provenance

(* Facts, evidence and outcomes agree after any retries, merges and        *)
(* erasures: one fact per key, its evidence complete at the fact that      *)
(* holds it until that one is erased and gone then, and no outcome on      *)
(* record that names another fact's evidence.                              *)
EvidenceSound == TypeOK /\ OneFactPerKey /\ EvidenceIntact /\ ErasedEvidenceGone /\ LogAgrees

(* Once the hosts stop asking, every request is answered in the end.       *)
EveryAskAnswered == []<>(\A o \in Orders : state[o] \notin {"waiting", "failed"})

=============================================================================
