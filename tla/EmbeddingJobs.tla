--------------------------- MODULE EmbeddingJobs ---------------------------
(***************************************************************************)
(* The durable embedding outbox: jobs are queued inside the transactions   *)
(* that write facts, and leased workers run the document model outside any *)
(* transaction and store the vector in a second one.                       *)
(*                                                                         *)
(* Of the fact table the outbox sees the life of each fact (module         *)
(* FactLife, which FactStore implements); the text of a fact never changes *)
(* but by erasure, so the content hash of a job matches while its fact is  *)
(* settled.  The lease token of a claim is represented by the worker       *)
(* holding it: a worker has one claim at a time and a token is forgotten   *)
(* with the claim, so the token matches exactly when the worker works on   *)
(* the job and the job names the worker.                                   *)
(***************************************************************************)
EXTENDS FactLife, Sequences, FiniteSets

CONSTANTS
    Workers,      \* EmbeddingJobProcessor instances
    NoWorker,     \* lease_token IS NULL
    MaxAttempts,  \* max_attempts of the processor
    MaxCrashes    \* bound on daemon crashes

ASSUME EmbeddingJobsAssumption ==
    /\ MaxCrashes \in Nat
    /\ MaxAttempts \in Nat \ {0}
    /\ NoWorker \notin Workers

VARIABLES
    vector,   \* facts with a row in fact_embeddings
    order,    \* facts in the order of their job_ids
    job,      \* fact_id -> embedding_jobs row
    work,     \* worker -> where its process_one call stands
    up,       \* the daemon runs
    crashes   \* daemon crashes so far

vars == <<fact, vector, order, job, work, up, crashes>>

(* ready: available_at <= now; lapsed: lease_expires_at <= now.  A row is  *)
(* leased exactly while it is being processed.                             *)
Job == [status : {"none", "pending", "processing", "completed", "dead_letter"},
        attempts : 0..MaxAttempts, ready : BOOLEAN,
        holder : Workers \cup {NoWorker}, lapsed : BOOLEAN]

Steps == {"idle", "claimed", "embedding", "settle", "commit", "fail"}

TypeOK ==
    /\ fact \in [Facts -> Stages]
    /\ vector \subseteq Facts
    /\ order \in Seq(Facts)
    /\ job \in [Facts -> Job]
    /\ \A f \in Facts :
         /\ job[f].holder # NoWorker <=> job[f].status = "processing"
         /\ job[f].lapsed => job[f].status = "processing"
    /\ work \in [Workers -> [step : Steps, fact : 0..MaxFacts]]
    /\ up \in BOOLEAN
    /\ crashes \in 0..MaxCrashes

NoJob == [status |-> "none", attempts |-> 0, ready |-> FALSE,
          holder |-> NoWorker, lapsed |-> FALSE]

Fresh == [status |-> "pending", attempts |-> 0, ready |-> TRUE,
          holder |-> NoWorker, lapsed |-> FALSE]

Idle == [step |-> "idle", fact |-> 0]

(* The daemon is started on a store whose first facts predate the outbox. *)
Init ==
    /\ LifeInit
    /\ vector = {}
    /\ order = <<>>
    /\ job = [f \in Facts |-> NoJob]
    /\ work = [w \in Workers |-> Idle]
    /\ up = FALSE
    /\ crashes = 0

-----------------------------------------------------------------------------
(* Fact transactions.                                                      *)

(* ON CONFLICT DO UPDATE ... WHERE completed AND NOT EXISTS a vector *)
Requeue(j, f) ==
    IF j[f].status = "none" \/ (j[f].status = "completed" /\ f \notin vector)
    THEN Fresh ELSE j[f]

Queue(f) == IF job[f].status = "none" THEN Append(order, f) ELSE order

(* enqueue_in_transaction *)
Enqueue(f) ==
    /\ job' = [job EXCEPT ![f] = Requeue(job, f)]
    /\ order' = Queue(f)

(* A write whose new fact is settled. *)
WriteSettled(f, R) ==
    /\ up /\ NewSettled(f, R)
    /\ Enqueue(f)
    /\ UNCHANGED <<vector, work, up, crashes>>

(* A write of a closed interval: the new fact is queued like any other. *)
WriteClosed(f, R) ==
    /\ up /\ NewClosed(f, R)
    /\ Enqueue(f)
    /\ UNCHANGED <<vector, work, up, crashes>>

WriteDisputed(f, old) ==
    /\ up /\ NewDisputed(f, old)
    /\ Enqueue(f)
    /\ UNCHANGED <<vector, work, up, crashes>>

(* A write merged into a near-duplicate, which exists only with a vector:  *)
(* nothing is queued.                                                      *)
WriteMerged(f, old) ==
    /\ up /\ NewMerged(f, old) /\ old \in vector
    /\ UNCHANGED <<vector, order, job, work, up, crashes>>

(* supersede_fact_id with a text the store already holds *)
ReplaceByDuplicate(f, by) ==
    /\ up /\ Replaced(f, by)
    /\ UNCHANGED <<vector, order, job, work, up, crashes>>

(* _resolve_conflict: the elected member is settled again and queued. *)
ResolveConflict(f, losers) ==
    /\ up /\ Elected(f, losers)
    /\ Enqueue(f)
    /\ UNCHANGED <<vector, work, up, crashes>>

(* Mutated form of ErasedJob: a lease left by a worker is honoured. *)
ErasedJobUnlessLeased(j) ==
    IF j.status \in {"none", "processing"} THEN j
    ELSE [j EXCEPT !.status = "completed", !.holder = NoWorker, !.lapsed = FALSE]

ErasedJob(j) ==
    IF j.status = "none" THEN j
    ELSE [j EXCEPT !.status = "completed", !.holder = NoWorker, !.lapsed = FALSE]

(* erase_fact, under the maintenance lock that a running daemon holds: the *)
(* vector goes with the text, the job is closed whatever lease a dead      *)
(* worker left on it, and insights on the fact are invalidated.            *)
EraseFact(f, insights) ==
    /\ ~up /\ Wiped(f, insights)
    /\ vector' = vector \ {f}
    /\ job' = [job EXCEPT ![f] = ErasedJob(@)]
    /\ UNCHANGED <<order, work, up, crashes>>

FactTransaction ==
    \/ \E f \in Facts, R \in SUBSET Facts : WriteSettled(f, R)
    \/ \E f \in Facts, R \in SUBSET Facts : WriteClosed(f, R)
    \/ \E f, old \in Facts : WriteDisputed(f, old)
    \/ \E f, old \in Facts : WriteMerged(f, old)
    \/ \E f, by \in Facts : ReplaceByDuplicate(f, by)
    \/ \E f \in Facts, losers \in SUBSET Facts : ResolveConflict(f, losers)
    \/ \E f \in Facts, insights \in SUBSET Facts : EraseFact(f, insights)

-----------------------------------------------------------------------------
(* process_one: claim, read, embed, then one closing transaction.          *)

Released(j, status, ready) ==
    [j EXCEPT !.status = status, !.ready = ready, !.holder = NoWorker, !.lapsed = FALSE]

(* claim first buries the jobs whose attempts are used up. *)
Buried(j) ==
    IF j.attempts >= MaxAttempts
       /\ (j.status = "pending" \/ (j.status = "processing" /\ j.lapsed))
    THEN Released(j, "dead_letter", j.ready) ELSE j

(* Mutated form of Claimable: a job in processing is never taken over. *)
ClaimableOnlyPending(j) ==
    j.attempts < MaxAttempts /\ j.status = "pending" /\ j.ready

Claimable(j) ==
    /\ j.attempts < MaxAttempts
    /\ (j.status = "pending" /\ j.ready) \/ (j.status = "processing" /\ j.lapsed)

BuriedJobs == [f \in Facts |-> Buried(job[f])]

Claimed(w, j) ==
    [status |-> "processing", attempts |-> j.attempts + 1, ready |-> j.ready,
     holder |-> w, lapsed |-> FALSE]

(* The claimable job with the lowest job_id is claimed. *)
Claim(w) ==
    /\ up /\ work[w] = Idle
    /\ LET ready == {i \in DOMAIN order : Claimable(Buried(job[order[i]]))}
       IN  \/ ready = {} /\ job' = BuriedJobs /\ UNCHANGED work
           \/ \E i \in ready :
                /\ \A k \in ready : i <= k
                /\ job' = [BuriedJobs EXCEPT ![order[i]] = Claimed(w, @)]
                /\ work' = [work EXCEPT ![w] = [step |-> "claimed", fact |-> order[i]]]
    /\ UNCHANGED <<fact, vector, order, up, crashes>>

At(w, step) == up /\ work[w].step = step

Go(w, step) == work' = [work EXCEPT ![w].step = step]

(* The unlocked SELECT that follows the claim. *)
ReadFact(w) ==
    /\ At(w, "claimed")
    /\ Go(w, IF fact[work[w].fact] = "settled" THEN "embedding" ELSE "settle")
    /\ UNCHANGED <<fact, vector, order, job, up, crashes>>

(* The model answers or raises. *)
Embed(w) ==
    /\ At(w, "embedding")
    /\ \E step \in {"commit", "fail"} : Go(w, step)
    /\ UNCHANGED <<fact, vector, order, job, up, crashes>>

HoldsLease(w) ==
    /\ job[work[w].fact].status = "processing"
    /\ job[work[w].fact].holder = w

Close(w, status, ready) ==
    /\ job' = [job EXCEPT ![work[w].fact] = Released(@, status, ready)]
    /\ work' = [work EXCEPT ![w] = Idle]
    /\ UNCHANGED <<fact, order, up, crashes>>

(* Any closing transaction raises when the lease was lost. *)
LoseLease(w) ==
    /\ up /\ work[w].step \in {"settle", "commit", "fail"} /\ ~HoldsLease(w)
    /\ work' = [work EXCEPT ![w] = Idle]
    /\ UNCHANGED <<fact, vector, order, job, up, crashes>>

(* Mutated form of Settle: the fact is not read again. *)
SettleUnchecked(w) ==
    /\ At(w, "settle") /\ HoldsLease(w)
    /\ Close(w, "completed", job[work[w].fact].ready)
    /\ UNCHANGED vector

(* _settle_inactive: the fact may have become settled since it was read. *)
Settle(w) ==
    /\ At(w, "settle") /\ HoldsLease(w)
    /\ IF fact[work[w].fact] = "settled" THEN Close(w, "pending", TRUE)
       ELSE Close(w, "completed", job[work[w].fact].ready)
    /\ UNCHANGED vector

(* _commit_prepared: the fact may have left the settled ones meanwhile. *)
Commit(w) ==
    /\ At(w, "commit") /\ HoldsLease(w)
    /\ Close(w, "completed", job[work[w].fact].ready)
    /\ vector' = IF fact[work[w].fact] = "settled" THEN vector \cup {work[w].fact} ELSE vector

Fail(w) ==
    /\ At(w, "fail") /\ HoldsLease(w)
    /\ IF job[work[w].fact].attempts >= MaxAttempts
       THEN Close(w, "dead_letter", FALSE) ELSE Close(w, "pending", FALSE)
    /\ UNCHANGED vector

Work(w) ==
    \/ Claim(w) \/ ReadFact(w) \/ Embed(w)
    \/ LoseLease(w) \/ Settle(w) \/ Commit(w) \/ Fail(w)

-----------------------------------------------------------------------------
(* Time and the daemon.                                                    *)

LeaseLapses(f) ==
    /\ job[f].status = "processing" /\ ~job[f].lapsed
    /\ job' = [job EXCEPT ![f].lapsed = TRUE]
    /\ UNCHANGED <<fact, vector, order, work, up, crashes>>

BackoffEnds(f) ==
    /\ job[f].status = "pending" /\ ~job[f].ready
    /\ job' = [job EXCEPT ![f].ready = TRUE]
    /\ UNCHANGED <<fact, vector, order, work, up, crashes>>

(* The daemon dies, or stops with no call in progress; what its workers    *)
(* had in hand is lost, leases stay.                                       *)
Crash ==
    /\ up /\ crashes < MaxCrashes
    /\ up' = FALSE
    /\ work' = [w \in Workers |-> Idle]
    /\ crashes' = crashes + 1
    /\ UNCHANGED <<fact, vector, order, job>>

(* enqueue_backfill: settled facts without a vector, but no dead letters. *)
Backfilled ==
    [f \in Facts |->
       IF fact[f] = "settled" /\ f \notin vector /\ job[f].status \in {"none", "completed"}
       THEN Fresh ELSE job[f]]

(* health()'s activation_safe *)
ActivationSafe(j) ==
    \A f \in Facts :
      /\ j[f].status # "dead_letter"
      /\ fact[f] = "settled" /\ f \notin vector => j[f].status \in {"pending", "processing"}

(* Facts in the order of their ids *)
Ascending(S) ==
    {s \in [1..Cardinality(S) -> S] : \A i, k \in DOMAIN s : i < k => s[i] < s[k]}

(* Startup queues what is missing and refuses to run when the outbox is    *)
(* not safe; the queued jobs stay.                                         *)
Start ==
    /\ ~up
    /\ job' = Backfilled
    /\ \E added \in Ascending({f \in Facts : job[f].status = "none" /\ Backfilled[f].status # "none"}) :
         order' = order \o added
    /\ up' = ActivationSafe(Backfilled)
    /\ UNCHANGED <<fact, vector, work, crashes>>

Next ==
    \/ FactTransaction
    \/ \E w \in Workers : Work(w)
    \/ \E f \in Facts : LeaseLapses(f) \/ BackoffEnds(f)
    \/ Crash \/ Start

Spec == Init /\ [][Next]_vars

(* The worker thread polls for ever, model calls return, time passes, and  *)
(* the daemon is started again after a crash.                              *)
Fairness ==
    /\ \A w \in Workers : WF_vars(Work(w))
    /\ \A f \in Facts : WF_vars(LeaseLapses(f)) /\ WF_vars(BackoffEnds(f))
    /\ WF_vars(Start)

FairSpec == Spec /\ Fairness

-----------------------------------------------------------------------------
(* Properties.                                                             *)

Queued(f) == job[f].status \in {"pending", "processing"}

(* Search raises on a settled fact that has neither a vector nor a viable  *)
(* job.  While the daemon runs, whatever conflicts, resolutions, stale     *)
(* reads and crashes a fact went through, only a dead letter may cause it. *)
SettledCovered ==
    up => \A f \in Stage("settled") :
            f \in vector \/ Queued(f) \/ job[f].status = "dead_letter"

(* An erased fact has no vector and no job that could bring one back, also *)
(* when a worker died between the model's answer and the erasure.          *)
NoVectorAfterErasure ==
    \A f \in Stage("erased") : f \notin vector /\ ~Queued(f)

(* What is settled is or will be indexed, and what is erased never again,  *)
(* whatever stale reads, lost leases and crashes lie between.              *)
OutboxSound == TypeOK /\ SettledCovered /\ NoVectorAfterErasure

(* Every settled fact gets its vector, unless it stops being settled, its  *)
(* model calls fail until it is a dead letter, or a dead letter keeps the  *)
(* daemon from starting again.                                             *)
EventuallyEmbedded ==
    \A f \in Facts :
      fact[f] = "settled" ~>
        \/ f \in vector \/ fact[f] # "settled"
        \/ job[f].status = "dead_letter"
        \/ ~up /\ \E g \in Facts : job[g].status = "dead_letter"

=============================================================================
