---------------------------- MODULE RecallProofs ----------------------------
(* Theorems of the embedding outbox and of the searches over it, for any   *)
(* number of facts and workers, any limits, and any budget of events.      *)
EXTENDS Recall, FiniteSetTheorems, WellFoundedInduction, TLAPS

(* A call in progress has a job. *)
WorkFits == \A w \in Workers : work[w].step # "idle" => work[w].fact \in Facts

OutboxInv == TypeOK /\ WorkFits /\ SettledCovered /\ NoVectorAfterErasure

-----------------------------------------------------------------------------
(* An index whose count is up to date has the vectors, and it stays so     *)
(* while the worker has it open.                                           *)
IndexInv ==
    /\ index \in [built : BOOLEAN, rows : SUBSET Facts, current : BOOLEAN]
    /\ writer \in BOOLEAN
    /\ (index.built /\ index.current) => index.rows = vector
    /\ writer => up /\ index.built /\ index.current

-----------------------------------------------------------------------------
(* What a search has in hand, step by step.                                *)

SearchSteps ==
    {"idle", "open", "lexical", "eligible", "score", "recent", "load", "rescore", "vectors",
     "jobs", "receipts", "done"}

Packed ==
    {NoPack} \cup UNION {UNION {Prompts[found][conflicts] : conflicts \in {<<>>, <<"conflict">>}} :
                         found \in SUBSET Facts}

SearchType ==
    [step : SearchSteps, indexed : BOOLEAN, scored : BOOLEAN, lexical : SUBSET Facts,
     dense : SUBSET Facts, vectors : SUBSET Facts, facts : SUBSET Facts,
     outcome : {"none", "refused", "uncovered", "model", "answered"},
     listed : {<<>>, <<"conflict">>}, pack : Packed, since : SUBSET Facts, embedded : SUBSET Facts]

AllWords == Cardinality(Worded) <= CandidateLimit

AllFacts == budget.facts <= CandidateLimit

(* Facts that stayed settled are settled, and their vectors stay.          *)
WatchFits ==
    /\ search.since \subseteq Stage("settled")
    /\ search.embedded \subseteq search.since \cap vector
    /\ ~up => search.step = "idle"
    /\ search.step = "idle" => search.since = {}

(* No fact that stayed settled has been lost so far.                       *)
HandFits ==
    /\ search.outcome = "answered" => search.step = "done"
    /\ search.scored => search.step \in {"load", "receipts", "done"}
    /\ (search.step \in {"eligible", "score"} \/ search.scored) => search.indexed
    /\ search.step \in {"eligible", "score", "recent", "load"} =>
         /\ search.lexical \subseteq Worded
         /\ (search.indexed \/ AllWords) => Worded \cap search.since \subseteq search.lexical
    /\ (search.step = "score" \/ (search.step = "load" /\ search.scored))
         => search.embedded \subseteq search.dense
    /\ (search.step = "load" /\ ~search.scored /\ AllFacts) => search.since \subseteq search.dense
    /\ search.step \in {"rescore", "vectors", "jobs"} =>
         /\ AllWords => Worded \cap search.since \subseteq search.facts
         /\ AllFacts => search.embedded \subseteq search.facts
    /\ search.step = "jobs" => search.embedded \cap search.facts \subseteq search.vectors
    /\ (search.step = "receipts" \/ search.outcome = "answered") =>
         /\ (search.scored \/ AllWords) => Worded \cap search.since \subseteq search.facts
         /\ (search.scored \/ AllFacts) => search.embedded \subseteq search.facts

(* No fact is written beyond the bound that was chosen. *)
BudgetFits == budget \in Budget /\ \A f \in Facts : f > budget.facts => fact[f] = "absent"

SearchInv == BudgetFits /\ search \in SearchType /\ WatchFits /\ HandFits

(* The inductive invariant.                                                *)
IInv == OutboxInv /\ IndexInv /\ SearchInv

-----------------------------------------------------------------------------
(* Rows of the outbox.                                                     *)

RowFits(j) ==
    /\ j \in Job
    /\ j.holder # NoWorker <=> j.status = "processing"
    /\ j.lapsed => j.status = "processing"

Viable(j) == j.status \in {"pending", "processing"}

LEMMA RowsFit ==
    ASSUME TypeOK
    PROVE  \A f \in Facts : RowFits(job[f])
  BY DEF TypeOK, RowFits

LEMMA FreshFits == RowFits(Fresh) /\ RowFits(NoJob) /\ Viable(Fresh) /\ ~Viable(NoJob)
  BY EmbeddingJobsAssumption DEF RowFits, Fresh, NoJob, Job, Viable

LEMMA ReleasedFits ==
    ASSUME NEW j, RowFits(j), NEW status \in {"pending", "completed", "dead_letter"}, NEW ready \in BOOLEAN
    PROVE  RowFits(Released(j, status, ready)) /\ Released(j, status, ready).status = status
  BY EmbeddingJobsAssumption DEF RowFits, Released, Job

LEMMA ErasedFits ==
    ASSUME NEW j, RowFits(j)
    PROVE  RowFits(ErasedJob(j)) /\ ~Viable(ErasedJob(j))
  BY EmbeddingJobsAssumption DEF RowFits, ErasedJob, Job, Viable

LEMMA BuriedFits ==
    ASSUME NEW j, RowFits(j)
    PROVE  /\ RowFits(Buried(j))
           /\ Viable(Buried(j)) => Viable(j)
           /\ Viable(j) => Viable(Buried(j)) \/ Buried(j).status = "dead_letter"
           /\ j.status = "dead_letter" => Buried(j).status = "dead_letter"
  <1>1. CASE Buried(j) = j
    BY <1>1
  <1>2. CASE Buried(j) = Released(j, "dead_letter", j.ready)
    <2>1. j.ready \in BOOLEAN
      BY DEF RowFits, Job
    <2> QED
      BY <1>2, <2>1, ReleasedFits DEF Viable
  <1> QED
    BY <1>1, <1>2 DEF Buried

LEMMA ClaimedFits ==
    ASSUME NEW j, RowFits(j), Claimable(j), NEW w \in Workers
    PROVE  RowFits(Claimed(w, j)) /\ Claimed(w, j).status = "processing" /\ Viable(j)
  <1>1. j.attempts \in 0..MaxAttempts /\ j.attempts < MaxAttempts /\ j.ready \in BOOLEAN
    BY DEF RowFits, Job, Claimable
  <1>2. j.attempts + 1 \in 0..MaxAttempts
    BY <1>1, EmbeddingJobsAssumption
  <1>3. Claimed(w, j) \in Job
    BY <1>1, <1>2 DEF Claimed, Job
  <1> QED
    BY <1>3, EmbeddingJobsAssumption DEF RowFits, Claimed, Claimable, Viable

(* The types of the outbox, by rows. *)
Typed ==
    /\ fact \in [Facts -> Stages]
    /\ vector \subseteq Facts /\ order \in Seq(Facts)
    /\ job = [f \in Facts |-> job[f]]
    /\ \A f \in Facts : RowFits(job[f])
    /\ work \in [Workers -> [step : Steps, fact : 0..MaxFacts]]
    /\ up \in BOOLEAN /\ crashes \in 0..MaxCrashes

LEMMA TypedIsTypeOK == TypeOK <=> Typed
  <1>1. ASSUME Typed PROVE TypeOK
    <2>1. job \in [Facts -> Job]
      BY <1>1 DEF RowFits, Typed
    <2> QED
      BY <1>1, <2>1 DEF TypeOK, RowFits, Typed
  <1>2. ASSUME TypeOK PROVE Typed
    BY <1>2 DEF TypeOK, RowFits, Typed
  <1> QED
    BY <1>1, <1>2

LEMMA TypedNext == TypeOK' <=> Typed'
  BY TypedIsTypeOK, PTL

LEMMA OutboxStarts == Init => OutboxInv
  <1> SUFFICES ASSUME Init
               PROVE  OutboxInv
    OBVIOUS
  <1> USE DEF Init, LifeInit
  <1>1. PICK n \in 0..MaxFacts, s \in [Facts -> {"settled", "disputed", "history"}] :
          fact = [f \in Facts |-> IF f <= n THEN s[f] ELSE "absent"]
    OBVIOUS
  <1>2. fact \in [Facts -> Stages]
    BY <1>1 DEF Stages
  <1>3. \A f \in Facts : fact[f] # "erased"
    BY <1>1
  <1>4. \A f \in Facts : RowFits(job[f])
    BY FreshFits
  <1>5. job = [f \in Facts |-> job[f]] /\ order \in Seq(Facts)
    OBVIOUS
  <1>6. work \in [Workers -> [step : Steps, fact : 0..MaxFacts]] /\ 0 \in 0..MaxCrashes
    BY FactLifeAssumption, EmbeddingJobsAssumption DEF Idle, Steps
  <1>7. TypeOK
    BY <1>2, <1>4, <1>5, <1>6, TypedIsTypeOK DEF Typed
  <1>8. WorkFits /\ SettledCovered /\ NoVectorAfterErasure
    BY <1>3 DEF WorkFits, Idle, SettledCovered, NoVectorAfterErasure, Stage
  <1> QED
    BY <1>7, <1>8 DEF OutboxInv

-----------------------------------------------------------------------------
(* Fact transactions.                                                      *)

LEMMA EnqueueFits ==
    ASSUME TypeOK, NEW f \in Facts, Enqueue(f)
    PROVE  /\ job' = [g \in Facts |-> job'[g]] /\ \A g \in Facts : RowFits(job'[g])
           /\ order' \in Seq(Facts)
           /\ \A g \in Facts \ {f} : job'[g] = job[g]
           /\ f \in vector \/ Viable(job'[f]) \/ job'[f].status = "dead_letter"
  <1>1. job' = [job EXCEPT ![f] = Requeue(job, f)] /\ job \in [Facts -> Job]
    BY DEF Enqueue, TypeOK
  <1>2. RowFits(Requeue(job, f))
    BY RowsFit, FreshFits DEF Requeue
  <1>3. /\ job' = [g \in Facts |-> job'[g]]
        /\ \A g \in Facts : RowFits(job'[g])
        /\ \A g \in Facts \ {f} : job'[g] = job[g]
    BY <1>1, <1>2, RowsFit
  <1>4. order' \in Seq(Facts)
    BY DEF Enqueue, Queue, TypeOK
  <1>5. job'[f] = Requeue(job, f)
    BY <1>1
  <1>6. job[f].status \in {"none", "pending", "processing", "completed", "dead_letter"}
    BY DEF TypeOK, Job
  <1>7. f \in vector \/ Viable(job'[f]) \/ job'[f].status = "dead_letter"
    BY <1>5, <1>6, FreshFits DEF Requeue, Viable
  <1> QED
    BY <1>3, <1>4, <1>7

(* A transaction that queues the one fact it may settle, and erases none.  *)
LEMMA TransactionKeeps ==
    ASSUME OutboxInv, up, NEW f \in Facts,
           fact' \in [Facts -> Stages],
           fact'[f] # "erased", Enqueue(f),
           \A g \in Facts \ {f} : fact'[g] = fact[g] \/ fact'[g] \in {"history", "disputed"},
           UNCHANGED <<vector, work, up, crashes>>
    PROVE  OutboxInv'
  <1> USE DEF OutboxInv
  <1>1. TypeOK'
    BY EnqueueFits, TypedNext DEF Typed, TypeOK
  <1>2. WorkFits'
    BY DEF WorkFits
  <1>3. SettledCovered'
    BY EnqueueFits DEF SettledCovered, Stage, Queued, Viable
  <1>4. NoVectorAfterErasure'
    BY EnqueueFits DEF NoVectorAfterErasure, Stage, Queued
  <1> QED
    BY <1>1, <1>2, <1>3, <1>4

(* A transaction that takes a fact out of the settled ones.                *)
LEMMA RetirementKeeps ==
    ASSUME OutboxInv, NEW f \in Facts, Moves(f, "history", {}),
           UNCHANGED <<vector, order, job, work, up, crashes>>
    PROVE  OutboxInv'
  BY DEF OutboxInv, TypeOK, WorkFits, SettledCovered, NoVectorAfterErasure, Stage, Stages, Queued,
         Moves

(* One fact enters a stage and others go out of force. *)
LEMMA MovesFit ==
    ASSUME fact \in [Facts -> Stages], NEW f \in Facts, NEW stage \in Stages,
           NEW R, Moves(f, stage, R)
    PROVE  /\ fact' \in [Facts -> Stages] /\ fact'[f] = stage
           /\ \A g \in Facts \ {f} : fact'[g] = fact[g] \/ fact'[g] = "history"
  BY DEF Moves, Stages

LEMMA FactTransactionKeeps ==
    ASSUME OutboxInv, FactTransaction
    PROVE  OutboxInv'
  <1>1. fact \in [Facts -> Stages] /\ {"settled", "history", "disputed"} \subseteq Stages \ {"erased"}
    BY DEF OutboxInv, TypeOK, Stages
  <1>2. ASSUME NEW f \in Facts, NEW R \in SUBSET Facts, WriteSettled(f, R)
        PROVE  OutboxInv'
    BY <1>1, <1>2, MovesFit, TransactionKeeps DEF WriteSettled, NewSettled
  <1>3. ASSUME NEW f \in Facts, NEW R \in SUBSET Facts, WriteClosed(f, R)
        PROVE  OutboxInv'
    BY <1>1, <1>3, MovesFit, TransactionKeeps DEF WriteClosed, NewClosed
  <1>4. ASSUME NEW f \in Facts, NEW old \in Facts, WriteDisputed(f, old)
        PROVE  OutboxInv'
    <2>1. /\ fact' \in [Facts -> Stages] /\ fact'[f] # "erased"
          /\ \A g \in Facts \ {f} : fact'[g] = fact[g] \/ fact'[g] \in {"history", "disputed"}
      BY <1>1, <1>4 DEF WriteDisputed, NewDisputed
    <2> QED
      BY <1>4, <2>1, TransactionKeeps DEF WriteDisputed
  <1>5. ASSUME NEW f \in Facts, NEW old \in Facts, WriteMerged(f, old)
        PROVE  OutboxInv'
    BY <1>5, RetirementKeeps DEF WriteMerged, NewMerged
  <1>6. ASSUME NEW f \in Facts, NEW by \in Facts, ReplaceByDuplicate(f, by)
        PROVE  OutboxInv'
    BY <1>6, RetirementKeeps DEF ReplaceByDuplicate, Replaced
  <1>7. ASSUME NEW f \in Facts, NEW losers \in SUBSET Facts, ResolveConflict(f, losers)
        PROVE  OutboxInv'
    BY <1>1, <1>7, MovesFit, TransactionKeeps DEF ResolveConflict, Elected
  <1>8. ASSUME NEW f \in Facts, NEW insights \in SUBSET Facts, EraseFact(f, insights)
        PROVE  OutboxInv'
    <2> USE DEF OutboxInv, EraseFact, Wiped, Moves
    <2>1. job' = [g \in Facts |-> job'[g]] /\ \A g \in Facts : RowFits(job'[g])
      BY <1>8, RowsFit, ErasedFits DEF TypeOK
    <2>2. fact' \in [Facts -> Stages]
      BY <1>8 DEF TypeOK, Stages
    <2>3. TypeOK'
      BY <1>8, <2>1, <2>2, TypedNext DEF Typed, TypeOK
    <2>4. WorkFits' /\ SettledCovered'
      BY <1>8 DEF WorkFits, SettledCovered
    <2>5. f \notin vector' /\ ~Viable(job'[f])
      BY <1>8, RowsFit, ErasedFits DEF TypeOK
    <2>6. \A g \in Facts \ {f} :
            fact'[g] = "erased" => fact[g] = "erased" /\ job'[g] = job[g] /\ (g \in vector' => g \in vector)
      BY <1>8 DEF TypeOK
    <2>7. NoVectorAfterErasure'
      BY <2>5, <2>6 DEF NoVectorAfterErasure, Stage, Queued, Viable
    <2> QED
      BY <2>3, <2>4, <2>7
  <1> QED
    BY <1>2, <1>3, <1>4, <1>5, <1>6, <1>7, <1>8 DEF FactTransaction

-----------------------------------------------------------------------------
(* The worker, time and the daemon.                                        *)

(* Steps that change one row only, of a fact that is not erased if the row *)
(* becomes viable and not settled if it ends without a dead letter.        *)
LEMMA RowStepKeeps ==
    ASSUME OutboxInv, NEW f \in Facts, NEW row, RowFits(row), job' = [job EXCEPT ![f] = row],
           Viable(row) => Viable(job[f]),
           Viable(job[f]) => \/ Viable(row) \/ row.status = "dead_letter"
                             \/ fact[f] = "settled" => f \in vector',
           job[f].status = "dead_letter" => row.status = "dead_letter",
           vector' \in {vector, vector \cup ({f} \cap Stage("settled"))}, WorkFits',
           work' \in [Workers -> [step : Steps, fact : 0..MaxFacts]],
           UNCHANGED <<fact, order, up, crashes>>
    PROVE  OutboxInv'
  <1> USE DEF OutboxInv
  <1>1. /\ job' = [g \in Facts |-> job'[g]] /\ job'[f] = row
        /\ \A g \in Facts \ {f} : job'[g] = job[g]
    BY DEF TypeOK
  <1>2. \A g \in Facts : RowFits(job'[g])
    BY <1>1, RowsFit
  <1>3. vector' \subseteq Facts /\ vector \subseteq vector'
    BY DEF TypeOK
  <1>4. TypeOK'
    BY <1>1, <1>2, <1>3, TypedNext DEF Typed, TypeOK
  <1>5. SettledCovered'
    BY <1>1, <1>3 DEF SettledCovered, Stage, Queued, Viable
  <1>6. NoVectorAfterErasure'
    BY <1>1 DEF NoVectorAfterErasure, Stage, Queued, Viable
  <1> QED
    BY <1>4, <1>5, <1>6

(* Steps of a call that change no row.                                     *)
LEMMA CallStepKeeps ==
    ASSUME OutboxInv, WorkFits', work' \in [Workers -> [step : Steps, fact : 0..MaxFacts]],
           UNCHANGED <<fact, vector, order, job, up, crashes>>
    PROVE  OutboxInv'
  BY DEF OutboxInv, TypeOK, SettledCovered, NoVectorAfterErasure, Stage, Queued

LEMMA ClaimKeeps ==
    ASSUME OutboxInv, NEW w \in Workers, Claim(w)
    PROVE  OutboxInv'
  <1> USE DEF OutboxInv
  <1>1. BuriedJobs = [g \in Facts |-> Buried(job[g])]
    BY DEF BuriedJobs
  <1>2. \A g \in Facts :
          /\ RowFits(BuriedJobs[g])
          /\ Viable(BuriedJobs[g]) => Viable(job[g])
          /\ Viable(job[g]) => Viable(BuriedJobs[g]) \/ BuriedJobs[g].status = "dead_letter"
          /\ job[g].status = "dead_letter" => BuriedJobs[g].status = "dead_letter"
    BY <1>1, RowsFit, BuriedFits
  <1>3. UNCHANGED <<fact, vector, order, up, crashes>>
    BY DEF Claim
  <1>4. CASE job' = BuriedJobs /\ UNCHANGED work
    <2>1. TypeOK'
      BY <1>1, <1>2, <1>3, <1>4, TypedNext DEF Typed, TypeOK
    <2>2. WorkFits' /\ SettledCovered' /\ NoVectorAfterErasure'
      BY <1>2, <1>3, <1>4 DEF WorkFits, SettledCovered, NoVectorAfterErasure, Stage, Queued, Viable
    <2> QED
      BY <2>1, <2>2
  <1>5. ASSUME NEW i \in DOMAIN order, Claimable(Buried(job[order[i]])),
               job' = [BuriedJobs EXCEPT ![order[i]] = Claimed(w, @)],
               work' = [work EXCEPT ![w] = [step |-> "claimed", fact |-> order[i]]]
        PROVE  OutboxInv'
    <2> DEFINE f == order[i]
    <2>1. f \in Facts
      BY DEF TypeOK
    <2> HIDE DEF f
    <2>2. RowFits(BuriedJobs[f]) /\ Claimable(BuriedJobs[f])
      BY <1>1, <1>2, <1>5, <2>1 DEF f
    <2>3. /\ RowFits(Claimed(w, BuriedJobs[f])) /\ Viable(Claimed(w, BuriedJobs[f]))
          /\ Viable(BuriedJobs[f])
      BY <2>2, ClaimedFits DEF Viable
    <2>4. /\ job' = [g \in Facts |-> job'[g]] /\ job'[f] = Claimed(w, BuriedJobs[f])
          /\ \A g \in Facts \ {f} : job'[g] = BuriedJobs[g]
      BY <1>1, <1>5, <2>1 DEF f
    <2>5. \A g \in Facts :
            /\ RowFits(job'[g])
            /\ Viable(job'[g]) => Viable(job[g])
            /\ Viable(job[g]) => Viable(job'[g]) \/ job'[g].status = "dead_letter"
            /\ job[g].status = "dead_letter" => job'[g].status = "dead_letter"
      <3>1. job[f].status # "dead_letter"
        BY <1>2, <2>1, <2>3 DEF Viable
      <3> QED
        BY <1>2, <2>1, <2>3, <2>4, <3>1
    <2>6. /\ work' \in [Workers -> [step : Steps, fact : 0..MaxFacts]]
          /\ WorkFits'
      <3>1. work' = [work EXCEPT ![w] = [step |-> "claimed", fact |-> f]]
        BY <1>5 DEF f
      <3>2. "claimed" \in Steps /\ f \in 0..MaxFacts
        BY <2>1, EmbeddingJobsAssumption DEF Steps, Facts
      <3> QED
        BY <2>1, <3>1, <3>2 DEF TypeOK, WorkFits
    <2>7. TypeOK'
      BY <1>3, <2>4, <2>5, <2>6, TypedNext DEF Typed, TypeOK
    <2>8. SettledCovered' /\ NoVectorAfterErasure'
      BY <1>3, <2>5 DEF SettledCovered, NoVectorAfterErasure, Stage, Queued, Viable
    <2> QED
      BY <2>6, <2>7, <2>8
  <1> QED
    BY <1>4, <1>5 DEF Claim

LEMMA IdleFits ==
    ASSUME OutboxInv, NEW w \in Workers, work' = [work EXCEPT ![w] = Idle]
    PROVE  /\ work' \in [Workers -> [step : Steps, fact : 0..MaxFacts]]
           /\ WorkFits'
  BY FactLifeAssumption, EmbeddingJobsAssumption DEF OutboxInv, TypeOK, WorkFits, Idle, Steps

LEMMA GoFits ==
    ASSUME OutboxInv, NEW w \in Workers, work[w].step # "idle", NEW step \in Steps, Go(w, step)
    PROVE  /\ work' \in [Workers -> [step : Steps, fact : 0..MaxFacts]]
           /\ WorkFits'
  BY DEF OutboxInv, TypeOK, WorkFits, Go

(* A closing transaction: it ends a row its worker holds the lease of.     *)
LEMMA CloseKeeps ==
    ASSUME OutboxInv, NEW w \in Workers, work[w].step # "idle",
           NEW status \in {"pending", "completed", "dead_letter"}, NEW ready \in BOOLEAN,
           HoldsLease(w), Close(w, status, ready),
           vector' \in {vector, vector \cup ({work[w].fact} \cap Stage("settled"))},
           status = "completed" /\ fact[work[w].fact] = "settled" => work[w].fact \in vector'
    PROVE  OutboxInv'
  <1> USE DEF OutboxInv
  <1> DEFINE f == work[w].fact
  <1>1. f \in Facts
    BY DEF WorkFits
  <1>2. job[f].status = "processing" /\ RowFits(job[f])
    BY <1>1, RowsFit DEF HoldsLease
  <1>3. RowFits(Released(job[f], status, ready)) /\ Released(job[f], status, ready).status = status
    BY <1>2, ReleasedFits
  <1>4. job' = [job EXCEPT ![f] = Released(job[f], status, ready)]
    BY DEF Close
  <1>5. UNCHANGED <<fact, order, up, crashes>>
    BY DEF Close
  <1>6. /\ work' \in [Workers -> [step : Steps, fact : 0..MaxFacts]]
        /\ WorkFits'
    BY IdleFits DEF Close
  <1> HIDE DEF f
  <1>7. vector' \in {vector, vector \cup ({f} \cap Stage("settled"))}
    BY DEF f
  <1>8. status = "completed" /\ fact[f] = "settled" => f \in vector'
    BY DEF f
  <1>9. Viable(job[f]) /\ job[f].status # "dead_letter"
    BY <1>2 DEF Viable
  <1>10. PICK row : row = Released(job[f], status, ready)
    OBVIOUS
  <1>11. status = "pending" => Viable(row)
    BY <1>3, <1>10 DEF Viable
  <1>12. Viable(row) \/ row.status = "dead_letter" \/ (fact[f] = "settled" => f \in vector')
    BY <1>3, <1>8, <1>10, <1>11
  <1> QED
    BY <1>1, <1>3, <1>4, <1>5, <1>6, <1>7, <1>9, <1>10, <1>12, RowStepKeeps

LEMMA WorkKeeps ==
    ASSUME OutboxInv, NEW w \in Workers, Work(w)
    PROVE  OutboxInv'
  <1>1. CASE Claim(w)
    BY <1>1, ClaimKeeps
  <1>2. CASE ReadFact(w)
    <2>1. PICK step \in {"embedding", "settle"} : Go(w, step)
      BY <1>2 DEF ReadFact
    <2>2. step \in Steps /\ work[w].step # "idle"
      BY <1>2 DEF Steps, ReadFact, At
    <2> QED
      BY <1>2, <2>1, <2>2, GoFits, CallStepKeeps DEF ReadFact
  <1>3. CASE Embed(w)
    <2>1. PICK step \in {"commit", "fail"} : Go(w, step)
      BY <1>3 DEF Embed
    <2>2. step \in Steps /\ work[w].step # "idle"
      BY <1>3 DEF Steps, Embed, At
    <2> QED
      BY <1>3, <2>1, <2>2, GoFits, CallStepKeeps DEF Embed
  <1>4. CASE LoseLease(w)
    BY <1>4, IdleFits, CallStepKeeps DEF LoseLease
  <1>5. ASSUME work[w].step # "idle"
        PROVE  /\ job[work[w].fact].ready \in BOOLEAN
               /\ work[w].fact \in Facts
    BY <1>5 DEF OutboxInv, TypeOK, WorkFits, Job
  <1>6. CASE Settle(w)
    <2>1. work[w].step # "idle" /\ HoldsLease(w) /\ vector' = vector
      BY <1>6 DEF Settle, At
    <2>2. CASE fact[work[w].fact] = "settled"
      <3>1. Close(w, "pending", TRUE)
        BY <1>6, <2>2 DEF Settle
      <3> QED
        BY <2>1, <3>1, CloseKeeps
    <2>3. CASE fact[work[w].fact] # "settled"
      <3>1. Close(w, "completed", job[work[w].fact].ready)
        BY <1>6, <2>3 DEF Settle
      <3> QED
        BY <1>5, <2>1, <2>3, <3>1, CloseKeeps
    <2> QED
      BY <2>2, <2>3
  <1>7. CASE Commit(w)
    <2>1. work[w].step # "idle" /\ HoldsLease(w) /\ Close(w, "completed", job[work[w].fact].ready)
      BY <1>7 DEF Commit, At
    <2>2. /\ vector' \in {vector, vector \cup ({work[w].fact} \cap Stage("settled"))}
          /\ fact[work[w].fact] = "settled" => work[w].fact \in vector'
      BY <1>5, <1>7, <2>1 DEF Commit, Stage
    <2> QED
      BY <1>5, <2>1, <2>2, CloseKeeps
  <1>8. CASE Fail(w)
    <2>1. PICK status \in {"dead_letter", "pending"} : Close(w, status, FALSE)
      BY <1>8 DEF Fail
    <2>2. work[w].step # "idle" /\ HoldsLease(w) /\ vector' = vector
      BY <1>8 DEF Fail, At
    <2> QED
      BY <2>1, <2>2, CloseKeeps
  <1> QED
    BY <1>1, <1>2, <1>3, <1>4, <1>6, <1>7, <1>8 DEF Work

LEMMA TimeKeeps ==
    ASSUME OutboxInv, NEW f \in Facts, LeaseLapses(f) \/ BackoffEnds(f)
    PROVE  OutboxInv'
  <1> USE DEF OutboxInv
  <1>1. RowFits(job[f])
    BY RowsFit
  <1>2. CASE LeaseLapses(f)
    <2>1. PICK row : row = [job[f] EXCEPT !.lapsed = TRUE]
      OBVIOUS
    <2>2. RowFits(row) /\ row.status = "processing" /\ job[f].status = "processing"
      BY <1>1, <1>2, <2>1 DEF RowFits, Job, LeaseLapses
    <2>3. job' = [job EXCEPT ![f] = row]
      BY <1>2, <2>1 DEF LeaseLapses
    <2>4. WorkFits' /\ work' \in [Workers -> [step : Steps, fact : 0..MaxFacts]]
      BY <1>2 DEF LeaseLapses, WorkFits, TypeOK
    <2>5. Viable(row) /\ Viable(job[f])
      BY <2>2 DEF Viable
    <2> QED
      BY <1>2, <2>2, <2>3, <2>4, <2>5, RowStepKeeps DEF LeaseLapses
  <1>3. CASE BackoffEnds(f)
    <2>1. PICK row : row = [job[f] EXCEPT !.ready = TRUE]
      OBVIOUS
    <2>2. RowFits(row) /\ row.status = "pending" /\ job[f].status = "pending"
      BY <1>1, <1>3, <2>1 DEF RowFits, Job, BackoffEnds
    <2>3. job' = [job EXCEPT ![f] = row]
      BY <1>3, <2>1 DEF BackoffEnds
    <2>4. WorkFits' /\ work' \in [Workers -> [step : Steps, fact : 0..MaxFacts]]
      BY <1>3 DEF BackoffEnds, WorkFits, TypeOK
    <2>5. Viable(row) /\ Viable(job[f])
      BY <2>2 DEF Viable
    <2> QED
      BY <1>3, <2>2, <2>3, <2>4, <2>5, RowStepKeeps DEF BackoffEnds
  <1> QED
    BY <1>2, <1>3

LEMMA CrashKeeps ==
    ASSUME OutboxInv, Crash
    PROVE  OutboxInv'
  <1> USE DEF OutboxInv, Crash
  <1>1. work' \in [Workers -> [step : Steps, fact : 0..MaxFacts]] /\ WorkFits'
    BY FactLifeAssumption, EmbeddingJobsAssumption DEF Idle, Steps, WorkFits
  <1>2. crashes' \in 0..MaxCrashes /\ up' \in BOOLEAN
    <2>1. crashes \in 0..MaxCrashes /\ crashes < MaxCrashes /\ MaxCrashes \in Nat
      BY EmbeddingJobsAssumption DEF TypeOK
    <2>2. crashes + 1 \in 0..MaxCrashes
      BY <2>1
    <2> QED
      BY <2>2
  <1>3. TypeOK'
    BY <1>1, <1>2 DEF TypeOK
  <1>4. SettledCovered' /\ NoVectorAfterErasure'
    BY DEF SettledCovered, NoVectorAfterErasure, Stage, Queued
  <1> QED
    BY <1>1, <1>3, <1>4

LEMMA AscendingIsSeq ==
    ASSUME NEW S \in SUBSET Facts, NEW added \in Ascending(S)
    PROVE  added \in Seq(Facts)
  <1>1. IsFiniteSet(Facts)
    BY FactLifeAssumption, FS_Interval DEF Facts
  <1>2. Cardinality(S) \in Nat
    BY <1>1, FS_Subset, FS_CardinalityType
  <1>3. added \in [1..Cardinality(S) -> S]
    <2> DEFINE ascends(s) == \A i, k \in DOMAIN s : i < k => s[i] < s[k]
    <2>1. added \in {s \in [1..Cardinality(S) -> S] : ascends(s)}
      BY DEF Ascending
    <2> HIDE DEF ascends
    <2> QED
      BY <2>1
  <1>4. added \in [1..Cardinality(S) -> Facts]
    BY <1>3
  <1> QED
    BY <1>2, <1>4

LEMMA StartKeeps ==
    ASSUME OutboxInv, Start
    PROVE  OutboxInv'
  <1> USE DEF OutboxInv
  <1>1. /\ job' = [g \in Facts |-> job'[g]]
        /\ \A g \in Facts : job'[g] = job[g] \/ (fact[g] = "settled" /\ job'[g] = Fresh)
    BY DEF Start, Backfilled
  <1>2. \A g \in Facts : RowFits(job'[g])
    BY <1>1, RowsFit, FreshFits
  <1>3. PICK added \in Ascending({f \in Facts : job[f].status = "none" /\ Backfilled[f].status # "none"}) :
          order' = order \o added
    BY DEF Start
  <1>4. added \in Seq(Facts)
    BY <1>3, AscendingIsSeq
  <1>5. order' \in Seq(Facts)
    BY <1>3, <1>4 DEF TypeOK
  <1>6. UNCHANGED <<fact, vector, work, crashes>> /\ up' \in BOOLEAN
    BY DEF Start, ActivationSafe
  <1>7. TypeOK'
    BY <1>1, <1>2, <1>5, <1>6, TypedNext DEF Typed, TypeOK
  <1>8. WorkFits'
    BY <1>6 DEF WorkFits
  <1>9. SettledCovered'
    BY <1>6 DEF Start, ActivationSafe, SettledCovered, Stage, Queued
  <1>10. NoVectorAfterErasure'
    BY <1>1, <1>6 DEF NoVectorAfterErasure, Stage, Queued
  <1> QED
    BY <1>7, <1>8, <1>9, <1>10

LEMMA OutboxKeeps ==
    ASSUME OutboxInv, [Next]_vars
    PROVE  OutboxInv'
  <1>1. CASE UNCHANGED vars
    BY <1>1 DEF vars, OutboxInv, TypeOK, WorkFits, SettledCovered, NoVectorAfterErasure, Stage, Queued
  <1>2. CASE Next
    BY <1>2, FactTransactionKeeps, WorkKeeps, TimeKeeps, CrashKeeps, StartKeeps DEF Next
  <1> QED
    BY <1>1, <1>2

(* The outbox by itself: what is settled while the daemon runs has a       *)
(* vector, a queued job or a dead letter, and what is erased has none of   *)
(* them, for any number of workers, crashes and attempts.                  *)
THEOREM OutboxIsSound == Spec => []OutboxSound
  <1>1. OutboxInv => OutboxSound
    BY DEF OutboxInv, OutboxSound
  <1> QED
    BY <1>1, OutboxStarts, OutboxKeeps, PTL DEF Spec

-----------------------------------------------------------------------------
(* Searches and the index leave the outbox to its own steps.               *)

(* A fact transaction of the daemon. *)
WritesFact ==
    \/ \E f \in 1..budget.facts, R \in SUBSET Facts : WriteSettled(f, R)
    \/ \E f \in 1..budget.facts, R \in SUBSET Facts : WriteClosed(f, R)
    \/ \E f \in 1..budget.facts, old \in Facts : WriteDisputed(f, old)
    \/ \E f \in 1..budget.facts, old \in Facts : WriteMerged(f, old)
    \/ \E f, by \in Facts : ReplaceByDuplicate(f, by)
    \/ \E f \in Facts, losers \in SUBSET Facts : ResolveConflict(f, losers)

LEMMA WritesFactIsTransaction ==
    ASSUME WritesFact
    PROVE  FactTransaction /\ up /\ UNCHANGED <<vector, work, up, crashes>>
  <1>1. ASSUME NEW f \in 1..budget.facts, NextId(f)
        PROVE  f \in Facts
    BY <1>1 DEF NextId, Stage
  <1>2. CASE \E f \in 1..budget.facts, R \in SUBSET Facts : WriteSettled(f, R)
    BY <1>1, <1>2 DEF FactTransaction, WriteSettled, NewSettled
  <1>3. CASE \E f \in 1..budget.facts, R \in SUBSET Facts : WriteClosed(f, R)
    BY <1>1, <1>3 DEF FactTransaction, WriteClosed, NewClosed
  <1>4. CASE \E f \in 1..budget.facts, old \in Facts : WriteDisputed(f, old)
    BY <1>1, <1>4 DEF FactTransaction, WriteDisputed, NewDisputed
  <1>5. CASE \E f \in 1..budget.facts, old \in Facts : WriteMerged(f, old)
    BY <1>1, <1>5 DEF FactTransaction, WriteMerged, NewMerged
  <1>6. CASE \E f, by \in Facts : ReplaceByDuplicate(f, by)
    BY <1>6 DEF FactTransaction, ReplaceByDuplicate
  <1>7. CASE \E f \in Facts, losers \in SUBSET Facts : ResolveConflict(f, losers)
    BY <1>7 DEF FactTransaction, ResolveConflict
  <1> QED
    BY <1>2, <1>3, <1>4, <1>5, <1>6, <1>7 DEF WritesFact

LEMMA SearchLeavesVars ==
    ASSUME Search
    PROVE  UNCHANGED <<vars, index, writer>>
  BY DEF Search, BeginSearch, OpenIndex, Lexical, Eligible, Score, Recent, Load, Rescore, Vectors,
         Jobs, ModelDown, Receipts, Reply, Turn, Answered

LEMMA RecallStepIsOutboxStep ==
    ASSUME [RecallNext]_<<vars, recallVars>>
    PROVE  [Next]_vars
  <1>1. CASE WriteFact
    BY <1>1, WritesFactIsTransaction DEF WriteFact, WritesFact, Next
  <1>2. CASE Erase
    BY <1>2 DEF Erase, Next, FactTransaction
  <1>3. CASE TimeStep
    BY <1>3 DEF TimeStep, Next
  <1>4. CASE Die \/ StartDaemon
    BY <1>4 DEF Die, StartDaemon, Next
  <1>5. CASE Rebuild
    BY <1>5 DEF Rebuild
  <1>6. CASE \E w \in Workers : WorkStep(w)
    BY <1>6 DEF WorkStep, Next
  <1>7. CASE Search
    BY <1>7, SearchLeavesVars
  <1> QED
    BY <1>1, <1>2, <1>3, <1>4, <1>5, <1>6, <1>7 DEF RecallNext

-----------------------------------------------------------------------------
(* The derived index.                                                      *)

(* A worker stores a vector only by committing it. *)
LEMMA WorkStores ==
    ASSUME TypeOK, NEW w \in Workers, Work(w)
    PROVE  /\ vector' = IF Stores(w) THEN vector \cup {work[w].fact} ELSE vector
           /\ UNCHANGED <<fact, up, crashes>>
  <1>1. CASE Claim(w)
    BY <1>1 DEF Claim, Stores, At, Idle
  <1>2. CASE ReadFact(w)
    BY <1>2 DEF ReadFact, Stores, At
  <1>3. CASE Embed(w)
    BY <1>3 DEF Embed, Stores, At
  <1>4. CASE LoseLease(w)
    BY <1>4 DEF LoseLease, Stores
  <1>5. CASE Settle(w)
    BY <1>5 DEF Settle, Close, Stores, At
  <1>6. CASE Commit(w)
    BY <1>6 DEF Commit, Close, Stores
  <1>7. CASE Fail(w)
    BY <1>7 DEF Fail, Close, Stores, At
  <1> QED
    BY <1>1, <1>2, <1>3, <1>4, <1>5, <1>6, <1>7 DEF Work

LEMMA OpenableIsCurrent ==
    ASSUME NEW opened \in Opened, opened
    PROVE  index.built /\ index.current
  BY DEF Opened, Openable

LEMMA IndexStarts == RecallInit => IndexInv
  <1> SUFFICES ASSUME RecallInit
               PROVE  IndexInv
    OBVIOUS
  <1>1. index = [built |-> FALSE, rows |-> {}, current |-> FALSE] /\ writer = FALSE
    BY DEF RecallInit
  <1> QED
    BY <1>1 DEF IndexInv

LEMMA IndexKeeps ==
    ASSUME OutboxInv, IndexInv, [RecallNext]_<<vars, recallVars>>
    PROVE  IndexInv'
  <1> USE DEF IndexInv
  <1>0. vector \subseteq Facts /\ TypeOK
    BY DEF OutboxInv, TypeOK
  <1>1. CASE WriteFact
    BY <1>1, WritesFactIsTransaction DEF WriteFact, WritesFact
  <1>2. CASE Erase
    <2>1. PICK f \in Facts, insights \in SUBSET Facts, opened \in Opened :
            EraseFact(f, insights) /\ Drop(f, opened)
      BY <1>2 DEF Erase
    <2>2. ~up /\ vector' = vector \ {f} /\ writer' = writer
      BY <1>2, <2>1 DEF EraseFact, Erase
    <2>3. CASE opened
      <3>1. index' = [index EXCEPT !.rows = @ \ {f}, !.current = TRUE]
        BY <2>1, <2>3 DEF Drop
      <3> QED
        BY <2>2, <2>3, <3>1, OpenableIsCurrent
    <2>4. CASE ~opened
      <3>1. index' = [index EXCEPT !.current = @ /\ f \notin vector]
        BY <2>1, <2>4 DEF Drop
      <3>2. CASE f \in vector
        <4>1. index' = [index EXCEPT !.current = FALSE]
          BY <3>1, <3>2
        <4> QED
          BY <2>2, <4>1
      <3>3. CASE f \notin vector
        <4>1. index' = index /\ vector' = vector
          BY <2>2, <3>1, <3>3
        <4> QED
          BY <2>2, <4>1
      <3> QED
        BY <3>2, <3>3
    <2> QED
      BY <2>3, <2>4
  <1>3. CASE TimeStep
    BY <1>3 DEF TimeStep, recallVars, LeaseLapses, BackoffEnds
  <1>4. CASE Die
    BY <1>4 DEF Die, Crash
  <1>5. CASE StartDaemon
    <2>1. vector' = vector /\ index' = index
      BY <1>5 DEF StartDaemon, Start
    <2>2. writer' \in BOOLEAN /\ (writer' => up' /\ index.built /\ index.current)
      BY <1>5 DEF StartDaemon, Opened, Openable
    <2> QED
      BY <2>1, <2>2
  <1>6. CASE Rebuild
    BY <1>0, <1>6 DEF Rebuild, vars
  <1>7. ASSUME NEW w \in Workers, WorkStep(w)
        PROVE  IndexInv'
    <2>1. /\ vector' = IF Stores(w) THEN vector \cup {work[w].fact} ELSE vector
          /\ up' = up /\ writer' = writer
      BY <1>0, <1>7, WorkStores DEF WorkStep
    <2>2. CASE Stores(w) /\ writer
      <3>1. work[w].fact \in Facts
        BY <2>2 DEF Stores, At, OutboxInv, WorkFits
      <3>2. index' = [index EXCEPT !.rows = @ \cup {work[w].fact}, !.current = TRUE]
        BY <1>7, <2>2 DEF WorkStep, Upsert
      <3> QED
        BY <2>1, <2>2, <3>1, <3>2
    <2>3. CASE Stores(w) /\ ~writer
      <3>1. index' = [index EXCEPT !.current = FALSE]
        BY <1>7, <2>3 DEF WorkStep, Upsert
      <3> QED
        BY <2>1, <2>3, <3>1
    <2>4. CASE ~Stores(w)
      BY <1>7, <2>1, <2>4 DEF WorkStep
    <2> QED
      BY <2>2, <2>3, <2>4
  <1>8. CASE Search
    BY <1>8, SearchLeavesVars DEF vars
  <1>9. CASE UNCHANGED <<vars, recallVars>>
    BY <1>9 DEF vars, recallVars
  <1> QED
    BY <1>1, <1>2, <1>3, <1>4, <1>5, <1>6, <1>7, <1>8, <1>9 DEF RecallNext

-----------------------------------------------------------------------------
(* Searches.                                                               *)

LEMMA FactsFinite == IsFiniteSet(Facts)
  BY FactLifeAssumption, FS_Interval DEF Facts

(* A list that the limit does not cut is the whole list.                   *)
LEMMA LimitedIsAll ==
    ASSUME NEW S \in SUBSET Facts, NEW T \in Limited(S)
    PROVE  /\ T \subseteq S
           /\ Cardinality(S) <= CandidateLimit => T = S
  <1>1. T \subseteq S /\ (Cardinality(T) = CandidateLimit \/ T = S)
    BY DEF Limited
  <1>2. IsFiniteSet(S) /\ Cardinality(S) \in Nat
    BY FactsFinite, FS_Subset, FS_CardinalityType
  <1>3. Cardinality(T) <= Cardinality(S) /\ (Cardinality(S) = Cardinality(T) => S = T)
    BY <1>1, <1>2, FS_Subset
  <1>4. ASSUME Cardinality(S) <= CandidateLimit, Cardinality(T) = CandidateLimit
        PROVE  Cardinality(S) = Cardinality(T)
    BY <1>2, <1>3, <1>4, RecallAssumption
  <1> QED
    BY <1>1, <1>3, <1>4

(* The full-text list has every fact with the words if no more than the    *)
(* limit have them.                                                        *)
LEMMA WordsLimited ==
    ASSUME AllWords, NEW S \in SUBSET Worded, NEW T \in Limited(S)
    PROVE  T = S
  <1>1. S \in SUBSET Facts /\ IsFiniteSet(Worded) /\ Worded \in SUBSET Facts
    BY FactsFinite, FS_Subset, RecallAssumption
  <1>2. Cardinality(S) <= Cardinality(Worded) /\ Cardinality(S) \in Nat /\ Cardinality(Worded) \in Nat
    BY <1>1, FactsFinite, FS_Subset, FS_CardinalityType
  <1>3. Cardinality(S) <= CandidateLimit
    BY <1>2, RecallAssumption DEF AllWords
  <1> QED
    BY <1>1, <1>3, LimitedIsAll

(* The newest facts are all facts if there are no more than the limit.     *)
LEMMA NewestIsAll ==
    ASSUME NEW n \in Nat, n <= CandidateLimit, NEW S, S \subseteq 1..n
    PROVE  Newest(CandidateLimit, S) = S
  <1>1. ASSUME NEW f \in S
        PROVE  Cardinality({g \in S : g > f}) < CandidateLimit
    <2>1. f \in 1..n /\ n >= 1
      BY <1>1
    <2>2. IsFiniteSet((f+1)..n) /\ Cardinality((f+1)..n) = IF f + 1 > n THEN 0 ELSE n - (f + 1) + 1
      BY <2>1, FS_Interval
    <2>3. {g \in S : g > f} \in SUBSET ((f+1)..n)
      <3>1. \A g \in S : g > f => g \in (f+1)..n
        BY <2>1
      <3> QED
        BY <3>1
    <2>4. Cardinality({g \in S : g > f}) <= Cardinality((f+1)..n)
      BY <2>2, <2>3, FS_Subset
    <2>5. Cardinality({g \in S : g > f}) \in Nat
      BY <2>2, <2>3, FS_Subset, FS_CardinalityType
    <2>6. Cardinality((f+1)..n) < n
      BY <2>1, <2>2
    <2>7. Cardinality((f+1)..n) \in Nat
      BY <2>2, FS_CardinalityType
    <2> QED
      BY <2>4, <2>5, <2>6, <2>7, RecallAssumption
  <1> QED
    BY <1>1 DEF Newest

LEMMA SettledBounded ==
    ASSUME BudgetFits
    PROVE  budget.facts \in Nat /\ Stage("settled") \subseteq 1..budget.facts
  BY EmbeddingJobsAssumption DEF BudgetFits, Budget, Stage, Facts

LEMMA PromptsPacked ==
    NoPack \in Packed /\ \A found \in SUBSET Facts : Prompts[found][Relevant] \subseteq Packed
  <1>1. Relevant \in {<<>>, <<"conflict">>}
    BY DEF Relevant
  <1> QED
    BY <1>1 DEF Packed

LEMMA NoSearchFits == NoSearch \in SearchType
  <1>1. "idle" \in SearchSteps
    BY DEF SearchSteps
  <1> QED
    BY <1>1, PromptsPacked DEF NoSearch, SearchType

LEMMA RecallStarts == RecallInit => IInv
  <1> SUFFICES ASSUME RecallInit
               PROVE  IInv
    OBVIOUS
  <1>1. OutboxInv /\ IndexInv
    BY OutboxStarts, IndexStarts DEF RecallInit
  <1>2. BudgetFits
    BY RecallAssumption DEF RecallInit, BudgetFits
  <1>3. search \in SearchType /\ search = NoSearch
    BY NoSearchFits DEF RecallInit
  <1>4. WatchFits /\ HandFits
    BY <1>3 DEF WatchFits, HandFits, NoSearch
  <1> QED
    BY <1>1, <1>2, <1>3, <1>4 DEF IInv, SearchInv

(* What happens around a search: the budget.                               *)
LEMMA SpendFits ==
    ASSUME BudgetFits, budget.writes # 0, SpendWrite
    PROVE  budget' \in Budget /\ budget'.facts = budget.facts
  <1>1. CASE budget.writes = Unlimited
    BY <1>1 DEF BudgetFits, Budget, SpendWrite
  <1>2. CASE budget.writes # Unlimited
    <2>1. budget.writes \in Nat /\ budget.writes - 1 \in Nat
      BY <1>2 DEF BudgetFits, Budget
    <2> QED
      BY <1>2, <2>1 DEF BudgetFits, Budget, SpendWrite
  <1> QED
    BY <1>1, <1>2

(* No transaction brings in a fact beyond the bound. *)
LEMMA NothingBeyond ==
    ASSUME TypeOK, NEW n, WritesFact \/ (\E f \in Facts, insights \in SUBSET Facts : EraseFact(f, insights)),
           n = budget.facts
    PROVE  \A g \in Facts : fact[g] = "absent" /\ g \notin 1..n => fact'[g] = "absent"
  <1> USE DEF TypeOK, Stage, AtMostOne, Members, Moves
  <1>1. ASSUME NEW f \in 1..n, NEW R \in SUBSET Facts, WriteSettled(f, R) \/ WriteClosed(f, R)
        PROVE  \A g \in Facts : fact[g] = "absent" /\ g \notin 1..n => fact'[g] = "absent"
    BY <1>1 DEF WriteSettled, NewSettled, WriteClosed, NewClosed
  <1>2. ASSUME NEW f \in 1..n, NEW old \in Facts, WriteDisputed(f, old) \/ WriteMerged(f, old)
        PROVE  \A g \in Facts : fact[g] = "absent" /\ g \notin 1..n => fact'[g] = "absent"
    BY <1>2 DEF WriteDisputed, NewDisputed, WriteMerged, NewMerged
  <1>3. ASSUME NEW f \in Facts, NEW by \in Facts, ReplaceByDuplicate(f, by)
        PROVE  \A g \in Facts : fact[g] = "absent" => fact'[g] = "absent"
    BY <1>3 DEF ReplaceByDuplicate, Replaced
  <1>4. ASSUME NEW f \in Facts, NEW losers \in SUBSET Facts, ResolveConflict(f, losers)
        PROVE  \A g \in Facts : fact[g] = "absent" => fact'[g] = "absent"
    BY <1>4 DEF ResolveConflict, Elected
  <1>5. ASSUME NEW f \in Facts, NEW insights \in SUBSET Facts, EraseFact(f, insights)
        PROVE  \A g \in Facts : fact[g] = "absent" => fact'[g] = "absent"
    BY <1>5 DEF EraseFact, Wiped
  <1> QED
    BY <1>1, <1>2, <1>3, <1>4, <1>5 DEF WritesFact

(* A search that only watches loses no more than it is allowed to.         *)
LEMMA WatchedFits ==
    ASSUME SearchInv, up, up', vector \subseteq vector', budget'.facts = budget.facts,
           vector \subseteq Facts,
           search' = [search EXCEPT !.since = {f \in @ : fact'[f] = "settled"},
                                    !.embedded = {f \in @ : fact'[f] = "settled"}]
    PROVE  search' \in SearchType /\ WatchFits' /\ HandFits'
  <1> USE DEF SearchInv
  <1>1. /\ search.since \subseteq Facts /\ search'.since \subseteq search.since
        /\ search'.embedded \subseteq search.embedded
        /\ search'.since \subseteq Facts /\ search'.embedded \subseteq Facts
    BY DEF SearchType
  <1>2. search' \in SearchType
    BY <1>1 DEF SearchType
  <1>3. WatchFits'
    BY <1>1 DEF WatchFits, Stage, SearchType
  <1>4. HandFits'
    BY <1>1 DEF HandFits, SearchType, AllFacts, AllWords
  <1> QED
    BY <1>2, <1>3, <1>4

(* Steps of the world leave the search alone, or only watch.               *)
LEMMA WorldKeeps ==
    ASSUME IInv, \/ WriteFact \/ Erase \/ TimeStep \/ Die \/ StartDaemon \/ Rebuild
                 \/ \E w \in Workers : WorkStep(w)
    PROVE  SearchInv'
  <1> USE DEF IInv, SearchInv
  <1>0. TypeOK /\ vector \subseteq Facts
    BY DEF OutboxInv, TypeOK
  <1>1. CASE WriteFact
    <2>1. WritesFact /\ budget.writes # 0 /\ SpendWrite /\ search' = Watched
      BY <1>1 DEF WriteFact, WritesFact
    <2>2. budget' \in Budget /\ budget'.facts = budget.facts
      BY <2>1, SpendFits
    <2>3. BudgetFits'
      BY <1>0, <2>1, <2>2, NothingBeyond DEF BudgetFits, Budget, Facts
    <2>4. up /\ up' = up /\ vector' = vector
      BY <2>1, WritesFactIsTransaction
    <2>5. search' \in SearchType /\ WatchFits' /\ HandFits'
      BY <1>0, <2>1, <2>2, <2>4, WatchedFits DEF Watched
    <2> QED
      BY <2>3, <2>5
  <1>2. CASE Erase
    <2>1. PICK f \in Facts, insights \in SUBSET Facts : EraseFact(f, insights)
      BY <1>2 DEF Erase
    <2>2. budget.writes # 0 /\ SpendWrite /\ search' = search
      BY <1>2 DEF Erase
    <2>3. budget' \in Budget /\ budget'.facts = budget.facts
      BY <2>2, SpendFits
    <2>4. BudgetFits'
      BY <1>0, <2>1, <2>3, NothingBeyond DEF BudgetFits, Budget, Facts
    <2>5. ~up /\ up' = up
      BY <2>1 DEF EraseFact
    <2>6. search.since = {} /\ search.embedded = {} /\ search.step = "idle"
      BY <2>5 DEF WatchFits
    <2>7. WatchFits'
      BY <2>2, <2>6 DEF WatchFits
    <2>8. HandFits'
      BY <2>2, <2>3 DEF HandFits, AllFacts, AllWords
    <2> QED
      BY <2>2, <2>4, <2>7, <2>8
  <1>3. CASE TimeStep
    <2>1. UNCHANGED <<fact, vector, up, search, budget>>
      BY <1>3 DEF TimeStep, LeaseLapses, BackoffEnds, recallVars
    <2> QED
      BY <2>1 DEF BudgetFits, WatchFits, HandFits, Stage, AllFacts, AllWords
  <1>4. CASE Die
    <2>1. fact' = fact /\ ~up' /\ search' = NoSearch
      BY <1>4 DEF Die, Crash
    <2>2. budget.crashes \in Nat /\ budget.crashes - 1 \in Nat
      BY <1>4 DEF Die, BudgetFits, Budget
    <2>3. budget' \in Budget /\ budget'.facts = budget.facts
      BY <1>4, <2>2 DEF Die, BudgetFits, Budget
    <2>4. BudgetFits'
      BY <2>1, <2>3 DEF BudgetFits
    <2>5. WatchFits' /\ HandFits'
      BY <2>1 DEF WatchFits, HandFits, NoSearch
    <2> QED
      BY <2>1, <2>4, <2>5, NoSearchFits
  <1>5. CASE StartDaemon
    <2>1. UNCHANGED <<fact, vector, search, budget>> /\ ~up
      BY <1>5 DEF StartDaemon, Start
    <2>2. search.since = {} /\ search.embedded = {} /\ search.step = "idle"
      BY <2>1 DEF WatchFits
    <2>3. WatchFits'
      BY <2>1, <2>2 DEF WatchFits
    <2> QED
      BY <2>1, <2>3 DEF BudgetFits, HandFits, AllFacts, AllWords
  <1>6. CASE Rebuild
    <2>1. UNCHANGED <<fact, vector, up, search>>
      BY <1>6 DEF Rebuild, vars
    <2>2. budget.rebuilds \in Nat /\ budget.rebuilds - 1 \in Nat
      BY <1>6 DEF Rebuild, BudgetFits, Budget
    <2>3. budget' \in Budget /\ budget'.facts = budget.facts
      BY <1>6, <2>2 DEF Rebuild, BudgetFits, Budget
    <2> QED
      BY <2>1, <2>3 DEF BudgetFits, WatchFits, HandFits, Stage, AllFacts, AllWords
  <1>7. ASSUME NEW w \in Workers, WorkStep(w)
        PROVE  SearchInv'
    <2>1. UNCHANGED <<fact, up, search, budget>> /\ vector \subseteq vector'
      BY <1>0, <1>7, WorkStores DEF WorkStep
    <2> QED
      BY <2>1 DEF BudgetFits, WatchFits, HandFits, Stage, AllFacts, AllWords
  <1> QED
    BY <1>1, <1>2, <1>3, <1>4, <1>5, <1>6, <1>7

(* What a search may rely on between two statements.                       *)
LEMMA SearchFacts ==
    ASSUME IInv
    PROVE  /\ search.since \subseteq Stage("settled") /\ search.embedded \subseteq search.since
           /\ search.embedded \subseteq vector /\ Stage("settled") \subseteq Facts /\ vector \subseteq Facts
           /\ Worded \subseteq Facts /\ search.lexical \subseteq Facts /\ search.dense \subseteq Facts
           /\ search.facts \subseteq Facts /\ search.vectors \subseteq Facts
           /\ search \in SearchType
  BY RecallAssumption DEF IInv, OutboxInv, TypeOK, SearchInv, WatchFits, SearchType, Stage

(* A statement moves the search on and sees what was committed.            *)
LEMMA TurnKeeps ==
    ASSUME IInv, NEW next, Turn(next), next \in SearchType, up, HandFits',
           next.since = search.since, next.embedded = search.embedded, next.step # "idle"
    PROVE  SearchInv'
  BY DEF IInv, SearchInv, Turn, vars, BudgetFits, WatchFits, Stage

LEMMA SearchBegins ==
    ASSUME IInv, BeginSearch
    PROVE  SearchInv'
  <1> USE DEF IInv, SearchInv
  <1>1. budget.searches \in Nat /\ budget.searches - 1 \in Nat
    BY DEF BeginSearch, BudgetFits, Budget
  <1>2. BudgetFits'
    BY <1>1 DEF BeginSearch, BudgetFits, Budget, vars
  <1>3. PICK begun : begun = [NoSearch EXCEPT !.step = "open", !.since = Stage("settled"),
                                              !.embedded = Stage("settled") \cap vector]
    OBVIOUS
  <1>4. search' = begun \/ search' = [begun EXCEPT !.step = "done", !.outcome = "refused"]
    BY <1>3 DEF BeginSearch
  <1>5. "open" \in SearchSteps /\ "done" \in SearchSteps
    BY DEF SearchSteps
  <1>6. Stage("settled") \subseteq Facts
    BY DEF Stage
  <1>7. begun \in SearchType
    BY <1>3, <1>5, <1>6, NoSearchFits DEF SearchType
  <1>8. search' \in SearchType
    BY <1>4, <1>5, <1>7 DEF SearchType
  <1>9. /\ search'.since = Stage("settled") /\ search'.embedded = Stage("settled") \cap vector
        /\ search'.step \in {"open", "done"} /\ search'.outcome \in {"none", "refused"}
        /\ ~search'.scored /\ ~search'.indexed
    BY <1>3, <1>4 DEF NoSearch
  <1>10. UNCHANGED <<fact, vector, up>> /\ up
    BY DEF BeginSearch, vars
  <1>11. WatchFits'
    BY <1>9, <1>10 DEF WatchFits, Stage
  <1>12. HandFits'
    BY <1>9 DEF HandFits
  <1> QED
    BY <1>2, <1>8, <1>11, <1>12

LEMMA StepsAre ==
    /\ "lexical" \in SearchSteps /\ "eligible" \in SearchSteps /\ "recent" \in SearchSteps
    /\ "score" \in SearchSteps /\ "load" \in SearchSteps /\ "receipts" \in SearchSteps
    /\ "rescore" \in SearchSteps /\ "vectors" \in SearchSteps /\ "jobs" \in SearchSteps
    /\ "done" \in SearchSteps
  BY DEF SearchSteps

(* Fields of the record a statement leaves. *)
LEMMA EndFits ==
    ASSUME IInv, NEW outcome \in {"uncovered", "model", "answered"}, NEW facts \in SUBSET Facts
    PROVE  /\ End(outcome, facts) \in SearchType
           /\ End(outcome, facts).since = search.since /\ End(outcome, facts).embedded = search.embedded
           /\ End(outcome, facts).step = "done" /\ End(outcome, facts).outcome = outcome
           /\ End(outcome, facts).facts = facts /\ End(outcome, facts).scored = search.scored
           /\ End(outcome, facts).indexed = search.indexed
  BY StepsAre DEF IInv, SearchInv, SearchType, End

LEMMA AnswerKeeps ==
    ASSUME IInv, NEW candidates \in SUBSET Facts, NEW scored \in SUBSET Facts,
           Answered(candidates, scored), up, search.outcome # "answered",
           search.scored \/ AllWords => Worded \cap search.since \subseteq candidates,
           search.scored \/ AllFacts => search.embedded \subseteq candidates \cap scored
    PROVE  SearchInv'
  <1>1. PICK next : next = [search EXCEPT !.facts = Answer(candidates, scored), !.step = "receipts",
                                          !.lexical = {}, !.dense = {}, !.vectors = {}]
    OBVIOUS
  <1>2. Turn(next)
    BY <1>1 DEF Answered
  <1>3. Answer(candidates, scored) \subseteq Facts
    BY DEF Answer
  <1>4. next \in SearchType
    BY <1>1, <1>3, SearchFacts, StepsAre DEF SearchType
  <1>5. /\ next.since = search.since /\ next.embedded = search.embedded /\ next.step = "receipts"
        /\ next.outcome = search.outcome /\ next.scored = search.scored /\ next.indexed = search.indexed
        /\ next.facts = Answer(candidates, scored)
    BY <1>1, SearchFacts DEF SearchType
  <1>6. /\ search.scored \/ AllWords => Worded \cap search.since \subseteq next.facts
        /\ search.scored \/ AllFacts => search.embedded \subseteq next.facts
    BY <1>5 DEF Answer
  <1>7. search' = next /\ budget' = budget
    BY <1>2 DEF Turn
  <1>8. HandFits'
    BY <1>5, <1>6, <1>7 DEF HandFits, AllFacts, AllWords, IInv, SearchInv
  <1> QED
    BY <1>2, <1>4, <1>5, <1>8, TurnKeeps

LEMMA IndexIsOpened ==
    ASSUME IInv, OpenIndex
    PROVE  SearchInv'
  <1>1. PICK opened \in Opened : Turn([search EXCEPT !.indexed = opened, !.step = "lexical"])
    BY DEF OpenIndex
  <1>2. PICK next : next = [search EXCEPT !.indexed = opened, !.step = "lexical"]
    OBVIOUS
  <1>3. opened \in BOOLEAN
    BY DEF Opened
  <1>4. /\ next \in SearchType /\ next.since = search.since /\ next.embedded = search.embedded
        /\ next.step = "lexical" /\ next.outcome = search.outcome /\ next.scored = search.scored
    BY <1>2, <1>3, SearchFacts, StepsAre DEF SearchType
  <1>5. up /\ search.step = "open" /\ search' = next
    BY <1>1, <1>2 DEF OpenIndex, Is, Turn
  <1>6. HandFits'
    BY <1>4, <1>5 DEF HandFits, IInv, SearchInv
  <1> QED
    BY <1>1, <1>2, <1>4, <1>5, <1>6, TurnKeeps

LEMMA LexicalKeeps ==
    ASSUME IInv, Lexical
    PROVE  SearchInv'
  <1> DEFINE words == Worded \cap Stage("settled")
  <1>1. PICK found \in SUBSET words, step \in {"eligible", "recent"} :
          /\ Turn([search EXCEPT !.lexical = found, !.step = step])
          /\ search.indexed \/ AllWords => found = words
          /\ step = "eligible" => search.indexed
    <2>1. CASE search.indexed
      BY <2>1 DEF Lexical
    <2>2. CASE ~search.indexed
      <3>1. PICK found \in Limited(words) : Turn([search EXCEPT !.lexical = found, !.step = "recent"])
        BY <2>2 DEF Lexical
      <3>2. found \subseteq words /\ (AllWords => found = words)
        BY LimitedIsAll, WordsLimited, SearchFacts
      <3> QED
        BY <2>2, <3>1, <3>2
    <2> QED
      BY <2>1, <2>2
  <1>2. PICK next : next = [search EXCEPT !.lexical = found, !.step = step]
    OBVIOUS
  <1>3. found \subseteq Facts
    BY SearchFacts
  <1>4. /\ next \in SearchType /\ next.since = search.since /\ next.embedded = search.embedded
        /\ next.step = step /\ next.outcome = search.outcome /\ next.scored = search.scored
        /\ next.indexed = search.indexed /\ next.lexical = found
    BY <1>2, <1>3, SearchFacts, StepsAre DEF SearchType
  <1>5. up /\ search.step = "lexical" /\ search' = next
    BY <1>1, <1>2 DEF Lexical, Is, Turn
  <1>6. search.indexed \/ AllWords => Worded \cap search.since \subseteq found
    BY <1>1, SearchFacts
  <1>7. HandFits'
    BY <1>1, <1>4, <1>5, <1>6 DEF HandFits, IInv, SearchInv, AllWords
  <1> QED
    BY <1>1, <1>2, <1>4, <1>5, <1>7, TurnKeeps

LEMMA EligibleKeeps ==
    ASSUME IInv, Eligible
    PROVE  SearchInv'
  <1> DEFINE eligible == Stage("settled") \cap vector
  <1>1. PICK step \in {"recent", "score"} :
          Turn([search EXCEPT !.dense = eligible, !.step = step])
    BY DEF Eligible
  <1>2. PICK next : next = [search EXCEPT !.dense = eligible, !.step = step]
    OBVIOUS
  <1>3. /\ next \in SearchType /\ next.since = search.since /\ next.embedded = search.embedded
        /\ next.step = step /\ next.outcome = search.outcome /\ next.scored = search.scored
        /\ next.indexed = search.indexed /\ next.lexical = search.lexical /\ next.dense = eligible
    BY <1>2, SearchFacts, StepsAre DEF SearchType
  <1>4. up /\ search.step = "eligible" /\ search' = next
    BY <1>1, <1>2 DEF Eligible, Is, Turn
  <1>5. search.embedded \subseteq eligible
    BY SearchFacts
  <1>6. HandFits'
    BY <1>3, <1>4, <1>5 DEF HandFits, IInv, SearchInv, AllWords
  <1> QED
    BY <1>1, <1>2, <1>3, <1>4, <1>6, TurnKeeps

LEMMA ScoreKeeps ==
    ASSUME IInv, Score
    PROVE  SearchInv'
  <1>0. up /\ search.step = "score" /\ ~search.scored /\ search.indexed /\ search.lexical \subseteq Worded
    BY DEF Score, Is, HandFits, IInv, SearchInv
  <1>1. CASE Turn([search EXCEPT !.scored = TRUE, !.step = "load"])
    <2>1. PICK next : next = [search EXCEPT !.scored = TRUE, !.step = "load"]
      OBVIOUS
    <2>2. /\ next \in SearchType /\ next.since = search.since /\ next.embedded = search.embedded
          /\ next.step = "load" /\ next.outcome = search.outcome /\ next.scored
          /\ next.indexed = search.indexed /\ next.lexical = search.lexical /\ next.dense = search.dense
      BY <2>1, SearchFacts, StepsAre DEF SearchType
    <2>3. search' = next
      BY <1>1, <2>1 DEF Turn
    <2>4. HandFits'
      BY <1>0, <2>2, <2>3 DEF HandFits, IInv, SearchInv
    <2> QED
      BY <1>0, <1>1, <2>1, <2>2, <2>4, TurnKeeps
  <1>2. ASSUME NEW found \in Limited(search.lexical),
               Turn([search EXCEPT !.indexed = FALSE, !.lexical = found, !.dense = {}, !.step = "recent"])
        PROVE  SearchInv'
    <2>1. PICK next : next = [search EXCEPT !.indexed = FALSE, !.lexical = found, !.dense = {}, !.step = "recent"]
      OBVIOUS
    <2>2. found \subseteq search.lexical /\ (AllWords => found = search.lexical)
      BY <1>0, LimitedIsAll, WordsLimited, SearchFacts
    <2>3. found \subseteq Facts
      BY <2>2, SearchFacts
    <2>4. /\ next \in SearchType /\ next.since = search.since /\ next.embedded = search.embedded
          /\ next.step = "recent" /\ next.outcome = search.outcome /\ next.scored = search.scored
          /\ ~next.indexed /\ next.lexical = found
      BY <2>1, <2>3, SearchFacts, StepsAre DEF SearchType
    <2>5. search' = next
      BY <1>2, <2>1 DEF Turn
    <2>6. HandFits'
      BY <1>0, <2>2, <2>4, <2>5 DEF HandFits, IInv, SearchInv, AllWords
    <2> QED
      BY <1>0, <1>2, <2>1, <2>4, <2>6, TurnKeeps
  <1> QED
    BY <1>1, <1>2 DEF Score

LEMMA RecentKeeps ==
    ASSUME IInv, Recent
    PROVE  SearchInv'
  <1> DEFINE newest == Newest(CandidateLimit, Stage("settled"))
  <1>1. PICK next : next = [search EXCEPT !.dense = newest, !.step = "load"]
    OBVIOUS
  <1>2. newest \subseteq Facts
    BY SearchFacts DEF Newest
  <1>3. /\ next \in SearchType /\ next.since = search.since /\ next.embedded = search.embedded
        /\ next.step = "load" /\ next.outcome = search.outcome /\ next.scored = search.scored
        /\ next.indexed = search.indexed /\ next.lexical = search.lexical /\ next.dense = newest
    BY <1>1, <1>2, SearchFacts, StepsAre DEF SearchType
  <1>4. up /\ search.step = "recent" /\ search' = next /\ budget' = budget
    BY <1>1 DEF Recent, Is, Turn
  <1>5. AllFacts => search.since \subseteq newest
    BY NewestIsAll, SettledBounded, SearchFacts DEF AllFacts, IInv, SearchInv
  <1>6. HandFits'
    BY <1>3, <1>4, <1>5 DEF HandFits, IInv, SearchInv, AllWords, AllFacts
  <1> QED
    BY <1>1, <1>3, <1>4, <1>6, TurnKeeps DEF Recent

LEMMA LoadKeeps ==
    ASSUME IInv, Load
    PROVE  SearchInv'
  <1>0. up /\ search.step = "load" /\ search.outcome # "answered"
    BY DEF Load, Is, HandFits, IInv, SearchInv
  <1>1. /\ search.indexed \/ AllWords => Worded \cap search.since \subseteq search.lexical
        /\ search.scored => search.indexed /\ search.embedded \subseteq search.dense
        /\ ~search.scored /\ AllFacts => search.since \subseteq search.dense
    BY <1>0 DEF HandFits, IInv, SearchInv
  <1>2. Candidates \subseteq Facts
    BY SearchFacts DEF Candidates
  <1>3. /\ search.indexed \/ AllWords => Worded \cap search.since \subseteq Candidates
        /\ search.scored \/ AllFacts => search.embedded \subseteq Candidates \cap search.dense
    BY <1>1, SearchFacts DEF Candidates
  <1>4. CASE search.scored \/ Candidates = {}
    BY <1>0, <1>1, <1>2, <1>3, <1>4, SearchFacts, AnswerKeeps DEF Load
  <1>5. CASE ~(search.scored \/ Candidates = {})
    <2>1. PICK step \in {"rescore", "vectors"} :
            Turn([search EXCEPT !.facts = Candidates, !.lexical = {}, !.dense = {}, !.step = step])
      BY <1>5 DEF Load
    <2>2. PICK next : next = [search EXCEPT !.facts = Candidates, !.lexical = {}, !.dense = {}, !.step = step]
      OBVIOUS
    <2>3. /\ next \in SearchType /\ next.since = search.since /\ next.embedded = search.embedded
          /\ next.step = step /\ next.outcome = search.outcome /\ next.scored = search.scored
          /\ next.indexed = search.indexed /\ next.facts = Candidates
      BY <1>2, <2>2, SearchFacts, StepsAre DEF SearchType
    <2>4. search' = next /\ budget' = budget
      BY <2>1, <2>2 DEF Turn
    <2>5. HandFits'
      BY <1>0, <1>3, <1>5, <2>3, <2>4 DEF HandFits, AllWords, AllFacts
    <2> QED
      BY <1>0, <2>1, <2>2, <2>3, <2>5, TurnKeeps
  <1> QED
    BY <1>4, <1>5

(* The candidates are scored: by the index, by their vectors, or by the    *)
(* vectors of those that have one.                                         *)
LEMMA HandAtScoring ==
    ASSUME IInv, search.step \in {"rescore", "vectors", "jobs"}
    PROVE  /\ search.outcome # "answered" /\ ~search.scored
           /\ AllWords => Worded \cap search.since \subseteq search.facts
           /\ AllFacts => search.embedded \subseteq search.facts
           /\ search.step = "jobs" => search.embedded \cap search.facts \subseteq search.vectors
  BY DEF HandFits, IInv, SearchInv

LEMMA RescoreKeeps ==
    ASSUME IInv, Rescore
    PROVE  SearchInv'
  <1>0. up /\ search.step = "rescore"
    BY DEF Rescore, Is
  <1>1. CASE Answered(search.facts, search.facts)
    BY <1>0, <1>1, HandAtScoring, SearchFacts, AnswerKeeps
  <1>2. CASE Turn([search EXCEPT !.indexed = FALSE, !.step = "vectors"])
    <2>1. PICK next : next = [search EXCEPT !.indexed = FALSE, !.step = "vectors"]
      OBVIOUS
    <2>2. /\ next \in SearchType /\ next.since = search.since /\ next.embedded = search.embedded
          /\ next.step = "vectors" /\ next.outcome = search.outcome /\ next.scored = search.scored
          /\ next.facts = search.facts
      BY <2>1, SearchFacts, StepsAre DEF SearchType
    <2>3. search' = next /\ budget' = budget
      BY <1>2, <2>1 DEF Turn
    <2>4. HandFits'
      BY <1>0, <2>2, <2>3, HandAtScoring DEF HandFits, AllWords, AllFacts
    <2> QED
      BY <1>0, <1>2, <2>1, <2>2, <2>4, TurnKeeps
  <1> QED
    BY <1>1, <1>2 DEF Rescore

LEMMA VectorsKeeps ==
    ASSUME IInv, Vectors
    PROVE  SearchInv'
  <1>0. up /\ search.step = "vectors"
    BY DEF Vectors, Is
  <1>1. CASE search.facts \subseteq vector
    BY <1>0, <1>1, HandAtScoring, SearchFacts, AnswerKeeps DEF Vectors
  <1>2. CASE ~(search.facts \subseteq vector)
    <2>1. PICK next : next = [search EXCEPT !.vectors = search.facts \cap vector, !.step = "jobs"]
      OBVIOUS
    <2>2. /\ next \in SearchType /\ next.since = search.since /\ next.embedded = search.embedded
          /\ next.step = "jobs" /\ next.outcome = search.outcome /\ next.scored = search.scored
          /\ next.facts = search.facts /\ next.vectors = search.facts \cap vector
      BY <2>1, SearchFacts, StepsAre DEF SearchType
    <2>3. Turn(next) /\ search' = next /\ budget' = budget
      BY <1>2, <2>1 DEF Turn, Vectors
    <2>4. search.embedded \cap search.facts \subseteq next.vectors
      BY <2>2, SearchFacts
    <2>5. HandFits'
      BY <1>0, <2>2, <2>3, <2>4, HandAtScoring DEF HandFits, AllWords, AllFacts
    <2> QED
      BY <1>0, <2>2, <2>3, <2>5, TurnKeeps
  <1> QED
    BY <1>1, <1>2

LEMMA EndKeeps ==
    ASSUME IInv, up, NEW outcome \in {"uncovered", "model", "answered"}, NEW facts \in SUBSET Facts,
           Turn(End(outcome, facts)), search.scored => search.indexed,
           outcome = "answered" =>
             /\ search.scored \/ AllWords => Worded \cap search.since \subseteq facts
             /\ search.scored \/ AllFacts => search.embedded \subseteq facts
    PROVE  SearchInv'
  <1>1. search' = End(outcome, facts) /\ budget' = budget
    BY DEF Turn
  <1>2. HandFits'
    BY <1>1, EndFits DEF HandFits, AllWords, AllFacts
  <1> QED
    BY <1>2, EndFits, TurnKeeps

LEMMA JobsKeeps ==
    ASSUME IInv, Jobs
    PROVE  SearchInv'
  <1>0. up /\ search.step = "jobs"
    BY DEF Jobs, Is
  <1>1. CASE Answered(search.facts, search.vectors)
    BY <1>0, <1>1, HandAtScoring, SearchFacts, AnswerKeeps
  <1>2. CASE Turn(End("uncovered", {}))
    BY <1>0, <1>2, HandAtScoring, EndKeeps
  <1> QED
    BY <1>1, <1>2 DEF Jobs

LEMMA ModelDownKeeps ==
    ASSUME IInv, ModelDown
    PROVE  SearchInv'
  <1>1. up /\ Turn(End("model", {})) /\ (search.scored => search.indexed)
    BY DEF ModelDown, Is, IInv, SearchInv, HandFits
  <1> QED
    BY <1>1, EndKeeps

LEMMA ReceiptsKeeps ==
    ASSUME IInv, Receipts
    PROVE  SearchInv'
  <1>1. PICK pack \in {NoPack} \cup Prompts[search.facts][Relevant] :
          Turn([End("answered", search.facts) EXCEPT !.listed = Relevant, !.pack = pack])
    BY DEF Receipts
  <1>2. PICK ended : ended = End("answered", search.facts)
    OBVIOUS
  <1>3. PICK next : next = [ended EXCEPT !.listed = Relevant, !.pack = pack]
    OBVIOUS
  <1>4. pack \in Packed /\ Relevant \in {<<>>, <<"conflict">>}
    BY PromptsPacked, SearchFacts DEF Relevant
  <1>5. /\ search.scored => search.indexed
        /\ search.scored \/ AllWords => Worded \cap search.since \subseteq search.facts
        /\ search.scored \/ AllFacts => search.embedded \subseteq search.facts
    BY DEF Receipts, Is, IInv, SearchInv, HandFits
  <1>6. /\ next \in SearchType /\ next.since = search.since /\ next.embedded = search.embedded
        /\ next.step = "done" /\ next.outcome = "answered" /\ next.scored = search.scored
        /\ next.indexed = search.indexed /\ next.facts = search.facts
    <2>1. /\ ended \in SearchType /\ ended.since = search.since /\ ended.embedded = search.embedded
          /\ ended.step = "done" /\ ended.outcome = "answered" /\ ended.scored = search.scored
          /\ ended.indexed = search.indexed /\ ended.facts = search.facts
      BY <1>2, EndFits, SearchFacts
    <2> QED
      BY <1>3, <1>4, <2>1 DEF SearchType
  <1>7. up /\ Turn(next) /\ search' = next /\ budget' = budget
    BY <1>1, <1>2, <1>3 DEF Receipts, Is, Turn
  <1>8. HandFits'
    BY <1>5, <1>6, <1>7 DEF HandFits, AllWords, AllFacts
  <1> QED
    BY <1>6, <1>7, <1>8, TurnKeeps

LEMMA ReplyKeeps ==
    ASSUME IInv, Reply
    PROVE  SearchInv'
  <1>1. search' = NoSearch /\ UNCHANGED <<fact, vector, up, budget>>
    BY DEF Reply, Turn, vars
  <1>2. WatchFits' /\ HandFits'
    BY <1>1 DEF WatchFits, HandFits, NoSearch
  <1> QED
    BY <1>1, <1>2, NoSearchFits DEF IInv, SearchInv, BudgetFits

LEMMA RecallKeeps ==
    ASSUME IInv, [RecallNext]_<<vars, recallVars>>
    PROVE  IInv'
  <1>1. OutboxInv'
    BY RecallStepIsOutboxStep, OutboxKeeps DEF IInv
  <1>2. IndexInv'
    BY IndexKeeps DEF IInv
  <1>3. SearchInv'
    <2>1. CASE UNCHANGED <<vars, recallVars>>
      BY <2>1 DEF vars, recallVars, IInv, SearchInv, BudgetFits, WatchFits, HandFits, Stage, AllWords, AllFacts
    <2>2. CASE Search
      BY <2>2, SearchBegins, IndexIsOpened, LexicalKeeps, EligibleKeeps, ScoreKeeps, RecentKeeps,
         LoadKeeps, RescoreKeeps, VectorsKeeps, JobsKeeps, ModelDownKeeps, ReceiptsKeeps, ReplyKeeps
         DEF Search
    <2> QED
      BY <2>1, <2>2, WorldKeeps DEF RecallNext
  <1> QED
    BY <1>1, <1>2, <1>3 DEF IInv

-----------------------------------------------------------------------------
(* Folds.  A set of numbers has a least member, so that whatever fails at  *)
(* some step of a fold fails at a first one.                               *)
LEMMA Least ==
    ASSUME NEW T \in SUBSET Nat, T # {}
    PROVE  \E x \in T : \A y \in T : x <= y
  <1> DEFINE Less == {p \in Nat \X Nat : p[1] < p[2]}
  <1>1. IsWellFoundedOn(Less, Nat)
    BY NatLessThanWellFounded DEF OpToRel
  <1>2. PICK x \in T : \A y \in T : <<y, x>> \notin Less
    <2> HIDE DEF Less
    <2> QED
      BY <1>1, WFMin
  <1>3. ASSUME NEW y \in T PROVE x <= y
    <2>1. <<y, x>> \notin Less /\ x \in Nat /\ y \in Nat
      BY <1>2
    <2> QED
      BY <2>1
  <1> QED
    BY <1>3

(* What holds of the base of a fold and is kept by its steps holds of all. *)
LEMMA Throughout ==
    ASSUME NEW n \in Nat, NEW G, 0 \in G, \A i \in 1..n : i - 1 \in G => i \in G
    PROVE  \A i \in 0..n : i \in G
  <1> DEFINE T == {i \in 0..n : i \notin G}
  <1> SUFFICES ASSUME T # {} PROVE FALSE
    OBVIOUS
  <1>1. T \in SUBSET Nat
    OBVIOUS
  <1>2. PICK x \in T : \A y \in T : x <= y
    BY <1>1, Least
  <1>3. x \in 1..n /\ x \notin G
    OBVIOUS
  <1>4. x - 1 \in 0..n /\ ~(x <= x - 1)
    BY <1>3
  <1>5. x - 1 \notin T
    BY <1>2, <1>4
  <1> QED
    BY <1>3, <1>4, <1>5

LEMMA MaxIsMember ==
    ASSUME NEW n \in Nat, NEW S \in SUBSET (1..n), S # {}
    PROVE  Max(S) \in S /\ \A y \in S : Max(S) >= y
  <1> DEFINE T == {n - y : y \in S}
  <1>1. T \in SUBSET Nat /\ T # {}
    OBVIOUS
  <1>2. PICK x \in T : \A y \in T : x <= y
    BY <1>1, Least
  <1>3. PICK m \in S : x = n - m
    OBVIOUS
  <1>4. ASSUME NEW y \in S PROVE m >= y
    <2>1. n - m <= n - y /\ y \in Nat /\ m \in Nat
      BY <1>2, <1>3
    <2> QED
      BY <2>1
  <1> QED
    BY <1>4 DEF Max

LEMMA MaxOfPrefix ==
    ASSUME NEW i \in Nat, i # 0
    PROVE  Max(1..i) = i /\ (1..i) \ {i} = 1..(i - 1)
  <1>1. 1..i \in SUBSET (1..i) /\ 1..i # {}
    <2>1. i \in 1..i
      OBVIOUS
    <2> QED
      BY <2>1
  <1>2. Max(1..i) \in 1..i /\ \A y \in 1..i : Max(1..i) >= y
    BY <1>1, MaxIsMember
  <1>3. Max(1..i) \in 1..i /\ Max(1..i) >= i
    BY <1>2
  <1> QED
    BY <1>3

(* The recursion of a fold has a solution: what it gives for a set of      *)
(* positions, from what it gives without the last.                         *)
FoldSolution(Q, n, b, F, g) ==
    /\ g \in [SUBSET (1..n) -> Q]
    /\ \A S \in SUBSET (1..n) :
          g[S] = IF S = {} THEN b ELSE F[<<g[S \ {Max(S)}], Max(S)>>]

LEMMA FoldExists ==
    ASSUME NEW Q, NEW n \in Nat, NEW b \in Q, NEW F \in [Q \X (1..n) -> Q]
    PROVE  \E g : FoldSolution(Q, n, b, F, g)
  <1> DEFINE Solves(g, m) == FoldSolution(Q, m, b, F, g)
             G == {m \in 0..n : \E g : Solves(g, m)}
  <1> USE DEF FoldSolution
  <1>1. 0 \in G
    <2> DEFINE g == [S \in SUBSET (1..0) |-> b]
    <2>1. SUBSET (1..0) = {{}}
      OBVIOUS
    <2>2. Solves(g, 0)
      BY <2>1
    <2> HIDE DEF Solves
    <2> QED
      BY <2>2
  <1>2. ASSUME NEW m \in 1..n, m - 1 \in G PROVE m \in G
    <2>1. PICK h : Solves(h, m - 1)
      BY <1>2
    <2> DEFINE g == [S \in SUBSET (1..m) |->
                       IF m \in S THEN F[<<h[S \ {m}], m>>] ELSE h[S]]
    <2>2. ASSUME NEW S \in SUBSET (1..m)
          PROVE  /\ m \in S => /\ S \ {m} \in SUBSET (1..(m - 1)) /\ Max(S) = m
                               /\ g[S \ {m}] = h[S \ {m}]
                 /\ m \notin S => S \in SUBSET (1..(m - 1)) /\ g[S] = h[S]
      <3>1. m \notin S => S \in SUBSET (1..(m - 1))
        OBVIOUS
      <3>2. ASSUME m \in S PROVE Max(S) = m /\ S \ {m} \in SUBSET (1..(m - 1))
        <4>1. Max(S) \in S /\ Max(S) >= m
          BY <3>2, MaxIsMember
        <4>2. Max(S) \in 1..m
          BY <4>1
        <4>3. Max(S) = m
          BY <4>1, <4>2
        <4>4. S \ {m} \in SUBSET (1..(m - 1))
          OBVIOUS
        <4> QED
          BY <4>3, <4>4
      <3> QED
        BY <3>1, <3>2
    <2>3. g \in [SUBSET (1..m) -> Q]
      <3> SUFFICES ASSUME NEW S \in SUBSET (1..m)
                   PROVE  (IF m \in S THEN F[<<h[S \ {m}], m>>] ELSE h[S]) \in Q
        OBVIOUS
      <3> HIDE DEF g
      <3> QED
        BY <2>1, <2>2
    <2>4. ASSUME NEW S \in SUBSET (1..m)
          PROVE  g[S] = IF S = {} THEN b ELSE F[<<g[S \ {Max(S)}], Max(S)>>]
      <3>1. CASE m \in S
        <4>1. g[S] = F[<<h[S \ {m}], m>>]
          BY <3>1
        <4> HIDE DEF g
        <4> QED
          BY <2>2, <3>1, <4>1
      <3>2. CASE m \notin S
        <4>1. g[S] = h[S] /\ S \in SUBSET (1..(m - 1))
          BY <2>2, <3>2
        <4>2. CASE S = {}
          BY <2>1, <4>1, <4>2
        <4>3. CASE S # {}
          <5>0. m \in Nat /\ S \in SUBSET (1..m)
            OBVIOUS
          <5>1. Max(S) \in S
            BY <4>3, <5>0, MaxIsMember
          <5>2. S \ {Max(S)} \in SUBSET (1..m) /\ m \notin S \ {Max(S)}
            BY <3>2
          <5>3. g[S \ {Max(S)}] = h[S \ {Max(S)}]
            BY <2>2, <5>2
          <5> HIDE DEF g
          <5> QED
            BY <2>1, <4>1, <4>3, <5>3
        <4> QED
          BY <4>2, <4>3
      <3> QED
        BY <3>1, <3>2
    <2> HIDE DEF g
    <2>5. Solves(g, m)
      BY <2>3, <2>4
    <2> HIDE DEF Solves
    <2> QED
      BY <2>5
  <1> HIDE DEF G, FoldSolution
  <1>3. n \in G
    BY <1>1, <1>2, Throughout
  <1> QED
    BY <1>3 DEF G

(* A fold goes through the sequence: its value after every member.         *)
SortedAll(b, s) == FoldLeft(Sorted, b, s)
ReceiptsAll(b, s) == FoldLeft(WithReceipt, b, s)
RowsAll(b, s) == FoldLeft(WithRow, b, s)

LEMMA SortedSteps ==
    ASSUME NEW Q, NEW b \in Q, NEW E, NEW s \in Seq(E),
           \A q \in Q, e \in E : Sorted(q, e) \in Q
    PROVE  \E h : /\ h[0] = b /\ h[Len(s)] = SortedAll(b, s)
                  /\ \A i \in 1..Len(s) : h[i] = Sorted(h[i - 1], s[i])
  <1> DEFINE n == Len(s)
             Solution(iter) ==
               iter = [S \in SUBSET DOMAIN s |->
                         IF S = {} THEN b ELSE Sorted(iter[S \ {Max(S)}], s[Max(S)])]
             F == [p \in Q \X (1..n) |-> Sorted(p[1], s[p[2]])]
  <1>1. n \in Nat /\ DOMAIN s = 1..n /\ \A i \in 1..n : s[i] \in E
    OBVIOUS
  <1>2. F \in [Q \X (1..n) -> Q] /\ \A q \in Q, i \in 1..n : F[<<q, i>>] = Sorted(q, s[i])
    BY <1>1
  <1> HIDE DEF n, F
  <1>3. PICK g : FoldSolution(Q, n, b, F, g)
    BY <1>1, <1>2, FoldExists
  <1> USE DEF FoldSolution
  <1>4. Solution(g)
    <2>1. ASSUME NEW S \in SUBSET (1..n), S # {}
          PROVE  g[S] = Sorted(g[S \ {Max(S)}], s[Max(S)])
      <3>1. Max(S) \in S
        BY <1>1, <2>1, MaxIsMember
      <3>2. Max(S) \in 1..n /\ S \ {Max(S)} \in SUBSET (1..n)
        BY <3>1
      <3>3. g[S \ {Max(S)}] \in Q
        BY <1>3, <3>2
      <3> QED
        BY <1>2, <1>3, <2>1, <3>2, <3>3
    <2>2. g[{}] = b
      BY <1>3
    <2> QED
      BY <1>1, <1>3, <2>1, <2>2
  <1> DEFINE c == CHOOSE iter : Solution(iter)
  <1>5. Solution(c)
    <2> HIDE DEF Solution
    <2> QED
      BY <1>4
  <1>6. SortedAll(b, s) = c[1..n]
    BY <1>1, Zenon DEF SortedAll, FoldLeft, MapThenFoldSet
  <1> HIDE DEF c
  <1> DEFINE h == [i \in 0..n |-> c[1..i]]
  <1>7. h[0] = b
    <2>1. 1..0 = {} /\ {} \in SUBSET DOMAIN s
      OBVIOUS
    <2>2. c[{}] = b
      BY <1>5, <2>1
    <2> QED
      BY <1>1, <2>1, <2>2
  <1>8. ASSUME NEW i \in 1..n PROVE h[i] = Sorted(h[i - 1], s[i])
    <2>1. i \in Nat /\ i # 0 /\ i \in 0..n /\ i - 1 \in 0..n /\ 1..i \in SUBSET (1..n) /\ i \in 1..i
      BY <1>1
    <2>2. Max(1..i) = i /\ (1..i) \ {i} = 1..(i - 1)
      BY <2>1, MaxOfPrefix
    <2>3. 1..i # {}
      BY <2>1
    <2>4. c[1..i] = Sorted(c[(1..i) \ {Max(1..i)}], s[Max(1..i)])
      BY <1>1, <1>5, <2>1, <2>3
    <2>5. c[1..i] = Sorted(c[1..(i - 1)], s[i])
      BY <2>2, <2>4
    <2> QED
      BY <2>1, <2>5
  <1>9. h[n] = c[1..n]
    BY <1>1
  <1> HIDE DEF h
  <1> QED
    BY <1>6, <1>7, <1>8, <1>9 DEF n

LEMMA ReceiptSteps ==
    ASSUME NEW Q, NEW b \in Q, NEW E, NEW s \in Seq(E),
           \A q \in Q, e \in E : WithReceipt(q, e) \in Q
    PROVE  \E h : /\ h[0] = b /\ h[Len(s)] = ReceiptsAll(b, s)
                  /\ \A i \in 1..Len(s) : h[i] = WithReceipt(h[i - 1], s[i])
  <1> DEFINE n == Len(s)
             Solution(iter) ==
               iter = [S \in SUBSET DOMAIN s |->
                         IF S = {} THEN b ELSE WithReceipt(iter[S \ {Max(S)}], s[Max(S)])]
             F == [p \in Q \X (1..n) |-> WithReceipt(p[1], s[p[2]])]
  <1>1. n \in Nat /\ DOMAIN s = 1..n /\ \A i \in 1..n : s[i] \in E
    OBVIOUS
  <1>2. F \in [Q \X (1..n) -> Q] /\ \A q \in Q, i \in 1..n : F[<<q, i>>] = WithReceipt(q, s[i])
    BY <1>1
  <1> HIDE DEF n, F
  <1>3. PICK g : FoldSolution(Q, n, b, F, g)
    BY <1>1, <1>2, FoldExists
  <1> USE DEF FoldSolution
  <1>4. Solution(g)
    <2>1. ASSUME NEW S \in SUBSET (1..n), S # {}
          PROVE  g[S] = WithReceipt(g[S \ {Max(S)}], s[Max(S)])
      <3>1. Max(S) \in S
        BY <1>1, <2>1, MaxIsMember
      <3>2. Max(S) \in 1..n /\ S \ {Max(S)} \in SUBSET (1..n)
        BY <3>1
      <3>3. g[S \ {Max(S)}] \in Q
        BY <1>3, <3>2
      <3> QED
        BY <1>2, <1>3, <2>1, <3>2, <3>3
    <2>2. g[{}] = b
      BY <1>3
    <2> QED
      BY <1>1, <1>3, <2>1, <2>2
  <1> DEFINE c == CHOOSE iter : Solution(iter)
  <1>5. Solution(c)
    <2> HIDE DEF Solution
    <2> QED
      BY <1>4
  <1>6. ReceiptsAll(b, s) = c[1..n]
    BY <1>1, Zenon DEF ReceiptsAll, FoldLeft, MapThenFoldSet
  <1> HIDE DEF c
  <1> DEFINE h == [i \in 0..n |-> c[1..i]]
  <1>7. h[0] = b
    <2>1. 1..0 = {} /\ {} \in SUBSET DOMAIN s
      OBVIOUS
    <2>2. c[{}] = b
      BY <1>5, <2>1
    <2> QED
      BY <1>1, <2>1, <2>2
  <1>8. ASSUME NEW i \in 1..n PROVE h[i] = WithReceipt(h[i - 1], s[i])
    <2>1. i \in Nat /\ i # 0 /\ i \in 0..n /\ i - 1 \in 0..n /\ 1..i \in SUBSET (1..n) /\ i \in 1..i
      BY <1>1
    <2>2. Max(1..i) = i /\ (1..i) \ {i} = 1..(i - 1)
      BY <2>1, MaxOfPrefix
    <2>3. 1..i # {}
      BY <2>1
    <2>4. c[1..i] = WithReceipt(c[(1..i) \ {Max(1..i)}], s[Max(1..i)])
      BY <1>1, <1>5, <2>1, <2>3
    <2>5. c[1..i] = WithReceipt(c[1..(i - 1)], s[i])
      BY <2>2, <2>4
    <2> QED
      BY <2>1, <2>5
  <1>9. h[n] = c[1..n]
    BY <1>1
  <1> HIDE DEF h
  <1> QED
    BY <1>6, <1>7, <1>8, <1>9 DEF n

(* The packs one row after another makes of b. *)
RowChain(h, b, s) ==
    /\ h[0] = b /\ h[Len(s)] = RowsAll(b, s)
    /\ \A i \in 1..Len(s) : h[i] = WithRow(h[i - 1], s[i])

LEMMA RowSteps ==
    ASSUME NEW Q, NEW b \in Q, NEW E, NEW s \in Seq(E),
           \A q \in Q, e \in E : WithRow(q, e) \in Q
    PROVE  \E h : RowChain(h, b, s)
  <1> DEFINE n == Len(s)
             Solution(iter) ==
               iter = [S \in SUBSET DOMAIN s |->
                         IF S = {} THEN b ELSE WithRow(iter[S \ {Max(S)}], s[Max(S)])]
             F == [p \in Q \X (1..n) |-> WithRow(p[1], s[p[2]])]
  <1>1. n \in Nat /\ DOMAIN s = 1..n /\ \A i \in 1..n : s[i] \in E
    OBVIOUS
  <1>2. F \in [Q \X (1..n) -> Q] /\ \A q \in Q, i \in 1..n : F[<<q, i>>] = WithRow(q, s[i])
    BY <1>1
  <1> HIDE DEF n, F
  <1>3. PICK g : FoldSolution(Q, n, b, F, g)
    BY <1>1, <1>2, FoldExists
  <1> USE DEF FoldSolution
  <1>4. Solution(g)
    <2>1. ASSUME NEW S \in SUBSET (1..n), S # {}
          PROVE  g[S] = WithRow(g[S \ {Max(S)}], s[Max(S)])
      <3>1. Max(S) \in S
        BY <1>1, <2>1, MaxIsMember
      <3>2. Max(S) \in 1..n /\ S \ {Max(S)} \in SUBSET (1..n)
        BY <3>1
      <3>3. g[S \ {Max(S)}] \in Q
        BY <1>3, <3>2
      <3> QED
        BY <1>2, <1>3, <2>1, <3>2, <3>3
    <2>2. g[{}] = b
      BY <1>3
    <2> QED
      BY <1>1, <1>3, <2>1, <2>2
  <1> DEFINE c == CHOOSE iter : Solution(iter)
  <1>5. Solution(c)
    <2> HIDE DEF Solution
    <2> QED
      BY <1>4
  <1>6. RowsAll(b, s) = c[1..n]
    BY <1>1, Zenon DEF RowsAll, FoldLeft, MapThenFoldSet
  <1> HIDE DEF c
  <1> DEFINE h == [i \in 0..n |-> c[1..i]]
  <1>7. h[0] = b
    <2>1. 1..0 = {} /\ {} \in SUBSET DOMAIN s
      OBVIOUS
    <2>2. c[{}] = b
      BY <1>5, <2>1
    <2> QED
      BY <1>1, <2>1, <2>2
  <1>8. ASSUME NEW i \in 1..n PROVE h[i] = WithRow(h[i - 1], s[i])
    <2>1. i \in Nat /\ i # 0 /\ i \in 0..n /\ i - 1 \in 0..n /\ 1..i \in SUBSET (1..n) /\ i \in 1..i
      BY <1>1
    <2>2. Max(1..i) = i /\ (1..i) \ {i} = 1..(i - 1)
      BY <2>1, MaxOfPrefix
    <2>3. 1..i # {}
      BY <2>1
    <2>4. c[1..i] = WithRow(c[(1..i) \ {Max(1..i)}], s[Max(1..i)])
      BY <1>1, <1>5, <2>1, <2>3
    <2>5. c[1..i] = WithRow(c[1..(i - 1)], s[i])
      BY <2>2, <2>4
    <2> QED
      BY <2>1, <2>5
  <1>9. h[n] = c[1..n]
    BY <1>1
  <1> HIDE DEF h
  <1> QED
    BY <1>6, <1>7, <1>8, <1>9 DEF n, RowChain

-----------------------------------------------------------------------------
(* The packs that come up while a prompt block is made.                  *)
Rows == {Texts[f] : f \in Facts}
Conflicts == {"conflict"} \cup UNION {Texts[f].conflict : f \in Facts}
Slots == UNION {Texts[f].slot : f \in Facts}

PackType ==
    [budget : Nat, from : SUBSET Facts, chars : Nat, shown : SUBSET Facts, cut : SUBSET Facts,
     redacted : SUBSET Facts, receipts : SUBSET Conflicts, slots : SUBSET Slots, omitted : Int]

(* No line of a fact fits any more. *)
Full(pack) == pack.budget - Tokens(pack.chars) <= 2

(* The line of a row does not fit, or not enough of it. *)
NoRoom(pack, row) ==
    \/ Room(pack, row) <= 0
    \/ Room(pack, row) < Tokens(Clipped(row)) /\ 4 * Room(pack, row) - 1 < MinKept

Placed(pack, row) ==
    row.fact \in pack.shown \/ row.slot \cap pack.slots # {} \/ NoRoom(pack, row)

PackOk(pack) ==
    /\ pack \in PackType
    /\ Tokens(pack.chars) <= pack.budget
    /\ pack.shown \subseteq pack.from /\ pack.cut \subseteq pack.shown
    /\ \A f \in pack.shown : ~Rejected(Texts[f]) /\ SafeCandidate(Texts[f])
    /\ pack.slots = UNION {Texts[f].slot : f \in pack.shown}
    /\ \A f, g \in pack.shown : f # g => Texts[f].slot \cap Texts[g].slot = {}
    /\ pack.cut # {} => Full(pack)

(* Packing only adds. *)
Grows(pack, later) ==
    /\ later.budget = pack.budget /\ later.from = pack.from /\ pack.chars <= later.chars
    /\ pack.shown \subseteq later.shown /\ pack.slots \subseteq later.slots
    /\ pack.receipts \subseteq later.receipts

LEMMA RowIs ==
    ASSUME NEW row \in Rows
    PROVE  /\ row.fact \in Facts /\ Texts[row.fact] = row
           /\ row.chars \in Nat \ {0} /\ row.prefix \in Nat \ {0}
           /\ row.slot \in SUBSET Slots /\ row.conflict \in SUBSET Conflicts
           /\ IsFiniteSet(row.conflict)
           /\ Clipped(row) \in Nat \ {0}
  <1>1. PICK f \in Facts : row = Texts[f]
    BY DEF Rows
  <1>2. /\ Texts[f].fact = f /\ {Texts[f].chars, Texts[f].prefix} \subseteq Nat \ {0}
        /\ IsFiniteSet(Texts[f].conflict)
    BY RecallAssumption
  <1>3. row.slot \in SUBSET Slots /\ row.conflict \in SUBSET Conflicts
    BY <1>1 DEF Slots, Conflicts
  <1> QED
    BY <1>1, <1>2, <1>3, ContextPackAssumption DEF Clipped

LEMMA TokensAre ==
    ASSUME NEW c \in Nat
    PROVE  Tokens(c) \in Nat /\ c <= 4 * Tokens(c) /\ 4 * Tokens(c) <= c + 3
  BY DEF Tokens

LEMMA TokensGrow ==
    ASSUME NEW c \in Nat, NEW d \in Nat, c <= d
    PROVE  Tokens(c) <= Tokens(d)
  BY TokensAre

(* With room gone for one row it is gone for those that are no shorter.    *)
LEMMA FullHasNoRoom ==
    ASSUME NEW pack \in PackType, NEW row \in Rows, Full(pack)
    PROVE  NoRoom(pack, row)
  <1>1. pack.budget \in Nat /\ pack.chars \in Nat
    BY DEF PackType
  <1>2. Tokens(pack.chars) \in Nat /\ Tokens(row.prefix) \in Nat /\ Tokens(row.prefix) >= 1
    <2>1. row.prefix \in Nat /\ row.prefix # 0
      BY RowIs
    <2>2. Tokens(row.prefix) \in Nat /\ row.prefix <= 4 * Tokens(row.prefix)
      BY <2>1, TokensAre
    <2>3. Tokens(pack.chars) \in Nat
      BY <1>1, TokensAre
    <2> QED
      BY <2>1, <2>2, <2>3
  <1> QED
    BY <1>1, <1>2 DEF Full, NoRoom, Room

LEMMA NoRoomForLonger ==
    ASSUME NEW pack \in PackType, NEW later \in PackType, NEW row \in Rows, NEW other \in Rows,
           Grows(pack, later), NoRoom(pack, row), ~Shorter(other, row)
    PROVE  NoRoom(later, other)
  <1>1. /\ pack.budget \in Nat /\ pack.chars \in Nat /\ later.budget = pack.budget
        /\ later.chars \in Nat /\ pack.chars <= later.chars
    BY DEF PackType, Grows
  <1>2. Tokens(pack.chars) <= Tokens(later.chars)
    BY <1>1, TokensGrow
  <1>3. /\ row.prefix \in Nat /\ other.prefix \in Nat /\ row.prefix <= other.prefix
        /\ Clipped(row) \in Nat /\ Clipped(other) \in Nat /\ Clipped(row) <= Clipped(other)
    BY RowIs DEF Shorter
  <1>4. Tokens(row.prefix) <= Tokens(other.prefix) /\ Tokens(Clipped(row)) <= Tokens(Clipped(other))
    BY <1>3, TokensGrow
  <1>5. /\ Tokens(pack.chars) \in Nat /\ Tokens(later.chars) \in Nat /\ Tokens(row.prefix) \in Nat
        /\ Tokens(other.prefix) \in Nat /\ Tokens(Clipped(row)) \in Nat
        /\ Tokens(Clipped(other)) \in Nat /\ MinKept \in Nat
    BY <1>1, <1>3, TokensAre, ContextPackAssumption
  <1>6. /\ Room(pack, row) \in Int /\ Room(later, other) \in Int
        /\ Room(later, other) <= Room(pack, row)
    BY <1>1, <1>2, <1>4, <1>5 DEF Room
  <1> QED
    BY <1>4, <1>5, <1>6 DEF NoRoom

LEMMA NotShorter ==
    ASSUME NEW row \in Rows
    PROVE  ~Shorter(row, row)
  BY RowIs DEF Shorter

LEMMA PackFields ==
    ASSUME NEW pack \in PackType
    PROVE  /\ pack.budget \in Nat /\ pack.chars \in Nat /\ Tokens(pack.chars) \in Nat
           /\ pack.from \subseteq Facts /\ pack.shown \subseteq Facts /\ pack.cut \subseteq Facts
           /\ pack.receipts \subseteq Conflicts /\ pack.slots \subseteq Slots
           /\ pack.redacted \subseteq Facts /\ pack.omitted \in Int
  BY TokensAre DEF PackType

LEMMA Left ==
    ASSUME NEW pack \in PackType
    PROVE  /\ Leave(pack) \in PackType /\ Leave(pack).budget = pack.budget
           /\ Leave(pack).from = pack.from /\ Leave(pack).chars = pack.chars
           /\ Leave(pack).shown = pack.shown /\ Leave(pack).cut = pack.cut
           /\ Leave(pack).slots = pack.slots /\ Leave(pack).receipts = pack.receipts
  BY DEF Leave, PackType

(* Growing in nothing but characters and receipts. *)
LEMMA AddsNoFact ==
    ASSUME NEW pack, NEW later \in PackType, PackOk(pack), Grows(pack, later),
           later.shown = pack.shown, later.cut = pack.cut, later.slots = pack.slots,
           Tokens(later.chars) <= later.budget
    PROVE  PackOk(later)
  <1>1. /\ pack.budget \in Nat /\ pack.chars \in Nat /\ later.budget = pack.budget
        /\ later.chars \in Nat /\ pack.chars <= later.chars /\ later.from = pack.from
    BY DEF PackType, Grows, PackOk
  <1>2. /\ Tokens(pack.chars) <= Tokens(later.chars)
        /\ Tokens(pack.chars) \in Nat /\ Tokens(later.chars) \in Nat
    BY <1>1, TokensGrow, TokensAre
  <1>3. Full(pack) => Full(later)
    BY <1>1, <1>2 DEF Full
  <1> QED
    BY <1>1, <1>3 DEF PackOk

LEMMA ReceiptKeeps ==
    ASSUME NEW pack, NEW conflict \in Conflicts, PackOk(pack)
    PROVE  /\ PackOk(WithReceipt(pack, conflict)) /\ Grows(pack, WithReceipt(pack, conflict))
           /\ WithReceipt(pack, conflict).shown = pack.shown
           /\ WithReceipt(pack, conflict).cut = pack.cut
           /\ WithReceipt(pack, conflict).slots = pack.slots
  <1>1. pack \in PackType /\ Tokens(pack.chars) <= pack.budget
    BY DEF PackOk
  <1>2. SummaryChars \in Nat
    BY ContextPackAssumption
  <1>3. CASE WithReceipt(pack, conflict) = Leave(pack)
    BY <1>1, <1>3, Left, PackFields, AddsNoFact DEF Grows
  <1>4. CASE WithReceipt(pack, conflict) # Leave(pack)
    <2>1. PICK later : later = WithReceipt(pack, conflict)
      OBVIOUS
    <2>2. /\ later = [pack EXCEPT !.chars = @ + SummaryChars, !.receipts = @ \cup {conflict}]
          /\ Tokens(pack.chars + SummaryChars) <= pack.budget
      BY <1>4, <2>1 DEF WithReceipt
    <2>3. pack.chars + SummaryChars \in Nat /\ pack.chars <= pack.chars + SummaryChars
      BY <1>1, <1>2, PackFields
    <2>4. /\ later \in PackType /\ later.budget = pack.budget /\ later.from = pack.from
          /\ later.chars = pack.chars + SummaryChars /\ later.shown = pack.shown
          /\ later.cut = pack.cut /\ later.slots = pack.slots
          /\ later.receipts = pack.receipts \cup {conflict}
      BY <1>1, <2>2, <2>3 DEF PackType
    <2>5. Grows(pack, later)
      BY <2>3, <2>4 DEF Grows
    <2>6. PackOk(later)
      BY <1>1, <2>2, <2>4, <2>5, AddsNoFact
    <2> QED
      BY <2>1, <2>4, <2>5, <2>6
  <1> QED
    BY <1>3, <1>4

LEMMA GrowsOn ==
    ASSUME NEW a \in PackType, NEW b \in PackType, NEW c \in PackType, Grows(a, b), Grows(b, c)
    PROVE  Grows(a, c)
  BY PackFields DEF Grows

LEMMA GrowsFromItself ==
    ASSUME NEW a \in PackType
    PROVE  Grows(a, a)
  BY PackFields DEF Grows

LEMMA AnnouncingKeeps ==
    ASSUME NEW pack, NEW s \in Seq(Conflicts), PackOk(pack)
    PROVE  /\ PackOk(ReceiptsAll(pack, s)) /\ Grows(pack, ReceiptsAll(pack, s))
           /\ ReceiptsAll(pack, s).shown = pack.shown
           /\ ReceiptsAll(pack, s).cut = pack.cut
           /\ ReceiptsAll(pack, s).slots = pack.slots
  <1> DEFINE Q == {p \in PackType : PackOk(p)}
  <1>1. pack \in Q /\ \A q \in Q, c \in Conflicts : WithReceipt(q, c) \in Q
    BY ReceiptKeeps DEF PackOk
  <1> HIDE DEF Q
  <1>2. PICK h : /\ h[0] = pack /\ h[Len(s)] = ReceiptsAll(pack, s)
                 /\ \A i \in 1..Len(s) : h[i] = WithReceipt(h[i - 1], s[i])
    BY <1>1, ReceiptSteps
  <1> DEFINE Good(p) == /\ PackOk(p) /\ Grows(pack, p)
                        /\ p.shown = pack.shown /\ p.cut = pack.cut /\ p.slots = pack.slots
             G == {i \in 0..Len(s) : Good(h[i])}
  <1>3. Len(s) \in Nat
    OBVIOUS
  <1>4. 0 \in G
    BY <1>2, <1>3, GrowsFromItself DEF PackOk
  <1>5. ASSUME NEW i \in 1..Len(s), i - 1 \in G PROVE i \in G
    <2>1. Good(h[i - 1]) /\ h[i] = WithReceipt(h[i - 1], s[i]) /\ s[i] \in Conflicts
      BY <1>2, <1>5
    <2>2. PICK p, q : p = h[i - 1] /\ q = h[i]
      OBVIOUS
    <2>3. PackOk(q) /\ Grows(p, q) /\ q.shown = p.shown /\ q.cut = p.cut /\ q.slots = p.slots
      BY <2>1, <2>2, ReceiptKeeps
    <2>4. Grows(pack, q)
      BY <2>1, <2>2, <2>3, GrowsOn DEF PackOk
    <2> QED
      BY <1>3, <2>1, <2>2, <2>3, <2>4
  <1> HIDE DEF G
  <1>6. \A i \in 0..Len(s) : i \in G
    BY <1>3, <1>4, <1>5, Throughout
  <1>7. Good(h[Len(s)])
    BY <1>3, <1>6 DEF G
  <1> QED
    BY <1>2, <1>7

(* A fact is shown if its slot is free and there is room.                  *)
LEMMA FactKeeps ==
    ASSUME NEW pack, NEW row \in Rows, NEW later, PackOk(pack), row.fact \in pack.from,
           SafeCandidate(row), ~Rejected(row), later = WithFact(pack, row)
    PROVE  /\ PackOk(later) /\ Grows(pack, later) /\ Placed(later, row)
           /\ \/ later.shown = pack.shown /\ later.cut = pack.cut
              \/ /\ later.shown = pack.shown \cup {row.fact}
                 /\ later.cut \subseteq pack.cut \cup {row.fact}
                 /\ ~NoRoom(pack, row)
  <1> DEFINE text == Clipped(row)
             room == Room(pack, row)
             kept == TruncateToBudget(text, room)
             line == row.prefix + kept + 1
             worth == kept > 0 /\ (kept = text \/ kept - 1 >= MinKept)
             free == row.slot \cap pack.slots = {}
  <1>1. /\ pack \in PackType /\ Tokens(pack.chars) <= pack.budget
        /\ pack.budget \in Nat /\ pack.chars \in Nat /\ Tokens(pack.chars) \in Nat
    BY PackFields DEF PackOk
  <1>2. /\ row.prefix \in Nat \ {0} /\ text \in Nat \ {0} /\ Tokens(text) \in Nat
        /\ Tokens(row.prefix) \in Nat /\ MinKept \in Nat /\ Tokens(text) # 0
    <2>1. row.prefix \in Nat /\ row.prefix # 0 /\ text \in Nat /\ text # 0
      BY RowIs
    <2> HIDE DEF text
    <2>2. Tokens(text) \in Nat /\ text <= 4 * Tokens(text) /\ Tokens(row.prefix) \in Nat
      BY <2>1, TokensAre
    <2>3. Tokens(text) # 0
      BY <2>1, <2>2
    <2> QED
      BY <2>1, <2>2, <2>3, ContextPackAssumption
  <1>3. room \in Int /\ room = pack.budget - Tokens(pack.chars) - Tokens(row.prefix) - 1
    BY <1>1, <1>2 DEF Room
  <1>4. kept = IF room <= 0 THEN 0 ELSE IF Tokens(text) <= room THEN text ELSE 4 * room
    BY DEF TruncateToBudget
  <1>5. /\ pack.chars <= 4 * Tokens(pack.chars) /\ 4 * Tokens(pack.chars) <= pack.chars + 3
        /\ row.prefix <= 4 * Tokens(row.prefix) /\ 4 * Tokens(row.prefix) <= row.prefix + 3
        /\ text <= 4 * Tokens(text) /\ 4 * Tokens(text) <= text + 3
    BY <1>1, <1>2, TokensAre
  <1>6. NoRoom(pack, row) <=> (room <= 0 \/ (room < Tokens(text) /\ 4 * room - 1 < MinKept))
    BY DEF NoRoom
  <1>7. later = IF free /\ worth /\ Tokens(pack.chars + line) <= pack.budget
                THEN [pack EXCEPT !.chars = @ + line, !.shown = @ \cup {row.fact},
                                  !.cut = IF kept = text THEN @ ELSE @ \cup {row.fact},
                                  !.slots = @ \cup row.slot]
                ELSE Leave(pack)
    BY DEF WithFact
  <1> HIDE DEF text, room, kept
  <1>8. kept \in Nat /\ line \in Nat /\ pack.chars + line \in Nat
        /\ pack.chars <= pack.chars + line
    BY <1>1, <1>2, <1>3, <1>4
  <1>9. worth <=> ~NoRoom(pack, row)
    BY <1>1, <1>2, <1>3, <1>4, <1>5, <1>6
  <1>10. worth => Tokens(pack.chars + line) <= pack.budget
    <2>1. worth => pack.chars + line <= 4 * pack.budget
      BY <1>1, <1>2, <1>3, <1>4, <1>5
    <2>2. 4 * Tokens(pack.chars + line) <= pack.chars + line + 3 /\ Tokens(pack.chars + line) \in Nat
      BY <1>8, TokensAre
    <2> QED
      BY <1>1, <1>8, <2>1, <2>2
  <1>11. CASE free /\ worth
    <2> DEFINE cut == IF kept = text THEN pack.cut ELSE pack.cut \cup {row.fact}
    <2>1. later = [pack EXCEPT !.chars = @ + line, !.shown = @ \cup {row.fact},
                               !.cut = cut, !.slots = @ \cup row.slot]
      BY <1>7, <1>10, <1>11
    <2>2. row.fact \in Facts /\ Texts[row.fact] = row /\ row.slot \subseteq Slots
      BY RowIs
    <2>3. cut \subseteq pack.cut \cup {row.fact} /\ cut \in SUBSET Facts
          /\ (kept = text => cut = pack.cut)
      BY <1>1, <2>2, PackFields
    <2> HIDE DEF cut, line
    <2>4. /\ later \in PackType /\ later.budget = pack.budget /\ later.from = pack.from
          /\ later.chars = pack.chars + line /\ later.shown = pack.shown \cup {row.fact}
          /\ later.cut = cut /\ later.slots = pack.slots \cup row.slot
          /\ later.receipts = pack.receipts
      <3>1. PICK n \in Nat : n = pack.chars + line
        BY <1>8
      <3>2. PICK shown \in SUBSET Facts : shown = pack.shown \cup {row.fact}
        BY <1>1, <2>2, PackFields
      <3>3. PICK slots \in SUBSET Slots : slots = pack.slots \cup row.slot
        BY <1>1, <2>2, PackFields
      <3>4. later = [pack EXCEPT !.chars = n, !.shown = shown, !.cut = cut, !.slots = slots]
        BY <2>1, <3>1, <3>2, <3>3
      <3>5. cut \in SUBSET Facts /\ pack \in PackType
        BY <1>1, <2>3
      <3>6. /\ later \in PackType /\ later.budget = pack.budget /\ later.from = pack.from
            /\ later.chars = n /\ later.shown = shown
            /\ later.cut = cut /\ later.slots = slots
            /\ later.receipts = pack.receipts
        BY <3>4, <3>5 DEF PackType
      <3> QED
        BY <3>1, <3>2, <3>3, <3>6
    <2>5. Grows(pack, later)
      BY <1>8, <2>4 DEF Grows
    <2>6. Tokens(later.chars) <= later.budget
      BY <1>10, <1>11, <2>4
    <2>7. /\ later.shown \subseteq later.from /\ later.cut \subseteq later.shown
          /\ \A f \in later.shown : ~Rejected(Texts[f]) /\ SafeCandidate(Texts[f])
      BY <2>2, <2>3, <2>4 DEF PackOk
    <2>8. later.slots = UNION {Texts[f].slot : f \in later.shown}
      BY <2>2, <2>4 DEF PackOk
    <2>9. ASSUME NEW f \in later.shown, NEW g \in later.shown, f # g
          PROVE  Texts[f].slot \cap Texts[g].slot = {}
      <3>1. pack.slots = UNION {Texts[x].slot : x \in pack.shown}
            /\ \A x, y \in pack.shown : x # y => Texts[x].slot \cap Texts[y].slot = {}
        BY DEF PackOk
      <3>2. CASE f \in pack.shown /\ g \in pack.shown
        BY <2>9, <3>1, <3>2
      <3>3. CASE f = row.fact /\ g \in pack.shown
        <4>1. Texts[g].slot \subseteq pack.slots
          BY <3>1, <3>3
        <4> QED
          BY <1>11, <2>2, <3>3, <4>1
      <3>4. CASE g = row.fact /\ f \in pack.shown
        <4>1. Texts[f].slot \subseteq pack.slots
          BY <3>1, <3>4
        <4> QED
          BY <1>11, <2>2, <3>4, <4>1
      <3> QED
        BY <2>4, <2>9, <3>2, <3>3, <3>4
    <2>10. later.cut # {} => Full(later)
      <3>1. CASE pack.cut # {}
        <4>1. Full(pack)
          BY <3>1 DEF PackOk
        <4> QED
          BY <1>1, <1>9, <1>11, <4>1, FullHasNoRoom
      <3>2. CASE kept # text
        <4>1. room > 0 /\ kept = 4 * room
          BY <1>4, <1>11, <3>2, <1>2, <1>3
        <4>2. 4 * pack.budget <= pack.chars + line + 9
          BY <1>1, <1>2, <1>3, <1>5, <4>1 DEF line
        <4>3. pack.chars + line <= 4 * Tokens(pack.chars + line) /\ Tokens(pack.chars + line) \in Nat
          BY <1>8, TokensAre
        <4>4. pack.budget - Tokens(pack.chars + line) <= 2
          BY <1>1, <1>8, <4>2, <4>3
        <4> QED
          BY <2>4, <4>4 DEF Full
      <3>3. CASE pack.cut = {} /\ kept = text
        BY <2>3, <2>4, <3>3
      <3> QED
        BY <3>1, <3>2, <3>3
    <2>11. PackOk(later)
      BY <2>4, <2>6, <2>7, <2>8, <2>9, <2>10 DEF PackOk
    <2> QED
      BY <1>9, <1>11, <2>3, <2>4, <2>5, <2>11 DEF Placed
  <1>12. CASE ~(free /\ worth)
    <2>1. later = Leave(pack)
      BY <1>7, <1>12
    <2>2. /\ later \in PackType /\ later.budget = pack.budget /\ later.from = pack.from
          /\ later.chars = pack.chars /\ later.shown = pack.shown /\ later.cut = pack.cut
          /\ later.slots = pack.slots /\ later.receipts = pack.receipts
      BY <1>1, <2>1, Left
    <2>3. Grows(pack, later)
      BY <1>1, <2>2 DEF Grows
    <2>4. PackOk(later)
      BY <1>1, <2>2, <2>3, AddsNoFact
    <2>5. CASE ~free
      BY <2>2, <2>3, <2>4, <2>5 DEF Placed
    <2>6. CASE ~worth
      <3>1. NoRoom(pack, row)
        BY <1>9, <2>6
      <3>2. NoRoom(later, row)
        BY <2>2, <3>1 DEF NoRoom, Room
      <3> QED
        BY <2>2, <2>3, <2>4, <3>2 DEF Placed
    <2> QED
      BY <1>12, <2>5, <2>6
  <1> QED
    BY <1>11, <1>12

(* A row is shown, left out for a reason, redacted or announced.           *)
LEMMA RowKeeps ==
    ASSUME NEW pack, NEW row \in Rows, NEW later, PackOk(pack), row.fact \in pack.from,
           later = WithRow(pack, row)
    PROVE  /\ PackOk(later) /\ Grows(pack, later)
           /\ SafeCandidate(row) /\ ~Rejected(row) => Placed(later, row)
           /\ \/ later.shown = pack.shown /\ later.cut = pack.cut
              \/ /\ later.shown = pack.shown \cup {row.fact}
                 /\ later.cut \subseteq pack.cut \cup {row.fact}
                 /\ ~NoRoom(pack, row)
  <1>1. CASE ~SafeCandidate(row)
    <2>1. PICK s : s = SetToSeq(row.conflict)
      OBVIOUS
    <2>2. s \in Seq(Conflicts)
      <3>1. Cardinality(row.conflict) \in Nat
            /\ ExistsBijection(1..Cardinality(row.conflict), row.conflict)
        BY RowIs, FS_CardinalityType
      <3>2. \E f \in [1..Cardinality(row.conflict) -> row.conflict] : IsInjective(f)
        BY <3>1 DEF ExistsBijection, Bijection, Injection, Surjection, IsInjective
      <3>3. s \in [1..Cardinality(row.conflict) -> row.conflict]
        BY <2>1, <3>2 DEF SetToSeq
      <3>4. row.conflict \subseteq Conflicts
        BY RowIs
      <3> QED
        BY <3>1, <3>3, <3>4
    <2>3. later = ReceiptsAll(pack, s)
      BY <1>1, <2>1 DEF WithRow, ReceiptsAll
    <2> QED
      BY <1>1, <2>2, <2>3, AnnouncingKeeps
  <1>2. CASE SafeCandidate(row) /\ Rejected(row)
    <2>1. later = [pack EXCEPT !.redacted = @ \cup {row.fact}] /\ pack \in PackType
      BY <1>2 DEF WithRow, PackOk
    <2>2. row.fact \in Facts
      BY RowIs
    <2>3. /\ later \in PackType /\ later.budget = pack.budget /\ later.from = pack.from
          /\ later.chars = pack.chars /\ later.shown = pack.shown /\ later.cut = pack.cut
          /\ later.slots = pack.slots /\ later.receipts = pack.receipts
      BY <2>1, <2>2 DEF PackType
    <2>4. Grows(pack, later)
      BY <2>1, <2>3, PackFields DEF Grows
    <2>5. PackOk(later)
      BY <2>3, <2>4, AddsNoFact DEF PackOk
    <2> QED
      BY <1>2, <2>3, <2>4, <2>5
  <1>3. CASE SafeCandidate(row) /\ ~Rejected(row)
    <2>1. later = WithFact(pack, row)
      BY <1>3 DEF WithRow
    <2> QED
      BY <1>3, <2>1, FactKeeps
  <1> QED
    BY <1>1, <1>2, <1>3


(* Sorting loses no row, and puts the reviewed ones first.                 *)
Lists(R) == [reviewed : Seq(R), unreviewed : Seq(R)]

SortedSoFar(lists, rows, i) ==
    /\ \A j \in 1..Len(lists.reviewed) : Reviewed(lists.reviewed[j])
    /\ \A j \in 1..Len(lists.unreviewed) : ~Reviewed(lists.unreviewed[j])
    /\ \A a \in 1..i : \/ \E j \in 1..Len(lists.reviewed) : lists.reviewed[j] = rows[a]
                       \/ \E j \in 1..Len(lists.unreviewed) : lists.unreviewed[j] = rows[a]

LEMMA Appended ==
    ASSUME NEW R, NEW s \in Seq(R), NEW e \in R
    PROVE  /\ Append(s, e) \in Seq(R) /\ Len(s) \in Nat /\ Len(Append(s, e)) = Len(s) + 1
           /\ \A j \in 1..Len(s) : Append(s, e)[j] = s[j]
           /\ Append(s, e)[Len(s) + 1] = e
  OBVIOUS

LEMMA SortedKeeps ==
    ASSUME NEW R, NEW lists \in Lists(R), NEW row \in R
    PROVE  /\ Sorted(lists, row) \in Lists(R)
           /\ Reviewed(row) => /\ Sorted(lists, row).reviewed = Append(lists.reviewed, row)
                               /\ Sorted(lists, row).unreviewed = lists.unreviewed
           /\ ~Reviewed(row) => /\ Sorted(lists, row).unreviewed = Append(lists.unreviewed, row)
                                /\ Sorted(lists, row).reviewed = lists.reviewed
  <1>1. PICK later : later = Sorted(lists, row)
    OBVIOUS
  <1>2. lists.reviewed \in Seq(R) /\ lists.unreviewed \in Seq(R)
    BY DEF Lists
  <1>3. CASE Reviewed(row)
    <2>1. PICK s \in Seq(R) : s = Append(lists.reviewed, row)
      <3>1. Append(lists.reviewed, row) \in Seq(R)
        BY <1>2, Appended
      <3> QED
        BY <3>1
    <2>2. later = [lists EXCEPT !.reviewed = s]
      BY <1>1, <1>3, <2>1 DEF Sorted
    <2>3. later \in Lists(R) /\ later.reviewed = s /\ later.unreviewed = lists.unreviewed
      BY <2>2 DEF Lists
    <2> QED
      BY <1>1, <1>3, <2>1, <2>3
  <1>4. CASE ~Reviewed(row)
    <2>1. PICK s \in Seq(R) : s = Append(lists.unreviewed, row)
      <3>1. Append(lists.unreviewed, row) \in Seq(R)
        BY <1>2, Appended
      <3> QED
        BY <3>1
    <2>2. later = [lists EXCEPT !.unreviewed = s]
      BY <1>1, <1>4, <2>1 DEF Sorted
    <2>3. later \in Lists(R) /\ later.unreviewed = s /\ later.reviewed = lists.reviewed
      BY <2>2 DEF Lists
    <2> QED
      BY <1>1, <1>4, <2>1, <2>3
  <1> QED
    BY <1>3, <1>4

LEMMA SortedGoesOn ==
    ASSUME NEW R, NEW lists \in Lists(R), NEW rows \in Seq(R), NEW i \in 1..Len(rows),
           SortedSoFar(lists, rows, i - 1)
    PROVE  SortedSoFar(Sorted(lists, rows[i]), rows, i)
  <1> DEFINE row == rows[i]
             later == Sorted(lists, row)
  <1>1. row \in R /\ i \in Nat
    OBVIOUS
  <1>2. ASSUME NEW a \in 1..i PROVE a \in 1..(i - 1) \/ a = i
    BY <1>1
  <1>3. lists.reviewed \in Seq(R) /\ lists.unreviewed \in Seq(R)
    BY DEF Lists
  <1>4. /\ \A j \in 1..Len(lists.reviewed) : Reviewed(lists.reviewed[j])
        /\ \A j \in 1..Len(lists.unreviewed) : ~Reviewed(lists.unreviewed[j])
        /\ \A a \in 1..(i - 1) :
              \/ \E j \in 1..Len(lists.reviewed) : lists.reviewed[j] = rows[a]
              \/ \E j \in 1..Len(lists.unreviewed) : lists.unreviewed[j] = rows[a]
    BY DEF SortedSoFar
  <1>5. CASE Reviewed(row)
    <2>1. PICK s : s = Append(lists.reviewed, row)
      OBVIOUS
    <2>2. later.reviewed = s /\ later.unreviewed = lists.unreviewed
      BY <1>1, <1>5, <2>1, SortedKeeps
    <2>3. /\ Len(lists.reviewed) \in Nat /\ Len(s) = Len(lists.reviewed) + 1
          /\ \A j \in 1..Len(lists.reviewed) : s[j] = lists.reviewed[j]
          /\ s[Len(lists.reviewed) + 1] = row
      BY <1>1, <1>3, <2>1, Appended
    <2>4. \A j \in 1..Len(s) : j \in 1..Len(lists.reviewed) \/ j = Len(lists.reviewed) + 1
      BY <2>3
    <2>5. \A j \in 1..Len(lists.reviewed) : j \in 1..Len(s)
      BY <2>3
    <2>6. Len(lists.reviewed) + 1 \in 1..Len(s)
      BY <2>3
    <2> HIDE DEF later, row
    <2>7. \A j \in 1..Len(s) : Reviewed(s[j])
      BY <1>4, <1>5, <2>3, <2>4
    <2>8. ASSUME NEW a \in 1..i
          PROVE  \/ \E j \in 1..Len(s) : s[j] = rows[a]
                 \/ \E j \in 1..Len(lists.unreviewed) : lists.unreviewed[j] = rows[a]
      BY <1>2, <1>4, <2>3, <2>5, <2>6 DEF row
    <2>9. SortedSoFar(later, rows, i)
      BY <1>4, <2>2, <2>7, <2>8 DEF SortedSoFar
    <2> QED
      BY <2>9 DEF later, row
  <1>6. CASE ~Reviewed(row)
    <2>1. PICK s : s = Append(lists.unreviewed, row)
      OBVIOUS
    <2>2. later.unreviewed = s /\ later.reviewed = lists.reviewed
      BY <1>1, <1>6, <2>1, SortedKeeps
    <2>3. /\ Len(lists.unreviewed) \in Nat /\ Len(s) = Len(lists.unreviewed) + 1
          /\ \A j \in 1..Len(lists.unreviewed) : s[j] = lists.unreviewed[j]
          /\ s[Len(lists.unreviewed) + 1] = row
      BY <1>1, <1>3, <2>1, Appended
    <2>4. \A j \in 1..Len(s) : j \in 1..Len(lists.unreviewed) \/ j = Len(lists.unreviewed) + 1
      BY <2>3
    <2>5. \A j \in 1..Len(lists.unreviewed) : j \in 1..Len(s)
      BY <2>3
    <2>6. Len(lists.unreviewed) + 1 \in 1..Len(s)
      BY <2>3
    <2> HIDE DEF later, row
    <2>7. \A j \in 1..Len(s) : ~Reviewed(s[j])
      BY <1>4, <1>6, <2>3, <2>4
    <2>8. ASSUME NEW a \in 1..i
          PROVE  \/ \E j \in 1..Len(lists.reviewed) : lists.reviewed[j] = rows[a]
                 \/ \E j \in 1..Len(s) : s[j] = rows[a]
      BY <1>2, <1>4, <2>3, <2>5, <2>6 DEF row
    <2>9. SortedSoFar(later, rows, i)
      BY <1>4, <2>2, <2>7, <2>8 DEF SortedSoFar
    <2> QED
      BY <2>9 DEF later, row
  <1> QED
    BY <1>5, <1>6

SortedInto(sorted, k, rows) ==
    /\ \A i \in 1..Len(sorted) : Reviewed(sorted[i]) <=> i <= k
    /\ \A a \in 1..Len(rows) : \E i \in 1..Len(sorted) : sorted[i] = rows[a]

LEMMA ReviewedComeFirst ==
    ASSUME NEW R, NEW rows \in Seq(R)
    PROVE  /\ ReviewedFirst(rows) \in Seq(R)
           /\ \E k \in Nat : SortedInto(ReviewedFirst(rows), k, rows)
  <1> DEFINE none == [reviewed |-> <<>>, unreviewed |-> <<>>]
             n == Len(rows)
  <1>1. none \in Lists(R) /\ n \in Nat
    BY DEF Lists
  <1>2. \A q \in Lists(R), e \in R : Sorted(q, e) \in Lists(R)
    BY SortedKeeps
  <1>3. PICK h : /\ h[0] = none /\ h[n] = SortedAll(none, rows)
                 /\ \A i \in 1..n : h[i] = Sorted(h[i - 1], rows[i])
    <2> HIDE DEF none
    <2> QED
      BY <1>1, <1>2, SortedSteps
  <1> DEFINE G == {i \in 0..n : h[i] \in Lists(R) /\ SortedSoFar(h[i], rows, i)}
  <1>4. 0 \in G
    <2>1. SortedSoFar(none, rows, 0)
      BY DEF SortedSoFar
    <2> HIDE DEF none
    <2> QED
      BY <1>1, <1>3, <2>1
  <1>5. ASSUME NEW i \in 1..n, i - 1 \in G PROVE i \in G
    <2>1. /\ h[i - 1] \in Lists(R) /\ SortedSoFar(h[i - 1], rows, i - 1)
          /\ rows[i] \in R /\ h[i] = Sorted(h[i - 1], rows[i]) /\ i \in 0..n
      BY <1>1, <1>3, <1>5
    <2>2. h[i] \in Lists(R) /\ SortedSoFar(h[i], rows, i)
      BY <2>1, <1>2, SortedGoesOn
    <2> QED
      BY <2>1, <2>2
  <1> HIDE DEF G
  <1>6. n \in G
    <2> HIDE DEF n
    <2>1. \A i \in 0..n : i \in G
      BY <1>1, <1>4, <1>5, Throughout
    <2> QED
      BY <1>1, <2>1
  <1>7. PICK first, second : first = h[n].reviewed /\ second = h[n].unreviewed
    OBVIOUS
  <1>8. first \in Seq(R) /\ second \in Seq(R)
    BY <1>6, <1>7 DEF G, Lists
  <1>9. PICK sorted : sorted = first \o second
    OBVIOUS
  <1>10. ReviewedFirst(rows) = sorted
    BY <1>3, <1>7, <1>9 DEF ReviewedFirst, SortedAll
  <1>11. /\ sorted \in Seq(R) /\ Len(first) \in Nat /\ Len(second) \in Nat
         /\ Len(sorted) = Len(first) + Len(second)
         /\ \A i \in 1..Len(first) : sorted[i] = first[i]
         /\ \A i \in 1..Len(second) : sorted[Len(first) + i] = second[i]
    BY <1>8, <1>9
  <1>12. /\ \A j \in 1..Len(first) : Reviewed(first[j])
         /\ \A j \in 1..Len(second) : ~Reviewed(second[j])
         /\ \A a \in 1..n : \/ \E j \in 1..Len(first) : first[j] = rows[a]
                            \/ \E j \in 1..Len(second) : second[j] = rows[a]
    BY <1>6, <1>7 DEF G, SortedSoFar
  <1>13. ASSUME NEW i \in 1..Len(sorted) PROVE Reviewed(sorted[i]) <=> i <= Len(first)
    <2>1. CASE i <= Len(first)
      BY <1>11, <1>12, <2>1
    <2>2. CASE ~(i <= Len(first))
      <3>1. PICK j \in 1..Len(second) : i = Len(first) + j
        <4>1. i - Len(first) \in 1..Len(second) /\ i = Len(first) + (i - Len(first))
          BY <1>11, <2>2
        <4> QED
          BY <4>1
      <3> QED
        BY <1>11, <1>12, <2>2, <3>1
    <2> QED
      BY <2>1, <2>2
  <1>14. ASSUME NEW a \in 1..n PROVE \E i \in 1..Len(sorted) : sorted[i] = rows[a]
    <2>1. CASE \E j \in 1..Len(first) : first[j] = rows[a]
      <3>1. PICK j \in 1..Len(first) : first[j] = rows[a]
        BY <2>1
      <3>2. j \in 1..Len(sorted) /\ sorted[j] = rows[a]
        BY <1>11, <3>1
      <3> QED
        BY <3>2
    <2>2. CASE \E j \in 1..Len(second) : second[j] = rows[a]
      <3>1. PICK j \in 1..Len(second) : second[j] = rows[a]
        BY <2>2
      <3>2. Len(first) + j \in 1..Len(sorted) /\ sorted[Len(first) + j] = rows[a]
        BY <1>11, <3>1
      <3> QED
        BY <3>2
    <2> QED
      BY <1>12, <2>1, <2>2
  <1>15. SortedInto(sorted, Len(first), rows)
    BY <1>13, <1>14 DEF SortedInto
  <1> QED
    BY <1>10, <1>11, <1>15


(* What a pack owes the reviewed facts of the rows it has gone through:    *)
(* all of them are placed, and an unreviewed fact that is shown took       *)
(* nothing from them.                                                      *)
Owed(row) == Reviewed(row) /\ SafeCandidate(row) /\ ~Rejected(row)

Kept(pack, g, row) ==
    \/ row.fact \in pack.shown
    \/ row.slot \cap pack.slots # {}
    \/ Shorter(Texts[g], row)

Yields(pack, sorted, i) ==
    \A g \in pack.shown : ~Reviewed(Texts[g]) =>
      /\ \A f \in pack.cut : ~Reviewed(Texts[f])
      /\ \A a \in 1..i : Owed(sorted[a]) => Kept(pack, g, sorted[a])

PackedSoFar(pack, sorted, k, i) ==
    /\ PackOk(pack)
    /\ \A a \in 1..i : SafeCandidate(sorted[a]) /\ ~Rejected(sorted[a]) => Placed(pack, sorted[a])
    /\ i <= k => \A g \in pack.shown : Reviewed(Texts[g])
    /\ Yields(pack, sorted, i)

LEMMA StaysPlaced ==
    ASSUME NEW pack, NEW later, NEW row \in Rows, PackOk(pack), PackOk(later),
           Grows(pack, later), Placed(pack, row)
    PROVE  Placed(later, row)
  <1>1. pack \in PackType /\ later \in PackType
    BY DEF PackOk
  <1>2. NoRoom(pack, row) => NoRoom(later, row)
    BY <1>1, NotShorter, NoRoomForLonger
  <1> QED
    BY <1>2 DEF Placed, Grows

LEMMA StaysKept ==
    ASSUME NEW pack, NEW later, NEW g, NEW row, Grows(pack, later), Kept(pack, g, row)
    PROVE  Kept(later, g, row)
  BY DEF Kept, Grows

LEMMA PackingGoesOn ==
    ASSUME NEW sorted \in Seq(Rows), NEW k \in Nat, NEW i \in 1..Len(sorted), NEW pack,
           \A a \in 1..Len(sorted) : Reviewed(sorted[a]) <=> a <= k,
           PackedSoFar(pack, sorted, k, i - 1), sorted[i].fact \in pack.from
    PROVE  /\ PackedSoFar(WithRow(pack, sorted[i]), sorted, k, i)
           /\ Grows(pack, WithRow(pack, sorted[i]))
  <1>1. PICK row \in Rows : row = sorted[i]
    OBVIOUS
  <1>2. PICK later : later = WithRow(pack, row)
    OBVIOUS
  <1>3. /\ i \in Nat /\ i - 1 \in Nat /\ Len(sorted) \in Nat /\ i <= Len(sorted)
        /\ \A a \in 1..i : a \in 1..Len(sorted) /\ sorted[a] \in Rows
                           /\ (a \in 1..(i - 1) \/ a = i)
    OBVIOUS
  <1>4. PackOk(pack) /\ pack \in PackType /\ row.fact \in pack.from
    BY <1>1 DEF PackedSoFar, PackOk
  <1>5. /\ PackOk(later) /\ Grows(pack, later)
        /\ SafeCandidate(row) /\ ~Rejected(row) => Placed(later, row)
        /\ \/ later.shown = pack.shown /\ later.cut = pack.cut
           \/ /\ later.shown = pack.shown \cup {row.fact}
              /\ later.cut \subseteq pack.cut \cup {row.fact}
              /\ ~NoRoom(pack, row)
    BY <1>2, <1>4, RowKeeps
  <1>6. Texts[row.fact] = row
    BY RowIs
  <1>7. ASSUME NEW a \in 1..i, SafeCandidate(sorted[a]), ~Rejected(sorted[a])
        PROVE  Placed(later, sorted[a])
    <2>1. CASE a = i
      BY <1>1, <1>5, <1>7, <2>1
    <2>2. CASE a \in 1..(i - 1)
      <3>1. Placed(pack, sorted[a]) /\ sorted[a] \in Rows
        BY <1>3, <1>7, <2>2 DEF PackedSoFar
      <3> QED
        BY <1>4, <1>5, <3>1, StaysPlaced
    <2> QED
      BY <1>3, <2>1, <2>2
  <1>8. ASSUME i <= k PROVE \A g \in later.shown : Reviewed(Texts[g])
    <2>1. \A g \in pack.shown : Reviewed(Texts[g])
      BY <1>3, <1>8 DEF PackedSoFar
    <2>2. Reviewed(row)
      BY <1>1, <1>8
    <2> QED
      BY <1>5, <1>6, <2>1, <2>2
  <1>9. Yields(later, sorted, i)
    <2>1. CASE Reviewed(row)
      <3>1. i <= k
        BY <1>1, <2>1
      <3> QED
        BY <1>8, <3>1 DEF Yields
    <2>2. CASE ~Reviewed(row)
      <3> SUFFICES ASSUME NEW g \in later.shown, ~Reviewed(Texts[g])
                   PROVE  /\ \A f \in later.cut : ~Reviewed(Texts[f])
                          /\ \A a \in 1..i : Owed(sorted[a]) => Kept(later, g, sorted[a])
        BY DEF Yields
      <3>1. CASE g \in pack.shown
        <4>1. \A f \in pack.cut : ~Reviewed(Texts[f])
          BY <3>1 DEF PackedSoFar, Yields
        <4>2. \A f \in later.cut : ~Reviewed(Texts[f])
          BY <1>5, <1>6, <2>2, <4>1
        <4>3. ASSUME NEW a \in 1..i, Owed(sorted[a]) PROVE Kept(later, g, sorted[a])
          <5>1. a \in 1..(i - 1)
            BY <1>1, <1>3, <2>2, <4>3 DEF Owed
          <5>2. Kept(pack, g, sorted[a])
            BY <3>1, <4>3, <5>1 DEF PackedSoFar, Yields
          <5> QED
            BY <1>5, <5>2, StaysKept
        <4> QED
          BY <4>2, <4>3
      <3>2. CASE g \notin pack.shown
        <4>1. g = row.fact /\ ~NoRoom(pack, row) /\ later.cut \subseteq pack.cut \cup {row.fact}
          BY <1>5, <3>2
        <4>2. pack.cut = {}
          BY <1>4, <4>1, FullHasNoRoom DEF PackOk
        <4>3. \A f \in later.cut : ~Reviewed(Texts[f])
          BY <1>6, <2>2, <4>1, <4>2
        <4>4. ASSUME NEW a \in 1..i, Owed(sorted[a]) PROVE Kept(later, g, sorted[a])
          <5>1. a \in 1..(i - 1) /\ sorted[a] \in Rows
            BY <1>1, <1>3, <2>2, <4>4 DEF Owed
          <5>2. Placed(pack, sorted[a])
            BY <4>4, <5>1 DEF PackedSoFar, Owed
          <5>3. CASE NoRoom(pack, sorted[a])
            <6>1. Shorter(row, sorted[a])
              BY <1>4, <4>1, <5>1, <5>3, GrowsFromItself, NoRoomForLonger
            <6> QED
              BY <1>6, <4>1, <6>1 DEF Kept
          <5>4. CASE ~NoRoom(pack, sorted[a])
            <6>1. Kept(pack, g, sorted[a])
              BY <5>2, <5>4 DEF Placed, Kept
            <6> QED
              BY <1>5, <6>1, StaysKept
          <5> QED
            BY <5>3, <5>4
        <4> QED
          BY <4>3, <4>4
      <3> QED
        BY <3>1, <3>2
    <2> QED
      BY <2>1, <2>2
  <1>10. PackedSoFar(later, sorted, k, i)
    BY <1>5, <1>7, <1>8, <1>9 DEF PackedSoFar
  <1> QED
    BY <1>1, <1>2, <1>5, <1>10

LEMMA PackingKeeps ==
    ASSUME NEW sorted \in Seq(Rows), NEW k \in Nat, NEW pack, PackOk(pack), pack.shown = {},
           \A a \in 1..Len(sorted) : Reviewed(sorted[a]) <=> a <= k,
           \A a \in 1..Len(sorted) : sorted[a].fact \in pack.from
    PROVE  /\ PackedSoFar(RowsAll(pack, sorted), sorted, k, Len(sorted))
           /\ Grows(pack, RowsAll(pack, sorted))
  <1> DEFINE n == Len(sorted)
             Q == {p \in PackType : PackOk(p) /\ Grows(pack, p)}
             E == {row \in Rows : row.fact \in pack.from}
  <1>1. n \in Nat /\ sorted \in Seq(E)
    <2>1. \A a \in 1..n : sorted[a] \in E
      OBVIOUS
    <2> QED
      BY <2>1
  <1>2. ASSUME NEW q \in Q, NEW row \in E PROVE WithRow(q, row) \in Q
    <2>1. PICK later : later = WithRow(q, row)
      OBVIOUS
    <2>2. row \in Rows /\ row.fact \in q.from /\ PackOk(q) /\ Grows(pack, q) /\ q \in PackType
      BY DEF Grows
    <2>3. PackOk(later) /\ Grows(q, later)
      BY <2>1, <2>2, RowKeeps
    <2>4. later \in PackType /\ pack \in PackType
      BY <2>3 DEF PackOk
    <2>5. Grows(pack, later)
      BY <2>2, <2>3, <2>4, GrowsOn
    <2> QED
      BY <2>1, <2>3, <2>4, <2>5
  <1>3. pack \in Q
    BY GrowsFromItself DEF PackOk
  <1> HIDE DEF Q, E
  <1>4. PICK h : /\ h[0] = pack /\ h[n] = RowsAll(pack, sorted)
                 /\ \A i \in 1..n : h[i] = WithRow(h[i - 1], sorted[i])
    <2>1. \A q \in Q, e \in E : WithRow(q, e) \in Q
      BY <1>2
    <2>2. sorted \in Seq(E)
      BY <1>1
    <2>3. \E h : RowChain(h, pack, sorted)
      BY ONLY <1>3, <2>1, <2>2, RowSteps
    <2> QED
      BY <2>3 DEF RowChain
  <1> DEFINE G == {i \in 0..n : h[i] \in PackType /\ PackedSoFar(h[i], sorted, k, i)
                                /\ Grows(pack, h[i])}
  <1>5. 0 \in G
    <2>1. PackedSoFar(pack, sorted, k, 0)
      BY DEF PackedSoFar, Yields
    <2> QED
      BY <1>1, <1>4, <2>1, GrowsFromItself DEF PackOk
  <1>6. ASSUME NEW i \in 1..n, i - 1 \in G PROVE i \in G
    <2>1. /\ PackedSoFar(h[i - 1], sorted, k, i - 1) /\ Grows(pack, h[i - 1])
          /\ h[i - 1] \in PackType
          /\ h[i] = WithRow(h[i - 1], sorted[i]) /\ i \in 0..n
      BY <1>1, <1>4, <1>6
    <2>2. sorted[i].fact \in h[i - 1].from
      BY <2>1 DEF Grows
    <2>3. PackedSoFar(h[i], sorted, k, i) /\ Grows(h[i - 1], h[i])
      BY <2>1, <2>2, PackingGoesOn
    <2>4. h[i] \in PackType /\ pack \in PackType
      BY <2>3 DEF PackedSoFar, PackOk
    <2>5. Grows(pack, h[i])
      BY <2>1, <2>3, <2>4, GrowsOn
    <2> QED
      BY <2>1, <2>3, <2>4, <2>5
  <1> HIDE DEF G
  <1>7. n \in G
    <2> HIDE DEF n
    <2>1. \A i \in 0..n : i \in G
      BY <1>1, <1>5, <1>6, Throughout
    <2> QED
      BY <1>1, <2>1
  <1> QED
    BY <1>4, <1>7 DEF G


(* The clauses of PromptSound about the pack itself.                       *)
PackSound(pack, conflicts) ==
    /\ Tokens(pack.chars) <= pack.budget
    /\ \A f \in pack.shown : ~Rejected(Texts[f]) /\ SafeCandidate(Texts[f])
    /\ \A f, g \in pack.shown : f # g => Texts[f].slot \cap Texts[g].slot = {}
    /\ Tokens(HeaderChars + SummaryChars) <= pack.budget /\ conflicts # <<>>
         => pack.receipts # {}
    /\ \A f, g \in pack.from :
         /\ g \in pack.shown /\ ~Reviewed(Texts[g])
         /\ Reviewed(Texts[f]) /\ ~Rejected(Texts[f]) /\ SafeCandidate(Texts[f])
         => /\ f \notin pack.cut
            /\ \/ f \in pack.shown
               \/ \E h \in pack.shown : Texts[h].slot \cap Texts[f].slot # {}
               \/ Shorter(Texts[g], Texts[f])

FactsOf(rows) == {rows[i].fact : i \in DOMAIN rows}

LEMMA HeadingIs ==
    ASSUME NEW rows \in Seq(Rows), NEW tokens \in Nat, NEW total \in Nat, NEW head,
           head = Heading(rows, tokens, total)
    PROVE  /\ head \in PackType /\ head.budget = tokens /\ head.chars = HeaderChars
           /\ head.from = FactsOf(rows) /\ head.shown = {} /\ head.cut = {}
           /\ head.slots = {} /\ head.receipts = {}
  <1>1. PICK omitted \in Int : omitted = total - Len(rows)
    <2>1. Len(rows) \in Nat
      OBVIOUS
    <2>2. total - Len(rows) \in Int
      BY <2>1
    <2> QED
      BY <2>2
  <1>2. PICK from \in SUBSET Facts : from = FactsOf(rows)
    <2>1. \A i \in DOMAIN rows : rows[i] \in Rows
      OBVIOUS
    <2>2. FactsOf(rows) \in SUBSET Facts
      BY <2>1, RowIs DEF FactsOf
    <2> QED
      BY <2>2
  <1>3. HeaderChars \in Nat
    BY ContextPackAssumption
  <1>4. head = [budget |-> tokens, from |-> from, chars |-> HeaderChars, shown |-> {},
                cut |-> {}, redacted |-> {}, receipts |-> {}, slots |-> {}, omitted |-> omitted]
    BY <1>1, <1>2 DEF Heading, Blank, FactsOf
  <1> QED
    BY <1>2, <1>3, <1>4 DEF PackType

LEMMA OneReceipt ==
    ASSUME NEW pack, PackOk(pack)
    PROVE  ReceiptsAll(pack, <<"conflict">>) = WithReceipt(pack, "conflict")
  <1> DEFINE Q == {p \in PackType : PackOk(p)}
  <1>1. pack \in Q /\ \A q \in Q, c \in Conflicts : WithReceipt(q, c) \in Q
    BY ReceiptKeeps DEF PackOk
  <1>2. PICK s : s = <<"conflict">>
    OBVIOUS
  <1>3. s \in Seq(Conflicts) /\ Len(s) = 1 /\ s[1] = "conflict"
    BY <1>2 DEF Conflicts
  <1> HIDE DEF Q
  <1>4. PICK h : /\ h[0] = pack /\ h[Len(s)] = ReceiptsAll(pack, s)
                 /\ \A i \in 1..Len(s) : h[i] = WithReceipt(h[i - 1], s[i])
    BY <1>1, <1>3, ReceiptSteps
  <1>5. 1 \in 1..Len(s) /\ 1 - 1 = 0
    BY <1>3
  <1>6. h[1] = WithReceipt(h[0], s[1])
    BY <1>4, <1>5
  <1> QED
    BY <1>2, <1>3, <1>4, <1>6

(* A block without facts is a sound one if it may do without conflicts.    *)
LEMMA NothingIsSound ==
    ASSUME NEW pack, NEW conflicts, pack.shown = {}, pack.chars = 0, pack.budget \in Nat,
           Tokens(HeaderChars + SummaryChars) <= pack.budget /\ conflicts # <<>>
             => pack.receipts # {}
    PROVE  PackSound(pack, conflicts)
  <1>1. Tokens(pack.chars) <= pack.budget
    BY DEF Tokens
  <1> QED
    BY <1>1 DEF PackSound

LEMMA ContextIsSound ==
    ASSUME NEW rows \in Seq(Rows), NEW conflicts \in {<<>>, <<"conflict">>},
           NEW tokens \in Nat, NEW total \in Nat, NEW pack,
           pack = PackContext(rows, conflicts, tokens, total)
    PROVE  PackSound(pack, conflicts) /\ pack.shown \subseteq FactsOf(rows)
  <1>1. HeaderChars \in Nat /\ SummaryChars \in Nat /\ HeaderChars + SummaryChars \in Nat
        /\ HeaderChars <= HeaderChars + SummaryChars
    BY ContextPackAssumption
  <1>2. CASE Tokens(HeaderChars) > tokens
    <2>1. pack = [Blank(tokens) EXCEPT !.omitted = total]
      BY <1>2 DEF PackContext
    <2>2. pack.shown = {} /\ pack.chars = 0 /\ pack.budget = tokens
      BY <2>1 DEF Blank
    <2>3. /\ Tokens(HeaderChars) <= Tokens(HeaderChars + SummaryChars)
          /\ Tokens(HeaderChars) \in Nat /\ Tokens(HeaderChars + SummaryChars) \in Nat
      BY <1>1, TokensGrow, TokensAre
    <2>4. ~(Tokens(HeaderChars + SummaryChars) <= pack.budget)
      BY <1>2, <2>2, <2>3
    <2>5. PackSound(pack, conflicts)
      BY <2>2, <2>4, NothingIsSound
    <2> QED
      BY <2>2, <2>5
  <1>3. CASE ~(Tokens(HeaderChars) > tokens)
    <2>1. PICK head : head = Heading(rows, tokens, total)
      OBVIOUS
    <2>2. PICK told : told = ReceiptsAll(head, conflicts)
      OBVIOUS
    <2>3. PICK sorted : sorted = ReviewedFirst(rows)
      OBVIOUS
    <2>4. PICK last : last = RowsAll(told, sorted)
      OBVIOUS
    <2>5. pack = IF last.shown = {} /\ last.receipts = {} THEN [last EXCEPT !.chars = 0] ELSE last
      BY <1>3, <2>1, <2>2, <2>3, <2>4 DEF PackContext, ReceiptsAll, RowsAll
    <2>6. /\ head \in PackType /\ head.budget = tokens /\ head.chars = HeaderChars
          /\ head.from = FactsOf(rows) /\ head.shown = {} /\ head.cut = {}
          /\ head.slots = {} /\ head.receipts = {}
      BY <2>1, HeadingIs
    <2>7. PackOk(head)
      <3>1. Tokens(head.chars) <= head.budget
        BY <1>1, <1>3, <2>6, TokensAre, SMTT(30)
      <3> QED
        BY <2>6, <3>1 DEF PackOk
    <2>8. /\ PackOk(told) /\ Grows(head, told) /\ told.shown = {}
      <3>1. conflicts \in Seq(Conflicts)
        <4>1. "conflict" \in Conflicts
          BY DEF Conflicts
        <4>2. <<"conflict">> \in Seq(Conflicts) /\ <<>> \in Seq(Conflicts)
          BY <4>1
        <4> QED
          BY <4>2
      <3> QED
        BY <2>2, <2>6, <2>7, <3>1, AnnouncingKeeps
    <2>9. Tokens(HeaderChars + SummaryChars) <= tokens /\ conflicts # <<>> => told.receipts # {}
      <3> SUFFICES ASSUME Tokens(HeaderChars + SummaryChars) <= tokens, conflicts # <<>>
                   PROVE  told.receipts # {}
        OBVIOUS
      <3>1. told = WithReceipt(head, "conflict")
        BY <2>2, <2>7, OneReceipt
      <3>2. told = [head EXCEPT !.chars = @ + SummaryChars, !.receipts = @ \cup {"conflict"}]
        BY <2>6, <3>1 DEF WithReceipt
      <3>3. told.receipts = head.receipts \cup {"conflict"}
        BY <2>6, <3>2 DEF PackType
      <3> QED
        BY <3>3
    <2>10. sorted \in Seq(Rows) /\ \E k \in Nat : SortedInto(sorted, k, rows)
      BY <2>3, ReviewedComeFirst
    <2>11. PICK k \in Nat : SortedInto(sorted, k, rows)
      BY <2>10
    <2>12. PackedSoFar(last, sorted, k, Len(sorted)) /\ Grows(told, last)
      <3>1. \A a \in 1..Len(sorted) : sorted[a].fact \in told.from
        <4>1. \A row \in ToSet(rows) : row.fact \in FactsOf(rows)
          BY DEF ToSet, FactsOf
        <4>2. sorted \in Seq(ToSet(rows))
          <5>1. rows \in Seq(ToSet(rows))
            BY DEF ToSet
          <5> QED
            BY <2>3, <5>1, ReviewedComeFirst
        <4>3. \A a \in 1..Len(sorted) : sorted[a] \in ToSet(rows)
          BY <4>2
        <4> QED
          BY <2>6, <2>8, <4>1, <4>3 DEF Grows
      <3> QED
        BY <2>4, <2>8, <2>10, <2>11, <3>1, PackingKeeps DEF SortedInto
    <2>13. /\ last \in PackType /\ last.budget = tokens /\ last.from = FactsOf(rows)
           /\ PackOk(last) /\ Yields(last, sorted, Len(sorted))
           /\ told.receipts \subseteq last.receipts
      BY <2>6, <2>8, <2>12 DEF PackedSoFar, PackOk, Grows
    <2>14. Tokens(HeaderChars + SummaryChars) <= tokens /\ conflicts # <<>> => last.receipts # {}
      BY <2>9, <2>13
    <2>15. CASE last.shown = {} /\ last.receipts = {}
      <3>1. pack = [last EXCEPT !.chars = 0]
        BY <2>5, <2>15
      <3>2. pack.shown = {} /\ pack.chars = 0 /\ pack.budget = tokens
        BY <2>13, <2>15, <3>1 DEF PackType
      <3>3. PackSound(pack, conflicts)
        BY <2>14, <2>15, <3>2, NothingIsSound
      <3> QED
        BY <3>2, <3>3
    <2>16. CASE ~(last.shown = {} /\ last.receipts = {})
      <3>1. pack = last
        BY <2>5, <2>16
      <3>2. ASSUME NEW f \in last.from, NEW g \in last.from, g \in last.shown,
                   ~Reviewed(Texts[g]), Owed(Texts[f])
            PROVE  /\ f \notin last.cut
                   /\ \/ f \in last.shown
                      \/ \E h \in last.shown : Texts[h].slot \cap Texts[f].slot # {}
                      \/ Shorter(Texts[g], Texts[f])
        <4>1. PICK i \in 1..Len(rows) : f = rows[i].fact
          BY <2>13, <3>2 DEF FactsOf
        <4>2. rows[i] \in Rows /\ Texts[f] = rows[i] /\ rows[i].fact = f
          BY <4>1, RowIs
        <4>3. PICK a \in 1..Len(sorted) : sorted[a] = rows[i]
          BY <2>11 DEF SortedInto
        <4>4. Kept(last, g, Texts[f])
          BY <2>13, <3>2, <4>2, <4>3 DEF Yields
        <4>5. f \notin last.cut
          BY <2>13, <3>2 DEF Yields, Owed
        <4>6. last.slots = UNION {Texts[h].slot : h \in last.shown}
          BY <2>13 DEF PackOk
        <4> QED
          BY <4>2, <4>4, <4>5, <4>6 DEF Kept
      <3>3. PackSound(last, conflicts)
        BY <2>13, <2>14, <3>2 DEF PackSound, PackOk, Owed
      <3> QED
        BY <2>13, <3>1, <3>3 DEF PackOk
    <2> QED
      BY <2>15, <2>16
  <1> QED
    BY <1>2, <1>3


(* The rows of a prompt are those of the facts found.                      *)
LEMMA PackIsSound ==
    ASSUME NEW rows \in Seq(Rows),
           NEW conflicts \in {<<>>, <<"conflict">>}, NEW tokens \in Nat,
           NEW pack \in Packs(rows, conflicts, tokens)
    PROVE  PackSound(pack, conflicts) /\ pack.shown \subseteq FactsOf(rows)
  <1>1. PICK picked \in MmrSelect(rows) : pack = PackContext(picked, conflicts, tokens, Len(rows))
    BY DEF Packs
  <1>2. Len(rows) \in Nat /\ MaxResults \in Nat
    BY ContextPackAssumption
  <1>3. picked \in Seq(Rows) /\ FactsOf(picked) \subseteq FactsOf(rows)
    <2>1. CASE picked = rows
      BY <2>1
    <2>2. CASE picked # rows
      <3>1. picked \in [1..MaxResults -> ToSet(rows)]
        BY <1>1, <2>2 DEF MmrSelect
      <3>2. \A row \in ToSet(rows) : row \in Rows /\ row.fact \in FactsOf(rows)
        BY DEF ToSet, FactsOf
      <3>3. picked \in [1..MaxResults -> Rows]
        BY <3>1, <3>2
      <3>4. picked \in Seq(Rows)
        BY <1>2, <3>3
      <3>5. FactsOf(picked) \subseteq FactsOf(rows)
        BY <3>1, <3>2 DEF FactsOf
      <3> QED
        BY <3>4, <3>5
    <2> QED
      BY <2>1, <2>2
  <1>4. PackSound(pack, conflicts) /\ pack.shown \subseteq FactsOf(picked)
    BY <1>1, <1>2, <1>3, ContextIsSound
  <1> QED
    BY <1>3, <1>4

LEMMA PromptIsSound ==
    ASSUME NEW found \in SUBSET Facts, NEW conflicts \in {<<>>, <<"conflict">>},
           NEW pack \in Prompts[found][conflicts]
    PROVE  PackSound(pack, conflicts) /\ pack.shown \subseteq found
  <1> DEFINE RowsOf(ranked) == [i \in DOMAIN ranked |-> Texts[ranked[i]]]
  <1>1. PICK ranked \in SetToSeqs(found), tokens \in TokenBudgets :
          pack \in Contexts(RowsOf(ranked), conflicts, tokens)
    BY DEF Prompts
  <1>2. PICK rows : rows = RowsOf(ranked)
    OBVIOUS
  <1>3. Cardinality(found) \in Nat
    BY FactsFinite, FS_Subset, FS_CardinalityType
  <1>4. ranked \in [1..Cardinality(found) -> found] /\ tokens \in Nat
    BY <1>1, RecallAssumption DEF SetToSeqs
  <1>5. /\ rows \in Seq(Rows) /\ FactsOf(rows) \subseteq found /\ Len(rows) \in Nat
    <2>1. rows = [i \in 1..Cardinality(found) |-> Texts[ranked[i]]]
      BY <1>2, <1>4
    <2>2. \A i \in 1..Cardinality(found) : rows[i] \in Rows /\ rows[i].fact = ranked[i]
      BY <1>4, <2>1, RecallAssumption DEF Rows
    <2>3. rows \in [1..Cardinality(found) -> Rows]
      BY <2>1, <2>2
    <2>4. rows \in Seq(Rows) /\ Len(rows) \in Nat
      BY <1>3, <2>3
    <2>5. FactsOf(rows) \subseteq found
      BY <1>4, <2>2, <2>3 DEF FactsOf
    <2> QED
      BY <2>4, <2>5
  <1>6. PICK n \in 0..Len(rows) : pack \in Packs(SubSeq(rows, 1, n), conflicts, tokens)
    BY <1>1, <1>2 DEF Contexts
  <1>7. PICK first : first = SubSeq(rows, 1, n)
    OBVIOUS
  <1>8. first \in Seq(Rows) /\ Len(first) = n /\ \A i \in 1..n : first[i] = rows[i]
    BY <1>5, <1>7
  <1>9. FactsOf(first) \subseteq found
    BY <1>5, <1>8 DEF FactsOf
  <1>10. pack \in Packs(first, conflicts, tokens)
    BY <1>6, <1>7
  <1> QED
    <2>1. tokens \in Nat /\ first \in Seq(Rows)
      BY <1>4, <1>8
    <2> HIDE DEF RowsOf
    <2>2. PackSound(pack, conflicts) /\ pack.shown \subseteq FactsOf(first)
      BY <1>10, <2>1, PackIsSound
    <2> QED
      BY <1>9, <2>2


-----------------------------------------------------------------------------
(* The pack of a search: what memory.context made of the facts it found,   *)
(* until the reply.                                                        *)
PackFits ==
    /\ search.step # "done" => search.pack = NoPack
    /\ search.pack # NoPack => search.pack \in Prompts[search.facts][search.listed]

LEMMA PackStays ==
    ASSUME PackFits, search.step # "done", search'.pack = search.pack
    PROVE  PackFits'
  BY DEF PackFits

LEMMA PackIsDropped ==
    ASSUME search' = NoSearch
    PROVE  PackFits'
  BY DEF PackFits, NoSearch

LEMMA PackIsHeld ==
    ASSUME PackFits, search'.step = search.step, search'.pack = search.pack,
           search'.facts = search.facts, search'.listed = search.listed
    PROVE  PackFits'
  BY DEF PackFits

LEMMA WorldKeepsPack ==
    ASSUME IInv, PackFits, \/ WriteFact \/ Erase \/ TimeStep \/ Die \/ StartDaemon \/ Rebuild
                           \/ \E w \in Workers : WorkStep(w)
    PROVE  PackFits'
  <1>1. CASE Die
    BY <1>1, PackIsDropped DEF Die
  <1>2. CASE WriteFact
    <2>1. search' = Watched /\ search \in SearchType
      BY <1>2 DEF WriteFact, IInv, SearchInv
    <2>2. /\ search'.step = search.step /\ search'.pack = search.pack
          /\ search'.facts = search.facts /\ search'.listed = search.listed
      BY <2>1 DEF Watched, SearchType
    <2> QED
      BY <2>2, PackIsHeld
  <1>3. CASE Erase \/ TimeStep \/ StartDaemon \/ Rebuild \/ \E w \in Workers : WorkStep(w)
    <2>1. search' = search
      BY <1>3 DEF Erase, TimeStep, recallVars, StartDaemon, Rebuild, WorkStep
    <2> QED
      BY <2>1, PackIsHeld
  <1> QED
    BY <1>1, <1>2, <1>3

LEMMA ReceiptsFillPack ==
    ASSUME IInv, PackFits, Receipts
    PROVE  PackFits'
  <1>1. PICK pack \in {NoPack} \cup Prompts[search.facts][Relevant] :
          Turn([End("answered", search.facts) EXCEPT !.listed = Relevant, !.pack = pack])
    BY DEF Receipts
  <1>2. PICK ended : ended = End("answered", search.facts)
    OBVIOUS
  <1>3. ended \in SearchType /\ ended.step = "done" /\ ended.facts = search.facts
    BY <1>2, EndFits, SearchFacts
  <1>4. search' = [ended EXCEPT !.listed = Relevant, !.pack = pack]
    BY <1>1, <1>2 DEF Turn
  <1>5. /\ search'.step = "done" /\ search'.facts = search.facts
        /\ search'.listed = Relevant /\ search'.pack = pack
    BY <1>3, <1>4 DEF SearchType
  <1> QED
    BY <1>1, <1>5 DEF PackFits

LEMMA SearchKeepsPack ==
    ASSUME IInv, PackFits, Search
    PROVE  PackFits'
  <1>1. search \in SearchType
    BY DEF IInv, SearchInv
  <1>2. CASE BeginSearch
    <2>1. PICK begun : begun = [NoSearch EXCEPT !.step = "open", !.since = Stage("settled"),
                                                !.embedded = Stage("settled") \cap vector]
      OBVIOUS
    <2>2. search' = begun \/ search' = [begun EXCEPT !.step = "done", !.outcome = "refused"]
      BY <1>2, <2>1 DEF BeginSearch
    <2>3. search'.pack = NoPack
      BY <2>1, <2>2 DEF NoSearch
    <2> QED
      BY <2>3 DEF PackFits
  <1>3. CASE Receipts
    BY <1>3, ReceiptsFillPack
  <1>4. CASE Reply
    BY <1>4, PackIsDropped DEF Reply, Turn
  <1>5. CASE OpenIndex \/ Lexical \/ Eligible \/ Score \/ Recent
    <2>1. search.step # "done"
      BY <1>5 DEF OpenIndex, Lexical, Eligible, Score, Recent, Is
    <2>2. search'.pack = search.pack
      BY <1>1, <1>5 DEF OpenIndex, Lexical, Eligible, Score, Recent, Turn, SearchType
    <2> QED
      BY <2>1, <2>2, PackStays
  <1>6. CASE Load \/ Rescore \/ Vectors \/ Jobs
    <2>1. search.step # "done"
      BY <1>6 DEF Load, Rescore, Vectors, Jobs, Is
    <2>2. search'.pack = search.pack
      BY <1>1, <1>6 DEF Load, Rescore, Vectors, Jobs, Answered, End, Turn, SearchType
    <2> QED
      BY <2>1, <2>2, PackStays
  <1>7. CASE ModelDown
    <2>1. search.step # "done" /\ search' = End("model", {})
      BY <1>7 DEF ModelDown, Is, Turn
    <2>2. search'.pack = search.pack
      BY <1>1, <2>1 DEF End, SearchType
    <2> QED
      BY <2>1, <2>2, PackStays
  <1> QED
    BY <1>2, <1>3, <1>4, <1>5, <1>6, <1>7 DEF Search

LEMMA PackKeeps ==
    ASSUME IInv, PackFits, [RecallNext]_<<vars, recallVars>>
    PROVE  PackFits'
  <1>1. CASE UNCHANGED <<vars, recallVars>>
    BY <1>1, PackIsHeld DEF recallVars
  <1> QED
    BY <1>1, WorldKeepsPack, SearchKeepsPack DEF RecallNext

-----------------------------------------------------------------------------
(* What every behaviour of the searches, the writers and the worker has.   *)

(* The inductive invariant: what the outbox, the index and a search in     *)
(* hand are between two commits, whatever falls between two statements.    *)
THEOREM RecallInvariant == RecallSpec => []IInv
  BY RecallStarts, RecallKeeps, PTL DEF RecallSpec

(* Searches, the index and its rebuilding do not disturb the outbox: no    *)
(* settled fact is without a vector, a queued job or a dead letter while   *)
(* the daemon runs, and no erased fact has any of them.                    *)
THEOREM NothingLeftUnindexed == RecallSpec => []OutboxSound
  <1>1. IInv => OutboxSound
    BY DEF IInv, OutboxInv, OutboxSound
  <1> QED
    BY <1>1, RecallInvariant, PTL

(* SQLiteVecIndex.open accepts no index that missed a change of the        *)
(* vectors, for any number of them, any sample and any order of rebuilds,  *)
(* erasures, restarts and stores with or without the extension.            *)
THEOREM IndexIsFaithful == RecallSpec => []IndexFaithful
  <1>1. IInv => IndexFaithful
    BY DEF IInv, IndexInv, IndexFaithful, Openable
  <1> QED
    BY <1>1, RecallInvariant, PTL

(* A search misses no fact that stayed settled throughout, by its words or *)
(* by its vector, but for the limits it says it has.                       *)
THEOREM SearchMissesNothing == RecallSpec => []NothingMissed
  <1>1. IInv => NothingMissed
    BY DEF IInv, SearchInv, HandFits, NothingMissed, AllWords, AllFacts
  <1> QED
    BY <1>1, RecallInvariant, PTL

(* What memory.context renders keeps to its budget and to what may be      *)
(* rendered, says that there is a conflict, and spends nothing on          *)
(* unreviewed facts before the reviewed ones, for any texts, limits and    *)
(* budgets, and whatever the writers do between the statements.            *)
THEOREM PromptsAreSound == RecallSpec => []PromptSound
  <1>1. RecallInit => PackFits
    BY DEF RecallInit, PackFits, NoSearch
  <1>2. IInv /\ PackFits => PromptSound
    <2> SUFFICES ASSUME IInv, PackFits, search.pack # NoPack
                 PROVE  PromptSound
      BY DEF PromptSound
    <2>1. /\ search.facts \in SUBSET Facts /\ search.listed \in {<<>>, <<"conflict">>}
          /\ search.pack \in Prompts[search.facts][search.listed]
      BY DEF PackFits, IInv, SearchInv, SearchType
    <2>2. PackSound(search.pack, search.listed) /\ search.pack.shown \subseteq search.facts
      BY <2>1, PromptIsSound
    <2> QED
      BY <2>2 DEF PackSound, PromptSound
  <1> QED
    BY <1>1, <1>2, RecallInvariant, PackKeeps, PTL DEF RecallSpec

=============================================================================
