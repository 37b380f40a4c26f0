--------------------------- MODULE ExtractionJobs ---------------------------
(***************************************************************************)
(* The durable extraction queue: transcripts are queued, a leased worker   *)
(* has a model propose memories, persists the proposals on the queue row   *)
(* and writes them together with the deletion of the row.                  *)
(*                                                                         *)
(* A payload stands for an envelope and its hash; Text gives the           *)
(* transcript in it.  A snapshot is the set of items one model call left   *)
(* (see module Extractor) and stands for its hash, too.                    *)
(* Of the facts written only the write log is kept: one entry per batch,   *)
(* because the idempotency keys of a batch are its payload hash, its       *)
(* snapshot hash and the position of each proposal.  Requests also carry   *)
(* the id of their queue row, so the same keys sent from another row hash  *)
(* differently and raise IdempotencyConflict.                              *)
(*                                                                         *)
(* The lease token of a claim is represented by the worker holding it, as  *)
(* in module EmbeddingJobs.                                                *)
(***************************************************************************)
EXTENDS Extractor

CONSTANTS
    Payloads,     \* envelopes
    Text,         \* payload -> transcript
    Calls,        \* ways a run of the extractor command may go
    NoSnapshot,   \* proposal_json IS NULL
    Erased,       \* payload written by privacy erasure
    Workers,      \* ExtractionProcessor instances
    NoWorker,     \* lease_token IS NULL
    MaxRows,      \* bound on queue rows
    MaxAttempts,  \* max_attempts of the processor
    MaxHalts,     \* bound on daemon stops
    MaxRevivals   \* bound on operator revivals

ASSUME ExtractionJobsAssumption ==
    /\ \A p \in Payloads : Normalizes(Text[p])
    /\ Calls \subseteq Call
    /\ Erased \notin Payloads
    /\ NoWorker \notin Workers
    /\ MaxRows \in Nat /\ MaxHalts \in Nat /\ MaxRevivals \in Nat
    /\ MaxAttempts \in Nat \ {0}

VARIABLES
    row,       \* id -> extract_queue row
    log,       \* batches in memory_write_log
    work,      \* worker -> where its process_one call stands
    up,        \* the daemon runs
    halts,     \* daemon stops so far
    revivals   \* operator revivals so far

vars == <<row, log, work, up, halts, revivals>>

Rows == 1..MaxRows

(* ready: not_before has passed; lapsed: lease_until <= now; aged: the row *)
(* is MAX_RATE_LIMIT_AGE_SECONDS old, noted while it has no snapshot.  A   *)
(* deleted row is "gone".                                                  *)
Row ==
    [status : {"none", "pending", "processing", "dead", "acknowledged", "gone"},
     payload : Payloads \cup {Erased}, snap : {NoSnapshot} \cup SUBSET Items,
     attempts : 0..MaxAttempts, ready : BOOLEAN, aged : BOOLEAN,
     holder : Workers \cup {NoWorker}, lapsed : BOOLEAN]

Batch == [payload : Payloads, snap : (SUBSET Items) \ {{}}, row : Rows]

Steps == {"idle", "claimed", "extracting", "persist", "prepare", "write", "fail"}

(* How process_one failed: for good, because the provider limits the rate  *)
(* of calls (consumes_attempt is False), or in a way worth a retry.        *)
Failures == {"permanent", "rate", "retry"}

Job == [step : Steps, row : 0..MaxRows, payload : Payloads \cup {Erased},
        snap : {NoSnapshot} \cup SUBSET Items, failure : Failures]

TypeOK ==
    /\ row \in [Rows -> Row]
    /\ \A r \in Rows :
         /\ row[r].holder # NoWorker <=> row[r].status = "processing"
         /\ row[r].lapsed => row[r].status = "processing"
    /\ log \subseteq Batch
    /\ work \in [Workers -> Job]
    /\ up \in BOOLEAN
    /\ halts \in 0..MaxHalts
    /\ revivals \in 0..MaxRevivals

NoRow == [status |-> "none", payload |-> Erased, snap |-> NoSnapshot, attempts |-> 0,
          ready |-> FALSE, aged |-> FALSE, holder |-> NoWorker, lapsed |-> FALSE]

Idle == [step |-> "idle", row |-> 0, payload |-> Erased,
         snap |-> NoSnapshot, failure |-> "retry"]

Init ==
    /\ row = [r \in Rows |-> NoRow]
    /\ log = {}
    /\ work = [w \in Workers |-> Idle]
    /\ up = TRUE
    /\ halts = 0
    /\ revivals = 0

-----------------------------------------------------------------------------
Waiting(p) ==
    \E q \in Rows : row[q].status \in {"pending", "processing"} /\ row[q].payload = p

(* enqueue_after_commit: a payload that is already waiting is not queued   *)
(* again; one whose row is gone or dead is.                                *)
Enqueue(p, r) ==
    /\ up /\ ~Waiting(p)
    /\ row[r].status = "none" /\ \A q \in Rows : q < r => row[q].status # "none"
    /\ row' = [row EXCEPT ![r] = [NoRow EXCEPT !.status = "pending", !.payload = p,
                                               !.ready = TRUE]]
    /\ UNCHANGED <<log, work, up, halts, revivals>>

-----------------------------------------------------------------------------
(* process_one.                                                            *)

Released(r, status, ready) ==
    [row[r] EXCEPT !.status = status, !.ready = ready, !.holder = NoWorker, !.lapsed = FALSE]

(* _claim first buries the expired leases whose attempts are used up. *)
Buried ==
    [r \in Rows |->
       IF row[r].status = "processing" /\ row[r].lapsed /\ row[r].attempts >= MaxAttempts
       THEN Released(r, "dead", row[r].ready) ELSE row[r]]

Claimable(r) ==
    /\ row[r].attempts < MaxAttempts /\ row[r].ready
    /\ row[r].status = "pending" \/ (row[r].status = "processing" /\ row[r].lapsed)

Claim(w) ==
    /\ up /\ work[w] = Idle
    /\ \/ /\ \A r \in Rows : ~Claimable(r)
          /\ row' = Buried
          /\ UNCHANGED work
       \/ \E r \in Rows :
            /\ Claimable(r) /\ \A q \in Rows : Claimable(q) => r <= q
            /\ row' = [Buried EXCEPT ![r].status = "processing", ![r].attempts = @ + 1,
                                     ![r].holder = w, ![r].lapsed = FALSE]
            /\ work' = [work EXCEPT ![w] = [Idle EXCEPT !.step = "claimed", !.row = r,
                                                        !.payload = row[r].payload]]
    /\ UNCHANGED <<log, up, halts, revivals>>

At(w, step) == up /\ work[w].step = step

Failed(w, failure) ==
    [work EXCEPT ![w].step = "fail", ![w].snap = NoSnapshot, ![w].failure = failure]

HoldsLease(w) ==
    /\ row[work[w].row].status = "processing"
    /\ row[work[w].row].holder = w

(* _decode_envelope: the placeholder left by erasure is no envelope. *)
Decodes(p) == p # Erased

(* The envelope is decoded and the snapshot of an earlier attempt loaded:  *)
(* the model is called only when there is none, and not about a transcript *)
(* in which the user says nothing.                                         *)
Load(w) ==
    /\ At(w, "claimed")
    /\ work' = IF ~HoldsLease(w) THEN Failed(w, "retry")
               ELSE IF ~Decodes(work[w].payload) THEN Failed(w, "permanent")
               ELSE IF row[work[w].row].snap # NoSnapshot
                    THEN [work EXCEPT ![w].step = "prepare", ![w].snap = row[work[w].row].snap]
               ELSE IF EligibleSpans(Text[work[w].payload]) = {}
                    THEN [work EXCEPT ![w].step = "persist", ![w].snap = {}]
               ELSE [work EXCEPT ![w].step = "extracting"]
    /\ UNCHANGED <<row, log, up, halts, revivals>>

(* What may come of the transcript in p: the extractor fails or answers,   *)
(* and _make_snapshot screens the answer.                                  *)
Result(call, text) ==
    LET answer == Host(call, text)
    IN  IF answer.failure # "none" THEN [failure |-> answer.failure, snap |-> NoSnapshot]
        ELSE IF SnapshotRefused(answer.proposals, text, call.verifier)
             THEN [failure |-> "permanent", snap |-> NoSnapshot]
        ELSE [failure |-> "none",
              snap |-> Snapshot(answer.proposals, text, call.verifier)]

Results == [p \in Payloads |-> {Result(call, Text[p]) : call \in Calls}]

(* The model is called in a thread of its own. *)
Extract(w) ==
    /\ At(w, "extracting")
    /\ \E result \in Results[work[w].payload] :
         work' = IF result.failure # "none" THEN Failed(w, result.failure)
                 ELSE [work EXCEPT ![w].step = "persist", ![w].snap = result.snap]
    /\ UNCHANGED <<row, log, up, halts, revivals>>

(* A heartbeat finds the lease expired or taken over: the call is          *)
(* cancelled.  One that renews the lease changes nothing here.             *)
RenewFails(w) ==
    /\ At(w, "extracting")
    /\ ~HoldsLease(w) \/ row[work[w].row].lapsed
    /\ work' = Failed(w, "retry")
    /\ UNCHANGED <<row, log, up, halts, revivals>>

(* Mutated form of PersistSnapshot: neither lease nor IS NULL is checked. *)
PersistSnapshotUnfenced(w) ==
    /\ At(w, "persist")
    /\ row' = [row EXCEPT ![work[w].row].snap = work[w].snap]
    /\ work' = [work EXCEPT ![w].step = "prepare"]
    /\ UNCHANGED <<log, up, halts, revivals>>

PersistSnapshot(w) ==
    /\ At(w, "persist")
    /\ IF HoldsLease(w) /\ row[work[w].row].snap = NoSnapshot
       THEN /\ row' = [row EXCEPT ![work[w].row].snap = work[w].snap,
                                  ![work[w].row].aged = FALSE]
            /\ work' = [work EXCEPT ![w].step = "prepare"]
       ELSE row' = row /\ work' = Failed(w, "retry")
    /\ UNCHANGED <<log, up, halts, revivals>>

(* The persisted proposals become write requests, or the running version   *)
(* refuses one of them for good.                                           *)
PrepareSnapshot(w) ==
    /\ At(w, "prepare")
    /\ \E resolves \in BOOLEAN :
         work' = IF PreparationRefused(work[w].snap, Text[work[w].payload], resolves)
                 THEN Failed(w, "permanent") ELSE [work EXCEPT ![w].step = "write"]
    /\ UNCHANGED <<row, log, up, halts, revivals>>

Requests(w) == Prepared(work[w].snap, Text[work[w].payload])

(* _load_prior finds the keys under another request hash. *)
Clashes(w) ==
    \E b \in log : /\ b.payload = work[w].payload /\ b.snap = work[w].snap
                   /\ b.row # work[w].row

ThisBatch(w) == [payload |-> work[w].payload, snap |-> work[w].snap, row |-> work[w].row]

(* The row is deleted; what it last held is remembered for the properties. *)
Deleted(r) == [NoRow EXCEPT !.status = "gone", !.payload = row[r].payload, !.snap = row[r].snap]

(* Mutated form of WriteBatch: the row is left for a later transaction. *)
WriteBatchKeepingRow(w) ==
    /\ At(w, "write") /\ HoldsLease(w) /\ Requests(w) # {} /\ ~Clashes(w)
    /\ log' = log \cup {ThisBatch(w)}
    /\ work' = [work EXCEPT ![w] = Idle]
    /\ UNCHANGED <<row, up, halts, revivals>>

(* handle_write_batch: what the policy rejects is dropped and the rest is  *)
(* sent again; the survivors, if any, commit with the deletion of the row. *)
WriteBatch(w) ==
    /\ At(w, "write") /\ HoldsLease(w) /\ Requests(w) # {} /\ ~Clashes(w)
    /\ log' = log \cup {ThisBatch(w)}
    /\ row' = [row EXCEPT ![work[w].row] = Deleted(work[w].row)]
    /\ work' = [work EXCEPT ![w] = Idle]
    /\ UNCHANGED <<up, halts, revivals>>

(* Nothing was proposed, or all of it was screened out or rejected. *)
Complete(w) ==
    /\ At(w, "write") /\ HoldsLease(w) /\ ~Clashes(w)
    /\ row' = [row EXCEPT ![work[w].row] = Deleted(work[w].row)]
    /\ work' = [work EXCEPT ![w] = Idle]
    /\ UNCHANGED <<log, up, halts, revivals>>

(* The batch is rolled back: the lease is lost, the keys clash, the client *)
(* is no longer authorised or the database fails.                          *)
WriteFails(w) ==
    /\ At(w, "write")
    /\ work' = Failed(w, "retry")
    /\ UNCHANGED <<row, log, up, halts, revivals>>

(* A rate-limited call gives its attempt back. *)
AttemptsAfter(r, failure) ==
    IF failure = "rate" /\ row[r].attempts > 0 THEN row[r].attempts - 1 ELSE row[r].attempts

(* Mutated form of GivesUp: the age of a rate-limited row is not looked at. *)
GivesUpOnAttemptsOnly(r, failure) ==
    failure = "permanent" \/ AttemptsAfter(r, failure) >= MaxAttempts

GivesUp(r, failure) ==
    \/ failure = "permanent"
    \/ AttemptsAfter(r, failure) >= MaxAttempts
    \/ failure = "rate" /\ row[r].aged

(* _fail; it raises when the lease was lost, and the worker goes on. *)
Fail(w) ==
    /\ At(w, "fail")
    /\ LET r == work[w].row
           failure == work[w].failure
       IN  IF ~HoldsLease(w) THEN row' = row
           ELSE row' = [row EXCEPT ![r] =
                          [Released(r, IF GivesUp(r, failure) THEN "dead" ELSE "pending", FALSE)
                             EXCEPT !.attempts = AttemptsAfter(r, failure)]]
    /\ work' = [work EXCEPT ![w] = Idle]
    /\ UNCHANGED <<log, up, halts, revivals>>

Work(w) ==
    \/ Claim(w) \/ Load(w)
    \/ Extract(w) \/ RenewFails(w) \/ PersistSnapshot(w)
    \/ PrepareSnapshot(w) \/ WriteBatch(w) \/ Complete(w) \/ WriteFails(w) \/ Fail(w)

-----------------------------------------------------------------------------
(* Time, the daemon and its operator.                                      *)

LeaseLapses(r) ==
    /\ row[r].status = "processing" /\ ~row[r].lapsed
    /\ row' = [row EXCEPT ![r].lapsed = TRUE]
    /\ UNCHANGED <<log, work, up, halts, revivals>>

BackoffEnds(r) ==
    /\ row[r].status = "pending" /\ ~row[r].ready
    /\ row' = [row EXCEPT ![r].ready = TRUE]
    /\ UNCHANGED <<log, work, up, halts, revivals>>

(* The age is looked at when a call is rate limited; with a snapshot there *)
(* is no call any more.                                                    *)
Ages(r) ==
    /\ row[r].status \in {"pending", "processing"} /\ ~row[r].aged
    /\ row[r].snap = NoSnapshot
    /\ row' = [row EXCEPT ![r].aged = TRUE]
    /\ UNCHANGED <<log, work, up, halts, revivals>>

(* The daemon dies, or stops with no call in progress. *)
Halt ==
    /\ up /\ halts < MaxHalts
    /\ up' = FALSE
    /\ work' = [w \in Workers |-> Idle]
    /\ halts' = halts + 1
    /\ UNCHANGED <<row, log, revivals>>

Start ==
    /\ ~up
    /\ up' = TRUE
    /\ UNCHANGED <<row, log, work, halts, revivals>>

(* The operator commands take the maintenance lock, which a running daemon *)
(* holds.  The unique index on waiting payloads refuses to revive a row    *)
(* whose transcript waits in another row; erased payloads are all distinct.*)
Revive(r) ==
    /\ ~up /\ row[r].status \in {"dead", "acknowledged"} /\ revivals < MaxRevivals
    /\ row[r].payload = Erased \/ ~Waiting(row[r].payload)
    /\ row' = [row EXCEPT ![r] = [Released(r, "pending", TRUE) EXCEPT !.attempts = 0]]
    /\ revivals' = revivals + 1
    /\ UNCHANGED <<log, work, up, halts>>

Acknowledge(r) ==
    /\ ~up /\ row[r].status = "dead"
    /\ row' = [row EXCEPT ![r].status = "acknowledged"]
    /\ UNCHANGED <<log, work, up, halts, revivals>>

ErasedRow(r, b) ==
    IF row[r].status \notin {"none", "gone"} /\ row[r].payload = b.payload
    THEN [row[r] EXCEPT !.payload = Erased, !.snap = NoSnapshot] ELSE row[r]

(* Mutated form of EraseMemory: the running daemon is not excluded. *)
EraseMemoryLive(b) ==
    /\ row' = [r \in Rows |-> ErasedRow(r, b)]
    /\ UNCHANGED <<log, work, up, halts, revivals>>

(* erase_fact on a memory of batch b: every row that still holds the       *)
(* transcript it came from is scrubbed, in whatever status it is.          *)
EraseMemory(b) ==
    /\ ~up
    /\ row' = [r \in Rows |-> ErasedRow(r, b)]
    /\ UNCHANGED <<log, work, up, halts, revivals>>

Next ==
    \/ \E p \in Payloads, r \in Rows : Enqueue(p, r)
    \/ \E w \in Workers : Work(w)
    \/ \E r \in Rows : LeaseLapses(r) \/ BackoffEnds(r) \/ Ages(r)
    \/ Halt \/ Start
    \/ \E r \in Rows : Revive(r) \/ Acknowledge(r)
    \/ \E b \in log : EraseMemory(b)

Spec == Init /\ [][Next]_vars

(* The worker thread polls for ever, calls return, time passes and the     *)
(* daemon is started again.                                                *)
FairSpec ==
    /\ Spec
    /\ \A w \in Workers : WF_vars(Work(w))
    /\ \A r \in Rows : WF_vars(LeaseLapses(r)) /\ WF_vars(BackoffEnds(r)) /\ WF_vars(Ages(r))
    /\ WF_vars(Start)

-----------------------------------------------------------------------------
(* Properties.                                                             *)

(* A queue row is applied by at most one transaction, which deletes it and *)
(* writes the proposals persisted on it, and no two rows apply the same    *)
(* proposals of the same transcript: whatever crashes, takeovers, retries  *)
(* and revivals lie between the model's answer and the write.              *)
AppliedOnce ==
    \A b \in log :
        /\ row[b.row].status = "gone"
        /\ row[b.row].snap = b.snap /\ row[b.row].payload = b.payload
        /\ \A c \in log : c.row = b.row \/ (c.payload = b.payload /\ c.snap = b.snap) => c = b

(* No worker holds on to a transcript that has been erased from the row it *)
(* works on, and an erased row carries no proposals.                       *)
ErasedTextStaysOut ==
    /\ \A w \in Workers :
         work[w].row # 0 /\ row[work[w].row].payload = Erased => work[w].payload = Erased
    /\ \A r \in Rows : row[r].payload = Erased => row[r].snap = NoSnapshot

(* Rows, leases and what workers hold fit together, also after erasure.    *)
RowsSound == TypeOK /\ ErasedTextStaysOut

(* A waiting row is written, or given up as dead: neither crashed workers  *)
(* nor a provider that limits the rate for ever keep it in the queue.      *)
EventuallyDrained ==
    \A r \in Rows : row[r].status = "pending" ~> row[r].status \in {"gone", "dead"}

(* What a batch writes was said by the user, not quoted from the assistant *)
(* or from nowhere, and is no secret and no task; and it enters a slot of  *)
(* the fact table only when the verifier found the quote to support the    *)
(* claim: whatever the model answered, however the child and the verifier  *)
(* failed, and whichever worker, attempt or restart took the proposals up. *)
WrittenAsSaid ==
    \A b \in log :
        \A request \in Prepared(b.snap, Text[b.payload]) :
            LET p == request.proposal IN
            /\ \E span \in Spans(Text[b.payload]) :
                 span.id = p.quote /\ span.role = "user"
            /\ p.content \notin {"secret", "task", "echo"}
            /\ request.slot => p.claim = "supported"

=============================================================================
