------------------------ MODULE ExtractionJobsProofs ------------------------
(* Theorems of ExtractionJobs for any transcripts, runs of the extractor,  *)
(* workers, rows and bounds.                                               *)
EXTENDS ExtractionJobs, TLAPS

(* A snapshot holds what a user said in the transcript, and what it calls  *)
(* verified is supported.                                                  *)
Faithful(items, t) ==
    /\ items \in SUBSET Items
    /\ \A i \in items : Kept(i.proposal, t) /\ (i.verified => i.proposal.claim = "supported")

(* A row either still has its transcript, or neither it nor proposals.     *)
RowFits(r) ==
    row[r].snap # NoSnapshot =>
        row[r].payload \in Payloads /\ Faithful(row[r].snap, Text[row[r].payload])

RowsFit == \A r \in Rows : RowFits(r)

(* A worker works on the transcript of its row, and while it has the lease *)
(* on the proposals persisted there.                                       *)
JobFits(w) ==
    /\ work[w].step = "idle" => work[w] = Idle
    /\ work[w].step # "idle" =>
         /\ up
         /\ work[w].row \in Rows
         /\ row[work[w].row].status # "none"
         /\ work[w].payload = row[work[w].row].payload
    /\ work[w].step \in {"extracting", "persist", "prepare", "write"} =>
         work[w].payload \in Payloads
    /\ work[w].step \in {"persist", "prepare", "write"} =>
         Faithful(work[w].snap, Text[work[w].payload])
    /\ work[w].step \in {"prepare", "write"} /\ HoldsLease(w) =>
         row[work[w].row].snap = work[w].snap

JobsFit == \A w \in Workers : JobFits(w)

LogFits == \A b \in log : Faithful(b.snap, Text[b.payload])

(* The inductive invariant.                                                *)
IInv == TypeOK /\ RowsFit /\ JobsFit /\ LogFits /\ AppliedOnce

-----------------------------------------------------------------------------
(* Runs of the extractor.                                                  *)

LEMMA ChildProposes ==
    ASSUME NEW call \in Call, NEW t
    PROVE  Child(call, t).proposals \subseteq Proposal
  <1>1. /\ call.proposals \subseteq Proposal
        /\ call.command \in {"openai", "ollama", "other"}
    BY DEF Call
  <1>2. Resolved(call.proposals) \subseteq Proposal
    <2> SUFFICES ASSUME NEW p \in call.proposals
                 PROVE  [p EXCEPT !.quote = p.span] \in Proposal
      BY <1>1 DEF Resolved
    <2> QED
      BY <1>1 DEF Proposal
  <1>3. \A code : Exited(code).proposals = {}
    BY DEF Exited
  <1>4. \A exit : Transform(call, t, exit).proposals \subseteq Proposal
    BY <1>2, <1>3 DEF Transform
  <1>5. OpenAIChild(call, t).proposals \subseteq Proposal
    BY <1>3, <1>4 DEF OpenAIChild
  <1>6. OllamaChild(call, t).proposals \subseteq Proposal
    BY <1>3, <1>4 DEF OllamaChild
  <1> QED
    BY <1>1, <1>5, <1>6 DEF Child

LEMMA HostAnswers ==
    ASSUME NEW call \in Call, NEW t
    PROVE  /\ Host(call, t).failure \in Failures \cup {"none"}
           /\ Host(call, t).proposals \subseteq Proposal
  <1>1. /\ \A f : Failure(f).failure = f /\ Failure(f).proposals = {}
        /\ \A P : Answer(P).failure = "none" /\ Answer(P).proposals = P
    BY DEF Failure, Answer
  <1>2. \A c, code : ExitFailure(c, code) \in Failures
    BY DEF ExitFailure, Failures
  <1>3. "permanent" \in Failures /\ "retry" \in Failures
    BY DEF Failures
  <1> QED
    BY <1>1, <1>2, <1>3, ChildProposes DEF Host

(* The screens of the processor, whatever the child and the verifier did.  *)
LEMMA ResultFaithful ==
    ASSUME NEW call \in Call, NEW t
    PROVE  /\ Result(call, t).failure \in Failures \cup {"none"}
           /\ Result(call, t).failure = "none" => Faithful(Result(call, t).snap, t)
  <1> DEFINE answer == Host(call, t)
             items == Snapshot(answer.proposals, t, call.verifier)
  <1>1. /\ answer.failure \in Failures \cup {"none"}
        /\ answer.proposals \subseteq Proposal
    BY HostAnswers
  <1>2. Faithful(items, t)
    <2> SUFFICES ASSUME NEW p \in answer.proposals, Kept(p, t)
                 PROVE  /\ Screened(p, call.verifier) \in Items
                        /\ Kept(Screened(p, call.verifier).proposal, t)
                        /\ Screened(p, call.verifier).verified => p.claim = "supported"
                        /\ Screened(p, call.verifier).proposal = p
      BY DEF Faithful, Snapshot
    <2>1. Verified(p, call.verifier) \in BOOLEAN /\ (Verified(p, call.verifier) => p.claim = "supported")
      BY DEF Verified, Verdict, MustReview, InTime, Replies
    <2>2. Resolvable(p) \in BOOLEAN
      BY DEF Resolvable
    <2>3. p \in Proposal
      BY <1>1
    <2> QED
      BY <2>1, <2>2, <2>3 DEF Screened, Items
  <1>3. "permanent" \in Failures
    BY DEF Failures
  <1> QED
    BY <1>1, <1>2, <1>3 DEF Result

LEMMA ResultsFaithful ==
    ASSUME NEW p \in Payloads, NEW result \in Results[p]
    PROVE  /\ result.failure \in Failures \cup {"none"}
           /\ result.failure = "none" => Faithful(result.snap, Text[p])
  BY ResultFaithful, ExtractionJobsAssumption DEF Results

(* What is written of a faithful snapshot. *)
LEMMA FaithfulIsSaid ==
    ASSUME NEW t, NEW items, Faithful(items, t), NEW request \in Prepared(items, t)
    PROVE  /\ \E span \in Spans(t) : span.id = request.proposal.quote /\ span.role = "user"
           /\ request.proposal.content \notin {"secret", "task", "echo"}
           /\ request.slot => request.proposal.claim = "supported"
  <1>1. PICK i \in items : /\ ~Ephemeral(i.proposal) /\ ~Secret(i.proposal)
                           /\ request = [proposal |-> i.proposal, unreviewed |-> ~i.verified,
                                         slot |-> i.verified /\ i.typed]
    BY DEF Prepared
  <1>2. Kept(i.proposal, t) /\ (i.verified => i.proposal.claim = "supported")
    BY DEF Faithful
  <1>3. request.proposal = i.proposal /\ (request.slot => i.verified)
    BY <1>1
  <1>4. i.proposal.content \notin {"secret", "task", "echo"}
    BY <1>1 DEF Ephemeral, Secret
  <1>5. \E span \in Spans(t) : span.id = i.proposal.quote /\ span.role = "user"
    BY <1>2 DEF Kept, Grounded, FromUser, CitedSpans, Eligible
  <1> QED
    BY <1>2, <1>3, <1>4, <1>5
-----------------------------------------------------------------------------
(* Steps of the queue.                                                     *)

LEMMA InitIInv == Init => IInv
  <1> SUFFICES ASSUME Init PROVE IInv
    OBVIOUS
  <1>1. NoRow \in Row
    BY ExtractionJobsAssumption DEF NoRow, Row
  <1>2. Idle \in Job
    BY ExtractionJobsAssumption DEF Idle, Job, Steps, Failures
  <1>3. TypeOK
    BY <1>1, <1>2, ExtractionJobsAssumption DEF Init, TypeOK, NoRow
  <1>4. RowsFit
    BY DEF Init, RowsFit, RowFits, NoRow
  <1>5. JobsFit
    BY DEF Init, JobsFit, JobFits, Idle
  <1>6. LogFits /\ AppliedOnce
    BY DEF Init, LogFits, AppliedOnce
  <1> QED
    BY <1>3, <1>4, <1>5, <1>6 DEF IInv

(* What a row must keep for a worker that does nothing. *)
KeptFor(w, r) ==
    row[r].status # "none" =>
        /\ row'[r].status # "none"
        /\ row'[r].payload = row[r].payload
        /\ row'[r].status = "processing" /\ row'[r].holder = w =>
             /\ row[r].status = "processing" /\ row[r].holder = w
             /\ row'[r].snap = row[r].snap

LEMMA JobStays ==
    ASSUME NEW w \in Workers, JobFits(w), work'[w] = work[w], up' = up,
           \A r \in Rows : KeptFor(w, r)
    PROVE  JobFits(w)'
  <1>1. CASE work[w].step = "idle"
    BY <1>1 DEF JobFits
  <1>2. CASE work[w].step # "idle"
    <2>1. work[w].row \in Rows /\ row[work[w].row].status # "none"
      BY <1>2 DEF JobFits
    <2> QED
      BY <1>2, <2>1 DEF JobFits, KeptFor, HoldsLease
  <1> QED
    BY <1>1, <1>2

(* The batches keep their rows. *)
LEMMA BatchesStay ==
    ASSUME TypeOK, AppliedOnce, LogFits, log' = log,
           \A r \in Rows : row[r].status = "gone" => row'[r] = row[r]
    PROVE  AppliedOnce' /\ LogFits'
  <1>1. \A b \in log : b.row \in Rows
    BY DEF TypeOK, Batch
  <1> QED
    BY <1>1 DEF AppliedOnce, LogFits

(* Only the step of one worker changes. *)
LEMMA WorkStep ==
    ASSUME IInv, NEW w \in Workers, UNCHANGED <<row, log, up, halts, revivals>>,
           work' \in [Workers -> Job], \A v \in Workers \ {w} : work'[v] = work[v],
           JobFits(w)'
    PROVE  IInv'
  <1>1. TypeOK /\ RowsFit /\ JobsFit /\ LogFits /\ AppliedOnce
    BY DEF IInv
  <1>2. TypeOK'
    BY <1>1 DEF TypeOK
  <1>3. RowsFit' /\ LogFits' /\ AppliedOnce'
    BY <1>1 DEF RowsFit, RowFits, LogFits, AppliedOnce
  <1>4. ASSUME NEW v \in Workers \ {w} PROVE JobFits(v)'
    <2>1. \A r \in Rows : KeptFor(v, r)
      BY DEF KeptFor
    <2> QED
      BY <1>1, <2>1, JobStays DEF JobsFit
  <1> QED
    BY <1>2, <1>3, <1>4 DEF IInv, JobsFit

(* Rows change, but neither text nor leases. *)
LEMMA RowStep ==
    ASSUME IInv, UNCHANGED <<log, work, up>>, row' \in [Rows -> Row],
           halts' \in 0..MaxHalts, revivals' \in 0..MaxRevivals,
           \A r \in Rows :
             /\ row[r].status = "gone" => row'[r] = row[r]
             /\ row'[r].status = "none" <=> row[r].status = "none"
             /\ row'[r].status = "processing" <=> row[r].status = "processing"
             /\ row'[r].holder = row[r].holder
             /\ row'[r].payload = row[r].payload /\ row'[r].snap = row[r].snap
             /\ row'[r].lapsed => row'[r].status = "processing"
    PROVE  IInv'
  <1>1. TypeOK /\ RowsFit /\ JobsFit /\ LogFits /\ AppliedOnce
    BY DEF IInv
  <1>2. TypeOK'
    BY <1>1 DEF TypeOK
  <1>3. RowsFit'
    BY <1>1 DEF RowsFit, RowFits
  <1>4. AppliedOnce' /\ LogFits'
    BY <1>1, BatchesStay
  <1>5. ASSUME NEW v \in Workers PROVE JobFits(v)'
    <2>1. \A r \in Rows : KeptFor(v, r)
      BY DEF KeptFor
    <2> QED
      BY <1>1, <2>1, JobStays DEF JobsFit
  <1> QED
    BY <1>2, <1>3, <1>4, <1>5 DEF IInv, JobsFit

(* A call that fails. *)
LEMMA FailedJob ==
    ASSUME TypeOK, NEW w \in Workers, NEW f \in Failures
    PROVE  /\ Failed(w, f) \in [Workers -> Job]
           /\ Failed(w, f)[w].step = "fail"
           /\ Failed(w, f)[w].row = work[w].row /\ Failed(w, f)[w].payload = work[w].payload
           /\ \A v \in Workers \ {w} : Failed(w, f)[v] = work[v]
  BY ZenonT(60) DEF TypeOK, Failed, Job, Steps

LEMMA FailedKeeps ==
    ASSUME IInv, NEW w \in Workers, NEW f \in Failures, work[w].step # "idle",
           work' = Failed(w, f), UNCHANGED <<row, log, up, halts, revivals>>
    PROVE  IInv'
  <1>1. TypeOK /\ JobFits(w)
    BY DEF IInv, JobsFit
  <1>2. /\ work' \in [Workers -> Job] /\ work'[w].step = "fail"
        /\ work'[w].row = work[w].row /\ work'[w].payload = work[w].payload
        /\ \A v \in Workers \ {w} : work'[v] = work[v]
    BY <1>1, FailedJob
  <1>3. JobFits(w)'
    BY <1>1, <1>2 DEF JobFits
  <1> QED
    BY <1>2, <1>3, WorkStep

(* A call that goes on to another step with the proposals it had. *)
LEMMA NextStep ==
    ASSUME TypeOK, NEW w \in Workers, NEW s \in Steps, work' = [work EXCEPT ![w].step = s]
    PROVE  /\ work' \in [Workers -> Job] /\ work'[w].step = s
           /\ work'[w].row = work[w].row /\ work'[w].payload = work[w].payload
           /\ work'[w].snap = work[w].snap
           /\ \A v \in Workers \ {w} : work'[v] = work[v]
  BY DEF TypeOK, Job

LEMMA EnqueueKeeps ==
    ASSUME IInv, NEW p \in Payloads, NEW r \in Rows, Enqueue(p, r)
    PROVE  IInv'
  <1>0. TypeOK /\ RowsFit /\ JobsFit /\ LogFits /\ AppliedOnce
    BY DEF IInv
  <1> DEFINE new == [NoRow EXCEPT !.status = "pending", !.payload = p, !.ready = TRUE]
  <1>1. /\ new \in Row /\ new.status = "pending" /\ new.payload = p /\ new.snap = NoSnapshot
        /\ new.holder = NoWorker /\ new.lapsed = FALSE
    <2>1. 0 \in 0..MaxAttempts
      BY ExtractionJobsAssumption
    <2>2. new \in Row
      BY <2>1 DEF NoRow, Row
    <2>3. /\ new.status = "pending" /\ new.payload = p /\ new.snap = NoSnapshot
          /\ new.holder = NoWorker
      BY DEF NoRow
    <2>4. new.lapsed = FALSE
      BY Zenon DEF NoRow
    <2> QED
      BY <2>2, <2>3, <2>4
  <1>2. /\ row' \in [Rows -> Row] /\ row'[r] = new /\ \A q \in Rows \ {r} : row'[q] = row[q]
        /\ row[r].status = "none" /\ log' = log /\ work' = work /\ up' = up
        /\ halts' = halts /\ revivals' = revivals
    BY <1>0, <1>1 DEF Enqueue, TypeOK
  <1>3. TypeOK'
    <2>1. \A q \in Rows : /\ row'[q].holder # NoWorker <=> row'[q].status = "processing"
                          /\ row'[q].lapsed => row'[q].status = "processing"
      BY <1>0, <1>1, <1>2 DEF TypeOK
    <2> QED
      BY <1>0, <1>2, <2>1 DEF TypeOK
  <1>4. RowsFit'
    BY <1>0, <1>1, <1>2 DEF RowsFit, RowFits
  <1>5. AppliedOnce' /\ LogFits'
    BY <1>0, <1>2, BatchesStay
  <1>6. ASSUME NEW v \in Workers PROVE JobFits(v)'
    <2>1. \A q \in Rows : KeptFor(v, q)
      BY <1>2 DEF KeptFor
    <2> QED
      BY <1>0, <1>2, <2>1, JobStays DEF JobsFit
  <1> QED
    BY <1>3, <1>4, <1>5, <1>6 DEF IInv, JobsFit

(* Burying the expired leases whose attempts are used up. *)
LEMMA BuriedRows ==
    ASSUME TypeOK, NEW r \in Rows
    PROVE  /\ Buried[r] \in Row
           /\ Buried[r].payload = row[r].payload /\ Buried[r].snap = row[r].snap
           /\ Buried[r].attempts = row[r].attempts
           /\ Buried[r].status = row[r].status \/ Buried[r].status = "dead"
           /\ Buried[r].status = "none" <=> row[r].status = "none"
           /\ row[r].status # "processing" => Buried[r] = row[r]
           /\ Buried[r].holder # NoWorker <=> Buried[r].status = "processing"
           /\ Buried[r].lapsed => Buried[r].status = "processing"
           /\ Buried[r].status = "processing" => Buried[r] = row[r]
  BY ExtractionJobsAssumption, ZenonT(60) DEF TypeOK, Buried, Released, Row

LEMMA ClaimKeeps ==
    ASSUME IInv, NEW w \in Workers, Claim(w)
    PROVE  IInv'
  <1>0. TypeOK /\ RowsFit /\ JobsFit /\ LogFits /\ AppliedOnce
    BY DEF IInv
  <1>1. /\ up /\ work[w] = Idle /\ log' = log /\ up' = up /\ halts' = halts /\ revivals' = revivals
    BY DEF Claim
  <1>2. ASSUME row' = Buried, work' = work PROVE IInv'
    <2>1. \A q \in Rows : row'[q] = Buried[q]
      BY <1>2
    <2>2. row' \in [Rows -> Row]
      BY <1>0, <1>2, BuriedRows DEF Buried
    <2>3. TypeOK'
      BY <1>0, <1>1, <1>2, <2>1, <2>2, BuriedRows DEF TypeOK
    <2>4. RowsFit'
      BY <1>0, <2>1, BuriedRows DEF RowsFit, RowFits
    <2>5. AppliedOnce' /\ LogFits'
      BY <1>0, <1>1, <2>1, BuriedRows, BatchesStay
    <2>6. ASSUME NEW v \in Workers PROVE JobFits(v)'
      <3>1. \A q \in Rows : KeptFor(v, q)
        BY <1>0, <2>1, BuriedRows DEF KeptFor
      <3> QED
        BY <1>0, <1>1, <1>2, <3>1, JobStays DEF JobsFit
    <2> QED
      BY <2>3, <2>4, <2>5, <2>6 DEF IInv, JobsFit
  <1>3. ASSUME NEW r \in Rows, Claimable(r),
               row' = [Buried EXCEPT ![r].status = "processing", ![r].attempts = @ + 1,
                                     ![r].holder = w, ![r].lapsed = FALSE],
               work' = [work EXCEPT ![w] = [Idle EXCEPT !.step = "claimed", !.row = r,
                                                        !.payload = row[r].payload]]
        PROVE  IInv'
    <2> DEFINE old == Buried[r]
               job == [Idle EXCEPT !.step = "claimed", !.row = r, !.payload = row[r].payload]
    <2>1. /\ row[r].status \in {"pending", "processing"} /\ row[r].attempts < MaxAttempts
          /\ row[r].attempts \in Nat /\ row[r].payload \in Payloads \cup {Erased}
      BY <1>0, <1>3 DEF Claimable, TypeOK, Row
    <2>2. Buried \in [Rows -> Row]
      BY <1>0, BuriedRows DEF Buried
    <2>3. /\ row' \in [Rows -> Row]
          /\ row'[r].status = "processing" /\ row'[r].holder = w /\ ~row'[r].lapsed
          /\ row'[r].payload = row[r].payload /\ row'[r].snap = row[r].snap
          /\ \A q \in Rows \ {r} : row'[q] = Buried[q]
      <3>1. /\ old \in Row /\ old.attempts + 1 \in 0..MaxAttempts
            /\ old.payload = row[r].payload /\ old.snap = row[r].snap
        BY <1>0, <2>1, BuriedRows, ExtractionJobsAssumption
      <3> QED
        BY <1>3, <2>2, <3>1 DEF Row
    <2>4. /\ job \in Job /\ job.step = "claimed" /\ job.row = r /\ job.payload = row[r].payload
      <3>1. r \in 0..MaxRows
        BY ExtractionJobsAssumption DEF Rows
      <3>2. "retry" \in Failures /\ "claimed" \in Steps
        BY DEF Failures, Steps
      <3>3. job \in Job
        BY <2>1, <3>1, <3>2 DEF Idle, Job
      <3> QED
        BY <3>3 DEF Idle
    <2>5. /\ work' \in [Workers -> Job] /\ work'[w] = job
          /\ \A v \in Workers \ {w} : work'[v] = work[v]
      BY <1>0, <1>3, <2>4 DEF TypeOK
    <2>6. TypeOK'
      BY <1>0, <1>1, <2>3, <2>5, BuriedRows, ExtractionJobsAssumption DEF TypeOK
    <2>7. RowsFit'
      BY <1>0, <2>3, BuriedRows DEF RowsFit, RowFits
    <2>8. AppliedOnce' /\ LogFits'
      <3>1. \A q \in Rows : row[q].status = "gone" => row'[q] = row[q]
        BY <1>0, <2>1, <2>3, BuriedRows
      <3> QED
        BY <1>0, <1>1, <3>1, BatchesStay
    <2>9. ASSUME NEW v \in Workers PROVE JobFits(v)'
      <3>1. CASE v = w
        BY <1>1, <2>3, <2>4, <2>5, <3>1, ZenonT(60) DEF JobFits
      <3>2. CASE v # w
        <4>1. \A q \in Rows : KeptFor(v, q)
          BY <1>0, <2>3, <3>2, BuriedRows DEF KeptFor
        <4> QED
          BY <1>0, <1>1, <2>5, <3>2, <4>1, JobStays DEF JobsFit
      <3> QED
        BY <3>1, <3>2
    <2> QED
      BY <2>6, <2>7, <2>8, <2>9 DEF IInv, JobsFit
  <1> QED
    BY <1>2, <1>3 DEF Claim

LEMMA LoadKeeps ==
    ASSUME IInv, NEW w \in Workers, Load(w)
    PROVE  IInv'
  <1>0. TypeOK /\ RowsFit /\ JobsFit /\ LogFits /\ AppliedOnce
    BY DEF IInv
  <1> DEFINE j == work[w]
             q == row[j.row]
  <1>1. /\ up /\ j.step = "claimed" /\ JobFits(w) /\ UNCHANGED <<row, log, up, halts, revivals>>
    BY <1>0 DEF Load, At, JobsFit
  <1>2. /\ j.row \in Rows /\ q.status # "none" /\ j.payload = q.payload /\ RowFits(j.row)
        /\ j.payload \in Payloads \cup {Erased} /\ q.snap \in {NoSnapshot} \cup SUBSET Items
    BY <1>0, <1>1 DEF JobFits, RowsFit, TypeOK, Row
  <1>3. ASSUME NEW f \in Failures, work' = Failed(w, f) PROVE IInv'
    BY <1>1, <1>3, FailedKeeps
  <1>4. "retry" \in Failures /\ "permanent" \in Failures
    BY DEF Failures
  <1>5. "prepare" \in Steps /\ "persist" \in Steps /\ "extracting" \in Steps
    BY DEF Steps
  <1>6. ASSUME q.snap # NoSnapshot,
               work' = [work EXCEPT ![w].step = "prepare", ![w].snap = q.snap]
        PROVE  IInv'
    <2>0. PICK s \in {NoSnapshot} \cup SUBSET Items :
            s = q.snap /\ work' = [work EXCEPT ![w].step = "prepare", ![w].snap = s]
      BY <1>2, <1>6
    <2>1. /\ work' \in [Workers -> Job] /\ work'[w].step = "prepare"
          /\ work'[w].row = work[w].row /\ work'[w].payload = work[w].payload
          /\ work'[w].snap = s
          /\ \A v \in Workers \ {w} : work'[v] = work[v]
      BY <1>0, <1>5, <2>0 DEF TypeOK, Job
    <2>2. JobFits(w)'
      BY <1>1, <1>2, <1>6, <2>0, <2>1 DEF JobFits, RowFits
    <2> QED
      BY <1>1, <2>1, <2>2, WorkStep
  <1>7. ASSUME Decodes(j.payload), work' = [work EXCEPT ![w].step = "persist", ![w].snap = {}]
        PROVE  IInv'
    <2>0. PICK s \in {NoSnapshot} \cup SUBSET Items :
            s = {} /\ work' = [work EXCEPT ![w].step = "persist", ![w].snap = s]
      BY <1>7
    <2>1. j.payload \in Payloads /\ Faithful({}, Text[j.payload])
      BY <1>2, <1>7 DEF Decodes, Faithful
    <2>2. /\ work' \in [Workers -> Job] /\ work'[w].step = "persist"
          /\ work'[w].row = work[w].row /\ work'[w].payload = work[w].payload
          /\ work'[w].snap = s
          /\ \A v \in Workers \ {w} : work'[v] = work[v]
      BY <1>0, <1>5, <2>0 DEF TypeOK, Job
    <2>3. JobFits(w)'
      BY <1>1, <1>2, <2>0, <2>1, <2>2 DEF JobFits
    <2> QED
      BY <1>1, <2>2, <2>3, WorkStep
  <1>8. ASSUME Decodes(j.payload), work' = [work EXCEPT ![w].step = "extracting"]
        PROVE  IInv'
    <2>1. j.payload \in Payloads /\ NoSnapshot \in {NoSnapshot} \cup SUBSET Items
      BY <1>2, <1>8 DEF Decodes
    <2>2. /\ work' \in [Workers -> Job] /\ work'[w].step = "extracting" /\ work'[w].row = j.row
          /\ work'[w].payload = j.payload
          /\ \A v \in Workers \ {w} : work'[v] = work[v]
      BY <1>0, <1>5, <1>8, <2>1, NextStep
    <2>3. JobFits(w)'
      BY <1>1, <1>2, <2>1, <2>2 DEF JobFits
    <2> QED
      BY <1>1, <2>2, <2>3, WorkStep
  <1> QED
    BY <1>3, <1>4, <1>6, <1>7, <1>8 DEF Load

LEMMA ExtractKeeps ==
    ASSUME IInv, NEW w \in Workers, Extract(w)
    PROVE  IInv'
  <1>0. TypeOK /\ RowsFit /\ JobsFit /\ LogFits /\ AppliedOnce
    BY DEF IInv
  <1>1. /\ up /\ work[w].step = "extracting" /\ JobFits(w) /\ work[w].payload \in Payloads
        /\ UNCHANGED <<row, log, up, halts, revivals>>
    BY <1>0 DEF Extract, At, JobsFit, JobFits
  <1>2. PICK result \in Results[work[w].payload] :
          work' = IF result.failure # "none" THEN Failed(w, result.failure)
                  ELSE [work EXCEPT ![w].step = "persist", ![w].snap = result.snap]
    BY DEF Extract
  <1>3. /\ result.failure \in Failures \cup {"none"}
        /\ result.failure = "none" => Faithful(result.snap, Text[work[w].payload])
    BY <1>1, ResultsFaithful
  <1>4. CASE result.failure # "none"
    BY <1>1, <1>2, <1>3, <1>4, FailedKeeps
  <1>5. CASE result.failure = "none"
    <2>1. "persist" \in Steps /\ result.snap \in {NoSnapshot} \cup SUBSET Items
      BY <1>3, <1>5 DEF Steps, Faithful
    <2>2. /\ work' \in [Workers -> Job] /\ work'[w].step = "persist"
          /\ work'[w].row = work[w].row /\ work'[w].payload = work[w].payload
          /\ work'[w].snap = result.snap
          /\ \A v \in Workers \ {w} : work'[v] = work[v]
      BY <1>0, <1>2, <1>5, <2>1 DEF TypeOK, Job
    <2>3. JobFits(w)'
      BY <1>1, <1>3, <1>5, <2>2 DEF JobFits
    <2> QED
      BY <1>1, <2>2, <2>3, WorkStep
  <1> QED
    BY <1>4, <1>5

LEMMA RenewFailsKeeps ==
    ASSUME IInv, NEW w \in Workers, RenewFails(w)
    PROVE  IInv'
  <1>0. TypeOK /\ RowsFit /\ JobsFit /\ LogFits /\ AppliedOnce
    BY DEF IInv
  <1>1. work[w].step = "extracting" /\ "retry" \in Failures
    BY DEF RenewFails, At, Failures
  <1> QED
    BY <1>1, FailedKeeps DEF RenewFails

LEMMA PersistSnapshotKeeps ==
    ASSUME IInv, NEW w \in Workers, PersistSnapshot(w)
    PROVE  IInv'
  <1>0. TypeOK /\ RowsFit /\ JobsFit /\ LogFits /\ AppliedOnce
    BY DEF IInv
  <1> DEFINE r == work[w].row
  <1>1. /\ up /\ work[w].step = "persist" /\ JobFits(w) /\ log' = log /\ up' = up
        /\ halts' = halts /\ revivals' = revivals
    BY <1>0 DEF PersistSnapshot, At, JobsFit
  <1>2. /\ r \in Rows /\ row[r].status # "none" /\ work[w].payload = row[r].payload
        /\ work[w].payload \in Payloads /\ Faithful(work[w].snap, Text[work[w].payload])
    BY <1>1 DEF JobFits
  <1>3. CASE ~(HoldsLease(w) /\ row[r].snap = NoSnapshot)
    <2>1. "retry" \in Failures /\ row' = row /\ work' = Failed(w, "retry")
      BY <1>3 DEF PersistSnapshot, Failures
    <2> QED
      BY <1>1, <2>1, FailedKeeps
  <1>4. CASE HoldsLease(w) /\ row[r].snap = NoSnapshot
    <2>1. /\ row' = [row EXCEPT ![r].snap = work[w].snap, ![r].aged = FALSE]
          /\ work' = [work EXCEPT ![w].step = "prepare"]
      BY <1>4 DEF PersistSnapshot
    <2>2. /\ row' \in [Rows -> Row] /\ row'[r].snap = work[w].snap
          /\ row'[r].status = row[r].status /\ row'[r].holder = row[r].holder
          /\ row'[r].payload = row[r].payload /\ row'[r].lapsed = row[r].lapsed
          /\ \A q \in Rows \ {r} : row'[q] = row[q]
      <3>1. work[w].snap \in SUBSET Items
        BY <1>2 DEF Faithful
      <3> QED
        BY <1>0, <1>2, <2>1, <3>1, ZenonT(60) DEF TypeOK, Row
    <2>3. row[r].status = "processing" /\ row[r].holder = w
      BY <1>4 DEF HoldsLease
    <2>4. /\ work' \in [Workers -> Job] /\ work'[w].step = "prepare"
          /\ work'[w].row = r /\ work'[w].payload = work[w].payload
          /\ work'[w].snap = work[w].snap
          /\ \A v \in Workers \ {w} : work'[v] = work[v]
      <3>1. "prepare" \in Steps /\ NoSnapshot \in {NoSnapshot} \cup SUBSET Items
        BY DEF Steps
      <3> QED
        BY <1>0, <2>1, <3>1, NextStep
    <2>5. TypeOK'
      BY <1>0, <1>1, <2>2, <2>4 DEF TypeOK
    <2>6. RowsFit'
      BY <1>0, <1>2, <2>2 DEF RowsFit, RowFits
    <2>7. AppliedOnce' /\ LogFits'
      <3>1. \A q \in Rows : row[q].status = "gone" => row'[q] = row[q]
        BY <2>2, <2>3
      <3> QED
        BY <1>0, <1>1, <3>1, BatchesStay
    <2>8. ASSUME NEW v \in Workers PROVE JobFits(v)'
      <3>1. CASE v = w
        BY <1>1, <1>2, <2>2, <2>4, <3>1 DEF JobFits
      <3>2. CASE v # w
        <4>1. \A q \in Rows : KeptFor(v, q)
          BY <2>2, <2>3, <3>2 DEF KeptFor
        <4> QED
          BY <1>0, <1>1, <2>4, <3>2, <4>1, JobStays DEF JobsFit
      <3> QED
        BY <3>1, <3>2
    <2> QED
      BY <2>5, <2>6, <2>7, <2>8 DEF IInv, JobsFit
  <1> QED
    BY <1>3, <1>4

LEMMA PrepareSnapshotKeeps ==
    ASSUME IInv, NEW w \in Workers, PrepareSnapshot(w)
    PROVE  IInv'
  <1>0. TypeOK /\ RowsFit /\ JobsFit /\ LogFits /\ AppliedOnce
    BY DEF IInv
  <1>1. /\ up /\ work[w].step = "prepare" /\ JobFits(w)
        /\ UNCHANGED <<row, log, up, halts, revivals>>
    BY <1>0 DEF PrepareSnapshot, At, JobsFit
  <1>2. CASE work' = Failed(w, "permanent")
    <2>1. "permanent" \in Failures
      BY DEF Failures
    <2> QED
      BY <1>1, <1>2, <2>1, FailedKeeps
  <1>3. CASE work' = [work EXCEPT ![w].step = "write"]
    <2>1. "write" \in Steps /\ NoSnapshot \in {NoSnapshot} \cup SUBSET Items
      BY DEF Steps
    <2>2. /\ work' \in [Workers -> Job] /\ work'[w].step = "write"
          /\ work'[w].row = work[w].row /\ work'[w].payload = work[w].payload
          /\ work'[w].snap = work[w].snap
          /\ \A v \in Workers \ {w} : work'[v] = work[v]
      BY <1>0, <1>3, <2>1, NextStep
    <2>3. JobFits(w)'
      BY <1>1, <2>2 DEF JobFits, HoldsLease
    <2> QED
      BY <1>1, <2>2, <2>3, WorkStep
  <1> QED
    BY <1>2, <1>3 DEF PrepareSnapshot

LEMMA DeletedRow ==
    ASSUME TypeOK, NEW r \in Rows
    PROVE  /\ Deleted(r) \in Row
           /\ Deleted(r).status = "gone" /\ Deleted(r).payload = row[r].payload
           /\ Deleted(r).snap = row[r].snap /\ Deleted(r).holder = NoWorker
           /\ Deleted(r).lapsed = FALSE
  <1>1. 0 \in 0..MaxAttempts
    BY ExtractionJobsAssumption
  <1>2. row[r].payload \in Payloads \cup {Erased} /\ row[r].snap \in {NoSnapshot} \cup SUBSET Items
    BY DEF TypeOK, Row
  <1>3. Deleted(r) \in Row
    BY <1>1, <1>2 DEF Deleted, NoRow, Row
  <1>4. /\ Deleted(r).status = "gone" /\ Deleted(r).payload = row[r].payload
        /\ Deleted(r).snap = row[r].snap /\ Deleted(r).holder = NoWorker
    BY DEF Deleted, NoRow
  <1>5. Deleted(r).lapsed = FALSE
    BY Zenon DEF Deleted, NoRow
  <1> QED
    BY <1>3, <1>4, <1>5

(* The transaction that ends with the deletion of the row: the rest of the *)
(* invariant, whatever it logs.                                            *)
LEMMA DeletionKeeps ==
    ASSUME IInv, NEW w \in Workers, work[w].step = "write", HoldsLease(w),
           row' = [row EXCEPT ![work[w].row] = Deleted(work[w].row)],
           work' = [work EXCEPT ![w] = Idle], UNCHANGED <<up, halts, revivals>>
    PROVE  /\ work[w].row \in Rows /\ row[work[w].row].status = "processing"
           /\ row'[work[w].row] = Deleted(work[w].row)
           /\ \A q \in Rows \ {work[w].row} : row'[q] = row[q]
           /\ log' \subseteq Batch => TypeOK'
           /\ RowsFit' /\ JobsFit'
  <1>0. TypeOK /\ RowsFit /\ JobsFit /\ LogFits /\ AppliedOnce
    BY DEF IInv
  <1> DEFINE r == work[w].row
  <1>1. JobFits(w) /\ r \in Rows /\ row[r].status = "processing" /\ row[r].holder = w
    BY <1>0 DEF JobsFit, JobFits, HoldsLease
  <1>2. /\ row' \in [Rows -> Row] /\ row'[r] = Deleted(r) /\ \A q \in Rows \ {r} : row'[q] = row[q]
    BY <1>0, <1>1, DeletedRow DEF TypeOK
  <1>3. Idle \in Job /\ Idle.step = "idle"
    BY ExtractionJobsAssumption DEF Idle, Job, Steps, Failures
  <1>4. /\ work' \in [Workers -> Job] /\ work'[w] = Idle
        /\ \A v \in Workers \ {w} : work'[v] = work[v]
    BY <1>0, <1>3 DEF TypeOK
  <1>5. ASSUME log' \subseteq Batch PROVE TypeOK'
    <2>1. \A q \in Rows : /\ row'[q].holder # NoWorker <=> row'[q].status = "processing"
                          /\ row'[q].lapsed => row'[q].status = "processing"
      BY <1>0, <1>1, <1>2, DeletedRow DEF TypeOK
    <2> QED
      BY <1>0, <1>2, <1>4, <1>5, <2>1 DEF TypeOK
  <1>6. RowsFit'
    BY <1>0, <1>1, <1>2, DeletedRow DEF RowsFit, RowFits
  <1>7. ASSUME NEW v \in Workers PROVE JobFits(v)'
    <2>1. CASE v = w
      BY <1>3, <1>4, <2>1 DEF JobFits
    <2>2. CASE v # w
      <3>1. \A q \in Rows : KeptFor(v, q)
        BY <1>0, <1>1, <1>2, DeletedRow DEF KeptFor
      <3> QED
        BY <1>0, <1>4, <2>2, <3>1, JobStays DEF JobsFit
    <2> QED
      BY <2>1, <2>2
  <1> QED
    BY <1>1, <1>2, <1>5, <1>6, <1>7 DEF JobsFit

LEMMA WriteBatchKeeps ==
    ASSUME IInv, NEW w \in Workers, WriteBatch(w)
    PROVE  IInv'
  <1>0. TypeOK /\ RowsFit /\ JobsFit /\ LogFits /\ AppliedOnce
    BY DEF IInv
  <1> DEFINE r == work[w].row
             new == ThisBatch(w)
  <1>1. /\ up /\ work[w].step = "write" /\ HoldsLease(w) /\ Requests(w) # {} /\ ~Clashes(w)
        /\ log' = log \cup {new} /\ row' = [row EXCEPT ![r] = Deleted(r)]
        /\ work' = [work EXCEPT ![w] = Idle] /\ UNCHANGED <<up, halts, revivals>>
    BY DEF WriteBatch, At
  <1>2. /\ r \in Rows /\ row[r].status = "processing" /\ row'[r] = Deleted(r)
        /\ \A q \in Rows \ {r} : row'[q] = row[q]
        /\ log' \subseteq Batch => TypeOK'
        /\ RowsFit' /\ JobsFit'
    BY <1>1, DeletionKeeps
  <1>3. /\ work[w].payload \in Payloads /\ work[w].payload = row[r].payload
        /\ Faithful(work[w].snap, Text[work[w].payload]) /\ work[w].snap = row[r].snap
    BY <1>0, <1>1 DEF JobsFit, JobFits
  <1>4. new.payload = work[w].payload /\ new.snap = work[w].snap /\ new.row = r
    BY DEF ThisBatch
  <1>5. new \in Batch
    <2>1. work[w].snap # {}
      BY <1>1 DEF Requests, Prepared
    <2>2. work[w].snap \in SUBSET Items
      BY <1>3 DEF Faithful
    <2> QED
      BY <1>2, <1>3, <2>1, <2>2 DEF ThisBatch, Batch
  <1>6. log' \subseteq Batch
    BY <1>0, <1>1, <1>5 DEF TypeOK
  <1>7. LogFits'
    BY <1>0, <1>1, <1>3, <1>4 DEF LogFits
  <1>8. \A b \in log : b.row \in Rows /\ b.row # r /\ row'[b.row] = row[b.row]
    BY <1>0, <1>2 DEF TypeOK, Batch, AppliedOnce
  <1>9. \A b \in log : ~(b.payload = new.payload /\ b.snap = new.snap)
    BY <1>1, <1>4, <1>8 DEF Clashes
  <1>10. AppliedOnce'
    <2> SUFFICES ASSUME NEW b \in log'
                 PROVE  /\ row'[b.row].status = "gone"
                        /\ row'[b.row].snap = b.snap /\ row'[b.row].payload = b.payload
                        /\ \A c \in log' :
                             c.row = b.row \/ (c.payload = b.payload /\ c.snap = b.snap) => c = b
      BY DEF AppliedOnce
    <2>1. CASE b \in log
      BY <1>0, <1>1, <1>4, <1>8, <1>9, <2>1 DEF AppliedOnce
    <2>2. CASE b = new
      <3>1. /\ row'[r].status = "gone" /\ row'[r].snap = new.snap
            /\ row'[r].payload = new.payload
        BY <1>0, <1>2, <1>3, <1>4, DeletedRow
      <3>2. ASSUME NEW c \in log', c.row = new.row \/ (c.payload = new.payload /\ c.snap = new.snap)
            PROVE  c = new
        BY <1>1, <1>4, <1>8, <1>9, <3>2
      <3> QED
        BY <1>4, <2>2, <3>1, <3>2
    <2> QED
      BY <1>1, <2>1, <2>2
  <1> QED
    BY <1>2, <1>6, <1>7, <1>10 DEF IInv

LEMMA CompleteKeeps ==
    ASSUME IInv, NEW w \in Workers, Complete(w)
    PROVE  IInv'
  <1>0. TypeOK /\ RowsFit /\ JobsFit /\ LogFits /\ AppliedOnce
    BY DEF IInv
  <1> DEFINE r == work[w].row
  <1>1. /\ up /\ work[w].step = "write" /\ HoldsLease(w) /\ log' = log
        /\ row' = [row EXCEPT ![r] = Deleted(r)]
        /\ work' = [work EXCEPT ![w] = Idle] /\ UNCHANGED <<up, halts, revivals>>
    BY DEF Complete, At
  <1>2. /\ r \in Rows /\ row[r].status = "processing"
        /\ \A q \in Rows \ {r} : row'[q] = row[q]
        /\ log' \subseteq Batch => TypeOK'
        /\ RowsFit' /\ JobsFit'
    BY <1>1, DeletionKeeps
  <1>3. TypeOK'
    BY <1>0, <1>1, <1>2 DEF TypeOK
  <1>4. AppliedOnce' /\ LogFits'
    <2>1. \A q \in Rows : row[q].status = "gone" => row'[q] = row[q]
      BY <1>2
    <2> QED
      BY <1>0, <1>1, <2>1, BatchesStay
  <1> QED
    BY <1>2, <1>3, <1>4 DEF IInv

LEMMA WriteFailsKeeps ==
    ASSUME IInv, NEW w \in Workers, WriteFails(w)
    PROVE  IInv'
  <1>1. work[w].step = "write" /\ "retry" \in Failures
    BY DEF WriteFails, At, Failures
  <1> QED
    BY <1>1, FailedKeeps DEF WriteFails

LEMMA FailKeeps ==
    ASSUME IInv, NEW w \in Workers, Fail(w)
    PROVE  IInv'
  <1>0. TypeOK /\ RowsFit /\ JobsFit /\ LogFits /\ AppliedOnce
    BY DEF IInv
  <1> DEFINE r == work[w].row
             f == work[w].failure
             status == IF GivesUp(r, f) THEN "dead" ELSE "pending"
             new == [Released(r, status, FALSE) EXCEPT !.attempts = AttemptsAfter(r, f)]
  <1>1. /\ up /\ work[w].step = "fail" /\ JobFits(w) /\ r \in Rows
        /\ work' = [work EXCEPT ![w] = Idle]
        /\ UNCHANGED <<log, up, halts, revivals>>
    BY <1>0 DEF Fail, At, JobsFit, JobFits
  <1>2. Idle \in Job /\ Idle.step = "idle"
    BY ExtractionJobsAssumption DEF Idle, Job, Steps, Failures
  <1>3. /\ work' \in [Workers -> Job] /\ work'[w] = Idle
        /\ \A v \in Workers \ {w} : work'[v] = work[v]
    BY <1>0, <1>1, <1>2 DEF TypeOK
  <1>4. JobFits(w)'
    BY <1>2, <1>3 DEF JobFits
  <1>5. CASE ~HoldsLease(w)
    <2>1. row' = row
      BY <1>5 DEF Fail
    <2> QED
      BY <1>1, <1>3, <1>4, <2>1, WorkStep
  <1>6. CASE HoldsLease(w)
    <2>1. row' = [row EXCEPT ![r] = new]
      BY <1>6 DEF Fail
    <2>2. row[r] \in Row /\ AttemptsAfter(r, f) \in 0..MaxAttempts
      BY <1>0, <1>1, ExtractionJobsAssumption DEF TypeOK, Row, AttemptsAfter
    <2>3. /\ new \in Row /\ new.status \in {"dead", "pending"} /\ new.holder = NoWorker
          /\ new.lapsed = FALSE /\ new.payload = row[r].payload /\ new.snap = row[r].snap
      <3>1. Released(r, status, FALSE) \in Row
        BY <2>2 DEF Released, Row
      <3>2. new \in Row
        BY <2>2, <3>1, ZenonT(60) DEF Row
      <3>3. /\ new.status = status /\ new.holder = NoWorker
            /\ new.payload = row[r].payload /\ new.snap = row[r].snap
        BY <2>2 DEF Released, Row
      <3>4. new.lapsed = FALSE
        BY <2>2 DEF Released, Row
      <3> QED
        BY <3>2, <3>3, <3>4
    <2>4. /\ row' \in [Rows -> Row] /\ row'[r] = new /\ \A q \in Rows \ {r} : row'[q] = row[q]
      BY <1>0, <1>1, <2>1, <2>3 DEF TypeOK
    <2>5. row[r].status = "processing" /\ row[r].holder = w
      BY <1>6 DEF HoldsLease
    <2> HIDE DEF new
    <2>6. TypeOK'
      <3>1. \A q \in Rows : /\ row'[q].holder # NoWorker <=> row'[q].status = "processing"
                            /\ row'[q].lapsed => row'[q].status = "processing"
        BY <1>0, <1>1, <2>3, <2>4 DEF TypeOK
      <3> QED
        BY <1>0, <1>1, <1>3, <2>4, <3>1 DEF TypeOK
    <2>7. RowsFit'
      BY <1>0, <1>1, <2>3, <2>4 DEF RowsFit, RowFits
    <2>8. AppliedOnce' /\ LogFits'
      <3>1. \A q \in Rows : row[q].status = "gone" => row'[q] = row[q]
        BY <2>4, <2>5
      <3> QED
        BY <1>0, <1>1, <3>1, BatchesStay
    <2>9. ASSUME NEW v \in Workers \ {w} PROVE JobFits(v)'
      <3>1. \A q \in Rows : KeptFor(v, q)
        BY <1>1, <2>3, <2>4 DEF KeptFor
      <3> QED
        BY <1>0, <1>1, <1>3, <3>1, JobStays DEF JobsFit
    <2> QED
      BY <1>4, <2>6, <2>7, <2>8, <2>9 DEF IInv, JobsFit
  <1> QED
    BY <1>5, <1>6

-----------------------------------------------------------------------------
(* Steps of time, the daemon and the operator.                             *)

LEMMA TimeKeeps ==
    ASSUME IInv, NEW r \in Rows, LeaseLapses(r) \/ BackoffEnds(r) \/ Ages(r)
    PROVE  IInv'
  <1>1. TypeOK
    BY DEF IInv
  <1>2. UNCHANGED <<log, work, up, halts, revivals>>
    BY DEF LeaseLapses, BackoffEnds, Ages
  <1>3. /\ row' \in [Rows -> Row] /\ \A q \in Rows \ {r} : row'[q] = row[q]
        /\ row'[r].status = row[r].status /\ row'[r].holder = row[r].holder
        /\ row'[r].payload = row[r].payload /\ row'[r].snap = row[r].snap
        /\ row[r].status \in {"pending", "processing"}
        /\ row'[r].lapsed => row[r].status = "processing"
    <2>1. CASE LeaseLapses(r)
      BY <1>1, <2>1, ZenonT(60) DEF LeaseLapses, TypeOK, Row
    <2>2. CASE BackoffEnds(r)
      BY <1>1, <2>2, ZenonT(60) DEF BackoffEnds, TypeOK, Row
    <2>3. CASE Ages(r)
      <3>1. /\ row' = [row EXCEPT ![r].aged = TRUE] /\ row[r] \in Row
            /\ row[r].status \in {"pending", "processing"}
            /\ row[r].lapsed => row[r].status = "processing"
        BY <1>1, <2>3 DEF Ages, TypeOK
      <3>2. row' \in [Rows -> Row]
        BY <1>1, <3>1 DEF TypeOK, Row
      <3>3. /\ \A q \in Rows \ {r} : row'[q] = row[q]
            /\ row'[r].status = row[r].status /\ row'[r].holder = row[r].holder
            /\ row'[r].payload = row[r].payload /\ row'[r].snap = row[r].snap
            /\ row'[r].lapsed = row[r].lapsed
        BY <1>1, <3>1 DEF TypeOK, Row
      <3> QED
        BY <3>1, <3>2, <3>3
    <2> QED
      BY <2>1, <2>2, <2>3
  <1>4. \A q \in Rows :
          /\ row[q].status = "gone" => row'[q] = row[q]
          /\ row'[q].status = "none" <=> row[q].status = "none"
          /\ row'[q].status = "processing" <=> row[q].status = "processing"
          /\ row'[q].holder = row[q].holder
          /\ row'[q].payload = row[q].payload /\ row'[q].snap = row[q].snap
          /\ row'[q].lapsed => row'[q].status = "processing"
    BY <1>1, <1>3 DEF TypeOK
  <1>5. halts' \in 0..MaxHalts /\ revivals' \in 0..MaxRevivals
    BY <1>1, <1>2 DEF TypeOK
  <1> QED
    BY <1>2, <1>3, <1>4, <1>5, RowStep

LEMMA HaltKeeps ==
    ASSUME IInv, Halt
    PROVE  IInv'
  <1>0. TypeOK /\ RowsFit /\ JobsFit /\ LogFits /\ AppliedOnce
    BY DEF IInv
  <1>1. /\ work' = [w \in Workers |-> Idle] /\ up' = FALSE
        /\ halts' \in 0..MaxHalts /\ UNCHANGED <<row, log, revivals>>
    BY <1>0, ExtractionJobsAssumption DEF Halt, TypeOK
  <1>2. Idle \in Job /\ Idle.step = "idle"
    BY ExtractionJobsAssumption DEF Idle, Job, Steps, Failures
  <1>3. TypeOK'
    BY <1>0, <1>1, <1>2 DEF TypeOK
  <1>4. RowsFit' /\ LogFits' /\ AppliedOnce'
    BY <1>0, <1>1 DEF RowsFit, RowFits, LogFits, AppliedOnce
  <1>5. JobsFit'
    BY <1>1, <1>2 DEF JobsFit, JobFits
  <1> QED
    BY <1>3, <1>4, <1>5 DEF IInv

(* The daemon starts with no call in progress. *)
LEMMA StartKeeps ==
    ASSUME IInv, Start
    PROVE  IInv'
  <1>0. TypeOK /\ RowsFit /\ JobsFit /\ LogFits /\ AppliedOnce
    BY DEF IInv
  <1>1. ~up /\ up' = TRUE /\ UNCHANGED <<row, log, work, halts, revivals>>
    BY DEF Start
  <1>2. TypeOK'
    BY <1>0, <1>1 DEF TypeOK
  <1>3. RowsFit' /\ LogFits' /\ AppliedOnce'
    BY <1>0, <1>1 DEF RowsFit, RowFits, LogFits, AppliedOnce
  <1>4. JobsFit'
    BY <1>0, <1>1 DEF JobsFit, JobFits, HoldsLease
  <1> QED
    BY <1>2, <1>3, <1>4 DEF IInv

LEMMA OperatorKeeps ==
    ASSUME IInv, NEW r \in Rows, Revive(r) \/ Acknowledge(r)
    PROVE  IInv'
  <1>1. TypeOK
    BY DEF IInv
  <1>2. /\ UNCHANGED <<log, work, up>> /\ row[r].status \in {"dead", "acknowledged"}
        /\ halts' \in 0..MaxHalts /\ revivals' \in 0..MaxRevivals
    <2>1. CASE Revive(r)
      BY <1>1, <2>1, ExtractionJobsAssumption DEF Revive, TypeOK
    <2>2. CASE Acknowledge(r)
      BY <1>1, <2>2 DEF Acknowledge, TypeOK
    <2> QED
      BY <2>1, <2>2
  <1>3. /\ row' \in [Rows -> Row] /\ \A q \in Rows \ {r} : row'[q] = row[q]
        /\ row'[r].status \in {"pending", "acknowledged"} /\ row'[r].holder = row[r].holder
        /\ row'[r].payload = row[r].payload /\ row'[r].snap = row[r].snap
        /\ ~row'[r].lapsed
    <2>1. row[r].holder = NoWorker /\ row[r].lapsed = FALSE /\ row[r] \in Row
      BY <1>1, <1>2 DEF TypeOK, Row
    <2>2. CASE Revive(r)
      <3> DEFINE new == [Released(r, "pending", TRUE) EXCEPT !.attempts = 0]
      <3>1. 0 \in 0..MaxAttempts
        BY ExtractionJobsAssumption
      <3>2. Released(r, "pending", TRUE) \in Row
        BY <2>1 DEF Released, Row
      <3>3. new \in Row
        BY <3>1, <3>2 DEF Row
      <3>4. /\ new.status = "pending" /\ new.holder = NoWorker
            /\ new.payload = row[r].payload /\ new.snap = row[r].snap
        BY <2>1 DEF Released, Row
      <3>5. new.lapsed = FALSE
        BY <2>1 DEF Released, Row
      <3>6. row' = [row EXCEPT ![r] = new]
        BY <2>2 DEF Revive
      <3> HIDE DEF new
      <3> QED
        BY <1>1, <2>1, <3>3, <3>4, <3>5, <3>6 DEF TypeOK
    <2>3. CASE Acknowledge(r)
      BY <1>1, <2>1, <2>3 DEF Acknowledge, TypeOK, Row
    <2> QED
      BY <2>2, <2>3
  <1>4. \A q \in Rows :
          /\ row[q].status = "gone" => row'[q] = row[q]
          /\ row'[q].status = "none" <=> row[q].status = "none"
          /\ row'[q].status = "processing" <=> row[q].status = "processing"
          /\ row'[q].holder = row[q].holder
          /\ row'[q].payload = row[q].payload /\ row'[q].snap = row[q].snap
          /\ row'[q].lapsed => row'[q].status = "processing"
    BY <1>1, <1>2, <1>3 DEF TypeOK
  <1> QED
    BY <1>2, <1>3, <1>4, RowStep

(* Erasure finds no worker at work: the daemon is down. *)
LEMMA EraseMemoryKeeps ==
    ASSUME IInv, NEW b \in log, EraseMemory(b)
    PROVE  IInv'
  <1>0. TypeOK /\ RowsFit /\ JobsFit /\ LogFits /\ AppliedOnce
    BY DEF IInv
  <1>1. ~up /\ row' = [r \in Rows |-> ErasedRow(r, b)] /\ UNCHANGED <<log, work, up, halts, revivals>>
    BY DEF EraseMemory
  <1>2. ASSUME NEW r \in Rows
        PROVE  /\ row'[r] \in Row
               /\ row[r].status = "gone" => row'[r] = row[r]
               /\ row'[r].status = row[r].status /\ row'[r].holder = row[r].holder
               /\ row'[r].lapsed = row[r].lapsed
               /\ row'[r] = row[r] \/ row'[r].snap = NoSnapshot
    <2>1. row[r] \in Row /\ row'[r] = ErasedRow(r, b)
      BY <1>0, <1>1 DEF TypeOK
    <2>2. CASE ErasedRow(r, b) = row[r]
      BY <2>1, <2>2
    <2>3. CASE ErasedRow(r, b) = [row[r] EXCEPT !.payload = Erased, !.snap = NoSnapshot]
      <3>1. row[r].status = "gone" => ErasedRow(r, b) = row[r]
        BY DEF ErasedRow
      <3>2. row'[r] = [row[r] EXCEPT !.payload = Erased, !.snap = NoSnapshot]
        BY <2>1, <2>3
      <3>3. row'[r] \in Row
        BY <2>1, <3>2 DEF Row
      <3>4. /\ row'[r].status = row[r].status /\ row'[r].holder = row[r].holder
            /\ row'[r].lapsed = row[r].lapsed /\ row'[r].snap = NoSnapshot
        BY <2>1, <3>2 DEF Row
      <3> QED
        BY <2>1, <3>1, <3>3, <3>4
    <2> QED
      BY <2>2, <2>3 DEF ErasedRow
  <1>3. row' \in [Rows -> Row]
    BY <1>1, <1>2
  <1>4. TypeOK'
    BY <1>0, <1>1, <1>2, <1>3 DEF TypeOK
  <1>5. RowsFit'
    BY <1>0, <1>2 DEF RowsFit, RowFits
  <1>6. AppliedOnce' /\ LogFits'
    BY <1>0, <1>1, <1>2, BatchesStay
  <1>7. JobsFit'
    BY <1>0, <1>1 DEF JobsFit, JobFits
  <1> QED
    BY <1>4, <1>5, <1>6, <1>7 DEF IInv

-----------------------------------------------------------------------------
LEMMA StepsKeep == IInv /\ [Next]_vars => IInv'
  <1> SUFFICES ASSUME IInv, [Next]_vars PROVE IInv'
    OBVIOUS
  <1>1. CASE UNCHANGED vars
    BY <1>1 DEF IInv, TypeOK, RowsFit, RowFits, JobsFit, JobFits, HoldsLease, LogFits,
                AppliedOnce, vars
  <1>2. ASSUME NEW w \in Workers, Work(w) PROVE IInv'
    BY <1>2, ClaimKeeps, LoadKeeps, ExtractKeeps, RenewFailsKeeps, PersistSnapshotKeeps,
       PrepareSnapshotKeeps, WriteBatchKeeps, CompleteKeeps, WriteFailsKeeps, FailKeeps DEF Work
  <1> QED
    BY <1>1, <1>2, EnqueueKeeps, TimeKeeps, HaltKeeps, StartKeeps, OperatorKeeps, EraseMemoryKeeps
       DEF Next

(* Rows, leases, proposals and the write log stay in step through crashes, *)
(* takeovers, retries, revivals and erasures.                              *)
THEOREM ExtractionInvariant == Spec => []IInv
  BY InitIInv, StepsKeep, PTL DEF Spec

(* A queue row is applied by at most one transaction, and the same         *)
(* proposals of the same transcript through one row only.                  *)
THEOREM RowsApplyOnce == Spec => []AppliedOnce
  <1>1. IInv => AppliedOnce
    BY DEF IInv
  <1> QED
    BY <1>1, ExtractionInvariant, PTL

(* Rows, leases and what workers hold fit together, also after erasure.    *)
THEOREM RowsStaySound == Spec => []RowsSound
  <1>1. IInv => RowsSound
    <2> SUFFICES ASSUME IInv PROVE ErasedTextStaysOut
      BY DEF IInv, RowsSound
    <2>1. ASSUME NEW w \in Workers, work[w].row # 0, row[work[w].row].payload = Erased
          PROVE  work[w].payload = Erased
      <3>1. work[w].step # "idle"
        BY <2>1 DEF IInv, JobsFit, JobFits, Idle
      <3> QED
        BY <2>1, <3>1 DEF IInv, JobsFit, JobFits
    <2>2. ASSUME NEW r \in Rows, row[r].payload = Erased PROVE row[r].snap = NoSnapshot
      BY <2>2, ExtractionJobsAssumption DEF IInv, RowsFit, RowFits
    <2> QED
      BY <2>1, <2>2 DEF ErasedTextStaysOut
  <1> QED
    BY <1>1, ExtractionInvariant, PTL

(* What a batch writes was said by the user and is no secret or task, and  *)
(* only supported claims enter the fact table, for any transcripts, model  *)
(* answers and failures.                                                   *)
THEOREM OnlyWhatWasSaid == Spec => []WrittenAsSaid
  <1>1. IInv => WrittenAsSaid
    <2> SUFFICES ASSUME IInv, NEW b \in log, NEW request \in Prepared(b.snap, Text[b.payload])
                 PROVE  /\ \E span \in Spans(Text[b.payload]) :
                             span.id = request.proposal.quote /\ span.role = "user"
                        /\ request.proposal.content \notin {"secret", "task", "echo"}
                        /\ request.slot => request.proposal.claim = "supported"
      BY DEF WrittenAsSaid
    <2>1. Faithful(b.snap, Text[b.payload])
      BY DEF IInv, LogFits
    <2> QED
      BY <2>1, FaithfulIsSaid
  <1> QED
    BY <1>1, ExtractionInvariant, PTL
=============================================================================
