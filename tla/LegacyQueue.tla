---------------------------- MODULE LegacyQueue -----------------------------
(***************************************************************************)
(* The in-process (v0) provider's extraction path: a persistent queue of   *)
(* transcripts in the fact database, drained by a worker thread in each    *)
(* process that has the provider open (the agent and an MCP server can     *)
(* both have it).  Claims are leases without a heartbeat, a re-initialised *)
(* provider leaves its old worker behind, and any process may be killed.   *)
(*                                                                         *)
(* A worker is named by its process and the provider's generation; a lease *)
(* by the worker that took it, since next_pending draws a fresh owner for  *)
(* every claim and a worker has at most one.                               *)
(***************************************************************************)
EXTENDS Legacy, Integers, SequencesExt

CONSTANTS
    Transcripts,
    Extractions,    \* proposal lists the model may answer, without credentials and
                    \* ephemera, which insert_facts drops
    MaxRows,        \* bound on queue rows ever enqueued
    MaxAttempts,    \* _queue_max_attempts
    MaxGeneration,  \* bound on initialisations of one process
    Chances         \* bounds on what the world does, one of which is chosen

Rows == 1..MaxRows

Workers == Processes \X (1..MaxGeneration)

(* What the world may do: each kind but quota is used up; with quota there *)
(* are quota windows and rows grow old.                                    *)
QueueEvents == {"enqueue", "reinit", "crash", "lapse", "markfail", "add", "remove", "revive",
                "quota", "unchecked", "blind"}

ASSUME LegacyQueueAssumption ==
    /\ MaxRows \in Nat \ {0} /\ MaxAttempts \in Nat \ {0} /\ MaxGeneration \in Nat \ {0}
    /\ \A e \in Extractions : e \in Seq(Texts)
    /\ \A x, y \in Texts : /\ <<x, y>> \in Near => <<y, x>> \in Near
                           /\ <<x, y>> \in Updates => <<y, x>> \in Updates
    /\ None \notin Workers /\ None \notin Extractions
    /\ Chances \subseteq [QueueEvents -> Nat]

VARIABLES
    rows,        \* the extract_queue table
    texts,       \* text -> absent, active or retired
    checked,     \* texts stored after a search, under the lock, that found no restatement
    removed,     \* texts a user removed or rewrote
    writer,      \* worker inside the cross-process write lock, or None
    generation,  \* process -> generation of its provider, 0 when it is down
    serving,     \* processes whose initialize() has returned
    closed,      \* workers whose store connection was closed
    workers,     \* worker -> where its drain loop is
    memory,      \* process -> row -> _queue_mem_attempts
    chances      \* what the world may still do

queueVars == <<rows, texts, checked, removed, writer, generation, serving, closed, workers, memory, chances>>

NoRow == [status |-> "none", transcript |-> None, attempts |-> 0, lease |-> None,
          lapsed |-> FALSE, deferred |-> FALSE, old |-> FALSE, error |-> "none",
          proposals |-> None]

Gone == [pc |-> "gone", row |-> 0, facts |-> <<>>, todo |-> <<>>, error |-> "none"]

Idle == [Gone EXCEPT !.pc = "idle"]

QueueTypeOK ==
    /\ rows \in [Rows ->
         [status : {"none", "pending", "processing", "dead", "done"},
          transcript : Transcripts \cup {None}, attempts : 0..MaxAttempts,
          lease : Workers \cup {None}, lapsed : BOOLEAN, deferred : BOOLEAN,
          old : BOOLEAN, error : {"none", "error", "quota"},
          proposals : Extractions \cup {None}]]
    /\ texts \in [Texts -> {"absent", "active", "retired"}]
    /\ checked \subseteq Texts
    /\ removed \subseteq Texts
    /\ writer \in Workers \cup {None}
    /\ generation \in [Processes -> 0..MaxGeneration]
    /\ serving \subseteq Processes
    /\ closed \subseteq Workers
    /\ \A w \in Workers :
         /\ workers[w].pc \in {"gone", "idle", "claimed", "extracted", "saved",
                               "inserting", "storing", "blind", "inserted", "failing"}
         /\ workers[w].row \in 0..MaxRows
         /\ workers[w].facts \in Seq(Texts) /\ workers[w].todo \in Seq(Texts)
         /\ workers[w].error \in {"none", "error", "quota"}
    /\ memory \in [Processes -> [Rows -> 0..MaxAttempts]]
    /\ chances \in [QueueEvents -> Nat]

(* A database that an earlier release may have left rows in which quota    *)
(* errors had killed.                                                      *)
QueueInit ==
    /\ chances \in Chances
    /\ \E t \in Transcripts : rows = [r \in Rows |->
         IF r = 1 /\ chances["revive"] > 0
         THEN [NoRow EXCEPT !.status = "dead", !.transcript = t,
                            !.attempts = MaxAttempts, !.error = "quota"]
         ELSE NoRow]
    /\ texts = [x \in Texts |-> "absent"]
    /\ checked = {}
    /\ removed = {}
    /\ writer = None
    /\ generation = [p \in Processes |-> 0]
    /\ serving = {}
    /\ closed = {}
    /\ workers = [w \in Workers |-> Gone]
    /\ memory = [p \in Processes |-> [r \in Rows |-> 0]]

ActiveRow(r) == rows[r].status \in {"pending", "processing"}

Stale(w) == generation[w[1]] # w[2]

At(w, pc) == workers[w].pc = pc

Go(w, pc) == workers' = [workers EXCEPT ![w].pc = pc]

Leave(w) == workers' = [workers EXCEPT ![w] = Gone]

Happens(kind) == chances[kind] > 0 /\ chances' = [chances EXCEPT ![kind] = @ - 1]

(* The lease fence: the row is still processing under this very claim.     *)
Holds(w) ==
    LET row == rows[workers[w].row] IN row.status = "processing" /\ row.lease = w

Unleased(row) == [row EXCEPT !.lease = None, !.lapsed = FALSE]

-----------------------------------------------------------------------------
(* The queue table.                                                        *)

Enqueue(p, t) ==
    /\ p \in serving
    /\ Happens("enqueue")
    /\ ~\E r \in Rows : ActiveRow(r) /\ rows[r].transcript = t
    /\ \E r \in Rows :
         /\ rows[r].status = "none" /\ \A s \in 1..(r - 1) : rows[s].status # "none"
         /\ rows' = [rows EXCEPT ![r] = [NoRow EXCEPT !.status = "pending", !.transcript = t]]
    /\ UNCHANGED <<texts, checked, removed, writer, generation, serving, closed, workers, memory>>

(* Mutated form of Revivable: other rows of the transcript are ignored.    *)
RevivableAlways(r) == rows[r].status = "dead"

Revivable(r) ==
    /\ rows[r].status = "dead"
    /\ \A s \in Rows : rows[s].transcript = rows[r].transcript =>
         ~ActiveRow(s) /\ (rows[s].status = "dead" => r <= s)

Revived(ids) ==
    [r \in Rows |->
       IF r \in ids /\ Revivable(r)
       THEN [Unleased(rows[r]) EXCEPT !.status = "pending", !.attempts = 0, !.deferred = FALSE]
       ELSE rows[r]]

(* Dead rows young enough that a quota error killed: revived at start-up.  *)
RecentQuotaDead == {r \in Rows : ~rows[r].old /\ rows[r].error = "quota"}

ReviveDead ==
    /\ Happens("revive")
    /\ \E ids \in {Rows} \cup {{r} : r \in Rows} :
         rows' = Revived(ids) /\ rows' # rows
    /\ UNCHANGED <<texts, checked, removed, writer, generation, serving, closed, workers, memory>>

(* Mutated form of Due: a row in processing is never taken over.           *)
DueUnleased(w) ==
    {r \in Rows : /\ rows[r].attempts < MaxAttempts /\ ~rows[r].deferred
                  /\ rows[r].status = "pending"
                  /\ memory[w[1]][r] < MaxAttempts}

Due(w) ==
    {r \in Rows : /\ rows[r].attempts < MaxAttempts
                  /\ ~rows[r].deferred
                  /\ \/ rows[r].status = "pending"
                     \/ rows[r].status = "processing" /\ rows[r].lapsed
                  /\ memory[w[1]][r] < MaxAttempts}

(* next_pending: the oldest due row that this process has not given up on. *)
Claim(w) ==
    /\ At(w, "idle") /\ ~Stale(w)
    /\ \E r \in Due(w) :
         /\ \A s \in Due(w) : r <= s
         /\ rows' = [rows EXCEPT ![r].status = "processing", ![r].lease = w, ![r].lapsed = FALSE]
         /\ workers' = [workers EXCEPT ![w] = [Idle EXCEPT !.pc = "claimed", !.row = r]]
    /\ UNCHANGED <<texts, checked, removed, writer, generation, serving, closed, memory, chances>>

-----------------------------------------------------------------------------
(* One row in _drain_extract_queue.                                        *)

(* Stored proposals are replayed; otherwise the model is asked, outside    *)
(* every lock, and answers, fails or meets its quota.                      *)
Extract(w) ==
    /\ At(w, "claimed")
    /\ \/ /\ rows[workers[w].row].proposals # None
          /\ workers' = [workers EXCEPT ![w].pc = "saved",
                                        ![w].facts = rows[workers[w].row].proposals]
       \/ /\ rows[workers[w].row].proposals = None
          /\ \E answer \in Extractions :
               workers' = [workers EXCEPT ![w].pc = "extracted", ![w].facts = answer]
       \/ /\ rows[workers[w].row].proposals = None
          /\ \E e \in {"error"} \cup (IF chances["quota"] > 0 THEN {"quota"} ELSE {}) :
               workers' = [workers EXCEPT ![w].pc = "failing", ![w].error = e]
    /\ UNCHANGED <<rows, texts, checked, removed, writer, generation, serving, closed, memory, chances>>

(* Mutated form of SaveProposals: the lease is not compared.               *)
SaveProposalsUnfenced(w) ==
    /\ At(w, "extracted")
    /\ rows' = [rows EXCEPT ![workers[w].row].proposals =
                   IF @ = None THEN workers[w].facts ELSE @]
    /\ Go(w, "saved")
    /\ UNCHANGED <<texts, checked, removed, writer, generation, serving, closed, memory, chances>>

SaveProposals(w) ==
    /\ At(w, "extracted")
    /\ IF Holds(w)
       THEN /\ rows' = [rows EXCEPT ![workers[w].row].proposals =
                          IF @ = None THEN workers[w].facts ELSE @]
            /\ Go(w, "saved")
       ELSE /\ workers' = [workers EXCEPT ![w].pc = "failing", ![w].error = "error"]
            /\ UNCHANGED rows
    /\ UNCHANGED <<texts, checked, removed, writer, generation, serving, closed, memory, chances>>

(* Mutated form of Enter: the cross-process lock is not taken.             *)
EnterUnlocked(w) ==
    /\ At(w, "saved")
    /\ IF Stale(w) THEN Leave(w)
       ELSE workers' = [workers EXCEPT ![w].pc = "inserting", ![w].todo = workers[w].facts]
    /\ UNCHANGED <<rows, texts, checked, removed, writer, generation, serving, closed, memory, chances>>

(* The generation is looked at before the lock is waited for, and again    *)
(* once it is held.  A stale worker leaves the row as it is.               *)
Enter(w) ==
    /\ At(w, "saved")
    /\ \/ Stale(w) /\ Leave(w) /\ UNCHANGED writer
       \/ ~Stale(w) /\ workers[w].facts = <<>> /\ Go(w, "inserted") /\ UNCHANGED writer
       \/ /\ ~Stale(w) /\ workers[w].facts # <<>>
          /\ writer = None /\ writer' = w
          /\ workers' = [workers EXCEPT ![w].pc = "inserting", ![w].todo = workers[w].facts]
    /\ UNCHANGED <<rows, texts, checked, removed, generation, serving, closed, memory, chances>>

RestatedText(x) == \E y \in Texts : texts[y] = "active" /\ <<x, y>> \in Near

UpdateTargets(x) == {y \in Texts : texts[y] = "active" /\ <<x, y>> \in Updates}

(* The two searches of an addition, either of which finds nothing when it  *)
(* fails, and then the text itself.                                        *)
Searches == {"restated", "update"}

Unsearched(searches) ==
    IF searches = Searches THEN UNCHANGED chances ELSE Happens("blind")

(* insert_facts, one proposal: skipped when it restates an active fact,    *)
(* when its text is stored already, or when it would retire a fact.        *)
Skipped(x, searches) ==
    \/ "restated" \in searches /\ RestatedText(x)
    \/ texts[x] # "absent"
    \/ "update" \in searches /\ UpdateTargets(x) # {}

Screen(w) ==
    /\ At(w, "inserting") /\ workers[w].todo # <<>>
    /\ \E searches \in SUBSET Searches :
         /\ Unsearched(searches)
         /\ workers' = IF Skipped(Head(workers[w].todo), searches)
                       THEN [workers EXCEPT ![w].todo = Tail(@)]
                       ELSE [workers EXCEPT ![w].pc = IF "restated" \in searches
                                                      THEN "storing" ELSE "blind"]
    /\ UNCHANGED <<rows, texts, checked, removed, writer, generation, serving, closed, memory>>

(* add_fact, a transaction of its own; a storage error is counted and the  *)
(* other proposals go on.                                                  *)
StoreFact(w) ==
    /\ At(w, "storing") \/ At(w, "blind")
    /\ LET x == Head(workers[w].todo)
           next == [workers[w] EXCEPT !.pc = "inserting", !.todo = Tail(@)]
       IN  \/ /\ texts' = [texts EXCEPT ![x] = IF @ = "absent" THEN "active" ELSE @]
              /\ checked' = IF At(w, "storing") /\ texts[x] = "absent"
                            THEN checked \cup {x} ELSE checked
              /\ workers' = [workers EXCEPT ![w] = next]
           \/ /\ workers' = [workers EXCEPT ![w] = [next EXCEPT !.error = "error"]]
              /\ UNCHANGED <<texts, checked>>
    /\ UNCHANGED <<rows, removed, writer, generation, serving, closed, memory, chances>>

(* Mutated form of LeaveLock: a failed insertion counts as done.           *)
LeaveLockRegardless(w) ==
    /\ At(w, "inserting") /\ workers[w].todo = <<>>
    /\ writer' = None
    /\ Go(w, "inserted")
    /\ UNCHANGED <<rows, texts, checked, removed, generation, serving, closed, memory, chances>>

LeaveLock(w) ==
    /\ At(w, "inserting") /\ workers[w].todo = <<>>
    /\ writer' = None
    /\ Go(w, IF workers[w].error = "none" THEN "inserted" ELSE "failing")
    /\ UNCHANGED <<rows, texts, checked, removed, generation, serving, closed, memory, chances>>

MarkDone(w) ==
    /\ At(w, "inserted")
    /\ IF Stale(w)
       THEN Leave(w) /\ UNCHANGED <<rows, memory>>
       ELSE /\ rows' = IF Holds(w) THEN [rows EXCEPT ![workers[w].row].status = "done"] ELSE rows
            /\ memory' = [memory EXCEPT ![w[1]][workers[w].row] = 0]
            /\ workers' = [workers EXCEPT ![w] = Idle]
    /\ UNCHANGED <<texts, checked, removed, writer, generation, serving, closed, chances>>

Failed(row, e) ==
    LET attempts == row.attempts + 1
    IN  IF e = "quota"
        THEN [Unleased(row) EXCEPT !.error = e,
                 !.status = IF row.old THEN "dead" ELSE "pending", !.deferred = ~row.old]
        ELSE [Unleased(row) EXCEPT !.error = e, !.attempts = attempts,
                 !.status = IF row.old \/ attempts >= MaxAttempts THEN "dead" ELSE "pending"]

Remembered(w) == [memory EXCEPT ![w[1]][workers[w].row] = @ + 1]

(* The except branch: quota errors reschedule the row, others use up an    *)
(* attempt, both behind the lease fence; a stale worker leaves the row.    *)
MarkFailed(w) ==
    /\ At(w, "failing")
    /\ LET r == workers[w].row IN
       IF Stale(w)
       THEN Leave(w) /\ UNCHANGED <<rows, memory>>
       ELSE /\ rows' = IF Holds(w)
                       THEN [rows EXCEPT ![r] = Failed(@, workers[w].error)] ELSE rows
            /\ memory' = IF workers[w].error = "quota" THEN memory ELSE Remembered(w)
            /\ workers' = [workers EXCEPT ![w] = Idle]
    /\ UNCHANGED <<texts, checked, removed, writer, generation, serving, closed, chances>>

(* The failure cannot be recorded: it is counted in memory and the claim   *)
(* is given back, if that works.                                           *)
MarkRaises(w) ==
    /\ At(w, "failing") /\ ~Stale(w)
    /\ Happens("markfail")
    /\ \/ rows' = IF Holds(w)
                  THEN [rows EXCEPT ![workers[w].row] = [Unleased(@) EXCEPT !.status = "pending"]]
                  ELSE rows
       \/ UNCHANGED rows
    /\ memory' = Remembered(w)
    /\ workers' = [workers EXCEPT ![w] = Idle]
    /\ UNCHANGED <<texts, checked, removed, writer, generation, serving, closed>>

(* The loop sees its stop event.                                           *)
Stop(w) ==
    /\ At(w, "idle") /\ Stale(w)
    /\ Leave(w)
    /\ UNCHANGED <<rows, texts, checked, removed, writer, generation, serving, closed, memory, chances>>

-----------------------------------------------------------------------------
(* The provider.                                                           *)

(* initialize() begins, after a previous one with _teardown_background:    *)
(* the generation moves on and the old worker is asked to stop.            *)
Teardown(p) ==
    /\ generation[p] < MaxGeneration
    /\ \/ generation[p] = 0 /\ UNCHANGED chances
       \/ p \in serving /\ Happens("reinit")
    /\ generation' = [generation EXCEPT ![p] = @ + 1]
    /\ serving' = serving \ {p}
    /\ UNCHANGED <<rows, texts, checked, removed, writer, closed, workers, memory>>

(* Mutated form of Start: the old store is closed under its worker.        *)
StartClosing(p) ==
    /\ generation[p] > 0 /\ p \notin serving
    /\ serving' = serving \cup {p}
    /\ closed' = closed \cup ({<<p, generation[p] - 1>>} \cap Workers)
    /\ rows' = Revived(RecentQuotaDead)
    /\ memory' = [memory EXCEPT ![p] = [r \in Rows |-> 0]]
    /\ workers' = [workers EXCEPT ![<<p, generation[p]>>] = Idle]
    /\ UNCHANGED <<texts, checked, removed, writer, generation, chances>>

(* The rest of initialize(), half a second later: the old connection is    *)
(* closed when its worker has ended, dead rows are revived, a new worker   *)
(* starts.                                                                 *)
Start(p) ==
    /\ generation[p] > 0 /\ p \notin serving
    /\ serving' = serving \cup {p}
    /\ LET old == <<p, generation[p] - 1>>
       IN  closed' = IF old \in Workers /\ At(old, "gone") THEN closed \cup {old} ELSE closed
    /\ rows' = Revived(RecentQuotaDead)
    /\ memory' = [memory EXCEPT ![p] = [r \in Rows |-> 0]]
    /\ workers' = [workers EXCEPT ![<<p, generation[p]>>] = Idle]
    /\ UNCHANGED <<texts, checked, removed, writer, generation, chances>>

(* The process is killed: its leases stay in the table, its lock does not. *)
KillProcess(p) ==
    /\ generation[p] > 0
    /\ Happens("crash")
    /\ LET mine == {p} \X (1..MaxGeneration)
       IN  /\ workers' = [w \in Workers |-> IF w \in mine THEN Gone ELSE workers[w]]
           /\ writer' = IF writer \in mine THEN None ELSE writer
           /\ closed' = closed \ mine
           /\ rows' = [r \in Rows |-> IF rows[r].lease \in mine
                                      THEN [rows[r] EXCEPT !.lease = None] ELSE rows[r]]
    /\ generation' = [generation EXCEPT ![p] = 0]
    /\ serving' = serving \ {p}
    /\ memory' = [memory EXCEPT ![p] = [r \in Rows |-> 0]]
    /\ UNCHANGED <<texts, checked, removed>>

(* fact_store add, under the same lock: deduplicated, or stored, retiring  *)
(* the fact whose value it updates.                                        *)
ToolAdd(x) ==
    /\ serving # {} /\ writer = None
    /\ texts[x] = "absent"
    /\ chances["add"] > 0
    /\ \E searches \in SUBSET Searches :
         /\ searches = Searches \/ chances["blind"] > 0
         /\ chances' = [chances EXCEPT !["add"] = @ - 1,
                                       !["blind"] = IF searches = Searches THEN @ ELSE @ - 1]
         /\ "restated" \in searches => ~RestatedText(x)
         /\ LET targets == IF "update" \in searches THEN UpdateTargets(x) ELSE {} IN
            \E old \in (IF targets = {} THEN {{}} ELSE {{y} : y \in targets}) :
              texts' = [y \in Texts |-> IF y = x THEN "active"
                                       ELSE IF y \in old THEN "retired" ELSE texts[y]]
         /\ checked' = IF "restated" \in searches THEN checked \cup {x} ELSE checked
    /\ UNCHANGED <<rows, removed, writer, generation, serving, closed, workers, memory>>

(* Texts that are stored unsearched: the host's memory mirrored and what   *)
(* regular expressions find at a session's end, without the lock in the    *)
(* second case, and an insight, searched for before its lock is taken.     *)
StoreUnchecked(x) ==
    /\ serving # {} /\ texts[x] = "absent"
    /\ Happens("unchecked")
    /\ texts' = [texts EXCEPT ![x] = "active"]
    /\ UNCHANGED <<rows, checked, removed, writer, generation, serving, closed, workers, memory>>

(* memory_supersede, under the lock: what is to be replaced is named.      *)
ToolReplace(y, x) ==
    /\ serving # {} /\ writer = None
    /\ texts[y] = "active" /\ x # y /\ texts[x] # "retired"
    /\ Happens("unchecked")
    /\ texts' = [texts EXCEPT ![y] = "retired", ![x] = "active"]
    /\ UNCHANGED <<rows, checked, removed, writer, generation, serving, closed, workers, memory>>

(* fact_store update and remove take no cross-process lock and search for  *)
(* nothing.                                                                *)
ToolEdit(y, x) ==
    /\ serving # {} /\ texts[y] # "absent" /\ texts[x] = "absent"
    /\ Happens("unchecked")
    /\ texts' = [texts EXCEPT ![y] = "absent", ![x] = texts[y]]
    /\ checked' = checked \ {x, y}
    /\ removed' = removed \cup {y}
    /\ UNCHANGED <<rows, writer, generation, serving, closed, workers, memory>>

ToolRemove(x) ==
    /\ serving # {} /\ texts[x] # "absent"
    /\ Happens("remove")
    /\ texts' = [texts EXCEPT ![x] = "absent"]
    /\ checked' = checked \ {x}
    /\ removed' = removed \cup {x}
    /\ UNCHANGED <<rows, writer, generation, serving, closed, workers, memory>>

(* Time passes: a lease ends, under a live worker only when its work takes *)
(* ten minutes; a quota window reopens; a row reaches its 48 hours.        *)
Abandoned(r) == \A w \in Workers : rows[r].lease = w => workers[w].row # r

Lapse(r) ==
    /\ rows[r].status = "processing" /\ ~rows[r].lapsed
    /\ IF Abandoned(r) THEN UNCHANGED chances ELSE Happens("lapse")
    /\ rows' = [rows EXCEPT ![r].lapsed = TRUE]
    /\ UNCHANGED <<texts, checked, removed, writer, generation, serving, closed, workers, memory>>

Reopen(r) ==
    /\ rows[r].deferred /\ rows[r].status = "pending"
    /\ rows' = [rows EXCEPT ![r].deferred = FALSE]
    /\ UNCHANGED <<texts, checked, removed, writer, generation, serving, closed, workers, memory, chances>>

Age(r) ==
    /\ chances["quota"] > 0
    /\ rows[r].status \notin {"none", "done"} /\ ~rows[r].old
    /\ rows' = [rows EXCEPT ![r].old = TRUE]
    /\ UNCHANGED <<texts, checked, removed, writer, generation, serving, closed, workers, memory, chances>>

Drain(w) ==
    \/ Claim(w) \/ Extract(w) \/ SaveProposals(w) \/ Enter(w) \/ Screen(w) \/ StoreFact(w)
    \/ LeaveLock(w) \/ MarkDone(w) \/ MarkFailed(w) \/ Stop(w)

QueueNext ==
    \/ \E w \in Workers : Drain(w) \/ MarkRaises(w)
    \/ \E p \in Processes : Teardown(p) \/ Start(p) \/ KillProcess(p)
    \/ \E p \in Processes, t \in Transcripts : Enqueue(p, t)
    \/ ReviveDead
    \/ \E x \in Texts : ToolAdd(x) \/ ToolRemove(x) \/ StoreUnchecked(x)
    \/ \E x, y \in Texts : ToolReplace(y, x) \/ ToolEdit(y, x)
    \/ \E r \in Rows : Lapse(r) \/ Reopen(r) \/ Age(r)

QueueSpec == QueueInit /\ [][QueueNext]_queueVars

(* Threads run, initialize() returns, a process that is down is started    *)
(* again, and time passes.  Nobody has to enqueue, and nothing that costs  *)
(* budget has to happen.                                                   *)
QueueFairSpec ==
    /\ QueueSpec
    /\ \A w \in Workers : WF_queueVars(Drain(w))
    /\ \A p \in Processes : WF_queueVars(generation[p] = 0 /\ Teardown(p)) /\ WF_queueVars(Start(p))
    /\ \A r \in Rows :
         /\ WF_queueVars(Abandoned(r) /\ Lapse(r))
         /\ WF_queueVars(Reopen(r))
         /\ WF_queueVars(Age(r))

-----------------------------------------------------------------------------
(* Properties.                                                             *)

(* Of the facts that extraction and fact_store add stored after a search   *)
(* that answered, no two in force say the same in different words, however *)
(* workers, leases, re-initialisations and tools interleave: the search    *)
(* and the insertion happen under one cross-process lock.  What is stored  *)
(* unsearched (mirrored memory, regular expressions, explicit replacements,*)
(* edits, insights, or after a search that failed) may restate any fact.   *)
NoRestatedFacts ==
    \A x, y \in checked : texts[x] = "active" /\ texts[y] = "active" /\ x # y =>
        <<x, y>> \notin Near

(* A lease that was lost is noticed before anything is inserted: the only  *)
(* proposals a worker ever inserts for a row are those saved in it, so two *)
(* answers of the model are never mixed.                                   *)
InsertsSavedProposals ==
    \A w \in Workers :
        workers[w].pc \in {"saved", "inserting", "storing", "blind", "inserted"} =>
            workers[w].facts = rows[workers[w].row].proposals

(* The queue holds at most one active row per transcript, which its unique *)
(* index would otherwise enforce by failing the revival.                   *)
OneActiveRow ==
    \A r, s \in Rows : ActiveRow(r) /\ ActiveRow(s) /\ rows[r].transcript = rows[s].transcript => r = s

(* A store connection is closed under no worker that may still use it.     *)
ClosedStoreUnused == \A w \in closed : At(w, "gone")

(* Workers of two processes and two generations stay out of each other's   *)
(* way: in the queue, in the rows they work on, and in closing the store.  *)
QueueSound == QueueTypeOK /\ OneActiveRow /\ InsertsSavedProposals /\ ClosedStoreUnused

(* When a row is completed, whatever crashes, lost leases and replays came *)
(* before, each of its proposals is stored, or restates or would update a  *)
(* fact that was, or a user has removed or rewritten it.  (Proposals that  *)
(* insert_facts drops as ephemeral or shaped like a credential are taken   *)
(* as not proposed: no member of Extractions has them.)                    *)
Accounted(x) ==
    \E y \in Texts : /\ y = x \/ <<x, y>> \in Near \cup Updates
                     /\ texts[y] # "absent" \/ y \in removed

CompletedIsAccounted ==
    [][\A r \in Rows : rows'[r].status = "done" /\ rows[r].status # "done" =>
         rows[r].proposals # None /\ \A x \in ToSet(rows[r].proposals) : Accounted(x)]_queueVars

(* A transcript is extracted, declared dead, or given up on by every       *)
(* process that has the provider open (until it is started again).         *)
Settled(r) ==
    \/ ~ActiveRow(r)
    \/ serving # {} /\ \A p \in serving : memory[p][r] >= MaxAttempts

EveryRowSettles == \A r \in Rows : ActiveRow(r) ~> Settled(r)

(* Every row comes to an end, and a completed row has lost nothing.        *)
RowsEndWell == CompletedIsAccounted /\ EveryRowSettles
=============================================================================
