------------------------------ MODULE Recall -------------------------------
(***************************************************************************)
(* Searches of the daemon over the table and the vectors that the writers  *)
(* and the embedding worker (module EmbeddingJobs) change meanwhile.  A    *)
(* search has a connection of its own without a transaction: each of its   *)
(* statements sees the commits made before it, and any commit may fall     *)
(* between two of them.                                                    *)
(*                                                                         *)
(* Beside the vectors there is an optional derived index.  A trigger       *)
(* counts the changes of fact_embeddings, and whoever changes the vectors  *)
(* with the index open copies the count; an index whose count is behind is *)
(* not used, and a search that cannot use it reads the vectors themselves, *)
(* of the newest facts only.                                               *)
(*                                                                         *)
(* Every fact is visible to the searcher and near the query in meaning;    *)
(* those in Worded also have its words.  A fact that has neither a dense   *)
(* score nor the words is left out of the answer.                          *)
(***************************************************************************)
EXTENDS EmbeddingJobs, ContextPack, SequencesExt

CONSTANTS
    Worded,          \* facts whose text has words of the query
    CandidateLimit,  \* candidate_limit
    SampleSize,      \* PAYLOAD_SAMPLE_SIZE
    Texts,           \* fact -> the row the packing of a prompt sees
    TokenBudgets,    \* token_budget of memory.context
    Unlimited,       \* a number of writes without a bound
    Budgets          \* bounds on what happens, one of which is chosen

Budget ==
    [workers : SUBSET Workers, fails : BOOLEAN, facts : Nat, writes : Nat \cup {Unlimited},
     searches : Nat, rebuilds : Nat, crashes : Nat]

ASSUME RecallAssumption ==
    /\ Worded \subseteq Facts
    /\ CandidateLimit \in Nat \ {0} /\ SampleSize \in Nat \ {0}
    /\ \A b \in Budgets : b \in Budget
    /\ \A f \in Facts :
         /\ Texts[f].fact = f /\ {Texts[f].chars, Texts[f].prefix} \subseteq Nat \ {0}
         /\ IsFiniteSet(Texts[f].conflict)
    /\ TokenBudgets \subseteq Nat \ {0}

VARIABLES
    index,   \* the vec0 table and its ledger
    writer,  \* the worker's document writer has the index open
    search,  \* the search in progress
    budget   \* what the world may still do

recallVars == <<index, writer, search, budget>>

NoPack == Blank(0)

(* since, embedded: facts that have been settled, and settled with a       *)
(* vector, ever since the search began; no statement reads them.           *)
NoSearch == [step |-> "idle", indexed |-> FALSE, scored |-> FALSE,
             lexical |-> {}, dense |-> {}, vectors |-> {}, facts |-> {},
             outcome |-> "none", listed |-> <<>>, pack |-> NoPack, since |-> {}, embedded |-> {}]

RecallInit ==
    /\ Init
    /\ index = [built |-> FALSE, rows |-> {}, current |-> FALSE]
    /\ writer = FALSE
    /\ search = NoSearch
    /\ budget \in Budgets
    /\ \A f \in Facts : f > budget.facts => fact[f] = "absent"

-----------------------------------------------------------------------------
(* The derived index.                                                      *)

Newest(n, S) == {f \in S : Cardinality({g \in S : g > f}) < n}

Oldest(n, S) == {f \in S : Cardinality({g \in S : g < f}) < n}

(* Mutated form of Openable: without the ledger. *)
OpenableBySample ==
    /\ index.built
    /\ Cardinality(index.rows) = Cardinality(vector)
    /\ Oldest(SampleSize, vector) \subseteq index.rows

(* SQLiteVecIndex.open: the ledger, then the counts and a few rows. *)
Openable ==
    /\ index.built /\ index.current
    /\ Cardinality(index.rows) = Cardinality(vector)
    /\ Oldest(SampleSize, vector) \subseteq index.rows

(* The extension may be missing, and a commit between two statements of    *)
(* the check makes a good index look bad.                                  *)
Opened == IF Openable THEN BOOLEAN ELSE {FALSE}

(* The worker stores a vector: with the index open, in both. *)
Upsert(f) ==
    index' = IF writer THEN [index EXCEPT !.rows = @ \cup {f}, !.current = TRUE]
             ELSE [index EXCEPT !.current = FALSE]

(* The erasure removes a vector: the trigger fires if there was a row. *)
Drop(f, opened) ==
    index' = IF opened THEN [index EXCEPT !.rows = @ \ {f}, !.current = TRUE]
             ELSE [index EXCEPT !.current = @ /\ f \notin vector]

(* rebuild_sqlite_vec_index, under the maintenance lock *)
Rebuild ==
    /\ ~up /\ budget.rebuilds > 0
    /\ index' = [built |-> TRUE, rows |-> vector, current |-> TRUE]
    /\ budget' = [budget EXCEPT !.rebuilds = @ - 1]
    /\ UNCHANGED <<vars, writer, search>>

-----------------------------------------------------------------------------
(* What the daemon does meanwhile.                                         *)

SpendWrite ==
    budget' = [budget EXCEPT !.writes = IF @ = Unlimited THEN @ ELSE @ - 1]

(* Facts leave the settled ones; those that come back were away. *)
Watched == [search EXCEPT !.since = {f \in @ : fact'[f] = "settled"},
                          !.embedded = {f \in @ : fact'[f] = "settled"}]

Stores(w) == At(w, "commit") /\ HoldsLease(w) /\ fact[work[w].fact] = "settled"

WriteFact ==
    /\ budget.writes # 0
    /\ \/ \E f \in 1..budget.facts, R \in SUBSET Facts : WriteSettled(f, R)
       \/ \E f \in 1..budget.facts, R \in SUBSET Facts : WriteClosed(f, R)
       \/ \E f \in 1..budget.facts, old \in Facts : WriteDisputed(f, old)
       \/ \E f \in 1..budget.facts, old \in Facts : WriteMerged(f, old)
       \/ \E f, by \in Facts : ReplaceByDuplicate(f, by)
       \/ \E f \in Facts, losers \in SUBSET Facts : ResolveConflict(f, losers)
    /\ search' = Watched
    /\ SpendWrite
    /\ UNCHANGED <<index, writer>>

Erase ==
    /\ budget.writes # 0
    /\ \E f \in Facts, insights \in SUBSET Facts, opened \in Opened :
         EraseFact(f, insights) /\ Drop(f, opened)
    /\ SpendWrite
    /\ UNCHANGED <<writer, search>>

WorkStep(w) ==
    /\ w \in budget.workers
    /\ Work(w)
    /\ work'[w].step = "fail" => budget.fails
    /\ IF Stores(w) THEN Upsert(work[w].fact) ELSE UNCHANGED index
    /\ UNCHANGED <<writer, search, budget>>

TimeStep ==
    /\ \E f \in Facts : LeaseLapses(f) \/ BackoffEnds(f)
    /\ UNCHANGED recallVars

Die ==
    /\ budget.crashes > 0 /\ Crash
    /\ writer' = FALSE
    /\ search' = NoSearch
    /\ budget' = [budget EXCEPT !.crashes = @ - 1]
    /\ UNCHANGED index

StartDaemon ==
    /\ Start
    /\ writer' \in (IF up' THEN Opened ELSE {FALSE})
    /\ UNCHANGED <<index, search, budget>>

-----------------------------------------------------------------------------
(* A search, statement by statement.                                       *)

Is(step) == up /\ search.step = step

Turn(record) == search' = record /\ UNCHANGED <<vars, index, writer, budget>>

End(outcome, facts) ==
    [search EXCEPT !.step = "done", !.outcome = outcome, !.facts = facts,
                   !.lexical = {}, !.dense = {}, !.vectors = {}]

Queueing == {f \in Facts : job[f].status \in {"pending", "processing"}}

(* The connection is opened and the backend built on it, which counts the  *)
(* active facts without a vector or a viable job.                          *)
BeginSearch ==
    /\ up /\ search.step = "idle" /\ budget.searches > 0
    /\ LET begun == [NoSearch EXCEPT !.step = "open", !.since = Stage("settled"),
                                     !.embedded = Stage("settled") \cap vector]
       IN  search' = IF Stage("settled") \subseteq vector \cup Queueing THEN begun
                     ELSE [begun EXCEPT !.step = "done", !.outcome = "refused"]
    /\ budget' = [budget EXCEPT !.searches = @ - 1]
    /\ UNCHANGED <<vars, index, writer>>

OpenIndex ==
    /\ Is("open")
    /\ \E opened \in Opened : Turn([search EXCEPT !.indexed = opened, !.step = "lexical"])

(* The best of a ranked list, in any order of its scores. *)
Limited(S) == {T \in SUBSET S : Cardinality(T) = CandidateLimit \/ (T = S /\ Cardinality(S) < CandidateLimit)}

(* Mutated form of Lexical: the limit applies with the index too. *)
LexicalLimited ==
    /\ Is("lexical")
    /\ \E found \in Limited(Worded \cap Stage("settled")) :
         Turn([search EXCEPT !.lexical = found, !.step = IF search.indexed THEN "eligible" ELSE "recent"])

(* The full-text statement; unlimited with an index. *)
Lexical ==
    /\ Is("lexical")
    /\ IF search.indexed
       THEN Turn([search EXCEPT !.lexical = Worded \cap Stage("settled"), !.step = "eligible"])
       ELSE \E found \in Limited(Worded \cap Stage("settled")) :
              Turn([search EXCEPT !.lexical = found, !.step = "recent"])

(* All facts the index could score *)
Eligible ==
    /\ Is("eligible")
    /\ LET eligible == Stage("settled") \cap vector
       IN  Turn([search EXCEPT !.dense = eligible,
                               !.step = IF eligible = {} THEN "recent" ELSE "score"])

(* The index fails or no longer has every row asked for: the newest facts  *)
(* are searched instead.                                                   *)
Score ==
    /\ Is("score")
    /\ \/ search.dense \subseteq index.rows
          /\ Turn([search EXCEPT !.scored = TRUE, !.step = "load"])
       \/ \E found \in Limited(search.lexical) :
            Turn([search EXCEPT !.indexed = FALSE, !.lexical = found, !.dense = {}, !.step = "recent"])

Recent ==
    /\ Is("recent")
    /\ Turn([search EXCEPT !.dense = Newest(CandidateLimit, Stage("settled")), !.step = "load"])

(* The words or a dense score earn a candidate its place. *)
Answer(candidates, scored) == {f \in candidates : f \in Worded \/ f \in scored}

Answered(candidates, scored) ==
    Turn([search EXCEPT !.facts = Answer(candidates, scored), !.step = "receipts",
                        !.lexical = {}, !.dense = {}, !.vectors = {}])

(* Mutated form of Candidates: the full-text hits are not joined. *)
CandidatesDense == search.dense \cap Stage("settled")

Candidates == (search.dense \cup search.lexical) \cap Stage("settled")

(* The candidates are read again with the predicates of the search. *)
Load ==
    /\ Is("load")
    /\ IF search.scored \/ Candidates = {} THEN Answered(Candidates, search.dense)
       ELSE Turn([search EXCEPT !.facts = Candidates, !.lexical = {}, !.dense = {},
                                !.step = IF search.indexed THEN "rescore" ELSE "vectors"])

(* With the index open but nothing eligible before. *)
Rescore ==
    /\ Is("rescore")
    /\ \/ search.facts \subseteq index.rows /\ Answered(search.facts, search.facts)
       \/ Turn([search EXCEPT !.indexed = FALSE, !.step = "vectors"])

(* load_documents: the vectors, and in a second statement the jobs of the  *)
(* facts that had none.                                                    *)
Vectors ==
    /\ Is("vectors")
    /\ IF search.facts \subseteq vector THEN Answered(search.facts, search.facts)
       ELSE Turn([search EXCEPT !.vectors = search.facts \cap vector, !.step = "jobs"])

Jobs ==
    /\ Is("jobs")
    /\ IF search.facts \subseteq search.vectors \cup Queueing
       THEN Answered(search.facts, search.vectors)
       ELSE Turn(End("uncovered", {}))

(* The model gives no vector for the query. *)
ModelDown ==
    /\ Is("score") \/ Is("rescore") \/ Is("vectors")
    /\ Turn(End("model", {}))

(* The disputed facts count as one conflict, which the words of one of its *)
(* members make relevant to the query.                                     *)
Relevant == IF Worded \cap Stage("disputed") = {} THEN <<>> ELSE <<"conflict">>

(* The prompt blocks of a set of facts, in whatever order the scores give *)
Prompts == [found \in SUBSET Facts |-> [conflicts \in {<<>>, <<"conflict">>} |->
    UNION {Contexts([i \in DOMAIN ranked |-> Texts[ranked[i]]], conflicts, tokens) :
           ranked \in SetToSeqs(found), tokens \in TokenBudgets}]]

(* The open conflicts are read last and listed in the answer; that of      *)
(* memory.context has a pack too.                                          *)
Receipts ==
    /\ Is("receipts")
    /\ \E pack \in {NoPack} \cup Prompts[search.facts][Relevant] :
         Turn([End("answered", search.facts) EXCEPT !.listed = Relevant, !.pack = pack])

Reply == Is("done") /\ Turn(NoSearch)

Search ==
    \/ BeginSearch \/ OpenIndex \/ Lexical \/ Eligible \/ Score \/ Recent \/ Load
    \/ Rescore \/ Vectors \/ Jobs \/ ModelDown \/ Receipts \/ Reply

RecallNext ==
    \/ WriteFact \/ Erase \/ TimeStep \/ Die \/ StartDaemon \/ Rebuild
    \/ \E w \in Workers : WorkStep(w)
    \/ Search

(* The fairness of the outbox: the workers poll for ever. *)
RecallSpec ==
    /\ RecallInit /\ [][RecallNext]_<<vars, recallVars>>
    /\ \A w \in Workers : WF_vars(w \in budget.workers /\ Work(w))
    /\ \A f \in Facts : WF_vars(LeaseLapses(f)) /\ WF_vars(BackoffEnds(f))
    /\ WF_vars(Start)

-----------------------------------------------------------------------------
(* Properties.                                                             *)

(* An index that passes the check of SQLiteVecIndex.open has exactly the   *)
(* rows of fact_embeddings, whatever was stored, erased and rebuilt with   *)
(* or without the extension: the ledger, not the sample of a few rows,     *)
(* catches an index that missed a change.                                  *)
IndexFaithful == Openable => index.rows = vector

(* A fact that stayed settled during a search is not missed for what       *)
(* happened to others, or to the index, between its statements: it is      *)
(* found by its words, unless the list of such facts was cut, and by its   *)
(* vector if the index scored or no more facts than the limit were around. *)
NothingMissed ==
    search.outcome = "answered" =>
      /\ search.scored \/ Cardinality(Worded) <= CandidateLimit
           => Worded \cap search.since \subseteq search.facts
      /\ search.scored \/ budget.facts <= CandidateLimit
           => search.embedded \subseteq search.facts

(* What is left of a text, or its head, is shorter than that of another.   *)
Shorter(row, other) == row.prefix < other.prefix \/ Clipped(row) < Clipped(other)

(* A prompt block keeps its budget, never renders what must not be         *)
(* rendered, has one value per state slot, announces the conflict unless   *)
(* the budget is too small for its line, and spends nothing on unreviewed  *)
(* facts before the reviewed ones: when one of the former is shown, no     *)
(* reviewed fact of those packed had to be cut, and none is left out but   *)
(* for its state slot or because the shorter text still found room.        *)
PromptSound ==
    LET pack == search.pack
    IN  pack # NoPack =>
          /\ pack.shown \subseteq search.facts
          /\ Tokens(pack.chars) <= pack.budget
          /\ \A f \in pack.shown : ~Rejected(Texts[f]) /\ SafeCandidate(Texts[f])
          /\ \A f, g \in pack.shown : f # g => Texts[f].slot \cap Texts[g].slot = {}
          /\ Tokens(HeaderChars + SummaryChars) <= pack.budget /\ search.listed # <<>>
               => pack.receipts # {}
          /\ \A f, g \in pack.from :
               /\ g \in pack.shown /\ ~Reviewed(Texts[g])
               /\ Reviewed(Texts[f]) /\ ~Rejected(Texts[f]) /\ SafeCandidate(Texts[f])
               => /\ f \notin pack.cut
                  /\ \/ f \in pack.shown
                     \/ \E h \in pack.shown : Texts[h].slot \cap Texts[f].slot # {}
                     \/ Shorter(Texts[g], Texts[f])

=============================================================================
