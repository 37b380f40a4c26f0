----------------------------- MODULE ContextPack -----------------------------
(***************************************************************************)
(* The prompt block that memory.context makes of search rows: conflicts    *)
(* first, then the reviewed facts, then the others, each line within the   *)
(* token budget.                                                           *)
(*                                                                         *)
(* Texts are their lengths.  A row says of a fact how long its content and *)
(* the head of its line are, whether it is reviewed and whether it must    *)
(* not be rendered, and its state slot, as a set of at most one; current   *)
(* and conflict are what the retriever should have filtered.  Texts have   *)
(* no blanks where they are cut.                                           *)
(***************************************************************************)
EXTENDS Integers, Sequences, FiniteSets, SequencesExt

CONSTANTS
    HeaderChars,   \* _HEADER
    SummaryChars,  \* the line of a conflict
    MinKept,       \* characters a cut text must keep
    MaxFactChars,  \* OutputBounds.max_fact_chars
    MaxResults,    \* OutputBounds.context_max_results
    ItemChars,     \* what a fact or a conflict adds to the reply
    TotalChars     \* OutputBounds.context_max_total_chars

ASSUME ContextPackAssumption ==
    /\ {HeaderChars, SummaryChars, MinKept, ItemChars, TotalChars} \subseteq Nat
    /\ MaxFactChars \in Nat \ {0}
    /\ MaxResults \in Nat \ {0}

(* estimate_tokens *)
Tokens(chars) == (chars + 3) \div 4

(* from: the facts that were packed, which no reply names *)
Blank(budget) ==
    [budget |-> budget, from |-> {}, chars |-> 0, shown |-> {}, cut |-> {}, redacted |-> {},
     receipts |-> {}, slots |-> {}, omitted |-> 0]

Leave(pack) == [pack EXCEPT !.omitted = @ + 1]

(* _emit_conflict_receipt: once, and only if its line fits *)
WithReceipt(pack, conflict) ==
    IF conflict \notin pack.receipts /\ Tokens(pack.chars + SummaryChars) <= pack.budget
    THEN [pack EXCEPT !.chars = @ + SummaryChars, !.receipts = @ \cup {conflict}]
    ELSE Leave(pack)

(* _safe_candidate *)
SafeCandidate(row) == row.current /\ row.conflict = {}

(* _prompt_rejection_reason *)
Rejected(row) == row.status = "unreviewed" \/ row.shaped

Reviewed(row) == row.status \in {"human_confirmed", "human_corrected"}

(* _truncate_to_budget: the longest prefix that fits, with an ellipsis *)
TruncateToBudget(chars, room) ==
    IF room <= 0 THEN 0 ELSE IF Tokens(chars) <= room THEN chars ELSE 4 * room

Room(pack, row) == pack.budget - Tokens(pack.chars) - Tokens(row.prefix) - 1

(* _truncate_to_chars *)
Clipped(row) == IF row.chars <= MaxFactChars THEN row.chars ELSE MaxFactChars

WithFact(pack, row) ==
    LET text == Clipped(row)
        kept == TruncateToBudget(text, Room(pack, row))
        line == row.prefix + kept + 1
        worth == kept > 0 /\ (kept = text \/ kept - 1 >= MinKept)
    IN  IF row.slot \cap pack.slots = {} /\ worth /\ Tokens(pack.chars + line) <= pack.budget
        THEN [pack EXCEPT !.chars = @ + line, !.shown = @ \cup {row.fact},
                          !.cut = IF kept = text THEN @ ELSE @ \cup {row.fact},
                          !.slots = @ \cup row.slot]
        ELSE Leave(pack)

WithRow(pack, row) ==
    IF ~SafeCandidate(row) THEN FoldLeft(WithReceipt, pack, SetToSeq(row.conflict))
    ELSE IF Rejected(row) THEN [pack EXCEPT !.redacted = @ \cup {row.fact}]
    ELSE WithFact(pack, row)

(* Mutated form of ReviewedFirst: in the order of the scores. *)
AsRanked(rows) == rows

Sorted(lists, row) ==
    IF Reviewed(row) THEN [lists EXCEPT !.reviewed = Append(@, row)]
    ELSE [lists EXCEPT !.unreviewed = Append(@, row)]

ReviewedFirst(rows) ==
    LET lists == FoldLeft(Sorted, [reviewed |-> <<>>, unreviewed |-> <<>>], rows)
    IN  lists.reviewed \o lists.unreviewed

(* _mmr_select: if there are too many rows, the best and then any others, *)
(* as their scores and their likeness decide.                             *)
MmrSelect(rows) ==
    IF Len(rows) <= MaxResults THEN {rows}
    ELSE {picked \in [1..MaxResults -> ToSet(rows)] : IsInjective(picked) /\ picked[1] = rows[1]}

Heading(rows, budget, total) ==
    [Blank(budget) EXCEPT !.chars = HeaderChars, !.omitted = total - Len(rows),
                          !.from = {rows[i].fact : i \in DOMAIN rows}]

(* Mutated form of PackContext: conflicts take what room is left. *)
PackContextThenConflicts(rows, conflicts, budget, total) ==
    IF Tokens(HeaderChars) > budget THEN [Blank(budget) EXCEPT !.omitted = total]
    ELSE LET head == Heading(rows, budget, total)
             facts == FoldLeft(WithRow, head, ReviewedFirst(rows))
             pack == FoldLeft(WithReceipt, facts, conflicts)
         IN  IF pack.shown = {} /\ pack.receipts = {} THEN [pack EXCEPT !.chars = 0] ELSE pack

(* The markdown of a pack that has neither facts nor conflicts is empty. *)
PackContext(rows, conflicts, budget, total) ==
    IF Tokens(HeaderChars) > budget THEN [Blank(budget) EXCEPT !.omitted = total]
    ELSE LET head == Heading(rows, budget, total)
             told == FoldLeft(WithReceipt, head, conflicts)
             pack == FoldLeft(WithRow, told, ReviewedFirst(rows))
         IN  IF pack.shown = {} /\ pack.receipts = {} THEN [pack EXCEPT !.chars = 0] ELSE pack

Packs(rows, conflicts, budget) ==
    {PackContext(picked, conflicts, budget, Len(rows)) : picked \in MmrSelect(rows)}

Fits(pack, conflicts) ==
    pack.chars + ItemChars * (Cardinality(pack.shown \cup pack.redacted) + Len(conflicts)) <= TotalChars

(* EnfoldService._context: while the reply is too long, it is packed again *)
(* without the last candidate; without any, it is sent as it is.           *)
Contexts(rows, conflicts, budget) ==
    UNION {{pack \in Packs(SubSeq(rows, 1, n), conflicts, budget) :
              /\ n = 0 \/ Fits(pack, conflicts)
              /\ \A m \in n + 1..Len(rows) :
                   \E longer \in Packs(SubSeq(rows, 1, m), conflicts, budget) : ~Fits(longer, conflicts)} :
           n \in 0..Len(rows)}

=============================================================================
