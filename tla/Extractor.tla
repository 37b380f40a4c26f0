------------------------------ MODULE Extractor ------------------------------
(***************************************************************************)
(* One extraction, from a transcript to the write requests of its          *)
(* memories, as operators: the spans of the transcript, the child process  *)
(* and its provider, the supervisor that runs the child, the evidence      *)
(* verifier, and the two screens of the processor, before a proposal is    *)
(* persisted and before a persisted one is written.                        *)
(*                                                                         *)
(* Text is measured, not spelled.  A transcript is a sequence of blocks,   *)
(* each a role and a length; two characters separate blocks, whether they  *)
(* end a paragraph or a turn.  A proposal says what the checks tell apart  *)
(* of a memory a model proposes:                                           *)
(*   content  "plain", a "secret" the credential screen sees, a "task" or  *)
(*            other instruction, an "echo" of the prompt's examples, or    *)
(*            "blank"                                                      *)
(*   span     the id of the span it cites, which is its offsets            *)
(*   quote    the offsets of the text it gives as evidence                 *)
(*   claim    what the quote does for the claim: it is "supported",        *)
(*            "unsupported" or "unrelated" (not a word in common), or one  *)
(*            of them reads like an "instruction"                          *)
(*   typed    its state fields: "none", an incomplete set ("partial"), a   *)
(*            set that names no known subject or predicate or is not       *)
(*            confident ("unresolved"), or a "state"                       *)
(* A scope, a sensitivity or a length that is not allowed, and too many    *)
(* proposals, are refused like blank content.                              *)
(***************************************************************************)
EXTENDS Integers, Sequences, FiniteSets

CONSTANTS
    MaxSpan,    \* MAX_EVIDENCE_CHARS
    MaxInput    \* HostExtractorConfig.max_input_bytes

ASSUME ExtractorAssumption == MaxSpan \in Nat \ {0} /\ MaxInput \in Nat

Roles == {"user", "assistant", "tool"}

Proposal ==
    [content : {"plain", "secret", "task", "echo", "blank"},
     span : Nat \X Nat, quote : Nat \X Nat,
     claim : {"supported", "unsupported", "unrelated", "instruction"},
     typed : {"none", "partial", "unresolved", "state"}]

(* One run of the extractor command: a bundled child or another program,   *)
(* what is wrong with its configuration, what becomes of the process, what *)
(* the provider answers (for another program, its exit status), and what   *)
(* the evidence verifier does.                                             *)
Call ==
    [command : {"openai", "ollama", "other"},
     flaws : SUBSET {"endpoint", "identity", "key", "limits"},
     process : {"exits", "missing", "hangs", "floods", "litters"},
     status : Nat,
     body : {"document", "refusal", "garbled", "oversized"},
     proposals : SUBSET Proposal,
     verifier : {"none", "answers", "unreachable", "late", "strange"}]

-----------------------------------------------------------------------------
(* extraction_spans: the exact pieces of a transcript that evidence can    *)
(* be.  A block longer than MaxSpan is cut; the readable boundary the code *)
(* prefers for the cut is not modelled.                                    *)

Offset(t) ==
    LET offset[i \in 1..Len(t)] ==
          IF i = 1 THEN 0 ELSE offset[i - 1] + t[i - 1].size + 2
    IN  offset

BlockSpans(role, start, size) ==
    {[id |-> <<start + k * MaxSpan,
               IF (k + 1) * MaxSpan < size THEN start + (k + 1) * MaxSpan ELSE start + size>>,
      role |-> role] : k \in 0..((size - 1) \div MaxSpan)}

Spans(t) == UNION {BlockSpans(t[i].role, Offset(t)[i], t[i].size) : i \in 1..Len(t)}

(* Mutated form of Eligible: what the assistant says is admitted, too. *)
EligibleWithAssistant(span) == span.role \in {"user", "assistant"}

Eligible(span) == span.role = "user"

EligibleSpans(t) == {span \in Spans(t) : Eligible(span)}

(* Attributed turns, or one text without roles; all of it is said. *)
Normalizes(t) ==
    /\ t # <<>> /\ \A i \in 1..Len(t) : t[i].size > 0
    /\ \/ \A i \in 1..Len(t) : t[i].role \in Roles
       \/ \A i \in 1..Len(t) : t[i].role = "none"

-----------------------------------------------------------------------------
(* The bundled child: exit statuses and the proposals it prints.           *)

InvalidConfig == 64
InvalidInput == 65
Unavailable == 69
RateLimited == 75
InvalidOutput == 76

(* The local model takes no key; both children check the rest themselves.  *)
OpenAIConfigured(call) == call.flaws = {}
OllamaConfigured(call) == call.flaws \subseteq {"key"}

PermanentStatuses == {400, 401, 403, 404, 405, 413, 422}

OpenAIFailure(status) ==
    IF status \in PermanentStatuses THEN InvalidConfig
    ELSE IF status = 429 THEN RateLimited
    ELSE Unavailable

(* _call_openai and _proposal_document. *)
OpenAICall(call) ==
    IF call.status # 200 THEN OpenAIFailure(call.status)
    ELSE IF call.body # "document" THEN InvalidOutput ELSE 0

(* _call_ollama and _validate_proposals: every failure to answer, a limit  *)
(* on the rate included, is one of the loopback server.                    *)
OllamaCall(call) ==
    IF call.status # 200 THEN Unavailable
    ELSE IF call.body # "document" THEN InvalidOutput ELSE 0

(* decode_supervisor_request: what the child refuses of its input. *)
Decodable(t) == Normalizes(t)

(* What the provider is shown of a transcript. *)
ModelInput(t) == {span.id : span \in EligibleSpans(t)}

(* normalize_proposal_document: one bad proposal refuses the document, an  *)
(* echo of the prompt is dropped, and the id a model chose is resolved to  *)
(* the text of that span.                                                  *)
Acceptable(p, t) ==
    /\ p.content # "blank"
    /\ p.span \in ModelInput(t)
    /\ p.content = "echo" \/ p.typed # "partial"

Resolved(proposals) ==
    {[p EXCEPT !.quote = p.span] : p \in {q \in proposals : q.content # "echo"}}

Exited(code) == [code |-> code, proposals |-> {}]

(* transform, the same for both children. *)
Transform(call, t, exit) ==
    IF ~Decodable(t) THEN Exited(InvalidInput)
    ELSE IF EligibleSpans(t) = {} THEN Exited(0)
    ELSE IF exit # 0 THEN Exited(exit)
    ELSE IF \E p \in call.proposals : ~Acceptable(p, t) THEN Exited(InvalidOutput)
    ELSE [code |-> 0, proposals |-> Resolved(call.proposals)]

OpenAIChild(call, t) ==
    IF ~OpenAIConfigured(call) THEN Exited(InvalidConfig)
    ELSE Transform(call, t, OpenAICall(call))

OllamaChild(call, t) ==
    IF ~OllamaConfigured(call) THEN Exited(InvalidConfig)
    ELSE Transform(call, t, OllamaCall(call))

(* Another program answers as it likes. *)
Child(call, t) ==
    CASE call.command = "openai" -> OpenAIChild(call, t)
      [] call.command = "ollama" -> OllamaChild(call, t)
      [] call.command = "other" -> [code |-> call.status, proposals |-> call.proposals]

-----------------------------------------------------------------------------
(* The supervisor.  It answers the proposals of the child or fails, for    *)
(* good ("permanent"), because the provider limits the rate of calls       *)
(* ("rate"), or in a way worth a retry.                                    *)

Answer(proposals) == [failure |-> "none", proposals |-> proposals]
Failure(failure) == [failure |-> failure, proposals |-> {}]

Length(t) == IF t = <<>> THEN 0 ELSE Offset(t)[Len(t)] + t[Len(t)].size

RequestFits(t) == Length(t) <= MaxInput

(* _exit_error: only the statuses of a bundled child mean something. *)
ExitFailure(command, code) ==
    IF command = "other" THEN "retry"
    ELSE IF code \in {InvalidConfig, InvalidInput} THEN "permanent"
    ELSE IF code = RateLimited THEN "rate"
    ELSE "retry"

(* The pipes are written and drained to the end, within the time and the   *)
(* sizes allowed; else the process group is stopped.                       *)
Streamed(call) == call.process \notin {"hangs", "floods"}

(* What another program prints need not be a proposal document. *)
Parses(call) == call.command # "other" \/ call.body = "document"

(* SubprocessHostExtractor.extract. *)
Host(call, t) ==
    LET child == Child(call, t)
    IN  IF ~RequestFits(t) THEN Failure("permanent")
        ELSE IF call.process = "missing" \/ ~Streamed(call) THEN Failure("retry")
        ELSE IF child.code # 0 THEN Failure(ExitFailure(call.command, child.code))
        ELSE IF call.process = "litters" \/ ~Parses(call) THEN Failure("retry")
        ELSE Answer(child.proposals)

-----------------------------------------------------------------------------
(* The evidence verifier.                                                  *)

(* _must_review: claims no model is asked about. *)
MustReview(p) == p.claim \in {"instruction", "unrelated"}

(* parse_verification_verdict of what the verifier's model says. *)
Verdict(p) == p.claim = "supported"

(* The call of the model in a thread of its own, which is given up when it *)
(* takes too long, and the call itself.                                    *)
InTime(verifier) == verifier # "late"
Replies(verifier) == verifier \notin {"none", "unreachable"}

(* Mutated form of Verified: a verifier that does not answer in time is    *)
(* taken to agree.                                                         *)
VerifiedFailingOpen(p, verifier) ==
    ~MustReview(p) /\ (InTime(verifier) => Replies(verifier) /\ Verdict(p))

(* LocalOllamaEvidenceVerifier fails closed, and without a verifier        *)
(* nothing is verified.                                                    *)
Verified(p, verifier) ==
    ~MustReview(p) /\ InTime(verifier) /\ Replies(verifier) /\ Verdict(p)

-----------------------------------------------------------------------------
(* The processor.                                                          *)

CitedSpans(p, t) == {span \in Spans(t) : span.id = p.span}

(* The cited span is one of the transcript and the quote its exact text. *)
Grounded(p, t) == CitedSpans(p, t) # {} /\ p.quote = p.span

FromUser(p, t) == \A span \in CitedSpans(p, t) : Eligible(span)

Secret(p) == p.content = "secret"

Ephemeral(p) == p.content \in {"task", "echo"}

(* _normalize_typed_fields. *)
Resolvable(p) == p.typed = "state"

(* What is persisted of a proposal that passed the screens. *)
Items == [proposal : Proposal, verified : BOOLEAN, typed : BOOLEAN]

Screened(p, verifier) ==
    [proposal |-> p, verified |-> Verified(p, verifier),
     typed |-> Verified(p, verifier) /\ Resolvable(p)]

InTranscript(p, t) == p.quote[1] < p.quote[2] /\ p.quote[2] <= Length(t)

(* What cites another role is dropped; the rest must cite what it quotes. *)
Ungrounded(p, t) == ~InTranscript(p, t) \/ (FromUser(p, t) /\ ~Grounded(p, t))

ScreenedOut(p, t) == Ungrounded(p, t) \/ (FromUser(p, t) /\ Secret(p))

Kept(p, t) ==
    /\ Grounded(p, t) /\ FromUser(p, t)
    /\ ~Secret(p) /\ ~Ephemeral(p)

(* _make_snapshot: an answer of another shape, or one of which nothing but *)
(* ungrounded or secret proposals is left, is refused.                     *)
SnapshotRefused(proposals, t, verifier) ==
    \/ \E p \in proposals : p.content = "blank"
    \/ verifier = "strange" /\ \E p \in proposals : Grounded(p, t) /\ FromUser(p, t)
    \/ /\ \A p \in proposals : ~Kept(p, t)
       /\ \E p \in proposals : ScreenedOut(p, t)

Snapshot(proposals, t, verifier) ==
    {Screened(p, verifier) : p \in {q \in proposals : Kept(q, t)}}

(* The registry still gives typed fields the keys persisted with them. *)
StillNormalized(i, resolves) == ~i.typed \/ resolves

(* _prepare_snapshot: everything is looked at again. *)
PreparationRefused(items, t, resolves) ==
    \E i \in items :
        /\ ~Ephemeral(i.proposal)
        /\ \/ Ungrounded(i.proposal, t)
           \/ FromUser(i.proposal, t) /\ i.verified /\ ~StillNormalized(i, resolves)

(* slot: the request carries a state for the fact table.                   *)
Prepared(items, t) ==
    {[proposal |-> i.proposal, unreviewed |-> ~i.verified, slot |-> i.verified /\ i.typed] :
       i \in {j \in items : /\ ~Ephemeral(j.proposal) /\ ~Secret(j.proposal)
                           /\ FromUser(j.proposal, t)}}

=============================================================================
