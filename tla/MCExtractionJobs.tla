-------------------------- MODULE MCExtractionJobs --------------------------
(* A small instance of ExtractionJobs: a conversation of which the user    *)
(* says the first two spans, and runs of the extractor that meet every     *)
(* check of module Extractor.                                              *)
EXTENDS ExtractionJobs, TLC

CONSTANTS w1, w2, p1

MCText == p1 :> <<[role |-> "user", size |-> 6], [role |-> "assistant", size |-> 3]>>

Fact == [content |-> "plain", span |-> <<0, 4>>, quote |-> <<0, 4>>,
         claim |-> "supported", typed |-> "state"]
Guess == [Fact EXCEPT !.span = <<4, 6>>, !.quote = <<4, 6>>, !.claim = "unsupported"]
Repeat == [Fact EXCEPT !.span = <<8, 11>>, !.quote = <<8, 11>>]

(* What no screen lets pass, alone or beside a fact. *)
Screen ==
    {Repeat, [Fact EXCEPT !.content = "secret"], [Fact EXCEPT !.content = "task"],
     [Fact EXCEPT !.quote = <<0, 6>>], [Fact EXCEPT !.quote = <<0, 19>>]}

Run == [command |-> "openai", flaws |-> {}, process |-> "exits", status |-> 200,
        body |-> "document", proposals |-> {}, verifier |-> "answers"]

MCCalls ==
    {[Run EXCEPT !.proposals = {Guess}, !.verifier = verifier] :
       verifier \in {"none", "answers", "unreachable", "late", "strange"}}
    \cup {[Run EXCEPT !.proposals = {Fact}]}
    \cup {[Run EXCEPT !.command = command, !.status = status] :
            command \in {"openai", "ollama"}, status \in {200, 401, 429, 503}}
    \cup {[Run EXCEPT !.command = command, !.flaws = {flaw}] :
            command \in {"openai", "ollama"}, flaw \in {"endpoint", "key"}}
    \cup {[Run EXCEPT !.body = body] : body \in {"refusal", "garbled", "oversized"}}
    \cup {[Run EXCEPT !.process = process] :
            process \in {"missing", "hangs", "floods", "litters"}}
    \cup {[Run EXCEPT !.command = "other", !.status = 0, !.proposals = {p}] : p \in Screen}
    \cup {[Run EXCEPT !.proposals = {[Fact EXCEPT !.content = content], Guess}] :
            content \in {"blank", "echo"}}
    \cup {[Run EXCEPT !.proposals = {p}] : p \in {Repeat, [Fact EXCEPT !.typed = "partial"]}}
    \cup {[Run EXCEPT !.command = "other", !.status = status] : status \in {0, 64}}
=============================================================================
