------------------------------ MODULE MCRecall ------------------------------
(* The outbox alone with two workers and a crash; searches with one worker *)
(* while facts are written; the index over erasures and restarts.          *)
EXTENDS Recall

CONSTANTS w1, w2

Row(f, chars, status, shaped, slot) ==
    [fact |-> f, chars |-> chars, prefix |-> 60, status |-> status, shaped |-> shaped,
     slot |-> slot, current |-> TRUE, conflict |-> {}]

(* A long text of an agent, a reviewed one, and one that gives orders *)
MCTexts == <<Row(1, 200, "none", FALSE, {"slot"}), Row(2, 90, "human_confirmed", FALSE, {}),
             Row(3, 40, "none", TRUE, {})>>

MCBudgets == {
    [workers |-> {w1, w2}, fails |-> TRUE, facts |-> 2, writes |-> Unlimited, searches |-> 0, rebuilds |-> 0, crashes |-> 1],
    [workers |-> {w1}, fails |-> FALSE, facts |-> 3, writes |-> 1, searches |-> 1, rebuilds |-> 0, crashes |-> 0],
    [workers |-> {w1}, fails |-> FALSE, facts |-> 2, writes |-> 1, searches |-> 1, rebuilds |-> 1, crashes |-> 1],
    [workers |-> {w1}, fails |-> FALSE, facts |-> 3, writes |-> 2, searches |-> 0, rebuilds |-> 1, crashes |-> 1],
    [workers |-> {w1}, fails |-> FALSE, facts |-> 3, writes |-> 0, searches |-> 1, rebuilds |-> 1, crashes |-> 1]}
=============================================================================
