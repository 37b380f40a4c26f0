--------------------------- MODULE MCLegacyFacts ----------------------------
(* The agent and an MCP server; two values of one thing and another fact.  *)
EXTENDS LegacyFacts

CONSTANTS a1, a2, b

MCNear == {}
MCUpdates == {<<a1, a2>>, <<a2, a1>>}

Quiet == [k \in Kinds |-> 0]
MCBudgets == {
    [Quiet EXCEPT !["add"] = 4, !["remove"] = 1, !["error"] = 1, !["crash"] = 1, !["update"] = 1],
    [Quiet EXCEPT !["add"] = 3, !["remove"] = 1, !["refused"] = 1, !["update"] = 1],
    [Quiet EXCEPT !["add"] = 3, !["reflect"] = 2, !["replace"] = 1, !["remove"] = 1],
    [Quiet EXCEPT !["add"] = 2, !["reflect"] = 1, !["replace"] = 2, !["uncascaded"] = 1],
    [Quiet EXCEPT !["embedder"] = 1, !["mirror"] = 1, !["update"] = 1, !["rebuild"] = 1],
    [Quiet EXCEPT !["embedder"] = 1, !["mirror"] = 2, !["embedfail"] = 1],
    [Quiet EXCEPT !["embedder"] = 1, !["add"] = 1, !["remove"] = 1, !["crash"] = 1]}
=============================================================================
