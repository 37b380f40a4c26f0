----------------------------- MODULE MCWriteLog -----------------------------
(* Two sessions: the hosts of a remember, with keys derived from what they *)
(* say (1, 2), and correct; b writes under keys of its own, one of them    *)
(* twice (3, 4), and promotes what it wrote for a run (5, 6).              *)
EXTENDS WriteLog

CONSTANTS a, b, k1, k2, k3, k4, k5, t1, t2, key, e1, private, run

Request(s, k, m, t, c, f) ==
    [session |-> s, key |-> k, method |-> m, text |-> t, evidence |-> e1, scope |-> c, target |-> f]

MCOrder == <<
    Request(a, k1, "write", t1, private, 0), Request(a, k2, "write", t2, private, 1),
    Request(b, k3, "write", t2, private, 0), Request(b, k3, "write", key, private, 0),
    Request(b, k4, "write", t1, run, 0), Request(b, k5, "promote", t1, private, 1)>>

MCOrders == DOMAIN MCOrder

Quiet == [k \in Kinds |-> 0]
MCBudgets == {
    [Quiet EXCEPT !["ask"] = 4, !["loss"] = 1],
    [Quiet EXCEPT !["ask"] = 3, !["loss"] = 1, !["kill"] = 1],
    [Quiet EXCEPT !["ask"] = 4, !["erase"] = 2],
    [Quiet EXCEPT !["ask"] = 3, !["erase"] = 1, !["loss"] = 1],
    [Quiet EXCEPT !["ask"] = 3, !["regrant"] = 1, !["fail"] = 1]}
=============================================================================
