---------------------------- MODULE MCWriteLock -----------------------------
(* A process with two threads of the package's copy of the module and one  *)
(* of the copy loaded by path, and a second process: a forked child or an  *)
(* independent one.                                                        *)
EXTENDS WriteLock

CONSTANTS p1, p2, package, bypath, t1, t2, t3, u1

MCHome == (t1 :> p1) @@ (t2 :> p1) @@ (t3 :> p1) @@ (u1 :> p2)
MCCopy == (t1 :> package) @@ (t2 :> package) @@ (t3 :> bypath) @@ (u1 :> package)
=============================================================================
