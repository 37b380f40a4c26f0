---------------------------- MODULE AdvisoryLock ----------------------------
(***************************************************************************)
(* What cross_process_write_lock promises: one thread at a time, in        *)
(* whatever process, runs the body, and only that thread's return, or the  *)
(* death of its process, ends it.                                          *)
(***************************************************************************)
CONSTANT Threads   \* threads of all processes

VARIABLE holders   \* the threads that run the body

Init == holders = {}

Acquire(t) == holders = {} /\ holders' = {t}

Release(t) == holders = {t} /\ holders' = {}

Next == \E t \in Threads : Acquire(t) \/ Release(t)

Spec == Init /\ [][Next]_holders
=============================================================================
