----------------------------- MODULE WriteLock ------------------------------
(***************************************************************************)
(* cross_process_write_lock: the advisory lock that legacy writers take    *)
(* around their multi-transaction writes.  Within a process threads meet   *)
(* at a registry guarded by a condition variable; the registered thread    *)
(* then takes flock on a descriptor of its own.  A process may hold the    *)
(* module twice (mcp_server.py loads it by file path beside the package's  *)
(* copy), and each copy has its own registry.                              *)
(*                                                                         *)
(* An open file description is named after the thread that opened it: it   *)
(* has one at a time.  flock belongs to the description and ends when it   *)
(* is unlocked or when no process has it open any more, which matters      *)
(* because a forked child inherits the descriptors of its parent.          *)
(***************************************************************************)
EXTENDS Naturals, FiniteSets, SequencesExt

CONSTANTS
    Processes,
    Threads,
    Copies,       \* copies of the module a process may hold
    Home,         \* the process of a thread
    Copy,         \* the copy of the module through which it takes the lock
    NoThread,
    MaxDepth      \* bound on nested entries of one thread

ASSUME WriteLockAssumption ==
    /\ Home \in [Threads -> Processes]
    /\ Copy \in [Threads -> Copies]
    /\ NoThread \notin Threads
    /\ MaxDepth \in Nat \ {0}

VARIABLES
    proc,      \* process -> unborn, alive or dead
    registry,  \* process and copy -> _held_by_path entry: owner and count
    pc,        \* thread -> step of cross_process_write_lock it is at
    bodies,    \* thread -> process in which it entered each body it is in
    open,      \* process -> descriptions it has open
    flock      \* thread whose description has the file locked

vars == <<proc, registry, pc, bodies, open, flock>>

Steps == {"idle", "entering", "waiting", "locking", "inside", "popped", "unlocked"}

Entry == [owner : Threads \cup {NoThread}, count : 0..MaxDepth]

Free == [owner |-> NoThread, count |-> 0]

TypeOK ==
    /\ proc \in [Processes -> {"unborn", "alive", "dead"}]
    /\ registry \in [Processes -> [Copies -> Entry]]
    /\ pc \in [Threads -> Steps]
    /\ bodies \in [Threads -> Seq(Processes)]
    /\ \A t \in Threads : Len(bodies[t]) <= MaxDepth
    /\ open \in [Processes -> SUBSET Threads]
    /\ flock \in Threads \cup {NoThread}

Init ==
    /\ proc \in [Processes -> {"unborn", "alive"}]
    /\ registry = [p \in Processes |-> [c \in Copies |-> Free]]
    /\ pc = [t \in Threads |-> "idle"]
    /\ bodies = [t \in Threads |-> <<>>]
    /\ open = [p \in Processes |-> {}]
    /\ flock = NoThread

Alive(t) == proc[Home[t]] = "alive"

Peers(t) == {u \in Threads : Home[u] = Home[t] /\ Copy[u] = Copy[t]}

Registered(t) == registry[Home[t]][Copy[t]]

SetRegistry(t, entry) == registry' = [registry EXCEPT ![Home[t]][Copy[t]] = entry]

(* _held_condition.notify_all() by thread t, whose own step becomes idle.  *)
NotifyAll(t) ==
    pc' = [u \in Threads |->
             IF u = t THEN "idle"
             ELSE IF u \in Peers(t) /\ pc[u] = "waiting" THEN "entering"
             ELSE pc[u]]

(* Who has the file locked when the descriptions ds are no longer open     *)
(* anywhere else.                                                          *)
FlockWithout(p, ds) ==
    IF flock \in ds /\ \A q \in Processes \ {p} : flock \notin open[q]
    THEN NoThread ELSE flock

-----------------------------------------------------------------------------
Calls(t) == \/ pc[t] = "entering"
            \/ pc[t] = "idle" /\ Len(bodies[t]) < MaxDepth

(* Register under the condition: open the file, or enter once more, or     *)
(* wait for the owner.  A waiter that was notified looks again.            *)
Register(t) ==
    /\ Alive(t)
    /\ Calls(t)
    /\ Registered(t) = Free
    /\ SetRegistry(t, [owner |-> t, count |-> 1])
    /\ open' = [open EXCEPT ![Home[t]] = @ \cup {t}]
    /\ pc' = [pc EXCEPT ![t] = "locking"]
    /\ UNCHANGED <<proc, bodies, flock>>

Reenter(t) ==
    /\ Alive(t)
    /\ pc[t] = "inside"
    /\ Registered(t).owner = t
    /\ Len(bodies[t]) < MaxDepth
    /\ SetRegistry(t, [Registered(t) EXCEPT !.count = @ + 1])
    /\ bodies' = [bodies EXCEPT ![t] = Append(@, Home[t])]
    /\ UNCHANGED <<proc, pc, open, flock>>

Wait(t) ==
    /\ Alive(t)
    /\ Calls(t)
    /\ Registered(t).owner \notin {t, NoThread}
    /\ pc' = [pc EXCEPT ![t] = "waiting"]
    /\ UNCHANGED <<proc, registry, bodies, open, flock>>

(* flock(LOCK_EX) outside the condition.                                   *)
Lock(t) ==
    /\ Alive(t)
    /\ pc[t] = "locking"
    /\ flock = NoThread
    /\ flock' = t
    /\ pc' = [pc EXCEPT ![t] = "inside"]
    /\ bodies' = [bodies EXCEPT ![t] = Append(@, Home[t])]
    /\ UNCHANGED <<proc, registry, open>>

(* flock raises: the entry is withdrawn and the waiters are told.          *)
LockFails(t) ==
    /\ Alive(t)
    /\ pc[t] = "locking"
    /\ open' = [open EXCEPT ![Home[t]] = @ \ {t}]
    /\ SetRegistry(t, Free)
    /\ NotifyAll(t)
    /\ UNCHANGED <<proc, bodies, flock>>

(* Mutated form of Leave: an inner body that ends gives the lock up.       *)
LeaveAtOnce(t) ==
    /\ Alive(t) /\ bodies[t] # <<>> /\ pc[t] = "inside"
    /\ bodies' = [bodies EXCEPT ![t] = Front(@)]
    /\ SetRegistry(t, Free)
    /\ pc' = [pc EXCEPT ![t] = "popped"]
    /\ UNCHANGED <<proc, open, flock>>

(* The body ends, by return or exception.  In a child process the bodies   *)
(* inherited from the parent end without touching the lock.                *)
Leave(t) ==
    /\ Alive(t)
    /\ bodies[t] # <<>>
    /\ pc[t] \in {"idle", "inside"}
    /\ bodies' = [bodies EXCEPT ![t] = Front(@)]
    /\ IF Last(bodies[t]) # Home[t]
       THEN UNCHANGED <<registry, pc>>
       ELSE LET left == Registered(t).count - 1
            IN  /\ SetRegistry(t, IF left = 0 THEN Free
                                  ELSE [Registered(t) EXCEPT !.count = left])
                /\ pc' = [pc EXCEPT ![t] = IF left = 0 THEN "popped" ELSE "inside"]
    /\ UNCHANGED <<proc, open, flock>>

(* LOCK_UN, then close: a duplicate left in a child no longer matters.     *)
Unlock(t) ==
    /\ Alive(t)
    /\ pc[t] = "popped"
    /\ flock' = IF flock = t THEN NoThread ELSE flock
    /\ open' = [p \in Processes |-> open[p] \ {t}]
    /\ pc' = [pc EXCEPT ![t] = "unlocked"]
    /\ UNCHANGED <<proc, registry, bodies>>

(* Mutated form of Notify: notify_all is forgotten.                        *)
NotifyNobody(t) ==
    /\ Alive(t) /\ pc[t] = "unlocked"
    /\ pc' = [pc EXCEPT ![t] = "idle"]
    /\ UNCHANGED <<proc, registry, bodies, open, flock>>

Notify(t) ==
    /\ Alive(t)
    /\ pc[t] = "unlocked"
    /\ NotifyAll(t)
    /\ UNCHANGED <<proc, registry, bodies, open, flock>>

-----------------------------------------------------------------------------
(* Thread t forks child c, which has one thread, the copy u of t; u goes   *)
(* on in the bodies t is in.  _reset_after_fork empties the registries and *)
(* closes the descriptions found in them; one that is being released has   *)
(* left its registry and stays open in the child.                          *)
Fork(t, c, u) ==
    /\ Alive(t) /\ proc[c] = "unborn"
    /\ Home[u] = c /\ Copy[u] = Copy[t]
    /\ pc[t] \in {"idle", "inside"}
    /\ proc' = [proc EXCEPT ![c] = "alive"]
    /\ registry' = [registry EXCEPT ![c] = [k \in Copies |-> Free]]
    /\ open' = [open EXCEPT ![c] = open[Home[t]] \
                  {registry[Home[t]][k].owner : k \in Copies}]
    /\ bodies' = [bodies EXCEPT ![u] = bodies[t]]
    /\ UNCHANGED <<pc, flock>>

(* A process ends at any point; the kernel closes its descriptors.         *)
Exit(p) ==
    /\ proc[p] = "alive"
    /\ proc' = [proc EXCEPT ![p] = "dead"]
    /\ open' = [open EXCEPT ![p] = {}]
    /\ flock' = FlockWithout(p, open[p])
    /\ UNCHANGED <<registry, pc, bodies>>

Thread(t) ==
    \/ Register(t) \/ Reenter(t) \/ Wait(t) \/ Lock(t) \/ LockFails(t)
    \/ Leave(t) \/ Unlock(t) \/ Notify(t)
    \/ \E c \in Processes, u \in Threads : Fork(t, c, u)

Next ==
    \/ \E t \in Threads : Thread(t)
    \/ \E p \in Processes : Exit(p)

Spec == Init /\ [][Next]_vars

(* A thread that has begun goes on, a body ends, and so does a child that  *)
(* was forked; nobody has to enter or to fork.                             *)
FairSpec ==
    /\ Spec
    /\ \A t \in Threads :
         /\ WF_vars(pc[t] = "entering" /\ (Register(t) \/ Wait(t)))
         /\ WF_vars(Lock(t))
         /\ WF_vars(Leave(t))
         /\ WF_vars(Unlock(t))
         /\ WF_vars(Notify(t))
    /\ \A p \in Processes : WF_vars(open[p] \ {t \in Threads : Home[t] = p} # {} /\ Exit(p))

-----------------------------------------------------------------------------
(* Properties.                                                             *)

Inside(t) == Alive(t) /\ Home[t] \in ToSet(bodies[t])

(* The lock excludes: of all threads of all processes, through either copy *)
(* of the module, across forks and deaths, one runs the body and only its  *)
(* return or death ends that.                                              *)
Advisory == INSTANCE AdvisoryLock WITH holders <- {t \in Threads : Inside(t)}

ImplementsAdvisoryLock == Advisory!Spec

(* A process that dies gives the file up.  Only one that dies between      *)
(* leaving its registry and LOCK_UN may leave it locked, by a child that   *)
(* another of its threads forked in that window.                           *)
DeathUnlocks ==
    flock # NoThread /\ ~Alive(flock) =>
        pc[flock] = "popped" /\ \E p \in Processes : flock \in open[p]

Wants(t) == Alive(t) /\ pc[t] \in {"waiting", "entering", "locking"}

(* The lock is always passed on: unless flock keeps failing, a thread that *)
(* waits for it sees somebody get it, or dies; no wakeup is lost, and no   *)
(* dead process keeps the file.                                            *)
LockPassedOn ==
    /\ [](TypeOK /\ DeathUnlocks)
    /\ <>[][\A t \in Threads : ~LockFails(t)]_vars =>
         \A t \in Threads : Wants(t) ~> (~Wants(t) \/ \E u \in Threads : Inside(u))
=============================================================================
