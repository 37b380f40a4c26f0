-------------------------- MODULE WriteLockProofs --------------------------
(* Theorems of WriteLock for any number of processes, threads and copies   *)
(* of the module, and any depth of nesting.                                *)
EXTENDS WriteLock, SequenceTheorems, TLAPS

(* A thread registered in its process is the one that takes or has the     *)
(* lock there.                                                             *)
RegistryFitsAt(t) ==
    /\ pc[t] \in {"locking", "inside"} <=> Registered(t).owner = t
    /\ pc[t] = "locking" => Registered(t).count = 1
    /\ pc[t] = "inside" => Registered(t).count \in 1..Len(bodies[t])

RegistryFits == \A t \in Threads : RegistryFitsAt(t)

(* The bodies a thread entered in its own process are the last ones, as    *)
(* many as the registry counts; the others came with a fork.               *)
BodiesFitAt(t) ==
    /\ \A i \in 1..Len(bodies[t]) :
         /\ proc[bodies[t][i]] # "unborn"
         /\ bodies[t][i] = Home[t] <=>
              pc[t] = "inside" /\ i > Len(bodies[t]) - Registered(t).count
    /\ pc[t] \in {"entering", "waiting", "locking"} => Len(bodies[t]) < MaxDepth
    /\ proc[Home[t]] = "unborn" => pc[t] = "idle" /\ bodies[t] = <<>>

BodiesFit == \A t \in Threads : BodiesFitAt(t)

(* Who holds a description: its process between open and close, and what   *)
(* was forked while it was being released.                                 *)
DescriptionsFit ==
    /\ \A p \in Processes : proc[p] # "alive" => open[p] = {}
    /\ \A t \in Threads :
         Alive(t) => (t \in open[Home[t]] <=> pc[t] \in {"locking", "inside", "popped"})
    /\ \A p \in Processes : \A t \in open[p] : p # Home[t] => pc[t] = "popped"

(* The file is locked by a live thread between flock and LOCK_UN, or by a  *)
(* description that outlived such a thread.                                *)
FlockFits ==
    /\ \A t \in Threads : Alive(t) /\ pc[t] \in {"inside", "popped"} => flock = t
    /\ flock # NoThread =>
         /\ pc[flock] \in {"inside", "popped"}
         /\ ~Alive(flock) => pc[flock] = "popped"
         /\ \E p \in Processes : flock \in open[p]

(* The inductive invariant.                                                *)
IInv == TypeOK /\ RegistryFits /\ BodiesFit /\ DescriptionsFit /\ FlockFits

-----------------------------------------------------------------------------
(* Sequences of bodies.                                                    *)

LEMMA LengthOfBodies ==
    ASSUME NEW s \in Seq(Processes)
    PROVE  /\ Len(s) \in Nat
           /\ s # <<>> <=> Len(s) > 0
           /\ \A i \in 1..Len(s) : s[i] \in Processes
  BY LenProperties, EmptySeq, ElementOfSeq

LEMMA OneMoreBody ==
    ASSUME NEW s \in Seq(Processes), NEW p \in Processes
    PROVE  /\ Append(s, p) \in Seq(Processes) /\ Len(Append(s, p)) = Len(s) + 1
           /\ \A i \in 1..Len(s) : Append(s, p)[i] = s[i]
           /\ Append(s, p)[Len(s) + 1] = p
  BY AppendProperties

LEMMA Shorter ==
    ASSUME NEW s \in Seq(Processes), NEW n \in Nat, n < Len(s)
    PROVE  /\ SubSeq(s, 1, n) \in Seq(Processes) /\ Len(SubSeq(s, 1, n)) = n
           /\ \A i \in 1..n : SubSeq(s, 1, n)[i] = s[i]
  OBVIOUS

LEMMA OneBodyLess ==
    ASSUME NEW s \in Seq(Processes), s # <<>>
    PROVE  /\ Front(s) \in Seq(Processes) /\ Len(Front(s)) = Len(s) - 1
           /\ \A i \in 1..Len(Front(s)) : Front(s)[i] = s[i]
           /\ Last(s) = s[Len(s)] /\ Len(s) \in Nat \ {0}
  <1>1. Len(s) \in Nat \ {0}
    BY LengthOfBodies
  <1>2. Len(s) - 1 \in Nat /\ Len(s) - 1 < Len(s)
    BY <1>1
  <1> QED
    BY <1>1, <1>2, Shorter DEF Front, Last

(* A live thread runs a body of its own exactly while it has the lock. *)
LEMMA InsideIsStep ==
    ASSUME IInv, NEW t \in Threads
    PROVE  Inside(t) <=> Alive(t) /\ pc[t] = "inside"
  <1>1. bodies[t] \in Seq(Processes) /\ Len(bodies[t]) \in Nat /\ DOMAIN bodies[t] = 1..Len(bodies[t])
    BY LenProperties DEF IInv, TypeOK
  <1>2. Home[t] \in ToSet(bodies[t]) <=> \E i \in 1..Len(bodies[t]) : bodies[t][i] = Home[t]
    BY <1>1 DEF ToSet
  <1>3. pc[t] = "inside" => Registered(t).count \in 1..Len(bodies[t])
    BY DEF IInv, RegistryFits, RegistryFitsAt
  <1>4. (\E i \in 1..Len(bodies[t]) : bodies[t][i] = Home[t]) <=> pc[t] = "inside"
    BY <1>1, <1>3 DEF IInv, BodiesFit, BodiesFitAt
  <1> QED
    BY <1>2, <1>4 DEF Inside

(* notify_all changes the step of the notifier and of waiting peers. *)
LEMMA NotifyTells ==
    ASSUME NEW t \in Threads, TypeOK, NotifyAll(t)
    PROVE  /\ pc' \in [Threads -> Steps] /\ pc'[t] = "idle"
           /\ \A u \in Threads \ {t} :
                pc'[u] = pc[u] \/ (pc[u] = "waiting" /\ pc'[u] = "entering")
  BY DEF TypeOK, NotifyAll, Steps

LEMMA Counted ==
    ASSUME NEW r \in Entry, NEW n \in Nat
    PROVE  [r EXCEPT !.count = n] = [owner |-> r.owner, count |-> n]
  BY DEF Entry

(* One entry of the registry is set. *)
LEMMA RegistryIsSet ==
    ASSUME NEW t \in Threads, NEW e \in Entry, TypeOK, SetRegistry(t, e)
    PROVE  /\ registry' \in [Processes -> [Copies -> Entry]]
           /\ \A u \in Threads :
                Registered(u)' = IF Home[u] = Home[t] /\ Copy[u] = Copy[t] THEN e ELSE Registered(u)
  BY WriteLockAssumption DEF TypeOK, SetRegistry, Registered

-----------------------------------------------------------------------------
LEMMA InitIInv == Init => IInv
  <1> SUFFICES ASSUME Init PROVE IInv
    OBVIOUS
  <1>1. Free \in Entry
    BY WriteLockAssumption DEF Free, Entry
  <1>2. Len(<<>>) = 0 /\ <<>> \in Seq(Processes)
    BY EmptySeq
  <1>3. TypeOK
    BY <1>1, <1>2, WriteLockAssumption DEF Init, TypeOK, Steps
  <1>4. \A t \in Threads : Registered(t) = Free
    BY WriteLockAssumption DEF Init, Registered
  <1>5. RegistryFits
    BY <1>4, WriteLockAssumption DEF Init, RegistryFits, RegistryFitsAt, Free
  <1>6. BodiesFit
    BY <1>2 DEF Init, BodiesFit, BodiesFitAt
  <1>7. DescriptionsFit /\ FlockFits
    BY WriteLockAssumption DEF Init, DescriptionsFit, FlockFits
  <1> QED
    BY <1>3, <1>5, <1>6, <1>7 DEF IInv

LEMMA RegisterKeeps ==
    ASSUME IInv, NEW t \in Threads, Register(t)
    PROVE  IInv'
  <1> DEFINE e == [owner |-> t, count |-> 1]
  <1>0. TypeOK /\ RegistryFits /\ BodiesFit /\ DescriptionsFit /\ FlockFits
    BY DEF IInv
  <1>1. e \in Entry
    BY WriteLockAssumption DEF Entry
  <1>2. /\ registry' \in [Processes -> [Copies -> Entry]]
        /\ \A u \in Threads :
             Registered(u)' = IF Home[u] = Home[t] /\ Copy[u] = Copy[t] THEN e ELSE Registered(u)
    BY <1>0, <1>1, RegistryIsSet DEF Register
  <1>3. /\ pc' \in [Threads -> Steps] /\ pc'[t] = "locking" /\ \A u \in Threads \ {t} : pc'[u] = pc[u]
        /\ pc[t] \in {"idle", "entering"} /\ Registered(t) = Free /\ Len(bodies[t]) < MaxDepth
    BY <1>0 DEF Register, Calls, TypeOK, Steps, BodiesFit, BodiesFitAt
  <1>4. /\ Home[t] \in Processes /\ t # NoThread
        /\ open' \in [Processes -> SUBSET Threads] /\ open'[Home[t]] = open[Home[t]] \cup {t}
        /\ \A p \in Processes \ {Home[t]} : open'[p] = open[p]
    BY <1>0, WriteLockAssumption DEF Register, TypeOK
  <1>5. proc' = proc /\ bodies' = bodies /\ flock' = flock /\ proc[Home[t]] = "alive"
    BY DEF Register, Alive
  <1>6. TypeOK'
    BY <1>0, <1>2, <1>3, <1>4, <1>5 DEF TypeOK
  <1>7. \A u \in Threads \ {t} :
          Home[u] = Home[t] /\ Copy[u] = Copy[t] => pc[u] \notin {"locking", "inside"}
    BY <1>0, <1>3, WriteLockAssumption DEF RegistryFits, RegistryFitsAt, Registered, Free
  <1>8. RegistryFits'
    <2> SUFFICES ASSUME NEW u \in Threads PROVE RegistryFitsAt(u)'
      BY DEF RegistryFits
    <2>1. RegistryFitsAt(u)
      BY <1>0 DEF RegistryFits
    <2> QED
      BY <1>2, <1>3, <1>5, <1>7, <2>1 DEF RegistryFitsAt
  <1>9. BodiesFit'
    <2> SUFFICES ASSUME NEW u \in Threads PROVE BodiesFitAt(u)'
      BY DEF BodiesFit
    <2>1. BodiesFitAt(u)
      BY <1>0 DEF BodiesFit
    <2> QED
      BY <1>2, <1>3, <1>5, <1>7, <2>1 DEF BodiesFitAt
  <1>10. DescriptionsFit'
    BY <1>0, <1>3, <1>4, <1>5, WriteLockAssumption DEF DescriptionsFit, Alive
  <1>11. FlockFits'
    <2>1. t \notin open[Home[t]] /\ flock # t
      BY <1>0, <1>3, <1>4, <1>5 DEF DescriptionsFit, FlockFits, Alive
    <2> QED
      BY <1>0, <1>3, <1>4, <1>5, <2>1, WriteLockAssumption DEF FlockFits, Alive, TypeOK
  <1> QED
    BY <1>6, <1>8, <1>9, <1>10, <1>11 DEF IInv

LEMMA ReenterKeeps ==
    ASSUME IInv, NEW t \in Threads, Reenter(t)
    PROVE  IInv'
  <1>0. TypeOK /\ RegistryFits /\ BodiesFit /\ DescriptionsFit /\ FlockFits
    BY DEF IInv
  <1> DEFINE e == [owner |-> t, count |-> Registered(t).count + 1]
             s == Append(bodies[t], Home[t])
  <1>1. /\ Registered(t).owner = t /\ Registered(t).count \in 1..Len(bodies[t])
        /\ pc[t] = "inside" /\ bodies[t] \in Seq(Processes) /\ Len(bodies[t]) \in Nat
        /\ Len(bodies[t]) < MaxDepth /\ Home[t] \in Processes /\ proc[Home[t]] = "alive"
        /\ flock = t
    BY <1>0, LengthOfBodies, WriteLockAssumption
       DEF Reenter, RegistryFits, RegistryFitsAt, TypeOK, FlockFits, Alive
  <1>2. e \in Entry
    BY <1>1, WriteLockAssumption DEF Entry
  <1>3. Registered(t) \in Entry /\ [Registered(t) EXCEPT !.count = Registered(t).count + 1] = e
    <2>1. Registered(t) \in Entry
      BY <1>0, <1>1, WriteLockAssumption DEF TypeOK, Registered
    <2> QED
      BY <1>1, <2>1, Counted
  <1>4. /\ registry' \in [Processes -> [Copies -> Entry]]
        /\ \A u \in Threads :
             Registered(u)' = IF Home[u] = Home[t] /\ Copy[u] = Copy[t] THEN e ELSE Registered(u)
    BY <1>0, <1>2, <1>3, RegistryIsSet DEF Reenter
  <1>5. /\ s \in Seq(Processes) /\ Len(s) = Len(bodies[t]) + 1
        /\ \A i \in 1..Len(bodies[t]) : s[i] = bodies[t][i]
        /\ s[Len(bodies[t]) + 1] = Home[t]
    BY <1>1, OneMoreBody
  <1>6. /\ bodies' \in [Threads -> Seq(Processes)] /\ bodies'[t] = s
        /\ \A u \in Threads \ {t} : bodies'[u] = bodies[u]
    BY <1>0, <1>5 DEF Reenter, TypeOK
  <1>7. proc' = proc /\ pc' = pc /\ open' = open /\ flock' = flock
    BY DEF Reenter
  <1>8. TypeOK'
    <2>1. Len(s) <= MaxDepth
      BY <1>1, <1>5, WriteLockAssumption
    <2>2. \A u \in Threads : Len(bodies'[u]) <= MaxDepth
      BY <1>0, <1>6, <2>1 DEF TypeOK
    <2> QED
      BY <1>0, <1>4, <1>6, <1>7, <2>2 DEF TypeOK
  <1>9. \A u \in Threads \ {t} :
          Home[u] = Home[t] /\ Copy[u] = Copy[t] => pc[u] \notin {"locking", "inside"}
    BY <1>0, <1>1, WriteLockAssumption DEF RegistryFits, RegistryFitsAt, Registered
  <1>10. RegistryFits'
    <2> SUFFICES ASSUME NEW u \in Threads PROVE RegistryFitsAt(u)'
      BY DEF RegistryFits
    <2>1. RegistryFitsAt(u)
      BY <1>0 DEF RegistryFits
    <2>2. CASE u = t
      <3>1. Registered(t)' = e /\ bodies'[t] = s /\ pc'[t] = "inside"
        BY <1>1, <1>4, <1>6, <1>7
      <3>2. e.owner = t /\ e.count \in 1..Len(s)
        BY <1>1, <1>5
      <3> QED
        BY <2>2, <3>1, <3>2 DEF RegistryFitsAt
    <2>3. CASE u # t /\ Home[u] = Home[t] /\ Copy[u] = Copy[t]
      <3>1. Registered(u)' = e /\ pc'[u] \notin {"locking", "inside"}
        BY <1>4, <1>7, <1>9, <2>3
      <3> QED
        BY <2>3, <3>1 DEF RegistryFitsAt
    <2>4. CASE u # t /\ ~(Home[u] = Home[t] /\ Copy[u] = Copy[t])
      BY <1>4, <1>6, <1>7, <2>1, <2>4 DEF RegistryFitsAt
    <2> QED
      BY <2>2, <2>3, <2>4
  <1>11. BodiesFit'
    <2> SUFFICES ASSUME NEW u \in Threads PROVE BodiesFitAt(u)'
      BY DEF BodiesFit
    <2>1. BodiesFitAt(u)
      BY <1>0 DEF BodiesFit
    <2>2. CASE u = t
      <3>1. ASSUME NEW i \in 1..Len(s)
            PROVE  /\ proc[s[i]] # "unborn"
                   /\ s[i] = Home[t] <=> i > Len(s) - e.count
        <4>1. CASE i = Len(s)
          BY <1>1, <1>5, <4>1
        <4>2. CASE i \in 1..Len(bodies[t])
          BY <1>1, <1>5, <2>1, <2>2, <4>2 DEF BodiesFitAt
        <4> QED
          BY <1>1, <1>5, <4>1, <4>2
      <3> QED
        BY <1>1, <1>4, <1>6, <1>7, <2>2, <3>1 DEF BodiesFitAt
    <2> QED
      BY <1>4, <1>6, <1>7, <1>9, <2>1, <2>2 DEF BodiesFitAt
  <1>12. DescriptionsFit' /\ FlockFits'
    BY <1>0, <1>7 DEF DescriptionsFit, FlockFits, Alive
  <1> QED
    BY <1>8, <1>10, <1>11, <1>12 DEF IInv

LEMMA WaitKeeps ==
    ASSUME IInv, NEW t \in Threads, Wait(t)
    PROVE  IInv'
  <1>0. TypeOK /\ RegistryFits /\ BodiesFit /\ DescriptionsFit /\ FlockFits
    BY DEF IInv
  <1>1. /\ pc' \in [Threads -> Steps] /\ pc'[t] = "waiting" /\ \A u \in Threads \ {t} : pc'[u] = pc[u]
        /\ pc[t] \in {"idle", "entering"} /\ Len(bodies[t]) < MaxDepth /\ proc[Home[t]] = "alive"
    BY <1>0 DEF Wait, Calls, Alive, TypeOK, Steps, BodiesFit, BodiesFitAt
  <1>2. /\ proc' = proc /\ registry' = registry /\ bodies' = bodies /\ open' = open /\ flock' = flock
        /\ \A u \in Threads : Registered(u)' = Registered(u)
    BY DEF Wait, Registered
  <1>3. TypeOK'
    BY <1>0, <1>1, <1>2 DEF TypeOK
  <1>4. RegistryFits'
    <2> SUFFICES ASSUME NEW u \in Threads PROVE RegistryFitsAt(u)'
      BY DEF RegistryFits
    <2>1. RegistryFitsAt(u)
      BY <1>0 DEF RegistryFits
    <2> QED
      BY <1>1, <1>2, <2>1 DEF RegistryFitsAt
  <1>5. BodiesFit'
    <2> SUFFICES ASSUME NEW u \in Threads PROVE BodiesFitAt(u)'
      BY DEF BodiesFit
    <2>1. BodiesFitAt(u)
      BY <1>0 DEF BodiesFit
    <2> QED
      BY <1>1, <1>2, <2>1 DEF BodiesFitAt
  <1>6. DescriptionsFit'
    <2>1. \A p \in Processes : proc'[p] # "alive" => open'[p] = {}
      BY <1>0, <1>1, <1>2 DEF DescriptionsFit
    <2>2. \A u \in Threads :
            Alive(u)' => (u \in open'[Home[u]] <=> pc'[u] \in {"locking", "inside", "popped"})
      BY <1>0, <1>1, <1>2, WriteLockAssumption DEF DescriptionsFit, Alive
    <2>3. \A p \in Processes : \A u \in open'[p] : p # Home[u] => pc'[u] = "popped"
      BY <1>0, <1>1, <1>2 DEF DescriptionsFit, TypeOK
    <2> QED
      BY <2>1, <2>2, <2>3 DEF DescriptionsFit
  <1>7. FlockFits'
    BY <1>0, <1>1, <1>2, WriteLockAssumption DEF FlockFits, Alive, TypeOK
  <1> QED
    BY <1>3, <1>4, <1>5, <1>6, <1>7 DEF IInv

LEMMA LockKeeps ==
    ASSUME IInv, NEW t \in Threads, Lock(t)
    PROVE  IInv'
  <1>0. TypeOK /\ RegistryFits /\ BodiesFit /\ DescriptionsFit /\ FlockFits
    BY DEF IInv
  <1> DEFINE s == Append(bodies[t], Home[t])
  <1>1. /\ pc[t] = "locking" /\ Registered(t).owner = t /\ Registered(t).count = 1
        /\ bodies[t] \in Seq(Processes) /\ Len(bodies[t]) \in Nat /\ Len(bodies[t]) < MaxDepth
        /\ Home[t] \in Processes /\ proc[Home[t]] = "alive" /\ flock = NoThread /\ flock' = t
        /\ t \in open[Home[t]] /\ t # NoThread
    BY <1>0, LengthOfBodies, WriteLockAssumption
       DEF Lock, RegistryFits, RegistryFitsAt, BodiesFit, BodiesFitAt, TypeOK, DescriptionsFit, Alive
  <1>2. /\ s \in Seq(Processes) /\ Len(s) = Len(bodies[t]) + 1
        /\ \A i \in 1..Len(bodies[t]) : s[i] = bodies[t][i]
        /\ s[Len(bodies[t]) + 1] = Home[t]
    BY <1>1, OneMoreBody
  <1>3. /\ bodies' \in [Threads -> Seq(Processes)] /\ bodies'[t] = s
        /\ \A u \in Threads \ {t} : bodies'[u] = bodies[u]
    BY <1>0, <1>2 DEF Lock, TypeOK
  <1>4. /\ pc' \in [Threads -> Steps] /\ pc'[t] = "inside" /\ \A u \in Threads \ {t} : pc'[u] = pc[u]
    BY <1>0 DEF Lock, TypeOK, Steps
  <1>5. /\ proc' = proc /\ registry' = registry /\ open' = open
        /\ \A u \in Threads : Registered(u)' = Registered(u)
    BY DEF Lock, Registered
  <1>6. TypeOK'
    <2>1. Len(s) <= MaxDepth
      BY <1>1, <1>2, WriteLockAssumption
    <2>2. \A u \in Threads : Len(bodies'[u]) <= MaxDepth
      BY <1>0, <1>3, <2>1 DEF TypeOK
    <2> QED
      BY <1>0, <1>1, <1>3, <1>4, <1>5, <2>2 DEF TypeOK
  <1>7. RegistryFits'
    <2> SUFFICES ASSUME NEW u \in Threads PROVE RegistryFitsAt(u)'
      BY DEF RegistryFits
    <2>1. RegistryFitsAt(u)
      BY <1>0 DEF RegistryFits
    <2> QED
      BY <1>1, <1>2, <1>3, <1>4, <1>5, <2>1 DEF RegistryFitsAt
  <1>8. BodiesFit'
    <2> SUFFICES ASSUME NEW u \in Threads PROVE BodiesFitAt(u)'
      BY DEF BodiesFit
    <2>1. BodiesFitAt(u)
      BY <1>0 DEF BodiesFit
    <2>2. CASE u = t
      <3>1. ASSUME NEW i \in 1..Len(s)
            PROVE  /\ proc[s[i]] # "unborn"
                   /\ s[i] = Home[t] <=> i > Len(s) - 1
        <4>1. CASE i = Len(s)
          BY <1>1, <1>2, <4>1
        <4>2. CASE i \in 1..Len(bodies[t])
          BY <1>1, <1>2, <2>1, <2>2, <4>2 DEF BodiesFitAt
        <4> QED
          BY <1>1, <1>2, <4>1, <4>2
      <3> QED
        BY <1>1, <1>3, <1>4, <1>5, <2>2, <3>1 DEF BodiesFitAt
    <2> QED
      BY <1>3, <1>4, <1>5, <2>1, <2>2 DEF BodiesFitAt
  <1>9. DescriptionsFit'
    <2>1. \A p \in Processes : proc'[p] # "alive" => open'[p] = {}
      BY <1>0, <1>1, <1>4, <1>5 DEF DescriptionsFit
    <2>2. \A u \in Threads :
            Alive(u)' => (u \in open'[Home[u]] <=> pc'[u] \in {"locking", "inside", "popped"})
      BY <1>0, <1>1, <1>4, <1>5, WriteLockAssumption DEF DescriptionsFit, Alive
    <2>3. \A p \in Processes : \A u \in open'[p] : p # Home[u] => pc'[u] = "popped"
      BY <1>0, <1>1, <1>4, <1>5 DEF DescriptionsFit, TypeOK
    <2> QED
      BY <2>1, <2>2, <2>3 DEF DescriptionsFit
  <1>10. FlockFits'
    <2>1. \A u \in Threads : Alive(u)' /\ pc'[u] \in {"inside", "popped"} => flock' = u
      BY <1>0, <1>1, <1>4, <1>5, WriteLockAssumption DEF FlockFits, Alive
    <2> QED
      BY <1>1, <1>4, <1>5, <2>1 DEF FlockFits, Alive
  <1> QED
    BY <1>6, <1>7, <1>8, <1>9, <1>10 DEF IInv

LEMMA LockFailsKeeps ==
    ASSUME IInv, NEW t \in Threads, LockFails(t)
    PROVE  IInv'
  <1>0. TypeOK /\ RegistryFits /\ BodiesFit /\ DescriptionsFit /\ FlockFits
    BY DEF IInv
  <1>1. /\ pc[t] = "locking" /\ Registered(t).owner = t /\ t # NoThread
        /\ Home[t] \in Processes /\ proc[Home[t]] = "alive" /\ Free \in Entry
    BY <1>0, WriteLockAssumption
       DEF LockFails, RegistryFits, RegistryFitsAt, Alive, Entry, Free
  <1>2. /\ registry' \in [Processes -> [Copies -> Entry]]
        /\ \A u \in Threads :
             Registered(u)' = IF Home[u] = Home[t] /\ Copy[u] = Copy[t] THEN Free ELSE Registered(u)
    BY <1>0, <1>1, RegistryIsSet DEF LockFails
  <1>3. /\ pc' \in [Threads -> Steps] /\ pc'[t] = "idle"
        /\ \A u \in Threads \ {t} :
             pc'[u] = pc[u] \/ (pc[u] = "waiting" /\ pc'[u] = "entering")
    BY <1>0, NotifyTells DEF LockFails
  <1>4. /\ open' \in [Processes -> SUBSET Threads] /\ open'[Home[t]] = open[Home[t]] \ {t}
        /\ \A p \in Processes \ {Home[t]} : open'[p] = open[p]
    BY <1>0, <1>1 DEF LockFails, TypeOK
  <1>5. proc' = proc /\ bodies' = bodies /\ flock' = flock
    BY DEF LockFails
  <1>6. TypeOK'
    BY <1>0, <1>2, <1>3, <1>4, <1>5 DEF TypeOK
  <1>7. \A u \in Threads \ {t} :
          Home[u] = Home[t] /\ Copy[u] = Copy[t] => pc[u] \notin {"locking", "inside"}
    BY <1>0, <1>1 DEF RegistryFits, RegistryFitsAt, Registered
  <1>8. Free.owner = NoThread /\ NoThread \notin Threads
    BY WriteLockAssumption DEF Free
  <1>9. RegistryFits'
    <2> SUFFICES ASSUME NEW u \in Threads PROVE RegistryFitsAt(u)'
      BY DEF RegistryFits
    <2>1. RegistryFitsAt(u)
      BY <1>0 DEF RegistryFits
    <2> QED
      BY <1>1, <1>2, <1>3, <1>5, <1>7, <1>8, <2>1 DEF RegistryFitsAt
  <1>10. BodiesFit'
    <2> SUFFICES ASSUME NEW u \in Threads PROVE BodiesFitAt(u)'
      BY DEF BodiesFit
    <2>1. BodiesFitAt(u)
      BY <1>0 DEF BodiesFit
    <2>2. CASE u = t
      BY <1>1, <1>3, <1>5, <2>1, <2>2 DEF BodiesFitAt
    <2>3. CASE u # t /\ pc[u] = "inside"
      BY <1>2, <1>3, <1>5, <1>7, <2>1, <2>3 DEF BodiesFitAt
    <2>4. CASE u # t /\ pc[u] # "inside"
      BY <1>3, <1>5, <2>1, <2>4 DEF BodiesFitAt
    <2> QED
      BY <2>2, <2>3, <2>4
  <1>11. DescriptionsFit'
    BY <1>0, <1>1, <1>3, <1>4, <1>5, WriteLockAssumption DEF DescriptionsFit, Alive
  <1>12. FlockFits'
    BY <1>0, <1>1, <1>3, <1>4, <1>5, WriteLockAssumption DEF FlockFits, Alive, TypeOK
  <1> QED
    BY <1>6, <1>9, <1>10, <1>11, <1>12 DEF IInv

LEMMA LeaveKeeps ==
    ASSUME IInv, NEW t \in Threads, Leave(t)
    PROVE  IInv'
  <1>0. TypeOK /\ RegistryFits /\ BodiesFit /\ DescriptionsFit /\ FlockFits
    BY DEF IInv
  <1> DEFINE s == Front(bodies[t])
             n == Len(bodies[t])
             left == Registered(t).count - 1
             e == IF left = 0 THEN Free ELSE [owner |-> t, count |-> left]
  <1>1. /\ bodies[t] \in Seq(Processes) /\ bodies[t] # <<>> /\ n <= MaxDepth
        /\ Home[t] \in Processes /\ proc[Home[t]] = "alive" /\ pc[t] \in {"idle", "inside"}
        /\ MaxDepth \in Nat
    BY <1>0, WriteLockAssumption DEF Leave, TypeOK, Alive
  <1>2. /\ s \in Seq(Processes) /\ Len(s) = n - 1 /\ n \in Nat \ {0}
        /\ \A i \in 1..Len(s) : s[i] = bodies[t][i]
        /\ Last(bodies[t]) = bodies[t][n]
    BY <1>1, OneBodyLess
  <1>3. /\ bodies' \in [Threads -> Seq(Processes)] /\ bodies'[t] = s
        /\ \A u \in Threads \ {t} : bodies'[u] = bodies[u]
    BY <1>0, <1>2 DEF Leave, TypeOK
  <1>4. proc' = proc /\ open' = open /\ flock' = flock
    BY DEF Leave
  <1>5. \A u \in Threads : Len(bodies'[u]) <= MaxDepth
    BY <1>0, <1>1, <1>2, <1>3 DEF TypeOK
  <1>6. RegistryFitsAt(t) /\ BodiesFitAt(t)
    BY <1>0 DEF RegistryFits, BodiesFit
  <1>7. bodies[t][n] = Home[t] <=> pc[t] = "inside"
    BY <1>2, <1>6 DEF RegistryFitsAt, BodiesFitAt
  <1>8. CASE pc[t] = "idle"
    <2>1. registry' = registry /\ pc' = pc /\ \A u \in Threads : Registered(u)' = Registered(u)
      BY <1>2, <1>7, <1>8 DEF Leave, Registered
    <2>2. TypeOK'
      BY <1>0, <1>3, <1>4, <1>5, <2>1 DEF TypeOK
    <2>3. RegistryFits'
      <3> SUFFICES ASSUME NEW u \in Threads PROVE RegistryFitsAt(u)'
        BY DEF RegistryFits
      <3>1. RegistryFitsAt(u)
        BY <1>0 DEF RegistryFits
      <3> QED
        BY <1>3, <1>8, <2>1, <3>1 DEF RegistryFitsAt
    <2>4. BodiesFit'
      <3> SUFFICES ASSUME NEW u \in Threads PROVE BodiesFitAt(u)'
        BY DEF BodiesFit
      <3>1. BodiesFitAt(u)
        BY <1>0 DEF BodiesFit
      <3>2. CASE u = t
        <4>1. \A i \in 1..Len(s) : proc[s[i]] # "unborn" /\ s[i] # Home[t]
          BY <1>2, <1>6, <1>8 DEF BodiesFitAt
        <4> QED
          BY <1>1, <1>3, <1>4, <1>8, <2>1, <3>2, <4>1 DEF BodiesFitAt
      <3> QED
        BY <1>3, <1>4, <2>1, <3>1, <3>2 DEF BodiesFitAt
    <2>5. DescriptionsFit' /\ FlockFits'
      BY <1>0, <1>4, <2>1 DEF DescriptionsFit, FlockFits, Alive
    <2> QED
      BY <2>2, <2>3, <2>4, <2>5 DEF IInv
  <1>9. CASE pc[t] = "inside"
    <2>1. /\ Registered(t).owner = t /\ Registered(t).count \in 1..n
          /\ flock = t
      BY <1>0, <1>1, <1>6, <1>9 DEF RegistryFitsAt, FlockFits, Alive
    <2>2. /\ left \in Nat /\ e \in Entry
      BY <1>1, <1>2, <2>1 DEF Entry, Free
    <2>3. Registered(t) \in Entry
      BY <1>0, <1>1, WriteLockAssumption DEF TypeOK, Registered
    <2>4. [Registered(t) EXCEPT !.count = left] = [owner |-> t, count |-> left]
      BY <2>1, <2>2, <2>3, Counted
    <2>5. SetRegistry(t, e) /\ pc' = [pc EXCEPT ![t] = IF left = 0 THEN "popped" ELSE "inside"]
      BY <1>2, <1>7, <1>9, <2>4 DEF Leave
    <2>6. /\ registry' \in [Processes -> [Copies -> Entry]]
          /\ \A u \in Threads :
               Registered(u)' = IF Home[u] = Home[t] /\ Copy[u] = Copy[t] THEN e ELSE Registered(u)
      BY <1>0, <2>2, <2>5, RegistryIsSet
    <2>7. /\ pc' \in [Threads -> Steps] /\ \A u \in Threads \ {t} : pc'[u] = pc[u]
          /\ pc'[t] = IF left = 0 THEN "popped" ELSE "inside"
      BY <1>0, <2>5 DEF TypeOK, Steps
    <2>8. TypeOK'
      BY <1>0, <1>3, <1>4, <1>5, <2>6, <2>7 DEF TypeOK
    <2>9. \A u \in Threads \ {t} :
            Home[u] = Home[t] /\ Copy[u] = Copy[t] => pc[u] \notin {"locking", "inside"}
      BY <1>0, <2>1 DEF RegistryFits, RegistryFitsAt, Registered
    <2>10. /\ Free.owner = NoThread /\ NoThread \notin Threads
           /\ left # 0 => e = [owner |-> t, count |-> left]
           /\ left = 0 => e = Free
      BY WriteLockAssumption DEF Free
    <2>11. RegistryFits'
      <3> SUFFICES ASSUME NEW u \in Threads PROVE RegistryFitsAt(u)'
        BY DEF RegistryFits
      <3>1. RegistryFitsAt(u)
        BY <1>0 DEF RegistryFits
      <3>2. CASE u = t /\ left = 0
        BY <2>6, <2>7, <2>10, <3>2 DEF RegistryFitsAt
      <3>3. CASE u = t /\ left # 0
        BY <1>2, <1>3, <2>1, <2>2, <2>6, <2>7, <2>10, <3>3 DEF RegistryFitsAt
      <3>4. CASE u # t /\ Home[u] = Home[t] /\ Copy[u] = Copy[t]
        BY <2>6, <2>7, <2>9, <2>10, <3>4 DEF RegistryFitsAt
      <3>5. CASE u # t /\ ~(Home[u] = Home[t] /\ Copy[u] = Copy[t])
        BY <1>3, <2>6, <2>7, <3>1, <3>5 DEF RegistryFitsAt
      <3> QED
        BY <3>2, <3>3, <3>4, <3>5
    <2>12. BodiesFit'
      <3> SUFFICES ASSUME NEW u \in Threads PROVE BodiesFitAt(u)'
        BY DEF BodiesFit
      <3>1. BodiesFitAt(u)
        BY <1>0 DEF BodiesFit
      <3>2. CASE u = t
        <4>1. ASSUME NEW i \in 1..Len(s)
              PROVE  /\ proc[s[i]] # "unborn"
                     /\ s[i] = Home[t] <=> i > Len(s) - left
          <5>1. i \in 1..n /\ s[i] = bodies[t][i]
            BY <1>2
          <5>2. i > Len(s) - left <=> i > n - Registered(t).count
            BY <1>2, <2>1
          <5> QED
            BY <1>6, <1>9, <5>1, <5>2 DEF BodiesFitAt
        <4>2. CASE left = 0
          <5>1. pc'[t] = "popped" /\ \A i \in 1..Len(s) : ~(i > Len(s) - left)
            BY <1>2, <2>7, <4>2
          <5> QED
            BY <1>1, <1>3, <1>4, <3>2, <4>1, <5>1 DEF BodiesFitAt
        <4>3. CASE left # 0
          <5>1. pc'[t] = "inside" /\ Registered(t)'.count = left
            BY <2>6, <2>7, <2>10, <4>3
          <5> QED
            BY <1>1, <1>3, <1>4, <3>2, <4>1, <5>1 DEF BodiesFitAt
        <4> QED
          BY <4>2, <4>3
      <3>3. CASE u # t /\ pc[u] = "inside"
        BY <1>3, <1>4, <2>6, <2>7, <2>9, <3>1, <3>3 DEF BodiesFitAt
      <3>4. CASE u # t /\ pc[u] # "inside"
        BY <1>3, <1>4, <2>7, <3>1, <3>4 DEF BodiesFitAt
      <3> QED
        BY <3>2, <3>3, <3>4
    <2>13. DescriptionsFit'
      <3>1. \A p \in Processes : proc'[p] # "alive" => open'[p] = {}
        BY <1>0, <1>4 DEF DescriptionsFit
      <3>2. \A u \in Threads :
              Alive(u)' => (u \in open'[Home[u]] <=> pc'[u] \in {"locking", "inside", "popped"})
        BY <1>0, <1>4, <1>9, <2>7 DEF DescriptionsFit, Alive
      <3>3. \A p \in Processes : \A u \in open'[p] : p # Home[u] => pc'[u] = "popped"
        BY <1>0, <1>4, <1>9, <2>7 DEF DescriptionsFit, TypeOK
      <3> QED
        BY <3>1, <3>2, <3>3 DEF DescriptionsFit
    <2>14. FlockFits'
      BY <1>0, <1>1, <1>4, <1>9, <2>1, <2>7 DEF FlockFits, Alive
    <2> QED
      BY <2>8, <2>11, <2>12, <2>13, <2>14 DEF IInv
  <1> QED
    BY <1>1, <1>8, <1>9

LEMMA UnlockKeeps ==
    ASSUME IInv, NEW t \in Threads, Unlock(t)
    PROVE  IInv'
  <1>0. TypeOK /\ RegistryFits /\ BodiesFit /\ DescriptionsFit /\ FlockFits
    BY DEF IInv
  <1>1. /\ pc[t] = "popped" /\ Home[t] \in Processes /\ proc[Home[t]] = "alive" /\ flock = t
        /\ flock' = NoThread
    BY <1>0, WriteLockAssumption DEF Unlock, FlockFits, Alive
  <1>2. /\ open' \in [Processes -> SUBSET Threads]
        /\ \A p \in Processes : open'[p] = open[p] \ {t}
    BY <1>0 DEF Unlock, TypeOK
  <1>3. /\ pc' \in [Threads -> Steps] /\ pc'[t] = "unlocked" /\ \A u \in Threads \ {t} : pc'[u] = pc[u]
    BY <1>0 DEF Unlock, TypeOK, Steps
  <1>4. /\ proc' = proc /\ registry' = registry /\ bodies' = bodies
        /\ \A u \in Threads : Registered(u)' = Registered(u)
    BY DEF Unlock, Registered
  <1>5. TypeOK'
    BY <1>0, <1>1, <1>2, <1>3, <1>4 DEF TypeOK
  <1>6. RegistryFits'
    <2> SUFFICES ASSUME NEW u \in Threads PROVE RegistryFitsAt(u)'
      BY DEF RegistryFits
    <2>1. RegistryFitsAt(u)
      BY <1>0 DEF RegistryFits
    <2> QED
      BY <1>1, <1>3, <1>4, <2>1 DEF RegistryFitsAt
  <1>7. BodiesFit'
    <2> SUFFICES ASSUME NEW u \in Threads PROVE BodiesFitAt(u)'
      BY DEF BodiesFit
    <2>1. BodiesFitAt(u)
      BY <1>0 DEF BodiesFit
    <2> QED
      BY <1>1, <1>3, <1>4, <2>1 DEF BodiesFitAt
  <1>8. DescriptionsFit'
    <2>1. \A p \in Processes : proc'[p] # "alive" => open'[p] = {}
      BY <1>0, <1>1, <1>2, <1>3, <1>4 DEF DescriptionsFit
    <2>2. \A u \in Threads :
            Alive(u)' => (u \in open'[Home[u]] <=> pc'[u] \in {"locking", "inside", "popped"})
      BY <1>0, <1>1, <1>2, <1>3, <1>4, WriteLockAssumption DEF DescriptionsFit, Alive
    <2>3. \A p \in Processes : \A u \in open'[p] : p # Home[u] => pc'[u] = "popped"
      BY <1>0, <1>1, <1>2, <1>3, <1>4 DEF DescriptionsFit, TypeOK
    <2> QED
      BY <2>1, <2>2, <2>3 DEF DescriptionsFit
  <1>9. FlockFits'
    BY <1>0, <1>1, <1>3, <1>4 DEF FlockFits, Alive
  <1> QED
    BY <1>5, <1>6, <1>7, <1>8, <1>9 DEF IInv

LEMMA NotifyKeeps ==
    ASSUME IInv, NEW t \in Threads, Notify(t)
    PROVE  IInv'
  <1>0. TypeOK /\ RegistryFits /\ BodiesFit /\ DescriptionsFit /\ FlockFits
    BY DEF IInv
  <1>1. pc[t] = "unlocked" /\ Home[t] \in Processes /\ proc[Home[t]] = "alive"
    BY WriteLockAssumption DEF Notify, Alive
  <1>2. /\ pc' \in [Threads -> Steps] /\ pc'[t] = "idle"
        /\ \A u \in Threads \ {t} :
             pc'[u] = pc[u] \/ (pc[u] = "waiting" /\ pc'[u] = "entering")
    BY <1>0, NotifyTells DEF Notify
  <1>3. /\ proc' = proc /\ registry' = registry /\ bodies' = bodies /\ open' = open /\ flock' = flock
        /\ \A u \in Threads : Registered(u)' = Registered(u)
    BY DEF Notify, Registered
  <1>4. TypeOK'
    BY <1>0, <1>2, <1>3 DEF TypeOK
  <1>5. RegistryFits'
    <2> SUFFICES ASSUME NEW u \in Threads PROVE RegistryFitsAt(u)'
      BY DEF RegistryFits
    <2>1. RegistryFitsAt(u)
      BY <1>0 DEF RegistryFits
    <2> QED
      BY <1>1, <1>2, <1>3, <2>1 DEF RegistryFitsAt
  <1>6. BodiesFit'
    <2> SUFFICES ASSUME NEW u \in Threads PROVE BodiesFitAt(u)'
      BY DEF BodiesFit
    <2>1. BodiesFitAt(u)
      BY <1>0 DEF BodiesFit
    <2> QED
      BY <1>1, <1>2, <1>3, <2>1 DEF BodiesFitAt
  <1>7. DescriptionsFit'
    <2>1. \A p \in Processes : proc'[p] # "alive" => open'[p] = {}
      BY <1>0, <1>1, <1>2, <1>3 DEF DescriptionsFit
    <2>2. \A u \in Threads :
            Alive(u)' => (u \in open'[Home[u]] <=> pc'[u] \in {"locking", "inside", "popped"})
      BY <1>0, <1>1, <1>2, <1>3, WriteLockAssumption DEF DescriptionsFit, Alive
    <2>3. \A p \in Processes : \A u \in open'[p] : p # Home[u] => pc'[u] = "popped"
      BY <1>0, <1>1, <1>2, <1>3 DEF DescriptionsFit, TypeOK
    <2> QED
      BY <2>1, <2>2, <2>3 DEF DescriptionsFit
  <1>8. FlockFits'
    BY <1>0, <1>1, <1>2, <1>3, WriteLockAssumption DEF FlockFits, Alive, TypeOK
  <1> QED
    BY <1>4, <1>5, <1>6, <1>7, <1>8 DEF IInv

LEMMA ForkKeeps ==
    ASSUME IInv, NEW t \in Threads, NEW c \in Processes, NEW v \in Threads, Fork(t, c, v)
    PROVE  IInv'
  <1>0. TypeOK /\ RegistryFits /\ BodiesFit /\ DescriptionsFit /\ FlockFits
    BY DEF IInv
  <1>1. /\ Home[t] \in Processes /\ proc[Home[t]] = "alive" /\ proc[c] = "unborn"
        /\ c # Home[t] /\ Home[v] = c
    BY WriteLockAssumption DEF Fork, Alive
  <1>2. /\ proc' \in [Processes -> {"unborn", "alive", "dead"}] /\ proc'[c] = "alive"
        /\ \A p \in Processes \ {c} : proc'[p] = proc[p]
    BY <1>0 DEF Fork, TypeOK
  <1>3. Free \in Entry /\ Free.owner = NoThread /\ NoThread \notin Threads
    BY WriteLockAssumption DEF Free, Entry
  <1>4. /\ registry' \in [Processes -> [Copies -> Entry]]
        /\ \A u \in Threads : Registered(u)' = IF Home[u] = c THEN Free ELSE Registered(u)
    BY <1>0, <1>3, WriteLockAssumption DEF Fork, TypeOK, Registered
  <1>5. /\ open' \in [Processes -> SUBSET Threads]
        /\ open'[c] = open[Home[t]] \ {registry[Home[t]][k].owner : k \in Copies}
        /\ \A p \in Processes \ {c} : open'[p] = open[p]
    BY <1>0, <1>1 DEF Fork, TypeOK
  <1>6. /\ bodies' \in [Threads -> Seq(Processes)] /\ bodies'[v] = bodies[t]
        /\ \A u \in Threads \ {v} : bodies'[u] = bodies[u]
    BY <1>0 DEF Fork, TypeOK
  <1>7. pc' = pc /\ flock' = flock
    BY DEF Fork
  <1>8. TypeOK'
    <2>1. \A u \in Threads : Len(bodies'[u]) <= MaxDepth
      BY <1>0, <1>6 DEF TypeOK
    <2> QED
      BY <1>0, <1>2, <1>4, <1>5, <1>6, <1>7, <2>1 DEF TypeOK
  <1>9. \A u \in Threads : Home[u] = c => pc[u] = "idle"
    BY <1>0, <1>1 DEF BodiesFit, BodiesFitAt
  <1>10. RegistryFits'
    <2> SUFFICES ASSUME NEW u \in Threads PROVE RegistryFitsAt(u)'
      BY DEF RegistryFits
    <2>1. RegistryFitsAt(u)
      BY <1>0 DEF RegistryFits
    <2>2. CASE Home[u] = c
      BY <1>3, <1>4, <1>7, <1>9, <2>2 DEF RegistryFitsAt
    <2>3. CASE Home[u] # c
      BY <1>1, <1>4, <1>6, <1>7, <2>1, <2>3 DEF RegistryFitsAt
    <2> QED
      BY <2>2, <2>3
  <1>11. BodiesFit'
    <2> SUFFICES ASSUME NEW u \in Threads PROVE BodiesFitAt(u)'
      BY DEF BodiesFit
    <2>1. BodiesFitAt(u) /\ BodiesFitAt(t)
      BY <1>0 DEF BodiesFit
    <2>2. /\ bodies[t] \in Seq(Processes) /\ \A i \in 1..Len(bodies[t]) : bodies[t][i] \in Processes
          /\ bodies[u] \in Seq(Processes) /\ \A i \in 1..Len(bodies[u]) : bodies[u][i] \in Processes
      BY <1>0, LengthOfBodies DEF TypeOK
    <2>3. CASE u = v
      <3>1. \A i \in 1..Len(bodies[t]) : proc[bodies[t][i]] # "unborn" /\ bodies[t][i] # c
        BY <1>1, <2>1 DEF BodiesFitAt
      <3>2. \A i \in 1..Len(bodies[t]) : proc'[bodies[t][i]] # "unborn"
        BY <1>2, <2>2, <3>1
      <3> QED
        BY <1>1, <1>2, <1>6, <1>7, <1>9, <2>3, <3>1, <3>2 DEF BodiesFitAt
    <2>4. CASE u # v
      <3>1. \A i \in 1..Len(bodies[u]) : proc'[bodies[u][i]] # "unborn"
        BY <1>2, <2>1, <2>2 DEF BodiesFitAt
      <3>2. Home[u] \in Processes
        BY WriteLockAssumption
      <3>3. CASE Home[u] = c
        BY <1>1, <1>2, <1>6, <1>7, <1>9, <2>1, <2>4, <3>1, <3>3 DEF BodiesFitAt
      <3>4. CASE Home[u] # c
        BY <1>2, <1>4, <1>6, <1>7, <2>1, <2>4, <3>1, <3>2, <3>4 DEF BodiesFitAt
      <3> QED
        BY <3>3, <3>4
    <2> QED
      BY <2>3, <2>4
  <1>12. \A u \in open'[c] : u \in Threads /\ pc[u] = "popped" /\ Home[u] # c
    <2> SUFFICES ASSUME NEW u \in open'[c]
                 PROVE  u \in Threads /\ pc[u] = "popped" /\ Home[u] # c
      OBVIOUS
    <2>1. u \in Threads /\ u \in open[Home[t]] /\ \A k \in Copies : u # registry[Home[t]][k].owner
      BY <1>0, <1>1, <1>5 DEF TypeOK
    <2>2. Home[u] = Home[t] => u # Registered(u).owner
      BY <2>1, WriteLockAssumption DEF Registered
    <2>3. pc[u] = "popped"
      BY <1>0, <1>1, <2>1, <2>2 DEF DescriptionsFit, RegistryFits, RegistryFitsAt, Alive
    <2> QED
      BY <1>9, <2>1, <2>3
  <1>13. DescriptionsFit'
    <2>1. \A p \in Processes : proc'[p] # "alive" => open'[p] = {}
      BY <1>0, <1>2, <1>5 DEF DescriptionsFit
    <2>2. \A u \in Threads :
            Alive(u)' => (u \in open'[Home[u]] <=> pc'[u] \in {"locking", "inside", "popped"})
      BY <1>0, <1>2, <1>5, <1>7, <1>9, <1>12, WriteLockAssumption DEF DescriptionsFit, Alive
    <2>3. \A p \in Processes : \A u \in open'[p] : p # Home[u] => pc'[u] = "popped"
      BY <1>0, <1>5, <1>7, <1>12 DEF DescriptionsFit
    <2> QED
      BY <2>1, <2>2, <2>3 DEF DescriptionsFit
  <1>14. FlockFits'
    <2>1. \A u \in Threads : Alive(u)' /\ pc'[u] \in {"inside", "popped"} => flock' = u
      BY <1>0, <1>2, <1>7, <1>9, WriteLockAssumption DEF FlockFits, Alive
    <2>2. ASSUME flock # NoThread
          PROVE  /\ pc[flock] \in {"inside", "popped"}
                 /\ proc'[Home[flock]] # "alive" => pc[flock] = "popped"
                 /\ \E p \in Processes : flock \in open'[p]
      <3>1. flock \in Threads /\ Home[flock] \in Processes
        BY <1>0, <2>2, WriteLockAssumption DEF TypeOK
      <3>2. /\ pc[flock] \in {"inside", "popped"}
            /\ ~Alive(flock) => pc[flock] = "popped"
            /\ \E p \in Processes : flock \in open[p]
        BY <1>0, <2>2 DEF FlockFits
      <3>3. open[c] = {}
        BY <1>0, <1>1 DEF DescriptionsFit
      <3>4. PICK p \in Processes : flock \in open[p]
        BY <3>2
      <3>5. p # c /\ flock \in open'[p]
        BY <1>5, <3>3, <3>4
      <3>6. proc'[Home[flock]] # "alive" => ~Alive(flock)
        BY <1>2, <3>1 DEF Alive
      <3> QED
        BY <3>2, <3>5, <3>6
    <2> QED
      BY <1>7, <2>1, <2>2 DEF FlockFits, Alive
  <1> QED
    BY <1>8, <1>10, <1>11, <1>13, <1>14 DEF IInv

LEMMA ExitKeeps ==
    ASSUME IInv, NEW p \in Processes, Exit(p)
    PROVE  IInv'
  <1>0. TypeOK /\ RegistryFits /\ BodiesFit /\ DescriptionsFit /\ FlockFits
    BY DEF IInv
  <1>1. /\ proc' \in [Processes -> {"unborn", "alive", "dead"}] /\ proc[p] = "alive" /\ proc'[p] = "dead"
        /\ \A q \in Processes \ {p} : proc'[q] = proc[q]
    BY <1>0 DEF Exit, TypeOK
  <1>2. /\ open' \in [Processes -> SUBSET Threads] /\ open'[p] = {}
        /\ \A q \in Processes \ {p} : open'[q] = open[q]
    BY <1>0 DEF Exit, TypeOK
  <1>3. /\ registry' = registry /\ pc' = pc /\ bodies' = bodies
        /\ \A u \in Threads : Registered(u)' = Registered(u)
    BY DEF Exit, Registered
  <1>4. flock' = IF flock \in open[p] /\ \A q \in Processes \ {p} : flock \notin open[q]
                 THEN NoThread ELSE flock
    BY DEF Exit, FlockWithout
  <1>5. TypeOK'
    BY <1>0, <1>1, <1>2, <1>3, <1>4 DEF TypeOK
  <1>6. RegistryFits'
    <2> SUFFICES ASSUME NEW u \in Threads PROVE RegistryFitsAt(u)'
      BY DEF RegistryFits
    <2>1. RegistryFitsAt(u)
      BY <1>0 DEF RegistryFits
    <2> QED
      BY <1>3, <2>1 DEF RegistryFitsAt
  <1>7. BodiesFit'
    <2> SUFFICES ASSUME NEW u \in Threads PROVE BodiesFitAt(u)'
      BY DEF BodiesFit
    <2>1. BodiesFitAt(u) /\ Home[u] \in Processes
      BY <1>0, WriteLockAssumption DEF BodiesFit
    <2>2. \A i \in 1..Len(bodies[u]) : bodies[u][i] \in Processes
      BY <1>0, LengthOfBodies DEF TypeOK
    <2>3. \A q \in Processes : proc'[q] = "unborn" <=> proc[q] = "unborn"
      BY <1>1
    <2> QED
      BY <1>3, <2>1, <2>2, <2>3 DEF BodiesFitAt
  <1>8. DescriptionsFit'
    <2>1. \A q \in Processes : proc'[q] # "alive" => open'[q] = {}
      BY <1>0, <1>1, <1>2 DEF DescriptionsFit
    <2>2. \A u \in Threads :
            Alive(u)' => (u \in open'[Home[u]] <=> pc'[u] \in {"locking", "inside", "popped"})
      BY <1>0, <1>1, <1>2, <1>3, WriteLockAssumption DEF DescriptionsFit, Alive
    <2>3. \A q \in Processes : \A u \in open'[q] : q # Home[u] => pc'[u] = "popped"
      BY <1>0, <1>2, <1>3 DEF DescriptionsFit
    <2> QED
      BY <2>1, <2>2, <2>3 DEF DescriptionsFit
  <1>9. FlockFits'
    <2>1. \A u \in Threads : Alive(u)' /\ pc'[u] \in {"inside", "popped"} => flock' = u
      <3> SUFFICES ASSUME NEW u \in Threads, Alive(u)', pc'[u] \in {"inside", "popped"}
                   PROVE  flock' = u
        OBVIOUS
      <3>1. Home[u] \in Processes \ {p} /\ Alive(u)
        BY <1>1, WriteLockAssumption DEF Alive
      <3>2. flock = u /\ u \in open[Home[u]]
        BY <1>0, <1>3, <3>1 DEF FlockFits, DescriptionsFit
      <3> QED
        BY <1>4, <3>1, <3>2
    <2>2. ASSUME flock' # NoThread
          PROVE  /\ pc[flock'] \in {"inside", "popped"}
                 /\ \E q \in Processes : flock' \in open'[q]
      <3>1. flock' = flock /\ flock \in Threads /\ Home[flock] \in Processes
        BY <1>0, <1>4, <2>2, WriteLockAssumption DEF TypeOK
      <3>2. /\ pc[flock] \in {"inside", "popped"}
            /\ \E q \in Processes : flock \in open[q]
        BY <1>0, <2>2, <3>1 DEF FlockFits
      <3>3. \E q \in Processes \ {p} : flock \in open[q]
        BY <1>4, <2>2, <3>1, <3>2
      <3>4. PICK q \in Processes \ {p} : flock \in open[q]
        BY <3>3
      <3>5. \E r \in Processes : flock' \in open'[r]
        BY <1>2, <3>1, <3>4
      <3> QED
        BY <3>1, <3>2, <3>5
    <2>3. ASSUME flock' # NoThread, ~Alive(flock)'
          PROVE  pc[flock'] = "popped"
      <3>1. flock' = flock /\ flock \in Threads /\ Home[flock] \in Processes
        BY <1>0, <1>4, <2>3, WriteLockAssumption DEF TypeOK
      <3>2. CASE Alive(flock)
        <4>1. Home[flock] = p
          BY <1>1, <2>3, <3>1, <3>2 DEF Alive
        <4>2. PICK q \in Processes \ {p} : flock \in open[q]
          BY <1>0, <1>4, <2>3, <3>1 DEF FlockFits
        <4> QED
          BY <1>0, <3>1, <4>1, <4>2 DEF DescriptionsFit
      <3>3. CASE ~Alive(flock)
        BY <1>0, <2>3, <3>1, <3>3 DEF FlockFits
      <3> QED
        BY <3>2, <3>3
    <2> QED
      BY <1>3, <2>1, <2>2, <2>3 DEF FlockFits
  <1> QED
    BY <1>5, <1>6, <1>7, <1>8, <1>9 DEF IInv

-----------------------------------------------------------------------------
LEMMA StepsKeep == IInv /\ [Next]_vars => IInv'
  <1> SUFFICES ASSUME IInv, [Next]_vars PROVE IInv'
    OBVIOUS
  <1>1. CASE UNCHANGED vars
    BY <1>1 DEF IInv, TypeOK, RegistryFits, RegistryFitsAt, BodiesFit, BodiesFitAt,
                DescriptionsFit, FlockFits, Registered, Alive, vars
  <1>2. ASSUME NEW t \in Threads, Thread(t) PROVE IInv'
    BY <1>2, RegisterKeeps, ReenterKeeps, WaitKeeps, LockKeeps, LockFailsKeeps, LeaveKeeps,
       UnlockKeeps, NotifyKeeps, ForkKeeps DEF Thread
  <1>3. ASSUME NEW p \in Processes, Exit(p) PROVE IInv'
    BY <1>3, ExitKeeps
  <1> QED
    BY <1>1, <1>2, <1>3 DEF Next

(* The registry, the descriptions, the lock of the file and the bodies     *)
(* stay in step through nested entries, failures, forks and deaths.        *)
THEOREM WriteLockInvariant == Spec => []IInv
  BY InitIInv, StepsKeep, PTL DEF Spec

(* A process that dies gives the file up, except between leaving its       *)
(* registry and LOCK_UN with a child forked in that window.                *)
THEOREM TheDeadUnlock == Spec => [](TypeOK /\ DeathUnlocks)
  <1>1. IInv => TypeOK /\ DeathUnlocks
    BY DEF IInv, FlockFits, DeathUnlocks
  <1> QED
    BY <1>1, WriteLockInvariant, PTL

-----------------------------------------------------------------------------
Holders == {t \in Threads : Inside(t)}

Running == {t \in Threads : Alive(t) /\ pc[t] = "inside"}

LEMMA HoldersAreRunning == IInv => Holders = Running
  BY InsideIsStep DEF Holders, Running

(* flock admits one thread of one live process. *)
LEMMA OneHolder ==
    ASSUME IInv, NEW t \in Threads, Alive(t), pc[t] = "inside"
    PROVE  Holders = {t} /\ flock = t
  BY HoldersAreRunning DEF Running, IInv, FlockFits

(* A thread that gets the file is an Acquire; the end of its outermost     *)
(* body, or the end of its process, is the Release; nothing else changes   *)
(* who runs the body.                                                      *)
LEMMA StepsImplement ==
    ASSUME IInv, IInv', [Next]_vars,
           (Holders = Running)'
    PROVE  [Advisory!Next]_Holders
  <1> DEFINE H == {t \in Threads : Alive(t) /\ pc[t] = "inside"}
             Hn == {t \in Threads : Alive(t)' /\ pc'[t] = "inside"}
  <1>1. Holders = H /\ Holders' = Hn
    BY HoldersAreRunning DEF Running
  <1>2. TypeOK /\ RegistryFits /\ BodiesFit /\ FlockFits
    BY DEF IInv
  <1> SUFFICES Hn = H \/ \E t \in Threads : (H = {} /\ Hn = {t}) \/ (H = {t} /\ Hn = {})
    BY <1>1 DEF Advisory!Next, Advisory!Acquire, Advisory!Release, Holders
  <1> HIDE DEF H, Hn
  <1>3. CASE UNCHANGED vars
    BY <1>3 DEF vars, H, Hn, Alive
  <1>4. ASSUME NEW t \in Threads, Register(t) \/ Wait(t) PROVE Hn = H
    <2>1. /\ pc[t] # "inside" /\ pc'[t] # "inside" /\ \A u \in Threads \ {t} : pc'[u] = pc[u]
          /\ proc' = proc
      BY <1>2, <1>4 DEF Register, Wait, Calls, TypeOK
    <2> QED
      BY <2>1 DEF H, Hn, Alive
  <1>5. ASSUME NEW t \in Threads, Reenter(t) PROVE Hn = H
    BY <1>5 DEF Reenter, H, Hn, Alive
  <1>6. ASSUME NEW t \in Threads, Lock(t) PROVE H = {} /\ Hn = {t}
    <2>1. /\ pc'[t] = "inside" /\ \A u \in Threads \ {t} : pc'[u] = pc[u]
          /\ proc' = proc /\ flock = NoThread /\ Alive(t)
      BY <1>2, <1>6 DEF Lock, TypeOK
    <2>2. H = {}
      BY <1>2, <2>1, WriteLockAssumption DEF H, FlockFits
    <2>3. \A u \in Threads : Alive(u)' <=> Alive(u)
      BY <2>1 DEF Alive
    <2> QED
      BY <2>1, <2>2, <2>3 DEF H, Hn
  <1>7. ASSUME NEW t \in Threads, LockFails(t) \/ Notify(t) PROVE Hn = H
    <2>1. /\ pc'[t] = "idle"
          /\ \A u \in Threads \ {t} : pc'[u] = pc[u] \/ (pc[u] = "waiting" /\ pc'[u] = "entering")
      BY <1>2, <1>7, NotifyTells DEF LockFails, Notify
    <2>2. pc[t] # "inside" /\ proc' = proc
      BY <1>7 DEF LockFails, Notify
    <2> QED
      BY <2>1, <2>2 DEF H, Hn, Alive
  <1>8. ASSUME NEW t \in Threads, Leave(t) PROVE Hn = H \/ (H = {t} /\ Hn = {})
    <2>1. /\ \A u \in Threads \ {t} : pc'[u] = pc[u]
          /\ proc' = proc /\ Alive(t)
      BY <1>2, <1>8 DEF Leave, TypeOK
    <2>2. \A u \in Threads : Alive(u)' <=> Alive(u)
      BY <2>1 DEF Alive
    <2>3. CASE pc'[t] = pc[t]
      <3>1. \A u \in Threads : pc'[u] = pc[u]
        BY <2>1, <2>3
      <3>2. \A u \in Threads : u \in Hn <=> u \in H
        BY <2>2, <3>1 DEF H, Hn
      <3>3. Hn \subseteq Threads /\ H \subseteq Threads
        BY DEF H, Hn
      <3> QED
        BY <3>2, <3>3
    <2>4. CASE pc'[t] # pc[t]
      <3>1. pc[t] = "inside" /\ pc'[t] # "inside"
        <4>1. bodies[t] \in Seq(Processes) /\ bodies[t] # <<>> /\ pc[t] \in {"idle", "inside"}
          BY <1>2, <1>8 DEF Leave, TypeOK
        <4>2. Last(bodies[t]) = Home[t]
          BY <1>8, <2>4 DEF Leave
        <4>3. Len(bodies[t]) \in Nat \ {0} /\ Last(bodies[t]) = bodies[t][Len(bodies[t])]
          BY <4>1, OneBodyLess
        <4>4. pc[t] = "inside"
          <5>1. BodiesFitAt(t) /\ Len(bodies[t]) \in 1..Len(bodies[t])
            BY <1>2, <4>3 DEF BodiesFit
          <5> QED
            BY <4>2, <4>3, <5>1 DEF BodiesFitAt
        <4> QED
          BY <2>4, <4>4
      <3>2. H = {t}
        BY <1>1, <2>1, <3>1, OneHolder
      <3> QED
        BY <2>1, <2>2, <3>1, <3>2 DEF H, Hn
    <2> QED
      BY <2>3, <2>4
  <1>9. ASSUME NEW t \in Threads, Unlock(t) PROVE Hn = H
    <2>1. /\ pc[t] # "inside" /\ pc'[t] # "inside" /\ \A u \in Threads \ {t} : pc'[u] = pc[u]
          /\ proc' = proc
      BY <1>2, <1>9 DEF Unlock, TypeOK
    <2> QED
      BY <2>1 DEF H, Hn, Alive
  <1>10. ASSUME NEW t \in Threads, NEW c \in Processes, NEW u \in Threads, Fork(t, c, u)
         PROVE  Hn = H
    <2>1. /\ pc' = pc /\ proc[c] = "unborn" /\ \A p \in Processes \ {c} : proc'[p] = proc[p]
      BY <1>2, <1>10 DEF Fork, TypeOK
    <2>2. \A w \in Threads : Home[w] = c => pc[w] # "inside"
      BY <1>2, <2>1 DEF BodiesFit, BodiesFitAt
    <2> QED
      BY <2>1, <2>2, WriteLockAssumption DEF H, Hn, Alive
  <1>11. ASSUME NEW p \in Processes, Exit(p)
         PROVE  Hn = H \/ \E t \in Threads : H = {t} /\ Hn = {}
    <2>1. /\ pc' = pc /\ proc[p] = "alive" /\ proc'[p] = "dead"
          /\ \A q \in Processes \ {p} : proc'[q] = proc[q]
      BY <1>2, <1>11 DEF Exit, TypeOK
    <2>2. CASE \E t \in H : Home[t] = p
      <3>1. PICK t \in H : Home[t] = p
        BY <2>2
      <3>2. t \in Threads /\ H = {t}
        BY <1>1, <3>1, OneHolder DEF H
      <3>3. \A u \in Threads : Alive(u)' => Alive(u) /\ Home[u] # p
        BY <2>1, WriteLockAssumption DEF Alive
      <3>4. Hn = {}
        BY <2>1, <3>1, <3>2, <3>3 DEF H, Hn
      <3> QED
        BY <3>2, <3>4
    <2>3. CASE \A t \in H : Home[t] # p
      BY <2>1, <2>3, WriteLockAssumption DEF H, Hn, Alive
    <2> QED
      BY <2>2, <2>3
  <1>12. ASSUME NEW t \in Threads, Thread(t)
         PROVE  Hn = H \/ \E u \in Threads : (H = {} /\ Hn = {u}) \/ (H = {u} /\ Hn = {})
    <2>1. CASE \E c \in Processes, u \in Threads : Fork(t, c, u)
      BY <1>10, <2>1
    <2>2. CASE Register(t) \/ Wait(t) \/ Reenter(t) \/ LockFails(t) \/ Notify(t) \/ Unlock(t)
      BY <1>4, <1>5, <1>7, <1>9, <2>2
    <2>3. CASE Lock(t)
      BY <1>6, <2>3
    <2>4. CASE Leave(t)
      <3>1. Hn = H \/ (H = {t} /\ Hn = {})
        BY <1>8, <2>4
      <3> QED
        BY <3>1
    <2> QED
      BY <1>12, <2>1, <2>2, <2>3, <2>4 DEF Thread
  <1>13. [Next]_vars => UNCHANGED vars \/ (\E t \in Threads : Thread(t)) \/ \E p \in Processes : Exit(p)
    BY DEF Next
  <1> QED
    BY <1>3, <1>11, <1>12, <1>13

(* The lock excludes across threads, copies of the module and processes:   *)
(* what the two kinds of lock do together is one advisory lock.            *)
THEOREM LockIsImplemented == Spec => ImplementsAdvisoryLock
  <1>1. Init => Advisory!Init
    <2> SUFFICES ASSUME Init PROVE Holders = {}
      BY DEF Advisory!Init, Holders
    <2>1. Holders = Running
      BY InitIInv, HoldersAreRunning
    <2> QED
      BY <2>1 DEF Init, Running
  <1>2. IInv' => (Holders = Running)'
    BY HoldersAreRunning, PTL
  <1>3. IInv /\ IInv' /\ [Next]_vars => [Advisory!Next]_Holders
    BY <1>2, StepsImplement
  <1>4. Spec => Advisory!Init /\ [][Advisory!Next]_Holders
    BY <1>1, <1>3, WriteLockInvariant, PTL DEF Spec
  <1> QED
    BY <1>4, PTL DEF ImplementsAdvisoryLock, Advisory!Spec, Holders
=============================================================================
