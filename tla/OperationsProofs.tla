-------------------------- MODULE OperationsProofs --------------------------
(* Theorems about operating the store, of Maintenance for any number of    *)
(* legacy providers, commands, generations and rows, and of Installation   *)
(* for any number of launchers, setups, uninstalls and daemons.            *)
EXTENDS Maintenance, Installation, FiniteSetTheorems, TLAPS

-----------------------------------------------------------------------------
(* Operator commands beside the daemon and the legacy providers.           *)

(* A sidecar lock is held exactly in the steps that lie between taking it  *)
(* and giving it up.                                                       *)
Owning == {"owner", "serving", "closed", "locked", "migrating", "staged", "done"}

Writing == {"writing", "locked", "migrating", "staged", "done"}

LocksFollowSteps ==
    /\ \A p \in {Daemon} \cup Commands : lock = p <=> step[p] \in Owning
    /\ \A p \in Legacy \cup Commands : writeLock = p <=> step[p] \in Writing

(* A process has the database open exactly in the steps between its        *)
(* connection and its disconnection (a legacy provider may have lost it    *)
(* to a restore and a close), and what writes under the ownership lock has *)
(* the file at the path open.                                              *)
Connected == {"serving", "idle", "writing", "reading", "copied", "migrating", "unlocked"}

ConnectionsFollowSteps ==
    /\ \A p \in Procs : conn[p] # 0 => conn[p] <= main /\ step[p] \in Connected
    /\ \A p \in Procs \ Legacy : step[p] \in Connected => conn[p] # 0
    /\ \A p \in Procs : step[p] \in {"serving", "migrating"} => conn[p] = main

(* Nothing but a legacy provider can write between a restore's look at the *)
(* sidecars and its replacement of the file.                               *)
OnlyLegacyFrames ==
    \A m \in Commands : step[m] = "staged" => \A w \in wal.frames : w[1] \in Legacy

(* As transactions left it, the served file is complete. *)
ServedIsComplete ==
    step[Daemon] = "serving" => conn[Daemon] = main /\ file[main] \in {"patched", "full"}

IInv ==
    /\ TypeOK
    /\ LocksFollowSteps
    /\ ConnectionsFollowSteps
    /\ OnlyLegacyFrames
    /\ ServedIsComplete
    /\ FramesOfMain

-----------------------------------------------------------------------------
(* What the helpers of the actions do to a well-typed state.               *)

LEMMA StepGoes ==
    ASSUME NEW p \in Procs, NEW s, TypeOK, Go(p, s)
    PROVE  /\ step'[p] = s
           /\ \A q \in Procs \ {p} : step'[q] = step[q]
           /\ s \in DaemonSteps \cup LegacySteps \cup CommandSteps =>
                step' \in [Procs -> DaemonSteps \cup LegacySteps \cup CommandSteps]
  BY DEF TypeOK, Go

LEMMA ConnectOpens ==
    ASSUME NEW p \in Procs, TypeOK, Connect(p)
    PROVE  /\ conn' \in [Procs -> Gens \cup {0}]
           /\ conn'[p] = main /\ \A q \in Procs \ {p} : conn'[q] = conn[q]
           /\ wal' \in [there : BOOLEAN, frames : SUBSET (Procs \X Gens)]
           /\ wal'.there /\ wal'.frames = wal.frames /\ astray' = astray
  <1>1. wal' = [there |-> TRUE, frames |-> wal.frames]
    BY DEF TypeOK, Connect
  <1> QED
    BY <1>1 DEF TypeOK, Connect

LEMMA LogIsRemoved ==
    ASSUME NEW p \in Procs, TypeOK, NobodyElse(p), RemoveLog(p)
    PROVE  /\ conn' \in [Procs -> Gens \cup {0}]
           /\ conn'[p] = 0 /\ \A q \in Procs : conn'[q] \in {conn[q], 0}
           /\ \A q \in Procs \ (Legacy \cup {p}) : conn'[q] = conn[q]
           /\ wal' = NoWal
           /\ \A q \in Procs : conn'[q] # main /\ (q \in Legacy => conn'[q] = 0)
           /\ astray' \subseteq Procs \X Gens
           /\ \A w \in astray' \ astray : w \in wal.frames /\ w[2] # main
  <1>1. \A q \in Procs : conn'[q] = IF q \in Legacy \cup {p} THEN 0 ELSE conn[q]
    BY DEF RemoveLog
  <1>2. /\ conn' \in [Procs -> Gens \cup {0}]
        /\ conn'[p] = 0 /\ \A q \in Procs : conn'[q] \in {conn[q], 0}
        /\ \A q \in Procs \ (Legacy \cup {p}) : conn'[q] = conn[q]
    BY <1>1 DEF RemoveLog, TypeOK
  <1>3. \A q \in Procs : conn'[q] # main /\ (q \in Legacy => conn'[q] = 0)
    BY <1>1 DEF NobodyElse, TypeOK, Gens
  <1>4. /\ wal' = NoWal
        /\ astray' \subseteq Procs \X Gens
        /\ \A w \in astray' \ astray : w \in wal.frames /\ w[2] # main
    BY DEF RemoveLog, Checkpoint, TypeOK
  <1> QED
    BY <1>2, <1>3, <1>4

LEMMA DisconnectCloses ==
    ASSUME NEW p \in Procs, TypeOK, Disconnect(p)
    PROVE  /\ conn' \in [Procs -> Gens \cup {0}]
           /\ conn'[p] = 0 /\ \A q \in Procs : conn'[q] \in {conn[q], 0}
           /\ \A q \in Procs \ (Legacy \cup {p}) : conn'[q] = conn[q]
           /\ wal' = NoWal \/ wal' = wal
           /\ wal' \in [there : BOOLEAN, frames : SUBSET (Procs \X Gens)]
           /\ wal'.frames \subseteq wal.frames
           /\ wal'.frames # {} => wal'.there
           /\ \A q \in Procs : conn'[q] = main \/ (q \in Legacy /\ conn'[q] # 0) => wal'.there
           /\ astray' \subseteq Procs \X Gens
           /\ \A w \in astray' \ astray : w \in wal.frames /\ w[2] # main
  <1>1. CASE conn[p] = main /\ NobodyElse(p)
    <2>1. RemoveLog(p)
      BY <1>1 DEF Disconnect
    <2>2. wal' = NoWal
      BY <1>1, <2>1, LogIsRemoved
    <2>3. /\ wal' \in [there : BOOLEAN, frames : SUBSET (Procs \X Gens)]
          /\ wal'.frames = {}
      BY <2>2 DEF NoWal
    <2>4. \A q \in Procs : conn'[q] # main /\ (q \in Legacy => conn'[q] = 0)
      BY <1>1, <2>1, LogIsRemoved
    <2> QED
      BY <1>1, <2>1, <2>2, <2>3, <2>4, LogIsRemoved
  <1>2. CASE ~(conn[p] = main /\ NobodyElse(p))
    <2>1. conn' = [conn EXCEPT ![p] = 0] /\ UNCHANGED <<wal, astray>>
      BY <1>2, Zenon DEF Disconnect
    <2>2. conn'[p] = 0 /\ \A q \in Procs \ {p} : conn'[q] = conn[q]
      BY <2>1 DEF TypeOK
    <2>3. conn' \in [Procs -> Gens \cup {0}]
      BY <2>1 DEF TypeOK
    <2>4. main # 0
      BY DEF TypeOK, Gens
    <2> QED
      BY <2>1, <2>2, <2>3, <2>4 DEF TypeOK
  <1> QED
    BY <1>1, <1>2

LEMMA ReaderCloses ==
    ASSUME NEW p \in Procs, TypeOK, DisconnectReader(p)
    PROVE  /\ conn' \in [Procs -> Gens \cup {0}]
           /\ conn'[p] = 0 /\ \A q \in Procs \ {p} : conn'[q] = conn[q]
           /\ wal' = wal /\ astray' = astray
  BY DEF TypeOK, DisconnectReader

LEMMA CommitWrites ==
    ASSUME NEW p \in Procs, NEW f \in Stages, TypeOK, conn[p] # 0, CommitTo(p, f)
    PROVE  /\ file' \in [Gens -> Stages]
           /\ file'[conn[p]] = f /\ \A g \in Gens \ {conn[p]} : file'[g] = file[g]
           /\ wal' \in [there : BOOLEAN, frames : SUBSET (Procs \X Gens)]
           /\ wal'.there = wal.there /\ wal'.frames \subseteq wal.frames \cup {<<p, conn[p]>>}
           /\ astray' \subseteq Procs \X Gens
           /\ \A w \in astray' \ astray : w \in wal.frames /\ w[2] # conn[p]
  <1> DEFINE frames == wal.frames \cup {<<p, conn[p]>>}
  <1>1. conn[p] \in Gens /\ frames \subseteq Procs \X Gens
    BY DEF TypeOK
  <1>2. \/ wal' = [there |-> wal.there, frames |-> frames] /\ astray' = astray
        \/ /\ wal' = [there |-> wal.there, frames |-> {}]
           /\ astray' = astray \cup {w \in frames : w[2] # conn[p]}
    BY DEF TypeOK, CommitTo, Checkpoint
  <1>3. file' = [file EXCEPT ![conn[p]] = f]
    BY DEF CommitTo
  <1>4. wal.there \in BOOLEAN /\ astray \subseteq Procs \X Gens /\ file \in [Gens -> Stages]
    BY DEF TypeOK
  <1>5. CASE wal' = [there |-> wal.there, frames |-> frames] /\ astray' = astray
    BY <1>1, <1>3, <1>4, <1>5
  <1>6. CASE /\ wal' = [there |-> wal.there, frames |-> {}]
             /\ astray' = astray \cup {w \in frames : w[2] # conn[p]}
    BY <1>1, <1>3, <1>4, <1>6
  <1> QED
    BY <1>2, <1>5, <1>6

LEMMA CommitKeepsStage ==
    ASSUME NEW p \in Procs, TypeOK, Commit(p)
    PROVE  conn[p] # 0 /\ file[conn[p]] \in Stages /\ CommitTo(p, file[conn[p]])
  BY DEF TypeOK, Commit

LEMMA CopyIsDiscarded ==
    ASSUME NEW p \in Procs, TypeOK, Discard(p)
    PROVE  staged' \in [Commands -> Stages]
  <1>1. Empty \in Stages
    BY DEF Empty, Stages
  <1> QED
    BY <1>1 DEF TypeOK, Discard

LEMMA LocksAreGivenUp ==
    ASSUME NEW p \in Procs, TypeOK, Unlock(p)
    PROVE  /\ lock' \in {Daemon, Nobody} \cup Commands
           /\ writeLock' \in {Nobody} \cup Legacy \cup Commands
           /\ lock' # p /\ writeLock' # p
           /\ \A q \in Procs \ {p} : (lock' = q <=> lock = q) /\ (writeLock' = q <=> writeLock = q)
  BY MaintenanceAssumption DEF TypeOK, Unlock, Procs

-----------------------------------------------------------------------------
(* Every step keeps the invariant.                                         *)

LEMMA DaemonKeeps ==
    ASSUME IInv, DaemonNext
    PROVE  IInv'
  <1> USE MaintenanceAssumption DEF IInv, TypeOK, Procs, DaemonSteps, LegacySteps, CommandSteps
  <1>1. CASE Acquire
    <2>1. TypeOK'
      BY <1>1, StepGoes DEF Acquire, ConnectionsFollowSteps, Connected
    <2>2. LocksFollowSteps'
      BY <1>1, StepGoes DEF Acquire, LocksFollowSteps, Owning, Writing
    <2>3. ConnectionsFollowSteps'
      BY <1>1, StepGoes DEF Acquire, ConnectionsFollowSteps, Connected, LocksFollowSteps, Owning
    <2>4. OnlyLegacyFrames' /\ FramesOfMain'
      BY <1>1, StepGoes DEF Acquire, OnlyLegacyFrames, FramesOfMain, LocksFollowSteps, Owning,
         ConnectionsFollowSteps, Connected
    <2>5. ServedIsComplete'
      BY <1>1, StepGoes DEF Acquire, ServedIsComplete, LocksFollowSteps, Owning,
         ConnectionsFollowSteps, Connected
    <2> QED
      BY <2>1, <2>2, <2>3, <2>4, <2>5
  <1>2. CASE Serve
    <2>1. TypeOK'
      BY <1>2, StepGoes, ConnectOpens DEF Serve, WriterReady, ConnectionsFollowSteps, Connected
    <2>2. LocksFollowSteps'
      BY <1>2, StepGoes, ConnectOpens DEF Serve, WriterReady, LocksFollowSteps, Owning, Writing
    <2>3. ConnectionsFollowSteps'
      <3>1. Connect(Daemon) /\ main' = main /\ Daemon \in Procs
        BY <1>2 DEF Serve
      <3>2. conn'[Daemon] = main /\ \A q \in Procs \ {Daemon} : conn'[q] = conn[q]
        BY <3>1, ConnectOpens
      <3>3. main \in Nat \ {0}
        BY DEF Gens
      <3>4. step'[Daemon] = "serving" /\ \A q \in Procs \ {Daemon} : step'[q] = step[q]
        BY <1>2, StepGoes DEF Serve
      <3> QED
        BY <3>1, <3>2, <3>3, <3>4 DEF ConnectionsFollowSteps, Connected
    <2>4. OnlyLegacyFrames' /\ FramesOfMain'
      BY <1>2, StepGoes, ConnectOpens DEF Serve, WriterReady, OnlyLegacyFrames, FramesOfMain, LocksFollowSteps, Owning,
         ConnectionsFollowSteps, Connected
    <2>5. ServedIsComplete'
      BY <1>2, StepGoes, ConnectOpens DEF Serve, WriterReady, ServedIsComplete, LocksFollowSteps, Owning,
         ConnectionsFollowSteps, Connected
    <2> QED
      BY <2>1, <2>2, <2>3, <2>4, <2>5
  <1>3. CASE Refuse
    <2>0. /\ conn' \in [Procs -> Gens \cup {0}]
          /\ \A q \in Procs : conn'[q] \in {conn[q], 0}
          /\ \A q \in Procs \ Legacy : conn'[q] = conn[q]
          /\ wal' = NoWal \/ wal' = wal
          /\ \A q \in Procs : conn'[q] = main \/ (q \in Legacy /\ conn'[q] # 0) => wal'.there
          /\ astray' \subseteq Procs \X Gens
      <3>1. conn[Daemon] = 0
        BY <1>3 DEF Refuse, ConnectionsFollowSteps, Connected
      <3>2. CASE NobodyElse(Daemon)
        BY <1>3, <3>1, <3>2, LogIsRemoved DEF Refuse
      <3>3. CASE ~NobodyElse(Daemon)
        BY <1>3, <3>3 DEF Refuse
      <3> QED
        BY <3>2, <3>3
    <2>1. TypeOK'
      <3>1. /\ wal' \in [there : BOOLEAN, frames : SUBSET (Procs \X Gens)]
            /\ wal'.frames # {} => wal'.there
        <4>1. CASE wal' = NoWal
          <5>1. wal'.there = FALSE /\ wal'.frames = {} /\ NoWal \in [there : BOOLEAN, frames : SUBSET (Procs \X Gens)]
            BY <4>1 DEF NoWal
          <5> QED
            BY <4>1, <5>1
        <4>2. CASE wal' = wal
          BY <4>2
        <4> QED
          BY <2>0, <4>1, <4>2
      <3>2. step'[Daemon] = "closed" /\ \A q \in Procs \ {Daemon} : step'[q] = step[q]
        BY <1>3, StepGoes DEF Refuse
      <3>3. step' \in [Procs -> DaemonSteps \cup LegacySteps \cup CommandSteps]
        BY <1>3, StepGoes DEF Refuse
      <3> QED
        BY <1>3, <2>0, <3>1, <3>2, <3>3 DEF Refuse
    <2>2. LocksFollowSteps'
      BY <1>3, StepGoes DEF Refuse, LocksFollowSteps, Owning, Writing
    <2>3. ConnectionsFollowSteps'
      BY <1>3, <2>0, StepGoes DEF Refuse, ConnectionsFollowSteps, Connected, LocksFollowSteps, Owning
    <2>4. OnlyLegacyFrames' /\ FramesOfMain'
      BY <1>3, <2>0, StepGoes DEF Refuse, NoWal, OnlyLegacyFrames, FramesOfMain, LocksFollowSteps, Owning
    <2>5. ServedIsComplete'
      BY <1>3, StepGoes DEF Refuse, ServedIsComplete
    <2> QED
      BY <2>1, <2>2, <2>3, <2>4, <2>5
  <1>4. CASE Write
    <2>1. TypeOK'
      BY <1>4, CommitKeepsStage, CommitWrites DEF Write, ConnectionsFollowSteps, Connected
    <2>2. LocksFollowSteps'
      BY <1>4, CommitKeepsStage, CommitWrites DEF Write, LocksFollowSteps, Owning, Writing
    <2>3. ConnectionsFollowSteps'
      BY <1>4, CommitKeepsStage, CommitWrites DEF Write, ConnectionsFollowSteps, Connected, LocksFollowSteps, Owning
    <2>4. OnlyLegacyFrames' /\ FramesOfMain'
      BY <1>4, CommitKeepsStage, CommitWrites DEF Write, OnlyLegacyFrames, FramesOfMain, LocksFollowSteps, Owning,
         ConnectionsFollowSteps, Connected
    <2>5. ServedIsComplete'
      BY <1>4, CommitKeepsStage, CommitWrites DEF Write, ServedIsComplete, LocksFollowSteps, Owning,
         ConnectionsFollowSteps, Connected
    <2> QED
      BY <2>1, <2>2, <2>3, <2>4, <2>5
  <1>5. CASE Close
    <2>1. TypeOK'
      BY <1>5, StepGoes, DisconnectCloses DEF Close, ConnectionsFollowSteps, Connected
    <2>2. LocksFollowSteps'
      BY <1>5, StepGoes, DisconnectCloses DEF Close, LocksFollowSteps, Owning, Writing
    <2>3. ConnectionsFollowSteps'
      BY <1>5, StepGoes, DisconnectCloses DEF Close, ConnectionsFollowSteps, Connected, LocksFollowSteps, Owning
    <2>4. OnlyLegacyFrames' /\ FramesOfMain'
      BY <1>5, StepGoes, DisconnectCloses DEF Close, OnlyLegacyFrames, FramesOfMain, LocksFollowSteps, Owning,
         ConnectionsFollowSteps, Connected
    <2>5. ServedIsComplete'
      BY <1>5, StepGoes, DisconnectCloses DEF Close, ServedIsComplete, LocksFollowSteps, Owning,
         ConnectionsFollowSteps, Connected
    <2> QED
      BY <2>1, <2>2, <2>3, <2>4, <2>5
  <1>6. CASE Release
    <2>1. TypeOK'
      BY <1>6, StepGoes DEF Release, ConnectionsFollowSteps, Connected
    <2>2. LocksFollowSteps'
      BY <1>6, StepGoes DEF Release, LocksFollowSteps, Owning, Writing
    <2>3. ConnectionsFollowSteps'
      BY <1>6, StepGoes DEF Release, ConnectionsFollowSteps, Connected, LocksFollowSteps, Owning
    <2>4. OnlyLegacyFrames' /\ FramesOfMain'
      BY <1>6, StepGoes DEF Release, OnlyLegacyFrames, FramesOfMain, LocksFollowSteps, Owning,
         ConnectionsFollowSteps, Connected
    <2>5. ServedIsComplete'
      BY <1>6, StepGoes DEF Release, ServedIsComplete, LocksFollowSteps, Owning,
         ConnectionsFollowSteps, Connected
    <2> QED
      BY <2>1, <2>2, <2>3, <2>4, <2>5
  <1> QED
    BY <1>1, <1>2, <1>3, <1>4, <1>5, <1>6 DEF DaemonNext

LEMMA LegacyKeeps ==
    ASSUME NEW l \in Legacy, IInv, LegacyNext(l)
    PROVE  IInv'
  <1> USE MaintenanceAssumption DEF IInv, TypeOK, Procs, DaemonSteps, LegacySteps, CommandSteps
  <1>1. CASE Probe(l)
    <2>0. wal' = [there |-> TRUE, frames |-> wal.frames]
      BY <1>1 DEF Probe
    <2>1. TypeOK'
      <3>1. /\ wal' \in [there : BOOLEAN, frames : SUBSET (Procs \X Gens)]
            /\ wal'.there /\ wal'.frames = wal.frames
        BY <2>0
      <3>2. step'[l] \in {"probed", "off"} /\ \A q \in Procs \ {l} : step'[q] = step[q]
        BY <1>1, StepGoes DEF Probe
      <3>3. step' \in [Procs -> DaemonSteps \cup LegacySteps \cup CommandSteps]
        BY <1>1, StepGoes DEF Probe
      <3> QED
        BY <1>1, <3>1, <3>2, <3>3 DEF Probe
    <2>2. LocksFollowSteps'
      BY <1>1, StepGoes DEF Probe, LocksFollowSteps, Owning, Writing
    <2>3. ConnectionsFollowSteps'
      BY <1>1, StepGoes DEF Probe, ConnectionsFollowSteps, Connected, LocksFollowSteps, Owning
    <2>4. OnlyLegacyFrames' /\ FramesOfMain'
      BY <1>1, <2>0, StepGoes DEF Probe, OnlyLegacyFrames, FramesOfMain, LocksFollowSteps, Owning,
         ConnectionsFollowSteps, Connected
    <2>5. ServedIsComplete'
      BY <1>1, StepGoes DEF Probe, ServedIsComplete, LocksFollowSteps, Owning,
         ConnectionsFollowSteps, Connected
    <2> QED
      BY <2>1, <2>2, <2>3, <2>4, <2>5
  <1>2. CASE OpenStore(l)
    <2>1. TypeOK'
      BY <1>2, StepGoes DEF OpenStore, ConnectionsFollowSteps, Connected
    <2>2. LocksFollowSteps'
      BY <1>2, StepGoes DEF OpenStore, LocksFollowSteps, Owning, Writing
    <2>3. ConnectionsFollowSteps'
      <3>1. /\ conn'[l] = main /\ main \in Nat /\ \A q \in Procs \ {l} : conn'[q] = conn[q]
            /\ main' = main
        BY <1>2 DEF OpenStore, Gens
      <3>2. step'[l] = "idle" /\ \A q \in Procs \ {l} : step'[q] = step[q]
        BY <1>2, StepGoes DEF OpenStore
      <3> QED
        BY <3>1, <3>2 DEF ConnectionsFollowSteps, Connected
    <2>4. OnlyLegacyFrames' /\ FramesOfMain'
      BY <1>2, StepGoes DEF OpenStore, OnlyLegacyFrames, FramesOfMain, LocksFollowSteps, Owning,
         ConnectionsFollowSteps, Connected
    <2>5. ServedIsComplete'
      BY <1>2, StepGoes DEF OpenStore, ServedIsComplete, LocksFollowSteps, Owning,
         ConnectionsFollowSteps, Connected
    <2> QED
      BY <2>1, <2>2, <2>3, <2>4, <2>5
  <1>3. CASE BeginWrite(l)
    <2>1. TypeOK'
      BY <1>3, StepGoes DEF BeginWrite, ConnectionsFollowSteps, Connected
    <2>2. LocksFollowSteps'
      BY <1>3, StepGoes DEF BeginWrite, LocksFollowSteps, Owning, Writing
    <2>3. ConnectionsFollowSteps'
      BY <1>3, StepGoes DEF BeginWrite, ConnectionsFollowSteps, Connected, LocksFollowSteps, Owning
    <2>4. OnlyLegacyFrames' /\ FramesOfMain'
      BY <1>3, StepGoes DEF BeginWrite, OnlyLegacyFrames, FramesOfMain, LocksFollowSteps, Owning,
         ConnectionsFollowSteps, Connected
    <2>5. ServedIsComplete'
      BY <1>3, StepGoes DEF BeginWrite, ServedIsComplete, LocksFollowSteps, Owning,
         ConnectionsFollowSteps, Connected
    <2> QED
      BY <2>1, <2>2, <2>3, <2>4, <2>5
  <1>4. CASE LegacyWrite(l)
    <2>1. TypeOK'
      BY <1>4, CommitKeepsStage, CommitWrites DEF LegacyWrite, ConnectionsFollowSteps, Connected
    <2>2. LocksFollowSteps'
      BY <1>4, CommitKeepsStage, CommitWrites DEF LegacyWrite, LocksFollowSteps, Owning, Writing
    <2>3. ConnectionsFollowSteps'
      BY <1>4, CommitKeepsStage, CommitWrites DEF LegacyWrite, ConnectionsFollowSteps, Connected, LocksFollowSteps, Owning
    <2>4. OnlyLegacyFrames' /\ FramesOfMain'
      BY <1>4, CommitKeepsStage, CommitWrites DEF LegacyWrite, OnlyLegacyFrames, FramesOfMain, LocksFollowSteps, Owning,
         ConnectionsFollowSteps, Connected
    <2>5. ServedIsComplete'
      BY <1>4, CommitKeepsStage, CommitWrites DEF LegacyWrite, ServedIsComplete, LocksFollowSteps, Owning,
         ConnectionsFollowSteps, Connected
    <2> QED
      BY <2>1, <2>2, <2>3, <2>4, <2>5
  <1>5. CASE EndWrite(l)
    <2>1. TypeOK'
      BY <1>5, StepGoes DEF EndWrite, ConnectionsFollowSteps, Connected
    <2>2. LocksFollowSteps'
      BY <1>5, StepGoes DEF EndWrite, LocksFollowSteps, Owning, Writing
    <2>3. ConnectionsFollowSteps'
      BY <1>5, StepGoes DEF EndWrite, ConnectionsFollowSteps, Connected, LocksFollowSteps, Owning
    <2>4. OnlyLegacyFrames' /\ FramesOfMain'
      BY <1>5, StepGoes DEF EndWrite, OnlyLegacyFrames, FramesOfMain, LocksFollowSteps, Owning,
         ConnectionsFollowSteps, Connected
    <2>5. ServedIsComplete'
      BY <1>5, StepGoes DEF EndWrite, ServedIsComplete, LocksFollowSteps, Owning,
         ConnectionsFollowSteps, Connected
    <2> QED
      BY <2>1, <2>2, <2>3, <2>4, <2>5
  <1>6. CASE CloseStore(l)
    <2>1. TypeOK'
      BY <1>6, StepGoes, DisconnectCloses DEF CloseStore, ConnectionsFollowSteps, Connected
    <2>2. LocksFollowSteps'
      BY <1>6, StepGoes, DisconnectCloses DEF CloseStore, LocksFollowSteps, Owning, Writing
    <2>3. ConnectionsFollowSteps'
      BY <1>6, StepGoes, DisconnectCloses DEF CloseStore, ConnectionsFollowSteps, Connected, LocksFollowSteps, Owning
    <2>4. OnlyLegacyFrames' /\ FramesOfMain'
      BY <1>6, StepGoes, DisconnectCloses DEF CloseStore, OnlyLegacyFrames, FramesOfMain, LocksFollowSteps, Owning,
         ConnectionsFollowSteps, Connected
    <2>5. ServedIsComplete'
      BY <1>6, StepGoes, DisconnectCloses DEF CloseStore, ServedIsComplete, LocksFollowSteps, Owning,
         ConnectionsFollowSteps, Connected
    <2> QED
      BY <2>1, <2>2, <2>3, <2>4, <2>5
  <1>7. CASE LegacyWriteUnlocked(l)
    <2>1. TypeOK'
      BY <1>7, CommitKeepsStage, CommitWrites DEF LegacyWriteUnlocked
    <2>2. LocksFollowSteps'
      BY <1>7 DEF LegacyWriteUnlocked, LocksFollowSteps
    <2>3. ConnectionsFollowSteps'
      BY <1>7 DEF LegacyWriteUnlocked, ConnectionsFollowSteps
    <2>4. OnlyLegacyFrames' /\ FramesOfMain'
      BY <1>7, CommitKeepsStage, CommitWrites DEF LegacyWriteUnlocked, OnlyLegacyFrames, FramesOfMain
    <2>5. ServedIsComplete'
      BY <1>7, CommitKeepsStage, CommitWrites DEF LegacyWriteUnlocked, ServedIsComplete
    <2> QED
      BY <2>1, <2>2, <2>3, <2>4, <2>5
  <1> QED
    BY <1>1, <1>2, <1>3, <1>4, <1>5, <1>6, <1>7 DEF LegacyNext

LEMMA CommandKeeps ==
    ASSUME NEW m \in Commands, IInv, CommandNext(m)
    PROVE  IInv'
  <1> USE MaintenanceAssumption DEF IInv, TypeOK, Procs, DaemonSteps, LegacySteps, CommandSteps
  <1>1. CASE Count(m)
    <2>0. conn'[m] = main /\ main \in Nat \ {0} /\ \A q \in Procs \ {m} : conn'[q] = conn[q]
      BY <1>1, ConnectOpens DEF Count, Gens
    <2>1. TypeOK'
      BY <1>1, StepGoes, ConnectOpens DEF Count, ConnectionsFollowSteps, Connected
    <2>2. LocksFollowSteps'
      BY <1>1, StepGoes, ConnectOpens DEF Count, LocksFollowSteps, Owning, Writing
    <2>3. ConnectionsFollowSteps'
      BY <1>1, <2>0, StepGoes DEF Count, ConnectionsFollowSteps, Connected, LocksFollowSteps, Owning
    <2>4. OnlyLegacyFrames' /\ FramesOfMain'
      BY <1>1, StepGoes, ConnectOpens DEF Count, OnlyLegacyFrames, FramesOfMain, LocksFollowSteps, Owning,
         ConnectionsFollowSteps, Connected
    <2>5. ServedIsComplete'
      BY <1>1, StepGoes, ConnectOpens DEF Count, ServedIsComplete, LocksFollowSteps, Owning,
         ConnectionsFollowSteps, Connected
    <2> QED
      BY <2>1, <2>2, <2>3, <2>4, <2>5
  <1>2. CASE CopyOut(m)
    <2>1. TypeOK'
      BY <1>2, StepGoes DEF CopyOut, ConnectionsFollowSteps, Connected
    <2>2. LocksFollowSteps'
      BY <1>2, StepGoes DEF CopyOut, LocksFollowSteps, Owning, Writing
    <2>3. ConnectionsFollowSteps'
      BY <1>2, StepGoes DEF CopyOut, ConnectionsFollowSteps, Connected, LocksFollowSteps, Owning
    <2>4. OnlyLegacyFrames' /\ FramesOfMain'
      BY <1>2, StepGoes DEF CopyOut, OnlyLegacyFrames, FramesOfMain, LocksFollowSteps, Owning,
         ConnectionsFollowSteps, Connected
    <2>5. ServedIsComplete'
      BY <1>2, StepGoes DEF CopyOut, ServedIsComplete, LocksFollowSteps, Owning,
         ConnectionsFollowSteps, Connected
    <2> QED
      BY <2>1, <2>2, <2>3, <2>4, <2>5
  <1>3. CASE PublishBackup(m)
    <2>0. backup' \subseteq Stages /\ Cardinality(backup') <= 1
      <3>1. backup' = {staged[m]} /\ staged[m] \in Stages
        BY <1>3 DEF PublishBackup
      <3>2. Cardinality({staged[m]}) = 1
        BY FS_Singleton, Zenon
      <3> QED
        BY <3>1, <3>2
    <2>1. TypeOK'
      BY <1>3, <2>0, StepGoes, ReaderCloses, CopyIsDiscarded DEF PublishBackup, ConnectionsFollowSteps, Connected
    <2>2. LocksFollowSteps'
      BY <1>3, StepGoes, ReaderCloses, CopyIsDiscarded DEF PublishBackup, LocksFollowSteps, Owning, Writing
    <2>3. ConnectionsFollowSteps'
      BY <1>3, StepGoes, ReaderCloses, CopyIsDiscarded DEF PublishBackup, ConnectionsFollowSteps, Connected, LocksFollowSteps, Owning
    <2>4. OnlyLegacyFrames' /\ FramesOfMain'
      BY <1>3, StepGoes, ReaderCloses, CopyIsDiscarded DEF PublishBackup, OnlyLegacyFrames, FramesOfMain, LocksFollowSteps, Owning,
         ConnectionsFollowSteps, Connected
    <2>5. ServedIsComplete'
      BY <1>3, StepGoes, ReaderCloses, CopyIsDiscarded DEF PublishBackup, ServedIsComplete, LocksFollowSteps, Owning,
         ConnectionsFollowSteps, Connected
    <2> QED
      BY <2>1, <2>2, <2>3, <2>4, <2>5
  <1>4. CASE BackupFails(m)
    <2>1. TypeOK'
      BY <1>4, StepGoes, ReaderCloses, CopyIsDiscarded DEF BackupFails, ConnectionsFollowSteps, Connected
    <2>2. LocksFollowSteps'
      BY <1>4, StepGoes, ReaderCloses, CopyIsDiscarded DEF BackupFails, LocksFollowSteps, Owning, Writing
    <2>3. ConnectionsFollowSteps'
      BY <1>4, StepGoes, ReaderCloses, CopyIsDiscarded DEF BackupFails, ConnectionsFollowSteps, Connected, LocksFollowSteps, Owning
    <2>4. OnlyLegacyFrames' /\ FramesOfMain'
      BY <1>4, StepGoes, ReaderCloses, CopyIsDiscarded DEF BackupFails, OnlyLegacyFrames, FramesOfMain, LocksFollowSteps, Owning,
         ConnectionsFollowSteps, Connected
    <2>5. ServedIsComplete'
      BY <1>4, StepGoes, ReaderCloses, CopyIsDiscarded DEF BackupFails, ServedIsComplete, LocksFollowSteps, Owning,
         ConnectionsFollowSteps, Connected
    <2> QED
      BY <2>1, <2>2, <2>3, <2>4, <2>5
  <1>5. CASE TakeOwnership(m)
    <2>1. TypeOK'
      BY <1>5, StepGoes DEF TakeOwnership, ConnectionsFollowSteps, Connected
    <2>2. LocksFollowSteps'
      BY <1>5, StepGoes DEF TakeOwnership, LocksFollowSteps, Owning, Writing
    <2>3. ConnectionsFollowSteps'
      BY <1>5, StepGoes DEF TakeOwnership, ConnectionsFollowSteps, Connected, LocksFollowSteps, Owning
    <2>4. OnlyLegacyFrames' /\ FramesOfMain'
      BY <1>5, StepGoes DEF TakeOwnership, OnlyLegacyFrames, FramesOfMain, LocksFollowSteps, Owning,
         ConnectionsFollowSteps, Connected
    <2>5. ServedIsComplete'
      BY <1>5, StepGoes DEF TakeOwnership, ServedIsComplete, LocksFollowSteps, Owning,
         ConnectionsFollowSteps, Connected
    <2> QED
      BY <2>1, <2>2, <2>3, <2>4, <2>5
  <1>6. CASE TakeWriteLock(m)
    <2>1. TypeOK'
      BY <1>6, StepGoes DEF TakeWriteLock, ConnectionsFollowSteps, Connected
    <2>2. LocksFollowSteps'
      BY <1>6, StepGoes DEF TakeWriteLock, LocksFollowSteps, Owning, Writing
    <2>3. ConnectionsFollowSteps'
      BY <1>6, StepGoes DEF TakeWriteLock, ConnectionsFollowSteps, Connected, LocksFollowSteps, Owning
    <2>4. OnlyLegacyFrames' /\ FramesOfMain'
      BY <1>6, StepGoes DEF TakeWriteLock, OnlyLegacyFrames, FramesOfMain, LocksFollowSteps, Owning,
         ConnectionsFollowSteps, Connected
    <2>5. ServedIsComplete'
      BY <1>6, StepGoes DEF TakeWriteLock, ServedIsComplete, LocksFollowSteps, Owning,
         ConnectionsFollowSteps, Connected
    <2> QED
      BY <2>1, <2>2, <2>3, <2>4, <2>5
  <1>7. CASE StartMigration(m)
    <2>1. TypeOK'
      BY <1>7, StepGoes, ConnectOpens DEF StartMigration, ConnectionsFollowSteps, Connected
    <2>2. LocksFollowSteps'
      BY <1>7, StepGoes, ConnectOpens DEF StartMigration, LocksFollowSteps, Owning, Writing
    <2>3. ConnectionsFollowSteps'
      <3>1. /\ conn'[m] = main /\ main \in Nat \ {0} /\ \A q \in Procs \ {m} : conn'[q] = conn[q]
            /\ main' = main
        <4>1. Connect(m) /\ main' = main /\ m \in Procs
          BY <1>7 DEF StartMigration
        <4>2. conn'[m] = main /\ \A q \in Procs \ {m} : conn'[q] = conn[q]
          BY <4>1, ConnectOpens
        <4>3. main \in Nat \ {0}
          BY DEF Gens
        <4> QED
          BY <4>1, <4>2, <4>3
      <3>2. step'[m] = "migrating" /\ \A q \in Procs \ {m} : step'[q] = step[q]
        BY <1>7, StepGoes DEF StartMigration
      <3> QED
        BY <3>1, <3>2 DEF ConnectionsFollowSteps, Connected
    <2>4. OnlyLegacyFrames' /\ FramesOfMain'
      BY <1>7, StepGoes, ConnectOpens DEF StartMigration, OnlyLegacyFrames, FramesOfMain, LocksFollowSteps, Owning,
         ConnectionsFollowSteps, Connected
    <2>5. ServedIsComplete'
      BY <1>7, StepGoes, ConnectOpens DEF StartMigration, ServedIsComplete, LocksFollowSteps, Owning,
         ConnectionsFollowSteps, Connected
    <2> QED
      BY <2>1, <2>2, <2>3, <2>4, <2>5
  <1>8. CASE Migrate(m)
    <2>0. /\ conn[m] # 0 /\ conn[m] = main /\ lock = m
          /\ \E f \in Stages : CommitTo(m, f)
      <3>1. conn[m] # 0 /\ conn[m] = main /\ lock = m
        BY <1>8 DEF Migrate, ConnectionsFollowSteps, Connected, LocksFollowSteps, Owning
      <3>2. file[conn[m]] \in Stages
        BY <3>1
      <3>3. Migrated[file[conn[m]]] \in Stages
        BY <3>2 DEF Migrated, Stages
      <3> QED
        BY <1>8, <3>1, <3>3 DEF Migrate
    <2>1. TypeOK'
      BY <1>8, <2>0, CommitWrites DEF Migrate, ConnectionsFollowSteps, Connected
    <2>2. LocksFollowSteps'
      BY <1>8, CommitWrites DEF Migrate, LocksFollowSteps, Owning, Writing
    <2>3. ConnectionsFollowSteps'
      BY <1>8, <2>0, CommitWrites DEF Migrate, ConnectionsFollowSteps, Connected, LocksFollowSteps, Owning
    <2>4. OnlyLegacyFrames' /\ FramesOfMain'
      BY <1>8, <2>0, CommitWrites DEF Migrate, OnlyLegacyFrames, FramesOfMain, LocksFollowSteps, Owning,
         ConnectionsFollowSteps, Connected
    <2>5. ServedIsComplete'
      BY <1>8, <2>0, CommitWrites DEF Migrate, ServedIsComplete, LocksFollowSteps, Owning,
         ConnectionsFollowSteps, Connected
    <2> QED
      BY <2>1, <2>2, <2>3, <2>4, <2>5
  <1>9. CASE EndMigration(m)
    <2>1. TypeOK'
      BY <1>9, StepGoes, LocksAreGivenUp DEF EndMigration, ConnectionsFollowSteps, Connected
    <2>2. LocksFollowSteps'
      BY <1>9, StepGoes, LocksAreGivenUp DEF EndMigration, LocksFollowSteps, Owning, Writing
    <2>3. ConnectionsFollowSteps'
      BY <1>9, StepGoes, LocksAreGivenUp DEF EndMigration, ConnectionsFollowSteps, Connected, LocksFollowSteps, Owning
    <2>4. OnlyLegacyFrames' /\ FramesOfMain'
      BY <1>9, StepGoes, LocksAreGivenUp DEF EndMigration, OnlyLegacyFrames, FramesOfMain, LocksFollowSteps, Owning,
         ConnectionsFollowSteps, Connected
    <2>5. ServedIsComplete'
      BY <1>9, StepGoes, LocksAreGivenUp DEF EndMigration, ServedIsComplete, LocksFollowSteps, Owning,
         ConnectionsFollowSteps, Connected
    <2> QED
      BY <2>1, <2>2, <2>3, <2>4, <2>5
  <1>10. CASE CloseMigrated(m)
    <2>1. TypeOK'
      BY <1>10, StepGoes, DisconnectCloses DEF CloseMigrated, ConnectionsFollowSteps, Connected
    <2>2. LocksFollowSteps'
      BY <1>10, StepGoes, DisconnectCloses DEF CloseMigrated, LocksFollowSteps, Owning, Writing
    <2>3. ConnectionsFollowSteps'
      BY <1>10, StepGoes, DisconnectCloses DEF CloseMigrated, ConnectionsFollowSteps, Connected, LocksFollowSteps, Owning
    <2>4. OnlyLegacyFrames' /\ FramesOfMain'
      BY <1>10, StepGoes, DisconnectCloses DEF CloseMigrated, OnlyLegacyFrames, FramesOfMain, LocksFollowSteps, Owning,
         ConnectionsFollowSteps, Connected
    <2>5. ServedIsComplete'
      BY <1>10, StepGoes, DisconnectCloses DEF CloseMigrated, ServedIsComplete, LocksFollowSteps, Owning,
         ConnectionsFollowSteps, Connected
    <2> QED
      BY <2>1, <2>2, <2>3, <2>4, <2>5
  <1>11. CASE StageRestore(m)
    <2>1. TypeOK'
      BY <1>11, StepGoes DEF StageRestore, NoSidecars, ConnectionsFollowSteps, Connected
    <2>2. LocksFollowSteps'
      BY <1>11, StepGoes DEF StageRestore, NoSidecars, LocksFollowSteps, Owning, Writing
    <2>3. ConnectionsFollowSteps'
      BY <1>11, StepGoes DEF StageRestore, NoSidecars, ConnectionsFollowSteps, Connected, LocksFollowSteps, Owning
    <2>4. OnlyLegacyFrames' /\ FramesOfMain'
      BY <1>11, StepGoes DEF StageRestore, NoSidecars, OnlyLegacyFrames, FramesOfMain, LocksFollowSteps, Owning,
         ConnectionsFollowSteps, Connected
    <2>5. ServedIsComplete'
      BY <1>11, StepGoes DEF StageRestore, NoSidecars, ServedIsComplete, LocksFollowSteps, Owning,
         ConnectionsFollowSteps, Connected
    <2> QED
      BY <2>1, <2>2, <2>3, <2>4, <2>5
  <1>12. CASE PublishRestore(m)
    <2>0. /\ main' \in Gens /\ file' \in [Gens -> Stages]
          /\ main \in Nat \ {0} /\ main' = main + 1
          /\ \A p \in Procs : conn'[p] = conn[p] /\ (conn[p] # 0 => conn[p] <= main)
          /\ \A p \in Procs : conn'[p] # main'
      <3>1. main \in Nat \ {0} /\ main' = main + 1 /\ main' \in Gens /\ file' \in [Gens -> Stages]
        BY <1>12, MaintenanceAssumption DEF PublishRestore, Gens
      <3>2. \A p \in Procs : conn'[p] = conn[p] /\ (conn[p] # 0 => conn[p] <= main)
        BY <1>12 DEF PublishRestore, ConnectionsFollowSteps
      <3>3. \A p \in Procs : conn'[p] # main'
        BY <3>1, <3>2 DEF Gens
      <3> QED
        BY <3>1, <3>2, <3>3
    <2>1. TypeOK'
      BY <1>12, <2>0, StepGoes, CopyIsDiscarded DEF PublishRestore, ConnectionsFollowSteps, Connected
    <2>2. LocksFollowSteps'
      BY <1>12, StepGoes, CopyIsDiscarded DEF PublishRestore, LocksFollowSteps, Owning, Writing
    <2>3. ConnectionsFollowSteps'
      <3>1. step'[m] = "done" /\ step[m] = "staged" /\ \A q \in Procs \ {m} : step'[q] = step[q]
        BY <1>12, StepGoes DEF PublishRestore
      <3>2. \A p \in Procs : conn[p] # 0 => conn[p] <= main'
        BY <2>0 DEF Gens
      <3>3. \A p \in Procs : step'[p] \notin {"serving", "migrating"}
        BY <3>1 DEF LocksFollowSteps, Owning
      <3> QED
        BY <2>0, <3>1, <3>2, <3>3 DEF ConnectionsFollowSteps, Connected
    <2>4. OnlyLegacyFrames' /\ FramesOfMain'
      BY <1>12, StepGoes, CopyIsDiscarded DEF PublishRestore, OnlyLegacyFrames, FramesOfMain, LocksFollowSteps, Owning,
         ConnectionsFollowSteps, Connected
    <2>5. ServedIsComplete'
      BY <1>12, <2>0, StepGoes, CopyIsDiscarded DEF PublishRestore, ServedIsComplete, LocksFollowSteps, Owning,
         ConnectionsFollowSteps, Connected
    <2> QED
      BY <2>1, <2>2, <2>3, <2>4, <2>5
  <1>13. CASE EndRestore(m)
    <2>1. TypeOK'
      BY <1>13, StepGoes, CopyIsDiscarded, LocksAreGivenUp DEF EndRestore, ConnectionsFollowSteps, Connected
    <2>2. LocksFollowSteps'
      BY <1>13, StepGoes, CopyIsDiscarded, LocksAreGivenUp DEF EndRestore, LocksFollowSteps, Owning, Writing
    <2>3. ConnectionsFollowSteps'
      BY <1>13, StepGoes, CopyIsDiscarded, LocksAreGivenUp DEF EndRestore, ConnectionsFollowSteps, Connected, LocksFollowSteps, Owning
    <2>4. OnlyLegacyFrames' /\ FramesOfMain'
      BY <1>13, StepGoes, CopyIsDiscarded, LocksAreGivenUp DEF EndRestore, OnlyLegacyFrames, FramesOfMain, LocksFollowSteps, Owning,
         ConnectionsFollowSteps, Connected
    <2>5. ServedIsComplete'
      BY <1>13, StepGoes, CopyIsDiscarded, LocksAreGivenUp DEF EndRestore, ServedIsComplete, LocksFollowSteps, Owning,
         ConnectionsFollowSteps, Connected
    <2> QED
      BY <2>1, <2>2, <2>3, <2>4, <2>5
  <1> QED
    BY <1>1, <1>2, <1>3, <1>4, <1>5, <1>6, <1>7, <1>8, <1>9, <1>10, <1>11, <1>12, <1>13 DEF CommandNext

(* A process may be killed at any step. *)
LEMMA KillKeeps ==
    ASSUME NEW p \in Procs, IInv, Kill(p)
    PROVE  IInv'
  <1> USE MaintenanceAssumption DEF IInv, TypeOK, Procs, DaemonSteps, LegacySteps, CommandSteps,
          Kill
  <1>1. TypeOK'
    <2>1. /\ conn'[p] = 0 /\ \A q \in Procs \ {p} : conn'[q] = conn[q]
          /\ wal' = wal /\ main' = main /\ main # 0
      BY ReaderCloses DEF Gens
    <2>2. \A q \in Procs : conn'[q] = main' \/ (q \in Legacy /\ conn'[q] # 0) => wal'.there
      BY <2>1
    <2> QED
      BY <2>2, StepGoes, ReaderCloses, CopyIsDiscarded, LocksAreGivenUp, SMTT(30)
  <1>2. LocksFollowSteps'
    BY StepGoes, LocksAreGivenUp DEF LocksFollowSteps, Owning, Writing
  <1>3. ConnectionsFollowSteps'
    BY StepGoes, ReaderCloses DEF ConnectionsFollowSteps, Connected
  <1>4. OnlyLegacyFrames' /\ FramesOfMain'
    BY StepGoes, ReaderCloses DEF OnlyLegacyFrames, FramesOfMain
  <1>5. ServedIsComplete'
    BY StepGoes, ReaderCloses DEF ServedIsComplete
  <1> QED
    BY <1>1, <1>2, <1>3, <1>4, <1>5

LEMMA InitIInv == Init => IInv
  <1> SUFFICES ASSUME Init PROVE IInv
    OBVIOUS
  <1> USE MaintenanceAssumption DEF Init
  <1>1. TypeOK
    BY FS_EmptySet DEF TypeOK, Gens, Stages, NoWal, Empty, Procs,
       DaemonSteps, LegacySteps, CommandSteps
  <1>2. LocksFollowSteps /\ ConnectionsFollowSteps
    BY DEF LocksFollowSteps, Owning, Writing, ConnectionsFollowSteps, Connected, Procs
  <1>3. OnlyLegacyFrames /\ ServedIsComplete /\ FramesOfMain
    BY DEF OnlyLegacyFrames, ServedIsComplete, FramesOfMain, NoWal, Procs
  <1> QED
    BY <1>1, <1>2, <1>3 DEF IInv

LEMMA StepsKeep == IInv /\ [Next]_vars => IInv'
  <1>1. ASSUME IInv, UNCHANGED vars PROVE IInv'
    BY <1>1 DEF IInv, vars, TypeOK, LocksFollowSteps, ConnectionsFollowSteps,
       OnlyLegacyFrames, ServedIsComplete, FramesOfMain
  <1> QED
    BY <1>1, DaemonKeeps, LegacyKeeps, CommandKeeps, KillKeeps DEF Next

(* The invariant that carries the theorems below. *)
THEOREM MaintenanceInvariant == Spec => []IInv
  BY InitIInv, StepsKeep, PTL DEF Spec

(* maintenance_database_lock and the write lock keep every command, from   *)
(* its second lock to its unlock, apart from the daemon, from half done    *)
(* legacy writes and from other commands; and require_compatible_schema    *)
(* lets the daemon serve nothing that a killed or an old command left      *)
(* incomplete.                                                             *)
THEOREM MaintenanceIsSafe == Spec => []MaintenanceSafe
  <1>1. IInv => MaintenanceAlone
    BY MaintenanceAssumption DEF IInv, TypeOK, MaintenanceAlone, LocksFollowSteps, Owning, Writing,
       ConnectionsFollowSteps, Connected, Procs, DaemonSteps, LegacySteps, CommandSteps
  <1>2. IInv => ServedDatabaseCurrent
    BY DEF IInv, ServedIsComplete, ServedDatabaseCurrent
  <1>3. IInv => MaintenanceSafe
    BY <1>1, <1>2 DEF IInv, MaintenanceSafe
  <1> QED
    BY <1>3, MaintenanceInvariant, PTL

(* Frames get into a wrong file only where a stray legacy provider commits.*)
LEMMA OnlyStraysMislead ==
    ASSUME IInv, Next, \A l \in Legacy : ~Stray(l)
    PROVE  \A w \in astray' \ astray : w[1] \in Legacy
  <1> USE MaintenanceAssumption DEF IInv, Procs
  <1>1. SUFFICES \A w \in astray' \ astray : w \in wal.frames /\ w[2] # main
    BY DEF FramesOfMain
  <1>2. CASE DaemonNext
    <2>1. CASE Write
      BY <2>1, CommitKeepsStage, CommitWrites DEF Write, ServedIsComplete
    <2>2. CASE Close
      BY <2>2, DisconnectCloses DEF Close
    <2>3. CASE Refuse
      BY <2>3, LogIsRemoved DEF Refuse
    <2>4. CASE Acquire \/ Serve \/ Release
      BY <2>4 DEF Acquire, Serve, Connect, Release
    <2> QED
      BY <1>2, <2>1, <2>2, <2>3, <2>4 DEF DaemonNext
  <1>3. ASSUME NEW l \in Legacy, LegacyNext(l)
        PROVE  \A w \in astray' \ astray : w \in wal.frames /\ w[2] # main
    <2>1. CASE LegacyWrite(l) \/ LegacyWriteUnlocked(l)
      <3>1. Commit(l) /\ conn[l] = main
        BY <2>1, CommitKeepsStage DEF LegacyWrite, LegacyWriteUnlocked, Stray
      <3> QED
        BY <3>1, CommitKeepsStage, CommitWrites
    <2>2. CASE CloseStore(l)
      BY <2>2, DisconnectCloses DEF CloseStore
    <2>3. CASE Probe(l) \/ OpenStore(l) \/ BeginWrite(l) \/ EndWrite(l)
      BY <2>3 DEF Probe, OpenStore, BeginWrite, EndWrite
    <2> QED
      BY <1>3, <2>1, <2>2, <2>3 DEF LegacyNext
  <1>4. ASSUME NEW m \in Commands, CommandNext(m)
        PROVE  \A w \in astray' \ astray : w \in wal.frames /\ w[2] # main
    <2>1. CASE Migrate(m)
      <3>1. conn[m] = main /\ conn[m] # 0 /\ file[conn[m]] \in Stages
        BY <2>1 DEF Migrate, ConnectionsFollowSteps, Connected, TypeOK, Gens
      <3>2. Migrated[file[conn[m]]] \in Stages
        BY <3>1 DEF Migrated, Stages
      <3> QED
        BY <2>1, <3>1, <3>2, CommitWrites DEF Migrate
    <2>2. CASE CloseMigrated(m)
      BY <2>2, DisconnectCloses DEF CloseMigrated
    <2>3. CASE Count(m) \/ CopyOut(m) \/ PublishBackup(m) \/ BackupFails(m)
      BY <2>3 DEF Count, Connect, CopyOut, PublishBackup, BackupFails, DisconnectReader
    <2>4. CASE TakeOwnership(m) \/ TakeWriteLock(m) \/ StartMigration(m) \/ EndMigration(m)
      BY <2>4 DEF TakeOwnership, TakeWriteLock, StartMigration, Connect, EndMigration
    <2>5. CASE StageRestore(m) \/ PublishRestore(m) \/ EndRestore(m)
      BY <2>5 DEF StageRestore, PublishRestore, EndRestore
    <2> QED
      BY <1>4, <2>1, <2>2, <2>3, <2>4, <2>5 DEF CommandNext
  <1>5. ASSUME NEW p \in Procs, Kill(p)
        PROVE  astray' = astray
    BY <1>5 DEF Kill, DisconnectReader
  <1> QED
    BY <1>2, <1>3, <1>4, <1>5 DEF Next

(* _assert_no_destination_sidecars, looked at once before the copy, is     *)
(* enough for what the daemon and migrations committed: no restore         *)
(* replaces a file whose committed frames are still in the WAL, and no     *)
(* close or checkpoint puts them elsewhere, as long as no legacy provider  *)
(* opened the replaced file behind that look.                              *)
THEOREM CommittedFramesStay == Spec => CommitsStay
  <1>1. ASSUME IInv, [Next]_vars
        PROVE  [/\ FramesOfMain'
                /\ (\A l \in Legacy : ~Stray(l)) =>
                     \A w \in astray' \ astray : w[1] \in Legacy]_vars
    BY <1>1, StepsKeep, OnlyStraysMislead DEF IInv
  <1>2. Spec => CommitsStay
    BY <1>1, MaintenanceInvariant, PTL DEF Spec, CommitsStay
  <1> QED
    BY <1>2

-----------------------------------------------------------------------------
(* Launchers, setups and uninstalls that share a data directory.           *)

(* What configurations, daemons and the memory of an installer can be.     *)
Grantees == Installers \cup {Owner}
Configs == [grants : SUBSET Grantees, by : {None, Owner} \cup Installers]
DaemonStages ==
    {"dead", "load", "own", "open", "bind", "bound", "listening", "serving",
     "closing", "closed"}
Processes ==
    [at : DaemonStages, lock : Inodes \cup {None}, db : Inodes \cup {None},
     grants : SUBSET Grantees, term : BOOLEAN]
Jobs ==
    [db : Inodes \cup {None}, seen : Servers \cup {None}, pid : Servers \cup {None},
     created : BOOLEAN, started : BOOLEAN, before : Configs, wrote : BOOLEAN,
     next : {"start", "restart", "undo", "failed", "restore", "sweep"}]

InstallTypes ==
    /\ db \in Inodes \cup {None} /\ sidecar \in Inodes \cup {None}
    /\ config \in Configs
    /\ sock \in Servers \cup {None} /\ pidfile \in Servers \cup {None}
    /\ server \in [Servers -> Processes]
    /\ job \in [Installers -> Jobs]
    /\ DOMAIN at = Installers

(* A daemon holds a lock from its ownership to its end, that of the        *)
(* sidecar at the path unless somebody removes it, and alone.              *)
LocksFit ==
    /\ \A p \in Servers :
         /\ server[p].lock = None <=> server[p].at \in {"dead", "load", "own"}
         /\ server[p].db # None => server[p].lock # None
         /\ server[p].lock # None => server[p].lock = sidecar \/ Wiping
    /\ \A p, q \in Servers :
         server[p].lock # None /\ server[p].lock = server[q].lock => p = q

(* Only a setup that created the instance, and an uninstall, remove it.    *)
RollbacksFit ==
    \A i \in Installers :
        /\ job[i].created => i \in Setups
        /\ at[i] \in {"wipe", "wiping"} => i \in Uninstalls \/ job[i].created
        /\ at[i] = "sweep" \/ job[i].next = "sweep" => i \in Uninstalls

(* A launcher grants nothing to anybody else and rolls nothing back.       *)
LaunchersFit ==
    \A i \in Launchers :
        /\ at[i] \in {"absent", "start", "token", "makedb", "makeconfig", "makecred",
                      "probe", "inspect", "confirm", "unlink", "spawn", "writepid",
                      "newpid", "wait", "stop", "stopping", "served", "failed", "killed"}
        /\ job[i].next \in {"start", "failed"}

Alone(i) == \A j \in Setups \cup Uninstalls : j # i => at[j] = "absent"

Starting == {"absent", "start", "makedb", "makeconfig", "grant", "replace"}
Running == {"probe", "inspect", "confirm", "unlink", "spawn", "writepid", "newpid", "wait",
            "smoke", "restart"}
Stopping == {"stop", "stopping"}
Undoing == {"undo", "restore"}
Ended == {"wipe", "wiping", "done", "failed", "killed", "torn"}

(* The step a setup takes once it need not wait for a daemon to stop.      *)
StepAfter(i) == IF at[i] \in Stopping THEN job[i].next ELSE at[i]

Granted(i) == i \in config.grants /\ config.by = Owner
CanUndo(i) == job[i].created \/ job[i].before # NoConfig

(* What a setup that is alone with launchers has done and remembers.       *)
SetupFits(i) ==
    LET now == StepAfter(i) IN
    /\ now \in Starting \cup {"makecred", "credential"} \cup Running \cup Undoing \cup Ended
    /\ at[i] \in Stopping => now \in {"restart", "undo", "restore"}
    /\ i \notin job[i].before.grants
    /\ now \in Starting =>
         i \notin config.grants /\ i \notin creds /\ ~job[i].wrote /\ ~job[i].created
    /\ now \in Starting \ {"replace"} => job[i].before = NoConfig
    /\ now = "replace" => job[i].before # NoConfig
    /\ now = "makecred" =>
         /\ config.grants = {i} /\ config.by = i /\ i \notin creds
         /\ ~job[i].wrote /\ ~job[i].created /\ job[i].before = NoConfig
    /\ now = "credential" =>
         /\ Granted(i) /\ i \notin creds /\ ~job[i].wrote /\ ~job[i].created
         /\ job[i].before # NoConfig
    /\ now \in Running => Granted(i) /\ i \in creds /\ job[i].wrote /\ CanUndo(i)
    /\ now \in Undoing =>
         /\ job[i].wrote <=> i \in creds
         /\ CanUndo(i) \/ i \notin config.grants
    /\ now = "wipe" => i \notin creds
    /\ now \in {"wiping", "failed"} => i \notin config.grants /\ i \notin creds
    /\ now = "done" => Granted(i) /\ i \in creds

SetupsFit == \A i \in Setups : Alone(i) => SetupFits(i)

InstallInv == InstallTypes /\ LocksFit /\ RollbacksFit /\ LaunchersFit /\ SetupsFit

-----------------------------------------------------------------------------
(* There is always an inode number that nothing refers to.                 *)
Referred ==
    {db, sidecar} \cup {server[p].db : p \in Servers} \cup {server[p].lock : p \in Servers}
        \cup {job[i].db : i \in Installers}

LEMMA ImageSize ==
    ASSUME NEW S, NEW f, IsFiniteSet(S)
    PROVE  IsFiniteSet({f[x] : x \in S}) /\ Cardinality({f[x] : x \in S}) <= Cardinality(S)
  <1> DEFINE T == {f[x] : x \in S}
             g == [x \in S |-> f[x]]
  <1>1. g \in Surjection(S, T)
    BY DEF Surjection
  <1> QED
    BY <1>1, FS_Surjection

LEMMA UnionSize ==
    ASSUME NEW S, NEW T, IsFiniteSet(S), IsFiniteSet(T)
    PROVE  /\ IsFiniteSet(S \cup T)
           /\ Cardinality(S \cup T) <= Cardinality(S) + Cardinality(T)
           /\ Cardinality(S \cup T) \in Nat
  <1>1. /\ IsFiniteSet(S \cup T)
        /\ Cardinality(S \cup T) = Cardinality(S) + Cardinality(T) - Cardinality(S \cap T)
    BY FS_Union
  <1>2. IsFiniteSet(S \cap T)
    BY FS_Subset, S \cap T \in SUBSET S
  <1>3. Cardinality(S \cap T) \in Nat /\ Cardinality(S) \in Nat /\ Cardinality(T) \in Nat
    BY <1>2, FS_CardinalityType
  <1>4. Cardinality(S \cup T) \in Nat
    BY <1>1, FS_CardinalityType
  <1> QED
    BY <1>1, <1>3, <1>4

LEMMA FreshExists ==
    InstallTypes => /\ FreshInode \in Inodes
                    /\ FreshInode \notin Referred
  <1> SUFFICES ASSUME InstallTypes
               PROVE  FreshInode \in Inodes /\ FreshInode \notin Referred
    OBVIOUS
  <1> DEFINE A == {server[p].db : p \in Servers}
             B == {server[p].lock : p \in Servers}
             C == {job[i].db : i \in Installers}
             N == Cardinality(Installers)
  <1>1. IsFiniteSet(Servers) /\ Cardinality(Servers) = MaxServers
    BY FS_Interval, InstallationAssumption DEF Servers
  <1>2. IsFiniteSet(A) /\ Cardinality(A) <= MaxServers
    <2> DEFINE f == [p \in Servers |-> server[p].db]
    <2>1. A = {f[p] : p \in Servers}
      OBVIOUS
    <2> HIDE DEF f
    <2> QED
      BY <2>1, <1>1, ImageSize
  <1>3. IsFiniteSet(B) /\ Cardinality(B) <= MaxServers
    <2> DEFINE f == [p \in Servers |-> server[p].lock]
    <2>1. B = {f[p] : p \in Servers}
      OBVIOUS
    <2> HIDE DEF f
    <2> QED
      BY <2>1, <1>1, ImageSize
  <1>4. IsFiniteSet(C) /\ Cardinality(C) <= N
    <2> DEFINE f == [i \in Installers |-> job[i].db]
    <2>1. C = {f[i] : i \in Installers}
      OBVIOUS
    <2>2. IsFiniteSet(Installers)
      BY InstallationAssumption
    <2> HIDE DEF f
    <2> QED
      BY <2>1, <2>2, ImageSize
  <1>5. IsFiniteSet({db, sidecar}) /\ Cardinality({db, sidecar}) <= 2
    <2>1. IsFiniteSet({db}) /\ Cardinality({db}) = 1
      BY FS_Singleton
    <2>2. {db} \cup {sidecar} = {db, sidecar}
      OBVIOUS
    <2> QED
      BY <2>1, <2>2, FS_AddElement
  <1>6. N \in Nat /\ MaxServers \in Nat
    BY FS_CardinalityType, InstallationAssumption
  <1> HIDE DEF A, B, C, N
  <1> DEFINE D == {db, sidecar}
  <1>7. /\ IsFiniteSet(D) /\ Cardinality(D) \in Nat /\ Cardinality(D) <= 2
        /\ Cardinality(A) \in Nat /\ Cardinality(B) \in Nat /\ Cardinality(C) \in Nat
    BY <1>2, <1>3, <1>4, <1>5, FS_CardinalityType
  <1> HIDE DEF D
  <1>8. IsFiniteSet(D \cup A) /\ Cardinality(D \cup A) \in Nat
          /\ Cardinality(D \cup A) <= Cardinality(D) + Cardinality(A)
    BY <1>2, <1>7, UnionSize
  <1>9. IsFiniteSet((D \cup A) \cup B) /\ Cardinality((D \cup A) \cup B) \in Nat
          /\ Cardinality((D \cup A) \cup B) <= Cardinality(D \cup A) + Cardinality(B)
    BY <1>3, <1>8, UnionSize
  <1>10. IsFiniteSet(((D \cup A) \cup B) \cup C)
          /\ Cardinality(((D \cup A) \cup B) \cup C) \in Nat
          /\ Cardinality(((D \cup A) \cup B) \cup C)
                <= Cardinality((D \cup A) \cup B) + Cardinality(C)
    BY <1>4, <1>9, UnionSize
  <1>11. Referred = ((D \cup A) \cup B) \cup C
    BY DEF Referred, A, B, C, D
  <1>12. IsFiniteSet(Referred) /\ Cardinality(Referred) \in Nat
          /\ Cardinality(Referred) <= 2 + MaxServers + MaxServers + N
    BY <1>2, <1>3, <1>4, <1>6, <1>7, <1>8, <1>9, <1>10, <1>11
  <1>13. IsFiniteSet(Inodes) /\ Cardinality(Inodes) = 2 * MaxServers + N + 3
    <2> DEFINE X == 2 * MaxServers + N + 3
    <2>1. X \in Int /\ ~(1 > X)
      BY <1>6
    <2>2. Inodes = 1..X
      BY DEF Inodes, N
    <2> HIDE DEF X
    <2>3. IsFiniteSet(1..X) /\ Cardinality(1..X) = X
      BY <2>1, FS_Interval
    <2> QED
      BY <2>2, <2>3 DEF X
  <1>14. \E n \in Inodes : n \notin Referred
    <2> SUFFICES ASSUME Inodes \in SUBSET Referred PROVE FALSE
      OBVIOUS
    <2> QED
      BY <1>6, <1>12, <1>13, FS_Subset
  <1>15. \A n \in Inodes :
          n \notin Referred <=>
            /\ n \notin {db, sidecar}
            /\ \A p \in Servers : n \notin {server[p].db, server[p].lock}
            /\ \A i \in Installers : n # job[i].db
    BY DEF Referred
  <1>16. FreshInode \in Inodes /\ FreshInode \notin {db, sidecar}
         /\ (\A p \in Servers : FreshInode \notin {server[p].db, server[p].lock})
         /\ (\A i \in Installers : FreshInode # job[i].db)
    BY <1>14, <1>15, Zenon DEF FreshInode
  <1> QED
    BY <1>15, <1>16


-----------------------------------------------------------------------------
(* What an installer or a daemon writes has the right type.                *)

LEMMA ValuesTyped ==
    /\ Dead \in Processes /\ Fresh \in Processes
    /\ NoConfig \in Configs /\ NoJob \in Jobs
    /\ Fresh.at = "load" /\ Fresh.lock = None /\ Fresh.db = None
  <1>1. NoConfig \in Configs
    BY DEF NoConfig, Configs
  <1> QED
    BY <1>1 DEF Dead, Fresh, Processes, DaemonStages, NoJob, Jobs

LEMMA LivenessValues == Liveness \in {"absent", "stale", "live"}
  BY DEF Liveness

(* What becomes of a daemon. *)
LEMMA ServerSet ==
    ASSUME NEW p \in Servers, NEW r \in Processes, server \in [Servers -> Processes],
           server' = [server EXCEPT ![p] = r]
    PROVE  /\ server' \in [Servers -> Processes] /\ server'[p] = r
           /\ \A q \in Servers \ {p} : server'[q] = server[q]
  OBVIOUS

LEMMA Staged ==
    ASSUME NEW p \in Servers, NEW s \in DaemonStages, server \in [Servers -> Processes],
           server' = [server EXCEPT ![p].at = s]
    PROVE  /\ server' \in [Servers -> Processes]
           /\ server'[p].at = s /\ server'[p].lock = server[p].lock
           /\ server'[p].db = server[p].db
           /\ \A q \in Servers \ {p} : server'[q] = server[q]
  BY DEF Processes

LEMMA Loaded ==
    ASSUME NEW p \in Servers, NEW g \in SUBSET Grantees, server \in [Servers -> Processes],
           server' = [server EXCEPT ![p].at = "own", ![p].grants = g]
    PROVE  /\ server' \in [Servers -> Processes]
           /\ server'[p].at = "own" /\ server'[p].lock = server[p].lock
           /\ server'[p].db = server[p].db
           /\ \A q \in Servers \ {p} : server'[q] = server[q]
  BY ZenonT(60) DEF Processes, DaemonStages

LEMMA Locked ==
    ASSUME NEW p \in Servers, NEW n \in Inodes, server \in [Servers -> Processes],
           server' = [server EXCEPT ![p].at = "open", ![p].lock = n]
    PROVE  /\ server' \in [Servers -> Processes]
           /\ server'[p].at = "open" /\ server'[p].lock = n
           /\ server'[p].db = server[p].db
           /\ \A q \in Servers \ {p} : server'[q] = server[q]
  BY ZenonT(60) DEF Processes, DaemonStages

LEMMA Opened ==
    ASSUME NEW p \in Servers, NEW n \in Inodes, server \in [Servers -> Processes],
           server' = [server EXCEPT ![p].at = "bind", ![p].db = n]
    PROVE  /\ server' \in [Servers -> Processes]
           /\ server'[p].at = "bind" /\ server'[p].db = n
           /\ server'[p].lock = server[p].lock
           /\ \A q \in Servers \ {p} : server'[q] = server[q]
  BY ZenonT(60) DEF Processes, DaemonStages

LEMMA Asked ==
    ASSUME NEW p \in Servers, server \in [Servers -> Processes],
           server' = [server EXCEPT ![p] = Terminated(p)]
    PROVE  /\ server' \in [Servers -> Processes]
           /\ \/ server'[p] = Dead
              \/ /\ server'[p].at = server[p].at
                 /\ server'[p].lock = server[p].lock
                 /\ server'[p].db = server[p].db
           /\ \A q \in Servers \ {p} : server'[q] = server[q]
  <1>1. [server[p] EXCEPT !.term = TRUE] \in Processes
    BY DEF Processes
  <1>2. Terminated(p) \in Processes
    BY <1>1, ValuesTyped DEF Terminated
  <1>3. /\ server' \in [Servers -> Processes] /\ server'[p] = Terminated(p)
        /\ \A q \in Servers \ {p} : server'[q] = server[q]
    BY <1>2, ServerSet
  <1>4. CASE server[p].at \in {"load", "own", "open"}
    <2>1. server'[p] = Dead
      BY <1>3, <1>4 DEF Terminated
    <2> QED
      BY <1>3, <2>1
  <1>5. CASE server[p].at \notin {"load", "own", "open"}
    <2>1. server'[p] = [server[p] EXCEPT !.term = TRUE]
      BY <1>3, <1>5 DEF Terminated
    <2>2. server[p] \in Processes
      OBVIOUS
    <2>3. /\ [server[p] EXCEPT !.term = TRUE].at = server[p].at
          /\ [server[p] EXCEPT !.term = TRUE].lock = server[p].lock
          /\ [server[p] EXCEPT !.term = TRUE].db = server[p].db
      BY <2>2 DEF Processes
    <2> QED
      BY <1>3, <2>1, <2>3
  <1> QED
    BY <1>4, <1>5

LEMMA GoesStep ==
    ASSUME NEW i \in Installers, NEW s, InstallTypes, Goes(i, s)
    PROVE  /\ at'[i] = s /\ DOMAIN at' = Installers
           /\ \A j \in Installers \ {i} : at'[j] = at[j]
  BY DEF InstallTypes, Goes

LEMMA NoteFlag ==
    ASSUME NEW i \in Installers, NEW v \in BOOLEAN, NEW field \in {"started", "wrote"},
           job \in [Installers -> Jobs], Note(i, field, v)
    PROVE  job' \in [Installers -> Jobs]
  <1>1. job[i] \in Jobs
    OBVIOUS
  <1>2. CASE field = "started"
    <2>1. [job[i] EXCEPT !.started = v] \in Jobs
      BY <1>1 DEF Jobs
    <2> QED
      BY <1>2, <2>1 DEF Note
  <1>3. CASE field = "wrote"
    <2>1. [job[i] EXCEPT !.wrote = v] \in Jobs
      BY <1>1 DEF Jobs
    <2> QED
      BY <1>3, <2>1 DEF Note
  <1> QED
    BY <1>2, <1>3

LEMMA InstallerTypes ==
    ASSUME NEW i \in Installers, InstallTypes, Installer(i) \/ Again(i)
    PROVE  InstallTypes'
  <1>1. CASE Look(i)
    BY <1>1 DEF InstallTypes, Goes, Note, files, Look
  <1>2. CASE ReadToken(i)
    BY <1>2 DEF InstallTypes, Goes, Note, files, ReadToken
  <1>3. CASE MakeDb(i)
    BY <1>3, FreshExists DEF InstallTypes, Goes, Note, files, MakeDb, Jobs
  <1>4. CASE MakeConfig(i)
    BY <1>4
    DEF InstallTypes, Goes, Note, files, MakeConfig, RemoveCreated, Jobs,
        Configs, Client, Grantees
  <1>5. CASE MakeCredential(i)
    BY <1>5
    DEF InstallTypes, Goes, Note, files, MakeCredential, RemoveCreated, Jobs,
        Configs, NoConfig, Client
  <1>6. CASE ReadGrants(i)
    BY <1>6 DEF InstallTypes, Goes, Note, files, ReadGrants, Jobs
  <1>7. CASE ReplaceConfig(i)
    <2>1. job[i].before.grants \in SUBSET Grantees
      BY DEF InstallTypes, Jobs, Configs
    <2>2. i \in Grantees
      BY DEF Grantees
    <2>3. config' \in Configs
      BY <1>7, <2>1, <2>2 DEF ReplaceConfig, Configs
    <2> QED
      BY <1>7, <2>3 DEF InstallTypes, ReplaceConfig, Goes
  <1>8. CASE WriteCredential(i)
    <2>1. job' \in [Installers -> Jobs]
      BY <1>8, NoteFlag DEF InstallTypes, WriteCredential
    <2> QED
      BY <1>8, <2>1 DEF InstallTypes, WriteCredential, Goes
  <1>9. CASE ProbeSocket(i)
    BY <1>9 DEF InstallTypes, Goes, Note, files, ProbeSocket, Jobs
  <1>10. CASE Inspect(i)
    BY <1>10 DEF InstallTypes, Goes, Note, files, Inspect, Jobs
  <1>11. CASE Confirm(i)
    BY <1>11 DEF InstallTypes, Goes, Note, files, Confirm, Jobs
  <1>12. CASE Unlink(i)
    BY <1>12 DEF InstallTypes, Goes, Note, files, Unlink
  <1>13. CASE Spawn(i)
    <2>1. PICK p \in Servers : server' = [server EXCEPT ![p] = Fresh] /\ Note(i, "pid", p)
      BY <1>13 DEF Spawn
    <2>2. server' \in [Servers -> Processes]
      BY <2>1, ServerSet, ValuesTyped DEF InstallTypes
    <2>3. job' \in [Installers -> Jobs]
      BY <2>1 DEF InstallTypes, Note, Jobs
    <2> QED
      BY <1>13, <2>2, <2>3 DEF InstallTypes, Spawn, Goes, files
  <1>14. CASE WritePid(i)
    BY <1>14 DEF InstallTypes, Goes, Note, files, WritePid, Jobs
  <1>15. CASE Ready(i)
    <2>1. job' \in [Installers -> Jobs]
      <3>1. (i \in Setups) \in BOOLEAN
        OBVIOUS
      <3>2. Note(i, "started", i \in Setups)
        BY <1>15 DEF Ready
      <3> HIDE DEF Note
      <3> QED
        BY <3>1, <3>2, NoteFlag, Zenon DEF InstallTypes
    <2> QED
      BY <1>15, <2>1 DEF InstallTypes, Ready, Goes, files
  <1>16. CASE TimeOut(i)
    BY <1>16 DEF InstallTypes, Goes, Note, files, TimeOut, Lost, Jobs
  <1>17. CASE Stop(i)
    <2>1. server' \in [Servers -> Processes]
      BY <1>17, Asked DEF InstallTypes, Stop
    <2>2. job' \in [Installers -> Jobs]
      BY <1>17 DEF InstallTypes, Stop, Note, Jobs
    <2> QED
      BY <1>17, <2>1, <2>2 DEF InstallTypes, Stop, Goes, files
  <1>18. CASE Stopped(i)
    <2>1. job[i].pid \in Servers \cup {None}
      BY DEF InstallTypes, Jobs
    <2>2. server' \in [Servers -> Processes]
      BY <1>18, <2>1, ServerSet, ValuesTyped DEF InstallTypes, Stopped
    <2>3. job' \in [Installers -> Jobs]
      <3>1. job' = [job EXCEPT ![i].pid = None, ![i].next = "start"]
        BY <1>18 DEF Stopped
      <3>2. [job[i] EXCEPT !.pid = None, !.next = "start"] \in Jobs
        BY DEF InstallTypes, Jobs
      <3>3. job' = [job EXCEPT ![i] = [job[i] EXCEPT !.pid = None, !.next = "start"]]
        BY <3>1 DEF InstallTypes
      <3> QED
        BY <3>2, <3>3 DEF InstallTypes
    <2> QED
      BY <1>18, <2>2, <2>3 DEF InstallTypes, Stopped, Goes, files
  <1>19. CASE Restart(i)
    BY <1>19 DEF InstallTypes, Goes, Note, files, Restart
  <1>20. CASE Smoke(i)
    BY <1>20, ValuesTyped DEF InstallTypes, Smoke, Goes, files
  <1>21. CASE Undo(i)
    BY <1>21 DEF InstallTypes, Goes, Note, files, Undo, Jobs
  <1>22. CASE Restore(i)
    BY <1>22
    DEF InstallTypes, Goes, Note, files, Restore, RollBack, BackedUp, RemoveCreated,
        NoJob, NoConfig, Jobs, Configs
  <1>23. CASE Wipe(i)
    BY <1>23 DEF InstallTypes, Goes, Note, files, Wipe, Remove, NoConfig, Configs
  <1>24. CASE Uninstall(i)
    BY <1>24 DEF InstallTypes, Goes, Note, files, Uninstall, Jobs
  <1>25. CASE Sweep(i)
    BY <1>25 DEF InstallTypes, Goes, Note, files, Sweep
  <1>26. CASE Again(i)
    BY <1>26
    DEF InstallTypes, Goes, Note, files, Again, NoJob, NoConfig, Jobs, Configs
  <1> QED
    BY <1>1, <1>2, <1>3, <1>4, <1>5, <1>6, <1>7, <1>8, <1>9, <1>10, <1>11,
       <1>12, <1>13, <1>14, <1>15, <1>16, <1>17, <1>18, <1>19, <1>20, <1>21, <1>22,
       <1>23, <1>24, <1>25, <1>26
    DEF Installer, Create, Grant, Attach, Finish

LEMMA DaemonTypes ==
    ASSUME NEW p \in Servers, InstallTypes, DaemonStep(p) \/ KillDaemon(p)
    PROVE  InstallTypes'
  <1>1. CASE LoadConfig(p)
    <2>1. config.grants \in SUBSET Grantees
      BY DEF InstallTypes, Configs
    <2>2. server' \in [Servers -> Processes]
      BY <1>1, <2>1, Loaded, ValuesTyped, ServerSet
      DEF InstallTypes, LoadConfig, Die
    <2> QED
      BY <1>1, <2>2 DEF InstallTypes, LoadConfig, files
  <1>2. CASE Own(p)
    <2>1. sidecar' \in Inodes
      BY <1>2, FreshExists DEF InstallTypes, Own
    <2>2. server' \in [Servers -> Processes]
      BY <1>2, <2>1, Locked, ValuesTyped, ServerSet DEF InstallTypes, Own, Die
    <2> QED
      BY <1>2, <2>1, <2>2 DEF InstallTypes, Own
  <1>3. CASE Open(p)
    <2>1. server' \in [Servers -> Processes]
      BY <1>3, Opened, ValuesTyped, ServerSet DEF InstallTypes, Open, Die
    <2> QED
      BY <1>3, <2>1 DEF InstallTypes, Open, files
  <1>4. CASE Bind(p)
    <2>1. server' \in [Servers -> Processes]
      BY <1>4, Staged, ValuesTyped, ServerSet
      DEF InstallTypes, Bind, Die, Stage, DaemonStages
    <2> QED
      BY <1>4, <2>1 DEF InstallTypes, Bind
  <1>5. CASE Listen(p)
    <2>1. server' \in [Servers -> Processes]
      BY <1>5, Staged DEF InstallTypes, Listen, Stage, DaemonStages
    <2> QED
      BY <1>5, <2>1 DEF InstallTypes, Listen, files
  <1>6. CASE ServeSocket(p)
    <2>1. server' \in [Servers -> Processes]
      BY <1>6, Staged, ValuesTyped, ServerSet
      DEF InstallTypes, ServeSocket, Die, Stage, DaemonStages
    <2> QED
      BY <1>6, <2>1 DEF InstallTypes, ServeSocket, files
  <1>7. CASE CloseListener(p)
    BY <1>7 DEF InstallTypes, files, CloseListener, Processes, DaemonStages
  <1>8. CASE UnlinkOwned(p)
    <2>1. server' \in [Servers -> Processes]
      BY <1>8, Staged DEF InstallTypes, UnlinkOwned, Stage, DaemonStages
    <2> QED
      BY <1>8, <2>1 DEF InstallTypes, UnlinkOwned
  <1>9. CASE ReleaseStore(p)
    BY <1>9, ValuesTyped, ServerSet DEF InstallTypes, files, ReleaseStore, Die
  <1>10. CASE KillDaemon(p)
    BY <1>10, ValuesTyped, ServerSet DEF InstallTypes, files, KillDaemon, Die
  <1> QED
    BY <1>1, <1>2, <1>3, <1>4, <1>5, <1>6, <1>7, <1>8, <1>9, <1>10 DEF DaemonStep

-----------------------------------------------------------------------------
(* Who rolls back, removes and is launched.                               *)
LEMMA InstallerRollbacks ==
    ASSUME NEW i \in Installers, InstallTypes, RollbacksFit,
           Installer(i) \/ Again(i)
    PROVE  RollbacksFit'
  <1> USE DEF InstallTypes, RollbacksFit, Jobs, Goes, Note, Installers
  <1>1. CASE Look(i)
    BY <1>1, InstallationAssumption DEF Look, Lost
  <1>2. CASE ReadToken(i)
    BY <1>2, InstallationAssumption DEF ReadToken
  <1>3. CASE MakeDb(i)
    BY <1>3, InstallationAssumption DEF MakeDb, Lost
  <1>4. CASE MakeConfig(i)
    BY <1>4, InstallationAssumption DEF MakeConfig, Lost
  <1>5. CASE MakeCredential(i)
    BY <1>5, InstallationAssumption DEF MakeCredential, Lost
  <1>6. CASE ReadGrants(i)
    BY <1>6, InstallationAssumption DEF ReadGrants
  <1>7. CASE ReplaceConfig(i)
    BY <1>7, InstallationAssumption DEF ReplaceConfig
  <1>8. CASE WriteCredential(i)
    BY <1>8, InstallationAssumption DEF WriteCredential
  <1>9. CASE ProbeSocket(i)
    BY <1>9, InstallationAssumption DEF ProbeSocket, Lost
  <1>10. CASE Inspect(i)
    BY <1>10, InstallationAssumption DEF Inspect
  <1>11. CASE Confirm(i)
    BY <1>11, LivenessValues, InstallationAssumption DEF Confirm, Lost
  <1>12. CASE Unlink(i)
    BY <1>12, InstallationAssumption DEF Unlink, Lost
  <1>13. CASE Spawn(i)
    BY <1>13, InstallationAssumption DEF Spawn
  <1>14. CASE WritePid(i)
    BY <1>14, InstallationAssumption DEF WritePid, Lost
  <1>15. CASE Ready(i)
    BY <1>15, InstallationAssumption DEF Ready
  <1>16. CASE TimeOut(i)
    BY <1>16, InstallationAssumption DEF TimeOut, Lost
  <1>17. CASE Stop(i)
    BY <1>17, InstallationAssumption DEF Stop
  <1>18. CASE Stopped(i)
    BY <1>18, InstallationAssumption DEF Stopped
  <1>19. CASE Restart(i)
    BY <1>19, InstallationAssumption DEF Restart
  <1>20. CASE Smoke(i)
    BY <1>20, InstallationAssumption DEF Smoke, NoJob
  <1>21. CASE Undo(i)
    BY <1>21, InstallationAssumption DEF Undo
  <1>22. CASE Restore(i)
    BY <1>22, InstallationAssumption DEF Restore, RollBack, NoJob
  <1>23. CASE Wipe(i)
    BY <1>23, InstallationAssumption DEF Wipe
  <1>24. CASE Uninstall(i)
    BY <1>24, InstallationAssumption DEF Uninstall
  <1>25. CASE Sweep(i)
    BY <1>25, InstallationAssumption DEF Sweep
  <1>26. CASE Again(i)
    BY <1>26, InstallationAssumption DEF Again, NoJob
  <1> QED
    BY <1>1, <1>2, <1>3, <1>4, <1>5, <1>6, <1>7, <1>8, <1>9, <1>10, <1>11,
       <1>12, <1>13, <1>14, <1>15, <1>16, <1>17, <1>18, <1>19, <1>20, <1>21, <1>22,
       <1>23, <1>24, <1>25, <1>26
    DEF Installer, Create, Grant, Attach, Finish

LEMMA InstallerWiping ==
    ASSUME NEW i \in Installers, InstallTypes, RollbacksFit, Wiping,
           Installer(i) \/ Again(i)
    PROVE  Wiping'
  <1> USE DEF InstallTypes, RollbacksFit, Wiping, Jobs, Goes, Note, Installers
  <1>1. CASE Look(i)
    BY <1>1, InstallationAssumption DEF Look, Lost
  <1>2. CASE ReadToken(i)
    BY <1>2, InstallationAssumption DEF ReadToken
  <1>3. CASE MakeDb(i)
    BY <1>3, InstallationAssumption DEF MakeDb, Lost
  <1>4. CASE MakeConfig(i)
    BY <1>4, InstallationAssumption DEF MakeConfig, Lost
  <1>5. CASE MakeCredential(i)
    BY <1>5, InstallationAssumption DEF MakeCredential, Lost
  <1>6. CASE ReadGrants(i)
    BY <1>6, InstallationAssumption DEF ReadGrants
  <1>7. CASE ReplaceConfig(i)
    BY <1>7, InstallationAssumption DEF ReplaceConfig
  <1>8. CASE WriteCredential(i)
    BY <1>8, InstallationAssumption DEF WriteCredential
  <1>9. CASE ProbeSocket(i)
    BY <1>9, InstallationAssumption DEF ProbeSocket, Lost
  <1>10. CASE Inspect(i)
    BY <1>10, InstallationAssumption DEF Inspect
  <1>11. CASE Confirm(i)
    BY <1>11, LivenessValues, InstallationAssumption DEF Confirm, Lost
  <1>12. CASE Unlink(i)
    BY <1>12, InstallationAssumption DEF Unlink, Lost
  <1>13. CASE Spawn(i)
    BY <1>13, InstallationAssumption DEF Spawn
  <1>14. CASE WritePid(i)
    BY <1>14, InstallationAssumption DEF WritePid, Lost
  <1>15. CASE Ready(i)
    BY <1>15, InstallationAssumption DEF Ready
  <1>16. CASE TimeOut(i)
    BY <1>16, InstallationAssumption DEF TimeOut, Lost
  <1>17. CASE Stop(i)
    BY <1>17, InstallationAssumption DEF Stop
  <1>18. CASE Stopped(i)
    BY <1>18, InstallationAssumption DEF Stopped
  <1>19. CASE Restart(i)
    BY <1>19, InstallationAssumption DEF Restart
  <1>20. CASE Smoke(i)
    BY <1>20, InstallationAssumption DEF Smoke, NoJob
  <1>21. CASE Undo(i)
    BY <1>21, InstallationAssumption DEF Undo
  <1>22. CASE Restore(i)
    BY <1>22, InstallationAssumption DEF Restore, RollBack, NoJob
  <1>23. CASE Wipe(i)
    BY <1>23, InstallationAssumption DEF Wipe
  <1>24. CASE Uninstall(i)
    BY <1>24, InstallationAssumption DEF Uninstall
  <1>25. CASE Sweep(i)
    BY <1>25, InstallationAssumption DEF Sweep
  <1>26. CASE Again(i)
    BY <1>26, InstallationAssumption DEF Again, NoJob
  <1> QED
    BY <1>1, <1>2, <1>3, <1>4, <1>5, <1>6, <1>7, <1>8, <1>9, <1>10, <1>11,
       <1>12, <1>13, <1>14, <1>15, <1>16, <1>17, <1>18, <1>19, <1>20, <1>21, <1>22,
       <1>23, <1>24, <1>25, <1>26
    DEF Installer, Create, Grant, Attach, Finish

LEMMA InstallerLaunchers ==
    ASSUME NEW i \in Installers, InstallTypes, RollbacksFit, LaunchersFit,
           Installer(i) \/ Again(i)
    PROVE  LaunchersFit'
  <1> USE DEF InstallTypes, RollbacksFit, LaunchersFit, Jobs, Goes, Note, Installers
  <1>1. CASE Look(i)
    BY <1>1, InstallationAssumption DEF Look, Lost
  <1>2. CASE ReadToken(i)
    BY <1>2, InstallationAssumption DEF ReadToken
  <1>3. CASE MakeDb(i)
    BY <1>3, InstallationAssumption DEF MakeDb, Lost
  <1>4. CASE MakeConfig(i)
    BY <1>4, InstallationAssumption DEF MakeConfig, Lost
  <1>5. CASE MakeCredential(i)
    BY <1>5, InstallationAssumption DEF MakeCredential, Lost
  <1>6. CASE ReadGrants(i)
    BY <1>6, InstallationAssumption DEF ReadGrants
  <1>7. CASE ReplaceConfig(i)
    BY <1>7, InstallationAssumption DEF ReplaceConfig
  <1>8. CASE WriteCredential(i)
    BY <1>8, InstallationAssumption DEF WriteCredential
  <1>9. CASE ProbeSocket(i)
    BY <1>9, InstallationAssumption DEF ProbeSocket, Lost
  <1>10. CASE Inspect(i)
    BY <1>10, InstallationAssumption DEF Inspect
  <1>11. CASE Confirm(i)
    BY <1>11, LivenessValues, InstallationAssumption DEF Confirm, Lost
  <1>12. CASE Unlink(i)
    BY <1>12, InstallationAssumption DEF Unlink, Lost
  <1>13. CASE Spawn(i)
    BY <1>13, InstallationAssumption DEF Spawn
  <1>14. CASE WritePid(i)
    BY <1>14, InstallationAssumption DEF WritePid, Lost
  <1>15. CASE Ready(i)
    BY <1>15, InstallationAssumption DEF Ready
  <1>16. CASE TimeOut(i)
    BY <1>16, InstallationAssumption DEF TimeOut, Lost
  <1>17. CASE Stop(i)
    BY <1>17, InstallationAssumption DEF Stop
  <1>18. CASE Stopped(i)
    BY <1>18, InstallationAssumption DEF Stopped
  <1>19. CASE Restart(i)
    BY <1>19, InstallationAssumption DEF Restart
  <1>20. CASE Smoke(i)
    BY <1>20, InstallationAssumption DEF Smoke, NoJob
  <1>21. CASE Undo(i)
    BY <1>21, InstallationAssumption DEF Undo
  <1>22. CASE Restore(i)
    BY <1>22, InstallationAssumption DEF Restore, RollBack, NoJob
  <1>23. CASE Wipe(i)
    BY <1>23, InstallationAssumption DEF Wipe
  <1>24. CASE Uninstall(i)
    BY <1>24, InstallationAssumption DEF Uninstall
  <1>25. CASE Sweep(i)
    BY <1>25, InstallationAssumption DEF Sweep
  <1>26. CASE Again(i)
    BY <1>26, InstallationAssumption DEF Again, NoJob
  <1> QED
    BY <1>1, <1>2, <1>3, <1>4, <1>5, <1>6, <1>7, <1>8, <1>9, <1>10, <1>11,
       <1>12, <1>13, <1>14, <1>15, <1>16, <1>17, <1>18, <1>19, <1>20, <1>21, <1>22,
       <1>23, <1>24, <1>25, <1>26
    DEF Installer, Create, Grant, Attach, Finish

-----------------------------------------------------------------------------
(* Locks are only given back, or taken on the sidecar when it is free.     *)
Unlocked == {"dead", "load", "own"}

(* A daemon goes on with the lock and the store it has, or loses both. *)
Held(p) ==
    /\ server'[p].lock = server[p].lock /\ server'[p].db = server[p].db
    /\ server'[p].at \in Unlocked <=> server[p].at \in Unlocked

LetGo(p) == server'[p].lock = None /\ server'[p].db = None /\ server'[p].at \in Unlocked

LEMMA LocksFreed ==
    ASSUME LocksFit, Wiping => Wiping', sidecar' = sidecar \/ Wiping',
           \A p \in Servers : Held(p) \/ LetGo(p)
    PROVE  LocksFit'
  BY DEF LocksFit, Held, LetGo, Unlocked

LEMMA DeadLetsGo ==
    /\ \A p \in Servers : server'[p] = Dead => LetGo(p)
    /\ \A p \in Servers : server'[p] = Fresh => LetGo(p)
    /\ \A p \in Servers : server'[p] = server[p] => Held(p)
  BY ValuesTyped DEF LetGo, Held, Dead, Unlocked

LEMMA InstallerLocks ==
    ASSUME NEW i \in Installers, InstallTypes, RollbacksFit, LocksFit,
           Installer(i) \/ Again(i)
    PROVE  LocksFit'
  <1>1. Wiping => Wiping'
    BY InstallerWiping
  <1>2. CASE Spawn(i)
    <2>1. PICK p \in Servers : server' = [server EXCEPT ![p] = Fresh]
      BY <1>2 DEF Spawn
    <2>2. server'[p] = Fresh /\ \A q \in Servers \ {p} : server'[q] = server[q]
      BY <2>1, ServerSet, ValuesTyped DEF InstallTypes
    <2>3. sidecar' = sidecar
      BY <1>2 DEF Spawn, files
    <2> QED
      BY <1>1, <2>2, <2>3, DeadLetsGo, LocksFreed
  <1>3. CASE Stop(i)
    <2>1. CASE UNCHANGED server
      BY <1>1, <1>3, <2>1, DeadLetsGo, LocksFreed DEF Stop, files
    <2>2. CASE ~UNCHANGED server
      <3>1. /\ pidfile \in Servers
            /\ server' = [server EXCEPT ![pidfile] = Terminated(pidfile)]
        BY <1>3, <2>2 DEF Stop, InstallTypes
      <3>2. /\ \/ server'[pidfile] = Dead
               \/ /\ server'[pidfile].at = server[pidfile].at
                  /\ server'[pidfile].lock = server[pidfile].lock
                  /\ server'[pidfile].db = server[pidfile].db
            /\ \A q \in Servers \ {pidfile} : server'[q] = server[q]
        BY <3>1, Asked DEF InstallTypes
      <3>3. Held(pidfile) \/ LetGo(pidfile)
        BY <3>1, <3>2, DeadLetsGo DEF Held
      <3>4. sidecar' = sidecar
        BY <1>3 DEF Stop, files
      <3> QED
        BY <1>1, <3>2, <3>3, <3>4, DeadLetsGo, LocksFreed
    <2> QED
      BY <2>1, <2>2
  <1>4. CASE Stopped(i)
    <2>1. sidecar' = sidecar
      BY <1>4 DEF Stopped, files
    <2>2. CASE UNCHANGED server
      BY <1>1, <2>1, <2>2, DeadLetsGo, LocksFreed
    <2>3. CASE ~UNCHANGED server
      <3> DEFINE p == job[i].pid
      <3>1. p \in Servers /\ server' = [server EXCEPT ![p] = Dead]
        BY <1>4, <2>3 DEF Stopped, InstallTypes, Jobs
      <3> HIDE DEF p
      <3>2. server'[p] = Dead /\ \A q \in Servers \ {p} : server'[q] = server[q]
        BY <3>1, ServerSet, ValuesTyped DEF InstallTypes
      <3> QED
        BY <1>1, <2>1, <3>1, <3>2, DeadLetsGo, LocksFreed
    <2> QED
      BY <2>2, <2>3
  <1>5. CASE Wipe(i)
    <2>1. UNCHANGED server
      BY <1>5 DEF Wipe
    <2>2. CASE at[i] = "wiping"
      BY <1>1, <2>1, <2>2, DeadLetsGo, LocksFreed DEF Wiping
    <2>3. CASE at[i] # "wiping"
      BY <1>1, <1>5, <2>1, <2>3, DeadLetsGo, LocksFreed DEF Wipe, Remove, Removals
    <2> QED
      BY <2>2, <2>3
  <1>6. CASE ~(Spawn(i) \/ Stop(i) \/ Stopped(i) \/ Wipe(i))
    <2>1. CASE Create(i) \/ Grant(i)
      BY <1>1, <2>1, DeadLetsGo, LocksFreed
      DEF Create, Look, ReadToken, MakeDb, MakeConfig, MakeCredential, Grant,
           ReadGrants,
          ReplaceConfig, WriteCredential, files
    <2>2. CASE Attach(i)
      BY <1>1, <1>6, <2>2, DeadLetsGo, LocksFreed
      DEF Attach, ProbeSocket, Inspect, Confirm, Unlink, WritePid, Ready,
           TimeOut, Restart,
          files
    <2>3. CASE Finish(i) \/ Again(i)
      BY <1>1, <1>6, <2>3, DeadLetsGo, LocksFreed
      DEF Finish, Smoke, Undo, Restore, RollBack, Uninstall, Sweep, Again, files
    <2> QED
      BY <2>1, <2>2, <2>3 DEF Installer
  <1> QED
    BY <1>2, <1>3, <1>4, <1>5, <1>6

LEMMA DaemonLocks ==
    ASSUME NEW p \in Servers, InstallTypes, LocksFit, DaemonStep(p) \/ KillDaemon(p)
    PROVE  LocksFit'
  <1>1. Wiping <=> Wiping'
    BY
    DEF DaemonStep, LoadConfig, Own, Open, Bind, Listen, ServeSocket,
        CloseListener,
           UnlinkOwned, ReleaseStore, KillDaemon, Wiping
  <1>2. CASE Die(p) /\ sidecar' = sidecar
    <2>1. server'[p] = Dead /\ \A q \in Servers \ {p} : server'[q] = server[q]
      BY <1>2, ServerSet, ValuesTyped DEF InstallTypes, Die
    <2> QED
      BY <1>1, <1>2, <2>1, DeadLetsGo, LocksFreed
  <1>3. ASSUME NEW s \in DaemonStages \ Unlocked, server[p].at \notin Unlocked,
               Stage(p, s), sidecar' = sidecar
        PROVE  LocksFit'
    <2>1. /\ server'[p].at = s /\ server'[p].lock = server[p].lock
          /\ server'[p].db = server[p].db
          /\ \A q \in Servers \ {p} : server'[q] = server[q]
      BY <1>3, Staged DEF InstallTypes, Stage
    <2>2. Held(p)
      BY <1>3, <2>1 DEF Held
    <2> QED
      BY <1>1, <1>3, <2>1, <2>2, DeadLetsGo, LocksFreed
  <1>4. CASE LoadConfig(p)
    <2>1. sidecar' = sidecar
      BY <1>4 DEF LoadConfig, files
    <2>2. CASE ~Die(p)
      <3>1. config.grants \in SUBSET Grantees
        BY DEF InstallTypes, Configs
      <3>2. server[p].at = "load"
            /\ server' = [server EXCEPT ![p].at = "own", ![p].grants = config.grants]
        BY <1>4, <2>2 DEF LoadConfig
      <3>3. /\ server'[p].at = "own" /\ server'[p].lock = server[p].lock
            /\ server'[p].db = server[p].db
            /\ \A q \in Servers \ {p} : server'[q] = server[q]
        BY <3>1, <3>2, Loaded DEF InstallTypes
      <3>4. Held(p)
        BY <3>2, <3>3 DEF Held, Unlocked
      <3> QED
        BY <1>1, <2>1, <3>3, <3>4, DeadLetsGo, LocksFreed
    <2> QED
      BY <1>2, <2>1, <2>2
  <1>5. CASE Own(p)
    <2>1. sidecar' \in Inodes /\ sidecar' # None
      BY <1>5, FreshExists, InstallationAssumption
      DEF InstallTypes, Own, Inodes, None
    <2>2. sidecar' = sidecar \/ (sidecar = None /\ sidecar' \notin Referred)
      <3>1. sidecar' = IF sidecar = None THEN FreshInode ELSE sidecar
        BY <1>5 DEF Own
      <3> QED
        BY <3>1, FreshExists
    <2>3. \A q \in Servers : server[q].lock # None => server[q].lock = sidecar' \/ Wiping'
      BY <1>1, <2>2 DEF LocksFit
    <2>4. CASE Die(p)
      <3>1. server'[p] = Dead /\ \A q \in Servers \ {p} : server'[q] = server[q]
        BY <2>4, ServerSet, ValuesTyped DEF InstallTypes, Die
      <3>2. \A q \in Servers : Held(q) \/ LetGo(q)
        BY <3>1, DeadLetsGo
      <3> QED
        BY <1>1, <2>3, <3>2 DEF LocksFit, Held, LetGo, Unlocked
    <2>5. CASE ~Die(p)
      <3>1. /\ \A q \in Servers : server[q].lock # sidecar'
            /\ server[p].at = "own"
            /\ server' = [server EXCEPT ![p].at = "open", ![p].lock = sidecar']
        BY <1>5, <2>5 DEF Own, Free
      <3>2. /\ server'[p].at = "open" /\ server'[p].lock = sidecar'
            /\ server'[p].db = server[p].db
            /\ \A q \in Servers \ {p} : server'[q] = server[q]
        BY <2>1, <3>1, Locked DEF InstallTypes
      <3>3. server'[p].db = None
        BY <3>1, <3>2 DEF LocksFit
      <3>4. /\ \A q \in Servers :
                 /\ server'[q].lock = None <=> server'[q].at \in {"dead", "load", "own"}
                 /\ server'[q].db # None => server'[q].lock # None
                 /\ server'[q].lock # None => server'[q].lock = sidecar' \/ Wiping'
        BY <2>1, <2>3, <3>1, <3>2, <3>3, ZenonT(60) DEF LocksFit
      <3>5. \A q, r \in Servers :
               server'[q].lock # None /\ server'[q].lock = server'[r].lock => q = r
        <4> SUFFICES ASSUME NEW q \in Servers, NEW r \in Servers,
                            server'[q].lock # None, server'[q].lock = server'[r].lock
                     PROVE  q = r
          OBVIOUS
        <4>1. CASE q # p /\ r # p
          BY <3>2, <4>1 DEF LocksFit
        <4>2. CASE q = p /\ r # p
          BY <3>1, <3>2, <4>2
        <4>3. CASE q # p /\ r = p
          BY <3>1, <3>2, <4>3
        <4> QED
          BY <4>1, <4>2, <4>3
      <3> QED
        BY <3>4, <3>5 DEF LocksFit
    <2> QED
      BY <2>4, <2>5
  <1>6. CASE Open(p)
    <2>1. sidecar' = sidecar
      BY <1>6 DEF Open, files
    <2>2. CASE ~Die(p)
      <3>1. /\ server[p].at = "open" /\ db \in Inodes
            /\ server' = [server EXCEPT ![p].at = "bind", ![p].db = db]
        BY <1>6, <2>2 DEF Open, InstallTypes
      <3>2. /\ server'[p].at = "bind" /\ server'[p].lock = server[p].lock
            /\ \A q \in Servers \ {p} : server'[q] = server[q]
        BY <3>1, Opened DEF InstallTypes
      <3>3. \A q \in Servers : server'[q].lock = server[q].lock
        BY <3>2
      <3>4. \A q \in Servers :
               /\ server'[q].lock = None <=> server'[q].at \in {"dead", "load", "own"}
               /\ server'[q].db # None => server'[q].lock # None
        BY <3>1, <3>2 DEF LocksFit
      <3> QED
        BY <1>1, <2>1, <3>3, <3>4 DEF LocksFit
    <2> QED
      BY <1>2, <2>1, <2>2
  <1>7. CASE Bind(p)
    BY <1>2, <1>3, <1>7 DEF Bind, DaemonStages, Unlocked
  <1>8. CASE Listen(p)
    BY <1>3, <1>8 DEF Listen, files, DaemonStages, Unlocked
  <1>9. CASE ServeSocket(p)
    BY <1>2, <1>3, <1>9 DEF ServeSocket, files, DaemonStages, Unlocked
  <1>10. CASE CloseListener(p)
    <2>1. /\ server'[p].at = "closing" /\ server'[p].lock = server[p].lock
          /\ server'[p].db = server[p].db
          /\ \A q \in Servers \ {p} : server'[q] = server[q]
      BY <1>10 DEF CloseListener, InstallTypes, Processes
    <2>2. sidecar' = sidecar /\ server[p].at = "serving"
      BY <1>10 DEF CloseListener, files
    <2>3. Held(p)
      BY <2>1, <2>2 DEF Held, Unlocked
    <2> QED
      BY <1>1, <2>1, <2>2, <2>3, DeadLetsGo, LocksFreed
  <1>11. CASE UnlinkOwned(p)
    BY <1>3, <1>11 DEF UnlinkOwned, DaemonStages, Unlocked
  <1>12. CASE ReleaseStore(p) \/ KillDaemon(p)
    BY <1>2, <1>12 DEF ReleaseStore, KillDaemon, files
  <1> QED
    BY <1>4, <1>5, <1>6, <1>7, <1>8, <1>9, <1>10, <1>11, <1>12 DEF DaemonStep

-----------------------------------------------------------------------------
(* A setup that is alone with launchers.                              *)
LEMMA NeverAbsent ==
    ASSUME NEW k \in Installers, InstallTypes, Installer(k) \/ Again(k)
    PROVE  /\ at[k] # "absent" /\ at'[k] # "absent"
           /\ \A j \in Installers \ {k} : at'[j] = at[j] /\ job'[j] = job[j]
  <1> USE DEF InstallTypes, Goes, Note
  <1>1. CASE Look(k)
    BY <1>1 DEF Look, Lost
  <1>2. CASE ReadToken(k)
    BY <1>2 DEF ReadToken
  <1>3. CASE MakeDb(k)
    BY <1>3 DEF MakeDb, Lost
  <1>4. CASE MakeConfig(k)
    BY <1>4 DEF MakeConfig, Lost
  <1>5. CASE MakeCredential(k)
    BY <1>5 DEF MakeCredential, Lost
  <1>6. CASE ReadGrants(k)
    BY <1>6 DEF ReadGrants
  <1>7. CASE ReplaceConfig(k)
    BY <1>7 DEF ReplaceConfig
  <1>8. CASE WriteCredential(k)
    BY <1>8 DEF WriteCredential
  <1>9. CASE ProbeSocket(k)
    BY <1>9 DEF ProbeSocket, Lost
  <1>10. CASE Inspect(k)
    BY <1>10 DEF Inspect
  <1>11. CASE Confirm(k)
    BY <1>11, LivenessValues DEF Confirm, Lost
  <1>12. CASE Unlink(k)
    BY <1>12 DEF Unlink, Lost
  <1>13. CASE Spawn(k)
    BY <1>13 DEF Spawn
  <1>14. CASE WritePid(k)
    BY <1>14 DEF WritePid, Lost
  <1>15. CASE Ready(k)
    BY <1>15 DEF Ready
  <1>16. CASE TimeOut(k)
    BY <1>16 DEF TimeOut, Lost
  <1>17. CASE Stop(k)
    BY <1>17 DEF Stop
  <1>18. CASE Stopped(k)
    BY <1>18 DEF Stopped, Jobs
  <1>19. CASE Restart(k)
    BY <1>19 DEF Restart
  <1>20. CASE Smoke(k)
    BY <1>20 DEF Smoke
  <1>21. CASE Undo(k)
    BY <1>21 DEF Undo
  <1>22. CASE Restore(k)
    BY <1>22 DEF Restore, RollBack
  <1>23. CASE Wipe(k)
    BY <1>23 DEF Wipe
  <1>24. CASE Uninstall(k)
    BY <1>24 DEF Uninstall
  <1>25. CASE Sweep(k)
    BY <1>25 DEF Sweep
  <1>26. CASE Again(k)
    BY <1>26 DEF Again
  <1> QED
    BY <1>1, <1>2, <1>3, <1>4, <1>5, <1>6, <1>7, <1>8, <1>9, <1>10, <1>11,
       <1>12, <1>13, <1>14, <1>15, <1>16, <1>17, <1>18, <1>19, <1>20, <1>21, <1>22,
       <1>23, <1>24, <1>25, <1>26
    DEF Installer, Create, Grant, Attach, Finish

(* A launcher grants its own client only, on a configuration of its own.   *)
LEMMA LauncherWrites ==
    ASSUME NEW k \in Launchers, NEW i \in Setups, InstallTypes, LaunchersFit,
           Installer(k) \/ Again(k)
    PROVE  /\ i \in creds' <=> i \in creds
           /\ \/ config' = config
              \/ config.by = None /\ config' = [grants |-> {Owner}, by |-> k]
              \/ config.by = k /\ config' = NoConfig
              \/ config.by = k /\ config'.grants = config.grants /\ config'.by = Owner
  <1>1. k \in Installers /\ k \notin Setups /\ Owner # i /\ Client(k) = Owner
    BY InstallationAssumption DEF Installers, Client
  <1>2. /\ at[k] \notin {"replace", "credential", "restore", "wipe", "wiping"}
    BY DEF LaunchersFit
  <1>3. CASE MakeConfig(k)
    BY <1>1, <1>3 DEF MakeConfig, Configured
  <1>4. CASE MakeCredential(k)
    BY <1>1, <1>4 DEF MakeCredential, InstallTypes, Configs
  <1>5. CASE ~MakeConfig(k) /\ ~MakeCredential(k) /\ (Create(k) \/ Grant(k))
    BY <1>2, <1>5
    DEF Create, Look, ReadToken, MakeDb, Grant, ReadGrants, ReplaceConfig,
        WriteCredential, files
  <1>6. CASE Attach(k)
    BY <1>6
    DEF Attach, ProbeSocket, Inspect, Confirm, Unlink, Spawn, WritePid, Ready,
        TimeOut, Stop, Stopped, Restart, files
  <1>7. CASE Finish(k) \/ Again(k)
    BY <1>2, <1>7
    DEF Finish, Smoke, Undo, Restore, RollBack, Wipe, Uninstall, Sweep, Again, files
  <1> QED
    BY <1>3, <1>4, <1>5, <1>6, <1>7 DEF Installer

LEMMA SetupKept ==
    ASSUME NEW k \in Launchers, NEW i \in Setups, InstallTypes, LaunchersFit,
           Installer(k) \/ Again(k), SetupFits(i)
    PROVE  SetupFits(i)'
  <1>1. k \in Installers /\ i \in Installers /\ i # k /\ Owner # i /\ Owner # k
        /\ Owner # None /\ i # None
    BY InstallationAssumption DEF Installers
  <1>2. at'[i] = at[i] /\ job'[i] = job[i]
    BY <1>1, NeverAbsent
  <1>3. /\ i \in creds' <=> i \in creds
        /\ \/ config' = config
           \/ config.by = None /\ config' = [grants |-> {Owner}, by |-> k]
           \/ config.by = k /\ config' = NoConfig
           \/ config.by = k /\ config'.grants = config.grants /\ config'.by = Owner
    BY LauncherWrites
  <1>4. /\ i \notin config.grants => i \notin config'.grants
        /\ config.by \in {i, Owner} => config' = config
    BY <1>1, <1>3 DEF NoConfig
  <1>5. Granted(i) => Granted(i)'
    BY <1>4 DEF Granted
  <1>6. StepAfter(i)' = StepAfter(i) /\ (CanUndo(i)' <=> CanUndo(i))
    BY <1>2 DEF StepAfter, CanUndo
  <1> QED
    BY <1>1, <1>2, <1>3, <1>4, <1>5, <1>6 DEF SetupFits

LEMMA SetupGoesOn ==
    ASSUME NEW i \in Setups, InstallTypes, RollbacksFit, SetupFits(i),
           Installer(i) \/ Again(i)
    PROVE  SetupFits(i)'
  <1> USE DEF SetupFits, StepAfter, Starting, Running, Stopping, Undoing, Ended,
       Granted, CanUndo, Jobs, Configs, Goes, Note, files
  <1>1. /\ i \in Installers /\ i \notin Launchers /\ i \notin Uninstalls
        /\ i # Owner /\ i # None /\ Owner # None /\ Lost(i) = "undo" /\ Client(i) = i
    BY InstallationAssumption DEF Installers, Lost, Client
  <1>2. job[i] \in Jobs /\ config \in Configs /\ DOMAIN at = Installers
        /\ job \in [Installers -> Jobs]
    BY <1>1 DEF InstallTypes
  <1>3. CASE Look(i)
    BY <1>1, <1>2, <1>3 DEF Look
  <1>4. CASE MakeDb(i)
    BY <1>1, <1>2, <1>4 DEF MakeDb
  <1>5. CASE MakeConfig(i)
    BY <1>1, <1>2, <1>5 DEF MakeConfig
  <1>6. CASE MakeCredential(i)
    BY <1>1, <1>2, <1>6 DEF MakeCredential
  <1>7. CASE ReadGrants(i)
    BY <1>1, <1>2, <1>7 DEF ReadGrants, NoConfig, Configured
  <1>8. CASE ReplaceConfig(i)
    BY <1>1, <1>2, <1>8 DEF ReplaceConfig
  <1>9. CASE WriteCredential(i)
    BY <1>1, <1>2, <1>9 DEF WriteCredential
  <1>10. CASE ProbeSocket(i)
    BY <1>1, <1>2, <1>10 DEF ProbeSocket
  <1>11. CASE Inspect(i)
    BY <1>1, <1>2, <1>11 DEF Inspect
  <1>12. CASE Confirm(i)
    BY <1>1, <1>2, <1>12, LivenessValues DEF Confirm
  <1>13. CASE Unlink(i)
    BY <1>1, <1>2, <1>13 DEF Unlink
  <1>14. CASE Spawn(i)
    BY <1>1, <1>2, <1>14 DEF Spawn
  <1>15. CASE WritePid(i)
    BY <1>1, <1>2, <1>15 DEF WritePid
  <1>16. CASE Ready(i)
    BY <1>1, <1>2, <1>16 DEF Ready
  <1>17. CASE TimeOut(i)
    BY <1>1, <1>2, <1>17 DEF TimeOut
  <1>18. CASE Stop(i)
    BY <1>1, <1>2, <1>18 DEF Stop
  <1>19. CASE Stopped(i)
    BY <1>1, <1>2, <1>19 DEF Stopped
  <1>20. CASE Restart(i)
    BY <1>1, <1>2, <1>20 DEF Restart
  <1>21. CASE Smoke(i)
    BY <1>1, <1>2, <1>21 DEF Smoke, NoJob, NoConfig
  <1>22. CASE Undo(i)
    BY <1>1, <1>2, <1>22 DEF Undo
  <1>23. CASE Restore(i)
    BY <1>1, <1>2, <1>23 DEF Restore, RollBack, BackedUp, NoJob, NoConfig
  <1>24. CASE Wipe(i)
    BY <1>1, <1>2, <1>24 DEF Wipe, Remove, Removals, NoConfig
  <1>25. CASE ReadToken(i) \/ Uninstall(i) \/ Sweep(i) \/ Again(i)
    BY <1>1, <1>25 DEF ReadToken, Uninstall, Sweep, Again
  <1> QED
    BY <1>3, <1>4, <1>5, <1>6, <1>7, <1>8, <1>9, <1>10, <1>11, <1>12, <1>13,
       <1>14, <1>15, <1>16, <1>17, <1>18, <1>19, <1>20, <1>21, <1>22, <1>23, <1>24,
       <1>25
    DEF Installer, Create, Grant, Attach, Finish

LEMMA InstallerSetups ==
    ASSUME NEW k \in Installers, InstallTypes, RollbacksFit, LaunchersFit, SetupsFit,
           Installer(k) \/ Again(k)
    PROVE  SetupsFit'
  <1> SUFFICES ASSUME NEW i \in Setups, Alone(i)'
               PROVE  SetupFits(i)'
    BY DEF SetupsFit
  <1>1. /\ at[k] # "absent" /\ at'[k] # "absent"
        /\ \A j \in Installers \ {k} : at'[j] = at[j] /\ job'[j] = job[j]
    BY NeverAbsent
  <1>2. Alone(i) /\ (k = i \/ k \in Launchers)
    BY <1>1 DEF Alone, Installers
  <1>3. SetupFits(i)
    BY <1>2 DEF SetupsFit
  <1>4. CASE k = i
    BY <1>3, <1>4, SetupGoesOn
  <1>5. CASE k \in Launchers
    BY <1>3, <1>5, SetupKept
  <1> QED
    BY <1>2, <1>4, <1>5

-----------------------------------------------------------------------------
(* A killed installer is no longer alone with anything, and what it leaves *)
(* is what it had written.                                                 *)
LEMMA InstallerKilled ==
    ASSUME NEW k \in Installers, InstallInv, KillInstaller(k)
    PROVE  InstallInv'
  <1> DEFINE gone == IF at[k] = "wiping" THEN "torn" ELSE "killed"
  <1> USE DEF InstallInv
  <1>1. /\ at'[k] = gone /\ DOMAIN at' = Installers
        /\ \A j \in Installers \ {k} : at'[j] = at[j]
    BY GoesStep DEF KillInstaller
  <1>2. /\ job' \in [Installers -> Jobs] /\ job'[k] = NoJob
        /\ \A j \in Installers \ {k} : job'[j] = job[j]
    BY ValuesTyped DEF KillInstaller, InstallTypes
  <1>3. /\ config' = config \/ (at[k] = "wipe" /\ config' = NoConfig)
        /\ sidecar' = sidecar \/ (at[k] = "wiping" /\ sidecar' = None)
        /\ UNCHANGED <<db, creds, sock, pidfile, server>>
        /\ at[k] # "absent"
    <2>1. config' \in IF at[k] = "wipe" THEN {config, NoConfig} ELSE {config}
      BY DEF KillInstaller
    <2>2. sidecar' \in IF at[k] = "wiping" THEN {sidecar, None} ELSE {sidecar}
      BY DEF KillInstaller
    <2>3. UNCHANGED <<db, creds, sock, pidfile, server>> /\ at[k] # "absent"
      BY DEF KillInstaller
    <2>4. config' = config \/ (at[k] = "wipe" /\ config' = NoConfig)
      BY <2>1
    <2>5. sidecar' = sidecar \/ (at[k] = "wiping" /\ sidecar' = None)
      BY <2>2
    <2> QED
      BY <2>3, <2>4, <2>5
  <1>4. InstallTypes'
    BY <1>1, <1>2, <1>3, ValuesTyped DEF InstallTypes
  <1>5. Wiping => Wiping'
    <2> SUFFICES ASSUME Wiping PROVE Wiping'
      OBVIOUS
    <2>1. PICK i \in Installers :
            \/ at[i] \in {"wiping", "torn"}
            \/ at[i] = "failed" /\ job[i].created
            \/ at[i] = "done" /\ i \in Uninstalls
      BY DEF Wiping
    <2>2. CASE i = k
      BY <1>1, <2>1, <2>2 DEF Wiping, KillInstaller
    <2>3. CASE i # k
      BY <1>1, <1>2, <2>1, <2>3 DEF Wiping
    <2> QED
      BY <2>2, <2>3
  <1>6. LocksFit'
    <2>1. sidecar' = sidecar \/ Wiping'
      BY <1>1, <1>3 DEF Wiping
    <2> QED
      BY <1>3, <1>5, <2>1, DeadLetsGo, LocksFreed
  <1>7. RollbacksFit'
    BY <1>1, <1>2 DEF RollbacksFit, NoJob
  <1>8. LaunchersFit'
    <2>1. k \in Launchers => gone = "killed"
      BY DEF LaunchersFit
    <2> QED
      BY <1>1, <1>2, <2>1 DEF LaunchersFit, NoJob, Installers
  <1>9. SetupsFit'
    <2> SUFFICES ASSUME NEW i \in Setups, Alone(i)' PROVE SetupFits(i)'
      BY DEF SetupsFit
    <2>1. i \in Installers
      BY DEF Installers
    <2>2. Alone(i) /\ (k = i \/ k \in Launchers)
      BY <1>1, <1>3 DEF Alone, Installers
    <2>3. CASE k = i
      <3>1. StepAfter(i)' \in {"killed", "torn"} /\ at'[i] \notin Stopping
        BY <1>1, <2>3 DEF StepAfter, Stopping
      <3>2. job'[i].before = NoConfig
        BY <1>2, <2>3 DEF NoJob
      <3> QED
        BY <3>1, <3>2 DEF SetupFits, Starting, Running, Undoing, Ended, NoConfig
    <2>4. CASE k # i /\ k \in Launchers
      <3>1. config' = config /\ creds' = creds
        BY <1>3, <2>4 DEF LaunchersFit
      <3>2. at'[i] = at[i] /\ job'[i] = job[i]
        BY <1>1, <1>2, <2>1, <2>4
      <3>3. SetupFits(i)
        BY <2>2 DEF SetupsFit
      <3> QED
        BY <3>1, <3>2, <3>3 DEF SetupFits, StepAfter, Granted, CanUndo
    <2> QED
      BY <2>2, <2>3, <2>4
  <1> QED
    BY <1>4, <1>6, <1>7, <1>8, <1>9

-----------------------------------------------------------------------------
(* The invariant holds at first and is kept by every step.                 *)
LEMMA InstallInvInit == InstallInit => InstallInv
  <1> SUFFICES ASSUME InstallInit PROVE InstallInv
    OBVIOUS
  <1>1. 1 \in Servers /\ 1 \in Inodes
    BY InstallationAssumption, FS_CardinalityType DEF Servers, Inodes
  <1>2. \A i \in Installers : i \notin Setups \/ i # Owner
    BY InstallationAssumption
  <1>3. DOMAIN at = Installers /\ \A i \in Installers : at[i] \in {"start", "absent"}
    BY DEF InstallInit
  <1>4. config \in Configs /\ config.grants \subseteq {Owner} /\ creds \subseteq {Owner}
    BY DEF InstallInit, NoConfig, Configs, Grantees
  <1>5. InstallTypes
    BY <1>1, <1>3, <1>4, ValuesTyped DEF InstallTypes, InstallInit
  <1>6. LocksFit
    BY ValuesTyped DEF LocksFit, InstallInit, Dead
  <1>7. job = [i \in Installers |-> NoJob]
    BY DEF InstallInit
  <1>8. RollbacksFit
    BY <1>3, <1>7 DEF RollbacksFit, NoJob
  <1>9. LaunchersFit
    BY <1>3, <1>7 DEF LaunchersFit, NoJob, Installers
  <1>10. SetupsFit
    <2> SUFFICES ASSUME NEW i \in Setups PROVE SetupFits(i)
      BY DEF SetupsFit
    <2>1. i \in Installers /\ i # Owner
      BY <1>2 DEF Installers
    <2>2. StepAfter(i) \in {"start", "absent"} /\ at[i] \notin Stopping
      BY <1>3, <2>1 DEF StepAfter, Stopping
    <2>3. job[i].before = NoConfig /\ ~job[i].wrote /\ ~job[i].created
      BY <1>7, <2>1 DEF NoJob
    <2> QED
      BY <1>4, <2>1, <2>2, <2>3
      DEF SetupFits, Starting, Running, Undoing, Ended, NoConfig
  <1> QED
    BY <1>5, <1>6, <1>8, <1>9, <1>10 DEF InstallInv

LEMMA InstallInvNext == InstallInv /\ [InstallNext]_installVars => InstallInv'
  <1> SUFFICES ASSUME InstallInv, [InstallNext]_installVars PROVE InstallInv'
    OBVIOUS
  <1> USE DEF InstallInv
  <1>1. ASSUME NEW i \in Installers, Installer(i) \/ Again(i)
        PROVE  InstallInv'
    BY <1>1, InstallerTypes, InstallerLocks, InstallerRollbacks, InstallerLaunchers,
       InstallerSetups
  <1>2. ASSUME NEW p \in Servers, DaemonStep(p) \/ KillDaemon(p)
        PROVE  InstallInv'
    <2>1. InstallTypes' /\ LocksFit'
      BY <1>2, DaemonTypes, DaemonLocks
    <2>2. UNCHANGED <<config, creds, at, job>>
      BY <1>2 DEF DaemonStep, LoadConfig, Own, Open, Bind, Listen, ServeSocket,
          CloseListener, UnlinkOwned, ReleaseStore, KillDaemon, files
    <2>3. RollbacksFit' /\ LaunchersFit'
      BY <2>2 DEF RollbacksFit, LaunchersFit
    <2>4. SetupsFit'
      BY <2>2 DEF SetupsFit, Alone, SetupFits, StepAfter, Granted, CanUndo
    <2> QED
      BY <2>1, <2>3, <2>4
  <1>3. CASE UNCHANGED installVars
    BY <1>3
    DEF installVars, InstallTypes, LocksFit, RollbacksFit, LaunchersFit,
        SetupsFit,
        Alone, SetupFits, StepAfter, Granted, CanUndo, Wiping
  <1> QED
    BY <1>1, <1>2, <1>3, InstallerKilled DEF InstallNext

(* Installers and daemons keep the invariant, whatever their number.       *)
THEOREM InstallInvariant == InstallSpec => []InstallInv
  BY InstallInvInit, InstallInvNext, PTL DEF InstallSpec

(* Two daemons never write the same database unless its lock was removed,  *)
(* and a setup that nobody but launchers runs beside and that is not killed*)
(* ends with its client granted and given a credential, or with neither    *)
(* (run_setup, DatabaseOwnership.acquire), wherever launchers   *)
(* and daemons are killed.                                                 *)
THEOREM InstallationIsSound == InstallSpec => []InstallationSound
  <1>1. InstallInv => InstallationSound
    <2> SUFFICES ASSUME InstallInv PROVE InstallationSound
      OBVIOUS
    <2>1. OneWriter
      BY DEF InstallInv, LocksFit, OneWriter
    <2>2. SetupWhole
      <3> SUFFICES ASSUME NEW i \in Setups,
                          \A j \in Setups \cup Uninstalls : j # i => at[j] = "absent"
                   PROVE  /\ at[i] = "done" => i \in config.grants \cap creds
                          /\ at[i] = "failed" => i \notin config.grants \cup creds
        BY DEF SetupWhole
      <3>1. SetupFits(i)
        BY DEF InstallInv, SetupsFit, Alone
      <3> QED
        BY <3>1 DEF SetupFits, StepAfter, Stopping, Granted
    <2> QED
      BY <2>1, <2>2 DEF InstallationSound
  <1> QED
    BY <1>1, InstallInvariant, PTL

(* A database disappears only by an uninstall, by the process that made    *)
(* that very file, or by the rollback of a setup that created an instance  *)
(* (_remove_created, _remove_path): RollbacksFit says that no other        *)
(* installer comes to the removal by path.                                 *)
THEOREM StoreIsKept == InstallSpec => StoreKept
  <1>1. ASSUME NEW i \in Installers, InstallInv, db # None, db' # db,
               Installer(i) \/ Again(i) \/ KillInstaller(i)
        PROVE  \/ at[i] = "wipe" /\ (i \in Uninstalls \/ job[i].created)
               \/ at[i] \in {"makeconfig", "makecred", "restore"} /\ job[i].db = db
    <2>1. CASE Create(i)
      BY <1>1, <2>1 DEF Create, Look, ReadToken, MakeDb, MakeConfig, MakeCredential,
          RemoveCreated, files
    <2>2. CASE Grant(i)
      BY <1>1, <2>2 DEF Grant, ReadGrants, ReplaceConfig, WriteCredential, files
    <2>3. CASE Attach(i)
      BY <1>1, <2>3
      DEF Attach, ProbeSocket, Inspect, Confirm, Unlink, Spawn, WritePid, Ready,
          TimeOut, Stop, Stopped, Restart, files
    <2>4. CASE Wipe(i)
      BY <1>1, <2>4 DEF Wipe, Remove, Removals, InstallInv, RollbacksFit
    <2>5. CASE Smoke(i) \/ Undo(i) \/ Restore(i) \/ Uninstall(i) \/ Sweep(i) \/ Again(i)
               \/ KillInstaller(i)
      BY <1>1, <2>5
      DEF Smoke, Undo, Restore, RollBack, RemoveCreated, Uninstall, Sweep, Again,
          KillInstaller, files
    <2> QED
      BY <1>1, <2>1, <2>2, <2>3, <2>4, <2>5 DEF Installer, Finish
  <1>2. ASSUME NEW p \in Servers, DaemonStep(p) \/ KillDaemon(p)
        PROVE  db' = db
    BY <1>2 DEF DaemonStep, LoadConfig, Own, Open, Bind, Listen, ServeSocket,
        CloseListener, UnlinkOwned, ReleaseStore, KillDaemon, files
  <1>3. InstallInv /\ [InstallNext]_installVars =>
          [db # None /\ db' # db =>
             \E i \in Installers :
                \/ at[i] = "wipe" /\ (i \in Uninstalls \/ job[i].created)
                \/ at[i] \in {"makeconfig", "makecred", "restore"} /\ job[i].db = db]_installVars
    BY <1>1, <1>2 DEF InstallNext, installVars
  <1> QED
    BY <1>3, InstallInvariant, PTL DEF InstallSpec, StoreKept

=============================================================================
