---------------------------- MODULE Maintenance ----------------------------
(***************************************************************************)
(* The files of one database and the processes that open them: the daemon, *)
(* legacy providers, and operator commands (backup, restore, migrate),     *)
(* each of which may be killed between any two steps.                      *)
(*                                                                         *)
(* A file at the database path is a generation: a restore publishes a new  *)
(* one by os.replace, and a connection stays with the generation it        *)
(* opened.  The WAL sidecars lie at the path and know nothing of           *)
(* generations: whoever had the file open when it was replaced shares them *)
(* with those who open the new one.  A file is abstracted to how far its    *)
(* schema was migrated.                                                    *)
(***************************************************************************)
EXTENDS Naturals, FiniteSets

CONSTANTS
    Daemon,    \* the server process
    Legacy,    \* legacy providers
    Commands,  \* operator commands
    Nobody,    \* a lock is free
    MaxGens    \* bound on generations of the database file

Procs == {Daemon} \cup Legacy \cup Commands

ASSUME MaintenanceAssumption ==
    /\ Daemon \notin Legacy \cup Commands /\ Legacy \cap Commands = {}
    /\ Nobody \notin Procs
    /\ MaxGens \in Nat \ {0}

VARIABLES
    file,       \* generation -> stage of its schema, with what the log adds to it
    main,       \* generation at the database path
    wal,        \* sidecars at the path, and who committed frames for which generation
    astray,     \* frames that were checkpointed into a file other than their own
    backup,     \* stage of the backup file, a set with at most one member
    lock,       \* who holds <database>.enfold.lock
    writeLock,  \* who holds <database>.mcp-write.lock
    conn,       \* process -> generation it has open, 0 for none, or for one that
                \* was replaced and whose log is no longer the one at the path
    step,       \* process -> what it does
    staged      \* command -> the verified copy it is about to publish

vars == <<file, main, wal, astray, backup, lock, writeLock, conn, step, staged>>

Gens == 1..MaxGens

(* v1: before the additive patches; queue: with proposal snapshots;        *)
(* patched: bitemporal axes as well; full: slot keys canonical as well.    *)
Stages == {"v0", "v1", "queue", "patched", "full"}

NoWal == [there |-> FALSE, frames |-> {}]

DaemonSteps == {"off", "owner", "serving", "closed"}
LegacySteps == {"off", "probed", "idle", "writing"}
CommandSteps == {"off", "reading", "copied", "owner", "locked", "migrating",
                 "staged", "done", "unlocked"}

TypeOK ==
    /\ file \in [Gens -> Stages]
    /\ main \in Gens
    /\ wal \in [there : BOOLEAN, frames : SUBSET (Procs \X Gens)]
    /\ wal.frames # {} => wal.there
    /\ astray \subseteq Procs \X Gens
    /\ backup \subseteq Stages /\ Cardinality(backup) <= 1
    /\ lock \in {Daemon, Nobody} \cup Commands
    /\ writeLock \in {Nobody} \cup Legacy \cup Commands
    /\ conn \in [Procs -> Gens \cup {0}]
    /\ step \in [Procs -> DaemonSteps \cup LegacySteps \cup CommandSteps]
    /\ step[Daemon] \in DaemonSteps
    /\ \A l \in Legacy : step[l] \in LegacySteps
    /\ \A m \in Commands : step[m] \in CommandSteps
    /\ staged \in [Commands -> Stages]
    /\ \A p \in Procs : conn[p] = main \/ (p \in Legacy /\ conn[p] # 0) => wal.there

Empty == "v0"

Init ==
    /\ \E stage \in {"v0", "v1"} : file = [g \in Gens |-> stage]
    /\ main = 1
    /\ wal = NoWal /\ astray = {}
    /\ backup = {}
    /\ lock = Nobody /\ writeLock = Nobody
    /\ conn = [p \in Procs |-> 0]
    /\ step = [p \in Procs |-> "off"]
    /\ staged = [m \in Commands |-> Empty]

Go(p, s) == step' = [step EXCEPT ![p] = s]

(* The temporary file of a copy is published or unlinked (or, after a      *)
(* kill, left behind where nobody looks for it).                           *)
Discard(p) == staged' = [m \in Commands |-> IF m = p THEN Empty ELSE staged[m]]

-----------------------------------------------------------------------------
(* SQLite's write-ahead log.                                               *)

(* Frames of another generation would be replayed into the file; what the  *)
(* database is after that is left open, and nobody opens it here.          *)
Coherent == \A w \in wal.frames : w[2] = main

Connect(p) ==
    /\ Coherent
    /\ conn' = [conn EXCEPT ![p] = main]
    /\ wal' = [wal EXCEPT !.there = TRUE]
    /\ UNCHANGED astray

(* The log is written into generation g. *)
Checkpoint(g, frames) == astray' = astray \cup {w \in frames : w[2] # g}

(* The log at the path is checkpointed and removed.  A legacy provider that*)
(* still shared it goes on with what is no longer at the path.             *)
RemoveLog(p) ==
    /\ Checkpoint(main, wal.frames) /\ wal' = NoWal
    /\ conn' = [q \in Procs |-> IF q \in Legacy \cup {p} THEN 0 ELSE conn[q]]

NobodyElse(p) == \A q \in Procs \ {p} : conn[q] # main

(* The last connection to the file at the path checkpoints and removes the *)
(* sidecars.  A connection whose file was replaced leaves them, and so do  *)
(* a read-only one and a killed process.                                   *)
Disconnect(p) ==
    IF conn[p] = main /\ NobodyElse(p) THEN RemoveLog(p)
    ELSE conn' = [conn EXCEPT ![p] = 0] /\ UNCHANGED <<wal, astray>>

DisconnectReader(p) == conn' = [conn EXCEPT ![p] = 0] /\ UNCHANGED <<wal, astray>>

(* A committed transaction of p, which leaves its file at stage f.  The    *)
(* commit that makes the log long checkpoints it, whoever the frames are   *)
(* from.                                                                   *)
CommitTo(p, f) ==
    LET frames == wal.frames \cup {<<p, conn[p]>>} IN
    /\ file' = [file EXCEPT ![conn[p]] = f]
    /\ \/ wal' = [wal EXCEPT !.frames = frames] /\ UNCHANGED astray
       \/ wal' = [wal EXCEPT !.frames = {}] /\ Checkpoint(conn[p], frames)

Commit(p) == conn[p] # 0 /\ CommitTo(p, file[conn[p]])

-----------------------------------------------------------------------------
(* The daemon.                                                             *)

Acquire ==
    /\ step[Daemon] = "off" /\ lock = Nobody
    /\ lock' = Daemon /\ Go(Daemon, "owner")
    /\ UNCHANGED <<file, main, wal, astray, backup, writeLock, conn, staged>>

(* Mutated form of WriterReady: the ledger's version is enough. *)
WriterReadyByVersion(f) == f # "v0"

(* require_compatible_schema(for_writer=True); the slot patch is not asked for. *)
WriterReady(f) == f \in {"patched", "full"}

Serve ==
    /\ step[Daemon] = "owner" /\ WriterReady(file[main])
    /\ Connect(Daemon) /\ Go(Daemon, "serving")
    /\ UNCHANGED <<file, main, backup, lock, writeLock, staged>>

(* The schema is refused after the connection was opened, which is closed  *)
(* again: sidecars of a killed process are checkpointed on the way.        *)
Refuse ==
    /\ step[Daemon] = "owner" /\ ~WriterReady(file[main]) /\ Coherent
    /\ IF NobodyElse(Daemon) THEN RemoveLog(Daemon) ELSE UNCHANGED <<wal, astray, conn>>
    /\ Go(Daemon, "closed")
    /\ UNCHANGED <<file, main, backup, lock, writeLock, staged>>

Write ==
    /\ step[Daemon] = "serving" /\ Commit(Daemon)
    /\ UNCHANGED <<main, backup, lock, writeLock, conn, step, staged>>

Close ==
    /\ step[Daemon] = "serving"
    /\ Disconnect(Daemon) /\ Go(Daemon, "closed")
    /\ UNCHANGED <<file, main, backup, lock, writeLock, staged>>

Release ==
    /\ step[Daemon] = "closed"
    /\ lock' = Nobody /\ Go(Daemon, "off")
    /\ UNCHANGED <<file, main, wal, astray, backup, writeLock, conn, staged>>

-----------------------------------------------------------------------------
(* A legacy provider.                                                      *)

(* initialize looks at the version on a read-only connection of its own,   *)
(* and refuses a versioned database before it opens the store.             *)
Probe(l) ==
    /\ step[l] = "off" /\ Coherent
    /\ wal' = [wal EXCEPT !.there = TRUE]
    /\ Go(l, IF file[main] = "v0" THEN "probed" ELSE "off")
    /\ UNCHANGED <<file, main, astray, backup, lock, writeLock, conn, staged>>

(* The store is opened, and brought up to its schema, under no lock. *)
OpenStore(l) ==
    /\ step[l] = "probed"
    /\ Coherent /\ conn' = [conn EXCEPT ![l] = main]
    /\ \E new \in {{}, {<<l, main>>}} :
         wal' = [there |-> TRUE, frames |-> wal.frames \cup new]
    /\ Go(l, "idle")
    /\ UNCHANGED <<file, main, astray, backup, lock, writeLock, staged>>

(* cross_process_write_lock around an add or a replacement, which may be   *)
(* several transactions.                                                   *)
BeginWrite(l) ==
    /\ step[l] = "idle" /\ writeLock = Nobody
    /\ writeLock' = l /\ Go(l, "writing")
    /\ UNCHANGED <<file, main, wal, astray, backup, lock, conn, staged>>

LegacyWrite(l) ==
    /\ step[l] = "writing" /\ Commit(l)
    /\ UNCHANGED <<main, backup, lock, writeLock, conn, step, staged>>

(* Updates and removals of fact_store, the queue's bookkeeping and the     *)
(* vector store commit without that lock, beside whatever is going on.     *)
LegacyWriteUnlocked(l) ==
    /\ step[l] = "idle" /\ Commit(l)
    /\ UNCHANGED <<main, backup, lock, writeLock, conn, step, staged>>

EndWrite(l) ==
    /\ step[l] = "writing"
    /\ writeLock' = Nobody /\ Go(l, "idle")
    /\ UNCHANGED <<file, main, wal, astray, backup, lock, conn, staged>>

CloseStore(l) ==
    /\ step[l] = "idle"
    /\ Disconnect(l) /\ Go(l, "off")
    /\ UNCHANGED <<file, main, backup, lock, writeLock, staged>>

-----------------------------------------------------------------------------
(* The backup command runs beside the daemon and takes no lock.            *)

Count(m) ==
    /\ step[m] = "off"
    /\ Connect(m) /\ Go(m, "reading")
    /\ UNCHANGED <<file, main, backup, lock, writeLock, staged>>

(* The online copy sees the file through the log at the path, and in place *)
(* of it another generation that the log has frames of.                    *)
CopyOut(m) ==
    /\ step[m] = "reading"
    /\ \E g \in {conn[m]} \cup {w[2] : w \in wal.frames} :
         staged' = [staged EXCEPT ![m] = file[g]]
    /\ Go(m, "copied")
    /\ UNCHANGED <<file, main, wal, astray, backup, lock, writeLock, conn>>

(* The verified copy replaces the backup file.  The comparison of row      *)
(* counts that follows decides the report and leaves the file.             *)
PublishBackup(m) ==
    /\ step[m] = "copied"
    /\ backup' = {staged[m]}
    /\ DisconnectReader(m) /\ Discard(m) /\ Go(m, "off")
    /\ UNCHANGED <<file, main, lock, writeLock>>

(* No overwrite of an existing backup, a failed verification, a full disk. *)
BackupFails(m) ==
    /\ step[m] \in {"reading", "copied"}
    /\ DisconnectReader(m) /\ Discard(m) /\ Go(m, "off")
    /\ UNCHANGED <<file, main, backup, lock, writeLock>>

-----------------------------------------------------------------------------
(* Commands under maintenance_database_lock: daemon sidecar, then legacy.  *)

TakeOwnership(m) ==
    /\ step[m] = "off" /\ lock = Nobody
    /\ lock' = m /\ Go(m, "owner")
    /\ UNCHANGED <<file, main, wal, astray, backup, writeLock, conn, staged>>

(* Mutated form of TakeWriteLock: a legacy writer does not stop maintenance. *)
TakeNoWriteLock(m) ==
    /\ step[m] = "owner" /\ Go(m, "locked")
    /\ UNCHANGED <<file, main, wal, astray, backup, lock, writeLock, conn, staged>>

(* After the bounded wait the command refuses and gives the first lock up. *)
TakeWriteLock(m) ==
    /\ step[m] = "owner"
    /\ IF writeLock = Nobody
       THEN writeLock' = m /\ Go(m, "locked") /\ UNCHANGED lock
       ELSE lock' = Nobody /\ Go(m, "off") /\ UNCHANGED writeLock
    /\ UNCHANGED <<file, main, wal, astray, backup, conn, staged>>

Unlock(m) ==
    /\ lock' = IF lock = m THEN Nobody ELSE lock
    /\ writeLock' = IF writeLock = m THEN Nobody ELSE writeLock

StartMigration(m) ==
    /\ step[m] = "locked"
    /\ Connect(m) /\ Go(m, "migrating")
    /\ UNCHANGED <<file, main, backup, lock, writeLock, staged>>

(* What each transaction of migrate leaves behind. *)
Migrated == [v0 |-> "full", v1 |-> "queue", queue |-> "patched",
             patched |-> "full", full |-> "full"]

Migrate(m) ==
    /\ step[m] = "migrating" /\ file[conn[m]] # "full"
    /\ CommitTo(m, Migrated[file[conn[m]]])
    /\ UNCHANGED <<main, backup, lock, writeLock, conn, step, staged>>

(* All patches applied, or one of them rolled back.  The connection is     *)
(* closed only when _migrate returns, after the locks were released.       *)
EndMigration(m) ==
    /\ step[m] = "migrating"
    /\ Unlock(m) /\ Go(m, "unlocked")
    /\ UNCHANGED <<file, main, wal, astray, backup, conn, staged>>

CloseMigrated(m) ==
    /\ step[m] = "unlocked"
    /\ Disconnect(m) /\ Go(m, "off")
    /\ UNCHANGED <<file, main, backup, lock, writeLock, staged>>

(* Mutated form of NoSidecars: a generation is replaced whatever it left. *)
NoSidecarsAssumed == TRUE

(* _assert_no_destination_sidecars *)
NoSidecars == ~wal.there

(* The sidecars are looked at once, before the backup is copied to a       *)
(* temporary file and verified.                                            *)
StageRestore(m) ==
    /\ step[m] = "locked" /\ NoSidecars
    /\ \E f \in backup : staged' = [staged EXCEPT ![m] = f]
    /\ Go(m, "staged")
    /\ UNCHANGED <<file, main, wal, astray, backup, lock, writeLock, conn>>

PublishRestore(m) ==
    /\ step[m] = "staged" /\ main < MaxGens
    /\ main' = main + 1
    /\ file' = [file EXCEPT ![main + 1] = staged[m]]
    /\ Discard(m) /\ Go(m, "done")
    /\ UNCHANGED <<wal, astray, backup, lock, writeLock, conn>>

(* The restore is complete, or refused, or its copy failed. *)
EndRestore(m) ==
    /\ step[m] \in {"locked", "staged", "done"}
    /\ Unlock(m) /\ Discard(m) /\ Go(m, "off")
    /\ UNCHANGED <<file, main, wal, astray, backup, conn>>

-----------------------------------------------------------------------------
(* A killed process loses its locks and connections; sidecars stay. *)
Kill(p) ==
    /\ step[p] # "off"
    /\ Unlock(p) /\ DisconnectReader(p) /\ Discard(p) /\ Go(p, "off")
    /\ UNCHANGED <<file, main, backup>>

DaemonNext == Acquire \/ Serve \/ Refuse \/ Write \/ Close \/ Release

LegacyNext(l) ==
    \/ Probe(l) \/ OpenStore(l) \/ BeginWrite(l) \/ LegacyWrite(l)
    \/ LegacyWriteUnlocked(l) \/ EndWrite(l) \/ CloseStore(l)

CommandNext(m) ==
    \/ Count(m) \/ CopyOut(m) \/ PublishBackup(m) \/ BackupFails(m)
    \/ TakeOwnership(m) \/ TakeWriteLock(m)
    \/ StartMigration(m) \/ Migrate(m) \/ EndMigration(m) \/ CloseMigrated(m)
    \/ StageRestore(m) \/ PublishRestore(m) \/ EndRestore(m)

Next ==
    \/ DaemonNext
    \/ \E l \in Legacy : LegacyNext(l)
    \/ \E m \in Commands : CommandNext(m)
    \/ \E p \in Procs : Kill(p)

Spec == Init /\ [][Next]_vars

-----------------------------------------------------------------------------
(* Properties.                                                             *)

(* A serving daemon has open what is at the database path, with every      *)
(* writer patch applied: no restore replaces the file under it, and        *)
(* neither a migration killed half way nor a restored old backup is served *)
(* (unless frames of another file have got into the database, see below).  *)
ServedDatabaseCurrent ==
    step[Daemon] = "serving" =>
      /\ conn[Daemon] = main
      /\ Coherent /\ astray = {} => file[main] \in {"patched", "full"}

(* From its second lock to its unlock a command is alone with the daemon   *)
(* and the other commands, and no legacy write that takes the lock is half *)
(* done.  A legacy write that takes none can commit beside it.             *)
MaintenanceAlone ==
    \A m \in Commands :
        step[m] \in {"locked", "migrating", "staged", "done"} =>
          /\ conn[Daemon] = 0
          /\ \A l \in Legacy : step[l] # "writing"
          /\ \A n \in Commands \ {m} :
               step[n] \notin {"owner", "locked", "migrating", "staged", "done"}

(* Maintenance, service and locked legacy writes exclude each other, and   *)
(* what maintenance leaves behind, also when it is killed, is served only  *)
(* if it is complete.                                                      *)
MaintenanceSafe == TypeOK /\ MaintenanceAlone /\ ServedDatabaseCurrent

(* What the daemon or a migration has committed and not yet checkpointed   *)
(* belongs to the file at the path, also when the process was killed and a *)
(* restore follows.                                                        *)
FramesOfMain == \A w \in wal.frames : w[1] \notin Legacy => w[2] = main

(* A legacy provider that opened its store between a restore's look at the *)
(* sidecars and its replacement of the file: it shares the log of the new  *)
(* file and knows the old one only.                                        *)
Stray(l) == conn[l] \notin {0, main}

(* A commit of the daemon or of a migration stays with its database file:  *)
(* neither a kill nor a restore nor a close puts it elsewhere.  Only the   *)
(* checkpoint of a stray legacy provider can, and does.                    *)
CommitsStay ==
    [][/\ FramesOfMain'
       /\ (\A l \in Legacy : ~Stray(l)) => \A w \in astray' \ astray : w[1] \in Legacy]_vars

=============================================================================
