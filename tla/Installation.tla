---------------------------- MODULE Installation ----------------------------
(***************************************************************************)
(* The per-user installation: MCP launchers, setup and uninstall share one *)
(* data directory.  Each of them may find the store missing, half made or  *)
(* complete, may create it, and starts a daemon when none answers on the   *)
(* socket; a daemon owns the store through the lock on its sidecar file.   *)
(*                                                                         *)
(* An inode number names one incarnation of the database or the sidecar    *)
(* file; the inode of the socket is named by the daemon that bound it.     *)
(* Numbers are used again once nothing refers to them.  Directories, modes *)
(* and owners of files, the snippet, the manifest and the log are left out,*)
(* and so are readers that see a file half written.                        *)
(***************************************************************************)
EXTENDS Integers, FiniteSets

CONSTANTS
    Launchers,    \* enfold-mcp processes
    Setups,       \* enfold setup processes, each with the client it grants
    Uninstalls,   \* enfold uninstall --purge-data processes
    Owner,        \* the client of an instance that a launcher creates
    MaxServers,   \* bound on daemon processes known at one time
    MaxFaults,    \* bound on daemons that die of no fault of their own, on
                  \* installers that are killed and on waits that end although
                  \* a daemon is on its way
    Casts         \* sets of installers that are active together in a run

Installers == Launchers \cup Setups \cup Uninstalls
Servers == 1..MaxServers
Inodes == 1..(2 * MaxServers + Cardinality(Installers) + 3)
None == 0
NoConfig == [grants |-> {}, by |-> None]

ASSUME InstallationAssumption ==
    /\ Launchers \cap Setups = {} /\ Launchers \cap Uninstalls = {}
    /\ Setups \cap Uninstalls = {} /\ Owner \notin Installers
    /\ None \notin Installers /\ None # Owner /\ IsFiniteSet(Installers)
    /\ MaxServers \in Nat \ {0}
    /\ MaxFaults \in Nat /\ Casts \subseteq SUBSET Installers

VARIABLES
    db,      \* inode of memory.db, None when absent
    config,  \* server.json: the clients it grants, and who is creating the
             \* instance (Owner: nobody any more)
    creds,   \* clients with a credential file
    sidecar, \* inode of the lock sidecar
    sock,    \* daemon whose socket inode is at the path
    pidfile, \* daemon named by enfold.pid
    server,  \* daemon -> stage, locked and opened inodes, loaded grants, SIGTERM
    at,      \* installer -> its next step
    job,     \* installer -> what it remembers
    faults   \* deaths, kills and early ends of waits so far

files == <<db, config, creds, sidecar, sock, pidfile>>
installVars == <<db, config, creds, sidecar, sock, pidfile, server, at, job, faults>>

Dead == [at |-> "dead", lock |-> None, db |-> None, grants |-> {}, term |-> FALSE]
Fresh == [Dead EXCEPT !.at = "load"]
NoJob == [db |-> None, seen |-> None, pid |-> None, created |-> FALSE,
          started |-> FALSE, before |-> NoConfig, wrote |-> FALSE, next |-> "start"]

Alive(p) == server[p].at # "dead"
Configured == config.by # None
Installed == Configured /\ db # None

(* Nothing installed, or an instance whose daemon died and left its socket.*)
InstallInit ==
    /\ \/ /\ db = None /\ config = NoConfig /\ creds = {} /\ sidecar = None
          /\ sock = None /\ pidfile = None
       \/ /\ db = 1 /\ config = [grants |-> {Owner}, by |-> Owner] /\ creds = {Owner}
          /\ sidecar = 1 /\ sock = 1 /\ pidfile = 1
    /\ server = [p \in Servers |-> Dead]
    /\ \E Cast \in Casts :
         at = [i \in Installers |-> IF i \in Cast THEN "start" ELSE "absent"]
    /\ job = [i \in Installers |-> NoJob]
    /\ faults = 0

Goes(i, step) == at' = [at EXCEPT ![i] = step]
Note(i, field, value) == job' = [job EXCEPT ![i][field] = value]

(* A launcher reports the failure and exits; setup rolls back first. *)
Lost(i) == IF i \in Setups THEN "undo" ELSE "failed"

Client(i) == IF i \in Setups THEN i ELSE Owner

FreshInode ==
    CHOOSE n \in Inodes :
        /\ n \notin {db, sidecar}
        /\ \A p \in Servers : n \notin {server[p].db, server[p].lock}
        /\ \A i \in Installers : n # job[i].db

-----------------------------------------------------------------------------
(* Creating or reusing the store.                                          *)

(* ensure_instance, run_setup: look at what exists. *)
Look(i) ==
    /\ at[i] = "start" /\ i \notin Uninstalls
    /\ \/ /\ Installed
          /\ Goes(i, IF i \in Setups THEN "grant" ELSE "token")
       \/ /\ Configured # (db # None)
          /\ Goes(i, Lost(i))
       \/ /\ ~Configured /\ db = None
          /\ Goes(i, IF sock = None /\ Client(i) \notin creds THEN "makedb" ELSE Lost(i))
    /\ UNCHANGED <<files, server, job, faults>>

(* A launcher that reuses an instance reads the token of the owner, or of  *)
(* the first granted client.                                               *)
ReadToken(i) ==
    /\ at[i] = "token"
    /\ \E c \in IF Owner \in config.grants \/ config.grants = {} THEN {Owner}
                ELSE config.grants :
         Goes(i, IF c \in creds THEN "probe" ELSE "failed")
    /\ UNCHANGED <<files, server, job, faults>>

(* Mutated form of MakeDb: the new file replaces the one at its path. *)
MakeDbReplacing(i) ==
    /\ at[i] = "makedb"
    /\ db' = FreshInode
    /\ Note(i, "db", FreshInode)
    /\ Goes(i, "makeconfig")
    /\ UNCHANGED <<config, creds, sidecar, sock, pidfile, server, faults>>

(* _new_database: the file must not exist. *)
MakeDb(i) ==
    /\ at[i] = "makedb"
    /\ IF db # None THEN Goes(i, Lost(i)) /\ UNCHANGED <<db, job>>
       ELSE /\ db' = FreshInode
            /\ Note(i, "db", FreshInode)
            /\ Goes(i, "makeconfig")
    /\ UNCHANGED <<config, creds, sidecar, sock, pidfile, server, faults>>

(* _remove_created: only the inode that was created is removed. *)
RemoveCreated(i) == db' = IF db = job[i].db THEN None ELSE db

(* _new_config: another process may have written one meanwhile. *)
MakeConfig(i) ==
    /\ at[i] = "makeconfig"
    /\ IF Configured
       THEN RemoveCreated(i) /\ Goes(i, Lost(i)) /\ Note(i, "db", None) /\ UNCHANGED config
       ELSE /\ config' = [grants |-> {Client(i)}, by |-> i]
            /\ Goes(i, "makecred") /\ UNCHANGED <<db, job>>
    /\ UNCHANGED <<creds, sidecar, sock, pidfile, server, faults>>

MakeCredential(i) ==
    /\ at[i] = "makecred"
    /\ IF Client(i) \in creds
       THEN /\ config' = IF config.by = i THEN NoConfig ELSE config
            /\ RemoveCreated(i) /\ Goes(i, Lost(i)) /\ Note(i, "db", None)
            /\ UNCHANGED creds
       ELSE /\ creds' = creds \cup {Client(i)}
            /\ job' = [job EXCEPT ![i].db = IF i \in Setups THEN job[i].db ELSE None,
                                   ![i].created = i \in Setups, ![i].wrote = i \in Setups]
            /\ config' = [config EXCEPT !.by = IF config.by = i THEN Owner ELSE config.by]
            /\ Goes(i, "probe") /\ UNCHANGED db
    /\ UNCHANGED <<sidecar, sock, pidfile, server, faults>>

(* run_setup on an existing instance: the configuration is read ... *)
ReadGrants(i) ==
    /\ at[i] = "grant"
    /\ IF Configured THEN Note(i, "before", config) /\ Goes(i, "replace")
       ELSE Goes(i, "undo") /\ UNCHANGED job
    /\ UNCHANGED <<files, server, faults>>

(* ... and replaced with one that grants the client: replace_config. *)
ReplaceConfig(i) ==
    /\ at[i] = "replace"
    /\ config' = [grants |-> job[i].before.grants \cup {i}, by |-> Owner]
    /\ Goes(i, "credential")
    /\ UNCHANGED <<db, creds, sidecar, sock, pidfile, server, job, faults>>

(* write_client_credential, with a new token *)
WriteCredential(i) ==
    /\ at[i] = "credential"
    /\ IF i \in creds THEN Goes(i, "undo") /\ UNCHANGED <<creds, job>>
       ELSE creds' = creds \cup {i} /\ Note(i, "wrote", TRUE) /\ Goes(i, "probe")
    /\ UNCHANGED <<db, config, sidecar, sock, pidfile, server, faults>>

-----------------------------------------------------------------------------
(* Starting or attaching to the daemon: ensure_user_daemon.                *)

(* Mutated form of Liveness: a refused connection counts as no socket. *)
LivenessRefused ==
    IF sock # None /\ server[sock].at \in {"listening", "serving"} THEN "live" ELSE "absent"

(* socket_liveness: a socket that is bound and not yet listened on, or no  *)
(* longer, refuses connections like one whose daemon has died.             *)
Liveness ==
    IF sock = None THEN "absent"
    ELSE IF server[sock].at \in {"listening", "serving"} THEN "live" ELSE "stale"

ProbeSocket(i) ==
    /\ at[i] = "probe"
    /\ LET Restarts == Configured /\ Liveness = "live" /\ i \in Setups /\ ~job[i].created IN
       /\ Goes(i, IF ~Configured THEN Lost(i)
                ELSE IF Restarts THEN "stop"
                ELSE IF Liveness = "live" THEN IF i \in Setups THEN "smoke" ELSE "served"
                ELSE IF Liveness = "stale" THEN "inspect" ELSE "spawn")
       /\ IF Restarts THEN Note(i, "next", "restart") ELSE UNCHANGED job
    /\ UNCHANGED <<files, server, faults>>

(* remove_stale_socket: lstat, probe again, compare the inode, unlink. *)
Inspect(i) ==
    /\ at[i] = "inspect"
    /\ Note(i, "seen", sock)
    /\ Goes(i, IF sock = None THEN "spawn" ELSE "confirm")
    /\ UNCHANGED <<files, server, faults>>

Confirm(i) ==
    /\ at[i] = "confirm"
    /\ Goes(i, CASE Liveness = "live" -> Lost(i)
               [] Liveness = "absent" -> "spawn"
               [] Liveness = "stale" -> IF sock = job[i].seen THEN "unlink" ELSE Lost(i))
    /\ Note(i, "seen", None)
    /\ UNCHANGED <<files, server, faults>>

Unlink(i) ==
    /\ at[i] = "unlink"
    /\ Goes(i, IF sock = None THEN Lost(i) ELSE "spawn")
    /\ sock' = None
    /\ UNCHANGED <<db, config, creds, sidecar, pidfile, server, job, faults>>

Unreferred(p) ==
    /\ ~Alive(p) /\ p \notin {sock, pidfile}
    /\ \A i \in Installers : p \notin {job[i].seen, job[i].pid}

Spawn(i) ==
    /\ at[i] = "spawn"
    /\ \E p \in Servers :
         /\ Unreferred(p) /\ \A q \in 1..(p - 1) : ~Unreferred(q)
         /\ server' = [server EXCEPT ![p] = Fresh]
         /\ Note(i, "pid", p)
    /\ Goes(i, "writepid")
    /\ UNCHANGED <<files, faults>>

(* _write_pid: an existing file is overwritten, a new one must be new. *)
WritePid(i) ==
    /\ \/ at[i] = "writepid" /\ pidfile # None /\ pidfile' = job[i].pid /\ Goes(i, "wait")
       \/ at[i] = "writepid" /\ pidfile = None /\ Goes(i, "newpid") /\ UNCHANGED pidfile
       \/ at[i] = "newpid" /\ pidfile = None /\ pidfile' = job[i].pid /\ Goes(i, "wait")
       \/ at[i] = "newpid" /\ pidfile # None /\ Goes(i, Lost(i)) /\ UNCHANGED pidfile
    /\ IF at'[i] = "newpid" THEN UNCHANGED job ELSE Note(i, "pid", None)
    /\ UNCHANGED <<db, config, creds, sidecar, sock, server, faults>>

(* wait_for_live_socket *)
Ready(i) ==
    /\ at[i] = "wait" /\ Liveness = "live"
    /\ Goes(i, IF i \in Launchers THEN "served" ELSE "smoke")
    /\ Note(i, "started", i \in Setups)
    /\ UNCHANGED <<files, server, faults>>

(* Every daemon has come up or gone: waiting longer is of no use. *)
Settled == \A p \in Servers : server[p].at \in {"dead", "serving"} /\ ~server[p].term

TimeOut(i) ==
    /\ at[i] = "wait" /\ Liveness # "live"
    /\ Settled \/ faults < MaxFaults
    /\ faults' = IF Settled THEN faults ELSE faults + 1
    /\ Goes(i, "stop")
    /\ Note(i, "next", Lost(i))
    /\ UNCHANGED <<files, server>>

(* _stop_pid: whichever daemon the file names gets SIGTERM.  Before its    *)
(* handlers are installed that kills it.                                   *)
Terminated(p) ==
    IF server[p].at \in {"load", "own", "open"} THEN Dead
    ELSE [server[p] EXCEPT !.term = TRUE]

Stop(i) ==
    /\ at[i] = "stop"
    /\ IF pidfile = None \/ ~Alive(pidfile) THEN UNCHANGED server
       ELSE server' = [server EXCEPT ![pidfile] = Terminated(pidfile)]
    /\ Note(i, "pid", pidfile)
    /\ Goes(i, "stopping")
    /\ UNCHANGED <<files, faults>>

(* _stop_pid waits for the process to go, and kills a slow one. *)
Stopped(i) ==
    /\ at[i] = "stopping"
    /\ LET p == job[i].pid IN
       \/ p = None /\ UNCHANGED <<server, faults>>
       \/ p # None /\ ~Alive(p) /\ UNCHANGED <<server, faults>>
       \/ /\ p # None /\ Alive(p) /\ faults < MaxFaults
          /\ faults' = faults + 1
          /\ server' = [server EXCEPT ![p] = Dead]
    /\ job' = [job EXCEPT ![i].pid = None, ![i].next = "start"]
    /\ Goes(i, job[i].next)
    /\ UNCHANGED files

(* A restart goes on once nothing answers on the socket. *)
Restart(i) ==
    /\ at[i] = "restart"
    /\ \/ Liveness = "stale" /\ Goes(i, "inspect")
       \/ Liveness = "absent" /\ Goes(i, "spawn")
       \/ Liveness = "live" /\ Settled /\ Goes(i, "undo")
    /\ UNCHANGED <<files, server, job, faults>>

-----------------------------------------------------------------------------
(* The end of a setup, its rollback, and uninstall.                        *)

(* run_protocol_smoke: the daemon must know the client. *)
Smoke(i) ==
    /\ at[i] = "smoke"
    /\ IF Liveness = "live" /\ i \in server[sock].grants
       THEN Goes(i, "done") /\ job' = [job EXCEPT ![i] = NoJob]
       ELSE Goes(i, "undo") /\ UNCHANGED job
    /\ UNCHANGED <<files, server, faults>>

(* rollback *)
Undo(i) ==
    /\ at[i] = "undo"
    /\ IF job[i].started THEN Goes(i, "stop") /\ Note(i, "next", "restore")
       ELSE Goes(i, "restore") /\ UNCHANGED job
    /\ UNCHANGED <<files, server, faults>>

(* Backups are written back and created files removed, as long as they are *)
(* the inodes that the setup made: a configuration that another setup has  *)
(* replaced is another one.                                                *)
BackedUp(i) ==
    IF job[i].before # NoConfig THEN [job[i].before EXCEPT !.by = Owner]
    ELSE IF job[i].created /\ config = [grants |-> {i}, by |-> Owner] THEN NoConfig
    ELSE config

RollBack(i, wipes) ==
    /\ at[i] = "restore"
    /\ creds' = IF job[i].wrote THEN creds \ {i} ELSE creds
    /\ IF job[i].created THEN RemoveCreated(i) ELSE UNCHANGED db
    /\ Goes(i, IF wipes THEN "wipe" ELSE "failed")
    /\ job' = [job EXCEPT ![i] = [NoJob EXCEPT !.created = job[i].created]]
    /\ UNCHANGED <<sidecar, sock, pidfile, server, faults>>

(* Mutated form of Restore: the configuration is not written back. *)
RestoreCredential(i) == UNCHANGED config /\ RollBack(i, job[i].created)

(* Mutated form of Restore: every rollback removes the instance. *)
RestoreAndWipe(i) == config' = BackedUp(i) /\ RollBack(i, TRUE)

(* Only who created the instance removes the rest of its files. *)
Restore(i) == config' = BackedUp(i) /\ RollBack(i, job[i].created)

(* Files of an instance in the order in which they are removed. *)
Removals(turn) == IF turn = 1 THEN {"config", "db"} ELSE {"sidecar", "sock", "pidfile"}

(* _remove_path for every file, whoever made it: a setup that created the  *)
(* instance may meet files of an instance made since.  An uninstall removes*)
(* those its manifest lists: what the first daemon made later may not be   *)
(* among them.                                                             *)
Remove(i, turn) ==
    /\ config' = IF "config" \in Removals(turn) THEN NoConfig ELSE config
    /\ db' = IF "db" \in Removals(turn) THEN None ELSE db
    /\ creds' = IF i \in Uninstalls /\ turn = 2 THEN {} ELSE creds
    /\ \/ /\ i \in Uninstalls /\ UNCHANGED <<sidecar, sock, pidfile>>
       \/ /\ sidecar' = IF "sidecar" \in Removals(turn) THEN None ELSE sidecar
          /\ sock' = IF "sock" \in Removals(turn) THEN None ELSE sock
          /\ pidfile' = IF "pidfile" \in Removals(turn) THEN None ELSE pidfile

Wipe(i) ==
    /\ \/ at[i] = "wipe" /\ Remove(i, 1) /\ Goes(i, "wiping")
       \/ at[i] = "wiping" /\ Remove(i, 2) /\ Goes(i, IF i \in Setups THEN "failed" ELSE "done")
    /\ UNCHANGED <<server, job, faults>>

Uninstall(i) ==
    /\ at[i] = "start" /\ i \in Uninstalls
    /\ Goes(i, "stop")
    /\ Note(i, "next", "sweep")
    /\ UNCHANGED <<files, server, faults>>

Sweep(i) ==
    /\ at[i] = "sweep"
    /\ sock' = IF Configured /\ Liveness = "stale" THEN None ELSE sock
    /\ Goes(i, "wipe")
    /\ UNCHANGED <<db, config, creds, sidecar, pidfile, server, job, faults>>

(* An installer that is killed or interrupted runs no rollback: what it has*)
(* written stays, and of the files it was removing some are gone.          *)
KillInstaller(i) ==
    /\ at[i] \notin {"absent", "start", "failed", "served", "done", "killed", "torn"}
    /\ faults < MaxFaults
    /\ faults' = faults + 1
    /\ Goes(i, IF at[i] = "wiping" THEN "torn" ELSE "killed")
    /\ job' = [job EXCEPT ![i] = NoJob]
    /\ config' \in IF at[i] = "wipe" THEN {config, NoConfig} ELSE {config}
    /\ sidecar' \in IF at[i] = "wiping" THEN {sidecar, None} ELSE {sidecar}
    /\ UNCHANGED <<db, creds, sock, pidfile, server>>

(* The host of a launcher starts it again after a failure.  A killed one   *)
(* counts as gone; what its host starts then is another launcher.          *)
Again(i) ==
    /\ at[i] = "failed" /\ i \in Launchers
    /\ Goes(i, "start")
    /\ job' = [job EXCEPT ![i] = NoJob]
    /\ UNCHANGED <<files, server, faults>>

-----------------------------------------------------------------------------
(* The daemon process.                                                     *)

Stage(p, stage) == server' = [server EXCEPT ![p].at = stage]
Die(p) == server' = [server EXCEPT ![p] = Dead]

(* load_config, _validate_runtime_paths *)
LoadConfig(p) ==
    /\ server[p].at = "load"
    /\ IF Installed
       THEN server' = [server EXCEPT ![p].at = "own", ![p].grants = config.grants]
       ELSE Die(p)
    /\ UNCHANGED <<files, at, job, faults>>

(* Mutated form of Free: a sidecar that exists is taken over. *)
FreeAlways(inode) == TRUE

(* flock on the sidecar *)
Free(inode) == \A q \in Servers : server[q].lock # inode

(* DatabaseOwnership.acquire creates the sidecar when there is none. *)
Own(p) ==
    /\ server[p].at = "own"
    /\ sidecar' = IF sidecar = None THEN FreshInode ELSE sidecar
    /\ IF Free(sidecar') THEN server' = [server EXCEPT ![p].at = "open", ![p].lock = sidecar']
       ELSE Die(p)
    /\ UNCHANGED <<db, config, creds, sock, pidfile, at, job, faults>>

(* The constructor opens the store and builds the services.  Whatever      *)
(* fails in it closes the connections and gives the ownership back.        *)
Open(p) ==
    /\ server[p].at = "open"
    /\ IF db # None THEN server' = [server EXCEPT ![p].at = "bind", ![p].db = db]
       ELSE Die(p)
    /\ UNCHANGED <<files, at, job, faults>>

(* _prepare_socket_path, without cleanup_stale_socket, and the bind: both  *)
(* refuse a path that is taken.                                            *)
Bind(p) ==
    /\ server[p].at = "bind"
    /\ IF sock = None THEN sock' = p /\ Stage(p, "bound")
       ELSE Die(p) /\ UNCHANGED sock
    /\ UNCHANGED <<db, config, creds, sidecar, pidfile, at, job, faults>>

Listen(p) ==
    /\ server[p].at = "bound"
    /\ Stage(p, "listening")
    /\ UNCHANGED <<files, at, job, faults>>

(* The path must still name the inode that was bound. *)
ServeSocket(p) ==
    /\ server[p].at = "listening"
    /\ IF sock = p THEN Stage(p, "serving") ELSE Die(p)
    /\ UNCHANGED <<files, at, job, faults>>

(* request_shutdown: the accept loop ends and closes the listener, then    *)
(* the own socket is unlinked, and close() ends threads and connections    *)
(* and gives up the ownership last.                                        *)
CloseListener(p) ==
    /\ server[p].at = "serving" /\ server[p].term
    /\ server' = [server EXCEPT ![p].at = "closing", ![p].term = FALSE]
    /\ UNCHANGED <<files, at, job, faults>>

UnlinkOwned(p) ==
    /\ server[p].at = "closing"
    /\ sock' = IF sock = p THEN None ELSE sock
    /\ Stage(p, "closed")
    /\ UNCHANGED <<db, config, creds, sidecar, pidfile, at, job, faults>>

ReleaseStore(p) ==
    /\ server[p].at = "closed"
    /\ Die(p)
    /\ UNCHANGED <<files, at, job, faults>>

(* Death of the process: the kernel releases the lock, the socket stays. *)
KillDaemon(p) ==
    /\ Alive(p) /\ faults < MaxFaults
    /\ faults' = faults + 1
    /\ Die(p)
    /\ UNCHANGED <<files, at, job>>

-----------------------------------------------------------------------------
Create(i) == Look(i) \/ ReadToken(i) \/ MakeDb(i) \/ MakeConfig(i) \/ MakeCredential(i)
Grant(i) == ReadGrants(i) \/ ReplaceConfig(i) \/ WriteCredential(i)
Attach(i) ==
    \/ ProbeSocket(i) \/ Inspect(i) \/ Confirm(i) \/ Unlink(i)
    \/ Spawn(i) \/ WritePid(i) \/ Ready(i) \/ TimeOut(i)
    \/ Stop(i) \/ Stopped(i) \/ Restart(i)
Finish(i) == Smoke(i) \/ Undo(i) \/ Restore(i) \/ Wipe(i) \/ Uninstall(i) \/ Sweep(i)

Installer(i) == Create(i) \/ Grant(i) \/ Attach(i) \/ Finish(i)

DaemonStep(p) ==
    \/ LoadConfig(p) \/ Own(p) \/ Open(p) \/ Bind(p) \/ Listen(p)
    \/ ServeSocket(p) \/ CloseListener(p) \/ UnlinkOwned(p) \/ ReleaseStore(p)

InstallNext ==
    \/ \E i \in Installers : Installer(i) \/ Again(i) \/ KillInstaller(i)
    \/ \E p \in Servers : DaemonStep(p) \/ KillDaemon(p)

InstallSpec == InstallInit /\ [][InstallNext]_installVars

(* Processes go on running; the host of a launcher need not start it again.*)
InstallFairSpec ==
    /\ InstallSpec
    /\ \A i \in Installers : WF_installVars(Installer(i))
    /\ \A p \in Servers : WF_installVars(DaemonStep(p))

-----------------------------------------------------------------------------
(* Properties.                                                             *)

(* A rollback or an uninstall has removed the lock sidecar, or may have. *)
Wiping ==
    \E i \in Installers :
        \/ at[i] \in {"wiping", "torn"}
        \/ at[i] = "failed" /\ job[i].created
        \/ at[i] = "done" /\ i \in Uninstalls

(* Two daemons never write the same database, as long as nobody removes    *)
(* the lock sidecar: whatever is started, stopped or killed at the same    *)
(* time, and whoever removes a socket that is in use.                      *)
OneWriter ==
    \A p, q \in Servers :
        server[p].db # None /\ server[p].db = server[q].db => p = q \/ Wiping

(* A database disappears only by an uninstall, by the process that made    *)
(* that very file and could not complete or prove the instance, or by the  *)
(* rollback of a setup that did create an instance: nobody who lost a race *)
(* to create one, who was granted on an existing one or who was killed     *)
(* costs the others their store.  (That rollback removes by path, so what  *)
(* it removes may be the file of an instance made after its own was gone.) *)
StoreKept ==
    [][db # None /\ db' # db =>
         \E i \in Installers :
            \/ at[i] = "wipe" /\ (i \in Uninstalls \/ job[i].created)
            \/ at[i] \in {"makeconfig", "makecred", "restore"} /\ job[i].db = db]_installVars

(* Setup takes effect as a whole: when it has ended by itself, its client  *)
(* is granted and has its credential, or neither, whatever launchers and   *)
(* daemons do at the same time and wherever they are killed.  A setup that *)
(* is killed itself, or that runs beside another setup or an uninstall, is *)
(* not covered: the first may leave a grant without a credential, and two  *)
(* setups may write each other's grant away.                               *)
SetupWhole ==
    \A i \in Setups :
        (\A j \in Setups \cup Uninstalls : j # i => at[j] = "absent") =>
            /\ at[i] = "done" => i \in config.grants \cap creds
            /\ at[i] = "failed" => i \notin config.grants \cup creds

(* Installers that race or fail half way, and installers and daemons that  *)
(* are killed, leave one writer per database, and a setup that comes to    *)
(* its own end leaves no half-made grant.                                  *)
InstallationSound == OneWriter /\ SetupWhole

LeftAlone(i) ==
    \A j \in Installers \ {i} : at[j] \in {"absent", "failed", "killed", "torn", "served", "done"}

(* A daemon serves although no path leads to its socket. *)
Orphaned == \E p \in Servers : server[p].at = "serving" /\ sock # p

(* Files of an instance without the others that belong to it. *)
Incomplete ==
    \/ Configured # (db # None)
    \/ ~Configured /\ (creds # {} \/ sock # None)
    \/ ~(config.grants \subseteq creds)

(* A launcher that is started again and again while every other process    *)
(* has ended or is served does not fail for ever, whatever died before and *)
(* in whatever state the others left the files, unless a daemon serves for *)
(* ever at no path or the instance stays incomplete: files of it without   *)
(* the others, which an uninstall and a process killed half way leave and  *)
(* which the program refuses to repair in place.                           *)
(* Launchers that fail and start at the same pace can stop each other's    *)
(* daemons for ever.                                                       *)
ServedAtLast ==
    \/ <>[]Orphaned
    \/ <>[]Incomplete
    \/ \A i \in Launchers : <>[]LeftAlone(i) => ~[]<>(at[i] = "start")

=============================================================================
