------------------------------- MODULE Daemon -------------------------------
(***************************************************************************)
(* Server processes over one database: ownership of the writer sidecar,    *)
(* connection threads, the handler thread started for each request, the    *)
(* background worker, shutdown and the operator's maintenance.             *)
(*                                                                         *)
(* A server process lives once: a restart is another member of Servers.    *)
(* db says that its database connections are open.  The worker stands for  *)
(* the two supervised workers, which are started, stopped and joined       *)
(* alike.  What the daemon does with a line a client sends is in module    *)
(* Frames; what it answers is left out.                                    *)
(***************************************************************************)
EXTENDS Frames

CONSTANTS
    Servers,   \* server processes
    Operator,  \* an operator command under maintenance_database_lock
    Nobody,    \* the lock is free, or the field is not set
    Conns,     \* connections that may exist at a time
    Backlog,   \* connection cap of a server
    Handlers,  \* handler threads that may exist at a time
    Config,    \* server -> its DaemonConfig: schema, capabilities, credentials
    Lines      \* the lines clients send

ASSUME DaemonAssumption ==
    /\ Operator \notin Servers /\ Nobody \notin Servers \cup Conns \cup {Operator}
    /\ Backlog \in Nat \ {0}
    /\ \A s \in Servers : ConfigOK(Config[s])
    /\ \A line \in Lines : Decodes(line) => line.data["protocol"] # Nothing

VARIABLES
    lock,     \* who holds the flock on <database>.enfold.lock
    phase,    \* server -> where its main thread is
    db,       \* server -> its connections to the database are open
    worker,   \* server -> background worker thread
    thread,   \* connection -> its thread in a server
    handler   \* handler thread started by _run_with_deadline

vars == <<lock, phase, db, worker, thread, handler>>

(* off: not started; starting and ready: in ServerApplication.__init__,    *)
(* before and after the database was opened; serving: the accept loop;     *)
(* stopping: in daemon.shutdown; joining: waiting for the workers;         *)
(* cleanup: all seen to have exited; degraded: close raised; released:     *)
(* close returned; gone: the process has ended.                            *)
Phases == {"off", "starting", "ready", "serving", "stopping", "joining",
           "cleanup", "degraded", "released", "gone"}

NoConnection == [client |-> Nobody, caps |-> {}, protocol |-> Nothing]

NoThread == [srv |-> Nobody, st |-> "none", as |-> NoConnection]

NoHandler == [srv |-> Nobody, method |-> "health", st |-> "none", conn |-> Nobody, client |-> Nobody]

TypeOK ==
    /\ lock \in Servers \cup {Operator, Nobody}
    /\ phase \in [Servers -> Phases]
    /\ db \in [Servers -> BOOLEAN]
    /\ worker \in [Servers -> {"none", "idle", "busy"}]
    /\ \A c \in Conns :
         /\ thread[c].srv \in Servers \cup {Nobody}
         /\ thread[c].st \in {"none", "greeting", "reading", "waiting"}
         /\ thread[c].as = NoConnection <=> thread[c].st \in {"none", "greeting"}
    /\ \A h \in Handlers :
         /\ handler[h].srv \in Servers \cup {Nobody} /\ handler[h].conn \in Conns \cup {Nobody}
         /\ handler[h].method \in Methods /\ handler[h].st \in {"none", "queued", "running"}
    /\ \A c \in Conns : thread[c].srv = Nobody <=> thread[c].st = "none"
    /\ \A h \in Handlers : handler[h].srv = Nobody <=> handler[h].st = "none"

Init ==
    /\ lock = Nobody
    /\ phase = [s \in Servers |-> "off"]
    /\ db = [s \in Servers |-> FALSE]
    /\ worker = [s \in Servers |-> "none"]
    /\ thread = [c \in Conns |-> NoThread]
    /\ handler = [h \in Handlers |-> NoHandler]

Alive(s) == phase[s] \notin {"off", "gone"}

Connected(s) == {c \in Conns : thread[c].srv = s}

Go(s, p) == phase' = [phase EXCEPT ![s] = p]

-----------------------------------------------------------------------------
(* Start of a server.                                                      *)

(* DatabaseOwnership.acquire; a server that finds the lock taken gives up. *)
Acquire(s) ==
    /\ phase[s] = "off"
    /\ IF lock = Nobody THEN Go(s, "starting") /\ lock' = s
       ELSE Go(s, "gone") /\ UNCHANGED lock
    /\ UNCHANGED <<db, worker, thread, handler>>

Open(s) ==
    /\ phase[s] = "starting"
    /\ db' = [db EXCEPT ![s] = TRUE]
    /\ Go(s, "ready")
    /\ UNCHANGED <<lock, worker, thread, handler>>

(* The schema, the outbox or the configuration is refused: connections are *)
(* closed and the lock is released as in an orderly close.                 *)
StartFails(s) ==
    /\ phase[s] \in {"starting", "ready"}
    /\ Go(s, "cleanup")
    /\ UNCHANGED <<lock, db, worker, thread, handler>>

(* serve_forever starts the configured workers, then binds the socket.     *)
(* When that fails, the workers are already running and main closes the    *)
(* application.                                                            *)
Serve(s) ==
    /\ phase[s] = "ready"
    /\ \E w \in {"none", "idle"} : worker' = [worker EXCEPT ![s] = w]
    /\ Go(s, "serving") \/ Go(s, "stopping")
    /\ UNCHANGED <<lock, db, thread, handler>>

-----------------------------------------------------------------------------
(* Connections and their requests.                                         *)

Accept(c, s) ==
    /\ phase[s] = "serving" /\ thread[c] = NoThread
    /\ Cardinality(Connected(s)) < Backlog
    /\ thread' = [thread EXCEPT ![c] = [srv |-> s, st |-> "greeting", as |-> NoConnection]]
    /\ UNCHANGED <<lock, phase, db, worker, handler>>

(* The connections each server can have negotiated *)
Negotiated == [s \in Servers |->
    {Connection(Config[s], line.data) : line \in {l \in Lines : Accepts(Config[s], l)}}]

(* The first frame negotiates the connection; a refusal ends it (Hangup). *)
Greet(c) ==
    /\ thread[c].st = "greeting"
    /\ \E conn \in Negotiated[thread[c].srv] :
         \E t \in {NoThread, [srv |-> thread[c].srv, st |-> "reading", as |-> conn]} :
           thread' = [thread EXCEPT ![c] = t]
    /\ UNCHANGED <<lock, phase, db, worker, handler>>

(* Mutations wait for _handler_lock, reads and health do not. *)
Exclusive(method) == method \notin ReadOnlyMethods \cup {"health"}

(* The methods a connection can ask for *)
Admitted == [s \in Servers |-> [conn \in UNION {Negotiated[t] : t \in Servers} |->
    {line.data["method"] : line \in {l \in Lines : Compatible(Config[s], conn, l) /\ Admits(conn, l)}}]]

(* A frame that was received before the sockets were closed is still       *)
(* handled while the server shuts down.                                    *)
Request(c, h) ==
    /\ thread[c].st = "reading" /\ handler[h] = NoHandler
    /\ \E method \in Admitted[thread[c].srv][thread[c].as] :
         handler' = [handler EXCEPT ![h] =
                       [srv |-> thread[c].srv, method |-> method, conn |-> c,
                        client |-> thread[c].as.client,
                        st |-> IF Exclusive(method) THEN "queued" ELSE "running"]]
    /\ thread' = [thread EXCEPT ![c].st = "waiting"]
    /\ UNCHANGED <<lock, phase, db, worker>>

(* Mutated form of TakeHandlerLock: mutations run side by side. *)
TakeNoHandlerLock(h) ==
    /\ handler[h].st = "queued"
    /\ handler' = [handler EXCEPT ![h].st = "running"]
    /\ UNCHANGED <<lock, phase, db, worker, thread>>

(* Mutations run one at a time under _handler_lock, also when nobody waits *)
(* for their answer any more.                                              *)
TakeHandlerLock(h) ==
    /\ handler[h].st = "queued"
    /\ \A g \in Handlers :
         handler[g].srv = handler[h].srv /\ Exclusive(handler[g].method) =>
           handler[g].st # "running"
    /\ handler' = [handler EXCEPT ![h].st = "running"]
    /\ UNCHANGED <<lock, phase, db, worker, thread>>

(* A response that is too large or no JSON is replaced by an error; when   *)
(* none can be sent the thread ends.                                       *)
AfterSending(c) == {NoThread, [thread[c] EXCEPT !.st = "reading"]}

(* The handler returns or raises; a mutation that outlived the database    *)
(* connections can only raise, a read has one of its own and can still     *)
(* return.  The thread that waits for it, if any, sends the answer, and    *)
(* ends when it cannot.                                                    *)
Finish(h) ==
    /\ handler[h].st = "running"
    /\ handler' = [handler EXCEPT ![h] = NoHandler]
    /\ IF handler[h].conn = Nobody THEN UNCHANGED thread
       ELSE \E t \in AfterSending(handler[h].conn) :
              thread' = [thread EXCEPT ![handler[h].conn] = t]
    /\ UNCHANGED <<lock, phase, db, worker>>

(* Mutated form of Deadline: the time in the queue is not counted. *)
DeadlineOfRunning(c) ==
    /\ thread[c].st = "waiting"
    /\ \E h \in Handlers :
         /\ handler[h].conn = c /\ handler[h].st = "running"
         /\ handler' = [handler EXCEPT ![h].conn = Nobody]
    /\ \E t \in AfterSending(c) :
         thread' = [thread EXCEPT ![c] = t]
    /\ UNCHANGED <<lock, phase, db, worker>>

(* Mutated form of Deadline: a late result still finds the connection. *)
DeadlineAttached(c) ==
    /\ thread[c].st = "waiting"
    /\ thread' = [thread EXCEPT ![c].st = "reading"]
    /\ UNCHANGED <<lock, phase, db, worker, handler>>

(* handler_timeout: the client is told request_timeout, the handler goes   *)
(* on (or goes on waiting for the lock) unobserved.                        *)
Deadline(c) ==
    /\ thread[c].st = "waiting"
    /\ \E t \in AfterSending(c) :
         thread' = [thread EXCEPT ![c] = t]
    /\ handler' = [h \in Handlers |->
                     IF handler[h].conn = c THEN [handler[h] EXCEPT !.conn = Nobody]
                     ELSE handler[h]]
    /\ UNCHANGED <<lock, phase, db, worker>>

(* The client hangs up, is idle too long, is refused, breaks the protocol, *)
(* or the shutdown closes its socket.                                      *)
Hangup(c) ==
    /\ thread[c].st \in {"greeting", "reading"}
    /\ thread' = [thread EXCEPT ![c] = NoThread]
    /\ UNCHANGED <<lock, phase, db, worker, handler>>

-----------------------------------------------------------------------------
(* The background worker.                                                  *)

(* Mutated form of WorkerClaims: the stop flag is not looked at. *)
WorkerClaimsStopped(s) ==
    /\ worker[s] = "idle"
    /\ worker' = [worker EXCEPT ![s] = "busy"]
    /\ UNCHANGED <<lock, phase, db, thread, handler>>

(* worker.stop is called after daemon.shutdown: no claim from then on. *)
WorkerClaims(s) ==
    /\ worker[s] = "idle" /\ phase[s] \in {"serving", "stopping"}
    /\ worker' = [worker EXCEPT ![s] = "busy"]
    /\ UNCHANGED <<lock, phase, db, thread, handler>>

WorkerFinishes(s) ==
    /\ worker[s] = "busy"
    /\ worker' = [worker EXCEPT ![s] = "idle"]
    /\ UNCHANGED <<lock, phase, db, thread, handler>>

WorkerExits(s) ==
    /\ worker[s] = "idle" /\ phase[s] \in {"joining", "degraded"}
    /\ worker' = [worker EXCEPT ![s] = "none"]
    /\ UNCHANGED <<lock, phase, db, thread, handler>>

-----------------------------------------------------------------------------
(* Shutdown.                                                               *)

(* SIGTERM sets the stop flag; main leaves the accept loop and calls close. *)
Stop(s) ==
    /\ phase[s] = "serving"
    /\ Go(s, "stopping")
    /\ UNCHANGED <<lock, db, worker, thread, handler>>

(* daemon.shutdown joins the connection threads for at most                *)
(* shutdown_timeout; it raises when one is left, and close goes on.        *)
ShutdownDaemon(s) ==
    /\ phase[s] = "stopping"
    /\ Go(s, "joining")
    /\ UNCHANGED <<lock, db, worker, thread, handler>>

(* Mutated form of HasLiveThreads: the workers are not looked at. *)
HasLiveConnections(s) == Connected(s) # {}

(* Mutated form of HasLiveThreads: only the workers are looked at. *)
HasLiveWorkers(s) == worker[s] # "none"

(* daemon.has_live_threads and the workers' is_alive.  The threads of      *)
(* _run_with_deadline, in which handlers run, are not among _client_threads*)
(* and nobody looks at them.                                               *)
HasLiveThreads(s) == Connected(s) # {} \/ worker[s] # "none"

(* The joins of the workers end or time out, then close decides.  The      *)
(* sockets are closed, so a thread ends unless it waits for a handler.     *)
JoinWorkers(s) ==
    /\ phase[s] = "joining"
    /\ Go(s, IF HasLiveThreads(s) THEN "degraded" ELSE "cleanup")
    /\ UNCHANGED <<lock, db, worker, thread, handler>>

CloseConnections(s) ==
    /\ phase[s] = "cleanup" /\ db[s]
    /\ db' = [db EXCEPT ![s] = FALSE]
    /\ UNCHANGED <<lock, phase, worker, thread, handler>>

(* Mutated form of Release: ownership goes before the connections. *)
ReleaseFirst(s) ==
    /\ phase[s] = "cleanup" /\ lock = s
    /\ lock' = Nobody
    /\ Go(s, IF db[s] THEN "cleanup" ELSE "released")
    /\ UNCHANGED <<db, worker, thread, handler>>

Release(s) ==
    /\ phase[s] = "cleanup" /\ ~db[s]
    /\ lock' = Nobody
    /\ Go(s, "released")
    /\ UNCHANGED <<db, worker, thread, handler>>

(* The process ends: connection and handler threads are daemon threads and *)
(* die with it, and the kernel drops its lock.                             *)
End(s) ==
    /\ Go(s, "gone")
    /\ db' = [db EXCEPT ![s] = FALSE]
    /\ worker' = [worker EXCEPT ![s] = "none"]
    /\ thread' = [c \in Conns |-> IF thread[c].srv = s THEN NoThread ELSE thread[c]]
    /\ handler' = [h \in Handlers |-> IF handler[h].srv = s THEN NoHandler ELSE handler[h]]
    /\ lock' = IF lock = s THEN Nobody ELSE lock

(* After main has returned or raised, the interpreter waits for the        *)
(* workers, which are no daemon threads.                                   *)
Exit(s) == phase[s] \in {"degraded", "released"} /\ worker[s] = "none" /\ End(s)

(* The process is killed. *)
Kill(s) == Alive(s) /\ End(s)

(* maintenance_database_lock: an operator command runs alone. *)
Maintain ==
    /\ lock = Nobody /\ lock' = Operator
    /\ UNCHANGED <<phase, db, worker, thread, handler>>

EndMaintenance ==
    /\ lock = Operator /\ lock' = Nobody
    /\ UNCHANGED <<phase, db, worker, thread, handler>>

Main(s) ==
    \/ Acquire(s) \/ Open(s) \/ StartFails(s) \/ Serve(s)
    \/ Stop(s) \/ ShutdownDaemon(s) \/ JoinWorkers(s)
    \/ CloseConnections(s) \/ Release(s) \/ Exit(s) \/ Kill(s)

Next ==
    \/ \E s \in Servers :
         Main(s) \/ WorkerClaims(s) \/ WorkerFinishes(s) \/ WorkerExits(s)
    \/ \E c \in Conns, s \in Servers : Accept(c, s)
    \/ \E c \in Conns, h \in Handlers : Request(c, h)
    \/ \E c \in Conns : Greet(c) \/ Deadline(c) \/ Hangup(c)
    \/ \E h \in Handlers : TakeHandlerLock(h) \/ Finish(h)
    \/ Maintain \/ EndMaintenance

Spec == Init /\ [][Next]_vars

(* The main thread's shutdown goes on, a worker's call returns, and so     *)
(* does the wait for a handler; handlers themselves may hang for ever.     *)
FairSpec ==
    /\ Spec
    /\ \A s \in Servers :
         /\ WF_vars(ShutdownDaemon(s)) /\ WF_vars(JoinWorkers(s))
         /\ WF_vars(CloseConnections(s)) /\ WF_vars(Release(s)) /\ WF_vars(Exit(s))
         /\ WF_vars(WorkerFinishes(s)) /\ WF_vars(WorkerExits(s))
    /\ \A c \in Conns : WF_vars(Deadline(c))

-----------------------------------------------------------------------------
(* Properties.                                                             *)

(* The long-lived connections of a server, its workers' included, are open *)
(* only in the process that owns the database: not after a handover to     *)
(* another server or to the operator, and not after a failed start.        *)
WriterOwns == \A s \in Servers : db[s] => lock = s

(* Worker and connection threads never find the database closed or owned   *)
(* by another under them, however short the shutdown's patience was.       *)
LiveThreadsKeepDatabase ==
    \A s \in Servers : Connected(s) # {} \/ worker[s] # "none" => db[s] /\ lock = s

(* A handler thread can lose the database: close does not look at it.  It  *)
(* does only after its request timed out and close gave up the connections *)
(* first, so that a mutation commits nothing any more.  A read opens a     *)
(* connection of its own and may read beside the next owner, be that a     *)
(* server or an operator who takes the database to be his alone.           *)
OnlyLateHandlersLeft ==
    \A h \in Handlers :
        LET work == handler[h] IN
        work.st # "none" /\ lock # work.srv =>
            work.conn = Nobody /\ ~db[work.srv] /\ phase[work.srv] = "released"

(* One server at a time writes, it keeps lock and connections as long as a *)
(* worker, a connection or a request that is waited for may need them, and *)
(* what a close leaves running can only read.                              *)
Ownership == TypeOK /\ WriterOwns /\ LiveThreadsKeepDatabase /\ OnlyLateHandlersLeft

(* Of all mutations that can still commit, in whatever process and whether *)
(* or not their clients still wait, at most one is running.                *)
OneMutationAtATime ==
    \A g, h \in Handlers :
        /\ handler[g].st = "running" /\ Exclusive(handler[g].method) /\ db[handler[g].srv]
        /\ handler[h].st = "running" /\ Exclusive(handler[h].method) /\ db[handler[h].srv]
        => g = h

(* A connection waits for one handler, its own: the late result of a       *)
(* request that timed out never answers a later request.                   *)
AnswersMatch ==
    \A c \in Conns :
        LET own == {h \in Handlers : handler[h].conn = c} IN
        IF thread[c].st = "waiting" THEN \E h \in Handlers : own = {h} ELSE own = {}

(* Deadlines and hangups leave handlers running behind, but neither do two *)
(* mutations overlap nor does a result reach the wrong request.            *)
HandlersOrderly == OneMutationAtATime /\ AnswersMatch

(* A client that waits for an answer is answered or cut off, also when the *)
(* handler lane is blocked for ever by another mutation.                   *)
RequestsEnd == \A c \in Conns : thread[c].st = "waiting" ~> thread[c].st # "waiting"

(* A server that begins to shut down gives up the database in the end:     *)
(* neither a hanging handler nor a degraded close keeps it.                *)
ShutdownReleases == \A s \in Servers : phase[s] = "stopping" ~> lock # s

(* A handler that hangs for ever holds up neither a client nor a shutdown. *)
NobodyWaitsForEver == RequestsEnd /\ ShutdownReleases

(* Every handler, also one whose client is gone and one left over by a     *)
(* shutdown, works on a method that its server offers and that its client  *)
(* asked for when it introduced itself; if the server has credentials, the *)
(* client is on record there and showed its own: a grant that the          *)
(* restarted server no longer has is of no use on it.                      *)
WorkIsGranted ==
    \A h \in Handlers :
        LET work == handler[h]  config == Config[work.srv] IN
        work.st # "none" =>
          /\ RequiredCapability(work.method) \in config.capabilities
          /\ \E line \in Lines :
               /\ Decodes(line) /\ line.data["type"] = "handshake"
               /\ line.data["context"]["client_id"] = work.client
               /\ RequiredCapability(work.method) \in line.data["capabilities"]
               /\ DOMAIN config.credentials # {} =>
                    /\ work.client \in DOMAIN config.credentials
                    /\ config.credentials[work.client] = Digest(CredentialOf(line.data))

=============================================================================
