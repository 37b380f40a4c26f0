---------------------------- MODULE DaemonProofs ----------------------------
(* Theorems of Daemon for any number of servers, connections and handlers, *)
(* any configurations and any lines of the clients.                        *)
EXTENDS Daemon, TLAPS

(* The records that threads and handlers can be.                           *)
Negotiations == UNION {Negotiated[s] : s \in Servers}

Threads ==
    [srv : Servers \cup {Nobody}, st : {"none", "greeting", "reading", "waiting"},
     as : {NoConnection} \cup Negotiations]

Works ==
    [srv : Servers \cup {Nobody}, method : Methods, st : {"none", "queued", "running"},
     conn : Conns \cup {Nobody}, client : {Nobody} \cup {conn.client : conn \in Negotiations}]

RecordsTyped == thread \in [Conns -> Threads] /\ handler \in [Handlers -> Works]

(* A connection that was greeted was negotiated with its server, and a     *)
(* handler works for one that was, on what it may ask for.                 *)
GreetedAreNegotiated ==
    \A c \in Conns :
        thread[c].st \in {"reading", "waiting"} => thread[c].as \in Negotiated[thread[c].srv]

WorkIsNegotiated ==
    \A h \in Handlers : handler[h].st # "none" =>
        \E conn \in Negotiated[handler[h].srv] :
            handler[h].client = conn.client /\ RequiredCapability(handler[h].method) \in conn.caps

(* What the phase of a server says of its lock, database and threads, and  *)
(* where handlers may be left when it is over.                             *)
Owning == {"starting", "ready", "serving", "stopping", "joining", "cleanup", "degraded"}

Busy == {"serving", "stopping", "joining", "degraded"}

PhasesFit ==
    \A s \in Servers :
        /\ lock = s <=> phase[s] \in Owning
        /\ db[s] => phase[s] \in Owning
        /\ phase[s] \in Busy \cup {"ready"} => db[s]
        /\ worker[s] # "none" => phase[s] \in Busy
        /\ \A c \in Conns : thread[c].srv = s => phase[s] \in Busy
        /\ \A h \in Handlers : handler[h].srv = s => phase[s] \in Busy \cup {"cleanup", "released"}

(* A handler somebody waits for belongs to one thread, of its own server,  *)
(* and that thread waits.                                                  *)
WaitsFit ==
    /\ \A h \in Handlers : handler[h].conn # Nobody =>
         /\ thread[handler[h].conn].st = "waiting"
         /\ thread[handler[h].conn].srv = handler[h].srv
    /\ \A g, h \in Handlers : handler[g].conn = handler[h].conn /\ handler[h].conn # Nobody => g = h
    /\ \A c \in Conns : thread[c].st = "waiting" => \E h \in Handlers : handler[h].conn = c

(* The handler lane of a server, whether or not its database is open.      *)
LaneHeldOnce ==
    \A g, h \in Handlers :
        /\ handler[g].st = "running" /\ Exclusive(handler[g].method)
        /\ handler[h].st = "running" /\ Exclusive(handler[h].method)
        /\ handler[g].srv = handler[h].srv
        => g = h

(* What only the threads say, and what the processes say as well. *)
ThreadsFit == RecordsTyped /\ GreetedAreNegotiated /\ WorkIsNegotiated /\ WaitsFit /\ LaneHeldOnce

IInv == TypeOK /\ PhasesFit /\ ThreadsFit

-----------------------------------------------------------------------------
(* What a negotiation admits.                                              *)

LEMMA NegotiationIsOnRecord ==
    ASSUME NEW s \in Servers, NEW conn \in Negotiated[s]
    PROVE  \E line \in Lines :
             /\ Accepts(Config[s], line)
             /\ conn = Connection(Config[s], line.data)
  BY DEF Negotiated

LEMMA NegotiatedIsConnection ==
    ASSUME NEW s \in Servers, NEW conn \in Negotiated[s]
    PROVE  conn \in Negotiations /\ conn # NoConnection
  <1>1. conn \in Negotiations
    BY DEF Negotiations
  <1>2. PICK line \in Lines :
          Accepts(Config[s], line) /\ conn = Connection(Config[s], line.data)
    BY NegotiationIsOnRecord
  <1>3. conn.protocol = line.data["protocol"] /\ Decodes(line)
    BY <1>2 DEF Connection, Accepts
  <1>4. conn.protocol # Nothing
    BY <1>3, DaemonAssumption
  <1> QED
    BY <1>1, <1>4 DEF NoConnection

LEMMA AdmittedIsCapable ==
    ASSUME NEW s \in Servers, NEW conn \in Negotiated[s], NEW method \in Admitted[s][conn]
    PROVE  method \in Methods /\ RequiredCapability(method) \in conn.caps
  <1>1. conn \in UNION {Negotiated[t] : t \in Servers}
    OBVIOUS
  <1>2. Admitted[s][conn] =
          {line.data["method"] : line \in {l \in Lines : Compatible(Config[s], conn, l) /\ Admits(conn, l)}}
    BY <1>1 DEF Admitted
  <1>3. PICK line \in Lines : /\ Compatible(Config[s], conn, line) /\ Admits(conn, line)
                              /\ method = line.data["method"]
    BY <1>2
  <1>4. Decodes(line) /\ line.data["type"] = "request"
    BY <1>3 DEF Compatible
  <1>5. RequestOK(line.data)
    BY <1>4 DEF Decodes
  <1> QED
    BY <1>3, <1>5 DEF RequestOK, Admits

-----------------------------------------------------------------------------
(* Steps of main threads, workers and the operator leave the threads of    *)
(* connections and requests alone.                                         *)

LEMMA ThreadsUntouched ==
    ASSUME ThreadsFit, UNCHANGED <<thread, handler>>
    PROVE  ThreadsFit'
  BY DEF ThreadsFit, RecordsTyped, GreetedAreNegotiated, WorkIsNegotiated, WaitsFit, LaneHeldOnce

LEMMA ServerKeeps ==
    ASSUME NEW s \in Servers, IInv,
           \/ Acquire(s) \/ Open(s) \/ StartFails(s) \/ Serve(s) \/ Stop(s) \/ ShutdownDaemon(s)
           \/ JoinWorkers(s) \/ CloseConnections(s) \/ Release(s)
           \/ WorkerClaims(s) \/ WorkerFinishes(s) \/ WorkerExits(s)
    PROVE  IInv'
  <1> USE DaemonAssumption DEF IInv, TypeOK, Phases, PhasesFit, Owning, Busy
  <1>1. CASE Acquire(s)
    <2>1. TypeOK' /\ PhasesFit'
      BY <1>1 DEF Acquire, Go
    <2>2. ThreadsFit'
      BY <1>1, ThreadsUntouched DEF Acquire
    <2> QED
      BY <2>1, <2>2
  <1>2. CASE Open(s)
    <2>1. TypeOK' /\ PhasesFit'
      BY <1>2 DEF Open, Go
    <2>2. ThreadsFit'
      BY <1>2, ThreadsUntouched DEF Open
    <2> QED
      BY <2>1, <2>2
  <1>3. CASE StartFails(s)
    <2>1. TypeOK' /\ PhasesFit'
      BY <1>3 DEF StartFails, Go
    <2>2. ThreadsFit'
      BY <1>3, ThreadsUntouched DEF StartFails
    <2> QED
      BY <2>1, <2>2
  <1>4. CASE Serve(s)
    <2>1. TypeOK' /\ PhasesFit'
      BY <1>4 DEF Serve, Go
    <2>2. ThreadsFit'
      BY <1>4, ThreadsUntouched DEF Serve
    <2> QED
      BY <2>1, <2>2
  <1>5. CASE Stop(s)
    <2>1. TypeOK' /\ PhasesFit'
      BY <1>5 DEF Stop, Go
    <2>2. ThreadsFit'
      BY <1>5, ThreadsUntouched DEF Stop
    <2> QED
      BY <2>1, <2>2
  <1>6. CASE ShutdownDaemon(s)
    <2>1. TypeOK' /\ PhasesFit'
      BY <1>6 DEF ShutdownDaemon, Go
    <2>2. ThreadsFit'
      BY <1>6, ThreadsUntouched DEF ShutdownDaemon
    <2> QED
      BY <2>1, <2>2
  <1>7. CASE JoinWorkers(s)
    <2>1. TypeOK' /\ PhasesFit'
      BY <1>7 DEF JoinWorkers, HasLiveThreads, Connected, Go
    <2>2. ThreadsFit'
      BY <1>7, ThreadsUntouched DEF JoinWorkers
    <2> QED
      BY <2>1, <2>2
  <1>8. CASE CloseConnections(s)
    <2>1. TypeOK' /\ PhasesFit'
      BY <1>8 DEF CloseConnections
    <2>2. ThreadsFit'
      BY <1>8, ThreadsUntouched DEF CloseConnections
    <2> QED
      BY <2>1, <2>2
  <1>9. CASE Release(s)
    <2>1. TypeOK' /\ PhasesFit'
      BY <1>9 DEF Release, Go
    <2>2. ThreadsFit'
      BY <1>9, ThreadsUntouched DEF Release
    <2> QED
      BY <2>1, <2>2
  <1>10. CASE WorkerClaims(s)
    <2>1. TypeOK' /\ PhasesFit'
      BY <1>10 DEF WorkerClaims
    <2>2. ThreadsFit'
      BY <1>10, ThreadsUntouched DEF WorkerClaims
    <2> QED
      BY <2>1, <2>2
  <1>11. CASE WorkerFinishes(s)
    <2>1. TypeOK' /\ PhasesFit'
      BY <1>11 DEF WorkerFinishes
    <2>2. ThreadsFit'
      BY <1>11, ThreadsUntouched DEF WorkerFinishes
    <2> QED
      BY <2>1, <2>2
  <1>12. CASE WorkerExits(s)
    <2>1. TypeOK' /\ PhasesFit'
      BY <1>12 DEF WorkerExits
    <2>2. ThreadsFit'
      BY <1>12, ThreadsUntouched DEF WorkerExits
    <2> QED
      BY <2>1, <2>2
  <1> QED
    BY <1>1, <1>2, <1>3, <1>4, <1>5, <1>6, <1>7, <1>8, <1>9, <1>10, <1>11, <1>12

LEMMA OperatorKeeps ==
    ASSUME IInv, Maintain \/ EndMaintenance
    PROVE  IInv'
  <1>1. TypeOK' /\ PhasesFit'
    BY DaemonAssumption DEF IInv, TypeOK, PhasesFit, Owning, Busy, Maintain, EndMaintenance
  <1>2. ThreadsFit'
    BY ThreadsUntouched DEF IInv, Maintain, EndMaintenance
  <1> QED
    BY <1>1, <1>2 DEF IInv

-----------------------------------------------------------------------------
(* Steps of connections and handlers leave the processes alone.            *)

LEMMA ProcessesUntouched ==
    ASSUME PhasesFit, UNCHANGED <<lock, phase, db, worker>>,
           \A c \in Conns : thread'[c].srv \in {thread[c].srv, Nobody},
           \A h \in Handlers : \/ handler'[h].srv \in {handler[h].srv, Nobody}
                                \/ \E c \in Conns : thread[c].srv = handler'[h].srv
    PROVE  PhasesFit'
  BY DaemonAssumption DEF PhasesFit

LEMMA AcceptKeeps ==
    ASSUME NEW c \in Conns, NEW s \in Servers, IInv, Accept(c, s)
    PROVE  IInv'
  <1> USE DaemonAssumption DEF IInv, TypeOK, ThreadsFit, RecordsTyped, Threads, Works
  <1>1. RecordsTyped'
    BY NegotiatedIsConnection DEF Accept, NoThread, NoHandler, Methods
  <1>2. TypeOK'
    BY NegotiatedIsConnection DEF Accept, NoThread, NoHandler
  <1>3. PhasesFit'
    BY DEF Accept, NoThread, PhasesFit, Busy
  <1>4. GreetedAreNegotiated' /\ WorkIsNegotiated'
    BY DEF Accept, NoThread, NoHandler, GreetedAreNegotiated, WorkIsNegotiated
  <1>5. WaitsFit'
    BY DEF Accept, NoThread, NoHandler, WaitsFit
  <1>6. LaneHeldOnce'
    BY DEF Accept, NoThread, NoHandler, LaneHeldOnce
  <1> QED
    BY <1>1, <1>2, <1>3, <1>4, <1>5, <1>6

LEMMA GreetKeeps ==
    ASSUME NEW c \in Conns, IInv, Greet(c)
    PROVE  IInv'
  <1> USE DaemonAssumption DEF IInv, TypeOK, ThreadsFit, RecordsTyped, Threads, Works
  <1>1. thread[c].srv \in Servers /\ thread[c].st = "greeting"
    BY DEF Greet
  <1>2. PICK conn \in Negotiated[thread[c].srv] :
          \E t \in {NoThread, [srv |-> thread[c].srv, st |-> "reading", as |-> conn]} :
            thread' = [thread EXCEPT ![c] = t]
    BY Zenon DEF Greet
  <1>3. conn \in Negotiations /\ conn # NoConnection
    BY <1>1, NegotiatedIsConnection
  <1>4. UNCHANGED <<lock, phase, db, worker, handler>>
    BY DEF Greet
  <1>5. PICK t \in {NoThread, [srv |-> thread[c].srv, st |-> "reading", as |-> conn]} :
          thread' = [thread EXCEPT ![c] = t]
    BY <1>2
  <1>6. thread'[c] = t /\ \A d \in Conns \ {c} : thread'[d] = thread[d]
    BY <1>5
  <1>7. RecordsTyped'
    <2>1. t \in Threads
      BY <1>3 DEF NoThread
    <2> QED
      BY <1>4, <1>5, <2>1
  <1>8. TypeOK'
    BY <1>1, <1>3, <1>4, <1>6 DEF NoThread
  <1>9. PhasesFit'
    BY <1>4, <1>6, ProcessesUntouched DEF NoThread
  <1>10. GreetedAreNegotiated' /\ WorkIsNegotiated'
    BY <1>4, <1>6 DEF NoThread, GreetedAreNegotiated, WorkIsNegotiated
  <1>11. WaitsFit'
    <2>1. thread'[c].st \in {"none", "reading"}
      BY <1>6 DEF NoThread
    <2>2. \A h \in Handlers : handler'[h] = handler[h] /\ handler[h].conn # c
      BY <1>1, <1>4 DEF WaitsFit
    <2> QED
      BY <1>1, <1>4, <1>6, <2>1, <2>2 DEF WaitsFit
  <1>12. LaneHeldOnce'
    BY <1>4 DEF LaneHeldOnce
  <1> QED
    BY <1>7, <1>8, <1>9, <1>10, <1>11, <1>12

LEMMA RequestKeeps ==
    ASSUME NEW c \in Conns, NEW h \in Handlers, IInv, Request(c, h)
    PROVE  IInv'
  <1> USE DaemonAssumption DEF IInv, TypeOK, ThreadsFit, RecordsTyped, Threads, Works
  <1>1. thread[c].srv \in Servers /\ thread[c].as \in Negotiated[thread[c].srv]
    BY DEF Request, GreetedAreNegotiated
  <1>2. PICK method \in Admitted[thread[c].srv][thread[c].as] :
          handler' = [handler EXCEPT ![h] =
                        [srv |-> thread[c].srv, method |-> method, conn |-> c,
                         client |-> thread[c].as.client,
                         st |-> IF Exclusive(method) THEN "queued" ELSE "running"]]
    BY DEF Request
  <1>3. method \in Methods /\ RequiredCapability(method) \in thread[c].as.caps
    BY <1>1, AdmittedIsCapable
  <1>4. thread[c].as \in Negotiations
    BY <1>1, NegotiatedIsConnection
  <1>5. /\ thread[c].st = "reading" /\ handler[h] = NoHandler
        /\ thread' = [thread EXCEPT ![c].st = "waiting"]
        /\ UNCHANGED <<lock, phase, db, worker>>
    BY DEF Request
  <1>6. RecordsTyped'
    <2>1. thread' \in [Conns -> Threads]
      BY <1>5
    <2>2. handler'[h] \in Works
      BY <1>1, <1>2, <1>3, <1>4
    <2> QED
      BY <1>2, <2>1, <2>2
  <1>7. TypeOK'
    BY <1>1, <1>2, <1>3, <1>5
  <1>8. PhasesFit'
    <2>1. \A g \in Handlers : handler'[g].srv = handler[g].srv \/ handler'[g].srv = thread[c].srv
      BY <1>2
    <2>2. \A d \in Conns : thread'[d].srv = thread[d].srv
      BY <1>5
    <2> QED
      BY <1>5, <2>1, <2>2, ProcessesUntouched
  <1>9. GreetedAreNegotiated'
    BY <1>1, <1>5 DEF GreetedAreNegotiated
  <1>10. WorkIsNegotiated'
    <2>1. handler'[h].srv = thread[c].srv /\ handler'[h].client = thread[c].as.client
          /\ handler'[h].method = method
      BY <1>2
    <2>2. \A g \in Handlers \ {h} : handler'[g] = handler[g]
      BY <1>2
    <2> QED
      BY <1>1, <1>3, <2>1, <2>2 DEF WorkIsNegotiated
  <1>11. WaitsFit'
    BY <1>2, <1>5 DEF NoHandler, WaitsFit
  <1>12. LaneHeldOnce'
    BY <1>2, <1>5 DEF NoHandler, LaneHeldOnce
  <1> QED
    BY <1>6, <1>7, <1>8, <1>9, <1>10, <1>11, <1>12

LEMMA DeadlineKeeps ==
    ASSUME NEW c \in Conns, IInv, Deadline(c)
    PROVE  IInv'
  <1> USE DaemonAssumption DEF IInv, TypeOK, ThreadsFit, RecordsTyped, Threads, Works
  <1>1. RecordsTyped'
    BY NegotiatedIsConnection DEF Deadline, AfterSending, NoThread, NoHandler, Methods
  <1>2. TypeOK'
    BY NegotiatedIsConnection DEF Deadline, AfterSending, NoThread, NoHandler
  <1>3. PhasesFit'
    BY ProcessesUntouched DEF Deadline, AfterSending, NoThread, NoHandler
  <1>4. GreetedAreNegotiated' /\ WorkIsNegotiated'
    BY DEF Deadline, AfterSending, NoThread, NoHandler, GreetedAreNegotiated, WorkIsNegotiated
  <1>5. WaitsFit'
    BY DEF Deadline, AfterSending, NoThread, NoHandler, WaitsFit
  <1>6. LaneHeldOnce'
    BY DEF Deadline, AfterSending, NoThread, NoHandler, LaneHeldOnce
  <1> QED
    BY <1>1, <1>2, <1>3, <1>4, <1>5, <1>6

LEMMA HangupKeeps ==
    ASSUME NEW c \in Conns, IInv, Hangup(c)
    PROVE  IInv'
  <1> USE DaemonAssumption DEF IInv, TypeOK, ThreadsFit, RecordsTyped, Threads, Works
  <1>1. RecordsTyped'
    BY NegotiatedIsConnection DEF Hangup, NoThread, NoHandler, Methods
  <1>2. TypeOK'
    BY NegotiatedIsConnection DEF Hangup, NoThread, NoHandler
  <1>3. PhasesFit'
    BY ProcessesUntouched DEF Hangup, NoThread, NoHandler
  <1>4. GreetedAreNegotiated' /\ WorkIsNegotiated'
    BY DEF Hangup, NoThread, NoHandler, GreetedAreNegotiated, WorkIsNegotiated
  <1>5. WaitsFit'
    BY DEF Hangup, NoThread, NoHandler, WaitsFit
  <1>6. LaneHeldOnce'
    BY DEF Hangup, NoThread, NoHandler, LaneHeldOnce
  <1> QED
    BY <1>1, <1>2, <1>3, <1>4, <1>5, <1>6

LEMMA TakeHandlerLockKeeps ==
    ASSUME NEW h \in Handlers, IInv, TakeHandlerLock(h)
    PROVE  IInv'
  <1> USE DaemonAssumption DEF IInv, TypeOK, ThreadsFit, RecordsTyped, Threads, Works
  <1>1. RecordsTyped'
    BY NegotiatedIsConnection DEF TakeHandlerLock, NoThread, NoHandler, Methods
  <1>2. TypeOK'
    BY NegotiatedIsConnection DEF TakeHandlerLock, NoThread, NoHandler
  <1>3. PhasesFit'
    BY ProcessesUntouched DEF TakeHandlerLock, NoThread, NoHandler
  <1>4. GreetedAreNegotiated' /\ WorkIsNegotiated'
    BY DEF TakeHandlerLock, NoThread, NoHandler, GreetedAreNegotiated, WorkIsNegotiated
  <1>5. WaitsFit'
    BY DEF TakeHandlerLock, NoThread, NoHandler, WaitsFit
  <1>6. LaneHeldOnce'
    BY DEF TakeHandlerLock, NoThread, NoHandler, LaneHeldOnce
  <1> QED
    BY <1>1, <1>2, <1>3, <1>4, <1>5, <1>6

LEMMA FinishKeeps ==
    ASSUME NEW h \in Handlers, IInv, Finish(h)
    PROVE  IInv'
  <1> USE DaemonAssumption DEF IInv, TypeOK, ThreadsFit, RecordsTyped, Threads, Works
  <1>1. /\ handler[h].st = "running"
        /\ handler' = [handler EXCEPT ![h] = NoHandler]
        /\ UNCHANGED <<lock, phase, db, worker>>
    BY DEF Finish
  <1>2. CASE handler[h].conn = Nobody
    <2>1. thread' = thread
      BY <1>2 DEF Finish
    <2>2. RecordsTyped' /\ TypeOK'
      BY <1>1, <2>1 DEF NoHandler, Methods
    <2>3. PhasesFit'
      <3>1. \A g \in Handlers : handler'[g].srv \in {handler[g].srv, Nobody}
        BY <1>1 DEF NoHandler
      <3> QED
        BY <1>1, <2>1, <3>1, ProcessesUntouched
    <2>4. GreetedAreNegotiated' /\ WorkIsNegotiated' /\ LaneHeldOnce'
      BY <1>1, <2>1 DEF NoHandler, GreetedAreNegotiated, WorkIsNegotiated, LaneHeldOnce
    <2>5. WaitsFit'
      BY <1>1, <1>2, <2>1 DEF NoHandler, WaitsFit
    <2> QED
      BY <2>2, <2>3, <2>4, <2>5
  <1>3. CASE handler[h].conn # Nobody
    <2> DEFINE c == handler[h].conn
    <2>1. c \in Conns /\ thread[c].st = "waiting"
      BY <1>3 DEF WaitsFit
    <2>2. PICK t \in AfterSending(c) : thread' = [thread EXCEPT ![c] = t]
      BY <1>3 DEF Finish
    <2>3. /\ t = NoThread \/ t = [srv |-> thread[c].srv, st |-> "reading", as |-> thread[c].as]
          /\ thread'[c] = t /\ \A d \in Conns \ {c} : thread'[d] = thread[d]
      BY <2>1, <2>2 DEF AfterSending
    <2>4. RecordsTyped' /\ TypeOK'
      <3>1. thread' \in [Conns -> Threads]
        <4>1. t \in Threads
          BY <2>1, <2>3 DEF NoThread
        <4> QED
          BY <2>2, <4>1
      <3>2. handler' \in [Handlers -> Works]
        BY <1>1 DEF NoHandler, Methods
      <3>3. TypeOK'
        <4>1. \A d \in Conns :
                /\ thread'[d].srv \in Servers \cup {Nobody}
                /\ thread'[d].st \in {"none", "greeting", "reading", "waiting"}
                /\ thread'[d].as = NoConnection <=> thread'[d].st \in {"none", "greeting"}
                /\ thread'[d].srv = Nobody <=> thread'[d].st = "none"
          BY <2>1, <2>3 DEF NoThread
        <4>2. \A g \in Handlers : handler'[g] \in {handler[g], NoHandler}
          BY <1>1
        <4>3. \A g \in Handlers : handler'[g].srv = Nobody <=> handler'[g].st = "none"
          BY <4>2 DEF NoHandler
        <4> QED
          BY <1>1, <3>2, <4>1, <4>3
      <3> QED
        BY <3>1, <3>2, <3>3
    <2>5. PhasesFit'
      <3>1. \A g \in Handlers : handler'[g].srv \in {handler[g].srv, Nobody}
        BY <1>1 DEF NoHandler
      <3>2. \A d \in Conns : thread'[d].srv \in {thread[d].srv, Nobody}
        BY <2>1, <2>3 DEF NoThread
      <3> QED
        BY <1>1, <3>1, <3>2, ProcessesUntouched
    <2>6. GreetedAreNegotiated'
      BY <2>1, <2>3 DEF NoThread, GreetedAreNegotiated
    <2>7. WorkIsNegotiated' /\ LaneHeldOnce'
      BY <1>1 DEF NoHandler, WorkIsNegotiated, LaneHeldOnce
    <2>8. WaitsFit'
      BY <1>1, <1>3, <2>1, <2>3 DEF NoHandler, NoThread, WaitsFit
    <2> QED
      BY <2>4, <2>5, <2>6, <2>7, <2>8
  <1> QED
    BY <1>2, <1>3

(* The end of a process takes its threads and handlers with it. *)
LEMMA EndKeeps ==
    ASSUME NEW s \in Servers, IInv, Exit(s) \/ Kill(s)
    PROVE  IInv'
  <1> USE DaemonAssumption DEF IInv, TypeOK, ThreadsFit, RecordsTyped, Threads, Works
  <1>1. End(s)
    BY DEF Exit, Kill
  <1> USE <1>1 DEF End, Go, NoThread, NoHandler
  <1>2. RecordsTyped'
    BY DEF Methods
  <1>3. TypeOK'
    <2>1. /\ \A c \in Conns : thread'[c] \in {thread[c], NoThread}
          /\ \A h \in Handlers : handler'[h] \in {handler[h], NoHandler}
      OBVIOUS
    <2>2. /\ \A c \in Conns :
               /\ thread'[c].srv \in Servers \cup {Nobody}
               /\ thread'[c].st \in {"none", "greeting", "reading", "waiting"}
               /\ thread'[c].as = NoConnection <=> thread'[c].st \in {"none", "greeting"}
               /\ thread'[c].srv = Nobody <=> thread'[c].st = "none"
          /\ \A h \in Handlers : handler'[h].srv = Nobody <=> handler'[h].st = "none"
      BY <2>1
    <2>3. /\ lock' \in Servers \cup {Operator, Nobody} /\ phase' \in [Servers -> Phases]
          /\ db' \in [Servers -> BOOLEAN] /\ worker' \in [Servers -> {"none", "idle", "busy"}]
      BY DEF Phases
    <2> QED
      BY <1>2, <2>2, <2>3
  <1>4. PhasesFit'
    BY DEF PhasesFit, Owning, Busy
  <1>5. GreetedAreNegotiated' /\ WorkIsNegotiated'
    BY DEF GreetedAreNegotiated, WorkIsNegotiated
  <1>6. WaitsFit'
    BY DEF WaitsFit
  <1>7. LaneHeldOnce'
    BY DEF LaneHeldOnce
  <1> QED
    BY <1>2, <1>3, <1>4, <1>5, <1>6, <1>7

LEMMA InitIInv == Init => IInv
  <1> SUFFICES ASSUME Init PROVE IInv
    OBVIOUS
  <1> USE DaemonAssumption DEF Init, NoThread, NoHandler
  <1>1. RecordsTyped
    BY DEF RecordsTyped, Threads, Works, Methods
  <1>2. TypeOK
    BY DEF TypeOK, Phases, Methods
  <1>3. PhasesFit
    BY DEF PhasesFit, Owning, Busy
  <1>4. GreetedAreNegotiated /\ WorkIsNegotiated /\ WaitsFit /\ LaneHeldOnce
    BY DEF GreetedAreNegotiated, WorkIsNegotiated, WaitsFit, LaneHeldOnce
  <1> QED
    BY <1>1, <1>2, <1>3, <1>4 DEF IInv, ThreadsFit

LEMMA StepsKeep == IInv /\ [Next]_vars => IInv'
  <1>1. ASSUME IInv, UNCHANGED vars PROVE IInv'
    BY <1>1, ThreadsUntouched DEF IInv, vars, TypeOK, PhasesFit
  <1>2. ASSUME IInv, Next PROVE IInv'
    BY <1>2, ServerKeeps, OperatorKeeps, EndKeeps, AcceptKeeps, GreetKeeps, RequestKeeps,
       DeadlineKeeps, HangupKeeps, TakeHandlerLockKeeps, FinishKeeps DEF Next, Main
  <1> QED
    BY <1>1, <1>2

(* The invariant that carries the theorems below. *)
THEOREM DaemonInvariant == Spec => []IInv
  BY InitIInv, StepsKeep, PTL DEF Spec

(* ServerApplication.close keeps ownership as long as a worker, a          *)
(* connection thread or a request that is waited for may use the database, *)
(* and leaves behind only handlers that nobody waits for and that have no  *)
(* connection to write on, whatever order kills, time-outs and maintenance *)
(* come in.                                                                *)
THEOREM DatabaseHasOneOwner == Spec => []Ownership
  <1>1. IInv => WriterOwns /\ LiveThreadsKeepDatabase
    BY DEF IInv, PhasesFit, Owning, Busy, WriterOwns, LiveThreadsKeepDatabase, Connected
  <1>2. IInv => OnlyLateHandlersLeft
    <2> SUFFICES ASSUME IInv, NEW h \in Handlers, handler[h].st # "none", lock # handler[h].srv
                 PROVE  /\ handler[h].conn = Nobody /\ ~db[handler[h].srv]
                        /\ phase[handler[h].srv] = "released"
      BY DEF OnlyLateHandlersLeft
    <2>1. handler[h].srv \in Servers /\ handler[h].conn \in Conns \cup {Nobody}
      BY DEF IInv, TypeOK
    <2>2. phase[handler[h].srv] = "released" /\ ~db[handler[h].srv]
      BY <2>1 DEF IInv, PhasesFit, Owning, Busy
    <2>3. handler[h].conn = Nobody
      BY <2>1, <2>2 DEF IInv, PhasesFit, ThreadsFit, WaitsFit, Busy
    <2> QED
      BY <2>2, <2>3
  <1>3. IInv => Ownership
    BY <1>1, <1>2 DEF IInv, Ownership
  <1> QED
    BY <1>3, DaemonInvariant, PTL

(* _handler_lock and the handler's own thread record keep mutations apart  *)
(* and answers with their requests, also after _run_with_deadline gave up. *)
THEOREM HandlersStayOrderly == Spec => []HandlersOrderly
  <1>1. IInv => OneMutationAtATime
    <2> SUFFICES ASSUME IInv, NEW g \in Handlers, NEW h \in Handlers,
                        handler[g].st = "running", Exclusive(handler[g].method), db[handler[g].srv],
                        handler[h].st = "running", Exclusive(handler[h].method), db[handler[h].srv]
                 PROVE  g = h
      BY DEF OneMutationAtATime
    <2>1. handler[g].srv \in Servers /\ handler[h].srv \in Servers
      BY DEF IInv, TypeOK
    <2>2. handler[g].srv = handler[h].srv
      BY <2>1 DEF IInv, PhasesFit
    <2> QED
      BY <2>2 DEF IInv, ThreadsFit, LaneHeldOnce
  <1>2. IInv => AnswersMatch
    BY DaemonAssumption DEF IInv, ThreadsFit, WaitsFit, AnswersMatch
  <1> QED
    BY <1>1, <1>2, DaemonInvariant, PTL DEF HandlersOrderly

(* A handler runs only what negotiate_handshake granted the connection it  *)
(* was started for, on the server it runs in.                              *)
THEOREM EveryHandlerIsGranted == Spec => []WorkIsGranted
  <1>1. IInv => WorkIsGranted
    <2> SUFFICES ASSUME IInv, NEW h \in Handlers, handler[h].st # "none"
                 PROVE  LET work == handler[h]  config == Config[work.srv] IN
                        /\ RequiredCapability(work.method) \in config.capabilities
                        /\ \E line \in Lines :
                             /\ Decodes(line) /\ line.data["type"] = "handshake"
                             /\ line.data["context"]["client_id"] = work.client
                             /\ RequiredCapability(work.method) \in line.data["capabilities"]
                             /\ DOMAIN config.credentials # {} =>
                                  /\ work.client \in DOMAIN config.credentials
                                  /\ config.credentials[work.client] = Digest(CredentialOf(line.data))
      BY DEF WorkIsGranted
    <2>1. handler[h].srv \in Servers
      BY DEF IInv, TypeOK
    <2>2. PICK conn \in Negotiated[handler[h].srv] :
            handler[h].client = conn.client /\ RequiredCapability(handler[h].method) \in conn.caps
      BY DEF IInv, ThreadsFit, WorkIsNegotiated
    <2>3. PICK line \in Lines : /\ Accepts(Config[handler[h].srv], line)
                                /\ conn = Connection(Config[handler[h].srv], line.data)
      BY <2>1, NegotiationIsOnRecord
    <2>4. /\ conn.client = line.data["context"]["client_id"]
          /\ conn.caps = line.data["capabilities"] \cap Config[handler[h].srv].capabilities
      BY <2>3 DEF Connection, Capabilities
    <2> QED
      BY <2>2, <2>3, <2>4 DEF Accepts, Proven
  <1> QED
    BY <1>1, DaemonInvariant, PTL

=============================================================================
