--------------------------- MODULE TelemetryServer ---------------------------
(* The telemetry server as a whole (server.cpp): the main thread accepts     *)
(* connections and hands each to the thread pool; a pool worker receives one *)
(* reading, acknowledges it, records it in the device registry and queues it *)
(* for the database.  On SIGINT the main thread leaves its loop and destroys *)
(* the database, the registry and the pool, in that order (the reverse of    *)
(* their declarations).  The pool and the writer are the modules ThreadPool  *)
(* and DataBase, whose actions are conjoined here with what server.cpp does. *)
(*                                                                           *)
(* A connection stands for its client, its socket, the task that handles it  *)
(* and the reading it carries: client.cpp sends one reading per connection.  *)
EXTENDS Sequences, Integers, Functions

CONSTANTS Workers,        \* the threads of the pool
          Conns,          \* the connections clients may make
          Devices,        \* the device ids
          DeviceOf,       \* the device a connection's reading is from
          None,
          MaxSignals,     \* bound: how often SIGINT is sent
          AcceptMayFail,  \* whether accept may fail other than by EINTR
          SqliteMayFail

ASSUME DeviceAssumption == DeviceOf \in [Conns -> Devices]
ASSUME ServerAssumption ==
    MaxSignals \in Nat /\ AcceptMayFail \in BOOLEAN /\ SqliteMayFail \in BOOLEAN
ASSUME PoolAssumption == Workers # {} /\ None \notin Workers /\ None \notin Conns

VARIABLES main,       \* where the main thread is
          stop_flag,
          signals,    \* how often SIGINT was sent
          client,     \* what each client is doing
          request,    \* what each client sent
          socket,     \* the server's end of each connection
          handler,    \* where each worker is in handleClient
          acked,      \* history: the connections answered with "Ok"
          stamped,    \* history: the readings, in the order of last_update_
          devices     \* devices_ of the registry: the last reading recorded

VARIABLES tasks, pool_stop, queue_mutex, pool_pc, cur, owner, task_arg,
          pushed, started, finished

VARIABLES queue, db_stop, db_pc, db_cur, ins, ins_arg, dtor, accepted, taken,
          rows, lost

pool == <<tasks, pool_stop, queue_mutex, pool_pc, cur, owner, task_arg,
          pushed, started, finished>>
db == <<queue, db_stop, db_pc, db_cur, ins, ins_arg, dtor, accepted, taken,
        rows, lost>>
signal == <<stop_flag, signals>>
clients == <<client, request>>
record == <<acked, stamped, devices>>
vars == <<main, signal, clients, socket, handler, record, pool, db>>

Pool == INSTANCE ThreadPool WITH
    Tasks <- Conns, stop <- pool_stop, pc <- pool_pc, arg <- task_arg

DB == INSTANCE DataBase WITH
    Producers <- Workers, Readings <- Conns,
    stop <- db_stop, pc <- db_pc, cur <- db_cur, arg <- ins_arg

MainPc == {"test", "call_accept", "accept", "enqueue",
           "close_db", "close_registry", "close_pool", "terminated"}
HandlerPc == {"idle", "recv", "send", "update", "insert", "inserting", "end"}

(* The server listens; the pool, the registry and the database are built.    *)
Init ==
    /\ main = "test"
    /\ stop_flag = FALSE
    /\ signals = 0
    /\ client = [c \in Conns |-> "new"]
    /\ request = [c \in Conns |-> "nothing"]
    /\ socket = [c \in Conns |-> "none"]
    /\ handler = [w \in Workers |-> "idle"]
    /\ acked = {}
    /\ stamped = <<>>
    /\ devices = [d \in Devices |-> None]
    /\ Pool!Init
    /\ DB!Init

-----------------------------------------------------------------------------
(* Clients and the terminal: client.cpp connects, sends its request and      *)
(* waits for the server to close; it may be killed at any time.              *)

Connect(c) ==
    /\ client[c] = "new"
    /\ main # "terminated"
    /\ client' = [client EXCEPT ![c] = "connected"]
    /\ socket' = [socket EXCEPT ![c] = "backlog"]
    /\ UNCHANGED <<main, signal, request, handler, record, pool, db>>

(* A reading, or bytes that ParserData refuses or throws on.                 *)
SendRequest(c) ==
    /\ client[c] = "connected"
    /\ \E r \in {"reading", "garbage"} : request' = [request EXCEPT ![c] = r]
    /\ client' = [client EXCEPT ![c] = "sent"]
    /\ UNCHANGED <<main, signal, socket, handler, record, pool, db>>

Leave(c) ==
    /\ client[c] \in {"connected", "sent"}
    /\ client' = [client EXCEPT ![c] = "gone"]
    /\ UNCHANGED <<main, signal, request, socket, handler, record, pool, db>>

(* HandleSignal runs on the main thread, which Linux prefers for a signal    *)
(* sent to the process; accept returns EINTR if that thread is blocked in it.*)
Sigint ==
    /\ signals < MaxSignals
    /\ main # "terminated"
    /\ signals' = signals + 1
    /\ stop_flag' = TRUE
    /\ main' = IF main = "accept" THEN "test" ELSE main
    /\ UNCHANGED <<clients, socket, handler, record, pool, db>>

-----------------------------------------------------------------------------
(* The main thread.  (An operator whose name ends in an underscore and a     *)
(* remark is a fault put in place of the operator it precedes.)              *)

TestFlag ==
    /\ main = "test"
    /\ main' = IF stop_flag THEN "close_db" ELSE "call_accept"
    /\ UNCHANGED <<signal, clients, socket, handler, record, pool, db>>

(* From here on a signal interrupts the call.                                *)
EnterAccept ==
    /\ main = "call_accept"
    /\ main' = "accept"
    /\ UNCHANGED <<signal, clients, socket, handler, record, pool, db>>

(* The new socket is moved into the closure that is enqueued.                *)
Accept(c) ==
    /\ main = "accept"
    /\ socket[c] = "backlog"
    /\ socket' = [socket EXCEPT ![c] = "open"]
    /\ Pool!Enqueue(c)
    /\ main' = "enqueue"
    /\ UNCHANGED <<signal, clients, handler, record, db>>

(* The exception leaves the block that owns the database, the registry and   *)
(* the pool.                                                                 *)
AcceptFails ==
    /\ AcceptMayFail
    /\ main = "accept"
    /\ main' = "close_db"
    /\ UNCHANGED <<signal, clients, socket, handler, record, pool, db>>

EnqueueTask ==
    /\ main = "enqueue"
    /\ \/ Pool!Push /\ main' = "enqueue"
       \/ Pool!NotifyOne /\ main' = "test"
    /\ UNCHANGED <<signal, clients, socket, handler, record, db>>

CloseDataBase ==
    /\ main = "close_db"
    /\ \/ (DB!SetStop \/ DB!NotifyWorker) /\ main' = "close_db"
       \/ DB!JoinAndClose /\ main' = "close_registry"
    /\ UNCHANGED <<signal, clients, socket, handler, record, pool>>

(* The registry is gone; ~ThreadPool begins.                                 *)
CloseRegistry ==
    /\ main = "close_registry"
    /\ Pool!Destroy
    /\ main' = "close_pool"
    /\ UNCHANGED <<signal, clients, socket, handler, record, db>>

(* After the join the listening socket is closed, and with it the backlog.   *)
ClosePool ==
    /\ main = "close_pool"
    /\ \/ (Pool!SetStop \/ Pool!NotifyAll) /\ UNCHANGED <<main, socket>>
       \/ /\ Pool!Join
          /\ main' = "terminated"
          /\ socket' = [c \in Conns |-> IF socket[c] = "backlog" THEN "closed" ELSE socket[c]]
    /\ UNCHANGED <<signal, clients, handler, record, db>>

-----------------------------------------------------------------------------
(* The workers: the loop of the pool around handleClient *)

PoolLoop(w) ==
    /\ \/ Pool!TakeTask(w) /\ handler' = [handler EXCEPT ![w] = "recv"]
       \/ (Pool!ExitLoop(w) \/ Pool!FindNothing(w) \/ Pool!Block(w)) /\ UNCHANGED handler
    /\ UNCHANGED <<main, signal, clients, socket, record, db>>

RegistryAlive == main \notin {"close_pool", "terminated"}

(* recv returns what the client sent, or nothing if the client left; then    *)
(* ParserData stamps the reading or refuses it.                              *)
Receive(w) ==
    /\ handler[w] = "recv"
    /\ LET c == cur[w] IN
       \/ /\ request[c] = "reading"
          /\ stamped' = Append(stamped, c)
          /\ handler' = [handler EXCEPT ![w] = "send"]
       \/ /\ request[c] = "garbage" \/ client[c] = "gone"
          /\ handler' = [handler EXCEPT ![w] = "end"]
          /\ UNCHANGED stamped
    /\ UNCHANGED <<main, signal, clients, socket, acked, devices, pool, db>>

SendOk_OnFailure(w) ==
    /\ handler[w] = "send"
    /\ acked' = acked \cup {cur[w]}
    /\ \/ handler' = [handler EXCEPT ![w] = "update"]
       \/ client[cur[w]] = "gone" /\ handler' = [handler EXCEPT ![w] = "end"]
    /\ UNCHANGED <<main, signal, clients, socket, stamped, devices, pool, db>>

SendOk(w) ==
    /\ handler[w] = "send"
    /\ \/ /\ acked' = acked \cup {cur[w]}
          /\ handler' = [handler EXCEPT ![w] = "update"]
       \/ /\ client[cur[w]] = "gone"
          /\ handler' = [handler EXCEPT ![w] = "end"]
          /\ UNCHANGED acked
    /\ UNCHANGED <<main, signal, clients, socket, stamped, devices, pool, db>>

(* UpdateDevice overwrites whatever the registry has.  On a destroyed        *)
(* registry the call is undefined; here it has no effect.                    *)
UpdateDevice(w) ==
    /\ handler[w] = "update"
    /\ devices' = IF RegistryAlive THEN [devices EXCEPT ![DeviceOf[cur[w]]] = cur[w]] ELSE devices
    /\ handler' = [handler EXCEPT ![w] = "insert"]
    /\ UNCHANGED <<main, signal, clients, socket, acked, stamped, pool, db>>

BeginInsert(w) ==
    /\ handler[w] = "insert"
    /\ \/ DB!Call(w, cur[w]) /\ handler' = [handler EXCEPT ![w] = "inserting"]
       \/ dtor = "destroyed" /\ handler' = [handler EXCEPT ![w] = "end"] /\ UNCHANGED db
    /\ UNCHANGED <<main, signal, clients, socket, record, pool>>

InsertReading(w) ==
    /\ handler[w] = "inserting"
    /\ \/ DB!Push(w) /\ UNCHANGED handler
       \/ (DB!Notify(w) \/ DB!CallOnDestroyed(w)) /\ handler' = [handler EXCEPT ![w] = "end"]
    /\ UNCHANGED <<main, signal, clients, socket, record, pool>>

EndTask_SocketLeaked(w) ==
    /\ handler[w] = "end"
    /\ handler' = [handler EXCEPT ![w] = "idle"]
    /\ Pool!Finish(w)
    /\ UNCHANGED <<main, signal, clients, socket, record, db>>

(* The task is destroyed, and the socket it owns with it.                    *)
EndTask(w) ==
    /\ handler[w] = "end"
    /\ socket' = [socket EXCEPT ![cur[w]] = "closed"]
    /\ handler' = [handler EXCEPT ![w] = "idle"]
    /\ Pool!Finish(w)
    /\ UNCHANGED <<main, signal, clients, record, db>>

DataBaseWorker ==
    /\ DB!WorkerStep
    /\ UNCHANGED <<main, signal, clients, socket, handler, record, pool>>

WakeSpuriously ==
    \/ /\ \E w \in Workers : Pool!WakeSpuriously(w)
       /\ UNCHANGED <<main, signal, clients, socket, handler, record, db>>
    \/ /\ DB!WakeSpuriously
       /\ UNCHANGED <<main, signal, clients, socket, handler, record, pool>>

-----------------------------------------------------------------------------
MainStep ==
    \/ TestFlag
    \/ EnterAccept
    \/ \E c \in Conns : Accept(c)
    \/ AcceptFails
    \/ EnqueueTask
    \/ CloseDataBase
    \/ CloseRegistry
    \/ ClosePool

WorkerStep(w) ==
    \/ PoolLoop(w)
    \/ Receive(w)
    \/ SendOk(w)
    \/ UpdateDevice(w)
    \/ BeginInsert(w)
    \/ InsertReading(w)
    \/ EndTask(w)

Next ==
    \/ \E c \in Conns : Connect(c) \/ SendRequest(c) \/ Leave(c)
    \/ Sigint
    \/ MainStep
    \/ \E w \in Workers : WorkerStep(w)
    \/ DataBaseWorker
    \/ WakeSpuriously

(* Every thread of the server that can run does.  A client that connected    *)
(* sends its request, as client.cpp does, or is killed; nobody has to        *)
(* connect or to press ^C.                                                   *)
Fairness ==
    /\ WF_vars(MainStep)
    /\ \A w \in Workers : WF_vars(WorkerStep(w))
    /\ WF_vars(DataBaseWorker)
    /\ \A c \in Conns : WF_vars(SendRequest(c))
    /\ <>[][~WakeSpuriously]_vars

Spec == Init /\ [][Next]_vars /\ Fairness

-----------------------------------------------------------------------------
(* Properties *)

(* The type invariant, with those of the pool and of the writer.             *)
TypeOK ==
    /\ main \in MainPc
    /\ stop_flag \in BOOLEAN
    /\ signals \in 0..MaxSignals
    /\ client \in [Conns -> {"new", "connected", "sent", "gone"}]
    /\ request \in [Conns -> {"nothing", "reading", "garbage"}]
    /\ socket \in [Conns -> {"none", "backlog", "open", "closed"}]
    /\ handler \in [Workers -> HandlerPc]
    /\ acked \in SUBSET Conns
    /\ stamped \in Seq(Conns)
    /\ devices \in [Devices -> Conns \cup {None}]
    /\ Pool!TypeOK
    /\ DB!TypeOK

(* An open socket is owned by exactly one party: the task being enqueued, a  *)
(* task in the queue or the task a worker runs.  So it is neither leaked nor *)
(* closed under a handler that uses it, and is closed when its task ends.    *)
SocketsOwned ==
    {c \in Conns : socket[c] = "open"} =
        ({task_arg} \cup Range(tasks) \cup {cur[w] : w \in Workers}) \ {None}

(* A reading the client was told "Ok" about is on its way to the database or *)
(* in its queue or behind it, as long as the database is alive.              *)
AckedIsKept ==
    dtor # "destroyed" =>
        \A c \in acked :
            \/ c \in Range(accepted)
            \/ \E w \in Workers : cur[w] = c /\ handler[w] \in {"update", "insert", "inserting"}

(* When the program ends every connection that was accepted has been handled *)
(* to its end and its socket is closed, whatever was queued when ^C came.    *)
EndsClean ==
    main = "terminated" =>
        /\ \A c \in Conns : socket[c] \in {"none", "closed"}
        /\ Range(pushed) = finished

(* Every connection a client makes is served to its end, as long as nobody   *)
(* stops the server (the run sends no signal).                               *)
EveryClientServed ==
    \A c \in Conns : socket[c] = "backlog" ~> socket[c] = "closed"

(* A reading the client was told "Ok" about becomes a row, as long as nobody *)
(* stops the server and SQLite does not fail.                                *)
AckedIsStored ==
    \A c \in Conns : c \in acked ~> c \in Range(rows)

-----------------------------------------------------------------------------
(* What the documentation says and the server does not do *)

(* multithreaded_telemetry_server/src/README.md:9 says that SIGINT is        *)
(* handled for a correct stop of the server: after ^C the main thread leaves *)
(* the accept loop.                                                          *)
StopIsNoticed ==
    stop_flag ~> main \in {"close_db", "close_registry", "close_pool", "terminated"}

(* The same line: while handlers still run, the registry and the database    *)
(* they hold references to exist.                                            *)
HandlersOutlived ==
    /\ dtor = "destroyed" => \A w \in Workers : handler[w] \notin {"insert", "inserting"}
    /\ ~RegistryAlive => \A w \in Workers : handler[w] # "update"

(* When a connection's reading was stamped, as a position.                   *)
Stamp(c) == CHOOSE i \in DOMAIN stamped : stamped[i] = c

(* src/README.md:25 says that the registry keeps the current reading of each *)
(* device: an older reading does not replace a newer one.                    *)
RegistryIsCurrent ==
    [][\A d \in Devices : devices[d] # None => Stamp(devices[d]) <= Stamp(devices[d])']_devices
=============================================================================
