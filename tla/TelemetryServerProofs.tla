------------------------ MODULE TelemetryServerProofs ------------------------
(* Theorems about TelemetryServer, for any workers, connections and devices. *)
(* What is proved of the pool in ThreadPoolProofs is used of the server's    *)
(* pool; the invariant adds where each socket is and how far each handler.   *)
EXTENDS TelemetryServer, SequenceTheorems, TLAPS

PoolThms == INSTANCE ThreadPoolProofs WITH
    Tasks <- Conns, stop <- pool_stop, pc <- pool_pc, arg <- task_arg

(* A worker is in handleClient exactly while it runs a task.                 *)
HandlerInv ==
    /\ owner # "push" => task_arg = None
    /\ handler \in [Workers -> HandlerPc]
    /\ \A w \in Workers : handler[w] # "idle" <=> pool_pc[w] = "run"

SocketInv ==
    /\ socket \in [Conns -> {"none", "backlog", "open", "closed"}]
    /\ SocketsOwned
    /\ \A c \in Conns : client[c] = "new" => socket[c] = "none"
    /\ DOMAIN client = Conns
    /\ main = "terminated" => owner = "destroyed" /\ \A c \in Conns : socket[c] # "backlog"

(* What a handler in InsertReadingDataDevice has in hand there.              *)
InsertInv ==
    /\ DOMAIN ins_arg = Workers
    /\ ins \in [Workers -> {"idle", "push", "notify_one"}]
    /\ accepted \in Seq(Conns)
    /\ \A w \in Workers :
           /\ handler[w] = "inserting" <=> ins[w] # "idle"
           /\ ins[w] = "push" => ins_arg[w] = cur[w]
           /\ ins[w] = "notify_one" => cur[w] \in Range(accepted)

ServerInv == PoolThms!PoolInv /\ HandlerInv /\ SocketInv /\ InsertInv /\ AckedIsKept

-----------------------------------------------------------------------------
(* The pool within the server *)

(* A step of the server is a step of its pool or leaves the pool alone.      *)
LEMMA PoolMoves == [Next]_vars => [Pool!Next]_pool
BY DEF Next, vars, Connect, SendRequest, Leave, Sigint, MainStep, TestFlag, EnterAccept, Accept,
       AcceptFails, EnqueueTask, CloseDataBase, CloseRegistry, ClosePool, WorkerStep, PoolLoop,
       Receive, SendOk, UpdateDevice, BeginInsert, InsertReading, EndTask, DataBaseWorker,
       WakeSpuriously, Pool!Next, Pool!WorkerStep, Pool!OwnerStep

LEMMA SamePool == [Pool!Next]_pool => [PoolThms!Next]_(PoolThms!vars)
<1>1. ASSUME NEW w \in Workers, Pool!WorkerStep(w) PROVE PoolThms!WorkerStep(w)
  BY <1>1 DEF Pool!WorkerStep, Pool!TakeTask, Pool!ExitLoop, Pool!FindNothing, Pool!Block,
              Pool!Finish, Pool!AtTop, Pool!WaitOver, Pool!MustReturn, Pool!Front, Pool!Popped,
              Pool!call, Pool!history,
              PoolThms!WorkerStep, PoolThms!TakeTask, PoolThms!ExitLoop, PoolThms!FindNothing,
              PoolThms!Block, PoolThms!Finish, PoolThms!AtTop, PoolThms!WaitOver,
              PoolThms!MustReturn, PoolThms!Front, PoolThms!Popped, PoolThms!call,
              PoolThms!history
<1>2. ASSUME NEW t \in Conns, Pool!Enqueue(t) PROVE PoolThms!Enqueue(t)
  BY <1>2 DEF Pool!Enqueue, Pool!Range, Pool!history,
              PoolThms!Enqueue, PoolThms!Range, PoolThms!history
<1>3. Pool!OwnerStep => PoolThms!OwnerStep
  BY DEF Pool!OwnerStep, Pool!Push, Pool!NotifyOne, Pool!SetStop, Pool!NotifyAll, Pool!Join,
         Pool!AllJoined, Pool!Waiting, Pool!call, Pool!history,
         PoolThms!OwnerStep, PoolThms!Push, PoolThms!NotifyOne, PoolThms!SetStop,
         PoolThms!NotifyAll, PoolThms!Join, PoolThms!AllJoined, PoolThms!Waiting, PoolThms!call,
         PoolThms!history
<1>4. ASSUME NEW w \in Workers, Pool!WakeSpuriously(w) PROVE PoolThms!WakeSpuriously(w)
  BY <1>4 DEF Pool!WakeSpuriously, Pool!call, Pool!history,
              PoolThms!WakeSpuriously, PoolThms!call, PoolThms!history
<1>5. Pool!Destroy => PoolThms!Destroy
  BY DEF Pool!Destroy, Pool!history, PoolThms!Destroy, PoolThms!history
<1>6. UNCHANGED pool => UNCHANGED PoolThms!vars
  BY DEF pool, PoolThms!vars, PoolThms!call, PoolThms!history
<1>. QED
  BY <1>1, <1>2, <1>3, <1>4, <1>5, <1>6 DEF Pool!Next, PoolThms!Next

LEMMA PoolInit == Init => PoolThms!PoolInv
<1>1. Pool!Init => PoolThms!Init
  BY DEF Pool!Init, PoolThms!Init
<1>. QED
  BY <1>1, PoolThms!HandInit, PoolThms!SyncInit, PoolThms!DataInit, PoolAssumption
  DEF Init, PoolThms!PoolInv

LEMMA PoolStep == PoolThms!PoolInv /\ [Next]_vars => PoolThms!PoolInv'
BY PoolMoves, SamePool, PoolThms!HandStep, PoolThms!SyncStep, PoolThms!DataStep, PoolAssumption
DEF PoolThms!PoolInv

(* What the server needs to know of its pool.                                *)
PoolFacts ==
    /\ tasks \in Seq(Conns) /\ task_arg \in Conns \cup {None}
    /\ cur \in [Workers -> Conns \cup {None}]
    /\ DOMAIN pool_pc = Workers
    /\ \A w \in Workers : pool_pc[w] = "run" <=> cur[w] # None
    /\ owner = "push" =>
           /\ task_arg \notin Range(tasks) /\ task_arg # None
           /\ \A w \in Workers : cur[w] # task_arg
    /\ \A v, w \in Workers : cur[v] # None /\ cur[v] = cur[w] => v = w
    /\ \A w \in Workers : cur[w] \notin Range(tasks)
    /\ owner = "destroyed" =>
           /\ tasks = <<>> /\ finished = Range(pushed)
           /\ \A w \in Workers : cur[w] = None

LEMMA PoolKnows == PoolThms!PoolInv => PoolFacts
<1> SUFFICES ASSUME PoolThms!PoolInv PROVE PoolFacts
  OBVIOUS
<1> USE DEF PoolThms!PoolInv, PoolThms!HandInv, PoolThms!DataInv
<1>1. /\ tasks \in Seq(Conns) /\ started \in Seq(Conns) /\ pushed \in Seq(Conns)
      /\ task_arg \in Conns \cup {None} /\ cur \in [Workers -> Conns \cup {None}]
      /\ DOMAIN pool_pc = Workers
      /\ \A w \in Workers : pool_pc[w] = "run" <=> cur[w] # None
  BY DEF PoolThms!TypeOK
<1>2. /\ \A i, j \in 1..Len(pushed) : pushed[i] = pushed[j] => i = j
      /\ owner = "push" => task_arg \in Conns /\ task_arg \notin Range(pushed)
  BY DEF PoolThms!DistinctInv, PoolThms!Range, Range
<1>3. started \o tasks = pushed
  BY DEF PoolThms!TakenInOrder
<1>4. /\ Range(started) = finished \cup {cur[w] : w \in {v \in Workers : pool_pc[v] = "run"}}
      /\ \A v, w \in Workers : pool_pc[v] = "run" /\ pool_pc[w] = "run" /\ cur[v] = cur[w] => v = w
  BY DEF PoolThms!RunByOneWorker, PoolThms!Range, Range
<1>5. /\ Len(pushed) = Len(started) + Len(tasks)
      /\ \A i \in 1..Len(started) : pushed[i] = started[i]
      /\ \A j \in 1..Len(tasks) : pushed[Len(started) + j] = tasks[j]
  BY <1>1, <1>3
<1>6. Range(started) \cap Range(tasks) = {}
  <2> SUFFICES ASSUME NEW i \in 1..Len(started), NEW j \in 1..Len(tasks), started[i] = tasks[j]
               PROVE  FALSE
    BY <1>1 DEF Range
  <2>1. i \in 1..Len(pushed) /\ Len(started) + j \in 1..Len(pushed) /\ i # Len(started) + j
    BY <1>1, <1>5
  <2>. QED
    BY <1>2, <1>5, <2>1
<1>7. Range(started) \subseteq Range(pushed) /\ Range(tasks) \subseteq Range(pushed)
  <2>1. ASSUME NEW i \in 1..Len(started) PROVE started[i] \in Range(pushed)
    <3>1. i \in 1..Len(pushed) /\ pushed[i] = started[i]
      BY <1>1, <1>5
    <3>. QED
      BY <1>1, <3>1 DEF Range
  <2>2. ASSUME NEW j \in 1..Len(tasks) PROVE tasks[j] \in Range(pushed)
    <3>1. Len(started) + j \in 1..Len(pushed) /\ pushed[Len(started) + j] = tasks[j]
      BY <1>1, <1>5
    <3>. QED
      BY <1>1, <3>1 DEF Range
  <2>3. DOMAIN started = 1..Len(started) /\ DOMAIN tasks = 1..Len(tasks)
    BY <1>1
  <2>. QED
    BY <2>1, <2>2, <2>3 DEF Range
<1>8. None \notin Range(tasks)
  BY <1>1, PoolAssumption DEF Range
<1>9. \A w \in Workers : cur[w] # None => cur[w] \in Range(started)
  BY <1>1, <1>4
<1>10. owner = "destroyed" => /\ tasks = <<>> /\ finished = Range(pushed)
                              /\ \A w \in Workers : cur[w] = None
  <2> SUFFICES ASSUME owner = "destroyed"
               PROVE  /\ tasks = <<>> /\ finished = Range(pushed)
                      /\ \A w \in Workers : cur[w] = None
    OBVIOUS
  <2>1. tasks = <<>> /\ \A w \in Workers : pool_pc[w] = "exited"
    BY PoolAssumption DEF PoolThms!SyncInv, PoolThms!ExitInv
  <2>2. pushed = started
    BY <1>1, <1>3, <2>1, ConcatEmptySeq
  <2>. QED
    BY <1>1, <1>4, <2>1, <2>2
<1>. QED
  BY <1>1, <1>2, <1>4, <1>6, <1>7, <1>8, <1>9, <1>10, PoolAssumption DEF PoolFacts

(* The sockets whose task is about to be queued, is queued or runs.          *)
Owned == ({task_arg} \cup Range(tasks) \cup {cur[w] : w \in Workers}) \ {None}

-----------------------------------------------------------------------------
(* The handlers *)

LEMMA HandlerStep == PoolFacts /\ HandlerInv /\ [Next]_vars => HandlerInv'
<1> SUFFICES ASSUME PoolFacts, HandlerInv, [Next]_vars PROVE HandlerInv'
  OBVIOUS
<1> USE DEF HandlerInv, HandlerPc
<1>1. CASE UNCHANGED <<pool, handler>>
  BY <1>1 DEF pool
<1>2. ASSUME NEW c \in Conns, Accept(c) PROVE HandlerInv'
  BY <1>2 DEF Accept, Pool!Enqueue, Pool!history
<1>3. CASE EnqueueTask
  BY <1>3 DEF EnqueueTask, Pool!Push, Pool!NotifyOne, Pool!Waiting, Pool!history, PoolFacts
<1>4. CASE CloseRegistry \/ ClosePool
  BY <1>4 DEF CloseRegistry, Pool!Destroy, ClosePool, Pool!SetStop, Pool!NotifyAll, Pool!Join,
              Pool!Waiting, Pool!history
<1>5. ASSUME NEW w \in Workers, PoolLoop(w) PROVE HandlerInv'
  BY <1>5 DEF PoolLoop, Pool!TakeTask, Pool!ExitLoop, Pool!FindNothing, Pool!Block, Pool!AtTop,
              Pool!call, Pool!history, PoolFacts
<1>6. ASSUME NEW w \in Workers, EndTask(w) PROVE HandlerInv'
  BY <1>6 DEF EndTask, Pool!Finish, Pool!call, PoolFacts
<1>7. ASSUME NEW w \in Workers, Receive(w) \/ SendOk(w) \/ UpdateDevice(w) PROVE HandlerInv'
  BY <1>7 DEF Receive, SendOk, UpdateDevice, pool
<1>8. ASSUME NEW w \in Workers, BeginInsert(w) \/ InsertReading(w) PROVE HandlerInv'
  BY <1>8 DEF BeginInsert, InsertReading, pool
<1>9. CASE WakeSpuriously
  BY <1>9 DEF WakeSpuriously, Pool!WakeSpuriously, Pool!call, Pool!history, pool, PoolFacts
<1>10. ASSUME NEW c \in Conns, Connect(c) \/ SendRequest(c) \/ Leave(c)
       PROVE  UNCHANGED <<pool, handler>>
  BY <1>10 DEF Connect, SendRequest, Leave
<1>11. CASE Sigint \/ TestFlag \/ EnterAccept \/ AcceptFails \/ CloseDataBase \/ DataBaseWorker
  BY <1>1, <1>11 DEF Sigint, TestFlag, EnterAccept, AcceptFails, CloseDataBase, DataBaseWorker
<1>12. CASE UNCHANGED vars
  BY <1>1, <1>12 DEF vars
<1>. QED
  BY <1>1, <1>2, <1>3, <1>4, <1>5, <1>6, <1>7, <1>8, <1>9, <1>10, <1>11, <1>12
  DEF Next, MainStep, WorkerStep

-----------------------------------------------------------------------------
(* The sockets *)

LEMMA OwnedAccept ==
    ASSUME PoolFacts, HandlerInv, NEW c \in Conns, Pool!Enqueue(c)
    PROVE  Owned' = Owned \cup {c}
BY PoolAssumption DEF PoolFacts, HandlerInv, Pool!Enqueue, Pool!history, Owned

(* Pushing moves a task from the hand of the main thread to the queue.       *)
LEMMA OwnedPush ==
    ASSUME PoolFacts, Pool!Push
    PROVE  Owned' = Owned
<1>1. /\ tasks' = Append(tasks, task_arg) /\ task_arg' = None /\ cur' = cur
      /\ task_arg \in Conns
  BY DEF Pool!Push, PoolFacts
<1>2. Range(tasks') = Range(tasks) \cup {task_arg}
  BY <1>1, PoolThms!RangeAppend, PoolAssumption DEF PoolFacts, PoolThms!Range, Range
<1>. QED
  BY <1>1, <1>2 DEF Owned

(* Taking moves it from the queue to a worker that had none.                 *)
LEMMA OwnedTake ==
    ASSUME PoolFacts, NEW w \in Workers, Pool!TakeTask(w)
    PROVE  Owned' = Owned
<1>1. /\ tasks # <<>> /\ cur' = [cur EXCEPT ![w] = Head(tasks)] /\ tasks' = Tail(tasks)
      /\ task_arg' = task_arg /\ cur[w] = None
  BY DEF Pool!TakeTask, Pool!AtTop, Pool!WaitOver, Pool!MustReturn, Pool!Front, Pool!Popped,
         Pool!call, PoolFacts
<1>2. Range(tasks) = {Head(tasks)} \cup Range(Tail(tasks))
  <2>1. /\ Len(tasks) \in Nat \ {0} /\ Tail(tasks) \in Seq(Conns)
        /\ Len(Tail(tasks)) = Len(tasks) - 1 /\ Head(tasks) = tasks[1]
        /\ \A i \in 1..Len(Tail(tasks)) : Tail(tasks)[i] = tasks[i + 1]
    BY <1>1, HeadTailProperties, EmptySeq DEF PoolFacts
  <2>2. \A i \in 1..Len(tasks) : i = 1 \/ (i - 1) \in 1..Len(Tail(tasks))
    BY <2>1
  <2>3. \A i \in 1..Len(Tail(tasks)) : i + 1 \in 1..Len(tasks)
    BY <2>1
  <2>4. ASSUME NEW i \in 1..Len(tasks)
        PROVE  tasks[i] \in {Head(tasks)} \cup Range(Tail(tasks))
    <3>1. CASE i = 1
      BY <2>1, <3>1
    <3>2. CASE i # 1
      <4>1. i - 1 \in 1..Len(Tail(tasks)) /\ Tail(tasks)[i - 1] = tasks[i]
        BY <2>1, <2>2, <3>2
      <4>2. DOMAIN Tail(tasks) = 1..Len(Tail(tasks))
        BY <2>1
      <4>. QED
        BY <4>1, <4>2 DEF Range
    <3>. QED
      BY <3>1, <3>2
  <2>5. \A i \in 1..Len(Tail(tasks)) : Tail(tasks)[i] \in Range(tasks)
    BY <2>1, <2>3 DEF Range, PoolFacts
  <2>6. Head(tasks) \in Range(tasks)
    BY <2>1 DEF Range, PoolFacts
  <2>7. DOMAIN tasks = 1..Len(tasks) /\ DOMAIN Tail(tasks) = 1..Len(Tail(tasks))
    BY <2>1 DEF PoolFacts
  <2>. QED
    BY <2>4, <2>5, <2>6, <2>7 DEF Range
<1>3. {cur'[v] : v \in Workers} \cup {None} = {cur[v] : v \in Workers} \cup {Head(tasks), None}
  BY <1>1 DEF PoolFacts
<1>. QED
  BY <1>1, <1>2, <1>3 DEF Owned

(* The task of a worker is nobody else's, so ending it gives up its socket.  *)
LEMMA OwnedFinish ==
    ASSUME PoolFacts, HandlerInv, NEW w \in Workers, Pool!Finish(w)
    PROVE  Owned' = Owned \ {cur[w]} /\ cur[w] \in Owned
<1>1. /\ cur' = [cur EXCEPT ![w] = None] /\ tasks' = tasks /\ task_arg' = task_arg
      /\ cur[w] # None
  BY DEF Pool!Finish, Pool!call, PoolFacts
<1>2. cur[w] \notin Range(tasks) /\ cur[w] # task_arg
  BY <1>1 DEF PoolFacts, HandlerInv
<1>3. \A v \in Workers \ {w} : cur[v] # cur[w] /\ cur'[v] = cur[v]
  BY <1>1 DEF PoolFacts
<1>4. cur'[w] = None
  BY <1>1 DEF PoolFacts
<1>5. {cur'[v] : v \in Workers} \ {None} = {cur[v] : v \in Workers} \ {None, cur[w]}
  BY <1>3, <1>4
<1>. QED
  BY <1>1, <1>2, <1>5 DEF Owned

LEMMA SocketStep == PoolFacts /\ PoolFacts' /\ HandlerInv /\ SocketInv /\ [Next]_vars => SocketInv'
<1> SUFFICES ASSUME PoolFacts, PoolFacts', HandlerInv, SocketInv, [Next]_vars PROVE SocketInv'
  OBVIOUS
<1>1. /\ socket \in [Conns -> {"none", "backlog", "open", "closed"}]
      /\ {c \in Conns : socket[c] = "open"} = Owned
      /\ \A c \in Conns : client[c] = "new" => socket[c] = "none"
      /\ DOMAIN client = Conns
      /\ main = "terminated" => owner = "destroyed" /\ \A c \in Conns : socket[c] # "backlog"
  BY DEF SocketInv, SocketsOwned, Owned
(* Who owns what, and who is new, does not change: nor does what is open.    *)
<1>2. ASSUME socket' = socket, Owned' = Owned, DOMAIN client' = Conns,
             \A c \in Conns : client'[c] = "new" => client[c] = "new",
             main' = "terminated" => main = "terminated", owner = "destroyed" => owner' = "destroyed"
      PROVE  SocketInv'
  BY <1>1, <1>2 DEF SocketInv, SocketsOwned, Owned
<1>3. ASSUME UNCHANGED <<socket, pool>>, DOMAIN client' = Conns,
             \A c \in Conns : client'[c] = "new" => client[c] = "new",
             main' = "terminated" => main = "terminated"
      PROVE  SocketInv'
  BY <1>2, <1>3 DEF pool, Owned
<1>4. ASSUME NEW c \in Conns, Connect(c) PROVE SocketInv'
  <2>1. UNCHANGED <<pool, main>> /\ client[c] = "new" /\ main # "terminated"
        /\ client' = [client EXCEPT ![c] = "connected"]
        /\ socket' = [socket EXCEPT ![c] = "backlog"]
    BY <1>4 DEF Connect
  <2>2. Owned' = Owned
    BY <2>1 DEF pool, Owned
  <2>3. {d \in Conns : socket'[d] = "open"} = {d \in Conns : socket[d] = "open"}
    BY <1>1, <2>1
  <2>. QED
    BY <1>1, <2>1, <2>2, <2>3 DEF SocketInv, SocketsOwned, Owned, pool
<1>5. ASSUME NEW c \in Conns, SendRequest(c) \/ Leave(c) PROVE SocketInv'
  BY <1>1, <1>3, <1>5 DEF SendRequest, Leave
<1>6. CASE Sigint \/ TestFlag \/ EnterAccept \/ AcceptFails \/ CloseDataBase \/ DataBaseWorker
  BY <1>1, <1>3, <1>6 DEF Sigint, TestFlag, EnterAccept, AcceptFails, CloseDataBase,
                          DataBaseWorker, clients
<1>7. ASSUME NEW c \in Conns, Accept(c) PROVE SocketInv'
  <2>1. /\ socket[c] = "backlog" /\ socket' = [socket EXCEPT ![c] = "open"]
        /\ main' = "enqueue" /\ UNCHANGED client
    BY <1>7 DEF Accept, clients
  <2>2. Owned' = Owned \cup {c}
    BY <1>7, OwnedAccept DEF Accept
  <2>3. {d \in Conns : socket'[d] = "open"} = {d \in Conns : socket[d] = "open"} \cup {c}
    BY <1>1, <2>1
  <2>. QED
    BY <1>1, <2>1, <2>2, <2>3 DEF SocketInv, SocketsOwned, Owned
<1>8. CASE EnqueueTask
  <2>1. Owned' = Owned
    BY <1>8, OwnedPush DEF EnqueueTask, Pool!NotifyOne, Pool!history, Owned
  <2>2. UNCHANGED <<socket, client>> /\ main' # "terminated" /\ owner # "destroyed"
    BY <1>8 DEF EnqueueTask, clients, Pool!Push, Pool!NotifyOne
  <2>. QED
    BY <1>1, <1>2, <2>1, <2>2
<1>9. CASE CloseRegistry
  <2>1. UNCHANGED <<socket, client, tasks, cur, task_arg>> /\ main' # "terminated"
        /\ owner # "destroyed"
    BY <1>9 DEF CloseRegistry, clients, Pool!Destroy, Pool!history
  <2>. QED
    BY <1>1, <1>2, <2>1 DEF Owned
<1>10. CASE ClosePool
  <2>1. UNCHANGED <<client, tasks, cur, task_arg>>
    BY <1>10 DEF ClosePool, clients, Pool!SetStop, Pool!NotifyAll, Pool!Join, Pool!history
  <2>2. CASE UNCHANGED <<main, socket>> /\ owner # "destroyed"
    BY <1>1, <1>2, <2>1, <2>2 DEF Owned
  <2>3. CASE /\ owner' = "destroyed"
             /\ socket' = [c \in Conns |-> IF socket[c] = "backlog" THEN "closed" ELSE socket[c]]
    <3>1. {c \in Conns : socket'[c] = "open"} = {c \in Conns : socket[c] = "open"}
      BY <1>1, <2>3
    <3>. QED
      BY <1>1, <2>1, <2>3, <3>1 DEF SocketInv, SocketsOwned, Owned
  <2>. QED
    BY <1>10, <2>2, <2>3 DEF ClosePool, Pool!SetStop, Pool!NotifyAll, Pool!Join
<1>11. ASSUME NEW w \in Workers, PoolLoop(w) PROVE SocketInv'
  <2>1. Owned' = Owned
    BY <1>11, OwnedTake DEF PoolLoop, Pool!ExitLoop, Pool!FindNothing, Pool!Block, Pool!call, Owned
  <2>2. UNCHANGED <<socket, client, main, owner>>
    BY <1>11 DEF PoolLoop, clients, Pool!TakeTask, Pool!ExitLoop, Pool!FindNothing, Pool!Block,
                 Pool!call
  <2>. QED
    BY <1>1, <1>2, <2>1, <2>2
<1>12. ASSUME NEW w \in Workers,
              Receive(w) \/ SendOk(w) \/ UpdateDevice(w) \/ BeginInsert(w) \/ InsertReading(w)
       PROVE  SocketInv'
  BY <1>1, <1>3, <1>12 DEF Receive, SendOk, UpdateDevice, BeginInsert, InsertReading, clients
<1>13. ASSUME NEW w \in Workers, EndTask(w) PROVE SocketInv'
  <2>1. /\ socket' = [socket EXCEPT ![cur[w]] = "closed"]
        /\ UNCHANGED <<client, main, owner>>
    BY <1>13 DEF EndTask, clients, Pool!Finish, Pool!call
  <2>2. Owned' = Owned \ {cur[w]} /\ cur[w] \in Owned
    BY <1>13, OwnedFinish DEF EndTask
  <2>3. cur[w] \in Conns /\ socket[cur[w]] = "open"
    BY <1>1, <2>2
  <2>4. {c \in Conns : socket'[c] = "open"} = {c \in Conns : socket[c] = "open"} \ {cur[w]}
    BY <1>1, <2>1, <2>3
  <2>. QED
    BY <1>1, <2>1, <2>2, <2>3, <2>4 DEF SocketInv, SocketsOwned, Owned
<1>14. CASE WakeSpuriously
  <2>1. UNCHANGED <<socket, client, main, owner, tasks, cur, task_arg>>
    BY <1>14 DEF WakeSpuriously, clients, Pool!WakeSpuriously, Pool!call, Pool!history, pool
  <2>. QED
    BY <1>1, <1>2, <2>1 DEF Owned
<1>15. CASE UNCHANGED vars
  BY <1>1, <1>3, <1>15 DEF vars, clients
<1>. QED
  BY <1>4, <1>5, <1>6, <1>7, <1>8, <1>9, <1>10, <1>11, <1>12, <1>13, <1>14, <1>15
  DEF Next, MainStep, WorkerStep

-----------------------------------------------------------------------------
(* The readings *)

(* What InsertInv and AckedIsKept speak of.                                  *)
held == <<handler, cur, ins, ins_arg, accepted, acked, dtor>>

ReadingInv == InsertInv /\ AckedIsKept

LEMMA ReadingSame == ReadingInv /\ UNCHANGED held => ReadingInv'
BY DEF ReadingInv, InsertInv, AckedIsKept, held

(* A worker whose handler is about to insert keeps its task and its place.   *)
LEMMA ReadingLoop ==
    ASSUME PoolFacts, HandlerInv, ReadingInv, NEW w \in Workers, PoolLoop(w) \/ EndTask(w)
    PROVE  ReadingInv'
<1>1. UNCHANGED <<ins, ins_arg, accepted, acked, dtor>>
  BY DEF PoolLoop, EndTask, record, db
<1>2. /\ handler[w] \notin {"update", "insert", "inserting"}
      /\ handler'[w] \notin {"update", "insert", "inserting"}
  BY DEF PoolLoop, EndTask, Pool!TakeTask, Pool!ExitLoop, Pool!FindNothing, Pool!Block,
         Pool!AtTop, HandlerInv, PoolFacts
<1>3. /\ \A v \in Workers \ {w} : handler'[v] = handler[v] /\ cur'[v] = cur[v]
      /\ handler' \in [Workers -> HandlerPc]
  BY DEF PoolLoop, EndTask, Pool!TakeTask, Pool!ExitLoop, Pool!FindNothing, Pool!Block,
         Pool!Finish, HandlerInv, HandlerPc, PoolFacts
<1>4. InsertInv'
  BY <1>1, <1>2, <1>3 DEF ReadingInv, InsertInv
<1>5. AckedIsKept'
  BY <1>1, <1>2, <1>3 DEF ReadingInv, AckedIsKept
<1>. QED
  BY <1>4, <1>5 DEF ReadingInv

(* "Ok" is sent before the reading is recorded, by a handler that goes on to *)
(* record it.                                                                *)
LEMMA ReadingHandler ==
    ASSUME HandlerInv, ReadingInv, NEW w \in Workers, Receive(w) \/ SendOk(w) \/ UpdateDevice(w)
    PROVE  ReadingInv'
<1>1. UNCHANGED <<cur, ins, ins_arg, accepted, dtor>>
  BY DEF Receive, SendOk, UpdateDevice, pool, db
<1>2. /\ handler[w] \in {"recv", "send", "update"}
      /\ handler'[w] \in {"send", "update", "insert", "end"}
      /\ handler[w] = "update" => handler'[w] = "insert"
      /\ acked' # acked => acked' = acked \cup {cur[w]} /\ handler'[w] = "update"
      /\ \A v \in Workers \ {w} : handler'[v] = handler[v]
  BY DEF Receive, SendOk, UpdateDevice, HandlerInv
<1>3. InsertInv'
  BY <1>1, <1>2 DEF ReadingInv, InsertInv
<1>4. AckedIsKept'
  BY <1>1, <1>2 DEF ReadingInv, AckedIsKept
<1>. QED
  BY <1>3, <1>4 DEF ReadingInv

LEMMA ReadingCall ==
    ASSUME HandlerInv, ReadingInv, NEW w \in Workers, BeginInsert(w)
    PROVE  ReadingInv'
<1>1. CASE DB!Call(w, cur[w]) /\ handler' = [handler EXCEPT ![w] = "inserting"]
  <2>1. /\ UNCHANGED <<cur, accepted, acked, dtor>> /\ handler[w] = "insert"
        /\ ins' = [ins EXCEPT ![w] = "push"] /\ ins_arg' = [ins_arg EXCEPT ![w] = cur[w]]
    BY <1>1 DEF BeginInsert, DB!Call, record, pool
  <2>. QED
    BY <1>1, <2>1 DEF ReadingInv, InsertInv, AckedIsKept, HandlerInv
<1>2. CASE dtor = "destroyed" /\ handler' = [handler EXCEPT ![w] = "end"] /\ UNCHANGED db
  <2>1. UNCHANGED <<cur, ins, ins_arg, accepted, acked, dtor>> /\ handler[w] = "insert"
    BY <1>2 DEF BeginInsert, record, pool, db
  <2>. QED
    BY <1>2, <2>1 DEF ReadingInv, InsertInv, AckedIsKept, HandlerInv
<1>. QED
  BY <1>1, <1>2 DEF BeginInsert

(* The reading is in the queue before the call returns.                      *)
LEMMA ReadingInsert ==
    ASSUME PoolFacts, HandlerInv, ReadingInv, NEW w \in Workers, InsertReading(w)
    PROVE  ReadingInv'
<1>1. UNCHANGED <<cur, acked, dtor>> /\ handler[w] = "inserting"
  BY DEF InsertReading, record, pool, DB!Push, DB!Notify, DB!CallOnDestroyed
<1>2. CASE DB!Push(w) /\ UNCHANGED handler
  <2>1. /\ accepted' = Append(accepted, cur[w]) /\ dtor # "destroyed"
        /\ ins' = [ins EXCEPT ![w] = "notify_one"] /\ ins_arg' = [ins_arg EXCEPT ![w] = None]
    BY <1>2 DEF DB!Push, ReadingInv, InsertInv
  <2>2. cur[w] \in Conns
    BY <1>1 DEF PoolFacts, HandlerInv
  <2>3. Range(accepted') = Range(accepted) \cup {cur[w]} /\ accepted' \in Seq(Conns)
    <3>1. accepted \in Seq(Conns)
      BY DEF ReadingInv, InsertInv
    <3>2. Append(accepted, cur[w]) \in Seq(Conns)
      BY <2>2, <3>1, AppendProperties
    <3>3. Range(Append(accepted, cur[w])) = Range(accepted) \cup {cur[w]}
      BY <2>2, <3>1, PoolThms!RangeAppend DEF PoolThms!Range, Range
    <3>. QED
      BY <2>1, <3>2, <3>3
  <2>4. InsertInv'
    BY <1>1, <1>2, <2>1, <2>3 DEF ReadingInv, InsertInv
  <2>5. AckedIsKept'
    BY <1>1, <1>2, <2>1, <2>3 DEF ReadingInv, AckedIsKept
  <2>. QED
    BY <2>4, <2>5 DEF ReadingInv
<1>3. CASE DB!Notify(w) /\ handler' = [handler EXCEPT ![w] = "end"]
  <2>1. ins[w] = "notify_one" /\ ins' = [ins EXCEPT ![w] = "idle"] /\ UNCHANGED <<ins_arg, accepted>>
    BY <1>3 DEF DB!Notify
  <2>2. cur[w] \in Range(accepted)
    BY <2>1 DEF ReadingInv, InsertInv
  <2>. QED
    BY <1>1, <1>3, <2>1, <2>2 DEF ReadingInv, InsertInv, AckedIsKept, HandlerInv
<1>4. CASE DB!CallOnDestroyed(w) /\ handler' = [handler EXCEPT ![w] = "end"]
  <2>1. /\ dtor = "destroyed" /\ UNCHANGED accepted
        /\ ins' = [ins EXCEPT ![w] = "idle"] /\ ins_arg' = [ins_arg EXCEPT ![w] = None]
    BY <1>4 DEF DB!CallOnDestroyed
  <2>. QED
    BY <1>1, <1>4, <2>1 DEF ReadingInv, InsertInv, AckedIsKept, HandlerInv
<1>. QED
  BY <1>2, <1>3, <1>4 DEF InsertReading

(* The writer and its destructor leave the callers and what was queued alone.*)
LEMMA ReadingDataBase ==
    ASSUME ReadingInv, CloseDataBase \/ DataBaseWorker \/ WakeSpuriously
    PROVE  ReadingInv'
<1>1. UNCHANGED <<handler, cur, ins, ins_arg, accepted, acked>>
  BY DEF CloseDataBase, DataBaseWorker, WakeSpuriously, record, pool, db, DB!SetStop,
         DB!NotifyWorker, DB!JoinAndClose, DB!WorkerStep, DB!TestStop, DB!TakeReading, DB!ExitLoop,
         DB!FindNothing, DB!Block, DB!Insert, DB!WakeSpuriously, DB!calls, DB!worker,
         Pool!WakeSpuriously
<1>2. dtor = "destroyed" => dtor' = "destroyed"
  BY DEF CloseDataBase, DataBaseWorker, WakeSpuriously, db, DB!SetStop,
         DB!NotifyWorker, DB!JoinAndClose, DB!WorkerStep, DB!TestStop, DB!TakeReading, DB!ExitLoop,
         DB!FindNothing, DB!Block, DB!Insert, DB!WakeSpuriously
<1>. QED
  BY <1>1, <1>2 DEF ReadingInv, InsertInv, AckedIsKept

LEMMA ReadingStep == PoolFacts /\ HandlerInv /\ ReadingInv /\ [Next]_vars => ReadingInv'
<1> SUFFICES ASSUME PoolFacts, HandlerInv, ReadingInv, [Next]_vars PROVE ReadingInv'
  OBVIOUS
<1>1. ASSUME NEW c \in Conns, Connect(c) \/ SendRequest(c) \/ Leave(c) \/ Accept(c)
      PROVE  UNCHANGED held
  BY <1>1 DEF Connect, SendRequest, Leave, Accept, Pool!Enqueue, held, pool, db, record
<1>2. Sigint \/ TestFlag \/ EnterAccept \/ AcceptFails \/ EnqueueTask \/ CloseRegistry \/ ClosePool
      => UNCHANGED held
  BY DEF Sigint, TestFlag, EnterAccept, AcceptFails, EnqueueTask, CloseRegistry, ClosePool,
         Pool!Push, Pool!NotifyOne, Pool!Destroy, Pool!SetStop, Pool!NotifyAll, Pool!Join,
         held, pool, db, record
<1>3. UNCHANGED vars => UNCHANGED held
  BY DEF vars, held, pool, db, record
<1>. QED
  BY <1>1, <1>2, <1>3, ReadingSame, ReadingLoop, ReadingHandler, ReadingCall, ReadingInsert,
     ReadingDataBase
  DEF Next, MainStep, WorkerStep

-----------------------------------------------------------------------------
(* Theorems *)

LEMMA Invariance == Spec => []ServerInv
<1>1. Init => ServerInv
  <2> SUFFICES ASSUME Init PROVE ServerInv
    OBVIOUS
  <2>1. PoolThms!PoolInv
    BY PoolInit
  <2>2. HandlerInv
    BY DEF Init, Pool!Init, HandlerInv, HandlerPc
  <2>3. SocketInv
    BY DEF Init, Pool!Init, SocketInv, SocketsOwned, Range
  <2>4. InsertInv /\ AckedIsKept
    BY EmptySeq DEF Init, DB!Init, InsertInv, AckedIsKept
  <2>. QED
    BY <2>1, <2>2, <2>3, <2>4 DEF ServerInv
<1>2. ServerInv /\ [Next]_vars => ServerInv'
  <2> SUFFICES ASSUME ServerInv, [Next]_vars PROVE ServerInv'
    OBVIOUS
  <2>1. PoolThms!PoolInv'
    BY PoolStep DEF ServerInv
  <2>2. PoolFacts
    BY PoolKnows DEF ServerInv
  <2>3. PoolThms!PoolInv' => PoolFacts'
    BY PoolKnows, PTL
  <2>4. HandlerInv' /\ SocketInv' /\ ReadingInv'
    BY <2>1, <2>2, <2>3, HandlerStep, SocketStep, ReadingStep DEF ServerInv, ReadingInv
  <2>. QED
    BY <2>1, <2>4 DEF ServerInv, ReadingInv
<1>. QED
  BY <1>1, <1>2, PTL DEF Spec

(* A socket is open exactly while one task on its way to a worker, or in     *)
(* one's hands, owns it: main's closure, the queue and handleClient pass it  *)
(* on without leaking or closing it, whatever is interrupted.                *)
THEOREM SocketsHaveOneOwner == Spec => []SocketsOwned
<1>1. ServerInv => SocketsOwned
  BY DEF ServerInv, SocketInv
<1>. QED
  BY <1>1, Invariance, PTL

(* A reading that handleClient acknowledged is queued for the database or in *)
(* the hands of a handler that will queue it, while the database lives.      *)
THEOREM AckedReadingsAreKept == Spec => []AckedIsKept
<1>1. ServerInv => AckedIsKept
  BY DEF ServerInv
<1>. QED
  BY <1>1, Invariance, PTL

(* When main returns, every connection accepted was handled and no socket is *)
(* open, whatever was queued when ^C came (the destructors at its end).      *)
THEOREM ServerEndsClean == Spec => []EndsClean
<1>1. ServerInv => EndsClean
  <2> SUFFICES ASSUME ServerInv, main = "terminated"
               PROVE  /\ \A c \in Conns : socket[c] \in {"none", "closed"}
                      /\ Range(pushed) = finished
    BY DEF EndsClean
  <2>1. PoolFacts /\ owner = "destroyed"
    BY PoolKnows DEF ServerInv, SocketInv
  <2>2. {c \in Conns : socket[c] = "open"} = {}
    BY <2>1 DEF ServerInv, SocketInv, SocketsOwned, HandlerInv, PoolFacts, Range
  <2>. QED
    BY <2>1, <2>2 DEF ServerInv, SocketInv, PoolFacts
<1>. QED
  BY <1>1, Invariance, PTL

-----------------------------------------------------------------------------
(* The writer within the server                                              *)

DBThms == INSTANCE DataBaseProofs WITH
    Producers <- Workers, Readings <- Conns,
    stop <- db_stop, pc <- db_pc, cur <- db_cur, arg <- ins_arg

WriterInv == DBThms!HandInv /\ DBThms!TakenInOrder /\ DBThms!NoLostWakeup

(* A step of the server is a step of its writer or leaves the writer alone:  *)
(* a handler that begins to insert has a connection in hand.                 *)
LEMMA WriterMoves == PoolFacts /\ HandlerInv /\ [Next]_vars => [DB!Next]_db
<1> SUFFICES ASSUME PoolFacts, HandlerInv, [Next]_vars PROVE [DB!Next]_db
  OBVIOUS
<1>1. ASSUME NEW w \in Workers, BeginInsert(w) PROVE [DB!Next]_db
  <2>1. cur[w] \in Conns
    BY <1>1 DEF BeginInsert, PoolFacts, HandlerInv
  <2>. QED
    BY <1>1, <2>1 DEF BeginInsert, DB!Next
<1>2. ASSUME NEW w \in Workers, InsertReading(w) PROVE [DB!Next]_db
  BY <1>2 DEF InsertReading, DB!Next, DB!ProducerStep
<1>3. CASE CloseDataBase \/ DataBaseWorker \/ WakeSpuriously
  BY <1>3 DEF CloseDataBase, DataBaseWorker, WakeSpuriously, DB!Next, DB!DtorStep
<1>. QED
  BY <1>1, <1>2, <1>3
  DEF Next, vars, Connect, SendRequest, Leave, Sigint, MainStep, TestFlag, EnterAccept, Accept,
      AcceptFails, EnqueueTask, CloseRegistry, ClosePool, WorkerStep, PoolLoop, Receive, SendOk,
      UpdateDevice, EndTask

LEMMA SameWriter == [DB!Next]_db => [DBThms!Next]_(DBThms!vars)
<1>1. ASSUME NEW w \in Workers PROVE DB!ProducerStep(w) => DBThms!ProducerStep(w)
  BY DEF DB!ProducerStep, DB!Push, DB!Notify, DB!CallOnDestroyed, DB!MutexFree, DB!Wake,
         DB!worker, DB!calls, DB!table,
         DBThms!ProducerStep, DBThms!Push, DBThms!Notify, DBThms!CallOnDestroyed,
         DBThms!MutexFree, DBThms!Wake, DBThms!worker, DBThms!calls, DBThms!table
<1>2. ASSUME NEW w \in Workers, NEW c \in Conns PROVE DB!Call(w, c) => DBThms!Call(w, c)
  BY DEF DB!Call, DB!Range, DB!worker, DB!table, DBThms!Call, DBThms!Range, DBThms!worker,
         DBThms!table
<1>3. DB!WorkerStep => DBThms!WorkerStep
  BY DEF DB!WorkerStep, DB!TestStop, DB!TakeReading, DB!ExitLoop, DB!FindNothing, DB!Block,
         DB!Insert, DB!Front, DB!calls, DB!table,
         DBThms!WorkerStep, DBThms!TestStop, DBThms!TakeReading, DBThms!ExitLoop,
         DBThms!FindNothing, DBThms!Block, DBThms!Insert, DBThms!Front, DBThms!calls,
         DBThms!table
<1>4. DB!WakeSpuriously \/ DB!SetStop \/ DB!DtorStep
      => DBThms!WakeSpuriously \/ DBThms!SetStop \/ DBThms!DtorStep
  BY DEF DB!WakeSpuriously, DB!SetStop, DB!DtorStep, DB!NotifyWorker, DB!JoinAndClose, DB!Wake,
         DB!worker, DB!calls, DB!table,
         DBThms!WakeSpuriously, DBThms!SetStop, DBThms!DtorStep, DBThms!NotifyWorker,
         DBThms!JoinAndClose, DBThms!Wake, DBThms!worker, DBThms!calls, DBThms!table
<1>5. UNCHANGED db => UNCHANGED DBThms!vars
  BY DEF db, DBThms!vars, DBThms!worker, DBThms!calls, DBThms!table
<1>. QED
  BY <1>1, <1>2, <1>3, <1>4, <1>5 DEF DB!Next, DBThms!Next

LEMMA WriterStep == PoolFacts /\ HandlerInv /\ WriterInv /\ [Next]_vars => WriterInv'
BY WriterMoves, SameWriter, DBThms!HandStep, DBThms!OrderStep, DBThms!WakeupStep,
   PoolAssumption, ServerAssumption
DEF WriterInv

LEMMA WriterInit == Init => WriterInv
<1>1. Init => DBThms!Init
  BY DEF Init, DB!Init, DBThms!Init
<1>2. DBThms!Init => DBThms!TakenInOrder /\ DBThms!NoLostWakeup
  BY DEF DBThms!Init, DBThms!TakenInOrder, DBThms!NoLostWakeup
<1>. QED
  BY <1>1, <1>2, DBThms!HandInit, PoolAssumption, ServerAssumption DEF WriterInv

-----------------------------------------------------------------------------
(* The types of what server.cpp itself keeps                                 *)

MainTypes ==
    /\ main \in MainPc
    /\ stop_flag \in BOOLEAN
    /\ signals \in 0..MaxSignals
    /\ client \in [Conns -> {"new", "connected", "sent", "gone"}]
    /\ request \in [Conns -> {"nothing", "reading", "garbage"}]

RecordTypes ==
    /\ acked \in SUBSET Conns
    /\ stamped \in Seq(Conns)
    /\ devices \in [Devices -> Conns \cup {None}]

LEMMA MainTypesStep == MainTypes /\ [Next]_vars => MainTypes'
<1> SUFFICES ASSUME MainTypes, [Next]_vars PROVE MainTypes'
  OBVIOUS
<1> USE ServerAssumption DEF MainTypes, MainPc, signal, clients
<1>1. ASSUME NEW c \in Conns, Connect(c) \/ SendRequest(c) \/ Leave(c) PROVE MainTypes'
  BY <1>1 DEF Connect, SendRequest, Leave
<1>2. CASE Sigint
  BY <1>2 DEF Sigint
<1>3. CASE MainStep
  BY <1>3 DEF MainStep, TestFlag, EnterAccept, Accept, AcceptFails, EnqueueTask, CloseDataBase,
              CloseRegistry, ClosePool
<1>4. ASSUME NEW w \in Workers, WorkerStep(w) PROVE MainTypes'
  BY <1>4 DEF WorkerStep, PoolLoop, Receive, SendOk, UpdateDevice, BeginInsert, InsertReading,
              EndTask
<1>5. CASE DataBaseWorker \/ WakeSpuriously
  BY <1>5 DEF DataBaseWorker, WakeSpuriously
<1>6. CASE UNCHANGED vars
  BY <1>6 DEF vars
<1>. QED
  BY <1>1, <1>2, <1>3, <1>4, <1>5, <1>6 DEF Next

LEMMA RecordTypesStep == PoolFacts /\ HandlerInv /\ RecordTypes /\ [Next]_vars => RecordTypes'
<1> SUFFICES ASSUME PoolFacts, HandlerInv, RecordTypes, [Next]_vars PROVE RecordTypes'
  OBVIOUS
<1>1. \A w \in Workers : handler[w] # "idle" => cur[w] \in Conns
  BY DEF PoolFacts, HandlerInv
<1>2. ASSUME NEW w \in Workers, Receive(w) PROVE RecordTypes'
  <2>1. cur[w] \in Conns
    BY <1>1, <1>2 DEF Receive
  <2>2. Append(stamped, cur[w]) \in Seq(Conns)
    BY <2>1, AppendProperties DEF RecordTypes
  <2>. QED
    BY <1>2, <2>2 DEF Receive, RecordTypes
<1>3. ASSUME NEW w \in Workers, SendOk(w) PROVE RecordTypes'
  BY <1>1, <1>3 DEF SendOk, RecordTypes
<1>4. ASSUME NEW w \in Workers, UpdateDevice(w) PROVE RecordTypes'
  <2>1. cur[w] \in Conns /\ DeviceOf[cur[w]] \in Devices
    BY <1>1, <1>4, DeviceAssumption DEF UpdateDevice
  <2>. QED
    BY <1>4, <2>1 DEF UpdateDevice, RecordTypes
<1>5. ASSUME UNCHANGED record PROVE RecordTypes'
  BY <1>5 DEF record, RecordTypes
<1>. QED
  BY <1>2, <1>3, <1>4, <1>5
  DEF Next, vars, Connect, SendRequest, Leave, Sigint, MainStep, TestFlag, EnterAccept, Accept,
      AcceptFails, EnqueueTask, CloseDataBase, CloseRegistry, ClosePool, WorkerStep, PoolLoop,
      BeginInsert, InsertReading, EndTask, DataBaseWorker, WakeSpuriously

LEMMA WholeInvariance == Spec => [](ServerInv /\ WriterInv /\ MainTypes /\ RecordTypes)
<1>1. Init => WriterInv /\ MainTypes /\ RecordTypes
  <2>1. Init => MainTypes
    <3>1. 0 \in 0..MaxSignals
      BY ServerAssumption
    <3>2. Init => /\ client = [c \in Conns |-> "new"] /\ request = [c \in Conns |-> "nothing"]
                  /\ main \in MainPc /\ stop_flag \in BOOLEAN /\ signals = 0
      BY DEF Init, MainPc
    <3>. QED
      BY <3>1, <3>2 DEF MainTypes
  <2>2. Init => RecordTypes
    BY EmptySeq DEF Init, RecordTypes
  <2>. QED
    BY <2>1, <2>2, WriterInit
<1>2. ServerInv => PoolFacts /\ HandlerInv
  BY PoolKnows DEF ServerInv
<1>3. ServerInv /\ WriterInv /\ MainTypes /\ RecordTypes /\ [Next]_vars
      => WriterInv' /\ MainTypes' /\ RecordTypes'
  BY <1>2, WriterStep, MainTypesStep, RecordTypesStep
<1>. QED
  BY <1>1, <1>3, Invariance, PTL DEF Spec

(* Every variable of the server, of its pool and of its writer keeps its     *)
(* type: in particular no handler passes on a connection it does not have.   *)
THEOREM TypeCorrect == Spec => []TypeOK
<1>1. ServerInv => Pool!TypeOK
  BY DEF ServerInv, PoolThms!PoolInv, PoolThms!HandInv, PoolThms!TypeOK, PoolThms!WorkerPc,
         PoolThms!OwnerPc, Pool!TypeOK, Pool!WorkerPc, Pool!OwnerPc
<1>2. WriterInv => DB!TypeOK
  BY DEF WriterInv, DBThms!HandInv, DBThms!TypeOK, DBThms!WorkerPc, DBThms!DtorPc, DB!TypeOK,
         DB!WorkerPc, DB!DtorPc
<1>3. ServerInv /\ WriterInv /\ MainTypes /\ RecordTypes => TypeOK
  BY <1>1, <1>2 DEF ServerInv, SocketInv, HandlerInv, MainTypes, RecordTypes, TypeOK
<1>. QED
  BY <1>3, WholeInvariance, PTL

(* Within the server, too, the writer takes the readings in the order in     *)
(* which the handlers queued them, and never sleeps while one is queued and  *)
(* no handler is about to notify it.                                         *)
THEOREM WriterKeepsItsPromises == Spec => [](DB!TakenInOrder /\ DB!NoLostWakeup)
<1>1. WriterInv => DB!TakenInOrder /\ DB!NoLostWakeup
  BY DEF WriterInv, DBThms!TakenInOrder, DBThms!NoLostWakeup, DB!TakenInOrder, DB!NoLostWakeup
<1>. QED
  BY <1>1, WholeInvariance, PTL
=============================================================================
