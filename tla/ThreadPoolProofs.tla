-------------------------- MODULE ThreadPoolProofs --------------------------
(* Proofs about ThreadPool, for any set of workers and of tasks.             *)
(*                                                                           *)
(* The argument has three layers, each inductive on top of the one before.   *)
(* HandInv says what the threads hold in their local variables.  SyncInv     *)
(* speaks of the mutex, the condition variable and the flag; the absence of  *)
(* lost wake-ups and of hanging joins is part of it.  DataInv says where     *)
(* each task is.                                                             *)
EXTENDS ThreadPool, SequenceTheorems, TLAPS

(* A worker holds a task exactly while it runs it, the owner exactly while   *)
(* it is about to queue it.                                                  *)
HandInv ==
    /\ TypeOK
    /\ \A w \in Workers : pc[w] = "run" <=> cur[w] # None
    /\ owner = "push" => arg \in Tasks

(* The mutex is held across actions exactly by the worker that found nothing *)
(* to do, and such a worker saw an empty queue and no stop: neither can      *)
(* change before it is asleep.                                               *)
MutexInv ==
    \A w \in Workers :
        /\ pc[w] = "block" <=> queue_mutex = w
        /\ pc[w] = "block" => tasks = <<>> /\ ~stop

(* A worker has left its loop only if there was nothing left to do, and      *)
(* nothing can be enqueued after that; the owner sets stop_ on its way out.  *)
ExitInv ==
    /\ \A w \in Workers : pc[w] = "exited" => stop /\ tasks = <<>>
    /\ stop <=> owner \in {"notify_all", "join", "destroyed"}
    /\ owner = "destroyed" => \A w \in Workers : pc[w] = "exited"

SyncInv == MutexInv /\ ExitInv /\ NoLostWakeup /\ NoneAsleepAtJoin

(* No task is enqueued twice.                                                *)
DistinctInv ==
    /\ \A i, j \in 1..Len(pushed) : pushed[i] = pushed[j] => i = j
    /\ owner = "push" => arg \notin Range(pushed)

DataInv == DistinctInv /\ TakenInOrder /\ RunByOneWorker

-----------------------------------------------------------------------------
(* The initial state satisfies the first layer and every step keeps it.      *)
LEMMA HandInit == Init => HandInv
<1> SUFFICES ASSUME Init PROVE HandInv
    OBVIOUS
<1>1. <<>> \in Seq(Tasks)
  BY EmptySeq
<1>2. TypeOK
  BY <1>1 DEF Init, TypeOK, WorkerPc, OwnerPc
<1> QED BY <1>2 DEF Init, HandInv

(* One step of any thread keeps the first layer.                             *)
LEMMA HandStep == HandInv /\ [Next]_vars => HandInv'
<1> SUFFICES ASSUME HandInv, [Next]_vars PROVE HandInv'
    OBVIOUS
<1> USE NoneAssumption DEF HandInv, TypeOK, WorkerPc, OwnerPc
<1>1. ASSUME NEW w \in Workers, TakeTask(w) PROVE HandInv'
  <2>1. Head(tasks) \in Tasks /\ Tail(tasks) \in Seq(Tasks)
    <3>1. tasks # <<>>
      BY <1>1 DEF TakeTask, WaitOver, MustReturn
    <3> QED BY <3>1, HeadTailProperties
  <2>2. Append(started, Head(tasks)) \in Seq(Tasks)
    BY <2>1, AppendProperties
  <2> QED BY <1>1, <2>1, <2>2 DEF TakeTask, Front, Popped, call
<1>2. ASSUME NEW w \in Workers, ExitLoop(w) PROVE HandInv'
  BY <1>2 DEF ExitLoop, AtTop, call, history
<1>3. ASSUME NEW w \in Workers, FindNothing(w) PROVE HandInv'
  BY <1>3 DEF FindNothing, AtTop, call, history
<1>4. ASSUME NEW w \in Workers, Block(w) PROVE HandInv'
  BY <1>4 DEF Block, call, history
<1>5. ASSUME NEW w \in Workers, Finish(w) PROVE HandInv'
  BY <1>5 DEF Finish, call
<1>6. ASSUME NEW w \in Workers, WakeSpuriously(w) PROVE HandInv'
  BY <1>6 DEF WakeSpuriously, call, history
<1>7. ASSUME NEW t \in Tasks, Enqueue(t) PROVE HandInv'
  BY <1>7 DEF Enqueue, history
<1>8. CASE Push
  <2>1. Append(tasks, arg) \in Seq(Tasks) /\ Append(pushed, arg) \in Seq(Tasks)
    BY <1>8, AppendProperties DEF Push
  <2> QED BY <1>8, <2>1 DEF Push
<1>9. CASE NotifyOne
  BY <1>9 DEF NotifyOne, Waiting, history
<1>10. CASE Destroy \/ SetStop \/ Join
  BY <1>10 DEF Destroy, SetStop, Join, history
<1>11. CASE NotifyAll
  BY <1>11 DEF NotifyAll, Waiting, history
<1>12. CASE UNCHANGED vars
  BY <1>12 DEF vars, call, history
<1> QED
  BY <1>1, <1>2, <1>3, <1>4, <1>5, <1>6, <1>7, <1>8, <1>9, <1>10, <1>11, <1>12
  DEF Next, WorkerStep, OwnerStep

(* Every variable keeps its type: in particular no worker pops an empty      *)
(* queue and no moved-from task reaches the queue.                           *)
THEOREM TypeCorrect == Spec => []TypeOK
<1>1. HandInv => TypeOK
  BY DEF HandInv
<1> QED BY <1>1, HandInit, HandStep, PTL DEF Spec

-----------------------------------------------------------------------------
(* The second layer holds initially: all workers are at the top of the loop. *)
LEMMA SyncInit == Init => SyncInv
BY NoneAssumption, WorkersAssumption
DEF Init, SyncInv, MutexInv, ExitInv, NoLostWakeup, NoneAsleepAtJoin

(* A step changes the queue or the flag only with the mutex free, when no    *)
(* worker is on its way to sleep; so no wake-up is lost.                     *)
LEMMA SyncStep == HandInv /\ SyncInv /\ [Next]_vars => SyncInv'
<1> SUFFICES ASSUME HandInv, SyncInv, [Next]_vars PROVE SyncInv'
    OBVIOUS
<1> USE NoneAssumption DEF HandInv, TypeOK, WorkerPc, OwnerPc,
        SyncInv, MutexInv, ExitInv, NoLostWakeup, NoneAsleepAtJoin
<1>1. ASSUME NEW w \in Workers, TakeTask(w) PROVE SyncInv'
  BY <1>1 DEF TakeTask, WaitOver, MustReturn, AtTop, call
<1>2. ASSUME NEW w \in Workers, ExitLoop(w) PROVE SyncInv'
  BY <1>2 DEF ExitLoop, MustReturn, AtTop, call, history
<1>3. ASSUME NEW w \in Workers, FindNothing(w) PROVE SyncInv'
  BY <1>3 DEF FindNothing, WaitOver, AtTop, call, history
<1>4. ASSUME NEW w \in Workers, Block(w) PROVE SyncInv'
  BY <1>4 DEF Block, call, history
<1>5. ASSUME NEW w \in Workers, Finish(w) PROVE SyncInv'
  BY <1>5 DEF Finish, call
<1>6. ASSUME NEW w \in Workers, WakeSpuriously(w) PROVE SyncInv'
  BY <1>6 DEF WakeSpuriously, call, history
<1>7. ASSUME NEW t \in Tasks, Enqueue(t) PROVE SyncInv'
  BY <1>7 DEF Enqueue, history
<1>8. CASE Push
  BY <1>8 DEF Push
<1>9. CASE NotifyOne
  BY <1>9, WorkersAssumption DEF NotifyOne, Waiting, history
<1>10. CASE Destroy \/ SetStop
  BY <1>10 DEF Destroy, SetStop, history
<1>11. CASE NotifyAll
  BY <1>11 DEF NotifyAll, Waiting, history
<1>12. CASE Join
  BY <1>12 DEF Join, AllJoined, history
<1>13. CASE UNCHANGED vars
  BY <1>13 DEF vars, call, history
<1> QED
  BY <1>1, <1>2, <1>3, <1>4, <1>5, <1>6, <1>7, <1>8, <1>9, <1>10, <1>11,
     <1>12, <1>13
  DEF Next, WorkerStep, OwnerStep

(* A queued task always has a worker that will look at the queue, or an      *)
(* owner that is about to notify one.                                        *)
THEOREM NoWakeupIsLost == Spec => []NoLostWakeup
<1>1. SyncInv => NoLostWakeup
  BY DEF SyncInv
<1> QED BY <1>1, HandInit, HandStep, SyncInit, SyncStep, PTL DEF Spec

(* The joins of ~ThreadPool never wait for a worker that sleeps.             *)
THEOREM JoinsDoNotHang == Spec => []NoneAsleepAtJoin
<1>1. SyncInv => NoneAsleepAtJoin
  BY DEF SyncInv
<1> QED BY <1>1, HandInit, HandStep, SyncInit, SyncStep, PTL DEF Spec

-----------------------------------------------------------------------------
(* Facts about the sequences the data layer speaks of.                       *)

(* Appending adds one element to the range.                                  *)
LEMMA RangeAppend ==
    ASSUME NEW S, NEW s \in Seq(S), NEW e \in S
    PROVE  Range(Append(s, e)) = Range(s) \cup {e}
<1> DEFINE a == Append(s, e)
<1>1. /\ DOMAIN a = 1..(Len(s) + 1) /\ DOMAIN s = 1..Len(s)
      /\ Len(s) \in Nat
      /\ \A i \in 1..Len(s) : a[i] = s[i]
      /\ a[Len(s) + 1] = e
  BY AppendProperties, LenProperties
<1> HIDE DEF a
<1>2. Range(a) \subseteq Range(s) \cup {e}
  BY <1>1 DEF Range
<1>3. Range(s) \cup {e} \subseteq Range(a)
  BY <1>1 DEF Range
<1> QED BY <1>2, <1>3 DEF a

(* A sequence without repetitions stays so when a new element is appended.   *)
LEMMA AppendNew ==
    ASSUME NEW S, NEW s \in Seq(S), NEW e \in S, e \notin Range(s),
           \A i, j \in 1..Len(s) : s[i] = s[j] => i = j
    PROVE  \A i, j \in 1..Len(Append(s, e)) : Append(s, e)[i] = Append(s, e)[j] => i = j
<1> DEFINE a == Append(s, e)
           n == Len(s)
<1>1. /\ n \in Nat /\ Len(a) = n + 1 /\ DOMAIN s = 1..n
      /\ \A i \in 1..n : a[i] = s[i]
      /\ a[n + 1] = e
  BY AppendProperties, LenProperties
<1>2. \A i \in 1..n : s[i] # e
  BY <1>1 DEF Range
<1> HIDE DEF a
<1>3. \A i, j \in 1..n : a[i] = a[j] => i = j
  BY <1>1
<1> HIDE DEF n
<1>4. \A i, j \in 1..(n + 1) : a[i] = a[j] => i = j
  BY <1>1, <1>2, <1>3
<1> QED BY <1>1, <1>4 DEF a

(* Moving the head of the queue to the end of the started tasks leaves the   *)
(* concatenation as it was.                                                  *)
LEMMA MoveHead ==
    ASSUME NEW S, NEW s \in Seq(S), NEW q \in Seq(S), q # <<>>
    PROVE  Append(s, Head(q)) \o Tail(q) = s \o q
<1>1. Head(q) \in S /\ Tail(q) \in Seq(S) /\ <<Head(q)>> \in Seq(S)
  BY HeadTailProperties
<1>2. Append(s, Head(q)) = s \o <<Head(q)>>
  BY <1>1, AppendIsConcat
<1>3. q = <<Head(q)>> \o Tail(q)
  <2> DEFINE h == <<Head(q)>>
             r == h \o Tail(q)
  <2>1. Len(h) = 1 /\ h[1] = Head(q)
    OBVIOUS
  <2>2. Len(q) \in Nat \ {0} /\ Len(Tail(q)) = Len(q) - 1 /\ Head(q) = q[1]
    BY EmptySeq, HeadTailProperties
  <2>3. \A i \in 1..Len(q) - 1 : Tail(q)[i] = q[i + 1]
    BY <2>2, HeadTailProperties
  <2>4. r \in Seq(S) /\ Len(r) = Len(q)
    BY <1>1, <2>1, <2>2, ConcatProperties
  <2>5. \A i \in 1..Len(q) : r[i] = IF i <= 1 THEN h[i] ELSE Tail(q)[i - 1]
    BY <1>1, <2>1, <2>2, ConcatProperties
  <2>6. \A i \in 1..Len(q) : r[i] = q[i]
    <3> HIDE DEF r, h
    <3> QED BY <2>1, <2>2, <2>3, <2>5
  <2> HIDE DEF r
  <2>7. r = q
    BY <2>4, <2>6, SeqEqual
  <2> QED BY <2>7 DEF r
<1> QED BY <1>1, <1>2, <1>3, ConcatAssociative

(* In a sequence without repetitions a prefix and the rest are disjoint.     *)
LEMMA HeadIsNew ==
    ASSUME NEW S, NEW s \in Seq(S), NEW q \in Seq(S), q # <<>>,
           \A i, j \in 1..Len(s \o q) : (s \o q)[i] = (s \o q)[j] => i = j
    PROVE  Head(q) \notin Range(s)
<1>1. Len(s) \in Nat /\ Len(q) \in Nat \ {0} /\ DOMAIN s = 1..Len(s)
  BY LenProperties, EmptySeq
<1>2. Len(s \o q) = Len(s) + Len(q)
  BY ConcatProperties
<1>3. (s \o q)[Len(s) + 1] = Head(q)
  BY <1>1, ConcatProperties
<1>4. \A i \in 1..Len(s) : (s \o q)[i] = s[i]
  BY <1>1, ConcatProperties
<1> QED BY <1>1, <1>2, <1>3, <1>4 DEF Range

-----------------------------------------------------------------------------
(* The third layer holds of the empty pool.                                  *)
LEMMA DataInit == Init => DataInv
<1> SUFFICES ASSUME Init PROVE DataInv
    OBVIOUS
<1>1. Range(<<>>) = {}
  BY DEF Range
<1>2. <<>> \o <<>> = <<>> /\ Len(<<>>) = 0
  BY EmptySeq, ConcatEmptySeq
<1> QED
  BY <1>1, <1>2
  DEF Init, DataInv, DistinctInv, TakenInOrder, RunByOneWorker

(* Only TakeTask, Finish and Push move a task; each keeps every task in one  *)
(* place.                                                                    *)
LEMMA DataStep == HandInv /\ DataInv /\ [Next]_vars => DataInv'
<1> SUFFICES ASSUME HandInv, DataInv, [Next]_vars PROVE DataInv'
    OBVIOUS
<1> USE NoneAssumption DEF HandInv, TypeOK, WorkerPc, OwnerPc,
        DataInv, DistinctInv, TakenInOrder, RunByOneWorker
<1> DEFINE Held == {cur[w] : w \in {v \in Workers : pc[v] = "run"}}
<1>1. ASSUME NEW w \in Workers, TakeTask(w) PROVE DataInv'
  <2> DEFINE t == Head(tasks)
  <2>1. tasks # <<>> /\ t \in Tasks /\ pc[w] = "lock"
    BY <1>1, HeadTailProperties DEF TakeTask, WaitOver, MustReturn, AtTop
  <2>2. TakenInOrder'
    <3>1. started' \o tasks' = Append(started, Head(tasks)) \o Tail(tasks)
      BY <1>1 DEF TakeTask, Front, Popped
    <3>2. started \in Seq(Tasks) /\ tasks \in Seq(Tasks)
      OBVIOUS
    <3>3. Append(started, Head(tasks)) \o Tail(tasks) = started \o tasks
      BY ONLY <2>1, <3>2, MoveHead
    <3>4. pushed' = pushed
      BY <1>1 DEF TakeTask
    <3> QED BY <3>1, <3>3, <3>4
  <2>3. t \notin Range(started)
    BY <2>1, HeadIsNew
  <2>4. /\ pc' = [pc EXCEPT ![w] = "run"] /\ cur' = [cur EXCEPT ![w] = t]
        /\ finished' = finished /\ pushed' = pushed /\ owner' = owner /\ arg' = arg
        /\ Range(started') = Range(started) \cup {t}
    BY <1>1, <2>1, RangeAppend DEF TakeTask, Front, call
  <2> HIDE DEF t
  <2>5. Held' = Held \cup {t}
    <3>1. Held' \subseteq Held \cup {t}
      BY <2>4
    <3>2. Held \cup {t} \subseteq Held'
      BY <2>1, <2>4
    <3> QED BY <3>1, <3>2
  <2>6. RunByOneWorker'
    <3>1. \A v \in Workers : pc[v] = "run" => cur[v] # t
      BY <2>3
    <3>2. t \notin finished
      BY <2>3
    <3> QED BY <2>1, <2>4, <2>5, <3>1, <3>2
  <2> QED BY <2>2, <2>4, <2>6
<1>2. ASSUME NEW w \in Workers, Finish(w) PROVE DataInv'
  <2>1. /\ pc[w] = "run" /\ pc' = [pc EXCEPT ![w] = "lock"]
        /\ cur' = [cur EXCEPT ![w] = None] /\ finished' = finished \cup {cur[w]}
    BY <1>2 DEF Finish
  <2>2. Held' = Held \ {cur[w]}
    BY <2>1
  <2>3. RunByOneWorker'
    BY <1>2, <2>1, <2>2 DEF Finish
  <2> QED BY <1>2, <2>3 DEF Finish, call
<1>3. ASSUME NEW w \in Workers,
             ExitLoop(w) \/ FindNothing(w) \/ Block(w) \/ WakeSpuriously(w)
      PROVE  DataInv'
  <2>1. /\ pc[w] # "run" /\ pc'[w] # "run"
        /\ \A v \in Workers : v # w => pc'[v] = pc[v]
        /\ UNCHANGED <<tasks, cur, owner, arg, pushed, started, finished>>
    BY <1>3 DEF ExitLoop, FindNothing, Block, WakeSpuriously, AtTop, call, history
  <2>2. {v \in Workers : pc'[v] = "run"} = {v \in Workers : pc[v] = "run"}
    BY <2>1
  <2> QED BY <2>1, <2>2
<1>4. ASSUME NEW t \in Tasks, Enqueue(t) PROVE DataInv'
  BY <1>4 DEF Enqueue, history
<1>5. CASE Push
  <2>1. arg \in Tasks /\ arg \notin Range(pushed)
    BY <1>5 DEF Push
  <2>2. TakenInOrder'
    <3>1. /\ Append(tasks, arg) = tasks \o <<arg>>
          /\ Append(started \o tasks, arg) = (started \o tasks) \o <<arg>>
          /\ <<arg>> \in Seq(Tasks)
      BY <2>1, AppendIsConcat, ConcatProperties
    <3> QED BY <1>5, <3>1, ConcatAssociative DEF Push
  <2>3. pushed \in Seq(Tasks) /\ \A i, j \in 1..Len(pushed) : pushed[i] = pushed[j] => i = j
    OBVIOUS
  <2>4. pushed' = Append(pushed, arg)
    BY <1>5 DEF Push
  <2>5. \A i, j \in 1..Len(pushed') : pushed'[i] = pushed'[j] => i = j
    BY ONLY <2>1, <2>3, <2>4, AppendNew
  <2> QED BY <1>5, <2>2, <2>5 DEF Push
<1>6. CASE NotifyOne \/ NotifyAll
  <2>1. /\ \A v \in Workers : pc[v] = "run" <=> pc'[v] = "run"
        /\ owner' # "push"
        /\ UNCHANGED <<tasks, cur, pushed, started, finished>>
    BY <1>6 DEF NotifyOne, NotifyAll, Waiting, history
  <2>2. {v \in Workers : pc'[v] = "run"} = {v \in Workers : pc[v] = "run"}
    BY <2>1
  <2>3. DistinctInv' /\ TakenInOrder'
    BY <2>1
  <2>4. RunByOneWorker'
    BY <2>1, <2>2
  <2> QED BY <2>3, <2>4
<1>7. CASE Destroy \/ SetStop \/ Join
  <2>1. owner' # "push" /\ UNCHANGED <<pc, tasks, cur, pushed, started, finished>>
    BY <1>7 DEF Destroy, SetStop, Join, history
  <2> QED BY <2>1
<1>8. CASE UNCHANGED vars
  BY <1>8 DEF vars, call, history
<1> QED
  BY <1>1, <1>2, <1>3, <1>4, <1>5, <1>6, <1>7, <1>8
  DEF Next, WorkerStep, OwnerStep

(* Workers that pop concurrently neither skip, repeat nor reorder a task.    *)
THEOREM TasksTakenInOrder == Spec => []TakenInOrder
<1>1. DataInv => TakenInOrder
  BY DEF DataInv
<1> QED BY <1>1, HandInit, HandStep, DataInit, DataStep, PTL DEF Spec

(* A task that was popped is run by one worker, and once.                    *)
THEOREM TasksRunOnce == Spec => []RunByOneWorker
<1>1. DataInv => RunByOneWorker
  BY DEF DataInv
<1> QED BY <1>1, HandInit, HandStep, DataInit, DataStep, PTL DEF Spec

(* The three layers together.                                                *)
PoolInv == HandInv /\ SyncInv /\ DataInv

(* The three layers hold in every state the pool can reach.                  *)
LEMMA PoolInvariance == Spec => []PoolInv
<1>1. Init => PoolInv
  BY HandInit, SyncInit, DataInit DEF PoolInv
<1>2. PoolInv /\ [Next]_vars => PoolInv'
  BY HandStep, SyncStep, DataStep DEF PoolInv
<1> QED BY <1>1, <1>2, PTL DEF Spec

(* ~ThreadPool returns only after every enqueued task has run.               *)
THEOREM DestructorDrains == Spec => []DrainedWhenDestroyed
<1>1. PoolInv => DrainedWhenDestroyed
  <2> SUFFICES ASSUME PoolInv, owner = "destroyed"
               PROVE  tasks = <<>> /\ finished = Range(pushed)
      BY DEF DrainedWhenDestroyed
  <2>1. tasks = <<>> /\ \A w \in Workers : pc[w] = "exited"
    BY WorkersAssumption DEF PoolInv, SyncInv, ExitInv
  <2>2. pushed = started
    BY <2>1, ConcatEmptySeq DEF PoolInv, HandInv, TypeOK, DataInv, TakenInOrder
  <2>3. finished = Range(started)
    BY <2>1 DEF PoolInv, DataInv, RunByOneWorker
  <2> QED BY <2>1, <2>2, <2>3
<1> QED BY <1>1, PoolInvariance, PTL

-----------------------------------------------------------------------------
(* The safety part of ImplementsExecutor *)

(* A new pool is an empty executor.                                          *)
LEMMA ExecutorInit == Init => Executor!Init
BY DEF Init, Executor!Init

(* Every step of the pool is a step of the executor or changes nothing it    *)
(* speaks of.                                                                *)
LEMMA ExecutorStep ==
    PoolInv /\ [Next]_vars => [Executor!Next]_(Executor!vars)
<1> SUFFICES ASSUME PoolInv, [Next]_vars PROVE [Executor!Next]_(Executor!vars)
    OBVIOUS
<1> USE DEF PoolInv, HandInv, TypeOK
<1>1. ASSUME NEW w \in Workers, TakeTask(w) PROVE Executor!Start(w)
  BY <1>1 DEF TakeTask, WaitOver, MustReturn, AtTop, Front, Popped, call, Executor!Start
<1>2. ASSUME NEW w \in Workers, Finish(w) PROVE Executor!Complete(w)
  BY <1>2 DEF Finish, call, Executor!Complete
<1>3. CASE Push
  <2>1. arg \in Tasks /\ arg \notin Range(pushed)
    BY <1>3 DEF Push, DataInv, DistinctInv
  <2>2. Range(pushed) = Range(started) \cup Range(tasks)
    <3>1. started \in Seq(Tasks) /\ tasks \in Seq(Tasks) /\ pushed = started \o tasks
      BY DEF DataInv, TakenInOrder
    <3> QED BY ONLY <3>1, RangeConcatenation
  <2>3. Executor!Running \subseteq Range(started)
    BY DEF Executor!Running, DataInv, RunByOneWorker
  <2>4. finished \subseteq Range(started)
    BY DEF DataInv, RunByOneWorker
  <2>5. ~stop
    BY <1>3 DEF Push, SyncInv, ExitInv
  <2>6. Executor!Submit(arg)
    <3>1. arg \notin Range(tasks) \cup Executor!Running \cup finished
      BY <2>1, <2>2, <2>3, <2>4
    <3>2. /\ owner = "push" /\ owner' = "notify_one"
          /\ tasks' = Append(tasks, arg)
          /\ stop' = stop /\ cur' = cur /\ finished' = finished
      BY <1>3 DEF Push
    <3>3. Executor!Range(tasks) = Range(tasks)
      BY DEF Range, Executor!Range
    <3> QED BY ONLY <2>5, <3>1, <3>2, <3>3 DEF Executor!Submit
  <2> QED BY <2>1, <2>6 DEF Executor!Next
<1>4. CASE SetStop
  <2>1. ~stop
    BY <1>4 DEF SetStop, SyncInv, ExitInv
  <2> QED BY <1>4, <2>1 DEF SetStop, history, Executor!Next, Executor!BeginClose
<1>5. CASE Join
  <2>1. stop /\ tasks = <<>> /\ \A w \in Workers : pc[w] = "exited"
    BY <1>5, WorkersAssumption DEF Join, AllJoined, SyncInv, ExitInv
  <2>2. Executor!Running = {}
    BY <2>1 DEF Executor!Running
  <2> QED BY <1>5, <2>1, <2>2 DEF Join, history, Executor!Next, Executor!Close
<1>6. ASSUME NEW w \in Workers,
             ExitLoop(w) \/ FindNothing(w) \/ Block(w) \/ WakeSpuriously(w)
      PROVE  UNCHANGED Executor!vars
  BY <1>6 DEF ExitLoop, FindNothing, Block, WakeSpuriously, call, history, Executor!vars
<1>7. ASSUME NEW t \in Tasks, Enqueue(t) PROVE UNCHANGED Executor!vars
  BY <1>7 DEF Enqueue, history, Executor!vars
<1>8. CASE NotifyOne \/ Destroy \/ NotifyAll
  BY <1>8 DEF NotifyOne, Destroy, NotifyAll, history, Executor!vars
<1>9. CASE UNCHANGED vars
  BY <1>9 DEF vars, call, history, Executor!vars
<1> QED
  BY <1>1, <1>2, <1>3, <1>4, <1>5, <1>6, <1>7, <1>8, <1>9
  DEF Next, WorkerStep, OwnerStep, Executor!Next

(* Whatever the threads do, the pool behaves like the abstract executor: it  *)
(* starts accepted tasks in order and once, and closes only when drained.    *)
THEOREM PoolRefinesExecutor == Spec => Executor!Init /\ [][Executor!Next]_(Executor!vars)
BY ExecutorInit, ExecutorStep, PoolInvariance, PTL DEF Spec

=============================================================================
