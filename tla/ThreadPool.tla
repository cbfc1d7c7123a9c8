----------------------------- MODULE ThreadPool -----------------------------
(* The thread pool of the telemetry server (thread_pool.h): num_threads      *)
(* workers share a FIFO of packaged tasks behind one mutex and one           *)
(* condition variable; the thread that owns the pool enqueues tasks and      *)
(* finally destroys the pool.                                                *)
(*                                                                           *)
(* Granularity.  A critical section that the code enters and leaves without  *)
(* blocking is one action guarded by queue_mutex = None.  The one critical   *)
(* section that is split is the wait of a worker: it finds the predicate     *)
(* false (FindNothing) and then, still holding the mutex, releases it and    *)
(* blocks (Block).  A wake-up that could fall between the two would be lost, *)
(* and whether it can is what the mutex decides.                             *)
EXTENDS Sequences, Integers, Functions

CONSTANTS Workers,   \* the threads of threads_
          Tasks,     \* the tasks the owner may enqueue, each at most once
          None       \* no thread, no task

ASSUME WorkersAssumption == Workers # {}
ASSUME NoneAssumption == None \notin Workers /\ None \notin Tasks

VARIABLES tasks,        \* tasks_
          stop,         \* stop_
          queue_mutex,  \* the worker that holds queue_mutex_ across actions
          pc,           \* where each worker is in its loop
          cur,          \* the local variable task of each worker
          owner,        \* where the owning thread is in enqueue or ~ThreadPool
          arg,          \* the task being enqueued
          pushed,       \* history: the tasks in the order they were queued
          started,      \* history: the tasks in the order workers took them
          finished      \* history: the tasks that have run

call == <<owner, arg>>
history == <<pushed, started, finished>>
vars == <<tasks, stop, queue_mutex, pc, cur, call, history>>

WorkerPc == {"lock", "block", "waiting", "run", "exited"}
OwnerPc == {"idle", "push", "notify_one", "set_stop", "notify_all", "join", "destroyed"}

Waiting == {w \in Workers : pc[w] = "waiting"}

(* The constructor: every worker starts at the top of its loop.              *)
Init ==
    /\ tasks = <<>>
    /\ stop = FALSE
    /\ queue_mutex = None
    /\ pc = [w \in Workers |-> "lock"]
    /\ cur = [w \in Workers |-> None]
    /\ owner = "idle"
    /\ arg = None
    /\ pushed = <<>>
    /\ started = <<>>
    /\ finished = {}

-----------------------------------------------------------------------------
(* The worker loop.  An operator whose name ends in an underscore and a      *)
(* remark is not part of the model: it is a fault put in place of the        *)
(* operator it precedes, to see that a property notices it.                  *)

(* The predicate of cv_.wait.                                                *)
WaitOver == tasks # <<>> \/ stop

MustReturn_Undrained == stop

(* The test that ends a worker's loop: told to stop, and nothing left.       *)
MustReturn == stop /\ tasks = <<>>

Front_Newest == tasks[Len(tasks)]

Front == Head(tasks)

Popped == Tail(tasks)

AtTop(w) == pc[w] = "lock" /\ queue_mutex = None

(* The predicate of the wait holds and a task is there: take the front.      *)
TakeTask(w) ==
    /\ AtTop(w)
    /\ WaitOver
    /\ ~MustReturn
    /\ cur' = [cur EXCEPT ![w] = Front]
    /\ started' = Append(started, Front)
    /\ tasks' = Popped
    /\ pc' = [pc EXCEPT ![w] = "run"]
    /\ UNCHANGED <<stop, queue_mutex, call, pushed, finished>>

(* The predicate holds because of stop_ alone: the thread returns.           *)
ExitLoop(w) ==
    /\ AtTop(w)
    /\ WaitOver
    /\ MustReturn
    /\ pc' = [pc EXCEPT ![w] = "exited"]
    /\ UNCHANGED <<tasks, stop, queue_mutex, cur, call, history>>

(* The predicate is false; the mutex is held until the thread blocks.        *)
FindNothing(w) ==
    /\ AtTop(w)
    /\ ~WaitOver
    /\ queue_mutex' = w
    /\ pc' = [pc EXCEPT ![w] = "block"]
    /\ UNCHANGED <<tasks, stop, cur, call, history>>

(* cv_.wait releases the mutex and blocks in one step.                       *)
Block(w) ==
    /\ pc[w] = "block"
    /\ queue_mutex' = None
    /\ pc' = [pc EXCEPT ![w] = "waiting"]
    /\ UNCHANGED <<tasks, stop, cur, call, history>>

(* A condition variable may wake a thread that nobody notified.              *)
WakeSpuriously(w) ==
    /\ pc[w] = "waiting"
    /\ pc' = [pc EXCEPT ![w] = "lock"]
    /\ UNCHANGED <<tasks, stop, queue_mutex, cur, call, history>>

(* task() returns (what it throws stays in its future) and task is destroyed.*)
Finish(w) ==
    /\ pc[w] = "run"
    /\ finished' = finished \cup {cur[w]}
    /\ cur' = [cur EXCEPT ![w] = None]
    /\ pc' = [pc EXCEPT ![w] = "lock"]
    /\ UNCHANGED <<tasks, stop, queue_mutex, call, pushed, started>>

-----------------------------------------------------------------------------
(* The owning thread: enqueue and the destructor *)

(* enqueue wraps its argument; each connection is enqueued once.             *)
Enqueue(t) ==
    /\ owner = "idle"
    /\ t \notin Range(pushed)
    /\ arg' = t
    /\ owner' = "push"
    /\ UNCHANGED <<tasks, stop, queue_mutex, pc, cur, history>>

Push ==
    /\ owner = "push"
    /\ queue_mutex = None
    /\ tasks' = Append(tasks, arg)
    /\ pushed' = Append(pushed, arg)
    /\ arg' = None
    /\ owner' = "notify_one"
    /\ UNCHANGED <<stop, queue_mutex, pc, cur, started, finished>>

NotifyOne_Forgotten ==
    /\ owner = "notify_one"
    /\ owner' = "idle"
    /\ UNCHANGED <<tasks, stop, queue_mutex, pc, cur, arg, history>>

(* notify_one wakes some blocked worker, and nobody if none is blocked.      *)
NotifyOne ==
    /\ owner = "notify_one"
    /\ \/ Waiting = {} /\ pc' = pc
       \/ \E w \in Waiting : pc' = [pc EXCEPT ![w] = "lock"]
    /\ owner' = "idle"
    /\ UNCHANGED <<tasks, stop, queue_mutex, cur, arg, history>>

Destroy ==
    /\ owner = "idle"
    /\ owner' = "set_stop"
    /\ UNCHANGED <<tasks, stop, queue_mutex, pc, cur, arg, history>>

SetStop_Unlocked ==
    /\ owner = "set_stop"
    /\ stop' = TRUE
    /\ owner' = "notify_all"
    /\ UNCHANGED <<tasks, queue_mutex, pc, cur, arg, history>>

SetStop ==
    /\ owner = "set_stop"
    /\ queue_mutex = None
    /\ stop' = TRUE
    /\ owner' = "notify_all"
    /\ UNCHANGED <<tasks, queue_mutex, pc, cur, arg, history>>

NotifyAll ==
    /\ owner = "notify_all"
    /\ pc' = [w \in Workers |-> IF w \in Waiting THEN "lock" ELSE pc[w]]
    /\ owner' = "join"
    /\ UNCHANGED <<tasks, stop, queue_mutex, cur, arg, history>>

AllJoined_FirstOnly == \E w \in Workers : pc[w] = "exited"

AllJoined == \A w \in Workers : pc[w] = "exited"

(* The last join returns once every thread has returned.                     *)
Join ==
    /\ owner = "join"
    /\ AllJoined
    /\ owner' = "destroyed"
    /\ UNCHANGED <<tasks, stop, queue_mutex, pc, cur, arg, history>>

-----------------------------------------------------------------------------
WorkerStep(w) ==
    \/ TakeTask(w)
    \/ ExitLoop(w)
    \/ FindNothing(w)
    \/ Block(w)
    \/ Finish(w)

OwnerStep ==
    \/ Push
    \/ NotifyOne
    \/ SetStop
    \/ NotifyAll
    \/ Join

Next ==
    \/ \E w \in Workers : WorkerStep(w) \/ WakeSpuriously(w)
    \/ \E t \in Tasks : Enqueue(t)
    \/ Destroy
    \/ OwnerStep

(* The scheduler runs every thread that can take a step, and a task returns. *)
(* Nothing obliges the owner to enqueue or to destroy the pool, nor a        *)
(* blocked thread to wake by itself; such wake-ups do not go on for ever     *)
(* (they could keep the mutex from the owner, std::mutex being unfair).      *)
Fairness ==
    /\ \A w \in Workers : WF_vars(WorkerStep(w))
    /\ WF_vars(OwnerStep)
    /\ <>[][\A w \in Workers : ~WakeSpuriously(w)]_vars

Spec == Init /\ [][Next]_vars /\ Fairness

-----------------------------------------------------------------------------
(* Properties *)

(* The type invariant: in particular only tasks are queued and run, never    *)
(* the empty function that a move leaves behind.                             *)
TypeOK ==
    /\ tasks \in Seq(Tasks)
    /\ stop \in BOOLEAN
    /\ queue_mutex \in Workers \cup {None}
    /\ pc \in [Workers -> WorkerPc]
    /\ cur \in [Workers -> Tasks \cup {None}]
    /\ owner \in OwnerPc
    /\ arg \in Tasks \cup {None}
    /\ pushed \in Seq(Tasks)
    /\ started \in Seq(Tasks)
    /\ finished \in SUBSET Tasks

(* The tasks taken so far followed by the tasks still queued are the tasks   *)
(* enqueued, in order: workers that pop concurrently neither skip, repeat    *)
(* nor reorder a task.                                                       *)
TakenInOrder == started \o tasks = pushed

(* Every task a worker took is finished or is run by exactly one worker, and *)
(* never both: popping hands a task to one thread for good.  (Part of what   *)
(* ImplementsExecutor says, named for the proofs.)                           *)
RunByOneWorker ==
    /\ Range(started) = finished \cup {cur[w] : w \in {v \in Workers : pc[v] = "run"}}
    /\ \A v, w \in Workers : pc[v] = "run" /\ pc[w] = "run" /\ cur[v] = cur[w] => v = w
    /\ \A w \in Workers : pc[w] = "run" => cur[w] \notin finished

(* A queued task is never left to workers that are all asleep: unless the    *)
(* owner is about to notify, some worker will look at the queue.  It is what *)
(* pushing under the mutex and notifying after it buys.                      *)
NoLostWakeup ==
    tasks # <<>> => \/ owner = "notify_one"
                    \/ \E w \in Workers : pc[w] \in {"lock", "run"}

(* Once ~ThreadPool has notified, no worker sleeps or is about to sleep, so  *)
(* the joins cannot hang: stop_ is set under the mutex that covers the wait. *)
NoneAsleepAtJoin ==
    owner \in {"join", "destroyed"} => \A w \in Workers : pc[w] \notin {"block", "waiting"}

(* ~ThreadPool returns only when every task ever enqueued has run.           *)
DrainedWhenDestroyed ==
    owner = "destroyed" => tasks = <<>> /\ finished = Range(pushed)

(* ~ThreadPool, once entered, returns.                                       *)
DestructorReturns == owner = "set_stop" ~> owner = "destroyed"

(* The pool implements the abstract executor.                                *)
Executor == INSTANCE TaskExecutor WITH
    Slots <- Workers,
    queue <- tasks,
    slot  <- cur,
    done  <- finished,
    phase <- IF owner = "destroyed" THEN "closed" ELSE IF stop THEN "closing" ELSE "open"

ImplementsExecutor == Executor!Spec
=============================================================================
