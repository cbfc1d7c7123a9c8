------------------------------ MODULE DataBase ------------------------------
(* The writer of the telemetry server (database.h, database.cpp): callers    *)
(* push readings on a queue, one worker thread pops them and inserts them    *)
(* into an SQLite table; the destructor stops the worker and closes the      *)
(* database.  Unlike the thread pool, the destructor sets stop_ without the  *)
(* mutex and the worker tests stop_ at the top of its loop.                  *)
(*                                                                           *)
(* Granularity: as in ThreadPool, a critical section that does not block is  *)
(* one action, and the worker holds the mutex across actions only between    *)
(* the false predicate and the sleep.                                        *)
EXTENDS Sequences, Integers, Functions

CONSTANTS Producers,      \* the threads that insert readings
          Readings,       \* the readings they insert, each at most once
          None,           \* no reading
          SqliteMayFail   \* whether an INSERT may fail

ASSUME DataBaseAssumption == None \notin Readings /\ SqliteMayFail \in BOOLEAN

VARIABLES queue,     \* queue_
          stop,      \* stop_
          pc,        \* where worker_ is in WorkerThread
          cur,       \* its local variable r
          ins,       \* where each producer is in InsertReadingDataDevice
          arg,       \* the reading it passes
          dtor,      \* where the destructor is
          accepted,  \* history: the readings in the order they were queued
          taken,     \* history: the readings in the order they were popped
          rows,      \* the rows of sensor_data
          lost       \* the readings whose INSERT failed

worker == <<pc, cur>>
calls == <<ins, arg>>
table == <<rows, lost>>
vars == <<queue, stop, worker, calls, dtor, accepted, taken, table>>

WorkerPc == {"test", "lock", "block", "waiting", "insert", "exited"}
DtorPc == {"alive", "notify_one", "join", "destroyed"}

MutexFree == pc # "block"

(* The database is open and its table exists.                                *)
Init ==
    /\ queue = <<>>
    /\ stop = FALSE
    /\ pc = "test"
    /\ cur = None
    /\ ins = [p \in Producers |-> "idle"]
    /\ arg = [p \in Producers |-> None]
    /\ dtor = "alive"
    /\ accepted = <<>>
    /\ taken = <<>>
    /\ rows = <<>>
    /\ lost = {}

-----------------------------------------------------------------------------
(* InsertReadingDataDevice.  (An operator whose name ends in an underscore   *)
(* and a remark is a fault put in place of the operator it precedes.)        *)

Call(p, r) ==
    /\ ins[p] = "idle"
    /\ dtor # "destroyed"
    /\ r \notin Range(accepted) \cup Range(arg)
    /\ arg' = [arg EXCEPT ![p] = r]
    /\ ins' = [ins EXCEPT ![p] = "push"]
    /\ UNCHANGED <<queue, stop, worker, dtor, accepted, taken, table>>

Push_Unlocked(p) ==
    /\ ins[p] = "push"
    /\ dtor # "destroyed"
    /\ queue' = Append(queue, arg[p])
    /\ accepted' = Append(accepted, arg[p])
    /\ arg' = [arg EXCEPT ![p] = None]
    /\ ins' = [ins EXCEPT ![p] = "notify_one"]
    /\ UNCHANGED <<stop, worker, dtor, taken, table>>

Push(p) ==
    /\ ins[p] = "push"
    /\ dtor # "destroyed"
    /\ MutexFree
    /\ queue' = Append(queue, arg[p])
    /\ accepted' = Append(accepted, arg[p])
    /\ arg' = [arg EXCEPT ![p] = None]
    /\ ins' = [ins EXCEPT ![p] = "notify_one"]
    /\ UNCHANGED <<stop, worker, dtor, taken, table>>

Wake == IF pc = "waiting" THEN "lock" ELSE pc

Notify_Forgotten(p) ==
    /\ ins[p] = "notify_one"
    /\ dtor # "destroyed"
    /\ ins' = [ins EXCEPT ![p] = "idle"]
    /\ UNCHANGED <<queue, stop, worker, arg, dtor, accepted, taken, table>>

Notify(p) ==
    /\ ins[p] = "notify_one"
    /\ dtor # "destroyed"
    /\ pc' = Wake
    /\ ins' = [ins EXCEPT ![p] = "idle"]
    /\ UNCHANGED <<queue, stop, cur, arg, dtor, accepted, taken, table>>

(* A call that reaches the mutex, the queue or the condition variable after  *)
(* the destructor is undefined; here it returns and its reading is gone.     *)
CallOnDestroyed(p) ==
    /\ ins[p] # "idle"
    /\ dtor = "destroyed"
    /\ arg' = [arg EXCEPT ![p] = None]
    /\ ins' = [ins EXCEPT ![p] = "idle"]
    /\ UNCHANGED <<queue, stop, worker, dtor, accepted, taken, table>>

-----------------------------------------------------------------------------
(* WorkerThread *)

(* while (!stop_), read without the mutex.                                   *)
TestStop ==
    /\ pc = "test"
    /\ pc' = IF stop THEN "exited" ELSE "lock"
    /\ UNCHANGED <<queue, stop, cur, calls, dtor, accepted, taken, table>>

Front_Newest == queue[Len(queue)]

Front == Head(queue)

TakeReading ==
    /\ pc = "lock"
    /\ queue # <<>>
    /\ cur' = Front
    /\ taken' = Append(taken, Front)
    /\ queue' = Tail(queue)
    /\ pc' = "insert"
    /\ UNCHANGED <<stop, calls, dtor, accepted, table>>

ExitLoop ==
    /\ pc = "lock"
    /\ queue = <<>>
    /\ stop
    /\ pc' = "exited"
    /\ UNCHANGED <<queue, stop, cur, calls, dtor, accepted, taken, table>>

FindNothing ==
    /\ pc = "lock"
    /\ queue = <<>>
    /\ ~stop
    /\ pc' = "block"
    /\ UNCHANGED <<queue, stop, cur, calls, dtor, accepted, taken, table>>

Block ==
    /\ pc = "block"
    /\ pc' = "waiting"
    /\ UNCHANGED <<queue, stop, cur, calls, dtor, accepted, taken, table>>

WakeSpuriously ==
    /\ pc = "waiting"
    /\ pc' = "lock"
    /\ UNCHANGED <<queue, stop, cur, calls, dtor, accepted, taken, table>>

Insert_Retried ==
    /\ pc = "insert"
    /\ \/ rows' = Append(rows, cur) /\ lost' = lost
       \/ SqliteMayFail /\ lost' = lost \cup {cur} /\ rows' = Append(rows, cur)
    /\ cur' = None
    /\ pc' = "test"
    /\ UNCHANGED <<queue, stop, calls, dtor, accepted, taken>>

(* Nothing looks at what sqlite3_prepare_v2 and sqlite3_step return.         *)
Insert ==
    /\ pc = "insert"
    /\ \/ rows' = Append(rows, cur) /\ lost' = lost
       \/ SqliteMayFail /\ lost' = lost \cup {cur} /\ rows' = rows
    /\ cur' = None
    /\ pc' = "test"
    /\ UNCHANGED <<queue, stop, calls, dtor, accepted, taken>>

-----------------------------------------------------------------------------
(* ~DataBase *)

SetStop ==
    /\ dtor = "alive"
    /\ stop' = TRUE
    /\ dtor' = "notify_one"
    /\ UNCHANGED <<queue, worker, calls, accepted, taken, table>>

NotifyWorker ==
    /\ dtor = "notify_one"
    /\ pc' = Wake
    /\ dtor' = "join"
    /\ UNCHANGED <<queue, stop, cur, calls, accepted, taken, table>>

(* worker_.join() and sqlite3_close; then the members are destroyed.         *)
JoinAndClose ==
    /\ dtor = "join"
    /\ pc = "exited"
    /\ dtor' = "destroyed"
    /\ UNCHANGED <<queue, stop, worker, calls, accepted, taken, table>>

-----------------------------------------------------------------------------
ProducerStep(p) == Push(p) \/ Notify(p) \/ CallOnDestroyed(p)

WorkerStep == TestStop \/ TakeReading \/ ExitLoop \/ FindNothing \/ Block \/ Insert

DtorStep == NotifyWorker \/ JoinAndClose

Next ==
    \/ \E p \in Producers : ProducerStep(p) \/ \E r \in Readings : Call(p, r)
    \/ WorkerStep
    \/ WakeSpuriously
    \/ SetStop
    \/ DtorStep

(* The scheduler runs every thread that can take a step; nobody has to call, *)
(* to destroy the object or to wake a sleeping worker without reason.        *)
Fairness ==
    /\ \A p \in Producers : WF_vars(ProducerStep(p))
    /\ WF_vars(WorkerStep)
    /\ WF_vars(DtorStep)
    /\ <>[][~WakeSpuriously]_vars

Spec == Init /\ [][Next]_vars /\ Fairness

-----------------------------------------------------------------------------
(* Properties *)

(* The type invariant: in particular only readings are queued and written,   *)
(* never the empty reading of a caller that has given its own away.          *)
TypeOK ==
    /\ queue \in Seq(Readings)
    /\ stop \in BOOLEAN
    /\ pc \in WorkerPc
    /\ cur \in Readings \cup {None}
    /\ ins \in [Producers -> {"idle", "push", "notify_one"}]
    /\ arg \in [Producers -> Readings \cup {None}]
    /\ dtor \in DtorPc
    /\ accepted \in Seq(Readings)
    /\ taken \in Seq(Readings)
    /\ rows \in Seq(Readings)
    /\ lost \in SUBSET Readings

(* Readings leave the queue in the order in which concurrent callers queued  *)
(* them, none skipped and none repeated.                                     *)
TakenInOrder == taken \o queue = accepted

(* The positions in taken of the readings that were written: all but those   *)
(* whose INSERT failed and the one the worker has in hand.                   *)
Stored == {k \in 1..Len(taken) : taken[k] \notin lost /\ ~(pc = "insert" /\ k = Len(taken))}

(* The rows are these readings, in the order in which the worker took them:  *)
(* a row is written once and a failed reading is not written at all.         *)
RowsInOrder ==
    \E at \in [1..Len(rows) -> Stored] :
        /\ Range(at) = Stored
        /\ \A i, j \in 1..Len(rows) : i < j => at[i] < at[j]
        /\ \A i \in 1..Len(rows) : rows[i] = taken[at[i]]

(* While a reading is queued the worker is not asleep, nor about to sleep,   *)
(* unless a caller is about to notify it.                                    *)
NoLostWakeup ==
    queue # <<>> => \/ pc \notin {"block", "waiting"}
                    \/ \E p \in Producers : ins[p] = "notify_one"

-----------------------------------------------------------------------------
(* What the documentation says and the class does not do *)

(* The destructor returns.  src/README.md:9 says of the server that it is    *)
(* stopped correctly by ^C; it cannot be if this call hangs.                 *)
DestructorReturns == stop ~> dtor = "destroyed"

(* When the database is closed, every reading that was accepted has been     *)
(* taken for writing: src/README.md:28 says that the queue is emptied by the *)
(* thread of the class and that its readings are written to SQLite.          *)
NothingAbandoned == dtor = "destroyed" => taken = accepted

(* A reading the worker has processed is a row of the table, as src/README.md*)
(* says at line 28.                                                          *)
ProcessedIsStored ==
    Range(taken) \subseteq Range(rows) \cup {cur}
=============================================================================
