--------------------------- MODULE DataBaseProofs ---------------------------
(* Proofs about DataBase, for any set of callers and of readings.            *)
(*                                                                           *)
(* HandInv is the type invariant with what the threads hold in their local   *)
(* variables, and what the mutex and the join protect.  On top of it the     *)
(* order of the queue and the absence of lost wake-ups are each inductive,   *)
(* and with the order the agreement of the table's rows with what was taken. *)
EXTENDS DataBase, SequenceTheorems, TLAPS

(* The worker has a reading to insert and a caller one to push; while the    *)
(* worker is on its way to sleep nothing is queued, and after the destructor *)
(* it is gone, so nobody needs a notification any more.                      *)
HandInv ==
    /\ TypeOK
    /\ pc = "insert" => cur \in Readings
    /\ \A p \in Producers : ins[p] = "push" => arg[p] \in Readings
    /\ pc = "block" => queue = <<>>
    /\ dtor = "destroyed" => pc = "exited"

-----------------------------------------------------------------------------
(* The initial state satisfies the first layer.                              *)
LEMMA HandInit == Init => HandInv
<1> SUFFICES ASSUME Init PROVE HandInv
    OBVIOUS
<1>1. <<>> \in Seq(Readings)
  BY EmptySeq
<1>2. TypeOK
  BY <1>1 DEF Init, TypeOK, WorkerPc, DtorPc
<1> QED BY <1>2 DEF Init, HandInv

(* One step of any thread keeps the first layer.                             *)
LEMMA HandStep == HandInv /\ [Next]_vars => HandInv'
<1> SUFFICES ASSUME HandInv, [Next]_vars PROVE HandInv'
    OBVIOUS
<1> USE DataBaseAssumption DEF HandInv, TypeOK, WorkerPc, DtorPc
<1>1. ASSUME NEW p \in Producers, NEW r \in Readings, Call(p, r) PROVE HandInv'
  BY <1>1 DEF Call, worker, table
<1>2. ASSUME NEW p \in Producers, Push(p) PROVE HandInv'
  <2>1. /\ Append(queue, arg[p]) \in Seq(Readings)
        /\ Append(accepted, arg[p]) \in Seq(Readings)
    BY <1>2, AppendProperties DEF Push
  <2> QED BY <1>2, <2>1 DEF Push, MutexFree, worker, table
<1>3. ASSUME NEW p \in Producers, Notify(p) PROVE HandInv'
  BY <1>3 DEF Notify, Wake, table
<1>4. ASSUME NEW p \in Producers, CallOnDestroyed(p) PROVE HandInv'
  BY <1>4 DEF CallOnDestroyed, worker, table
<1>5. CASE TestStop
  BY <1>5 DEF TestStop, calls, table
<1>6. CASE TakeReading
  <2>1. Head(queue) \in Readings /\ Tail(queue) \in Seq(Readings)
    BY <1>6, HeadTailProperties DEF TakeReading
  <2>2. Append(taken, Head(queue)) \in Seq(Readings)
    BY <2>1, AppendProperties
  <2> QED BY <1>6, <2>1, <2>2 DEF TakeReading, Front, calls, table
<1>7. CASE ExitLoop \/ FindNothing \/ Block \/ WakeSpuriously
  BY <1>7 DEF ExitLoop, FindNothing, Block, WakeSpuriously, calls, table
<1>8. CASE Insert
  <2>1. Append(rows, cur) \in Seq(Readings)
    BY <1>8, AppendProperties DEF Insert
  <2> QED BY <1>8, <2>1 DEF Insert, calls
<1>9. CASE SetStop \/ JoinAndClose
  BY <1>9 DEF SetStop, JoinAndClose, worker, calls, table
<1>10. CASE NotifyWorker
  BY <1>10 DEF NotifyWorker, Wake, calls, table
<1>11. CASE UNCHANGED vars
  BY <1>11 DEF vars, worker, calls, table
<1> QED
  BY <1>1, <1>2, <1>3, <1>4, <1>5, <1>6, <1>7, <1>8, <1>9, <1>10, <1>11
  DEF Next, ProducerStep, WorkerStep, DtorStep

(* Every variable keeps its type: no caller queues a reading it has given    *)
(* away and the worker never takes the front of an empty queue.              *)
THEOREM TypeCorrect == Spec => []TypeOK
<1>1. HandInv => TypeOK
  BY DEF HandInv
<1> QED BY <1>1, HandInit, HandStep, PTL DEF Spec

-----------------------------------------------------------------------------
(* The head of a sequence may be moved to the end of the one before it.      *)
LEMMA HeadMovesAcross ==
    ASSUME NEW S, NEW s \in Seq(S), NEW t \in Seq(S), t # <<>>
    PROVE  Append(s, Head(t)) \o Tail(t) = s \o t
OBVIOUS

(* To extend the second of two sequences is to extend both together.         *)
LEMMA PushBehind ==
    ASSUME NEW S, NEW s \in Seq(S), NEW t \in Seq(S), NEW e \in S
    PROVE  s \o Append(t, e) = Append(s \o t, e)
OBVIOUS

(* What was taken and what is queued are what was accepted: a push extends   *)
(* both sides, and taking the head moves it across.                          *)
LEMMA OrderStep == HandInv /\ TakenInOrder /\ [Next]_vars => TakenInOrder'
<1> SUFFICES ASSUME HandInv, TakenInOrder, [Next]_vars PROVE TakenInOrder'
    OBVIOUS
<1> USE DEF HandInv, TypeOK, TakenInOrder
<1>1. ASSUME NEW p \in Producers, Push(p) PROVE TakenInOrder'
  <2>1. /\ queue' = Append(queue, arg[p])
        /\ accepted' = Append(accepted, arg[p])
        /\ taken' = taken
        /\ arg[p] \in Readings
    BY <1>1 DEF Push
  <2>2. taken \in Seq(Readings) /\ queue \in Seq(Readings)
    OBVIOUS
  <2>3. taken \o Append(queue, arg[p]) = Append(taken \o queue, arg[p])
    BY ONLY <2>1, <2>2, PushBehind
  <2> QED BY <2>1, <2>3
<1>2. CASE TakeReading
  <2>1. /\ queue # <<>>
        /\ taken' = Append(taken, Head(queue))
        /\ queue' = Tail(queue)
        /\ accepted' = accepted
    BY <1>2 DEF TakeReading, Front
  <2>2. taken \in Seq(Readings) /\ queue \in Seq(Readings)
    OBVIOUS
  <2>3. Append(taken, Head(queue)) \o Tail(queue) = taken \o queue
    BY ONLY <2>1, <2>2, HeadMovesAcross
  <2> QED BY <2>1, <2>3
<1>3. ASSUME UNCHANGED <<queue, taken, accepted>> PROVE TakenInOrder'
  BY <1>3
<1> QED
  BY <1>1, <1>2, <1>3
  DEF Next, ProducerStep, WorkerStep, DtorStep, Call, Notify, CallOnDestroyed,
      TestStop, ExitLoop, FindNothing, Block, WakeSpuriously, Insert, SetStop,
      NotifyWorker, JoinAndClose, vars

(* The worker takes the readings in the order in which concurrent callers    *)
(* queued them, none skipped and none repeated.                              *)
THEOREM ReadingsTakenInOrder == Spec => []TakenInOrder
<1>1. Init => TakenInOrder
  BY DEF Init, TakenInOrder
<1> QED BY <1>1, HandInit, HandStep, OrderStep, PTL DEF Spec

-----------------------------------------------------------------------------
(* A caller pushes only while the mutex is free, when the worker is not on   *)
(* its way to sleep, and owes a notification until the worker is awake.      *)
LEMMA WakeupStep == HandInv /\ NoLostWakeup /\ [Next]_vars => NoLostWakeup'
<1> SUFFICES ASSUME HandInv, NoLostWakeup, [Next]_vars PROVE NoLostWakeup'
    OBVIOUS
<1> USE DEF HandInv, TypeOK, NoLostWakeup
<1>1. ASSUME NEW p \in Producers, NEW r \in Readings, Call(p, r)
      PROVE  NoLostWakeup'
  <2>1. /\ ins[p] = "idle" /\ ins' = [ins EXCEPT ![p] = "push"]
        /\ pc' = pc /\ queue' = queue
    BY <1>1 DEF Call, worker
  <2>2. \A q \in Producers : ins[q] = "notify_one" => ins'[q] = "notify_one"
    BY <2>1
  <2> QED BY <2>1, <2>2
<1>2. ASSUME NEW p \in Producers, Push(p) PROVE NoLostWakeup'
  <2>1. ins'[p] = "notify_one"
    BY <1>2 DEF Push
  <2> QED BY <2>1
<1>3. ASSUME NEW p \in Producers, Notify(p) PROVE NoLostWakeup'
  <2>1. pc' # "waiting" /\ queue' = queue
    BY <1>3 DEF Notify, Wake
  <2>2. pc' = "block" => queue = <<>>
    BY <1>3 DEF Notify, Wake
  <2> QED BY <2>1, <2>2
<1>4. ASSUME NEW p \in Producers, CallOnDestroyed(p) PROVE NoLostWakeup'
  BY <1>4 DEF CallOnDestroyed, worker
<1>5. CASE TestStop
  BY <1>5 DEF TestStop
<1>6. CASE TakeReading
  BY <1>6 DEF TakeReading
<1>7. CASE ExitLoop \/ FindNothing \/ WakeSpuriously
  BY <1>7 DEF ExitLoop, FindNothing, WakeSpuriously, calls
<1>8. CASE Block
  BY <1>8 DEF Block, calls
<1>9. CASE Insert
  BY <1>9 DEF Insert
<1>10. CASE SetStop \/ JoinAndClose
  BY <1>10 DEF SetStop, JoinAndClose, worker, calls
<1>11. CASE NotifyWorker
  BY <1>11 DEF NotifyWorker, Wake, calls
<1>12. CASE UNCHANGED vars
  BY <1>12 DEF vars, worker, calls
<1> QED
  BY <1>1, <1>2, <1>3, <1>4, <1>5, <1>6, <1>7, <1>8, <1>9, <1>10, <1>11, <1>12
  DEF Next, ProducerStep, WorkerStep, DtorStep

(* A queued reading never waits for a worker that sleeps with nobody about   *)
(* to wake it, although the destructor may set stop_ at any moment.          *)
THEOREM NoWakeupIsLost == Spec => []NoLostWakeup
<1>1. Init => NoLostWakeup
  BY DEF Init, NoLostWakeup
<1> QED BY <1>1, HandInit, HandStep, WakeupStep, PTL DEF Spec

-----------------------------------------------------------------------------
(* What makes the rows agree with the readings taken                         *)

(* A reading is accepted once: it is in the hands of one caller, which has   *)
(* not queued it yet.                                                        *)
OnceInv ==
    /\ \A i, j \in 1..Len(accepted) : accepted[i] = accepted[j] => i = j
    /\ \A p \in Producers : ins[p] # "push" => arg[p] = None
    /\ \A p \in Producers : ins[p] = "push" => \A i \in 1..Len(accepted) : accepted[i] # arg[p]
    /\ \A p, q \in Producers : arg[p] # None /\ arg[p] = arg[q] => p = q

(* The reading in hand is the one taken last, and has not failed before.     *)
TakenInv ==
    /\ pc = "insert" => taken # <<>> /\ cur = taken[Len(taken)] /\ cur \notin lost
    /\ \A r \in lost : \E k \in 1..Len(taken) : taken[k] = r

LEMMA OnceStep == HandInv /\ OnceInv /\ [Next]_vars => OnceInv'
<1> SUFFICES ASSUME HandInv, OnceInv, [Next]_vars PROVE OnceInv'
    OBVIOUS
<1> USE DataBaseAssumption DEF HandInv, TypeOK
<1>1. ASSUME NEW p \in Producers, NEW r \in Readings, Call(p, r) PROVE OnceInv'
  <2>1. /\ ins[p] = "idle" /\ arg' = [arg EXCEPT ![p] = r]
        /\ ins' = [ins EXCEPT ![p] = "push"] /\ accepted' = accepted
        /\ r \notin Range(accepted) /\ r \notin Range(arg)
    BY <1>1 DEF Call
  <2>2. \A i \in 1..Len(accepted) : accepted[i] # r
    BY <2>1 DEF Range
  <2>3. \A q \in Producers : arg[q] # r
    BY <2>1 DEF Range
  <2> QED BY <2>1, <2>2, <2>3 DEF OnceInv
<1>2. ASSUME NEW p \in Producers, Push(p) PROVE OnceInv'
  <2>1. /\ ins[p] = "push" /\ arg[p] \in Readings
        /\ accepted' = Append(accepted, arg[p])
        /\ arg' = [arg EXCEPT ![p] = None] /\ ins' = [ins EXCEPT ![p] = "notify_one"]
    BY <1>2 DEF Push
  <2>2. /\ Len(accepted') = Len(accepted) + 1
        /\ \A i \in 1..Len(accepted) : accepted'[i] = accepted[i]
        /\ accepted'[Len(accepted) + 1] = arg[p]
    BY <2>1, AppendProperties
  <2>3. \A i, j \in 1..Len(accepted') : accepted'[i] = accepted'[j] => i = j
    BY <2>1, <2>2 DEF OnceInv
  <2>4. \A q \in Producers : ins'[q] = "push" => arg'[q] = arg[q] /\ q # p /\ arg[q] # None
    BY <2>1
  <2>5. \A q \in Producers :
            ins'[q] = "push" => \A i \in 1..Len(accepted') : accepted'[i] # arg'[q]
    BY <2>1, <2>2, <2>4 DEF OnceInv
  <2> QED BY <2>1, <2>3, <2>5 DEF OnceInv
<1>3. ASSUME NEW p \in Producers, Notify(p) \/ CallOnDestroyed(p) PROVE OnceInv'
  <2>1. /\ \A q \in Producers : arg'[q] \in {arg[q], None} /\ (arg'[q] = arg[q] \/ ins'[q] = "idle")
        /\ ins' = [ins EXCEPT ![p] = "idle"] /\ accepted' = accepted
    BY <1>3 DEF Notify, CallOnDestroyed
  <2>2. \A q \in Producers : ins'[q] # "push" => arg'[q] = None
    BY <1>3, <2>1 DEF OnceInv, Notify, CallOnDestroyed
  <2> QED BY <2>1, <2>2 DEF OnceInv
<1>4. ASSUME UNCHANGED <<ins, arg, accepted>> PROVE OnceInv'
  BY <1>4 DEF OnceInv
<1> QED
  BY <1>1, <1>2, <1>3, <1>4
  DEF Next, ProducerStep, WorkerStep, DtorStep, TestStop, TakeReading, ExitLoop, FindNothing,
      Block, WakeSpuriously, Insert, SetStop, NotifyWorker, JoinAndClose, vars, calls

(* A reading that is still queued has not been taken before.                 *)
LEMMA TakenOnce ==
    ASSUME HandInv, OnceInv, TakenInOrder
    PROVE  /\ \A i, j \in 1..Len(taken) : taken[i] = taken[j] => i = j
           /\ queue # <<>> => \A i \in 1..Len(taken) : taken[i] # Head(queue)
<1>1. taken \in Seq(Readings) /\ queue \in Seq(Readings) /\ accepted = taken \o queue
  BY DEF HandInv, TypeOK, TakenInOrder
<1>2. /\ Len(accepted) = Len(taken) + Len(queue)
      /\ \A i \in 1..Len(taken) : accepted[i] = taken[i]
      /\ queue # <<>> => Len(queue) >= 1 /\ accepted[Len(taken) + 1] = Head(queue)
  BY <1>1
<1> QED BY <1>1, <1>2 DEF OnceInv

LEMMA TakenStep ==
    HandInv /\ OnceInv /\ TakenInOrder /\ TakenInv /\ [Next]_vars => TakenInv'
<1> SUFFICES ASSUME HandInv, OnceInv, TakenInOrder, TakenInv, [Next]_vars PROVE TakenInv'
    OBVIOUS
<1> USE DataBaseAssumption DEF HandInv, TypeOK
<1>1. CASE TakeReading
  <2>1. /\ queue # <<>> /\ cur' = Head(queue) /\ taken' = Append(taken, Head(queue))
        /\ lost' = lost /\ Head(queue) \in Readings
    BY <1>1, HeadTailProperties DEF TakeReading, Front, table
  <2>2. /\ Len(taken') = Len(taken) + 1 /\ taken' # <<>>
        /\ taken'[Len(taken) + 1] = Head(queue)
        /\ \A i \in 1..Len(taken) : taken'[i] = taken[i]
    BY <2>1, AppendProperties
  <2>3. Head(queue) \notin lost
    BY <2>1, TakenOnce DEF TakenInv
  <2> QED BY <2>1, <2>2, <2>3 DEF TakenInv
<1>2. CASE Insert
  <2>1. /\ pc = "insert" /\ pc' = "test" /\ taken' = taken
        /\ lost' = lost \/ lost' = lost \cup {cur}
    BY <1>2 DEF Insert
  <2>2. Len(taken) \in 1..Len(taken) /\ cur = taken[Len(taken)]
    BY <2>1, LenProperties, EmptySeq DEF TakenInv
  <2> QED BY <2>1, <2>2 DEF TakenInv
<1>3. ASSUME UNCHANGED <<taken, lost, cur>>, pc' = "insert" => pc = "insert" PROVE TakenInv'
  BY <1>3 DEF TakenInv
<1> QED
  BY <1>1, <1>2, <1>3
  DEF Next, ProducerStep, WorkerStep, DtorStep, Call, Push, Notify, Wake, CallOnDestroyed,
      TestStop, ExitLoop, FindNothing, Block, WakeSpuriously, SetStop,
      NotifyWorker, JoinAndClose, vars, worker, table

(* Taking a reading stores nothing; inserting it stores it behind the others *)
(* unless the INSERT fails.                                                  *)
LEMMA RowsStep ==
    HandInv /\ OnceInv /\ TakenInOrder /\ TakenInv /\ RowsInOrder /\ [Next]_vars => RowsInOrder'
<1> SUFFICES ASSUME HandInv, OnceInv, TakenInOrder, TakenInv, RowsInOrder, [Next]_vars
             PROVE  RowsInOrder'
    OBVIOUS
<1> USE DataBaseAssumption DEF HandInv, TypeOK
<1>1. CASE TakeReading
  <2>1. /\ pc = "lock" /\ pc' = "insert" /\ Head(queue) \in Readings
        /\ taken' = Append(taken, Head(queue)) /\ lost' = lost /\ rows' = rows
    BY <1>1, HeadTailProperties DEF TakeReading, Front, table
  <2>2. /\ Len(taken) \in Nat /\ Len(taken') = Len(taken) + 1
        /\ \A i \in 1..Len(taken) : taken'[i] = taken[i]
    BY <2>1, AppendProperties
  <2>3. Stored' = Stored
    BY <2>1, <2>2 DEF Stored
  <2>4. \A k \in Stored : taken'[k] = taken[k]
    BY <2>2 DEF Stored
  <2>5. PICK at \in [1..Len(rows) -> Stored] :
            /\ Range(at) = Stored
            /\ \A i, j \in 1..Len(rows) : i < j => at[i] < at[j]
            /\ \A i \in 1..Len(rows) : rows[i] = taken[at[i]]
    BY DEF RowsInOrder
  <2>6. \A i \in 1..Len(rows) : rows'[i] = taken'[at[i]]
    BY <2>1, <2>4, <2>5
  <2>7. 1..Len(rows') = 1..Len(rows)
    BY <2>1
  <2> QED BY <2>3, <2>5, <2>6, <2>7 DEF RowsInOrder
<1>2. CASE Insert
  <2> DEFINE n == Len(taken)
  <2>1. /\ pc = "insert" /\ pc' = "test" /\ taken' = taken /\ cur \in Readings
        /\ n \in 1..n /\ cur = taken[n] /\ cur \notin lost
    BY <1>2, LenProperties, EmptySeq DEF Insert, TakenInv
  <2>2. Stored = {k \in 1..n : taken[k] \notin lost} \ {n}
    BY <2>1 DEF Stored
  <2>3. Stored' = {k \in 1..n : taken[k] \notin lost'}
    BY <2>1 DEF Stored
  <2>4. \A k \in 1..n : taken[k] = cur => k = n
    BY <2>1, TakenOnce
  <2>5. CASE rows' = rows /\ lost' = lost \cup {cur}
    <3>1. Stored' = Stored
      BY <2>1, <2>2, <2>3, <2>4, <2>5
    <3> QED BY <2>1, <2>5, <3>1 DEF RowsInOrder
  <2>6. CASE rows' = Append(rows, cur) /\ lost' = lost
    <3> DEFINE m == Len(rows)
    <3>1. PICK at \in [1..m -> Stored] :
              /\ Range(at) = Stored
              /\ \A i, j \in 1..m : i < j => at[i] < at[j]
              /\ \A i \in 1..m : rows[i] = taken[at[i]]
      BY DEF RowsInOrder
    <3>2. /\ m \in Nat /\ Len(rows') = m + 1
          /\ \A i \in 1..m : rows'[i] = rows[i]
          /\ rows'[m + 1] = cur
      BY <2>1, <2>6, AppendProperties
    <3>3. Stored' = Stored \cup {n} /\ n \notin Stored
      BY <2>1, <2>2, <2>3, <2>6
    <3>4. \A k \in Stored : k \in Nat /\ k < n
      BY <2>1, <2>2
    <3> DEFINE longer == [i \in 1..(m + 1) |-> IF i = m + 1 THEN n ELSE at[i]]
    <3> HIDE DEF m, n
    <3>5. longer \in [1..(m + 1) -> Stored']
      BY <3>1, <3>2, <3>3
    <3>6. Range(longer) = Stored'
      <4>1. \A k \in Stored : \E i \in 1..m : at[i] = k
        BY <3>1 DEF Range
      <4>2. \A i \in 1..m : longer[i] = at[i] /\ i \in 1..(m + 1)
        BY <3>2
      <4>3. m + 1 \in 1..(m + 1) /\ longer[m + 1] = n
        BY <3>2
      <4>4. Stored' \subseteq Range(longer)
        BY <3>3, <4>1, <4>2, <4>3 DEF Range
      <4> QED BY <3>5, <4>4 DEF Range
    <3>7. \A i, j \in 1..(m + 1) : i < j => longer[i] < longer[j]
      BY <3>1, <3>2, <3>4
    <3>8. \A i \in 1..(m + 1) : rows'[i] = taken'[longer[i]]
      BY <2>1, <3>1, <3>2 DEF n
    <3> HIDE DEF longer
    <3> QED BY <3>2, <3>5, <3>6, <3>7, <3>8 DEF RowsInOrder
  <2> QED BY <1>2, <2>5, <2>6 DEF Insert
<1>3. ASSUME UNCHANGED <<taken, lost, rows>>, pc' = "insert" <=> pc = "insert"
      PROVE  RowsInOrder'
  BY <1>3 DEF RowsInOrder, Stored
<1> QED
  BY <1>1, <1>2, <1>3
  DEF Next, ProducerStep, WorkerStep, DtorStep, Call, Push, Notify, Wake, CallOnDestroyed,
      TestStop, ExitLoop, FindNothing, Block, WakeSpuriously, SetStop,
      NotifyWorker, JoinAndClose, vars, worker, table

LEMMA RowsInit == Init => OnceInv /\ TakenInv /\ RowsInOrder
<1> SUFFICES ASSUME Init PROVE OnceInv /\ TakenInv /\ RowsInOrder
    OBVIOUS
<1>1. /\ accepted = <<>> /\ taken = <<>> /\ rows = <<>> /\ lost = {} /\ pc = "test"
      /\ arg = [p \in Producers |-> None] /\ ins = [p \in Producers |-> "idle"]
  BY DEF Init
<1>2. Len(accepted) = 0 /\ Len(taken) = 0 /\ Len(rows) = 0 /\ 1..0 = {}
  BY <1>1
<1>3. OnceInv /\ TakenInv
  BY <1>1, <1>2 DEF OnceInv, TakenInv
<1>4. Stored = {}
  BY <1>2 DEF Stored
<1> DEFINE none == [i \in 1..0 |-> 0]
<1>5. none \in [1..0 -> {}] /\ Range(none) = {}
  BY <1>2 DEF Range
<1> HIDE DEF none
<1>6. RowsInOrder
  BY <1>2, <1>4, <1>5 DEF RowsInOrder
<1> QED BY <1>3, <1>6

(* The table holds the readings in the order in which they were taken, each  *)
(* once, without those whose INSERT failed: ReadingsTakenInOrder for the     *)
(* other side of the worker, whatever SQLite answers and however often.      *)
THEOREM RowsAreInOrder == Spec => []RowsInOrder
<1>1. Init => HandInv /\ TakenInOrder /\ OnceInv /\ TakenInv /\ RowsInOrder
  BY HandInit, RowsInit DEF Init, TakenInOrder
<1>2. HandInv /\ TakenInOrder /\ OnceInv /\ TakenInv /\ RowsInOrder /\ [Next]_vars
      => (HandInv /\ TakenInOrder /\ OnceInv /\ TakenInv /\ RowsInOrder)'
  BY HandStep, OrderStep, OnceStep, TakenStep, RowsStep
<1> QED BY <1>1, <1>2, PTL DEF Spec
=============================================================================
