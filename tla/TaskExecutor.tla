---------------------------- MODULE TaskExecutor ----------------------------
(* What a thread pool promises to the thread that owns it: the tasks it      *)
(* accepts are started in the order of submission, each by one slot and only *)
(* once, at most one per slot at a time, and the pool closes only when every *)
(* accepted task has finished.  No mutex, no condition variable and no       *)
(* thread position appears here; ThreadPool implements this specification.   *)
EXTENDS Sequences, Functions

CONSTANTS Slots,   \* the threads that run tasks
          Tasks,   \* every task that may be submitted, each at most once
          None     \* the content of an idle slot

VARIABLES queue,   \* accepted tasks that no slot has started
          slot,    \* the task each slot is running, or None
          done,    \* the tasks that have finished
          phase    \* "open", "closing" (destruction began) or "closed"

vars == <<queue, slot, done, phase>>

Running == {slot[s] : s \in Slots} \ {None}

Init ==
    /\ queue = <<>>
    /\ slot = [s \in Slots |-> None]
    /\ done = {}
    /\ phase = "open"

Submit(t) ==
    /\ phase = "open"
    /\ t \notin Range(queue) \cup Running \cup done
    /\ queue' = Append(queue, t)
    /\ UNCHANGED <<slot, done, phase>>

Start(s) ==
    /\ queue # <<>>
    /\ slot[s] = None
    /\ slot' = [slot EXCEPT ![s] = Head(queue)]
    /\ queue' = Tail(queue)
    /\ UNCHANGED <<done, phase>>

Complete(s) ==
    /\ slot[s] # None
    /\ done' = done \cup {slot[s]}
    /\ slot' = [slot EXCEPT ![s] = None]
    /\ UNCHANGED <<queue, phase>>

BeginClose ==
    /\ phase = "open"
    /\ phase' = "closing"
    /\ UNCHANGED <<queue, slot, done>>

Close ==
    /\ phase = "closing"
    /\ queue = <<>>
    /\ Running = {}
    /\ phase' = "closed"
    /\ UNCHANGED <<queue, slot, done>>

Next ==
    \/ \E t \in Tasks : Submit(t)
    \/ \E s \in Slots : Start(s) \/ Complete(s)
    \/ BeginClose
    \/ Close

(* A non-empty queue is eventually served, a running task finishes and a     *)
(* closing pool closes.                                                      *)
Fairness ==
    /\ WF_vars(\E s \in Slots : Start(s))
    /\ \A s \in Slots : WF_vars(Complete(s))
    /\ WF_vars(Close)

Spec == Init /\ [][Next]_vars /\ Fairness
=============================================================================
