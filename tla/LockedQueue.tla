----------------------------- MODULE LockedQueue -----------------------------
(***************************************************************************)
(* The queues that keep a list under a mutex: mutexqueue and BlockQueue of *)
(* 4_test_lock_free_queue.cpp, SyncQueue and SimpleSyncQueue of 1.3.2.     *)
(* A critical section is one action.  They differ in whether a thread      *)
(* waits, for how long, and whether the list has a maximal length; without *)
(* sleepers on a condition a notification does nothing.                    *)
(***************************************************************************)
EXTENDS Integers, Sequences

CONSTANTS Threads

VARIABLES queue,    \* _queue, queue_ or s_list
          sleeping  \* the condition a thread sleeps on; "late" if its time is up

lockedVars == <<queue, sleeping>>

Init ==
  /\ queue = <<>>
  /\ sleeping = [t \in Threads |-> "awake"]

\* (variant) the thread that is woken is not always one of the sleepers meant
NotifyOne_Any(condition) ==
  LET sleepers == {t \in Threads : sleeping[t] \in {"notEmpty", "notFull"}}
  IN IF sleepers = {} THEN UNCHANGED sleeping
     ELSE \E t \in sleepers : sleeping' = [sleeping EXCEPT ![t] = "awake"]

NotifyOne(condition) ==
  LET sleepers == {t \in Threads : sleeping[t] = condition}
  IN IF sleepers = {} THEN UNCHANGED sleeping
     ELSE \E t \in sleepers : sleeping' = [sleeping EXCEPT ![t] = "awake"]

Sleep(t, condition) ==
  /\ sleeping[t] = "awake"
  /\ sleeping' = [sleeping EXCEPT ![t] = condition]
  /\ UNCHANGED queue

\* Put, Enqueue, push_back
Put(p, item, maxSize) ==
  /\ sleeping[p] = "awake"
  /\ Len(queue) # maxSize
  /\ queue' = Append(queue, item)
  /\ NotifyOne("notEmpty")

PutWaits(p, maxSize) == Len(queue) = maxSize /\ Sleep(p, "notFull")

\* Take, Dequeue, pop_front
Take(c) ==
  /\ sleeping[c] = "awake"
  /\ queue # <<>>
  /\ queue' = Tail(queue)
  /\ NotifyOne("notFull")

\* A thread whose time was up finds an item after all
TakeLate(c) ==
  /\ sleeping[c] = "late"
  /\ queue # <<>>
  /\ queue' = Tail(queue)
  /\ sleeping' = [sleeping EXCEPT ![c] = "awake"]

TakeWaits(c) == queue = <<>> /\ Sleep(c, "notEmpty")

\* mutexqueue's consumer does not wait
FindNothing(c) ==
  /\ sleeping[c] = "awake"
  /\ queue = <<>>
  /\ UNCHANGED lockedVars

\* BlockQueue: the time of wait_for is up
TimeIsUp(c) ==
  /\ sleeping[c] = "notEmpty"
  /\ sleeping' = [sleeping EXCEPT ![c] = "late"]
  /\ UNCHANGED queue

GiveUp(c) ==
  /\ sleeping[c] = "late"
  /\ queue = <<>>
  /\ sleeping' = [sleeping EXCEPT ![c] = "awake"]
  /\ UNCHANGED queue

\* A condition variable may wake its sleepers without a notification
SpuriousWake(t) ==
  /\ sleeping[t] \in {"notEmpty", "notFull"}
  /\ sleeping' = [sleeping EXCEPT ![t] = "awake"]
  /\ UNCHANGED queue
=============================================================================
