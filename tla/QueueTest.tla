------------------------------ MODULE QueueTest ------------------------------
(***************************************************************************)
(* The programs that put the linked and the locked queues to use: test_queue*)
(* of 4_test_lock_free_queue.cpp with its pairs of thread functions, and    *)
(* the two programs 1-3-condition-sync-queue*.cpp.  The initial state       *)
(* chooses the queue and the number of threads, which are arguments of the  *)
(* first program; the latter two are taken with as many consumers as        *)
(* producers, where the repository has one of each.                         *)
(***************************************************************************)
EXTENDS Integers, Sequences, FiniteSets

CONSTANTS
  Producers, Consumers,  \* the threads there may be
  ItemNum,               \* s_queue_item_num, or the 20 of PutDatas
  MaxSize,               \* the 5 of SyncQueue
  Queues,                \* the queues to try
  SharedItems            \* bound: items of the linked queue if several consume

ASSUME TestAssumption ==
  /\ Producers \cap Consumers = {}
  /\ IsFiniteSet(Producers) /\ IsFiniteSet(Consumers)
  /\ ItemNum \in Nat \ {0}
  /\ MaxSize \in Nat \ {0}
  /\ Queues \subseteq {"lockfree", "mutex", "block", "sync", "simple"}
  /\ SharedItems \in Nat

VARIABLES
  kind,         \* the queue under test
  pushing, popping,  \* the threads test_queue created
  i,            \* items each producer has put, and each TakeDatas has taken
  phase,        \* of each consumer: dequeue, count, check, done
  last_value,   \* the item each consumer received last
  s_count_pop,
  next, rawItem, nextNodeIdx, head, tail, freeListHead, at, mine, other,
  queue, sleeping

NoItem == <<>>
Threads == Producers \cup Consumers
MaxNode == 1 + ItemNum * Cardinality(Producers)

List == INSTANCE LinkedQueue
Lock == INSTANCE LockedQueue

driverVars == <<i, phase, last_value, s_count_pop>>
setting == <<kind, pushing, popping>>
linkedVars == <<next, rawItem, nextNodeIdx, head, tail, freeListHead, at, mine,
                other>>
lockedVars == <<queue, sleeping>>
vars == <<setting, driverVars, linkedVars, lockedVars>>

TotalItems == ItemNum * Cardinality(pushing)

Init ==
  /\ kind \in Queues
  /\ pushing \in (SUBSET Producers) \ {{}}
  /\ popping \in (SUBSET Consumers) \ {{}}
  /\ kind \in {"sync", "simple"} => Cardinality(pushing) = Cardinality(popping)
  /\ kind = "lockfree" => Cardinality(popping) = 1 \/ TotalItems <= SharedItems
  /\ i = [t \in Threads |-> 0]
  /\ phase = [c \in Consumers |-> "dequeue"]
  /\ last_value = [c \in Consumers |-> NoItem]
  /\ s_count_pop = 0
  /\ List!Init
  /\ Lock!Init

-----------------------------------------------------------------------------
(* Producers                                                               *)

NextItem(p) == <<p, i[p] + 1>>
Produced(p) ==
  /\ i' = [i EXCEPT ![p] = @ + 1]
  /\ UNCHANGED <<phase, last_value, s_count_pop>>

\* lockfreequeue_producer_thread
LockfreeProducer(p) ==
  /\ kind = "lockfree"
  /\ i[p] < ItemNum
  /\ UNCHANGED lockedVars
  /\ \/ /\ \/ List!LoadFree(p)
           \/ List!NewNode(p, NextItem(p))
           \/ List!LoadFreeNext(p)
           \/ List!PopFree(p)
           \/ List!PopFreeFails(p)
           \/ List!Reuse(p, NextItem(p))
           \/ List!SwapTail(p)
        /\ UNCHANGED driverVars
     \/ List!Link(p) /\ Produced(p)

\* mutexqueue_producer_thread, blockqueue_producer_thread, PutDatas
Limit == IF kind = "sync" THEN MaxSize ELSE -1
LockedProducer(p) ==
  /\ kind # "lockfree"
  /\ i[p] < ItemNum
  /\ UNCHANGED linkedVars
  /\ \/ Lock!Put(p, NextItem(p), Limit) /\ Produced(p)
     \/ Lock!PutWaits(p, Limit) /\ UNCHANGED driverVars

-----------------------------------------------------------------------------
(* Consumers                                                               *)

Enter(c, place) == phase' = [phase EXCEPT ![c] = place]

Received(c, item) == last_value' = [last_value EXCEPT ![c] = item]
CountNext(c) == Enter(c, "count") /\ UNCHANGED <<i, s_count_pop>>

\* mutexqueue counts the item before it gives the mutex back; TakeDatas counts
\* its own items only.
AfterTake(c) ==
  \/ /\ kind = "mutex"
     /\ s_count_pop' = s_count_pop + 1
     /\ Enter(c, "check")
     /\ UNCHANGED i
  \/ kind = "block" /\ CountNext(c)
  \/ /\ kind \in {"sync", "simple"}
     /\ i' = [i EXCEPT ![c] = @ + 1]
     /\ Enter(c, IF i[c] + 1 = ItemNum THEN "done" ELSE "dequeue")
     /\ UNCHANGED s_count_pop

ReceivedNothing(c) ==
  /\ Enter(c, "check")
  /\ UNCHANGED <<i, last_value, s_count_pop>>

\* lockfreequeue_consumer_thread
LockfreeConsumer(c) ==
  /\ kind = "lockfree"
  /\ phase[c] = "dequeue"
  /\ UNCHANGED lockedVars
  /\ \/ List!FindEmpty(c) /\ ReceivedNothing(c)
     \/ List!TakeLast(c) /\ Received(c, List!Claimed(c)) /\ CountNext(c)
     \/ List!PushFree(c) /\ IF mine[c].consumed THEN UNCHANGED driverVars
                            ELSE Received(c, List!Claimed(c)) /\ CountNext(c)
     \/ /\ \/ List!LoadHead(c)
           \/ List!FindNext(c)
           \/ List!ClaimLast(c)
           \/ List!Unlink(c)
           \/ List!HeadMoved(c)
           \/ List!LoadFreeList(c)
           \/ List!StoreFreeNext(c)
           \/ List!PushFreeFails(c)
        /\ UNCHANGED driverVars

\* mutexqueue_consumer_thread, blockqueue_consumer_thread, TakeDatas
LockedConsumer(c) ==
  /\ kind # "lockfree"
  /\ phase[c] = "dequeue"
  /\ UNCHANGED linkedVars
  /\ \/ (Lock!Take(c) \/ Lock!TakeLate(c)) /\ Received(c, Head(queue))
        /\ AfterTake(c)
     \/ kind = "mutex" /\ Lock!FindNothing(c) /\ ReceivedNothing(c)
     \/ kind # "mutex" /\ Lock!TakeWaits(c) /\ UNCHANGED driverVars
     \/ kind = "block" /\ Lock!TimeIsUp(c) /\ UNCHANGED driverVars
     \/ kind = "block" /\ Lock!GiveUp(c) /\ ReceivedNothing(c)

\* lxx_atomic_add(&s_count_pop, 1)
Count(c) ==
  /\ phase[c] = "count"
  /\ s_count_pop' = s_count_pop + 1
  /\ Enter(c, "check")
  /\ UNCHANGED <<setting, i, last_value, linkedVars, lockedVars>>

Check(c) ==
  /\ phase[c] = "check"
  /\ Enter(c, IF s_count_pop >= TotalItems THEN "done" ELSE "dequeue")
  /\ UNCHANGED <<setting, i, last_value, s_count_pop, linkedVars,
                 lockedVars>>

-----------------------------------------------------------------------------

Producer(p) ==
  /\ p \in pushing
  /\ UNCHANGED setting
  /\ LockfreeProducer(p) \/ LockedProducer(p)

Consumer(c) ==
  /\ c \in popping
  /\ UNCHANGED setting
  /\ \/ LockfreeConsumer(c)
     \/ LockedConsumer(c)
     \/ Count(c)
     \/ Check(c)

Wake(t) ==
  /\ kind # "block"
  /\ Lock!SpuriousWake(t)
  /\ UNCHANGED <<setting, driverVars, linkedVars>>

AllBack ==
  /\ \A p \in pushing : i[p] = ItemNum
  /\ \A c \in popping : phase[c] = "done"

\* test_queue and main join the threads
Joined == AllBack /\ UNCHANGED vars

Next ==
  \/ \E p \in Producers : Producer(p)
  \/ \E c \in Consumers : Consumer(c)
  \/ \E t \in Threads : Wake(t)
  \/ Joined

Spec == Init /\ [][Next]_vars

\* Threads of one process: each is scheduled again and again, and the time of
\* a wait_for comes to its end.  Nothing promises a spurious wake-up.
FairSpec ==
  /\ Spec
  /\ \A p \in Producers : WF_vars(Producer(p))
  /\ \A c \in Consumers : WF_vars(Consumer(c))

-----------------------------------------------------------------------------
(* Correctness                                                             *)

\* Every queue is a first-in first-out queue.  For the linked one an item is
\* in when tail is exchanged (SimpleLockFreeQueue.h:73), although its link may
\* come later, and out when head is claimed or moved (lines 92 and 104),
\* although it is read out of its node afterwards, at 95 or 107.
Fifo == INSTANCE BoundedFifo WITH
  Capacity <- ItemNum * Cardinality(Producers),
  Limit <- ItemNum,
  None <- NoItem,
  fifo <- IF kind = "lockfree" THEN List!Contents ELSE queue,
  put <- [p \in Producers |-> IF at[p] = "link" THEN i[p] + 1 ELSE i[p]],
  got <- [c \in Consumers |-> IF List!HasClaimed(c) THEN List!Claimed(c)
                              ELSE last_value[c]]
IsFifo == Fifo!Spec

\* No node leaks, and none is used for two things at a time, while producers
\* take from the free list and a consumer adds to it.
NodesAccounted == List!NodesAccounted

\* Every producer gets rid of its items and every consumer sees the count: no
\* thread sleeps beside the item or the free place it waits for, and the
\* loops around the compare-and-swaps come to an end.
AllReturn == <>AllBack
=============================================================================
