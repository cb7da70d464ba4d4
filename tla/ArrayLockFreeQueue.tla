------------------------- MODULE ArrayLockFreeQueue -------------------------
(***************************************************************************)
(* The multi-producer multi-consumer ring buffer of 3.2.4                  *)
(* (ArrayLockFreeQueueImp.h) driven by the producer and consumer threads   *)
(* of 4_test_lock_free_queue.cpp.  Every load, store and CAS of a shared   *)
(* word is a step of its own; purely local work is folded into the step    *)
(* before it.  An item is the pair <<producer, sequence number>>: the code *)
(* stores an int, of which only the identity matters here.                 *)
(***************************************************************************)
EXTENDS Integers, Sequences

CONSTANTS
  Producers,   \* threads running arraylockfreequeue_producer_thread
  Consumers,   \* threads running arraylockfreequeue_consumer_thread
  Q_SIZE,      \* the template parameter: slots in the ring
  ItemNum,     \* s_queue_item_num: items each producer enqueues
  TotalItems,  \* s_queue_item_num * s_producer_thread_num
  StartIndex,  \* value the three indices have reached when the run begins
  IndexLimit   \* number of values of QUEUE_INT; 0: it never wraps in this run

ASSUME QueueAssumption ==
  /\ Producers \cap Consumers = {}
  /\ Q_SIZE \in Nat \ {0}
  /\ ItemNum \in Nat
  /\ TotalItems \in Nat
  /\ StartIndex \in Nat
  /\ IndexLimit \in Nat

VARIABLES
  m_thequeue,               \* the slots
  m_count,                  \* element counter, never read by the queue itself
  m_writeIndex,             \* next position a producer may reserve
  m_readIndex,              \* next position a consumer may take
  m_maximumReadIndex,       \* first position not committed yet
  pc,                       \* where each thread is
  currentWriteIndex,        \* local of enqueue
  currentReadIndex,         \* local of dequeue
  a_data,                   \* the caller's variable dequeue copies into
  i,                        \* items a producer has enqueued
  s_count_pop,              \* items consumed, shared by the consumers
  last_value                \* the last item each consumer received

queueVars == <<m_thequeue, m_count, m_writeIndex, m_readIndex,
               m_maximumReadIndex>>
localVars == <<currentWriteIndex, currentReadIndex, a_data>>
driverVars == <<i, s_count_pop, last_value>>
vars == <<queueVars, pc, localVars, driverVars>>

Threads == Producers \cup Consumers
Slots == 0 .. Q_SIZE - 1
NoItem == <<>>
Item == (Producers \X (1 .. ItemNum)) \cup {NoItem}

ProducerPc == {"load", "full", "reserve", "store", "commit", "count", "done"}
ConsumerPc == {"load", "empty", "copy", "take", "uncount", "pop", "check",
               "done"}

countToIndex(n) == n % Q_SIZE

\* n + 1 in the width of QUEUE_INT
Inc(n) == IF n + 1 = IndexLimit THEN 0 ELSE n + 1

Goto(t, label) == pc' = [pc EXCEPT ![t] = label]

Init ==
  /\ m_thequeue = [s \in Slots |-> NoItem]
  /\ m_count = 0
  /\ m_writeIndex = StartIndex
  /\ m_readIndex = StartIndex
  /\ m_maximumReadIndex = StartIndex
  /\ pc = [t \in Threads |-> "load"]
  /\ currentWriteIndex = [p \in Producers |-> StartIndex]
  /\ currentReadIndex = [c \in Consumers |-> StartIndex]
  /\ a_data = [c \in Consumers |-> NoItem]
  /\ i = [p \in Producers |-> 0]
  /\ s_count_pop = 0
  /\ last_value = [c \in Consumers |-> NoItem]

-----------------------------------------------------------------------------
(* enqueue, called in a loop until ItemNum items are in                    *)

ProducerDone(p) ==
  /\ pc[p] = "load"
  /\ i[p] = ItemNum
  /\ Goto(p, "done")
  /\ UNCHANGED <<queueVars, localVars, driverVars>>

\* (variant) the loop of line 261 runs once too often
EnqLoadWrite_OneMore(p) ==
  /\ pc[p] = "load"
  /\ i[p] <= ItemNum
  /\ currentWriteIndex' = [currentWriteIndex EXCEPT ![p] = m_writeIndex]
  /\ Goto(p, "full")
  /\ UNCHANGED <<queueVars, driverVars, currentReadIndex, a_data>>

EnqLoadWrite(p) ==
  /\ pc[p] = "load"
  /\ i[p] < ItemNum
  /\ currentWriteIndex' = [currentWriteIndex EXCEPT ![p] = m_writeIndex]
  /\ Goto(p, "full")
  /\ UNCHANGED <<queueVars, driverVars, currentReadIndex, a_data>>

FullFor(writeIndex, readIndex) ==
  countToIndex(Inc(writeIndex)) = countToIndex(readIndex)

\* m_readIndex is loaded and the queue looks full: enqueue returns false and
\* the driver tries again
EnqFull(p) ==
  /\ pc[p] = "full"
  /\ FullFor(currentWriteIndex[p], m_readIndex)
  /\ Goto(p, "load")
  /\ UNCHANGED <<queueVars, localVars, driverVars>>

\* (variant) the full test is not made
EnqNotFull_Untested(p) ==
  /\ pc[p] = "full"
  /\ Goto(p, "reserve")
  /\ UNCHANGED <<queueVars, localVars, driverVars>>

EnqNotFull(p) ==
  /\ pc[p] = "full"
  /\ ~FullFor(currentWriteIndex[p], m_readIndex)
  /\ Goto(p, "reserve")
  /\ UNCHANGED <<queueVars, localVars, driverVars>>

\* (variant) a plain store instead of the CAS
EnqReserve_Plain(p) ==
  /\ pc[p] = "reserve"
  /\ m_writeIndex' = Inc(currentWriteIndex[p])
  /\ Goto(p, "store")
  /\ UNCHANGED <<m_thequeue, m_count, m_readIndex, m_maximumReadIndex,
                 localVars, driverVars>>

EnqReserve(p) ==
  /\ pc[p] = "reserve"
  /\ m_writeIndex = currentWriteIndex[p]
  /\ m_writeIndex' = Inc(currentWriteIndex[p])
  /\ Goto(p, "store")
  /\ UNCHANGED <<m_thequeue, m_count, m_readIndex, m_maximumReadIndex,
                 localVars, driverVars>>

EnqReserveFails(p) ==
  /\ pc[p] = "reserve"
  /\ m_writeIndex # currentWriteIndex[p]
  /\ Goto(p, "load")
  /\ UNCHANGED <<queueVars, localVars, driverVars>>

EnqStore(p) ==
  /\ pc[p] = "store"
  /\ m_thequeue' = [m_thequeue EXCEPT
       ![countToIndex(currentWriteIndex[p])] = <<p, i[p] + 1>>]
  /\ Goto(p, "commit")
  /\ UNCHANGED <<m_count, m_writeIndex, m_readIndex, m_maximumReadIndex,
                 localVars, driverVars>>

\* (variant) an atomic increment that does not wait for earlier producers
EnqCommit_AnyOrder(p) ==
  /\ pc[p] = "commit"
  /\ m_maximumReadIndex' = Inc(m_maximumReadIndex)
  /\ Goto(p, "count")
  /\ UNCHANGED <<m_thequeue, m_count, m_writeIndex, m_readIndex,
                 localVars, driverVars>>

\* while the CAS fails the producer only yields: a stuttering step
EnqCommit(p) ==
  /\ pc[p] = "commit"
  /\ m_maximumReadIndex = currentWriteIndex[p]
  /\ m_maximumReadIndex' = Inc(currentWriteIndex[p])
  /\ Goto(p, "count")
  /\ UNCHANGED <<m_thequeue, m_count, m_writeIndex, m_readIndex,
                 localVars, driverVars>>

EnqCount(p) ==
  /\ pc[p] = "count"
  /\ m_count' = m_count + 1
  /\ i' = [i EXCEPT ![p] = @ + 1]
  /\ Goto(p, "load")
  /\ UNCHANGED <<m_thequeue, m_writeIndex, m_readIndex, m_maximumReadIndex,
                 localVars, s_count_pop, last_value>>

Producer(p) ==
  \/ ProducerDone(p)
  \/ EnqLoadWrite(p)
  \/ EnqFull(p)
  \/ EnqNotFull(p)
  \/ EnqReserve(p)
  \/ EnqReserveFails(p)
  \/ EnqStore(p)
  \/ EnqCommit(p)
  \/ EnqCount(p)

-----------------------------------------------------------------------------
(* dequeue, called until s_count_pop says that everything was consumed     *)

DeqLoadRead(c) ==
  /\ pc[c] = "load"
  /\ currentReadIndex' = [currentReadIndex EXCEPT ![c] = m_readIndex]
  /\ Goto(c, "empty")
  /\ UNCHANGED <<queueVars, driverVars, currentWriteIndex, a_data>>

EmptyFor(readIndex, maximumReadIndex) ==
  countToIndex(readIndex) = countToIndex(maximumReadIndex)

\* (variant) the counter is adjusted before it is known that an item came out
DeqEmpty_Counted(c) ==
  /\ pc[c] = "empty"
  /\ EmptyFor(currentReadIndex[c], m_maximumReadIndex)
  /\ m_count' = m_count - 1
  /\ Goto(c, "check")
  /\ UNCHANGED <<m_thequeue, m_writeIndex, m_readIndex, m_maximumReadIndex,
                 localVars, driverVars>>

\* m_maximumReadIndex is loaded and nothing looks committed: dequeue returns
\* false
DeqEmpty(c) ==
  /\ pc[c] = "empty"
  /\ EmptyFor(currentReadIndex[c], m_maximumReadIndex)
  /\ Goto(c, "check")
  /\ UNCHANGED <<queueVars, localVars, driverVars>>

DeqNotEmpty(c) ==
  /\ pc[c] = "empty"
  /\ ~EmptyFor(currentReadIndex[c], m_maximumReadIndex)
  /\ Goto(c, "copy")
  /\ UNCHANGED <<queueVars, localVars, driverVars>>

DeqCopy(c) ==
  /\ pc[c] = "copy"
  /\ a_data' = [a_data EXCEPT
       ![c] = m_thequeue[countToIndex(currentReadIndex[c])]]
  /\ Goto(c, "take")
  /\ UNCHANGED <<queueVars, driverVars, currentWriteIndex,
                 currentReadIndex>>

DeqTake(c) ==
  /\ pc[c] = "take"
  /\ m_readIndex = currentReadIndex[c]
  /\ m_readIndex' = Inc(currentReadIndex[c])
  /\ Goto(c, "uncount")
  /\ UNCHANGED <<m_thequeue, m_count, m_writeIndex, m_maximumReadIndex,
                 localVars, driverVars>>

DeqTakeFails(c) ==
  /\ pc[c] = "take"
  /\ m_readIndex # currentReadIndex[c]
  /\ Goto(c, "load")
  /\ UNCHANGED <<queueVars, localVars, driverVars>>

DeqUncount(c) ==
  /\ pc[c] = "uncount"
  /\ m_count' = m_count - 1
  /\ Goto(c, "pop")
  /\ UNCHANGED <<m_thequeue, m_writeIndex, m_readIndex, m_maximumReadIndex,
                 localVars, driverVars>>

ConsumerPop(c) ==
  /\ pc[c] = "pop"
  /\ s_count_pop' = s_count_pop + 1
  /\ last_value' = [last_value EXCEPT ![c] = a_data[c]]
  /\ Goto(c, "check")
  /\ UNCHANGED <<queueVars, localVars, i>>

\* (variant) waits for one item more than there are
ConsumerCheck_Strict(c) ==
  /\ pc[c] = "check"
  /\ Goto(c, IF s_count_pop > TotalItems THEN "done" ELSE "load")
  /\ UNCHANGED <<queueVars, localVars, driverVars>>

ConsumerCheck(c) ==
  /\ pc[c] = "check"
  /\ Goto(c, IF s_count_pop >= TotalItems THEN "done" ELSE "load")
  /\ UNCHANGED <<queueVars, localVars, driverVars>>

Consumer(c) ==
  \/ DeqLoadRead(c)
  \/ DeqEmpty(c)
  \/ DeqNotEmpty(c)
  \/ DeqCopy(c)
  \/ DeqTake(c)
  \/ DeqTakeFails(c)
  \/ DeqUncount(c)
  \/ ConsumerPop(c)
  \/ ConsumerCheck(c)

-----------------------------------------------------------------------------

\* test_queue joins every thread
Joined ==
  /\ \A t \in Threads : pc[t] = "done"
  /\ UNCHANGED vars

Next ==
  \/ \E p \in Producers : Producer(p)
  \/ \E c \in Consumers : Consumer(c)
  \/ Joined

\* The threads share one process and the kernel schedules each of them again
\* and again: a thread that can take a step eventually takes one.
Fairness ==
  /\ \A p \in Producers : WF_vars(Producer(p))
  /\ \A c \in Consumers : WF_vars(Consumer(c))

Spec == Init /\ [][Next]_vars
FairSpec == Spec /\ Fairness

-----------------------------------------------------------------------------
(* Correctness                                                             *)

TypeOK ==
  /\ m_thequeue \in [Slots -> Item]
  /\ m_count \in Int
  /\ m_writeIndex \in Nat
  /\ m_readIndex \in Nat
  /\ m_maximumReadIndex \in Nat
  /\ pc \in [Threads -> ProducerPc \cup ConsumerPc]
  /\ \A p \in Producers : pc[p] \in ProducerPc
  /\ \A c \in Consumers : pc[c] \in ConsumerPc
  /\ currentWriteIndex \in [Producers -> Nat]
  /\ currentReadIndex \in [Consumers -> Nat]
  /\ a_data \in [Consumers -> Item]
  /\ i \in [Producers -> 0 .. ItemNum]
  /\ \A p \in Producers :
       pc[p] \in ProducerPc \ {"load", "done"} => i[p] < ItemNum
  /\ s_count_pop \in Nat
  /\ last_value \in [Consumers -> Item]

\* Index values between two positions, in the width of QUEUE_INT
Distance(from, to) == IF to >= from THEN to - from ELSE to + IndexLimit - from
Position(from, k) ==
  IF IndexLimit > 0 /\ from + k >= IndexLimit THEN from + k - IndexLimit
                                             ELSE from + k

\* Positions taken never pass those committed, those committed never pass
\* those reserved, and the reserved ones never lap the reader: one slot stays
\* free.  The full test of enqueue (lines 47-48) runs on indices that may be
\* stale by the time of its CAS, so this is not what the guard says.
IndexOrder ==
  /\ m_readIndex <= m_maximumReadIndex
  /\ m_maximumReadIndex <= m_writeIndex
  /\ m_writeIndex < m_readIndex + Q_SIZE

\* A position that was reserved and not committed belongs to one producer
\* (line 52), so no two of them store to the same slot or wait for the same
\* turn in the commit loop (line 61).
Reserved(p) == pc[p] \in {"store", "commit"}
ReservedOnce ==
  /\ \A p \in Producers : Reserved(p) =>
       /\ m_maximumReadIndex <= currentWriteIndex[p]
       /\ currentWriteIndex[p] < m_writeIndex
  /\ \A p, q \in Producers :
       /\ p # q
       /\ Reserved(p)
       /\ Reserved(q)
       => currentWriteIndex[p] # currentWriteIndex[q]

\* The queue as its users see it: the committed items, oldest first
Contents ==
  [k \in 1 .. Distance(m_readIndex, m_maximumReadIndex) |->
     m_thequeue[countToIndex(Position(m_readIndex, k - 1))]]

\* m_count (lines 69 and 106) is adjusted after the CAS that moves an index.
\* Once no thread is between the two it equals the number of items.
CountSettles ==
  (\A t \in Threads : pc[t] \notin {"count", "uncount"})
    => m_count = Distance(m_readIndex, m_maximumReadIndex)

\* The ring is a bounded first-in first-out queue: an enqueue takes effect
\* when m_maximumReadIndex passes its slot, a dequeue at the CAS of
\* m_readIndex, and what a consumer copied before that CAS is the oldest item.
Fifo == INSTANCE BoundedFifo WITH
  Capacity <- Q_SIZE - 1,
  Limit <- ItemNum,
  None <- NoItem,
  fifo <- Contents,
  put <- [p \in Producers |-> IF pc[p] = "count" THEN i[p] + 1 ELSE i[p]],
  got <- [c \in Consumers |-> IF pc[c] \in {"uncount", "pop"}
                                THEN a_data[c] ELSE last_value[c]]
ImplementsFifo == Fifo!Spec

\* Every producer gets its items in and every consumer sees the total: the
\* pthread_join calls of test_queue (lines 493-498) return.
AllJoin == <>(\A t \in Threads : pc[t] = "done")
=============================================================================
