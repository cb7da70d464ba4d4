---------------------- MODULE ArrayLockFreeQueueProofs ----------------------
(***************************************************************************)
(* The index protocol of the ring buffer holds for any number of producers *)
(* and consumers, any ring size and any number of items, as long as        *)
(* QUEUE_INT does not wrap (64 bits: not within 2^64 operations).          *)
(***************************************************************************)
EXTENDS ArrayLockFreeQueue, SlotArithmetic, SequenceTheorems, FiniteSetTheorems

ASSUME NeverWraps == IndexLimit = 0

\* What a thread that loaded an index may still rely on although the index
\* has moved since: indices only grow, so a producer past the full test still
\* has a free position behind the one it saw (lines 45-52), and a consumer
\* past the empty test still has a committed item at the one it saw (88-105).
StaleIndices ==
  /\ \A p \in Producers : pc[p] \in {"full", "reserve"} =>
       currentWriteIndex[p] <= m_writeIndex
  /\ \A p \in Producers : pc[p] = "reserve" =>
       currentWriteIndex[p] + 1 < m_readIndex + Q_SIZE
  /\ \A c \in Consumers : pc[c] \in {"empty", "copy", "take"} =>
       currentReadIndex[c] <= m_readIndex
  /\ \A c \in Consumers : pc[c] \in {"copy", "take"} =>
       currentReadIndex[c] < m_maximumReadIndex

IInv == TypeOK /\ IndexOrder /\ StaleIndices /\ ReservedOnce

LEMMA IncIsSuccessor ==
  ASSUME NEW n \in Nat
  PROVE  Inc(n) = n + 1 /\ Inc(n) \in Nat
  BY NeverWraps DEF Inc

LEMMA InSlots ==
  ASSUME NEW n \in Nat
  PROVE  countToIndex(n) \in Slots
  BY QueueAssumption, DivMod DEF countToIndex, Slots

LEMMA InitIInv == Init => IInv
<1> SUFFICES ASSUME Init PROVE IInv
  OBVIOUS
<1>1. TypeOK
  BY QueueAssumption DEF Init, TypeOK, Item, Threads, ProducerPc, ConsumerPc
<1>2. IndexOrder
  BY QueueAssumption DEF Init, IndexOrder
<1>3. StaleIndices
  BY DEF Init, StaleIndices, Threads
<1>4. ReservedOnce
  BY DEF Init, ReservedOnce, Reserved, Threads
<1> QED BY <1>1, <1>2, <1>3, <1>4 DEF IInv

\* One step of the program keeps every variable in its type.
LEMMA NextTypeOK == TypeOK /\ [Next]_vars => TypeOK'
<1> SUFFICES ASSUME TypeOK, [Next]_vars PROVE TypeOK'
  OBVIOUS
<1> USE QueueAssumption
    DEF TypeOK, Goto, queueVars, localVars, driverVars, ProducerPc, ConsumerPc
<1>1. ASSUME NEW p \in Producers, Producer(p) PROVE TypeOK'
  <2> p \in Threads /\ p \notin Consumers
    BY DEF Threads
  <2>1. CASE ProducerDone(p)     BY <2>1 DEF ProducerDone, Threads
  <2>2. CASE EnqLoadWrite(p)     BY <2>2 DEF EnqLoadWrite, Threads
  <2>3. CASE EnqFull(p)          BY <2>3 DEF EnqFull, Threads
  <2>4. CASE EnqNotFull(p)       BY <2>4 DEF EnqNotFull, Threads
  <2>5. CASE EnqReserve(p)
    BY <2>5, IncIsSuccessor DEF EnqReserve, Threads
  <2>6. CASE EnqReserveFails(p)  BY <2>6 DEF EnqReserveFails, Threads
  <2>7. CASE EnqStore(p)
    <3>1. <<p, i[p] + 1>> \in Item
      BY <2>7 DEF EnqStore, Item
    <3> QED BY <2>7, <3>1, InSlots DEF EnqStore, Threads
  <2>8. CASE EnqCommit(p)
    BY <2>8, IncIsSuccessor DEF EnqCommit, Threads
  <2>9. CASE EnqCount(p)         BY <2>9 DEF EnqCount, Threads
  <2> QED BY <1>1, <2>1, <2>2, <2>3, <2>4, <2>5, <2>6, <2>7, <2>8, <2>9
          DEF Producer
<1>2. ASSUME NEW c \in Consumers, Consumer(c) PROVE TypeOK'
  <2> c \in Threads /\ c \notin Producers
    BY DEF Threads
  <2>1. CASE DeqLoadRead(c)      BY <2>1 DEF DeqLoadRead, Threads
  <2>2. CASE DeqEmpty(c)         BY <2>2 DEF DeqEmpty, Threads
  <2>3. CASE DeqNotEmpty(c)      BY <2>3 DEF DeqNotEmpty, Threads
  <2>4. CASE DeqCopy(c)
    BY <2>4, InSlots DEF DeqCopy, Threads
  <2>5. CASE DeqTake(c)
    BY <2>5, IncIsSuccessor DEF DeqTake, Threads
  <2>6. CASE DeqTakeFails(c)     BY <2>6 DEF DeqTakeFails, Threads
  <2>7. CASE DeqUncount(c)       BY <2>7 DEF DeqUncount, Threads
  <2>8. CASE ConsumerPop(c)      BY <2>8 DEF ConsumerPop, Threads
  <2>9. CASE ConsumerCheck(c)    BY <2>9 DEF ConsumerCheck, Threads
  <2> QED BY <1>2, <2>1, <2>2, <2>3, <2>4, <2>5, <2>6, <2>7, <2>8, <2>9
          DEF Consumer
<1>3. CASE Joined
  BY <1>3 DEF Joined, vars
<1>4. CASE UNCHANGED vars
  BY <1>4 DEF vars
<1> QED BY <1>1, <1>2, <1>3, <1>4 DEF Next

\* The full test of enqueue, made on a write index that may be stale, leaves
\* room for one more position as long as the read index it used was current.
LEMMA NotFullMeansRoom ==
  ASSUME NEW w \in Nat, NEW r \in Nat, w < r + Q_SIZE, ~FullFor(w, r)
  PROVE  w + 1 < r + Q_SIZE
<1>1. countToIndex(r + Q_SIZE) = countToIndex(r)
  BY QueueAssumption, FullTurn DEF countToIndex
<1>2. Inc(w) # r + Q_SIZE
  BY <1>1 DEF FullFor
<1> QED BY <1>2, IncIsSuccessor, QueueAssumption

THEOREM IndicesKeepOrder == Spec => []IInv
<1>1. IInv /\ [Next]_vars => IInv'
  <2> SUFFICES ASSUME IInv, [Next]_vars PROVE IInv'
    OBVIOUS
  <2>0. TypeOK'
    BY NextTypeOK DEF IInv
  <2> USE QueueAssumption
      DEF IInv, IndexOrder, StaleIndices, ReservedOnce, Reserved, TypeOK,
          Goto, queueVars, localVars, driverVars
  <2>1. ASSUME NEW p \in Producers, Producer(p) PROVE IInv'
    <3> p \in Threads /\ p \notin Consumers /\ Consumers \subseteq Threads
                      /\ Producers \subseteq Threads
      BY DEF Threads
    <3>1. CASE ProducerDone(p)     BY <2>0, <3>1 DEF ProducerDone
    <3>2. CASE EnqLoadWrite(p)     BY <2>0, <3>2 DEF EnqLoadWrite
    <3>3. CASE EnqFull(p)          BY <2>0, <3>3 DEF EnqFull
    <3>4. CASE EnqNotFull(p)
      <4>1. currentWriteIndex[p] + 1 < m_readIndex + Q_SIZE
        <5>1. currentWriteIndex[p] < m_readIndex + Q_SIZE
          BY <3>4 DEF EnqNotFull
        <5> QED BY <3>4, <5>1, NotFullMeansRoom DEF EnqNotFull
      <4> QED BY <2>0, <3>4, <4>1 DEF EnqNotFull
    <3>5. CASE EnqReserve(p)
      <4>1. m_writeIndex' = m_writeIndex + 1
        BY <3>5, IncIsSuccessor DEF EnqReserve
      <4> QED BY <2>0, <3>5, <4>1 DEF EnqReserve
    <3>6. CASE EnqReserveFails(p)  BY <2>0, <3>6 DEF EnqReserveFails
    <3>7. CASE EnqStore(p)         BY <2>0, <3>7 DEF EnqStore
    <3>8. CASE EnqCommit(p)
      <4>1. m_maximumReadIndex' = m_maximumReadIndex + 1
        BY <3>8, IncIsSuccessor DEF EnqCommit
      <4> QED BY <2>0, <3>8, <4>1 DEF EnqCommit
    <3>9. CASE EnqCount(p)         BY <2>0, <3>9 DEF EnqCount
    <3> QED BY <2>1, <3>1, <3>2, <3>3, <3>4, <3>5, <3>6, <3>7, <3>8, <3>9
            DEF Producer
  <2>2. ASSUME NEW c \in Consumers, Consumer(c) PROVE IInv'
    <3> c \in Threads /\ c \notin Producers /\ Consumers \subseteq Threads
                      /\ Producers \subseteq Threads
      BY DEF Threads
    <3>1. CASE DeqLoadRead(c)      BY <2>0, <3>1 DEF DeqLoadRead
    <3>2. CASE DeqEmpty(c)         BY <2>0, <3>2 DEF DeqEmpty
    <3>3. CASE DeqNotEmpty(c)
      <4>1. currentReadIndex[c] # m_maximumReadIndex
        BY <3>3 DEF DeqNotEmpty, EmptyFor
      <4> QED BY <2>0, <3>3, <4>1 DEF DeqNotEmpty
    <3>4. CASE DeqCopy(c)          BY <2>0, <3>4 DEF DeqCopy
    <3>5. CASE DeqTake(c)
      <4>1. m_readIndex' = m_readIndex + 1
        BY <3>5, IncIsSuccessor DEF DeqTake
      <4> QED BY <2>0, <3>5, <4>1 DEF DeqTake
    <3>6. CASE DeqTakeFails(c)     BY <2>0, <3>6 DEF DeqTakeFails
    <3>7. CASE DeqUncount(c)       BY <2>0, <3>7 DEF DeqUncount
    <3>8. CASE ConsumerPop(c)      BY <2>0, <3>8 DEF ConsumerPop
    <3>9. CASE ConsumerCheck(c)    BY <2>0, <3>9 DEF ConsumerCheck
    <3> QED BY <2>2, <3>1, <3>2, <3>3, <3>4, <3>5, <3>6, <3>7, <3>8, <3>9
            DEF Consumer
  <2>3. CASE Joined
    BY <2>3 DEF Joined, vars
  <2>4. CASE UNCHANGED vars
    BY <2>4 DEF vars
  <2> QED BY <2>1, <2>2, <2>3, <2>4 DEF Next
<1> QED BY InitIInv, <1>1, PTL DEF Spec

\* The invariants the runs check, for every instance.
THEOREM TypeCorrect == Spec => []TypeOK
  BY IndicesKeepOrder, PTL DEF IInv

\* Reader, commit and writer index keep their order and the writer never laps
\* the reader (ArrayLockFreeQueueImp.h:44-67 and 85-109).
THEOREM WriterNeverLaps == Spec => []IndexOrder
  BY IndicesKeepOrder, PTL DEF IInv

\* No two producers ever own the same position (line 52).
THEOREM OneOwnerPerPosition == Spec => []ReservedOnce
  BY IndicesKeepOrder, PTL DEF IInv

-----------------------------------------------------------------------------
(* The ring implements the bounded queue                                   *)

\* What the slots hold: a producer about to commit left its item in its slot
\* (line 55), and a consumer whose CAS is going to succeed copied the item
\* that is still in its slot (lines 100-105).
SlotData ==
  /\ \A p \in Producers : pc[p] = "commit" =>
       m_thequeue[countToIndex(currentWriteIndex[p])] = <<p, i[p] + 1>>
  /\ \A c \in Consumers : pc[c] = "take" /\ currentReadIndex[c] = m_readIndex =>
       a_data[c] = m_thequeue[countToIndex(m_readIndex)]

\* Within the window from the reader to the writer slots are not shared.
LEMMA SlotsInWindow ==
  ASSUME NEW a \in Nat, NEW b \in Nat, NEW r \in Nat,
         r <= a, a < r + Q_SIZE, r <= b, b < r + Q_SIZE, a # b
  PROVE  countToIndex(a) # countToIndex(b)
<1>1. CASE a < b
  <2>1. b < a + Q_SIZE
    BY QueueAssumption
  <2> QED BY <1>1, <2>1, QueueAssumption, SlotsDiffer DEF countToIndex
<1>2. CASE b < a
  <2>1. a < b + Q_SIZE
    BY QueueAssumption
  <2> QED BY <1>2, <2>1, QueueAssumption, SlotsDiffer DEF countToIndex
<1> QED BY <1>1, <1>2

LEMMA SlotDataPreserved == IInv /\ IInv' /\ SlotData /\ [Next]_vars => SlotData'
<1> SUFFICES ASSUME IInv, IInv', SlotData, [Next]_vars PROVE SlotData'
  OBVIOUS
<1> USE QueueAssumption
    DEF SlotData, IInv, TypeOK, Goto, queueVars, localVars, driverVars
<1> Consumers \subseteq Threads /\ Producers \subseteq Threads
    /\ Producers \cap Consumers = {}
  BY DEF Threads
<1>1. ASSUME NEW p \in Producers, Producer(p) PROVE SlotData'
  <2>1. CASE ProducerDone(p)     BY <2>1 DEF ProducerDone
  <2>2. CASE EnqLoadWrite(p)     BY <2>2 DEF EnqLoadWrite
  <2>3. CASE EnqFull(p)          BY <2>3 DEF EnqFull
  <2>4. CASE EnqNotFull(p)       BY <2>4 DEF EnqNotFull
  <2>5. CASE EnqReserve(p)       BY <2>5 DEF EnqReserve
  <2>6. CASE EnqReserveFails(p)  BY <2>6 DEF EnqReserveFails
  <2>7. CASE EnqStore(p)
    <3> DEFINE slot == countToIndex(currentWriteIndex[p])
    <3>1. /\ m_thequeue' = [m_thequeue EXCEPT ![slot] = <<p, i[p] + 1>>]
          /\ pc[p] = "store"
          /\ pc' = [pc EXCEPT ![p] = "commit"]
          /\ UNCHANGED <<m_readIndex, currentWriteIndex, currentReadIndex,
                          a_data, i>>
      BY <2>7 DEF EnqStore
    <3>2. slot \in Slots
      BY InSlots
    <3>3. m_readIndex <= currentWriteIndex[p]
          /\ currentWriteIndex[p] < m_readIndex + Q_SIZE
      BY <3>1 DEF IndexOrder, ReservedOnce, Reserved
    <3>4. ASSUME NEW q \in Producers, q # p, pc[q] = "commit"
          PROVE  countToIndex(currentWriteIndex[q]) # slot
      <4>1. currentWriteIndex[q] # currentWriteIndex[p]
            /\ m_readIndex <= currentWriteIndex[q]
            /\ currentWriteIndex[q] < m_readIndex + Q_SIZE
        BY <3>1, <3>4 DEF IndexOrder, ReservedOnce, Reserved
      <4> QED BY <3>3, <4>1, SlotsInWindow
    <3>5. ASSUME NEW c \in Consumers, pc[c] = "take",
                 currentReadIndex[c] = m_readIndex
          PROVE  countToIndex(m_readIndex) # slot
      <4>1. m_readIndex # currentWriteIndex[p]
        BY <3>1, <3>5 DEF StaleIndices, ReservedOnce, Reserved
      <4>2. m_readIndex <= m_readIndex /\ m_readIndex < m_readIndex + Q_SIZE
        OBVIOUS
      <4> QED BY <3>3, <4>1, <4>2, SlotsInWindow
    <3>6. \A q \in Producers : pc'[q] = "commit" =>
            m_thequeue'[countToIndex(currentWriteIndex'[q])] = <<q, i'[q] + 1>>
      <4> SUFFICES ASSUME NEW q \in Producers, pc'[q] = "commit"
                   PROVE  m_thequeue'[countToIndex(currentWriteIndex[q])]
                            = <<q, i[q] + 1>>
        BY <3>1
      <4>1. CASE q = p
        BY <3>1, <3>2, <4>1
      <4>2. CASE q # p
        <5>1. pc[q] = "commit"
          BY <3>1, <4>2
        <5>2. countToIndex(currentWriteIndex[q]) \in Slots
          BY InSlots
        <5> QED BY <3>1, <3>2, <3>4, <4>2, <5>1, <5>2
      <4> QED BY <4>1, <4>2
    <3>7. \A c \in Consumers :
            pc'[c] = "take" /\ currentReadIndex'[c] = m_readIndex' =>
              a_data'[c] = m_thequeue'[countToIndex(m_readIndex')]
      <4> SUFFICES ASSUME NEW c \in Consumers, pc'[c] = "take",
                          currentReadIndex[c] = m_readIndex
                   PROVE  a_data[c] = m_thequeue'[countToIndex(m_readIndex)]
        BY <3>1
      <4>1. pc[c] = "take"
        BY <3>1
      <4>2. countToIndex(m_readIndex) \in Slots
        BY InSlots
      <4> QED BY <3>1, <3>2, <3>5, <4>1, <4>2
    <3>8. countToIndex(currentWriteIndex'[p])
            = countToIndex(currentWriteIndex[p])
      BY <3>1
    <3> QED BY <3>6, <3>7 DEF countToIndex
  <2>8. CASE EnqCommit(p)        BY <2>8 DEF EnqCommit
  <2>9. CASE EnqCount(p)         BY <2>9 DEF EnqCount
  <2> QED BY <1>1, <2>1, <2>2, <2>3, <2>4, <2>5, <2>6, <2>7, <2>8, <2>9
          DEF Producer
<1>2. ASSUME NEW c \in Consumers, Consumer(c) PROVE SlotData'
  <2>1. CASE DeqLoadRead(c)      BY <2>1 DEF DeqLoadRead
  <2>2. CASE DeqEmpty(c)         BY <2>2 DEF DeqEmpty
  <2>3. CASE DeqNotEmpty(c)      BY <2>3 DEF DeqNotEmpty
  <2>4. CASE DeqCopy(c)          BY <2>4 DEF DeqCopy
  <2>5. CASE DeqTake(c)
    <3>1. m_readIndex' = m_readIndex + 1
      BY <2>5, IncIsSuccessor DEF DeqTake
    <3> QED BY <2>5, <3>1 DEF DeqTake, StaleIndices
  <2>6. CASE DeqTakeFails(c)     BY <2>6 DEF DeqTakeFails
  <2>7. CASE DeqUncount(c)       BY <2>7 DEF DeqUncount
  <2>8. CASE ConsumerPop(c)      BY <2>8 DEF ConsumerPop
  <2>9. CASE ConsumerCheck(c)    BY <2>9 DEF ConsumerCheck
  <2> QED BY <1>2, <2>1, <2>2, <2>3, <2>4, <2>5, <2>6, <2>7, <2>8, <2>9
          DEF Consumer
<1>3. CASE Joined
  BY <1>3 DEF Joined, vars
<1>4. CASE UNCHANGED vars
  BY <1>4 DEF vars
<1> QED BY <1>1, <1>2, <1>3, <1>4 DEF Next

\* Contents without the wrap-around case.
Window(slots, from, to) ==
  [k \in 1 .. to - from |-> slots[countToIndex(from + (k - 1))]]

LEMMA ContentsIsWindow ==
  ASSUME NEW slots, NEW from \in Nat, NEW to \in Nat, from <= to
  PROVE  [k \in 1 .. Distance(from, to) |->
            slots[countToIndex(Position(from, k - 1))]]
           = Window(slots, from, to)
<1>1. Distance(from, to) = to - from
  BY DEF Distance
<1>2. \A k \in 1 .. to - from : Position(from, k - 1) = from + (k - 1)
  BY NeverWraps DEF Position
<1> QED BY <1>1, <1>2 DEF Window

LEMMA WindowIsSequence ==
  ASSUME NEW slots \in [Slots -> Item],
         NEW from \in Nat, NEW to \in Nat, from <= to
  PROVE  /\ Window(slots, from, to) \in Seq(Item)
         /\ Len(Window(slots, from, to)) = to - from
<1> DEFINE n == to - from
<1>1. n \in Nat
  OBVIOUS
<1>2. \A k \in 1 .. n : slots[countToIndex(from + (k - 1))] \in Item
  BY InSlots
<1> HIDE DEF n
<1>3. \A f \in [1 .. n -> Item] : f \in Seq(Item) /\ Len(f) = n
  BY <1>1
<1>4. [k \in 1 .. n |-> slots[countToIndex(from + (k - 1))]]
        \in [1 .. n -> Item]
  BY <1>2
<1> QED BY <1>3, <1>4 DEF Window, n

\* A committed position is one more item at the end of the window.
LEMMA WindowGrows ==
  ASSUME NEW slots \in [Slots -> Item],
         NEW from \in Nat, NEW to \in Nat, from <= to
  PROVE  Window(slots, from, to + 1)
           = Append(Window(slots, from, to), slots[countToIndex(to)])
<1> DEFINE W == Window(slots, from, to)
           x == slots[countToIndex(to)]
           n == to - from
<1>1. W \in Seq(Item) /\ Len(W) = n /\ n \in Nat
  BY WindowIsSequence
<1>2. Append(W, x) = [k \in 1 .. n + 1 |-> IF k = n + 1 THEN x ELSE W[k]]
  BY <1>1
<1>3. \A k \in 1 .. n : W[k] = slots[countToIndex(from + (k - 1))]
  BY DEF Window
<1>4. from + ((n + 1) - 1) = to
  OBVIOUS
<1>5. to + 1 - from = n + 1
  OBVIOUS
<1> HIDE DEF W, x, n
<1>6. x = slots[countToIndex(from + ((n + 1) - 1))]
  BY <1>4 DEF x
<1>7. \A k \in 1 .. n + 1 : k # n + 1 => k \in 1 .. n
  BY <1>1
<1> QED BY <1>2, <1>3, <1>5, <1>6, <1>7 DEF Window, W, x

\* A position taken is the first item of the window leaving it.
LEMMA WindowShrinks ==
  ASSUME NEW slots \in [Slots -> Item],
         NEW from \in Nat, NEW to \in Nat, from < to
  PROVE  /\ Window(slots, from, to) # <<>>
         /\ Head(Window(slots, from, to)) = slots[countToIndex(from)]
         /\ Tail(Window(slots, from, to)) = Window(slots, from + 1, to)
<1> DEFINE W == Window(slots, from, to)
           n == to - from
<1>1. W \in Seq(Item) /\ Len(W) = n /\ n \in Nat \ {0}
  BY WindowIsSequence
<1>2. \A k \in 1 .. n : W[k] = slots[countToIndex(from + (k - 1))]
  BY DEF Window
<1>3. Head(W) = W[1] /\ Tail(W) = [k \in 1 .. n - 1 |-> W[k + 1]] /\ W # <<>>
  <2> HIDE DEF W, n
  <2>1. W # <<>>
    BY <1>1
  <2>2. Head(W) = W[1]
    BY <1>1, <2>1
  <2>3. Tail(W) = [k \in 1 .. n - 1 |-> W[k + 1]]
    <3>1. /\ Tail(W) \in Seq(Item) /\ Len(Tail(W)) = n - 1
          /\ \A k \in 1 .. n - 1 : Tail(W)[k] = W[k + 1]
      BY <1>1, <2>1, HeadTailProperties
    <3>2. Tail(W) \in [1 .. n - 1 -> Item]
      BY <3>1, LenProperties
    <3> QED BY <3>1, <3>2
  <2> QED BY <2>1, <2>2, <2>3
<1>4. from + (1 - 1) = from
  OBVIOUS
<1>5. Window(slots, from + 1, to)
        = [k \in 1 .. n - 1 |-> slots[countToIndex((from + 1) + (k - 1))]]
  <2>1. to - (from + 1) = n - 1
    OBVIOUS
  <2> QED BY <2>1 DEF Window
<1>6. \A k \in 1 .. n - 1 : k + 1 \in 1 .. n
                            /\ (from + 1) + (k - 1) = from + ((k + 1) - 1)
  OBVIOUS
<1>7. W[1] = slots[countToIndex(from)]
  BY <1>1, <1>2, <1>4
<1>8. [k \in 1 .. n - 1 |-> W[k + 1]]
        = [k \in 1 .. n - 1 |-> slots[countToIndex((from + 1) + (k - 1))]]
  <2> HIDE DEF W, n
  <2> QED BY <1>2, <1>6
<1> QED BY <1>3, <1>5, <1>7, <1>8

\* A reserved position shares its slot with no position in the window.
LEMMA WindowAvoids ==
  ASSUME NEW from \in Nat, NEW to \in Nat, NEW at \in Nat,
         from <= to, to <= at, at < from + Q_SIZE
  PROVE  \A k \in 1 .. to - from :
           /\ countToIndex(from + (k - 1)) \in Slots
           /\ countToIndex(from + (k - 1)) # countToIndex(at)
<1> SUFFICES ASSUME NEW k \in 1 .. to - from
             PROVE  /\ countToIndex(from + (k - 1)) \in Slots
                    /\ countToIndex(from + (k - 1)) # countToIndex(at)
  OBVIOUS
<1> DEFINE a == from + (k - 1)
<1>1. /\ a \in Nat /\ a # at
      /\ from <= a /\ a < from + Q_SIZE /\ from <= at
  BY QueueAssumption
<1> HIDE DEF a
<1>2. countToIndex(a) # countToIndex(at)
  BY <1>1, SlotsInWindow
<1>3. countToIndex(a) \in Slots
  BY <1>1, InSlots
<1> QED BY <1>2, <1>3 DEF a

\* The abstract variables of the refinement, as functions of the state.
PutCount == [p \in Producers |-> IF pc[p] = "count" THEN i[p] + 1 ELSE i[p]]
Received == [c \in Consumers |-> IF pc[c] \in {"uncount", "pop"}
                                 THEN a_data[c] ELSE last_value[c]]

LEMMA ContentsNow ==
  ASSUME IInv, IInv'
  PROVE  /\ Contents = Window(m_thequeue, m_readIndex, m_maximumReadIndex)
         /\ Contents' = Window(m_thequeue', m_readIndex', m_maximumReadIndex')
  BY ContentsIsWindow DEF IInv, TypeOK, IndexOrder, Contents

\* Steps that move no index and store nothing are invisible to the users.
LEMMA QuietStep ==
  ASSUME UNCHANGED <<m_thequeue, m_readIndex, m_maximumReadIndex>>
  PROVE  Contents' = Contents
  BY DEF Contents, countToIndex, Position, Distance

\* Each step of the ring is a step of the bounded queue or invisible to it.
LEMMA StepSimulates ==
  IInv /\ IInv' /\ SlotData /\ [Next]_vars => [Fifo!Next]_(Fifo!fifoVars)
<1> SUFFICES ASSUME IInv, IInv', SlotData, [Next]_vars
             PROVE  [Fifo!Next]_(Fifo!fifoVars)
  OBVIOUS
<1> Consumers \subseteq Threads /\ Producers \subseteq Threads
    /\ Producers \cap Consumers = {}
  BY QueueAssumption DEF Threads
<1> USE QueueAssumption
    DEF IInv, TypeOK, Goto, queueVars, localVars, driverVars
<1>0. ASSUME Contents' = Contents, PutCount' = PutCount, Received' = Received
      PROVE  [Fifo!Next]_(Fifo!fifoVars)
  BY <1>0 DEF Fifo!fifoVars, PutCount, Received
<1>1. ASSUME NEW p \in Producers, Producer(p)
      PROVE  [Fifo!Next]_(Fifo!fifoVars)
  <2>1. CASE ProducerDone(p)
    BY <2>1, <1>0, QuietStep DEF ProducerDone, PutCount, Received
  <2>2. CASE EnqLoadWrite(p)
    BY <2>2, <1>0, QuietStep DEF EnqLoadWrite, PutCount, Received
  <2>3. CASE EnqFull(p)
    BY <2>3, <1>0, QuietStep DEF EnqFull, PutCount, Received
  <2>4. CASE EnqNotFull(p)
    BY <2>4, <1>0, QuietStep DEF EnqNotFull, PutCount, Received
  <2>5. CASE EnqReserve(p)
    BY <2>5, <1>0, QuietStep DEF EnqReserve, PutCount, Received
  <2>6. CASE EnqReserveFails(p)
    BY <2>6, <1>0, QuietStep DEF EnqReserveFails, PutCount, Received
  <2>7. CASE EnqStore(p)
    <3>1. PutCount' = PutCount /\ Received' = Received
      BY <2>7 DEF EnqStore, PutCount, Received
    <3>2. Contents' = Contents
      <4> DEFINE at == currentWriteIndex[p]
      <4>1. /\ m_thequeue \in [Slots -> Item] /\ m_readIndex \in Nat
            /\ m_maximumReadIndex \in Nat /\ at \in Nat
            /\ m_readIndex <= m_maximumReadIndex /\ m_maximumReadIndex <= at
            /\ at < m_readIndex + Q_SIZE
        BY <2>7 DEF EnqStore, IndexOrder, ReservedOnce, Reserved
      <4>2. \A s \in Slots :
              s # countToIndex(at) => m_thequeue'[s] = m_thequeue[s]
        BY <2>7 DEF EnqStore
      <4> HIDE DEF at, TypeOK, IInv
      <4>3. Window(m_thequeue', m_readIndex, m_maximumReadIndex)
              = Window(m_thequeue, m_readIndex, m_maximumReadIndex)
        <5>1. \A k \in 1 .. m_maximumReadIndex - m_readIndex :
                /\ countToIndex(m_readIndex + (k - 1)) \in Slots
                /\ countToIndex(m_readIndex + (k - 1)) # countToIndex(at)
          BY <4>1, WindowAvoids
        <5> QED BY <4>2, <5>1 DEF Window
      <4> QED BY <2>7, <4>3, ContentsNow DEF EnqStore
    <3> QED BY <1>0, <3>1, <3>2
  <2>8. CASE EnqCommit(p)
    <3>1. /\ pc[p] = "commit" /\ pc' = [pc EXCEPT ![p] = "count"]
          /\ m_maximumReadIndex' = m_maximumReadIndex + 1
          /\ m_maximumReadIndex = currentWriteIndex[p]
          /\ UNCHANGED <<m_thequeue, m_readIndex, i, a_data, last_value>>
      BY <2>8, IncIsSuccessor DEF EnqCommit
    <3>2. Received' = Received
      BY <3>1 DEF Received
    <3>3. PutCount' = [PutCount EXCEPT ![p] = @ + 1]
          /\ PutCount[p] = i[p] /\ i[p] < ItemNum
      BY <3>1 DEF PutCount
    <3>4. Contents' = Append(Contents, <<p, i[p] + 1>>)
      <4>1. m_thequeue[countToIndex(m_maximumReadIndex)] = <<p, i[p] + 1>>
        BY <3>1 DEF SlotData
      <4>2. Window(m_thequeue, m_readIndex, m_maximumReadIndex + 1)
              = Append(Window(m_thequeue, m_readIndex, m_maximumReadIndex),
                       <<p, i[p] + 1>>)
        BY <4>1, WindowGrows DEF IndexOrder
      <4> QED BY <3>1, <4>2, ContentsNow
    <3>5. Len(Contents) < Q_SIZE - 1
      <4>1. Len(Contents) = m_maximumReadIndex - m_readIndex
        BY ContentsNow, WindowIsSequence DEF IndexOrder
      <4> QED BY <3>1, <4>1 DEF IndexOrder, ReservedOnce, Reserved
    <3>6. Fifo!Put(p)
      BY <3>2, <3>3, <3>4, <3>5 DEF Fifo!Put, PutCount, Received
    <3> QED BY <3>6 DEF Fifo!Next
  <2>9. CASE EnqCount(p)
    BY <2>9, <1>0, QuietStep DEF EnqCount, PutCount, Received
  <2> QED BY <1>1, <2>1, <2>2, <2>3, <2>4, <2>5, <2>6, <2>7, <2>8, <2>9
          DEF Producer
<1>2. ASSUME NEW c \in Consumers, Consumer(c)
      PROVE  [Fifo!Next]_(Fifo!fifoVars)
  <2>1. CASE DeqLoadRead(c)
    BY <2>1, <1>0, QuietStep DEF DeqLoadRead, PutCount, Received
  <2>2. CASE DeqEmpty(c)
    BY <2>2, <1>0, QuietStep DEF DeqEmpty, PutCount, Received
  <2>3. CASE DeqNotEmpty(c)
    BY <2>3, <1>0, QuietStep DEF DeqNotEmpty, PutCount, Received
  <2>4. CASE DeqCopy(c)
    BY <2>4, <1>0, QuietStep DEF DeqCopy, PutCount, Received
  <2>5. CASE DeqTake(c)
    <3>1. /\ pc[c] = "take" /\ pc' = [pc EXCEPT ![c] = "uncount"]
          /\ m_readIndex' = m_readIndex + 1
          /\ m_readIndex = currentReadIndex[c]
          /\ UNCHANGED <<m_thequeue, m_maximumReadIndex, i, a_data, last_value>>
      BY <2>5, IncIsSuccessor DEF DeqTake
    <3>2. PutCount' = PutCount
      BY <3>1 DEF PutCount
    <3>3. Received' = [Received EXCEPT ![c] = a_data[c]]
      BY <3>1 DEF Received
    <3>4. /\ Contents # <<>>
          /\ Head(Contents) = a_data[c]
          /\ Tail(Contents) = Contents'
      <4>1. a_data[c] = m_thequeue[countToIndex(m_readIndex)]
        BY <3>1 DEF SlotData
      <4>2. m_readIndex < m_maximumReadIndex
        BY <3>1 DEF StaleIndices
      <4>3. /\ m_thequeue \in [Slots -> Item]
            /\ m_readIndex \in Nat /\ m_maximumReadIndex \in Nat
        OBVIOUS
      <4> HIDE DEF TypeOK, IInv
      <4>4. /\ Window(m_thequeue, m_readIndex, m_maximumReadIndex) # <<>>
            /\ Head(Window(m_thequeue, m_readIndex, m_maximumReadIndex))
                 = a_data[c]
            /\ Tail(Window(m_thequeue, m_readIndex, m_maximumReadIndex))
                 = Window(m_thequeue, m_readIndex + 1, m_maximumReadIndex)
        BY <4>1, <4>2, <4>3, WindowShrinks
      <4> QED BY <3>1, <4>4, ContentsNow
    <3>5. Fifo!Get(c)
      BY <3>2, <3>3, <3>4 DEF Fifo!Get, PutCount, Received
    <3> QED BY <3>5 DEF Fifo!Next
  <2>6. CASE DeqTakeFails(c)
    BY <2>6, <1>0, QuietStep DEF DeqTakeFails, PutCount, Received
  <2>7. CASE DeqUncount(c)
    BY <2>7, <1>0, QuietStep DEF DeqUncount, PutCount, Received
  <2>8. CASE ConsumerPop(c)
    BY <2>8, <1>0, QuietStep DEF ConsumerPop, PutCount, Received
  <2>9. CASE ConsumerCheck(c)
    BY <2>9, <1>0, QuietStep DEF ConsumerCheck, PutCount, Received
  <2> QED BY <1>2, <2>1, <2>2, <2>3, <2>4, <2>5, <2>6, <2>7, <2>8, <2>9
          DEF Consumer
<1>3. CASE Joined
  BY <1>3, <1>0, QuietStep DEF Joined, vars, PutCount, Received
<1>4. CASE UNCHANGED vars
  BY <1>4, <1>0, QuietStep DEF vars, PutCount, Received
<1> QED BY <1>1, <1>2, <1>3, <1>4 DEF Next

\* The ring of ArrayLockFreeQueueImp.h implements the bounded queue.
THEOREM RingImplementsFifo == Spec => ImplementsFifo
<1>1. Init => SlotData
  BY DEF Init, SlotData, Threads
<1>2. Init => Fifo!Init
  <2> SUFFICES ASSUME Init PROVE Fifo!Init
    OBVIOUS
  <2>1. Contents = <<>>
    BY QueueAssumption DEF Init, Contents, Distance
  <2> QED BY <2>1 DEF Init, Fifo!Init, Threads
<1>3. IInv /\ IInv' /\ SlotData /\ [Next]_vars => SlotData'
  BY SlotDataPreserved
<1>4. IInv /\ IInv' /\ SlotData /\ [Next]_vars => [Fifo!Next]_(Fifo!fifoVars)
  BY StepSimulates
<1> QED BY <1>1, <1>2, <1>3, <1>4, IndicesKeepOrder, PTL
        DEF Spec, ImplementsFifo, Fifo!Spec

-----------------------------------------------------------------------------
(* The element counter                                                     *)

\* The threads between the CAS that moves an index and the change of m_count
\* that goes with it.
Counting == {p \in Producers : pc[p] = "count"}
Uncounting == {c \in Consumers : pc[c] = "uncount"}

\* What m_count is at any moment: the number of items but for the changes that
\* are on their way.
CountBalance ==
  /\ IsFiniteSet(Counting) /\ IsFiniteSet(Uncounting)
  /\ m_count + Cardinality(Counting) - Cardinality(Uncounting)
       = m_maximumReadIndex - m_readIndex

LEMMA CountBalancePreserved ==
  IInv /\ IInv' /\ CountBalance /\ [Next]_vars => CountBalance'
<1> SUFFICES ASSUME IInv, IInv', CountBalance, [Next]_vars PROVE CountBalance'
  OBVIOUS
<1> Consumers \subseteq Threads /\ Producers \subseteq Threads
    /\ Producers \cap Consumers = {}
  BY QueueAssumption DEF Threads
<1> USE DEF IInv, TypeOK, Goto, queueVars, localVars, driverVars
<1>0. /\ IsFiniteSet(Counting) /\ IsFiniteSet(Uncounting)
      /\ Cardinality(Counting) \in Nat /\ Cardinality(Uncounting) \in Nat
  BY FS_CardinalityType DEF CountBalance
<1>1. ASSUME Counting' = Counting, Uncounting' = Uncounting,
             UNCHANGED <<m_count, m_readIndex, m_maximumReadIndex>>
      PROVE  CountBalance'
  BY <1>1 DEF CountBalance
<1>2. ASSUME NEW p \in Producers, Producer(p) PROVE CountBalance'
  <2>1. CASE EnqCommit(p)
    <3>1. /\ m_maximumReadIndex' = m_maximumReadIndex + 1
          /\ m_count' = m_count /\ m_readIndex' = m_readIndex
      BY <2>1, IncIsSuccessor DEF EnqCommit
    <3>2. /\ Counting' = Counting \cup {p} /\ p \notin Counting
          /\ Uncounting' = Uncounting
      BY <2>1 DEF EnqCommit, Counting, Uncounting
    <3>3. /\ IsFiniteSet(Counting')
          /\ Cardinality(Counting') = Cardinality(Counting) + 1
      BY <1>0, <3>2, FS_AddElement
    <3> QED BY <1>0, <3>1, <3>2, <3>3 DEF CountBalance
  <2>2. CASE EnqCount(p)
    <3>1. /\ m_count' = m_count + 1
          /\ UNCHANGED <<m_readIndex, m_maximumReadIndex>>
      BY <2>2 DEF EnqCount
    <3>2. /\ Counting' = Counting \ {p} /\ p \in Counting
          /\ Uncounting' = Uncounting
      BY <2>2 DEF EnqCount, Counting, Uncounting
    <3>3. /\ IsFiniteSet(Counting')
          /\ Cardinality(Counting') = Cardinality(Counting) - 1
      BY <1>0, <3>2, FS_RemoveElement
    <3> QED BY <1>0, <3>1, <3>2, <3>3 DEF CountBalance
  <2>3. CASE ~EnqCommit(p) /\ ~EnqCount(p)
    <3>1. UNCHANGED <<m_count, m_readIndex, m_maximumReadIndex>>
      BY <1>2, <2>3 DEF Producer, ProducerDone, EnqLoadWrite, EnqFull,
         EnqNotFull, EnqReserve, EnqReserveFails, EnqStore
    <3>2. Counting' = Counting /\ Uncounting' = Uncounting
      BY <1>2, <2>3 DEF Producer, ProducerDone, EnqLoadWrite, EnqFull,
         EnqNotFull, EnqReserve, EnqReserveFails, EnqStore, Counting, Uncounting
    <3> QED BY <1>1, <3>1, <3>2
  <2> QED BY <2>1, <2>2, <2>3
<1>3. ASSUME NEW c \in Consumers, Consumer(c) PROVE CountBalance'
  <2>1. CASE DeqTake(c)
    <3>1. /\ m_readIndex' = m_readIndex + 1
          /\ UNCHANGED <<m_count, m_maximumReadIndex>>
      BY <2>1, IncIsSuccessor DEF DeqTake
    <3>2. /\ Uncounting' = Uncounting \cup {c} /\ c \notin Uncounting
          /\ Counting' = Counting
      BY <2>1 DEF DeqTake, Counting, Uncounting
    <3>3. /\ IsFiniteSet(Uncounting')
          /\ Cardinality(Uncounting') = Cardinality(Uncounting) + 1
      BY <1>0, <3>2, FS_AddElement
    <3> QED BY <1>0, <3>1, <3>2, <3>3 DEF CountBalance
  <2>2. CASE DeqUncount(c)
    <3>1. /\ m_count' = m_count - 1
          /\ UNCHANGED <<m_readIndex, m_maximumReadIndex>>
      BY <2>2 DEF DeqUncount
    <3>2. /\ Uncounting' = Uncounting \ {c} /\ c \in Uncounting
          /\ Counting' = Counting
      BY <2>2 DEF DeqUncount, Counting, Uncounting
    <3>3. /\ IsFiniteSet(Uncounting')
          /\ Cardinality(Uncounting') = Cardinality(Uncounting) - 1
      BY <1>0, <3>2, FS_RemoveElement
    <3> QED BY <1>0, <3>1, <3>2, <3>3 DEF CountBalance
  <2>3. CASE ~DeqTake(c) /\ ~DeqUncount(c)
    <3>1. UNCHANGED <<m_count, m_readIndex, m_maximumReadIndex>>
      BY <1>3, <2>3 DEF Consumer, DeqLoadRead, DeqEmpty, DeqNotEmpty, DeqCopy,
         DeqTakeFails, ConsumerPop, ConsumerCheck
    <3>2. Counting' = Counting /\ Uncounting' = Uncounting
      BY <1>3, <2>3 DEF Consumer, DeqLoadRead, DeqEmpty, DeqNotEmpty, DeqCopy,
         DeqTakeFails, ConsumerPop, ConsumerCheck, Counting, Uncounting
    <3> QED BY <1>1, <3>1, <3>2
  <2> QED BY <2>1, <2>2, <2>3
<1>4. CASE Joined \/ UNCHANGED vars
  BY <1>4, <1>1 DEF Joined, vars, Counting, Uncounting
<1> QED BY <1>2, <1>3, <1>4 DEF Next

\* Whenever no thread is between its CAS and its change of m_count
\* (ArrayLockFreeQueueImp.h:69 and 106), m_count is the number of items.
THEOREM CounterSettles == Spec => []CountSettles
<1>1. Init => CountBalance
  <2> SUFFICES ASSUME Init PROVE CountBalance
    OBVIOUS
  <2>1. Counting = {} /\ Uncounting = {}
    BY DEF Init, Counting, Uncounting, Threads
  <2>2. m_count = 0 /\ m_maximumReadIndex - m_readIndex = 0
    BY QueueAssumption DEF Init
  <2> QED BY <2>1, <2>2, FS_EmptySet DEF CountBalance
<1>2. IInv /\ IInv' /\ CountBalance /\ [Next]_vars => CountBalance'
  BY CountBalancePreserved
<1>3. IInv /\ CountBalance => CountSettles
  <2> SUFFICES ASSUME IInv, CountBalance,
                      \A t \in Threads : pc[t] \notin {"count", "uncount"}
               PROVE  m_count = Distance(m_readIndex, m_maximumReadIndex)
    BY DEF CountSettles
  <2>1. Counting = {} /\ Uncounting = {}
    BY DEF Counting, Uncounting, Threads
  <2>2. m_count = m_maximumReadIndex - m_readIndex
    BY <2>1, FS_EmptySet DEF CountBalance, IInv, TypeOK
  <2> QED BY <2>2 DEF Distance, IInv, IndexOrder, TypeOK
<1> QED BY <1>1, <1>2, <1>3, IndicesKeepOrder, PTL DEF Spec
=============================================================================
