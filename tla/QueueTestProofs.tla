--------------------------- MODULE QueueTestProofs ---------------------------
(***************************************************************************)
(* The queues of 4_test_lock_free_queue.cpp: first the pipe and its thread  *)
(* pairs, for any number of writes, then the linked and the locked queues   *)
(* under their programs, for any number of threads and items.               *)
(***************************************************************************)
EXTENDS YPipeDrivers, QueueTest, SlotArithmetic, FiniteSetTheorems

-----------------------------------------------------------------------------
(* The wake-up protocol of ypipe_t                                         *)

\* c always equals w or NULL, NULL exactly while the reader was told "empty",
\* and then there is nothing between the reader and w.  What the reader has
\* prefetched lies between front and w.
Protocol ==
  /\ c \in {w, NULL}
  /\ told = "empty" <=> c = NULL
  /\ c = NULL => front = w
  /\ r = NULL \/ (front <= r /\ r <= w)
  /\ pcR = "take" => r # NULL /\ front < r

PipeInv == TypeOK /\ PipeOrder /\ SetIsExclusive /\ Protocol

THEOREM PipeInvariant == PipeSpec => []PipeInv
<1> USE PipeAssumption
    DEF PipeInv, TypeOK, PipeOrder, SetIsExclusive, Protocol,
        writerVars, readerVars
<1>1. PipeInit => PipeInv
  BY DEF PipeInit, Positions
<1>2. PipeInv /\ [PipeNext]_pipeVars => PipeInv'
  <2> SUFFICES ASSUME PipeInv, [PipeNext]_pipeVars PROVE PipeInv'
    OBVIOUS
  <2>1. ASSUME NEW incomplete \in BOOLEAN, Write(incomplete) PROVE PipeInv'
    <3>1. f' = f \/ f' = back + 1
      BY ONLY <2>1, Zenon DEF Write
    <3>2. /\ writes < MaxWrites /\ writes' = writes + 1
          /\ items' = [items EXCEPT ![back] = writes + 1]
          /\ back' = back + 1
          /\ UNCHANGED <<w, pcW, readerVars, c, told>>
      BY ONLY <2>1, Zenon DEF Write
    <3> HIDE <2>1
    <3>3. back' \in 0 .. writes' /\ writes' \in 0 .. MaxWrites /\ f' \in Nat
      BY <3>1, <3>2
    <3>4. items' \in [Positions -> 0 .. MaxWrites]
      <4>1. writes + 1 \in 0 .. MaxWrites
        BY <3>2
      <4> QED BY <3>2, <4>1
    <3>5. TypeOK'
      BY <3>2, <3>3, <3>4
    <3>6. PipeOrder' /\ SetIsExclusive' /\ Protocol'
      BY <3>1, <3>2
    <3> QED BY <3>5, <3>6
  <2>2. CASE Unwrite
    BY <2>2 DEF Unwrite
  <2>3. CASE FlushAwake
    BY <2>3 DEF FlushAwake
  <2>4. CASE FlushFindsAsleep
    BY <2>4 DEF FlushFindsAsleep
  <2>5. CASE FlushSet
    BY <2>5 DEF FlushSet
  <2>6. CASE CheckPrefetched
    BY <2>6 DEF CheckPrefetched, Prefetched
  <2>7. CASE CheckFetches
    BY <2>7 DEF CheckFetches, Prefetched
  <2>8. CASE CheckFails
    BY <2>8 DEF CheckFails, Prefetched
  <2>9. CASE Take
    <3>1. front \in Positions
      BY DEF Positions
    <3> QED BY <2>9, <3>1 DEF Take
  <2>10. CASE Probe
    BY <2>10 DEF Probe
  <2>11. CASE UNCHANGED pipeVars
    BY <2>11 DEF pipeVars
  <2> QED BY <2>1, <2>2, <2>3, <2>4, <2>5, <2>6, <2>7, <2>8, <2>9, <2>10,
             <2>11 DEF PipeNext, Writer, Reader, Flush
<1> QED BY <1>1, <1>2, PTL DEF PipeSpec

\* Types, for the reader of the run's results.
THEOREM PipeTypeCorrect == PipeSpec => []TypeOK
  BY PipeInvariant, PTL DEF PipeInv

\* Incomplete or unflushed items never reach the reader (ypipe.hpp:61-64).
THEOREM ReaderStaysBehind == PipeSpec => []PipeOrder
  BY PipeInvariant, PTL DEF PipeInv

\* The non-atomic store of flush (lines 106-111) is never concurrent with
\* another change of c.
THEOREM PlainStoreIsSafe == PipeSpec => []SetIsExclusive
  BY PipeInvariant, PTL DEF PipeInv

\* Whenever something is flushed past a sleeping reader, flush says so.
THEOREM WakeupIsOwed == PipeSpec => []NoMissedWakeup
<1>1. PipeInv => NoMissedWakeup
  BY DEF PipeInv, Protocol, NoMissedWakeup
<1> QED BY <1>1, PipeInvariant, PTL

-----------------------------------------------------------------------------
(* The pipe as its two users see it                                        *)

\* What is written and not flushed, and what is flushed and not read.
Pending == Segment(w, back)
Visible == Segment(front, w)

LEMMA PipeContents ==
  /\ Pending = Stretch(items, w, back)
  /\ Visible = Stretch(items, front, w)
  /\ Pending' = Stretch(items', w', back')
  /\ Visible' = Stretch(items', front', w')
  BY DEF Pending, Visible, Segment, Stretch

\* PipeInv puts every pointer of the pipe on a slot of the model.
LEMMA PointersAreSlots ==
  PipeInv => /\ {w, f, back, front} \subseteq Nat
          /\ front <= w /\ w <= f /\ f <= back
  BY PipeAssumption DEF PipeInv, TypeOK, PipeOrder, Positions

\* A flush, however it gets its pointer into c.
LEMMA FlushSimulates ==
  ASSUME PipeInv, w' = f, UNCHANGED <<items, back, f, front, writes, value>>
  PROVE  Promise!Flush
<1>1. /\ w \in Nat /\ f \in Nat /\ back \in Nat /\ front \in Nat
      /\ front <= w /\ w <= f /\ f <= back
  BY PointersAreSlots
<1>2. Moves(Stretch(items, front, w), Stretch(items, w, back), f - w,
            Stretch(items, front, f), Stretch(items, f, back))
  BY <1>1, StretchMoves
<1>3. Moves(Visible, Pending, f - w, Visible', Pending')
  BY <1>2, PipeContents
<1>4. f' - w' = 0
  BY <1>1
<1> QED BY <1>3, <1>4 DEF Promise!Flush, Moves, Pending, Visible

\* Each step of the two threads is a step of the promised pipe or invisible.
LEMMA PipeStepSimulates ==
  PipeInv /\ PipeInv' /\ [PipeNext]_pipeVars => [Promise!Next]_(Promise!fpVars)
<1> SUFFICES ASSUME PipeInv, PipeInv', [PipeNext]_pipeVars
             PROVE  [Promise!Next]_(Promise!fpVars)
  OBVIOUS
<1>0. /\ w \in Nat /\ f \in Nat /\ back \in Nat /\ front \in Nat
      /\ front <= w /\ w <= f /\ f <= back /\ w <= back
  BY PointersAreSlots
<1> USE DEF writerVars, readerVars
<1>1. ASSUME UNCHANGED <<items, w, f, back, front, writes, value>>
      PROVE  [Promise!Next]_(Promise!fpVars)
  <2>1. Pending' = Pending /\ Visible' = Visible
    BY <1>1, PipeContents
  <2> QED BY <1>1, <2>1 DEF Promise!fpVars, Pending, Visible
<1>2. ASSUME NEW incomplete \in BOOLEAN, Write(incomplete)
      PROVE  [Promise!Next]_(Promise!fpVars)
  <2>1. /\ writes < MaxWrites /\ writes' = writes + 1
        /\ items' = [items EXCEPT ![back] = writes + 1]
        /\ back' = back + 1 /\ w' = w /\ front' = front /\ value' = value
        /\ f' = IF incomplete THEN f ELSE back + 1
    BY <1>2 DEF Write
  <2>2. /\ items'[back] = writes + 1
        /\ \A p \in Nat : p < back => items'[p] = items[p]
    BY <1>0, <2>1 DEF PipeInv, TypeOK
  <2>4. Pending' = Append(Pending, writes + 1)
    <3>1. Stretch(items', w, back + 1) = Append(Stretch(items', w, back), items'[back])
      BY <1>0, StretchGrows
    <3>2. Stretch(items', w, back) = Stretch(items, w, back)
      BY <1>0, <2>2, StretchDependsOn
    <3> QED BY <2>1, <2>2, <3>1, <3>2, PipeContents
  <2>5. Visible' = Visible
    <3>1. \A p \in Nat : front <= p /\ p < w => items'[p] = items[p]
      BY <1>0, <2>2
    <3>2. Stretch(items', front, w) = Stretch(items, front, w)
      BY <1>0, <3>1, StretchDependsOn
    <3> QED BY <2>1, <3>2, PipeContents
  <2>6. f' - w' = IF incomplete THEN f - w ELSE Len(Pending) + 1
    <3>1. Len(Pending) = back - w
      BY <1>0, PipeContents, StretchIsSequence
    <3> QED BY <1>0, <2>1, <3>1
  <2>7. Promise!Write(incomplete)
    BY <2>1, <2>4, <2>5, <2>6 DEF Promise!Write, Pending, Visible
  <2> QED BY <2>7 DEF Promise!Next
<1>3. ASSUME Unwrite PROVE [Promise!Next]_(Promise!fpVars)
  <2>1. /\ back' = back - 1
        /\ UNCHANGED <<items, w, f, front, writes, value>>
    BY <1>3 DEF Unwrite
  <2>2. f <= back - 1 /\ back - 1 \in Nat
    BY <1>0, <1>3 DEF Unwrite
  <2>3. Len(Pending) = back - w
    BY <1>0, PipeContents, StretchIsSequence
  <2>4. IsFront(Pending, Pending')
    <3>1. IsFront(Stretch(items, w, back), Stretch(items, w, back - 1))
      BY <1>0, <2>2, StretchCut
    <3> QED BY <2>1, <3>1, PipeContents
  <2>5. Visible' = Visible
    BY <2>1, PipeContents
  <2>6. Len(Pending) > f - w
    BY <1>0, <2>2, <2>3
  <2>7. Promise!Unwrite
    BY <2>1, <2>4, <2>5, <2>6 DEF Promise!Unwrite, IsFront, Pending, Visible
  <2> QED BY <2>7 DEF Promise!Next
<1>4. CASE FlushAwake
  BY <1>4, FlushSimulates DEF FlushAwake, Promise!Next
<1>5. CASE FlushFindsAsleep
  BY <1>5, <1>1 DEF FlushFindsAsleep
<1>6. CASE FlushSet
  BY <1>6, FlushSimulates DEF FlushSet, Promise!Next
<1>7. CASE CheckPrefetched
  BY <1>7, <1>1 DEF CheckPrefetched
<1>8. CASE CheckFetches
  BY <1>8, <1>1 DEF CheckFetches
<1>9. CASE CheckFails
  BY <1>9, <1>1 DEF CheckFails
<1>10. ASSUME Take PROVE [Promise!Next]_(Promise!fpVars)
  <2>1. /\ value' = items[front] /\ front' = front + 1
        /\ UNCHANGED <<items, w, f, back, writes>>
    BY <1>10 DEF Take
  <2>2. front < w
    BY <1>10 DEF Take, PipeInv, PipeOrder
  <2>3. /\ Visible # <<>> /\ value' = Head(Visible) /\ Visible' = Tail(Visible)
    BY <1>0, <2>1, <2>2, PipeContents, StretchShrinks
  <2>4. Pending' = Pending
    BY <2>1, PipeContents
  <2>5. Promise!Read
    BY <2>1, <2>3, <2>4 DEF Promise!Read, Pending, Visible
  <2> QED BY <2>5 DEF Promise!Next
<1>11. CASE Probe
  BY <1>11, <1>1 DEF Probe
<1>12. CASE UNCHANGED pipeVars
  BY <1>12, <1>1 DEF pipeVars
<1> QED BY <1>2, <1>3, <1>4, <1>5, <1>6, <1>7, <1>8, <1>9, <1>10, <1>11, <1>12
        DEF PipeNext, Writer, Reader, Flush

\* ypipe_t keeps what it promises to its writer and its reader (ypipe.hpp:58-160):
\* items come out in the order they went in, none before the flush that
\* includes it, none of an unfinished group.
THEOREM PipeKeepsPromise == PipeSpec => ImplementsFlushedPipe
<1>1. PipeInit => Promise!Init
  <2> SUFFICES ASSUME PipeInit PROVE Promise!Init
    OBVIOUS
  <2>1. Segment(0, 0) = <<>>
    BY DEF Segment
  <2> QED BY <2>1 DEF PipeInit, Promise!Init
<1>2. PipeInv /\ PipeInv' /\ [PipeNext]_pipeVars => [Promise!Next]_(Promise!fpVars)
  BY PipeStepSimulates
<1> QED BY <1>1, <1>2, PipeInvariant, PTL
        DEF PipeSpec, ImplementsFlushedPipe, Promise!Spec

-----------------------------------------------------------------------------
(* The thread pairs of the queue test                                      *)

\* The drivers of 4_test_lock_free_queue.cpp (316-474) touch the pipe through
\* its operations only, so what holds of every pipe holds of theirs, whatever
\* the number of items and the size of a group.
THEOREM DriversUsePipe == DriverSpec => PipeSpec
<1>1. DriverInit => PipeInit
  BY DEF DriverInit
<1>2. [DriverNext]_threadVars => [PipeNext]_pipeVars
  <2> SUFFICES ASSUME [DriverNext]_threadVars PROVE [PipeNext]_pipeVars
    OBVIOUS
  <2>1. CASE ProducerThread
    <3>1. CASE ProducerWrites
      <4>1. InGroup \in BOOLEAN
        BY DEF InGroup
      <4> QED BY <3>1, <4>1 DEF ProducerWrites, PipeNext, Writer
    <3>2. CASE ProducerFlushes
      BY <3>2 DEF ProducerFlushes, PipeNext, Writer, Flush
    <3>3. CASE ProducerNotifies
      BY <3>3 DEF ProducerNotifies
    <3>4. CASE ProducerReturns
      BY <3>4 DEF ProducerReturns
    <3> QED BY <2>1, <3>1, <3>2, <3>3, <3>4 DEF ProducerThread
  <2>2. CASE ConsumerThread
    <3>1. CASE ConsumerReads
      BY <3>1 DEF ConsumerReads, PipeNext, Reader
    <3>2. CASE ConsumerFindsNothing
      BY <3>2 DEF ConsumerFindsNothing, PipeNext, Reader
    <3>3. CASE ConsumerWaits
      BY <3>3 DEF ConsumerWaits
    <3>4. CASE ConsumerChecks
      BY <3>4 DEF ConsumerChecks
    <3> QED BY <2>2, <3>1, <3>2, <3>3, <3>4 DEF ConsumerThread
  <2>3. CASE SpuriousWake
    BY <2>3 DEF SpuriousWake
  <2>4. CASE FreeClient
    BY <2>4 DEF FreeClient, PipeNext
  <2>5. CASE DriverJoined \/ UNCHANGED threadVars
    BY <2>5 DEF DriverJoined, threadVars
  <2> QED BY <2>1, <2>2, <2>3, <2>4, <2>5 DEF DriverNext
<1> QED BY <1>1, <1>2, PTL DEF DriverSpec, PipeSpec

\* The wake-up protocol and the promise, for the three pairs of threads.
COROLLARY DriversKeepPromise ==
  DriverSpec => /\ [](PipeOrder /\ SetIsExclusive /\ NoMissedWakeup)
                /\ ImplementsFlushedPipe
BY DriversUsePipe, ReaderStaysBehind, PlainStoreIsSafe, WakeupIsOwed,
   PipeKeepsPromise, PTL

-----------------------------------------------------------------------------
(* The linked queue                                                        *)
Nodes == List!Nodes
Null == List!Null
Indices == [node : 0 .. MaxNode, version : Nat]
HeadIndices == [idx : Indices, consumed : BOOLEAN]
AnyItem == (Producers \X (1 .. ItemNum)) \cup {NoItem}

-----------------------------------------------------------------------------
(* The inductive invariant of the linked queue                             *)

ProducerPlaces == {"out", "new", "free", "unfree", "clear", "swap", "link"}
ConsumerPlaces == {"out", "next", "flag", "move", "take", "give", "store", "push"}

LinkedTypes ==
  /\ next \in [Nodes -> Indices]
  /\ rawItem \in [Nodes -> AnyItem]
  /\ nextNodeIdx \in Nodes
  /\ head \in HeadIndices /\ tail \in Indices /\ freeListHead \in Indices
  /\ at \in [Threads -> ProducerPlaces \cup ConsumerPlaces]
  /\ mine \in [Threads -> Indices \cup HeadIndices]
  /\ other \in [Threads -> Indices]
  /\ i \in [Threads -> Nat]
  /\ \A p \in Producers : at[p] \in ProducerPlaces /\ i[p] <= ItemNum
  /\ \A t \in Consumers : at[t] \in ConsumerPlaces

\* In what follows the list is made of the nodes L[a] to L[b], the free list of
\* F[d] to F[1], and V[n] is the present version of node n.
Ref(n, V) == List!Index(n, V[n])
Out(n, L, a, b) == \A k \in a .. b : L[k] # n

Given(n) == n \in 1 .. nextNodeIdx

Chain(L, a, b, V) ==
  /\ \A k \in a .. b : Given(L[k])
  /\ \A j, k \in a .. b : L[j] = L[k] => j = k
  /\ head.idx = Ref(L[a], V) /\ tail = Ref(L[b], V)
  /\ next[L[b]] = Null
  /\ \A k \in a .. b - 1 :
       \/ next[L[k]] = Ref(L[k + 1], V)
       \/ next[L[k]] = Null /\ \E p \in Producers : at[p] = "link" /\ other[p] = Ref(L[k], V)

\* A producer between its exchange of tail and its store of the link
Links(L, a, b, V) ==
  /\ \A p \in Producers : at[p] = "link" =>
       \E k \in a .. b - 1 : /\ other[p] = Ref(L[k], V) /\ mine[p] = Ref(L[k + 1], V)
                             /\ next[L[k]] = Null
  /\ \A p, q \in Producers :
       at[p] = "link" /\ at[q] = "link" /\ other[p] = other[q] => p = q

FreeChain(L, a, b, F, d, V) ==
  /\ \A k \in 1 .. d : Given(F[k]) /\ Out(F[k], L, a, b)
  /\ \A j, k \in 1 .. d : F[j] = F[k] => j = k
  /\ freeListHead = IF d = 0 THEN Null ELSE Ref(F[d], V)
  /\ \A k \in 1 .. d : next[F[k]] = IF k = 1 THEN Null ELSE Ref(F[k - 1], V)

\* The index of the node a thread has to itself
Held(t) == IF at[t] \in {"clear", "swap"} THEN mine[t] ELSE mine[t].idx
Holding(t) == at[t] \in {"clear", "swap", "give", "store", "push"}

HandKnows(t, L, a, b, F, d, V) ==
  Holding(t) =>
    /\ Given(Held(t).node) /\ Held(t).version = V[Held(t).node]
    /\ Out(Held(t).node, L, a, b) /\ Out(Held(t).node, F, 1, d)
    /\ Held(t) \in Indices
    /\ at[t] = "swap" => next[Held(t).node] = Null
    /\ at[t] = "push" => next[Held(t).node] = other[t]

Hands(L, a, b, F, d, V) ==
  /\ \A t \in Threads : HandKnows(t, L, a, b, F, d, V)
  /\ \A t, u \in Threads :
       Holding(t) /\ Holding(u) /\ Held(t).node = Held(u).node => t = u

Somewhere(L, a, b, F, d) ==
  \A n \in 1 .. nextNodeIdx :
    \/ \E k \in a .. b : L[k] = n
    \/ \E k \in 1 .. d : F[k] = n
    \/ \E t \in Threads : Holding(t) /\ Held(t).node = n

Untouched(V) == \A n \in Nodes : n > nextNodeIdx => next[n] = Null /\ V[n] = 0

\* An index from an earlier time: its node may be used anew since
Older(idx, V) == Given(idx.node) /\ idx.version <= V[idx.node]
Current(idx, V) == idx.version = V[idx.node]

\* What try_get_node_from_free_list relies on: no index comes back
PopKnows(p, F, d, V) ==
  at[p] \in {"free", "unfree"} =>
    /\ mine[p] \in Indices /\ Older(mine[p], V)
    /\ Current(mine[p], V) =>
         /\ ~Out(mine[p].node, F, 1, d)
         /\ at[p] = "unfree" => other[p] = next[mine[p].node]

\* A node that was head does not become head again
NotAhead(n, L, a, b) ==
  /\ Out(n, L, a + 1, b)
  /\ \A p \in Producers : at[p] \in {"clear", "swap"} => mine[p].node # n

\* What try_dequeue relies on
DequeueKnows(t, L, a, b, V) ==
  /\ at[t] \in {"next", "flag", "move"} =>
       /\ mine[t] \in HeadIndices
       /\ Older(mine[t].idx, V)
       /\ Current(mine[t].idx, V) => NotAhead(mine[t].idx.node, L, a, b)
  /\ at[t] = "move" =>
       /\ other[t] # Null
       /\ mine[t].idx = head.idx => other[t] = next[head.idx.node]
  /\ at[t] = "flag" => ~mine[t].consumed

Know(L, a, b, F, d, V) ==
  /\ \A p \in Producers : PopKnows(p, F, d, V)
  /\ \A t \in Consumers : DequeueKnows(t, L, a, b, V)

Shape(L, a, b, F, d, V) ==
  /\ Chain(L, a, b, V) /\ Links(L, a, b, V) /\ FreeChain(L, a, b, F, d, V)
  /\ Hands(L, a, b, F, d, V) /\ Somewhere(L, a, b, F, d) /\ Untouched(V)
  /\ Know(L, a, b, F, d, V)

IsShape(L, a, b, F, d, V) ==
  /\ L \in [Nat -> Nodes] /\ F \in [Nat -> Nodes] /\ V \in [Nodes -> Nat]
  /\ a \in Nat /\ b \in Nat /\ d \in Nat /\ a <= b
  /\ LinkedTypes /\ Shape(L, a, b, F, d, V)

-----------------------------------------------------------------------------
(* Steps that change the locals of a thread, and head's flag at most       *)

Others(t) ==
  \A u \in Threads : u # t =>
    at'[u] = at[u] /\ mine'[u] = mine[u] /\ other'[u] = other[u]

LEMMA LocalStep ==
  ASSUME NEW L, NEW F, NEW V, NEW a, NEW b, NEW d, IsShape(L, a, b, F, d, V),
         NEW t \in Threads, Others(t), LinkedTypes',
         UNCHANGED <<next, nextNodeIdx, tail, freeListHead>>, head'.idx = head.idx,
         at[t] # "link", at'[t] # "link",
         at[t] \notin {"clear", "swap"}, at'[t] \notin {"clear", "swap"},
         Holding(t)' <=> Holding(t), Holding(t) => Held(t)' = Held(t),
         at'[t] = "push" => next[Held(t)'.node] = other'[t],
         t \in Producers => PopKnows(t, F, d, V)',
         t \in Consumers => DequeueKnows(t, L, a, b, V)'
  PROVE  IsShape(L, a, b, F, d, V)'
<1> USE DEF IsShape, Others
<1>0. UNCHANGED <<next, nextNodeIdx, tail, freeListHead>> /\ head'.idx = head.idx
  OBVIOUS
<1>1. /\ \A p \in Producers : at'[p] = "link" <=> at[p] = "link"
      /\ \A p \in Producers : at[p] = "link" => mine'[p] = mine[p] /\ other'[p] = other[p]
  BY DEF Threads
<1>2. Chain(L, a, b, V)'
  BY <1>0, <1>1 DEF Shape, Chain, Ref, Given
<1>3. Links(L, a, b, V)'
  BY <1>0, <1>1 DEF Shape, Links, Ref
<1>4. FreeChain(L, a, b, F, d, V)'
  BY <1>0 DEF Shape, FreeChain, Ref, Given, Out
<1>5. /\ \A u \in Threads : Holding(u)' <=> Holding(u)
      /\ \A u \in Threads : Holding(u) => Held(u)' = Held(u)
  BY DEF Holding, Held
<1>6. Hands(L, a, b, F, d, V)'
  <2>1. \A u \in Threads : HandKnows(u, L, a, b, F, d, V)'
    BY <1>0, <1>5 DEF Shape, Hands, HandKnows, Given, Out
  <2> QED BY <2>1, <1>5 DEF Shape, Hands
<1>7. Somewhere(L, a, b, F, d)'
  BY <1>0, <1>5 DEF Shape, Somewhere
<1>8. Untouched(V)'
  BY <1>0 DEF Shape, Untouched
<1>9. Know(L, a, b, F, d, V)'
  <2>1. \A p \in Producers : PopKnows(p, F, d, V)'
    BY <1>0 DEF Shape, Know, PopKnows, Older, Current, Given, Out, Threads
  <2>2. \A n : NotAhead(n, L, a, b) => NotAhead(n, L, a, b)'
    BY DEF NotAhead, Out, Threads
  <2>3. \A u \in Consumers : DequeueKnows(u, L, a, b, V)'
    BY <1>0, <2>2 DEF Shape, Know, DequeueKnows, Older, Current, Given, Threads
  <2> QED BY <2>1, <2>3 DEF Know
<1> QED BY <1>2, <1>3, <1>4, <1>6, <1>7, <1>8, <1>9 DEF Shape

\* What a step of a thread that changes no word of the queue has to show.
LEMMA TypesOfLocals ==
  ASSUME LinkedTypes, UNCHANGED List!queueVars, UNCHANGED i, NEW t \in Threads,
         at' \in [Threads -> ProducerPlaces \cup ConsumerPlaces],
         mine' \in [Threads -> Indices \cup HeadIndices],
         other' \in [Threads -> Indices],
         Others(t),
         t \in Producers => at'[t] \in ProducerPlaces,
         t \in Consumers => at'[t] \in ConsumerPlaces
  PROVE  LinkedTypes'
  BY DEF LinkedTypes, List!queueVars, Others, Threads

LEMMA MaxNodeIsNat == MaxNode \in Nat
<1>1. Cardinality(Producers) \in Nat
  BY TestAssumption, FS_CardinalityType
<1>2. ItemNum \in Nat
  BY TestAssumption
<1> QED BY <1>1, <1>2 DEF MaxNode

LEMMA NullIsIndex == Null \in Indices /\ Null.node = 0 /\ \A n : Given(n) => n # 0
<1> QED BY MaxNodeIsNat DEF Null, List!Null, List!Index, Indices, Given

LEMMA GivenIsNode ==
  ASSUME LinkedTypes, NEW n, Given(n)
  PROVE  n \in Nodes
<1> QED BY MaxNodeIsNat DEF Given, LinkedTypes, Nodes, List!Nodes

LEMMA LoadFreeKeeps ==
  ASSUME NEW L, NEW F, NEW V, NEW a, NEW b, NEW d, IsShape(L, a, b, F, d, V),
         NEW p \in Producers, List!LoadFree(p), UNCHANGED i
  PROVE  IsShape(L, a, b, F, d, V)'
<1> USE DEF List!LoadFree, List!Goto, List!queueVars
<1>1. p \in Threads /\ p \notin Consumers
  BY TestAssumption DEF Threads
<1>2. /\ LinkedTypes
      /\ at \in [Threads -> ProducerPlaces \cup ConsumerPlaces]
      /\ mine \in [Threads -> Indices \cup HeadIndices]
      /\ freeListHead \in Indices
  BY DEF IsShape, LinkedTypes
<1>3. /\ Others(p) /\ UNCHANGED List!queueVars /\ UNCHANGED other
      /\ mine'[p] = freeListHead
      /\ at'[p] = (IF freeListHead = Null THEN "new" ELSE "free")
      /\ at' \in [Threads -> ProducerPlaces \cup ConsumerPlaces]
      /\ mine' \in [Threads -> Indices \cup HeadIndices]
  BY <1>1, <1>2 DEF Others, ProducerPlaces, Null
<1>4. LinkedTypes'
  BY <1>1, <1>2, <1>3, TypesOfLocals DEF LinkedTypes, ProducerPlaces
<1>5. PopKnows(p, F, d, V)'
  <2>1. SUFFICES ASSUME freeListHead # Null PROVE PopKnows(p, F, d, V)'
    BY <1>3 DEF PopKnows
  <2>2. d # 0 /\ freeListHead = Ref(F[d], V) /\ Given(F[d])
    BY <2>1 DEF IsShape, Shape, FreeChain
  <2> QED BY <2>2, <1>2, <1>3
             DEF PopKnows, Older, Current, Out, Ref, Given, List!Index, IsShape, LinkedTypes
<1>6. at[p] = "out"
  OBVIOUS
<1> QED BY <1>1, <1>3, <1>4, <1>5, <1>6, LocalStep DEF Holding, List!queueVars

LEMMA LoadFreeNextKeeps ==
  ASSUME NEW L, NEW F, NEW V, NEW a, NEW b, NEW d, IsShape(L, a, b, F, d, V),
         NEW p \in Producers, List!LoadFreeNext(p), UNCHANGED i
  PROVE  IsShape(L, a, b, F, d, V)'
<1> USE DEF List!LoadFreeNext, List!Goto, List!queueVars
<1>1. p \in Threads /\ p \notin Consumers
  BY TestAssumption DEF Threads
<1>2. /\ LinkedTypes
      /\ at \in [Threads -> ProducerPlaces \cup ConsumerPlaces]
      /\ other \in [Threads -> Indices]
      /\ next \in [Nodes -> Indices]
      /\ at[p] = "free" /\ PopKnows(p, F, d, V) /\ nextNodeIdx \in Nodes
  BY DEF IsShape, LinkedTypes, Shape, Know
<1>3. mine[p].node \in Nodes
  BY <1>2, GivenIsNode DEF PopKnows, Older
<1>4. /\ Others(p) /\ UNCHANGED List!queueVars /\ UNCHANGED mine
      /\ other'[p] = next[mine[p].node] /\ at'[p] = "unfree"
      /\ at' \in [Threads -> ProducerPlaces \cup ConsumerPlaces]
      /\ other' \in [Threads -> Indices]
  BY <1>1, <1>2, <1>3 DEF Others, ProducerPlaces
<1>5. LinkedTypes'
  BY <1>1, <1>2, <1>4, TypesOfLocals DEF LinkedTypes, ProducerPlaces
<1>6. PopKnows(p, F, d, V)'
  BY <1>2, <1>4 DEF PopKnows, Older, Current, Out, Given
<1> QED BY <1>1, <1>2, <1>4, <1>5, <1>6, LocalStep DEF Holding, List!queueVars

LEMMA PopFreeFailsKeeps ==
  ASSUME NEW L, NEW F, NEW V, NEW a, NEW b, NEW d, IsShape(L, a, b, F, d, V),
         NEW p \in Producers, List!PopFreeFails(p), UNCHANGED i
  PROVE  IsShape(L, a, b, F, d, V)'
<1> USE DEF List!PopFreeFails, List!Goto, List!queueVars
<1>1. p \in Threads /\ p \notin Consumers
  BY TestAssumption DEF Threads
<1>2. /\ LinkedTypes
      /\ at \in [Threads -> ProducerPlaces \cup ConsumerPlaces]
      /\ mine \in [Threads -> Indices \cup HeadIndices]
      /\ freeListHead \in Indices
  BY DEF IsShape, LinkedTypes
<1>3. /\ Others(p) /\ UNCHANGED List!queueVars /\ UNCHANGED other
      /\ mine'[p] = freeListHead
      /\ at'[p] = (IF freeListHead = Null THEN "new" ELSE "free")
      /\ at' \in [Threads -> ProducerPlaces \cup ConsumerPlaces]
      /\ mine' \in [Threads -> Indices \cup HeadIndices]
  BY <1>1, <1>2 DEF Others, ProducerPlaces, Null
<1>4. LinkedTypes'
  BY <1>1, <1>2, <1>3, TypesOfLocals DEF LinkedTypes, ProducerPlaces
<1>5. PopKnows(p, F, d, V)'
  <2>1. SUFFICES ASSUME freeListHead # Null PROVE PopKnows(p, F, d, V)'
    BY <1>3 DEF PopKnows
  <2>2. d # 0 /\ freeListHead = Ref(F[d], V) /\ Given(F[d])
    BY <2>1 DEF IsShape, Shape, FreeChain
  <2> QED BY <2>2, <1>2, <1>3
             DEF PopKnows, Older, Current, Out, Ref, Given, List!Index, IsShape, LinkedTypes
<1>6. at[p] = "unfree"
  OBVIOUS
<1> QED BY <1>1, <1>3, <1>4, <1>5, <1>6, LocalStep DEF Holding, List!queueVars

LEMMA LoadHeadKeeps ==
  ASSUME NEW L, NEW F, NEW V, NEW a, NEW b, NEW d, IsShape(L, a, b, F, d, V),
         NEW t \in Consumers, List!LoadHead(t), UNCHANGED i
  PROVE  IsShape(L, a, b, F, d, V)'
<1> USE DEF List!LoadHead, List!Goto, List!queueVars
<1>1. t \in Threads /\ t \notin Producers
  BY TestAssumption DEF Threads
<1>2. /\ LinkedTypes
      /\ at \in [Threads -> ProducerPlaces \cup ConsumerPlaces]
      /\ mine \in [Threads -> Indices \cup HeadIndices]
      /\ head \in HeadIndices
  BY DEF IsShape, LinkedTypes
<1>3. /\ Others(t) /\ UNCHANGED List!queueVars /\ UNCHANGED other
      /\ mine'[t] = head /\ at'[t] = "next"
      /\ at' \in [Threads -> ProducerPlaces \cup ConsumerPlaces]
      /\ mine' \in [Threads -> Indices \cup HeadIndices]
  BY <1>1, <1>2 DEF Others, ConsumerPlaces
<1>4. LinkedTypes'
  BY <1>1, <1>2, <1>3, TypesOfLocals DEF LinkedTypes, ConsumerPlaces
<1>5. DequeueKnows(t, L, a, b, V)'
  <2>1. head.idx = Ref(L[a], V) /\ Given(L[a]) /\ Out(L[a], L, a + 1, b)
    BY DEF IsShape, Shape, Chain, Out
  <2>2. \A p \in Producers : at[p] \in {"clear", "swap"} => mine[p].node # L[a]
    BY DEF IsShape, Shape, Hands, HandKnows, Holding, Held, Out, Threads
  <2>3. NotAhead(L[a], L, a, b)'
    BY <1>1, <1>3, <2>1, <2>2 DEF NotAhead, Out, Others, Threads
  <2>4. Older(head.idx, V) /\ head.idx.node = L[a]
    BY <2>1 DEF Older, Ref, List!Index, Given, IsShape, LinkedTypes
  <2> QED BY <1>2, <1>3, <2>3, <2>4 DEF DequeueKnows, Older, Given
<1>6. at[t] = "out"
  OBVIOUS
<1> QED BY <1>1, <1>3, <1>4, <1>5, <1>6, LocalStep DEF Holding, List!queueVars

LEMMA LeavesKeeps ==
  ASSUME NEW L, NEW F, NEW V, NEW a, NEW b, NEW d, IsShape(L, a, b, F, d, V),
         NEW t \in Consumers, UNCHANGED i,
         List!FindEmpty(t) \/ List!HeadMoved(t) \/ List!TakeLast(t)
  PROVE  IsShape(L, a, b, F, d, V)'
<1>1. t \in Threads /\ t \notin Producers
  BY TestAssumption DEF Threads
<1>2. at[t] \in {"next", "flag", "move", "take"} /\ List!Leave(t) /\ UNCHANGED List!queueVars
  BY DEF List!FindEmpty, List!HeadMoved, List!TakeLast
<1>3. /\ LinkedTypes
      /\ at \in [Threads -> ProducerPlaces \cup ConsumerPlaces]
      /\ mine \in [Threads -> Indices \cup HeadIndices]
      /\ other \in [Threads -> Indices]
  BY DEF IsShape, LinkedTypes
<1>4. /\ Others(t) /\ at'[t] = "out"
      /\ at' \in [Threads -> ProducerPlaces \cup ConsumerPlaces]
      /\ mine' \in [Threads -> Indices \cup HeadIndices]
      /\ other' \in [Threads -> Indices]
  BY <1>1, <1>2, <1>3, NullIsIndex DEF Others, ConsumerPlaces, List!Leave, List!Goto, Null
<1>5. LinkedTypes'
  BY <1>1, <1>2, <1>3, <1>4, TypesOfLocals DEF LinkedTypes, ConsumerPlaces
<1>6. DequeueKnows(t, L, a, b, V)'
  BY <1>4 DEF DequeueKnows
<1> QED BY <1>1, <1>2, <1>4, <1>5, <1>6, LocalStep DEF Holding, List!queueVars

LEMMA FindNextKeeps ==
  ASSUME NEW L, NEW F, NEW V, NEW a, NEW b, NEW d, IsShape(L, a, b, F, d, V),
         NEW t \in Consumers, List!FindNext(t), UNCHANGED i
  PROVE  IsShape(L, a, b, F, d, V)'
<1> USE DEF List!FindNext, List!Goto, List!queueVars
<1>1. t \in Threads /\ t \notin Producers
  BY TestAssumption DEF Threads
<1>2. /\ LinkedTypes
      /\ at \in [Threads -> ProducerPlaces \cup ConsumerPlaces]
      /\ other \in [Threads -> Indices]
      /\ next \in [Nodes -> Indices]
      /\ at[t] = "next" /\ DequeueKnows(t, L, a, b, V) /\ nextNodeIdx \in Nodes
  BY DEF IsShape, LinkedTypes, Shape, Know
<1>3. mine[t].idx.node \in Nodes
  BY <1>2, GivenIsNode DEF DequeueKnows, Older
<1>4. /\ Others(t) /\ UNCHANGED List!queueVars /\ UNCHANGED mine
      /\ other'[t] = next[mine[t].idx.node]
      /\ \/ at'[t] = "flag" /\ ~mine[t].consumed
         \/ at'[t] = "move" /\ next[mine[t].idx.node] # Null
      /\ at' \in [Threads -> ProducerPlaces \cup ConsumerPlaces]
      /\ other' \in [Threads -> Indices]
  BY <1>1, <1>2, <1>3 DEF Others, ConsumerPlaces, Null
<1>5. LinkedTypes'
  BY <1>1, <1>2, <1>4, TypesOfLocals DEF LinkedTypes, ConsumerPlaces
<1>6. DequeueKnows(t, L, a, b, V)'
  <2>1. \A n : NotAhead(n, L, a, b) => NotAhead(n, L, a, b)'
    BY <1>1, <1>4 DEF NotAhead, Others, Out, Threads
  <2> QED BY <1>2, <1>4, <2>1 DEF DequeueKnows, Older, Current, Given
<1> QED BY <1>1, <1>2, <1>4, <1>5, <1>6, LocalStep DEF Holding, List!queueVars

LEMMA LoadFreeListKeeps ==
  ASSUME NEW L, NEW F, NEW V, NEW a, NEW b, NEW d, IsShape(L, a, b, F, d, V),
         NEW t \in Consumers, List!LoadFreeList(t) \/ List!PushFreeFails(t), UNCHANGED i
  PROVE  IsShape(L, a, b, F, d, V)'
<1>1. t \in Threads /\ t \notin Producers
  BY TestAssumption DEF Threads
<1>2. /\ LinkedTypes
      /\ at \in [Threads -> ProducerPlaces \cup ConsumerPlaces]
      /\ other \in [Threads -> Indices]
      /\ freeListHead \in Indices
  BY DEF IsShape, LinkedTypes
<1>3. /\ Others(t) /\ UNCHANGED List!queueVars /\ UNCHANGED mine
      /\ at[t] \in {"give", "push"} /\ at'[t] = "store"
      /\ at' \in [Threads -> ProducerPlaces \cup ConsumerPlaces]
      /\ other' \in [Threads -> Indices]
  BY <1>1, <1>2 DEF Others, ConsumerPlaces, List!LoadFreeList, List!PushFreeFails,
                    List!Goto, List!queueVars
<1>4. LinkedTypes'
  BY <1>1, <1>2, <1>3, TypesOfLocals DEF LinkedTypes, ConsumerPlaces
<1>5. DequeueKnows(t, L, a, b, V)'
  BY <1>3 DEF DequeueKnows
<1> QED BY <1>1, <1>3, <1>4, <1>5, LocalStep DEF Holding, Held, List!queueVars

-----------------------------------------------------------------------------
(* Steps that change a word of the queue                                   *)

\* Where the step is not about the nodes a thread holds, hands stay as they are.
HandsOf(t) ==
  \A u \in Threads : u # t =>
    /\ Holding(u)' <=> Holding(u)
    /\ Holding(u) => Held(u)' = Held(u)

LEMMA OthersHold ==
  ASSUME NEW t \in Threads, Others(t)
  PROVE  HandsOf(t)
  BY DEF Others, HandsOf, Holding, Held

LEMMA NewNodeKeeps ==
  ASSUME NEW L, NEW F, NEW V, NEW a, NEW b, NEW d, IsShape(L, a, b, F, d, V),
         NEW p \in Producers, NEW item \in AnyItem, List!NewNode(p, item),
         nextNodeIdx < MaxNode, UNCHANGED i
  PROVE  IsShape(L, a, b, F, d, V)'
<1>0. PICK n : n = nextNodeIdx + 1
  OBVIOUS
<1>1. p \in Threads /\ p \notin Consumers
  BY TestAssumption DEF Threads
<1>2. /\ LinkedTypes /\ Shape(L, a, b, F, d, V) /\ L \in [Nat -> Nodes] /\ F \in [Nat -> Nodes]
      /\ V \in [Nodes -> Nat] /\ a \in Nat /\ b \in Nat /\ d \in Nat /\ a <= b
  BY DEF IsShape
<1>3. MaxNode \in Nat /\ nextNodeIdx \in Nat /\ n \in Nodes /\ n # 0 /\ ~Given(n) /\ n \in Nat
  <2>1. nextNodeIdx \in Nodes
    BY <1>2 DEF LinkedTypes
  <2> QED BY <1>0, <2>1, MaxNodeIsNat DEF Nodes, List!Nodes, Given
<1>4. List!Index(n, 0) \in Indices
  BY <1>3 DEF List!Index, Indices, Nodes, List!Nodes
<1>5. /\ at[p] = "new" /\ at'[p] = "swap"
      /\ mine'[p] = List!Index(n, 0)
      /\ Others(p) /\ nextNodeIdx' = n
      /\ UNCHANGED <<next, head, tail, freeListHead>>
      /\ LinkedTypes'
  BY <1>0, <1>1, <1>2, <1>3, <1>4
     DEF List!NewNode, List!Goto, LinkedTypes, Others, ProducerPlaces
<1>6. HandsOf(p) /\ ~Holding(p) /\ Holding(p)' /\ Held(p)' = List!Index(n, 0)
  BY <1>1, <1>5, OthersHold DEF Holding, Held
<1>7. V[n] = 0 /\ next[n] = Null
  BY <1>2, <1>3 DEF Shape, Untouched, Given
<1>8. /\ \A m : Given(m) => Given(m)' /\ m # n
      /\ Given(n)'
      /\ \A m : Given(m)' => Given(m) \/ m = n
  BY <1>0, <1>3, <1>5 DEF Given
<1>9. Chain(L, a, b, V)'
  BY <1>1, <1>2, <1>5, <1>8 DEF Shape, Chain, Ref, Others, Threads
<1>10. Links(L, a, b, V)'
  BY <1>1, <1>2, <1>5 DEF Shape, Links, Ref, Others, Threads
<1>11. FreeChain(L, a, b, F, d, V)'
  BY <1>2, <1>5, <1>8 DEF Shape, FreeChain, Ref, Out
<1>12. Hands(L, a, b, F, d, V)'
  <2>1. HandKnows(p, L, a, b, F, d, V)'
    <3>1. /\ Held(p)'.node = n /\ Held(p)'.version = 0 /\ Held(p)' \in Indices
          /\ V[n] = 0 /\ next'[n] = Null /\ Given(n)'
      BY <1>4, <1>5, <1>6, <1>7, <1>8 DEF List!Index
    <3>2. Out(n, L, a, b) /\ Out(n, F, 1, d)
      BY <1>2, <1>8 DEF Shape, Chain, FreeChain, Out
    <3>3. at'[p] # "push"
      BY <1>5
    <3> QED BY <3>1, <3>2, <3>3 DEF HandKnows, Out
  <2>2. \A u \in Threads : u # p => HandKnows(u, L, a, b, F, d, V)'
    BY <1>2, <1>5, <1>6, <1>8 DEF Shape, Hands, HandKnows, HandsOf, Others, Out
  <2>3. \A u \in Threads : Holding(u) => Held(u).node # n
    BY <1>2, <1>8 DEF Shape, Hands, HandKnows
  <2> QED BY <1>2, <1>6, <2>1, <2>2, <2>3 DEF Hands, HandsOf, Shape, List!Index
<1>13. Somewhere(L, a, b, F, d)'
  BY <1>0, <1>1, <1>2, <1>3, <1>5, <1>6, <1>8 DEF Shape, Somewhere, HandsOf, Given, List!Index
<1>14. Untouched(V)'
  <2>1. \A m \in Nodes : m > n => m > nextNodeIdx
    BY <1>0, <1>3 DEF Nodes, List!Nodes
  <2> QED BY <1>2, <1>5, <2>1 DEF Shape, Untouched
<1>15. Know(L, a, b, F, d, V)'
  <2>1. \A q \in Producers : PopKnows(q, F, d, V)'
    BY <1>1, <1>2, <1>5, <1>8 DEF Shape, Know, PopKnows, Older, Current, Out, Others, Threads
  <2>2. \A m : Given(m) /\ NotAhead(m, L, a, b) => NotAhead(m, L, a, b)'
    BY <1>1, <1>5, <1>8 DEF NotAhead, Out, Others, Threads, List!Index
  <2>3. \A u \in Consumers : DequeueKnows(u, L, a, b, V)'
    BY <1>1, <1>2, <1>5, <1>8, <2>2
       DEF Shape, Know, DequeueKnows, Older, Current, Others, Threads
  <2> QED BY <2>1, <2>3 DEF Know
<1> QED BY <1>2, <1>5, <1>9, <1>10, <1>11, <1>12, <1>13, <1>14, <1>15 DEF Shape, IsShape

\* A node is taken from the free list: all older indices of it are worthless.
LEMMA PopFreeKeeps ==
  ASSUME NEW L, NEW F, NEW V, NEW a, NEW b, NEW d, IsShape(L, a, b, F, d, V),
         NEW p \in Producers, List!PopFree(p), UNCHANGED i
  PROVE  \E e, U : IsShape(L, a, b, F, e, U)'
<1>1. p \in Threads /\ p \notin Consumers
  BY TestAssumption DEF Threads
<1>2. /\ LinkedTypes /\ Shape(L, a, b, F, d, V) /\ L \in [Nat -> Nodes] /\ F \in [Nat -> Nodes]
      /\ V \in [Nodes -> Nat] /\ a \in Nat /\ b \in Nat /\ d \in Nat /\ a <= b
  BY DEF IsShape
<1>3. /\ at[p] = "unfree" /\ freeListHead = mine[p] /\ mine[p] \in Indices
      /\ Given(mine[p].node) /\ PopKnows(p, F, d, V)
  BY <1>2 DEF List!PopFree, Shape, Know, PopKnows, Older
<1>4. d # 0 /\ freeListHead = Ref(F[d], V)
  BY <1>2, <1>3, NullIsIndex DEF Shape, FreeChain
<1>5. PICK n : n = F[d]
  OBVIOUS
<1>6. PICK e : e = d - 1
  OBVIOUS
<1>7. PICK U : U = [V EXCEPT ![n] = @ + 1]
  OBVIOUS
<1>8. /\ n \in Nodes /\ mine[p] = List!Index(n, V[n]) /\ Given(n) /\ e \in Nat /\ d = e + 1
      /\ V[n] \in Nat
  BY <1>2, <1>3, <1>4, <1>5, <1>6 DEF Ref, List!Index
<1>9. /\ U \in [Nodes -> Nat] /\ U[n] = V[n] + 1
      /\ \A m \in Nodes : m # n => U[m] = V[m]
  BY <1>2, <1>7, <1>8
<1>10. other[p] = next[n]
  BY <1>3, <1>8 DEF PopKnows, Current, List!Index
<1>11. List!Index(n, V[n] + 1) \in Indices
  BY <1>8, MaxNodeIsNat DEF List!Index, Indices, Nodes, List!Nodes
<1>12. /\ at'[p] = "clear" /\ freeListHead' = next[n]
       /\ mine'[p] = List!Index(n, V[n] + 1)
       /\ Others(p)
       /\ UNCHANGED <<next, head, tail, nextNodeIdx>>
       /\ LinkedTypes'
  <2>1. [mine[p] EXCEPT !.version = @ + 1] = List!Index(n, V[n] + 1)
    BY <1>8 DEF List!Index
  <2>2. /\ mine' = [mine EXCEPT ![p] = List!Index(n, V[n] + 1)]
        /\ at' = [at EXCEPT ![p] = "clear"]
        /\ freeListHead' = other[p]
        /\ UNCHANGED <<next, rawItem, nextNodeIdx, head, tail, other>>
    <3>1. mine' = [mine EXCEPT ![p] = [mine[p] EXCEPT !.version = @ + 1]]
      BY <1>1, <1>2 DEF List!PopFree, LinkedTypes
    <3> QED BY <2>1, <3>1 DEF List!PopFree, List!Goto
  <2> QED BY <1>1, <1>2, <1>10, <1>11, <2>2 DEF LinkedTypes, Others, ProducerPlaces
<1>13. HandsOf(p) /\ ~Holding(p) /\ Holding(p)' /\ Held(p)' = List!Index(n, U[n])
  BY <1>1, <1>3, <1>9, <1>12, OthersHold DEF Holding, Held
<1>14. Out(n, L, a, b) /\ Out(n, F, 1, e)
  BY <1>2, <1>4, <1>5, <1>6, <1>8 DEF Shape, FreeChain, Out
<1>15. \A k \in a .. b : L[k] \in Nodes /\ Ref(L[k], U) = Ref(L[k], V)
  BY <1>2, <1>9, <1>14 DEF Ref, Out
<1>16. \A k \in 1 .. e : F[k] \in Nodes /\ Ref(F[k], U) = Ref(F[k], V) /\ k \in 1 .. d
  BY <1>2, <1>8, <1>9, <1>14 DEF Ref, Out
<1>17. Chain(L, a, b, U)'
  <2>1. \A k \in a .. b : Given(L[k])'
    BY <1>2, <1>12 DEF Shape, Chain, Given
  <2>2. head'.idx = Ref(L[a], U) /\ tail' = Ref(L[b], U) /\ next'[L[b]] = Null
    BY <1>2, <1>12, <1>15 DEF Shape, Chain
  <2>3. \A k \in a .. b - 1 :
           \/ next'[L[k]] = Ref(L[k + 1], U)
           \/ next'[L[k]] = Null
              /\ \E q \in Producers : at'[q] = "link" /\ other'[q] = Ref(L[k], U)
    BY <1>1, <1>2, <1>3, <1>12, <1>15 DEF Shape, Chain, Others, Threads
  <2> QED BY <1>2, <2>1, <2>2, <2>3 DEF Shape, Chain, Ref
<1>18. Links(L, a, b, U)'
  <2>1. \A q \in Producers : at'[q] = "link" =>
          \E k \in a .. b - 1 : /\ other'[q] = Ref(L[k], U) /\ mine'[q] = Ref(L[k + 1], U)
                                /\ next'[L[k]] = Null
    BY <1>1, <1>2, <1>12, <1>15 DEF Shape, Links, Others, Threads
  <2>2. \A q, s \in Producers :
          at'[q] = "link" /\ at'[s] = "link" /\ other'[q] = other'[s] => q = s
    BY <1>1, <1>2, <1>12 DEF Shape, Links, Others, Threads
  <2> QED BY <2>1, <2>2 DEF Links, Ref
<1>19. FreeChain(L, a, b, F, e, U)'
  <2>1. \A k \in 1 .. e : Given(F[k])' /\ Out(F[k], L, a, b)
    BY <1>2, <1>12, <1>16 DEF Shape, FreeChain, Given
  <2>2. freeListHead' = IF e = 0 THEN Null ELSE Ref(F[e], U)
    BY <1>2, <1>4, <1>5, <1>8, <1>12, <1>16 DEF Shape, FreeChain
  <2>3. \A k \in 1 .. e : next'[F[k]] = IF k = 1 THEN Null ELSE Ref(F[k - 1], U)
    BY <1>2, <1>8, <1>12, <1>16 DEF Shape, FreeChain
  <2>4. \A j, k \in 1 .. e : F[j] = F[k] => j = k
    BY <1>2, <1>16 DEF Shape, FreeChain
  <2> QED BY <2>1, <2>2, <2>3, <2>4 DEF FreeChain, Ref, Out
<1>20. Hands(L, a, b, F, e, U)'
  <2>1. HandKnows(p, L, a, b, F, e, U)'
    BY <1>8, <1>11, <1>9, <1>12, <1>13, <1>14 DEF HandKnows, Given, Out, List!Index
  <2>2. \A u \in Threads : Holding(u) => Held(u).node # n
    BY <1>2, <1>4, <1>5 DEF Shape, Hands, HandKnows, Out
  <2>3. \A u \in Threads : u # p => HandKnows(u, L, a, b, F, e, U)'
    <3>1. \A u \in Threads : Holding(u) => Held(u).node \in Nodes
      BY <1>2, GivenIsNode DEF Shape, Hands, HandKnows
    <3> QED BY <1>2, <1>9, <1>12, <1>13, <1>16, <2>2, <3>1
               DEF Shape, Hands, HandKnows, HandsOf, Others, Given, Out
  <2> QED BY <1>2, <1>13, <2>1, <2>2, <2>3 DEF Hands, HandsOf, Shape, List!Index
<1>21. Somewhere(L, a, b, F, e)'
  <2>1. \A m : (\E k \in 1 .. d : F[k] = m) => m = n \/ \E k \in 1 .. e : F[k] = m
    BY <1>5, <1>8
  <2>2. Holding(p)' /\ Held(p)'.node = n
    BY <1>13 DEF List!Index
  <2>3. \A m : (\E u \in Threads : Holding(u) /\ Held(u).node = m) =>
               \E u \in Threads : Holding(u)' /\ Held(u)'.node = m
    BY <1>13 DEF HandsOf
  <2>4. SUFFICES ASSUME NEW m \in 1 .. nextNodeIdx
                 PROVE  \/ \E k \in a .. b : L[k] = m
                        \/ \E k \in 1 .. e : F[k] = m
                        \/ \E u \in Threads : Holding(u)' /\ Held(u)'.node = m
    BY <1>12 DEF Somewhere
  <2>5. CASE \E k \in a .. b : L[k] = m
    BY <2>5
  <2>6. CASE \E k \in 1 .. d : F[k] = m
    BY <2>1, <2>2, <2>6, <1>1
  <2>7. CASE \E u \in Threads : Holding(u) /\ Held(u).node = m
    BY <2>3, <2>7
  <2> QED BY <1>2, <2>5, <2>6, <2>7 DEF Shape, Somewhere
<1>22. Untouched(U)'
  <2>1. \A m \in Nodes : m > nextNodeIdx => m # n
    <3>1. nextNodeIdx \in Nat
      BY <1>2, MaxNodeIsNat DEF LinkedTypes, Nodes, List!Nodes
    <3> QED BY <3>1, <1>8 DEF Given, Nodes, List!Nodes
  <2> QED BY <1>2, <1>9, <1>12, <2>1 DEF Shape, Untouched
<1>23. Know(L, a, b, F, e, U)'
  <2>1. \A idx \in Indices : Older(idx, V) => Older(idx, U)' /\ (Current(idx, U) => Current(idx, V) /\ idx.node # n)
    <3> SUFFICES ASSUME NEW idx \in Indices, Older(idx, V)
                 PROVE  Older(idx, U)' /\ (Current(idx, U) => Current(idx, V) /\ idx.node # n)
      OBVIOUS
    <3>1. idx.node \in Nodes /\ Given(idx.node)' /\ idx.version <= V[idx.node]
      BY <1>2, <1>12, GivenIsNode DEF Older, Given
    <3>2. CASE idx.node = n
      BY <1>8, <1>9, <3>1, <3>2 DEF Older, Current, Indices
    <3>3. CASE idx.node # n
      BY <1>9, <3>1, <3>3 DEF Older, Current
    <3> QED BY <3>2, <3>3
  <2>2. \A m : ~Out(m, F, 1, d) /\ m # n => ~Out(m, F, 1, e)
    BY <1>5, <1>8 DEF Out
  <2>3. \A q \in Producers : PopKnows(q, F, e, U)'
    <3> SUFFICES ASSUME NEW q \in Producers, q # p PROVE PopKnows(q, F, e, U)'
      BY <1>12 DEF PopKnows
    <3>1. at'[q] = at[q] /\ mine'[q] = mine[q] /\ other'[q] = other[q] /\ PopKnows(q, F, d, V)
      BY <1>2, <1>12 DEF Others, Threads, Shape, Know
    <3> QED BY <3>1, <1>12, <2>1, <2>2 DEF PopKnows, Older, Current, Given, Out
  <2>4. \A m : m # n /\ NotAhead(m, L, a, b) => NotAhead(m, L, a, b)'
    BY <1>1, <1>12 DEF NotAhead, Out, Others, Threads, List!Index
  <2>5. \A u \in Consumers : DequeueKnows(u, L, a, b, U)'
    <3> SUFFICES ASSUME NEW u \in Consumers PROVE DequeueKnows(u, L, a, b, U)'
      OBVIOUS
    <3>1. at'[u] = at[u] /\ mine'[u] = mine[u]
          /\ other'[u] = other[u] /\ DequeueKnows(u, L, a, b, V)
      BY <1>1, <1>2, <1>12 DEF Others, Threads, Shape, Know
    <3> QED BY <3>1, <1>12, <2>1, <2>4 DEF DequeueKnows, Older, Current, Given, HeadIndices
  <2> QED BY <2>3, <2>5 DEF Know
<1>24. IsShape(L, a, b, F, e, U)'
  BY <1>2, <1>8, <1>9, <1>12, <1>17, <1>18, <1>19, <1>20, <1>21, <1>22, <1>23 DEF Shape, IsShape
<1> QED BY <1>24

\* A thread writes into the node it holds.
LEMMA HeldNodeStep ==
  ASSUME NEW L, NEW F, NEW V, NEW a, NEW b, NEW d, IsShape(L, a, b, F, d, V),
         NEW t \in Threads, Others(t), LinkedTypes',
         UNCHANGED <<head, tail, freeListHead, nextNodeIdx>>,
         NEW n, Holding(t), Held(t) = List!Index(n, V[n]),
         Holding(t)', Held(t)' = Held(t),
         \A m \in Nodes : m # n => next'[m] = next[m],
         at[t] \in {"clear", "swap"} <=> at'[t] \in {"clear", "swap"},
         mine'[t] = mine[t],
         at'[t] = "swap" => next'[n] = Null,
         at'[t] = "push" => next'[n] = other'[t]
  PROVE  IsShape(L, a, b, F, d, V)'
<1>1. /\ LinkedTypes /\ Shape(L, a, b, F, d, V) /\ L \in [Nat -> Nodes] /\ F \in [Nat -> Nodes]
      /\ V \in [Nodes -> Nat] /\ a \in Nat /\ b \in Nat /\ d \in Nat /\ a <= b
  BY DEF IsShape
<1>2. /\ at[t] \in {"clear", "swap", "give", "store", "push"}
      /\ at'[t] \in {"clear", "swap", "give", "store", "push"}
  BY DEF Holding
<1>3. Given(n) /\ n \in Nodes /\ Out(n, L, a, b) /\ Out(n, F, 1, d)
  BY <1>1, GivenIsNode DEF Shape, Hands, HandKnows, List!Index
<1>4. HandsOf(t)
  BY OthersHold
<1>5. /\ \A k \in a .. b : L[k] \in Nodes /\ next'[L[k]] = next[L[k]]
      /\ \A k \in 1 .. d : F[k] \in Nodes /\ next'[F[k]] = next[F[k]]
  BY <1>1, <1>3 DEF Out
<1>6. /\ \A p \in Producers : at'[p] = "link" <=> at[p] = "link"
      /\ \A p \in Producers : at[p] = "link" => mine'[p] = mine[p] /\ other'[p] = other[p]
  BY <1>2 DEF Others, Threads
<1>7. Chain(L, a, b, V)'
  BY <1>1, <1>5, <1>6 DEF Shape, Chain, Ref, Given
<1>8. Links(L, a, b, V)'
  <2>1. \A q \in Producers : at'[q] = "link" =>
          \E k \in a .. b - 1 : /\ other'[q] = Ref(L[k], V) /\ mine'[q] = Ref(L[k + 1], V)
                                /\ next'[L[k]] = Null
    BY <1>1, <1>5, <1>6 DEF Shape, Links
  <2>2. \A q, s \in Producers :
          at'[q] = "link" /\ at'[s] = "link" /\ other'[q] = other'[s] => q = s
    BY <1>1, <1>6 DEF Shape, Links
  <2> QED BY <2>1, <2>2 DEF Links, Ref
<1>9. FreeChain(L, a, b, F, d, V)'
  BY <1>1, <1>5 DEF Shape, FreeChain, Ref, Given, Out
<1>10. Hands(L, a, b, F, d, V)'
  <2>1. HandKnows(t, L, a, b, F, d, V)'
    BY <1>1, <1>3 DEF Shape, Hands, HandKnows, Given, Out, List!Index
  <2>2. \A u \in Threads : u # t /\ Holding(u) => Held(u).node # n /\ Held(u).node \in Nodes
    BY <1>1, GivenIsNode DEF Shape, Hands, HandKnows, List!Index
  <2>3. \A u \in Threads : u # t => HandKnows(u, L, a, b, F, d, V)'
    BY <1>1, <1>4, <2>2 DEF Shape, Hands, HandKnows, HandsOf, Others, Given, Out
  <2> QED BY <1>1, <1>4, <2>1, <2>3 DEF Hands, HandsOf, Shape
<1>11. Somewhere(L, a, b, F, d)'
  BY <1>1, <1>4 DEF Shape, Somewhere, HandsOf
<1>12. Untouched(V)'
  <2>1. \A m \in Nodes : m > nextNodeIdx => m # n
    <3>1. nextNodeIdx \in Nat
      BY <1>1, MaxNodeIsNat DEF LinkedTypes, Nodes, List!Nodes
    <3> QED BY <3>1, <1>3 DEF Given, Nodes, List!Nodes
  <2> QED BY <1>1, <2>1 DEF Shape, Untouched
<1>13. Know(L, a, b, F, d, V)'
  <2>1. ASSUME NEW p \in Producers PROVE PopKnows(p, F, d, V)'
    <3> SUFFICES ASSUME p # t PROVE PopKnows(p, F, d, V)'
      BY <1>2 DEF PopKnows
    <3>1. at'[p] = at[p] /\ mine'[p] = mine[p] /\ other'[p] = other[p] /\ PopKnows(p, F, d, V)
      BY <1>1 DEF Others, Threads, Shape, Know
    <3> QED BY <1>5, <3>1 DEF PopKnows, Older, Current, Given, Out
  <2>2. \A m : NotAhead(m, L, a, b) => NotAhead(m, L, a, b)'
    BY DEF NotAhead, Out, Others, Threads
  <2>3. ASSUME NEW u \in Consumers PROVE DequeueKnows(u, L, a, b, V)'
    <3> SUFFICES ASSUME u # t PROVE DequeueKnows(u, L, a, b, V)'
      BY <1>2 DEF DequeueKnows
    <3>1. at'[u] = at[u] /\ mine'[u] = mine[u]
          /\ other'[u] = other[u] /\ DequeueKnows(u, L, a, b, V)
      BY <1>1 DEF Others, Threads, Shape, Know
    <3>2. next'[head.idx.node] = next[head.idx.node]
      BY <1>1, <1>5 DEF Shape, Chain, Ref, List!Index
    <3> QED BY <2>2, <3>1, <3>2 DEF DequeueKnows, Older, Current, Given
  <2> QED BY <2>1, <2>3 DEF Know
<1> QED BY <1>1, <1>7, <1>8, <1>9, <1>10, <1>11, <1>12, <1>13 DEF Shape, IsShape

LEMMA ReuseKeeps ==
  ASSUME NEW L, NEW F, NEW V, NEW a, NEW b, NEW d, IsShape(L, a, b, F, d, V),
         NEW p \in Producers, NEW item \in AnyItem, List!Reuse(p, item), UNCHANGED i
  PROVE  IsShape(L, a, b, F, d, V)'
<1>1. p \in Threads /\ p \notin Consumers
  BY TestAssumption DEF Threads
<1>2. LinkedTypes /\ at[p] = "clear" /\ Holding(p) /\ Held(p) = mine[p]
  BY DEF IsShape, List!Reuse, Holding, Held
<1>3. HandKnows(p, L, a, b, F, d, V)
  BY <1>1 DEF IsShape, Shape, Hands
<1>4. PICK n : n = mine[p].node
  OBVIOUS
<1>5. mine[p] = List!Index(n, V[n]) /\ n \in Nodes
  BY <1>2, <1>3, <1>4, GivenIsNode DEF HandKnows, List!Index, Indices
<1>6. /\ at'[p] = "swap" /\ next' = [next EXCEPT ![n] = Null]
      /\ Others(p) /\ LinkedTypes'
      /\ UNCHANGED <<nextNodeIdx, head, tail, freeListHead, mine, other>>
  <2>1. /\ at' = [at EXCEPT ![p] = "swap"]
        /\ next' = [next EXCEPT ![n] = Null]
        /\ rawItem' = [rawItem EXCEPT ![n] = item]
        /\ UNCHANGED <<nextNodeIdx, head, tail, freeListHead, mine, other, i>>
    BY <1>4 DEF List!Reuse, List!Goto, Null
  <2>2. next' \in [Nodes -> Indices] /\ rawItem' \in [Nodes -> AnyItem]
    BY <1>2, <2>1, NullIsIndex DEF LinkedTypes
  <2>3. /\ at' \in [Threads -> ProducerPlaces \cup ConsumerPlaces]
        /\ at'[p] = "swap" /\ Others(p)
    BY <1>1, <1>2, <2>1 DEF LinkedTypes, Others, ProducerPlaces
  <2>4. LinkedTypes'
    BY <1>1, <1>2, <2>1, <2>2, <2>3 DEF LinkedTypes, Others, ProducerPlaces, Threads
  <2> QED BY <2>1, <2>3, <2>4
<1>7. /\ \A m \in Nodes : m # n => next'[m] = next[m]
      /\ next'[n] = Null
  BY <1>2, <1>5, <1>6 DEF LinkedTypes
<1>8. Holding(p)' /\ Held(p)' = Held(p)
  BY <1>2, <1>6 DEF Holding, Held
<1> QED BY <1>1, <1>2, <1>5, <1>6, <1>7, <1>8, HeldNodeStep

LEMMA StoreFreeNextKeeps ==
  ASSUME NEW L, NEW F, NEW V, NEW a, NEW b, NEW d, IsShape(L, a, b, F, d, V),
         NEW t \in Consumers, List!StoreFreeNext(t), UNCHANGED i
  PROVE  IsShape(L, a, b, F, d, V)'
<1>1. t \in Threads /\ t \notin Producers
  BY TestAssumption DEF Threads
<1>2. LinkedTypes /\ at[t] = "store" /\ Holding(t) /\ Held(t) = mine[t].idx
  BY DEF IsShape, List!StoreFreeNext, Holding, Held
<1>3. HandKnows(t, L, a, b, F, d, V)
  BY <1>1 DEF IsShape, Shape, Hands
<1>4. PICK n : n = mine[t].idx.node
  OBVIOUS
<1>5. mine[t].idx = List!Index(n, V[n]) /\ n \in Nodes
  BY <1>2, <1>3, <1>4, GivenIsNode DEF HandKnows, List!Index, Indices
<1>6. /\ at'[t] = "push" /\ next' = [next EXCEPT ![n] = other[t]]
      /\ Others(t) /\ LinkedTypes'
      /\ UNCHANGED <<nextNodeIdx, head, tail, freeListHead, mine, other>>
  <2>1. /\ at' = [at EXCEPT ![t] = "push"]
        /\ next' = [next EXCEPT ![n] = other[t]]
        /\ UNCHANGED <<rawItem, nextNodeIdx, head, tail, freeListHead, mine, other, i>>
    BY <1>4 DEF List!StoreFreeNext, List!Goto
  <2>2. next' \in [Nodes -> Indices]
    BY <1>1, <1>2, <2>1 DEF LinkedTypes
  <2>3. /\ at' \in [Threads -> ProducerPlaces \cup ConsumerPlaces]
        /\ at'[t] = "push" /\ Others(t)
    BY <1>1, <1>2, <2>1 DEF LinkedTypes, Others, ConsumerPlaces
  <2>4. LinkedTypes'
    BY <1>1, <1>2, <2>1, <2>2, <2>3 DEF LinkedTypes, Others, ConsumerPlaces, Threads
  <2> QED BY <2>1, <2>3, <2>4
<1>7. /\ \A m \in Nodes : m # n => next'[m] = next[m]
      /\ next'[n] = other'[t]
  BY <1>2, <1>5, <1>6 DEF LinkedTypes
<1>8. Holding(t)' /\ Held(t)' = Held(t)
  BY <1>2, <1>6 DEF Holding, Held
<1> QED BY <1>1, <1>2, <1>5, <1>6, <1>7, <1>8, HeldNodeStep

\* The last node's item is claimed: nothing but head's flag changes.
LEMMA ClaimLastKeeps ==
  ASSUME NEW L, NEW F, NEW V, NEW a, NEW b, NEW d, IsShape(L, a, b, F, d, V),
         NEW t \in Consumers, List!ClaimLast(t), UNCHANGED i
  PROVE  IsShape(L, a, b, F, d, V)'
<1>1. t \in Threads /\ t \notin Producers
  BY TestAssumption DEF Threads
<1>2. /\ LinkedTypes
      /\ at \in [Threads -> ProducerPlaces \cup ConsumerPlaces]
      /\ head \in HeadIndices
  BY DEF IsShape, LinkedTypes
<1>3. /\ at[t] = "flag" /\ at' = [at EXCEPT ![t] = "take"]
      /\ head' = [head EXCEPT !.consumed = TRUE]
      /\ UNCHANGED <<next, rawItem, nextNodeIdx, tail, freeListHead, mine, other>>
  BY DEF List!ClaimLast, List!Goto
<1>4. head' \in HeadIndices /\ head'.idx = head.idx
  BY <1>2, <1>3 DEF HeadIndices
<1>5. /\ Others(t) /\ at'[t] = "take"
      /\ at' \in [Threads -> ProducerPlaces \cup ConsumerPlaces]
  BY <1>1, <1>2, <1>3 DEF Others, ConsumerPlaces
<1>6. LinkedTypes'
  BY <1>1, <1>2, <1>3, <1>4, <1>5 DEF LinkedTypes, Others, ConsumerPlaces, Threads
<1>7. DequeueKnows(t, L, a, b, V)'
  BY <1>5 DEF DequeueKnows
<1> QED BY <1>1, <1>3, <1>4, <1>5, <1>6, <1>7, LocalStep DEF Holding

\* The chain M is L with the node n at k.
Placed(M, L, k, n) == M = [L EXCEPT ![k] = n]

\* A node is added at the end of the list, and its link is still to come.
LEMMA SwapTailKeeps ==
  ASSUME NEW L, NEW F, NEW V, NEW a, NEW b, NEW d, IsShape(L, a, b, F, d, V),
         NEW p \in Producers, List!SwapTail(p), UNCHANGED i,
         NEW n, n = mine[p].node, NEW M, Placed(M, L, b + 1, n)
  PROVE  IsShape(M, a, b + 1, F, d, V)'
<1>1. p \in Threads /\ p \notin Consumers
  BY TestAssumption DEF Threads
<1>2. /\ LinkedTypes /\ Shape(L, a, b, F, d, V) /\ L \in [Nat -> Nodes] /\ F \in [Nat -> Nodes]
      /\ V \in [Nodes -> Nat] /\ a \in Nat /\ b \in Nat /\ d \in Nat /\ a <= b
  BY DEF IsShape
<1>3. at[p] = "swap" /\ Holding(p) /\ Held(p) = mine[p]
  BY DEF List!SwapTail, Holding, Held
<1>4. HandKnows(p, L, a, b, F, d, V)
  BY <1>1, <1>2 DEF Shape, Hands
<1>5. /\ mine[p] = List!Index(n, V[n]) /\ n \in Nodes /\ Given(n) /\ next[n] = Null
      /\ Out(n, L, a, b) /\ Out(n, F, 1, d) /\ mine[p] \in Indices
  BY <1>2, <1>3, <1>4, GivenIsNode DEF HandKnows, List!Index, Indices
<1>6. /\ at' = [at EXCEPT ![p] = "link"]
      /\ other' = [other EXCEPT ![p] = tail]
      /\ tail' = mine[p]
      /\ UNCHANGED <<next, rawItem, nextNodeIdx, head, freeListHead, mine, i>>
  BY DEF List!SwapTail, List!Goto
<1>7. /\ at'[p] = "link" /\ other'[p] = tail /\ mine'[p] = mine[p] /\ Others(p)
      /\ at' \in [Threads -> ProducerPlaces \cup ConsumerPlaces]
      /\ other' \in [Threads -> Indices]
  BY <1>1, <1>2, <1>6 DEF LinkedTypes, Others, ProducerPlaces
<1>8. LinkedTypes'
  BY <1>1, <1>2, <1>5, <1>6, <1>7 DEF LinkedTypes, Others, ProducerPlaces, Threads
<1>9. HandsOf(p) /\ ~Holding(p)'
  BY <1>1, <1>7, OthersHold DEF Holding
<1>10. /\ M \in [Nat -> Nodes] /\ M[b + 1] = n /\ b + 1 \in Nat /\ a <= b + 1
       /\ \A k \in a .. b : M[k] = L[k]
       /\ \A k \in a .. b + 1 : k \in a .. b \/ k = b + 1
       /\ \A k \in a .. b : k \in a .. b + 1 /\ k # b + 1
       /\ \A k \in a .. b - 1 : k \in a .. b /\ k + 1 \in a .. b
       /\ \A k \in a .. (b + 1) - 1 : k \in a .. b - 1 \/ k = b
       /\ b \in a .. b /\ b \in a .. (b + 1) - 1 /\ a \in a .. b
       /\ \A k \in a .. b - 1 : k \in a .. (b + 1) - 1
  BY <1>2, <1>5 DEF Placed
<1>11. \A m : Out(m, M, a, b + 1) <=> Out(m, L, a, b) /\ m # n
  BY <1>10 DEF Out
<1>12. Chain(M, a, b + 1, V)'
  <2>1. \A k \in a .. b + 1 : Given(M[k])'
    BY <1>2, <1>5, <1>6, <1>10 DEF Shape, Chain, Given
  <2>2. \A j, k \in a .. b + 1 : M[j] = M[k] => j = k
    BY <1>2, <1>5, <1>10 DEF Shape, Chain, Out
  <2>3. head'.idx = Ref(M[a], V) /\ tail' = Ref(M[b + 1], V) /\ next'[M[b + 1]] = Null
    BY <1>2, <1>5, <1>6, <1>10 DEF Shape, Chain, Ref
  <2>4. \A k \in a .. (b + 1) - 1 :
           \/ next'[M[k]] = Ref(M[k + 1], V)
           \/ next'[M[k]] = Null
              /\ \E q \in Producers : at'[q] = "link" /\ other'[q] = Ref(M[k], V)
    <3> SUFFICES ASSUME NEW k \in a .. (b + 1) - 1
                 PROVE  \/ next'[M[k]] = Ref(M[k + 1], V)
                        \/ next'[M[k]] = Null
                           /\ \E q \in Producers : at'[q] = "link" /\ other'[q] = Ref(M[k], V)
      OBVIOUS
    <3>1. CASE k = b
      BY <1>2, <1>6, <1>7, <1>10, <3>1 DEF Shape, Chain, Ref
    <3>2. CASE k \in a .. b - 1
      <4>1. M[k] = L[k] /\ M[k + 1] = L[k + 1]
        BY <1>10, <3>2
      <4> QED BY <1>1, <1>2, <1>3, <1>6, <1>7, <3>2, <4>1 DEF Shape, Chain, Ref, Others, Threads
    <3> QED BY <1>10, <3>1, <3>2
  <2> QED BY <2>1, <2>2, <2>3, <2>4 DEF Chain, Ref
<1>13. Links(M, a, b + 1, V)'
  <2>1. ASSUME NEW q \in Producers, at[q] = "link" PROVE other[q] # tail /\ q # p
    <3>1. PICK k \in a .. b - 1 : other[q] = Ref(L[k], V)
      BY <1>2, <2>1 DEF Shape, Links
    <3>2. k \in a .. b /\ k # b
      BY <1>2
    <3>3. L[k] # L[b]
      BY <1>2, <1>10, <3>2 DEF Shape, Chain
    <3>4. tail = Ref(L[b], V)
      BY <1>2 DEF Shape, Chain
    <3> QED BY <1>3, <2>1, <3>1, <3>3, <3>4 DEF Ref, List!Index
  <2>2. ASSUME NEW q \in Producers, at'[q] = "link"
        PROVE  \E k \in a .. (b + 1) - 1 :
                 other'[q] = Ref(M[k], V) /\ mine'[q] = Ref(M[k + 1], V) /\ next'[M[k]] = Null
    <3>1. CASE q = p
      <4>1. tail = Ref(M[b], V) /\ mine[p] = Ref(M[b + 1], V) /\ next[M[b]] = Null
        BY <1>2, <1>5, <1>10 DEF Shape, Chain, Ref
      <4> QED BY <1>6, <1>7, <1>10, <3>1, <4>1
    <3>2. CASE q # p
      <4>1. at[q] = "link" /\ other'[q] = other[q] /\ mine'[q] = mine[q]
        BY <1>7, <2>2, <3>2 DEF Others, Threads
      <4>2. PICK k \in a .. b - 1 :
              other[q] = Ref(L[k], V) /\ mine[q] = Ref(L[k + 1], V) /\ next[L[k]] = Null
        BY <1>2, <4>1 DEF Shape, Links
      <4>3. M[k] = L[k] /\ M[k + 1] = L[k + 1] /\ k \in a .. (b + 1) - 1
        BY <1>10, <4>2
      <4> QED BY <1>6, <4>1, <4>2, <4>3 DEF Ref
    <3> QED BY <3>1, <3>2
  <2>3. \A q, s \in Producers :
          at'[q] = "link" /\ at'[s] = "link" /\ other'[q] = other'[s] => q = s
    BY <1>2, <1>7, <2>1 DEF Shape, Links, Others, Threads
  <2> QED BY <2>2, <2>3 DEF Links, Ref
<1>14. FreeChain(M, a, b + 1, F, d, V)'
  <2>1. \A k \in 1 .. d : Given(F[k])' /\ Out(F[k], M, a, b + 1)
    BY <1>2, <1>5, <1>6, <1>11 DEF Shape, FreeChain, Given, Out
  <2> QED BY <1>2, <1>6, <2>1 DEF Shape, FreeChain, Ref, Out
<1>15. Hands(M, a, b + 1, F, d, V)'
  <2>1. \A u \in Threads : u # p /\ Holding(u) => Held(u).node # n
    BY <1>1, <1>2, <1>3, <1>5 DEF Shape, Hands, List!Index
  <2>2. \A u \in Threads : Holding(u)' => u # p
    BY <1>9
  <2>3. ASSUME NEW u \in Threads PROVE HandKnows(u, M, a, b + 1, F, d, V)'
    <3> SUFFICES ASSUME Holding(u)' PROVE HandKnows(u, M, a, b + 1, F, d, V)'
      BY DEF HandKnows
    <3>1. /\ u # p /\ at'[u] = at[u] /\ other'[u] = other[u] /\ Holding(u) /\ Held(u)' = Held(u)
          /\ Held(u).node # n
      BY <1>7, <1>9, <2>1, <2>2 DEF Others, HandsOf
    <3>2. Out(Held(u).node, M, a, b + 1)
      BY <1>2, <1>11, <3>1 DEF Shape, Hands, HandKnows
    <3>3. HandKnows(u, L, a, b, F, d, V)
      BY <1>2 DEF Shape, Hands
    <3> HIDE DEF Holding, Held
    <3> QED BY <1>6, <3>1, <3>2, <3>3 DEF HandKnows, Given, Out
  <2> QED BY <1>2, <1>9, <2>2, <2>3 DEF Hands, HandsOf, Shape
<1>16. Somewhere(M, a, b + 1, F, d)'
  <2>1. \A m : (\E k \in a .. b : L[k] = m) => \E k \in a .. b + 1 : M[k] = m
    BY <1>10
  <2>2. b + 1 \in a .. b + 1
    BY <1>10, <1>2
  <2>3. \A m : (\E u \in Threads : Holding(u) /\ Held(u).node = m) =>
               m = n \/ \E u \in Threads : Holding(u)' /\ Held(u)'.node = m
    BY <1>3, <1>5, <1>9 DEF HandsOf, List!Index
  <2> QED BY <1>2, <1>6, <1>10, <2>1, <2>2, <2>3 DEF Shape, Somewhere
<1>17. Untouched(V)'
  BY <1>2, <1>6 DEF Shape, Untouched
<1>18. Know(M, a, b + 1, F, d, V)'
  <2>1. \A q \in Producers : PopKnows(q, F, d, V)'
    BY <1>2, <1>6, <1>7 DEF Shape, Know, PopKnows, Older, Current, Out, Others, Threads, Given
  <2>2. \A m : NotAhead(m, L, a, b) => NotAhead(m, M, a, b + 1)'
    <3>1. \A k \in a + 1 .. b + 1 : k \in a + 1 .. b \/ k = b + 1
      BY <1>2
    <3>2. \A k \in a + 1 .. b : k \in a .. b
      BY <1>2
    <3> SUFFICES ASSUME NEW m, NotAhead(m, L, a, b) PROVE NotAhead(m, M, a, b + 1)'
      OBVIOUS
    <3>3. m # n
      BY <1>3, <1>5 DEF NotAhead, List!Index
    <3>4. Out(m, M, a + 1, b + 1)
      BY <1>10, <3>1, <3>2, <3>3 DEF NotAhead, Out
    <3> QED BY <1>1, <1>7, <3>4 DEF NotAhead, Out, Others, Threads
  <2>3. ASSUME NEW u \in Consumers PROVE DequeueKnows(u, M, a, b + 1, V)'
    <3>1. at'[u] = at[u] /\ mine'[u] = mine[u]
          /\ other'[u] = other[u] /\ DequeueKnows(u, L, a, b, V)
      BY <1>1, <1>2, <1>7 DEF Others, Threads, Shape, Know
    <3> QED BY <1>6, <2>2, <3>1 DEF DequeueKnows, Older, Current, Given
  <2> QED BY <2>1, <2>3 DEF Know
<1> QED BY <1>2, <1>8, <1>10, <1>12, <1>13, <1>14, <1>15, <1>16, <1>17, <1>18 DEF Shape, IsShape

LEMMA LinkKeeps ==
  ASSUME NEW L, NEW F, NEW V, NEW a, NEW b, NEW d, IsShape(L, a, b, F, d, V),
         NEW p \in Producers, List!Link(p),
         i' \in [Threads -> Nat], \A q \in Producers : i'[q] <= ItemNum
  PROVE  IsShape(L, a, b, F, d, V)'
<1>1. p \in Threads /\ p \notin Consumers
  BY TestAssumption DEF Threads
<1>2. /\ LinkedTypes /\ Shape(L, a, b, F, d, V) /\ L \in [Nat -> Nodes] /\ F \in [Nat -> Nodes]
      /\ V \in [Nodes -> Nat] /\ a \in Nat /\ b \in Nat /\ d \in Nat /\ a <= b
  BY DEF IsShape
<1>3. at[p] = "link"
  BY DEF List!Link
<1>4. PICK k \in a .. b - 1 :
        other[p] = Ref(L[k], V) /\ mine[p] = Ref(L[k + 1], V) /\ next[L[k]] = Null
  BY <1>2, <1>3 DEF Shape, Links
<1>5. PICK n : n = L[k]
  OBVIOUS
<1>6. /\ k \in a .. b /\ k # b /\ k + 1 \in a .. b /\ k \in Nat /\ b \in a .. b /\ a \in a .. b
      /\ \A j \in a .. b - 1 : j \in a .. b
  BY <1>2
<1>7. n \in Nodes /\ other[p].node = n /\ Given(L[k + 1])
  BY <1>2, <1>4, <1>5, <1>6 DEF Ref, List!Index, Shape, Chain
<1>8. Ref(L[k + 1], V) \in Indices
  <2>1. L[k + 1] \in Nodes /\ V[L[k + 1]] \in Nat
    BY <1>2, <1>7, GivenIsNode
  <2> QED BY <2>1, MaxNodeIsNat DEF Ref, List!Index, Indices, Nodes, List!Nodes
<1>9. /\ at' = [at EXCEPT ![p] = "out"]
      /\ mine' = [mine EXCEPT ![p] = Null]
      /\ other' = [other EXCEPT ![p] = Null]
      /\ next' = [next EXCEPT ![n] = Ref(L[k + 1], V)]
      /\ UNCHANGED <<rawItem, nextNodeIdx, head, tail, freeListHead>>
  BY <1>4, <1>7 DEF List!Link, List!Leave, List!Goto, Null
<1>10. /\ at'[p] = "out" /\ Others(p)
       /\ at' \in [Threads -> ProducerPlaces \cup ConsumerPlaces]
       /\ mine' \in [Threads -> Indices \cup HeadIndices]
       /\ other' \in [Threads -> Indices]
       /\ next' \in [Nodes -> Indices]
       /\ next'[n] = Ref(L[k + 1], V)
       /\ \A m \in Nodes : m # n => next'[m] = next[m]
  BY <1>1, <1>2, <1>7, <1>8, <1>9, NullIsIndex DEF LinkedTypes, Others, ProducerPlaces
<1>11. LinkedTypes'
  BY <1>1, <1>2, <1>9, <1>10 DEF LinkedTypes, Others, ProducerPlaces, Threads
<1>12. HandsOf(p) /\ ~Holding(p)' /\ ~Holding(p)
  BY <1>1, <1>3, <1>10, OthersHold DEF Holding
<1>13. \A j \in a .. b : L[j] \in Nodes /\ (j # k => L[j] # n /\ next'[L[j]] = next[L[j]])
  BY <1>2, <1>5, <1>6, <1>10 DEF Shape, Chain
<1>14. Chain(L, a, b, V)'
  <2>1. next'[L[b]] = Null
    BY <1>2, <1>6, <1>13 DEF Shape, Chain
  <2>2. ASSUME NEW j \in a .. b - 1
        PROVE  \/ next'[L[j]] = Ref(L[j + 1], V)
               \/ next'[L[j]] = Null
                  /\ \E q \in Producers : at'[q] = "link" /\ other'[q] = Ref(L[j], V)
    <3>1. CASE j = k
      BY <1>5, <1>10, <3>1
    <3>2. CASE j # k
      <4>1. next'[L[j]] = next[L[j]] /\ L[j] # n
        BY <1>6, <1>13, <3>2
      <4>2. \A q \in Producers : at[q] = "link" /\ other[q] = Ref(L[j], V) =>
              at'[q] = "link" /\ other'[q] = Ref(L[j], V)
        BY <1>7, <1>10, <4>1 DEF Ref, List!Index, Others, Threads
      <4> QED BY <1>2, <4>1, <4>2 DEF Shape, Chain
    <3> QED BY <3>1, <3>2
  <2> QED BY <1>2, <1>9, <2>1, <2>2 DEF Shape, Chain, Ref, Given
<1>15. Links(L, a, b, V)'
  <2>1. ASSUME NEW q \in Producers, at'[q] = "link"
        PROVE  \E j \in a .. b - 1 :
                 other'[q] = Ref(L[j], V) /\ mine'[q] = Ref(L[j + 1], V) /\ next'[L[j]] = Null
    <3>1. q # p /\ at[q] = "link" /\ other'[q] = other[q] /\ mine'[q] = mine[q]
      BY <1>10, <2>1 DEF Others, Threads
    <3>2. PICK j \in a .. b - 1 :
            other[q] = Ref(L[j], V) /\ mine[q] = Ref(L[j + 1], V) /\ next[L[j]] = Null
      BY <1>2, <3>1 DEF Shape, Links
    <3>3. j # k
      BY <1>2, <1>3, <1>4, <3>1, <3>2 DEF Shape, Links
    <3> QED BY <1>6, <1>13, <3>1, <3>2, <3>3
  <2>2. \A q, s \in Producers :
          at'[q] = "link" /\ at'[s] = "link" /\ other'[q] = other'[s] => q = s
    BY <1>2, <1>10 DEF Shape, Links, Others, Threads
  <2> QED BY <2>1, <2>2 DEF Links, Ref
<1>16. FreeChain(L, a, b, F, d, V)'
  <2>1. \A j \in 1 .. d : F[j] \in Nodes /\ next'[F[j]] = next[F[j]]
    BY <1>2, <1>5, <1>6, <1>10 DEF Shape, FreeChain, Out
  <2> QED BY <1>2, <1>9, <2>1 DEF Shape, FreeChain, Ref, Given, Out
<1>17. Hands(L, a, b, F, d, V)'
  <2>1. \A u \in Threads : Holding(u) => Held(u).node # n /\ Held(u).node \in Nodes
    BY <1>2, <1>5, <1>6, GivenIsNode DEF Shape, Hands, HandKnows, Out
  <2>2. \A u \in Threads : Holding(u)' => u # p
    BY <1>12
  <2>3. \A u \in Threads : HandKnows(u, L, a, b, F, d, V)'
    BY <1>2, <1>9, <1>10, <1>12, <2>1, <2>2
       DEF Shape, Hands, HandKnows, HandsOf, Others, Given, Out
  <2> QED BY <1>2, <1>12, <2>2, <2>3 DEF Hands, HandsOf, Shape
<1>18. Somewhere(L, a, b, F, d)'
  BY <1>2, <1>9, <1>12 DEF Shape, Somewhere, HandsOf
<1>19. Untouched(V)'
  <2>1. \A m \in Nodes : m > nextNodeIdx => m # n
    <3>1. nextNodeIdx \in Nat /\ Given(n)
      BY <1>2, <1>5, <1>6, MaxNodeIsNat DEF LinkedTypes, Nodes, List!Nodes, Shape, Chain
    <3> QED BY <3>1 DEF Given, Nodes, List!Nodes
  <2> QED BY <1>2, <1>9, <1>10, <2>1 DEF Shape, Untouched
<1>20. Know(L, a, b, F, d, V)'
  <2>1. ASSUME NEW q \in Producers PROVE PopKnows(q, F, d, V)'
    <3> SUFFICES ASSUME q # p PROVE PopKnows(q, F, d, V)'
      BY <1>10 DEF PopKnows
    <3>1. at'[q] = at[q] /\ mine'[q] = mine[q] /\ other'[q] = other[q] /\ PopKnows(q, F, d, V)
      BY <1>2, <1>10 DEF Others, Threads, Shape, Know
    <3>2. \A m : ~Out(m, F, 1, d) => m \in Nodes /\ m # n
      BY <1>2, <1>5, <1>6 DEF Shape, FreeChain, Out
    <3> QED BY <1>9, <1>10, <3>1, <3>2 DEF PopKnows, Older, Current, Given, Out
  <2>2. \A m : NotAhead(m, L, a, b) => NotAhead(m, L, a, b)'
    BY <1>10 DEF NotAhead, Out, Others, Threads
  <2>3. ASSUME NEW u \in Consumers PROVE DequeueKnows(u, L, a, b, V)'
    <3>1. at'[u] = at[u] /\ mine'[u] = mine[u]
          /\ other'[u] = other[u] /\ DequeueKnows(u, L, a, b, V)
      BY <1>1, <1>2, <1>10 DEF Others, Threads, Shape, Know
    <3>2. head.idx.node = L[a]
      BY <1>2 DEF Shape, Chain, Ref, List!Index
    <3>3. L[a] = n \/ next'[L[a]] = next[L[a]]
      BY <1>6, <1>10, <1>13
    <3> QED BY <1>4, <1>5, <1>9, <2>2, <3>1, <3>2, <3>3 DEF DequeueKnows, Older, Current, Given
  <2> QED BY <2>1, <2>3 DEF Know
<1> QED BY <1>2, <1>11, <1>14, <1>15, <1>16, <1>17, <1>18, <1>19, <1>20 DEF Shape, IsShape

\* head moves on, and the node it was at is the consumer's.
LEMMA UnlinkKeeps ==
  ASSUME NEW L, NEW F, NEW V, NEW a, NEW b, NEW d, IsShape(L, a, b, F, d, V),
         NEW t \in Consumers, List!Unlink(t), UNCHANGED i
  PROVE  IsShape(L, a + 1, b, F, d, V)' /\ a < b
<1>1. t \in Threads /\ t \notin Producers
  BY TestAssumption DEF Threads
<1>2. /\ LinkedTypes /\ Shape(L, a, b, F, d, V) /\ L \in [Nat -> Nodes] /\ F \in [Nat -> Nodes]
      /\ V \in [Nodes -> Nat] /\ a \in Nat /\ b \in Nat /\ d \in Nat /\ a <= b
  BY DEF IsShape
<1>3. PICK n : n = L[a]
  OBVIOUS
<1>4. /\ at[t] = "move" /\ mine[t] = head
      /\ at' = [at EXCEPT ![t] = "give"] /\ head' = List!Flagged(other[t], FALSE)
      /\ UNCHANGED <<next, rawItem, nextNodeIdx, tail, freeListHead, mine, other, i>>
  BY DEF List!Unlink, List!Goto
<1>5. /\ head.idx = Ref(n, V) /\ Given(n) /\ n \in Nodes
  BY <1>2, <1>3, GivenIsNode DEF Shape, Chain
<1>6. other[t] = next[n] /\ next[n] # Null
  BY <1>2, <1>4, <1>5 DEF Shape, Know, DequeueKnows, Ref, List!Index
<1>7. a < b /\ other[t] = Ref(L[a + 1], V)
  <2>1. a # b
    BY <1>2, <1>3, <1>6 DEF Shape, Chain
  <2>2. a \in a .. b - 1 /\ a < b
    BY <1>2, <2>1
  <2> QED BY <1>2, <1>3, <1>6, <2>2 DEF Shape, Chain
<1>8. /\ a + 1 \in Nat /\ a + 1 <= b /\ a + 1 \in a .. b /\ a \in a .. b /\ b \in a + 1 .. b
      /\ \A k \in a + 1 .. b : k \in a .. b /\ k # a
      /\ \A k \in (a + 1) .. b - 1 : k \in a .. b - 1 /\ k \in a .. b
      /\ \A k \in a .. b : k = a \/ k \in a + 1 .. b
      /\ \A k \in a .. b - 1 : k = a \/ k \in (a + 1) .. b - 1
  BY <1>2, <1>7
<1>9. /\ at'[t] = "give" /\ Others(t)
      /\ at' \in [Threads -> ProducerPlaces \cup ConsumerPlaces]
      /\ head' \in HeadIndices /\ head'.idx = Ref(L[a + 1], V)
  BY <1>1, <1>2, <1>4, <1>7 DEF LinkedTypes, Others, ConsumerPlaces, HeadIndices, List!Flagged
<1>10. LinkedTypes'
  BY <1>1, <1>2, <1>4, <1>9 DEF LinkedTypes, Others, ConsumerPlaces, Threads
<1>11. HandsOf(t) /\ ~Holding(t) /\ Holding(t)' /\ Held(t)' = List!Index(n, V[n])
  BY <1>1, <1>4, <1>5, <1>9, OthersHold DEF Holding, Held, Ref
<1>12. /\ Out(n, L, a + 1, b)
       /\ \A m : Out(m, L, a, b) <=> Out(m, L, a + 1, b) /\ m # n
  BY <1>2, <1>3, <1>8 DEF Shape, Chain, Out
<1>13. Chain(L, a + 1, b, V)'
  <2>1. \A k \in a + 1 .. b : Given(L[k])'
    BY <1>2, <1>4, <1>8 DEF Shape, Chain, Given
  <2>2. \A k \in (a + 1) .. b - 1 :
           \/ next'[L[k]] = Ref(L[k + 1], V)
           \/ next'[L[k]] = Null
              /\ \E q \in Producers : at'[q] = "link" /\ other'[q] = Ref(L[k], V)
    BY <1>1, <1>2, <1>4, <1>8, <1>9 DEF Shape, Chain, Others, Threads
  <2>3. \A j, k \in a + 1 .. b : L[j] = L[k] => j = k
    BY <1>2, <1>8 DEF Shape, Chain
  <2> QED BY <1>2, <1>4, <1>9, <2>1, <2>2, <2>3 DEF Shape, Chain, Ref
<1>14. Links(L, a + 1, b, V)'
  <2>1. ASSUME NEW q \in Producers, at'[q] = "link"
        PROVE  \E k \in (a + 1) .. b - 1 :
                 other'[q] = Ref(L[k], V) /\ mine'[q] = Ref(L[k + 1], V) /\ next'[L[k]] = Null
    <3>1. at[q] = "link" /\ other'[q] = other[q] /\ mine'[q] = mine[q]
      BY <1>1, <1>4, <1>9, <2>1 DEF Others, Threads
    <3>2. PICK k \in a .. b - 1 :
            other[q] = Ref(L[k], V) /\ mine[q] = Ref(L[k + 1], V) /\ next[L[k]] = Null
      BY <1>2, <3>1 DEF Shape, Links
    <3>3. k # a
      BY <1>3, <1>6, <3>2
    <3> QED BY <1>4, <1>8, <3>1, <3>2, <3>3
  <2>2. \A q, s \in Producers :
          at'[q] = "link" /\ at'[s] = "link" /\ other'[q] = other'[s] => q = s
    BY <1>1, <1>2, <1>4, <1>9 DEF Shape, Links, Others, Threads
  <2> QED BY <2>1, <2>2 DEF Links, Ref
<1>15. FreeChain(L, a + 1, b, F, d, V)'
  <2>1. \A k \in 1 .. d : Given(F[k])' /\ Out(F[k], L, a + 1, b)
    BY <1>2, <1>4, <1>12 DEF Shape, FreeChain, Given
  <2> QED BY <1>2, <1>4, <2>1 DEF Shape, FreeChain, Ref, Out
<1>16. Hands(L, a + 1, b, F, d, V)'
  <2>1. Out(n, F, 1, d)
    BY <1>2, <1>3, <1>8 DEF Shape, FreeChain, Out
  <2>2. List!Index(n, V[n]) \in Indices
    BY <1>2, <1>5, MaxNodeIsNat DEF List!Index, Indices, Nodes, List!Nodes
  <2>3. HandKnows(t, L, a + 1, b, F, d, V)'
    BY <1>4, <1>5, <1>9, <1>11, <1>12, <2>1, <2>2 DEF HandKnows, Given, Out, List!Index
  <2>4. \A u \in Threads : Holding(u) => Held(u).node # n
    BY <1>2, <1>12 DEF Shape, Hands, HandKnows
  <2>5. ASSUME NEW u \in Threads, u # t PROVE HandKnows(u, L, a + 1, b, F, d, V)'
    <3> SUFFICES ASSUME Holding(u)' PROVE HandKnows(u, L, a + 1, b, F, d, V)'
      BY DEF HandKnows
    <3>1. at'[u] = at[u] /\ other'[u] = other[u] /\ Holding(u) /\ Held(u)' = Held(u)
      BY <1>9, <1>11, <2>5 DEF Others, HandsOf
    <3>2. HandKnows(u, L, a, b, F, d, V)
      BY <1>2 DEF Shape, Hands
    <3> HIDE DEF Holding, Held
    <3>3. Out(Held(u).node, L, a + 1, b)
      BY <1>12, <3>1, <3>2 DEF HandKnows
    <3> QED BY <1>4, <3>1, <3>2, <3>3 DEF HandKnows, Given, Out
  <2> QED BY <1>2, <1>11, <2>3, <2>4, <2>5 DEF Hands, HandsOf, Shape, List!Index
<1>17. Somewhere(L, a + 1, b, F, d)'
  <2>1. \A m : (\E k \in a .. b : L[k] = m) => m = n \/ \E k \in a + 1 .. b : L[k] = m
    BY <1>3, <1>8
  <2>2. Holding(t)' /\ Held(t)'.node = n
    BY <1>11 DEF List!Index
  <2>3. \A m : (\E u \in Threads : Holding(u) /\ Held(u).node = m) =>
               \E u \in Threads : Holding(u)' /\ Held(u)'.node = m
    BY <1>11 DEF HandsOf
  <2> QED BY <1>1, <1>2, <1>4, <2>1, <2>2, <2>3 DEF Shape, Somewhere
<1>18. Untouched(V)'
  BY <1>2, <1>4 DEF Shape, Untouched
<1>19. Know(L, a + 1, b, F, d, V)'
  <2>1. ASSUME NEW q \in Producers PROVE PopKnows(q, F, d, V)'
    <3>1. at'[q] = at[q] /\ mine'[q] = mine[q] /\ other'[q] = other[q] /\ PopKnows(q, F, d, V)
      BY <1>1, <1>2, <1>9 DEF Others, Threads, Shape, Know
    <3> QED BY <1>4, <3>1 DEF PopKnows, Older, Current, Given, Out
  <2>2. ASSUME NEW m, NotAhead(m, L, a, b) PROVE NotAhead(m, L, a + 1, b)' /\ m # L[a + 1]
    <3>1. \A k \in (a + 1) + 1 .. b : k \in a + 1 .. b
      BY <1>8
    <3> QED BY <1>1, <1>8, <1>9, <2>2, <3>1 DEF NotAhead, Out, Others, Threads
  <2>3. ASSUME NEW u \in Consumers PROVE DequeueKnows(u, L, a + 1, b, V)'
    <3> SUFFICES ASSUME u # t PROVE DequeueKnows(u, L, a + 1, b, V)'
      BY <1>9 DEF DequeueKnows
    <3>1. at'[u] = at[u] /\ mine'[u] = mine[u]
          /\ other'[u] = other[u] /\ DequeueKnows(u, L, a, b, V)
      BY <1>1, <1>2, <1>9 DEF Others, Threads, Shape, Know
    <3>2. at[u] = "move" => mine[u].idx # head'.idx
      BY <1>9, <2>2, <3>1 DEF DequeueKnows, Current, Ref, List!Index
    <3> QED BY <1>4, <2>2, <3>1, <3>2 DEF DequeueKnows, Older, Current, Given
  <2> QED BY <2>1, <2>3 DEF Know
<1> QED BY <1>2, <1>7, <1>8, <1>10, <1>13, <1>14, <1>15, <1>16, <1>17, <1>18, <1>19
           DEF Shape, IsShape

\* The node a consumer holds becomes the first free one.
LEMMA PushFreeKeeps ==
  ASSUME NEW L, NEW F, NEW V, NEW a, NEW b, NEW d, IsShape(L, a, b, F, d, V),
         NEW t \in Consumers, List!PushFree(t), UNCHANGED i
  PROVE  \E G, e : IsShape(L, a, b, G, e, V)'
<1>0. PICK n, G : n = mine[t].idx.node /\ G = [F EXCEPT ![d + 1] = n]
  OBVIOUS
<1>1. t \in Threads /\ t \notin Producers
  BY TestAssumption DEF Threads
<1>2. /\ LinkedTypes /\ Shape(L, a, b, F, d, V) /\ L \in [Nat -> Nodes] /\ F \in [Nat -> Nodes]
      /\ V \in [Nodes -> Nat] /\ a \in Nat /\ b \in Nat /\ d \in Nat /\ a <= b
  BY DEF IsShape
<1>3. at[t] = "push" /\ Holding(t) /\ Held(t) = mine[t].idx
  BY DEF List!PushFree, Holding, Held
<1>4. HandKnows(t, L, a, b, F, d, V)
  BY <1>1, <1>2 DEF Shape, Hands
<1>5. /\ mine[t].idx = Ref(n, V) /\ n \in Nodes /\ Given(n) /\ next[n] = other[t]
      /\ Out(n, L, a, b) /\ Out(n, F, 1, d) /\ Ref(n, V) \in Indices
  BY <1>0, <1>2, <1>3, <1>4, GivenIsNode DEF HandKnows, Ref, List!Index, Indices
<1>6. /\ at' = [at EXCEPT ![t] = "out"]
      /\ mine' = [mine EXCEPT ![t] = Null]
      /\ other' = [other EXCEPT ![t] = Null]
      /\ freeListHead = other[t] /\ freeListHead' = Ref(n, V)
      /\ UNCHANGED <<next, rawItem, nextNodeIdx, head, tail, i>>
  BY <1>0, <1>5 DEF List!PushFree, List!Leave, List!Goto, Null
<1>7. /\ at'[t] = "out" /\ Others(t)
      /\ at' \in [Threads -> ProducerPlaces \cup ConsumerPlaces]
      /\ mine' \in [Threads -> Indices \cup HeadIndices]
      /\ other' \in [Threads -> Indices]
  BY <1>1, <1>2, <1>6, NullIsIndex DEF LinkedTypes, Others, ConsumerPlaces
<1>8. LinkedTypes'
  BY <1>1, <1>2, <1>5, <1>6, <1>7 DEF LinkedTypes, Others, ConsumerPlaces, Threads
<1>9. HandsOf(t) /\ ~Holding(t)'
  BY <1>1, <1>7, OthersHold DEF Holding
<1>10. /\ G \in [Nat -> Nodes] /\ G[d + 1] = n /\ d + 1 \in Nat /\ d + 1 # 0
       /\ \A k \in 1 .. d : G[k] = F[k] /\ k \in 1 .. d + 1 /\ k # d + 1
       /\ \A k \in 1 .. d + 1 : k \in 1 .. d \/ k = d + 1
       /\ d + 1 \in 1 .. d + 1
       /\ \A k \in 1 .. d : k # 1 => k - 1 \in 1 .. d
       /\ d # 0 => d \in 1 .. d /\ (d + 1) - 1 = d
  BY <1>0, <1>2, <1>5
<1>11. \A m : Out(m, G, 1, d + 1) <=> Out(m, F, 1, d) /\ m # n
  BY <1>10 DEF Out
<1>12. Chain(L, a, b, V)'
  <2>1. \A q \in Producers : at'[q] = at[q] /\ other'[q] = other[q]
    BY <1>1, <1>7 DEF Others, Threads
  <2> QED BY <1>2, <1>6, <2>1 DEF Shape, Chain, Ref, Given
<1>13. Links(L, a, b, V)'
  BY <1>1, <1>2, <1>6, <1>7 DEF Shape, Links, Ref, Others, Threads
<1>14. FreeChain(L, a, b, G, d + 1, V)'
  <2>1. \A k \in 1 .. d + 1 : Given(G[k])' /\ Out(G[k], L, a, b)
    BY <1>2, <1>5, <1>6, <1>10 DEF Shape, FreeChain, Given
  <2>2. \A j, k \in 1 .. d + 1 : G[j] = G[k] => j = k
    BY <1>2, <1>5, <1>10 DEF Shape, FreeChain, Out
  <2>3. ASSUME NEW k \in 1 .. d + 1
        PROVE  next'[G[k]] = IF k = 1 THEN Null ELSE Ref(G[k - 1], V)
    <3>1. CASE k \in 1 .. d
      BY <1>2, <1>6, <1>10, <3>1 DEF Shape, FreeChain, Ref
    <3>2. CASE k = d + 1 /\ d # 0
      BY <1>2, <1>5, <1>6, <1>10, <3>2 DEF Shape, FreeChain, Ref
    <3>3. CASE k = d + 1 /\ d = 0
      BY <1>2, <1>5, <1>6, <1>10, <3>3 DEF Shape, FreeChain, Ref
    <3> QED BY <1>10, <3>1, <3>2, <3>3
  <2>4. freeListHead' = Ref(G[d + 1], V)
    BY <1>6, <1>10
  <2> QED BY <1>10, <2>1, <2>2, <2>3, <2>4 DEF FreeChain, Ref, Out
<1>15. Hands(L, a, b, G, d + 1, V)'
  <2>1. \A u \in Threads : u # t /\ Holding(u) => Held(u).node # n
    BY <1>1, <1>2, <1>3, <1>5 DEF Shape, Hands, List!Index, Ref
  <2>2. \A u \in Threads : Holding(u)' => u # t
    BY <1>9
  <2>3. ASSUME NEW u \in Threads PROVE HandKnows(u, L, a, b, G, d + 1, V)'
    <3> SUFFICES ASSUME Holding(u)' PROVE HandKnows(u, L, a, b, G, d + 1, V)'
      BY DEF HandKnows
    <3>1. /\ u # t /\ at'[u] = at[u] /\ other'[u] = other[u] /\ Holding(u) /\ Held(u)' = Held(u)
          /\ Held(u).node # n
      BY <1>7, <1>9, <2>1, <2>2 DEF Others, HandsOf
    <3>2. HandKnows(u, L, a, b, F, d, V)
      BY <1>2 DEF Shape, Hands
    <3>3. Out(Held(u).node, G, 1, d + 1)
      BY <1>11, <3>1, <3>2 DEF HandKnows
    <3> HIDE DEF Holding, Held
    <3> QED BY <1>6, <3>1, <3>2, <3>3 DEF HandKnows, Given, Out
  <2> QED BY <1>2, <1>9, <2>2, <2>3 DEF Hands, HandsOf, Shape
<1>16. Somewhere(L, a, b, G, d + 1)'
  <2>1. \A m : (\E k \in 1 .. d : F[k] = m) \/ m = n => \E k \in 1 .. d + 1 : G[k] = m
    BY <1>10
  <2>2. \A m : (\E u \in Threads : Holding(u) /\ Held(u).node = m) =>
               m = n \/ \E u \in Threads : Holding(u)' /\ Held(u)'.node = m
    BY <1>3, <1>5, <1>9 DEF HandsOf, List!Index, Ref
  <2> QED BY <1>2, <1>6, <2>1, <2>2 DEF Shape, Somewhere
<1>17. Untouched(V)'
  BY <1>2, <1>6 DEF Shape, Untouched
<1>18. Know(L, a, b, G, d + 1, V)'
  <2>1. ASSUME NEW q \in Producers PROVE PopKnows(q, G, d + 1, V)'
    <3>1. at'[q] = at[q] /\ mine'[q] = mine[q] /\ other'[q] = other[q] /\ PopKnows(q, F, d, V)
      BY <1>1, <1>2, <1>7 DEF Others, Threads, Shape, Know
    <3>2. \A m : ~Out(m, F, 1, d) => ~Out(m, G, 1, d + 1)
      BY <1>11
    <3> QED BY <1>6, <3>1, <3>2 DEF PopKnows, Older, Current, Given, Out
  <2>2. \A m : NotAhead(m, L, a, b) => NotAhead(m, L, a, b)'
    BY <1>1, <1>7 DEF NotAhead, Out, Others, Threads
  <2>3. ASSUME NEW u \in Consumers PROVE DequeueKnows(u, L, a, b, V)'
    <3> SUFFICES ASSUME u # t PROVE DequeueKnows(u, L, a, b, V)'
      BY <1>7 DEF DequeueKnows
    <3>1. at'[u] = at[u] /\ mine'[u] = mine[u]
          /\ other'[u] = other[u] /\ DequeueKnows(u, L, a, b, V)
      BY <1>1, <1>2, <1>7 DEF Others, Threads, Shape, Know
    <3> QED BY <1>6, <2>2, <3>1 DEF DequeueKnows, Older, Current, Given
  <2> QED BY <2>1, <2>3 DEF Know
<1>19. IsShape(L, a, b, G, d + 1, V)'
  BY <1>2, <1>8, <1>10, <1>12, <1>13, <1>14, <1>15, <1>16, <1>17, <1>18 DEF Shape, IsShape
<1> QED BY <1>19

-----------------------------------------------------------------------------
(* There are nodes enough: one for each item, and the blank one            *)

Made(p) == i[p] + IF at[p] \in {"swap", "link"} THEN 1 ELSE 0
AllItems == Producers \X (1 .. ItemNum)
Requests == {rest \in AllItems : rest[2] <= Made(rest[1])}
Supply == nextNodeIdx <= 1 + Cardinality(Requests)

LEMMA AllItemsCount ==
  /\ IsFiniteSet(AllItems) /\ Cardinality(AllItems) = ItemNum * Cardinality(Producers)
  /\ MaxNode = 1 + Cardinality(AllItems)
  /\ IsFiniteSet(Requests) /\ Cardinality(Requests) \in Nat
  /\ Cardinality(Requests) <= Cardinality(AllItems)
<1>1. ItemNum \in Nat /\ ItemNum # 0 /\ IsFiniteSet(Producers)
  BY TestAssumption
<1>2. IsFiniteSet(1 .. ItemNum) /\ Cardinality(1 .. ItemNum) = ItemNum
  BY <1>1, FS_Interval
<1>3. Cardinality(Producers) \in Nat
  BY <1>1, FS_CardinalityType
<1>4. /\ IsFiniteSet(AllItems)
      /\ Cardinality(AllItems) = Cardinality(Producers) * Cardinality(1 .. ItemNum)
  BY <1>1, <1>2, FS_Product DEF AllItems
<1>5. Cardinality(AllItems) = ItemNum * Cardinality(Producers)
  BY <1>1, <1>2, <1>3, <1>4
<1>6. Requests \in SUBSET AllItems
  BY DEF Requests
<1>7. IsFiniteSet(Requests) /\ Cardinality(Requests) <= Cardinality(AllItems)
  BY <1>4, <1>6, FS_Subset
<1> QED BY <1>4, <1>5, <1>7, FS_CardinalityType DEF MaxNode

LEMMA SupplyStays ==
  ASSUME Supply, LinkedTypes, LinkedTypes', nextNodeIdx' = nextNodeIdx,
         \A q \in Producers : Made(q) <= Made(q)'
  PROVE  Supply'
<1>1. \A q \in Producers : Made(q) \in Int /\ Made(q)' \in Int
  BY DEF Made, LinkedTypes, Threads
<1>2. Requests \in SUBSET Requests'
  <2> SUFFICES ASSUME NEW rest \in AllItems, rest[2] <= Made(rest[1])
               PROVE rest[2] <= Made(rest[1])'
    BY DEF Requests
  <2>1. rest[1] \in Producers /\ rest[2] \in Int
    BY DEF AllItems
  <2> QED BY <1>1, <2>1
<1>3. Requests' \in SUBSET AllItems
  BY DEF Requests
<1>4. Cardinality(Requests) <= Cardinality(Requests') /\ Cardinality(Requests') \in Nat
  BY <1>2, <1>3, AllItemsCount, FS_Subset, FS_CardinalityType
<1>5. nextNodeIdx \in Int
  BY MaxNodeIsNat DEF LinkedTypes, Nodes, List!Nodes
<1> QED BY <1>4, <1>5, AllItemsCount DEF Supply

LEMMA SupplySuffices ==
  ASSUME Supply, LinkedTypes, NEW p \in Producers, i[p] < ItemNum,
         at[p] \notin {"swap", "link"}
  PROVE  /\ nextNodeIdx < MaxNode
         /\ \A R \in SUBSET AllItems :
              Requests \subseteq R /\ <<p, i[p] + 1>> \in R =>
                nextNodeIdx + 1 <= 1 + Cardinality(R)
<1>1. i[p] \in Nat /\ ItemNum \in Nat /\ nextNodeIdx \in Int
  BY TestAssumption, MaxNodeIsNat DEF LinkedTypes, Threads, Nodes, List!Nodes
<1>2. <<p, i[p] + 1>> \in AllItems /\ <<p, i[p] + 1>> \notin Requests
  BY <1>1 DEF AllItems, Requests, Made
<1>3. ASSUME NEW R \in SUBSET AllItems, Requests \subseteq R, <<p, i[p] + 1>> \in R
      PROVE  nextNodeIdx + 1 <= 1 + Cardinality(R) /\ Cardinality(R) <= Cardinality(AllItems)
  <2>1. /\ IsFiniteSet(R) /\ Cardinality(R) <= Cardinality(AllItems)
        /\ Cardinality(R) \in Nat
    BY <1>3, AllItemsCount, FS_Subset, FS_CardinalityType
  <2>2. Requests \in SUBSET R /\ Requests # R
    BY <1>2, <1>3
  <2>3. Cardinality(Requests) <= Cardinality(R) /\ Cardinality(Requests) # Cardinality(R)
    BY <2>1, <2>2, FS_Subset
  <2> QED BY <1>1, <2>1, <2>3, AllItemsCount DEF Supply
<1>4. nextNodeIdx + 1 <= 1 + Cardinality(AllItems)
  BY <1>2, <1>3 DEF Requests
<1>5. nextNodeIdx < MaxNode
  BY <1>1, <1>4, AllItemsCount, MaxNodeIsNat
<1> QED BY <1>3, <1>5

-----------------------------------------------------------------------------
(* The invariant, step by step                                             *)

\* The lists are chains, whatever nodes they consist of, and there are nodes enough.
ListInv ==
  /\ \E L, F, V, a, b, d : IsShape(L, a, b, F, d, V)
  /\ Supply

LEMMA InitShape ==
  ASSUME Init
  PROVE  ListInv
<1>1. PICK L : L = [k \in Nat |-> 1]
  OBVIOUS
<1>2. PICK V : V = [n \in Nodes |-> 0]
  OBVIOUS
<1>3. MaxNode \in Nat /\ MaxNode >= 1
  <2>1. Cardinality(Producers) \in Nat /\ ItemNum \in Nat
    BY TestAssumption, FS_CardinalityType
  <2>2. ItemNum * Cardinality(Producers) \in Nat
    BY <2>1
  <2> QED BY <2>2 DEF MaxNode
<1>4. 1 \in Nodes /\ \A n \in Nodes : n \in Nat /\ n # 0 /\ (n > 1 <=> n # 1)
  BY <1>3 DEF Nodes, List!Nodes
<1>5. L \in [Nat -> Nodes] /\ V \in [Nodes -> Nat] /\ L[1] = 1 /\ V[1] = 0
  BY <1>1, <1>2, <1>4
<1>6. Ref(1, V) = List!Index(1, 0) /\ Null \in Indices /\ List!Index(1, 0) \in Indices
  BY <1>3, <1>5, NullIsIndex DEF Ref, List!Index, Indices
<1>7. /\ next = [n \in Nodes |-> Null] /\ rawItem = [n \in Nodes |-> NoItem]
      /\ nextNodeIdx = 1 /\ head = List!Flagged(List!Index(1, 0), TRUE)
      /\ tail = List!Index(1, 0) /\ freeListHead = Null
      /\ at = [t \in Threads |-> "out"] /\ mine = [t \in Threads |-> Null]
      /\ other = [t \in Threads |-> Null] /\ i = [t \in Threads |-> 0]
  BY DEF Init, List!Init, Nodes, Null, List!Threads, Threads
<1>8. LinkedTypes
  <2>1. Producers \subseteq Threads /\ Consumers \subseteq Threads
    BY DEF Threads
  <2>2. 0 <= ItemNum
    BY TestAssumption
  <2> QED BY <1>4, <1>6, <1>7, <2>1, <2>2
         DEF LinkedTypes, AnyItem, List!Flagged, HeadIndices, ProducerPlaces, ConsumerPlaces
<1>9. \A t \in Threads : ~Holding(t) /\ at[t] = "out"
  BY <1>7 DEF Holding
<1>10. /\ Producers \subseteq Threads /\ Consumers \subseteq Threads
       /\ \A n : Given(n) <=> n = 1
       /\ \A k \in 1 .. 1 : k = 1
       /\ 1 .. 1 - 1 = {} /\ 1 .. 0 = {} /\ 1 \in 1 .. 1
  BY <1>7 DEF Threads, Given
<1>11. Chain(L, 1, 1, V) /\ Links(L, 1, 1, V)
  BY <1>4, <1>5, <1>6, <1>7, <1>9, <1>10 DEF Chain, Links, List!Flagged
<1>12. FreeChain(L, 1, 1, L, 0, V) /\ Hands(L, 1, 1, L, 0, V)
  BY <1>7, <1>9, <1>10 DEF FreeChain, Hands, HandKnows
<1>13. Somewhere(L, 1, 1, L, 0)
  BY <1>5, <1>7, <1>10 DEF Somewhere
<1>14. Untouched(V)
  BY <1>2, <1>7 DEF Untouched
<1>15. Know(L, 1, 1, L, 0, V)
  BY <1>9, <1>10 DEF Know, PopKnows, DequeueKnows
<1>16. IsShape(L, 1, 1, L, 0, V)
  BY <1>5, <1>8, <1>11, <1>12, <1>13, <1>14, <1>15 DEF IsShape, Shape
<1>17. Supply
  BY <1>7, AllItemsCount DEF Supply
<1> QED BY <1>16, <1>17 DEF ListInv

\* The programs with a mutex around a list do not touch this one.
LEMMA UntouchedKeeps ==
  ASSUME NEW L, NEW F, NEW V, NEW a, NEW b, NEW d, IsShape(L, a, b, F, d, V),
         UNCHANGED linkedVars,
         i' \in [Threads -> Nat], \A q \in Producers : i'[q] <= ItemNum
  PROVE  IsShape(L, a, b, F, d, V)'
<1> USE DEF linkedVars
<1>1. LinkedTypes'
  BY DEF IsShape, LinkedTypes
<1>2. /\ Chain(L, a, b, V)' /\ Links(L, a, b, V)' /\ FreeChain(L, a, b, F, d, V)'
      /\ Somewhere(L, a, b, F, d)' /\ Untouched(V)'
  BY
     DEF IsShape, Shape, Chain, Links, FreeChain, Somewhere, Untouched, Ref, Given, Out, Holding, Held
<1>3. Hands(L, a, b, F, d, V)'
  BY DEF IsShape, Shape, Hands, HandKnows, Given, Out, Holding, Held
<1>4. Know(L, a, b, F, d, V)'
  BY DEF IsShape, Shape, Know, PopKnows, DequeueKnows, NotAhead, Older, Current, Given, Out
<1> QED BY <1>1, <1>2, <1>3, <1>4 DEF IsShape, Shape

ProducerQuiet(p) ==
  /\ i[p] < ItemNum
  /\ \/ /\ \/ List!LoadFree(p)
           \/ List!NewNode(p, NextItem(p))
           \/ List!LoadFreeNext(p)
           \/ List!PopFree(p)
           \/ List!PopFreeFails(p)
           \/ List!Reuse(p, NextItem(p))
        /\ UNCHANGED driverVars
     \/ List!Link(p) /\ Produced(p)

ConsumerQuiet(t) ==
  /\ \/ List!FindEmpty(t) \/ List!HeadMoved(t) \/ List!TakeLast(t) \/ List!PushFree(t)
     \/ List!LoadHead(t) \/ List!FindNext(t) \/ List!ClaimLast(t)
     \/ List!LoadFreeList(t) \/ List!StoreFreeNext(t) \/ List!PushFreeFails(t)
  /\ UNCHANGED i

LEMMA NextItemIsItem ==
  ASSUME LinkedTypes, NEW p \in Producers, i[p] < ItemNum
  PROVE  NextItem(p) \in AllItems /\ NextItem(p) \in AnyItem /\ i[p] + 1 <= ItemNum
<1>1. i[p] \in Nat /\ ItemNum \in Nat
  BY TestAssumption DEF LinkedTypes, Threads
<1>2. i[p] + 1 \in 1 .. ItemNum
  BY <1>1
<1> QED BY <1>1, <1>2 DEF NextItem, AllItems, AnyItem

LEMMA ProducedTypes ==
  ASSUME LinkedTypes, NEW p \in Producers, i[p] < ItemNum, Produced(p)
  PROVE  /\ i' \in [Threads -> Nat] /\ \A q \in Producers : i'[q] <= ItemNum
         /\ i'[p] = i[p] + 1 /\ \A t \in Threads : t # p => i'[t] = i[t]
<1>1. i \in [Threads -> Nat] /\ p \in Threads /\ i[p] + 1 \in Nat /\ i[p] + 1 <= ItemNum
  BY TestAssumption DEF LinkedTypes, Threads
<1> QED BY <1>1 DEF Produced, LinkedTypes, Threads

\* Steps that leave the nodes of the list where they are
LEMMA QuietStep ==
  ASSUME NEW L, NEW F, NEW V, NEW a, NEW b, NEW d, IsShape(L, a, b, F, d, V), Supply,
         \/ \E p \in Producers : ProducerQuiet(p)
         \/ \E t \in Consumers : ConsumerQuiet(t)
  PROVE  \E G, e, U : IsShape(L, a, b, G, e, U)'
<1>1. LinkedTypes
  BY DEF IsShape
<1>2. ASSUME NEW p \in Producers, ProducerQuiet(p)
      PROVE  \E G, e, U : IsShape(L, a, b, G, e, U)'
  <2>1. i[p] < ItemNum /\ NextItem(p) \in AnyItem
    BY <1>1, <1>2, NextItemIsItem DEF ProducerQuiet
  <2>2. CASE List!LoadFree(p) /\ UNCHANGED driverVars
    BY <2>2, LoadFreeKeeps DEF driverVars
  <2>3. CASE List!NewNode(p, NextItem(p)) /\ UNCHANGED driverVars
    <3>1. at[p] \notin {"swap", "link"}
      BY <2>3 DEF List!NewNode
    <3>2. nextNodeIdx < MaxNode
      BY <1>1, <2>1, <3>1, SupplySuffices
    <3> QED BY <2>1, <2>3, <3>2, NewNodeKeeps DEF driverVars
  <2>4. CASE List!LoadFreeNext(p) /\ UNCHANGED driverVars
    BY <2>4, LoadFreeNextKeeps DEF driverVars
  <2>5. CASE List!PopFree(p) /\ UNCHANGED driverVars
    BY <2>5, PopFreeKeeps DEF driverVars
  <2>6. CASE List!PopFreeFails(p) /\ UNCHANGED driverVars
    BY <2>6, PopFreeFailsKeeps DEF driverVars
  <2>7. CASE List!Reuse(p, NextItem(p)) /\ UNCHANGED driverVars
    BY <2>1, <2>7, ReuseKeeps DEF driverVars
  <2>8. CASE List!Link(p) /\ Produced(p)
    BY <1>1, <2>1, <2>8, ProducedTypes, LinkKeeps
  <2> QED BY <1>2, <2>2, <2>3, <2>4, <2>5, <2>6, <2>7, <2>8 DEF ProducerQuiet
<1>3. ASSUME NEW t \in Consumers, ConsumerQuiet(t)
      PROVE  \E G, e, U : IsShape(L, a, b, G, e, U)'
  <2>1. UNCHANGED i
    BY <1>3 DEF ConsumerQuiet
  <2>2. CASE List!FindEmpty(t) \/ List!HeadMoved(t) \/ List!TakeLast(t)
    BY <2>1, <2>2, LeavesKeeps
  <2>3. CASE List!LoadHead(t)
    BY <2>1, <2>3, LoadHeadKeeps
  <2>4. CASE List!FindNext(t)
    BY <2>1, <2>4, FindNextKeeps
  <2>5. CASE List!ClaimLast(t)
    BY <2>1, <2>5, ClaimLastKeeps
  <2>6. CASE List!LoadFreeList(t) \/ List!PushFreeFails(t)
    BY <2>1, <2>6, LoadFreeListKeeps
  <2>7. CASE List!StoreFreeNext(t)
    BY <2>1, <2>7, StoreFreeNextKeeps
  <2>8. CASE List!PushFree(t)
    BY <2>1, <2>8, PushFreeKeeps
  <2> QED BY <1>3, <2>2, <2>3, <2>4, <2>5, <2>6, <2>7, <2>8 DEF ConsumerQuiet
<1> QED BY <1>2, <1>3

LEMMA SupplyKept ==
  ASSUME Supply, LinkedTypes, LinkedTypes',
         \/ \E p \in Producers : ProducerQuiet(p)
         \/ \E p \in Producers : List!SwapTail(p) /\ UNCHANGED i
         \/ \E t \in Consumers : ConsumerQuiet(t) \/ (List!Unlink(t) /\ UNCHANGED i)
  PROVE  Supply'
<1>0. \A p \in Producers : p \in Threads /\ i[p] \in Nat /\ p \notin Consumers
  BY TestAssumption DEF LinkedTypes, Threads
<1>1. ASSUME NEW p \in Producers, List!NewNode(p, NextItem(p)), i[p] < ItemNum, UNCHANGED i
      PROVE  Supply'
  <2>1. /\ at[p] = "new" /\ at' = [at EXCEPT ![p] = "swap"] /\ nextNodeIdx' = nextNodeIdx + 1
    BY <1>1 DEF List!NewNode, List!Goto
  <2>2. at[p] \notin {"swap", "link"} /\ at'[p] = "swap" /\ \A q \in Producers : q # p => at'[q] = at[q]
    BY <1>0, <2>1 DEF LinkedTypes
  <2>3. \A q \in Producers : Made(q) <= Made(q)' /\ Made(q) \in Int /\ Made(q)' \in Int
    BY <1>0, <1>1, <2>2 DEF Made
  <2>4. Requests' \in SUBSET AllItems
    BY DEF Requests
  <2>5. Requests \subseteq Requests'
    BY <2>3 DEF Requests, AllItems
  <2>6. <<p, i[p] + 1>> \in Requests'
    <3>1. <<p, i[p] + 1>> \in AllItems
      BY <1>1, NextItemIsItem DEF NextItem
    <3>2. Made(p)' = i[p] + 1
      BY <1>1, <2>2 DEF Made
    <3>3. i[p] + 1 <= Made(p)'
      BY <1>0, <3>2
    <3> QED BY <3>1, <3>3 DEF Requests
  <2> QED BY <1>1, <2>1, <2>2, <2>4, <2>5, <2>6, SupplySuffices DEF Supply
<1>2. ASSUME NEW p \in Producers, ProducerQuiet(p), ~List!NewNode(p, NextItem(p))
      PROVE  Supply'
  <2>1. CASE List!Link(p) /\ Produced(p)
    <3>1. at[p] = "link" /\ at' = [at EXCEPT ![p] = "out"] /\ nextNodeIdx' = nextNodeIdx
      BY <2>1 DEF List!Link, List!Leave, List!Goto
    <3>2. at'[p] = "out" /\ \A q \in Producers : q # p => at'[q] = at[q]
      BY <1>0, <3>1 DEF LinkedTypes
    <3>3. i'[p] = i[p] + 1 /\ \A q \in Producers : q # p => i'[q] = i[q]
      BY <1>0, <1>2, <2>1, ProducedTypes DEF ProducerQuiet
    <3>4. \A q \in Producers : Made(q) <= Made(q)'
      BY <1>0, <3>1, <3>2, <3>3 DEF Made
    <3> QED BY <3>1, <3>4, SupplyStays
  <2>2. CASE ~(List!Link(p) /\ Produced(p))
    <3>1. /\ \E place : place \notin {"link"} /\ at' = [at EXCEPT ![p] = place]
          /\ at[p] \notin {"swap", "link"}
          /\ nextNodeIdx' = nextNodeIdx /\ i' = i
      BY <1>2, <2>2 DEF ProducerQuiet, List!LoadFree, List!LoadFreeNext, List!PopFree,
        List!PopFreeFails, List!Reuse, List!Goto, List!queueVars, driverVars
    <3>2. \A q \in Producers : q # p => at'[q] = at[q]
      BY <1>0, <3>1 DEF LinkedTypes
    <3>3. \A q \in Producers : Made(q) <= Made(q)'
      BY <1>0, <3>1, <3>2 DEF Made
    <3> QED BY <3>1, <3>3, SupplyStays
  <2> QED BY <2>1, <2>2
<1>3. ASSUME NEW p \in Producers, List!SwapTail(p), UNCHANGED i
      PROVE  Supply'
  <2>1. at[p] = "swap" /\ at' = [at EXCEPT ![p] = "link"] /\ nextNodeIdx' = nextNodeIdx
    BY <1>3 DEF List!SwapTail, List!Goto
  <2>2. at'[p] = "link" /\ \A q \in Producers : q # p => at'[q] = at[q]
    BY <1>0, <2>1 DEF LinkedTypes
  <2>3. \A q \in Producers : Made(q) <= Made(q)'
    BY <1>0, <1>3, <2>1, <2>2 DEF Made
  <2> QED BY <2>1, <2>3, SupplyStays
<1>4. ASSUME NEW t \in Consumers, ConsumerQuiet(t) \/ (List!Unlink(t) /\ UNCHANGED i)
      PROVE  Supply'
  <2>1. (\E place : at' = [at EXCEPT ![t] = place]) /\ nextNodeIdx' = nextNodeIdx /\ i' = i
    BY <1>4 DEF ConsumerQuiet, List!FindEmpty, List!HeadMoved, List!TakeLast, List!PushFree,
      List!LoadHead, List!FindNext, List!ClaimLast, List!Unlink, List!LoadFreeList,
      List!StoreFreeNext, List!PushFreeFails, List!Leave, List!Goto, List!queueVars
  <2>2. \A q \in Producers : at'[q] = at[q]
    BY <1>0, <2>1 DEF LinkedTypes
  <2>3. \A q \in Producers : Made(q) <= Made(q)'
    BY <1>0, <2>1, <2>2 DEF Made
  <2> QED BY <2>1, <2>3, SupplyStays
<1> QED BY <1>1, <1>2, <1>3, <1>4 DEF ProducerQuiet, driverVars, List!Link, List!NewNode

\* Nothing happens to the linked queue.
Elsewhere ==
  /\ UNCHANGED linkedVars
  /\ i' \in [Threads -> Nat] /\ \A q \in Producers : i[q] <= i'[q] /\ i'[q] <= ItemNum

LEMMA Steps ==
  ASSUME LinkedTypes, [Next]_vars
  PROVE  \/ \E p \in Producers : ProducerQuiet(p)
         \/ \E p \in Producers : List!SwapTail(p) /\ UNCHANGED driverVars /\ i[p] < ItemNum
         \/ \E t \in Consumers : ConsumerQuiet(t)
         \/ \E t \in Consumers : List!Unlink(t) /\ UNCHANGED driverVars
         \/ Elsewhere
<1>1. ASSUME UNCHANGED <<linkedVars, i>> PROVE Elsewhere
  <2>1. \A q \in Producers : i[q] <= i'[q] /\ i'[q] <= ItemNum
    BY <1>1 DEF LinkedTypes, Threads
  <2> QED BY <1>1, <2>1 DEF LinkedTypes, Elsewhere
<1>2. CASE UNCHANGED vars
  BY <1>1, <1>2 DEF vars, driverVars
<1>3. ASSUME NEW p \in Producers, LockfreeProducer(p)
      PROVE  \/ ProducerQuiet(p)
             \/ List!SwapTail(p) /\ UNCHANGED driverVars /\ i[p] < ItemNum
  BY <1>3 DEF LockfreeProducer, ProducerQuiet
<1>4. ASSUME NEW p \in Producers, LockedProducer(p)
      PROVE  Elsewhere
  <2>1. i[p] < ItemNum /\ UNCHANGED linkedVars
    BY <1>4 DEF LockedProducer
  <2>2. CASE UNCHANGED driverVars
    BY <1>1, <2>1, <2>2 DEF driverVars
  <2>3. CASE Produced(p)
    <3>1. /\ i' \in [Threads -> Nat] /\ \A q \in Producers : i'[q] <= ItemNum
          /\ i'[p] = i[p] + 1 /\ \A t \in Threads : t # p => i'[t] = i[t]
      BY <2>1, <2>3, ProducedTypes
    <3>2. \A q \in Producers : i[q] <= i'[q]
      BY <3>1 DEF LinkedTypes, Threads
    <3> QED BY <2>1, <3>1, <3>2 DEF Elsewhere
  <2> QED BY <1>4, <2>2, <2>3 DEF LockedProducer
<1>5. ASSUME NEW t \in Consumers, LockfreeConsumer(t)
      PROVE  \/ ConsumerQuiet(t)
             \/ List!Unlink(t) /\ UNCHANGED driverVars
  BY <1>5 DEF LockfreeConsumer, ConsumerQuiet, ReceivedNothing, CountNext, driverVars
<1>6. ASSUME NEW t \in Consumers, LockedConsumer(t)
      PROVE  Elsewhere
  <2>1. UNCHANGED linkedVars
    BY <1>6 DEF LockedConsumer
  <2>2. i' = i \/ i' = [i EXCEPT ![t] = @ + 1]
    BY <1>6 DEF LockedConsumer, AfterTake, CountNext, ReceivedNothing, driverVars
  <2>3. t \in Threads /\ t \notin Producers /\ i[t] + 1 \in Nat
    BY TestAssumption DEF LinkedTypes, Threads
  <2>4. /\ i' \in [Threads -> Nat]
        /\ \A q \in Producers : i'[q] = i[q]
    BY <2>2, <2>3 DEF LinkedTypes, Threads
  <2>5. \A q \in Producers : i[q] <= i'[q] /\ i'[q] <= ItemNum
    BY <2>4 DEF LinkedTypes, Threads
  <2> QED BY <2>1, <2>4, <2>5 DEF Elsewhere
<1>7. ASSUME NEW t \in Consumers, Count(t) \/ Check(t) PROVE UNCHANGED <<linkedVars, i>>
  BY <1>7 DEF Count, Check
<1>8. ASSUME NEW t \in Threads, Wake(t) PROVE UNCHANGED <<linkedVars, i>>
  BY <1>8 DEF Wake, driverVars
<1> HIDE DEF Elsewhere, ProducerQuiet, ConsumerQuiet
<1> QED BY <1>1, <1>2, <1>3, <1>4, <1>5, <1>6, <1>7, <1>8 DEF Next, Producer, Consumer, Joined

LEMMA NextKeepsList ==
  ASSUME ListInv, [Next]_vars
  PROVE  ListInv'
<1>1. PICK L, F, V, a, b, d : IsShape(L, a, b, F, d, V)
  BY DEF ListInv
<1>2. LinkedTypes /\ Supply
  BY <1>1 DEF ListInv, IsShape
<1>3. CASE (\E p \in Producers : ProducerQuiet(p)) \/ (\E t \in Consumers : ConsumerQuiet(t))
  <2>1. PICK G, e, U : IsShape(L, a, b, G, e, U)'
    BY <1>1, <1>2, <1>3, QuietStep
  <2>2. LinkedTypes'
    BY <2>1 DEF IsShape
  <2> QED BY <1>2, <1>3, <2>1, <2>2, SupplyKept DEF ListInv
<1>4. ASSUME NEW p \in Producers, List!SwapTail(p), UNCHANGED driverVars
      PROVE  ListInv'
  <2>1. PICK n, M : n = mine[p].node /\ Placed(M, L, b + 1, n)
    BY DEF Placed
  <2>2. IsShape(M, a, b + 1, F, d, V)'
    BY <1>1, <1>4, <2>1, SwapTailKeeps DEF driverVars
  <2>3. LinkedTypes'
    BY <2>2 DEF IsShape
  <2>4. Supply'
    BY <1>2, <1>4, <2>3, SupplyKept DEF driverVars
  <2> QED BY <2>2, <2>4 DEF ListInv
<1>5. ASSUME NEW t \in Consumers, List!Unlink(t), UNCHANGED driverVars
      PROVE  ListInv'
  <2>1. IsShape(L, a + 1, b, F, d, V)'
    BY <1>1, <1>5, UnlinkKeeps DEF driverVars
  <2>2. LinkedTypes'
    BY <2>1 DEF IsShape
  <2> QED BY <1>2, <1>5, <2>1, <2>2, SupplyKept DEF ListInv, driverVars
<1>6. CASE Elsewhere
  <2>1. IsShape(L, a, b, F, d, V)'
    BY <1>1, <1>6, UntouchedKeeps DEF Elsewhere
  <2>2. LinkedTypes'
    BY <2>1 DEF IsShape
  <2>3. nextNodeIdx' = nextNodeIdx /\ at' = at
    BY <1>6 DEF Elsewhere, linkedVars
  <2>4. \A q \in Producers : Made(q) <= Made(q)'
    BY <1>2, <1>6, <2>2, <2>3 DEF Made, Elsewhere, LinkedTypes, Threads
  <2> QED BY <1>2, <2>1, <2>2, <2>3, <2>4, SupplyStays DEF ListInv
<1> QED BY <1>2, <1>3, <1>4, <1>5, <1>6, Steps

\* Whatever the threads do, the list and the free list stay chains of present
\* indices, and old indices stay recognisable.
THEOREM ListAlwaysShaped == Spec => []ListInv
<1>1. Init => ListInv
  BY InitShape
<1>2. ListInv /\ [Next]_vars => ListInv'
  BY NextKeepsList
<1> QED BY <1>1, <1>2, PTL DEF Spec

-----------------------------------------------------------------------------
(* What a walk along the links meets                                       *)

\* LinkedQueue's Cardinality is an instance of its own.
LEMMA SameCardinality == \A S : List!Cardinality(S) = Cardinality(S)
  BY DEF List!Cardinality, Cardinality

LEMMA WalkMeets ==
  ASSUME NEW first, NEW behind, NEW m \in Nat,
         NEW met \in [1 .. m -> Nodes],
         \A j, k \in 1 .. m : met[j] = met[k] => j = k,
         first = IF m = 0 THEN 0 ELSE met[1],
         \A k \in 1 .. m : behind[met[k]] = IF k = m THEN 0 ELSE met[k + 1]
  PROVE  List!Walk(first, behind) = met
<1>1. MaxNode \in Nat
  BY MaxNodeIsNat
<1>2. m <= MaxNode /\ IsFiniteSet(1 .. m) /\ Cardinality(1 .. m) = m
  <2>1. /\ IsFiniteSet(1 .. m) /\ Cardinality(1 .. m) = m
        /\ IsFiniteSet(Nodes) /\ Cardinality(Nodes) = MaxNode
    <3>1. 1 \in Int /\ m \in Int /\ MaxNode \in Int /\ ~(1 > m /\ m # 0) /\ ~(1 > MaxNode /\ MaxNode # 0)
      BY <1>1
    <3>2. /\ IsFiniteSet(1 .. m) /\ Cardinality(1 .. m) = IF 1 > m THEN 0 ELSE m - 1 + 1
          /\ IsFiniteSet(1 .. MaxNode)
          /\ Cardinality(1 .. MaxNode) = IF 1 > MaxNode THEN 0 ELSE MaxNode - 1 + 1
      BY <3>1, FS_Interval
    <3> QED BY <1>1, <3>2 DEF Nodes, List!Nodes
  <2>2. met \in Injection(1 .. m, Nodes)
    BY DEF Injection, IsInjective
  <2> QED BY <2>1, <2>2, FS_Injection
<1>3. PICK walk : walk = [k \in Nodes |-> IF k <= m THEN met[k] ELSE 0]
  OBVIOUS
<1>4. \A k \in Nodes : k \in Nat /\ k >= 1 /\ (k # 1 => k - 1 \in Nodes)
  BY <1>1 DEF Nodes, List!Nodes
<1>5. \A k \in 1 .. m : k \in Nodes /\ met[k] # 0 /\ walk[k] = met[k]
  BY <1>1, <1>2, <1>3, <1>4 DEF Nodes, List!Nodes
<1> DEFINE Go(v) == [k \in Nodes |-> IF k = 1 THEN first
                                     ELSE IF v[k - 1] = 0 THEN 0 ELSE behind[v[k - 1]]]
<1>6. walk = Go(walk)
  <2> SUFFICES ASSUME NEW k \in Nodes PROVE walk[k] = Go(walk)[k]
    BY <1>3
  <2>1. CASE k = 1
    <3>1. m = 0 \/ 1 \in 1 .. m
      OBVIOUS
    <3> QED BY <1>3, <1>5, <2>1, <3>1
  <2>2. CASE k # 1 /\ k - 1 > m
    BY <1>3, <1>4, <2>2
  <2>3. CASE k # 1 /\ k - 1 <= m
    <3>1. k - 1 \in 1 .. m /\ (k <= m => k \in 1 .. m) /\ (~(k <= m) => k - 1 = m)
      BY <1>4, <2>3
    <3>2. walk[k - 1] = met[k - 1] /\ met[k - 1] # 0
      BY <1>5, <3>1
    <3>3. Go(walk)[k] = behind[met[k - 1]]
      BY <2>3, <3>2
    <3>4. (k - 1) + 1 = k /\ (k - 1 = m <=> ~(k <= m))
      BY <1>4, <3>1
    <3> QED BY <1>3, <3>1, <3>3, <3>4
  <2> QED BY <1>4, <2>1, <2>2, <2>3
<1>7. ASSUME NEW v, v = Go(v) PROVE v = walk
  <2> DEFINE Bad == {k \in Nodes : v[k] # walk[k]}
  <2>1. CASE Bad = {}
    <3>1. \A k \in Nodes : v[k] = walk[k]
      BY <2>1
    <3> QED BY <1>3, <1>7, <3>1
  <2>2. CASE Bad # {}
    <3>1. Bad \in SUBSET Nat
      BY <1>4
    <3> HIDE DEF Bad
    <3>2. PICK k \in Bad : \A j \in Bad : k <= j
      BY <2>2, <3>1, LeastPosition
    <3>3. k \in Nodes /\ v[k] # walk[k]
      BY <3>2 DEF Bad
    <3>4. v[k] = Go(v)[k] /\ walk[k] = Go(walk)[k]
      BY <1>6, <1>7
    <3>5. k # 1
      BY <3>3, <3>4
    <3>6. k - 1 \in Nodes /\ ~(k <= k - 1)
      BY <1>4, <3>3, <3>5
    <3>7. v[k - 1] = walk[k - 1]
      BY <3>2, <3>6 DEF Bad
    <3> QED BY <3>3, <3>4, <3>5, <3>7
  <2> QED BY <2>1, <2>2
<1>8. walk = CHOOSE v : v = Go(v)
  BY <1>6, <1>7
<1>9. {j \in Nodes : walk[j] # 0} = 1 .. m
  <2>1. \A j \in Nodes : walk[j] # 0 => j \in 1 .. m
    BY <1>3, <1>4
  <2>2. \A j \in 1 .. m : j \in Nodes /\ walk[j] # 0
    BY <1>5
  <2> QED BY <2>1, <2>2
<1>10. List!Walk(first, behind) = [k \in 1 .. Cardinality({j \in Nodes : walk[j] # 0}) |-> walk[k]]
  BY <1>8, SameCardinality DEF List!Walk, Nodes
<1>11. List!Walk(first, behind) = [k \in 1 .. m |-> walk[k]]
  BY <1>2, <1>9, <1>10
<1>12. [k \in 1 .. m |-> walk[k]] = [k \in 1 .. m |-> met[k]]
  BY <1>5
<1> QED BY <1>11, <1>12

\* The list as a sequence of nodes
LEMMA ListMet ==
  ASSUME NEW L, NEW F, NEW V, NEW a, NEW b, NEW d, IsShape(L, a, b, F, d, V)
  PROVE  List!ListNodes = [k \in 1 .. b - a + 1 |-> L[a + k - 1]]
<1>1. /\ LinkedTypes /\ Shape(L, a, b, F, d, V) /\ L \in [Nat -> Nodes] /\ F \in [Nat -> Nodes]
      /\ V \in [Nodes -> Nat] /\ a \in Nat /\ b \in Nat /\ d \in Nat /\ a <= b
  BY DEF IsShape
<1>2. PICK m, met : m = b - a + 1 /\ met = [k \in 1 .. m |-> L[a + k - 1]]
  OBVIOUS
<1>3. m \in Nat /\ m # 0 /\ 1 \in 1 .. m
  BY <1>1, <1>2
<1>4. \A k \in 1 .. m : met[k] = L[a + k - 1] /\ a + k - 1 \in a .. b /\ a + k - 1 \in Nat
  BY <1>1, <1>2
<1>5. met[1] = L[a]
  BY <1>1, <1>3, <1>4
<1>6. \A j \in 1 .. m : met[j] \in Nodes
  BY <1>1, <1>4
<1>7. \A j, k \in 1 .. m : met[j] = met[k] => j = k
  BY <1>1, <1>4 DEF Shape, Chain
<1>8. met \in [1 .. m -> Nodes]
  BY <1>2, <1>4, <1>6
<1>9. head.idx.node = IF m = 0 THEN 0 ELSE met[1]
  BY <1>1, <1>3, <1>5 DEF Shape, Chain, Ref, List!Index
<1>10. ASSUME NEW k \in 1 .. m
       PROVE  List!Behind[met[k]] = IF k = m THEN 0 ELSE met[k + 1]
  <2> DEFINE n == met[k]
             j == a + k - 1
             S == {p \in Producers : at[p] = "link" /\ other[p].node = n}
  <2>1. /\ n \in Nodes /\ n = L[j] /\ j \in a .. b /\ j \in Nat /\ (k = m <=> j = b)
        /\ (k # m => j \in a .. b - 1 /\ met[k + 1] = L[j + 1])
    <3>1. k = m <=> j = b
      BY <1>1, <1>2
    <3>2. k # m => j \in a .. b - 1 /\ k + 1 \in 1 .. m /\ a + (k + 1) - 1 = j + 1
      BY <1>1, <1>2
    <3>3. k # m => met[k + 1] = L[j + 1]
      BY <1>4, <3>2
    <3> QED BY <1>4, <1>6, <3>1, <3>2, <3>3
  <2>2. List!Behind[n] = IF S = {} THEN next[n].node ELSE mine[CHOOSE p \in S : TRUE].node
    BY <2>1 DEF List!Behind, List!Linking, List!Linked, Nodes
  <2> HIDE DEF n, j, S
  <2>3. ASSUME NEW p \in S
        PROVE  j # b /\ next[n] = Null /\ mine[p] = Ref(L[j + 1], V)
    <3>1. p \in Producers /\ at[p] = "link" /\ other[p].node = n
      BY <2>3 DEF S
    <3>2. PICK q \in a .. b - 1 :
            other[p] = Ref(L[q], V) /\ mine[p] = Ref(L[q + 1], V) /\ next[L[q]] = Null
      BY <1>1, <3>1 DEF Shape, Links
    <3>3. L[q] = n /\ q \in a .. b /\ q # b
      BY <1>1, <3>1, <3>2 DEF Ref, List!Index
    <3>4. q = j
      BY <1>1, <2>1, <3>3 DEF Shape, Chain
    <3> QED BY <2>1, <3>2, <3>3, <3>4
  <2>4. CASE S # {}
    <3>1. (CHOOSE p \in S : TRUE) \in S
      BY <2>4
    <3>2. mine[CHOOSE p \in S : TRUE].node = L[j + 1] /\ j # b
      BY <2>3, <3>1 DEF Ref, List!Index
    <3> QED BY <2>1, <2>2, <2>4, <3>2 DEF n
  <2>5. CASE S = {} /\ j # b
    <3>1. ~ \E p \in Producers : at[p] = "link" /\ other[p] = Ref(L[j], V)
      BY <2>1, <2>5 DEF S, Ref, List!Index
    <3>2. next[L[j]] = Ref(L[j + 1], V)
      BY <1>1, <2>1, <2>5, <3>1 DEF Shape, Chain
    <3> QED BY <2>1, <2>2, <2>5, <3>2 DEF n, Ref, List!Index
  <2>6. CASE S = {} /\ j = b
    <3>1. next[n] = Null
      BY <1>1, <2>1, <2>6 DEF Shape, Chain
    <3> QED BY <2>1, <2>2, <2>6, <3>1, NullIsIndex DEF n
  <2> QED BY <2>4, <2>5, <2>6
<1>11. List!Walk(head.idx.node, List!Behind) = met
  BY <1>3, <1>7, <1>8, <1>9, <1>10, WalkMeets
<1> QED BY <1>2, <1>11 DEF List!ListNodes

LEMMA FreeMet ==
  ASSUME NEW L, NEW F, NEW V, NEW a, NEW b, NEW d, IsShape(L, a, b, F, d, V)
  PROVE  List!FreeNodes = [k \in 1 .. d |-> F[d + 1 - k]]
<1>1. /\ LinkedTypes /\ Shape(L, a, b, F, d, V) /\ F \in [Nat -> Nodes] /\ d \in Nat
  BY DEF IsShape
<1>2. PICK met : met = [k \in 1 .. d |-> F[d + 1 - k]]
  OBVIOUS
<1>3. \A k \in 1 .. d : met[k] = F[d + 1 - k] /\ d + 1 - k \in 1 .. d /\ d + 1 - k \in Nat
  BY <1>1, <1>2
<1>4. \A j \in 1 .. d : met[j] \in Nodes
  BY <1>1, <1>3
<1>5. \A j, k \in 1 .. d : met[j] = met[k] => j = k
  BY <1>1, <1>3 DEF Shape, FreeChain
<1>6. met \in [1 .. d -> Nodes]
  BY <1>2, <1>3, <1>4
<1>7. freeListHead.node = IF d = 0 THEN 0 ELSE met[1]
  <2>1. d # 0 => 1 \in 1 .. d /\ d + 1 - 1 = d
    BY <1>1
  <2>2. d # 0 => met[1] = F[d]
    BY <1>3, <2>1
  <2> QED BY <1>1, <2>2, NullIsIndex DEF Shape, FreeChain, Ref, List!Index
<1>8. ASSUME NEW k \in 1 .. d
      PROVE  List!Linked[met[k]] = IF k = d THEN 0 ELSE met[k + 1]
  <2>1. /\ d + 1 - k \in 1 .. d /\ (k = d <=> d + 1 - k = 1)
        /\ k # d => k + 1 \in 1 .. d /\ d + 1 - (k + 1) = (d + 1 - k) - 1
    BY <1>1
  <2>2. k # d => met[k + 1] = F[(d + 1 - k) - 1]
    BY <1>3, <2>1
  <2>3. List!Linked[met[k]] = next[met[k]].node
    BY <1>4 DEF List!Linked, Nodes
  <2>4. next[met[k]] = IF d + 1 - k = 1 THEN Null ELSE Ref(F[(d + 1 - k) - 1], V)
    BY <1>1, <1>3, <2>1 DEF Shape, FreeChain
  <2> QED BY <2>1, <2>2, <2>3, <2>4, NullIsIndex DEF Ref, List!Index
<1>9. List!Walk(freeListHead.node, List!Linked) = met
  BY <1>1, <1>5, <1>6, <1>7, <1>8, WalkMeets
<1> QED BY <1>2, <1>9 DEF List!FreeNodes

\* How often a value occurs in a one-to-one sequence
LEMMA OccursOnce ==
  ASSUME NEW s, \A j, k \in DOMAIN s : s[j] = s[k] => j = k, NEW n
  PROVE  Cardinality({k \in DOMAIN s : s[k] = n}) = IF \E k \in DOMAIN s : s[k] = n THEN 1 ELSE 0
<1>1. CASE \E k \in DOMAIN s : s[k] = n
  <2>1. PICK k \in DOMAIN s : s[k] = n
    BY <1>1
  <2>2. {j \in DOMAIN s : s[j] = n} = {k}
    BY <2>1
  <2> QED BY <1>1, <2>2, FS_Singleton
<1>2. CASE ~ \E k \in DOMAIN s : s[k] = n
  <2>1. {j \in DOMAIN s : s[j] = n} = {}
    BY <1>2
  <2> QED BY <1>2, <2>1, FS_EmptySet
<1> QED BY <1>1, <1>2

LEMMA ShapeAccounts ==
  ASSUME NEW L, NEW F, NEW V, NEW a, NEW b, NEW d, IsShape(L, a, b, F, d, V)
  PROVE  NodesAccounted
<1>1. /\ LinkedTypes /\ Shape(L, a, b, F, d, V) /\ L \in [Nat -> Nodes] /\ F \in [Nat -> Nodes]
      /\ V \in [Nodes -> Nat] /\ a \in Nat /\ b \in Nat /\ d \in Nat /\ a <= b
  BY DEF IsShape
<1>2. PICK s, rest : /\ s = List!ListNodes /\ rest = List!FreeNodes
                  /\ s = [k \in 1 .. b - a + 1 |-> L[a + k - 1]]
                  /\ rest = [k \in 1 .. d |-> F[d + 1 - k]]
  BY ListMet, FreeMet
<1>3. \A j, k \in DOMAIN s : s[j] = s[k] => j = k
  <2>1. \A k \in DOMAIN s : k \in 1 .. b - a + 1 /\ s[k] = L[a + k - 1] /\ a + k - 1 \in a .. b
    BY <1>1, <1>2
  <2> QED BY <1>1, <2>1 DEF Shape, Chain
<1>4. \A j, k \in DOMAIN rest : rest[j] = rest[k] => j = k
  <2>1. \A k \in DOMAIN rest : k \in 1 .. d /\ rest[k] = F[d + 1 - k] /\ d + 1 - k \in 1 .. d
    BY <1>1, <1>2
  <2> QED BY <1>1, <2>1 DEF Shape, FreeChain
<1>5. SUFFICES ASSUME NEW n \in 1 .. nextNodeIdx
      PROVE  Cardinality({k \in DOMAIN s : s[k] = n}) + Cardinality({k \in DOMAIN rest : rest[k] = n})
               + Cardinality({t \in Threads : List!Holds(t, n)}) = 1
  <2>1. ASSUME NEW n \in 1 .. nextNodeIdx
        PROVE  /\ List!Cardinality({k \in DOMAIN s : s[k] = n}) = Cardinality({k \in DOMAIN s : s[k] = n})
               /\ List!Cardinality({k \in DOMAIN rest : rest[k] = n}) = Cardinality({k \in DOMAIN rest : rest[k] = n})
               /\ List!Cardinality({t \in Threads : List!Holds(t, n)})
                    = Cardinality({t \in Threads : List!Holds(t, n)})
    BY SameCardinality
  <2>2. s = List!ListNodes /\ rest = List!FreeNodes /\ List!Threads = Threads
    BY <1>2 DEF List!Threads, Threads
  <2>3. NodesAccounted <=>
          \A n \in 1 .. nextNodeIdx :
            List!Cardinality({k \in DOMAIN s : s[k] = n}) + List!Cardinality({k \in DOMAIN rest : rest[k] = n})
              + List!Cardinality({t \in Threads : List!Holds(t, n)}) = 1
    BY <2>2 DEF NodesAccounted, List!NodesAccounted
  <2> QED BY <2>1, <2>3
<1>6. (\E k \in DOMAIN s : s[k] = n) <=> ~Out(n, L, a, b)
  <2>1. DOMAIN s = 1 .. b - a + 1 /\ \A k \in DOMAIN s : s[k] = L[a + k - 1] /\ a + k - 1 \in a .. b
    BY <1>1, <1>2
  <2>2. \A k \in a .. b : k - a + 1 \in 1 .. b - a + 1 /\ a + (k - a + 1) - 1 = k
    BY <1>1
  <2>3. ASSUME NEW k \in a .. b PROVE s[k - a + 1] = L[k] /\ k - a + 1 \in DOMAIN s
    BY <2>1, <2>2
  <2> QED BY <2>1, <2>3 DEF Out
<1>7. (\E k \in DOMAIN rest : rest[k] = n) <=> ~Out(n, F, 1, d)
  <2>1. DOMAIN rest = 1 .. d /\ \A k \in DOMAIN rest : rest[k] = F[d + 1 - k] /\ d + 1 - k \in 1 .. d
    BY <1>1, <1>2
  <2>2. \A k \in 1 .. d : d + 1 - k \in 1 .. d /\ d + 1 - (d + 1 - k) = k
    BY <1>1
  <2>3. ASSUME NEW k \in 1 .. d PROVE rest[d + 1 - k] = F[k] /\ d + 1 - k \in DOMAIN rest
    BY <2>1, <2>2
  <2> QED BY <2>1, <2>3 DEF Out
<1>8. \A t \in Threads : List!Holds(t, n) <=> Holding(t) /\ Held(t).node = n
  BY DEF List!Holds, Holding, Held
<1>9. PICK h : h = {t \in Threads : List!Holds(t, n)}
  OBVIOUS
<1>10. Cardinality(h) = IF h = {} THEN 0 ELSE 1
  <2>1. CASE h = {}
    BY <2>1, FS_EmptySet
  <2>2. CASE h # {}
    <3>1. PICK t \in h : TRUE
      BY <2>2
    <3>2. \A u \in h : u = t
      BY <1>1, <1>8, <1>9, <3>1 DEF Shape, Hands
    <3>3. h = {t}
      BY <3>1, <3>2
    <3> QED BY <2>2, <3>3, FS_Singleton
  <2> QED BY <2>1, <2>2
<1>11. /\ ~Out(n, L, a, b) \/ ~Out(n, F, 1, d) \/ h # {}
       /\ h # {} => Out(n, L, a, b) /\ Out(n, F, 1, d)
       /\ Out(n, L, a, b) \/ Out(n, F, 1, d)
  <2>1. ~Out(n, L, a, b) \/ ~Out(n, F, 1, d) \/ h # {}
    BY <1>1, <1>8, <1>9 DEF Shape, Somewhere, Out
  <2>2. h # {} => Out(n, L, a, b) /\ Out(n, F, 1, d)
    BY <1>1, <1>8, <1>9 DEF Shape, Hands, HandKnows
  <2>3. Out(n, L, a, b) \/ Out(n, F, 1, d)
    BY <1>1 DEF Shape, FreeChain, Out
  <2> QED BY <2>1, <2>2, <2>3
<1>12. /\ Cardinality({k \in DOMAIN s : s[k] = n}) = IF Out(n, L, a, b) THEN 0 ELSE 1
       /\ Cardinality({k \in DOMAIN rest : rest[k] = n}) = IF Out(n, F, 1, d) THEN 0 ELSE 1
  BY <1>3, <1>4, <1>6, <1>7, OccursOnce
<1> QED BY <1>9, <1>10, <1>11, <1>12

\* No node leaks and none is used for two things at a time, however many
\* producers and consumers share the linked queue (SimpleLockFreeQueue.h:50-140).
THEOREM NodesAlwaysAccounted == Spec => []NodesAccounted
<1>1. ListInv => NodesAccounted
  BY ShapeAccounts DEF ListInv
<1> QED BY <1>1, ListAlwaysShaped, PTL

-----------------------------------------------------------------------------
(* First in, first out: what the waiting items have in common              *)

Waiting == IF kind = "lockfree" THEN List!Contents ELSE queue
Puts == [p \in Producers |-> IF at[p] = "link" THEN i[p] + 1 ELSE i[p]]
Gets == [t \in Consumers |-> IF List!HasClaimed(t) THEN List!Claimed(t) ELSE last_value[t]]

\* Every waiting item was put in, and waits once.
Orderly(q, put) ==
  /\ q \in Seq(AllItems)
  /\ \A j, k \in 1 .. Len(q) : q[j] = q[k] => j = k
  /\ \A k \in 1 .. Len(q) : q[k][2] <= put[q[k][1]]

LEMMA OrderlyHasRoom ==
  ASSUME NEW q, NEW put \in [Producers -> Nat], Orderly(q, put),
         NEW p \in Producers, put[p] < ItemNum
  PROVE  Len(q) < ItemNum * Cardinality(Producers)
<1>1. PICK S : S = AllItems \ {<<p, put[p] + 1>>}
  OBVIOUS
<1>2. <<p, put[p] + 1>> \in AllItems
  <2>1. put[p] \in Nat /\ ItemNum \in Nat
    BY TestAssumption
  <2>2. put[p] + 1 \in 1 .. ItemNum
    BY <2>1
  <2> QED BY <2>2 DEF AllItems
<1>3. IsFiniteSet(S) /\ Cardinality(S) = Cardinality(AllItems) - 1
  BY <1>1, <1>2, AllItemsCount, FS_RemoveElement
<1>4. Len(q) \in Nat /\ q \in [1 .. Len(q) -> AllItems]
  BY DEF Orderly
<1>5. \A k \in 1 .. Len(q) : q[k] # <<p, put[p] + 1>>
  BY <1>4 DEF Orderly
<1>6. q \in Injection(1 .. Len(q), S)
  BY <1>1, <1>4, <1>5 DEF Orderly, Injection, IsInjective
<1>7. Cardinality(1 .. Len(q)) <= Cardinality(S)
  BY <1>3, <1>6, FS_Injection
<1>8. Cardinality(1 .. Len(q)) = Len(q)
  <2>1. 1 \in Int /\ Len(q) \in Int
    BY <1>4
  <2>2. Cardinality(1 .. Len(q)) = IF 1 > Len(q) THEN 0 ELSE Len(q) - 1 + 1
    BY <2>1, FS_Interval
  <2> QED BY <1>4, <2>2
<1>9. Cardinality(AllItems) \in Nat
  BY AllItemsCount, FS_CardinalityType
<1> QED BY <1>3, <1>4, <1>7, <1>8, <1>9, AllItemsCount

LEMMA OrderlyPut ==
  ASSUME NEW q, NEW put \in [Producers -> Nat], Orderly(q, put),
         NEW p \in Producers, put[p] < ItemNum
  PROVE  Orderly(Append(q, <<p, put[p] + 1>>), [put EXCEPT ![p] = @ + 1])
<1>1. PICK item, rest, more : /\ item = <<p, put[p] + 1>> /\ rest = Append(q, item)
                           /\ more = [put EXCEPT ![p] = @ + 1]
  OBVIOUS
<1>2. item \in AllItems /\ item[1] = p /\ item[2] = put[p] + 1
  <2>1. put[p] \in Nat /\ ItemNum \in Nat
    BY TestAssumption
  <2>2. put[p] + 1 \in 1 .. ItemNum
    BY <2>1
  <2> QED BY <1>1, <2>2 DEF AllItems
<1>3. /\ q \in Seq(AllItems) /\ Len(q) \in Nat
      /\ \A k \in 1 .. Len(q) : q[k] \in AllItems /\ q[k][1] \in Producers /\ q[k][2] \in Nat
  BY DEF Orderly, AllItems
<1>4. /\ rest \in Seq(AllItems) /\ Len(rest) = Len(q) + 1 /\ rest[Len(q) + 1] = item
      /\ \A k \in 1 .. Len(q) : rest[k] = q[k]
  BY <1>1, <1>2, <1>3
<1>5. \A k \in 1 .. Len(q) : q[k] # item
  BY <1>2, <1>3 DEF Orderly
<1>6. \A k \in 1 .. Len(rest) : k \in 1 .. Len(q) \/ k = Len(q) + 1
  BY <1>3, <1>4
<1>7. \A j, k \in 1 .. Len(rest) : rest[j] = rest[k] => j = k
  BY <1>4, <1>5, <1>6 DEF Orderly
<1>8. more[p] = put[p] + 1 /\ \A t \in Producers : t # p => more[t] = put[t]
  BY <1>1
<1>9. \A k \in 1 .. Len(rest) : rest[k][2] <= more[rest[k][1]]
  <2> SUFFICES ASSUME NEW k \in 1 .. Len(rest) PROVE rest[k][2] <= more[rest[k][1]]
    OBVIOUS
  <2>1. CASE k = Len(q) + 1
    BY <1>2, <1>4, <1>8, <2>1
  <2>2. CASE k \in 1 .. Len(q)
    <3>1. q[k][2] <= put[q[k][1]]
      BY <2>2 DEF Orderly
    <3> QED BY <1>3, <1>4, <1>8, <2>2, <3>1
  <2> QED BY <1>6, <2>1, <2>2
<1> QED BY <1>1, <1>4, <1>7, <1>9 DEF Orderly

LEMMA OrderlyGet ==
  ASSUME NEW q, NEW put \in [Producers -> Nat], Orderly(q, put), q # <<>>
  PROVE  Orderly(Tail(q), put)
<1>1. PICK rest : rest = Tail(q)
  OBVIOUS
<1>2. /\ q \in Seq(AllItems) /\ Len(q) \in Nat /\ Len(q) # 0
      /\ rest \in Seq(AllItems) /\ Len(rest) = Len(q) - 1
      /\ \A k \in 1 .. Len(rest) : rest[k] = q[k + 1] /\ k + 1 \in 1 .. Len(q)
  BY <1>1 DEF Orderly
<1>3. \A j, k \in 1 .. Len(rest) : rest[j] = rest[k] => j = k
  BY <1>2 DEF Orderly
<1> QED BY <1>1, <1>2, <1>3 DEF Orderly

\* The steps of the promise, as this module reads them
Adds(p) ==
  /\ i[p] < ItemNum /\ at[p] # "link"
  /\ Waiting' = Append(Waiting, NextItem(p))
  /\ Puts' = [Puts EXCEPT ![p] = @ + 1]
  /\ Gets' = Gets
Removes(t) ==
  /\ Waiting # <<>>
  /\ Gets' = [Gets EXCEPT ![t] = Head(Waiting)]
  /\ Waiting' = Tail(Waiting)
  /\ Puts' = Puts
Idles == Waiting' = Waiting /\ Puts' = Puts /\ Gets' = Gets

FifoStep ==
  \/ \E p \in Producers : Adds(p)
  \/ \E t \in Consumers : Removes(t)
  \/ Idles

LEMMA FifoStepRefines ==
  ASSUME FifoStep, Orderly(Waiting, Puts), LinkedTypes
  PROVE  [Fifo!Next]_(Fifo!fifoVars) /\ Orderly(Waiting', Puts')
<1>1. Puts \in [Producers -> Nat] /\ \A p \in Producers : at[p] # "link" => Puts[p] = i[p]
  BY DEF Puts, LinkedTypes, Threads
<1>2. ASSUME NEW p \in Producers, Adds(p)
      PROVE  Fifo!Put(p) /\ Orderly(Waiting', Puts')
  <2>1. Puts[p] = i[p] /\ Puts[p] < ItemNum /\ NextItem(p) = <<p, Puts[p] + 1>>
    BY <1>1, <1>2 DEF Adds, NextItem
  <2>2. Len(Waiting) < ItemNum * Cardinality(Producers)
    BY <1>1, <2>1, OrderlyHasRoom
  <2>3. Orderly(Waiting', Puts')
    BY <1>1, <1>2, <2>1, OrderlyPut DEF Adds
  <2> QED BY <1>2, <2>1, <2>2, <2>3 DEF Fifo!Put, Adds, Waiting, Puts, Gets
<1>3. ASSUME NEW t \in Consumers, Removes(t)
      PROVE  Fifo!Get(t) /\ Orderly(Waiting', Puts')
  <2>1. Orderly(Waiting', Puts')
    BY <1>1, <1>3, OrderlyGet DEF Removes
  <2> QED BY <1>3, <2>1 DEF Fifo!Get, Removes, Waiting, Puts, Gets
<1>4. ASSUME Idles
      PROVE  UNCHANGED Fifo!fifoVars /\ Orderly(Waiting', Puts')
  BY <1>4 DEF Fifo!fifoVars, Idles, Waiting, Puts, Gets
<1> QED BY <1>2, <1>3, <1>4 DEF FifoStep, Fifo!Next

-----------------------------------------------------------------------------
(* The items of the linked queue                                           *)

ItemsOf(L) == [k \in Nat |-> rawItem[L[k]]]
First(a) == IF head.consumed THEN a + 1 ELSE a

LEMMA ContentsOf ==
  ASSUME NEW L, NEW F, NEW V, NEW a, NEW b, NEW d, IsShape(L, a, b, F, d, V)
  PROVE  List!Contents = Stretch(ItemsOf(L), First(a), b + 1)
<1>1. L \in [Nat -> Nodes] /\ a \in Nat /\ b \in Nat /\ a <= b /\ head \in HeadIndices
  BY DEF IsShape, LinkedTypes
<1>2. PICK from, to : from = First(a) /\ to = b + 1
  OBVIOUS
<1>3. from \in Nat /\ to \in Nat /\ from <= to /\ a < to
  BY <1>1, <1>2 DEF First
<1>4. List!ListNodes = Stretch(L, a, to)
  <2>1. List!ListNodes = [k \in 1 .. b - a + 1 |-> L[a + k - 1]]
    BY ListMet
  <2>2. b - a + 1 = to - a
    BY <1>1, <1>2
  <2> QED BY <2>1, <2>2 DEF Stretch
<1>5. PICK nodes : nodes = IF head.consumed THEN Tail(List!ListNodes) ELSE List!ListNodes
  OBVIOUS
<1>6. nodes = Stretch(L, from, to)
  <2>1. Tail(Stretch(L, a, to)) = Stretch(L, a + 1, to)
    BY <1>1, <1>3, StretchShrinks
  <2> QED BY <1>2, <1>4, <1>5, <2>1 DEF First
<1>7. List!Contents = [k \in 1 .. Len(nodes) |-> rawItem[nodes[k]]]
  BY <1>5 DEF List!Contents
<1>8. Len(nodes) = to - from
  BY <1>3, <1>6, StretchIsSequence
<1>9. \A k \in 1 .. to - from : nodes[k] = L[from + k - 1] /\ from + k - 1 \in Nat
  BY <1>3, <1>6, StretchSlots
<1>10. List!Contents = [k \in 1 .. to - from |-> rawItem[nodes[k]]]
  BY <1>7, <1>8
<1>11. \A k \in 1 .. to - from : rawItem[nodes[k]] = ItemsOf(L)[from + k - 1]
  BY <1>9 DEF ItemsOf
<1>12. List!Contents = Stretch(ItemsOf(L), from, to)
  BY <1>10, <1>11 DEF Stretch
<1> QED BY <1>2, <1>12

LEMMA ContentsOfNext ==
  ASSUME NEW L, NEW F, NEW V, NEW a, NEW b, NEW d
  PROVE  IsShape(L, a, b, F, d, V)' =>
           List!Contents' = Stretch(ItemsOf(L)', First(a)', b + 1)
<1>1. IsShape(L, a, b, F, d, V) => List!Contents = Stretch(ItemsOf(L), First(a), b + 1)
  BY ContentsOf
<1>2. (IsShape(L, a, b, F, d, V) => List!Contents = Stretch(ItemsOf(L), First(a), b + 1))'
  BY <1>1, PTL
<1> QED BY <1>2 DEF Stretch

\* A claimed item is in the node at head or in the consumer's hands.
Claims ==
  \A t \in Consumers : at[t] = "take" => mine[t].idx = head.idx /\ head.consumed

LEMMA ClaimedNode ==
  ASSUME NEW L, NEW F, NEW V, NEW a, NEW b, NEW d, IsShape(L, a, b, F, d, V), Claims,
         NEW t \in Consumers, List!HasClaimed(t)
  PROVE  /\ Given(mine[t].idx.node)
         /\ \/ mine[t].idx.node = L[a]
            \/ Holding(t) /\ Held(t).node = mine[t].idx.node
<1>1. Chain(L, a, b, V) /\ Hands(L, a, b, F, d, V) /\ a \in Nat /\ b \in Nat /\ a <= b
  BY DEF IsShape, Shape
<1>2. CASE at[t] = "take"
  <2>1. mine[t].idx.node = L[a] /\ a \in a .. b
    BY <1>1, <1>2 DEF Claims, Chain, Ref, List!Index
  <2> QED BY <1>1, <2>1 DEF Chain
<1>3. CASE at[t] \in {"give", "store", "push"}
  <2>1. Holding(t) /\ Held(t) = mine[t].idx /\ t \in Threads
    BY <1>3 DEF Holding, Held, Threads
  <2> QED BY <1>1, <2>1 DEF Hands, HandKnows
<1> QED BY <1>2, <1>3 DEF List!HasClaimed

\* rawItem as far as the queue's promise depends on it
ItemsKept(L, a, b) ==
  /\ \A k \in a .. b : rawItem'[L[k]] = rawItem[L[k]]
  /\ \A t \in Consumers : List!HasClaimed(t) =>
       rawItem'[mine[t].idx.node] = rawItem[mine[t].idx.node]

LEMMA WriteKeepsItems ==
  ASSUME NEW L, NEW F, NEW V, NEW a, NEW b, NEW d, IsShape(L, a, b, F, d, V), Claims,
         NEW p \in Producers, NEW n \in Nodes, NEW item,
         rawItem' = [rawItem EXCEPT ![n] = item],
         ~Given(n) \/ (Holding(p) /\ Held(p).node = n)
  PROVE  /\ ItemsKept(L, a, b)
         /\ \A q \in Producers : q # p /\ at[q] = "swap" => rawItem'[mine[q].node] = rawItem[mine[q].node]
<1>1. /\ Chain(L, a, b, V) /\ Hands(L, a, b, F, d, V) /\ a \in Nat /\ b \in Nat /\ a <= b
      /\ LinkedTypes /\ p \in Threads /\ p \notin Consumers
  BY TestAssumption DEF IsShape, Shape, Threads
<1>2. \A m \in Nodes : m # n => rawItem'[m] = rawItem[m]
  BY <1>1 DEF LinkedTypes
<1>3. \A k \in a .. b : L[k] # n /\ Given(L[k])
  BY <1>1 DEF Chain, Hands, HandKnows, Out
<1>4. \A t \in Threads : t # p /\ Holding(t) => Held(t).node # n /\ Given(Held(t).node)
  BY <1>1 DEF Hands, HandKnows
<1>5. \A k \in a .. b : rawItem'[L[k]] = rawItem[L[k]]
  BY <1>1, <1>2, <1>3, GivenIsNode
<1>6. ASSUME NEW t \in Consumers, List!HasClaimed(t)
      PROVE  rawItem'[mine[t].idx.node] = rawItem[mine[t].idx.node]
  <2>1. Given(mine[t].idx.node) /\ mine[t].idx.node # n
    BY <1>1, <1>3, <1>4, <1>6, ClaimedNode DEF Threads
  <2> QED BY <1>1, <1>2, <2>1, GivenIsNode
<1>7. ASSUME NEW q \in Producers, q # p, at[q] = "swap"
      PROVE  rawItem'[mine[q].node] = rawItem[mine[q].node]
  <2>1. Holding(q) /\ Held(q) = mine[q] /\ q \in Threads
    BY <1>7 DEF Holding, Held, Threads
  <2> QED BY <1>1, <1>2, <1>4, <1>7, <2>1, GivenIsNode
<1> QED BY <1>5, <1>6, <1>7 DEF ItemsKept

LEMMA ContentsKept ==
  ASSUME NEW L, NEW F, NEW V, NEW a, NEW b, NEW d, IsShape(L, a, b, F, d, V),
         NEW G, NEW U, NEW e, IsShape(L, a, b, G, e, U)',
         head' = head, ItemsKept(L, a, b)
  PROVE  List!Contents' = List!Contents
<1>1. L \in [Nat -> Nodes] /\ a \in Nat /\ b \in Nat /\ a <= b /\ head \in HeadIndices
  BY DEF IsShape, LinkedTypes
<1>2. List!Contents = Stretch(ItemsOf(L), First(a), b + 1)
  BY ContentsOf
<1>3. List!Contents' = Stretch(ItemsOf(L)', First(a)', b + 1)
  BY ContentsOfNext
<1>4. First(a)' = First(a) /\ First(a) \in Nat /\ a <= First(a) /\ b + 1 \in Nat
  BY <1>1 DEF First
<1>5. \A k \in Nat : First(a) <= k /\ k < b + 1 => ItemsOf(L)[k] = ItemsOf(L)'[k]
  <2> SUFFICES ASSUME NEW k \in Nat, First(a) <= k, k < b + 1
               PROVE rawItem[L[k]] = rawItem'[L[k]]
    BY DEF ItemsOf
  <2>1. k \in a .. b
    BY <1>1, <1>4
  <2> QED BY <2>1 DEF ItemsKept
<1>6. Stretch(ItemsOf(L), First(a), b + 1) = Stretch(ItemsOf(L)', First(a), b + 1)
  BY <1>4, <1>5, StretchDependsOn
<1> QED BY <1>2, <1>3, <1>4, <1>6

\* A producer about to append has written its item into the node.
Written == \A p \in Producers : at[p] = "swap" => rawItem[mine[p].node] = NextItem(p)

LEMMA GetsKept ==
  ASSUME NEW L, NEW a, NEW b, ItemsKept(L, a, b), UNCHANGED last_value,
         \A t \in Consumers : at'[t] = at[t] /\ mine'[t] = mine[t]
  PROVE  Gets' = Gets
<1>1. \A t \in Consumers : List!HasClaimed(t)' <=> List!HasClaimed(t)
  BY DEF List!HasClaimed
<1>2. \A t \in Consumers : List!HasClaimed(t) => List!Claimed(t)' = List!Claimed(t)
  BY DEF ItemsKept, List!Claimed
<1> QED BY <1>1, <1>2 DEF Gets

LEMMA ProducerEffect ==
  ASSUME NEW L, NEW F, NEW V, NEW a, NEW b, NEW d, IsShape(L, a, b, F, d, V), Supply,
         Claims, Written, NEW p \in Producers, ProducerQuiet(p)
  PROVE  /\ UNCHANGED <<head, last_value>> /\ ItemsKept(L, a, b)
         /\ \A u \in Threads : u # p => at'[u] = at[u] /\ mine'[u] = mine[u]
         /\ Puts' = Puts /\ Written'
<1>1. /\ LinkedTypes /\ p \in Threads /\ p \notin Consumers /\ i[p] < ItemNum /\ i[p] \in Nat
  BY TestAssumption DEF IsShape, LinkedTypes, Threads, ProducerQuiet
<1>2. \A q \in Producers : q \in Threads
  BY DEF Threads
<1>3. ASSUME NEW n \in Nodes, ~Given(n) \/ (Holding(p) /\ Held(p).node = n),
             rawItem' = [rawItem EXCEPT ![n] = NextItem(p)],
             UNCHANGED <<head, last_value, i>>,
             at' = [at EXCEPT ![p] = "swap"], at[p] \notin {"swap", "link"},
             \A u \in Threads : u # p => mine'[u] = mine[u],
             mine'[p].node = n
      PROVE  /\ UNCHANGED <<head, last_value>> /\ ItemsKept(L, a, b)
             /\ \A u \in Threads : u # p => at'[u] = at[u] /\ mine'[u] = mine[u]
             /\ Puts' = Puts /\ Written'
  <2>1. at'[p] = "swap" /\ \A u \in Threads : u # p => at'[u] = at[u]
    BY <1>1, <1>3 DEF LinkedTypes
  <2>2. Puts' = Puts
    BY <1>2, <1>3, <2>1 DEF Puts
  <2>3. /\ ItemsKept(L, a, b)
        /\ \A q \in Producers : q # p /\ at[q] = "swap" => rawItem'[mine[q].node] = rawItem[mine[q].node]
    BY <1>3, WriteKeepsItems
  <2>4. rawItem'[n] = NextItem(p)
    BY <1>1, <1>3 DEF LinkedTypes
  <2>5. \A q \in Producers : NextItem(q)' = NextItem(q)
    BY <1>3 DEF NextItem
  <2>6. Written'
    BY <1>2, <1>3, <2>1, <2>3, <2>4, <2>5 DEF Written
  <2> QED BY <1>3, <2>1, <2>2, <2>3, <2>6
<1>4. CASE List!NewNode(p, NextItem(p)) /\ UNCHANGED driverVars
  <2>1. at[p] = "new" /\ nextNodeIdx < MaxNode
    BY <1>1, <1>4, SupplySuffices DEF List!NewNode
  <2>2. PICK n : n = nextNodeIdx + 1
    OBVIOUS
  <2>3. n \in Nodes /\ ~Given(n)
    BY <1>1, <2>1, <2>2, MaxNodeIsNat DEF LinkedTypes, Nodes, List!Nodes, Given
  <2>4. /\ rawItem' = [rawItem EXCEPT ![n] = NextItem(p)]
        /\ mine' = [mine EXCEPT ![p] = List!Index(n, 0)]
        /\ at' = [at EXCEPT ![p] = "swap"]
        /\ UNCHANGED <<head, last_value, i>>
    BY <1>4, <2>2 DEF List!NewNode, List!Goto, driverVars
  <2>5. mine'[p].node = n /\ \A u \in Threads : u # p => mine'[u] = mine[u]
    BY <1>1, <2>4 DEF LinkedTypes, List!Index
  <2> QED BY <1>3, <2>1, <2>3, <2>4, <2>5
<1>5. CASE List!Reuse(p, NextItem(p)) /\ UNCHANGED driverVars
  <2>1. at[p] = "clear" /\ Holding(p) /\ Held(p) = mine[p]
    BY <1>5 DEF List!Reuse, Holding, Held
  <2>2. PICK n : n = mine[p].node
    OBVIOUS
  <2>3. n \in Nodes /\ Held(p).node = n
    BY <1>1, <2>1, <2>2, GivenIsNode DEF IsShape, Shape, Hands, HandKnows
  <2>4. /\ rawItem' = [rawItem EXCEPT ![n] = NextItem(p)]
        /\ at' = [at EXCEPT ![p] = "swap"]
        /\ UNCHANGED <<head, last_value, i, mine>>
    BY <1>5, <2>2 DEF List!Reuse, List!Goto, driverVars
  <2> QED BY <1>3, <2>1, <2>2, <2>3, <2>4
<1>6. ASSUME UNCHANGED <<head, rawItem, last_value>>,
             \A u \in Threads : u # p => at'[u] = at[u] /\ mine'[u] = mine[u] /\ i'[u] = i[u],
             at'[p] # "swap", at[p] # "swap", at'[p] # "link",
             at[p] = "link" => i'[p] = i[p] + 1, at[p] # "link" => i'[p] = i[p]
      PROVE  /\ UNCHANGED <<head, last_value>> /\ ItemsKept(L, a, b)
             /\ \A u \in Threads : u # p => at'[u] = at[u] /\ mine'[u] = mine[u]
             /\ Puts' = Puts /\ Written'
  <2>1. ItemsKept(L, a, b)
    BY <1>6 DEF ItemsKept
  <2>2. Puts' = Puts
    BY <1>2, <1>6 DEF Puts
  <2>3. Written'
    BY <1>2, <1>6 DEF Written, NextItem
  <2> QED BY <1>6, <2>1, <2>2, <2>3
<1>7. CASE List!Link(p) /\ Produced(p)
  <2>1. /\ at[p] = "link" /\ at' = [at EXCEPT ![p] = "out"] /\ mine' = [mine EXCEPT ![p] = Null]
        /\ UNCHANGED <<head, rawItem, last_value>>
    BY <1>7 DEF List!Link, List!Leave, List!Goto, Null, Produced
  <2>2. i'[p] = i[p] + 1 /\ \A t \in Threads : t # p => i'[t] = i[t]
    BY <1>1, <1>7, ProducedTypes
  <2>3. at'[p] = "out" /\ \A u \in Threads : u # p => at'[u] = at[u] /\ mine'[u] = mine[u]
    BY <1>1, <2>1 DEF LinkedTypes
  <2> QED BY <1>6, <2>1, <2>2, <2>3
<1>8. CASE /\ List!LoadFree(p) \/ List!LoadFreeNext(p) \/ List!PopFree(p) \/ List!PopFreeFails(p)
           /\ UNCHANGED driverVars
  <2>1. /\ UNCHANGED <<head, rawItem, last_value, i>>
        /\ at[p] \notin {"swap", "link"}
        /\ \E place \in {"new", "free", "unfree", "clear"} : at' = [at EXCEPT ![p] = place]
        /\ \E x : mine' = [mine EXCEPT ![p] = x]
    <3>1. mine = [mine EXCEPT ![p] = mine[p]]
      BY <1>1 DEF LinkedTypes
    <3>2. CASE List!LoadFree(p)
      BY <1>8, <3>2 DEF List!LoadFree, List!Goto, List!queueVars, driverVars
    <3>3. CASE List!LoadFreeNext(p)
      BY <1>8, <3>1, <3>3 DEF List!LoadFreeNext, List!Goto, List!queueVars, driverVars
    <3>4. CASE List!PopFree(p)
      BY <1>8, <3>4 DEF List!PopFree, List!Goto, driverVars
    <3>5. CASE List!PopFreeFails(p)
      BY <1>8, <3>5 DEF List!PopFreeFails, List!Goto, List!queueVars, driverVars
    <3> QED BY <1>8, <3>2, <3>3, <3>4, <3>5
  <2>2. /\ at'[p] \notin {"swap", "link"}
        /\ \A u \in Threads : u # p => at'[u] = at[u] /\ mine'[u] = mine[u]
    BY <1>1, <2>1 DEF LinkedTypes
  <2> QED BY <1>6, <2>1, <2>2
<1> QED BY <1>4, <1>5, <1>7, <1>8 DEF ProducerQuiet

LEMMA ProducerIdles ==
  ASSUME ListInv, Claims, Written, kind = "lockfree", UNCHANGED kind,
         NEW p \in Producers, ProducerQuiet(p)
  PROVE  /\ Idles /\ Claims' /\ Written'
         /\ \A t \in Consumers : at'[t] = at[t]
<1>1. PICK L, F, V, a, b, d : IsShape(L, a, b, F, d, V)
  BY DEF ListInv
<1>2. /\ UNCHANGED <<head, last_value>> /\ ItemsKept(L, a, b)
      /\ \A u \in Threads : u # p => at'[u] = at[u] /\ mine'[u] = mine[u]
      /\ Puts' = Puts /\ Written'
  BY <1>1, ProducerEffect DEF ListInv
<1>3. \A t \in Consumers : at'[t] = at[t] /\ mine'[t] = mine[t]
  BY <1>2, TestAssumption DEF Threads
<1>4. Gets' = Gets
  BY <1>2, <1>3, GetsKept
<1>5. PICK G, e, U : IsShape(L, a, b, G, e, U)'
  BY <1>1, QuietStep DEF ListInv
<1>6. List!Contents' = List!Contents
  BY <1>1, <1>2, <1>5, ContentsKept
<1>7. Claims'
  BY <1>2, <1>3 DEF Claims
<1> QED BY <1>2, <1>3, <1>4, <1>6, <1>7 DEF Idles, Waiting

\* One thread takes from the linked queue: no consumer but t is inside try_dequeue.
Alone(t) == \A u \in Consumers : u # t => at[u] = "out"

ConsumerTypes == last_value \in [Consumers -> AnyItem]

LEMMA ClaimedIsItem ==
  ASSUME ListInv, Claims, NEW t \in Consumers, List!HasClaimed(t)
  PROVE  List!Claimed(t) \in AnyItem
<1>1. PICK L, F, V, a, b, d : IsShape(L, a, b, F, d, V)
  BY DEF ListInv
<1>2. Given(mine[t].idx.node) /\ LinkedTypes
  BY <1>1, ClaimedNode DEF IsShape
<1>3. mine[t].idx.node \in Nodes
  BY <1>2, GivenIsNode
<1> QED BY <1>2, <1>3 DEF LinkedTypes, List!Claimed

\* What a consumer's step does not touch
LEMMA ConsumerEffect ==
  ASSUME LinkedTypes, ConsumerTypes, NEW t \in Consumers, Alone(t), Written,
         UNCHANGED <<rawItem, i>>,
         NEW place, at' = [at EXCEPT ![t] = place],
         NEW x, mine' = [mine EXCEPT ![t] = x],
         NEW y, last_value' = [last_value EXCEPT ![t] = y]
  PROVE  /\ at'[t] = place /\ mine'[t] = x /\ last_value'[t] = y
         /\ Puts' = Puts /\ Written' /\ Alone(t)'
         /\ \A u \in Consumers : u # t => Gets'[u] = Gets[u]
         /\ Gets'[t] = IF List!HasClaimed(t)' THEN List!Claimed(t)' ELSE y
<1>1. /\ t \in Threads /\ t \notin Producers
      /\ \A p \in Producers : p \in Threads /\ p # t
      /\ \A u \in Consumers : u \in Threads
  BY TestAssumption DEF Threads
<1>2. /\ at'[t] = place /\ mine'[t] = x /\ last_value'[t] = y
      /\ \A u \in Threads : u # t => at'[u] = at[u] /\ mine'[u] = mine[u]
      /\ \A u \in Consumers : u # t => last_value'[u] = last_value[u]
  BY <1>1 DEF LinkedTypes, ConsumerTypes
<1>3. Puts' = Puts
  BY <1>1, <1>2 DEF Puts
<1>4. Written'
  BY <1>1, <1>2 DEF Written, NextItem
<1>5. Alone(t)'
  BY <1>1, <1>2 DEF Alone
<1>6. \A u \in Consumers : u # t => ~List!HasClaimed(u) /\ ~List!HasClaimed(u)'
  BY <1>1, <1>2 DEF Alone, List!HasClaimed
<1> QED BY <1>1, <1>2, <1>3, <1>4, <1>5, <1>6 DEF Gets

LEMMA ClaimsOfOne ==
  ASSUME NEW t \in Consumers, Alone(t)', at'[t] # "take"
  PROVE  Claims'
  BY DEF Claims, Alone

\* The steps of a consumer that neither claim nor move head
LEMMA ConsumerIdles ==
  ASSUME ListInv, ConsumerTypes, Claims, Written, kind = "lockfree", UNCHANGED kind,
         NEW t \in Consumers, Alone(t), LockfreeConsumer(t),
         ~List!ClaimLast(t), ~List!Unlink(t)
  PROVE  Idles /\ Claims' /\ Written' /\ Alone(t)' /\ ConsumerTypes'
<1>1. PICK L, F, V, a, b, d : IsShape(L, a, b, F, d, V)
  BY DEF ListInv
<1>2. LinkedTypes
  BY <1>1 DEF IsShape
<1>3. ConsumerQuiet(t) /\ UNCHANGED <<rawItem, i, head>>
  <2>1. ConsumerQuiet(t)
    BY DEF LockfreeConsumer, ConsumerQuiet, ReceivedNothing, CountNext, driverVars
  <2>2. UNCHANGED <<rawItem, head>>
    BY <2>1 DEF ConsumerQuiet, List!FindEmpty, List!HeadMoved, List!TakeLast, List!PushFree,
         List!LoadHead, List!FindNext, List!LoadFreeList,
         List!StoreFreeNext, List!PushFreeFails, List!queueVars
  <2> QED BY <2>1, <2>2 DEF ConsumerQuiet
<1>4. Waiting' = Waiting
  <2>1. PICK G, e, U : IsShape(L, a, b, G, e, U)'
    BY <1>1, <1>3, QuietStep DEF ListInv
  <2>2. ItemsKept(L, a, b)
    BY <1>3 DEF ItemsKept
  <2>3. List!Contents' = List!Contents
    BY <1>1, <1>3, <2>1, <2>2, ContentsKept
  <2> QED BY <2>3 DEF Waiting
<1>5. ASSUME NEW place, at' = [at EXCEPT ![t] = place], place # "take",
             NEW x, mine' = [mine EXCEPT ![t] = x],
             NEW y, last_value' = [last_value EXCEPT ![t] = y], y \in AnyItem,
             Gets[t] = IF List!HasClaimed(t)' THEN List!Claimed(t)' ELSE y
      PROVE  Idles /\ Claims' /\ Written' /\ Alone(t)' /\ ConsumerTypes'
  <2>1. /\ at'[t] = place /\ Puts' = Puts /\ Written' /\ Alone(t)'
        /\ \A u \in Consumers : u # t => Gets'[u] = Gets[u]
        /\ Gets'[t] = IF List!HasClaimed(t)' THEN List!Claimed(t)' ELSE y
    BY <1>2, <1>3, <1>5, ConsumerEffect
  <2>2. Gets' = Gets
    <3>1. \A u \in Consumers : Gets'[u] = Gets[u]
      BY <1>5, <2>1
    <3> QED BY <3>1 DEF Gets
  <2>3. ConsumerTypes'
    BY <1>5 DEF ConsumerTypes
  <2>4. Claims'
    BY <1>5, <2>1, ClaimsOfOne
  <2> QED BY <1>4, <2>1, <2>2, <2>3, <2>4 DEF Idles
<1>6. /\ last_value = [last_value EXCEPT ![t] = last_value[t]] /\ last_value[t] \in AnyItem
      /\ mine = [mine EXCEPT ![t] = mine[t]] /\ t \in Threads
      /\ Gets[t] = IF List!HasClaimed(t) THEN List!Claimed(t) ELSE last_value[t]
  BY <1>2 DEF LinkedTypes, ConsumerTypes, Threads, Gets
\* try_dequeue returns or starts again
<1>7. ASSUME List!Leave(t), NEW y, last_value' = [last_value EXCEPT ![t] = y], y \in AnyItem,
             y = Gets[t]
      PROVE  Idles /\ Claims' /\ Written' /\ Alone(t)' /\ ConsumerTypes'
  <2>1. at' = [at EXCEPT ![t] = "out"] /\ mine' = [mine EXCEPT ![t] = Null]
    BY <1>7 DEF List!Leave, List!Goto, Null
  <2>2. at'[t] = "out"
    BY <1>2, <1>6, <2>1 DEF LinkedTypes
  <2>3. ~List!HasClaimed(t)'
    BY <2>2 DEF List!HasClaimed
  <2> QED BY <1>5, <1>7, <2>1, <2>3
<1>8. CASE List!FindEmpty(t) /\ ReceivedNothing(t)
  <2>1. List!Leave(t) /\ UNCHANGED last_value /\ ~List!HasClaimed(t)
    BY <1>8 DEF List!FindEmpty, ReceivedNothing, List!HasClaimed
  <2> QED BY <1>6, <1>7, <2>1
<1>9. CASE List!HeadMoved(t) /\ UNCHANGED driverVars
  <2>1. List!Leave(t) /\ UNCHANGED last_value /\ ~List!HasClaimed(t)
    BY <1>9 DEF List!HeadMoved, driverVars, List!HasClaimed
  <2> QED BY <1>6, <1>7, <2>1
<1>10. CASE List!TakeLast(t) /\ Received(t, List!Claimed(t))
  <2>1. List!Leave(t) /\ List!HasClaimed(t) /\ last_value' = [last_value EXCEPT ![t] = List!Claimed(t)]
    BY <1>10 DEF List!TakeLast, Received, List!HasClaimed
  <2>2. List!Claimed(t) \in AnyItem
    BY <2>1, ClaimedIsItem
  <2> QED BY <1>6, <1>7, <2>1, <2>2
<1>11. CASE List!PushFree(t) /\ mine[t].consumed /\ UNCHANGED driverVars
  <2>1. List!Leave(t) /\ UNCHANGED last_value /\ ~List!HasClaimed(t)
    BY <1>11 DEF List!PushFree, driverVars, List!HasClaimed
  <2> QED BY <1>6, <1>7, <2>1
<1>12. CASE List!PushFree(t) /\ ~mine[t].consumed /\ Received(t, List!Claimed(t))
  <2>1. List!Leave(t) /\ List!HasClaimed(t) /\ last_value' = [last_value EXCEPT ![t] = List!Claimed(t)]
    BY <1>12 DEF List!PushFree, Received, List!HasClaimed
  <2>2. List!Claimed(t) \in AnyItem
    BY <2>1, ClaimedIsItem
  <2> QED BY <1>6, <1>7, <2>1, <2>2
<1>13. CASE (List!LoadHead(t) \/ List!FindNext(t)) /\ UNCHANGED driverVars
  <2>1. /\ at[t] \in {"out", "next"} /\ UNCHANGED last_value
        /\ \E place \in {"next", "flag", "move"} : at' = [at EXCEPT ![t] = place]
        /\ \E x : mine' = [mine EXCEPT ![t] = x]
    BY <1>6, <1>13 DEF List!LoadHead, List!FindNext, List!Goto, driverVars
  <2>2. PICK place \in {"next", "flag", "move"} : at' = [at EXCEPT ![t] = place]
    BY <2>1
  <2>3. at'[t] = place
    BY <1>2, <1>6, <2>2 DEF LinkedTypes
  <2>4. ~List!HasClaimed(t) /\ ~List!HasClaimed(t)'
    BY <2>1, <2>3 DEF List!HasClaimed
  <2> QED BY <1>5, <1>6, <2>1, <2>2, <2>4
<1>14. CASE /\ List!LoadFreeList(t) \/ List!StoreFreeNext(t) \/ List!PushFreeFails(t)
            /\ UNCHANGED driverVars
  <2>1. /\ at[t] \in {"give", "store", "push"} /\ UNCHANGED <<last_value, mine>>
        /\ \E place \in {"store", "push"} : at' = [at EXCEPT ![t] = place]
    BY <1>14
       DEF List!LoadFreeList, List!StoreFreeNext, List!PushFreeFails, List!Goto, driverVars
  <2>2. PICK place \in {"store", "push"} : at' = [at EXCEPT ![t] = place]
    BY <2>1
  <2>3. at'[t] = place
    BY <1>2, <1>6, <2>2 DEF LinkedTypes
  <2>4. (List!HasClaimed(t)' <=> List!HasClaimed(t)) /\ List!Claimed(t)' = List!Claimed(t)
    BY <1>3, <2>1, <2>3 DEF List!HasClaimed, List!Claimed
  <2> QED BY <1>5, <1>6, <2>1, <2>2, <2>4
<1> QED BY <1>8, <1>9, <1>10, <1>11, <1>12, <1>13, <1>14 DEF LockfreeConsumer

\* Of the first node of a list whose item waits, the item is the oldest one.
LEMMA OldestItem ==
  ASSUME NEW L, NEW F, NEW V, NEW a, NEW b, NEW d, IsShape(L, a, b, F, d, V), ~head.consumed
  PROVE  /\ List!Contents # <<>>
         /\ Head(List!Contents) = rawItem[head.idx.node]
         /\ Tail(List!Contents) = Stretch(ItemsOf(L), a + 1, b + 1)
<1>1. a \in Nat /\ b \in Nat /\ a <= b /\ head.idx.node = L[a]
  BY DEF IsShape, Shape, Chain, Ref, List!Index
<1>2. b + 1 \in Nat /\ a < b + 1
  BY <1>1
<1>3. List!Contents = Stretch(ItemsOf(L), a, b + 1)
  BY ContentsOf DEF First
<1>4. ItemsOf(L)[a] = rawItem[L[a]]
  BY <1>1 DEF ItemsOf
<1> QED BY <1>1, <1>2, <1>3, <1>4, StretchShrinks

LEMMA ClaimRemoves ==
  ASSUME ListInv, ConsumerTypes, Claims, Written, kind = "lockfree", UNCHANGED kind,
         NEW t \in Consumers, Alone(t), List!ClaimLast(t), UNCHANGED driverVars
  PROVE  Removes(t) /\ Claims' /\ Written' /\ Alone(t)' /\ ConsumerTypes'
<1>1. PICK L, F, V, a, b, d : IsShape(L, a, b, F, d, V)
  BY DEF ListInv
<1>2. LinkedTypes /\ t \in Threads /\ UNCHANGED <<last_value, i>>
  BY <1>1 DEF IsShape, Threads, driverVars
<1>3. /\ at[t] = "flag" /\ head = mine[t] /\ head' = [head EXCEPT !.consumed = TRUE]
      /\ at' = [at EXCEPT ![t] = "take"]
      /\ UNCHANGED <<next, rawItem, nextNodeIdx, tail, freeListHead, mine, other>>
  BY DEF List!ClaimLast, List!Goto
<1>4. ~head.consumed /\ head'.consumed /\ head'.idx = head.idx
  <2>1. ~mine[t].consumed
    BY <1>1, <1>3 DEF IsShape, Shape, Know, DequeueKnows
  <2> QED BY <1>2, <1>3, <2>1 DEF LinkedTypes, HeadIndices
<1>5. List!Contents' = Tail(List!Contents) /\ List!Contents # <<>>
      /\ Head(List!Contents) = rawItem[head.idx.node]
  <2>1. IsShape(L, a, b, F, d, V)'
    BY <1>1, <1>2, ClaimLastKeeps
  <2>2. List!Contents' = Stretch(ItemsOf(L)', First(a)', b + 1)
    BY <2>1, ContentsOfNext
  <2>3. ItemsOf(L)' = ItemsOf(L) /\ First(a)' = a + 1
    BY <1>3, <1>4 DEF ItemsOf, First
  <2> QED BY <1>1, <1>4, <2>2, <2>3, OldestItem
<1>6. /\ mine' = [mine EXCEPT ![t] = mine[t]]
      /\ last_value' = [last_value EXCEPT ![t] = last_value[t]]
      /\ UNCHANGED <<rawItem, i>>
  BY <1>2, <1>3 DEF LinkedTypes, ConsumerTypes
<1>7. /\ at'[t] = "take" /\ Puts' = Puts /\ Written' /\ Alone(t)'
      /\ \A u \in Consumers : u # t => Gets'[u] = Gets[u]
      /\ Gets'[t] = IF List!HasClaimed(t)' THEN List!Claimed(t)' ELSE last_value[t]
  <2>1. PICK place, x, y : place = "take" /\ x = mine[t] /\ y = last_value[t]
    OBVIOUS
  <2>2. /\ at' = [at EXCEPT ![t] = place] /\ mine' = [mine EXCEPT ![t] = x]
        /\ last_value' = [last_value EXCEPT ![t] = y]
    BY <1>3, <1>6, <2>1
  <2>3. /\ at'[t] = place /\ Puts' = Puts /\ Written' /\ Alone(t)'
        /\ \A u \in Consumers : u # t => Gets'[u] = Gets[u]
        /\ Gets'[t] = IF List!HasClaimed(t)' THEN List!Claimed(t)' ELSE y
    <3>1. LinkedTypes /\ UNCHANGED <<rawItem, i>>
      BY <1>2, <1>6
    <3> QED BY <2>2, <3>1, ConsumerEffect
  <2> QED BY <2>1, <2>3
<1>8. Gets'[t] = Head(List!Contents)
  BY <1>3, <1>5, <1>7 DEF List!HasClaimed, List!Claimed
<1>9. Gets' = [Gets EXCEPT ![t] = Head(List!Contents)]
  BY <1>7, <1>8 DEF Gets
<1>10. Claims'
  BY <1>3, <1>4, <1>7 DEF Claims, Alone
<1>11. ConsumerTypes'
  BY <1>2 DEF ConsumerTypes
<1> QED BY <1>5, <1>7, <1>9, <1>10, <1>11 DEF Removes, Waiting

LEMMA UnlinkRemoves ==
  ASSUME ListInv, ConsumerTypes, Claims, Written, kind = "lockfree", UNCHANGED kind,
         NEW t \in Consumers, Alone(t), List!Unlink(t), UNCHANGED driverVars
  PROVE  (Removes(t) \/ Idles) /\ Claims' /\ Written' /\ Alone(t)' /\ ConsumerTypes'
<1>1. PICK L, F, V, a, b, d : IsShape(L, a, b, F, d, V)
  BY DEF ListInv
<1>2. LinkedTypes /\ t \in Threads /\ UNCHANGED <<last_value, i>>
  BY <1>1 DEF IsShape, Threads, driverVars
<1>3. /\ at[t] = "move" /\ head = mine[t] /\ head' = List!Flagged(other[t], FALSE)
      /\ at' = [at EXCEPT ![t] = "give"]
      /\ UNCHANGED <<next, rawItem, nextNodeIdx, tail, freeListHead, mine, other>>
  BY DEF List!Unlink, List!Goto
<1>4. List!Contents' = Stretch(ItemsOf(L), a + 1, b + 1)
  <2>1. IsShape(L, a + 1, b, F, d, V)'
    BY <1>1, <1>2, UnlinkKeeps
  <2>2. List!Contents' = Stretch(ItemsOf(L)', First(a + 1)', b + 1)
    BY <2>1, ContentsOfNext
  <2>3. ItemsOf(L)' = ItemsOf(L) /\ First(a + 1)' = a + 1
    BY <1>3 DEF ItemsOf, First, List!Flagged
  <2> QED BY <2>2, <2>3
<1>5. /\ mine' = [mine EXCEPT ![t] = mine[t]]
      /\ last_value' = [last_value EXCEPT ![t] = last_value[t]]
      /\ UNCHANGED <<rawItem, i>>
  BY <1>2, <1>3 DEF LinkedTypes, ConsumerTypes
<1>6. /\ at'[t] = "give" /\ Puts' = Puts /\ Written' /\ Alone(t)'
      /\ \A u \in Consumers : u # t => Gets'[u] = Gets[u]
      /\ Gets'[t] = IF List!HasClaimed(t)' THEN List!Claimed(t)' ELSE last_value[t]
  <2>1. PICK place, x, y : place = "give" /\ x = mine[t] /\ y = last_value[t]
    OBVIOUS
  <2>2. /\ at' = [at EXCEPT ![t] = place] /\ mine' = [mine EXCEPT ![t] = x]
        /\ last_value' = [last_value EXCEPT ![t] = y]
    BY <1>3, <1>5, <2>1
  <2>3. /\ at'[t] = place /\ Puts' = Puts /\ Written' /\ Alone(t)'
        /\ \A u \in Consumers : u # t => Gets'[u] = Gets[u]
        /\ Gets'[t] = IF List!HasClaimed(t)' THEN List!Claimed(t)' ELSE y
    <3>1. LinkedTypes /\ UNCHANGED <<rawItem, i>>
      BY <1>2, <1>5
    <3> QED BY <2>2, <3>1, ConsumerEffect
  <2> QED BY <2>1, <2>3
<1>7. Claims'
  BY <1>6, ClaimsOfOne
<1>8. ConsumerTypes'
  BY <1>2 DEF ConsumerTypes
<1>9. CASE ~head.consumed
  <2>1. /\ List!Contents' = Tail(List!Contents) /\ List!Contents # <<>>
        /\ Head(List!Contents) = rawItem[head.idx.node]
    BY <1>1, <1>4, <1>9, OldestItem
  <2>2. Gets'[t] = Head(List!Contents)
    BY <1>3, <1>6, <1>9, <2>1 DEF List!HasClaimed, List!Claimed
  <2>3. Gets' = [Gets EXCEPT ![t] = Head(List!Contents)]
    BY <1>6, <2>2 DEF Gets
  <2> QED BY <1>6, <1>7, <1>8, <2>1, <2>3 DEF Removes, Waiting
<1>10. CASE head.consumed
  <2>1. List!Contents = Stretch(ItemsOf(L), a + 1, b + 1)
    BY <1>1, <1>10, ContentsOf DEF First
  <2>2. Gets'[t] = last_value[t] /\ Gets[t] = last_value[t]
    BY <1>3, <1>6, <1>10 DEF List!HasClaimed, Gets
  <2>3. Gets' = Gets
    <3>1. \A u \in Consumers : Gets'[u] = Gets[u]
      BY <1>6, <2>2
    <3> QED BY <3>1 DEF Gets
  <2> QED BY <1>4, <1>6, <1>7, <1>8, <2>1, <2>3 DEF Idles, Waiting
<1> QED BY <1>9, <1>10

LEMMA SwapAdds ==
  ASSUME ListInv, Claims, Written, kind = "lockfree", UNCHANGED kind,
         NEW p \in Producers, List!SwapTail(p), UNCHANGED driverVars, i[p] < ItemNum
  PROVE  /\ Adds(p) /\ Claims' /\ Written'
         /\ \A t \in Consumers : at'[t] = at[t]
<1>1. PICK L, F, V, a, b, d : IsShape(L, a, b, F, d, V)
  BY DEF ListInv
<1>2. PICK n, M : n = mine[p].node /\ Placed(M, L, b + 1, n)
  BY DEF Placed
<1>3. /\ IsShape(M, a, b + 1, F, d, V)' /\ UNCHANGED <<last_value, i>>
      /\ LinkedTypes /\ p \in Threads /\ p \notin Consumers
      /\ L \in [Nat -> Nodes] /\ a \in Nat /\ b \in Nat /\ a <= b
  <2>1. IsShape(M, a, b + 1, F, d, V)'
    BY <1>1, <1>2, SwapTailKeeps DEF driverVars
  <2>2. p \in Threads /\ p \notin Consumers /\ UNCHANGED <<last_value, i>>
    BY TestAssumption DEF driverVars, Threads
  <2>3. LinkedTypes /\ L \in [Nat -> Nodes] /\ a \in Nat /\ b \in Nat /\ a <= b
    BY <1>1 DEF IsShape
  <2> QED BY <2>1, <2>2, <2>3
<1>4. /\ at[p] = "swap" /\ at' = [at EXCEPT ![p] = "link"]
      /\ UNCHANGED <<rawItem, head, mine>>
  BY DEF List!SwapTail, List!Goto
<1>5. at'[p] = "link" /\ \A u \in Threads : u # p => at'[u] = at[u]
  BY <1>3, <1>4 DEF LinkedTypes
<1>6. \A t \in Consumers : at'[t] = at[t] /\ t \in Threads
  BY <1>3, <1>5 DEF Threads
<1>7. rawItem[n] = NextItem(p)
  BY <1>2, <1>4 DEF Written
<1>8. List!Contents' = Append(List!Contents, NextItem(p))
  <2>1. PICK from, to : from = First(a) /\ to = b + 1
    OBVIOUS
  <2>2. from \in Nat /\ to \in Nat /\ from <= to /\ First(a)' = from
    BY <1>3, <1>4, <2>1 DEF First, LinkedTypes, HeadIndices
  <2>3. List!Contents = Stretch(ItemsOf(L), from, to)
    BY <1>1, <2>1, ContentsOf
  <2>4. List!Contents' = Stretch(ItemsOf(M), from, to + 1)
    <3>1. List!Contents' = Stretch(ItemsOf(M)', First(a)', (b + 1) + 1)
      BY <1>3, ContentsOfNext
    <3>2. ItemsOf(M)' = ItemsOf(M)
      BY <1>4 DEF ItemsOf
    <3> QED BY <2>1, <2>2, <3>1, <3>2
  <2>5. ItemsOf(M)[to] = NextItem(p)
    BY <1>2, <1>3, <1>7, <2>1, <2>2 DEF ItemsOf, Placed
  <2>6. \A k \in Nat : from <= k /\ k < to => ItemsOf(M)[k] = ItemsOf(L)[k]
    BY <1>2, <1>3, <2>1, <2>2 DEF ItemsOf, Placed
  <2>7. Stretch(ItemsOf(M), from, to) = Stretch(ItemsOf(L), from, to)
    BY <2>2, <2>6, StretchDependsOn
  <2>8. Stretch(ItemsOf(M), from, to + 1) = Append(Stretch(ItemsOf(M), from, to), ItemsOf(M)[to])
    BY <2>2, StretchGrows
  <2> QED BY <2>3, <2>4, <2>5, <2>7, <2>8
<1>9. Puts' = [Puts EXCEPT ![p] = @ + 1]
  <2>1. \A q \in Producers : q \in Threads
    BY DEF Threads
  <2> QED BY <1>3, <1>4, <1>5, <2>1 DEF Puts
<1>10. Gets' = Gets
  <2>1. ItemsKept(L, a, b)
    BY <1>4 DEF ItemsKept
  <2>2. \A t \in Consumers : at'[t] = at[t] /\ mine'[t] = mine[t]
    BY <1>4, <1>6
  <2> QED BY <1>3, <2>1, <2>2, GetsKept
<1>11. Claims'
  BY <1>4, <1>6 DEF Claims
<1>12. Written'
  <2>1. \A q \in Producers : at'[q] = "swap" => at[q] = "swap"
    BY <1>5 DEF Threads
  <2> QED BY <1>3, <1>4, <2>1 DEF Written, NextItem
<1> QED BY <1>4, <1>6, <1>8, <1>9, <1>10, <1>11, <1>12 DEF Adds, Waiting

-----------------------------------------------------------------------------
(* Every queue under test is a first-in first-out queue                    *)

\* One thread is inside try_dequeue, and none inside the linked queue's operations
\* while another queue is under test.
Taker ==
  /\ kind = "lockfree" => \E t \in Consumers : popping = {t} /\ Alone(t)
  /\ kind # "lockfree" => \A t \in Threads : at[t] = "out"

FifoInv ==
  /\ ListInv /\ ConsumerTypes /\ Claims /\ Written /\ Taker
  /\ Orderly(Waiting, Puts)

LEMMA NothingHappens ==
  ASSUME FifoInv, UNCHANGED <<kind, popping, linkedVars, queue, i, last_value>>
  PROVE  Idles /\ ConsumerTypes' /\ Claims' /\ Written' /\ Taker'
<1>1. /\ UNCHANGED <<kind, popping, queue, i, last_value>>
      /\ UNCHANGED <<next, rawItem, nextNodeIdx, head, tail, freeListHead, at, mine, other>>
  BY DEF linkedVars
<1>2. List!Contents' = List!Contents
  BY <1>1 DEF List!Contents, List!ListNodes, List!Behind, List!Linking, List!Linked, List!Walk
<1>3. Idles
  BY <1>1, <1>2 DEF Idles, Waiting, Puts, Gets, List!HasClaimed, List!Claimed
<1>4. Taker'
  BY <1>1 DEF FifoInv, Taker, Alone
<1> QED BY <1>1, <1>3, <1>4 DEF FifoInv, ConsumerTypes, Claims, Written, NextItem

\* With a mutex around a list, the list is what waits.
LEMMA LockedReads ==
  ASSUME kind # "lockfree", \A t \in Threads : at[t] = "out"
  PROVE  Waiting = queue /\ Puts = [p \in Producers |-> i[p]]
         /\ Gets = [t \in Consumers |-> last_value[t]]
<1>1. (\A p \in Producers : at[p] = "out") /\ (\A t \in Consumers : at[t] = "out")
  BY DEF Threads
<1>2. \A t \in Consumers : ~List!HasClaimed(t)
  BY <1>1 DEF List!HasClaimed
<1>3. Waiting = queue
  BY DEF Waiting
<1>4. Puts = [p \in Producers |-> i[p]]
  BY <1>1 DEF Puts
<1>5. Gets = [t \in Consumers |-> last_value[t]]
  BY <1>2 DEF Gets
<1> QED BY <1>3, <1>4, <1>5

LEMMA LockedReadsNext ==
  (kind # "lockfree" /\ \A t \in Threads : at[t] = "out")' =>
    /\ Waiting' = queue' /\ Puts' = [p \in Producers |-> i'[p]]
    /\ Gets' = [t \in Consumers |-> last_value'[t]]
<1>1. (kind # "lockfree" /\ \A t \in Threads : at[t] = "out") =>
        /\ Waiting = queue /\ Puts = [p \in Producers |-> i[p]]
        /\ Gets = [t \in Consumers |-> last_value[t]]
  BY LockedReads
<1>2. ((kind # "lockfree" /\ \A t \in Threads : at[t] = "out") =>
        /\ Waiting = queue /\ Puts = [p \in Producers |-> i[p]]
        /\ Gets = [t \in Consumers |-> last_value[t]])'
  BY <1>1, PTL
<1> QED BY <1>2

LEMMA LockedStep ==
  ASSUME FifoInv, kind # "lockfree", UNCHANGED <<kind, popping, linkedVars>>,
         \/ \E p \in Producers : LockedProducer(p)
         \/ \E t \in Consumers : LockedConsumer(t)
  PROVE  FifoStep /\ ConsumerTypes' /\ Claims' /\ Written' /\ Taker'
<1>1. /\ \A t \in Threads : at[t] = "out" /\ at'[t] = "out"
      /\ kind' # "lockfree" /\ LinkedTypes
      /\ \A p \in Producers : p \in Threads /\ p \notin Consumers
      /\ \A t \in Consumers : t \in Threads
  BY TestAssumption DEF FifoInv, Taker, linkedVars, ListInv, IsShape, Threads
<1>2. /\ Waiting = queue /\ Puts = [p \in Producers |-> i[p]]
      /\ Gets = [t \in Consumers |-> last_value[t]]
  BY <1>1, LockedReads
<1>3. /\ Waiting' = queue' /\ Puts' = [p \in Producers |-> i'[p]]
      /\ Gets' = [t \in Consumers |-> last_value'[t]]
  BY <1>1, LockedReadsNext
<1>4. Claims' /\ Written' /\ Taker'
  BY <1>1 DEF Claims, Written, Taker
<1>5. CASE UNCHANGED <<queue, i, last_value>>
  BY <1>5, NothingHappens DEF FifoStep
<1>6. ASSUME NEW p \in Producers, i[p] < ItemNum, queue' = Append(queue, NextItem(p)), Produced(p)
      PROVE  FifoStep /\ ConsumerTypes'
  <2>1. /\ i'[p] = i[p] + 1 /\ \A t \in Threads : t # p => i'[t] = i[t]
    BY <1>1, <1>6, ProducedTypes
  <2>2. UNCHANGED last_value
    BY <1>6 DEF Produced
  <2>3. Puts' = [Puts EXCEPT ![p] = @ + 1]
    BY <1>1, <1>2, <1>3, <2>1
  <2>4. Adds(p)
    BY <1>1, <1>2, <1>3, <1>6, <2>2, <2>3 DEF Adds
  <2> QED BY <2>2, <2>4 DEF FifoStep, ConsumerTypes, FifoInv
<1>7. ASSUME NEW t \in Consumers, queue # <<>>, queue' = Tail(queue), Received(t, Head(queue)),
             i' = i \/ i' = [i EXCEPT ![t] = @ + 1]
      PROVE  FifoStep /\ ConsumerTypes'
  <2>1. queue \in Seq(AllItems) /\ last_value \in [Consumers -> AnyItem]
    BY <1>2 DEF FifoInv, Orderly, ConsumerTypes
  <2>2. Head(queue) \in AllItems /\ Head(queue) \in AnyItem
    BY <1>7, <2>1 DEF AllItems, AnyItem
  <2>3. last_value' = [last_value EXCEPT ![t] = Head(queue)]
    BY <1>7 DEF Received
  <2>4. Gets' = [Gets EXCEPT ![t] = Head(queue)]
    BY <1>2, <1>3, <2>1, <2>3
  <2>5. \A p \in Producers : i'[p] = i[p]
    BY <1>1, <1>7 DEF LinkedTypes
  <2>6. Puts' = Puts
    BY <1>2, <1>3, <2>5
  <2>7. Removes(t)
    BY <1>2, <1>3, <1>7, <2>4, <2>6 DEF Removes
  <2>8. ConsumerTypes'
    BY <2>1, <2>2, <2>3 DEF ConsumerTypes
  <2> QED BY <2>7, <2>8 DEF FifoStep
<1>8. ASSUME NEW p \in Producers, LockedProducer(p)
      PROVE  FifoStep /\ ConsumerTypes'
  <2>1. CASE Lock!Put(p, NextItem(p), Limit) /\ Produced(p)
    BY <1>6, <1>8, <2>1 DEF Lock!Put, LockedProducer
  <2>2. CASE Lock!PutWaits(p, Limit) /\ UNCHANGED driverVars
    BY <1>5, <2>2 DEF Lock!PutWaits, Lock!Sleep, driverVars
  <2> QED BY <1>8, <2>1, <2>2 DEF LockedProducer
<1>9. ASSUME NEW t \in Consumers, LockedConsumer(t)
      PROVE  FifoStep /\ ConsumerTypes'
  <2>1. CASE (Lock!Take(t) \/ Lock!TakeLate(t)) /\ Received(t, Head(queue)) /\ AfterTake(t)
    <3>1. i' = i \/ i' = [i EXCEPT ![t] = @ + 1]
      BY <2>1 DEF AfterTake, CountNext
    <3>2. queue # <<>> /\ queue' = Tail(queue)
      BY <2>1 DEF Lock!Take, Lock!TakeLate
    <3> QED BY <1>7, <2>1, <3>1, <3>2
  <2>2. CASE UNCHANGED <<queue, i, last_value>>
    BY <1>5, <2>2
  <2> QED BY <1>9, <2>1, <2>2 DEF LockedConsumer, ReceivedNothing, driverVars, Lock!FindNothing,
             Lock!TakeWaits, Lock!Sleep, Lock!TimeIsUp, Lock!GiveUp, Lock!lockedVars
<1> QED BY <1>4, <1>8, <1>9

LEMMA NextIsFifoStep ==
  ASSUME FifoInv, [Next]_vars
  PROVE  FifoStep /\ ConsumerTypes' /\ Claims' /\ Written' /\ Taker'
<1>0. ListInv /\ ConsumerTypes /\ Claims /\ Written /\ Taker /\ LinkedTypes
  BY DEF FifoInv, ListInv, IsShape
<1>1. ASSUME UNCHANGED <<kind, popping, linkedVars, queue, i, last_value>>
      PROVE  FifoStep /\ ConsumerTypes' /\ Claims' /\ Written' /\ Taker'
  BY <1>1, NothingHappens DEF FifoStep
<1>2. CASE UNCHANGED vars \/ Joined
  BY <1>1, <1>2 DEF vars, setting, driverVars, lockedVars, Joined
<1>3. ASSUME NEW t \in Threads, Wake(t)
      PROVE  FifoStep /\ ConsumerTypes' /\ Claims' /\ Written' /\ Taker'
  BY <1>1, <1>3 DEF Wake, setting, driverVars, Lock!SpuriousWake
<1>4. ASSUME NEW t \in Consumers, Count(t) \/ Check(t)
      PROVE  FifoStep /\ ConsumerTypes' /\ Claims' /\ Written' /\ Taker'
  BY <1>1, <1>4 DEF Count, Check, setting, lockedVars
<1>5. ASSUME NEW p \in Producers, LockedProducer(p), UNCHANGED setting
      PROVE  FifoStep /\ ConsumerTypes' /\ Claims' /\ Written' /\ Taker'
  <2>1. kind # "lockfree" /\ UNCHANGED <<kind, popping, linkedVars>>
    BY <1>5 DEF LockedProducer, setting
  <2> QED BY <1>5, <2>1, LockedStep
<1>6. ASSUME NEW t \in Consumers, LockedConsumer(t), UNCHANGED setting
      PROVE  FifoStep /\ ConsumerTypes' /\ Claims' /\ Written' /\ Taker'
  <2>1. kind # "lockfree" /\ UNCHANGED <<kind, popping, linkedVars>>
    BY <1>6 DEF LockedConsumer, setting
  <2> QED BY <1>6, <2>1, LockedStep
<1>7. ASSUME NEW p \in Producers, LockfreeProducer(p), UNCHANGED setting
      PROVE  FifoStep /\ ConsumerTypes' /\ Claims' /\ Written' /\ Taker'
  <2>1. kind = "lockfree" /\ UNCHANGED <<kind, popping, last_value>>
    BY <1>7 DEF LockfreeProducer, setting, driverVars, Produced
  <2>2. /\ FifoStep /\ Claims' /\ Written' /\ \A u \in Consumers : at'[u] = at[u]
    <3>1. CASE ProducerQuiet(p)
      BY <1>0, <2>1, <3>1, ProducerIdles DEF FifoStep
    <3>2. CASE List!SwapTail(p) /\ UNCHANGED driverVars /\ i[p] < ItemNum
      BY <1>0, <2>1, <3>2, SwapAdds DEF FifoStep
    <3> QED BY <1>7, <3>1, <3>2 DEF LockfreeProducer, ProducerQuiet
  <2>3. ConsumerTypes'
    BY <1>0, <2>1 DEF ConsumerTypes
  <2>4. Taker'
    BY <1>0, <2>1, <2>2 DEF Taker, Alone
  <2> QED BY <2>2, <2>3, <2>4
<1>8. ASSUME NEW t \in Consumers, t \in popping, LockfreeConsumer(t), UNCHANGED setting
      PROVE  FifoStep /\ ConsumerTypes' /\ Claims' /\ Written' /\ Taker'
  <2>1. kind = "lockfree" /\ UNCHANGED <<kind, popping>>
    BY <1>8 DEF LockfreeConsumer, setting
  <2>2. popping = {t} /\ Alone(t)
    BY <1>0, <1>8, <2>1 DEF Taker
  <2>3. FifoStep /\ ConsumerTypes' /\ Claims' /\ Written' /\ Alone(t)'
    <3>1. CASE List!ClaimLast(t)
      <4>1. UNCHANGED driverVars
        BY <1>8, <3>1
           DEF LockfreeConsumer, List!ClaimLast, List!FindEmpty, List!TakeLast, List!PushFree
      <4> QED BY <1>0, <2>1, <2>2, <3>1, <4>1, ClaimRemoves DEF FifoStep
    <3>2. CASE List!Unlink(t)
      <4>1. UNCHANGED driverVars
        BY <1>8, <3>2
           DEF LockfreeConsumer, List!Unlink, List!FindEmpty, List!TakeLast, List!PushFree
      <4> QED BY <1>0, <2>1, <2>2, <3>2, <4>1, UnlinkRemoves DEF FifoStep
    <3>3. CASE ~List!ClaimLast(t) /\ ~List!Unlink(t)
      BY <1>0, <1>8, <2>1, <2>2, <3>3, ConsumerIdles DEF FifoStep
    <3> QED BY <3>1, <3>2, <3>3
  <2>4. Taker'
    BY <2>1, <2>2, <2>3 DEF Taker
  <2> QED BY <2>3, <2>4
<1> QED BY <1>2, <1>3, <1>4, <1>5, <1>6, <1>7, <1>8 DEF Next, Producer, Consumer

LEMMA InitIsEmpty ==
  ASSUME Init, SharedItems = 0
  PROVE  Fifo!Init /\ FifoInv
<1>1. ListInv
  BY InitShape
<1>2. PICK L, F, V, a, b, d : IsShape(L, a, b, F, d, V)
  BY <1>1 DEF ListInv
<1>3. /\ head = List!Flagged(List!Index(1, 0), TRUE) /\ tail = List!Index(1, 0)
      /\ at = [t \in Threads |-> "out"] /\ i = [t \in Threads |-> 0]
      /\ last_value = [t \in Consumers |-> NoItem] /\ queue = <<>>
  BY DEF Init, List!Init, Lock!Init, List!Threads, Threads
<1>4. (\A p \in Producers : p \in Threads) /\ (\A t \in Consumers : t \in Threads)
  BY DEF Threads
<1>5. Waiting = <<>>
  <2>1. a \in Nat /\ b \in Nat /\ a <= b /\ Chain(L, a, b, V)
    BY <1>2 DEF IsShape, Shape
  <2>2. L[a] = 1 /\ L[b] = 1
    BY <1>3, <2>1 DEF Chain, Ref, List!Index, List!Flagged
  <2>3. a \in a .. b /\ b \in a .. b
    BY <2>1
  <2>4. a = b
    BY <2>1, <2>2, <2>3 DEF Chain
  <2>5. First(a) = b + 1
    BY <1>3, <2>4 DEF First, List!Flagged
  <2>6. List!Contents = Stretch(ItemsOf(L), b + 1, b + 1)
    BY <1>2, <2>5, ContentsOf
  <2>7. Len(Stretch(ItemsOf(L), b + 1, b + 1)) = (b + 1) - (b + 1) /\ Stretch(ItemsOf(L), b + 1, b + 1) \in Seq(Stored(ItemsOf(L)))
    <3>1. b + 1 \in Nat /\ b + 1 <= b + 1
      BY <2>1
    <3> QED BY <3>1, StretchIsSequence
  <2>8. List!Contents = <<>>
    BY <2>1, <2>6, <2>7
  <2> QED BY <1>3, <2>8 DEF Waiting
<1>6. Puts = [p \in Producers |-> 0]
  BY <1>3, <1>4 DEF Puts
<1>7. Gets = [t \in Consumers |-> NoItem]
  <2>1. \A t \in Consumers : ~List!HasClaimed(t)
    BY <1>3, <1>4 DEF List!HasClaimed
  <2> QED BY <1>3, <2>1 DEF Gets
<1>8. Fifo!Init
  BY <1>5, <1>6, <1>7 DEF Fifo!Init, Waiting, Puts, Gets
<1>9. Orderly(Waiting, Puts)
  BY <1>5 DEF Orderly
<1>10. ConsumerTypes /\ Claims /\ Written
  BY <1>3, <1>4 DEF ConsumerTypes, AnyItem, Claims, Written
<1>11. Taker
  <2>1. ASSUME kind = "lockfree" PROVE \E t \in Consumers : popping = {t}
    <3>1. /\ pushing \in SUBSET Producers /\ pushing # {} /\ popping \in SUBSET Consumers
          /\ (Cardinality(popping) = 1 \/ TotalItems <= 0)
      <4>1. pushing \in (SUBSET Producers) \ {{}} /\ popping \in (SUBSET Consumers) \ {{}}
            /\ (kind = "lockfree" =>
                  (Cardinality(popping) = 1 \/ TotalItems <= SharedItems))
        BY Zenon DEF Init
      <4>2. Cardinality(popping) = 1 \/ TotalItems <= 0
        BY <2>1, <4>1
      <4> QED BY <4>1, <4>2
    <3>2. IsFiniteSet(pushing) /\ IsFiniteSet(popping)
      BY <3>1, TestAssumption, FS_Subset
    <3>3. Cardinality(pushing) \in Nat /\ Cardinality(pushing) # 0
      BY <3>1, <3>2, FS_CardinalityType, FS_EmptySet
    <3>4. ItemNum \in Nat /\ ItemNum # 0
      BY TestAssumption
    <3>5. ~(TotalItems <= 0)
      BY <3>3, <3>4 DEF TotalItems
    <3>6. PICK t : popping = {t}
      BY <3>1, <3>2, <3>5, FS_Singleton
    <3> QED BY <3>1, <3>6
  <2> QED BY <1>3, <1>4, <2>1 DEF Taker, Alone
<1> QED BY <1>1, <1>8, <1>9, <1>10, <1>11 DEF FifoInv

\* A queue under its test program hands items out once, in the order in which
\* they went in: the linked one with any number of producers and one consumer
\* (SimpleLockFreeQueue.h:50-140), those with a mutex with any number of both
\* (4_test_lock_free_queue.cpp, sync_queue.h, sync_queue2.h, simple_sync_queue.h).
THEOREM QueueIsFifo == ASSUME SharedItems = 0 PROVE Spec => IsFifo
<1>1. Init => Fifo!Init /\ FifoInv
  BY InitIsEmpty
<1>2. FifoInv /\ [Next]_vars => FifoInv' /\ [Fifo!Next]_(Fifo!fifoVars)
  <2> SUFFICES ASSUME FifoInv, [Next]_vars PROVE FifoInv' /\ [Fifo!Next]_(Fifo!fifoVars)
    OBVIOUS
  <2>1. FifoStep /\ ConsumerTypes' /\ Claims' /\ Written' /\ Taker'
    BY NextIsFifoStep
  <2>2. ListInv'
    BY NextKeepsList DEF FifoInv
  <2>3. LinkedTypes /\ Orderly(Waiting, Puts)
    BY DEF FifoInv, ListInv, IsShape
  <2>4. [Fifo!Next]_(Fifo!fifoVars) /\ Orderly(Waiting', Puts')
    BY <2>1, <2>3, FifoStepRefines
  <2>5. Orderly(Waiting, Puts)'
    BY <2>4 DEF Orderly, AllItems
  <2> QED BY <2>1, <2>2, <2>4, <2>5 DEF FifoInv
<1> QED BY <1>1, <1>2, PTL DEF Spec, IsFifo, Fifo!Spec

=============================================================================
