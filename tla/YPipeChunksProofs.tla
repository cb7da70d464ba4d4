-------------------------- MODULE YPipeChunksProofs --------------------------
(***************************************************************************)
(* The pipe with its memory, for every number and size of chunks and every  *)
(* number of writes: no chunk leaks or is used twice, no pointer dangles,   *)
(* and recycling chunks does not disturb the order of the items.            *)
(***************************************************************************)
EXTENDS YPipeChunks, SlotArithmetic, FiniteSetTheorems

-----------------------------------------------------------------------------
(* Following next                                                          *)

Follow(a, last, nx) == IF a \in {last, NULL, Wild} THEN a ELSE nx[a]

\* A walk of n steps from the chunk first.
IsWalk(g, n, first, last, nx) ==
  g = [k \in 0 .. n |-> IF k = 0 THEN first ELSE Follow(g[k - 1], last, nx)]

LEMMA WalkExists ==
  ASSUME NEW first, NEW last, NEW nx, NEW m \in Nat
  PROVE  \E g : IsWalk(g, m, first, last, nx)
<1> DEFINE T == {n \in Nat : ~ \E g : IsWalk(g, n, first, last, nx)}
<1>1. CASE T = {}
  BY <1>1
<1>2. CASE T # {}
  <2>1. PICK n \in T : \A y \in T : n <= y
    BY <1>2, LeastPosition
  <2>2. CASE n = 0
    <3>1. PICK g : g = [k \in 0 .. n |-> first]
      OBVIOUS
    <3>2. \A k \in 0 .. n : k = 0
      BY <2>2
    <3>3. IsWalk(g, n, first, last, nx)
      BY <3>1, <3>2 DEF IsWalk
    <3> QED BY <2>1, <3>3
  <2>3. CASE n # 0
    <3>1. n - 1 \in Nat /\ n - 1 < n
      BY <2>3
    <3>2. PICK g : IsWalk(g, n - 1, first, last, nx)
      BY <2>1, <3>1
    <3>3. PICK h : h = [k \in 0 .. n |->
                          IF k = n THEN Follow(g[n - 1], last, nx) ELSE g[k]]
      OBVIOUS
    <3>4. \A k \in 0 .. n - 1 : h[k] = g[k]
      BY <3>1, <3>3
    <3>5. \A k \in 0 .. n : h[k] = IF k = 0 THEN first ELSE Follow(h[k - 1], last, nx)
      <4> SUFFICES ASSUME NEW k \in 0 .. n
                   PROVE  h[k] = IF k = 0 THEN first ELSE Follow(h[k - 1], last, nx)
        OBVIOUS
      <4>1. CASE k = n
        <5>1. h[k] = Follow(g[n - 1], last, nx) /\ k # 0 /\ h[k - 1] = g[n - 1]
          BY <2>3, <3>1, <3>3, <3>4, <4>1
        <5> QED BY <5>1
      <4>2. CASE k # n
        <5>1. k \in 0 .. n - 1 /\ (k # 0 => k - 1 \in 0 .. n - 1)
          BY <3>1, <4>2
        <5>2. g[k] = IF k = 0 THEN first ELSE Follow(g[k - 1], last, nx)
          BY <3>2, <5>1 DEF IsWalk
        <5> QED BY <3>4, <5>1, <5>2
      <4> QED BY <4>1, <4>2
    <3>6. IsWalk(h, n, first, last, nx)
      BY <3>3, <3>5 DEF IsWalk
    <3> QED BY <2>1, <3>6
  <2> QED BY <2>2, <2>3
<1> QED BY <1>1, <1>2

\* What can be met between the two ends.
Met(first, last, nx) ==
  LET walk == CHOOSE g : IsWalk(g, Cardinality(Chunks), first, last, nx)
  IN {walk[k] : k \in 0 .. Cardinality(Chunks)}

LEMMA WalkMeetsAll ==
  ASSUME NEW L \in SUBSET Chunks, NEW nx, NEW pv, NEW bs,
         NEW first \in L, NEW last \in L,
         \A a \in L : bs[a] \in Nat /\ bs[a] <= bs[last],
         \A a \in L : a # last => nx[a] \in L /\ bs[a] < bs[nx[a]],
         \A a \in L : a # first => pv[a] \in L /\ pv[a] # last /\ nx[pv[a]] = a
  PROVE  Met(first, last, nx) = L
<1>1. PICK m \in Nat : m = Cardinality(Chunks)
  BY FS_CardinalityType, ChunksAssumption
<1>2. PICK walk : walk = CHOOSE g : IsWalk(g, m, first, last, nx)
  OBVIOUS
<1>3. IsWalk(walk, m, first, last, nx)
  BY <1>1, <1>2, WalkExists
<1>4. /\ walk[0] = first
      /\ \A k \in 0 .. m : k # 0 =>
           walk[k] = IF walk[k - 1] = last THEN last
                     ELSE IF walk[k - 1] \in {NULL, Wild} THEN walk[k - 1]
                     ELSE nx[walk[k - 1]]
  <2>1. \A k \in 0 .. m :
          walk[k] = IF k = 0 THEN first ELSE Follow(walk[k - 1], last, nx)
    BY <1>3 DEF IsWalk
  <2>2. walk[0] = first
    BY <2>1
  <2>3. ASSUME NEW k \in 0 .. m, k # 0
        PROVE  walk[k] = IF walk[k - 1] = last THEN last
                         ELSE IF walk[k - 1] \in {NULL, Wild} THEN walk[k - 1]
                         ELSE nx[walk[k - 1]]
    <3>1. walk[k] = Follow(walk[k - 1], last, nx)
      BY <2>1, <2>3
    <3> QED BY <3>1 DEF Follow
  <2> QED BY <2>2, <2>3
<1> DEFINE Good(k) == /\ walk[k] \in L
                      /\ walk[k] # last => \A i \in 0 .. k - 1 : bs[walk[i]] < bs[walk[k]]
           Bad == {k \in 0 .. m : ~Good(k)}
<1>5. Bad = {}
  <2> SUFFICES ASSUME Bad # {} PROVE FALSE
    OBVIOUS
  <2>1. PICK k \in Bad : \A j \in Bad : k <= j
    <3>1. Bad \in SUBSET Nat
      OBVIOUS
    <3> HIDE DEF Bad
    <3> QED BY <3>1, LeastPosition
  <2>2. k # 0
    BY <1>4, <2>1
  <2>3. k - 1 \in 0 .. m /\ k - 1 \notin Bad
    BY <2>1, <2>2
  <2>4. Good(k - 1)
    BY <2>3
  <2>5. walk[k - 1] \notin {NULL, Wild}
    BY <2>4, ChunksAssumption
  <2>6. CASE walk[k - 1] = last
    BY <1>4, <2>1, <2>2, <2>6
  <2>7. CASE walk[k - 1] # last
    <3>1. walk[k] = nx[walk[k - 1]]
      BY <1>4, <2>2, <2>5, <2>7
    <3>2. walk[k] \in L /\ bs[walk[k - 1]] < bs[walk[k]]
      BY <2>4, <2>7, <3>1
    <3>3. ASSUME NEW i \in 0 .. k - 1 PROVE bs[walk[i]] < bs[walk[k]]
      <4>1. CASE i = k - 1
        BY <3>2, <4>1
      <4>2. CASE i # k - 1
        <5>1. i \in 0 .. (k - 1) - 1 /\ i \in 0 .. m /\ i \notin Bad
          BY <2>1, <4>2
        <5>2. bs[walk[i]] < bs[walk[k - 1]]
          BY <2>4, <2>7, <5>1
        <5>3. bs[walk[i]] \in Nat /\ bs[walk[k - 1]] \in Nat /\ bs[walk[k]] \in Nat
          BY <2>4, <3>2, <5>1
        <5> QED BY <3>2, <5>2, <5>3
      <4> QED BY <4>1, <4>2
    <3> QED BY <2>1, <3>2, <3>3
  <2> QED BY <2>6, <2>7
<1>6. \A k \in 0 .. m : walk[k] \in L
  BY <1>5
<1>7. \A k \in 0 .. m : walk[k] # last => \A i \in 0 .. k - 1 : bs[walk[i]] < bs[walk[k]]
  BY <1>5
<1> HIDE DEF Good, Bad
<1>8. \E j \in 0 .. m : walk[j] = last
  <2> SUFFICES ASSUME \A j \in 0 .. m : walk[j] # last PROVE FALSE
    OBVIOUS
  <2>1. \A i, j \in 0 .. m : i < j => bs[walk[i]] < bs[walk[j]]
    BY <1>7
  <2>2. \A i, j \in 0 .. m : walk[i] = walk[j] => i = j
    <3> SUFFICES ASSUME NEW i \in 0 .. m, NEW j \in 0 .. m, walk[i] = walk[j], i # j
                 PROVE  FALSE
      OBVIOUS
    <3>1. bs[walk[i]] < bs[walk[j]] \/ bs[walk[j]] < bs[walk[i]]
      BY <2>1
    <3> QED BY <1>6, <3>1
  <2>3. PICK g : g = [k \in 0 .. m |-> walk[k]]
    OBVIOUS
  <2>4. g \in [0 .. m -> Chunks] /\ IsInjective(g)
    BY <1>6, <2>2, <2>3 DEF IsInjective
  <2>5. Cardinality(0 .. m) <= m
    BY <1>1, <2>4, FS_Injection, ChunksAssumption DEF ExistsInjection, Injection
  <2>6. Cardinality(0 .. m) = m + 1
    BY FS_Interval
  <2> QED BY <2>5, <2>6
<1>9. L \subseteq {walk[k] : k \in 0 .. m}
  <2> DEFINE Missed == {a \in L : \A k \in 0 .. m : walk[k] # a}
             T == {bs[a] : a \in Missed}
  <2> SUFFICES ASSUME Missed # {} PROVE FALSE
    OBVIOUS
  <2>1. T \in SUBSET Nat /\ T # {}
    OBVIOUS
  <2>2. PICK x \in T : \A y \in T : x <= y
    BY <2>1, LeastPosition
  <2>3. PICK a \in Missed : bs[a] = x
    BY <2>2
  <2>4. \A b \in Missed : bs[a] <= bs[b]
    BY <2>2, <2>3
  <2>5. a # first
    BY <1>4
  <2>6. pv[a] \in L /\ pv[a] # last /\ nx[pv[a]] = a /\ bs[pv[a]] < bs[a]
    BY <2>5
  <2>7. pv[a] \notin Missed
    BY <2>4, <2>6
  <2>8. PICK k \in 0 .. m : walk[k] = pv[a]
    BY <2>6, <2>7
  <2>9. k # m
    <3> SUFFICES ASSUME k = m PROVE FALSE
      OBVIOUS
    <3>1. PICK j \in 0 .. m : walk[j] = last
      BY <1>8
    <3>2. j # k
      BY <2>6, <2>8, <3>1
    <3>3. j \in 0 .. k - 1
      BY <3>2
    <3>4. bs[last] < bs[pv[a]]
      BY <1>7, <2>6, <2>8, <3>1, <3>3
    <3> QED BY <2>6, <3>4
  <2>10. k + 1 \in 0 .. m /\ k + 1 # 0 /\ (k + 1) - 1 = k
    BY <2>9
  <2>11. walk[k] \notin {NULL, Wild} /\ walk[k] # last
    BY <2>6, <2>8, ChunksAssumption
  <2>12. walk[k + 1] = nx[walk[k]]
    BY <1>4, <2>10, <2>11
  <2> QED BY <2>6, <2>8, <2>10, <2>12
<1> QED BY <1>1, <1>2, <1>6, <1>9 DEF Met

LEMMA InListIsMet == InList = Met(front[1], end[1], next)
  BY DEF InList, Met, IsWalk, Follow

-----------------------------------------------------------------------------
(* The inductive invariant                                                 *)

Owned == {spare, sc, held} \ {NULL}

\* The chunks nobody holds.
List == heap \ Owned

ChunkTypes ==
  /\ heap \in SUBSET Chunks
  /\ next \in [Chunks -> Chunks \cup {NULL, Wild}]
  /\ prev \in [Chunks -> Chunks \cup {NULL, Wild}]
  /\ values \in [Chunks -> [0 .. N - 1 -> Nat]]
  /\ base \in [Chunks -> Nat]
  /\ spare \in Chunks \cup {NULL} /\ sc \in Chunks \cup {NULL}
  /\ held \in Chunks \cup {NULL}
  /\ front \in Slots /\ back \in Slots /\ end \in Slots /\ w \in Slots /\ f \in Slots
  /\ r \in Slots \cup {NULL} /\ c \in Slots \cup {NULL}
  /\ pcW \in {"idle", "set", "spare", "spare incomplete", "link", "link incomplete"}
  /\ pcR \in {"idle", "copy", "pop", "recycle", "free"}
  /\ writes \in 0 .. MaxWrites /\ value \in Nat

\* The spare chunk and those in the hands of a thread are different ones.
Owners ==
  /\ Owned \subseteq heap
  /\ spare # NULL => spare # sc /\ spare # held
  /\ sc # NULL => sc # held /\ pcW \in {"link", "link incomplete"}
  /\ held # NULL => pcR \in {"recycle", "free"}

\* The others are a list, in the order of their positions and without gaps.
Chained ==
  /\ front[1] \in List /\ end[1] \in List
  /\ \A a \in List : base[front[1]] <= base[a] /\ base[a] <= base[end[1]]
  /\ \A a, b \in List : a # b => base[a] + N <= base[b] \/ base[b] + N <= base[a]
  /\ \A a \in List : a # end[1] => next[a] \in List /\ base[next[a]] = base[a] + N
  /\ \A a \in List : a # front[1] =>
       prev[a] \in List /\ prev[a] # end[1] /\ next[prev[a]] = a

Covered ==
  \A p \in Nat : base[front[1]] <= p /\ p < base[end[1]] + N =>
    \E a \in List : base[a] <= p /\ p < base[a] + N

Growing == pcW \notin {"idle", "set"}

\* The pointers are in the list and keep the order of YPipe.
Pointers ==
  /\ back[1] \in List /\ w[1] \in List /\ f[1] \in List
  /\ r # NULL => r[1] \in List
  /\ Position(front) <= Position(w) /\ Position(w) <= Position(f)
  /\ Position(f) <= Position(back)
  /\ r # NULL => Position(front) <= Position(r) /\ Position(r) <= Position(w)
  /\ c \in {w, NULL}
  /\ c = NULL => front = w
  /\ pcW = "set" => c = NULL
  /\ pcR \in {"copy", "pop"} => r # NULL /\ front # r
  /\ ~Growing => Position(end) = Position(back) + 1
  /\ Growing => /\ back = end /\ end[2] = N - 1 /\ Position(f) < Position(back)
                /\ values[end[1]][N - 2] = writes

ChunkInv == ChunkTypes /\ Owners /\ Chained /\ Covered /\ Pointers

-----------------------------------------------------------------------------
(* Facts                                                                   *)

LEMMA SizeFacts ==
  /\ N \in Nat /\ N >= 2 /\ MaxWrites \in Nat /\ NULL \notin Chunks /\ NULL \notin Slots
  /\ Wild \notin Chunks
  /\ \A p \in Slots : p[1] \in Chunks /\ p[2] \in 0 .. N - 1 /\ p = <<p[1], p[2]>>
  /\ \A a \in Chunks, i \in 0 .. N - 1 :
       <<a, i>> \in Slots /\ <<a, i>>[1] = a /\ <<a, i>>[2] = i
  BY ChunksAssumption DEF Slots

\* A pointer is determined by its position.
LEMMA SamePlace ==
  ASSUME ChunkInv, NEW p \in Slots, NEW q \in Slots, p[1] \in List, q[1] \in List
  PROVE  /\ Position(p) \in Nat /\ Position(p) = base[p[1]] + p[2]
         /\ Position(p) = Position(q) => p = q
         /\ Position(p) < base[q[1]] + N => base[p[1]] <= base[q[1]]
         /\ base[q[1]] <= Position(p) /\ Position(p) < base[q[1]] + N => p[1] = q[1]
<1>1. /\ p[1] \in Chunks /\ p[2] \in 0 .. N - 1 /\ p = <<p[1], p[2]>>
      /\ q[1] \in Chunks /\ q[2] \in 0 .. N - 1 /\ q = <<q[1], q[2]>> /\ N \in Nat
  BY SizeFacts
<1>2. base[p[1]] \in Nat /\ base[q[1]] \in Nat
  BY <1>1 DEF ChunkInv, ChunkTypes
<1>3. p[1] # q[1] => base[p[1]] + N <= base[q[1]] \/ base[q[1]] + N <= base[p[1]]
  BY DEF ChunkInv, Chained
<1>4. Position(p) = base[p[1]] + p[2] /\ Position(q) = base[q[1]] + q[2]
  BY DEF Position
<1>5. Position(p) = Position(q) => p[1] = q[1]
  BY <1>1, <1>2, <1>3, <1>4
<1>6. Position(p) = Position(q) => p[2] = q[2]
  BY <1>1, <1>2, <1>4, <1>5
<1> QED BY <1>1, <1>2, <1>3, <1>4, <1>5, <1>6

-----------------------------------------------------------------------------
(* Steps that leave the chunks where they are                              *)

\* Only the pointers move.
LEMMA ListStays ==
  ASSUME ChunkInv, UNCHANGED <<heap, next, prev, base, spare, sc, held>>,
         front'[1] = front[1], end'[1] = end[1]
  PROVE  List' = List /\ Chained' /\ Covered'
<1>1. List' = List
  BY DEF List, Owned
<1>2. Chained'
  BY <1>1 DEF ChunkInv, Chained
<1>3. Covered'
  BY <1>1 DEF ChunkInv, Covered
<1> QED BY <1>1, <1>2, <1>3

LEMMA FlushKeeps ==
  ASSUME ChunkInv,
         \/ FlushAwake
         \/ FlushFindsAsleep
         \/ FlushSet
  PROVE  ChunkInv'
<1>1. /\ UNCHANGED <<heap, next, prev, values, spare, base, back, end, f, sc, writes>>
      /\ UNCHANGED <<front, r, held, pcR, value>>
      /\ pcW \in {"idle", "set"} /\ pcW' \in {"idle", "set"}
      /\ (w' = f /\ c' = f /\ pcW' = "idle") \/ (w' = w /\ c' = c /\ c # w)
  BY DEF FlushAwake, FlushFindsAsleep, FlushSet, memoryVars, readerVars
<1>2. /\ ChunkTypes /\ Owners /\ Pointers /\ f \in Slots /\ f # NULL /\ w # NULL
      /\ Position(w) \in Nat /\ Position(f) \in Nat /\ Position(front) \in Nat
      /\ r # NULL => Position(r) \in Nat
  BY SamePlace, SizeFacts DEF ChunkInv, ChunkTypes, Chained, Pointers
<1>3. ChunkTypes'
  BY <1>1, <1>2 DEF ChunkTypes
<1>4. Owners'
  BY <1>1, <1>2 DEF Owners, Owned
<1>5. List' = List /\ Chained' /\ Covered'
  BY <1>1, ListStays
<1>6. Pointers'
  <2>1. UNCHANGED <<Position(front), Position(f), Position(back), Position(end), Position(r)>>
    BY <1>1 DEF Position
  <2>2. CASE w' = f /\ c' = f /\ pcW' = "idle"
    <3>1. Position(w)' = Position(f)
      BY <1>1, <2>2 DEF Position
    <3> QED BY <1>1, <1>2, <1>5, <2>1, <2>2, <3>1 DEF Pointers, Growing
  <2>3. CASE w' = w /\ c' = c /\ c # w
    <3>1. Position(w)' = Position(w) /\ c = NULL
      BY <1>1, <1>2, <2>3 DEF Position, Pointers
    <3> QED BY <1>1, <1>2, <1>5, <2>1, <2>3, <3>1 DEF Pointers, Growing
  <2> QED BY <1>1, <2>2, <2>3
<1> QED BY <1>3, <1>4, <1>5, <1>6 DEF ChunkInv

LEMMA CheckKeeps ==
  ASSUME ChunkInv, CheckSucceeds \/ CheckFails \/ Copy
  PROVE  ChunkInv'
<1>1. /\ UNCHANGED <<heap, next, prev, values, spare, base, back, end, w, f, sc, pcW, writes>>
      /\ UNCHANGED <<front, held>> /\ pcR \in {"idle", "copy"} /\ pcR' \in {"idle", "copy", "pop"}
  BY DEF CheckSucceeds, CheckFails, Copy, memoryVars, writerVars
<1>2. /\ ChunkTypes /\ Owners /\ Pointers /\ w # NULL /\ front # NULL
      /\ Position(w) \in Nat /\ Position(front) \in Nat
  BY SamePlace, SizeFacts DEF ChunkInv, ChunkTypes, Chained, Pointers
<1>3. value' \in Nat
  <2>1. front[1] \in Chunks /\ front[2] \in 0 .. N - 1
    BY <1>2, SizeFacts DEF ChunkTypes
  <2>2. values[front[1]][front[2]] \in Nat
    BY <1>2, <2>1 DEF ChunkTypes
  <2> QED BY <1>2, <2>2 DEF CheckSucceeds, CheckFails, Copy, ChunkTypes
<1>4. \/ r' = r /\ c' = c /\ (pcR' \in {"copy", "pop"} => r # NULL /\ front # r)
      \/ c = w /\ c # front /\ r' = w /\ c' = c
      \/ r' = c /\ c' = NULL /\ c \in {front, NULL} /\ pcR' = "idle"
  BY <1>2 DEF CheckSucceeds, CheckFails, Copy, Pointers, Prefetched
<1>5. ChunkTypes'
  BY <1>1, <1>2, <1>3, <1>4 DEF ChunkTypes
<1>6. Owners'
  BY <1>1, <1>2 DEF Owners, Owned
<1>7. List' = List /\ Chained' /\ Covered'
  BY <1>1, ListStays
<1>8. Pointers'
  <2>1. UNCHANGED <<Position(front), Position(w), Position(f), Position(back), Position(end)>>
    BY <1>1 DEF Position
  <2>2. CASE r' = r /\ c' = c /\ (pcR' \in {"copy", "pop"} => r # NULL /\ front # r)
    <3>1. Position(r)' = Position(r)
      BY <1>1, <2>2 DEF Position
    <3> QED BY <1>1, <1>2, <1>7, <2>1, <2>2, <3>1 DEF Pointers, Growing
  <2>3. CASE c = w /\ c # front /\ r' = w /\ c' = c
    <3>1. Position(r)' = Position(w)
      BY <1>1, <2>3 DEF Position
    <3> QED BY <1>1, <1>2, <1>7, <2>1, <2>3, <3>1 DEF Pointers, Growing
  <2>4. CASE r' = c /\ c' = NULL /\ c \in {front, NULL} /\ pcR' = "idle"
    <3>1. front = w /\ (c # NULL => c = front)
      BY <1>2, <2>4 DEF Pointers
    <3>2. r' # NULL => Position(r)' = Position(front) /\ r'[1] = front[1]
      BY <1>1, <2>4 DEF Position
    <3>3. front[1] \in List
      BY DEF ChunkInv, Chained
    <3> QED BY <1>1, <1>2, <1>7, <2>1, <2>4, <3>1, <3>2, <3>3 DEF Pointers, Growing
  <2> QED BY <1>4, <2>2, <2>3, <2>4
<1> QED BY <1>5, <1>6, <1>7, <1>8 DEF ChunkInv

LEMMA WriteKeeps ==
  ASSUME ChunkInv, NEW incomplete \in BOOLEAN, Write(incomplete)
  PROVE  ChunkInv'
<1>1. /\ UNCHANGED <<heap, next, prev, spare, base, w, sc, front, r, held, pcR, value, c>>
      /\ pcW = "idle" /\ writes < MaxWrites /\ writes' = writes + 1 /\ back' = end
      /\ values' = [values EXCEPT ![back[1]][back[2]] = writes + 1]
  BY DEF Write, readerVars
<1>2. /\ ChunkTypes /\ Owners /\ Pointers /\ end[1] \in List /\ back[1] \in List
      /\ f[1] \in List
      /\ end \in Slots /\ back \in Slots /\ f \in Slots /\ NULL \notin Slots
      /\ end[1] \in Chunks /\ end[2] \in 0 .. N - 1 /\ back[1] \in Chunks /\ back[2] \in 0 .. N - 1
      /\ N \in Nat /\ N >= 2 /\ MaxWrites \in Nat /\ writes \in Nat /\ base[end[1]] \in Nat
  <2>1. ChunkTypes /\ Owners /\ Pointers /\ end[1] \in List
    BY DEF ChunkInv, Chained
  <2>2. back[1] \in List /\ f[1] \in List
    BY <2>1 DEF Pointers
  <2>3. end \in Slots /\ back \in Slots /\ f \in Slots /\ writes \in 0 .. MaxWrites
        /\ base \in [Chunks -> Nat]
    BY <2>1 DEF ChunkTypes
  <2>4. end[1] \in Chunks /\ end[2] \in 0 .. N - 1 /\ back[1] \in Chunks /\ back[2] \in 0 .. N - 1
    BY <2>3, SizeFacts
  <2> QED BY <2>1, <2>2, <2>3, <2>4, SizeFacts
<1>3. /\ Position(end) \in Nat /\ Position(back) \in Nat /\ Position(f) \in Nat
      /\ Position(end) = base[end[1]] + end[2] /\ Position(end) = Position(back) + 1
      /\ Position(f) <= Position(back)
  BY <1>1, <1>2, SamePlace DEF Pointers, Growing
<1>4. values' \in [Chunks -> [0 .. N - 1 -> Nat]]
  <2>1. values \in [Chunks -> [0 .. N - 1 -> Nat]]
    BY <1>2 DEF ChunkTypes
  <2>3. writes + 1 \in Nat
    BY <1>2
  <2>2. [values[back[1]] EXCEPT ![back[2]] = writes + 1] \in [0 .. N - 1 -> Nat]
    BY <1>2, <2>1, <2>3
  <2> QED BY <1>1, <1>2, <2>1, <2>2
<1>10. writes' \in 0 .. MaxWrites
  BY <1>1, <1>2
<1>5. Owners'
  <2>1. UNCHANGED <<heap, Owned>> /\ sc = NULL
    BY <1>1, <1>2 DEF Owned, Owners
  <2> QED BY <1>1, <1>2, <2>1 DEF Owners
<1>6. UNCHANGED <<Position(front), Position(w), Position(r)>>
  BY <1>1 DEF Position
<1>7. Position(back)' = Position(end)
  BY <1>1 DEF Position
<1>8. CASE end[2] + 1 # N
  <2>1. /\ end' = <<end[1], end[2] + 1>> /\ end'[1] = end[1] /\ end'[2] = end[2] + 1
        /\ f' \in {f, end} /\ pcW' = pcW
    BY <1>1, <1>8 DEF Write
  <2>2. end' \in Slots
    <3>1. end[2] + 1 \in 0 .. N - 1
      BY <1>2, <1>8
    <3> QED BY <1>2, <2>1, <3>1, SizeFacts
  <2>3. ChunkTypes'
    BY <1>1, <1>2, <1>4, <1>10, <2>1, <2>2 DEF ChunkTypes
  <2>4. List' = List /\ Chained' /\ Covered'
    BY <1>1, <2>1, ListStays
  <2>5. Position(end)' = Position(end) + 1
    BY <1>1, <1>2, <1>3, <2>1 DEF Position
  <2>6. Position(f)' \in {Position(f), Position(end)} /\ Position(f) <= Position(f)'
        /\ Position(f)' <= Position(end) /\ Position(f)' \in Nat
    BY <1>1, <1>2, <1>3, <2>1 DEF Position
  <2>7. Pointers'
    <3>1. back'[1] \in List' /\ w'[1] \in List' /\ f'[1] \in List'
      BY <1>1, <1>2, <2>1, <2>4 DEF Pointers
    <3>2. Position(w) \in Nat /\ w \in Slots /\ w[1] \in List
      BY <1>2, SamePlace DEF ChunkTypes, Pointers
    <3>3. Position(w)' <= Position(f)'
      BY <1>2, <1>3, <1>6, <2>6, <3>2 DEF Pointers
    <3>4. Position(f)' <= Position(back)' /\ Position(end)' = Position(back)' + 1
      BY <1>7, <2>5, <2>6
    <3> QED BY <1>1, <1>2, <1>6, <2>1, <2>4, <3>1, <3>3, <3>4 DEF Pointers, Growing
  <2> QED BY <1>5, <2>3, <2>4, <2>7 DEF ChunkInv
<1>9. CASE end[2] + 1 = N
  <2>1. /\ end' = end /\ f' = f /\ pcW' \in {"spare", "spare incomplete"}
    BY <1>1, <1>9 DEF Write
  <2>2. ChunkTypes'
    BY <1>1, <1>2, <1>4, <1>10, <2>1 DEF ChunkTypes
  <2>3. List' = List /\ Chained' /\ Covered'
    BY <1>1, <2>1, ListStays
  <2>4. back = <<end[1], N - 2>>
    <3>1. N - 2 \in 0 .. N - 1
      BY <1>2
    <3>2. PICK q \in Slots : q = <<end[1], N - 2>>
      BY <1>2, <3>1, SizeFacts
    <3>3. q[1] = end[1] /\ q[2] = N - 2
      BY <3>2
    <3>4. Position(q) = Position(back)
      BY <1>2, <1>3, <1>9, <3>3 DEF Position
    <3> QED BY <1>2, <3>2, <3>3, <3>4, SamePlace
  <2>5. values'[end[1]][N - 2] = writes + 1
    BY <1>1, <1>2, <2>4 DEF ChunkTypes
  <2>6. UNCHANGED <<Position(f), Position(end)>>
    BY <1>1, <2>1 DEF Position
  <2>7. Pointers'
    <3>1. back'[1] \in List' /\ w'[1] \in List' /\ f'[1] \in List'
      BY <1>1, <1>2, <2>1, <2>3 DEF Pointers
    <3>2. end'[2] = N - 1 /\ Position(f)' < Position(back)' /\ values'[end'[1]][N - 2] = writes'
      <4>1. end'[2] = N - 1
        <5>1. end[2] = N - 1
          BY <1>2, <1>9
        <5> QED BY <2>1, <5>1
      <4>2. Position(f)' < Position(back)'
        BY <1>3, <1>7, <2>6
      <4>3. values'[end'[1]][N - 2] = writes'
        BY <1>1, <2>1, <2>5
      <4> QED BY <4>1, <4>2, <4>3
    <3>3. Growing'
      BY <2>1 DEF Growing
    <3>4. Position(f)' <= Position(back)'
      BY <1>3, <1>7, <2>6
    <3>5. back' = end'
      BY <1>1, <2>1
    <3> QED BY <1>1, <1>2, <1>6, <2>1, <2>3, <2>6, <3>1, <3>2, <3>3, <3>4, <3>5 DEF Pointers
  <2> QED BY <1>5, <2>2, <2>3, <2>7 DEF ChunkInv
<1> QED BY <1>8, <1>9

LEMMA PushTakesKeeps ==
  ASSUME ChunkInv, PushTakesSpare
  PROVE  ChunkInv'
<1>1. /\ UNCHANGED <<heap, next, prev, values, base, back, end, w, f, writes>>
      /\ UNCHANGED <<front, r, held, pcR, value, c>>
      /\ pcW \in {"spare", "spare incomplete"} /\ pcW' \in {"link", "link incomplete"}
      /\ sc' = spare /\ spare' = NULL
  BY DEF PushTakesSpare, readerVars
<1>2. ChunkTypes /\ Owners /\ Pointers /\ sc = NULL
  BY <1>1 DEF ChunkInv, Owners
<1>3. ChunkTypes'
  BY <1>1, <1>2 DEF ChunkTypes
<1>4. Owned' = Owned /\ List' = List
  BY <1>1, <1>2 DEF Owned, List
<1>5. Owners'
  BY <1>1, <1>2, <1>4 DEF Owners
<1>6. Chained' /\ Covered'
  BY <1>1, <1>4 DEF ChunkInv, Chained, Covered
<1>7. Pointers'
  <2>1. UNCHANGED <<Position(front), Position(w), Position(f), Position(back),
                    Position(end), Position(r)>>
    BY <1>1 DEF Position
  <2> QED BY <1>1, <1>2, <1>4, <2>1 DEF Pointers, Growing
<1> QED BY <1>3, <1>5, <1>6, <1>7 DEF ChunkInv

LEMMA PushLinksKeeps ==
  ASSUME ChunkInv, PushLinks
  PROVE  ChunkInv'
<1>1. PICK a \in (IF sc # NULL THEN {sc} ELSE Chunks \ heap) :
        /\ heap' = heap \cup {a}
        /\ next' = [next EXCEPT ![end[1]] = a]
        /\ prev' = [prev EXCEPT ![a] = end[1]]
        /\ base' = [base EXCEPT ![a] = base[end[1]] + N]
        /\ end' = <<a, 0>>
  BY DEF PushLinks
<1>2. /\ UNCHANGED <<values, spare, back, w, writes, front, r, held, pcR, value, c>>
      /\ f' \in {back, f} /\ sc' = NULL /\ pcW' = "idle"
      /\ pcW \in {"link", "link incomplete"}
  BY DEF PushLinks, readerVars
<1>3. /\ ChunkTypes /\ Owners /\ Chained /\ Covered /\ Pointers
      /\ end[1] \in List /\ back = end /\ end[2] = N - 1 /\ front[1] \in List
      /\ Position(f) < Position(back)
  <2>1. ChunkTypes /\ Owners /\ Chained /\ Covered /\ Pointers
    BY DEF ChunkInv
  <2>2. end[1] \in List /\ front[1] \in List
    BY <2>1 DEF Chained
  <2>3. Growing
    BY <1>2 DEF Growing
  <2> QED BY <2>1, <2>2, <2>3 DEF Pointers
<1>4. a \in Chunks /\ a \notin List /\ a \notin Owned' /\ List' = List \cup {a}
  <2>1. /\ heap \in SUBSET Chunks /\ sc \in Chunks \cup {NULL} /\ Owned \subseteq heap
        /\ spare # NULL => spare # sc
        /\ sc # NULL => sc # held
    BY <1>3 DEF ChunkTypes, Owners
  <2>2. CASE sc # NULL
    <3>1. a = sc
      BY <1>1, <2>2
    <3>2. Owned = {spare, sc, held} \ {NULL} /\ Owned' = {spare, held} \ {NULL}
      BY <1>2 DEF Owned
    <3>3. a \in Chunks /\ a \in heap /\ a \in Owned /\ a \notin Owned'
      BY <2>1, <2>2, <3>1, <3>2
    <3>4. heap' = heap /\ Owned = Owned' \cup {a}
      BY <1>1, <2>2, <3>1, <3>2, <3>3
    <3> QED BY <3>3, <3>4 DEF List
  <2>3. CASE sc = NULL
    <3>1. a \in Chunks \ heap
      BY <1>1, <2>3
    <3>2. Owned' = Owned
      BY <1>2, <2>3 DEF Owned
    <3> QED BY <1>1, <2>1, <3>1, <3>2 DEF List
  <2> QED BY <2>2, <2>3
<1>5. /\ List \subseteq Chunks /\ base \in [Chunks -> Nat]
      /\ next \in [Chunks -> Chunks \cup {NULL, Wild}] /\ prev \in [Chunks -> Chunks \cup {NULL, Wild}]
      /\ N \in Nat /\ N >= 2
      /\ end[1] \in Chunks /\ a # end[1]
  BY <1>3, <1>4, SizeFacts DEF ChunkTypes, List
<1>6. /\ \A b \in List : base'[b] = base[b] /\ base[b] \in Nat
      /\ base'[a] = base[end[1]] + N /\ base'[a] \in Nat
  BY <1>1, <1>4, <1>5
<1>7. ChunkTypes'
  <2>1. next' \in [Chunks -> Chunks \cup {NULL, Wild}]
    BY <1>1, <1>4, <1>5
  <2>2. prev' \in [Chunks -> Chunks \cup {NULL, Wild}]
    BY <1>1, <1>4, <1>5
  <2>3. base' \in [Chunks -> Nat]
    BY <1>1, <1>4, <1>5
  <2>4. end' \in Slots
    <3>1. 0 \in 0 .. N - 1
      BY <1>5
    <3> QED BY <1>1, <1>4, <3>1, SizeFacts
  <2>5. heap' \in SUBSET Chunks
    BY <1>1, <1>3, <1>4 DEF ChunkTypes
  <2> QED BY <1>2, <1>3, <2>1, <2>2, <2>3, <2>4, <2>5 DEF ChunkTypes
<1>8. Owners'
  <2>1. Owned' \subseteq heap'
    <3>1. Owned' \subseteq Owned
      BY <1>2 DEF Owned
    <3> QED BY <1>1, <1>3, <3>1 DEF Owners
  <2> QED BY <1>2, <1>3, <2>1 DEF Owners
<1>9. front'[1] = front[1] /\ end'[1] = a
  BY <1>1, <1>2
<1>10. Chained'
  <2>1. front'[1] \in List' /\ end'[1] \in List'
    BY <1>3, <1>4, <1>9
  <2>2. \A b \in List : base[front[1]] <= base[b] /\ base[b] <= base[end[1]]
    BY <1>3 DEF Chained
  <2>3. \A b \in List' : base'[front'[1]] <= base'[b] /\ base'[b] <= base'[end'[1]]
    BY <1>3, <1>4, <1>5, <1>6, <1>9, <2>2
  <2>4. \A b, d \in List : b # d => base[b] + N <= base[d] \/ base[d] + N <= base[b]
    BY <1>3 DEF Chained
  <2>5. \A b, d \in List' : b # d => base'[b] + N <= base'[d] \/ base'[d] + N <= base'[b]
    <3> SUFFICES ASSUME NEW b \in List', NEW d \in List', b # d
                 PROVE  base'[b] + N <= base'[d] \/ base'[d] + N <= base'[b]
      OBVIOUS
    <3>1. CASE b \in List /\ d \in List
      BY <1>6, <2>4, <3>1
    <3>2. CASE b = a
      <4>1. d \in List
        BY <1>4, <3>2
      <4>2. base[d] <= base[end[1]] /\ base'[d] = base[d]
        BY <1>6, <2>2, <4>1
      <4> QED BY <1>5, <1>6, <3>2, <4>1, <4>2
    <3>3. CASE d = a
      <4>1. b \in List
        BY <1>4, <3>3
      <4>2. base[b] <= base[end[1]] /\ base'[b] = base[b]
        BY <1>6, <2>2, <4>1
      <4> QED BY <1>5, <1>6, <3>3, <4>1, <4>2
    <3> QED BY <1>4, <3>1, <3>2, <3>3
  <2>6. \A b \in List' : b # end'[1] => next'[b] \in List' /\ base'[next'[b]] = base'[b] + N
    <3> SUFFICES ASSUME NEW b \in List', b # a
                 PROVE  next'[b] \in List' /\ base'[next'[b]] = base'[b] + N
      BY <1>9
    <3>1. b \in List /\ b \in Chunks
      BY <1>4, <1>5
    <3>2. CASE b = end[1]
      <4>1. next'[b] = a
        BY <1>1, <1>5, <3>1, <3>2
      <4> QED BY <1>4, <1>6, <3>1, <3>2, <4>1
    <3>3. CASE b # end[1]
      <4>1. next'[b] = next[b]
        BY <1>1, <1>5, <3>1, <3>3
      <4>2. next[b] \in List /\ base[next[b]] = base[b] + N
        BY <1>3, <3>1, <3>3 DEF Chained
      <4> QED BY <1>4, <1>6, <3>1, <4>1, <4>2
    <3> QED BY <3>2, <3>3
  <2>7. \A b \in List' : b # front'[1] =>
          prev'[b] \in List' /\ prev'[b] # end'[1] /\ next'[prev'[b]] = b
    <3> SUFFICES ASSUME NEW b \in List', b # front[1]
                 PROVE  prev'[b] \in List' /\ prev'[b] # a /\ next'[prev'[b]] = b
      BY <1>9
    <3>1. CASE b = a
      <4>1. prev'[b] = end[1] /\ next'[end[1]] = a
        BY <1>1, <1>4, <1>5, <3>1
      <4> QED BY <1>3, <1>4, <1>5, <3>1, <4>1
    <3>2. CASE b # a
      <4>1. b \in List /\ b \in Chunks
        BY <1>4, <1>5, <3>2
      <4>2. prev[b] \in List /\ prev[b] # end[1] /\ next[prev[b]] = b
        BY <1>3, <4>1 DEF Chained
      <4>3. prev'[b] = prev[b] /\ next'[prev[b]] = next[prev[b]]
        BY <1>1, <1>5, <3>2, <4>1, <4>2
      <4> QED BY <1>4, <4>2, <4>3
    <3> QED BY <3>1, <3>2
  <2> QED BY <2>1, <2>3, <2>5, <2>6, <2>7 DEF Chained
<1>11. Covered'
  <2> SUFFICES ASSUME NEW p \in Nat, base'[front[1]] <= p, p < base'[a] + N
               PROVE  \E b \in List' : base'[b] <= p /\ p < base'[b] + N
    BY <1>9 DEF Covered
  <2>1. CASE base'[a] <= p
    BY <1>4, <2>1
  <2>2. CASE ~(base'[a] <= p)
    <3>1. base[front[1]] <= p /\ p < base[end[1]] + N
      BY <1>3, <1>6, <2>2
    <3>2. PICK b \in List : base[b] <= p /\ p < base[b] + N
      BY <1>3, <3>1 DEF Covered
    <3> QED BY <1>4, <1>6, <3>2
  <2> QED BY <2>1, <2>2
<1>12. Pointers'
  <2>1. back[1] \in List /\ w[1] \in List /\ f[1] \in List /\ (r # NULL => r[1] \in List)
    BY <1>3 DEF Pointers
  <2>2. /\ UNCHANGED <<Position(front), Position(w), Position(back)>>
        /\ r # NULL => Position(r)' = Position(r)
    BY <1>2, <1>3, <1>6, <2>1 DEF Position
  <2>3. f'[1] \in List /\ Position(f)' \in {Position(f), Position(back)}
    BY <1>2, <1>6, <2>1 DEF Position
  <2>4. Position(end)' = base[end[1]] + N
    BY <1>1, <1>6 DEF Position
  <2>5. Position(back) = base[end[1]] + (N - 1)
    BY <1>3 DEF Position
  <2>6. base[end[1]] \in Nat
    BY <1>3, <1>6
  <2>7. Position(end)' = Position(back)' + 1
    BY <1>5, <2>2, <2>4, <2>5, <2>6
  <2>8. Position(f) \in Nat /\ Position(back) \in Nat /\ Position(w) \in Nat
    BY <1>3, <2>1, SamePlace DEF ChunkTypes
  <2>9. Position(w) <= Position(f)' /\ Position(f)' <= Position(back)
    BY <1>3, <2>3, <2>8 DEF Pointers
  <2> QED BY <1>2, <1>3, <1>4, <2>1, <2>2, <2>3, <2>7, <2>9 DEF Pointers, Growing
<1> QED BY <1>7, <1>8, <1>10, <1>11, <1>12 DEF ChunkInv

\* One slot back from a position that is not the first of the list.
LEMMA StepBack ==
  ASSUME ChunkInv, NEW p \in Slots, p[1] \in List, base[front[1]] < Position(p)
  PROVE  /\ Before(p) \in Slots /\ Before(p)[1] \in List
         /\ Position(Before(p)) = Position(p) - 1
         /\ p[2] > 0 => Before(p)[1] = p[1]
         /\ p[2] = 0 => /\ p[1] # front[1] /\ Before(p)[1] = prev[p[1]]
                        /\ base[p[1]] = base[prev[p[1]]] + N
<1>1. /\ p[1] \in Chunks /\ p[2] \in 0 .. N - 1 /\ N \in Nat /\ N >= 2
      /\ base \in [Chunks -> Nat] /\ List \subseteq Chunks /\ Chained
      /\ Position(p) = base[p[1]] + p[2]
  BY SizeFacts, SamePlace DEF ChunkInv, ChunkTypes, List
<1>2. CASE p[2] > 0
  <2>1. Before(p) = <<p[1], p[2] - 1>> /\ p[2] - 1 \in 0 .. N - 1
    BY <1>1, <1>2 DEF Before
  <2>2. PICK q \in Slots : q = <<p[1], p[2] - 1>>
    BY <1>1, <2>1, SizeFacts
  <2>3. q[1] = p[1] /\ q[2] = p[2] - 1 /\ Before(p) = q
    BY <2>1, <2>2
  <2>4. Position(q) = Position(p) - 1
    BY <1>1, <1>2, <2>3 DEF Position
  <2> QED BY <1>2, <2>3, <2>4
<1>3. CASE p[2] = 0
  <2>1. p[1] # front[1]
    BY <1>1, <1>3
  <2>2. /\ prev[p[1]] \in List /\ prev[p[1]] # end[1] /\ next[prev[p[1]]] = p[1]
    BY <1>1, <2>1 DEF Chained
  <2>3. base[p[1]] = base[prev[p[1]]] + N
    BY <1>1, <2>2 DEF Chained
  <2>4. Before(p) = <<prev[p[1]], N - 1>> /\ N - 1 \in 0 .. N - 1 /\ prev[p[1]] \in Chunks
    BY <1>1, <1>3, <2>2 DEF Before
  <2>5. PICK q \in Slots : q = <<prev[p[1]], N - 1>>
    BY <2>4, SizeFacts
  <2>6. q[1] = prev[p[1]] /\ q[2] = N - 1 /\ Before(p) = q
    BY <2>4, <2>5
  <2>7. base[p[1]] \in Nat /\ base[prev[p[1]]] \in Nat
    BY <1>1, <2>4
  <2>8. Position(q) = Position(p) - 1
    <3>1. Position(q) = base[prev[p[1]]] + (N - 1)
      BY <2>6 DEF Position
    <3> QED BY <1>1, <1>3, <2>3, <2>7, <3>1
  <2> QED BY <1>3, <2>1, <2>2, <2>3, <2>6, <2>8
<1> QED BY <1>1, <1>2, <1>3

\* While something is not flushed there is a way back.
LEMMA WayBack ==
  ASSUME ChunkInv, pcW = "idle", f # back
  PROVE  /\ sc = NULL /\ back \in Slots /\ end \in Slots
         /\ Position(end) = Position(back) + 1
         /\ Position(front) <= Position(w) /\ Position(w) <= Position(f)
         /\ Position(f) < Position(back)
         /\ base[front[1]] <= Position(front)
         /\ Position(front) \in Nat /\ Position(w) \in Nat /\ Position(f) \in Nat
         /\ Position(back) \in Nat /\ base[front[1]] \in Nat
         /\ back[1] \in List /\ end[1] \in List
         /\ base[front[1]] < Position(back) /\ base[front[1]] < Position(end)
<1>1. ChunkTypes /\ Owners /\ Chained /\ Pointers
  BY DEF ChunkInv
<1>2. /\ back \in Slots /\ end \in Slots /\ f \in Slots /\ w \in Slots /\ front \in Slots
      /\ base \in [Chunks -> Nat]
  BY <1>1 DEF ChunkTypes
<1>3. back[1] \in List /\ end[1] \in List /\ f[1] \in List /\ w[1] \in List /\ front[1] \in List
  BY <1>1 DEF Chained, Pointers
<1>4. sc = NULL
  BY <1>1 DEF Owners
<1>5. /\ Position(end) = Position(back) + 1
      /\ Position(front) <= Position(w) /\ Position(w) <= Position(f)
      /\ Position(f) <= Position(back)
  BY <1>1 DEF Pointers, Growing
<1>6. /\ Position(front) \in Nat /\ Position(w) \in Nat /\ Position(f) \in Nat
      /\ Position(back) \in Nat /\ Position(f) # Position(back)
  BY <1>2, <1>3, SamePlace
<1>7. Position(front) = base[front[1]] + front[2] /\ front[1] \in Chunks /\ front[2] \in Nat
  BY <1>2, SizeFacts DEF Position
<1>8. base[front[1]] \in Nat
  BY <1>2, <1>7
<1> QED BY <1>2, <1>3, <1>4, <1>5, <1>6, <1>7, <1>8

LEMMA UnwriteKeeps ==
  ASSUME ChunkInv, Unwrite
  PROVE  ChunkInv'
<1>1. /\ UNCHANGED <<spare, base, w, f, sc, pcW, writes, front, r, held, pcR, value, c>>
      /\ pcW = "idle" /\ f # back /\ back' = Before(back) /\ end' = Before(end)
  BY DEF Unwrite, readerVars
<1>2. /\ ChunkTypes /\ Owners /\ Chained /\ Covered /\ Pointers
      /\ N \in Nat /\ N >= 2
  BY SizeFacts DEF ChunkInv
<1>3. /\ back' \in Slots /\ back'[1] \in List /\ Position(Before(back)) = Position(back) - 1
      /\ end' \in Slots /\ end'[1] \in List /\ Position(Before(end)) = Position(end) - 1
      /\ end[2] > 0 => end'[1] = end[1]
      /\ end[2] = 0 => /\ end[1] # front[1] /\ end'[1] = prev[end[1]]
                       /\ base[end[1]] = base[prev[end[1]]] + N
  BY <1>1, StepBack, WayBack
<1>4. /\ Position(back)' = Position(back) - 1 /\ Position(end)' = Position(end) - 1
      /\ UNCHANGED <<Position(front), Position(w), Position(f), Position(r)>>
  BY <1>1, <1>3 DEF Position
<1>5. /\ Position(end)' = Position(back)' + 1 /\ Position(f)' <= Position(back)'
  BY <1>1, <1>4, WayBack
<1>6. CASE end[2] > 0
  <2>1. UNCHANGED <<heap, next, prev, values>> /\ end'[1] = end[1]
    BY <1>3, <1>6 DEF Unwrite
  <2>2. ChunkTypes'
    BY <1>1, <1>2, <1>3, <2>1 DEF ChunkTypes
  <2>3. Owners'
    BY <1>1, <1>2, <2>1 DEF Owners, Owned
  <2>4. List' = List /\ Chained' /\ Covered'
    BY <1>1, <2>1, ListStays
  <2>5. Pointers'
    BY <1>1, <1>2, <1>3, <1>4, <1>5, <2>1, <2>4 DEF Pointers, Growing
  <2> QED BY <2>2, <2>3, <2>4, <2>5 DEF ChunkInv
<1>7. CASE ~(end[2] > 0)
  <2> DEFINE old == end[1]
             last == prev[end[1]]
  <2>1. /\ heap' = heap \ {old} /\ values' = [values EXCEPT ![old] = Fresh]
        /\ prev' = [prev EXCEPT ![old] = Wild]
        /\ next' = [next EXCEPT ![end'[1]] = NULL, ![old] = Wild]
    BY <1>1, <1>7 DEF Unwrite, Free
  <2>2. end[2] = 0 /\ old \in Chunks
    BY <1>1, <1>7, WayBack, SizeFacts
  <2>3. /\ old # front[1] /\ end'[1] = last /\ base[old] = base[last] + N
    BY <1>3, <2>2
  <2>4. /\ old \in List /\ last \in List /\ List \subseteq Chunks /\ last \in Chunks
        /\ front[1] \in List
    BY <1>2, <1>3, <2>3 DEF ChunkTypes, Chained, List
  <2>5. /\ base \in [Chunks -> Nat] /\ base[old] \in Nat /\ base[last] \in Nat /\ old # last
        /\ next \in [Chunks -> Chunks \cup {NULL, Wild}]
        /\ prev \in [Chunks -> Chunks \cup {NULL, Wild}]
    <3>1. base \in [Chunks -> Nat]
      BY <1>2 DEF ChunkTypes
    <3>2. base[old] \in Nat /\ base[last] \in Nat
      BY <2>2, <2>4, <3>1
    <3>3. old # last
      BY <1>2, <2>3, <3>2
    <3> QED BY <1>2, <3>1, <3>2, <3>3 DEF ChunkTypes
  <2>6. Owned' = Owned /\ old \notin Owned /\ List' = List \ {old}
    BY <1>1, <2>1, <2>4 DEF Owned, List
  <2>7. /\ \A b \in Chunks : b # old /\ b # last => next'[b] = next[b]
        /\ \A b \in Chunks : b # old => prev'[b] = prev[b]
    BY <2>1, <2>3, <2>4, <2>5
  <2> HIDE DEF old, last
  <2>8. ChunkTypes'
    <3>1. heap' \in SUBSET Chunks
      BY <1>2, <2>1 DEF ChunkTypes
    <3>2. next' \in [Chunks -> Chunks \cup {NULL, Wild}]
      BY <2>1, <2>5
    <3>3. prev' \in [Chunks -> Chunks \cup {NULL, Wild}]
      BY <2>1, <2>5
    <3>4. values' \in [Chunks -> [0 .. N - 1 -> Nat]]
      <4>1. Garbage \in Nat
        BY SizeFacts DEF Garbage
      <4>2. Fresh \in [0 .. N - 1 -> Nat]
        BY <4>1 DEF Fresh
      <4>3. values \in [Chunks -> [0 .. N - 1 -> Nat]]
        BY <1>2 DEF ChunkTypes
      <4> QED BY <2>1, <4>2, <4>3
    <3> QED BY <1>1, <1>2, <1>3, <3>1, <3>2, <3>3, <3>4 DEF ChunkTypes
  <2>9. Owners'
    <3>1. Owned' \subseteq heap'
      BY <1>2, <2>1, <2>6 DEF Owners
    <3> QED BY <1>1, <1>2, <3>1 DEF Owners
  <2>10. /\ \A b \in List : base[front[1]] <= base[b] /\ base[b] <= base[old] /\ base[b] \in Nat
         /\ \A b, d \in List : b # d => base[b] + N <= base[d] \/ base[d] + N <= base[b]
         /\ \A b \in List : b # old => next[b] \in List /\ base[next[b]] = base[b] + N
         /\ \A b \in List : b # front[1] =>
              prev[b] \in List /\ prev[b] # old /\ next[prev[b]] = b
    BY <1>2, <2>4, <2>5 DEF Chained, old
  <2>11. next[last] = old
    BY <2>3, <2>4, <2>10 DEF old, last
  <2>12. \A b \in List' : base[b] <= base[last]
    <3> SUFFICES ASSUME NEW b \in List, b # old PROVE base[b] <= base[last]
      BY <2>6
    <3>1. base[b] + N <= base[old] \/ base[old] + N <= base[b]
      BY <2>4, <2>10
    <3> QED BY <1>2, <2>3, <2>5, <2>10, <3>1
  <2>13. Chained'
    <3>1. last \in List' /\ front[1] \in List'
      BY <2>3, <2>4, <2>5, <2>6
    <3>2. \A b \in List' : b # last => next'[b] \in List' /\ base[next'[b]] = base[b] + N
      <4> SUFFICES ASSUME NEW b \in List, b # old, b # last
                   PROVE  next'[b] \in List \ {old} /\ base[next'[b]] = base[b] + N
        BY <2>6
      <4>1. next'[b] = next[b] /\ next[b] \in List /\ base[next[b]] = base[b] + N
        BY <2>4, <2>7, <2>10
      <4>2. base[b] + N <= base[last] \/ base[last] + N <= base[b]
        BY <2>4, <2>10
      <4>3. next[b] # old
        BY <1>2, <2>3, <2>5, <2>10, <4>1, <4>2
      <4> QED BY <4>1, <4>3
    <3>3. \A b \in List' : b # front[1] =>
            prev'[b] \in List' /\ prev'[b] # last /\ next'[prev'[b]] = b
      <4> SUFFICES ASSUME NEW b \in List, b # old, b # front[1]
                   PROVE  prev'[b] \in List \ {old} /\ prev'[b] # last /\ next'[prev'[b]] = b
        BY <2>6
      <4>1. prev'[b] = prev[b] /\ prev[b] \in List /\ prev[b] # old /\ next[prev[b]] = b
        BY <2>4, <2>7, <2>10
      <4>2. prev[b] # last
        BY <2>11, <4>1
      <4> QED BY <2>4, <2>7, <4>1, <4>2
    <3>4. UNCHANGED <<base, front>>
      BY <1>1
    <3> QED BY <2>3, <2>6, <2>10, <2>12, <3>1, <3>2, <3>3, <3>4 DEF Chained
  <2>14. Covered'
    <3> SUFFICES ASSUME NEW p \in Nat, base[front[1]] <= p, p < base[last] + N
                 PROVE  \E b \in List' : base[b] <= p /\ p < base[b] + N
      BY <1>1, <2>3 DEF Covered
    <3>1. p < base[old] /\ p < base[old] + N
      BY <1>2, <2>3, <2>5
    <3>2. PICK b \in List : base[b] <= p /\ p < base[b] + N
      BY <1>2, <3>1 DEF Covered, old
    <3>3. b # old
      BY <2>5, <2>10, <3>1, <3>2
    <3> QED BY <2>6, <3>2, <3>3
  <2>15. \A p \in Slots : p[1] \in List /\ Position(p) < base[old] => p[1] \in List'
    <3> SUFFICES ASSUME NEW p \in Slots, p[1] \in List, Position(p) < base[old]
                 PROVE  p[1] # old
      BY <2>6
    <3>1. Position(p) = base[p[1]] + p[2] /\ p[2] \in Nat
      BY SizeFacts DEF Position
    <3>2. p[1] = old => base[old] <= Position(p)
      BY <2>5, <3>1
    <3>3. Position(p) \in Nat
      BY SamePlace
    <3> QED BY <2>5, <3>2, <3>3
  <2>16. /\ Position(end) = base[old] /\ Position(back) < base[old]
    <3>1. Position(end) = base[old] + 0
      BY <2>2 DEF Position, old
    <3> QED BY <1>1, <2>5, <3>1, WayBack
  <2>17. back'[1] \in List' /\ w'[1] \in List' /\ f'[1] \in List'
    <3>1. Position(f) < base[old] /\ Position(w) < base[old]
      BY <1>1, <2>5, <2>16, WayBack
    <3>2. Position(Before(back)) < base[old]
      BY <1>1, <1>3, <2>5, <2>16, WayBack
    <3>3. f \in Slots /\ w \in Slots /\ f[1] \in List /\ w[1] \in List
      BY <1>2 DEF ChunkTypes, Pointers
    <3> QED BY <1>1, <1>3, <2>15, <3>1, <3>2, <3>3
  <2>18. r # NULL => r[1] \in List'
    <3> SUFFICES ASSUME r # NULL PROVE r[1] \in List'
      OBVIOUS
    <3>1. r \in Slots /\ r[1] \in List /\ Position(r) <= Position(w)
      BY <1>2 DEF ChunkTypes, Pointers
    <3>2. Position(r) < base[old]
      <4>1. Position(r) \in Nat
        BY <3>1, SamePlace
      <4> QED BY <1>1, <2>5, <2>16, <3>1, <4>1, WayBack
    <3> QED BY <2>15, <3>1, <3>2
  <2>19. Pointers'
    BY <1>1, <1>2, <1>4, <1>5, <2>17, <2>18 DEF Pointers, Growing
  <2> QED BY <2>8, <2>9, <2>13, <2>14, <2>19 DEF ChunkInv
<1> QED BY <1>6, <1>7

\* A reader that was told there is an item is behind what it was told.
LEMMA ItemAhead ==
  ASSUME ChunkInv, pcR \in {"copy", "pop"}
  PROVE  /\ r # NULL /\ r \in Slots /\ r[1] \in List /\ c = w /\ pcW # "set"
         /\ front \in Slots /\ front[1] \in List
         /\ Position(front) \in Nat /\ Position(r) \in Nat /\ Position(w) \in Nat
         /\ Position(f) \in Nat /\ Position(back) \in Nat /\ Position(end) \in Nat
         /\ Position(front) < Position(r) /\ Position(r) <= Position(w)
         /\ Position(w) <= Position(f) /\ Position(f) <= Position(back)
         /\ Position(back) <= Position(end)
<1>1. ChunkTypes /\ Chained /\ Pointers
  BY DEF ChunkInv
<1>2. r # NULL /\ front # r
  BY <1>1 DEF Pointers
<1>3. /\ back \in Slots /\ end \in Slots /\ f \in Slots /\ w \in Slots /\ front \in Slots
      /\ r \in Slots
  BY <1>1, <1>2 DEF ChunkTypes
<1>4. /\ back[1] \in List /\ end[1] \in List /\ f[1] \in List /\ w[1] \in List
      /\ front[1] \in List /\ r[1] \in List
  BY <1>1, <1>2 DEF Chained, Pointers
<1>5. /\ Position(front) \in Nat /\ Position(r) \in Nat /\ Position(w) \in Nat
      /\ Position(f) \in Nat /\ Position(back) \in Nat /\ Position(end) \in Nat
      /\ Position(front) # Position(r)
  BY <1>2, <1>3, <1>4, SamePlace
<1>6. /\ Position(front) <= Position(r) /\ Position(r) <= Position(w)
      /\ Position(w) <= Position(f) /\ Position(f) <= Position(back)
      /\ ~Growing => Position(end) = Position(back) + 1
      /\ Growing => back = end
  BY <1>1, <1>2 DEF Pointers
<1>7. Position(back) <= Position(end)
  BY <1>5, <1>6
<1>8. Position(front) < Position(r) /\ front # w
  BY <1>5, <1>6
<1>9. c = w /\ pcW # "set"
  BY <1>1, <1>8 DEF Pointers
<1> QED BY <1>2, <1>3, <1>4, <1>5, <1>6, <1>7, <1>8, <1>9

LEMMA PopWithinKeeps ==
  ASSUME ChunkInv, PopWithin
  PROVE  ChunkInv'
<1>1. /\ UNCHANGED <<heap, next, prev, values, spare, base, back, end, w, f, sc, pcW, writes>>
      /\ UNCHANGED <<r, held, value, c>>
      /\ pcR = "pop" /\ pcR' = "idle" /\ front[2] + 1 # N /\ front' = <<front[1], front[2] + 1>>
  BY DEF PopWithin, memoryVars, writerVars
<1>2. /\ ChunkTypes /\ Owners /\ Pointers /\ front[1] \in Chunks /\ front[2] \in 0 .. N - 1
      /\ N \in Nat
  BY <1>1, ItemAhead, SizeFacts DEF ChunkInv
<1>3. front' \in Slots /\ front'[1] = front[1] /\ front'[2] = front[2] + 1
  <2>1. front[2] + 1 \in 0 .. N - 1
    BY <1>1, <1>2
  <2> QED BY <1>1, <1>2, <2>1, SizeFacts
<1>4. ChunkTypes'
  BY <1>1, <1>2, <1>3 DEF ChunkTypes
<1>5. Owners'
  BY <1>1, <1>2 DEF Owners, Owned
<1>6. List' = List /\ Chained' /\ Covered'
  BY <1>1, <1>3, ListStays
<1>7. Pointers'
  <2>1. UNCHANGED <<Position(w), Position(f), Position(back), Position(end), Position(r)>>
    BY <1>1 DEF Position
  <2>2. Position(front)' = Position(front) + 1
    <3>1. base[front[1]] \in Nat
      BY <1>2 DEF ChunkTypes
    <3>2. Position(front)' = base[front[1]] + (front[2] + 1)
      BY <1>1, <1>3 DEF Position
    <3> QED BY <1>2, <3>1, <3>2 DEF Position
  <2>3. Position(front)' <= Position(r) /\ Position(front)' <= Position(w)
    BY <1>1, <2>2, ItemAhead
  <2>4. c' # NULL /\ pcW' # "set"
    <3>1. w # NULL
      BY <1>2, SizeFacts DEF ChunkTypes
    <3> QED BY <1>1, <3>1, ItemAhead
  <2> QED BY <1>1, <1>2, <1>6, <2>1, <2>3, <2>4 DEF Pointers, Growing
<1> QED BY <1>4, <1>5, <1>6, <1>7 DEF ChunkInv

\* No pointer stays behind in the chunk the reader leaves.
LEMMA NoneBehind ==
  ASSUME ChunkInv, pcR = "pop", front[2] + 1 = N
  PROVE  /\ \A p \in {r, w, f, back, end} : p \in Slots /\ p[1] \in List /\ p[1] # front[1]
         /\ next[front[1]] \in List /\ next[front[1]] # front[1]
         /\ base[next[front[1]]] = base[front[1]] + N /\ base[front[1]] \in Nat
<1>1. ChunkTypes /\ Chained /\ Pointers /\ N \in Nat /\ N >= 2
  BY SizeFacts DEF ChunkInv
<1>2. \A p \in {r, w, f, back, end} : p \in Slots /\ p[1] \in List
  <2>1. r \in Slots /\ r[1] \in List
    BY ItemAhead
  <2>2. w \in Slots /\ f \in Slots /\ back \in Slots /\ end \in Slots
    BY <1>1 DEF ChunkTypes
  <2>3. w[1] \in List /\ f[1] \in List /\ back[1] \in List /\ end[1] \in List
    BY <1>1 DEF Pointers, Chained
  <2> QED BY <2>1, <2>2, <2>3
<1>3. base[front[1]] \in Nat /\ Position(front) = base[front[1]] + (N - 1)
  <2>1. front[1] \in Chunks /\ front[2] \in Nat /\ base \in [Chunks -> Nat]
    <3>1. front \in Slots /\ base \in [Chunks -> Nat]
      BY <1>1 DEF ChunkTypes
    <3>2. front[1] \in Chunks /\ front[2] \in 0 .. N - 1
      BY <3>1, SizeFacts
    <3> QED BY <1>1, <3>1, <3>2
  <2>2. front[2] = N - 1
    BY <1>1, <2>1
  <2> QED BY <2>1, <2>2 DEF Position
<1>4. \A p \in {r, w, f, back, end} : Position(front) < Position(p) /\ Position(p) \in Nat
  BY ItemAhead
<1>5. ASSUME NEW p \in {r, w, f, back, end} PROVE p[1] # front[1]
  <2>1. Position(p) = base[p[1]] + p[2] /\ p[2] \in 0 .. N - 1
    BY <1>2, SizeFacts DEF Position
  <2>2. base[front[1]] + (N - 1) < base[p[1]] + p[2]
    BY <1>3, <1>4, <2>1
  <2>3. p[1] = front[1] => base[front[1]] + (N - 1) < base[front[1]] + p[2]
    BY <2>2
  <2> QED BY <1>1, <1>3, <2>1, <2>3
<1>6. end[1] # front[1] /\ front[1] \in List
  BY <1>1, <1>5 DEF Chained
<1>7. next[front[1]] \in List /\ base[next[front[1]]] = base[front[1]] + N
  BY <1>1, <1>6 DEF Chained
<1>8. next[front[1]] # front[1]
  BY <1>1, <1>3, <1>7
<1> QED BY <1>2, <1>3, <1>5, <1>7, <1>8

LEMMA PopLeavesKeeps ==
  ASSUME ChunkInv, PopLeavesChunk
  PROVE  ChunkInv'
<1>1. /\ UNCHANGED <<heap, next, values, spare, base, back, end, w, f, sc, pcW, writes>>
      /\ UNCHANGED <<r, value, c>>
      /\ pcR = "pop" /\ pcR' = "recycle" /\ front[2] + 1 = N
      /\ held' = front[1] /\ front' = <<next[front[1]], 0>>
      /\ prev' = [prev EXCEPT ![next[front[1]]] = NULL]
  BY DEF PopLeavesChunk, writerVars
<1> DEFINE old == front[1]
           new == next[front[1]]
<1>2. /\ new \in List /\ new # old /\ base[new] = base[old] + N /\ base[old] \in Nat
      /\ \A p \in {r, w, f, back, end} : p \in Slots /\ p[1] \in List /\ p[1] # old
  BY <1>1, NoneBehind
<1>3. /\ ChunkTypes /\ Owners /\ Chained /\ Covered /\ Pointers /\ N \in Nat /\ N >= 2
      /\ old \in List /\ held = NULL
  BY <1>1, SizeFacts DEF ChunkInv, Chained, Owners
<1>4. /\ List \subseteq Chunks /\ old \in Chunks /\ new \in Chunks /\ NULL \notin Chunks
      /\ front'[1] = new /\ front'[2] = 0 /\ held' = old /\ old # NULL
  <2>1. List \subseteq Chunks
    BY <1>3 DEF ChunkTypes, List
  <2>2. front'[1] = new /\ front'[2] = 0 /\ held' = old
    BY <1>1
  <2>3. old \in Chunks /\ new \in Chunks
    BY <1>2, <1>3, <2>1
  <2> QED BY <2>1, <2>2, <2>3, SizeFacts
<1>5. Owned' = Owned \cup {old} /\ old \notin Owned /\ List' = List \ {old}
  <2>1. Owned' = {spare, sc, old} \ {NULL} /\ Owned = {spare, sc, NULL} \ {NULL}
    BY <1>1, <1>3 DEF Owned
  <2>2. Owned' = Owned \cup {old}
    BY <1>4, <2>1
  <2> QED BY <1>1, <1>3, <2>2 DEF List
<1>6. \A b \in Chunks : b # new => prev'[b] = prev[b]
  <2>1. prev \in [Chunks -> Chunks \cup {NULL, Wild}]
    BY <1>3 DEF ChunkTypes
  <2> QED BY <1>1, <2>1
<1>7. ChunkTypes'
  <2>1. front' \in Slots
    <3>1. 0 \in 0 .. N - 1
      BY <1>3
    <3> QED BY <1>1, <1>4, <3>1, SizeFacts
  <2>2. prev' \in [Chunks -> Chunks \cup {NULL, Wild}]
    <3>1. prev \in [Chunks -> Chunks \cup {NULL, Wild}]
      BY <1>3 DEF ChunkTypes
    <3> QED BY <1>1, <3>1
  <2>3. held' \in Chunks \cup {NULL}
    BY <1>4
  <2> QED BY <1>1, <1>3, <2>1, <2>2, <2>3 DEF ChunkTypes
<1>8. Owners'
  <2>1. Owned' \subseteq heap'
    BY <1>1, <1>3, <1>5 DEF Owners, List
  <2>2. spare # NULL => spare # old
    BY <1>5 DEF Owned
  <2>3. sc # NULL => sc # old
    BY <1>5 DEF Owned
  <2> QED BY <1>1, <1>3, <1>4, <2>1, <2>2, <2>3 DEF Owners
<1>9. /\ \A b \in List : base[old] <= base[b] /\ base[b] <= base[end[1]]
      /\ \A b, d \in List : b # d => base[b] + N <= base[d] \/ base[d] + N <= base[b]
      /\ \A b \in List : b # end[1] => next[b] \in List /\ base[next[b]] = base[b] + N
      /\ \A b \in List : b # old => prev[b] \in List /\ prev[b] # end[1] /\ next[prev[b]] = b
      /\ \A b \in List : base[b] \in Nat
  <2>1. base \in [Chunks -> Nat]
    BY <1>3 DEF ChunkTypes
  <2>2. \A b \in List : base[b] \in Nat
    BY <1>4, <2>1
  <2> QED BY <1>3, <2>2 DEF Chained
<1> HIDE DEF old, new
<1>10. \A b \in List' : base[new] <= base[b]
  <2> SUFFICES ASSUME NEW b \in List, b # old PROVE base[new] <= base[b]
    BY <1>5
  <2>1. base[b] + N <= base[old] \/ base[old] + N <= base[b]
    BY <1>3, <1>9
  <2> QED BY <1>2, <1>3, <1>9, <2>1
<1>11. Chained'
  <2>1. new \in List' /\ end[1] \in List'
    BY <1>2, <1>5
  <2>2. \A b \in List' : b # end[1] => next[b] \in List' /\ base[next[b]] = base[b] + N
    <3> SUFFICES ASSUME NEW b \in List, b # end[1]
                 PROVE  next[b] \in List \ {old} /\ base[next[b]] = base[b] + N
      BY <1>5
    <3>1. next[b] \in List /\ base[next[b]] = base[b] + N /\ base[old] <= base[b]
      BY <1>9
    <3>2. next[b] # old
      BY <1>3, <1>9, <3>1
    <3> QED BY <3>1, <3>2
  <2>3. \A b \in List' : b # new =>
          prev'[b] \in List' /\ prev'[b] # end[1] /\ next[prev'[b]] = b
    <3> SUFFICES ASSUME NEW b \in List, b # old, b # new
                 PROVE  prev'[b] \in List \ {old} /\ prev'[b] # end[1] /\ next[prev'[b]] = b
      BY <1>5
    <3>1. prev'[b] = prev[b] /\ prev[b] \in List /\ prev[b] # end[1] /\ next[prev[b]] = b
      BY <1>4, <1>6, <1>9
    <3>2. prev[b] # old
      BY <3>1 DEF old, new
    <3> QED BY <3>1, <3>2
  <2>4. \A b, d \in List' : b # d => base[b] + N <= base[d] \/ base[d] + N <= base[b]
    BY <1>5, <1>9
  <2>5. \A b \in List' : base[new] <= base[b] /\ base[b] <= base[end[1]]
    BY <1>5, <1>9, <1>10
  <2>6. UNCHANGED <<next, base, end>>
    BY <1>1
  <2> QED BY <1>4, <2>1, <2>2, <2>3, <2>4, <2>5, <2>6 DEF Chained
<1>12. Covered'
  <2> SUFFICES ASSUME NEW p \in Nat, base[new] <= p, p < base[end[1]] + N
               PROVE  \E b \in List' : base[b] <= p /\ p < base[b] + N
    BY <1>1, <1>4 DEF Covered
  <2>1. base[old] <= p /\ ~(p < base[old] + N)
    BY <1>2, <1>3
  <2>2. PICK b \in List : base[b] <= p /\ p < base[b] + N
    BY <1>3, <2>1 DEF Covered, old
  <2>3. b # old
    BY <2>1, <2>2
  <2> QED BY <1>5, <2>2, <2>3
<1>13. Pointers'
  <2>1. UNCHANGED <<Position(w), Position(f), Position(back), Position(end), Position(r)>>
    BY <1>1 DEF Position
  <2>2. Position(front)' = Position(front) + 1
    <3>1. Position(front)' = base[new] + 0
      BY <1>1, <1>4 DEF Position
    <3>2. Position(front) = base[old] + front[2] /\ front[2] = N - 1
      <4>1. front[2] \in 0 .. N - 1
        BY <1>1, ItemAhead, SizeFacts
      <4>2. front[2] = N - 1
        BY <1>1, <1>3, <4>1
      <4> QED BY <4>2 DEF Position, old
    <3> QED BY <1>2, <1>3, <3>1, <3>2
  <2>3. Position(front)' <= Position(r) /\ Position(front)' <= Position(w)
    BY <1>1, <2>2, ItemAhead
  <2>4. c' # NULL /\ pcW' # "set"
    <3>1. w # NULL
      BY <1>3, SizeFacts DEF ChunkTypes
    <3> QED BY <1>1, <3>1, ItemAhead
  <2>5. back[1] \in List' /\ w[1] \in List' /\ f[1] \in List' /\ r[1] \in List'
    BY <1>2, <1>5
  <2> QED BY <1>1, <1>3, <2>1, <2>3, <2>4, <2>5 DEF Pointers, Growing
<1> QED BY <1>7, <1>8, <1>11, <1>12, <1>13 DEF ChunkInv

LEMMA PopRecyclesKeeps ==
  ASSUME ChunkInv, PopRecycles
  PROVE  ChunkInv'
<1>1. /\ UNCHANGED <<heap, next, prev, values, base, back, end, w, f, sc, pcW, writes>>
      /\ UNCHANGED <<front, r, value, c>>
      /\ pcR = "recycle" /\ pcR' = "free" /\ spare' = held /\ held' = spare
  BY DEF PopRecycles, writerVars
<1>2. ChunkTypes /\ Owners /\ Pointers
  BY DEF ChunkInv
<1>3. ChunkTypes'
  BY <1>1, <1>2 DEF ChunkTypes
<1>4. Owned' = Owned /\ List' = List
  BY <1>1 DEF Owned, List
<1>5. Owners'
  BY <1>1, <1>2, <1>4 DEF Owners
<1>6. Chained' /\ Covered'
  BY <1>1, <1>4 DEF ChunkInv, Chained, Covered
<1>7. Pointers'
  <2>1. UNCHANGED <<Position(front), Position(w), Position(f), Position(back),
                    Position(end), Position(r)>>
    BY <1>1 DEF Position
  <2> QED BY <1>1, <1>2, <1>4, <2>1 DEF Pointers, Growing
<1> QED BY <1>3, <1>5, <1>6, <1>7 DEF ChunkInv

LEMMA PopFreesKeeps ==
  ASSUME ChunkInv, PopFrees
  PROVE  ChunkInv'
<1>1. /\ UNCHANGED <<spare, base, back, end, w, f, sc, pcW, writes, front, r, value, c>>
      /\ pcR = "free" /\ pcR' = "idle" /\ held' = NULL
  BY DEF PopFrees, writerVars
<1>2. /\ ChunkTypes /\ Owners /\ Chained /\ Covered /\ Pointers
      /\ List \subseteq Chunks /\ end[1] \in List
  <2>1. ChunkTypes /\ Owners /\ Chained /\ Covered /\ Pointers
    BY DEF ChunkInv
  <2> QED BY <2>1 DEF ChunkTypes, Chained, List
<1>3. CASE held = NULL
  <2>1. UNCHANGED <<heap, next, prev, values, held>>
    BY <1>1, <1>3 DEF PopFrees
  <2>2. ChunkTypes'
    BY <1>1, <1>2, <2>1 DEF ChunkTypes
  <2>3. Owners'
    BY <1>1, <1>2, <1>3, <2>1 DEF Owners, Owned
  <2>4. List' = List /\ Chained' /\ Covered'
    BY <1>1, <2>1, ListStays
  <2>5. Pointers'
    <3>1. UNCHANGED <<Position(front), Position(w), Position(f), Position(back),
                      Position(end), Position(r)>>
      BY <1>1 DEF Position
    <3> QED BY <1>1, <1>2, <2>1, <2>4, <3>1 DEF Pointers, Growing
  <2> QED BY <2>2, <2>3, <2>4, <2>5 DEF ChunkInv
<1>4. CASE held # NULL
  <2>1. /\ heap' = heap \ {held} /\ values' = [values EXCEPT ![held] = Fresh]
        /\ prev' = [prev EXCEPT ![held] = Wild] /\ next' = [next EXCEPT ![held] = Wild]
    BY <1>1, <1>4 DEF PopFrees, Free
  <2>2. held \in Chunks /\ held \in Owned /\ held \in heap /\ held # spare /\ held # sc
    BY <1>2, <1>4 DEF ChunkTypes, Owners, Owned
  <2>3. Owned' = Owned \ {held} /\ List' = List /\ held \notin List
    <3>1. Owned' = Owned \ {held}
      BY <1>1, <2>2 DEF Owned
    <3> QED BY <2>1, <2>2, <3>1 DEF List
  <2>4. ChunkTypes'
    <3>1. heap' \in SUBSET Chunks
      BY <1>2, <2>1 DEF ChunkTypes
    <3>2. next' \in [Chunks -> Chunks \cup {NULL, Wild}]
          /\ prev' \in [Chunks -> Chunks \cup {NULL, Wild}]
      <4>1. next \in [Chunks -> Chunks \cup {NULL, Wild}]
            /\ prev \in [Chunks -> Chunks \cup {NULL, Wild}]
        BY <1>2 DEF ChunkTypes
      <4> QED BY <2>1, <4>1
    <3>3. values' \in [Chunks -> [0 .. N - 1 -> Nat]]
      <4>1. Garbage \in Nat
        BY SizeFacts DEF Garbage
      <4>2. Fresh \in [0 .. N - 1 -> Nat]
        BY <4>1 DEF Fresh
      <4>3. values \in [Chunks -> [0 .. N - 1 -> Nat]]
        BY <1>2 DEF ChunkTypes
      <4> QED BY <2>1, <4>2, <4>3
    <3> QED BY <1>1, <1>2, <3>1, <3>2, <3>3 DEF ChunkTypes
  <2>5. Owners'
    <3>1. Owned' \subseteq heap'
      BY <1>2, <2>1, <2>3 DEF Owners
    <3> QED BY <1>1, <1>2, <3>1 DEF Owners
  <2>6. \A a \in List : next'[a] = next[a] /\ prev'[a] = prev[a] /\ values'[a] = values[a]
    <3>1. /\ next \in [Chunks -> Chunks \cup {NULL, Wild}]
          /\ prev \in [Chunks -> Chunks \cup {NULL, Wild}]
          /\ values \in [Chunks -> [0 .. N - 1 -> Nat]]
      BY <1>2 DEF ChunkTypes
    <3> QED BY <1>2, <2>1, <2>3, <3>1
  <2>7. Chained'
    <3>1. \A a \in List : a # end[1] => next'[a] \in List /\ base[next'[a]] = base[a] + N
      BY <1>2, <2>6 DEF Chained
    <3>2. \A a \in List : a # front[1] =>
            prev'[a] \in List /\ prev'[a] # end[1] /\ next'[prev'[a]] = a
      BY <1>2, <2>6 DEF Chained
    <3> QED BY <1>1, <1>2, <2>3, <3>1, <3>2 DEF Chained
  <2>8. Covered'
    BY <1>1, <1>2, <2>3 DEF Covered
  <2>9. Pointers'
    <3>1. UNCHANGED <<Position(front), Position(w), Position(f), Position(back),
                      Position(end), Position(r)>>
      BY <1>1 DEF Position
    <3>2. values'[end[1]] = values[end[1]]
      BY <1>2, <2>6
    <3> QED BY <1>1, <1>2, <2>3, <3>1, <3>2 DEF Pointers, Growing
  <2> QED BY <2>4, <2>5, <2>7, <2>8, <2>9 DEF ChunkInv
<1> QED BY <1>3, <1>4
-----------------------------------------------------------------------------
(* The invariant and what follows                                          *)

LEMMA ChunksStart == Init => ChunkInv
<1> SUFFICES ASSUME Init PROVE ChunkInv
  OBVIOUS
<1>1. PICK first \in Chunks :
        /\ heap = {first} /\ base = [a \in Chunks |-> 0]
        /\ next = [a \in Chunks |-> Wild] /\ prev = [a \in Chunks |-> Wild]
        /\ values = [a \in Chunks |-> Fresh]
        /\ back = <<first, 0>> /\ end = <<first, 1>> /\ front = <<first, 0>>
        /\ w = <<first, 0>> /\ f = <<first, 0>> /\ r = <<first, 0>> /\ c = <<first, 0>>
  BY DEF Init
<1>2. /\ spare = NULL /\ sc = NULL /\ held = NULL /\ pcW = "idle" /\ pcR = "idle"
      /\ writes = 0 /\ value = 0
  BY DEF Init
<1>3. 0 \in 0 .. N - 1 /\ 1 \in 0 .. N - 1 /\ N \in Nat /\ N >= 2 /\ MaxWrites \in Nat
      /\ NULL \notin Chunks /\ NULL \notin Slots
  BY SizeFacts
<1>4. <<first, 0>> \in Slots /\ <<first, 1>> \in Slots
  BY <1>3, SizeFacts
<1>5. Fresh \in [0 .. N - 1 -> Nat]
  BY <1>3 DEF Fresh, Garbage
<1>6. base \in [Chunks -> Nat] /\ base[first] = 0
  BY <1>1
<1>7. ChunkTypes
  BY <1>1, <1>2, <1>3, <1>4, <1>5, <1>6 DEF ChunkTypes
<1>8. Owned = {} /\ List = {first}
  BY <1>1, <1>2 DEF Owned, List
<1>9. Owners
  BY <1>2, <1>8 DEF Owners
<1>10. front[1] = first /\ end[1] = first /\ end[2] = 1
  BY <1>1
<1>11. Chained
  BY <1>3, <1>6, <1>8, <1>10 DEF Chained
<1>12. Covered
  BY <1>6, <1>8, <1>10 DEF Covered
<1>13. Pointers
  <2>1. /\ Position(front) = 0 /\ Position(w) = 0 /\ Position(f) = 0 /\ Position(back) = 0
        /\ Position(r) = 0 /\ Position(end) = 1
    BY <1>1, <1>6 DEF Position
  <2>2. back[1] \in List /\ w[1] \in List /\ f[1] \in List /\ r[1] \in List
    BY <1>1, <1>8
  <2> QED BY <1>1, <1>2, <2>1, <2>2 DEF Pointers, Growing
<1> QED BY <1>7, <1>9, <1>11, <1>12, <1>13 DEF ChunkInv

LEMMA ChunksStutter ==
  ASSUME ChunkInv, UNCHANGED chunkVars
  PROVE  ChunkInv'
<1>1. /\ UNCHANGED <<heap, next, prev, values, spare, base, back, end, w, f, sc, pcW, writes>>
      /\ UNCHANGED <<front, r, held, pcR, value, c>>
  BY DEF chunkVars, memoryVars, writerVars, readerVars
<1>2. ChunkTypes /\ Owners /\ Chained /\ Covered /\ Pointers
  BY DEF ChunkInv
<1>3. Owned' = Owned /\ List' = List
  BY <1>1 DEF Owned, List
<1>4. ChunkTypes' /\ Owners' /\ Chained' /\ Covered'
  BY <1>1, <1>2, <1>3 DEF ChunkTypes, Owners, Chained, Covered
<1>5. UNCHANGED <<Position(front), Position(w), Position(f), Position(back),
                  Position(end), Position(r)>>
  BY <1>1 DEF Position
<1>6. Pointers'
  BY <1>1, <1>2, <1>3, <1>5 DEF Pointers, Growing
<1> QED BY <1>4, <1>6 DEF ChunkInv

\* The memory of the pipe stays in order: the chunks nobody holds form a
\* doubly linked list without gaps, and every pointer of yqueue.hpp and
\* ypipe.hpp points into it.
THEOREM ChunkInvariant == Spec => []ChunkInv
<1>1. Init => ChunkInv
  BY ChunksStart
<1>2. ChunkInv /\ [Next]_chunkVars => ChunkInv'
  <2> SUFFICES ASSUME ChunkInv, [Next]_chunkVars PROVE ChunkInv'
    OBVIOUS
  <2>1. ASSUME NEW incomplete \in BOOLEAN, Write(incomplete) PROVE ChunkInv'
    BY <2>1, WriteKeeps
  <2>2. CASE PushTakesSpare
    BY <2>2, PushTakesKeeps
  <2>3. CASE PushLinks
    BY <2>3, PushLinksKeeps
  <2>4. CASE Unwrite
    BY <2>4, UnwriteKeeps
  <2>5. CASE FlushAwake \/ FlushFindsAsleep \/ FlushSet
    BY <2>5, FlushKeeps
  <2>6. CASE CheckSucceeds \/ CheckFails \/ Copy
    BY <2>6, CheckKeeps
  <2>7. CASE PopWithin
    BY <2>7, PopWithinKeeps
  <2>8. CASE PopLeavesChunk
    BY <2>8, PopLeavesKeeps
  <2>9. CASE PopRecycles
    BY <2>9, PopRecyclesKeeps
  <2>10. CASE PopFrees
    BY <2>10, PopFreesKeeps
  <2>11. CASE UNCHANGED chunkVars
    BY <2>11, ChunksStutter
  <2> QED BY <2>1, <2>2, <2>3, <2>4, <2>5, <2>6, <2>7, <2>8, <2>9, <2>10, <2>11
          DEF Next, Writer, Reader
<1> QED BY <1>1, <1>2, PTL DEF Spec

\* Following next from the chunk being read meets the chunks nobody holds.
LEMMA ListIsMet ==
  ASSUME ChunkInv
  PROVE  InList = List
<1>1. ChunkTypes /\ Chained /\ N \in Nat /\ N >= 2
  BY SizeFacts DEF ChunkInv
<1>2. List \in SUBSET Chunks /\ front[1] \in List /\ end[1] \in List
  BY <1>1 DEF ChunkTypes, Chained, List
<1>3. \A a \in List : base[a] \in Nat /\ base[a] <= base[end[1]]
  BY <1>1, <1>2 DEF ChunkTypes, Chained
<1>4. \A a \in List : a # end[1] => next[a] \in List /\ base[a] < base[next[a]]
  <2> SUFFICES ASSUME NEW a \in List, a # end[1]
               PROVE  next[a] \in List /\ base[a] < base[next[a]]
    OBVIOUS
  <2>1. next[a] \in List /\ base[next[a]] = base[a] + N
    BY <1>1 DEF Chained
  <2> QED BY <1>1, <1>3, <2>1
<1>5. \A a \in List : a # front[1] =>
        prev[a] \in List /\ prev[a] # end[1] /\ next[prev[a]] = a
  BY <1>1 DEF Chained
<1>6. Met(front[1], end[1], next) = List
  <2>1. PICK L \in SUBSET Chunks : L = List
    BY <1>2
  <2>2. PICK first, last, nx, pv, bs :
          /\ first = front[1] /\ last = end[1] /\ nx = next /\ pv = prev /\ bs = base
          /\ first \in L /\ last \in L
    BY <1>2, <2>1
  <2>3. /\ L \in SUBSET Chunks /\ first \in L /\ last \in L
        /\ \A a \in L : bs[a] \in Nat /\ bs[a] <= bs[last]
        /\ \A a \in L : a # last => nx[a] \in L /\ bs[a] < bs[nx[a]]
        /\ \A a \in L : a # first => pv[a] \in L /\ pv[a] # last /\ nx[pv[a]] = a
    BY <1>2, <1>3, <1>4, <1>5, <2>1, <2>2
  <2>4. Met(first, last, nx) = L
    BY <2>3, WalkMeetsAll
  <2> QED BY <2>1, <2>2, <2>4
<1> QED BY <1>6, InListIsMet

LEMMA DisjointCount ==
  ASSUME NEW S, IsFiniteSet(S), NEW T, IsFiniteSet(T), S \cap T = {}
  PROVE  /\ IsFiniteSet(S \cup T)
         /\ Cardinality(S \cup T) = Cardinality(S) + Cardinality(T)
<1>1. Cardinality(S) \in Nat /\ Cardinality(T) \in Nat /\ Cardinality({}) = 0
  BY FS_CardinalityType, FS_EmptySet
<1>2. /\ IsFiniteSet(S \cup T)
      /\ Cardinality(S \cup T) = Cardinality(S) + Cardinality(T) - Cardinality(S \cap T)
  BY FS_Union
<1>3. Cardinality(S \cap T) = 0
  BY <1>1, Zenon
<1> QED BY <1>1, <1>2, <1>3

\* No chunk leaks, none that was freed is in use and none is used twice, in
\* the list of yqueue.hpp, through spare_chunk or by a thread in push or pop.
THEOREM NoChunkIsLost == Spec => []ChunksAccounted
<1>1. ChunkInv => ChunksAccounted
  <2> SUFFICES ASSUME ChunkInv PROVE ChunksAccounted
    OBVIOUS
  <2> DEFINE S == {spare} \ {NULL}
             T == {sc} \ {NULL}
             H == {held} \ {NULL}
  <2>1. /\ InList = List /\ end[1] \in List /\ Owned \subseteq heap
        /\ heap \subseteq Chunks
        /\ spare # NULL => spare # sc /\ spare # held
        /\ sc # NULL => sc # held
    BY ListIsMet DEF ChunkInv, ChunkTypes, Owners, Chained
  <2>2. Owned = (S \cup T) \cup H /\ S \cap T = {} /\ (S \cup T) \cap H = {}
    BY <2>1 DEF Owned
  <2>3. heap = ((List \cup S) \cup T) \cup H
    BY <2>1, <2>2 DEF List
  <2>4. List \cap S = {} /\ (List \cup S) \cap T = {} /\ ((List \cup S) \cup T) \cap H = {}
    BY <2>2 DEF List
  <2>5. IsFiniteSet(List) /\ IsFiniteSet(S) /\ IsFiniteSet(T) /\ IsFiniteSet(H)
    <3>1. IsFiniteSet({spare}) /\ IsFiniteSet({sc}) /\ IsFiniteSet({held})
      BY FS_Singleton
    <3>2. List \subseteq Chunks
      BY <2>1 DEF List
    <3> QED BY <3>1, <3>2, FS_Subset, FS_Difference, ChunksAssumption
  <2> HIDE DEF S, T, H
  <2>6. IsFiniteSet(List \cup S) /\ Cardinality(List \cup S) = Cardinality(List) + Cardinality(S)
    BY <2>4, <2>5, DisjointCount
  <2>7. /\ IsFiniteSet((List \cup S) \cup T)
        /\ Cardinality((List \cup S) \cup T) = Cardinality(List \cup S) + Cardinality(T)
    BY <2>4, <2>5, <2>6, DisjointCount
  <2>8. Cardinality(((List \cup S) \cup T) \cup H)
          = Cardinality((List \cup S) \cup T) + Cardinality(H)
    BY <2>4, <2>5, <2>7, DisjointCount
  <2>9. Cardinality(heap) = Cardinality(InList) + Cardinality(S) + Cardinality(T) + Cardinality(H)
    BY <2>1, <2>3, <2>6, <2>7, <2>8
  <2>10. heap = InList \cup S \cup T \cup H /\ end[1] \in InList
    BY <2>1, <2>3
  <2> QED BY <2>9, <2>10 DEF ChunksAccounted, S, T, H
<1> QED BY <1>1, ChunkInvariant, PTL

\* Equal pointers are the same position: no pointer of writer, reader or the
\* shared c is left in a chunk that is spare, freed or reused, and unpush finds
\* its way back over the border of a chunk.
THEOREM NoPointerDangles == Spec => []PositionsInList
<1>1. ChunkInv => PositionsInList
  <2> SUFFICES ASSUME ChunkInv PROVE PositionsInList
    OBVIOUS
  <2>1. InList = List /\ Pointers /\ w[1] \in List
    BY ListIsMet DEF ChunkInv, Pointers
  <2>2. PointersInList
    BY <2>1 DEF PointersInList, Pointers
  <2>3. UnwriteStaysInList
    <3> SUFFICES ASSUME pcW = "idle", f # back
                 PROVE  Before(back)[1] \in List /\ Before(end)[1] \in List
      BY <2>1 DEF UnwriteStaysInList
    <3> QED BY StepBack, WayBack
  <2> QED BY <2>2, <2>3 DEF PositionsInList
<1> QED BY <1>1, ChunkInvariant, PTL

-----------------------------------------------------------------------------
(* What the chunks hold                                                    *)

\* The item at each position, with the chunks L, their positions bs and their
\* memory vs.
ItemsIn(L, bs, vs) ==
  [p \in Nat |-> LET a == CHOOSE x \in L : bs[x] <= p /\ p < bs[x] + N
                 IN vs[a][p - bs[a]]]

StreamIn(L, bs, vs, from, to) ==
  [k \in 1 .. to - from |->
    LET p == from + k - 1
        a == CHOOSE x \in L : bs[x] <= p /\ p < bs[x] + N
    IN vs[a][p - bs[a]]]

LEMMA StreamIsStretch ==
  ASSUME NEW L, NEW bs, NEW vs, NEW from \in Nat, NEW to \in Nat
  PROVE  StreamIn(L, bs, vs, from, to) = Stretch(ItemsIn(L, bs, vs), from, to)
<1>1. \A k \in 1 .. to - from : from + k - 1 \in Nat
  OBVIOUS
<1> QED BY <1>1 DEF StreamIn, Stretch, ItemsIn

Apart(L, bs) ==
  /\ \A x \in L : bs[x] \in Nat
  /\ \A x, y \in L : x # y => bs[x] + N <= bs[y] \/ bs[y] + N <= bs[x]

\* Chunks that do not overlap determine the item at a position.
LEMMA ItemOf ==
  ASSUME NEW L, NEW bs, NEW vs, Apart(L, bs),
         NEW p \in Nat, NEW a \in L, bs[a] <= p, p < bs[a] + N
  PROVE  ItemsIn(L, bs, vs)[p] = vs[a][p - bs[a]]
<1>1. \A x \in L : bs[x] <= p /\ p < bs[x] + N => x = a
  <2> SUFFICES ASSUME NEW x \in L, bs[x] <= p, p < bs[x] + N, x # a
               PROVE  FALSE
    OBVIOUS
  <2>1. bs[x] \in Nat /\ bs[a] \in Nat /\ N \in Nat
    BY SizeFacts DEF Apart
  <2>2. bs[x] + N <= bs[a] \/ bs[a] + N <= bs[x]
    BY DEF Apart
  <2> QED BY <2>1, <2>2
<1>2. (CHOOSE x \in L : bs[x] <= p /\ p < bs[x] + N) = a
  BY <1>1
<1> QED BY <1>2 DEF ItemsIn

\* ... and a chunk that keeps its place and its memory keeps the item.
LEMMA ItemKept ==
  ASSUME NEW L, NEW bs, NEW vs, Apart(L, bs),
         NEW L1, NEW bs1, NEW vs1, Apart(L1, bs1),
         NEW p \in Nat, NEW a, a \in L, a \in L1,
         bs1[a] = bs[a], bs[a] <= p, p < bs[a] + N,
         vs1[a][p - bs[a]] = vs[a][p - bs[a]]
  PROVE  ItemsIn(L1, bs1, vs1)[p] = ItemsIn(L, bs, vs)[p]
<1>1. ItemsIn(L, bs, vs)[p] = vs[a][p - bs[a]]
  BY ItemOf
<1>2. ItemsIn(L1, bs1, vs1)[p] = vs1[a][p - bs1[a]]
  BY ItemOf
<1> QED BY <1>1, <1>2
-----------------------------------------------------------------------------
(* The pipe as its two users see it                                        *)

\* The reader has what it copied.
From == Position(front) + (IF pcR = "pop" THEN 1 ELSE 0)

Ordered ==
  /\ Apart(List, base)
  /\ From \in Nat /\ Position(w) \in Nat /\ Position(f) \in Nat /\ Written \in Nat
  /\ Position(front) \in Nat
  /\ From <= Position(w) /\ Position(w) <= Position(f) /\ Position(f) <= Written
  /\ base[front[1]] <= From /\ Written < base[end[1]] + N

Readable == ChunkInv /\ InList = List /\ Ordered

Items == ItemsIn(List, base, values)
Pending == Stream(Position(w), Written)
Visible == Stream(From, Position(w))
Put == IF pcW \in {"idle", "set"} THEN writes ELSE writes - 1

LEMMA StreamsAreOrdered == ChunkInv => Readable
<1> SUFFICES ASSUME ChunkInv PROVE Ordered
  BY ListIsMet DEF Readable
<1>1. /\ ChunkTypes /\ Chained /\ Pointers /\ N \in Nat /\ N >= 2
      /\ front \in Slots /\ back \in Slots /\ end \in Slots /\ w \in Slots /\ f \in Slots
      /\ front[1] \in List /\ back[1] \in List /\ end[1] \in List
      /\ w[1] \in List /\ f[1] \in List
  BY SizeFacts DEF ChunkInv, ChunkTypes, Chained, Pointers
<1>2. /\ Position(front) \in Nat /\ Position(w) \in Nat /\ Position(f) \in Nat
      /\ Position(back) \in Nat /\ Position(end) \in Nat
      /\ Position(front) = base[front[1]] + front[2]
      /\ Position(end) = base[end[1]] + end[2]
  BY <1>1, SamePlace
<1>3. front[2] \in Nat /\ end[2] \in Nat /\ end[2] < N /\ base[front[1]] \in Nat /\ base[end[1]] \in Nat
  <2>1. /\ front[1] \in Chunks /\ front[2] \in 0 .. N - 1
        /\ end[1] \in Chunks /\ end[2] \in 0 .. N - 1
    BY <1>1, SizeFacts
  <2>2. base \in [Chunks -> Nat]
    BY <1>1 DEF ChunkTypes
  <2> QED BY <1>1, <2>1, <2>2
<1>4. Apart(List, base)
  <2>1. List \subseteq Chunks /\ base \in [Chunks -> Nat]
    BY <1>1 DEF ChunkTypes, List
  <2> QED BY <1>1, <2>1 DEF Apart, Chained
<1>5. /\ Position(front) <= Position(w) /\ Position(w) <= Position(f)
      /\ Position(f) <= Position(back)
      /\ Growing => back = end /\ Position(f) < Position(back)
      /\ ~Growing => Position(end) = Position(back) + 1
  BY <1>1 DEF Pointers
<1>6. /\ Written \in Nat /\ Position(f) <= Written /\ Written <= Position(back)
  <2>1. CASE pcW \in {"idle", "set"}
    BY <1>2, <1>5, <2>1 DEF Written
  <2>2. CASE pcW \notin {"idle", "set"}
    BY <1>2, <1>5, <2>2 DEF Written, Growing
  <2> QED BY <2>1, <2>2
<1>7. Written < base[end[1]] + N
  <2>1. Position(back) <= Position(end)
    BY <1>2, <1>5
  <2> QED BY <1>1, <1>2, <1>3, <1>6, <2>1
<1>8. From \in Nat /\ base[front[1]] <= From /\ From <= Position(w)
  <2>1. CASE pcR = "pop"
    <3>1. Position(front) < Position(w)
      BY <1>2, <2>1, ItemAhead
    <3> QED BY <1>2, <1>3, <2>1, <3>1 DEF From
  <2>2. CASE pcR # "pop"
    BY <1>2, <1>3, <1>5, <2>2 DEF From
  <2> QED BY <2>1, <2>2
<1> QED BY <1>2, <1>4, <1>5, <1>6, <1>7, <1>8 DEF Ordered

LEMMA PipeContents ==
  ASSUME Readable, Readable'
  PROVE  /\ Pending = Stretch(Items, Position(w), Written)
         /\ Visible = Stretch(Items, From, Position(w))
         /\ Pending' = Stretch(Items', Position(w)', Written')
         /\ Visible' = Stretch(Items', From', Position(w)')
<1>1. /\ Pending = StreamIn(List, base, values, Position(w), Written)
      /\ Visible = StreamIn(List, base, values, From, Position(w))
  BY DEF Readable, Pending, Visible, Stream, StreamIn
<1>2. /\ Pending' = StreamIn(List', base', values', Position(w)', Written')
      /\ Visible' = StreamIn(List', base', values', From', Position(w)')
  BY DEF Readable, Pending, Visible, Stream, StreamIn
<1>3. /\ Position(w) \in Nat /\ Written \in Nat /\ From \in Nat
      /\ Position(w)' \in Nat /\ Written' \in Nat /\ From' \in Nat
  BY DEF Readable, Ordered
<1>4. Items = ItemsIn(List, base, values) /\ Items' = ItemsIn(List', base', values')
  BY DEF Items
<1>5. /\ Pending = Stretch(Items, Position(w), Written)
      /\ Visible = Stretch(Items, From, Position(w))
  BY <1>1, <1>3, <1>4, StreamIsStretch
<1>6. /\ Pending' = Stretch(Items', Position(w)', Written')
      /\ Visible' = Stretch(Items', From', Position(w)')
  BY <1>2, <1>3, <1>4, StreamIsStretch
<1> QED BY <1>5, <1>6

\* An item between reader and writer stays as long as its chunk does.
LEMMA ItemStays ==
  ASSUME Readable, Readable', NEW p \in Nat, From <= p, p < Written,
         \A a \in List : base[a] <= p /\ p < base[a] + N =>
           /\ a \in List' /\ base'[a] = base[a]
           /\ values'[a][p - base[a]] = values[a][p - base[a]]
  PROVE  Items'[p] = Items[p]
<1>1. base[front[1]] <= p /\ p < base[end[1]] + N
  <2>1. /\ base[front[1]] \in Nat /\ base[end[1]] \in Nat /\ N \in Nat
        /\ From \in Nat /\ Written \in Nat
        /\ base[front[1]] <= From /\ Written < base[end[1]] + N
    BY SizeFacts DEF Readable, Ordered, ChunkInv, Chained, Apart
  <2> QED BY <2>1
<1>2. PICK a \in List : base[a] <= p /\ p < base[a] + N
  BY <1>1 DEF Readable, ChunkInv, Covered
<1>3. Apart(List, base) /\ Apart(List', base')
  BY DEF Readable, Ordered
<1>4. ItemsIn(List', base', values')[p] = ItemsIn(List, base, values)[p]
  BY <1>2, <1>3, ItemKept
<1> QED BY <1>4 DEF Items

\* A step that moves no boundary and keeps the items is invisible.
LEMMA StepIsInvisible ==
  ASSUME Readable, Readable', Position(w)' = Position(w), Position(f)' = Position(f),
         From' = From, Written' = Written, Put' = Put, value' = value,
         \A p \in Nat : From <= p /\ p < Written => Items'[p] = Items[p]
  PROVE  UNCHANGED Pipe!fpVars
<1>1. /\ Position(w) \in Nat /\ Written \in Nat /\ From \in Nat
      /\ From <= Position(w) /\ Position(w) <= Written
  BY DEF Readable, Ordered
<1>2. Stretch(Items', Position(w), Written) = Stretch(Items, Position(w), Written)
  <2>1. \A p \in Nat : Position(w) <= p /\ p < Written => Items'[p] = Items[p]
    BY <1>1
  <2> QED BY <1>1, <2>1, StretchDependsOn
<1>3. Stretch(Items', From, Position(w)) = Stretch(Items, From, Position(w))
  <2>1. \A p \in Nat : From <= p /\ p < Position(w) => Items'[p] = Items[p]
    BY <1>1
  <2> QED BY <1>1, <2>1, StretchDependsOn
<1>4. Pending' = Pending /\ Visible' = Visible
  BY <1>2, <1>3, PipeContents
<1> QED BY <1>4 DEF Pipe!fpVars, Pending, Visible, From, Put
-----------------------------------------------------------------------------
(* Steps of the writer                                                     *)

\* The item at a slot of the list.
LEMMA ItemAtSlot ==
  ASSUME ChunkInv, Apart(List, base), NEW p \in Slots, p[1] \in List
  PROVE  Position(p) \in Nat /\ Items[Position(p)] = values[p[1]][p[2]]
<1>1. p[2] \in 0 .. N - 1 /\ N \in Nat /\ Position(p) = base[p[1]] + p[2] /\ Position(p) \in Nat
  BY SizeFacts, SamePlace
<1>2. base[p[1]] \in Nat
  BY DEF Apart
<1>3. PICK k \in Nat : k = Position(p)
  BY <1>1
<1>4. base[p[1]] <= k /\ k < base[p[1]] + N /\ k - base[p[1]] = p[2]
  BY <1>1, <1>2, <1>3
<1>5. ItemsIn(List, base, values)[k] = values[p[1]][k - base[p[1]]]
  BY <1>4, ItemOf
<1> QED BY <1>1, <1>3, <1>4, <1>5 DEF Items

LEMMA SameChunks ==
  ASSUME UNCHANGED <<heap, spare, sc, held, base, values>>
  PROVE  List' = List /\ Items' = Items
  BY DEF List, Owned, Items

\* write, wherever the slot after the item is.
LEMMA WriteSimulates ==
  ASSUME Readable, Readable', NEW incomplete \in BOOLEAN,
         Put < MaxWrites, Put' = Put + 1, Written' = Written + 1,
         Position(w)' = Position(w), From' = From, value' = value,
         Position(f)' = IF incomplete THEN Position(f) ELSE Written + 1,
         \A p \in Nat : From <= p /\ p < Written => Items'[p] = Items[p],
         Items'[Written] = Put + 1
  PROVE  Pipe!Write(incomplete)
<1>1. /\ Position(w) \in Nat /\ Position(f) \in Nat /\ Written \in Nat /\ From \in Nat
      /\ From <= Position(w) /\ Position(w) <= Written
  BY DEF Readable, Ordered
<1>2. Pending' = Append(Pending, Put + 1)
  <2>1. Stretch(Items', Position(w), Written + 1)
          = Append(Stretch(Items', Position(w), Written), Items'[Written])
    BY <1>1, StretchGrows
  <2>2. Stretch(Items', Position(w), Written) = Stretch(Items, Position(w), Written)
    <3>1. \A p \in Nat : Position(w) <= p /\ p < Written => Items'[p] = Items[p]
      BY <1>1
    <3> QED BY <1>1, <3>1, StretchDependsOn
  <2> QED BY <2>1, <2>2, PipeContents
<1>3. Visible' = Visible
  <2>1. \A p \in Nat : From <= p /\ p < Position(w) => Items'[p] = Items[p]
    BY <1>1
  <2>2. Stretch(Items', From, Position(w)) = Stretch(Items, From, Position(w))
    BY <1>1, <2>1, StretchDependsOn
  <2> QED BY <2>2, PipeContents
<1>4. Position(f)' - Position(w)'
        = IF incomplete THEN Position(f) - Position(w) ELSE Len(Pending) + 1
  <2>1. Len(Pending) = Written - Position(w)
    BY <1>1, PipeContents, StretchIsSequence
  <2> QED BY <1>1, <2>1
<1> QED BY <1>2, <1>3, <1>4 DEF Pipe!Write, Pending, Visible, From, Put

LEMMA WriteMaps ==
  ASSUME Readable, Readable', NEW incomplete \in BOOLEAN, Write(incomplete)
  PROVE  [Pipe!Next]_(Pipe!fpVars)
<1>1. /\ pcW = "idle" /\ writes < MaxWrites /\ writes' = writes + 1 /\ back' = end
      /\ values' = [values EXCEPT ![back[1]][back[2]] = writes + 1]
      /\ UNCHANGED <<heap, spare, base, w, sc, front, held, pcR, value>>
  BY DEF Write, readerVars
<1>2. /\ ChunkInv /\ Apart(List, base) /\ Apart(List', base') /\ ChunkInv'
      /\ back \in Slots /\ back[1] \in List /\ N \in Nat
      /\ Position(back) \in Nat /\ Position(end) = Position(back) + 1
      /\ Position(w) \in Nat /\ Position(f) \in Nat /\ From \in Nat
      /\ values \in [Chunks -> [0 .. N - 1 -> Nat]] /\ writes \in Nat
      /\ back[1] \in Chunks /\ back[2] \in 0 .. N - 1
  <2>1. ChunkInv /\ Apart(List, base) /\ Apart(List', base') /\ ChunkInv'
    BY DEF Readable, Ordered
  <2>2. back \in Slots /\ back[1] \in List
    BY <2>1 DEF ChunkInv, ChunkTypes, Pointers
  <2>3. Position(end) = Position(back) + 1
    BY <1>1, <2>1 DEF ChunkInv, Pointers, Growing
  <2>4. values \in [Chunks -> [0 .. N - 1 -> Nat]] /\ writes \in Nat
    <3>1. ChunkTypes /\ MaxWrites \in Nat
      BY <2>1, SizeFacts DEF ChunkInv
    <3>2. writes \in 0 .. MaxWrites
      BY <3>1 DEF ChunkTypes
    <3>3. writes \in Nat
      BY <3>1, <3>2
    <3> QED BY <3>1, <3>3 DEF ChunkTypes
  <2> QED BY <2>1, <2>2, <2>3, <2>4, SamePlace, SizeFacts DEF Readable, Ordered
<1>3. /\ List' = List /\ Position(w)' = Position(w) /\ From' = From
      /\ Position(back)' = Position(end) /\ Position(end) = base[end[1]] + end[2]
  BY <1>1 DEF List, Owned, From, Position
<1>4. Written = Position(back) /\ Put = writes
  BY <1>1 DEF Written, Put
<1>5. \A p \in Nat : From <= p /\ p < Written => Items'[p] = Items[p]
  <2> SUFFICES ASSUME NEW p \in Nat, From <= p, p < Written PROVE Items'[p] = Items[p]
    OBVIOUS
  <2>1. ASSUME NEW a \in List, base[a] <= p, p < base[a] + N
        PROVE  values'[a][p - base[a]] = values[a][p - base[a]]
    <3>1. base[a] \in Nat /\ a \in Chunks
      BY <1>2 DEF Apart, ChunkInv, ChunkTypes, List
    <3>2. CASE a = back[1]
      <4>1. p - base[a] \in 0 .. N - 1
        BY <1>2, <2>1, <3>1
      <4>2. p - base[a] # back[2]
        <5>1. Position(back) = base[a] + back[2]
          BY <3>2 DEF Position
        <5> QED BY <1>2, <1>4, <3>1, <5>1
      <4> QED BY <1>1, <1>2, <3>2, <4>1, <4>2
    <3>3. CASE a # back[1]
      BY <1>1, <1>2, <3>1, <3>3
    <3> QED BY <3>2, <3>3
  <2> QED BY <1>1, <1>3, <2>1, ItemStays
<1>6. CASE end[2] + 1 # N
  <2>1. /\ pcW' = pcW /\ f' = IF incomplete THEN f ELSE end
    BY <1>6 DEF Write
  <2>2. /\ Written' = Written + 1 /\ Put' = Put + 1
        /\ Position(f)' = IF incomplete THEN Position(f) ELSE Written + 1
    <3>1. Written' = Position(back)' /\ Put' = writes'
      BY <1>1, <2>1 DEF Written, Put
    <3>2. Position(f)' = IF incomplete THEN Position(f) ELSE Position(end)
      BY <1>1, <2>1 DEF Position
    <3> QED BY <1>1, <1>2, <1>3, <1>4, <3>1, <3>2
  <2>3. Items'[Written] = Put + 1
    <3>1. PICK k \in Nat : k = Position(back)
      BY <1>2
    <3>2. base[back[1]] \in Nat /\ k = base[back[1]] + back[2]
      BY <1>2, <3>1 DEF Position, Apart
    <3>3. base'[back[1]] <= k /\ k < base'[back[1]] + N /\ k - base'[back[1]] = back[2]
      <4>1. base'[back[1]] = base[back[1]]
        BY <1>1
      <4> QED BY <1>2, <3>2, <4>1
    <3>4. ItemsIn(List', base', values')[k] = values'[back[1]][k - base'[back[1]]]
      BY <1>2, <1>3, <3>3, ItemOf
    <3>5. values'[back[1]][back[2]] = writes + 1
      BY <1>1, <1>2
    <3> QED BY <1>4, <3>1, <3>3, <3>4, <3>5 DEF Items
  <2>4. Pipe!Write(incomplete)
    BY <1>1, <1>3, <1>4, <1>5, <2>2, <2>3, WriteSimulates
  <2> QED BY <2>4 DEF Pipe!Next
<1>7. CASE end[2] + 1 = N
  <2>1. pcW' \notin {"idle", "set"} /\ f' = f
    BY <1>7 DEF Write
  <2>2. Written' = Position(back)' - 1 /\ Put' = writes' - 1 /\ Position(f)' = Position(f)
    BY <1>1, <2>1 DEF Written, Put, Position
  <2>3. Written' = Written /\ Put' = Put
    BY <1>1, <1>2, <1>3, <1>4, <2>2
  <2>4. UNCHANGED Pipe!fpVars
    BY <1>1, <1>3, <1>5, <2>2, <2>3, StepIsInvisible
  <2> QED BY <2>4
<1> QED BY <1>6, <1>7
LEMMA PushTakesMaps ==
  ASSUME Readable, Readable', PushTakesSpare
  PROVE  UNCHANGED Pipe!fpVars
<1>1. /\ pcW \in {"spare", "spare incomplete"} /\ sc' = spare /\ spare' = NULL
      /\ pcW' \in {"link", "link incomplete"}
      /\ UNCHANGED <<heap, values, base, back, w, f, writes, front, pcR, held, value>>
  BY DEF PushTakesSpare, readerVars
<1>2. sc = NULL
  BY <1>1 DEF Readable, ChunkInv, Owners
<1>3. List' = List /\ Items' = Items
  <2>1. Owned' = Owned
    BY <1>1, <1>2 DEF Owned
  <2> QED BY <1>1, <2>1 DEF List, Items
<1>4. /\ Position(w)' = Position(w) /\ Position(f)' = Position(f) /\ From' = From
      /\ Written' = Written /\ Put' = Put
  BY <1>1 DEF Position, From, Written, Put
<1> QED BY <1>1, <1>3, <1>4, StepIsInvisible

LEMMA PushLinksMaps ==
  ASSUME Readable, Readable', PushLinks
  PROVE  [Pipe!Next]_(Pipe!fpVars)
<1>1. PICK a \in IF sc # NULL THEN {sc} ELSE Chunks \ heap :
        /\ heap' = heap \cup {a}
        /\ base' = [base EXCEPT ![a] = base[end[1]] + N]
  BY DEF PushLinks
<1>2. /\ pcW \in {"link", "link incomplete"} /\ pcW' = "idle" /\ sc' = NULL
      /\ f' = IF pcW = "link" THEN back ELSE f
      /\ UNCHANGED <<values, spare, back, w, writes, front, held, pcR, value>>
  BY DEF PushLinks, readerVars
<1>3. /\ ChunkTypes /\ Owners /\ Pointers /\ Apart(List, base) /\ Apart(List', base')
      /\ N \in Nat /\ N >= 2 /\ List \subseteq heap /\ back = end /\ end[2] = N - 1
      /\ values[end[1]][N - 2] = writes /\ end[1] \in List /\ end \in Slots
      /\ Position(end) \in Nat /\ writes \in 0 .. MaxWrites /\ MaxWrites \in Nat
      /\ Position(end) = base[end[1]] + (N - 1) /\ base[end[1]] \in Nat
  <2>1. ChunkTypes /\ Owners /\ Pointers /\ Chained
    BY DEF Readable, ChunkInv
  <2>2. Apart(List, base) /\ Apart(List', base') /\ List \subseteq heap
    BY DEF Readable, Ordered, List
  <2>3. /\ back = end /\ end[2] = N - 1 /\ values[end[1]][N - 2] = writes
        /\ end[1] \in List /\ end \in Slots /\ writes \in 0 .. MaxWrites
    BY <1>2, <2>1 DEF Pointers, Growing, Chained, ChunkTypes
  <2>4. Position(end) \in Nat
    BY <2>3, SamePlace DEF Readable
  <2>5. Position(end) = base[end[1]] + (N - 1)
    BY <2>3 DEF Position
  <2>6. base[end[1]] \in Nat
    BY <2>2, <2>3 DEF Apart
  <2> QED BY <2>1, <2>2, <2>3, <2>4, <2>5, <2>6, SizeFacts
<1>4. a \notin List /\ List \subseteq List'
  <2>1. a \notin List
    BY <1>1, <1>3 DEF List, Owned
  <2>2. Owned' \subseteq Owned
    BY <1>2 DEF Owned
  <2> QED BY <1>1, <2>1, <2>2 DEF List
<1>5. /\ \A b \in List : base'[b] = base[b]
      /\ w[1] \in List /\ f[1] \in List /\ front[1] \in List
  <2>1. List \subseteq Chunks /\ base \in [Chunks -> Nat]
    BY <1>3 DEF ChunkTypes
  <2> QED BY <1>1, <1>3, <1>4, <2>1 DEF Pointers, Readable, ChunkInv, Chained
<1>6. /\ Position(w)' = Position(w) /\ From' = From
      /\ Position(back)' = Position(end)
      /\ Position(f)' = IF pcW = "link" THEN Position(end) ELSE Position(f)
  <2>1. Position(w)' = Position(w) /\ Position(front)' = Position(front)
    BY <1>2, <1>5 DEF Position
  <2>2. Position(back)' = Position(end)
    BY <1>2, <1>3, <1>5 DEF Position
  <2>3. Position(f)' = IF pcW = "link" THEN Position(end) ELSE Position(f)
    <3>1. CASE pcW = "link"
      BY <1>2, <1>3, <1>5, <3>1 DEF Position
    <3>2. CASE pcW # "link"
      BY <1>2, <1>5, <3>2 DEF Position
    <3> QED BY <3>1, <3>2
  <2> QED BY <1>2, <2>1, <2>2, <2>3 DEF From
<1>7. /\ Written = Position(end) - 1 /\ Written' = Position(end)
      /\ Put = writes - 1 /\ Put' = writes
  <2>1. Written = Position(end) - 1 /\ Put = writes - 1
    BY <1>2, <1>3 DEF Written, Put
  <2>2. Written' = Position(back)' /\ Put' = writes
    BY <1>2 DEF Written, Put
  <2> QED BY <1>6, <2>1, <2>2
<1>8. \A p \in Nat : From <= p /\ p < Written => Items'[p] = Items[p]
  BY <1>2, <1>4, <1>5, ItemStays
<1>9. Items'[Written] = Put + 1
  <2>1. PICK k \in Nat : k = Written
    BY DEF Readable, Ordered
  <2>2. k = base[end[1]] + (N - 2)
    BY <1>3, <1>7, <2>1
  <2>3. end[1] \in List' /\ base'[end[1]] = base[end[1]]
    BY <1>3, <1>4, <1>5
  <2>4. base'[end[1]] <= k /\ k < base'[end[1]] + N /\ k - base'[end[1]] = N - 2
    BY <1>3, <2>2, <2>3
  <2>5. ItemsIn(List', base', values')[k] = values'[end[1]][k - base'[end[1]]]
    BY <1>3, <2>3, <2>4, ItemOf
  <2>6. values'[end[1]][N - 2] = Put + 1
    <3>1. Put + 1 = writes
      BY <1>3, <1>7
    <3> QED BY <1>2, <1>3, <3>1
  <2> QED BY <2>1, <2>4, <2>5, <2>6 DEF Items
<1>10. PICK incomplete \in BOOLEAN : incomplete <=> pcW # "link"
  OBVIOUS
<1>11. Position(f)' = IF incomplete THEN Position(f) ELSE Written + 1
  BY <1>3, <1>6, <1>7, <1>10
<1>12. Put < MaxWrites /\ Put' = Put + 1 /\ Written' = Written + 1
  BY <1>3, <1>7
<1>13. Pipe!Write(incomplete)
  BY <1>2, <1>6, <1>8, <1>9, <1>11, <1>12, WriteSimulates
<1> QED BY <1>13 DEF Pipe!Next

LEMMA UnwriteMaps ==
  ASSUME Readable, Readable', Unwrite
  PROVE  [Pipe!Next]_(Pipe!fpVars)
<1>1. /\ pcW = "idle" /\ f # back /\ back' = Before(back)
      /\ UNCHANGED <<spare, base, w, f, sc, pcW, writes, front, held, pcR, value>>
  BY DEF Unwrite, readerVars
<1>2. /\ ChunkInv /\ Apart(List, base) /\ N \in Nat
      /\ Position(end) = Position(back) + 1 /\ Position(f) < Position(back)
      /\ Position(w) <= Position(f) /\ From <= Position(w)
      /\ Position(w) \in Nat /\ Position(f) \in Nat /\ Position(back) \in Nat /\ From \in Nat
      /\ end[1] \in List /\ end \in Slots
      /\ Position(Before(back)) = Position(back) - 1
  BY <1>1, WayBack, StepBack, SizeFacts DEF Readable, Ordered
<1>3. /\ Written = Position(back) /\ Written' = Written - 1 /\ Put' = Put
      /\ Position(w)' = Position(w) /\ Position(f)' = Position(f) /\ From' = From
  <2>1. Position(back)' = Position(Before(back))
    BY <1>1 DEF Position
  <2>2. Written = Position(back) /\ Written' = Position(back)'
    BY <1>1 DEF Written
  <2>3. /\ Position(w)' = Position(w) /\ Position(f)' = Position(f) /\ From' = From
        /\ Put' = Put
    BY <1>1 DEF Position, From, Put
  <2> QED BY <1>2, <2>1, <2>2, <2>3
<1>4. \A p \in Nat : From <= p /\ p < Written => Items'[p] = Items[p]
  <2>1. CASE end[2] > 0
    <3>1. Items' = Items
      BY <1>1, <2>1, SameChunks DEF Unwrite
    <3> QED BY <3>1
  <2>2. CASE ~(end[2] > 0)
    <3>1. heap' = heap \ {end[1]} /\ values' = [values EXCEPT ![end[1]] = Fresh]
      BY <2>2 DEF Unwrite, Free
    <3>2. base[end[1]] = Position(end)
      <4>1. end[2] = 0 /\ base[end[1]] \in Nat
        BY <1>2, <2>2, SizeFacts DEF Apart
      <4> QED BY <4>1 DEF Position
    <3>3. List \ {end[1]} \subseteq List'
      BY <1>1, <3>1 DEF List, Owned
    <3>4. values \in [Chunks -> [0 .. N - 1 -> Nat]] /\ List \subseteq Chunks
      BY <1>2 DEF ChunkInv, ChunkTypes, List
    <3> SUFFICES ASSUME NEW p \in Nat, From <= p, p < Written PROVE Items'[p] = Items[p]
      OBVIOUS
    <3>5. ASSUME NEW a \in List, base[a] <= p, p < base[a] + N
          PROVE  a \in List' /\ values'[a] = values[a]
      <4>1. a # end[1]
        <5>1. base[a] \in Nat
          BY <1>2 DEF Apart
        <5> QED BY <1>2, <1>3, <3>2, <3>5, <5>1
      <4> QED BY <3>1, <3>3, <3>4, <4>1
    <3> QED BY <1>1, <3>5, ItemStays
  <2> QED BY <2>1, <2>2
<1>5. Position(w) < Written /\ Position(w) <= Written /\ Position(w) <= Written - 1 /\ Written - 1 \in Nat
  BY <1>2, <1>3
<1>6. IsFront(Pending, Pending')
  <2>1. IsFront(Stretch(Items, Position(w), Written), Stretch(Items, Position(w), Written - 1))
    BY <1>2, <1>3, <1>5, StretchCut
  <2>2. Stretch(Items', Position(w), Written - 1) = Stretch(Items, Position(w), Written - 1)
    <3>1. \A p \in Nat : Position(w) <= p /\ p < Written - 1 => Items'[p] = Items[p]
      BY <1>2, <1>3, <1>4
    <3> QED BY <1>2, <1>5, <3>1, StretchDependsOn
  <2> QED BY <1>3, <2>1, <2>2, PipeContents
<1>7. Visible' = Visible
  <2>1. \A p \in Nat : From <= p /\ p < Position(w) => Items'[p] = Items[p]
    BY <1>2, <1>3, <1>4
  <2>2. Stretch(Items', From, Position(w)) = Stretch(Items, From, Position(w))
    BY <1>2, <2>1, StretchDependsOn
  <2> QED BY <1>3, <2>2, PipeContents
<1>8. Len(Pending) > Position(f) - Position(w)
  <2>1. Written \in Nat
    BY <1>2, <1>3
  <2>2. Len(Stretch(Items, Position(w), Written)) = Written - Position(w)
    BY <1>2, <1>5, <2>1, StretchIsSequence
  <2>3. Len(Pending) = Written - Position(w)
    BY <2>2, PipeContents
  <2> QED BY <1>2, <1>3, <2>3
<1>9. Pipe!Unwrite
  BY <1>1, <1>3, <1>6, <1>7, <1>8 DEF Pipe!Unwrite, IsFront, Pending, Visible, From, Put
<1> QED BY <1>9 DEF Pipe!Next
\* A flush, however it gets its pointer into c.
LEMMA FlushMaps ==
  ASSUME Readable, Readable', FlushAwake \/ FlushSet
  PROVE  [Pipe!Next]_(Pipe!fpVars)
<1>1. /\ pcW \in {"idle", "set"} /\ pcW' \in {"idle", "set"} /\ w' = f
      /\ UNCHANGED <<heap, values, base, spare, sc, held, back, f, writes, front, pcR, value>>
  BY DEF FlushAwake, FlushSet, memoryVars, readerVars
<1>2. /\ Position(w)' = Position(f) /\ Position(f)' = Position(f) /\ From' = From
      /\ Written' = Written /\ Put' = Put /\ Items' = Items
  BY <1>1, SameChunks DEF Position, From, Written, Put
<1>3. /\ Position(w) \in Nat /\ Position(f) \in Nat /\ Written \in Nat /\ From \in Nat
      /\ From <= Position(w) /\ Position(w) <= Position(f) /\ Position(f) <= Written
  BY DEF Readable, Ordered
<1>4. Moves(Stretch(Items, From, Position(w)), Stretch(Items, Position(w), Written),
            Position(f) - Position(w),
            Stretch(Items, From, Position(f)), Stretch(Items, Position(f), Written))
  BY <1>3, StretchMoves
<1>5. Moves(Visible, Pending, Position(f) - Position(w), Visible', Pending')
  BY <1>2, <1>4, PipeContents
<1>6. Position(f)' - Position(w)' = 0
  BY <1>2, <1>3
<1>7. Pipe!Flush
  BY <1>1, <1>2, <1>5, <1>6 DEF Pipe!Flush, Moves, Pending, Visible, From, Put
<1> QED BY <1>7 DEF Pipe!Next

LEMMA PointersMap ==
  ASSUME Readable, Readable',
         FlushFindsAsleep \/ CheckSucceeds \/ CheckFails \/ UNCHANGED chunkVars
  PROVE  UNCHANGED Pipe!fpVars
<1>1. /\ UNCHANGED <<heap, values, base, spare, sc, held, back, w, f, writes, front, value>>
      /\ pcW \in {"idle", "set"} <=> pcW' \in {"idle", "set"}
      /\ pcR = "pop" <=> pcR' = "pop"
  BY DEF FlushFindsAsleep, CheckSucceeds, CheckFails, chunkVars, memoryVars, readerVars,
         writerVars
<1>2. /\ Position(w)' = Position(w) /\ Position(f)' = Position(f) /\ From' = From
      /\ Written' = Written /\ Put' = Put /\ Items' = Items
  BY <1>1, SameChunks DEF Position, From, Written, Put
<1> QED BY <1>1, <1>2, StepIsInvisible

-----------------------------------------------------------------------------
(* Steps of the reader                                                     *)

LEMMA CopyMaps ==
  ASSUME Readable, Readable', Copy
  PROVE  [Pipe!Next]_(Pipe!fpVars)
<1>1. /\ pcR = "copy" /\ pcR' = "pop" /\ value' = values[front[1]][front[2]]
      /\ UNCHANGED <<heap, values, base, spare, sc, held, back, w, f, writes, front, pcW>>
  BY DEF Copy, memoryVars, writerVars
<1>2. /\ ChunkInv /\ Apart(List, base) /\ front \in Slots /\ front[1] \in List
      /\ Position(front) \in Nat /\ Position(w) \in Nat /\ Written \in Nat
      /\ Position(front) < Position(w)
  BY <1>1, ItemAhead DEF Readable, Ordered
<1>3. /\ Position(w)' = Position(w) /\ Position(f)' = Position(f) /\ Written' = Written
      /\ Put' = Put /\ Items' = Items /\ Position(front)' = Position(front)
  BY <1>1, SameChunks DEF Position, Written, Put
<1>4. From = Position(front) /\ From' = Position(front) + 1
  BY <1>1, <1>2, <1>3 DEF From
<1>5. value' = Items[Position(front)]
  BY <1>1, <1>2, ItemAtSlot
<1>6. /\ Visible # <<>> /\ value' = Head(Visible) /\ Visible' = Tail(Visible)
  <2>1. /\ Stretch(Items, From, Position(w)) # <<>>
        /\ Head(Stretch(Items, From, Position(w))) = Items[From]
        /\ Tail(Stretch(Items, From, Position(w))) = Stretch(Items, From + 1, Position(w))
    BY <1>2, <1>4, StretchShrinks
  <2> QED BY <1>3, <1>4, <1>5, <2>1, PipeContents
<1>7. Pending' = Pending
  BY <1>3, PipeContents
<1>8. Pipe!Read
  BY <1>1, <1>3, <1>6, <1>7 DEF Pipe!Read, Pending, Visible, From, Put
<1> QED BY <1>8 DEF Pipe!Next

\* pop moves the reader past what it copied, in its chunk or to the next.
LEMMA PopMaps ==
  ASSUME Readable, Readable', PopWithin \/ PopLeavesChunk
  PROVE  UNCHANGED Pipe!fpVars
<1>1. /\ pcR = "pop" /\ pcR' # "pop"
      /\ UNCHANGED <<heap, values, base, spare, sc, back, w, f, writes, pcW, value>>
  BY DEF PopWithin, PopLeavesChunk, memoryVars, writerVars
<1>2. /\ Position(w)' = Position(w) /\ Position(f)' = Position(f)
      /\ Written' = Written /\ Put' = Put
  BY <1>1 DEF Position, Written, Put
<1>3. /\ ChunkInv /\ Apart(List, base) /\ front \in Slots /\ front[1] \in List
      /\ Position(front) = base[front[1]] + front[2] /\ Position(front) \in Nat
      /\ From = Position(front) + 1 /\ base[front[1]] \in Nat /\ N \in Nat
      /\ front[2] \in 0 .. N - 1 /\ held = NULL
  <2>1. /\ ChunkInv /\ Apart(List, base) /\ front \in Slots /\ front[1] \in List
        /\ Position(front) \in Nat
    BY <1>1, ItemAhead DEF Readable, Ordered
  <2>2. held = NULL
    BY <1>1, <2>1 DEF ChunkInv, Owners
  <2> QED BY <1>1, <2>1, <2>2, SizeFacts DEF From, Position, Apart
<1>4. From' = Position(front)'
  <2>1. Position(front)' \in Nat
    BY DEF Readable, Ordered
  <2> QED BY <1>1, <2>1 DEF From
<1>5. CASE PopWithin
  <2>1. front' = <<front[1], front[2] + 1>> /\ held' = held
    BY <1>5 DEF PopWithin
  <2>2. From' = From /\ Items' = Items
    BY <1>1, <1>3, <1>4, <2>1, SameChunks DEF Position
  <2> QED BY <1>1, <1>2, <2>2, StepIsInvisible
<1>6. CASE PopLeavesChunk
  <2>1. front[2] + 1 = N /\ held' = front[1] /\ front' = <<next[front[1]], 0>>
    BY <1>6 DEF PopLeavesChunk
  <2>2. front[1] # end[1]
    <3>1. Position(front) < Position(w) /\ Position(w) <= Position(end)
          /\ Position(end) \in Nat /\ Position(w) \in Nat
      BY <1>1, <1>3, ItemAhead
    <3>2. front[1] = end[1] => Position(end) <= Position(front)
      <4>1. end[2] \in 0 .. N - 1 /\ Position(end) = base[end[1]] + end[2]
        BY <1>3, SizeFacts DEF ChunkInv, ChunkTypes, Position
      <4> QED BY <1>3, <2>1, <4>1
    <3> QED BY <1>3, <3>1, <3>2
  <2>3. base[next[front[1]]] = base[front[1]] + N
    BY <1>3, <2>2 DEF ChunkInv, Chained
  <2>4. From' = From
    <3>1. Position(front)' = base[next[front[1]]] + 0
      BY <1>1, <2>1 DEF Position
    <3> QED BY <1>3, <1>4, <2>1, <2>3, <3>1
  <2>5. List \ {front[1]} \subseteq List'
    BY <1>1, <2>1 DEF List, Owned
  <2>6. \A p \in Nat : From <= p /\ p < Written => Items'[p] = Items[p]
    <3> SUFFICES ASSUME NEW p \in Nat, From <= p, p < Written PROVE Items'[p] = Items[p]
      OBVIOUS
    <3>1. ASSUME NEW a \in List, base[a] <= p, p < base[a] + N PROVE a \in List'
      <4>1. p >= base[front[1]] + N
        BY <1>3, <2>1
      <4>2. a # front[1]
        BY <1>3, <3>1, <4>1
      <4> QED BY <2>5, <4>2
    <3> QED BY <1>1, <3>1, ItemStays
  <2> QED BY <1>1, <1>2, <2>4, <2>6, StepIsInvisible
<1> QED BY <1>5, <1>6

\* What pop does with the chunk it left touches no item.
LEMMA RecycleMaps ==
  ASSUME Readable, Readable', PopRecycles \/ PopFrees
  PROVE  UNCHANGED Pipe!fpVars
<1>1. /\ pcR \notin {"pop"} /\ pcR' # "pop"
      /\ UNCHANGED <<base, sc, back, w, f, writes, pcW, value, front>>
  BY DEF PopRecycles, PopFrees, writerVars
<1>2. /\ Position(w)' = Position(w) /\ Position(f)' = Position(f) /\ From' = From
      /\ Written' = Written /\ Put' = Put
  BY <1>1 DEF Position, From, Written, Put
<1>3. CASE PopRecycles
  <2>1. Owned' = Owned /\ heap' = heap /\ values' = values
    BY <1>1, <1>3 DEF PopRecycles, Owned
  <2>2. Items' = Items
    BY <1>1, <2>1 DEF Items, List
  <2> QED BY <1>1, <1>2, <2>2, StepIsInvisible
<1>4. CASE PopFrees
  <2>1. /\ held' = NULL /\ spare' = spare
        /\ held = NULL => heap' = heap /\ values' = values
        /\ held # NULL => /\ heap' = heap \ {held}
                          /\ values' = [values EXCEPT ![held] = Fresh]
    BY <1>4 DEF PopFrees, Free
  <2>2. held # NULL => held # spare /\ held # sc /\ held \notin List
    <3>1. Owners
      BY DEF Readable, ChunkInv
    <3>2. held # NULL => held \in Owned
      BY DEF Owned
    <3>3. held # NULL => held # spare
      BY <3>1 DEF Owners
    <3>4. held # NULL => held # sc
      BY <3>1 DEF Owners
    <3> QED BY <3>2, <3>3, <3>4 DEF List
  <2>3. List' = List
    BY <1>1, <2>1, <2>2 DEF List, Owned
  <2>4. \A a \in List : values'[a] = values[a]
    <3>1. values \in [Chunks -> [0 .. N - 1 -> Nat]] /\ List \subseteq Chunks
      BY DEF Readable, ChunkInv, ChunkTypes, List
    <3> QED BY <2>1, <2>2, <3>1
  <2>5. \A p \in Nat : From <= p /\ p < Written => Items'[p] = Items[p]
    BY <1>1, <2>3, <2>4, ItemStays
  <2> QED BY <1>1, <1>2, <2>5, StepIsInvisible
<1> QED BY <1>3, <1>4

\* With yqueue.hpp's memory under it the pipe still keeps its promise: writing
\* is what push does last and reading what pop is preceded by, and moving,
\* recycling and freeing chunks is invisible to both sides.
THEOREM ChunksKeepPromise == Spec => ImplementsFlushedPipe
<1>1. Init => Pipe!Init
  <2> SUFFICES ASSUME Init PROVE Pipe!Init
    OBVIOUS
  <2>1. PICK first \in Chunks :
          LET start == <<first, 0>> IN
          /\ base = [a \in Chunks |-> 0]
          /\ back = start /\ front = start /\ w = start /\ f = start
    BY DEF Init
  <2>2. Position(w) = 0 /\ Position(front) = 0 /\ Position(f) = 0 /\ Position(back) = 0
    BY <2>1 DEF Position
  <2>3. pcW = "idle" /\ pcR = "idle" /\ writes = 0 /\ value = 0
    BY DEF Init
  <2>4. Stream(0, 0) = <<>>
    BY DEF Stream
  <2> QED BY <2>2, <2>3, <2>4 DEF Pipe!Init, Written
<1>2. Readable /\ Readable' /\ [Next]_chunkVars => [Pipe!Next]_(Pipe!fpVars)
  <2> SUFFICES ASSUME Readable, Readable', [Next]_chunkVars
               PROVE  [Pipe!Next]_(Pipe!fpVars)
    OBVIOUS
  <2>1. ASSUME NEW incomplete \in BOOLEAN, Write(incomplete)
        PROVE  [Pipe!Next]_(Pipe!fpVars)
    BY <2>1, WriteMaps
  <2>2. CASE PushTakesSpare
    BY <2>2, PushTakesMaps
  <2>3. CASE PushLinks
    BY <2>3, PushLinksMaps
  <2>4. CASE Unwrite
    BY <2>4, UnwriteMaps
  <2>5. CASE FlushAwake \/ FlushSet
    BY <2>5, FlushMaps
  <2>6. CASE FlushFindsAsleep \/ CheckSucceeds \/ CheckFails \/ UNCHANGED chunkVars
    BY <2>6, PointersMap
  <2>7. CASE Copy
    BY <2>7, CopyMaps
  <2>8. CASE PopWithin \/ PopLeavesChunk
    BY <2>8, PopMaps
  <2>9. CASE PopRecycles \/ PopFrees
    BY <2>9, RecycleMaps
  <2> QED BY <2>1, <2>2, <2>3, <2>4, <2>5, <2>6, <2>7, <2>8, <2>9 DEF Next, Writer, Reader
<1>3. Spec => []Readable
  BY ChunkInvariant, StreamsAreOrdered, PTL
<1> QED BY <1>1, <1>2, <1>3, PTL DEF Spec, ImplementsFlushedPipe, Pipe!Spec
===============================================================================
