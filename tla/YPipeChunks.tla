----------------------------- MODULE YPipeChunks -----------------------------
(***************************************************************************)
(* The same pipe with its memory: yqueue_t keeps the slots in a doubly      *)
(* linked list of chunks of N slots, hands the last chunk the reader        *)
(* finished to the writer through spare_chunk, and allocates and frees the  *)
(* others.  A pointer is a chunk and an offset, and the algorithm compares  *)
(* pointers, so a recycled chunk must never be mistaken for its old self.   *)
(* The mapping to FlushedPipe needs the position of a chunk in the stream:  *)
(* base, which the code does not have.                                      *)
(***************************************************************************)
EXTENDS Integers, Sequences, FiniteSets

CONSTANTS
  Chunks,     \* addresses malloc can return
  N,          \* slots in a chunk
  MaxWrites,  \* bound: calls of write in a run
  NULL,       \* the null pointer
  Wild        \* what a pointer in fresh or freed memory holds

ASSUME ChunksAssumption ==
  /\ IsFiniteSet(Chunks) /\ NULL \notin Chunks /\ Wild \notin Chunks
  /\ N \in Nat /\ N >= 2 /\ NULL \notin Chunks \X (0 .. N - 1)
  /\ MaxWrites \in Nat

VARIABLES
  heap,               \* chunks allocated and not freed
  next, prev, values, \* the memory of the chunks
  spare,              \* spare_chunk, shared
  back, end,          \* writer: last slot and the one after it
  w, f,               \* writer: as in YPipe
  sc,                 \* writer: the spare chunk it took
  pcW, writes,
  front,              \* reader: begin_chunk and begin_pos
  r, held, pcR, value,\* reader: held is o, then cs of pop
  c,                  \* shared, as in YPipe
  base                \* ghost: position of a chunk's first slot

memoryVars == <<heap, next, prev, values, spare, base>>
writerVars == <<back, end, w, f, sc, pcW, writes>>
readerVars == <<front, r, held, pcR, value>>
chunkVars == <<memoryVars, writerVars, readerVars, c>>

Garbage == MaxWrites + 1     \* a value no one wrote
Slots == Chunks \X (0 .. N - 1)
Fresh == [k \in 0 .. N - 1 |-> Garbage]

Init ==
  \E first \in Chunks :
    LET start == <<first, 0>> IN
    /\ heap = {first}
    /\ next = [a \in Chunks |-> Wild]
    /\ prev = [a \in Chunks |-> Wild]
    /\ values = [a \in Chunks |-> Fresh]
    /\ spare = NULL
    /\ base = [a \in Chunks |-> 0]
    /\ back = start /\ end = <<first, 1>> /\ front = start
    /\ w = start /\ f = start /\ r = start /\ c = start
    /\ sc = NULL /\ held = NULL
    /\ pcW = "idle" /\ pcR = "idle"
    /\ writes = 0 /\ value = 0

\* free(a): whatever is read there from now on is garbage
Free(a) ==
  /\ heap' = heap \ {a}
  /\ values' = [values EXCEPT ![a] = Fresh]
  /\ prev' = [prev EXCEPT ![a] = Wild]

-----------------------------------------------------------------------------
(* The writer                                                              *)

\* write: the value goes into the terminator slot and push moves back to end;
\* unless end crosses the chunk the rest is the writer's own business.
Write(incomplete) ==
  /\ pcW = "idle"
  /\ writes < MaxWrites
  /\ writes' = writes + 1
  /\ values' = [values EXCEPT ![back[1]][back[2]] = writes + 1]
  /\ back' = end
  /\ IF end[2] + 1 # N
     THEN /\ end' = <<end[1], end[2] + 1>>
          /\ f' = IF incomplete THEN f ELSE end
          /\ UNCHANGED pcW
     ELSE /\ pcW' = IF incomplete THEN "spare incomplete" ELSE "spare"
          /\ UNCHANGED <<end, f>>
  /\ UNCHANGED <<heap, next, prev, spare, base, w, sc, readerVars, c>>

\* push takes the spare chunk, if there is one
PushTakesSpare ==
  /\ pcW \in {"spare", "spare incomplete"}
  /\ sc' = spare
  /\ spare' = NULL
  /\ pcW' = IF pcW = "spare" THEN "link" ELSE "link incomplete"
  /\ UNCHANGED <<heap, next, prev, values, base, back, end, w, f, writes, readerVars, c>>

\* (variant) the appended chunk does not point back
PushLinks_OneWay ==
  /\ pcW \in {"link", "link incomplete"}
  /\ \E a \in IF sc # NULL THEN {sc} ELSE Chunks \ heap :
       /\ heap' = heap \cup {a}
       /\ next' = [next EXCEPT ![end[1]] = a]
       /\ base' = [base EXCEPT ![a] = base[end[1]] + N]
       /\ end' = <<a, 0>>
  /\ f' = IF pcW = "link" THEN back ELSE f
  /\ sc' = NULL
  /\ pcW' = "idle"
  /\ UNCHANGED <<prev, values, spare, back, w, writes, readerVars, c>>

\* (variant) f is set past the terminator slot
PushLinks_FlushesEnd ==
  /\ pcW \in {"link", "link incomplete"}
  /\ \E a \in IF sc # NULL THEN {sc} ELSE Chunks \ heap :
       /\ heap' = heap \cup {a}
       /\ next' = [next EXCEPT ![end[1]] = a]
       /\ prev' = [prev EXCEPT ![a] = end[1]]
       /\ base' = [base EXCEPT ![a] = base[end[1]] + N]
       /\ end' = <<a, 0>>
  /\ f' = IF pcW = "link" THEN end' ELSE f
  /\ sc' = NULL
  /\ pcW' = "idle"
  /\ UNCHANGED <<values, spare, back, w, writes, readerVars, c>>

\* push appends the spare chunk or one from malloc; write sets f
PushLinks ==
  /\ pcW \in {"link", "link incomplete"}
  /\ \E a \in IF sc # NULL THEN {sc} ELSE Chunks \ heap :
       /\ heap' = heap \cup {a}
       /\ next' = [next EXCEPT ![end[1]] = a]
       /\ prev' = [prev EXCEPT ![a] = end[1]]
       /\ base' = [base EXCEPT ![a] = base[end[1]] + N]
       /\ end' = <<a, 0>>
  /\ f' = IF pcW = "link" THEN back ELSE f
  /\ sc' = NULL
  /\ pcW' = "idle"
  /\ UNCHANGED <<values, spare, back, w, writes, readerVars, c>>

\* one slot back, over the border of a chunk if need be
Before(slot) ==
  IF slot[2] > 0 THEN <<slot[1], slot[2] - 1>> ELSE <<prev[slot[1]], N - 1>>

\* unwrite calls unpush, which frees the chunk end leaves
Unwrite ==
  /\ pcW = "idle"
  /\ f # back
  /\ back' = Before(back)
  /\ end' = Before(end)
  /\ IF end[2] > 0
     THEN UNCHANGED <<heap, next, prev, values>>
     ELSE /\ Free(end[1])
          /\ next' = [next EXCEPT ![end'[1]] = NULL, ![end[1]] = Wild]
  /\ UNCHANGED <<spare, base, w, f, sc, pcW, writes, readerVars, c>>

FlushAwake ==
  /\ pcW = "idle"
  /\ w # f
  /\ c = w
  /\ c' = f
  /\ w' = f
  /\ UNCHANGED <<memoryVars, back, end, f, sc, pcW, writes, readerVars>>

FlushFindsAsleep ==
  /\ pcW = "idle"
  /\ w # f
  /\ c # w
  /\ pcW' = "set"
  /\ UNCHANGED <<memoryVars, back, end, w, f, sc, writes, readerVars, c>>

FlushSet ==
  /\ pcW = "set"
  /\ c' = f
  /\ w' = f
  /\ pcW' = "idle"
  /\ UNCHANGED <<memoryVars, back, end, f, sc, writes, readerVars>>

Writer ==
  \/ \E incomplete \in BOOLEAN : Write(incomplete)
  \/ PushTakesSpare \/ PushLinks \/ Unwrite
  \/ FlushAwake \/ FlushFindsAsleep \/ FlushSet

-----------------------------------------------------------------------------
(* The reader                                                              *)

Prefetched == front # r /\ r # NULL

\* check_read returns true: items are left or c has moved
CheckSucceeds ==
  /\ pcR = "idle"
  /\ IF Prefetched THEN UNCHANGED r ELSE c \notin {front, NULL} /\ r' = c
  /\ pcR' = "copy"
  /\ UNCHANGED <<memoryVars, writerVars, front, held, value, c>>

CheckFails ==
  /\ pcR = "idle"
  /\ ~Prefetched
  /\ c \in {front, NULL}
  /\ r' = c
  /\ c' = NULL
  /\ UNCHANGED <<memoryVars, writerVars, front, held, pcR, value>>

\* read copies the item
Copy ==
  /\ pcR = "copy"
  /\ value' = values[front[1]][front[2]]
  /\ pcR' = "pop"
  /\ UNCHANGED <<memoryVars, writerVars, front, r, held, c>>

\* pop stays in the chunk ...
PopWithin ==
  /\ pcR = "pop"
  /\ front[2] + 1 # N
  /\ front' = <<front[1], front[2] + 1>>
  /\ pcR' = "idle"
  /\ UNCHANGED <<memoryVars, writerVars, r, held, value, c>>

\* ... or leaves it, and it becomes the spare chunk ...
PopLeavesChunk ==
  /\ pcR = "pop"
  /\ front[2] + 1 = N
  /\ held' = front[1]
  /\ front' = <<next[front[1]], 0>>
  /\ prev' = [prev EXCEPT ![next[front[1]]] = NULL]
  /\ pcR' = "recycle"
  /\ UNCHANGED <<heap, next, values, spare, base, writerVars, r, value, c>>

PopRecycles ==
  /\ pcR = "recycle"
  /\ spare' = held
  /\ held' = spare
  /\ pcR' = "free"
  /\ UNCHANGED <<heap, next, prev, values, base, writerVars, front, r, value, c>>

\* (variant) pop forgets the old spare chunk
PopFrees_Nothing ==
  /\ pcR = "free"
  /\ held' = NULL
  /\ pcR' = "idle"
  /\ UNCHANGED <<memoryVars, writerVars, front, r, value, c>>

\* ... and the old spare chunk, if there was one, is freed
PopFrees ==
  /\ pcR = "free"
  /\ IF held = NULL
     THEN UNCHANGED <<heap, next, prev, values>>
     ELSE Free(held) /\ next' = [next EXCEPT ![held] = Wild]
  /\ held' = NULL
  /\ pcR' = "idle"
  /\ UNCHANGED <<spare, base, writerVars, front, r, value, c>>

Reader ==
  \/ CheckSucceeds \/ CheckFails \/ Copy
  \/ PopWithin \/ PopLeavesChunk \/ PopRecycles \/ PopFrees

Next == Writer \/ Reader

Spec == Init /\ [][Next]_chunkVars

-----------------------------------------------------------------------------
(* Correctness                                                             *)

\* The chunks from the one being read to the one being written, along next.
InList ==
  LET reach[k \in 0 .. Cardinality(Chunks)] ==
        IF k = 0 THEN front[1]
        ELSE IF reach[k - 1] \in {end[1], NULL, Wild} THEN reach[k - 1]
        ELSE next[reach[k - 1]]
  IN {reach[k] : k \in 0 .. Cardinality(Chunks)}

\* Every allocated chunk is in the list, spare, or in the hands of exactly one
\* thread: nothing leaks, nothing freed is in use, nothing is used twice, and
\* the destructor's walk (lines 56-69) frees it all.
ChunksAccounted ==
  LET owned(p) == {p} \ {NULL}
  IN /\ end[1] \in InList
     /\ heap = InList \cup owned(spare) \cup owned(sc) \cup owned(held)
     /\ Cardinality(heap) = Cardinality(InList) + Cardinality(owned(spare))
                              + Cardinality(owned(sc)) + Cardinality(owned(held))

\* Every pointer the algorithm compares or follows points into the list, so
\* equal pointers are the same position and no chunk is met under an old one.
PointersInList ==
  \A p \in {back, w, f, r, c} \ {NULL} : p[1] \in InList

\* Following prev from the slot after the flushed part finds the way back.
UnwriteStaysInList ==
  pcW = "idle" /\ f # back =>
    /\ Before(back)[1] \in InList
    /\ Before(end)[1] \in InList

\* No position is ever taken in a chunk that is spare, freed or reused.
PositionsInList == PointersInList /\ UnwriteStaysInList

Position(p) == base[p[1]] + p[2]

\* the values from one position up to another, in the list's chunks
Stream(from, to) ==
  [k \in 1 .. to - from |->
    LET p == from + k - 1
        a == CHOOSE x \in InList : base[x] <= p /\ p < base[x] + N
    IN values[a][p - base[a]]]

\* write takes effect when it returns, read when it copies
Written == IF pcW \in {"idle", "set"} THEN Position(back) ELSE Position(back) - 1
Pipe == INSTANCE FlushedPipe WITH
  Limit <- MaxWrites,
  pending <- Stream(Position(w), Written),
  ready <- Position(f) - Position(w),
  visible <- Stream(Position(front) + (IF pcR = "pop" THEN 1 ELSE 0), Position(w)),
  put <- IF pcW \in {"idle", "set"} THEN writes ELSE writes - 1,
  got <- value
ImplementsFlushedPipe == Pipe!Spec
==============================================================================
