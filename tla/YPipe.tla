-------------------------------- MODULE YPipe --------------------------------
(***************************************************************************)
(* ypipe_t of 3.2.4 (ypipe.hpp): one writer, one reader, a pointer c both   *)
(* of them change with compare-and-swap.  A pointer into the queue is the   *)
(* position of its slot, counted from the first slot ever used; how         *)
(* positions become addresses is the business of YPipeChunks.  The writer   *)
(* touches shared memory once per step, and so does the reader.             *)
(***************************************************************************)
EXTENDS Integers, Sequences

CONSTANTS
  MaxWrites,  \* bound: calls of write in a run
  NULL        \* the null pointer

ASSUME PipeAssumption ==
  /\ MaxWrites \in Nat
  /\ NULL \notin Nat

VARIABLES
  items,   \* position -> value last stored there; 0: nothing yet
  back,    \* &queue.back(), the terminator slot
  front,   \* &queue.front()
  w,       \* first position that is not flushed
  f,       \* first position a flush will not include
  r,       \* first position that is not prefetched
  c,       \* shared: up to where the reader may prefetch; NULL: it sleeps
  pcW, pcR,
  writes,  \* number of write calls so far; also the value being written
  value,   \* the last item read returned
  told     \* history: what the reader was told last, "empty" or "woken"

writerVars == <<items, back, w, f, pcW, writes>>
readerVars == <<front, r, pcR, value>>
pipeVars == <<writerVars, readerVars, c, told>>

Positions == 0 .. MaxWrites

PipeInit ==
  /\ items = [p \in Positions |-> 0]
  /\ back = 0
  /\ front = 0
  /\ w = 0 /\ f = 0 /\ r = 0 /\ c = 0
  /\ pcW = "idle" /\ pcR = "idle"
  /\ writes = 0
  /\ value = 0
  /\ told = "woken"

-----------------------------------------------------------------------------
(* The writer                                                              *)

\* (variant) the flush pointer is taken before the new slot is pushed
Write_FlushesShort(incomplete) ==
  /\ pcW = "idle"
  /\ writes < MaxWrites
  /\ writes' = writes + 1
  /\ items' = [items EXCEPT ![back] = writes + 1]
  /\ back' = back + 1
  /\ f' = IF incomplete THEN f ELSE back
  /\ UNCHANGED <<w, pcW, readerVars, c, told>>

Write(incomplete) ==
  /\ pcW = "idle"
  /\ writes < MaxWrites
  /\ writes' = writes + 1
  /\ items' = [items EXCEPT ![back] = writes + 1]
  /\ back' = back + 1
  /\ f' = IF incomplete THEN f ELSE back + 1
  /\ UNCHANGED <<w, pcW, readerVars, c, told>>

\* (variant) the test against f is dropped
Unwrite_AnyItem ==
  /\ pcW = "idle"
  /\ back' = back - 1
  /\ UNCHANGED <<items, w, f, pcW, writes, readerVars, c, told>>

\* takes back the last item unless a flush may already include it
Unwrite ==
  /\ pcW = "idle"
  /\ f # back
  /\ back' = back - 1
  /\ UNCHANGED <<items, w, f, pcW, writes, readerVars, c, told>>

\* (variant) the success path forgets to move w
FlushAwake_KeepsW ==
  /\ pcW = "idle"
  /\ w # f
  /\ c = w
  /\ c' = f
  /\ UNCHANGED <<items, back, w, f, pcW, writes, readerVars, told>>

\* the CAS of flush finds the reader awake: flush returns true
FlushAwake ==
  /\ pcW = "idle"
  /\ w # f
  /\ c = w
  /\ c' = f
  /\ w' = f
  /\ UNCHANGED <<items, back, f, pcW, writes, readerVars, told>>

\* the CAS of flush finds something else in c ...
FlushFindsAsleep ==
  /\ pcW = "idle"
  /\ w # f
  /\ c # w
  /\ pcW' = "set"
  /\ UNCHANGED <<items, back, w, f, writes, readerVars, c, told>>

\* ... and c is overwritten without CAS.  flush returns false: the caller now
\* wakes the reader up
FlushSet ==
  /\ pcW = "set"
  /\ c' = f
  /\ w' = f
  /\ pcW' = "idle"
  /\ told' = "woken"
  /\ UNCHANGED <<items, back, f, writes, readerVars>>

Flush == FlushAwake \/ FlushFindsAsleep \/ FlushSet

Writer ==
  \/ \E incomplete \in BOOLEAN : Write(incomplete)
  \/ Unwrite
  \/ Flush

-----------------------------------------------------------------------------
(* The reader                                                              *)

Prefetched == front # r /\ r # NULL

\* check_read finds items left from the last prefetch
CheckPrefetched ==
  /\ pcR = "idle"
  /\ Prefetched
  /\ pcR' = "take"
  /\ UNCHANGED <<writerVars, front, r, value, c, told>>

\* check_read fetches c; c becomes NULL if there is nothing new
CheckFetches ==
  /\ pcR = "idle"
  /\ ~Prefetched
  /\ r' = c
  /\ c # front
  /\ c # NULL
  /\ pcR' = "take"
  /\ UNCHANGED <<writerVars, front, value, c, told>>

\* (variant) c is read but not exchanged
CheckFails_LeavesC ==
  /\ pcR = "idle"
  /\ ~Prefetched
  /\ r' = c
  /\ c \in {front, NULL}
  /\ told' = "empty"
  /\ UNCHANGED <<writerVars, front, value, c, pcR>>

\* check_read, and with it read, returns false
CheckFails ==
  /\ pcR = "idle"
  /\ ~Prefetched
  /\ r' = c
  /\ c \in {front, NULL}
  /\ c' = NULL
  /\ told' = "empty"
  /\ UNCHANGED <<writerVars, front, value, pcR>>

\* read copies the front item and pops it
Take ==
  /\ pcR = "take"
  /\ value' = items[front]
  /\ front' = front + 1
  /\ pcR' = "idle"
  /\ UNCHANGED <<writerVars, r, c, told>>

\* probe looks at the front item and leaves it
Probe ==
  /\ pcR = "take"
  /\ pcR' = "idle"
  /\ UNCHANGED <<writerVars, front, r, value, c, told>>

Reader == CheckPrefetched \/ CheckFetches \/ CheckFails \/ Take \/ Probe

PipeNext == Writer \/ Reader

PipeSpec == PipeInit /\ [][PipeNext]_pipeVars

-----------------------------------------------------------------------------
(* Correctness                                                             *)

TypeOK ==
  /\ items \in [Positions -> 0 .. MaxWrites]
  /\ writes \in 0 .. MaxWrites
  /\ back \in 0 .. writes
  /\ front \in Nat /\ w \in Nat /\ f \in Nat
  /\ r \in Nat \cup {NULL} /\ c \in Nat \cup {NULL}
  /\ pcW \in {"idle", "set"} /\ pcR \in {"idle", "take"}
  /\ value \in 0 .. MaxWrites
  /\ told \in {"empty", "woken"}

\* The reader stays behind what was flushed, the flushed part behind what is
\* complete: an incomplete item never goes down the stream (ypipe.hpp:61-64)
\* and the slot the reader copies is never one the writer may still change.
PipeOrder ==
  /\ front <= w
  /\ w <= f
  /\ f <= back
  /\ pcR = "take" => front < w

\* The plain store to c in flush (lines 106-111) races with nothing: c is NULL
\* from the failed CAS on, whatever the reader does in between.
SetIsExclusive == pcW = "set" => c = NULL

\* A reader that was told "empty" has nothing to read until a flush returns
\* false (lines 90-92): no item is flushed without the wake-up being owed.
NoMissedWakeup == told = "empty" => front = w /\ c = NULL

\* What the pipe promises to its two users.
Segment(from, to) == [k \in 1 .. to - from |-> items[from + k - 1]]
Promise == INSTANCE FlushedPipe WITH
  Limit <- MaxWrites,
  pending <- Segment(w, back),
  ready <- f - w,
  visible <- Segment(front, w),
  put <- writes,
  got <- value
ImplementsFlushedPipe == Promise!Spec
=============================================================================
