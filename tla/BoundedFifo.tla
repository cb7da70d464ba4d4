----------------------------- MODULE BoundedFifo -----------------------------
(***************************************************************************)
(* What a queue promises its users: items come out once, in the order in   *)
(* which they went in, and never more than Capacity of them wait.          *)
(***************************************************************************)
EXTENDS Naturals, Sequences

CONSTANTS Producers, Consumers,
          Capacity,  \* items that may wait at the same time
          Limit,     \* items each producer puts in
          None       \* what a consumer holds before its first item

VARIABLES fifo,  \* the waiting items, oldest first
          put,   \* how many items each producer has put in
          got    \* the last item each consumer took

fifoVars == <<fifo, put, got>>

Init ==
  /\ fifo = <<>>
  /\ put = [p \in Producers |-> 0]
  /\ got = [c \in Consumers |-> None]

Put(p) ==
  /\ Len(fifo) < Capacity
  /\ put[p] < Limit
  /\ fifo' = Append(fifo, <<p, put[p] + 1>>)
  /\ put' = [put EXCEPT ![p] = @ + 1]
  /\ UNCHANGED got

Get(c) ==
  /\ fifo # <<>>
  /\ got' = [got EXCEPT ![c] = Head(fifo)]
  /\ fifo' = Tail(fifo)
  /\ UNCHANGED put

Next ==
  \/ \E p \in Producers : Put(p)
  \/ \E c \in Consumers : Get(c)

Spec == Init /\ [][Next]_fifoVars
==============================================================================
