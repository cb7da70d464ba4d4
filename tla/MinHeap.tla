------------------------------ MODULE MinHeap ------------------------------
(***************************************************************************)
(* The binary heap of 3.2.3/minheap.c: an array of pointers to timers,     *)
(* each of which knows its own index, -1 when it is out.  key is the       *)
(* function of deadlines.  Slots at n and beyond are out of use; the       *)
(* growth of the array is left out.                                        *)
(***************************************************************************)
EXTENDS Integers, FiniteSets

CONSTANTS Timers, Nil

Slots == 0..(Cardinality(Timers) - 1)

\* min_heap_ctor_
NewHeap == [n |-> 0, p |-> [i \in Slots |-> Nil], idx |-> [x \in Timers |-> -1]]

Holds(h) == {h.p[i] : i \in 0..(h.n - 1)}
Parent(i) == (i - 1) \div 2
Place(h, i, e) == [h EXCEPT !.p[i] = e, !.idx[e] = i]

\* min_heap_shift_up_; the unconditional form is called when its first test holds.
RECURSIVE ShiftUp(_, _, _, _)
ShiftUp(h, key, hole, e) ==
  LET above == h.p[Parent(hole)]
  IN IF hole = 0 THEN Place(h, 0, e)
     ELSE IF key[above] > key[e]
     THEN ShiftUp(Place(h, hole, above), key, Parent(hole), e)
     ELSE Place(h, hole, e)

RECURSIVE ShiftDown(_, _, _, _)
ShiftDown(h, key, hole, e) ==
  LET right == 2 * (hole + 1)
      least == IF right = h.n THEN right - 1
               ELSE IF key[h.p[right]] > key[h.p[right - 1]] THEN right - 1 ELSE right
  IN IF right > h.n THEN Place(h, hole, e)
     ELSE IF key[e] > key[h.p[least]]
     THEN ShiftDown(Place(h, hole, h.p[least]), key, least, e)
     ELSE Place(h, hole, e)

min_heap_push_(h, key, e) == ShiftUp([h EXCEPT !.n = @ + 1], key, h.n, e)

\* e is out, and so is the slot the last element left.
Out(h, e) == [h EXCEPT !.idx[e] = -1, !.p[h.n] = Nil]

min_heap_pop_(h, key) ==
  LET g == [h EXCEPT !.n = @ - 1]
  IN Out(ShiftDown(g, key, 0, h.p[g.n]), h.p[0])

\* (variant) the last element is only ever shifted down
min_heap_erase__DownOnly(h, key, e) ==
  LET g == [h EXCEPT !.n = @ - 1]
  IN Out(ShiftDown(g, key, h.idx[e], h.p[g.n]), e)

\* The last element replaces e, and is shifted to its place from there.
min_heap_erase_(h, key, e) ==
  LET g == [h EXCEPT !.n = @ - 1]
      last == h.p[g.n]
      i == h.idx[e]
  IN Out(IF i > 0 /\ key[h.p[Parent(i)]] > key[last]
         THEN ShiftUp(g, key, i, last) ELSE ShiftDown(g, key, i, last), e)

\* The order, and the index every timer has of itself.
Ordered(h, key) ==
  /\ \A i \in 1..(h.n - 1) : key[h.p[Parent(i)]] <= key[h.p[i]]
  /\ \A x \in Timers : h.idx[x] # -1 => h.idx[x] < h.n /\ h.p[h.idx[x]] = x
  /\ \A i \in 0..(h.n - 1) : h.p[i] # Nil /\ h.idx[h.p[i]] = i
=============================================================================
