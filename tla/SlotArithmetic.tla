--------------------------- MODULE SlotArithmetic ---------------------------
(***************************************************************************)
(* Facts that the proofs about queues and wheels share.  Positions count    *)
(* upwards; in a ring the slot of a position is its remainder.  What a      *)
(* queue holds is a stretch of consecutive slots.                           *)
(***************************************************************************)
EXTENDS Integers, Sequences, SequenceTheorems, WellFoundedInduction, TLAPS

\* Where there are positions there is a first one: the proofs about functions
\* that recur on positions look at the least counterexample.
LEMMA LeastPosition ==
  ASSUME NEW T \in SUBSET Nat, T # {}
  PROVE  \E x \in T : \A y \in T : x <= y
<1>1. IsWellFoundedOn(OpToRel(<, Nat), Nat)
  BY NatLessThanWellFounded
<1>2. PICK x \in T : \A y \in T : ~(<<y, x>> \in OpToRel(<, Nat))
  BY <1>1, WFMin
<1>3. \A y \in T : <<y, x>> \in OpToRel(<, Nat) <=> y < x
  BY DEF OpToRel
<1>4. \A y \in T : ~(y < x)
  BY <1>2, <1>3, Zenon
<1> QED BY <1>4

-----------------------------------------------------------------------------
(* Rings                                                                   *)

\* Division with remainder, the definition behind countToIndex
\* (ArrayLockFreeQueueImp.h:24).
LEMMA DivMod ==
  ASSUME NEW a \in Nat, NEW n \in Nat \ {0}
  PROVE  /\ a \div n \in Nat
         /\ a % n \in 0 .. n - 1
         /\ a = n * (a \div n) + (a % n)
  BY SMTT(30)

\* Multiples of the ring size are at least one ring apart.
LEMMA MultiplesApart ==
  ASSUME NEW n \in Nat \ {0}, NEW q \in Int, NEW s \in Int, q < s
  PROVE  n * q + n <= n * s
<1>1. PICK d \in Nat : s = q + 1 + d
  <2>1. s - q - 1 \in Nat
    OBVIOUS
  <2> QED BY <2>1
<1>2. n * s = n * q + n + n * d
  BY <1>1, SMT
<1>3. n * d >= 0
  BY SMT
<1>4. n * q \in Int /\ n * d \in Int
  OBVIOUS
<1> QED BY <1>2, <1>3, <1>4

\* Quotient and remainder are determined by the number they divide.
LEMMA DivModUnique ==
  ASSUME NEW n \in Nat \ {0}, NEW q \in Int, NEW s \in Int,
         NEW r \in 0 .. n - 1, NEW t \in 0 .. n - 1,
         n * q + r = n * s + t
  PROVE  q = s /\ r = t
<1>1. n * q \in Int /\ n * s \in Int
  OBVIOUS
<1>2. CASE q < s
  BY <1>1, <1>2, MultiplesApart
<1>3. CASE s < q
  BY <1>1, <1>3, MultiplesApart
<1>4. CASE q = s
  BY <1>4, <1>1
<1> QED BY <1>2, <1>3, <1>4

\* One full turn of the ring leads back to the same slot: why the full test
\* of enqueue (ArrayLockFreeQueueImp.h:47-48) sees a writer about to lap.
LEMMA FullTurn ==
  ASSUME NEW a \in Nat, NEW n \in Nat \ {0}
  PROVE  (a + n) % n = a % n
<1> DEFINE q == a \div n          r == a % n
           s == (a + n) \div n    t == (a + n) % n
<1>1. q \in Nat /\ r \in 0 .. n - 1 /\ a = n * q + r
  BY DivMod
<1>2. s \in Nat /\ t \in 0 .. n - 1 /\ a + n = n * s + t
  <2>1. a + n \in Nat
    OBVIOUS
  <2> QED BY <2>1, DivMod
<1> HIDE DEF q, r, s, t
<1>3. n * (q + 1) = n * q + n
  BY <1>1, SMT
<1>4. n * (q + 1) + r = n * s + t
  BY <1>1, <1>2, <1>3
<1>5. q + 1 \in Int /\ s \in Int
  BY <1>1, <1>2
<1>6. r = t
  BY <1>1, <1>2, <1>4, <1>5, DivModUnique
<1> QED BY <1>6 DEF r, t

\* Positions less than a turn apart have different slots: a producer inside
\* the window never stores over an item that is still to be read.
LEMMA SlotsDiffer ==
  ASSUME NEW a \in Nat, NEW b \in Nat, NEW n \in Nat \ {0},
         a < b, b < a + n
  PROVE  a % n # b % n
<1> DEFINE q == a \div n    r == a % n
           s == b \div n    t == b % n
<1>1. q \in Nat /\ r \in 0 .. n - 1 /\ a = n * q + r
  BY DivMod
<1>2. s \in Nat /\ t \in 0 .. n - 1 /\ b = n * s + t
  BY DivMod
<1> HIDE DEF q, r, s, t
<1>3. n * q \in Int /\ n * s \in Int
  BY <1>1, <1>2
<1>4. SUFFICES ASSUME r = t
               PROVE  FALSE
  BY DEF r, t
<1>5. CASE q < s
  BY <1>1, <1>2, <1>3, <1>4, <1>5, MultiplesApart
<1>6. CASE s < q
  BY <1>1, <1>2, <1>3, <1>4, <1>6, MultiplesApart
<1>7. CASE s = q
  BY <1>1, <1>2, <1>3, <1>4, <1>7
<1> QED BY <1>1, <1>2, <1>5, <1>6, <1>7

-----------------------------------------------------------------------------
(* Stretches                                                               *)

\* A stretch of consecutive slots, the slots given.
Stretch(slots, from, to) == [k \in 1 .. to - from |-> slots[from + k - 1]]

LEMMA FunctionIsSequence ==
  ASSUME NEW Value, NEW n \in Nat, NEW s \in [1 .. n -> Value]
  PROVE  s \in Seq(Value) /\ Len(s) = n
  OBVIOUS

\* Whatever was stored in a slot, a stretch is a sequence of such things.
Stored(slots) == {slots[p] : p \in Nat}

LEMMA StretchSlots ==
  ASSUME NEW slots, NEW from \in Nat, NEW to \in Nat
  PROVE  \A k \in 1 .. to - from : Stretch(slots, from, to)[k] = slots[from + k - 1]
  BY DEF Stretch

LEMMA StretchIsSequence ==
  ASSUME NEW slots, NEW from \in Nat, NEW to \in Nat, from <= to
  PROVE  /\ Stretch(slots, from, to) \in Seq(Stored(slots))
         /\ Len(Stretch(slots, from, to)) = to - from
<1> DEFINE n == to - from
<1>1. n \in Nat
  OBVIOUS
<1>2. \A k \in 1 .. n : /\ from + k - 1 \in Nat
                        /\ from <= from + k - 1 /\ from + k - 1 < to
  OBVIOUS
<1>3. \A k \in 1 .. n : slots[from + k - 1] \in Stored(slots)
  BY <1>2 DEF Stored
<1> HIDE DEF n
<1>4. \A s \in [1 .. n -> Stored(slots)] : s \in Seq(Stored(slots)) /\ Len(s) = n
  BY <1>1, FunctionIsSequence
<1>5. [k \in 1 .. n |-> slots[from + k - 1]] \in [1 .. n -> Stored(slots)]
  BY <1>3
<1> QED BY <1>4, <1>5 DEF Stretch, n

\* The slots outside a stretch do not matter.
LEMMA StretchDependsOn ==
  ASSUME NEW slots, NEW other, NEW from \in Nat, NEW to \in Nat,
         \A p \in Nat : from <= p /\ p < to => slots[p] = other[p]
  PROVE  Stretch(slots, from, to) = Stretch(other, from, to)
<1>1. \A k \in 1 .. to - from :
        /\ from + k - 1 \in Nat /\ from <= from + k - 1 /\ from + k - 1 < to
  OBVIOUS
<1> QED BY <1>1 DEF Stretch

\* One slot more at the end: a write.
LEMMA StretchGrows ==
  ASSUME NEW slots, NEW from \in Nat, NEW to \in Nat, from <= to
  PROVE  Stretch(slots, from, to + 1) = Append(Stretch(slots, from, to), slots[to])
<1> DEFINE S == Stretch(slots, from, to)
           T == Stretch(slots, from, to + 1)
           A == Append(S, slots[to])
           n == to - from
<1>1. /\ S \in Seq(Stored(slots)) /\ Len(S) = n
      /\ \A k \in 1 .. n : S[k] = slots[from + k - 1]
  <2>1. S \in Seq(Stored(slots)) /\ Len(S) = n
    BY StretchIsSequence, Zenon
  <2>2. \A k \in 1 .. n : S[k] = slots[from + k - 1]
    BY StretchSlots, Zenon
  <2> QED BY <2>1, <2>2
<1>2. /\ T \in Seq(Stored(slots)) /\ Len(T) = n + 1
      /\ \A k \in 1 .. n + 1 : T[k] = slots[from + k - 1]
  <2> DEFINE next == to + 1
  <2>1. from <= next /\ next - from = n + 1 /\ next \in Nat
    OBVIOUS
  <2> HIDE DEF next
  <2>3. /\ Stretch(slots, from, next) \in Seq(Stored(slots))
        /\ Len(Stretch(slots, from, next)) = next - from
        /\ \A k \in 1 .. next - from : Stretch(slots, from, next)[k] = slots[from + k - 1]
    BY <2>1, StretchIsSequence, StretchSlots
  <2> QED BY <2>1, <2>3 DEF next
<1>3. n \in Nat /\ from + (n + 1) - 1 = to
  OBVIOUS
<1>4. slots[to] \in Stored(slots)
  BY DEF Stored
<1> HIDE DEF S, T, n
<1>5. /\ A \in Seq(Stored(slots)) /\ Len(A) = n + 1
      /\ \A k \in 1 .. n : A[k] = S[k]
      /\ A[n + 1] = slots[to]
  BY <1>1, <1>4, AppendProperties
<1> HIDE DEF A
<1>6. \A k \in 1 .. n + 1 : T[k] = A[k]
  <2> SUFFICES ASSUME NEW k \in 1 .. n + 1 PROVE T[k] = A[k]
    OBVIOUS
  <2>1. CASE k = n + 1
    BY <1>2, <1>3, <1>5, <2>1
  <2>2. CASE k # n + 1
    <3>1. k \in 1 .. n
      BY <1>3, <2>2
    <3> QED BY <1>1, <1>2, <1>5, <3>1
  <2> QED BY <2>1, <2>2
<1>7. T = A
  BY <1>2, <1>5, <1>6, SeqEqual
<1> QED BY <1>7 DEF S, T, A

\* One slot less at the front: a read.
LEMMA StretchShrinks ==
  ASSUME NEW slots, NEW from \in Nat, NEW to \in Nat, from < to
  PROVE  /\ Stretch(slots, from, to) # <<>>
         /\ Head(Stretch(slots, from, to)) = slots[from]
         /\ Tail(Stretch(slots, from, to)) = Stretch(slots, from + 1, to)
<1> DEFINE S == Stretch(slots, from, to)
           T == Stretch(slots, from + 1, to)
           n == to - from
<1>0. n \in Nat /\ n # 0 /\ from <= to
  OBVIOUS
<1>1. /\ S \in Seq(Stored(slots)) /\ Len(S) = n
      /\ \A k \in 1 .. n : S[k] = slots[from + k - 1]
  <2>1. S \in Seq(Stored(slots)) /\ Len(S) = n
    BY <1>0, StretchIsSequence, Zenon
  <2>2. \A k \in 1 .. n : S[k] = slots[from + k - 1]
    BY <1>0, StretchSlots, Zenon
  <2> QED BY <2>1, <2>2
<1>2. /\ T \in Seq(Stored(slots)) /\ Len(T) = n - 1
      /\ \A k \in 1 .. n - 1 : T[k] = slots[from + 1 + k - 1]
  <2> DEFINE first == from + 1
  <2>1. first \in Nat /\ first <= to /\ to - first = n - 1
    OBVIOUS
  <2> HIDE DEF first
  <2>3. /\ Stretch(slots, first, to) \in Seq(Stored(slots))
        /\ Len(Stretch(slots, first, to)) = to - first
        /\ \A k \in 1 .. to - first : Stretch(slots, first, to)[k] = slots[first + k - 1]
    BY <2>1, StretchIsSequence, StretchSlots
  <2> QED BY <2>1, <2>3 DEF first
<1>3. \A k \in 1 .. n - 1 : k + 1 \in 1 .. n /\ from + (k + 1) - 1 = from + 1 + k - 1
  BY <1>0
<1>4. from + 1 - 1 = from
  OBVIOUS
<1> HIDE DEF S, T, n
<1>5. S # <<>>
  BY <1>0, <1>1
<1>6. Head(S) = slots[from]
  BY <1>0, <1>1, <1>4, <1>5
<1>7. /\ Tail(S) \in Seq(Stored(slots)) /\ Len(Tail(S)) = n - 1
      /\ \A k \in 1 .. n - 1 : Tail(S)[k] = S[k + 1]
  BY <1>1, <1>5, HeadTailProperties
<1>8. \A k \in 1 .. n - 1 : Tail(S)[k] = T[k]
  BY <1>1, <1>2, <1>3, <1>7
<1>9. Tail(S) = T
  BY <1>2, <1>7, <1>8, SeqEqual
<1> QED BY <1>5, <1>6, <1>9 DEF S, T

\* t is the part of s from m to n.
IsPart(s, m, n, t) == SubSeq(s, m, n) = t

\* A part of a stretch is a stretch: what a flush or an unwrite cuts off.
LEMMA StretchPart ==
  ASSUME NEW slots, NEW from \in Nat, NEW to \in Nat,
         NEW a \in Nat, NEW b \in Nat, from <= a, a <= b, b <= to,
         NEW m \in Int, NEW n \in Int, m = a - from + 1, n = b - from
  PROVE  IsPart(Stretch(slots, from, to), m, n, Stretch(slots, a, b))
<1> DEFINE S == Stretch(slots, from, to)
           T == Stretch(slots, a, b)
           U == SubSeq(S, m, n)
<1>0. /\ from <= to /\ m \in Int /\ n \in Int
      /\ n - m + 1 = b - a /\ b - a \in Nat /\ (m <= n \/ n - m + 1 = 0)
      /\ \A k \in m .. n : k \in 1 .. to - from
      /\ \A k \in 1 .. b - a : m + k - 1 \in m .. n /\ from + (m + k - 1) - 1 = a + k - 1
  OBVIOUS
<1>1. /\ S \in Seq(Stored(slots)) /\ Len(S) = to - from
      /\ \A k \in 1 .. to - from : S[k] = slots[from + k - 1]
  <2>1. S \in Seq(Stored(slots)) /\ Len(S) = to - from
    BY <1>0, StretchIsSequence, Zenon
  <2>2. \A k \in 1 .. to - from : S[k] = slots[from + k - 1]
    BY DEF Stretch
  <2> QED BY <2>1, <2>2
<1>2. /\ T \in Seq(Stored(slots)) /\ Len(T) = b - a
      /\ \A k \in 1 .. b - a : T[k] = slots[a + k - 1]
  <2>1. T \in Seq(Stored(slots)) /\ Len(T) = b - a
    BY <1>0, StretchIsSequence, Zenon
  <2>2. \A k \in 1 .. b - a : T[k] = slots[a + k - 1]
    BY DEF Stretch
  <2> QED BY <2>1, <2>2
<1> HIDE DEF S, T
<1>3. \A k \in m .. n : S[k] \in Stored(slots)
  BY <1>0, <1>1, ElementOfSeq
<1>4. /\ U \in Seq(Stored(slots)) /\ Len(U) = (IF m <= n THEN n - m + 1 ELSE 0)
      /\ \A k \in 1 .. n - m + 1 : U[k] = S[m + k - 1]
  BY <1>0, <1>3, SubSeqProperties
<1>5. Len(U) = b - a
  BY <1>0, <1>4
<1>6. \A k \in 1 .. b - a : U[k] = T[k]
  BY <1>0, <1>1, <1>2, <1>4
<1> HIDE DEF U
<1>7. U = T
  BY <1>2, <1>4, <1>5, <1>6, SeqEqual
<1> QED BY <1>7 DEF S, T, U, IsPart

\* Two stretches that meet are one: what a flush adds to what is visible.
LEMMA StretchesJoin ==
  ASSUME NEW slots, NEW from \in Nat, NEW mid \in Nat, NEW to \in Nat,
         from <= mid, mid <= to
  PROVE  Stretch(slots, from, mid) \o Stretch(slots, mid, to)
           = Stretch(slots, from, to)
<1> DEFINE S == Stretch(slots, from, mid)
           T == Stretch(slots, mid, to)
           W == Stretch(slots, from, to)
           n == mid - from
           m == to - mid
<1>0. /\ n \in Nat /\ m \in Nat /\ to - from = n + m /\ from <= to
      /\ \A k \in 1 .. n + m : k > n => k - n \in 1 .. m /\ mid + (k - n) - 1 = from + k - 1
      /\ \A k \in 1 .. n + m : k <= n => k \in 1 .. n
  OBVIOUS
<1>1. /\ S \in Seq(Stored(slots)) /\ Len(S) = n
      /\ \A k \in 1 .. n : S[k] = slots[from + k - 1]
  <2>1. S \in Seq(Stored(slots)) /\ Len(S) = n
    BY <1>0, StretchIsSequence, Zenon
  <2>2. \A k \in 1 .. n : S[k] = slots[from + k - 1]
    BY <1>0, StretchSlots, Zenon
  <2> QED BY <2>1, <2>2
<1>2. /\ T \in Seq(Stored(slots)) /\ Len(T) = m
      /\ \A k \in 1 .. m : T[k] = slots[mid + k - 1]
  <2>1. T \in Seq(Stored(slots)) /\ Len(T) = m
    BY <1>0, StretchIsSequence, Zenon
  <2>2. \A k \in 1 .. m : T[k] = slots[mid + k - 1]
    BY DEF Stretch
  <2> QED BY <2>1, <2>2
<1>3. /\ W \in Seq(Stored(slots)) /\ Len(W) = to - from
      /\ \A k \in 1 .. to - from : W[k] = slots[from + k - 1]
  <2>1. W \in Seq(Stored(slots)) /\ Len(W) = to - from
    BY <1>0, StretchIsSequence, Zenon
  <2>2. \A k \in 1 .. to - from : W[k] = slots[from + k - 1]
    BY <1>0, StretchSlots, Zenon
  <2> QED BY <2>1, <2>2
<1> HIDE DEF S, T, W, n, m
<1>4. /\ S \o T \in Seq(Stored(slots)) /\ Len(S \o T) = n + m
      /\ \A k \in 1 .. n + m :
           (S \o T)[k] = IF k <= n THEN S[k] ELSE T[k - n]
  BY <1>1, <1>2, ConcatProperties
<1>5. \A k \in 1 .. n + m : (S \o T)[k] = W[k]
  <2> SUFFICES ASSUME NEW k \in 1 .. n + m PROVE (S \o T)[k] = W[k]
    OBVIOUS
  <2>0. k \in Nat /\ n \in Nat /\ (k > n <=> ~(k <= n))
    BY <1>0
  <2>1. W[k] = slots[from + k - 1]
    BY <1>0, <1>3
  <2>2. CASE k <= n
    BY <1>0, <1>1, <1>4, <2>1, <2>2
  <2>3. CASE k > n
    <3>1. k - n \in 1 .. m /\ mid + (k - n) - 1 = from + k - 1
      BY <1>0, <2>3
    <3>2. (S \o T)[k] = T[k - n]
      BY ONLY <1>4, <2>0, <2>3, k \in 1 .. n + m
    <3> QED BY <1>2, <2>1, <3>1, <3>2
  <2> QED BY <2>0, <2>2, <2>3
<1>6. Len(W) = n + m
  BY <1>0, <1>3
<1>7. S \o T = W
  BY <1>3, <1>4, <1>5, <1>6, SeqEqual
<1> QED BY <1>7 DEF S, T, W

\* t is s without its last element.
IsFront(s, t) == t = SubSeq(s, 1, Len(s) - 1)

\* The last slot of a stretch is taken back: an unwrite.
LEMMA StretchCut ==
  ASSUME NEW slots, NEW from \in Nat, NEW to \in Nat, from < to
  PROVE  IsFront(Stretch(slots, from, to), Stretch(slots, from, to - 1))
<1>1. Len(Stretch(slots, from, to)) = to - from
  <2>1. from <= to
    OBVIOUS
  <2> QED BY <2>1, StretchIsSequence
<1>2. PICK last, n, one : /\ n = Len(Stretch(slots, from, to)) - 1
                          /\ one = 1 /\ last = to - 1
  OBVIOUS
<1>3. /\ last \in Nat /\ n \in Int /\ one \in Int
      /\ from <= from /\ from <= last /\ last <= to /\ one = from - from + 1 /\ n = last - from
  BY <1>1, <1>2
<1>4. IsPart(Stretch(slots, from, to), one, n, Stretch(slots, from, last))
  BY <1>3, StretchPart
<1> QED BY <1>2, <1>4 DEF IsPart, IsFront

\* The first n elements of s go to the end of v, which leaves s1 and v1.
Moves(v, s, n, v1, s1) == v1 = v \o SubSeq(s, 1, n) /\ s1 = SubSeq(s, n + 1, Len(s))

\* A stretch is split in two, and its first part joins the one before: a flush.
LEMMA StretchMoves ==
  ASSUME NEW slots, NEW from \in Nat, NEW mid \in Nat, NEW cut \in Nat,
         NEW to \in Nat, from <= mid, mid <= cut, cut <= to
  PROVE  Moves(Stretch(slots, from, mid), Stretch(slots, mid, to), cut - mid,
               Stretch(slots, from, cut), Stretch(slots, cut, to))
<1>1. Len(Stretch(slots, mid, to)) = to - mid
  <2>1. mid <= to
    OBVIOUS
  <2> QED BY <2>1, StretchIsSequence
<1>2. PICK n, m, k, one : /\ n = Len(Stretch(slots, mid, to)) /\ one = 1
                          /\ m = cut - mid /\ k = cut - mid + 1
  OBVIOUS
<1>3. /\ n \in Int /\ m \in Int /\ k \in Int /\ one \in Int
      /\ mid <= mid /\ mid <= to /\ to <= to
      /\ one = mid - mid + 1 /\ m = cut - mid /\ k = cut - mid + 1 /\ n = to - mid
  BY <1>1, <1>2
<1>4. IsPart(Stretch(slots, mid, to), one, m, Stretch(slots, mid, cut))
  BY <1>3, StretchPart
<1>5. IsPart(Stretch(slots, mid, to), k, n, Stretch(slots, cut, to))
  BY <1>3, StretchPart
<1>6. Stretch(slots, from, mid) \o Stretch(slots, mid, cut) = Stretch(slots, from, cut)
  BY StretchesJoin
<1>7. Stretch(slots, from, mid) \o SubSeq(Stretch(slots, mid, to), one, m)
        = Stretch(slots, from, cut)
  BY <1>4, <1>6 DEF IsPart
<1> QED BY <1>2, <1>5, <1>7 DEF IsPart, Moves
=============================================================================
