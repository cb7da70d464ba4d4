--------------------------- MODULE TimeWheelProofs ---------------------------
(***************************************************************************)
(* The timing wheel for every size of its levels and every number of        *)
(* timers: a timer is linked once, is called back at its tick and is not     *)
(* overdue, unless add_node put it in a slot that never comes down.          *)
(***************************************************************************)
EXTENDS TimeWheel, SlotArithmetic

-----------------------------------------------------------------------------
(* The reach of the levels                                                 *)

IsReach(g, m) == g = [k \in 0 .. m |-> IF k = 0 THEN TIME_NEAR ELSE TIME_LEVEL * g[k - 1]]

LEMMA ReachExists ==
  ASSUME NEW m \in Nat
  PROVE  \E g : IsReach(g, m)
<1> DEFINE T == {n \in Nat : ~ \E g : IsReach(g, n)}
<1>1. CASE T = {}
  BY <1>1
<1>2. CASE T # {}
  <2>1. PICK n \in T : \A y \in T : n <= y
    BY <1>2, LeastPosition
  <2>2. CASE n = 0
    <3>1. PICK g : g = [k \in 0 .. n |-> TIME_NEAR]
      OBVIOUS
    <3>2. \A k \in 0 .. n : k = 0
      BY <2>2
    <3>3. IsReach(g, n)
      BY <3>1, <3>2 DEF IsReach
    <3> QED BY <2>1, <3>3
  <2>3. CASE n # 0
    <3>1. n - 1 \in Nat /\ n - 1 < n
      BY <2>3
    <3>2. PICK g : IsReach(g, n - 1)
      BY <2>1, <3>1
    <3>3. PICK h : h = [k \in 0 .. n |-> IF k = n THEN TIME_LEVEL * g[n - 1] ELSE g[k]]
      OBVIOUS
    <3>4. \A k \in 0 .. n - 1 : h[k] = g[k]
      BY <3>1, <3>3
    <3>5. \A k \in 0 .. n : h[k] = IF k = 0 THEN TIME_NEAR ELSE TIME_LEVEL * h[k - 1]
      <4> SUFFICES ASSUME NEW k \in 0 .. n
                   PROVE  h[k] = IF k = 0 THEN TIME_NEAR ELSE TIME_LEVEL * h[k - 1]
        OBVIOUS
      <4>1. CASE k = n
        <5>1. h[k] = TIME_LEVEL * g[n - 1] /\ k # 0 /\ h[k - 1] = g[n - 1]
          BY <2>3, <3>1, <3>3, <3>4, <4>1
        <5> QED BY <5>1
      <4>2. CASE k # n
        <5>1. k \in 0 .. n - 1 /\ (k # 0 => k - 1 \in 0 .. n - 1)
          BY <3>1, <4>2
        <5>2. g[k] = IF k = 0 THEN TIME_NEAR ELSE TIME_LEVEL * g[k - 1]
          BY <3>2, <5>1 DEF IsReach
        <5> QED BY <3>4, <5>1, <5>2
      <4> QED BY <4>1, <4>2
    <3>6. IsReach(h, n)
      BY <3>3, <3>5 DEF IsReach
    <3> QED BY <2>1, <3>6
  <2> QED BY <2>2, <2>3
<1> QED BY <1>1, <1>2

\* The sizes of timewheel.c:53-59.
LEMMA ReachValues ==
  /\ Reach[0] = TIME_NEAR
  /\ \A k \in 1 .. Levels : Reach[k] = TIME_LEVEL * Reach[k - 1]
<1>1. Levels \in Nat
  BY WheelAssumption
<1>2. Reach = CHOOSE g : IsReach(g, Levels)
  BY DEF Reach, IsReach
<1>3. IsReach(Reach, Levels)
  BY <1>1, <1>2, ReachExists
<1>4. \A k \in 0 .. Levels : Reach[k] = IF k = 0 THEN TIME_NEAR ELSE TIME_LEVEL * Reach[k - 1]
  BY <1>3 DEF IsReach
<1>5. 0 \in 0 .. Levels /\ \A k \in 1 .. Levels : k \in 0 .. Levels /\ k # 0
  BY <1>1
<1> QED BY <1>4, <1>5

LEMMA ReachPositive == \A k \in 0 .. Levels : Reach[k] \in Nat \ {0}
<1> DEFINE T == {k \in 0 .. Levels : Reach[k] \notin Nat \ {0}}
<1>1. SUFFICES ASSUME T # {} PROVE FALSE
  OBVIOUS
<1>2. PICK k \in T : \A y \in T : k <= y
  <2>1. T \in SUBSET Nat
    BY WheelAssumption
  <2> HIDE DEF T
  <2> QED BY <1>1, <2>1, LeastPosition
<1>3. k # 0
  BY <1>2, ReachValues, WheelAssumption
<1>4. k \in 1 .. Levels /\ k - 1 \in 0 .. Levels
  BY <1>2, <1>3, WheelAssumption
<1>5. Reach[k - 1] \in Nat \ {0}
  BY <1>2, <1>4
<1>6. Reach[k] = TIME_LEVEL * Reach[k - 1]
  BY <1>4, ReachValues
<1>7. \A a, b \in Nat \ {0} : a * b \in Nat \ {0}
  BY SMTT(30)
<1> QED BY <1>2, <1>5, <1>6, <1>7, WheelAssumption

\* The reach of a level is a multiple of that of every level below.
LEMMA ReachDivides ==
  ASSUME NEW j \in 0 .. Levels, NEW k \in 0 .. Levels, j <= k
  PROVE  \E m \in Nat \ {0} : Reach[k] = Reach[j] * m
<1> DEFINE Times_(i) == \E m \in Nat \ {0} : Reach[i] = Reach[j] * m
           T == {i \in j .. Levels : ~Times_(i)}
<1>1. SUFFICES ASSUME T # {} PROVE FALSE
  BY WheelAssumption
<1>2. PICK i \in T : \A y \in T : i <= y
  <2>1. T \in SUBSET Nat
    BY WheelAssumption
  <2> HIDE DEF T
  <2> QED BY <1>1, <2>1, LeastPosition
<1>3. i # j
  <2>1. Reach[j] = Reach[j] * 1
    BY ReachPositive
  <2> QED BY <1>2, <2>1
<1>4. i \in 1 .. Levels /\ i - 1 \in j .. Levels
  BY <1>2, <1>3, WheelAssumption
<1>5. PICK m \in Nat \ {0} : Reach[i - 1] = Reach[j] * m
  BY <1>2, <1>4
<1>6. Reach[i] = TIME_LEVEL * (Reach[j] * m)
  BY <1>4, <1>5, ReachValues
<1>7. \A a, b, c \in Nat \ {0} : a * (b * c) = b * (a * c) /\ a * c \in Nat \ {0}
  BY SMTT(30)
<1>8. Reach[j] \in Nat \ {0} /\ TIME_LEVEL \in Nat \ {0}
  BY ReachPositive, WheelAssumption
<1>9. Reach[i] = Reach[j] * (TIME_LEVEL * m) /\ TIME_LEVEL * m \in Nat \ {0}
  BY <1>6, <1>7, <1>8
<1>10. Times_(i)
  BY <1>9
<1> QED BY <1>2, <1>10

LEMMA TimesPositive == Times \in Nat \ {0}
  BY ReachPositive, WheelAssumption DEF Times

-----------------------------------------------------------------------------
(* Differences of times                                                    *)

\* The unsigned subtraction of timewheel.c:52.
LEMMA Difference ==
  ASSUME NEW n \in Nat \ {0}, NEW x \in 0 .. n - 1, NEW t \in 0 .. n - 1
  PROVE  (x - t) % n = IF t <= x THEN x - t ELSE x - t + n
<1>1. \A a \in 0 .. n - 1 : a % n = a
  <2> SUFFICES ASSUME NEW a \in 0 .. n - 1 PROVE a % n = a
    OBVIOUS
  <2> QED BY SMTT(30)
<1>2. CASE t <= x
  BY <1>1, <1>2
<1>3. CASE x < t
  <2>1. \A a \in 1 - n .. -1 : a % n = a + n
    BY SMTT(30)
  <2> QED BY <1>3, <2>1
<1> QED BY <1>2, <1>3

LEMMA Successor ==
  ASSUME NEW n \in Nat \ {0}, NEW t \in 0 .. n - 1
  PROVE  (t + 1) % n = IF t + 1 = n THEN 0 ELSE t + 1
<1>1. CASE t + 1 = n
  BY <1>1, SMTT(30)
<1>2. CASE t + 1 # n
  <2>1. t + 1 \in 0 .. n - 1
    BY <1>2
  <2>2. \A a \in 0 .. n - 1 : a % n = a
    BY SMTT(30)
  <2> QED BY <1>2, <2>1, <2>2
<1> QED BY <1>1, <1>2

\* A tick brings every time that is not now one unit nearer.
LEMMA Nearer ==
  ASSUME NEW n \in Nat \ {0}, NEW x \in 0 .. n - 1, NEW t \in 0 .. n - 1, x # t
  PROVE  /\ (t + 1) % n \in 0 .. n - 1
         /\ (x - ((t + 1) % n)) % n = ((x - t) % n) - 1
         /\ (x - t) % n >= 1
<1>1. (t + 1) % n \in 0 .. n - 1
  BY Successor
<1>2. (x - t) % n = IF t <= x THEN x - t ELSE x - t + n
  BY Difference
<1> DEFINE s == (t + 1) % n
<1>3. s = IF t + 1 = n THEN 0 ELSE t + 1
  BY Successor
<1>4. s \in 0 .. n - 1
  BY <1>1
<1> HIDE DEF s
<1>5. (x - s) % n = IF s <= x THEN x - s ELSE x - s + n
  BY <1>4, Difference
<1>6. (x - s) % n = ((x - t) % n) - 1 /\ (x - t) % n >= 1
  BY <1>2, <1>3, <1>5
<1> QED BY <1>1, <1>6 DEF s
\* Whole turns more lead to the same slot.
LEMMA WholeTurns ==
  ASSUME NEW a \in Nat, NEW n \in Nat \ {0}, NEW m \in Nat
  PROVE  (a + n * m) % n = a % n
<1>1. n * m \in Nat
  BY SMTT(30)
<1>2. a \div n \in Nat /\ a % n \in 0 .. n - 1 /\ a = n * (a \div n) + (a % n)
  BY DivMod
<1> DEFINE b == a + n * m
<1>3. b \in Nat
  BY <1>1
<1>4. b \div n \in Nat /\ b % n \in 0 .. n - 1 /\ b = n * (b \div n) + (b % n)
  BY <1>3, DivMod
<1>5. \A q, r \in Nat : n * (q + r) = n * q + n * r
  BY SMTT(30)
<1>6. n * (a \div n) \in Int
  BY <1>2
<1> DEFINE q == a \div n    r == a % n    s == b \div n    t == b % n
<1>7. n * (q + m) + r = n * s + t
  <2>1. n * (q + m) = n * q + n * m
    BY <1>2, <1>5
  <2> HIDE DEF q, s, t, r
  <2>2. a = n * q + r /\ a + n * m = n * s + t /\ q \in Nat /\ s \in Nat /\ r \in Nat /\ t \in Nat
    BY <1>2, <1>4 DEF q, r, s, t, b
  <2>3. n * q \in Int /\ n * s \in Int
    BY <2>2
  <2> QED BY <1>1, <2>1, <2>2, <2>3
<1>8. q + m \in Int /\ s \in Int /\ r \in 0 .. n - 1 /\ t \in 0 .. n - 1
  BY <1>2, <1>4
<1> DEFINE p == q + m
<1>9. p \in Int /\ n * p + r = n * s + t
  BY <1>7, <1>8
<1> HIDE DEF q, r, s, t, p
<1>10. r = t
  BY <1>8, <1>9, DivModUnique
<1> QED BY <1>10 DEF r, t, b

\* A quotient is read off a sum.
LEMMA Multiple ==
  ASSUME NEW n \in Nat \ {0}, NEW q \in Nat
  PROVE  n * q \in Nat /\ (n * q) \div n = q /\ (n * q) % n = 0
<1>1. n * q \in Nat
  BY SMTT(30)
<1> DEFINE s == (n * q) \div n    t == (n * q) % n
<1>2. s \in Nat /\ t \in 0 .. n - 1 /\ n * q = n * s + t
  BY <1>1, DivMod
<1> HIDE DEF s, t
<1>3. n * q + 0 = n * s + t
  BY <1>1, <1>2
<1>4. q = s /\ 0 = t
  <2>1. q \in Int /\ s \in Int /\ 0 \in 0 .. n - 1
    BY <1>2
  <2> QED BY <1>2, <1>3, <2>1, DivModUnique
<1> QED BY <1>1, <1>4 DEF s, t

\* In a slot of near that is due there are only timers of this very tick
\* (timewheel.c:53-54 and 132).
LEMMA NearIsDue ==
  ASSUME NEW x \in 0 .. Times - 1, NEW t \in 0 .. Times - 1,
         x % TIME_NEAR = t % TIME_NEAR, (x - t) % Times < TIME_NEAR
  PROVE  x = t
<1>1. Times \in Nat \ {0} /\ TIME_NEAR \in Nat \ {0}
  BY TimesPositive, WheelAssumption
<1>2. PICK m \in Nat \ {0} : Times = TIME_NEAR * m
  <2>1. 0 \in 0 .. Levels /\ Levels \in 0 .. Levels /\ 0 <= Levels
    BY WheelAssumption
  <2> QED BY <2>1, ReachDivides, ReachValues DEF Times
<1>3. (x - t) % Times = IF t <= x THEN x - t ELSE x - t + Times
  BY <1>1, Difference
<1>4. x \in Nat /\ t \in Nat
  BY <1>1
<1>5. CASE t <= x
  <2>1. x < t + TIME_NEAR
    BY <1>1, <1>3, <1>4, <1>5
  <2>2. ~(t < x)
    BY <1>1, <1>4, <2>1, SlotsDiffer
  <2> QED BY <1>4, <1>5, <2>2
<1>6. CASE x < t
  <2> DEFINE y == x + Times
  <2>1. y \in Nat /\ t < y /\ y < t + TIME_NEAR
    BY <1>1, <1>3, <1>4, <1>6
  <2>2. y % TIME_NEAR = x % TIME_NEAR
    BY <1>1, <1>2, <1>4, WholeTurns
  <2>3. t % TIME_NEAR # y % TIME_NEAR
    <3> HIDE DEF y
    <3> QED BY <1>1, <1>4, <2>1, SlotsDiffer
  <2> QED BY <2>2, <2>3
<1> QED BY <1>4, <1>5, <1>6

-----------------------------------------------------------------------------
(* Coming down                                                             *)

LEMMA DigitInRange ==
  ASSUME NEW t \in Nat, NEW k \in 0 .. Levels
  PROVE  <<k, Digit(t, k)>> \in Slots
<1>1. CASE k = 0
  <2>1. t % TIME_NEAR \in 0 .. TIME_NEAR - 1
    BY DivMod, WheelAssumption
  <2> QED BY <1>1, <2>1 DEF Digit, Slots
<1>2. CASE k # 0
  <2>1. k \in 1 .. Levels /\ k - 1 \in 0 .. Levels
    BY <1>2, WheelAssumption
  <2>2. Reach[k - 1] \in Nat \ {0}
    BY <2>1, ReachPositive
  <2>3. t \div Reach[k - 1] \in Nat
    BY <2>2, DivMod
  <2>4. (t \div Reach[k - 1]) % TIME_LEVEL \in 0 .. TIME_LEVEL - 1
    BY <2>3, DivMod, WheelAssumption
  <2> QED BY <1>2, <2>1, <2>4 DEF Digit, Slots
<1> QED BY <1>1, <1>2

\* A time that the level k divides has only zeros below: the loop of
\* timer_shift (timewheel.c:106-114) gets to k.
LEMMA ZerosBelow ==
  ASSUME NEW k \in 1 .. Levels, NEW q \in Nat, NEW j \in 0 .. k - 1
  PROVE  Digit(Reach[k - 1] * q, j) = 0
<1>1. k - 1 \in 0 .. Levels /\ j \in 0 .. Levels /\ j <= k - 1
  BY WheelAssumption
<1>2. PICK m \in Nat \ {0} : Reach[k - 1] = Reach[j] * m
  BY <1>1, ReachDivides
<1>3. Reach[j] \in Nat \ {0} /\ Reach[k - 1] \in Nat \ {0} /\ TIME_LEVEL \in Nat \ {0}
  BY <1>1, ReachPositive, WheelAssumption
<1>4. m * q \in Nat /\ TIME_LEVEL * (m * q) \in Nat
  <2>1. \A a, b \in Nat : a * b \in Nat
    BY SMTT(30)
  <2>2. m * q \in Nat
    BY <2>1
  <2> QED BY <1>3, <2>1, <2>2
<1>5. \A a, b, c \in Nat : (a * b) * c = a * (b * c)
  BY SMTT(30)
<1>6. Reach[k - 1] * q = Reach[j] * (m * q)
  BY <1>2, <1>3, <1>5
<1>7. CASE j = 0
  <2>1. Digit(Reach[k - 1] * q, j) = (Reach[j] * (m * q)) % Reach[j]
    BY <1>6, <1>7, ReachValues DEF Digit
  <2>2. (Reach[j] * (m * q)) % Reach[j] = 0
    BY <1>3, <1>4, Multiple
  <2> QED BY <2>1, <2>2
<1>8. CASE j # 0
  <2>1. j \in 1 .. Levels /\ j - 1 \in 0 .. Levels
    BY <1>1, <1>8, WheelAssumption
  <2>2. Reach[j] = TIME_LEVEL * Reach[j - 1] /\ Reach[j - 1] \in Nat \ {0}
    BY <2>1, ReachValues, ReachPositive
  <2>3. \A a, b, c \in Nat : (a * b) * c = b * (a * c)
    BY SMTT(30)
  <2>4. Reach[k - 1] * q = Reach[j - 1] * (TIME_LEVEL * (m * q))
    BY <1>3, <1>4, <1>6, <2>2, <2>3
  <2>5. (Reach[j - 1] * (TIME_LEVEL * (m * q))) \div Reach[j - 1] = TIME_LEVEL * (m * q)
    BY <1>4, <2>2, Multiple
  <2>6. (TIME_LEVEL * (m * q)) % TIME_LEVEL = 0
    BY <1>3, <1>4, Multiple
  <2> QED BY <1>8, <2>4, <2>5, <2>6 DEF Digit
<1> QED BY <1>7, <1>8
\* The tick at which a timer is to leave its slot of level k: then timer_shift
\* moves just that slot (timewheel.c:96-116).
LEMMA ComesDown ==
  ASSUME NEW k \in 1 .. Levels, NEW x \in 0 .. Times - 1, NEW t \in 0 .. Times - 1,
         (x - t) % Times = x % Reach[k - 1],
         k < Levels => Digit(x, k) # 0
  PROVE  Digit(t, k) = Digit(x, k) /\ LevelToMove(t) = {k}
<1> DEFINE R == Reach[k - 1]
<1>1. /\ Levels \in Nat \ {0} /\ TIME_LEVEL \in Nat \ {0}
      /\ k - 1 \in 0 .. Levels /\ k \in 0 .. Levels /\ R \in Nat \ {0}
  BY ReachPositive, WheelAssumption
<1>2. x \in Nat /\ t \in Nat /\ Times \in Nat \ {0}
  BY TimesPositive
<1>3. x \div R \in Nat /\ x % R \in 0 .. R - 1 /\ x = R * (x \div R) + (x % R)
  BY <1>1, <1>2, DivMod
<1> DEFINE q == x \div R    d == x % R
<1>4. t = R * q
  <2>1. d = IF t <= x THEN x - t ELSE x - t + Times
    BY <1>2, Difference
  <2>2. R * q \in Nat /\ d \in Nat
    <3>1. d \in Nat /\ R \in Nat \ {0} /\ q \in Nat
      BY <1>1, <1>3
    <3> HIDE DEF R, q, d
    <3> QED BY <3>1, Multiple
  <2> HIDE DEF R, q, d
  <2>3. d <= x /\ x = R * q + d
    BY <1>3, <2>2 DEF R, q, d
  <2> QED BY <1>2, <2>1, <2>2, <2>3
<1>5. t \div R = q
  <2> HIDE DEF R, q
  <2>1. R \in Nat \ {0} /\ q \in Nat
    BY <1>1, <1>3 DEF R, q
  <2> QED BY <1>4, <2>1, Multiple
<1>6. Digit(t, k) = Digit(x, k)
  BY <1>1, <1>5 DEF Digit
<1>7. \A j \in 0 .. k - 1 : Digit(t, j) = 0
  BY <1>3, <1>4, ZerosBelow
<1>8. CASE Digit(x, k) # 0
  <2>1. t # 0
    <3> SUFFICES ASSUME t = 0 PROVE FALSE
      OBVIOUS
    <3>1. \A n \in Nat \ {0} : 0 \div n = 0 /\ 0 % n = 0
      <4> SUFFICES ASSUME NEW n \in Nat \ {0} PROVE 0 \div n = 0 /\ 0 % n = 0
        OBVIOUS
      <4>1. n * 0 = 0
        OBVIOUS
      <4> QED BY <4>1, Multiple
    <3>2. Digit(0, k) = 0
      BY <1>1, <3>1 DEF Digit
    <3> QED BY <1>6, <1>8, <3>2
  <2>2. Digit(t, 0) = 0
    BY <1>1, <1>7
  <2>3. \A j \in 1 .. Levels :
          (Digit(t, j) # 0 /\ \A i \in 1 .. j - 1 : Digit(t, i) = 0) <=> j = k
    <3> SUFFICES ASSUME NEW j \in 1 .. Levels
                 PROVE  (Digit(t, j) # 0 /\ \A i \in 1 .. j - 1 : Digit(t, i) = 0) <=> j = k
      OBVIOUS
    <3>1. CASE j < k
      <4>1. Digit(t, j) = 0
        BY <1>7, <3>1
      <4> QED BY <3>1, <4>1
    <3>2. CASE j = k
      <4>1. \A i \in 1 .. j - 1 : Digit(t, i) = 0
        BY <1>7, <3>2
      <4> QED BY <1>6, <1>8, <3>2, <4>1
    <3>3. CASE j > k
      <4>1. k \in 1 .. j - 1
        BY <3>3
      <4> QED BY <1>6, <1>8, <3>3, <4>1
    <3> QED BY <3>1, <3>2, <3>3
  <2> QED BY <1>6, <2>1, <2>2, <2>3 DEF LevelToMove
<1>9. CASE Digit(x, k) = 0
  <2>1. k = Levels
    BY <1>1, <1>9
  <2>2. Times = TIME_LEVEL * R
    BY <1>1, <2>1, ReachValues DEF Times
  <2>3. q < TIME_LEVEL
    <3> SUFFICES ASSUME TIME_LEVEL <= q PROVE FALSE
      BY <1>1, <1>3
    <3> HIDE DEF R, q
    <3>1. \A a, b, c \in Nat : b <= c => b * a <= a * c
      BY SMTT(30)
    <3>2. TIME_LEVEL * R <= R * q
      BY <1>1, <1>3, <3>1 DEF R, q
    <3> QED BY <1>2, <1>4, <2>2, <3>2
  <2>4. q % TIME_LEVEL = q
    <3>1. q \in 0 .. TIME_LEVEL - 1
      BY <1>1, <1>3, <2>3
    <3>2. \A n \in Nat \ {0} : \A a \in 0 .. n - 1 : (a - 0) % n = a - 0
      <4> SUFFICES ASSUME NEW n \in Nat \ {0}, NEW a \in 0 .. n - 1
                   PROVE  (a - 0) % n = a - 0
        OBVIOUS
      <4>1. 0 \in 0 .. n - 1 /\ 0 <= a
        OBVIOUS
      <4> QED BY <4>1, Difference
    <3>3. (q - 0) % TIME_LEVEL = q - 0
      BY <1>1, <3>1, <3>2
    <3> QED BY <1>3, <3>3
  <2>5. q = 0
    BY <1>1, <1>9, <2>4 DEF Digit
  <2>6. t = 0
    BY <1>1, <1>4, <2>5
  <2> QED BY <1>6, <2>1, <2>6 DEF LevelToMove
<1> QED BY <1>8, <1>9
-----------------------------------------------------------------------------
(* Where a timer belongs                                                   *)

\* How far x lies ahead of t.
Left(x, t) == (x - t) % Times

\* The slots 0 that timer_shift never moves.
Forsaken(s) == s[1] \in 1 .. Levels - 1 /\ s[2] = 0

\* What holds at the time t of the slot s of a timer that expires at x: it has
\* the digit of x; in near it is due before the slot comes round again; and in
\* a higher level the tick that moves the slot down is yet to come.
Fits(s, x, t) ==
  /\ s[2] = Digit(x, s[1])
  /\ s[1] = 0 => Left(x, t) < TIME_NEAR
  /\ ~Forsaken(s) => /\ Left(x, t) <= MaxDelay
                     /\ s[1] # 0 => x % Reach[s[1] - 1] < Left(x, t)

LEMMA LeftRange ==
  ASSUME NEW x \in 0 .. Times - 1, NEW t \in 0 .. Times - 1
  PROVE  Left(x, t) \in 0 .. Times - 1
  BY TimesPositive, Difference DEF Left

\* The cases of add_node (timewheel.c:53-63) cover every difference.
LEMMA LevelForIsLevel ==
  ASSUME NEW d \in 0 .. Times - 1
  PROVE  /\ LevelFor(d) \in 0 .. Levels
         /\ LevelFor(d) = 0 => d < TIME_NEAR
         /\ LevelFor(d) # 0 => Reach[LevelFor(d) - 1] <= d
<1>1. Levels \in Nat \ {0} /\ TIME_NEAR \in Nat \ {0} /\ d \in Nat
  BY WheelAssumption
<1>2. CASE d < TIME_NEAR
  BY <1>1, <1>2 DEF LevelFor
<1>3. CASE ~(d < TIME_NEAR)
  <2> DEFINE T == {k \in 0 .. Levels : d < Reach[k]}
  <2>1. Levels \in T
    BY <1>1, TimesPositive DEF Times
  <2>2. PICK k \in T : \A y \in T : k <= y
    <3>1. T \in SUBSET Nat
      BY <1>1
    <3> HIDE DEF T
    <3> QED BY <2>1, <3>1, LeastPosition
  <2>3. k # 0
    BY <1>3, <2>2, ReachValues
  <2>4. k \in 1 .. Levels /\ k - 1 \in 0 .. Levels /\ k - 1 \notin T
    BY <1>1, <2>2, <2>3
  <2>5. d >= Reach[k - 1] /\ d < Reach[k]
    BY <1>1, <2>2, <2>4, ReachPositive
  <2>6. LevelFor(d) = CHOOSE j \in 1 .. Levels : d >= Reach[j - 1] /\ d < Reach[j]
    BY <1>3 DEF LevelFor
  <2>7. LevelFor(d) \in 1 .. Levels /\ d >= Reach[LevelFor(d) - 1]
    BY <2>4, <2>5, <2>6
  <2>8. LevelFor(d) - 1 \in 0 .. Levels
    BY <1>1, <2>7
  <2> QED BY <1>1, <2>7, <2>8, ReachPositive
<1> QED BY <1>2, <1>3

\* add_node picks a slot where the timer fits.
LEMMA SlotFits ==
  ASSUME NEW x \in 0 .. Times - 1, NEW t \in 0 .. Times - 1, Left(x, t) <= MaxDelay
  PROVE  LET k == LevelFor(Left(x, t))
         IN <<k, Digit(x, k)>> \in Slots /\ Fits(<<k, Digit(x, k)>>, x, t)
<1> DEFINE d == Left(x, t)    k == LevelFor(d)    s == <<k, Digit(x, k)>>
<1>1. d \in 0 .. Times - 1 /\ x \in Nat
  BY LeftRange, TimesPositive
<1>2. /\ k \in 0 .. Levels
      /\ k = 0 => d < TIME_NEAR
      /\ k # 0 => Reach[k - 1] <= d
  <2> HIDE DEF d
  <2> QED BY <1>1, LevelForIsLevel
<1>3. s \in Slots
  <2> HIDE DEF k
  <2> QED BY <1>1, <1>2, DigitInRange
<1>4. k # 0 => x % Reach[k - 1] < d
  <2> SUFFICES ASSUME k # 0 PROVE x % Reach[k - 1] < d
    OBVIOUS
  <2> HIDE DEF d, k
  <2>1. k - 1 \in 0 .. Levels
    BY <1>2, WheelAssumption
  <2>2. Reach[k - 1] \in Nat \ {0}
    BY <2>1, ReachPositive
  <2>3. x % Reach[k - 1] \in 0 .. Reach[k - 1] - 1
    BY <1>1, <2>2, DivMod
  <2> QED BY <1>1, <1>2, <2>2, <2>3, TimesPositive
<1>5. s[1] = k /\ s[2] = Digit(x, k)
  OBVIOUS
<1> HIDE DEF s, k
<1>6. Fits(s, x, t)
  BY <1>2, <1>4, <1>5 DEF Fits
<1> QED BY <1>3, <1>6 DEF s, k
-----------------------------------------------------------------------------
(* A wheel in order                                                        *)

\* No timer is linked twice.
Once(w) ==
  \A s, r \in Slots : \A i \in 1 .. Len(w[s]), j \in 1 .. Len(w[r]) :
    w[s][i] = w[r][j] => s = r /\ i = j

Linked(w) == {n \in Nodes : \E s \in Slots : \E i \in 1 .. Len(w[s]) : w[s][i] = n}

Fitting(w, e, t) ==
  \A s \in Slots : \A i \in 1 .. Len(w[s]) : Fits(s, e[w[s][i]], t)

\* The wheel w holds the timers of S, each once and where it fits.
InOrder(w, S, e, t) ==
  /\ w \in [Slots -> Seq(Nodes)]
  /\ Once(w)
  /\ Linked(w) = S
  /\ Fitting(w, e, t)

LEMMA Appended ==
  ASSUME NEW q \in Seq(Nodes), NEW n \in Nodes
  PROVE  /\ Append(q, n) \in Seq(Nodes)
         /\ Len(Append(q, n)) = Len(q) + 1
         /\ \A i \in 1 .. Len(q) : Append(q, n)[i] = q[i]
         /\ Append(q, n)[Len(q) + 1] = n
         /\ Len(q) \in Nat
  BY AppendProperties, LenProperties

\* link (timewheel.c:41-46) keeps the wheel in order.
LEMMA LinkKeepsOrder ==
  ASSUME NEW w, NEW S, NEW e, NEW t, NEW n \in Nodes \ S, NEW c \in Slots,
         InOrder(w, S, e, t), Fits(c, e[n], t)
  PROVE  InOrder([w EXCEPT ![c] = Append(@, n)], S \cup {n}, e, t)
<1> DEFINE v == [w EXCEPT ![c] = Append(@, n)]
<1>1. /\ w \in [Slots -> Seq(Nodes)] /\ Once(w) /\ Linked(w) = S /\ Fitting(w, e, t)
  BY DEF InOrder
<1>2. w[c] \in Seq(Nodes)
  BY <1>1
<1>3. /\ v[c] \in Seq(Nodes) /\ Len(v[c]) = Len(w[c]) + 1 /\ Len(w[c]) \in Nat
      /\ \A i \in 1 .. Len(w[c]) : v[c][i] = w[c][i]
      /\ v[c][Len(w[c]) + 1] = n
  <2>1. v[c] = Append(w[c], n)
    BY <1>1
  <2> QED BY <1>2, <2>1, Appended
<1>4. \A s \in Slots \ {c} : v[s] = w[s]
  BY <1>1
<1>5. v \in [Slots -> Seq(Nodes)]
  BY <1>1, <1>3
<1> HIDE DEF v
<1>6. \A s \in Slots : \A i \in 1 .. Len(v[s]) :
        \/ i \in 1 .. Len(w[s]) /\ v[s][i] = w[s][i] /\ w[s][i] \in S
        \/ s = c /\ i = Len(w[c]) + 1 /\ v[s][i] = n
  <2> SUFFICES ASSUME NEW s \in Slots, NEW i \in 1 .. Len(v[s])
               PROVE  \/ i \in 1 .. Len(w[s]) /\ v[s][i] = w[s][i] /\ w[s][i] \in S
                      \/ s = c /\ i = Len(w[c]) + 1 /\ v[s][i] = n
    OBVIOUS
  <2>1. \A j \in 1 .. Len(w[s]) : w[s][j] \in S
    <3>1. \A j \in 1 .. Len(w[s]) : w[s][j] \in Nodes
      BY <1>1
    <3> QED BY <1>1, <3>1 DEF Linked
  <2>2. CASE s = c /\ i = Len(w[c]) + 1
    BY <1>3, <2>2
  <2>3. CASE s = c /\ i # Len(w[c]) + 1
    <3>1. i \in 1 .. Len(w[c])
      BY <1>3, <2>3
    <3> QED BY <1>3, <2>1, <2>3, <3>1
  <2>4. CASE s # c
    BY <1>4, <2>1, <2>4
  <2> QED BY <2>2, <2>3, <2>4
<1>7. Once(v)
  <2> SUFFICES ASSUME NEW s \in Slots, NEW r \in Slots,
                      NEW i \in 1 .. Len(v[s]), NEW j \in 1 .. Len(v[r]),
                      v[s][i] = v[r][j]
               PROVE  s = r /\ i = j
    BY DEF Once
  <2>1. \/ i \in 1 .. Len(w[s]) /\ v[s][i] = w[s][i] /\ w[s][i] \in S
        \/ s = c /\ i = Len(w[c]) + 1 /\ v[s][i] = n
    BY <1>6
  <2>2. \/ j \in 1 .. Len(w[r]) /\ v[r][j] = w[r][j] /\ w[r][j] \in S
        \/ r = c /\ j = Len(w[c]) + 1 /\ v[r][j] = n
    BY <1>6
  <2> QED BY <1>1, <2>1, <2>2 DEF Once
<1>8. Linked(v) = S \cup {n}
  <2>1. ASSUME NEW m \in Linked(v) PROVE m \in S \cup {n}
    BY <1>6, <2>1 DEF Linked
  <2>2. n \in Linked(v)
    <3>1. Len(w[c]) + 1 \in 1 .. Len(v[c])
      BY <1>3
    <3> QED BY <1>3, <3>1 DEF Linked
  <2>3. ASSUME NEW m \in S PROVE m \in Linked(v)
    <3>1. PICK s \in Slots : \E i \in 1 .. Len(w[s]) : w[s][i] = m
      BY <1>1 DEF Linked
    <3>2. PICK i \in 1 .. Len(w[s]) : w[s][i] = m
      BY <3>1
    <3>3. i \in 1 .. Len(v[s]) /\ v[s][i] = m
      BY <1>3, <1>4, <3>2
    <3>4. m \in Nodes
      BY <1>1 DEF Linked
    <3> QED BY <3>3, <3>4 DEF Linked
  <2> QED BY <2>1, <2>2, <2>3
<1>9. Fitting(v, e, t)
  <2> SUFFICES ASSUME NEW s \in Slots, NEW i \in 1 .. Len(v[s])
               PROVE  Fits(s, e[v[s][i]], t)
    BY DEF Fitting
  <2> QED BY <1>1, <1>6 DEF Fitting
<1> QED BY <1>5, <1>7, <1>8, <1>9 DEF InOrder, v

\* add_node keeps the wheel in order.
LEMMA AddNodeKeepsOrder ==
  ASSUME NEW w, NEW S, NEW e, NEW t \in 0 .. Times - 1, NEW n \in Nodes \ S,
         InOrder(w, S, e, t), e[n] \in 0 .. Times - 1, Left(e[n], t) <= MaxDelay
  PROVE  InOrder(AddNode(w, n, e[n], t), S \cup {n}, e, t)
<1> DEFINE k == LevelFor(Left(e[n], t))    c == <<k, Digit(e[n], k)>>
<1>1. c \in Slots /\ Fits(c, e[n], t)
  BY SlotFits
<1>2. AddNode(w, n, e[n], t) = [w EXCEPT ![c] = Append(@, n)]
  BY DEF AddNode, Left
<1> HIDE DEF c
<1>3. InOrder([w EXCEPT ![c] = Append(@, n)], S \cup {n}, e, t)
  BY <1>1, LinkKeepsOrder, Zenon
<1> QED BY <1>2, <1>3, Zenon

\* link_clear: the timers of the other slots stay.
LEMMA ClearKeepsOrder ==
  ASSUME NEW w, NEW S, NEW e, NEW t, NEW c \in Slots, InOrder(w, S, e, t)
  PROVE  InOrder([w EXCEPT ![c] = <<>>], S \ {w[c][i] : i \in 1 .. Len(w[c])}, e, t)
<1> DEFINE v == [w EXCEPT ![c] = <<>>]    C == {w[c][i] : i \in 1 .. Len(w[c])}
<1>1. /\ w \in [Slots -> Seq(Nodes)] /\ Once(w) /\ Linked(w) = S /\ Fitting(w, e, t)
  BY DEF InOrder
<1>2. v[c] = <<>> /\ \A s \in Slots \ {c} : v[s] = w[s]
  BY <1>1
<1>3. v \in [Slots -> Seq(Nodes)]
  BY <1>1
<1> HIDE DEF v
<1>4. \A s \in Slots : \A i \in 1 .. Len(v[s]) : s # c /\ v[s] = w[s]
  BY <1>2
<1>5. Once(v) /\ Fitting(v, e, t)
  BY <1>1, <1>4 DEF Once, Fitting
<1>6. Linked(v) = S \ C
  <2>1. ASSUME NEW m \in Linked(v) PROVE m \in S \ C
    BY <1>1, <1>4 DEF Linked, Once
  <2>2. ASSUME NEW m \in S \ C PROVE m \in Linked(v)
    <3>1. PICK s \in Slots : \E i \in 1 .. Len(w[s]) : w[s][i] = m
      BY <1>1 DEF Linked
    <3>2. s # c
      BY <3>1
    <3>3. m \in Nodes
      BY <1>1 DEF Linked
    <3> QED BY <1>2, <3>1, <3>2, <3>3 DEF Linked
  <2> QED BY <2>1, <2>2
<1> QED BY <1>3, <1>5, <1>6 DEF InOrder, v
-----------------------------------------------------------------------------
(* move_list                                                               *)

\* g is the wheel after each of the first m nodes of a list, for a list that is
\* moved at the time t out of the wheel w.
IsMoved(g, m, nodes, w, e, t) ==
  g = [j \in 0 .. m |->
         IF j = 0 THEN w ELSE AddNode(g[j - 1], nodes[j], e[nodes[j]], t)]

LEMMA MovedExists ==
  ASSUME NEW m \in Nat, NEW nodes, NEW w, NEW e, NEW t
  PROVE  \E g : IsMoved(g, m, nodes, w, e, t)
<1> DEFINE T == {n \in Nat : ~ \E g : IsMoved(g, n, nodes, w, e, t)}
           Add(v, j) == AddNode(v, nodes[j], e[nodes[j]], t)
<1>1. CASE T = {}
  BY <1>1
<1>2. CASE T # {}
  <2>1. PICK n \in T : \A y \in T : n <= y
    BY <1>2, LeastPosition
  <2>2. CASE n = 0
    <3>1. PICK g : g = [j \in 0 .. n |-> w]
      OBVIOUS
    <3>2. \A j \in 0 .. n : j = 0
      BY <2>2
    <3>3. IsMoved(g, n, nodes, w, e, t)
      BY <3>1, <3>2 DEF IsMoved
    <3> QED BY <2>1, <3>3
  <2>3. CASE n # 0
    <3>1. n - 1 \in Nat /\ n - 1 < n
      BY <2>3
    <3>2. PICK g : IsMoved(g, n - 1, nodes, w, e, t)
      BY <2>1, <3>1
    <3>3. PICK h : h = [j \in 0 .. n |-> IF j = n THEN Add(g[n - 1], n) ELSE g[j]]
      OBVIOUS
    <3>4. \A j \in 0 .. n - 1 : h[j] = g[j]
      BY <3>1, <3>3
    <3>5. \A j \in 0 .. n - 1 : g[j] = IF j = 0 THEN w ELSE Add(g[j - 1], j)
      BY <3>2 DEF IsMoved
    <3> HIDE DEF Add
    <3>6. \A j \in 0 .. n : h[j] = IF j = 0 THEN w ELSE Add(h[j - 1], j)
      <4> SUFFICES ASSUME NEW j \in 0 .. n
                   PROVE  h[j] = IF j = 0 THEN w ELSE Add(h[j - 1], j)
        OBVIOUS
      <4>1. CASE j = n
        <5>1. h[j] = Add(g[n - 1], n) /\ j # 0 /\ h[j - 1] = g[n - 1]
          BY <2>3, <3>1, <3>3, <3>4, <4>1
        <5> QED BY <4>1, <5>1
      <4>2. CASE j # n
        <5>1. j \in 0 .. n - 1 /\ (j # 0 => j - 1 \in 0 .. n - 1)
          BY <3>1, <4>2
        <5> QED BY <3>4, <3>5, <5>1
      <4> QED BY <4>1, <4>2
    <3>7. h = [j \in 0 .. n |-> IF j = 0 THEN w ELSE Add(h[j - 1], j)]
      BY <3>3, <3>6
    <3>8. IsMoved(h, n, nodes, w, e, t)
      BY <3>7 DEF IsMoved, Add
    <3> QED BY <2>1, <3>8
  <2> QED BY <2>2, <2>3
<1> QED BY <1>1, <1>2

\* Adding again, one by one, the timers of a list that hangs in no slot.
LEMMA RelinkingKeepsOrder ==
  ASSUME NEW m \in Nat, NEW nodes \in Seq(Nodes), Len(nodes) = m,
         NEW w, NEW S, NEW e, NEW t \in 0 .. Times - 1, NEW g,
         IsMoved(g, m, nodes, w, e, t),
         InOrder(w, S, e, t),
         \A i, j \in 1 .. m : nodes[i] = nodes[j] => i = j,
         \A i \in 1 .. m : /\ nodes[i] \notin S
                           /\ e[nodes[i]] \in 0 .. Times - 1
                           /\ Left(e[nodes[i]], t) <= MaxDelay
  PROVE  InOrder(g[m], S \cup {nodes[i] : i \in 1 .. m}, e, t)
<1> DEFINE Put(j) == S \cup {nodes[i] : i \in 1 .. j}
           T == {j \in 0 .. m : ~InOrder(g[j], Put(j), e, t)}
<1>1. \A j \in 0 .. m :
        g[j] = IF j = 0 THEN w ELSE AddNode(g[j - 1], nodes[j], e[nodes[j]], t)
  BY DEF IsMoved
<1>2. T = {}
  <2> SUFFICES ASSUME T # {} PROVE FALSE
    OBVIOUS
  <2>1. PICK j \in T : \A y \in T : j <= y
    <3>1. T \in SUBSET Nat
      OBVIOUS
    <3> HIDE DEF T
    <3> QED BY <3>1, LeastPosition
  <2>2. j # 0
    <3>1. g[0] = w
      BY <1>1
    <3>2. {nodes[i] : i \in 1 .. 0} = {}
      OBVIOUS
    <3>3. Put(0) = S
      BY <3>2
    <3> QED BY <2>1, <3>1, <3>3
  <2>3. j - 1 \in 0 .. m /\ j - 1 \notin T /\ j \in 1 .. m
    <3>1. j \in 0 .. m
      BY <2>1
    <3> HIDE DEF T
    <3> QED BY <2>1, <2>2, <3>1
  <2>4. InOrder(g[j - 1], Put(j - 1), e, t)
    BY <2>3
  <2> DEFINE n == nodes[j]
  <2>5. n \in Nodes \ Put(j - 1)
    <3>1. n \in Nodes
      BY <2>3
    <3>2. \A i \in 1 .. j - 1 : i \in 1 .. m /\ i # j
      BY <2>3
    <3> QED BY <2>3, <3>1, <3>2
  <2>6. Put(j) = Put(j - 1) \cup {n}
    <3>1. 1 .. j = 1 .. j - 1 \cup {j}
      BY <2>3
    <3> QED BY <3>1
  <2>7. e[n] \in 0 .. Times - 1 /\ Left(e[n], t) <= MaxDelay
    BY <2>3
  <2>8. g[j] = AddNode(g[j - 1], n, e[n], t)
    BY <1>1, <2>2, <2>3
  <2>9. InOrder(AddNode(g[j - 1], n, e[n], t), Put(j - 1) \cup {n}, e, t)
    <3> HIDE DEF Put, n
    <3> QED BY <2>4, <2>5, <2>7, AddNodeKeepsOrder
  <2>10. InOrder(g[j], Put(j), e, t)
    <3> HIDE DEF Put, n
    <3> QED BY <2>6, <2>8, <2>9
  <2> QED BY <2>1, <2>10
<1>3. m \in 0 .. m /\ m \notin T
  <2> HIDE DEF T
  <2> QED BY <1>2
<1>4. InOrder(g[m], Put(m), e, t)
  <2> HIDE DEF Put
  <2> QED BY <1>3
<1> QED BY <1>4

\* move_list (timewheel.c:85-93) keeps the wheel in order at the time t, if it
\* is in order then but for the slot that is moved.
LEMMA MoveKeepsOrder ==
  ASSUME NEW c \in Slots, NEW t \in 0 .. Times - 1, wheel \in [Slots -> Seq(Nodes)],
         NEW S, InOrder([wheel EXCEPT ![c] = <<>>], S, expire, t),
         \A i, j \in 1 .. Len(wheel[c]) : wheel[c][i] = wheel[c][j] => i = j,
         \A i \in 1 .. Len(wheel[c]) : /\ wheel[c][i] \notin S
                                       /\ expire[wheel[c][i]] \in 0 .. Times - 1
                                       /\ Left(expire[wheel[c][i]], t) <= MaxDelay
  PROVE  InOrder(MoveList(c, t), S \cup {wheel[c][i] : i \in 1 .. Len(wheel[c])},
                 expire, t)
<1> DEFINE nodes == wheel[c]    m == Len(nodes)    w == [wheel EXCEPT ![c] = <<>>]
           g == CHOOSE h : IsMoved(h, m, nodes, w, expire, t)
<1>1. nodes \in Seq(Nodes) /\ m \in Nat
  BY LenProperties
<1>2. IsMoved(g, m, nodes, w, expire, t)
  <2> HIDE DEF nodes, m, w
  <2> QED BY <1>1, MovedExists
<1>3. MoveList(c, t) = g[m]
  BY DEF MoveList, IsMoved
<1>4. InOrder(g[m], S \cup {nodes[i] : i \in 1 .. m}, expire, t)
  <2>1. m = Len(nodes)
    OBVIOUS
  <2> HIDE DEF nodes, m, w, g
  <2>2. InOrder(w, S, expire, t)
    BY DEF w
  <2>3. /\ \A i, j \in 1 .. m : nodes[i] = nodes[j] => i = j
        /\ \A i \in 1 .. m : /\ nodes[i] \notin S
                             /\ expire[nodes[i]] \in 0 .. Times - 1
                             /\ Left(expire[nodes[i]], t) <= MaxDelay
    BY DEF nodes, m
  <2> QED BY <1>1, <1>2, <2>1, <2>2, <2>3, RelinkingKeepsOrder, Zenon
<1> QED BY <1>3, <1>4
-----------------------------------------------------------------------------
(* The invariant                                                           *)

Hung == {list[i] : i \in 1 .. Len(list)}

WheelTypes ==
  /\ time \in 0 .. Times - 1
  /\ Allocated \subseteq Nodes
  /\ \A n \in Allocated : expire[n] \in 0 .. Times - 1
  /\ list \in Seq(Nodes)
  /\ pc \in {"out", "first", "second", "call second"}

WheelOrdered == InOrder(wheel, Allocated \ Hung, expire, time)

ListOrdered ==
  /\ \A i, j \in 1 .. Len(list) : list[i] = list[j] => i = j
  /\ \A i \in 1 .. Len(list) : list[i] \in Allocated /\ expire[list[i]] = time

\* The first timer_execute of an update finds nothing: what was due was called
\* back by the second one of the update before, and a delay is never 0.
Executed ==
  /\ pc # "call second" => list = <<>>
  /\ pc \in {"out", "first"} => wheel[Due] = <<>>

WheelInv == WheelTypes /\ WheelOrdered /\ ListOrdered /\ Executed

LEMMA DueIsSlot ==
  ASSUME WheelTypes
  PROVE  Due \in Slots
<1>1. time \in 0 .. Times - 1
  BY DEF WheelTypes
<1>2. time \in Nat /\ 0 \in 0 .. Levels
  BY <1>1, WheelAssumption
<1> QED BY <1>2, DigitInRange DEF Due

\* What is due is due now.
LEMMA DueNow ==
  ASSUME WheelTypes, NEW x \in 0 .. Times - 1, NEW s \in Slots, s[1] = 0, Fits(s, x, time)
  PROVE  x = time <=> s = Due
<1>1. time \in 0 .. Times - 1
  BY DEF WheelTypes
<1>2. Digit(x, 0) = x % TIME_NEAR /\ Digit(time, 0) = time % TIME_NEAR
  BY DEF Digit
<1>3. s = <<s[1], s[2]>> /\ s[2] = Digit(x, 0)
  BY DEF Slots, Fits
<1>4. (x - time) % Times < TIME_NEAR
  BY DEF Fits, Left
<1>5. s = Due => x = time
  BY <1>1, <1>2, <1>3, <1>4, NearIsDue DEF Due
<1>6. x = time => s = Due
  BY <1>3 DEF Due
<1> QED BY <1>5, <1>6

LEMMA NodeInWheel ==
  ASSUME WheelTypes, WheelOrdered, NEW s \in Slots, NEW i \in 1 .. Len(wheel[s])
  PROVE  /\ wheel[s][i] \in Allocated \ Hung
         /\ expire[wheel[s][i]] \in 0 .. Times - 1
         /\ Fits(s, expire[wheel[s][i]], time)
<1>1. wheel \in [Slots -> Seq(Nodes)] /\ Linked(wheel) = Allocated \ Hung
  BY DEF WheelOrdered, InOrder
<1>2. wheel[s][i] \in Nodes
  BY <1>1
<1>3. wheel[s][i] \in Linked(wheel)
  BY <1>2 DEF Linked
<1> QED BY <1>1, <1>3 DEF WheelOrdered, InOrder, Fitting, WheelTypes

LEMMA InitEstablishesInv == WheelInit => WheelInv
<1> SUFFICES ASSUME WheelInit PROVE WheelInv
  OBVIOUS
<1>1. /\ time = 0 /\ wheel = [s \in Slots |-> <<>>] /\ expire = <<>> /\ list = <<>>
      /\ pc = "out"
  BY DEF WheelInit
<1>2. Allocated = {} /\ Len(list) = 0 /\ Hung = {}
  BY <1>1 DEF Allocated, Hung
<1>3. WheelTypes
  BY <1>1, <1>2, TimesPositive DEF WheelTypes
<1>4. \A s \in Slots : Len(wheel[s]) = 0
  BY <1>1
<1>5. InOrder(wheel, {}, expire, time)
  <2>1. wheel \in [Slots -> Seq(Nodes)]
    BY <1>1
  <2>2. \A s \in Slots : 1 .. Len(wheel[s]) = {}
    BY <1>4
  <2> QED BY <2>1, <2>2 DEF InOrder, Once, Linked, Fitting
<1>6. WheelOrdered
  BY <1>2, <1>5 DEF WheelOrdered
<1>7. ListOrdered
  BY <1>2 DEF ListOrdered
<1>8. Executed
  BY <1>1, <1>3, DueIsSlot DEF Executed
<1> QED BY <1>3, <1>6, <1>7, <1>8 DEF WheelInv

\* A wheel in order stays so for whatever gives its timers the same ends.
LEMMA SameEnds ==
  ASSUME NEW w, NEW S, NEW e, NEW f, NEW t, InOrder(w, S, e, t),
         \A n \in S : e[n] = f[n]
  PROVE  InOrder(w, S, f, t)
<1>1. w \in [Slots -> Seq(Nodes)] /\ Once(w) /\ Linked(w) = S /\ Fitting(w, e, t)
  BY DEF InOrder
<1>2. \A s \in Slots : \A i \in 1 .. Len(w[s]) : w[s][i] \in Nodes
  BY <1>1
<1>3. \A s \in Slots : \A i \in 1 .. Len(w[s]) : w[s][i] \in S
  BY <1>1, <1>2 DEF Linked
<1>4. Fitting(w, f, t)
  BY <1>1, <1>3 DEF Fitting
<1> QED BY <1>1, <1>4 DEF InOrder

\* A delay counted on is the difference add_node sees (timewheel.c:71 and 52).
LEMMA Later ==
  ASSUME NEW n \in Nat \ {0}, NEW t \in 0 .. n - 1, NEW d \in 0 .. n - 1
  PROVE  (t + d) % n \in 0 .. n - 1 /\ (((t + d) % n) - t) % n = d
<1> DEFINE x == (t + d) % n
<1>1. x = IF t + d < n THEN t + d ELSE t + d - n
  <2>1. CASE t + d < n
    <3>1. \A a \in 0 .. n - 1 : a % n = a
      BY SMTT(30)
    <3> QED BY <2>1, <3>1
  <2>2. CASE ~(t + d < n)
    <3>1. \A a \in n .. 2 * n - 1 : a % n = a - n
      BY SMTT(30)
    <3> QED BY <2>2, <3>1
  <2> QED BY <2>1, <2>2
<1>2. x \in 0 .. n - 1
  BY <1>1
<1>3. (x - t) % n = IF t <= x THEN x - t ELSE x - t + n
  <2> HIDE DEF x
  <2> QED BY <1>2, Difference
<1> HIDE DEF x
<1>4. (x - t) % n = d
  BY <1>1, <1>3
<1> QED BY <1>2, <1>4 DEF x
-----------------------------------------------------------------------------
(* The steps but the shift                                                 *)

LEMMA AddTimerKeepsInv ==
  ASSUME WheelInv, AddTimer
  PROVE  WheelInv'
<1>1. PICK n \in Nodes \ Allocated, delay \in 1 .. MaxDelay :
        /\ expire' = [m \in Allocated \cup {n} |->
                        IF m = n THEN (time + delay) % Times ELSE expire[m]]
        /\ wheel' = AddNode(wheel, n, (time + delay) % Times, time)
  BY DEF AddTimer
<1>2. time' = time /\ list' = list /\ pc' = pc /\ pc # "first"
  BY DEF AddTimer
<1> DEFINE x == (time + delay) % Times
<1>3. /\ time \in 0 .. Times - 1 /\ delay \in 1 .. Times - 1 /\ delay <= MaxDelay
      /\ Times \in Nat \ {0}
  <2>1. Times \in Nat \ {0} /\ time \in 0 .. Times - 1
    BY TimesPositive DEF WheelInv, WheelTypes
  <2>2. \A a \in Nat \ {0} : a \div 2 <= a
    OBVIOUS
  <2>3. Times \div 2 <= Times /\ Times \div 2 \in Nat
    BY <2>1, <2>2
  <2>4. MaxDelay \in 1 .. (Times \div 2) - 1
    BY WheelAssumption
  <2>5. MaxDelay \in Int /\ MaxDelay <= Times - 1
    BY <2>1, <2>3, <2>4
  <2>6. delay \in Int /\ 1 <= delay /\ delay <= MaxDelay
    BY <2>5
  <2>7. delay \in 1 .. Times - 1
    BY <2>1, <2>5, <2>6
  <2> QED BY <2>1, <2>6, <2>7
<1>4. x \in 0 .. Times - 1 /\ Left(x, time) = delay
  <2>1. delay \in 0 .. Times - 1
    BY <1>3
  <2> QED BY <1>3, <2>1, Later DEF Left
<1>5. x # time
  <2>1. (time - time) % Times = 0
    BY <1>3, Difference
  <2> QED BY <1>3, <1>4, <2>1 DEF Left
<1> HIDE DEF x
<1>6. Allocated' = Allocated \cup {n} /\ expire'[n] = x /\ Hung' = Hung
  BY <1>1, <1>2 DEF Allocated, Hung, x
<1>7. \A m \in Allocated : expire'[m] = expire[m]
  BY <1>1
<1>8. WheelTypes'
  BY <1>2, <1>4, <1>6, <1>7 DEF WheelInv, WheelTypes
<1>9. Hung \subseteq Allocated
  BY DEF WheelInv, ListOrdered, Hung
<1>10. WheelOrdered'
  <2> DEFINE S == Allocated \ Hung
  <2>1. InOrder(wheel, S, expire', time)
    <3>1. InOrder(wheel, S, expire, time) /\ \A m \in S : expire[m] = expire'[m]
      BY <1>7 DEF WheelInv, WheelOrdered
    <3> HIDE DEF S
    <3> QED BY <3>1, SameEnds
  <2>2. n \in Nodes \ S
    OBVIOUS
  <2>3. expire'[n] \in 0 .. Times - 1 /\ Left(expire'[n], time) <= MaxDelay
    BY <1>3, <1>4, <1>6
  <2>4. InOrder(AddNode(wheel, n, expire'[n], time), S \cup {n}, expire', time)
    <3> HIDE DEF S
    <3> QED BY <1>3, <2>1, <2>2, <2>3, AddNodeKeepsOrder
  <2>5. wheel' = AddNode(wheel, n, expire'[n], time)
    BY <1>1, <1>6 DEF x
  <2>6. S \cup {n} = Allocated' \ Hung'
    BY <1>6, <1>9
  <2>7. InOrder(wheel', Allocated' \ Hung', expire', time')
    BY <1>2, <2>4, <2>5, <2>6
  <2> QED BY <2>7 DEF WheelOrdered
<1>11. ListOrdered'
  BY <1>2, <1>6, <1>7 DEF WheelInv, ListOrdered
<1>12. Executed'
  <2>1. Due' = Due
    BY <1>2 DEF Due
  <2>2. ASSUME pc = "out" PROVE wheel'[Due] = <<>>
    <3>1. wheel[Due] = <<>> /\ wheel \in [Slots -> Seq(Nodes)]
      BY <2>2 DEF WheelInv, Executed, WheelOrdered, InOrder
    <3> DEFINE k == LevelFor(Left(x, time))    c == <<k, Digit(x, k)>>
    <3>2. wheel' = [wheel EXCEPT ![c] = Append(@, n)]
      BY <1>1 DEF AddNode, Left, x
    <3>3. c \in Slots /\ Fits(c, x, time)
      BY <1>3, <1>4, SlotFits
    <3>4. c # Due
      <4> SUFFICES ASSUME c = Due PROVE FALSE
        OBVIOUS
      <4>1. c[1] = 0
        BY DEF Due
      <4> HIDE DEF c
      <4> QED BY <1>4, <1>5, <3>3, <4>1, DueNow DEF WheelInv
    <3> HIDE DEF c
    <3> QED BY <3>1, <3>2, <3>4
  <2> QED BY <1>2, <2>1, <2>2 DEF WheelInv, Executed
<1> QED BY <1>8, <1>10, <1>11, <1>12 DEF WheelInv

\* timer_execute takes the timers of this very tick (timewheel.c:130-136).
LEMMA DetachKeepsInv == WheelInv /\ Detach("second", "call second") => WheelInv'
<1>0. SUFFICES ASSUME WheelInv, Detach("second", "call second") PROVE WheelInv'
  OBVIOUS
<1>1. /\ pc = "second" /\ pc' = "call second" /\ list' = wheel[Due]
      /\ wheel' = [wheel EXCEPT ![Due] = <<>>] /\ time' = time /\ expire' = expire
  BY <1>0 DEF Detach, Cleared
<1>2. list = <<>> /\ Hung = {}
  <2>1. list = <<>>
    BY <1>0, <1>1 DEF WheelInv, Executed
  <2>2. Len(list) = 0
    BY <2>1
  <2> QED BY <2>1, <2>2 DEF Hung
<1>3. Allocated' = Allocated /\ Due' = Due
  BY <1>1 DEF Allocated, Due
<1>4. Due \in Slots
  BY <1>0, DueIsSlot DEF WheelInv
<1>5. InOrder(wheel, Allocated, expire, time)
  BY <1>0, <1>2 DEF WheelInv, WheelOrdered
<1>6. wheel \in [Slots -> Seq(Nodes)] /\ Once(wheel)
  BY <1>5 DEF InOrder
<1>7. WheelTypes'
  BY <1>0, <1>1, <1>3, <1>4, <1>6 DEF WheelInv, WheelTypes
<1>8. Hung' = {wheel[Due][i] : i \in 1 .. Len(wheel[Due])}
  BY <1>1 DEF Hung
<1>9. WheelOrdered'
  <2>1. InOrder([wheel EXCEPT ![Due] = <<>>],
                Allocated \ {wheel[Due][i] : i \in 1 .. Len(wheel[Due])}, expire, time)
    BY <1>4, <1>5, ClearKeepsOrder
  <2>2. InOrder(wheel', Allocated' \ Hung', expire', time')
    BY <1>1, <1>3, <1>8, <2>1
  <2> QED BY <2>2 DEF WheelOrdered
<1>10. ListOrdered'
  <2>1. \A i, j \in 1 .. Len(wheel[Due]) : wheel[Due][i] = wheel[Due][j] => i = j
    BY <1>4, <1>6 DEF Once
  <2>2. ASSUME NEW i \in 1 .. Len(wheel[Due])
        PROVE  wheel[Due][i] \in Allocated /\ expire[wheel[Due][i]] = time
    <3>1. /\ wheel[Due][i] \in Allocated
          /\ expire[wheel[Due][i]] \in 0 .. Times - 1
          /\ Fits(Due, expire[wheel[Due][i]], time)
      BY <1>0, <1>4, NodeInWheel DEF WheelInv
    <3>2. Due[1] = 0
      BY DEF Due
    <3> QED BY <1>0, <1>4, <3>1, <3>2, DueNow DEF WheelInv
  <2> QED BY <1>1, <1>3, <2>1, <2>2 DEF ListOrdered
<1>11. Executed'
  BY <1>1 DEF Executed
<1> QED BY <1>7, <1>9, <1>10, <1>11 DEF WheelInv

LEMMA Tailed ==
  ASSUME NEW q \in Seq(Nodes), q # <<>>
  PROVE  \E m \in Nat : /\ Len(q) = m + 1 /\ Head(q) = q[1]
                        /\ Tail(q) \in Seq(Nodes) /\ Len(Tail(q)) = m
                        /\ \A i \in 1 .. m : Tail(q)[i] = q[i + 1]
<1>1. Len(q) \in Nat \ {0}
  BY EmptySeq
<1>2. PICK m \in Nat : Len(q) = m + 1
  <2>1. Len(q) - 1 \in Nat
    BY <1>1
  <2> QED BY <2>1
<1>3. /\ Tail(q) \in Seq(Nodes) /\ Len(Tail(q)) = Len(q) - 1
      /\ \A i \in 1 .. Len(Tail(q)) : Tail(q)[i] = q[i + 1]
  BY HeadTailProperties
<1>4. Len(Tail(q)) = m
  BY <1>2, <1>3
<1>5. Head(q) = q[1]
  OBVIOUS
<1> QED BY <1>2, <1>3, <1>4, <1>5

\* dispatch_list calls back and frees the first timer of its list.
LEMMA DispatchKeepsInv == WheelInv /\ Dispatch("call second") => WheelInv'
<1>0. SUFFICES ASSUME WheelInv, Dispatch("call second") PROVE WheelInv'
  OBVIOUS
<1> DEFINE h == Head(list)
<1>1. /\ pc = "call second" /\ list # <<>> /\ list' = Tail(list)
      /\ expire' = [n \in Allocated \ {h} |-> expire[n]]
      /\ time' = time /\ wheel' = wheel /\ pc' = pc
  BY <1>0 DEF Dispatch
<1>2. list \in Seq(Nodes)
  BY <1>0 DEF WheelInv, WheelTypes
<1>3. PICK m \in Nat : /\ Len(list) = m + 1 /\ h = list[1]
                      /\ list' \in Seq(Nodes) /\ Len(list') = m
                      /\ \A i \in 1 .. m : list'[i] = list[i + 1]
  BY <1>1, <1>2, Tailed
<1>4. Allocated' = Allocated \ {h} /\ \A n \in Allocated \ {h} : expire'[n] = expire[n]
  BY <1>1 DEF Allocated
<1> HIDE DEF h
<1>5. \A i, j \in 1 .. Len(list) : list[i] = list[j] => i = j
  BY <1>0 DEF WheelInv, ListOrdered
<1>6. \A i \in 1 .. Len(list) : list[i] \in Allocated /\ expire[list[i]] = time
  BY <1>0 DEF WheelInv, ListOrdered
<1>7. \A i \in 1 .. Len(list') : /\ i \in Nat \ {0} /\ i + 1 \in 1 .. Len(list)
                                 /\ list'[i] = list[i + 1] /\ list[i + 1] # h
  <2> SUFFICES ASSUME NEW i \in 1 .. Len(list')
               PROVE  /\ i \in Nat \ {0} /\ i + 1 \in 1 .. Len(list)
                      /\ list'[i] = list[i + 1] /\ list[i + 1] # h
    OBVIOUS
  <2>1. i \in Nat \ {0} /\ i \in 1 .. m
    BY <1>3
  <2>2. i + 1 \in 1 .. Len(list) /\ 1 \in 1 .. Len(list) /\ i + 1 # 1
    BY <1>3, <2>1
  <2> QED BY <1>3, <1>5, <2>1, <2>2
<1>8. Hung' = Hung \ {h} /\ h \in Hung
  <2>1. \A i \in 1 .. Len(list) : i = 1 \/ (i - 1 \in 1 .. Len(list') /\ list'[i - 1] = list[i])
    <3> SUFFICES ASSUME NEW i \in 1 .. Len(list), i # 1
                 PROVE  i - 1 \in 1 .. Len(list') /\ list'[i - 1] = list[i]
      OBVIOUS
    <3>1. i - 1 \in 1 .. m /\ (i - 1) + 1 = i
      BY <1>3
    <3> QED BY <1>3, <3>1
  <2>2. ASSUME NEW n \in Hung' PROVE n \in Hung \ {h}
    <3>1. PICK i \in 1 .. Len(list') : n = list'[i]
      BY DEF Hung
    <3> QED BY <1>7, <3>1 DEF Hung
  <2>3. ASSUME NEW n \in Hung \ {h} PROVE n \in Hung'
    <3>1. PICK i \in 1 .. Len(list) : n = list[i]
      BY DEF Hung
    <3>2. i # 1
      BY <1>3, <3>1
    <3> QED BY <2>1, <3>1, <3>2 DEF Hung
  <2>4. h \in Hung
    <3>1. 1 \in 1 .. Len(list)
      BY <1>3
    <3> QED BY <1>3, <3>1 DEF Hung
  <2> QED BY <2>2, <2>3, <2>4
<1>9. WheelTypes'
  BY <1>0, <1>1, <1>3, <1>4 DEF WheelInv, WheelTypes
<1>10. WheelOrdered'
  <2> DEFINE S == Allocated \ Hung
  <2>1. InOrder(wheel, S, expire, time) /\ \A n \in S : expire[n] = expire'[n]
    BY <1>0, <1>4, <1>8 DEF WheelInv, WheelOrdered
  <2>2. S = Allocated' \ Hung'
    BY <1>4, <1>8
  <2>3. InOrder(wheel, S, expire', time)
    <3> HIDE DEF S
    <3> QED BY <2>1, SameEnds
  <2> HIDE DEF S
  <2>4. InOrder(wheel', Allocated' \ Hung', expire', time')
    BY <1>1, <2>2, <2>3
  <2> QED BY <2>4 DEF WheelOrdered
<1>11. ListOrdered'
  <2>1. \A i, j \in 1 .. Len(list') : list'[i] = list'[j] => i = j
    <3> SUFFICES ASSUME NEW i \in 1 .. Len(list'), NEW j \in 1 .. Len(list'),
                        list'[i] = list'[j]
                 PROVE  i = j
      OBVIOUS
    <3>1. list[i + 1] = list[j + 1] /\ i + 1 \in 1 .. Len(list) /\ j + 1 \in 1 .. Len(list)
      BY <1>7
    <3>2. i + 1 = j + 1
      BY <1>5, <3>1
    <3> QED BY <3>2, <1>7
  <2>2. \A i \in 1 .. Len(list') : list'[i] \in Allocated' /\ expire'[list'[i]] = time'
    <3> SUFFICES ASSUME NEW i \in 1 .. Len(list')
                 PROVE  list'[i] \in Allocated' /\ expire'[list'[i]] = time'
      OBVIOUS
    <3>1. list'[i] \in Allocated /\ list'[i] # h /\ expire[list'[i]] = time
      BY <1>6, <1>7
    <3> QED BY <1>1, <1>4, <3>1
  <2> QED BY <2>1, <2>2 DEF ListOrdered
<1>12. Executed'
  BY <1>0, <1>1 DEF WheelInv, Executed
<1> QED BY <1>9, <1>10, <1>11, <1>12 DEF WheelInv
-----------------------------------------------------------------------------
(* The shift                                                               *)

LEMMA LeftTicks ==
  ASSUME NEW x \in 0 .. Times - 1, NEW t \in 0 .. Times - 1
  PROVE  /\ (t + 1) % Times \in 0 .. Times - 1
         /\ x # t => Left(x, (t + 1) % Times) = Left(x, t) - 1
         /\ x = t => Left(x, t) = 0
         /\ Left(x, t) \in Nat
<1> DEFINE n == Times
<1>1. n \in Nat \ {0} /\ x \in 0 .. n - 1 /\ t \in 0 .. n - 1
  BY TimesPositive
<1>2. /\ Left(x, t) = (x - t) % n
      /\ \A y : Left(x, y) = (x - y) % n
      /\ Left(x, (t + 1) % Times) = (x - ((t + 1) % n)) % n
  BY DEF Left
<1> HIDE DEF n
<1>3. (t + 1) % n \in 0 .. n - 1
  BY <1>1, Successor
<1>4. x # t => (x - ((t + 1) % n)) % n = ((x - t) % n) - 1
  BY <1>1, Nearer
<1>5. x = t => (x - t) % n = 0
  BY <1>1, Difference
<1>6. (x - t) % n \in Nat
  BY <1>1, Difference
<1> QED BY <1>2, <1>3, <1>4, <1>5, <1>6 DEF n

LEMMA RestIsNat ==
  ASSUME NEW x \in 0 .. Times - 1, NEW k \in 1 .. Levels
  PROVE  x % Reach[k - 1] \in Nat
<1>1. k - 1 \in 0 .. Levels
  BY WheelAssumption
<1>2. Reach[k - 1] \in Nat \ {0} /\ x \in Nat
  BY <1>1, ReachPositive
<1> DEFINE n == Reach[k - 1]
<1> HIDE DEF n
<1>3. x % n \in 0 .. n - 1
  BY <1>2, DivMod DEF n
<1>4. n \in Nat
  BY <1>2 DEF n
<1>5. x % n \in Nat
  BY <1>3, <1>4
<1> QED BY <1>5 DEF n

\* A tick leaves a timer where it fits, or it is the tick at which its slot is
\* moved.
LEMMA TickFits ==
  ASSUME NEW x \in 0 .. Times - 1, NEW t \in 0 .. Times - 1, NEW s \in Slots,
         Fits(s, x, t), s[1] = 0 => x # t
  PROVE  \/ Fits(s, x, (t + 1) % Times)
         \/ /\ s[1] \in 1 .. Levels
            /\ s = <<s[1], Digit((t + 1) % Times, s[1])>>
            /\ LevelToMove((t + 1) % Times) = {s[1]}
<1> DEFINE u == (t + 1) % Times    k == s[1]
<1>1. Times \in Nat \ {0} /\ Levels \in Nat \ {0} /\ TIME_NEAR \in Nat \ {0} /\ MaxDelay \in Nat
  BY TimesPositive, WheelAssumption
<1>2. u \in 0 .. Times - 1
  BY <1>1, Successor
<1>3. k \in 0 .. Levels /\ s = <<k, s[2]>>
  BY <1>1 DEF Slots
<1>4. x # t => Left(x, u) = Left(x, t) - 1
  BY LeftTicks
<1>5. Left(x, t) \in Nat
  BY LeftTicks
<1> HIDE DEF u, k
<1>6. CASE k = 0
  <2>1. ~Forsaken(s)
    BY <1>6 DEF Forsaken, k
  <2>2. x # t /\ Left(x, t) < TIME_NEAR /\ Left(x, t) <= MaxDelay /\ s[2] = Digit(x, k)
    BY <1>6, <2>1 DEF Fits, k
  <2>3. Left(x, u) < TIME_NEAR /\ Left(x, u) <= MaxDelay
    BY <1>1, <1>4, <1>5, <2>2
  <2>4. Fits(s, x, u)
    BY <1>6, <2>2, <2>3 DEF Fits, k
  <2> QED BY <2>4 DEF u
<1>7. CASE k # 0 /\ Forsaken(s)
  <2>1. Fits(s, x, u)
    BY <1>7 DEF Fits, k
  <2> QED BY <2>1 DEF u
<1>8. CASE k # 0 /\ ~Forsaken(s)
  <2>1. k \in 1 .. Levels /\ k - 1 \in 0 .. Levels
    BY <1>1, <1>3, <1>8
  <2>2. Reach[k - 1] \in Nat \ {0} /\ x \in Nat
    BY <1>1, <2>1, ReachPositive
  <2>3. x % Reach[k - 1] \in Nat
    BY <2>1, RestIsNat
  <2>4. /\ Left(x, t) <= MaxDelay /\ x % Reach[k - 1] < Left(x, t)
        /\ s[2] = Digit(x, k)
    BY <1>8 DEF Fits, k
  <2>5. x # t
    <3> SUFFICES ASSUME x = t PROVE FALSE
      OBVIOUS
    <3>1. (t - t) % Times = 0
      BY <1>1, Difference
    <3> QED BY <2>3, <2>4, <3>1 DEF Left
  <2>6. Left(x, u) = Left(x, t) - 1
    BY <1>4, <2>5
  <2>7. CASE x % Reach[k - 1] < Left(x, u)
    <3>1. Left(x, u) <= MaxDelay
      BY <1>1, <1>5, <2>4, <2>6
    <3>2. Fits(s, x, u)
      BY <1>8, <2>4, <2>7, <3>1 DEF Fits, k
    <3> QED BY <3>2 DEF u
  <2>8. CASE ~(x % Reach[k - 1] < Left(x, u))
    <3>1. (x - u) % Times = x % Reach[k - 1]
      BY <1>5, <2>3, <2>4, <2>6, <2>8 DEF Left
    <3>2. k < Levels => Digit(x, k) # 0
      BY <1>1, <1>8, <2>1, <2>4 DEF Forsaken, k
    <3>3. Digit(u, k) = Digit(x, k) /\ LevelToMove(u) = {k}
      BY <1>2, <2>1, <3>1, <3>2, ComesDown
    <3>4. s = <<k, Digit(u, k)>>
      BY <1>3, <2>4, <3>3
    <3> QED BY <2>1, <3>3, <3>4 DEF u, k
  <2> QED BY <2>7, <2>8
<1> QED BY <1>6, <1>7, <1>8

\* The slot that is moved is none that is forsaken.
LEMMA MovedIsNotForsaken ==
  ASSUME NEW t \in 0 .. Times - 1, NEW k \in LevelToMove(t)
  PROVE  <<k, Digit(t, k)>> \in Slots /\ ~Forsaken(<<k, Digit(t, k)>>) /\ k \in 1 .. Levels
<1>1. k \in 1 .. Levels /\ (k = Levels \/ Digit(t, k) # 0)
  BY WheelAssumption DEF LevelToMove
<1>2. k \in 0 .. Levels /\ t \in Nat /\ Levels \in Nat
  BY <1>1, TimesPositive, WheelAssumption
<1>3. <<k, Digit(t, k)>> \in Slots
  BY <1>2, DigitInRange
<1> QED BY <1>1, <1>2, <1>3 DEF Forsaken

LEMMA ShiftKeepsInv ==
  ASSUME WheelInv, TimerShift
  PROVE  WheelInv'
<1>1. /\ pc = "first" /\ wheel[Due] = <<>> /\ time' = (time + 1) % Times /\ pc' = "second"
      /\ expire' = expire /\ list' = list
  BY DEF TimerShift, NextTime
<1> DEFINE u == (time + 1) % Times
<1>2. list = <<>> /\ Hung = {} /\ Hung' = {} /\ Allocated' = Allocated
  <2>1. list = <<>>
    BY <1>1 DEF WheelInv, Executed
  <2>2. Len(list) = 0
    BY <2>1
  <2> QED BY <1>1, <2>1, <2>2 DEF Hung, Allocated
<1>3. time \in 0 .. Times - 1 /\ u \in 0 .. Times - 1 /\ Times \in Nat \ {0}
  <2>1. time \in 0 .. Times - 1
    BY DEF WheelInv, WheelTypes
  <2> QED BY <2>1, TimesPositive, LeftTicks
<1>4. InOrder(wheel, Allocated, expire, time)
  BY <1>2 DEF WheelInv, WheelOrdered
<1>5. wheel \in [Slots -> Seq(Nodes)] /\ Once(wheel)
  BY <1>4 DEF InOrder
<1>6. ASSUME NEW s \in Slots, NEW i \in 1 .. Len(wheel[s])
      PROVE  /\ wheel[s][i] \in Allocated
             /\ expire[wheel[s][i]] \in 0 .. Times - 1
             /\ Fits(s, expire[wheel[s][i]], time)
             /\ \/ Fits(s, expire[wheel[s][i]], u)
                \/ /\ s[1] \in 1 .. Levels /\ s = <<s[1], Digit(u, s[1])>>
                   /\ LevelToMove(u) = {s[1]}
  <2>1. /\ wheel[s][i] \in Allocated
        /\ expire[wheel[s][i]] \in 0 .. Times - 1
        /\ Fits(s, expire[wheel[s][i]], time)
    BY NodeInWheel DEF WheelInv
  <2>2. s # Due
    <3>1. Len(<<>>) = 0
      OBVIOUS
    <3> QED BY <1>1, <3>1
  <2>3. s[1] = 0 => expire[wheel[s][i]] # time
    BY <2>1, <2>2, DueNow DEF WheelInv
  <2> DEFINE x == expire[wheel[s][i]]
  <2> HIDE DEF x
  <2>4. \/ Fits(s, x, u)
        \/ /\ s[1] \in 1 .. Levels /\ s = <<s[1], Digit(u, s[1])>>
           /\ LevelToMove(u) = {s[1]}
    BY <1>3, <2>1, <2>3, TickFits DEF x
  <2> QED BY <2>1, <2>4 DEF x
<1> HIDE DEF u
<1>7. InOrder(wheel', Allocated, expire, u)
  <2>1. CASE LevelToMove(u) = {}
    <3>1. wheel' = wheel
      BY <2>1 DEF TimerShift, NextTime, u
    <3>2. Fitting(wheel, expire, u)
      BY <1>6, <2>1 DEF Fitting
    <3> QED BY <1>4, <3>1, <3>2 DEF InOrder
  <2>2. ASSUME NEW k \in LevelToMove(u), wheel' = MoveList(<<k, Digit(u, k)>>, u)
        PROVE  InOrder(wheel', Allocated, expire, u)
    <3> DEFINE c == <<k, Digit(u, k)>>    w == [wheel EXCEPT ![c] = <<>>]
               C == {wheel[c][i] : i \in 1 .. Len(wheel[c])}    S == Allocated \ C
    <3>1. c \in Slots /\ ~Forsaken(c) /\ k \in 1 .. Levels
      BY <1>3, MovedIsNotForsaken
    <3>2. InOrder(w, S, expire, time)
      <4> HIDE DEF c
      <4> QED BY <1>4, <3>1, ClearKeepsOrder
    <3>3. \A s \in Slots : \A i \in 1 .. Len(w[s]) : s # c /\ w[s] = wheel[s]
      <4> HIDE DEF c
      <4>1. w[c] = <<>> /\ \A s \in Slots \ {c} : w[s] = wheel[s]
        BY <1>5, <3>1
      <4> QED BY <4>1
    <3>4. Fitting(w, expire, u)
      <4> SUFFICES ASSUME NEW s \in Slots, NEW i \in 1 .. Len(w[s])
                   PROVE  Fits(s, expire[w[s][i]], u)
        BY DEF Fitting
      <4>1. s # c /\ w[s] = wheel[s]
        BY <3>3
      <4>2. \/ Fits(s, expire[wheel[s][i]], u)
            \/ s = <<s[1], Digit(u, s[1])>> /\ LevelToMove(u) = {s[1]}
        BY <1>6, <4>1
      <4>3. ASSUME s = <<s[1], Digit(u, s[1])>>, LevelToMove(u) = {s[1]}
            PROVE  FALSE
        <5>1. k = s[1]
          BY <4>3
        <5> QED BY <4>1, <4>3, <5>1
      <4> HIDE DEF w
      <4> QED BY <4>1, <4>2, <4>3
    <3> HIDE DEF w
    <3>5. InOrder(w, S, expire, u)
      BY <3>2, <3>4 DEF InOrder
    <3> HIDE DEF c
    <3>6. \A i, j \in 1 .. Len(wheel[c]) : wheel[c][i] = wheel[c][j] => i = j
      BY <1>5, <3>1 DEF Once
    <3>7. ASSUME NEW i \in 1 .. Len(wheel[c])
          PROVE  /\ wheel[c][i] \notin S
                 /\ expire[wheel[c][i]] \in 0 .. Times - 1
                 /\ Left(expire[wheel[c][i]], u) <= MaxDelay
      <4> DEFINE x == expire[wheel[c][i]]
      <4>1. x \in 0 .. Times - 1 /\ Fits(c, x, time)
        BY <1>6, <3>1
      <4>2. c[1] = k /\ k # 0 /\ k - 1 \in 0 .. Levels
        BY <3>1, WheelAssumption DEF c
      <4> HIDE DEF x
      <4>3. Left(x, time) <= MaxDelay /\ x % Reach[k - 1] < Left(x, time)
        BY <3>1, <4>1, <4>2 DEF Fits
      <4>4. x % Reach[k - 1] \in Nat
        BY <3>1, <4>1, RestIsNat
      <4>5. Left(x, time) \in Nat /\ MaxDelay \in Nat
        BY <1>3, <4>1, LeftTicks, WheelAssumption
      <4>6. x # time
        <5>1. Left(x, time) # 0
          BY <4>3, <4>4
        <5> QED BY <1>3, <4>1, <5>1, LeftTicks
      <4>7. Left(x, u) = Left(x, time) - 1
        BY <1>3, <4>1, <4>6, LeftTicks DEF u
      <4>8. Left(x, u) <= MaxDelay
        BY <4>3, <4>5, <4>7
      <4>9. wheel[c][i] \notin S
        OBVIOUS
      <4> QED BY <4>1, <4>8, <4>9 DEF x
    <3>8. InOrder(MoveList(c, u), S \cup C, expire, u)
      <4>1. InOrder([wheel EXCEPT ![c] = <<>>], S, expire, u)
        BY <3>5 DEF w
      <4> HIDE DEF S
      <4> QED BY <1>3, <1>5, <3>1, <3>6, <3>7, <4>1, MoveKeepsOrder
    <3>9. S \cup C = Allocated
      <4>1. C \subseteq Allocated
        BY <1>6, <3>1
      <4> QED BY <4>1
    <3> QED BY <2>2, <3>8, <3>9 DEF c
  <2>3. CASE LevelToMove(u) # {}
    <3>1. \E k \in LevelToMove(u) : wheel' = MoveList(<<k, Digit(u, k)>>, u)
      BY <2>3 DEF TimerShift, NextTime, u
    <3> QED BY <2>2, <3>1
  <2> QED BY <2>1, <2>3
<1>8. WheelTypes'
  BY <1>1, <1>2, <1>3 DEF WheelInv, WheelTypes, u
<1>9. WheelOrdered'
  BY <1>1, <1>2, <1>7 DEF WheelOrdered, u
<1>10. ListOrdered'
  <2>1. Len(list') = 0
    BY <1>1, <1>2
  <2> QED BY <2>1 DEF ListOrdered
<1>11. Executed'
  BY <1>1, <1>2 DEF Executed
<1> QED BY <1>8, <1>9, <1>10, <1>11 DEF WheelInv
-----------------------------------------------------------------------------
(* The theorems                                                            *)

\* What timer_update and add_timer maintain (timewheel.c:48-149): the time, the
\* slots, the list that is dispatched and the place in the code hang together.
THEOREM WheelInvariant == WheelSpec => []WheelInv
<1>1. WheelInit => WheelInv
  BY InitEstablishesInv
<1>2. WheelInv /\ [WheelNext]_wheelVars => WheelInv'
  <2> SUFFICES ASSUME WheelInv, [WheelNext]_wheelVars PROVE WheelInv'
    OBVIOUS
  <2>1. CASE AddTimer
    BY <2>1, AddTimerKeepsInv
  <2>2. CASE UpdateBegins
    <3>1. /\ pc = "out" /\ pc' = "first" /\ time' = time /\ wheel' = wheel
          /\ expire' = expire /\ list' = list
      BY <2>2 DEF UpdateBegins
    <3>2. Allocated' = Allocated /\ Hung' = Hung /\ Due' = Due
      BY <3>1 DEF Allocated, Hung, Due
    <3>3. WheelTypes'
      BY <3>1, <3>2 DEF WheelInv, WheelTypes
    <3>4. WheelOrdered' /\ ListOrdered'
      BY <3>1, <3>2 DEF WheelInv, WheelOrdered, ListOrdered
    <3>5. Executed'
      BY <3>1, <3>2 DEF WheelInv, Executed
    <3> QED BY <3>3, <3>4, <3>5 DEF WheelInv
  <2>3. CASE Detach("first", "call first")
    <3>1. FALSE
      BY <2>3 DEF Detach, WheelInv, Executed
    <3> QED BY <3>1
  <2>4. CASE Dispatch("call first") \/ Relock("call first", "first")
    <3>1. FALSE
      BY <2>4 DEF Dispatch, Relock, WheelInv, WheelTypes
    <3> QED BY <3>1
  <2>5. CASE TimerShift
    BY <2>5, ShiftKeepsInv
  <2>6. CASE Detach("second", "call second")
    BY <2>6, DetachKeepsInv
  <2>7. CASE Dispatch("call second")
    BY <2>7, DispatchKeepsInv
  <2>8. CASE Relock("call second", "second")
    <3>1. /\ list = <<>> /\ pc' = "second" /\ time' = time /\ wheel' = wheel
          /\ expire' = expire /\ list' = list
      BY <2>8 DEF Relock
    <3>2. Allocated' = Allocated /\ Hung' = Hung
      BY <3>1 DEF Allocated, Hung
    <3>3. WheelTypes'
      BY <3>1, <3>2 DEF WheelInv, WheelTypes
    <3>4. WheelOrdered' /\ ListOrdered'
      BY <3>1, <3>2 DEF WheelInv, WheelOrdered, ListOrdered
    <3>5. Executed'
      BY <3>1 DEF Executed
    <3> QED BY <3>3, <3>4, <3>5 DEF WheelInv
  <2>9. CASE UpdateEnds
    <3>1. /\ pc = "second" /\ wheel[Due] = <<>> /\ pc' = "out" /\ time' = time
          /\ wheel' = wheel /\ expire' = expire /\ list' = list
      BY <2>9 DEF UpdateEnds
    <3>2. Allocated' = Allocated /\ Hung' = Hung /\ Due' = Due
      BY <3>1 DEF Allocated, Hung, Due
    <3>3. WheelTypes'
      BY <3>1, <3>2 DEF WheelInv, WheelTypes
    <3>4. WheelOrdered' /\ ListOrdered'
      BY <3>1, <3>2 DEF WheelInv, WheelOrdered, ListOrdered
    <3>5. Executed'
      BY <3>1, <3>2 DEF WheelInv, Executed
    <3> QED BY <3>3, <3>4, <3>5 DEF WheelInv
  <2>10. CASE UNCHANGED wheelVars
    <3>1. /\ pc' = pc /\ time' = time /\ wheel' = wheel /\ expire' = expire /\ list' = list
      BY <2>10 DEF wheelVars
    <3>2. Allocated' = Allocated /\ Hung' = Hung /\ Due' = Due
      BY <3>1 DEF Allocated, Hung, Due
    <3>3. WheelTypes'
      BY <3>1, <3>2 DEF WheelInv, WheelTypes
    <3>4. WheelOrdered' /\ ListOrdered'
      BY <3>1, <3>2 DEF WheelInv, WheelOrdered, ListOrdered
    <3>5. Executed'
      BY <3>1, <3>2 DEF WheelInv, Executed
    <3> QED BY <3>3, <3>4, <3>5 DEF WheelInv
  <2> QED BY <2>1, <2>2, <2>3, <2>4, <2>5, <2>6, <2>7, <2>8, <2>9, <2>10
          DEF WheelNext, Expiring
<1> QED BY <1>1, <1>2, PTL DEF WheelSpec

LEMMA SetOfSeq ==
  ASSUME NEW q \in Seq(Nodes)
  PROVE  /\ ToSet(q) = {q[i] : i \in 1 .. Len(q)} /\ DOMAIN q = 1 .. Len(q)
         /\ \A i \in 1 .. Len(q) : q[i] \in Nodes
  BY LenProperties DEF ToSet

\* No timer is linked twice and none gets lost, between add_node, move_list,
\* link_clear and dispatch_list (timewheel.c:32-128).
THEOREM TimersAreLinkedOnce == WheelSpec => []LinkedOnce
<1>1. WheelInv => LinkedOnce
  <2> SUFFICES ASSUME WheelInv PROVE LinkedOnce
    OBVIOUS
  <2>1. /\ wheel \in [Slots -> Seq(Nodes)] /\ Once(wheel)
        /\ Linked(wheel) = Allocated \ Hung
    BY DEF WheelInv, WheelOrdered, InOrder
  <2>2. list \in Seq(Nodes) /\ Allocated \subseteq Nodes
    BY DEF WheelInv, WheelTypes
  <2>3. ToSet(list) = Hung /\ DOMAIN list = 1 .. Len(list) /\ Hung \subseteq Allocated
    BY <2>2, SetOfSeq DEF Hung, WheelInv, ListOrdered
  <2>4. ASSUME NEW s \in Slots
        PROVE  /\ ToSet(wheel[s]) = {wheel[s][i] : i \in 1 .. Len(wheel[s])}
               /\ DOMAIN wheel[s] = 1 .. Len(wheel[s])
               /\ \A i \in 1 .. Len(wheel[s]) : wheel[s][i] \in Nodes
    <3>1. wheel[s] \in Seq(Nodes)
      BY <2>1
    <3> QED BY <3>1, SetOfSeq
  <2>5. \A n \in Nodes :
          n \in Linked(wheel) <=> \E s \in Slots : n \in ToSet(wheel[s])
    <3> SUFFICES ASSUME NEW n \in Nodes
                 PROVE  n \in Linked(wheel) <=> \E s \in Slots : n \in ToSet(wheel[s])
      OBVIOUS
    <3>1. \A s \in Slots : n \in ToSet(wheel[s]) <=> \E i \in 1 .. Len(wheel[s]) : wheel[s][i] = n
      BY <2>4, Zenon
    <3>2. n \in Linked(wheel) <=> \E s \in Slots : \E i \in 1 .. Len(wheel[s]) : wheel[s][i] = n
      BY DEF Linked
    <3> QED BY <3>1, <3>2
  <2>6. \A n \in Nodes :
          n \in Allocated <=> \/ n \in ToSet(list)
                              \/ \E s \in Slots : n \in ToSet(wheel[s])
    BY <2>1, <2>3, <2>5
  <2>7. ASSUME NEW s \in Slots
        PROVE  /\ IsInjective(wheel[s])
               /\ ToSet(wheel[s]) \cap ToSet(list) = {}
               /\ \A r \in Slots \ {s} : ToSet(wheel[s]) \cap ToSet(wheel[r]) = {}
    <3>1. IsInjective(wheel[s])
      BY <2>1, <2>4 DEF IsInjective, Once
    <3>2. ToSet(wheel[s]) \subseteq Linked(wheel)
      BY <2>4 DEF Linked
    <3>3. ASSUME NEW r \in Slots \ {s}, NEW n \in ToSet(wheel[s]), n \in ToSet(wheel[r])
          PROVE  FALSE
      <4>1. PICK i \in 1 .. Len(wheel[s]) : n = wheel[s][i]
        BY <2>4
      <4>2. ToSet(wheel[r]) = {wheel[r][j] : j \in 1 .. Len(wheel[r])}
        BY <2>4
      <4>3. PICK j \in 1 .. Len(wheel[r]) : n = wheel[r][j]
        BY <3>3, <4>2
      <4> QED BY <2>1, <4>1, <4>3 DEF Once
    <3> QED BY <2>1, <2>3, <3>1, <3>2, <3>3
  <2>8. IsInjective(list)
    BY <2>3 DEF IsInjective, WheelInv, ListOrdered
  <2> QED BY <2>6, <2>7, <2>8 DEF LinkedOnce
<1> QED BY <1>1, WheelInvariant, PTL

\* A callback runs at the tick its timer was added for, however many levels the
\* timer came down and whatever was added while callbacks ran.
THEOREM TimersAreCalledAtTheirTick == WheelSpec => []CalledAtItsTick
<1>1. WheelInv => CalledAtItsTick
  <2> SUFFICES ASSUME WheelInv PROVE CalledAtItsTick
    OBVIOUS
  <2>1. DOMAIN list = 1 .. Len(list)
    BY SetOfSeq DEF WheelInv, WheelTypes
  <2> QED BY <2>1 DEF CalledAtItsTick, WheelInv, ListOrdered
<1> QED BY <1>1, WheelInvariant, PTL

\* Between two updates a timer is overdue only if it waits in one of the slots
\* 0 that timer_shift skips (timewheel.c:108).
THEOREM NoTimerIsOverdue == WheelSpec => []NoneOverdue
<1>1. WheelInv => NoneOverdue
  <2> SUFFICES ASSUME WheelInv, pc = "out", NEW n \in Allocated, ~Forgotten(n)
               PROVE  Remaining(n) \in 1 .. MaxDelay
    BY DEF NoneOverdue
  <2>1. /\ wheel \in [Slots -> Seq(Nodes)] /\ Linked(wheel) = Allocated \ Hung
    BY DEF WheelInv, WheelOrdered, InOrder
  <2>2. Hung = {}
    <3>1. Len(list) = 0
      BY DEF WheelInv, Executed
    <3> QED BY <3>1 DEF Hung
  <2>3. PICK s \in Slots : \E i \in 1 .. Len(wheel[s]) : wheel[s][i] = n
    BY <2>1, <2>2 DEF Linked
  <2>4. PICK i \in 1 .. Len(wheel[s]) : wheel[s][i] = n
    BY <2>3
  <2>5. expire[n] \in 0 .. Times - 1 /\ Fits(s, expire[n], time)
    BY <2>4, NodeInWheel DEF WheelInv
  <2>6. time \in 0 .. Times - 1
    BY DEF WheelInv, WheelTypes
  <2>7. ~Forsaken(s)
    <3> SUFFICES ASSUME Forsaken(s) PROVE FALSE
      OBVIOUS
    <3>1. s[1] \in 1 .. Levels - 1 /\ s = <<s[1], 0>>
      BY DEF Forsaken, Slots
    <3>2. n \in ToSet(wheel[s])
      <4>1. wheel[s] \in Seq(Nodes)
        BY <2>1
      <4> QED BY <2>4, <4>1, SetOfSeq
    <3> QED BY <3>1, <3>2 DEF Forgotten
  <2>8. Left(expire[n], time) <= MaxDelay /\ (s[1] # 0 => expire[n] % Reach[s[1] - 1] < Left(expire[n], time))
    BY <2>5, <2>7 DEF Fits
  <2>9. Left(expire[n], time) \in Nat /\ MaxDelay \in Nat
    BY <2>5, <2>6, LeftTicks, WheelAssumption
  <2>10. Left(expire[n], time) # 0
    <3>1. CASE s[1] = 0
      <4>1. s # Due
        <5>1. Len(wheel[Due]) = 0
          BY DEF WheelInv, Executed
        <5>2. 1 .. 0 = {}
          OBVIOUS
        <5> QED BY <2>4, <5>1, <5>2
      <4>2. expire[n] # time
        BY <2>5, <3>1, <4>1, DueNow DEF WheelInv
      <4>3. Left(expire[n], time) >= 1
        <5> DEFINE x == expire[n]
        <5> HIDE DEF x
        <5>1. x \in 0 .. Times - 1 /\ x # time
          BY <2>5, <4>2 DEF x
        <5>2. (x - time) % Times >= 1
          BY <2>6, <5>1, TimesPositive, Nearer
        <5> QED BY <5>2 DEF Left, x
      <4> QED BY <4>3
    <3>2. CASE s[1] # 0
      <4>1. s[1] \in 1 .. Levels
        BY <3>2, WheelAssumption DEF Slots
      <4>2. expire[n] % Reach[s[1] - 1] \in Nat
        BY <2>5, <4>1, RestIsNat
      <4> QED BY <2>8, <3>2, <4>2
    <3> QED BY <3>1, <3>2
  <2>11. Remaining(n) = Left(expire[n], time)
    BY DEF Remaining, Left
  <2> QED BY <2>8, <2>9, <2>10, <2>11
<1> QED BY <1>1, WheelInvariant, PTL
===============================================================================
