------------------------------ MODULE SkipList ------------------------------
(***************************************************************************)
(* The skip list of 3.2.3/skiplist.c.  next[i][x] is the forward pointer   *)
(* of x on level i (from 1), Head the header, Nil the NULL.  The level of  *)
(* a new node is the caller's: the code draws it.  key is the function of  *)
(* scores.                                                                 *)
(***************************************************************************)
EXTENDS Naturals, FiniteSets

CONSTANTS Timers, Nil, Head,
          MaxLevel     \* ZSKIPLIST_MAXLEVEL: 32 in the code

Levels == 1..MaxLevel

\* zslCreate
NewList == [level |-> 1, next |-> [i \in Levels |-> [x \in Timers \cup {Head} |-> Nil]]]

RECURSIVE From(_, _, _)
From(s, i, x) == IF x = Nil THEN {} ELSE {x} \cup From(s, i, s.next[i][x])
Holds(s) == From(s, 1, s.next[1][Head])

\* The last node of level i, from x on, with a score below k.
RECURSIVE Walk(_, _, _, _, _)
Walk(s, key, i, x, k) ==
  LET y == s.next[i][x]
  IN IF y = Nil THEN x ELSE IF key[y] < k THEN Walk(s, key, i, y, k) ELSE x

\* update[i], which every level continues from the one above.
RECURSIVE Update(_, _, _, _)
Update(s, key, i, k) ==
  Walk(s, key, i, IF i >= s.level THEN Head ELSE Update(s, key, i + 1, k), k)

zslInsert(s, key, x, level) ==
  [level |-> IF level > s.level THEN level ELSE s.level,
   next |-> [i \in Levels |->
     IF i > level THEN s.next[i]
     ELSE LET u == IF i > s.level THEN Head ELSE Update(s, key, i, key[x])
          IN [s.next[i] EXCEPT ![x] = s.next[i][u], ![u] = x]]]

zslMin(s) == s.next[1][Head]

\* Levels that nothing is on any more are given up, from the top.
Lowered(s) ==
  [s EXCEPT !.level = CHOOSE l \in 1..@ :
     /\ l = 1 \/ s.next[l][Head] # Nil
     /\ \A i \in (l + 1)..@ : s.next[i][Head] = Nil]

\* update[i] no longer points to x; the pointers of x go with it.
Unlink(s, x, update) ==
  Lowered([s EXCEPT !.next = [i \in Levels |->
    IF i <= s.level /\ s.next[i][update[i]] = x
    THEN [s.next[i] EXCEPT ![update[i]] = s.next[i][x], ![x] = Nil] ELSE s.next[i]]])

zslDeleteHead(s) == Unlink(s, zslMin(s), [i \in Levels |-> Head])

\* The node that goes is the first with the score of x, which need not be x.
Victim(s, key, x) == s.next[1][Update(s, key, 1, key[x])]
zslDelete(s, key, x) ==
  Unlink(s, Victim(s, key, x), [i \in Levels |-> Update(s, key, i, key[x])])

\* Every level is sorted and a part of the one below; the top one is in use.
RECURSIVE Sorted(_, _, _, _)
Sorted(s, key, i, x) ==
  LET y == s.next[i][x]
  IN IF x = Nil \/ y = Nil THEN TRUE ELSE key[x] <= key[y] /\ Sorted(s, key, i, y)

Layered(s, key) ==
  /\ \A i \in Levels : Sorted(s, key, i, s.next[i][Head])
  /\ \A i \in 2..MaxLevel : From(s, i, s.next[i][Head]) \subseteq From(s, i - 1, s.next[i - 1][Head])
  /\ \A i \in Levels : s.next[i][Head] # Nil => i <= s.level
  /\ s.level = 1 \/ s.next[s.level][Head] # Nil
=============================================================================
