------------------------------ MODULE NgxTree ------------------------------
(***************************************************************************)
(* The red-black tree of 3.2.3/rbtree.c as rbt-timer.h uses it: the nodes  *)
(* are the timers themselves, keyed by a deadline of a clock that wraps,   *)
(* equal deadlines are allowed, and a deletion relinks nodes and never     *)
(* moves a key, so that a pointer to a timer stays good.  key is the       *)
(* function of deadlines; the NULL of a root's parent is the sentinel.     *)
(***************************************************************************)
EXTENDS Integers, FiniteSets

CONSTANTS Timers, Nil,   \* the nodes and the sentinel
          Width          \* the values of the clock: 2^32 in the code

Nodes == Timers \cup {Nil}
Other(s) == IF s = "left" THEN "right" ELSE "left"

\* color: TRUE is red.
NewTree == [root |-> Nil,
            kid  |-> [s \in {"left", "right"} |-> [x \in Nodes |-> Nil]],
            up   |-> [x \in Nodes |-> Nil],
            red  |-> [x \in Nodes |-> FALSE]]

RECURSIVE NodesBelow(_, _)
NodesBelow(t, x) ==
  IF x = Nil THEN {}
  ELSE {x} \cup NodesBelow(t, t.kid["left"][x]) \cup NodesBelow(t, t.kid["right"][x])
Holds(t) == NodesBelow(t, t.root)

\* (ngx_rbtree_key_int_t) (a - b) < 0
Before(a, b) == (a - b) % Width >= Width \div 2

RECURSIVE ngx_rbtree_min(_, _)
ngx_rbtree_min(t, x) ==
  IF t.kid["left"][x] = Nil THEN x ELSE ngx_rbtree_min(t, t.kid["left"][x])

SideOf(t, x) == IF x = t.kid["left"][t.up[x]] THEN "left" ELSE "right"
Relink(t, x, y) ==
  IF x = t.root THEN [t EXCEPT !.root = y]
  ELSE [t EXCEPT !.kid[SideOf(t, x)][t.up[x]] = y]

\* ngx_rbtree_left_rotate for s = "left", ngx_rbtree_right_rotate for s = "right".
Rotate(t, x, s) ==
  LET y == t.kid[Other(s)][x]
      b == t.kid[s][y]
      moved == [Relink(t, x, y) EXCEPT !.kid[Other(s)][x] = b, !.kid[s][y] = x,
                                       !.up[y] = t.up[x], !.up[x] = y]
  IN IF b = Nil THEN moved ELSE [moved EXCEPT !.up[b] = x]

RECURSIVE InsertFixup(_, _)
InsertFixup(t, x) ==
  LET p == t.up[x]
      g == t.up[p]
      s == SideOf(t, p)
      uncle == t.kid[Other(s)][g]
      inner == x = t.kid[Other(s)][p]
      x1 == IF inner THEN p ELSE x
      t1 == IF inner THEN Rotate(t, p, s) ELSE t
      p1 == t1.up[x1]
  IN IF x = t.root \/ ~t.red[p] THEN [t EXCEPT !.red[t.root] = FALSE]
     ELSE IF t.red[uncle]
     THEN InsertFixup([t EXCEPT !.red[p] = FALSE, !.red[uncle] = FALSE, !.red[g] = TRUE], g)
     ELSE InsertFixup(Rotate([t1 EXCEPT !.red[p1] = FALSE, !.red[t1.up[p1]] = TRUE],
                             t1.up[p1], Other(s)), x1)

\* The comparison takes the wrap of the clock into account.
TimerSide(key, x, temp) == IF Before(key[x], key[temp]) THEN "left" ELSE "right"

\* ngx_rbtree_insert_timer_value: the node that x is hung under.
RECURSIVE ParentFor(_, _, _, _)
ParentFor(t, key, x, temp) ==
  LET next == t.kid[TimerSide(key, x, temp)][temp]
  IN IF next = Nil THEN temp ELSE ParentFor(t, key, x, next)

ngx_rbtree_insert(t, key, x) ==
  LET p == ParentFor(t, key, x, t.root)
      bare == [t EXCEPT !.kid["left"][x] = Nil, !.kid["right"][x] = Nil]
  IN IF t.root = Nil
     THEN [bare EXCEPT !.root = x, !.up[x] = Nil, !.red[x] = FALSE]
     ELSE InsertFixup([bare EXCEPT !.kid[TimerSide(key, x, p)][p] = x, !.up[x] = p,
                                   !.red[x] = TRUE], x)

RECURSIVE DeleteFixup(_, _)
DeleteFixup(t, x) ==
  LET s == SideOf(t, x)
      o == Other(s)
      w0 == t.kid[o][t.up[x]]
      t1 == IF t.red[w0]
            THEN Rotate([t EXCEPT !.red[w0] = FALSE, !.red[t.up[x]] = TRUE], t.up[x], s)
            ELSE t
      w1 == t1.kid[o][t1.up[x]]
      t2 == IF ~t1.red[t1.kid[o][w1]]
            THEN Rotate([t1 EXCEPT !.red[t1.kid[s][w1]] = FALSE, !.red[w1] = TRUE], w1, o)
            ELSE t1
      p2 == t2.up[x]
      w2 == t2.kid[o][p2]
      t3 == Rotate([t2 EXCEPT !.red[w2] = t2.red[p2], !.red[p2] = FALSE,
                              !.red[t2.kid[o][w2]] = FALSE], p2, s)
  IN IF x = t.root \/ t.red[x] THEN [t EXCEPT !.red[x] = FALSE]
     ELSE IF ~t1.red[t1.kid["left"][w1]] /\ ~t1.red[t1.kid["right"][w1]]
     THEN DeleteFixup([t1 EXCEPT !.red[w1] = TRUE], t1.up[x])
     ELSE DeleteFixup(t3, t3.root)

\* (variant) the parent of the moved subtree is the successor's old parent
Substitute_OldParent(t, x, subst, temp) ==
  LET cut == [t EXCEPT !.kid[SideOf(t, subst)][t.up[subst]] = temp, !.up[temp] = t.up[subst]]
      l == cut.kid["left"][x]
      r == cut.kid["right"][x]
      in == [Relink(cut, x, subst) EXCEPT
               !.kid["left"][subst] = l, !.kid["right"][subst] = r,
               !.up[subst] = cut.up[x], !.red[subst] = t.red[x], !.up[l] = subst]
  IN IF r = Nil THEN in ELSE [in EXCEPT !.up[r] = subst]

\* The successor subst leaves its place to temp and takes the place of x.
Substitute(t, x, subst, temp) ==
  LET cut == [t EXCEPT !.kid[SideOf(t, subst)][t.up[subst]] = temp,
                       !.up[temp] = IF t.up[subst] = x THEN subst ELSE t.up[subst]]
      l == cut.kid["left"][x]
      r == cut.kid["right"][x]
      in == [Relink(cut, x, subst) EXCEPT
               !.kid["left"][subst] = l, !.kid["right"][subst] = r,
               !.up[subst] = cut.up[x], !.red[subst] = t.red[x], !.up[l] = subst]
  IN IF r = Nil THEN in ELSE [in EXCEPT !.up[r] = subst]

\* The fields of a deleted node are cleared.  The parents of the root and of
\* the sentinel are not read any more, and not kept.
Cleared(t, x) == [t EXCEPT !.kid["left"][x] = Nil, !.kid["right"][x] = Nil, !.red[x] = FALSE,
                           !.up = [@ EXCEPT ![x] = Nil, ![t.root] = Nil, ![Nil] = Nil]]

ngx_rbtree_delete(t, x) ==
  LET two == t.kid["left"][x] # Nil /\ t.kid["right"][x] # Nil
      subst == IF two THEN ngx_rbtree_min(t, t.kid["right"][x]) ELSE x
      temp == IF t.kid["left"][subst] # Nil THEN t.kid["left"][subst] ELSE t.kid["right"][subst]
      out == IF two THEN Substitute(t, x, subst, temp)
             ELSE [Relink(t, x, temp) EXCEPT !.up[temp] = t.up[x]]
  IN Cleared(IF subst = t.root THEN [t EXCEPT !.root = temp, !.red[temp] = FALSE]
             ELSE IF t.red[subst] THEN out
             ELSE DeleteFixup(out, temp), x)

(***************************************************************************)
(* The order (before the wrap of the clock) and the red-black rules.       *)
(***************************************************************************)
\* The black height below x, 0 when a rule is broken there; lo and hi are the
\* nodes that x has to be between, the sentinel where there is none.
RECURSIVE BlackHeight(_, _, _, _, _)
BlackHeight(t, key, x, lo, hi) ==
  LET l == t.kid["left"][x]
      r == t.kid["right"][x]
      hl == BlackHeight(t, key, l, lo, x)
      hr == BlackHeight(t, key, r, x, hi)
  IN IF x = Nil THEN 1
     ELSE IF \/ hl = 0 \/ hl # hr
             \/ t.red[x] /\ (t.red[l] \/ t.red[r])
             \/ l # Nil /\ t.up[l] # x
             \/ r # Nil /\ t.up[r] # x
             \/ lo # Nil /\ Before(key[x], key[lo])
             \/ hi # Nil /\ Before(key[hi], key[x])
          THEN 0 ELSE hl + IF t.red[x] THEN 0 ELSE 1

Balanced(t, key) ==
  ~t.red[Nil] /\ ~t.red[t.root] /\ BlackHeight(t, key, t.root, Nil, Nil) > 0
=============================================================================
