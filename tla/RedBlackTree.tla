---------------------------- MODULE RedBlackTree ----------------------------
(***************************************************************************)
(* The red-black tree of 1.1.1/main.cpp, as operators on a tree value.     *)
(*                                                                         *)
(* Keys are distinct (rbtree_insert returns on an equal key), so a node is *)
(* named by the key it holds: when rbtree_delete copies the key of y over  *)
(* the one of z, the place of z takes the name of y.  The two mirrored     *)
(* halves of every procedure are one operator with a side.                 *)
(***************************************************************************)
EXTENDS Naturals, FiniteSets

CONSTANTS Keys,   \* the keys, numbers
          Nil     \* T->nil: one node, black, whose parent rbtree_delete sets

RED == 0
BLACK == 1
Places == Keys \cup {Nil}
Other(s) == IF s = "left" THEN "right" ELSE "left"

(***************************************************************************)
(* A tree: the root, and the left, right, parent and color of every node.  *)
(***************************************************************************)
NewTree == [root  |-> Nil,
            kid   |-> [s \in {"left", "right"} |-> [x \in Places |-> Nil]],
            up    |-> [x \in Places |-> Nil],
            color |-> [x \in Places |-> BLACK]]

RECURSIVE NodesBelow(_, _)
NodesBelow(t, x) ==
  IF x = Nil THEN {}
  ELSE {x} \cup NodesBelow(t, t.kid["left"][x]) \cup NodesBelow(t, t.kid["right"][x])
Holds(t) == NodesBelow(t, t.root)

\* The side of its parent that x hangs on.
SideOf(t, x) == IF x = t.kid["left"][t.up[x]] THEN "left" ELSE "right"

\* What pointed to x from above points to y.
Relink(t, x, y) ==
  IF t.up[x] = Nil THEN [t EXCEPT !.root = y]
  ELSE [t EXCEPT !.kid[SideOf(t, x)][t.up[x]] = y]

\* rbtree_left_rotate for s = "left", rbtree_right_rotate for s = "right".
Rotate(t, x, s) ==
  LET y == t.kid[Other(s)][x]
      b == t.kid[s][y]
      moved == [Relink(t, x, y) EXCEPT !.kid[Other(s)][x] = b, !.kid[s][y] = x,
                                       !.up[y] = t.up[x], !.up[x] = y]
  IN IF b = Nil THEN moved ELSE [moved EXCEPT !.up[b] = x]

(***************************************************************************)
(* Insertion.                                                              *)
(***************************************************************************)
RECURSIVE rbtree_insert_fixup(_, _)
rbtree_insert_fixup(t, z) ==
  LET p == t.up[z]
      g == t.up[p]
      s == SideOf(t, p)
      y == t.kid[Other(s)][g]
      inner == z = t.kid[Other(s)][p]
      \* the inner grandchild is first rotated to the outside
      z1 == IF inner THEN p ELSE z
      t1 == IF inner THEN Rotate(t, p, s) ELSE t
      p1 == t1.up[z1]
  IN CASE t.color[p] = BLACK -> [t EXCEPT !.color[t.root] = BLACK]
       [] t.color[p] = RED /\ t.color[y] = RED ->
            rbtree_insert_fixup([t EXCEPT !.color[p] = BLACK, !.color[y] = BLACK,
                                          !.color[g] = RED], g)
       [] OTHER ->
            rbtree_insert_fixup(
              Rotate([t1 EXCEPT !.color[p1] = BLACK, !.color[t1.up[p1]] = RED],
                     t1.up[p1], Other(s)), z1)

\* The last node the search for k goes through.
RECURSIVE LeafFor(_, _, _, _)
LeafFor(t, x, y, k) ==
  IF x = Nil THEN y ELSE LeafFor(t, t.kid[IF k < x THEN "left" ELSE "right"][x], x, k)

rbtree_insert(t, z) ==
  LET y == LeafFor(t, t.root, Nil, z)
      placed == [t EXCEPT !.up[z] = y, !.color[z] = RED,
                          !.kid["left"][z] = Nil, !.kid["right"][z] = Nil]
  IN IF z \in Holds(t) THEN t
     ELSE rbtree_insert_fixup(
            IF y = Nil THEN [placed EXCEPT !.root = z]
            ELSE [placed EXCEPT !.kid[IF z < y THEN "left" ELSE "right"][y] = z], z)

(***************************************************************************)
(* Deletion.                                                               *)
(***************************************************************************)
RECURSIVE rbtree_mini(_, _)
rbtree_mini(t, x) == IF t.kid["left"][x] = Nil THEN x ELSE rbtree_mini(t, t.kid["left"][x])

RECURSIVE rbtree_delete_fixup(_, _)
rbtree_delete_fixup(t, x) ==
  LET s == SideOf(t, x)
      o == Other(s)
      w0 == t.kid[o][t.up[x]]
      \* case 1: a red brother is rotated away
      t1 == IF t.color[w0] = RED
            THEN Rotate([t EXCEPT !.color[w0] = BLACK, !.color[t.up[x]] = RED], t.up[x], s)
            ELSE t
      w1 == t1.kid[o][t1.up[x]]
      \* case 3: the far nephew is black
      t2 == IF t1.color[t1.kid[o][w1]] = BLACK
            THEN Rotate([t1 EXCEPT !.color[t1.kid[s][w1]] = BLACK, !.color[w1] = RED], w1, o)
            ELSE t1
      p2 == t2.up[x]
      w2 == t2.kid[o][p2]
      \* case 4
      t3 == Rotate([t2 EXCEPT !.color[w2] = t2.color[p2], !.color[t2.kid[o][w2]] = BLACK,
                              !.color[p2] = BLACK], p2, s)
  IN IF x = t.root \/ t.color[x] = RED THEN [t EXCEPT !.color[x] = BLACK]
     ELSE IF t1.color[t1.kid["left"][w1]] = BLACK /\ t1.color[t1.kid["right"][w1]] = BLACK
     THEN rbtree_delete_fixup([t1 EXCEPT !.color[w1] = RED], t1.up[x])      \* case 2
     ELSE rbtree_delete_fixup(t3, t3.root)

\* The place of z takes the key of y, whose own place is free.
Overwrite(t, z, y) ==
  LET Renamed(f) == [x \in Places |->
        LET v == f[CASE x = y -> z [] x = z -> y [] OTHER -> x]
        IN IF v = z THEN y ELSE v]
  IN [t EXCEPT !.root = IF @ = z THEN y ELSE @,
               !.kid = [s \in {"left", "right"} |-> Renamed(@[s])],
               !.up = Renamed(@), !.color[y] = t.color[z]]

\* Nothing is left of a node that is freed, and the parent of nil, which only
\* the fixup reads, is not kept.
Freed(t, x) == [t EXCEPT !.kid["left"][x] = Nil, !.kid["right"][x] = Nil,
                         !.up[x] = Nil, !.up[Nil] = Nil, !.color[x] = BLACK]

rbtree_delete(t, z) ==
  LET two == t.kid["left"][z] # Nil /\ t.kid["right"][z] # Nil
      \* rbtree_successor of a node with two children
      y == IF two THEN rbtree_mini(t, t.kid["right"][z]) ELSE z
      x == IF t.kid["left"][y] # Nil THEN t.kid["left"][y] ELSE t.kid["right"][y]
      cut == [Relink(t, y, x) EXCEPT !.up[x] = t.up[y]]
      over == IF y # z THEN Overwrite(cut, z, y) ELSE cut
  IN Freed(IF t.color[y] = BLACK THEN rbtree_delete_fixup(over, x) ELSE over, z)

(***************************************************************************)
(* The order and the red-black rules.                                      *)
(***************************************************************************)
\* The black height below x, 0 when a rule is broken there; lo and hi are the
\* keys that x has to be between, nil where there is none.
RECURSIVE BlackHeight(_, _, _, _)
BlackHeight(t, x, lo, hi) ==
  LET l == t.kid["left"][x]
      r == t.kid["right"][x]
      hl == BlackHeight(t, l, lo, x)
      hr == BlackHeight(t, r, x, hi)
  IN IF x = Nil THEN 1
     ELSE IF \/ hl = 0 \/ hl # hr
             \/ t.color[x] = RED /\ RED \in {t.color[l], t.color[r]}
             \/ l # Nil /\ t.up[l] # x
             \/ r # Nil /\ t.up[r] # x
             \/ lo # Nil /\ x <= lo
             \/ hi # Nil /\ x >= hi
          THEN 0 ELSE hl + t.color[x]

Balanced(t) ==
  /\ t.color[Nil] = BLACK
  /\ t.color[t.root] = BLACK
  /\ t.root # Nil => t.up[t.root] = Nil
  /\ BlackHeight(t, t.root, Nil, Nil) > 0
=============================================================================
