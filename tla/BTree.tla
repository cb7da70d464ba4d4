------------------------------- MODULE BTree -------------------------------
(***************************************************************************)
(* The B tree of 1.1.2/btree.cpp.  A node is a value, its keys and its     *)
(* children; a leaf has no children.  Indices count from 1, the code's     *)
(* from 0.  Emptied nodes are freed and the arrays behind the two          *)
(* sequences have room for 2t-1 keys and 2t children: the addresses are    *)
(* left out.                                                               *)
(***************************************************************************)
EXTENDS Naturals, SequencesExt, FiniteSets

CONSTANTS T,        \* the minimum degree: main uses 3
          NoRoot    \* T->root == NULL, what the last deletion leaves

IsLeaf(node) == node.kids = <<>>
Num(node) == Len(node.keys)

\* Children a to b; a leaf has none to take.
Part(kids, a, b) == IF kids = <<>> THEN <<>> ELSE SubSeq(kids, a, b)

\* btree_create
NewTree == [keys |-> <<>>, kids |-> <<>>]

RECURSIVE KeysBelow(_)
KeysBelow(node) == Range(node.keys) \cup UNION {KeysBelow(c) : c \in Range(node.kids)}
Holds(root) == IF root = NoRoot THEN {} ELSE KeysBelow(root)

(***************************************************************************)
(* Insertion: a full child is split before it is entered.                  *)
(***************************************************************************)
\* btree_split_clild: the middle key of child i goes up.
Split(x, i) ==
  LET y == x.kids[i]
      Half(ks, cs) == [keys |-> ks, kids |-> cs]
      lower == Half(SubSeq(y.keys, 1, T - 1), Part(y.kids, 1, T))
      upper == Half(SubSeq(y.keys, T + 1, 2 * T - 1), Part(y.kids, T + 1, 2 * T))
  IN [keys |-> InsertAt(x.keys, i, y.keys[T]),
      kids |-> InsertAt(ReplaceAt(x.kids, i, lower), i + 1, upper)]

RECURSIVE btree_insert_nonfull(_, _)
btree_insert_nonfull(x, key) ==
  LET i == 1 + Cardinality({j \in 1..Num(x) : x.keys[j] <= key})
      split == Num(x.kids[i]) = 2 * T - 1
      x1 == IF split THEN Split(x, i) ELSE x
      i1 == IF split /\ key > x1.keys[i] THEN i + 1 ELSE i
  IN IF IsLeaf(x) THEN [x EXCEPT !.keys = InsertAt(@, i, key)]
     ELSE [x1 EXCEPT !.kids[i1] = btree_insert_nonfull(@, key)]

\* A full root gets a new root above it and is split.
btree_insert(root, key) ==
  IF Num(root) = 2 * T - 1
  THEN btree_insert_nonfull(Split([keys |-> <<>>, kids |-> <<root>>], 1), key)
  ELSE btree_insert_nonfull(root, key)

(***************************************************************************)
(* Deletion: a child is given a key to spare before it is entered.         *)
(***************************************************************************)
\* btree_merge: child i, key i and child i+1 become child i.
Merge(node, i) ==
  LET l == node.kids[i]
      r == node.kids[i + 1]
  IN [keys |-> RemoveAt(node.keys, i),
      kids |-> ReplaceAt(RemoveAt(node.kids, i + 1), i,
                         [keys |-> l.keys \o <<node.keys[i]>> \o r.keys,
                          kids |-> l.kids \o r.kids])]

\* Child i takes key i, and the first key of child i+1 takes its place.
BorrowRight(node, i) ==
  LET r == node.kids[i + 1]
  IN [node EXCEPT
        !.keys[i] = Head(r.keys),
        !.kids[i] = [keys |-> Append(@.keys, node.keys[i]),
                     kids |-> @.kids \o Part(r.kids, 1, 1)],
        !.kids[i + 1] = [keys |-> Tail(r.keys), kids |-> Part(r.kids, 2, Len(r.kids))]]

BorrowLeft(node, i) ==
  LET l == node.kids[i - 1]
  IN [node EXCEPT
        !.keys[i - 1] = Last(l.keys),
        !.kids[i] = [keys |-> <<node.keys[i - 1]>> \o @.keys,
                     kids |-> Part(l.kids, Len(l.kids), Len(l.kids)) \o @.kids],
        !.kids[i - 1] = [keys |-> Front(l.keys),
                         kids |-> Part(l.kids, 1, Len(l.kids) - 1)]]

\* The child the search for key goes to: the first key not below it is key i.
ChildFor(node, key) == 1 + Cardinality({j \in 1..Num(node) : node.keys[j] < key})
Found(node, key) == LET i == ChildFor(node, key) IN i <= Num(node) /\ node.keys[i] = key

RECURSIVE btree_delete_key(_, _)
btree_delete_key(node, key) ==
  LET i == ChildFor(node, key)
      here == Found(node, key)
      numL == IF i > 1 THEN Num(node.kids[i - 1]) ELSE 0
      numR == IF i <= Num(node) THEN Num(node.kids[i + 1]) ELSE 0
      Enter(n, j, k) == [n EXCEPT !.kids[j] = btree_delete_key(@, k)]
      Replaced(j, k) == Enter([node EXCEPT !.keys[i] = k], j, k)
  IN CASE here /\ IsLeaf(node) -> [node EXCEPT !.keys = RemoveAt(@, i)]
       [] here /\ ~IsLeaf(node) ->
            IF Num(node.kids[i]) >= T THEN Replaced(i, Last(node.kids[i].keys))
            ELSE IF numR >= T THEN Replaced(i + 1, Head(node.kids[i + 1].keys))
            ELSE Enter(Merge(node, i), i, key)
       [] ~here /\ IsLeaf(node) -> node                 \* "Cannot del key"
       [] ~here /\ ~IsLeaf(node) ->
            IF Num(node.kids[i]) >= T THEN Enter(node, i, key)
            ELSE IF numR >= T /\ numR > numL THEN Enter(BorrowRight(node, i), i, key)
            ELSE IF numL >= T THEN Enter(BorrowLeft(node, i), i, key)
            ELSE IF i > 1 THEN Enter(Merge(node, i - 1), i - 1, key)
            ELSE Enter(Merge(node, i), i, key)

\* A root without keys gives way to its only child, or to nothing.
btree_delete(root, key) ==
  LET r == btree_delete_key(root, key)
  IN IF r.keys # <<>> THEN r ELSE IF IsLeaf(r) THEN NoRoot ELSE r.kids[1]

(***************************************************************************)
(* The deletions whose outcome the code defines.  A key of an inner node   *)
(* is replaced by the last key of the child before it (or the first of the *)
(* child after it), which is its neighbour in the order only when that     *)
(* child is a leaf; and a root whose only key is merged down is freed and  *)
(* then read.                                                              *)
(***************************************************************************)
RECURSIVE HolderOf(_, _)
HolderOf(node, key) ==
  IF Found(node, key) THEN node ELSE HolderOf(node.kids[ChildFor(node, key)], key)

Deletable(root, key) ==
  LET n == HolderOf(root, key)
      i == ChildFor(n, key)
      lends == Num(n.kids[i]) >= T \/ Num(n.kids[i + 1]) >= T
  IN IF IsLeaf(n) THEN TRUE
     ELSE IF lends THEN IsLeaf(n.kids[i]) ELSE n # root \/ Num(root) > 1

(***************************************************************************)
(* The rules of the tree: sorted, filled, of one height.                   *)
(***************************************************************************)
\* The height, 0 when a rule is broken below node.
RECURSIVE Height(_, _)
Height(node, least) ==
  LET hs == {Height(c, T - 1) : c \in Range(node.kids)}
  IN IF \/ Num(node) \notin least..(2 * T - 1)
        \/ \E j \in 1..(Num(node) - 1) : node.keys[j] >= node.keys[j + 1]
     THEN 0
     ELSE IF IsLeaf(node) THEN 1
     ELSE IF \/ Len(node.kids) # Num(node) + 1
             \/ 0 \in hs \/ Cardinality(hs) # 1
             \/ \E j \in 1..Num(node) :
                  \/ \E k \in KeysBelow(node.kids[j]) : k >= node.keys[j]
                  \/ \E k \in KeysBelow(node.kids[j + 1]) : k <= node.keys[j]
     THEN 0 ELSE 1 + CHOOSE h \in hs : TRUE

WellFormed(root) == root # NoRoot => Height(root, 0) > 0
=============================================================================
