----------------------------- MODULE LinkedQueue -----------------------------
(***************************************************************************)
(* SimpleLockFreeQueue.h of 3.2.4: a linked list whose nodes are recycled  *)
(* through a free list.  A node is addressed by an index that carries a    *)
(* version, raised each time the node is reused, so that a                 *)
(* compare-and-swap with an old index fails.  The node at head is the      *)
(* oldest one; a flag says that its item is already consumed, because the  *)
(* last node of the list cannot be unlinked.                               *)
(*                                                                         *)
(* Each access to a word that another thread may change at that moment is  *)
(* a step.  The loop around the tail's compare-and-swap has no effect but  *)
(* the exchange, and is one step.  Blocks of nodes are not modelled: node  *)
(* n is the n-th one nextNodeIdx gave out.                                 *)
(***************************************************************************)
EXTENDS Integers, Sequences, FiniteSets

CONSTANTS Producers, Consumers,
          MaxNode,  \* nodes the run can need: the blank one and one per item
          NoItem

VARIABLES
  next,          \* Node::next
  rawItem,       \* Node::rawItem
  nextNodeIdx,   \* nodes given out so far
  head, tail,    \* of the list; head with its consumed flag
  freeListHead,
  at,            \* where each thread is inside an operation, "out" if in none
  mine,          \* head_ or nodeIdx: the node a thread works on
  other          \* the second index an operation has loaded

queueVars == <<next, rawItem, nextNodeIdx, head, tail, freeListHead>>
linkedVars == <<queueVars, at, mine, other>>

Threads == Producers \cup Consumers
Nodes == 1 .. MaxNode
Index(n, v) == [node |-> n, version |-> v]
Null == Index(0, 0)
Flagged(idx, c) == [idx |-> idx, consumed |-> c]

\* The list starts with a blank node that counts as consumed.
Init ==
  /\ next = [n \in Nodes |-> Null]
  /\ rawItem = [n \in Nodes |-> NoItem]
  /\ nextNodeIdx = 1
  /\ head = Flagged(Index(1, 0), TRUE)
  /\ tail = Index(1, 0)
  /\ freeListHead = Null
  /\ at = [t \in Threads |-> "out"]
  /\ mine = [t \in Threads |-> Null]
  /\ other = [t \in Threads |-> Null]

Goto(t, place) == at' = [at EXCEPT ![t] = place]

\* The operation returns, or its loop starts again: its locals are gone.
Leave(t) ==
  /\ Goto(t, "out")
  /\ mine' = [mine EXCEPT ![t] = Null]
  /\ other' = [other EXCEPT ![t] = Null]

-----------------------------------------------------------------------------
(* enqueue                                                                 *)

\* try_get_node_from_free_list: with no free node a new one is made
LoadFree(p) ==
  /\ at[p] = "out"
  /\ mine' = [mine EXCEPT ![p] = freeListHead]
  /\ Goto(p, IF freeListHead = Null THEN "new" ELSE "free")
  /\ UNCHANGED <<queueVars, other>>

NewNode(p, item) ==
  /\ at[p] = "new"
  /\ nextNodeIdx' = nextNodeIdx + 1
  /\ rawItem' = [rawItem EXCEPT ![nextNodeIdx + 1] = item]
  /\ mine' = [mine EXCEPT ![p] = Index(nextNodeIdx + 1, 0)]
  /\ Goto(p, "swap")
  /\ UNCHANGED <<next, head, tail, freeListHead, other>>

LoadFreeNext(p) ==
  /\ at[p] = "free"
  /\ other' = [other EXCEPT ![p] = next[mine[p].node]]
  /\ Goto(p, "unfree")
  /\ UNCHANGED <<queueVars, mine>>

\* (variant) the version stays
PopFree_Unversioned(p) ==
  /\ at[p] = "unfree"
  /\ freeListHead = mine[p]
  /\ freeListHead' = other[p]
  /\ Goto(p, "clear")
  /\ UNCHANGED <<next, rawItem, nextNodeIdx, head, tail, mine, other>>

PopFree(p) ==
  /\ at[p] = "unfree"
  /\ freeListHead = mine[p]
  /\ freeListHead' = other[p]
  /\ mine' = [mine EXCEPT ![p].version = @ + 1]
  /\ Goto(p, "clear")
  /\ UNCHANGED <<next, rawItem, nextNodeIdx, head, tail, other>>

PopFreeFails(p) ==
  /\ at[p] = "unfree"
  /\ freeListHead # mine[p]
  /\ mine' = [mine EXCEPT ![p] = freeListHead]
  /\ Goto(p, IF freeListHead = Null THEN "new" ELSE "free")
  /\ UNCHANGED <<queueVars, other>>

Reuse(p, item) ==
  /\ at[p] = "clear"
  /\ next' = [next EXCEPT ![mine[p].node] = Null]
  /\ rawItem' = [rawItem EXCEPT ![mine[p].node] = item]
  /\ Goto(p, "swap")
  /\ UNCHANGED <<nextNodeIdx, head, tail, freeListHead, mine, other>>

SwapTail(p) ==
  /\ at[p] = "swap"
  /\ tail' = mine[p]
  /\ other' = [other EXCEPT ![p] = tail]
  /\ Goto(p, "link")
  /\ UNCHANGED <<next, rawItem, nextNodeIdx, head, freeListHead, mine>>

\* (variant) links behind the node that is the tail by now
Link_AtTail(p) ==
  /\ at[p] = "link"
  /\ next' = [next EXCEPT ![tail.node] = mine[p]]
  /\ Leave(p)
  /\ UNCHANGED <<rawItem, nextNodeIdx, head, tail, freeListHead>>

\* enqueue returns
Link(p) ==
  /\ at[p] = "link"
  /\ next' = [next EXCEPT ![other[p].node] = mine[p]]
  /\ Leave(p)
  /\ UNCHANGED <<rawItem, nextNodeIdx, head, tail, freeListHead>>

-----------------------------------------------------------------------------
(* try_dequeue                                                             *)

LoadHead(c) ==
  /\ at[c] = "out"
  /\ mine' = [mine EXCEPT ![c] = head]
  /\ Goto(c, "next")
  /\ UNCHANGED <<queueVars, other>>

\* try_dequeue returns false
FindEmpty(c) ==
  /\ at[c] = "next"
  /\ next[mine[c].idx.node] = Null
  /\ mine[c].consumed
  /\ Leave(c)
  /\ UNCHANGED queueVars

FindNext(c) ==
  /\ at[c] = "next"
  /\ other' = [other EXCEPT ![c] = next[mine[c].idx.node]]
  /\ \/ /\ next[mine[c].idx.node] = Null
        /\ ~mine[c].consumed
        /\ Goto(c, "flag")
     \/ /\ next[mine[c].idx.node] # Null
        /\ Goto(c, "move")
  /\ UNCHANGED <<queueVars, mine>>

\* The only node of the list stays; its item is claimed by the flag.
ClaimLast(c) ==
  /\ at[c] = "flag"
  /\ head = mine[c]
  /\ head' = [head EXCEPT !.consumed = TRUE]
  /\ Goto(c, "take")
  /\ UNCHANGED <<next, rawItem, nextNodeIdx, tail, freeListHead, mine, other>>

\* The node leaves the list with its item, if that is not consumed yet.
Unlink(c) ==
  /\ at[c] = "move"
  /\ head = mine[c]
  /\ head' = Flagged(other[c], FALSE)
  /\ Goto(c, "give")
  /\ UNCHANGED <<next, rawItem, nextNodeIdx, tail, freeListHead, mine, other>>

HeadMoved(c) ==
  /\ at[c] \in {"flag", "move"}
  /\ head # mine[c]
  /\ Leave(c)
  /\ UNCHANGED queueVars

\* The item a thread reads out of the node it claimed.
Claimed(c) == rawItem[mine[c].idx.node]
HasClaimed(c) ==
  \/ at[c] = "take"
  \/ at[c] \in {"give", "store", "push"} /\ ~mine[c].consumed

\* The item is moved out, and try_dequeue returns true.
TakeLast(c) ==
  /\ at[c] = "take"
  /\ Leave(c)
  /\ UNCHANGED queueVars

\* add_node_to_free_list
LoadFreeList(c) ==
  /\ at[c] = "give"
  /\ other' = [other EXCEPT ![c] = freeListHead]
  /\ Goto(c, "store")
  /\ UNCHANGED <<queueVars, mine>>

StoreFreeNext(c) ==
  /\ at[c] = "store"
  /\ next' = [next EXCEPT ![mine[c].idx.node] = other[c]]
  /\ Goto(c, "push")
  /\ UNCHANGED <<rawItem, nextNodeIdx, head, tail, freeListHead, mine, other>>

\* try_dequeue returns true if the node brought an item, or tries again
PushFree(c) ==
  /\ at[c] = "push"
  /\ freeListHead = other[c]
  /\ freeListHead' = mine[c].idx
  /\ Leave(c)
  /\ UNCHANGED <<next, rawItem, nextNodeIdx, head, tail>>

PushFreeFails(c) ==
  /\ at[c] = "push"
  /\ freeListHead # other[c]
  /\ other' = [other EXCEPT ![c] = freeListHead]
  /\ Goto(c, "store")
  /\ UNCHANGED <<queueVars, mine>>

-----------------------------------------------------------------------------

\* The node behind each node: the one its link leads to, or the one that a
\* producer is about to link; 0 if there is none
Linked == [n \in Nodes |-> next[n].node]
Linking(n) == {p \in Producers : at[p] = "link" /\ other[p].node = n}
Behind ==
  [n \in Nodes |-> IF Linking(n) = {} THEN Linked[n]
                   ELSE mine[CHOOSE p \in Linking(n) : TRUE].node]

\* The nodes met from node first on
Walk(first, behind) ==
  LET walk[k \in Nodes] ==
        IF k = 1 THEN first
        ELSE IF walk[k - 1] = 0 THEN 0 ELSE behind[walk[k - 1]]
  IN [k \in 1 .. Cardinality({j \in Nodes : walk[j] # 0}) |-> walk[k]]

ListNodes == Walk(head.idx.node, Behind)
FreeNodes == Walk(freeListHead.node, Linked)

\* A node a thread has to itself: taken for an enqueue, or out of the list
Holds(t, n) ==
  \/ at[t] \in {"clear", "swap"} /\ mine[t].node = n
  \/ at[t] \in {"give", "store", "push"} /\ mine[t].idx.node = n

\* The items in the list, oldest first
Contents ==
  LET nodes == IF head.consumed THEN Tail(ListNodes) ELSE ListNodes
  IN [k \in 1 .. Len(nodes) |-> rawItem[nodes[k]]]

\* Whatever threads do to the list and the free list at the same time, every
\* node given out is in one of them or in one thread's hands, and nowhere
\* twice: none leaks, none is given out again while it is in use.
NodesAccounted ==
  \A n \in 1 .. nextNodeIdx :
    LET Occurs(s) == Cardinality({k \in DOMAIN s : s[k] = n})
    IN Occurs(ListNodes) + Occurs(FreeNodes)
         + Cardinality({t \in Threads : Holds(t, n)}) = 1
=============================================================================
