----------------------------- MODULE Containers -----------------------------
(***************************************************************************)
(* The ordered containers of the repository, one per behaviour:            *)
(*   heap  3.2.3/minheap.c under mh-timer.h                                *)
(*   tree  3.2.3/rbtree.c under rbt-timer.h                                *)
(*   skip  3.2.3/skiplist.c under skl-timer.c                              *)
(*   wheel 3.2.3/single_tw.c                                               *)
(*   keys  1.1.1/main.cpp, a red-black tree of keys                        *)
(*   btree 1.1.2/btree.cpp, a B tree of keys                               *)
(* The first four hold timers,  and one thread runs the loop of their    *)
(* programs: sleep until the next deadline, handle what woke it, expire.   *)
(***************************************************************************)
EXTENDS Integers, FiniteSets

CONSTANTS Kinds,          \* the containers to be checked
          MaxHeld,        \* per kind, the items there are: 1..MaxHeld[kind]
          Delays,         \* per kind, what add_timer is called with outside expire_timer
          HandlerDelays,  \* what a timer's handler calls add_timer with
          LastDeadline,   \* per kind, the bound on deadlines
          LastTick,       \* per kind, where the clock stops, but for a sleep under way
          Width,          \* the values of the clock: 2^32 in the code
          MaxLevel,       \* levels of the skip list
          Conns, TW_SIZE, EXPIRE,   \* of the wheel
          MinDegree       \* t of the B tree

ASSUME MinDegreeAssumption == MinDegree \in Nat \ {0, 1}

VARIABLES kind,  \* the container of this behaviour
          box,   \* its value
          due,   \* the deadline of every timer that is in
          now,   \* the clock
          pc,    \* of the loop: "events", "wait", "expire"
          mark   \* "wait": when the sleep ends; "expire": the clock at its start

vars == <<kind, box, due, now, pc, mark>>

TimerKinds == {"heap", "tree", "skip", "wheel"}
Polled == {"skip", "wheel"}   \* their loops sleep for a fixed time
Items == 1..MaxHeld[kind]
Most == CHOOSE n \in {MaxHeld[k] : k \in Kinds} : \A k \in Kinds : MaxHeld[k] <= n
Never == -1          \* epoll_wait's timeout without a timer

Heap == INSTANCE MinHeap WITH Timers <- 1..MaxHeld["heap"], Nil <- 0
Tree == INSTANCE NgxTree WITH Timers <- 1..MaxHeld["tree"], Nil <- 0
Skip == INSTANCE SkipList WITH Timers <- 1..MaxHeld["skip"], Nil <- 0, Head <- -1
Wheel == INSTANCE SingleWheel WITH Timers <- 1..MaxHeld["wheel"]
RB   == INSTANCE RedBlackTree WITH Keys <- 1..MaxHeld["keys"], Nil <- 0
BT   == INSTANCE BTree WITH T <- MinDegree, NoRoot <- [keys |-> <<>>, kids |-> <<0>>]

Held == CASE kind = "heap"  -> Heap!Holds(box)
          [] kind = "tree"  -> Tree!Holds(box)
          [] kind = "skip"  -> Skip!Holds(box)
          [] kind = "wheel" -> Wheel!Holds(box)
          [] kind = "keys"  -> RB!Holds(box)
          [] kind = "btree" -> BT!Holds(box)

Empty(k) == CASE k = "heap"  -> Heap!NewHeap
              [] k = "tree"  -> Tree!NewTree
              [] k = "skip"  -> Skip!NewList
              [] k = "wheel" -> Wheel!NewWheel
              [] k = "keys"  -> RB!NewTree
              [] k = "btree" -> BT!NewTree

Init == /\ kind \in Kinds
        /\ box = Empty(kind)
        /\ due = [x \in 1..Most |-> 0]
        /\ now = 0
        /\ pc = "events"
        /\ mark = 0

(***************************************************************************)
(* The trees of keys: any insertion, any deletion the code defines.  The   *)
(* last deletion frees the root of the B tree, and an insertion after it   *)
(* would read the NULL it leaves.                                          *)
(***************************************************************************)
Insert(k) ==
  /\ CASE kind = "keys" -> box' = RB!rbtree_insert(box, k)
       [] kind = "btree" -> /\ k \notin Held       \* main's keys are distinct
                            /\ box # [keys |-> <<>>, kids |-> <<0>>]
                            /\ box' = BT!btree_insert(box, k)
  /\ UNCHANGED <<kind, due, now, pc, mark>>

Delete(k) ==
  /\ k \in Held
  /\ CASE kind = "keys" -> box' = RB!rbtree_delete(box, k)
       [] kind = "btree" -> BT!Deletable(box, k) /\ box' = BT!btree_delete(box, k)
  /\ UNCHANGED <<kind, due, now, pc, mark>>

(***************************************************************************)
(* The timers.                                                             *)
(***************************************************************************)
\* current_time() + msec, in the width of the clock; the wheel counts ticks.
Deadline(ms) == IF kind = "wheel" THEN box.tick + EXPIRE + ms ELSE (now + ms) % Width

\* Timer x goes into container b; dues are the deadlines with it.
Added(b, dues, x, choice) ==
  CASE kind = "heap" -> Heap!min_heap_push_(b, dues, x)
    [] kind = "tree" -> Tree!ngx_rbtree_insert(b, dues, x)
    [] kind = "skip" -> Skip!zslInsert(b, dues, x, choice)
    [] kind = "wheel" -> Wheel!add_conn(b, x, choice, dues[x] - b.tick - EXPIRE)

\* malloc gives a timer that is not in use; which one does not matter.
FreeTimer(used) == CHOOSE x \in Items \ used : \A y \in Items \ used : x <= y

\* What zslRandomLevel draws; the connection whose heartbeat it is.
Choices == CASE kind = "skip" -> 1..MaxLevel
             [] kind = "wheel" -> Conns
             [] OTHER -> {1}

add_timer(ms) ==
  /\ kind \in TimerKinds /\ pc = "events"
  /\ Held # Items
  /\ LET x == FreeTimer(Held)
     IN /\ due' = [due EXCEPT ![x] = Deadline(ms)]
        /\ \E choice \in Choices : box' = Added(box, due', x, choice)
  /\ UNCHANGED <<kind, now, pc, mark>>

\* The timer that del_timer(x) takes out.
Taken(x) == IF kind = "skip" THEN Skip!Victim(box, due, x) ELSE x

del_timer(x) ==
  /\ kind \in TimerKinds \ {"wheel"} /\ pc = "events"
  /\ x \in Held
  /\ box' = CASE kind = "heap" -> Heap!min_heap_erase_(box, due, x)
              [] kind = "tree" -> Tree!ngx_rbtree_delete(box, x)
              [] kind = "skip" -> Skip!zslDelete(box, due, x)
  /\ due' = [due EXCEPT ![Taken(x)] = 0]
  /\ UNCHANGED <<kind, now, pc, mark>>

First == CASE kind = "heap" -> box.p[0]
           [] kind = "tree" -> Tree!ngx_rbtree_min(box, box.root)
           [] kind = "skip" -> Skip!zslMin(box)
           [] kind = "wheel" -> Wheel!First(box)

\* (variant) an overdue timer looks far away
Signed_Unsigned(a) == a % Width

\* (int) a in the width of the clock
Signed(a) == IF a % Width >= Width \div 2 THEN (a % Width) - Width ELSE a % Width

\* find_nearest_expire_timer, as the time at which the sleep ends: the heap and
\* the tree sleep until the first deadline, the polling loops for a fixed time.
find_nearest_expire_timer ==
  IF kind \in Polled THEN now + 1
  ELSE IF Held = {} THEN Never
  ELSE LET diff == Signed(due[First] - now) IN now + IF diff > 0 THEN diff ELSE 0

\* epoll_wait (usleep) ends at its timeout; an event may end the former earlier.
Wake == /\ pc = "wait" /\ kind # "wheel"
        /\ mark # Never /\ now >= mark
        /\ pc' = "expire" /\ mark' = now
        /\ UNCHANGED <<kind, box, due, now>>

Event == /\ pc = "wait" /\ kind # "skip"
         /\ kind = "wheel" => box.tick = now
         /\ pc' = "events" /\ mark' = 0
         /\ UNCHANGED <<kind, box, due, now>>

\* The caller is done with its events: expire_timer reads the clock.
EventsDone == /\ kind \in TimerKinds \ {"wheel"} /\ pc = "events"
              /\ pc' = "expire" /\ mark' = now % Width
              /\ UNCHANGED <<kind, box, due, now>>

\* The loop of the wheel calls check_conn for every second that has passed.
CheckConn == /\ kind = "wheel" /\ pc \in {"events", "wait"}
             /\ box.tick < now
             /\ pc' = "expire" /\ mark' = box.tick
             /\ box' = Wheel!NextTick(box)
             /\ UNCHANGED <<kind, due, now>>

\* What ends expire_timer's loop; the wheel has the list to go through.
AnyDue == IF kind = "wheel" THEN Wheel!Current(box) # <<>>
          ELSE Held # {} /\ due[First] <= mark

\* One turn of expire_timer: the first timer is called, with what its handler
\* does, and then the first one (tree: this one) is taken out.
Removed(b, dues, x) ==
  CASE kind = "heap" -> Heap!min_heap_pop_(b, dues)
    [] kind = "tree" -> Tree!ngx_rbtree_delete(b, x)
    [] kind = "skip" -> Skip!zslDeleteHead(b)
    [] kind = "wheel" -> Wheel!Released(b)

Expire ==
  /\ pc = "expire" /\ AnyDue
  /\ \/ /\ box' = Removed(box, due, First)
        /\ due' = [due EXCEPT ![First] = 0]
     \/ /\ kind # "wheel" /\ Held # Items
        /\ \E ms \in HandlerDelays :
             LET y == FreeTimer(Held)
                 dues == [due EXCEPT ![y] = Deadline(ms)]
             IN /\ now + ms <= LastDeadline[kind]
                /\ \E choice \in Choices :
                     box' = Removed(Added(box, dues, y, choice), dues, First)
                /\ due' = [dues EXCEPT ![First] = 0]
  /\ UNCHANGED <<kind, now, pc, mark>>

\* No timer is due: back to the top of the loop, and to sleep.
ExpireDone == /\ pc = "expire" /\ ~AnyDue
              /\ pc' = "wait" /\ mark' = find_nearest_expire_timer
              /\ UNCHANGED <<kind, box, due, now>>

Tick == /\ kind \in TimerKinds
        /\ now < LastTick[kind] \/ (pc = "wait" /\ Held # {} /\ now < mark)
        /\ now' = now + 1
        /\ UNCHANGED <<kind, box, due, pc, mark>>

Next == \/ /\ kind \notin TimerKinds
           /\ \E k \in Items : Insert(k) \/ Delete(k)
        \/ \E ms \in Delays[kind] : now + ms <= LastDeadline[kind] /\ add_timer(ms)
        \/ \E x \in Items : del_timer(x)
        \/ Wake \/ Event \/ EventsDone \/ CheckConn \/ Expire \/ ExpireDone \/ Tick

Spec == Init /\ [][Next]_vars

-----------------------------------------------------------------------------
(***************************************************************************)
(* The container keeps its own rules: the heap its order and every timer   *)
(* its index; the wheel its counts; the tree and the tree of keys their order, their parents and *)
(* the red-black rules; the skip list its levels; the B tree its order,    *)
(* filling and height (minheap.c, rbtree.c, skiplist.c, main.cpp,          *)
(* btree.cpp).                                                             *)
(***************************************************************************)
ContainersIntact ==
  CASE kind = "heap"  -> Heap!Ordered(box, due)
    [] kind = "tree"  -> Tree!Balanced(box, due)
    [] kind = "skip"  -> Skip!Layered(box, due)
    [] kind = "wheel" -> Wheel!Counted(box)
    [] kind = "keys"  -> RB!Balanced(box)
    [] kind = "btree" -> BT!WellFormed(box)

(***************************************************************************)
(* Nothing is lost, put in twice or taken out unasked; expire_timer calls  *)
(* what is due, the earliest first, and leaves nothing that was due when   *)
(* it started (the containers' insert and delete under expire_timer).      *)
(***************************************************************************)
Promised == INSTANCE Agenda WITH
  Items <- 1..Most, Idle <- -1,
  held <- [x \in Held |-> IF kind \in TimerKinds THEN due[x] ELSE x],
  started <- IF pc = "expire" THEN mark ELSE -1
AgendaKept == Promised!Spec

(***************************************************************************)
(* The loop never sleeps past a deadline: whatever was added, taken out or *)
(* called since, and however long that took, the sleep it is in ends by    *)
(* the first deadline or is over; the skip list's and the wheel's poll     *)
(* (find_nearest_expire_timer, epoll_wait and usleep of the mains).        *)
(***************************************************************************)
NeverOversleeps ==
  pc = "wait" =>
    \A x \in Held : mark # Never /\ (mark <= due[x] \/ mark <= now \/ kind \in Polled)
=============================================================================
