-------------------------- MODULE DeadlockDetector --------------------------
(***************************************************************************)
(* The deadlock detector of 3.2.5/deadlock_success.c.  It replaces         *)
(* pthread_mutex_lock and pthread_mutex_unlock: before the real lock it    *)
(* draws an edge from the caller to the thread the lock list names as the  *)
(* holder, after it the caller is entered as the holder and the edge goes; *)
(* a thread of its own looks for a cycle.  The threads are those of        *)
(* Debug 1: each takes its own mutex, then its neighbour's.                *)
(*                                                                         *)
(* tg->mutex makes every hook one step.  The search reads the graph        *)
(* without it; here it is one step, which is the best it can do.  The      *)
(* graph comes from the first malloc of the process and is all zeros.      *)
(***************************************************************************)
EXTENDS Integers

CONSTANT N      \* the threads and the mutexes: 4 in Debug 1

Threads == 1..N
Locks == 1..N
None == 0

VARIABLES owner,    \* who really holds every mutex
          entry,    \* lock_list: what the detector knows of every mutex
          edges,    \* the edges between the vertices of the graph
          pc,       \* of every thread
          step,     \* how far it is in its program
          verdict   \* what the last search printed

vars == <<owner, entry, edges, pc, step, verdict>>

\* thread_rountine_i: lock i, lock i+1, unlock i+1, unlock i.
Program(t) == <<t, (t % N) + 1, (t % N) + 1, t>>
Mutex(t) == Program(t)[step[t]]

NoEntry == [th_id |-> None, degress |-> 0]

Init == /\ owner = [l \in Locks |-> None]
        /\ entry = [l \in Locks |-> NoEntry]
        /\ edges = {}
        /\ pc = [t \in Threads |-> "call"]
        /\ step = [t \in Threads |-> 1]
        /\ verdict = ""

Goto(t, to) == pc' = [pc EXCEPT ![t] = to]

\* A mutex that is in the list: its holder is pointed to (not by itself), and
\* one more is counted.
lock_before(t) ==
  LET l == Mutex(t)
      v == entry[l].th_id
  IN /\ pc[t] = "call" /\ step[t] \in {1, 2}
     /\ IF entry[l] = NoEntry THEN UNCHANGED <<entry, edges>>
        ELSE /\ entry' = [entry EXCEPT ![l].degress = @ + 1]
             /\ edges' = IF v = t THEN edges ELSE edges \cup {<<t, v>>}
     /\ Goto(t, "lock")
     /\ UNCHANGED <<owner, step, verdict>>

\* pthread_mutex_lock_f
Lock(t) == /\ pc[t] = "lock" /\ owner[Mutex(t)] = None
           /\ owner' = [owner EXCEPT ![Mutex(t)] = t]
           /\ Goto(t, "locked")
           /\ UNCHANGED <<entry, edges, step, verdict>>

\* The edge to the holder the list names goes, and the caller is the holder.
lock_after(t) ==
  LET l == Mutex(t)
      v == entry[l].th_id
  IN /\ pc[t] = "locked"
     /\ IF entry[l] = NoEntry
        THEN /\ entry' = [entry EXCEPT ![l].th_id = t]
             /\ UNCHANGED edges
        ELSE /\ entry' = [entry EXCEPT ![l] = [th_id |-> t, degress |-> @.degress - 1]]
             /\ edges' = edges \ {<<t, v>>}
     /\ Goto(t, "call") /\ step' = [step EXCEPT ![t] = @ + 1]
     /\ UNCHANGED <<owner, verdict>>

\* pthread_mutex_unlock_f
Unlock(t) == /\ pc[t] = "call" /\ step[t] \in {3, 4}
             /\ owner' = [owner EXCEPT ![Mutex(t)] = None]
             /\ Goto(t, "unlocked")
             /\ UNCHANGED <<entry, edges, step, verdict>>

\* The entry is given up when nobody is counted.  (For a mutex without entry
\* the code looks at lock_list[-1], which overlays vertex_num and an unused
\* vertex: nothing comes of it.)
unlock_after(t) ==
  LET l == Mutex(t)
  IN /\ pc[t] = "unlocked"
     /\ entry' = IF entry[l].degress = 0 THEN [entry EXCEPT ![l] = NoEntry] ELSE entry
     /\ Goto(t, IF step[t] = 4 THEN "done" ELSE "call")
     /\ step' = [step EXCEPT ![t] = IF @ = 4 THEN 4 ELSE @ + 1]
     /\ UNCHANGED <<owner, edges, verdict>>

(***************************************************************************)
(* The search.  From every vertex, along each of its edges, DFS marks what *)
(* it visits and reports a deadlock where it comes to a marked vertex.     *)
(***************************************************************************)
After(u) == {v \in Threads : <<u, v>> \in edges}

\* The vertices marked when the search of idx is done, and whether it met a
\* marked one; a vertex's edges are followed in any order, with one outcome.
RECURSIVE DFS(_, _), Follow(_, _)
DFS(idx, s) ==
  IF idx \in s.visited THEN [s EXCEPT !.deadlock = TRUE]
  ELSE Follow(After(idx), [s EXCEPT !.visited = @ \cup {idx}])
Follow(targets, s) ==
  IF targets = {} THEN s
  ELSE LET v == CHOOSE x \in targets : TRUE IN Follow(targets \ {v}, DFS(v, s))

search_for_cycle(idx) ==
  \E v \in After(idx) : DFS(v, [visited |-> {idx}, deadlock |-> FALSE]).deadlock

check_dead_lock ==
  /\ verdict' = IF \E idx \in Threads : search_for_cycle(idx)
                THEN "deadlock" ELSE "no deadlock"
  /\ UNCHANGED <<owner, entry, edges, pc, step>>

Next == \/ \E t \in Threads : lock_before(t) \/ Lock(t) \/ lock_after(t)
                              \/ Unlock(t) \/ unlock_after(t)
        \/ check_dead_lock

Spec == Init /\ [][Next]_vars

(***************************************************************************)
(* Threads that wait for one another, in the real mutexes.                 *)
(***************************************************************************)
Deadlocked ==
  \E S \in (SUBSET Threads) \ {{}} :
    \A t \in S : pc[t] = "lock" /\ owner[Mutex(t)] \in S

(***************************************************************************)
(* When the search prints "no deadlock" the threads are not in one         *)
(* (check_dead_lock, deadlock_success.c:235).                              *)
(***************************************************************************)
NoDeadlockMeansNone == [][check_dead_lock /\ verdict' = "no deadlock" => ~Deadlocked]_vars
=============================================================================
