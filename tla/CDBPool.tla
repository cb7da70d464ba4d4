-------------------------------- MODULE CDBPool --------------------------------
(***************************************************************************)
(* The connection pool of 3.1.4 (DBpool.h, DBPool.cpp:338-468).  There may  *)
(* be several pools: every operation names the pool it works on.  A         *)
(* critical section of m_mutex is one step; a thread that waits on          *)
(* m_cond_var is in its wait set until it is notified or its time is over.  *)
(* Whether the database accepts a connection is not known.                  *)
(***************************************************************************)
EXTENDS Integers, Sequences, FiniteSets, SequencesExt

CONSTANTS
  Pools,           \* the CDBPool objects a run may create
  Users,           \* threads that call the pools
  Conns,           \* addresses a CDBConn may have: the bound on how many exist
  NULL,
  MIN_DB_CONN_CNT

ASSUME CDBPoolAssumption ==
  /\ NULL \notin Conns
  /\ IsFiniteSet(Conns)
  /\ MIN_DB_CONN_CNT \in Nat \ {0}

VARIABLES
  free_list,      \* pool -> m_free_list
  used_list,      \* pool -> what m_used_list holds: its order is never read
  cur_conn_cnt,   \* pool -> m_db_cur_conn_cnt
  max_conn_cnt,   \* pool -> m_db_max_conn_cnt
  live,           \* pool -> the CDBConn objects that exist
  use,            \* thread -> what it does with a pool
  conn            \* thread -> the result of its GetDBConn

connVars == <<free_list, used_list, cur_conn_cnt, max_conn_cnt, live, use, conn>>

Nothing == [op |-> "out"]
Waiting(p, timed, woken) ==
  [op |-> "wait", pool |-> p, timed |-> timed, woken |-> woken]

CDBPoolInit ==
  /\ free_list = [p \in Pools |-> <<>>]
  /\ used_list = [p \in Pools |-> {}]
  /\ cur_conn_cnt = [p \in Pools |-> 0]
  /\ max_conn_cnt = [p \in Pools |-> 0]
  /\ live = [p \in Pools |-> {}]
  /\ use = [t \in Users |-> Nothing]
  /\ conn = [t \in Users |-> NULL]

Unused == Conns \ UNION {live[p] : p \in Pools}
NewConn == CHOOSE c \in Unused : TRUE

-----------------------------------------------------------------------------

\* the constructor and Init, when the database answers
CreatePool(p, max) ==
  LET Fresh == {cs \in SUBSET Unused : Cardinality(cs) = MIN_DB_CONN_CNT}
      cs == CHOOSE cs \in Fresh : TRUE
  IN /\ Fresh # {}
     /\ live' = [live EXCEPT ![p] = cs]
     /\ free_list' = [free_list EXCEPT ![p] = SetToSeq(cs)]
     /\ cur_conn_cnt' = [cur_conn_cnt EXCEPT ![p] = MIN_DB_CONN_CNT]
     /\ max_conn_cnt' = [max_conn_cnt EXCEPT ![p] = max]
     /\ UNCHANGED <<used_list, use, conn>>

\* m_free_list.front is handed out
Grant(t, p) ==
  /\ free_list[p] # <<>>
  /\ conn' = [conn EXCEPT ![t] = Head(free_list[p])]
  /\ used_list' = [used_list EXCEPT ![p] = @ \cup {Head(free_list[p])}]
  /\ free_list' = [free_list EXCEPT ![p] = Tail(@)]
  /\ use' = [use EXCEPT ![t] = Nothing]
  /\ UNCHANGED <<cur_conn_cnt, max_conn_cnt, live>>

Refuse(t) ==
  /\ conn' = [conn EXCEPT ![t] = NULL]
  /\ use' = [use EXCEPT ![t] = Nothing]
  /\ UNCHANGED <<free_list, used_list, cur_conn_cnt, max_conn_cnt, live>>

\* no connection is free and there may be more: one is made and handed out
GrowCounted(t, p, counted) ==
  /\ free_list[p] = <<>>
  /\ cur_conn_cnt[p] < max_conn_cnt[p]
  /\ Unused # {}
  /\ live' = [live EXCEPT ![p] = @ \cup {NewConn}]
  /\ used_list' = [used_list EXCEPT ![p] = @ \cup {NewConn}]
  /\ conn' = [conn EXCEPT ![t] = NewConn]
  /\ cur_conn_cnt' = [cur_conn_cnt EXCEPT ![p] = @ + counted]
  /\ use' = [use EXCEPT ![t] = Nothing]
  /\ UNCHANGED <<free_list, max_conn_cnt>>

\* (variant) the new connection is not counted
Grow_Uncounted(t, p) == GrowCounted(t, p, 0)

Grow(t, p) == GrowCounted(t, p, 1)

GrowFails(t, p) ==
  /\ free_list[p] = <<>>
  /\ cur_conn_cnt[p] < max_conn_cnt[p]
  /\ Refuse(t)

Sleep(t, p, timed) ==
  /\ free_list[p] = <<>>
  /\ cur_conn_cnt[p] >= max_conn_cnt[p]
  /\ use' = [use EXCEPT ![t] = Waiting(p, timed, FALSE)]
  /\ UNCHANGED <<free_list, used_list, cur_conn_cnt, max_conn_cnt, live, conn>>

GetDBConn(t, p, timed) ==
  Grant(t, p) \/ Grow(t, p) \/ GrowFails(t, p) \/ Sleep(t, p, timed)

\* a notified thread finds a connection, or somebody else was faster
WakeUp(t) ==
  /\ use[t].op = "wait"
  /\ use[t].woken
  /\ LET p == use[t].pool IN
       \/ Grant(t, p)
       \/ /\ free_list[p] = <<>>
          /\ use' = [use EXCEPT ![t] = Waiting(@.pool, @.timed, FALSE)]
          /\ UNCHANGED <<free_list, used_list, cur_conn_cnt, max_conn_cnt, live, conn>>

\* wait_for gives up: the predicate has the last word
TimeOut(t) ==
  /\ use[t].op = "wait"
  /\ use[t].timed
  /\ LET p == use[t].pool IN
       \/ Grant(t, p)
       \/ free_list[p] = <<>> /\ Refuse(t)

ConnSpuriousWake(t) ==
  /\ use[t].op = "wait"
  /\ ~use[t].woken
  /\ use' = [use EXCEPT ![t] = Waiting(@.pool, @.timed, TRUE)]
  /\ UNCHANGED <<free_list, used_list, cur_conn_cnt, max_conn_cnt, live, conn>>

Sleepers(p) ==
  {t \in Users : use[t].op = "wait" /\ use[t].pool = p /\ ~use[t].woken}

\* (variant) nobody is notified
NotifyOneUser_Nobody(p) == UNCHANGED use

NotifyOneUser(p) ==
  IF Sleepers(p) = {} THEN UNCHANGED use
  ELSE \E t \in Sleepers(p) : use' = [use EXCEPT ![t] = Waiting(@.pool, @.timed, TRUE)]

\* what comes back is whatever the caller passes, NULL too; what is free
\* already is refused
RelDBConn(p, c) ==
  /\ IF c \in ToSet(free_list[p]) THEN UNCHANGED <<free_list, used_list, use>>
     ELSE /\ used_list' = [used_list EXCEPT ![p] = @ \ {c}]
          /\ free_list' = [free_list EXCEPT ![p] = Append(@, c)]
          /\ NotifyOneUser(p)
  /\ UNCHANGED <<cur_conn_cnt, max_conn_cnt, live>>

\* the destructor, called when no thread is inside the pool
DestroyPool(p) ==
  /\ Sleepers(p) = {}
  /\ live' = [live EXCEPT ![p] = @ \ ToSet(free_list[p])]
  /\ free_list' = [free_list EXCEPT ![p] = <<>>]
  /\ UNCHANGED <<used_list, cur_conn_cnt, max_conn_cnt, use>>

-----------------------------------------------------------------------------
(* Correctness                                                             *)

\* No connection is handed to two threads, and none that is held is free: the
\* search of RelDBConn (lines 453-458) looks only at the free list.
ExclusiveUse ==
  /\ \A t, u \in Users : t # u /\ conn[t] # NULL => conn[t] # conn[u]
  /\ \A p \in Pools :
       /\ IsInjective(free_list[p])
       /\ \A t \in Users : conn[t] # NULL => conn[t] \notin ToSet(free_list[p])

\* The lists and the counter agree about the connections that exist, and
\* their number keeps to the maximum.
CountMatches ==
  \A p \in Pools : live[p] # {} =>
    /\ live[p] = (ToSet(free_list[p]) \cup used_list[p]) \ {NULL}
    /\ ToSet(free_list[p]) \cap used_list[p] = {}
    /\ cur_conn_cnt[p] = Cardinality(live[p])
    /\ cur_conn_cnt[p] <= IF max_conn_cnt[p] > MIN_DB_CONN_CNT THEN max_conn_cnt[p]
                                                          ELSE MIN_DB_CONN_CNT

\* Every connection is in exactly one place, and is counted.
ConnectionsAccounted == ExclusiveUse /\ CountMatches

Coming(p) ==
  {t \in Users : use[t].op = "wait" /\ use[t].pool = p /\ use[t].woken}

\* RelDBConn notifies one thread per connection (line 463) and a thread that
\* did not sleep may be faster: still nobody sleeps beside a free connection
\* that no notified thread is coming for.
NoStrandedWaiter ==
  \A p \in Pools : Sleepers(p) # {} => Len(free_list[p]) <= Cardinality(Coming(p))
================================================================================
