------------------------------ MODULE PooledWork ------------------------------
(***************************************************************************)
(* test_dbpool.cpp: the tasks of the thread pool work on the database       *)
(* through connections.  testWorkUsePool gives all of them one connection   *)
(* pool; in testWorkNoPool every task makes a pool of its own and deletes   *)
(* it.  Either way Main first creates the table through the shared pool.    *)
(***************************************************************************)
EXTENDS ThreadPool, CDBPool

CONSTANTS
  Shared,    \* the pool of testWorkUsePool; a task's own is named by its worker
  MaxConns,  \* possible db_maxconncnt of the shared pool
  Programs   \* which of "use pool" and "no pool" to run

ASSUME PooledWorkAssumption ==
  /\ Users = Threads
  /\ Workers \subseteq Pools
  /\ Shared \in Pools \ Workers
  /\ MaxConns \subseteq Nat
  /\ Programs \subseteq {"use pool", "no pool"}

VARIABLES
  program,   \* the program that runs
  setup,     \* how far Main is before it starts the threads
  job        \* worker -> how far it is in workUsePool or workNoPool

workVars == <<poolVars, connVars, program, setup, job>>

WorkInit ==
  /\ ThreadPoolInit
  /\ CDBPoolInit
  /\ program \in Programs
  /\ setup = "create"
  /\ job = [w \in Workers |-> "idle"]

PoolOf(w) == IF program = "use pool" THEN Shared ELSE w

-----------------------------------------------------------------------------
(* Main before it starts the threads                                       *)

\* it gives up when Init fails or the table cannot be created
SetupFails ==
  /\ setup = "create" \/ (setup = "ddl" /\ conn[Main] # NULL)
  /\ setup' = "failed"
  /\ UNCHANGED <<poolVars, connVars, program, job>>

SetupCreate ==
  /\ setup = "create"
  /\ \E max \in MaxConns : CreatePool(Shared, max)
  /\ setup' = "get"
  /\ UNCHANGED <<poolVars, program, job>>

SetupGet ==
  /\ setup = "get"
  /\ GetDBConn(Main, Shared, FALSE)
  /\ setup' = "ddl"
  /\ UNCHANGED <<poolVars, program, job>>

SetupRelease ==
  /\ setup = "ddl"
  /\ use[Main] = Nothing
  /\ RelDBConn(Shared, conn[Main])
  /\ conn' = [conn EXCEPT ![Main] = NULL]
  /\ setup' = "threads"
  /\ UNCHANGED <<poolVars, program, job>>

MainRuns ==
  /\ setup = "threads"
  /\ MainStep
  /\ UNCHANGED <<connVars, program, setup, job>>

MainNext == SetupCreate \/ SetupGet \/ SetupFails \/ SetupRelease \/ MainRuns

-----------------------------------------------------------------------------
(* The tasks                                                               *)

InTask(w) == pc[w] = "run"

\* workNoPool creates a pool; when that fails it returns at once
TaskCreates(w) ==
  /\ InTask(w)
  /\ program = "no pool"
  /\ job[w] = "idle"
  /\ CreatePool(w, 1)
  /\ job' = [job EXCEPT ![w] = "get"]
  /\ UNCHANGED <<poolVars, program, setup>>

TaskCreateFails(w) ==
  /\ InTask(w)
  /\ program = "no pool"
  /\ job[w] = "idle"
  /\ job' = [job EXCEPT ![w] = "finished"]
  /\ UNCHANGED <<poolVars, connVars, program, setup>>

\* workUsePool waits for a connection for two seconds, workNoPool for ever
TaskGets(w) ==
  /\ InTask(w)
  /\ job[w] = IF program = "use pool" THEN "idle" ELSE "get"
  /\ GetDBConn(w, PoolOf(w), program = "use pool")
  /\ job' = [job EXCEPT ![w] = "work"]
  /\ UNCHANGED <<poolVars, program, setup>>

TaskWaits(w) ==
  /\ job[w] = "work"
  /\ WakeUp(w) \/ TimeOut(w)
  /\ UNCHANGED <<poolVars, program, setup, job>>

\* insertUser is over, or GetDBConn returned NULL: the result of GetDBConn is
\* given back in both cases
TaskReleases(w) ==
  /\ job[w] = "work"
  /\ use[w] = Nothing
  /\ RelDBConn(PoolOf(w), conn[w])
  /\ conn' = [conn EXCEPT ![w] = NULL]
  /\ job' = [job EXCEPT ![w] = IF program = "use pool" THEN "finished" ELSE "delete"]
  /\ UNCHANGED <<poolVars, program, setup>>

TaskDeletes(w) ==
  /\ job[w] = "delete"
  /\ DestroyPool(w)
  /\ job' = [job EXCEPT ![w] = "finished"]
  /\ UNCHANGED <<poolVars, conn, program, setup>>

TaskReturns(w) ==
  /\ job[w] = "finished"
  /\ Execute(w)
  /\ job' = [job EXCEPT ![w] = "idle"]
  /\ UNCHANGED <<connVars, program, setup>>

WorkerRuns(w) ==
  /\ job[w] = "idle"
  /\ WorkerLoop(w)
  /\ UNCHANGED <<connVars, program, setup, job>>

WorkerNext(w) ==
  \/ WorkerRuns(w) \/ TaskCreates(w) \/ TaskCreateFails(w) \/ TaskGets(w)
  \/ TaskWaits(w) \/ TaskReleases(w) \/ TaskDeletes(w) \/ TaskReturns(w)

SpuriousWakes ==
  \/ /\ \E t \in Threads : SpuriousWake(t)
     /\ UNCHANGED <<connVars, program, setup, job>>
  \/ /\ \E t \in Users : ConnSpuriousWake(t)
     /\ UNCHANGED <<poolVars, program, setup, job>>

Returned == setup = "failed" \/ pc[Main] = "done"

WorkNext ==
  \/ MainNext
  \/ \E w \in Workers : WorkerNext(w)
  \/ SpuriousWakes
  \/ Returned /\ UNCHANGED workVars

\* Each thread is scheduled again and again, and the clock goes on.
WorkSpec ==
  /\ WorkInit
  /\ [][WorkNext]_workVars
  /\ WF_workVars(MainNext)
  /\ \A w \in Workers : WF_workVars(WorkerNext(w))

-----------------------------------------------------------------------------
(* Correctness                                                             *)

\* The program comes to its end: no task, connection or notification keeps it
\* waiting (test_dbpool.cpp:153-155 and 203-205).
ProgramReturns == <>Returned

\* When Main is done all connections are back, and the pools the tasks made
\* are gone with theirs (test_dbpool.cpp:65, 104-105 and 141).
AllConnectionsBack ==
  pc[Main] = "done" =>
    /\ used_list[Shared] = {}
    /\ \A w \in Workers : live[w] = {}

\* The program ends with its threads, its tasks and its connections settled.
EverythingGivenBack == StopLeavesNothingRunning /\ AllConnectionsBack
===============================================================================
