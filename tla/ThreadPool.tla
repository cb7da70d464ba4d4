------------------------------ MODULE ThreadPool ------------------------------
(***************************************************************************)
(* ZERO_ThreadPool of 3.1.4 (ZeroThreadpool.h, ZeroThreadpool.cpp) used by  *)
(* one thread, Main, the way test1 and testWorkUsePool of test_dbpool.cpp   *)
(* use it: init, start, exec for every task, waitForAllDone, stop.          *)
(* A critical section of _mutex is one step; what a worker does outside it  *)
(* is a step of its own.  Both the workers and waitForAllDone sleep on      *)
(* _condition: "asleep" is its wait set.                                    *)
(***************************************************************************)
EXTENDS Integers, Sequences, FiniteSets, SequencesExt

CONSTANTS
  Workers,   \* the threads start creates
  Main,      \* the thread that owns the pool
  TaskNum,   \* tasks Main hands to exec
  Timed,     \* the tasks exec got a timeout for
  Patient    \* possible arguments of waitForAllDone: TRUE for "wait forever"

ASSUME ThreadPoolAssumption ==
  /\ Main \notin Workers
  /\ IsFiniteSet(Workers) /\ Workers # {}
  /\ TaskNum \in Nat
  /\ Timed \subseteq 1 .. TaskNum
  /\ Patient \subseteq BOOLEAN

VARIABLES
  tasks,       \* _tasks
  bTerminate,  \* _bTerminate
  running,     \* _atomic
  pc,          \* where each thread is
  task,        \* the task a worker took from the queue; 0: none
  submitted,   \* tasks Main has handed to exec
  outcome,     \* task -> "executed" or "expired" once a worker is done with it
  patient      \* the argument Main calls waitForAllDone with

poolVars == <<tasks, bTerminate, running, pc, task, submitted, outcome, patient>>

Threads == Workers \cup {Main}
Tasks == 1 .. TaskNum

ThreadPoolInit ==
  /\ tasks = <<>>
  /\ bTerminate = FALSE
  /\ running = 0
  /\ pc = [t \in Threads |-> IF t = Main THEN "start" ELSE "unborn"]
  /\ task = [w \in Workers |-> 0]
  /\ submitted = 0
  /\ outcome = [k \in Tasks |-> "pending"]
  /\ patient \in Patient

\* Where a thread goes on after its wait: back to the predicate.
Awake(t) == IF t = Main THEN "wait" ELSE "get"

Asleep == {t \in Threads : pc[t] = "asleep"}

Goto(t, label) == pc' = [pc EXCEPT ![t] = label]

\* t goes to label and everybody who sleeps wakes up
NotifyAll(t, label) ==
  pc' = [u \in Threads |->
    IF u = t THEN label ELSE IF u \in Asleep THEN Awake(u) ELSE pc[u]]

\* t goes to label and one sleeper, if there is one, wakes up
NotifyOne(t, label) ==
  IF Asleep = {} THEN Goto(t, label)
  ELSE \E u \in Asleep : pc' = [pc EXCEPT ![t] = label, ![u] = Awake(u)]

-----------------------------------------------------------------------------
(* Main                                                                    *)

\* init and start: the threads begin to run
Start ==
  /\ pc[Main] = "start"
  /\ pc' = [t \in Threads |-> IF t = Main THEN "exec" ELSE "loop"]
  /\ UNCHANGED <<tasks, bTerminate, running, task, submitted, outcome, patient>>

Exec ==
  /\ pc[Main] = "exec"
  /\ submitted < TaskNum
  /\ submitted' = submitted + 1
  /\ tasks' = Append(tasks, submitted + 1)
  /\ NotifyOne(Main, "exec")
  /\ UNCHANGED <<bTerminate, running, task, outcome, patient>>

AllSubmitted ==
  /\ pc[Main] = "exec"
  /\ submitted = TaskNum
  /\ Goto(Main, "wait")
  /\ UNCHANGED <<tasks, bTerminate, running, task, submitted, outcome, patient>>

\* waitForAllDone, at its first test and whenever it is woken up
WaitForAllDone ==
  /\ pc[Main] = "wait"
  /\ Goto(Main, IF tasks = <<>> THEN "stop" ELSE "asleep")
  /\ UNCHANGED <<tasks, bTerminate, running, task, submitted, outcome, patient>>

\* wait_for gives up
WaitTimesOut ==
  /\ pc[Main] = "asleep"
  /\ ~patient
  /\ Goto(Main, "stop")
  /\ UNCHANGED <<tasks, bTerminate, running, task, submitted, outcome, patient>>

\* (variant) stop sets the flag and wakes up a single thread
Stop_NotifiesOne ==
  /\ pc[Main] = "stop"
  /\ bTerminate' = TRUE
  /\ NotifyOne(Main, "join")
  /\ UNCHANGED <<tasks, running, task, submitted, outcome, patient>>

Stop ==
  /\ pc[Main] = "stop"
  /\ bTerminate' = TRUE
  /\ NotifyAll(Main, "join")
  /\ UNCHANGED <<tasks, running, task, submitted, outcome, patient>>

\* (variant) stop does not wait for the threads
Join_Detached ==
  /\ pc[Main] = "join"
  /\ Goto(Main, "done")
  /\ UNCHANGED <<tasks, bTerminate, running, task, submitted, outcome, patient>>

Join ==
  /\ pc[Main] = "join"
  /\ \A w \in Workers : pc[w] = "exited"
  /\ Goto(Main, "done")
  /\ UNCHANGED <<tasks, bTerminate, running, task, submitted, outcome, patient>>

MainStep ==
  Start \/ Exec \/ AllSubmitted \/ WaitForAllDone \/ WaitTimesOut \/ Stop \/ Join

-----------------------------------------------------------------------------
(* run, the function of a worker                                           *)

\* the loop condition reads the flag without the mutex
Loop(w) ==
  /\ pc[w] = "loop"
  /\ Goto(w, IF bTerminate THEN "exited" ELSE "get")
  /\ UNCHANGED <<tasks, bTerminate, running, task, submitted, outcome, patient>>

\* get, at its first test and whenever it is woken up
GetStopped(w) ==
  /\ pc[w] = "get"
  /\ bTerminate
  /\ Goto(w, "loop")
  /\ UNCHANGED <<tasks, bTerminate, running, task, submitted, outcome, patient>>

\* (variant) the task stays in the queue
GetTask_KeepsFront(w) ==
  /\ pc[w] = "get"
  /\ ~bTerminate
  /\ tasks # <<>>
  /\ task' = [task EXCEPT ![w] = Head(tasks)]
  /\ Goto(w, "begin")
  /\ UNCHANGED <<tasks, bTerminate, running, submitted, outcome, patient>>

GetTask(w) ==
  /\ pc[w] = "get"
  /\ ~bTerminate
  /\ tasks # <<>>
  /\ task' = [task EXCEPT ![w] = Head(tasks)]
  /\ tasks' = Tail(tasks)
  /\ Goto(w, "begin")
  /\ UNCHANGED <<bTerminate, running, submitted, outcome, patient>>

GetSleeps(w) ==
  /\ pc[w] = "get"
  /\ ~bTerminate
  /\ tasks = <<>>
  /\ Goto(w, "asleep")
  /\ UNCHANGED <<tasks, bTerminate, running, task, submitted, outcome, patient>>

Begin(w) ==
  /\ pc[w] = "begin"
  /\ running' = running + 1
  /\ Goto(w, "run")
  /\ UNCHANGED <<tasks, bTerminate, task, submitted, outcome, patient>>

\* the task's time was over before it began: it is dropped
Expire(w) ==
  /\ pc[w] = "run"
  /\ task[w] \in Timed
  /\ outcome' = [outcome EXCEPT ![task[w]] = "expired"]
  /\ Goto(w, "end")
  /\ UNCHANGED <<tasks, bTerminate, running, task, submitted, patient>>

\* the task's function returns or throws
Execute(w) ==
  /\ pc[w] = "run"
  /\ outcome' = [outcome EXCEPT ![task[w]] = "executed"]
  /\ Goto(w, "end")
  /\ UNCHANGED <<tasks, bTerminate, running, task, submitted, patient>>

End(w) ==
  /\ pc[w] = "end"
  /\ running' = running - 1
  /\ task' = [task EXCEPT ![w] = 0]
  /\ Goto(w, "notify")
  /\ UNCHANGED <<tasks, bTerminate, submitted, outcome, patient>>

\* (variant) one thread is notified, which may be another worker
NotifyWaiter_One(w) ==
  /\ pc[w] = "notify"
  /\ IF running = 0 /\ tasks = <<>> THEN NotifyOne(w, "loop") ELSE Goto(w, "loop")
  /\ UNCHANGED <<tasks, bTerminate, running, task, submitted, outcome, patient>>

NotifyWaiter(w) ==
  /\ pc[w] = "notify"
  /\ IF running = 0 /\ tasks = <<>> THEN NotifyAll(w, "loop") ELSE Goto(w, "loop")
  /\ UNCHANGED <<tasks, bTerminate, running, task, submitted, outcome, patient>>

SpuriousWake(t) ==
  /\ pc[t] = "asleep"
  /\ Goto(t, Awake(t))
  /\ UNCHANGED <<tasks, bTerminate, running, task, submitted, outcome, patient>>

\* everything a worker does but the task itself
WorkerLoop(w) ==
  \/ Loop(w) \/ GetStopped(w) \/ GetTask(w) \/ GetSleeps(w) \/ Begin(w)
  \/ Expire(w) \/ End(w) \/ NotifyWaiter(w)

-----------------------------------------------------------------------------
(* Correctness                                                             *)

ThreadPoolTypeOK ==
  /\ tasks \in Seq(Tasks)
  /\ bTerminate \in BOOLEAN
  /\ running \in 0 .. Cardinality(Workers)
  /\ pc \in [Threads -> {"unborn", "start", "exec", "wait", "asleep", "stop",
                         "join", "done", "loop", "get", "begin", "run", "end",
                         "notify", "exited"}]
  /\ task \in [Workers -> 0 .. TaskNum]
  /\ submitted \in 0 .. TaskNum
  /\ outcome \in [Tasks -> {"pending", "executed", "expired"}]
  /\ patient \in BOOLEAN

\* A task is in one place: queued once, with one worker, or done with.  The
\* queue keeps the order of exec.
TasksConserved ==
  /\ \A k \in Tasks :
       Cardinality({j \in 1 .. Len(tasks) : tasks[j] = k})
       + Cardinality({w \in Workers : task[w] = k /\ pc[w] # "end"})
       + (IF outcome[k] # "pending" THEN 1 ELSE 0) = IF k <= submitted THEN 1 ELSE 0
  /\ \A j \in 1 .. Len(tasks) - 1 : tasks[j] < tasks[j + 1]

\* exec wakes up one thread (ZeroThreadpool.h:166): while tasks are queued and
\* nobody stops the pool some worker is awake and will get to them.
NoTaskStranded ==
  tasks # <<>> /\ ~bTerminate => \E w \in Workers : pc[w] # "asleep"

\* waitForAllDone sleeps on the same condition the workers do.  When the queue
\* is empty and it still sleeps, a worker is on its way to wake it up
\* (ZeroThreadpool.cpp:101-105); nothing else does.
WaiterWillBeWoken ==
  pc[Main] = "asleep" /\ tasks = <<>> =>
    \E w \in Workers : pc[w] \in {"begin", "run", "end", "notify"}

\* One condition variable serves workers and waiter: no notification that is
\* needed is taken by somebody who cannot use it.
NobodyStranded == NoTaskStranded /\ WaiterWillBeWoken

\* stop waits for the tasks being executed (ZeroThreadpool.cpp:22): when it has
\* returned no thread is left, and if Main waited without a timeout before,
\* every task was done with.
StopLeavesNothingRunning ==
  pc[Main] = "done" =>
    /\ \A w \in Workers : pc[w] = "exited" /\ task[w] = 0
    /\ patient => tasks = <<>> /\ \A k \in Tasks : outcome[k] # "pending"
===============================================================================
