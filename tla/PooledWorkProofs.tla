--------------------------- MODULE PooledWorkProofs ---------------------------
(***************************************************************************)
(* What ZERO_ThreadPool keeps for any number of threads and tasks, and      *)
(* whatever the tasks do: a task is any number of steps that leave the pool *)
(* alone, then Execute.  The benchmark programs use the pool so: what is     *)
(* proved of it holds of them, and of the connections their tasks share.    *)
(***************************************************************************)
EXTENDS PooledWork, FiniteSetTheorems, SequenceTheorems, TLAPS

-----------------------------------------------------------------------------
(* The thread pool                                                         *)

PoolNext ==
  \/ MainStep
  \/ \E w \in Workers : WorkerLoop(w) \/ Execute(w)
  \/ \E t \in Threads : SpuriousWake(t)

PoolSpec == ThreadPoolInit /\ [][PoolNext]_poolVars

-----------------------------------------------------------------------------
(* The inductive invariant                                                 *)

MainLabels == {"start", "exec", "wait", "asleep", "stop", "join", "done"}
WorkerLabels == {"unborn", "loop", "get", "asleep", "begin", "run", "end",
                 "notify", "exited"}

PoolTypes ==
  /\ tasks \in Seq(Tasks)
  /\ bTerminate \in BOOLEAN
  /\ running \in Int
  /\ pc \in [Threads -> MainLabels \cup WorkerLabels]
  /\ pc[Main] \in MainLabels
  /\ \A w \in Workers : pc[w] \in WorkerLabels
  /\ task \in [Workers -> 0 .. TaskNum]
  /\ submitted \in 0 .. TaskNum
  /\ outcome \in [Tasks -> {"pending", "executed", "expired"}]
  /\ patient \in BOOLEAN

\* How far Main is says how far the rest can be.
Phases ==
  /\ bTerminate <=> pc[Main] \in {"join", "done"}
  /\ pc[Main] \notin {"start", "exec"} => submitted = TaskNum
  /\ patient /\ pc[Main] \in {"stop", "join", "done"} => tasks = <<>>
  /\ pc[Main] = "start" => \A w \in Workers : pc[w] = "unborn"
  /\ pc[Main] = "done" => \A w \in Workers : pc[w] = "exited"

\* _atomic counts the workers that are between its two changes.
Busy == {w \in Workers : pc[w] \in {"run", "end"}}
RunningCountsBusy == running = Cardinality(Busy)

\* A task with a worker: taken from the queue, not given up yet.
Holds(w) == pc[w] \in {"begin", "run", "end"}

\* Where a task can be, without counting.
QueueOrdered ==
  /\ \A j \in 1 .. Len(tasks) : tasks[j] <= submitted
  /\ \A j, k \in 1 .. Len(tasks) : j < k => tasks[j] < tasks[k]

HeldOnce ==
  /\ \A w \in Workers :
       /\ Holds(w) <=> task[w] # 0
       /\ task[w] <= submitted
       /\ \A j \in 1 .. Len(tasks) : tasks[j] # task[w]
  /\ \A w, u \in Workers : w # u /\ task[w] # 0 => task[w] # task[u]

OutcomeSettled ==
  /\ \A j \in 1 .. Len(tasks) : outcome[tasks[j]] = "pending"
  /\ \A w \in Workers : task[w] # 0 =>
       (outcome[task[w]] = "pending" <=> pc[w] # "end")
  /\ \A k \in Tasks : k > submitted => outcome[k] = "pending"

NoneLost ==
  \A k \in Tasks : k <= submitted /\ outcome[k] = "pending" =>
    \/ \E j \in 1 .. Len(tasks) : tasks[j] = k
    \/ \E w \in Workers : task[w] = k

PoolInv ==
  /\ PoolTypes /\ Phases /\ RunningCountsBusy /\ NobodyStranded
  /\ QueueOrdered /\ HeldOnce /\ OutcomeSettled /\ NoneLost

-----------------------------------------------------------------------------
(* What a step does to the threads                                         *)

\* t goes to label; nobody else does anything but wake up.
Moves(t, label) ==
  /\ pc' \in [Threads -> MainLabels \cup WorkerLabels]
  /\ pc'[t] = label
  /\ \A u \in Threads : u # t =>
       \/ pc'[u] = pc[u]
       \/ pc[u] = "asleep" /\ pc'[u] = Awake(u)

LEMMA AwakeLabels ==
  /\ Awake(Main) = "wait" /\ Awake(Main) \in MainLabels
  /\ \A w \in Workers : Awake(w) = "get" /\ Awake(w) \in WorkerLabels
  BY ThreadPoolAssumption DEF Awake, MainLabels, WorkerLabels

LEMMA GotoMoves ==
  ASSUME PoolTypes, NEW t \in Threads,
         NEW label \in MainLabels \cup WorkerLabels, Goto(t, label)
  PROVE  /\ Moves(t, label)
         /\ \A u \in Threads : u # t => pc'[u] = pc[u]
  BY DEF PoolTypes, Goto, Moves

LEMMA NotifyAllMoves ==
  ASSUME PoolTypes, NEW t \in Threads, pc[t] # "asleep",
         NEW label \in MainLabels \cup WorkerLabels, NotifyAll(t, label)
  PROVE  /\ Moves(t, label)
         /\ \A u \in Threads : u # t => pc'[u] # "asleep"
<1>1. \A u \in Threads : Awake(u) \in MainLabels \cup WorkerLabels
                         /\ Awake(u) # "asleep"
  BY AwakeLabels DEF Threads
<1> QED BY <1>1 DEF PoolTypes, NotifyAll, Moves, Asleep

\* The notification reaches a sleeper if there is one.
LEMMA NotifyOneMoves ==
  ASSUME PoolTypes, NEW t \in Threads, pc[t] # "asleep",
         NEW label \in MainLabels \cup WorkerLabels, NotifyOne(t, label)
  PROVE  /\ Moves(t, label)
         /\ Asleep # {} => \E u \in Asleep : pc'[u] = Awake(u)
<1>1. CASE Asleep = {}
  BY <1>1, GotoMoves DEF NotifyOne
<1>2. CASE Asleep # {}
  <2>1. PICK u \in Asleep : pc' = [pc EXCEPT ![t] = label, ![u] = Awake(u)]
    BY <1>2 DEF NotifyOne
  <2>2. u \in Threads /\ u # t /\ pc[u] = "asleep"
        /\ Awake(u) \in MainLabels \cup WorkerLabels
    BY AwakeLabels DEF Asleep, Threads
  <2>3. pc'[u] = Awake(u) /\ pc'[t] = label
        /\ \A v \in Threads : v # t /\ v # u => pc'[v] = pc[v]
    BY <2>1, <2>2 DEF PoolTypes
  <2>4. pc' \in [Threads -> MainLabels \cup WorkerLabels]
    BY <2>1, <2>2 DEF PoolTypes
  <2> QED BY <2>2, <2>3, <2>4 DEF Moves
<1> QED BY <1>1, <1>2

\* A step that moves one thread keeps every thread at a label of its kind.
LEMMA MovesKeepKinds ==
  ASSUME PoolTypes, NEW t \in Threads, NEW label, Moves(t, label),
         t = Main => label \in MainLabels,
         t # Main => label \in WorkerLabels
  PROVE  /\ pc'[Main] \in MainLabels
         /\ \A w \in Workers : pc'[w] \in WorkerLabels
<1>1. Main \in Threads /\ Workers \subseteq Threads /\ Main \notin Workers
  BY ThreadPoolAssumption DEF Threads
<1> QED BY <1>1, AwakeLabels DEF PoolTypes, Moves

\* Steps that take, finish or drop no task.
LEMMA TasksUntouched ==
  ASSUME PoolInv, UNCHANGED <<tasks, running, task, submitted, outcome>>,
         \A w \in Workers : /\ Holds(w)' <=> Holds(w)
                            /\ pc'[w] = "end" <=> pc[w] = "end"
                            /\ pc'[w] = "run" <=> pc[w] = "run"
  PROVE  RunningCountsBusy' /\ QueueOrdered' /\ HeldOnce' /\ OutcomeSettled'
         /\ NoneLost'
<1>1. Busy' = Busy
  BY DEF Busy
<1>2. RunningCountsBusy'
  BY <1>1 DEF PoolInv, RunningCountsBusy
<1>3. QueueOrdered'
  BY DEF PoolInv, QueueOrdered
<1>4. HeldOnce'
  BY DEF PoolInv, HeldOnce
<1>5. OutcomeSettled'
  BY DEF PoolInv, OutcomeSettled
<1>6. NoneLost'
  BY DEF PoolInv, NoneLost
<1> QED BY <1>2, <1>3, <1>4, <1>5, <1>6

\* The thread that moves has no task, before and after.
LEMMA IdleMove ==
  ASSUME PoolInv, NEW t \in Threads, NEW label, Moves(t, label),
         pc[t] \notin {"begin", "run", "end"}, label \notin {"begin", "run", "end"},
         UNCHANGED <<tasks, running, task, submitted, outcome>>
  PROVE  RunningCountsBusy' /\ QueueOrdered' /\ HeldOnce' /\ OutcomeSettled'
         /\ NoneLost'
<1>1. ASSUME NEW w \in Workers
      PROVE  /\ Holds(w)' <=> Holds(w)
             /\ pc'[w] = "end" <=> pc[w] = "end"
             /\ pc'[w] = "run" <=> pc[w] = "run"
  <2>1. w \in Threads
    BY DEF Threads
  <2>2. CASE w = t
    BY <2>2 DEF Moves, Holds
  <2>3. CASE w # t
    BY <2>1, <2>3, AwakeLabels DEF Moves, Holds
  <2> QED BY <2>2, <2>3
<1> QED BY <1>1, TasksUntouched

\* A worker that is awake stays so unless the step puts it to sleep.
LEMMA NoTaskStrandedKept ==
  ASSUME PoolInv, NEW t \in Threads, NEW label, Moves(t, label),
         t = Main \/ label # "asleep", tasks # <<>> \/ tasks' = <<>>,
         bTerminate => bTerminate'
  PROVE  NoTaskStranded'
<1> SUFFICES ASSUME tasks' # <<>>, ~bTerminate'
             PROVE  \E w \in Workers : pc'[w] # "asleep"
  BY DEF NoTaskStranded
<1>1. PICK w \in Workers : pc[w] # "asleep"
  BY DEF PoolInv, NobodyStranded, NoTaskStranded
<1>2. w \in Threads /\ w # Main
  BY ThreadPoolAssumption DEF Threads
<1>3. CASE w = t
  BY <1>2, <1>3 DEF Moves
<1>4. CASE w # t
  BY <1>1, <1>2, <1>4 DEF Moves
<1> QED BY <1>3, <1>4

\* A worker that is on its way to wake Main up stays on it unless the step
\* takes it off.
OnItsWay == {"begin", "run", "end", "notify"}

LEMMA WaiterWillBeWokenKept ==
  ASSUME PoolInv, NEW t \in Threads, NEW label, Moves(t, label),
         t = Main => label # "asleep",
         pc[t] \in OnItsWay => label \in OnItsWay,
         label \in OnItsWay => t # Main, tasks' = tasks
  PROVE  WaiterWillBeWoken'
<1> SUFFICES ASSUME pc'[Main] = "asleep", tasks' = <<>>
             PROVE  \E w \in Workers : pc'[w] \in OnItsWay
  BY DEF WaiterWillBeWoken, OnItsWay
<1>1. pc[Main] = "asleep"
  BY AwakeLabels DEF Moves, Threads
<1>2. PICK w \in Workers : pc[w] \in OnItsWay
  BY <1>1 DEF PoolInv, NobodyStranded, WaiterWillBeWoken, OnItsWay
<1>3. w \in Threads /\ pc[w] # "asleep"
  BY <1>2 DEF Threads, OnItsWay
<1>4. CASE w = t
  BY <1>2, <1>4 DEF Moves
<1>5. CASE w # t
  BY <1>2, <1>3, <1>5 DEF Moves
<1> QED BY <1>4, <1>5

\* Workers' steps leave Main's progress alone.
LEMMA PhasesKept ==
  ASSUME PoolInv, NEW w \in Workers, NEW label, Moves(w, label),
         pc[w] \notin {"unborn", "exited"}, UNCHANGED <<bTerminate, submitted, patient>>,
         tasks = <<>> => tasks' = <<>>
  PROVE  Phases'
<1>1. Main \in Threads /\ w # Main /\ w \in Threads
  BY ThreadPoolAssumption DEF Threads
<1>2. pc'[Main] = pc[Main] \/ (pc[Main] = "asleep" /\ pc'[Main] = "wait")
  BY <1>1, AwakeLabels DEF Moves
<1>3. pc'[Main] \notin {"start", "done"}
  BY <1>2 DEF PoolInv, Phases
<1> QED BY <1>2, <1>3 DEF PoolInv, Phases

\* What is left to show of a step that only moves a thread without a task.
LEMMA IdleStepKeeps ==
  ASSUME PoolInv, NEW t \in Threads, NEW label, Moves(t, label),
         t = Main => label \in MainLabels, t # Main => label \in WorkerLabels,
         pc[t] \notin {"begin", "run", "end"}, label \notin {"begin", "run", "end"},
         UNCHANGED <<tasks, running, task, submitted, outcome, patient>>,
         bTerminate' \in BOOLEAN, Phases', NobodyStranded'
  PROVE  PoolInv'
<1>1. PoolTypes'
  <2>1. /\ pc' \in [Threads -> MainLabels \cup WorkerLabels]
        /\ pc'[Main] \in MainLabels
        /\ \A w \in Workers : pc'[w] \in WorkerLabels
    BY MovesKeepKinds DEF PoolInv, Moves
  <2> QED BY <2>1 DEF PoolInv, PoolTypes
<1>2. RunningCountsBusy' /\ QueueOrdered' /\ HeldOnce' /\ OutcomeSettled' /\ NoneLost'
  BY IdleMove
<1> QED BY <1>1, <1>2 DEF PoolInv

-----------------------------------------------------------------------------
(* Main's steps                                                            *)

LEMMA StartKeeps == PoolInv /\ Start => PoolInv'
<1> SUFFICES ASSUME PoolInv, Start PROVE PoolInv'
  OBVIOUS
<1>1. /\ pc[Main] = "start"
      /\ pc' = [t \in Threads |-> IF t = Main THEN "exec" ELSE "loop"]
      /\ UNCHANGED <<tasks, bTerminate, running, task, submitted, outcome, patient>>
  BY DEF Start
<1>2. pc'[Main] = "exec" /\ \A w \in Workers : pc'[w] = "loop"
  BY <1>1, ThreadPoolAssumption DEF Threads
<1>3. PoolTypes'
  BY <1>1, <1>2 DEF PoolInv, PoolTypes, MainLabels, WorkerLabels
<1>4. Phases'
  BY <1>1, <1>2 DEF PoolInv, Phases
<1>5. NobodyStranded'
  BY <1>2, ThreadPoolAssumption
     DEF NobodyStranded, NoTaskStranded, WaiterWillBeWoken
<1>6. \A w \in Workers : pc[w] = "unborn"
  BY <1>1 DEF PoolInv, Phases
<1>7. RunningCountsBusy' /\ QueueOrdered' /\ HeldOnce' /\ OutcomeSettled' /\ NoneLost'
  BY <1>1, <1>2, <1>6, TasksUntouched DEF Holds
<1> QED BY <1>3, <1>4, <1>5, <1>7 DEF PoolInv

LEMMA ExecKeeps == PoolInv /\ Exec => PoolInv'
<1> SUFFICES ASSUME PoolInv, Exec PROVE PoolInv'
  OBVIOUS
<1>0. Main \in Threads /\ "exec" \in MainLabels \cup WorkerLabels
  BY DEF Threads, MainLabels
<1>1. /\ pc[Main] = "exec" /\ submitted < TaskNum
      /\ submitted' = submitted + 1
      /\ tasks' = Append(tasks, submitted + 1)
      /\ NotifyOne(Main, "exec")
      /\ UNCHANGED <<bTerminate, running, task, outcome, patient>>
  BY DEF Exec
<1>2. /\ Moves(Main, "exec")
      /\ Asleep # {} => \E u \in Asleep : pc'[u] = Awake(u)
  BY <1>0, <1>1, NotifyOneMoves DEF PoolInv
<1>3. /\ tasks \in Seq(Tasks) /\ submitted \in Nat /\ TaskNum \in Nat
      /\ submitted + 1 \in Tasks
  BY <1>1, ThreadPoolAssumption DEF PoolInv, PoolTypes, Tasks
<1>4. /\ tasks' \in Seq(Tasks) /\ Len(tasks') = Len(tasks) + 1 /\ Len(tasks) \in Nat
      /\ \A j \in 1 .. Len(tasks) : tasks'[j] = tasks[j]
      /\ tasks'[Len(tasks) + 1] = submitted + 1
  BY <1>1, <1>3, AppendProperties
<1>5. PoolTypes'
  <2>1. submitted' \in 0 .. TaskNum
    BY <1>1, <1>3
  <2>2. /\ pc' \in [Threads -> MainLabels \cup WorkerLabels]
        /\ pc'[Main] \in MainLabels
        /\ \A w \in Workers : pc'[w] \in WorkerLabels
    BY <1>0, <1>2, MovesKeepKinds DEF PoolInv, Moves, MainLabels
  <2> QED BY <1>1, <1>4, <2>1, <2>2 DEF PoolInv, PoolTypes
<1>6. pc'[Main] = "exec" /\ ~bTerminate
  BY <1>1, <1>2 DEF Moves, PoolInv, Phases
<1>7. Phases'
  BY <1>1, <1>6 DEF PoolInv, Phases
<1>8. NobodyStranded'
  <2>1. \E w \in Workers : pc'[w] # "asleep"
    <3>1. CASE Asleep = {}
      <4>1. \A w \in Workers : w \in Threads /\ w # Main /\ pc[w] # "asleep"
        BY <3>1, ThreadPoolAssumption DEF Asleep, Threads
      <4> QED BY <1>2, <4>1, ThreadPoolAssumption DEF Moves
    <3>2. CASE Asleep # {}
      <4>1. PICK u \in Asleep : pc'[u] = Awake(u)
        BY <1>2, <3>2
      <4>2. u \in Workers
        BY <1>1 DEF Asleep, Threads
      <4> QED BY <4>1, <4>2, AwakeLabels
    <3> QED BY <3>1, <3>2
  <2> QED BY <1>6, <2>1 DEF NobodyStranded, NoTaskStranded, WaiterWillBeWoken
<1>9. \A w \in Workers : /\ Holds(w)' <=> Holds(w)
                         /\ pc'[w] = "end" <=> pc[w] = "end"
                         /\ pc'[w] = "run" <=> pc[w] = "run"
  BY <1>2, ThreadPoolAssumption, AwakeLabels DEF Moves, Holds, Threads
<1>10. RunningCountsBusy'
  <2>1. Busy' = Busy
    BY <1>9 DEF Busy
  <2> QED BY <1>1, <2>1 DEF PoolInv, RunningCountsBusy
<1>11. \A j \in 1 .. Len(tasks) : tasks[j] <= submitted /\ tasks[j] \in Tasks
  BY <1>3, ElementOfSeq DEF PoolInv, QueueOrdered
<1>12. QueueOrdered'
  <2>1. \A j \in 1 .. Len(tasks') : tasks'[j] <= submitted'
    BY <1>1, <1>3, <1>4, <1>11 DEF Tasks
  <2>2. \A j, k \in 1 .. Len(tasks') : j < k => tasks'[j] < tasks'[k]
    <3> SUFFICES ASSUME NEW j \in 1 .. Len(tasks'), NEW k \in 1 .. Len(tasks'), j < k
                 PROVE  tasks'[j] < tasks'[k]
      OBVIOUS
    <3>1. j \in 1 .. Len(tasks)
      BY <1>4
    <3>2. CASE k \in 1 .. Len(tasks)
      BY <1>4, <3>1, <3>2 DEF PoolInv, QueueOrdered
    <3>3. CASE k = Len(tasks) + 1
      <4>1. /\ tasks'[j] = tasks[j] /\ tasks[j] <= submitted
            /\ tasks[j] \in Int
        BY <1>4, <1>11, <3>1 DEF Tasks
      <4>2. tasks'[k] = submitted + 1
        BY <1>4, <3>3
      <4> QED BY <1>3, <4>1, <4>2
    <3> QED BY <1>4, <3>2, <3>3
  <2> QED BY <2>1, <2>2 DEF QueueOrdered
<1>13. HeldOnce'
  <2>1. \A w \in Workers : task[w] \in Nat /\ task[w] <= submitted
    BY DEF PoolInv, PoolTypes, HeldOnce
  <2>2. \A w \in Workers : \A j \in 1 .. Len(tasks') : tasks'[j] # task[w]
    <3> SUFFICES ASSUME NEW w \in Workers, NEW j \in 1 .. Len(tasks')
                 PROVE  tasks'[j] # task[w]
      OBVIOUS
    <3>1. CASE j \in 1 .. Len(tasks)
      BY <1>4, <3>1 DEF PoolInv, HeldOnce
    <3>2. CASE j = Len(tasks) + 1
      BY <1>3, <1>4, <2>1, <3>2
    <3> QED BY <1>4, <3>1, <3>2
  <2>3. \A w \in Workers : task[w] <= submitted'
    BY <1>1, <1>3, <2>1
  <2> QED BY <1>1, <1>9, <2>2, <2>3 DEF PoolInv, HeldOnce
<1>14. OutcomeSettled'
  <2>1. \A j \in 1 .. Len(tasks') : outcome[tasks'[j]] = "pending"
    <3> SUFFICES ASSUME NEW j \in 1 .. Len(tasks')
                 PROVE  outcome[tasks'[j]] = "pending"
      OBVIOUS
    <3>1. CASE j \in 1 .. Len(tasks)
      BY <1>4, <3>1 DEF PoolInv, OutcomeSettled
    <3>2. CASE j = Len(tasks) + 1
      BY <1>3, <1>4, <3>2 DEF PoolInv, OutcomeSettled, Tasks
    <3> QED BY <1>4, <3>1, <3>2
  <2>2. \A k \in Tasks : k > submitted' => k > submitted
    BY <1>1, <1>3 DEF Tasks
  <2> QED BY <1>1, <1>9, <2>1, <2>2 DEF PoolInv, OutcomeSettled
<1>15. NoneLost'
  <2> SUFFICES ASSUME NEW k \in Tasks, k <= submitted', outcome'[k] = "pending"
               PROVE  \/ \E j \in 1 .. Len(tasks') : tasks'[j] = k
                      \/ \E w \in Workers : task'[w] = k
    BY DEF NoneLost
  <2>1. CASE k <= submitted
    <3>1. CASE \E j \in 1 .. Len(tasks) : tasks[j] = k
      BY <1>4, <3>1
    <3> QED BY <1>1, <2>1, <3>1 DEF PoolInv, NoneLost
  <2>2. CASE ~(k <= submitted)
    <3>1. k = submitted + 1
      BY <1>1, <1>3, <2>2 DEF Tasks
    <3> QED BY <1>4, <3>1
  <2> QED BY <2>1, <2>2
<1> QED BY <1>5, <1>7, <1>8, <1>10, <1>12, <1>13, <1>14, <1>15 DEF PoolInv

LEMMA MainIdleKeeps ==
  PoolInv /\ (AllSubmitted \/ WaitForAllDone \/ WaitTimesOut \/ Stop \/ Join)
    => PoolInv'
<1> SUFFICES ASSUME PoolInv,
                    AllSubmitted \/ WaitForAllDone \/ WaitTimesOut \/ Stop \/ Join
             PROVE  PoolInv'
  OBVIOUS
<1>0. Main \in Threads /\ PoolTypes /\ MainLabels \subseteq MainLabels \cup WorkerLabels
  BY DEF Threads, PoolInv
<1>1. CASE AllSubmitted
  <2>1. /\ pc[Main] = "exec" /\ submitted = TaskNum /\ Goto(Main, "wait")
        /\ UNCHANGED <<tasks, bTerminate, running, task, submitted, outcome, patient>>
    BY <1>1 DEF AllSubmitted
  <2>2. Moves(Main, "wait") /\ "wait" \in MainLabels
    BY <1>0, <2>1, GotoMoves DEF MainLabels
  <2>3. pc'[Main] = "wait"
    BY <2>2 DEF Moves
  <2>4. Phases'
    BY <2>1, <2>3 DEF PoolInv, Phases
  <2>5. NobodyStranded'
    BY <1>0, <2>1, <2>2, <2>3, NoTaskStrandedKept
       DEF NobodyStranded, WaiterWillBeWoken
  <2> QED BY <1>0, <2>1, <2>2, <2>4, <2>5, IdleStepKeeps DEF PoolTypes
<1>2. CASE WaitForAllDone
  <2> DEFINE label == IF tasks = <<>> THEN "stop" ELSE "asleep"
  <2>1. /\ pc[Main] = "wait" /\ Goto(Main, label)
        /\ UNCHANGED <<tasks, bTerminate, running, task, submitted, outcome, patient>>
    BY <1>2 DEF WaitForAllDone
  <2>2. Moves(Main, label) /\ label \in MainLabels
    BY <1>0, <2>1, GotoMoves DEF MainLabels
  <2>3. pc'[Main] = label
    BY <2>2 DEF Moves
  <2>4. Phases'
    BY <2>1, <2>3 DEF PoolInv, Phases
  <2>5. NobodyStranded'
    BY <1>0, <2>1, <2>2, <2>3, NoTaskStrandedKept
       DEF NobodyStranded, WaiterWillBeWoken
  <2> QED BY <1>0, <2>1, <2>2, <2>4, <2>5, IdleStepKeeps DEF PoolTypes
<1>3. CASE WaitTimesOut
  <2>1. /\ pc[Main] = "asleep" /\ ~patient /\ Goto(Main, "stop")
        /\ UNCHANGED <<tasks, bTerminate, running, task, submitted, outcome, patient>>
    BY <1>3 DEF WaitTimesOut
  <2>2. Moves(Main, "stop") /\ "stop" \in MainLabels
    BY <1>0, <2>1, GotoMoves DEF MainLabels
  <2>3. pc'[Main] = "stop"
    BY <2>2 DEF Moves
  <2>4. Phases'
    BY <2>1, <2>3 DEF PoolInv, Phases
  <2>5. NobodyStranded'
    BY <1>0, <2>1, <2>2, <2>3, NoTaskStrandedKept
       DEF NobodyStranded, WaiterWillBeWoken
  <2> QED BY <1>0, <2>1, <2>2, <2>4, <2>5, IdleStepKeeps DEF PoolTypes
<1>4. CASE Stop
  <2>1. /\ pc[Main] = "stop" /\ bTerminate' = TRUE /\ NotifyAll(Main, "join")
        /\ UNCHANGED <<tasks, running, task, submitted, outcome, patient>>
    BY <1>4 DEF Stop
  <2>2. Moves(Main, "join") /\ "join" \in MainLabels
    BY <1>0, <2>1, NotifyAllMoves DEF MainLabels
  <2>3. pc'[Main] = "join"
    BY <2>2 DEF Moves
  <2>4. Phases'
    BY <2>1, <2>3 DEF PoolInv, Phases
  <2>5. NobodyStranded'
    BY <2>1, <2>3 DEF NobodyStranded, NoTaskStranded, WaiterWillBeWoken
  <2> QED BY <1>0, <2>1, <2>2, <2>4, <2>5, IdleStepKeeps
<1>5. CASE Join
  <2>1. /\ pc[Main] = "join" /\ Goto(Main, "done")
        /\ \A w \in Workers : pc[w] = "exited"
        /\ UNCHANGED <<tasks, bTerminate, running, task, submitted, outcome, patient>>
    BY <1>5 DEF Join
  <2>2. /\ Moves(Main, "done") /\ "done" \in MainLabels
        /\ \A u \in Threads : u # Main => pc'[u] = pc[u]
    BY <1>0, <2>1, GotoMoves DEF MainLabels
  <2>3. pc'[Main] = "done" /\ \A w \in Workers : pc'[w] = "exited"
    BY <2>1, <2>2, ThreadPoolAssumption DEF Moves, Threads
  <2>4. Phases'
    BY <2>1, <2>3 DEF PoolInv, Phases
  <2>5. NobodyStranded'
    BY <1>0, <2>1, <2>2, <2>3, NoTaskStrandedKept
       DEF NobodyStranded, WaiterWillBeWoken
  <2> QED BY <1>0, <2>1, <2>2, <2>4, <2>5, IdleStepKeeps DEF PoolTypes
<1> QED BY <1>1, <1>2, <1>3, <1>4, <1>5

-----------------------------------------------------------------------------
(* The workers' steps                                                      *)

LEMMA WorkerIdleKeeps ==
  ASSUME PoolInv, NEW w \in Workers, Loop(w) \/ GetStopped(w) \/ GetSleeps(w)
  PROVE  PoolInv'
<1>0. w \in Threads /\ w # Main /\ PoolTypes
      /\ WorkerLabels \subseteq MainLabels \cup WorkerLabels
  BY ThreadPoolAssumption DEF Threads, PoolInv
<1>1. PICK label \in {"exited", "get", "loop", "asleep"} :
        /\ Goto(w, label) /\ pc[w] \in {"loop", "get"}
        /\ label = "asleep" => tasks = <<>>
        /\ UNCHANGED <<tasks, bTerminate, running, task, submitted, outcome, patient>>
  BY DEF Loop, GetStopped, GetSleeps
<1>2. label \in WorkerLabels
  BY DEF WorkerLabels
<1>3. Moves(w, label)
  BY <1>0, <1>1, <1>2, GotoMoves
<1>4. Phases'
  BY <1>1, <1>3, PhasesKept
<1>5. NoTaskStranded'
  <2>1. CASE label = "asleep"
    BY <1>1, <2>1 DEF NoTaskStranded
  <2>2. CASE label # "asleep"
    BY <1>0, <1>1, <1>3, <2>2, NoTaskStrandedKept
  <2> QED BY <2>1, <2>2
<1>6. WaiterWillBeWoken'
  <2>1. pc[w] \notin OnItsWay /\ label \notin OnItsWay
    BY <1>1 DEF OnItsWay
  <2> QED BY <1>0, <1>1, <1>3, <2>1, WaiterWillBeWokenKept
<1> QED BY <1>0, <1>1, <1>2, <1>3, <1>4, <1>5, <1>6, IdleStepKeeps
        DEF NobodyStranded, PoolTypes

\* When w does not notify, somebody else still has a task: running says so.
LEMMA NotifyWaiterKeeps ==
  ASSUME PoolInv, NEW w \in Workers, NotifyWaiter(w)
  PROVE  PoolInv'
<1>0. w \in Threads /\ w # Main /\ PoolTypes /\ "loop" \in WorkerLabels
  BY ThreadPoolAssumption DEF Threads, PoolInv, WorkerLabels
<1>1. /\ pc[w] = "notify"
      /\ IF running = 0 /\ tasks = <<>> THEN NotifyAll(w, "loop") ELSE Goto(w, "loop")
      /\ UNCHANGED <<tasks, bTerminate, running, task, submitted, outcome, patient>>
  BY DEF NotifyWaiter
<1>2. Moves(w, "loop")
  BY <1>0, <1>1, NotifyAllMoves, GotoMoves
<1>3. Phases'
  BY <1>1, <1>2, PhasesKept
<1>4. NoTaskStranded'
  BY <1>0, <1>1, <1>2, NoTaskStrandedKept
<1>5. WaiterWillBeWoken'
  <2>1. CASE running = 0 /\ tasks = <<>>
    <3>1. pc'[Main] # "asleep"
      BY <1>0, <1>1, <2>1, NotifyAllMoves DEF Threads
    <3> QED BY <3>1 DEF WaiterWillBeWoken
  <2>2. CASE tasks # <<>>
    BY <1>1, <2>2 DEF WaiterWillBeWoken
  <2>3. CASE running # 0
    <3>1. Busy # {}
      BY <2>3, FS_EmptySet DEF PoolInv, RunningCountsBusy
    <3>2. PICK u \in Workers : pc[u] \in {"run", "end"}
      BY <3>1 DEF Busy
    <3>3. u \in Threads /\ u # w
      BY <1>1, <3>2 DEF Threads
    <3>4. pc'[u] \in {"run", "end"}
      BY <1>2, <3>2, <3>3 DEF Moves
    <3> QED BY <3>4 DEF WaiterWillBeWoken
  <2> QED BY <2>1, <2>2, <2>3
<1> QED BY <1>0, <1>1, <1>2, <1>3, <1>4, <1>5, IdleStepKeeps
        DEF NobodyStranded, PoolTypes

LEMMA SpuriousWakeKeeps ==
  ASSUME PoolInv, NEW t \in Threads, SpuriousWake(t)
  PROVE  PoolInv'
<1> DEFINE label == Awake(t)
<1>0. /\ PoolTypes /\ label \in {"wait", "get"}
      /\ (t = Main => label \in MainLabels) /\ (t # Main => label \in WorkerLabels)
      /\ (t = Main \/ t \in Workers)
  BY AwakeLabels DEF PoolInv, Threads
<1>1. /\ pc[t] = "asleep" /\ Goto(t, label)
      /\ UNCHANGED <<tasks, bTerminate, running, task, submitted, outcome, patient>>
  BY DEF SpuriousWake
<1> HIDE DEF label
<1>2. Moves(t, label)
  BY <1>0, <1>1, GotoMoves
<1>3. Phases'
  <2>1. CASE t = Main
    <3>1. pc'[Main] = label
      BY <1>2, <2>1 DEF Moves
    <3> QED BY <1>0, <1>1, <2>1, <3>1 DEF PoolInv, Phases
  <2>2. CASE t \in Workers
    BY <1>1, <1>2, <2>2, PhasesKept
  <2> QED BY <1>0, <2>1, <2>2
<1>4. NoTaskStranded'
  BY <1>0, <1>1, <1>2, NoTaskStrandedKept
<1>5. WaiterWillBeWoken'
  <2>1. pc[t] \notin OnItsWay /\ label \notin OnItsWay /\ label # "asleep"
    BY <1>0, <1>1 DEF OnItsWay
  <2> QED BY <1>0, <1>1, <1>2, <2>1, WaiterWillBeWokenKept
<1> QED BY <1>0, <1>1, <1>2, <1>3, <1>4, <1>5, IdleStepKeeps
        DEF NobodyStranded, PoolTypes

LEMMA GetTaskKeeps ==
  ASSUME PoolInv, NEW w \in Workers, GetTask(w)
  PROVE  PoolInv'
<1>0. w \in Threads /\ w # Main /\ PoolTypes /\ "begin" \in WorkerLabels
  BY ThreadPoolAssumption DEF Threads, PoolInv, WorkerLabels
<1>1. /\ pc[w] = "get" /\ ~bTerminate /\ tasks # <<>>
      /\ task' = [task EXCEPT ![w] = Head(tasks)]
      /\ tasks' = Tail(tasks)
      /\ Goto(w, "begin")
      /\ UNCHANGED <<bTerminate, running, submitted, outcome, patient>>
  BY DEF GetTask
<1>2. /\ Moves(w, "begin")
      /\ \A u \in Threads : u # w => pc'[u] = pc[u]
  BY <1>0, <1>1, GotoMoves
<1>3. /\ tasks \in Seq(Tasks) /\ Len(tasks) \in Nat /\ Len(tasks) # 0
      /\ tasks' \in Seq(Tasks) /\ Len(tasks') = Len(tasks) - 1
      /\ \A j \in 1 .. Len(tasks') : j + 1 \in 1 .. Len(tasks) /\ tasks'[j] = tasks[j + 1]
      /\ Head(tasks) = tasks[1] /\ tasks[1] \in Tasks /\ 1 \in 1 .. Len(tasks)
  <2>1. /\ tasks \in Seq(Tasks) /\ Len(tasks) \in Nat \ {0}
    BY <1>0, <1>1, EmptySeq DEF PoolTypes
  <2>2. /\ tasks' \in Seq(Tasks) /\ Len(tasks') = Len(tasks) - 1
        /\ \A j \in 1 .. Len(tasks') : tasks'[j] = tasks[j + 1]
    BY <1>1, <2>1, HeadTailProperties
  <2>3. 1 \in 1 .. Len(tasks) /\ Head(tasks) = tasks[1]
    BY <2>1
  <2>4. tasks[1] \in Tasks
    BY <2>1, <2>3, ElementOfSeq
  <2>5. \A j \in 1 .. Len(tasks') : j + 1 \in 1 .. Len(tasks)
    BY <2>1, <2>2
  <2> QED BY <2>1, <2>2, <2>3, <2>4, <2>5
<1>4. /\ task[w] = 0
      /\ \A u \in Workers : task[u] # tasks[1]
      /\ \A u \in Workers : \A j \in 1 .. Len(tasks) : tasks[j] # task[u]
  BY <1>1, <1>3 DEF PoolInv, HeldOnce, Holds
<1>5. /\ task' \in [Workers -> 0 .. TaskNum]
      /\ task'[w] = tasks[1] /\ tasks[1] # 0
      /\ \A u \in Workers : u # w => task'[u] = task[u]
  BY <1>0, <1>1, <1>3, ThreadPoolAssumption DEF PoolTypes, Tasks
<1>6. PoolTypes'
  <2>1. /\ pc' \in [Threads -> MainLabels \cup WorkerLabels]
        /\ pc'[Main] \in MainLabels
        /\ \A u \in Workers : pc'[u] \in WorkerLabels
    BY <1>0, <1>2, MovesKeepKinds DEF Moves
  <2> QED BY <1>0, <1>1, <1>3, <1>5, <2>1 DEF PoolTypes
<1>7. Phases'
  BY <1>1, <1>2, PhasesKept
<1>8. NobodyStranded'
  <2>1. NoTaskStranded'
    BY <1>0, <1>1, <1>2, NoTaskStrandedKept
  <2>2. pc'[w] = "begin"
    BY <1>2 DEF Moves
  <2> QED BY <2>1, <2>2 DEF NobodyStranded, WaiterWillBeWoken
<1>9. /\ pc'[w] = "begin"
      /\ \A u \in Workers : u # w => pc'[u] = pc[u]
  BY <1>2 DEF Moves, Threads
<1>10. RunningCountsBusy'
  <2>1. Busy' = Busy
    BY <1>1, <1>9 DEF Busy
  <2> QED BY <1>1, <2>1 DEF PoolInv, RunningCountsBusy
<1>11. QueueOrdered'
  <2>1. \A j \in 1 .. Len(tasks') : tasks'[j] <= submitted'
    BY <1>1, <1>3 DEF PoolInv, QueueOrdered
  <2>2. ASSUME NEW j \in 1 .. Len(tasks'), NEW k \in 1 .. Len(tasks'), j < k
        PROVE  tasks'[j] < tasks'[k]
    <3>1. /\ j + 1 \in 1 .. Len(tasks) /\ k + 1 \in 1 .. Len(tasks) /\ j + 1 < k + 1
          /\ tasks'[j] = tasks[j + 1] /\ tasks'[k] = tasks[k + 1]
      BY <1>3, <2>2
    <3> QED BY <3>1 DEF PoolInv, QueueOrdered
  <2> QED BY <2>1, <2>2 DEF QueueOrdered
<1>12. HeldOnce'
  <2>1. tasks[1] <= submitted
    BY <1>3 DEF PoolInv, QueueOrdered
  <2>2. \A j \in 1 .. Len(tasks') : tasks'[j] # tasks[1]
    <3> SUFFICES ASSUME NEW j \in 1 .. Len(tasks') PROVE tasks'[j] # tasks[1]
      OBVIOUS
    <3>1. 1 < j + 1 /\ j + 1 \in 1 .. Len(tasks)
      BY <1>3
    <3>2. tasks[1] < tasks[j + 1]
      BY <1>3, <3>1 DEF PoolInv, QueueOrdered
    <3>3. tasks[1] \in Int /\ tasks'[j] = tasks[j + 1]
      BY <1>3 DEF Tasks
    <3> QED BY <3>2, <3>3
  <2>3. ASSUME NEW u \in Workers
        PROVE  /\ Holds(u)' <=> task'[u] # 0
               /\ task'[u] <= submitted'
               /\ \A j \in 1 .. Len(tasks') : tasks'[j] # task'[u]
    <3>1. CASE u = w
      BY <1>1, <1>5, <1>9, <2>1, <2>2, <3>1 DEF Holds
    <3>2. CASE u # w
      <4>1. /\ Holds(u)' <=> Holds(u)
            /\ task'[u] = task[u]
        BY <1>5, <1>9, <3>2 DEF Holds
      <4>2. \A j \in 1 .. Len(tasks') : tasks'[j] # task[u]
        BY <1>3, <1>4
      <4> QED BY <1>1, <4>1, <4>2 DEF PoolInv, HeldOnce
    <3> QED BY <3>1, <3>2
  <2>4. ASSUME NEW u \in Workers, NEW v \in Workers, u # v, task'[u] # 0
        PROVE  task'[u] # task'[v]
    BY <1>4, <1>5, <2>4 DEF PoolInv, HeldOnce
  <2> QED BY <2>3, <2>4 DEF HeldOnce
<1>13. OutcomeSettled'
  <2>1. \A j \in 1 .. Len(tasks') : outcome[tasks'[j]] = "pending"
    BY <1>3 DEF PoolInv, OutcomeSettled
  <2>2. \A u \in Workers : task'[u] # 0 =>
          (outcome[task'[u]] = "pending" <=> pc'[u] # "end")
    <3> SUFFICES ASSUME NEW u \in Workers, task'[u] # 0
                 PROVE  outcome[task'[u]] = "pending" <=> pc'[u] # "end"
      OBVIOUS
    <3>1. CASE u = w
      BY <1>3, <1>5, <1>9, <3>1 DEF PoolInv, OutcomeSettled
    <3>2. CASE u # w
      BY <1>5, <1>9, <3>2 DEF PoolInv, OutcomeSettled
    <3> QED BY <3>1, <3>2
  <2> QED BY <1>1, <2>1, <2>2 DEF PoolInv, OutcomeSettled
<1>14. NoneLost'
  <2> SUFFICES ASSUME NEW k \in Tasks, k <= submitted, outcome[k] = "pending"
               PROVE  \/ \E j \in 1 .. Len(tasks') : tasks'[j] = k
                      \/ \E u \in Workers : task'[u] = k
    BY <1>1 DEF NoneLost
  <2>1. CASE \E u \in Workers : task[u] = k
    <3>1. PICK u \in Workers : task[u] = k
      BY <2>1
    <3>2. u # w
      BY <1>4, <3>1, ThreadPoolAssumption DEF Tasks
    <3> QED BY <1>5, <3>1, <3>2
  <2>2. CASE \E j \in 1 .. Len(tasks) : tasks[j] = k
    <3>1. PICK j \in 1 .. Len(tasks) : tasks[j] = k
      BY <2>2
    <3>2. CASE j = 1
      BY <1>5, <3>1, <3>2
    <3>3. CASE j # 1
      <4>1. j - 1 \in 1 .. Len(tasks') /\ (j - 1) + 1 = j
        BY <1>3, <3>3
      <4>2. tasks'[j - 1] = tasks[j]
        BY <1>3, <4>1
      <4> QED BY <3>1, <4>1, <4>2
    <3> QED BY <3>2, <3>3
  <2> QED BY <2>1, <2>2 DEF PoolInv, NoneLost
<1> QED BY <1>6, <1>7, <1>8, <1>10, <1>11, <1>12, <1>13, <1>14 DEF PoolInv

\* What every step of a worker with a task has in common.
LEMMA BusyMove ==
  ASSUME PoolInv, NEW w \in Workers, NEW label \in OnItsWay,
         pc[w] \in OnItsWay, Goto(w, label),
         UNCHANGED <<tasks, bTerminate, submitted, patient>>
  PROVE  /\ Phases' /\ NobodyStranded' /\ QueueOrdered'
         /\ pc' \in [Threads -> MainLabels \cup WorkerLabels]
         /\ pc'[Main] \in MainLabels
         /\ \A u \in Workers : pc'[u] \in WorkerLabels
         /\ pc'[w] = label
         /\ \A u \in Workers : u # w => pc'[u] = pc[u]
<1>0. w \in Threads /\ w # Main /\ PoolTypes /\ label \in WorkerLabels
      /\ label # "asleep"
  BY ThreadPoolAssumption DEF Threads, PoolInv, WorkerLabels, OnItsWay
<1>1. /\ Moves(w, label)
      /\ \A u \in Threads : u # w => pc'[u] = pc[u]
  BY <1>0, GotoMoves
<1>2. Phases'
  BY <1>1, PhasesKept DEF OnItsWay
<1>3. NobodyStranded'
  BY <1>0, <1>1, NoTaskStrandedKept, WaiterWillBeWokenKept DEF NobodyStranded
<1>4. QueueOrdered'
  BY DEF PoolInv, QueueOrdered
<1> QED BY <1>0, <1>1, <1>2, <1>3, <1>4, MovesKeepKinds DEF Moves, Threads

LEMMA BusyIsFinite ==
  IsFiniteSet(Busy) /\ Cardinality(Busy) \in Nat
  BY ThreadPoolAssumption, FS_Subset, FS_CardinalityType DEF Busy

LEMMA BeginKeeps ==
  ASSUME PoolInv, NEW w \in Workers, Begin(w)
  PROVE  PoolInv'
<1>1. /\ pc[w] = "begin" /\ running' = running + 1 /\ Goto(w, "run")
      /\ UNCHANGED <<tasks, bTerminate, task, submitted, outcome, patient>>
  BY DEF Begin
<1>2. /\ Phases' /\ NobodyStranded' /\ QueueOrdered'
      /\ pc' \in [Threads -> MainLabels \cup WorkerLabels]
      /\ pc'[Main] \in MainLabels
      /\ \A u \in Workers : pc'[u] \in WorkerLabels
      /\ pc'[w] = "run"
      /\ \A u \in Workers : u # w => pc'[u] = pc[u]
  BY <1>1, BusyMove DEF OnItsWay
<1>3. PoolTypes'
  BY <1>1, <1>2 DEF PoolInv, PoolTypes
<1>4. RunningCountsBusy'
  <2>1. Busy' = Busy \cup {w} /\ w \notin Busy
    BY <1>1, <1>2 DEF Busy
  <2>2. Cardinality(Busy') = Cardinality(Busy) + 1
    BY <2>1, BusyIsFinite, FS_AddElement
  <2> QED BY <1>1, <2>2 DEF PoolInv, RunningCountsBusy
<1>5. \A u \in Workers : Holds(u)' <=> Holds(u)
  BY <1>1, <1>2 DEF Holds
<1>6. HeldOnce'
  BY <1>1, <1>5 DEF PoolInv, HeldOnce
<1>7. OutcomeSettled'
  BY <1>1, <1>2 DEF PoolInv, OutcomeSettled
<1>8. NoneLost'
  BY <1>1 DEF PoolInv, NoneLost
<1> QED BY <1>2, <1>3, <1>4, <1>6, <1>7, <1>8 DEF PoolInv

LEMMA FinishKeeps ==
  ASSUME PoolInv, NEW w \in Workers, Execute(w) \/ Expire(w)
  PROVE  PoolInv'
<1>1. PICK how \in {"executed", "expired"} :
        /\ pc[w] = "run" /\ outcome' = [outcome EXCEPT ![task[w]] = how]
        /\ Goto(w, "end")
        /\ UNCHANGED <<tasks, bTerminate, running, task, submitted, patient>>
  BY DEF Execute, Expire
<1>2. /\ Phases' /\ NobodyStranded' /\ QueueOrdered'
      /\ pc' \in [Threads -> MainLabels \cup WorkerLabels]
      /\ pc'[Main] \in MainLabels
      /\ \A u \in Workers : pc'[u] \in WorkerLabels
      /\ pc'[w] = "end"
      /\ \A u \in Workers : u # w => pc'[u] = pc[u]
  BY <1>1, BusyMove DEF OnItsWay
<1>3. /\ task[w] \in Tasks /\ task[w] # 0 /\ task[w] <= submitted
      /\ \A u \in Workers : u # w => task[u] # task[w]
      /\ \A j \in 1 .. Len(tasks) : tasks[j] # task[w] /\ tasks[j] \in Tasks
  <2>1. task[w] \in Tasks /\ task[w] # 0
    BY <1>1, ThreadPoolAssumption DEF PoolInv, PoolTypes, HeldOnce, Holds, Tasks
  <2>2. \A j \in 1 .. Len(tasks) : tasks[j] \in Tasks
    BY ElementOfSeq DEF PoolInv, PoolTypes
  <2> QED BY <2>1, <2>2 DEF PoolInv, HeldOnce
<1>4. /\ outcome' \in [Tasks -> {"pending", "executed", "expired"}]
      /\ outcome'[task[w]] # "pending"
      /\ \A k \in Tasks : k # task[w] => outcome'[k] = outcome[k]
  BY <1>1, <1>3 DEF PoolInv, PoolTypes
<1>5. PoolTypes'
  BY <1>1, <1>2, <1>4 DEF PoolInv, PoolTypes
<1>6. RunningCountsBusy'
  <2>1. Busy' = Busy
    BY <1>1, <1>2 DEF Busy
  <2> QED BY <1>1, <2>1 DEF PoolInv, RunningCountsBusy
<1>7. \A u \in Workers : Holds(u)' <=> Holds(u)
  BY <1>1, <1>2 DEF Holds
<1>8. HeldOnce'
  BY <1>1, <1>7 DEF PoolInv, HeldOnce
<1>9. OutcomeSettled'
  <2>1. \A j \in 1 .. Len(tasks) : outcome'[tasks[j]] = "pending"
    BY <1>3, <1>4 DEF PoolInv, OutcomeSettled
  <2>2. \A u \in Workers : task[u] # 0 =>
          (outcome'[task[u]] = "pending" <=> pc'[u] # "end")
    <3> SUFFICES ASSUME NEW u \in Workers, task[u] # 0
                 PROVE  outcome'[task[u]] = "pending" <=> pc'[u] # "end"
      OBVIOUS
    <3>1. CASE u = w
      BY <1>2, <1>4, <3>1
    <3>2. CASE u # w
      <4>1. task[u] \in Tasks /\ task[u] # task[w]
        BY <1>3, <3>2, ThreadPoolAssumption DEF PoolInv, PoolTypes, Tasks
      <4> QED BY <1>2, <1>4, <3>2, <4>1 DEF PoolInv, OutcomeSettled
    <3> QED BY <3>1, <3>2
  <2>3. \A k \in Tasks : k > submitted => outcome'[k] = "pending"
    <3>1. \A k \in Tasks : k > submitted => k # task[w]
      BY <1>3, ThreadPoolAssumption DEF PoolInv, PoolTypes, Tasks
    <3> QED BY <1>4, <3>1 DEF PoolInv, OutcomeSettled
  <2> QED BY <1>1, <2>1, <2>2, <2>3 DEF OutcomeSettled
<1>10. NoneLost'
  BY <1>1, <1>3, <1>4 DEF PoolInv, NoneLost
<1> QED BY <1>2, <1>5, <1>6, <1>8, <1>9, <1>10 DEF PoolInv

LEMMA EndKeeps ==
  ASSUME PoolInv, NEW w \in Workers, End(w)
  PROVE  PoolInv'
<1>1. /\ pc[w] = "end" /\ running' = running - 1
      /\ task' = [task EXCEPT ![w] = 0] /\ Goto(w, "notify")
      /\ UNCHANGED <<tasks, bTerminate, submitted, outcome, patient>>
  BY DEF End
<1>2. /\ Phases' /\ NobodyStranded' /\ QueueOrdered'
      /\ pc' \in [Threads -> MainLabels \cup WorkerLabels]
      /\ pc'[Main] \in MainLabels
      /\ \A u \in Workers : pc'[u] \in WorkerLabels
      /\ pc'[w] = "notify"
      /\ \A u \in Workers : u # w => pc'[u] = pc[u]
  BY <1>1, BusyMove DEF OnItsWay
<1>3. /\ task' \in [Workers -> 0 .. TaskNum] /\ task'[w] = 0
      /\ \A u \in Workers : u # w => task'[u] = task[u]
      /\ submitted \in Nat
  BY <1>1, ThreadPoolAssumption DEF PoolInv, PoolTypes
<1>4. PoolTypes'
  BY <1>1, <1>2, <1>3 DEF PoolInv, PoolTypes
<1>5. RunningCountsBusy'
  <2>1. Busy' = Busy \ {w} /\ w \in Busy
    BY <1>1, <1>2 DEF Busy
  <2>2. Cardinality(Busy') = Cardinality(Busy) - 1
    BY <2>1, BusyIsFinite, FS_RemoveElement
  <2> QED BY <1>1, <2>2 DEF PoolInv, RunningCountsBusy
<1>6. HeldOnce'
  <2>1. \A j \in 1 .. Len(tasks) : tasks[j] # 0
    BY ElementOfSeq DEF PoolInv, PoolTypes, Tasks
  <2>2. ASSUME NEW u \in Workers
        PROVE  /\ Holds(u)' <=> task'[u] # 0
               /\ task'[u] <= submitted'
               /\ \A j \in 1 .. Len(tasks') : tasks'[j] # task'[u]
    <3>1. CASE u = w
      BY <1>1, <1>2, <1>3, <2>1, <3>1 DEF Holds
    <3>2. CASE u # w
      BY <1>1, <1>2, <1>3, <3>2 DEF PoolInv, HeldOnce, Holds
    <3> QED BY <3>1, <3>2
  <2>3. \A u, v \in Workers : u # v /\ task'[u] # 0 => task'[u] # task'[v]
    BY <1>3 DEF PoolInv, HeldOnce
  <2> QED BY <2>2, <2>3 DEF HeldOnce
<1>7. OutcomeSettled'
  BY <1>1, <1>2, <1>3 DEF PoolInv, OutcomeSettled
<1>8. NoneLost'
  <2> SUFFICES ASSUME NEW k \in Tasks, k <= submitted, outcome[k] = "pending"
               PROVE  \/ \E j \in 1 .. Len(tasks) : tasks[j] = k
                      \/ \E u \in Workers : task'[u] = k
    BY <1>1 DEF NoneLost
  <2>1. task[w] # k
    <3>1. k # 0
      BY ThreadPoolAssumption DEF Tasks
    <3> QED BY <1>1, <3>1 DEF PoolInv, OutcomeSettled
  <2> QED BY <1>3, <2>1 DEF PoolInv, NoneLost
<1> QED BY <1>2, <1>4, <1>5, <1>6, <1>7, <1>8 DEF PoolInv

-----------------------------------------------------------------------------
(* The results                                                             *)

LEMMA PoolInitInv == ThreadPoolInit => PoolInv
<1> SUFFICES ASSUME ThreadPoolInit PROVE PoolInv
  OBVIOUS
<1>1. /\ tasks = <<>> /\ bTerminate = FALSE /\ running = 0
      /\ pc[Main] = "start" /\ \A w \in Workers : pc[w] = "unborn" /\ task[w] = 0
      /\ submitted = 0 /\ \A k \in Tasks : outcome[k] = "pending"
  BY ThreadPoolAssumption DEF ThreadPoolInit, Threads
<1>2. PoolTypes
  <2>1. pc \in [Threads -> MainLabels \cup WorkerLabels]
    BY DEF ThreadPoolInit, MainLabels, WorkerLabels
  <2>2. /\ task \in [Workers -> 0 .. TaskNum] /\ submitted \in 0 .. TaskNum
        /\ outcome \in [Tasks -> {"pending", "executed", "expired"}]
        /\ patient \in BOOLEAN /\ tasks \in Seq(Tasks)
    BY ThreadPoolAssumption DEF ThreadPoolInit
  <2>3. /\ pc[Main] \in MainLabels
        /\ \A w \in Workers : pc[w] \in WorkerLabels
    BY <1>1 DEF MainLabels, WorkerLabels
  <2>4. bTerminate \in BOOLEAN
    BY <1>1
  <2>5. running \in Int
    BY <1>1
  <2> QED BY <2>1, <2>2, <2>3, <2>4, <2>5 DEF PoolTypes
<1>3. Phases
  BY <1>1 DEF Phases
<1>4. RunningCountsBusy
  <2>1. Busy = {}
    BY <1>1 DEF Busy
  <2> QED BY <1>1, <2>1, FS_EmptySet DEF RunningCountsBusy
<1>5. NobodyStranded
  BY <1>1 DEF NobodyStranded, NoTaskStranded, WaiterWillBeWoken
<1>6. Len(tasks) = 0
  BY <1>1
<1>7. QueueOrdered /\ HeldOnce /\ OutcomeSettled
  BY <1>1, <1>6 DEF QueueOrdered, HeldOnce, OutcomeSettled, Holds
<1>8. NoneLost
  BY <1>1 DEF NoneLost, Tasks
<1> QED BY <1>2, <1>3, <1>4, <1>5, <1>7, <1>8 DEF PoolInv

THEOREM PoolInvariant == PoolSpec => []PoolInv
<1>1. PoolInv /\ [PoolNext]_poolVars => PoolInv'
  <2> SUFFICES ASSUME PoolInv, [PoolNext]_poolVars PROVE PoolInv'
    OBVIOUS
  <2>1. CASE MainStep
    BY <2>1, StartKeeps, ExecKeeps, MainIdleKeeps DEF MainStep
  <2>2. ASSUME NEW w \in Workers, WorkerLoop(w) \/ Execute(w) PROVE PoolInv'
    BY <2>2, WorkerIdleKeeps, GetTaskKeeps, BeginKeeps, FinishKeeps, EndKeeps,
       NotifyWaiterKeeps DEF WorkerLoop
  <2>3. ASSUME NEW t \in Threads, SpuriousWake(t) PROVE PoolInv'
    BY <2>3, SpuriousWakeKeeps
  <2>4. CASE UNCHANGED poolVars
    BY <2>4 DEF poolVars, PoolInv, PoolTypes, Phases, RunningCountsBusy, Busy,
       NobodyStranded, NoTaskStranded, WaiterWillBeWoken, QueueOrdered, HeldOnce,
       Holds, OutcomeSettled, NoneLost
  <2> QED BY <2>1, <2>2, <2>3, <2>4 DEF PoolNext
<1> QED BY <1>1, PoolInitInv, PTL DEF PoolSpec

\* The counter of the tasks at work stays between 0 and the number of threads.
LEMMA RunningIsBounded == PoolInv => ThreadPoolTypeOK
<1> SUFFICES ASSUME PoolInv PROVE ThreadPoolTypeOK
  OBVIOUS
<1>1. running \in 0 .. Cardinality(Workers)
  <2>1. /\ Cardinality(Busy) <= Cardinality(Workers)
        /\ Cardinality(Busy) \in Nat /\ Cardinality(Workers) \in Nat
    BY ThreadPoolAssumption, BusyIsFinite, FS_Subset, FS_CardinalityType DEF Busy
  <2> QED BY <2>1 DEF PoolInv, RunningCountsBusy
<1>2. pc \in [Threads -> {"unborn", "start", "exec", "wait", "asleep", "stop",
                          "join", "done", "loop", "get", "begin", "run", "end",
                          "notify", "exited"}]
  BY DEF PoolInv, PoolTypes, MainLabels, WorkerLabels
<1> QED BY <1>1, <1>2 DEF PoolInv, PoolTypes, ThreadPoolTypeOK

LEMMA OneOrNone ==
  ASSUME NEW S, \A x, y \in S : x = y
  PROVE  Cardinality(S) = IF S = {} THEN 0 ELSE 1
<1>1. CASE S = {}
  BY <1>1, FS_EmptySet
<1>2. CASE S # {}
  <2>1. PICK x \in S : S = {x}
    BY <1>2
  <2> QED BY <2>1, FS_Singleton
<1> QED BY <1>1, <1>2

LEMMA PlacesCounted == PoolInv => TasksConserved
<1> SUFFICES ASSUME PoolInv PROVE TasksConserved
  OBVIOUS
<1>1. /\ tasks \in Seq(Tasks) /\ Len(tasks) \in Nat
      /\ \A j \in 1 .. Len(tasks) : tasks[j] \in Tasks
      /\ submitted \in Nat
  BY ElementOfSeq, ThreadPoolAssumption DEF PoolInv, PoolTypes
<1>2. \A j \in 1 .. Len(tasks) - 1 : tasks[j] < tasks[j + 1]
  <2> SUFFICES ASSUME NEW j \in 1 .. Len(tasks) - 1 PROVE tasks[j] < tasks[j + 1]
    OBVIOUS
  <2>1. j \in 1 .. Len(tasks) /\ j + 1 \in 1 .. Len(tasks) /\ j < j + 1
    BY <1>1
  <2> QED BY <2>1 DEF PoolInv, QueueOrdered
<1>3. ASSUME NEW k \in Tasks
      PROVE  Cardinality({j \in 1 .. Len(tasks) : tasks[j] = k})
             + Cardinality({w \in Workers : task[w] = k /\ pc[w] # "end"})
             + (IF outcome[k] # "pending" THEN 1 ELSE 0)
               = IF k <= submitted THEN 1 ELSE 0
  <2> DEFINE Queued == {j \in 1 .. Len(tasks) : tasks[j] = k}
             With == {w \in Workers : task[w] = k /\ pc[w] # "end"}
  <2>0. k \in Nat /\ k # 0
    BY ThreadPoolAssumption DEF Tasks
  <2>1. Cardinality(Queued) = IF Queued = {} THEN 0 ELSE 1
    <3>1. ASSUME NEW i \in Queued, NEW j \in Queued PROVE i = j
      <4>1. i \in 1 .. Len(tasks) /\ j \in 1 .. Len(tasks) /\ tasks[i] = tasks[j]
            /\ tasks[i] \in Int
        BY <1>1, <2>0
      <4>2. (i < j => tasks[i] < tasks[j]) /\ (j < i => tasks[j] < tasks[i])
        BY <4>1 DEF PoolInv, QueueOrdered
      <4> QED BY <4>1, <4>2, <1>1
    <3> HIDE DEF Queued
    <3> QED BY <3>1, OneOrNone
  <2>2. Cardinality(With) = IF With = {} THEN 0 ELSE 1
    <3>1. ASSUME NEW w \in With, NEW u \in With PROVE w = u
      BY <2>0 DEF PoolInv, HeldOnce
    <3> HIDE DEF With
    <3> QED BY <3>1, OneOrNone
  <2>3. Queued # {} => With = {} /\ outcome[k] = "pending" /\ k <= submitted
    BY DEF PoolInv, HeldOnce, OutcomeSettled, QueueOrdered
  <2>4. With # {} => outcome[k] = "pending" /\ k <= submitted
    BY <2>0 DEF PoolInv, HeldOnce, OutcomeSettled
  <2>5. outcome[k] # "pending" => k <= submitted
    BY <1>1, <2>0 DEF PoolInv, OutcomeSettled
  <2>6. k <= submitted /\ outcome[k] = "pending" => Queued # {} \/ With # {}
    <3> SUFFICES ASSUME k <= submitted, outcome[k] = "pending"
                 PROVE  Queued # {} \/ With # {}
      OBVIOUS
    <3>1. CASE \E j \in 1 .. Len(tasks) : tasks[j] = k
      BY <3>1
    <3>2. CASE \E w \in Workers : task[w] = k
      BY <3>2, <2>0 DEF PoolInv, OutcomeSettled
    <3> QED BY <3>1, <3>2 DEF PoolInv, NoneLost
  <2> HIDE DEF Queued, With
  <2>7. Cardinality(Queued) + Cardinality(With)
        + (IF outcome[k] # "pending" THEN 1 ELSE 0) = IF k <= submitted THEN 1 ELSE 0
    <3>1. CASE Queued # {}
      BY <3>1, <2>1, <2>2, <2>3
    <3>2. CASE Queued = {} /\ With # {}
      BY <3>2, <2>1, <2>2, <2>4
    <3>3. CASE Queued = {} /\ With = {}
      BY <3>3, <2>1, <2>2, <2>5, <2>6
    <3> QED BY <3>1, <3>2, <3>3
  <2> QED BY <2>7 DEF Queued, With
<1> QED BY <1>2, <1>3 DEF TasksConserved

LEMMA StopIsFinal == PoolInv => StopLeavesNothingRunning
<1> SUFFICES ASSUME PoolInv, pc[Main] = "done"
             PROVE  /\ \A w \in Workers : pc[w] = "exited" /\ task[w] = 0
                    /\ patient => tasks = <<>> /\ \A k \in Tasks : outcome[k] # "pending"
  BY DEF StopLeavesNothingRunning
<1>1. /\ \A w \in Workers : pc[w] = "exited"
      /\ submitted = TaskNum
      /\ patient => tasks = <<>>
  BY DEF PoolInv, Phases
<1>2. \A w \in Workers : task[w] = 0
  BY <1>1 DEF PoolInv, HeldOnce, Holds
<1>3. ASSUME patient, NEW k \in Tasks PROVE outcome[k] # "pending"
  <2>1. k <= submitted /\ k # 0
    BY <1>1, ThreadPoolAssumption DEF Tasks
  <2>2. Len(tasks) = 0
    BY <1>1, <1>3
  <2> QED BY <1>2, <2>1, <2>2 DEF PoolInv, NoneLost
<1> QED BY <1>1, <1>2, <1>3

\* exec wakes up one of those who sleep on the pool's condition
\* (ZeroThreadpool.h:166), and the worker that finds nothing left wakes up all,
\* waitForAllDone among them (ZeroThreadpool.cpp:101-105): with any number of threads nobody
\* is left asleep with something to do.
THEOREM NobodyIsStranded == PoolSpec => []NobodyStranded
  BY PoolInvariant, PTL DEF PoolInv

\* A task handed to exec is in the queue, with one worker, or done with, exactly
\* once, and the queue keeps their order (ZeroThreadpool.h:164-166,
\* ZeroThreadpool.cpp:57-76 and 82-112).
THEOREM TasksAreConserved == PoolSpec => []TasksConserved
  BY PoolInvariant, PlacesCounted, PTL

\* When stop has returned no thread is in the pool's code, and after a wait
\* without a timeout no task is left over (ZeroThreadpool.cpp:22-42).
THEOREM StopIsComplete == PoolSpec => []StopLeavesNothingRunning
  BY PoolInvariant, StopIsFinal, PTL

\* The variables keep their types; _atomic counts the tasks at work
\* (ZeroThreadpool.cpp:87 and 99).
THEOREM PoolTypeCorrect == PoolSpec => []ThreadPoolTypeOK
  BY PoolInvariant, RunningIsBounded, PTL

-----------------------------------------------------------------------------
(* The pool in the benchmark programs                                      *)

\* Every step of a benchmark is a step of the thread pool or leaves it alone.
LEMMA WorkStepIsPoolStep == [WorkNext]_workVars => [PoolNext]_poolVars
<1> SUFFICES ASSUME [WorkNext]_workVars PROVE [PoolNext]_poolVars
  OBVIOUS
<1>1. CASE MainNext
  BY <1>1 DEF MainNext, SetupCreate, SetupGet, SetupFails, SetupRelease, MainRuns,
     PoolNext
<1>2. ASSUME NEW w \in Workers, WorkerNext(w) PROVE [PoolNext]_poolVars
  BY <1>2 DEF WorkerNext, WorkerRuns, TaskCreates, TaskCreateFails, TaskGets,
     TaskWaits, TaskReleases, TaskDeletes, TaskReturns, PoolNext
<1>3. CASE SpuriousWakes
  BY <1>3 DEF SpuriousWakes, PoolNext
<1>4. CASE UNCHANGED workVars
  BY <1>4 DEF workVars
<1> QED BY <1>1, <1>2, <1>3, <1>4 DEF WorkNext

\* testWorkUsePool and testWorkNoPool drive ZERO_ThreadPool only through its
\* operations, one owner and the workers it started (test_dbpool.cpp:109-206).
THEOREM WorkUsesPool == WorkSpec => PoolSpec
<1>1. WorkInit => ThreadPoolInit
  BY DEF WorkInit
<1> QED BY <1>1, WorkStepIsPoolStep, PTL DEF WorkSpec, PoolSpec

\* In both benchmarks no task is lost or run twice, nobody sleeps with something
\* to do, and stop leaves nothing running (test_dbpool.cpp:147-156 and 197-206).
COROLLARY WorkKeepsPool ==
  WorkSpec => [](TasksConserved /\ NobodyStranded /\ StopLeavesNothingRunning)
BY WorkUsesPool, TasksAreConserved, NobodyIsStranded, StopIsComplete, PTL

-----------------------------------------------------------------------------
(* The connections: the inductive invariant                                *)

\* What a thread may be doing with a pool.
Uses == {Nothing} \cup
  {Waiting(p, timed, woken) : p \in Pools, timed \in BOOLEAN, woken \in BOOLEAN}

ConnTypes ==
  /\ free_list \in [Pools -> Seq(Conns \cup {NULL})]
  /\ used_list \in [Pools -> SUBSET (Conns \cup {NULL})]
  /\ cur_conn_cnt \in [Pools -> Nat]
  /\ max_conn_cnt \in [Pools -> Nat]
  /\ live \in [Pools -> SUBSET Conns]
  /\ use \in [Users -> Uses]
  /\ conn \in [Users -> Conns \cup {NULL}]

JobTypes ==
  /\ program \in {"use pool", "no pool"}
  /\ setup \in {"create", "get", "ddl", "threads", "failed"}
  /\ job \in [Workers -> {"idle", "get", "work", "delete", "finished"}]

\* The pool a thread takes its connection from.
Home(t) == IF t = Main THEN Shared ELSE PoolOf(t)

\* t has called GetDBConn and not yet RelDBConn
Inside(t) == IF t = Main THEN setup \in {"ddl", "failed"} ELSE job[t] = "work"

\* Nobody works before the threads run, and a job is under way only in a task.
JobPhases ==
  /\ setup # "threads" => pc[Main] = "start"
  /\ \A w \in Workers : job[w] # "idle" => pc[w] = "run"
  /\ setup \in {"create"} => live[Shared] = {}

\* A task's own pool exists only while the task works with it.
OwnPools ==
  \A w \in Workers :
    /\ job[w] \in {"get", "delete"} => program = "no pool"
    /\ live[w] # {} => program = "no pool" /\ job[w] \in {"get", "work", "delete"}
    /\ max_conn_cnt[w] <= 1

\* What a thread outside has, and what one that waits has, is nothing.
Callers ==
  \A t \in Users :
    /\ ~Inside(t) => use[t] = Nothing /\ conn[t] = NULL
    /\ use[t] # Nothing => conn[t] = NULL /\ use[t].pool = Home(t)

Lists ==
  /\ \A p \in Pools :
       /\ IsInjective(free_list[p])
       /\ ToSet(free_list[p]) \cap used_list[p] = {}
       /\ live[p] = (ToSet(free_list[p]) \cup used_list[p]) \ {NULL}
  /\ \A p, q \in Pools : p # q => live[p] \cap live[q] = {}

\* What is in use is with the thread that took it there.
Held ==
  /\ \A t \in Users : conn[t] # NULL => conn[t] \in used_list[Home(t)]
  /\ \A t, u \in Users : t # u /\ conn[t] # NULL => conn[t] # conn[u]
  /\ \A p \in Pools : \A c \in used_list[p] :
       \E t \in Users : Inside(t) /\ use[t] = Nothing /\ Home(t) = p /\ conn[t] = c

\* A pool that does not exist cannot grow.
Limit(p) == IF max_conn_cnt[p] > MIN_DB_CONN_CNT THEN max_conn_cnt[p] ELSE MIN_DB_CONN_CNT
Counted(p) ==
  IF live[p] = {} THEN cur_conn_cnt[p] >= max_conn_cnt[p]
  ELSE cur_conn_cnt[p] = Cardinality(live[p]) /\ cur_conn_cnt[p] <= Limit(p)
Counts == \A p \in Pools : Counted(p)

ConnInv == Callers /\ Lists /\ Held /\ Counts /\ NoStrandedWaiter

WorkInv == ConnTypes /\ JobTypes /\ JobPhases /\ OwnPools /\ ConnInv

-----------------------------------------------------------------------------
(* Free lists                                                              *)

LEMMA FrontAndRest ==
  ASSUME NEW S, NEW s \in Seq(S), s # <<>>
  PROVE  /\ Head(s) \in S /\ Tail(s) \in Seq(S)
         /\ Len(s) \in Nat \ {0} /\ Len(Tail(s)) = Len(s) - 1
         /\ ToSet(s) = {Head(s)} \cup ToSet(Tail(s))
         /\ IsInjective(s) => Head(s) \notin ToSet(Tail(s)) /\ IsInjective(Tail(s))
<1>1. /\ Len(s) \in Nat \ {0} /\ DOMAIN s = 1 .. Len(s) /\ Head(s) = s[1]
      /\ \A i \in 1 .. Len(s) : s[i] \in S
  BY EmptySeq, ElementOfSeq
<1>2. /\ Tail(s) \in Seq(S) /\ Len(Tail(s)) = Len(s) - 1
      /\ \A i \in 1 .. Len(Tail(s)) : Tail(s)[i] = s[i + 1]
      /\ DOMAIN Tail(s) = 1 .. Len(Tail(s))
  BY HeadTailProperties
<1>3. \A i \in 1 .. Len(Tail(s)) : i + 1 \in 1 .. Len(s) /\ i + 1 # 1
  BY <1>1, <1>2
<1>4. \A j \in 1 .. Len(s) : j # 1 => j - 1 \in 1 .. Len(Tail(s)) /\ (j - 1) + 1 = j
  BY <1>1, <1>2
<1>5. ToSet(s) = {Head(s)} \cup ToSet(Tail(s))
  <2>1. ASSUME NEW i \in 1 .. Len(s) PROVE s[i] \in {Head(s)} \cup ToSet(Tail(s))
    <3>1. CASE i = 1
      BY <1>1, <3>1
    <3>2. CASE i # 1
      BY <1>2, <1>4, <3>2 DEF ToSet
    <3> QED BY <3>1, <3>2
  <2>2. ASSUME NEW i \in 1 .. Len(Tail(s)) PROVE Tail(s)[i] \in ToSet(s)
    BY <1>1, <1>2, <1>3 DEF ToSet
  <2>3. Head(s) \in ToSet(s)
    BY <1>1 DEF ToSet
  <2> QED BY <1>1, <1>2, <2>1, <2>2, <2>3 DEF ToSet
<1>6. ASSUME IsInjective(s)
      PROVE  Head(s) \notin ToSet(Tail(s)) /\ IsInjective(Tail(s))
  <2>1. \A i, j \in 1 .. Len(s) : s[i] = s[j] => i = j
    BY <1>1, <1>6 DEF IsInjective
  <2>2. \A i \in 1 .. Len(Tail(s)) : Tail(s)[i] # Head(s)
    BY <1>1, <1>2, <1>3, <2>1
  <2>3. ASSUME NEW i \in 1 .. Len(Tail(s)), NEW j \in 1 .. Len(Tail(s)),
               Tail(s)[i] = Tail(s)[j]
        PROVE  i = j
    <3>1. i + 1 = j + 1
      BY <1>2, <1>3, <2>1, <2>3
    <3> QED BY <3>1
  <2> QED BY <1>2, <2>2, <2>3 DEF IsInjective, ToSet
<1> QED BY <1>1, <1>2, <1>5, <1>6

LEMMA OneMore ==
  ASSUME NEW S, NEW s \in Seq(S), NEW x \in S
  PROVE  /\ Append(s, x) \in Seq(S) /\ Len(Append(s, x)) = Len(s) + 1
         /\ Len(s) \in Nat
         /\ ToSet(Append(s, x)) = ToSet(s) \cup {x}
         /\ IsInjective(s) /\ x \notin ToSet(s) => IsInjective(Append(s, x))
<1> DEFINE t == Append(s, x)
<1>1. /\ t \in Seq(S) /\ Len(t) = Len(s) + 1 /\ Len(s) \in Nat
      /\ \A i \in 1 .. Len(s) : t[i] = s[i]
      /\ t[Len(s) + 1] = x
      /\ DOMAIN s = 1 .. Len(s) /\ DOMAIN t = 1 .. Len(s) + 1
  BY AppendProperties
<1> HIDE DEF t
<1>2. \A i \in 1 .. Len(s) + 1 : i \in 1 .. Len(s) \/ i = Len(s) + 1
  BY <1>1
<1>3. \A i \in 1 .. Len(s) : i \in 1 .. Len(s) + 1 /\ i # Len(s) + 1
  BY <1>1
<1>4. Len(s) + 1 \in 1 .. Len(s) + 1
  BY <1>1
<1>5. ToSet(t) = ToSet(s) \cup {x}
  BY <1>1, <1>2, <1>3, <1>4 DEF ToSet
<1>6. ASSUME IsInjective(s), x \notin ToSet(s) PROVE IsInjective(t)
  <2>1. \A i \in 1 .. Len(s) : s[i] # x
    BY <1>1, <1>6 DEF ToSet
  <2>2. \A i, j \in 1 .. Len(s) : s[i] = s[j] => i = j
    BY <1>1, <1>6 DEF IsInjective
  <2>3. ASSUME NEW i \in 1 .. Len(s) + 1, NEW j \in 1 .. Len(s) + 1, t[i] = t[j]
        PROVE  i = j
    <3>1. CASE i \in 1 .. Len(s) /\ j \in 1 .. Len(s)
      BY <1>1, <2>2, <2>3, <3>1
    <3>2. CASE i = Len(s) + 1 /\ j \in 1 .. Len(s)
      BY <1>1, <2>1, <2>3, <3>2
    <3>3. CASE i \in 1 .. Len(s) /\ j = Len(s) + 1
      BY <1>1, <2>1, <2>3, <3>3
    <3>4. CASE i = Len(s) + 1 /\ j = Len(s) + 1
      BY <3>4
    <3> QED BY <1>2, <3>1, <3>2, <3>3, <3>4
  <2> QED BY <1>1, <2>3 DEF IsInjective
<1> QED BY <1>1, <1>5, <1>6 DEF t

LEMMA SetToSeqListsAll ==
  ASSUME NEW S, IsFiniteSet(S)
  PROVE  /\ SetToSeq(S) \in Seq(S) /\ Len(SetToSeq(S)) = Cardinality(S)
         /\ IsInjective(SetToSeq(S)) /\ ToSet(SetToSeq(S)) = S
<1> DEFINE f == SetToSeq(S)
           n == Cardinality(S)
<1>1. n \in Nat /\ ExistsBijection(1 .. n, S)
  BY FS_CardinalityType
<1>2. \E g \in [1 .. n -> S] : IsInjective(g)
  BY <1>1 DEF ExistsBijection, Bijection, Injection, IsInjective
<1>3. f \in [1 .. n -> S] /\ IsInjective(f)
  BY <1>2 DEF SetToSeq
<1>4. f \in Seq(S) /\ Len(f) = n /\ DOMAIN f = 1 .. n
  BY <1>1, <1>3
<1>5. f \in Injection(1 .. n, S)
  BY <1>3 DEF Injection, IsInjective
<1>6. f \in Surjection(1 .. n, S)
  <2>1. Cardinality(1 .. n) = n
    BY <1>1, FS_Interval
  <2> HIDE DEF f
  <2> QED BY <1>5, <2>1, FS_Injection
<1>7. ToSet(f) = S
  BY <1>3, <1>4, <1>6 DEF ToSet, Surjection
<1> QED BY <1>3, <1>4, <1>7

-----------------------------------------------------------------------------
(* What the operations of the connection pool keep                         *)

LEMMA UseKinds ==
  ASSUME ConnTypes, NEW t \in Users
  PROVE  /\ use[t].op = "wait" <=> use[t] # Nothing
         /\ use[t] # Nothing =>
              \E p \in Pools, timed \in BOOLEAN, woken \in BOOLEAN :
                use[t] = Waiting(p, timed, woken)
<1>1. use[t] \in Uses
  BY DEF ConnTypes
<1>2. \A p, timed, woken : Waiting(p, timed, woken).op = "wait"
  BY DEF Waiting
<1>3. Nothing.op = "out"
  BY DEF Nothing
<1> QED BY <1>1, <1>2, <1>3 DEF Uses

LEMMA WaitingIsUse ==
  ASSUME NEW p \in Pools, NEW timed \in BOOLEAN, NEW woken \in BOOLEAN
  PROVE  Waiting(p, timed, woken) \in Uses
  BY DEF Uses

LEMMA NothingIsUse == Nothing \in Uses
  BY DEF Uses

LEMMA HomeIsPool ==
  ASSUME NEW t \in Users
  PROVE  Home(t) \in Pools
  BY PooledWorkAssumption DEF Home, PoolOf, Threads

LEMMA UsersAreFinite ==
  ASSUME NEW T \in SUBSET Users
  PROVE  IsFiniteSet(T) /\ Cardinality(T) \in Nat
<1>1. IsFiniteSet(Users)
  BY ThreadPoolAssumption, PooledWorkAssumption, FS_AddElement DEF Threads
<1> QED BY <1>1, FS_Subset, FS_CardinalityType

LEMMA ComingIsFinite ==
  ASSUME NEW p
  PROVE  IsFiniteSet(Coming(p)) /\ Cardinality(Coming(p)) \in Nat
  BY UsersAreFinite DEF Coming

\* t is about to get an answer from its pool, and nobody else moves.
Entering(t) ==
  /\ ~(Inside(t) /\ use[t] = Nothing)
  /\ Inside(t)'
  /\ \A u \in Users : u # t => (Inside(u)' <=> Inside(u))
  /\ program' = program

\* t's part in the wait sets ends.
LEMMA Settles ==
  ASSUME ConnTypes, Callers, NEW t \in Users, use' = [use EXCEPT ![t] = Nothing]
  PROVE  /\ \A p \in Pools : Sleepers(p)' \subseteq Sleepers(p)
         /\ \A p \in Pools : Coming(p)' = Coming(p) \ {t}
         /\ \A p \in Pools : p # Home(t) => Coming(p)' = Coming(p)
<1>1. Nothing.op # "wait"
  BY DEF Nothing
<1>2. \A u \in Users : use'[u] = IF u = t THEN Nothing ELSE use[u]
  BY DEF ConnTypes
<1>3. \A p \in Pools : t \in Coming(p) => p = Home(t)
  BY UseKinds DEF Coming, Callers
<1>4. \A p \in Pools : Coming(p)' = Coming(p) \ {t}
  BY <1>1, <1>2 DEF Coming
<1>5. \A p \in Pools : Sleepers(p)' \subseteq Sleepers(p)
  BY <1>1, <1>2 DEF Sleepers
<1> QED BY <1>3, <1>4, <1>5

LEMMA SettlesStranded ==
  ASSUME ConnTypes, Callers, NoStrandedWaiter, NEW t \in Users,
         use' = [use EXCEPT ![t] = Nothing],
         \A q \in Pools : q # Home(t) => free_list'[q] = free_list[q],
         \/ Len(free_list'[Home(t)]) = 0
         \/ /\ Len(free_list[Home(t)]) \in Nat
            /\ Len(free_list'[Home(t)]) = Len(free_list[Home(t)]) - 1
  PROVE  NoStrandedWaiter'
<1> SUFFICES ASSUME NEW p \in Pools, Sleepers(p)' # {}
             PROVE  Len(free_list'[p]) <= Cardinality(Coming(p)')
  BY DEF NoStrandedWaiter
<1>1. /\ Sleepers(p) # {}
      /\ Coming(p)' = Coming(p) \ {t}
      /\ p # Home(t) => Coming(p)' = Coming(p)
  BY Settles
<1>2. Len(free_list[p]) <= Cardinality(Coming(p))
  BY <1>1 DEF NoStrandedWaiter
<1>3. /\ Cardinality(Coming(p)) \in Nat /\ Cardinality(Coming(p)') \in Nat
      /\ Cardinality(Coming(p)') >= Cardinality(Coming(p)) - 1
  <2>1. IsFiniteSet(Coming(p)) /\ Cardinality(Coming(p)) \in Nat
    BY ComingIsFinite
  <2>2. /\ IsFiniteSet(Coming(p) \ {t})
        /\ Cardinality(Coming(p) \ {t}) =
             IF t \in Coming(p) THEN Cardinality(Coming(p)) - 1 ELSE Cardinality(Coming(p))
    BY <2>1, FS_RemoveElement
  <2>3. Cardinality(Coming(p) \ {t}) \in Nat
    BY <2>2, FS_CardinalityType
  <2> QED BY <1>1, <2>1, <2>2, <2>3
<1>4. CASE p # Home(t)
  BY <1>1, <1>2, <1>4
<1>5. CASE p = Home(t)
  BY <1>2, <1>3, <1>5
<1> QED BY <1>4, <1>5

LEMMA RefuseKeeps ==
  ASSUME ConnTypes, ConnInv, NEW t \in Users, Entering(t), Refuse(t),
         free_list[Home(t)] = <<>>
  PROVE  ConnTypes' /\ ConnInv'
<1>1. /\ conn[t] = NULL
      /\ \A u \in Users : conn'[u] = conn[u]
      /\ use' = [use EXCEPT ![t] = Nothing]
      /\ \A u \in Users : use'[u] = IF u = t THEN Nothing ELSE use[u]
      /\ UNCHANGED <<free_list, used_list, cur_conn_cnt, max_conn_cnt, live>>
      /\ conn' \in [Users -> Conns \cup {NULL}]
  BY DEF Refuse, ConnTypes, ConnInv, Callers, Entering
<1>2. \A u : Home(u)' = Home(u)
  BY DEF Entering, Home, PoolOf
<1>3. ConnTypes'
  BY <1>1, NothingIsUse DEF ConnTypes
<1>4. Callers'
  BY <1>1, <1>2 DEF ConnInv, Callers, Entering
<1>5. Lists'
  BY <1>1 DEF ConnInv, Lists
<1>6. Held'
  <2>1. \A p \in Pools : \A c \in used_list[p] :
          \E u \in Users : u # t /\ Inside(u) /\ use[u] = Nothing /\ Home(u) = p
                           /\ conn[u] = c
    BY DEF ConnInv, Held, Entering
  <2>2. \A p \in Pools : \A c \in used_list'[p] :
          \E u \in Users : Inside(u)' /\ use'[u] = Nothing /\ Home(u)' = p
                           /\ conn'[u] = c
    BY <1>1, <1>2, <2>1 DEF Entering
  <2> QED BY <1>1, <1>2, <2>2 DEF ConnInv, Held
<1>7. Counts'
  BY <1>1 DEF ConnInv, Counts, Counted, Limit
<1>8. NoStrandedWaiter'
  BY <1>1, SettlesStranded DEF ConnInv
<1> QED BY <1>3, <1>4, <1>5, <1>6, <1>7, <1>8 DEF ConnInv

LEMMA OnePool ==
  ASSUME NEW f, DOMAIN f = Pools, NEW p \in Pools, NEW v, NEW g, g = [f EXCEPT ![p] = v]
  PROVE  \A q \in Pools : g[q] = IF q = p THEN v ELSE f[q]
  OBVIOUS

\* t takes c, which is nobody's, and c joins the connections in use.
LEMMA HeldTakes ==
  ASSUME ConnTypes, Held, Callers, Lists, NEW t \in Users, Entering(t),
         NEW c \in Conns \cup {NULL},
         c # NULL => \A p \in Pools : c \notin used_list[p],
         conn' = [conn EXCEPT ![t] = c],
         use' = [use EXCEPT ![t] = Nothing],
         used_list' = [used_list EXCEPT ![Home(t)] = @ \cup {c}]
  PROVE  Held' /\ Callers'
<1>1. /\ conn[t] = NULL
      /\ \A u \in Users : conn'[u] = IF u = t THEN c ELSE conn[u]
      /\ \A u \in Users : use'[u] = IF u = t THEN Nothing ELSE use[u]
      /\ \A p \in Pools : used_list'[p] = IF p = Home(t) THEN used_list[p] \cup {c}
                                                         ELSE used_list[p]
      /\ Home(t) \in Pools
  <2>1. conn[t] = NULL
    BY DEF Callers, Entering
  <2>2. \A u \in Users : conn'[u] = IF u = t THEN c ELSE conn[u]
    BY DEF ConnTypes
  <2>3. \A u \in Users : use'[u] = IF u = t THEN Nothing ELSE use[u]
    BY DEF ConnTypes
  <2>4. Home(t) \in Pools
    BY HomeIsPool
  <2>5. \A p \in Pools : used_list'[p] = IF p = Home(t) THEN used_list[p] \cup {c}
                                                          ELSE used_list[p]
    <3>1. DOMAIN used_list = Pools
      BY DEF ConnTypes
    <3>2. used_list' = [used_list EXCEPT ![Home(t)] = used_list[Home(t)] \cup {c}]
      BY <2>4
    <3>3. \A p \in Pools : used_list'[p] =
            IF p = Home(t) THEN used_list[Home(t)] \cup {c} ELSE used_list[p]
      BY <2>4, <3>1, <3>2, OnePool
    <3> QED BY <3>3
  <2> QED BY <2>1, <2>2, <2>3, <2>4, <2>5
<1>2. \A u : Home(u)' = Home(u)
  BY DEF Entering, Home, PoolOf
<1>3. Callers'
  BY <1>1, <1>2 DEF Callers, Entering
<1>4. \A u \in Users : conn'[u] # NULL => conn'[u] \in used_list'[Home(u)]
  <2> SUFFICES ASSUME NEW u \in Users, conn'[u] # NULL
               PROVE  conn'[u] \in used_list'[Home(u)]
    OBVIOUS
  <2>1. Home(u) \in Pools
    BY HomeIsPool
  <2> QED BY <1>1, <2>1 DEF Held
<1>5. \A u \in Users : conn[u] # NULL => conn[u] # c
  BY HomeIsPool DEF Held
<1>6. \A u, v \in Users : u # v /\ conn'[u] # NULL => conn'[u] # conn'[v]
  BY <1>1, <1>5 DEF Held
<1>7. ASSUME NEW p \in Pools, NEW d \in used_list'[p]
      PROVE  \E u \in Users : Inside(u)' /\ use'[u] = Nothing /\ Home(u) = p
                              /\ conn'[u] = d
  <2>1. CASE d \in used_list[p]
    <3>1. PICK u \in Users : Inside(u) /\ use[u] = Nothing /\ Home(u) = p /\ conn[u] = d
      BY <2>1 DEF Held
    <3>2. u # t
      BY <3>1 DEF Entering
    <3> QED BY <1>1, <3>1, <3>2 DEF Entering
  <2>2. CASE p = Home(t) /\ d = c
    BY <1>1, <2>2 DEF Entering
  <2> QED BY <1>1, <2>1, <2>2
<1> QED BY <1>2, <1>3, <1>4, <1>6, <1>7 DEF Held

LEMMA GrantKeeps ==
  ASSUME ConnTypes, ConnInv, NEW t \in Users, Entering(t), Grant(t, Home(t))
  PROVE  ConnTypes' /\ ConnInv'
<1> DEFINE p == Home(t)
           h == Head(free_list[p])
<1>1. /\ p \in Pools /\ free_list[p] # <<>>
      /\ free_list[p] \in Seq(Conns \cup {NULL})
  BY HomeIsPool DEF ConnTypes, Grant
<1>2. /\ conn' = [conn EXCEPT ![t] = h]
      /\ used_list' = [used_list EXCEPT ![p] = @ \cup {h}]
      /\ use' = [use EXCEPT ![t] = Nothing]
      /\ free_list' = [free_list EXCEPT ![p] = Tail(free_list[p])]
      /\ UNCHANGED <<cur_conn_cnt, max_conn_cnt, live>>
  BY DEF Grant
<1>3. /\ h \in Conns \cup {NULL} /\ Tail(free_list[p]) \in Seq(Conns \cup {NULL})
      /\ Len(free_list[p]) \in Nat \ {0}
      /\ Len(Tail(free_list[p])) = Len(free_list[p]) - 1
      /\ ToSet(free_list[p]) = {h} \cup ToSet(Tail(free_list[p]))
      /\ IsInjective(free_list[p]) =>
           h \notin ToSet(Tail(free_list[p])) /\ IsInjective(Tail(free_list[p]))
  BY <1>1, FrontAndRest
<1> HIDE DEF h, p
<1>4. /\ free_list'[p] = Tail(free_list[p])
      /\ used_list'[p] = used_list[p] \cup {h}
      /\ \A q \in Pools : q # p => free_list'[q] = free_list[q] /\ used_list'[q] = used_list[q]
  BY <1>1, <1>2 DEF ConnTypes
<1>5. ConnTypes'
  <2>1. free_list' \in [Pools -> Seq(Conns \cup {NULL})]
    BY <1>1, <1>2, <1>3 DEF ConnTypes
  <2>2. used_list' \in [Pools -> SUBSET (Conns \cup {NULL})]
    BY <1>1, <1>2, <1>3 DEF ConnTypes
  <2>3. conn' \in [Users -> Conns \cup {NULL}]
    BY <1>2, <1>3 DEF ConnTypes
  <2>4. use' \in [Users -> Uses]
    BY <1>2, NothingIsUse DEF ConnTypes
  <2> QED BY <1>2, <2>1, <2>2, <2>3, <2>4 DEF ConnTypes
<1>6. h # NULL => \A q \in Pools : h \notin used_list[q]
  <2> SUFFICES ASSUME h # NULL, NEW q \in Pools PROVE h \notin used_list[q]
    OBVIOUS
  <2>1. h \in ToSet(free_list[p]) /\ h \in live[p]
    BY <1>1, <1>3 DEF ConnInv, Lists
  <2>2. CASE q = p
    BY <2>1, <2>2, <1>1 DEF ConnInv, Lists
  <2>3. CASE q # p
    <3>1. h \notin live[q]
      BY <1>1, <2>1, <2>3 DEF ConnInv, Lists
    <3>2. live[q] = (ToSet(free_list[q]) \cup used_list[q]) \ {NULL}
      BY DEF ConnInv, Lists
    <3> QED BY <3>1, <3>2
  <2> QED BY <2>2, <2>3
<1>7. Held' /\ Callers'
  <2>1. used_list' = [used_list EXCEPT ![Home(t)] = @ \cup {h}]
    BY <1>2 DEF p
  <2> QED BY <1>2, <1>3, <1>6, <2>1, HeldTakes DEF ConnInv
<1>8. Lists'
  <2>1. ASSUME NEW q \in Pools
        PROVE  /\ IsInjective(free_list'[q])
               /\ ToSet(free_list'[q]) \cap used_list'[q] = {}
               /\ live[q] = (ToSet(free_list'[q]) \cup used_list'[q]) \ {NULL}
    <3>0. /\ IsInjective(free_list[q])
          /\ ToSet(free_list[q]) \cap used_list[q] = {}
          /\ live[q] = (ToSet(free_list[q]) \cup used_list[q]) \ {NULL}
      BY DEF ConnInv, Lists
    <3>1. CASE q # p
      BY <1>4, <3>0, <3>1
    <3>2. CASE q = p
      BY <1>3, <1>4, <3>0, <3>2
    <3> QED BY <3>1, <3>2
  <2> QED BY <1>2, <2>1 DEF ConnInv, Lists
<1>9. Counts'
  BY <1>2 DEF ConnInv, Counts, Counted, Limit
<1>10. NoStrandedWaiter'
  BY <1>2, <1>3, <1>4, SettlesStranded DEF ConnInv, p
<1> QED BY <1>5, <1>7, <1>8, <1>9, <1>10 DEF ConnInv

LEMMA GrowKeeps ==
  ASSUME ConnTypes, ConnInv, NEW t \in Users, Entering(t), Grow(t, Home(t))
  PROVE  ConnTypes' /\ ConnInv'
<1> DEFINE p == Home(t)
<1>1. /\ p \in Pools /\ free_list[p] = <<>> /\ cur_conn_cnt[p] < max_conn_cnt[p]
      /\ Unused # {}
  BY HomeIsPool DEF Grow, GrowCounted
<1>2. PICK c : c = NewConn
  OBVIOUS
<1>3. /\ conn' = [conn EXCEPT ![t] = c]
      /\ used_list' = [used_list EXCEPT ![p] = @ \cup {c}]
      /\ use' = [use EXCEPT ![t] = Nothing]
      /\ live' = [live EXCEPT ![p] = @ \cup {c}]
      /\ cur_conn_cnt' = [cur_conn_cnt EXCEPT ![p] = @ + 1]
      /\ UNCHANGED <<free_list, max_conn_cnt>>
  BY <1>2 DEF Grow, GrowCounted
<1>4. c \in Conns /\ c # NULL /\ \A q \in Pools : c \notin live[q]
  <2>1. c \in Unused
    BY <1>1, <1>2 DEF NewConn
  <2> QED BY <2>1, CDBPoolAssumption DEF Unused
<1> HIDE DEF p
<1>5. /\ \A q \in Pools : used_list'[q] = IF q = p THEN used_list[q] \cup {c} ELSE used_list[q]
      /\ \A q \in Pools : live'[q] = IF q = p THEN live[q] \cup {c} ELSE live[q]
      /\ \A q \in Pools : cur_conn_cnt'[q] = IF q = p THEN cur_conn_cnt[q] + 1
                                                      ELSE cur_conn_cnt[q]
  <2>1. \A q \in Pools : used_list'[q] = IF q = p THEN used_list[q] \cup {c} ELSE used_list[q]
    <3>1. DOMAIN used_list = Pools
      BY DEF ConnTypes
    <3>2. \A q \in Pools : used_list'[q] =
            IF q = p THEN used_list[p] \cup {c} ELSE used_list[q]
      BY <1>1, <1>3, <3>1, OnePool
    <3> QED BY <3>2
  <2>2. \A q \in Pools : live'[q] = IF q = p THEN live[q] \cup {c} ELSE live[q]
    <3>1. DOMAIN live = Pools
      BY DEF ConnTypes
    <3>2. \A q \in Pools : live'[q] = IF q = p THEN live[p] \cup {c} ELSE live[q]
      BY <1>1, <1>3, <3>1, OnePool
    <3> QED BY <3>2
  <2>3. \A q \in Pools : cur_conn_cnt'[q] = IF q = p THEN cur_conn_cnt[q] + 1
                                                      ELSE cur_conn_cnt[q]
    BY <1>3 DEF ConnTypes
  <2> QED BY <2>1, <2>2, <2>3
<1>6. ConnTypes'
  <2>1. used_list' \in [Pools -> SUBSET (Conns \cup {NULL})]
        /\ live' \in [Pools -> SUBSET Conns]
    BY <1>1, <1>3, <1>4 DEF ConnTypes
  <2>2. cur_conn_cnt' \in [Pools -> Nat]
    BY <1>1, <1>3 DEF ConnTypes
  <2>3. conn' \in [Users -> Conns \cup {NULL}]
    BY <1>3, <1>4 DEF ConnTypes
  <2>4. use' \in [Users -> Uses]
    BY <1>3, NothingIsUse DEF ConnTypes
  <2> QED BY <1>3, <2>1, <2>2, <2>3, <2>4 DEF ConnTypes
<1>7. \A q \in Pools : c \notin used_list[q] /\ c \notin ToSet(free_list[q])
  BY <1>4 DEF ConnInv, Lists
<1>8. Held' /\ Callers'
  <2>1. used_list' = [used_list EXCEPT ![Home(t)] = @ \cup {c}]
    BY <1>3 DEF p
  <2> QED BY <1>3, <1>4, <1>7, <2>1, HeldTakes DEF ConnInv
<1>9. Lists'
  <2>1. ASSUME NEW q \in Pools
        PROVE  /\ IsInjective(free_list[q])
               /\ ToSet(free_list[q]) \cap used_list'[q] = {}
               /\ live'[q] = (ToSet(free_list[q]) \cup used_list'[q]) \ {NULL}
    <3>0. /\ IsInjective(free_list[q])
          /\ ToSet(free_list[q]) \cap used_list[q] = {}
          /\ live[q] = (ToSet(free_list[q]) \cup used_list[q]) \ {NULL}
      BY DEF ConnInv, Lists
    <3> QED BY <1>4, <1>5, <1>7, <3>0
  <2>2. ASSUME NEW q \in Pools, NEW r \in Pools, q # r
        PROVE  live'[q] \cap live'[r] = {}
    <3>1. live[q] \cap live[r] = {}
      BY <2>2 DEF ConnInv, Lists
    <3> QED BY <1>4, <1>5, <2>2, <3>1
  <2> QED BY <1>3, <2>1, <2>2 DEF Lists
<1>10. Counts'
  <2> SUFFICES ASSUME NEW q \in Pools PROVE Counted(q)'
    BY DEF Counts
  <2>1. CASE q # p
    BY <1>3, <1>5, <2>1 DEF ConnInv, Counts, Counted, Limit
  <2>2. CASE q = p
    <3>0. /\ cur_conn_cnt[p] \in Nat /\ max_conn_cnt[p] \in Nat
          /\ cur_conn_cnt'[p] = cur_conn_cnt[p] + 1
          /\ max_conn_cnt'[p] = max_conn_cnt[p]
      BY <1>1, <1>3, <1>5 DEF ConnTypes
    <3>1. live[p] # {} /\ cur_conn_cnt[p] = Cardinality(live[p])
      <4>1. Counted(p)
        BY <1>1 DEF ConnInv, Counts
      <4>2. ~(cur_conn_cnt[p] >= max_conn_cnt[p])
        BY <1>1, <3>0
      <4> QED BY <4>1, <4>2 DEF Counted
    <3>2. IsFiniteSet(live[p])
      <4>1. live[p] \in SUBSET Conns
        BY <1>1 DEF ConnTypes
      <4> QED BY <4>1, CDBPoolAssumption, FS_Subset
    <3>3. Cardinality(live[p] \cup {c}) = Cardinality(live[p]) + 1
      BY <1>1, <1>4, <3>2, FS_AddElement
    <3>4. live'[p] = live[p] \cup {c} /\ live'[p] # {}
      BY <1>1, <1>5
    <3>5. cur_conn_cnt'[p] = Cardinality(live'[p])
      BY <3>0, <3>1, <3>3, <3>4
    <3>6. cur_conn_cnt'[p] <= IF max_conn_cnt'[p] > MIN_DB_CONN_CNT
                              THEN max_conn_cnt'[p] ELSE MIN_DB_CONN_CNT
      BY <1>1, <3>0, CDBPoolAssumption
    <3> QED BY <2>2, <3>4, <3>5, <3>6 DEF Counted, Limit
  <2> QED BY <2>1, <2>2
<1>11. NoStrandedWaiter'
  <2>1. Len(free_list'[Home(t)]) = 0
    BY <1>1, <1>3 DEF p
  <2> QED BY <1>3, <2>1, SettlesStranded DEF ConnInv
<1> QED BY <1>6, <1>8, <1>9, <1>10, <1>11 DEF ConnInv

\* t goes to sleep when nothing is free, or is on its way back to the predicate.
LEMMA WaitKeeps ==
  ASSUME ConnTypes, ConnInv, NEW t \in Users, Entering(t),
         NEW timed \in BOOLEAN, NEW woken \in BOOLEAN,
         use' = [use EXCEPT ![t] = Waiting(Home(t), timed, woken)],
         free_list[Home(t)] = <<>> \/ woken,
         UNCHANGED <<free_list, used_list, cur_conn_cnt, max_conn_cnt, live, conn>>
  PROVE  ConnTypes' /\ ConnInv'
<1>0. Home(t) \in Pools
  BY HomeIsPool
<1>1. /\ conn[t] = NULL
      /\ \A u \in Users : u # t => use'[u] = use[u]
      /\ use'[t] = Waiting(Home(t), timed, woken)
  BY DEF ConnTypes, ConnInv, Callers, Entering
<1>2. \A u : Home(u)' = Home(u)
  BY DEF Entering, Home, PoolOf
<1>3. /\ use'[t].op = "wait" /\ use'[t].pool = Home(t) /\ use'[t].woken = woken
      /\ use'[t] # Nothing
  BY <1>1 DEF Waiting, Nothing
<1>4. ConnTypes'
  <2>1. use' \in [Users -> Uses]
    BY <1>0, WaitingIsUse DEF ConnTypes
  <2> QED BY <2>1 DEF ConnTypes
<1>5. Callers'
  BY <1>1, <1>2, <1>3 DEF ConnInv, Callers, Entering
<1>6. Lists' /\ Counts'
  BY DEF ConnInv, Lists, Counts, Counted, Limit
<1>7. Held'
  <2>1. \A p \in Pools : \A c \in used_list[p] :
          \E u \in Users : u # t /\ Inside(u) /\ use[u] = Nothing /\ Home(u) = p
                           /\ conn[u] = c
    BY DEF ConnInv, Held, Entering
  <2>2. \A p \in Pools : \A c \in used_list[p] :
          \E u \in Users : Inside(u)' /\ use'[u] = Nothing /\ Home(u) = p
                           /\ conn[u] = c
    BY <1>1, <2>1 DEF Entering
  <2> QED BY <1>2, <2>2 DEF ConnInv, Held
<1>8. NoStrandedWaiter'
  <2> SUFFICES ASSUME NEW p \in Pools, Sleepers(p)' # {}
               PROVE  Len(free_list[p]) <= Cardinality(Coming(p)')
    BY DEF NoStrandedWaiter
  <2>1. IsFiniteSet(Coming(p)) /\ Cardinality(Coming(p)) \in Nat
        /\ IsFiniteSet(Coming(p)') /\ Cardinality(Coming(p)') \in Nat
    <3>1. Coming(p) \in SUBSET Users /\ Coming(p)' \in SUBSET Users
      BY DEF Coming
    <3> QED BY <3>1, UsersAreFinite
  <2>2. CASE Len(free_list[p]) = 0
    BY <2>1, <2>2
  <2>3. CASE Len(free_list[p]) # 0
    <3>1. p # Home(t) \/ woken
      BY <2>3
    <3>2. Coming(p) \subseteq Coming(p)'
      <4>1. t \in Coming(p) => p = Home(t)
        BY UseKinds DEF Coming, ConnInv, Callers
      <4>2. woken /\ p = Home(t) => t \in Coming(p)'
        BY <1>3 DEF Coming
      <4>3. \A u \in Users : u # t => (u \in Coming(p)' <=> u \in Coming(p))
        BY <1>1 DEF Coming
      <4> QED BY <3>1, <4>1, <4>2, <4>3 DEF Coming
    <3>3. Sleepers(p) # {}
      <4>1. PICK u \in Users : u \in Sleepers(p)'
        BY DEF Sleepers
      <4>2. u # t
        BY <1>3, <3>1, <4>1 DEF Sleepers
      <4> QED BY <1>1, <4>1, <4>2 DEF Sleepers
    <3>4. Len(free_list[p]) <= Cardinality(Coming(p))
      BY <3>3 DEF ConnInv, NoStrandedWaiter
    <3>5. Cardinality(Coming(p)) <= Cardinality(Coming(p)')
      BY <2>1, <3>2, FS_Subset
    <3>6. Len(free_list[p]) \in Nat
      BY DEF ConnTypes
    <3> QED BY <2>1, <3>4, <3>5, <3>6
  <2> QED BY <2>2, <2>3
<1> QED BY <1>4, <1>5, <1>6, <1>7, <1>8 DEF ConnInv

\* t gives back what it was given.
Leaving(t) ==
  /\ Inside(t) /\ use[t] = Nothing
  /\ ~Inside(t)'
  /\ \A u \in Users : u # t => (Inside(u)' <=> Inside(u))
  /\ program' = program
  /\ conn' = [conn EXCEPT ![t] = NULL]

LEMMA HeldLeaves ==
  ASSUME ConnTypes, Held, Callers, NEW t \in Users, Leaving(t),
         \A p \in Pools : used_list'[p] =
            IF p = Home(t) THEN used_list[p] \ {conn[t]} ELSE used_list[p],
         \A u \in Users : use[u] = Nothing => use'[u] = Nothing,
         \A u \in Users : use[u] # Nothing =>
            use'[u] # Nothing /\ use'[u].pool = use[u].pool
  PROVE  Held' /\ Callers'
<1>1. /\ \A u \in Users : conn'[u] = IF u = t THEN NULL ELSE conn[u]
      /\ \A u \in Users : Home(u) \in Pools
  BY HomeIsPool DEF ConnTypes, Leaving
<1>2. \A u : Home(u)' = Home(u)
  BY DEF Leaving, Home, PoolOf
<1>3. Callers'
  BY <1>1, <1>2 DEF Callers, Leaving
<1>4. ASSUME NEW u \in Users, conn'[u] # NULL
      PROVE  conn'[u] \in used_list'[Home(u)]
  <2>1. u # t /\ conn'[u] = conn[u] /\ conn[u] # NULL
    BY <1>1, <1>4
  <2>2. conn[u] \in used_list[Home(u)] /\ conn[u] # conn[t]
    BY <2>1 DEF Held
  <2>3. Home(u) \in Pools
    BY <1>1
  <2> QED BY <2>1, <2>2, <2>3
<1>5. \A u, v \in Users : u # v /\ conn'[u] # NULL => conn'[u] # conn'[v]
  BY <1>1 DEF Held
<1>6. ASSUME NEW p \in Pools, NEW c \in used_list'[p]
      PROVE  \E u \in Users : Inside(u)' /\ use'[u] = Nothing /\ Home(u) = p
                              /\ conn'[u] = c
  <2>1. c \in used_list[p] /\ ~(p = Home(t) /\ c = conn[t])
    OBVIOUS
  <2>2. PICK u \in Users : Inside(u) /\ use[u] = Nothing /\ Home(u) = p /\ conn[u] = c
    BY <2>1 DEF Held
  <2>3. u # t
    BY <2>1, <2>2
  <2> QED BY <1>1, <2>2, <2>3 DEF Leaving
<1> QED BY <1>2, <1>3, <1>4, <1>5, <1>6 DEF Held

\* A notification reaches s.
LEMMA Wakes ==
  ASSUME ConnTypes, NEW s \in Users, use[s].op = "wait", ~use[s].woken,
         NEW p \in Pools, use[s].pool = p,
         NEW woken \in BOOLEAN, woken,
         use' = [use EXCEPT ![s] = Waiting(p, use[s].timed, woken)]
  PROVE  /\ use' \in [Users -> Uses]
         /\ \A u \in Users : use[u] = Nothing => use'[u] = Nothing
         /\ \A u \in Users : use[u] # Nothing =>
               use'[u] # Nothing /\ use'[u].pool = use[u].pool
         /\ \A q \in Pools : Sleepers(q)' \subseteq Sleepers(q)
         /\ \A q \in Pools : q # p => Coming(q)' = Coming(q)
         /\ Coming(p)' = Coming(p) \cup {s} /\ s \notin Coming(p)
<1>1. PICK q \in Pools, b \in BOOLEAN, w \in BOOLEAN : use[s] = Waiting(q, b, w)
  BY UseKinds
<1>2. use[s].timed = b
  BY <1>1 DEF Waiting
<1>3. /\ use'[s] = Waiting(p, b, woken)
      /\ \A u \in Users : u # s => use'[u] = use[u]
  BY <1>2 DEF ConnTypes
<1>4. /\ use'[s].op = "wait" /\ use'[s].pool = p /\ use'[s].woken
      /\ use'[s] # Nothing /\ use[s] # Nothing
  <2>1. Nothing.op # "wait"
    BY DEF Nothing
  <2>2. use'[s].op = "wait" /\ use'[s].pool = p /\ use'[s].woken
    BY <1>3 DEF Waiting
  <2> QED BY <2>1, <2>2
<1>5. use' \in [Users -> Uses]
  BY <1>2, WaitingIsUse DEF ConnTypes
<1>6. /\ \A u \in Users : use[u] = Nothing => use'[u] = Nothing
      /\ \A u \in Users : use[u] # Nothing =>
            use'[u] # Nothing /\ use'[u].pool = use[u].pool
  BY <1>2, <1>3, <1>4
<1>7. \A r \in Pools : Sleepers(r)' \subseteq Sleepers(r)
  BY <1>3, <1>4 DEF Sleepers
<1>8. \A r \in Pools : r # p => Coming(r)' = Coming(r)
  BY <1>2, <1>3, <1>4 DEF Coming
<1>9. Coming(p)' = Coming(p) \cup {s} /\ s \notin Coming(p)
  BY <1>3, <1>4 DEF Coming
<1> QED BY <1>2, <1>5, <1>6, <1>7, <1>8, <1>9

LEMMA ReleaseKeeps ==
  ASSUME ConnTypes, ConnInv, NEW t \in Users, Leaving(t), RelDBConn(Home(t), conn[t])
  PROVE  ConnTypes' /\ ConnInv'
<1>p. PICK p \in Pools : p = Home(t)
  BY HomeIsPool
<1>c. PICK c : c = conn[t]
  OBVIOUS
<1>1. /\ p \in Pools /\ c \in Conns \cup {NULL}
      /\ free_list[p] \in Seq(Conns \cup {NULL})
      /\ IsInjective(free_list[p]) /\ ToSet(free_list[p]) \cap used_list[p] = {}
      /\ c # NULL => c \in used_list[p]
  BY <1>p, <1>c DEF ConnTypes, ConnInv, Lists, Held
<1>2. conn' \in [Users -> Conns \cup {NULL}]
  BY DEF Leaving, ConnTypes
<1>3. UNCHANGED <<cur_conn_cnt, max_conn_cnt, live>>
  BY DEF RelDBConn
<1>4. Counts'
  BY <1>3 DEF ConnInv, Counts, Counted, Limit
<1>5. CASE c \in ToSet(free_list[p])
  <2>1. UNCHANGED <<free_list, used_list, use>>
    BY <1>p, <1>c, <1>5 DEF RelDBConn
  <2>2. c = NULL /\ c \notin used_list[p]
    BY <1>1, <1>5
  <2>3. ConnTypes'
    BY <1>2, <1>3, <2>1 DEF ConnTypes
  <2>4. Held' /\ Callers'
    BY <1>p, <1>c, <2>1, <2>2, HeldLeaves DEF ConnInv
  <2>5. Lists' /\ NoStrandedWaiter'
    BY <1>3, <2>1 DEF ConnInv, Lists, NoStrandedWaiter, Sleepers, Coming
  <2> QED BY <1>4, <2>3, <2>4, <2>5 DEF ConnInv
<1>6. CASE c \notin ToSet(free_list[p])
  <2>1. /\ used_list' = [used_list EXCEPT ![p] = used_list[p] \ {c}]
        /\ free_list' = [free_list EXCEPT ![p] = Append(free_list[p], c)]
        /\ NotifyOneUser(p)
    BY <1>p, <1>c, <1>1, <1>6 DEF RelDBConn
  <2>2. /\ Append(free_list[p], c) \in Seq(Conns \cup {NULL})
        /\ Len(Append(free_list[p], c)) = Len(free_list[p]) + 1
        /\ Len(free_list[p]) \in Nat
        /\ ToSet(Append(free_list[p], c)) = ToSet(free_list[p]) \cup {c}
        /\ IsInjective(Append(free_list[p], c))
    BY <1>1, <1>6, OneMore
  <2>3. /\ \A q \in Pools : used_list'[q] = IF q = p THEN used_list[p] \ {c} ELSE used_list[q]
        /\ \A q \in Pools : free_list'[q] = IF q = p THEN Append(free_list[p], c)
                                                     ELSE free_list[q]
    <3>1. DOMAIN used_list = Pools /\ DOMAIN free_list = Pools
      BY DEF ConnTypes
    <3>2. \A q \in Pools : used_list'[q] = IF q = p THEN used_list[p] \ {c} ELSE used_list[q]
      BY <1>1, <2>1, <3>1, OnePool
    <3>3. \A q \in Pools : free_list'[q] = IF q = p THEN Append(free_list[p], c)
                                                     ELSE free_list[q]
      BY <1>1, <2>1, <3>1, OnePool
    <3> QED BY <3>2, <3>3
  <2>4. /\ free_list' \in [Pools -> Seq(Conns \cup {NULL})]
        /\ used_list' \in [Pools -> SUBSET (Conns \cup {NULL})]
    <3>1. free_list' \in [Pools -> Seq(Conns \cup {NULL})]
      BY <1>1, <2>1, <2>2 DEF ConnTypes
    <3>2. used_list' \in [Pools -> SUBSET (Conns \cup {NULL})]
      BY <1>1, <2>1 DEF ConnTypes
    <3> QED BY <3>1, <3>2
  <2>5. Lists'
    <3>1. ASSUME NEW q \in Pools
          PROVE  /\ IsInjective(free_list'[q])
                 /\ ToSet(free_list'[q]) \cap used_list'[q] = {}
                 /\ live[q] = (ToSet(free_list'[q]) \cup used_list'[q]) \ {NULL}
      <4>0. /\ IsInjective(free_list[q])
            /\ ToSet(free_list[q]) \cap used_list[q] = {}
            /\ live[q] = (ToSet(free_list[q]) \cup used_list[q]) \ {NULL}
        BY DEF ConnInv, Lists
      <4>1. CASE q # p
        BY <2>3, <4>0, <4>1
      <4>2. CASE q = p
        BY <1>1, <2>2, <2>3, <4>0, <4>2
      <4> QED BY <4>1, <4>2
    <3> QED BY <1>3, <3>1 DEF ConnInv, Lists
  <2>6. CASE Sleepers(p) = {}
    <3>1. use' = use
      BY <2>1, <2>6 DEF NotifyOneUser
    <3>2. ConnTypes'
      BY <1>2, <1>3, <2>4, <3>1 DEF ConnTypes
    <3>3. Held' /\ Callers'
      BY <1>p, <1>c, <2>3, <3>1, HeldLeaves DEF ConnInv
    <3>4. NoStrandedWaiter'
      BY <2>3, <2>6, <3>1 DEF ConnInv, NoStrandedWaiter, Sleepers, Coming
    <3> QED BY <1>4, <2>5, <3>2, <3>3, <3>4 DEF ConnInv
  <2>7. CASE Sleepers(p) # {}
    <3>1. PICK s \in Sleepers(p) : use' = [use EXCEPT ![s] = Waiting(use[s].pool, use[s].timed, TRUE)]
      BY <2>1, <2>7 DEF NotifyOneUser
    <3>2. /\ s \in Users /\ use[s].op = "wait" /\ use[s].pool = p /\ ~use[s].woken
      BY DEF Sleepers
    <3>3. PICK woken \in BOOLEAN : woken
      OBVIOUS
    <3>4. use' = [use EXCEPT ![s] = Waiting(p, use[s].timed, woken)]
      BY <3>1, <3>2, <3>3
    <3>5. /\ use' \in [Users -> Uses]
          /\ \A u \in Users : use[u] = Nothing => use'[u] = Nothing
          /\ \A u \in Users : use[u] # Nothing =>
                use'[u] # Nothing /\ use'[u].pool = use[u].pool
          /\ \A q \in Pools : Sleepers(q)' \subseteq Sleepers(q)
          /\ \A q \in Pools : q # p => Coming(q)' = Coming(q)
          /\ Coming(p)' = Coming(p) \cup {s} /\ s \notin Coming(p)
      BY <1>1, <3>2, <3>3, <3>4, Wakes
    <3>6. ConnTypes'
      BY <1>2, <1>3, <2>4, <3>5 DEF ConnTypes
    <3>7. Held' /\ Callers'
      <4>2. \A q \in Pools : used_list'[q] =
              IF q = Home(t) THEN used_list[q] \ {conn[t]} ELSE used_list[q]
        BY <1>p, <1>c, <2>3
      <4> QED BY <3>5, <4>2, HeldLeaves DEF ConnInv
    <3>8. NoStrandedWaiter'
      <4> SUFFICES ASSUME NEW q \in Pools, Sleepers(q)' # {}
                   PROVE  Len(free_list'[q]) <= Cardinality(Coming(q)')
        BY DEF NoStrandedWaiter
      <4>1. Sleepers(q)' \subseteq Sleepers(q)
        BY <3>5
      <4>2. Len(free_list[q]) <= Cardinality(Coming(q))
        BY <4>1 DEF ConnInv, NoStrandedWaiter
      <4>3. CASE q # p
        <5>1. Coming(q)' = Coming(q)
          BY <3>5, <4>3
        <5> QED BY <2>3, <4>2, <4>3, <5>1
      <4>4. CASE q = p
        <5>2. IsFiniteSet(Coming(p)) /\ Cardinality(Coming(p)) \in Nat
          BY ComingIsFinite
        <5>3. Cardinality(Coming(p)') = Cardinality(Coming(p)) + 1
          BY <3>5, <5>2, FS_AddElement
        <5>4. Len(free_list'[p]) = Len(free_list[p]) + 1
          BY <1>1, <2>2, <2>3
        <5> QED BY <2>2, <4>2, <4>4, <5>2, <5>3, <5>4
      <4> QED BY <4>3, <4>4
    <3> QED BY <1>4, <2>5, <3>6, <3>7, <3>8 DEF ConnInv
  <2> QED BY <2>6, <2>7
<1> QED BY <1>5, <1>6

\* p comes into being while nobody uses it.
LEMMA CreateKeeps ==
  ASSUME ConnTypes, ConnInv, NEW p \in Pools, NEW max \in Nat, CreatePool(p, max),
         live[p] = {}, \A t \in Users : Home(t) = p => ~Inside(t),
         \A t \in Users : Inside(t)' <=> Inside(t),
         program' = program
  PROVE  /\ ConnTypes' /\ ConnInv'
         /\ \A q \in Pools : q # p => live'[q] = live[q]
         /\ max_conn_cnt' = [max_conn_cnt EXCEPT ![p] = max]
<1>1. PICK cs : /\ cs \in SUBSET Unused /\ Cardinality(cs) = MIN_DB_CONN_CNT
                /\ live' = [live EXCEPT ![p] = cs]
                /\ free_list' = [free_list EXCEPT ![p] = SetToSeq(cs)]
                /\ cur_conn_cnt' = [cur_conn_cnt EXCEPT ![p] = MIN_DB_CONN_CNT]
                /\ max_conn_cnt' = [max_conn_cnt EXCEPT ![p] = max]
                /\ UNCHANGED <<used_list, use, conn>>
  BY DEF CreatePool
<1>2. /\ cs \subseteq Conns /\ IsFiniteSet(cs) /\ cs # {} /\ NULL \notin cs
      /\ \A q \in Pools : live[q] \cap cs = {}
  <2>1. cs \subseteq Conns /\ \A q \in Pools : live[q] \cap cs = {}
    BY <1>1 DEF Unused
  <2>2. IsFiniteSet(cs)
    BY <2>1, CDBPoolAssumption, FS_Subset
  <2>3. cs # {}
    BY <1>1, <2>2, CDBPoolAssumption, FS_EmptySet
  <2> QED BY <2>1, <2>2, <2>3, CDBPoolAssumption
<1>3. /\ SetToSeq(cs) \in Seq(cs) /\ IsInjective(SetToSeq(cs)) /\ ToSet(SetToSeq(cs)) = cs
  BY <1>2, SetToSeqListsAll
<1>4. SetToSeq(cs) \in Seq(Conns \cup {NULL})
  BY <1>2, <1>3
<1>5. /\ \A q \in Pools : live'[q] = IF q = p THEN cs ELSE live[q]
      /\ \A q \in Pools : free_list'[q] = IF q = p THEN SetToSeq(cs) ELSE free_list[q]
  <2>1. DOMAIN live = Pools /\ DOMAIN free_list = Pools
    BY DEF ConnTypes
  <2>2. \A q \in Pools : live'[q] = IF q = p THEN cs ELSE live[q]
    BY <1>1, <2>1, OnePool
  <2>3. \A q \in Pools : free_list'[q] = IF q = p THEN SetToSeq(cs) ELSE free_list[q]
    BY <1>1, <2>1, OnePool
  <2> QED BY <2>2, <2>3
<1>6. \A u : Home(u)' = Home(u)
  BY DEF Home, PoolOf
<1>7. used_list[p] = {}
  BY DEF ConnInv, Held
<1>8. ConnTypes'
  <2>1. free_list' \in [Pools -> Seq(Conns \cup {NULL})]
    BY <1>1, <1>4 DEF ConnTypes
  <2>2. live' \in [Pools -> SUBSET Conns]
    BY <1>1, <1>2 DEF ConnTypes
  <2>3. cur_conn_cnt' \in [Pools -> Nat] /\ max_conn_cnt' \in [Pools -> Nat]
    BY <1>1, CDBPoolAssumption DEF ConnTypes
  <2> QED BY <1>1, <2>1, <2>2, <2>3 DEF ConnTypes
<1>9. Callers' /\ Held'
  BY <1>1, <1>6 DEF ConnInv, Callers, Held
<1>10. Lists'
  <2>1. ASSUME NEW q \in Pools
        PROVE  /\ IsInjective(free_list'[q])
               /\ ToSet(free_list'[q]) \cap used_list[q] = {}
               /\ live'[q] = (ToSet(free_list'[q]) \cup used_list[q]) \ {NULL}
    <3>1. CASE q # p
      BY <1>5, <3>1 DEF ConnInv, Lists
    <3>2. CASE q = p
      BY <1>2, <1>3, <1>5, <1>7, <3>2
    <3> QED BY <3>1, <3>2
  <2>2. ASSUME NEW q \in Pools, NEW r \in Pools, q # r
        PROVE  live'[q] \cap live'[r] = {}
    <3>1. live[q] \cap live[r] = {}
      BY <2>2 DEF ConnInv, Lists
    <3> QED BY <1>2, <1>5, <2>2, <3>1
  <2> QED BY <1>1, <2>1, <2>2 DEF Lists
<1>11. Counts'
  <2> SUFFICES ASSUME NEW q \in Pools PROVE Counted(q)'
    BY DEF Counts
  <2>1. CASE q # p
    <3>1. /\ live'[q] = live[q] /\ cur_conn_cnt'[q] = cur_conn_cnt[q]
          /\ max_conn_cnt'[q] = max_conn_cnt[q]
      BY <1>1, <1>5, <2>1 DEF ConnTypes
    <3> QED BY <3>1 DEF ConnInv, Counts, Counted, Limit
  <2>2. CASE q = p
    <3>1. live'[p] = cs /\ cur_conn_cnt'[p] = MIN_DB_CONN_CNT /\ max_conn_cnt'[p] = max
      BY <1>1, <1>5 DEF ConnTypes
    <3>2. MIN_DB_CONN_CNT <= IF max > MIN_DB_CONN_CNT THEN max ELSE MIN_DB_CONN_CNT
      BY CDBPoolAssumption
    <3> QED BY <1>1, <1>2, <2>2, <3>1, <3>2 DEF Counted, Limit
  <2> QED BY <2>1, <2>2
<1>12. NoStrandedWaiter'
  <2>1. Sleepers(p) = {}
    BY UseKinds DEF Sleepers, ConnInv, Callers
  <2>2. \A q \in Pools : Sleepers(q)' = Sleepers(q) /\ Coming(q)' = Coming(q)
    BY <1>1 DEF Sleepers, Coming
  <2> QED BY <1>5, <2>1, <2>2 DEF ConnInv, NoStrandedWaiter
<1> QED BY <1>1, <1>5, <1>8, <1>9, <1>10, <1>11, <1>12 DEF ConnInv

\* p goes when nobody uses it, and its connections go with it.
LEMMA DestroyKeeps ==
  ASSUME ConnTypes, ConnInv, NEW p \in Pools, DestroyPool(p), UNCHANGED conn,
         \A t \in Users : Home(t) = p => ~Inside(t),
         max_conn_cnt[p] <= 1,
         \A t \in Users : Inside(t)' <=> Inside(t),
         program' = program
  PROVE  /\ ConnTypes' /\ ConnInv'
         /\ \A q \in Pools : live'[q] = IF q = p THEN {} ELSE live[q]
<1>1. /\ live' = [live EXCEPT ![p] = live[p] \ ToSet(free_list[p])]
      /\ free_list' = [free_list EXCEPT ![p] = <<>>]
      /\ Sleepers(p) = {}
      /\ UNCHANGED <<used_list, cur_conn_cnt, max_conn_cnt, use, conn>>
  BY DEF DestroyPool
<1>2. used_list[p] = {}
  BY DEF ConnInv, Held
<1>3. live[p] \ ToSet(free_list[p]) = {}
  BY <1>2 DEF ConnInv, Lists
<1>4. /\ \A q \in Pools : live'[q] = IF q = p THEN {} ELSE live[q]
      /\ \A q \in Pools : free_list'[q] = IF q = p THEN <<>> ELSE free_list[q]
  <2>1. DOMAIN live = Pools /\ DOMAIN free_list = Pools
    BY DEF ConnTypes
  <2>2. \A q \in Pools : live'[q] = IF q = p THEN live[p] \ ToSet(free_list[p]) ELSE live[q]
    BY <1>1, <2>1, OnePool
  <2>3. \A q \in Pools : free_list'[q] = IF q = p THEN <<>> ELSE free_list[q]
    BY <1>1, <2>1, OnePool
  <2> QED BY <1>3, <2>2, <2>3
<1>5. \A u : Home(u)' = Home(u)
  BY DEF Home, PoolOf
<1>6. ConnTypes'
  <2>1. free_list' \in [Pools -> Seq(Conns \cup {NULL})]
    BY <1>1 DEF ConnTypes
  <2>2. live' \in [Pools -> SUBSET Conns]
    BY <1>1, <1>3 DEF ConnTypes
  <2> QED BY <1>1, <2>1, <2>2 DEF ConnTypes
<1>7. Callers' /\ Held'
  BY <1>1, <1>5 DEF ConnInv, Callers, Held
<1>8. Lists'
  <2>1. ASSUME NEW q \in Pools
        PROVE  /\ IsInjective(free_list'[q])
               /\ ToSet(free_list'[q]) \cap used_list[q] = {}
               /\ live'[q] = (ToSet(free_list'[q]) \cup used_list[q]) \ {NULL}
    <3>1. CASE q # p
      BY <1>4, <3>1 DEF ConnInv, Lists
    <3>2. CASE q = p
      BY <1>2, <1>4, <3>2 DEF IsInjective, ToSet
    <3> QED BY <3>1, <3>2
  <2>2. \A q, r \in Pools : q # r => live'[q] \cap live'[r] = {}
    BY <1>4 DEF ConnInv, Lists
  <2> QED BY <1>1, <2>1, <2>2 DEF Lists
<1>9. Counts'
  <2> SUFFICES ASSUME NEW q \in Pools PROVE Counted(q)'
    BY DEF Counts
  <2>1. CASE q # p
    BY <1>1, <1>4, <2>1 DEF ConnInv, Counts, Counted, Limit
  <2>2. CASE q = p
    <3>1. cur_conn_cnt[p] >= max_conn_cnt[p]
      <4>1. CASE live[p] = {}
        BY <4>1 DEF ConnInv, Counts, Counted
      <4>2. CASE live[p] # {}
        <5>1. IsFiniteSet(live[p])
          <6>1. live[p] \in SUBSET Conns
            BY DEF ConnTypes
          <6> QED BY <6>1, CDBPoolAssumption, FS_Subset
        <5>2. Cardinality(live[p]) \in Nat /\ Cardinality(live[p]) # 0
          BY <4>2, <5>1, FS_CardinalityType, FS_EmptySet
        <5>3. cur_conn_cnt[p] = Cardinality(live[p]) /\ max_conn_cnt[p] \in Nat
          BY <4>2 DEF ConnInv, Counts, Counted, ConnTypes
        <5> QED BY <5>2, <5>3
      <4> QED BY <4>1, <4>2
    <3> QED BY <1>1, <1>4, <2>2, <3>1 DEF Counted
  <2> QED BY <2>1, <2>2
<1>10. NoStrandedWaiter'
  <2>1. \A q \in Pools : Sleepers(q)' = Sleepers(q) /\ Coming(q)' = Coming(q)
    BY <1>1 DEF Sleepers, Coming
  <2> QED BY <1>1, <1>4, <2>1 DEF ConnInv, NoStrandedWaiter
<1> QED BY <1>4, <1>6, <1>7, <1>8, <1>9, <1>10 DEF ConnInv

LEMMA ConnFrame ==
  ASSUME ConnTypes, ConnInv, UNCHANGED <<connVars, program>>,
         \A t \in Users : Inside(t) => Inside(t)'
  PROVE  ConnTypes' /\ ConnInv'
<1>1. \A u : Home(u)' = Home(u)
  BY DEF Home, PoolOf
<1>2. ConnTypes'
  BY DEF ConnTypes, connVars
<1>3. Callers' /\ Held'
  BY <1>1 DEF ConnInv, Callers, Held, connVars
<1>4. Lists' /\ Counts' /\ NoStrandedWaiter'
  BY DEF ConnInv, Lists, Counts, Counted, Limit, NoStrandedWaiter, Sleepers, Coming,
     connVars
<1> QED BY <1>2, <1>3, <1>4 DEF ConnInv

\* What a call of GetDBConn, or a thread that waits in it, does.
LEMMA GetKeeps ==
  ASSUME ConnTypes, ConnInv, NEW t \in Users, Entering(t), NEW timed \in BOOLEAN,
         GetDBConn(t, Home(t), timed)
  PROVE  ConnTypes' /\ ConnInv'
<1>1. CASE Grant(t, Home(t))
  BY <1>1, GrantKeeps
<1>2. CASE Grow(t, Home(t))
  BY <1>2, GrowKeeps
<1>3. CASE GrowFails(t, Home(t))
  BY <1>3, RefuseKeeps DEF GrowFails
<1>4. CASE Sleep(t, Home(t), timed)
  <2>1. PICK woken \in BOOLEAN : woken = FALSE
    OBVIOUS
  <2>2. use' = [use EXCEPT ![t] = Waiting(Home(t), timed, woken)]
    BY <1>4, <2>1 DEF Sleep
  <2>3. /\ free_list[Home(t)] = <<>>
        /\ UNCHANGED <<free_list, used_list, cur_conn_cnt, max_conn_cnt, live, conn>>
    BY <1>4 DEF Sleep
  <2> QED BY <2>2, <2>3, WaitKeeps
<1> QED BY <1>1, <1>2, <1>3, <1>4 DEF GetDBConn

LEMMA WaitingKeeps ==
  ASSUME ConnTypes, ConnInv, NEW t \in Users,
         WakeUp(t) \/ TimeOut(t) \/ ConnSpuriousWake(t),
         \A u \in Users : Inside(u)' <=> Inside(u), program' = program
  PROVE  ConnTypes' /\ ConnInv'
<1>1. use[t].op = "wait"
  BY DEF WakeUp, TimeOut, ConnSpuriousWake
<1>2. /\ use[t] # Nothing /\ use[t].pool = Home(t) /\ Inside(t)
      /\ Entering(t)
  BY <1>1, UseKinds DEF ConnInv, Callers, Entering
<1>3. PICK timed \in BOOLEAN : use[t].timed = timed
  <2>1. PICK p \in Pools, b \in BOOLEAN, w \in BOOLEAN : use[t] = Waiting(p, b, w)
    BY <1>2, UseKinds
  <2> QED BY <2>1 DEF Waiting
<1>4. CASE Grant(t, Home(t))
  BY <1>2, <1>4, GrantKeeps
<1>5. CASE free_list[Home(t)] = <<>> /\ Refuse(t)
  BY <1>2, <1>5, RefuseKeeps
<1>6. CASE \E woken \in BOOLEAN :
             /\ use' = [use EXCEPT ![t] = Waiting(Home(t), timed, woken)]
             /\ free_list[Home(t)] = <<>> \/ woken
             /\ UNCHANGED <<free_list, used_list, cur_conn_cnt, max_conn_cnt, live, conn>>
  BY <1>2, <1>6, WaitKeeps
<1>7. CASE WakeUp(t) /\ ~Grant(t, Home(t))
  <2>1. PICK woken \in BOOLEAN : woken = FALSE
    OBVIOUS
  <2>2. use' = [use EXCEPT ![t] = Waiting(Home(t), timed, woken)]
    BY <1>2, <1>3, <1>7, <2>1 DEF WakeUp
  <2>3. /\ free_list[Home(t)] = <<>>
        /\ UNCHANGED <<free_list, used_list, cur_conn_cnt, max_conn_cnt, live, conn>>
    BY <1>2, <1>7 DEF WakeUp
  <2> QED BY <1>6, <2>2, <2>3
<1>8. CASE ConnSpuriousWake(t)
  <2>1. PICK woken \in BOOLEAN : woken = TRUE
    OBVIOUS
  <2>2. use' = [use EXCEPT ![t] = Waiting(Home(t), timed, woken)]
    BY <1>2, <1>3, <1>8, <2>1 DEF ConnSpuriousWake
  <2>3. UNCHANGED <<free_list, used_list, cur_conn_cnt, max_conn_cnt, live, conn>>
    BY <1>8 DEF ConnSpuriousWake
  <2> QED BY <1>6, <2>1, <2>2, <2>3
<1>9. CASE TimeOut(t)
  BY <1>2, <1>4, <1>5, <1>9 DEF TimeOut
<1> QED BY <1>4, <1>7, <1>8, <1>9

-----------------------------------------------------------------------------
(* What the programs keep                                                  *)

\* A task that is being executed stays so while others move.
LEMMA RunningStays ==
  ASSUME PoolInv, NEW u \in Workers, pc[u] = "run",
         \/ MainStep
         \/ \E w \in Workers : w # u /\ (WorkerLoop(w) \/ Execute(w))
         \/ \E t \in Threads : SpuriousWake(t)
  PROVE  pc'[u] = "run"
<1>1. PoolTypes /\ u \in Threads /\ u # Main /\ pc[Main] # "start"
  BY ThreadPoolAssumption DEF PoolInv, Threads, Phases
<1>2. ASSUME NEW t \in Threads, t # u, NEW label \in MainLabels \cup WorkerLabels,
             \/ Goto(t, label)
             \/ pc[t] # "asleep" /\ (NotifyAll(t, label) \/ NotifyOne(t, label))
      PROVE  pc'[u] = "run"
  <2>1. Moves(t, label)
    BY <1>1, <1>2, GotoMoves, NotifyAllMoves, NotifyOneMoves
  <2> QED BY <1>1, <1>2, <2>1 DEF Moves
<1>3. CASE MainStep
  <2>1. Main \in Threads /\ Main # u
        /\ \A l \in {"exec", "wait", "asleep", "stop", "join", "done"} :
             l \in MainLabels \cup WorkerLabels
    BY <1>1 DEF Threads, MainLabels
  <2>2. CASE Exec \/ Stop
    BY <1>2, <2>1, <2>2 DEF Exec, Stop
  <2>3. CASE AllSubmitted \/ WaitTimesOut \/ Join
    BY <1>2, <2>1, <2>3 DEF AllSubmitted, WaitTimesOut, Join
  <2>4. CASE WaitForAllDone
    <3>1. \E label \in {"stop", "asleep"} : Goto(Main, label)
      BY <2>4 DEF WaitForAllDone
    <3> QED BY <1>2, <2>1, <3>1
  <2> QED BY <1>1, <1>3, <2>2, <2>3, <2>4 DEF MainStep, Start
<1>4. ASSUME NEW w \in Workers, w # u, WorkerLoop(w) \/ Execute(w)
      PROVE  pc'[u] = "run"
  <2>1. w \in Threads
        /\ \A l \in {"exited", "get", "loop", "begin", "asleep", "run", "end", "notify"} :
             l \in MainLabels \cup WorkerLabels
    BY DEF Threads, WorkerLabels
  <2>2. CASE NotifyWaiter(w)
    BY <1>2, <1>4, <2>1, <2>2 DEF NotifyWaiter
  <2>3. CASE Loop(w)
    <3>1. \E label \in {"exited", "get"} : Goto(w, label)
      BY <2>3 DEF Loop
    <3> QED BY <1>2, <1>4, <2>1, <3>1
  <2>4. CASE GetStopped(w) \/ GetTask(w) \/ GetSleeps(w) \/ Begin(w)
    BY <1>2, <1>4, <2>1, <2>4 DEF GetStopped, GetTask, GetSleeps, Begin
  <2>5. CASE Expire(w) \/ End(w) \/ Execute(w)
    BY <1>2, <1>4, <2>1, <2>5 DEF Expire, End, Execute
  <2> QED BY <1>4, <2>2, <2>3, <2>4, <2>5 DEF WorkerLoop
<1>5. ASSUME NEW t \in Threads, SpuriousWake(t)
      PROVE  pc'[u] = "run"
  <2>1. t # u /\ Goto(t, Awake(t))
    BY <1>5 DEF SpuriousWake
  <2>2. Awake(t) \in MainLabels \cup WorkerLabels
    BY AwakeLabels DEF Threads
  <2> QED BY <1>2, <2>1, <2>2
<1> QED BY <1>3, <1>4, <1>5

\* Before the threads run there is nothing but the setup.
LEMMA EarlyOn ==
  ASSUME PoolInv, JobTypes, JobPhases, setup # "threads"
  PROVE  /\ pc[Main] = "start"
         /\ \A w \in Workers : pc[w] = "unborn" /\ job[w] = "idle"
         /\ \A w \in Workers : ~WorkerLoop(w) /\ ~Execute(w) /\ ~InTask(w)
         /\ \A t \in Threads : ~SpuriousWake(t)
<1>1. /\ pc[Main] = "start"
      /\ \A w \in Workers : pc[w] = "unborn"
  BY DEF PoolInv, Phases, JobPhases
<1>2. \A w \in Workers : job[w] = "idle"
  BY <1>1 DEF JobPhases
<1>3. \A w \in Workers : ~WorkerLoop(w) /\ ~Execute(w) /\ ~InTask(w)
  BY <1>1 DEF WorkerLoop, Loop, GetStopped, GetTask, GetSleeps, Begin, Expire, End,
     NotifyWaiter, Execute, InTask
<1>4. \A t \in Threads : ~SpuriousWake(t)
  BY <1>1 DEF SpuriousWake, Threads
<1> QED BY <1>1, <1>2, <1>3, <1>4

\* The pool moves and the connections do not.
LEMMA PoolMoveKeeps ==
  ASSUME PoolInv, WorkInv, UNCHANGED <<connVars, program, setup>>,
         \/ setup = "threads" /\ MainStep /\ UNCHANGED job
         \/ \E w \in Workers : job[w] = "idle" /\ WorkerLoop(w) /\ UNCHANGED job
         \/ \E t \in Threads : SpuriousWake(t) /\ UNCHANGED job
         \/ \E w \in Workers : TaskReturns(w)
  PROVE  WorkInv'
<1>1. setup = "threads"
  BY EarlyOn DEF WorkInv, TaskReturns
<1>2. /\ job' \in [Workers -> {"idle", "get", "work", "delete", "finished"}]
      /\ \A w \in Workers :
           job'[w] = job[w] \/ (job[w] = "finished" /\ job'[w] = "idle")
  BY DEF TaskReturns, WorkInv, JobTypes
<1>3. \A w \in Workers : job'[w] # "idle" => pc'[w] = "run"
  <2> SUFFICES ASSUME NEW u \in Workers, job'[u] # "idle" PROVE pc'[u] = "run"
    OBVIOUS
  <2>1. pc[u] = "run" /\ job[u] # "idle" /\ job'[u] = job[u]
    BY <1>2 DEF WorkInv, JobPhases
  <2>2. ASSUME NEW w \in Workers, TaskReturns(w) PROVE pc'[u] = "run"
    <3>1. w # u /\ Execute(w)
      BY <2>1, <2>2 DEF TaskReturns, WorkInv, JobTypes
    <3> QED BY <2>1, <3>1, RunningStays
  <2> QED BY <2>1, <2>2, RunningStays
<1>4. JobTypes' /\ JobPhases'
  BY <1>1, <1>2, <1>3 DEF WorkInv, JobTypes, JobPhases
<1>5. OwnPools'
  BY <1>2 DEF WorkInv, OwnPools, connVars
<1>6. \A t \in Users : Inside(t) => Inside(t)'
  BY <1>2, PooledWorkAssumption DEF Inside, Threads
<1>7. ConnTypes' /\ ConnInv'
  BY <1>6, ConnFrame DEF WorkInv
<1> QED BY <1>4, <1>5, <1>7 DEF WorkInv

\* What calls of a pool do to the connections that exist.
LEMMA GetTouches ==
  ASSUME ConnTypes, NEW t \in Users, NEW timed, GetDBConn(t, Home(t), timed)
  PROVE  /\ \A q \in Pools : q # Home(t) => live'[q] = live[q]
         /\ max_conn_cnt' = max_conn_cnt
<1>1. CASE Grow(t, Home(t))
  BY <1>1 DEF Grow, GrowCounted, ConnTypes
<1> QED BY <1>1 DEF GetDBConn, Grant, GrowFails, Refuse, Sleep

LEMMA OthersTouchNothing ==
  ASSUME NEW t, NEW p, NEW c,
         WakeUp(t) \/ TimeOut(t) \/ ConnSpuriousWake(t) \/ RelDBConn(p, c)
  PROVE  live' = live /\ max_conn_cnt' = max_conn_cnt
<1>1. CASE WakeUp(t) \/ TimeOut(t)
  BY <1>1 DEF WakeUp, TimeOut, Grant, Refuse
<1>2. CASE ConnSpuriousWake(t) \/ RelDBConn(p, c)
  BY <1>2 DEF ConnSpuriousWake, RelDBConn
<1> QED BY <1>1, <1>2

LEMMA SetupKeeps ==
  ASSUME PoolInv, WorkInv, SetupCreate \/ SetupGet \/ SetupFails \/ SetupRelease
  PROVE  WorkInv'
<1>1. /\ setup \in {"create", "get", "ddl"} /\ setup # "threads"
      /\ UNCHANGED <<poolVars, program, job>>
      /\ setup' \in {"get", "ddl", "threads", "failed"}
  BY DEF SetupCreate, SetupGet, SetupFails, SetupRelease
<1>2. /\ pc[Main] = "start" /\ pc' = pc
      /\ \A w \in Workers : job[w] = "idle"
  BY <1>1, EarlyOn DEF WorkInv, poolVars
<1>3. JobTypes'
  BY <1>1 DEF WorkInv, JobTypes
<1>4. JobPhases'
  BY <1>1, <1>2 DEF JobPhases
<1>5. /\ Main \in Users /\ Home(Main) = Shared /\ Shared \in Pools
      /\ \A w \in Workers : w # Shared /\ w # Main /\ w \in Pools
      /\ \A t \in Users : t # Main => t \in Workers
  BY ThreadPoolAssumption, PooledWorkAssumption DEF Threads, Home
<1>6. \A t \in Users : t # Main => ~Inside(t) /\ ~Inside(t)'
  BY <1>1, <1>2, <1>5 DEF Inside
<1>7. CASE SetupCreate
  <2>1. PICK max \in MaxConns : CreatePool(Shared, max)
    BY <1>7 DEF SetupCreate
  <2>2. setup = "create" /\ setup' = "get"
    BY <1>7 DEF SetupCreate
  <2>3. ~Inside(Main) /\ ~Inside(Main)'
    BY <2>2 DEF Inside
  <2>4. live[Shared] = {} /\ max \in Nat
    BY <2>2, PooledWorkAssumption DEF WorkInv, JobPhases
  <2>5. /\ ConnTypes' /\ ConnInv'
        /\ \A q \in Pools : q # Shared => live'[q] = live[q]
        /\ max_conn_cnt' = [max_conn_cnt EXCEPT ![Shared] = max]
    <3>1. \A t \in Users : ~Inside(t) /\ (Inside(t)' <=> Inside(t))
      BY <1>6, <2>3
    <3> QED BY <1>1, <1>5, <2>1, <2>4, <3>1, CreateKeeps DEF WorkInv
  <2>6. OwnPools'
    <3>1. \A w \in Workers : live'[w] = live[w] /\ max_conn_cnt'[w] = max_conn_cnt[w]
      BY <1>5, <2>5 DEF WorkInv, ConnTypes
    <3> QED BY <1>1, <3>1 DEF WorkInv, OwnPools
  <2> QED BY <1>3, <1>4, <2>5, <2>6 DEF WorkInv
<1>8. CASE SetupGet
  <2>1. GetDBConn(Main, Shared, FALSE) /\ setup = "get" /\ setup' = "ddl"
    BY <1>8 DEF SetupGet
  <2>2. Entering(Main)
    BY <1>1, <1>6, <2>1 DEF Entering, Inside
  <2>3. PICK timed \in BOOLEAN : timed = FALSE
    OBVIOUS
  <2>4. GetDBConn(Main, Home(Main), timed)
    BY <1>5, <2>1, <2>3
  <2>5. ConnTypes' /\ ConnInv'
    BY <1>5, <2>2, <2>4, GetKeeps DEF WorkInv
  <2>6. OwnPools'
    <3>1. \A w \in Workers : live'[w] = live[w] /\ max_conn_cnt'[w] = max_conn_cnt[w]
      BY <1>5, <2>4, GetTouches DEF WorkInv
    <3> QED BY <1>1, <3>1 DEF WorkInv, OwnPools
  <2> QED BY <1>3, <1>4, <2>5, <2>6 DEF WorkInv
<1>9. CASE SetupFails
  <2>1. UNCHANGED connVars /\ setup' = "failed"
    BY <1>9 DEF SetupFails
  <2>2. \A t \in Users : Inside(t) => Inside(t)'
    BY <1>6, <2>1 DEF Inside
  <2>3. ConnTypes' /\ ConnInv'
    BY <1>1, <2>1, <2>2, ConnFrame DEF WorkInv
  <2>4. OwnPools'
    BY <1>1, <2>1 DEF WorkInv, OwnPools, connVars
  <2> QED BY <1>3, <1>4, <2>3, <2>4 DEF WorkInv
<1>10. CASE SetupRelease
  <2>1. /\ setup = "ddl" /\ setup' = "threads" /\ use[Main] = Nothing
        /\ RelDBConn(Shared, conn[Main]) /\ conn' = [conn EXCEPT ![Main] = NULL]
    BY <1>10 DEF SetupRelease
  <2>2. Leaving(Main)
    BY <1>1, <1>6, <2>1 DEF Leaving, Inside
  <2>3. ConnTypes' /\ ConnInv'
    BY <1>5, <2>1, <2>2, ReleaseKeeps DEF WorkInv
  <2>4. live' = live /\ max_conn_cnt' = max_conn_cnt
    BY <2>1, OthersTouchNothing
  <2>5. OwnPools'
    BY <1>1, <2>4 DEF WorkInv, OwnPools
  <2> QED BY <1>3, <1>4, <2>3, <2>5 DEF WorkInv
<1> QED BY <1>7, <1>8, <1>9, <1>10

LEMMA TaskKeeps ==
  ASSUME PoolInv, WorkInv, NEW w \in Workers,
         \/ TaskCreates(w) \/ TaskCreateFails(w) \/ TaskGets(w)
         \/ TaskWaits(w) \/ TaskReleases(w) \/ TaskDeletes(w)
  PROVE  WorkInv'
<1>1. /\ UNCHANGED <<poolVars, program, setup>>
      /\ pc[w] = "run" /\ pc' = pc
      /\ setup = "threads"
  <2>1. UNCHANGED <<poolVars, program, setup>>
    BY DEF TaskCreates, TaskCreateFails, TaskGets, TaskWaits, TaskReleases, TaskDeletes
  <2>2. pc[w] = "run"
    BY DEF TaskCreates, TaskCreateFails, TaskGets, TaskWaits, TaskReleases, TaskDeletes,
       InTask, WorkInv, JobPhases
  <2>3. setup = "threads"
    BY <2>2, EarlyOn DEF WorkInv
  <2> QED BY <2>1, <2>2, <2>3 DEF poolVars
<1>2. /\ w \in Users /\ w # Main /\ w \in Pools /\ Home(w) = PoolOf(w)
      /\ \A t \in Users : t # Main => t \in Workers
      /\ program = "no pool" => \A t \in Users : Home(t) = w => t = w
      /\ program # "no pool" => \A v \in Workers : v # Home(w)
      /\ \A v \in Workers : v # w => v # Home(w)
  BY ThreadPoolAssumption, PooledWorkAssumption DEF Threads, Home, PoolOf, WorkInv,
     JobTypes
<1>3. ASSUME NEW label \in {"idle", "get", "work", "delete", "finished"},
             job' = [job EXCEPT ![w] = label]
      PROVE  /\ JobTypes' /\ JobPhases' /\ job'[w] = label
             /\ \A v \in Workers : v # w => job'[v] = job[v]
             /\ \A t \in Users : t # w => (Inside(t)' <=> Inside(t))
             /\ Inside(w)' <=> label = "work"
             /\ Inside(w) <=> job[w] = "work"
  <2>1. /\ JobTypes' /\ job'[w] = label
        /\ \A v \in Workers : v # w => job'[v] = job[v]
    BY <1>1, <1>3 DEF WorkInv, JobTypes
  <2>2. JobPhases'
    BY <1>1, <2>1 DEF WorkInv, JobPhases
  <2> QED BY <1>1, <1>2, <2>1, <2>2 DEF Inside
<1>4. CASE TaskCreates(w)
  <2>1. /\ program = "no pool" /\ job[w] = "idle" /\ CreatePool(w, 1)
        /\ job' = [job EXCEPT ![w] = "get"]
    BY <1>4 DEF TaskCreates
  <2>2. /\ JobTypes' /\ JobPhases' /\ job'[w] = "get"
        /\ \A v \in Workers : v # w => job'[v] = job[v]
        /\ \A t \in Users : Inside(t)' <=> Inside(t)
        /\ ~Inside(w)
    BY <2>1, <1>3
  <2>3. live[w] = {}
    BY <2>1 DEF WorkInv, OwnPools
  <2>4. /\ ConnTypes' /\ ConnInv'
        /\ \A q \in Pools : q # w => live'[q] = live[q]
        /\ max_conn_cnt' = [max_conn_cnt EXCEPT ![w] = 1]
    <3>1. \A t \in Users : Home(t) = w => ~Inside(t)
      BY <1>2, <2>1, <2>2
    <3> QED BY <1>1, <1>2, <2>1, <2>2, <2>3, <3>1, CreateKeeps DEF WorkInv
  <2>5. OwnPools'
    <3>1. max_conn_cnt'[w] = 1
          /\ \A v \in Workers : v # w => max_conn_cnt'[v] = max_conn_cnt[v]
                                         /\ live'[v] = live[v]
      BY <1>2, <2>4, PooledWorkAssumption DEF WorkInv, ConnTypes
    <3>2. program' = "no pool" /\ max_conn_cnt'[w] <= 1
      <4>1. program' = program
        BY <1>1
      <4>2. 1 <= 1
        OBVIOUS
      <4>3. max_conn_cnt'[w] <= 1
        BY <3>1, <4>2
      <4> QED BY <2>1, <4>1, <4>3
    <3>3. \A v \in Workers : v # w =>
            /\ job[v] \in {"get", "delete"} => program = "no pool"
            /\ live[v] # {} => job[v] \in {"get", "work", "delete"}
            /\ max_conn_cnt[v] <= 1
      BY DEF WorkInv, OwnPools
    <3> QED BY <2>2, <3>1, <3>2, <3>3 DEF OwnPools
  <2> QED BY <2>2, <2>4, <2>5 DEF WorkInv
<1>5. CASE TaskCreateFails(w)
  <2>1. /\ job[w] = "idle" /\ job' = [job EXCEPT ![w] = "finished"]
        /\ UNCHANGED connVars
    BY <1>5 DEF TaskCreateFails
  <2>2. /\ JobTypes' /\ JobPhases' /\ job'[w] = "finished"
        /\ \A v \in Workers : v # w => job'[v] = job[v]
        /\ \A t \in Users : Inside(t) => Inside(t)'
    BY <2>1, <1>3
  <2>3. ConnTypes' /\ ConnInv'
    BY <1>1, <2>1, <2>2, ConnFrame DEF WorkInv
  <2>4. OwnPools'
    BY <1>1, <2>1, <2>2 DEF WorkInv, OwnPools, connVars
  <2> QED BY <2>2, <2>3, <2>4 DEF WorkInv
<1>6. CASE TaskGets(w)
  <2>1. /\ job[w] = IF program = "use pool" THEN "idle" ELSE "get"
        /\ GetDBConn(w, PoolOf(w), program = "use pool")
        /\ job' = [job EXCEPT ![w] = "work"]
    BY <1>6 DEF TaskGets
  <2>2. /\ JobTypes' /\ JobPhases' /\ job'[w] = "work"
        /\ \A v \in Workers : v # w => job'[v] = job[v]
        /\ \A t \in Users : t # w => (Inside(t)' <=> Inside(t))
        /\ Inside(w)' /\ ~Inside(w)
    BY <2>1, <1>3
  <2>3. Entering(w)
    BY <1>1, <2>2 DEF Entering
  <2>4. PICK timed \in BOOLEAN : timed = (program = "use pool")
    OBVIOUS
  <2>5. GetDBConn(w, Home(w), timed)
    BY <1>2, <2>1, <2>4
  <2>6. ConnTypes' /\ ConnInv'
    BY <1>2, <2>3, <2>5, GetKeeps DEF WorkInv
  <2>7. OwnPools'
    <3>1. /\ \A v \in Workers : v # w => live'[v] = live[v]
          /\ program # "no pool" => live'[w] = live[w]
          /\ max_conn_cnt' = max_conn_cnt
      BY <1>2, <2>5, GetTouches, PooledWorkAssumption DEF WorkInv
    <3> QED BY <1>1, <2>1, <2>2, <3>1 DEF WorkInv, OwnPools
  <2> QED BY <2>2, <2>6, <2>7 DEF WorkInv
<1>7. CASE TaskWaits(w)
  <2>1. /\ WakeUp(w) \/ TimeOut(w)
        /\ UNCHANGED <<program, setup, job>>
    BY <1>7 DEF TaskWaits
  <2>2. \A t \in Users : Inside(t)' <=> Inside(t)
    BY <2>1 DEF Inside
  <2>3. ConnTypes' /\ ConnInv'
    BY <1>2, <2>1, <2>2, WaitingKeeps DEF WorkInv
  <2>4. live' = live /\ max_conn_cnt' = max_conn_cnt
    BY <2>1, OthersTouchNothing
  <2>5. JobTypes' /\ JobPhases' /\ OwnPools'
    BY <1>1, <2>1, <2>4 DEF WorkInv, JobTypes, JobPhases, OwnPools
  <2> QED BY <2>3, <2>5 DEF WorkInv
<1>8. CASE TaskReleases(w)
  <2>1. /\ job[w] = "work" /\ use[w] = Nothing
        /\ RelDBConn(Home(w), conn[w]) /\ conn' = [conn EXCEPT ![w] = NULL]
    BY <1>2, <1>8 DEF TaskReleases
  <2>2. PICK label \in {"delete", "finished"} :
          /\ job' = [job EXCEPT ![w] = label]
          /\ program = "use pool" <=> label = "finished"
    BY <1>8 DEF TaskReleases
  <2>3. /\ JobTypes' /\ JobPhases' /\ job'[w] = label
        /\ \A v \in Workers : v # w => job'[v] = job[v]
        /\ \A t \in Users : t # w => (Inside(t)' <=> Inside(t))
        /\ ~Inside(w)' /\ Inside(w)
    BY <2>1, <2>2, <1>3
  <2>4. Leaving(w)
    BY <1>1, <2>1, <2>3 DEF Leaving
  <2>5. ConnTypes' /\ ConnInv'
    BY <1>2, <2>1, <2>4, ReleaseKeeps DEF WorkInv
  <2>6. live' = live /\ max_conn_cnt' = max_conn_cnt
    BY <2>1, OthersTouchNothing
  <2>7. OwnPools'
    BY <1>1, <2>2, <2>3, <2>6 DEF WorkInv, OwnPools, JobTypes
  <2> QED BY <2>3, <2>5, <2>7 DEF WorkInv
<1>9. CASE TaskDeletes(w)
  <2>1. /\ job[w] = "delete" /\ DestroyPool(w) /\ UNCHANGED conn
        /\ job' = [job EXCEPT ![w] = "finished"]
    BY <1>9 DEF TaskDeletes
  <2>2. /\ JobTypes' /\ JobPhases' /\ job'[w] = "finished"
        /\ \A v \in Workers : v # w => job'[v] = job[v]
        /\ \A t \in Users : Inside(t)' <=> Inside(t)
        /\ ~Inside(w)
    BY <2>1, <1>3
  <2>3. program = "no pool" /\ max_conn_cnt[w] <= 1
    BY <2>1 DEF WorkInv, OwnPools
  <2>4. /\ ConnTypes' /\ ConnInv'
        /\ \A q \in Pools : live'[q] = IF q = w THEN {} ELSE live[q]
    <3>1. \A t \in Users : Home(t) = w => ~Inside(t)
      BY <1>2, <2>2, <2>3
    <3> QED BY <1>1, <1>2, <2>1, <2>2, <2>3, <3>1, DestroyKeeps DEF WorkInv
  <2>5. max_conn_cnt' = max_conn_cnt
    BY <2>1 DEF DestroyPool
  <2>6. OwnPools'
    BY <1>1, <2>2, <2>4, <2>5, PooledWorkAssumption DEF WorkInv, OwnPools
  <2> QED BY <2>2, <2>4, <2>6 DEF WorkInv
<1> QED BY <1>4, <1>5, <1>6, <1>7, <1>8, <1>9

LEMMA WorkInitInv == WorkInit => WorkInv
<1> SUFFICES ASSUME WorkInit PROVE WorkInv
  OBVIOUS
<1>1. /\ free_list = [p \in Pools |-> <<>>] /\ used_list = [p \in Pools |-> {}]
      /\ cur_conn_cnt = [p \in Pools |-> 0] /\ max_conn_cnt = [p \in Pools |-> 0]
      /\ live = [p \in Pools |-> {}]
      /\ use = [t \in Users |-> Nothing] /\ conn = [t \in Users |-> NULL]
      /\ program \in Programs /\ setup = "create" /\ job = [w \in Workers |-> "idle"]
  BY DEF WorkInit, CDBPoolInit
<1>2. pc[Main] = "start"
  BY DEF WorkInit, ThreadPoolInit, Threads
<1>3. ConnTypes
  BY <1>1, NothingIsUse DEF ConnTypes
<1>4. JobTypes
  BY <1>1, PooledWorkAssumption DEF JobTypes
<1>5. JobPhases
  BY <1>1, <1>2, PooledWorkAssumption DEF JobPhases
<1>6. OwnPools
  <2>1. \A w \in Workers : live[w] = {} /\ max_conn_cnt[w] = 0 /\ job[w] = "idle"
    BY <1>1, PooledWorkAssumption
  <2>2. 0 <= 1
    OBVIOUS
  <2> QED BY <2>1, <2>2 DEF OwnPools
<1>7. Callers /\ Held
  BY <1>1 DEF Callers, Held
<1>8. Lists
  BY <1>1 DEF Lists, IsInjective, ToSet
<1>9. Counts
  BY <1>1 DEF Counts, Counted
<1>10. NoStrandedWaiter
  BY <1>1 DEF NoStrandedWaiter, Sleepers, Nothing
<1> QED BY <1>3, <1>4, <1>5, <1>6, <1>7, <1>8, <1>9, <1>10 DEF WorkInv, ConnInv

LEMMA WorkStepKeeps ==
  ASSUME PoolInv, WorkInv, [WorkNext]_workVars
  PROVE  WorkInv'
<1>1. CASE MainNext
  <2>1. CASE MainRuns
    BY <2>1, PoolMoveKeeps DEF MainRuns
  <2> QED BY <1>1, <2>1, SetupKeeps DEF MainNext
<1>2. ASSUME NEW w \in Workers, WorkerNext(w) PROVE WorkInv'
  <2>1. CASE WorkerRuns(w)
    BY <2>1, PoolMoveKeeps DEF WorkerRuns
  <2>2. CASE TaskReturns(w)
    BY <2>2, PoolMoveKeeps DEF TaskReturns
  <2> QED BY <1>2, <2>1, <2>2, TaskKeeps DEF WorkerNext
<1>3. ASSUME NEW t \in Threads, SpuriousWake(t),
             UNCHANGED <<connVars, program, setup, job>>
      PROVE  WorkInv'
  BY <1>3, PoolMoveKeeps
<1>4. ASSUME NEW t \in Users, ConnSpuriousWake(t),
             UNCHANGED <<poolVars, program, setup, job>>
      PROVE  WorkInv'
  <2>1. \A u \in Users : Inside(u)' <=> Inside(u)
    BY <1>4 DEF Inside
  <2>2. ConnTypes' /\ ConnInv'
    BY <1>4, <2>1, WaitingKeeps DEF WorkInv
  <2>3. live' = live /\ max_conn_cnt' = max_conn_cnt
    BY <1>4, OthersTouchNothing
  <2>4. JobTypes' /\ JobPhases' /\ OwnPools'
    BY <1>4, <2>3 DEF WorkInv, JobTypes, JobPhases, OwnPools, poolVars
  <2> QED BY <2>2, <2>4 DEF WorkInv
<1>5. CASE UNCHANGED workVars
  <2>1. UNCHANGED <<connVars, poolVars, program, setup, job>>
    BY <1>5 DEF workVars
  <2>2. \A u \in Users : Inside(u) => Inside(u)'
    BY <2>1 DEF Inside
  <2>3. ConnTypes' /\ ConnInv'
    BY <2>1, <2>2, ConnFrame DEF WorkInv
  <2>4. JobTypes' /\ JobPhases' /\ OwnPools'
    BY <2>1 DEF WorkInv, JobTypes, JobPhases, OwnPools, poolVars, connVars
  <2> QED BY <2>3, <2>4 DEF WorkInv
<1> QED BY <1>1, <1>2, <1>3, <1>4, <1>5 DEF WorkNext, SpuriousWakes

\* The conditions under which GetDBConn and RelDBConn (DBPool.cpp:387-468) are
\* called by the two programs, and what the lists and counters then hold.
THEOREM WorkInvariant == WorkSpec => [](PoolInv /\ WorkInv)
<1>1. WorkSpec => []PoolInv
  BY WorkUsesPool, PoolInvariant, PTL
<1>2. PoolInv /\ WorkInv /\ [WorkNext]_workVars => WorkInv'
  BY WorkStepKeeps
<1> QED BY <1>1, <1>2, WorkInitInv, PTL DEF WorkSpec

-----------------------------------------------------------------------------
(* What it is good for                                                     *)

LEMMA ListsAccountForConnections ==
  ASSUME WorkInv
  PROVE  ConnectionsAccounted
<1>1. ASSUME NEW p \in Pools, NEW t \in Users, conn[t] # NULL
      PROVE  conn[t] \notin ToSet(free_list[p])
  <2>1. conn[t] \in used_list[Home(t)] /\ Home(t) \in Pools
    BY <1>1, HomeIsPool DEF WorkInv, ConnInv, Held
  <2>2. CASE p = Home(t)
    BY <2>1, <2>2 DEF WorkInv, ConnInv, Lists
  <2>3. CASE p # Home(t)
    <3>1. conn[t] \in live[Home(t)]
      BY <1>1, <2>1 DEF WorkInv, ConnInv, Lists
    <3>2. conn[t] \notin live[p]
      BY <2>1, <2>3, <3>1 DEF WorkInv, ConnInv, Lists
    <3> QED BY <1>1, <3>2 DEF WorkInv, ConnInv, Lists
  <2> QED BY <2>2, <2>3
<1>2. ExclusiveUse
  BY <1>1 DEF ExclusiveUse, WorkInv, ConnInv, Held, Lists
<1>3. CountMatches
  <2> SUFFICES ASSUME NEW p \in Pools, live[p] # {}
               PROVE  /\ live[p] = (ToSet(free_list[p]) \cup used_list[p]) \ {NULL}
                      /\ ToSet(free_list[p]) \cap used_list[p] = {}
                      /\ cur_conn_cnt[p] = Cardinality(live[p])
                      /\ cur_conn_cnt[p] <= Limit(p)
    BY DEF CountMatches, Limit
  <2>1. cur_conn_cnt[p] = Cardinality(live[p]) /\ cur_conn_cnt[p] <= Limit(p)
    BY DEF WorkInv, ConnInv, Counts, Counted
  <2> QED BY <2>1 DEF WorkInv, ConnInv, Lists
<1> QED BY <1>2, <1>3 DEF ConnectionsAccounted

LEMMA NothingKept ==
  ASSUME PoolInv, WorkInv
  PROVE  AllConnectionsBack
<1> SUFFICES ASSUME pc[Main] = "done"
             PROVE  used_list[Shared] = {} /\ \A w \in Workers : live[w] = {}
  BY DEF AllConnectionsBack
<1>1. setup = "threads"
  BY DEF WorkInv, JobPhases
<1>2. \A w \in Workers : job[w] = "idle"
  BY DEF PoolInv, Phases, WorkInv, JobPhases
<1>3. \A t \in Users : ~Inside(t)
  BY <1>1, <1>2, PooledWorkAssumption DEF Inside, Threads
<1>4. used_list[Shared] = {}
  BY <1>3, PooledWorkAssumption DEF WorkInv, ConnInv, Held
<1>5. \A w \in Workers : live[w] = {}
  BY <1>2 DEF WorkInv, OwnPools
<1> QED BY <1>4, <1>5

\* No connection is with two threads or in the free list while it is used, and
\* the counter is the number of connections that exist and keeps to the maximum
\* (GetDBConn and RelDBConn, DBPool.cpp:387-468), whatever the threads do.
THEOREM ConnectionsAreAccounted == WorkSpec => []ConnectionsAccounted
  BY WorkInvariant, ListsAccountForConnections, PTL

\* notify_one of RelDBConn (DBPool.cpp:463) is enough: nobody sleeps beside a free
\* connection that no notified thread is coming for, though a thread that did
\* not sleep may take it first.
THEOREM NoWaiterIsStranded == WorkSpec => []NoStrandedWaiter
  BY WorkInvariant, PTL DEF WorkInv, ConnInv

\* When the program is done its threads have ended, its tasks are done with, every
\* connection is back and the pools of the tasks are gone (test_dbpool.cpp:65,
\* 104-105 and 141).
THEOREM EverythingIsGivenBack == WorkSpec => []EverythingGivenBack
  BY WorkInvariant, StopIsFinal, NothingKept, PTL DEF EverythingGivenBack
===============================================================================
