---------------------------- MODULE NtyServerProofs ----------------------------
(***************************************************************************)
(* Proofs about the echo server on its coroutine scheduler: no coroutine is *)
(* lost or started twice, every connection keeps its reader, and no byte is *)
(* lost, for every number of ports, clients and fds and all sizes.          *)
(***************************************************************************)
EXTENDS NtyServer, FiniteSetTheorems, WellFoundedInduction, TLAPS

-----------------------------------------------------------------------------
(* The inductive invariant                                                 *)

Places ==
  {"begin", "accept", "create", "loop", "recv", "send", "resend"}

SchedTypes ==
  /\ ready \in Seq(Coroutines)
  /\ waiting \in [AnyFd -> Coroutines \cup {NULL}]
  /\ epoll \in SUBSET Fds
  /\ events \in SUBSET (Fds \X BOOLEAN)
  /\ phase \in {"check", "ready", "poll", "events", "run", "abort", "killed", "returned"}
  /\ back \in {"ready", "poll", "events"}
  /\ live \in SUBSET Coroutines
  /\ fd \in [Coroutines -> AnyFd]
  /\ pc \in [Coroutines -> Places]

ServerTypes ==
  /\ cli_fd \in [Servers -> ConnFds \cup {-1}]
  /\ owner \in [Readers -> Servers \cup {NULL}]
  /\ meant \in [Readers -> ConnFds \cup {-1}]
  /\ unsent \in [Readers -> Nat]
  /\ some \in [Readers -> BOOLEAN]

KernelTypes ==
  /\ file \in [ConnFds -> Clients \cup {NULL}]
  /\ peer \in [Clients -> {"new", "backlog", "open", "shut", "reset", "gone"}]
  /\ err \in [Clients -> BOOLEAN]
  /\ input \in [Clients -> Nat]
  /\ output \in [Clients -> Nat]
  /\ sent \in [Clients -> Nat]
  /\ got \in [Clients -> Nat]
  /\ fdlimit \in FdLimits

IsReady(co) == \E k \in DOMAIN ready : ready[k] = co

\* The waiting tree holds coroutines under their own fds; the ready ones are
\* new; whoever exists is ready, waits or runs, and only one of these.
Located ==
  /\ \A j, k \in DOMAIN ready : ready[j] = ready[k] => j = k
  /\ \A co \in Coroutines : IsReady(co) =>
       co \in live /\ pc[co] = "begin" /\ ~Runs(co)
  /\ \A f \in AnyFd : waiting[f] # NULL =>
       waiting[f] \in live /\ fd[waiting[f]] = f /\ pc[waiting[f]] # "begin"
  /\ \A co \in live : IsReady(co) \/ Suspended(co) \/ Runs(co)
  /\ phase = "run" => current \in live

\* The events that are left are for others than the coroutine that runs, and it
\* was resumed for an fd that exists.
Eventful ==
  /\ epoll = {f \in Fds : waiting[f] # NULL}
  /\ EventsHaveWaiters
  /\ \A e, g \in events : e[1] = g[1] => e = g
  /\ phase = "run" => \A e \in events : e[1] # fd[current]
  /\ phase = "run" /\ pc[current] # "begin" => fd[current] \in Fds

\* Which fds the coroutines of the two kinds have.
OwnFds ==
  /\ \A s \in Servers : pc[s] \in {"begin", "accept", "create", "loop"}
  /\ \A s \in Servers : fd[s] = IF pc[s] = "begin" THEN -1 ELSE ListenFd[s]
  /\ \A r \in Readers : pc[r] \in {"begin", "recv", "send", "resend"}
  /\ \A r \in Readers \cap live : fd[r] = IF pc[r] = "begin" THEN -1 ELSE meant[r]

\* A reader that has not begun finds its fd in its server's variable: the
\* server is just about to wait, or waits and is not resumed before.
Arguments ==
  \A r \in Readers \cap live : pc[r] = "begin" =>
    /\ owner[r] \in Servers /\ meant[r] = cli_fd[owner[r]]
    /\ pc[owner[r]] # "begin"
    /\ Runs(owner[r]) => pc[owner[r]] = "loop"
    /\ ~Runs(owner[r]) => \A e \in events : e[1] # ListenFd[owner[r]]

\* Who looks after the connection f: its reader, or the server that accepted it.
Keepers(f) ==
  {r \in Readers \cap live : meant[r] = f}
    \cup {s \in Servers : pc[s] = "create" /\ cli_fd[s] = f}

Kept ==
  /\ \A f \in ConnFds : file[f] # NULL => \E k \in Keepers(f) : Keepers(f) = {k}
  /\ \A f \in ConnFds : file[f] = NULL => Keepers(f) = {}

Files ==
  /\ \A f \in ConnFds : file[f] # NULL => peer[file[f]] \in {"open", "shut", "reset"}
  /\ \A f, g \in ConnFds : f # g /\ file[f] # NULL => file[f] # file[g]

Transit(c) == input[c] + output[c] + got[c]

\* What a reader has still to send is its client's; nobody else holds bytes.
Echoes ==
  /\ \A r \in Readers : unsent[r] # 0 => r \in live /\ pc[r] \in {"send", "resend"}
  /\ \A r \in Readers \cap live : meant[r] \in ConnFds /\ peer[file[meant[r]]] # "reset" =>
       sent[file[meant[r]]] = Transit(file[meant[r]]) + unsent[r]
  /\ \A s \in Servers : pc[s] = "create" /\ cli_fd[s] \in ConnFds
                          /\ peer[file[cli_fd[s]]] # "reset" =>
       sent[file[cli_fd[s]]] = Transit(file[cli_fd[s]])
  /\ \A c \in Clients : peer[c] # "reset" /\ (\A f \in ConnFds : file[f] # c) =>
       sent[c] = Transit(c)

ServerInv ==
  /\ SchedTypes /\ ServerTypes /\ KernelTypes
  /\ ~Down => Located /\ Eventful /\ Arguments
  /\ OwnFds /\ Kept /\ Files /\ Echoes

-----------------------------------------------------------------------------
(* The ready queue                                                         *)

LEMMA TailOfQueue ==
  ASSUME NEW S, NEW q \in Seq(S), q # <<>>
  PROVE  /\ Tail(q) \in Seq(S) /\ Head(q) = q[1] /\ 1 \in DOMAIN q /\ Head(q) \in S
         /\ \A k \in DOMAIN Tail(q) : Tail(q)[k] = q[k + 1] /\ k + 1 \in DOMAIN q /\ k + 1 # 1
         /\ \A k \in DOMAIN q : k # 1 => k - 1 \in DOMAIN Tail(q) /\ Tail(q)[k - 1] = q[k]
         /\ DOMAIN q \subseteq Nat /\ DOMAIN Tail(q) \subseteq Nat
  OBVIOUS

LEMMA AppendedQueue ==
  ASSUME NEW S, NEW q \in Seq(S), NEW x \in S
  PROVE  /\ Append(q, x) \in Seq(S)
         /\ DOMAIN Append(q, x) = DOMAIN q \cup {Len(q) + 1}
         /\ \A k \in DOMAIN q : Append(q, x)[k] = q[k] /\ k # Len(q) + 1
         /\ Append(q, x)[Len(q) + 1] = x
  OBVIOUS

-----------------------------------------------------------------------------
(* Facts                                                                   *)

LEMMA FdFacts ==
  /\ -1 \notin Fds /\ -1 \in AnyFd /\ Fds \subseteq AnyFd /\ ConnFds \subseteq Fds
  /\ \A s \in Servers : s \in Coroutines /\ s \notin Readers /\ ListenFd[s] \in Fds
                        /\ ListenFd[s] \notin ConnFds /\ ListenFd[s] # -1
  /\ \A s, t \in Servers : ListenFd[s] = ListenFd[t] => s = t
  /\ Readers \subseteq Coroutines /\ \A co \in Coroutines : co \in Servers \/ co \in Readers
  /\ NULL \notin Coroutines /\ NULL \notin Clients
<1>1. -1 \notin Fds /\ -1 \in AnyFd /\ Fds \subseteq AnyFd /\ ConnFds \subseteq Fds
  BY SchedulerAssumption DEF AnyFd, ConnFds
<1>2. \A s \in Servers : s \in Coroutines /\ s \notin Readers /\ ListenFd[s] \in Fds
                         /\ ListenFd[s] \notin ConnFds /\ ListenFd[s] # -1
  BY <1>1, ServerAssumption DEF ConnFds, Readers
<1>3. \A s, t \in Servers : ListenFd[s] = ListenFd[t] => s = t
  BY ServerAssumption DEF IsInjective
<1>4. Readers \subseteq Coroutines /\ \A co \in Coroutines : co \in Servers \/ co \in Readers
  BY DEF Readers
<1> QED BY <1>1, <1>2, <1>3, <1>4, SchedulerAssumption, ServerAssumption

\* The coroutine that runs is nowhere else.
LEMMA RunningFacts ==
  ASSUME ServerInv, NEW co \in Coroutines, Runs(co), ~Suspended(co)
  PROVE  /\ ~Down /\ Located /\ Eventful /\ Arguments
         /\ phase = "run" /\ current = co /\ co \in live /\ ~IsReady(co)
         /\ \A f \in AnyFd : waiting[f] # co
         /\ fd[co] \in AnyFd
<1>1. ~Down /\ phase = "run" /\ current = co
  BY DEF Runs, Down
<1>2. Located /\ Eventful /\ Arguments
  BY <1>1 DEF ServerInv
<1>3. \A f \in AnyFd : waiting[f] # co
  BY <1>2, FdFacts DEF Located, Suspended
<1> QED BY <1>1, <1>2, <1>3 DEF Located, ServerInv, SchedTypes

\* Nobody waits for the fd of the coroutine that runs.
LEMMA OwnFdIsFree ==
  ASSUME ServerInv, NEW co \in Coroutines, Runs(co), ~Suspended(co),
         fd[co] \in Fds
  PROVE  waiting[fd[co]] = NULL
<1> SUFFICES ASSUME waiting[fd[co]] # NULL PROVE FALSE
  OBVIOUS
<1>1. PICK o : o = waiting[fd[co]]
  OBVIOUS
<1>2. /\ o \in live /\ o \in Coroutines /\ fd[o] = fd[co] /\ pc[o] # "begin" /\ o # co
      /\ co \in live
  BY <1>1, RunningFacts, FdFacts DEF Located, ServerInv, SchedTypes
<1>3. fd[co] # -1
  BY FdFacts
<1>4. CASE co \in Servers /\ o \in Servers
  BY <1>2, <1>3, <1>4, FdFacts DEF ServerInv, OwnFds
<1>5. CASE co \in Readers /\ o \in Readers
  <2>1. meant[co] = fd[co] /\ meant[o] = fd[co] /\ fd[co] \in ConnFds
    BY <1>2, <1>3, <1>5 DEF ServerInv, OwnFds, ServerTypes
  <2>2. co \in Keepers(fd[co]) /\ o \in Keepers(fd[co])
    BY <1>2, <1>5, <2>1 DEF Keepers
  <2>3. \E k \in Keepers(fd[co]) : Keepers(fd[co]) = {k}
    BY <2>1, <2>2 DEF ServerInv, Kept
  <2> QED BY <1>2, <2>2, <2>3
<1>6. CASE co \in Servers /\ o \in Readers
  BY <1>2, <1>3, <1>6, FdFacts DEF ServerInv, OwnFds, ServerTypes
<1>7. CASE co \in Readers /\ o \in Servers
  BY <1>2, <1>3, <1>7, FdFacts DEF ServerInv, OwnFds, ServerTypes
<1> QED BY <1>2, <1>4, <1>5, <1>6, <1>7, FdFacts

-----------------------------------------------------------------------------
(* The scheduler's own steps                                               *)

\* Nothing but the scheduler moves: what it does not touch holds on.
LEMMA OthersKeep ==
  ASSUME ServerInv, UNCHANGED <<cli_fd, readerVars, kernelVars, live, fd, pc>>
  PROVE  /\ ServerTypes' /\ KernelTypes'
         /\ OwnFds' /\ Kept' /\ Files' /\ Echoes'
<1>1. ServerTypes' /\ KernelTypes'
  BY DEF ServerInv, ServerTypes, KernelTypes, readerVars, kernelVars
<1>2. OwnFds'
  BY DEF ServerInv, OwnFds, readerVars
<1>3. Kept'
  BY DEF ServerInv, Kept, Keepers, readerVars, kernelVars
<1>4. Files'
  BY DEF ServerInv, Files, kernelVars
<1>5. Echoes'
  BY DEF ServerInv, Echoes, Transit, readerVars, kernelVars
<1> QED BY <1>1, <1>2, <1>3, <1>4, <1>5

\* The loop goes on to its next part.
LEMMA LoopKeeps ==
  ASSUME ServerInv, ~Down, phase # "run",
         UNCHANGED <<cli_fd, readerVars, kernelVars, ready, treeVars, live, fd, pc, back>>,
         phase' \in {"check", "ready", "poll", "events", "returned"},
         \/ events' = events
         \/ /\ \A co \in Coroutines : ~IsReady(co)
            /\ events' \in SUBSET (Fds \X BOOLEAN)
            /\ \A e \in events' : e[1] \in epoll
            /\ \A e, g \in events' : e[1] = g[1] => e = g
  PROVE  ServerInv'
<1>1. /\ SchedTypes /\ Located /\ Eventful /\ Arguments
      /\ UNCHANGED <<cli_fd, readerVars, kernelVars, ready, waiting, epoll, live, fd, pc>>
      /\ \A co \in Coroutines : ~Runs(co) /\ ~Runs(co)'
  BY DEF ServerInv, treeVars, Runs
<1>2. SchedTypes'
  BY <1>1 DEF SchedTypes
<1>3. Located'
  BY <1>1 DEF SchedTypes, Located, IsReady, Suspended
<1>4. Eventful'
  BY <1>1 DEF SchedTypes, Eventful, EventsHaveWaiters
<1>5. Arguments'
  <2>1. CASE events' = events
    BY <1>1, <2>1, FdFacts DEF Arguments, readerVars
  <2>2. CASE \A co \in Coroutines : ~IsReady(co)
    <3> SUFFICES ASSUME NEW r \in Readers \cap live, pc[r] = "begin" PROVE FALSE
      BY <1>1 DEF Arguments
    <3>1. ~IsReady(r) /\ ~Runs(r) /\ r \in Coroutines
      BY <1>1, <2>2, FdFacts
    <3>2. Suspended(r) /\ fd[r] \in AnyFd /\ r # NULL
      BY <1>1, <3>1, FdFacts DEF Located, SchedTypes
    <3> QED BY <1>1, <3>2 DEF Located, Suspended
  <2> QED BY <2>1, <2>2
<1>6. ServerTypes' /\ KernelTypes' /\ OwnFds' /\ Kept' /\ Files' /\ Echoes'
  BY <1>1, OthersKeep
<1> QED BY <1>2, <1>3, <1>4, <1>5, <1>6 DEF ServerInv

LEMMA ResumeReadyKeeps ==
  ASSUME ServerInv, ResumeReady, UNCHANGED <<cli_fd, readerVars, kernelVars>>
  PROVE  ServerInv'
<1>0. PICK co : co = Head(ready)
  OBVIOUS
<1>1. /\ phase = "ready" /\ ready # <<>> /\ ready' = Tail(ready) /\ current' = co
      /\ phase' = "run" /\ back' \in {"ready", "poll"}
      /\ UNCHANGED <<waiting, epoll, events, live, fd>>
  BY <1>0 DEF ResumeReady, Resume, treeVars
<1>2. SchedTypes /\ Located /\ Eventful /\ Arguments
      /\ \A o \in Coroutines : ~Runs(o)
  BY <1>1 DEF ServerInv, Down, Runs
<1>3. /\ ready' \in Seq(Coroutines) /\ co = ready[1] /\ 1 \in DOMAIN ready /\ co \in Coroutines
      /\ \A k \in DOMAIN ready' : ready'[k] = ready[k + 1] /\ k + 1 \in DOMAIN ready /\ k + 1 # 1
      /\ \A k \in DOMAIN ready : k # 1 => k - 1 \in DOMAIN ready' /\ ready'[k - 1] = ready[k]
      /\ DOMAIN ready \subseteq Nat /\ DOMAIN ready' \subseteq Nat
  BY <1>0, <1>1, <1>2, TailOfQueue DEF SchedTypes
<1>4. co \in live /\ pc[co] = "begin" /\ IsReady(co)
  BY <1>2, <1>3 DEF Located, IsReady
<1>5. pc' = pc
  BY <1>0, <1>2, <1>3, <1>4 DEF ResumeReady, Resume, SchedTypes
<1>6. SchedTypes'
  BY <1>1, <1>2, <1>3, <1>5 DEF SchedTypes
<1>7. \A o \in Coroutines : IsReady(o) <=> (IsReady(o)' \/ o = co)
  BY <1>3 DEF IsReady
<1>8. ~IsReady(co)'
  <2> SUFFICES ASSUME NEW k \in DOMAIN ready', ready'[k] = co PROVE FALSE
    BY DEF IsReady
  <2>1. ready[k + 1] = ready[1] /\ k + 1 \in DOMAIN ready /\ k + 1 # 1
    BY <1>3
  <2> QED BY <1>2, <1>3, <2>1 DEF Located
<1>9. \A o \in Coroutines : Runs(o)' <=> o = co
  BY <1>1, <1>3 DEF Runs
<1>10. Located'
  <2>1. \A j, k \in DOMAIN ready' : ready'[j] = ready'[k] => j = k
    <3> SUFFICES ASSUME NEW j \in DOMAIN ready', NEW k \in DOMAIN ready',
                        ready'[j] = ready'[k]
                 PROVE  j = k
      OBVIOUS
    <3>1. ready[j + 1] = ready[k + 1] /\ j + 1 \in DOMAIN ready /\ k + 1 \in DOMAIN ready
      BY <1>3
    <3>2. j + 1 = k + 1
      BY <1>2, <3>1 DEF Located
    <3>3. j \in Nat /\ k \in Nat
      BY <1>3
    <3> QED BY <3>2, <3>3
  <2>2. \A o \in Coroutines : IsReady(o)' =>
          o \in live' /\ pc'[o] = "begin" /\ ~Runs(o)'
    BY <1>1, <1>2, <1>5, <1>7, <1>8, <1>9 DEF Located
  <2>3. \A o \in live : IsReady(o)' \/ Suspended(o)' \/ Runs(o)'
    BY <1>1, <1>2, <1>7, <1>9 DEF Located, Suspended, SchedTypes
  <2> QED BY <1>1, <1>2, <1>4, <1>5, <2>1, <2>2, <2>3 DEF Located
<1>11. Eventful'
  <2>1. fd[co] = -1
    BY <1>3, <1>4, FdFacts DEF ServerInv, OwnFds
  <2>2. \A e \in events : e[1] # fd[co]
    BY <1>2, <2>1, FdFacts DEF SchedTypes
  <2> QED BY <1>1, <1>2, <1>4, <1>5, <2>2 DEF Eventful, EventsHaveWaiters
<1>12. Arguments'
  BY <1>1, <1>2, <1>4, <1>5, <1>9, FdFacts DEF Arguments, readerVars
<1>13. ServerTypes' /\ KernelTypes' /\ OwnFds' /\ Kept' /\ Files' /\ Echoes'
  BY <1>1, <1>5, OthersKeep
<1> QED BY <1>6, <1>10, <1>11, <1>12, <1>13 DEF ServerInv

LEMMA ResumeWaitingKeeps ==
  ASSUME ServerInv, ResumeWaiting, UNCHANGED <<cli_fd, readerVars, kernelVars>>
  PROVE  ServerInv'
<1>1. PICK e \in events :
        /\ waiting[e[1]] # NULL /\ events' = events \ {e}
        /\ Resume(waiting[e[1]],
                  SearchWait(e[1]) \cup (IF e[2] THEN {STATUS_FDEOF} ELSE {}), "events")
  BY DEF ResumeWaiting, TakeEvent
<1>2. PICK co : co = waiting[e[1]]
  OBVIOUS
<1>3. /\ phase = "events" /\ phase' = "run" /\ current' = co /\ back' = "events"
      /\ UNCHANGED <<ready, waiting, epoll, live, fd>>
  BY <1>1, <1>2 DEF ResumeWaiting, Resume, treeVars
<1>4. SchedTypes /\ Located /\ Eventful /\ Arguments
      /\ \A o \in Coroutines : ~Runs(o)
  BY <1>3 DEF ServerInv, Down, Runs
<1>5. /\ e[1] \in Fds /\ co \in Coroutines /\ co \in live /\ fd[co] = e[1]
      /\ pc[co] # "begin"
  BY <1>1, <1>2, <1>4, FdFacts DEF SchedTypes, Located
<1>6. pc' = pc
  <2>1. STATUS_NEW \notin SearchWait(e[1]) \cup (IF e[2] THEN {STATUS_FDEOF} ELSE {})
    BY DEF STATUS_NEW, STATUS_FDEOF, SearchWait
  <2> QED BY <1>1, <1>2, <1>4, <2>1 DEF Resume, SchedTypes
<1>7. SchedTypes'
  BY <1>1, <1>3, <1>4, <1>5, <1>6 DEF SchedTypes
<1>8. \A o \in Coroutines : Runs(o)' <=> o = co
  BY <1>3 DEF Runs
<1>9. ~IsReady(co)
  BY <1>4, <1>5 DEF Located
<1>10. Located'
  <2>1. \A o \in Coroutines : IsReady(o)' <=> IsReady(o)
    BY <1>3 DEF IsReady
  <2>2. \A o \in Coroutines : Suspended(o)' <=> Suspended(o)
    BY <1>3 DEF Suspended
  <2>3. \A o \in live : IsReady(o)' \/ Suspended(o)' \/ Runs(o)'
    BY <1>4, <2>1, <2>2 DEF Located, SchedTypes
  <2> QED BY <1>3, <1>4, <1>5, <1>6, <1>8, <1>9, <2>1, <2>3 DEF Located
<1>11. Eventful'
  <2>1. \A g \in events' : g[1] # fd[co]
    BY <1>1, <1>4, <1>5 DEF Eventful
  <2> QED BY <1>1, <1>3, <1>4, <1>5, <1>6, <2>1 DEF Eventful, EventsHaveWaiters
<1>12. Arguments'
  <2>1. ASSUME NEW r \in Readers \cap live, pc[r] = "begin"
        PROVE  /\ owner[r] \in Servers /\ meant[r] = cli_fd[owner[r]]
               /\ pc[owner[r]] # "begin" /\ owner[r] # co
               /\ \A g \in events' : g[1] # ListenFd[owner[r]]
    <3>1. /\ owner[r] \in Servers /\ meant[r] = cli_fd[owner[r]] /\ pc[owner[r]] # "begin"
          /\ \A g \in events : g[1] # ListenFd[owner[r]]
      BY <1>4, <2>1, FdFacts DEF Arguments
    <3>2. owner[r] # co
      BY <1>1, <1>5, <3>1 DEF ServerInv, OwnFds
    <3> QED BY <1>1, <3>1, <3>2
  <2>2. UNCHANGED <<live, pc, owner, meant, cli_fd>>
    BY <1>3, <1>6 DEF readerVars
  <2>3. \A o \in Servers : o # co => current' # o
    BY <1>3
  <2> QED BY <2>1, <2>2, <2>3 DEF Arguments, Runs
<1>13. ServerTypes' /\ KernelTypes' /\ OwnFds' /\ Kept' /\ Files' /\ Echoes'
  BY <1>3, <1>6, OthersKeep
<1> QED BY <1>7, <1>10, <1>11, <1>12, <1>13 DEF ServerInv

LEMMA AwakeKeeps ==
  ASSUME ServerInv, NEW co \in Coroutines, Awake(co),
         UNCHANGED <<cli_fd, readerVars, kernelVars>>
  PROVE  ServerInv'
<1>1. /\ phase = "run" /\ current = co /\ waiting[fd[co]] = co
      /\ waiting' = [waiting EXCEPT ![fd[co]] = NULL]
      /\ epoll' = epoll \ {fd[co]}
      /\ UNCHANGED <<ready, events, phase, current, back, live, fd, pc>>
  BY DEF Awake, Runs, Suspended, loopVars
<1>2. SchedTypes /\ Located /\ Eventful /\ Arguments /\ co # NULL
  BY <1>1, FdFacts DEF ServerInv, Down
<1>3. /\ fd[co] \in AnyFd
      /\ \A f \in AnyFd : waiting'[f] = IF f = fd[co] THEN NULL ELSE waiting[f]
      /\ waiting' \in [AnyFd -> Coroutines \cup {NULL}]
  BY <1>1, <1>2 DEF SchedTypes
<1>4. SchedTypes'
  BY <1>1, <1>2, <1>3 DEF SchedTypes
<1>5. \A o \in Coroutines : (Runs(o)' <=> Runs(o)) /\ (IsReady(o)' <=> IsReady(o))
  BY <1>1 DEF Runs, IsReady
<1>6. Located'
  <2>1. ASSUME NEW o \in live PROVE IsReady(o)' \/ Suspended(o)' \/ Runs(o)'
    <3>1. CASE o = co
      BY <1>1, <1>5, <3>1 DEF Runs
    <3>2. CASE o # co
      <4>1. fd[o] \in AnyFd /\ o \in Coroutines
        BY <1>2 DEF SchedTypes
      <4>2. Suspended(o) => Suspended(o)'
        BY <1>1, <1>3, <3>2, <4>1 DEF Suspended
      <4> QED BY <1>2, <1>5, <4>1, <4>2 DEF Located
    <3> QED BY <3>1, <3>2
  <2> QED BY <1>1, <1>2, <1>3, <1>5, <2>1 DEF Located
<1>7. Eventful'
  <2>1. epoll' = {f \in Fds : waiting'[f] # NULL}
    BY <1>1, <1>2, <1>3, FdFacts DEF Eventful
  <2>2. \A e \in events : waiting'[e[1]] # NULL
    BY <1>1, <1>2, <1>3, FdFacts DEF Eventful, EventsHaveWaiters, SchedTypes
  <2> QED BY <1>1, <1>2, <2>1, <2>2 DEF Eventful, EventsHaveWaiters
<1>8. Arguments'
  BY <1>1, <1>2, <1>5, FdFacts DEF Arguments, readerVars
<1>9. ServerTypes' /\ KernelTypes' /\ OwnFds' /\ Kept' /\ Files' /\ Echoes'
  BY <1>1, OthersKeep
<1> QED BY <1>4, <1>6, <1>7, <1>8, <1>9 DEF ServerInv

-----------------------------------------------------------------------------
(* What a running coroutine does to the scheduler                          *)

\* It waits: at its own fd, and not with a connection accepted but not handed on.
LEMMA WaitKeeps ==
  ASSUME ServerInv, NEW co \in Coroutines, Runs(co), ~Suspended(co), pc[co] # "create",
         NEW f \in AnyFd, NEW writing \in BOOLEAN, NEW place \in Places,
         WaitFor(co, f, writing, place),
         co \in Servers => f = ListenFd[co] /\ place = "accept",
         co \in Readers => f = meant[co] /\ place \in {"recv", "send", "resend"},
         UNCHANGED <<cli_fd, owner, meant, file, peer>>
  PROVE  /\ SchedTypes' /\ (~Down' => Located' /\ Eventful' /\ Arguments')
         /\ OwnFds' /\ Kept' /\ Files'
         /\ live' = live
         /\ \A o \in Coroutines : pc'[o] = IF o = co THEN place ELSE pc[o]
<1>1. /\ fd' = [fd EXCEPT ![co] = f] /\ pc' = [pc EXCEPT ![co] = place]
      /\ epoll' = epoll \cup ({f} \cap Fds)
      /\ UNCHANGED <<ready, events, back, live>>
      /\ \/ /\ waiting[f] = NULL /\ waiting' = [waiting EXCEPT ![f] = co]
            /\ phase' = back /\ current' = NULL
         \/ /\ phase' = "abort" /\ UNCHANGED <<waiting, current>>
  BY DEF WaitFor, Registered, Yield
<1>2. /\ SchedTypes /\ Located /\ Eventful /\ Arguments /\ phase = "run" /\ current = co
      /\ co \in live /\ ~IsReady(co) /\ \A g \in AnyFd : waiting[g] # co
      /\ co # NULL /\ place # "begin"
  BY RunningFacts, FdFacts DEF ServerInv
<1>3. /\ \A o \in Coroutines : pc'[o] = IF o = co THEN place ELSE pc[o]
      /\ \A o \in Coroutines : fd'[o] = IF o = co THEN f ELSE fd[o]
  BY <1>1, <1>2 DEF SchedTypes
<1>4. SchedTypes'
  BY <1>1, <1>2 DEF SchedTypes
<1>5. ASSUME ~Down' PROVE Located' /\ Eventful' /\ Arguments'
  <2>1. /\ waiting[f] = NULL /\ waiting' = [waiting EXCEPT ![f] = co]
        /\ phase' = back /\ current' = NULL
        /\ \A g \in AnyFd : waiting'[g] = IF g = f THEN co ELSE waiting[g]
    BY <1>1, <1>2, <1>5 DEF SchedTypes, Down
  <2>2. phase' # "run" /\ \A o \in Coroutines : ~Runs(o)' /\ (IsReady(o)' <=> IsReady(o))
    BY <1>1, <1>2, <2>1 DEF SchedTypes, Runs, IsReady
  <2>3. Located'
    <3>1. ASSUME NEW o \in live PROVE IsReady(o)' \/ Suspended(o)' \/ Runs(o)'
      <4>1. o \in Coroutines /\ fd[o] \in AnyFd /\ o # NULL
        BY <1>2, FdFacts DEF SchedTypes
      <4>2. CASE o = co
        BY <1>3, <2>1, <4>1, <4>2 DEF Suspended
      <4>3. CASE o # co
        <5>1. IsReady(o) \/ Suspended(o)
          BY <1>2, <4>3 DEF Located, Runs
        <5>2. Suspended(o) => Suspended(o)'
          BY <1>3, <2>1, <4>1, <4>3 DEF Suspended
        <5> QED BY <2>2, <4>1, <5>1, <5>2
      <4> QED BY <4>2, <4>3
    <3>2. \A o \in Coroutines : IsReady(o)' =>
            o \in live /\ pc'[o] = "begin" /\ ~Runs(o)'
      BY <1>2, <1>3, <2>2 DEF Located
    <3>3. \A g \in AnyFd : waiting'[g] # NULL =>
            waiting'[g] \in live /\ fd'[waiting'[g]] = g /\ pc'[waiting'[g]] # "begin"
      BY <1>2, <1>3, <2>1 DEF Located, SchedTypes
    <3> QED BY <1>1, <1>2, <2>2, <3>1, <3>2, <3>3 DEF Located
  <2>4. Eventful'
    <3>1. epoll' = {g \in Fds : waiting'[g] # NULL}
      BY <1>1, <1>2, <2>1, FdFacts DEF Eventful
    <3>2. \A e \in events : waiting'[e[1]] # NULL
      BY <1>2, <2>1, FdFacts DEF Eventful, EventsHaveWaiters, SchedTypes
    <3> QED BY <1>1, <1>2, <2>2, <3>1, <3>2 DEF Eventful, EventsHaveWaiters
  <2>5. Arguments'
    <3>1. ASSUME NEW r \in Readers \cap live, pc'[r] = "begin"
          PROVE  /\ owner[r] \in Servers /\ meant[r] = cli_fd[owner[r]]
                 /\ pc'[owner[r]] # "begin"
                 /\ \A e \in events : e[1] # ListenFd[owner[r]]
      <4>1. r \in Coroutines /\ r # co /\ pc[r] = "begin"
        BY <1>2, <1>3, <3>1, FdFacts
      <4>2. /\ owner[r] \in Servers /\ meant[r] = cli_fd[owner[r]]
            /\ pc[owner[r]] # "begin"
            /\ Runs(owner[r]) => pc[owner[r]] = "loop"
            /\ ~Runs(owner[r]) => \A e \in events : e[1] # ListenFd[owner[r]]
        BY <1>2, <4>1 DEF Arguments
      <4>3. pc'[owner[r]] # "begin"
        BY <1>2, <1>3, <4>2, FdFacts
      <4>4. Runs(owner[r]) => fd[current] = ListenFd[owner[r]]
        BY <4>2 DEF Runs, ServerInv, OwnFds
      <4>5. \A e \in events : e[1] # ListenFd[owner[r]]
        BY <1>2, <4>2, <4>4 DEF Eventful
      <4> QED BY <4>2, <4>3, <4>5
    <3>2. \A o \in Servers : ~Runs(o)'
      BY <2>2, FdFacts
    <3> QED BY <1>1, <3>1, <3>2 DEF Arguments
  <2> QED BY <2>3, <2>4, <2>5
<1>6. OwnFds'
  <2>1. \A s \in Servers : /\ pc'[s] \in {"begin", "accept", "create", "loop"}
                           /\ fd'[s] = IF pc'[s] = "begin" THEN -1 ELSE ListenFd[s]
    BY <1>2, <1>3, FdFacts DEF ServerInv, OwnFds
  <2>2. \A r \in Readers : pc'[r] \in {"begin", "recv", "send", "resend"}
    BY <1>2, <1>3, FdFacts DEF ServerInv, OwnFds
  <2>3. \A r \in Readers \cap live : fd'[r] = IF pc'[r] = "begin" THEN -1 ELSE meant[r]
    BY <1>2, <1>3, FdFacts DEF ServerInv, OwnFds
  <2> QED BY <1>1, <2>1, <2>2, <2>3 DEF OwnFds
<1>7. Kept'
  <2>1. \A s \in Servers : pc'[s] = "create" <=> pc[s] = "create"
    BY <1>3, FdFacts
  <2>2. \A g \in ConnFds : Keepers(g)' = Keepers(g)
    BY <1>1, <2>1 DEF Keepers
  <2> QED BY <2>2 DEF ServerInv, Kept
<1>8. Files'
  BY DEF ServerInv, Files
<1> QED BY <1>1, <1>3, <1>4, <1>5, <1>6, <1>7, <1>8

\* It goes on to another place without a word to the scheduler.
LEMMA GoesOnKeeps ==
  ASSUME ServerInv, NEW co \in Coroutines, Runs(co), ~Suspended(co), pc[co] # "begin",
         NEW place \in Places, pc' = [pc EXCEPT ![co] = place],
         co \in Servers => pc[co] = "accept" /\ place = "create",
         co \in Readers => place \in {"recv", "send", "resend"},
         UNCHANGED <<ready, treeVars, loopVars, live, fd, owner, meant>>,
         \A s \in Servers : s # co => cli_fd'[s] = cli_fd[s]
  PROVE  /\ SchedTypes' /\ Located' /\ Eventful' /\ Arguments' /\ OwnFds'
         /\ \A o \in Coroutines : pc'[o] = IF o = co THEN place ELSE pc[o]
<1>1. UNCHANGED <<ready, waiting, epoll, events, phase, current, back, live, fd, owner,
                  meant>>
  BY DEF treeVars, loopVars
<1>2. /\ SchedTypes /\ Located /\ Eventful /\ Arguments /\ phase = "run" /\ current = co
      /\ co \in live /\ ~IsReady(co) /\ \A g \in AnyFd : waiting[g] # co
      /\ place # "begin"
  BY RunningFacts, FdFacts DEF ServerInv
<1>3. \A o \in Coroutines : pc'[o] = IF o = co THEN place ELSE pc[o]
  BY <1>2 DEF SchedTypes
<1>4. SchedTypes'
  BY <1>1, <1>2 DEF SchedTypes
<1>5. Located'
  <2>1. \A o \in Coroutines :
          (IsReady(o)' <=> IsReady(o)) /\ (Runs(o)' <=> Runs(o)) /\ (Suspended(o)' <=> Suspended(o))
    BY <1>1 DEF IsReady, Runs, Suspended
  <2>2. \A o \in Coroutines : IsReady(o) => pc'[o] = "begin"
    BY <1>2, <1>3 DEF Located
  <2>3. \A g \in AnyFd : waiting[g] # NULL => pc'[waiting[g]] # "begin"
    BY <1>2, <1>3 DEF Located, SchedTypes
  <2>4. \A o \in live : IsReady(o)' \/ Suspended(o)' \/ Runs(o)'
    BY <1>2, <2>1 DEF Located, SchedTypes
  <2> QED BY <1>1, <1>2, <2>1, <2>2, <2>3, <2>4 DEF Located
<1>6. Eventful'
  BY <1>1, <1>2 DEF Eventful, EventsHaveWaiters
<1>7. Arguments'
  <2>1. ASSUME NEW r \in Readers \cap live, pc'[r] = "begin"
        PROVE  /\ owner[r] \in Servers /\ meant[r] = cli_fd'[owner[r]]
               /\ pc'[owner[r]] # "begin"
               /\ Runs(owner[r]) => pc'[owner[r]] = "loop"
               /\ ~Runs(owner[r]) => \A e \in events : e[1] # ListenFd[owner[r]]
    <3>1. r \in Coroutines /\ r # co /\ pc[r] = "begin"
      BY <1>2, <1>3, <2>1, FdFacts
    <3>2. /\ owner[r] \in Servers /\ meant[r] = cli_fd[owner[r]]
          /\ pc[owner[r]] # "begin"
          /\ Runs(owner[r]) => pc[owner[r]] = "loop"
          /\ ~Runs(owner[r]) => \A e \in events : e[1] # ListenFd[owner[r]]
      BY <1>2, <3>1 DEF Arguments
    <3>3. owner[r] # co
      BY <3>2, <1>2 DEF Runs
    <3> QED BY <1>3, <3>2, <3>3, FdFacts
  <2>2. \A o \in Coroutines : Runs(o)' <=> Runs(o)
    BY <1>1 DEF Runs
  <2>3. UNCHANGED <<live, owner, meant, events>>
    BY <1>1
  <2> QED BY <2>1, <2>2, <2>3, FdFacts DEF Arguments
<1>8. OwnFds'
  BY <1>1, <1>2, <1>3, FdFacts DEF ServerInv, OwnFds
<1> QED BY <1>3, <1>4, <1>5, <1>6, <1>7, <1>8

\* Its function returns: a reader's, or a server's that has no socket.
LEMMA ExitKeeps ==
  ASSUME ServerInv, NEW co \in Coroutines, Runs(co), ~Suspended(co),
         NEW closed, \A f \in closed \cap Fds : waiting[f] = NULL,
         Exit(co, closed), co \in Servers => pc[co] = "begin",
         UNCHANGED <<cli_fd, owner, meant>>
  PROVE  /\ SchedTypes' /\ Located' /\ Eventful' /\ Arguments' /\ OwnFds'
         /\ live' = live \ {co} /\ pc' = pc
<1>1. /\ live' = live \ {co} /\ epoll' = epoll \ closed
      /\ phase' = back /\ current' = NULL
      /\ UNCHANGED <<ready, waiting, events, back, pc, fd>>
  BY DEF Exit, Yield
<1>2. /\ SchedTypes /\ Located /\ Eventful /\ Arguments /\ phase = "run" /\ current = co
      /\ co \in live /\ ~IsReady(co) /\ \A g \in AnyFd : waiting[g] # co
  BY RunningFacts DEF ServerInv
<1>3. SchedTypes'
  BY <1>1, <1>2 DEF SchedTypes
<1>4. /\ phase' # "run"
      /\ \A o \in Coroutines : ~Runs(o)' /\ (IsReady(o)' <=> IsReady(o))
                               /\ (Suspended(o)' <=> Suspended(o))
  BY <1>1, <1>2 DEF SchedTypes, Runs, IsReady, Suspended
<1>5. Located'
  <2>1. \A o \in live' : IsReady(o)' \/ Suspended(o)' \/ Runs(o)'
    BY <1>1, <1>2, <1>4 DEF Located, Runs, SchedTypes
  <2>2. \A o \in Coroutines : IsReady(o)' => o \in live' /\ pc'[o] = "begin" /\ ~Runs(o)'
    BY <1>1, <1>2, <1>4 DEF Located
  <2>3. \A g \in AnyFd : waiting[g] # NULL => waiting[g] \in live'
    BY <1>1, <1>2 DEF Located
  <2> QED BY <1>1, <1>2, <1>4, <2>1, <2>2, <2>3 DEF Located
<1>6. Eventful'
  <2>1. epoll' = {g \in Fds : waiting[g] # NULL}
    BY <1>1, <1>2 DEF Eventful
  <2> QED BY <1>1, <1>2, <1>4, <2>1 DEF Eventful, EventsHaveWaiters
<1>7. Arguments'
  <2>1. ASSUME NEW r \in Readers \cap live', pc[r] = "begin"
        PROVE  /\ owner[r] \in Servers /\ meant[r] = cli_fd[owner[r]]
               /\ pc[owner[r]] # "begin"
               /\ \A e \in events : e[1] # ListenFd[owner[r]]
    <3>1. /\ owner[r] \in Servers /\ meant[r] = cli_fd[owner[r]]
          /\ pc[owner[r]] # "begin"
          /\ ~Runs(owner[r]) => \A e \in events : e[1] # ListenFd[owner[r]]
      BY <1>1, <1>2, <2>1 DEF Arguments
    <3>2. ~Runs(owner[r])
      BY <1>2, <3>1 DEF Runs
    <3> QED BY <3>1, <3>2
  <2>2. \A o \in Servers : ~Runs(o)'
    BY <1>4, FdFacts
  <2> QED BY <1>1, <2>1, <2>2 DEF Arguments
<1>8. OwnFds'
  BY <1>1 DEF ServerInv, OwnFds
<1> QED BY <1>1, <1>3, <1>5, <1>6, <1>7, <1>8

-----------------------------------------------------------------------------
(* server                                                                  *)

LEMMA AtFacts ==
  ASSUME ServerInv, NEW co \in Coroutines, NEW place, At(co, place)
  PROVE  Runs(co) /\ ~Suspended(co) /\ pc[co] = place /\ ~Down
         /\ phase = "run" /\ current = co /\ co \in live
  BY RunningFacts DEF At

LEMMA ServerWaitsKeeps ==
  ASSUME ServerInv, NEW s \in Servers, NEW place \in {"begin", "accept", "loop"},
         ServerWaits(s, place)
  PROVE  ServerInv'
<1>1. /\ WaitFor(s, ListenFd[s], FALSE, "accept")
      /\ UNCHANGED <<cli_fd, readerVars, kernelVars>>
  BY DEF ServerWaits
<1>2. s \in Coroutines /\ s \notin Readers /\ ListenFd[s] \in AnyFd
      /\ Runs(s) /\ ~Suspended(s) /\ pc[s] # "create"
  BY FdFacts, AtFacts DEF ServerWaits
<1>3. PICK here \in Places : here = "accept"
  BY DEF Places
<1>4. PICK writing \in BOOLEAN : ~writing
  OBVIOUS
<1>5. WaitFor(s, ListenFd[s], writing, here)
  <2>1. writing = FALSE
    BY <1>4
  <2> QED BY <1>1, <1>3, <2>1
<1>6. /\ SchedTypes' /\ (~Down' => Located' /\ Eventful' /\ Arguments')
      /\ OwnFds' /\ Kept' /\ Files'
      /\ live' = live
      /\ \A o \in Coroutines : pc'[o] = IF o = s THEN here ELSE pc[o]
  BY <1>1, <1>2, <1>3, <1>5, WaitKeeps DEF readerVars, kernelVars
<1>7. ServerTypes' /\ KernelTypes'
  BY <1>1 DEF ServerInv, ServerTypes, KernelTypes, readerVars, kernelVars
<1>8. Echoes'
  <2>1. /\ \A r \in Readers : pc'[r] = pc[r]
        /\ \A t \in Servers : pc'[t] = "create" <=> pc[t] = "create"
    BY <1>2, <1>3, <1>6, FdFacts
  <2> QED BY <1>1, <1>6, <2>1 DEF ServerInv, Echoes, Transit, readerVars, kernelVars
<1> QED BY <1>6, <1>7, <1>8 DEF ServerInv

LEMMA ServerFailsKeeps ==
  ASSUME ServerInv, NEW s \in Servers, ServerFails(s)
  PROVE  ServerInv'
<1>1. /\ Exit(s, {}) /\ UNCHANGED <<cli_fd, readerVars, kernelVars>>
      /\ s \in Coroutines /\ s \notin Readers
      /\ Runs(s) /\ ~Suspended(s) /\ pc[s] = "begin"
  BY FdFacts, AtFacts DEF ServerFails
<1>2. PICK closed : closed = {}
  OBVIOUS
<1>3. /\ SchedTypes' /\ Located' /\ Eventful' /\ Arguments' /\ OwnFds'
      /\ live' = live \ {s} /\ pc' = pc
  BY <1>1, <1>2, ExitKeeps DEF readerVars
<1>4. Readers \cap live' = Readers \cap live
  BY <1>1, <1>3
<1>5. ServerTypes' /\ KernelTypes'
  BY <1>1 DEF ServerInv, ServerTypes, KernelTypes, readerVars, kernelVars
<1>6. Kept' /\ Files'
  <2>1. \A f \in ConnFds : Keepers(f)' = Keepers(f)
    BY <1>1, <1>3, <1>4 DEF Keepers, readerVars
  <2> QED BY <1>1, <2>1 DEF ServerInv, Kept, Files, kernelVars
<1>7. Echoes'
  BY <1>1, <1>3, <1>4 DEF ServerInv, Echoes, Transit, readerVars, kernelVars
<1> QED BY <1>3, <1>5, <1>6, <1>7 DEF ServerInv

LEMMA LeastNumber ==
  ASSUME NEW T \in SUBSET Nat, T # {}
  PROVE  \E x \in T : \A y \in T : x <= y
<1>1. IsWellFoundedOn(OpToRel(<, Nat), Nat)
  BY NatLessThanWellFounded
<1>2. PICK x \in T : \A y \in T : ~(<<y, x>> \in OpToRel(<, Nat))
  BY <1>1, WFMin
<1>3. \A y \in T : <<y, x>> \in OpToRel(<, Nat) <=> y < x
  BY DEF OpToRel
<1>4. \A y \in T : ~(y < x)
  BY <1>2, <1>3, Zenon
<1>5. \A y \in T : x <= y
  BY <1>4
<1> QED BY <1>5

\* Below the limit there is an fd to give.
LEMMA LowestIsFree ==
  ASSUME KernelTypes, Cardinality(OpenFds) < fdlimit
  PROVE  LowestFd \in ConnFds /\ file[LowestFd] = NULL
<1>1. OpenFds \subseteq ConnFds /\ IsFiniteSet(ConnFds)
  BY ServerAssumption, FS_Subset DEF OpenFds, ConnFds
<1>2. ConnFds \ OpenFds # {}
  <2> SUFFICES ASSUME ConnFds \ OpenFds = {} PROVE FALSE
    OBVIOUS
  <2>1. OpenFds = ConnFds
    BY <1>1
  <2>2. fdlimit \in 0 .. Cardinality(ConnFds) /\ Cardinality(ConnFds) \in Nat
    BY <1>1, ServerAssumption, FS_CardinalityType DEF KernelTypes
  <2> QED BY <2>1, <2>2
<1>3. ConnFds \ OpenFds \in SUBSET Nat
  BY SchedulerAssumption, FdFacts
<1>4. \E f \in ConnFds \ OpenFds : \A g \in ConnFds \ OpenFds : f <= g
  BY <1>2, <1>3, LeastNumber
<1>5. LowestFd \in ConnFds \ OpenFds
  BY <1>4 DEF LowestFd
<1> QED BY <1>5 DEF OpenFds

\* accept fails: no connection, and the variable holds -1.
LEMMA AcceptFailsKeeps ==
  ASSUME ServerInv, NEW s \in Servers, Accepted(s),
         cli_fd' = [cli_fd EXCEPT ![s] = -1], UNCHANGED <<file, peer>>
  PROVE  ServerInv'
<1>1. /\ pc' = [pc EXCEPT ![s] = "create"]
      /\ UNCHANGED <<ready, treeVars, loopVars, live, status, fd, readerVars,
                     err, input, output, sent, got, fdlimit>>
      /\ s \in Coroutines /\ s \notin Readers /\ -1 \notin ConnFds
      /\ Runs(s) /\ ~Suspended(s) /\ pc[s] = "accept"
  BY FdFacts, AtFacts DEF Accepted
<1>2. PICK here \in Places : here = "create"
  BY DEF Places
<1>3. cli_fd \in [Servers -> ConnFds \cup {-1}]
  BY DEF ServerInv, ServerTypes
<1>4. \A t \in Servers : cli_fd'[t] = IF t = s THEN -1 ELSE cli_fd[t]
  BY <1>3
<1>5. /\ SchedTypes' /\ Located' /\ Eventful' /\ Arguments' /\ OwnFds'
      /\ \A o \in Coroutines : pc'[o] = IF o = s THEN here ELSE pc[o]
  <2>1. UNCHANGED <<owner, meant>> /\ pc' = [pc EXCEPT ![s] = here]
    BY <1>1, <1>2 DEF readerVars
  <2>2. pc[s] # "begin" /\ (s \in Servers => pc[s] = "accept" /\ here = "create")
        /\ (s \in Readers => here \in {"recv", "send", "resend"})
    BY <1>1, <1>2
  <2>3. \A t \in Servers : t # s => cli_fd'[t] = cli_fd[t]
    BY <1>4
  <2>4. UNCHANGED <<ready, treeVars, loopVars, live, fd>>
    BY <1>1
  <2> QED BY <1>1, <2>1, <2>2, <2>3, <2>4, GoesOnKeeps
<1>6. ServerTypes' /\ KernelTypes' /\ Files'
  BY <1>1, <1>3 DEF ServerInv, ServerTypes, KernelTypes, Files, readerVars
<1>7. Kept'
  <2>1. \A t \in Servers, f \in ConnFds :
          (pc'[t] = "create" /\ cli_fd'[t] = f) <=> (pc[t] = "create" /\ cli_fd[t] = f)
    BY <1>1, <1>4, <1>5, FdFacts
  <2>2. \A f \in ConnFds : Keepers(f)' = Keepers(f)
    BY <1>1, <2>1 DEF Keepers, readerVars
  <2> QED BY <2>2 DEF ServerInv, Kept
<1>8. Echoes'
  <2>1. \A r \in Readers : pc'[r] = pc[r]
    BY <1>1, <1>5, FdFacts
  <2>2. \A t \in Servers : pc'[t] = "create" /\ cli_fd'[t] \in ConnFds =>
          pc[t] = "create" /\ cli_fd'[t] = cli_fd[t]
    BY <1>1, <1>4, <1>5, FdFacts
  <2> QED BY <1>1, <2>1, <2>2 DEF ServerInv, Echoes, Transit, readerVars
<1> QED BY <1>5, <1>6, <1>7, <1>8 DEF ServerInv

\* accept succeeds: the connection is the server's until it has a reader.
LEMMA AcceptSucceedsKeeps ==
  ASSUME ServerInv, NEW s \in Servers, Accepted(s),
         Cardinality(OpenFds) < fdlimit, NEW c \in Backlog(s),
         file' = [file EXCEPT ![LowestFd] = c], peer' = [peer EXCEPT ![c] = "open"],
         cli_fd' = [cli_fd EXCEPT ![s] = LowestFd]
  PROVE  ServerInv'
<1>1. /\ pc' = [pc EXCEPT ![s] = "create"]
      /\ UNCHANGED <<ready, treeVars, loopVars, live, status, fd, readerVars,
                     err, input, output, sent, got, fdlimit>>
      /\ s \in Coroutines /\ s \notin Readers /\ -1 \notin ConnFds
      /\ Runs(s) /\ ~Suspended(s) /\ pc[s] = "accept"
  BY FdFacts, AtFacts DEF Accepted
<1>2. PICK here \in Places : here = "create"
  BY DEF Places
<1>3. PICK f : f = LowestFd
  OBVIOUS
<1>4. /\ f \in ConnFds /\ file[f] = NULL /\ c \in Clients /\ peer[c] = "backlog"
      /\ c # NULL /\ ServerTypes /\ KernelTypes /\ Kept /\ Files
  BY <1>3, LowestIsFree, FdFacts DEF ServerInv, Backlog
<1>5. /\ \A t \in Servers : cli_fd'[t] = IF t = s THEN f ELSE cli_fd[t]
      /\ \A g \in ConnFds : file'[g] = IF g = f THEN c ELSE file[g]
      /\ \A d \in Clients : peer'[d] = IF d = c THEN "open" ELSE peer[d]
  BY <1>3, <1>4 DEF ServerTypes, KernelTypes
<1>6. /\ SchedTypes' /\ Located' /\ Eventful' /\ Arguments' /\ OwnFds'
      /\ \A o \in Coroutines : pc'[o] = IF o = s THEN here ELSE pc[o]
  <2>1. UNCHANGED <<owner, meant>> /\ pc' = [pc EXCEPT ![s] = here]
    BY <1>1, <1>2 DEF readerVars
  <2>2. pc[s] # "begin" /\ (s \in Servers => pc[s] = "accept" /\ here = "create")
        /\ (s \in Readers => here \in {"recv", "send", "resend"})
    BY <1>1, <1>2
  <2>3. \A t \in Servers : t # s => cli_fd'[t] = cli_fd[t]
    BY <1>5
  <2>4. UNCHANGED <<ready, treeVars, loopVars, live, fd>>
    BY <1>1
  <2> QED BY <1>1, <2>1, <2>2, <2>3, <2>4, GoesOnKeeps
<1>7. ServerTypes' /\ KernelTypes'
  BY <1>1, <1>3, <1>4 DEF ServerTypes, KernelTypes, readerVars
<1>8. \A g \in ConnFds : file[g] # c
  BY <1>4 DEF Files
<1>9. Files'
  BY <1>4, <1>5, <1>8 DEF Files, KernelTypes
<1>10. Kept'
  <2>1. Keepers(f) = {}
    BY <1>4 DEF Kept
  <2>2. Keepers(f)' = {s}
    BY <1>1, <1>2, <1>5, <1>6, <2>1, FdFacts DEF Keepers, readerVars
  <2>3. \A t \in Servers, g \in ConnFds : g # f =>
          ((pc'[t] = "create" /\ cli_fd'[t] = g) <=> (pc[t] = "create" /\ cli_fd[t] = g))
    BY <1>1, <1>2, <1>5, <1>6, FdFacts
  <2>4. \A g \in ConnFds : g # f => Keepers(g)' = Keepers(g)
    BY <1>1, <2>3 DEF Keepers, readerVars
  <2> QED BY <1>4, <1>5, <2>2, <2>4 DEF Kept
<1>11. Echoes'
  <2>1. \A r \in Readers : pc'[r] = pc[r]
    BY <1>1, <1>6, FdFacts
  <2>2. \A r \in Readers \cap live : meant[r] \in ConnFds =>
          meant[r] # f /\ file'[meant[r]] = file[meant[r]] /\ file[meant[r]] \in Clients
    <3> SUFFICES ASSUME NEW r \in Readers \cap live, meant[r] \in ConnFds
                 PROVE  meant[r] # f /\ file[meant[r]] \in Clients
      BY <1>5
    <3>1. r \in Keepers(meant[r])
      BY DEF Keepers
    <3>2. file[meant[r]] # NULL
      BY <1>4, <3>1 DEF Kept
    <3> QED BY <1>4, <3>2 DEF KernelTypes
  <2>3. \A t \in Servers : pc[t] = "create" /\ cli_fd[t] \in ConnFds =>
          cli_fd[t] # f /\ file'[cli_fd[t]] = file[cli_fd[t]] /\ file[cli_fd[t]] \in Clients
    <3> SUFFICES ASSUME NEW t \in Servers, pc[t] = "create", cli_fd[t] \in ConnFds
                 PROVE  cli_fd[t] # f /\ file[cli_fd[t]] \in Clients
      BY <1>5
    <3>1. t \in Keepers(cli_fd[t])
      BY DEF Keepers
    <3>2. file[cli_fd[t]] # NULL
      BY <1>4, <3>1 DEF Kept
    <3> QED BY <1>4, <3>2 DEF KernelTypes
  <2>4. sent[c] = Transit(c)
    BY <1>4, <1>8 DEF ServerInv, Echoes
  <2>6. ASSUME NEW r \in Readers \cap live, meant[r] \in ConnFds,
               peer'[file'[meant[r]]] # "reset"
        PROVE  sent[file'[meant[r]]] = Transit(file'[meant[r]]) + unsent[r]
    BY <1>5, <1>8, <2>2, <2>6 DEF ServerInv, Echoes
  <2>7. ASSUME NEW t \in Servers, pc'[t] = "create", cli_fd'[t] \in ConnFds,
               peer'[file'[cli_fd'[t]]] # "reset"
        PROVE  sent[file'[cli_fd'[t]]] = Transit(file'[cli_fd'[t]])
    <3>1. CASE t = s
      BY <1>4, <1>5, <2>4, <3>1
    <3>2. CASE t # s
      <4>1. pc[t] = "create" /\ cli_fd'[t] = cli_fd[t]
        BY <1>5, <1>6, <2>7, <3>2, FdFacts
      <4>2. file'[cli_fd'[t]] = file[cli_fd[t]] /\ file[cli_fd[t]] \in Clients
            /\ file[cli_fd[t]] # c
        BY <1>8, <2>3, <2>7, <4>1
      <4> QED BY <1>5, <2>7, <3>2, <4>1, <4>2 DEF ServerInv, Echoes
    <3> QED BY <3>1, <3>2
  <2>8. ASSUME NEW d \in Clients, peer'[d] # "reset", \A g \in ConnFds : file'[g] # d
        PROVE  sent[d] = Transit(d)
    <3>1. CASE d = c
      BY <2>4, <3>1
    <3>2. CASE d # c
      <4>1. peer[d] # "reset" /\ d # NULL
        BY <1>5, <2>8, <3>2, FdFacts
      <4>2. \A g \in ConnFds : file[g] # d
        BY <1>4, <1>5, <2>8, <4>1
      <4> QED BY <4>1, <4>2 DEF ServerInv, Echoes
    <3> QED BY <3>1, <3>2
  <2>9. \A r \in Readers : unsent[r] # 0 => r \in live /\ pc[r] \in {"send", "resend"}
    BY DEF ServerInv, Echoes
  <2> QED BY <1>1, <2>1, <2>6, <2>7, <2>8, <2>9 DEF Echoes, Transit, readerVars
<1> QED BY <1>6, <1>7, <1>9, <1>10, <1>11 DEF ServerInv

LEMMA AcceptedKeeps ==
  ASSUME ServerInv, NEW s \in Servers, Accepted(s)
  PROVE  ServerInv'
<1>1. CASE Cardinality(OpenFds) < fdlimit
  <2>1. PICK c \in Backlog(s) :
          /\ file' = [file EXCEPT ![LowestFd] = c]
          /\ peer' = [peer EXCEPT ![c] = "open"]
          /\ cli_fd' = [cli_fd EXCEPT ![s] = LowestFd]
    BY <1>1 DEF Accepted
  <2> QED BY <1>1, <2>1, AcceptSucceedsKeeps
<1>2. CASE ~(Cardinality(OpenFds) < fdlimit)
  BY <1>2, AcceptFailsKeeps DEF Accepted
<1> QED BY <1>1, <1>2

LEMMA CreateReaderKeeps ==
  ASSUME ServerInv, NEW s \in Servers, CreateReader(s)
  PROVE  ServerInv'
<1>1. PICK r : r = CHOOSE q \in Readers : q \notin live
  OBVIOUS
<1>2. r \in Readers /\ r \notin live /\ r \in Coroutines /\ r # s
  <2>1. \E q \in Readers : q \notin live
    BY DEF CreateReader
  <2> QED BY <1>1, <2>1, FdFacts
<1>3. /\ live' = live \cup {r} /\ ready' = Append(ready, r)
      /\ fd' = [fd EXCEPT ![r] = -1]
      /\ pc' = [pc EXCEPT ![r] = "begin", ![s] = "loop"]
      /\ owner' = [owner EXCEPT ![r] = s] /\ meant' = [meant EXCEPT ![r] = cli_fd[s]]
      /\ UNCHANGED <<waiting, epoll, events, phase, current, back, cli_fd, unsent, some>>
      /\ UNCHANGED <<file, peer, err, input, output, sent, got, fdlimit>>
      /\ At(s, "create")
  BY <1>1 DEF CreateReader, Create, Enqueued, AfterCreate, treeVars, loopVars, kernelVars
<1>4. /\ SchedTypes /\ ServerTypes /\ KernelTypes /\ OwnFds /\ Kept
      /\ Located /\ Eventful /\ Arguments
      /\ phase = "run" /\ current = s /\ s \in live /\ s \in Coroutines /\ s \notin Readers
      /\ pc[s] = "create" /\ -1 \in AnyFd /\ -1 \notin ConnFds
  BY <1>3, AtFacts, FdFacts DEF ServerInv
<1>5. /\ \A o \in Coroutines : fd'[o] = IF o = r THEN -1 ELSE fd[o]
      /\ \A o \in Coroutines :
           pc'[o] = IF o = r THEN "begin" ELSE IF o = s THEN "loop" ELSE pc[o]
      /\ \A q \in Readers : meant'[q] = IF q = r THEN cli_fd[s] ELSE meant[q]
      /\ \A q \in Readers : owner'[q] = IF q = r THEN s ELSE owner[q]
  BY <1>2, <1>3, <1>4 DEF SchedTypes, ServerTypes
<1>6. /\ ready' \in Seq(Coroutines)
      /\ DOMAIN ready' = DOMAIN ready \cup {Len(ready) + 1}
      /\ \A k \in DOMAIN ready : ready'[k] = ready[k] /\ k # Len(ready) + 1
      /\ ready'[Len(ready) + 1] = r
  BY <1>2, <1>3, <1>4, AppendedQueue DEF SchedTypes
<1>7. SchedTypes'
  BY <1>2, <1>3, <1>4, <1>6 DEF SchedTypes, Places
<1>8. ServerTypes' /\ KernelTypes' /\ Files'
  <2>1. cli_fd[s] \in ConnFds \cup {-1}
    BY <1>4 DEF ServerTypes
  <2>2. ServerTypes'
    BY <1>2, <1>3, <1>4, <2>1 DEF ServerTypes
  <2>3. KernelTypes' /\ Files'
    BY <1>3 DEF ServerInv, KernelTypes, Files
  <2> QED BY <2>2, <2>3
<1>9. Located'
  <2>1. \A o \in Coroutines : IsReady(o)' <=> IsReady(o) \/ o = r
    BY <1>6 DEF IsReady
  <2>2. ~IsReady(r) /\ ~IsReady(s)
    BY <1>2, <1>4 DEF Located
  <2>3. \A j, k \in DOMAIN ready' : ready'[j] = ready'[k] => j = k
    BY <1>4, <1>6, <2>2 DEF Located, IsReady
  <2>4. \A o \in Coroutines : Runs(o)' <=> Runs(o)
    BY <1>3 DEF Runs
  <2>5. \A o \in Coroutines : IsReady(o)' => o \in live' /\ pc'[o] = "begin" /\ ~Runs(o)'
    <3>1. ~Runs(r)
      BY <1>2, <1>4 DEF Runs
    <3>2. ASSUME NEW o \in Coroutines, IsReady(o), o # r
          PROVE  o \in live /\ pc'[o] = "begin" /\ ~Runs(o)
      BY <1>4, <1>5, <2>2, <3>2 DEF Located
    <3>3. r \in live' /\ pc'[r] = "begin"
      BY <1>2, <1>3, <1>5
    <3> QED BY <1>3, <2>1, <2>4, <3>1, <3>2, <3>3
  <2>6. \A g \in AnyFd : waiting[g] # NULL =>
          waiting[g] \in live' /\ fd'[waiting[g]] = g /\ pc'[waiting[g]] # "begin"
    BY <1>2, <1>3, <1>4, <1>5 DEF Located, SchedTypes
  <2>7. ASSUME NEW o \in live' PROVE IsReady(o)' \/ Suspended(o)' \/ Runs(o)'
    <3>1. CASE o = r
      BY <1>2, <2>1, <3>1
    <3>2. CASE o # r
      <4>1. o \in live /\ o \in Coroutines /\ (IsReady(o) \/ Suspended(o) \/ Runs(o))
        BY <1>3, <1>4, <2>7, <3>2 DEF Located, SchedTypes
      <4>2. Suspended(o) => Suspended(o)'
        BY <1>3, <1>5, <3>2, <4>1 DEF Suspended
      <4> QED BY <2>1, <2>4, <4>1, <4>2
    <3> QED BY <3>1, <3>2
  <2>8. phase' = "run" => current' \in live'
    BY <1>3, <1>4
  <2> QED BY <1>3, <2>3, <2>5, <2>6, <2>7, <2>8 DEF Located
<1>10. Eventful'
  <2>1. fd'[s] = fd[s] /\ pc'[s] # "begin"
    BY <1>2, <1>4, <1>5
  <2> QED BY <1>3, <1>4, <2>1 DEF Eventful, EventsHaveWaiters
<1>11. Arguments'
  <2>1. ASSUME NEW q \in Readers \cap live', pc'[q] = "begin"
        PROVE  /\ owner'[q] \in Servers /\ meant'[q] = cli_fd[owner'[q]]
               /\ pc'[owner'[q]] # "begin"
               /\ Runs(owner'[q]) => pc'[owner'[q]] = "loop"
               /\ ~Runs(owner'[q]) => \A e \in events : e[1] # ListenFd[owner'[q]]
    <3>1. CASE q = r
      BY <1>2, <1>4, <1>5, <3>1 DEF Runs
    <3>2. CASE q # r
      <4>1. q \in live /\ q \in Coroutines /\ q # s /\ pc[q] = "begin"
        BY <1>3, <1>4, <1>5, <2>1, <3>2, FdFacts
      <4>2. /\ owner[q] \in Servers /\ meant[q] = cli_fd[owner[q]]
            /\ pc[owner[q]] # "begin"
            /\ Runs(owner[q]) => pc[owner[q]] = "loop"
            /\ ~Runs(owner[q]) => \A e \in events : e[1] # ListenFd[owner[q]]
        BY <1>4, <4>1 DEF Arguments
      <4>3. owner'[q] = owner[q] /\ meant'[q] = meant[q] /\ owner[q] # s /\ owner[q] # r
            /\ owner[q] \in Coroutines
        BY <1>2, <1>4, <1>5, <3>2, <4>2, FdFacts DEF Runs
      <4> QED BY <1>5, <4>2, <4>3
    <3> QED BY <3>1, <3>2
  <2>2. \A o \in Coroutines : Runs(o)' <=> Runs(o)
    BY <1>3 DEF Runs
  <2> QED BY <1>3, <2>1, <2>2, FdFacts DEF Arguments
<1>12. OwnFds'
  <2>1. \A t \in Servers : /\ pc'[t] \in {"begin", "accept", "create", "loop"}
                           /\ fd'[t] = IF pc'[t] = "begin" THEN -1 ELSE ListenFd[t]
    BY <1>2, <1>4, <1>5, FdFacts DEF OwnFds
  <2>2. \A q \in Readers : pc'[q] \in {"begin", "recv", "send", "resend"}
    BY <1>2, <1>4, <1>5, FdFacts DEF OwnFds
  <2>3. \A q \in Readers \cap live' : fd'[q] = IF pc'[q] = "begin" THEN -1 ELSE meant'[q]
    <3>1. fd'[r] = -1 /\ pc'[r] = "begin"
      BY <1>2, <1>5
    <3>2. ASSUME NEW q \in Readers \cap live', q # r
          PROVE  fd'[q] = fd[q] /\ pc'[q] = pc[q] /\ meant'[q] = meant[q] /\ q \in live
      BY <1>3, <1>4, <1>5, <3>2, FdFacts
    <3>3. \A q \in Readers \cap live : fd[q] = IF pc[q] = "begin" THEN -1 ELSE meant[q]
      BY <1>4 DEF OwnFds
    <3> QED BY <3>1, <3>2, <3>3
  <2> QED BY <2>1, <2>2, <2>3 DEF OwnFds
<1>13. ASSUME NEW g \in ConnFds, g # cli_fd[s] PROVE Keepers(g)' = Keepers(g)
  <2>1. \A t \in Servers : (pc'[t] = "create" /\ cli_fd[t] = g)
                             <=> (pc[t] = "create" /\ cli_fd[t] = g)
    BY <1>2, <1>4, <1>5, <1>13, FdFacts
  <2>2. \A q \in Readers : (q \in live' /\ meant'[q] = g) <=> (q \in live /\ meant[q] = g)
    BY <1>2, <1>3, <1>5, <1>13
  <2> QED BY <1>3, <2>1, <2>2 DEF Keepers
<1>14. ASSUME cli_fd[s] \in ConnFds
       PROVE  file[cli_fd[s]] # NULL /\ Keepers(cli_fd[s]) = {s}
              /\ Keepers(cli_fd[s])' = {r}
  <2>1. s \in Keepers(cli_fd[s])
    BY <1>4 DEF Keepers
  <2>2. file[cli_fd[s]] # NULL /\ Keepers(cli_fd[s]) = {s}
    BY <1>4, <1>14, <2>1 DEF Kept
  <2>3. PICK g : g = cli_fd[s]
    OBVIOUS
  <2>4. \A q \in Readers \cap live : meant[q] # g
    BY <1>4, <2>2, <2>3 DEF Keepers
  <2>5. \A t \in Servers : ~(pc'[t] = "create" /\ cli_fd'[t] = g)
    <3>1. \A t \in Servers : pc[t] = "create" /\ cli_fd[t] = g => t = s
      BY <2>2, <2>3 DEF Keepers
    <3>2. \A t \in Servers : pc'[t] = "create" => t # s /\ pc[t] = "create"
      BY <1>2, <1>4, <1>5, FdFacts
    <3> QED BY <1>3, <3>1, <3>2
  <2>6. \A q \in Readers : q \in live' /\ meant'[q] = g <=> q = r
    BY <1>2, <1>3, <1>5, <2>3, <2>4
  <2>7. Keepers(g)' = {r}
    BY <1>2, <2>5, <2>6 DEF Keepers
  <2>8. cli_fd'[s] = g
    BY <1>3, <2>3
  <2> QED BY <1>3, <2>2, <2>3, <2>7, <2>8
<1>15. Kept'
  <2>1. PICK g : g = cli_fd[s]
    OBVIOUS
  <2>2. g \in ConnFds => file[g] # NULL /\ Keepers(g)' = {r}
    BY <1>3, <1>14, <2>1
  <2>3. \A h \in ConnFds : h # g => Keepers(h)' = Keepers(h)
    BY <1>13, <2>1
  <2>4. ASSUME NEW h \in ConnFds, file[h] # NULL
        PROVE  \E k \in Keepers(h)' : Keepers(h)' = {k}
    <3>1. CASE h = g
      <4>1. Keepers(h)' = {r}
        BY <1>3, <2>2, <2>4, <3>1
      <4> QED BY <4>1
    <3>2. CASE h # g
      BY <1>4, <2>3, <2>4, <3>2 DEF Kept
    <3> QED BY <3>1, <3>2
  <2>5. \A h \in ConnFds : file[h] = NULL => Keepers(h)' = {}
    BY <1>4, <2>2, <2>3 DEF Kept
  <2> QED BY <1>3, <2>4, <2>5 DEF Kept
<1>16. Echoes'
  <2>1. unsent[r] = 0
    BY <1>2, <1>4 DEF ServerInv, Echoes, ServerTypes
  <2>2. \A q \in Readers : unsent[q] # 0 => q \in live' /\ pc'[q] \in {"send", "resend"}
    BY <1>3, <1>4, <1>5, <2>1, FdFacts DEF ServerInv, Echoes
  <2>3. ASSUME NEW q \in Readers \cap live', meant'[q] \in ConnFds,
               peer[file[meant'[q]]] # "reset"
        PROVE  sent[file[meant'[q]]] = Transit(file[meant'[q]]) + unsent[q]
    <3>1. CASE q = r
      <4>1. PICK c : c = file[cli_fd[s]]
        OBVIOUS
      <4>2. sent[c] = Transit(c)
        BY <1>4, <1>5, <2>3, <3>1, <4>1 DEF ServerInv, Echoes
      <4>3. c \in Clients
        BY <1>4, <1>5, <1>14, <2>3, <3>1, <4>1 DEF KernelTypes
      <4>4. Transit(c) \in Nat
        BY <1>4, <4>3 DEF Transit, KernelTypes
      <4>5. file[meant'[q]] = c
        BY <1>5, <3>1, <4>1
      <4> QED BY <2>1, <3>1, <4>2, <4>4, <4>5
    <3>2. CASE q # r
      BY <1>3, <1>5, <2>3, <3>2 DEF ServerInv, Echoes
    <3> QED BY <3>1, <3>2
  <2>4. ASSUME NEW t \in Servers, pc'[t] = "create", cli_fd[t] \in ConnFds,
               peer[file[cli_fd[t]]] # "reset"
        PROVE  sent[file[cli_fd[t]]] = Transit(file[cli_fd[t]])
    <3>1. pc[t] = "create"
      BY <1>2, <1>5, <2>4, FdFacts
    <3> QED BY <2>4, <3>1 DEF ServerInv, Echoes
  <2>5. \A d \in Clients : peer[d] # "reset" /\ (\A g \in ConnFds : file[g] # d) =>
          sent[d] = Transit(d)
    BY DEF ServerInv, Echoes
  <2> QED BY <1>3, <2>2, <2>3, <2>4, <2>5 DEF Echoes, Transit
<1> QED BY <1>7, <1>8, <1>9, <1>10, <1>11, <1>12, <1>15, <1>16 DEF ServerInv

LEMMA ServerStepKeeps ==
  ASSUME ServerInv, NEW s \in Servers, ServerStep(s)
  PROVE  ServerInv'
<1>1. PICK b, a, l : b = "begin" /\ a = "accept" /\ l = "loop"
  OBVIOUS
<1>2. ASSUME NEW place \in {"begin", "accept", "loop"}, ServerWaits(s, place)
      PROVE  ServerInv'
  BY <1>2, ServerWaitsKeeps
<1>3. b \in {"begin", "accept", "loop"} /\ a \in {"begin", "accept", "loop"}
      /\ l \in {"begin", "accept", "loop"}
  BY <1>1
<1>4. ServerBegins(s) \/ NothingToAccept(s) \/ ServerLoops(s) =>
        ServerWaits(s, b) \/ ServerWaits(s, a) \/ ServerWaits(s, l)
  BY <1>1 DEF ServerBegins, NothingToAccept, ServerLoops
<1> QED BY <1>2, <1>3, <1>4, ServerFailsKeeps, AcceptedKeeps, CreateReaderKeeps DEF ServerStep

-----------------------------------------------------------------------------
(* server_reader                                                           *)

\* A connection's reader has it to itself.
LEMMA ReaderAlone ==
  ASSUME ServerInv, NEW r \in Readers \cap live, meant[r] \in ConnFds
  PROVE  /\ file[meant[r]] \in Clients
         /\ \A q \in Readers \cap live : q # r /\ meant[q] \in ConnFds =>
              meant[q] # meant[r] /\ file[meant[q]] \in Clients
              /\ file[meant[q]] # file[meant[r]]
         /\ \A s \in Servers : pc[s] = "create" /\ cli_fd[s] \in ConnFds =>
              cli_fd[s] # meant[r] /\ file[cli_fd[s]] \in Clients
              /\ file[cli_fd[s]] # file[meant[r]]
<1>1. Kept /\ Files /\ KernelTypes
  BY DEF ServerInv
<1>2. r \in Keepers(meant[r])
  BY DEF Keepers
<1>3. file[meant[r]] # NULL /\ Keepers(meant[r]) = {r}
  BY <1>1, <1>2 DEF Kept
<1>4. file[meant[r]] \in Clients
  BY <1>1, <1>3 DEF KernelTypes
<1>5. ASSUME NEW k, NEW f \in ConnFds, k \in Keepers(f), k # r
      PROVE  f # meant[r] /\ file[f] \in Clients /\ file[f] # file[meant[r]]
  <2>1. f # meant[r] /\ file[f] # NULL
    BY <1>1, <1>3, <1>5 DEF Kept
  <2> QED BY <1>1, <2>1 DEF KernelTypes, Files
<1>6. \A q \in Readers \cap live : q \in Keepers(meant[q])
  BY DEF Keepers
<1>7. \A s \in Servers : pc[s] = "create" => s \in Keepers(cli_fd[s]) /\ s # r
  BY FdFacts DEF Keepers
<1> QED BY <1>4, <1>5, <1>6, <1>7

LEMMA ReaderFacts ==
  ASSUME ServerInv, NEW r \in Readers, NEW place, At(r, place)
  PROVE  /\ Runs(r) /\ ~Suspended(r) /\ pc[r] = place /\ r \in live /\ r \in Coroutines
         /\ r \notin Servers /\ ~Down /\ unsent[r] \in Nat
         /\ place \notin {"send", "resend"} => unsent[r] = 0
         /\ place # "begin" =>
              fd[r] = meant[r] /\ meant[r] \in ConnFds /\ ClientOf(r) = file[meant[r]]
              /\ file[meant[r]] \in Clients
<1>1. /\ Runs(r) /\ ~Suspended(r) /\ pc[r] = place /\ r \in live /\ r \in Coroutines
      /\ r \notin Servers /\ ~Down /\ phase = "run" /\ current = r
  BY FdFacts, AtFacts
<1>2. unsent[r] \in Nat /\ (place \notin {"send", "resend"} => unsent[r] = 0)
  BY <1>1 DEF ServerInv, ServerTypes, Echoes
<1>3. ASSUME place # "begin"
      PROVE  fd[r] = meant[r] /\ meant[r] \in ConnFds /\ ClientOf(r) = file[meant[r]]
             /\ file[meant[r]] \in Clients
  <2>1. fd[r] \in Fds
    BY <1>1, <1>3 DEF ServerInv, Eventful
  <2>2. fd[r] = meant[r]
    BY <1>1, <1>3 DEF ServerInv, OwnFds
  <2>3. meant[r] \in ConnFds
    BY <2>1, <2>2, FdFacts DEF ServerInv, ServerTypes
  <2> QED BY <1>1, <2>2, <2>3, ReaderAlone DEF ClientOf
<1> QED BY <1>1, <1>2, <1>3

\* The bytes of one client move between the kernel and its reader.
LEMMA BytesMove ==
  ASSUME ServerInv, NEW r \in Readers \cap live, live' = live,
         \A q \in Readers : q # r => pc'[q] = pc[q] /\ unsent'[q] = unsent[q],
         \A s \in Servers : pc'[s] = "create" => pc[s] = "create",
         UNCHANGED <<cli_fd, meant, file, peer, sent, got>>,
         unsent'[r] # 0 => pc'[r] \in {"send", "resend"},
         meant[r] \in ConnFds /\ peer[file[meant[r]]] # "reset" =>
           input'[file[meant[r]]] + output'[file[meant[r]]] + unsent'[r]
             = input[file[meant[r]]] + output[file[meant[r]]] + unsent[r],
         \A c \in Clients : (meant[r] \in ConnFds => c # file[meant[r]]) =>
           input'[c] = input[c] /\ output'[c] = output[c],
         KernelTypes', ServerTypes'
  PROVE  Echoes'
<1>1. \A q \in Readers : unsent'[q] # 0 => q \in live /\ pc'[q] \in {"send", "resend"}
  BY DEF ServerInv, Echoes
<1>2. ASSUME NEW q \in Readers \cap live, meant[q] \in ConnFds, peer[file[meant[q]]] # "reset"
      PROVE  sent[file[meant[q]]] = input'[file[meant[q]]] + output'[file[meant[q]]]
                                    + got[file[meant[q]]] + unsent'[q]
  <2>1. PICK c : c = file[meant[q]]
    OBVIOUS
  <2>2. sent[c] = input[c] + output[c] + got[c] + unsent[q]
    BY <1>2, <2>1 DEF ServerInv, Echoes, Transit
  <2>3. CASE q = r
    <3>1. c \in Clients
      BY <1>2, <2>1, ReaderAlone
    <3>2. /\ input[c] \in Nat /\ output[c] \in Nat /\ got[c] \in Nat /\ unsent[r] \in Nat
          /\ input'[c] \in Nat /\ output'[c] \in Nat /\ unsent'[r] \in Nat
      BY <3>1 DEF ServerInv, KernelTypes, ServerTypes
    <3>3. input'[c] + output'[c] + unsent'[r] = input[c] + output[c] + unsent[r]
      BY <1>2, <2>1, <2>3
    <3>4. sent[c] = input'[c] + output'[c] + got[c] + unsent'[r]
      <4>1. sent[c] = input[c] + output[c] + got[c] + unsent[r]
        BY <2>2, <2>3
      <4> QED BY <3>2, <3>3, <4>1
    <3> QED BY <2>1, <2>3, <3>4
  <2>4. CASE q # r
    <3>1. c \in Clients /\ (meant[r] \in ConnFds => c # file[meant[r]])
      BY <1>2, <2>1, <2>4, ReaderAlone
    <3>2. input'[c] = input[c] /\ output'[c] = output[c] /\ unsent'[q] = unsent[q]
      BY <2>4, <3>1
    <3> QED BY <2>1, <2>2, <3>2
  <2> QED BY <2>3, <2>4
<1>3. ASSUME NEW s \in Servers, pc'[s] = "create", cli_fd[s] \in ConnFds,
             peer[file[cli_fd[s]]] # "reset"
      PROVE  sent[file[cli_fd[s]]] = input'[file[cli_fd[s]]] + output'[file[cli_fd[s]]]
                                     + got[file[cli_fd[s]]]
  <2>1. PICK c : c = file[cli_fd[s]]
    OBVIOUS
  <2>2. sent[c] = input[c] + output[c] + got[c] /\ pc[s] = "create"
    BY <1>3, <2>1 DEF ServerInv, Echoes, Transit
  <2>3. c \in Clients
    <3>1. s \in Keepers(cli_fd[s])
      BY <2>2 DEF Keepers
    <3>2. file[cli_fd[s]] # NULL
      BY <1>3, <3>1 DEF ServerInv, Kept
    <3> QED BY <1>3, <2>1, <3>2 DEF ServerInv, KernelTypes
  <2>4. meant[r] \in ConnFds => c # file[meant[r]]
    BY <1>3, <2>1, <2>2, ReaderAlone
  <2> QED BY <2>1, <2>2, <2>3, <2>4
<1>4. ASSUME NEW d \in Clients, peer[d] # "reset", \A f \in ConnFds : file[f] # d
      PROVE  sent[d] = input'[d] + output'[d] + got[d]
  BY <1>4 DEF ServerInv, Echoes, Transit
<1> QED BY <1>1, <1>2, <1>3, <1>4 DEF Echoes, Transit

\* It waits, having moved bytes of its client or none.
LEMMA ReaderWaitsKeeps ==
  ASSUME ServerInv, NEW r \in Readers, Runs(r), ~Suspended(r), r \in live,
         NEW f, f = meant[r], NEW writing \in BOOLEAN, NEW place \in {"recv", "resend"},
         WaitFor(r, f, writing, place),
         UNCHANGED <<cli_fd, owner, meant, file, peer, input, sent, got, fdlimit>>,
         err' \in [Clients -> BOOLEAN], some' \in [Readers -> BOOLEAN],
         NEW n \in Nat, unsent' = [unsent EXCEPT ![r] = n],
         n # 0 => place = "resend",
         output' \in [Clients -> Nat],
         meant[r] \in ConnFds /\ peer[file[meant[r]]] # "reset" =>
           output'[file[meant[r]]] + n = output[file[meant[r]]] + unsent[r],
         \A c \in Clients : (meant[r] \in ConnFds => c # file[meant[r]]) =>
           output'[c] = output[c]
  PROVE  ServerInv'
<1>1. /\ r \in Coroutines /\ r \notin Servers /\ f \in AnyFd /\ place \in Places
      /\ pc[r] # "create"
  BY FdFacts DEF ServerInv, ServerTypes, OwnFds, Places, AnyFd
<1>2. /\ SchedTypes' /\ (~Down' => Located' /\ Eventful' /\ Arguments')
      /\ OwnFds' /\ Kept' /\ Files'
      /\ live' = live
      /\ \A o \in Coroutines : pc'[o] = IF o = r THEN place ELSE pc[o]
  <2>1. r \in Readers => f = meant[r] /\ place \in {"recv", "send", "resend"}
    OBVIOUS
  <2>2. r \in Servers => f = ListenFd[r] /\ place = "accept"
    BY <1>1
  <2> QED BY <1>1, <2>1, <2>2, WaitKeeps
<1>3. unsent' \in [Readers -> Nat] /\ unsent'[r] = n
      /\ \A q \in Readers : q # r => unsent'[q] = unsent[q]
  BY DEF ServerInv, ServerTypes
<1>4. ServerTypes' /\ KernelTypes'
  BY <1>3 DEF ServerInv, ServerTypes, KernelTypes
<1>5. Echoes'
  <2>1. /\ \A q \in Readers : q # r => pc'[q] = pc[q] /\ unsent'[q] = unsent[q]
        /\ \A s \in Servers : pc'[s] = "create" => pc[s] = "create"
        /\ unsent'[r] # 0 => pc'[r] \in {"send", "resend"}
    BY <1>1, <1>2, <1>3, FdFacts
  <2>2. ASSUME meant[r] \in ConnFds, peer[file[meant[r]]] # "reset"
        PROVE  input'[file[meant[r]]] + output'[file[meant[r]]] + unsent'[r]
                 = input[file[meant[r]]] + output[file[meant[r]]] + unsent[r]
    <3>1. PICK c \in Clients : c = file[meant[r]]
      BY <2>2, ReaderAlone
    <3>2. output'[c] + n = output[c] + unsent[r] /\ input'[c] = input[c]
      BY <2>2, <3>1
    <3>3. /\ input[c] \in Nat /\ output[c] \in Nat /\ output'[c] \in Nat /\ unsent[r] \in Nat
      BY DEF ServerInv, KernelTypes, ServerTypes
    <3> QED BY <1>3, <3>1, <3>2, <3>3
  <2>3. UNCHANGED <<cli_fd, meant, file, peer, sent, got, input>>
    OBVIOUS
  <2> QED BY <1>2, <1>4, <2>1, <2>2, <2>3, BytesMove
<1> QED BY <1>2, <1>4, <1>5 DEF ServerInv

LEMMA ReaderBeginsKeeps ==
  ASSUME ServerInv, NEW r \in Readers, ReaderBegins(r)
  PROVE  ServerInv'
<1>1. At(r, "begin") /\ WaitFor(r, cli_fd[owner[r]], FALSE, "recv")
      /\ UNCHANGED <<cli_fd, readerVars, kernelVars>>
  BY DEF ReaderBegins
<1>2. /\ Runs(r) /\ ~Suspended(r) /\ pc[r] = "begin" /\ r \in live /\ ~Down
      /\ unsent[r] = 0
  BY <1>1, ReaderFacts
<1>3. PICK f : f = cli_fd[owner[r]]
  OBVIOUS
<1>4. f = meant[r]
  BY <1>2, <1>3 DEF ServerInv, Arguments
<1>5. PICK writing \in BOOLEAN : ~writing
  OBVIOUS
<1>6. PICK place \in {"recv", "resend"} : place = "recv"
  OBVIOUS
<1>7. WaitFor(r, f, writing, place)
  <2>1. writing = FALSE
    BY <1>5
  <2> QED BY <1>1, <1>3, <1>6, <2>1
<1>8. PICK n \in Nat : n = 0
  OBVIOUS
<1>9. unsent' = [unsent EXCEPT ![r] = n]
  BY <1>1, <1>2, <1>8 DEF ServerInv, ServerTypes, readerVars
<1>10. /\ UNCHANGED <<cli_fd, owner, meant, file, peer, input, sent, got, fdlimit>>
       /\ output' = output /\ err' \in [Clients -> BOOLEAN] /\ some' \in [Readers -> BOOLEAN]
       /\ output' \in [Clients -> Nat]
  BY <1>1 DEF ServerInv, ServerTypes, KernelTypes, readerVars, kernelVars
<1> QED BY <1>2, <1>4, <1>7, <1>8, <1>9, <1>10, ReaderWaitsKeeps

\* Waiting again, with the same bytes to send: a failed recv, or first send.
LEMMA WaitsAgainKeeps ==
  ASSUME ServerInv, NEW r \in Readers, NEW here \in {"recv", "send", "resend"}, At(r, here),
         NEW writing \in BOOLEAN, NEW place \in {"recv", "resend"},
         WaitFor(r, fd[r], writing, place),
         here # "recv" => place = "resend",
         UNCHANGED <<cli_fd, readerVars, file, peer, input, output, sent, got, fdlimit>>,
         err' \in [Clients -> BOOLEAN]
  PROVE  ServerInv'
<1>1. /\ Runs(r) /\ ~Suspended(r) /\ pc[r] = here /\ r \in live
      /\ unsent[r] \in Nat /\ fd[r] = meant[r] /\ (here = "recv" => unsent[r] = 0)
  BY ReaderFacts
<1>2. PICK f : f = fd[r]
  OBVIOUS
<1>3. WaitFor(r, f, writing, place) /\ f = meant[r]
  BY <1>1, <1>2
<1>4. PICK n \in Nat : n = unsent[r]
  BY <1>1
<1>5. unsent' = [unsent EXCEPT ![r] = n]
  BY <1>4 DEF ServerInv, ServerTypes, readerVars
<1>6. /\ UNCHANGED <<owner, meant>> /\ some' \in [Readers -> BOOLEAN]
      /\ output' \in [Clients -> Nat]
  BY DEF ServerInv, ServerTypes, KernelTypes, readerVars
<1>7. n # 0 => place = "resend"
  BY <1>1, <1>4
<1>8. /\ output'[file[meant[r]]] + n = output[file[meant[r]]] + unsent[r]
      /\ \A c \in Clients : output'[c] = output[c]
  BY <1>4
<1>9. UNCHANGED <<cli_fd, owner, meant, file, peer, input, sent, got, fdlimit>>
  BY <1>6
<1> QED BY <1>1, <1>3, <1>5, <1>6, <1>7, <1>8, <1>9, ReaderWaitsKeeps

LEMMA FailuresKeep ==
  ASSUME ServerInv, NEW r \in Readers, RecvFails(r) \/ FirstSendFails(r)
  PROVE  ServerInv'
<1>1. err' = [err EXCEPT ![ClientOf(r)] = FALSE]
      /\ UNCHANGED <<cli_fd, readerVars, file, peer, input, output, sent, got, fdlimit>>
  BY DEF RecvFails, FirstSendFails
<1>2. err' \in [Clients -> BOOLEAN]
  BY <1>1 DEF ServerInv, KernelTypes
<1>3. PICK recv, send, again, yes, no :
        recv = "recv" /\ send = "send" /\ again = "resend" /\ yes = TRUE /\ no = FALSE
  OBVIOUS
<1>4. /\ recv \in {"recv", "resend"} /\ again \in {"recv", "resend"}
      /\ recv \in {"recv", "send", "resend"} /\ send \in {"recv", "send", "resend"}
      /\ yes \in BOOLEAN /\ no \in BOOLEAN
  BY <1>3
<1>5. CASE RecvFails(r)
  <2>1. At(r, recv) /\ WaitFor(r, fd[r], no, recv)
    BY <1>3, <1>5 DEF RecvFails
  <2>2. recv # "recv" => recv = "resend"
    BY <1>3
  <2> QED BY <1>1, <1>2, <1>4, <2>1, <2>2, WaitsAgainKeeps
<1>6. CASE FirstSendFails(r)
  <2>1. At(r, send) /\ WaitFor(r, fd[r], yes, again)
    BY <1>3, <1>6 DEF FirstSendFails
  <2>2. send # "recv" => again = "resend"
    BY <1>3
  <2> QED BY <1>1, <1>2, <1>4, <2>1, <2>2, WaitsAgainKeeps
<1> QED BY <1>5, <1>6

LEMMA ReceivedKeeps ==
  ASSUME ServerInv, NEW r \in Readers, Received(r)
  PROVE  ServerInv'
<1>1. /\ At(r, "recv")
      /\ unsent' = [unsent EXCEPT ![r] = input[ClientOf(r)]]
      /\ some' = [some EXCEPT ![r] = FALSE]
      /\ input' = [input EXCEPT ![ClientOf(r)] = 0]
      /\ pc' = [pc EXCEPT ![r] = "send"]
      /\ UNCHANGED <<ready, treeVars, loopVars, live, status, fd, cli_fd, owner, meant,
                     file, peer, err, output, sent, got, fdlimit>>
  BY DEF Received
<1>2. PICK c : c = ClientOf(r)
  OBVIOUS
<1>3. /\ Runs(r) /\ ~Suspended(r) /\ pc[r] = "recv" /\ r \in live /\ r \in Coroutines
      /\ r \notin Servers /\ unsent[r] = 0 /\ meant[r] \in ConnFds /\ c = file[meant[r]]
      /\ c \in Clients
  BY <1>1, <1>2, ReaderFacts
<1>4. PICK place \in Places : place = "send"
  BY DEF Places
<1>5. /\ SchedTypes' /\ Located' /\ Eventful' /\ Arguments' /\ OwnFds'
      /\ \A o \in Coroutines : pc'[o] = IF o = r THEN place ELSE pc[o]
  <2>1. pc' = [pc EXCEPT ![r] = place] /\ pc[r] # "begin"
        /\ place \in {"recv", "send", "resend"}
    BY <1>1, <1>3, <1>4
  <2> QED BY <1>1, <1>3, <2>1, GoesOnKeeps
<1>6. /\ unsent'[r] = input[c] /\ \A q \in Readers : q # r => unsent'[q] = unsent[q]
      /\ input'[c] = 0 /\ \A d \in Clients : d # c => input'[d] = input[d]
      /\ input[c] \in Nat /\ output[c] \in Nat
      /\ unsent' \in [Readers -> Nat] /\ input' \in [Clients -> Nat]
  BY <1>1, <1>2, <1>3 DEF ServerInv, ServerTypes, KernelTypes
<1>7. ServerTypes' /\ KernelTypes' /\ Files'
  BY <1>1, <1>6 DEF ServerInv, ServerTypes, KernelTypes, Files
<1>8. Kept'
  <2>1. \A s \in Servers : pc'[s] = pc[s]
    BY <1>3, <1>5, FdFacts
  <2>2. \A f \in ConnFds : Keepers(f)' = Keepers(f)
    BY <1>1, <2>1 DEF Keepers
  <2> QED BY <1>1, <2>2 DEF ServerInv, Kept
<1>9. Echoes'
  <2>1. /\ \A q \in Readers : q # r => pc'[q] = pc[q]
        /\ \A s \in Servers : pc'[s] = pc[s]
        /\ pc'[r] \in {"send", "resend"}
    BY <1>3, <1>4, <1>5, FdFacts
  <2>2. input'[c] + output'[c] + unsent'[r] = input[c] + output[c] + unsent[r]
    BY <1>1, <1>3, <1>6
  <2>3. \A d \in Clients : d # c => input'[d] = input[d] /\ output'[d] = output[d]
    BY <1>1, <1>6
  <2> QED BY <1>1, <1>3, <1>6, <1>7, <2>1, <2>2, <2>3, BytesMove
<1> QED BY <1>5, <1>7, <1>8, <1>9 DEF ServerInv

LEMMA SendTakesKeeps ==
  ASSUME ServerInv, NEW r \in Readers, SendTakes(r)
  PROVE  ServerInv'
<1>1. PICK here \in {"send", "resend"} : At(r, here)
  BY DEF SendTakes
<1>2. PICK c : c = ClientOf(r)
  OBVIOUS
<1>3. /\ Runs(r) /\ ~Suspended(r) /\ r \in live /\ unsent[r] \in Nat
      /\ fd[r] = meant[r] /\ meant[r] \in ConnFds /\ c = file[meant[r]] /\ c \in Clients
  <2>1. here # "begin"
    BY <1>1
  <2> QED BY <1>1, <1>2, <2>1, ReaderFacts
<1>4. PICK room : room = SendBuffer - output[c]
  OBVIOUS
<1>5. PICK piece : piece = IF unsent[r] < room THEN unsent[r] ELSE room
  OBVIOUS
<1>6. PICK n : n = unsent[r] - piece
  OBVIOUS
<1>7. /\ room > 0
      /\ output' = [output EXCEPT ![c] = output[c] + piece]
      /\ unsent' = [unsent EXCEPT ![r] = n]
      /\ some' = [some EXCEPT ![r] = TRUE]
      /\ IF n > 0 THEN WaitFor(r, fd[r], TRUE, "resend") ELSE WaitFor(r, fd[r], FALSE, "recv")
      /\ UNCHANGED <<cli_fd, owner, meant, file, peer, err, input, sent, got, fdlimit>>
  BY <1>2, <1>4, <1>5, <1>6 DEF SendTakes, SentBytes, Left, Room
<1>8. output[c] \in Nat /\ SendBuffer \in Nat
  BY <1>3, ServerAssumption DEF ServerInv, KernelTypes
<1>9. room \in Int /\ piece \in Nat /\ n \in Nat /\ piece + n = unsent[r]
  BY <1>3, <1>4, <1>5, <1>6, <1>7, <1>8
<1>10. /\ output' \in [Clients -> Nat]
       /\ output'[c] = output[c] + piece
       /\ \A d \in Clients : d # c => output'[d] = output[d]
       /\ err' \in [Clients -> BOOLEAN] /\ some' \in [Readers -> BOOLEAN]
  BY <1>3, <1>7, <1>8, <1>9 DEF ServerInv, KernelTypes, ServerTypes
<1>11. output'[c] + n = output[c] + unsent[r]
  BY <1>3, <1>8, <1>9, <1>10
<1>12. PICK f : f = fd[r]
  OBVIOUS
<1>13. PICK recv, again, yes, no :
         recv = "recv" /\ again = "resend" /\ yes = TRUE /\ no = FALSE
  OBVIOUS
<1>14. PICK place \in {"recv", "resend"}, writing \in BOOLEAN :
         WaitFor(r, f, writing, place) /\ (n # 0 => place = "resend")
  <2>1. yes \in BOOLEAN /\ no \in BOOLEAN /\ recv \in {"recv", "resend"}
        /\ again \in {"recv", "resend"}
    BY <1>13
  <2>2. CASE n > 0
    <3>1. WaitFor(r, f, yes, again)
      BY <1>7, <1>12, <1>13, <2>2
    <3> QED BY <1>13, <2>1, <3>1
  <2>3. CASE ~(n > 0)
    <3>1. WaitFor(r, f, no, recv)
      BY <1>7, <1>12, <1>13, <2>3
    <3>2. n = 0
      BY <1>9, <2>3
    <3> QED BY <2>1, <3>1, <3>2
  <2> QED BY <2>2, <2>3
<1>15. f = meant[r]
  BY <1>3, <1>12
<1>16. /\ output'[file[meant[r]]] + n = output[file[meant[r]]] + unsent[r]
       /\ \A d \in Clients : d # file[meant[r]] => output'[d] = output[d]
  BY <1>3, <1>10, <1>11
<1>17. UNCHANGED <<cli_fd, owner, meant, file, peer, input, sent, got, fdlimit>>
       /\ unsent' = [unsent EXCEPT ![r] = n]
  BY <1>7
<1> QED BY <1>3, <1>9, <1>10, <1>14, <1>15, <1>16, <1>17, ReaderWaitsKeeps

LEMMA ResendFailsKeeps ==
  ASSUME ServerInv, NEW r \in Readers, ResendFails(r)
  PROVE  ServerInv'
<1>1. PICK here : here = "resend"
  OBVIOUS
<1>2. /\ At(r, here) /\ here # "begin" /\ peer[ClientOf(r)] = "reset"
      /\ err' = [err EXCEPT ![ClientOf(r)] = FALSE]
      /\ unsent' = [unsent EXCEPT ![r] = 0]
      /\ WaitFor(r, fd[r], FALSE, "recv")
      /\ UNCHANGED <<cli_fd, owner, meant, some, file, peer, input, output, sent, got,
                     fdlimit>>
  BY <1>1 DEF ResendFails
<1>3. /\ Runs(r) /\ ~Suspended(r) /\ r \in live
      /\ fd[r] = meant[r] /\ ClientOf(r) = file[meant[r]]
  BY <1>2, ReaderFacts
<1>4. PICK n \in Nat : n = 0
  OBVIOUS
<1>5. PICK f : f = fd[r]
  OBVIOUS
<1>6. PICK writing \in BOOLEAN : writing = FALSE
  OBVIOUS
<1>7. PICK place \in {"recv", "resend"} : place = "recv"
  OBVIOUS
<1>8. /\ WaitFor(r, f, writing, place) /\ f = meant[r]
      /\ unsent' = [unsent EXCEPT ![r] = n]
      /\ n # 0 => place = "resend"
  BY <1>2, <1>3, <1>4, <1>5, <1>6, <1>7
<1>9. /\ err' \in [Clients -> BOOLEAN] /\ some' \in [Readers -> BOOLEAN]
      /\ output' \in [Clients -> Nat]
      /\ \A c \in Clients : output'[c] = output[c]
  BY <1>2 DEF ServerInv, KernelTypes, ServerTypes
<1>10. peer[file[meant[r]]] = "reset"
  BY <1>2, <1>3
<1> QED BY <1>2, <1>3, <1>8, <1>9, <1>10, ReaderWaitsKeeps

\* The end of a reader: the client keeps what it got, or has reset.
LEMMA ClosesKeeps ==
  ASSUME ServerInv, NEW r \in Readers, NEW here \in {"recv", "resend"}, At(r, here),
         Closes(r), UNCHANGED <<input, output, sent, got, fdlimit>>,
         unsent[r] = 0 \/ peer[ClientOf(r)] = "reset"
  PROVE  ServerInv'
<1>1. PICK c, f : c = ClientOf(r) /\ f = fd[r]
  OBVIOUS
<1>2. /\ Runs(r) /\ ~Suspended(r) /\ r \in live /\ r \in Coroutines /\ r \notin Servers
      /\ f = meant[r] /\ f \in ConnFds /\ c = file[f] /\ c \in Clients /\ f \in Fds
  <2>1. here # "begin"
    OBVIOUS
  <2> QED BY <1>1, <2>1, ReaderFacts, FdFacts
<1>3. PICK how : how = IF peer[c] = "reset" THEN peer[c] ELSE "gone"
  OBVIOUS
<1>4. /\ file' = [file EXCEPT ![f] = NULL] /\ peer' = [peer EXCEPT ![c] = how]
      /\ err' = [err EXCEPT ![c] = FALSE] /\ unsent' = [unsent EXCEPT ![r] = 0]
      /\ UNCHANGED <<cli_fd, owner, meant, some>>
      /\ Exit(r, {f})
  BY <1>1, <1>3 DEF Closes
<1>5. /\ KernelTypes /\ ServerTypes /\ Kept /\ Files /\ how \in {"reset", "gone"} /\ c # NULL
  BY <1>2, <1>3, FdFacts DEF ServerInv
<1>6. /\ \A g \in ConnFds : file'[g] = IF g = f THEN NULL ELSE file[g]
      /\ \A d \in Clients : peer'[d] = IF d = c THEN how ELSE peer[d]
      /\ \A q \in Readers : unsent'[q] = IF q = r THEN 0 ELSE unsent[q]
  BY <1>2, <1>4, <1>5 DEF KernelTypes, ServerTypes
<1>7. PICK closed : closed = {f}
  OBVIOUS
<1>8. /\ SchedTypes' /\ Located' /\ Eventful' /\ Arguments' /\ OwnFds'
      /\ live' = live \ {r} /\ pc' = pc
  <2>1. \A g \in closed \cap Fds : waiting[g] = NULL
    BY <1>1, <1>2, <1>7, OwnFdIsFree
  <2> QED BY <1>2, <1>4, <1>7, <2>1, ExitKeeps
<1>9. ServerTypes' /\ KernelTypes'
  BY <1>2, <1>4, <1>5 DEF ServerInv, ServerTypes, KernelTypes
<1>10. \A g \in ConnFds : g # f /\ file[g] # NULL => file[g] # c
  BY <1>2, <1>5 DEF Files
<1>11. Files'
  BY <1>5, <1>6, <1>10 DEF Files, KernelTypes
<1>12. Kept'
  <2>1. Keepers(f) = {r}
    <3>1. r \in Keepers(f)
      BY <1>2 DEF Keepers
    <3> QED BY <1>2, <1>5, <3>1 DEF Kept
  <2>2. Keepers(f)' = {}
    <3>1. \A q \in Readers \cap live' : meant[q] # f
      BY <1>8, <2>1 DEF Keepers
    <3>2. \A s \in Servers : ~(pc[s] = "create" /\ cli_fd[s] = f)
      BY <1>2, <2>1 DEF Keepers
    <3> QED BY <1>4, <1>8, <3>1, <3>2 DEF Keepers
  <2>3. \A g \in ConnFds : g # f => Keepers(g)' = Keepers(g)
    BY <1>2, <1>4, <1>8 DEF Keepers
  <2> QED BY <1>5, <1>6, <2>2, <2>3 DEF Kept
<1>13. Echoes'
  <2>1. \A q \in Readers : unsent'[q] # 0 => q \in live' /\ pc[q] \in {"send", "resend"}
    BY <1>6, <1>8 DEF ServerInv, Echoes
  <2>2. ASSUME NEW q \in Readers \cap live', meant[q] \in ConnFds,
               peer'[file'[meant[q]]] # "reset"
        PROVE  sent[file'[meant[q]]] = Transit(file'[meant[q]]) + unsent'[q]
    <3>1. q \in live /\ q # r
      BY <1>8, <2>2
    <3>2. meant[q] # f /\ file[meant[q]] \in Clients /\ file[meant[q]] # c
      BY <1>2, <2>2, <3>1, ReaderAlone
    <3>3. file'[meant[q]] = file[meant[q]] /\ peer'[file[meant[q]]] = peer[file[meant[q]]]
          /\ unsent'[q] = unsent[q]
      BY <1>6, <2>2, <3>1, <3>2
    <3> QED BY <2>2, <3>1, <3>3 DEF ServerInv, Echoes
  <2>3. ASSUME NEW s \in Servers, pc[s] = "create", cli_fd[s] \in ConnFds,
               peer'[file'[cli_fd[s]]] # "reset"
        PROVE  sent[file'[cli_fd[s]]] = Transit(file'[cli_fd[s]])
    <3>1. cli_fd[s] # f /\ file[cli_fd[s]] \in Clients /\ file[cli_fd[s]] # c
      BY <1>2, <2>3, ReaderAlone
    <3>2. file'[cli_fd[s]] = file[cli_fd[s]] /\ peer'[file[cli_fd[s]]] = peer[file[cli_fd[s]]]
      BY <1>6, <2>3, <3>1
    <3> QED BY <2>3, <3>2 DEF ServerInv, Echoes
  <2>4. ASSUME NEW d \in Clients, peer'[d] # "reset", \A g \in ConnFds : file'[g] # d
        PROVE  sent[d] = Transit(d)
    <3>1. CASE d = c
      <4>1. peer[c] # "reset" /\ unsent[r] = 0
        BY <1>1, <1>3, <1>6, <2>4, <3>1
      <4>2. sent[c] = Transit(c) + unsent[r]
        BY <1>2, <4>1 DEF ServerInv, Echoes
      <4>3. Transit(c) \in Nat
        BY <1>2, <1>5 DEF Transit, KernelTypes
      <4> QED BY <3>1, <4>1, <4>2, <4>3
    <3>2. CASE d # c
      <4>1. peer[d] # "reset"
        BY <1>6, <2>4, <3>2
      <4>2. \A g \in ConnFds : file[g] # d
        BY <1>2, <1>6, <2>4, <3>2
      <4> QED BY <4>1, <4>2 DEF ServerInv, Echoes
    <3> QED BY <3>1, <3>2
  <2> QED BY <1>4, <1>8, <2>1, <2>2, <2>3, <2>4 DEF Echoes, Transit
<1> QED BY <1>8, <1>9, <1>11, <1>12, <1>13 DEF ServerInv

LEMMA SigPipeKeeps ==
  ASSUME ServerInv, NEW r \in Readers, SigPipe(r)
  PROVE  ServerInv'
<1>1. /\ phase' = "killed"
      /\ UNCHANGED <<ready, treeVars, events, last, current, back, live, status, fd, pc,
                     cli_fd, readerVars, kernelVars>>
  BY DEF SigPipe
<1>2. SchedTypes' /\ Down'
  BY <1>1 DEF ServerInv, SchedTypes, Down, treeVars
<1>3. ServerTypes' /\ KernelTypes' /\ OwnFds' /\ Kept' /\ Files' /\ Echoes'
  BY <1>1, OthersKeep
<1> QED BY <1>2, <1>3 DEF ServerInv

LEMMA ReaderStepKeeps ==
  ASSUME ServerInv, NEW r \in Readers, ReaderStep(r)
  PROVE  ServerInv'
<1>1. PICK recv, again : recv = "recv" /\ again = "resend"
  OBVIOUS
<1>2. recv \in {"recv", "resend"} /\ again \in {"recv", "resend"}
  BY <1>1
<1>3. CASE EndOfInput(r)
  <2>1. At(r, recv) /\ Closes(r)
    BY <1>1, <1>3 DEF EndOfInput
  <2>2. unsent[r] = 0
    BY <1>1, <2>1, ReaderFacts
  <2>3. UNCHANGED <<input, output, sent, got, fdlimit>>
    BY <2>1 DEF Closes
  <2> QED BY <1>2, <2>1, <2>2, <2>3, ClosesKeeps
<1>4. CASE ResendFailsAtOnce(r)
  <2>1. At(r, again) /\ Closes(r) /\ peer[ClientOf(r)] = "reset"
    BY <1>1, <1>4 DEF ResendFailsAtOnce
  <2>2. UNCHANGED <<input, output, sent, got, fdlimit>>
    BY <2>1 DEF Closes
  <2> QED BY <1>2, <2>1, <2>2, ClosesKeeps
<1> QED BY <1>3, <1>4, ReaderBeginsKeeps, ReceivedKeeps, FailuresKeep, SendTakesKeeps,
           ResendFailsKeeps, SigPipeKeeps DEF ReaderStep

-----------------------------------------------------------------------------
(* The clients                                                             *)

\* A client acts, or the kernel for it.
LEMMA ClientKeeps ==
  ASSUME ServerInv, NEW c \in Clients,
         UNCHANGED <<schedVars, cli_fd, readerVars, file, fdlimit>>, KernelTypes',
         \A d \in Clients : d # c =>
           /\ peer'[d] = peer[d] /\ input'[d] = input[d] /\ output'[d] = output[d]
           /\ sent'[d] = sent[d] /\ got'[d] = got[d],
         peer'[c] # "reset" => peer[c] # "reset",
         peer[c] \in {"open", "shut", "reset"} => peer'[c] \in {"open", "shut", "reset"},
         peer'[c] # "reset" => sent'[c] - (input'[c] + output'[c] + got'[c])
                                 = sent[c] - (input[c] + output[c] + got[c])
  PROVE  ServerInv'
<1>1. /\ UNCHANGED <<ready, waiting, epoll, events, phase, current, back, live, fd, pc>>
      /\ UNCHANGED <<owner, meant, unsent, some>>
      /\ KernelTypes /\ ServerTypes
  BY DEF ServerInv, schedVars, treeVars, loopVars, readerVars
<1>2. SchedTypes' /\ ServerTypes' /\ OwnFds'
  BY <1>1 DEF ServerInv, SchedTypes, ServerTypes, OwnFds
<1>3. ~Down' => Located' /\ Eventful' /\ Arguments'
  <2>1. Down' <=> Down
    BY <1>1 DEF Down
  <2>2. ~Down => Located'
    BY <1>1 DEF ServerInv, Located, IsReady, Runs, Suspended
  <2>3. ~Down => Eventful'
    BY <1>1 DEF ServerInv, Eventful, EventsHaveWaiters
  <2>4. ~Down => Arguments'
    BY <1>1 DEF ServerInv, Arguments, Runs
  <2> QED BY <2>1, <2>2, <2>3, <2>4
<1>4. Kept'
  BY <1>1 DEF ServerInv, Kept, Keepers
<1>5. Files'
  BY <1>1 DEF ServerInv, Files, KernelTypes
<1>6. ASSUME NEW d \in Clients, peer'[d] # "reset", NEW n \in Nat,
             peer[d] # "reset" => sent[d] = input[d] + output[d] + got[d] + n
      PROVE  sent'[d] = input'[d] + output'[d] + got'[d] + n
  <2>1. CASE d = c
    <3>1. sent[d] = input[d] + output[d] + got[d] + n
      BY <1>6, <2>1
    <3>2. /\ sent[d] \in Nat /\ input[d] \in Nat /\ output[d] \in Nat /\ got[d] \in Nat
          /\ sent'[d] \in Nat /\ input'[d] \in Nat /\ output'[d] \in Nat /\ got'[d] \in Nat
      BY <1>1 DEF KernelTypes
    <3>3. sent'[d] - (input'[d] + output'[d] + got'[d])
            = sent[d] - (input[d] + output[d] + got[d])
      BY <1>6, <2>1
    <3> QED BY <3>1, <3>2, <3>3
  <2>2. CASE d # c
    BY <1>6, <2>2
  <2> QED BY <2>1, <2>2
<1>7. Echoes'
  <2>1. \A r \in Readers : unsent[r] # 0 => r \in live /\ pc[r] \in {"send", "resend"}
    BY DEF ServerInv, Echoes
  <2>2. ASSUME NEW r \in Readers \cap live, meant[r] \in ConnFds,
               peer'[file[meant[r]]] # "reset"
        PROVE  sent'[file[meant[r]]] = input'[file[meant[r]]] + output'[file[meant[r]]]
                                       + got'[file[meant[r]]] + unsent[r]
    <3>1. PICK d \in Clients : d = file[meant[r]]
      BY <2>2, ReaderAlone
    <3>2. peer[d] # "reset" => sent[d] = input[d] + output[d] + got[d] + unsent[r]
      BY <2>2, <3>1 DEF ServerInv, Echoes, Transit
    <3>3. unsent[r] \in Nat
      BY <1>1 DEF ServerTypes
    <3> QED BY <1>6, <2>2, <3>1, <3>2, <3>3
  <2>3. ASSUME NEW s \in Servers, pc[s] = "create", cli_fd[s] \in ConnFds,
               peer'[file[cli_fd[s]]] # "reset"
        PROVE  sent'[file[cli_fd[s]]] = input'[file[cli_fd[s]]] + output'[file[cli_fd[s]]]
                                        + got'[file[cli_fd[s]]]
    <3>1. s \in Keepers(cli_fd[s])
      BY <2>3 DEF Keepers
    <3>2. PICK d \in Clients : d = file[cli_fd[s]]
      BY <1>1, <2>3, <3>1 DEF ServerInv, Kept, KernelTypes
    <3>3. peer[d] # "reset" => sent[d] = input[d] + output[d] + got[d]
      BY <2>3, <3>2 DEF ServerInv, Echoes, Transit
    <3>4. PICK n \in Nat : n = 0
      OBVIOUS
    <3>5. peer[d] # "reset" => sent[d] = input[d] + output[d] + got[d] + n
      BY <1>1, <3>3, <3>4 DEF KernelTypes
    <3>6. sent'[d] = input'[d] + output'[d] + got'[d] + n
      BY <1>6, <2>3, <3>2, <3>5
    <3>7. input'[d] \in Nat /\ output'[d] \in Nat /\ got'[d] \in Nat
      BY DEF KernelTypes
    <3>8. sent'[d] = input'[d] + output'[d] + got'[d]
      BY <3>4, <3>6, <3>7
    <3> QED BY <3>2, <3>8
  <2>4. ASSUME NEW d \in Clients, peer'[d] # "reset", \A f \in ConnFds : file[f] # d
        PROVE  sent'[d] = input'[d] + output'[d] + got'[d]
    <3>1. peer[d] # "reset" => sent[d] = input[d] + output[d] + got[d]
      BY <2>4 DEF ServerInv, Echoes, Transit
    <3>2. PICK n \in Nat : n = 0
      OBVIOUS
    <3>3. peer[d] # "reset" => sent[d] = input[d] + output[d] + got[d] + n
      BY <1>1, <3>1, <3>2 DEF KernelTypes
    <3>4. sent'[d] = input'[d] + output'[d] + got'[d] + n
      BY <1>6, <2>4, <3>3
    <3>5. input'[d] \in Nat /\ output'[d] \in Nat /\ got'[d] \in Nat
      BY DEF KernelTypes
    <3> QED BY <3>2, <3>4, <3>5
  <2> QED BY <1>1, <2>1, <2>2, <2>3, <2>4 DEF Echoes, Transit
<1> QED BY <1>2, <1>3, <1>4, <1>5, <1>7 DEF ServerInv

LEMMA ClientStepKeeps ==
  ASSUME ServerInv, NEW c \in Clients, ClientStep(c)
  PROVE  ServerInv'
<1>1. /\ UNCHANGED <<schedVars, cli_fd, readerVars>> /\ KernelTypes
      /\ sent[c] \in Nat /\ got[c] \in Nat /\ input[c] \in Nat /\ output[c] \in Nat
  BY DEF ServerInv, KernelTypes, ClientStep
<1>2. CASE Connect(c)
  <2>1. KernelTypes'
    BY <1>1, <1>2 DEF Connect, KernelTypes
  <2> QED BY <1>1, <1>2, <2>1, ClientKeeps DEF Connect, KernelTypes
<1>3. CASE Sends(c)
  <2>1. PICK n \in 1 .. MaxBytes[c] - sent[c] :
          /\ sent' = [sent EXCEPT ![c] = sent[c] + n]
          /\ input' = [input EXCEPT ![c] = input[c] + n]
    BY <1>3 DEF Sends
  <2>2. /\ UNCHANGED <<file, peer, err, output, got, fdlimit>> /\ n \in Nat
    BY <1>1, <1>3, ServerAssumption DEF Sends
  <2>3. KernelTypes'
    BY <1>1, <2>1, <2>2 DEF KernelTypes
  <2>4. sent'[c] = sent[c] + n /\ input'[c] = input[c] + n
        /\ \A d \in Clients : d # c => sent'[d] = sent[d] /\ input'[d] = input[d]
    BY <1>1, <2>1 DEF KernelTypes
  <2>5. sent'[c] - (input'[c] + output'[c] + got'[c])
          = sent[c] - (input[c] + output[c] + got[c])
    BY <1>1, <2>2, <2>4
  <2> QED BY <1>1, <2>2, <2>3, <2>4, <2>5, ClientKeeps
<1>4. CASE Receives(c)
  <2>1. /\ got' = [got EXCEPT ![c] = got[c] + output[c]]
        /\ output' = [output EXCEPT ![c] = 0]
        /\ UNCHANGED <<file, peer, err, input, sent, fdlimit>>
    BY <1>4 DEF Receives
  <2>2. KernelTypes'
    BY <1>1, <2>1 DEF KernelTypes
  <2>3. got'[c] = got[c] + output[c] /\ output'[c] = 0
        /\ \A d \in Clients : d # c => got'[d] = got[d] /\ output'[d] = output[d]
    BY <1>1, <2>1 DEF KernelTypes
  <2>4. sent'[c] - (input'[c] + output'[c] + got'[c])
          = sent[c] - (input[c] + output[c] + got[c])
    BY <1>1, <2>1, <2>3
  <2> QED BY <1>1, <2>1, <2>2, <2>3, <2>4, ClientKeeps
<1>5. CASE Shuts(c)
  <2>1. KernelTypes'
    BY <1>1, <1>5 DEF Shuts, KernelTypes
  <2> QED BY <1>1, <1>5, <2>1, ClientKeeps DEF Shuts, KernelTypes
<1>6. CASE Resets(c)
  <2>1. KernelTypes'
    BY <1>1, <1>6 DEF Resets, KernelTypes
  <2> QED BY <1>1, <1>6, <2>1, ClientKeeps DEF Resets, KernelTypes
<1>7. CASE GivesUp(c)
  <2>1. KernelTypes'
    BY <1>1, <1>7 DEF GivesUp, KernelTypes
  <2> QED BY <1>1, <1>7, <2>1, ClientKeeps DEF GivesUp, KernelTypes
<1> QED BY <1>2, <1>3, <1>4, <1>5, <1>6, <1>7 DEF ClientStep, TcpStep

-----------------------------------------------------------------------------
(* The invariant                                                           *)

LEMMA ServerPollKeeps ==
  ASSUME ServerInv, ServerPoll
  PROVE  ServerInv'
<1>1. /\ phase = "poll" /\ ready = <<>> /\ phase' \in {"check", "events"}
      /\ events' = {<<f, HangUp(f)>> : f \in {g \in epoll : Happens(g)}}
      /\ UNCHANGED <<cli_fd, readerVars, kernelVars, ready, treeVars, live, fd, pc, back>>
  BY DEF ServerPoll, Poll
<1>2. epoll \in SUBSET Fds
  BY DEF ServerInv, SchedTypes
<1>3. \A f \in Fds : HangUp(f) \in BOOLEAN
  BY DEF HangUp
<1>4. events' \in SUBSET (Fds \X BOOLEAN)
  <2> SUFFICES ASSUME NEW e \in events' PROVE e \in Fds \X BOOLEAN
    OBVIOUS
  <2>1. PICK f \in epoll : e = <<f, HangUp(f)>>
    BY <1>1
  <2> QED BY <1>2, <1>3, <2>1
<1>5. \A e \in events' : e[1] \in epoll /\ e = <<e[1], HangUp(e[1])>>
  BY <1>1
<1>6. \A e, g \in events' : e[1] = g[1] => e = g
  BY <1>5
<1>7. \A co \in Coroutines : ~IsReady(co)
  BY <1>1 DEF IsReady
<1>8. ~Down /\ phase # "run"
  BY <1>1 DEF Down
<1> QED BY <1>1, <1>4, <1>5, <1>6, <1>7, <1>8, LoopKeeps

LEMMA SchedulerStepKeeps ==
  ASSUME ServerInv, SchedulerStep
  PROVE  ServerInv'
<1>1. UNCHANGED <<cli_fd, readerVars, kernelVars>>
  BY DEF SchedulerStep
<1>2. CASE CheckDone
  <2>1. /\ ~Down /\ phase # "run" /\ phase' \in {"check", "ready", "poll", "events", "returned"}
        /\ UNCHANGED <<ready, treeVars, live, fd, pc, back, events>>
    BY <1>2 DEF CheckDone, Down
  <2> QED BY <1>1, <2>1, LoopKeeps
<1>3. CASE ReadyEmpty
  <2>1. /\ ~Down /\ phase # "run" /\ phase' \in {"check", "ready", "poll", "events", "returned"}
        /\ UNCHANGED <<ready, treeVars, live, fd, pc, back, events>>
    BY <1>3 DEF ReadyEmpty, Down
  <2> QED BY <1>1, <2>1, LoopKeeps
<1>4. CASE PollSkipped
  <2>1. /\ ~Down /\ phase # "run" /\ phase' \in {"check", "ready", "poll", "events", "returned"}
        /\ UNCHANGED <<ready, treeVars, live, fd, pc, back, events>>
    BY <1>4 DEF PollSkipped, Down
  <2> QED BY <1>1, <2>1, LoopKeeps
<1>5. CASE EventsDone
  <2>1. /\ ~Down /\ phase # "run" /\ phase' \in {"check", "ready", "poll", "events", "returned"}
        /\ UNCHANGED <<ready, treeVars, live, fd, pc, back, events>>
    BY <1>5 DEF EventsDone, Down
  <2> QED BY <1>1, <2>1, LoopKeeps
<1>6. CASE ResumeReady
  BY <1>1, <1>6, ResumeReadyKeeps
<1>7. CASE ResumeWaiting
  BY <1>1, <1>7, ResumeWaitingKeeps
<1>8. CASE \E co \in Coroutines : Awake(co)
  BY <1>1, <1>8, AwakeKeeps
<1> QED BY <1>2, <1>3, <1>4, <1>5, <1>6, <1>7, <1>8 DEF SchedulerStep, Scheduler

\* The queue main leaves holds every server coroutine once.
LEMMA InitialQueue ==
  /\ SetToSeq(Servers) \in Seq(Servers)
  /\ \A j, k \in DOMAIN SetToSeq(Servers) :
       SetToSeq(Servers)[j] = SetToSeq(Servers)[k] => j = k
<1>1. Cardinality(Servers) \in Nat /\ ExistsBijection(1 .. Cardinality(Servers), Servers)
  BY ServerAssumption, FS_CardinalityType
<1>2. \E q \in [1 .. Cardinality(Servers) -> Servers] : IsInjective(q)
  BY <1>1 DEF ExistsBijection, Bijection, Injection
<1>3. /\ SetToSeq(Servers) \in [1 .. Cardinality(Servers) -> Servers]
      /\ IsInjective(SetToSeq(Servers))
  BY <1>2 DEF SetToSeq
<1> QED BY <1>1, <1>3 DEF IsInjective

LEMMA InitInv == ServerInit => ServerInv
<1> SUFFICES ASSUME ServerInit PROVE ServerInv
  OBVIOUS
<1>1. PICK q : q = SetToSeq(Servers)
  OBVIOUS
<1>2. q \in Seq(Servers) /\ \A j, k \in DOMAIN q : q[j] = q[k] => j = k
  BY <1>1, InitialQueue
<1>3. /\ ready = q /\ waiting = [f \in AnyFd |-> NULL] /\ epoll = {} /\ events = {}
      /\ phase = "check" /\ current = NULL /\ back = "ready"
      /\ fd = [co \in Coroutines |-> -1] /\ pc = [co \in Coroutines |-> "begin"]
      /\ live = {q[i] : i \in DOMAIN q}
  BY <1>1 DEF ServerInit, SchedulerInit, ToSet
<1>4. live \subseteq Servers /\ \A k \in DOMAIN q : q[k] \in Servers
  BY <1>2, <1>3
<1>5. Servers \subseteq Coroutines /\ -1 \in AnyFd
  BY FdFacts
<1>6. SchedTypes
  <2>1. q \in Seq(Coroutines)
    BY <1>2, <1>5
  <2> QED BY <1>3, <1>4, <1>5, <2>1 DEF SchedTypes, Places
<1>7. /\ cli_fd = [s \in Servers |-> -1] /\ owner = [r \in Readers |-> NULL]
      /\ meant = [r \in Readers |-> -1] /\ unsent = [r \in Readers |-> 0]
      /\ some = [r \in Readers |-> FALSE]
  BY DEF ServerInit
<1>8. ServerTypes
  BY <1>7 DEF ServerTypes
<1>9. KernelTypes
  BY DEF ServerInit, TcpInit, KernelTypes
<1>10. Located
  <2>1. \A co \in Coroutines : IsReady(co) => co \in live
    BY <1>3 DEF IsReady
  <2>2. \A co \in live : IsReady(co)
    BY <1>3 DEF IsReady
  <2>3. \A co \in Coroutines : ~Runs(co) /\ pc[co] = "begin"
    BY <1>3 DEF Runs
  <2> QED BY <1>2, <1>3, <2>1, <2>2, <2>3 DEF Located
<1>11. Eventful
  BY <1>3, FdFacts DEF Eventful, EventsHaveWaiters
<1>12. \A r \in Readers : r \notin live
  BY <1>4 DEF Readers
<1>13. Arguments
  BY <1>12 DEF Arguments
<1>14. OwnFds
  BY <1>3, <1>12, FdFacts DEF OwnFds
<1>15. \A f \in ConnFds : file[f] = NULL
  BY DEF ServerInit, TcpInit
<1>16. Kept
  <2>1. \A s \in Servers : pc[s] # "create"
    BY <1>3, FdFacts
  <2>2. \A f \in ConnFds : Keepers(f) = {}
    BY <1>12, <2>1 DEF Keepers
  <2> QED BY <1>15, <2>2 DEF Kept
<1>17. Files
  BY <1>15 DEF Files
<1>18. Echoes
  <2>1. \A r \in Readers : unsent[r] = 0
    BY <1>7
  <2>2. \A s \in Servers : pc[s] # "create"
    BY <1>3, FdFacts
  <2>3. \A c \in Clients : sent[c] = 0 /\ input[c] = 0 /\ output[c] = 0 /\ got[c] = 0
    BY DEF ServerInit, TcpInit
  <2> QED BY <1>12, <2>1, <2>2, <2>3 DEF Echoes, Transit
<1> QED BY <1>6, <1>8, <1>9, <1>10, <1>11, <1>13, <1>14, <1>16, <1>17, <1>18 DEF ServerInv

LEMMA NothingHappens ==
  ASSUME ServerInv, UNCHANGED serverVars
  PROVE  ServerInv'
<1>1. /\ UNCHANGED <<cli_fd, readerVars, kernelVars, live, fd, pc>>
      /\ UNCHANGED <<ready, waiting, epoll, events, phase, current, back>>
  BY DEF serverVars, schedVars, treeVars, loopVars
<1>2. SchedTypes'
  BY <1>1 DEF ServerInv, SchedTypes
<1>3. ~Down' => Located' /\ Eventful' /\ Arguments'
  <2>1. (Down' <=> Down) /\ (~Down => Located /\ Eventful /\ Arguments)
    BY <1>1 DEF ServerInv, Down
  <2>2. Located => Located'
    BY <1>1 DEF Located, IsReady, Suspended, Runs
  <2>3. Eventful => Eventful'
    BY <1>1 DEF Eventful, EventsHaveWaiters
  <2>4. Arguments => Arguments'
    BY <1>1 DEF Arguments, Runs, readerVars
  <2> QED BY <2>1, <2>2, <2>3, <2>4
<1>4. ServerTypes' /\ KernelTypes' /\ OwnFds' /\ Kept' /\ Files' /\ Echoes'
  BY <1>1, OthersKeep
<1> QED BY <1>2, <1>3, <1>4 DEF ServerInv

LEMMA NextKeeps ==
  ASSUME ServerInv, [ServerNext]_serverVars
  PROVE  ServerInv'
<1>1. CASE SchedulerStep
  BY <1>1, SchedulerStepKeeps
<1>2. CASE ServerPoll
  BY <1>2, ServerPollKeeps
<1>3. ASSUME NEW s \in Servers, ServerStep(s) PROVE ServerInv'
  BY <1>3, ServerStepKeeps
<1>4. ASSUME NEW r \in Readers, ReaderStep(r) PROVE ServerInv'
  BY <1>4, ReaderStepKeeps
<1>5. ASSUME NEW c \in Clients, ClientStep(c) PROVE ServerInv'
  BY <1>5, ClientStepKeeps
<1>6. CASE UNCHANGED serverVars
  BY <1>6, NothingHappens
<1> QED BY <1>1, <1>2, <1>3, <1>4, <1>5, <1>6 DEF ServerNext, ProcessStep

\* The inductive invariant: scheduler, coroutines and kernel agree about every
\* coroutine, fd and byte.
THEOREM ServerInvariant == ServerSpec => []ServerInv
<1>1. ServerInit => ServerInv
  BY InitInv
<1>2. ServerInv /\ [ServerNext]_serverVars => ServerInv'
  BY NextKeeps
<1> QED BY <1>1, <1>2, PTL DEF ServerSpec

-----------------------------------------------------------------------------
(* The scheduler's consistency                                             *)

\* Whoever exists is counted once.
LEMMA CountedOnce ==
  ASSUME ServerInv, ~Down, NEW co \in live
  PROVE  Cardinality({k \in DOMAIN ready : ready[k] = co})
         + Cardinality({f \in AnyFd : waiting[f] = co /\ fd[co] = f})
         + (IF Runs(co) /\ ~Suspended(co) THEN 1 ELSE 0) = 1
<1> DEFINE Queued == {k \in DOMAIN ready : ready[k] = co}
           Waits == {f \in AnyFd : waiting[f] = co /\ fd[co] = f}
<1>1. Located /\ SchedTypes /\ co \in Coroutines /\ co # NULL /\ fd[co] \in AnyFd
  BY FdFacts DEF ServerInv, SchedTypes
<1>2. Cardinality({}) = 0 /\ \A x : Cardinality({x}) = 1
  BY FS_EmptySet, FS_Singleton
<1>3. CASE IsReady(co)
  <2>1. PICK k \in DOMAIN ready : ready[k] = co
    BY <1>3 DEF IsReady
  <2>2. Queued = {k}
    BY <1>1, <2>1 DEF Located
  <2>3. pc[co] = "begin" /\ ~Runs(co)
    BY <1>1, <1>3 DEF Located
  <2>4. Waits = {}
    BY <1>1, <2>3 DEF Located
  <2>5. Cardinality(Queued) = 1 /\ Cardinality(Waits) = 0
    BY <1>2, <2>2, <2>4
  <2> QED BY <2>3, <2>5
<1>4. CASE Suspended(co)
  <2>1. Waits = {fd[co]}
    BY <1>1, <1>4 DEF Suspended
  <2>2. pc[co] # "begin"
    BY <1>1, <1>4 DEF Located, Suspended
  <2>3. Queued = {}
    BY <1>1, <2>2 DEF Located, IsReady
  <2>4. Cardinality(Queued) = 0 /\ Cardinality(Waits) = 1
    BY <1>2, <2>1, <2>3
  <2> QED BY <1>4, <2>4
<1>5. CASE ~IsReady(co) /\ ~Suspended(co)
  <2>1. Runs(co)
    BY <1>1, <1>5 DEF Located
  <2>2. Queued = {} /\ Waits = {}
    BY <1>1, <1>5 DEF IsReady, Suspended
  <2>3. Cardinality(Queued) = 0 /\ Cardinality(Waits) = 0
    BY <1>2, <2>2
  <2> QED BY <1>5, <2>1, <2>3
<1> QED BY <1>3, <1>4, <1>5

\* Going down leaves the waiting tree and the events as they are.
LEMMA GoingDown ==
  ASSUME ServerInv, [ServerNext]_serverVars, Down'
  PROVE  /\ UNCHANGED <<waiting, events>>
         /\ phase' = "returned" => epoll' = epoll /\ phase \in {"check", "returned"}
<1> DEFINE Goal == /\ UNCHANGED <<waiting, events>>
                   /\ phase' = "returned" => epoll' = epoll /\ phase \in {"check", "returned"}
<1>1. back \in {"ready", "poll", "events"}
  BY DEF ServerInv, SchedTypes
<1>2. CASE SchedulerStep
  BY <1>2 DEF SchedulerStep, Scheduler, CheckDone, ResumeReady, Resume, ReadyEmpty, PollSkipped,
              ResumeWaiting, EventsDone, Awake, Runs, Down, treeVars, loopVars
<1>3. CASE ServerPoll
  BY <1>3 DEF ServerPoll, Poll, Down
<1>4. ASSUME NEW co, NEW f, NEW writing, NEW place, WaitFor(co, f, writing, place)
      PROVE  Goal
  BY <1>1, <1>4 DEF WaitFor, Yield, Down
<1>5. ASSUME NEW co, NEW closed, Exit(co, closed) PROVE Goal
  BY <1>1, <1>5 DEF Exit, Yield, Down
<1>6. ASSUME NEW s \in Servers, ServerStep(s) PROVE Goal
  <2>1. CASE \E place : ServerWaits(s, place)
    BY <1>4, <2>1 DEF ServerWaits
  <2>2. CASE ServerFails(s)
    BY <1>5, <2>2 DEF ServerFails
  <2>3. CASE Accepted(s) \/ CreateReader(s)
    <3>1. UNCHANGED loopVars /\ phase = "run"
      BY <2>3 DEF Accepted, CreateReader, Create, At, Runs
    <3> QED BY <3>1 DEF Down, loopVars
  <2> QED BY <1>6, <2>1, <2>2, <2>3 DEF ServerStep, ServerBegins, NothingToAccept, ServerLoops
<1>7. ASSUME NEW r \in Readers, ReaderStep(r) PROVE Goal
  <2>1. CASE ReaderBegins(r) \/ RecvFails(r) \/ SendTakes(r) \/ FirstSendFails(r) \/ ResendFails(r)
    BY <1>4, <2>1 DEF ReaderBegins, RecvFails, SendTakes, FirstSendFails, ResendFails
  <2>2. CASE EndOfInput(r) \/ ResendFailsAtOnce(r)
    BY <1>5, <2>2 DEF EndOfInput, ResendFailsAtOnce, Closes
  <2>3. CASE Received(r)
    <3>1. UNCHANGED loopVars /\ phase = "run"
      BY <2>3 DEF Received, At, Runs
    <3> QED BY <3>1 DEF Down, loopVars
  <2>4. CASE SigPipe(r)
    BY <2>4 DEF SigPipe, treeVars
  <2> QED BY <1>7, <2>1, <2>2, <2>3, <2>4 DEF ReaderStep
<1>8. CASE (\E c \in Clients : ClientStep(c)) \/ UNCHANGED serverVars
  <2>1. UNCHANGED <<treeVars, loopVars>>
    BY <1>8 DEF ClientStep, serverVars, schedVars
  <2>2. UNCHANGED <<waiting, epoll, events, phase>>
    BY <2>1 DEF treeVars, loopVars
  <2>3. phase = "returned" => phase \in {"check", "returned"}
    OBVIOUS
  <2> QED BY <2>2, <2>3
<1> QED BY <1>2, <1>3, <1>6, <1>7, <1>8 DEF ServerNext, ProcessStep

\* The scheduler's queue, tree, epoll and events agree (nty_schedule.c and
\* nty_socket.c:15-25): no coroutine is in two places or in none, and
\* nty_schedule_search_wait (line 228) never gets a null pointer.
THEOREM SchedulerStaysConsistent == ServerSpec => []SchedulerIsConsistent
<1>1. ServerInv => EveryCoroutineHasAPlace
  BY CountedOnce DEF EveryCoroutineHasAPlace
<1>2. ServerInit => EpollMatchesWaiting /\ EventsHaveWaiters
  BY InitInv DEF ServerInit, SchedulerInit, ServerInv, Eventful, EpollMatchesWaiting, Down
<1>3. ASSUME ServerInv, ServerInv', [ServerNext]_serverVars,
             EpollMatchesWaiting /\ EventsHaveWaiters
      PROVE  EpollMatchesWaiting' /\ EventsHaveWaiters'
  <2>1. CASE ~Down'
    BY <1>3, <2>1 DEF ServerInv, Eventful, EpollMatchesWaiting
  <2>2. CASE Down'
    <3>1. /\ UNCHANGED <<waiting, events>>
          /\ phase' = "returned" => epoll' = epoll /\ phase \in {"check", "returned"}
      BY <1>3, <2>2, GoingDown
    <3>2. EventsHaveWaiters'
      BY <1>3, <3>1 DEF EventsHaveWaiters
    <3>3. EpollMatchesWaiting'
      BY <1>3, <2>2, <3>1 DEF EpollMatchesWaiting, Down
    <3> QED BY <3>2, <3>3
  <2> QED BY <2>1, <2>2
<1> QED BY <1>1, <1>2, <1>3, ServerInvariant, PTL DEF ServerSpec, SchedulerIsConsistent

\* A step that does not resume a coroutine anew: none goes back to its entry.
LEMMA NobodyRestarts ==
  ASSUME ServerInv, [ServerNext]_serverVars
  PROVE  \A co \in live \cap live' : pc[co] # "begin" => pc'[co] # "begin"
<1> DEFINE Goal == \A co \in live \cap live' : pc[co] # "begin" => pc'[co] # "begin"
<1>1. SchedTypes /\ live \subseteq Coroutines /\ pc \in [Coroutines -> Places]
  BY DEF ServerInv, SchedTypes
<1>2. CASE UNCHANGED pc
  BY <1>2
<1>3. ASSUME NEW co \in Coroutines, NEW place, place # "begin", pc' = [pc EXCEPT ![co] = place]
      PROVE  Goal
  BY <1>1, <1>3
<1>4. CASE ResumeReady
  <2>1. PICK o : o = Head(ready)
    OBVIOUS
  <2>2. o \in Coroutines /\ pc[o] = "begin"
    <3>1. ready # <<>> /\ Located
      BY <1>4 DEF ResumeReady, ServerInv, Down
    <3>2. o = ready[1] /\ 1 \in DOMAIN ready /\ o \in Coroutines
      BY <1>1, <2>1, <3>1, TailOfQueue DEF SchedTypes
    <3> QED BY <3>1, <3>2 DEF Located, IsReady
  <2>3. \A co \in Coroutines : co # o => pc'[co] = pc[co]
    BY <1>1, <1>4, <2>1 DEF ResumeReady, Resume
  <2> QED BY <1>1, <2>2, <2>3
<1>5. CASE ResumeWaiting
  <2>1. PICK e \in events :
          Resume(waiting[e[1]],
                 SearchWait(e[1]) \cup (IF e[2] THEN {STATUS_FDEOF} ELSE {}), "events")
    BY <1>5 DEF ResumeWaiting
  <2>2. STATUS_NEW \notin SearchWait(e[1]) \cup (IF e[2] THEN {STATUS_FDEOF} ELSE {})
    BY DEF STATUS_NEW, STATUS_FDEOF, SearchWait
  <2>3. pc' = pc
    BY <1>1, <2>1, <2>2 DEF Resume
  <2> QED BY <2>3
<1>6. CASE SchedulerStep
  <2>1. ~ResumeReady /\ ~ResumeWaiting => UNCHANGED pc
    BY <1>6 DEF SchedulerStep, Scheduler, CheckDone, ReadyEmpty, PollSkipped, EventsDone, Awake
  <2> QED BY <1>2, <1>4, <1>5, <2>1
<1>7. CASE ServerPoll
  <2>1. UNCHANGED pc
    BY <1>7 DEF ServerPoll, Poll
  <2> QED BY <1>2, <2>1
<1>8. ASSUME NEW co \in Coroutines, NEW f, NEW writing, NEW place, place # "begin",
             WaitFor(co, f, writing, place)
      PROVE  Goal
  BY <1>3, <1>8 DEF WaitFor
<1>9. ASSUME NEW co, NEW closed, Exit(co, closed) PROVE Goal
  BY <1>2, <1>9 DEF Exit
<1>10. ASSUME NEW s \in Servers, ServerStep(s) PROVE Goal
  <2>1. s \in Coroutines
    BY FdFacts
  <2>2. CASE \E place : ServerWaits(s, place)
    <3>1. pc' = [pc EXCEPT ![s] = "accept"]
      BY <2>2 DEF ServerWaits, WaitFor
    <3> QED BY <1>1, <2>1, <3>1
  <2>3. CASE ServerFails(s)
    BY <1>9, <2>3 DEF ServerFails
  <2>4. CASE Accepted(s)
    <3>1. pc' = [pc EXCEPT ![s] = "create"]
      BY <2>4 DEF Accepted
    <3> QED BY <1>1, <2>1, <3>1
  <2>5. CASE CreateReader(s)
    <3>1. PICK r : r \notin live /\ pc' = [pc EXCEPT ![r] = "begin", ![s] = AfterCreate(s)]
      BY <2>5 DEF CreateReader, Create
    <3>2. \A co \in live : pc'[co] = pc[co] \/ pc'[co] = "loop"
      BY <1>1, <2>1, <3>1 DEF AfterCreate
    <3> QED BY <3>2
  <2> QED BY <1>10, <2>2, <2>3, <2>4, <2>5
          DEF ServerStep, ServerBegins, NothingToAccept, ServerLoops
<1>11. ASSUME NEW r \in Readers, ReaderStep(r) PROVE Goal
  <2>1. r \in Coroutines
    BY FdFacts
  <2>2. CASE pc' = [pc EXCEPT ![r] = "recv"] \/ pc' = [pc EXCEPT ![r] = "send"]
             \/ pc' = [pc EXCEPT ![r] = "resend"]
    BY <1>1, <2>1, <2>2
  <2>3. CASE ReaderBegins(r) \/ RecvFails(r) \/ SendTakes(r) \/ FirstSendFails(r) \/ ResendFails(r)
    BY <2>2, <2>3 DEF ReaderBegins, RecvFails, SendTakes, FirstSendFails, ResendFails, WaitFor
  <2>4. CASE EndOfInput(r) \/ ResendFailsAtOnce(r)
    BY <1>9, <2>4 DEF EndOfInput, ResendFailsAtOnce, Closes
  <2>5. CASE Received(r)
    BY <2>2, <2>5 DEF Received
  <2>6. CASE SigPipe(r)
    BY <1>2, <2>6 DEF SigPipe
  <2> QED BY <1>11, <2>3, <2>4, <2>5, <2>6 DEF ReaderStep
<1>12. CASE (\E c \in Clients : ClientStep(c)) \/ UNCHANGED serverVars
  <2>1. UNCHANGED pc
    BY <1>12 DEF ClientStep, serverVars, schedVars
  <2> QED BY <1>2, <2>1
<1> QED BY <1>6, <1>7, <1>10, <1>11, <1>12 DEF ServerNext, ProcessStep

\* Although waiting for POLLOUT sets the bit of a new coroutine, nobody is
\* started a second time (nty_schedule_sched_wait, line 112): the scheduler
\* clears the word before it resumes a waiting coroutine, and the ready ones
\* have not begun.
THEOREM NobodyStartsTwice == ServerSpec => StartedOnce
<1>1. ServerInv /\ [ServerNext]_serverVars =>
        [\A co \in live \cap live' : pc[co] # "begin" => pc'[co] # "begin"]_schedVars
  BY NobodyRestarts
<1> QED BY <1>1, ServerInvariant, PTL DEF ServerSpec, StartedOnce

-----------------------------------------------------------------------------
(* Connections and bytes                                                   *)

\* The argument of a reader points into its server's stack, where the next
\* accept writes (nty_server.c:60 and 72): every reader has read it before, and
\* each open connection has one reader to come or to run.
THEOREM ConnectionsKeepTheirReaders == ServerSpec => []ConnectionsHaveReaders
<1>1. ServerInv => ReadersGetTheirFd
  BY DEF ServerInv, OwnFds, ReadersGetTheirFd
<1>2. ServerInv => OneReaderPerConnection
  <2> SUFFICES ASSUME ServerInv, NEW f \in OpenFds
               PROVE  Cardinality({r \in Readers \cap live : meant[r] = f})
                      + Cardinality({s \in Servers : pc[s] = "create" /\ cli_fd[s] = f}) = 1
    BY DEF OneReaderPerConnection
  <2> DEFINE Reads == {r \in Readers \cap live : meant[r] = f}
             Accepts == {s \in Servers : pc[s] = "create" /\ cli_fd[s] = f}
  <2>1. f \in ConnFds /\ file[f] # NULL
    BY DEF OpenFds
  <2>2. PICK k \in Keepers(f) : Keepers(f) = {k}
    BY <2>1 DEF ServerInv, Kept
  <2>3. Reads \cup Accepts = {k} /\ Reads \cap Accepts = {}
    BY <2>2, FdFacts DEF Keepers
  <2>4. (Reads = {k} /\ Accepts = {}) \/ (Reads = {} /\ Accepts = {k})
    BY <2>3
  <2>5. Cardinality({}) = 0 /\ Cardinality({k}) = 1
    BY FS_EmptySet, FS_Singleton
  <2>6. CASE Reads = {k} /\ Accepts = {}
    <3>1. Cardinality(Reads) = 1 /\ Cardinality(Accepts) = 0
      BY <2>5, <2>6
    <3> QED BY <3>1
  <2>7. CASE Reads = {} /\ Accepts = {k}
    <3>1. Cardinality(Reads) = 0 /\ Cardinality(Accepts) = 1
      BY <2>5, <2>7
    <3> QED BY <3>1
  <2> QED BY <2>4, <2>6, <2>7
<1> QED BY <1>1, <1>2, ServerInvariant, PTL DEF ConnectionsHaveReaders

\* The sum over no reader or one.
LEMMA SumOfAtMostOne ==
  ASSUME NEW x, NEW S \in SUBSET {x}, S # {} => unsent[x] \in Nat
  PROVE  SumFunctionOnSet(unsent, S) = IF S = {} THEN 0 ELSE unsent[x]
<1> DEFINE body(g) == [s \in SUBSET S |->
             IF s = {} THEN 0
             ELSE LET y == CHOOSE y \in s : TRUE IN unsent[y] + g[s \ {y}]]
           iter == CHOOSE g : g = body(g)
<1>1. \E g : g = body(g)
  <2> DEFINE w == [s \in SUBSET S |-> IF s = {} THEN 0 ELSE unsent[x]]
  <2>1. \A s \in SUBSET S : s # {} => s = {x} /\ (CHOOSE y \in s : TRUE) = x
    OBVIOUS
  <2>2. w = body(w)
    BY <2>1
  <2> QED BY <2>2
<1>2. iter = body(iter)
  <2> HIDE DEF body
  <2> QED BY <1>1
<1>3. SumFunctionOnSet(unsent, S) = iter[S]
  BY DEF SumFunctionOnSet, FoldFunctionOnSet, MapThenFoldSet
<1>4. iter[S] = IF S = {} THEN 0 ELSE unsent[x]
  <2> HIDE DEF iter
  <2>1. iter[{}] = 0
    BY <1>2
  <2>2. CASE S # {}
    <3>1. S = {x} /\ (CHOOSE y \in S : TRUE) = x
      BY <2>2
    <3>2. iter[S] = unsent[x] + iter[{}]
      BY <1>2, <2>2, <3>1
    <3> QED BY <2>1, <2>2, <3>2
  <2> QED BY <2>1, <2>2
<1> QED BY <1>3, <1>4

\* However recv and send divide the messages, what a client has sent is on its
\* way, at the client, or in the buffer of its own reader (nty_socket.c:97-117).
THEOREM NoByteIsLost == ServerSpec => []EchoConserved
<1>1. ServerInv => EchoConserved
  <2> SUFFICES ASSUME ServerInv, NEW c \in Clients, peer[c] # "reset"
               PROVE  sent[c] = input[c] + output[c] + got[c]
                        + SumFunctionOnSet(unsent, {r \in Readers \cap live :
                            pc[r] # "begin" /\ fd[r] \in ConnFds /\ ClientOf(r) = c})
    BY DEF EchoConserved
  <2>0. PICK R : R = {r \in Readers \cap live :
                        pc[r] # "begin" /\ fd[r] \in ConnFds /\ ClientOf(r) = c}
    OBVIOUS
  <2>1. /\ Kept /\ Files /\ Echoes /\ c # NULL /\ Transit(c) \in Nat
        /\ unsent \in [Readers -> Nat]
    BY FdFacts DEF ServerInv, ServerTypes, KernelTypes, Transit
  <2>2. \A r \in R : r \in Readers \cap live /\ meant[r] \in ConnFds /\ file[meant[r]] = c
                     /\ r \in Keepers(meant[r]) /\ pc[r] # "begin"
    BY <2>0 DEF ServerInv, OwnFds, ClientOf, Keepers
  <2>3. CASE R = {}
    <3>1. sent[c] = Transit(c)
      <4>1. CASE \A f \in ConnFds : file[f] # c
        BY <2>1, <4>1 DEF Echoes
      <4>2. ASSUME NEW f \in ConnFds, file[f] = c PROVE sent[c] = Transit(c)
        <5>1. PICK k \in Keepers(f) : Keepers(f) = {k}
          BY <2>1, <4>2 DEF Kept
        <5>2. CASE k \in Servers
          <6>1. pc[k] = "create" /\ cli_fd[k] = f
            BY <5>1, <5>2, FdFacts DEF Keepers
          <6> QED BY <2>1, <4>2, <5>2, <6>1 DEF Echoes
        <5>3. CASE k \in Readers \cap live
          <6>1. meant[k] = f
            BY <5>1, <5>3, FdFacts DEF Keepers
          <6>2. pc[k] = "begin"
            BY <2>0, <2>3, <4>2, <5>3, <6>1 DEF ServerInv, OwnFds, ClientOf
          <6>3. unsent[k] = 0
            BY <2>1, <5>3, <6>2 DEF Echoes
          <6>4. sent[c] = Transit(c) + unsent[k]
            BY <2>1, <4>2, <5>3, <6>1 DEF Echoes
          <6> QED BY <2>1, <6>3, <6>4
        <5> QED BY <5>1, <5>2, <5>3 DEF Keepers
      <4> QED BY <4>1, <4>2
    <3>2. SumFunctionOnSet(unsent, R) = 0
      BY <2>3, SumOfAtMostOne
    <3> QED BY <2>0, <2>1, <3>1, <3>2 DEF Transit
  <2>4. ASSUME NEW r \in R PROVE sent[c] = Transit(c) + SumFunctionOnSet(unsent, R)
    <3>1. R \in SUBSET {r}
      <4> SUFFICES ASSUME NEW q \in R PROVE q = r
        OBVIOUS
      <4>1. meant[q] = meant[r]
        BY <2>1, <2>2 DEF Files
      <4> QED BY <2>1, <2>2, <4>1 DEF Kept
    <3>2. unsent[r] \in Nat
      BY <2>1, <2>2
    <3>3. SumFunctionOnSet(unsent, R) = unsent[r]
      BY <3>1, <3>2, SumOfAtMostOne
    <3>4. sent[c] = Transit(c) + unsent[r]
      BY <2>1, <2>2 DEF Echoes
    <3> QED BY <3>3, <3>4
  <2>5. CASE R # {}
    BY <2>0, <2>4, <2>5 DEF Transit
  <2> QED BY <2>3, <2>5
<1> QED BY <1>1, ServerInvariant, PTL
===============================================================================
