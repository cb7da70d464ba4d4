-------------------------------- MODULE NtyCo --------------------------------
(***************************************************************************)
(* The coroutine scheduler of 2.3.1 (core/nty_schedule.c, nty_coroutine.c)  *)
(* and the part of its socket layer that suspends a coroutine until its fd  *)
(* is ready (nty_epoll_inner).  One thread runs everything: the scheduler   *)
(* until it resumes a coroutine, then that coroutine until it yields.       *)
(* nty_coroutine_sleep is not part of the model: no program calls it, so    *)
(* the sleeping tree stays empty.                                           *)
(***************************************************************************)
EXTENDS Integers, Sequences, FiniteSets, SequencesExt

CONSTANTS
  Coroutines,  \* addresses a coroutine may have
  Fds,         \* file descriptors; -1 is none of them
  NULL

ASSUME SchedulerAssumption ==
  /\ Fds \subseteq Nat
  /\ NULL \notin Coroutines

VARIABLES
  ready,    \* the ready queue
  waiting,  \* fd -> the coroutine in the waiting tree, or NULL
  epoll,    \* the fds registered with epfd
  events,   \* the part of eventlist not handled yet: <<fd, hang-up?>>
  last,     \* last_co_ready
  phase,    \* what the scheduler does
  current,  \* curr_thread
  back,     \* where the scheduler goes on when that coroutine yields
  live,     \* the coroutines that exist
  status,   \* coroutine -> the bits that are set in its status word
  fd,       \* coroutine -> its member fd
  pc        \* coroutine -> where it goes on when it is resumed

treeVars == <<waiting, epoll>>
loopVars == <<events, last, phase, current, back>>
schedVars == <<ready, treeVars, loopVars, live, status, fd, pc>>

AnyFd == Fds \cup {-1}

\* Numbers of enum nty_coroutine_status.  BIT(n) is bit n, but sched_wait sets
\* the number itself: 2 is bit 1, and 3 is bits 0 and 1.
STATUS_NEW == 0
STATUS_READY == 1
STATUS_EXITED == 5
STATUS_FDEOF == 6
STATUS_DETACH == 7
WaitBits(writing) == IF writing THEN {0, 1} ELSE {1}

SchedulerInit(initial) ==
  /\ ready = initial
  /\ waiting = [f \in AnyFd |-> NULL]
  /\ epoll = {}
  /\ events = {}
  /\ last = NULL
  /\ phase = "check"
  /\ current = NULL
  /\ back = "ready"
  /\ fd = [co \in Coroutines |-> -1]
  /\ live = ToSet(initial)
  /\ status = [co \in Coroutines |-> IF co \in live THEN {STATUS_NEW} ELSE {}]
  /\ pc = [co \in Coroutines |-> "begin"]

Down == phase \in {"abort", "killed", "returned"}

-----------------------------------------------------------------------------
(* nty_schedule_run                                                        *)

\* the top of the loop; with an empty sleeping tree nothing has expired
CheckDone ==
  /\ phase = "check"
  /\ LET isdone == ready = <<>> /\ \A f \in AnyFd : waiting[f] = NULL IN
       phase' = IF isdone THEN "returned" ELSE "ready"
  /\ last' = IF ready = <<>> THEN NULL ELSE Last(ready)
  /\ UNCHANGED <<ready, treeVars, events, current, back, live, status, fd, pc>>

\* nty_coroutine_resume with co's status word as given: a NEW coroutine starts
\* at the entry of its function, whatever it did before
Resume(co, word, next) ==
  /\ current' = co
  /\ back' = next
  /\ phase' = "run"
  /\ status' = [status EXCEPT ![co] = IF STATUS_NEW \in word THEN {STATUS_READY} ELSE word]
  /\ pc' = [pc EXCEPT ![co] = IF STATUS_NEW \in word THEN "begin" ELSE @]

ResumeReady ==
  /\ phase = "ready"
  /\ ready # <<>>
  /\ ready' = Tail(ready)
  /\ LET co == Head(ready) IN
       Resume(co, status[co], IF co = last THEN "poll" ELSE "ready")
  /\ UNCHANGED <<treeVars, events, last, live, fd>>

ReadyEmpty ==
  /\ phase = "ready"
  /\ ready = <<>>
  /\ phase' = "poll"
  /\ UNCHANGED <<ready, treeVars, events, last, current, back, live, status, fd, pc>>

\* nty_schedule_epoll leaves without events when a coroutine is ready
PollSkipped ==
  /\ phase = "poll"
  /\ ready # <<>>
  /\ phase' = "check"
  /\ UNCHANGED <<ready, treeVars, events, last, current, back, live, status, fd, pc>>

\* epoll_wait, which returns without events after three seconds
Poll(happened) ==
  /\ phase = "poll"
  /\ ready = <<>>
  /\ events' = happened
  /\ phase' = IF happened = {} THEN "check" ELSE "events"
  /\ UNCHANGED <<ready, treeVars, last, current, back, live, status, fd, pc>>

\* (variant) nty_schedule_search_wait leaves the status word alone
SearchWait_KeepsStatus(f) == status[waiting[f]]

\* nty_schedule_search_wait: the status word of a coroutine whose fd is ready
SearchWait(f) == {}

\* (variant) the event that was handled stays in the list
TakeEvent_Keeps(e) == events' = events

TakeEvent(e) == events' = events \ {e}

ResumeWaiting ==
  /\ phase = "events"
  /\ \E e \in events :
       /\ waiting[e[1]] # NULL
       /\ TakeEvent(e)
       /\ Resume(waiting[e[1]],
                 SearchWait(e[1]) \cup (IF e[2] THEN {STATUS_FDEOF} ELSE {}), "events")
  /\ UNCHANGED <<ready, treeVars, last, live, fd>>

EventsDone ==
  /\ phase = "events"
  /\ events = {}
  /\ phase' = "check"
  /\ UNCHANGED <<ready, treeVars, events, last, current, back, live, status, fd, pc>>

-----------------------------------------------------------------------------
(* What the running coroutine does to itself and to the scheduler          *)

Runs(co) == phase = "run" /\ current = co

Suspended(co) == waiting[fd[co]] = co

Yield ==
  /\ phase' = back
  /\ current' = NULL

Registered(f) == epoll \cup ({f} \cap Fds)

\* nty_epoll_inner up to the yield, and the place where the caller goes on.
\* epoll_ctl refuses an fd that is not open and nobody looks; RB_INSERT refuses
\* a second coroutine for an fd, and the assertion behind it stops the program.
WaitFor(co, f, writing, place) ==
  /\ fd' = [fd EXCEPT ![co] = f]
  /\ epoll' = Registered(f)
  /\ status' = [status EXCEPT ![co] = @ \cup WaitBits(writing)]
  /\ pc' = [pc EXCEPT ![co] = place]
  /\ IF waiting[f] = NULL
     THEN /\ waiting' = [waiting EXCEPT ![f] = co]
          /\ Yield
     ELSE /\ phase' = "abort"
          /\ UNCHANGED <<waiting, current>>
  /\ UNCHANGED <<ready, events, last, back, live>>

\* nty_epoll_inner after the yield; desched_wait clears bits 2 and 3, which
\* sched_wait never sets
Awake(co) ==
  /\ Runs(co)
  /\ Suspended(co)
  /\ waiting' = [waiting EXCEPT ![fd[co]] = NULL]
  /\ epoll' = epoll \ {fd[co]}
  /\ UNCHANGED <<ready, loopVars, live, status, pc, fd>>

\* (variant) the new coroutine is not put into the ready queue
Enqueued_Not(co) == ready

Enqueued(co) == Append(ready, co)

\* co calls nty_coroutine_create and goes on at place
Create(co, new, place) ==
  /\ new \in Coroutines \ live
  /\ live' = live \cup {new}
  /\ ready' = Enqueued(new)
  /\ status' = [status EXCEPT ![new] = {STATUS_NEW}]
  /\ fd' = [fd EXCEPT ![new] = -1]
  /\ pc' = [pc EXCEPT ![new] = "begin", ![co] = place]
  /\ UNCHANGED <<treeVars, loopVars>>

\* the function of co returns, having closed some fds: _exec yields for the
\* last time and nty_coroutine_resume frees co
Exit(co, closed) ==
  /\ status' = [status EXCEPT ![co] =
                  @ \cup {STATUS_EXITED, STATUS_FDEOF, STATUS_DETACH}]
  /\ live' = live \ {co}
  /\ epoll' = epoll \ closed
  /\ Yield
  /\ UNCHANGED <<ready, waiting, events, last, back, pc, fd>>

Scheduler ==
  \/ CheckDone \/ ResumeReady \/ ReadyEmpty \/ PollSkipped \/ ResumeWaiting
  \/ EventsDone

-----------------------------------------------------------------------------
(* Correctness                                                             *)

\* A coroutine that exists is in one place: it runs, is ready, or waits for its
\* fd.  None is lost and none is resumed for somebody else's event.
EveryCoroutineHasAPlace ==
  ~Down => \A co \in live :
    Cardinality({k \in DOMAIN ready : ready[k] = co})
    + Cardinality({f \in AnyFd : waiting[f] = co /\ fd[co] = f})
    + (IF Runs(co) /\ ~Suspended(co) THEN 1 ELSE 0) = 1

\* Outside the running coroutine exactly the fds somebody waits for are
\* registered (nty_socket.c:15-18 and 23-25).
EpollMatchesWaiting ==
  phase \notin {"run", "abort", "killed"} =>
    epoll = {f \in Fds : waiting[f] # NULL}

\* nty_schedule_search_wait (line 228) writes through the pointer it found, so
\* every event that is left must have its coroutine, whatever the coroutines
\* resumed for earlier events did.
EventsHaveWaiters == \A e \in events : waiting[e[1]] # NULL

\* A coroutine that has begun never begins again, although waiting for POLLOUT
\* sets the bit of NEW (line 112).
StartedOnce ==
  [][\A co \in live \cap live' : pc[co] # "begin" => pc'[co] # "begin"]_schedVars

\* The scheduler's four places - ready queue, waiting tree, epoll, the events
\* taken - tell the same story about every coroutine.
SchedulerIsConsistent ==
  EveryCoroutineHasAPlace /\ EpollMatchesWaiting /\ EventsHaveWaiters
==============================================================================
