------------------------------ MODULE TimeWheel ------------------------------
(***************************************************************************)
(* The hierarchical timing wheel of 3.2.3 (timewheel.c).  One thread calls  *)
(* expire_timer; any thread calls add_timer and del_timer.  The spinlock    *)
(* is held by the thread that expires, except while it runs callbacks;      *)
(* add_timer is one step that needs the lock to be free.  A timer with a    *)
(* delay of zero is called back inside add_timer and leaves no trace; the   *)
(* member cancel, which del_timer sets and dispatch_list reads to skip the  *)
(* callback, moves no timer and is left out.                                *)
(* Level 0 is near, level k is t[k - 1].  The sizes are parameters; the     *)
(* time counts as far as the levels together reach, as in the code, whose   *)
(* sizes are powers of 2: its masks are remainders, its shifts quotients.   *)
(***************************************************************************)
EXTENDS Integers, Sequences, FiniteSets, SequencesExt

CONSTANTS
  Nodes,             \* addresses of timers
  TIME_NEAR,
  TIME_LEVEL,
  Levels,            \* 4 in the code
  MaxDelay           \* largest argument of add_timer

\* the timers that go to level k are due in less than Reach[k] ticks
Reach[k \in 0 .. Levels] ==
  IF k = 0 THEN TIME_NEAR ELSE TIME_LEVEL * Reach[k - 1]

Times == Reach[Levels]

ASSUME WheelAssumption ==
  /\ TIME_NEAR \in Nat \ {0} /\ TIME_LEVEL \in Nat \ {0}
  /\ Levels \in Nat \ {0}
  /\ MaxDelay \in 1 .. (Times \div 2) - 1

VARIABLES
  time,      \* T->time
  wheel,     \* <<level, index>> -> the list of that slot
  expire,    \* the allocated timers: node -> the member expire
  list,      \* the list dispatch_list works on
  pc         \* where the expiring thread is; it holds the lock in "first"
             \* and "second"

wheelVars == <<time, wheel, expire, list, pc>>

Slots == ({0} \X (0 .. TIME_NEAR - 1)) \cup ((1 .. Levels) \X (0 .. TIME_LEVEL - 1))

Allocated == DOMAIN expire

WheelInit ==
  /\ time = 0
  /\ wheel = [s \in Slots |-> <<>>]
  /\ expire = <<>>
  /\ list = <<>>
  /\ pc = "out"

\* the digit of a time that selects its slot in level k
Digit(t, k) ==
  IF k = 0 THEN t % TIME_NEAR ELSE (t \div Reach[k - 1]) % TIME_LEVEL

\* (variant) the near list takes one tick too many
LevelFor_TooNear(msec) ==
  IF msec <= TIME_NEAR THEN 0
  ELSE CHOOSE k \in 1 .. Levels :
         msec >= Reach[k - 1] /\ msec < Reach[k]

LevelFor(msec) ==
  IF msec < TIME_NEAR THEN 0
  ELSE CHOOSE k \in 1 .. Levels :
         msec >= Reach[k - 1] /\ msec < Reach[k]

\* add_node at the time now, for a timer that expires at t
AddNode(w, n, t, now) ==
  LET k == LevelFor((t - now) % Times)
  IN [w EXCEPT ![<<k, Digit(t, k)>>] = Append(@, n)]

-----------------------------------------------------------------------------
(* The interface                                                           *)

AddTimer ==
  /\ pc \notin {"first", "second"}
  /\ \E n \in Nodes \ Allocated, delay \in 1 .. MaxDelay :
       LET t == (time + delay) % Times IN
       /\ expire' = [m \in Allocated \cup {n} |-> IF m = n THEN t ELSE expire[m]]
       /\ wheel' = AddNode(wheel, n, t, time)
  /\ UNCHANGED <<time, list, pc>>

-----------------------------------------------------------------------------
(* expire_timer                                                            *)

\* timer_update begins; a spinlock that is free is taken
UpdateBegins ==
  /\ pc = "out"
  /\ pc' = "first"
  /\ UNCHANGED <<time, wheel, expire, list>>

Due == <<0, Digit(time, 0)>>

\* (variant) link_clear leaves the list where it is
Cleared_Not == wheel

Cleared == [wheel EXCEPT ![Due] = <<>>]

\* timer_execute takes the list of this tick and gives the lock back
Detach(here, there) ==
  /\ pc = here
  /\ wheel[Due] # <<>>
  /\ list' = wheel[Due]
  /\ wheel' = Cleared
  /\ pc' = there
  /\ UNCHANGED <<time, expire>>

\* dispatch_list: the callback and free
Dispatch(there) ==
  /\ pc = there
  /\ list # <<>>
  /\ list' = Tail(list)
  /\ expire' = [n \in Allocated \ {Head(list)} |-> expire[n]]
  /\ UNCHANGED <<time, wheel, pc>>

Relock(there, here) ==
  /\ pc = there
  /\ list = <<>>
  /\ pc' = here
  /\ UNCHANGED <<time, wheel, expire, list>>

\* (variant) only the first level above near is looked at
LevelToMove_FirstOnly(ct) == IF Digit(ct, 1) # 0 THEN {1} ELSE {}

\* the level whose list comes down at the time ct, if there is one: the first
\* with a digit other than 0
LevelToMove(ct) ==
  IF ct = 0 THEN {Levels}
  ELSE IF Digit(ct, 0) # 0 THEN {}
  ELSE {k \in 1 .. Levels :
          Digit(ct, k) # 0 /\ \A j \in 1 .. k - 1 : Digit(ct, j) = 0}

NextTime == (time + 1) % Times

\* move_list: every node of the slot is added again
MoveList(slot, ct) ==
  LET nodes == wheel[slot]
      moved[j \in 0 .. Len(nodes)] ==
        IF j = 0 THEN [wheel EXCEPT ![slot] = <<>>]
        ELSE AddNode(moved[j - 1], nodes[j], expire[nodes[j]], ct)
  IN moved[Len(nodes)]

\* nothing is due any more; the lock is kept from here to the second execute
TimerShift ==
  /\ pc = "first"
  /\ wheel[Due] = <<>>
  /\ time' = NextTime
  /\ LET ks == LevelToMove(NextTime) IN
       IF ks = {} THEN UNCHANGED wheel
       ELSE \E k \in ks : wheel' = MoveList(<<k, Digit(NextTime, k)>>, NextTime)
  /\ pc' = "second"
  /\ UNCHANGED <<expire, list>>

UpdateEnds ==
  /\ pc = "second"
  /\ wheel[Due] = <<>>
  /\ pc' = "out"
  /\ UNCHANGED <<time, wheel, expire, list>>

Expiring ==
  \/ UpdateBegins
  \/ Detach("first", "call first") \/ Dispatch("call first")
  \/ Relock("call first", "first")
  \/ TimerShift
  \/ Detach("second", "call second") \/ Dispatch("call second")
  \/ Relock("call second", "second")
  \/ UpdateEnds

WheelNext == Expiring \/ AddTimer

\* The main loop calls expire_timer again and again; time goes on.
WheelSpec == WheelInit /\ [][WheelNext]_wheelVars /\ WF_wheelVars(Expiring)

-----------------------------------------------------------------------------
(* Correctness                                                             *)

\* Every timer is linked once, in one slot of the wheel or in the list that is
\* dispatched, from add_timer to free, and nothing else is linked.
LinkedOnce ==
  /\ \A n \in Nodes :
       n \in Allocated <=> \/ n \in ToSet(list)
                          \/ \E s \in Slots : n \in ToSet(wheel[s])
  /\ \A s \in Slots : /\ IsInjective(wheel[s])
                      /\ ToSet(wheel[s]) \cap ToSet(list) = {}
                      /\ \A r \in Slots \ {s} : ToSet(wheel[s]) \cap ToSet(wheel[r]) = {}
  /\ IsInjective(list)

\* A timer is called back at its tick, neither earlier nor later, also when it
\* came down several levels or was added while callbacks ran.
CalledAtItsTick == \A j \in DOMAIN list : expire[list[j]] = time

Remaining(n) == (expire[n] - time) % Times

\* In slot 0 of a level nothing ever comes down, except from the last one.
Forgotten(n) == \E k \in 1 .. Levels - 1 : n \in ToSet(wheel[<<k, 0>>])

\* Between two ticks no timer is overdue, those of the slots 0 excepted.
NoneOverdue ==
  pc = "out" => \A n \in Allocated :
    Forgotten(n) \/ Remaining(n) \in 1 .. MaxDelay

\* Every timer comes to its end unless it is forgotten.
TimersEnd == \A n \in Nodes : n \in Allocated ~> (n \notin Allocated \/ Forgotten(n))

\* timewheel.c:66: a timer of so many units fires after so many units.
EveryTimerIsOnTime ==
  pc = "out" => \A n \in Allocated : Remaining(n) \in 1 .. MaxDelay
==============================================================================
