------------------------------- MODULE Agenda -------------------------------
(***************************************************************************)
(* What an ordered container of the repository promises: it holds the      *)
(* items that were put in and not taken out, each with its key; and where  *)
(* the keys are deadlines, a run of expire_timer calls items that are due, *)
(* the earliest first, and ends when none is left that was due at its      *)
(* start.                                                                  *)
(***************************************************************************)
EXTENDS Integers, FiniteSets

CONSTANTS Items,   \* what can be held
          Idle     \* no run of expire_timer is on

VARIABLES held,    \* the key of every item held
          started  \* the time the run of expire_timer started, or Idle

vars == <<held, started>>

In == DOMAIN held

\* The items of S, and no others, are held, those held before with their keys.
Becomes(S) ==
  LET before == held
      after == held'
  IN /\ DOMAIN after = S
     /\ \A x \in S : IF x \in DOMAIN before THEN after[x] = before[x] ELSE after[x] \in Nat

Init == In = {} /\ started = Idle

Put(x) == /\ started = Idle
          /\ x \in Items \ In
          /\ Becomes(In \cup {x})
          /\ UNCHANGED started

\* The caller asked for x; an item with the same key may go in its stead.
Take(x) == /\ started = Idle
           /\ \E y \in In : held[y] = held[x] /\ Becomes(In \ {y})
           /\ UNCHANGED started

Run == started = Idle /\ started' \in Nat /\ UNCHANGED held

\* The earliest item is called; its handler may put one in, for later.
Call(x) == /\ started # Idle
           /\ held[x] <= started
           /\ \A y \in In : held[x] <= held[y]
           /\ \E new \in {{}} \cup {{y} : y \in Items \ In} :
                /\ Becomes((In \ {x}) \cup new)
                /\ \A y \in new : held'[y] > started
           /\ UNCHANGED started

End == /\ started # Idle
       /\ \A x \in In : held[x] > started
       /\ started' = Idle
       /\ UNCHANGED held

Next == \/ \E x \in Items : Put(x)
        \/ \E x \in In : Take(x) \/ Call(x)
        \/ Run \/ End

Spec == Init /\ [][Next]_vars
=============================================================================
