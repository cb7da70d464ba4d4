----------------------------- MODULE SingleWheel -----------------------------
(***************************************************************************)
(* The wheel of 3.2.3/single_tw.c: one ring of lists and no levels.  Every *)
(* heartbeat of a connection puts a timer into the list EXPIRE (and the    *)
(* delay) ticks ahead; a connection whose timers have all come round has   *)
(* been silent for that long and is dropped.  No timer knows its deadline: *)
(* EXPIRE plus the delay has to stay below TW_SIZE.                        *)
(***************************************************************************)
EXTENDS Naturals, SequencesExt, FiniteSets

CONSTANTS Timers, Conns,
          TW_SIZE, EXPIRE   \* 16 and 10 in the code

\* list: the lists of the ring; node: the connection of each timer, or 0;
\* used: how many timers a connection has in the ring; tick: the next to check.
NewWheel == [list |-> [i \in 0..(TW_SIZE - 1) |-> <<>>],
             node |-> [x \in Timers |-> 0],
             used |-> [c \in Conns |-> 0],
             tick |-> 0]

Holds(w) == UNION {Range(w.list[i]) : i \in DOMAIN w.list}

\* used is a uint8_t.
add_conn(w, x, c, delay) ==
  [w EXCEPT !.list[(w.tick + EXPIRE + delay) % TW_SIZE] = Append(@, x),
            !.node[x] = c,
            !.used[c] = (@ + 1) % 256]

\* check_conn: the tick counts up first, then the list of the old one is gone
\* through, a timer at a time.
NextTick(w) == [w EXCEPT !.tick = @ + 1]
Checked(w) == (w.tick - 1) % TW_SIZE
Current(w) == w.list[Checked(w)]
First(w) == Head(Current(w))

Released(w) ==
  LET x == First(w)
  IN [w EXCEPT !.list[Checked(w)] = Tail(@),
               !.node[x] = 0,
               !.used[w.node[x]] = (@ + 255) % 256]

\* Every timer is in one list, once, and every connection knows how many it has.
Counted(w) ==
  /\ \A i, j \in DOMAIN w.list : i # j => Range(w.list[i]) \cap Range(w.list[j]) = {}
  /\ \A i \in DOMAIN w.list : IsInjective(w.list[i])
  /\ \A c \in Conns : w.used[c] = Cardinality({x \in Holds(w) : w.node[x] = c})
=============================================================================
