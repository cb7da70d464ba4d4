----------------------------- MODULE MCNtyServer -----------------------------
(* The echo server for TLC: one server coroutine, which listens on the fd   *)
(* 3; the client c1 sends up to two bytes, the others one.                  *)
EXTENDS NtyServer

CONSTANTS s1, c1

ListenFdOf == [s \in Servers |-> 3]
PortOf == [c \in Clients |-> s1]
Bytes == [c \in Clients |-> IF c = c1 THEN 2 ELSE 1]
==============================================================================
