------------------------------- MODULE MCReactor -------------------------------
(* The event loops for TLC: an eager client and a polite one with two bytes  *)
(* each, and a kernel that takes one byte before the client reads.           *)
EXTENDS Reactor
Bytes == [c \in Clients |-> 2]
================================================================================
