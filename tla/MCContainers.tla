---------------------------- MODULE MCContainers ----------------------------
(***************************************************************************)
(* Containers on small instances: as many items of each kind as the        *)
(* container needs for all its cases, few deadlines and a short clock.     *)
(***************************************************************************)
EXTENDS Containers

MCMaxHeld == [heap |-> 6, tree |-> 6, skip |-> 4, wheel |-> 3, keys |-> 9, btree |-> 10]
MCDelays == [heap |-> {0, 1}, tree |-> {0, 1}, skip |-> {0, 1}, wheel |-> {0, 1}, keys |-> {}, btree |-> {}]
MCLastDeadline == [heap |-> 1, tree |-> 1, skip |-> 1, wheel |-> 6, keys |-> 0, btree |-> 0]
MCLastTick == [heap |-> 2, tree |-> 0, skip |-> 1, wheel |-> 5, keys |-> 0, btree |-> 0]
=============================================================================
