------------------------ MODULE MCArrayLockFreeQueue ------------------------
(* Small instances of ArrayLockFreeQueue for TLC, which evaluates the      *)
(* assumptions of the proofs with them.                                    *)
EXTENDS ArrayLockFreeQueueProofs, TLC
=============================================================================
