---------------------------- MODULE MCYPipeChunks ----------------------------
(* YPipeChunks for TLC: malloc may return any chunk, so chunks are alike. *)
EXTENDS YPipeChunks, TLC

Symmetry == Permutations(Chunks)
==============================================================================
