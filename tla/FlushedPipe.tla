----------------------------- MODULE FlushedPipe -----------------------------
(***************************************************************************)
(* What a pipe with explicit flushing promises: items become visible to    *)
(* the reader in the order they were written, only when a flush includes   *)
(* them, and a flush includes no item of an unfinished group.  Items not   *)
(* yet complete may be taken back.                                         *)
(***************************************************************************)
EXTENDS Integers, Sequences

CONSTANT Limit   \* items the writer may write

VARIABLES
  pending,  \* written, not flushed
  ready,    \* how many of the pending items are complete
  visible,  \* flushed, not read
  put,      \* number of items written; the items are 1, 2, ...
  got       \* the last item read

fpVars == <<pending, ready, visible, put, got>>

Init == pending = <<>> /\ ready = 0 /\ visible = <<>> /\ put = 0 /\ got = 0

Write(incomplete) ==
  /\ put < Limit
  /\ put' = put + 1
  /\ pending' = Append(pending, put + 1)
  /\ ready' = IF incomplete THEN ready ELSE Len(pending) + 1
  /\ UNCHANGED <<visible, got>>

Unwrite ==
  /\ Len(pending) > ready
  /\ pending' = SubSeq(pending, 1, Len(pending) - 1)
  /\ UNCHANGED <<ready, visible, put, got>>

Flush ==
  /\ visible' = visible \o SubSeq(pending, 1, ready)
  /\ pending' = SubSeq(pending, ready + 1, Len(pending))
  /\ ready' = 0
  /\ UNCHANGED <<put, got>>

Read ==
  /\ visible # <<>>
  /\ got' = Head(visible)
  /\ visible' = Tail(visible)
  /\ UNCHANGED <<pending, ready, put>>

Next == (\E incomplete \in BOOLEAN : Write(incomplete)) \/ Unwrite \/ Flush \/ Read

Spec == Init /\ [][Next]_fpVars
==============================================================================
