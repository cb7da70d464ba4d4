----------------------------- MODULE YPipeDrivers -----------------------------
(***************************************************************************)
(* The three thread pairs 4_test_lock_free_queue.cpp (316-474) runs on one  *)
(* ypipe: the consumer polls ("poll", with sleep), polls while the producer *)
(* flushes in groups ("batch"), or waits on a condition variable            *)
(* ("condition").  test_queue joins both threads.                           *)
(*                                                                          *)
(* Critical sections of ypipe_mutex_ hold nothing but a notify_one or the   *)
(* call of wait, which releases the mutex as it blocks: each is one step.   *)
(*                                                                          *)
(* The style "free" stands for other users of the class: a writer thread    *)
(* that calls write, unwrite and flush, and a reader thread that calls read *)
(* and probe, as they please.                                               *)
(***************************************************************************)
EXTENDS YPipe

CONSTANTS
  Styles,  \* which of "poll", "batch", "condition" and "free" to run
  Items,   \* s_queue_item_num
  Group    \* items per flush, 10 in the batch driver

ASSUME DriverAssumption ==
  /\ Styles \subseteq {"poll", "batch", "condition", "free"}
  /\ Items \in Nat /\ Group \in Nat \ {0}
  /\ "batch" \in Styles => Items % Group = 0
  /\ MaxWrites >= Items

VARIABLES
  style,    \* the pair of threads that runs
  pcP,      \* "write", "flush", "notify", "last notify", "done"
  pcC,      \* "read", "wait", "blocked", "check", "done"
  popped    \* s_count_pop

threadVars == <<pipeVars, style, pcP, pcC, popped>>

DriverInit ==
  /\ PipeInit
  /\ style \in Styles
  /\ pcP = IF Items > 0 THEN "write" ELSE "last notify"
  /\ pcC = "read"
  /\ popped = 0

-----------------------------------------------------------------------------
(* The producer                                                            *)

Driven == style # "free"

InGroup == style = "batch" /\ (writes + 1) % Group # 0

\* write, and in a batch driver the next write straight after it
ProducerWrites ==
  /\ Driven
  /\ pcP = "write"
  /\ Write(InGroup)
  /\ pcP' = IF InGroup THEN "write" ELSE "flush"
  /\ UNCHANGED <<style, pcC, popped>>

AfterFlush == IF writes < Items THEN "write" ELSE "last notify"

ProducerFlushes ==
  /\ pcP = "flush"
  /\ \/ FlushAwake /\ pcP' = AfterFlush
     \/ FlushFindsAsleep /\ UNCHANGED pcP
     \/ FlushSet /\ pcP' = IF style = "condition" THEN "notify" ELSE AfterFlush
  /\ UNCHANGED <<style, pcC, popped>>

\* notify_one reaches the consumer only if it already waits
NotifyOne == pcC' = IF pcC = "blocked" THEN "check" ELSE pcC

ProducerNotifies ==
  /\ pcP = "notify"
  /\ NotifyOne
  /\ pcP' = AfterFlush
  /\ UNCHANGED <<pipeVars, style, popped>>

\* the condition driver notifies once more before it returns
ProducerReturns ==
  /\ pcP = "last notify"
  /\ IF style = "condition" THEN NotifyOne ELSE UNCHANGED pcC
  /\ pcP' = "done"
  /\ UNCHANGED <<pipeVars, style, popped>>

ProducerThread == ProducerWrites \/ ProducerFlushes \/ ProducerNotifies \/ ProducerReturns

-----------------------------------------------------------------------------
(* The consumer                                                            *)

\* the consumer is inside read: check_read succeeds, the item is popped
ConsumerReads ==
  /\ Driven
  /\ pcC = "read"
  /\ \/ CheckPrefetched /\ UNCHANGED <<pcC, popped>>
     \/ CheckFetches /\ UNCHANGED <<pcC, popped>>
     \/ Take /\ popped' = popped + 1 /\ pcC' = "check"
  /\ UNCHANGED <<style, pcP>>

ConsumerFindsNothing ==
  /\ Driven
  /\ pcC = "read"
  /\ CheckFails
  /\ pcC' = IF style = "condition" THEN "wait" ELSE "check"
  /\ UNCHANGED <<style, pcP, popped>>

\* wait has no predicate: nothing is checked between the failed read and here
ConsumerWaits ==
  /\ pcC = "wait"
  /\ pcC' = "blocked"
  /\ UNCHANGED <<pipeVars, style, pcP, popped>>

\* a condition variable may wake up by itself
SpuriousWake ==
  /\ pcC = "blocked"
  /\ pcC' = "check"
  /\ UNCHANGED <<pipeVars, style, pcP, popped>>

\* (variant) the consumer asks for one item too many
ConsumerChecks_Strict ==
  /\ pcC = "check"
  /\ pcC' = IF popped > Items THEN "done" ELSE "read"
  /\ UNCHANGED <<pipeVars, style, pcP, popped>>

ConsumerChecks ==
  /\ pcC = "check"
  /\ pcC' = IF popped >= Items THEN "done" ELSE "read"
  /\ UNCHANGED <<pipeVars, style, pcP, popped>>

ConsumerThread ==
  ConsumerReads \/ ConsumerFindsNothing \/ ConsumerWaits \/ ConsumerChecks

\* any other client of the two sides of the pipe
FreeClient ==
  /\ style = "free"
  /\ Writer \/ Reader
  /\ UNCHANGED <<style, pcP, pcC, popped>>

\* both threads have returned and are joined
DriverJoined == pcP = "done" /\ pcC = "done" /\ UNCHANGED threadVars

DriverNext == ProducerThread \/ ConsumerThread \/ SpuriousWake \/ FreeClient \/ DriverJoined

DriverSpec == DriverInit /\ [][DriverNext]_threadVars

\* both threads are scheduled; nobody promises spurious wake-ups
DriverFairSpec ==
  DriverSpec /\ WF_threadVars(ProducerThread) /\ WF_threadVars(ConsumerThread)

-----------------------------------------------------------------------------
(* Correctness                                                             *)

\* pthread_join returns for both threads of the polling and the batch driver
\* (lines 493-498).
ThreadsReturn ==
  style \in {"poll", "batch"} => <>(pcP = "done" /\ pcC = "done")
===============================================================================
