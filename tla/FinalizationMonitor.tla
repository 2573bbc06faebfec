------------------------ MODULE FinalizationMonitor ------------------------
(***************************************************************************)
(* FinalizationMonitor (monitoring_finality.cpp): a thread that reports    *)
(* the rising finalized height to a callback, and a thread that waits for  *)
(* one block to be finalized.  Both read get_finalized_height_from_rpc(),  *)
(* which falls back on the best block.  And FinalityAwaiter, which waits,  *)
(* in the caller's thread, for a block to be finalized, or for a           *)
(* transaction to have left the pool and the finalized height to have      *)
(* risen.                                                                  *)
(***************************************************************************)
EXTENDS TransactionMonitor

VARIABLES
    reporting,  \* monitoring_ of the FinalizationMonitor
    reporter,   \* monitoring_thread_: "none", "sleep", "read" or "ended"
    last,       \* last_finalized_height_
    waiter,     \* wait_thread_
    fcall,      \* "none", or the call that is joining: "stop", "monitor" or "wait"
    degraded    \* environment: the node does not answer about finality

finalizationVars == <<reporting, reporter, last, waiter, fcall, degraded>>

(* need: the height that must be finalized; exact (history): every height  *)
(* read was the node's.                                                    *)
NoWaiter == [at |-> "none", need |-> 0, exact |-> TRUE, turn |-> 0, verdict |-> FALSE]

FinalizationInit ==
    /\ reporting = FALSE /\ reporter = "none"
    /\ last = 0
    /\ waiter = NoWaiter
    /\ fcall = "none"
    /\ degraded = FALSE

FinalizationTypeOK ==
    /\ reporting \in BOOLEAN /\ degraded \in BOOLEAN
    /\ reporter \in {"none", "sleep", "read", "ended"}
    /\ last \in 0..MaxHeight
    /\ waiter \in [at : {"none", "thread", "ended"}, need : 0..MaxHeight, exact : BOOLEAN,
                   turn : 0..MaxTurns, verdict : BOOLEAN]
    /\ fcall \in {"none", "stop", "monitor", "wait"}

ReadableHeights == IF degraded THEN HeightFromRpc ELSE {[height |-> finalized, exact |-> TRUE]}
-----------------------------------------------------------------------------
(* The calls of FinalizationMonitor. *)

(* monitor_finalization() and stop_monitoring() clear the flag, then join  *)
(* the reporter and the waiter.                                            *)
StopReporting(c) ==
    /\ fcall = "none" /\ c \in {"stop", "monitor"}
    /\ fcall' = c
    /\ reporting' = FALSE
    /\ UNCHANGED <<reporter, last, waiter, degraded>>

WaiterDone == waiter.at \in {"none", "ended"}
ReporterDone == reporter \in {"none", "ended"}

Stopped ==
    /\ fcall = "stop" /\ ReporterDone /\ WaiterDone
    /\ fcall' = "none" /\ reporter' = "none" /\ waiter' = NoWaiter
    /\ UNCHANGED <<reporting, last, degraded>>

(* The first height is read and reported before the thread is started. *)
MonitorFinalization ==
    /\ fcall = "monitor" /\ ReporterDone /\ WaiterDone
    /\ fcall' = "none" /\ waiter' = NoWaiter
    /\ reporting' = TRUE /\ reporter' = "sleep"
    /\ \E a \in ReadableHeights : last' = a.height
    /\ UNCHANGED degraded

(* wait_for_finality() joins an earlier wait first. *)
StartWaitForFinality ==
    /\ fcall = "none" /\ fcall' = "wait"
    /\ UNCHANGED <<reporting, reporter, last, waiter, degraded>>

WaitForFinality(h) ==
    /\ fcall = "wait" /\ WaiterDone
    /\ fcall' = "none"
    /\ waiter' = [NoWaiter EXCEPT !.at = "thread", !.need = h]
    /\ UNCHANGED <<reporting, reporter, last, degraded>>
-----------------------------------------------------------------------------
(* The threads. *)

ReporterWakes ==
    /\ reporter = "sleep"
    /\ reporter' = IF reporting THEN "read" ELSE "ended"
    /\ UNCHANGED <<reporting, last, waiter, fcall, degraded>>

(* Faulty variant: only the next height counts as new. *)
ReporterReadsNextOnly ==
    /\ reporter = "read"
    /\ \E a \in ReadableHeights : last' = IF a.height = last + 1 THEN a.height ELSE last
    /\ reporter' = IF reporting THEN "sleep" ELSE "ended"
    /\ UNCHANGED <<reporting, waiter, fcall, degraded>>

ReporterReads ==
    /\ reporter = "read"
    /\ \E a \in ReadableHeights : last' = IF a.height > last THEN a.height ELSE last
    /\ reporter' = IF reporting THEN "sleep" ELSE "ended"
    /\ UNCHANGED <<reporting, waiter, fcall, degraded>>

Answer(v) == waiter' = [waiter EXCEPT !.at = "ended", !.verdict = v]

(* Faulty variant: the turns are not counted. *)
WaiterReadsForever ==
    /\ waiter.at = "thread"
    /\ \E a \in ReadableHeights :
          IF a.height >= waiter.need
          THEN waiter' = [waiter EXCEPT !.at = "ended", !.exact = a.exact, !.verdict = TRUE]
          ELSE UNCHANGED waiter
    /\ UNCHANGED <<reporting, reporter, last, fcall, degraded>>

(* The loop of wait_for_finality(), ended by its turns alone. *)
WaiterReads ==
    /\ waiter.at = "thread"
    /\ IF waiter.turn = MaxTurns THEN Answer(FALSE)
       ELSE \E a \in ReadableHeights :
               IF a.height >= waiter.need
               THEN waiter' = [waiter EXCEPT !.at = "ended", !.exact = a.exact, !.verdict = TRUE]
               ELSE waiter' = [waiter EXCEPT !.turn = @ + 1]
    /\ UNCHANGED <<reporting, reporter, last, fcall, degraded>>

NodeDegrades ==
    /\ degraded' = ~ degraded
    /\ UNCHANGED <<reporting, reporter, last, waiter, fcall>>
-----------------------------------------------------------------------------
FinalizationCalls ==
    \/ \E c \in {"stop", "monitor"} : StopReporting(c)
    \/ StartWaitForFinality
    \/ NodeDegrades

FinalizationJoins ==
    Stopped \/ MonitorFinalization \/ \E h \in 1..MaxHeight : WaitForFinality(h)

ReporterStep == ReporterWakes \/ ReporterReads

FinalizationNext ==
    \/ (FinalizationCalls \/ FinalizationJoins \/ ReporterStep \/ WaiterReads) /\ UNCHANGED heightsVars
    \/ HeightsNext /\ UNCHANGED finalizationVars
-----------------------------------------------------------------------------
(* A wait that answers true is right for ever about the height: unless the *)
(* fallback to the best block answered it, the chain is finalized that far *)
(* (monitoring_finality.cpp:227-253, 702).                                 *)
WaiterTrueMeansFinalized ==
    (waiter.at = "ended" /\ waiter.verdict /\ waiter.exact) => finalized >= waiter.need

(* Once the node answers about finality for good, a monitor that is not    *)
(* stopped comes to report every finalized height or a later one, also     *)
(* when a fallback had made it report too much (monitoring_finality.cpp:   *)
(* 659-673).                                                               *)
ReporterKeepsUp ==
    <>[](~ degraded) =>
        \A h \in 1..MaxHeight : (reporting /\ finalized = h) ~> (last >= h \/ ~ reporting)

(* monitor_finalization(), stop_monitoring() and wait_for_finality()       *)
(* return, wherever the threads they join are                              *)
(* (monitoring_finality.cpp:651-674, 688-730).                             *)
FinalizationCallReturns == (fcall # "none") ~> (fcall = "none")
-----------------------------------------------------------------------------
(* FinalityAwaiter. *)

VARIABLE awaiter   \* the call in progress

(* at: before a request about the pool or the finalized height, at the end *)
(* of a turn, or with the result.  need: the height that must be           *)
(* finalized; exact (history): the height that answered was the node's.    *)
NoAwaiter == [at |-> "none", tx |-> FALSE, need |-> 0, exact |-> TRUE, verdict |-> FALSE]

AwaiterInit == awaiter = NoAwaiter

AwaiterTypeOK ==
    awaiter \in [at : {"none", "pool", "height", "turn", "ended"}, tx : BOOLEAN, need : 0..(MaxHeight + 1),
                 exact : BOOLEAN, verdict : BOOLEAN]

(* wait_for_block_finality() is given the height, wait_for_tx_finality()   *)
(* takes the one after the height it reads first.                          *)
AwaitBlockFinality(h) ==
    /\ awaiter.at = "none"
    /\ awaiter' = [NoAwaiter EXCEPT !.at = "height", !.need = h]

AwaitTxFinality ==
    /\ awaiter.at = "none"
    /\ \E a \in HeightFromRpc :
          awaiter' = [NoAwaiter EXCEPT !.at = "pool", !.tx = TRUE, !.need = a.height + 1]

(* The transaction is pending, or not found to be. *)
AwaiterAsksPool ==
    /\ awaiter.at = "pool"
    /\ \E t \in Txs, p \in BOOLEAN :
          /\ p \in PendingAnswers(t)
          /\ awaiter' = [awaiter EXCEPT !.at = IF p THEN "turn" ELSE "height"]

(* Faulty variant: one block early. *)
AwaiterReadsEarly ==
    /\ awaiter.at = "height"
    /\ \E a \in HeightFromRpc :
          awaiter' = IF a.height + 1 >= awaiter.need
                     THEN [awaiter EXCEPT !.at = "ended", !.verdict = TRUE, !.exact = a.exact]
                     ELSE [awaiter EXCEPT !.at = "turn"]

AwaiterReads ==
    /\ awaiter.at = "height"
    /\ \E a \in HeightFromRpc :
          awaiter' = IF a.height >= awaiter.need
                     THEN [awaiter EXCEPT !.at = "ended", !.verdict = TRUE, !.exact = a.exact]
                     ELSE [awaiter EXCEPT !.at = "turn"]

AwaiterSleeps ==
    /\ awaiter.at = "turn"
    /\ awaiter' = [awaiter EXCEPT !.at = IF awaiter.tx THEN "pool" ELSE "height"]

(* With a timeout, which is looked at after a turn that found nothing;     *)
(* without one the call goes on for ever.                                  *)
AwaiterTimesOut ==
    /\ awaiter.at = "turn"
    /\ awaiter' = [awaiter EXCEPT !.at = "ended"]

AwaiterReturns ==
    /\ awaiter.at = "ended"
    /\ awaiter' = NoAwaiter

AwaiterSteps == AwaiterAsksPool \/ AwaiterReads \/ AwaiterSleeps

AwaiterNext ==
    \/ (\E h \in 1..MaxHeight : AwaitBlockFinality(h)) /\ UNCHANGED heightsVars
    \/ (AwaitTxFinality \/ AwaiterSteps \/ AwaiterTimesOut \/ AwaiterReturns) /\ UNCHANGED heightsVars
    \/ HeightsNext /\ UNCHANGED awaiter
-----------------------------------------------------------------------------
(* A wait that answers true is right for ever about the height: unless the *)
(* fallback to the best block answered it, the chain is finalized that far *)
(* (monitoring_finality.cpp:227-253, 994, 1065).                           *)
AwaitedMeansFinalized ==
    (awaiter.at = "ended" /\ awaiter.verdict /\ awaiter.exact) => finalized >= awaiter.need
=============================================================================
