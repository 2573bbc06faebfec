---------------------------- MODULE NodePoolWatch ----------------------------
(***************************************************************************)
(* MidnightNodeRPC::wait_for_confirmation: infers that a transaction was   *)
(* included from its leaving the node's pending extrinsics.                *)
(***************************************************************************)
EXTENDS MidnightNetwork

CONSTANT WaitBlocks   \* values of the max_blocks argument, 0 = no limit

ASSUME WaitBlocksAssumption == WaitBlocks \subseteq Nat

VARIABLES
    npc,           \* "idle", "pool", "tip" or "done"
    ntx,           \* the transaction whose identifier is watched
    textual,       \* the identifier occurs in the extrinsic's hex
    max_blocks,    \* argument of the call
    start_height,  \* chain tip when the call began, 0 if it was not to be had
    seen,          \* seen_in_pending_pool
    iteration,     \* polls made, counted while there is a limit
    confirmed,     \* what the call returned
    pended         \* history: the pool has held ntx since the call began

watchVars ==
    <<npc, ntx, textual, max_blocks, start_height, seen, iteration, confirmed>>

WatchTypeOK ==
    /\ npc \in {"idle", "pool", "tip", "done"}
    /\ ntx \in Txs
    /\ textual \in BOOLEAN
    /\ max_blocks \in WaitBlocks
    /\ start_height \in Nat
    /\ seen \in BOOLEAN
    /\ iteration \in 0..max_blocks
    /\ confirmed \in BOOLEAN
    /\ pended \in BOOLEAN

WatchInit ==
    /\ npc = "idle"
    /\ ntx \in Txs
    /\ textual = FALSE
    /\ max_blocks = CHOOSE b \in WaitBlocks : TRUE
    /\ start_height = 0
    /\ seen = FALSE
    /\ iteration = 0
    /\ confirmed = FALSE
    /\ pended = FALSE

(* Faulty variant: what an earlier call saw is not forgotten. *)
StartWatchKeepingSeen ==
    /\ npc \in {"idle", "done"}
    /\ npc' = "pool"
    /\ ntx' \in Txs
    /\ textual' \in BOOLEAN
    /\ max_blocks' \in WaitBlocks
    /\ start_height' \in {Len(best), 0}
    /\ iteration' = 0
    /\ confirmed' = FALSE
    /\ UNCHANGED seen

(* The call reads the tip first; a failure leaves start_height at 0. *)
StartWatch ==
    /\ npc \in {"idle", "done"}
    /\ npc' = "pool"
    /\ ntx' \in Txs
    /\ textual' \in BOOLEAN
    /\ max_blocks' \in WaitBlocks
    /\ start_height' \in {Len(best), 0}
    /\ seen' = FALSE
    /\ iteration' = 0
    /\ confirmed' = FALSE

ReturnWatch(answer) ==
    /\ npc' = "done"
    /\ confirmed' = answer

(* The loop condition. *)
WithinIterations == max_blocks = 0 \/ iteration < max_blocks

(* author_pendingExtrinsics lists raw extrinsics: the identifier is looked *)
(* for in their hex text, so the hash author_submitExtrinsic returned is   *)
(* not found there.                                                        *)
PollPool ==
    /\ npc = "pool"
    /\ WithinIterations
    /\ LET is_pending == textual /\ ntx \in pool
       IN  IF ~ is_pending /\ seen
           THEN ReturnWatch(TRUE) /\ UNCHANGED seen
           ELSE /\ seen' = (seen \/ is_pending)
                /\ npc' = "tip"
                /\ UNCHANGED confirmed
    /\ UNCHANGED <<ntx, textual, max_blocks, start_height, iteration>>

PollPoolThrows ==
    /\ npc = "pool"
    /\ WithinIterations
    /\ npc' = "tip"
    /\ UNCHANGED <<ntx, textual, max_blocks, start_height, seen, iteration, confirmed>>

(* Faulty variant: a turn in which the tip is not to be had is not counted. *)
CheckTipUncounted ==
    /\ npc = "tip"
    /\ \E tipKnown \in BOOLEAN :
          IF max_blocks > 0 /\ tipKnown /\ Len(best) >= start_height + max_blocks
          THEN ReturnWatch(FALSE) /\ UNCHANGED iteration
          ELSE /\ npc' = "pool"
               /\ iteration' = IF max_blocks > 0 /\ tipKnown
                               THEN iteration + 1 ELSE iteration
               /\ UNCHANGED confirmed
    /\ UNCHANGED <<ntx, textual, max_blocks, start_height, seen>>

(* The tip is compared with the limit, unless there is none or the tip is  *)
(* not to be had; then the next iteration begins.                          *)
CheckTip ==
    /\ npc = "tip"
    /\ \E tipKnown \in BOOLEAN :
          IF max_blocks > 0 /\ tipKnown /\ Len(best) >= start_height + max_blocks
          THEN ReturnWatch(FALSE) /\ UNCHANGED iteration
          ELSE /\ npc' = "pool"
               /\ iteration' = IF max_blocks > 0 THEN iteration + 1 ELSE 0
               /\ UNCHANGED confirmed
    /\ UNCHANGED <<ntx, textual, max_blocks, start_height, seen>>

IterationsExhausted ==
    /\ npc = "pool"
    /\ ~ WithinIterations
    /\ ReturnWatch(FALSE)
    /\ UNCHANGED <<ntx, textual, max_blocks, start_height, seen, iteration>>

WatchSteps ==
    \/ PollPool
    \/ PollPoolThrows
    \/ CheckTip
    \/ IterationsExhausted

watchSystemVars == <<networkVars, watchVars, pended>>

WatchSystemInit == NetworkInit /\ WatchInit

WatchSystemNext ==
    \/ /\ Elsewhere /\ UNCHANGED watchVars
       /\ pended' = (pended \/ ntx \in pool')
    \/ /\ StartWatch /\ UNCHANGED networkVars
       /\ pended' = (ntx' \in pool)
    \/ /\ WatchSteps /\ UNCHANGED <<networkVars, pended>>

(* The thread inside the call keeps running. *)
WatchSpec ==
    /\ WatchSystemInit
    /\ [][WatchSystemNext]_watchSystemVars
    /\ WF_watchSystemVars(WatchSteps /\ UNCHANGED <<networkVars, pended>>)

WatchSystemTypeOK == NetworkTypeOK /\ WatchTypeOK

(* A positive answer is never a guess from an empty pool, from a failed    *)
(* poll, from what an earlier call saw, or about a hash: the transaction   *)
(* was pending at some moment of this call                                 *)
(* (midnight_node_rpc.cpp:537, 542-576).                                   *)
PositiveOnlyAfterPending == (npc = "done" /\ confirmed) => pended /\ textual

(* A call with a limit returns, however the node answers; a call without   *)
(* one is the documented exception (midnight_node_rpc.cpp:540).            *)
LimitedWatchReturns ==
    (npc \in {"pool", "tip"} /\ max_blocks > 0) ~> (npc = "done")

(* "@return true if confirmed, false if timeout"                           *)
(* (include/midnight/network/midnight_node_rpc.hpp:115): some block took   *)
(* the transaction the call answered true about.                           *)
ConfirmedMeansIncluded ==
    (npc = "done" /\ confirmed) => \E b \in Blocks : ntx \in carries[b]
=============================================================================
