--------------------------- MODULE MCNodeWatchers ---------------------------
(* The calls that watch a node.  None changes the network and they share   *)
(* nothing else, so a behaviour of several is a behaviour of each: the run *)
(* takes one of them at a time.  One transaction and a few blocks: its     *)
(* block can be retracted, the transaction included again higher or lower, *)
(* another block put at the first height and finalized while a call is in  *)
(* progress.  Limits 0 and 2, and heights in a word of 8 instead of 2^32:  *)
(* a call ends by what it saw, by its iterations and by the height of the  *)
(* chain, and the tip can fall below the height a call started at.         *)
EXTENDS ConfirmationWaitProofs, NodePoolWatch, ConfirmationMonitor

VARIABLE watcher   \* the one that is used

watchersVars == <<networkVars, waitVars, watchVars, pended, monitorVars, watcher>>

Init ==
    /\ NetworkInit
    /\ WaitInit
    /\ WatchInit
    /\ MonitorInit
    /\ watcher \in {"wait", "pool", "monitor"}

WaitNext ==
    /\ watcher = "wait"
    /\ WaitSystemNext
    /\ UNCHANGED <<watchVars, pended, monitorVars, watcher>>

PoolWatchNext ==
    /\ watcher = "pool"
    /\ WatchSystemNext
    /\ UNCHANGED <<waitVars, monitorVars, watcher>>

MonitorNext ==
    /\ watcher = "monitor"
    /\ MonitorSystemNext
    /\ UNCHANGED <<waitVars, watchVars, pended, watcher>>

Next == WaitNext \/ PoolWatchNext \/ MonitorNext

(* The fairness of the calls: the thread inside one keeps running. *)
Wait(A) == watcher = "wait" /\ A /\ UNCHANGED <<networkVars, watchVars, pended, monitorVars, watcher>>
Pool(A) == watcher = "pool" /\ A /\ UNCHANGED <<networkVars, waitVars, pended, monitorVars, watcher>>

Spec ==
    /\ Init
    /\ [][Next]_watchersVars
    /\ WF_watchersVars(Wait(WaitSteps))
    /\ WF_watchersVars(Pool(WatchSteps))

-----------------------------------------------------------------------------
TypeOK == WaitSystemTypeOK /\ WatchSystemTypeOK /\ MonitorSystemTypeOK

(* WaitReturns and LimitedWatchReturns: wait_for_inclusion() and           *)
(* wait_for_finality() return (midnight_client.cpp:1616-1707), and so does *)
(* MidnightNodeRPC::wait_for_confirmation() with a limit                   *)
(* (midnight_node_rpc.cpp:540-606), whatever the chain does.               *)
CallsReturn == WaitReturns /\ LimitedWatchReturns

(* What the monitors of finality see of this network is a node as          *)
(* NodeHeights describes it: their results hold beside these calls.        *)
Heights == INSTANCE NodeHeights WITH tip <- Len(best), MaxHeight <- MaxBlocks

ShowsHeights == Heights!HeightsSpec
-----------------------------------------------------------------------------
(***************************************************************************)
(* Proofs, for every set of transactions, every number of blocks and every *)
(* width of a word.                                                        *)
(***************************************************************************)

(* The best chain is no longer than the blocks authored. *)
ChainInv ==
    /\ NetworkInv
    /\ Len(best) <= Len(carries) /\ Len(carries) <= MaxBlocks

(* The history variable misses no moment at which the pool held the        *)
(* transaction watched; what was seen was there.                           *)
PoolWatchInv ==
    /\ watcher = "pool" /\ ntx \in pool => pended
    /\ seen => pended /\ textual
    /\ npc = "done" /\ confirmed => seen

(* Before a call compares blocks, its last status is no timeout, and       *)
(* without a retreat the tip is not below the height it started at.        *)
MonitorInv ==
    /\ mstart \in 0..MaxBlocks
    /\ watcher = "monitor" /\ ~retreated => mstart <= Len(best)
    /\ mpc \in {"status", "tip", "sleep"} => status # "timeout" /\ mlimit \in MonitorBlocks

WatchersInv ==
    /\ ChainInv
    /\ PoolWatchInv
    /\ MonitorInv

(* What the monitors of finality see of a step of the network, and the     *)
(* step keeps ChainInv.                                                    *)
LEMMA NetworkShowsHeights ==
    ASSUME ChainInv, NetworkStep
    PROVE  ChainInv' /\ [Heights!HeightsNext]_(Heights!heightsVars)
  <1>1. NetworkInv'
    BY NetworkStepSafe DEF ChainInv
  <1> USE MaxBlocksAssumption
      DEF ChainInv, NetworkInv, NetworkTypeOK, Heights!HeightsNext, Heights!heightsVars
  <1>2. CASE ProduceBlock
    <2>1. Len(best') = Len(best) + 1 /\ Len(carries') = Len(carries) + 1 /\ Len(carries) < MaxBlocks
      BY <1>2 DEF ProduceBlock
    <2>2. Heights!TipRises
      BY <1>2, <2>1 DEF ProduceBlock, Heights!TipRises
    <2> QED BY <1>1, <2>1, <2>2
  <1>3. CASE Reorg
    <2>1. PICK h \in finalized..(Len(best) - 1) :
            /\ best' = SubSeq(best, 1, h)
            /\ \E back \in SUBSET UNION { carries[best[i]] : i \in (h + 1)..Len(best) } :
                 pool' = pool \cup back
      BY <1>3 DEF Reorg
    <2>2. UNCHANGED <<carries, finalized>> /\ Len(best') = h
      BY <1>3, <2>1 DEF Reorg
    <2>3. \A i \in 1..Len(best) : carries[best[i]] \in SUBSET Txs
      <3>1. \A b \in 1..Len(carries) : carries[b] \in SUBSET Txs
        OBVIOUS
      <3>2. \A i \in 1..Len(best) : best[i] \in 1..Len(carries)
        BY DEF Blocks
      <3> QED BY <3>1, <3>2
    <2>4. \E back \in SUBSET Txs : pool' = pool \cup back
      <3>1. PICK back \in SUBSET UNION { carries[best[i]] : i \in (h + 1)..Len(best) } :
              pool' = pool \cup back
        BY <2>1
      <3>2. \A i \in (h + 1)..Len(best) : carries[best[i]] \in SUBSET Txs
        BY <2>3
      <3>3. back \in SUBSET Txs
        BY <3>2
      <3> QED BY <3>1, <3>3
    <2>5. Heights!TipFalls
      BY <2>2, <2>4 DEF Heights!TipFalls
    <2> QED BY <1>1, <2>2, <2>5
  <1>4. CASE Finalize
    <2>1. Heights!FinalizedRises
      BY <1>4 DEF Finalize, Heights!FinalizedRises
    <2> QED BY <1>1, <1>4, <2>1 DEF Finalize
  <1>5. CASE Evict \/ \E t \in Txs : NodeAccepts(t)
    <2>1. Heights!PoolChanges
      BY <1>5 DEF Evict, NodeAccepts, Heights!PoolChanges
    <2>2. UNCHANGED <<carries, best>>
      BY <1>5 DEF Evict, NodeAccepts
    <2> QED BY <1>1, <2>1, <2>2
  <1>6. CASE IndexerCatchUp
    BY <1>1, <1>6 DEF IndexerCatchUp
  <1> QED BY <1>2, <1>3, <1>4, <1>5, <1>6 DEF NetworkStep, NetworkNext

(* The difference of two heights in a word is the true one as long as it   *)
(* is not negative (transaction_confirmation.cpp:59).                      *)
LEMMA WrappedDifference ==
    ASSUME NEW d \in Nat, d < Word
    PROVE  (Word + d) % Word = d
  BY MonitorAssumption

(* What no call of the confirmation monitor does: report a timeout before  *)
(* max_blocks blocks were added, unless the tip had been below its start.  *)
TimeoutStep ==
    (mpc = "tip" /\ status' = "timeout" /\ ~ retreated) => Len(best) >= mstart + mlimit

LEMMA WatchersInit == Init => WatchersInv /\ Heights!HeightsInit
  <1> SUFFICES ASSUME Init PROVE WatchersInv /\ Heights!HeightsInit
    OBVIOUS
  <1>1. ChainInv /\ Heights!HeightsInit
    BY MaxBlocksAssumption DEF Init, NetworkInit, ChainInv, NetworkInv, NetworkTypeOK, Places,
       Nowhere, Blocks, Heights!HeightsInit
  <1>2. PoolWatchInv
    BY DEF Init, NetworkInit, WatchInit, PoolWatchInv
  <1>3. MonitorInv
    BY MaxBlocksAssumption DEF Init, NetworkInit, MonitorInit, MonitorInv
  <1> QED BY <1>1, <1>2, <1>3 DEF WatchersInv

(* A step that leaves the network alone. *)
LEMMA NetworkStays ==
    ASSUME ChainInv, UNCHANGED networkVars
    PROVE  ChainInv' /\ [Heights!HeightsNext]_(Heights!heightsVars)
  BY DEF ChainInv, networkVars, NetworkInv, NetworkTypeOK, Blocks, Heights!heightsVars

(* MidnightNodeRPC::wait_for_confirmation(). *)
LEMMA PoolWatchStep ==
    ASSUME WatchersInv, PoolWatchNext
    PROVE  PoolWatchInv'
  <1> USE DEF PoolWatchInv
  <1>1. PoolWatchInv /\ watcher = "pool" /\ watcher' = watcher
    BY DEF WatchersInv, PoolWatchNext
  <1>2. CASE Elsewhere /\ UNCHANGED watchVars /\ pended' = (pended \/ ntx \in pool')
    BY <1>1, <1>2 DEF watchVars
  <1>3. CASE StartWatch /\ UNCHANGED networkVars /\ pended' = (ntx' \in pool)
    BY <1>1, <1>3 DEF StartWatch, networkVars
  <1>4. CASE WatchSteps /\ UNCHANGED <<networkVars, pended>>
    <2>1. CASE PollPool
      BY <1>1, <1>4, <2>1 DEF PollPool, ReturnWatch, networkVars
    <2>2. CASE PollPoolThrows
      BY <1>1, <1>4, <2>2 DEF PollPoolThrows, networkVars
    <2>3. CASE CheckTip
      BY <1>1, <1>4, <2>3 DEF CheckTip, ReturnWatch, networkVars
    <2>4. CASE IterationsExhausted
      BY <1>1, <1>4, <2>4 DEF IterationsExhausted, ReturnWatch, networkVars
    <2> QED BY <1>4, <2>1, <2>2, <2>3, <2>4 DEF WatchSteps
  <1> QED BY <1>2, <1>3, <1>4 DEF PoolWatchNext, WatchSystemNext

(* TransactionConfirmationMonitor. *)
LEMMA MonitorStep ==
    ASSUME WatchersInv, MonitorNext
    PROVE  MonitorInv' /\ TimeoutStep
  <1>1. MonitorInv /\ watcher = "monitor" /\ watcher' = watcher
    BY DEF WatchersInv, MonitorNext
  <1>2. /\ Len(best) \in 0..MaxBlocks /\ MaxBlocks \in Nat /\ mstart \in 0..MaxBlocks
        /\ MonitorBlocks \subseteq Nat /\ Word \in Nat /\ MaxBlocks < Word
    BY MaxBlocksAssumption, MonitorAssumption
    DEF WatchersInv, ChainInv, NetworkInv, NetworkTypeOK, MonitorInv
  <1>3. CASE /\ Elsewhere
             /\ retreated' = (retreated \/ Len(best') < mstart)
             /\ UNCHANGED <<mpc, mtx, mlimit, mstart, status>>
    <2>1. NetworkStep
      BY <1>3 DEF Elsewhere, ChainMoves, NetworkStep, NetworkNext
    <2>2. Len(best') \in Nat
      BY <2>1, NetworkShowsHeights DEF WatchersInv, ChainInv, NetworkInv, NetworkTypeOK
    <2>3. ~ retreated' => mstart <= Len(best')
      <3>1. ~ retreated' => ~ (Len(best') < mstart)
        BY <1>3, Zenon
      <3> QED BY <1>2, <2>2, <3>1
    <2> QED BY <1>1, <1>3, <2>3 DEF MonitorInv, TimeoutStep
  <1>4. CASE StartMonitor /\ UNCHANGED networkVars
    BY <1>1, <1>2, <1>4 DEF StartMonitor, networkVars, MonitorInv, TimeoutStep
  <1>5. CASE CheckStatus /\ UNCHANGED networkVars
    BY <1>1, <1>2, <1>5 DEF CheckStatus, networkVars, MonitorInv, TimeoutStep
  <1>6. CASE QueryTxStatus /\ UNCHANGED networkVars
    BY <1>1, <1>2, <1>6 DEF QueryTxStatus, TxStatus, networkVars, MonitorInv, TimeoutStep
  <1>7. CASE (Sleep \/ TipThrows) /\ UNCHANGED networkVars
    BY <1>1, <1>2, <1>7 DEF Sleep, TipThrows, networkVars, MonitorInv, TimeoutStep
  <1>8. CASE CheckBlocksPassed /\ UNCHANGED networkVars
    <2>1. MonitorInv'
      BY <1>1, <1>2, <1>8 DEF CheckBlocksPassed, networkVars, MonitorInv
    <2>2. TimeoutStep
      <3> SUFFICES ASSUME status' = "timeout", ~ retreated PROVE Len(best) >= mstart + mlimit
        BY DEF TimeoutStep
      <3>1. mpc = "tip" /\ status # "timeout" /\ mlimit \in Nat /\ mstart <= Len(best)
        BY <1>1, <1>2, <1>8 DEF CheckBlocksPassed, MonitorInv
      <3>2. blocks_passed >= mlimit
        BY <1>8, <3>1 DEF CheckBlocksPassed
      <3>3. PICK d \in Nat : d = Len(best) - mstart /\ d < Word
        BY <1>2, <3>1
      <3>4. Word + Len(best) - mstart = Word + d
        BY <1>2, <3>3
      <3>5. blocks_passed = d
        BY <3>3, <3>4, WrappedDifference DEF blocks_passed
      <3> QED BY <1>2, <3>1, <3>2, <3>3, <3>5
    <2> QED BY <2>1, <2>2
  <1> QED BY <1>3, <1>4, <1>5, <1>6, <1>7, <1>8 DEF MonitorNext, MonitorSystemNext, MonitorSteps

LEMMA WatchersStep ==
    WatchersInv /\ [Next]_watchersVars
      => WatchersInv' /\ TimeoutStep /\ [Heights!HeightsNext]_(Heights!heightsVars)
  <1> SUFFICES ASSUME WatchersInv, [Next]_watchersVars
               PROVE  WatchersInv' /\ TimeoutStep /\ [Heights!HeightsNext]_(Heights!heightsVars)
    OBVIOUS
  <1>1. ChainInv /\ PoolWatchInv /\ MonitorInv
    BY DEF WatchersInv
  <1>2. NetworkStep \/ UNCHANGED networkVars
    BY DEF Next, WaitNext, PoolWatchNext, MonitorNext, WaitSystemNext, WatchSystemNext,
           MonitorSystemNext, Elsewhere, ChainMoves, NetworkStep, NetworkNext, watchersVars
  <1>3. ChainInv' /\ [Heights!HeightsNext]_(Heights!heightsVars)
    BY <1>1, <1>2, NetworkShowsHeights, NetworkStays
  <1>4. ASSUME UNCHANGED <<watchVars, pended, watcher>>, watcher # "pool" \/ UNCHANGED networkVars
        PROVE  PoolWatchInv'
    BY <1>1, <1>4 DEF PoolWatchInv, watchVars, networkVars
  <1>5. ASSUME UNCHANGED <<monitorVars, watcher>>, watcher # "monitor" \/ UNCHANGED networkVars
        PROVE  MonitorInv' /\ TimeoutStep
    BY <1>1, <1>5 DEF MonitorInv, TimeoutStep, monitorVars, networkVars
  <1>6. CASE WaitNext
    <2>1. PoolWatchInv'
      BY <1>4, <1>6 DEF WaitNext
    <2>2. MonitorInv' /\ TimeoutStep
      BY <1>5, <1>6 DEF WaitNext
    <2> QED BY <1>3, <2>1, <2>2 DEF WatchersInv
  <1>7. CASE PoolWatchNext
    <2>1. MonitorInv' /\ TimeoutStep
      BY <1>5, <1>7 DEF PoolWatchNext
    <2> QED BY <1>3, <1>7, <2>1, PoolWatchStep DEF WatchersInv
  <1>8. CASE MonitorNext
    <2>1. PoolWatchInv'
      BY <1>4, <1>8 DEF MonitorNext
    <2> QED BY <1>3, <1>8, <2>1, MonitorStep DEF WatchersInv
  <1>9. CASE UNCHANGED watchersVars
    <2>1. PoolWatchInv'
      BY <1>4, <1>9 DEF watchersVars
    <2>2. MonitorInv' /\ TimeoutStep
      BY <1>5, <1>9 DEF watchersVars
    <2> QED BY <1>3, <2>1, <2>2 DEF WatchersInv
  <1> QED BY <1>6, <1>7, <1>8, <1>9 DEF Next

LEMMA WatchersInvariant == Spec => []WatchersInv
  BY WatchersInit, WatchersStep, PTL DEF Spec

(* wait_for_confirmation() answers true only about a transaction that was  *)
(* pending during the call (midnight_node_rpc.cpp:537, 542-576).           *)
THEOREM PositiveCorrect == Spec => []PositiveOnlyAfterPending
  <1>1. WatchersInv => PositiveOnlyAfterPending
    BY DEF WatchersInv, PoolWatchInv, PositiveOnlyAfterPending
  <1> QED BY <1>1, WatchersInvariant, PTL

(* The timeout of the confirmation monitor is exact while the tip has not  *)
(* been below the height the call started at, in words of any width that   *)
(* holds the heights (transaction_confirmation.cpp:59).                    *)
THEOREM TimeoutCorrect == Spec => TimeoutExactWithoutRetreat
  <1>1. WatchersInv /\ [Next]_watchersVars => [TimeoutStep]_monitorSystemVars
    BY WatchersStep
  <1> QED BY <1>1, WatchersInvariant, PTL DEF Spec, TimeoutExactWithoutRetreat, TimeoutStep

(* The network implements the node that the monitors of finality are       *)
(* checked against.                                                        *)
THEOREM HeightsImplemented == Spec => ShowsHeights
  <1>1. WatchersInv /\ [Next]_watchersVars => [Heights!HeightsNext]_(Heights!heightsVars)
    BY WatchersStep
  <1>2. Init => Heights!HeightsInit
    BY WatchersInit
  <1> QED BY <1>1, <1>2, WatchersInvariant, PTL DEF Spec, ShowsHeights, Heights!HeightsSpec
=============================================================================
