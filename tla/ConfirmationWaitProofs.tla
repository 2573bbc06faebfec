----------------------- MODULE ConfirmationWaitProofs -----------------------
(***************************************************************************)
(* Proofs about ConfirmationWait, for every set of transactions, every     *)
(* number of blocks and every deadline.                                    *)
(***************************************************************************)
EXTENDS ConfirmationWait, TLAPS

(* What the environment keeps: the best chain is made of authored blocks   *)
(* and reaches the finalized height, and the indexer only ever saw a       *)
(* transaction in a block that carries it.                                 *)
NetworkInv ==
    /\ NetworkTypeOK
    /\ finalized <= Len(best)
    /\ \A h \in 1..Len(best) : best[h] \in Blocks
    /\ \A t \in Txs : view[t] # Nowhere =>
          view[t].block \in Blocks /\ t \in carries[view[t].block]

(* What the environment never takes back. *)
NetworkGrows ==
    /\ finalized <= finalized'
    /\ \A h \in 1..finalized : best'[h] = best[h]
    /\ \A b \in Blocks : b \in Blocks' /\ carries'[b] = carries[b]

NetworkStep == NetworkNext \/ (\E t \in Txs : NodeAccepts(t))

(* Every step of the environment keeps NetworkInv and only adds blocks and *)
(* finality.                                                               *)
LEMMA NetworkStepSafe ==
    ASSUME NetworkInv, NetworkStep
    PROVE  NetworkInv' /\ NetworkGrows
<1> USE DEF NetworkInv, NetworkTypeOK, NetworkGrows, Blocks, Places, Nowhere
<1>1. CASE ProduceBlock
  BY <1>1, SMTT(30) DEF ProduceBlock
<1>2. CASE Reorg
  <2>1. PICK h \in finalized..(Len(best) - 1) :
          /\ best' = SubSeq(best, 1, h)
          /\ \E back \in SUBSET
                UNION { carries[best[i]] : i \in (h + 1)..Len(best) } :
               pool' = pool \cup back
    BY <1>2 DEF Reorg
  <2>2. UNCHANGED <<carries, finalized, view>>
    BY <1>2 DEF Reorg
  <2>3. best' \in Seq(Nat) /\ Len(best') = h
    BY <2>1, SMTT(30)
  <2>4. \A i \in 1..h : best'[i] = best[i]
    BY <2>1
  <2>5. \A i \in 1..Len(best) : carries[best[i]] \in SUBSET Txs
    OBVIOUS
  <2>6. pool' \in SUBSET Txs
    BY <2>1, <2>5
  <2> QED
    BY <2>1, <2>2, <2>3, <2>4, <2>6
<1>3. CASE Finalize
  BY <1>3 DEF Finalize
<1>4. CASE Evict
  BY <1>4 DEF Evict
<1>5. CASE IndexerCatchUp
  BY <1>5, SMTT(30) DEF IndexerCatchUp, IsPlaceOf, OnChain
<1>6. CASE \E t \in Txs : NodeAccepts(t)
  BY <1>6 DEF NodeAccepts
<1> QED
  BY <1>1, <1>2, <1>3, <1>4, <1>5, <1>6 DEF NetworkStep, NetworkNext

(***************************************************************************)
(* The inductive invariant.  The two verdicts rest on the finalized prefix *)
(* being fixed, so they need: what the result says is evidence, a call     *)
(* past its inclusion loop holds a successful result, and a call about to  *)
(* compare hashes has seen the height finalized.                           *)
(***************************************************************************)
ResultInv ==
    /\ conf.success => conf.block \in Blocks /\ wtx \in carries[conf.block]
    /\ conf.success => conf.error \in {"None", "NodeRpcError"}
    /\ conf.error = "NotFinalizedCanonical" => wpc = "done"

StageInv ==
    /\ wpc \in {"idle", "inclusion"} => ~ conf.success
    /\ wpc \in {"head", "canonical"} => conf.success /\ wmode = "finality"
    /\ wpc = "canonical" => conf.height \in 1..finalized /\ polls < MaxPolls

WaitInv ==
    /\ NetworkInv
    /\ WaitTypeOK
    /\ ResultInv
    /\ StageInv
    /\ FinalityVerdictHolds
    /\ NonCanonicalVerdictHolds

LEMMA WaitInvInit == WaitSystemInit => WaitInv
  BY MaxPollsAssumption
  DEF WaitSystemInit, WaitInit, NetworkInit, WaitInv, NetworkInv, NetworkTypeOK,
      WaitTypeOK, ResultInv, StageInv, FinalityVerdictHolds,
      NonCanonicalVerdictHolds, Results, FreshResult, Errors, Places, Nowhere,
      Blocks

(* A step of the environment keeps both verdicts of a call that returned   *)
(* and what a call in progress has established.                            *)
LEMMA NetworkStepKeepsWaitInv ==
    ASSUME WaitInv, NetworkStep, UNCHANGED waitVars
    PROVE  WaitInv'
<1>1. NetworkInv' /\ NetworkGrows
  BY NetworkStepSafe DEF WaitInv
<1>2. WaitTypeOK'
  BY DEF WaitInv, waitVars, WaitTypeOK
<1>3. ResultInv' /\ StageInv'
  <2>1. finalized \in Nat /\ finalized' \in Nat /\ finalized <= finalized'
    BY <1>1 DEF WaitInv, NetworkInv, NetworkTypeOK, NetworkGrows
  <2>2. ResultInv'
    BY <1>1 DEF WaitInv, waitVars, ResultInv, NetworkGrows
  <2>3. StageInv'
    BY <2>1 DEF WaitInv, waitVars, StageInv
  <2> QED
    BY <2>2, <2>3
<1>4. FinalityVerdictHolds' /\ NonCanonicalVerdictHolds'
  <2>1. /\ finalized \in Nat /\ finalized' \in Nat /\ finalized <= finalized'
        /\ \A h \in 1..finalized : h \in 1..finalized' /\ best'[h] = best[h]
    BY <1>1, SMTT(30) DEF WaitInv, NetworkInv, NetworkTypeOK, NetworkGrows
  <2>2. conf.success => carries'[conf.block] = carries[conf.block]
    BY <1>1 DEF WaitInv, ResultInv, NetworkGrows
  <2>3. FinalityVerdictHolds'
    BY <2>1, <2>2 DEF WaitInv, waitVars, FinalityVerdictHolds
  <2>4. NonCanonicalVerdictHolds'
    BY <2>1 DEF WaitInv, waitVars, NonCanonicalVerdictHolds
  <2> QED
    BY <2>3, <2>4
<1> QED
  BY <1>1, <1>2, <1>3, <1>4 DEF WaitInv

(* A step of the call itself, or a new call. *)
LEMMA CallStepKeepsWaitInv ==
    ASSUME WaitInv, WaitSteps \/ WaitCalls, UNCHANGED networkVars
    PROVE  WaitInv'
<1> USE MaxPollsAssumption
    DEF WaitInv, networkVars, WaitTypeOK, ResultInv, StageInv,
        FinalityVerdictHolds, NonCanonicalVerdictHolds, Results, Errors, Blocks
<1>0. NetworkInv'
  BY DEF NetworkInv, NetworkTypeOK
<1>1. CASE QueryIndexer
  <2> USE <1>1 DEF QueryIndexer
  <2>1. PICK parses \in BOOLEAN : conf' = ConfirmationFrom(view[wtx], parses)
    OBVIOUS
  <2>2. view[wtx] \in Places
    BY DEF NetworkInv, NetworkTypeOK
  <2>3. conf' \in Results /\ conf'.error = "None"
    BY <2>1, <2>2 DEF ConfirmationFrom, Places
  <2>4. conf'.success => conf'.block \in Blocks /\ wtx \in carries[conf'.block]
    BY <2>1, <2>2 DEF ConfirmationFrom, NetworkInv
  <2>5. WaitTypeOK' /\ ResultInv' /\ StageInv'
    BY <2>3, <2>4
  <2> QED
    BY <1>0, <2>3, <2>5
<1>2. CASE QueryIndexerThrows
  BY <1>0, <1>2 DEF QueryIndexerThrows
<1>3. CASE InclusionTimesOut
  BY <1>0, <1>3 DEF InclusionTimesOut
<1>4. CASE GetFinalizedHead
  BY <1>0, <1>4, SMTT(30) DEF GetFinalizedHead, NetworkInv, NetworkTypeOK
<1>5. CASE GetBlockHash
  BY <1>0, <1>5 DEF GetBlockHash, NetworkInv, NetworkTypeOK
<1>6. CASE FinalityPollThrows
  BY <1>0, <1>6 DEF FinalityPollThrows
<1>7. CASE FinalityTimesOut
  BY <1>0, <1>7 DEF FinalityTimesOut
<1>8. CASE StartWait
  BY <1>0, <1>8 DEF StartWait, FreshResult
<1>9. CASE RefuseHash
  <2>1. conf' = [ success |-> FALSE, height |-> 0, block |-> 0, error |-> "InvalidHash" ]
    BY <1>9 DEF RefuseHash, FreshResult
  <2>2. wpc' = "done" /\ wmode' \in {"inclusion", "finality"} /\ polls' = 0 /\ wtx' = wtx
    BY <1>9 DEF RefuseHash
  <2>3. ~ conf'.success /\ conf'.error = "InvalidHash" /\ conf' \in Results
    BY <2>1
  <2> QED
    BY <1>0, <2>2, <2>3
<1> HIDE DEF WaitInv
<1> QED
  BY <1>1, <1>2, <1>3, <1>4, <1>5, <1>6, <1>7, <1>8, <1>9 DEF WaitSteps, WaitCalls

LEMMA WaitInvStep == WaitInv /\ [WaitSystemNext]_waitSystemVars => WaitInv'
<1> SUFFICES ASSUME WaitInv, [WaitSystemNext]_waitSystemVars PROVE WaitInv'
  OBVIOUS
<1>1. CASE NetworkStep /\ UNCHANGED waitVars
  BY <1>1, NetworkStepKeepsWaitInv
<1>2. CASE (WaitSteps \/ WaitCalls) /\ UNCHANGED networkVars
  BY <1>2, CallStepKeepsWaitInv
<1>3. CASE UNCHANGED waitSystemVars
  <2>1. UNCHANGED networkVars /\ UNCHANGED waitVars
    BY <1>3 DEF waitSystemVars
  <2>2. NetworkInv'
    BY <2>1 DEF networkVars, WaitInv, NetworkInv, NetworkTypeOK, Blocks
  <2>3. WaitTypeOK' /\ ResultInv' /\ StageInv'
    BY <2>1 DEF waitVars, networkVars, WaitInv, WaitTypeOK, ResultInv, StageInv, Blocks
  <2>4. FinalityVerdictHolds' /\ NonCanonicalVerdictHolds'
    BY <2>1 DEF waitVars, networkVars, WaitInv, FinalityVerdictHolds,
       NonCanonicalVerdictHolds
  <2> QED
    BY <2>2, <2>3, <2>4 DEF WaitInv
<1> QED
  BY <1>1, <1>2, <1>3 DEF WaitSystemNext, NetworkStep

THEOREM WaitInvariance == WaitSpec => []WaitInv
<1>1. WaitSystemInit => WaitInv
  BY WaitInvInit
<1>2. WaitInv /\ [WaitSystemNext]_waitSystemVars => WaitInv'
  BY WaitInvStep
<1> QED
  BY <1>1, <1>2, PTL DEF WaitSpec

(* The calls and the environment keep their types. *)
THEOREM WaitTypeCorrect == WaitSpec => []WaitSystemTypeOK
<1>1. WaitInv => WaitSystemTypeOK
  BY DEF WaitInv, NetworkInv, WaitSystemTypeOK
<1> QED
  BY <1>1, WaitInvariance, PTL

(* A finality wait that succeeded stays right: its block is finalized at   *)
(* the reported height and holds the transaction, whatever the chain does  *)
(* afterwards (MidnightClient::wait_for_finality).                         *)
THEOREM FinalityVerdictCorrect == WaitSpec => []FinalityVerdictHolds
<1>1. WaitInv => FinalityVerdictHolds
  BY DEF WaitInv
<1> QED
  BY <1>1, WaitInvariance, PTL

(* A wait that reports "not on the finalized canonical chain" stays right: *)
(* another block is finalized at that height.                              *)
THEOREM NonCanonicalVerdictCorrect == WaitSpec => []NonCanonicalVerdictHolds
<1>1. WaitInv => NonCanonicalVerdictHolds
  BY DEF WaitInv
<1> QED
  BY <1>1, WaitInvariance, PTL

(* Every successful result names a block that carries the transaction,     *)
(* however far behind the indexer is.                                      *)
THEOREM ConfirmationCorrect == WaitSpec => []ConfirmationIsEvidence
<1>1. WaitInv => ConfirmationIsEvidence
  BY DEF WaitInv, ResultInv, ConfirmationIsEvidence
<1> QED
  BY <1>1, WaitInvariance, PTL
=============================================================================
