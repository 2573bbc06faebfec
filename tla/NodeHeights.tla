---------------------------- MODULE NodeHeights ----------------------------
(***************************************************************************)
(* The node as the monitors of monitoring_finality.cpp see it: the height  *)
(* of its best block, the height of its finalized block and its pending    *)
(* extrinsics.  Nothing here is code of the SDK.  MidnightNetwork, which   *)
(* knows the blocks too, implements it (MCNodeWatchers, ShowsHeights).      *)
(***************************************************************************)
EXTENDS Naturals

CONSTANTS
    Txs,        \* the transactions of interest
    MaxHeight   \* bound: the height of the best chain

ASSUME MaxHeightAssumption == MaxHeight \in Nat

VARIABLES
    tip,        \* chain_getHeader(): the height of the best block
    finalized,  \* chain_getFinalizedHead(): the height of the finalized block
    pool        \* author_pendingExtrinsics

heightsVars == <<tip, finalized, pool>>

HeightsTypeOK ==
    /\ tip \in 0..MaxHeight
    /\ finalized \in 0..tip
    /\ pool \in SUBSET Txs

HeightsInit ==
    /\ tip = 0
    /\ finalized = 0
    /\ pool = {}

(* A block is put on top of the best chain, with some of the extrinsics. *)
TipRises ==
    /\ tip < MaxHeight
    /\ tip' = tip + 1
    /\ pool' \in SUBSET pool
    /\ UNCHANGED finalized

(* Blocks that are not finalized are retracted, and extrinsics return. *)
TipFalls ==
    /\ tip' \in finalized..(tip - 1)
    /\ \E back \in SUBSET Txs : pool' = pool \cup back
    /\ UNCHANGED finalized

FinalizedRises ==
    /\ finalized < tip
    /\ finalized' = finalized + 1
    /\ UNCHANGED <<tip, pool>>

(* An extrinsic is submitted, or dropped. *)
PoolChanges ==
    /\ \E t \in Txs : pool' \in {pool \cup {t}, pool \ {t}}
    /\ UNCHANGED <<tip, finalized>>

HeightsNext == TipRises \/ TipFalls \/ FinalizedRises \/ PoolChanges

HeightsSpec == HeightsInit /\ [][HeightsNext]_heightsVars
=============================================================================
