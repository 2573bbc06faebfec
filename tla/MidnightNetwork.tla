-------------------------- MODULE MidnightNetwork --------------------------
(***************************************************************************)
(* The Midnight network as the SDK observes it.  Nothing here is code of   *)
(* the SDK: it is the environment every client call races with, modelled   *)
(* from the JSON-RPC methods and GraphQL queries the SDK issues            *)
(*   author_submitExtrinsic, author_pendingExtrinsics  -> pool             *)
(*   chain_getFinalizedHead, chain_getHeader           -> finalized        *)
(*   chain_getBlockHash(height)                        -> best[height]     *)
(*   indexer transactions(offset: {hash})              -> view             *)
(* A block is identified by the order in which it was authored, so the     *)
(* block "hash" b is the index of its body in carries.  Height 0 is        *)
(* genesis, which carries no transaction.                                  *)
(***************************************************************************)
EXTENDS Naturals, Sequences, FiniteSets

CONSTANTS
    Txs,        \* the transactions of interest
    MaxBlocks   \* bound on the number of blocks ever authored

ASSUME MaxBlocksAssumption == MaxBlocks \in Nat

VARIABLES
    carries,    \* carries[b]: the transactions in the body of block b
    best,       \* best[h]: the block at height h of the node's best chain
    finalized,  \* height of the finalized head
    pool,       \* the node's pending extrinsics
    view        \* view[t]: where the indexer last saw t

networkVars == <<carries, best, finalized, pool, view>>

Blocks == 1..Len(carries)

(* "block" absent: the indexer knows no such transaction. *)
Nowhere == [block |-> 0, height |-> 0]

Places == [block : Nat, height : Nat]

OnChain(t) == \E h \in 1..Len(best) : t \in carries[best[h]]

(* The indexer answers are right when they are computed, and then age. *)
IsPlaceOf(t, p) ==
    IF OnChain(t)
    THEN /\ p.height \in 1..Len(best)
         /\ p.block = best[p.height]
         /\ t \in carries[p.block]
    ELSE p = Nowhere

NetworkTypeOK ==
    /\ carries \in Seq(SUBSET Txs)
    /\ best \in Seq(Nat)
    /\ finalized \in Nat
    /\ pool \in SUBSET Txs
    /\ view \in [Txs -> Places]

NetworkInit ==
    /\ carries = << >>
    /\ best = << >>
    /\ finalized = 0
    /\ pool = {}
    /\ view = [t \in Txs |-> Nowhere]

(* A block extends the best chain with some of the pending extrinsics. *)
ProduceBlock ==
    /\ Len(carries) < MaxBlocks
    /\ \E body \in SUBSET pool :
          /\ carries' = Append(carries, body)
          /\ best' = Append(best, Len(carries) + 1)
          /\ pool' = pool \ body
    /\ UNCHANGED <<finalized, view>>

(* Faulty variant: finalized blocks are retracted too. *)
ReorgFinalized ==
    /\ \E h \in 0..(Len(best) - 1) :
          /\ best' = SubSeq(best, 1, h)
          /\ \E back \in SUBSET
                  UNION { carries[best[i]] : i \in (h + 1)..Len(best) } :
                pool' = pool \cup back
    /\ UNCHANGED <<carries, finalized, view>>

(* The best chain is cut back to a height at or above the finalized one;   *)
(* the extrinsics of the retracted blocks return to the pool or are lost.  *)
Reorg ==
    /\ \E h \in finalized..(Len(best) - 1) :
          /\ best' = SubSeq(best, 1, h)
          /\ \E back \in SUBSET
                  UNION { carries[best[i]] : i \in (h + 1)..Len(best) } :
                pool' = pool \cup back
    /\ UNCHANGED <<carries, finalized, view>>

(* GRANDPA finalizes the next block of the best chain. *)
Finalize ==
    /\ finalized < Len(best)
    /\ finalized' = finalized + 1
    /\ UNCHANGED <<carries, best, pool, view>>

(* The pool drops an extrinsic that has become invalid or does not fit. *)
Evict ==
    /\ \E t \in pool : pool' = pool \ {t}
    /\ UNCHANGED <<carries, best, finalized, view>>

(* The indexer catches up with the node about one transaction. *)
IndexerCatchUp ==
    /\ \E t \in Txs, h \in 0..Len(best) :
          LET p == IF h = 0 THEN Nowhere
                   ELSE [block |-> best[h], height |-> h]
          IN  /\ IsPlaceOf(t, p)
              /\ view' = [view EXCEPT ![t] = p]
    /\ UNCHANGED <<carries, best, finalized, pool>>

(* author_submitExtrinsic: the node takes an extrinsic it does not hold yet. *)
NodeAccepts(t) ==
    /\ t \notin pool
    /\ ~ OnChain(t)
    /\ pool' = pool \cup {t}
    /\ UNCHANGED <<carries, best, finalized, view>>

NetworkNext ==
    \/ ProduceBlock
    \/ Reorg
    \/ Finalize
    \/ Evict
    \/ IndexerCatchUp

(* What happens around a call that only observes the node: the chain       *)
(* moves, and somebody submits.  Such a call does not see the indexer.     *)
ChainMoves == ProduceBlock \/ Reorg \/ Finalize

Elsewhere == ChainMoves \/ Evict \/ \E t \in Txs : NodeAccepts(t)
=============================================================================
