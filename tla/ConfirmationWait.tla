-------------------------- MODULE ConfirmationWait --------------------------
(***************************************************************************)
(* MidnightClient::wait_for_inclusion and wait_for_finality, the polling   *)
(* calls a production client uses to learn the fate of a transaction.      *)
(* wait_for_transaction is wait_for_inclusion.  Each poll is a request of  *)
(* its own: the chain reorganises, finalizes and is indexed between two of *)
(* them, and between the two requests of one finality poll.                *)
(***************************************************************************)
EXTENDS MidnightNetwork

CONSTANT MaxPolls   \* polls that fit before the deadline of one loop

ASSUME MaxPollsAssumption == MaxPolls \in Nat \ {0}

VARIABLES
    wpc,    \* where the call is
    wmode,  \* "inclusion" or "finality"
    wtx,    \* the transaction waited for
    polls,  \* polls made by the current loop
    conf    \* the ConfirmationResult under construction

waitVars == <<wpc, wmode, wtx, polls, conf>>

Errors ==
    { "None", "InvalidHash", "IndexerError", "ConfirmationTimeout",
      "NodeRpcError", "FinalityTimeout", "NotFinalizedCanonical" }

(* ConfirmationResult: found and success are one, as                       *)
(* confirmation_from_transaction sets them.                                *)
Results ==
    [ success : BOOLEAN, height : Nat, block : Nat, error : Errors ]

FreshResult == [ success |-> FALSE, height |-> 0, block |-> 0, error |-> "None" ]

WaitTypeOK ==
    /\ wpc \in {"idle", "inclusion", "head", "canonical", "done"}
    /\ wmode \in {"inclusion", "finality"}
    /\ wtx \in Txs
    /\ polls \in 0..MaxPolls
    /\ conf \in Results

WaitInit ==
    /\ wpc = "idle"
    /\ wmode = "inclusion"
    /\ wtx \in Txs
    /\ polls = 0
    /\ conf = FreshResult

(* A call on a well-formed hash; an earlier call has returned. *)
StartWait ==
    /\ wpc \in {"idle", "done"}
    /\ wpc' = "inclusion"
    /\ wmode' \in {"inclusion", "finality"}
    /\ wtx' \in Txs
    /\ polls' = 0
    /\ conf' = FreshResult

(* A call on something that is not a 32-byte hash. *)
RefuseHash ==
    /\ wpc \in {"idle", "done"}
    /\ wpc' = "done"
    /\ wmode' \in {"inclusion", "finality"}
    /\ polls' = 0
    /\ conf' = [ FreshResult EXCEPT !.error = "InvalidHash" ]
    /\ UNCHANGED wtx

(* Faulty variant: an empty answer counts as found. *)
ConfirmationFromEmpty(place, heightParses) ==
    [ success |-> TRUE,
      height  |-> IF heightParses THEN place.height ELSE 0,
      block   |-> place.block,
      error   |-> "None" ]

(* confirmation_from_transaction: a height the indexer leaves out or that  *)
(* does not parse stays 0, which also is the height of genesis.            *)
ConfirmationFrom(place, heightParses) ==
    [ success |-> place # Nowhere,
      height  |-> IF heightParses THEN place.height ELSE 0,
      block   |-> place.block,
      error   |-> "None" ]

(* The query is answered: the whole result is replaced, an error left by   *)
(* an earlier poll included.                                               *)
QueryIndexer ==
    /\ wpc = "inclusion"
    /\ polls < MaxPolls
    /\ \E heightParses \in BOOLEAN :
          conf' = ConfirmationFrom(view[wtx], heightParses)
    /\ IF conf'.success
       THEN /\ wpc' = IF wmode = "finality" THEN "head" ELSE "done"
            /\ polls' = 0
       ELSE /\ wpc' = wpc
            /\ polls' = polls + 1
    /\ UNCHANGED <<wmode, wtx>>

(* The query throws. *)
QueryIndexerThrows ==
    /\ wpc = "inclusion"
    /\ polls < MaxPolls
    /\ conf' = [ conf EXCEPT !.error = "IndexerError" ]
    /\ polls' = polls + 1
    /\ UNCHANGED <<wpc, wmode, wtx>>

(* The deadline has passed at the head of the loop. *)
InclusionTimesOut ==
    /\ wpc = "inclusion"
    /\ wpc' = "done"
    /\ conf' = [ conf EXCEPT
                   !.error = IF @ = "None" THEN "ConfirmationTimeout" ELSE @ ]
    /\ UNCHANGED <<wmode, wtx, polls>>

(* Faulty variant: the finalized height is not compared. *)
GetFinalizedHeadAnyHeight ==
    /\ wpc = "head"
    /\ polls < MaxPolls
    /\ IF conf.height > 0
       THEN wpc' = "canonical" /\ UNCHANGED polls
       ELSE polls' = polls + 1 /\ UNCHANGED wpc
    /\ UNCHANGED <<wmode, wtx, conf>>

(* chain_getFinalizedHead and chain_getHeader of the hash it returned; the *)
(* header of a hash never changes.  parse_header_height makes 0 of a       *)
(* header it cannot read.                                                  *)
GetFinalizedHead ==
    /\ wpc = "head"
    /\ polls < MaxPolls
    /\ \E finalized_height \in {finalized, 0} :
          IF finalized_height >= conf.height /\ conf.height > 0
          THEN /\ wpc' = "canonical"
               /\ UNCHANGED polls
          ELSE /\ polls' = polls + 1
               /\ UNCHANGED wpc
    /\ UNCHANGED <<wmode, wtx, conf>>

(* Faulty variant: any block at a finalized height will do. *)
GetBlockHashUnchecked ==
    /\ wpc = "canonical"
    /\ conf.height <= Len(best)
    /\ wpc' = "done"
    /\ UNCHANGED <<wmode, wtx, polls, conf>>

(* chain_getBlockHash(block_height), compared with the indexer's block. *)
GetBlockHash ==
    /\ wpc = "canonical"
    /\ conf.height <= Len(best)
    /\ wpc' = "done"
    /\ conf' = IF best[conf.height] = conf.block
               THEN [ conf EXCEPT !.success = TRUE ]
               ELSE [ conf EXCEPT !.success = FALSE,
                                  !.error = "NotFinalizedCanonical" ]
    /\ UNCHANGED <<wmode, wtx, polls>>

(* Faulty variant: a failed poll is retried without regard to the deadline. *)
FinalityPollThrowsForFree ==
    /\ wpc \in {"head", "canonical"}
    /\ wpc' = "head"
    /\ conf' = [ conf EXCEPT !.error = "NodeRpcError" ]
    /\ UNCHANGED <<wmode, wtx, polls>>

(* One of the three requests throws. *)
FinalityPollThrows ==
    /\ wpc \in {"head", "canonical"}
    /\ polls < MaxPolls
    /\ wpc' = "head"
    /\ polls' = polls + 1
    /\ conf' = [ conf EXCEPT !.error = "NodeRpcError" ]
    /\ UNCHANGED <<wmode, wtx>>

(* The deadline has passed at the head of the loop. *)
FinalityTimesOut ==
    /\ wpc = "head"
    /\ wpc' = "done"
    /\ conf' = [ conf EXCEPT !.success = FALSE, !.error = "FinalityTimeout" ]
    /\ UNCHANGED <<wmode, wtx, polls>>

WaitSteps ==
    \/ QueryIndexer
    \/ QueryIndexerThrows
    \/ InclusionTimesOut
    \/ GetFinalizedHead
    \/ GetBlockHash
    \/ FinalityPollThrows
    \/ FinalityTimesOut

WaitCalls ==
    \/ StartWait
    \/ RefuseHash

-----------------------------------------------------------------------------
(* The calls on their own: the transactions reach the pool from elsewhere. *)

waitSystemVars == <<networkVars, waitVars>>

WaitSystemInit == NetworkInit /\ WaitInit

WaitSystemNext ==
    \/ NetworkNext /\ UNCHANGED waitVars
    \/ (\E t \in Txs : NodeAccepts(t)) /\ UNCHANGED waitVars
    \/ WaitSteps /\ UNCHANGED networkVars
    \/ WaitCalls /\ UNCHANGED networkVars

(* The thread inside a call keeps running; nothing is assumed of the       *)
(* network, and nobody is obliged to call.                                 *)
WaitSpec ==
    /\ WaitSystemInit
    /\ [][WaitSystemNext]_waitSystemVars
    /\ WF_waitSystemVars(WaitSteps /\ UNCHANGED networkVars)

WaitSystemTypeOK == NetworkTypeOK /\ WaitTypeOK

(* Both verdicts of a finality wait are about the finalized prefix, so no  *)
(* later reorganisation takes them back: a success names a block that      *)
(* holds the transaction and is finalized at the reported height, although *)
(* the indexer's answer, the finalized head and the canonical hash were    *)
(* read at three different moments (midnight_client.cpp:1666-1690).        *)
FinalityVerdictHolds ==
    (wpc = "done" /\ wmode = "finality" /\ conf.success) =>
        /\ conf.height \in 1..finalized
        /\ best[conf.height] = conf.block
        /\ wtx \in carries[conf.block]

(* The other verdict: "not on the finalized canonical chain" is reported   *)
(* without waiting for the deadline, and is never premature - the reported *)
(* height is finalized with another block (midnight_client.cpp:1685-1690). *)
NonCanonicalVerdictHolds ==
    (wpc = "done" /\ conf.error = "NotFinalizedCanonical") =>
        /\ ~ conf.success
        /\ conf.height \in 1..finalized
        /\ best[conf.height] # conf.block

(* A confirmation is evidence, however stale the indexer is: the block it  *)
(* names was authored and carries the transaction asked for, and the error *)
(* of an earlier failed query does not survive it                          *)
(* (midnight_client.cpp:1620-1625).                                        *)
ConfirmationIsEvidence ==
    conf.success =>
        /\ conf.block \in Blocks
        /\ wtx \in carries[conf.block]
        /\ conf.error \in {"None", "NodeRpcError"}

(* Every call returns: each loop ends at its deadline whatever the indexer *)
(* and the node answer (midnight_client.cpp:1615, 1660).                   *)
WaitReturns == (wpc \notin {"idle", "done"}) ~> (wpc = "done")
=============================================================================
