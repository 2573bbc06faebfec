------------------------ MODULE ConfirmationMonitor ------------------------
(***************************************************************************)
(* TransactionConfirmationMonitor: polls the pending extrinsics and the    *)
(* chain tip until the transaction is confirmed or max_blocks have passed. *)
(* Heights are uint32_t, and the number of blocks passed is the            *)
(* difference of two of them in that width.                                *)
(***************************************************************************)
EXTENDS MidnightNetwork

CONSTANTS
    MonitorBlocks,  \* values of the max_blocks argument, 0 = wait indefinitely
    Word            \* 2^32 in the code: the modulus of a uint32_t

ASSUME MonitorAssumption ==
    /\ MonitorBlocks \subseteq 0..(Word - 1)
    /\ Word \in Nat
    /\ MaxBlocks < Word

VARIABLES
    mpc,       \* "idle", "status", "tip", "sleep", "done" or "threw"
    mtx,       \* the transaction watched
    mlimit,    \* max_blocks, argument of the call
    mstart,    \* start_height, the tip when the call began
    status,    \* status of the last result
    retreated  \* history: the tip has been below start_height

monitorVars == <<mpc, mtx, mlimit, mstart, status, retreated>>

Statuses == {"none", "pending", "submitted_or_unknown", "timeout", "rpc_error"}

MonitorTypeOK ==
    /\ mpc \in {"idle", "status", "tip", "sleep", "done", "threw"}
    /\ mtx \in Txs
    /\ mlimit \in MonitorBlocks
    /\ mstart \in 0..(Word - 1)
    /\ status \in Statuses
    /\ retreated \in BOOLEAN

MonitorInit ==
    /\ mpc = "idle"
    /\ mtx \in Txs
    /\ mlimit = CHOOSE b \in MonitorBlocks : TRUE
    /\ mstart = 0
    /\ status = "none"
    /\ retreated = FALSE

(* The tip is read first, and a failure to read it escapes the call. *)
StartMonitor ==
    /\ mpc \in {"idle", "done", "threw"}
    /\ mpc' \in {"status", "threw"}
    /\ mtx' \in Txs
    /\ mlimit' \in MonitorBlocks
    /\ mstart' = Len(best)
    /\ status' = "none"
    /\ retreated' = FALSE

(* query_tx_status_: no branch of it sets confirmed.  A transaction that   *)
(* is pending is found only if the identifier occurs in its hex.           *)
TxStatus(t) ==
    {"submitted_or_unknown", "rpc_error"}
        \cup (IF t \in pool THEN {"pending"} ELSE {})

(* One turn of the loop asks for the status; without a limit nothing       *)
(* else is looked at.                                                      *)
QueryTxStatus ==
    /\ mpc = "status"
    /\ status' \in TxStatus(mtx)
    /\ mpc' = IF mlimit > 0 THEN "tip" ELSE "sleep"
    /\ UNCHANGED <<mtx, mlimit, mstart, retreated>>

blocks_passed == (Word + Len(best) - mstart) % Word

(* check_status, a single query. *)
CheckStatus ==
    /\ mpc \in {"idle", "done", "threw"}
    /\ mpc' = "done"
    /\ mtx' \in Txs
    /\ status' \in TxStatus(mtx')
    /\ UNCHANGED <<mlimit, mstart, retreated>>

(* Faulty variant: one block too early. *)
CheckBlocksPassedEarly ==
    /\ mpc = "tip"
    /\ IF blocks_passed + 1 >= mlimit
       THEN mpc' = "done" /\ status' = "timeout"
       ELSE mpc' = "sleep" /\ UNCHANGED status
    /\ UNCHANGED <<mtx, mlimit, mstart, retreated>>

(* The limit is compared with the blocks passed. *)
CheckBlocksPassed ==
    /\ mpc = "tip"
    /\ IF blocks_passed >= mlimit
       THEN /\ mpc' = "done"
            /\ status' = "timeout"
       ELSE /\ mpc' = "sleep"
            /\ UNCHANGED status
    /\ UNCHANGED <<mtx, mlimit, mstart, retreated>>

(* query_chain_tip_ throws out of the call. *)
TipThrows ==
    /\ mpc = "tip"
    /\ mpc' = "threw"
    /\ UNCHANGED <<mtx, mlimit, mstart, status, retreated>>

(* The growing poll interval passes. *)
Sleep ==
    /\ mpc = "sleep"
    /\ mpc' = "status"
    /\ UNCHANGED <<mtx, mlimit, mstart, status, retreated>>

MonitorSteps ==
    \/ QueryTxStatus
    \/ Sleep
    \/ CheckBlocksPassed
    \/ TipThrows

monitorSystemVars == <<networkVars, monitorVars>>

MonitorSystemInit == NetworkInit /\ MonitorInit

MonitorSystemNext ==
    \/ /\ Elsewhere
       /\ retreated' = (retreated \/ Len(best') < mstart)
       /\ UNCHANGED <<mpc, mtx, mlimit, mstart, status>>
    \/ StartMonitor /\ UNCHANGED networkVars
    \/ CheckStatus /\ UNCHANGED networkVars
    \/ MonitorSteps /\ UNCHANGED networkVars

(* The thread inside the call keeps running. *)
MonitorSpec ==
    /\ MonitorSystemInit
    /\ [][MonitorSystemNext]_monitorSystemVars
    /\ WF_monitorSystemVars(MonitorSteps /\ UNCHANGED networkVars)

MonitorSystemTypeOK == NetworkTypeOK /\ MonitorTypeOK

(* As long as the tip has not been below the height the call started at, a *)
(* timeout is only reported when max_blocks blocks have been added: the    *)
(* wrapped difference is the true one (transaction_confirmation.cpp:59).   *)
TimeoutExactWithoutRetreat ==
    [][(mpc = "tip" /\ status' = "timeout" /\ ~ retreated) =>
          Len(best) >= mstart + mlimit]_monitorSystemVars

(* "Check if we've exceeded max blocks" (transaction_confirmation.cpp:55): *)
(* a timeout is reported only when that many blocks were added.            *)
TimeoutOnlyAfterMaxBlocks ==
    [][(mpc = "tip" /\ status' = "timeout") =>
          Len(best) >= mstart + mlimit]_monitorSystemVars
=============================================================================
