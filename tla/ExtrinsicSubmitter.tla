------------------------ MODULE ExtrinsicSubmitter ------------------------
(***************************************************************************)
(* TransactionSubmitter and MempoolMonitor (signing_submission.cpp): the   *)
(* submission over two paths and its cache, the thread that waits for an   *)
(* inclusion, the thread that watches the pool and the blocking wait on    *)
(* the pool.  The pool is the node's: transactions enter and leave it.     *)
(***************************************************************************)
EXTENDS Naturals, FiniteSets

CONSTANTS
    PoolTxs,      \* signed transactions
    WaitTurns,    \* turns of the waiting loops: 60, or timeout_ms in seconds
    MaxPoolMoves  \* bound: transactions leaving the pool

ASSUME ExtrinsicSubmitterAssumption == WaitTurns \in Nat /\ MaxPoolMoves \in Nat

VARIABLES
    held,         \* transactions the node has taken, ever
    txPool,         \* its pool; entries are the raw extrinsics
    poolMoves,
    submitting,   \* submit(): the transaction, the path
    lost,         \* history: transactions the node took and did not get to say so
    subResult,    \* what the last submit() of each transaction returned
    subCache,     \* submission_cache_: the keys with a SUBMITTED result
    submitWait,       \* wait_thread_
    poolMonitoring,   \* monitoring_
    poolThread,   \* monitor_thread_: its state, last_txs and the answer it works on
    heard,        \* history: entries reported to the callback in place
    poolWait      \* MempoolMonitor::wait_for_inclusion()

submitterVars == <<held, txPool, poolMoves, submitting, lost, subResult, subCache, submitWait,
                   poolMonitoring, poolThread, heard, poolWait>>

NoTx == "no transaction"
RpcPaths == {1, 2}          \* "/" and "/rpc"
NotSubmitting == [tx |-> NoTx, path |-> 1]
NoThread == [state |-> "none", last |-> {}, current |-> {}]

(* A result is cached under the hash the node answered with and, when it   *)
(* is another one, under the hash of the caller.                           *)
CacheKeys == PoolTxs \X {"node", "own"}

SubmitterInit ==
    /\ held = {} /\ txPool = {} /\ poolMoves = 0
    /\ submitting = NotSubmitting /\ lost = {}
    /\ subResult = [t \in PoolTxs |-> "none"]
    /\ subCache = {}
    /\ submitWait = [key |-> << >>, turn |-> 0, said |-> "none"]
    /\ poolMonitoring = FALSE /\ poolThread = NoThread /\ heard = {}
    /\ poolWait = [tx |-> NoTx, turn |-> 0, answer |-> "none"]

(* External: the pool loses a transaction to a block or to an eviction. *)
PoolLoses(t) ==
    /\ t \in txPool /\ poolMoves < MaxPoolMoves
    /\ txPool' = txPool \ {t} /\ poolMoves' = poolMoves + 1
    /\ UNCHANGED <<held, submitting, lost, subResult, subCache, submitWait, poolMonitoring, poolThread, heard, poolWait>>
-----------------------------------------------------------------------------
(* TransactionSubmitter. *)

(* Signed data that does not come to an 0x string is refused here. *)
Submit(t) ==
    /\ submitting = NotSubmitting /\ subResult[t] # "SUBMITTED"
    /\ \/ submitting' = [NotSubmitting EXCEPT !.tx = t] /\ UNCHANGED subResult
       \/ subResult' = [subResult EXCEPT ![t] = "FAILED"] /\ UNCHANGED submitting
    /\ UNCHANGED <<held, txPool, poolMoves, lost, subCache, submitWait, poolMonitoring, poolThread, heard, poolWait>>

Takes(t) == held' = held \cup {t} /\ txPool' = txPool \cup {t}

(* Faulty variant: an answer without a result counts as accepted. *)
SubmissionRefusedAsTaken ==
    /\ submitting.tx # NoTx
    /\ subResult' = [subResult EXCEPT ![submitting.tx] = "SUBMITTED"]
    /\ subCache' = subCache \cup {<<submitting.tx, "own">>}
    /\ submitting' = NotSubmitting
    /\ UNCHANGED <<held, txPool, poolMoves, lost, submitWait, poolMonitoring, poolThread, heard, poolWait>>

(* A result that is no string leaves the hash of the caller. *)
SubmissionAccepted(keys) ==
    /\ submitting.tx \in PoolTxs \ held
    /\ Takes(submitting.tx)
    /\ subCache' = subCache \cup ({submitting.tx} \X keys)
    /\ subResult' = [subResult EXCEPT ![submitting.tx] = "SUBMITTED"]
    /\ submitting' = NotSubmitting
    /\ UNCHANGED <<poolMoves, lost, submitWait, poolMonitoring, poolThread, heard, poolWait>>

(* An answer with an error, or without a result: the answer of a path that *)
(* answered is final.                                                      *)
SubmissionRefused ==
    /\ submitting.tx # NoTx
    /\ subResult' = [subResult EXCEPT ![submitting.tx] = "FAILED"]
    /\ submitting' = NotSubmitting
    /\ UNCHANGED <<held, txPool, poolMoves, lost, subCache, submitWait, poolMonitoring, poolThread, heard, poolWait>>

(* post_json() throws, whether the node took the extrinsic or not; the     *)
(* other path is tried, and after it the submission has failed.            *)
PostThrows(taken) ==
    /\ submitting.tx # NoTx /\ (taken => submitting.tx \notin held)
    /\ IF taken THEN Takes(submitting.tx) ELSE UNCHANGED <<held, txPool>>
    /\ IF submitting.path + 1 \in RpcPaths
       THEN /\ submitting' = [submitting EXCEPT !.path = @ + 1]
            /\ UNCHANGED subResult
       ELSE /\ submitting' = NotSubmitting
            /\ subResult' = [subResult EXCEPT ![submitting.tx] = "FAILED"]
    /\ lost' = IF taken THEN lost \cup {submitting.tx} ELSE lost
    /\ UNCHANGED <<poolMoves, subCache, submitWait, poolMonitoring, poolThread, heard, poolWait>>

(* Nothing writes another status than SUBMITTED into the cache. *)
SubmissionStatus(key) == IF key \in subCache THEN "SUBMITTED" ELSE "CREATED"

(* The caller blocks in join() while an earlier wait runs. *)
WaitForInclusion(key) ==
    /\ submitWait.key = << >>
    /\ submitWait' = [key |-> key, turn |-> 0, said |-> "none"]
    /\ UNCHANGED <<held, txPool, poolMoves, submitting, lost, subResult, subCache, poolMonitoring, poolThread, heard, poolWait>>

WaitTurn ==
    /\ submitWait.key # << >>
    /\ submitWait' = IF SubmissionStatus(submitWait.key) \in {"INCLUDED_IN_BLOCK", "FINALIZED"}
                 THEN [submitWait EXCEPT !.key = << >>, !.said = "included"]
                 ELSE IF submitWait.turn < WaitTurns
                      THEN [submitWait EXCEPT !.turn = @ + 1]
                      ELSE [submitWait EXCEPT !.key = << >>, !.said = "timeout"]
    /\ UNCHANGED <<held, txPool, poolMoves, submitting, lost, subResult, subCache, poolMonitoring, poolThread, heard, poolWait>>
-----------------------------------------------------------------------------
(* MempoolMonitor. *)

(* monitor_mempool() ends a thread that runs before it starts another one. *)
MonitorMempool ==
    /\ \/ /\ poolThread.state = "none"
          /\ poolMonitoring' = TRUE
          /\ poolThread' = [NoThread EXCEPT !.state = "poll"]
          /\ heard' = {}
       \/ /\ poolThread.state # "none" /\ poolMonitoring
          /\ poolMonitoring' = FALSE
          /\ UNCHANGED <<poolThread, heard>>
    /\ UNCHANGED <<held, txPool, poolMoves, submitting, lost, subResult, subCache, submitWait, poolWait>>

(* An answer without a result is an empty pool; an exception here ends the *)
(* process, as nothing in the thread catches it.                           *)
PoolPoll(answered) ==
    /\ poolThread.state = "poll" /\ poolMonitoring
    /\ poolThread' = [poolThread EXCEPT !.state = "report",
                         !.current = IF answered THEN txPool ELSE {}]
    /\ UNCHANGED <<held, txPool, poolMoves, submitting, lost, subResult, subCache, submitWait, poolMonitoring, heard, poolWait>>

(* Faulty variant: the previous answer is replaced before it is compared. *)
PoolReportLate ==
    /\ poolThread.state = "report"
    /\ heard' = heard \cup (poolThread.current \ poolThread.current)
    /\ poolThread' = [poolThread EXCEPT !.state = "poll", !.last = poolThread.current]
    /\ UNCHANGED <<held, txPool, poolMoves, submitting, lost, subResult, subCache, submitWait, poolMonitoring, poolWait>>

(* callback(new_txs), once the answer is compared with the one before it. *)
PoolReport ==
    /\ poolThread.state = "report"
    /\ heard' = heard \cup (poolThread.current \ poolThread.last)
    /\ poolThread' = [poolThread EXCEPT !.state = "poll", !.last = poolThread.current]
    /\ UNCHANGED <<held, txPool, poolMoves, submitting, lost, subResult, subCache, submitWait, poolMonitoring, poolWait>>

PoolThreadEnds ==
    /\ poolThread.state = "poll" /\ ~poolMonitoring
    /\ poolThread' = NoThread
    /\ UNCHANGED <<held, txPool, poolMoves, submitting, lost, subResult, subCache, submitWait, poolMonitoring, heard, poolWait>>

(* wait_for_inclusion() of the monitor: true as soon as the transaction is *)
(* in the pool, that is, before it is included.                            *)
PoolWaitStart(t) ==
    /\ poolWait.tx = NoTx
    /\ poolWait' = [tx |-> t, turn |-> 0, answer |-> "none"]
    /\ UNCHANGED <<held, txPool, poolMoves, submitting, lost, subResult, subCache, submitWait, poolMonitoring, poolThread, heard>>

PoolWaitTurn(answered) ==
    /\ poolWait.tx # NoTx
    /\ poolWait' = IF answered /\ poolWait.tx \in txPool
                   THEN [poolWait EXCEPT !.tx = NoTx, !.answer = "true"]
                   ELSE IF poolWait.turn < WaitTurns
                        THEN [poolWait EXCEPT !.turn = @ + 1]
                        ELSE [poolWait EXCEPT !.tx = NoTx, !.answer = "false"]
    /\ UNCHANGED <<held, txPool, poolMoves, submitting, lost, subResult, subCache, submitWait, poolMonitoring, poolThread, heard>>

SubmitterNext ==
    \/ \E t \in PoolTxs : Submit(t) \/ PoolLoses(t) \/ PoolWaitStart(t)
    \/ \E keys \in {{"own"}, {"node", "own"}} : SubmissionAccepted(keys)
    \/ SubmissionRefused \/ WaitTurn \/ MonitorMempool \/ PoolReport \/ PoolThreadEnds
    \/ \E b \in BOOLEAN : PostThrows(b) \/ PoolPoll(b) \/ PoolWaitTurn(b)
    \/ \E key \in CacheKeys : WaitForInclusion(key)
-----------------------------------------------------------------------------
(* A transaction whose submission was reported as failed is not with the   *)
(* node unless an answer was lost on the way, one in the cache is with the *)
(* node under every key it was filed under                                 *)
(* (signing_submission.cpp:698-742, 802-855), and the pool callback has    *)
(* heard of every entry the monitor will never compare again (940-983).    *)
SubmitterViewsHonest ==
    /\ \A t \in PoolTxs : subResult[t] = "FAILED" => t \notin held \/ t \in lost
    /\ \A key \in subCache : key[1] \in held
    /\ poolThread.last \subseteq heard
=============================================================================
