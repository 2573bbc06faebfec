------------------------- MODULE TransactionMonitor -------------------------
(***************************************************************************)
(* TransactionMonitor (monitoring_finality.cpp): worker threads that infer *)
(* the fate of a transaction from its not being pending while the          *)
(* finalized height rises, and threads that wait for what those find.  The *)
(* application is one thread; it starts workers and stops them all.        *)
(***************************************************************************)
EXTENDS NodeHeights

CONSTANTS
    Workers,   \* bound: worker threads at a time
    MaxTurns   \* turns of a worker's loop (90 and 60 in the code)

ASSUME MaxTurnsAssumption == MaxTurns \in Nat \ {0}

VARIABLES
    monitoring,  \* monitoring_
    tx_status,   \* the last TransactionStatusUpdate of each transaction
    worker,      \* worker[w]: the thread w
    stopping     \* the application is inside stop_monitoring()

txMonitorVars == <<monitoring, tx_status, worker, stopping>>

TxStates == {"NONE", "IN_MEMPOOL", "IN_BLOCK", "FINALIZED_CONFIRMED", "REORGANIZED_OUT"}

Positions == {"none", "begin", "start", "pool", "height", "confirm", "give_up", "inclusion", "ended"}

(* Position; transaction; finalized_at_start, then the height found; turns *)
(* made.  exact (history): the height found was the node's finalized one.  *)
NoWorker(t) == [at |-> "none", tx |-> t, height |-> 0, exact |-> TRUE, turn |-> 0]

TxMonitorInit ==
    /\ monitoring = FALSE
    /\ tx_status = [t \in Txs |-> [status |-> "NONE", height |-> 0, exact |-> TRUE]]
    /\ worker \in [Workers -> {NoWorker(t) : t \in Txs}]
    /\ stopping = FALSE

TxMonitorTypeOK ==
    /\ monitoring \in BOOLEAN /\ stopping \in BOOLEAN
    /\ tx_status \in [Txs -> [status : TxStates, height : 0..MaxHeight, exact : BOOLEAN]]
    /\ worker \in [Workers -> [at : Positions, tx : Txs, height : 0..MaxHeight, exact : BOOLEAN,
                               turn : 0..MaxTurns]]

(* get_finalized_height_from_rpc(): without an answer about the finalized  *)
(* head, two below the best block, or the best block itself near genesis;  *)
(* 0 when nothing is answered or a header cannot be read.                  *)
FallbackHeight == IF tip > 2 THEN tip - 2 ELSE tip

(* Faulty variant: the best block is asked for. *)
HeightFromBest == {[height |-> tip, exact |-> TRUE]}

HeightFromRpc ==
    {[height |-> finalized, exact |-> TRUE],
     [height |-> FallbackHeight, exact |-> FALSE],
     [height |-> 0, exact |-> TRUE]}

(* is_tx_in_pending_extrinsics(): false too when the request fails, and    *)
(* when the hash does not occur in the hex of the extrinsic.               *)
PendingAnswers(t) == {FALSE, (t \in pool)}

Set(w, r) == worker' = [worker EXCEPT ![w] = r]
Move(w, at) == Set(w, [worker[w] EXCEPT !.at = at])
End(w) == Set(w, [NoWorker(worker[w].tx) EXCEPT !.at = "ended"])
Report(t, s, h, e) ==
    tx_status' = [tx_status EXCEPT ![t] = [status |-> s, height |-> h, exact |-> e]]
-----------------------------------------------------------------------------
(* The application. *)

Launch(t, at) ==
    /\ ~ stopping
    /\ monitoring' = TRUE
    /\ \E w \in Workers : /\ worker[w].at = "none"
                          /\ Set(w, [NoWorker(t) EXCEPT !.at = at])
    /\ UNCHANGED <<tx_status, stopping>>

MonitorTransaction(t) == Launch(t, "begin")
WaitForTxInclusion(t) == Launch(t, "inclusion")

StopMonitoring ==
    /\ ~ stopping /\ stopping' = TRUE
    /\ monitoring' = FALSE
    /\ UNCHANGED <<tx_status, worker>>

Joined == worker' = [w \in Workers |-> NoWorker(worker[w].tx)]

(* Faulty variant: a thread is forgotten instead of joined. *)
JoinWorkersDetached ==
    /\ stopping /\ \E w \in Workers : worker[w].at \in {"none", "ended"}
    /\ stopping' = FALSE
    /\ worker' = [w \in Workers |-> IF worker[w].at = "ended" THEN NoWorker(worker[w].tx)
                                                              ELSE worker[w]]
    /\ UNCHANGED <<monitoring, tx_status>>

(* stop_monitoring() returns when every worker it swapped out has ended. *)
JoinWorkers ==
    /\ stopping /\ \A w \in Workers : worker[w].at \in {"none", "ended"}
    /\ stopping' = FALSE
    /\ Joined
    /\ UNCHANGED <<monitoring, tx_status>>
-----------------------------------------------------------------------------
(* The thread of monitor_transaction. *)

Begin(w) ==
    /\ worker[w].at = "begin"
    /\ Report(worker[w].tx, "IN_MEMPOOL", 0, TRUE)
    /\ Move(w, "start")
    /\ UNCHANGED <<monitoring, stopping>>

ReadStart(w) ==
    /\ worker[w].at = "start"
    /\ \E a \in HeightFromRpc :
          Set(w, [worker[w] EXCEPT !.at = "pool", !.height = a.height])
    /\ UNCHANGED <<monitoring, tx_status, stopping>>

(* When it is pending the height is asked for all the same, and not used. *)
AskPool(w) ==
    /\ worker[w].at = "pool" /\ worker[w].turn < MaxTurns /\ monitoring
    /\ \E pending \in PendingAnswers(worker[w].tx) :
          IF pending THEN Set(w, [worker[w] EXCEPT !.turn = @ + 1]) ELSE Move(w, "height")
    /\ UNCHANGED <<monitoring, tx_status, stopping>>

AskHeight(w) ==
    /\ worker[w].at = "height"
    /\ \E a \in HeightFromRpc :
          IF a.height > worker[w].height
          THEN /\ Report(worker[w].tx, "IN_BLOCK", a.height, a.exact)
               /\ Set(w, [worker[w] EXCEPT !.at = "confirm", !.height = a.height, !.exact = a.exact])
          ELSE /\ Set(w, [worker[w] EXCEPT !.at = "pool", !.turn = @ + 1])
               /\ UNCHANGED tx_status
    /\ UNCHANGED <<monitoring, stopping>>

(* From the thread's own copy of the status, whatever the map says by now. *)
Confirm(w) ==
    /\ worker[w].at = "confirm"
    /\ Report(worker[w].tx, "FINALIZED_CONFIRMED", worker[w].height, worker[w].exact)
    /\ End(w)
    /\ UNCHANGED <<monitoring, stopping>>

(* The loop ends; the flag is looked at once more, and not again before    *)
(* the report.                                                             *)
LoopEnds(w) ==
    /\ worker[w].at = "pool" /\ (worker[w].turn = MaxTurns \/ ~ monitoring)
    /\ IF monitoring THEN Move(w, "give_up") ELSE End(w)
    /\ UNCHANGED <<monitoring, tx_status, stopping>>

GiveUp(w) ==
    /\ worker[w].at = "give_up"
    /\ Report(worker[w].tx, "REORGANIZED_OUT", 0, TRUE)
    /\ End(w)
    /\ UNCHANGED <<monitoring, stopping>>

(* Faulty variant: the wait looks at nothing but the height. *)
PollInclusionForever(w) ==
    /\ worker[w].at = "inclusion"
    /\ IF tx_status[worker[w].tx].height > 0 THEN End(w) ELSE UNCHANGED worker
    /\ UNCHANGED <<monitoring, tx_status, stopping>>

(* The thread of wait_for_tx_inclusion reads get_tx_confirmation_height(); *)
(* it ends with callback(true), at its last turn with callback(false), or  *)
(* silently when stopped.                                                  *)
PollInclusion(w) ==
    /\ worker[w].at = "inclusion"
    /\ IF ~ monitoring \/ tx_status[worker[w].tx].height > 0 \/ worker[w].turn = MaxTurns
       THEN End(w)
       ELSE Set(w, [worker[w] EXCEPT !.turn = @ + 1])
    /\ UNCHANGED <<monitoring, tx_status, stopping>>
-----------------------------------------------------------------------------
WorkerStep(w) ==
    \/ Begin(w) \/ ReadStart(w) \/ AskPool(w) \/ AskHeight(w)
    \/ Confirm(w) \/ LoopEnds(w) \/ GiveUp(w) \/ PollInclusion(w)

TxMonitorNext ==
    \/ (\E t \in Txs : MonitorTransaction(t) \/ WaitForTxInclusion(t)) /\ UNCHANGED heightsVars
    \/ (StopMonitoring \/ JoinWorkers) /\ UNCHANGED heightsVars
    \/ (\E w \in Workers : WorkerStep(w)) /\ UNCHANGED heightsVars
    \/ HeightsNext /\ UNCHANGED txMonitorVars

txMonitorSystemVars == <<heightsVars, txMonitorVars>>

(* Threads run, and a join ends when they have. *)
TxMonitorSpec ==
    /\ HeightsInit /\ TxMonitorInit
    /\ [][TxMonitorNext]_txMonitorSystemVars
    /\ \A w \in Workers : WF_txMonitorSystemVars(WorkerStep(w) /\ UNCHANGED heightsVars)
    /\ WF_txMonitorSystemVars(JoinWorkers /\ UNCHANGED heightsVars)
-----------------------------------------------------------------------------
(* When stop_monitoring() has returned, no thread of the monitor runs, and *)
(* so no callback is made, until the next one is started, although threads *)
(* look at the flag only between their requests                            *)
(* (monitoring_finality.cpp:877-894).                                      *)
StoppedMeansQuiet ==
    (~ monitoring /\ ~ stopping) => \A w \in Workers : worker[w].at = "none"

(* A height reported as finalized is one, for ever, unless it came from    *)
(* the fallback to the best block (monitoring_finality.cpp:227-253,        *)
(* 775-792).                                                               *)
ReportedHeightIsFinal ==
    \A t \in Txs : tx_status[t].exact => tx_status[t].height <= finalized

(* stop_monitoring() returns, wherever the workers are                     *)
(* (monitoring_finality.cpp:770, 855, 877-894).                            *)
StopMonitoringReturns == stopping ~> ~ stopping
=============================================================================
