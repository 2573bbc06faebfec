------------------------- MODULE MCFinalityMonitors -------------------------
(* The monitors of monitoring_finality.cpp.  None changes the node and,    *)
(* but for BlockMonitor and MonitoringManager, they share nothing, so a    *)
(* behaviour of several is a behaviour of each: the run takes one of them  *)
(* at a time.  For those that ask for heights the node is NodeHeights,     *)
(* with heights to three, so that the fallback of two below the tip is     *)
(* below it or above the finalized block, and two workers on one           *)
(* transaction; for those that ask for block hashes it is the chain of     *)
(* ChainMonitors, one block above genesis that a reorganisation may        *)
(* replace before it is finalized.                                         *)
EXTENDS FinalizationMonitor, ChainMonitors, TLAPS

VARIABLE watcher   \* the one that is used

monitorsVars == <<heightsVars, txMonitorVars, finalizationVars, awaiter, chainMonitorVars, watcher>>

Init ==
    /\ HeightsInit
    /\ TxMonitorInit
    /\ FinalizationInit
    /\ AwaiterInit
    /\ ChainMonitorInit
    /\ watcher \in {"tx", "finality", "awaiter", "blocks", "state"}

TxNext ==
    /\ watcher = "tx"
    /\ TxMonitorNext
    /\ UNCHANGED <<finalizationVars, awaiter, chainMonitorVars, watcher>>

FinalityNext ==
    /\ watcher = "finality"
    /\ FinalizationNext
    /\ UNCHANGED <<txMonitorVars, awaiter, chainMonitorVars, watcher>>

AwaitNext ==
    /\ watcher = "awaiter"
    /\ AwaiterNext
    /\ UNCHANGED <<txMonitorVars, finalizationVars, chainMonitorVars, watcher>>

BlocksNext ==
    /\ \/ watcher = "blocks" /\ BlockMonitorNext
       \/ watcher = "state" /\ StateMonitorNext
    /\ UNCHANGED <<heightsVars, txMonitorVars, finalizationVars, awaiter, watcher>>

Next == TxNext \/ FinalityNext \/ AwaitNext \/ BlocksNext

Tx(A) == /\ watcher = "tx" /\ A
         /\ UNCHANGED <<heightsVars, finalizationVars, awaiter, chainMonitorVars, watcher>>
Finality(A) == /\ watcher = "finality" /\ A
               /\ UNCHANGED <<heightsVars, txMonitorVars, awaiter, chainMonitorVars, watcher>>
Blocks(A) == /\ watcher = "blocks" /\ A
             /\ UNCHANGED <<nodeVars, stateMonitorVars, heightsVars, txMonitorVars, finalizationVars, awaiter, watcher>>

State(A) == /\ watcher = "state" /\ A
            /\ UNCHANGED <<nodeVars, blockMonitorVars, heightsVars, txMonitorVars, finalizationVars, awaiter, watcher>>

(* Threads keep running, and a join ends when its thread has.  The watcher *)
(* never changes, so a disjunction of steps of different watchers is fair  *)
(* exactly when each of them is.                                           *)
Spec ==
    /\ Init
    /\ [][Next]_monitorsVars
    /\ \A w \in Workers : WF_monitorsVars(Tx(WorkerStep(w)))
    /\ WF_monitorsVars(Tx(JoinWorkers) \/ Finality(FinalizationJoins) \/ Blocks(ManagerJoins)
                      \/ State(TrackerJoined))
    /\ WF_monitorsVars(Finality(ReporterStep) \/ Blocks(SubscriberStep) \/ State(TrackerStep))
    /\ WF_monitorsVars(Finality(WaiterReads) \/ Blocks(DetectorStep))
-----------------------------------------------------------------------------
(* What any of the monitors reports as finalized, a height or the answer   *)
(* true, stays finalized under every later reorganisation, unless the      *)
(* fallback to the best block answered (monitoring_finality.cpp:227-253,   *)
(* 702, 775-792, 994, 1065); and so do the blocks that the reorganisation  *)
(* detector names (ReportsNameFinalBlocks, 347-420, 450-508).              *)
FinalStaysFinal ==
    /\ ReportedHeightIsFinal /\ WaiterTrueMeansFinalized /\ AwaitedMeansFinalized
    /\ ReportsNameFinalBlocks

(* StoppedMeansQuiet and TrackerQuiet: after stop_monitoring(), of the     *)
(* TransactionMonitor or the StateMonitor, no worker runs and so no        *)
(* callback is made, and no earlier subscription outlives the call that    *)
(* replaced it (monitoring_finality.cpp:450-635, 746-894).                 *)
MonitorsQuiet == StoppedMeansQuiet /\ TrackerQuiet

(* StopMonitoringReturns, FinalizationCallReturns, ManagerCallReturns and  *)
(* TrackerCallReturns in one formula, since the monitors a behaviour does  *)
(* not use never leave their initial state: every call that joins threads  *)
(* returns, wherever those are (monitoring_finality.cpp:450-635, 651-674,  *)
(* 688-730, 877-894, 1098-1140).                                           *)
JoinsUnderWay == stopping \/ fcall # "none" \/ managerCall # "none" \/ trackerCall # "none"

JoinsReturn == JoinsUnderWay ~> ~JoinsUnderWay
-----------------------------------------------------------------------------
(***************************************************************************)
(* Proofs, for every set of transactions and workers, every height, every  *)
(* number of turns and of reorganisations.                                 *)
(***************************************************************************)

(* A worker about to confirm, and a status, name a height that was read    *)
(* from the finalized head, or from the fallback.  A worker that asks for  *)
(* the height has turns left.                                              *)
TxMonitorInv ==
    /\ TxMonitorTypeOK
    /\ StoppedMeansQuiet
    /\ ReportedHeightIsFinal
    /\ \A w \in Workers : worker[w].at = "confirm" /\ worker[w].exact => worker[w].height <= finalized
    /\ \A w \in Workers : worker[w].at = "height" => worker[w].turn < MaxTurns

FinalizationInv == FinalizationTypeOK /\ WaiterTrueMeansFinalized

(* A wait has no verdict before it ends. *)
AwaitInv ==
    /\ AwaiterTypeOK
    /\ awaiter.at # "ended" => ~ awaiter.verdict
    /\ AwaitedMeansFinalized

(* A block of the finalized chain. *)
FinalHash(hash) == \E k \in 0..headFinal : hash = HashAt(k)

NodeInv ==
    /\ branches \in Seq(Nat) /\ headFinal \in 0..Height /\ retreats \in Nat /\ nonce \in Nat

(* Whatever a thread of the BlockMonitor or of the MonitoringManager has   *)
(* in hand, and what they share, is a finalized block, if it is a block.   *)
BlockMonitorInv ==
    ~ fellBack =>
      /\ lastBest = NoHash \/ FinalHash(lastBest)
      /\ subscriber.hash = NoHash \/ FinalHash(subscriber.hash)
      /\ detector.hash = NoHash \/ FinalHash(detector.hash)
      /\ \A i \in 1..Len(reorg) : FinalHash(reorg[i])

Events == [of : {"none", "chain", "balance", "contract"}, hash : Seq(Nat), height : Nat, torn : BOOLEAN]
Trackers ==
    [on : BOOLEAN, of : {"none", "chain", "balance", "contract"},
     pc : {"off", "asleep", "awake", "asked"}, hash : Seq(Nat), since : Nat, event : Events]

(* A subscription about to ask for the header holds the hash of a block    *)
(* that was on the chain, and still is if the chain has not retreated.     *)
TrackerInv ==
    /\ tracker \in Trackers /\ trackerCall \in {"none", "stop", "chain", "balance", "contract"}
    /\ TrackerQuiet
    /\ tracker.since <= retreats
    /\ tracker.pc = "asked" /\ tracker.of = "chain" /\ tracker.since = retreats
          => tracker.hash[1] \in 0..Height
    /\ tracker.event.of = "chain" /\ ~tracker.event.torn => tracker.event.height >= tracker.event.hash[1]

MonitorsInv ==
    /\ HeightsTypeOK
    /\ TxMonitorInv /\ FinalizationInv /\ AwaitInv
    /\ NodeInv /\ BlockMonitorInv /\ TrackerInv
-----------------------------------------------------------------------------
(* The finalized height never falls. *)
LEMMA HeightsStep ==
    ASSUME HeightsTypeOK, HeightsNext
    PROVE  HeightsTypeOK' /\ finalized <= finalized'
  <1> USE MaxHeightAssumption DEF HeightsTypeOK
  <1>1. CASE TipRises
    BY <1>1 DEF TipRises
  <1>2. CASE TipFalls
    BY <1>2 DEF TipFalls
  <1>3. CASE FinalizedRises
    BY <1>3 DEF FinalizedRises
  <1>4. CASE PoolChanges
    BY <1>4 DEF PoolChanges
  <1> QED BY <1>1, <1>2, <1>3, <1>4 DEF HeightsNext

(* get_finalized_height_from_rpc() (monitoring_finality.cpp:227-253): an   *)
(* answer that is not the fallback's is not above the finalized height.    *)
LEMMA HeightAnswers ==
    ASSUME HeightsTypeOK, NEW a \in HeightFromRpc \cup ReadableHeights
    PROVE  /\ a.height \in 0..MaxHeight /\ a.exact \in BOOLEAN
           /\ a.exact => a.height <= finalized
  <1>1. \/ a = [height |-> finalized, exact |-> TRUE]
        \/ a = [height |-> FallbackHeight, exact |-> FALSE]
        \/ a = [height |-> 0, exact |-> TRUE]
    BY DEF ReadableHeights, HeightFromRpc
  <1>2. finalized \in 0..MaxHeight /\ FallbackHeight \in 0..MaxHeight /\ MaxHeight \in Nat
    BY MaxHeightAssumption DEF HeightsTypeOK, FallbackHeight
  <1>3. \/ a.height = finalized /\ a.exact = TRUE
        \/ a.height = FallbackHeight /\ a.exact = FALSE
        \/ a.height = 0 /\ a.exact = TRUE
    BY <1>1
  <1>4. a.exact \in BOOLEAN
    BY <1>3
  <1>5. a.height \in 0..MaxHeight
    BY <1>2, <1>3
  <1>6. a.exact => a.height <= finalized
    BY <1>2, <1>3
  <1> QED BY <1>4, <1>5, <1>6

(* The heights moved on, the TransactionMonitor did nothing. *)
LEMMA TxMonitorStays ==
    ASSUME TxMonitorInv, HeightsTypeOK, HeightsTypeOK', finalized <= finalized', UNCHANGED txMonitorVars
    PROVE  TxMonitorInv'
  <1>1. finalized \in Nat /\ finalized' \in Nat /\ MaxHeight \in Nat
    BY MaxHeightAssumption DEF HeightsTypeOK
  <1>2. TxMonitorTypeOK' /\ StoppedMeansQuiet'
    BY DEF TxMonitorInv, txMonitorVars, TxMonitorTypeOK, StoppedMeansQuiet
  <1>3. ReportedHeightIsFinal'
    <2> SUFFICES ASSUME NEW t \in Txs, tx_status[t].exact PROVE tx_status[t].height <= finalized'
      BY DEF ReportedHeightIsFinal, txMonitorVars
    <2>1. tx_status[t].height \in Nat /\ tx_status[t].height <= finalized
      BY <1>1 DEF TxMonitorInv, TxMonitorTypeOK, ReportedHeightIsFinal
    <2> QED BY <1>1, <2>1
  <1>4. ASSUME NEW w \in Workers, worker[w].at = "confirm", worker[w].exact
        PROVE  worker[w].height <= finalized'
    <2>1. worker[w].height \in Nat /\ worker[w].height <= finalized
      BY <1>1, <1>4 DEF TxMonitorInv, TxMonitorTypeOK
    <2> QED BY <1>1, <2>1
  <1> QED BY <1>2, <1>3, <1>4 DEF TxMonitorInv, txMonitorVars

WorkerRecords ==
    [at : Positions, tx : Txs, height : 0..MaxHeight, exact : BOOLEAN, turn : 0..MaxTurns]

LEMMA NoWorkerRecord ==
    ASSUME NEW t \in Txs, NEW p \in Positions
    PROVE  /\ NoWorker(t) \in WorkerRecords /\ NoWorker(t).at = "none"
           /\ [NoWorker(t) EXCEPT !.at = p] \in WorkerRecords
           /\ [NoWorker(t) EXCEPT !.at = p].at = p
  <1>1. PICK n : n = NoWorker(t)
    OBVIOUS
  <1>2. n \in WorkerRecords /\ n.at = "none"
    BY <1>1, MaxHeightAssumption, MaxTurnsAssumption DEF NoWorker, WorkerRecords, Positions
  <1>3. [n EXCEPT !.at = p] \in WorkerRecords /\ [n EXCEPT !.at = p].at = p
    BY <1>2 DEF WorkerRecords
  <1> QED BY <1>1, <1>2, <1>3

(* A step of one worker: its new record and the statuses must be sound. *)
LEMMA WorkerMoves ==
    ASSUME TxMonitorInv, HeightsTypeOK, NEW w \in Workers, NEW r \in WorkerRecords, Set(w, r),
           worker[w].at # "none", UNCHANGED <<heightsVars, monitoring, stopping>>,
           r.at = "confirm" /\ r.exact => r.height <= finalized,
           r.at = "height" => r.turn < MaxTurns,
           \/ UNCHANGED tx_status
           \/ \E t \in Txs, s \in TxStates, h \in 0..MaxHeight, e \in BOOLEAN :
                 Report(t, s, h, e) /\ (e => h <= finalized)
    PROVE  TxMonitorInv'
  <1> USE DEF TxMonitorInv
  <1>1. worker \in [Workers -> WorkerRecords] /\ worker' = [worker EXCEPT ![w] = r]
    BY DEF TxMonitorTypeOK, WorkerRecords, Set
  <1>2. /\ worker' \in [Workers -> WorkerRecords] /\ worker'[w] = r
        /\ \A v \in Workers \ {w} : worker'[v] = worker[v]
    BY <1>1
  <1>3. StoppedMeansQuiet'
    BY DEF StoppedMeansQuiet
  <1>4. \A v \in Workers :
          /\ worker'[v].at = "confirm" /\ worker'[v].exact => worker'[v].height <= finalized'
          /\ worker'[v].at = "height" => worker'[v].turn < MaxTurns
    BY <1>2 DEF heightsVars
  <1>5. /\ tx_status' \in [Txs -> [status : TxStates, height : 0..MaxHeight, exact : BOOLEAN]]
        /\ ReportedHeightIsFinal'
    <2>1. tx_status \in [Txs -> [status : TxStates, height : 0..MaxHeight, exact : BOOLEAN]]
      BY DEF TxMonitorTypeOK
    <2>2. CASE UNCHANGED tx_status
      BY <2>1, <2>2 DEF ReportedHeightIsFinal, heightsVars
    <2>3. ASSUME NEW t \in Txs, NEW s \in TxStates, NEW h \in 0..MaxHeight, NEW e \in BOOLEAN,
                 Report(t, s, h, e), e => h <= finalized
          PROVE  /\ tx_status' \in [Txs -> [status : TxStates, height : 0..MaxHeight, exact : BOOLEAN]]
                 /\ ReportedHeightIsFinal'
      <3>1. PICK u \in [status : TxStates, height : 0..MaxHeight, exact : BOOLEAN] :
              u = [status |-> s, height |-> h, exact |-> e]
        BY <2>3
      <3>2. u.exact => u.height <= finalized
        BY <2>3, <3>1
      <3>3. tx_status' = [tx_status EXCEPT ![t] = u]
        BY <2>3, <3>1 DEF Report
      <3> QED BY <2>1, <3>2, <3>3 DEF ReportedHeightIsFinal, heightsVars
    <2> QED BY <2>2, <2>3
  <1>6. TxMonitorTypeOK'
    BY <1>2, <1>5 DEF TxMonitorTypeOK, WorkerRecords
  <1> QED BY <1>3, <1>4, <1>5, <1>6

(* The threads of monitor_transaction() and wait_for_tx_inclusion()        *)
(* (monitoring_finality.cpp:755-871).                                      *)
LEMMA WorkerStepSafe ==
    ASSUME TxMonitorInv, HeightsTypeOK, NEW w \in Workers, WorkerStep(w), UNCHANGED heightsVars
    PROVE  TxMonitorInv'
  <1>1. PICK c \in WorkerRecords : c = worker[w]
    BY DEF TxMonitorInv, TxMonitorTypeOK, WorkerRecords
  <1>2. /\ c.tx \in Txs /\ c.height \in 0..MaxHeight /\ c.turn \in 0..MaxTurns /\ c.exact \in BOOLEAN
        /\ finalized \in Nat /\ MaxTurns \in Nat /\ 0 \in 0..MaxHeight
    BY MaxHeightAssumption, MaxTurnsAssumption DEF WorkerRecords, HeightsTypeOK
  <1>3. c.at # "none" /\ UNCHANGED <<monitoring, stopping>>
    BY <1>1 DEF WorkerStep, Begin, ReadStart, AskPool, AskHeight, Confirm, LoopEnds, GiveUp, PollInclusion
  <1>4. ASSUME NEW p \in Positions, p # "confirm", Move(w, p)
        PROVE  \E r \in WorkerRecords : Set(w, r) /\ r.at = p /\ r.turn = c.turn
    <2>1. PICK r : r = [c EXCEPT !.at = p]
      OBVIOUS
    <2>2. r \in WorkerRecords /\ r.at = p /\ r.turn = c.turn
      BY <2>1 DEF WorkerRecords
    <2> QED BY <1>1, <1>4, <2>1, <2>2 DEF Move
  <1>5. ASSUME End(w)
        PROVE  \E r \in WorkerRecords : Set(w, r) /\ r.at = "ended"
    <2>1. "ended" \in Positions
      BY DEF Positions
    <2> QED BY <1>1, <1>2, <1>5, <2>1, NoWorkerRecord DEF End
  <1>6. ASSUME NEW k \in 0..(MaxTurns - 1), c.turn = k
        PROVE  \A p \in Positions \ {"confirm"} :
                  /\ [c EXCEPT !.turn = @ + 1] \in WorkerRecords
                  /\ [c EXCEPT !.turn = @ + 1].at = c.at
                  /\ [c EXCEPT !.at = p, !.turn = @ + 1] \in WorkerRecords
                  /\ [c EXCEPT !.at = p, !.turn = @ + 1].at = p
    <2>1. PICK u \in 0..MaxTurns : u = c.turn + 1
      BY <1>2, <1>6
    <2>2. [c EXCEPT !.turn = u] \in WorkerRecords /\ [c EXCEPT !.turn = u].at = c.at
      BY DEF WorkerRecords
    <2>3. ASSUME NEW p \in Positions
          PROVE  [c EXCEPT !.at = p, !.turn = u] \in WorkerRecords /\ [c EXCEPT !.at = p, !.turn = u].at = p
      BY DEF WorkerRecords
    <2> QED BY <2>1, <2>2, <2>3
  <1>7. CASE Begin(w)
    <2>1. PICK r \in WorkerRecords : Set(w, r) /\ r.at = "start"
      BY <1>4, <1>7 DEF Begin, Positions
    <2>2. \E t \in Txs, s \in TxStates, h \in 0..MaxHeight, e \in BOOLEAN :
            Report(t, s, h, e) /\ (e => h <= finalized)
      <3>1. Report(c.tx, "IN_MEMPOOL", 0, TRUE) /\ c.tx \in Txs /\ "IN_MEMPOOL" \in TxStates
        BY <1>1, <1>2, <1>7 DEF Begin, TxStates
      <3>2. 0 \in 0..MaxHeight /\ 0 <= finalized
        BY <1>2
      <3> QED BY <3>1, <3>2, Zenon
    <2> QED BY <1>1, <1>3, <2>1, <2>2, WorkerMoves
  <1>8. CASE ReadStart(w)
    <2>1. PICK a \in HeightFromRpc : Set(w, [c EXCEPT !.at = "pool", !.height = a.height])
      BY <1>1, <1>8 DEF ReadStart
    <2>2. PICK h \in 0..MaxHeight : h = a.height
      BY HeightAnswers
    <2>3. PICK r : r = [c EXCEPT !.at = "pool", !.height = h]
      OBVIOUS
    <2>4. r \in WorkerRecords /\ r.at = "pool"
      BY <2>3 DEF WorkerRecords, Positions
    <2>5. Set(w, r) /\ UNCHANGED tx_status
      BY <1>8, <2>1, <2>2, <2>3 DEF ReadStart
    <2> QED BY <1>1, <1>3, <2>4, <2>5, WorkerMoves
  <1>9. CASE AskPool(w)
    <2>1. UNCHANGED tx_status /\ c.at = "pool" /\ c.turn \in 0..(MaxTurns - 1)
      BY <1>1, <1>2, <1>9 DEF AskPool
    <2>2. Set(w, [c EXCEPT !.turn = @ + 1]) \/ Move(w, "height")
      BY <1>1, <1>9 DEF AskPool
    <2>3. \E r \in WorkerRecords : Set(w, r) /\ r.at # "confirm" /\ (r.at = "height" => r.turn < MaxTurns)
      <3>1. CASE Set(w, [c EXCEPT !.turn = @ + 1])
        BY <1>6, <2>1, <3>1 DEF Positions
      <3>2. CASE Move(w, "height")
        BY <1>2, <1>4, <2>1, <3>2 DEF Positions
      <3> QED BY <2>2, <3>1, <3>2
    <2> QED BY <1>1, <1>3, <2>1, <2>3, WorkerMoves
  <1>10. CASE Confirm(w)
    <2>1. PICK r \in WorkerRecords : Set(w, r) /\ r.at = "ended"
      BY <1>5, <1>10 DEF Confirm
    <2>2. c.exact => c.height <= finalized
      BY <1>1, <1>10 DEF Confirm, TxMonitorInv
    <2>3. \E t \in Txs, s \in TxStates, h \in 0..MaxHeight, e \in BOOLEAN :
            Report(t, s, h, e) /\ (e => h <= finalized)
      BY <1>1, <1>2, <1>10, <2>2 DEF Confirm, TxStates
    <2> QED BY <1>1, <1>3, <2>1, <2>3, WorkerMoves
  <1>11. CASE LoopEnds(w)
    <2>1. \E r \in WorkerRecords : Set(w, r) /\ r.at \notin {"confirm", "height"}
      BY <1>4, <1>5, <1>11 DEF LoopEnds, Positions
    <2> QED BY <1>1, <1>3, <1>11, <2>1, WorkerMoves DEF LoopEnds
  <1>12. CASE GiveUp(w)
    <2>1. PICK r \in WorkerRecords : Set(w, r) /\ r.at = "ended"
      BY <1>5, <1>12 DEF GiveUp
    <2>2. \E t \in Txs, s \in TxStates, h \in 0..MaxHeight, e \in BOOLEAN :
            Report(t, s, h, e) /\ (e => h <= finalized)
      <3>1. Report(c.tx, "REORGANIZED_OUT", 0, TRUE) /\ c.tx \in Txs /\ "REORGANIZED_OUT" \in TxStates
        BY <1>1, <1>2, <1>12 DEF GiveUp, TxStates
      <3>2. 0 \in 0..MaxHeight /\ 0 <= finalized
        BY <1>2
      <3> QED BY <3>1, <3>2, Zenon
    <2> QED BY <1>1, <1>3, <2>1, <2>2, WorkerMoves
  <1>13. CASE PollInclusion(w)
    <2>1. UNCHANGED tx_status /\ c.at = "inclusion"
      BY <1>1, <1>13 DEF PollInclusion
    <2>2. End(w) \/ (Set(w, [c EXCEPT !.turn = @ + 1]) /\ c.turn # MaxTurns)
      BY <1>1, <1>13 DEF PollInclusion
    <2>3. \E r \in WorkerRecords : Set(w, r) /\ r.at \notin {"confirm", "height"}
      <3>1. CASE End(w)
        BY <1>5, <3>1
      <3>2. CASE Set(w, [c EXCEPT !.turn = @ + 1]) /\ c.turn # MaxTurns
        <4>1. c.turn \in 0..(MaxTurns - 1)
          BY <1>2, <3>2
        <4> QED BY <1>6, <2>1, <3>2, <4>1 DEF Positions
      <3> QED BY <2>2, <3>1, <3>2
    <2> QED BY <1>1, <1>3, <2>1, <2>3, WorkerMoves
  <1>14. CASE AskHeight(w)
    <2>1. PICK a \in HeightFromRpc :
            IF a.height > c.height
            THEN /\ Report(c.tx, "IN_BLOCK", a.height, a.exact)
                 /\ Set(w, [c EXCEPT !.at = "confirm", !.height = a.height, !.exact = a.exact])
            ELSE /\ Set(w, [c EXCEPT !.at = "pool", !.turn = @ + 1])
                 /\ UNCHANGED tx_status
      BY <1>1, <1>14 DEF AskHeight
    <2>2. PICK h \in 0..MaxHeight, e \in BOOLEAN :
            h = a.height /\ e = a.exact /\ (e => h <= finalized)
      BY HeightAnswers
    <2>3. CASE a.height > c.height
      <3>1. PICK r : r = [c EXCEPT !.at = "confirm", !.height = h, !.exact = e]
        OBVIOUS
      <3>2. r \in WorkerRecords /\ r.at = "confirm" /\ r.height = h /\ r.exact = e
        BY <3>1 DEF WorkerRecords, Positions
      <3>3. Set(w, r)
        BY <2>1, <2>2, <2>3, <3>1
      <3>4. \E t \in Txs, s \in TxStates, k \in 0..MaxHeight, f \in BOOLEAN :
              Report(t, s, k, f) /\ (f => k <= finalized)
        BY <1>2, <2>1, <2>2, <2>3 DEF TxStates
      <3> QED BY <1>1, <1>3, <2>2, <3>2, <3>3, <3>4, WorkerMoves
    <2>4. CASE ~ (a.height > c.height)
      <3>1. Set(w, [c EXCEPT !.at = "pool", !.turn = @ + 1]) /\ UNCHANGED tx_status
        BY <2>1, <2>4
      <3>2. c.turn \in 0..(MaxTurns - 1)
        BY <1>1, <1>2, <1>14 DEF AskHeight, TxMonitorInv
      <3>3. \E r \in WorkerRecords : Set(w, r) /\ r.at \notin {"confirm", "height"}
        <4>1. "pool" \in Positions \ {"confirm"}
          BY DEF Positions
        <4>2. /\ [c EXCEPT !.at = "pool", !.turn = @ + 1] \in WorkerRecords
              /\ [c EXCEPT !.at = "pool", !.turn = @ + 1].at = "pool"
          BY <1>6, <3>2, <4>1
        <4>3. "pool" \notin {"confirm", "height"}
          OBVIOUS
        <4> QED BY <3>1, <4>2, <4>3, Zenon
      <3> QED BY <1>1, <1>3, <3>1, <3>3, WorkerMoves
    <2> QED BY <2>3, <2>4
  <1> QED BY <1>7, <1>8, <1>9, <1>10, <1>11, <1>12, <1>13, <1>14 DEF WorkerStep

(* The calls of the TransactionMonitor. *)
LEMMA TxMonitorStep ==
    ASSUME TxMonitorInv, HeightsTypeOK, TxMonitorNext
    PROVE  TxMonitorInv' /\ HeightsTypeOK' /\ finalized <= finalized'
  <1>1. finalized \in Nat /\ worker \in [Workers -> WorkerRecords]
    BY MaxHeightAssumption DEF HeightsTypeOK, TxMonitorInv, TxMonitorTypeOK, WorkerRecords
  <1>2. ASSUME UNCHANGED heightsVars PROVE HeightsTypeOK' /\ finalized <= finalized'
    BY <1>1, <1>2 DEF HeightsTypeOK, heightsVars
  <1>3. ASSUME NEW t \in Txs, NEW p \in {"begin", "inclusion"}, Launch(t, p), UNCHANGED heightsVars
        PROVE  TxMonitorInv'
    <2>1. PICK w \in Workers : Set(w, [NoWorker(t) EXCEPT !.at = p])
      BY <1>3 DEF Launch
    <2>2. PICK r : r = [NoWorker(t) EXCEPT !.at = p]
      OBVIOUS
    <2>3. r \in WorkerRecords /\ r.at = p
      BY <2>2, NoWorkerRecord, ZenonT(60) DEF Positions
    <2>4. worker' = [worker EXCEPT ![w] = r]
      BY <2>1, <2>2 DEF Set
    <2>5. /\ worker' \in [Workers -> WorkerRecords]
          /\ \A v \in Workers : worker'[v] = worker[v] \/ worker'[v].at \in {"begin", "inclusion"}
      BY <1>1, <2>3, <2>4
    <2>6. monitoring' = TRUE /\ UNCHANGED <<tx_status, stopping, finalized>>
      BY <1>3 DEF Launch, heightsVars
    <2>7. TxMonitorTypeOK'
      BY <2>5, <2>6 DEF TxMonitorInv, TxMonitorTypeOK, WorkerRecords
    <2>8. StoppedMeansQuiet' /\ ReportedHeightIsFinal'
      BY <2>6 DEF TxMonitorInv, StoppedMeansQuiet, ReportedHeightIsFinal
    <2> QED BY <2>5, <2>6, <2>7, <2>8 DEF TxMonitorInv
  <1>4. CASE (\E t \in Txs : MonitorTransaction(t) \/ WaitForTxInclusion(t)) /\ UNCHANGED heightsVars
    BY <1>2, <1>3, <1>4 DEF MonitorTransaction, WaitForTxInclusion
  <1>5. CASE StopMonitoring /\ UNCHANGED heightsVars
    <2>1. TxMonitorInv'
      BY <1>5 DEF StopMonitoring, heightsVars, TxMonitorInv, TxMonitorTypeOK, StoppedMeansQuiet,
             ReportedHeightIsFinal
    <2> QED BY <1>2, <1>5, <2>1
  <1>6. CASE JoinWorkers /\ UNCHANGED heightsVars
    <2>1. \A w \in Workers : worker[w].tx \in Txs
      BY <1>1 DEF WorkerRecords
    <2>2. worker' = [w \in Workers |-> NoWorker(worker[w].tx)]
      BY <1>6 DEF JoinWorkers, Joined
    <2>3. /\ worker' \in [Workers -> WorkerRecords]
          /\ \A w \in Workers : worker'[w].at = "none"
      BY <2>1, <2>2, NoWorkerRecord DEF Positions
    <2>4. stopping' = FALSE /\ UNCHANGED <<monitoring, tx_status, finalized>>
      BY <1>6 DEF JoinWorkers, heightsVars
    <2>5. TxMonitorTypeOK'
      BY <2>3, <2>4 DEF TxMonitorInv, TxMonitorTypeOK, WorkerRecords
    <2>6. StoppedMeansQuiet' /\ ReportedHeightIsFinal'
      BY <2>3, <2>4 DEF TxMonitorInv, StoppedMeansQuiet, ReportedHeightIsFinal
    <2> QED BY <1>2, <1>6, <2>3, <2>5, <2>6 DEF TxMonitorInv
  <1>7. CASE (\E w \in Workers : WorkerStep(w)) /\ UNCHANGED heightsVars
    BY <1>2, <1>7, WorkerStepSafe
  <1>8. CASE HeightsNext /\ UNCHANGED txMonitorVars
    BY <1>8, HeightsStep, TxMonitorStays
  <1> QED BY <1>4, <1>5, <1>6, <1>7, <1>8 DEF TxMonitorNext

(* FinalizationMonitor and FinalityAwaiter while the heights move on. *)
LEMMA WaitsStay ==
    ASSUME FinalizationInv, AwaitInv, HeightsTypeOK, HeightsTypeOK', finalized <= finalized'
    PROVE  /\ UNCHANGED finalizationVars => FinalizationInv'
           /\ UNCHANGED awaiter => AwaitInv'
  <1>1. /\ finalized \in Nat /\ finalized' \in Nat
        /\ waiter.need \in Nat /\ awaiter.need \in Nat
    BY MaxHeightAssumption
    DEF HeightsTypeOK, FinalizationInv, AwaitInv, FinalizationTypeOK, AwaiterTypeOK
  <1>2. UNCHANGED finalizationVars => FinalizationInv'
    BY <1>1 DEF FinalizationInv, finalizationVars, FinalizationTypeOK, WaiterTrueMeansFinalized
  <1>3. UNCHANGED awaiter => AwaitInv'
    BY <1>1 DEF AwaitInv, AwaiterTypeOK, AwaitedMeansFinalized
  <1> QED BY <1>2, <1>3

Waits == [at : {"none", "thread", "ended"}, need : 0..MaxHeight, exact : BOOLEAN,
          turn : 0..MaxTurns, verdict : BOOLEAN]

(* wait_for_finality() and the reporter (monitoring_finality.cpp:651-730). *)
LEMMA FinalizationStep ==
    ASSUME FinalizationInv, AwaitInv, HeightsTypeOK, FinalizationNext
    PROVE  FinalizationInv' /\ HeightsTypeOK' /\ finalized <= finalized'
  <1>1. /\ finalized \in Nat /\ MaxHeight \in Nat /\ MaxTurns \in Nat
        /\ waiter \in Waits /\ last \in 0..MaxHeight
    BY MaxHeightAssumption, MaxTurnsAssumption
    DEF HeightsTypeOK, FinalizationInv, FinalizationTypeOK, Waits
  <1>2. NoWaiter \in Waits /\ NoWaiter.at = "none"
    BY <1>1 DEF NoWaiter, Waits
  <1>3. ASSUME UNCHANGED heightsVars PROVE HeightsTypeOK' /\ finalized <= finalized'
    BY <1>1, <1>3 DEF HeightsTypeOK, heightsVars
  <1>4. ASSUME UNCHANGED heightsVars, NEW r \in Waits, waiter' = r,
               r.at = "ended" /\ r.verdict /\ r.exact => finalized >= r.need,
               reporting' \in BOOLEAN, degraded' \in BOOLEAN,
               reporter' \in {"none", "sleep", "read", "ended"}, last' \in 0..MaxHeight,
               fcall' \in {"none", "stop", "monitor", "wait"}
        PROVE  FinalizationInv'
    BY <1>4 DEF FinalizationInv, FinalizationTypeOK, WaiterTrueMeansFinalized, heightsVars, Waits
  <1>5. waiter.at = "ended" /\ waiter.verdict /\ waiter.exact => finalized >= waiter.need
    BY DEF FinalizationInv, WaiterTrueMeansFinalized
  <1> USE DEF FinalizationInv, FinalizationTypeOK
  <1>6. CASE FinalizationCalls /\ UNCHANGED heightsVars
    BY <1>1, <1>3, <1>4, <1>5, <1>6 DEF FinalizationCalls, StopReporting, StartWaitForFinality, NodeDegrades
  <1>7. CASE (Stopped \/ MonitorFinalization) /\ UNCHANGED heightsVars
    <2>1. \A a \in ReadableHeights : a.height \in 0..MaxHeight
      BY HeightAnswers
    <2> QED BY <1>1, <1>2, <1>3, <1>4, <1>7, <2>1 DEF Stopped, MonitorFinalization
  <1>8. ASSUME NEW h \in 1..MaxHeight, WaitForFinality(h), UNCHANGED heightsVars
        PROVE  FinalizationInv'
    <2>1. PICK n : n = NoWaiter
      OBVIOUS
    <2>2. PICK k \in 0..MaxHeight : k = h
      BY <1>1
    <2>3. PICK r : r = [n EXCEPT !.at = "thread", !.need = k]
      OBVIOUS
    <2>4. n \in Waits
      BY <1>2, <2>1
    <2>5. r \in Waits /\ r.at = "thread"
      BY <2>3, <2>4 DEF Waits
    <2>6. waiter' = r
      BY <1>8, <2>1, <2>2, <2>3 DEF WaitForFinality
    <2> QED BY <1>1, <1>4, <1>8, <2>5, <2>6 DEF WaitForFinality
  <1>9. CASE ReporterStep /\ UNCHANGED heightsVars
    <2>1. \A a \in ReadableHeights : a.height \in 0..MaxHeight
      BY HeightAnswers
    <2> QED BY <1>1, <1>3, <1>4, <1>5, <1>9, <2>1 DEF ReporterStep, ReporterWakes, ReporterReads
  <1>10. CASE WaiterReads /\ UNCHANGED heightsVars
    <2>1. \E r \in Waits : waiter' = r /\ (r.at = "ended" /\ r.verdict /\ r.exact => finalized >= r.need)
      <3>1. PICK c \in Waits : c = waiter
        BY <1>1
      <3>2. CASE c.turn = MaxTurns
        <4>1. PICK r : r = [c EXCEPT !.at = "ended", !.verdict = FALSE]
          OBVIOUS
        <4>2. r \in Waits /\ r.verdict = FALSE
          BY <4>1 DEF Waits
        <4> QED BY <1>10, <3>1, <3>2, <4>1, <4>2 DEF WaiterReads, Answer
      <3>3. CASE c.turn # MaxTurns
        <4>1. PICK a \in ReadableHeights :
                IF a.height >= c.need
                THEN waiter' = [c EXCEPT !.at = "ended", !.exact = a.exact, !.verdict = TRUE]
                ELSE waiter' = [c EXCEPT !.turn = @ + 1]
          BY <1>10, <3>1, <3>3 DEF WaiterReads
        <4>2. PICK e \in BOOLEAN, h \in 0..MaxHeight : e = a.exact /\ h = a.height /\ (e => h <= finalized)
          BY HeightAnswers
        <4>3. CASE a.height >= c.need
          <5>1. PICK r : r = [c EXCEPT !.at = "ended", !.exact = e, !.verdict = TRUE]
            OBVIOUS
          <5>2. r \in Waits /\ r.exact = e /\ r.need = c.need
            BY <5>1 DEF Waits
          <5>3. e => finalized >= c.need
            BY <1>1, <4>2, <4>3 DEF Waits
          <5> QED BY <4>1, <4>2, <4>3, <5>1, <5>2, <5>3
        <4>4. CASE ~ (a.height >= c.need)
          <5>1. PICK u \in 0..MaxTurns : u = c.turn + 1
            BY <1>1, <3>3 DEF Waits
          <5>2. PICK r : r = [c EXCEPT !.turn = u]
            OBVIOUS
          <5>3. r \in Waits /\ r.at = c.at
            BY <5>2 DEF Waits
          <5>4. c.at = "thread"
            BY <1>10, <3>1 DEF WaiterReads
          <5>5. waiter' = r
            BY <4>1, <4>4, <5>1, <5>2
          <5> QED BY <5>3, <5>4, <5>5
        <4> QED BY <4>3, <4>4
      <3> QED BY <3>2, <3>3
    <2> QED BY <1>1, <1>3, <1>4, <1>10, <2>1 DEF WaiterReads
  <1>11. CASE HeightsNext /\ UNCHANGED finalizationVars
    BY <1>11, HeightsStep, WaitsStay
  <1> QED BY <1>3, <1>6, <1>7, <1>8, <1>9, <1>10, <1>11 DEF FinalizationNext, FinalizationJoins

Awaits == [at : {"none", "pool", "height", "turn", "ended"}, tx : BOOLEAN, need : 0..(MaxHeight + 1),
           exact : BOOLEAN, verdict : BOOLEAN]

(* wait_for_block_finality() and wait_for_tx_finality()                    *)
(* (monitoring_finality.cpp:960-1078).                                     *)
LEMMA AwaiterStep ==
    ASSUME FinalizationInv, AwaitInv, HeightsTypeOK, AwaiterNext
    PROVE  AwaitInv' /\ HeightsTypeOK' /\ finalized <= finalized'
  <1>1. finalized \in Nat /\ MaxHeight \in Nat /\ awaiter \in Awaits
    BY MaxHeightAssumption DEF HeightsTypeOK, AwaitInv, AwaiterTypeOK, Awaits
  <1>2. ASSUME UNCHANGED heightsVars PROVE HeightsTypeOK' /\ finalized <= finalized'
    BY <1>1, <1>2 DEF HeightsTypeOK, heightsVars
  <1>3. ASSUME UNCHANGED heightsVars, NEW r \in Awaits, awaiter' = r,
               r.at # "ended" => ~ r.verdict,
               r.at = "ended" /\ r.verdict /\ r.exact => finalized >= r.need
        PROVE  AwaitInv'
    BY <1>3 DEF AwaitInv, AwaiterTypeOK, AwaitedMeansFinalized, heightsVars, Awaits
  <1>4. PICK n : n = NoAwaiter
    OBVIOUS
  <1>5. n \in Awaits /\ n.verdict = FALSE
    <2>1. 0 \in 0..(MaxHeight + 1)
      BY <1>1
    <2> QED BY <1>4, <2>1 DEF NoAwaiter, Awaits
  <1>6. PICK c \in Awaits : c = awaiter /\ (c.at # "ended" => ~ c.verdict)
    BY <1>1 DEF AwaitInv
  (* A step that only moves the wait. *)
  <1>7. ASSUME NEW p \in {"none", "pool", "height", "turn", "ended"}, c.at # "ended",
               awaiter' = [c EXCEPT !.at = p], UNCHANGED heightsVars
        PROVE  AwaitInv'
    <2>1. PICK r : r = [c EXCEPT !.at = p]
      OBVIOUS
    <2>2. r \in Awaits /\ r.verdict = c.verdict
      BY <2>1 DEF Awaits
    <2> QED BY <1>3, <1>6, <1>7, <2>1, <2>2
  <1>8. ASSUME NEW h \in 1..MaxHeight, AwaitBlockFinality(h), UNCHANGED heightsVars
        PROVE  AwaitInv'
    <2>1. PICK k \in 0..(MaxHeight + 1) : k = h
      BY <1>1
    <2>2. PICK r : r = [n EXCEPT !.at = "height", !.need = k]
      OBVIOUS
    <2>3. r \in Awaits /\ r.verdict = FALSE
      BY <1>5, <2>2 DEF Awaits
    <2>4. awaiter' = r
      BY <1>4, <1>8, <2>1, <2>2 DEF AwaitBlockFinality
    <2> QED BY <1>3, <1>8, <2>3, <2>4
  <1>9. CASE AwaitTxFinality /\ UNCHANGED heightsVars
    <2>1. PICK a \in HeightFromRpc :
            awaiter' = [n EXCEPT !.at = "pool", !.tx = TRUE, !.need = a.height + 1]
      BY <1>4, <1>9 DEF AwaitTxFinality
    <2>2. PICK k \in 0..(MaxHeight + 1) : k = a.height + 1
      BY <1>1, HeightAnswers
    <2>3. PICK r : r = [n EXCEPT !.at = "pool", !.tx = TRUE, !.need = k]
      OBVIOUS
    <2>4. r \in Awaits /\ r.verdict = FALSE
      BY <1>5, <2>3 DEF Awaits
    <2> QED BY <1>2, <1>3, <1>9, <2>1, <2>2, <2>3, <2>4
  <1>10. CASE AwaiterAsksPool /\ UNCHANGED heightsVars
    <2>1. PICK p \in {"turn", "height"} : awaiter' = [c EXCEPT !.at = p]
      BY <1>6, <1>10 DEF AwaiterAsksPool
    <2> QED BY <1>2, <1>6, <1>7, <1>10, <2>1 DEF AwaiterAsksPool
  <1>11. CASE AwaiterReads /\ UNCHANGED heightsVars
    <2>1. PICK a \in HeightFromRpc :
            awaiter' = IF a.height >= c.need
                       THEN [c EXCEPT !.at = "ended", !.verdict = TRUE, !.exact = a.exact]
                       ELSE [c EXCEPT !.at = "turn"]
      BY <1>6, <1>11 DEF AwaiterReads
    <2>2. PICK e \in BOOLEAN, h \in 0..MaxHeight : e = a.exact /\ h = a.height /\ (e => h <= finalized)
      BY HeightAnswers
    <2>3. CASE a.height >= c.need
      <3>1. PICK r : r = [c EXCEPT !.at = "ended", !.verdict = TRUE, !.exact = e]
        OBVIOUS
      <3>2. r \in Awaits /\ r.at = "ended" /\ r.exact = e /\ r.need = c.need
        BY <3>1 DEF Awaits
      <3>3. e => finalized >= c.need
        BY <1>1, <2>2, <2>3 DEF Awaits
      <3> QED BY <1>2, <1>3, <1>11, <2>1, <2>2, <2>3, <3>1, <3>2, <3>3
    <2>4. CASE ~ (a.height >= c.need)
      BY <1>2, <1>6, <1>7, <1>11, <2>1, <2>4 DEF AwaiterReads
    <2> QED BY <2>3, <2>4
  <1>12. CASE (AwaiterSleeps \/ AwaiterTimesOut) /\ UNCHANGED heightsVars
    <2>1. PICK p \in {"pool", "height", "ended"} : awaiter' = [c EXCEPT !.at = p]
      BY <1>6, <1>12 DEF AwaiterSleeps, AwaiterTimesOut
    <2> QED BY <1>2, <1>6, <1>7, <1>12, <2>1 DEF AwaiterSleeps, AwaiterTimesOut
  <1>13. CASE AwaiterReturns /\ UNCHANGED heightsVars
    BY <1>2, <1>3, <1>4, <1>5, <1>13 DEF AwaiterReturns
  <1>14. CASE HeightsNext /\ UNCHANGED awaiter
    BY <1>14, HeightsStep, WaitsStay
  <1> QED BY <1>2, <1>8, <1>9, <1>10, <1>11, <1>12, <1>13, <1>14 DEF AwaiterNext, AwaiterSteps
-----------------------------------------------------------------------------
LEMMA HashIsHash ==
    ASSUME NodeInv, NEW k \in 0..Height
    PROVE  HashAt(k) \in Seq(Nat) /\ HashAt(k)[1] = k /\ HashAt(k) # NoHash
  <1>1. k \in Nat /\ (k # 0 => branches[k] \in Nat)
    BY DEF NodeInv, Height
  <1>2. PICK b \in Nat : b = IF k = 0 THEN 0 ELSE branches[k]
    BY <1>1
  <1>3. <<k, b>> \in Seq(Nat) /\ <<k, b>>[1] = k /\ <<k, b>> # << >>
    BY <1>1
  <1> QED BY <1>2, <1>3 DEF HashAt, NoHash

(* The node keeps what it has finalized. *)
LEMMA NodeStep ==
    ASSUME NodeInv, NodeMoves \/ AccountActs
    PROVE  /\ NodeInv' /\ retreats <= retreats'
           /\ retreats' = retreats => Height <= Height'
           /\ \A hash : FinalHash(hash) => FinalHash(hash)'
  <1>1. /\ branches \in Seq(Nat) /\ Height \in Nat /\ headFinal \in 0..Height
        /\ retreats \in Nat /\ nonce \in Nat
    BY DEF NodeInv, Height
  (* It is enough that the finalized chain is kept. *)
  <1>2. ASSUME headFinal <= headFinal', headFinal' \in Nat,
               \A k \in 1..headFinal : branches'[k] = branches[k]
        PROVE  \A hash : FinalHash(hash) => FinalHash(hash)'
    <2> SUFFICES ASSUME NEW hash, NEW k \in 0..headFinal, hash = HashAt(k)
                 PROVE  \E j \in 0..headFinal' : hash = HashAt(j)'
      BY DEF FinalHash
    <2>1. k \in 0..headFinal' /\ (k # 0 => k \in 1..headFinal)
      BY <1>1, <1>2
    <2>2. hash = HashAt(k)'
      BY <1>2, <2>1 DEF HashAt
    <2> QED BY <2>1, <2>2
  <1>3. CASE ChainGrows
    <2>1. branches' = Append(branches, retreats) /\ UNCHANGED <<headFinal, retreats, nonce>>
      BY <1>3 DEF ChainGrows
    <2>2. /\ branches' \in Seq(Nat) /\ Height' = Height + 1
          /\ \A k \in 1..Height : branches'[k] = branches[k]
      BY <1>1, <2>1 DEF Height
    <2>3. headFinal <= headFinal' /\ headFinal' \in Nat /\ \A k \in 1..headFinal : k \in 1..Height
      BY <1>1, <2>1
    <2>4. NodeInv' /\ retreats <= retreats' /\ Height <= Height'
      BY <1>1, <2>1, <2>2 DEF NodeInv
    <2> QED BY <1>2, <2>2, <2>3, <2>4
  <1>4. CASE ChainRetreats
    <2>1. PICK h \in headFinal..(Height - 1) : branches' = SubSeq(branches, 1, h)
      BY <1>4 DEF ChainRetreats
    <2>2. h \in Nat /\ headFinal <= h /\ h < Height
      BY <1>1, <2>1
    <2>3. /\ branches' \in Seq(Nat) /\ Height' = h
          /\ \A k \in 1..h : branches'[k] = branches[k]
      BY <1>1, <2>1, <2>2 DEF Height
    <2>4. retreats' = retreats + 1 /\ UNCHANGED <<headFinal, nonce>>
      BY <1>4 DEF ChainRetreats
    <2> QED BY <1>1, <1>2, <2>2, <2>3, <2>4 DEF NodeInv
  <1>5. CASE HeadFinalizes
    <2>1. /\ headFinal < Height /\ headFinal' = headFinal + 1
          /\ UNCHANGED <<branches, retreats, nonce>>
      BY <1>5 DEF HeadFinalizes
    <2>2. Height' = Height
      BY <2>1 DEF Height
    <2> QED BY <1>1, <1>2, <2>1, <2>2 DEF NodeInv
  <1>6. CASE AccountActs
    <2>1. nonce' = nonce + 1 /\ UNCHANGED <<branches, headFinal, retreats>>
      BY <1>6 DEF AccountActs
    <2>2. Height' = Height
      BY <2>1 DEF Height
    <2> QED BY <1>1, <1>2, <2>1, <2>2 DEF NodeInv
  <1> QED BY <1>3, <1>4, <1>5, <1>6 DEF NodeMoves

(* subscribe_new_blocks(), on_reorg() and their threads                    *)
(* (monitoring_finality.cpp:347-420, 1098-1140).                           *)
LEMMA BlockMonitorStep ==
    ASSUME NodeInv, BlockMonitorInv, BlockMonitorNext, UNCHANGED nodeVars
    PROVE  BlockMonitorInv'
  <1>1. CASE UNCHANGED blockMonitorVars
    BY <1>1 DEF BlockMonitorInv, blockMonitorVars, nodeVars, FinalHash, HashAt
  <1>2. CASE SubscribeNewBlocks \/ OnReorg \/ StopManager \/ ManagerJoins \/ SubscriberStep \/ DetectorStep
    <2> DEFINE Fine(hash) == hash = NoHash \/ FinalHash(hash)
    <2> SUFFICES ASSUME ~ fellBack'
                 PROVE  /\ Fine(lastBest') /\ Fine(subscriber'.hash) /\ Fine(detector'.hash)
                        /\ \A i \in 1..Len(reorg') : FinalHash(reorg'[i])
      BY DEF BlockMonitorInv, nodeVars, FinalHash, HashAt
    <2>1. ~ fellBack
      BY <1>2 DEF SubscribeNewBlocks, OnReorg, StopManager, ManagerJoins, SubscriberStep, DetectorStep,
             OnReorgStarts, JoinDetector, JoinSubscriber, FirstBlock, Subscribed, SubscriberAsks,
             SubscriberReports, DetectorAsks, DetectReorg, Falls
    <2>2. /\ Fine(lastBest) /\ Fine(subscriber.hash) /\ Fine(detector.hash)
          /\ \A i \in 1..Len(reorg) : FinalHash(reorg[i])
      BY <2>1 DEF BlockMonitorInv
    <2>3. Fine(Idle.hash) /\ Fine([Idle EXCEPT !.pc = "asleep"].hash)
      BY DEF Idle
    <2>4. ASSUME NEW a \in HashAnswers, Falls(a) PROVE Fine(GetBestBlockHash(a))
      <3>1. a # "best"
        BY <2>4 DEF Falls
      <3>2. FinalHash(HashAt(headFinal))
        <4>1. headFinal \in 0..headFinal
          BY DEF NodeInv, Height
        <4> QED BY <4>1 DEF FinalHash
      <3> QED BY <3>1, <3>2 DEF GetBestBlockHash
    <2>5. CASE SubscribeNewBlocks \/ OnReorg \/ StopManager \/ OnReorgStarts \/ JoinDetector \/ JoinSubscriber
      BY <2>2, <2>3, <2>5 DEF SubscribeNewBlocks, OnReorg, StopManager, OnReorgStarts, JoinDetector, JoinSubscriber
    <2>6. ASSUME NEW a \in HashAnswers, FirstBlock(a)
          PROVE  /\ Fine(lastBest') /\ Fine(subscriber'.hash) /\ Fine(detector'.hash)
                 /\ \A i \in 1..Len(reorg') : FinalHash(reorg'[i])
      <3>1. Fine(GetBestBlockHash(a))
        BY <2>4, <2>6 DEF FirstBlock
      <3> HIDE DEF Fine
      <3> QED BY <2>2, <2>6, <3>1 DEF FirstBlock
    <2>7. ASSUME NEW h \in BestHeights, Subscribed(h) \/ SubscriberReports(h)
          PROVE  /\ Fine(lastBest') /\ Fine(subscriber'.hash) /\ Fine(detector'.hash)
                 /\ \A i \in 1..Len(reorg') : FinalHash(reorg'[i])
      BY <2>2, <2>3, <2>7 DEF Subscribed, SubscriberReports
    <2>8. ASSUME NEW a \in HashAnswers, SubscriberAsks(a) \/ DetectorAsks(a)
          PROVE  /\ Fine(lastBest') /\ Fine(subscriber'.hash) /\ Fine(detector'.hash)
                 /\ \A i \in 1..Len(reorg') : FinalHash(reorg'[i])
      <3>1. Falls(a) => Fine(GetBestBlockHash(a))
        BY <2>4
      <3> HIDE DEF Fine
      <3> QED BY <2>2, <2>3, <2>8, <3>1 DEF SubscriberAsks, DetectorAsks
    <2>9. ASSUME NEW h \in BestHeights, DetectReorg(h)
          PROVE  /\ Fine(lastBest') /\ Fine(subscriber'.hash) /\ Fine(detector'.hash)
                 /\ \A i \in 1..Len(reorg') : FinalHash(reorg'[i])
      <3>1. Fine(lastBest') /\ Fine(subscriber'.hash) /\ Fine(detector'.hash)
        BY <2>2, <2>3, <2>9 DEF DetectReorg
      <3>2. \A i \in 1..Len(reorg') : FinalHash(reorg'[i])
        <4>1. CASE ~ IsReorg(detector.hash, h)
          BY <2>2, <2>9, <4>1 DEF DetectReorg
        <4>2. CASE IsReorg(detector.hash, h)
          <5>1. reorg' = <<lastBest, detector.hash>>
            BY <2>9, <4>2 DEF DetectReorg
          <5>2. FinalHash(lastBest) /\ FinalHash(detector.hash)
            BY <2>2, <4>2 DEF IsReorg
          <5>3. Len(reorg') = 2 /\ reorg'[1] = lastBest /\ reorg'[2] = detector.hash
            BY <5>1
          <5>4. \A i \in 1..Len(reorg') : i = 1 \/ i = 2
            BY <5>3
          <5> QED BY <5>2, <5>3, <5>4
        <4> QED BY <4>1, <4>2
      <3> QED BY <3>1, <3>2
    <2> HIDE DEF Fine
    <2> QED BY <1>2, <2>5, <2>6, <2>7, <2>8, <2>9 DEF ManagerJoins, SubscriberStep, DetectorStep
  <1> QED BY <1>1, <1>2 DEF BlockMonitorNext

(* A step of the StateMonitor: its new record must be sound. *)
LEMMA TrackerMoves ==
    ASSUME NodeInv, UNCHANGED nodeVars, NEW r \in Trackers, tracker' = r,
           trackerCall' \in {"none", "stop", "chain", "balance", "contract"},
           ~ r.on /\ trackerCall' = "none" => r.pc = "off",
           r.since <= retreats,
           r.pc = "asked" /\ r.of = "chain" /\ r.since = retreats => r.hash[1] \in 0..Height,
           r.event.of = "chain" /\ ~ r.event.torn => r.event.height >= r.event.hash[1]
    PROVE  TrackerInv'
  BY DEF TrackerInv, TrackerQuiet, nodeVars, Height

(* StateMonitor (monitoring_finality.cpp:450-635). *)
LEMMA TrackerSafe ==
    ASSUME NodeInv, TrackerInv, StateMonitorNext, UNCHANGED nodeVars
    PROVE  TrackerInv'
  <1>1. CASE UNCHANGED stateMonitorVars
    BY <1>1 DEF TrackerInv, TrackerQuiet, stateMonitorVars, nodeVars, Height
  <1>2. PICK c \in Trackers :
          /\ c = tracker
          /\ ~ c.on /\ trackerCall = "none" => c.pc = "off"
          /\ c.since <= retreats
          /\ c.pc = "asked" /\ c.of = "chain" /\ c.since = retreats => c.hash[1] \in 0..Height
          /\ c.event.of = "chain" /\ ~ c.event.torn => c.event.height >= c.event.hash[1]
    BY DEF TrackerInv, TrackerQuiet
  <1>3. /\ retreats \in Nat /\ nonce \in Nat /\ Height \in Nat
        /\ trackerCall \in {"none", "stop", "chain", "balance", "contract"}
    BY DEF NodeInv, TrackerInv, Height
  <1>4. PICK n : n = NoTracker
    OBVIOUS
  <1>5. /\ n \in Trackers /\ n.pc = "off" /\ n.since = 0 /\ n.event.of = "none"
    BY <1>4 DEF NoTracker, Trackers, NoEvent, Events, NoHash
  <1>6. ASSUME NEW what \in {"stop", "chain", "balance", "contract"}, BeginTracker(what)
        PROVE  TrackerInv'
    <2>1. PICK r : r = [c EXCEPT !.on = FALSE]
      OBVIOUS
    <2>2. /\ r \in Trackers /\ r.pc = c.pc /\ r.since = c.since /\ r.event = c.event
          /\ r.of = c.of /\ r.hash = c.hash
      BY <2>1 DEF Trackers
    <2>3. tracker' = r /\ trackerCall' = what
      BY <1>2, <1>6, <2>1 DEF BeginTracker
    <2> QED BY <1>2, <1>6, <2>2, <2>3, TrackerMoves
  <1>7. CASE TrackerJoined
    <2>1. CASE trackerCall = "stop"
      <3>1. tracker' = n /\ trackerCall' = "none"
        BY <1>4, <1>7, <2>1 DEF TrackerJoined
      <3>2. n.since <= retreats
        BY <1>3, <1>5
      <3> QED BY <1>5, <3>1, <3>2, TrackerMoves
    <2>2. CASE trackerCall # "stop"
      <3>1. PICK p \in {"asleep", "awake"} :
              /\ tracker' = [n EXCEPT !.on = TRUE, !.of = trackerCall, !.pc = p]
              /\ trackerCall' = "none"
        BY <1>4, <1>7, <2>2 DEF TrackerJoined
      <3>2. PICK t \in {"chain", "balance", "contract"} : t = trackerCall
        BY <1>3, <1>7, <2>2 DEF TrackerJoined
      <3>3. PICK r : r = [n EXCEPT !.on = TRUE, !.of = t, !.pc = p]
        OBVIOUS
      <3>4. /\ r \in Trackers /\ r.on = TRUE /\ r.pc = p /\ r.since = n.since /\ r.event = n.event
        BY <1>5, <3>3 DEF Trackers
      <3>5. r.since <= retreats
        BY <1>3, <1>5, <3>4
      <3>6. tracker' = r
        BY <3>1, <3>2, <3>3
      <3> QED BY <1>5, <3>1, <3>4, <3>5, <3>6, TrackerMoves
    <2> QED BY <2>1, <2>2
  <1>8. CASE TrackerWakes
    <2>1. PICK p \in {"awake", "off"} :
            tracker' = [c EXCEPT !.pc = p] /\ c.pc # "off" /\ trackerCall' = trackerCall
      BY <1>2, <1>8 DEF TrackerWakes
    <2>2. PICK r : r = [c EXCEPT !.pc = p]
      OBVIOUS
    <2>3. r \in Trackers /\ r.pc = p /\ r.on = c.on /\ r.since = c.since /\ r.event = c.event
      BY <2>2 DEF Trackers
    <2> QED BY <1>2, <1>3, <2>1, <2>2, <2>3, TrackerMoves
  <1>9. ASSUME NEW ok \in BOOLEAN, TrackerAsks(ok)
        PROVE  TrackerInv'
    <2>1. c.pc = "awake" /\ trackerCall' = trackerCall
      BY <1>2, <1>9 DEF TrackerAsks
    <2>2. CASE ok
      <3>1. PICK h \in Seq(Nat) : h = HashAt(Height) /\ h[1] = Height
        BY <1>3, HashIsHash
      <3>2. PICK r : r = [c EXCEPT !.pc = "asked", !.hash = h, !.since = retreats]
        OBVIOUS
      <3>3. /\ r \in Trackers /\ r.on = c.on /\ r.since = retreats /\ r.event = c.event /\ r.hash = h
        BY <1>3, <3>2 DEF Trackers
      <3>4. tracker' = r
        BY <1>2, <1>9, <2>2, <3>1, <3>2 DEF TrackerAsks
      <3>5. r.since <= retreats /\ r.hash[1] \in 0..Height
        BY <1>3, <3>1, <3>3
      <3> QED BY <1>2, <1>3, <2>1, <3>3, <3>4, <3>5, TrackerMoves
    <2>3. CASE ~ ok
      <3>1. PICK p \in {"asleep", "asked"} :
              /\ tracker' = [c EXCEPT !.pc = p, !.hash = NoHash]
              /\ c.of = "chain" => p = "asleep"
        BY <1>2, <1>9, <2>3 DEF TrackerAsks
      <3>2. PICK h \in Seq(Nat) : h = NoHash
        <4>1. << >> \in Seq(Nat)
          OBVIOUS
        <4> QED BY <4>1, Zenon DEF NoHash
      <3>3. PICK r : r = [c EXCEPT !.pc = p, !.hash = h]
        OBVIOUS
      <3>4. /\ r \in Trackers /\ r.on = c.on /\ r.since = c.since /\ r.event = c.event
            /\ r.of = c.of /\ r.pc = p
        BY <3>3 DEF Trackers
      <3>5. tracker' = r
        BY <3>1, <3>2, <3>3
      <3> QED BY <1>2, <1>3, <2>1, <3>1, <3>4, <3>5, TrackerMoves
    <2> QED BY <2>2, <2>3
  <1>10. ASSUME NEW ok \in BOOLEAN, TrackerAsksBalance(ok)
         PROVE  TrackerInv'
    <2>1. c.pc = "awake" /\ c.of = "balance" /\ trackerCall' = trackerCall
      BY <1>2, <1>10 DEF TrackerAsksBalance
    <2>2. PICK b \in Nat : b = IF ok THEN nonce ELSE 0
      BY <1>3
    <2>3. PICK h \in Seq(Nat) : h = <<b>>
      <3>1. <<b>> \in Seq(Nat)
        BY <2>2
      <3> QED BY <3>1, Zenon
    <2>4. PICK r : r = [c EXCEPT !.pc = "asked", !.hash = h]
      OBVIOUS
    <2>5. /\ r \in Trackers /\ r.on = c.on /\ r.since = c.since /\ r.event = c.event
          /\ r.of = c.of
      BY <2>4 DEF Trackers
    <2>6. tracker' = r
      BY <1>2, <1>10, <2>2, <2>3, <2>4 DEF TrackerAsksBalance
    <2> QED BY <1>2, <1>3, <2>1, <2>5, <2>6, TrackerMoves
  <1>11. ASSUME NEW ok \in BOOLEAN, TrackerReports(ok)
         PROVE  TrackerInv'
    <2>1. c.pc = "asked" /\ trackerCall' = trackerCall /\ c.event \in Events
      BY <1>2, <1>11 DEF TrackerReports, Trackers
    <2>2. PICK p \in {"asleep", "off"} : p = IF c.on THEN "asleep" ELSE "off"
      OBVIOUS
    <2>3. PICK k \in Nat : k = IF c.of = "chain" THEN Height ELSE 0
      BY <1>3
    <2>4. PICK b \in BOOLEAN : b = (retreats # c.since)
      OBVIOUS
    <2>5. PICK e : e = [of |-> c.of, hash |-> c.hash, height |-> k, torn |-> b]
      OBVIOUS
    <2>6. /\ e \in Events /\ e.of = c.of /\ e.hash = c.hash /\ e.height = k /\ e.torn = b
      BY <2>5 DEF Events, Trackers
    <2>7. e.of = "chain" /\ ~ e.torn => e.height >= e.hash[1]
      <3> SUFFICES ASSUME c.of = "chain", ~ b PROVE k >= c.hash[1]
        BY <2>6
      <3>1. c.since = retreats
        BY <2>4
      <3>2. c.hash[1] \in 0..Height /\ k = Height
        BY <1>2, <2>1, <2>3, <3>1
      <3>3. c.hash \in Seq(Nat)
        BY DEF Trackers
      <3> QED BY <1>3, <3>2, <3>3
    <2>8. PICK v \in {e, c.event} : tracker' = [c EXCEPT !.pc = p, !.event = v]
      BY <1>2, <1>11, <2>2, <2>3, <2>4, <2>5 DEF TrackerReports
    <2>9. v \in Events /\ (v.of = "chain" /\ ~ v.torn => v.height >= v.hash[1])
      BY <1>2, <2>1, <2>6, <2>7
    <2>10. PICK r : r = [c EXCEPT !.pc = p, !.event = v]
      OBVIOUS
    <2>11. r \in Trackers /\ r.on = c.on /\ r.since = c.since /\ r.event = v /\ r.pc = p
      BY <2>9, <2>10 DEF Trackers
    <2> QED BY <1>2, <1>3, <2>1, <2>2, <2>8, <2>9, <2>10, <2>11, TrackerMoves
  <1> QED BY <1>1, <1>6, <1>7, <1>8, <1>9, <1>10, <1>11 DEF StateMonitorNext, StopStateMonitor, TrackerStep

(* The chain moves on, the monitors of blocks and of state do nothing. *)
LEMMA ChainMonitorsStay ==
    ASSUME NodeInv, BlockMonitorInv, TrackerInv, NodeMoves \/ AccountActs,
           UNCHANGED <<blockMonitorVars, stateMonitorVars>>
    PROVE  NodeInv' /\ BlockMonitorInv' /\ TrackerInv'
  <1>1. /\ NodeInv' /\ retreats <= retreats' /\ (retreats' = retreats => Height <= Height')
        /\ \A hash : FinalHash(hash) => FinalHash(hash)'
    BY NodeStep
  <1>2. BlockMonitorInv'
    <2>1. /\ FinalHash(lastBest) => FinalHash(lastBest)'
          /\ FinalHash(subscriber.hash) => FinalHash(subscriber.hash)'
          /\ FinalHash(detector.hash) => FinalHash(detector.hash)'
          /\ \A i \in 1..Len(reorg) : FinalHash(reorg[i]) => FinalHash(reorg[i])'
      BY <1>1 DEF blockMonitorVars, FinalHash, HashAt
    <2> QED BY <2>1 DEF BlockMonitorInv, blockMonitorVars
  <1>3. TrackerInv'
    <2>1. /\ retreats \in Nat /\ retreats' \in Nat /\ Height \in Nat /\ Height' \in Nat
          /\ tracker.since \in Nat /\ tracker.hash \in Seq(Nat)
      BY <1>1 DEF NodeInv, TrackerInv, Trackers, Height
    <2>2. tracker.since <= retreats'
      BY <1>1, <2>1 DEF TrackerInv
    <2>3. ASSUME tracker.pc = "asked", tracker.of = "chain", tracker.since = retreats'
          PROVE  tracker.hash[1] \in 0..Height'
      <3>1. retreats' = retreats
        BY <1>1, <2>1, <2>3 DEF TrackerInv
      <3>2. tracker.hash[1] \in 0..Height /\ Height <= Height'
        BY <1>1, <2>3, <3>1 DEF TrackerInv
      <3> HIDE DEF Height
      <3> QED BY <2>1, <3>2
    <2> QED BY <2>2, <2>3 DEF TrackerInv, TrackerQuiet, stateMonitorVars
  <1> QED BY <1>1, <1>2, <1>3

LEMMA MonitorsInit == Init => MonitorsInv
  <1> SUFFICES ASSUME Init PROVE MonitorsInv
    OBVIOUS
  <1>1. HeightsTypeOK
    BY MaxHeightAssumption DEF Init, HeightsInit, HeightsTypeOK
  <1>2. TxMonitorInv
    <2>1. worker \in [Workers -> {NoWorker(t) : t \in Txs}] /\ "none" \in Positions
      BY DEF Init, TxMonitorInit, Positions
    <2>2. \A n \in {NoWorker(t) : t \in Txs} : n \in WorkerRecords /\ n.at = "none"
      BY <2>1, NoWorkerRecord
    <2>3. worker \in [Workers -> WorkerRecords] /\ \A w \in Workers : worker[w].at = "none"
      BY <2>1, <2>2
    <2>4. PICK s : s = [status |-> "NONE", height |-> 0, exact |-> TRUE]
      OBVIOUS
    <2>5. s \in [status : TxStates, height : 0..MaxHeight, exact : BOOLEAN] /\ s.height = 0
      BY <2>4, MaxHeightAssumption DEF TxStates
    <2>6. tx_status = [t \in Txs |-> s] /\ monitoring = FALSE /\ stopping = FALSE
      BY <2>4 DEF Init, TxMonitorInit
    <2>7. TxMonitorTypeOK
      BY <2>3, <2>5, <2>6 DEF TxMonitorTypeOK, WorkerRecords
    <2>8. finalized \in Nat
      BY <1>1, MaxHeightAssumption DEF HeightsTypeOK
    <2>9. StoppedMeansQuiet /\ ReportedHeightIsFinal
      <3>1. \A t \in Txs : tx_status[t].height <= finalized
        <4>1. \A t \in Txs : tx_status[t] = s
          BY <2>6
        <4>2. s.height <= finalized
          BY <2>5, <2>8
        <4> QED BY <4>1, <4>2
      <3> QED BY <2>3, <3>1 DEF StoppedMeansQuiet, ReportedHeightIsFinal
    <2> QED BY <2>3, <2>7, <2>9 DEF TxMonitorInv
  <1>3. FinalizationInv
    <2>1. 0 \in 0..MaxHeight /\ 0 \in 0..MaxTurns
      BY MaxHeightAssumption, MaxTurnsAssumption
    <2>2. PICK n : n = NoWaiter
      OBVIOUS
    <2>3. n \in Waits /\ n.verdict = FALSE
      BY <2>1, <2>2 DEF Waits, NoWaiter
    <2> QED BY <2>1, <2>2, <2>3
        DEF Init, FinalizationInit, FinalizationInv, FinalizationTypeOK, WaiterTrueMeansFinalized, Waits
  <1>4. AwaitInv
    <2>1. 0 \in 0..(MaxHeight + 1)
      BY MaxHeightAssumption
    <2>2. PICK n : n = NoAwaiter
      OBVIOUS
    <2>3. n \in Awaits /\ n.verdict = FALSE
      BY <2>1, <2>2 DEF Awaits, NoAwaiter
    <2> QED BY <2>2, <2>3 DEF Init, AwaiterInit, AwaitInv, AwaiterTypeOK, AwaitedMeansFinalized, Awaits
  <1>5. NodeInv
    BY DEF Init, ChainMonitorInit, NodeInv, Height
  <1>6. BlockMonitorInv
    BY DEF Init, ChainMonitorInit, BlockMonitorInv, Idle
  <1>7. TrackerInv
    <2>1. /\ tracker \in Trackers /\ tracker.pc = "off" /\ tracker.event.of = "none" /\ tracker.since = 0
          /\ trackerCall = "none" /\ retreats = 0
      BY DEF Init, ChainMonitorInit, NoTracker, NoEvent, Trackers, Events, NoHash
    <2> QED BY <2>1 DEF TrackerInv, TrackerQuiet
  <1> QED BY <1>1, <1>2, <1>3, <1>4, <1>5, <1>6, <1>7 DEF MonitorsInv

LEMMA MonitorsStep == MonitorsInv /\ [Next]_monitorsVars => MonitorsInv'
  <1> SUFFICES ASSUME MonitorsInv, [Next]_monitorsVars PROVE MonitorsInv'
    OBVIOUS
  <1>1. /\ HeightsTypeOK /\ TxMonitorInv /\ FinalizationInv /\ AwaitInv
        /\ NodeInv /\ BlockMonitorInv /\ TrackerInv
    BY DEF MonitorsInv
  <1>2. ASSUME UNCHANGED chainMonitorVars PROVE NodeInv' /\ BlockMonitorInv' /\ TrackerInv'
    BY <1>1, <1>2 DEF chainMonitorVars, nodeVars, blockMonitorVars, stateMonitorVars, NodeInv, Height,
       BlockMonitorInv, TrackerInv, TrackerQuiet, FinalHash, HashAt
  <1>3. ASSUME UNCHANGED heightsVars PROVE HeightsTypeOK' /\ finalized <= finalized'
    BY <1>1, <1>3 DEF heightsVars, HeightsTypeOK
  <1>4. CASE TxNext
    <2>1. TxMonitorInv' /\ HeightsTypeOK' /\ finalized <= finalized'
      BY <1>1, <1>4, TxMonitorStep DEF TxNext
    <2> QED BY <1>1, <1>2, <1>4, <2>1, WaitsStay DEF TxNext, MonitorsInv
  <1>5. CASE FinalityNext
    <2>1. FinalizationInv' /\ HeightsTypeOK' /\ finalized <= finalized'
      BY <1>1, <1>5, FinalizationStep DEF FinalityNext
    <2> QED BY <1>1, <1>2, <1>5, <2>1, WaitsStay, TxMonitorStays DEF FinalityNext, MonitorsInv
  <1>6. CASE AwaitNext
    <2>1. AwaitInv' /\ HeightsTypeOK' /\ finalized <= finalized'
      BY <1>1, <1>6, AwaiterStep DEF AwaitNext
    <2> QED BY <1>1, <1>2, <1>6, <2>1, WaitsStay, TxMonitorStays DEF AwaitNext, MonitorsInv
  <1>7. CASE BlocksNext
    <2>1. HeightsTypeOK' /\ TxMonitorInv' /\ FinalizationInv' /\ AwaitInv'
      BY <1>1, <1>3, <1>7, WaitsStay, TxMonitorStays DEF BlocksNext
    <2>2. CASE (NodeMoves \/ AccountActs) /\ UNCHANGED <<blockMonitorVars, stateMonitorVars>>
      BY <1>1, <2>1, <2>2, ChainMonitorsStay DEF MonitorsInv
    <2>3. CASE UNCHANGED nodeVars
      <3>1. NodeInv'
        BY <1>1, <2>3 DEF NodeInv, nodeVars, Height
      <3>2. CASE BlockMonitorNext
        <4>1. UNCHANGED stateMonitorVars
          BY <3>2 DEF BlockMonitorNext
        <4>2. TrackerInv'
          BY <1>1, <2>3, <4>1 DEF TrackerInv, TrackerQuiet, stateMonitorVars, nodeVars, Height
        <4> QED BY <1>1, <2>1, <2>3, <3>1, <3>2, <4>2, BlockMonitorStep DEF MonitorsInv
      <3>3. CASE StateMonitorNext
        <4>1. UNCHANGED blockMonitorVars
          BY <3>3 DEF StateMonitorNext
        <4>2. BlockMonitorInv'
          BY <1>1, <2>3, <4>1 DEF BlockMonitorInv, blockMonitorVars, nodeVars, FinalHash, HashAt
        <4> QED BY <1>1, <2>1, <2>3, <3>1, <3>3, <4>2, TrackerSafe DEF MonitorsInv
      <3> QED BY <1>7, <3>2, <3>3 DEF BlocksNext
    <2> QED BY <1>7, <2>2, <2>3 DEF BlocksNext, BlockMonitorNext, StateMonitorNext
  <1>8. CASE UNCHANGED monitorsVars
    <2>1. /\ UNCHANGED heightsVars /\ UNCHANGED txMonitorVars /\ UNCHANGED finalizationVars
          /\ UNCHANGED awaiter /\ UNCHANGED chainMonitorVars
      BY <1>8 DEF monitorsVars
    <2> QED BY <1>1, <1>2, <1>3, <2>1, WaitsStay, TxMonitorStays DEF MonitorsInv
  <1> QED BY <1>4, <1>5, <1>6, <1>7, <1>8 DEF Next

LEMMA MonitorsInvariant == Spec => []MonitorsInv
  BY MonitorsInit, MonitorsStep, PTL DEF Spec

(* What any of the monitors reports as finalized stays finalized under     *)
(* every later reorganisation, unless the fallback to the best block       *)
(* answered (monitoring_finality.cpp:227-253, 347-508, 702, 775-792, 994,  *)
(* 1065).                                                                  *)
THEOREM FinalCorrect == Spec => []FinalStaysFinal
  <1>1. MonitorsInv => FinalStaysFinal
    <2> SUFFICES ASSUME MonitorsInv PROVE FinalStaysFinal
      OBVIOUS
    <2>1. ReportedHeightIsFinal /\ WaiterTrueMeansFinalized /\ AwaitedMeansFinalized
      BY DEF MonitorsInv, TxMonitorInv, FinalizationInv, AwaitInv
    <2>2. ASSUME ~ fellBack, NEW i \in 1..Len(reorg) PROVE OnChain(reorg[i]) /\ reorg[i][1] <= headFinal
      <3>1. PICK k \in 0..headFinal : reorg[i] = HashAt(k)
        BY <2>2 DEF MonitorsInv, BlockMonitorInv, FinalHash
      <3>2. k \in 0..Height /\ k <= Height /\ k <= headFinal
        BY <3>1 DEF MonitorsInv, NodeInv, Height
      <3>3. HashAt(k)[1] = k
        BY <3>2, HashIsHash DEF MonitorsInv
      <3> QED BY <3>1, <3>2, <3>3 DEF OnChain
    <2>3. ReportsNameFinalBlocks
      BY <2>2 DEF ReportsNameFinalBlocks, MonitorsInv, TrackerInv
    <2> QED BY <2>1, <2>3 DEF FinalStaysFinal
  <1> QED BY <1>1, MonitorsInvariant, PTL

(* After stop_monitoring(), of the TransactionMonitor or the StateMonitor, *)
(* no worker runs, and no earlier subscription outlives the call that      *)
(* replaced it (monitoring_finality.cpp:450-635, 746-894).                 *)
THEOREM QuietCorrect == Spec => []MonitorsQuiet
  <1>1. MonitorsInv => MonitorsQuiet
    BY DEF MonitorsInv, TxMonitorInv, TrackerInv, MonitorsQuiet
  <1> QED BY <1>1, MonitorsInvariant, PTL
=============================================================================
