--------------------------- MODULE ChainMonitors ---------------------------
(***************************************************************************)
(* BlockMonitor, StateMonitor and MonitoringManager's reorganisation       *)
(* thread (monitoring_finality.cpp).  The thread of subscribe_new_blocks() *)
(* and the one of on_reorg() share last_best_block_ and last_best_height_  *)
(* without a lock; each takes the block and the height from two requests.  *)
(* The node's chain is a sequence of branch numbers; the hash of a block   *)
(* is its height and its branch.                                           *)
(***************************************************************************)
EXTENDS Naturals, Sequences

CONSTANTS
    ChainHeight,    \* bound: length of the best chain
    MaxRetreats     \* bound: reorganisations

ASSUME ChainMonitorsAssumption == ChainHeight \in Nat /\ MaxRetreats \in Nat

VARIABLES
    branches, headFinal, retreats,      \* the node: best chain, finalized height, reorganisations so far
    nonce,                              \* system_accountNextIndex of the tracked account
    blockMonitoring, subscriber,             \* BlockMonitor: flag and thread
    reorgMonitoring, detector,          \* MonitoringManager: flag and thread
    lastBest, lastBestHeight,           \* shared by the two threads
    managerCall,                        \* what the caller is blocked in
    reorg, fellBack,                    \* history: the last reorganisation reported, old and new block; the best hash stood in for the head
    tracker, trackerCall                \* StateMonitor: flag, worker and its last event; the call that joins it

nodeVars == <<branches, headFinal, retreats, nonce>>
stateMonitorVars == <<tracker, trackerCall>>
blockMonitorVars == <<blockMonitoring, subscriber, reorgMonitoring, detector, lastBest, lastBestHeight, managerCall, reorg, fellBack>>
chainMonitorVars == <<nodeVars, blockMonitorVars, stateMonitorVars>>

NoHash == << >>
Idle == [pc |-> "off", hash |-> NoHash]
NoEvent == [of |-> "none", hash |-> NoHash, height |-> 0, torn |-> FALSE]
NoTracker == [on |-> FALSE, of |-> "none", pc |-> "off", hash |-> NoHash, since |-> 0, event |-> NoEvent]
Height == Len(branches)
HashAt(h) == <<h, IF h = 0 THEN 0 ELSE branches[h]>>
OnChain(hash) == hash[1] <= Height /\ HashAt(hash[1]) = hash

ChainMonitorInit ==
    /\ branches = << >> /\ headFinal = 0 /\ retreats = 0 /\ nonce = 0
    /\ blockMonitoring = FALSE /\ subscriber = Idle /\ reorgMonitoring = FALSE /\ detector = Idle
    /\ lastBest = NoHash /\ lastBestHeight = 0 /\ managerCall = "none"
    /\ reorg = << >> /\ fellBack = FALSE
    /\ tracker = NoTracker /\ trackerCall = "none"
-----------------------------------------------------------------------------
(* The node. *)
ChainGrows ==
    /\ Height < ChainHeight
    /\ branches' = Append(branches, retreats)
    /\ UNCHANGED <<headFinal, retreats, nonce>>

ChainRetreats ==
    /\ retreats < MaxRetreats
    /\ \E h \in headFinal..(Height - 1) : branches' = SubSeq(branches, 1, h)
    /\ retreats' = retreats + 1
    /\ UNCHANGED <<headFinal, nonce>>

HeadFinalizes ==
    /\ headFinal < Height
    /\ headFinal' = headFinal + 1
    /\ UNCHANGED <<branches, retreats, nonce>>

AccountActs ==
    /\ nonce < ChainHeight
    /\ nonce' = nonce + 1
    /\ UNCHANGED <<branches, headFinal, retreats>>

(* Faulty variant: the best block is asked for. *)
GetBestBlockHashOfTip(answer) == IF answer = "fails" THEN NoHash ELSE HashAt(Height)

(* get_best_block_hash(): the finalized head; the best block only when the *)
(* node has no head to name; and nothing when a request fails.             *)
GetBestBlockHash(answer) ==
    IF answer = "head" THEN HashAt(headFinal)
    ELSE IF answer = "best" THEN HashAt(Height)
    ELSE NoHash

HashAnswers == {"head", "best", "fails"}

(* get_best_block_height(): 0 when the request fails. *)
BestHeights == {Height, 0}

Falls(answer) == fellBack' = (fellBack \/ answer = "best")
-----------------------------------------------------------------------------
(* start_monitoring(), on_new_block(): subscribe_new_blocks() ends the     *)
(* thread there is, then asks once itself before it starts one.            *)
SubscribeNewBlocks ==
    /\ managerCall = "none"
    /\ blockMonitoring' = FALSE /\ managerCall' = "subscribe"
    /\ UNCHANGED <<subscriber, reorgMonitoring, detector, lastBest, lastBestHeight, reorg, fellBack>>

(* The block is kept before the height is asked for, so a detector that    *)
(* runs meanwhile compares with the height of the block before.            *)
FirstBlock(answer) ==
    /\ managerCall = "subscribe" /\ subscriber.pc = "off"
    /\ blockMonitoring' = TRUE /\ managerCall' = "firstBlock"
    /\ subscriber' = [pc |-> "first", hash |-> GetBestBlockHash(answer)]
    /\ lastBest' = IF GetBestBlockHash(answer) = NoHash THEN lastBest ELSE GetBestBlockHash(answer)
    /\ Falls(answer)
    /\ UNCHANGED <<reorgMonitoring, detector, lastBestHeight, reorg>>

Subscribed(height) ==
    /\ managerCall = "firstBlock"
    /\ managerCall' = "none"
    /\ subscriber' = [Idle EXCEPT !.pc = "asleep"]
    /\ lastBestHeight' = IF subscriber.hash = NoHash THEN lastBestHeight ELSE height
    /\ UNCHANGED <<blockMonitoring, reorgMonitoring, detector, lastBest, reorg, fellBack>>

SubscriberAsks(answer) ==
    /\ subscriber.pc = "asleep"
    /\ IF blockMonitoring
       THEN subscriber' = [pc |-> "asked", hash |-> GetBestBlockHash(answer)] /\ Falls(answer)
       ELSE subscriber' = Idle /\ UNCHANGED fellBack
    /\ UNCHANGED <<blockMonitoring, reorgMonitoring, detector, lastBest, lastBestHeight, managerCall, reorg>>

SubscriberReports(height) ==
    /\ subscriber.pc = "asked"
    /\ subscriber' = [Idle EXCEPT !.pc = "asleep"]
    /\ IF subscriber.hash \notin {lastBest, NoHash}
       THEN lastBest' = subscriber.hash /\ lastBestHeight' = height
       ELSE UNCHANGED <<lastBest, lastBestHeight>>
    /\ UNCHANGED <<blockMonitoring, reorgMonitoring, detector, managerCall, reorg, fellBack>>

OnReorg ==
    /\ managerCall = "none"
    /\ reorgMonitoring' = FALSE /\ managerCall' = "onReorg"
    /\ UNCHANGED <<blockMonitoring, subscriber, detector, lastBest, lastBestHeight, reorg, fellBack>>

OnReorgStarts ==
    /\ managerCall = "onReorg" /\ detector.pc = "off"
    /\ reorgMonitoring' = TRUE /\ managerCall' = "none"
    /\ detector' = [Idle EXCEPT !.pc = "asleep"]
    /\ UNCHANGED <<blockMonitoring, subscriber, lastBest, lastBestHeight, reorg, fellBack>>

DetectorAsks(answer) ==
    /\ detector.pc = "asleep"
    /\ IF reorgMonitoring
       THEN detector' = [pc |-> "asked", hash |-> GetBestBlockHash(answer)] /\ Falls(answer)
       ELSE detector' = Idle /\ UNCHANGED fellBack
    /\ UNCHANGED <<blockMonitoring, subscriber, reorgMonitoring, lastBest, lastBestHeight, managerCall, reorg>>

(* detect_reorg(): another block at no greater height is a reorganisation; *)
(* the abandoned block is the one last seen (ReorgHandler).                *)
IsReorg(hash, height) == lastBest # NoHash /\ hash \notin {NoHash, lastBest} /\ height <= lastBestHeight

DetectReorg(height) ==
    /\ detector.pc = "asked"
    /\ detector' = [Idle EXCEPT !.pc = "asleep"]
    /\ IF detector.hash # NoHash \/ lastBest = NoHash
       THEN lastBest' = detector.hash /\ lastBestHeight' = height
       ELSE UNCHANGED <<lastBest, lastBestHeight>>
    /\ reorg' = IF IsReorg(detector.hash, height) THEN <<lastBest, detector.hash>> ELSE reorg
    /\ UNCHANGED <<blockMonitoring, subscriber, reorgMonitoring, managerCall, fellBack>>

(* MonitoringManager::stop_monitoring(): first the one thread, then the    *)
(* other.                                                                  *)
StopManager ==
    /\ managerCall = "none"
    /\ reorgMonitoring' = FALSE /\ managerCall' = "stopReorg"
    /\ UNCHANGED <<blockMonitoring, subscriber, detector, lastBest, lastBestHeight, reorg, fellBack>>

JoinDetector ==
    /\ managerCall = "stopReorg" /\ detector.pc = "off"
    /\ blockMonitoring' = FALSE /\ managerCall' = "stopBlocks"
    /\ UNCHANGED <<subscriber, reorgMonitoring, detector, lastBest, lastBestHeight, reorg, fellBack>>

JoinSubscriber ==
    /\ managerCall = "stopBlocks" /\ subscriber.pc = "off"
    /\ managerCall' = "none"
    /\ UNCHANGED <<blockMonitoring, subscriber, reorgMonitoring, detector, lastBest, lastBestHeight, reorg, fellBack>>

ManagerJoins ==
    \/ OnReorgStarts \/ JoinDetector \/ JoinSubscriber
    \/ \E a \in HashAnswers : FirstBlock(a)
    \/ \E h \in BestHeights : Subscribed(h)
SubscriberStep == (\E a \in HashAnswers : SubscriberAsks(a)) \/ (\E h \in BestHeights : SubscriberReports(h))
DetectorStep == (\E a \in HashAnswers : DetectorAsks(a)) \/ (\E h \in BestHeights : DetectReorg(h))

NodeMoves == ChainGrows \/ ChainRetreats \/ HeadFinalizes

BlockMonitorNext ==
    \/ (NodeMoves /\ UNCHANGED <<blockMonitorVars, stateMonitorVars>>)
    \/ (SubscribeNewBlocks \/ OnReorg \/ StopManager \/ ManagerJoins \/ SubscriberStep \/ DetectorStep)
       /\ UNCHANGED <<nodeVars, stateMonitorVars>>
-----------------------------------------------------------------------------
(* StateMonitor: subscribe_state_changes(), track_balance() and            *)
(* track_contract_state() each stop and join the worker there is, and then *)
(* start their own.                                                        *)
BeginTracker(what) ==
    /\ trackerCall = "none"
    /\ trackerCall' = what
    /\ tracker' = [tracker EXCEPT !.on = FALSE]

StopStateMonitor == BeginTracker("stop")

(* Faulty variant: the worker is detached. *)
TrackerJoinedNot ==
    /\ trackerCall # "none"
    /\ trackerCall' = "none"
    /\ tracker' = IF trackerCall = "stop" THEN tracker
                  ELSE [NoTracker EXCEPT !.on = TRUE, !.of = trackerCall, !.pc = IF trackerCall = "chain" THEN "asleep" ELSE "awake"]

(* The subscription sleeps first, the trackers ask first. *)
TrackerJoined ==
    /\ trackerCall # "none" /\ tracker.pc = "off"
    /\ trackerCall' = "none"
    /\ tracker' = IF trackerCall = "stop" THEN NoTracker
                  ELSE [NoTracker EXCEPT !.on = TRUE, !.of = trackerCall, !.pc = IF trackerCall = "chain" THEN "asleep" ELSE "awake"]

TrackerWakes ==
    /\ tracker.pc = "asleep"
    /\ tracker' = [tracker EXCEPT !.pc = IF tracker.on THEN "awake" ELSE "off"]
    /\ UNCHANGED trackerCall

(* The subscription and the contract tracker ask for the best hash; for    *)
(* the tracker a request that fails is the empty hash, which it reports    *)
(* with the contract's name behind it.  since: reorganisations so far.     *)
TrackerAsks(ok) ==
    /\ tracker.pc = "awake" /\ tracker.of \in {"chain", "contract"}
    /\ tracker' = IF ok THEN [tracker EXCEPT !.pc = "asked", !.hash = HashAt(Height), !.since = retreats]
                  ELSE [tracker EXCEPT !.pc = IF tracker.of = "chain" THEN "asleep" ELSE "asked", !.hash = NoHash]
    /\ UNCHANGED trackerCall

(* track_balance() asks for the account's next index, 0 if that fails.     *)
TrackerAsksBalance(ok) ==
    /\ tracker.pc = "awake" /\ tracker.of = "balance"
    /\ tracker' = [tracker EXCEPT !.pc = "asked", !.hash = <<IF ok THEN nonce ELSE 0>>]
    /\ UNCHANGED trackerCall

(* Faulty variant: the subscription asks for the header before the hash. *)
TrackerReportsHeaderFirst(ok) ==
    /\ tracker.pc = "asked"
    /\ tracker' = [tracker EXCEPT !.pc = IF tracker.on THEN "asleep" ELSE "off",
                     !.event = IF tracker.on /\ ok /\ tracker.of = "chain" /\ HashAt(Height) # @.hash
                               THEN [of |-> "chain", hash |-> HashAt(Height), height |-> tracker.hash[1],
                                     torn |-> retreats # tracker.since]
                               ELSE @]
    /\ UNCHANGED trackerCall

(* Nothing is reported once the flag is cleared, twice in a row, or, of    *)
(* the chain, when the header cannot be had.  Only its event has a height. *)
TrackerReports(ok) ==
    /\ tracker.pc = "asked"
    /\ tracker' = [tracker EXCEPT !.pc = IF tracker.on THEN "asleep" ELSE "off",
                     !.event = IF tracker.on /\ (ok \/ tracker.of # "chain") /\ <<tracker.of, tracker.hash>> # <<@.of, @.hash>>
                               THEN [of |-> tracker.of, hash |-> tracker.hash, height |-> IF tracker.of = "chain" THEN Height ELSE 0,
                                     torn |-> retreats # tracker.since]
                               ELSE @]
    /\ UNCHANGED trackerCall

TrackerStep ==
    TrackerWakes \/ \E ok \in BOOLEAN : TrackerAsks(ok) \/ TrackerAsksBalance(ok) \/ TrackerReports(ok)

StateMonitorNext ==
    \/ (NodeMoves \/ AccountActs) /\ UNCHANGED <<blockMonitorVars, stateMonitorVars>>
    \/ /\ \/ StopStateMonitor \/ TrackerJoined \/ TrackerStep
          \/ \E what \in {"chain", "balance", "contract"} : BeginTracker(what)
       /\ UNCHANGED <<nodeVars, blockMonitorVars>>
-----------------------------------------------------------------------------
(* get_best_block_hash() names the finalized head, which no reorganisation *)
(* retracts: as long as the node names one, every reorganisation the       *)
(* detector reports is finality moving on while the tip stood still, and   *)
(* both blocks it names are on the chain for good.  And a state event's    *)
(* height is not below the block it names unless the chain retreated       *)
(* between its two requests (monitoring_finality.cpp:347-420, 450-508).    *)
ReportsNameFinalBlocks ==
    /\ ~fellBack => \A i \in 1..Len(reorg) : OnChain(reorg[i]) /\ reorg[i][1] <= headFinal
    /\ tracker.event.of = "chain" /\ ~tracker.event.torn => tracker.event.height >= tracker.event.hash[1]

(* When a call of the StateMonitor has returned, no worker runs but the    *)
(* one it started: no callback of an earlier subscription is made any      *)
(* more, although workers look at the flag only between requests (450-635).*)
TrackerQuiet == ~tracker.on /\ trackerCall = "none" => tracker.pc = "off"

(* MonitoringManager::stop_monitoring(), on_reorg() and on_new_block()     *)
(* come back from the joins they start with (monitoring_finality.cpp:      *)
(* 1098-1140).                                                             *)
ManagerCallReturns == managerCall # "none" ~> managerCall = "none"

(* So do the calls of the StateMonitor, which join a worker that looks at  *)
(* its flag only between its requests (450-635).                           *)
TrackerCallReturns == trackerCall # "none" ~> trackerCall = "none"
=============================================================================
