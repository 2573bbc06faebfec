----------------------------- MODULE GrpcServer -----------------------------
(***************************************************************************)
(* MidnightGrpcServer (grpc_server.cpp): the handler threads of the gRPC   *)
(* library, the mutex mu_ most of them hold while they ask the node or the *)
(* indexer, the injected dependencies, and shutdown(), which keeps mu_     *)
(* while it waits for the handlers.  A handler that holds mu_ throughout   *)
(* is one step; the handlers of contracts take no lock and are two.        *)
(***************************************************************************)
EXTENDS Naturals, Sequences, FiniteSets

CONSTANTS
    Handlers,     \* handler threads
    GrpcTx,       \* the transaction submitted and watched
    TopBlock,     \* bound: height of the chain
    MaxForks,     \* bound: retracted blocks
    MaxCalls      \* bound: calls accepted

ASSUME GrpcServerAssumption == TopBlock \in Nat /\ MaxForks \in Nat /\ MaxCalls \in Nat

VARIABLES
    best,         \* node: the fork of the best block at each height
    seen,         \* indexer: blocks indexed, perhaps behind the node
    held,         \* node: whether it took GrpcTx
    forks,
    deps,         \* node_rpc_, indexer_, contract_mgr_ that were injected
    server,       \* "new", "up", "closing" (mu_ held), "draining" (in Wait()), "down"
    calls,
    handler       \* [phase, op, arg, answer, told] of each handler thread

grpcServerVars == <<best, seen, held, forks, deps, server, calls, handler>>
chainVars == <<best, seen, held, forks>>

NoBlock == <<0, 0>>
Unasked == [status |-> "none", success |-> FALSE, height |-> 0, hash |-> NoBlock, count |-> 0]
Free == [phase |-> "free", op |-> "none", arg |-> 0, answer |-> Unasked, told |-> {}]

GrpcServerInit ==
    /\ best = <<1>> /\ seen = 1 /\ held = FALSE /\ forks = 0
    /\ deps = {} /\ server = "new" /\ calls = 0
    /\ handler = [h \in Handlers |-> Free]

Hash(h) == IF h \in 1..Len(best) THEN <<h, best[h]>> ELSE NoBlock

(* External: the chain grows, its best block is replaced, the indexer follows. *)
GrpcChainMoves ==
    /\ \/ Len(best) < TopBlock /\ best' = Append(best, 1) /\ UNCHANGED <<seen, forks>>
       \/ /\ forks < MaxForks /\ forks' = forks + 1 /\ seen < Len(best)
          /\ best' = [best EXCEPT ![Len(best)] = @ + 1] /\ UNCHANGED seen
       \/ seen < Len(best) /\ seen' = seen + 1 /\ UNCHANGED <<best, forks>>
    /\ UNCHANGED <<held, deps, server, calls, handler>>
-----------------------------------------------------------------------------
(* set_node_rpc(), set_indexer(), set_contract_manager(): each takes mu_,  *)
(* which shutdown() holds until it returns.                                *)
MutexFree == server \notin {"closing", "draining"}

Inject(dep) ==
    /\ MutexFree
    /\ deps' = deps \cup {dep}
    /\ UNCHANGED <<chainVars, server, calls, handler>>

(* start(): BuildAndStart() may fail, and a running server is left alone.  *)
StartServer ==
    /\ MutexFree
    /\ server \in {"new", "down"}
    /\ server' \in {"up", server}
    /\ UNCHANGED <<chainVars, deps, calls, handler>>

(* shutdown(): running_ is cleared under mu_, then Shutdown() refuses new  *)
(* calls and Wait() stays until every handler has returned.                *)
ShutdownServer ==
    /\ server = "up"
    /\ server' = "closing"
    /\ UNCHANGED <<chainVars, deps, calls, handler>>

ShutdownRefuses ==
    /\ server = "closing"
    /\ server' = "draining"
    /\ UNCHANGED <<chainVars, deps, calls, handler>>

(* Faulty variant: reset() without Wait(). *)
ShutdownReturnsAtOnce ==
    /\ server = "draining"
    /\ server' = "down"
    /\ UNCHANGED <<chainVars, deps, calls, handler>>

ShutdownReturns ==
    /\ server = "draining"
    /\ \A h \in Handlers : handler[h].phase = "free"
    /\ server' = "down"
    /\ UNCHANGED <<chainVars, deps, calls, handler>>
-----------------------------------------------------------------------------
Locked == {"SubmitTransaction", "QueryTransaction", "QueryUTXOs", "GetBlockByHeight", "GetBlockByHash",
           "GetBlock", "GetProtocolParams", "GetNodeInfo", "GetBalance"}
Unlocked == {"DeployContract", "CallContract"}
Streams == {"SubscribeBlocks", "WatchTransactions"}

(* A call reaches a handler thread; arg is a height, or the height of the  *)
(* block whose hash is asked for, and 0 for empty bytes.                   *)
Requests(op) ==
    IF op = "GetBlockByHeight" THEN 0..TopBlock ELSE IF op = "GetBlockByHash" THEN 1..Len(best) ELSE IF op \in Unlocked THEN {0, 1} ELSE {0}

Accept(h, op, arg) ==
    /\ server \in {"up", "closing"} /\ handler[h].phase = "free" /\ calls < MaxCalls
    /\ calls' = calls + 1
    /\ handler' = [handler EXCEPT ![h] = [Free EXCEPT !.phase = "waiting", !.op = op, !.arg = arg]]
    /\ UNCHANGED <<chainVars, deps, server>>

Ok == [Unasked EXCEPT !.status = "OK"]
Refused == [Unasked EXCEPT !.status = "FAILED_PRECONDITION"]

(* What the injected node answers to submit_transaction(): the hash, a     *)
(* refusal, or nothing although it took the transaction.  The handler      *)
(* turns an exception into success = false.                                *)
SubmitTransaction ==
    IF "node" \notin deps THEN {<<Ok, held>>}
    ELSE {<<[Ok EXCEPT !.success = TRUE], TRUE>>, <<Ok, held>>, <<Ok, TRUE>>}

(* QueryTransaction(): the indexer's block, and a node that always throws  *)
(* from get_transaction().                                                 *)
QueryTransaction ==
    {Ok} \cup IF "indexer" \in deps /\ held
              THEN {[Ok EXCEPT !.height = h, !.hash = Hash(h), !.success = TRUE] : h \in 1..seen} ELSE {}

(* QueryUTXOs(): an indexer that throws or is missing looks like one that  *)
(* knows no coin.                                                          *)
QueryUTXOs == {Ok} \cup IF "indexer" \in deps /\ held THEN {[Ok EXCEPT !.count = 1]} ELSE {}

(* GetBlock(): the height answered is the indexer's, and the one asked for *)
(* when it knows no such block.  query_block(0) is the indexer's tip.      *)
FromIndexer(h) == [Ok EXCEPT !.height = IF h \in 1..seen THEN h ELSE 0, !.hash = IF h \in 1..seen THEN Hash(h) ELSE NoBlock]

(* Faulty variant: the height asked for is answered with the indexer's hash. *)
BlockByHeightAsAsked(arg) ==
    IF "indexer" \in deps
    THEN IF arg = 0 THEN [FromIndexer(seen) EXCEPT !.height = arg] ELSE [FromIndexer(arg) EXCEPT !.height = arg]
    ELSE [Ok EXCEPT !.height = arg, !.hash = Hash(arg)]

BlockByHeight(arg) ==
    IF "indexer" \in deps
    THEN IF arg = 0 THEN FromIndexer(seen) ELSE [FromIndexer(arg) EXCEPT !.height = arg]
    ELSE [Ok EXCEPT !.height = arg, !.hash = Hash(arg)]

BlockByHash(arg) ==
    IF "indexer" \in deps /\ arg \in 1..seen THEN FromIndexer(arg) ELSE [Ok EXCEPT !.hash = Hash(arg)]

TipBlock ==
    IF "indexer" \in deps THEN FromIndexer(seen) ELSE [Ok EXCEPT !.height = Len(best), !.hash = Hash(Len(best))]

GetBlock(op, arg) ==
    IF deps \cap {"node", "indexer"} = {} THEN {Ok}
    ELSE {Ok, IF op = "GetBlockByHeight" THEN BlockByHeight(arg) ELSE IF op = "GetBlockByHash" THEN BlockByHash(arg) ELSE TipBlock}

(* GetProtocolParams() and GetNodeInfo() answer OK whatever happened.      *)
NodeFacts == {Ok} \cup IF "node" \in deps THEN {[Ok EXCEPT !.success = TRUE]} ELSE {}

(* GetBalance(): every failure has a status of its own.                    *)
GetBalance == {Refused} \cup IF "indexer" \in deps THEN {[Ok EXCEPT !.count = IF held THEN 1 ELSE 0, !.success = TRUE]} ELSE {}

Answers(op, arg) ==
    CASE op = "SubmitTransaction" -> SubmitTransaction
      [] op = "QueryTransaction" -> {<<a, held>> : a \in QueryTransaction}
      [] op = "QueryUTXOs" -> {<<a, held>> : a \in QueryUTXOs}
      [] op \in {"GetBlockByHeight", "GetBlockByHash", "GetBlock"} -> {<<a, held>> : a \in GetBlock(op, arg)}
      [] op \in {"GetProtocolParams", "GetNodeInfo"} -> {<<a, held>> : a \in NodeFacts}
      [] op = "GetBalance" -> {<<a, held>> : a \in GetBalance}

Serve(h) ==
    /\ handler[h].phase = "waiting" /\ handler[h].op \in Locked
    /\ MutexFree
    /\ \E a \in Answers(handler[h].op, handler[h].arg) :
        /\ handler' = [handler EXCEPT ![h].phase = "answered", ![h].answer = a[1]]
        /\ held' = a[2]
    /\ UNCHANGED <<best, seen, forks, deps, server, calls>>

(* DeployContract() and CallContract(): no lock; the manager must be there *)
(* and the bytes not empty before anything is submitted.                   *)
CheckContract(h) ==
    /\ handler[h].phase = "waiting" /\ handler[h].op \in Unlocked
    /\ handler' = [handler EXCEPT ![h] =
          IF "manager" \notin deps THEN [@ EXCEPT !.phase = "answered", !.answer = Refused]
          ELSE IF @.arg = 0 THEN [@ EXCEPT !.phase = "answered", !.answer = [Unasked EXCEPT !.status = "INVALID_ARGUMENT"]]
          ELSE [@ EXCEPT !.phase = "submitting"]]
    /\ UNCHANGED <<chainVars, deps, server, calls>>

SubmitContract(h) ==
    /\ handler[h].phase = "submitting"
    /\ \E ok \in BOOLEAN :
        /\ held' \in IF ok THEN {TRUE} ELSE {held, TRUE}
        /\ handler' = [handler EXCEPT ![h].phase = "answered",
                                      ![h].answer = [Unasked EXCEPT !.success = ok, !.status = IF ok THEN "OK" ELSE "INTERNAL"]]
    /\ UNCHANGED <<best, seen, forks, deps, server, calls>>

Returns(h) ==
    /\ handler[h].phase = "answered"
    /\ handler' = [handler EXCEPT ![h] = Free]
    /\ UNCHANGED <<chainVars, deps, server, calls>>
-----------------------------------------------------------------------------
(* SubscribeBlocks(): each poll takes mu_ and writes the tip of the node,  *)
(* the same one again if it has not moved.                                 *)
StreamTip(h) ==
    /\ handler[h].phase = "waiting" /\ handler[h].op = "SubscribeBlocks"
    /\ MutexFree
    /\ handler' = [handler EXCEPT ![h].phase = "sleeping",
                                  ![h].answer = IF "node" \in deps THEN [Ok EXCEPT !.height = Len(best), !.hash = Hash(Len(best))] ELSE @]
    /\ UNCHANGED <<chainVars, deps, server, calls>>

(* Faulty variant: seen_txs is not consulted. *)
StreamCoinsAgain(h) ==
    /\ handler[h].phase = "waiting" /\ handler[h].op = "WatchTransactions"
    /\ MutexFree
    /\ handler' = [handler EXCEPT ![h].phase = "sleeping",
                                  ![h].told = IF "indexer" \in deps /\ held THEN @ \cup {GrpcTx} ELSE @,
                                  ![h].answer = IF "indexer" \in deps /\ held THEN [@ EXCEPT !.count = @ + 1] ELSE @]
    /\ UNCHANGED <<chainVars, deps, server, calls>>

(* WatchTransactions(): the coins of the address whose transaction was not *)
(* written yet, each called final.                                         *)
StreamCoins(h) ==
    /\ handler[h].phase = "waiting" /\ handler[h].op = "WatchTransactions"
    /\ MutexFree
    /\ \E new \in {{}} \cup IF "indexer" \in deps /\ held THEN {{GrpcTx} \ handler[h].told} ELSE {} :
         handler' = [handler EXCEPT ![h].phase = "sleeping", ![h].told = @ \cup new,
                                    ![h].answer.count = @ + Cardinality(new)]
    /\ UNCHANGED <<chainVars, deps, server, calls>>

(* The 100 ms pauses between polls; IsCancelled() ends a stream only here, *)
(* so a handler that waits for mu_ cannot notice the cancellation.         *)
StreamWakes(h) ==
    /\ handler[h].phase = "sleeping"
    /\ handler' = [handler EXCEPT ![h].phase = "waiting"]
    /\ UNCHANGED <<chainVars, deps, server, calls>>

StreamCancelled(h) ==
    /\ handler[h].phase = "sleeping"
    /\ handler' = [handler EXCEPT ![h].phase = "answered"]
    /\ UNCHANGED <<chainVars, deps, server, calls>>

HandlerStep(h) ==
    \/ Serve(h) \/ CheckContract(h) \/ SubmitContract(h) \/ Returns(h)
    \/ StreamTip(h) \/ StreamCoins(h) \/ StreamWakes(h) \/ StreamCancelled(h)

GrpcServerNext ==
    \/ GrpcChainMoves \/ StartServer \/ ShutdownServer \/ ShutdownRefuses \/ ShutdownReturns
    \/ \E dep \in {"node", "indexer", "manager"} : Inject(dep)
    \/ \E h \in Handlers : HandlerStep(h) \/ \E op \in Locked \cup Unlocked \cup Streams, arg \in 0..TopBlock : arg \in Requests(op) /\ Accept(h, op, arg)
-----------------------------------------------------------------------------
(* What a caller of the server may rely on, whichever dependencies were    *)
(* injected when and however the chain moves: a block answered is the one  *)
(* at the height answered, except the height 0 of a block asked for by a   *)
(* hash the indexer does not know; success of SubmitTransaction(),         *)
(* DeployContract() and CallContract() means the node took the             *)
(* transaction; and a watched transaction is written to a stream once.     *)
GrpcAnswersTrue ==
    \A h \in Handlers : LET a == handler[h].answer IN
        /\ a.hash # NoBlock => a.hash[1] = a.height \/ (handler[h].op = "GetBlockByHash" /\ a.height = 0)
        /\ a.success /\ handler[h].op \in {"SubmitTransaction"} \cup Unlocked => held
        /\ handler[h].op = "WatchTransactions" => a.count = Cardinality(handler[h].told)

(* When shutdown() returned, no handler runs until the server is started   *)
(* again: the dependencies may be destroyed.                               *)
ShutdownMeansQuiet == server = "down" => \A h \in Handlers : handler[h].phase = "free"
=============================================================================
