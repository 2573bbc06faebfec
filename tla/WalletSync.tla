----------------------------- MODULE WalletSync -----------------------------
(***************************************************************************)
(* WalletFacade::sync(), serialize(), restore() and revert_transaction()   *)
(* (src/src/wallet/wallet_facade.cpp), over the indexer stream of          *)
(* SubscriptionClient.                                                     *)
(*                                                                         *)
(* sync() makes a RealtimeIndexerClient, resumes the stream after the last *)
(* applied transaction, waits until a progress message, an error or 20 s,  *)
(* and destroys the client, which joins its reader.  The reader's          *)
(* callbacks write the wallet's state meanwhile.  If that failed and the   *)
(* environment opts in, it scans every block over HTTP.                    *)
(*                                                                         *)
(* The callbacks capture locals that die before the client does; the model *)
(* has the outcome where writing them then does no harm.                   *)
(***************************************************************************)
EXTENDS SubscriptionClient

CONSTANTS FirstBlock,   \* first indexed block (609178 in the code)
          Registered,   \* coins registered for dust generation
          MaxCopies,    \* bound: copies of one coin in available_coins
          MaxForeign    \* bound: scans and reverts in the history of a wallet

ASSUME WalletAssumption ==
    /\ FirstBlock \in Nat \ {0}
    /\ FirstBlock + MaxTxs <= MaxFrom
    /\ Registered \subseteq 1..MaxTxs
    /\ MaxCopies \in Nat \ {0} /\ MaxForeign \in Nat

VARIABLES
    wallet,         \* the part of state_ that is serialized, see WalletRecord
    synced,
    phase,          \* where sync() is
    catchup_done, has_error, sync_ok,   \* sync()'s locals
    scan,           \* the HTTP scan: blocks left, coins found, last block
    saved           \* the serialized wallets kept by the application

syncVars   == <<phase, catchup_done, has_error, sync_ok, scan>>
walletVars == <<ledger, clientVars, wallet, synced, syncVars, saved>>

CoinIds == 1..MaxTxs
NoCoins == [c \in CoinIds |-> 0]

(* available: copies of each coin in available_coins; balance:             *)
(* balances["NIGHT"]; applied: progress.applied_id; dust:                  *)
(* registered_night_amount; foreign (history): how often a block scan or a *)
(* revert put coins in.  highest_transaction_id and is_connected, which     *)
(* nothing in the facade reads, are left out.                              *)
NewWallet == [available |-> NoCoins, balance |-> 0, applied |-> 0, dust |-> 0, foreign |-> 0]

(* The bound on scans and reverts. *)
MayGoForeign == \A w \in {wallet} \cup saved : w.foreign < MaxForeign

NoScan == [left |-> {}, found |-> {}, last |-> 0, tip |-> 0]

Values(available) == [c \in CoinIds |-> c * available[c]]
Total(available) == SumOver(Values(available), CoinIds)
RegisteredTotal(available) == SumOver(Values(available), Registered)
AddCopies(available, S) ==
    [c \in CoinIds |-> IF c \in S /\ available[c] < MaxCopies THEN available[c] + 1 ELSE available[c]]

WalletInit ==
    /\ ClientInit
    /\ wallet = NewWallet /\ synced = FALSE
    /\ phase = "idle"
    /\ catchup_done = FALSE /\ has_error = FALSE /\ sync_ok = FALSE
    /\ scan = NoScan
    /\ saved = {}
-----------------------------------------------------------------------------
(* The callbacks, run by the reader thread. *)

OnUtxo(id) ==
    LET added == AddCopies(wallet.available, IF ledger[id].creates THEN {id} ELSE {})
        kept  == [c \in CoinIds |-> IF c \in ledger[id].spends THEN 0 ELSE added[c]]
    IN  wallet' = [wallet EXCEPT !.available = kept, !.balance = Total(kept), !.applied = id]

(* A progress message ends the wait as soon as anything was applied, also  *)
(* when the transaction it names is still to come.                         *)
OnProgress(h) == catchup_done' = (catchup_done \/ (h > 0 /\ wallet.applied > 0))

OnConnectionLost == has_error' = TRUE /\ catchup_done' = TRUE

SyncHandlesUtxo ==
    /\ HandleUtxo("async")
    /\ OnUtxo(msg["async"].id)
    /\ UNCHANGED <<ledger, synced, syncVars, saved>>

SyncHandlesOther ==
    /\ HandleOther("async")
    /\ IF msg["async"].kind = "progress" THEN OnProgress(msg["async"].id)
                                         ELSE UNCHANGED catchup_done
    /\ UNCHANGED <<ledger, wallet, synced, phase, has_error, sync_ok, scan, saved>>

SyncReaderLeaves ==
    /\ Leave("async")
    /\ OnConnectionLost
    /\ UNCHANGED <<ledger, wallet, synced, phase, sync_ok, scan, saved>>

SyncReads ==
    /\ LoopTop("async") \/ Receive("async") \/ ReadFails("async")
    /\ UNCHANGED <<ledger, wallet, synced, syncVars, saved>>

ReaderRuns == SyncHandlesUtxo \/ SyncHandlesOther \/ SyncReaderLeaves \/ SyncReads
-----------------------------------------------------------------------------
(* sync() *)

SyncSubscribesFromStart ==
    /\ phase = "idle"
    /\ Begin("subscribe", 0, "connect")
    /\ phase' = "subscribing"
    /\ UNCHANGED <<ledger, wireVars, threadVars, balanceVars, subscribed_, wallet, synced,
                   catchup_done, has_error, sync_ok, scan, saved>>

(* The subscription resumes after the last applied transaction. *)
SyncSubscribes ==
    /\ phase = "idle"
    /\ Begin("subscribe", wallet.applied, "connect")
    /\ phase' = "subscribing"
    /\ UNCHANGED <<ledger, wireVars, threadVars, balanceVars, subscribed_, wallet, synced,
                   catchup_done, has_error, sync_ok, scan, saved>>

(* The steps of subscribe_resume() and of the client's destructor.  A      *)
(* connection that fails and disconnect() report to on_connection.         *)
SyncCalls ==
    /\ \/ CallSubscribes \/ CallStartsReader \/ CallConnects \/ CallJoins
       \/ CallConnectFails \/ CallUnsubscribes \/ CallStops
    /\ IF (call.at = "connect" /\ call'.at = "idle") \/ (connected_ /\ ~connected_')
         THEN OnConnectionLost ELSE UNCHANGED <<has_error, catchup_done>>
    /\ UNCHANGED <<ledger, wallet, synced, phase, sync_ok, scan, saved>>

(* std::thread() throws in start_async(), after running_ was set. *)
SyncThreadThrows ==
    /\ phase = "subscribing" /\ call.at = "spawn"
    /\ running_' = TRUE
    /\ call' = [call EXCEPT !.op = "stop", !.at = "unsubscribe"]
    /\ phase' = "throwing"
    /\ UNCHANGED <<ledger, wireVars, reader, msg, balanceVars, subscribed_, wallet, synced,
                   catchup_done, has_error, sync_ok, scan, saved>>

SubscribeReturns ==
    /\ phase = "subscribing" /\ call.at = "idle" /\ call.op = "subscribe"
    /\ IF call.ok THEN phase' = "waiting" /\ UNCHANGED call
                  ELSE phase' = "closing" /\ Begin("stop", 0, "unsubscribe")
    /\ UNCHANGED <<ledger, wireVars, threadVars, balanceVars, subscribed_, wallet, synced,
                   catchup_done, has_error, sync_ok, scan, saved>>

WaitEndsUntimed ==
    /\ phase = "waiting" /\ (catchup_done \/ has_error)
    /\ sync_ok' = (~has_error /\ wallet.applied > 0)
    /\ Begin("stop", 0, "unsubscribe")
    /\ phase' = "closing"
    /\ UNCHANGED <<ledger, wireVars, threadVars, balanceVars, subscribed_, wallet, synced,
                   catchup_done, has_error, scan, saved>>

(* The wait ends on catchup_done, has_error or after 20 s. *)
WaitEnds ==
    /\ phase = "waiting"
    /\ sync_ok' = (~has_error /\ wallet.applied > 0)
    /\ Begin("stop", 0, "unsubscribe")
    /\ phase' = "closing"
    /\ UNCHANGED <<ledger, wireVars, threadVars, balanceVars, subscribed_, wallet, synced,
                   catchup_done, has_error, scan, saved>>

(* The client is destroyed; the next sync() makes another. *)
ClientDestroyed ==
    /\ phase \in {"closing", "throwing"} /\ call.op = "stop" /\ call.at = "idle"
    /\ ClientReplaced
    /\ phase' = IF phase = "closing" THEN "fallback" ELSE "caught"
    /\ UNCHANGED <<ledger, wallet, synced, catchup_done, has_error, sync_ok, scan, saved>>

SkipScan ==
    /\ phase = "fallback"
    /\ phase' = "tally"
    /\ UNCHANGED <<ledger, clientVars, wallet, synced, catchup_done, has_error, sync_ok, scan, saved>>

(* The HTTP scan.  get_block_height() answers 0 when it fails.  The first  *)
(* block comes from the applied transaction id.                            *)
ScanBegins ==
    /\ phase = "fallback" /\ ~sync_ok /\ MayGoForeign
    /\ \E tip \in {0, FirstBlock + Len(ledger)} :
          LET from == IF wallet.applied > 0 THEN wallet.applied ELSE FirstBlock
          IN  scan' = [left |-> from..tip, found |-> {}, last |-> 0, tip |-> tip]
    /\ phase' = "scanning"
    /\ UNCHANGED <<ledger, clientVars, wallet, synced, catchup_done, has_error, sync_ok, saved>>

(* One of the 16 workers queries a block, in any order; a failed query is  *)
(* an empty block.  Transaction i is in block FirstBlock + i.              *)
ScanBlock ==
    /\ phase = "scanning"
    /\ \E b \in scan.left :
          \E got \in {{}, {c \in Unspent(ledger, Len(ledger)) : FirstBlock + c = b}} :
             scan' = [scan EXCEPT !.left = @ \ {b}, !.found = @ \cup got,
                                  !.last = IF got = {} THEN @ ELSE b]
    /\ UNCHANGED <<ledger, clientVars, wallet, synced, phase, catchup_done, has_error, sync_ok, saved>>

(* The coins found are appended, whether the wallet has them or not; the   *)
(* balance is that of the scan alone; applied_id becomes a block height.   *)
ScanEnds ==
    /\ phase = "scanning" /\ scan.left = {}
    /\ wallet' = [wallet EXCEPT !.available = AddCopies(@, scan.found),
                                !.balance = Worth(scan.found),
                                !.applied = IF scan.found # {} THEN scan.last ELSE scan.tip,
                                !.foreign = @ + 1]
    /\ sync_ok' = TRUE
    /\ scan' = NoScan
    /\ phase' = "tally"
    /\ UNCHANGED <<ledger, clientVars, synced, catchup_done, has_error, saved>>

LocalsDie ==
    catchup_done' = FALSE /\ has_error' = FALSE /\ sync_ok' = FALSE /\ scan' = NoScan

SyncEndsAdding ==
    /\ phase = "tally"
    /\ wallet' = [wallet EXCEPT !.dust = @ + RegisteredTotal(wallet.available)]
    /\ synced' = sync_ok
    /\ phase' = "idle" /\ LocalsDie
    /\ UNCHANGED <<ledger, clientVars, saved>>

(* The dust status and the synced flag, at the end of sync(). *)
SyncEnds ==
    /\ phase = "tally"
    /\ wallet' = [wallet EXCEPT !.dust = RegisteredTotal(wallet.available)]
    /\ synced' = sync_ok
    /\ phase' = "idle" /\ LocalsDie
    /\ UNCHANGED <<ledger, clientVars, saved>>

SyncCaught ==
    /\ phase = "caught"
    /\ synced' = FALSE
    /\ phase' = "idle" /\ LocalsDie
    /\ UNCHANGED <<ledger, clientVars, wallet, saved>>

SyncStep ==
    \/ SyncCalls \/ SyncThreadThrows \/ SubscribeReturns \/ WaitEnds \/ ClientDestroyed
    \/ SkipScan \/ ScanBegins \/ ScanBlock \/ ScanEnds \/ SyncEnds \/ SyncCaught
-----------------------------------------------------------------------------
(* The other operations on the wallet, between two syncs. *)

Serialize ==
    /\ phase = "idle"
    /\ saved' = {wallet}
    /\ UNCHANGED <<ledger, clientVars, wallet, synced, syncVars>>

(* restore(), in this process or after a crash. *)
Restore ==
    /\ phase = "idle"
    /\ \E w \in saved \cup {NewWallet} : wallet' = w
    /\ synced' = FALSE
    /\ UNCHANGED <<ledger, clientVars, syncVars, saved>>

(* revert_transaction() of a transfer that used coin c: c was never taken  *)
(* out of available_coins, yet it is pushed back; the balance is kept.     *)
Revert ==
    /\ phase = "idle" /\ MayGoForeign
    /\ \E c \in CoinIds :
          /\ wallet.available[c] > 0
          /\ wallet' = [wallet EXCEPT !.available = AddCopies(@, {c}), !.foreign = @ + 1]
    /\ UNCHANGED <<ledger, clientVars, synced, syncVars, saved>>

Outside ==
    \/ LedgerGrows /\ UNCHANGED <<clientVars, wallet, synced, syncVars, saved>>
    \/ /\ ConnectionDrops
       /\ UNCHANGED <<ledger, threadVars, balanceVars, subscribed_, call, wallet, synced, syncVars, saved>>

WalletNext ==
    \/ SyncSubscribes \/ SyncStep \/ ReaderRuns
    \/ Serialize \/ Restore \/ Revert
    \/ Outside

(* The caller's thread and the reader are scheduled; the wait has a        *)
(* timeout, and so has a read.                                             *)
WalletFairness == WF_walletVars(SyncStep) /\ WF_walletVars(ReaderRuns)

WalletSpec == WalletInit /\ [][WalletNext]_walletVars /\ WalletFairness
-----------------------------------------------------------------------------
WalletRecord ==
    [available : [CoinIds -> 0..MaxCopies], balance : Nat, applied : 0..MaxFrom,
     dust : Nat, foreign : 0..MaxForeign]

(* Types of the wallet and of the stream client below it. *)
WalletTypeOK ==
    /\ ClientTypeOK
    /\ wallet \in WalletRecord /\ saved \subseteq WalletRecord
    /\ phase \in {"idle", "subscribing", "waiting", "throwing", "closing", "caught",
                  "fallback", "scanning", "tally"}
    /\ scan.left \subseteq 0..MaxFrom

(* Unless a scan or a revert put coins in, a wallet holds at every moment  *)
(* exactly the coins that are unspent after the transactions it applied,   *)
(* each once, and its balance is their value: through syncs that time out, *)
(* lose the connection, or resume from a state saved and restored at any   *)
(* time, no transaction is skipped and none is applied twice.              *)
WalletMatchesLedger ==
    wallet.foreign = 0 =>
        LET coins == Unspent(ledger, wallet.applied)
        IN  /\ \A c \in CoinIds : wallet.available[c] = (IF c \in coins THEN 1 ELSE 0)
            /\ wallet.balance = Worth(coins)

(* Between two syncs no reader thread is left that could still write the   *)
(* wallet's state, or the locals of the sync() that started it.            *)
NoReaderOutlivesSync == phase = "idle" => \A r \in Readers : reader[r] = "none"

(* After a sync the registered NIGHT amount is that of the coins held, also *)
(* when the sync failed half way; a restored wallet keeps that.            *)
DustMatchesCoins ==
    (phase = "idle" /\ wallet.foreign = 0) => wallet.dust = RegisteredTotal(wallet.available)

(* Every sync() returns: the wait, the reader's join and the scan end.     *)
SyncReturns == (phase # "idle") ~> (phase = "idle")
=============================================================================
