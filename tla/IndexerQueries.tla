--------------------------- MODULE IndexerQueries ---------------------------
(***************************************************************************)
(* IndexerClient (indexer_client.cpp): the scan behind query_utxos(), the  *)
(* two caches behind query_wallet_state(), shared by the threads that use  *)
(* the client, and the queries that are one request.  A block holds one    *)
(* coin, named by the block's height.                                      *)
(***************************************************************************)
EXTENDS Naturals, FiniteSets

CONSTANTS
    Askers,         \* threads that use the client
    CacheTTL,       \* cache_ttl_seconds_, in ticks
    MaxClock,       \* bound: ticks
    MaxCoins        \* bound: blocks

ASSUME IndexerQueriesAssumption == CacheTTL \in Nat \ {0} /\ MaxClock \in Nat /\ MaxCoins \in Nat

VARIABLES
    height, spent,          \* the indexer: blocks, and coins that are spent
    clock,
    utxoCache, walletCache, \* held, coins, at; history: scannedAt, when the scan it comes from ended,
                            \* and lag, the time between the coins being read and being stamped
    asker,                  \* where each thread is, and its scan
    reply                   \* the last answer of a single query

indexerVars == <<height, spent>>
queryVars == <<indexerVars, clock, utxoCache, walletCache, asker, reply>>

UnspentCoins == (1..height) \ spent
NoEntry == [held |-> FALSE, coins |-> {}, at |-> 0, scannedAt |-> 0, lag |-> 0]
NoReply == [kind |-> "none", answer |-> "none", result |-> [value |-> "none", error |-> FALSE]]
AskerIdle == [pc |-> "idle", cached |-> FALSE, bare |-> FALSE, h |-> 0, tip |-> 0, found |-> {}, before |-> {}, holes |-> FALSE,
              coins |-> {}, scannedAt |-> 0, readAt |-> 0, age |-> 0]

QueriesInit ==
    /\ height = 0 /\ spent = {} /\ clock = 0
    /\ utxoCache = NoEntry /\ walletCache = NoEntry
    /\ asker = [a \in Askers |-> AskerIdle]
    /\ reply = NoReply
-----------------------------------------------------------------------------
(* The chain: a block spends some of the coins there are and makes one.    *)
IndexBlock ==
    /\ height < MaxCoins
    /\ height' = height + 1
    /\ \E s \in SUBSET UnspentCoins : spent' = spent \cup s
    /\ UNCHANGED <<clock, utxoCache, walletCache, asker, reply>>

Passes ==
    /\ clock < MaxClock
    /\ clock' = clock + 1
    /\ UNCHANGED <<indexerVars, utxoCache, walletCache, asker, reply>>

(* Faulty variant: an entry of exactly the lifetime still counts. *)
is_cache_valid_late(entry) == entry.held /\ clock - entry.at <= CacheTTL

is_cache_valid(entry) == entry.held /\ clock - entry.at < CacheTTL
-----------------------------------------------------------------------------
(* age: how long before the scan ended, delays of the thread apart. *)
Answered(coins, age) == [AskerIdle EXCEPT !.pc = "answered", !.coins = coins, !.age = age]

(* query_wallet_state(): the wallet cache, then query_utxos().             *)
QueryWalletState(a, use_cache) ==
    /\ asker[a].pc = "idle"
    /\ asker' = [asker EXCEPT ![a] =
                    IF use_cache /\ is_cache_valid(walletCache) THEN Answered(walletCache.coins, clock - walletCache.scannedAt - walletCache.lag)
                    ELSE [AskerIdle EXCEPT !.pc = "utxos", !.cached = use_cache]]
    /\ UNCHANGED <<indexerVars, clock, utxoCache, walletCache, reply>>

(* query_utxos() called for itself leaves the wallet cache alone. *)
QueryUtxosBare(a, use_cache) ==
    /\ asker[a].pc = "idle"
    /\ asker' = [asker EXCEPT ![a] = [AskerIdle EXCEPT !.pc = "utxos", !.cached = use_cache, !.bare = TRUE]]
    /\ UNCHANGED <<indexerVars, clock, utxoCache, walletCache, reply>>

(* query_utxos(): the UTXO cache; without the opt-in for a full scan it    *)
(* throws and the state has an error; otherwise the tip is asked for once. *)
QueryUtxos(a, enabled) ==
    /\ asker[a].pc = "utxos"
    /\ asker' = [asker EXCEPT ![a] =
                    IF @.cached /\ is_cache_valid(utxoCache)
                    THEN [@ EXCEPT !.pc = "store", !.coins = utxoCache.coins, !.scannedAt = utxoCache.scannedAt, !.readAt = clock]
                    ELSE IF ~enabled THEN AskerIdle
                    ELSE [@ EXCEPT !.pc = "scan", !.h = 1, !.tip = height, !.before = UnspentCoins]]
    /\ UNCHANGED <<indexerVars, clock, utxoCache, walletCache, reply>>

(* The tip was not to be had: only the first block is looked at. *)
TipFails(a) ==
    /\ asker[a].pc = "utxos" /\ ~(asker[a].cached /\ is_cache_valid(utxoCache)) /\ height > 0
    /\ asker' = [asker EXCEPT ![a] = [@ EXCEPT !.pc = "scan", !.h = 1, !.tip = 1, !.before = UnspentCoins, !.holes = (height > 1)]]
    /\ UNCHANGED <<indexerVars, clock, utxoCache, walletCache, reply>>

(* append_utxos_from_transaction_json(): what the block created and the    *)
(* indexer does not call spent now.                                        *)
CreatedIn(h) == {h} \ spent

(* Faulty variant: the scan follows the tip. *)
ScanBlockToTip(a, answer) ==
    /\ asker[a].pc = "scan" /\ asker[a].h <= height
    /\ asker' = [asker EXCEPT ![a] = [@ EXCEPT !.found = IF answer = "block" THEN @ \cup CreatedIn(asker[a].h) ELSE @,
                                               !.holes = (@ \/ answer # "block"),
                                               !.tip = height,
                                               !.h = IF answer = "throws" THEN height + 1 ELSE @ + 1]]
    /\ UNCHANGED <<indexerVars, clock, utxoCache, walletCache, reply>>

(* scan_utxos_internal(), a request per block: an answer without a block   *)
(* is skipped, an exception ends the scan, and either way what was found   *)
(* is returned as if it were all.                                          *)
QueryScanBlock(a, answer) ==
    /\ asker[a].pc = "scan" /\ asker[a].h <= asker[a].tip
    /\ LET s == asker[a] IN
          asker' = [asker EXCEPT ![a] = [s EXCEPT
                       !.found = IF answer = "block" THEN s.found \cup CreatedIn(s.h) ELSE s.found,
                       !.holes = (s.holes \/ answer # "block"),
                       !.h = IF answer = "throws" THEN s.tip + 1 ELSE s.h + 1]]
    /\ UNCHANGED <<indexerVars, clock, utxoCache, walletCache, reply>>

QueryScanEnds(a) ==
    /\ asker[a].pc = "scan" /\ asker[a].h > asker[a].tip
    /\ utxoCache' = IF asker[a].cached THEN [held |-> TRUE, coins |-> asker[a].found, at |-> clock, scannedAt |-> clock, lag |-> 0] ELSE utxoCache
    /\ asker' = [asker EXCEPT ![a] = [@ EXCEPT !.pc = "store", !.coins = asker[a].found, !.scannedAt = clock, !.readAt = clock]]
    /\ UNCHANGED <<indexerVars, clock, walletCache, reply>>

(* The wallet state is stamped anew, even when its coins came from the     *)
(* UTXO cache.                                                             *)
StoreWalletState(a) ==
    /\ asker[a].pc = "store"
    /\ walletCache' = IF asker[a].cached /\ ~asker[a].bare THEN [held |-> TRUE, coins |-> asker[a].coins, at |-> clock,
                                                scannedAt |-> asker[a].scannedAt, lag |-> clock - asker[a].readAt] ELSE walletCache
    /\ asker' = [asker EXCEPT ![a] = Answered(@.coins, asker[a].readAt - asker[a].scannedAt)]
    /\ UNCHANGED <<indexerVars, clock, utxoCache, reply>>

Taken(a) ==
    /\ asker[a].pc = "answered"
    /\ asker' = [asker EXCEPT ![a] = AskerIdle]
    /\ UNCHANGED <<indexerVars, clock, utxoCache, walletCache, reply>>

Pruned(entry) == IF clock - entry.at > CacheTTL THEN NoEntry ELSE entry

PruneExpiredCache ==
    /\ utxoCache' = Pruned(utxoCache) /\ walletCache' = Pruned(walletCache)
    /\ UNCHANGED <<indexerVars, clock, asker, reply>>

ClearCache ==
    /\ utxoCache' = NoEntry /\ walletCache' = NoEntry
    /\ UNCHANGED <<indexerVars, clock, asker, reply>>

CacheNext ==
    \/ IndexBlock \/ Passes \/ PruneExpiredCache \/ ClearCache
    \/ \E a \in Askers :
        \/ \E b \in BOOLEAN : QueryWalletState(a, b) \/ QueryUtxosBare(a, b) \/ QueryUtxos(a, b)
        \/ TipFails(a) \/ QueryScanEnds(a) \/ StoreWalletState(a) \/ Taken(a)
        \/ \E answer \in {"block", "null", "throws"} : QueryScanBlock(a, answer)
-----------------------------------------------------------------------------
(* The queries that are one request.  The answer holds what was asked for, *)
(* or null or an empty array; it holds it with a member of another type or *)
(* a number that cannot be read, which makes an accessor throw; it has no  *)
(* data, since execute_graphql() only logs the errors an answer carries;   *)
(* or the request throws.  A result says there is a value, the part of one *)
(* before the unreadable member, or none, and may tell of an error.        *)
Unreadable == {"malformed", "badNumber"}
IndexerAnswers == {"found", "null", "noData", "throws"} \cup Unreadable

Result(value, error) == [value |-> value, error |-> error]
NoResult == Result("none", FALSE)

(* The exception becomes the error member, or is only logged; what was     *)
(* read before it stays in the result.                                     *)
WithError(answer, before) ==
    CASE answer = "found" -> Result("whole", FALSE)
      [] answer \in Unreadable -> Result(before, TRUE)
      [] answer = "throws" -> Result("none", TRUE)
      [] OTHER -> NoResult

OnlyLogged(answer, before) == Result(WithError(answer, before).value, FALSE)

(* exists is set first. *)
query_contract_state(answer) == WithError(answer, "part")
query_contract_action(answer) == WithError(answer, "part")
query_contract_balance(answer) == OnlyLogged(answer, "part")

(* Nothing is read, the fields or the transaction are handed on as they    *)
(* are; only the second query catches anything.                            *)
query_contract_fields(answer) == WithError(IF answer \in Unreadable THEN "found" ELSE answer, "whole")
query_transaction(answer) == OnlyLogged(answer, "whole")

(* It throws when there is no transaction, whatever the reason, and when   *)
(* its outputs cannot be read.                                             *)
query_utxos_from_transaction(answer) ==
    IF query_transaction(answer).value = "none" \/ answer \in Unreadable
    THEN Result("none", TRUE) ELSE query_transaction(answer)

(* Faulty variant: an exception reads as NOT_REGISTERED. *)
query_dust_status_flat(answer) == OnlyLogged(answer, "none")

(* UNKNOWN is the error. *)
query_dust_status(answer) == WithError(answer, "none")
query_dust_generation_status(answer) == OnlyLogged(answer, "part")
query_dust_generation_statuses(answer) == OnlyLogged(answer, "part")
query_dust_registrations(answer) == OnlyLogged(answer, "part")

(* 0, and false, for a height that cannot be read. *)
get_block_height(answer) == OnlyLogged(answer, "none")
is_synced(answer) == OnlyLogged(answer, "none")

(* A height or timestamp that cannot be read is 0 in a block without error. *)
query_block(answer) == IF answer = "badNumber" THEN Result("part", FALSE) ELSE WithError(answer, "none")

connect_shielded_wallet(answer) == OnlyLogged(answer, "none")

(* Whatever stands under the name counts as the confirmation. *)
disconnect_shielded_wallet(answer) ==
    OnlyLogged(IF answer \in {"null"} \cup Unreadable THEN "found" ELSE answer, "none")

Queries(answer) ==
    [contract_state |-> query_contract_state(answer), contract_action |-> query_contract_action(answer),
     contract_balance |-> query_contract_balance(answer), contract_fields |-> query_contract_fields(answer),
     transaction |-> query_transaction(answer), utxos_from_transaction |-> query_utxos_from_transaction(answer),
     dust_status |-> query_dust_status(answer), dust_generation_status |-> query_dust_generation_status(answer),
     dust_generation_statuses |-> query_dust_generation_statuses(answer),
     dust_registrations |-> query_dust_registrations(answer),
     block_height |-> get_block_height(answer), synced |-> is_synced(answer), block |-> query_block(answer),
     connect |-> connect_shielded_wallet(answer), disconnect |-> disconnect_shielded_wallet(answer)]

QueryNext ==
    /\ reply = NoReply
    /\ \E answer \in IndexerAnswers :
          \E kind \in DOMAIN Queries(answer) :
             reply' = [kind |-> kind, answer |-> answer, result |-> Queries(answer)[kind]]
    /\ UNCHANGED <<indexerVars, clock, utxoCache, walletCache, asker>>
-----------------------------------------------------------------------------
(* A scan races with the chain.  If no request of it failed, what it found *)
(* was unspent when it began and contains every coin of its blocks that is *)
(* unspent when it ends: no coin made meanwhile is counted beside the one  *)
(* it was made from (indexer_client.cpp:411-614).                          *)
ScanIsSandwiched ==
    \A a \in Askers :
        asker[a].pc = "scan" =>
            /\ asker[a].found \subseteq asker[a].before
            /\ asker[a].h > asker[a].tip /\ ~asker[a].holes => UnspentCoins \cap (1..asker[a].tip) \subseteq asker[a].found

(* An answer rests on a scan that ended less than two lifetimes of a cache *)
(* entry ago: one in the UTXO cache, one more in the wallet cache that was *)
(* filled from it.  And the queries whose result can tell of an error do   *)
(* so whenever the request failed; none makes a value up, but for the      *)
(* confirmation of a disconnect (208-213, 326-390, 491-503, 627-1444).     *)
AnswersRestOnFreshScans ==
    /\ \A a \in Askers : asker[a].age <= 2 * (CacheTTL - 1)
    /\ reply.kind \in {"contract_state", "contract_action", "contract_fields", "utxos_from_transaction",
                        "dust_status", "block"} /\ reply.answer = "throws" => reply.result.error
    /\ reply.result.value # "none" => reply.answer \in {"found"} \cup Unreadable \/ reply.kind = "disconnect"
=============================================================================
