--------------------------- MODULE MCIndexerStream ---------------------------
(* A stream client has one user at a time: an application that drives it   *)
(* directly, or WalletFacade::sync(), which makes a client of its own.  A  *)
(* behaviour takes one of them.  Two transactions (so that one can spend   *)
(* the other's coin) and one subscription per client, first block 2: heights *)
(* and transaction ids overlap, as they do in the code's applied_id.       *)
(* The SDK's two other ways to follow a wallet are users of their own: the *)
(* polling IndexerSubscription, and the WebSocketClient an application     *)
(* reads itself.                                                           *)
EXTENDS SubscriptionSession, WalletSync, IndexerPolling, WebSocketClient,
        TLAPS, FiniteSetTheorems

VARIABLE user

walletUserVars == <<wallet, synced, syncVars, saved>>
streamVars == <<sessionVars, walletUserVars, pollingVars, socketVars, user>>

Init ==
    /\ WalletInit /\ PollingInit /\ SocketInit
    /\ past = {}
    /\ user \in {"application", "wallet", "poller", "socket"}

Application(A) == user = "application" /\ A /\ UNCHANGED <<walletUserVars, pollingVars, socketVars, user>>
Wallet(A) == user = "wallet" /\ A /\ UNCHANGED <<past, pollingVars, socketVars, user>>
Poller(A) == user = "poller" /\ A /\ UNCHANGED <<sessionVars, walletUserVars, socketVars, user>>
Socket(A) == user = "socket" /\ A /\ UNCHANGED <<sessionVars, walletUserVars, pollingVars, user>>

(* A WebSocketClient may rest for ever, and so may a stopped poller. *)
AtRest == user \in {"poller", "socket"} /\ UNCHANGED streamVars

Next ==
    \/ Application(SessionNext) \/ Wallet(WalletNext)
    \/ Poller(PollingNext) \/ Socket(SocketNext) \/ AtRest

(* SessionFairness and WalletFairness, for the user of this behaviour; the *)
(* polling thread and the event loop run, and a join ends when its thread  *)
(* has.  The user never changes, so a disjunction of steps of different    *)
(* users is fair exactly when each of them is.                             *)
UserCallStep ==
    \/ Application(SessionCallStep) \/ Wallet(SyncStep)
    \/ Poller(StopJoins) \/ Socket(DisconnectJoins)
UserThreadStep ==
    \/ Application(OwnStart) \/ Wallet(ReaderRuns)
    \/ Poller(PollStep) \/ Socket(LoopStep)

Spec ==
    /\ Init
    /\ [][Next]_streamVars
    /\ WF_streamVars(UserCallStep)
    /\ WF_streamVars(UserThreadStep)
    /\ \A r \in Readers : WF_streamVars(Application(ReaderStep(r)))
-----------------------------------------------------------------------------
(* NoReaderOutlivesSync, in the behaviours that are WalletFacade::sync()'s: *)
(* when sync() has returned, the reader that wrote the wallet is joined.   *)
WalletReaderJoined == user = "wallet" => NoReaderOutlivesSync

(* No reader thread is lost: start_async() never assigns over a joinable   *)
(* one (graphql_subscription.cpp:237-249), none outlives the sync() that   *)
(* started it (wallet_facade.cpp:808-860), and a disconnect() that found   *)
(* the client connected has joined the event loop (ws_client.cpp).         *)
ReadersJoined == NoJoinableThreadReplaced /\ WalletReaderJoined /\ DisconnectedMeansQuiet

(* StreamBalanceExact and FirstConnectionIsRead: what a reader of the      *)
(* stream adds up is what the indexer sent, and the first connection's     *)
(* messages are read (graphql_subscription.cpp).                           *)
StreamIsExact == StreamBalanceExact /\ FirstConnectionIsRead

(* WalletMatchesLedger and DustMatchesCoins: a synced wallet holds the     *)
(* ledger's coins and the dust they generate (wallet_facade.cpp).          *)
WalletIsExact == WalletMatchesLedger /\ DustMatchesCoins

(* StopReturns, SyncReturns, StopPollingReturns and DisconnectReturns in   *)
(* one formula, since the three clients a behaviour does not use never     *)
(* leave their initial state: stop(), and with it the destructor,          *)
(* WalletFacade::sync() and disconnect() return, although they join        *)
(* threads that may be blocked in a read.                                  *)
JoinsUnderWay ==
    \/ call.op = "stop" /\ call.at # "idle"
    \/ phase # "idle" \/ stopping \/ caller = "joining"

StreamCallsReturn == JoinsUnderWay ~> ~JoinsUnderWay
-----------------------------------------------------------------------------
(***************************************************************************)
(* Proofs, for ledgers, resumption points, coins and histories of any      *)
(* size.                                                                   *)
(***************************************************************************)

(* The value of coins. *)
LEMMA WorthOf ==
    ASSUME NEW B, IsFiniteSet(B), B \subseteq Nat, NEW S \in SUBSET B
    PROVE  Worth(S) = SumOver([c \in B |-> c], S) /\ Worth(S) \in Nat /\ IsFiniteSet(S)
  <1>1. PICK w : w = [c \in S |-> c]
    OBVIOUS
  <1>2. PICK v : v = [c \in B |-> c]
    OBVIOUS
  <1>3. IsFiniteSet(S)
    BY FS_Subset
  <1>4. /\ \A c \in S : w[c] \in Nat
        /\ \A c \in S : w[c] = v[c]
        /\ \A c \in S \ S : w[c] = 0
        /\ S \in SUBSET S
    BY <1>1, <1>2
  <1>5. SumOver(w, S) = SumOver(v, S)
    BY <1>3, <1>4, SumSame
  <1>6. SumOver(w, S) \in Nat
    BY <1>3, <1>4, SumUnfolds
  <1> QED BY <1>1, <1>2, <1>3, <1>5, <1>6 DEF Worth

LEMMA WorthEmpty == Worth({}) = 0
  BY SumEmpty DEF Worth

LEMMA WorthLess ==
    ASSUME NEW B, IsFiniteSet(B), B \subseteq Nat, NEW x \in B
    PROVE  Worth(B) = x + Worth(B \ {x})
  <1>1. PICK v : v = [c \in B |-> c]
    OBVIOUS
  <1>2. IsFiniteSet(B) /\ x \in B /\ \A c \in B : v[c] \in Nat
    BY <1>1
  <1>3. SumOver(v, B) = v[x] + SumOver(v, B \ {x})
    BY <1>2, SumLess
  <1>4. B \in SUBSET B /\ B \ {x} \in SUBSET B
    OBVIOUS
  <1>5. Worth(B) = SumOver(v, B) /\ Worth(B \ {x}) = SumOver(v, B \ {x})
    BY <1>1, <1>4, WorthOf
  <1> QED BY <1>1, <1>3, <1>5

LEMMA WorthAdd ==
    ASSUME NEW S, IsFiniteSet(S), S \subseteq Nat, NEW x \in Nat \ S
    PROVE  Worth(S \cup {x}) = Worth(S) + x
  <1>1. PICK B : B = S \cup {x}
    OBVIOUS
  <1>2. IsFiniteSet(B) /\ B \subseteq Nat /\ x \in B
    BY <1>1, FS_AddElement
  <1>3. Worth(B) = x + Worth(B \ {x})
    BY <1>2, WorthLess
  <1>4. B \ {x} = S
    BY <1>1
  <1>5. Worth(S) \in Nat
    BY WorthOf
  <1>6. PICK a \in Nat : a = Worth(S)
    BY <1>5
  <1>7. Worth(B) = x + a
    BY <1>3, <1>4, <1>6
  <1>8. x + a = a + x
    OBVIOUS
  <1> QED BY <1>1, <1>6, <1>7, <1>8

LEMMA WorthTake ==
    ASSUME NEW S, IsFiniteSet(S), S \subseteq Nat, NEW R \in SUBSET S
    PROVE  /\ Worth(S) \in Nat /\ Worth(R) \in Nat /\ Worth(S \ R) \in Nat
           /\ Worth(S) = Worth(R) + Worth(S \ R)
  <1>1. PICK v : v = [c \in S |-> c]
    OBVIOUS
  <1>2. IsFiniteSet(S) /\ R \in SUBSET S /\ \A c \in S : v[c] \in Nat
    BY <1>1
  <1>3. SumOver(v, S) = SumOver(v, R) + SumOver(v, S \ R)
    BY <1>2, SumInTwo
  <1>4. S \in SUBSET S /\ S \ R \in SUBSET S
    OBVIOUS
  <1>5. /\ Worth(S) = SumOver(v, S) /\ Worth(R) = SumOver(v, R) /\ Worth(S \ R) = SumOver(v, S \ R)
        /\ Worth(S) \in Nat /\ Worth(R) \in Nat /\ Worth(S \ R) \in Nat
    BY <1>1, <1>4, WorthOf
  <1> QED BY <1>3, <1>5

LEMMA CoinIdsFinite == IsFiniteSet(CoinIds) /\ CoinIds \subseteq Nat
  BY SubscriptionAssumption, FS_Interval DEF CoinIds

(* A wallet that holds every coin of a set once is worth the set. *)
LEMMA TotalIsWorth ==
    ASSUME NEW available \in [CoinIds -> Nat], NEW C \in SUBSET CoinIds,
           \A c \in CoinIds : available[c] = (IF c \in C THEN 1 ELSE 0)
    PROVE  Total(available) = Worth(C)
  <1>1. PICK w : w = Values(available)
    OBVIOUS
  <1>2. PICK v : v = [c \in CoinIds |-> c]
    OBVIOUS
  <1>3. /\ \A c \in CoinIds : w[c] \in Nat
        /\ \A c \in C : w[c] = v[c]
        /\ \A c \in CoinIds \ C : w[c] = 0
    BY <1>1, <1>2, CoinIdsFinite DEF Values
  <1>4. SumOver(w, CoinIds) = SumOver(v, C)
    <2>1. PICK S : S = CoinIds
      OBVIOUS
    <2>2. IsFiniteSet(S) /\ C \in SUBSET S
      BY <2>1, CoinIdsFinite
    <2>3. SumOver(w, S) = SumOver(v, C)
      BY <1>3, <2>1, <2>2, SumSelects
    <2> QED BY <2>1, <2>3
  <1>5. Worth(C) = SumOver(v, C)
    BY <1>2, CoinIdsFinite, WorthOf
  <1> QED BY <1>1, <1>4, <1>5 DEF Total
-----------------------------------------------------------------------------
Entries == [creates : BOOLEAN, spends : SUBSET CoinIds]

(* The indexer's list: every transaction spends coins that were unspent. *)
LedgerInv ==
    /\ ledger \in Seq(Entries) /\ Len(ledger) <= MaxTxs
    /\ \A i \in 1..Len(ledger) : ledger[i].spends \subseteq Unspent(ledger, i - 1)

LEMMA UnspentBelow ==
    ASSUME NEW l \in Seq(Entries), NEW n \in Nat
    PROVE  Unspent(l, n) \subseteq 1..n /\ Unspent(l, n) \subseteq 1..Len(l)
  BY DEF Unspent, Coins

LEMMA UnspentNone == ASSUME NEW l \in Seq(Entries) PROVE Unspent(l, 0) = {}
  BY DEF Unspent, Coins

(* What one transaction does to the unspent coins. *)
LEMMA UnspentStep ==
    ASSUME LedgerInv, NEW id \in 1..Len(ledger)
    PROVE  /\ id \in CoinIds /\ id - 1 \in Nat
           /\ ledger[id].creates \in BOOLEAN /\ ledger[id].spends \subseteq Unspent(ledger, id - 1)
           /\ Unspent(ledger, id - 1) \subseteq CoinIds
           /\ Unspent(ledger, id) \subseteq CoinIds
           /\ id \notin Unspent(ledger, id - 1)
           /\ Unspent(ledger, id) =
                 (Unspent(ledger, id - 1) \cup (IF ledger[id].creates THEN {id} ELSE {})) \ ledger[id].spends
  <1>1. /\ ledger \in Seq(Entries) /\ Len(ledger) \in Nat /\ Len(ledger) <= MaxTxs /\ MaxTxs \in Nat
        /\ id - 1 \in Nat /\ id \in Nat
    BY SubscriptionAssumption DEF LedgerInv
  <1>2. \A n \in Nat : Unspent(ledger, n) \subseteq 1..n /\ Unspent(ledger, n) \subseteq 1..Len(ledger)
    BY <1>1, UnspentBelow
  <1>3. 1..Len(ledger) \subseteq CoinIds
    BY <1>1 DEF CoinIds
  <1>4. /\ ledger[id].creates \in BOOLEAN /\ ledger[id].spends \subseteq Unspent(ledger, id - 1)
        /\ id \notin Unspent(ledger, id - 1)
    <2>1. ledger[id] \in Entries
      BY <1>1
    <2>2. id \notin 1..(id - 1)
      BY <1>1
    <2> QED BY <1>1, <1>2, <2>1, <2>2 DEF LedgerInv, Entries
  <1>5. SpentBy(ledger, id) = SpentBy(ledger, id - 1) \cup ledger[id].spends
    <2>1. \A i : i \in 1..id <=> i \in 1..(id - 1) \/ i = id
      BY <1>1
    <2> QED BY <2>1 DEF SpentBy
  <1>6. id \notin SpentBy(ledger, id - 1)
    <2> SUFFICES ASSUME NEW i \in 1..(id - 1), id \in ledger[i].spends PROVE FALSE
      BY DEF SpentBy
    <2>1. i \in 1..Len(ledger) /\ i - 1 \in Nat
      BY <1>1
    <2>2. id \in Unspent(ledger, i - 1)
      BY <2>1 DEF LedgerInv
    <2>3. id \in 1..(i - 1)
      BY <1>2, <2>1, <2>2
    <2> QED BY <1>1, <2>3
  <1>7. {i \in Coins(ledger) : i <= id} =
          {i \in Coins(ledger) : i <= id - 1} \cup (IF ledger[id].creates THEN {id} ELSE {})
    <2>1. Coins(ledger) \subseteq Nat /\ (id \in Coins(ledger) <=> ledger[id].creates)
      BY <1>1 DEF Coins
    <2>2. \A i \in Coins(ledger) : i <= id <=> i <= id - 1 \/ i = id
      BY <1>1, <2>1
    <2> QED BY <1>1, <2>1, <2>2
  <1>8. Unspent(ledger, id) =
          (Unspent(ledger, id - 1) \cup (IF ledger[id].creates THEN {id} ELSE {})) \ ledger[id].spends
    BY <1>5, <1>6, <1>7 DEF Unspent
  <1> QED BY <1>1, <1>2, <1>3, <1>4, <1>8

(* A new transaction leaves the past alone. *)
LEMMA LedgerStep ==
    ASSUME LedgerInv, LedgerGrows
    PROVE  /\ LedgerInv' /\ Len(ledger) <= Len(ledger)'
           /\ \A i \in 1..Len(ledger) : ledger'[i] = ledger[i]
           /\ \A n \in 0..Len(ledger) : Unspent(ledger', n) = Unspent(ledger, n)
  <1>1. PICK b \in BOOLEAN, S \in SUBSET Unspent(ledger, Len(ledger)) :
          ledger' = Append(ledger, [creates |-> b, spends |-> S])
    BY DEF LedgerGrows
  <1>2. /\ ledger \in Seq(Entries) /\ Len(ledger) \in Nat /\ Len(ledger) < MaxTxs /\ MaxTxs \in Nat
    BY SubscriptionAssumption DEF LedgerInv, LedgerGrows
  <1>3. PICK e \in Entries : e = [creates |-> b, spends |-> S]
    <2>1. S \subseteq CoinIds
      BY <1>2, UnspentBelow DEF CoinIds
    <2> QED BY <2>1 DEF Entries
  <1>4. /\ ledger' \in Seq(Entries) /\ Len(ledger') = Len(ledger) + 1
        /\ ledger'[Len(ledger) + 1] = e
        /\ \A i \in 1..Len(ledger) : ledger'[i] = ledger[i]
        /\ DOMAIN ledger = 1..Len(ledger) /\ DOMAIN ledger' = 1..(Len(ledger) + 1)
    BY <1>1, <1>2, <1>3
  <1>5. ASSUME NEW n \in 0..Len(ledger) PROVE Unspent(ledger', n) = Unspent(ledger, n)
    <2>1. \A i \in 1..n : i \in 1..Len(ledger)
      BY <1>2
    <2>2. {ledger'[i].spends : i \in 1..n} = {ledger[i].spends : i \in 1..n}
      BY <1>4, <2>1
    <2>3. SpentBy(ledger', n) = SpentBy(ledger, n)
      BY <2>2 DEF SpentBy
    <2>4. \A i : i \in 1..(Len(ledger) + 1) /\ i <= n <=> i \in 1..Len(ledger) /\ i <= n
      BY <1>2
    <2>5. {i \in Coins(ledger') : i <= n} = {i \in Coins(ledger) : i <= n}
      BY <1>4, <2>4 DEF Coins
    <2> QED BY <2>3, <2>5 DEF Unspent
  <1>6. ASSUME NEW i \in 1..Len(ledger') PROVE ledger'[i].spends \subseteq Unspent(ledger', i - 1)
    <2>1. i - 1 \in 0..Len(ledger)
      BY <1>2, <1>4
    <2>2. Unspent(ledger', i - 1) = Unspent(ledger, i - 1)
      BY <1>5, <2>1
    <2>3. CASE i \in 1..Len(ledger)
      BY <1>4, <2>2, <2>3 DEF LedgerInv
    <2>4. CASE i = Len(ledger) + 1
      <3>1. i - 1 = Len(ledger) /\ ledger'[i].spends = S
        BY <1>2, <1>3, <1>4, <2>4
      <3> QED BY <2>2, <3>1
    <2> QED BY <1>2, <1>4, <2>3, <2>4
  <1> QED BY <1>2, <1>4, <1>5, <1>6 DEF LedgerInv
-----------------------------------------------------------------------------
(* What holds in every state, in parts.  First the polling subscription:   *)
(* the properties themselves, with the thread's position.                  *)
PollInv ==
    /\ onChain \subseteq PollCoins
    /\ poll \in [pc : {"off", "top", "state", "utxos"}, coins : SUBSET PollCoins]
    /\ poll.pc = "off" \/ running \/ stopping
    /\ toldCoins = lastCoins /\ toldBalance = lastBalance
    /\ ~faulty => lastCount = Cardinality(lastCoins)
    /\ poll.pc = "utxos" => lastBalance = Balance(poll.coins)
    /\ poll.pc \in {"off", "top"} /\ ~faulty =>
          Cardinality(lastCoins) = Cardinality(poll.coins) /\ lastBalance = Balance(poll.coins)

(* The WebSocketClient: the close handler ran once when its loop is over,  *)
(* and not before; disconnect() waits for a loop there is.                 *)
SocketInv ==
    /\ caller # "terminated" =>
          /\ loop \in {"testing", "reading", "handling", "clearing", "closing"} => closes = 0
          /\ loop = "over" => closes = 1
          /\ loop \in {"none", "closing", "over"} => ~connectedFlag
          /\ caller = "joining" => ~connectedFlag /\ loop # "none"
    /\ loop \in {"none", "testing", "reading", "handling", "clearing", "closing", "over"}
    /\ DisconnectedMeansQuiet

(* Types of the stream client; ids are not bounded, balances not typed. *)
Places == {"none", "starting", "loop", "reading", "handle", "leave", "done"}
Received == [kind : {"utxo", "progress", "other"}, id : Nat]
CallPlaces == {"idle", "connect", "send", "spawn", "unsubscribe", "stop", "join"}
CallNames == {"none", "subscribe", "dust", "unsubscribe", "stop"}
Calls == [op : CallNames, from : Nat, at : CallPlaces, ok : BOOLEAN]

ClientInv ==
    /\ ws \in {"none", "open", "dead", "closed"}
    /\ connected_ \in BOOLEAN /\ running_ \in BOOLEAN /\ subscribed_ \in BOOLEAN
    /\ reader \in [Readers -> Places]
    /\ msg \in [Readers -> Received]
    /\ stream \in [1..MaxSubs -> Nat] /\ subs \in 0..MaxSubs
    /\ handled \in Seq(Nat)
    /\ call \in Calls

(* A reader that start_async() spawned is not joined while running_ is     *)
(* clear, except between stop_async() and its join.                        *)
ThreadInv ==
    /\ reader["async"] # "none" /\ ~running_ => call.at = "join"
    /\ "started" \notin past => reader["own"] = "none"

(* Up to its first connection an application's client has neither flag nor *)
(* thread; then its reader lives or is about to be spawned.                *)
FirstInv ==
    user = "application" =>
        /\ past = {} => /\ ~connected_ /\ ~running_ /\ call.at \notin {"send", "spawn"}
                        /\ reader["async"] = "none"
        /\ past = {"connected"} /\ connected_ =>
              \/ reader["async"] \in {"loop", "reading", "handle", "leave"}
              \/ call.at \in {"send", "spawn"} /\ ~running_ /\ reader["async"] = "none"

(* The transaction a reader has read and not yet accounted. *)
InHand == reader["async"] = "handle" /\ msg["async"].kind = "utxo"
Pending == IF InHand THEN 1 ELSE 0

(* One subscription: what was accounted, what is in hand and what comes    *)
(* next are consecutive.                                                   *)
SingleStream ==
    /\ InHand => msg["async"].id \in 1..Len(ledger)
    /\ \A i \in 1..Len(handled) : handled[i] = handled[1] + i - 1 /\ handled[i] \in 1..Len(ledger)
    /\ handled # <<>> /\ InHand => msg["async"].id = handled[1] + Len(handled)
    /\ stream[1] # Off /\ InHand => stream[1] = msg["async"].id
    /\ stream[1] # Off /\ handled # <<>> => stream[1] = handled[1] + Len(handled) - 1 + Pending
    /\ handled # <<>> /\ handled[1] = 1 =>
          /\ night_balance_ = Worth(Unspent(ledger, Len(handled)))
          /\ utxo_count_ = Cardinality(Unspent(ledger, Len(handled)))

StreamInv ==
    "started" \notin past =>
        /\ \A s \in 1..MaxSubs : s > subs => stream[s] = Off
        /\ handled = <<>> => night_balance_ = 0 /\ utxo_count_ = 0
        /\ subs = 0 => handled = <<>> /\ ~InHand
        /\ subs = 1 => SingleStream

(* Where sync() is tells which calls are under way, whether there may be a *)
(* reader, and whether the subscription has been sent.                     *)
PhaseInv ==
    /\ user # "wallet" => phase = "idle"
    /\ user # "application" => past = {}
    /\ user = "wallet" =>
        /\ call.at \in {"connect", "send", "spawn"} => phase = "subscribing" /\ reader["async"] = "none"
        /\ call.at \in {"unsubscribe", "stop", "join"} => phase \in {"closing", "throwing"} /\ call.op = "stop"
        /\ reader["async"] # "none" =>
              \/ phase \in {"subscribing", "waiting"}
              \/ phase = "closing" /\ call.at # "idle"
        /\ subs <= 1
        /\ call.at \in {"connect", "send"} => subs = 0
        /\ phase \in {"idle", "fallback", "scanning", "tally", "caught"} => subs = 0

WalletType == [available : [CoinIds -> Nat], balance : Nat, applied : Nat, dust : Nat, foreign : Nat]

(* What a wallet that no scan and no revert touched holds. *)
Exact(w, l) ==
    w.foreign = 0 =>
        /\ w.applied <= Len(l)
        /\ \A c \in CoinIds : w.available[c] = (IF c \in Unspent(l, w.applied) THEN 1 ELSE 0)
        /\ w.balance = Worth(Unspent(l, w.applied))
DustExact(w) == w.foreign = 0 => w.dust = RegisteredTotal(w.available)

(* The phases in which the wallet is as the last sync() left it. *)
Untouched ==
    \/ phase \in {"idle", "throwing", "caught"}
    \/ phase = "subscribing" /\ call.at \in {"connect", "send", "spawn"}

(* The stream is where the wallet is. *)
InStep ==
    wallet.foreign = 0 =>
        /\ InHand => msg["async"].id = wallet.applied + 1
        /\ stream[1] # Off => stream[1] = wallet.applied + Pending
        /\ call.at \in {"connect", "send"} => call.from = wallet.applied

Scans == [left : SUBSET Nat, found : SUBSET CoinIds, last : Nat, tip : Nat]

WalletInv ==
    /\ wallet \in WalletType /\ saved \subseteq WalletType
    /\ scan \in Scans
    /\ Exact(wallet, ledger) /\ (Untouched => DustExact(wallet))
    /\ \A w \in saved : Exact(w, ledger) /\ DustExact(w)
    /\ user = "wallet" => InStep

FollowInv ==
    /\ LedgerInv /\ ClientInv /\ ThreadInv /\ FirstInv /\ StreamInv
    /\ PhaseInv /\ WalletInv

IndexerInv == PollInv /\ SocketInv /\ FollowInv
-----------------------------------------------------------------------------
(* The polling subscription. *)
LEMMA BalanceOfNone == Balance({}) = 0
  <1> DEFINE Adds(g) == g = [s \in SUBSET {} |-> IF s = {} THEN 0 ELSE Pick(s) + g[s \ {Pick(s)}]]
  <1>1. Balance({}) = (CHOOSE g : Adds(g))[{}]
    BY DEF Balance, MapThenSumSet, MapThenFoldSet, Pick
  <1>2. PICK h : h = [s \in SUBSET {} |-> 0]
    OBVIOUS
  <1>3. Adds(h)
    BY <1>2
  <1>4. PICK g : Adds(g) /\ g = (CHOOSE k : Adds(k))
    BY <1>3
  <1>5. g[{}] = 0
    BY <1>4
  <1> QED BY <1>1, <1>4, <1>5

LEMMA PollInit == ASSUME PollingInit PROVE PollInv
  <1>1. poll = [pc |-> "off", coins |-> {}]
    BY DEF PollingInit, PollOff
  <1>2. poll.pc = "off" /\ poll.coins = {}
    BY <1>1
  <1>3. Cardinality({}) = 0
    BY FS_EmptySet
  <1> QED BY <1>1, <1>2, <1>3, BalanceOfNone DEF PollingInit, PollInv

LEMMA PollSame == ASSUME PollInv, UNCHANGED pollingVars PROVE PollInv'
  BY DEF PollInv, pollingVars

LEMMA PollPreserved == ASSUME PollInv, PollingNext PROVE PollInv'
  <1> DEFINE Polls == [pc : {"off", "top", "state", "utxos"}, coins : SUBSET PollCoins]
  <1>0. poll \in Polls /\ poll.pc \in {"off", "top", "state", "utxos"} /\ poll.coins \subseteq PollCoins
    BY DEF PollInv
  <1>1. CASE CoinsChange
    BY <1>1 DEF CoinsChange, PollInv
  <1>2. CASE StartPolling
    <2>1. poll.pc = "off"
      BY <1>2 DEF StartPolling, PollInv
    <2>2. poll' = [poll EXCEPT !.pc = "top"]
      BY <1>2 DEF StartPolling
    <2>3. poll' \in Polls /\ poll'.pc = "top" /\ poll'.coins = poll.coins
      BY <1>0, <2>2
    <2> QED BY <1>2, <2>1, <2>3 DEF StartPolling, PollInv
  <1>3. CASE StopPolling
    BY <1>3 DEF StopPolling, PollInv
  <1>4. CASE StopJoins
    BY <1>4 DEF StopJoins, PollInv
  <1>5. CASE PollTop
    <2>1. CASE running
      <3>1. PICK coins \in SUBSET onChain :
              poll' = [pc |-> "state", coins |-> coins] /\ faulty' = (faulty \/ coins # onChain)
        BY <1>5, <2>1 DEF PollTop, Answers
      <3>2. poll' \in Polls /\ poll'.pc = "state" /\ (~faulty' => ~faulty)
        BY <3>1 DEF PollInv
      <3>3. running' /\ UNCHANGED <<onChain, lastBalance, lastCount, lastCoins, toldBalance, toldCoins>>
        BY <1>5, <2>1 DEF PollTop
      <3> QED BY <3>2, <3>3 DEF PollInv
    <2>2. CASE ~running
      <3>1. poll' = [poll EXCEPT !.pc = "off"] /\ poll.pc = "top"
        BY <1>5, <2>2 DEF PollTop
      <3>2. poll' \in Polls /\ poll'.pc = "off" /\ poll'.coins = poll.coins
        BY <1>0, <3>1
      <3>3. UNCHANGED <<onChain, lastBalance, lastCount, lastCoins, toldBalance, toldCoins, faulty>>
        BY <1>5, <2>2 DEF PollTop
      <3> QED BY <3>1, <3>2, <3>3 DEF PollInv
    <2> QED BY <2>1, <2>2
  <1>6. CASE TellBalance
    <2>1. PICK p \in {"utxos", "top"} :
            /\ p = (IF Cardinality(poll.coins) # lastCount THEN "utxos" ELSE "top")
            /\ poll' = [poll EXCEPT !.pc = p]
      BY <1>6 DEF TellBalance
    <2>2. poll' \in Polls /\ poll'.pc = p /\ poll'.coins = poll.coins
      BY <1>0, <2>1
    <2>3. /\ poll.pc = "state" /\ lastBalance' = Balance(poll.coins)
          /\ toldBalance' = IF Balance(poll.coins) # lastBalance THEN Balance(poll.coins) ELSE toldBalance
          /\ UNCHANGED <<onChain, running, stopping, lastCount, lastCoins, toldCoins, faulty>>
      BY <1>6 DEF TellBalance
    <2>4. toldBalance' = lastBalance' /\ (running' \/ stopping')
      BY <2>3 DEF PollInv
    <2>5. p = "top" => Cardinality(poll.coins) = lastCount
      BY <2>1
    <2> QED BY <2>2, <2>3, <2>4, <2>5 DEF PollInv
  <1>7. CASE SecondQueryThrows
    <2>1. poll' = [poll EXCEPT !.pc = "top"] /\ poll.pc = "utxos"
      BY <1>7 DEF SecondQueryThrows
    <2>2. poll' \in Polls /\ poll'.pc = "top"
      BY <1>0, <2>1
    <2> QED BY <1>7, <2>1, <2>2 DEF SecondQueryThrows, PollInv
  <1>8. ASSUME NEW s \in {"cached", "fresh"}, TellCoins(s) PROVE PollInv'
    <2>1. poll' = [poll EXCEPT !.pc = "top"] /\ poll.pc = "utxos"
      BY <1>8 DEF TellCoins
    <2>2. poll' \in Polls /\ poll'.pc = "top" /\ poll'.coins = poll.coins
      BY <1>0, <2>1
    <2>3. PICK coins : /\ coins = (IF s = "cached" THEN poll.coins ELSE onChain)
                       /\ toldCoins' = (toldCoins \cup (coins \ lastCoins)) \ (lastCoins \ coins)
                       /\ lastCoins' = coins
      BY <1>8 DEF TellCoins
    <2>4. /\ lastCount' = Cardinality(poll.coins)
          /\ faulty' = (faulty \/ (s = "fresh" /\ onChain # poll.coins))
          /\ UNCHANGED <<onChain, running, stopping, lastBalance, toldBalance>>
      BY <1>8 DEF TellCoins
    <2>5. toldCoins' = lastCoins'
      BY <2>3 DEF PollInv
    <2>6. ~faulty' => lastCoins' = poll.coins
      BY <2>3, <2>4
    <2>7. running' \/ stopping'
      BY <2>1, <2>4 DEF PollInv
    <2>8. lastBalance' = Balance(poll.coins) /\ toldBalance' = lastBalance' /\ onChain' \subseteq PollCoins
      BY <2>1, <2>4 DEF PollInv
    <2> QED BY <2>2, <2>4, <2>5, <2>6, <2>7, <2>8 DEF PollInv
  <1> QED BY <1>1, <1>2, <1>3, <1>4, <1>5, <1>6, <1>7, <1>8 DEF PollingNext, PollStep

(* The WebSocketClient. *)
LEMMA SocketInitial == ASSUME SocketInit PROVE SocketInv
  BY DEF SocketInit, SocketInv, DisconnectedMeansQuiet

LEMMA SocketSame == ASSUME SocketInv, UNCHANGED socketVars PROVE SocketInv'
  BY DEF SocketInv, socketVars, DisconnectedMeansQuiet

LEMMA SocketPreserved == ASSUME SocketInv, SocketNext PROVE SocketInv'
  <1> USE DEF SocketInv, DisconnectedMeansQuiet
  <1>0. caller # "terminated"
    BY DEF SocketNext
  <1>1. CASE PeerLeaves
    BY <1>0, <1>1 DEF PeerLeaves
  <1>2. CASE Connect
    BY <1>0, <1>2 DEF Connect
  <1>3. CASE DisconnectSocket
    BY <1>0, <1>3 DEF DisconnectSocket
  <1>4. CASE DisconnectJoins
    BY <1>0, <1>4 DEF DisconnectJoins
  <1>5. CASE Send
    BY <1>0, <1>5 DEF Send
  <1>6. CASE StopEventLoop
    BY <1>0, <1>6 DEF StopEventLoop
  <1>7. CASE LoopTests
    BY <1>0, <1>7 DEF LoopTests
  <1>8. CASE LoopReads
    BY <1>0, <1>8 DEF LoopReads
  <1>9. CASE LoopHandles
    BY <1>0, <1>9 DEF LoopHandles
  <1>10. CASE LoopClears
    BY <1>0, <1>10 DEF LoopClears
  <1>11. CASE LoopCloses
    BY <1>0, <1>11 DEF LoopCloses
  <1> QED BY <1>1, <1>2, <1>3, <1>4, <1>5, <1>6, <1>7, <1>8, <1>9, <1>10, <1>11
          DEF SocketNext, LoopStep
-----------------------------------------------------------------------------
(* What each step of the stream client does, and that it keeps its types. *)
LEMMA OffIsNat == Off \in Nat /\ Off > MaxTxs /\ 1 \in 1..MaxSubs /\ MaxSubs \in Nat /\ MaxTxs \in Nat
  BY SubscriptionAssumption DEF Off

LEMMA BeginFacts ==
    ASSUME NEW o \in CallNames, NEW f \in Nat, NEW a \in CallPlaces, Begin(o, f, a)
    PROVE  /\ call.at = "idle" /\ call' \in Calls
           /\ call'.op = o /\ call'.from = f /\ call'.at = a
  <1>1. PICK b \in BOOLEAN : b = FALSE
    OBVIOUS
  <1>2. call.at = "idle" /\ call' = [op |-> o, from |-> f, at |-> a, ok |-> b]
    BY <1>1 DEF Begin
  <1>3. call' \in Calls
    BY <1>2 DEF Calls
  <1> QED BY <1>2, <1>3

LEMMA GoToFacts ==
    ASSUME call \in Calls, NEW at \in CallPlaces, GoTo(at)
    PROVE  /\ call' \in Calls
           /\ call'.op = call.op /\ call'.from = call.from /\ call'.at = at
  BY DEF GoTo, Calls

LEMMA ReturnFacts ==
    ASSUME call \in Calls, NEW b \in BOOLEAN, ReturnWith(b)
    PROVE  /\ call' \in Calls
           /\ call'.op = call.op /\ call'.from = call.from /\ call'.at = "idle"
  BY DEF ReturnWith, Calls, CallPlaces

LEMMA PlaceFacts ==
    ASSUME reader \in [Readers -> Places], NEW r \in Readers, NEW p \in Places,
           reader' = [reader EXCEPT ![r] = p]
    PROVE  /\ reader' \in [Readers -> Places] /\ reader'[r] = p
           /\ \A q \in Readers : q # r => reader'[q] = reader[q]
  OBVIOUS

LEMMA NoStreams ==
    ASSUME NEW f, f = [s \in 1..MaxSubs |-> Off]
    PROVE  f \in [1..MaxSubs -> Nat] /\ \A s \in 1..MaxSubs : f[s] = Off
  BY OffIsNat

LEMMA DisconnectFacts ==
    ASSUME ClientInv, Disconnect
    PROVE  /\ ws' \in {"none", "open", "dead", "closed"} /\ connected_' = FALSE /\ subs' = subs
           /\ reader' \in [Readers -> Places]
           /\ \A r \in Readers : reader'[r] = reader[r] \/ (reader[r] = "reading" /\ reader'[r] = "leave")
           /\ stream' \in [1..MaxSubs -> Nat]
           /\ \A s \in 1..MaxSubs : stream'[s] = Off \/ stream'[s] = stream[s]
  <1>1. CASE connected_
    <2>1. /\ ws' = "none" /\ connected_' = FALSE /\ subs' = subs
          /\ stream' = [s \in 1..MaxSubs |-> Off]
          /\ reader' = [r \in Readers |-> IF reader[r] = "reading" THEN "leave" ELSE reader[r]]
      BY <1>1 DEF Disconnect
    <2>2. stream' \in [1..MaxSubs -> Nat] /\ \A s \in 1..MaxSubs : stream'[s] = Off
      BY <2>1, NoStreams
    <2>3. /\ reader' \in [Readers -> Places]
          /\ \A r \in Readers : reader'[r] = reader[r] \/ (reader[r] = "reading" /\ reader'[r] = "leave")
      BY <2>1 DEF ClientInv, Places
    <2> QED BY <2>1, <2>2, <2>3
  <1>2. CASE ~connected_
    BY <1>2 DEF Disconnect, wireVars, ClientInv
  <1> QED BY <1>1, <1>2 DEF ClientInv

LEMMA ConnectsEffect ==
    ASSUME ClientInv, CallConnects
    PROVE  /\ ClientInv' /\ call.at = "connect" /\ call'.at = "send"
           /\ call'.op = call.op /\ call'.from = call.from
           /\ connected_' = TRUE /\ subs' = subs
           /\ UNCHANGED <<threadVars, balanceVars, subscribed_>>
           /\ \A s \in 1..MaxSubs : stream'[s] = Off \/ stream'[s] = stream[s]
  <1>1. /\ call \in Calls /\ GoTo("send") /\ call.at = "connect"
        /\ UNCHANGED <<threadVars, balanceVars, subscribed_>>
    BY DEF ClientInv, CallConnects
  <1>2. call' \in Calls /\ call'.at = "send" /\ call'.op = call.op /\ call'.from = call.from
    BY <1>1, GoToFacts DEF CallPlaces
  <1>3. /\ ws' \in {"none", "open", "dead", "closed"} /\ connected_' = TRUE /\ subs' = subs
        /\ stream' \in [1..MaxSubs -> Nat]
        /\ \A s \in 1..MaxSubs : stream'[s] = Off \/ stream'[s] = stream[s]
    <2>1. CASE connected_ /\ UNCHANGED wireVars
      BY <2>1 DEF ClientInv, wireVars
    <2>2. CASE ConnectOpens
      BY <2>2, NoStreams DEF ConnectOpens, ClientInv
    <2> QED BY <2>1, <2>2 DEF CallConnects
  <1> QED BY <1>1, <1>2, <1>3 DEF ClientInv, threadVars, balanceVars

LEMMA ConnectFailsEffect ==
    ASSUME ClientInv, CallConnectFails
    PROVE  /\ ClientInv' /\ call.at = "connect" /\ call'.at = "idle"
           /\ call'.op = call.op /\ call'.from = call.from
           /\ UNCHANGED <<connected_, stream, subs, threadVars, balanceVars, subscribed_>>
  <1>1. /\ call \in Calls /\ ReturnWith(FALSE) /\ call.at = "connect" /\ ws' = "none"
        /\ UNCHANGED <<connected_, stream, subs, threadVars, balanceVars, subscribed_>>
    BY DEF ClientInv, CallConnectFails, ConnectFails
  <1>2. call' \in Calls /\ call'.at = "idle" /\ call'.op = call.op /\ call'.from = call.from
    BY <1>1, ReturnFacts
  <1> QED BY <1>1, <1>2 DEF ClientInv, threadVars, balanceVars

LEMMA SubscribesEffect ==
    ASSUME ClientInv, CallSubscribes
    PROVE  /\ ClientInv' /\ call.at = "send" /\ call'.at = "spawn"
           /\ call'.op = call.op /\ call'.from = call.from
           /\ UNCHANGED <<connected_, threadVars, balanceVars>>
           /\ \/ stream' = stream /\ subs' = subs
              \/ /\ subs' = subs + 1 /\ subs + 1 \in 1..MaxSubs /\ call.op = "subscribe"
                 /\ \A s \in 1..MaxSubs : stream'[s] = stream[s] \/ (s = subs + 1 /\ stream'[s] = call.from)
  <1>1. /\ call \in Calls /\ GoTo("spawn") /\ call.at = "send"
        /\ UNCHANGED <<threadVars, balanceVars>>
    BY DEF ClientInv, CallSubscribes
  <1>2. /\ call' \in Calls /\ call'.at = "spawn" /\ call'.op = call.op /\ call'.from = call.from
        /\ call.from \in Nat
    BY <1>1, GoToFacts DEF CallPlaces, Calls
  <1>3. CASE call.op = "dust" /\ UNCHANGED <<wireVars, subscribed_>>
    BY <1>1, <1>2, <1>3 DEF ClientInv, wireVars, threadVars, balanceVars
  <1>4. CASE call.op = "subscribe" /\ SendSubscribe(call.from) /\ subscribed_' = TRUE
    <2>1. /\ subs < MaxSubs /\ subs' = subs + 1 /\ UNCHANGED <<ws, connected_>>
          /\ stream' = IF ws = "open" THEN [stream EXCEPT ![subs + 1] = call.from] ELSE stream
      BY <1>4 DEF SendSubscribe
    <2>2. subs + 1 \in 1..MaxSubs /\ subs' \in 0..MaxSubs /\ stream \in [1..MaxSubs -> Nat]
      BY <2>1, OffIsNat DEF ClientInv
    <2>3. PICK k \in 1..MaxSubs : k = subs + 1
      BY <2>2
    <2>4. PICK f \in Nat : f = call.from
      BY <1>2
    <2>5. /\ stream' \in [1..MaxSubs -> Nat]
          /\ \A s \in 1..MaxSubs : stream'[s] = stream[s] \/ (s = k /\ stream'[s] = f)
      BY <2>1, <2>2, <2>3, <2>4
    <2> QED BY <1>1, <1>2, <1>4, <2>1, <2>2, <2>3, <2>4, <2>5 DEF ClientInv, threadVars, balanceVars
  <1> QED BY <1>3, <1>4 DEF CallSubscribes

LEMMA StartsReaderEffect ==
    ASSUME ClientInv, CallStartsReader
    PROVE  /\ ClientInv' /\ call.at = "spawn" /\ call'.at = "idle"
           /\ call'.op = call.op /\ call'.from = call.from
           /\ UNCHANGED <<wireVars, balanceVars, subscribed_, msg>>
           /\ \/ /\ UNCHANGED threadVars
                 /\ running_ \/ reader["own"] # "none"
              \/ /\ ~running_ /\ running_' = TRUE /\ reader'["async"] = "loop"
                 /\ reader'["own"] = reader["own"]
  <1>1. /\ call \in Calls /\ ReturnWith(TRUE) /\ call.at = "spawn"
        /\ UNCHANGED <<wireVars, balanceVars, subscribed_>>
    BY DEF ClientInv, CallStartsReader
  <1>2. call' \in Calls /\ call'.at = "idle" /\ call'.op = call.op /\ call'.from = call.from
    BY <1>1, ReturnFacts
  <1>3. CASE UNCHANGED threadVars /\ (running_ \/ reader["own"] # "none")
    BY <1>1, <1>2, <1>3 DEF ClientInv, wireVars, threadVars, balanceVars
  <1>4. CASE ~running_ /\ running_' = TRUE /\ reader' = [reader EXCEPT !["async"] = "loop"] /\ UNCHANGED msg
    <2>1. /\ reader' \in [Readers -> Places] /\ reader'["async"] = "loop"
          /\ reader'["own"] = reader["own"]
      BY <1>4 DEF ClientInv, Places, Readers
    <2> QED BY <1>1, <1>2, <1>4, <2>1 DEF ClientInv, wireVars, balanceVars
  <1> QED BY <1>3, <1>4 DEF CallStartsReader, StartAsync

LEMMA UnsubscribesEffect ==
    ASSUME ClientInv, CallUnsubscribes
    PROVE  /\ ClientInv' /\ call.at = "unsubscribe" /\ call'.at \in {"stop", "idle"}
           /\ call'.at = "stop" <=> call.op = "stop"
           /\ call'.op = call.op /\ subs' = subs
           /\ UNCHANGED <<running_, msg, balanceVars>>
           /\ connected_' => connected_
           /\ \A r \in Readers : reader'[r] = reader[r] \/ (reader[r] = "reading" /\ reader'[r] = "leave" /\ ~connected_')
           /\ \A s \in 1..MaxSubs : stream'[s] = Off \/ stream'[s] = stream[s]
  <1>1. /\ call \in Calls /\ call.at = "unsubscribe" /\ subscribed_' = FALSE
        /\ IF call.op = "stop" THEN GoTo("stop") ELSE ReturnWith(TRUE)
        /\ UNCHANGED <<running_, msg, balanceVars>>
    BY DEF ClientInv, CallUnsubscribes
  <1>2. /\ call' \in Calls /\ call'.op = call.op /\ call'.at \in {"stop", "idle"}
        /\ call'.at = "stop" <=> call.op = "stop"
    BY <1>1, GoToFacts, ReturnFacts DEF CallPlaces
  <1>3. CASE Disconnect
    BY <1>1, <1>2, <1>3, DisconnectFacts DEF ClientInv, balanceVars
  <1>4. CASE UNCHANGED <<wireVars, reader>>
    BY <1>1, <1>2, <1>4 DEF ClientInv, balanceVars, wireVars
  <1> QED BY <1>3, <1>4 DEF CallUnsubscribes

LEMMA StopsEffect ==
    ASSUME ClientInv, CallStops
    PROVE  /\ ClientInv' /\ call.at = "stop" /\ call'.at = "join" /\ call'.op = call.op
           /\ running_' = FALSE /\ connected_' = FALSE /\ subs' = subs
           /\ UNCHANGED <<msg, balanceVars, subscribed_>>
           /\ \A r \in Readers : reader'[r] = reader[r] \/ (reader[r] = "reading" /\ reader'[r] = "leave")
           /\ \A s \in 1..MaxSubs : stream'[s] = Off \/ stream'[s] = stream[s]
  <1>1. /\ call \in Calls /\ call.at = "stop" /\ running_' = FALSE /\ Disconnect /\ GoTo("join")
        /\ UNCHANGED <<msg, balanceVars, subscribed_>>
    BY DEF ClientInv, CallStops
  <1>2. call' \in Calls /\ call'.op = call.op /\ call'.at = "join"
    BY <1>1, GoToFacts DEF CallPlaces
  <1> QED BY <1>1, <1>2, DisconnectFacts DEF ClientInv, balanceVars

LEMMA JoinsEffect ==
    ASSUME ClientInv, CallJoins
    PROVE  /\ ClientInv' /\ call.at = "join" /\ call'.at = "idle" /\ call'.op = call.op
           /\ UNCHANGED <<wireVars, running_, msg, balanceVars, subscribed_>>
           /\ \A r \in Readers : reader[r] \in {"none", "done"} /\ reader'[r] = "none"
  <1>1. /\ call \in Calls /\ call.at = "join" /\ ReturnWith(TRUE)
        /\ reader' = [r \in Readers |-> "none"] /\ \A r \in Readers : Joinable(r)
        /\ UNCHANGED <<wireVars, running_, msg, balanceVars, subscribed_>>
    BY DEF ClientInv, CallJoins
  <1>2. call' \in Calls /\ call'.op = call.op /\ call'.at = "idle"
    BY <1>1, ReturnFacts
  <1>3. reader' \in [Readers -> Places] /\ \A r \in Readers : reader[r] \in {"none", "done"} /\ reader'[r] = "none"
    BY <1>1 DEF Places, Joinable
  <1> QED BY <1>1, <1>2, <1>3 DEF ClientInv, balanceVars, wireVars

LEMMA LoopTopEffect ==
    ASSUME ClientInv, NEW r \in Readers, LoopTop(r)
    PROVE  /\ ClientInv' /\ reader[r] = "loop" /\ reader'[r] \in {"reading", "leave"}
           /\ UNCHANGED <<wireVars, running_, msg, balanceVars, subscribed_, call>>
           /\ \A q \in Readers : q # r => reader'[q] = reader[q]
  <1>1. PICK p \in {"reading", "leave"} : reader' = [reader EXCEPT ![r] = p]
    BY DEF LoopTop
  <1>2. /\ reader' \in [Readers -> Places] /\ reader'[r] \in {"reading", "leave"}
        /\ \A q \in Readers : q # r => reader'[q] = reader[q]
    BY <1>1, PlaceFacts DEF ClientInv, Places
  <1>3. reader[r] = "loop" /\ UNCHANGED <<wireVars, running_, msg, balanceVars, subscribed_, call>>
    BY DEF LoopTop
  <1> QED BY <1>2, <1>3 DEF ClientInv, balanceVars, wireVars

LEMMA ReadFailsEffect ==
    ASSUME ClientInv, NEW r \in Readers, ReadFails(r)
    PROVE  /\ ClientInv' /\ reader[r] = "reading" /\ reader'[r] = "leave"
           /\ UNCHANGED <<connected_, stream, subs, running_, msg, balanceVars, subscribed_, call>>
           /\ \A q \in Readers : q # r => reader'[q] = reader[q]
  <1>1. /\ reader' = [reader EXCEPT ![r] = "leave"] /\ ws' = "closed" /\ reader[r] = "reading"
        /\ UNCHANGED <<connected_, stream, subs, running_, msg, balanceVars, subscribed_, call>>
    BY DEF ReadFails
  <1>2. /\ reader' \in [Readers -> Places] /\ reader'[r] = "leave"
        /\ \A q \in Readers : q # r => reader'[q] = reader[q]
    BY <1>1, PlaceFacts DEF ClientInv, Places
  <1> QED BY <1>1, <1>2 DEF ClientInv, balanceVars

LEMMA LeaveEffect ==
    ASSUME ClientInv, NEW r \in Readers, Leave(r)
    PROVE  /\ ClientInv' /\ reader[r] = "leave" /\ reader'[r] = "done" /\ connected_' = FALSE
           /\ UNCHANGED <<ws, stream, subs, running_, msg, balanceVars, subscribed_, call>>
           /\ \A q \in Readers : q # r => reader'[q] = reader[q]
  <1>1. /\ reader' = [reader EXCEPT ![r] = "done"] /\ connected_' = FALSE /\ reader[r] = "leave"
        /\ UNCHANGED <<ws, stream, subs, running_, msg, balanceVars, subscribed_, call>>
    BY DEF Leave
  <1>2. /\ reader' \in [Readers -> Places] /\ reader'[r] = "done"
        /\ \A q \in Readers : q # r => reader'[q] = reader[q]
    BY <1>1, PlaceFacts DEF ClientInv, Places
  <1> QED BY <1>1, <1>2 DEF ClientInv, balanceVars

LEMMA OwnStartEffect ==
    ASSUME ClientInv, OwnReaderStarts
    PROVE  /\ ClientInv' /\ reader["own"] = "starting" /\ reader'["own"] = "loop" /\ running_' = TRUE
           /\ reader'["async"] = reader["async"]
           /\ UNCHANGED <<wireVars, msg, balanceVars, subscribed_, call>>
  <1>1. /\ reader' = [reader EXCEPT !["own"] = "loop"] /\ running_' = TRUE /\ reader["own"] = "starting"
        /\ UNCHANGED <<wireVars, msg, balanceVars, subscribed_, call>>
    BY DEF OwnReaderStarts
  <1>2. reader' \in [Readers -> Places] /\ reader'["own"] = "loop" /\ reader'["async"] = reader["async"]
    BY <1>1 DEF ClientInv, Places, Readers
  <1> QED BY <1>1, <1>2 DEF ClientInv, wireVars, balanceVars

LEMMA HandleOtherEffect ==
    ASSUME ClientInv, NEW r \in Readers, HandleOther(r)
    PROVE  /\ ClientInv' /\ reader[r] = "handle" /\ msg[r].kind # "utxo" /\ reader'[r] = "loop"
           /\ UNCHANGED <<wireVars, running_, balanceVars, subscribed_, call>>
           /\ \A q \in Readers : q # r => reader'[q] = reader[q] /\ msg'[q] = msg[q]
  <1>1. /\ reader' = [reader EXCEPT ![r] = "loop"] /\ reader[r] = "handle" /\ msg[r].kind # "utxo"
        /\ msg' = [msg EXCEPT ![r] = Nothing]
        /\ UNCHANGED <<wireVars, running_, balanceVars, subscribed_, call>>
    BY DEF HandleOther
  <1>2. /\ reader' \in [Readers -> Places] /\ reader'[r] = "loop"
        /\ \A q \in Readers : q # r => reader'[q] = reader[q]
    BY <1>1, PlaceFacts DEF ClientInv, Places
  <1>3. PICK m \in Received : m = Nothing
    BY DEF Received, Nothing
  <1>4. msg' \in [Readers -> Received] /\ \A q \in Readers : q # r => msg'[q] = msg[q]
    BY <1>1, <1>3 DEF ClientInv
  <1> QED BY <1>1, <1>2, <1>4 DEF ClientInv, wireVars, balanceVars

LEMMA HandleUtxoEffect ==
    ASSUME ClientInv, NEW r \in Readers, HandleUtxo(r)
    PROVE  /\ ClientInv' /\ reader[r] = "handle" /\ msg[r].kind = "utxo" /\ reader'[r] = "loop"
           /\ msg[r].id \in Nat /\ handled' = Append(handled, msg[r].id)
           /\ UNCHANGED <<wireVars, running_, subscribed_, call>>
           /\ \A q \in Readers : q # r => reader'[q] = reader[q] /\ msg'[q] = msg[q]
  <1>1. /\ reader' = [reader EXCEPT ![r] = "loop"] /\ reader[r] = "handle" /\ msg[r].kind = "utxo"
        /\ msg' = [msg EXCEPT ![r] = Nothing] /\ handled' = Append(handled, msg[r].id)
        /\ UNCHANGED <<wireVars, running_, subscribed_, call>>
    BY DEF HandleUtxo
  <1>2. /\ reader' \in [Readers -> Places] /\ reader'[r] = "loop"
        /\ \A q \in Readers : q # r => reader'[q] = reader[q]
    BY <1>1, PlaceFacts DEF ClientInv, Places
  <1>3. PICK m \in Received : m = Nothing
    BY DEF Received, Nothing
  <1>4. msg' \in [Readers -> Received] /\ \A q \in Readers : q # r => msg'[q] = msg[q]
    BY <1>1, <1>3 DEF ClientInv
  <1>5. msg[r].id \in Nat /\ handled' \in Seq(Nat)
    <2>1. msg[r] \in Received
      BY DEF ClientInv
    <2>2. msg[r].id \in Nat
      BY <2>1 DEF Received
    <2> QED BY <1>1, <2>2 DEF ClientInv
  <1> QED BY <1>1, <1>2, <1>4, <1>5 DEF ClientInv, wireVars

LEMMA ReceiveEffect ==
    ASSUME LedgerInv, ClientInv, NEW r \in Readers, Receive(r)
    PROVE  /\ ClientInv' /\ reader[r] = "reading" /\ reader'[r] = "handle"
           /\ UNCHANGED <<ws, connected_, subs, running_, balanceVars, subscribed_, call>>
           /\ \A q \in Readers : q # r => reader'[q] = reader[q] /\ msg'[q] = msg[q]
           /\ \E s \in 1..MaxSubs :
                /\ stream[s] # Off
                /\ \A t \in 1..MaxSubs : t # s => stream'[t] = stream[t]
                /\ \/ /\ stream[s] < Len(ledger) /\ stream'[s] = stream[s] + 1
                      /\ msg'[r].kind = "utxo" /\ msg'[r].id = stream[s] + 1
                   \/ /\ msg'[r].kind # "utxo" /\ stream'[s] \in {stream[s], Off}
  <1>1. /\ reader[r] = "reading"
        /\ UNCHANGED <<ws, connected_, subs, running_, balanceVars, subscribed_, call>>
    BY DEF Receive
  <1>2. PICK s \in 1..MaxSubs :
          /\ stream[s] # Off
          /\ \/ /\ stream[s] < Len(ledger)
                /\ stream' = [stream EXCEPT ![s] = @ + 1]
                /\ Gets(r, [kind |-> "utxo", id |-> stream[s] + 1])
             \/ /\ \E h \in stream[s]..Len(ledger) : Gets(r, [kind |-> "progress", id |-> h])
                /\ UNCHANGED stream
             \/ /\ stream' = [stream EXCEPT ![s] = Off]
                /\ Gets(r, Nothing)
    BY DEF Receive
  <1>3. stream \in [1..MaxSubs -> Nat] /\ stream[s] \in Nat /\ Len(ledger) \in Nat
    BY DEF ClientInv, LedgerInv
  <1>4. ASSUME NEW m \in Received, Gets(r, m)
        PROVE  /\ reader' \in [Readers -> Places] /\ reader'[r] = "handle" /\ msg'[r] = m
               /\ msg' \in [Readers -> Received]
               /\ \A q \in Readers : q # r => reader'[q] = reader[q] /\ msg'[q] = msg[q]
    BY <1>4 DEF Gets, ClientInv, Places
  <1>5. CASE /\ stream[s] < Len(ledger)
             /\ stream' = [stream EXCEPT ![s] = @ + 1]
             /\ Gets(r, [kind |-> "utxo", id |-> stream[s] + 1])
    <2>1. PICK n \in Nat : n = stream[s] + 1
      BY <1>3
    <2>2. PICK m \in Received : m = [kind |-> "utxo", id |-> n]
      BY DEF Received
    <2>3. m.kind = "utxo" /\ m.id = n
      BY <2>2
    <2>4. Gets(r, m)
      BY <1>5, <2>1, <2>2
    <2>5. stream' = [stream EXCEPT ![s] = n]
      BY <1>5, <2>1
    <2>6. /\ stream' \in [1..MaxSubs -> Nat] /\ stream'[s] = n
          /\ \A t \in 1..MaxSubs : t # s => stream'[t] = stream[t]
      BY <1>3, <2>5
    <2> QED BY <1>1, <1>2, <1>4, <1>5, <2>1, <2>3, <2>4, <2>6 DEF ClientInv, balanceVars
  <1>6. CASE (\E h \in stream[s]..Len(ledger) : Gets(r, [kind |-> "progress", id |-> h])) /\ UNCHANGED stream
    <2>1. PICK h \in Nat : Gets(r, [kind |-> "progress", id |-> h])
      BY <1>3, <1>6
    <2>2. PICK m \in Received : m = [kind |-> "progress", id |-> h]
      BY DEF Received
    <2>3. m.kind # "utxo" /\ Gets(r, m)
      BY <2>1, <2>2
    <2> QED BY <1>1, <1>2, <1>3, <1>4, <1>6, <2>3 DEF ClientInv, balanceVars
  <1>7. CASE stream' = [stream EXCEPT ![s] = Off] /\ Gets(r, Nothing)
    <2>1. PICK n \in Nat : n = Off
      BY OffIsNat
    <2>2. PICK m \in Received : m = Nothing
      BY DEF Received, Nothing
    <2>3. m.kind # "utxo"
      BY <2>2 DEF Nothing
    <2>4. stream' = [stream EXCEPT ![s] = n]
      BY <1>7, <2>1
    <2>5. /\ stream' \in [1..MaxSubs -> Nat] /\ stream'[s] = n
          /\ \A t \in 1..MaxSubs : t # s => stream'[t] = stream[t]
      BY <1>3, <2>4
    <2> QED BY <1>1, <1>2, <1>4, <1>7, <2>1, <2>2, <2>3, <2>5 DEF ClientInv, balanceVars
  <1> QED BY <1>2, <1>5, <1>6, <1>7

(* A call step that does not connect leaves the history alone; one that    *)
(* does leaves it {"connected"} only the first time.                       *)
LEMMA PastFacts ==
    ASSUME SessionCallStep
    PROVE  /\ "started" \in past' <=> "started" \in past
           /\ connected_ \/ ~connected_' => past' = past
           /\ ~connected_ /\ connected_' => past' # {} /\ (past' = {"connected"} => past = {})
  <1>1. past' = past \cup (IF connected_ \/ ~connected_' THEN {}
                           ELSE IF "connected" \in past THEN {"reconnected"} ELSE {"connected"})
    BY DEF SessionCallStep
  <1>2. CASE connected_ \/ ~connected_'
    BY <1>1, <1>2
  <1>3. CASE ~(connected_ \/ ~connected_') /\ "connected" \in past
    <2>1. past' = past \cup {"reconnected"}
      BY <1>1, <1>3
    <2> QED BY <1>3, <2>1
  <1>4. CASE ~(connected_ \/ ~connected_') /\ "connected" \notin past
    <2>1. past' = past \cup {"connected"}
      BY <1>1, <1>4
    <2>2. past' = {"connected"} => past = {}
      BY <1>4, <2>1
    <2> QED BY <1>4, <2>1, <2>2
  <1> QED BY <1>2, <1>3, <1>4

(* The calls an application begins. *)
AppBegins == AppSubscribes \/ AppSubscribesDust \/ AppUnsubscribes \/ AppStops

LEMMA AppBeginsEffect ==
    ASSUME ClientInv, AppBegins
    PROVE  /\ ClientInv' /\ call.at = "idle" /\ call'.at \in {"connect", "unsubscribe"}
           /\ UNCHANGED <<ledger, wireVars, threadVars, balanceVars, subscribed_, past>>
  <1>1. ASSUME NEW o \in CallNames, NEW f \in Nat, NEW a \in CallPlaces, Begin(o, f, a),
               UNCHANGED <<wireVars, threadVars, balanceVars, subscribed_>>
        PROVE  ClientInv' /\ call.at = "idle" /\ call'.at = a
    <2>1. call' \in Calls /\ call'.at = a /\ call.at = "idle"
      BY <1>1, BeginFacts
    <2> QED BY <1>1, <2>1 DEF ClientInv, wireVars, threadVars, balanceVars
  <1>2. CASE AppSubscribes
    <2>1. PICK from \in {0} \cup {handled[i] : i \in DOMAIN handled} :
            /\ Begin("subscribe", from, "connect")
            /\ UNCHANGED <<ledger, wireVars, threadVars, balanceVars, subscribed_, past>>
      BY <1>2 DEF AppSubscribes
    <2>2. from \in Nat
      BY <2>1 DEF ClientInv
    <2> QED BY <1>1, <2>1, <2>2 DEF CallNames, CallPlaces
  <1>3. CASE AppSubscribesDust
    BY <1>1, <1>3 DEF AppSubscribesDust, CallNames, CallPlaces
  <1>4. CASE AppUnsubscribes
    BY <1>1, <1>4 DEF AppUnsubscribes, CallNames, CallPlaces
  <1>5. CASE AppStops
    BY <1>1, <1>5 DEF AppStops, CallNames, CallPlaces
  <1> QED BY <1>2, <1>3, <1>4, <1>5 DEF AppBegins

LEMMA AppStartsEffect ==
    ASSUME ClientInv, AppStarts
    PROVE  /\ ClientInv' /\ call.at = "idle" /\ reader'["async"] = reader["async"]
           /\ past' = past \cup {"started"}
           /\ UNCHANGED <<ledger, wireVars, running_, msg, balanceVars, subscribed_, call>>
  <1>1. /\ call.at = "idle" /\ reader' = [reader EXCEPT !["own"] = "starting"] /\ past' = past \cup {"started"}
        /\ UNCHANGED <<ledger, wireVars, running_, msg, balanceVars, subscribed_, call>>
    BY DEF AppStarts
  <1>2. reader' \in [Readers -> Places] /\ reader'["async"] = reader["async"]
    BY <1>1 DEF ClientInv, Places, Readers
  <1> QED BY <1>1, <1>2 DEF ClientInv, wireVars, balanceVars

LEMMA DropsEffect ==
    ASSUME ClientInv, ConnectionDrops, UNCHANGED <<threadVars, balanceVars, subscribed_, call>>
    PROVE  ClientInv'
  BY DEF ClientInv, ConnectionDrops, threadVars, balanceVars

(* The threads and the first connection of an application's client. *)
LEMMA SessionThreads ==
    ASSUME LedgerInv, ClientInv, ThreadInv, FirstInv,
           user = "application", user' = user, SessionNext
    PROVE  ClientInv' /\ ThreadInv' /\ FirstInv'
  <1> USE DEF ThreadInv, FirstInv
  <1>0. \A r \in Readers : r = "async" \/ r = "own"
    BY DEF Readers
  <1>a. "async" \in Readers /\ "own" \in Readers /\ "async" # "own"
    BY DEF Readers
  <1>1. CASE AppBegins
    <2>1. /\ ClientInv' /\ call.at = "idle" /\ call'.at \in {"connect", "unsubscribe"}
          /\ UNCHANGED <<connected_, running_, reader, past>>
      BY <1>1, AppBeginsEffect DEF wireVars, threadVars
    <2> QED BY <2>1
  <1>2. CASE AppStarts
    <2>1. /\ ClientInv' /\ call.at = "idle" /\ reader'["async"] = reader["async"]
          /\ past' = past \cup {"started"} /\ UNCHANGED <<running_, call>>
      BY <1>2, AppStartsEffect
    <2>2. past' # {} /\ past' # {"connected"} /\ "started" \in past'
      BY <2>1
    <2> QED BY <2>1, <2>2
  <1>3. CASE SessionCallStep
    <2>0. /\ "started" \in past' <=> "started" \in past
          /\ connected_ \/ ~connected_' => past' = past
          /\ ~connected_ /\ connected_' => past' # {} /\ (past' = {"connected"} => past = {})
      BY <1>3, PastFacts
    <2>1. CASE CallConnects
      <3>1. /\ ClientInv' /\ call.at = "connect" /\ call'.at = "send" /\ connected_' = TRUE
            /\ UNCHANGED <<running_, reader>>
        BY <2>1, ConnectsEffect DEF threadVars
      <3> QED BY <2>0, <3>1
    <2>2. CASE CallConnectFails
      <3>1. /\ ClientInv' /\ call.at = "connect" /\ call'.at = "idle"
            /\ UNCHANGED <<connected_, running_, reader>>
        BY <2>2, ConnectFailsEffect DEF threadVars
      <3> QED BY <2>0, <3>1
    <2>3. CASE CallSubscribes
      <3>1. /\ ClientInv' /\ call.at = "send" /\ call'.at = "spawn"
            /\ UNCHANGED <<connected_, running_, reader>>
        BY <2>3, SubscribesEffect DEF threadVars
      <3> QED BY <2>0, <3>1
    <2>4. CASE CallStartsReader
      <3>1. /\ ClientInv' /\ call.at = "spawn" /\ call'.at = "idle" /\ UNCHANGED connected_
            /\ \/ /\ UNCHANGED <<running_, reader>>
                  /\ running_ \/ reader["own"] # "none"
               \/ /\ ~running_ /\ running_' = TRUE /\ reader'["async"] = "loop"
                  /\ reader'["own"] = reader["own"]
        BY <2>4, StartsReaderEffect DEF threadVars, wireVars
      <3>2. past' = past
        BY <2>0, <3>1
      <3>3. CASE UNCHANGED <<running_, reader>> /\ (running_ \/ reader["own"] # "none")
        <4>1. past = {"connected"} /\ connected_ => reader["async"] \in {"loop", "reading", "handle", "leave"}
          BY <3>1, <3>3
        <4> QED BY <3>1, <3>2, <3>3, <4>1
      <3>4. CASE /\ ~running_ /\ running_' = TRUE /\ reader'["async"] = "loop"
                 /\ reader'["own"] = reader["own"]
        BY <3>1, <3>2, <3>4
      <3> QED BY <3>1, <3>3, <3>4
    <2>5. CASE CallUnsubscribes
      <3>1. /\ ClientInv' /\ call.at = "unsubscribe" /\ call'.at \in {"stop", "idle"}
            /\ UNCHANGED running_ /\ (connected_' => connected_)
            /\ reader'["async"] = reader["async"] \/ (reader["async"] = "reading" /\ reader'["async"] = "leave")
            /\ reader'["own"] = reader["own"] \/ (reader["own"] = "reading" /\ reader'["own"] = "leave")
        BY <1>a, <2>5, UnsubscribesEffect
      <3>2. past' = past
        BY <2>0, <3>1
      <3> QED BY <3>1, <3>2
    <2>6. CASE CallStops
      <3>1. /\ ClientInv' /\ call.at = "stop" /\ call'.at = "join"
            /\ running_' = FALSE /\ connected_' = FALSE
            /\ reader'["async"] = reader["async"] \/ (reader["async"] = "reading" /\ reader'["async"] = "leave")
            /\ reader'["own"] = reader["own"] \/ (reader["own"] = "reading" /\ reader'["own"] = "leave")
        BY <1>a, <2>6, StopsEffect
      <3>2. past' = past
        BY <2>0, <3>1
      <3> QED BY <3>1, <3>2
    <2>7. CASE CallJoins
      <3>1. /\ ClientInv' /\ call.at = "join" /\ call'.at = "idle"
            /\ UNCHANGED <<connected_, running_>>
            /\ reader["async"] \in {"none", "done"} /\ reader'["async"] = "none" /\ reader'["own"] = "none"
        BY <1>a, <2>7, JoinsEffect DEF wireVars
      <3>2. past' = past
        BY <2>0, <3>1
      <3> QED BY <3>1, <3>2
    <2> QED BY <1>3, <2>1, <2>2, <2>3, <2>4, <2>5, <2>6, <2>7 DEF SessionCallStep, CallStep
  <1>4. CASE Environment
    <2>1. CASE LedgerGrows /\ UNCHANGED <<clientVars, past>>
      BY <2>1 DEF clientVars, wireVars, threadVars, balanceVars, ClientInv
    <2>2. CASE ConnectionDrops /\ UNCHANGED <<ledger, threadVars, balanceVars, subscribed_, call, past>>
      <3>1. ClientInv' /\ UNCHANGED <<connected_, running_, reader, call, past>>
        BY <2>2, DropsEffect DEF ConnectionDrops, threadVars
      <3> QED BY <3>1
    <2> QED BY <1>4, <2>1, <2>2 DEF Environment
  <1>5. CASE OwnStart
    <2>1. /\ ClientInv' /\ reader["own"] = "starting" /\ running_' = TRUE
          /\ reader'["async"] = reader["async"] /\ UNCHANGED <<connected_, call, past>>
      BY <1>5, OwnStartEffect DEF OwnStart, wireVars
    <2>2. past # {} /\ past # {"connected"} /\ "started" \in past
      BY <2>1
    <2> QED BY <2>1, <2>2
  <1>6. ASSUME NEW r \in Readers, ReaderStep(r) PROVE ClientInv' /\ ThreadInv' /\ FirstInv'
    <2>1. /\ ClientInv' /\ UNCHANGED <<running_, call, past>>
          /\ reader[r] \in {"loop", "reading", "handle", "leave"} /\ reader'[r] # "none"
          /\ connected_' => reader'[r] \in {"loop", "reading", "handle", "leave"}
          /\ connected_' => connected_
          /\ \A q \in Readers : q # r => reader'[q] = reader[q]
      <3>1. UNCHANGED past
        BY <1>6 DEF ReaderStep
      <3>2. CASE LoopTop(r)
        BY <3>1, <3>2, LoopTopEffect DEF wireVars
      <3>3. CASE Receive(r)
        BY <3>1, <3>3, ReceiveEffect
      <3>4. CASE ReadFails(r)
        BY <3>1, <3>4, ReadFailsEffect
      <3>5. CASE HandleUtxo(r)
        BY <3>1, <3>5, HandleUtxoEffect DEF wireVars
      <3>6. CASE HandleOther(r)
        BY <3>1, <3>6, HandleOtherEffect DEF wireVars
      <3>7. CASE Leave(r)
        BY <3>1, <3>7, LeaveEffect
      <3> QED BY <1>6, <3>2, <3>3, <3>4, <3>5, <3>6, <3>7 DEF ReaderStep
    <2>2. CASE r = "async"
      <3>1. /\ reader["async"] \in {"loop", "reading", "handle", "leave"} /\ reader'["async"] # "none"
            /\ connected_' => reader'["async"] \in {"loop", "reading", "handle", "leave"}
            /\ reader'["own"] = reader["own"]
        BY <1>a, <2>1, <2>2
      <3> QED BY <2>1, <3>1
    <2>3. CASE r = "own"
      <3>1. reader["own"] # "none" /\ reader'["async"] = reader["async"]
        BY <1>a, <2>1, <2>3
      <3>2. "started" \in past /\ past # {} /\ past # {"connected"}
        BY <3>1
      <3> QED BY <2>1, <3>1, <3>2
    <2> QED BY <1>0, <2>2, <2>3
  <1> QED BY <1>1, <1>2, <1>3, <1>4, <1>5, <1>6 DEF SessionNext, AppBegins
-----------------------------------------------------------------------------
(* The stream.  One transaction's account: what it adds and subtracts      *)
(* leads from the coins before it to the coins after it.                   *)
LEMMA AccountOne ==
    ASSUME LedgerInv, NEW id \in 1..Len(ledger), NEW b, NEW k,
           b = Worth(Unspent(ledger, id - 1)), k = Cardinality(Unspent(ledger, id - 1))
    PROVE  LET more == IF ledger[id].creates THEN k + 1 ELSE k
               less == Cardinality(ledger[id].spends)
           IN  /\ SubtractSpent(AddCreated(b, id), id) = Worth(Unspent(ledger, id))
               /\ (IF more > less THEN more - less ELSE 0) = Cardinality(Unspent(ledger, id))
  <1>1. PICK U, X, C, V :
          /\ U = Unspent(ledger, id - 1) /\ X = ledger[id].spends
          /\ C = (IF ledger[id].creates THEN {id} ELSE {}) /\ V = U \cup C
    OBVIOUS
  <1>2. /\ id \in Nat /\ X \subseteq U /\ U \subseteq CoinIds /\ id \notin U
        /\ ledger[id].creates \in BOOLEAN /\ Unspent(ledger, id) = V \ X /\ id \in CoinIds
    BY <1>1, UnspentStep
  <1>3. IsFiniteSet(U) /\ U \subseteq Nat /\ V \subseteq Nat /\ X \in SUBSET V /\ V \subseteq CoinIds
    <2>1. C \subseteq CoinIds
      BY <1>1, <1>2
    <2> QED BY <1>1, <1>2, <2>1, CoinIdsFinite, FS_Subset
  <1>4. IsFiniteSet(V) /\ IsFiniteSet(X)
    BY <1>3, CoinIdsFinite, FS_Subset
  <1>5. /\ Worth(U) \in Nat /\ Worth(V) = (IF ledger[id].creates THEN Worth(U) + id ELSE Worth(U))
        /\ Cardinality(U) \in Nat
        /\ Cardinality(V) = (IF ledger[id].creates THEN Cardinality(U) + 1 ELSE Cardinality(U))
    <2>1. U \in SUBSET U
      OBVIOUS
    <2>2. Worth(U) \in Nat /\ Cardinality(U) \in Nat
      BY <1>3, <2>1, WorthOf, FS_CardinalityType
    <2>3. CASE ledger[id].creates
      <3>1. V = U \cup {id}
        BY <1>1, <2>3
      <3>2. id \in Nat \ U
        BY <1>2
      <3>3. Worth(V) = Worth(U) + id
        BY <1>3, <3>1, <3>2, WorthAdd
      <3>4. Cardinality(V) = Cardinality(U) + 1
        BY <1>2, <1>3, <3>1, FS_AddElement
      <3> QED BY <2>2, <2>3, <3>3, <3>4
    <2>4. CASE ~ledger[id].creates
      <3>1. V = U
        BY <1>1, <2>4
      <3> QED BY <2>2, <2>4, <3>1
    <2> QED BY <2>3, <2>4
  <1>6. /\ Worth(V) \in Nat /\ Worth(X) \in Nat /\ Worth(V \ X) \in Nat
        /\ Worth(V) = Worth(X) + Worth(V \ X)
    BY <1>3, <1>4, WorthTake
  <1>7. /\ Cardinality(V) \in Nat /\ Cardinality(X) \in Nat /\ Cardinality(X) <= Cardinality(V)
        /\ Cardinality(V \ X) = Cardinality(V) - Cardinality(X)
    <2>1. V \cap X = X
      BY <1>3
    <2>2. Cardinality(V \ X) = Cardinality(V) - Cardinality(V \cap X)
      BY <1>4, FS_Difference
    <2>3. Cardinality(X) <= Cardinality(V)
      BY <1>3, <1>4, FS_Subset
    <2> QED BY <1>4, <2>1, <2>2, <2>3, FS_CardinalityType
  <1>8. AddCreated(b, id) = Worth(V)
    BY <1>1, <1>5 DEF AddCreated
  <1>9. (IF Worth(V) > Worth(X) THEN Worth(V) - Worth(X) ELSE 0) = Worth(V \ X)
    BY <1>6
  <1>10. SubtractSpent(AddCreated(b, id), id) = Worth(V \ X)
    BY <1>1, <1>8, <1>9 DEF SubtractSpent
  <1>11. (IF Cardinality(V) > Cardinality(X) THEN Cardinality(V) - Cardinality(X) ELSE 0) = Cardinality(V \ X)
    BY <1>7
  <1>12. (IF ledger[id].creates THEN k + 1 ELSE k) = Cardinality(V)
    BY <1>1, <1>5
  <1> QED BY <1>1, <1>2, <1>10, <1>11, <1>12

(* Steps that account nothing and read nothing: streams end at most. *)
LEMMA StreamKeeps ==
    ASSUME StreamInv, ClientInv, ledger' = ledger, "started" \in past => "started" \in past',
           subs' = subs, UNCHANGED balanceVars, InHand' <=> InHand,
           InHand => msg'["async"] = msg["async"],
           \A s \in 1..MaxSubs : stream'[s] = Off \/ stream'[s] = stream[s]
    PROVE  StreamInv'
  <1> SUFFICES ASSUME "started" \notin past' PROVE
                 /\ \A s \in 1..MaxSubs : s > subs' => stream'[s] = Off
                 /\ handled' = <<>> => night_balance_' = 0 /\ utxo_count_' = 0
                 /\ subs' = 0 => handled' = <<>> /\ ~InHand'
                 /\ subs' = 1 => SingleStream'
    BY DEF StreamInv, Off
  <1>1. UNCHANGED <<night_balance_, utxo_count_, handled>>
    BY DEF balanceVars
  <1>2. Pending' = Pending
    BY DEF Pending
  <1>3. stream'[1] # Off => stream'[1] = stream[1] /\ stream[1] # Off
    BY OffIsNat
  <1>4. ASSUME subs' = 1 PROVE SingleStream'
    <2>1. SingleStream
      BY <1>4 DEF StreamInv
    <2> HIDE DEF InHand, Pending
    <2> QED BY <1>1, <1>2, <1>3, <2>1 DEF SingleStream, Off
  <1> QED BY <1>1, <1>4 DEF StreamInv

(* The subscription is sent. *)
LEMMA StreamSubscribes ==
    ASSUME StreamInv, ClientInv, ledger' = ledger, "started" \in past => "started" \in past',
           subs' = subs + 1, UNCHANGED <<balanceVars, reader, msg>>,
           \A s \in 1..MaxSubs : stream'[s] = stream[s] \/ s = subs + 1
    PROVE  StreamInv'
  <1> SUFFICES ASSUME "started" \notin past' PROVE
                 /\ \A s \in 1..MaxSubs : s > subs' => stream'[s] = Off
                 /\ handled' = <<>> => night_balance_' = 0 /\ utxo_count_' = 0
                 /\ subs' = 0 => handled' = <<>> /\ ~InHand'
                 /\ subs' = 1 => SingleStream'
    BY DEF StreamInv, Off
  <1>1. subs \in Nat /\ MaxSubs \in Nat
    BY OffIsNat DEF ClientInv
  <1>2. UNCHANGED <<night_balance_, utxo_count_, handled>> /\ (InHand' <=> InHand)
    BY DEF balanceVars, InHand
  <1>3. \A s \in 1..MaxSubs : s > subs' => stream'[s] = Off
    <2> SUFFICES ASSUME NEW s \in 1..MaxSubs, s > subs + 1 PROVE stream'[s] = Off
      OBVIOUS
    <2>1. s > subs /\ s # subs + 1
      BY <1>1
    <2> QED BY <2>1 DEF StreamInv
  <1>4. ASSUME subs' = 1 PROVE SingleStream'
    <2>1. subs = 0
      BY <1>1, <1>4
    <2>2. handled' = <<>> /\ ~InHand'
      BY <1>2, <2>1 DEF StreamInv
    <2>3. Len(handled') = 0
      BY <2>2
    <2> HIDE DEF InHand
    <2> QED BY <2>2, <2>3 DEF SingleStream
  <1>5. subs' # 0
    BY <1>1
  <1> QED BY <1>2, <1>3, <1>4, <1>5 DEF StreamInv

(* A reader takes a message. *)
LEMMA StreamReceives ==
    ASSUME LedgerInv, StreamInv, ClientInv, ledger' = ledger, past' = past, Receive("async")
    PROVE  StreamInv'
  <1>a. "async" \in Readers
    BY DEF Readers
  <1>1. /\ reader["async"] = "reading" /\ reader'["async"] = "handle"
        /\ subs' = subs /\ UNCHANGED balanceVars
    BY <1>a, ReceiveEffect
  <1>2. PICK s \in 1..MaxSubs :
          /\ stream[s] # Off
          /\ \A t \in 1..MaxSubs : t # s => stream'[t] = stream[t]
          /\ \/ /\ stream[s] < Len(ledger) /\ stream'[s] = stream[s] + 1
                /\ msg'["async"].kind = "utxo" /\ msg'["async"].id = stream[s] + 1
             \/ msg'["async"].kind # "utxo" /\ stream'[s] \in {stream[s], Off}
    BY <1>a, ReceiveEffect
  <1>3. ~InHand
    BY <1>1 DEF InHand
  <1>4. CASE msg'["async"].kind # "utxo" /\ stream'[s] \in {stream[s], Off}
    <2>1. ~InHand'
      BY <1>4 DEF InHand
    <2>2. \A t \in 1..MaxSubs : stream'[t] = Off \/ stream'[t] = stream[t]
      BY <1>2, <1>4
    <2> HIDE DEF InHand
    <2> QED BY <1>1, <1>3, <2>1, <2>2, StreamKeeps
  <1>5. CASE /\ stream[s] < Len(ledger) /\ stream'[s] = stream[s] + 1
             /\ msg'["async"].kind = "utxo" /\ msg'["async"].id = stream[s] + 1
    <2> SUFFICES ASSUME "started" \notin past' PROVE
                 /\ \A t \in 1..MaxSubs : t > subs' => stream'[t] = Off
                 /\ handled' = <<>> => night_balance_' = 0 /\ utxo_count_' = 0
                 /\ subs' = 0 => handled' = <<>> /\ ~InHand'
                 /\ subs' = 1 => SingleStream'
      BY DEF StreamInv, Off
    <2>1. InHand'
      BY <1>1, <1>5 DEF InHand
    <2>2. s \in Nat /\ subs \in Nat /\ ~(s > subs) /\ subs # 0
      <3>1. ~(s > subs) /\ s \in Nat /\ subs \in Nat /\ s > 0
        BY <1>2, OffIsNat DEF StreamInv, ClientInv
      <3> QED BY <3>1
    <2>3. UNCHANGED <<night_balance_, utxo_count_, handled>>
      BY <1>1 DEF balanceVars
    <2>4. \A t \in 1..MaxSubs : t > subs' => stream'[t] = Off
      BY <1>1, <1>2, <2>2 DEF StreamInv
    <2>5. ASSUME subs' = 1 PROVE SingleStream'
      <3>1. SingleStream /\ s = 1
        BY <1>1, <1>2, <2>2, <2>5 DEF StreamInv
      <3>2. stream[1] \in Nat /\ Len(ledger) \in Nat
        BY <1>2, <3>1 DEF ClientInv, LedgerInv
      <3>3. Pending = 0 /\ Pending' = 1
        BY <1>3, <2>1 DEF Pending
      <3>4. msg'["async"].id \in 1..Len(ledger)
        BY <1>5, <3>1, <3>2
      <3>5. handled # <<>> => stream[1] = handled[1] + Len(handled) - 1 /\ handled[1] \in Nat /\ Len(handled) \in Nat
        <4>1. ASSUME handled # <<>> PROVE Len(handled) \in Nat \ {0} /\ handled[1] \in Nat
          BY <4>1 DEF ClientInv
        <4>2. ASSUME handled # <<>> PROVE stream[1] = handled[1] + Len(handled) - 1 + 0
          BY <1>2, <3>1, <3>3, <4>2 DEF SingleStream
        <4> QED BY <4>1, <4>2
      <3>6. handled # <<>> => stream[1] + 1 = handled[1] + Len(handled) /\ stream[1] + 1 = handled[1] + Len(handled) - 1 + 1
        BY <3>2, <3>5
      <3> HIDE DEF InHand, Pending
      <3> QED BY <1>5, <2>1, <2>3, <3>1, <3>3, <3>4, <3>6 DEF SingleStream, Off
    <2> HIDE DEF InHand
    <2> QED BY <1>1, <2>2, <2>3, <2>4, <2>5 DEF StreamInv
  <1> QED BY <1>2, <1>4, <1>5

(* A reader accounts the transaction in hand. *)
LEMMA StreamHandles ==
    ASSUME LedgerInv, StreamInv, ClientInv, ledger' = ledger, past' = past, HandleUtxo("async")
    PROVE  StreamInv'
  <1>a. "async" \in Readers
    BY DEF Readers
  <1>1. PICK id \in Nat : id = msg["async"].id /\ handled' = Append(handled, id)
    BY <1>a, HandleUtxoEffect
  <1>2. /\ reader["async"] = "handle" /\ msg["async"].kind = "utxo" /\ reader'["async"] = "loop"
        /\ stream' = stream /\ subs' = subs
    BY <1>a, HandleUtxoEffect DEF wireVars
  <1>3. InHand /\ ~InHand' /\ Pending = 1 /\ Pending' = 0
    BY <1>2 DEF InHand, Pending
  <1>4. /\ handled \in Seq(Nat) /\ Len(handled) \in Nat /\ Len(handled') = Len(handled) + 1
        /\ handled' # <<>> /\ handled'[Len(handled) + 1] = id
        /\ \A i \in 1..Len(handled) : handled'[i] = handled[i]
    BY <1>1 DEF ClientInv
  <1> SUFFICES ASSUME "started" \notin past' PROVE
                 /\ \A s \in 1..MaxSubs : s > subs' => stream'[s] = Off
                 /\ handled' = <<>> => night_balance_' = 0 /\ utxo_count_' = 0
                 /\ subs' = 0 => handled' = <<>> /\ ~InHand'
                 /\ subs' = 1 => SingleStream'
    BY DEF StreamInv, Off
  <1> HIDE DEF InHand, Pending
  <1>5. subs # 0
    BY <1>3 DEF StreamInv
  <1>6. ASSUME subs = 1 PROVE SingleStream'
    <2>1. SingleStream
      BY <1>6 DEF StreamInv
    <2>2. id \in 1..Len(ledger)
      BY <1>1, <1>3, <2>1 DEF SingleStream
    <2>3. PICK first \in Nat, n \in Nat :
            /\ n = Len(handled) /\ first = handled'[1] /\ id = first + n
            /\ stream[1] # Off => stream[1] = first + n
      <3>1. CASE handled = <<>>
        <4>1. Len(handled) = 0 /\ handled'[1] = id
          BY <1>4, <3>1
        <4>2. stream[1] # Off => stream[1] = id
          BY <1>1, <1>3, <2>1 DEF SingleStream
        <4>3. id = id + 0
          OBVIOUS
        <4> QED BY <4>1, <4>2, <4>3
      <3>2. CASE handled # <<>>
        <4>1. 1 \in 1..Len(handled)
          BY <1>4, <3>2
        <4>2. handled'[1] = handled[1] /\ handled[1] \in Nat
          BY <1>4, <4>1
        <4>3. id = handled[1] + Len(handled)
          BY <1>1, <1>3, <2>1, <3>2 DEF SingleStream
        <4>4. stream[1] # Off => stream[1] = id
          BY <1>1, <1>3, <2>1 DEF SingleStream
        <4> QED BY <1>4, <4>2, <4>3, <4>4
      <3> QED BY <3>1, <3>2
    <2>4. ASSUME NEW i \in 1..Len(handled')
          PROVE  handled'[i] = first + i - 1 /\ handled'[i] \in 1..Len(ledger)
      <3>1. CASE i \in 1..Len(handled)
        <4>1. handled'[i] = handled[i] /\ handled[i] = handled[1] + i - 1 /\ handled[i] \in 1..Len(ledger)
          BY <1>4, <2>1, <3>1 DEF SingleStream
        <4>2. handled[1] = first
          BY <1>4, <2>3, <3>1
        <4> QED BY <4>1, <4>2
      <3>2. CASE i = Len(handled) + 1
        <4>1. handled'[i] = id /\ i = n + 1
          BY <1>4, <2>3, <3>2
        <4>2. first + (n + 1) - 1 = first + n
          BY <2>3
        <4> QED BY <2>2, <2>3, <4>1, <4>2
      <3> QED BY <1>4, <3>1, <3>2
    <2>5. stream'[1] # Off => stream'[1] = first + Len(handled') - 1 + 0
      BY <1>2, <1>4, <2>3
    <2>6. ASSUME first = 1
          PROVE  /\ night_balance_' = Worth(Unspent(ledger, Len(handled')))
                 /\ utxo_count_' = Cardinality(Unspent(ledger, Len(handled')))
      <3>1. id = Len(handled') /\ id - 1 = Len(handled)
        BY <1>4, <2>3, <2>6
      <3>2. /\ night_balance_ = Worth(Unspent(ledger, id - 1))
            /\ utxo_count_ = Cardinality(Unspent(ledger, id - 1))
        <4>1. CASE handled = <<>>
          <5>1. Len(handled) = 0 /\ night_balance_ = 0 /\ utxo_count_ = 0 /\ id - 1 = 0
            BY <3>1, <4>1 DEF StreamInv
          <5>2. Unspent(ledger, 0) = {}
            BY UnspentNone DEF LedgerInv
          <5>3. Worth(Unspent(ledger, 0)) = 0 /\ Cardinality(Unspent(ledger, 0)) = 0
            BY <5>2, WorthEmpty, FS_EmptySet
          <5> QED BY <5>1, <5>3
        <4>2. CASE handled # <<>>
          <5>1. 1 \in 1..Len(handled)
            BY <1>4, <4>2
          <5>2. handled[1] = 1
            BY <1>4, <2>3, <2>6, <5>1
          <5> QED BY <2>1, <3>1, <4>2, <5>2 DEF SingleStream
        <4> QED BY <4>1, <4>2
      <3>3. LET more == IF ledger[id].creates THEN utxo_count_ + 1 ELSE utxo_count_
                less == Cardinality(ledger[id].spends)
            IN  /\ SubtractSpent(AddCreated(night_balance_, id), id) = Worth(Unspent(ledger, id))
                /\ (IF more > less THEN more - less ELSE 0) = Cardinality(Unspent(ledger, id))
        <4>1. PICK b, k : b = night_balance_ /\ k = utxo_count_
          OBVIOUS
        <4>2. b = Worth(Unspent(ledger, id - 1)) /\ k = Cardinality(Unspent(ledger, id - 1))
          BY <3>2, <4>1
        <4>3. LET more == IF ledger[id].creates THEN k + 1 ELSE k
                  less == Cardinality(ledger[id].spends)
              IN  /\ SubtractSpent(AddCreated(b, id), id) = Worth(Unspent(ledger, id))
                  /\ (IF more > less THEN more - less ELSE 0) = Cardinality(Unspent(ledger, id))
          BY <2>2, <4>2, AccountOne
        <4> QED BY <4>1, <4>3
      <3>4. LET more == IF ledger[id].creates THEN utxo_count_ + 1 ELSE utxo_count_
                less == Cardinality(ledger[id].spends)
            IN  /\ night_balance_' = SubtractSpent(AddCreated(night_balance_, id), id)
                /\ utxo_count_' = IF more > less THEN more - less ELSE 0
        BY <1>1 DEF HandleUtxo
      <3> QED BY <3>1, <3>3, <3>4
    <2> QED BY <1>3, <1>4, <2>3, <2>4, <2>5, <2>6 DEF SingleStream, Off
  <1> QED BY <1>2, <1>4, <1>5, <1>6 DEF StreamInv

(* A new transaction, and a new client. *)
LEMMA StreamGrows ==
    ASSUME LedgerInv, StreamInv, ClientInv, LedgerGrows, UNCHANGED <<clientVars, past>>
    PROVE  StreamInv'
  <1>1. /\ Len(ledger) <= Len(ledger)' /\ Len(ledger) \in Nat /\ Len(ledger') \in Nat
        /\ \A n \in 0..Len(ledger) : Unspent(ledger', n) = Unspent(ledger, n)
    BY LedgerStep DEF LedgerInv
  <1>2. UNCHANGED <<stream, subs, reader, msg, night_balance_, utxo_count_, handled, past>>
    BY DEF clientVars, wireVars, threadVars, balanceVars
  <1>3. (InHand' <=> InHand) /\ Pending' = Pending
    BY <1>2 DEF InHand, Pending
  <1>4. \A i : i \in 1..Len(ledger) => i \in 1..Len(ledger')
    BY <1>1
  <1> HIDE DEF InHand, Pending
  <1>5. ASSUME SingleStream PROVE SingleStream'
    <2>1. ASSUME handled # <<>>, handled[1] = 1
          PROVE  Unspent(ledger', Len(handled)) = Unspent(ledger, Len(handled))
      <3>1. Len(handled) \in Nat /\ Len(handled) \in 1..Len(handled)
        BY <2>1 DEF ClientInv
      <3>2. handled[Len(handled)] = 1 + Len(handled) - 1 /\ handled[Len(handled)] \in 1..Len(ledger)
        BY <1>5, <2>1, <3>1 DEF SingleStream
      <3>3. Len(handled) \in 0..Len(ledger)
        BY <1>1, <3>1, <3>2
      <3> QED BY <1>1, <3>3
    <2> QED BY <1>2, <1>3, <1>4, <1>5, <2>1 DEF SingleStream, Off
  <1> QED BY <1>2, <1>3, <1>5 DEF StreamInv, Off

LEMMA StreamReplaced ==
    ASSUME ClientInv, ClientReplaced, reader["async"] = "none"
    PROVE  ClientInv' /\ StreamInv' /\ stream'[1] = Off
  <1>1. /\ ws' = "none" /\ connected_' = FALSE /\ stream' = [s \in 1..MaxSubs |-> Off] /\ subs' = 0
        /\ running_' = FALSE /\ night_balance_' = 0 /\ utxo_count_' = 0 /\ handled' = <<>>
        /\ subscribed_' = FALSE /\ call' = NoCall /\ UNCHANGED <<reader, msg>>
    BY DEF ClientReplaced
  <1>2. stream' \in [1..MaxSubs -> Nat] /\ (\A s \in 1..MaxSubs : stream'[s] = Off) /\ stream'[1] = Off
    BY <1>1, NoStreams, OffIsNat
  <1>3. call' \in Calls
    <2>1. PICK b \in BOOLEAN, z \in Nat : b = FALSE /\ z = 0
      OBVIOUS
    <2>2. call' = [op |-> "none", from |-> z, at |-> "idle", ok |-> b]
      BY <1>1, <2>1 DEF NoCall
    <2> QED BY <2>2 DEF Calls, CallNames, CallPlaces
  <1>4. ~InHand'
    BY <1>1 DEF InHand
  <1>5. ClientInv'
    <2>1. subs' \in 0..MaxSubs /\ handled' \in Seq(Nat)
      BY <1>1, OffIsNat
    <2> QED BY <1>1, <1>2, <1>3, <2>1 DEF ClientInv
  <1>6. subs' # 1
    BY <1>1
  <1> QED BY <1>1, <1>2, <1>4, <1>5, <1>6 DEF StreamInv, Off

(* The call steps, common to both users.  A step that spawns a reader finds *)
(* none.                                                                   *)
LEMMA StreamCalls ==
    ASSUME LedgerInv, ClientInv, ThreadInv, StreamInv, CallStep, ledger' = ledger,
           "started" \in past => "started" \in past'
    PROVE  StreamInv'
  <1>a. "async" \in Readers
    BY DEF Readers
  <1> DEFINE Ends == \A s \in 1..MaxSubs : stream'[s] = Off \/ stream'[s] = stream[s]
  <1>0. ASSUME subs' = subs, UNCHANGED balanceVars, Ends, InHand' <=> InHand,
               InHand => msg'["async"] = msg["async"]
        PROVE  StreamInv'
    <2> HIDE DEF InHand
    <2> QED BY <1>0, StreamKeeps
  <1>1. CASE CallConnects
    <2>1. subs' = subs /\ UNCHANGED <<reader, msg, balanceVars>> /\ Ends
      BY <1>1, ConnectsEffect DEF threadVars
    <2> QED BY <1>0, <2>1 DEF InHand
  <1>2. CASE CallConnectFails
    <2>1. subs' = subs /\ UNCHANGED <<reader, msg, balanceVars>> /\ Ends
      BY <1>2, ConnectFailsEffect DEF threadVars
    <2> QED BY <1>0, <2>1 DEF InHand
  <1>3. CASE CallSubscribes
    <2>1. /\ UNCHANGED <<reader, msg, balanceVars>>
          /\ \/ stream' = stream /\ subs' = subs
             \/ subs' = subs + 1 /\ \A s \in 1..MaxSubs : stream'[s] = stream[s] \/ s = subs + 1
      BY <1>3, SubscribesEffect DEF threadVars
    <2>2. CASE stream' = stream /\ subs' = subs
      BY <1>0, <2>1, <2>2 DEF InHand
    <2>3. CASE subs' = subs + 1 /\ \A s \in 1..MaxSubs : stream'[s] = stream[s] \/ s = subs + 1
      BY <2>1, <2>3, StreamSubscribes
    <2> QED BY <2>1, <2>2, <2>3
  <1>4. CASE CallStartsReader
    <2>1. /\ UNCHANGED <<stream, subs, msg, balanceVars>> /\ call.at = "spawn"
          /\ reader' = reader \/ (~running_ /\ reader'["async"] = "loop")
      BY <1>4, StartsReaderEffect DEF threadVars, wireVars
    <2>2. ~running_ => reader["async"] = "none"
      BY <2>1 DEF ThreadInv
    <2>3. InHand' <=> InHand
      BY <2>1, <2>2 DEF InHand
    <2> HIDE DEF InHand
    <2> QED BY <1>0, <2>1, <2>3
  <1>5. CASE CallUnsubscribes
    <2>1. /\ subs' = subs /\ UNCHANGED <<msg, balanceVars>> /\ Ends
          /\ reader'["async"] = reader["async"] \/ (reader["async"] = "reading" /\ reader'["async"] = "leave")
      BY <1>a, <1>5, UnsubscribesEffect
    <2> QED BY <1>0, <2>1 DEF InHand
  <1>6. CASE CallStops
    <2>1. /\ subs' = subs /\ UNCHANGED <<msg, balanceVars>> /\ Ends
          /\ reader'["async"] = reader["async"] \/ (reader["async"] = "reading" /\ reader'["async"] = "leave")
      BY <1>a, <1>6, StopsEffect
    <2> QED BY <1>0, <2>1 DEF InHand
  <1>7. CASE CallJoins
    <2>1. /\ UNCHANGED <<stream, subs, msg, balanceVars>>
          /\ reader["async"] \in {"none", "done"} /\ reader'["async"] = "none"
      BY <1>a, <1>7, JoinsEffect DEF wireVars
    <2> QED BY <1>0, <2>1 DEF InHand
  <1> QED BY <1>1, <1>2, <1>3, <1>4, <1>5, <1>6, <1>7 DEF CallStep

(* The reader's steps. *)
LEMMA StreamReads ==
    ASSUME LedgerInv, ClientInv, StreamInv, ledger' = ledger, past' = past,
           \/ LoopTop("async") \/ Receive("async") \/ ReadFails("async")
           \/ HandleUtxo("async") \/ HandleOther("async") \/ Leave("async")
    PROVE  StreamInv'
  <1>a. "async" \in Readers
    BY DEF Readers
  <1>1. ASSUME UNCHANGED <<stream, subs, balanceVars>>, InHand' <=> InHand,
               InHand => msg'["async"] = msg["async"]
        PROVE  StreamInv'
    <2> HIDE DEF InHand
    <2> QED BY <1>1, StreamKeeps
  <1>2. CASE LoopTop("async")
    <2>1. /\ UNCHANGED <<stream, subs, balanceVars>>
          /\ reader["async"] = "loop" /\ reader'["async"] \in {"reading", "leave"}
      BY <1>a, <1>2, LoopTopEffect DEF wireVars
    <2> QED BY <1>1, <2>1 DEF InHand
  <1>3. CASE ReadFails("async")
    <2>1. /\ UNCHANGED <<stream, subs, balanceVars>>
          /\ reader["async"] = "reading" /\ reader'["async"] = "leave"
      BY <1>a, <1>3, ReadFailsEffect
    <2> QED BY <1>1, <2>1 DEF InHand
  <1>4. CASE HandleOther("async")
    <2>1. /\ UNCHANGED <<stream, subs, balanceVars>>
          /\ msg["async"].kind # "utxo" /\ reader'["async"] = "loop"
      BY <1>a, <1>4, HandleOtherEffect DEF wireVars
    <2> QED BY <1>1, <2>1 DEF InHand
  <1>5. CASE Leave("async")
    <2>1. /\ UNCHANGED <<stream, subs, balanceVars>>
          /\ reader["async"] = "leave" /\ reader'["async"] = "done"
      BY <1>a, <1>5, LeaveEffect
    <2> QED BY <1>1, <2>1 DEF InHand
  <1> QED BY <1>2, <1>3, <1>4, <1>5, StreamReceives, StreamHandles
-----------------------------------------------------------------------------
(* The wallet's data. *)
LEMMA TotalsAreNat ==
    ASSUME NEW available \in [CoinIds -> Nat]
    PROVE  Total(available) \in Nat /\ RegisteredTotal(available) \in Nat
  <1>1. PICK w : w = Values(available)
    OBVIOUS
  <1>2. \A c \in CoinIds : w[c] \in Nat
    BY <1>1, CoinIdsFinite DEF Values
  <1>3. PICK S, R : S = CoinIds /\ R = Registered
    OBVIOUS
  <1>4. IsFiniteSet(S) /\ R \subseteq S /\ \A c \in S : w[c] \in Nat
    BY <1>2, <1>3, CoinIdsFinite, WalletAssumption DEF CoinIds
  <1>5. IsFiniteSet(R) /\ \A c \in R : w[c] \in Nat
    BY <1>4, FS_Subset
  <1>6. SumOver(w, S) \in Nat /\ SumOver(w, R) \in Nat
    BY <1>4, <1>5, SumUnfolds
  <1> QED BY <1>1, <1>3, <1>6 DEF Total, RegisteredTotal

LEMMA CopiesAreNat ==
    ASSUME NEW available \in [CoinIds -> Nat], NEW S
    PROVE  AddCopies(available, S) \in [CoinIds -> Nat]
  BY DEF AddCopies

LEMMA NewWalletExact ==
    ASSUME LedgerInv
    PROVE  NewWallet \in WalletType /\ Exact(NewWallet, ledger) /\ DustExact(NewWallet)
  <1>1. PICK z \in Nat, a \in [CoinIds -> Nat] : z = 0 /\ a = NoCoins
    BY DEF NoCoins
  <1>2. PICK n : n = [available |-> a, balance |-> z, applied |-> z, dust |-> z, foreign |-> z]
    OBVIOUS
  <1>3. /\ n \in WalletType /\ n.available = a /\ n.balance = z /\ n.applied = z /\ n.dust = z /\ n.foreign = z
    BY <1>2 DEF WalletType
  <1>4. n = NewWallet
    BY <1>1, <1>2 DEF NewWallet
  <1>5. \A c \in CoinIds : a[c] = 0
    BY <1>1 DEF NoCoins
  <1>6. Unspent(ledger, 0) = {} /\ Worth({}) = 0 /\ 0 <= Len(ledger)
    BY UnspentNone, WorthEmpty DEF LedgerInv
  <1>7. Exact(n, ledger)
    BY <1>1, <1>3, <1>5, <1>6 DEF Exact
  <1>8. RegisteredTotal(a) = 0
    <2>1. PICK w, S : w = Values(a) /\ S = Registered
      OBVIOUS
    <2>2. S \subseteq CoinIds /\ IsFiniteSet(S)
      BY <2>1, CoinIdsFinite, WalletAssumption, FS_Subset DEF CoinIds
    <2>3. \A c \in S : w[c] = 0
      BY <1>5, <2>1, <2>2, CoinIdsFinite DEF Values
    <2>4. /\ \A c \in S : w[c] \in Nat
          /\ {} \in SUBSET S /\ (\A c \in {} : w[c] = w[c]) /\ \A c \in S \ {} : w[c] = 0
      BY <2>3
    <2>5. SumOver(w, S) = SumOver(w, {})
      BY <2>2, <2>4, SumSelects
    <2> QED BY <2>1, <2>5, SumEmpty DEF RegisteredTotal
  <1>9. DustExact(n)
    BY <1>1, <1>3, <1>8 DEF DustExact
  <1> QED BY <1>3, <1>4, <1>7, <1>9

LEMMA ExactGrows ==
    ASSUME LedgerInv, LedgerGrows, NEW w \in WalletType, Exact(w, ledger)
    PROVE  Exact(w, ledger')
  <1>1. /\ Len(ledger) <= Len(ledger)' /\ Len(ledger) \in Nat /\ Len(ledger') \in Nat
        /\ \A n \in 0..Len(ledger) : Unspent(ledger', n) = Unspent(ledger, n)
    BY LedgerStep DEF LedgerInv
  <1>2. w.applied \in Nat
    BY DEF WalletType
  <1>3. w.foreign = 0 => w.applied \in 0..Len(ledger) /\ w.applied <= Len(ledger')
    BY <1>1, <1>2 DEF Exact
  <1> QED BY <1>1, <1>3 DEF Exact

(* A transaction applied in its turn. *)
LEMMA UtxoApplied ==
    ASSUME LedgerInv, wallet \in WalletType, Exact(wallet, ledger), NEW id \in 1..Len(ledger),
           wallet.foreign = 0 => id = wallet.applied + 1, OnUtxo(id)
    PROVE  /\ wallet' \in WalletType /\ Exact(wallet', ledger)
           /\ wallet'.applied = id /\ wallet'.foreign = wallet.foreign
  <1>1. PICK C : C = (IF ledger[id].creates THEN {id} ELSE {})
    OBVIOUS
  <1>2. PICK added : added = AddCopies(wallet.available, C)
    OBVIOUS
  <1>3. PICK kept : kept = [c \in CoinIds |-> IF c \in ledger[id].spends THEN 0 ELSE added[c]]
    OBVIOUS
  <1>4. wallet' = [wallet EXCEPT !.available = kept, !.balance = Total(kept), !.applied = id]
    BY <1>1, <1>2, <1>3 DEF OnUtxo
  <1>5. added \in [CoinIds -> Nat] /\ wallet.available \in [CoinIds -> Nat]
    BY <1>2, CopiesAreNat DEF WalletType
  <1>6. kept \in [CoinIds -> Nat]
    BY <1>3, <1>5
  <1>7. PICK total \in Nat : total = Total(kept)
    BY <1>6, TotalsAreNat
  <1>8. /\ wallet' \in WalletType /\ wallet'.available = kept /\ wallet'.balance = total
        /\ wallet'.applied = id /\ wallet'.foreign = wallet.foreign
    <2>1. id \in Nat
      BY DEF LedgerInv
    <2>2. wallet' = [wallet EXCEPT !.available = kept, !.balance = total, !.applied = id]
      BY <1>4, <1>7
    <2> QED BY <1>6, <2>1, <2>2 DEF WalletType
  <1>9. ASSUME wallet.foreign = 0
        PROVE  /\ id <= Len(ledger)
               /\ \A c \in CoinIds : kept[c] = (IF c \in Unspent(ledger, id) THEN 1 ELSE 0)
               /\ total = Worth(Unspent(ledger, id))
    <2>1. id - 1 = wallet.applied /\ id <= Len(ledger)
      BY <1>9 DEF WalletType, LedgerInv
    <2>2. PICK U, X, V : U = Unspent(ledger, id - 1) /\ X = ledger[id].spends /\ V = Unspent(ledger, id)
      OBVIOUS
    <2>3. /\ X \subseteq U /\ id \notin U /\ V = (U \cup C) \ X /\ V \in SUBSET CoinIds
      BY <1>1, <2>2, UnspentStep
    <2>4. \A c \in CoinIds : wallet.available[c] = (IF c \in U THEN 1 ELSE 0)
      BY <1>9, <2>1, <2>2 DEF Exact
    <2>5. \A c \in C : c = id
      BY <1>1
    <2>6. \A c \in CoinIds : added[c] = (IF c \in U \cup C THEN 1 ELSE 0)
      <3> SUFFICES ASSUME NEW c \in CoinIds PROVE added[c] = (IF c \in U \cup C THEN 1 ELSE 0)
        OBVIOUS
      <3>1. added[c] = IF c \in C /\ wallet.available[c] < MaxCopies THEN wallet.available[c] + 1 ELSE wallet.available[c]
        BY <1>2 DEF AddCopies
      <3>2. MaxCopies \in Nat /\ 0 < MaxCopies
        BY WalletAssumption
      <3>3. c \in C => wallet.available[c] = 0
        BY <2>3, <2>4, <2>5
      <3> QED BY <2>4, <3>1, <3>2, <3>3
    <2>7. \A c \in CoinIds : kept[c] = (IF c \in V THEN 1 ELSE 0)
      BY <1>3, <2>2, <2>3, <2>6
    <2>8. Total(kept) = Worth(V)
      BY <1>6, <2>3, <2>7, TotalIsWorth
    <2> QED BY <1>7, <2>1, <2>2, <2>7, <2>8
  <1> QED BY <1>8, <1>9 DEF Exact
-----------------------------------------------------------------------------
(* The steps of the wallet's user, first those that change nothing but the *)
(* wallet's data.                                                          *)
LEMMA ClientSame ==
    ASSUME LedgerInv, ClientInv, ThreadInv, StreamInv, UNCHANGED <<ledger, clientVars, past>>
    PROVE  LedgerInv' /\ ClientInv' /\ ThreadInv' /\ StreamInv'
  <1>1. UNCHANGED <<ledger, ws, connected_, stream, subs, running_, reader, msg, night_balance_,
                    utxo_count_, handled, subscribed_, call, past>>
    BY DEF clientVars, wireVars, threadVars, balanceVars
  <1>2. (InHand' <=> InHand) /\ Pending' = Pending
    BY <1>1 DEF InHand, Pending
  <1>3. LedgerInv' /\ ClientInv' /\ ThreadInv'
    BY <1>1 DEF LedgerInv, ClientInv, ThreadInv
  <1>4. StreamInv'
    <2>1. UNCHANGED <<subs, balanceVars>> /\ ledger' = ledger /\ past' = past
      BY <1>1 DEF balanceVars
    <2>2. msg'["async"] = msg["async"] /\ \A s \in 1..MaxSubs : stream'[s] = stream[s]
      BY <1>1
    <2> HIDE DEF InHand
    <2> QED BY <1>2, <2>1, <2>2, StreamKeeps
  <1> QED BY <1>3, <1>4

LEMMA InStepKeeps ==
    ASSUME InStep, wallet' = wallet, InHand' <=> InHand, InHand => msg'["async"] = msg["async"],
           stream'[1] = Off \/ stream'[1] = stream[1],
           call'.at \in {"connect", "send"} /\ wallet.foreign = 0 => call'.from = wallet.applied
    PROVE  InStep'
  <1>1. Pending' = Pending
    BY DEF Pending
  <1> HIDE DEF InHand, Pending
  <1> QED BY <1>1 DEF InStep, Off

LEMMA WalletKeeps ==
    ASSUME WalletInv, user' = user, UNCHANGED <<ledger, wallet, saved, scan>>, Untouched' => Untouched,
           user = "wallet" => InStep'
    PROVE  WalletInv'
  <1> HIDE DEF Untouched, InStep
  <1> QED BY DEF WalletInv

(* The phases without a client that is subscribed: nothing is in hand. *)
LEMMA OfflineStep ==
    ASSUME FollowInv, user = "wallet", user' = user, UNCHANGED <<ledger, clientVars, past>>,
           phase \in {"idle", "fallback", "scanning", "tally", "caught"},
           phase' \in {"idle", "fallback", "scanning", "tally", "caught"},
           wallet' \in WalletType, saved' \subseteq WalletType, scan' \in Scans,
           Exact(wallet', ledger), phase' \in {"idle", "caught"} => DustExact(wallet'),
           \A w \in saved' : Exact(w, ledger) /\ DustExact(w)
    PROVE  FollowInv'
  <1>1. LedgerInv' /\ ClientInv' /\ ThreadInv' /\ StreamInv'
    BY ClientSame DEF FollowInv
  <1>2. UNCHANGED <<ledger, stream, subs, reader, msg, call, past>>
    BY DEF clientVars, wireVars, threadVars, balanceVars
  <1>3. FirstInv'
    BY DEF FirstInv
  <1>4. PhaseInv /\ past = {} /\ subs = 0
    BY DEF FollowInv, PhaseInv
  <1>5. call.at \notin {"connect", "send", "spawn", "unsubscribe", "stop", "join"}
    BY <1>4 DEF PhaseInv
  <1>6. reader["async"] = "none"
    BY <1>4 DEF PhaseInv
  <1>7. PhaseInv'
    BY <1>2, <1>4, <1>5, <1>6 DEF PhaseInv
  <1>8. stream'[1] = Off /\ ~InHand'
    <2>1. "started" \notin past /\ 1 > subs
      BY <1>4
    <2>2. stream[1] = Off
      BY <1>4, <2>1, OffIsNat DEF FollowInv, StreamInv
    <2> QED BY <1>2, <1>6, <2>2 DEF InHand
  <1>9. InStep'
    BY <1>2, <1>5, <1>8 DEF InStep, Off
  <1>10. Untouched' => DustExact(wallet')
    BY <1>2, <1>5 DEF Untouched
  <1>11. WalletInv'
    <2> HIDE DEF Untouched, InStep
    <2>1. ledger' = ledger
      BY <1>2
    <2> QED BY <1>9, <1>10, <2>1 DEF WalletInv
  <1> QED BY <1>1, <1>3, <1>7, <1>11 DEF FollowInv

LEMMA ScanFacts ==
    /\ NoScan \in Scans
    /\ scan \in Scans => /\ scan.left \subseteq Nat /\ scan.found \subseteq CoinIds
                         /\ scan.last \in Nat /\ scan.tip \in Nat
  BY DEF NoScan, Scans

OfflineSteps ==
    \/ SkipScan \/ ScanBegins \/ ScanBlock \/ ScanEnds \/ SyncEnds \/ SyncCaught
    \/ Serialize \/ Restore \/ Revert

LEMMA OfflineFollows ==
    ASSUME FollowInv, user = "wallet", user' = user, past' = past, OfflineSteps
    PROVE  FollowInv'
  <1>0. /\ wallet \in WalletType /\ saved \subseteq WalletType /\ scan \in Scans
        /\ Exact(wallet, ledger) /\ (Untouched => DustExact(wallet))
        /\ \A w \in saved : Exact(w, ledger) /\ DustExact(w)
    <2> HIDE DEF Untouched
    <2> QED BY DEF FollowInv, WalletInv
  <1>a. wallet.available \in [CoinIds -> Nat] /\ wallet.foreign \in Nat
    BY <1>0 DEF WalletType
  <1>b. phase \in {"idle", "caught"} => DustExact(wallet)
    BY <1>0 DEF Untouched
  <1>1. CASE SkipScan
    <2>1. /\ phase = "fallback" /\ phase' = "tally" /\ UNCHANGED <<ledger, clientVars, wallet, scan, saved>>
      BY <1>1 DEF SkipScan
    <2> QED BY <1>0, <2>1, OfflineStep
  <1>2. CASE ScanBegins
    <2>1. PICK tip \in {0, FirstBlock + Len(ledger)}, from \in {wallet.applied, FirstBlock} :
            /\ from = (IF wallet.applied > 0 THEN wallet.applied ELSE FirstBlock)
            /\ scan' = [left |-> from..tip, found |-> {}, last |-> 0, tip |-> tip]
      BY <1>2 DEF ScanBegins
    <2>2. from \in Nat /\ tip \in Nat
      BY <1>0, <2>1, WalletAssumption DEF WalletType, FollowInv, LedgerInv
    <2>3. scan' \in Scans
      <3>1. PICK S \in SUBSET Int, z \in Nat : S = from..tip /\ z = 0
        BY <2>2
      <3>2. S \subseteq Nat
        BY <2>2, <3>1
      <3> QED BY <2>1, <2>2, <3>1, <3>2 DEF Scans
    <2>4. /\ phase = "fallback" /\ phase' = "scanning" /\ UNCHANGED <<ledger, clientVars, wallet, saved>>
      BY <1>2 DEF ScanBegins
    <2> QED BY <1>0, <2>3, <2>4, OfflineStep
  <1>3. CASE ScanBlock
    <2>1. PICK b \in scan.left :
            \E got \in {{}, {c \in Unspent(ledger, Len(ledger)) : FirstBlock + c = b}} :
              scan' = [scan EXCEPT !.left = @ \ {b}, !.found = @ \cup got,
                                   !.last = IF got = {} THEN @ ELSE b]
      BY <1>3 DEF ScanBlock
    <2>2. PICK got \in {{}, {c \in Unspent(ledger, Len(ledger)) : FirstBlock + c = b}} :
              scan' = [scan EXCEPT !.left = @ \ {b}, !.found = @ \cup got,
                                   !.last = IF got = {} THEN @ ELSE b]
      BY <2>1
    <2>3. got \subseteq CoinIds /\ b \in Nat
      <3>1. Unspent(ledger, Len(ledger)) \subseteq 1..Len(ledger)
        BY UnspentBelow DEF FollowInv, LedgerInv
      <3>2. 1..Len(ledger) \subseteq CoinIds
        BY OffIsNat DEF FollowInv, LedgerInv, CoinIds
      <3> QED BY <1>0, <2>1, <2>2, <3>1, <3>2, ScanFacts
    <2>4. PICK L \in SUBSET Nat, F \in SUBSET CoinIds, n \in Nat :
            /\ L = scan.left \ {b} /\ F = scan.found \cup got
            /\ n = (IF got = {} THEN scan.last ELSE b)
      BY <1>0, <2>3, ScanFacts
    <2>5. scan' = [scan EXCEPT !.left = L, !.found = F, !.last = n]
      BY <2>2, <2>4
    <2>6. scan' \in Scans
      BY <1>0, <2>5 DEF Scans
    <2>7. /\ phase = "scanning" /\ phase' = phase /\ UNCHANGED <<ledger, clientVars, wallet, saved>>
      BY <1>3 DEF ScanBlock
    <2> QED BY <1>0, <2>6, <2>7, OfflineStep
  <1>4. CASE ScanEnds
    <2>1. PICK a, b, n, f :
            /\ a = AddCopies(wallet.available, scan.found) /\ b = Worth(scan.found)
            /\ n = (IF scan.found # {} THEN scan.last ELSE scan.tip) /\ f = wallet.foreign + 1
            /\ wallet' = [wallet EXCEPT !.available = a, !.balance = b, !.applied = n, !.foreign = f]
      BY <1>4 DEF ScanEnds
    <2>2. a \in [CoinIds -> Nat] /\ n \in Nat /\ f \in Nat /\ f # 0
      BY <1>0, <1>a, <2>1, CopiesAreNat, ScanFacts
    <2>3. b \in Nat
      <3>1. PICK S : S = scan.found
        OBVIOUS
      <3>2. PICK D : D = CoinIds
        OBVIOUS
      <3>3. IsFiniteSet(D) /\ D \subseteq Nat /\ S \in SUBSET D
        BY <1>0, <3>1, <3>2, CoinIdsFinite, ScanFacts
      <3>4. Worth(S) \in Nat
        BY <3>3, WorthOf
      <3> QED BY <2>1, <3>1, <3>4
    <2>4. wallet' \in WalletType /\ wallet'.foreign = f
      BY <1>0, <2>1, <2>2, <2>3 DEF WalletType
    <2>5. Exact(wallet', ledger) /\ DustExact(wallet')
      BY <2>2, <2>4 DEF Exact, DustExact
    <2>6. /\ phase = "scanning" /\ phase' = "tally" /\ scan' = NoScan /\ UNCHANGED <<ledger, clientVars, saved>>
      BY <1>4 DEF ScanEnds
    <2> QED BY <1>0, <2>4, <2>5, <2>6, ScanFacts, OfflineStep
  <1>5. CASE SyncEnds
    <2>1. PICK d \in Nat : d = RegisteredTotal(wallet.available)
      BY <1>a, TotalsAreNat
    <2>2. /\ phase = "tally" /\ phase' = "idle" /\ wallet' = [wallet EXCEPT !.dust = d]
          /\ scan' = NoScan /\ UNCHANGED <<ledger, clientVars, saved>>
      BY <1>5, <2>1 DEF SyncEnds, LocalsDie
    <2>3. /\ wallet' \in WalletType /\ wallet'.dust = d /\ wallet'.available = wallet.available
          /\ wallet'.foreign = wallet.foreign /\ wallet'.applied = wallet.applied
          /\ wallet'.balance = wallet.balance
      BY <1>0, <2>2 DEF WalletType
    <2>4. Exact(wallet', ledger) /\ DustExact(wallet')
      BY <1>0, <2>1, <2>3 DEF Exact, DustExact
    <2> QED BY <1>0, <2>2, <2>3, <2>4, ScanFacts, OfflineStep
  <1>6. CASE SyncCaught
    <2>1. /\ phase = "caught" /\ phase' = "idle" /\ scan' = NoScan
          /\ UNCHANGED <<ledger, clientVars, wallet, saved>>
      BY <1>6 DEF SyncCaught, LocalsDie
    <2> QED BY <1>0, <1>b, <2>1, ScanFacts, OfflineStep
  <1>7. CASE Serialize
    <2>1. /\ phase = "idle" /\ phase' = phase /\ saved' = {wallet}
          /\ UNCHANGED <<ledger, clientVars, wallet, scan>>
      BY <1>7 DEF Serialize, syncVars
    <2> QED BY <1>0, <1>b, <2>1, OfflineStep
  <1>8. CASE Restore
    <2>1. /\ phase = "idle" /\ phase' = phase /\ wallet' \in saved \cup {NewWallet}
          /\ UNCHANGED <<ledger, clientVars, saved, scan>>
      BY <1>8 DEF Restore, syncVars
    <2>2. wallet' \in WalletType /\ Exact(wallet', ledger) /\ DustExact(wallet')
      BY <1>0, <2>1, NewWalletExact DEF FollowInv
    <2> QED BY <1>0, <2>1, <2>2, OfflineStep
  <1>9. CASE Revert
    <2>1. PICK c \in CoinIds :
            wallet' = [wallet EXCEPT !.available = AddCopies(@, {c}), !.foreign = @ + 1]
      BY <1>9 DEF Revert
    <2>2. PICK a, f : a = AddCopies(wallet.available, {c}) /\ f = wallet.foreign + 1
      OBVIOUS
    <2>3. a \in [CoinIds -> Nat] /\ f \in Nat /\ f # 0
      BY <1>a, <2>2, CopiesAreNat
    <2>4. wallet' = [wallet EXCEPT !.available = a, !.foreign = f]
      BY <2>1, <2>2
    <2>5. wallet' \in WalletType /\ wallet'.foreign = f
      BY <1>0, <2>3, <2>4 DEF WalletType
    <2>6. Exact(wallet', ledger) /\ DustExact(wallet')
      BY <2>3, <2>5 DEF Exact, DustExact
    <2>7. /\ phase = "idle" /\ phase' = phase /\ UNCHANGED <<ledger, clientVars, saved, scan>>
      BY <1>9 DEF Revert, syncVars
    <2> QED BY <1>0, <2>5, <2>6, <2>7, OfflineStep
  <1> QED BY <1>1, <1>2, <1>3, <1>4, <1>5, <1>6, <1>7, <1>8, <1>9 DEF OfflineSteps

(* The steps of sync() that only move its thread: nothing changes but      *)
(* `call', `phase' and, when the thread of start_async() throws, running_. *)
LEMMA OnlineBegins ==
    ASSUME FollowInv, user = "wallet", user' = user, past' = past,
           SyncSubscribes \/ SubscribeReturns \/ WaitEnds
    PROVE  FollowInv'
  <1>0. /\ ClientInv /\ PhaseInv /\ WalletInv /\ InStep /\ past = {} /\ StreamInv /\ ThreadInv
        /\ wallet.applied \in Nat
    BY DEF FollowInv, PhaseInv, WalletInv, WalletType
  <1>1. UNCHANGED <<ledger, wireVars, threadVars, balanceVars, subscribed_, wallet, saved, scan>>
    BY DEF SyncSubscribes, SubscribeReturns, WaitEnds
  <1>2. /\ UNCHANGED <<stream, subs, reader, msg, running_, wallet, saved, scan, ledger>>
        /\ (InHand' <=> InHand) /\ msg' = msg
    BY <1>1 DEF wireVars, threadVars, InHand
  <1>3. /\ call' \in Calls /\ call.at = "idle"
        /\ \/ /\ phase = "idle" /\ phase' = "subscribing" /\ call'.at = "connect" /\ call'.from = wallet.applied
           \/ phase = "subscribing" /\ phase' = "waiting" /\ call'.at = "idle"
           \/ /\ phase \in {"subscribing", "waiting"} /\ phase' = "closing"
              /\ call'.at = "unsubscribe" /\ call'.op = "stop"
    <2>1. CASE SyncSubscribes
      <3>1. phase = "idle" /\ phase' = "subscribing" /\ Begin("subscribe", wallet.applied, "connect")
        BY <2>1 DEF SyncSubscribes
      <3> QED BY <1>0, <3>1, BeginFacts DEF CallNames, CallPlaces
    <2>2. CASE SubscribeReturns /\ call.ok
      <3>1. phase = "subscribing" /\ phase' = "waiting" /\ call' = call /\ call.at = "idle"
        BY <2>2 DEF SubscribeReturns
      <3> QED BY <1>0, <3>1 DEF ClientInv
    <2>3. CASE SubscribeReturns /\ ~call.ok
      <3>1. phase = "subscribing" /\ phase' = "closing" /\ Begin("stop", 0, "unsubscribe")
        BY <2>3 DEF SubscribeReturns
      <3> QED BY <3>1, BeginFacts DEF CallNames, CallPlaces
    <2>4. CASE WaitEnds
      <3>1. phase = "waiting" /\ phase' = "closing" /\ Begin("stop", 0, "unsubscribe")
        BY <2>4 DEF WaitEnds
      <3> QED BY <3>1, BeginFacts DEF CallNames, CallPlaces
    <2> QED BY <2>1, <2>2, <2>3, <2>4
  <1>4. ClientInv'
    BY <1>0, <1>1, <1>3 DEF ClientInv, wireVars, threadVars, balanceVars
  <1>5. ThreadInv' /\ FirstInv' /\ LedgerInv'
    BY <1>0, <1>2, <1>3 DEF ThreadInv, FirstInv, FollowInv, LedgerInv
  <1>6. StreamInv'
    <2> HIDE DEF InHand
    <2> QED BY <1>0, <1>1, <1>2, StreamKeeps
  <1>7. PhaseInv'
    BY <1>0, <1>2, <1>3 DEF PhaseInv
  <1>8. InStep'
    <2>1. stream'[1] = stream[1] /\ wallet' = wallet
      BY <1>2
    <2>2. call'.at \in {"connect", "send"} /\ wallet.foreign = 0 => call'.from = wallet.applied
      BY <1>3
    <2> HIDE DEF InHand
    <2> QED BY <1>0, <1>2, <2>1, <2>2, InStepKeeps
  <1>9. WalletInv'
    <2>1. Untouched' => Untouched
      BY <1>3 DEF Untouched
    <2> HIDE DEF Untouched, InStep
    <2> QED BY <1>0, <1>2, <1>8, <2>1, WalletKeeps
  <1> QED BY <1>4, <1>5, <1>6, <1>7, <1>9 DEF FollowInv

LEMMA OnlineThrows ==
    ASSUME FollowInv, user = "wallet", user' = user, past' = past, SyncThreadThrows
    PROVE  FollowInv'
  <1>0. /\ ClientInv /\ PhaseInv /\ WalletInv /\ InStep /\ past = {} /\ StreamInv /\ ThreadInv
    BY DEF FollowInv, PhaseInv, WalletInv
  <1>1. /\ phase = "subscribing" /\ call.at = "spawn" /\ phase' = "throwing" /\ running_' = TRUE
        /\ call' = [call EXCEPT !.op = "stop", !.at = "unsubscribe"]
        /\ UNCHANGED <<ledger, wireVars, reader, msg, balanceVars, subscribed_, wallet, saved, scan>>
    BY DEF SyncThreadThrows
  <1>2. /\ UNCHANGED <<ledger, stream, subs, reader, msg, wallet, saved, scan>>
        /\ (InHand' <=> InHand) /\ msg' = msg
    BY <1>1 DEF wireVars, InHand
  <1>3. call' \in Calls /\ call'.op = "stop" /\ call'.at = "unsubscribe"
    BY <1>0, <1>1 DEF ClientInv, Calls, CallNames, CallPlaces
  <1>4. ClientInv'
    BY <1>0, <1>1, <1>3 DEF ClientInv, wireVars, balanceVars
  <1>5. reader["async"] = "none"
    BY <1>0, <1>1 DEF PhaseInv
  <1>6. ThreadInv' /\ FirstInv' /\ LedgerInv'
    BY <1>0, <1>1, <1>2, <1>5 DEF ThreadInv, FirstInv, FollowInv, LedgerInv
  <1>7. StreamInv'
    <2> HIDE DEF InHand
    <2> QED BY <1>0, <1>1, <1>2, StreamKeeps
  <1>8. PhaseInv'
    BY <1>0, <1>1, <1>2, <1>3, <1>5 DEF PhaseInv
  <1>9. InStep'
    <2>1. stream'[1] = stream[1] /\ wallet' = wallet
      BY <1>2
    <2> HIDE DEF InHand
    <2> QED BY <1>0, <1>2, <1>3, <2>1, InStepKeeps
  <1>10. WalletInv'
    <2>1. Untouched' => Untouched
      BY <1>1 DEF Untouched
    <2> HIDE DEF Untouched, InStep
    <2> QED BY <1>0, <1>2, <1>9, <2>1, WalletKeeps
  <1> QED BY <1>4, <1>6, <1>7, <1>8, <1>10 DEF FollowInv

LEMMA OnlineDestroyed ==
    ASSUME FollowInv, user = "wallet", user' = user, past' = past, ClientDestroyed
    PROVE  FollowInv'
  <1>0. /\ ClientInv /\ PhaseInv /\ WalletInv /\ past = {} /\ ThreadInv /\ LedgerInv
    BY DEF FollowInv, PhaseInv
  <1>1. /\ phase \in {"closing", "throwing"} /\ call.at = "idle" /\ ClientReplaced
        /\ phase' = (IF phase = "closing" THEN "fallback" ELSE "caught")
        /\ UNCHANGED <<ledger, wallet, saved, scan>>
    BY DEF ClientDestroyed
  <1>2. reader["async"] = "none" /\ reader["own"] = "none"
    BY <1>0, <1>1 DEF PhaseInv, ThreadInv
  <1>3. ClientInv' /\ StreamInv' /\ stream'[1] = Off
    BY <1>0, <1>1, <1>2, StreamReplaced
  <1>4. subs' = 0 /\ reader' = reader /\ call'.at = "idle"
    BY <1>1 DEF ClientReplaced, NoCall
  <1>5. ThreadInv' /\ FirstInv' /\ LedgerInv'
    BY <1>0, <1>1, <1>2, <1>4 DEF ThreadInv, FirstInv, LedgerInv
  <1>6. PhaseInv'
    BY <1>0, <1>1, <1>2, <1>4 DEF PhaseInv
  <1>7. InStep'
    BY <1>2, <1>3, <1>4 DEF InStep, InHand, Off
  <1>8. WalletInv'
    <2>1. Untouched' => Untouched
      BY <1>1, <1>4 DEF Untouched
    <2> HIDE DEF Untouched, InStep
    <2> QED BY <1>0, <1>1, <1>7, <2>1, WalletKeeps
  <1> QED BY <1>3, <1>5, <1>6, <1>8 DEF FollowInv

(* The steps of the calls sync() makes. *)
LEMMA OnlineCalls ==
    ASSUME FollowInv, user = "wallet", user' = user, past' = past, SyncCalls
    PROVE  FollowInv'
  <1>0. /\ ClientInv /\ PhaseInv /\ WalletInv /\ InStep /\ past = {} /\ StreamInv /\ ThreadInv /\ LedgerInv
    BY DEF FollowInv, PhaseInv, WalletInv
  <1>a. "async" \in Readers /\ "own" \in Readers /\ 1 \in 1..MaxSubs
    BY OffIsNat DEF Readers
  <1>b. UNCHANGED <<ledger, wallet, phase, scan, saved>> /\ CallStep
    BY DEF SyncCalls, CallStep
  <1>c. wallet' = wallet /\ phase' = phase
    BY <1>b
  <1>1. LedgerInv' /\ StreamInv' /\ FirstInv'
    BY <1>0, <1>b, StreamCalls DEF LedgerInv, FirstInv
  <1>2. ASSUME ClientInv', ThreadInv', PhaseInv', InStep', Untouched' => Untouched PROVE FollowInv'
    <2>1. WalletInv'
      <3> HIDE DEF Untouched, InStep
      <3> QED BY <1>0, <1>2, <1>b, WalletKeeps
    <2> QED BY <1>1, <1>2, <2>1 DEF FollowInv
  <1>3. CASE CallConnects
    <2>1. /\ ClientInv' /\ call.at = "connect" /\ call'.at = "send" /\ call'.from = call.from
          /\ UNCHANGED <<reader, msg, running_, subs>> /\ (stream'[1] = Off \/ stream'[1] = stream[1])
      BY <1>0, <1>a, <1>3, ConnectsEffect DEF threadVars
    <2>2. ThreadInv' /\ PhaseInv'
      BY <1>0, <1>b, <2>1 DEF ThreadInv, PhaseInv
    <2>3. InStep'
      <3>1. wallet.foreign = 0 => call'.from = wallet.applied
        BY <1>0, <2>1 DEF InStep
      <3>2. (InHand' <=> InHand) /\ msg' = msg
        BY <2>1 DEF InHand
      <3> HIDE DEF InHand
      <3> QED BY <1>0, <1>c, <2>1, <3>1, <3>2, InStepKeeps
    <2>4. Untouched' => Untouched
      BY <1>c, <2>1 DEF Untouched
    <2> HIDE DEF Untouched, InStep
    <2> QED BY <1>2, <2>1, <2>2, <2>3, <2>4
  <1>4. CASE CallConnectFails
    <2>1. /\ ClientInv' /\ call.at = "connect" /\ call'.at = "idle"
          /\ UNCHANGED <<reader, msg, running_, subs, stream>>
      BY <1>0, <1>4, ConnectFailsEffect DEF threadVars
    <2>2. ThreadInv' /\ PhaseInv'
      BY <1>0, <1>b, <2>1 DEF ThreadInv, PhaseInv
    <2>3. InStep'
      <3>1. (InHand' <=> InHand) /\ msg' = msg /\ stream'[1] = stream[1]
        BY <2>1 DEF InHand
      <3> HIDE DEF InHand
      <3> QED BY <1>0, <1>c, <2>1, <3>1, InStepKeeps
    <2>4. Untouched' => Untouched
      BY <1>0, <1>c, <2>1 DEF Untouched, PhaseInv
    <2> HIDE DEF Untouched, InStep
    <2> QED BY <1>2, <2>1, <2>2, <2>3, <2>4
  <1>5. CASE CallSubscribes
    <2>1. /\ ClientInv' /\ call.at = "send" /\ call'.at = "spawn"
          /\ UNCHANGED <<reader, msg, running_>>
          /\ \/ stream' = stream /\ subs' = subs
             \/ /\ subs' = subs + 1
                /\ stream'[1] = stream[1] \/ stream'[1] = call.from
      BY <1>0, <1>a, <1>5, SubscribesEffect DEF threadVars
    <2>2. subs = 0 /\ reader["async"] = "none" /\ phase = "subscribing"
      BY <1>0, <2>1 DEF PhaseInv
    <2>3. ThreadInv' /\ PhaseInv'
      <3>1. subs' <= 1
        BY <2>1, <2>2
      <3> QED BY <1>0, <1>b, <2>1, <2>2, <3>1 DEF ThreadInv, PhaseInv
    <2>4. InStep'
      <3>1. ~InHand' /\ ~InHand /\ Pending' = 0 /\ Pending = 0
        BY <2>1, <2>2 DEF InHand, Pending
      <3>2. ASSUME wallet.foreign = 0, stream'[1] # Off PROVE stream'[1] = wallet.applied + 0
        <4>1. call.from = wallet.applied /\ wallet.applied \in Nat
          BY <1>0, <2>1, <3>2 DEF InStep, WalletInv, WalletType
        <4>2. CASE stream'[1] = stream[1]
          <5> HIDE DEF InHand, Pending
          <5> QED BY <1>0, <3>1, <3>2, <4>2 DEF InStep
        <4>3. CASE stream'[1] = call.from
          BY <4>1, <4>3
        <4> QED BY <2>1, <4>2, <4>3
      <3> HIDE DEF InHand, Pending
      <3> QED BY <1>c, <2>1, <3>1, <3>2 DEF InStep, Off
    <2>5. Untouched' => Untouched
      BY <1>c, <2>1 DEF Untouched
    <2> HIDE DEF Untouched, InStep
    <2> QED BY <1>2, <2>1, <2>3, <2>4, <2>5
  <1>6. CASE CallStartsReader
    <2>1. /\ ClientInv' /\ call.at = "spawn" /\ call'.at = "idle" /\ UNCHANGED <<msg, stream, subs>>
          /\ \/ UNCHANGED <<running_, reader>>
             \/ running_' = TRUE /\ reader'["async"] = "loop" /\ reader'["own"] = reader["own"]
      BY <1>0, <1>6, StartsReaderEffect DEF threadVars, wireVars
    <2>2. reader["async"] = "none" /\ phase = "subscribing"
      BY <1>0, <2>1 DEF PhaseInv
    <2>3. ThreadInv'
      BY <1>0, <2>1, <2>2 DEF ThreadInv
    <2>4. PhaseInv'
      BY <1>0, <1>b, <2>1, <2>2 DEF PhaseInv
    <2>5. InStep'
      <3>1. (InHand' <=> InHand) /\ msg' = msg /\ stream'[1] = stream[1]
        BY <2>1, <2>2 DEF InHand
      <3> HIDE DEF InHand
      <3> QED BY <1>0, <1>c, <2>1, <3>1, InStepKeeps
    <2>6. Untouched' => Untouched
      BY <1>c, <2>1, <2>2 DEF Untouched
    <2> HIDE DEF Untouched, InStep
    <2> QED BY <1>2, <2>1, <2>3, <2>4, <2>5, <2>6
  <1>7. CASE CallUnsubscribes \/ CallStops
    <2>1. /\ ClientInv' /\ call.at \in {"unsubscribe", "stop"} /\ call'.op = call.op /\ subs' = subs
          /\ call.op = "stop" => call'.at \in {"stop", "join"}
          /\ running_' = running_ \/ call'.at = "join"
          /\ msg' = msg
          /\ reader'["async"] = reader["async"] \/ (reader["async"] = "reading" /\ reader'["async"] = "leave")
          /\ reader'["own"] = reader["own"] \/ (reader["own"] = "reading" /\ reader'["own"] = "leave")
          /\ stream'[1] = Off \/ stream'[1] = stream[1]
      <3>1. CASE CallUnsubscribes
        BY <1>0, <1>a, <3>1, UnsubscribesEffect
      <3>2. CASE CallStops
        BY <1>0, <1>a, <3>2, StopsEffect
      <3> QED BY <1>7, <3>1, <3>2
    <2>2. call.op = "stop" /\ phase \in {"closing", "throwing"} /\ call'.at \in {"stop", "join"}
      BY <1>0, <2>1 DEF PhaseInv
    <2>3. ThreadInv'
      BY <1>0, <2>1 DEF ThreadInv
    <2>4. PhaseInv'
      BY <1>0, <1>b, <2>1, <2>2 DEF PhaseInv
    <2>5. InStep'
      <3>1. InHand' <=> InHand
        BY <2>1 DEF InHand
      <3> HIDE DEF InHand
      <3> QED BY <1>0, <1>c, <2>1, <2>2, <3>1, InStepKeeps
    <2>6. Untouched' => Untouched
      BY <1>c, <2>2 DEF Untouched
    <2> HIDE DEF Untouched, InStep
    <2> QED BY <1>2, <2>1, <2>3, <2>4, <2>5, <2>6
  <1>8. CASE CallJoins
    <2>1. /\ ClientInv' /\ call.at = "join" /\ call'.at = "idle" /\ UNCHANGED <<msg, stream, subs>>
          /\ reader["async"] \in {"none", "done"} /\ reader'["async"] = "none" /\ reader'["own"] = "none"
      BY <1>0, <1>a, <1>8, JoinsEffect DEF wireVars
    <2>2. ThreadInv' /\ PhaseInv'
      BY <1>0, <1>b, <2>1 DEF ThreadInv, PhaseInv
    <2>3. InStep'
      <3>1. (InHand' <=> InHand) /\ msg' = msg /\ stream'[1] = stream[1]
        BY <2>1 DEF InHand
      <3> HIDE DEF InHand
      <3> QED BY <1>0, <1>c, <2>1, <3>1, InStepKeeps
    <2>4. Untouched' => Untouched
      BY <1>c, <2>1 DEF Untouched
    <2> HIDE DEF Untouched, InStep
    <2> QED BY <1>2, <2>1, <2>2, <2>3, <2>4
  <1> QED BY <1>b, <1>3, <1>4, <1>5, <1>6, <1>7, <1>8 DEF CallStep

LEMMA WalletGrows ==
    ASSUME LedgerInv, WalletInv, LedgerGrows, user' = user, UNCHANGED <<wallet, saved, scan>>,
           Untouched' => Untouched, user = "wallet" => InStep'
    PROVE  WalletInv'
  <1> HIDE DEF Untouched, InStep
  <1>1. ASSUME NEW w \in WalletType, Exact(w, ledger) PROVE Exact(w, ledger')
    BY <1>1, ExactGrows
  <1>2. Exact(wallet, ledger') /\ \A w \in saved : Exact(w, ledger')
    BY <1>1 DEF WalletInv
  <1>3. Exact(wallet', ledger') /\ \A w \in saved' : Exact(w, ledger')
    BY <1>2
  <1> QED BY <1>3 DEF WalletInv

(* The reader's steps under sync(). *)
LEMMA OnlineReads ==
    ASSUME FollowInv, user = "wallet", user' = user, past' = past, ReaderRuns
    PROVE  FollowInv'
  <1>0. /\ ClientInv /\ PhaseInv /\ WalletInv /\ InStep /\ past = {} /\ StreamInv /\ ThreadInv /\ LedgerInv
    BY DEF FollowInv, PhaseInv, WalletInv
  <1>a. "async" \in Readers /\ "own" \in Readers /\ "own" # "async" /\ 1 \in 1..MaxSubs
    BY OffIsNat DEF Readers
  <1>b. UNCHANGED <<ledger, phase, scan, saved>>
    BY DEF ReaderRuns, SyncHandlesUtxo, SyncHandlesOther, SyncReaderLeaves, SyncReads, syncVars
  <1>c. \/ LoopTop("async") \/ Receive("async") \/ ReadFails("async")
        \/ HandleUtxo("async") \/ HandleOther("async") \/ Leave("async")
    BY DEF ReaderRuns, SyncHandlesUtxo, SyncHandlesOther, SyncReaderLeaves, SyncReads
  <1>1. LedgerInv' /\ StreamInv' /\ FirstInv'
    BY <1>0, <1>b, <1>c, StreamReads DEF LedgerInv, FirstInv
  <1>2. /\ ClientInv' /\ UNCHANGED <<running_, call, subs>>
        /\ reader["async"] \in {"loop", "reading", "handle", "leave"}
        /\ reader'["own"] = reader["own"]
    <2>1. CASE LoopTop("async")
      BY <1>0, <1>a, <2>1, LoopTopEffect DEF wireVars
    <2>2. CASE Receive("async")
      BY <1>0, <1>a, <2>2, ReceiveEffect
    <2>3. CASE ReadFails("async")
      BY <1>0, <1>a, <2>3, ReadFailsEffect
    <2>4. CASE HandleUtxo("async")
      BY <1>0, <1>a, <2>4, HandleUtxoEffect DEF wireVars
    <2>5. CASE HandleOther("async")
      BY <1>0, <1>a, <2>5, HandleOtherEffect DEF wireVars
    <2>6. CASE Leave("async")
      BY <1>0, <1>a, <2>6, LeaveEffect
    <2> QED BY <1>c, <2>1, <2>2, <2>3, <2>4, <2>5, <2>6
  <1>3. ThreadInv' /\ PhaseInv'
    BY <1>0, <1>b, <1>2 DEF ThreadInv, PhaseInv
  <1>4. ~Untouched /\ ~Untouched' /\ call.at \notin {"connect", "send"}
    BY <1>0, <1>b, <1>2 DEF PhaseInv, Untouched
  <1>5. ASSUME wallet' = wallet, InStep' PROVE FollowInv'
    <2>1. WalletInv'
      <3> HIDE DEF Untouched, InStep
      <3> QED BY <1>0, <1>4, <1>5, <1>b, WalletKeeps
    <2> QED BY <1>1, <1>2, <1>3, <2>1 DEF FollowInv
  <1>6. CASE SyncHandlesUtxo
    <2>1. HandleUtxo("async") /\ OnUtxo(msg["async"].id)
      BY <1>6 DEF SyncHandlesUtxo
    <2>2. /\ reader["async"] = "handle" /\ msg["async"].kind = "utxo" /\ reader'["async"] = "loop"
          /\ stream' = stream
      BY <1>0, <1>a, <2>1, HandleUtxoEffect DEF wireVars
    <2>3. InHand /\ ~InHand' /\ Pending = 1 /\ Pending' = 0
      BY <2>2 DEF InHand, Pending
    <2>4. msg["async"].id \in 1..Len(ledger)
      <3>1. subs = 1
        <4>1. subs # 0
          <5> HIDE DEF InHand
          <5> QED BY <1>0, <2>3 DEF StreamInv
        <4> QED BY <1>0, <4>1, OffIsNat DEF PhaseInv, ClientInv
      <3>2. SingleStream
        BY <1>0, <3>1 DEF StreamInv
      <3> HIDE DEF InHand
      <3> QED BY <2>3, <3>2 DEF SingleStream
    <2>5. PICK id \in 1..Len(ledger) : id = msg["async"].id
      BY <2>4
    <2>6. wallet.foreign = 0 => id = wallet.applied + 1
      <3> HIDE DEF InHand
      <3> QED BY <1>0, <2>3, <2>5 DEF InStep
    <2>7. wallet \in WalletType /\ Exact(wallet, ledger) /\ OnUtxo(id)
      BY <1>0, <2>1, <2>5 DEF WalletInv
    <2>8. /\ wallet' \in WalletType /\ Exact(wallet', ledger)
          /\ wallet'.applied = id /\ wallet'.foreign = wallet.foreign
      BY <1>0, <2>6, <2>7, UtxoApplied
    <2>9. InStep'
      <3>1. ASSUME wallet.foreign = 0, stream[1] # Off PROVE stream[1] = id + 0
        <4>1. stream[1] = wallet.applied + 1
          <5> HIDE DEF InHand, Pending
          <5> QED BY <1>0, <2>3, <3>1 DEF InStep
        <4>2. id \in Nat
          BY <1>0 DEF LedgerInv
        <4> QED BY <2>6, <3>1, <4>1, <4>2
      <3> HIDE DEF InHand, Pending
      <3> QED BY <1>2, <1>4, <2>2, <2>3, <2>8, <3>1 DEF InStep, Off
    <2>10. WalletInv'
      <3>1. ledger' = ledger /\ saved' = saved /\ scan' = scan
        BY <1>b
      <3> HIDE DEF Untouched, InStep
      <3> QED BY <1>0, <1>4, <2>8, <2>9, <3>1 DEF WalletInv
    <2> QED BY <1>1, <1>2, <1>3, <2>10 DEF FollowInv
  <1>7. CASE Receive("async") /\ UNCHANGED wallet
    <2>1. PICK s \in 1..MaxSubs :
          /\ stream[s] # Off
          /\ \A t \in 1..MaxSubs : t # s => stream'[t] = stream[t]
          /\ \/ /\ stream[s] < Len(ledger) /\ stream'[s] = stream[s] + 1
                /\ msg'["async"].kind = "utxo" /\ msg'["async"].id = stream[s] + 1
             \/ msg'["async"].kind # "utxo" /\ stream'[s] \in {stream[s], Off}
      BY <1>0, <1>a, <1>7, ReceiveEffect
    <2>2. reader["async"] = "reading" /\ reader'["async"] = "handle"
      BY <1>0, <1>a, <1>7, ReceiveEffect
    <2>3. ~InHand /\ Pending = 0
      BY <2>2 DEF InHand, Pending
    <2>4. s = 1
      <3>1. ~(s > subs) /\ s \in Nat /\ s > 0 /\ subs \in Nat /\ subs <= 1
        BY <1>0, <2>1, OffIsNat DEF StreamInv, ClientInv, PhaseInv
      <3> QED BY <3>1
    <2>5. wallet.foreign = 0 => stream[1] = wallet.applied + 0 /\ wallet.applied \in Nat
      <3> HIDE DEF InHand, Pending
      <3> QED BY <1>0, <2>1, <2>3, <2>4 DEF InStep, WalletInv, WalletType
    <2>6. CASE msg'["async"].kind # "utxo" /\ stream'[s] \in {stream[s], Off}
      <3>1. ~InHand'
        BY <2>6 DEF InHand
      <3>2. InStep'
        <4> HIDE DEF InHand
        <4> QED BY <1>0, <1>2, <1>4, <1>7, <2>3, <2>4, <2>6, <3>1, InStepKeeps
      <3> HIDE DEF InStep
      <3> QED BY <1>5, <1>7, <3>2
    <2>7. CASE /\ stream'[s] = stream[s] + 1
               /\ msg'["async"].kind = "utxo" /\ msg'["async"].id = stream[s] + 1
      <3>1. InHand' /\ Pending' = 1
        BY <2>2, <2>7 DEF InHand, Pending
      <3>2. wallet.foreign = 0 => stream'[1] = wallet.applied + 1 /\ msg'["async"].id = wallet.applied + 1
        BY <2>4, <2>5, <2>7
      <3>3. InStep'
        <4> HIDE DEF InHand, Pending
        <4> QED BY <1>2, <1>4, <1>7, <3>1, <3>2 DEF InStep
      <3> HIDE DEF InStep
      <3> QED BY <1>5, <1>7, <3>3
    <2> QED BY <2>1, <2>6, <2>7
  <1>8. CASE (LoopTop("async") \/ ReadFails("async") \/ HandleOther("async") \/ Leave("async")) /\ UNCHANGED wallet
    <2>1. /\ stream' = stream
          /\ ~InHand /\ ~InHand'
      <3>1. CASE LoopTop("async")
        BY <1>0, <1>a, <3>1, LoopTopEffect DEF wireVars, InHand
      <3>2. CASE ReadFails("async")
        BY <1>0, <1>a, <3>2, ReadFailsEffect DEF InHand
      <3>3. CASE HandleOther("async")
        BY <1>0, <1>a, <3>3, HandleOtherEffect DEF wireVars, InHand
      <3>4. CASE Leave("async")
        BY <1>0, <1>a, <3>4, LeaveEffect DEF InHand
      <3> QED BY <1>8, <3>1, <3>2, <3>3, <3>4
    <2>2. InStep'
      <3>1. stream'[1] = stream[1] /\ wallet' = wallet
        BY <1>8, <2>1
      <3> HIDE DEF InHand
      <3> QED BY <1>0, <1>2, <1>4, <2>1, <3>1, InStepKeeps
    <2> HIDE DEF InStep
    <2> QED BY <1>5, <1>8, <2>2
  <1> QED BY <1>6, <1>7, <1>8
          DEF ReaderRuns, SyncHandlesOther, SyncReaderLeaves, SyncReads

(* The ledger and the network. *)
LEMMA OnlineOutside ==
    ASSUME FollowInv, user = "wallet", user' = user, past' = past, Outside
    PROVE  FollowInv'
  <1>0. /\ ClientInv /\ PhaseInv /\ WalletInv /\ InStep /\ past = {} /\ StreamInv /\ ThreadInv /\ LedgerInv
    BY DEF FollowInv, PhaseInv, WalletInv
  <1>1. CASE LedgerGrows /\ UNCHANGED <<clientVars, wallet, synced, syncVars, saved>>
    <2>1. UNCHANGED <<ws, connected_, stream, subs, running_, reader, msg, handled, subscribed_, call,
                      wallet, phase, scan, saved>>
      BY <1>1 DEF clientVars, wireVars, threadVars, balanceVars, syncVars
    <2>2. LedgerInv' /\ ClientInv' /\ ThreadInv' /\ FirstInv' /\ PhaseInv'
      BY <1>0, <1>1, <2>1, LedgerStep DEF ClientInv, ThreadInv, FirstInv, PhaseInv
    <2>3. StreamInv'
      BY <1>0, <1>1, StreamGrows
    <2>4. InStep' /\ (Untouched' => Untouched)
      BY <1>0, <2>1 DEF InStep, InHand, Pending, Off, Untouched
    <2>5. WalletInv'
      <3> HIDE DEF Untouched, InStep
      <3> QED BY <1>0, <1>1, <2>1, <2>4, WalletGrows
    <2> QED BY <2>2, <2>3, <2>5 DEF FollowInv
  <1>2. CASE /\ ConnectionDrops
             /\ UNCHANGED <<ledger, threadVars, balanceVars, subscribed_, call, wallet, synced, syncVars, saved>>
    <2>1. UNCHANGED <<ledger, connected_, stream, subs, running_, reader, msg, call,
                      wallet, phase, scan, saved>>
      BY <1>2 DEF ConnectionDrops, threadVars, syncVars
    <2>2. ClientInv'
      BY <1>0, <1>2, DropsEffect
    <2>3. LedgerInv' /\ ThreadInv' /\ FirstInv' /\ PhaseInv'
      BY <1>0, <2>1 DEF LedgerInv, ThreadInv, FirstInv, PhaseInv
    <2>4. (InHand' <=> InHand) /\ msg' = msg
      BY <2>1 DEF InHand
    <2>5. StreamInv'
      <3>1. ledger' = ledger /\ subs' = subs /\ UNCHANGED balanceVars /\ stream' = stream
        BY <1>2, <2>1
      <3> HIDE DEF InHand
      <3> QED BY <1>0, <2>4, <3>1, StreamKeeps
    <2>6. InStep' /\ (Untouched' => Untouched)
      BY <1>0, <2>1 DEF InStep, InHand, Pending, Off, Untouched
    <2>7. WalletInv'
      <3> HIDE DEF Untouched, InStep
      <3> QED BY <1>0, <2>1, <2>6, WalletKeeps
    <2> QED BY <2>2, <2>3, <2>5, <2>7 DEF FollowInv
  <1> QED BY <1>1, <1>2 DEF Outside

LEMMA WalletFollows ==
    ASSUME FollowInv, user = "wallet", user' = user, past' = past, WalletNext
    PROVE  FollowInv'
  <1>1. \/ SyncSubscribes \/ SubscribeReturns \/ WaitEnds
        \/ SyncThreadThrows \/ ClientDestroyed \/ SyncCalls \/ ReaderRuns \/ Outside \/ OfflineSteps
    BY DEF WalletNext, SyncStep, OfflineSteps
  <1> QED BY <1>1, OnlineBegins, OnlineThrows, OnlineDestroyed, OnlineCalls, OnlineReads,
             OnlineOutside, OfflineFollows
-----------------------------------------------------------------------------
(* The application's steps. *)
LEMMA SessionStream ==
    ASSUME LedgerInv, ClientInv, ThreadInv, FirstInv, StreamInv, SessionNext
    PROVE  LedgerInv' /\ StreamInv'
  <1>a. "async" \in Readers /\ \A r \in Readers : r = "async" \/ r = "own"
    BY DEF Readers
  <1>0. ASSUME ledger' = ledger, "started" \in past => "started" \in past', subs' = subs, stream' = stream,
               UNCHANGED balanceVars, InHand' <=> InHand, msg' = msg
        PROVE  LedgerInv' /\ StreamInv'
    <2>1. StreamInv'
      <3> HIDE DEF InHand
      <3> QED BY <1>0, StreamKeeps
    <2> QED BY <1>0, <2>1 DEF LedgerInv
  <1>1. CASE AppBegins
    <2>1. /\ UNCHANGED <<ledger, past, subs, stream, reader, msg>> /\ UNCHANGED balanceVars
      BY <1>1, AppBeginsEffect DEF wireVars, threadVars
    <2>2. InHand' <=> InHand
      BY <2>1 DEF InHand
    <2> QED BY <1>0, <2>1, <2>2
  <1>2. CASE AppStarts
    <2>1. /\ UNCHANGED <<ledger, subs, stream, msg>> /\ UNCHANGED balanceVars
          /\ reader'["async"] = reader["async"] /\ past' = past \cup {"started"}
      BY <1>2, AppStartsEffect DEF wireVars
    <2>2. InHand' <=> InHand
      BY <2>1 DEF InHand
    <2> QED BY <1>0, <2>1, <2>2
  <1>3. CASE SessionCallStep
    <2>1. CallStep /\ ledger' = ledger /\ ("started" \in past' <=> "started" \in past)
      BY <1>3, PastFacts DEF SessionCallStep
    <2> QED BY <2>1, StreamCalls DEF LedgerInv
  <1>4. CASE Environment
    <2>1. CASE LedgerGrows /\ UNCHANGED <<clientVars, past>>
      BY <2>1, LedgerStep, StreamGrows
    <2>2. CASE ConnectionDrops /\ UNCHANGED <<ledger, threadVars, balanceVars, subscribed_, call, past>>
      <3>1. UNCHANGED <<ledger, past, subs, stream, reader, msg>> /\ UNCHANGED balanceVars
        BY <2>2 DEF ConnectionDrops, threadVars
      <3>2. InHand' <=> InHand
        BY <3>1 DEF InHand
      <3> QED BY <1>0, <3>1, <3>2
    <2> QED BY <1>4, <2>1, <2>2 DEF Environment
  <1>5. CASE OwnStart
    <2>1. /\ UNCHANGED <<ledger, past, subs, stream, msg>> /\ UNCHANGED balanceVars
          /\ reader'["async"] = reader["async"]
      BY <1>5, OwnStartEffect DEF OwnStart, wireVars
    <2>2. InHand' <=> InHand
      BY <2>1 DEF InHand
    <2> QED BY <1>0, <2>1, <2>2
  <1>6. ASSUME NEW r \in Readers, ReaderStep(r) PROVE LedgerInv' /\ StreamInv'
    <2>1. ledger' = ledger /\ past' = past
      BY <1>6 DEF ReaderStep
    <2>2. CASE r = "async"
      BY <1>6, <2>1, <2>2, StreamReads DEF ReaderStep, LedgerInv
    <2>3. CASE r = "own"
      <3>1. reader["own"] # "none"
        BY <1>6, <2>3 DEF ReaderStep, LoopTop, Receive, ReadFails, HandleUtxo, HandleOther, Leave
      <3>2. "started" \in past'
        BY <2>1, <3>1 DEF ThreadInv
      <3> QED BY <2>1, <3>2 DEF LedgerInv, StreamInv
    <2> QED BY <1>a, <2>2, <2>3
  <1> QED BY <1>1, <1>2, <1>3, <1>4, <1>5, <1>6 DEF SessionNext, AppBegins

LEMMA ApplicationFollows ==
    ASSUME FollowInv, Application(SessionNext)
    PROVE  FollowInv'
  <1>1. /\ user = "application" /\ user' = user /\ SessionNext
        /\ UNCHANGED <<wallet, phase, scan, saved>>
    BY DEF Application, walletUserVars, syncVars
  <1>2. LedgerInv' /\ ClientInv' /\ ThreadInv' /\ FirstInv' /\ StreamInv'
    BY <1>1, SessionThreads, SessionStream DEF FollowInv
  <1>3. PhaseInv' /\ (Untouched' => Untouched)
    BY <1>1 DEF FollowInv, PhaseInv, Untouched
  <1>4. ledger' = ledger \/ LedgerGrows
    BY <1>1 DEF SessionNext, AppSubscribes, AppSubscribesDust, AppUnsubscribes, AppStops, AppStarts,
                SessionCallStep, Environment, OwnStart, ReaderStep
  <1>5. WalletInv'
    <2> HIDE DEF Untouched, InStep
    <2>1. CASE ledger' = ledger
      BY <1>1, <1>3, <2>1, WalletKeeps DEF FollowInv
    <2>2. CASE LedgerGrows
      BY <1>1, <1>3, <2>2, WalletGrows DEF FollowInv
    <2> QED BY <1>4, <2>1, <2>2
  <1> QED BY <1>2, <1>3, <1>5 DEF FollowInv
-----------------------------------------------------------------------------
(* All users together. *)
LEMMA IndexerInit == Init => IndexerInv
  <1> SUFFICES ASSUME Init PROVE IndexerInv
    OBVIOUS
  <1>1. PollInv /\ SocketInv
    BY PollInit, SocketInitial DEF Init
  <1>2. /\ ledger = <<>> /\ FreshClient /\ past = {} /\ wallet = NewWallet /\ phase = "idle"
        /\ scan = NoScan /\ saved = {}
    BY DEF Init, WalletInit, ClientInit
  <1>3. /\ ws = "none" /\ connected_ = FALSE /\ stream = [s \in 1..MaxSubs |-> Off] /\ subs = 0
        /\ running_ = FALSE /\ reader = [r \in Readers |-> "none"] /\ msg = [r \in Readers |-> Nothing]
        /\ night_balance_ = 0 /\ utxo_count_ = 0 /\ handled = <<>> /\ subscribed_ = FALSE /\ call = NoCall
    BY <1>2 DEF FreshClient
  <1>4. LedgerInv
    BY <1>2, OffIsNat DEF LedgerInv
  <1>5. reader["async"] = "none" /\ reader["own"] = "none" /\ ~InHand
    BY <1>3 DEF Readers, InHand
  <1>6. call \in Calls /\ call.at = "idle"
    <2>1. PICK b \in BOOLEAN, z \in Nat : b = FALSE /\ z = 0
      OBVIOUS
    <2>2. call = [op |-> "none", from |-> z, at |-> "idle", ok |-> b]
      BY <1>3, <2>1 DEF NoCall
    <2> QED BY <2>2 DEF Calls, CallNames, CallPlaces
  <1>7. stream \in [1..MaxSubs -> Nat] /\ (\A s \in 1..MaxSubs : stream[s] = Off) /\ stream[1] = Off
    BY <1>3, NoStreams, OffIsNat
  <1>8. ClientInv
    <2>1. PICK m \in Received : m = Nothing
      BY DEF Received, Nothing
    <2>2. msg \in [Readers -> Received] /\ reader \in [Readers -> Places]
      BY <1>3, <2>1 DEF Places
    <2>3. subs \in 0..MaxSubs /\ handled \in Seq(Nat)
      BY <1>3, OffIsNat
    <2> QED BY <1>3, <1>6, <1>7, <2>2, <2>3 DEF ClientInv
  <1>9. ThreadInv /\ FirstInv
    BY <1>3, <1>5, <1>6 DEF ThreadInv, FirstInv
  <1>10. StreamInv
    <2> HIDE DEF InHand
    <2> QED BY <1>3, <1>5, <1>7 DEF StreamInv
  <1>11. PhaseInv
    BY <1>2, <1>3, <1>5, <1>6 DEF PhaseInv
  <1>12. InStep
    <2> HIDE DEF InHand
    <2> QED BY <1>5, <1>6, <1>7 DEF InStep
  <1>13. WalletInv
    <2>1. wallet \in WalletType /\ Exact(wallet, ledger) /\ DustExact(wallet)
      BY <1>2, <1>4, NewWalletExact
    <2>2. scan \in Scans
      BY <1>2, ScanFacts
    <2> HIDE DEF Untouched, InStep
    <2> QED BY <1>2, <1>12, <2>1, <2>2 DEF WalletInv
  <1> QED BY <1>1, <1>4, <1>8, <1>9, <1>10, <1>11, <1>13 DEF IndexerInv, FollowInv

(* A step that touches neither the stream nor the wallet. *)
LEMMA FollowSame ==
    ASSUME FollowInv, UNCHANGED <<sessionVars, walletUserVars, user>>
    PROVE  FollowInv'
  <1>1. UNCHANGED <<ledger, clientVars, past, wallet, phase, scan, saved, user>>
    BY DEF sessionVars, walletUserVars, syncVars
  <1>2. LedgerInv' /\ ClientInv' /\ ThreadInv' /\ StreamInv'
    BY <1>1, ClientSame DEF FollowInv
  <1>3. UNCHANGED <<connected_, running_, reader, msg, stream, subs, call>>
    BY <1>1 DEF clientVars, wireVars, threadVars
  <1>4. FirstInv' /\ PhaseInv'
    BY <1>1, <1>3 DEF FollowInv, FirstInv, PhaseInv
  <1>5. (InStep => InStep') /\ (Untouched' => Untouched)
    BY <1>1, <1>3 DEF InStep, InHand, Pending, Off, Untouched
  <1>6. WalletInv'
    <2> HIDE DEF Untouched, InStep
    <2>1. user = "wallet" => InStep'
      BY <1>5 DEF FollowInv, WalletInv
    <2> QED BY <1>1, <1>5, <2>1, WalletKeeps DEF FollowInv
  <1> QED BY <1>2, <1>4, <1>6 DEF FollowInv

LEMMA IndexerStep == IndexerInv /\ [Next]_streamVars => IndexerInv'
  <1> SUFFICES ASSUME IndexerInv, [Next]_streamVars PROVE IndexerInv'
    OBVIOUS
  <1>0. PollInv /\ SocketInv /\ FollowInv
    BY DEF IndexerInv
  <1>1. CASE Application(SessionNext)
    <2>1. UNCHANGED pollingVars /\ UNCHANGED socketVars
      BY <1>1 DEF Application
    <2> QED BY <1>0, <1>1, <2>1, ApplicationFollows, PollSame, SocketSame DEF IndexerInv
  <1>2. CASE Wallet(WalletNext)
    <2>1. /\ UNCHANGED pollingVars /\ UNCHANGED socketVars
          /\ user = "wallet" /\ user' = user /\ past' = past /\ WalletNext
      BY <1>2 DEF Wallet
    <2> QED BY <1>0, <2>1, WalletFollows, PollSame, SocketSame DEF IndexerInv
  <1>3. CASE Poller(PollingNext)
    <2>1. PollingNext /\ UNCHANGED socketVars /\ UNCHANGED <<sessionVars, walletUserVars, user>>
      BY <1>3 DEF Poller
    <2> QED BY <1>0, <2>1, PollPreserved, SocketSame, FollowSame DEF IndexerInv
  <1>4. CASE Socket(SocketNext)
    <2>1. SocketNext /\ UNCHANGED pollingVars /\ UNCHANGED <<sessionVars, walletUserVars, user>>
      BY <1>4 DEF Socket
    <2> QED BY <1>0, <2>1, SocketPreserved, PollSame, FollowSame DEF IndexerInv
  <1>5. CASE UNCHANGED streamVars
    <2>1. /\ UNCHANGED pollingVars /\ UNCHANGED socketVars
          /\ UNCHANGED <<sessionVars, walletUserVars, user>>
      BY <1>5 DEF streamVars
    <2> QED BY <1>0, <2>1, PollSame, SocketSame, FollowSame DEF IndexerInv
  <1> QED BY <1>1, <1>2, <1>3, <1>4, <1>5 DEF Next, AtRest

LEMMA IndexerInvariant == Spec => []IndexerInv
  BY IndexerInit, IndexerStep, PTL DEF Spec

(* A wallet that no block scan and no revert touched holds at every moment *)
(* exactly the coins unspent after the transactions it applied, each once, *)
(* and their value, and between two syncs the dust they generate           *)
(* (wallet_facade.cpp): for ledgers of any length.                         *)
THEOREM WalletCorrect == Spec => []WalletIsExact
  <1>1. IndexerInv => WalletIsExact
    <2> SUFFICES ASSUME IndexerInv PROVE WalletIsExact
      OBVIOUS
    <2>1. Exact(wallet, ledger)
      BY DEF IndexerInv, FollowInv, WalletInv
    <2>2. phase = "idle" => DustExact(wallet)
      BY DEF IndexerInv, FollowInv, WalletInv, Untouched
    <2> QED BY <2>1, <2>2 DEF WalletIsExact, WalletMatchesLedger, DustMatchesCoins, Exact, DustExact
  <1> QED BY <1>1, IndexerInvariant, PTL

(* The account of a single subscription is exact, the saturating           *)
(* subtraction never bites, and a first connection is read                 *)
(* (graphql_subscription.cpp).                                             *)
THEOREM StreamCorrect == Spec => []StreamIsExact
  <1>1. IndexerInv => StreamIsExact
    <2> SUFFICES ASSUME IndexerInv PROVE StreamIsExact
      OBVIOUS
    <2>1. StreamBalanceExact
      <3> SUFFICES ASSUME subs = 1, "started" \notin past, handled # <<>>
                   PROVE  /\ \A i \in DOMAIN handled : handled[i] = handled[1] + i - 1
                          /\ handled[1] = 1 =>
                               /\ night_balance_ = Worth(Unspent(ledger, Len(handled)))
                               /\ utxo_count_ = Cardinality(Unspent(ledger, Len(handled)))
        BY DEF StreamBalanceExact
      <3>1. SingleStream
        BY DEF IndexerInv, FollowInv, StreamInv
      <3>2. DOMAIN handled = 1..Len(handled)
        BY DEF IndexerInv, FollowInv, ClientInv
      <3> QED BY <3>1, <3>2 DEF SingleStream
    <2>2. FirstConnectionIsRead
      <3>1. user = "application" => FirstConnectionIsRead
        BY DEF FirstConnectionIsRead, IndexerInv, FollowInv, FirstInv
      <3>2. user # "application" => past # {"connected"}
        BY DEF IndexerInv, FollowInv, PhaseInv
      <3> QED BY <3>1, <3>2 DEF FirstConnectionIsRead
    <2> QED BY <2>1, <2>2 DEF StreamIsExact
  <1> QED BY <1>1, IndexerInvariant, PTL

(* No reader thread is lost: none is assigned over while it can be joined, *)
(* none outlives the sync() that started it, and disconnect() of a         *)
(* connected WebSocketClient joins its loop (graphql_subscription.cpp,     *)
(* wallet_facade.cpp, ws_client.cpp).                                      *)
THEOREM ReadersCorrect == Spec => []ReadersJoined
  <1>1. IndexerInv => ReadersJoined
    <2> SUFFICES ASSUME IndexerInv PROVE ReadersJoined
      OBVIOUS
    <2>1. NoJoinableThreadReplaced
      BY DEF NoJoinableThreadReplaced, IndexerInv, FollowInv, ThreadInv
    <2>2. WalletReaderJoined
      BY DEF WalletReaderJoined, NoReaderOutlivesSync, IndexerInv, FollowInv, PhaseInv, ThreadInv, Readers
    <2>3. DisconnectedMeansQuiet
      BY DEF IndexerInv, SocketInv
    <2> QED BY <2>1, <2>2, <2>3 DEF ReadersJoined
  <1> QED BY <1>1, IndexerInvariant, PTL

(* What the polling subscription has reported adds up to what it knows,    *)
(* for any set of coins (indexer_subscription.cpp).                        *)
THEOREM PollCorrect == Spec => []PollReportsAddUp
  <1>1. IndexerInv => PollReportsAddUp
    BY DEF IndexerInv, PollInv, PollReportsAddUp
  <1> QED BY <1>1, IndexerInvariant, PTL
=============================================================================
