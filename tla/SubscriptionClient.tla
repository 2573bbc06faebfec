------------------------- MODULE SubscriptionClient -------------------------
(***************************************************************************)
(* The indexer's WebSocket stream of unshielded transactions and its       *)
(* client: GraphQLSubscriptionClient, wrapped by RealtimeIndexerClient     *)
(* (src/src/network/graphql_subscription.cpp).                             *)
(*                                                                         *)
(* One application thread makes the calls, one step at a time (`call').    *)
(* Up to two reader threads run message_loop_(): "async", spawned by       *)
(* start_async(), and "own", spawned by RealtimeIndexerClient::start().    *)
(* The flags connected_ and running_ are shared by all three, which is     *)
(* where the interesting interleavings are.                                *)
(*                                                                         *)
(* The indexer is external: an append-only list of the transactions that   *)
(* touch one address.  Transaction i creates at most coin i, worth i, and  *)
(* spends coins of earlier transactions.  Once subscribed from id n it     *)
(* sends n+1, n+2, ... in order, progress messages at any time, and may    *)
(* complete the stream or drop the connection.                             *)
(*                                                                         *)
(* Left out: dust payloads (no state kept), active_subscriptions_ (only    *)
(* read to send "complete" just before the socket is closed), callbacks    *)
(* that no caller sets.  ws_impl_ is reset while a reader may be inside    *)
(* it; of the outcomes of that race the model has the one where the read   *)
(* fails.                                                                  *)
(***************************************************************************)
EXTENDS Naturals, Sequences, FiniteSets, FiniteSetsExt, Sums

CONSTANTS MaxTxs,       \* bound: transactions on the ledger
          MaxSubs,      \* bound: unshielded subscriptions per client
          MaxFrom       \* largest transaction id a subscription resumes from

ASSUME SubscriptionAssumption ==
    /\ MaxTxs \in Nat \ {0}
    /\ MaxSubs \in Nat \ {0}
    /\ MaxFrom \in Nat /\ MaxFrom >= MaxTxs

VARIABLES
    ledger,         \* external: the address's transactions
    ws,             \* ws_impl_: "none", "open", "dead" (unnoticed), "closed"
    connected_, running_,
    reader,         \* reader[r]: where thread r is in message_loop_()
    msg,            \* msg[r]: the message thread r has read
    stream,         \* stream[s]: last id sent on subscription s, or Off
    subs,           \* unshielded subscriptions sent by this client
    night_balance_, utxo_count_,
    handled,        \* history: transaction ids accounted in the balance
    subscribed_,    \* RealtimeIndexerClient::subscribed_
    call            \* the application's call: op, argument, step, result

wireVars    == <<ws, connected_, stream, subs>>
threadVars  == <<running_, reader, msg>>
balanceVars == <<night_balance_, utxo_count_, handled>>
clientVars  == <<wireVars, threadVars, balanceVars, subscribed_, call>>

Readers == {"async", "own"}
Off == MaxFrom + 1
Nothing == [kind |-> "other", id |-> 0]
NoCall == [op |-> "none", from |-> 0, at |-> "idle", ok |-> FALSE]
-----------------------------------------------------------------------------
(* The ledger, external. *)

Coins(l) == {i \in DOMAIN l : l[i].creates}
SpentBy(l, n) == UNION {l[i].spends : i \in 1..n}
Unspent(l, n) == {i \in Coins(l) : i <= n} \ SpentBy(l, n)
Worth(S) == SumOver([c \in S |-> c], S)

LedgerGrows ==
    /\ Len(ledger) < MaxTxs
    /\ \E c \in BOOLEAN, S \in SUBSET Unspent(ledger, Len(ledger)) :
          /\ c \/ S # {}
          /\ ledger' = Append(ledger, [creates |-> c, spends |-> S])

FreshClient ==
    /\ ws = "none" /\ connected_ = FALSE
    /\ stream = [s \in 1..MaxSubs |-> Off] /\ subs = 0
    /\ running_ = FALSE
    /\ reader = [r \in Readers |-> "none"] /\ msg = [r \in Readers |-> Nothing]
    /\ night_balance_ = 0 /\ utxo_count_ = 0 /\ handled = <<>>
    /\ subscribed_ = FALSE
    /\ call = NoCall

(* A client destroyed after its stop(): the next one starts afresh, with   *)
(* whatever threads are left.                                              *)
ClientReplaced ==
    /\ ws' = "none" /\ connected_' = FALSE
    /\ stream' = [s \in 1..MaxSubs |-> Off] /\ subs' = 0
    /\ running_' = FALSE
    /\ night_balance_' = 0 /\ utxo_count_' = 0 /\ handled' = <<>>
    /\ subscribed_' = FALSE
    /\ call' = NoCall
    /\ UNCHANGED <<reader, msg>>

ClientInit == ledger = <<>> /\ FreshClient
-----------------------------------------------------------------------------
(* The connection. *)

(* The peer or the network drops the connection; nobody is told. *)
ConnectionDrops ==
    /\ ws = "open"
    /\ ws' = "dead"
    /\ UNCHANGED <<connected_, stream, subs>>

ConnectOpens ==
    /\ ws' = "open" /\ connected_' = TRUE
    /\ stream' = [s \in 1..MaxSubs |-> Off]
    /\ UNCHANGED subs

ConnectFails == ws' = "none" /\ UNCHANGED <<connected_, stream, subs>>

(* disconnect(): nothing at all unless connected_.  Readers blocked in     *)
(* read_msg() find the socket closed.                                      *)
Disconnect ==
    IF connected_
      THEN /\ ws' = "none" /\ connected_' = FALSE
           /\ stream' = [s \in 1..MaxSubs |-> Off]
           /\ reader' = [r \in Readers |-> IF reader[r] = "reading" THEN "leave" ELSE reader[r]]
           /\ UNCHANGED subs
      ELSE UNCHANGED <<wireVars, reader>>

(* subscribe_unshielded_transactions(): a send that fails is not noticed. *)
SendSubscribe(from) ==
    /\ subs < MaxSubs
    /\ subs' = subs + 1
    /\ stream' = IF ws = "open" THEN [stream EXCEPT ![subs + 1] = from] ELSE stream
    /\ UNCHANGED <<ws, connected_>>

(* start_async() *)
StartAsync ==
    IF running_ THEN UNCHANGED threadVars
    ELSE /\ running_' = TRUE
         /\ reader' = [reader EXCEPT !["async"] = "loop"]
         /\ UNCHANGED msg
-----------------------------------------------------------------------------
(* Reader threads: message_loop_().                                        *)

(* RealtimeIndexerClient::run(), on its own thread, sets running_ first. *)
OwnReaderStarts ==
    /\ reader["own"] = "starting"
    /\ running_' = TRUE
    /\ reader' = [reader EXCEPT !["own"] = "loop"]
    /\ UNCHANGED <<wireVars, msg, balanceVars, subscribed_, call>>

LoopWhileRunning(r) ==
    /\ reader[r] = "loop"
    /\ \/ /\ running_ /\ connected_ /\ ws \in {"open", "dead"}
          /\ reader' = [reader EXCEPT ![r] = "reading"]
       \/ /\ ~running_
          /\ reader' = [reader EXCEPT ![r] = "leave"]
    /\ UNCHANGED <<wireVars, running_, msg, balanceVars, subscribed_, call>>

(* The head of the loop: while connected_ but without an open socket it    *)
(* sleeps and comes back.                                                  *)
LoopTop(r) ==
    /\ reader[r] = "loop"
    /\ \/ /\ running_ /\ connected_ /\ ws \in {"open", "dead"}
          /\ reader' = [reader EXCEPT ![r] = "reading"]
       \/ /\ ~(running_ /\ connected_)
          /\ reader' = [reader EXCEPT ![r] = "leave"]
    /\ UNCHANGED <<wireVars, running_, msg, balanceVars, subscribed_, call>>

Gets(r, m) ==
    /\ msg' = [msg EXCEPT ![r] = m]
    /\ reader' = [reader EXCEPT ![r] = "handle"]

(* read_msg() returns the next message of the server. *)
Receive(r) ==
    /\ reader[r] = "reading" /\ ws = "open"
    /\ \E s \in 1..MaxSubs :
          /\ stream[s] # Off
          /\ \/ /\ stream[s] < Len(ledger)
                /\ stream' = [stream EXCEPT ![s] = @ + 1]
                /\ Gets(r, [kind |-> "utxo", id |-> stream[s] + 1])
             \/ /\ \E h \in stream[s]..Len(ledger) : Gets(r, [kind |-> "progress", id |-> h])
                /\ UNCHANGED stream
             \/ /\ stream' = [stream EXCEPT ![s] = Off]
                /\ Gets(r, Nothing)
    /\ UNCHANGED <<ws, connected_, subs, running_, balanceVars, subscribed_, call>>

(* read_msg() fails: the connection is gone, or 60 s passed in silence. *)
ReadFails(r) ==
    /\ reader[r] = "reading"
    /\ ws' = "closed"
    /\ reader' = [reader EXCEPT ![r] = "leave"]
    /\ UNCHANGED <<connected_, stream, subs, running_, msg, balanceVars, subscribed_, call>>

(* parse_unshielded_transaction_event(): created coins are added, spent    *)
(* ones subtracted, never below zero.                                      *)
AddCreated(b, id) == IF ledger[id].creates THEN b + id ELSE b

SubtractSpentNothing(b, id) == b

SubtractSpent(b, id) == IF b > Worth(ledger[id].spends) THEN b - Worth(ledger[id].spends) ELSE 0

HandleUtxo(r) ==
    /\ reader[r] = "handle" /\ msg[r].kind = "utxo"
    /\ LET id == msg[r].id
           more == IF ledger[id].creates THEN utxo_count_ + 1 ELSE utxo_count_
           less == Cardinality(ledger[id].spends)
       IN  /\ night_balance_' = SubtractSpent(AddCreated(night_balance_, id), id)
           /\ utxo_count_' = IF more > less THEN more - less ELSE 0
           /\ handled' = Append(handled, id)
    /\ reader' = [reader EXCEPT ![r] = "loop"]
    /\ msg' = [msg EXCEPT ![r] = Nothing]
    /\ UNCHANGED <<wireVars, running_, subscribed_, call>>

HandleOther(r) ==
    /\ reader[r] = "handle" /\ msg[r].kind # "utxo"
    /\ reader' = [reader EXCEPT ![r] = "loop"]
    /\ msg' = [msg EXCEPT ![r] = Nothing]
    /\ UNCHANGED <<wireVars, running_, balanceVars, subscribed_, call>>

LeaveConnected(r) ==
    /\ reader[r] = "leave"
    /\ reader' = [reader EXCEPT ![r] = "done"]
    /\ UNCHANGED <<connected_, ws, stream, subs, running_, msg, balanceVars, subscribed_, call>>

(* The end of message_loop_(): connected_ is cleared whoever set it. *)
Leave(r) ==
    /\ reader[r] = "leave"
    /\ reader' = [reader EXCEPT ![r] = "done"]
    /\ connected_' = FALSE
    /\ UNCHANGED <<ws, stream, subs, running_, msg, balanceVars, subscribed_, call>>
-----------------------------------------------------------------------------
(* The calls of RealtimeIndexerClient, one step of the application each.   *)

Begin(op, from, at) ==
    /\ call.at = "idle"
    /\ call' = [op |-> op, from |-> from, at |-> at, ok |-> FALSE]

GoTo(at) == call' = [call EXCEPT !.at = at]
ReturnWith(b) == call' = [call EXCEPT !.at = "idle", !.ok = b]

(* connect(): TRUE at once while connected_. *)
CallConnects ==
    /\ call.at = "connect"
    /\ \/ connected_ /\ UNCHANGED wireVars
       \/ ~connected_ /\ ConnectOpens
    /\ GoTo("send")
    /\ UNCHANGED <<threadVars, balanceVars, subscribed_>>

CallConnectFails ==
    /\ call.at = "connect" /\ ~connected_
    /\ ConnectFails
    /\ ReturnWith(FALSE)
    /\ UNCHANGED <<threadVars, balanceVars, subscribed_>>

CallSubscribes ==
    /\ call.at = "send"
    /\ \/ /\ call.op = "subscribe"
          /\ SendSubscribe(call.from)
          /\ subscribed_' = TRUE
       \/ call.op = "dust" /\ UNCHANGED <<wireVars, subscribed_>>
    /\ GoTo("spawn")
    /\ UNCHANGED <<threadVars, balanceVars>>

(* subscribe_dust_generations() leaves the reading to start()'s thread,    *)
(* RealtimeIndexerClient::running_ being TRUE from start() to stop().      *)
CallStartsReader ==
    /\ call.at = "spawn"
    /\ IF call.op = "dust" /\ reader["own"] # "none" THEN UNCHANGED threadVars ELSE StartAsync
    /\ ReturnWith(TRUE)
    /\ UNCHANGED <<wireVars, balanceVars, subscribed_>>

(* unsubscribe(), alone or as the first half of stop(). *)
CallUnsubscribes ==
    /\ call.at = "unsubscribe"
    /\ subscribed_' = FALSE
    /\ IF subscribed_ THEN Disconnect ELSE UNCHANGED <<wireVars, reader>>
    /\ IF call.op = "stop" THEN GoTo("stop") ELSE ReturnWith(TRUE)
    /\ UNCHANGED <<running_, msg, balanceVars>>

(* stop_async() up to the join *)
CallStops ==
    /\ call.at = "stop"
    /\ running_' = FALSE
    /\ Disconnect
    /\ GoTo("join")
    /\ UNCHANGED <<msg, balanceVars, subscribed_>>

Joinable(r) == reader[r] \in {"none", "done"}

CallJoinsNobody ==
    /\ call.at = "join"
    /\ reader' = [r \in Readers |-> IF Joinable(r) THEN "none" ELSE reader[r]]
    /\ ReturnWith(TRUE)
    /\ UNCHANGED <<wireVars, running_, msg, balanceVars, subscribed_>>

(* Both joins of stop(): the thread of start_async(), then start()'s own. *)
CallJoins ==
    /\ call.at = "join"
    /\ \A r \in Readers : Joinable(r)
    /\ reader' = [r \in Readers |-> "none"]
    /\ ReturnWith(TRUE)
    /\ UNCHANGED <<wireVars, running_, msg, balanceVars, subscribed_>>

CallStep ==
    \/ CallConnects \/ CallConnectFails \/ CallSubscribes \/ CallStartsReader
    \/ CallUnsubscribes \/ CallStops \/ CallJoins
-----------------------------------------------------------------------------
Messages == [kind : {"utxo", "progress", "other"}, id : 0..MaxTxs]

ClientTypeOK ==
    /\ Len(ledger) <= MaxTxs
    /\ ws \in {"none", "open", "dead", "closed"}
    /\ connected_ \in BOOLEAN /\ running_ \in BOOLEAN /\ subscribed_ \in BOOLEAN
    /\ reader \in [Readers -> {"none", "starting", "loop", "reading", "handle", "leave", "done"}]
    /\ msg \in [Readers -> Messages]
    /\ stream \in [1..MaxSubs -> 0..Off] /\ subs \in 0..MaxSubs
    /\ night_balance_ \in Nat /\ utxo_count_ \in Nat
    /\ call.at \in {"idle", "connect", "send", "spawn", "unsubscribe", "stop", "join"}
=============================================================================
