------------------------- MODULE SubscriptionSession -------------------------
(***************************************************************************)
(* An application that drives a RealtimeIndexerClient directly, in any     *)
(* order of calls: subscribe, subscribe_resume, subscribe_dust_generations,*)
(* unsubscribe, start and stop (the destructor is a stop).                 *)
(*                                                                         *)
(* A second start() before stop() would assign to a joinable std::thread   *)
(* and end the program; the model's application does not do that.          *)
(***************************************************************************)
EXTENDS SubscriptionClient

VARIABLES past  \* history: "connected", "reconnected", "started"

sessionVars == <<ledger, clientVars, past>>

SessionInit == ClientInit /\ past = {}

(* subscribe(), or subscribe_resume() from a transaction already received. *)
AppSubscribes ==
    \E from \in {0} \cup {handled[i] : i \in DOMAIN handled} :
        /\ subs < MaxSubs
        /\ Begin("subscribe", from, "connect")
        /\ UNCHANGED <<ledger, wireVars, threadVars, balanceVars, subscribed_, past>>

AppSubscribesDust ==
    /\ Begin("dust", 0, "connect")
    /\ UNCHANGED <<ledger, wireVars, threadVars, balanceVars, subscribed_, past>>

AppUnsubscribes ==
    /\ subscribed_
    /\ Begin("unsubscribe", 0, "unsubscribe")
    /\ UNCHANGED <<ledger, wireVars, threadVars, balanceVars, subscribed_, past>>

AppStops ==
    /\ Begin("stop", 0, "unsubscribe")
    /\ UNCHANGED <<ledger, wireVars, threadVars, balanceVars, subscribed_, past>>

AppStarts ==
    /\ call.at = "idle" /\ reader["own"] = "none"
    /\ reader' = [reader EXCEPT !["own"] = "starting"]
    /\ past' = past \cup {"started"}
    /\ UNCHANGED <<ledger, wireVars, running_, msg, balanceVars, subscribed_, call>>

SessionCallStep ==
    /\ CallStep
    /\ past' = past \cup (IF connected_ \/ ~connected_' THEN {}
                           ELSE IF "connected" \in past THEN {"reconnected"} ELSE {"connected"})
    /\ UNCHANGED ledger

Environment ==
    \/ LedgerGrows /\ UNCHANGED <<clientVars, past>>
    \/ ConnectionDrops /\ UNCHANGED <<ledger, threadVars, balanceVars, subscribed_, call, past>>

ReaderStep(r) ==
    /\ \/ LoopTop(r) \/ Receive(r) \/ ReadFails(r)
       \/ HandleUtxo(r) \/ HandleOther(r) \/ Leave(r)
    /\ UNCHANGED <<ledger, past>>

OwnStart == OwnReaderStarts /\ UNCHANGED <<ledger, past>>

SessionNext ==
    \/ AppSubscribes \/ AppSubscribesDust \/ AppUnsubscribes \/ AppStops \/ AppStarts
    \/ SessionCallStep
    \/ Environment
    \/ OwnStart
    \/ \E r \in Readers : ReaderStep(r)

(* Threads are scheduled, and a read ends with a message, an error or the  *)
(* 60 s timeout.                                                           *)
SessionFairness ==
    /\ WF_sessionVars(SessionCallStep)
    /\ WF_sessionVars(OwnStart)
    /\ \A r \in Readers : WF_sessionVars(ReaderStep(r))

SessionSpec == SessionInit /\ [][SessionNext]_sessionVars /\ SessionFairness
-----------------------------------------------------------------------------
(* While a client has sent a single subscription and was never start()ed,  *)
(* it accounts every transaction after the id it resumed from exactly      *)
(* once, in order; if it resumed from none, current_balance("NIGHT") is    *)
(* the value of the coins left by the last of them and                     *)
(* current_utxo_count() their number: the saturating subtraction in        *)
(* parse_unshielded_transaction_event() never bites.                       *)
StreamBalanceExact ==
    (subs = 1 /\ "started" \notin past /\ handled # <<>>)
      => /\ \A i \in DOMAIN handled : handled[i] = handled[1] + i - 1
         /\ handled[1] = 1 =>
               /\ night_balance_ = Worth(Unspent(ledger, Len(handled)))
               /\ utxo_count_ = Cardinality(Unspent(ledger, Len(handled)))

(* start_async() never assigns to a std::thread that is still joinable,    *)
(* which would end the program: when it is about to spawn, the previous    *)
(* reader has been joined, whatever start(), unsubscribe() and stop() did  *)
(* to running_ in between.                                                 *)
NoJoinableThreadReplaced ==
    (call.at = "spawn" /\ ~running_) => reader["async"] = "none"

(* The first connection of a client that was never start()ed is read: if   *)
(* it is up and no call is in progress, the background reader is alive.    *)
(* (Not so after a reconnection, or after a start() that stop() overtook:  *)
(* running_ is TRUE without a reader, and start_async() spawns nobody.)    *)
FirstConnectionIsRead ==
    (past = {"connected"} /\ connected_ /\ call.at = "idle")
      => reader["async"] \in {"loop", "reading", "handle", "leave"}

(* stop() returns, and with it the destructor: its joins never wait for a  *)
(* reader that nothing will wake.                                          *)
StopReturns == (call.op = "stop" /\ call.at # "idle") ~> (call.at = "idle")
=============================================================================
