--------------------------- MODULE IndexerPolling ---------------------------
(***************************************************************************)
(* IndexerSubscription (indexer_subscription.cpp): a thread that polls the *)
(* wallet of an address with a client of its own for every poll and tells  *)
(* callbacks what changed, and the calls that start and stop it.           *)
(***************************************************************************)
EXTENDS Naturals, FiniteSets, FiniteSetsExt

CONSTANTS
    PollCoins,      \* coins of the address; a coin is its value
    MaxChainMoves   \* bound: changes of the unspent coins

ASSUME IndexerPollingAssumption == PollCoins \subseteq Nat \ {0} /\ MaxChainMoves \in Nat

VARIABLES
    onChain, chainMoves,    \* the unspent coins, and how often they changed
    running, poll,          \* running_ and the thread: where it is and this poll's answer
    stopping,               \* stop() waits in join()
    lastBalance, lastCount, lastCoins,  \* last_known_balance_, last_utxo_count_, last_known_utxos_
    toldBalance, toldCoins, \* history: what the callbacks add up to
    faulty                  \* history: a query failed or was cut short, or the two of a poll differed

pollingVars == <<onChain, chainMoves, running, poll, stopping, lastBalance, lastCount, lastCoins, toldBalance, toldCoins, faulty>>

PollOff == [pc |-> "off", coins |-> {}]
Balance(coins) == MapThenSumSet(LAMBDA c : c, coins)

PollingInit ==
    /\ onChain = {} /\ chainMoves = 0
    /\ running = FALSE /\ poll = PollOff /\ stopping = FALSE
    /\ lastBalance = 0 /\ lastCount = 0 /\ lastCoins = {}
    /\ toldBalance = 0 /\ toldCoins = {} /\ faulty = FALSE
-----------------------------------------------------------------------------
(* A transaction of the chain spends some coins and makes others. *)
CoinsChange ==
    /\ chainMoves < MaxChainMoves
    /\ chainMoves' = chainMoves + 1
    /\ onChain' \in SUBSET PollCoins
    /\ UNCHANGED <<running, poll, stopping, lastBalance, lastCount, lastCoins, toldBalance, toldCoins, faulty>>

StartPolling ==
    /\ ~stopping /\ ~running
    /\ running' = TRUE /\ poll' = [poll EXCEPT !.pc = "top"]
    /\ UNCHANGED <<onChain, chainMoves, stopping, lastBalance, lastCount, lastCoins, toldBalance, toldCoins, faulty>>

StopPolling ==
    /\ ~stopping
    /\ running' = FALSE /\ stopping' = TRUE
    /\ UNCHANGED <<onChain, chainMoves, poll, lastBalance, lastCount, lastCoins, toldBalance, toldCoins, faulty>>

StopJoins ==
    /\ stopping /\ poll.pc = "off"
    /\ stopping' = FALSE
    /\ UNCHANGED <<onChain, chainMoves, running, poll, lastBalance, lastCount, lastCoins, toldBalance, toldCoins, faulty>>

(* What a query gives: everything, part of it after a failed request, or   *)
(* nothing with an error, which a poll takes for a balance of 0.           *)
Answers == SUBSET onChain

PollTop ==
    /\ poll.pc = "top"
    /\ IF running
       THEN \E coins \in Answers : poll' = [pc |-> "state", coins |-> coins] /\ faulty' = (faulty \/ coins # onChain)
       ELSE poll' = [poll EXCEPT !.pc = "off"] /\ UNCHANGED faulty
    /\ UNCHANGED <<onChain, chainMoves, running, stopping, lastBalance, lastCount, lastCoins, toldBalance, toldCoins>>

(* Faulty variant: only more coins count as a change. *)
TellBalanceOnGrowth ==
    /\ poll.pc = "state"
    /\ lastBalance' = Balance(poll.coins)
    /\ toldBalance' = IF Balance(poll.coins) # lastBalance THEN Balance(poll.coins) ELSE toldBalance
    /\ poll' = [poll EXCEPT !.pc = IF Cardinality(poll.coins) > lastCount THEN "utxos" ELSE "top"]
    /\ UNCHANGED <<onChain, chainMoves, running, stopping, lastCount, lastCoins, toldCoins, faulty>>

(* The balance callbacks run under the lock, when the balance is another.  *)
TellBalance ==
    /\ poll.pc = "state"
    /\ lastBalance' = Balance(poll.coins)
    /\ toldBalance' = IF Balance(poll.coins) # lastBalance THEN Balance(poll.coins) ELSE toldBalance
    /\ poll' = [poll EXCEPT !.pc = IF Cardinality(poll.coins) # lastCount THEN "utxos" ELSE "top"]
    /\ UNCHANGED <<onChain, chainMoves, running, stopping, lastCount, lastCoins, toldCoins, faulty>>

(* Faulty variant: the coins that are gone are not reported. *)
TellCoinsCreated(second) ==
    /\ poll.pc = "utxos"
    /\ LET coins == IF second = "cached" THEN poll.coins ELSE onChain
       IN  /\ toldCoins' = toldCoins \cup (coins \ lastCoins)
           /\ lastCoins' = coins
    /\ lastCount' = Cardinality(poll.coins)
    /\ poll' = [poll EXCEPT !.pc = "top"]
    /\ faulty' = (faulty \/ (second = "fresh" /\ onChain # poll.coins))
    /\ UNCHANGED <<onChain, chainMoves, running, stopping, lastBalance, toldBalance>>

(* query_utxos() again: the entry the first query left in the cache, or,   *)
(* when the callbacks took longer than it lives, a scan of its own.  The   *)
(* difference to the coins known goes to the callbacks; the count kept is  *)
(* that of the first query.                                                *)
TellCoins(second) ==
    /\ poll.pc = "utxos"
    /\ LET coins == IF second = "cached" THEN poll.coins ELSE onChain
       IN  /\ toldCoins' = (toldCoins \cup (coins \ lastCoins)) \ (lastCoins \ coins)
           /\ lastCoins' = coins
    /\ lastCount' = Cardinality(poll.coins)
    /\ poll' = [poll EXCEPT !.pc = "top"]
    /\ faulty' = (faulty \/ (second = "fresh" /\ onChain # poll.coins))
    /\ UNCHANGED <<onChain, chainMoves, running, stopping, lastBalance, toldBalance>>

(* The second query throws: the poll ends there and the count stays, so    *)
(* the next poll tries again.                                              *)
SecondQueryThrows ==
    /\ poll.pc = "utxos"
    /\ poll' = [poll EXCEPT !.pc = "top"]
    /\ faulty' = TRUE
    /\ UNCHANGED <<onChain, chainMoves, running, stopping, lastBalance, lastCount, lastCoins, toldBalance, toldCoins>>

PollStep == PollTop \/ TellBalance \/ SecondQueryThrows \/ \E s \in {"cached", "fresh"} : TellCoins(s)
PollingNext == CoinsChange \/ StartPolling \/ StopPolling \/ StopJoins \/ PollStep
-----------------------------------------------------------------------------
(* The callbacks' reports add up to what the subscription knows; and as    *)
(* long as no query failed, what it knows after a poll are as many coins   *)
(* as the poll found: a change is missed only when as many were spent as   *)
(* made (indexer_subscription.cpp:91-200).                                 *)
PollReportsAddUp ==
    /\ toldCoins = lastCoins
    /\ toldBalance = lastBalance
    /\ poll.pc = "top" /\ ~faulty => Cardinality(lastCoins) = Cardinality(poll.coins) /\ lastBalance = Balance(poll.coins)

(* stop() returns: the thread looks at running_ between polls              *)
(* (indexer_subscription.cpp:72-80, 203-209).                              *)
StopPollingReturns == stopping ~> ~stopping
=============================================================================
