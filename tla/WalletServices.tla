--------------------------- MODULE WalletServices ---------------------------
(***************************************************************************)
(* SubmissionService, ProvingService and PendingTransactionsService        *)
(* (wallet_services.cpp) against a chain whose blocks may be retracted     *)
(* until they are final, and indexer replicas that may lag behind it.      *)
(***************************************************************************)
EXTENDS Naturals, Sequences, FiniteSets

CONSTANTS
    ServiceTxs,   \* transactions
    MaxPending,   \* bound: entries of pending_
    MaxRetracts   \* bound: retractions

ASSUME WalletServicesAssumption == MaxPending \in Nat /\ MaxRetracts \in Nat

VARIABLES
    onChain,      \* where each transaction is
    retracts,
    connected,    \* connected_
    event,        \* what submit_transaction() last returned for each transaction
    pending,      \* pending_
    polling,      \* poll_once(): the entry whose turn it is, 0 when idle
    callbacks     \* history: statuses the callback was told, per transaction

servicesVars == <<onChain, retracts, connected, event, pending, polling, callbacks>>

Tags == <<"Submitted", "InBlock", "Finalized">>
Rank(tag) == CHOOSE i \in 1..3 : Tags[i] = tag

ServicesInit ==
    /\ onChain = [t \in ServiceTxs |-> "unknown"] /\ retracts = 0
    /\ connected = FALSE
    /\ event = [t \in ServiceTxs |-> [tag |-> "none", error |-> FALSE]]
    /\ pending = << >> /\ polling = 0
    /\ callbacks = [t \in ServiceTxs |-> << >>]

(* External: the chain. *)
ServiceChainMoves(t) ==
    /\ \/ onChain[t] = "Submitted" /\ onChain' = [onChain EXCEPT ![t] = "InBlock"] /\ UNCHANGED retracts
       \/ onChain[t] = "InBlock" /\ onChain' = [onChain EXCEPT ![t] = "Finalized"] /\ UNCHANGED retracts
       \/ /\ onChain[t] = "InBlock" /\ retracts < MaxRetracts
          /\ onChain' = [onChain EXCEPT ![t] = "Submitted"] /\ retracts' = retracts + 1
    /\ UNCHANGED <<connected, event, pending, polling, callbacks>>
-----------------------------------------------------------------------------
(* submit_transaction(): an error of any kind is returned with the tag     *)
(* Submitted; wait_for_status() answers with the status waited for and     *)
(* asks nobody.                                                            *)
ServiceSubmits(t, waitFor) ==
    /\ \/ /\ onChain[t] = "unknown"
          /\ onChain' = [onChain EXCEPT ![t] = "Submitted"]
          /\ connected' = TRUE
          /\ event' = [event EXCEPT ![t] = [tag |-> waitFor, error |-> FALSE]]
       \/ /\ connected' = FALSE
          /\ event' = [event EXCEPT ![t] = [tag |-> "Submitted", error |-> TRUE]]
          /\ \/ UNCHANGED onChain
             \/ onChain[t] = "unknown" /\ onChain' = [onChain EXCEPT ![t] = "Submitted"]
    /\ UNCHANGED <<retracts, pending, polling, callbacks>>

CloseService ==
    /\ connected' = FALSE
    /\ UNCHANGED <<onChain, retracts, event, pending, polling, callbacks>>
-----------------------------------------------------------------------------
(* PendingTransactionsService: start() and stop() only set a flag nobody   *)
(* reads, so it is the application that calls poll_once().                 *)
AddPending(t) ==
    /\ polling = 0 /\ Len(pending) < MaxPending /\ onChain[t] # "unknown"
    /\ pending' = Append(pending, [tx |-> t, status |-> "Submitted"])
    /\ UNCHANGED <<onChain, retracts, connected, event, polling, callbacks>>

(* remove_if() keeps the order of the entries that stay. *)
ClearPending(t) ==
    /\ polling = 0
    /\ LET stay == {i \in 1..Len(pending) : pending[i].tx # t}
           n == Cardinality(stay)
       IN  \E was \in [1..n -> stay] :
              /\ \A i, j \in 1..n : i < j => was[i] < was[j]
              /\ pending' = [i \in 1..n |-> pending[was[i]]]
    /\ callbacks' = [callbacks EXCEPT ![t] = << >>]
    /\ UNCHANGED <<onChain, retracts, connected, event, polling>>

PollOnce ==
    /\ polling = 0 /\ pending # << >>
    /\ polling' = 1
    /\ UNCHANGED <<onChain, retracts, connected, event, pending, callbacks>>

AfterEntry == IF polling < Len(pending) THEN polling + 1 ELSE 0

(* Faulty variant: any answer that differs is a change. *)
NextStatusAny(now, answer) == answer

(* The status an entry has after an answer: Finalized is not left again,   *)
(* and only a Submitted entry becomes InBlock.                             *)
NextStatus(now, answer) ==
    IF answer = "Finalized" \/ (answer = "InBlock" /\ now = "Submitted") THEN answer ELSE now

(* A replica answers with what the chain says or said; the callback hears  *)
(* of a change only.                                                       *)
PollEntry(answer) ==
    /\ polling # 0
    /\ LET p == pending[polling]
           next == NextStatus(p.status, answer)
       IN  /\ onChain[p.tx] # "unknown" /\ Rank(answer) <= Rank(onChain[p.tx])
           /\ pending' = [pending EXCEPT ![polling].status = next]
           /\ callbacks' = IF next # p.status THEN [callbacks EXCEPT ![p.tx] = Append(@, next)] ELSE callbacks
    /\ polling' = AfterEntry
    /\ UNCHANGED <<onChain, retracts, connected, event>>

(* Faulty variant: the failed entry counts as settled. *)
PollFailsFinal ==
    /\ polling # 0
    /\ polling' = 0
    /\ pending' = [pending EXCEPT ![polling].status = "Finalized"]
    /\ UNCHANGED <<onChain, retracts, connected, event, callbacks>>

(* A query that throws ends the whole round: the entries after it wait for *)
(* the next one.                                                           *)
PollFails ==
    /\ polling # 0
    /\ polling' = 0
    /\ UNCHANGED <<onChain, retracts, connected, event, pending, callbacks>>

ServicesNext ==
    \/ \E t \in ServiceTxs :
          \/ ServiceChainMoves(t) \/ AddPending(t) \/ ClearPending(t)
          \/ \E w \in {"Submitted", "InBlock", "Finalized"} : ServiceSubmits(t, w)
    \/ CloseService \/ PollOnce \/ PollFails
    \/ \E a \in {"Submitted", "InBlock", "Finalized"} : PollEntry(a)
-----------------------------------------------------------------------------
(* Whatever lagging replicas answer, an entry says Finalized only of a     *)
(* transaction that is final, and each entry's callbacks tell InBlock at   *)
(* most once, and nothing after Finalized (wallet_services.cpp:329-426).   *)
PendingStatusHonest ==
    /\ \A i \in 1..Len(pending) :
          pending[i].status = "Finalized" => onChain[pending[i].tx] = "Finalized"
    /\ \A t \in ServiceTxs :
          (\E i \in 1..Len(pending) : \A j \in 1..Len(pending) : pending[j].tx = t <=> j = i)
            => \A i, j \in 1..Len(callbacks[t]) : i < j => Rank(callbacks[t][i]) < Rank(callbacks[t][j])
=============================================================================
