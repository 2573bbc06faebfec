-------------------------- MODULE MCNodeSubmission --------------------------
(* What stands between a wallet and the pool of a node: coins found,       *)
(* reserved and selected, transactions balanced and signed, submitted by   *)
(* each of the SDK's four submitters and followed until they are in a      *)
(* block.  The parts share no object, so a behaviour of several is a       *)
(* behaviour of each: the run takes one of them at a time.                 *)
(*   - MidnightNodeRPC: one transaction submitted twice over the code's    *)
(*     two HTTP paths, enough for a lost first answer to be followed by a  *)
(*     refusal, the WebSocket, and a second submission that meets the late *)
(*     request of the first;                                               *)
(*   - TransactionSubmitter and the contract classes: one transaction,     *)
(*     submitted any number of times;                                      *)
(*   - WalletServices: two transactions, so that one is polled while the   *)
(*     other is retracted;                                                 *)
(*   - the UTXO set: two builders that compete for two coins;              *)
(*   - the balancer: coins and amounts around the fee, the dust limit and  *)
(*     the word (2000 in place of 2^64);                                   *)
(*   - IndexerClient: one thread, two coins, a tick more than the oldest   *)
(*     answer that two valid cache entries in a row can give;              *)
(*   - KeyManager and the signers: one key of each size and the seed's;    *)
(*   - WalletFacade: two seeds, states of each length modulo three, and    *)
(*     coins of which one swap improves a selection and another spoils it. *)
EXTENDS NodeSubmission, ExtrinsicSubmitter, Contracts, UtxoSet, TransactionBalancer, WalletServices,
        IndexerQueries, Signing, WalletFacade, TLC

VARIABLE part   \* the one that is used

submissionVars == <<submitSystemVars, submitterVars, contractVars, utxoVars, balancerVars, servicesVars,
                    queryVars, signingVars, facadeVars, part>>

(* One shape with explicit proofs, one that refers to them.                *)
Shapes ==
    {[outputs |-> 1, commitments |-> TRUE, dustIn |-> 200, dustOut |-> 10, fees |-> 20, references |-> "none",
      proofs |-> "well-formed", signatures |-> "none", signature |-> "well-formed"],
     [outputs |-> 0, commitments |-> TRUE, dustIn |-> 200, dustOut |-> 10, fees |-> 20, references |-> "given",
      proofs |-> "none", signatures |-> "well-formed", signature |-> "none"]}
CoinList == <<200, 1500, 400>>
CodedStates == {<<1, 2, 3>>, <<255, 0, 128, 64>>, <<9, 250, 61, 3, 200>>, <<0, 255, 16, 63, 192, 15>>}
Wallet == <<[token |-> "NIGHT", amount |-> 5], [token |-> "NIGHT", amount |-> 2], [token |-> "NIGHT", amount |-> 2],
            [token |-> "NIGHT", amount |-> 9], [token |-> "OTHER", amount |-> 4]>>

SubmissionSymmetry == Permutations(Utxos) \cup Permutations(Builders)

Init ==
    /\ SubmitSystemInit /\ SubmitterInit /\ ContractInit /\ UtxoInit /\ BalancerInit /\ ServicesInit
    /\ QueriesInit /\ SigningInit /\ FacadeInit
    /\ part \in {"node", "submitter", "contracts", "utxos", "selector", "balance", "split", "merge", "services",
                 "cache", "query", "keys", "facade", "choosing"}
    /\ part # "contracts" => library = {}
    /\ part # "keys" => sodium

NodeNext ==
    /\ part = "node" /\ SubmitSystemNext
    /\ UNCHANGED <<submitterVars, contractVars, utxoVars, balancerVars, servicesVars, queryVars, signingVars, facadeVars, part>>
ExtrinsicsNext ==
    /\ part = "submitter" /\ SubmitterNext
    /\ UNCHANGED <<submitSystemVars, contractVars, utxoVars, balancerVars, servicesVars, queryVars, signingVars, facadeVars, part>>
ContractsNext ==
    /\ part = "contracts" /\ ContractNext
    /\ UNCHANGED <<submitSystemVars, submitterVars, utxoVars, balancerVars, servicesVars, queryVars, signingVars, facadeVars, part>>
CoinsNext ==
    /\ \/ part = "utxos" /\ UtxoNext
       \/ part = "selector" /\ SelectorNext
    /\ UNCHANGED <<submitSystemVars, submitterVars, contractVars, balancerVars, servicesVars, queryVars, signingVars, facadeVars, part>>
BalancingNext ==
    /\ \/ part = "balance" /\ BalanceNext
       \/ part = "split" /\ SplitNext
       \/ part = "merge" /\ MergeNext
    /\ UNCHANGED <<submitSystemVars, submitterVars, contractVars, utxoVars, servicesVars, queryVars, signingVars, facadeVars, part>>
PendingNext ==
    /\ part = "services" /\ ServicesNext
    /\ UNCHANGED <<submitSystemVars, submitterVars, contractVars, utxoVars, balancerVars, queryVars, signingVars, facadeVars, part>>

FindingNext ==
    /\ \/ part = "cache" /\ CacheNext
       \/ part = "query" /\ QueryNext
    /\ UNCHANGED <<submitSystemVars, submitterVars, contractVars, utxoVars, balancerVars, servicesVars, signingVars, facadeVars, part>>
KeysNext ==
    /\ part = "keys" /\ SigningNext
    /\ UNCHANGED <<submitSystemVars, submitterVars, contractVars, utxoVars, balancerVars, servicesVars, queryVars, facadeVars, part>>
FacadesNext ==
    /\ \/ part = "facade" /\ FacadeNext
       \/ part = "choosing" /\ ChoosingNext
    /\ UNCHANGED <<submitSystemVars, submitterVars, contractVars, utxoVars, balancerVars, servicesVars, queryVars, signingVars, part>>

Next == NodeNext \/ ExtrinsicsNext \/ ContractsNext \/ CoinsNext \/ BalancingNext \/ PendingNext
        \/ FindingNext \/ KeysNext \/ FacadesNext

Spec == Init /\ [][Next]_submissionVars
-----------------------------------------------------------------------------
(* SubmitterViewsHonest, SubmissionsHonest and PendingStatusHonest: what   *)
(* TransactionSubmitter, ContractManager, ContractInteractor and the       *)
(* wallet services tell their callers about a transaction is what the node *)
(* did, unless an answer was lost (signing_submission.cpp:698-855,         *)
(* contract_manager.cpp:185-263, contract_interactor.cpp:282-310,          *)
(* wallet_services.cpp).                                                   *)
SubmittersHonest == SubmitterViewsHonest /\ SubmissionsHonest /\ PendingStatusHonest

(* ReservationsExclusive, InputsSpendable and SelectionPays: no coin is    *)
(* promised to two builders, no transaction passes validation with a spent *)
(* or foreign input, and a selection pays what it was asked for            *)
(* (utxo_transactions.cpp).  SelectionCoversFee and ChangeConserved: a     *)
(* balanced transaction covers its fee, and splitting or merging neither   *)
(* makes nor loses value (transaction_balancer.cpp).  ChoiceCovers: so     *)
(* does a selection of the facade's (wallet_facade.cpp:281-365).           *)
CoinsSpentOnce ==
    /\ ReservationsExclusive /\ InputsSpendable /\ SelectionPays
    /\ SelectionCoversFee /\ ChangeConserved /\ ChoiceCovers

(* ScanIsSandwiched and AnswersRestOnFreshScans: what a scan of the        *)
(* indexer found was unspent at its start and misses nothing unspent at    *)
(* its end, and no answer from the caches is older than two of their       *)
(* lifetimes (indexer_client.cpp).                                         *)
ScansHold == ScanIsSandwiched /\ AnswersRestOnFreshScans

(* KeyHalvesBelong and SignaturesGenuine: a key is never put together from *)
(* two, and a signature that verifies was made with the key it is verified *)
(* with (signing_submission.cpp, key_encryption.cpp).  FacadeKeysBelong: a *)
(* facade signs with the key of its addresses, and only what was sealed    *)
(* under its password is restored (wallet_facade.cpp).                     *)
KeysBelongTogether == KeyHalvesBelong /\ SignaturesGenuine /\ FacadeKeysBelong
=============================================================================
