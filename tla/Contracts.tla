------------------------------ MODULE Contracts ------------------------------
(***************************************************************************)
(* ContractManager (contract_manager.cpp) and ContractInteractor           *)
(* (contract_interactor.cpp): deploying and calling contracts with bytes   *)
(* built elsewhere, the interactor's wallet, and the read-only queries,    *)
(* against a node and an indexer that may fail at every call.              *)
(***************************************************************************)
EXTENDS Naturals

CONSTANTS
    ContractTxs,   \* transactions built elsewhere: deployments of one contract each
    WalletSeeds,   \* seeds in hex; "" is the empty one
    NoBytes           \* empty transaction bytes

VARIABLES
    library,     \* the loaded ledger library: what it can do, a subset of {"derive", "inspect"}
    taken,        \* transactions the node took
    chain,       \* those of them in blocks
    indexed,     \* those of them the indexer has seen
    call,        \* a submission under way or done
    wallet,      \* ContractInteractor: [seed_hex, derived]
    reading      \* the last query: [kind, tx, says]

contractVars == <<library, taken, chain, indexed, call, wallet, reading>>

NoCall == [by |-> "none", kind |-> "none", tx |-> NoBytes, pc |-> "idle", address |-> NoBytes,
           answer |-> "none", success |-> FALSE, error |-> FALSE]
NoReading == [kind |-> "none", tx |-> NoBytes, says |-> "none"]

ContractInit ==
    /\ library \in SUBSET {"derive", "inspect"}
    /\ taken = {} /\ chain = {} /\ indexed = {}
    /\ call = NoCall /\ reading = NoReading
    /\ wallet = [seed_hex |-> "", derived |-> ""]

(* External: the node makes blocks and the indexer follows.                *)
BlockIncludes(tx) == tx \in taken \ chain /\ chain' = chain \cup {tx} /\ UNCHANGED <<library, taken, indexed, call, wallet, reading>>
IndexerFollows(tx) == tx \in chain \ indexed /\ indexed' = indexed \cup {tx} /\ UNCHANGED <<library, taken, chain, call, wallet, reading>>
-----------------------------------------------------------------------------
(* set_seed_hex() with derive_wallet(): the seed is taken before the       *)
(* library is asked, so a failed derivation leaves the new seed beside the *)
(* address of the old one.                                                 *)
SetSeedHex(seed, derives) ==
    /\ wallet' = IF seed # "" /\ "derive" \in library /\ derives
                 THEN [seed_hex |-> seed, derived |-> seed]
                 ELSE [wallet EXCEPT !.seed_hex = seed]
    /\ UNCHANGED <<library, taken, chain, indexed, call, reading>>
-----------------------------------------------------------------------------
StartSubmission(by, kind, tx) ==
    /\ call.pc \in {"idle", "done", "threw"}
    /\ call' = [NoCall EXCEPT !.by = by, !.kind = kind, !.tx = tx, !.pc = IF kind = "deploy" THEN "inspect" ELSE "submit"]
    /\ UNCHANGED <<library, taken, chain, indexed, wallet, reading>>

(* submit_deploy_transaction(): the library may name the contract of the   *)
(* bytes.  If it throws, the manager reports an error, while the exception *)
(* of the interactor reaches its caller; nothing is submitted either way.  *)
InspectDeployment(outcome) ==
    /\ call.pc = "inspect"
    /\ outcome # "skipped" <=> "inspect" \in library
    /\ call' = IF outcome = "throws" THEN [call EXCEPT !.pc = IF call.by = "manager" THEN "done" ELSE "threw", !.error = TRUE]
               ELSE [call EXCEPT !.pc = "submit", !.address = IF outcome = "named" THEN call.tx ELSE NoBytes]
    /\ UNCHANGED <<library, taken, chain, indexed, wallet, reading>>

NodeAnswers == {"hash", "refused", "lost_before", "lost_after", "empty"}
NodeTakes(answer) == answer \in {"hash", "lost_after", "empty"}

(* submit_serialized_transaction() and the tail of the manager's two       *)
(* calls: success is a hash in the answer.  On an empty hash the manager   *)
(* gives neither success nor error.                                        *)
Reported(answer) ==
    [call EXCEPT !.pc = "done", !.answer = IF call.tx = NoBytes THEN "none" ELSE answer,
                 !.success = call.tx # NoBytes /\ answer = "hash",
                 !.error = call.tx = NoBytes \/ ~(answer = "hash" \/ (answer = "empty" /\ call.by = "manager"))]

(* Faulty variant: a refusal of the node is not looked at. *)
SubmitBytesUnchecked(answer) ==
    /\ call.pc = "submit" /\ (call.tx # NoBytes \/ answer = "hash")
    /\ taken' = IF call.tx # NoBytes /\ NodeTakes(answer) THEN taken \cup {call.tx} ELSE taken
    /\ call' = [call EXCEPT !.pc = "done", !.answer = answer,
                            !.success = call.tx # NoBytes /\ answer \in {"hash", "refused"}]
    /\ UNCHANGED <<library, chain, indexed, wallet, reading>>

(* submit_midnight_tx_bytes(): empty bytes are refused before the node is  *)
(* asked.                                                                  *)
SubmitBytes(answer) ==
    /\ call.pc = "submit" /\ (call.tx # NoBytes \/ answer = "hash")
    /\ taken' = IF call.tx # NoBytes /\ NodeTakes(answer) THEN taken \cup {call.tx} ELSE taken
    /\ call' = Reported(answer)
    /\ UNCHANGED <<library, chain, indexed, wallet, reading>>
-----------------------------------------------------------------------------
(* query_state(), query_fields(), query_raw_state() of the manager and     *)
(* read_state(), read_fields() of the interactor.  A wallet address is     *)
(* refused (the manager swallows its own exception); a failed query reads  *)
(* as an empty answer, with the error text only in query_state().  The raw *)
(* state comes from the node, the others from the indexer.                 *)
ContractReads == {"query_state", "query_fields", "query_raw_state", "read_state", "read_fields"}
Throwing == {"read_state", "read_fields"}

ReadContract(kind, tx, isHex, answered) ==
    LET known == IF kind = "query_raw_state" THEN tx \in chain ELSE tx \in indexed
        failed == IF kind = "query_state" THEN "error" ELSE IF kind = "read_fields" THEN "threw" ELSE "empty"
    IN  /\ reading' = [kind |-> kind, tx |-> tx,
                       says |-> IF ~isHex THEN (IF kind \in Throwing THEN "threw" ELSE IF kind = "query_state" THEN "error" ELSE "empty")
                                ELSE IF ~answered THEN failed
                                ELSE IF known THEN "state" ELSE "empty"]
        /\ UNCHANGED <<library, taken, chain, indexed, call, wallet>>

(* get_wallet_state(), get_wallet_state_from_transaction() and             *)
(* query_dust_status(): without a derived address the indexer is not asked.*)
WalletReads == {"get_wallet_state", "get_wallet_state_from_transaction", "query_dust_status"}

ReadWallet(kind, answered) ==
    /\ reading' = [kind |-> kind, tx |-> NoBytes, says |-> IF wallet.derived # "" /\ answered THEN "state" ELSE "error"]
    /\ UNCHANGED <<library, taken, chain, indexed, call, wallet>>

(* health_check(): three services, each asked under a handler of its own;  *)
(* is_connected() of the proof server does not throw.                      *)
HealthCheck(up) ==
    /\ reading' = [kind |-> "health_check", tx |-> NoBytes, says |-> IF up = {"node", "proof_server", "indexer"} THEN "state" ELSE "error"]
    /\ UNCHANGED <<library, taken, chain, indexed, call, wallet>>

ContractNext ==
    \/ \E tx \in ContractTxs : BlockIncludes(tx) \/ IndexerFollows(tx)
    \/ \E seed \in WalletSeeds \cup {""}, derives \in BOOLEAN : SetSeedHex(seed, derives)
    \/ \E by \in {"manager", "interactor"}, kind \in {"deploy", "call"}, tx \in ContractTxs \cup {NoBytes} : StartSubmission(by, kind, tx)
    \/ \E outcome \in {"skipped", "named", "unnamed", "throws"} : InspectDeployment(outcome)
    \/ \E answer \in NodeAnswers : SubmitBytes(answer)
    \/ \E kind \in ContractReads, tx \in ContractTxs, isHex, answered \in BOOLEAN : ReadContract(kind, tx, isHex, answered)
    \/ \E kind \in WalletReads, answered \in BOOLEAN : ReadWallet(kind, answered)
    \/ \E up \in SUBSET {"node", "proof_server", "indexer"} : HealthCheck(up)
-----------------------------------------------------------------------------
(* A submission reported successful is in the node's pool; one that is in  *)
(* the pool and was not reported successful lost its answer or got an      *)
(* empty hash (and the caller may send it again); an exception or an       *)
(* error of the inspection means that nothing was sent.  A contract        *)
(* address in a result, even of a failed deployment, is that of its bytes. *)
SubmissionsHonest ==
    /\ call.success => call.tx \in taken /\ ~call.error
    /\ call.pc = "done" /\ ~call.success /\ call.answer = "none" => call.error
    /\ call.pc = "done" /\ ~call.success /\ call.answer = "refused" => call.error
    /\ call.address # NoBytes => call.address = call.tx
    /\ reading.says = "state" /\ reading.kind \in ContractReads => reading.tx \in chain
=============================================================================
