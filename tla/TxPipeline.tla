----------------------------- MODULE TxPipeline -----------------------------
(***************************************************************************)
(* The production pipeline of MidnightClient: transfer_night,              *)
(* register_dust, deregister_dust, deploy_simple_contract,                 *)
(* call_simple_contract and submit_custom_contract_intents with            *)
(* PipelineOptions.  The six differ in their parameters only and run       *)
(*   validate -> proof-server check -> build -> context check -> submit    *)
(*            -> save artifacts -> wait for inclusion                      *)
(* The process may crash anywhere; what is on disk and what the network    *)
(* holds survive, what was in memory does not.                             *)
(***************************************************************************)
EXTENDS ConfirmationWait, NodeSubmission

VARIABLES
    ppc,      \* the stage the pipeline is in
    ptx,      \* the transaction this operation built
    opts,     \* PipelineOptions: save_artifacts, wait_for_confirmation
    perror,   \* the error so far, "none" while there is none
    context,  \* context[t]: the parentBlockHash t was built on
    disk      \* the transactions whose artifacts are complete on disk

pipelineVars == <<ppc, ptx, opts, perror, context, disk>>

Stages ==
    { "idle", "validate", "proofcheck", "build", "context", "submit",
      "save", "confirm", "done", "crashed" }

(* Error codes for what is found before anything is sent to the node.  The *)
(* six codes of the parameter checks are one here.                         *)
LocalErrors ==
    {"ValidationError", "LedgerBuildError", "LedgerStateMismatch", "NodeRpcError"}

(* The rest: the submission failed, or the wait for inclusion did. *)
PipelineErrors == {"none", "NodeRejectedTx", "NotConfirmed"} \cup LocalErrors

(* What a transaction was built on: nothing while it is not built, no      *)
(* parentBlockHash in the build result, a hash no node of this network     *)
(* knows (a malformed one included), or a block.                           *)
Unbuilt == [kind |-> "unbuilt", block |-> 0]
Absent  == [kind |-> "absent",  block |-> 0]
Foreign == [kind |-> "foreign", block |-> 0]
BuiltOn(b) == [kind |-> "block", block |-> b]

Contexts == [kind : {"unbuilt", "absent", "foreign", "block"}, block : Nat]

PipelineTypeOK ==
    /\ ppc \in Stages
    /\ ptx \in Txs
    /\ opts \in [save : BOOLEAN, wait : BOOLEAN]
    /\ perror \in PipelineErrors
    /\ context \in [Txs -> Contexts]
    /\ disk \in SUBSET Txs

PipelineInit ==
    /\ ppc = "idle"
    /\ ptx \in Txs
    /\ opts = [save |-> TRUE, wait |-> TRUE]
    /\ perror = "none"
    /\ context = [t \in Txs |-> Unbuilt]
    /\ disk = {}

Fail(error) ==
    /\ ppc' = "save"
    /\ perror' = error

(* A pipeline operation is called, or called again after a crash. *)
StartOperation ==
    /\ ppc \in {"idle", "done", "crashed"}
    /\ ppc' = "validate"
    /\ opts' \in [save : BOOLEAN, wait : BOOLEAN]
    /\ perror' = "none"
    /\ UNCHANGED <<ptx, context, disk, submitVars, waitVars, networkVars>>

(* validate_*_params, which includes validate_source, on the parameters as *)
(* given; and again on the normalised ones inside build_*, where a failure *)
(* has become a failed build.                                              *)
Validate ==
    /\ ppc = "validate"
    /\ \/ Fail("ValidationError")
       \/ Fail("LedgerBuildError")
       \/ ppc' = "proofcheck" /\ UNCHANGED perror
    /\ UNCHANGED <<ptx, opts, context, disk, submitVars, waitVars, networkVars>>

(* proof_server_compatibility_error: the check does not apply or the       *)
(* versions agree, or the server fails to answer or reports another one,   *)
(* which is a failed build.                                                *)
CheckProofServer ==
    /\ ppc = "proofcheck"
    /\ \/ Fail("LedgerBuildError")
       \/ ppc' = "build" /\ UNCHANGED perror
    /\ UNCHANGED <<ptx, opts, context, disk, submitVars, waitVars, networkVars>>

(* The ledger backend fails or returns no transaction bytes. *)
BuildFails ==
    /\ ppc = "build"
    /\ Fail("LedgerBuildError")
    /\ UNCHANGED <<ptx, opts, context, disk, submitVars, waitVars, networkVars>>

(* The ledger backend builds a new transaction on the block its local      *)
(* cache ends at: a block that is or was on the best chain, or a hash this *)
(* network does not know.                                                  *)
BuildSucceeds ==
    /\ ppc = "build"
    /\ \E t \in Txs, c \in {Absent, Foreign} \cup {BuiltOn(b) : b \in Blocks} :
          /\ context[t] = Unbuilt
          /\ ptx' = t
          /\ context' = [context EXCEPT ![t] = c]
    /\ ppc' = "context"
    /\ UNCHANGED <<opts, perror, disk, submitVars, waitVars, networkVars>>

(* block_hash_exists: chain_getHeader knows every block of the best chain; *)
(* it may or may not have pruned a retracted one.                          *)
NodeMayKnow(c) == c.kind = "block" /\ c.block \in Blocks

NodeMayNotKnow(c) ==
    c.kind # "block" \/ \A h \in 1..Len(best) : best[h] # c.block

(* Faulty variant: the context is not validated. *)
ContextNotChecked ==
    /\ ppc = "context"
    /\ ppc' = "submit"
    /\ SubmitTransaction(ptx)
    /\ UNCHANGED <<ptx, opts, perror, context, disk, waitVars>>

(* validate_built_transaction_context passes, and the submission begins. *)
ContextAccepted ==
    /\ ppc = "context"
    /\ context[ptx] = Absent \/ NodeMayKnow(context[ptx])
    /\ ppc' = "submit"
    /\ SubmitTransaction(ptx)
    /\ UNCHANGED <<ptx, opts, perror, context, disk, waitVars>>

(* The raw output is not JSON, the hash is malformed or not known to the   *)
(* node, or the node could not be asked.                                   *)
ContextRefused ==
    /\ ppc = "context"
    /\ \/ Fail("LedgerBuildError")
       \/ /\ context[ptx] # Absent
          /\ NodeMayNotKnow(context[ptx])
          /\ Fail("LedgerStateMismatch")
       \/ /\ context[ptx] # Absent
          /\ Fail("NodeRpcError")
    /\ UNCHANGED <<ptx, opts, context, disk, submitVars, waitVars, networkVars>>

(* Faulty variants: a failed submission is reported as a failed query;     *)
(* success is taken for granted.                                           *)
SubmitReturnedAsRpcError ==
    /\ ppc = "submit" /\ spc = "done"
    /\ ppc' = "save"
    /\ perror' = IF sub = "ok" THEN "none" ELSE "NodeRpcError"
    /\ UNCHANGED <<ptx, opts, context, disk, submitVars, waitVars, networkVars>>

SubmitReturnedAlwaysOk ==
    /\ ppc = "submit" /\ spc = "done"
    /\ ppc' = "save"
    /\ perror' = "none"
    /\ UNCHANGED <<ptx, opts, context, disk, submitVars, waitVars, networkVars>>

(* submit_built_transaction returns with the SubmitResult. *)
SubmitReturned ==
    /\ ppc = "submit"
    /\ spc = "done"
    /\ ppc' = "save"
    /\ perror' = IF sub = "ok" THEN "none" ELSE sub
    /\ UNCHANGED <<ptx, opts, context, disk, submitVars, waitVars, networkVars>>

(* The BuildResult holds transaction bytes to save. *)
HasBytes == perror \notin {"ValidationError", "LedgerBuildError"}

(* pipeline_from_build_submit: the build result is saved whatever became   *)
(* of the submission, an artifact error changes nothing, and a transaction *)
(* the node took is waited for if asked.                                   *)
SaveArtifacts ==
    /\ ppc = "save"
    /\ \/ disk' = disk
       \/ opts.save /\ HasBytes /\ disk' = disk \cup {ptx}
    /\ IF perror = "none" /\ opts.wait
       THEN /\ ppc' = "confirm"
            /\ StartWait /\ wmode' = "inclusion" /\ wtx' = ptx
       ELSE /\ ppc' = "done"
            /\ UNCHANGED waitVars
    /\ UNCHANGED <<ptx, opts, perror, context, submitVars, networkVars>>

(* Faulty variant: a failed wait is repeated. *)
WaitReturnedRepeats ==
    /\ ppc = "confirm"
    /\ wpc = "done"
    /\ IF conf.success
       THEN ppc' = "done" /\ UNCHANGED <<waitVars>>
       ELSE StartWait /\ wmode' = "inclusion" /\ wtx' = ptx /\ UNCHANGED ppc
    /\ UNCHANGED <<perror, ptx, opts, context, disk, submitVars, networkVars>>

(* The wait ends the operation, whatever it reports. *)
WaitReturned ==
    /\ ppc = "confirm"
    /\ wpc = "done"
    /\ ppc' = "done"
    /\ perror' = IF conf.success THEN "none" ELSE "NotConfirmed"
    /\ UNCHANGED <<ptx, opts, context, disk, submitVars, waitVars, networkVars>>

(* The process dies; a request it had sent is answered to nobody. *)
Crash ==
    /\ ppc \notin {"idle", "done", "crashed"}
    /\ ppc' = "crashed"
    /\ inflight' = IF spc \in {"http", "ws"}
                   THEN [inflight EXCEPT ![stx] = @ + 1] ELSE inflight
    /\ spc' = "idle"
    /\ wpc' = "idle"
    /\ UNCHANGED <<ptx, opts, perror, context, disk>>
    /\ UNCHANGED <<stx, path, refused, sub, submits, historyVars>>
    /\ UNCHANGED <<wmode, wtx, polls, conf, networkVars>>

PipelineSteps ==
    \/ Validate
    \/ CheckProofServer
    \/ BuildFails
    \/ BuildSucceeds
    \/ ContextAccepted
    \/ ContextRefused
    \/ SubmitReturned
    \/ SaveArtifacts
    \/ WaitReturned
    \/ SubmitSteps /\ UNCHANGED <<pipelineVars, waitVars>>
    \/ WaitSteps /\ UNCHANGED <<pipelineVars, submitVars, networkVars>>

Environment ==
    \/ NetworkNext /\ UNCHANGED <<pipelineVars, submitVars, waitVars>>
    \/ LateRequests /\ UNCHANGED <<pipelineVars, waitVars>>

vars == <<pipelineVars, submitVars, waitVars, networkVars>>

Init == NetworkInit /\ SubmitInit /\ WaitInit /\ PipelineInit

Next ==
    \/ StartOperation
    \/ PipelineSteps
    \/ Crash
    \/ Environment

(* The calling thread keeps running until it returns or crashes. *)
Spec == Init /\ [][Next]_vars /\ WF_vars(PipelineSteps)

-----------------------------------------------------------------------------

TypeOK == NetworkTypeOK /\ SubmitTypeOK /\ WaitTypeOK /\ PipelineTypeOK

Held(t) == t \in pool \/ OnChain(t)

(* A transaction whose context the node cannot know never reaches it, not  *)
(* even by a request that outlives its submission or its process           *)
(* (midnight_client.cpp:1162-1167 before 1169).                            *)
ForeignContextNeverReachesNode ==
    \A t \in Txs :
        (Held(t) \/ inflight[t] > 0) => context[t].kind \in {"absent", "block"}

(* What an operation reports is what became of its transaction.  An error  *)
(* found before the submission is the whole truth: no request for this     *)
(* transaction exists and the node does not hold it, so the caller may     *)
(* build again; only NodeRejectedTx and a failed wait leave that open      *)
(* (midnight_client.cpp:1140-1167).  Success means that the node took this *)
(* operation's own transaction, and with wait_for_confirmation that a      *)
(* block carries it (196-225).                                             *)
ReportMatchesNode ==
    ppc = "done" =>
        /\ perror \in LocalErrors /\ HasBytes => ~ Held(ptx) /\ inflight[ptx] = 0
        /\ perror = "none" =>
              /\ "accepted" \in ever[ptx]
              /\ opts.wait => \E b \in Blocks : ptx \in carries[b]

(* Every operation returns unless the process crashes. *)
OperationReturns ==
    (ppc \notin {"idle", "done", "crashed"}) ~> (ppc \in {"done", "crashed"})

(* docs/SDK_SPEC.md:194: "prove/build -> persist build artifacts ->        *)
(* submit": a crash does not leave the network holding a transaction of    *)
(* which nothing was saved although saving was asked for.                  *)
CrashLeavesArtifacts ==
    (ppc = "crashed" /\ opts.save /\ Held(ptx)) => ptx \in disk

(* include/midnight/production/midnight_client.hpp:227: "Verify that a     *)
(* built transaction's ledger context is canonical on the configured node  *)
(* before submission".                                                     *)
AcceptedContextIsCanonical ==
    [][(ppc = "context" /\ ppc' = "submit" /\ context[ptx].kind = "block") =>
          \E h \in 1..Len(best) : best[h] = context[ptx].block]_vars
=============================================================================
