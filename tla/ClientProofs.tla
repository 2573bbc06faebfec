---------------------------- MODULE ClientProofs ----------------------------
(***************************************************************************)
(* Proofs about the production client and what it calls, which share no    *)
(* state: a submission and the pipeline that runs it, for every set of     *)
(* transactions, any number of paths, submissions, blocks and crashes; the *)
(* circuit breaker of SubstrateRPC, for any set of threads, any thresholds *)
(* and any width of its counters; and the ledger state a transaction is    *)
(* built from, for any set of processes, any sources and a chain of any    *)
(* height.                                                                 *)
(***************************************************************************)
EXTENDS TxPipeline, ConfirmationWaitProofs, SubstrateClient, StateBackend

(* The node and the requests on their way to it: nothing here bounds the   *)
(* requests that nobody waits for.                                         *)
RequestTypes ==
    /\ spc \in {"idle", "http", "ws", "done"}
    /\ stx \in Txs
    /\ sub \in {"pending", "ok", "NodeRejectedTx"}
    /\ inflight \in [Txs -> Nat]
    /\ answers \in SUBSET Answers
    /\ ever \in [Txs -> SUBSET Answers]

LEMMA InitiallyEmpty == NetworkInit => NetworkInv /\ \A t \in Txs : ~ Held(t)
  BY DEF NetworkInit, NetworkInv, NetworkTypeOK, Held, OnChain, Places, Nowhere, Blocks

(* Blocks hold only what was in the pool, and a reorganisation returns     *)
(* only what was in blocks: left to itself the network comes to hold       *)
(* nothing new.                                                            *)
LEMMA HeldBefore ==
    ASSUME NetworkInv, NetworkNext, NEW t \in Txs, Held(t)'
    PROVE  Held(t)
<1> USE DEF NetworkInv, NetworkTypeOK, Held, OnChain, Blocks
<1>1. CASE ProduceBlock
  <2>1. PICK body \in SUBSET pool :
          /\ carries' = Append(carries, body)
          /\ best' = Append(best, Len(carries) + 1)
          /\ pool' = pool \ body
    BY <1>1 DEF ProduceBlock
  <2>2. CASE t \in pool'
    BY <2>1, <2>2
  <2>3. CASE OnChain(t)'
    <3>1. PICK h \in 1..Len(best') : t \in carries'[best'[h]]
      BY <2>3
    <3>2. CASE h \in 1..Len(best)
      <4>1. best'[h] = best[h] /\ best[h] \in 1..Len(carries)
        BY <2>1, <3>2
      <4>2. carries'[best[h]] = carries[best[h]]
        BY <2>1, <4>1
      <4> QED BY <3>1, <3>2, <4>1, <4>2
    <3>3. CASE h = Len(best) + 1
      <4>1. carries'[best'[h]] = body
        BY <2>1, <3>3
      <4> QED BY <3>1, <4>1
    <3> QED BY <2>1, <3>1, <3>2, <3>3
  <2> QED BY <2>2, <2>3
<1>2. CASE Reorg
  <2>1. PICK h \in finalized..(Len(best) - 1) :
          /\ best' = SubSeq(best, 1, h)
          /\ \E back \in SUBSET
                UNION { carries[best[i]] : i \in (h + 1)..Len(best) } :
               pool' = pool \cup back
    BY <1>2 DEF Reorg
  <2>2. carries' = carries
    BY <1>2 DEF Reorg
  <2>3. Len(best') = h /\ \A i \in 1..h : best'[i] = best[i] /\ i \in 1..Len(best)
    BY <2>1
  <2>4. CASE t \in pool'
    <3>1. PICK back \in SUBSET UNION { carries[best[i]] : i \in (h + 1)..Len(best) } :
            pool' = pool \cup back
      BY <2>1
    <3>2. CASE t \in pool
      BY <3>2
    <3>3. CASE t \in back
      <4>1. PICK i \in (h + 1)..Len(best) : t \in carries[best[i]]
        BY <3>1, <3>3, Zenon
      <4>2. i \in 1..Len(best)
        BY <2>1
      <4> QED BY <4>1, <4>2
    <3> QED BY <2>4, <3>1, <3>2, <3>3
  <2>5. CASE OnChain(t)'
    BY <2>2, <2>3, <2>5
  <2> QED BY <2>4, <2>5
<1>3. CASE Finalize
  BY <1>3 DEF Finalize
<1>4. CASE Evict
  BY <1>4 DEF Evict
<1>5. CASE IndexerCatchUp
  BY <1>5 DEF IndexerCatchUp
<1> QED BY <1>1, <1>2, <1>3, <1>4, <1>5 DEF NetworkNext

(* An extrinsic the node takes is the only thing it comes to hold. *)
LEMMA HeldAfterAccept ==
    ASSUME NetworkInv, NEW s \in Txs, NodeAccepts(s), NEW t \in Txs, Held(t)'
    PROVE  t = s \/ Held(t)
  BY DEF NodeAccepts, Held, OnChain

(* A request of the submission may change the network only by handing over *)
(* the transaction that is being submitted.                                *)
LEMMA SubmitStepsOnNetwork ==
    ASSUME SubmitSteps
    PROVE  /\ spc \in {"http", "ws"}
           /\ stx' = stx
           /\ NodeAccepts(stx) \/ UNCHANGED networkVars
           /\ \/ inflight' = inflight
              \/ inflight' = [inflight EXCEPT ![stx] = @ + 1]
           /\ spc' \in {"http", "ws", "done"}
           /\ \E a \in Answers : Heard(a)
  BY DEF SubmitSteps, Accepted, AcceptedWithoutId, ApplicationError, EdgeRefuses, HttpFails,
         WebSocketFails, AfterPathFailure, Return, Answers

(* The same of a request nobody waits for any more. *)
LEMMA LateRequestsOnNetwork ==
    ASSUME LateRequests
    PROVE  \E t \in Txs :
              /\ inflight[t] > 0
              /\ inflight' = [inflight EXCEPT ![t] = @ - 1]
              /\ NodeAccepts(t) \/ UNCHANGED networkVars
              /\ UNCHANGED <<spc, stx, path, refused, sub, submits, historyVars>>
  BY DEF LateRequests, LateRequestAccepted, LateRequestLost

LEMMA UnchangedNetwork ==
    ASSUME NetworkInv, UNCHANGED networkVars
    PROVE  NetworkInv' /\ (\A t \in Txs : Held(t)' <=> Held(t))
  BY DEF networkVars, NetworkInv, NetworkTypeOK, Blocks, Held, OnChain

-----------------------------------------------------------------------------
(* NodeSubmission on its own. *)

(* The invariant of a submission: a refusal that is remembered was heard,  *)
(* only a refusal leads to the WebSocket, and a request is made only while *)
(* the node has not answered.  The network holds, and may still be handed, *)
(* only what some submission lost an answer about or saw accepted.         *)
FallbackInv ==
    /\ refused => "refused" \in answers
    /\ spc = "ws" => refused
    /\ spc \in {"http", "ws"} => answers \cap {"accepted", "noid", "error"} = {}

HeldInv ==
    \A t \in Txs :
        (Held(t) \/ inflight[t] > 0) => ever[t] \cap {"lost", "accepted", "noid"} # {}

SubmissionInv == NetworkInv /\ RequestTypes /\ refused \in BOOLEAN /\ FallbackInv /\ HeldInv

LEMMA SubmissionInvInit == SubmitSystemInit => SubmissionInv
<1> SUFFICES ASSUME NetworkInit, SubmitInit PROVE SubmissionInv
  BY DEF SubmitSystemInit
<1>1. NetworkInv /\ \A t \in Txs : ~ Held(t)
  BY InitiallyEmpty
<1>2. RequestTypes /\ refused = FALSE
  BY DEF SubmitInit, RequestTypes
<1>3. FallbackInv /\ HeldInv
  BY <1>1 DEF SubmitInit, FallbackInv, HeldInv
<1> QED BY <1>1, <1>2, <1>3 DEF SubmissionInv

(* What one answer leaves: it is on record, the transaction is as before   *)
(* or with the node, and the call goes on only if the node did not answer. *)
LEMMA AnswerRecorded ==
    ASSUME SubmissionInv, SubmitSteps
    PROVE  RequestTypes' /\ refused' \in BOOLEAN /\ FallbackInv'
<1> USE DEF SubmissionInv, RequestTypes, FallbackInv, Heard, Return, Answers
<1>1. CASE Accepted
  BY <1>1 DEF Accepted
<1>2. CASE AcceptedWithoutId
  BY <1>2 DEF AcceptedWithoutId
<1>3. CASE ApplicationError
  BY <1>3 DEF ApplicationError
<1>4. CASE EdgeRefuses
  BY <1>4 DEF EdgeRefuses, AfterPathFailure
<1>5. CASE HttpFails
  BY <1>5 DEF HttpFails, AfterPathFailure
<1>6. CASE WebSocketFails
  BY <1>6 DEF WebSocketFails
<1> QED BY <1>1, <1>2, <1>3, <1>4, <1>5, <1>6 DEF SubmitSteps

LEMMA AnswerKeepsHeldInv ==
    ASSUME SubmissionInv, SubmitSteps
    PROVE  HeldInv'
<1> USE DEF SubmissionInv, RequestTypes, HeldInv, Heard, Return, Answers
<1>1. CASE Accepted \/ AcceptedWithoutId
  <2>1. NodeAccepts(stx) /\ inflight' = inflight /\ (Heard("accepted") \/ Heard("noid"))
    BY <1>1 DEF Accepted, AcceptedWithoutId
  <2>2. \A t \in Txs : Held(t)' => t = stx \/ Held(t)
    BY <2>1, HeldAfterAccept
  <2> QED BY <2>1, <2>2
<1>2. CASE ApplicationError \/ EdgeRefuses
  <2>1. UNCHANGED networkVars /\ inflight' = inflight /\ (Heard("error") \/ Heard("refused"))
    BY <1>2 DEF ApplicationError, EdgeRefuses
  <2>2. \A t \in Txs : Held(t)' <=> Held(t)
    BY <2>1, UnchangedNetwork
  <2> QED BY <2>1, <2>2
<1>3. CASE HttpFails \/ WebSocketFails
  <2>1. /\ UNCHANGED networkVars /\ Heard("lost")
        /\ inflight' = [inflight EXCEPT ![stx] = @ + 1]
    BY <1>3 DEF HttpFails, WebSocketFails
  <2>2. \A t \in Txs : Held(t)' <=> Held(t)
    BY <2>1, UnchangedNetwork
  <2> QED BY <2>1, <2>2
<1> QED BY <1>1, <1>2, <1>3 DEF SubmitSteps

LEMMA SubmissionInvStep == SubmissionInv /\ [SubmitSystemNext]_submitSystemVars => SubmissionInv'
<1> SUFFICES ASSUME SubmissionInv, [SubmitSystemNext]_submitSystemVars PROVE SubmissionInv'
  OBVIOUS
<1>1. CASE NetworkNext /\ UNCHANGED submitVars
  <2>1. NetworkInv'
    BY <1>1, NetworkStepSafe DEF NetworkStep, SubmissionInv
  <2>2. \A t \in Txs : Held(t)' => Held(t)
    BY <1>1, HeldBefore DEF SubmissionInv
  <2> QED BY <1>1, <2>1, <2>2
      DEF submitVars, historyVars, SubmissionInv, RequestTypes, FallbackInv, HeldInv
<1>2. ASSUME NEW t \in Txs, SubmitTransaction(t) PROVE SubmissionInv'
  <2>1. NetworkInv' /\ \A u \in Txs : Held(u)' <=> Held(u)
    BY <1>2, UnchangedNetwork DEF SubmitTransaction, SubmissionInv
  <2> QED BY <1>2, <2>1
      DEF SubmitTransaction, SubmissionInv, RequestTypes, FallbackInv, HeldInv, Answers
<1>3. CASE SubmitSteps
  <2>1. NetworkInv'
    BY <1>3, SubmitStepsOnNetwork, UnchangedNetwork, NetworkStepSafe
       DEF NetworkStep, SubmissionInv, RequestTypes
  <2> QED BY <1>3, <2>1, AnswerRecorded, AnswerKeepsHeldInv DEF SubmissionInv
<1>4. CASE LateRequests
  <2>1. PICK t \in Txs :
            /\ inflight[t] > 0
            /\ inflight' = [inflight EXCEPT ![t] = @ - 1]
            /\ NodeAccepts(t) \/ UNCHANGED networkVars
            /\ UNCHANGED <<spc, stx, path, refused, sub, submits, historyVars>>
    BY <1>4, LateRequestsOnNetwork
  <2>2. NetworkInv'
    BY <2>1, UnchangedNetwork, NetworkStepSafe DEF NetworkStep, SubmissionInv
  <2>3. \A u \in Txs : Held(u)' => u = t \/ Held(u)
    BY <2>1, UnchangedNetwork, HeldAfterAccept DEF SubmissionInv
  <2>4. RequestTypes' /\ \A u \in Txs : inflight'[u] > 0 => inflight[u] > 0
    BY <2>1 DEF SubmissionInv, RequestTypes, historyVars
  <2> QED BY <2>1, <2>2, <2>3, <2>4 DEF SubmissionInv, FallbackInv, HeldInv, historyVars
<1>5. CASE UNCHANGED submitSystemVars
  <2>1. NetworkInv' /\ \A u \in Txs : Held(u)' <=> Held(u)
    BY <1>5, UnchangedNetwork DEF submitSystemVars, SubmissionInv
  <2> QED BY <1>5, <2>1
      DEF submitSystemVars, submitVars, historyVars, SubmissionInv, RequestTypes, FallbackInv, HeldInv
<1> QED BY <1>1, <1>2, <1>3, <1>4, <1>5 DEF SubmitSystemNext

LEMMA SubmissionInvariance == SubmitSpec => []SubmissionInv
  BY SubmissionInvInit, SubmissionInvStep, PTL DEF SubmitSpec

(* The WebSocket is tried only after a refusal by the HTTP edge, and never *)
(* once the node itself has answered, for any number of paths              *)
(* (midnight_node_rpc.cpp:763-766).                                        *)
THEOREM FallbackCorrect == SubmitSpec => []FallbackOnlyOnEdgeRefusal
<1>1. SubmissionInv => FallbackOnlyOnEdgeRefusal
  BY DEF SubmissionInv, FallbackInv, FallbackOnlyOnEdgeRefusal
<1> QED BY <1>1, SubmissionInvariance, PTL

(* A rejection of a transaction the node holds means that an answer was    *)
(* lost or an acceptance reported before, however many submissions and     *)
(* late requests there are (midnight_node_rpc.cpp:767-772,                 *)
(* midnight_client.cpp:1095-1099).                                         *)
THEOREM RejectionCorrect == SubmitSpec => []RejectedButHeldOnlyAfterLoss
<1>1. SubmissionInv => RejectedButHeldOnlyAfterLoss
  BY DEF SubmissionInv, HeldInv, Held, RequestTypes, RejectedButHeldOnlyAfterLoss
<1> QED BY <1>1, SubmissionInvariance, PTL
-----------------------------------------------------------------------------
(* The pipeline. *)

Sendable(t) == context[t].kind \in {"absent", "block"}
Untouched(t) == ~ Held(t) /\ inflight[t] = 0
CarriedByBlock(t) == \E b \in Blocks : t \in carries[b]

PipelineTypes ==
    /\ RequestTypes
    /\ ptx \in Txs /\ wtx \in Txs
    /\ context \in [Txs -> Contexts]
    /\ opts \in [save : BOOLEAN, wait : BOOLEAN]
    /\ conf \in Results

(* Where requests come from: only the submission of the pipeline makes     *)
(* them, about a transaction whose context it has accepted.                *)
RequestInv ==
    /\ spc \in {"http", "ws"} => ppc = "submit" /\ Sendable(stx)
    /\ ppc = "submit" => stx = ptx
    /\ spc = "done" /\ sub = "ok" => "accepted" \in ever[stx]
    /\ ForeignContextNeverReachesNode

(* The wait of a pipeline is one for inclusion, and what it found is true. *)
PipelineWaitInv ==
    /\ wmode = "inclusion" /\ wpc \notin {"head", "canonical"}
    /\ conf.success => CarriedByBlock(wtx)

(* What each stage knows about the transaction of the operation. *)
StageKnows ==
    /\ ppc = "context" => Untouched(ptx)
    /\ ppc \in {"save", "done"} /\ perror \in {"LedgerStateMismatch", "NodeRpcError"} => Untouched(ptx)
    /\ ppc \in {"save", "confirm", "done"} /\ perror = "none" => "accepted" \in ever[ptx]
    /\ ppc = "confirm" => wtx = ptx /\ perror = "none"
    /\ ppc = "done" /\ perror = "none" /\ opts.wait => CarriedByBlock(ptx)

PipelineInv == NetworkInv /\ PipelineTypes /\ RequestInv /\ PipelineWaitInv /\ StageKnows

LEMMA PipelineInvInit == Init => PipelineInv
<1> SUFFICES ASSUME NetworkInit, SubmitInit, WaitInit, PipelineInit PROVE PipelineInv
  BY DEF Init
<1>1. NetworkInv /\ \A t \in Txs : ~ Held(t)
  BY InitiallyEmpty
<1>2. RequestTypes
  BY DEF SubmitInit, RequestTypes
<1>3. PipelineTypes
  BY <1>2 DEF WaitInit, PipelineInit, PipelineTypes, Contexts, Unbuilt, Results, FreshResult, Errors
<1>4. RequestInv
  BY <1>1 DEF SubmitInit, PipelineInit, RequestInv, ForeignContextNeverReachesNode
<1>5. PipelineWaitInv /\ StageKnows
  BY DEF WaitInit, PipelineInit, PipelineWaitInv, StageKnows, FreshResult
<1> QED BY <1>1, <1>3, <1>4, <1>5 DEF PipelineInv

(* A step in which the network moves on its own. *)
LEMMA NetworkKeepsPipelineInv ==
    ASSUME PipelineInv, NetworkNext, UNCHANGED <<pipelineVars, submitVars, waitVars>>
    PROVE  PipelineInv'
<1>1. NetworkInv' /\ NetworkGrows
  BY NetworkStepSafe DEF NetworkStep, PipelineInv
<1>2. \A t \in Txs : Held(t)' => Held(t)
  BY HeldBefore DEF PipelineInv
<1>3. \A t \in Txs : CarriedByBlock(t) => CarriedByBlock(t)'
  BY <1>1 DEF NetworkGrows, CarriedByBlock
<1> USE DEF pipelineVars, submitVars, historyVars, waitVars
<1>4. PipelineTypes'
  BY DEF PipelineInv, PipelineTypes, RequestTypes
<1>5. RequestInv'
  BY <1>2 DEF PipelineInv, PipelineTypes, RequestInv, ForeignContextNeverReachesNode, Sendable
<1>6. PipelineWaitInv'
  BY <1>3 DEF PipelineInv, PipelineTypes, PipelineWaitInv
<1>7. StageKnows'
  BY <1>2, <1>3 DEF PipelineInv, PipelineTypes, StageKnows, Untouched
<1> QED BY <1>1, <1>4, <1>5, <1>6, <1>7 DEF PipelineInv

(* A step that hands a transaction to the node or loses a request: it is   *)
(* the one that is being submitted, or one that was.                       *)
LEMMA RequestKeepsPipelineInv ==
    ASSUME PipelineInv, SubmitSteps \/ LateRequests, UNCHANGED <<pipelineVars, waitVars>>
    PROVE  PipelineInv'
<1>1. PICK t \in Txs :
        /\ Sendable(t)
        /\ \/ spc \in {"http", "ws"} /\ t = stx
           \/ inflight[t] > 0
        /\ NodeAccepts(t) \/ UNCHANGED networkVars
        /\ \A u \in Txs : inflight'[u] \in Nat /\ (inflight'[u] > 0 => u = t \/ inflight[u] > 0)
        /\ \A u \in Txs : ever[u] \subseteq ever'[u]
        /\ stx' = stx
        /\ RequestTypes'
        /\ spc' \in {"http", "ws"} => spc \in {"http", "ws"}
        /\ spc' = "done" /\ sub' = "ok" => "accepted" \in ever'[stx]
  <2>1. CASE SubmitSteps
    <3> USE DEF PipelineInv, PipelineTypes, RequestTypes, RequestInv, Heard, Return, Answers
    <3>1. CASE Accepted
      BY <3>1 DEF Accepted
    <3>2. CASE AcceptedWithoutId
      BY <3>2 DEF AcceptedWithoutId
    <3>3. CASE ApplicationError
      BY <3>3 DEF ApplicationError
    <3>4. CASE EdgeRefuses
      BY <3>4 DEF EdgeRefuses, AfterPathFailure
    <3>5. CASE HttpFails
      BY <3>5 DEF HttpFails, AfterPathFailure
    <3>6. CASE WebSocketFails
      BY <3>6 DEF WebSocketFails
    <3> QED BY <2>1, <3>1, <3>2, <3>3, <3>4, <3>5, <3>6 DEF SubmitSteps
  <2>2. CASE LateRequests
    <3>1. PICK t \in Txs :
            /\ inflight[t] > 0
            /\ inflight' = [inflight EXCEPT ![t] = @ - 1]
            /\ NodeAccepts(t) \/ UNCHANGED networkVars
            /\ UNCHANGED <<spc, stx, path, refused, sub, submits, historyVars>>
      BY <2>2, LateRequestsOnNetwork
    <3>2. Sendable(t)
      BY <3>1 DEF PipelineInv, RequestInv, ForeignContextNeverReachesNode, Sendable
    <3>3. RequestTypes'
      BY <3>1 DEF PipelineInv, PipelineTypes, RequestTypes, historyVars
    <3> QED BY <3>1, <3>2, <3>3 DEF PipelineInv, PipelineTypes, RequestTypes, RequestInv, historyVars
  <2> QED BY <2>1, <2>2
<1>2. NetworkInv' /\ \A u \in Txs : CarriedByBlock(u) => CarriedByBlock(u)'
  <2>1. CASE NodeAccepts(t)
    BY <2>1, NetworkStepSafe DEF NetworkStep, PipelineInv, NetworkGrows, CarriedByBlock
  <2>2. CASE UNCHANGED networkVars
    BY <2>2, UnchangedNetwork DEF PipelineInv, CarriedByBlock, networkVars, Blocks
  <2> QED BY <1>1, <2>1, <2>2
<1>3. \A u \in Txs : Held(u)' => u = t \/ Held(u)
  BY <1>1, UnchangedNetwork, HeldAfterAccept DEF PipelineInv
<1> USE DEF pipelineVars, waitVars
<1>4. PipelineTypes'
  BY <1>1 DEF PipelineInv, PipelineTypes
<1>5. RequestInv'
  BY <1>1, <1>3 DEF PipelineInv, PipelineTypes, RequestTypes, RequestInv, ForeignContextNeverReachesNode, Sendable
<1>6. PipelineWaitInv'
  BY <1>2 DEF PipelineInv, PipelineTypes, PipelineWaitInv
<1>7. StageKnows'
  <2>1. \A u \in Txs : Untouched(u) /\ u # t => Untouched(u)'
    BY <1>1, <1>3 DEF Untouched, PipelineInv, PipelineTypes, RequestTypes
  <2>2. ppc # "submit" => ~ Untouched(t)
    BY <1>1 DEF Untouched, PipelineInv, PipelineTypes, RequestTypes, RequestInv
  <2> QED BY <1>1, <1>2, <2>1, <2>2 DEF PipelineInv, PipelineTypes, StageKnows
<1> QED BY <1>2, <1>4, <1>5, <1>6, <1>7 DEF PipelineInv

(* Steps of the pipeline itself, which only read the network. *)
LocalStep ==
    \/ StartOperation \/ Validate \/ CheckProofServer \/ BuildFails \/ BuildSucceeds
    \/ ContextAccepted \/ ContextRefused \/ SubmitReturned \/ SaveArtifacts \/ WaitReturned
    \/ WaitSteps /\ UNCHANGED <<pipelineVars, submitVars, networkVars>>
    \/ Crash

LEMMA LocalStepKeepsPipelineInv ==
    ASSUME PipelineInv, LocalStep
    PROVE  PipelineInv'
<1>1. UNCHANGED networkVars
  BY DEF LocalStep, StartOperation, Validate, CheckProofServer, BuildFails, BuildSucceeds, ContextAccepted,
         SubmitTransaction, ContextRefused, SubmitReturned, SaveArtifacts, WaitReturned, Crash
<1>2. NetworkInv' /\ \A u \in Txs : Held(u)' <=> Held(u)
  BY <1>1, UnchangedNetwork DEF PipelineInv
<1>3. \A u : CarriedByBlock(u)' <=> CarriedByBlock(u)
  BY <1>1 DEF CarriedByBlock, networkVars, Blocks
<1> USE DEF PipelineInv, PipelineTypes, RequestTypes, RequestInv, PipelineWaitInv, StageKnows,
            ForeignContextNeverReachesNode, Sendable, Untouched
<1>4. CASE StartOperation
  BY <1>2, <1>3, <1>4 DEF StartOperation, submitVars, historyVars, waitVars
<1>5. CASE Validate \/ CheckProofServer \/ BuildFails
  BY <1>2, <1>3, <1>5 DEF Validate, CheckProofServer, BuildFails, Fail, submitVars, historyVars, waitVars
<1>6. CASE BuildSucceeds
  <2>1. PICK t \in Txs, c \in {Absent, Foreign} \cup {BuiltOn(b) : b \in Blocks} :
          /\ context[t] = Unbuilt
          /\ ptx' = t
          /\ context' = [context EXCEPT ![t] = c]
    BY <1>6 DEF BuildSucceeds
  <2>2. /\ ppc = "build" /\ ppc' = "context"
        /\ UNCHANGED <<opts, perror, disk, submitVars, waitVars, networkVars>>
    BY <1>6 DEF BuildSucceeds
  <2>3. c \in Contexts
    BY DEF Absent, Foreign, BuiltOn, Contexts, Blocks, NetworkInv, NetworkTypeOK
  <2>4. Untouched(t)
    BY <2>1 DEF Unbuilt
  <2>5. PipelineTypes'
    BY <2>1, <2>2, <2>3 DEF submitVars, historyVars, waitVars
  <2>6. RequestInv'
    BY <1>2, <2>1, <2>2, <2>4 DEF submitVars, historyVars
  <2>7. PipelineWaitInv' /\ StageKnows'
    BY <1>2, <1>3, <2>1, <2>2, <2>4 DEF submitVars, historyVars, waitVars
  <2> QED BY <1>2, <2>5, <2>6, <2>7
<1>7. CASE ContextAccepted
  BY <1>2, <1>3, <1>7 DEF ContextAccepted, SubmitTransaction, NodeMayKnow, Absent, waitVars, Answers
<1>8. CASE ContextRefused
  BY <1>2, <1>3, <1>8 DEF ContextRefused, Fail, submitVars, historyVars, waitVars
<1>9. CASE SubmitReturned
  BY <1>2, <1>3, <1>9 DEF SubmitReturned, submitVars, historyVars, waitVars
<1>10. CASE SaveArtifacts
  <2>1. /\ ppc = "save" /\ UNCHANGED <<ptx, opts, perror, context, submitVars, networkVars>>
        /\ \/ /\ perror = "none" /\ ppc' = "confirm"
              /\ wpc' = "inclusion" /\ wmode' = "inclusion" /\ wtx' = ptx /\ conf' = FreshResult
           \/ /\ ~ (perror = "none" /\ opts.wait)
              /\ ppc' = "done" /\ UNCHANGED waitVars
    BY <1>10 DEF SaveArtifacts, StartWait
  <2>2. FreshResult \in Results /\ ~ FreshResult.success
    BY DEF FreshResult, Results, Errors
  <2> QED BY <1>2, <1>3, <2>1, <2>2 DEF submitVars, historyVars, waitVars
<1>11. CASE WaitReturned
  BY <1>2, <1>3, <1>11 DEF WaitReturned, submitVars, historyVars, waitVars
<1>12. CASE WaitSteps /\ UNCHANGED <<pipelineVars, submitVars, networkVars>>
  <2>1. /\ wmode' = wmode /\ wtx' = wtx /\ wpc' \notin {"head", "canonical"}
        /\ conf' \in Results
        /\ conf'.success => CarriedByBlock(wtx)
    <3>1. CASE QueryIndexer
      <4>1. PICK parses \in BOOLEAN : conf' = ConfirmationFrom(view[wtx], parses)
        BY <3>1 DEF QueryIndexer
      <4>2. view[wtx] \in Places
        BY DEF NetworkInv, NetworkTypeOK
      <4>3. conf' \in Results /\ (conf'.success => view[wtx] # Nowhere)
        BY <4>1, <4>2 DEF ConfirmationFrom, Places, Results, Errors
      <4>4. conf'.success => CarriedByBlock(wtx)
        BY <4>3 DEF NetworkInv, CarriedByBlock
      <4> QED BY <3>1, <4>3, <4>4 DEF QueryIndexer
    <3>2. CASE QueryIndexerThrows
      BY <3>2 DEF QueryIndexerThrows, Results, Errors
    <3>3. CASE InclusionTimesOut
      BY <3>3 DEF InclusionTimesOut, Results, Errors
    <3> QED BY <1>12, <3>1, <3>2, <3>3
            DEF WaitSteps, GetFinalizedHead, GetBlockHash, FinalityPollThrows, FinalityTimesOut
  <2> QED BY <1>2, <1>3, <1>12, <2>1 DEF pipelineVars, submitVars, historyVars
<1>13. CASE Crash
  BY <1>2, <1>3, <1>13 DEF Crash, historyVars
<1> QED BY <1>4, <1>5, <1>6, <1>7, <1>8, <1>9, <1>10, <1>11, <1>12, <1>13 DEF LocalStep

LEMMA PipelineInvStep == PipelineInv /\ [Next]_vars => PipelineInv'
<1> SUFFICES ASSUME PipelineInv, [Next]_vars PROVE PipelineInv'
  OBVIOUS
<1>1. CASE NetworkNext /\ UNCHANGED <<pipelineVars, submitVars, waitVars>>
  BY <1>1, NetworkKeepsPipelineInv
<1>2. CASE (SubmitSteps \/ LateRequests) /\ UNCHANGED <<pipelineVars, waitVars>>
  BY <1>2, RequestKeepsPipelineInv
<1>3. CASE LocalStep
  BY <1>3, LocalStepKeepsPipelineInv
<1>4. CASE UNCHANGED vars
  <2>1. NetworkInv' /\ \A u \in Txs : Held(u)' <=> Held(u)
    BY <1>4, UnchangedNetwork DEF PipelineInv, vars
  <2>2. \A u : CarriedByBlock(u)' <=> CarriedByBlock(u)
    BY <1>4 DEF CarriedByBlock, vars, networkVars, Blocks
  <2> QED BY <1>4, <2>1, <2>2
      DEF vars, pipelineVars, submitVars, historyVars, waitVars, PipelineInv, PipelineTypes, RequestTypes,
          RequestInv, PipelineWaitInv, StageKnows, ForeignContextNeverReachesNode, Sendable, Untouched
<1> QED BY <1>1, <1>2, <1>3, <1>4 DEF Next, PipelineSteps, Environment, LocalStep

LEMMA PipelineInvariance == Spec => []PipelineInv
  BY PipelineInvInit, PipelineInvStep, PTL DEF Spec

(* A transaction whose context was not accepted reaches the node neither   *)
(* now nor by a request that outlives its process, whatever crashes and    *)
(* restarts there are (midnight_client.cpp:1162-1169).                     *)
THEOREM ForeignContextCorrect == Spec => []ForeignContextNeverReachesNode
<1>1. PipelineInv => ForeignContextNeverReachesNode
  BY DEF PipelineInv, RequestInv
<1> QED BY <1>1, PipelineInvariance, PTL

(* An error found before the submission means that no request for the      *)
(* transaction exists and the node does not hold it; success means that    *)
(* the node took it and, after a wait, that a block carries it             *)
(* (midnight_client.cpp:196-225, 1140-1167).                               *)
THEOREM ReportCorrect == Spec => []ReportMatchesNode
<1>1. PipelineInv => ReportMatchesNode
  BY DEF PipelineInv, StageKnows, Untouched, CarriedByBlock, ReportMatchesNode, LocalErrors, HasBytes
<1> QED BY <1>1, PipelineInvariance, PTL
-----------------------------------------------------------------------------
(* While the breaker is closed its counter is the number of calls that     *)
(* failed since one succeeded; while it is half open no more successes are *)
(* counted than calls succeeded in a row.                                  *)
BreakerInv ==
    /\ state_ = "CLOSED" => failures = streak /\ streak < FailureThreshold
    /\ state_ = "HALF_OPEN" => successes <= run

SubstrateInv == SubstrateTypeOK /\ BreakerInv

(* A successful call of rate_limiter.hpp:223-236 keeps the invariant, and  *)
(* closes the breaker only at the end of a run of successes.               *)
LEMMA RecordSuccessKeeps ==
    ASSUME SubstrateInv, record_success
    PROVE  /\ state_' \in {"CLOSED", "OPEN", "HALF_OPEN"}
           /\ failures' \in 0..(Word - 1)
           /\ successes' \in 0..(SuccessThreshold - 1)
           /\ cooled' \in BOOLEAN
           /\ streak' \in 0..FailureThreshold
           /\ run' \in 0..SuccessThreshold
           /\ BreakerInv'
           /\ ~ (state_ = "CLOSED" /\ state_' = "OPEN")
           /\ (state_ # "CLOSED" /\ state_' = "CLOSED") => run' = SuccessThreshold
  <1> USE SubstrateAssumption DEF SubstrateInv, SubstrateTypeOK, BreakerInv, record_success
  <1>1. CASE state_ = "HALF_OPEN" /\ successes + 1 >= SuccessThreshold
    BY <1>1
  <1>2. CASE ~ (state_ = "HALF_OPEN" /\ successes + 1 >= SuccessThreshold)
    BY <1>2
  <1> QED BY <1>1, <1>2

(* A failed call of rate_limiter.hpp:241-255 keeps the invariant, and      *)
(* opens a closed breaker only at the end of a run of failures.            *)
LEMMA RecordFailureKeeps ==
    ASSUME SubstrateInv, record_failure
    PROVE  /\ state_' \in {"CLOSED", "OPEN", "HALF_OPEN"}
           /\ failures' \in 0..(Word - 1)
           /\ successes' \in 0..(SuccessThreshold - 1)
           /\ cooled' \in BOOLEAN
           /\ streak' \in 0..FailureThreshold
           /\ run' \in 0..SuccessThreshold
           /\ BreakerInv'
           /\ (state_ = "CLOSED" /\ state_' = "OPEN") => streak' = FailureThreshold
           /\ ~ (state_ # "CLOSED" /\ state_' = "CLOSED")
  <1> USE SubstrateAssumption DEF SubstrateInv, SubstrateTypeOK, BreakerInv, record_failure
  <1>1. cooled' \in BOOLEAN
    BY Zenon
  <1>2. failures' \in 0..(Word - 1) /\ successes' \in 0..(SuccessThreshold - 1)
    OBVIOUS
  <1>3. streak' \in 0..FailureThreshold /\ run' = 0
    OBVIOUS
  <1>4. CASE state_ = "CLOSED"
    <2>1. failures' = failures + 1 /\ streak' = streak + 1
      BY <1>4
    <2>2. state_' = IF failures' >= FailureThreshold THEN "OPEN" ELSE "CLOSED"
      BY <1>4
    <2> QED BY <1>1, <1>2, <1>3, <1>4, <2>1, <2>2
  <1>5. CASE state_ # "CLOSED"
    <2>1. state_' = "OPEN"
      BY <1>5
    <2> QED BY <1>1, <1>2, <1>3, <1>5, <2>1
  <1> QED BY <1>4, <1>5

LEMMA SubstrateInitial == SubstrateInit => SubstrateInv
  BY SubstrateAssumption DEF SubstrateInit, SubstrateInv, SubstrateTypeOK, BreakerInv, Calls

(* What no step does: open a closed breaker before, or close it without,   *)
(* the calls it takes.                                                     *)
BreakerStep ==
    /\ (state_ = "CLOSED" /\ state_' = "OPEN") => streak' = FailureThreshold
    /\ (state_ # "CLOSED" /\ state_' = "CLOSED") => run' = SuccessThreshold

LEMMA SubstrateStep == SubstrateInv /\ [SubstrateNext]_substrateVars => SubstrateInv' /\ BreakerStep
  <1> SUFFICES ASSUME SubstrateInv, [SubstrateNext]_substrateVars
               PROVE  SubstrateInv' /\ BreakerStep
    OBVIOUS
  <1> USE SubstrateAssumption
  <1>1. ASSUME NEW c \in Callers, Query(c)
        PROVE  SubstrateInv' /\ BreakerStep
    BY <1>1 DEF Query, SubstrateInv, SubstrateTypeOK, BreakerInv, BreakerStep, breakerVars,
                nodeVars, Calls
  <1>2. ASSUME NEW c \in Callers, BuildAndSubmit(c)
        PROVE  SubstrateInv' /\ BreakerStep
    BY <1>2 DEF BuildAndSubmit, SubstrateInv, SubstrateTypeOK, BreakerInv, BreakerStep,
                breakerVars, nodeVars, Calls
  <1>3. ASSUME NEW c \in Callers, IsRequestAllowed(c)
        PROVE  SubstrateInv' /\ BreakerStep
    BY <1>3 DEF IsRequestAllowed, SubstrateInv, SubstrateTypeOK, BreakerInv, BreakerStep,
                recordVars, nodeVars, Calls
  <1>4. ASSUME NEW c \in Callers, CircuitIsOpen(c)
        PROVE  SubstrateInv' /\ BreakerStep
    BY <1>4 DEF CircuitIsOpen, Finish, SubstrateInv, SubstrateTypeOK, BreakerInv, BreakerStep,
                breakerVars, recordVars, nodeVars, Calls
  <1>5. ASSUME NEW c \in Callers, PostAnswers(c)
        PROVE  SubstrateInv' /\ BreakerStep
    <2>1. xt' \in [Callers -> [nonce : Nat, version : Nat]]
      BY <1>5 DEF PostAnswers, SubstrateInv, SubstrateTypeOK
    <2>2. \/ next' = next + 1 /\ took' = [took EXCEPT ![c] = TRUE]
          \/ UNCHANGED <<next, took>>
      BY <1>5 DEF PostAnswers, NodeTakes
    <2>3. next' \in Nat
      BY <2>2 DEF SubstrateInv, SubstrateTypeOK
    <2>4. took' \in [Callers -> BOOLEAN]
      BY <2>2, Zenon DEF SubstrateInv, SubstrateTypeOK
    <2> QED BY <1>5, <2>1, <2>3, <2>4 DEF PostAnswers, SubstrateInv, SubstrateTypeOK, BreakerInv,
                BreakerStep, breakerVars, Calls
  <1>6. ASSUME NEW c \in Callers, PostThrows(c)
        PROVE  SubstrateInv' /\ BreakerStep
    <2>1. cpc' \in [Callers -> {"idle", "begin", "post", "ok", "failed"}]
      BY <1>6 DEF PostThrows, Retry, SubstrateInv, SubstrateTypeOK
    <2>2. attempt' \in [Callers -> 0..MaxRetries]
      <3>1. CASE attempt[c] >= MaxRetries
        BY <1>6, <3>1 DEF PostThrows, Retry, SubstrateInv, SubstrateTypeOK
      <3>2. CASE ~ (attempt[c] >= MaxRetries)
        <4>1. attempt' = [attempt EXCEPT ![c] = attempt[c] + 1]
          BY <1>6, <3>2 DEF PostThrows, Retry
        <4>2. attempt[c] + 1 \in 0..MaxRetries
          BY <3>2 DEF SubstrateInv, SubstrateTypeOK
        <4> QED BY <4>1, <4>2 DEF SubstrateInv, SubstrateTypeOK
      <3> QED BY <3>1, <3>2
    <2>3. \/ UNCHANGED <<took, next, lost>>
          \/ /\ took' = [took EXCEPT ![c] = TRUE]
             /\ next' = next + 1
             /\ lost' = [lost EXCEPT ![c] = TRUE]
      BY <1>6 DEF PostThrows, NodeTakes
    <2>4. next' \in Nat
      BY <2>3 DEF SubstrateInv, SubstrateTypeOK
    <2>5. took' \in [Callers -> BOOLEAN] /\ lost' \in [Callers -> BOOLEAN]
      BY <2>3, Zenon DEF SubstrateInv, SubstrateTypeOK
    <2> QED BY <1>6, <2>1, <2>2, <2>4, <2>5 DEF PostThrows, SubstrateInv, SubstrateTypeOK, BreakerInv,
                BreakerStep, breakerVars
  <1>7. ASSUME NEW c \in Callers, CallSucceeds(c)
        PROVE  SubstrateInv' /\ BreakerStep
    <2>1. record_success
      BY <1>7 DEF CallSucceeds
    <2>2. /\ state_' \in {"CLOSED", "OPEN", "HALF_OPEN"}
          /\ failures' \in 0..(Word - 1)
          /\ successes' \in 0..(SuccessThreshold - 1)
          /\ cooled' \in BOOLEAN
          /\ streak' \in 0..FailureThreshold
          /\ run' \in 0..SuccessThreshold
          /\ BreakerInv' /\ BreakerStep
      BY <2>1, RecordSuccessKeeps DEF BreakerStep
    <2>3. cache' \in [version : Nat, genesis : BOOLEAN]
      BY <1>7 DEF CallSucceeds, SubstrateInv, SubstrateTypeOK
    <2>4. CASE call[c] \in {"query", "submit"}
      <3>1. Finish(c, "ok") /\ UNCHANGED <<call, nodeVars, took, lost>>
        BY <1>7, <2>4 DEF CallSucceeds
      <3> QED BY <2>3, <2>2, <3>1 DEF Finish, SubstrateInv, SubstrateTypeOK, nodeVars
    <2>5. CASE call[c] \notin {"query", "submit"}
      <3>1. StepAfter(call[c]) \in Calls
        BY <2>5 DEF StepAfter, Calls, SubstrateInv, SubstrateTypeOK
      <3>2. /\ cpc' = [cpc EXCEPT ![c] = "begin"]
            /\ call' = [call EXCEPT ![c] = StepAfter(call[c])]
            /\ UNCHANGED <<attempt, xt, outcome, nodeVars, took, lost>>
        BY <1>7, <2>5 DEF CallSucceeds
      <3> QED BY <2>3, <2>2, <3>1, <3>2 DEF SubstrateInv, SubstrateTypeOK, nodeVars
    <2> QED BY <2>4, <2>5
  <1>8. ASSUME NEW c \in Callers, UnexpectedFormat(c)
        PROVE  SubstrateInv' /\ BreakerStep
    <2>1. record_success
      BY <1>8 DEF UnexpectedFormat
    <2>2. lost' \in [Callers -> BOOLEAN]
      <3>1. UNCHANGED lost \/ lost' = [lost EXCEPT ![c] = TRUE]
        BY <1>8 DEF UnexpectedFormat, SubstrateInv, SubstrateTypeOK
      <3> QED BY <3>1, Zenon DEF SubstrateInv, SubstrateTypeOK
    <2>3. Finish(c, "error") /\ UNCHANGED <<call, cache, nodeVars, took>>
      BY <1>8 DEF UnexpectedFormat
    <2> QED BY <2>1, <2>2, <2>3, RecordSuccessKeeps
          DEF Finish, SubstrateInv, SubstrateTypeOK, BreakerStep, nodeVars
  <1>9. ASSUME NEW c \in Callers, CallFails(c)
        PROVE  SubstrateInv' /\ BreakerStep
    <2>1. record_failure
      BY <1>9 DEF CallFails
    <2> QED BY <1>9, <2>1, RecordFailureKeeps
          DEF CallFails, Finish, SubstrateInv, SubstrateTypeOK, BreakerStep, nodeVars
  <1>10. CASE CoolDown
    BY <1>10 DEF CoolDown, SubstrateInv, SubstrateTypeOK, BreakerInv, BreakerStep, callerVars,
                 recordVars, nodeVars
  <1>11. CASE RuntimeUpgrade
    BY <1>11 DEF RuntimeUpgrade, SubstrateInv, SubstrateTypeOK, BreakerInv, BreakerStep,
                 breakerVars, callerVars, recordVars
  <1>12. CASE UNCHANGED substrateVars
    BY <1>12 DEF substrateVars, SubstrateInv, SubstrateTypeOK, BreakerInv, BreakerStep, breakerVars,
                 callerVars, recordVars, nodeVars
  <1> QED
    BY <1>1, <1>2, <1>3, <1>4, <1>5, <1>6, <1>7, <1>8, <1>9, <1>10, <1>11, <1>12
       DEF SubstrateNext, Start, Proceed

LEMMA SubstrateInvariance == SubstrateSpec => []SubstrateInv
  BY SubstrateInitial, SubstrateStep, PTL DEF SubstrateSpec

(* The variables of SubstrateRPC, its breaker, its callers and the node    *)
(* they talk to keep their types; in particular no counter of the breaker  *)
(* leaves its range (rate_limiter.hpp:223-255).                            *)
THEOREM SubstrateTypeCorrect == SubstrateSpec => []SubstrateTypeOK
  <1>1. SubstrateInv => SubstrateTypeOK
    BY DEF SubstrateInv
  <1> QED BY <1>1, SubstrateInvariance, PTL

(* The breaker opens exactly when FailureThreshold calls in a row have     *)
(* failed, for any number of threads (rate_limiter.hpp:241-255).           *)
THEOREM TripsExactly == SubstrateSpec => TripsOnConsecutiveFailures
  <1>1. SubstrateInv => (state_ = "CLOSED" => streak < FailureThreshold)
    BY DEF SubstrateInv, BreakerInv
  <1>2. SubstrateInv /\ [SubstrateNext]_substrateVars =>
            [(state_ = "CLOSED" /\ state_' = "OPEN") => streak' = FailureThreshold]_substrateVars
    BY SubstrateStep DEF BreakerStep
  <1> QED BY <1>1, <1>2, SubstrateInvariance, PTL DEF SubstrateSpec, TripsOnConsecutiveFailures

(* The breaker closes only after SuccessThreshold calls in a row have      *)
(* succeeded, for any number of threads (rate_limiter.hpp:223-236).        *)
THEOREM ClosesExactly == SubstrateSpec => ClosesOnConsecutiveSuccesses
  <1>1. SubstrateInv /\ [SubstrateNext]_substrateVars =>
            [(state_ # "CLOSED" /\ state_' = "CLOSED") => run' = SuccessThreshold]_substrateVars
    BY SubstrateStep DEF BreakerStep
  <1> QED BY <1>1, SubstrateInvariance, PTL DEF SubstrateSpec, ClosesOnConsecutiveSuccesses

(* Why a report matches the node, for each thread: the node takes an       *)
(* extrinsic only while it is being submitted; one whose acceptance was    *)
(* not answered is on record as lost for as long as the thread may still   *)
(* fail, and one that was answered was taken.                              *)
ReportInv ==
    \A c \in Callers :
        /\ took[c] => call[c] = "submit"
        /\ took[c] /\ cpc[c] \in {"begin", "post", "failed"} => lost[c]
        /\ cpc[c] = "ok" /\ call[c] = "submit" => took[c]
        /\ cpc[c] = "idle" =>
              /\ took[c] /\ outcome[c] = "error" => lost[c]
              /\ call[c] = "submit" /\ outcome[c] = "ok" => took[c]

(* A step of thread c leaves what is recorded of the others alone. *)
LEMMA ReportStep == SubstrateTypeOK /\ ReportInv /\ [SubstrateNext]_substrateVars => ReportInv'
  <1> SUFFICES ASSUME SubstrateTypeOK, ReportInv, [SubstrateNext]_substrateVars
               PROVE  ReportInv'
    OBVIOUS
  <1> USE DEF SubstrateTypeOK, ReportInv, Calls
  <1>1. ASSUME NEW c \in Callers, Query(c)
        PROVE  ReportInv'
    BY <1>1 DEF Query
  <1>2. ASSUME NEW c \in Callers, BuildAndSubmit(c)
        PROVE  ReportInv'
    BY <1>2 DEF BuildAndSubmit
  <1>3. ASSUME NEW c \in Callers, IsRequestAllowed(c)
        PROVE  ReportInv'
    BY <1>3 DEF IsRequestAllowed, recordVars
  <1>4. ASSUME NEW c \in Callers, CircuitIsOpen(c)
        PROVE  ReportInv'
    BY <1>4 DEF CircuitIsOpen, Finish, recordVars
  <1>5. ASSUME NEW c \in Callers, PostAnswers(c)
        PROVE  ReportInv'
    BY <1>5 DEF PostAnswers, NodeTakes
  <1>6. ASSUME NEW c \in Callers, PostThrows(c)
        PROVE  ReportInv'
    <2>1. /\ cpc[c] = "post"
          /\ cpc' \in {[cpc EXCEPT ![c] = "failed"], [cpc EXCEPT ![c] = "post"]}
          /\ UNCHANGED <<call, outcome>>
      BY <1>6 DEF PostThrows, Retry
    <2>2. \/ UNCHANGED <<took, lost>>
          \/ /\ call[c] = "submit"
             /\ took' = [took EXCEPT ![c] = TRUE]
             /\ lost' = [lost EXCEPT ![c] = TRUE]
      BY <1>6 DEF PostThrows, NodeTakes
    <2> QED BY <2>1, <2>2
  <1>7. ASSUME NEW c \in Callers, CallSucceeds(c)
        PROVE  ReportInv'
    BY <1>7 DEF CallSucceeds, Finish, StepAfter
  <1>8. ASSUME NEW c \in Callers, UnexpectedFormat(c)
        PROVE  ReportInv'
    BY <1>8 DEF UnexpectedFormat, Finish
  <1>9. ASSUME NEW c \in Callers, CallFails(c)
        PROVE  ReportInv'
    BY <1>9 DEF CallFails, Finish
  <1>10. CASE CoolDown
    BY <1>10 DEF CoolDown, callerVars, recordVars
  <1>11. CASE RuntimeUpgrade
    BY <1>11 DEF RuntimeUpgrade, callerVars, recordVars
  <1>12. CASE UNCHANGED substrateVars
    BY <1>12 DEF substrateVars, callerVars, recordVars
  <1> QED
    BY <1>1, <1>2, <1>3, <1>4, <1>5, <1>6, <1>7, <1>8, <1>9, <1>10, <1>11, <1>12
       DEF SubstrateNext, Start, Proceed

(* A build_and_submit() that reports success is about an extrinsic the     *)
(* node took, and one that reports an error although the node took it has  *)
(* lost an answer, for any number of threads and retries                   *)
(* (substrate_rpc.cpp:64-145, 339-416).                                    *)
THEOREM OutcomeCorrect == SubstrateSpec => []OutcomeMatchesNode
  <1>1. SubstrateInit => ReportInv
    BY DEF SubstrateInit, ReportInv
  <1>2. ReportInv => OutcomeMatchesNode
    BY DEF ReportInv, OutcomeMatchesNode
  <1> QED BY <1>1, <1>2, SubstrateTypeCorrect, ReportStep, PTL DEF SubstrateSpec
-----------------------------------------------------------------------------
(* Of one operation, when the service is at height h.  A build that would  *)
(* fetch the history of the chain, or did, was asked to; a checkpoint is   *)
(* not above the service; and only a finished operation was skipped, its   *)
(* checkpoint, if it had one and a tip, within the lag.                    *)
Sound(o, h) ==
    /\ o \in Operation
    /\ o.fetched => o.asked = "ColdSync"
    /\ (o.at = "build" /\ ~o.src.cached /\ ~o.src.files /\ o.src.bounds = "none")
          => o.asked = "ColdSync"
    /\ o.cp <= h
    /\ o.skipped => o.at = "done"
    /\ (o.skipped /\ o.cp > 0 /\ o.seen > 0) => o.seen <= o.cp + MaxLag

(* Between the two copies of an undisturbed export the copied fetch cache  *)
(* is the one in use; of an undisturbed import the fetch cache in use is   *)
(* the copied one, unless the snapshot is empty.  At any time the snapshot *)
(* holds no more source blocks than the cache, since it was copied from it *)
(* and the cache only grows or is replaced by the snapshot.                *)
CopyInv ==
    ~torn =>
      /\ \A p, q \in Procs : Copying(p) /\ Copying(q) => p = q
      /\ snap.fetch <= fetch /\ snap.state <= fetch
      /\ (\A p \in Procs : ~Copying(p)) => state <= fetch /\ snap.state <= snap.fetch
      /\ \A p \in Procs :
            /\ Copying(p) /\ op[p].kind = "export" => state <= fetch /\ snap.fetch = fetch
            /\ Copying(p) /\ op[p].kind = "import" =>
                  /\ snap.state <= snap.fetch
                  /\ (snap.fetch = 0) <=> (snap.state = 0)
                  /\ IF snap.fetch > 0 THEN fetch = snap.fetch ELSE state <= fetch

StateInv ==
    /\ BackendTypeOK
    /\ \A p \in Procs : Sound(op[p], service)
    /\ vouched => state > 0
    /\ CopyInv
-----------------------------------------------------------------------------
(* Operations. *)

(* The steps of one process. *)
ProcNext(p) ==
    \/ StartBuild(p) \/ FfiBuild(p) \/ FfiBuildFails(p)
    \/ StartSync(p) \/ StartRefresh(p)
    \/ EnsureLocal(p) \/ EnsureManagedAsks(p) \/ EnsureManagedUnready(p)
    \/ AskTip(p) \/ EnsureDecides(p)
    \/ RefreshLocal(p) \/ RefreshManaged(p) \/ SyncFetches(p) \/ SyncApplies(p)
    \/ StartSnapshot(p) \/ ExportFetch(p) \/ ExportState(p)
    \/ ImportFetch(p) \/ ImportState(p) \/ CopyFails(p)
    \/ BackendReturn(p) \/ BackendCrash(p)

(* What p's next operation record o is, besides sound: not refused for a   *)
(* missing cache while the DB is vouched for, and between two copies only  *)
(* after the first.                                                        *)
Follows(p, o) ==
    /\ Step(p, o)
    /\ Sound(o, service')
    /\ (o.error = "no_cache" /\ op[p].error # "no_cache") => ~vouched
    /\ o.at = "copy_state" => ExportFetch(p) \/ ImportFetch(p)

LEMMA IdleOperation ==
    /\ Idle \in Operation
    /\ Idle.at = "idle" /\ Idle.src = NoSource /\ Idle.asked = "Auto"
    /\ Idle.cp = 0 /\ Idle.seen = 0 /\ Idle.error = "none"
    /\ Idle.fetched = FALSE /\ Idle.skipped = FALSE
  BY StateAssumption DEF Idle, NoSource, Operation, SourceConfig, Modes

Kinds == {"none", "build", "sync", "refresh", "ensure", "export", "import"}
BackendErrors == {"none", "ledger", "not_ready", "service", "artifact"}

(* A failed or finished operation is sound whatever the service is at. *)
LEMMA FinishedSound ==
    ASSUME NEW h \in Nat, NEW k \in Kinds, NEW e \in BackendErrors
    PROVE  /\ Sound([Idle EXCEPT !.kind = k, !.at = "done", !.error = e], h)
           /\ Sound(Idle, h)
  <1>1. PICK i : i = Idle
    OBVIOUS
  <1>2. /\ i \in Operation /\ i.at = "idle" /\ i.cp = 0
        /\ i.fetched = FALSE /\ i.skipped = FALSE
    BY <1>1, IdleOperation
  <1>3. PICK o : o = [i EXCEPT !.kind = k, !.at = "done", !.error = e]
    OBVIOUS
  <1>4. o \in Operation
    BY <1>2, <1>3 DEF Operation, Kinds, BackendErrors
  <1>5. o.at = "done" /\ o.cp = 0 /\ o.fetched = FALSE /\ o.skipped = FALSE
    BY <1>2, <1>3 DEF Operation
  <1>6. Sound(o, h) /\ Sound(i, h)
    BY <1>2, <1>4, <1>5 DEF Sound
  <1> QED BY <1>1, <1>3, <1>6

(* NormalizeSourceForTransactionBuild (state_backend.cpp): what it leaves  *)
(* without a cache, files and bounds was asked for by name.                *)
LEMMA NormalizedSource ==
    ASSUME NEW s \in SourceConfig, ~SourceInvalid(NormalizeSourceForTransactionBuild(s))
    PROVE  LET n == NormalizeSourceForTransactionBuild(s)
           IN  /\ n \in SourceConfig
               /\ (~n.cached /\ ~n.files /\ n.bounds = "none") => s.mode = "ColdSync"
  BY DEF NormalizeSourceForTransactionBuild, SourceInvalid, IsBoundedSource, SourceConfig, Modes

LEMMA ServiceHeight == StateInv => service \in Nat /\ tip \in 1..MaxTip /\ service <= tip
  BY StateAssumption DEF StateInv, BackendTypeOK

(* An operation that fails or ends. *)
LEMMA FailFollows ==
    ASSUME StateInv, NEW p \in Procs, NEW e \in BackendErrors, BackendFail(p, e), service' \in Nat
    PROVE  \E o : Follows(p, o)
  <1>1. op[p].kind \in Kinds
    BY DEF StateInv, BackendTypeOK, Operation, Kinds
  <1>2. PICK i : i = Idle
    OBVIOUS
  <1>3. PICK o : o = [i EXCEPT !.kind = op[p].kind, !.at = "done", !.error = e]
    OBVIOUS
  <1>4. Sound(o, service')
    BY <1>1, <1>2, <1>3, FinishedSound
  <1>5. o.at = "done" /\ o.error = e
    BY <1>2, <1>3, IdleOperation DEF Operation
  <1>6. Step(p, o)
    BY <1>2, <1>3 DEF BackendFail
  <1> QED BY <1>4, <1>5, <1>6 DEF Follows, BackendErrors

(* An operation that goes on. *)
LEMMA GoToFollows ==
    ASSUME StateInv, NEW p \in Procs, NEW a \in {"refresh", "apply", "copy_state"}, GoTo(p, a),
           op[p].at # "done", UNCHANGED service,
           a = "copy_state" => ExportFetch(p) \/ ImportFetch(p)
    PROVE  \E o : Follows(p, o)
  <1>1. PICK i : i = op[p]
    OBVIOUS
  <1>2. i \in Operation /\ Sound(i, service)
    BY <1>1 DEF StateInv, BackendTypeOK
  <1>3. PICK o : o = [i EXCEPT !.at = a]
    OBVIOUS
  <1>4. o \in Operation
    BY <1>2, <1>3 DEF Operation
  <1>5. /\ o.at = a /\ o.cp = i.cp /\ o.fetched = i.fetched /\ o.skipped = i.skipped
        /\ o.asked = i.asked /\ o.error = i.error
    BY <1>2, <1>3 DEF Operation
  <1>6. Sound(o, service)
    BY <1>1, <1>2, <1>4, <1>5 DEF Sound
  <1>7. Step(p, o)
    BY <1>1, <1>3 DEF GoTo
  <1> QED BY <1>1, <1>5, <1>6, <1>7 DEF Follows

(* An operation that starts, or starts over, with nothing known yet. *)
LEMMA FreshFollows ==
    ASSUME NEW p \in Procs, NEW o \in Operation, Step(p, o), service' \in Nat,
           o.fetched = FALSE, o.skipped = FALSE, o.cp = 0, o.at # "build", o.at # "copy_state",
           o.error = "no_cache" => ~vouched
    PROVE  \E r : Follows(p, r)
  <1>1. Sound(o, service')
    BY DEF Sound
  <1> QED BY <1>1 DEF Follows

(* An operation that was skipped without a checkpoint. *)
LEMMA SkippedFollows ==
    ASSUME NEW p \in Procs, NEW k \in Kinds,
           Step(p, [Idle EXCEPT !.kind = k, !.at = "done", !.skipped = TRUE]), service' \in Nat
    PROVE  \E o : Follows(p, o)
  <1>1. PICK i : i = Idle
    OBVIOUS
  <1>2. PICK o : o = [i EXCEPT !.kind = k, !.at = "done", !.skipped = TRUE]
    OBVIOUS
  <1>3. o \in Operation
    BY <1>1, <1>2, IdleOperation DEF Operation, Kinds
  <1>4. o.at = "done" /\ o.cp = 0 /\ o.fetched = FALSE /\ o.error = "none"
    BY <1>1, <1>2, IdleOperation DEF Operation
  <1>5. Sound(o, service')
    BY <1>3, <1>4 DEF Sound
  <1> QED BY <1>1, <1>2, <1>4, <1>5 DEF Follows

(* CacheMissing and Ready look at the same DB: a build is refused for a    *)
(* missing cache only while the DB holds nothing (validate_source(),       *)
(* LocalStateBackend::status()).                                           *)
LEMMA StartBuildFollows ==
    ASSUME StateInv, NEW p \in Procs, StartBuild(p)
    PROVE  \E o : Follows(p, o)
  <1>1. service' = service /\ service \in Nat
    BY ServiceHeight DEF StartBuild
  <1>2. PICK i : i = [Idle EXCEPT !.kind = "build"]
    OBVIOUS
  <1>3. /\ i \in Operation /\ i.cp = 0 /\ i.seen = 0 /\ i.error = "none"
        /\ i.fetched = FALSE /\ i.skipped = FALSE
    BY <1>2, IdleOperation DEF Operation
  <1>4. PICK s \in Sources :
          LET n == NormalizeSourceForTransactionBuild(s)
              Refused(e) == Step(p, [i EXCEPT !.at = "done", !.error = e])
          IN  \/ SourceInvalid(n) /\ Refused("source")
              \/ ~SourceInvalid(n) /\ CacheMissing(n) /\ Refused("no_cache")
              \/ /\ ~SourceInvalid(n) /\ ~CacheMissing(n)
                 /\ \/ Step(p, [i EXCEPT !.at = "build", !.asked = s.mode, !.src = n])
                    \/ Refused("proof_server")
    BY <1>2 DEF StartBuild
  <1>5. s \in SourceConfig
    BY StateAssumption
  <1> DEFINE n == NormalizeSourceForTransactionBuild(s)
             Refused(e) == [i EXCEPT !.at = "done", !.error = e]
  <1>6. ASSUME NEW e \in {"source", "no_cache", "proof_server"}, Step(p, Refused(e)),
               e = "no_cache" => ~vouched
        PROVE  \E o : Follows(p, o)
    <2>1. PICK o : o = Refused(e)
      OBVIOUS
    <2>2. o \in Operation
      BY <1>3, <2>1 DEF Operation
    <2>3. /\ o.at = "done" /\ o.error = e /\ o.cp = 0
          /\ o.fetched = FALSE /\ o.skipped = FALSE
      BY <1>3, <2>1 DEF Operation
    <2>4. Step(p, o)
      BY <1>6, <2>1
    <2> QED BY <1>1, <1>6, <2>2, <2>3, <2>4, FreshFollows
  <1>7. CASE SourceInvalid(n) /\ Step(p, Refused("source"))
    BY <1>6, <1>7
  <1>8. CASE CacheMissing(n) /\ Step(p, Refused("no_cache"))
    <2>1. ~(state > 0)
      BY <1>8 DEF CacheMissing, CachePathHasData
    <2>2. ~vouched
      BY <2>1 DEF StateInv
    <2> QED BY <1>6, <1>8, <2>2
  <1>9. CASE Step(p, Refused("proof_server"))
    BY <1>6, <1>9
  <1>10. CASE ~SourceInvalid(n) /\ Step(p, [i EXCEPT !.at = "build", !.asked = s.mode, !.src = n])
    <2>1. PICK m : m = n
      OBVIOUS
    <2>2. /\ m \in SourceConfig
          /\ (~m.cached /\ ~m.files /\ m.bounds = "none") => s.mode = "ColdSync"
      BY <1>5, <1>10, <2>1, NormalizedSource
    <2>3. PICK o : o = [i EXCEPT !.at = "build", !.asked = s.mode, !.src = m]
      OBVIOUS
    <2>4. s.mode \in Modes
      BY <1>5 DEF SourceConfig
    <2>5. o \in Operation
      BY <1>3, <2>2, <2>3, <2>4 DEF Operation
    <2>6. /\ o.at = "build" /\ o.asked = s.mode /\ o.src = m /\ o.error = "none" /\ o.cp = 0
          /\ o.fetched = FALSE /\ o.skipped = FALSE
      BY <1>3, <2>3 DEF Operation
    <2>7. Sound(o, service')
      BY <1>1, <2>2, <2>5, <2>6 DEF Sound
    <2>8. Step(p, o)
      BY <1>10, <2>1, <2>3
    <2> QED BY <2>6, <2>7, <2>8 DEF Follows
  <1> QED BY <1>4, <1>7, <1>8, <1>9, <1>10

(* sync_ledger_state(), refresh_state(), ensure_state_fresh() and the      *)
(* snapshot operations start.                                              *)
LEMMA StartsFollow ==
    ASSUME StateInv, NEW p \in Procs, StartSync(p) \/ StartRefresh(p) \/ StartSnapshot(p)
    PROVE  \E o : Follows(p, o)
  <1>1. service' = service /\ service \in Nat
    BY ServiceHeight DEF StartSync, StartRefresh, StartSnapshot
  <1>2. PICK i : i = Idle
    OBVIOUS
  <1>3. /\ i \in Operation /\ i.cp = 0 /\ i.error = "none"
        /\ i.fetched = FALSE /\ i.skipped = FALSE
    BY <1>2, IdleOperation
  <1>4. NoSource \in SourceConfig
    BY DEF NoSource, SourceConfig, Modes
  <1>5. ASSUME NEW s \in SourceConfig PROVE SyncSource(s) \in SourceConfig
    <2>1. PICK c : c = NoSource
      OBVIOUS
    <2> QED BY <1>4, <2>1 DEF SyncSource, SourceConfig
  <1>6. ASSUME NEW o \in Operation, Step(p, o), o.at \in {"done", "fetch", "check", "refresh", "copy_fetch"},
               o.error \in {"none", "source", "unsupported"}, o.cp = i.cp,
               o.fetched = i.fetched, o.skipped = i.skipped
        PROVE  \E r : Follows(p, r)
    BY <1>1, <1>3, <1>6, FreshFollows
  <1>7. CASE StartSync(p)
    <2>1. PICK s \in Sources :
            Step(p, IF s.bounds = "half"
                      THEN [[i EXCEPT !.kind = "sync"] EXCEPT !.at = "done", !.error = "source"]
                      ELSE [[i EXCEPT !.kind = "sync"] EXCEPT
                              !.at = "fetch", !.src = SyncSource(NormalizeSourceForSync(s))])
      BY <1>2, <1>7 DEF StartSync
    <2>2. s \in SourceConfig
      BY StateAssumption
    <2>3. NormalizeSourceForSync(s) \in SourceConfig
      BY <2>2 DEF NormalizeSourceForSync, SourceConfig, Modes
    <2>4. SyncSource(NormalizeSourceForSync(s)) \in SourceConfig
      BY <1>5, <2>3
    <2>5. PICK o : /\ Step(p, o)
                   /\ \/ o = [i EXCEPT !.kind = "sync", !.at = "done", !.error = "source"]
                      \/ o = [i EXCEPT !.kind = "sync", !.at = "fetch",
                                       !.src = SyncSource(NormalizeSourceForSync(s))]
      BY <2>1
    <2>6. CASE o = [i EXCEPT !.kind = "sync", !.at = "done", !.error = "source"]
      BY <1>3, <1>6, <2>5, <2>6 DEF Operation
    <2>7. CASE o = [i EXCEPT !.kind = "sync", !.at = "fetch",
                             !.src = SyncSource(NormalizeSourceForSync(s))]
      <3>1. PICK c \in SourceConfig : c = SyncSource(NormalizeSourceForSync(s))
        BY <2>4
      <3>2. o = [i EXCEPT !.kind = "sync", !.at = "fetch", !.src = c]
        BY <2>7, <3>1
      <3> QED BY <1>3, <1>6, <2>5, <3>2 DEF Operation
    <2> QED BY <2>5, <2>6, <2>7
  <1>8. CASE StartRefresh(p)
    <2>1. PICK s \in Sources, k \in {"refresh", "ensure"}, f \in BOOLEAN, g \in BOOLEAN :
            Step(p, [i EXCEPT !.kind = k, !.force = f, !.allow = g,
                              !.src = IF backend = "local" THEN SyncSource(s) ELSE NoSource,
                              !.at = IF k = "ensure" THEN "check" ELSE "refresh"])
      BY <1>2, <1>8, ZenonT(60) DEF StartRefresh
    <2>2. PICK c \in SourceConfig : c = IF backend = "local" THEN SyncSource(s) ELSE NoSource
      BY <1>4, <1>5, StateAssumption
    <2>3. PICK a \in {"check", "refresh"} : a = IF k = "ensure" THEN "check" ELSE "refresh"
      OBVIOUS
    <2>4. PICK o : o = [i EXCEPT !.kind = k, !.force = f, !.allow = g, !.src = c, !.at = a]
      OBVIOUS
    <2>5. Step(p, o)
      BY <2>1, <2>2, <2>3, <2>4
    <2>6. o \in Operation
      BY <1>3, <2>4, ZenonT(60) DEF Operation
    <2>7. /\ o.at = a /\ o.error = i.error /\ o.cp = i.cp
          /\ o.fetched = i.fetched /\ o.skipped = i.skipped
      BY <1>3, <2>4 DEF Operation
    <2> QED BY <1>3, <1>6, <2>5, <2>6, <2>7
  <1>9. CASE StartSnapshot(p)
    <2>1. PICK k \in {"export", "import"} :
            Step(p, IF backend = "managed"
                      THEN [[i EXCEPT !.kind = k] EXCEPT !.at = "done", !.error = "unsupported"]
                      ELSE [[i EXCEPT !.kind = k] EXCEPT !.at = "copy_fetch"])
      BY <1>2, <1>9 DEF StartSnapshot
    <2>2. PICK o : /\ Step(p, o)
                   /\ \/ o = [i EXCEPT !.kind = k, !.at = "done", !.error = "unsupported"]
                      \/ o = [i EXCEPT !.kind = k, !.at = "copy_fetch"]
      BY <2>1
    <2>3. CASE o = [i EXCEPT !.kind = k, !.at = "done", !.error = "unsupported"]
      BY <1>3, <1>6, <2>2, <2>3 DEF Operation
    <2>4. CASE o = [i EXCEPT !.kind = k, !.at = "copy_fetch"]
      BY <1>3, <1>6, <2>2, <2>4 DEF Operation
    <2> QED BY <2>2, <2>3, <2>4
  <1> QED BY <1>7, <1>8, <1>9

(* ensure_state_fresh() on a managed backend: the checkpoint it goes by is *)
(* one the service had reached when it was asked.                          *)
LEMMA EnsureFollows ==
    ASSUME StateInv, NEW p \in Procs, EnsureManagedAsks(p) \/ AskTip(p) \/ EnsureDecides(p)
    PROVE  \E o : Follows(p, o)
  <1>1. service' = service /\ service \in Nat /\ tip \in 1..MaxTip /\ service <= tip
    BY ServiceHeight DEF EnsureManagedAsks, AskTip, EnsureDecides
  <1>2. PICK i : i = op[p]
    OBVIOUS
  <1>3. i \in Operation /\ Sound(i, service)
    BY <1>2 DEF StateInv, BackendTypeOK
  <1>4. i.at \in {"check", "ask_tip", "decide"}
    BY <1>2 DEF EnsureManagedAsks, AskTip, EnsureDecides
  <1>5. i.skipped = FALSE /\ i.cp \in 0..MaxTip /\ i.seen \in 0..MaxTip /\ i.cp <= service
    BY <1>3, <1>4 DEF Sound, Operation
  <1>6. MaxLag \in Nat /\ MaxTip \in Nat
    BY StateAssumption
  <1>7. ASSUME NEW o \in Operation, Step(p, o), o.at \in {"ask_tip", "decide", "refresh", "done"},
               o.asked = i.asked, o.fetched = i.fetched, o.error = i.error, o.cp <= service,
               o.skipped => o.at = "done" /\ (o.cp > 0 /\ o.seen > 0 => o.seen <= o.cp + MaxLag)
        PROVE  \E r : Follows(p, r)
    <2>1. Sound(o, service')
      BY <1>1, <1>3, <1>7 DEF Sound
    <2> QED BY <1>2, <1>7, <2>1 DEF Follows
  <1>8. CASE EnsureManagedAsks(p)
    <2>1. PICK cp \in {0, service}, t \in {0} \cup service..tip :
            Step(p, [i EXCEPT !.cp = cp, !.seen = t,
                              !.at = IF cp > 0 /\ t = 0 THEN "ask_tip" ELSE "decide"])
      BY <1>2, <1>8 DEF EnsureManagedAsks
    <2>2. PICK a \in {"ask_tip", "decide"} : a = IF cp > 0 /\ t = 0 THEN "ask_tip" ELSE "decide"
      OBVIOUS
    <2>3. PICK o : o = [i EXCEPT !.cp = cp, !.seen = t, !.at = a]
      OBVIOUS
    <2>4. cp \in 0..MaxTip /\ t \in 0..MaxTip /\ cp <= service
      BY <1>1, <1>6
    <2>5. o \in Operation
      BY <1>3, <2>3, <2>4 DEF Operation
    <2>6. /\ o.at = a /\ o.cp = cp /\ o.skipped = i.skipped
          /\ o.asked = i.asked /\ o.fetched = i.fetched /\ o.error = i.error
      BY <1>3, <2>3 DEF Operation
    <2>7. Step(p, o)
      BY <2>1, <2>2, <2>3
    <2> QED BY <1>5, <1>7, <2>4, <2>5, <2>6, <2>7
  <1>9. CASE AskTip(p)
    <2>1. PICK t \in {0, tip} : Step(p, [i EXCEPT !.seen = t, !.at = "decide"])
      BY <1>2, <1>9 DEF AskTip
    <2>2. PICK o : o = [i EXCEPT !.seen = t, !.at = "decide"]
      OBVIOUS
    <2>3. t \in 0..MaxTip
      BY <1>1, <1>6
    <2>4. o \in Operation
      BY <1>3, <2>2, <2>3 DEF Operation
    <2>5. /\ o.at = "decide" /\ o.cp = i.cp /\ o.skipped = i.skipped
          /\ o.asked = i.asked /\ o.fetched = i.fetched /\ o.error = i.error
      BY <1>3, <2>2 DEF Operation
    <2>6. Step(p, o)
      BY <2>1, <2>2
    <2> QED BY <1>5, <1>7, <2>4, <2>5, <2>6
  <1>10. CASE EnsureDecides(p)
    <2>1. PICK lag \in IF i.cp > 0 /\ i.seen > 0 THEN {Lag(i)} ELSE 0..MaxTip :
            LET skip == ~i.force /\ (i.cp = 0 \/ lag <= MaxLag)
            IN  IF skip THEN Step(p, [i EXCEPT !.at = "done", !.skipped = TRUE])
                        ELSE Step(p, [i EXCEPT !.at = "refresh", !.cp = 0, !.seen = 0])
      BY <1>2, <1>10 DEF EnsureDecides
    <2>2. CASE /\ i.cp = 0 \/ lag <= MaxLag
               /\ Step(p, [i EXCEPT !.at = "done", !.skipped = TRUE])
      <3>1. PICK o : o = [i EXCEPT !.at = "done", !.skipped = TRUE]
        OBVIOUS
      <3>2. o \in Operation
        BY <1>3, <3>1 DEF Operation
      <3>3. /\ o.at = "done" /\ o.cp = i.cp /\ o.seen = i.seen
            /\ o.asked = i.asked /\ o.fetched = i.fetched /\ o.error = i.error
        BY <1>3, <3>1 DEF Operation
      <3>4. i.cp > 0 /\ i.seen > 0 => i.seen <= i.cp + MaxLag
        BY <1>5, <1>6, <2>1, <2>2 DEF Lag
      <3>5. Step(p, o)
        BY <2>2, <3>1
      <3> QED BY <1>5, <1>7, <3>2, <3>3, <3>4, <3>5
    <2>3. CASE Step(p, [i EXCEPT !.at = "refresh", !.cp = 0, !.seen = 0])
      <3>1. PICK o : o = [i EXCEPT !.at = "refresh", !.cp = 0, !.seen = 0]
        OBVIOUS
      <3>2. o \in Operation
        <4>1. PICK z \in 0..MaxTip : z = 0
          BY <1>6
        <4>2. o = [i EXCEPT !.at = "refresh", !.cp = z, !.seen = z]
          BY <3>1, <4>1
        <4> QED BY <1>3, <4>2 DEF Operation
      <3>3. /\ o.at = "refresh" /\ o.cp = 0 /\ o.skipped = i.skipped
            /\ o.asked = i.asked /\ o.fetched = i.fetched /\ o.error = i.error
        BY <1>3, <3>1 DEF Operation
      <3>4. Step(p, o)
        BY <2>3, <3>1
      <3> QED BY <1>1, <1>5, <1>7, <3>2, <3>3, <3>4
    <2> QED BY <2>1, <2>2, <2>3
  <1> QED BY <1>8, <1>9, <1>10

(* A build from the caches or after fetching the history, and refresh() of *)
(* a local backend.                                                        *)
LEMMA BuildAndRefreshFollow ==
    ASSUME StateInv, NEW p \in Procs, FfiBuild(p) \/ RefreshLocal(p)
    PROVE  \E o : Follows(p, o)
  <1>1. service' = service /\ service \in Nat
    BY ServiceHeight DEF FfiBuild, RefreshLocal
  <1>2. PICK i : i = Idle
    OBVIOUS
  <1>3. /\ i \in Operation /\ i.cp = 0 /\ i.error = "none"
        /\ i.fetched = FALSE /\ i.skipped = FALSE
    BY <1>2, IdleOperation
  <1>4. PICK c : c = op[p]
    OBVIOUS
  <1>5. c \in Operation /\ Sound(c, service)
    BY <1>4 DEF StateInv, BackendTypeOK
  <1>6. CASE FfiBuild(p)
    <2>1. PICK b \in BOOLEAN : b = (~c.src.cached /\ ~c.src.files /\ c.src.bounds = "none")
      OBVIOUS
    <2>2. Step(p, [i EXCEPT !.kind = "build", !.at = "done", !.asked = c.asked, !.fetched = b])
      BY <1>2, <1>4, <1>6, <2>1 DEF FfiBuild
    <2>3. PICK o : o = [i EXCEPT !.kind = "build", !.at = "done", !.asked = c.asked, !.fetched = b]
      OBVIOUS
    <2>4. c.asked \in Modes
      BY <1>5 DEF Operation
    <2>5. o \in Operation
      BY <1>3, <2>3, <2>4 DEF Operation
    <2>6. /\ o.at = "done" /\ o.cp = 0 /\ o.skipped = FALSE /\ o.error = "none"
          /\ o.asked = c.asked /\ o.fetched = b
      BY <1>3, <2>3 DEF Operation
    <2>7. c.at = "build"
      BY <1>4, <1>6 DEF FfiBuild
    <2>8. b => c.asked = "ColdSync"
      BY <1>5, <2>1, <2>7 DEF Sound
    <2>9. Sound(o, service')
      BY <1>1, <2>5, <2>6, <2>8 DEF Sound
    <2> QED BY <2>2, <2>3, <2>6, <2>9 DEF Follows
  <1>7. CASE RefreshLocal(p)
    <2>1. c.kind \in Kinds /\ c.src \in SourceConfig
      BY <1>5 DEF Operation, Kinds
    <2>2. \/ Step(p, [Idle EXCEPT !.kind = c.kind, !.at = "done", !.skipped = TRUE])
          \/ BackendFail(p, "not_ready")
          \/ Step(p, [i EXCEPT !.kind = c.kind, !.at = "fetch",
                     !.src = IF c.src.mode \in {"Auto", "LocalCache"}
                               THEN [c.src EXCEPT !.mode = "ColdSync", !.cached = FALSE] ELSE c.src])
      BY <1>2, <1>4, <1>7 DEF RefreshLocal
    <2>3. CASE Step(p, [Idle EXCEPT !.kind = c.kind, !.at = "done", !.skipped = TRUE])
      BY <1>1, <2>1, <2>3, SkippedFollows
    <2>4. CASE BackendFail(p, "not_ready")
      BY <1>1, <2>4, FailFollows DEF BackendErrors
    <2>5. CASE Step(p, [i EXCEPT !.kind = c.kind, !.at = "fetch",
                     !.src = IF c.src.mode \in {"Auto", "LocalCache"}
                               THEN [c.src EXCEPT !.mode = "ColdSync", !.cached = FALSE] ELSE c.src])
      <3>1. [c.src EXCEPT !.mode = "ColdSync", !.cached = FALSE] \in SourceConfig
        BY <2>1 DEF SourceConfig, Modes
      <3>2. PICK s \in SourceConfig :
              s = IF c.src.mode \in {"Auto", "LocalCache"}
                    THEN [c.src EXCEPT !.mode = "ColdSync", !.cached = FALSE] ELSE c.src
        BY <2>1, <3>1
      <3>3. PICK o : o = [i EXCEPT !.kind = c.kind, !.at = "fetch", !.src = s]
        OBVIOUS
      <3>4. o \in Operation
        BY <1>3, <2>1, <3>3 DEF Operation, Kinds
      <3>5. /\ o.at = "fetch" /\ o.cp = 0 /\ o.skipped = FALSE /\ o.fetched = FALSE
            /\ o.error = "none"
        BY <1>3, <3>3 DEF Operation
      <3>6. Step(p, o)
        BY <2>5, <3>2, <3>3
      <3> QED BY <1>1, <3>4, <3>5, <3>6, FreshFollows
    <2> QED BY <2>2, <2>3, <2>4, <2>5
  <1> QED BY <1>6, <1>7

(* Every step of a process. *)
LEMMA ProcessFollows ==
    ASSUME StateInv, NEW p \in Procs, ProcNext(p)
    PROVE  /\ \E o : Follows(p, o)
           /\ service' \in Nat /\ service <= service' /\ service' <= tip
           /\ tip' = tip /\ backend' = backend
  <1>1. service \in Nat /\ tip \in 1..MaxTip /\ service <= tip /\ MaxTip \in Nat
    BY ServiceHeight, StateAssumption
  <1>2. /\ service' \in Nat /\ service <= service' /\ service' <= tip
        /\ tip' = tip /\ backend' = backend
    <2>1. CASE RefreshManaged(p)
      BY <1>1, <2>1 DEF RefreshManaged
    <2>2. CASE ~RefreshManaged(p)
      <3>1. service' = service /\ tip' = tip /\ backend' = backend
        BY <2>2 DEF ProcNext, StartBuild, FfiBuild, FfiBuildFails, StartSync, StartRefresh,
              EnsureLocal, EnsureManagedAsks, EnsureManagedUnready, AskTip, EnsureDecides,
              RefreshLocal, SyncFetches, SyncApplies, StartSnapshot, ExportFetch, ExportState,
              ImportFetch, ImportState, CopyFails, BackendReturn, BackendCrash
      <3> QED BY <1>1, <3>1
    <2> QED BY <2>1, <2>2
  <1>3. CASE StartBuild(p)
    BY <1>2, <1>3, StartBuildFollows
  <1>4. CASE StartSync(p) \/ StartRefresh(p) \/ StartSnapshot(p)
    BY <1>2, <1>4, StartsFollow
  <1>5. CASE EnsureManagedAsks(p) \/ AskTip(p) \/ EnsureDecides(p)
    BY <1>2, <1>5, EnsureFollows
  <1>6. CASE FfiBuild(p) \/ RefreshLocal(p)
    BY <1>2, <1>6, BuildAndRefreshFollow
  <1>7. CASE FfiBuildFails(p) \/ RefreshManaged(p) \/ ExportState(p) \/ ImportState(p) \/ CopyFails(p)
    <2>1. \E e \in BackendErrors : BackendFail(p, e)
      BY <1>7 DEF FfiBuildFails, RefreshManaged, ExportState, ImportState, CopyFails, BackendSucceed, BackendErrors
    <2> QED BY <1>2, <2>1, FailFollows
  <1>8. CASE SyncFetches(p) \/ SyncApplies(p)
    <2>1. (\E e \in BackendErrors : BackendFail(p, e)) \/ GoTo(p, "apply")
      BY <1>8 DEF SyncFetches, SyncApplies, BackendSucceed, BackendErrors
    <2>2. op[p].at # "done" /\ UNCHANGED service
      BY <1>8 DEF SyncFetches, SyncApplies
    <2> QED BY <1>2, <2>1, <2>2, FailFollows, GoToFollows
  <1>9. CASE ExportFetch(p) \/ ImportFetch(p)
    <2>1. GoTo(p, "copy_state") /\ op[p].at # "done" /\ UNCHANGED service
      BY <1>9 DEF ExportFetch, ImportFetch
    <2> QED BY <1>2, <1>9, <2>1, GoToFollows
  <1>10. CASE EnsureManagedUnready(p)
    BY <1>2, <1>10, GoToFollows DEF EnsureManagedUnready
  <1>11. CASE EnsureLocal(p)
    <2>1. \/ Step(p, [Idle EXCEPT !.kind = "ensure", !.at = "done", !.skipped = TRUE])
          \/ GoTo(p, "refresh")
      BY <1>11 DEF EnsureLocal
    <2>2. op[p].at # "done" /\ UNCHANGED service /\ "ensure" \in Kinds
      BY <1>11 DEF EnsureLocal, Kinds
    <2> QED BY <1>2, <2>1, <2>2, SkippedFollows, GoToFollows
  <1>12. CASE BackendReturn(p) \/ BackendCrash(p)
    <2>1. Step(p, Idle)
      BY <1>12 DEF BackendReturn, BackendCrash
    <2>2. Sound(Idle, service')
      BY <1>2, FinishedSound DEF Kinds, BackendErrors
    <2>3. Idle.error = "none" /\ Idle.at = "idle"
      BY IdleOperation
    <2> QED BY <1>2, <2>1, <2>2, <2>3 DEF Follows
  <1> QED BY <1>2, <1>3, <1>4, <1>5, <1>6, <1>7, <1>8, <1>9, <1>10, <1>11, <1>12 DEF ProcNext
-----------------------------------------------------------------------------
(* The caches and the snapshot. *)

(* No process, or none but p, is between two copies. *)
NoCopy == \A q \in Procs : ~Copying(q)
Alone(p) == \A q \in Procs \ {p} : ~Copying(q)

(* A step of p changes no other process, and p is between two copies only  *)
(* after the first of them.                                                *)
LEMMA OthersStay ==
    ASSUME StateInv, NEW p \in Procs, NEW o, Follows(p, o)
    PROVE  /\ op' \in [Procs -> Operation] /\ op'[p] = o
           /\ \A q \in Procs \ {p} : op'[q] = op[q] /\ (Copying(q)' <=> Copying(q))
           /\ Alone(p)' <=> Alone(p)
           /\ Copying(p)' => ExportFetch(p) \/ ImportFetch(p)
  <1>1. op \in [Procs -> Operation] /\ o \in Operation /\ op' = [op EXCEPT ![p] = o]
    BY DEF StateInv, BackendTypeOK, Follows, Sound, Step
  <1>2. op' \in [Procs -> Operation] /\ op'[p] = o /\ \A q \in Procs \ {p} : op'[q] = op[q]
    BY <1>1
  <1>3. \A q \in Procs \ {p} : Copying(q)' <=> Copying(q)
    BY <1>2 DEF Copying
  <1>4. Copying(p)' => o.at = "copy_state"
    BY <1>2 DEF Copying
  <1> QED BY <1>2, <1>3, <1>4 DEF Follows, Alone

(* The heights, with the records of op left out. *)
Heights ==
    /\ tip \in 1..MaxTip /\ fetch \in 0..tip /\ state \in 0..tip
    /\ snap \in [fetch : 0..tip, state : 0..tip]
    /\ vouched \in BOOLEAN /\ torn \in BOOLEAN
    /\ vouched => state > 0

(* What a state in which nobody copies must satisfy. *)
Settled ==
    ~torn => /\ snap.fetch <= fetch /\ snap.state <= fetch
             /\ state <= fetch /\ snap.state <= snap.fetch

LEMMA SettledAlone ==
    ASSUME CopyInv, NoCopy
    PROVE  Settled
  BY DEF CopyInv, NoCopy, Settled

(* The steps that leave the caches and the snapshot alone. *)
LEMMA QuietCopies ==
    ASSUME StateInv, NEW p \in Procs, NEW o, Follows(p, o),
           UNCHANGED cacheVars, torn' \/ torn' = torn, ~Copying(p), ~Copying(p)'
    PROVE  CopyInv'
  <1>1. /\ \A q \in Procs \ {p} : op'[q] = op[q] /\ (Copying(q)' <=> Copying(q))
    BY OthersStay
  <1>2. \A q \in Procs : Copying(q)' => Copying(q) /\ op'[q] = op[q]
    BY <1>1
  <1>3. \A q \in Procs : Copying(q) => Copying(q)' /\ op'[q] = op[q]
    BY <1>1
  <1>4. CopyInv
    BY DEF StateInv
  <1> QED BY <1>2, <1>3, <1>4 DEF CopyInv, cacheVars

(* The steps after which nobody copies. *)
LEMMA SettledCopies ==
    ASSUME NoCopy', Settled'
    PROVE  CopyInv'
  BY DEF NoCopy, Settled, CopyInv

(* A build or a sync writes the caches: nobody else may be between two     *)
(* copies, or the copy is torn.                                            *)
LEMMA WritesSettle ==
    ASSUME StateInv, NEW p \in Procs, NEW o, Follows(p, o), tip' = tip,
           FfiBuild(p) \/ SyncFetches(p) \/ SyncApplies(p)
    PROVE  CopyInv' /\ Heights'
  <1>1. ~Copying(p)
    BY DEF FfiBuild, SyncFetches, SyncApplies, Copying
  <1>2. ~(ExportFetch(p) \/ ImportFetch(p))
    BY DEF FfiBuild, SyncFetches, SyncApplies, ExportFetch, ImportFetch
  <1>3. ~Copying(p)' /\ (Alone(p)' <=> Alone(p))
    BY <1>2, OthersStay
  <1>4. /\ tip \in Nat /\ tip > 0 /\ fetch \in 0..tip /\ state \in 0..tip
        /\ snap \in [fetch : 0..tip, state : 0..tip]
        /\ vouched \in BOOLEAN /\ torn \in BOOLEAN /\ (vouched => state > 0)
        /\ tip \in 1..MaxTip
    BY StateAssumption DEF StateInv, BackendTypeOK
  <1>5. /\ snap' = snap /\ vouched' = vouched
        /\ \/ fetch' = fetch /\ state' = state /\ torn' = torn
           \/ /\ torn' = (torn \/ Disturbs(p))
              /\ fetch' \in fetch..tip
              /\ state' \in {state, tip} /\ (state' = tip => fetch' = tip \/ state = tip)
           \/ /\ torn' = (torn \/ Disturbs(p))
              /\ fetch' = fetch /\ (state' = state \/ (state' = fetch /\ fetch > state))
    <2>1. CASE FfiBuild(p)
      BY <1>4, <2>1 DEF FfiBuild
    <2>2. CASE SyncFetches(p)
      BY <1>4, <2>2 DEF SyncFetches
    <2>3. CASE SyncApplies(p)
      BY <1>4, <2>3 DEF SyncApplies
    <2> QED BY <2>1, <2>2, <2>3
  <1>6. Heights'
    <2>1. torn' \in BOOLEAN
      BY <1>4, <1>5 DEF Disturbs
    <2>2. /\ fetch' \in 0..tip /\ state' \in 0..tip
          /\ state > 0 => state' > 0
      BY <1>4, <1>5
    <2> QED BY <1>4, <1>5, <2>1, <2>2 DEF Heights
  <1>7. CASE fetch' = fetch /\ state' = state /\ torn' = torn
    BY <1>1, <1>3, <1>5, <1>6, <1>7, QuietCopies DEF cacheVars
  <1>8. CASE torn' = (torn \/ Disturbs(p))
    <2>1. CASE torn'
      BY <1>6, <2>1 DEF CopyInv
    <2>2. CASE ~torn'
      <3>1. NoCopy /\ NoCopy' /\ ~torn
        BY <1>1, <1>3, <1>8, <2>2 DEF Disturbs, NoCopy, Alone
      <3>2. /\ snap.fetch <= fetch /\ snap.state <= fetch
            /\ state <= fetch /\ snap.state <= snap.fetch
        BY <3>1, SettledAlone DEF StateInv, Settled
      <3>3. fetch' >= fetch /\ state' <= fetch'
        BY <1>4, <1>5, <3>2
      <3>4. PICK sf \in Nat, ss \in Nat : sf = snap.fetch /\ ss = snap.state
        BY <1>4
      <3>5. snap'.fetch = sf /\ snap'.state = ss
        BY <1>5, <3>4
      <3>6. sf <= fetch' /\ ss <= fetch' /\ ss <= sf
        BY <1>4, <1>5, <1>6, <3>2, <3>3, <3>4 DEF Heights
      <3>7. Settled'
        BY <3>3, <3>5, <3>6 DEF Settled
      <3> QED BY <1>6, <3>1, <3>7, SettledCopies
    <2> QED BY <2>1, <2>2
  <1> QED BY <1>5, <1>7, <1>8

(* export_snapshot() and import_snapshot(): the first copy starts from a   *)
(* settled state, the second ends in one.                                  *)
LEMMA CopiesSettle ==
    ASSUME StateInv, NEW p \in Procs, NEW o, Follows(p, o), tip' = tip,
           ExportFetch(p) \/ ExportState(p) \/ ImportFetch(p) \/ ImportState(p)
    PROVE  CopyInv' /\ Heights'
  <1>1. PICK sf \in 0..tip, ss \in 0..tip : sf = snap.fetch /\ ss = snap.state
    BY DEF StateInv, BackendTypeOK
  <1>2. /\ tip \in Nat /\ tip > 0 /\ fetch \in 0..tip /\ state \in 0..tip
        /\ snap \in [fetch : 0..tip, state : 0..tip]
        /\ vouched \in BOOLEAN /\ torn \in BOOLEAN /\ (vouched => state > 0)
        /\ tip \in 1..MaxTip
    BY StateAssumption DEF StateInv, BackendTypeOK
  <1>3. /\ \A q \in Procs \ {p} : op'[q] = op[q] /\ (Copying(q)' <=> Copying(q))
        /\ Alone(p)' <=> Alone(p)
    BY OthersStay
  <1>4. ~torn' => ~torn /\ Alone(p)
    BY DEF ExportFetch, ExportState, ImportFetch, ImportState, Disturbs, Alone
  <1>5. op[p] \in Operation /\ op' = [op EXCEPT ![p] = o] /\ op'[p] = o
    BY OthersStay DEF StateInv, BackendTypeOK, Follows, Step
  <1>6. CASE ExportFetch(p)
    <2>1. /\ fetch' = fetch /\ state' = state /\ vouched' = vouched
          /\ torn' = (torn \/ Disturbs(p))
          /\ snap' = [snap EXCEPT !.fetch = CopyPath(fetch, sf)]
      BY <1>1, <1>6 DEF ExportFetch
    <2>2. CopyPath(fetch, sf) \in 0..tip
      BY <1>2 DEF CopyPath
    <2>3. /\ snap' \in [fetch : 0..tip, state : 0..tip]
          /\ snap'.fetch = CopyPath(fetch, sf) /\ snap'.state = ss
      BY <1>1, <1>2, <2>1, <2>2
    <2>4. Heights'
      BY <1>2, <2>1, <2>3 DEF Heights, Disturbs
    <2>5. ASSUME ~torn' PROVE CopyInv'
      <3>1. NoCopy
        BY <1>4, <1>6, <2>5 DEF ExportFetch, NoCopy, Alone, Copying
      <3>2. sf <= fetch /\ ss <= fetch /\ state <= fetch /\ ss <= sf
        BY <1>1, <1>4, <2>5, <3>1, SettledAlone DEF StateInv, Settled
      <3>3. snap'.fetch = fetch
        BY <1>2, <2>3, <3>2 DEF CopyPath
      <3>4. o.at = "copy_state" /\ o.kind = "export"
        <4>1. PICK c \in Operation : c = op[p]
          BY <1>5
        <4>2. op' = [op EXCEPT ![p] = [c EXCEPT !.at = "copy_state"]] /\ c.kind = "export"
          BY <1>6, <4>1 DEF ExportFetch, GoTo, Step
        <4>3. o = [c EXCEPT !.at = "copy_state"]
          BY <1>5, <4>2 DEF StateInv, BackendTypeOK
        <4> QED BY <4>2, <4>3 DEF Operation
      <3>5. /\ Copying(p)' /\ op'[p].kind = "export"
            /\ \A q \in Procs : Copying(q)' => q = p
        BY <1>3, <1>5, <3>1, <3>4 DEF Copying, NoCopy
      <3>6. fetch' = fetch /\ state' = state /\ snap'.fetch = fetch' /\ snap'.state <= fetch'
            /\ state' <= fetch' /\ snap'.fetch <= fetch'
        BY <1>2, <2>1, <2>3, <3>2, <3>3
      <3> QED BY <3>5, <3>6 DEF CopyInv
    <2> QED BY <2>4, <2>5 DEF CopyInv
  <1>7. CASE ImportFetch(p)
    <2>1. /\ snap' = snap /\ state' = state /\ vouched' = vouched
          /\ torn' = (torn \/ Disturbs(p) \/ (sf = 0) # (ss = 0))
          /\ fetch' = CopyPath(sf, fetch)
      BY <1>1, <1>7 DEF ImportFetch
    <2>2. fetch' \in 0..tip
      BY <1>2, <2>1 DEF CopyPath
    <2>3. torn' \in BOOLEAN
      BY <1>2, <2>1 DEF Disturbs
    <2>4. Heights'
      BY <1>2, <2>1, <2>2, <2>3 DEF Heights
    <2>5. ASSUME ~torn' PROVE CopyInv'
      <3>1. NoCopy
        BY <1>4, <1>7, <2>5 DEF ImportFetch, NoCopy, Alone, Copying
      <3>2. sf <= fetch /\ ss <= fetch /\ state <= fetch /\ ss <= sf
        BY <1>1, <1>4, <2>5, <3>1, SettledAlone DEF StateInv, Settled
      <3>3. (sf = 0) <=> (ss = 0)
        BY <2>1, <2>5
      <3>4. o.at = "copy_state" /\ o.kind = "import"
        <4>1. PICK c \in Operation : c = op[p]
          BY <1>5
        <4>2. op' = [op EXCEPT ![p] = [c EXCEPT !.at = "copy_state"]] /\ c.kind = "import"
          BY <1>7, <4>1 DEF ImportFetch, GoTo, Step
        <4>3. o = [c EXCEPT !.at = "copy_state"]
          BY <1>5, <4>2 DEF StateInv, BackendTypeOK
        <4> QED BY <4>2, <4>3 DEF Operation
      <3>5. /\ Copying(p)' /\ op'[p].kind = "import"
            /\ \A q \in Procs : Copying(q)' => q = p
        BY <1>3, <1>5, <3>1, <3>4 DEF Copying, NoCopy
      <3>6. /\ sf <= fetch' /\ ss <= fetch'
            /\ IF sf > 0 THEN fetch' = sf ELSE state' <= fetch'
        BY <1>2, <2>1, <3>2 DEF CopyPath
      <3>7. snap'.fetch = sf /\ snap'.state = ss
        BY <1>1, <2>1
      <3> QED BY <3>2, <3>3, <3>5, <3>6, <3>7 DEF CopyInv
    <2> QED BY <2>4, <2>5 DEF CopyInv
  <1>8. CASE ExportState(p) \/ ImportState(p)
    <2>1. Copying(p)
      BY <1>8 DEF ExportState, ImportState, Copying
    <2>2. ~Copying(p)'
      <3>1. ~(ExportFetch(p) \/ ImportFetch(p))
        BY <1>8 DEF ExportState, ImportState, ExportFetch, ImportFetch
      <3> QED BY <3>1, OthersStay
    <2>3. ~torn' => NoCopy'
      BY <1>3, <1>4, <2>2 DEF NoCopy, Alone
    <2>4. CASE ExportState(p)
      <3>1. /\ fetch' = fetch /\ state' = state /\ vouched' = vouched
            /\ torn' = (torn \/ Disturbs(p))
            /\ snap' = [snap EXCEPT !.state = CopyPath(state, ss)]
        BY <1>1, <2>4 DEF ExportState
      <3>2. CopyPath(state, ss) \in 0..tip
        BY <1>2 DEF CopyPath
      <3>3. /\ snap' \in [fetch : 0..tip, state : 0..tip]
            /\ snap'.state = CopyPath(state, ss) /\ snap'.fetch = sf
        BY <1>1, <1>2, <3>1, <3>2
      <3>4. Heights'
        BY <1>2, <3>1, <3>3 DEF Heights, Disturbs
      <3>5. ASSUME ~torn' PROVE Settled'
        <4>1. sf <= fetch /\ ss <= fetch /\ state <= fetch /\ sf = fetch
          BY <1>1, <1>4, <2>1, <2>4, <3>5 DEF StateInv, CopyInv, ExportState
        <4>2. CopyPath(state, ss) <= fetch
          BY <1>2, <4>1 DEF CopyPath
        <4> QED BY <3>1, <3>3, <4>1, <4>2 DEF Settled
      <3> QED BY <2>3, <3>4, <3>5, SettledCopies DEF CopyInv
    <2>5. CASE ImportState(p)
      <3>1. /\ fetch' = fetch /\ snap' = snap /\ vouched' = vouched
            /\ torn' = (torn \/ Disturbs(p))
            /\ state' = CopyPath(ss, state)
        BY <1>1, <2>5 DEF ImportState
      <3>2. state' \in 0..tip /\ (state > 0 => state' > 0)
        BY <1>2, <3>1 DEF CopyPath
      <3>3. torn' \in BOOLEAN
        BY <1>2, <3>1 DEF Disturbs
      <3>4. Heights'
        BY <1>2, <3>1, <3>2, <3>3 DEF Heights
      <3>5. ASSUME ~torn' PROVE Settled'
        <4>1. /\ sf <= fetch /\ ss <= fetch /\ ss <= sf
              /\ (sf = 0) <=> (ss = 0)
              /\ IF sf > 0 THEN fetch = sf ELSE state <= fetch
          BY <1>1, <1>4, <2>1, <2>5, <3>5 DEF StateInv, CopyInv, ImportState
        <4>2. state' <= fetch'
          BY <1>2, <3>1, <4>1 DEF CopyPath
        <4> QED BY <1>1, <3>1, <4>1, <4>2 DEF Settled
      <3> QED BY <2>3, <3>4, <3>5, SettledCopies DEF CopyInv
    <2> QED BY <1>8, <2>4, <2>5
  <1> QED BY <1>6, <1>7, <1>8

(* A copy that ends in the middle: it is torn, unless it was the first and *)
(* nothing was written yet.                                                *)
LEMMA CutShortSettles ==
    ASSUME StateInv, NEW p \in Procs, NEW o, Follows(p, o), tip' = tip,
           CopyFails(p) \/ BackendCrash(p)
    PROVE  CopyInv' /\ Heights'
  <1>1. /\ tip \in Nat /\ tip \in 1..MaxTip /\ fetch \in 0..tip /\ state \in 0..tip
        /\ snap \in [fetch : 0..tip, state : 0..tip]
        /\ vouched \in BOOLEAN /\ torn \in BOOLEAN /\ (vouched => state > 0)
    BY StateAssumption DEF StateInv, BackendTypeOK
  <1>2. ~Copying(p)'
    <2>1. ~(ExportFetch(p) \/ ImportFetch(p))
      <3>1. CASE CopyFails(p)
        <4>1. op'[p].error = "artifact"
          BY <3>1, OthersStay, IdleOperation DEF CopyFails, BackendFail, Step, StateInv, BackendTypeOK, Operation
        <4>2. CASE ExportFetch(p) \/ ImportFetch(p)
          <5>1. op'[p].at = "copy_state"
            BY <4>2 DEF ExportFetch, ImportFetch, GoTo, Step, StateInv, BackendTypeOK, Operation
          <5>2. op'[p].at = "done"
            BY <3>1, IdleOperation DEF CopyFails, BackendFail, Step, StateInv, BackendTypeOK, Operation
          <5> QED BY <5>1, <5>2
        <4> QED BY <4>2
      <3>2. CASE BackendCrash(p)
        <4>1. op'[p].at = "idle"
          BY <3>2, IdleOperation DEF BackendCrash, Step, StateInv, BackendTypeOK
        <4>2. CASE ExportFetch(p) \/ ImportFetch(p)
          <5>1. op'[p].at = "copy_state"
            BY <4>2 DEF ExportFetch, ImportFetch, GoTo, Step, StateInv, BackendTypeOK, Operation
          <5> QED BY <4>1, <5>1
        <4> QED BY <4>2
      <3> QED BY <3>1, <3>2
    <2> QED BY <2>1, OthersStay
  <1>3. \/ UNCHANGED <<fetch, state, snap, vouched>> /\ torn' = (torn \/ Copying(p))
        \/ torn' = TRUE /\ Heights'
    <2>1. CASE CutShort(p)
      <3>1. CASE UNCHANGED <<cacheVars, vouched>> /\ torn' = (torn \/ Copying(p))
        BY <3>1 DEF cacheVars
      <3>2. ASSUME NEW b \in BOOLEAN, torn' = TRUE, UNCHANGED <<fetch, state, vouched>>,
                   snap' = IF b THEN [snap EXCEPT !.fetch = 0] ELSE [snap EXCEPT !.state = 0]
            PROVE  Heights'
        <4>1. snap' \in [fetch : 0..tip, state : 0..tip]
          BY <1>1, <3>2
        <4> QED BY <1>1, <3>2, <4>1 DEF Heights
      <3>3. CASE fetch' = 0 /\ torn' = TRUE /\ UNCHANGED <<state, snap, vouched>>
        <4>1. fetch' \in 0..tip
          BY <1>1, <3>3
        <4> QED BY <1>1, <3>3, <4>1 DEF Heights
      <3>4. CASE state' = 0 /\ vouched' = FALSE /\ torn' = TRUE /\ UNCHANGED <<fetch, snap>>
        <4>1. state' \in 0..tip
          BY <1>1, <3>4
        <4>2. torn' \in BOOLEAN /\ vouched' \in BOOLEAN /\ ~vouched'
          BY <3>4, Zenon
        <4> QED BY <1>1, <3>4, <4>1, <4>2 DEF Heights
      <3> QED BY <2>1, <3>1, <3>2, <3>3, <3>4 DEF CutShort
    <2>2. CASE ~CutShort(p)
      BY <1>1, <2>2 DEF CopyFails, BackendCrash, cacheVars, Copying
    <2> QED BY <2>1, <2>2
  <1>4. CASE UNCHANGED <<fetch, state, snap, vouched>> /\ torn' = (torn \/ Copying(p))
    <2>1. torn' \in BOOLEAN
      BY <1>1, <1>4 DEF Copying
    <2>2. Heights'
      BY <1>1, <1>4, <2>1 DEF Heights
    <2>3. CASE Copying(p)
      BY <1>4, <2>2, <2>3 DEF CopyInv
    <2>4. CASE ~Copying(p)
      <3>1. torn' = torn
        BY <1>1, <1>4, <2>4
      <3> QED BY <1>2, <1>4, <2>2, <2>4, <3>1, QuietCopies DEF cacheVars
    <2> QED BY <2>3, <2>4
  <1> QED BY <1>3, <1>4 DEF CopyInv

(* The other steps of a process. *)
LEMMA OthersSettle ==
    ASSUME StateInv, NEW p \in Procs, NEW o, Follows(p, o), tip' = tip, ProcNext(p),
           ~(FfiBuild(p) \/ SyncFetches(p) \/ SyncApplies(p)),
           ~(ExportFetch(p) \/ ExportState(p) \/ ImportFetch(p) \/ ImportState(p)),
           ~(CopyFails(p) \/ BackendCrash(p))
    PROVE  CopyInv' /\ Heights'
  <1>1. /\ tip \in 1..MaxTip /\ fetch \in 0..tip /\ state \in 0..tip
        /\ snap \in [fetch : 0..tip, state : 0..tip]
        /\ vouched \in BOOLEAN /\ torn \in BOOLEAN /\ (vouched => state > 0)
    BY DEF StateInv, BackendTypeOK
  <1>2. ~Copying(p)'
    BY OthersStay
  <1>3. ~Copying(p) /\ UNCHANGED <<cacheVars, torn>>
    BY DEF ProcNext, StartBuild, FfiBuildFails, StartSync, StartRefresh, EnsureLocal,
           EnsureManagedAsks, EnsureManagedUnready, AskTip, EnsureDecides, RefreshLocal,
           RefreshManaged, StartSnapshot, BackendReturn, Copying
  <1>4. vouched' = vouched \/ vouched' = (vouched \/ Ready(op[p].src))
    BY DEF ProcNext, StartBuild, FfiBuildFails, StartSync, StartRefresh, EnsureLocal,
           EnsureManagedAsks, EnsureManagedUnready, AskTip, EnsureDecides, RefreshLocal,
           RefreshManaged, StartSnapshot, BackendReturn
  <1>5. vouched' \in BOOLEAN
    BY <1>1, <1>4 DEF Ready
  <1>6. vouched' => state > 0
    BY <1>1, <1>4 DEF Ready
  <1>7. Heights'
    BY <1>1, <1>3, <1>5, <1>6 DEF Heights, cacheVars
  <1> QED BY <1>2, <1>3, <1>7, QuietCopies
-----------------------------------------------------------------------------
LEMMA StateInit == BackendInit => StateInv
  <1> SUFFICES ASSUME BackendInit PROVE StateInv
    OBVIOUS
  <1>1. \A p \in Procs : op[p] = Idle
    BY DEF BackendInit
  <1>2. service \in Nat /\ service \in 0..tip /\ tip \in 1..MaxTip /\ tip = 1
    BY StateAssumption DEF BackendInit
  <1>3. \A p \in Procs : Sound(op[p], service)
    BY <1>1, <1>2, FinishedSound DEF Kinds, BackendErrors
  <1>4. op \in [Procs -> Operation]
    BY IdleOperation DEF BackendInit
  <1>5. BackendTypeOK /\ ~vouched
    <2>1. /\ fetch \in 0..tip /\ state \in 0..tip
          /\ snap \in [fetch : 0..tip, state : 0..tip]
      BY <1>2 DEF BackendInit
    <2>2. vouched \in BOOLEAN /\ torn \in BOOLEAN /\ ~vouched
      BY Zenon DEF BackendInit
    <2> QED BY <1>2, <1>4, <2>1, <2>2 DEF BackendTypeOK, BackendInit
  <1>6. \A p \in Procs : ~Copying(p)
    BY <1>1, IdleOperation DEF Copying
  <1>7. CopyInv
    BY <1>6 DEF BackendInit, CopyInv
  <1> QED BY <1>3, <1>5, <1>7 DEF StateInv

(* What no step does: refuse a build for a missing cache while the DB is   *)
(* vouched for.                                                            *)
BuildableStep ==
    \A p \in Procs : (op'[p].error = "no_cache" /\ op[p].error # "no_cache") => ~vouched

LEMMA StateStep == StateInv /\ [BackendNext]_backendVars => StateInv' /\ BuildableStep
  <1> SUFFICES ASSUME StateInv, [BackendNext]_backendVars PROVE StateInv' /\ BuildableStep
    OBVIOUS
  <1>1. /\ tip \in Nat /\ tip \in 1..MaxTip /\ fetch \in 0..tip /\ state \in 0..tip
        /\ snap \in [fetch : 0..tip, state : 0..tip] /\ service \in 0..tip /\ service \in Nat
        /\ vouched \in BOOLEAN /\ torn \in BOOLEAN /\ (vouched => state > 0)
        /\ backend \in {"local", "managed"} /\ op \in [Procs -> Operation]
    BY StateAssumption DEF StateInv, BackendTypeOK
  <1>2. ASSUME NEW p \in Procs, ProcNext(p) PROVE StateInv' /\ BuildableStep
    <2>1. PICK o : Follows(p, o)
      BY <1>2, ProcessFollows
    <2>2. /\ service' \in Nat /\ service <= service' /\ service' <= tip
          /\ tip' = tip /\ backend' = backend
      BY <1>2, ProcessFollows
    <2>3. CopyInv' /\ Heights'
      BY <1>2, <2>1, <2>2, WritesSettle, CopiesSettle, CutShortSettles, OthersSettle
    <2>4. op' \in [Procs -> Operation] /\ op'[p] = o /\ \A q \in Procs \ {p} : op'[q] = op[q]
      BY <2>1, OthersStay
    <2>5. BackendTypeOK'
      BY <1>1, <2>2, <2>3, <2>4 DEF BackendTypeOK, Heights
    <2>6. ASSUME NEW q \in Procs PROVE Sound(op[q], service)'
      <3>1. CASE q = p
        BY <2>1, <2>4, <3>1 DEF Follows
      <3>2. CASE q # p
        <4>1. Sound(op[q], service) /\ op'[q] = op[q] /\ op[q].cp \in 0..MaxTip
          BY <1>1, <2>4, <3>2 DEF StateInv, Operation
        <4>2. op[q].cp <= service'
          BY <1>1, <2>2, <4>1, StateAssumption DEF Sound
        <4> QED BY <4>1, <4>2 DEF Sound
      <3> QED BY <3>1, <3>2
    <2>7. BuildableStep
      BY <2>1, <2>4 DEF Follows, BuildableStep
    <2> QED BY <2>3, <2>5, <2>6, <2>7 DEF StateInv, Heights
  <1>3. ASSUME op' = op, backend' = backend, snap' = snap, fetch' = fetch,
               tip' \in 1..MaxTip, tip <= tip', service' \in 0..tip', service <= service',
               \/ UNCHANGED <<state, vouched, torn>>
               \/ /\ state' = 0 /\ vouched' = FALSE
                  /\ torn' = (torn \/ \E p \in Procs : Copying(p))
        PROVE  StateInv' /\ BuildableStep
    <2>1. /\ state' \in 0..tip' /\ fetch' \in 0..tip' /\ snap' \in [fetch : 0..tip', state : 0..tip']
          /\ state' = state \/ state' = 0
      BY <1>1, <1>3, StateAssumption
    <2>2. vouched' \in BOOLEAN /\ torn' \in BOOLEAN
      BY <1>1, <1>3
    <2>3. BackendTypeOK'
      BY <1>1, <1>3, <2>1, <2>2 DEF BackendTypeOK
    <2>4. vouched' => state' > 0
      BY <1>1, <1>3
    <2>5. ASSUME NEW q \in Procs PROVE Sound(op[q], service)'
      <3>1. Sound(op[q], service) /\ op'[q] = op[q] /\ op[q].cp \in 0..MaxTip
        BY <1>1, <1>3 DEF StateInv, Operation
      <3>2. op[q].cp <= service'
        BY <1>1, <1>3, <3>1, StateAssumption DEF Sound
      <3> QED BY <3>1, <3>2 DEF Sound
    <2>6. CopyInv'
      <3>1. \A q \in Procs : Copying(q)' <=> Copying(q)
        BY <1>3 DEF Copying
      <3>2. CASE UNCHANGED <<state, vouched, torn>>
        BY <1>3, <3>1, <3>2 DEF StateInv, CopyInv
      <3>3. CASE state' = 0 /\ torn' = (torn \/ \E p \in Procs : Copying(p))
        <4>1. CASE torn'
          BY <4>1 DEF CopyInv
        <4>2. CASE ~torn'
          <5>1. NoCopy /\ NoCopy' /\ ~torn
            BY <3>1, <3>3, <4>2 DEF NoCopy
          <5>2. Settled
            BY <5>1, SettledAlone DEF StateInv
          <5>3. Settled'
            BY <1>1, <1>3, <3>3, <5>1, <5>2 DEF Settled
          <5> QED BY <5>1, <5>3, SettledCopies
        <4> QED BY <4>1, <4>2
      <3> QED BY <1>3, <3>2, <3>3
    <2>7. BuildableStep
      BY <1>3 DEF BuildableStep
    <2> QED BY <2>3, <2>4, <2>5, <2>6, <2>7 DEF StateInv
  <1>4. CASE TipGrows
    <2>1. tip' \in 1..MaxTip /\ tip <= tip' /\ service' \in 0..tip' /\ service <= service'
      BY <1>1, <1>4, StateAssumption DEF TipGrows
    <2> QED BY <1>3, <1>4, <2>1 DEF TipGrows, cacheVars
  <1>5. CASE ServiceFollows
    <2>1. tip' \in 1..MaxTip /\ tip <= tip' /\ service' \in 0..tip' /\ service <= service'
      BY <1>1, <1>5, StateAssumption DEF ServiceFollows
    <2> QED BY <1>3, <1>5, <2>1 DEF ServiceFollows, cacheVars
  <1>6. CASE StateDeleted
    <2>1. tip' \in 1..MaxTip /\ tip <= tip' /\ service' \in 0..tip' /\ service <= service'
      BY <1>1, <1>6, StateAssumption DEF StateDeleted
    <2> QED BY <1>3, <1>6, <2>1 DEF StateDeleted
  <1>7. CASE UNCHANGED backendVars
    <2>1. tip' \in 1..MaxTip /\ tip <= tip' /\ service' \in 0..tip' /\ service <= service'
      BY <1>1, <1>7, StateAssumption DEF backendVars
    <2> QED BY <1>3, <1>7, <2>1 DEF backendVars, cacheVars
  <1> QED BY <1>2, <1>4, <1>5, <1>6, <1>7 DEF BackendNext, ProcNext

LEMMA StateInvariant == BackendSpec => []StateInv
  BY StateInit, StateStep, PTL DEF BackendSpec

(* The caches, the snapshot and the operations have their types, whatever  *)
(* processes work on them, and no cache is above the chain.                *)
THEOREM BackendTypeCorrect == BackendSpec => []BackendTypeOK
  <1>1. StateInv => BackendTypeOK
    BY DEF StateInv
  <1> QED BY <1>1, StateInvariant, PTL

(* No build fetches the history of the chain unless its caller asked for   *)
(* ColdSync by name (state_backend.cpp, midnight_client.cpp).              *)
THEOREM ColdSyncCorrect == BackendSpec => []NoSilentColdSync
  <1>1. StateInv => NoSilentColdSync
    BY DEF StateInv, Sound, NoSilentColdSync
  <1> QED BY <1>1, StateInvariant, PTL

(* When ensure_state_fresh() skips on a checkpoint and a tip, the service  *)
(* is within max_lag_blocks of that tip, for every lag and chain.          *)
THEOREM FreshCorrect == BackendSpec => []SkippedMeansFresh
  <1>1. StateInv => SkippedMeansFresh
    <2> SUFFICES ASSUME StateInv, NEW p \in Procs, op[p].skipped, op[p].cp > 0, op[p].seen > 0
                 PROVE  service + MaxLag >= op[p].seen
      BY DEF SkippedMeansFresh
    <2>1. /\ op[p].cp \in 0..MaxTip /\ op[p].seen \in 0..MaxTip /\ service \in Nat
          /\ MaxLag \in Nat /\ MaxTip \in Nat
      BY StateAssumption, ServiceHeight DEF StateInv, BackendTypeOK, Operation
    <2>2. op[p].cp <= service /\ op[p].seen <= op[p].cp + MaxLag
      BY DEF StateInv, Sound
    <2> QED BY <2>1, <2>2
  <1> QED BY <1>1, StateInvariant, PTL

(* The ledger state is never ahead of its source blocks, here and in the   *)
(* snapshot, unless a snapshot copy was disturbed, cut short or imported   *)
(* incomplete, for any number of processes and any chain                   *)
(* (LocalStateBackend::export_snapshot(), import_snapshot()).              *)
THEOREM SourceCorrect == BackendSpec => []StateNotAheadOfSource
  <1>1. StateInv => StateNotAheadOfSource
    BY DEF StateInv, CopyInv, StateNotAheadOfSource
  <1> QED BY <1>1, StateInvariant, PTL

(* What LocalStateBackend::status() called ready, validate_source() does   *)
(* not refuse until the DB is gone.                                        *)
THEOREM BuildableCorrect == BackendSpec => ReadyMeansBuildable
  <1>1. StateInv /\ [BackendNext]_backendVars => [BuildableStep]_backendVars
    BY StateStep
  <1> QED BY <1>1, StateInvariant, PTL DEF BackendSpec, ReadyMeansBuildable, BuildableStep
=============================================================================
