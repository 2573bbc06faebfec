--------------------------- MODULE NodeSubmission ---------------------------
(***************************************************************************)
(* MidnightNodeRPC::submit_transaction / submit_extrinsic: one             *)
(* author_submitExtrinsic over an unreliable transport.  rpc_call posts    *)
(* the request to each HTTP path in turn; an application-level JSON-RPC    *)
(* error ends it, any other failure moves on to the next path; when every  *)
(* path has failed and one of the failures was a 403/413 style refusal of  *)
(* the HTTP edge, the request is sent once more over a WebSocket.  A       *)
(* request whose answer never came may still reach the node, at any later  *)
(* time.                                                                   *)
(***************************************************************************)
EXTENDS MidnightNetwork

CONSTANTS
    Paths,       \* number of rpc_paths_ ("/" and "/rpc" in the code)
    MaxSubmits   \* bound on the number of submissions the caller makes

ASSUME PathsAssumption == Paths \in Nat \ {0}
ASSUME MaxSubmitsAssumption == MaxSubmits \in Nat

VARIABLES
    spc,       \* "idle", "http", "ws" or "done"
    stx,       \* the transaction being submitted
    path,      \* the HTTP path being tried
    refused,   \* some path error so far is a 403/413 style refusal
    sub,       \* the SubmitResult: "pending", "ok" or "NodeRejectedTx"
    submits,   \* submissions made so far
    inflight,  \* inflight[t]: requests sent whose answer nobody waits for
    answers,   \* history: how the attempts of this submission ended
    ever       \* history: how the attempts of all submissions of t ended

historyVars == <<answers, ever>>

submitVars == <<spc, stx, path, refused, sub, submits, inflight, historyVars>>

(* How one attempt can end, as seen by the client. *)
Answers == {"accepted", "noid", "error", "refused", "lost"}

Heard(a) ==
    /\ answers' = answers \cup {a}
    /\ ever' = [ever EXCEPT ![stx] = @ \cup {a}]

SubmitTypeOK ==
    /\ spc \in {"idle", "http", "ws", "done"}
    /\ stx \in Txs
    /\ path \in 1..Paths
    /\ refused \in BOOLEAN
    /\ sub \in {"pending", "ok", "NodeRejectedTx"}
    /\ submits \in 0..MaxSubmits
    /\ inflight \in [Txs -> 0..(MaxSubmits * (Paths + 1))]
    /\ answers \in SUBSET Answers
    /\ ever \in [Txs -> SUBSET Answers]

SubmitInit ==
    /\ spc = "idle"
    /\ stx \in Txs
    /\ path = 1
    /\ refused = FALSE
    /\ sub = "pending"
    /\ submits = 0
    /\ inflight = [t \in Txs |-> 0]
    /\ answers = {}
    /\ ever = [t \in Txs |-> {}]

(* The caller hands over transaction bytes that pass the hex checks. *)
SubmitTransaction(t) ==
    /\ spc \in {"idle", "done"}
    /\ submits < MaxSubmits
    /\ spc' = "http"
    /\ stx' = t
    /\ path' = 1
    /\ refused' = FALSE
    /\ sub' = "pending"
    /\ submits' = submits + 1
    /\ answers' = {}
    /\ UNCHANGED <<inflight, ever, networkVars>>

(* submit_extrinsic returns, or throws and submit_midnight_transaction_hex *)
(* turns every exception into NodeRejectedTx.                              *)
Return(outcome) ==
    /\ spc' = "done"
    /\ sub' = outcome
    /\ UNCHANGED <<stx, path, submits>>

(* The node answers with the extrinsic hash. *)
Accepted ==
    /\ spc \in {"http", "ws"}
    /\ NodeAccepts(stx)
    /\ Heard("accepted")
    /\ Return("ok")
    /\ UNCHANGED <<refused, inflight>>

(* The node takes the extrinsic but the answer names no identifier. *)
AcceptedWithoutId ==
    /\ spc \in {"http", "ws"}
    /\ NodeAccepts(stx)
    /\ Heard("noid")
    /\ Return("NodeRejectedTx")
    /\ UNCHANGED <<refused, inflight>>

(* After a path has failed: the next path, else the WebSocket when the     *)
(* collected errors show a refusal by the HTTP edge, else give up.         *)
AfterPathFailure(edgeRefusal) ==
    /\ refused' = (refused \/ edgeRefusal)
    /\ IF path < Paths
       THEN path' = path + 1 /\ UNCHANGED <<spc, stx, submits, sub>>
       ELSE IF refused'
            THEN spc' = "ws" /\ UNCHANGED <<path, stx, submits, sub>>
            ELSE Return("NodeRejectedTx")

(* Faulty variant: a JSON-RPC error is handled like any other exception. *)
ApplicationErrorIgnored ==
    /\ spc \in {"http", "ws"}
    /\ Heard("error")
    /\ IF spc = "ws" THEN Return("NodeRejectedTx") /\ UNCHANGED refused
                     ELSE AfterPathFailure(FALSE)
    /\ UNCHANGED <<inflight, networkVars>>

(* The node answers with a JSON-RPC error - the extrinsic is invalid, or   *)
(* already known to it.  RpcApplicationError leaves the loop over the      *)
(* paths, carries none of the earlier path errors, and so never leads to   *)
(* the WebSocket.                                                          *)
ApplicationError ==
    /\ spc \in {"http", "ws"}
    /\ Heard("error")
    /\ Return("NodeRejectedTx")
    /\ UNCHANGED <<refused, inflight, networkVars>>

(* HTTP 403, HTTP 413 or their texts: the request never reaches the node. *)
EdgeRefuses ==
    /\ spc = "http"
    /\ Heard("refused")
    /\ AfterPathFailure(TRUE)
    /\ UNCHANGED <<inflight, networkVars>>

(* Faulty variant: a timeout passes for a refusal by the edge. *)
HttpFailsAsRefusal ==
    /\ spc = "http"
    /\ inflight' = [inflight EXCEPT ![stx] = @ + 1]
    /\ Heard("refused")
    /\ AfterPathFailure(TRUE)
    /\ UNCHANGED networkVars

(* No usable answer on this path: connection failure, timeout, any other   *)
(* HTTP status, a body without "result".                                   *)
HttpFails ==
    /\ spc = "http"
    /\ inflight' = [inflight EXCEPT ![stx] = @ + 1]
    /\ Heard("lost")
    /\ AfterPathFailure(FALSE)
    /\ UNCHANGED networkVars

(* The single WebSocket attempt fails to connect, send or read. *)
WebSocketFails ==
    /\ spc = "ws"
    /\ inflight' = [inflight EXCEPT ![stx] = @ + 1]
    /\ Heard("lost")
    /\ Return("NodeRejectedTx")
    /\ UNCHANGED <<refused, networkVars>>

(* A request nobody waits for any more reaches the node, or is lost. *)
LateRequestAccepted(t) ==
    /\ inflight[t] > 0
    /\ inflight' = [inflight EXCEPT ![t] = @ - 1]
    /\ NodeAccepts(t)
    /\ UNCHANGED <<spc, stx, path, refused, sub, submits, historyVars>>

LateRequestLost(t) ==
    /\ inflight[t] > 0
    /\ inflight' = [inflight EXCEPT ![t] = @ - 1]
    /\ UNCHANGED <<spc, stx, path, refused, sub, submits, historyVars, networkVars>>

SubmitSteps ==
    \/ Accepted
    \/ AcceptedWithoutId
    \/ ApplicationError
    \/ EdgeRefuses
    \/ HttpFails
    \/ WebSocketFails

LateRequests ==
    \E t \in Txs : LateRequestAccepted(t) \/ LateRequestLost(t)

-----------------------------------------------------------------------------
(* The submissions on their own, with a caller that may submit again. *)

submitSystemVars == <<networkVars, submitVars>>

SubmitSystemInit == NetworkInit /\ SubmitInit

SubmitSystemNext ==
    \/ NetworkNext /\ UNCHANGED submitVars
    \/ \E t \in Txs : SubmitTransaction(t)
    \/ SubmitSteps
    \/ LateRequests

(* The submitting thread keeps running: each attempt is answered, refused  *)
(* or given up at the client's own timeout.                                *)
SubmitSpec ==
    /\ SubmitSystemInit
    /\ [][SubmitSystemNext]_submitSystemVars
    /\ WF_submitSystemVars(SubmitSteps)

SubmitSystemTypeOK == NetworkTypeOK /\ SubmitTypeOK

(* The WebSocket is a fallback for requests the HTTP edge did not let      *)
(* through: it is never used once the node itself has answered, whichever  *)
(* paths failed before that answer (midnight_node_rpc.cpp:763-766, and     *)
(* docs/SDK_SPEC.md:148).                                                  *)
FallbackOnlyOnEdgeRefusal ==
    spc = "ws" =>
        /\ "refused" \in answers
        /\ answers \cap {"accepted", "noid", "error"} = {}

(* NodeRejectedTx is also what a caller gets for a transaction the node    *)
(* holds, when a request that was given up on had reached it; but only     *)
(* then.  A rejection is exact as long as no answer was lost, in this      *)
(* submission or an earlier one of the same transaction, and acceptance    *)
(* was not already reported (midnight_node_rpc.cpp:767-772,                *)
(* midnight_client.cpp:1095-1099).                                         *)
RejectedButHeldOnlyAfterLoss ==
    (spc = "done" /\ sub = "NodeRejectedTx" /\ (stx \in pool \/ OnChain(stx)))
        => ever[stx] \cap {"lost", "accepted", "noid"} # {}
=============================================================================
