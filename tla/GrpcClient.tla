----------------------------- MODULE GrpcClient -----------------------------
(***************************************************************************)
(* MidnightGrpcClient (grpc_client.cpp): the application's thread, which   *)
(* makes unary calls, subscribes and cancels, and the reader thread of a   *)
(* subscription.  mu is held by the reader while Read() blocks, and by     *)
(* cancel_subscriptions() while it joins the reader, which needs mu to     *)
(* clean up: such a cancellation never returns.                            *)
(***************************************************************************)
EXTENDS Naturals

CONSTANT MaxItems   \* bound: items a server writes to one stream

ASSUME GrpcClientAssumption == MaxItems \in Nat

VARIABLES
    mu,           \* "free", "app" or "reader"
    app,          \* the application's thread
    streaming,    \* streaming_
    reader,       \* the reader thread: "none" not joinable, "over" returned and joinable
    stream,       \* the call the server sees: [open, cancelled, items]
    contexts,     \* the contexts that exist, of {"block", "tx"}
    kind,         \* subscription the reader serves
    lastError,    \* last_error_
    result        \* what the last unary call returned, and whether the server acted

grpcClientVars == <<mu, app, streaming, reader, stream, contexts, kind, lastError, result>>

NoStream == [open |-> FALSE, cancelled |-> FALSE, items |-> 0]

GrpcClientInit ==
    /\ mu = "free" /\ app = "idle" /\ streaming = FALSE /\ reader = "none"
    /\ stream = NoStream /\ contexts = {"block", "tx"} /\ kind = "none"
    /\ lastError = "none" /\ result = [op |-> "none", acted |-> FALSE, value |-> "none"]
-----------------------------------------------------------------------------
(* Unary calls: the server answers, answers with success = false, or the   *)
(* call fails, before or after the server acted.  Only submit_transaction()*)
(* tells a failure by its value, the empty hash; the others return a       *)
(* default response, which reads like an answer.                           *)
UnaryOps == {"submit_transaction", "query_transaction", "query_utxos", "get_block", "get_block_by_hash", "get_protocol_params",
             "get_node_info", "deploy_contract", "call_contract", "get_balance"}

(* Faulty variant: the hash is returned although success is false. *)
ReturnedUnchecked(op, status) == IF op = "submit_transaction" /\ status = "failed" THEN "empty" ELSE "response"

Returned(op, status) == IF op = "submit_transaction" /\ status # "ok" THEN "empty" ELSE "response"

Call(op) ==
    /\ app = "idle"
    /\ \E status \in {"ok", "refused", "failed"}, acted \in BOOLEAN :
        /\ status = "ok" => acted
        /\ status = "refused" => ~acted
        /\ result' = [op |-> op, acted |-> acted, value |-> Returned(op, status)]
        /\ app' = IF status = "failed" \/ (status = "refused" /\ op = "submit_transaction") THEN "recording" ELSE "idle"
    /\ UNCHANGED <<mu, streaming, reader, stream, contexts, kind, lastError>>

(* last_error_ is written under mu, so a failed call waits for Read().     *)
RecordError ==
    /\ app = "recording" /\ mu = "free"
    /\ lastError' = result.op /\ app' = "idle"
    /\ UNCHANGED <<mu, streaming, reader, stream, contexts, kind, result>>
-----------------------------------------------------------------------------
(* subscribe_blocks() and watch_transactions(): while streaming they call  *)
(* cancel_subscriptions(), which locks mu a second time in the same        *)
(* thread; a reader that returned but was not joined is overwritten, which *)
(* ends the program.                                                       *)
Subscribe(k) ==
    /\ app = "idle" /\ mu = "free"
    /\ IF streaming THEN app' = "relocking" /\ mu' = "app" /\ UNCHANGED <<streaming, reader, stream, contexts, kind>>
       ELSE /\ streaming' = TRUE /\ contexts' = contexts \cup {k} /\ kind' = k /\ stream' = NoStream
            /\ IF reader = "none" THEN reader' = "opening" /\ app' = app ELSE app' = "terminated" /\ UNCHANGED reader
            /\ UNCHANGED mu
    /\ UNCHANGED <<lastError, result>>

(* cancel_subscriptions(): also called by the destructor. *)
Cancel ==
    /\ app = "idle" /\ mu = "free"
    /\ mu' = "app" /\ streaming' = FALSE
    /\ stream' = [stream EXCEPT !.cancelled = stream.open /\ kind \in contexts]
    /\ app' = "joining"
    /\ UNCHANGED <<reader, contexts, kind, lastError, result>>

(* Faulty variant: the reader is detached. *)
JoinNot ==
    /\ app = "joining"
    /\ contexts' = {} /\ mu' = "free" /\ app' = "cancelled"
    /\ UNCHANGED <<reader, streaming, stream, kind, lastError, result>>

Join ==
    /\ app = "joining" /\ reader \in {"none", "over"}
    /\ reader' = "none" /\ contexts' = {} /\ mu' = "free" /\ app' = "cancelled"
    /\ UNCHANGED <<streaming, stream, kind, lastError, result>>

Resume ==
    /\ app = "cancelled"
    /\ app' = "idle"
    /\ UNCHANGED <<mu, streaming, reader, stream, contexts, kind, lastError, result>>
-----------------------------------------------------------------------------
(* The reader: opens the call, reads with mu held, calls back without it,  *)
(* cleans up under mu and then clears streaming_.                          *)
ReaderOpens ==
    /\ reader = "opening" /\ mu = "free"
    /\ stream' = [NoStream EXCEPT !.open = kind \in contexts]
    /\ reader' = "testing"
    /\ UNCHANGED <<mu, app, streaming, contexts, kind, lastError, result>>

ReaderTests ==
    /\ reader = "testing"
    /\ \/ ~streaming /\ reader' = "cleaning" /\ UNCHANGED mu
       \/ streaming /\ mu = "free" /\ mu' = "reader" /\ reader' = "reading"
    /\ UNCHANGED <<app, streaming, stream, contexts, kind, lastError, result>>

(* Read() returns an item, or fails because the server ended the call; it  *)
(* may also block as long as the server is silent.                         *)
ReaderReads ==
    /\ reader = "reading"
    /\ mu' = "free"
    /\ \/ /\ stream.open /\ ~stream.cancelled /\ stream.items < MaxItems
          /\ stream' = [stream EXCEPT !.items = @ + 1] /\ reader' = "calling"
       \/ stream' = [stream EXCEPT !.open = FALSE] /\ reader' = "cleaning"
    /\ UNCHANGED <<app, streaming, contexts, kind, lastError, result>>

ReaderCallsBack ==
    /\ reader = "calling"
    /\ reader' = "testing"
    /\ UNCHANGED <<mu, app, streaming, stream, contexts, kind, lastError, result>>

ReaderCleansUp ==
    /\ reader = "cleaning" /\ mu = "free"
    /\ stream' = NoStream /\ contexts' = contexts \ {kind}
    /\ reader' = "ending"
    /\ UNCHANGED <<mu, app, streaming, kind, lastError, result>>

ReaderEnds ==
    /\ reader = "ending"
    /\ streaming' = FALSE /\ reader' = "over"
    /\ UNCHANGED <<mu, app, stream, contexts, kind, lastError, result>>

Running == app # "terminated"
GrpcClientNext ==
    /\ Running
    /\ \/ \E op \in UnaryOps : Call(op)
       \/ RecordError \/ Cancel \/ Join \/ Resume \/ \E k \in {"block", "tx"} : Subscribe(k)
       \/ ReaderOpens \/ ReaderTests \/ ReaderReads \/ ReaderCallsBack \/ ReaderCleansUp \/ ReaderEnds
-----------------------------------------------------------------------------
(* When cancel_subscriptions() returns the subscription is over: the       *)
(* reader has been joined, so no callback runs any more and the objects    *)
(* it captured may go, and the call on the server has ended.               *)
CancelledMeansOver == app = "cancelled" => reader = "none" /\ ~stream.open /\ mu = "free"

(* A hash returned by submit_transaction() means the server acted on it,   *)
(* and a subscription is never read without the context it was opened with.*)
ClientAnswersHonest ==
    /\ result.op = "submit_transaction" /\ result.value = "response" => result.acted
    /\ reader \in {"opening", "reading", "calling"} => kind \in contexts
=============================================================================
