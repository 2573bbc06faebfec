--------------------------- MODULE SubstrateClient ---------------------------
(***************************************************************************)
(* SubstrateRPC and what it shares between the threads that call it: the   *)
(* CircuitBreaker and the cached runtime version and genesis hash.  Every  *)
(* rpc_call asks the breaker once, retries every exception (an error the   *)
(* node answered included) and reports one outcome to the breaker;         *)
(* build_and_submit is five such calls in a row.  The rate limiter and the *)
(* backoff only delay: an attempt is made at any time after the one before *)
(* it.                                                                     *)
(***************************************************************************)
EXTENDS Naturals, FiniteSets

CONSTANTS
    Callers,           \* threads sharing one SubstrateRPC
    FailureThreshold,  \* failed calls that open the breaker (5 in the code)
    SuccessThreshold,  \* successes that close it again (2)
    MaxRetries,        \* retry_config_.max_retries
    Word,              \* 2^32: the modulus of a uint32_t
    MaxNonce,          \* bound on the extrinsics the account has signed
    MaxUpgrades        \* bound on the runtime upgrades of the chain

ASSUME SubstrateAssumption ==
    /\ FailureThreshold \in Nat \ {0} /\ SuccessThreshold \in Nat \ {0}
    /\ MaxRetries \in Nat
    /\ Word \in Nat /\ FailureThreshold < Word /\ SuccessThreshold < Word
    /\ MaxNonce \in Nat /\ MaxUpgrades \in Nat

VARIABLES
    state_,     \* CircuitBreaker: CLOSED, OPEN or HALF_OPEN
    failures,   \* consecutive_failures_
    successes,  \* consecutive_successes_
    cooled,     \* open_duration_ms have passed since last_failure_time_
    cache,      \* [version, genesis]: 0 and FALSE while not cached
    cpc,        \* cpc[c]: where c is in rpc_call
    call,       \* call[c]: the method c is calling
    attempt,    \* attempt[c]: retries made so far
    xt,         \* xt[c]: nonce and version of the extrinsic c is building
    outcome,    \* outcome[c]: what the last operation of c reported
    spec,       \* the node's runtime version
    next,       \* the node's next nonce for the account
    took,       \* history: took[c]: the node took the extrinsic c built
    lost,       \* history: lost[c]: an answer about it was lost or unreadable
    streak,     \* history: calls that failed since one last succeeded
    run         \* history: calls that succeeded since one last failed

breakerVars == <<state_, failures, successes, cooled>>

callerVars == <<cpc, call, attempt, xt, outcome>>

nodeVars == <<spec, next>>

recordVars == <<took, lost, streak, run>>

substrateVars == <<breakerVars, cache, callerVars, nodeVars, recordVars>>

Calls == {"query", "version", "genesis", "head", "nonce", "submit"}

SubstrateTypeOK ==
    /\ state_ \in {"CLOSED", "OPEN", "HALF_OPEN"}
    /\ failures \in 0..(Word - 1)
    /\ successes \in 0..(SuccessThreshold - 1)
    /\ cooled \in BOOLEAN
    /\ cache \in [version : Nat, genesis : BOOLEAN]
    /\ cpc \in [Callers -> {"idle", "begin", "post", "ok", "failed"}]
    /\ call \in [Callers -> Calls]
    /\ attempt \in [Callers -> 0..MaxRetries]
    /\ xt \in [Callers -> [nonce : Nat, version : Nat]]
    /\ outcome \in [Callers -> {"none", "ok", "error"}]
    /\ spec \in Nat \ {0}
    /\ next \in Nat
    /\ took \in [Callers -> BOOLEAN]
    /\ lost \in [Callers -> BOOLEAN]
    /\ streak \in 0..FailureThreshold
    /\ run \in 0..SuccessThreshold

SubstrateInit ==
    /\ state_ = "CLOSED" /\ failures = 0 /\ successes = 0 /\ cooled = TRUE
    /\ cache = [version |-> 0, genesis |-> FALSE]
    /\ cpc = [c \in Callers |-> "idle"]
    /\ call = [c \in Callers |-> "query"]
    /\ attempt = [c \in Callers |-> 0]
    /\ xt = [c \in Callers |-> [nonce |-> 0, version |-> 0]]
    /\ outcome = [c \in Callers |-> "none"]
    /\ spec = 1 /\ next = 0
    /\ took = [c \in Callers |-> FALSE]
    /\ lost = [c \in Callers |-> FALSE]
    /\ streak = 0 /\ run = 0

-----------------------------------------------------------------------------
(* The callers. *)

(* One of the many methods that are a single rpc_call. *)
Query(c) ==
    /\ cpc[c] = "idle"
    /\ cpc' = [cpc EXCEPT ![c] = "begin"]
    /\ call' = [call EXCEPT ![c] = "query"]
    /\ outcome' = [outcome EXCEPT ![c] = "none"]
    /\ took' = [took EXCEPT ![c] = FALSE]
    /\ lost' = [lost EXCEPT ![c] = FALSE]
    /\ UNCHANGED <<attempt, xt, breakerVars, cache, nodeVars, streak, run>>

(* build_and_submit begins with get_runtime_version, from the cache if it  *)
(* is there.                                                               *)
BuildAndSubmit(c) ==
    /\ cpc[c] = "idle"
    /\ next < MaxNonce
    /\ cpc' = [cpc EXCEPT ![c] = "begin"]
    /\ call' = [call EXCEPT ![c] =
          IF cache.version = 0 THEN "version"
          ELSE IF ~ cache.genesis THEN "genesis" ELSE "head"]
    /\ xt' = [xt EXCEPT ![c] = [nonce |-> 0, version |-> cache.version]]
    /\ outcome' = [outcome EXCEPT ![c] = "none"]
    /\ took' = [took EXCEPT ![c] = FALSE]
    /\ lost' = [lost EXCEPT ![c] = FALSE]
    /\ UNCHANGED <<attempt, breakerVars, cache, nodeVars, streak, run>>

(* The operation of c is over: an exception ends it, wherever it is thrown. *)
Finish(c, result) ==
    /\ cpc' = [cpc EXCEPT ![c] = "idle"]
    /\ attempt' = [attempt EXCEPT ![c] = 0]
    /\ xt' = [xt EXCEPT ![c] = [nonce |-> 0, version |-> 0]]
    /\ outcome' = [outcome EXCEPT ![c] = result]

(* Faulty variant: the open breaker lets requests through without becoming *)
(* half open.                                                              *)
IsRequestAllowedStaysOpen(c) ==
    /\ cpc[c] = "begin"
    /\ state_ # "OPEN" \/ cooled
    /\ cpc' = [cpc EXCEPT ![c] = "post"]
    /\ UNCHANGED <<breakerVars, cache, call, attempt, xt, outcome>>
    /\ UNCHANGED <<nodeVars, recordVars>>

(* is_request_allowed: an open breaker whose time has passed becomes half  *)
(* open with this request; a half-open one lets every request through.     *)
IsRequestAllowed(c) ==
    /\ cpc[c] = "begin"
    /\ state_ # "OPEN" \/ cooled
    /\ state_' = IF state_ = "OPEN" THEN "HALF_OPEN" ELSE state_
    /\ successes' = IF state_ = "OPEN" THEN 0 ELSE successes
    /\ cpc' = [cpc EXCEPT ![c] = "post"]
    /\ attempt' = [attempt EXCEPT ![c] = 0]
    /\ UNCHANGED <<failures, cooled, cache, call, xt, outcome>>
    /\ UNCHANGED <<nodeVars, recordVars>>

CircuitIsOpen(c) ==
    /\ cpc[c] = "begin"
    /\ state_ = "OPEN" /\ ~ cooled
    /\ Finish(c, "error")
    /\ UNCHANGED <<call, breakerVars, cache, nodeVars, recordVars>>

(* The node takes the extrinsic of c when its nonce is the next one and it *)
(* was signed for the running version.                                     *)
NodeWouldTake(c) == xt[c] = [nonce |-> next, version |-> spec]

NodeTakes(c) ==
    /\ took' = [took EXCEPT ![c] = TRUE]
    /\ next' = next + 1

(* The node answers with a result. *)
PostAnswers(c) ==
    /\ cpc[c] = "post"
    /\ IF call[c] = "submit"
       THEN NodeWouldTake(c) /\ NodeTakes(c)
       ELSE UNCHANGED <<took, next>>
    /\ cpc' = [cpc EXCEPT ![c] = "ok"]
    /\ xt' = [xt EXCEPT ![c] =
          [nonce   |-> IF call[c] = "nonce" THEN next ELSE @.nonce,
           version |-> IF call[c] = "version" THEN spec ELSE @.version]]
    /\ UNCHANGED <<call, attempt, outcome, breakerVars, cache, spec, lost, streak, run>>

(* Faulty variants: retries are not counted; the last failed attempt is    *)
(* taken for a success.                                                    *)
RetryUncounted(c) ==
    IF attempt[c] >= MaxRetries
    THEN cpc' = [cpc EXCEPT ![c] = "failed"] /\ UNCHANGED attempt
    ELSE cpc' = [cpc EXCEPT ![c] = "post"] /\ UNCHANGED attempt

RetryThenSucceed(c) ==
    IF attempt[c] >= MaxRetries
    THEN cpc' = [cpc EXCEPT ![c] = "ok"] /\ UNCHANGED attempt
    ELSE /\ cpc' = [cpc EXCEPT ![c] = "post"]
         /\ attempt' = [attempt EXCEPT ![c] = @ + 1]

(* The attempt count decides between another attempt, after the delay of   *)
(* the backoff, and giving up.                                             *)
Retry(c) ==
    IF attempt[c] >= MaxRetries
    THEN /\ cpc' = [cpc EXCEPT ![c] = "failed"]
         /\ UNCHANGED attempt
    ELSE /\ cpc' = [cpc EXCEPT ![c] = "post"]
         /\ attempt' = [attempt EXCEPT ![c] = @ + 1]

(* The request or its answer is lost, or the node answers with an error;   *)
(* an extrinsic whose answer is lost may have been taken.                  *)
PostThrows(c) ==
    /\ cpc[c] = "post"
    /\ Retry(c)
    /\ \/ UNCHANGED <<took, next, lost>>
       \/ /\ call[c] = "submit"
          /\ NodeWouldTake(c)
          /\ NodeTakes(c)
          /\ lost' = [lost EXCEPT ![c] = TRUE]
    /\ UNCHANGED <<call, xt, outcome, breakerVars, cache, spec, streak, run>>

(* Faulty variants: one success closes too early; a success while closed   *)
(* forgets no failures.                                                    *)
record_success_early ==
    /\ IF state_ = "HALF_OPEN" /\ successes + 2 >= SuccessThreshold
       THEN state_' = "CLOSED" /\ failures' = 0 /\ successes' = 0
       ELSE /\ state_' = state_
            /\ failures' = IF state_ = "CLOSED" THEN 0 ELSE failures
            /\ successes' = IF state_ = "HALF_OPEN" THEN successes + 1 ELSE successes
    /\ streak' = 0
    /\ run' = IF run < SuccessThreshold THEN run + 1 ELSE run
    /\ UNCHANGED cooled

record_success_keeps_failures ==
    /\ IF state_ = "HALF_OPEN" /\ successes + 1 >= SuccessThreshold
       THEN state_' = "CLOSED" /\ failures' = 0 /\ successes' = 0
       ELSE /\ UNCHANGED <<state_, failures>>
            /\ successes' = IF state_ = "HALF_OPEN" THEN successes + 1 ELSE successes
    /\ streak' = 0
    /\ run' = IF run < SuccessThreshold THEN run + 1 ELSE run
    /\ UNCHANGED cooled

(* record_success in HALF_OPEN counts towards closing, in CLOSED forgets   *)
(* the failures, and in OPEN does nothing.                                 *)
record_success ==
    /\ IF state_ = "HALF_OPEN" /\ successes + 1 >= SuccessThreshold
       THEN state_' = "CLOSED" /\ failures' = 0 /\ successes' = 0
       ELSE /\ state_' = state_
            /\ failures' = IF state_ = "CLOSED" THEN 0 ELSE failures
            /\ successes' = IF state_ = "HALF_OPEN" THEN successes + 1 ELSE successes
    /\ streak' = 0
    /\ run' = IF run < SuccessThreshold THEN run + 1 ELSE run
    /\ UNCHANGED cooled

(* record_failure counts in every state, and starts the open period anew. *)
record_failure ==
    /\ failures' = IF failures + 1 = Word THEN 0 ELSE failures + 1
    /\ cooled' = FALSE
    /\ state_' = IF \/ state_ = "HALF_OPEN"
                    \/ state_ = "CLOSED" /\ failures' >= FailureThreshold
                 THEN "OPEN" ELSE state_
    /\ successes' = IF state_ = "HALF_OPEN" THEN 0 ELSE successes
    /\ streak' = IF streak < FailureThreshold THEN streak + 1 ELSE streak
    /\ run' = 0

(* What follows a call of build_and_submit. *)
StepAfter(step) ==
    IF step = "version" /\ ~ cache.genesis THEN "genesis"
    ELSE IF step \in {"version", "genesis"} THEN "head"
    ELSE IF step = "head" THEN "nonce" ELSE "submit"

(* Faulty variant: the breaker is consulted again before the result is     *)
(* used.                                                                   *)
CallSucceedsUnlessOpened(c) ==
    /\ cpc[c] = "ok"
    /\ record_success
    /\ cache' = [version |-> IF call[c] = "version" THEN xt[c].version ELSE cache.version,
                 genesis |-> IF call[c] = "genesis" THEN TRUE ELSE cache.genesis]
    /\ CASE state_ = "OPEN" -> Finish(c, "error") /\ UNCHANGED call
         [] state_ # "OPEN" /\ call[c] \in {"query", "submit"} ->
                Finish(c, "ok") /\ UNCHANGED call
         [] OTHER -> /\ cpc' = [cpc EXCEPT ![c] = "begin"]
                     /\ call' = [call EXCEPT ![c] = StepAfter(@)]
                     /\ UNCHANGED <<attempt, xt, outcome>>
    /\ UNCHANGED <<nodeVars, took, lost>>

(* The call succeeded: the breaker hears of it, what is cached is stored,  *)
(* and the operation goes on or ends.                                      *)
CallSucceeds(c) ==
    /\ cpc[c] = "ok"
    /\ record_success
    /\ cache' = [version |-> IF call[c] = "version" THEN xt[c].version ELSE cache.version,
                 genesis |-> IF call[c] = "genesis" THEN TRUE ELSE cache.genesis]
    /\ IF call[c] \in {"query", "submit"}
       THEN Finish(c, "ok") /\ UNCHANGED call
       ELSE /\ cpc' = [cpc EXCEPT ![c] = "begin"]
            /\ call' = [call EXCEPT ![c] = StepAfter(@)]
            /\ UNCHANGED <<attempt, xt, outcome>>
    /\ UNCHANGED <<nodeVars, took, lost>>

(* The call succeeded with a result of a type the method does not expect;  *)
(* the runtime version has a default for every field it reads.             *)
UnexpectedFormat(c) ==
    /\ cpc[c] = "ok"
    /\ call[c] # "version"
    /\ record_success
    /\ Finish(c, "error")
    /\ lost' = [lost EXCEPT ![c] = IF call[c] = "submit" THEN TRUE ELSE @]
    /\ UNCHANGED <<call, cache, nodeVars, took>>

(* All attempts failed: the breaker hears of one failure. *)
CallFails(c) ==
    /\ cpc[c] = "failed"
    /\ record_failure
    /\ Finish(c, "error")
    /\ UNCHANGED <<call, cache, nodeVars, took, lost>>

-----------------------------------------------------------------------------
(* Time and the node. *)

(* open_duration_ms pass without a failure. *)
CoolDown ==
    /\ ~ cooled
    /\ cooled' = TRUE
    /\ UNCHANGED <<state_, failures, successes, cache, callerVars>>
    /\ UNCHANGED <<nodeVars, recordVars>>

RuntimeUpgrade ==
    /\ spec <= MaxUpgrades
    /\ spec' = spec + 1
    /\ UNCHANGED <<breakerVars, cache, callerVars, next, recordVars>>

Start(c) == Query(c) \/ BuildAndSubmit(c)

(* The steps of a thread inside a call. *)
Proceed(c) ==
    \/ IsRequestAllowed(c)
    \/ CircuitIsOpen(c)
    \/ PostAnswers(c)
    \/ PostThrows(c)
    \/ CallSucceeds(c)
    \/ UnexpectedFormat(c)
    \/ CallFails(c)

SubstrateNext ==
    \/ \E c \in Callers : Start(c) \/ Proceed(c)
    \/ CoolDown
    \/ RuntimeUpgrade

(* Time passes, and no thread inside a call stops for ever: requests have  *)
(* a timeout, and the rate limiter's bucket is refilled.                   *)
SubstrateSpec ==
    /\ SubstrateInit
    /\ [][SubstrateNext]_substrateVars
    /\ WF_substrateVars(CoolDown)
    /\ \A c \in Callers : WF_substrateVars(Proceed(c))

-----------------------------------------------------------------------------

(* The breaker leaves CLOSED exactly when the last FailureThreshold calls  *)
(* to end have failed: never for failures a success lies between, whichever*)
(* threads they came from and however often the counter wrapped while the  *)
(* breaker was open, and never later (rate_limiter.hpp:241-255).           *)
TripsOnConsecutiveFailures ==
    /\ [](state_ = "CLOSED" => streak < FailureThreshold)
    /\ [][(state_ = "CLOSED" /\ state_' = "OPEN") => streak' = FailureThreshold]_substrateVars

(* The breaker closes only when the last SuccessThreshold calls to end     *)
(* have succeeded (rate_limiter.hpp:223-236).                              *)
ClosesOnConsecutiveSuccesses ==
    [][(state_ # "CLOSED" /\ state_' = "CLOSED") => run' = SuccessThreshold]_substrateVars

(* An operation that reports an error about an extrinsic the node took has *)
(* lost an answer: no error of the node's own, retried or not, hides an    *)
(* acceptance.  And a build_and_submit that reports success is about an    *)
(* extrinsic the node took (substrate_rpc.cpp:64-145, 339-416).            *)
OutcomeMatchesNode ==
    \A c \in Callers :
        cpc[c] = "idle" =>
            /\ took[c] /\ outcome[c] = "error" => lost[c]
            /\ call[c] = "submit" /\ outcome[c] = "ok" => took[c]

(* Every call returns (substrate_rpc.cpp:50-145). *)
CallReturns == \A c \in Callers : (cpc[c] # "idle") ~> (cpc[c] = "idle")

(* If from some time on no request fails and calls keep being made, the    *)
(* breaker is closed again and again: late failures and half-open probes   *)
(* cannot hold it open (rate_limiter.hpp:199-255).                         *)
RecoversOnceHealthy ==
    (/\ <>[][\A c \in Callers : ~ PostThrows(c)]_substrateVars
     /\ []<><<\E c \in Callers : Start(c)>>_substrateVars)
        => []<>(state_ = "CLOSED")
=============================================================================
