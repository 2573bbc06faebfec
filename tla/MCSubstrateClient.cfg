\* Two threads: one can fail while the other succeeds, trip the breaker under
\* the other, and answer late. Both thresholds are 2 and counters are words of 3,
\* so the failure counter wraps while the breaker is open.
CONSTANTS
    Callers = {c1, c2}
    FailureThreshold = 2
    SuccessThreshold = 2
    MaxRetries = 1
    Word = 3
    MaxNonce = 1
    MaxUpgrades = 1
SPECIFICATION SubstrateSpec
INVARIANTS
    OutcomeMatchesNode
PROPERTIES
    TripsOnConsecutiveFailures
    ClosesOnConsecutiveSuccesses
    CallReturns
    RecoversOnceHealthy
