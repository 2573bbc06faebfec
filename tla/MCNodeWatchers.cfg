CONSTANTS
    Txs = {t1}
    MaxBlocks = 4
    MaxPolls = 2
    WaitBlocks = {0, 2}
    MonitorBlocks = {0, 2}
    Word = 8
SPECIFICATION Spec
INVARIANTS
    FinalityVerdictHolds
    NonCanonicalVerdictHolds
    ConfirmationIsEvidence
    PositiveOnlyAfterPending
PROPERTIES
    CallsReturn
    TimeoutExactWithoutRetreat
    
