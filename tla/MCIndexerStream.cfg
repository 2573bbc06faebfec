CONSTANTS
    MaxTxs = 2
    MaxSubs = 1
    MaxFrom = 4
    FirstBlock = 2
    Registered = {2}
    MaxCopies = 2
    MaxForeign = 1
    PollCoins = {1, 2, 4}
    MaxChainMoves = 2
    MaxFrames = 2
SPECIFICATION Spec
INVARIANTS
    StreamIsExact
    WalletIsExact
    
    PollReportsAddUp
PROPERTIES
    StreamCallsReturn
