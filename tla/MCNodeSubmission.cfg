CONSTANTS
    Txs = {t1}
    MaxBlocks = 2
    Paths = 2
    MaxSubmits = 2
    PoolTxs = {t1}
    WaitTurns = 1
    MaxPoolMoves = 1
    ContractTxs = {t1}
    WalletSeeds = {"s"}
    NoBytes = none
    Utxos = {u1, u2}
    Builders = {b1, b2}
    TTL = 0
    MaxTick = 1
    MaxOutputs = 5
    TxShapes <- Shapes
    Coins <- CoinList
    Amounts = {0, 5, 100, 1300}
    MinDust = 2
    MaxParts = 3
    Width = 2000
    ServiceTxs = {t1, t2}
    MaxPending = 2
    MaxRetracts = 1
    Askers = {a}
    CacheTTL = 2
    MaxClock = 3
    MaxCoins = 2
    Schemes = {"ED25519", "BIP340"}
    Payloads = {m1, m2}
    Passwords = {k}
    WrongPassword = w
    MaxKeys = 1
    MaxMade = 1
    FacadeSeeds = {1, 2}
    StatePasswords = {"a", "b"}
    StateBytes <- CodedStates
    Purse <- Wallet
    Targets = {0, 1, 6, 7, 10, 19}
SPECIFICATION Spec
SYMMETRY SubmissionSymmetry
INVARIANTS
    
    RejectedButHeldOnlyAfterLoss
    
    
    ScansHold
    
CHECK_DEADLOCK FALSE
