CONSTANTS
    Txs = {t1}
    MaxHeight = 3
    Workers = {w1, w2}
    MaxTurns = 2
    ChainHeight = 1
    MaxRetreats = 1
SPECIFICATION Spec
INVARIANTS
    MonitorsQuiet
    
PROPERTIES
    ReporterKeepsUp
    JoinsReturn
