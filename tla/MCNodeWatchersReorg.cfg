CONSTANTS
    Txs = {t1}
    MaxBlocks = 3
    MaxPolls = 2
    WaitBlocks = {0, 2}
    MonitorBlocks = {0, 2}
    Word = 8
SPECIFICATION Spec
PROPERTY TimeoutOnlyAfterMaxBlocks
