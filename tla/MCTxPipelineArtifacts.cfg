CONSTANTS
    Txs = {t1}
    MaxBlocks = 2
    MaxPolls = 1
    Paths = 1
    MaxSubmits = 1
SPECIFICATION Spec
INVARIANT CrashLeavesArtifacts
