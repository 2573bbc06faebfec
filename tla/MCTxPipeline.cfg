\* One transaction, two blocks and one HTTP path: a block can be retracted and
\* replaced while the operation checks its context, submits and waits, and late
\* requests outlive a crash. The paths of one submission are the subject of
\* MCNodeSubmission.
CONSTANTS
    Txs = {t1}
    MaxBlocks = 2
    MaxPolls = 1
    Paths = 1
    MaxSubmits = 1
SPECIFICATION Spec
INVARIANTS
    
    ReportMatchesNode
PROPERTY OperationReturns
