CONSTANTS
    Procs = {p1, p2}
    MaxTip = 2
    MaxLag = 0
    Sources <- SourceKinds
SPECIFICATION BackendSpec
SYMMETRY ProcSymmetry
INVARIANTS
    NoSilentColdSync
    SkippedMeansFresh
    
PROPERTY ReadyMeansBuildable
