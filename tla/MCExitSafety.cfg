SPECIFICATION Spec
CONSTANTS
    Main = main
    Side = {t1, t2}
    Pool = {n1, n2}
    MainNode = mainTn
    NoThread = NoThread
    NoNode = NoNode
    ClientIgnores = FALSE
    ClientBlocks = FALSE
    TsdCode = FALSE
    MaxSignals = 0
    Patient = TRUE
SYMMETRY Symmetry
INVARIANT TypeOK
INVARIANT CoveredFinished
INVARIANT NodeOwnership
PROPERTY FrozenList
PROPERTY ImplementsGate
INVARIANT NeverGivesUp
INVARIANT LosersWait
PROPERTY NodesKept
