SPECIFICATION Spec
CONSTANTS
    Main = main
    Side = {t1}
    Pool = {n1}
    MainNode = mainTn
    NoThread = NoThread
    NoNode = NoNode
    ClientIgnores = FALSE
    ClientBlocks = FALSE
    TsdCode = FALSE
    MaxSignals = 0
    Patient = FALSE
INVARIANT OneFiniThread
