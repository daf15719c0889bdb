SPECIFICATION FairSpec
CONSTANTS
    Main = main
    Side = {t1}
    Pool = {n1}
    MainNode = mainTn
    NoThread = NoThread
    NoNode = NoNode
    ClientIgnores = TRUE
    ClientBlocks = TRUE
    TsdCode = TRUE
    MaxSignals = 1
    Patient = FALSE
PROPERTY ShootdownEnds
PROPERTY ExitReturns
INVARIANT LockHeld
CHECK_DEADLOCK FALSE
