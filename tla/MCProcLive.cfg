SPECIFICATION FairSpec
CONSTANTS
    Proc = {p0}
    Root = p0
    Thread = {main, t1}
    Main = main
    NoThread = NoThread
    MainTn = mainTn
    NoNode = NoNode
    NoProc = NoProc
    Uses = {"create", "exec", "exit"}
    SerialFork = TRUE
    NoLateFork = TRUE
    ExitInMain = TRUE
    ExecWorks = FALSE
PROPERTY EndReturns
