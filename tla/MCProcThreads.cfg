SPECIFICATION Spec
CONSTANTS
    Proc = {p0, p1}
    Root = p0
    Thread = {main, t1}
    Main = main
    NoThread = NoThread
    MainTn = mainTn
    NoNode = NoNode
    NoProc = NoProc
    Uses = {"create", "fork", "system", "exit"}
    SerialFork = TRUE
    NoLateFork = TRUE
    ExitInMain = FALSE
    ExecWorks = TRUE
SYMMETRY Symmetry
INVARIANT OncePerImage
INVARIANT AppAfterInit
INVARIANT OwnThreads
PROPERTY ImplementsLife
