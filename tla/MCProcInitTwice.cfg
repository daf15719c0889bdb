SPECIFICATION Spec
CONSTANTS
    Proc = {p0, p1}
    Root = p0
    Thread = {main, t1}
    Main = main
    NoThread = NoThread
    MainTn = mainTn
    NoNode = NoNode
    NoProc = NoProc
    Uses = {"create", "fork"}
    SerialFork = FALSE
    NoLateFork = FALSE
    ExitInMain = TRUE
    ExecWorks = FALSE
INVARIANT OncePerImage
