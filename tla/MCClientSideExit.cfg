SPECIFICATION Spec

CONSTANTS
    Thread = {m, a}
    Main = m
    NoThread = NoThread
    Unknown = {}
    Refused = {}
    PapiFails = {}
    Builds = {TRUE}
    InitThreads = 1
    ExitHow = {"exit"}
    AnyExiter = TRUE
    Forks = FALSE
    LateInit = FALSE
    MaxApi = 0
    m = m
    a = a
    A = A
    B = B
    C = C
    Wanted <- TwoEvents

SYMMETRY Symmetry

INVARIANTS
    RowsClosed
