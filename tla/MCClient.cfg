SPECIFICATION Spec

CONSTANTS
    Thread = {m, a, b}
    Main = m
    NoThread = NoThread
    Unknown = {C}
    Refused = {A, B}
    PapiFails = {"init", "create", "start"}
    Builds = {TRUE, FALSE}
    InitThreads = 1
    ExitHow = {"exit", "exec"}
    AnyExiter = FALSE
    Forks = TRUE
    LateInit = FALSE
    MaxApi = 2
    m = m
    a = a
    b = b
    A = A
    B = B
    C = C
    Wanted <- ThreeEvents

SYMMETRY Symmetry

INVARIANTS
    TypeOK
    TableWhole
    RowsClosed
    CalipersBalanced
    ChildRowsOwn
    AlwaysWritten

PROPERTY ClosedSettled
