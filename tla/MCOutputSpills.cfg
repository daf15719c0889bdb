SPECIFICATION Spec

CONSTANTS
    p1 = p1
    p2 = p2
    p3 = p3
    p4 = p4
    Proc = {p1, p2}
    NoProc = NoProc
    Pid <- OnePid
    Threads <- TwoThreads
    HasFields <- SomeFields
    ThreadLen = 3
    HeadLen = 4
    ArgsLen <- Spills
    BufLen = 16
    Depth = 2
    Collated <- Options
    MayDie = FALSE

INVARIANTS
    RowsWhole
