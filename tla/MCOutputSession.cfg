SPECIFICATION FairSpec

CONSTANTS
    p1 = p1
    p2 = p2
    p3 = p3
    p4 = p4
    Proc = {p1, p2, p3, p4}
    NoProc = NoProc
    Pid <- OnePid
    Threads <- TwoThreads
    HasFields <- SomeFields
    ThreadLen = 3
    HeadLen = 4
    ArgsLen <- Fits
    BufLen = 16
    Depth = 2
    Collated <- Options
    MayDie = TRUE

INVARIANTS
    NeverFails
    HeaderFilled
    FilesOwned

PROPERTIES
    ImplementsLog
    WriterEnds
