SPECIFICATION Spec
CONSTANTS
    m = m
    a = a
    h = h
    none = none
    nobody = nobody
    Thread = {m, a}
    Main = m
    NoThread = nobody
    Sig = {"shut", "usr", "urg"}
    NoSig = "nosig"
    Avoid = {"urg"}
    Invalid = {}
    NoTerm = {"shut", "urg"}
    NoRaise = {"usr"}
    Stopping = {}
    OpenList = {}
    Candidates <- CandidateList
    LastResort = "shut"
    FromEnv = {"nosig"}
    FromConfig = "nosig"
    SystemIgnores = {"usr"}
    SystemBlocks = {"usr"}
    ClientSig = {"usr"}
    Handler = {h}
    NoHandler = none
    MaskOf <- Masks
    Act <- Acts
    InheritedIgn = {{}}
    InheritedMask = {{}}
    MaxCalls = 2
    MaxFrames = 2
INVARIANTS
    TypeOK
    ShootOpen
    
    KernelAsTable
PROPERTY
    OpenStays
    ImplementsSignals
