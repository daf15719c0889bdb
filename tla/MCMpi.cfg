SPECIFICATION Spec
CONSTANTS
    main = main
    t1 = t1
    world = world
    bad = bad
    client = client
    unset = unset
    other = other
    Thread = {main, t1}
    Main = main
    Comm = {world, other}
    Bad = bad
    Client = client
    Unset = unset
    Inner = {"init", "fini"}
    MaxNest = 3
    MaxCalls = 5
INVARIANTS
    OneSource
    KnownOnceTold
PROPERTY
    ImplementsCallbacks
    NothingInside
CHECK_DEADLOCK FALSE
