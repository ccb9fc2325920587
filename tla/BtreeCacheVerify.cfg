\* A debug build in which bch_btree_pick_ptr() may find no device.
CONSTANTS
    n1 = n1
    n2 = n2
    n3 = n3
    k1 = k1
    k2 = k2
    g1 = g1
    g2 = g2
    s1 = s1
    s2 = s2
    Nodes <- MCNodes
    Keys <- OneKey
    Getters <- MCGetters
    Shrinkers <- NoShrinkers
    Reserve = 1
    FreeableKeep = 1
    ScanSizes = {2}
    MaxHeld = 1
    VerifyData = n3
    PickResults = {TRUE, FALSE}
    None = None
    NoKey = NoKey
SPECIFICATION Spec
PROPERTY VerifyReturns
CHECK_DEADLOCK FALSE
