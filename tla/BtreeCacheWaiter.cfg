\* A debug build, two getters, one key: liveness of the cannibalize lock
\* wait list and of bch_btree_verify() when every node can be read back.
CONSTANTS
    n1 = n1
    n2 = n2
    n3 = n3
    k1 = k1
    k2 = k2
    g1 = g1
    g2 = g2
    s1 = s1
    s2 = s2
    Nodes <- MCNodes
    Keys <- OneKey
    Getters <- MCGetters
    Shrinkers <- NoShrinkers
    Reserve = 1
    FreeableKeep = 1
    ScanSizes = {2}
    MaxHeld = 1
    VerifyData = n3
    PickResults = {TRUE}
    None = None
    NoKey = NoKey
SPECIFICATION Spec
INVARIANT VerifyExcludesWrite
PROPERTY WaiterWoken
PROPERTY VerifyReturns
