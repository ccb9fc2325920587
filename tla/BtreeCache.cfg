\* One shrinker, two getters: the safety properties of the node cache.
CONSTANTS
    n1 = n1
    n2 = n2
    n3 = n3
    k1 = k1
    k2 = k2
    g1 = g1
    g2 = g2
    s1 = s1
    s2 = s2
    Nodes <- MCNodes
    Keys <- MCKeys
    Getters <- MCGetters
    Shrinkers <- OneShrinker
    Reserve = 1
    FreeableKeep = 1
    ScanSizes = {2}
    MaxHeld = 1
    VerifyData = None
    PickResults = {TRUE}
    None = None
    NoKey = NoKey
SPECIFICATION Spec
SYMMETRY KeyGetterSymmetry
VIEW LiveStateView
INVARIANT TypeOK
INVARIANT ReserveFloor
INVARIANT DirtyNodesStayCached
INVARIANT HeldNodeIsRequested
PROPERTY TableIsNodeHash
