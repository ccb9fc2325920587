\* Termination of the mca_cannibalize() busy-wait.
CONSTANTS
    n1 = n1
    n2 = n2
    n3 = n3
    k1 = k1
    k2 = k2
    g1 = g1
    g2 = g2
    s1 = s1
    s2 = s2
    Nodes <- TwoNodes
    Keys <- MCKeys
    Getters <- MCGetters
    Shrinkers <- OneShrinker
    Reserve = 1
    FreeableKeep = 1
    ScanSizes = {2}
    MaxHeld = 1
    VerifyData = None
    PickResults = {TRUE}
    None = None
    NoKey = NoKey
SPECIFICATION Spec
PROPERTY CannibalizeEnds
