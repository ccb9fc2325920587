\* The formats dump of a btree with a node boundary just before POS_MAX.
CONSTANTS
    KeyPos <- MCKeyPos
    PosMax = 4
    Files <- FormatsFile
    KeyLineLen = 2
    HeaderLen = 2
    ReadSizes = {1, 2, 3}
    MappedLens <- AllMapped
    MaxOutput = 8
SPECIFICATION Spec
CHECK_DEADLOCK FALSE
INVARIANT DumpFaithful
