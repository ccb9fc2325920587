\* The btree dump read into a user buffer that is only partly mapped.
CONSTANTS
    KeyPos <- MCKeyPos
    PosMax = 5
    Files <- BtreeFile
    KeyLineLen = 2
    HeaderLen = 2
    ReadSizes = {1, 2, 3}
    MappedLens <- PartlyMapped
    MaxOutput = 8
SPECIFICATION Spec
CHECK_DEADLOCK FALSE
INVARIANT DumpFaithful
