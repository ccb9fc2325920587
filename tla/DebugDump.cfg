\* The three dump files, read with every buffer size, never fault.
CONSTANTS
    KeyPos <- MCKeyPos
    PosMax = 5
    Files <- AllFiles
    KeyLineLen = 2
    HeaderLen = 2
    ReadSizes = {1, 2, 3}
    MappedLens <- AllMapped
    MaxOutput = 8
SPECIFICATION Spec
CHECK_DEADLOCK FALSE
INVARIANT TypeOK
INVARIANT BfloatLinesFaithful
 
