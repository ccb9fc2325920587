\* Two tasks, a ring of two entries, 4-bit counters (16 bytes: four
\* 4-byte bios saturate a stream, and MaxCalls allows four).
CONSTANTS
    t1 = t1
    t2 = t2
    e1 = e1
    e2 = e2
    Tasks <- MCTasks
    Entries <- MCEntries
    Sectors <- MCSectors
    BioSectors <- MCBioSectors
    BlockSize = 2
    SectorBytes = 2
    SeqBits = 4
    Cutoffs <- MCCutoffs
    Thresholds <- MCThresholds
    Elapsed <- MCElapsed
    Counters <- MCCounters
    FractExps <- MCFractExps
    Weights <- MCWeights
    CongestedMax = 3
    IntBits = 3
    MaxCalls = 4
SPECIFICATION Spec
SYMMETRY Symmetry
INVARIANTS TypeOK StreamAccounting AvgBounded LongStreamBypassed
\* Submission is bounded by MaxCalls and time by the windows closing;
\* the sysfs stores stay enabled, so the model never stops.
