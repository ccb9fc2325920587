---------------------------- MODULE MCSeqBypass ----------------------------
EXTENDS SeqBypass, TLC

CONSTANTS t1, t2, e1, e2

MCTasks == {t1, t2}
MCEntries == {e1, e2}
\* Aligned streams 0, 2, 4, 6 with 2-sector bios, and one unaligned start.
MCSectors == {0, 1, 2, 4, 6}
MCBioSectors == {2}
\* 0 disables the detector; 8 bytes is two bios.
MCCutoffs == {0, 8}
\* bch_get_congested() reads the two thresholds only through their OR, so
\* the write one stays 0 and the read one is off or on.  A quotient of 9 wraps the 3-bit int to 1, one
\* of 5 to -3; with CONGESTED_MAX 3 a congested call returns 2.
MCThresholds == [read |-> {0, 2000}, write |-> {0}]
MCElapsed == {0, 5, 9}
MCCounters == {0, -2}
MCFractExps == {3}
MCWeights == {1}
Symmetry == Permutations(MCTasks) \cup Permutations(MCEntries)
=============================================================================
