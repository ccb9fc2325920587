---------------------------- MODULE MCBtreeCache ----------------------------
(* Instantiates BtreeCache for TLC: three btree containers, two keys, two  *)
(* getter threads and one shrinker.  The reserve (16 + 8 per interior root *)
(* in the code) and the freeable nodes the scan keeps (3) are scaled down  *)
(* to the number of containers, so that the cache can grow past the        *)
(* reserve and both scan loops free nodes.                                 *)
EXTENDS BtreeCache, TLC

CONSTANTS n1, n2, n3, k1, k2, g1, g2, s1, s2

MCNodes == {n1, n2, n3}
MCKeys == {k1, k2}
TwoNodes == {n1, n2}
OneKey == {k1}
NoShrinkers == {}
MCGetters == {g1, g2}
OneShrinker == {s1}
TwoShrinkers == {s1, s2}

\* Keys and getter threads are interchangeable (safety runs only).
KeyGetterSymmetry == Permutations(MCKeys) \cup Permutations(MCGetters)

\* The arguments of an idle getter and the locals of an idle shrinker are
\* dead (overwritten by the next call), and usedSinceScan is a history
\* variable read by no action: states that differ only there behave alike.
IdleWant == [key |-> NoKey, mode |-> "read", node |-> None]
IdleScan == [nr |-> 0, freed |-> 0, io |-> FALSE, node |-> None]
LiveStateView ==
    << lists, nodeState, locks, verifyVars, pc, held,
       [t \in Getters |-> IF pc[t] = "idle" THEN IdleWant ELSE want[t]],
       [s \in Shrinkers |-> IF pc[s] = "idle" THEN IdleScan ELSE scan[s]] >>

=============================================================================
