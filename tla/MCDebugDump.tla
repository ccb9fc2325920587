----------------------------- MODULE MCDebugDump -----------------------------
(* Instantiates DebugDump for TLC: three key positions, so that a btree    *)
(* has up to three keys in up to four leaf nodes; lines of two bytes, so   *)
(* that a one-byte read stops in the middle of one.  POS_MAX is 5, or 4    *)
(* for a btree whose last key position is just before it.                 *)
EXTENDS DebugDump

MCKeyPos == 1..3
AllFiles == {"btree", "formats", "bfloat"}
BfloatFile == {"bfloat"}
AllMapped == {3}
BtreeFile == {"btree"}
FormatsFile == {"formats"}
PartlyMapped == 0..3
=============================================================================
