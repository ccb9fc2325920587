------------------------------ MODULE DumpFile ------------------------------
(***************************************************************************)
(* What a debugfs dump file promises its reader, whatever the handler      *)
(* behind it: the file has a fixed content, and read(fd, buf, n) returns   *)
(* the next min(n, bytes left) bytes of it, so 0 exactly at the end, as a  *)
(* regular file does.  DebugDump implements this for the btree and formats *)
(* files, with content the dump of the btree.                              *)
(***************************************************************************)
EXTENDS Naturals, Sequences

CONSTANTS
    ReadSizes   \* the n a reader passes to read()

VARIABLES
    content,    \* the text of the file
    out,        \* what the reader has read so far
    eof,        \* the reader has seen read() return 0
    asked       \* the n of the last read()

vars == <<content, out, eof, asked>>

Left == Len(content) - Len(out)

\* read() of n bytes: the next bytes of the file, or 0 at its end.
Read(n) ==
    /\ ~eof
    /\ LET k == IF n < Left THEN n ELSE Left
       IN /\ out' = out \o SubSeq(content, Len(out) + 1, Len(out) + k)
          /\ eof' = (k = 0)
    /\ asked' = n
    /\ UNCHANGED content

\* The content is any text, fixed from the open on.
Init ==
    /\ out = << >>
    /\ eof = FALSE
    /\ asked = 0

Next == \E n \in ReadSizes : Read(n)

\* What every read returns.
SafeSpec == Init /\ [][Next]_vars

\* The reader keeps reading until end of file.
Spec == SafeSpec /\ WF_vars(Next)

=============================================================================
