------------------------------ MODULE DebugDump ------------------------------
(***************************************************************************)
(* The debugfs btree dump files of libbcache (debug.c).                    *)
(*                                                                         *)
(* An open file keeps a struct dump_iter: the position to resume from      *)
(* (i->from) and the text printed but not yet copied out (i->buf,          *)
(* i->bytes).  Every read() first flushes what is pending, then walks the  *)
(* btree from i->from, printing into i->buf and flushing it into the user  *)
(* buffer until that is full.  Three files share this protocol: "btree"    *)
(* (one line per key, bch_read_btree), "formats" (one header per leaf      *)
(* node, bch_read_btree_formats) and "bfloat" (a node header, then the     *)
(* failed bfloat of each key, bch_read_bfloat_failed).                     *)
(*                                                                         *)
(* Printed text is abstracted to bytes that name the record they belong    *)
(* to and their offset in it, so that a lost, repeated or invented byte    *)
(* is visible.  Reads of one open file are serialized by the VFS (f_pos    *)
(* lock), so each read() is one step; the btree does not change while it  *)
(* is dumped.                                                              *)
(***************************************************************************)
EXTENDS Integers, Sequences, FiniteSets, SequencesExt

CONSTANTS
    KeyPos,       \* positions a key, and so a node boundary, may have
    PosMax,       \* POS_MAX, past every key position
    Files,        \* the dump files that may be open
    KeyLineLen,   \* bytes of one key line, '\n' included
    HeaderLen,    \* bytes of one bch_print_btree_node() header
    ReadSizes,    \* sizes passed to read()
    MappedLens,   \* bytes of the user buffer that are mapped
    MaxOutput     \* bound on the bytes a reader takes before it gives up

ASSUME /\ KeyPos \subseteq Nat \ {0} /\ KeyPos # {}
       /\ PosMax \in Nat /\ \A p \in KeyPos : p < PosMax
       /\ Files \subseteq {"btree", "formats", "bfloat"}
       /\ KeyLineLen \in Nat \ {0} /\ HeaderLen \in Nat \ {0}
       /\ ReadSizes \subseteq Nat \ {0}
       /\ MappedLens \subseteq Nat
       /\ MaxOutput \in Nat

Pos == KeyPos \cup {PosMax}

VARIABLES
    file,     \* which dump this open file is
    keys,     \* positions that hold a key in the dumped btree
    nodeMax,  \* the max key of every leaf node (the last is POS_MAX)
    bfailed,  \* keys whose bkey_float failed: bch_bkey_print_bfloat() prints one byte
    from,     \* i->from
    buf,      \* i->buf[0 .. i->bytes)
    out,      \* what the reader has taken as data, over all its reads
    eof,      \* the reader has seen read() return 0
    asked     \* the size passed to the last read()

btree == <<file, keys, nodeMax, bfailed>>
vars == <<btree, from, buf, out, eof, asked>>

-----------------------------------------------------------------------------
(* Printed text                                                            *)

\* The bytes of one printed record r = <<kind, position>>.
Text(r, n) == [j \in 1..n |-> [rec |-> r, at |-> j]]

KeyLine(k) == Text(<<"key", k>>, KeyLineLen)
Header(m) == Text(<<"hdr", m>>, HeaderLen)
Bfloat(k) == Text(<<"bf", k>>, IF k \in bfailed THEN 1 ELSE 0)

\* A byte of the user buffer that no copy_to_user() wrote.
Garbage == [rec |-> <<"garbage", 0>>, at |-> 0]

Ascending(S) == SetToSortSeq(S, <)

\* The leaf node that holds position p.
NodeOf(p) == Min({m \in nodeMax : m >= p})

KeysOf(m) == {k \in keys : NodeOf(k) = m}

-----------------------------------------------------------------------------
(* flush_buf() and the read() handlers                                     *)

\* The locals of one read(): pending text, resume position, i->size,
\* i->ret, the bytes written into the user buffer, the mapped length of
\* that buffer, the last error, and the previous node (bfloat only).
ReadState(sz, mapped) ==
    [buf |-> buf, from |-> from, size |-> sz, ret |-> 0, got |-> << >>,
     mapped |-> mapped, err |-> 0, prev |-> 0]

\* Mutant: the copied bytes are not removed from i->buf.
flush_buf_nomove(st) ==
    IF st.buf = << >> THEN [st EXCEPT !.err = 0]
    ELSE LET n == IF Len(st.buf) < st.size THEN Len(st.buf) ELSE st.size
         IN [st EXCEPT !.got = SubSeq(@, 1, st.ret) \o SubSeq(st.buf, 1, n),
                       !.ret = @ + n, !.size = @ - n, !.err = 0]

\* flush_buf(): copy min(i->bytes, i->size) bytes to the user buffer.
\* copy_to_user() stops at the first unmapped byte and returns how many
\* it did not copy; flush_buf() then returns that count and changes
\* nothing.
flush_buf(st) ==
    IF st.buf = << >> THEN [st EXCEPT !.err = 0]
    ELSE LET n == IF Len(st.buf) < st.size THEN Len(st.buf) ELSE st.size
             copied == IF st.ret + n <= st.mapped THEN n
                       ELSE IF st.mapped > st.ret THEN st.mapped - st.ret ELSE 0
         IN [st EXCEPT !.got = SubSeq(@, 1, st.ret) \o SubSeq(st.buf, 1, copied),
                       !.ret = IF copied = n THEN @ + n ELSE @,
                       !.size = IF copied = n THEN @ - n ELSE @,
                       !.buf = IF copied = n THEN SubSeq(@, n + 1, Len(@)) ELSE @,
                       !.err = n - copied]

RECURSIVE ReadBtreeLoop(_)
ReadBtreeLoop(st) ==
    LET ks == {k \in keys : k >= st.from} IN
    IF ks = {} THEN st
    ELSE LET k == Min(ks)
             st2 == flush_buf([st EXCEPT !.buf = KeyLine(k), !.from = k + 1])
         IN IF st2.err # 0 \/ st2.size = 0 THEN st2 ELSE ReadBtreeLoop(st2)

\* Mutant: bkey_successor() is taken of POS_MAX too.
NextFrom_nomax(m) == m + 1

\* The resume position after node m: bkey_successor(), except at POS_MAX.
NextFrom(m) == IF m # PosMax THEN m + 1 ELSE m

\* The loop of bch_read_btree_formats(): for_each_btree_node() from the
\* leaf node holding position p, print its header and flush, then set
\* i->from past it; stop on an error, a full user buffer or the last node.
RECURSIVE ReadFormatsLoop(_, _)
ReadFormatsLoop(st, p) ==
    LET ms == {m \in nodeMax : m >= p} IN
    IF ms = {} THEN st
    ELSE LET m == Min(ms)
             st2 == flush_buf([st EXCEPT !.buf = Header(m)])
             st3 == [st2 EXCEPT !.from = NextFrom(m)]
         IN IF st2.err # 0 THEN st2
            ELSE IF st3.size = 0 THEN st3
            ELSE ReadFormatsLoop(st3, m + 1)

\* The loop of bch_read_bfloat_failed(): a header whenever the node
\* changes, then the key's bfloat text, each flushed at once.
RECURSIVE ReadBfloatLoop(_)
ReadBfloatLoop(st) ==
    LET ks == {k \in keys : k >= st.from} IN
    IF ks = {} THEN st
    ELSE LET k == Min(ks)
             b == NodeOf(k)
             st1 == IF b # st.prev THEN flush_buf([st EXCEPT !.buf = Header(b)])
                    ELSE st
             st2 == flush_buf([st1 EXCEPT !.prev = b, !.buf = Bfloat(k)])
             st3 == flush_buf([st2 EXCEPT !.from = k + 1])
         IN IF st1.err # 0 THEN st1
            ELSE IF st2.err # 0 THEN [st2 EXCEPT !.prev = b]
            ELSE IF st3.err # 0 \/ st3.size = 0 THEN st3
            ELSE ReadBfloatLoop(st3)

\* The common head of the three handlers: flush what is pending and
\* return its error, or i->ret when the user buffer is already full (or,
\* for formats, the walk has reached POS_MAX); else run the loop and
\* return i->ret (a positive error from the loop is dropped).
\* The result is the final locals and the value read() returns.
DumpRead(sz, mapped) ==
    LET st0 == ReadState(sz, mapped)
        st1 == flush_buf(st0)
        done == st1.size = 0 \/ (file = "formats" /\ st1.from = PosMax)
        st2 == IF st1.err # 0 \/ done THEN st1
               ELSE CASE file = "btree"   -> ReadBtreeLoop(st1)
                      [] file = "formats" -> ReadFormatsLoop(st1, st1.from)
                      [] file = "bfloat"  -> ReadBfloatLoop(st1)
    IN [st |-> st2, ret |-> IF st1.err # 0 THEN st1.err ELSE st2.ret]

\* The reader takes the first r bytes of its buffer as data.
Accept(got, r) == [j \in 1..r |-> IF j <= Len(got) THEN got[j] ELSE Garbage]

\* One read(fd, ubuf, sz) on the open dump file, whose first `mapped`
\* bytes of ubuf are mapped.  A return of 0 is end of file.  (The reader
\* stops after MaxOutput bytes, a bound above the longest dump.)
bch_read(sz, mapped) ==
    /\ ~eof
    /\ Len(out) <= MaxOutput
    /\ \E r \in {DumpRead(sz, mapped)} :
       /\ from' = r.st.from
       /\ buf' = r.st.buf
       /\ out' = out \o Accept(r.st.got, r.ret)
       /\ eof' = (r.ret = 0)
       /\ asked' = sz
       /\ UNCHANGED btree

-----------------------------------------------------------------------------
(* The specification                                                       *)

\* bch_dump_open(): a zeroed dump_iter with i->from = POS_MIN, on any btree
\* whose last leaf node ends at POS_MAX.
Init ==
    /\ file \in Files
    /\ keys \in SUBSET KeyPos
    /\ nodeMax \in {M \cup {PosMax} : M \in SUBSET KeyPos}
    /\ bfailed \in SUBSET keys
    /\ from = Min(Pos)
    /\ buf = << >>
    /\ out = << >>
    /\ eof = FALSE
    /\ asked = 0

Next == \E sz \in ReadSizes, mapped \in MappedLens : bch_read(sz, mapped)

\* The reader (cat) keeps reading until end of file.
Spec == Init /\ [][Next]_vars /\ WF_vars(Next)

-----------------------------------------------------------------------------
(* Properties                                                              *)

\* The whole dump each file should produce.
Expected ==
    CASE file = "btree" ->
           FlattenSeq([i \in 1..Cardinality(keys) |-> KeyLine(Ascending(keys)[i])])
      [] file = "formats" ->
           FlattenSeq([i \in 1..Cardinality(nodeMax) |-> Header(Ascending(nodeMax)[i])])
      [] file = "bfloat" ->
           LET ms == Ascending({m \in nodeMax : KeysOf(m) # {}})
               NodeText(m) == Header(m) \o
                   FlattenSeq([i \in 1..Cardinality(KeysOf(m)) |-> Bfloat(Ascending(KeysOf(m))[i])])
           IN FlattenSeq([i \in 1..Len(ms) |-> NodeText(ms[i])])

TypeOK ==
    /\ file \in Files
    /\ keys \subseteq KeyPos /\ nodeMax \subseteq Pos /\ bfailed \subseteq keys
    /\ from \in 1..PosMax
    /\ buf \in Seq([rec : {"key", "hdr", "bf"} \X Pos, at : Nat])
    /\ eof \in BOOLEAN
    /\ asked \in {0} \cup ReadSizes

\* What the reader has got over its reads is always the start of the
\* dump: no byte lost, repeated or invented by the resume protocol of
\* flush_buf() and i->from; and at end of file it is the whole dump.
DumpFaithful ==
    /\ IsPrefix(out, Expected)
    /\ eof => out = Expected

\* The bfloat lines (not the node headers) the reader gets are exactly
\* those of the dump, in order, complete at end of file.
IsBfloatByte(x) == x.rec[1] = "bf"
BfloatLinesFaithful ==
    /\ IsPrefix(SelectSeq(out, IsBfloatByte), SelectSeq(Expected, IsBfloatByte))
    /\ eof => SelectSeq(out, IsBfloatByte) = SelectSeq(Expected, IsBfloatByte)

\* Refinement: for the btree and formats files, every read() of n bytes
\* returns exactly the next min(n, left) bytes of the dump, and 0 only at
\* its end (DumpFile).  This rules out short reads as well as lost,
\* repeated or invented bytes: bch_read_btree() and
\* bch_read_btree_formats() loop until the user buffer is full.
\* The bfloat file, whose headers may be cut short, is mapped to a reader
\* that has read nothing.
KeyFile == file # "bfloat"
AsFile == INSTANCE DumpFile WITH content <- Expected,
              out <- IF KeyFile THEN out ELSE << >>, eof <- KeyFile /\ eof,
              asked <- IF KeyFile THEN asked ELSE 0
=============================================================================
