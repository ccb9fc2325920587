----------------------------- MODULE MCRequest -----------------------------
(* Bios for checking Request with TLC.                                     *)
EXTENDS Request, TLC

CONSTANTS r1, r2

TwoReqs == {r1, r2}
OneReq == {r1}
ReqSymmetry == Permutations(TwoReqs)

\* A bio with the given fields and the rest at their plain values.
Plain == [dev |-> "cached", op |-> "read", size0 |-> FALSE, flush |-> FALSE,
          bypass |-> FALSE, overlap |-> FALSE, shouldWb |-> FALSE,
          nospace |-> FALSE, exts |-> << >>]

\* Extent layouts of one or two extents over the given kinds.
Layouts(K) == {<<x>> : x \in K} \cup {<<x, y>> : x, y \in K}

CachedReads(K) ==
    {[Plain EXCEPT !.bypass = by, !.exts = e] : by \in BOOLEAN, e \in Layouts(K)}

CachedWrites ==
    {[Plain EXCEPT !.op = op, !.flush = f, !.bypass = by, !.overlap = ov,
                   !.shouldWb = sw] :
        op \in {"write", "discard"}, f \in BOOLEAN, by \in BOOLEAN,
        ov \in BOOLEAN, sw \in BOOLEAN}

CachedFlushes ==
    {[Plain EXCEPT !.op = "write", !.size0 = TRUE, !.flush = f] : f \in BOOLEAN}

VolumeBios ==
    {[Plain EXCEPT !.dev = "volume", !.op = op, !.size0 = z, !.flush = z,
                   !.nospace = ns] :
        op \in {"read", "write", "discard"}, z \in BOOLEAN, ns \in BOOLEAN}

\* Every kind of bio, with reads meeting hits, holes and keys with no
\* device.
AllBios == CachedReads({"hit", "miss", "nodev"}) \cup CachedWrites
             \cup CachedFlushes \cup VolumeBios

\* A read whose path puts every closure reference it takes, bypassed or
\* not (a detach bypasses every bio): no promoted miss, and s->rbio is not
\* read from the cache.
BalancedRead(b) ==
    \A by \in {b.bypass, TRUE} :
        /\ cache_promote_refs(b, by) = 0
        /\ \A i \in cached_dev_read_ios(b, by) : i.kind # "cache"

\* The bios whose paths put every closure reference they take: balanced
\* reads, writes that overlap writeback keys (they go to writeback even
\* while the device detaches, when check_should_bypass() bypasses
\* everything), flushes, volume bios, and discards when the backing device
\* does not support them (otherwise the bypass path sends the original
\* bio, which puts nothing).
CompletingBios ==
    {b \in AllBios : \/ b.op = "read" /\ ~b.size0 /\ b.dev = "cached" /\ BalancedRead(b)
                     \/ b.op = "write" /\ b.overlap
                     \/ b.op = "discard" /\ ~DiscardOk
                     \/ b.size0 \/ b.dev = "volume"}

\* A read miss that is promoted into the cache.
PromotedMiss == {[Plain EXCEPT !.exts = <<"miss">>]}

\* A write that bypasses the cache.
BypassWrite == {[Plain EXCEPT !.op = "write", !.bypass = TRUE]}

\* A writethrough write.
WritethroughWrite == {[Plain EXCEPT !.op = "write"]}

LeakingBios == PromotedMiss \cup BypassWrite \cup WritethroughWrite

\* Reads that meet a key with no device to read from.
NodevReads == CachedReads({"hit", "nodev"})

\* A read of one extent that hits the cache.
HitRead == {[Plain EXCEPT !.exts = <<"hit">>]}

=============================================================================
