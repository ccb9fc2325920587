----------------------------- MODULE SeqBypass -----------------------------
(***************************************************************************)
(* The sequential-I/O detector of a cached device: check_should_bypass()   *)
(* and add_sequential() in request.c, and the sysfs stores of              *)
(* sequential_cutoff, cache_mode and bypass_torture_test that it reads.    *)
(*                                                                         *)
(* dc->io_lru is a ring of RECENT_IO `struct io' entries, each tracking    *)
(* one stream: the sector where it ended (i->last), whether its 5 second   *)
(* window is still open (time_before(jiffies, i->last_io)) and the bytes   *)
(* it has counted (i->sequential).  The io_hash buckets are an index over  *)
(* i->last; a lookup returns the most recently re-hashed entry whose last  *)
(* matches, which is the one latest in the LRU.  Entries start in the      *)
(* extra bucket dc->io_hash[RECENT_IO] that no lookup reaches (NoSector).  *)
(* The whole lookup-and-update runs under dc->io_lock, so one call is one  *)
(* step.  Unsigned counters keep their width: Wrap = 2^SeqBits.            *)
(***************************************************************************)
EXTENDS Naturals, Sequences, SequencesExt, FiniteSets

CONSTANTS
    Tasks,        \* tasks issuing bios (current)
    Entries,      \* the struct io entries of dc->io_lru
    Sectors,      \* start sectors a bio may have
    BioSectors,   \* sizes, in sectors, a bio may have
    BlockSize,    \* c->sb.block_size, in sectors
    SectorBytes,  \* bytes per sector (the >> 9)
    SeqBits,      \* width of i->sequential and the task counters
    Cutoffs,      \* values sysfs may store in dc->sequential_cutoff (bytes)
    Thresholds,   \* values sysfs may store in c->congested_read/write_threshold_us
    Elapsed,      \* (local_clock_us() - c->congested_last_us) / 1024
    Counters,     \* values of atomic c->congested (the I/O path lowers it)
    FractExps,    \* values fract_exp_two(i, 6) may take for an i > 0
    Weights,      \* bitmap_weight() of a get_random_int() word
    CongestedMax, \* CONGESTED_MAX
    IntBits,      \* width of the int i of bch_get_congested()
    MaxCalls      \* bound on the number of bios submitted

ASSUME /\ BlockSize \in Nat \ {0} /\ SectorBytes \in Nat \ {0}
       /\ SeqBits \in Nat /\ MaxCalls \in Nat
       /\ Thresholds \in [{"read", "write"} -> SUBSET Nat]
       /\ \A dir \in {"read", "write"} : 0 \in Thresholds[dir]
       /\ Elapsed \subseteq Nat /\ Counters \subseteq Int
       /\ FractExps \subseteq Nat \ {0} /\ Weights \subseteq Nat
       /\ CongestedMax \in Nat /\ IntBits \in Nat \ {0}

Wrap == 2 ^ SeqBits
NoSector == -1
NoEntry == "none"
Modes == {"writethrough", "writeback", "writearound", "none"}
Ops == {"read", "write", "discard"}
Bios == [op : Ops, sync : BOOLEAN, sector : Sectors, size : BioSectors]
MaxBioBytes == SectorBytes * Max(BioSectors)

VARIABLES
    lru,                \* dc->io_lru, head first
    last,               \* i->last
    fresh,              \* time_before(jiffies, i->last_io)
    sequential,         \* i->sequential
    sequential_io,      \* task->sequential_io
    sequential_io_avg,  \* task->sequential_io_avg
    sequential_cutoff,  \* dc->sequential_cutoff
    mode,               \* BDEV_CACHE_MODE(dc->disk_sb.sb)
    torture,            \* dc->bypass_torture_test
    threshold,          \* c->congested_read/write_threshold_us
    calls,              \* bios submitted so far (bounded by MaxCalls)
    runStart,           \* history: first sector of the stream an entry tracks
    runBytes,           \* history: exact bytes of that stream
    fed,                \* history: largest value fed to a task's average
    result              \* the last call: entry used, cutoff read, bypass

vars == <<lru, last, fresh, sequential, sequential_io, sequential_io_avg,
          sequential_cutoff, mode, torture, threshold, calls, runStart, runBytes, fed,
          result>>
ghost == <<runStart, runBytes, fed, result>>
tracking == <<lru, last, fresh, sequential, sequential_io, sequential_io_avg>>

-----------------------------------------------------------------------------
(* Arithmetic of the unsigned counters.                                    *)

\* ewma_add(ewma, val, weight): (((ewma << weight) - ewma) + val) >> weight,
\* evaluated in the width of ewma.
ewma_add_noshift(ewma, val, weight) ==
    (ewma * 2 ^ weight + (Wrap - ewma) + val) % Wrap
ewma_add(ewma, val, weight) ==
    ((ewma * 2 ^ weight + (Wrap - ewma) + val) % Wrap) \div 2 ^ weight

\* i->sequential += bi_size, only when the sum does not wrap.
SatAdd_wrap(seq, size) == (seq + size) % Wrap
SatAdd(seq, size) ==
    IF (seq + size) % Wrap > seq THEN (seq + size) % Wrap ELSE seq

\* i->sequential = 0 for the entry taken from the LRU head.
StartCount_stale(e) == sequential[e]
StartCount(e) == 0

\* list_move_tail(&i->lru, &dc->io_lru)
move_tail_dup(s, e) == Append(s, e)
move_tail(s, e) == Append(Remove(s, e), e)

IsWrite(b) == b.op # "read"
bio_end_sector(b) == b.sector + b.size

-----------------------------------------------------------------------------
(* bch_get_congested(): the clock, the counter and the random word are     *)
(* inputs; fract_exp_two() is not in this source, so its result for an     *)
(* i > 0 is an input too.                                                  *)

\* The u64 quotient stored into int i: its low IntBits bits, signed.
ToInt(x) == LET m == x % 2 ^ IntBits
            IN  IF m >= 2 ^ (IntBits - 1) THEN m - 2 ^ IntBits ELSE m

\* Whether either congestion threshold is set in sysfs.
ThresholdSet == threshold.read # 0 \/ threshold.write # 0

\* One call, for the elapsed time e, counter n, fract_exp_two() result f
\* and random weight w.
bch_get_congested(e, n, f, w) ==
    LET i == ToInt(e)
        j == i + n + CongestedMax
        k == IF j > 0 THEN f ELSE j
    IN  IF ~ThresholdSet THEN 0
        ELSE IF i < 0 \/ i + n >= 0 THEN 0
        ELSE IF k - w > 0 THEN k - w ELSE 1

\* What bch_get_congested() may return in the current state.
Congested == {bch_get_congested(e, n, f, w) :
                 e \in Elapsed, n \in Counters, f \in FractExps, w \in Weights}

-----------------------------------------------------------------------------
(* check_should_bypass(): the tests before the io_lock, in code order.     *)

\* DETACHING, too little free space, discard, mode none, writearound write,
\* unaligned bio; the first two are the input `early'.
SkipEarly(b, early) ==
    \/ early
    \/ b.op = "discard"
    \/ mode = "none"
    \/ mode = "writearound" /\ IsWrite(b)
    \/ b.sector % BlockSize # 0
    \/ b.size % BlockSize # 0

\* The two `goto rescale' tests ahead of the lookup.
RescaleEarly(b, congested) ==
    \/ congested = 0 /\ sequential_cutoff = 0
    \/ congested = 0 /\ mode = "writeback" /\ IsWrite(b) /\ b.sync

\* One bio that is decided without touching the ring.
Untracked(t, b, congested, early) ==
    /\ \E bypass \in BOOLEAN :
          /\ \/ SkipEarly(b, early) /\ bypass
             \/ ~SkipEarly(b, early) /\ torture    \* (get_random_int() & 3) == 3
             \/ ~SkipEarly(b, early) /\ ~torture /\ RescaleEarly(b, congested)
                /\ ~bypass
          /\ result' = [entry |-> NoEntry, cutoff |-> sequential_cutoff,
                        bypass |-> bypass]
    /\ UNCHANGED <<tracking, runStart, runBytes, fed>>

SequentialSkip_strict(sectors, congested) ==
    \/ sequential_cutoff # 0 /\ sectors > sequential_cutoff \div SectorBytes
    \/ congested # 0 /\ sectors >= congested
\* The bypass decision after the lookup, on the task's counters in sectors.
SequentialSkip(sectors, congested) ==
    \/ sequential_cutoff # 0 /\ sectors >= sequential_cutoff \div SectorBytes
    \/ congested # 0 /\ sectors >= congested

\* The lookup, the update of the entry and of the task, and the bypass
\* decision on max(sequential_io, sequential_io_avg) >> 9.
Tracked(t, b, congested) ==
    LET k     == SelectLastInSeq(lru, LAMBDA e : last[e] = b.sector /\ fresh[e])
        found == k # 0
        i     == IF found THEN lru[k] ELSE Head(lru)
        bytes == b.size * SectorBytes
        avg   == IF found THEN sequential_io_avg[t]
                 ELSE ewma_add(sequential_io_avg[t], sequential_io[t], 3)
        seq   == SatAdd(IF found THEN sequential[i] ELSE StartCount(i), bytes)
    IN
    /\ sequential' = [sequential EXCEPT ![i] = seq]
    /\ last' = [last EXCEPT ![i] = bio_end_sector(b)]
    /\ fresh' = [fresh EXCEPT ![i] = TRUE]
    /\ lru' = move_tail(lru, i)
    /\ sequential_io' = [sequential_io EXCEPT ![t] = seq]
    /\ sequential_io_avg' = [sequential_io_avg EXCEPT ![t] = avg]
    /\ runStart' = [runStart EXCEPT ![i] = IF found THEN @ ELSE b.sector]
    /\ runBytes' = [runBytes EXCEPT ![i] = IF found THEN @ + bytes ELSE bytes]
    /\ fed' = [fed EXCEPT ![t] = IF found THEN @ ELSE Max({@, sequential_io[t]})]
    /\ result' = [entry |-> i, cutoff |-> sequential_cutoff,
                  bypass |-> SequentialSkip(Max({seq, avg}) \div SectorBytes,
                                            congested)]

\* A bio submitted by task t; the result (bypass or not) takes no state
\* beyond bch_mark_sectors_bypassed()'s statistics.
check_should_bypass(t, b, congested, early) ==
    /\ calls < MaxCalls
    /\ calls' = calls + 1
    /\ \/ Untracked(t, b, congested, early)
       \/ /\ ~SkipEarly(b, early) /\ ~torture /\ ~RescaleEarly(b, congested)
          /\ Tracked(t, b, congested)
    /\ UNCHANGED <<sequential_cutoff, mode, torture, threshold>>

\* jiffies passing i->last_io: windows close in the order they were opened,
\* which is LRU order.
Expire ==
    LET k == SelectInSeq(lru, LAMBDA e : fresh[e])
    IN /\ k # 0
       /\ fresh' = [fresh EXCEPT ![lru[k]] = FALSE]
       /\ UNCHANGED <<lru, last, sequential, sequential_io, sequential_io_avg,
                      sequential_cutoff, mode, torture, threshold, calls,
                      ghost>>

-----------------------------------------------------------------------------
(* __cached_dev_store(): the attributes check_should_bypass() reads.       *)

StoreSequentialCutoff(v) ==
    /\ sequential_cutoff' = v
    /\ UNCHANGED <<tracking, mode, torture, threshold, calls, ghost>>

StoreCacheMode(v) ==
    /\ v # mode
    /\ mode' = v
    /\ UNCHANGED <<tracking, sequential_cutoff, torture, threshold, calls,
                   ghost>>

StoreBypassTortureTest(v) ==
    /\ torture' = v
    /\ UNCHANGED <<tracking, sequential_cutoff, mode, threshold, calls, ghost>>

\* bch_cache_set_store(): congested_read/write_threshold_us.
StoreCongestedThreshold(dir, v) ==
    /\ threshold' = [threshold EXCEPT ![dir] = v]
    /\ UNCHANGED <<tracking, sequential_cutoff, mode, torture, calls, ghost>>

-----------------------------------------------------------------------------

Init ==
    /\ lru \in {s \in [1..Cardinality(Entries) -> Entries] :
                    \A e \in Entries : \E n \in DOMAIN s : s[n] = e}
    /\ last = [e \in Entries |-> NoSector]
    /\ fresh = [e \in Entries |-> FALSE]
    /\ sequential = [e \in Entries |-> 0]
    /\ sequential_io = [t \in Tasks |-> 0]
    /\ sequential_io_avg = [t \in Tasks |-> 0]
    /\ sequential_cutoff \in Cutoffs
    /\ mode \in Modes
    /\ torture = FALSE
    /\ threshold = [dir \in {"read", "write"} |-> 0]
    /\ calls = 0
    /\ runStart = [e \in Entries |-> NoSector]
    /\ runBytes = [e \in Entries |-> 0]
    /\ fed = [t \in Tasks |-> 0]
    /\ result = [entry |-> NoEntry, cutoff |-> 0, bypass |-> FALSE]

Next ==
    \/ \E t \in Tasks, b \in Bios, c \in Congested, early \in BOOLEAN :
          check_should_bypass(t, b, c, early)
    \/ Expire
    \/ \E v \in Cutoffs : StoreSequentialCutoff(v)
    \/ \E v \in Modes : StoreCacheMode(v)
    \/ \E v \in BOOLEAN : StoreBypassTortureTest(v)
    \/ \E dir \in {"read", "write"} :
          \E v \in Thresholds[dir] : StoreCongestedThreshold(dir, v)

Spec == Init /\ [][Next]_vars

-----------------------------------------------------------------------------
(* Properties.                                                             *)

\* The ring is always a permutation of the entries and every counter fits
\* its unsigned width.
TypeOK ==
    /\ lru \in [1..Cardinality(Entries) -> Entries]
    /\ \A e \in Entries : \E n \in DOMAIN lru : lru[n] = e
    /\ last \in [Entries -> Sectors \cup {NoSector} \cup {s + n : s \in Sectors, n \in BioSectors}]
    /\ fresh \in [Entries -> BOOLEAN]
    /\ sequential \in [Entries -> 0..Wrap - 1]
    /\ sequential_io \in [Tasks -> 0..Wrap - 1]
    /\ sequential_io_avg \in [Tasks -> 0..Wrap - 1]
    /\ sequential_cutoff \in Cutoffs /\ mode \in Modes /\ torture \in BOOLEAN
    /\ \A dir \in {"read", "write"} : threshold[dir] \in Thresholds[dir]
    /\ calls \in 0..MaxCalls

\* Each entry counts exactly the bytes of one contiguous stream: the stream
\* runs from runStart to i->last, and i->sequential equals its length while
\* that fits, and otherwise stays within one bio of the top (the
\* non-wrapping add of check_should_bypass()).  An entry taken from the LRU
\* head must not carry the count of the stream it evicted.
StreamAccounting ==
    \A e \in Entries : last[e] # NoSector =>
        /\ last[e] = runStart[e] + runBytes[e] \div SectorBytes
        /\ runBytes[e] < Wrap => sequential[e] = runBytes[e]
        /\ runBytes[e] >= Wrap => sequential[e] + MaxBioBytes >= Wrap

\* add_sequential() keeps a moving average: a task's sequential_io_avg
\* never exceeds the longest stream count it has folded in.
AvgBounded ==
    \A t \in Tasks : sequential_io_avg[t] <= fed[t]

\* A bio whose stream, itself included, has reached sequential_cutoff bytes
\* is bypassed, also once i->sequential has stopped growing at the top of
\* its width.
LongStreamBypassed ==
    LET e == result.entry
    IN  e # NoEntry /\ result.cutoff # 0 /\ runBytes[e] >= result.cutoff
          => result.bypass

=============================================================================
