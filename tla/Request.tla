------------------------------ MODULE Request ------------------------------
(***************************************************************************)
(* The request path of libbcache (request.c): the life of a struct search  *)
(* and of its closure, for bios sent to a cached device or to a blockdev  *)
(* volume.                                                                 *)
(*                                                                         *)
(* A search owns a closure (s->cl).  closure_init() gives it one           *)
(* reference, held by the code that runs it; closure_bio_submit(),         *)
(* closure_get() and closure_call() take one more for each I/O or child    *)
(* they start, and that I/O's completion puts it.  continue_at(cl, fn)     *)
(* drops the running reference; the put that brings the count to zero      *)
(* runs fn.  The search is freed by its last continuation, which also      *)
(* completes the submitter's bio (bio_complete()) and drops the            *)
(* cached_dev reference taken by cached_dev_get().                         *)
(*                                                                         *)
(* The submit path of a bio (make_request up to its continue_at()) runs    *)
(* in the submitter's context with the closure held, so no continuation    *)
(* can run in the middle of it: it is one step.  I/O completions and       *)
(* continuations are steps of their own, in any order.                     *)
(***************************************************************************)
EXTENDS Naturals, Sequences, FiniteSets

CONSTANTS
    Reqs,       \* the bios submitted, each at most once
    Bios,       \* what a submitted bio may be: records, see BioType
    NoBio,      \* model value: no bio submitted yet
    MaxExt,     \* most extents a read covers
    Verify,     \* dc->verify
    DiscardOk,  \* blk_queue_discard() of the backing device
    FailIO      \* outcomes of an I/O: TRUE is an error

\* A bio as the request path sees it.  bypass is what check_should_bypass()
\* decides from everything but DETACHING; shouldWb is should_writeback();
\* overlap is bch_keybuf_check_overlapping(); nospace is a failed
\* bch_disk_reservation_get(); exts are the extents a read meets, each a
\* cache hit, a hole (miss), or a key with no device to read from.
BioType ==
    [dev : {"cached", "volume"}, op : {"read", "write", "discard"},
     size0 : BOOLEAN, flush : BOOLEAN, bypass : BOOLEAN, overlap : BOOLEAN,
     shouldWb : BOOLEAN, nospace : BOOLEAN,
     exts : Seq({"hit", "miss", "nodev"})]

ASSUME /\ Bios \subseteq BioType /\ NoBio \notin Bios
       /\ \A b \in Bios : Len(b.exts) <= MaxExt
       /\ Verify \in BOOLEAN /\ DiscardOk \in BOOLEAN
       /\ FailIO \subseteq BOOLEAN /\ FailIO # {}

\* The I/Os and children a search waits for.  covers is the set of extents
\* an I/O reads (0: the whole bio).  "cache" is s->rbio read from the
\* cache by bch_read_extent(), "volread" s->rbio read by bch_read().
IoKinds == {"backing", "cache", "volread", "write", "journal", "orig", "clone"}
IO == [kind : IoKinds, covers : SUBSET (0..MaxExt)]
Io(k, c) == [kind |-> k, covers |-> c]

\* Bios that end in request_endio(): those sent to the backing device, and
\* s->rbio, whose bi_end_io do_bio_hook() sets, when io.c ends it.
EndsInRequestEndio == {"backing", "cache", "volread"}

\* I/Os whose completion puts the search's closure: bios ending in
\* request_endio(), the bch_write() child closure and the journal flush
\* wait.  The original bio ("orig")
\* ends in the submitter's bi_end_io and a bio_clone_fast() clone
\* ("clone") has no bi_end_io: neither puts the closure.
PutsRef(i) == i.kind \in EndsInRequestEndio \cup {"write", "journal"}

TakesRef(i) == i.kind # "cache"

\* Where a search is: not yet submitted, waiting for its references,
\* a continuation that is due, freed, or sent past the cache.
Conts == {"cached_dev_read_done_bh", "cached_dev_read_error",
          "cached_dev_read_done", "cached_dev_bio_complete",
          "cached_dev_write_complete", "search_free"}
PCs == {"idle", "wait", "done", "passthrough"} \cup Conts

VARIABLES
    bio,          \* the bio each request carries
    pc,           \* where its search is
    cont,         \* the continuation set by continue_at()
    rem,          \* closure remaining count
    ios,          \* I/Os in flight for it
    err,          \* s->iop.error # 0
    recoverable,  \* s->recoverable
    served,       \* extents (0: the whole bio) a successful I/O has read
    ended,        \* how often the submitter's bio was completed
    result,       \* the status it was completed with
    dcCount,      \* dc->count
    detaching,    \* BCACHE_DEV_DETACHING
    detached,     \* dc->count reached 0 and the detach work was scheduled
    wbReaders     \* readers of dc->writeback_lock

search == <<bio, pc, cont, rem, ios, err, recoverable, served, ended, result>>
dev == <<dcCount, detaching, detached, wbReaders>>
vars == <<search, dev>>

Live(r) == pc[r] \notin {"idle", "done", "passthrough"}
IsCached(r) == bio[r] # NoBio /\ bio[r].dev = "cached"

-----------------------------------------------------------------------------
(* Closures                                                                *)

\* Mutant: the put that leaves one reference already runs the continuation.
Put_offbyone(r) ==
    CASE pc[r] = "wait" /\ rem[r] <= 2 ->
            pc' = [pc EXCEPT ![r] = cont[r]] /\ UNCHANGED rem
      [] pc[r] = "done" -> UNCHANGED <<pc, rem>>
      [] OTHER -> rem' = [rem EXCEPT ![r] = @ - 1] /\ UNCHANGED pc

\* continue_at(cl, fn): set fn and drop the running reference, leaving
\* `refs`; with none left fn is due at once, holding the closure again.
ContinueAt(r, refs, fn) ==
    /\ cont' = [cont EXCEPT ![r] = fn]
    /\ pc' = [pc EXCEPT ![r] = IF refs = 0 THEN fn ELSE "wait"]
    /\ rem' = [rem EXCEPT ![r] = IF refs = 0 THEN 1 ELSE refs]

\* closure_put() from an I/O completion: the last put makes the
\* continuation due.  A put on a freed search changes nothing here;
\* NoUseAfterFree says it never happens.
Put(r) ==
    CASE pc[r] = "wait" /\ rem[r] = 1 ->
            pc' = [pc EXCEPT ![r] = cont[r]] /\ UNCHANGED rem
      [] pc[r] = "done" -> UNCHANGED <<pc, rem>>
      [] OTHER -> rem' = [rem EXCEPT ![r] = @ - 1] /\ UNCHANGED pc

\* cached_dev_put(): the last reference schedules the detach work.
cached_dev_put ==
    /\ dcCount' = dcCount - 1
    /\ detached' = (dcCount = 1)

\* search_free(): bio_complete() ends the submitter's bio with
\* s->iop.error, then the search is freed.
SearchFree(r) ==
    /\ ended' = [ended EXCEPT ![r] = @ + 1]
    /\ result' = [result EXCEPT ![r] = IF err[r] THEN "err" ELSE "ok"]
    /\ pc' = [pc EXCEPT ![r] = "done"]
    /\ rem' = [rem EXCEPT ![r] = 0]

-----------------------------------------------------------------------------
(* Submitting a bio                                                        *)

\* Mutant: atomic_inc() in place of atomic_inc_not_zero().
cached_dev_get_inc == TRUE

\* cached_dev_get(): take a reference unless the count is already zero.
cached_dev_get == dcCount > 0

\* should_writeback() (writeback.h): never for a write that would be
\* skipped; otherwise as the device's mode and dirty level say.
should_writeback(b, bypass) == b.shouldWb /\ ~bypass

\* The extents cached_dev_read() visits: it stops at the first key with
\* no device to read from (bcache_io_error(), goto out).
Visited(b) ==
    LET stop == {i \in 1..Len(b.exts) : b.exts[i] = "nodev"}
    IN IF stop = {} THEN 1..Len(b.exts)
       ELSE 1..((CHOOSE i \in stop : \A j \in stop : i <= j) - 1)

\* cached_dev_read() and cached_dev_cache_miss().  Every hit is read into
\* s->rbio by bch_read_extent(); io.c ends s->rbio once, after its last
\* part (BCH_READ_IS_LAST).  A miss that is not the end of the bio is split
\* off by bio_next_split(): bypassed, it is submitted to the backing
\* device; otherwise it takes closure_get() and goes to __cache_promote(),
\* whose body is compiled out.  A miss at the end of the bio is s->rbio
\* itself, so s->rbio then ends through the backing device, or never.  When
\* the loop stops at a key with no device, s->rbio is never ended.
cached_dev_read_ios(b, bypass) ==
    LET n == Len(b.exts)
        hits == {j \in Visited(b) : b.exts[j] = "hit"}
        whole == Visited(b) = 1..n
        lastMiss == whole /\ b.exts[n] = "miss"
        split == {j \in Visited(b) : b.exts[j] = "miss"} \ (IF lastMiss THEN {n} ELSE {})
    IN  (IF bypass THEN {Io("backing", {j}) : j \in split} ELSE {})
          \cup CASE ~whole -> {}
                 [] lastMiss -> IF bypass THEN {Io("backing", hits \cup {n})} ELSE {}
                 [] OTHER -> {Io("cache", hits)}

\* The closure_get()s of cached_dev_cache_miss() for promoted misses.
cache_promote_refs(b, bypass) ==
    IF bypass THEN 0 ELSE Cardinality({j \in Visited(b) : b.exts[j] = "miss"})

\* cached_dev_write(): a bypassed write sends s->orig_bio itself to the
\* backing device (a discard only if the device takes discards); a
\* writeback write sends only a flush, if asked; a writethrough write
\* sends a bio_clone_fast() clone.  Every write also runs bch_write() as
\* a child closure.
cached_dev_write_ios(b, bypass0) ==
    LET bypass1 == bypass0 /\ ~b.overlap
        bypass2 == bypass1 \/ b.op = "discard"
        sw == should_writeback(b, bypass2)
        bypass == bypass2 /\ ~sw
        writeback == b.overlap \/ sw
    IN {Io("write", {0})} \cup
       CASE bypass -> IF b.op # "discard" \/ DiscardOk THEN {Io("orig", {0})} ELSE {}
         [] writeback -> IF b.flush THEN {Io("backing", {0})} ELSE {}
         [] OTHER -> {Io("clone", {0})}

\* A zero-size bio: a journal flush for PREFLUSH/FUA and the clone sent to
\* the backing device.
cached_dev_flush_ios(b) ==
    (IF b.flush THEN {Io("journal", {0})} ELSE {}) \cup {Io("backing", {0})}

\* search_alloc(): a fresh search, recoverable and without error.
search_alloc(r, b, e) ==
    /\ bio' = [bio EXCEPT ![r] = b]
    /\ err' = [err EXCEPT ![r] = e]
    /\ recoverable' = [recoverable EXCEPT ![r] = TRUE]
    /\ served' = [served EXCEPT ![r] = {}]

\* __cached_dev_make_request(): without a cached_dev reference the bio
\* goes straight to the backing device (or, a discard it cannot take,
\* ends at once).  Otherwise a search is set up and the flush, read or
\* write path starts its I/O and continues at its completion.
cached_dev_make_request(r, b) ==
    /\ pc[r] = "idle" /\ b.dev = "cached"
    /\ IF ~cached_dev_get
       THEN /\ bio' = [bio EXCEPT ![r] = b]
            /\ pc' = [pc EXCEPT ![r] = "passthrough"]
            /\ ended' = [ended EXCEPT ![r] = 1]
            /\ result' = [result EXCEPT ![r] = "ok"]
            /\ UNCHANGED <<cont, rem, ios, err, recoverable, served, dev>>
       ELSE LET bypass == detaching \/ b.op = "discard" \/ b.bypass
                new == CASE b.size0 -> cached_dev_flush_ios(b)
                         [] b.op = "read" -> cached_dev_read_ios(b, bypass)
                         [] OTHER -> cached_dev_write_ios(b, bypass)
                extra == IF ~b.size0 /\ b.op = "read"
                         THEN cache_promote_refs(b, bypass) ELSE 0
                fn == CASE b.size0 -> "cached_dev_bio_complete"
                        [] b.op = "read" -> "cached_dev_read_done_bh"
                        [] OTHER -> "cached_dev_write_complete"
            IN /\ dcCount' = dcCount + 1
               /\ wbReaders' = IF ~b.size0 /\ b.op # "read"
                               THEN wbReaders + 1 ELSE wbReaders
               /\ search_alloc(r, b, FALSE)
               /\ ios' = [ios EXCEPT ![r] = new]
               /\ ContinueAt(r, Cardinality({i \in new : TakesRef(i)}) + extra, fn)
               /\ UNCHANGED <<ended, result, detaching, detached>>

\* __blockdev_volume_make_request(): a flush waits for the journal; a
\* write without a disk reservation fails with -ENOSPC; a write runs
\* bch_write() as a child; a read takes closure_get() for bch_read().
\* All continue at search_free().
blockdev_volume_make_request(r, b) ==
    /\ pc[r] = "idle" /\ b.dev = "volume"
    /\ LET nospace == ~b.size0 /\ b.op = "write" /\ b.nospace
           new == CASE b.size0 -> IF b.flush THEN {Io("journal", {0})} ELSE {}
                    [] nospace -> {}
                    [] b.op = "read" -> {Io("volread", {0})}
                    [] OTHER -> {Io("write", {0})}
       IN /\ search_alloc(r, b, nospace)
          /\ ios' = [ios EXCEPT ![r] = new]
          /\ ContinueAt(r, Cardinality({i \in new : TakesRef(i)}), "search_free")
    /\ UNCHANGED <<ended, result, dev>>

-----------------------------------------------------------------------------
(* I/O completions                                                         *)

Done(r, i) == ios' = [ios EXCEPT ![r] = @ \ {i}]

\* Mutant: no closure_put().
request_endio_noput(r, i, fail) ==
    /\ i \in ios[r] /\ i.kind \in EndsInRequestEndio
    /\ Done(r, i)
    /\ err' = IF fail THEN [err EXCEPT ![r] = TRUE] ELSE err
    /\ recoverable' = IF fail THEN [recoverable EXCEPT ![r] = FALSE] ELSE recoverable
    /\ served' = IF fail THEN served ELSE [served EXCEPT ![r] = @ \cup i.covers]
    /\ UNCHANGED <<bio, cont, pc, rem, ended, result, dev>>

\* request_endio(): a failed bio sets s->iop.error and makes the search
\* unrecoverable ("only cache read errors are recoverable"), whichever
\* device it was read from: s->rbio ends here too, after a cache read.
request_endio(r, i, fail) ==
    /\ i \in ios[r] /\ i.kind \in EndsInRequestEndio
    /\ Done(r, i)
    /\ err' = IF fail THEN [err EXCEPT ![r] = TRUE] ELSE err
    /\ recoverable' = IF fail THEN [recoverable EXCEPT ![r] = FALSE] ELSE recoverable
    /\ served' = IF fail THEN served ELSE [served EXCEPT ![r] = @ \cup i.covers]
    /\ Put(r)
    /\ UNCHANGED <<bio, cont, ended, result, dev>>

\* The bch_write() child closure returns to its parent, with its error in
\* s->iop.error; or the journal flush wait ends.
child_done(r, i, fail) ==
    /\ i \in ios[r] /\ i.kind \in {"write", "journal"}
    /\ Done(r, i)
    /\ err' = IF fail /\ i.kind = "write" THEN [err EXCEPT ![r] = TRUE] ELSE err
    /\ Put(r)
    /\ UNCHANGED <<bio, cont, recoverable, served, ended, result, dev>>

\* The backing device ends s->orig_bio itself: its bi_end_io is the
\* submitter's, which completes the bio and knows nothing of the search.
orig_endio(r, fail) ==
    /\ Io("orig", {0}) \in ios[r]
    /\ Done(r, Io("orig", {0}))
    /\ ended' = [ended EXCEPT ![r] = @ + 1]
    /\ result' = [result EXCEPT ![r] = IF fail THEN "err" ELSE "ok"]
    /\ UNCHANGED <<bio, pc, cont, rem, err, recoverable, served, dev>>

\* A bio_clone_fast() clone ends with no bi_end_io: nothing happens.
clone_endio(r) ==
    /\ Io("clone", {0}) \in ios[r]
    /\ Done(r, Io("clone", {0}))
    /\ UNCHANGED <<bio, pc, cont, rem, err, recoverable, served, ended, result, dev>>

-----------------------------------------------------------------------------
(* Continuations                                                           *)

\* cached_dev_bio_complete(): search_free(), then cached_dev_put().
CachedDevBioComplete(r) ==
    /\ SearchFree(r)
    /\ cached_dev_put

\* Mutant: the error test is not chained to the others by else: an error
\* schedules cached_dev_read_error() and completes the bio at once too.
cached_dev_read_done_bh_noelse(r) ==
    /\ pc[r] = "cached_dev_read_done_bh"
    /\ IF err[r]
       THEN /\ pc' = [pc EXCEPT ![r] = "cached_dev_read_error"]
            /\ ended' = [ended EXCEPT ![r] = @ + 1]
            /\ result' = [result EXCEPT ![r] = "err"]
            /\ UNCHANGED <<rem, dcCount, detached>>
       ELSE IF Verify
       THEN /\ pc' = [pc EXCEPT ![r] = "cached_dev_read_done"]
            /\ UNCHANGED <<rem, ended, result, dcCount, detached>>
       ELSE CachedDevBioComplete(r)
    /\ UNCHANGED <<bio, cont, ios, err, recoverable, served, detaching, wbReaders>>

\* cached_dev_read_done_bh(): an error goes to cached_dev_read_error() and
\* a verifying device to cached_dev_read_done(), both on the workqueue;
\* otherwise the search completes at once.
cached_dev_read_done_bh(r) ==
    /\ pc[r] = "cached_dev_read_done_bh"
    /\ IF err[r] \/ Verify
       THEN /\ pc' = [pc EXCEPT ![r] = IF err[r] THEN "cached_dev_read_error"
                                                 ELSE "cached_dev_read_done"]
            /\ UNCHANGED <<rem, ended, result, dcCount, detached>>
       ELSE CachedDevBioComplete(r)
    /\ UNCHANGED <<bio, cont, ios, err, recoverable, served, detaching, wbReaders>>

\* cached_dev_read_error(): a recoverable search clears the error and
\* reads the whole bio again from the backing device (do_bio_hook(),
\* closure_bio_submit()); then it continues at cached_dev_bio_complete().
\* Every error a read meets reaches s->iop.error through request_endio(),
\* which also clears s->recoverable, so the retry is not taken.
cached_dev_read_error(r) ==
    /\ pc[r] = "cached_dev_read_error"
    /\ IF recoverable[r]
       THEN /\ err' = [err EXCEPT ![r] = FALSE]
            /\ ios' = [ios EXCEPT ![r] = @ \cup {Io("backing", {0})}]
            /\ ContinueAt(r, 1, "cached_dev_bio_complete")
       ELSE /\ ContinueAt(r, 0, "cached_dev_bio_complete")
            /\ UNCHANGED <<err, ios>>
    /\ UNCHANGED <<bio, recoverable, served, ended, result, dev>>

\* cached_dev_read_done(): bch_data_verify() compares only; the search
\* completes.
cached_dev_read_done(r) ==
    /\ pc[r] = "cached_dev_read_done"
    /\ CachedDevBioComplete(r)
    /\ UNCHANGED <<bio, cont, ios, err, recoverable, served, detaching, wbReaders>>

cached_dev_bio_complete(r) ==
    /\ pc[r] = "cached_dev_bio_complete"
    /\ CachedDevBioComplete(r)
    /\ UNCHANGED <<bio, cont, ios, err, recoverable, served, detaching, wbReaders>>

\* cached_dev_write_complete(): up_read_non_owner(&dc->writeback_lock),
\* then cached_dev_bio_complete().
cached_dev_write_complete(r) ==
    /\ pc[r] = "cached_dev_write_complete"
    /\ wbReaders' = wbReaders - 1
    /\ CachedDevBioComplete(r)
    /\ UNCHANGED <<bio, cont, ios, err, recoverable, served, detaching>>

\* search_free() as the continuation of a volume request.
search_free(r) ==
    /\ pc[r] = "search_free"
    /\ SearchFree(r)
    /\ UNCHANGED <<bio, cont, ios, err, recoverable, served, dev>>

\* Mutant: detach does not test DETACHING first.
cached_dev_detach_twice ==
    /\ ~detached
    /\ detaching' = TRUE
    /\ cached_dev_put
    /\ UNCHANGED <<search, wbReaders>>

\* A write to the sysfs file detach (__cached_dev_store()) while the device
\* is attached (dc->disk.c set until the detach work ends) calls
\* bch_cached_dev_detach() (super.c, outside this source): unless already
\* DETACHING, mark it so and drop the reference the attachment holds.
cached_dev_detach ==
    /\ ~detached
    /\ ~detaching /\ dcCount > 0
    /\ detaching' = TRUE
    /\ cached_dev_put
    /\ UNCHANGED <<search, wbReaders>>

-----------------------------------------------------------------------------
(* The specification                                                       *)

\* No bio submitted yet; the device is attached, holding one reference.
Init ==
    /\ bio = [r \in Reqs |-> NoBio]
    /\ pc = [r \in Reqs |-> "idle"]
    /\ cont = [r \in Reqs |-> "search_free"]
    /\ rem = [r \in Reqs |-> 0]
    /\ ios = [r \in Reqs |-> {}]
    /\ err = [r \in Reqs |-> FALSE]
    /\ recoverable = [r \in Reqs |-> FALSE]
    /\ served = [r \in Reqs |-> {}]
    /\ ended = [r \in Reqs |-> 0]
    /\ result = [r \in Reqs |-> "none"]
    /\ dcCount = 1
    /\ detaching = FALSE
    /\ detached = FALSE
    /\ wbReaders = 0

\* The steps the kernel runs for request r once it is submitted.
IoStep(r) ==
    \E i \in ios[r], fail \in FailIO :
        \/ request_endio(r, i, fail)
        \/ child_done(r, i, fail)
        \/ orig_endio(r, fail)
        \/ clone_endio(r)

ContStep(r) ==
    \/ cached_dev_read_done_bh(r)
    \/ cached_dev_read_error(r)
    \/ cached_dev_read_done(r)
    \/ cached_dev_bio_complete(r)
    \/ cached_dev_write_complete(r)
    \/ search_free(r)

Next ==
    \/ \E r \in Reqs, b \in Bios :
          cached_dev_make_request(r, b) \/ blockdev_volume_make_request(r, b)
    \/ \E r \in Reqs : IoStep(r) \/ ContStep(r)
    \/ cached_dev_detach

\* Devices complete every I/O, and workqueues run every continuation that
\* is due.  Nothing forces a bio to be submitted or the device detached.
Spec == Init /\ [][Next]_vars
             /\ \A r \in Reqs : WF_vars(IoStep(r)) /\ WF_vars(ContStep(r))

-----------------------------------------------------------------------------
(* Properties                                                              *)

TypeOK ==
    /\ bio \in [Reqs -> Bios \cup {NoBio}]
    /\ pc \in [Reqs -> PCs] /\ cont \in [Reqs -> Conts]
    /\ rem \in [Reqs -> Nat] /\ ios \in [Reqs -> SUBSET IO]
    /\ err \in [Reqs -> BOOLEAN] /\ recoverable \in [Reqs -> BOOLEAN]
    /\ served \in [Reqs -> SUBSET (0..MaxExt)]
    /\ ended \in [Reqs -> Nat] /\ result \in [Reqs -> {"none", "ok", "err"}]
    /\ dcCount \in Nat /\ detaching \in BOOLEAN /\ detached \in BOOLEAN
    /\ wbReaders \in Nat

\* The closure reference counting of request.c: a search is never freed
\* while an I/O or child that will closure_put() it is still in flight
\* (every bio that will put the closure was counted before the last
\* continuation runs).
NoUseAfterFree ==
    \A r \in Reqs : pc[r] = "done" => \A i \in ios[r] : ~PutsRef(i)

\* The submitter's bio is completed at most once, whether by
\* bio_complete() from search_free() or by the backing device.
CompletedOnce == \A r \in Reqs : ended[r] <= 1

\* A read that bio_complete() ends without error has had all its data
\* read: every extent by a cache or backing read, or the whole bio by the
\* retry from the backing device.
AllRead(r) == 0 \in served[r] \/ 1..Len(bio[r].exts) \subseteq served[r]
NoSilentShortRead ==
    \A r \in Reqs :
        pc[r] = "done" /\ bio[r].op = "read" /\ ~bio[r].size0 /\ result[r] = "ok"
            => AllRead(r)

\* Once dc->count reaches zero and the detach work is scheduled, no search
\* of the cached device is alive and no write holds dc->writeback_lock.
DetachQuiesced ==
    detached => /\ wbReaders = 0
                /\ \A r \in Reqs : IsCached(r) => ~Live(r)

\* Every submitted bio is completed: its search reaches search_free().
AllRequestsComplete == \A r \in Reqs : Live(r) ~> pc[r] = "done"

=============================================================================
