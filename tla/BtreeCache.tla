----------------------------- MODULE BtreeCache -----------------------------
(***************************************************************************)
(* The in-memory btree node cache of libbcache (btree_cache.c).            *)
(*                                                                         *)
(* A fixed pool of struct btree containers (Nodes) moves between the three *)
(* lists of struct cache_set: btree_cache (hashed nodes, in LRU order),    *)
(* btree_cache_freeable (buffer present, not hashed) and btree_cache_freed *)
(* (container only), or is on no list while a thread is filling it.        *)
(* Lookups go through an rhashtable keyed by the first pointer of the node *)
(* key (PTR_HASH); a node whose PTR_HASH is zeroed is never found again.   *)
(* Every node carries a six lock (read / intent / write).                  *)
(*                                                                         *)
(* Getters are threads running bch_btree_node_get() (and through it        *)
(* bch_btree_node_fill(), mca_alloc(), mca_cannibalize()) followed by the  *)
(* caller's use of the locked node; Shrinkers are concurrent invocations   *)
(* of the shrinker callback bch_mca_scan().  Btree writes that run in the  *)
(* background (btree_io.c) are environment actions.                        *)
(***************************************************************************)
EXTENDS Integers, Sequences, FiniteSets, SequencesExt

CONSTANTS
    Nodes,         \* struct btree containers the cache may ever allocate
    Keys,          \* btree node keys, told apart by their first pointer
    Getters,       \* threads calling bch_btree_node_get()
    Shrinkers,     \* concurrent calls of the shrinker scan callback
    Reserve,       \* c->btree_cache_reserve (bch_recalc_btree_reserve)
    FreeableKeep,  \* freeable nodes bch_mca_scan() always skips (3 in code)
    ScanSizes,     \* values of sc->nr_to_scan / btree_pages(c)
    MaxHeld,       \* nodes one iterator keeps locked at once
    VerifyData,    \* the container of c->verify_data (CONFIG_BCACHE_DEBUG),
                   \* None in a build without btree verify
    PickResults,   \* outcomes of bch_btree_pick_ptr(): TRUE when a device
                   \* holding the node can be read from
    None,          \* no owner: a NULL task_struct pointer
    NoKey          \* a zeroed PTR_HASH

ASSUME /\ Reserve \in 1..Cardinality(Nodes)
       /\ FreeableKeep \in Nat
       /\ ScanSizes \subseteq Nat
       /\ MaxHeld \in Nat \ {0}
       /\ PickResults \subseteq BOOLEAN
       /\ VerifyData \in Nodes \cup {None}
       /\ None \notin Getters \cup Shrinkers
       /\ NoKey \notin Keys
       /\ Getters \cap Shrinkers = {}

Actors == Getters \cup Shrinkers
LockModes == {"read", "intent"}

VARIABLES
    cache,      \* c->btree_cache list, head first
    freeable,   \* c->btree_cache_freeable list, head first
    freed,      \* c->btree_cache_freed list, head first
    allocated,  \* containers that mca_bucket_alloc() has kzalloc'd
    table,      \* nodes linked into c->btree_cache_table
    key,        \* PTR_HASH(&b->key) of every node, NoKey when zeroed
    data,       \* nodes whose b->data buffer is allocated
    used,       \* c->btree_cache_used
    dirty,      \* BTREE_NODE_dirty
    inFlight,   \* BTREE_NODE_write_in_flight, set by a btree write
    accessed,   \* BTREE_NODE_accessed
    intent,     \* six lock: intent holder of each node, or None
    wlocked,    \* six lock: nodes write locked (by their intent holder)
    readers,    \* six lock: read holders of each node
    cacheLock,  \* c->btree_cache_lock mutex owner, or None
    allocLock,  \* c->btree_cache_alloc_lock, or None
    mcaWait,    \* getters parked on the c->mca_wait closure list
    pc,         \* program counter of every actor
    want,       \* a getter's arguments: key, lock type, node it works on
    held,       \* nodes a getter's iterator holds locked: [node, key, mode]
    scan,       \* a shrinker's locals: nr, freed, __GFP_IO, reaped node
    usedSinceScan, \* history: nodes returned by a get since a scan passed them
    verifyLock, \* c->verify_lock mutex owner, or None
    ioLock      \* nodes whose write_in_flight bit btree_node_io_lock() holds

lists == <<cache, freeable, freed, allocated>>
nodeState == <<table, key, data, used, dirty, inFlight, accessed>>
locks == <<intent, wlocked, readers, cacheLock, allocLock, mcaWait>>
locals == <<pc, want, held, scan, usedSinceScan>>
verifyVars == <<verifyLock, ioLock>>
vars == <<lists, nodeState, locks, locals, verifyVars>>

-----------------------------------------------------------------------------
(* Helpers                                                                 *)

\* The node hashed under key k, if any (rhashtable_lookup_fast).
Hashed(k) == {n \in table : key[n] = k}

\* Mutant: the reserve is not subtracted.
mca_can_free_noreserve == used

\* mca_can_free(c): max(0, btree_cache_used - btree_cache_reserve).
mca_can_free == IF used > Reserve THEN used - Reserve ELSE 0

\* Mutant: dirty and in-flight nodes are reaped without flush.
mca_reap_nodirty(n, flush) ==
    /\ intent[n] = None
    /\ readers[n] = {}

\* mca_reap_notrace(): six_trylock_intent and six_trylock_write succeed,
\* and, unless flushing, the node is neither dirty nor being written.
\* (write_error, noevict and write_blocked are never set by this code.)
mca_reap(n, flush) ==
    /\ intent[n] = None
    /\ readers[n] = {}
    /\ flush \/ n \notin dirty \cup inFlight \cup ioLock

\* Take intent and write lock of n for actor a (the successful reap).
LockIntentWrite(a, n) ==
    /\ intent' = [intent EXCEPT ![n] = a]
    /\ wlocked' = wlocked \cup {n}

\* Index of the first entry of s that can be reaped, 0 if none.
FirstReapable(s, flush) == SelectInSeq(s, LAMBDA n : mca_reap(n, flush))

\* Remove the entry at position i of a list.
Unlink(s, i) == RemoveAt(s, i)

\* Rotate a list so that it starts at its entry j (list_move_tail of the
\* list head before entry j: the "save position" of bch_mca_scan()).
RotateTo(s, j) == SubSeq(s, j, Len(s)) \o SubSeq(s, 1, j - 1)

-----------------------------------------------------------------------------
(* bch_btree_node_get(): lookup, lock, recheck                             *)

\* rcu-protected mca_find(): go to lock the node found, or fill it.
Lookup(t, k, m) ==
    IF Hashed(k) # {}
      THEN /\ pc' = [pc EXCEPT ![t] = "lock"]
           /\ want' = [want EXCEPT ![t] =
                         [key |-> k, mode |-> m, node |-> CHOOSE n \in Hashed(k) : TRUE]]
      ELSE /\ pc' = [pc EXCEPT ![t] = "alloc"]
           /\ want' = [want EXCEPT ![t] = [key |-> k, mode |-> m, node |-> None]]

bch_btree_node_get(t, k, m) ==
    /\ pc[t] = "idle"
    /\ Cardinality(held[t]) < MaxHeld
    /\ k \notin {h.key : h \in held[t]}
    /\ Lookup(t, k, m)
    /\ UNCHANGED <<lists, nodeState, locks, held, scan, usedSinceScan>>

\* The "goto retry" of bch_btree_node_get().
node_get_retry(t) ==
    /\ pc[t] = "find"
    /\ Lookup(t, want[t].key, want[t].mode)
    /\ UNCHANGED <<lists, nodeState, locks, held, scan, usedSinceScan>>

Available(n, m) == IF m = "read" THEN n \notin wlocked ELSE intent[n] = None

\* btree_node_lock() succeeds; then PTR_HASH(&b->key) is compared with
\* the key asked for.  A mismatch means the node was freed and reused
\* after mca_find(): unlock and retry if the parent relocks, else -EINTR.
node_get_lock(t) ==
    LET n == want[t].node
        m == want[t].mode
    IN
    /\ pc[t] = "lock"
    /\ Available(n, m)
    /\ IF key[n] = want[t].key
         THEN \* btree_node_accessed() is tested, never set: the flag
              \* stays as it was (btree_cache.c:689)
              /\ IF m = "read"
                   THEN readers' = [readers EXCEPT ![n] = @ \cup {t}]
                   ELSE readers' = readers
              /\ intent' = IF m = "intent" THEN [intent EXCEPT ![n] = t] ELSE intent
              /\ held' = [held EXCEPT ![t] = @ \cup {[node |-> n, key |-> want[t].key, mode |-> m]}]
              /\ usedSinceScan' = usedSinceScan \cup {n}
              /\ pc' = [pc EXCEPT ![t] = "idle"]
         ELSE /\ UNCHANGED <<readers, intent, held, usedSinceScan>>
              /\ \E relocked \in BOOLEAN :
                   pc' = [pc EXCEPT ![t] = IF relocked THEN "find" ELSE "idle"]
    /\ UNCHANGED <<lists, nodeState, wlocked, cacheLock, allocLock, mcaWait, want, scan>>

\* btree_node_lock() refuses to wait for a lock it cannot take at once
\* (lock ordering against the locks this iterator holds): -EINTR.
node_get_lock_fail(t) ==
    /\ pc[t] = "lock"
    /\ ~Available(want[t].node, want[t].mode)
    /\ pc' = [pc EXCEPT ![t] = "idle"]
    /\ UNCHANGED <<lists, nodeState, locks, want, held, scan, usedSinceScan>>

-----------------------------------------------------------------------------
(* bch_btree_node_fill() and mca_alloc()                                   *)

\* Mutant: btree_cache_used is counted before the allocation is checked.
mca_data_alloc_count_first(n, ok) ==
    /\ freed' = IF ok THEN Remove(freed, n) ELSE Cons(n, Remove(freed, n))
    /\ data' = IF ok THEN data \cup {n} ELSE data
    /\ used' = used + 1

\* mca_data_alloc(): when the buffer allocation succeeds (ok) the buffer
\* is counted in btree_cache_used and the node moved to freeable (from
\* where mca_alloc() unlinks it at once); when it fails the node is moved
\* to the head of the freed list.
mca_data_alloc(n, ok) ==
    /\ freed' = IF ok THEN Remove(freed, n) ELSE Cons(n, Remove(freed, n))
    /\ data' = IF ok THEN data \cup {n} ELSE data
    /\ used' = IF ok THEN used + 1 ELSE used

\* The node mca_alloc() hands back to bch_btree_node_fill(): intent and
\* write locked by t and on no list.
AllocTo(t, n) ==
    /\ LockIntentWrite(t, n)
    /\ want' = [want EXCEPT ![t].node = n]
    /\ pc' = [pc EXCEPT ![t] = "insert"]

\* mca_alloc() under btree_cache_lock: reuse a freeable node, else give a
\* freed container a new buffer, else kzalloc a new container.  Every
\* allocation is GFP_NOIO and may fail; a failure goes to the err path,
\* still holding btree_cache_lock.  (The pool Nodes bounds the
\* containers: when it is used up, kzalloc counts as failing.)
mca_alloc(t) ==
    LET i == FirstReapable(freeable, FALSE)
        j == FirstReapable(freed, FALSE)
        ToErr == /\ cacheLock' = t
                 /\ pc' = [pc EXCEPT ![t] = "err"]
                 /\ UNCHANGED <<intent, wlocked, want>>
        \* mca_data_alloc() on node n, then out_unlock or err
        Fill(n) == \E ok \in BOOLEAN :
                     /\ mca_data_alloc(n, ok)
                     /\ IF ok THEN AllocTo(t, n) /\ UNCHANGED cacheLock
                              ELSE ToErr
    IN
    /\ pc[t] = "alloc"
    /\ cacheLock = None
    /\ \/ /\ i > 0
          /\ freeable' = Unlink(freeable, i)
          /\ AllocTo(t, freeable[i])
          /\ UNCHANGED <<freed, allocated, data, used, cacheLock>>
       \/ /\ i = 0 /\ j > 0
          /\ Fill(freed[j])
          /\ UNCHANGED <<freeable, allocated>>
       \/ /\ i = 0 /\ j = 0
          /\ \/ \E n \in Nodes \ allocated :
                  /\ allocated' = allocated \cup {n}
                  /\ Fill(n)
             \/ /\ ToErr
                /\ UNCHANGED <<allocated, freed, data, used>>
          /\ UNCHANGED freeable
    /\ UNCHANGED <<cache, table, key, dirty, inFlight, accessed, readers,
                   allocLock, mcaWait, held, scan, usedSinceScan>>

\* Mutant: PTR_HASH is left as it was.
HashRemove_keepkey(n) ==
    /\ table' = table \ {n}
    /\ key' = key

\* mca_hash_remove(): the node leaves the hash table and its PTR_HASH is
\* zeroed so that concurrent lookups that already found it fail.
HashRemove(n) ==
    /\ table' = table \ {n}
    /\ key' = [key EXCEPT ![n] = NoKey]

\* The err path of mca_alloc(): only the holder of btree_cache_alloc_lock
\* cannibalizes; its first pass over btree_cache, oldest first, takes a
\* node that is clean and not being written.  Others get -ENOMEM.
mca_alloc_err(t) ==
    LET c == SelectLastInSeq(cache, LAMBDA n : mca_reap(n, FALSE))
    IN
    /\ pc[t] = "err"
    /\ IF allocLock # t
         THEN /\ cacheLock' = None
              /\ pc' = [pc EXCEPT ![t] = "nomem"]
              /\ UNCHANGED <<cache, table, key, intent, wlocked, want>>
         ELSE IF c > 0
         THEN /\ cache' = Unlink(cache, c)
              /\ cacheLock' = None
              /\ LockIntentWrite(t, cache[c])
              /\ want' = [want EXCEPT ![t].node = cache[c]]
              /\ pc' = [pc EXCEPT ![t] = "cann_remove"]
         ELSE /\ pc' = [pc EXCEPT ![t] = "cannibalize"]
              /\ UNCHANGED <<cache, intent, wlocked, want, cacheLock>>
    /\ UNCHANGED <<freeable, freed, allocated, table, key, data, used, dirty,
                   inFlight, accessed, readers, allocLock, mcaWait, held, scan,
                   usedSinceScan>>

\* The while (1) loop of mca_cannibalize(), still under btree_cache_lock:
\* reap with flush, writing out a dirty node.  While every node is locked
\* the thread busy-waits (WARN_ONCE, cond_resched()) and goes round again,
\* still holding btree_cache_lock.
mca_cannibalize(t) ==
    LET c == SelectLastInSeq(cache, LAMBDA n : mca_reap(n, TRUE))
        n == cache[c]
    IN
    /\ pc[t] = "cannibalize"
    /\ \/ /\ c > 0
          /\ LockIntentWrite(t, n)
          /\ IF n \in dirty
               THEN /\ dirty' = dirty \ {n}
                    /\ inFlight' = inFlight \cup {n}
               ELSE UNCHANGED <<dirty, inFlight>>
          /\ want' = [want EXCEPT ![t].node = n]
          /\ pc' = [pc EXCEPT ![t] = "cann_wait"]
       \/ /\ c = 0
          /\ UNCHANGED <<intent, wlocked, dirty, inFlight, want, pc>>
    /\ UNCHANGED <<lists, table, key, data, used, accessed, readers, cacheLock,
                   allocLock, mcaWait, held, scan, usedSinceScan>>

\* wait_on_bit_io(BTREE_NODE_write_in_flight) in mca_reap_notrace(), then
\* list_del_init() and mutex_unlock().
mca_cannibalize_done(t) ==
    LET n == want[t].node IN
    /\ pc[t] = "cann_wait"
    /\ n \notin inFlight \cup ioLock
    /\ cache' = Remove(cache, n)
    /\ cacheLock' = None
    /\ pc' = [pc EXCEPT ![t] = "cann_remove"]
    /\ UNCHANGED <<freeable, freed, allocated, nodeState, intent, wlocked,
                   readers, allocLock, mcaWait, want, held, scan, usedSinceScan>>

\* mca_hash_remove() of the cannibalized node, once btree_cache_lock is
\* dropped; then the "out" label.
mca_cannibalize_hash_remove(t) ==
    /\ pc[t] = "cann_remove"
    /\ HashRemove(want[t].node)
    /\ pc' = [pc EXCEPT ![t] = "insert"]
    /\ UNCHANGED <<lists, data, used, dirty, inFlight, accessed, locks, want,
                   held, scan, usedSinceScan>>

\* Mutant: the insert ignores an entry already hashed under the key.
node_fill_insert_noraced(t) ==
    LET n == want[t].node
        k == want[t].key
    IN
    /\ pc[t] = "insert"
    /\ dirty' = dirty \ {n}
    /\ inFlight' = inFlight \ {n}
    /\ accessed' = accessed \ {n}
    /\ table' = table \cup {n}
    /\ key' = [key EXCEPT ![n] = k]
    /\ pc' = [pc EXCEPT ![t] = "list_add"]
    /\ UNCHANGED <<lists, data, used, locks, want, held, scan, usedSinceScan>>

\* The "out" label of mca_alloc() (b->flags = 0), bkey_copy() and the
\* rhashtable insert of mca_hash_insert(), which takes no mutex.  If
\* another fill hashed the key first, the node is marked unhashed.
node_fill_insert(t) ==
    LET n == want[t].node
        k == want[t].key
    IN
    /\ pc[t] = "insert"
    /\ dirty' = dirty \ {n}
    /\ inFlight' = inFlight \ {n}
    /\ accessed' = accessed \ {n}
    /\ IF Hashed(k) = {}
         THEN /\ table' = table \cup {n}
              /\ key' = [key EXCEPT ![n] = k]
              /\ pc' = [pc EXCEPT ![t] = "list_add"]
         ELSE /\ key' = [key EXCEPT ![n] = NoKey]
              /\ pc' = [pc EXCEPT ![t] = "raced"]
              /\ UNCHANGED table
    /\ UNCHANGED <<lists, data, used, locks, want, held, scan, usedSinceScan>>

\* mca_hash_insert(): list_add() to the head of btree_cache under
\* btree_cache_lock.
node_fill_list_add(t) ==
    /\ pc[t] = "list_add"
    /\ cacheLock = None
    /\ cache' = Cons(want[t].node, cache)
    /\ pc' = [pc EXCEPT ![t] = "read"]
    /\ UNCHANGED <<freeable, freed, allocated, nodeState, locks, want, held,
                   scan, usedSinceScan>>

\* The race path of bch_btree_node_fill(): list_add() to freeable under
\* btree_cache_lock, unlock the node, and retry the lookup.
node_fill_raced(t) ==
    LET n == want[t].node IN
    /\ pc[t] = "raced"
    /\ cacheLock = None
    /\ freeable' = Cons(n, freeable)
    /\ intent' = [intent EXCEPT ![n] = None]
    /\ wlocked' = wlocked \ {n}
    /\ pc' = [pc EXCEPT ![t] = "find"]
    /\ UNCHANGED <<cache, freed, allocated, nodeState, readers, cacheLock,
                   allocLock, mcaWait, want, held, scan, usedSinceScan>>

\* bch_btree_node_read(), six_unlock_write() and, for a read lock,
\* six_lock_downgrade(): the filled node is returned to the caller.
node_fill_read(t) ==
    LET n == want[t].node
        m == want[t].mode
    IN
    /\ pc[t] = "read"
    /\ wlocked' = wlocked \ {n}
    /\ IF m = "read"
         THEN /\ intent' = [intent EXCEPT ![n] = None]
              /\ readers' = [readers EXCEPT ![n] = @ \cup {t}]
         ELSE UNCHANGED <<intent, readers>>
    /\ held' = [held EXCEPT ![t] = @ \cup {[node |-> n, key |-> want[t].key, mode |-> m]}]
    /\ usedSinceScan' = usedSinceScan \cup {n}
    /\ pc' = [pc EXCEPT ![t] = "idle"]
    /\ UNCHANGED <<lists, nodeState, cacheLock, allocLock, mcaWait, want, scan>>

-----------------------------------------------------------------------------
(* mca_cannibalize_lock() / mca_cannibalize_unlock()                       *)

\* The caller of a get that failed with -ENOMEM takes the cannibalize
\* lock and retries.  First cmpxchg: success, or with no closure -ENOMEM,
\* or with a closure go on to closure_wait().
mca_cannibalize_lock(t) ==
    /\ pc[t] = "nomem"
    /\ IF allocLock \in {None, t}
         THEN /\ allocLock' = t
              /\ pc' = [pc EXCEPT ![t] = "find"]
         ELSE \E cl \in BOOLEAN :
                /\ pc' = [pc EXCEPT ![t] = IF cl THEN "closure_wait" ELSE "idle"]
                /\ UNCHANGED allocLock
    /\ UNCHANGED <<lists, nodeState, intent, wlocked, readers, cacheLock,
                   mcaWait, want, held, scan, usedSinceScan>>

\* closure_wait(&c->mca_wait, cl): the closure joins the wait list.
mca_closure_wait(t) ==
    /\ pc[t] = "closure_wait"
    /\ mcaWait' = mcaWait \cup {t}
    /\ pc' = [pc EXCEPT ![t] = "cann_retry"]
    /\ UNCHANGED <<lists, nodeState, intent, wlocked, readers, cacheLock,
                   allocLock, want, held, scan, usedSinceScan>>

\* Second cmpxchg, after joining the wait list: on success ("we raced")
\* closure_wake_up(), else -EAGAIN and the closure sleeps.
mca_cannibalize_lock_retry(t) ==
    /\ pc[t] = "cann_retry"
    /\ IF allocLock \in {None, t}
         THEN /\ allocLock' = t
              /\ mcaWait' = {}
              /\ pc' = [pc EXCEPT ![t] = "find"]
         ELSE /\ pc' = [pc EXCEPT ![t] = "waiting"]
              /\ UNCHANGED <<allocLock, mcaWait>>
    /\ UNCHANGED <<lists, nodeState, intent, wlocked, readers, cacheLock,
                   want, held, scan, usedSinceScan>>

\* A woken closure runs again and retries the lock.
mca_wait_wakeup(t) ==
    /\ pc[t] = "waiting"
    /\ t \notin mcaWait
    /\ pc' = [pc EXCEPT ![t] = "nomem"]
    /\ UNCHANGED <<lists, nodeState, locks, want, held, scan, usedSinceScan>>

\* Mutant: the lock is cleared but c->mca_wait is not woken.
mca_cannibalize_unlock_nowake(t) ==
    /\ allocLock' = IF allocLock = t THEN None ELSE allocLock
    /\ UNCHANGED mcaWait

\* mca_cannibalize_unlock(): if t holds btree_cache_alloc_lock, clear it
\* and closure_wake_up() every waiter.
mca_cannibalize_unlock(t) ==
    IF allocLock = t
      THEN /\ allocLock' = None
           /\ mcaWait' = {}
      ELSE UNCHANGED <<allocLock, mcaWait>>

\* The iterator drops every lock it holds (bch_btree_iter_unlock()) and,
\* since the root is unlocked, calls mca_cannibalize_unlock().
iter_unlock(t) ==
    /\ pc[t] = "idle"
    /\ held[t] # {} \/ allocLock = t
    /\ readers' = [n \in Nodes |-> readers[n] \ {t}]
    /\ intent' = [n \in Nodes |-> IF intent[n] = t THEN None ELSE intent[n]]
    /\ held' = [held EXCEPT ![t] = {}]
    /\ mca_cannibalize_unlock(t)
    /\ UNCHANGED <<lists, nodeState, wlocked, cacheLock, pc, want, scan, usedSinceScan>>

-----------------------------------------------------------------------------
(* The btree update and write paths, outside this file                     *)

\* An update through an intent-locked node: six_lock_write() (no reader
\* may hold the node), insert, six_unlock_write(): the node is dirty.
btree_node_modify(t) ==
    /\ pc[t] = "idle"
    /\ \E h \in held[t] :
         /\ h.mode = "intent"
         /\ readers[h.node] = {}
         /\ dirty' = dirty \cup {h.node}
    /\ UNCHANGED <<lists, table, key, data, used, inFlight, accessed, locks,
                   locals>>

\* __bch_btree_node_write() of a dirty node under a read lock: the dirty
\* bit moves to write_in_flight.
btree_node_write(n) ==
    /\ n \in dirty \ (inFlight \cup ioLock)
    /\ n \notin wlocked
    /\ dirty' = dirty \ {n}
    /\ inFlight' = inFlight \cup {n}
    /\ UNCHANGED <<lists, table, key, data, used, accessed, locks, locals>>

\* The write completes: write_in_flight is cleared and waiters woken.
btree_node_write_done(n) ==
    /\ n \in inFlight
    /\ inFlight' = inFlight \ {n}
    /\ UNCHANGED <<lists, table, key, data, used, dirty, accessed, locks, locals>>

-----------------------------------------------------------------------------
(* __bch_btree_verify() (debug.c, CONFIG_BCACHE_DEBUG)                     *)

\* The btree code calls bch_btree_verify() on a node it holds intent
\* locked, after sorting it (btree_io.c).  With the nochanges option the
\* function returns at once, which changes nothing.
bch_btree_verify(t) ==
    /\ VerifyData # None
    /\ pc[t] = "idle"
    /\ \E h \in held[t] :
         /\ h.mode = "intent"
         /\ want' = [want EXCEPT ![t] = h]
    /\ pc' = [pc EXCEPT ![t] = "verify"]
    /\ UNCHANGED <<lists, nodeState, locks, held, scan, usedSinceScan, verifyVars>>

\* Mutant: the bit is taken without waiting for the write in flight.
btree_node_io_lock_nowait(n) ==
    /\ n \notin ioLock
    /\ ioLock' = ioLock \cup {n}

\* btree_node_io_lock(): wait_on_bit_lock() on write_in_flight, which
\* waits until no write and no other verify holds the bit.
btree_node_io_lock(n) ==
    /\ n \notin inFlight \cup ioLock
    /\ ioLock' = ioLock \cup {n}

verify_io_lock(t) ==
    /\ pc[t] = "verify"
    /\ btree_node_io_lock(want[t].node)
    /\ pc' = [pc EXCEPT ![t] = "verify_mutex"]
    /\ UNCHANGED <<lists, nodeState, locks, want, held, scan, usedSinceScan,
                   verifyLock>>

\* mutex_lock(&c->verify_lock), the copy of b's key and level into
\* c->verify_data, and bch_btree_pick_ptr().  When no device can be read
\* from, the function returns at once (debug.c:65-66), still holding
\* verify_lock and the node's io lock.
verify_mutex(t) ==
    /\ pc[t] = "verify_mutex"
    /\ verifyLock = None
    /\ verifyLock' = t
    /\ \E picked \in PickResults :
         pc' = [pc EXCEPT ![t] = IF picked THEN "verify_read" ELSE "idle"]
    /\ UNCHANGED <<lists, nodeState, locks, want, held, scan, usedSinceScan,
                   ioLock>>

\* Mutant: btree_node_io_unlock() is left out.
verify_read_keepio(t) ==
    /\ pc[t] = "verify_read"
    /\ verifyLock' = None
    /\ pc' = [pc EXCEPT ![t] = "idle"]
    /\ UNCHANGED <<lists, nodeState, locks, want, held, scan, usedSinceScan,
                   ioLock>>

\* The node is read back into c->verify_data (bio submitted, then
\* closure_sync()) and compared with the in-memory node, which panics on
\* a mismatch (node contents are not modelled); then mutex_unlock() and
\* btree_node_io_unlock().
verify_read(t) ==
    /\ pc[t] = "verify_read"
    /\ verifyLock' = None
    /\ ioLock' = ioLock \ {want[t].node}
    /\ pc' = [pc EXCEPT ![t] = "idle"]
    /\ UNCHANGED <<lists, nodeState, locks, want, held, scan, usedSinceScan>>

VerifyStep(t) == verify_io_lock(t) \/ verify_mutex(t) \/ verify_read(t)

-----------------------------------------------------------------------------
(* bch_mca_scan(): the shrinker                                            *)

\* mca_data_free() of a list of nodes, one list_move() to freed at a time.
DataFree(victims) ==
    /\ freed' = Reverse(victims) \o freed
    /\ data' = data \ ToSet(victims)
    /\ used' = used - Len(victims)

\* Entry, under btree_cache_lock (a blocking mutex_lock() with __GFP_IO,
\* a mutex_trylock() that gives up otherwise): nr is cut to mca_can_free(),
\* then the freeable list is walked, skipping its first FreeableKeep nodes.
bch_mca_scan(s, nr0, io) ==
    LET nr == IF nr0 < mca_can_free THEN nr0 ELSE mca_can_free
        Reapable(i) == i > FreeableKeep /\ mca_reap(freeable[i], FALSE)
        V == {i \in 1..Len(freeable) :
                 /\ Reapable(i)
                 /\ Cardinality({x \in 1..(i - 1) : Reapable(x)}) < nr}
        victims == [x \in 1..Cardinality(V) |->
                      freeable[CHOOSE i \in V : Cardinality({y \in V : y < i}) = x - 1]]
    IN
    /\ pc[s] = "idle"
    /\ allocLock = None
    /\ cacheLock = None
    /\ freeable' = SelectSeq(freeable, LAMBDA n : n \notin ToSet(victims))
    /\ DataFree(victims)
    /\ cacheLock' = s
    /\ scan' = [scan EXCEPT ![s] = [nr |-> nr, freed |-> Len(victims), io |-> io, node |-> None]]
    /\ pc' = [pc EXCEPT ![s] = "walk"]
    /\ UNCHANGED <<cache, allocated, table, key, dirty, inFlight, accessed,
                   intent, wlocked, readers, allocLock, mcaWait, want, held,
                   usedSinceScan>>

\* The walk of btree_cache from the saved position (the "restart" label),
\* still under btree_cache_lock.  Nodes passed over lose their accessed
\* bit; the first node that is not accessed and can be reaped is freed,
\* the list head is moved to save the position, and btree_cache_lock is
\* dropped before mca_hash_remove().  With nr already freed the walk
\* stops at once, saving the position after the first node.
bch_mca_scan_walk(s) ==
    LET nr == scan[s].nr
        j == SelectInSeq(cache, LAMBDA b : b \notin accessed /\ mca_reap(b, FALSE))
        b == cache[j]
    IN
    /\ pc[s] = "walk"
    /\ IF cache = << >> \/ (scan[s].freed < nr /\ j = 0)
         THEN /\ accessed' = accessed \ ToSet(cache)
              /\ usedSinceScan' = usedSinceScan \ ToSet(cache)
              /\ cacheLock' = None
              /\ pc' = [pc EXCEPT ![s] = "idle"]
              /\ UNCHANGED <<cache, freed, data, used, intent, wlocked, scan>>
         ELSE IF scan[s].freed >= nr
         THEN /\ cache' = RotateTo(cache, 2)
              /\ cacheLock' = None
              /\ pc' = [pc EXCEPT ![s] = "idle"]
              /\ UNCHANGED <<freed, data, used, accessed, intent, wlocked, scan,
                             usedSinceScan>>
         ELSE /\ accessed' = accessed \ ToSet(SubSeq(cache, 1, j - 1))
              /\ usedSinceScan' = usedSinceScan \ ToSet(SubSeq(cache, 1, j - 1))
              /\ cache' = Remove(RotateTo(cache, j + 1), b)
              /\ DataFree(<<b>>)
              /\ LockIntentWrite(s, b)
              /\ cacheLock' = None
              /\ scan' = [scan EXCEPT ![s].freed = @ + 1, ![s].node = b]
              /\ pc' = [pc EXCEPT ![s] = "hash_remove"]
    /\ UNCHANGED <<freeable, allocated, table, key, dirty, inFlight, readers,
                   allocLock, mcaWait, want, held>>

\* mca_hash_remove() and unlock of the reaped node; then done when nr are
\* freed, else relock btree_cache_lock (blocking with __GFP_IO, else a
\* trylock that ends the scan when it fails) and restart the walk.
bch_mca_scan_hash_remove(s) ==
    LET b == scan[s].node IN
    /\ pc[s] = "hash_remove"
    /\ HashRemove(b)
    /\ intent' = [intent EXCEPT ![b] = None]
    /\ wlocked' = wlocked \ {b}
    /\ usedSinceScan' = usedSinceScan \ {b}
    /\ IF scan[s].freed >= scan[s].nr
         THEN /\ pc' = [pc EXCEPT ![s] = "idle"]
              /\ UNCHANGED cacheLock
         ELSE IF scan[s].io
         THEN /\ pc' = [pc EXCEPT ![s] = "relock"]
              /\ UNCHANGED cacheLock
         ELSE IF cacheLock = None
         THEN /\ cacheLock' = s
              /\ pc' = [pc EXCEPT ![s] = "walk"]
         ELSE /\ pc' = [pc EXCEPT ![s] = "idle"]
              /\ UNCHANGED cacheLock
    /\ UNCHANGED <<lists, data, used, dirty, inFlight, accessed, readers,
                   allocLock, mcaWait, want, held, scan>>

bch_mca_scan_relock(s) ==
    /\ pc[s] = "relock"
    /\ cacheLock = None
    /\ cacheLock' = s
    /\ pc' = [pc EXCEPT ![s] = "walk"]
    /\ UNCHANGED <<lists, nodeState, intent, wlocked, readers, allocLock,
                   mcaWait, want, held, scan, usedSinceScan>>

-----------------------------------------------------------------------------
(* The specification                                                       *)

\* bch_fs_btree_init(): btree_cache_reserve containers with buffers, all on
\* the freeable list; nothing hashed, nothing locked.  A debug build then
\* allocates c->verify_data with mca_bucket_alloc(), which counts its
\* buffer in btree_cache_used, and takes it off every list.
VerifyNode == IF VerifyData = None THEN {} ELSE {VerifyData}
InitNodes == CHOOSE S \in SUBSET (Nodes \ VerifyNode) : Cardinality(S) = Reserve

Init ==
    /\ cache = << >>
    /\ freeable = SetToSeq(InitNodes)
    /\ freed = << >>
    /\ allocated = InitNodes \cup VerifyNode
    /\ table = {}
    /\ key = [n \in Nodes |-> NoKey]
    /\ data = InitNodes \cup VerifyNode
    /\ used = Reserve + Cardinality(VerifyNode)
    /\ dirty = {}
    /\ inFlight = {}
    /\ accessed = {}
    /\ intent = [n \in Nodes |-> None]
    /\ wlocked = {}
    /\ readers = [n \in Nodes |-> {}]
    /\ cacheLock = None
    /\ allocLock = None
    /\ mcaWait = {}
    /\ pc = [a \in Actors |-> "idle"]
    /\ want = [t \in Getters |-> [key |-> NoKey, mode |-> "read", node |-> None]]
    /\ held = [t \in Getters |-> {}]
    /\ scan = [s \in Shrinkers |-> [nr |-> 0, freed |-> 0, io |-> FALSE, node |-> None]]
    /\ usedSinceScan = {}
    /\ verifyLock = None
    /\ ioLock = {}

\* The steps a getter takes once it has been called.
GetterStep(t) ==
    \/ node_get_retry(t)
    \/ node_get_lock(t)
    \/ node_get_lock_fail(t)
    \/ mca_alloc(t)
    \/ mca_alloc_err(t)
    \/ mca_cannibalize(t)
    \/ mca_cannibalize_done(t)
    \/ mca_cannibalize_hash_remove(t)
    \/ node_fill_insert(t)
    \/ node_fill_list_add(t)
    \/ node_fill_raced(t)
    \/ node_fill_read(t)
    \/ mca_cannibalize_lock(t)
    \/ mca_closure_wait(t)
    \/ mca_cannibalize_lock_retry(t)
    \/ mca_wait_wakeup(t)

ShrinkerStep(s) ==
    \/ bch_mca_scan_walk(s)
    \/ bch_mca_scan_hash_remove(s)
    \/ bch_mca_scan_relock(s)

CacheNext ==
    \/ \E t \in Getters, k \in Keys, m \in LockModes : bch_btree_node_get(t, k, m)
    \/ \E t \in Getters : GetterStep(t) \/ iter_unlock(t) \/ btree_node_modify(t)
    \/ \E s \in Shrinkers, nr \in ScanSizes, io \in BOOLEAN : bch_mca_scan(s, nr, io)
    \/ \E s \in Shrinkers : ShrinkerStep(s)
    \/ \E n \in Nodes : btree_node_write(n) \/ btree_node_write_done(n)

Next ==
    \/ CacheNext /\ UNCHANGED verifyVars
    \/ \E t \in Getters : bch_btree_verify(t) \/ VerifyStep(t)

\* A running thread keeps running; an iterator eventually unlocks what it
\* holds, even if its caller keeps verifying the nodes it holds (every
\* btree operation ends with bch_btree_iter_unlock()); a started btree
\* write completes.  Nothing forces a thread to
\* start a get, a node to be modified, or the shrinker to be called.
Fairness ==
    /\ \A t \in Getters : /\ WF_vars(GetterStep(t) /\ UNCHANGED verifyVars)
                         /\ WF_vars(VerifyStep(t))
                         /\ SF_vars(iter_unlock(t) /\ UNCHANGED verifyVars)
    /\ \A s \in Shrinkers : WF_vars(ShrinkerStep(s) /\ UNCHANGED verifyVars)
    /\ \A n \in Nodes : WF_vars(btree_node_write_done(n) /\ UNCHANGED verifyVars)

Spec == Init /\ [][Next]_vars /\ Fairness

-----------------------------------------------------------------------------
(* Properties                                                              *)

TypeOK ==
    /\ cache \in Seq(Nodes) /\ freeable \in Seq(Nodes) /\ freed \in Seq(Nodes)
    /\ allocated \subseteq Nodes
    /\ table \subseteq Nodes
    /\ key \in [Nodes -> Keys \cup {NoKey}]
    /\ data \subseteq Nodes
    /\ used \in 0..Cardinality(Nodes)
    /\ dirty \cup inFlight \cup accessed \cup wlocked \subseteq Nodes
    /\ intent \in [Nodes -> Actors \cup {None}]
    /\ readers \in [Nodes -> SUBSET Getters]
    /\ cacheLock \in Actors \cup {None}
    /\ allocLock \in Getters \cup {None}
    /\ mcaWait \subseteq Getters
    /\ held \in [Getters -> SUBSET [node : Nodes, key : Keys, mode : LockModes]]
    /\ verifyLock \in Getters \cup {None}
    /\ ioLock \subseteq Nodes

\* The cache never holds fewer node buffers than btree_cache_reserve: the
\* reserve is what lets a btree insert always allocate its nodes
\* ("It's _really_ critical that we don't free too many btree nodes",
\* bch_mca_scan()).  Broken only by frees that race with the count.
ReserveFloor == Cardinality(data) >= Reserve

\* A dirty node, or one whose write is in flight, is never evicted: it
\* stays hashed with its buffer until the write has completed (the
\* dirty / write_in_flight checks of mca_reap_notrace() and the
\* wait_on_bit_io() before mca_cannibalize() returns a node).
DirtyNodesStayCached ==
    \A n \in dirty \cup inFlight \cup ioLock : n \in table /\ n \in data

\* No btree write of a node is in flight while bch_btree_verify() holds
\* it: the copy read back from disk, and compared with the node in
\* memory, is never one that a write is overwriting (the io lock that
\* __bch_btree_verify() takes against __bch_btree_node_write()).
VerifyExcludesWrite ==
    \A t \in Getters :
        pc[t] \in {"verify_mutex", "verify_read"} => want[t].node \notin inFlight

\* The hash table as NodeHash sees it.
AsHash == INSTANCE NodeHash WITH hashed <- {<<key[n], n>> : n \in table}

\* c->btree_cache_table is a map from keys to nodes, changed one entry at
\* a time: two fills of one key never both hash a node (the -EEXIST of
\* mca_hash_insert()), and a node is reused for another key by mca_alloc()
\* or mca_cannibalize() only after mca_hash_remove() took it out.
TableIsNodeHash == AsHash!Spec

\* Every node an iterator holds locked is the hashed node of the key it
\* asked bch_btree_node_get() for, with its buffer: a node freed and
\* reused between mca_find() and btree_node_lock() is never returned.
HeldNodeIsRequested ==
    \A t \in Getters : \A h \in held[t] :
        /\ h.node \in table
        /\ key[h.node] = h.key
        /\ h.node \in data

\* Second chance: a node that a get returned since the shrinker last
\* walked past it is not the node the shrinker reaps (the accessed flag,
\* set by bch_btree_node_get() and cleared by bch_mca_scan()).
SecondChance ==
    \A s \in Shrinkers :
        pc[s] = "hash_remove" => scan[s].node \notin usedSinceScan

\* A thread parked on c->mca_wait is eventually woken: no lost wakeup
\* between a failed cmpxchg of btree_cache_alloc_lock and closure_wait().
WaiterWoken ==
    \A t \in Getters : pc[t] = "waiting" ~> pc[t] # "waiting"

\* A thread that calls bch_btree_verify() returns from it: it gets the
\* node's io lock once the write in flight completes, and verify_lock
\* once the verify that holds it has read its node back and unlocked.
VerifyReturns ==
    \A t \in Getters : pc[t] = "verify" ~> pc[t] = "idle"

\* A thread that holds btree_cache_alloc_lock and has started to
\* cannibalize eventually gets a node: mca_cannibalize() assumes that
\* "all nodes were intent-locked" is rare and passes, so it busy-waits
\* holding btree_cache_lock.
CannibalizeEnds ==
    \A t \in Getters : pc[t] = "cannibalize" ~> pc[t] # "cannibalize"

=============================================================================
