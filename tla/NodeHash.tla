------------------------------ MODULE NodeHash ------------------------------
(***************************************************************************)
(* What c->btree_cache_table promises the btree code: a map from node keys *)
(* (PTR_HASH) to the in-memory nodes that hold them.  A key is hashed to   *)
(* at most one node and a node under at most one key, so that mca_find()   *)
(* has one answer.  The map changes one entry at a time: an insert of a    *)
(* key not yet hashed with a node not yet hashed                           *)
(* (rhashtable_lookup_insert_fast() fails with -EEXIST otherwise), or the  *)
(* removal of an entry.  A hashed node keeps its key until it is removed.  *)
(* BtreeCache implements this with the mapping                             *)
(* hashed <- {<<key[n], n>> : n \in table}.                                *)
(***************************************************************************)
CONSTANTS
    Keys,       \* node keys, told apart by their first pointer
    Nodes       \* struct btree containers

VARIABLE
    hashed      \* the entries of the table, as <<key, node>> pairs

HashedKeys == {e[1] : e \in hashed}
HashedNodes == {e[2] : e \in hashed}

\* mca_hash_insert() that wins: neither the key nor the node is hashed.
Insert(k, n) ==
    /\ k \notin HashedKeys
    /\ n \notin HashedNodes
    /\ hashed' = hashed \cup {<<k, n>>}

\* mca_hash_remove() of a hashed node.
Delete(k, n) ==
    /\ <<k, n>> \in hashed
    /\ hashed' = hashed \ {<<k, n>>}

Init == hashed = {}

Next == \E k \in Keys, n \in Nodes : Insert(k, n) \/ Delete(k, n)

Spec == Init /\ [][Next]_hashed

=============================================================================
