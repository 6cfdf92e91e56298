------------------------------- MODULE UTHash -------------------------------
(***************************************************************************)
(* uthash.h, as subdev_address_hash.c uses it: a hash table threaded       *)
(* through the elements it holds.  An element is on two doubly linked      *)
(* lists: the application order, from head to tail, which HASH_ITER walks, *)
(* and the chain of its bucket, where HASH_FIND looks.  A chain that is    *)
(* too long makes HASH_ADD double the buckets and redistribute the items.  *)
(*                                                                         *)
(* The callers hold a lock (SubdevHash), so a macro is one action, and     *)
(* they look a key up before they add it.  HASH_DEL is followed by free:   *)
(* what the element's pointers were is forgotten.  A key is known by its   *)
(* hash and its identity; malloc failures end the process (uthash_fatal)   *)
(* and the Bloom filter is compiled out.                                   *)
(***************************************************************************)
EXTENDS Naturals, Sequences, FiniteSets, SequencesExt

CONSTANTS
  Elements,
  KeyOf,                     \* the key of an element
  HASH_VALUE,                \* the hash of a key
  HASH_INITIAL_NUM_BUCKETS,  \* 32 in the code, a power of two
  HASH_BKT_CAPACITY_THRESH,  \* 10 in the code
  MaxBuckets,                \* bound: the table does not grow beyond
  NULL

ASSUME HashAssumption ==
  /\ NULL \notin Elements /\ IsFiniteSet(Elements)
  /\ \A e \in Elements : HASH_VALUE[KeyOf[e]] \in Nat
  /\ HASH_INITIAL_NUM_BUCKETS \in Nat \ {0}
  /\ HASH_BKT_CAPACITY_THRESH \in Nat \ {0}

VARIABLES
  head, tail, prev, next,  \* the application order
  num_items,
  tbl,                     \* the buckets and the chains through the elements
  el, del_tmp,             \* HASH_ITER of delete_all: the element and the next
  order                    \* history: the elements in the order of HASH_ADD

listed    == <<head, tail, prev, next, order>>
hash_vars == <<listed, num_items, tbl, el, del_tmp>>

Pointer == Elements \cup {NULL}

Nowhere     == [e \in Elements |-> NULL]
EmptyBucket == [hh_head |-> NULL, count |-> 0, expand_mult |-> 0]

(* A table without buckets: it has not been made, or freed.                *)
NoTable == [num_buckets |-> 0, buckets |-> <<>>, hh_prev |-> Nowhere,
            hh_next |-> Nowhere, ideal_chain_maxlen |-> 0, nonideal_items |-> 0,
            ineff_expands |-> 0, noexpand |-> FALSE]

Buckets(n) == [b \in 0 .. n - 1 |-> EmptyBucket]

HashInit ==
  /\ head = NULL /\ tail = NULL /\ prev = Nowhere /\ next = Nowhere
  /\ num_items = 0
  /\ tbl = NoTable
  /\ el = NULL /\ del_tmp = NULL
  /\ order = <<>>

-----------------------------------------------------------------------------
(* Buckets.                                                                *)

HASH_MAKE_TABLE ==
  [NoTable EXCEPT !.num_buckets = HASH_INITIAL_NUM_BUCKETS,
                  !.buckets = Buckets(HASH_INITIAL_NUM_BUCKETS)]

(* hashv & (num_bkts - 1), num_bkts being a power of two.                  *)
HASH_TO_BKT(e, num_bkts) == HASH_VALUE[KeyOf[e]] % num_bkts

(* The elements met from e on, following one kind of pointer to NULL.      *)
Walk(pointer, e) ==
  LET at[k \in 1 .. Cardinality(Elements)] ==
        IF k = 1 THEN e
        ELSE IF at[k - 1] = NULL THEN NULL ELSE pointer[at[k - 1]]
  IN SubSeq(at, 1, Cardinality({k \in DOMAIN at : at[k] # NULL}))

Chain(T, b) == Walk(T.hh_next, T.buckets[b].hh_head)

(* HASH_FIND_STR: the first of the chain that has the key.                 *)
HASH_FIND(key) ==
  IF head = NULL THEN NULL
  ELSE LET chain == Chain(tbl, HASH_VALUE[key] % tbl.num_buckets)
           hits  == {k \in DOMAIN chain : KeyOf[chain[k]] = key}
       IN IF hits = {} THEN NULL ELSE chain[Min(hits)]

(* An element becomes the first of its chain.                              *)
Push(T, e) ==
  LET b   == HASH_TO_BKT(e, T.num_buckets)
      old == T.buckets[b].hh_head
  IN [T EXCEPT !.buckets[b].count = @ + 1,
               !.buckets[b].hh_head = e,
               !.hh_next[e] = old,
               !.hh_prev = [x \in Elements |-> IF x = old THEN e
                                          ELSE IF x = e THEN NULL ELSE @[x]]]

(* Mutant of Rebucket: the bucket is found with the old number of buckets. *)
RebucketByOldMask(T, e) ==
  LET b   == HASH_TO_BKT(e, T.num_buckets \div 2)
      old == T.buckets[b].hh_head
  IN [T EXCEPT !.buckets[b].count = @ + 1,
               !.buckets[b].hh_head = e,
               !.hh_next[e] = old,
               !.hh_prev = [x \in Elements |-> IF x = old THEN e
                                          ELSE IF x = e THEN NULL ELSE @[x]]]

(* Mutant of Rebucket: crowded chains do not raise their threshold.        *)
RebucketUncounted(T, e) ==
  LET b == HASH_TO_BKT(e, T.num_buckets)
      P == Push(T, e)
  IN IF P.buckets[b].count <= T.ideal_chain_maxlen THEN P
     ELSE [P EXCEPT !.nonideal_items = @ + 1]

(* One turn of the inner loop of HASH_EXPAND_BUCKETS.                      *)
Rebucket(T, e) ==
  LET b == HASH_TO_BKT(e, T.num_buckets)
      P == Push(T, e)
      n == P.buckets[b].count
  IN IF n <= T.ideal_chain_maxlen THEN P
     ELSE [P EXCEPT !.nonideal_items = @ + 1,
                    !.buckets[b].expand_mult =
                       IF n > @ * T.ideal_chain_maxlen THEN @ + 1 ELSE @]

(* Twice the buckets.  Two expansions in a row after which more than half  *)
(* the items are beyond the ideal chain length are the last ones.          *)
HASH_EXPAND_BUCKETS(T, items) ==
  LET n     == 2 * T.num_buckets
      moved == FlattenSeq([b \in 1 .. T.num_buckets |-> Chain(T, b - 1)])
      fresh == [T EXCEPT !.num_buckets = n, !.buckets = Buckets(n),
                         !.nonideal_items = 0,
                         !.ideal_chain_maxlen =
                            items \div n + (IF items % n # 0 THEN 1 ELSE 0)]
      turn[k \in 0 .. Len(moved)] ==
        IF k = 0 THEN fresh ELSE Rebucket(turn[k - 1], moved[k])
      done  == turn[Len(moved)]
      ineff == IF done.nonideal_items > items \div 2
               THEN T.ineff_expands + 1 ELSE 0
  IN [done EXCEPT !.ineff_expands = ineff,
                  !.noexpand = T.noexpand \/ ineff > 1]

(* A bucket that has reached its threshold triggers the expansion.         *)
Crowded(bucket) ==
  bucket.count >= (bucket.expand_mult + 1) * HASH_BKT_CAPACITY_THRESH

HASH_ADD_TO_BKT(T, e, items) ==
  LET P == Push(T, e)
  IN IF Crowded(P.buckets[HASH_TO_BKT(e, P.num_buckets)]) /\ ~P.noexpand
     THEN HASH_EXPAND_BUCKETS(P, items) ELSE P

(* Mutant of HASH_DEL_IN_BKT: the next one of the chain still points back. *)
DelInBktNextOnly(T, e) ==
  LET b == HASH_TO_BKT(e, T.num_buckets)
  IN [T EXCEPT !.buckets[b].count = @ - 1,
               !.buckets[b].hh_head = IF @ = e THEN T.hh_next[e] ELSE @,
               !.hh_next = [x \in Elements |->
                  IF x = e THEN NULL
                  ELSE IF x = T.hh_prev[e] THEN T.hh_next[e] ELSE @[x]],
               !.hh_prev[e] = NULL]

(* Take an element out of its chain.                                       *)
HASH_DEL_IN_BKT(T, e) ==
  LET b == HASH_TO_BKT(e, T.num_buckets)
  IN [T EXCEPT !.buckets[b].count = @ - 1,
               !.buckets[b].hh_head = IF @ = e THEN T.hh_next[e] ELSE @,
               !.hh_next = [x \in Elements |->
                  IF x = e THEN NULL
                  ELSE IF x = T.hh_prev[e] THEN T.hh_next[e] ELSE @[x]],
               !.hh_prev = [x \in Elements |->
                  IF x = e THEN NULL
                  ELSE IF x = T.hh_next[e] THEN T.hh_prev[e] ELSE @[x]]]

-----------------------------------------------------------------------------
(* The macros the table is used through.                                   *)

(* HASH_ADD_STR: the first element makes the table, ...                    *)
AddFirst(e) ==
  /\ el = NULL /\ head = NULL
  /\ head' = e /\ tail' = e /\ order' = <<e>>
  /\ num_items' = 1
  /\ tbl' = HASH_ADD_TO_BKT(HASH_MAKE_TABLE, e, 1)
  /\ UNCHANGED <<prev, next, el, del_tmp>>

(* ... any other is appended (HASH_APPEND_LIST).                           *)
AddLast(e) ==
  /\ el = NULL /\ head # NULL
  /\ e # head /\ prev[e] = NULL /\ HASH_FIND(KeyOf[e]) = NULL
  /\ prev' = [prev EXCEPT ![e] = tail]
  /\ next' = [next EXCEPT ![tail] = e]
  /\ tail' = e /\ order' = Append(order, e)
  /\ num_items' = num_items + 1
  /\ tbl' = HASH_ADD_TO_BKT(tbl, e, num_items + 1)
  /\ tbl'.num_buckets <= MaxBuckets
  /\ UNCHANGED <<head, el, del_tmp>>

PlaceOf(e) == CHOOSE k \in DOMAIN order : order[k] = e

(* Mutant of Unlist: the tail is not moved back.                           *)
UnlistKeepTail(e) ==
  /\ head' = IF prev[e] = NULL THEN next[e] ELSE head
  /\ next' = [x \in Elements |-> IF x = e THEN NULL
                                 ELSE IF x = prev[e] THEN next[e] ELSE next[x]]
  /\ prev' = [x \in Elements |-> IF x = e THEN NULL
                                 ELSE IF x = next[e] THEN prev[e] ELSE prev[x]]
  /\ order' = RemoveAt(order, PlaceOf(e))
  /\ UNCHANGED tail

(* The patch-up of the application order.                                  *)
Unlist(e) ==
  /\ head' = IF prev[e] = NULL THEN next[e] ELSE head
  /\ tail' = IF e = tail THEN prev[e] ELSE tail
  /\ next' = [x \in Elements |-> IF x = e THEN NULL
                                 ELSE IF x = prev[e] THEN next[e] ELSE next[x]]
  /\ prev' = [x \in Elements |-> IF x = e THEN NULL
                                 ELSE IF x = next[e] THEN prev[e] ELSE prev[x]]
  /\ order' = RemoveAt(order, PlaceOf(e))

(* HASH_DEL: the table goes with the last element.                         *)
HASH_DELETE(e) ==
  /\ Unlist(e)
  /\ IF prev[e] = NULL /\ next[e] = NULL
     THEN num_items' = 0 /\ tbl' = NoTable
     ELSE num_items' = num_items - 1 /\ tbl' = HASH_DEL_IN_BKT(tbl, e)

Delete(e) ==
  /\ el = NULL
  /\ e = head \/ prev[e] # NULL
  /\ HASH_DELETE(e)
  /\ UNCHANGED <<el, del_tmp>>

(* subdev_address_hash_delete_all: HASH_ITER saves the next element before *)
(* the loop's body deletes this one.                                       *)
DeleteAllBegin ==
  /\ el = NULL /\ head # NULL
  /\ el' = head /\ del_tmp' = next[head]
  /\ UNCHANGED <<listed, num_items, tbl>>

(* Mutant of DeleteAllNext: the next element is read from the one that was *)
(* just deleted.                                                           *)
DeleteAllUnsaved ==
  /\ el # NULL
  /\ HASH_DELETE(el)
  /\ el' = next'[el]
  /\ del_tmp' = NULL

DeleteAllNext ==
  /\ el # NULL
  /\ HASH_DELETE(el)
  /\ el' = del_tmp
  /\ del_tmp' = IF del_tmp = NULL THEN NULL ELSE next'[del_tmp]

HashNext == \/ \E e \in Elements : AddFirst(e) \/ AddLast(e) \/ Delete(e)
            \/ DeleteAllBegin \/ DeleteAllNext

HashSpec == HashInit /\ [][HashNext]_hash_vars

-----------------------------------------------------------------------------
(* Properties.                                                             *)

(* The application order is intact: from head to tail, forwards and        *)
(* backwards, it holds the elements that were added and not deleted, in    *)
(* the order they were added, and no other element points into it          *)
(* (HASH_APPEND_LIST, HASH_DELETE_HH, HASH_ITER under deletion).           *)
ListIntact ==
  /\ head = IF order = <<>> THEN NULL ELSE order[1]
  /\ tail = IF order = <<>> THEN NULL ELSE order[Len(order)]
  /\ \A k \in DOMAIN order :
       /\ next[order[k]] = IF k < Len(order) THEN order[k + 1] ELSE NULL
       /\ prev[order[k]] = IF k > 1 THEN order[k - 1] ELSE NULL
  /\ \A e \in Elements : (\A k \in DOMAIN order : order[k] # e)
                           => next[e] = NULL /\ prev[e] = NULL

(* When the loop of subdev_address_hash_delete_all ends, it has deleted    *)
(* every element, although it deletes and frees each of them before it     *)
(* goes on to the next (HASH_ITER).                                        *)
DeleteAllEmpties == [][el # NULL /\ el' = NULL => order' = <<>>]_hash_vars

(* What HASH_FSCK checks of the buckets: the chains are linked both ways,  *)
(* each bucket counts its chain, and together they have num_items.         *)
Fsck ==
  /\ \A b \in DOMAIN tbl.buckets :
       LET chain == Chain(tbl, b) IN
       /\ tbl.buckets[b].count = Len(chain)
       /\ \A k \in DOMAIN chain :
            tbl.hh_prev[chain[k]] = IF k > 1 THEN chain[k - 1] ELSE NULL
  /\ num_items = Len(order)
  /\ num_items = Cardinality(UNION {Range(Chain(tbl, b)) : b \in DOMAIN tbl.buckets})

(* A look-up agrees with the list: an element that was added and not       *)
(* deleted is found by its key after any number of expansions, and nothing *)
(* else is (HASH_FIND, HASH_EXPAND_BUCKETS).                               *)
FindsListed ==
  \A e \in Elements :
     (HASH_FIND(KeyOf[e]) = e) <=> \E k \in DOMAIN order : order[k] = e

(* "It is better to let its chain length grow to a longer                  *)
(* yet-still-bounded value": as long as expansion is not inhibited, a      *)
(* chain is below its threshold, or within as many times the ideal length  *)
(* as its bucket allows (UT_hash_bucket, HASH_EXPAND_BUCKETS).             *)
ChainsBounded ==
  ~tbl.noexpand => \A b \in DOMAIN tbl.buckets : LET bucket == tbl.buckets[b] IN
     \/ ~Crowded(bucket)
     \/ bucket.count <= (bucket.expand_mult + 1) * tbl.ideal_chain_maxlen
=============================================================================
