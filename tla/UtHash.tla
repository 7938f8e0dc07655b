------------------------------- MODULE UtHash -------------------------------
(***************************************************************************)
(* The hash table of uthash.h, pointer by pointer: the elements are on one *)
(* doubly-linked list in the order they were added, and each is on the     *)
(* chain of its bucket.  A table is a record of the user's head pointer,   *)
(* the UT_hash_table and the UT_hash_handle of every element; each macro   *)
(* is a function on such records.  A fault stands before its definition.   *)
(***************************************************************************)
EXTENDS Integers, Sequences, FiniteSets, SequencesExt

CONSTANTS
  Elements,                       \* the user's structures
  NULL,
  HASH_FCN,                       \* key to hash value
  HASH_INITIAL_NUM_BUCKETS,       \* a power of two
  HASH_BKT_CAPACITY_THRESH

UT_hash_bucket == [hh_head |-> NULL, count |-> 0, expand_mult |-> 0]
UT_hash_handle == [prev |-> NULL, next |-> NULL, hh_prev |-> NULL, hh_next |-> NULL, hashv |-> 0]

(* head = NULL                                                             *)
NoTable == [head |-> NULL, tbl |-> NULL, hh |-> [e \in Elements |-> UT_hash_handle]]

Buckets(n) == [b \in 0..(n - 1) |-> UT_hash_bucket]

HASH_MAKE_TABLE(add) ==
  [buckets |-> Buckets(HASH_INITIAL_NUM_BUCKETS), num_buckets |-> HASH_INITIAL_NUM_BUCKETS,
   num_items |-> 0, tail |-> add, ineff_expands |-> 0, noexpand |-> FALSE]

(* if (p) p->field = v                                                     *)
Link(hh, p, field, v) == IF p = NULL THEN hh ELSE [hh EXCEPT ![p][field] = v]

(* hashv & (num_bkts - 1), of a power of two                               *)
HASH_TO_BKT(hashv, num_bkts) == hashv % num_bkts

(* The elements from p on, following the pointers of a field               *)
Chain(hh, p, field) ==
  LET walk[i \in 0..Cardinality(Elements)] ==
        IF i = 0 THEN p
        ELSE IF walk[i - 1] = NULL THEN NULL ELSE hh[walk[i - 1]][field]
      visited == {i \in DOMAIN walk : walk[i] # NULL}
  IN  [i \in 1..Cardinality(visited) |-> walk[i - 1]]

BucketChain(H, b) == Chain(H.hh, H.tbl.buckets[b].hh_head, "hh_next")

(* The order of HASH_ITER                                                  *)
AppOrder(H) == Chain(H.hh, H.head, "next")

(* The elements bucket by bucket                                           *)
BucketOrder(H) == FlattenSeq([i \in 1..H.tbl.num_buckets |-> BucketChain(H, i - 1)])

HASH_COUNT(H) == IF H.head = NULL THEN 0 ELSE H.tbl.num_items

(* key[e] is what the key pointer of element e points to.                  *)
HASH_FIND(H, key, k) ==
  IF H.head = NULL THEN NULL
  ELSE LET chain == BucketChain(H, HASH_TO_BKT(HASH_FCN[k], H.tbl.num_buckets))
           same == {i \in DOMAIN chain : key[chain[i]] = k}
       IN  IF same = {} THEN NULL ELSE chain[CHOOSE i \in same : \A j \in same : i <= j]

(* An element becomes the head of the chain that starts with first.        *)
LinkFirst(hh, first, e) ==
  Link([hh EXCEPT ![e].hh_next = first, ![e].hh_prev = NULL], first, "hh_prev", e)

BktWith(bkt, e) == [hh_head |-> e, count |-> bkt.count + 1, expand_mult |-> bkt.expand_mult]

(* One item of HASH_EXPAND_BUCKETS, moved to the head of its new bucket    *)
MoveItem(new, e) ==
  LET b == HASH_TO_BKT(new.hh[e].hashv, 2 * new.num_buckets)
      bkt == BktWith(new.buckets[b], e)
      nonideal == bkt.count > new.ideal_chain_maxlen
  IN  [new EXCEPT
        !.nonideal_items = IF nonideal THEN @ + 1 ELSE @,
        !.buckets[b] = IF nonideal
                       THEN [bkt EXCEPT !.expand_mult = bkt.count \div new.ideal_chain_maxlen]
                       ELSE bkt,
        !.hh = LinkFirst(@, new.buckets[b].hh_head, e)]

(* The expansion before its first item is moved                            *)
NewBuckets(H) ==
  LET n == H.tbl.num_buckets
  IN  [buckets |-> Buckets(2 * n), hh |-> H.hh, num_buckets |-> n, nonideal_items |-> 0,
       ideal_chain_maxlen |-> (H.tbl.num_items + 2 * n - 1) \div (2 * n)]

MoveItems(H, items) ==
  LET moved[i \in 0..Len(items)] ==
        IF i = 0 THEN NewBuckets(H) ELSE MoveItem(moved[i - 1], items[i])
  IN  moved

HASH_EXPAND_BUCKETS(H) ==
  LET t == H.tbl
      items == BucketOrder(H)
      new == MoveItems(H, items)[Len(items)]
      ineff == IF new.nonideal_items > t.num_items \div 2 THEN t.ineff_expands + 1 ELSE 0
  IN  [H EXCEPT !.hh = new.hh,
                !.tbl = [t EXCEPT !.num_buckets = 2 * t.num_buckets, !.buckets = new.buckets,
                                  !.ineff_expands = ineff, !.noexpand = t.noexpand \/ ineff > 1]]

(* A chain to split; fault: however often that has not helped before       *)
TooLongOften(bkt) == bkt.count >= HASH_BKT_CAPACITY_THRESH
TooLong(bkt) == bkt.count >= (bkt.expand_mult + 1) * HASH_BKT_CAPACITY_THRESH

AddedToBkt(H, b, e) ==
  [H EXCEPT !.tbl.buckets[b] = BktWith(@, e),
            !.hh = LinkFirst(@, H.tbl.buckets[b].hh_head, e)]

HASH_ADD_TO_BKT(H, b, e) ==
  LET added == AddedToBkt(H, b, e)
  IN  IF TooLong(added.tbl.buckets[b]) /\ ~ H.tbl.noexpand
      THEN HASH_EXPAND_BUCKETS(added)
      ELSE added

(* An element becomes the last of the list of all elements.                *)
LinkedLast(H, e, k) ==
  LET first == H.head = NULL
      tbl == IF first THEN HASH_MAKE_TABLE(e) ELSE H.tbl
      last == IF first THEN NULL ELSE tbl.tail
  IN  [head |-> IF first THEN e ELSE H.head,
       tbl |-> [tbl EXCEPT !.tail = e, !.num_items = @ + 1],
       hh |-> Link([H.hh EXCEPT ![e].prev = last, ![e].next = NULL, ![e].hashv = HASH_FCN[k]],
                   last, "next", e)]

HASH_ADD(H, e, k) ==
  LET linked == LinkedLast(H, e, k)
  IN  HASH_ADD_TO_BKT(linked, HASH_TO_BKT(HASH_FCN[k], linked.tbl.num_buckets), e)

BktWithout(bkt, e, next) ==
  [hh_head |-> IF bkt.hh_head = e THEN next ELSE bkt.hh_head,
   count |-> bkt.count - 1, expand_mult |-> bkt.expand_mult]

(* fault: the element after the deleted one still points back to it        *)
HASH_DEL_IN_BKT_HalfLinked(H, b, e) ==
  LET del == H.hh[e]
  IN  [H EXCEPT
        !.tbl.buckets[b] = BktWithout(@, e, del.hh_next),
        !.hh = Link(@, del.hh_prev, "hh_next", del.hh_next)]
HASH_DEL_IN_BKT(H, b, e) ==
  LET del == H.hh[e]
  IN  [H EXCEPT
        !.tbl.buckets[b] = BktWithout(@, e, del.hh_next),
        !.hh = Link(Link(@, del.hh_prev, "hh_next", del.hh_next),
                    del.hh_next, "hh_prev", del.hh_prev)]

(* An element leaves the list of all elements.                             *)
Unlinked(H, e) ==
  LET del == H.hh[e]
  IN  [head |-> IF del.prev = NULL THEN del.next ELSE H.head,
       tbl |-> [H.tbl EXCEPT !.tail = IF @ = e THEN del.prev ELSE @, !.num_items = @ - 1],
       hh |-> Link(Link(H.hh, del.prev, "next", del.next), del.next, "prev", del.prev)]

(* The last element takes the table with it.                               *)
HASH_DELETE(H, e) ==
  LET del == H.hh[e]
  IN  IF del.prev = NULL /\ del.next = NULL
      THEN [head |-> NULL, tbl |-> NULL, hh |-> H.hh]
      ELSE HASH_DEL_IN_BKT(Unlinked(H, e), HASH_TO_BKT(del.hashv, H.tbl.num_buckets), e)

(* HASH_DELETE of one element after the other                              *)
DeleteItems(H, items) ==
  LET left[i \in 0..Len(items)] ==
        IF i = 0 THEN H ELSE HASH_DELETE(left[i - 1], items[i])
  IN  left

(* An element follows, in a list, the one its back pointer names.          *)
BackLinked(H, list, field) ==
  \A i \in DOMAIN list : H.hh[list[i]][field] = IF i = 1 THEN NULL ELSE list[i - 1]

(* What the macro verifies after every addition and deletion of a debug    *)
(* build                                                                   *)
HASH_FSCK(H) ==
  H.head # NULL =>
    /\ \A b \in DOMAIN H.tbl.buckets :
         /\ BackLinked(H, BucketChain(H, b), "hh_prev")
         /\ H.tbl.buckets[b].count = Len(BucketChain(H, b))
    /\ H.tbl.num_items = Len(BucketOrder(H))
    /\ BackLinked(H, AppOrder(H), "prev")
    /\ H.tbl.num_items = Len(AppOrder(H))
=============================================================================
