-------------------------- MODULE TraceLevelCache ---------------------------
(***************************************************************************)
(* The cache of filter decisions: find_trace_level_or_call_filter of       *)
(* trace_level_func_cache.pyx on the LRU of lru.hpp, an array of entries   *)
(* on the hash table of uthash.h, whose list in the order of insertion is  *)
(* the order of last use.                                                  *)
(*                                                                         *)
(* One cache belongs to one greenlet of one thread, and the lookup runs    *)
(* inside the profile function, so each lookup is one step.                *)
(***************************************************************************)
EXTENDS Integers, Sequences, FiniteSets, SequencesExt

CONSTANTS
  Keys,      \* addresses of code objects, unsigned long
  Word,      \* the sizeof(int) bytes of a key that the hash compares
  Levels,    \* trace levels the filter may return
  CacheSize, \* capacity of the LRU
  NULL,
  HASH_FCN,
  HASH_INITIAL_NUM_BUCKETS,
  HASH_BKT_CAPACITY_THRESH

LRU_NOT_FOUND == -1

(* With capacity 0 insert would take the first element of an empty table.  *)
ASSUME CacheSizeAssumption == CacheSize \in Nat \ {0}
ASSUME KeysAssumption == DOMAIN Word = Keys /\ LRU_NOT_FOUND \notin Keys
(* A filter that returned -1 would never be remembered: find could not     *)
(* tell it from an absent key, and insert would store the key once more.   *)
ASSUME LevelsAssumption == Levels \subseteq Nat

Entries == 0..(CacheSize - 1)
Words == {Word[k] : k \in Keys}

ASSUME NullAssumption == NULL \notin Entries
ASSUME HashAssumption == HASH_FCN \in [Words -> Nat]
ASSUME BucketsAssumption ==
  /\ HASH_INITIAL_NUM_BUCKETS \in Nat \ {0}
  /\ \E log2 \in 0..HASH_INITIAL_NUM_BUCKETS : HASH_INITIAL_NUM_BUCKETS = 2 ^ log2
  /\ HASH_BKT_CAPACITY_THRESH \in Nat \ {0}

INSTANCE UtHash WITH Elements <- Entries

VARIABLES
  entries,   \* the array of entries, each a key and a value
  table,     \* the hash table that links them
  result,    \* what the last lookup returned, and for which key
  used,      \* history: the words looked up, by last use
  decision   \* history: what the filter last said of a key with a word

vars == <<entries, table, result, used, decision>>

Vacant == [k |-> LRU_NOT_FOUND, v |-> LRU_NOT_FOUND]

Init ==
  /\ entries = [e \in Entries |-> Vacant]
  /\ table = NoTable
  /\ result = Vacant
  /\ used = <<>>
  /\ decision = [w \in Words |-> LRU_NOT_FOUND]

-----------------------------------------------------------------------------
(* LRU; a fault stands before its definition.                              *)

(* What the hash compares of the key of each entry in use                  *)
KeyAt == [e \in {f \in Entries : entries[f] # Vacant} |-> Word[entries[e].k]]

HASH_FIND_INT(k) == HASH_FIND(table, KeyAt, Word[k])

(* HASH_DEL and HASH_ADD_INT of an element that was found; faults: it      *)
(* keeps its place, it is not added again                                  *)
ReinsertNothing(e) == table
ReinsertForgotten(e) == HASH_DELETE(table, e)
Reinserted(e) == HASH_ADD(HASH_DELETE(table, e), e, KeyAt[e])

(* used_size >= capacity                                                   *)
Full == HASH_COUNT(table) >= CacheSize

(* The entry insert uses: the first of HASH_ITER, which it evicts, or the  *)
(* next of the array                                                       *)
Entry == IF Full THEN table.head ELSE HASH_COUNT(table)
Evicted == IF Full THEN HASH_DELETE(table, table.head) ELSE table

(* What insert stores; fault: the key of an evicted entry stays            *)
StoredKeyStays(k, v) == [entries EXCEPT ![Entry] = [k |-> IF Full THEN @.k ELSE k, v |-> v]]
Stored(k, v) == [entries EXCEPT ![Entry] = [k |-> k, v |-> v]]

(* The destructor deletes each element of HASH_ITER.                       *)
Emptied == DeleteItems(table, AppOrder(table))[Len(AppOrder(table))]

-----------------------------------------------------------------------------

Use(k) == used' = Append(RemoveFirst(used, Word[k]), Word[k])

(* LRU::find finds the key: it becomes the most recently used              *)
Hit(k) ==
  LET elem == HASH_FIND_INT(k)
  IN  /\ elem # NULL
      /\ result' = [k |-> k, v |-> entries[elem].v]
      /\ table' = Reinserted(elem)
      /\ Use(k)
      /\ UNCHANGED <<entries, decision>>

(* LRU::find returns LRU_NOT_FOUND: the filter is called and LRU::insert   *)
(* stores its answer                                                       *)
Miss(k, level) ==
  /\ HASH_FIND_INT(k) = NULL
  /\ entries' = Stored(k, level)
  /\ table' = HASH_ADD(Evicted, Entry, Word[k])
  /\ result' = [k |-> k, v |-> level]
  /\ Use(k)
  /\ decision' = [decision EXCEPT ![Word[k]] = level]

(* The greenlet's outermost frame returned: ~LRU, and the greenlet's next  *)
(* call finds a new LRU, of which no lookup is known                       *)
Renew ==
  /\ table' = [NoTable EXCEPT !.tbl = Emptied.tbl]
  /\ entries' = [e \in Entries |-> Vacant]
  /\ result' = Vacant
  /\ used' = <<>>
  /\ decision' = [w \in Words |-> LRU_NOT_FOUND]

Next == Renew \/ \E k \in Keys : Hit(k) \/ \E level \in Levels : Miss(k, level)

Spec == Init /\ [][Next]_vars

-----------------------------------------------------------------------------
(* Properties.                                                             *)

(* The comment in LRU::insert: since nothing is ever deleted the entries   *)
(* in use are the first of the array, so that the next one is vacant.  The *)
(* table links each of them once.                                          *)
EntriesCompact ==
  LET linked == AppOrder(table)
  IN  /\ ToSet(linked) = 0..(Len(linked) - 1)
      /\ Cardinality(ToSet(linked)) = Len(linked)
      /\ \A e \in Entries : entries[e] = Vacant <=> e \notin ToSet(linked)

CachedWords == [j \in DOMAIN AppOrder(table) |-> KeyAt[AppOrder(table)[j]]]

(* The cache has the last CacheSize words that were looked up, each once,  *)
(* in the order of their last use: insert evicts the least recently used   *)
(* one, and code objects whose addresses agree in the bytes compared never *)
(* get two entries, of which the older would be found again later.         *)
KeepsMostRecent ==
  LET size == IF Len(used) < CacheSize THEN Len(used) ELSE CacheSize
  IN  CachedWords = SubSeq(used, Len(used) - size + 1, Len(used))

(* The trace level returned for a code object is the one the filter gave   *)
(* last, through evictions and reuse of entries, for it or for a code      *)
(* object that shares its word: "a code object address to a trace level    *)
(* decision" is what the cache is as long as no two are 4 GiB apart.       *)
ReturnsItsDecision ==
  result # Vacant => result.v = decision[Word[result.k]]

(* What uthash verifies of itself in a debug build, after every lookup and *)
(* not only where a test has been: the chains of the buckets and the list  *)
(* of all elements agree with their back links and counts.  The table's    *)
(* memory goes with its last element, and with the LRU, whose destructor   *)
(* deletes each element "so uthash will delete all its internal records".  *)
TableIntegrity == HASH_FSCK(table) /\ (table.head = NULL => table.tbl = NULL)

(* Every hit deletes an element and adds it again, and adding is what      *)
(* doubles the buckets of a table: looking a key up never does.            *)
HitKeepsBuckets ==
  [][ entries' = entries /\ table'.head # NULL
        => table'.tbl.num_buckets = table.tbl.num_buckets ]_vars
=============================================================================
