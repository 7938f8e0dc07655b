--------------------------- MODULE GreenletTraceProofs ---------------------------
(***************************************************************************)
(* Proofs about the profile function, for every number of greenlets, code  *)
(* objects, filter decisions and frame addresses and every depth of the    *)
(* stacks.                                                                 *)
(***************************************************************************)
EXTENDS GreenletTrace, FiniteSetTheorems, FunctionTheorems, SequenceTheorems, TLAPS

-----------------------------------------------------------------------------
(* The parts of the invariant.                                             *)

Frames == [addr : Addresses, func : Funcs, depth : Int, nested : BOOLEAN]
GreenletStorages == [gid : Greenlets, depth : Int, no_trace_from_depth : Int]

TypeInv ==
  /\ profiling \in BOOLEAN
  /\ current \in Greenlets
  /\ stack \in [Greenlets -> Seq(Frames)]
  /\ \A g \in Greenlets : Len(stack[g]) <= MaxDepth
  /\ enabled \in Int
  /\ last_frame \in Addresses \cup {NULL}
  /\ DOMAIN gstorage \subseteq Storages
  /\ \A s \in DOMAIN gstorage : gstorage[s] \in GreenletStorages
  /\ suspended \in BOOLEAN
  /\ unsets \in Nat

(* No two frames have the same address.                                    *)
AddressInv ==
  \A g, h \in Greenlets : \A i \in DOMAIN stack[g], j \in DOMAIN stack[h] :
    stack[g][i].addr = stack[h][j].addr => g = h /\ i = j

(* gid_map has one storage per word, and the cached one is in it while a   *)
(* frame is remembered.                                                    *)
StorageInv ==
  /\ \A s, t \in DOMAIN gstorage : Word[gstorage[s].gid] = Word[gstorage[t].gid] => s = t
  /\ last_frame # NULL => last_gstorage \in DOMAIN gstorage

(* Tracing that was never suspended is enabled.                            *)
EnabledInv == ~suspended => enabled = 1

(* Until the profile function is installed there is nothing to remember.   *)
FreshInv == ~profiling => last_frame = NULL /\ DOMAIN gstorage = {}

(* The frame remembered is the innermost of a greenlet that uses the       *)
(* cached storage.                                                         *)
TopInv ==
  last_frame # NULL =>
    \E g \in Greenlets : /\ Word[g] = Word[gstorage[last_gstorage].gid]
                         /\ stack[g] # <<>>
                         /\ stack[g][Len(stack[g])].addr = last_frame

(* A storage was made for a greenlet that has frames and, when no other    *)
(* uses it, counts no more frames than there are.                          *)
LiveInv ==
  \A s \in DOMAIN gstorage :
    /\ stack[gstorage[s].gid] # <<>>
    /\ Unshared(gstorage[s].gid) => gstorage[s].depth <= Len(stack[gstorage[s].gid])

(* The frames that were seen of a greenlet with a storage for itself have  *)
(* depths that go with the depth in it, and no_trace_from_depth is that of *)
(* the frame that is not to be traced with all that it calls.              *)
FrameInv ==
  \A g \in Greenlets : \A i \in DOMAIN stack[g] :
    Unshared(g) /\ (stack[g][i].depth # NotSeen \/ stack[g][i].nested) =>
      \E s \in DOMAIN gstorage :
        /\ gstorage[s].gid = g
        /\ stack[g][i].depth - i = gstorage[s].depth - Len(stack[g])
        /\ stack[g][i].nested => gstorage[s].no_trace_from_depth = stack[g][i].depth

(* Outside such a frame the next call is not silenced.                     *)
OpenInv ==
  ~suspended =>
    \A s \in DOMAIN gstorage :
      /\ Unshared(gstorage[s].gid)
      /\ \A i \in DOMAIN stack[gstorage[s].gid] : ~stack[gstorage[s].gid][i].nested
      =>
        gstorage[s].depth < gstorage[s].no_trace_from_depth

(* What holds while the profile function stays installed.                  *)
SeenInv == FreshInv /\ TopInv /\ LiveInv /\ FrameInv /\ OpenInv

GreenletInv == TypeInv /\ AddressInv /\ StorageInv /\ EnabledInv /\ (unsets = 0 => SeenInv)

-----------------------------------------------------------------------------
(* The stacks.                                                             *)

(* The constants are numbers and a finite set.                             *)
LEMMA Constants ==
  /\ Main \in Greenlets /\ IsFiniteSet(Greenlets) /\ Cardinality(Greenlets) \in Nat
  /\ NULL \notin Addresses
  /\ MaxDepth \in Nat /\ MaxDepth < NO_TRACE_FROM_DEPTH_DISABLED
  /\ NO_TRACE_FROM_DEPTH_DISABLED \in Nat
<1>1. Main \in Greenlets /\ IsFiniteSet(Greenlets) /\ NULL \notin Addresses
  BY GreenletsAssumption, AddressesAssumption
<1>2. Cardinality(Greenlets) \in Nat
  BY <1>1, FS_CardinalityType
<1>3. NO_TRACE_FROM_DEPTH_DISABLED \in Nat
  BY SMT DEF NO_TRACE_FROM_DEPTH_DISABLED
<1>4. MaxDepth \in Nat /\ MaxDepth < NO_TRACE_FROM_DEPTH_DISABLED
  BY SMT, <1>3, DepthAssumption
<1> QED
  BY <1>1, <1>2, <1>3, <1>4

(* The number of frames below the innermost.                               *)
LEMMA Predecessor ==
  ASSUME NEW n \in Nat, n >= 1
  PROVE  n - 1 \in Nat /\ (n - 1 = 0 <=> n = 1) /\ (n # 1 => n - 1 \in 1..n)
OBVIOUS

(* A call puts a frame on the stack of the running greenlet.               *)
LEMMA Pushed ==
  ASSUME TypeInv, NEW f \in Frames, NEW n \in Nat, n = Len(stack[current]),
         stack' = [stack EXCEPT ![current] = Append(@, f)]
  PROVE  /\ n \in Nat /\ DOMAIN stack[current] = 1..n
         /\ stack' \in [Greenlets -> Seq(Frames)]
         /\ \A g \in Greenlets : g # current => stack'[g] = stack[g]
         /\ Len(stack'[current]) = n + 1 /\ DOMAIN stack'[current] = 1..(n + 1)
         /\ \A i \in 1..n : stack'[current][i] = stack[current][i]
         /\ stack'[current][n + 1] = f
         /\ stack'[current] # <<>>
<1>1. stack[current] \in Seq(Frames) /\ current \in Greenlets /\ stack \in [Greenlets -> Seq(Frames)]
  BY DEF TypeInv
<1>2. stack'[current] = Append(stack[current], f)
  BY <1>1
<1>3. \A g \in Greenlets : g # current => stack'[g] = stack[g]
  BY <1>1
<1>4. stack'[current] \in Seq(Frames)
  BY <1>1, <1>2
<1>5. stack' \in [Greenlets -> Seq(Frames)]
  BY <1>1, <1>2, <1>4
<1> QED
  BY <1>1, <1>2, <1>3, <1>5

(* A return takes the innermost frame away.                                *)
LEMMA Dropped ==
  ASSUME TypeInv, InPython, NEW n \in Nat, n = Len(stack[current]),
         stack' = [stack EXCEPT ![current] = SubSeq(@, 1, Len(@) - 1)]
  PROVE  /\ n \in Nat /\ n >= 1 /\ DOMAIN stack[current] = 1..n
         /\ stack' \in [Greenlets -> Seq(Frames)]
         /\ \A g \in Greenlets : g # current => stack'[g] = stack[g]
         /\ Len(stack'[current]) = n - 1 /\ DOMAIN stack'[current] = 1..(n - 1)
         /\ \A i \in 1..(n - 1) : stack'[current][i] = stack[current][i]
         /\ stack'[current] = <<>> <=> n = 1
<1>1. /\ stack[current] \in Seq(Frames) /\ current \in Greenlets /\ stack \in [Greenlets -> Seq(Frames)]
      /\ stack[current] # <<>>
  BY DEF TypeInv, InPython
<1>2. n \in Nat /\ n >= 1 /\ DOMAIN stack[current] = 1..n
  BY <1>1
<1>3. stack'[current] = SubSeq(stack[current], 1, n - 1)
  BY <1>1
<1>4. \A g \in Greenlets : g # current => stack'[g] = stack[g]
  BY <1>1
<1>5. /\ stack'[current] \in Seq(Frames) /\ Len(stack'[current]) = n - 1
      /\ \A i \in 1..(n - 1) : stack'[current][i] = stack[current][i]
  <2>1. \A i \in 1..(n - 1) : stack[current][i] \in Frames
    BY <1>1, <1>2
  <2> QED
    BY <1>1, <1>2, <1>3, <2>1, SubSeqProperties
<1>6. stack' \in [Greenlets -> Seq(Frames)]
  BY <1>1, <1>3, <1>5
<1>7. DOMAIN stack'[current] = 1..(n - 1)
  BY <1>2, <1>5
<1>8. stack'[current] = <<>> <=> n = 1
  <2>1. stack'[current] = <<>> <=> Len(stack'[current]) = 0
    BY <1>5, EmptySeq
  <2> QED
    BY <1>2, <1>5, <2>1, Predecessor
<1> QED
  BY <1>2, <1>4, <1>5, <1>6, <1>7, <1>8

(* The innermost frame and the one below it.                               *)
LEMMA InnermostFrames ==
  ASSUME TypeInv, NEW n \in Nat, n = Len(stack[current])
  PROVE  /\ InPython => /\ n \in Nat /\ n >= 1 /\ n <= MaxDepth /\ Top = stack[current][n]
                        /\ Top \in Frames /\ CallerAddress = Top.addr /\ CallerAddress \in Addresses
                        /\ n = 1 => BackAddress = NULL
                        /\ n # 1 => BackAddress = stack[current][n - 1].addr /\ BackAddress \in Addresses
         /\ ~InPython => n = 0 /\ CallerAddress = NULL
<1>1. stack[current] \in Seq(Frames) /\ current \in Greenlets /\ n <= MaxDepth
  BY DEF TypeInv
<1>2. CASE ~InPython
  BY <1>1, <1>2 DEF InPython, CallerAddress
<1>3. CASE InPython
  <2>1. n \in Nat /\ n >= 1 /\ Top = stack[current][n] /\ DOMAIN stack[current] = 1..n
    BY <1>1, <1>3 DEF InPython, Top
  <2>2. Top \in Frames
    BY <1>1, <2>1
  <2>3. CallerAddress = Top.addr /\ CallerAddress \in Addresses
    BY <1>3, <2>2 DEF InPython, CallerAddress, Frames
  <2>4. n = 1 => BackAddress = NULL
    BY DEF BackAddress
  <2>5. ASSUME n # 1 PROVE BackAddress = stack[current][n - 1].addr /\ BackAddress \in Addresses
    <3>1. BackAddress = stack[current][n - 1].addr
      BY <2>5 DEF BackAddress
    <3>2. n - 1 \in 1..n
      BY <2>1, <2>5, Predecessor
    <3>3. stack[current][n - 1] \in Frames
      BY <1>1, <2>1, <3>2
    <3> QED
      BY <3>1, <3>3 DEF Frames
  <2> QED
    BY <1>1, <1>3, <2>1, <2>2, <2>3, <2>4, <2>5
<1> QED
  BY <1>2, <1>3

-----------------------------------------------------------------------------
(* The storage an event uses.                                              *)

(* The storage found for the running greenlet, or the new one; on RETURN   *)
(* the frame looked up is the running one, on CALL it is the caller, which *)
(* is the running one still.                                               *)
Store == GStore(CallerAddress)

(* That storage before the event, ancestors being the frames below.        *)
Before(ancestors) ==
  IF Store \in DOMAIN gstorage THEN gstorage[Store] ELSE NewGStore(current, ancestors)

(* There is memory for the storage of a greenlet that has none: gid_map    *)
(* has one entry per word at most, so no more than there are greenlets.    *)
LEMMA RoomForStorage ==
  ASSUME TypeInv, StorageInv, Found(current) = {}
  PROVE  FreeStorage \in Storages /\ FreeStorage \notin DOMAIN gstorage
<1> DEFINE D == DOMAIN gstorage
           G == Greenlets \ {current}
           f == [s \in D |-> gstorage[s].gid]
<1>0. current \in Greenlets /\ D \subseteq Storages /\ \A s \in D : gstorage[s].gid \in Greenlets
  BY DEF TypeInv, GreenletStorages
<1>1. \A s \in D : f[s] \in G
  <2>1. \A s \in D : Word[gstorage[s].gid] # Word[current]
    BY DEF Found
  <2> QED
    BY <1>0, <2>1
<1>2. f \in [D -> G]
  BY <1>1
<1>3. \A s, t \in D : f[s] = f[t] => s = t
  BY DEF StorageInv
<1>4. IsFiniteSet(G) /\ Cardinality(G) = Cardinality(Greenlets) - 1
  BY <1>0, Constants, FS_RemoveElement
<1>5. IsFiniteSet(Storages) /\ Cardinality(Storages) = Cardinality(Greenlets)
  <2>1. /\ IsFiniteSet(1..Cardinality(Greenlets))
        /\ Cardinality(1..Cardinality(Greenlets))
             = IF 1 > Cardinality(Greenlets) THEN 0 ELSE Cardinality(Greenlets) - 1 + 1
    BY Constants, FS_Interval
  <2> QED
    BY <2>1, Constants DEF Storages
<1> HIDE DEF D, G, f
<1>6. f \in Injection(D, G)
  BY <1>2, <1>3, Fun_IsInj
<1>7. Cardinality(D) <= Cardinality(G)
  BY <1>4, <1>6, FS_Injection
<1>8. D # Storages
  BY <1>4, <1>5, <1>7, Constants
<1>9. \E s \in Storages : s \notin D
  BY <1>0, <1>8
<1> QED
  BY <1>9 DEF FreeStorage, D

(* What find_gstorage and the cache come to.                               *)
LEMMA StoreFound ==
  ASSUME TypeInv, StorageInv
  PROVE  /\ Store \in Storages
         /\ CacheHit(CallerAddress) => Store = last_gstorage /\ Store \in DOMAIN gstorage
         /\ ~CacheHit(CallerAddress) /\ Store \in DOMAIN gstorage =>
              Word[gstorage[Store].gid] = Word[current]
         /\ Store \notin DOMAIN gstorage =>
              \A s \in DOMAIN gstorage : Word[gstorage[s].gid] # Word[current]
<1>1. CASE CacheHit(CallerAddress)
  BY <1>1 DEF Store, GStore, CacheHit, StorageInv, TypeInv
<1>2. CASE ~CacheHit(CallerAddress) /\ Found(current) # {}
  <2>1. Store \in Found(current)
    BY <1>2 DEF Store, GStore
  <2> QED
    BY <1>2, <2>1 DEF Found, TypeInv
<1>3. CASE ~CacheHit(CallerAddress) /\ Found(current) = {}
  <2>1. Store = FreeStorage
    BY <1>3 DEF Store, GStore
  <2> QED
    BY <1>3, <2>1, RoomForStorage DEF Found
<1> QED
  BY <1>1, <1>2, <1>3

(* The storage before an event is one, new or not.                         *)
LEMMA BeforeType ==
  ASSUME TypeInv, NEW n \in Nat
  PROVE  Before(n) \in GreenletStorages
BY DEF TypeInv, Before, NewGStore, GreenletStorages, NO_TRACE_FROM_DEPTH_DISABLED

(* What a CALL event decides and leaves in the storage.                    *)
LEMMA CallEventIs ==
  ASSUME TypeInv, StorageInv, NEW func, NEW a, NEW b, b = Before(Len(stack[current])),
         NEW e, e = CallEvent(func, a)
  PROVE  /\ e.storage = Store /\ e.owner = b.gid /\ e.depth = b.depth + 1 /\ e.frame = a
         /\ e.asked <=> (enabled > 0 /\ b.depth + 1 <= b.no_trace_from_depth)
         /\ e.level = IF e.asked THEN FilterResult[func] ELSE NO_TRACE
         /\ e.logged <=> e.level \notin {NO_TRACE, NO_TRACE_NESTED}
         /\ ~e.ends /\ ~e.dangling
         /\ e.after \in GreenletStorages
         /\ e.after.gid = b.gid /\ e.after.depth = b.depth + 1
         /\ e.after.no_trace_from_depth =
              IF e.asked
              THEN IF e.level = NO_TRACE_NESTED THEN b.depth + 1 ELSE NO_TRACE_FROM_DEPTH_DISABLED
              ELSE b.no_trace_from_depth
<1>0. Len(stack[current]) \in Nat
  BY DEF TypeInv
<1>1. b \in GreenletStorages
  BY <1>0, BeforeType
<1>2. b = IF GStore(CallerAddress) \in DOMAIN gstorage THEN gstorage[GStore(CallerAddress)]
          ELSE NewGStore(IF CacheHit(CallerAddress) THEN last_gid ELSE current, Len(stack[current]))
  BY StoreFound DEF Before, Store
<1>3. ~(CacheHit(CallerAddress) /\ ~(GStore(CallerAddress) \in DOMAIN gstorage))
  BY StoreFound DEF Store
<1>4. /\ e.storage = Store /\ e.owner = b.gid /\ e.depth = b.depth + 1 /\ e.frame = a
      /\ e.asked = (enabled > 0 /\ b.depth + 1 <= b.no_trace_from_depth)
      /\ e.level = IF e.asked THEN FilterResult[func] ELSE NO_TRACE
      /\ e.logged = (e.level \notin {NO_TRACE, NO_TRACE_NESTED})
  BY <1>2 DEF CallEvent, Event, EventDepth, Passes, Store
<1>5. ~e.ends /\ ~e.dangling
  BY <1>3 DEF CallEvent, Event, Outermost, Store
<1>6. e.after = [b EXCEPT !.depth = b.depth + 1,
                          !.no_trace_from_depth =
                             IF e.asked THEN NoTraceFrom(e.level, b.depth + 1, @) ELSE @]
  BY <1>2 DEF CallEvent, Event, EventDepth, Passes, Store
<1> HIDE DEF GreenletStorages
<1>7. b.depth \in Int /\ b.no_trace_from_depth \in Int
  BY <1>1 DEF GreenletStorages
<1>8. PICK y \in Int : y = IF e.asked THEN NoTraceFrom(e.level, b.depth + 1, b.no_trace_from_depth)
                         ELSE b.no_trace_from_depth
  BY <1>7, Constants DEF NoTraceFrom
<1>9. b.depth + 1 \in Int /\ e.after = [b EXCEPT !.depth = b.depth + 1, !.no_trace_from_depth = y]
  BY <1>1, <1>6, <1>7, <1>8 DEF GreenletStorages
<1>10. /\ e.after \in GreenletStorages
       /\ e.after.gid = b.gid /\ e.after.depth = b.depth + 1 /\ e.after.no_trace_from_depth = y
  <2> DEFINE x == b.depth + 1
             c == e.after
  <2>1. x \in Int /\ c = [b EXCEPT !.depth = x, !.no_trace_from_depth = y]
    BY <1>9
  <2> HIDE DEF x, c
  <2>2. c \in GreenletStorages /\ c.gid = b.gid /\ c.depth = x /\ c.no_trace_from_depth = y
    BY <1>1, <2>1 DEF GreenletStorages
  <2> QED
    BY <2>2 DEF x, c
<1>11. y = IF e.asked
           THEN IF e.level = NO_TRACE_NESTED THEN b.depth + 1 ELSE NO_TRACE_FROM_DEPTH_DISABLED
           ELSE b.no_trace_from_depth
  BY <1>8 DEF NoTraceFrom
<1> QED
  BY <1>4, <1>5, <1>10, <1>11

(* What a RETURN event decides and leaves in the storage.                  *)
LEMMA ReturnEventIs ==
  ASSUME TypeInv, StorageInv, InPython, NEW b, b = Before(Len(stack[current]) - 1),
         NEW e, e = ReturnEvent
  PROVE  /\ e.storage = Store /\ e.owner = b.gid /\ e.depth = b.depth /\ e.frame = BackAddress
         /\ e.asked <=> (enabled > 0 /\ b.depth <= b.no_trace_from_depth)
         /\ e.level = IF e.asked THEN FilterResult[Top.func] ELSE NO_TRACE
         /\ e.logged <=> e.level \notin {NO_TRACE, NO_TRACE_NESTED}
         /\ e.ends <=> BackAddress = NULL
         /\ ~e.dangling
         /\ e.after \in GreenletStorages
         /\ e.after.gid = b.gid /\ e.after.depth = b.depth - 1
         /\ e.after.no_trace_from_depth =
              IF e.asked
              THEN IF e.level = NO_TRACE_NESTED THEN b.depth ELSE NO_TRACE_FROM_DEPTH_DISABLED
              ELSE b.no_trace_from_depth
<1>0. Len(stack[current]) \in Nat
  BY DEF TypeInv
<1>a. /\ Len(stack[current]) - 1 \in Nat /\ Top.addr = CallerAddress
  <2>1. Len(stack[current]) >= 1 /\ Top.addr = CallerAddress
    BY <1>0, InnermostFrames
  <2> QED
    BY <1>0, <2>1, Predecessor
<1>1. b \in GreenletStorages
  BY <1>a, BeforeType
<1>2. b = IF GStore(Top.addr) \in DOMAIN gstorage THEN gstorage[GStore(Top.addr)]
          ELSE NewGStore(IF CacheHit(Top.addr) THEN last_gid ELSE current, Len(stack[current]) - 1)
  BY <1>a, StoreFound DEF Before, Store
<1>3. ~(CacheHit(Top.addr) /\ ~(GStore(Top.addr) \in DOMAIN gstorage)) /\ Store = GStore(Top.addr)
  BY <1>a, StoreFound DEF Store
<1>4. /\ e.storage = Store /\ e.owner = b.gid /\ e.depth = b.depth /\ e.frame = BackAddress
      /\ e.asked = (enabled > 0 /\ b.depth <= b.no_trace_from_depth)
      /\ e.level = IF e.asked THEN FilterResult[Top.func] ELSE NO_TRACE
      /\ e.logged = (e.level \notin {NO_TRACE, NO_TRACE_NESTED})
  BY <1>2, <1>3 DEF ReturnEvent, Event, EventDepth, Passes, LastFrameOnReturn
<1>5. ~e.dangling /\ (e.ends <=> BackAddress = NULL)
  BY <1>3 DEF ReturnEvent, Event, Outermost
<1>6. e.after = [b EXCEPT !.depth = b.depth - 1,
                          !.no_trace_from_depth =
                             IF e.asked THEN NoTraceFrom(e.level, b.depth, @) ELSE @]
  BY <1>2 DEF ReturnEvent, Event, EventDepth, Passes
<1> HIDE DEF GreenletStorages
<1>7. b.depth \in Int /\ b.no_trace_from_depth \in Int
  BY <1>1 DEF GreenletStorages
<1>8. PICK y \in Int : y = IF e.asked THEN NoTraceFrom(e.level, b.depth, b.no_trace_from_depth)
                         ELSE b.no_trace_from_depth
  BY <1>7, Constants DEF NoTraceFrom
<1>9. b.depth - 1 \in Int /\ e.after = [b EXCEPT !.depth = b.depth - 1, !.no_trace_from_depth = y]
  BY <1>1, <1>6, <1>7, <1>8 DEF GreenletStorages
<1>10. /\ e.after \in GreenletStorages
       /\ e.after.gid = b.gid /\ e.after.depth = b.depth - 1 /\ e.after.no_trace_from_depth = y
  <2> DEFINE x == b.depth - 1
             c == e.after
  <2>1. x \in Int /\ c = [b EXCEPT !.depth = x, !.no_trace_from_depth = y]
    BY <1>9
  <2> HIDE DEF x, c
  <2>2. c \in GreenletStorages /\ c.gid = b.gid /\ c.depth = x /\ c.no_trace_from_depth = y
    BY <1>1, <2>1 DEF GreenletStorages
  <2> QED
    BY <2>2 DEF x, c
<1>11. y = IF e.asked
           THEN IF e.level = NO_TRACE_NESTED THEN b.depth ELSE NO_TRACE_FROM_DEPTH_DISABLED
           ELSE b.no_trace_from_depth
  BY <1>8 DEF NoTraceFrom
<1> QED
  BY <1>4, <1>5, <1>10, <1>11

(* While the profile function stays installed, the storage an event uses   *)
(* is that of the running greenlet's word: the cache is hit only when the  *)
(* frame remembered is the running one, whose greenlet used it.            *)
LEMMA OwnStore ==
  ASSUME TypeInv, AddressInv, StorageInv, TopInv, Store \in DOMAIN gstorage
  PROVE  Word[gstorage[Store].gid] = Word[current]
<1>1. CASE ~CacheHit(CallerAddress)
  BY <1>1, StoreFound
<1>2. CASE CacheHit(CallerAddress)
  <2>1. Store = last_gstorage /\ last_frame # NULL /\ last_frame = CallerAddress
    BY <1>2, StoreFound DEF CacheHit
  <2>2. PICK h \in Greenlets : /\ Word[h] = Word[gstorage[Store].gid]
                               /\ stack[h] # <<>>
                               /\ stack[h][Len(stack[h])].addr = last_frame
    BY <2>1 DEF TopInv
  <2> DEFINE n == Len(stack[current])
             k == Len(stack[h])
  <2>3. current \in Greenlets /\ stack[current] \in Seq(Frames)
    BY DEF TypeInv
  <2>4. n \in Nat /\ k \in Nat /\ stack[h] \in Seq(Frames)
    BY DEF TypeInv
  <2>5. n >= 1 /\ stack[current][n].addr = CallerAddress
    BY <2>1, <2>4, InnermostFrames
  <2>6. k \in DOMAIN stack[h]
    BY <2>2, <2>4
  <2>7. n \in DOMAIN stack[current]
    BY <2>3, <2>4, <2>5
  <2> QED
    BY <2>1, <2>2, <2>3, <2>5, <2>6, <2>7 DEF AddressInv
<1> QED
  BY <1>1, <1>2

(* What that storage says of the frames of the running greenlet when no    *)
(* other uses it: depth counts them from the first that was seen, and      *)
(* no_trace_from_depth is that of the nested one.                          *)
LEMMA StoreOfCurrent ==
  ASSUME TypeInv, AddressInv, StorageInv, SeenInv, NEW n \in Nat, n = Len(stack[current]),
         NEW m \in Nat, m <= n, NEW b, b = Before(m)
  PROVE  /\ b \in GreenletStorages /\ b.gid \in Greenlets /\ Word[b.gid] = Word[current]
         /\ b.gid # current => stack[b.gid] # <<>>
         /\ \A s \in DOMAIN gstorage : s # Store => Word[gstorage[s].gid] # Word[current]
         /\ Unshared(current) =>
              /\ b.gid = current /\ b.depth <= n
              /\ \A i \in 1..n : stack[current][i].depth # NotSeen \/ stack[current][i].nested =>
                   stack[current][i].depth - i = b.depth - n
              /\ \A i \in 1..n : stack[current][i].nested =>
                   b.no_trace_from_depth = stack[current][i].depth
              /\ ~suspended /\ (\A i \in 1..n : ~stack[current][i].nested) =>
                   b.depth < b.no_trace_from_depth
<1>0. /\ current \in Greenlets /\ n <= MaxDepth /\ DOMAIN stack[current] = 1..n
      /\ b \in GreenletStorages
  BY BeforeType DEF TypeInv
<1>a. b.gid \in Greenlets
  BY <1>0 DEF GreenletStorages
<1>1. CASE Store \in DOMAIN gstorage
  <2>1. b = gstorage[Store] /\ Word[b.gid] = Word[current] /\ stack[b.gid] # <<>>
    BY <1>1, OwnStore DEF Before, SeenInv, LiveInv
  <2>2. \A s \in DOMAIN gstorage : s # Store => Word[gstorage[s].gid] # Word[current]
    BY <1>1, <2>1 DEF StorageInv
  <2>3. ASSUME Unshared(current) PROVE b.gid = current /\ b.depth <= n
    <3>1. b.gid = current
      BY <1>a, <2>1, <2>3 DEF Unshared
    <3> QED
      BY <1>1, <2>1, <2>3, <3>1 DEF SeenInv, LiveInv
  <2>4. ASSUME Unshared(current), NEW i \in 1..n,
               stack[current][i].depth # NotSeen \/ stack[current][i].nested
        PROVE  /\ stack[current][i].depth - i = b.depth - n
               /\ stack[current][i].nested => b.no_trace_from_depth = stack[current][i].depth
    <3>1. PICK s \in DOMAIN gstorage :
            /\ gstorage[s].gid = current
            /\ stack[current][i].depth - i = gstorage[s].depth - Len(stack[current])
            /\ stack[current][i].nested => gstorage[s].no_trace_from_depth = stack[current][i].depth
      BY <1>0, <2>4 DEF SeenInv, FrameInv
    <3>2. s = Store
      BY <2>2, <3>1
    <3> QED
      BY <2>1, <3>1, <3>2
  <2>5. ASSUME Unshared(current), ~suspended, \A i \in 1..n : ~stack[current][i].nested
        PROVE  b.depth < b.no_trace_from_depth
    BY <1>0, <1>1, <2>1, <2>3, <2>5 DEF SeenInv, OpenInv
  <2> QED
    BY <1>0, <1>a, <2>1, <2>2, <2>3, <2>4, <2>5
<1>2. CASE Store \notin DOMAIN gstorage
  <2>1. b = NewGStore(current, m)
    BY <1>2 DEF Before
  <2>2. \A s \in DOMAIN gstorage : Word[gstorage[s].gid] # Word[current]
    BY <1>2, StoreFound
  <2>3. b.gid = current /\ b.depth = m /\ b.no_trace_from_depth = NO_TRACE_FROM_DEPTH_DISABLED
    BY <2>1 DEF NewGStore
  <2>4. m < NO_TRACE_FROM_DEPTH_DISABLED
    BY <1>0, Constants
  <2>5. ASSUME Unshared(current), NEW i \in 1..n,
               stack[current][i].depth # NotSeen \/ stack[current][i].nested
        PROVE  FALSE
    BY <1>0, <2>2, <2>5 DEF SeenInv, FrameInv
  <2> QED
    BY <1>0, <1>a, <2>2, <2>3, <2>4, <2>5
<1> QED
  BY <1>1, <1>2

-----------------------------------------------------------------------------
(* What the profile function writes.                                       *)

(* An event rewrites or frees its own storage and no other.                *)
LEMMA StorageWritten ==
  ASSUME NEW e, TraceFunc(e)
  PROVE  /\ last_frame' = e.frame /\ last_gstorage' = e.storage
         /\ \A t \in DOMAIN gstorage' : t # e.storage => t \in DOMAIN gstorage /\ gstorage'[t] = gstorage[t]
         /\ \A t \in DOMAIN gstorage : t # e.storage => t \in DOMAIN gstorage'
         /\ e.storage \in DOMAIN gstorage' => gstorage'[e.storage] = e.after
         /\ e.storage \in DOMAIN gstorage' <=> ~e.ends
<1> DEFINE kept == IF e.ends THEN DOMAIN gstorage \ {e.storage} ELSE DOMAIN gstorage \cup {e.storage}
<1>1. gstorage' = [t \in kept |-> IF t = e.storage THEN e.after ELSE gstorage[t]]
  BY DEF TraceFunc
<1>2. DOMAIN gstorage' = kept /\ \A t \in kept : gstorage'[t] = IF t = e.storage THEN e.after ELSE gstorage[t]
  BY <1>1
<1>3. last_frame' = e.frame /\ last_gstorage' = e.storage
  BY DEF TraceFunc
<1> QED
  BY <1>2, <1>3

(* It keeps one storage per word.                                          *)
LEMMA StoragesKept ==
  ASSUME TypeInv, StorageInv, NEW m \in Nat, NEW e, TraceFunc(e), e.storage = Store,
         e.after \in GreenletStorages, e.after.gid = Before(m).gid,
         e.frame \in Addresses \cup {NULL}, e.ends <=> e.frame = NULL
  PROVE  /\ DOMAIN gstorage' \subseteq Storages
         /\ \A s \in DOMAIN gstorage' : gstorage'[s] \in GreenletStorages
         /\ last_frame' \in Addresses \cup {NULL}
         /\ StorageInv'
<1>1. /\ last_frame' = e.frame /\ last_gstorage' = Store
      /\ \A t \in DOMAIN gstorage' : t # Store => t \in DOMAIN gstorage /\ gstorage'[t] = gstorage[t]
      /\ Store \in DOMAIN gstorage' => gstorage'[Store] = e.after
      /\ Store \in DOMAIN gstorage' <=> ~e.ends
  BY StorageWritten
<1>2. Store \in Storages
  BY StoreFound
<1>3. DOMAIN gstorage' \subseteq Storages /\ \A s \in DOMAIN gstorage' : gstorage'[s] \in GreenletStorages
  BY <1>1, <1>2 DEF TypeInv
<1>4. ASSUME NEW s \in DOMAIN gstorage', s # Store, Store \in DOMAIN gstorage'
      PROVE  Word[gstorage'[s].gid] # Word[gstorage'[Store].gid]
  <2>1. s \in DOMAIN gstorage /\ gstorage'[s] = gstorage[s] /\ gstorage'[Store].gid = Before(m).gid
    BY <1>1, <1>4
  <2>2. CASE Store \in DOMAIN gstorage
    BY <1>4, <2>1, <2>2 DEF Before, StorageInv
  <2>3. CASE Store \notin DOMAIN gstorage
    BY <2>1, <2>3, StoreFound DEF Before, NewGStore
  <2> QED
    BY <2>2, <2>3
<1>5. \A s, t \in DOMAIN gstorage' : Word[gstorage'[s].gid] = Word[gstorage'[t].gid] => s = t
  BY <1>1, <1>4 DEF StorageInv
<1>6. last_frame' # NULL => last_gstorage' \in DOMAIN gstorage'
  BY <1>1
<1> QED
  BY <1>1, <1>3, <1>5, <1>6 DEF StorageInv

-----------------------------------------------------------------------------
(* A call.                                                                 *)

(* The frame a call makes.                                                 *)
NewFrame(func, a) ==
  [addr |-> a, func |-> func,
   depth |-> IF profiling THEN CallEvent(func, a).depth ELSE NotSeen,
   nested |-> profiling /\ CallEvent(func, a).level = NO_TRACE_NESTED]

(* A call leaves the types, the addresses and the storages well formed.    *)
LEMMA CallKeepsShape ==
  ASSUME TypeInv, AddressInv, StorageInv, NEW func \in Funcs, NEW a \in Addresses, Call(func, a)
  PROVE  TypeInv' /\ AddressInv' /\ StorageInv'
<1> DEFINE n == Len(stack[current])
           e == CallEvent(func, a)
           f == NewFrame(func, a)
           b == Before(n)
<1>0. current \in Greenlets /\ n \in Nat
  BY DEF TypeInv
<1>1. /\ stack' = [stack EXCEPT ![current] = Append(@, f)]
      /\ n < MaxDepth /\ ~InUse(a)
      /\ profiling => TraceFunc(e)
      /\ ~profiling => last_frame' = last_frame /\ last_gstorage' = last_gstorage /\ gstorage' = gstorage
      /\ profiling' = profiling /\ current' = current /\ enabled' = enabled
      /\ suspended' = suspended /\ unsets' = unsets
  BY DEF Call, NewFrame, tstore
<1>2. /\ b \in GreenletStorages /\ e.depth = b.depth + 1 /\ e.storage = Store
      /\ e.after \in GreenletStorages /\ e.after.gid = b.gid /\ e.frame = a /\ ~e.ends
  BY <1>0, BeforeType, CallEventIs
<1>3. f \in Frames
  <2>1. e.depth \in Int
    BY <1>2 DEF GreenletStorages
  <2>2. (IF profiling THEN e.depth ELSE NotSeen) \in Int
    BY <2>1 DEF NotSeen
  <2>3. (profiling /\ e.level = NO_TRACE_NESTED) \in BOOLEAN
    OBVIOUS
  <2> HIDE DEF e
  <2> QED
    BY <2>2, <2>3 DEF Frames, NewFrame, e
<1> HIDE DEF f
<1>4. /\ DOMAIN stack[current] = 1..n /\ stack' \in [Greenlets -> Seq(Frames)]
      /\ \A g \in Greenlets : g # current => stack'[g] = stack[g]
      /\ Len(stack'[current]) = n + 1 /\ DOMAIN stack'[current] = 1..(n + 1)
      /\ \A i \in 1..n : stack'[current][i] = stack[current][i]
      /\ stack'[current][n + 1] = f
  BY <1>0, <1>1, <1>3, Pushed
<1>5. /\ DOMAIN gstorage' \subseteq Storages
      /\ \A s \in DOMAIN gstorage' : gstorage'[s] \in GreenletStorages
      /\ last_frame' \in Addresses \cup {NULL}
      /\ StorageInv'
  <2>1. CASE profiling
    <3>1. a # NULL
      BY Constants
    <3> HIDE DEF e, b
    <3>2. e.after.gid = Before(n).gid
      BY <1>2 DEF b
    <3> QED
      BY <1>0, <1>1, <1>2, <2>1, <3>1, <3>2, StoragesKept
  <2>2. CASE ~profiling
    BY <1>1, <2>2 DEF TypeInv, StorageInv
  <2> QED
    BY <2>1, <2>2
<1>6. \A g \in Greenlets : Len(stack'[g]) <= MaxDepth
  BY <1>0, <1>1, <1>4, Constants DEF TypeInv
<1>7. TypeInv'
  BY <1>1, <1>4, <1>5, <1>6 DEF TypeInv
<1>8. f.addr = a
  BY DEF f, NewFrame
<1>9. ASSUME NEW g \in Greenlets, NEW h \in Greenlets, NEW i \in DOMAIN stack'[g],
             NEW j \in DOMAIN stack'[h], stack'[g][i].addr = stack'[h][j].addr
      PROVE  g = h /\ i = j
  <2> DEFINE old(x, k) == k \in DOMAIN stack[x] /\ stack'[x][k] = stack[x][k] /\ stack[x][k].addr # a
  <2>1. old(g, i) \/ (g = current /\ i = n + 1 /\ stack'[g][i].addr = a)
    BY <1>0, <1>1, <1>4, <1>8 DEF InUse
  <2>2. old(h, j) \/ (h = current /\ j = n + 1 /\ stack'[h][j].addr = a)
    BY <1>0, <1>1, <1>4, <1>8 DEF InUse
  <2>3. old(g, i) /\ old(h, j) => g = h /\ i = j
    BY <1>9 DEF AddressInv
  <2> QED
    BY <1>9, <2>1, <2>2, <2>3
<1>10. AddressInv'
  BY <1>9 DEF AddressInv
<1> QED
  BY <1>5, <1>7, <1>10

(* A call that is not seen, before the profile function was installed.     *)
LEMMA UnseenCallKeepsSeen ==
  ASSUME TypeInv, SeenInv, ~profiling, NEW func \in Funcs, NEW a \in Addresses, Call(func, a)
  PROVE  SeenInv'
<1> DEFINE n == Len(stack[current])
           f == NewFrame(func, a)
<1>0. current \in Greenlets /\ n \in Nat
  BY DEF TypeInv
<1>1. /\ stack' = [stack EXCEPT ![current] = Append(@, f)]
      /\ last_frame' = last_frame /\ gstorage' = gstorage /\ profiling' = profiling
  BY DEF Call, NewFrame, tstore
<1>2. f.depth = NotSeen /\ ~f.nested /\ f \in Frames
  <2>1. f = [addr |-> a, func |-> func, depth |-> NotSeen, nested |-> FALSE]
    BY DEF NewFrame
  <2>2. NotSeen \in Int
    BY DEF NotSeen
  <2> HIDE DEF f
  <2> QED
    BY <2>1, <2>2 DEF Frames
<1> HIDE DEF f
<1>3. /\ DOMAIN stack[current] = 1..n
      /\ \A g \in Greenlets : g # current => stack'[g] = stack[g]
      /\ DOMAIN stack'[current] = 1..(n + 1)
      /\ \A i \in 1..n : stack'[current][i] = stack[current][i]
      /\ stack'[current][n + 1] = f
  BY <1>0, <1>1, <1>2, Pushed
<1>4. last_frame' = NULL /\ DOMAIN gstorage' = {} /\ DOMAIN gstorage = {}
  BY <1>1 DEF SeenInv, FreshInv
<1>5. FreshInv' /\ TopInv' /\ LiveInv' /\ OpenInv'
  BY <1>1, <1>4 DEF FreshInv, TopInv, LiveInv, OpenInv
<1>6. ASSUME NEW g \in Greenlets, NEW i \in DOMAIN stack'[g]
      PROVE  Unshared(g) => stack'[g][i].depth = NotSeen /\ ~stack'[g][i].nested
  <2>1. \A h \in Greenlets : \A j \in DOMAIN stack[h] :
          Unshared(h) => stack[h][j].depth = NotSeen /\ ~stack[h][j].nested
    BY <1>4 DEF SeenInv, FrameInv
  <2>2. CASE g # current
    BY <1>3, <2>1, <2>2
  <2>3. CASE g = current /\ i = n + 1
    BY <1>2, <1>3, <2>3
  <2>4. CASE g = current /\ i # n + 1
    <3>1. i \in 1..n
      BY <1>0, <1>3, <2>4
    <3> QED
      BY <1>0, <1>3, <2>1, <2>4, <3>1
  <2> QED
    BY <2>2, <2>3, <2>4
<1>7. FrameInv'
  BY <1>6 DEF FrameInv
<1> QED
  BY <1>5, <1>7 DEF SeenInv

(* A call the profile function sees.  A nested frame of the greenlet has a *)
(* depth the new one exceeds, so the filter is not asked about it and      *)
(* no_trace_from_depth stays.                                              *)
LEMMA SeenCallKeepsSeen ==
  ASSUME TypeInv, AddressInv, StorageInv, EnabledInv, SeenInv, profiling,
         NEW func \in Funcs, NEW a \in Addresses, Call(func, a)
  PROVE  SeenInv'
<1> DEFINE n == Len(stack[current])
           e == CallEvent(func, a)
           f == NewFrame(func, a)
           b == Before(n)
<1>0. current \in Greenlets /\ n \in Nat
  BY DEF TypeInv
<1>1. /\ stack' = [stack EXCEPT ![current] = Append(@, f)]
      /\ n < MaxDepth /\ TraceFunc(e)
      /\ profiling' = profiling /\ suspended' = suspended
  BY DEF Call, NewFrame
<1>2. /\ e.depth = b.depth + 1 /\ e.storage = Store /\ e.frame = a /\ ~e.ends
      /\ e.asked <=> (enabled > 0 /\ b.depth + 1 <= b.no_trace_from_depth)
      /\ e.level = IF e.asked THEN FilterResult[func] ELSE NO_TRACE
      /\ e.after \in GreenletStorages /\ e.after.gid = b.gid /\ e.after.depth = b.depth + 1
      /\ e.after.no_trace_from_depth =
           IF e.asked
           THEN IF e.level = NO_TRACE_NESTED THEN b.depth + 1 ELSE NO_TRACE_FROM_DEPTH_DISABLED
           ELSE b.no_trace_from_depth
  BY CallEventIs
<1>3. /\ b \in GreenletStorages /\ b.gid \in Greenlets /\ Word[b.gid] = Word[current]
      /\ b.gid # current => stack[b.gid] # <<>>
      /\ \A s \in DOMAIN gstorage : s # Store => Word[gstorage[s].gid] # Word[current]
      /\ Unshared(current) =>
           /\ b.gid = current /\ b.depth <= n
           /\ \A i \in 1..n : stack[current][i].depth # NotSeen \/ stack[current][i].nested =>
                stack[current][i].depth - i = b.depth - n
           /\ \A i \in 1..n : stack[current][i].nested =>
                b.no_trace_from_depth = stack[current][i].depth
           /\ ~suspended /\ (\A i \in 1..n : ~stack[current][i].nested) =>
                b.depth < b.no_trace_from_depth
  BY <1>0, StoreOfCurrent
<1>a. b.depth \in Int /\ b.no_trace_from_depth \in Int
  BY <1>3 DEF GreenletStorages
<1>b. f.addr = a /\ f.depth = e.depth /\ (f.nested <=> e.level = NO_TRACE_NESTED) /\ f \in Frames
  <2>1. e.depth \in Int
    BY <1>2, <1>a
  <2> QED
    BY <2>1 DEF NewFrame, Frames
<1> HIDE DEF f, b, e
<1>4. /\ DOMAIN stack[current] = 1..n
      /\ \A g \in Greenlets : g # current => stack'[g] = stack[g]
      /\ Len(stack'[current]) = n + 1 /\ DOMAIN stack'[current] = 1..(n + 1)
      /\ \A i \in 1..n : stack'[current][i] = stack[current][i]
      /\ stack'[current][n + 1] = f /\ stack'[current] # <<>>
  BY <1>0, <1>1, <1>b, Pushed
<1>5. /\ last_frame' = a /\ last_gstorage' = Store
      /\ \A t \in DOMAIN gstorage' : t # Store => t \in DOMAIN gstorage /\ gstorage'[t] = gstorage[t]
      /\ \A t \in DOMAIN gstorage : t # Store => t \in DOMAIN gstorage'
      /\ Store \in DOMAIN gstorage' /\ gstorage'[Store] = e.after
  BY <1>1, <1>2, StorageWritten
<1>6. gstorage'[Store].gid = b.gid /\ gstorage'[Store].depth = b.depth + 1
  BY <1>2, <1>5
<1>c. Unshared(b.gid) => b.gid = current /\ Unshared(current)
  BY <1>0, <1>3 DEF Unshared
<1>7. ASSUME NEW t \in DOMAIN gstorage', t # Store
      PROVE  /\ t \in DOMAIN gstorage /\ gstorage'[t] = gstorage[t]
             /\ gstorage[t].gid # current /\ stack'[gstorage[t].gid] = stack[gstorage[t].gid]
  <2>1. t \in DOMAIN gstorage /\ gstorage'[t] = gstorage[t] /\ gstorage[t].gid # current
    BY <1>3, <1>5, <1>7
  <2>2. gstorage[t].gid \in Greenlets
    BY <2>1 DEF TypeInv, GreenletStorages
  <2> QED
    BY <1>4, <2>1, <2>2
<1>8. FreshInv' /\ TopInv'
  <2>1. Word[current] = Word[gstorage'[last_gstorage'].gid]
    BY <1>3, <1>5, <1>6
  <2>2. stack'[current] # <<>> /\ stack'[current][Len(stack'[current])].addr = last_frame'
    BY <1>4, <1>5, <1>b
  <2>3. TopInv'
    BY <1>0, <2>1, <2>2 DEF TopInv
  <2> QED
    BY <1>1, <2>3 DEF FreshInv
<1>9. ASSUME NEW t \in DOMAIN gstorage'
      PROVE  /\ stack'[gstorage'[t].gid] # <<>>
             /\ Unshared(gstorage'[t].gid) => gstorage'[t].depth <= Len(stack'[gstorage'[t].gid])
  <2>1. CASE t = Store
    <3>1. Unshared(current) => b.depth + 1 <= n + 1
      BY <1>0, <1>3, <1>a
    <3>2. stack'[b.gid] # <<>>
      BY <1>3, <1>4
    <3> QED
      BY <1>4, <1>6, <1>c, <2>1, <3>1, <3>2
  <2>2. CASE t # Store
    BY <1>7, <2>2 DEF SeenInv, LiveInv
  <2> QED
    BY <2>1, <2>2
<1>10. ASSUME NEW g \in Greenlets, NEW i \in DOMAIN stack'[g], Unshared(g),
              stack'[g][i].depth # NotSeen \/ stack'[g][i].nested
       PROVE  \E s \in DOMAIN gstorage' :
                /\ gstorage'[s].gid = g
                /\ stack'[g][i].depth - i = gstorage'[s].depth - Len(stack'[g])
                /\ stack'[g][i].nested => gstorage'[s].no_trace_from_depth = stack'[g][i].depth
  <2>1. CASE g # current
    <3>1. stack'[g] = stack[g]
      BY <1>4, <2>1
    <3>2. PICK s \in DOMAIN gstorage :
            /\ gstorage[s].gid = g
            /\ stack[g][i].depth - i = gstorage[s].depth - Len(stack[g])
            /\ stack[g][i].nested => gstorage[s].no_trace_from_depth = stack[g][i].depth
      BY <1>10, <3>1 DEF SeenInv, FrameInv
    <3>3. s # Store
      BY <1>0, <1>10, <2>1, <3>2, OwnStore DEF SeenInv, Unshared
    <3>4. s \in DOMAIN gstorage' /\ gstorage'[s] = gstorage[s]
      BY <1>5, <3>3
    <3> QED
      BY <3>1, <3>2, <3>4
  <2>2. CASE g = current /\ i = n + 1
    <3>1. stack'[g][i] = f
      BY <1>4, <2>2
    <3>2. f.depth - i = gstorage'[Store].depth - Len(stack'[g])
      BY <1>0, <1>2, <1>4, <1>6, <1>a, <1>b, <2>2
    <3>3. ASSUME f.nested PROVE gstorage'[Store].no_trace_from_depth = f.depth
      <4>1. e.level = NO_TRACE_NESTED
        BY <1>b, <3>3
      <4>2. e.asked
        BY <1>2, <4>1 DEF NO_TRACE, NO_TRACE_NESTED
      <4> QED
        BY <1>2, <1>5, <1>b, <4>1, <4>2
    <3> QED
      BY <1>3, <1>5, <1>6, <1>10, <2>2, <3>1, <3>2, <3>3
  <2>3. CASE g = current /\ i # n + 1
    <3>1. i \in 1..n
      BY <1>0, <1>4, <2>3
    <3>2. stack'[g][i] = stack[current][i] /\ stack[current][i].depth \in Int
      <4>1. stack[current] \in Seq(Frames)
        BY <1>0 DEF TypeInv
      <4>2. stack[current][i] \in Frames
        BY <1>4, <3>1, <4>1
      <4> QED
        BY <1>4, <2>3, <3>1, <4>2 DEF Frames
    <3>3. stack[current][i].depth - i = b.depth - n
      BY <1>3, <1>10, <2>3, <3>1, <3>2
    <3>4. stack'[g][i].depth - i = gstorage'[Store].depth - Len(stack'[g])
      BY <1>0, <1>4, <1>6, <1>a, <2>3, <3>1, <3>2, <3>3
    <3>5. ASSUME stack[current][i].nested
          PROVE  gstorage'[Store].no_trace_from_depth = stack[current][i].depth
      <4>1. b.no_trace_from_depth = stack[current][i].depth
        BY <1>3, <1>10, <2>3, <3>1, <3>5
      <4>2. b.no_trace_from_depth < b.depth + 1
        BY <1>0, <1>a, <3>1, <3>2, <3>3, <4>1
      <4>3. ~e.asked
        BY <1>2, <1>a, <4>2
      <4> QED
        BY <1>2, <1>5, <4>1, <4>3
    <3> QED
      BY <1>3, <1>5, <1>6, <1>10, <2>3, <3>2, <3>4, <3>5
  <2> QED
    BY <2>1, <2>2, <2>3
<1>11. ASSUME ~suspended', NEW t \in DOMAIN gstorage', Unshared(gstorage'[t].gid),
              \A i \in DOMAIN stack'[gstorage'[t].gid] : ~stack'[gstorage'[t].gid][i].nested
       PROVE  gstorage'[t].depth < gstorage'[t].no_trace_from_depth
  <2>1. CASE t # Store
    BY <1>1, <1>7, <1>11, <2>1 DEF SeenInv, OpenInv
  <2>2. CASE t = Store
    <3>0. gstorage'[t].gid = current /\ Unshared(current)
      BY <1>6, <1>11, <1>c, <2>2
    <3>1. \A i \in 1..(n + 1) : ~stack'[current][i].nested
      BY <1>4, <1>11, <3>0
    <3>2. ~f.nested
      BY <1>0, <1>4, <3>1
    <3>3. \A i \in 1..n : ~stack[current][i].nested
      BY <1>0, <1>4, <3>1
    <3>4. b.depth < b.no_trace_from_depth
      BY <1>1, <1>3, <1>11, <3>0, <3>3
    <3>5. enabled > 0
      BY <1>1, <1>11 DEF EnabledInv
    <3>6. e.asked
      BY <1>2, <1>a, <3>4, <3>5
    <3>7. gstorage'[Store].no_trace_from_depth = NO_TRACE_FROM_DEPTH_DISABLED
      BY <1>2, <1>5, <1>b, <3>2, <3>6
    <3>8. b.depth + 1 < NO_TRACE_FROM_DEPTH_DISABLED
      BY <1>0, <1>1, <1>3, <1>a, <3>0, Constants
    <3> QED
      BY <1>6, <2>2, <3>7, <3>8
  <2> QED
    BY <2>1, <2>2
<1>12. LiveInv'
  BY <1>9 DEF LiveInv
<1>13. FrameInv'
  BY <1>10 DEF FrameInv
<1>14. OpenInv'
  BY <1>11 DEF OpenInv
<1> QED
  BY <1>8, <1>12, <1>13, <1>14 DEF SeenInv

-----------------------------------------------------------------------------
(* A return.                                                               *)

(* A return leaves the types, the addresses and the storages well formed.  *)
LEMMA ReturnKeepsShape ==
  ASSUME TypeInv, AddressInv, StorageInv, Return
  PROVE  TypeInv' /\ AddressInv' /\ StorageInv'
<1> DEFINE n == Len(stack[current])
           e == ReturnEvent
           b == Before(n - 1)
<1>0. current \in Greenlets /\ n \in Nat
  BY DEF TypeInv
<1>1. /\ InPython
      /\ stack' = [stack EXCEPT ![current] = SubSeq(@, 1, Len(@) - 1)]
      /\ profiling => TraceFunc(e)
      /\ ~profiling => last_frame' = last_frame /\ last_gstorage' = last_gstorage /\ gstorage' = gstorage
      /\ current' \in {Main, current}
      /\ profiling' = profiling /\ enabled' = enabled /\ suspended' = suspended /\ unsets' = unsets
  BY DEF Return, tstore
<1>2. /\ e.storage = Store /\ e.after \in GreenletStorages /\ e.after.gid = b.gid
      /\ e.frame = BackAddress /\ (e.ends <=> BackAddress = NULL)
  BY <1>1, ReturnEventIs
<1>3. /\ n >= 1 /\ DOMAIN stack[current] = 1..n /\ stack' \in [Greenlets -> Seq(Frames)]
      /\ \A g \in Greenlets : g # current => stack'[g] = stack[g]
      /\ Len(stack'[current]) = n - 1 /\ DOMAIN stack'[current] = 1..(n - 1)
      /\ \A i \in 1..(n - 1) : stack'[current][i] = stack[current][i]
  BY <1>0, <1>1, Dropped
<1>4. BackAddress \in Addresses \cup {NULL} /\ n - 1 \in Nat
  BY <1>0, <1>1, <1>3, InnermostFrames, Predecessor
<1>5. /\ DOMAIN gstorage' \subseteq Storages
      /\ \A s \in DOMAIN gstorage' : gstorage'[s] \in GreenletStorages
      /\ last_frame' \in Addresses \cup {NULL}
      /\ StorageInv'
  <2>1. CASE profiling
    <3> HIDE DEF e, b
    <3>2. e.after.gid = Before(n - 1).gid
      BY <1>2 DEF b
    <3> QED
      BY <1>1, <1>2, <1>4, <2>1, <3>2, StoragesKept
  <2>2. CASE ~profiling
    BY <1>1, <2>2 DEF TypeInv, StorageInv
  <2> QED
    BY <2>1, <2>2
<1>6. \A g \in Greenlets : Len(stack'[g]) <= MaxDepth
  <2>1. n - 1 <= MaxDepth
    BY <1>0, Constants DEF TypeInv
  <2> QED
    BY <1>3, <2>1 DEF TypeInv
<1>7. TypeInv'
  BY <1>0, <1>1, <1>3, <1>5, <1>6, Constants DEF TypeInv
<1>8. \A g \in Greenlets : \A i \in DOMAIN stack'[g] :
        i \in DOMAIN stack[g] /\ stack'[g][i] = stack[g][i]
  BY <1>0, <1>3
<1>9. AddressInv'
  BY <1>8 DEF AddressInv
<1> QED
  BY <1>5, <1>7, <1>9

(* A return that is not seen, before the profile function was installed.   *)
LEMMA UnseenReturnKeepsSeen ==
  ASSUME TypeInv, SeenInv, ~profiling, Return
  PROVE  SeenInv'
<1> DEFINE n == Len(stack[current])
<1>0. current \in Greenlets /\ n \in Nat
  BY DEF TypeInv
<1>1. /\ InPython
      /\ stack' = [stack EXCEPT ![current] = SubSeq(@, 1, Len(@) - 1)]
      /\ last_frame' = last_frame /\ gstorage' = gstorage /\ profiling' = profiling
  BY DEF Return, tstore
<1>3. /\ DOMAIN stack[current] = 1..n
      /\ \A g \in Greenlets : g # current => stack'[g] = stack[g]
      /\ DOMAIN stack'[current] = 1..(n - 1)
      /\ \A i \in 1..(n - 1) : stack'[current][i] = stack[current][i]
  BY <1>0, <1>1, Dropped
<1>4. last_frame' = NULL /\ DOMAIN gstorage' = {} /\ DOMAIN gstorage = {}
  BY <1>1 DEF SeenInv, FreshInv
<1>5. FreshInv' /\ TopInv' /\ LiveInv' /\ OpenInv'
  BY <1>1, <1>4 DEF FreshInv, TopInv, LiveInv, OpenInv
<1>6. \A h \in Greenlets : \A j \in DOMAIN stack[h] :
        Unshared(h) => stack[h][j].depth = NotSeen /\ ~stack[h][j].nested
  BY <1>4 DEF SeenInv, FrameInv
<1>7. \A g \in Greenlets : \A i \in DOMAIN stack'[g] :
        i \in DOMAIN stack[g] /\ stack'[g][i] = stack[g][i]
  BY <1>0, <1>3
<1>8. FrameInv'
  BY <1>6, <1>7 DEF FrameInv
<1> QED
  BY <1>5, <1>8 DEF SeenInv

(* A return the profile function sees.  A nested frame that stays is       *)
(* called from at a smaller depth than the one that returns, so the filter *)
(* is not asked and no_trace_from_depth stays; when the nested frame       *)
(* itself returns the filter is asked, and what is left is above it.       *)
LEMMA SeenReturnKeepsSeen ==
  ASSUME TypeInv, AddressInv, StorageInv, EnabledInv, SeenInv, profiling, Return
  PROVE  SeenInv'
<1> DEFINE n == Len(stack[current])
           e == ReturnEvent
           b == Before(n - 1)
<1>0. current \in Greenlets /\ n \in Nat /\ n <= MaxDepth
  BY DEF TypeInv
<1>1. /\ InPython
      /\ stack' = [stack EXCEPT ![current] = SubSeq(@, 1, Len(@) - 1)]
      /\ TraceFunc(e) /\ profiling' = profiling /\ suspended' = suspended
  BY DEF Return
<1>2. /\ e.storage = Store /\ e.frame = BackAddress
      /\ e.asked <=> (enabled > 0 /\ b.depth <= b.no_trace_from_depth)
      /\ e.ends <=> BackAddress = NULL
      /\ e.after.gid = b.gid /\ e.after.depth = b.depth - 1
      /\ e.after.no_trace_from_depth =
           IF e.asked
           THEN IF e.level = NO_TRACE_NESTED THEN b.depth ELSE NO_TRACE_FROM_DEPTH_DISABLED
           ELSE b.no_trace_from_depth
  BY <1>1, ReturnEventIs
<1>3. /\ n >= 1 /\ DOMAIN stack[current] = 1..n
      /\ \A g \in Greenlets : g # current => stack'[g] = stack[g]
      /\ Len(stack'[current]) = n - 1 /\ DOMAIN stack'[current] = 1..(n - 1)
      /\ \A i \in 1..(n - 1) : stack'[current][i] = stack[current][i]
      /\ stack'[current] = <<>> <=> n = 1
  BY <1>0, <1>1, Dropped
<1>4. /\ n = 1 => BackAddress = NULL
      /\ n # 1 => BackAddress = stack[current][n - 1].addr /\ BackAddress # NULL
      /\ n - 1 \in Nat /\ n - 1 <= n /\ (n # 1 => n - 1 \in 1..(n - 1))
  <2>1. /\ n = 1 => BackAddress = NULL
        /\ n # 1 => BackAddress = stack[current][n - 1].addr /\ BackAddress # NULL
    BY <1>0, <1>1, InnermostFrames, Constants
  <2>2. n - 1 \in Nat /\ n - 1 <= n /\ (n # 1 => n - 1 \in 1..(n - 1))
    BY <1>0, <1>3
  <2> QED
    BY <2>1, <2>2
<1>5. /\ b \in GreenletStorages /\ b.gid \in Greenlets /\ Word[b.gid] = Word[current]
      /\ b.gid # current => stack[b.gid] # <<>>
      /\ \A s \in DOMAIN gstorage : s # Store => Word[gstorage[s].gid] # Word[current]
      /\ Unshared(current) =>
           /\ b.gid = current /\ b.depth <= n
           /\ \A i \in 1..n : stack[current][i].depth # NotSeen \/ stack[current][i].nested =>
                stack[current][i].depth - i = b.depth - n
           /\ \A i \in 1..n : stack[current][i].nested =>
                b.no_trace_from_depth = stack[current][i].depth
           /\ ~suspended /\ (\A i \in 1..n : ~stack[current][i].nested) =>
                b.depth < b.no_trace_from_depth
  BY <1>0, <1>4, StoreOfCurrent
<1>a. b.depth \in Int /\ b.no_trace_from_depth \in Int
  BY <1>5 DEF GreenletStorages
<1>b. \A i \in 1..n : stack[current][i].depth \in Int
  <2>1. stack[current] \in Seq(Frames)
    BY <1>0 DEF TypeInv
  <2>2. \A i \in 1..n : stack[current][i] \in Frames
    BY <1>3, <2>1
  <2> QED
    BY <2>2 DEF Frames
<1> HIDE DEF b, e
<1>6. /\ last_frame' = BackAddress /\ last_gstorage' = Store
      /\ \A t \in DOMAIN gstorage' : t # Store => t \in DOMAIN gstorage /\ gstorage'[t] = gstorage[t]
      /\ \A t \in DOMAIN gstorage : t # Store => t \in DOMAIN gstorage'
      /\ Store \in DOMAIN gstorage' <=> n # 1
      /\ Store \in DOMAIN gstorage' => gstorage'[Store] = e.after
  BY <1>1, <1>2, <1>4, StorageWritten
<1>7. n # 1 => gstorage'[Store].gid = b.gid /\ gstorage'[Store].depth = b.depth - 1
  BY <1>2, <1>6
<1>c. Unshared(b.gid) => b.gid = current /\ Unshared(current)
  BY <1>0, <1>5 DEF Unshared
<1>8. ASSUME NEW t \in DOMAIN gstorage', t # Store
      PROVE  /\ t \in DOMAIN gstorage /\ gstorage'[t] = gstorage[t]
             /\ gstorage[t].gid # current /\ stack'[gstorage[t].gid] = stack[gstorage[t].gid]
  <2>1. t \in DOMAIN gstorage /\ gstorage'[t] = gstorage[t] /\ gstorage[t].gid # current
    BY <1>5, <1>6, <1>8
  <2>2. gstorage[t].gid \in Greenlets
    BY <2>1 DEF TypeInv, GreenletStorages
  <2> QED
    BY <1>3, <2>1, <2>2
<1>9. FreshInv'
  BY <1>1 DEF FreshInv
<1>10. TopInv'
  <2>1. CASE n = 1
    BY <1>4, <1>6, <2>1 DEF TopInv
  <2>2. CASE n # 1
    <3>1. stack'[current] # <<>> /\ stack'[current][Len(stack'[current])].addr = BackAddress
      BY <1>3, <1>4, <2>2
    <3>2. Word[current] = Word[gstorage'[last_gstorage'].gid]
      BY <1>5, <1>6, <1>7, <2>2
    <3> QED
      BY <1>0, <1>6, <3>1, <3>2 DEF TopInv
  <2> QED
    BY <2>1, <2>2
<1>11. ASSUME NEW t \in DOMAIN gstorage'
       PROVE  /\ stack'[gstorage'[t].gid] # <<>>
              /\ Unshared(gstorage'[t].gid) => gstorage'[t].depth <= Len(stack'[gstorage'[t].gid])
  <2>1. CASE t = Store
    <3>1. Unshared(current) => b.depth - 1 <= n - 1
      BY <1>0, <1>5, <1>a
    <3>2. n # 1
      BY <1>6, <2>1
    <3>3. stack'[b.gid] # <<>>
      BY <1>3, <1>5, <3>2
    <3> QED
      BY <1>3, <1>7, <1>c, <2>1, <3>1, <3>2, <3>3
  <2>2. CASE t # Store
    BY <1>8, <2>2 DEF SeenInv, LiveInv
  <2> QED
    BY <2>1, <2>2
<1>12. ASSUME NEW g \in Greenlets, NEW i \in DOMAIN stack'[g], Unshared(g),
              stack'[g][i].depth # NotSeen \/ stack'[g][i].nested
       PROVE  \E s \in DOMAIN gstorage' :
                /\ gstorage'[s].gid = g
                /\ stack'[g][i].depth - i = gstorage'[s].depth - Len(stack'[g])
                /\ stack'[g][i].nested => gstorage'[s].no_trace_from_depth = stack'[g][i].depth
  <2>1. CASE g # current
    <3>1. stack'[g] = stack[g]
      BY <1>3, <2>1
    <3>2. PICK s \in DOMAIN gstorage :
            /\ gstorage[s].gid = g
            /\ stack[g][i].depth - i = gstorage[s].depth - Len(stack[g])
            /\ stack[g][i].nested => gstorage[s].no_trace_from_depth = stack[g][i].depth
      BY <1>12, <3>1 DEF SeenInv, FrameInv
    <3>3. s # Store
      BY <1>0, <1>12, <2>1, <3>2, OwnStore DEF SeenInv, Unshared
    <3>4. s \in DOMAIN gstorage' /\ gstorage'[s] = gstorage[s]
      BY <1>6, <3>3
    <3> QED
      BY <3>1, <3>2, <3>4
  <2>2. CASE g = current
    <3>1. i \in 1..(n - 1) /\ i \in 1..n /\ n # 1 /\ i \in Int
      BY <1>0, <1>3, <1>12, <2>2
    <3>2. stack'[g][i] = stack[current][i] /\ stack[current][i].depth \in Int
      BY <1>3, <1>b, <2>2, <3>1
    <3>3. stack[current][i].depth - i = b.depth - n
      BY <1>5, <1>12, <2>2, <3>1, <3>2
    <3>4. stack'[g][i].depth - i = gstorage'[Store].depth - Len(stack'[g])
      <4>1. gstorage'[Store].depth = b.depth - 1 /\ Len(stack'[g]) = n - 1
        BY <1>3, <1>7, <2>2, <3>1
      <4>2. stack[current][i].depth - i = (b.depth - 1) - (n - 1)
        BY <1>0, <1>a, <3>1, <3>2, <3>3
      <4> QED
        BY <3>2, <4>1, <4>2
    <3>5. ASSUME stack[current][i].nested
          PROVE  gstorage'[Store].no_trace_from_depth = stack[current][i].depth
      <4>1. b.no_trace_from_depth = stack[current][i].depth
        BY <1>5, <1>12, <2>2, <3>1, <3>5
      <4>2. i < n
        BY <1>0, <3>1
      <4>3. b.no_trace_from_depth < b.depth
        BY <1>0, <1>a, <3>1, <3>2, <3>3, <4>1, <4>2
      <4>4. ~e.asked
        BY <1>2, <1>a, <4>3
      <4> QED
        BY <1>2, <1>6, <3>1, <4>1, <4>4
    <3> QED
      BY <1>5, <1>6, <1>7, <1>12, <2>2, <3>1, <3>2, <3>4, <3>5
  <2> QED
    BY <2>1, <2>2
<1>13. ASSUME ~suspended', NEW t \in DOMAIN gstorage', Unshared(gstorage'[t].gid),
              \A i \in DOMAIN stack'[gstorage'[t].gid] : ~stack'[gstorage'[t].gid][i].nested
       PROVE  gstorage'[t].depth < gstorage'[t].no_trace_from_depth
  <2>1. CASE t # Store
    BY <1>1, <1>8, <1>13, <2>1 DEF SeenInv, OpenInv
  <2>2. CASE t = Store
    <3>0. n # 1
      BY <1>6, <2>2
    <3>a. gstorage'[t].gid = current /\ Unshared(current)
      BY <1>7, <1>13, <1>c, <2>2, <3>0
    <3>1. \A i \in 1..(n - 1) : ~stack[current][i].nested
      BY <1>3, <1>13, <3>a
    <3>2. b.depth <= b.no_trace_from_depth
      <4>1. n \in 1..n
        BY <1>0, <1>3
      <4>2. CASE stack[current][n].nested
        <5>1. stack[current][n].depth - n = b.depth - n /\ b.no_trace_from_depth = stack[current][n].depth
          BY <1>5, <3>a, <4>1, <4>2
        <5>2. stack[current][n].depth \in Int
          BY <1>b, <4>1
        <5> QED
          BY <1>0, <1>a, <5>1, <5>2
      <4>3. CASE ~stack[current][n].nested
        <5>1. \A i \in 1..n : i = n \/ i \in 1..(n - 1)
          BY <1>0
        <5>2. \A i \in 1..n : ~stack[current][i].nested
          BY <3>1, <4>3, <5>1
        <5>3. b.depth < b.no_trace_from_depth
          BY <1>1, <1>5, <1>13, <3>a, <5>2
        <5> QED
          BY <1>a, <5>3
      <4> QED
        BY <4>2, <4>3
    <3>3. enabled > 0
      BY <1>1, <1>13 DEF EnabledInv
    <3>4. e.asked
      BY <1>2, <3>2, <3>3
    <3>5. b.depth - 1 < NO_TRACE_FROM_DEPTH_DISABLED /\ b.depth - 1 < b.depth
      BY <1>0, <1>5, <1>a, <3>a, Constants
    <3>6. gstorage'[Store].no_trace_from_depth \in {b.depth, NO_TRACE_FROM_DEPTH_DISABLED}
      BY <1>2, <1>6, <3>0, <3>4
    <3> QED
      BY <1>7, <2>2, <3>0, <3>5, <3>6
  <2> QED
    BY <2>1, <2>2
<1>14. LiveInv'
  BY <1>11 DEF LiveInv
<1>15. FrameInv'
  BY <1>12 DEF FrameInv
<1>16. OpenInv'
  BY <1>13 DEF OpenInv
<1> QED
  BY <1>9, <1>10, <1>14, <1>15, <1>16 DEF SeenInv

-----------------------------------------------------------------------------
(* The invariant is inductive.                                             *)

(* A new thread has nothing to remember.                                   *)
LEMMA FreshThread == Init => GreenletInv
<1> SUFFICES ASSUME Init PROVE GreenletInv
  OBVIOUS
<1>0. /\ profiling = FALSE /\ current = Main /\ stack = [g \in Greenlets |-> <<>>] /\ enabled = 1
      /\ last_frame = NULL /\ gstorage = <<>> /\ suspended = FALSE /\ unsets = 0
  BY DEF Init
<1>1. DOMAIN gstorage = {}
  BY <1>0
<1>2. \A g \in Greenlets : stack[g] = <<>> /\ Len(stack[g]) = 0 /\ DOMAIN stack[g] = {}
  BY <1>0
<1>3. stack \in [Greenlets -> Seq(Frames)]
  BY <1>0, EmptySeq
<1>4. TypeInv
  <2>1. \A g \in Greenlets : Len(stack[g]) <= MaxDepth
    BY <1>2, Constants
  <2>2. DOMAIN gstorage \subseteq Storages /\ \A s \in DOMAIN gstorage : gstorage[s] \in GreenletStorages
    BY <1>1
  <2>3. enabled \in Int /\ unsets \in Nat
    BY <1>0
  <2>4. /\ profiling \in BOOLEAN /\ current \in Greenlets
        /\ last_frame \in Addresses \cup {NULL} /\ suspended \in BOOLEAN
    BY <1>0, Constants, Zenon
  <2> QED
    BY <1>3, <2>1, <2>2, <2>3, <2>4 DEF TypeInv
<1>5. AddressInv
  BY <1>2 DEF AddressInv
<1>6. StorageInv /\ EnabledInv
  BY <1>0, <1>1 DEF StorageInv, EnabledInv
<1>7. FreshInv /\ TopInv /\ LiveInv /\ OpenInv
  BY <1>0, <1>1 DEF FreshInv, TopInv, LiveInv, OpenInv
<1>8. FrameInv
  BY <1>2 DEF FrameInv
<1> QED
  BY <1>4, <1>5, <1>6, <1>7, <1>8 DEF GreenletInv, SeenInv

(* The steps that touch neither the frames nor the storages.               *)
LEMMA QuietStepKeeps ==
  ASSUME GreenletInv, UNCHANGED <<stack, tstore, gstorage>>,
         profiling' \in BOOLEAN, current' \in Greenlets, enabled' \in Int, suspended' \in BOOLEAN,
         unsets' \in Nat, EnabledInv',
         unsets' = 0 => unsets = 0 /\ (profiling => profiling') /\ (suspended => suspended')
  PROVE  GreenletInv'
<1>1. stack' = stack /\ last_frame' = last_frame /\ last_gstorage' = last_gstorage /\ gstorage' = gstorage
  BY DEF tstore
<1>2. TypeInv'
  BY <1>1 DEF GreenletInv, TypeInv
<1>3. AddressInv' /\ StorageInv'
  BY <1>1 DEF GreenletInv, AddressInv, StorageInv
<1>4. ASSUME unsets' = 0 PROVE SeenInv'
  <2>1. SeenInv /\ (profiling => profiling') /\ (suspended => suspended')
    BY <1>4 DEF GreenletInv
  <2>2. FreshInv' /\ TopInv' /\ LiveInv' /\ OpenInv'
    BY <1>1, <2>1 DEF SeenInv, FreshInv, TopInv, LiveInv, OpenInv
  <2>3. FrameInv'
    BY <1>1, <2>1 DEF SeenInv, FrameInv
  <2> QED
    BY <2>2, <2>3 DEF SeenInv
<1> QED
  BY <1>2, <1>3, <1>4 DEF GreenletInv

(* Every step keeps the invariant.                                         *)
LEMMA GreenletInductive ==
  ASSUME GreenletInv, [Next]_vars
  PROVE  GreenletInv'
<1>0. TypeInv /\ AddressInv /\ StorageInv /\ EnabledInv /\ (unsets = 0 => SeenInv)
  BY DEF GreenletInv
<1>a. /\ profiling \in BOOLEAN /\ current \in Greenlets /\ enabled \in Int
      /\ suspended \in BOOLEAN /\ unsets \in Nat
  BY <1>0 DEF TypeInv
<1>1. ASSUME NEW func \in Funcs, NEW a \in Addresses, Call(func, a) PROVE GreenletInv'
  <2>1. TypeInv' /\ AddressInv' /\ StorageInv'
    BY <1>0, <1>1, CallKeepsShape
  <2>2. EnabledInv' /\ unsets' = unsets
    BY <1>0, <1>1 DEF Call, EnabledInv
  <2>3. unsets = 0 => SeenInv'
    BY <1>0, <1>1, UnseenCallKeepsSeen, SeenCallKeepsSeen
  <2> QED
    BY <2>1, <2>2, <2>3 DEF GreenletInv
<1>2. CASE Return
  <2>1. TypeInv' /\ AddressInv' /\ StorageInv'
    BY <1>0, <1>2, ReturnKeepsShape
  <2>2. EnabledInv' /\ unsets' = unsets
    BY <1>0, <1>2 DEF Return, EnabledInv
  <2>3. unsets = 0 => SeenInv'
    BY <1>0, <1>2, UnseenReturnKeepsSeen, SeenReturnKeepsSeen
  <2> QED
    BY <2>1, <2>2, <2>3 DEF GreenletInv
<1>3. CASE ThreadExit
  <2>1. Init'
    BY <1>3 DEF ThreadExit, Init
  <2> QED
    BY <2>1, FreshThread, PTL
<1>4. ASSUME NEW g \in Greenlets, Switch(g) PROVE GreenletInv'
  <2>1. /\ UNCHANGED <<stack, tstore, gstorage>> /\ current' = g
        /\ profiling' = profiling /\ enabled' = enabled /\ suspended' = suspended /\ unsets' = unsets
    BY <1>4 DEF Switch
  <2>2. EnabledInv'
    BY <1>0, <2>1 DEF EnabledInv
  <2> QED
    BY <1>a, <2>1, <2>2, QuietStepKeeps
<1>5. CASE SetProfile
  <2>1. /\ UNCHANGED <<stack, tstore, gstorage>> /\ current' = current
        /\ profiling' = TRUE /\ enabled' = enabled /\ suspended' = suspended /\ unsets' = unsets
    BY <1>5 DEF SetProfile, interpreter
  <2>2. EnabledInv'
    BY <1>0, <2>1 DEF EnabledInv
  <2> QED
    BY <1>a, <2>1, <2>2, QuietStepKeeps
<1>6. CASE UnsetProfile
  <2>1. /\ UNCHANGED <<stack, tstore, gstorage>> /\ current' = current
        /\ profiling' = FALSE /\ enabled' = enabled /\ suspended' = suspended /\ unsets' = unsets + 1
    BY <1>6 DEF UnsetProfile, interpreter
  <2>2. EnabledInv'
    BY <1>0, <2>1 DEF EnabledInv
  <2>3. unsets' \in Nat /\ unsets' # 0
    BY <1>a, <2>1
  <2> QED
    BY <1>a, <2>1, <2>2, <2>3, QuietStepKeeps
<1>7. CASE Suspend
  <2>1. /\ UNCHANGED <<stack, tstore, gstorage>> /\ current' = current
        /\ profiling' = profiling /\ enabled' = enabled - 1 /\ suspended' = TRUE /\ unsets' = unsets
    BY <1>7 DEF Suspend, interpreter
  <2>2. EnabledInv' /\ enabled' \in Int
    BY <1>a, <2>1 DEF EnabledInv
  <2> QED
    BY <1>a, <2>1, <2>2, QuietStepKeeps
<1>8. CASE Resume
  <2>1. /\ UNCHANGED <<stack, tstore, gstorage>> /\ current' = current /\ enabled <= 0
        /\ profiling' = profiling /\ enabled' = enabled + 1 /\ suspended' = suspended /\ unsets' = unsets
    BY <1>8 DEF Resume, interpreter
  <2>2. enabled' \in Int
    BY <1>a, <2>1
  <2>3. suspended
    BY <1>0, <1>a, <2>1 DEF EnabledInv
  <2>4. EnabledInv'
    BY <2>1, <2>3 DEF EnabledInv
  <2> QED
    BY <1>a, <2>1, <2>2, <2>4, QuietStepKeeps
<1>9. CASE UNCHANGED vars
  <2>1. /\ UNCHANGED <<stack, tstore, gstorage>> /\ current' = current
        /\ profiling' = profiling /\ enabled' = enabled /\ suspended' = suspended /\ unsets' = unsets
    BY <1>9 DEF vars, interpreter
  <2>2. EnabledInv'
    BY <1>0, <2>1 DEF EnabledInv
  <2> QED
    BY <1>a, <2>1, <2>2, QuietStepKeeps
<1> QED
  BY <1>1, <1>2, <1>3, <1>4, <1>5, <1>6, <1>7, <1>8, <1>9 DEF Next

(* It holds in every reachable state.                                      *)
LEMMA GreenletInvariant == Spec => []GreenletInv
<1>1. GreenletInv /\ [Next]_vars => GreenletInv'
  BY GreenletInductive
<1> QED
  BY <1>1, FreshThread, PTL DEF Spec

-----------------------------------------------------------------------------
(* What follows from it.                                                   *)

(* The events the interpreter can bring next, with the facts of the        *)
(* storage they use.                                                       *)
LEMMA NextEvents ==
  ASSUME TypeInv, StorageInv
  PROVE  /\ \A e \in NextCall : \E func \in Funcs : e = CallEvent(func, NULL)
         /\ \A e \in NextReturn : InPython /\ e = ReturnEvent
BY DEF NextCall, NextReturn

(* greenlet_trace_func never follows a cached GreenletStorage that         *)
(* del_gstorage freed, whatever calls go unseen after unset_tracing.       *)
THEOREM NeverDangling == Spec => []NoDanglingStorage
<1>1. GreenletInv => NoDanglingStorage
  <2> SUFFICES ASSUME GreenletInv, NEW e \in NextCall \cup NextReturn PROVE ~e.dangling
    BY DEF NoDanglingStorage
  <2>0. TypeInv /\ StorageInv
    BY DEF GreenletInv
  <2>1. CASE e \in NextCall
    <3>1. PICK func \in Funcs : e = CallEvent(func, NULL)
      BY <2>0, <2>1, NextEvents
    <3> QED
      BY <2>0, <3>1, CallEventIs
  <2>2. CASE e \in NextReturn
    BY <2>0, <2>2, NextEvents, ReturnEventIs
  <2> QED
    BY <2>1, <2>2
<1> QED
  BY <1>1, GreenletInvariant, PTL

(* While the profile function stays installed, the storage cached with the *)
(* last frame is the one gid_map has for the running greenlet's word.      *)
THEOREM CachedGreenletRuns == Spec => []RightGreenlet
<1>1. GreenletInv => RightGreenlet
  <2> SUFFICES ASSUME GreenletInv, unsets = 0, NEW e \in NextCall \cup NextReturn
               PROVE  Word[e.owner] = Word[current]
    BY DEF RightGreenlet
  <2> DEFINE n == Len(stack[current])
  <2>0. TypeInv /\ AddressInv /\ StorageInv /\ SeenInv
    BY DEF GreenletInv
  <2>1. n \in Nat
    BY <2>0 DEF TypeInv
  <2>2. CASE e \in NextCall
    <3>1. PICK func \in Funcs : e = CallEvent(func, NULL)
      BY <2>0, <2>2, NextEvents
    <3>2. e.owner = Before(n).gid
      BY <2>0, <3>1, CallEventIs
    <3>3. n <= n
      BY <2>1
    <3> QED
      BY <2>0, <2>1, <3>2, <3>3, StoreOfCurrent
  <2>3. CASE e \in NextReturn
    <3>1. InPython /\ e = ReturnEvent
      BY <2>0, <2>3, NextEvents
    <3>2. e.owner = Before(n - 1).gid
      BY <2>0, <3>1, ReturnEventIs
    <3>3. n >= 1
      BY <2>0, <2>1, <3>1, InnermostFrames
    <3>4. n - 1 \in Nat /\ n - 1 <= n
      BY <2>1, <3>3
    <3> QED
      BY <2>0, <2>1, <3>2, <3>4, StoreOfCurrent
  <2> QED
    BY <2>2, <2>3
<1> QED
  BY <1>1, GreenletInvariant, PTL

(* While the profile function stays installed, a greenlet that ended has   *)
(* no storage a new one at its address would find.                         *)
THEOREM EndedGreenletsForgotten == Spec => []NoLeftOverStorage
<1>1. GreenletInv => NoLeftOverStorage
  BY DEF GreenletInv, SeenInv, LiveInv, NoLeftOverStorage
<1> QED
  BY <1>1, GreenletInvariant, PTL

(* What a storage not shared says at the next event: the depth of the      *)
(* running frame, and whether the filter will be asked.                    *)
LEMMA AtNextEvent ==
  ASSUME GreenletInv, unsets = 0, Unshared(current), NEW n \in Nat, n = Len(stack[current]),
         NEW m \in Nat, m <= n, n <= m + 1, NEW b, b = Before(m)
  PROVE  /\ n >= 1 /\ Top.depth # NotSeen => b.depth = Top.depth
         /\ InsideNested(n) => b.no_trace_from_depth < b.depth + 1
         /\ InsideNested(n - 1) => b.no_trace_from_depth < b.depth
         /\ ~suspended => enabled > 0
         /\ ~suspended /\ ~InsideNested(n) => b.depth + 1 <= b.no_trace_from_depth
         /\ n >= 1 /\ ~suspended /\ ~InsideNested(n - 1) => b.depth <= b.no_trace_from_depth
<1>0. TypeInv /\ AddressInv /\ StorageInv /\ EnabledInv /\ SeenInv
  BY DEF GreenletInv
<1>1. /\ b \in GreenletStorages
      /\ \A i \in 1..n : stack[current][i].depth # NotSeen \/ stack[current][i].nested =>
           stack[current][i].depth - i = b.depth - n
      /\ \A i \in 1..n : stack[current][i].nested =>
           b.no_trace_from_depth = stack[current][i].depth
      /\ ~suspended /\ (\A i \in 1..n : ~stack[current][i].nested) =>
           b.depth < b.no_trace_from_depth
  BY <1>0, StoreOfCurrent
<1>2. b.depth \in Int /\ b.no_trace_from_depth \in Int
  BY <1>1 DEF GreenletStorages
<1>3. \A i \in 1..n : stack[current][i].depth \in Int
  <2>1. stack[current] \in Seq(Frames)
    BY <1>0 DEF TypeInv
  <2>2. \A i \in 1..n : stack[current][i] \in Frames
    BY <2>1
  <2> QED
    BY <2>2 DEF Frames
<1>4. ASSUME n >= 1, Top.depth # NotSeen PROVE b.depth = Top.depth
  <2>1. n \in 1..n /\ Top = stack[current][n]
    BY <1>4 DEF Top
  <2>2. stack[current][n].depth - n = b.depth - n
    BY <1>1, <1>4, <2>1
  <2>3. stack[current][n].depth \in Int
    BY <1>3, <2>1
  <2> QED
    BY <1>2, <2>1, <2>2, <2>3
<1>5. ASSUME NEW i \in 1..n, stack[current][i].nested
      PROVE  b.no_trace_from_depth = b.depth - n + i
  <2>1. stack[current][i].depth - i = b.depth - n /\ b.no_trace_from_depth = stack[current][i].depth
    BY <1>1, <1>5
  <2>2. stack[current][i].depth \in Int
    BY <1>3
  <2> QED
    BY <1>2, <2>1, <2>2
<1>6. InsideNested(n) => b.no_trace_from_depth < b.depth + 1
  <2> SUFFICES ASSUME NEW i \in 1..n, stack[current][i].nested
               PROVE  b.no_trace_from_depth < b.depth + 1
    BY DEF InsideNested
  <2> QED
    BY <1>2, <1>5
<1>7. InsideNested(n - 1) => b.no_trace_from_depth < b.depth
  <2> SUFFICES ASSUME NEW i \in 1..(n - 1), stack[current][i].nested
               PROVE  b.no_trace_from_depth < b.depth
    BY DEF InsideNested
  <2>1. i \in 1..n /\ i < n
    OBVIOUS
  <2> QED
    BY <1>2, <1>5, <2>1
<1>8. ~suspended => enabled > 0
  BY <1>0 DEF EnabledInv
<1>9. ASSUME ~suspended, ~InsideNested(n) PROVE b.depth + 1 <= b.no_trace_from_depth
  <2>1. b.depth < b.no_trace_from_depth
    BY <1>1, <1>9 DEF InsideNested
  <2> QED
    BY <1>2, <2>1
<1>10. ASSUME n >= 1, ~suspended, ~InsideNested(n - 1) PROVE b.depth <= b.no_trace_from_depth
  <2>1. n \in 1..n
    BY <1>10
  <2>2. CASE stack[current][n].nested
    <3>1. b.no_trace_from_depth = b.depth - n + n
      BY <1>5, <2>1, <2>2
    <3> QED
      BY <1>2, <3>1
  <2>3. CASE ~stack[current][n].nested
    <3>1. \A i \in 1..n : i = n \/ i \in 1..(n - 1)
      OBVIOUS
    <3>2. ~InsideNested(n)
      BY <1>10, <2>3, <3>1 DEF InsideNested
    <3>3. b.depth + 1 <= b.no_trace_from_depth
      BY <1>9, <1>10, <3>2
    <3> QED
      BY <1>2, <3>3
  <2> QED
    BY <2>2, <2>3
<1> QED
  BY <1>4, <1>6, <1>7, <1>8, <1>9, <1>10

(* The next CALL and the next RETURN in terms of the storage.              *)
LEMMA NextEventsAre ==
  ASSUME GreenletInv, NEW n \in Nat, n = Len(stack[current])
  PROVE  /\ \A e \in NextCall :
              /\ e.asked <=> (enabled > 0 /\ Before(n).depth + 1 <= Before(n).no_trace_from_depth)
              /\ e.logged => e.asked
         /\ \A e \in NextReturn :
              /\ n >= 1 /\ n - 1 \in Nat /\ n - 1 <= n /\ n <= n - 1 + 1
              /\ e.depth = Before(n - 1).depth
              /\ e.asked <=> (enabled > 0 /\ Before(n - 1).depth <= Before(n - 1).no_trace_from_depth)
              /\ e.logged => e.asked
<1>0. TypeInv /\ StorageInv
  BY DEF GreenletInv
<1>1. ASSUME NEW e \in NextCall
      PROVE  /\ e.asked <=> (enabled > 0 /\ Before(n).depth + 1 <= Before(n).no_trace_from_depth)
             /\ e.logged => e.asked
  <2>1. PICK func \in Funcs : e = CallEvent(func, NULL)
    BY <1>0, NextEvents
  <2>2. /\ e.asked <=> (enabled > 0 /\ Before(n).depth + 1 <= Before(n).no_trace_from_depth)
        /\ e.level = IF e.asked THEN FilterResult[func] ELSE NO_TRACE
        /\ e.logged <=> e.level \notin {NO_TRACE, NO_TRACE_NESTED}
    BY <1>0, <2>1, CallEventIs
  <2> QED
    BY <2>2
<1>2. ASSUME NEW e \in NextReturn
      PROVE  /\ n >= 1 /\ n - 1 \in Nat /\ n - 1 <= n /\ n <= n - 1 + 1
             /\ e.depth = Before(n - 1).depth
             /\ e.asked <=> (enabled > 0 /\ Before(n - 1).depth <= Before(n - 1).no_trace_from_depth)
             /\ e.logged => e.asked
  <2>1. InPython /\ e = ReturnEvent
    BY <1>0, NextEvents
  <2>2. /\ e.depth = Before(n - 1).depth
        /\ e.asked <=> (enabled > 0 /\ Before(n - 1).depth <= Before(n - 1).no_trace_from_depth)
        /\ e.level = IF e.asked THEN FilterResult[Top.func] ELSE NO_TRACE
        /\ e.logged <=> e.level \notin {NO_TRACE, NO_TRACE_NESTED}
    BY <1>0, <2>1, ReturnEventIs
  <2>3. n >= 1
    BY <1>0, <2>1, InnermostFrames
  <2>4. n - 1 \in Nat /\ n - 1 <= n /\ n <= n - 1 + 1
    BY <2>3
  <2> QED
    BY <2>2, <2>3, <2>4
<1> QED
  BY <1>1, <1>2

(* A call and the return from it are given the same depth, whatever        *)
(* greenlets ran in between, if none of them has the word of the caller's  *)
(* gid.                                                                    *)
THEOREM DepthsPair == Spec => []DepthPaired
<1>1. GreenletInv => DepthPaired
  <2> SUFFICES ASSUME GreenletInv, unsets = 0, Unshared(current), NEW e \in NextReturn,
                      Top.depth # NotSeen
               PROVE  e.depth = Top.depth
    BY DEF DepthPaired
  <2>1. Len(stack[current]) \in Nat
    BY DEF GreenletInv, TypeInv
  <2> DEFINE n == Len(stack[current])
  <2> HIDE DEF n
  <2>2. n \in Nat /\ n = Len(stack[current])
    BY <2>1 DEF n
  <2>3. n >= 1 /\ n - 1 \in Nat /\ n - 1 <= n /\ n <= n - 1 + 1 /\ e.depth = Before(n - 1).depth
    BY <2>2, NextEventsAre
  <2> QED
    BY <2>2, <2>3, AtNextEvent
<1> QED
  BY <1>1, GreenletInvariant, PTL

(* Nothing is logged from inside a function the filter said not to trace   *)
(* with all that it calls, in a greenlet that shares its storage with no   *)
(* other.                                                                  *)
THEOREM NestedNeverLogged == Spec => []NestedSilent
<1>1. GreenletInv => NestedSilent
  <2> SUFFICES ASSUME GreenletInv, unsets = 0, Unshared(current)
               PROVE  /\ InsideNested(Len(stack[current])) => \A e \in NextCall : ~e.logged
                      /\ InsideNested(Len(stack[current]) - 1) => \A e \in NextReturn : ~e.logged
    BY DEF NestedSilent
  <2>1. Len(stack[current]) \in Nat
    BY DEF GreenletInv, TypeInv
  <2> DEFINE n == Len(stack[current])
  <2> HIDE DEF n
  <2>2. n \in Nat /\ n = Len(stack[current]) /\ n <= n /\ n <= n + 1
    BY <2>1 DEF n
  <2>3. ASSUME InsideNested(n), NEW e \in NextCall PROVE ~e.logged
    <3>1. /\ e.asked <=> (enabled > 0 /\ Before(n).depth + 1 <= Before(n).no_trace_from_depth)
          /\ e.logged => e.asked
      BY <2>2, NextEventsAre
    <3>2. Before(n).no_trace_from_depth < Before(n).depth + 1
      BY <2>2, <2>3, AtNextEvent
    <3>3. Before(n).depth \in Int /\ Before(n).no_trace_from_depth \in Int
      BY <2>2, BeforeType DEF GreenletInv, GreenletStorages
    <3> QED
      BY <3>1, <3>2, <3>3
  <2>4. ASSUME InsideNested(n - 1), NEW e \in NextReturn PROVE ~e.logged
    <3>1. /\ n - 1 \in Nat /\ n - 1 <= n /\ n <= n - 1 + 1
          /\ e.asked <=> (enabled > 0 /\ Before(n - 1).depth <= Before(n - 1).no_trace_from_depth)
          /\ e.logged => e.asked
      BY <2>2, NextEventsAre
    <3>2. Before(n - 1).no_trace_from_depth < Before(n - 1).depth
      BY <2>2, <2>4, <3>1, AtNextEvent
    <3>3. Before(n - 1).depth \in Int /\ Before(n - 1).no_trace_from_depth \in Int
      BY <3>1, BeforeType DEF GreenletInv, GreenletStorages
    <3> QED
      BY <3>1, <3>2, <3>3
  <2> QED
    BY <2>3, <2>4 DEF n
<1> QED
  BY <1>1, GreenletInvariant, PTL

(* Outside such a function there, and unless tracing was suspended, the    *)
(* filter is asked about every event.                                      *)
THEOREM OnlyNestedUnasked == Spec => []OnlyNestedSilent
<1>1. GreenletInv => OnlyNestedSilent
  <2> SUFFICES ASSUME GreenletInv, unsets = 0, ~suspended, Unshared(current)
               PROVE  /\ ~InsideNested(Len(stack[current])) => \A e \in NextCall : e.asked
                      /\ ~InsideNested(Len(stack[current]) - 1) => \A e \in NextReturn : e.asked
    BY DEF OnlyNestedSilent
  <2>1. Len(stack[current]) \in Nat
    BY DEF GreenletInv, TypeInv
  <2> DEFINE n == Len(stack[current])
  <2> HIDE DEF n
  <2>2. n \in Nat /\ n = Len(stack[current]) /\ n <= n /\ n <= n + 1
    BY <2>1 DEF n
  <2>3. ASSUME ~InsideNested(n), NEW e \in NextCall PROVE e.asked
    <3>1. e.asked <=> (enabled > 0 /\ Before(n).depth + 1 <= Before(n).no_trace_from_depth)
      BY <2>2, NextEventsAre
    <3>2. enabled > 0 /\ Before(n).depth + 1 <= Before(n).no_trace_from_depth
      BY <2>2, <2>3, AtNextEvent
    <3> QED
      BY <3>1, <3>2
  <2>4. ASSUME ~InsideNested(n - 1), NEW e \in NextReturn PROVE e.asked
    <3>1. /\ n >= 1 /\ n - 1 \in Nat /\ n - 1 <= n /\ n <= n - 1 + 1
          /\ e.asked <=> (enabled > 0 /\ Before(n - 1).depth <= Before(n - 1).no_trace_from_depth)
      BY <2>2, NextEventsAre
    <3>2. enabled > 0 /\ Before(n - 1).depth <= Before(n - 1).no_trace_from_depth
      BY <2>2, <2>4, <3>1, AtNextEvent
    <3> QED
      BY <3>1, <3>2
  <2> QED
    BY <2>3, <2>4 DEF n
<1> QED
  BY <1>1, GreenletInvariant, PTL
=============================================================================
