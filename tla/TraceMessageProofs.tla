------------------------- MODULE TraceMessageProofs -------------------------
(***************************************************************************)
(* The message buffer stays in bounds and terminated, for every capacity   *)
(* and strings of every length.                                            *)
(***************************************************************************)
EXTENDS TraceMessage, TLAPS

(* TypeOK and InBounds are inductive together; Terminated needs both: a    *)
(* write stops before the sentinel because the limit does.                 *)
MessageInv == TypeOK /\ InBounds /\ Terminated

(* Put changes characters from write_index on, at most up to the NUL, and  *)
(* leaves the sentinel alone when what it writes ends before it.           *)
LEMMA PutType ==
  ASSUME TypeOK, NEW n \in Nat, NEW terminated \in BOOLEAN
  PROVE  /\ Put(n, terminated) \in [Indexes -> Chars]
         /\ Terminated /\ write_index + n <= MessageCapacity
              => Put(n, terminated)[MessageCapacity] = "NUL"
  BY MessageAssumption DEF Put, TypeOK, Indexes, Chars, Terminated

(* Initially the buffer is empty, unlimited and terminated.                *)
LEMMA InitMessage == Init => MessageInv
  BY MessageAssumption DEF Init, MessageInv, TypeOK, InBounds, Terminated, Indexes, Chars, NotPrinted

(* write keeps the invariant.                                              *)
LEMMA WriteKeeps ==
  ASSUME MessageInv, NEW n \in 0..MaxLen, Write(n)
  PROVE  MessageInv'
  <1> USE MessageAssumption
  <1> DEFINE k == Smaller(n, Room)
  <1>1. k \in Nat /\ write_index + k <= limit_index /\ limit_index <= MessageCapacity
        /\ limit_index \in Nat /\ write_index \in Nat
    BY DEF Room, avail_size, Smaller, MessageInv, TypeOK, InBounds, Indexes
  <1>2. buffer' = Put(k, n < Room) /\ write_index' = write_index + k
        /\ UNCHANGED <<limit_index, limits, printed>>
    BY DEF Write
  <1> HIDE DEF k
  <1>4. buffer' \in [Indexes -> Chars] /\ buffer'[MessageCapacity] = "NUL"
    BY <1>1, <1>2 DEF Put, MessageInv, TypeOK, Terminated, Indexes, Chars
  <1> QED
    BY <1>1, <1>2, <1>4 DEF MessageInv, TypeOK, InBounds, Terminated, Indexes

(* printf keeps the invariant: vsnprintf puts its NUL below the limit, and *)
(* a text that does not fit is taken back.                                 *)
LEMMA PrintfKeeps ==
  ASSUME MessageInv, NEW n \in 0..MaxLen, Printf(n)
  PROVE  MessageInv'
  <1> USE MessageAssumption
  <1> DEFINE bytes == Printed(n, avail_size)
             k == Smaller(n, avail_size - 1)
  <1>1. avail_size \in Nat /\ write_index + avail_size <= MessageCapacity
        /\ limit_index \in Nat /\ write_index \in Nat /\ n \in Nat
    BY DEF avail_size, MessageInv, TypeOK, InBounds, Indexes
  <1>2. bytes \in [Indexes -> Chars] /\ bytes[MessageCapacity] = "NUL"
    <2>1. CASE avail_size = 0
      BY <2>1 DEF Printed, MessageInv, TypeOK, Terminated
    <2>2. CASE avail_size # 0
      <3>1. k \in Nat /\ write_index + k <= MessageCapacity
        BY <1>1, <2>2 DEF Smaller
      <3>2. bytes = Put(k, TRUE)
        BY <2>2 DEF Printed
      <3> HIDE DEF k, bytes
      <3> QED
        BY <3>1, <3>2, PutType DEF MessageInv
    <2> QED
      BY <2>1, <2>2
  <1>3. Smaller(avail_size, avail_size) = avail_size
    BY <1>1 DEF Smaller
  <1>4. /\ \/ Fits(n) /\ buffer' = bytes /\ write_index' = write_index + n
           \/ buffer' = [bytes EXCEPT ![write_index] = "NUL"] /\ write_index' = write_index
        /\ printed' = [start |-> write_index, length |-> n, ok |-> Fits(n)]
        /\ UNCHANGED <<limit_index, limits>>
    BY <1>3 DEF Printf, VnPrintf
  <1>5. printed' \in [start : Int, length : Int, ok : BOOLEAN]
    BY <1>1, <1>4 DEF Fits
  <1> HIDE DEF bytes, k
  <1>6. buffer' \in [Indexes -> Chars] /\ buffer'[MessageCapacity] = "NUL"
    BY <1>2, <1>4 DEF Chars, Indexes
  <1>7. write_index' \in Nat /\ write_index' <= limit_index
    BY <1>1, <1>4 DEF Fits, avail_size, MessageInv, InBounds
  <1> QED
    BY <1>1, <1>4, <1>5, <1>6, <1>7 DEF MessageInv, TypeOK, InBounds, Terminated, Indexes

(* limit only lowers the limit, never below the write index, and remembers *)
(* the wider one.                                                          *)
LEMMA LimitKeeps ==
  ASSUME MessageInv, NEW size \in 0..MessageCapacity, Limit(size)
  PROVE  MessageInv'
  <1> USE MessageAssumption
  <1>1. avail_size \in Nat /\ limit_index \in Nat /\ write_index \in Nat
        /\ write_index + avail_size = limit_index /\ limit_index <= MessageCapacity
    BY DEF avail_size, MessageInv, TypeOK, InBounds, Indexes
  <1>2. clip(size, 0, avail_size) \in 0..avail_size
    BY <1>1 DEF clip, Larger, Smaller
  <1>3. limit_index' \in Indexes /\ write_index <= limit_index' /\ limit_index' <= limit_index
    BY <1>1, <1>2 DEF Limit, Indexes
  <1>4. limits' = Append(limits, limit_index) /\ UNCHANGED <<buffer, write_index, printed>>
    BY DEF Limit
  <1>5. limits \in Seq(Indexes) /\ limit_index \in Indexes
    BY DEF MessageInv, TypeOK
  <1>6. limits' \in Seq(Indexes) /\ Len(limits') = Len(limits) + 1
        /\ \A k \in DOMAIN limits' :
             limits'[k] = IF k = Len(limits) + 1 THEN limit_index ELSE limits[k]
    BY <1>4, <1>5
  <1>7. \A k \in DOMAIN limits : limits[k] \in Nat /\ limit_index <= limits[k]
    BY <1>5 DEF MessageInv, InBounds, Indexes
  <1>8. DOMAIN limits' = 1..(Len(limits) + 1) /\ DOMAIN limits = 1..Len(limits) /\ Len(limits) \in Nat
    BY <1>5, <1>6
  <1>9. \A k \in DOMAIN limits' : limit_index' <= limits'[k]
    BY <1>1, <1>3, <1>6, <1>7, <1>8 DEF Indexes
  <1>10. \A j, k \in DOMAIN limits' : j < k => limits'[k] <= limits'[j]
    BY <1>6, <1>7, <1>8 DEF MessageInv, InBounds
  <1> QED
    BY <1>3, <1>4, <1>6, <1>9, <1>10 DEF MessageInv, TypeOK, InBounds, Terminated

(* unlimit goes back to the innermost of the wider limits.                 *)
LEMMA UnlimitKeeps ==
  ASSUME MessageInv, Unlimit
  PROVE  MessageInv'
  <1> USE MessageAssumption
  <1>1. limits \in Seq(Indexes) /\ limits # <<>> /\ limit_index \in Indexes /\ write_index \in Indexes
    BY DEF Unlimit, MessageInv, TypeOK
  <1>2. Len(limits) \in Nat \ {0} /\ DOMAIN limits = 1..Len(limits)
    BY <1>1
  <1>3. limits[Len(limits)] \in Indexes /\ limit_index <= limits[Len(limits)]
    BY <1>1, <1>2 DEF MessageInv, InBounds
  <1>4. limit_index' = limits[Len(limits)]
    BY <1>3 DEF Unlimit, clip, Larger, Smaller, Indexes
  <1>5. limits' = SubSeq(limits, 1, Len(limits) - 1) /\ UNCHANGED <<buffer, write_index, printed>>
    BY DEF Unlimit
  <1>6. limits' \in Seq(Indexes) /\ DOMAIN limits' = 1..(Len(limits) - 1)
        /\ \A k \in DOMAIN limits' : limits'[k] = limits[k]
    BY <1>1, <1>2, <1>5
  <1>7. write_index <= limit_index'
    BY <1>1, <1>3, <1>4 DEF MessageInv, InBounds, Indexes
  <1>8. \A k \in DOMAIN limits' : limit_index' <= limits'[k]
    BY <1>2, <1>4, <1>6 DEF MessageInv, InBounds
  <1>9. \A j, k \in DOMAIN limits' : j < k => limits'[k] <= limits'[j]
    BY <1>2, <1>6 DEF MessageInv, InBounds
  <1> QED
    BY <1>3, <1>4, <1>5, <1>6, <1>7, <1>8, <1>9 DEF MessageInv, TypeOK, InBounds, Terminated

(* rewind stops at the limit, so its NUL goes inside the buffer.           *)
LEMMA RewindKeeps ==
  ASSUME MessageInv, NEW offset \in Indexes, Rewind(offset)
  PROVE  MessageInv'
  <1> USE MessageAssumption
  <1>1. limit_index \in Nat /\ limit_index <= MessageCapacity
    BY DEF MessageInv, TypeOK, Indexes
  <1>2. RewindIndex(offset) \in Nat /\ RewindIndex(offset) <= limit_index
    BY <1>1 DEF RewindIndex, Indexes, clip, Larger, Smaller
  <1> QED
    BY <1>1, <1>2 DEF Rewind, MessageInv, TypeOK, InBounds, Terminated, Indexes, Chars, NotPrinted

(* recycle and operator= leave a buffer within bounds.                     *)
LEMMA ReuseKeeps ==
  ASSUME MessageInv,
         RecycleMessage \/ \E n, limit \in Indexes : \E w \in 0..limit : Assign(n, w, limit)
  PROVE  MessageInv'
  <1> USE MessageAssumption
  <1>1. /\ write_index' \in Indexes
        /\ limit_index' \in Indexes
        /\ write_index' <= limit_index'
        /\ limits' = <<>>
        /\ printed' = NotPrinted
    BY DEF RecycleMessage, Assign, Indexes
  <1>2. buffer' \in [Indexes -> Chars] /\ buffer'[MessageCapacity] = "NUL"
    <2>1. CASE RecycleMessage
      BY <2>1 DEF RecycleMessage, MessageInv, TypeOK, Indexes, Chars
    <2>2. CASE \E n, limit \in Indexes : \E w \in 0..limit : Assign(n, w, limit)
      <3> PICK n \in Indexes, limit \in Indexes : \E w \in 0..limit : Assign(n, w, limit)
        BY <2>2
      <3> QED
        BY DEF Assign, MessageInv, TypeOK, Terminated, Indexes, Chars
    <2> QED
      BY <2>1, <2>2
  <1>3. NotPrinted \in [start : Int, length : Int, ok : BOOLEAN]
    BY DEF NotPrinted
  <1> QED
    BY <1>1, <1>2, <1>3 DEF MessageInv, TypeOK, InBounds, Terminated, Indexes

(* Every operation of TraceMessage keeps the invariant.                    *)
LEMMA NextKeeps == MessageInv /\ [Next]_vars => MessageInv'
  <1> SUFFICES ASSUME MessageInv, [Next]_vars PROVE MessageInv'
    OBVIOUS
  <1>1. CASE UNCHANGED vars
    BY <1>1 DEF vars, MessageInv, TypeOK, InBounds, Terminated, Indexes
  <1>2. CASE Next
    BY <1>2, WriteKeeps, PrintfKeeps, LimitKeeps, UnlimitKeeps, RewindKeeps, ReuseKeeps DEF Next
  <1> QED
    BY <1>1, <1>2

(* The buffer of a TraceMessage stays in bounds: whatever the serialisers  *)
(* write, limit, rewind and recycle, avail_size() is not negative and the  *)
(* limits nest.                                                            *)
THEOREM MessageInBounds == Spec => []InBounds
  <1>1. MessageInv => InBounds
    BY DEF MessageInv
  <1> QED
    BY <1>1, InitMessage, NextKeeps, PTL DEF Spec

(* The byte behind the buffer is NUL after every operation.                *)
THEOREM MessageTerminated == Spec => []Terminated
  <1>1. MessageInv => Terminated
    BY DEF MessageInv
  <1> QED
    BY <1>1, InitMessage, NextKeeps, PTL DEF Spec
=============================================================================
