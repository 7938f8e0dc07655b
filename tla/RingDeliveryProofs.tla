------------------------- MODULE RingDeliveryProofs -------------------------
(***************************************************************************)
(* Proofs about what the ring buffer delivers, for every number of         *)
(* producers, slots, message parts and pushes: no message is torn, none is *)
(* lost without being counted or delivered twice, and slots are handed out *)
(* round robin.  What depends on there being one consumer at a time is     *)
(* proved of the behaviours in which that is so; TraceDumpProofs shows     *)
(* that the dump threads are such consumers.                               *)
(***************************************************************************)
EXTENDS TraceMessageRingBufferProofs

-----------------------------------------------------------------------------
(* Arithmetic of "& (capacity - 1)".                                       *)

(* A number has one quotient and one remainder.                            *)
LEMMA UniqueRemainder ==
  ASSUME NEW q \in Int, NEW r \in Slots, NEW d \in Int, NEW e \in Slots,
         Capacity * q + r = Capacity * d + e
  PROVE  q = d /\ r = e
<1> USE CapacityPositive DEF Slots
<1>1. Capacity * (q - d) = e - r
  OBVIOUS
<1>2. ASSUME q - d >= 1 PROVE FALSE
  <2>1. Capacity * (q - d) >= Capacity
    BY <1>2
  <2> QED
    BY <1>1, <2>1
<1>3. ASSUME q - d <= -1 PROVE FALSE
  <2>1. Capacity * (q - d) <= -Capacity
    BY <1>3
  <2> QED
    BY <1>1, <2>1
<1> QED
  BY <1>1, <1>2, <1>3

(* What Mask takes away is a number of whole rounds.                       *)
LEMMA MaskRounds ==
  ASSUME NEW x \in Nat
  PROVE  /\ x \div Capacity \in Nat
         /\ Mask(x) \in Slots
         /\ x = Capacity * (x \div Capacity) + Mask(x)
BY CapacityPositive DEF Mask, Slots

(* Whole rounds do not change the slot.                                    *)
LEMMA MaskOfRounds ==
  ASSUME NEW x \in Nat, NEW q \in Int, NEW r \in Slots, x = Capacity * q + r
  PROVE  Mask(x) = r
<1>1. Capacity * q + r = Capacity * (x \div Capacity) + Mask(x)
  BY MaskRounds
<1> QED
  BY <1>1, MaskRounds, UniqueRemainder

(* The slot of a number below the capacity is that number.                 *)
LEMMA MaskSmall == \A x \in Slots : Mask(x) = x
BY CapacityPositive DEF Mask, Slots

(* The slot after the last is the first.                                   *)
LEMMA MaskSuccessor ==
  ASSUME NEW x \in Nat
  PROVE  Mask(x + 1) = IF Mask(x) = Capacity - 1 THEN 0 ELSE Mask(x) + 1
<1> DEFINE q == x \div Capacity
<1>1. q \in Nat /\ Mask(x) \in Slots /\ x = Capacity * q + Mask(x)
  BY MaskRounds
<1> HIDE DEF q
<1>2. CASE Mask(x) = Capacity - 1
  <2>1. x + 1 = Capacity * (q + 1) + 0
    BY <1>1, <1>2, CapacityPositive
  <2> QED
    BY <1>1, <1>2, <2>1, MaskOfRounds, SlotsAreNumbers
<1>3. CASE Mask(x) # Capacity - 1
  <2>1. x + 1 = Capacity * q + (Mask(x) + 1) /\ Mask(x) + 1 \in Slots
    BY <1>1, <1>3, CapacityPositive DEF Slots
  <2> QED
    BY <1>1, <1>3, <2>1, MaskOfRounds
<1> QED
  BY <1>2, <1>3

(* Numbers with the same slot have the same next slot.                     *)
LEMMA MaskNext ==
  ASSUME NEW x \in Nat, NEW y \in Nat, Mask(x) = Mask(y)
  PROVE  Mask(x + 1) = Mask(y + 1)
BY MaskSuccessor

(* Different numbers with the same slot are at least a round apart.        *)
LEMMA RoundApart ==
  ASSUME NEW x \in Nat, NEW y \in Nat, Mask(x) = Mask(y), x < y
  PROVE  x + Capacity <= y
<1> DEFINE q == x \div Capacity
           d == y \div Capacity
           r == Mask(x)
<1>1. /\ q \in Nat /\ d \in Nat /\ r \in Slots
      /\ x = Capacity * q + r /\ y = Capacity * d + r
  BY MaskRounds
<1> HIDE DEF q, d, r
<1>2. y - x = Capacity * (d - q)
  BY <1>1, CapacityPositive, SlotsAreNumbers
<1>3. ASSUME d - q <= 0 PROVE FALSE
  <2>1. Capacity * (d - q) <= 0
    BY <1>1, <1>3, CapacityPositive
  <2> QED
    BY <1>2, <2>1
<1>4. Capacity * (d - q) >= Capacity
  BY <1>1, <1>3, CapacityPositive
<1> QED
  BY <1>2, <1>4, CapacityPositive

-----------------------------------------------------------------------------
(* The parts of the invariant, beyond IndInv.                              *)

(* A part of a message in a slot belongs to a push that is committed, or   *)
(* that still has the lock of that slot.                                   *)
TornInv ==
  /\ \A i \in Slots : \A j \in DOMAIN elements[i] :
       /\ elements[i][j] < pushes
       /\ \A p \in Producers : Active(p) /\ ticket[p] = elements[i][j] =>
            slot[p] = i /\ pc[p] \in {"args", "commit"}
  /\ NoTornMessage

DeliveredSet == {DeliveredSeq[k] : k \in DOMAIN DeliveredSeq}

(* The channel has no message in two places.                               *)
OnePlace ==
  /\ Buffered \cap lost = {}
  /\ Buffered \cap DeliveredSet = {}
  /\ lost \cap DeliveredSet = {}
  /\ \A k, l \in DOMAIN DeliveredSeq : DeliveredSeq[k] = DeliveredSeq[l] => k = l

(* Every push is somewhere.                                                *)
EveryPush == \A n \in 0..(pushes - 1) : n \in Waiting \cup Buffered \cup lost \cup DeliveredSet

PlaceInv == OnePlace /\ EveryPush

(* overflow_counter counts the overruns.                                   *)
Counting == {p \in Producers : pc[p] = "count"}
CountInv == overflow_counter + Cardinality(Counting) = Cardinality(lost)

(* A slot is occupied by a push whose turn it is.                          *)
RoundInv == RoundRobin /\ \A i \in Occupied : Mask(owner[i]) = i

(* A slot whose flag is set is locked by some thread.                      *)
HeldInv ==
  \A i \in Slots : busy[i] => \E t \in Threads : HoldsLock(t) /\ slot[t] = i

(* In the first round every push has the slot of its number to itself, and *)
(* the consumer only slots that were taken.                                *)
WrapInv ==
  pushes <= Capacity =>
    /\ head = pushes
    /\ \A p \in Producers : Active(p) =>
         pc[p] \notin {"mask", "spin", "count_wait"} /\ slot[p] = ticket[p]
    /\ \A c \in Consumers :
         pc[c] \in {"lock", "spin", "count_wait", "recheck", "recycle", "unlock"} =>
           slot[c] < pushes /\ \A p \in Producers : Unplaced(p) => slot[p] # slot[c]

(* Whoever writes a slot occupied it or was lost to an overrun.            *)
WriterInv ==
  /\ \A p \in Producers : pc[p] \in {"count", "count_resettable"} => ticket[p] \in lost
  /\ \A p \in Producers : pc[p] \in {"prefix", "args", "commit"} =>
       ticket[p] \in lost \/ owner[slot[p]] = ticket[p]
  /\ \A i \in Slots : \A j \in DOMAIN elements[i] : elements[i][j] \in lost \cup {owner[i]}

(* One consumer at a time: the others are between two calls of pop.        *)
OnePops == \A c, e \in Consumers : pc[c] # "load" /\ pc[e] # "load" => c = e

(* What was reported and what can still be is never more than was counted. *)
CountingAgain == {p \in Producers : pc[p] = "count_resettable"}
ReportInv ==
  /\ reported + resettable_overflow_counter + Cardinality(CountingAgain) <= overflow_counter
  /\ \A c \in Consumers : pc[c] = "reset" => loaded[c] <= resettable_overflow_counter

(* The tail goes round the slots with the messages delivered.              *)
TailInv ==
  /\ tail = Mask(Len(popped))
  /\ \A c \in Consumers :
       pc[c] \in {"lock", "spin", "count_wait", "recheck"} => slot[c] = tail /\ has_data[tail]
  /\ \A k \in DOMAIN popped : Mask(popped[k][1]) = Mask(k - 1)

(* Without overruns and laps the pushes before the tail are delivered, in  *)
(* order, and a slot is occupied by the first push after it whose turn it  *)
(* is.                                                                     *)
FifoInv ==
  lost = {} /\ ~lapped =>
    /\ \A k \in DOMAIN popped : \A j \in DOMAIN popped[k] : popped[k][j] = k - 1
    /\ \A i \in Occupied \ Copied : Len(popped) <= owner[i] /\ owner[i] < Len(popped) + Capacity
    /\ \A p \in Producers : pc[p] \in {"mask", "lock", "spin"} => pushes <= ticket[p] + Capacity

-----------------------------------------------------------------------------
(* The steps that touch no message.                                        *)

(* A step that neither changes the slots nor the place of a message.       *)
Quiet ==
  /\ UNCHANGED <<head, tail, elements, has_data, ticket, pushes, owner, lost, popped, lapped>>
  /\ \A p \in Producers :
       /\ slot'[p] = slot[p]
       /\ \/ pc'[p] = pc[p]
          \/ pc[p] \in {"lock", "spin"} /\ pc'[p] \in {"spin", "count_wait", "test_and_set"}
          \/ pc[p] = "count_wait" /\ pc'[p] = "test_and_set"
          \/ pc[p] = "count" /\ pc'[p] = "count_resettable"
          \/ pc[p] = "count_resettable" /\ pc'[p] = "prefix"
  /\ \A c \in Consumers : /\ (pc'[c] = "recycle") <=> (pc[c] = "recycle")
                          /\ pc[c] = "recycle" => slot'[c] = slot[c]

(* The steps of the spin lock, of the counters and of a pop that finds     *)
(* nothing are quiet.                                                      *)
LEMMA QuietSteps ==
  ASSUME TypeOK,
         \/ \E t \in Threads : LockElement(t) \/ SpinElement(t) \/ CountWait(t)
         \/ \E p \in Producers : ReserveCountOverflow(p) \/ ReserveCountResettable(p)
         \/ \E c \in Consumers : \/ LoadOverflow(c) \/ ResetOverflow(c) \/ WriteBackOverflow(c)
                                \/ PopTest(c) \/ PopUnlock(c)
         \/ UNCHANGED vars
  PROVE  Quiet
<1> USE ThreadsAssumption
<1>1. ASSUME NEW t \in Threads, LockElement(t) PROVE Quiet
  BY <1>1 DEF Quiet, LockElement, LockFree, Goto, TypeOK, Threads, history, AfterLock
<1>2. ASSUME NEW t \in Threads, SpinElement(t) PROVE Quiet
  BY <1>2 DEF Quiet, SpinElement, Goto, TypeOK, Threads, ring, history
<1>3. ASSUME NEW t \in Threads, CountWait(t) PROVE Quiet
  BY <1>3 DEF Quiet, CountWait, Goto, TypeOK, Threads, ring, history, AfterLock
<1>4. ASSUME NEW p \in Producers, ReserveCountOverflow(p) PROVE Quiet
  BY <1>4 DEF Quiet, ReserveCountOverflow, Goto, TypeOK, Threads, ring, history
<1>5. ASSUME NEW p \in Producers, ReserveCountResettable(p) PROVE Quiet
  BY <1>5 DEF Quiet, ReserveCountResettable, Goto, TypeOK, Threads, ring, history
<1>6. ASSUME NEW c \in Consumers, LoadOverflow(c) PROVE Quiet
  BY <1>6 DEF Quiet, LoadOverflow, Goto, TypeOK, Threads, ring, history
<1>7. ASSUME NEW c \in Consumers, ResetOverflow(c) PROVE Quiet
  BY <1>7 DEF Quiet, ResetOverflow, CounterReset, Goto, TypeOK, Threads, ring
<1>8. ASSUME NEW c \in Consumers, PopTest(c) PROVE Quiet
  BY <1>8 DEF Quiet, PopTest, TailHasData, Goto, TypeOK, Threads, ring, history
<1>9. ASSUME NEW c \in Consumers, PopUnlock(c) PROVE Quiet
  BY <1>9 DEF Quiet, PopUnlock, UnlockElement, Goto, TypeOK, Threads, history
<1>10. CASE UNCHANGED vars
  BY <1>10 DEF Quiet, vars, ring, history
<1>11. ASSUME NEW c \in Consumers, WriteBackOverflow(c) PROVE Quiet
  BY <1>11 DEF Quiet, WriteBackOverflow, ring, history
<1> QED
  BY <1>1, <1>2, <1>3, <1>4, <1>5, <1>6, <1>7, <1>8, <1>9, <1>10, <1>11

(* A step is quiet or one of ten others.                                   *)
LEMMA StepCases ==
  ASSUME TypeOK, [Next]_vars
  PROVE  \/ Quiet
         \/ \E p \in Producers : \/ ReserveIncHead(p) \/ ReserveMaskHead(p) \/ ReserveTake(p)
                                \/ ReserveOverrun(p) \/ WritePrefix(p) \/ WriteArgs(p) \/ CommitPush(p)
         \/ \E c \in Consumers : PopCopy(c) \/ PopRecycle(c)
BY QuietSteps DEF Next, FinishPush, PopAndProcess, Threads

(* Only pop, having found the slot occupied, delivers anything.            *)
LEMMA PoppedStep ==
  ASSUME TypeOK, [Next]_vars
  PROVE  \/ popped' = popped
         \/ \E c \in Consumers : /\ PopCopy(c) /\ has_data[slot[c]]
                                /\ popped' = Append(popped, elements[slot[c]])
<1>1. CASE Quiet
  BY <1>1 DEF Quiet
<1>2. ASSUME NEW p \in Producers,
             \/ ReserveIncHead(p) \/ ReserveMaskHead(p) \/ ReserveTake(p)
             \/ ReserveOverrun(p) \/ WritePrefix(p) \/ WriteArgs(p) \/ CommitPush(p)
      PROVE  popped' = popped
  BY <1>2 DEF ReserveIncHead, ReserveMaskHead, ReserveTake, ReserveOverrun, WritePrefix,
    WriteArgs, CommitPush, history
<1>3. ASSUME NEW c \in Consumers, PopCopy(c) \/ PopRecycle(c)
      PROVE  \/ popped' = popped
             \/ PopCopy(c) /\ has_data[slot[c]] /\ popped' = Append(popped, elements[slot[c]])
  BY <1>3 DEF PopCopy, PopRecycle
<1> QED
  BY <1>1, <1>2, <1>3, StepCases

-----------------------------------------------------------------------------
(* No message is torn.                                                     *)

(* A push that is committed stays committed.                               *)
LEMMA CommittedStays ==
  ASSUME TypeOK, [Next]_vars, NEW n \in Nat, Committed(n)
  PROVE  Committed(n)'
<1> USE DEF Committed
<1>1. CASE Quiet
  BY <1>1 DEF Quiet
<1>2. ASSUME NEW p \in Producers, ReserveIncHead(p) PROVE Committed(n)'
  BY <1>2 DEF ReserveIncHead, Goto, TypeOK, Threads
<1>3. ASSUME NEW p \in Producers, ReserveMaskHead(p) PROVE Committed(n)'
  BY <1>3 DEF ReserveMaskHead, HeadWrapped, Goto, TypeOK, Threads, history
<1>4. ASSUME NEW p \in Producers, ReserveTake(p) \/ ReserveOverrun(p) PROVE Committed(n)'
  BY <1>4 DEF ReserveTake, ReserveOverrun, Goto, TypeOK, Threads
<1>5. ASSUME NEW p \in Producers, WritePrefix(p) \/ WriteArgs(p) PROVE Committed(n)'
  BY <1>5 DEF WritePrefix, WriteArgs, Goto, TypeOK, Threads, history
<1>6. ASSUME NEW p \in Producers, CommitPush(p) PROVE Committed(n)'
  BY <1>6 DEF CommitPush, Goto, TypeOK, Threads
<1>7. ASSUME NEW c \in Consumers, PopCopy(c) \/ PopRecycle(c) PROVE Committed(n)'
  BY <1>7, ThreadsAssumption DEF PopCopy, PopRecycle, Goto, TypeOK, Threads
<1> QED
  BY <1>1, <1>2, <1>3, <1>4, <1>5, <1>6, <1>7, StepCases

(* What a thread other than a producer finds in a slot it has locked is    *)
(* committed.                                                              *)
LEMMA LockedIsCommitted ==
  ASSUME IndInv, TornInv, NEW c \in Consumers, HoldsLock(c),
         NEW j \in DOMAIN elements[slot[c]]
  PROVE  Committed(elements[slot[c]][j])
<1>1. c \in Threads /\ slot[c] \in Slots
  BY DEF IndInv, LockPart, TypeOK, Threads, HoldsLock
<1>2. ASSUME NEW p \in Producers, Active(p), ticket[p] = elements[slot[c]][j] PROVE FALSE
  <2>1. slot[p] = slot[c] /\ HoldsLock(p) /\ p \in Threads
    BY <1>1, <1>2 DEF TornInv, HoldsLock, Threads
  <2> QED
    BY <1>1, <2>1, ThreadsAssumption DEF IndInv, LockPart, MutualExclusion
<1> QED
  BY <1>1, <1>2 DEF TornInv, Committed, Active

(* Every part of a text in a slot after a producer wrote to it was there   *)
(* before, or is the producer's own in the slot it has locked.             *)
LEMMA WrittenParts ==
  ASSUME IndInv, NEW p \in Producers, WritePrefix(p) \/ WriteArgs(p),
         NEW i \in Slots, NEW j \in DOMAIN elements'[i]
  PROVE  \/ j \in DOMAIN elements[i] /\ elements'[i][j] = elements[i][j]
         \/ i = slot[p] /\ elements'[i][j] = ticket[p] /\ HasRoom(p)
<1>1. /\ slot[p] \in Slots /\ elements \in [Slots -> Texts] /\ ticket[p] \in Nat
      /\ WritePart(p)
  BY DEF IndInv, LockPart, TypeOK, Threads, WritePrefix, WriteArgs
<1>2. CASE i = slot[p] /\ HasRoom(p)
  <2>1. elements'[i] = Append(elements[i], ticket[p]) /\ elements[i] \in Seq(Nat)
    BY <1>1, <1>2 DEF WritePart, Texts
  <2> QED
    BY <1>1, <1>2, <2>1
<1>3. CASE ~(i = slot[p] /\ HasRoom(p))
  <2>1. elements'[i] = elements[i]
    BY <1>1, <1>3 DEF WritePart
  <2> QED
    BY <2>1
<1> QED
  BY <1>2, <1>3

(* Every step keeps the parts in a slot committed or their push at work.   *)
LEMMA TornStep == IndInv /\ TornInv /\ [Next]_vars => TornInv'
<1> SUFFICES ASSUME IndInv, TornInv, [Next]_vars PROVE TornInv'
  OBVIOUS
<1> DEFINE Parts ==
      \A i \in Slots : \A j \in DOMAIN elements[i] :
        /\ elements[i][j] < pushes
        /\ \A p \in Producers : Active(p) /\ ticket[p] = elements[i][j] =>
             slot[p] = i /\ pc[p] \in {"args", "commit"}
<1>0. TypeOK /\ Parts
  BY DEF IndInv, LockPart, TornInv
<1>a. \A i \in Slots : \A j \in DOMAIN elements[i] : elements[i][j] \in Nat
  BY <1>0 DEF TypeOK, Texts
<1>1. Parts'
  <2> USE <1>0, <1>a, ThreadsAssumption DEF Active
  <2>1. CASE Quiet
    BY <2>1 DEF Quiet
  <2>2. ASSUME NEW p \in Producers, ReserveIncHead(p) PROVE Parts'
    BY <2>2 DEF ReserveIncHead, Goto, TypeOK, Threads
  <2>3. ASSUME NEW p \in Producers, ReserveMaskHead(p) PROVE Parts'
    BY <2>3 DEF ReserveMaskHead, HeadWrapped, Goto, TypeOK, Threads, history
  <2>4. ASSUME NEW p \in Producers, ReserveTake(p) PROVE Parts'
    BY <2>4 DEF ReserveTake, Goto, TypeOK, Threads
  <2>5. ASSUME NEW p \in Producers, ReserveOverrun(p) PROVE Parts'
    BY <2>5 DEF ReserveOverrun, Goto, TypeOK, Threads, ring
  <2>6. ASSUME NEW p \in Producers, WritePrefix(p) \/ WriteArgs(p) PROVE Parts'
    <3> SUFFICES ASSUME NEW i \in Slots, NEW j \in DOMAIN elements'[i]
                 PROVE  /\ elements'[i][j] < pushes'
                        /\ \A q \in Producers : pc'[q] # "idle" /\ ticket'[q] = elements'[i][j] =>
                             slot'[q] = i /\ pc'[q] \in {"args", "commit"}
      OBVIOUS
    <3>1. /\ UNCHANGED <<slot, ticket, pushes>>
          /\ \A q \in Producers \ {p} : pc'[q] = pc[q]
          /\ pc'[p] \in {"args", "commit"} /\ pc[p] \in {"prefix", "args"}
      BY <2>6 DEF WritePrefix, WriteArgs, Goto, TypeOK, Threads, history
    <3>2. CASE j \in DOMAIN elements[i] /\ elements'[i][j] = elements[i][j]
      BY <3>1, <3>2
    <3>3. CASE i = slot[p] /\ elements'[i][j] = ticket[p]
      BY <3>1, <3>3 DEF IndInv, TicketInv
    <3> QED
      BY <2>6, <3>2, <3>3, WrittenParts
  <2>7. ASSUME NEW p \in Producers, CommitPush(p) PROVE Parts'
    BY <2>7 DEF CommitPush, Goto, TypeOK, Threads
  <2>8. ASSUME NEW c \in Consumers, PopCopy(c) PROVE Parts'
    BY <2>8 DEF PopCopy, Goto, TypeOK, Threads
  <2>9. ASSUME NEW c \in Consumers, PopRecycle(c) PROVE Parts'
    <3>1. \A i \in Slots : elements'[i] = IF i = slot[c] THEN <<>> ELSE elements[i]
      BY <2>9 DEF PopRecycle, Recycle, TypeOK, Threads
    <3>2. UNCHANGED <<slot, ticket, pushes>> /\ \A q \in Producers : pc'[q] = pc[q]
      BY <2>9 DEF PopRecycle, Goto, TypeOK, Threads
    <3> QED
      BY <3>1, <3>2
  <2> HIDE DEF Parts
  <2> QED
    BY <2>1, <2>2, <2>3, <2>4, <2>5, <2>6, <2>7, <2>8, <2>9, StepCases
<1>2. NoTornMessage'
  <2> SUFFICES ASSUME NEW k \in DOMAIN popped', NEW j \in DOMAIN popped'[k],
                      NEW n, n = popped'[k][j]
               PROVE  Committed(n)'
    BY DEF NoTornMessage, Committed
  <2>1. popped \in Seq(Texts)
    BY <1>0 DEF TypeOK
  <2>2. CASE k \in DOMAIN popped /\ popped'[k] = popped[k]
    <3>1. Committed(n) /\ n \in Nat
      BY <2>1, <2>2 DEF TornInv, NoTornMessage, Texts
    <3> QED
      BY <1>0, <3>1, CommittedStays
  <2>3. CASE \E c \in Consumers : PopCopy(c) /\ has_data[slot[c]] /\ popped'[k] = elements[slot[c]]
    <3>1. PICK c \in Consumers : PopCopy(c) /\ has_data[slot[c]] /\ popped'[k] = elements[slot[c]]
      BY <2>3
    <3>2. HoldsLock(c) /\ slot[c] \in Slots
      BY <1>0, <3>1 DEF PopCopy, HoldsLock, TypeOK, Threads
    <3>3. Committed(n) /\ n \in Nat
      BY <1>a, <3>1, <3>2, LockedIsCommitted
    <3> QED
      BY <1>0, <3>3, CommittedStays
  <2>4. CASE popped' = popped
    BY <2>2, <2>4
  <2>5. ASSUME NEW c \in Consumers, PopCopy(c), has_data[slot[c]],
               popped' = Append(popped, elements[slot[c]])
        PROVE  Committed(n)'
    <3>1. elements[slot[c]] \in Texts
      BY <1>0, <2>5 DEF PopCopy, TypeOK, Threads
    <3>2. \/ k \in DOMAIN popped /\ popped'[k] = popped[k]
          \/ popped'[k] = elements[slot[c]]
      BY <2>1, <2>5, <3>1
    <3> QED
      BY <2>2, <2>3, <2>5, <3>2
  <2> QED
    BY <1>0, <2>4, <2>5, PoppedStep
<1> QED
  BY <1>1, <1>2 DEF TornInv

-----------------------------------------------------------------------------
(* Every push is in one place.                                             *)

(* The channel never has a message in two places.                          *)
LEMMA OnePlaceStep ==
  ASSUME OnePlace, DeliveredSeq \in Seq(Nat), [Channel!Next]_(Channel!vars)
  PROVE  /\ OnePlace'
         /\ Buffered \cup lost \cup DeliveredSet \subseteq Buffered' \cup lost' \cup DeliveredSet'
<1> DEFINE Goal == /\ OnePlace'
                   /\ Buffered \cup lost \cup DeliveredSet \subseteq Buffered' \cup lost' \cup DeliveredSet'
<1> USE DEF OnePlace
<1>1. ASSUME NEW m, Channel!Accept(m) PROVE Goal
  BY <1>1 DEF Channel!Accept, Channel!Fresh, DeliveredSet
<1>2. ASSUME NEW m, Channel!Overrun(m) PROVE Goal
  BY <1>2 DEF Channel!Overrun, Channel!Fresh, DeliveredSet
<1>3. ASSUME NEW m \in Nat, Channel!Deliver(m) PROVE Goal
  <2>1. /\ m \in Buffered /\ Buffered' = Buffered \ {m} /\ lost' = lost
        /\ DeliveredSeq' = Append(DeliveredSeq, m)
    BY <1>3 DEF Channel!Deliver
  <2>2. /\ DOMAIN DeliveredSeq = 1..Len(DeliveredSeq) /\ Len(DeliveredSeq) \in Nat
        /\ DOMAIN DeliveredSeq' = 1..(Len(DeliveredSeq) + 1)
        /\ \A k \in 1..Len(DeliveredSeq) : DeliveredSeq'[k] = DeliveredSeq[k]
        /\ DeliveredSeq'[Len(DeliveredSeq) + 1] = m
    BY <2>1
  <2>3. DeliveredSet' = DeliveredSet \cup {m}
    BY <2>2 DEF DeliveredSet
  <2>4. m \notin DeliveredSet /\ m \notin lost
    BY <2>1
  <2>5. \A k, l \in DOMAIN DeliveredSeq' : DeliveredSeq'[k] = DeliveredSeq'[l] => k = l
    BY <2>2, <2>4 DEF DeliveredSet
  <2> QED
    BY <2>1, <2>3, <2>4, <2>5
<1>4. CASE UNCHANGED Channel!vars
  BY <1>4 DEF Channel!vars, DeliveredSet
<1> QED
  BY <1>1, <1>2, <1>3, <1>4 DEF Channel!Next

(* A push leaves the wait for its slot only by test_and_set.               *)
LEMMA WaitingStep ==
  ASSUME TypeOK, [Next]_vars, NEW p \in Producers, Unplaced(p), ~ReserveTake(p), ~ReserveOverrun(p)
  PROVE  Unplaced(p)' /\ ticket'[p] = ticket[p]
<1> USE ThreadsAssumption DEF Unplaced
<1> DEFINE Goal == Unplaced(p)' /\ ticket'[p] = ticket[p]
<1>1. CASE Quiet
  BY <1>1 DEF Quiet
<1>2. ASSUME NEW q \in Producers, ReserveIncHead(q) PROVE Goal
  BY <1>2 DEF ReserveIncHead, Goto, TypeOK, Threads
<1>3. ASSUME NEW q \in Producers, ReserveMaskHead(q) PROVE Goal
  BY <1>3 DEF ReserveMaskHead, Goto, TypeOK, Threads, history
<1>4. ASSUME NEW q \in Producers, ReserveTake(q) \/ ReserveOverrun(q) PROVE Goal
  BY <1>4 DEF ReserveTake, ReserveOverrun, Goto, TypeOK, Threads
<1>5. ASSUME NEW q \in Producers, WritePrefix(q) \/ WriteArgs(q) PROVE Goal
  BY <1>5 DEF WritePrefix, WriteArgs, Goto, TypeOK, Threads, history
<1>6. ASSUME NEW q \in Producers, CommitPush(q) PROVE Goal
  BY <1>6 DEF CommitPush, Goto, TypeOK, Threads
<1>7. ASSUME NEW c \in Consumers, PopCopy(c) \/ PopRecycle(c) PROVE Goal
  BY <1>7 DEF PopCopy, PopRecycle, Goto, TypeOK, Threads
<1> QED
  BY <1>1, <1>2, <1>3, <1>4, <1>5, <1>6, <1>7, StepCases

(* A step that gives out a ticket makes its push wait.                     *)
LEMMA PushesStep ==
  ASSUME TypeOK, [Next]_vars
  PROVE  \/ pushes' = pushes
         \/ \E p \in Producers : pushes' = pushes + 1 /\ Unplaced(p)' /\ ticket'[p] = pushes
<1> DEFINE Goal == \/ pushes' = pushes
                   \/ \E p \in Producers : pushes' = pushes + 1 /\ Unplaced(p)' /\ ticket'[p] = pushes
<1>1. ASSUME NEW p \in Producers, ReserveIncHead(p) PROVE Goal
  BY <1>1 DEF ReserveIncHead, Goto, TypeOK, Threads, Unplaced
<1>2. ASSUME NEW p \in Producers,
             \/ ReserveMaskHead(p) \/ ReserveTake(p)
             \/ ReserveOverrun(p) \/ WritePrefix(p) \/ WriteArgs(p) \/ CommitPush(p)
      PROVE  Goal
  BY <1>2 DEF ReserveMaskHead, ReserveTake, ReserveOverrun, WritePrefix, WriteArgs, CommitPush,
    history
<1>3. ASSUME NEW c \in Consumers, PopCopy(c) \/ PopRecycle(c) PROVE Goal
  BY <1>3 DEF PopCopy, PopRecycle
<1>4. CASE Quiet
  BY <1>4 DEF Quiet
<1> QED
  BY <1>1, <1>2, <1>3, <1>4, StepCases

(* The pushes that wait are those before test_and_set.                     *)
LEMMA WaitingIsUnplaced == Waiting = {ticket[p] : p \in {q \in Producers : Unplaced(q)}}
BY DEF Waiting, Unplaced

(* The delivered pushes are a sequence of numbers.                         *)
LEMMA DeliveredType ==
  ASSUME IndInv
  PROVE  DeliveredSeq \in Seq(Nat) /\ Len(DeliveredSeq) = Len(popped)
<1>1. popped \in Seq(Texts) /\ \A k \in DOMAIN popped : popped[k] # <<>>
  BY DEF IndInv, LockPart, TypeOK, OwnerInv
<1>2. \A k \in DOMAIN popped : popped[k][1] \in Nat
  BY <1>1 DEF Texts
<1> QED
  BY <1>1, <1>2 DEF DeliveredSeq

(* Every step keeps every push in one place.                               *)
LEMMA PlaceStep == IndInv /\ PlaceInv /\ [Next]_vars => PlaceInv'
<1> SUFFICES ASSUME IndInv, PlaceInv, [Next]_vars PROVE PlaceInv'
  OBVIOUS
<1>0. TypeOK
  BY DEF IndInv, LockPart
<1>1. /\ OnePlace'
      /\ Buffered \cup lost \cup DeliveredSet \subseteq Buffered' \cup lost' \cup DeliveredSet'
  BY ChannelStep, DeliveredType, OnePlaceStep DEF PlaceInv
<1>2. ASSUME NEW n \in 0..(pushes' - 1)
      PROVE  n \in Waiting' \cup Buffered' \cup lost' \cup DeliveredSet'
  <2>1. CASE n \in Buffered \cup lost \cup DeliveredSet
    BY <1>1, <2>1
  <2>2. CASE n \in Waiting
    <3>1. PICK p \in Producers : Unplaced(p) /\ ticket[p] = n
      BY <2>2, WaitingIsUnplaced
    <3>2. CASE ReserveTake(p)
      BY <3>1, <3>2, TakeAccepts DEF Channel!Accept
    <3>3. CASE ReserveOverrun(p)
      BY <3>1, <3>3, OverrunOverruns DEF Channel!Overrun
    <3>4. CASE ~ReserveTake(p) /\ ~ReserveOverrun(p)
      <4>1. Unplaced(p)' /\ ticket'[p] = n
        BY <1>0, <3>1, <3>4, WaitingStep
      <4> QED
        BY <4>1 DEF Waiting, Unplaced
    <3> QED
      BY <3>2, <3>3, <3>4
  <2>3. CASE n \notin 0..(pushes - 1)
    <3>1. pushes \in Nat
      BY <1>0, BoundsAssumption DEF TypeOK
    <3>2. \E p \in Producers : Unplaced(p)' /\ ticket'[p] = n
      BY <1>0, <2>3, <3>1, PushesStep
    <3> QED
      BY <3>2 DEF Waiting, Unplaced
  <2> QED
    BY <2>1, <2>2, <2>3 DEF PlaceInv, EveryPush
<1> QED
  BY <1>1, <1>2 DEF PlaceInv, EveryPush

(* Different things with different images are as many as their images.     *)
LEMMA SameNumber ==
  ASSUME NEW A, IsFiniteSet(A), NEW B, NEW f \in [A -> B],
         \A x, y \in A : f[x] = f[y] => x = y,
         \A z \in B : \E x \in A : f[x] = z
  PROVE  IsFiniteSet(B) /\ Cardinality(B) = Cardinality(A)
<1>1. f \in Surjection(A, B) /\ f \in Injection(A, B)
  BY Fun_IsInj, Fun_IsSurj
<1> QED
  BY <1>1, FS_Surjection

(* The union of the four places, indexed.                                  *)
LEMMA PlacesUnion ==
  ASSUME NEW A, NEW B, NEW C, NEW D
  PROVE  UNION {<<A, B, C, D>>[i] : i \in 1..4} = A \cup B \cup C \cup D
<1> DEFINE places == <<A, B, C, D>>
<1>1. 1..4 = {1, 2, 3, 4}
  OBVIOUS
<1>2. places[1] = A /\ places[2] = B /\ places[3] = C /\ places[4] = D
  OBVIOUS
<1> HIDE DEF places
<1>3. UNION {places[i] : i \in 1..4} = places[1] \cup places[2] \cup places[3] \cup places[4]
  BY <1>1
<1> QED
  BY <1>2, <1>3 DEF places

(* Conservation, without the index.                                        *)
LEMMA Conserved ==
  ASSUME Conservation
  PROVE  LET delivered == {popped[k][1] : k \in DOMAIN popped}
         IN /\ Waiting \cup Buffered \cup lost \cup delivered = 0..(pushes - 1)
            /\ Cardinality(delivered) = Len(popped)
<1> DEFINE delivered == {popped[k][1] : k \in DOMAIN popped}
           places == <<Waiting, Buffered, lost, delivered>>
<1>1. UNION {places[i] : i \in 1..4} = 0..(pushes - 1) /\ Cardinality(delivered) = Len(popped)
  BY Zenon DEF Conservation
<1> HIDE DEF delivered
<1>2. UNION {places[i] : i \in 1..4} = Waiting \cup Buffered \cup lost \cup delivered
  BY PlacesUnion, SMT
<1> QED
  BY <1>1, <1>2, Zenon DEF delivered

(* The invariant implies that nothing is lost without being counted, and   *)
(* nothing delivered twice.                                                *)
LEMMA PlacesConserved == IndInv /\ PlaceInv => Conservation
<1> SUFFICES ASSUME IndInv, PlaceInv PROVE Conservation
  OBVIOUS
<1> DEFINE delivered == {popped[k][1] : k \in DOMAIN popped}
<1>0. TypeOK /\ pushes \in Nat /\ popped \in Seq(Texts)
  BY BoundsAssumption DEF IndInv, LockPart, TypeOK
<1>1. delivered = DeliveredSet
  BY DEF DeliveredSet, DeliveredSeq
<1>2. /\ Buffered \cap lost = {} /\ Buffered \cap delivered = {} /\ lost \cap delivered = {}
      /\ \A n \in 0..(pushes - 1) : n \in Waiting \cup Buffered \cup lost \cup delivered
  BY <1>1 DEF PlaceInv, OnePlace, EveryPush
<1>3. ASSUME NEW n \in Waiting
      PROVE  n \in 0..(pushes - 1) /\ n \notin Buffered /\ n \notin lost /\ n \notin delivered
  <2>1. PICK p \in Producers : Unplaced(p) /\ n = ticket[p]
    BY WaitingIsUnplaced
  <2>2. n \in Nat /\ n < pushes
    BY <1>0, <2>1 DEF TypeOK, IndInv, TicketInv, Active, Unplaced
  <2>3. n \notin Buffered /\ n \notin lost /\ n \notin delivered
    BY <2>1 DEF IndInv, OwnerInv, Buffered
  <2> QED
    BY <1>0, <2>2, <2>3
<1>4. Buffered \subseteq 0..(pushes - 1)
  BY <1>0 DEF IndInv, OwnerInv, Buffered, TypeOK, Occupied
<1>5. delivered \subseteq 0..(pushes - 1)
  <2>1. \A k \in DOMAIN popped : popped[k][1] \in Nat /\ popped[k][1] < pushes
    BY <1>0 DEF IndInv, OwnerInv, Texts
  <2> QED
    BY <1>0, <2>1
<1>6. lost \subseteq 0..(pushes - 1)
  BY DEF IndInv, OwnerInv
<1> DEFINE places == <<Waiting, Buffered, lost, delivered>>
<1>7. UNION {places[i] : i \in 1..4} = 0..(pushes - 1)
  <2>1. Waiting \cup Buffered \cup lost \cup delivered = 0..(pushes - 1)
    BY <1>2, <1>3, <1>4, <1>5, <1>6
  <2> QED
    BY <2>1, PlacesUnion
<1>8. \A i, j \in 1..4 : i # j => places[i] \cap places[j] = {}
  <2> HIDE DEF delivered
  <2>1. Waiting \cap Buffered = {} /\ Waiting \cap lost = {} /\ Waiting \cap delivered = {}
    BY <1>3
  <2> QED
    BY <1>2, <2>1
<1>9. Cardinality(Buffered) = Cardinality(Occupied \ Copied)
  <2> DEFINE A == Occupied \ Copied
             f == [i \in A |-> owner[i]]
  <2>1. IsFiniteSet(A)
    <3>1. IsFiniteSet(Slots)
      BY FS_Interval, CapacityPositive DEF Slots
    <3>2. A \in SUBSET Slots
      BY DEF Occupied
    <3> QED
      BY <3>1, <3>2, FS_Subset
  <2>2. f \in [A -> Buffered] /\ \A z \in Buffered : \E x \in A : f[x] = z
    BY DEF Buffered
  <2>3. \A x, y \in A : f[x] = f[y] => x = y
    BY DEF IndInv, OwnerInv
  <2> HIDE DEF A, f
  <2>4. Cardinality(Buffered) = Cardinality(A)
    BY <2>1, <2>2, <2>3, SameNumber
  <2> QED
    BY <2>4 DEF A
<1>10. Cardinality(delivered) = Len(popped)
  <2> DEFINE A == 1..Len(popped)
             f == [k \in A |-> popped[k][1]]
  <2>1. IsFiniteSet(A) /\ Cardinality(A) = Len(popped) /\ A = DOMAIN popped
    <3>1. Len(popped) \in Nat /\ A = DOMAIN popped
      BY <1>0
    <3>2. IsFiniteSet(A) /\ Cardinality(A) = IF 1 > Len(popped) THEN 0 ELSE Len(popped) - 1 + 1
      BY <3>1, FS_Interval
    <3> QED
      BY <3>1, <3>2
  <2>2. f \in [A -> DeliveredSet] /\ \A z \in DeliveredSet : \E x \in A : f[x] = z
    BY <1>1, <2>1
  <2>3. \A x, y \in A : f[x] = f[y] => x = y
    BY <2>1 DEF PlaceInv, OnePlace, DeliveredSeq
  <2> HIDE DEF A, f
  <2>4. IsFiniteSet(A)
    BY <2>1
  <2>5. Cardinality(DeliveredSet) = Cardinality(A)
    BY <2>2, <2>3, <2>4, SameNumber
  <2> QED
    BY <1>1, <2>1, <2>5
<1> QED
  BY <1>7, <1>8, <1>9, <1>10 DEF Conservation

-----------------------------------------------------------------------------
(* The overflow counters.                                                  *)

(* However many producers there are, finitely many are in a push: each has *)
(* its own ticket.                                                         *)
LEMMA ActiveFinite ==
  ASSUME IndInv
  PROVE  IsFiniteSet({p \in Producers : Active(p)})
<1> DEFINE A == {p \in Producers : Active(p)}
           T == 0..(pushes - 1)
           f == [p \in A |-> ticket[p]]
<1>1. pushes \in Nat /\ ticket \in [Producers -> Nat]
  BY BoundsAssumption DEF IndInv, LockPart, TypeOK
<1>2. IsFiniteSet(T)
  BY <1>1, FS_Interval
<1>3. \A p \in A : f[p] \in T
  BY <1>1 DEF IndInv, TicketInv
<1>4. f \in [A -> T]
  BY <1>3
<1>5. \A p, q \in A : f[p] = f[q] => p = q
  BY DEF IndInv, TicketInv
<1> HIDE DEF A, T, f
<1>6. f \in Injection(A, T)
  BY <1>4, <1>5, Fun_IsInj
<1>7. IsFiniteSet(A)
  BY <1>2, <1>6, FS_Injection
<1> QED
  BY <1>7 DEF A

(* The sets that are counted are finite.                                   *)
LEMMA CountsFinite ==
  ASSUME IndInv
  PROVE  /\ IsFiniteSet(Counting) /\ Cardinality(Counting) \in Nat
         /\ IsFiniteSet(CountingAgain) /\ Cardinality(CountingAgain) \in Nat
         /\ IsFiniteSet(lost) /\ Cardinality(lost) \in Nat
<1>1. /\ Counting \in SUBSET {p \in Producers : Active(p)}
      /\ CountingAgain \in SUBSET {p \in Producers : Active(p)}
  BY DEF Counting, CountingAgain, Active
<1>2. IsFiniteSet(Counting) /\ IsFiniteSet(CountingAgain)
  BY <1>1, ActiveFinite, FS_Subset
<1>3. IsFiniteSet(lost)
  <2>1. pushes \in Nat /\ lost \in SUBSET (0..(pushes - 1))
    BY BoundsAssumption DEF IndInv, LockPart, TypeOK, OwnerInv
  <2>2. IsFiniteSet(0..(pushes - 1))
    BY <2>1, FS_Interval
  <2> QED
    BY <2>1, <2>2, FS_Subset
<1> QED
  BY <1>2, <1>3, FS_CardinalityType

(* What the steps do that touch no counter.                                *)
LEMMA CountersKept ==
  ASSUME TypeOK, [Next]_vars,
         \A p \in Producers : ~ReserveOverrun(p) /\ ~ReserveCountOverflow(p) /\ ~ReserveCountResettable(p),
         \A c \in Consumers : ~LoadOverflow(c) /\ ~ResetOverflow(c) /\ ~WriteBackOverflow(c)
  PROVE  /\ UNCHANGED <<lost, overflow_counter, resettable_overflow_counter, reported, loaded>>
         /\ UNCHANGED <<Counting, CountingAgain>>
         /\ \A c \in Consumers : pc'[c] = "reset" => pc[c] = "reset"
<1> USE ThreadsAssumption
<1> DEFINE Kept == UNCHANGED <<lost, overflow_counter, resettable_overflow_counter, reported, loaded>>
           Goal == /\ Kept
                   /\ \A p \in Producers : /\ (pc'[p] = "count") <=> (pc[p] = "count")
                                           /\ (pc'[p] = "count_resettable") <=> (pc[p] = "count_resettable")
                   /\ \A c \in Consumers : pc'[c] = "reset" => pc[c] = "reset"
<1>1. ASSUME NEW p \in Producers, ReserveIncHead(p) PROVE Goal
  BY <1>1 DEF ReserveIncHead, Goto, TypeOK, Threads, overflows
<1>2. ASSUME NEW p \in Producers, ReserveMaskHead(p) PROVE Goal
  BY <1>2 DEF ReserveMaskHead, Goto, TypeOK, Threads, overflows, history
<1>3. ASSUME NEW p \in Producers, ReserveTake(p) PROVE Goal
  BY <1>3 DEF ReserveTake, Goto, TypeOK, Threads, overflows
<1>4. ASSUME NEW p \in Producers, WritePrefix(p) PROVE Goal
  BY <1>4 DEF WritePrefix, Goto, TypeOK, Threads, overflows, history
<1>5. ASSUME NEW p \in Producers, WriteArgs(p) PROVE Goal
  BY <1>5 DEF WriteArgs, Goto, TypeOK, Threads, overflows, history
<1>6. ASSUME NEW p \in Producers, CommitPush(p) PROVE Goal
  BY <1>6 DEF CommitPush, Goto, TypeOK, Threads, overflows
<1>7. ASSUME NEW t \in Threads, LockElement(t) PROVE Goal
  BY <1>7 DEF LockElement, Goto, TypeOK, Threads, overflows, history, AfterLock
<1>8. ASSUME NEW t \in Threads, SpinElement(t) PROVE Goal
  BY <1>8 DEF SpinElement, Goto, TypeOK, Threads, overflows, history
<1>9. ASSUME NEW t \in Threads, CountWait(t) PROVE Goal
  BY <1>9 DEF CountWait, Goto, TypeOK, Threads, overflows, history, AfterLock
<1>10. ASSUME NEW c \in Consumers, PopTest(c) PROVE Goal
  BY <1>10 DEF PopTest, Goto, TypeOK, Threads, overflows, history
<1>11. ASSUME NEW c \in Consumers, PopCopy(c) PROVE Goal
  BY <1>11 DEF PopCopy, Goto, TypeOK, Threads, overflows
<1>12. ASSUME NEW c \in Consumers, PopRecycle(c) PROVE Goal
  BY <1>12 DEF PopRecycle, Goto, TypeOK, Threads, overflows
<1>13. ASSUME NEW c \in Consumers, PopUnlock(c) PROVE Goal
  BY <1>13 DEF PopUnlock, Goto, TypeOK, Threads, overflows, history
<1>14. ASSUME UNCHANGED vars PROVE Goal
  BY <1>14 DEF vars, overflows, history
<1>15. Goal
  <2> HIDE DEF Goal
  <2>1. CASE UNCHANGED vars
    BY <1>14, <2>1
  <2>2. CASE Next
    BY <2>2, <1>1, <1>2, <1>3, <1>4, <1>5, <1>6, <1>7, <1>8, <1>9, <1>10, <1>11, <1>12, <1>13
      DEF Next, FinishPush, PopAndProcess, Threads
  <2> QED
    BY <2>1, <2>2
<1>16. Counting' = Counting /\ CountingAgain' = CountingAgain
  BY <1>15 DEF Counting, CountingAgain
<1> QED
  BY <1>15, <1>16

(* Counting an overrun is one step: lost, then counted.                    *)
LEMMA OverrunCounted ==
  ASSUME IndInv, NEW p \in Producers, ReserveOverrun(p)
  PROVE  /\ Cardinality(lost') = Cardinality(lost) + 1
         /\ Cardinality(Counting') = Cardinality(Counting) + 1
         /\ CountingAgain' = CountingAgain
         /\ UNCHANGED <<overflow_counter, resettable_overflow_counter, reported, loaded>>
         /\ \A c \in Consumers : pc'[c] = pc[c]
<1>1. /\ pc[p] = "test_and_set" /\ lost' = lost \cup {ticket[p]}
      /\ pc' = [pc EXCEPT ![p] = "count"] /\ pc \in [Threads -> ProducerLabels \cup ConsumerLabels]
      /\ UNCHANGED <<overflow_counter, resettable_overflow_counter, reported, loaded>>
  BY DEF ReserveOverrun, Goto, overflows, IndInv, LockPart, TypeOK
<1>2. ticket[p] \notin lost
  BY <1>1 DEF IndInv, OwnerInv, Unplaced
<1>3. Counting' = Counting \cup {p} /\ p \notin Counting /\ CountingAgain' = CountingAgain
  BY <1>1 DEF Counting, CountingAgain, Threads
<1>4. \A c \in Consumers : pc'[c] = pc[c]
  BY <1>1, ThreadsAssumption DEF Threads
<1> QED
  BY <1>1, <1>2, <1>3, <1>4, CountsFinite, FS_AddElement

(* overflow_counter.inc()                                                  *)
LEMMA OverflowCounted ==
  ASSUME IndInv, NEW p \in Producers, ReserveCountOverflow(p)
  PROVE  /\ overflow_counter' = overflow_counter + 1
         /\ Cardinality(Counting') = Cardinality(Counting) - 1
         /\ Cardinality(CountingAgain') = Cardinality(CountingAgain) + 1
         /\ UNCHANGED <<lost, resettable_overflow_counter, reported, loaded>>
         /\ \A c \in Consumers : pc'[c] = pc[c]
<1>1. /\ pc[p] = "count" /\ overflow_counter' = overflow_counter + 1
      /\ pc' = [pc EXCEPT ![p] = "count_resettable"]
      /\ pc \in [Threads -> ProducerLabels \cup ConsumerLabels]
      /\ UNCHANGED <<lost, resettable_overflow_counter, reported, loaded>>
  BY DEF ReserveCountOverflow, Goto, history, IndInv, LockPart, TypeOK
<1>2. /\ Counting' = Counting \ {p} /\ p \in Counting
      /\ CountingAgain' = CountingAgain \cup {p} /\ p \notin CountingAgain
  BY <1>1 DEF Counting, CountingAgain, Threads
<1>3. \A c \in Consumers : pc'[c] = pc[c]
  BY <1>1, ThreadsAssumption DEF Threads
<1> QED
  BY <1>1, <1>2, <1>3, CountsFinite, FS_AddElement, FS_RemoveElement

(* resettable_overflow_counter.inc()                                       *)
LEMMA ResettableCounted ==
  ASSUME IndInv, NEW p \in Producers, ReserveCountResettable(p)
  PROVE  /\ resettable_overflow_counter' = resettable_overflow_counter + 1
         /\ Counting' = Counting
         /\ Cardinality(CountingAgain') = Cardinality(CountingAgain) - 1
         /\ UNCHANGED <<lost, overflow_counter, reported, loaded>>
         /\ \A c \in Consumers : pc'[c] = pc[c]
<1>1. /\ pc[p] = "count_resettable" /\ resettable_overflow_counter' = resettable_overflow_counter + 1
      /\ pc' = [pc EXCEPT ![p] = "prefix"]
      /\ pc \in [Threads -> ProducerLabels \cup ConsumerLabels]
      /\ UNCHANGED <<lost, overflow_counter, reported, loaded>>
  BY DEF ReserveCountResettable, Goto, history, IndInv, LockPart, TypeOK
<1>2. /\ Counting' = Counting
      /\ CountingAgain' = CountingAgain \ {p} /\ p \in CountingAgain
  BY <1>1 DEF Counting, CountingAgain, Threads
<1>3. \A c \in Consumers : pc'[c] = pc[c]
  BY <1>1, ThreadsAssumption DEF Threads
<1> QED
  BY <1>1, <1>2, <1>3, CountsFinite, FS_RemoveElement

(* The two steps of get_and_reset_overflow_counter.                        *)
LEMMA OverflowReported ==
  ASSUME TypeOK, NEW c \in Consumers, LoadOverflow(c) \/ ResetOverflow(c)
  PROVE  /\ UNCHANGED <<lost, overflow_counter, Counting, CountingAgain>>
         /\ \A d \in Consumers \ {c} : pc'[d] = pc[d] /\ loaded'[d] = loaded[d]
         /\ \/ /\ pc'[c] = "reset" /\ loaded'[c] = resettable_overflow_counter
               /\ UNCHANGED <<reported, resettable_overflow_counter>>
            \/ /\ pc[c] = "reset" /\ pc'[c] # "reset" /\ reported' = reported + loaded[c]
               /\ resettable_overflow_counter' = 0
<1> USE ThreadsAssumption
<1>1. CASE LoadOverflow(c)
  BY <1>1 DEF LoadOverflow, Goto, TypeOK, Threads, overflows, history, Counting, CountingAgain
<1>2. CASE ResetOverflow(c)
  BY <1>2 DEF ResetOverflow, CounterReset, Goto, TypeOK, Threads, Counting, CountingAgain
<1> QED
  BY <1>1, <1>2

(* A store that is tried again only loses increments.                      *)
LEMMA WrittenBack ==
  ASSUME TypeOK, NEW c \in Consumers, WriteBackOverflow(c)
  PROVE  /\ UNCHANGED <<lost, overflow_counter, Counting, CountingAgain, reported, loaded, pc>>
         /\ pc[c] = "reset" /\ loaded[c] <= resettable_overflow_counter'
         /\ resettable_overflow_counter' <= resettable_overflow_counter
         /\ resettable_overflow_counter' \in Nat
BY DEF WriteBackOverflow, TypeOK, history, Counting, CountingAgain

(* Every step counts each overrun once.                                    *)
LEMMA CountStep == IndInv /\ CountInv /\ [Next]_vars => CountInv'
<1> SUFFICES ASSUME IndInv, CountInv, [Next]_vars PROVE CountInv'
  OBVIOUS
<1> USE CountsFinite DEF CountInv
<1>0. TypeOK /\ overflow_counter \in Nat
  BY DEF IndInv, LockPart, TypeOK
<1>1. ASSUME NEW p \in Producers, ReserveOverrun(p) PROVE CountInv'
  BY <1>0, <1>1, OverrunCounted
<1>2. ASSUME NEW p \in Producers, ReserveCountOverflow(p) PROVE CountInv'
  BY <1>0, <1>2, OverflowCounted
<1>3. ASSUME NEW p \in Producers, ReserveCountResettable(p) PROVE CountInv'
  BY <1>3, ResettableCounted
<1>4. ASSUME NEW c \in Consumers, LoadOverflow(c) \/ ResetOverflow(c) PROVE CountInv'
  BY <1>0, <1>4, OverflowReported
<1>5. ASSUME NEW c \in Consumers, WriteBackOverflow(c) PROVE CountInv'
  BY <1>0, <1>5, WrittenBack
<1> QED
  BY <1>0, <1>1, <1>2, <1>3, <1>4, <1>5, CountersKept

(* With one consumer at a time every step reports an overrun at most once. *)
LEMMA ReportStep == IndInv /\ OnePops /\ ReportInv /\ [Next]_vars => ReportInv'
<1> SUFFICES ASSUME IndInv, OnePops, ReportInv, [Next]_vars PROVE ReportInv'
  OBVIOUS
<1> USE CountsFinite DEF ReportInv
<1>0. /\ TypeOK /\ overflow_counter \in Nat /\ resettable_overflow_counter \in Nat
      /\ reported \in Nat /\ \A c \in Consumers : loaded[c] \in Nat
  BY DEF IndInv, LockPart, TypeOK
<1>1. ASSUME NEW p \in Producers, ReserveOverrun(p) PROVE ReportInv'
  BY <1>0, <1>1, OverrunCounted
<1>2. ASSUME NEW p \in Producers, ReserveCountOverflow(p) PROVE ReportInv'
  BY <1>0, <1>2, OverflowCounted
<1>3. ASSUME NEW p \in Producers, ReserveCountResettable(p) PROVE ReportInv'
  BY <1>0, <1>3, ResettableCounted
<1>4. ASSUME NEW c \in Consumers, LoadOverflow(c) \/ ResetOverflow(c) PROVE ReportInv'
  <2>1. /\ UNCHANGED <<lost, overflow_counter, Counting, CountingAgain>>
        /\ \A d \in Consumers \ {c} : pc'[d] = pc[d] /\ loaded'[d] = loaded[d]
    BY <1>0, <1>4, OverflowReported
  <2>2. CASE /\ pc'[c] = "reset" /\ loaded'[c] = resettable_overflow_counter
             /\ UNCHANGED <<reported, resettable_overflow_counter>>
    BY <1>0, <2>1, <2>2
  <2>3. CASE /\ pc[c] = "reset" /\ pc'[c] # "reset" /\ reported' = reported + loaded[c]
             /\ resettable_overflow_counter' = 0
    <3>1. \A d \in Consumers : pc[d] = "reset" => d = c
      BY <2>3 DEF OnePops
    <3>2. \A d \in Consumers : pc'[d] # "reset"
      BY <2>1, <2>3, <3>1
    <3>3. loaded[c] <= resettable_overflow_counter
      BY <2>3
    <3> QED
      BY <1>0, <2>1, <2>3, <3>2, <3>3
  <2> QED
    BY <1>0, <1>4, <2>2, <2>3, OverflowReported
<1>5. ASSUME NEW c \in Consumers, WriteBackOverflow(c) PROVE ReportInv'
  <2>1. \A d \in Consumers : pc[d] = "reset" => d = c
    BY <1>0, <1>5, WrittenBack DEF OnePops
  <2> QED
    BY <1>0, <1>5, <2>1, WrittenBack
<1> QED
  BY <1>0, <1>1, <1>2, <1>3, <1>4, <1>5, CountersKept

-----------------------------------------------------------------------------
(* Who writes a slot.                                                      *)

(* A thread that has locked a slot is alone there.                         *)
LEMMA AloneInSlot ==
  ASSUME LockPart, NEW t \in Threads, NEW u \in Threads, t # u, HoldsLock(t), HoldsLock(u)
  PROVE  slot[t] # slot[u]
BY DEF LockPart, MutualExclusion

(* Every step keeps the parts in a slot those of its owner or of overruns. *)
LEMMA WriterStep == IndInv /\ WriterInv /\ [Next]_vars => WriterInv'
<1> SUFFICES ASSUME IndInv, WriterInv, [Next]_vars PROVE WriterInv'
  OBVIOUS
<1>0. TypeOK /\ LockPart
  BY DEF IndInv, LockPart
<1> USE <1>0, ThreadsAssumption
<1>1. CASE Quiet
  BY <1>1 DEF Quiet, WriterInv
<1>2. ASSUME NEW p \in Producers, ReserveIncHead(p) PROVE WriterInv'
  BY <1>2 DEF ReserveIncHead, Goto, TypeOK, Threads, WriterInv
<1>3. ASSUME NEW p \in Producers, ReserveMaskHead(p) PROVE WriterInv'
  BY <1>3 DEF ReserveMaskHead, Goto, TypeOK, Threads, WriterInv, history
<1>4. ASSUME NEW p \in Producers, ReserveTake(p) PROVE WriterInv'
  <2>1. /\ p \in Threads /\ slot[p] \in Slots /\ HoldsLock(p) /\ elements[slot[p]] = <<>>
    BY <1>4 DEF ReserveTake, HoldsLock, TypeOK, Threads, IndInv, TextInv
  <2>2. /\ UNCHANGED <<elements, slot, ticket, lost>>
        /\ \A i \in Slots : owner'[i] = IF i = slot[p] THEN ticket[p] ELSE owner[i]
        /\ \A q \in Producers : pc'[q] = IF q = p THEN "prefix" ELSE pc[q]
    BY <1>4 DEF ReserveTake, Goto, TypeOK, Threads
  <2>3. \A q \in Producers : q # p /\ pc[q] \in {"prefix", "args", "commit"} =>
          slot[q] \in Slots /\ slot[q] # slot[p]
    BY <2>1, AloneInSlot DEF HoldsLock, Threads, TypeOK
  <2> QED
    BY <2>1, <2>2, <2>3 DEF WriterInv
<1>5. ASSUME NEW p \in Producers, ReserveOverrun(p) PROVE WriterInv'
  BY <1>5 DEF ReserveOverrun, Goto, TypeOK, Threads, WriterInv, ring
<1>6. ASSUME NEW p \in Producers, WritePrefix(p) \/ WriteArgs(p) PROVE WriterInv'
  <2>1. /\ UNCHANGED <<slot, ticket, lost, owner>> /\ pc[p] \in {"prefix", "args"}
        /\ \A q \in Producers \ {p} : pc'[q] = pc[q]
        /\ pc'[p] \in {"args", "commit"}
    BY <1>6 DEF WritePrefix, WriteArgs, Goto, TypeOK, Threads, history
  <2>2. \A i \in Slots : \A j \in DOMAIN elements'[i] : elements'[i][j] \in lost \cup {owner[i]}
    <3> SUFFICES ASSUME NEW i \in Slots, NEW j \in DOMAIN elements'[i]
                 PROVE  elements'[i][j] \in lost \cup {owner[i]}
      OBVIOUS
    <3>1. CASE j \in DOMAIN elements[i] /\ elements'[i][j] = elements[i][j]
      BY <3>1 DEF WriterInv
    <3>2. CASE i = slot[p] /\ elements'[i][j] = ticket[p]
      BY <2>1, <3>2 DEF WriterInv
    <3> QED
      BY <1>6, <3>1, <3>2, WrittenParts
  <2> QED
    BY <2>1, <2>2 DEF WriterInv
<1>7. ASSUME NEW p \in Producers, CommitPush(p) PROVE WriterInv'
  BY <1>7 DEF CommitPush, Goto, TypeOK, Threads, WriterInv
<1>8. ASSUME NEW c \in Consumers, PopCopy(c) PROVE WriterInv'
  BY <1>8 DEF PopCopy, Goto, TypeOK, Threads, WriterInv
<1>9. ASSUME NEW c \in Consumers, PopRecycle(c) PROVE WriterInv'
  <2>1. c \in Threads /\ slot[c] \in Slots /\ HoldsLock(c)
    BY <1>9 DEF PopRecycle, HoldsLock, TypeOK, Threads
  <2>2. /\ UNCHANGED <<slot, ticket, lost>>
        /\ \A i \in Slots : i # slot[c] => owner'[i] = owner[i] /\ elements'[i] = elements[i]
        /\ elements'[slot[c]] = <<>>
        /\ \A q \in Producers : pc'[q] = pc[q]
    BY <1>9, <2>1 DEF PopRecycle, Recycle, Goto, TypeOK, Threads
  <2>3. \A q \in Producers : pc[q] \in {"prefix", "args", "commit"} =>
          slot[q] \in Slots /\ slot[q] # slot[c]
    BY <2>1, AloneInSlot DEF HoldsLock, Threads, TypeOK
  <2> QED
    BY <2>2, <2>3 DEF WriterInv
<1> QED
  BY <1>1, <1>2, <1>3, <1>4, <1>5, <1>6, <1>7, <1>8, <1>9, StepCases

-----------------------------------------------------------------------------
(* Slots are handed out round robin.                                       *)

Masking == {p \in Producers : pc[p] = "mask"}

(* Finitely many producers have the head to mask.                          *)
LEMMA MaskingFinite ==
  ASSUME IndInv
  PROVE  IsFiniteSet(Masking) /\ Cardinality(Masking) \in Nat
<1>1. Masking \in SUBSET {p \in Producers : Active(p)}
  BY DEF Masking, Active
<1>2. IsFiniteSet(Masking)
  BY <1>1, ActiveFinite, FS_Subset
<1> QED
  BY <1>2, FS_CardinalityType

(* A step that leaves the head alone and lets nobody into or out of the    *)
(* masking, nor out of its slot.                                           *)
LEMMA RoundKept ==
  ASSUME RoundRobin, UNCHANGED <<head, pushes>>,
         \A p \in Producers : (pc'[p] = "mask") <=> (pc[p] = "mask"),
         \A p \in Producers : pc'[p] # "idle" =>
           pc[p] # "idle" /\ slot'[p] = slot[p] /\ ticket'[p] = ticket[p]
  PROVE  RoundRobin'
<1>1. Masking' = Masking
  BY DEF Masking
<1> QED
  BY <1>1 DEF RoundRobin, Masking

(* Every step keeps the order of the slots.                                *)
LEMMA RoundStep == IndInv /\ RoundInv /\ [Next]_vars => RoundInv'
<1> SUFFICES ASSUME IndInv, RoundInv, [Next]_vars PROVE RoundInv'
  OBVIOUS
<1> DEFINE Turn == \A i \in Occupied : Mask(owner[i]) = i
<1>0. TypeOK /\ RoundRobin /\ Turn
  BY DEF IndInv, LockPart, RoundInv
<1>a. /\ head \in Nat /\ pushes \in Nat /\ ticket \in [Producers -> Nat] /\ slot \in [Threads -> Nat]
      /\ owner \in [Slots -> Nat]
  BY <1>0, BoundsAssumption DEF TypeOK
<1>b. /\ Mask(head) = Mask(pushes)
      /\ head <= Capacity + Cardinality(Masking)
      /\ \A p \in Producers : pc[p] # "idle" => Mask(slot[p]) = Mask(ticket[p])
  BY <1>0 DEF RoundRobin, Masking
<1> USE <1>0, ThreadsAssumption
<1>1. CASE Quiet
  <2>1. RoundRobin'
    BY <1>1, RoundKept DEF Quiet
  <2>2. Turn'
    BY <1>1 DEF Quiet, Occupied
  <2> QED
    BY <2>1, <2>2 DEF RoundInv
<1>2. ASSUME NEW p \in Producers, ReserveIncHead(p) PROVE RoundInv'
  <2>1. /\ head' = head + 1 /\ pushes' = pushes + 1 /\ pc[p] = "idle"
        /\ \A q \in Producers : pc'[q] = IF q = p THEN IF head >= Capacity THEN "mask" ELSE "lock" ELSE pc[q]
        /\ \A q \in Producers : slot'[q] = IF q = p THEN head ELSE slot[q]
        /\ \A q \in Producers : ticket'[q] = IF q = p THEN pushes ELSE ticket[q]
        /\ UNCHANGED <<has_data, owner>>
    BY <1>2 DEF ReserveIncHead, Goto, TypeOK, Threads
  <2>2. Mask(head') = Mask(pushes')
    BY <1>a, <1>b, <2>1, MaskNext
  <2>3. head + 1 <= Capacity + Cardinality(Masking')
    <3>1. CASE head >= Capacity
      <4>1. Masking' = Masking \cup {p} /\ p \notin Masking
        BY <2>1, <3>1 DEF Masking
      <4>2. Cardinality(Masking') = Cardinality(Masking) + 1
        BY <4>1, MaskingFinite, FS_AddElement
      <4>3. head <= Capacity + Cardinality(Masking) /\ Cardinality(Masking) \in Nat
        BY <1>b, MaskingFinite
      <4> QED
        BY <1>a, <4>2, <4>3, CapacityPositive
    <3>2. CASE ~(head >= Capacity)
      <4>1. \A q \in Producers : (pc'[q] = "mask") <=> (pc[q] = "mask")
        BY <2>1, <3>2
      <4>2. Cardinality(Masking') = Cardinality(Masking)
        BY <4>1 DEF Masking
      <4> QED
        BY <1>a, <3>2, <4>2, MaskingFinite, CapacityPositive
    <3> QED
      BY <3>1, <3>2
  <2>4. \A q \in Producers : pc'[q] # "idle" => Mask(slot'[q]) = Mask(ticket'[q])
    BY <1>b, <2>1
  <2>5. RoundRobin'
    BY <2>1, <2>2, <2>3, <2>4 DEF RoundRobin, Masking, Mask
  <2>6. Turn'
    BY <2>1 DEF Occupied, Mask
  <2> QED
    BY <2>5, <2>6 DEF RoundInv, Mask
<1>3. ASSUME NEW p \in Producers, ReserveMaskHead(p) PROVE RoundInv'
  <2>1. /\ head' = Mask(head) /\ pushes' = pushes /\ pc[p] = "mask"
        /\ \A q \in Producers : pc'[q] = IF q = p THEN "lock" ELSE pc[q]
        /\ \A q \in Producers : slot'[q] = IF q = p THEN Mask(slot[p]) ELSE slot[q]
        /\ UNCHANGED <<has_data, owner, ticket>>
    BY <1>3 DEF ReserveMaskHead, HeadWrapped, Goto, TypeOK, Threads, history
  <2>2. Mask(head') = Mask(head) /\ Mask(head) < Capacity
    <3>1. Mask(head) \in Slots
      BY <1>a, MaskInSlots
    <3>2. Mask(head) < Capacity
      BY <3>1, CapacityPositive DEF Slots
    <3> QED
      BY <2>1, <3>1, <3>2, MaskSmall
  <2>3. Masking' = Masking \ {p} /\ p \in Masking
    BY <2>1 DEF Masking
  <2>4. Cardinality(Masking') = Cardinality(Masking) - 1 /\ Cardinality(Masking') \in Nat
    <3>1. IsFiniteSet(Masking')
      BY <2>3, MaskingFinite, FS_Subset
    <3>2. Cardinality(Masking') \in Nat
      BY <3>1, FS_CardinalityType
    <3> QED
      BY <2>3, <3>2, MaskingFinite, FS_RemoveElement
  <2>5. head' <= Capacity + Cardinality(Masking')
    BY <1>a, <2>1, <2>2, <2>4, MaskInSlots, SlotsAreNumbers, CapacityPositive
  <2>6. Mask(Mask(slot[p])) = Mask(slot[p])
    BY <1>a, MaskInSlots, MaskSmall DEF Threads
  <2>7. \A q \in Producers : pc'[q] # "idle" => Mask(slot'[q]) = Mask(ticket'[q])
    BY <1>b, <2>1, <2>6
  <2>8. RoundRobin'
    BY <1>b, <2>1, <2>2, <2>5, <2>7 DEF RoundRobin, Masking, Mask
  <2>9. Turn'
    BY <2>1 DEF Occupied, Mask
  <2> QED
    BY <2>8, <2>9 DEF RoundInv, Mask
<1>4. ASSUME NEW p \in Producers, ReserveTake(p) PROVE RoundInv'
  <2>1. RoundRobin'
    BY <1>4, RoundKept DEF ReserveTake, Goto, TypeOK, Threads
  <2>2. slot[p] \in Slots /\ pc[p] # "idle"
    BY <1>4 DEF ReserveTake, TypeOK, Threads
  <2>3. Mask(ticket[p]) = slot[p]
    BY <1>b, <2>2, MaskSmall
  <2>4. Turn'
    BY <1>4, <2>2, <2>3 DEF ReserveTake, TypeOK, Occupied, Mask
  <2> QED
    BY <2>1, <2>4 DEF RoundInv
<1>5. ASSUME NEW p \in Producers, ReserveOverrun(p) PROVE RoundInv'
  <2>1. RoundRobin'
    BY <1>5, RoundKept DEF ReserveOverrun, Goto, TypeOK, Threads, ring
  <2> QED
    BY <1>5, <2>1 DEF ReserveOverrun, RoundInv, Occupied, Mask, ring
<1>6. ASSUME NEW p \in Producers, WritePrefix(p) \/ WriteArgs(p) PROVE RoundInv'
  <2>1. RoundRobin'
    BY <1>6, RoundKept DEF WritePrefix, WriteArgs, Goto, TypeOK, Threads, history
  <2> QED
    BY <1>6, <2>1 DEF WritePrefix, WriteArgs, RoundInv, Occupied, Mask, history
<1>7. ASSUME NEW p \in Producers, CommitPush(p) PROVE RoundInv'
  <2>1. RoundRobin'
    BY <1>7, RoundKept DEF CommitPush, Goto, TypeOK, Threads
  <2> QED
    BY <1>7, <2>1 DEF CommitPush, RoundInv, Occupied, Mask
<1>8. ASSUME NEW c \in Consumers, PopCopy(c) PROVE RoundInv'
  <2>1. RoundRobin'
    BY <1>8, RoundKept DEF PopCopy, Goto, TypeOK, Threads
  <2> QED
    BY <1>8, <2>1 DEF PopCopy, RoundInv, Occupied, Mask
<1>9. ASSUME NEW c \in Consumers, PopRecycle(c) PROVE RoundInv'
  <2>1. RoundRobin'
    BY <1>9, RoundKept DEF PopRecycle, Goto, TypeOK, Threads
  <2>2. Turn'
    BY <1>9 DEF PopRecycle, ClearHasData, Occupied, Mask, TypeOK, Threads
  <2> QED
    BY <2>1, <2>2 DEF RoundInv
<1> QED
  BY <1>1, <1>2, <1>3, <1>4, <1>5, <1>6, <1>7, <1>8, <1>9, StepCases

-----------------------------------------------------------------------------
(* Who waits for whom.                                                     *)

(* A step that keeps every lock with its holder.                           *)
LEMMA HeldKept ==
  ASSUME HeldInv, busy' = busy,
         \A t \in Threads : HoldsLock(t) => HoldsLock(t)' /\ slot'[t] = slot[t]
  PROVE  HeldInv'
<1> SUFFICES ASSUME NEW i \in Slots, busy[i]
             PROVE  \E t \in Threads : HoldsLock(t)' /\ slot'[t] = i
  BY DEF HeldInv
<1>1. PICK t \in Threads : HoldsLock(t) /\ slot[t] = i
  BY DEF HeldInv
<1> QED
  BY <1>1

(* A step that lets one thread leave its slot and clears the flag.         *)
LEMMA HeldUnlocked ==
  ASSUME TypeOK, HeldInv, NEW t \in Threads, UnlockElement(slot[t]),
         \A u \in Threads : u # t /\ HoldsLock(u) => HoldsLock(u)' /\ slot'[u] = slot[u]
  PROVE  HeldInv'
<1> SUFFICES ASSUME NEW i \in Slots, busy'[i]
             PROVE  \E u \in Threads : HoldsLock(u)' /\ slot'[u] = i
  BY DEF HeldInv
<1>1. busy[i] /\ i # slot[t]
  BY DEF UnlockElement, TypeOK
<1>2. PICK u \in Threads : HoldsLock(u) /\ slot[u] = i
  BY <1>1 DEF HeldInv
<1> QED
  BY <1>1, <1>2

(* Every step leaves a flag set only where a thread has the slot.          *)
LEMMA HeldStep == TypeOK /\ HeldInv /\ [Next]_vars => HeldInv'
<1> SUFFICES ASSUME TypeOK, HeldInv, [Next]_vars PROVE HeldInv'
  OBVIOUS
<1>1. ASSUME NEW p \in Producers, ReserveIncHead(p) PROVE HeldInv'
  BY <1>1, HeldKept DEF ReserveIncHead, Goto, TypeOK, HoldsLock, Threads
<1>2. ASSUME NEW p \in Producers, ReserveMaskHead(p) PROVE HeldInv'
  BY <1>2, HeldKept DEF ReserveMaskHead, Goto, TypeOK, HoldsLock, Threads
<1>3. ASSUME NEW p \in Producers, ReserveTake(p) PROVE HeldInv'
  BY <1>3, HeldKept DEF ReserveTake, Goto, TypeOK, HoldsLock, Threads
<1>4. ASSUME NEW p \in Producers, ReserveOverrun(p) PROVE HeldInv'
  BY <1>4, HeldKept DEF ReserveOverrun, Goto, TypeOK, HoldsLock, Threads, ring
<1>5. ASSUME NEW p \in Producers, ReserveCountOverflow(p) PROVE HeldInv'
  BY <1>5, HeldKept DEF ReserveCountOverflow, Goto, TypeOK, HoldsLock, Threads, ring
<1>6. ASSUME NEW p \in Producers, ReserveCountResettable(p) PROVE HeldInv'
  BY <1>6, HeldKept DEF ReserveCountResettable, Goto, TypeOK, HoldsLock, Threads, ring
<1>7. ASSUME NEW p \in Producers, WritePrefix(p) PROVE HeldInv'
  BY <1>7, HeldKept DEF WritePrefix, Goto, TypeOK, HoldsLock, Threads
<1>8. ASSUME NEW p \in Producers, WriteArgs(p) PROVE HeldInv'
  BY <1>8, HeldKept DEF WriteArgs, Goto, TypeOK, HoldsLock, Threads
<1>9. ASSUME NEW p \in Producers, CommitPush(p) PROVE HeldInv'
  BY <1>9, HeldUnlocked DEF CommitPush, Goto, TypeOK, HoldsLock, Threads
<1>10. ASSUME NEW t \in Threads, LockElement(t) PROVE HeldInv'
  <2> SUFFICES ASSUME NEW i \in Slots, busy'[i]
               PROVE  \E u \in Threads : HoldsLock(u)' /\ slot'[u] = i
    BY DEF HeldInv
  <2>1. /\ slot' = slot /\ HoldsLock(t)' /\ \A u \in Threads : HoldsLock(u) => HoldsLock(u)'
        /\ i # slot[t] => busy[i]
    BY <1>10 DEF LockElement, AfterLock, Goto, TypeOK, HoldsLock, Threads
  <2>2. CASE i = slot[t]
    BY <2>1, <2>2
  <2>3. CASE i # slot[t]
    BY <2>1, <2>3 DEF HeldInv
  <2> QED
    BY <2>2, <2>3
<1>11. ASSUME NEW t \in Threads, SpinElement(t) PROVE HeldInv'
  BY <1>11, HeldKept DEF SpinElement, Goto, TypeOK, HoldsLock, Threads, ring
<1>12. ASSUME NEW t \in Threads, CountWait(t) PROVE HeldInv'
  BY <1>12, HeldKept DEF CountWait, AfterLock, Goto, TypeOK, HoldsLock, Threads, ring
<1>13. ASSUME NEW c \in Consumers, LoadOverflow(c) PROVE HeldInv'
  BY <1>13, HeldKept DEF LoadOverflow, Goto, TypeOK, HoldsLock, Threads, ring
<1>14. ASSUME NEW c \in Consumers, ResetOverflow(c) PROVE HeldInv'
  BY <1>14, HeldKept DEF ResetOverflow, Goto, TypeOK, HoldsLock, Threads, ring
<1>15. ASSUME NEW c \in Consumers, PopTest(c) PROVE HeldInv'
  BY <1>15, HeldKept DEF PopTest, Goto, TypeOK, HoldsLock, Threads, ring
<1>16. ASSUME NEW c \in Consumers, PopCopy(c) PROVE HeldInv'
  BY <1>16, HeldKept DEF PopCopy, Goto, TypeOK, HoldsLock, Threads
<1>17. ASSUME NEW c \in Consumers, PopRecycle(c) PROVE HeldInv'
  BY <1>17, HeldKept DEF PopRecycle, Goto, TypeOK, HoldsLock, Threads
<1>18. ASSUME NEW c \in Consumers, PopUnlock(c) PROVE HeldInv'
  BY <1>18, HeldUnlocked DEF PopUnlock, Goto, TypeOK, HoldsLock, Threads
<1>19. CASE UNCHANGED vars
  BY <1>19, HeldKept DEF vars, ring, HoldsLock
<1>20. ASSUME NEW c \in Consumers, WriteBackOverflow(c) PROVE HeldInv'
  BY <1>20, HeldKept DEF WriteBackOverflow, TypeOK, HoldsLock, Threads, ring, history
<1> QED
  BY <1>1, <1>2, <1>3, <1>4, <1>5, <1>6, <1>7, <1>8, <1>9, <1>10, <1>11, <1>12, <1>13,
    <1>14, <1>15, <1>16, <1>17, <1>18, <1>19, <1>20
    DEF Next, FinishPush, PopAndProcess, Threads

(* The labels at which a consumer is between the test of a slot and the    *)
(* end of pop.                                                             *)
Popping(c) == pc[c] \in {"lock", "spin", "count_wait", "recheck", "recycle", "unlock"}

(* In the first round nobody holds the lock a push is about to take.       *)
LEMMA FirstRoundFree ==
  ASSUME IndInv, HeldInv, WrapInv, pushes <= Capacity, NEW p \in Producers, pc[p] = "lock"
  PROVE  ~busy[slot[p]]
<1> SUFFICES ASSUME busy[slot[p]] PROVE FALSE
  BY DEF IndInv, LockPart, TypeOK, Threads
<1>1. p \in Threads /\ slot[p] \in Slots /\ slot[p] = ticket[p] /\ Active(p) /\ Unplaced(p)
  BY DEF IndInv, LockPart, TypeOK, Threads, WrapInv, Active, Unplaced
<1>2. PICK t \in Threads : HoldsLock(t) /\ slot[t] = slot[p]
  BY <1>1 DEF HeldInv
<1>3. CASE t \in Producers
  <2>1. Active(t) /\ slot[t] = ticket[t]
    BY <1>2, <1>3 DEF HoldsLock, Active, WrapInv
  <2>2. t = p
    BY <1>1, <1>2, <1>3, <2>1 DEF IndInv, TicketInv
  <2> QED
    BY <1>2, <2>2 DEF HoldsLock
<1>4. CASE t \in Consumers
  <2>1. pc[t] \in {"lock", "spin", "count_wait", "recheck", "recycle", "unlock"}
    BY <1>2, <1>4 DEF HoldsLock, IndInv, LockPart, TypeOK, ConsumerLabels
  <2> QED
    BY <1>1, <1>2, <1>4, <2>1 DEF WrapInv
<1> QED
  BY <1>3, <1>4 DEF Threads

(* In the first round the consumer finds a push of that round, which no    *)
(* longer waits for the slot.                                              *)
LEMMA FirstRoundTail ==
  ASSUME IndInv, RoundInv, WrapInv, pushes <= Capacity, has_data[tail]
  PROVE  tail < pushes /\ \A p \in Producers : Unplaced(p) => slot[p] # tail
<1>1. /\ tail \in Slots /\ tail \in Occupied /\ owner[tail] \in Nat /\ pushes \in Nat
      /\ owner[tail] < pushes /\ Mask(owner[tail]) = tail
  BY BoundsAssumption DEF IndInv, LockPart, TypeOK, Occupied, OwnerInv, RoundInv
<1>2. owner[tail] \in Slots
  BY <1>1, SlotsAreNumbers, CapacityPositive
<1>3. owner[tail] = tail
  BY <1>1, <1>2, MaskSmall
<1>4. ASSUME NEW p \in Producers, Unplaced(p) PROVE slot[p] # tail
  <2>1. slot[p] = ticket[p] /\ owner[tail] # ticket[p]
    BY <1>1, <1>4 DEF WrapInv, Active, Unplaced, IndInv, OwnerInv
  <2> QED
    BY <1>3, <2>1
<1> QED
  BY <1>1, <1>3, <1>4

(* Every step of the first round leaves every push alone in its slot.      *)
LEMMA WrapStep == IndInv /\ RoundInv /\ HeldInv /\ WrapInv /\ [Next]_vars => WrapInv'
<1> SUFFICES ASSUME IndInv, RoundInv, HeldInv, WrapInv, [Next]_vars, pushes' <= Capacity PROVE WrapInv'
  BY DEF WrapInv
<1>0. TypeOK /\ pushes \in Nat /\ head \in Nat
  BY BoundsAssumption DEF IndInv, LockPart, TypeOK
<1>a. pushes <= Capacity
  BY <1>0, PushesStep, CapacityPositive
<1>b. /\ head = pushes
      /\ \A p \in Producers : Active(p) =>
           pc[p] \notin {"mask", "spin", "count_wait"} /\ slot[p] = ticket[p]
      /\ \A c \in Consumers : Popping(c) =>
           slot[c] < pushes /\ \A p \in Producers : Unplaced(p) => slot[p] # slot[c]
  BY <1>a DEF WrapInv, Popping
<1>c. /\ \A p \in Producers : pc[p] \in ProducerLabels
      /\ \A c \in Consumers : pc[c] \in ConsumerLabels
      /\ slot \in [Threads -> Nat]
  BY <1>0 DEF TypeOK
<1> DEFINE Goal ==
      /\ head' = pushes'
      /\ \A p \in Producers : Active(p)' =>
           pc'[p] \notin {"mask", "spin", "count_wait"} /\ slot'[p] = ticket'[p]
      /\ \A c \in Consumers : Popping(c)' =>
           slot'[c] < pushes' /\ \A p \in Producers : Unplaced(p)' => slot'[p] # slot'[c]
<1>d. ASSUME UNCHANGED <<head, pushes, slot>>,
             \A p \in Producers : ticket'[p] = ticket[p],
             \A p \in Producers : Active(p)' => Active(p) /\ pc'[p] \notin {"mask", "spin", "count_wait"},
             \A p \in Producers : Unplaced(p)' => Unplaced(p),
             \A c \in Consumers : Popping(c)' => Popping(c)
      PROVE  Goal
  BY <1>b, <1>d
<1> USE <1>0, ThreadsAssumption DEF Active, Unplaced, Popping
<1>1. ASSUME NEW p \in Producers, ReserveIncHead(p) PROVE Goal
  <2>1. /\ head' = head + 1 /\ pushes' = pushes + 1 /\ pc[p] = "idle" /\ ~(head >= Capacity)
        /\ \A q \in Producers : pc'[q] = IF q = p THEN "lock" ELSE pc[q]
        /\ \A q \in Producers : slot'[q] = IF q = p THEN pushes ELSE slot[q]
        /\ \A q \in Producers : ticket'[q] = IF q = p THEN pushes ELSE ticket[q]
        /\ \A c \in Consumers : pc'[c] = pc[c] /\ slot'[c] = slot[c] /\ slot[c] \in Nat
    BY <1>1, <1>a, <1>b, CapacityPositive DEF ReserveIncHead, Goto, TypeOK, Threads
  <2> QED
    BY <1>b, <2>1
<1>2. ASSUME NEW p \in Producers, ReserveMaskHead(p) PROVE Goal
  BY <1>2, <1>b DEF ReserveMaskHead
<1>3. ASSUME NEW p \in Producers, ReserveTake(p) \/ ReserveOverrun(p) PROVE Goal
  BY <1>3, <1>b, <1>d DEF ReserveTake, ReserveOverrun, Goto, TypeOK, Threads, ring
<1>5. ASSUME NEW p \in Producers, ReserveCountOverflow(p) \/ ReserveCountResettable(p) PROVE Goal
  BY <1>5, <1>b, <1>d DEF ReserveCountOverflow, ReserveCountResettable, Goto, TypeOK, Threads, ring, history
<1>7. ASSUME NEW p \in Producers, WritePrefix(p) \/ WriteArgs(p) PROVE Goal
  BY <1>7, <1>b, <1>d DEF WritePrefix, WriteArgs, Goto, TypeOK, Threads, history
<1>9. ASSUME NEW p \in Producers, CommitPush(p) PROVE Goal
  BY <1>9, <1>b DEF CommitPush, Goto, TypeOK, Threads
<1>10. ASSUME NEW p \in Producers, LockElement(p) PROVE Goal
  BY <1>10, <1>b, <1>d DEF LockElement, AfterLock, Goto, TypeOK, Threads, history
<1>11. ASSUME NEW p \in Producers, SpinElement(p) PROVE Goal
  BY <1>11, <1>a, FirstRoundFree DEF SpinElement
<1>12. ASSUME NEW p \in Producers, CountWait(p) PROVE Goal
  BY <1>12, <1>b DEF CountWait
<1>13. ASSUME NEW c \in Consumers, LockElement(c) \/ SpinElement(c) \/ CountWait(c) PROVE Goal
  BY <1>13, <1>b, <1>d DEF LockElement, SpinElement, CountWait, AfterLock, Goto, TypeOK, Threads, history, ring
<1>14. ASSUME NEW c \in Consumers,
              LoadOverflow(c) \/ ResetOverflow(c) \/ WriteBackOverflow(c)
       PROVE  Goal
  BY <1>14, <1>b, <1>d DEF LoadOverflow, ResetOverflow, WriteBackOverflow, Goto, TypeOK, Threads, ring, history
<1>15. ASSUME NEW c \in Consumers, PopTest(c) PROVE Goal
  <2>1. /\ UNCHANGED <<head, pushes, ticket>>
        /\ \A q \in Producers : pc'[q] = pc[q] /\ slot'[q] = slot[q]
        /\ \A e \in Consumers : e # c => pc'[e] = pc[e] /\ slot'[e] = slot[e]
        /\ slot'[c] = tail /\ pc'[c] \in {"lock", "load"} /\ (pc'[c] = "lock" => has_data[tail])
    BY <1>15 DEF PopTest, TailHasData, Goto, TypeOK, Threads, ring, history
  <2>2. CASE pc'[c] = "load"
    BY <1>b, <2>1, <2>2
  <2>3. CASE pc'[c] = "lock"
    <3>1. tail < pushes /\ \A q \in Producers : Unplaced(q) => slot[q] # tail
      BY <1>a, <2>1, <2>3, FirstRoundTail
    <3> QED
      BY <1>b, <2>1, <3>1
  <2> QED
    BY <2>1, <2>2, <2>3
<1>16. ASSUME NEW c \in Consumers, PopCopy(c) PROVE Goal
  BY <1>16, <1>b, <1>d DEF PopCopy, Goto, TypeOK, Threads
<1>17. ASSUME NEW c \in Consumers, PopRecycle(c) PROVE Goal
  BY <1>17, <1>b, <1>d DEF PopRecycle, Goto, TypeOK, Threads
<1>18. ASSUME NEW c \in Consumers, PopUnlock(c) PROVE Goal
  BY <1>18, <1>b DEF PopUnlock, Goto, TypeOK, Threads, history
<1>19. ASSUME UNCHANGED vars PROVE Goal
  BY <1>19, <1>b DEF vars, ring, history
<1>20. Goal
  <2> HIDE DEF Goal
  <2>1. CASE UNCHANGED vars
    BY <1>19, <2>1
  <2>2. CASE Next
    BY <2>2, <1>1, <1>2, <1>3, <1>5, <1>7, <1>9, <1>10, <1>11, <1>12, <1>13, <1>14, <1>15,
      <1>16, <1>17, <1>18 DEF Next, FinishPush, PopAndProcess
  <2> QED
    BY <2>1, <2>2
<1> QED
  BY <1>20 DEF WrapInv

-----------------------------------------------------------------------------
(* One consumer at a time: the order of delivery.                          *)

(* The consumer between the test of the tail and the copy.                 *)
AtTail(c) == pc[c] \in {"lock", "spin", "count_wait", "recheck"}

(* A step that does not move the tail.                                     *)
LEMMA TailKeptStep ==
  ASSUME TailInv, UNCHANGED <<tail, popped>>,
         has_data[tail] => has_data'[tail],
         \A c \in Consumers : AtTail(c)' => AtTail(c) /\ slot'[c] = slot[c]
  PROVE  TailInv'
BY DEF TailInv, AtTail, Mask

(* pop takes the message at the tail and moves on to the next slot.        *)
LEMMA TailCopied ==
  ASSUME IndInv, RoundInv, TailInv, OnePops, NEW c \in Consumers, PopCopy(c), has_data[slot[c]]
  PROVE  /\ TailInv'
         /\ slot[c] = tail /\ tail \in Occupied \ Copied /\ popped' = Append(popped, elements[tail])
         /\ elements[tail] \in Texts /\ elements[tail] # <<>> /\ elements[tail][1] = owner[tail]
         /\ Mask(owner[tail]) = tail
<1>0. TypeOK /\ popped \in Seq(Texts)
  BY DEF IndInv, LockPart, TypeOK
<1>1. slot[c] = tail /\ tail \in Slots /\ tail = Mask(Len(popped)) /\ pc[c] = "recheck"
  BY <1>0 DEF TailInv, PopCopy, TypeOK
<1>2. c \in Threads /\ HoldsLock(c) /\ pc[c] # "recycle" /\ pc[c] # "prefix"
  BY <1>1 DEF HoldsLock, Threads
<1>3. tail \in Occupied \ Copied
  BY <1>1, <1>2, LockedNotCopied DEF Occupied
<1>4. elements[tail] \in Texts /\ elements[tail] # <<>> /\ elements[tail][1] = owner[tail]
  BY <1>0, <1>1, <1>2, <1>3, WrittenWhenLocked DEF TypeOK
<1>5. Mask(owner[tail]) = tail
  BY <1>3 DEF RoundInv
<1>6. popped' = Append(popped, elements[tail]) /\ tail' = Mask(tail + 1)
  BY <1>1 DEF PopCopy, TailAdvanced
<1>7. /\ Len(popped) \in Nat /\ Len(popped') = Len(popped) + 1
      /\ DOMAIN popped = 1..Len(popped) /\ DOMAIN popped' = 1..(Len(popped) + 1)
      /\ \A k \in 1..Len(popped) : popped'[k] = popped[k]
      /\ popped'[Len(popped) + 1] = elements[tail]
  BY <1>0, <1>4, <1>6
<1>8. tail' = Mask(Len(popped'))
  <2>1. Mask(tail) = Mask(Len(popped)) /\ tail \in Nat
    BY <1>1, MaskSmall, SlotsAreNumbers
  <2>2. Mask(tail + 1) = Mask(Len(popped) + 1)
    BY <1>7, <2>1, MaskNext
  <2> QED
    BY <1>6, <1>7, <2>2
<1>9. ASSUME NEW k \in DOMAIN popped' PROVE Mask(popped'[k][1]) = Mask(k - 1)
  <2>1. CASE k \in DOMAIN popped
    BY <1>7, <2>1 DEF TailInv
  <2>2. CASE k = Len(popped) + 1
    <3>1. k - 1 = Len(popped)
      BY <1>7, <2>2
    <3> QED
      BY <1>1, <1>4, <1>5, <1>7, <2>2, <3>1
  <2> QED
    BY <1>7, <2>1, <2>2
<1>10. \A e \in Consumers : pc'[e] \notin {"lock", "spin", "count_wait", "recheck"}
  <2>1. \A e \in Consumers : e # c => pc[e] = "load"
    BY <1>1 DEF OnePops
  <2>2. \A e \in Consumers : pc'[e] = IF e = c THEN "recycle" ELSE pc[e]
    BY <1>0, <1>1 DEF PopCopy, Goto, TypeOK, Threads
  <2> QED
    BY <2>1, <2>2
<1>11. TailInv'
  BY <1>8, <1>9, <1>10 DEF TailInv, Mask
<1> QED
  BY <1>1, <1>3, <1>4, <1>5, <1>6, <1>11

(* Every step keeps the tail at the slot of the next delivery.             *)
LEMMA TailStep == IndInv /\ RoundInv /\ TailInv /\ OnePops /\ [Next]_vars => TailInv'
<1> SUFFICES ASSUME IndInv, RoundInv, TailInv, OnePops, [Next]_vars PROVE TailInv'
  OBVIOUS
<1>0. TypeOK
  BY DEF IndInv, LockPart
<1> USE <1>0, ThreadsAssumption, TailKeptStep DEF AtTail
<1>1. ASSUME NEW p \in Producers, ReserveIncHead(p) PROVE TailInv'
  BY <1>1 DEF ReserveIncHead, Goto, TypeOK, Threads
<1>2. ASSUME NEW p \in Producers, ReserveMaskHead(p) PROVE TailInv'
  BY <1>2 DEF ReserveMaskHead, Goto, TypeOK, Threads, history
<1>3. ASSUME NEW p \in Producers, ReserveTake(p) PROVE TailInv'
  BY <1>3 DEF ReserveTake, Goto, TypeOK, Threads
<1>4. ASSUME NEW p \in Producers, ReserveOverrun(p) PROVE TailInv'
  BY <1>4 DEF ReserveOverrun, Goto, TypeOK, Threads, ring
<1>5. ASSUME NEW p \in Producers, ReserveCountOverflow(p) PROVE TailInv'
  BY <1>5 DEF ReserveCountOverflow, Goto, TypeOK, Threads, ring, history
<1>6. ASSUME NEW p \in Producers, ReserveCountResettable(p) PROVE TailInv'
  BY <1>6 DEF ReserveCountResettable, Goto, TypeOK, Threads, ring, history
<1>7. ASSUME NEW p \in Producers, WritePrefix(p) \/ WriteArgs(p) PROVE TailInv'
  BY <1>7 DEF WritePrefix, WriteArgs, Goto, TypeOK, Threads, history
<1>9. ASSUME NEW p \in Producers, CommitPush(p) PROVE TailInv'
  BY <1>9 DEF CommitPush, Goto, TypeOK, Threads
<1>10. ASSUME NEW t \in Threads, LockElement(t) PROVE TailInv'
  BY <1>10 DEF LockElement, Goto, TypeOK, Threads, history
<1>11. ASSUME NEW t \in Threads, SpinElement(t) PROVE TailInv'
  BY <1>11 DEF SpinElement, Goto, TypeOK, Threads, ring, history
<1>12. ASSUME NEW t \in Threads, CountWait(t) PROVE TailInv'
  BY <1>12 DEF CountWait, Goto, TypeOK, Threads, ring, history
<1>13. ASSUME NEW c \in Consumers, LoadOverflow(c) PROVE TailInv'
  BY <1>13 DEF LoadOverflow, Goto, TypeOK, Threads, ring, history
<1>14. ASSUME NEW c \in Consumers, ResetOverflow(c) PROVE TailInv'
  BY <1>14 DEF ResetOverflow, Goto, TypeOK, Threads, ring
<1>15. ASSUME NEW c \in Consumers, PopTest(c) PROVE TailInv'
  BY <1>15 DEF PopTest, TailHasData, Goto, TypeOK, Threads, ring, history, TailInv, Mask
<1>16. ASSUME NEW c \in Consumers, PopCopy(c) PROVE TailInv'
  <2>1. CASE has_data[slot[c]]
    BY <1>16, <2>1, TailCopied
  <2>2. CASE ~has_data[slot[c]]
    BY <1>16, <2>2 DEF PopCopy, Goto, TypeOK, Threads
  <2> QED
    BY <2>1, <2>2
<1>17. ASSUME NEW c \in Consumers, PopRecycle(c) PROVE TailInv'
  <2>1. pc[c] = "recycle" /\ UNCHANGED <<tail, popped>>
        /\ \A e \in Consumers : pc'[e] = IF e = c THEN "unlock" ELSE pc[e]
    BY <1>17 DEF PopRecycle, Goto, TypeOK, Threads
  <2>2. \A e \in Consumers : ~AtTail(e)'
    BY <2>1 DEF OnePops
  <2> QED
    BY <2>1, <2>2 DEF TailInv, Mask
<1>18. ASSUME NEW c \in Consumers, PopUnlock(c) PROVE TailInv'
  BY <1>18 DEF PopUnlock, Goto, TypeOK, Threads, history
<1>19. CASE UNCHANGED vars
  BY <1>19 DEF vars, ring, history
<1>20. ASSUME NEW c \in Consumers, WriteBackOverflow(c) PROVE TailInv'
  BY <1>20 DEF WriteBackOverflow, TypeOK, Threads, ring, history
<1> QED
  BY <1>1, <1>2, <1>3, <1>4, <1>5, <1>6, <1>7, <1>9, <1>10, <1>11, <1>12, <1>13,
    <1>14, <1>15, <1>16, <1>17, <1>18, <1>19, <1>20
    DEF Next, FinishPush, PopAndProcess, Threads

(* Nothing was lost and no push was a round behind.                        *)
InOrder == lost = {} /\ ~lapped

(* The parts of FifoInv.                                                   *)
DeliveredInOrder == \A k \in DOMAIN popped : \A j \in DOMAIN popped[k] : popped[k][j] = k - 1
OwnersInRound ==
  \A i \in Occupied \ Copied : Len(popped) <= owner[i] /\ owner[i] < Len(popped) + Capacity
WaitingInRound ==
  \A p \in Producers : pc[p] \in {"mask", "lock", "spin"} => pushes <= ticket[p] + Capacity

(* Delivered in order, the pushes delivered are the first ones.            *)
LEMMA DeliveredAreFirst ==
  ASSUME IndInv, DeliveredInOrder, NEW n \in Nat
  PROVE  n \in DeliveredSet <=> n < Len(popped)
<1>1. popped \in Seq(Texts) /\ \A k \in DOMAIN popped : popped[k] # <<>> /\ popped[k] \in Seq(Nat)
  BY DEF IndInv, LockPart, TypeOK, OwnerInv, Texts
<1>2. \A k \in DOMAIN popped : popped[k][1] = k - 1
  BY <1>1 DEF DeliveredInOrder
<1>3. Len(popped) \in Nat /\ DOMAIN popped = 1..Len(popped)
  BY <1>1
<1>4. n < Len(popped) => n + 1 \in DOMAIN popped /\ popped[n + 1][1] = n
  BY <1>2, <1>3
<1>5. DeliveredSet = {popped[k][1] : k \in DOMAIN popped}
  BY DEF DeliveredSet, DeliveredSeq
<1>6. n \in DeliveredSet => n < Len(popped)
  BY <1>2, <1>3, <1>5
<1> QED
  BY <1>4, <1>5, <1>6

(* The push that takes a slot is not delivered yet, and the push of the    *)
(* round before it, if any, was.                                           *)
LEMMA TakenInRound ==
  ASSUME IndInv, PlaceInv, RoundInv, lost = {}, DeliveredInOrder, WaitingInRound,
         NEW p \in Producers, ReserveTake(p)
  PROVE  Len(popped) <= ticket[p] /\ ticket[p] < Len(popped) + Capacity
<1> DEFINE n == ticket[p]
           m == n - Capacity
<1>0. /\ p \in Threads /\ slot[p] \in Slots /\ ~has_data[slot[p]] /\ pc[p] = "test_and_set"
      /\ n \in Nat /\ pushes \in Nat /\ n < pushes /\ Len(popped) \in Nat
  BY BoundsAssumption DEF ReserveTake, IndInv, LockPart, TypeOK, Threads, TicketInv, Active
<1>1. Mask(n) = slot[p]
  BY <1>0, MaskSmall DEF RoundInv, RoundRobin
<1>2. Len(popped) <= n
  <2>1. n \notin DeliveredSet
    BY <1>0 DEF DeliveredSet, DeliveredSeq, IndInv, OwnerInv, Unplaced
  <2> QED
    BY <1>0, <2>1, DeliveredAreFirst
<1>3. ASSUME n >= Len(popped) + Capacity PROVE FALSE
  <2>1. m \in Nat /\ m < n /\ m \in 0..(pushes - 1) /\ Len(popped) <= m /\ pushes > m + Capacity
    BY <1>0, <1>3, CapacityPositive
  <2>2. Mask(m) = slot[p]
    <3>1. PICK r \in Nat : n = Capacity * r + slot[p]
      BY <1>0, <1>1, MaskRounds
    <3>2. Capacity * (r - 1) = Capacity * r - Capacity /\ r - 1 \in Int
      BY <3>1, CapacityPositive
    <3>3. m = Capacity * (r - 1) + slot[p]
      BY <1>0, <3>1, <3>2, CapacityPositive, SlotsAreNumbers
    <3> QED
      BY <1>0, <2>1, <3>2, <3>3, MaskOfRounds
  <2> HIDE DEF m
  <2>3. m \notin DeliveredSet
    BY <1>0, <2>1, DeliveredAreFirst
  <2>4. m \notin Buffered
    BY <1>0, <2>2 DEF Buffered, RoundInv, Occupied
  <2>5. PICK q \in Producers : Unplaced(q) /\ ticket[q] = m
    BY <2>1, <2>3, <2>4, WaitingIsUnplaced DEF PlaceInv, EveryPush
  <2>6. pc[q] \in {"count_wait", "test_and_set"}
    <3>1. CASE pc[q] \in {"mask", "lock", "spin"}
      BY <1>0, <2>1, <2>5, <3>1, CapacityPositive DEF WaitingInRound
    <3> QED
      BY <2>5, <3>1 DEF Unplaced
  <2>7. q \in Threads /\ HoldsLock(q) /\ HoldsLock(p) /\ slot[q] \in Slots
    BY <1>0, <2>6 DEF HoldsLock, Threads, IndInv, LockPart, TypeOK
  <2>8. slot[q] = slot[p]
    BY <2>2, <2>5, <2>6, <2>7, MaskSmall DEF RoundInv, RoundRobin
  <2>9. q = p
    BY <1>0, <2>7, <2>8, AloneInSlot DEF IndInv
  <2> QED
    BY <1>0, <2>1, <2>5, <2>9
<1> QED
  BY <1>0, <1>2, <1>3, CapacityPositive

(* What pop copies at the tail is the push that is next, and only that.    *)
LEMMA TailIsNext ==
  ASSUME IndInv, RoundInv, TailInv, OwnersInRound, tail \in Occupied \ Copied
  PROVE  owner[tail] = Len(popped)
<1>1. /\ Len(popped) \in Nat /\ owner[tail] \in Nat /\ Mask(owner[tail]) = Mask(Len(popped))
      /\ Len(popped) <= owner[tail] /\ owner[tail] < Len(popped) + Capacity
  BY DEF IndInv, LockPart, TypeOK, RoundInv, TailInv, OwnersInRound
<1>2. CASE Len(popped) < owner[tail]
  <2>1. Len(popped) + Capacity <= owner[tail]
    BY <1>1, <1>2, RoundApart
  <2> QED
    BY <1>1, <2>1, CapacityPositive
<1> QED
  BY <1>1, <1>2

(* The copy at the tail is in order and leaves the others a round wide.    *)
LEMMA CopiedInOrder ==
  ASSUME IndInv, RoundInv, WriterInv, TailInv, OnePops, lost = {}, DeliveredInOrder, OwnersInRound,
         NEW c \in Consumers, PopCopy(c), has_data[slot[c]]
  PROVE  DeliveredInOrder' /\ OwnersInRound'
<1> DEFINE L == Len(popped)
<1>0. TypeOK /\ popped \in Seq(Texts) /\ L \in Nat /\ owner \in [Slots -> Nat]
  BY DEF IndInv, LockPart, TypeOK
<1>1. /\ slot[c] = tail /\ tail \in Occupied \ Copied /\ popped' = Append(popped, elements[tail])
      /\ elements[tail] \in Texts
  BY TailCopied
<1>2. tail \in Slots /\ owner[tail] = L
  BY <1>0, <1>1, TailIsNext DEF TypeOK
<1>3. \A j \in DOMAIN elements[tail] : elements[tail][j] = L
  BY <1>2 DEF WriterInv
<1>4. /\ DOMAIN popped = 1..L /\ DOMAIN popped' = 1..(L + 1) /\ Len(popped') = L + 1
      /\ \A k \in 1..L : popped'[k] = popped[k]
      /\ popped'[L + 1] = elements[tail]
  BY <1>0, <1>1
<1> HIDE DEF L
<1>5. DeliveredInOrder'
  <2> SUFFICES ASSUME NEW k \in DOMAIN popped', NEW j \in DOMAIN popped'[k]
               PROVE  popped'[k][j] = k - 1
    BY DEF DeliveredInOrder
  <2>1. CASE k \in 1..L
    BY <1>4, <2>1 DEF DeliveredInOrder
  <2>2. CASE k = L + 1
    BY <1>0, <1>3, <1>4, <2>2
  <2> QED
    BY <1>0, <1>4, <2>1, <2>2
<1>6. Occupied' = Occupied /\ owner' = owner
  BY DEF PopCopy, Occupied
<1>7. Copied' = Copied \cup {tail}
  BY <1>0, <1>1 DEF PopCopy, Goto, Copied, TypeOK, Threads
<1>8. \A i \in Occupied \ Copied : L <= owner[i] /\ owner[i] < L + Capacity
  BY DEF OwnersInRound, L
<1>9. \A i \in Occupied \ Copied : i # tail => owner[i] # L
  BY <1>1, <1>2 DEF IndInv, OwnerInv
<1>10. \A i \in Occupied' \ Copied' : L + 1 <= owner'[i] /\ owner'[i] < L + 1 + Capacity
  <2> SUFFICES ASSUME NEW i \in Occupied, i \notin Copied, i # tail
               PROVE  L + 1 <= owner[i] /\ owner[i] < L + 1 + Capacity
    BY <1>6, <1>7
  <2>1. owner[i] \in Nat /\ L <= owner[i] /\ owner[i] < L + Capacity /\ owner[i] # L
    BY <1>0, <1>8, <1>9 DEF Occupied
  <2> QED
    BY <1>0, <2>1, CapacityPositive
<1>11. OwnersInRound'
  BY <1>4, <1>10 DEF OwnersInRound
<1> QED
  BY <1>5, <1>11

(* FifoInv in its parts.                                                   *)
LEMMA FifoParts == FifoInv <=> (InOrder => DeliveredInOrder /\ OwnersInRound /\ WaitingInRound)
BY DEF FifoInv, InOrder, DeliveredInOrder, OwnersInRound, WaitingInRound

(* Every step keeps the order of delivery.                                 *)
LEMMA FifoStep ==
  ASSUME IndInv, PlaceInv, RoundInv, WriterInv, TailInv, OnePops, FifoInv, [Next]_vars
  PROVE  FifoInv'
<1> DEFINE Goal == DeliveredInOrder' /\ OwnersInRound' /\ WaitingInRound'
<1>0. TypeOK /\ pushes \in Nat /\ ticket \in [Producers -> Nat]
  BY BoundsAssumption DEF IndInv, LockPart, TypeOK
<1> SUFFICES ASSUME InOrder' PROVE Goal
  BY FifoParts, Zenon DEF FifoInv, InOrder, DeliveredInOrder, OwnersInRound, WaitingInRound
<1>a. ASSUME InOrder PROVE lost = {} /\ DeliveredInOrder /\ OwnersInRound /\ WaitingInRound
  BY <1>a, FifoParts DEF InOrder
<1>b. ASSUME UNCHANGED <<has_data, owner, popped, Copied>> /\ InOrder
      PROVE  DeliveredInOrder' /\ OwnersInRound'
  BY <1>a, <1>b DEF DeliveredInOrder, OwnersInRound, Occupied
<1>c. ASSUME UNCHANGED <<pushes, ticket>>, InOrder,
             \A p \in Producers : pc'[p] \in {"mask", "lock", "spin"} => pc[p] \in {"mask", "lock", "spin"}
      PROVE  WaitingInRound'
  BY <1>a, <1>c DEF WaitingInRound
<1> USE ThreadsAssumption
<1>1. CASE Quiet
  <2>1. InOrder /\ UNCHANGED <<has_data, owner, popped, Copied>>
    BY <1>1 DEF Quiet, Copied, InOrder
  <2>2. WaitingInRound'
    BY <1>1, <2>1, <1>c DEF Quiet
  <2> QED
    BY <2>1, <2>2, <1>b
<1>2. ASSUME NEW p \in Producers, ReserveIncHead(p) PROVE Goal
  <2>1. InOrder /\ ~LapsSomeone
    BY <1>2 DEF ReserveIncHead, InOrder
  <2>2. UNCHANGED <<has_data, owner, popped, Copied>>
    BY <1>0, <1>2 DEF ReserveIncHead, Goto, TypeOK, Threads, Copied
  <2>3. WaitingInRound'
    <3> SUFFICES ASSUME NEW q \in Producers, pc'[q] \in {"mask", "lock", "spin"}
                 PROVE  pushes' <= ticket'[q] + Capacity
      BY DEF WaitingInRound
    <3>1. /\ pushes' = pushes + 1
          /\ q # p => pc'[q] = pc[q]
          /\ ticket'[q] = IF q = p THEN pushes ELSE ticket[q]
      BY <1>0, <1>2 DEF ReserveIncHead, Goto, TypeOK, Threads
    <3>2. CASE q = p
      BY <1>0, <3>1, <3>2, CapacityPositive
    <3>3. CASE q # p
      <4>1. ~(ticket[q] + Capacity <= pushes)
        BY <2>1, <3>1, <3>3 DEF LapsSomeone
      <4> QED
        BY <1>0, <3>1, <3>3, <4>1, CapacityPositive
    <3> QED
      BY <3>2, <3>3
  <2> QED
    BY <2>1, <2>2, <2>3, <1>b
<1>3. ASSUME NEW p \in Producers, ReserveMaskHead(p) PROVE Goal
  <2>1. InOrder /\ UNCHANGED <<has_data, owner, popped, Copied, pushes, ticket>>
    BY <1>0, <1>3 DEF ReserveMaskHead, Goto, TypeOK, Threads, Copied, InOrder, history
  <2>2. \A q \in Producers : pc'[q] \in {"mask", "lock", "spin"} => pc[q] \in {"mask", "lock", "spin"}
    BY <1>0, <1>3 DEF ReserveMaskHead, Goto, TypeOK, Threads
  <2> QED
    BY <2>1, <2>2, <1>b, <1>c
<1>4. ASSUME NEW p \in Producers, ReserveTake(p) PROVE Goal
  <2>1. InOrder /\ UNCHANGED <<popped, Copied, pushes, ticket>> /\ slot[p] \in Slots
    BY <1>0, <1>4 DEF ReserveTake, Goto, TypeOK, Threads, Copied, InOrder
  <2>2. \A q \in Producers : pc'[q] \in {"mask", "lock", "spin"} => pc[q] \in {"mask", "lock", "spin"}
    BY <1>0, <1>4 DEF ReserveTake, Goto, TypeOK, Threads
  <2>3. Len(popped) <= ticket[p] /\ ticket[p] < Len(popped) + Capacity
    BY <1>4, <2>1, <1>a, TakenInRound
  <2>4. /\ \A i \in Slots : owner'[i] = IF i = slot[p] THEN ticket[p] ELSE owner[i]
        /\ \A i \in Occupied' : i \in Slots /\ (i \in Occupied \/ i = slot[p])
    BY <1>0, <1>4 DEF ReserveTake, TypeOK, Occupied
  <2>5. OwnersInRound'
    <3> SUFFICES ASSUME NEW i \in Occupied', i \notin Copied
                 PROVE  Len(popped) <= owner'[i] /\ owner'[i] < Len(popped) + Capacity
      BY <2>1 DEF OwnersInRound
    <3>1. CASE i = slot[p]
      BY <2>3, <2>4, <3>1
    <3>2. CASE i # slot[p]
      BY <1>a, <2>1, <2>4, <3>2 DEF OwnersInRound
    <3> QED
      BY <3>1, <3>2
  <2>6. DeliveredInOrder'
    BY <1>a, <2>1 DEF DeliveredInOrder
  <2> QED
    BY <2>1, <2>2, <2>5, <2>6, <1>c
<1>5. ASSUME NEW p \in Producers, ReserveOverrun(p) PROVE Goal
  BY <1>5 DEF ReserveOverrun, InOrder
<1>6. ASSUME NEW p \in Producers, WritePrefix(p) \/ WriteArgs(p) PROVE Goal
  <2>1. InOrder /\ UNCHANGED <<has_data, owner, popped, Copied, pushes, ticket>>
    <3>1. UNCHANGED <<has_data, owner, popped, pushes, ticket, lost, lapped, slot>>
      BY <1>6 DEF WritePrefix, WriteArgs, history
    <3>2. \A c \in Consumers : pc'[c] = pc[c]
      BY <1>0, <1>6 DEF WritePrefix, WriteArgs, Goto, TypeOK, Threads
    <3> QED
      BY <3>1, <3>2 DEF Copied, InOrder
  <2>2. \A q \in Producers : pc'[q] \in {"mask", "lock", "spin"} => pc[q] \in {"mask", "lock", "spin"}
    BY <1>0, <1>6 DEF WritePrefix, WriteArgs, Goto, TypeOK, Threads
  <2> QED
    BY <2>1, <2>2, <1>b, <1>c
<1>7. ASSUME NEW p \in Producers, CommitPush(p) PROVE Goal
  <2>1. InOrder /\ UNCHANGED <<has_data, owner, popped, Copied>>
    BY <1>0, <1>7 DEF CommitPush, Goto, TypeOK, Threads, Copied, InOrder
  <2>2. /\ pushes' = pushes
        /\ \A q \in Producers : pc'[q] # "idle" => pc'[q] = pc[q] /\ ticket'[q] = ticket[q]
    BY <1>0, <1>7 DEF CommitPush, Goto, TypeOK, Threads
  <2>3. WaitingInRound'
    BY <2>1, <2>2, <1>a DEF WaitingInRound
  <2> QED
    BY <2>1, <2>3, <1>b
<1>8. ASSUME NEW c \in Consumers, PopCopy(c) PROVE Goal
  <2>1. InOrder /\ UNCHANGED <<pushes, ticket, has_data, owner>> /\ \A p \in Producers : pc'[p] = pc[p]
    BY <1>0, <1>8 DEF PopCopy, Goto, TypeOK, Threads, InOrder
  <2>2. WaitingInRound'
    BY <2>1, <1>c
  <2>3. CASE has_data[slot[c]]
    BY <1>8, <2>1, <2>2, <2>3, <1>a, CopiedInOrder
  <2>4. CASE ~has_data[slot[c]]
    <3>1. UNCHANGED <<popped, Copied>>
      BY <1>0, <1>8, <2>4 DEF PopCopy, Goto, TypeOK, Threads, Copied
    <3> QED
      BY <2>1, <2>2, <3>1, <1>b
  <2> QED
    BY <2>3, <2>4
<1>9. ASSUME NEW c \in Consumers, PopRecycle(c) PROVE Goal
  <2>1. InOrder /\ UNCHANGED <<pushes, ticket, popped>> /\ \A p \in Producers : pc'[p] = pc[p]
    BY <1>0, <1>9 DEF PopRecycle, Goto, TypeOK, Threads, InOrder
  <2>2. WaitingInRound'
    BY <2>1, <1>c
  <2>3. c \in Threads /\ slot[c] \in Slots /\ HoldsLock(c) /\ slot' = slot
    BY <1>0, <1>9 DEF PopRecycle, HoldsLock, TypeOK, Threads
  <2>4. /\ \A i \in Slots : owner'[i] = IF i = slot[c] THEN 0 ELSE owner[i]
        /\ Occupied' = Occupied \ {slot[c]}
    BY <1>0, <1>9, <2>3 DEF PopRecycle, ClearHasData, TypeOK, Occupied
  <2>5. \A i \in Copied : i # slot[c] => i \in Copied'
    BY <1>0, <1>9, <2>3 DEF PopRecycle, Goto, TypeOK, Threads, Copied
  <2>6. OwnersInRound'
    BY <1>a, <2>1, <2>4, <2>5 DEF OwnersInRound, Occupied
  <2>7. DeliveredInOrder'
    BY <1>a, <2>1 DEF DeliveredInOrder
  <2> QED
    BY <2>2, <2>6, <2>7
<1> HIDE DEF Goal
<1> QED
  BY <1>0, <1>1, <1>2, <1>3, <1>4, <1>5, <1>6, <1>7, <1>8, <1>9, StepCases

-----------------------------------------------------------------------------
(* A pop that fails.                                                       *)

(* A consumer that goes from the test of the tail back to its loop found   *)
(* the tail empty.                                                         *)
LEMMA FailedTest ==
  ASSUME TypeOK, [Next]_vars, NEW c \in Consumers, pc[c] = "test", pc'[c] = "load"
  PROVE  ~has_data[tail]
<1> USE ThreadsAssumption
<1>1. ASSUME NEW p \in Producers, ReserveIncHead(p) \/ FinishPush(p) PROVE pc'[c] = pc[c]
  BY <1>1 DEF ReserveIncHead, FinishPush, ReserveMaskHead, LockElement, SpinElement, CountWait,
    ReserveTake, ReserveOverrun, ReserveCountOverflow, ReserveCountResettable, WritePrefix,
    WriteArgs, CommitPush, Goto, TypeOK, Threads
<1>2. ASSUME NEW e \in Consumers, e # c, PopAndProcess(e) PROVE pc'[c] = pc[c]
  BY <1>2 DEF PopAndProcess, LoadOverflow, ResetOverflow, WriteBackOverflow, PopTest, LockElement, SpinElement,
    CountWait, PopCopy, PopRecycle, PopUnlock, Goto, TypeOK, Threads
<1>3. CASE PopAndProcess(c)
  <2>1. PopTest(c)
    BY <1>3 DEF PopAndProcess, LoadOverflow, ResetOverflow, WriteBackOverflow, LockElement, SpinElement, CountWait,
      PopCopy, PopRecycle, PopUnlock
  <2> QED
    BY <2>1 DEF PopTest, TailHasData, Goto, TypeOK, Threads
<1>4. CASE UNCHANGED vars
  BY <1>4 DEF vars
<1> QED
  BY <1>1, <1>2, <1>3, <1>4 DEF Next

(* Nothing waits, nothing was lost and the slot at the tail is empty: then *)
(* everything was delivered.  The pushes whose turn the tail is are all    *)
(* delivered, each at a position whose turn the tail is, and there are not *)
(* enough of these before the end unless the pushes have ended too.        *)
LEMMA EmptyAtTail ==
  ASSUME IndInv, PlaceInv, RoundInv, TailInv, lost = {}, AllIdle, Copied = {}, ~has_data[tail]
  PROVE  Occupied = {}
<1> DEFINE L == Len(popped)
           delivered == {popped[k][1] : k \in DOMAIN popped}
           A == {n \in 0..L : Mask(n) = tail}
           B == {n \in 0..(L - 1) : Mask(n) = tail}
<1>0. /\ pushes \in Nat /\ popped \in Seq(Texts) /\ L \in Nat /\ DOMAIN popped = 1..L
      /\ tail = Mask(L) /\ tail \in Slots
  BY BoundsAssumption DEF IndInv, LockPart, TypeOK, TailInv
<1>1. Conservation
  BY PlacesConserved
<1>2. Waiting = {}
  BY DEF Waiting, AllIdle
<1>3. /\ \A n \in 0..(pushes - 1) : n \in Buffered \/ n \in delivered
      /\ delivered \subseteq 0..(pushes - 1)
      /\ Cardinality(delivered) = L
      /\ \A n \in Buffered : n \notin delivered
  <2>1. /\ Waiting \cup Buffered \cup lost \cup delivered = 0..(pushes - 1)
        /\ Cardinality(delivered) = L
    BY <1>1, Conserved
  <2>2. \A n \in Buffered : n \notin delivered
    BY DEF PlaceInv, OnePlace, DeliveredSet, DeliveredSeq
  <2> QED
    BY <1>2, <2>1, <2>2
<1>4. ASSUME NEW n \in 0..(pushes - 1), Mask(n) = tail
      PROVE  \E k \in 1..L : popped[k][1] = n /\ Mask(k - 1) = tail
  <2>1. n \notin Buffered
    BY <1>4 DEF Buffered, RoundInv, Occupied
  <2>2. PICK k \in DOMAIN popped : popped[k][1] = n
    BY <1>3, <2>1
  <2>3. Mask(k - 1) = Mask(n)
    BY <2>2 DEF TailInv
  <2> QED
    BY <1>0, <1>4, <2>2, <2>3
<1>5. ASSUME L < pushes PROVE FALSE
  <2> DEFINE f == [n \in A |-> CHOOSE k \in B : popped[k + 1][1] = n]
  <2>1. \A n \in A : \E k \in B : popped[k + 1][1] = n
    <3> SUFFICES ASSUME NEW n \in A PROVE \E k \in B : popped[k + 1][1] = n
      OBVIOUS
    <3>1. n \in 0..(pushes - 1) /\ Mask(n) = tail
      BY <1>0, <1>5
    <3>2. PICK k \in 1..L : popped[k][1] = n /\ Mask(k - 1) = tail
      BY <1>4, <3>1
    <3>3. k - 1 \in 0..(L - 1) /\ (k - 1) + 1 = k
      BY <1>0, <3>2
    <3> QED
      BY <3>2, <3>3
  <2>2. f \in [A -> B] /\ \A n \in A : popped[f[n] + 1][1] = n
    BY <2>1
  <2>3. \A n, m \in A : f[n] = f[m] => n = m
    <3> HIDE DEF f
    <3> QED
      BY <2>2
  <2>4. IsFiniteSet(A) /\ B = A \ {L} /\ L \in A
    <3>1. IsFiniteSet(0..L) /\ A \in SUBSET (0..L)
      BY <1>0, FS_Interval
    <3>2. IsFiniteSet(A)
      BY <3>1, FS_Subset
    <3>3. B = A \ {L} /\ L \in A
      BY <1>0
    <3> QED
      BY <3>2, <3>3
  <2> HIDE DEF A, B, f, L
  <2>5. f \in Injection(A, B)
    BY <2>2, <2>3, Fun_IsInj
  <2>6. IsFiniteSet(B)
    BY <2>4, FS_Subset
  <2>7. Cardinality(A) <= Cardinality(B)
    BY <2>5, <2>6, FS_Injection
  <2>8. Cardinality(B) = Cardinality(A) - 1 /\ Cardinality(A) \in Nat
    BY <2>4, FS_RemoveElement, FS_CardinalityType
  <2> QED
    BY <2>7, <2>8
<1>6. delivered = 0..(pushes - 1)
  <2> HIDE DEF delivered, L
  <2>1. IsFiniteSet(0..(pushes - 1)) /\ Cardinality(0..(pushes - 1)) = pushes
    BY <1>0, FS_Interval
  <2>2. delivered \in SUBSET (0..(pushes - 1)) /\ IsFiniteSet(0..(pushes - 1))
    BY <1>3, <2>1
  <2>3. /\ Cardinality(delivered) <= Cardinality(0..(pushes - 1))
        /\ Cardinality(0..(pushes - 1)) = Cardinality(delivered) => 0..(pushes - 1) = delivered
    BY <2>2, FS_Subset
  <2>4. L = pushes
    BY <1>0, <1>3, <1>5, <2>1, <2>3
  <2> QED
    BY <1>3, <2>1, <2>3, <2>4
<1>7. Buffered = {}
  <2>1. Buffered \subseteq 0..(pushes - 1)
    BY <1>1, Conserved
  <2> QED
    BY <1>3, <1>6, <2>1
<1> QED
  BY <1>7 DEF Buffered

-----------------------------------------------------------------------------
(* The theorems.                                                           *)

(* What holds with any number of consumers.                                *)
RingInv ==
  IndInv /\ TornInv /\ PlaceInv /\ CountInv /\ RoundInv /\ HeldInv /\ WrapInv /\ WriterInv

(* What holds with one consumer at a time.                                 *)
OneConsumerInv == ReportInv /\ TailInv /\ FifoInv

(* The constructor sets up a ring in which both hold.                      *)
LEMMA InitRingInv == Init => RingInv /\ OneConsumerInv
<1> SUFFICES ASSUME Init PROVE RingInv /\ OneConsumerInv
  OBVIOUS
<1>0. IndInv /\ pushes = 0 /\ head = 0 /\ tail = 0 /\ lost = {} /\ popped = <<>> /\ 0 \in Slots
  BY InitIndInv, SlotsAreNumbers DEF Init
<1>1. /\ \A p \in Producers : pc[p] = "idle"
      /\ \A c \in Consumers : pc[c] = "load"
      /\ \A i \in Slots : elements[i] = <<>> /\ ~has_data[i] /\ ~busy[i]
  BY ThreadsAssumption DEF Init, Threads
<1>2. Occupied = {} /\ Counting = {} /\ CountingAgain = {} /\ Masking = {}
  BY <1>1 DEF Occupied, Counting, CountingAgain, Masking
<1>3. Cardinality({}) = 0
  BY FS_EmptySet
<1>4. TornInv /\ WriterInv /\ HeldInv
  BY <1>0, <1>1 DEF TornInv, NoTornMessage, WriterInv, HeldInv
<1>5. PlaceInv
  BY <1>0, <1>2 DEF PlaceInv, OnePlace, EveryPush, Buffered, DeliveredSet, DeliveredSeq
<1>6. CountInv
  BY <1>0, <1>2, <1>3 DEF CountInv, Init
<1>7. RoundInv
  <2>1. Cardinality(Masking) = 0
    BY <1>2, <1>3
  <2>2. head <= Capacity + Cardinality(Masking)
    BY <1>0, <2>1, CapacityPositive
  <2> QED
    BY <1>0, <1>1, <1>2, <2>2 DEF RoundInv, RoundRobin, Masking
<1>8. WrapInv
  BY <1>0, <1>1 DEF WrapInv, Active
<1>9. ReportInv
  BY <1>1, <1>2, <1>3 DEF ReportInv, Init
<1>10. TailInv
  BY <1>0, <1>1, MaskSmall DEF TailInv
<1>11. FifoInv
  BY <1>0, <1>1, <1>2 DEF FifoInv
<1> QED
  BY <1>0, <1>4, <1>5, <1>6, <1>7, <1>8, <1>9, <1>10, <1>11 DEF RingInv, OneConsumerInv

(* Every step keeps what holds with any number of consumers.               *)
LEMMA NextRingInv == RingInv /\ [Next]_vars => RingInv'
<1> SUFFICES ASSUME RingInv, [Next]_vars PROVE RingInv'
  OBVIOUS
<1>1. IndInv'
  BY NextTypeOK, LockStep, TicketStep, FlagStep, OwnerStep, TextStep DEF RingInv, IndInv, LockPart
<1>2. TypeOK
  BY DEF RingInv, IndInv, LockPart
<1> QED
  BY <1>1, <1>2, TornStep, PlaceStep, CountStep, RoundStep, HeldStep, WrapStep, WriterStep DEF RingInv

(* Every step with one consumer at a time keeps the rest.                  *)
LEMMA NextOneConsumerInv == RingInv /\ OnePops /\ OneConsumerInv /\ [Next]_vars => OneConsumerInv'
BY ReportStep, TailStep, FifoStep DEF RingInv, OneConsumerInv

(* The invariant holds with any number of consumers.                       *)
LEMMA RingInductive == Spec => []RingInv
BY InitRingInv, NextRingInv, PTL DEF Spec

(* The rest holds as long as one consumer pops at a time.                  *)
LEMMA OneConsumerInductive == Spec /\ []OnePops => []OneConsumerInv
BY InitRingInv, RingInductive, NextOneConsumerInv, PTL DEF Spec

(* pop never copies a message that its producer is still formatting in the *)
(* slot, with any number of producers and consumers.                       *)
THEOREM NeverTorn == Spec => []NoTornMessage
<1>1. RingInv => NoTornMessage
  BY DEF RingInv, TornInv
<1> QED
  BY <1>1, RingInductive, PTL

(* No push disappears and none is delivered twice: each waits for its      *)
(* slot, is in the buffer, is counted as lost or was copied out once.      *)
THEOREM NothingLostUncounted == Spec => []Conservation
<1>1. RingInv => Conservation
  BY PlacesConserved DEF RingInv
<1> QED
  BY <1>1, RingInductive, PTL

(* The inc and the &= on head, which are not one atomic step, still hand   *)
(* the slots out round robin, however many producers race.                 *)
THEOREM SlotsRoundRobin == Spec => []RoundRobin
<1>1. RingInv => RoundRobin
  BY DEF RingInv, RoundInv
<1> QED
  BY <1>1, RingInductive, PTL

(* Until the head wraps no producer spins in lock_element, whatever the    *)
(* consumers do.                                                           *)
THEOREM NoWaitBeforeWrap == Spec => []ProducersWaitOnlyAfterWrap
<1>1. RingInv => ProducersWaitOnlyAfterWrap
  BY DEF RingInv, WrapInv, ProducersWaitOnlyAfterWrap, Active
<1> QED
  BY <1>1, RingInductive, PTL

(* overflow_counter counts each overrun once and, with one consumer at a   *)
(* time, the dump never reports more losses than were counted although     *)
(* get_and_reset_overflow_counter reads and resets in two steps.           *)
THEOREM NeverOverreported == Spec /\ []OnePops => []OverflowsNotOverreported
<1>1. RingInv /\ OneConsumerInv => OverflowsNotOverreported
  <2> SUFFICES ASSUME RingInv, OneConsumerInv PROVE OverflowsNotOverreported
    OBVIOUS
  <2>1. /\ Cardinality(CountingAgain) \in Nat /\ overflow_counter \in Nat
        /\ reported \in Nat /\ resettable_overflow_counter \in Nat
    BY CountsFinite DEF RingInv, IndInv, LockPart, TypeOK
  <2>2. reported + resettable_overflow_counter <= overflow_counter
    BY <2>1 DEF OneConsumerInv, ReportInv
  <2>3. overflow_counter + Cardinality({p \in Producers : pc[p] = "count"}) = Cardinality(lost)
    BY DEF RingInv, CountInv, Counting
  <2> QED
    BY <2>2, <2>3 DEF OverflowsNotOverreported
<1> QED
  BY <1>1, RingInductive, OneConsumerInductive, PTL

(* With one consumer at a time, and as long as nothing is lost and nobody  *)
(* is a round behind, the messages come out whole and in push order.       *)
THEOREM DeliveredFifo == Spec /\ []OnePops => []FifoUnlessLapped
<1>1. OneConsumerInv => FifoUnlessLapped
  BY DEF OneConsumerInv, FifoInv, FifoUnlessLapped
<1> QED
  BY <1>1, OneConsumerInductive, PTL

(* With one consumer at a time, a pop that returns false while no push is  *)
(* in progress and none was lost left nothing in the ring.                 *)
THEOREM FailedPopMeansEmpty == Spec /\ []OnePops => EmptyWhenPopFails
<1>1. ASSUME RingInv, OneConsumerInv, OnePops, [Next]_vars
      PROVE  [\A c \in Consumers :
                pc[c] = "test" /\ pc'[c] = "load" /\ lost = {} /\ AllIdle => Occupied = {}]_vars
  <2> SUFFICES ASSUME NEW c \in Consumers, pc[c] = "test", pc'[c] = "load", lost = {}, AllIdle
               PROVE  Occupied = {}
    OBVIOUS
  <2>1. ~has_data[tail]
    BY <1>1, FailedTest DEF RingInv, IndInv, LockPart
  <2>2. Copied = {}
    BY <1>1 DEF OnePops, Copied
  <2> QED
    BY <1>1, <2>1, <2>2, EmptyAtTail DEF RingInv, OneConsumerInv
<1> QED
  BY <1>1, RingInductive, OneConsumerInductive, PTL DEF Spec, EmptyWhenPopFails
=============================================================================
