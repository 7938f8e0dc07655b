-------------------- MODULE TraceMessageRingBufferProofs --------------------
(***************************************************************************)
(* Proofs about the ring buffer, for every number of producers, consumers, *)
(* slots, message parts and pushes.                                        *)
(***************************************************************************)
EXTENDS TraceMessageRingBuffer, FiniteSetTheorems, FunctionTheorems, SequenceTheorems, TLAPS

-----------------------------------------------------------------------------
(* Type correctness.                                                       *)

(* There is at least one slot.                                             *)
LEMMA CapacityPositive == Capacity \in Nat /\ Capacity > 0
BY CapacityAssumption

(* "& (capacity - 1)" always yields the index of a slot.                   *)
LEMMA MaskInSlots == \A x \in Nat : Mask(x) \in Slots
BY CapacityPositive DEF Mask, Slots

(* Slots are the numbers below the capacity.                               *)
LEMMA SlotsAreNumbers ==
  /\ 0 \in Slots
  /\ \A i \in Slots : i \in Nat
  /\ \A x \in Nat : x < Capacity => x \in Slots
BY CapacityPositive DEF Slots

(* A thread is a producer or a consumer, never both.                       *)
LEMMA ThreadInOneRole ==
  ASSUME NEW t \in Threads
  PROVE  (t \in Producers /\ t \notin Consumers) \/ (t \in Consumers /\ t \notin Producers)
BY ThreadsAssumption DEF Threads

(* The constructor sets up a well-typed ring.                              *)
LEMMA InitTypeOK == Init => TypeOK
<1> SUFFICES ASSUME Init PROVE TypeOK
  OBVIOUS
<1>1. 0 \in Slots
  BY CapacityPositive DEF Slots
<1>2. \A t \in Threads : pc[t] = IF t \in Producers THEN "idle" ELSE "load"
  BY DEF Init
<1>3. \A c \in Consumers : pc[c] \in ConsumerLabels
  BY <1>2, ThreadsAssumption DEF Threads, ConsumerLabels
<1>4. \A p \in Producers : pc[p] \in ProducerLabels
  BY <1>2 DEF Threads, ProducerLabels
<1>5. pc \in [Threads -> ProducerLabels \cup ConsumerLabels]
  BY DEF Init, ProducerLabels, ConsumerLabels
<1> QED
  BY <1>1, <1>3, <1>4, <1>5, BoundsAssumption DEF Init, TypeOK, Texts, Threads

(* Every step of a producer or a consumer keeps the types.                 *)
LEMMA NextTypeOK == TypeOK /\ [Next]_vars => TypeOK'
<1> SUFFICES ASSUME TypeOK, [Next]_vars PROVE TypeOK'
  OBVIOUS
<1> USE CapacityPositive, SlotsAreNumbers, BoundsAssumption, ThreadsAssumption
<1>1. ASSUME NEW p \in Producers, ReserveIncHead(p) PROVE TypeOK'
  BY <1>1 DEF ReserveIncHead, Goto, TypeOK, ProducerLabels, Threads, overflows, waits
<1>2. ASSUME NEW p \in Producers, ReserveMaskHead(p) PROVE TypeOK'
  BY <1>2, MaskInSlots DEF ReserveMaskHead, HeadWrapped, Goto, TypeOK, ProducerLabels,
    Threads, overflows,
    waits, history
<1>3. ASSUME NEW t \in Threads, LockElement(t) PROVE TypeOK'
  BY <1>3 DEF LockElement, LockFree, AfterLock, Goto, TypeOK, ProducerLabels,
    ConsumerLabels, Threads,
    overflows, waits, history
<1>4. ASSUME NEW t \in Threads, SpinElement(t) PROVE TypeOK'
  BY <1>4 DEF SpinElement, Goto, TypeOK, ProducerLabels, ConsumerLabels, Threads,
    ring, overflows, waits, history
<1>5. ASSUME NEW t \in Threads, CountWait(t) PROVE TypeOK'
  <2>1. /\ pc' \in [Threads -> ProducerLabels \cup ConsumerLabels]
        /\ \A p \in Producers : pc'[p] \in ProducerLabels
        /\ \A c \in Consumers : pc'[c] \in ConsumerLabels
    BY <1>5, ThreadInOneRole DEF CountWait, AfterLock, Goto, TypeOK, ProducerLabels,
      ConsumerLabels, Threads
  <2>2. \A u \in Threads : pc'[u] # "mask" => slot[u] \in Slots
    BY <1>5 DEF CountWait, Goto, TypeOK
  <2>3. /\ spinlock_consumer_wait_counter' \in Nat
        /\ spinlock_producer_wait_counter' \in Nat
    BY <1>5 DEF CountWait, TypeOK
  <2> QED
    BY <1>5, <2>1, <2>2, <2>3 DEF CountWait, TypeOK, ring, overflows, history
<1>6. ASSUME NEW p \in Producers, ReserveTake(p) PROVE TypeOK'
  BY <1>6 DEF ReserveTake, Goto, TypeOK, ProducerLabels, Threads, overflows, waits
<1>7. ASSUME NEW p \in Producers, ReserveOverrun(p) PROVE TypeOK'
  <2>1. p \in Threads /\ lost' \subseteq Nat
    BY <1>7 DEF ReserveOverrun, TypeOK, Threads
  <2> QED
    BY <1>7, <2>1 DEF ReserveOverrun, Goto, TypeOK, ProducerLabels, Threads, ring,
      overflows, waits
<1>8. ASSUME NEW p \in Producers, ReserveCountOverflow(p) PROVE TypeOK'
  BY <1>8 DEF ReserveCountOverflow, Goto, TypeOK, ProducerLabels, Threads, ring, waits, history
<1>9. ASSUME NEW p \in Producers, ReserveCountResettable(p) PROVE TypeOK'
  BY <1>9 DEF ReserveCountResettable, Goto, TypeOK, ProducerLabels, Threads, ring, waits,
    history
<1>10. ASSUME NEW p \in Producers, WritePrefix(p) PROVE TypeOK'
  <2>1. p \in Threads /\ slot[p] \in Slots /\ ticket[p] \in Nat
    BY <1>10 DEF WritePrefix, TypeOK, Threads
  <2>2. elements' \in [Slots -> Texts]
    BY <1>10, <2>1 DEF WritePrefix, WritePart, TypeOK, Texts
  <2> QED
    BY <1>10, <2>1, <2>2 DEF WritePrefix, Goto, TypeOK, ProducerLabels, Threads,
      overflows, waits, history
<1>11. ASSUME NEW p \in Producers, WriteArgs(p) PROVE TypeOK'
  <2>1. p \in Threads /\ slot[p] \in Slots /\ ticket[p] \in Nat
    BY <1>11 DEF WriteArgs, TypeOK, Threads
  <2>2. elements' \in [Slots -> Texts]
    BY <1>11, <2>1 DEF WriteArgs, WritePart, TypeOK, Texts
  <2> QED
    BY <1>11, <2>1, <2>2 DEF WriteArgs, Goto, TypeOK, ProducerLabels, Threads,
      overflows, waits, history
<1>12. ASSUME NEW p \in Producers, CommitPush(p) PROVE TypeOK'
  BY <1>12 DEF CommitPush, UnlockElement, Goto, TypeOK, ProducerLabels, Threads, overflows,
    waits
<1>13. ASSUME NEW c \in Consumers, LoadOverflow(c) PROVE TypeOK'
  BY <1>13 DEF LoadOverflow, Goto, TypeOK, ConsumerLabels, Threads, ring, overflows, waits,
    history
<1>14. ASSUME NEW c \in Consumers, ResetOverflow(c) PROVE TypeOK'
  BY <1>14 DEF ResetOverflow, CounterReset, Goto, TypeOK, ConsumerLabels, Threads, ring, waits
<1>15. ASSUME NEW c \in Consumers, PopTest(c) PROVE TypeOK'
  BY <1>15 DEF PopTest, TailHasData, Goto, TypeOK, ConsumerLabels, Threads, ring, overflows,
    waits, history
<1>16. ASSUME NEW c \in Consumers, PopCopy(c) PROVE TypeOK'
  <2>1. c \in Threads /\ slot[c] \in Slots /\ tail + 1 \in Nat /\ elements[slot[c]] \in Texts
    BY <1>16 DEF PopCopy, TailAdvanced, TypeOK, Threads
  <2>2. CASE has_data[slot[c]]
    <3>1. tail' \in Slots
      BY <1>16, <2>1, <2>2, MaskInSlots DEF PopCopy, TailAdvanced
    <3>2. popped' \in Seq(Texts)
      <4>1. popped' = Append(popped, elements[slot[c]])
        BY <1>16, <2>2 DEF PopCopy, TailAdvanced
      <4>2. popped \in Seq(Texts)
        BY DEF TypeOK
      <4> QED
        BY <2>1, <4>1, <4>2, AppendProperties
    <3> QED
      BY <1>16, <2>1, <2>2, <3>1, <3>2 DEF PopCopy, TailAdvanced, Goto, TypeOK,
        ConsumerLabels, Threads,
        overflows, waits
  <2>3. CASE ~has_data[slot[c]]
    BY <1>16, <2>1, <2>3 DEF PopCopy, TailAdvanced, Goto, TypeOK, ConsumerLabels, Threads,
      overflows, waits
  <2> QED
    BY <2>2, <2>3
<1>17. ASSUME NEW c \in Consumers, PopRecycle(c) PROVE TypeOK'
  BY <1>17 DEF PopRecycle, Recycle, ClearHasData, Goto, TypeOK, ConsumerLabels, Threads,
    Texts, overflows, waits
<1>18. ASSUME NEW c \in Consumers, PopUnlock(c) PROVE TypeOK'
  BY <1>18 DEF PopUnlock, UnlockElement, Goto, TypeOK, ConsumerLabels, Threads, overflows,
    waits, history
<1>19. CASE UNCHANGED vars
  BY <1>19 DEF vars, ring, overflows, waits, history, TypeOK
<1>20. ASSUME NEW c \in Consumers, WriteBackOverflow(c) PROVE TypeOK'
  BY <1>20 DEF WriteBackOverflow, TypeOK, ConsumerLabels, Threads, ring, waits, history
<1> QED
  BY <1>1, <1>2, <1>3, <1>4, <1>5, <1>6, <1>7, <1>8, <1>9, <1>10, <1>11, <1>12, <1>13,
    <1>14, <1>15, <1>16, <1>17, <1>18, <1>19, <1>20
    DEF Next, FinishPush, PopAndProcess, Threads

(* Every variable keeps its type and every thread past the masking has the *)
(* index of an existing slot: reserve_push and pop never leave the arrays. *)
THEOREM TypeCorrect == Spec => []TypeOK
BY InitTypeOK, NextTypeOK, PTL DEF Spec

-----------------------------------------------------------------------------
(* The inductive invariant.                                                *)

(* The flag of a slot is set while a thread works on it.                   *)
LockInv == \A t \in Threads : HoldsLock(t) => busy[slot[t]]

Active(p) == pc[p] # "idle"

(* No two pushes in progress have the same ticket.                         *)
TicketInv ==
  /\ \A p \in Producers : Active(p) => ticket[p] < pushes
  /\ \A p, q \in Producers : Active(p) /\ Active(q) /\ ticket[p] = ticket[q] => p = q

Unplaced(p) == pc[p] \in {"mask", "lock", "spin", "count_wait", "test_and_set"}

(* A push that has not reached test_and_set is neither in the buffer, nor  *)
(* lost, nor delivered; no push has two slots.                             *)
OwnerInv ==
  /\ lost \subseteq 0..(pushes - 1)
  /\ \A i \in Occupied : owner[i] < pushes
  /\ \A k \in DOMAIN popped : popped[k] # <<>> /\ popped[k][1] < pushes
  /\ \A i, j \in Occupied : owner[i] = owner[j] => i = j
  /\ \A p \in Producers : Unplaced(p) =>
       /\ ticket[p] \notin lost
       /\ \A i \in Occupied : owner[i] # ticket[p]
       /\ \A k \in DOMAIN popped : popped[k][1] # ticket[p]

(* An occupied slot begins with the prefix of the push that occupied it,   *)
(* unless that push is still about to write it.                            *)
TextInv ==
  /\ \A i \in Slots : ~has_data[i] => elements[i] = <<>>
  /\ \A i \in Occupied :
       \/ elements[i] # <<>> /\ elements[i][1] = owner[i]
       \/ /\ elements[i] = <<>>
          /\ \E p \in Producers : pc[p] = "prefix" /\ slot[p] = i /\ ticket[p] = owner[i]

(* A slot is occupied from test_and_set to commit_push, and until it is    *)
(* recycled.                                                               *)
FlagInv ==
  /\ \A p \in Producers :
       pc[p] \in {"count", "count_resettable", "prefix", "args", "commit"} => has_data[slot[p]]
  /\ \A c \in Consumers : pc[c] = "recycle" => has_data[slot[c]]

LockPart == TypeOK /\ LockInv /\ MutualExclusion
IndInv == LockPart /\ TicketInv /\ FlagInv /\ OwnerInv /\ TextInv

(* Every step keeps the slot locks exclusive: a lock is taken only when    *)
(* the flag is clear and cleared only by its holder.                       *)
LEMMA LockStep ==
  ASSUME LockPart, [Next]_vars
  PROVE  (LockInv /\ MutualExclusion)'
<1> USE DEF LockPart
<1> DEFINE Goal == (LockInv /\ MutualExclusion)'
<1>1. ASSUME NEW p \in Producers, ReserveIncHead(p) PROVE Goal
  BY <1>1 DEF ReserveIncHead, Goto, TypeOK, LockInv, MutualExclusion, HoldsLock, Threads
<1>2. ASSUME NEW p \in Producers, ReserveMaskHead(p) PROVE Goal
  BY <1>2 DEF ReserveMaskHead, HeadWrapped, Goto, TypeOK, LockInv, MutualExclusion,
    HoldsLock, Threads
<1>3. ASSUME NEW p \in Producers, ReserveTake(p) PROVE Goal
  BY <1>3 DEF ReserveTake, Goto, TypeOK, LockInv, MutualExclusion, HoldsLock, Threads
<1>4. ASSUME NEW p \in Producers, ReserveOverrun(p) PROVE Goal
  BY <1>4 DEF ReserveOverrun, Goto, TypeOK, LockInv, MutualExclusion, HoldsLock, Threads, ring
<1>5. ASSUME NEW p \in Producers, ReserveCountOverflow(p) PROVE Goal
  BY <1>5 DEF ReserveCountOverflow, Goto, TypeOK, LockInv, MutualExclusion, HoldsLock,
    Threads, ring
<1>6. ASSUME NEW p \in Producers, ReserveCountResettable(p) PROVE Goal
  BY <1>6 DEF ReserveCountResettable, Goto, TypeOK, LockInv, MutualExclusion, HoldsLock,
    Threads, ring
<1>7. ASSUME NEW p \in Producers, WritePrefix(p) PROVE Goal
  BY <1>7 DEF WritePrefix, Goto, TypeOK, LockInv, MutualExclusion, HoldsLock, Threads
<1>8. ASSUME NEW p \in Producers, WriteArgs(p) PROVE Goal
  BY <1>8 DEF WriteArgs, Goto, TypeOK, LockInv, MutualExclusion, HoldsLock, Threads
<1>9. ASSUME NEW p \in Producers, CommitPush(p) PROVE Goal
  BY <1>9 DEF CommitPush, UnlockElement, Goto, TypeOK, LockInv, MutualExclusion, HoldsLock,
    Threads
<1>10. ASSUME NEW t \in Threads, LockElement(t) PROVE Goal
  BY <1>10 DEF LockElement, LockFree, Goto, TypeOK, LockInv, MutualExclusion, HoldsLock,
    Threads,
    AfterLock
<1>11. ASSUME NEW t \in Threads, SpinElement(t) PROVE Goal
  BY <1>11 DEF SpinElement, Goto, TypeOK, LockInv, MutualExclusion, HoldsLock, Threads, ring
<1>12. ASSUME NEW t \in Threads, CountWait(t) PROVE Goal
  BY <1>12 DEF CountWait, Goto, TypeOK, LockInv, MutualExclusion, HoldsLock, Threads,
    AfterLock, ring
<1>13. ASSUME NEW c \in Consumers, LoadOverflow(c) PROVE Goal
  BY <1>13 DEF LoadOverflow, Goto, TypeOK, LockInv, MutualExclusion, HoldsLock, Threads, ring
<1>14. ASSUME NEW c \in Consumers, ResetOverflow(c) PROVE Goal
  BY <1>14 DEF ResetOverflow, CounterReset, Goto, TypeOK, LockInv, MutualExclusion,
    HoldsLock, Threads, ring
<1>15. ASSUME NEW c \in Consumers, PopTest(c) PROVE Goal
  BY <1>15 DEF PopTest, TailHasData, Goto, TypeOK, LockInv, MutualExclusion, HoldsLock,
    Threads, ring
<1>16. ASSUME NEW c \in Consumers, PopCopy(c) PROVE Goal
  BY <1>16 DEF PopCopy, TailAdvanced, Goto, TypeOK, LockInv, MutualExclusion, HoldsLock, Threads
<1>17. ASSUME NEW c \in Consumers, PopRecycle(c) PROVE Goal
  BY <1>17 DEF PopRecycle, Recycle, ClearHasData, Goto, TypeOK, LockInv, MutualExclusion,
    HoldsLock, Threads
<1>18. ASSUME NEW c \in Consumers, PopUnlock(c) PROVE Goal
  BY <1>18 DEF PopUnlock, UnlockElement, Goto, TypeOK, LockInv, MutualExclusion, HoldsLock,
    Threads
<1>19. CASE UNCHANGED vars
  BY <1>19 DEF vars, ring, LockInv, MutualExclusion, HoldsLock
<1>20. ASSUME NEW c \in Consumers, WriteBackOverflow(c) PROVE Goal
  BY <1>20 DEF WriteBackOverflow, TypeOK, LockInv, MutualExclusion, HoldsLock, Threads,
    ring, history
<1> QED
  BY <1>1, <1>2, <1>3, <1>4, <1>5, <1>6, <1>7, <1>8, <1>9, <1>10, <1>11, <1>12, <1>13,
    <1>14, <1>15, <1>16, <1>17, <1>18, <1>19, <1>20
    DEF Next, FinishPush, PopAndProcess, Threads

(* lock_element and unlock_element exclude producers and the consumer from *)
(* each other's slots, for every number of threads and slots.              *)
THEOREM LocksExclude == Spec => []MutualExclusion
<1>1. Init => LockPart
  <2>1. Init => \A t \in Threads : ~HoldsLock(t)
    BY DEF Init, HoldsLock
  <2> QED
    BY <2>1, InitTypeOK DEF LockPart, LockInv, MutualExclusion
<1>2. LockPart /\ [Next]_vars => LockPart'
  BY LockStep, NextTypeOK DEF LockPart
<1>3. LockPart => MutualExclusion
  BY DEF LockPart
<1> QED
  BY <1>1, <1>2, <1>3, PTL DEF Spec

(* head.inc() gives every push in progress a ticket of its own.            *)
LEMMA TicketStep ==
  ASSUME IndInv, [Next]_vars
  PROVE  TicketInv'
<1> USE DEF IndInv, LockPart
<1>1. ASSUME NEW p \in Producers, ReserveIncHead(p) PROVE TicketInv'
  BY <1>1 DEF ReserveIncHead, Goto, TypeOK, Threads, TicketInv, Active
<1>2. ASSUME NEW p \in Producers, ReserveMaskHead(p) PROVE TicketInv'
  BY <1>2 DEF ReserveMaskHead, HeadWrapped, Goto, TypeOK, Threads, TicketInv, Active, history
<1>3. ASSUME NEW p \in Producers, ReserveTake(p) PROVE TicketInv'
  BY <1>3 DEF ReserveTake, Goto, TypeOK, Threads, TicketInv, Active
<1>4. ASSUME NEW p \in Producers, ReserveOverrun(p) PROVE TicketInv'
  BY <1>4 DEF ReserveOverrun, Goto, TypeOK, Threads, TicketInv, Active, ring
<1>5. ASSUME NEW p \in Producers, ReserveCountOverflow(p) PROVE TicketInv'
  BY <1>5 DEF ReserveCountOverflow, Goto, TypeOK, Threads, TicketInv, Active, ring, history
<1>6. ASSUME NEW p \in Producers, ReserveCountResettable(p) PROVE TicketInv'
  BY <1>6 DEF ReserveCountResettable, Goto, TypeOK, Threads, TicketInv, Active, ring, history
<1>7. ASSUME NEW p \in Producers, WritePrefix(p) PROVE TicketInv'
  BY <1>7 DEF WritePrefix, Goto, TypeOK, Threads, TicketInv, Active, history, WritePart, HasRoom
<1>8. ASSUME NEW p \in Producers, WriteArgs(p) PROVE TicketInv'
  BY <1>8 DEF WriteArgs, Goto, TypeOK, Threads, TicketInv, Active, history, WritePart, HasRoom
<1>9. ASSUME NEW p \in Producers, CommitPush(p) PROVE TicketInv'
  BY <1>9 DEF CommitPush, UnlockElement, Goto, TypeOK, Threads, TicketInv, Active
<1>10. ASSUME NEW t \in Threads, LockElement(t) PROVE TicketInv'
  BY <1>10 DEF LockElement, LockFree, Goto, TypeOK, Threads, TicketInv, Active, history,
    AfterLock
<1>11. ASSUME NEW t \in Threads, SpinElement(t) PROVE TicketInv'
  BY <1>11 DEF SpinElement, Goto, TypeOK, Threads, TicketInv, Active, ring, history
<1>12. ASSUME NEW t \in Threads, CountWait(t) PROVE TicketInv'
  BY <1>12 DEF CountWait, Goto, TypeOK, Threads, TicketInv, Active, ring, history, AfterLock
<1>13. ASSUME NEW c \in Consumers, LoadOverflow(c) PROVE TicketInv'
  BY <1>13 DEF LoadOverflow, Goto, TypeOK, Threads, TicketInv, Active, ring, history
<1>14. ASSUME NEW c \in Consumers, ResetOverflow(c) PROVE TicketInv'
  BY <1>14 DEF ResetOverflow, CounterReset, Goto, TypeOK, Threads, TicketInv, Active, ring
<1>15. ASSUME NEW c \in Consumers, PopTest(c) PROVE TicketInv'
  BY <1>15 DEF PopTest, TailHasData, Goto, TypeOK, Threads, TicketInv, Active, ring, history
<1>16. ASSUME NEW c \in Consumers, PopCopy(c) PROVE TicketInv'
  BY <1>16 DEF PopCopy, TailAdvanced, Goto, TypeOK, Threads, TicketInv, Active
<1>17. ASSUME NEW c \in Consumers, PopRecycle(c) PROVE TicketInv'
  BY <1>17 DEF PopRecycle, Recycle, ClearHasData, Goto, TypeOK, Threads, TicketInv, Active
<1>18. ASSUME NEW c \in Consumers, PopUnlock(c) PROVE TicketInv'
  BY <1>18 DEF PopUnlock, UnlockElement, Goto, TypeOK, Threads, TicketInv, Active, history
<1>19. CASE UNCHANGED vars
  BY <1>19 DEF vars, ring, history, TicketInv, Active
<1>20. ASSUME NEW c \in Consumers, WriteBackOverflow(c) PROVE TicketInv'
  BY <1>20 DEF WriteBackOverflow, TypeOK, Threads, TicketInv, Active, ring, history
<1> QED
  BY <1>1, <1>2, <1>3, <1>4, <1>5, <1>6, <1>7, <1>8, <1>9, <1>10, <1>11, <1>12, <1>13,
    <1>14, <1>15, <1>16, <1>17, <1>18, <1>19, <1>20
    DEF Next, FinishPush, PopAndProcess, Threads

(* has_data stays set while a producer writes the slot and while the       *)
(* consumer copies it: nobody else can clear it, because of the lock.      *)
LEMMA FlagStep ==
  ASSUME IndInv, [Next]_vars
  PROVE  FlagInv'
<1> USE DEF IndInv, LockPart
<1>1. ASSUME NEW p \in Producers, ReserveIncHead(p) PROVE FlagInv'
  BY <1>1, ThreadsAssumption DEF ReserveIncHead, Goto, TypeOK, Threads, FlagInv,
    MutualExclusion, HoldsLock
<1>2. ASSUME NEW p \in Producers, ReserveMaskHead(p) PROVE FlagInv'
  BY <1>2, ThreadsAssumption DEF ReserveMaskHead, HeadWrapped, Goto, TypeOK, Threads, FlagInv,
    MutualExclusion, HoldsLock, history
<1>3. ASSUME NEW p \in Producers, ReserveTake(p) PROVE FlagInv'
  BY <1>3, ThreadsAssumption DEF ReserveTake, Goto, TypeOK, Threads, FlagInv,
    MutualExclusion, HoldsLock
<1>4. ASSUME NEW p \in Producers, ReserveOverrun(p) PROVE FlagInv'
  BY <1>4, ThreadsAssumption DEF ReserveOverrun, Goto, TypeOK, Threads, FlagInv,
    MutualExclusion, HoldsLock, ring
<1>5. ASSUME NEW p \in Producers, ReserveCountOverflow(p) PROVE FlagInv'
  BY <1>5, ThreadsAssumption DEF ReserveCountOverflow, Goto, TypeOK, Threads, FlagInv,
    MutualExclusion, HoldsLock, ring, history
<1>6. ASSUME NEW p \in Producers, ReserveCountResettable(p) PROVE FlagInv'
  BY <1>6, ThreadsAssumption DEF ReserveCountResettable, Goto, TypeOK, Threads, FlagInv,
    MutualExclusion, HoldsLock, ring, history
<1>7. ASSUME NEW p \in Producers, WritePrefix(p) PROVE FlagInv'
  BY <1>7, ThreadsAssumption DEF WritePrefix, Goto, TypeOK, Threads, FlagInv,
    MutualExclusion, HoldsLock, history, WritePart, HasRoom
<1>8. ASSUME NEW p \in Producers, WriteArgs(p) PROVE FlagInv'
  BY <1>8, ThreadsAssumption DEF WriteArgs, Goto, TypeOK, Threads, FlagInv, MutualExclusion,
    HoldsLock, history, WritePart, HasRoom
<1>9. ASSUME NEW p \in Producers, CommitPush(p) PROVE FlagInv'
  BY <1>9, ThreadsAssumption DEF CommitPush, UnlockElement, Goto, TypeOK, Threads, FlagInv,
    MutualExclusion, HoldsLock
<1>10. ASSUME NEW t \in Threads, LockElement(t) PROVE FlagInv'
  BY <1>10, ThreadsAssumption DEF LockElement, LockFree, Goto, TypeOK, Threads, FlagInv,
    MutualExclusion, HoldsLock, history, AfterLock
<1>11. ASSUME NEW t \in Threads, SpinElement(t) PROVE FlagInv'
  BY <1>11, ThreadsAssumption DEF SpinElement, Goto, TypeOK, Threads, FlagInv,
    MutualExclusion, HoldsLock, ring, history
<1>12. ASSUME NEW t \in Threads, CountWait(t) PROVE FlagInv'
  BY <1>12, ThreadsAssumption DEF CountWait, Goto, TypeOK, Threads, FlagInv,
    MutualExclusion, HoldsLock, ring, history, AfterLock
<1>13. ASSUME NEW c \in Consumers, LoadOverflow(c) PROVE FlagInv'
  BY <1>13, ThreadsAssumption DEF LoadOverflow, Goto, TypeOK, Threads, FlagInv,
    MutualExclusion, HoldsLock, ring, history
<1>14. ASSUME NEW c \in Consumers, ResetOverflow(c) PROVE FlagInv'
  BY <1>14, ThreadsAssumption DEF ResetOverflow, CounterReset, Goto, TypeOK, Threads, FlagInv,
    MutualExclusion, HoldsLock, ring
<1>15. ASSUME NEW c \in Consumers, PopTest(c) PROVE FlagInv'
  BY <1>15, ThreadsAssumption DEF PopTest, TailHasData, Goto, TypeOK, Threads, FlagInv,
    MutualExclusion,
    HoldsLock, ring, history
<1>16. ASSUME NEW c \in Consumers, PopCopy(c) PROVE FlagInv'
  BY <1>16, ThreadsAssumption DEF PopCopy, TailAdvanced, Goto, TypeOK, Threads, FlagInv,
    MutualExclusion,
    HoldsLock
<1>17. ASSUME NEW c \in Consumers, PopRecycle(c) PROVE FlagInv'
  BY <1>17, ThreadsAssumption DEF PopRecycle, Recycle, ClearHasData, Goto, TypeOK, Threads,
    FlagInv,
    MutualExclusion, HoldsLock
<1>18. ASSUME NEW c \in Consumers, PopUnlock(c) PROVE FlagInv'
  BY <1>18, ThreadsAssumption DEF PopUnlock, UnlockElement, Goto, TypeOK, Threads, FlagInv,
    MutualExclusion, HoldsLock, history
<1>19. CASE UNCHANGED vars
  BY <1>19 DEF vars, ring, history, FlagInv, MutualExclusion, HoldsLock
<1>20. ASSUME NEW c \in Consumers, WriteBackOverflow(c) PROVE FlagInv'
  BY <1>20, ThreadsAssumption DEF WriteBackOverflow, TypeOK, Threads, FlagInv,
    MutualExclusion, HoldsLock, ring, history
<1> QED
  BY <1>1, <1>2, <1>3, <1>4, <1>5, <1>6, <1>7, <1>8, <1>9, <1>10, <1>11, <1>12, <1>13,
    <1>14, <1>15, <1>16, <1>17, <1>18, <1>19, <1>20
    DEF Next, FinishPush, PopAndProcess, Threads

(* OwnerInv survives a step that writes none of its variables and takes no *)
(* push back to before test_and_set.                                       *)
LEMMA OwnerQuiet ==
  ASSUME OwnerInv, UNCHANGED <<has_data, owner, lost, popped, ticket, pushes>>,
         \A p \in Producers : Unplaced(p)' => Unplaced(p)
  PROVE  OwnerInv'
BY DEF OwnerInv, Occupied

(* A thread other than its first producer finds an occupied slot that it   *)
(* has locked written.                                                     *)
LEMMA WrittenWhenLocked ==
  ASSUME IndInv, NEW t \in Threads, HoldsLock(t), slot[t] \in Occupied, pc[t] # "prefix"
  PROVE  elements[slot[t]] # <<>> /\ elements[slot[t]][1] = owner[slot[t]]
<1>1. \A p \in Producers : ~(pc[p] = "prefix" /\ slot[p] = slot[t])
  BY DEF IndInv, LockPart, MutualExclusion, HoldsLock, Threads
<1> QED
  BY <1>1 DEF IndInv, TextInv

(* TextInv survives a step that writes none of its variables and moves no  *)
(* producer away from writing its prefix.                                  *)
LEMMA TextQuiet ==
  ASSUME TextInv, UNCHANGED <<has_data, elements, owner, ticket>>,
         \A p \in Producers : pc[p] = "prefix" => pc'[p] = "prefix" /\ slot'[p] = slot[p]
  PROVE  TextInv'
BY DEF TextInv, Occupied

(* No step gives a push a second slot, or brings back one that is lost or  *)
(* delivered.                                                              *)
LEMMA OwnerStep ==
  ASSUME IndInv, [Next]_vars
  PROVE  OwnerInv'
<1> USE DEF IndInv, LockPart
<1>1. ASSUME NEW p \in Producers, ReserveIncHead(p) PROVE OwnerInv'
  <2>1. /\ pushes \in Nat /\ pushes' = pushes + 1
        /\ ticket \in [Producers -> Nat] /\ ticket' = [ticket EXCEPT ![p] = pushes]
        /\ UNCHANGED <<has_data, owner, lost, popped>>
        /\ owner \in [Slots -> Nat] /\ popped \in Seq(Texts)
    BY <1>1 DEF ReserveIncHead, TypeOK
  <2>2. \A k \in DOMAIN popped : popped[k] # <<>> /\ popped[k][1] \in Nat
    BY <2>1 DEF OwnerInv, Texts
  <2>3. \A q \in Producers : q # p => (Unplaced(q)' => Unplaced(q)) /\ ticket'[q] = ticket[q]
    BY <1>1, <2>1 DEF ReserveIncHead, Goto, TypeOK, Unplaced, Threads
  <2>4. /\ lost' \subseteq 0..(pushes' - 1)
        /\ \A i \in Occupied' : owner'[i] < pushes'
        /\ \A k \in DOMAIN popped' : popped'[k] # <<>> /\ popped'[k][1] < pushes'
    BY <2>1, <2>2 DEF OwnerInv, Occupied
  <2>5. /\ ticket'[p] \notin lost'
        /\ \A i \in Occupied' : owner'[i] # ticket'[p]
        /\ \A k \in DOMAIN popped' : popped'[k][1] # ticket'[p]
    BY <2>1, <2>2 DEF OwnerInv, Occupied
  <2> QED
    BY <2>1, <2>3, <2>4, <2>5 DEF OwnerInv, Occupied
<1>2. ASSUME NEW p \in Producers, ReserveMaskHead(p) PROVE OwnerInv'
  BY <1>2, OwnerQuiet DEF ReserveMaskHead, HeadWrapped, Goto, TypeOK, Threads, Unplaced, history
<1>3. ASSUME NEW p \in Producers, ReserveTake(p) PROVE OwnerInv'
  BY <1>3 DEF ReserveTake, Goto, TypeOK, Threads, OwnerInv, Occupied, Unplaced, TicketInv,
    Active
<1>4. ASSUME NEW p \in Producers, ReserveOverrun(p) PROVE OwnerInv'
  <2>1. /\ ticket[p] \in Nat /\ ticket[p] < pushes /\ pushes \in Nat
        /\ lost' = lost \cup {ticket[p]}
        /\ UNCHANGED <<has_data, owner, popped, ticket, pushes>>
    BY <1>4 DEF ReserveOverrun, TypeOK, TicketInv, Active, ring
  <2>2. \A q \in Producers : Unplaced(q)' => Unplaced(q) /\ q # p
    BY <1>4 DEF ReserveOverrun, Goto, TypeOK, Unplaced, Threads
  <2>3. \A q \in Producers : Unplaced(q)' => ticket[q] # ticket[p]
    BY <1>4, <2>2 DEF ReserveOverrun, TicketInv, Active, Unplaced
  <2>4. lost' \subseteq 0..(pushes' - 1)
    <3>1. lost \subseteq 0..(pushes - 1)
      BY DEF OwnerInv
    <3>2. ticket[p] \in 0..(pushes - 1) /\ pushes' = pushes
      BY <2>1
    <3> QED
      BY <2>1, <3>1, <3>2
  <2>5. \A q \in Producers : Unplaced(q)' => ticket'[q] \notin lost'
    BY <2>1, <2>2, <2>3 DEF OwnerInv
  <2> QED
    BY <2>1, <2>2, <2>4, <2>5 DEF OwnerInv, Occupied
<1>5. ASSUME NEW p \in Producers, ReserveCountOverflow(p) PROVE OwnerInv'
  BY <1>5, OwnerQuiet DEF ReserveCountOverflow, Goto, TypeOK, Threads, Unplaced, ring, history
<1>6. ASSUME NEW p \in Producers, ReserveCountResettable(p) PROVE OwnerInv'
  BY <1>6, OwnerQuiet DEF ReserveCountResettable, Goto, TypeOK, Threads, Unplaced, ring, history
<1>7. ASSUME NEW p \in Producers, WritePrefix(p) PROVE OwnerInv'
  BY <1>7, OwnerQuiet DEF WritePrefix, Goto, TypeOK, Threads, Unplaced, history
<1>8. ASSUME NEW p \in Producers, WriteArgs(p) PROVE OwnerInv'
  BY <1>8, OwnerQuiet DEF WriteArgs, Goto, TypeOK, Threads, Unplaced, history
<1>9. ASSUME NEW p \in Producers, CommitPush(p) PROVE OwnerInv'
  BY <1>9 DEF CommitPush, UnlockElement, Goto, TypeOK, Threads, OwnerInv, Occupied,
    Unplaced, TicketInv, Active
<1>10. ASSUME NEW t \in Threads, LockElement(t) PROVE OwnerInv'
  BY <1>10, OwnerQuiet DEF LockElement, LockFree, Goto, TypeOK, Threads, Unplaced, history,
    AfterLock
<1>11. ASSUME NEW t \in Threads, SpinElement(t) PROVE OwnerInv'
  BY <1>11, OwnerQuiet DEF SpinElement, Goto, TypeOK, Threads, Unplaced, ring, history
<1>12. ASSUME NEW t \in Threads, CountWait(t) PROVE OwnerInv'
  BY <1>12, OwnerQuiet DEF CountWait, Goto, TypeOK, Threads, Unplaced, ring, history, AfterLock
<1>13. ASSUME NEW c \in Consumers, LoadOverflow(c) PROVE OwnerInv'
  BY <1>13, OwnerQuiet, ThreadsAssumption DEF LoadOverflow, Goto, TypeOK, Threads, Unplaced,
    ring, history
<1>14. ASSUME NEW c \in Consumers, ResetOverflow(c) PROVE OwnerInv'
  BY <1>14, OwnerQuiet, ThreadsAssumption DEF ResetOverflow, CounterReset, Goto, TypeOK,
    Threads,
    Unplaced, ring
<1>15. ASSUME NEW c \in Consumers, PopTest(c) PROVE OwnerInv'
  BY <1>15, OwnerQuiet, ThreadsAssumption DEF PopTest, TailHasData, Goto, TypeOK, Threads,
    Unplaced,
    ring, history
<1>16. ASSUME NEW c \in Consumers, PopCopy(c) PROVE OwnerInv'
  <2>1. /\ c \in Threads /\ HoldsLock(c) /\ pc[c] # "prefix"
        /\ slot[c] \in Slots /\ elements[slot[c]] \in Texts
        /\ popped \in Seq(Texts)
        /\ UNCHANGED <<has_data, owner, lost, ticket, pushes>>
    BY <1>16 DEF PopCopy, TailAdvanced, TypeOK, HoldsLock, Threads
  <2>2. \A q \in Producers : Unplaced(q)' => Unplaced(q)
    BY <1>16, ThreadsAssumption DEF PopCopy, TailAdvanced, Goto, TypeOK, Unplaced, Threads
  <2>3. CASE ~has_data[slot[c]]
    BY <1>16, <2>1, <2>2, <2>3, OwnerQuiet DEF PopCopy, TailAdvanced
  <2>4. CASE has_data[slot[c]]
    <3> DEFINE text == elements[slot[c]]
    <3>1. slot[c] \in Occupied /\ text # <<>> /\ text[1] = owner[slot[c]]
      BY <2>1, <2>4, WrittenWhenLocked DEF Occupied
    <3>2. popped' = Append(popped, text)
      BY <1>16, <2>4 DEF PopCopy, TailAdvanced
    <3>3. \A k \in DOMAIN popped' : (k \in DOMAIN popped /\ popped'[k] = popped[k]) \/ popped'[k] = text
      <4> HIDE DEF text
      <4> QED
        BY <2>1, <3>2
    <3>4. \A k \in DOMAIN popped' : popped'[k] # <<>> /\ popped'[k][1] < pushes
      BY <3>1, <3>3 DEF OwnerInv
    <3>5. \A q \in Producers : Unplaced(q) => \A k \in DOMAIN popped' : popped'[k][1] # ticket[q]
      BY <3>1, <3>3 DEF OwnerInv
    <3> QED
      BY <2>1, <2>2, <3>4, <3>5 DEF OwnerInv, Occupied
  <2> QED
    BY <2>3, <2>4
<1>17. ASSUME NEW c \in Consumers, PopRecycle(c) PROVE OwnerInv'
  BY <1>17 DEF PopRecycle, Recycle, ClearHasData, Goto, TypeOK, Threads, OwnerInv, Occupied,
    Unplaced, TicketInv,
    Active
<1>18. ASSUME NEW c \in Consumers, PopUnlock(c) PROVE OwnerInv'
  BY <1>18, OwnerQuiet, ThreadsAssumption DEF PopUnlock, UnlockElement, Goto, TypeOK,
    Threads, Unplaced,
    history
<1>19. CASE UNCHANGED vars
  BY <1>19 DEF vars, ring, history, OwnerInv, Occupied, Unplaced, TicketInv, Active
<1>20. ASSUME NEW c \in Consumers, WriteBackOverflow(c) PROVE OwnerInv'
  BY <1>20, OwnerQuiet, ThreadsAssumption DEF WriteBackOverflow, TypeOK, Threads, Unplaced,
    ring, history
<1> QED
  BY <1>1, <1>2, <1>3, <1>4, <1>5, <1>6, <1>7, <1>8, <1>9, <1>10, <1>11, <1>12, <1>13,
    <1>14, <1>15, <1>16, <1>17, <1>18, <1>19, <1>20
    DEF Next, FinishPush, PopAndProcess, Threads

(* No step disturbs the beginning of the text of an occupied slot.         *)
LEMMA TextStep ==
  ASSUME IndInv, [Next]_vars
  PROVE  TextInv'
<1> USE DEF IndInv, LockPart
<1>1. ASSUME NEW p \in Producers, ReserveIncHead(p) PROVE TextInv'
  BY <1>1, ThreadsAssumption, BoundsAssumption DEF ReserveIncHead, Goto, TypeOK, Threads,
    TextInv, Occupied, MutualExclusion, HoldsLock, FlagInv
<1>2. ASSUME NEW p \in Producers, ReserveMaskHead(p) PROVE TextInv'
  BY <1>2, TextQuiet DEF ReserveMaskHead, HeadWrapped, Goto, TypeOK, Threads, history
<1>3. ASSUME NEW p \in Producers, ReserveTake(p) PROVE TextInv'
  BY <1>3, ThreadsAssumption, BoundsAssumption DEF ReserveTake, Goto, TypeOK, Threads,
    TextInv, Occupied, MutualExclusion, HoldsLock, FlagInv
<1>4. ASSUME NEW p \in Producers, ReserveOverrun(p) PROVE TextInv'
  BY <1>4, TextQuiet DEF ReserveOverrun, Goto, TypeOK, Threads, ring
<1>5. ASSUME NEW p \in Producers, ReserveCountOverflow(p) PROVE TextInv'
  BY <1>5, TextQuiet DEF ReserveCountOverflow, Goto, TypeOK, Threads, ring, history
<1>6. ASSUME NEW p \in Producers, ReserveCountResettable(p) PROVE TextInv'
  BY <1>6, TextQuiet DEF ReserveCountResettable, Goto, TypeOK, Threads, ring, history
<1>7. ASSUME NEW p \in Producers, WritePrefix(p) PROVE TextInv'
  <2>1. /\ p \in Threads /\ HoldsLock(p) /\ slot[p] \in Occupied /\ slot[p] \in Slots
        /\ ticket[p] \in Nat /\ elements \in [Slots -> Seq(Nat)]
        /\ UNCHANGED <<has_data, owner, ticket, slot>>
    BY <1>7 DEF WritePrefix, TypeOK, Texts, HoldsLock, FlagInv, Occupied, Threads, history
  <2>2. \A i \in Slots : i # slot[p] => elements'[i] = elements[i]
    BY <1>7, <2>1 DEF WritePrefix, WritePart
  <2>3. \A q \in Producers : pc[q] = "prefix" /\ slot[q] # slot[p] => pc'[q] = "prefix"
    BY <1>7 DEF WritePrefix, Goto, TypeOK, Threads
  <2>4. elements'[slot[p]] # <<>> /\ elements'[slot[p]][1] = owner[slot[p]]
    <3>1. CASE elements[slot[p]] = <<>>
      <4>1. HasRoom(p)
        BY <3>1, BoundsAssumption DEF HasRoom
      <4>2. elements'[slot[p]] = <<ticket[p]>>
        BY <1>7, <2>1, <3>1, <4>1 DEF WritePrefix, WritePart
      <4>3. ticket[p] = owner[slot[p]]
        BY <2>1, <3>1 DEF TextInv, MutualExclusion, HoldsLock, Threads
      <4> QED
        BY <4>2, <4>3
    <3>2. CASE elements[slot[p]] # <<>>
      <4>1. elements[slot[p]][1] = owner[slot[p]]
        BY <2>1, <3>2 DEF TextInv
      <4> QED
        BY <1>7, <2>1, <3>2, <4>1 DEF WritePrefix, WritePart
    <3> QED
      BY <3>1, <3>2
  <2>5. \A i \in Slots : ~has_data[i] => i # slot[p]
    BY <2>1 DEF Occupied
  <2>6. \A i \in Slots : ~has_data'[i] => elements'[i] = <<>>
    BY <2>1, <2>2, <2>5 DEF TextInv
  <2>7. ASSUME NEW i \in Occupied, i # slot[p]
        PROVE  \/ elements'[i] # <<>> /\ elements'[i][1] = owner'[i]
               \/ /\ elements'[i] = <<>>
                  /\ \E q \in Producers : pc'[q] = "prefix" /\ slot'[q] = i /\ ticket'[q] = owner'[i]
    <3>1. i \in Slots /\ elements'[i] = elements[i]
      BY <2>2, <2>7 DEF Occupied
    <3> QED
      BY <2>1, <2>3, <2>7, <3>1 DEF TextInv
  <2> QED
    BY <2>1, <2>4, <2>6, <2>7 DEF TextInv, Occupied
<1>8. ASSUME NEW p \in Producers, WriteArgs(p) PROVE TextInv'
  <2>1. /\ p \in Threads /\ HoldsLock(p) /\ slot[p] \in Occupied /\ slot[p] \in Slots
        /\ ticket[p] \in Nat /\ elements \in [Slots -> Seq(Nat)]
        /\ UNCHANGED <<has_data, owner, ticket, slot>>
    BY <1>8 DEF WriteArgs, TypeOK, Texts, HoldsLock, FlagInv, Occupied, Threads, history
  <2>2. \A i \in Slots : i # slot[p] => elements'[i] = elements[i]
    BY <1>8, <2>1 DEF WriteArgs, WritePart
  <2>3. \A q \in Producers : pc[q] = "prefix" /\ slot[q] # slot[p] => pc'[q] = "prefix"
    BY <1>8 DEF WriteArgs, Goto, TypeOK, Threads
  <2>4. elements'[slot[p]] # <<>> /\ elements'[slot[p]][1] = owner[slot[p]]
    <3>1. elements[slot[p]] # <<>> /\ elements[slot[p]][1] = owner[slot[p]]
      BY <1>8, <2>1, WrittenWhenLocked DEF WriteArgs
    <3> QED
      BY <1>8, <2>1, <3>1 DEF WriteArgs, WritePart
  <2>5. \A i \in Slots : ~has_data[i] => i # slot[p]
    BY <2>1 DEF Occupied
  <2>6. \A i \in Slots : ~has_data'[i] => elements'[i] = <<>>
    BY <2>1, <2>2, <2>5 DEF TextInv
  <2>7. ASSUME NEW i \in Occupied, i # slot[p]
        PROVE  \/ elements'[i] # <<>> /\ elements'[i][1] = owner'[i]
               \/ /\ elements'[i] = <<>>
                  /\ \E q \in Producers : pc'[q] = "prefix" /\ slot'[q] = i /\ ticket'[q] = owner'[i]
    <3>1. i \in Slots /\ elements'[i] = elements[i]
      BY <2>2, <2>7 DEF Occupied
    <3> QED
      BY <2>1, <2>3, <2>7, <3>1 DEF TextInv
  <2> QED
    BY <2>1, <2>4, <2>6, <2>7 DEF TextInv, Occupied
<1>9. ASSUME NEW p \in Producers, CommitPush(p) PROVE TextInv'
  BY <1>9, ThreadsAssumption, BoundsAssumption DEF CommitPush, UnlockElement, Goto, TypeOK,
    Threads,
    TextInv, Occupied, MutualExclusion, HoldsLock, FlagInv
<1>10. ASSUME NEW t \in Threads, LockElement(t) PROVE TextInv'
  BY <1>10, TextQuiet DEF LockElement, LockFree, Goto, TypeOK, Threads, history
<1>11. ASSUME NEW t \in Threads, SpinElement(t) PROVE TextInv'
  BY <1>11, TextQuiet DEF SpinElement, Goto, TypeOK, Threads, ring, history
<1>12. ASSUME NEW t \in Threads, CountWait(t) PROVE TextInv'
  BY <1>12, TextQuiet DEF CountWait, Goto, TypeOK, Threads, ring, history
<1>13. ASSUME NEW c \in Consumers, LoadOverflow(c) PROVE TextInv'
  BY <1>13, TextQuiet, ThreadsAssumption DEF LoadOverflow, Goto, TypeOK, Threads, ring, history
<1>14. ASSUME NEW c \in Consumers, ResetOverflow(c) PROVE TextInv'
  BY <1>14, TextQuiet, ThreadsAssumption DEF ResetOverflow, CounterReset, Goto, TypeOK,
    Threads, ring
<1>15. ASSUME NEW c \in Consumers, PopTest(c) PROVE TextInv'
  BY <1>15, TextQuiet, ThreadsAssumption DEF PopTest, TailHasData, Goto, TypeOK, Threads,
    ring, history
<1>16. ASSUME NEW c \in Consumers, PopCopy(c) PROVE TextInv'
  BY <1>16, TextQuiet, ThreadsAssumption DEF PopCopy, TailAdvanced, Goto, TypeOK, Threads
<1>17. ASSUME NEW c \in Consumers, PopRecycle(c) PROVE TextInv'
  BY <1>17, ThreadsAssumption, BoundsAssumption DEF PopRecycle, Recycle, ClearHasData, Goto,
    TypeOK, Threads,
    TextInv, Occupied, MutualExclusion, HoldsLock, FlagInv
<1>18. ASSUME NEW c \in Consumers, PopUnlock(c) PROVE TextInv'
  BY <1>18, TextQuiet, ThreadsAssumption DEF PopUnlock, UnlockElement, Goto, TypeOK,
    Threads, history
<1>19. CASE UNCHANGED vars
  BY <1>19 DEF vars, ring, history, TextInv, Occupied, MutualExclusion, HoldsLock, FlagInv
<1>20. ASSUME NEW c \in Consumers, WriteBackOverflow(c) PROVE TextInv'
  BY <1>20, TextQuiet, ThreadsAssumption DEF WriteBackOverflow, TypeOK, Threads, ring,
    history
<1> QED
  BY <1>1, <1>2, <1>3, <1>4, <1>5, <1>6, <1>7, <1>8, <1>9, <1>10, <1>11, <1>12, <1>13,
    <1>14, <1>15, <1>16, <1>17, <1>18, <1>19, <1>20
    DEF Next, FinishPush, PopAndProcess, Threads

(* The inductive invariant holds of a new ring buffer.                     *)
LEMMA InitIndInv == Init => IndInv
<1> SUFFICES ASSUME Init PROVE IndInv
  OBVIOUS
<1>1. TypeOK
  BY InitTypeOK
<1>2. \A t \in Threads : ~HoldsLock(t)
  BY DEF Init, HoldsLock
<1>3. \A p \in Producers : pc[p] = "idle"
  BY DEF Init, Threads
<1>4. \A c \in Consumers : pc[c] = "load"
  BY ThreadsAssumption DEF Init, Threads
<1>5. Occupied = {} /\ lost = {} /\ popped = <<>> /\ \A i \in Slots : elements[i] = <<>>
  BY DEF Init, Occupied
<1> QED
  BY <1>1, <1>2, <1>3, <1>4, <1>5 DEF IndInv, LockPart, LockInv, MutualExclusion, TicketInv,
    Active,
    FlagInv, OwnerInv, Unplaced, TextInv

(* The parts of the invariant hold together in every reachable state.      *)
THEOREM Inductive == Spec => []IndInv
<1>1. IndInv /\ [Next]_vars => IndInv'
  BY NextTypeOK, LockStep, TicketStep, FlagStep, OwnerStep, TextStep DEF IndInv, LockPart
<1> QED
  BY <1>1, InitIndInv, PTL DEF Spec

-----------------------------------------------------------------------------
(* The ring buffer implements the lossy channel.                           *)

(* A step is invisible in the channel when it leaves the flags, owners and *)
(* delivered texts alone and no consumer starts or ends a copy.            *)
LEMMA InvisibleStep ==
  ASSUME UNCHANGED <<has_data, owner, lost, popped>>,
         \A c \in Consumers : (pc'[c] = "recycle") <=> (pc[c] = "recycle"),
         \A c \in Consumers : pc[c] = "recycle" => slot'[c] = slot[c]
  PROVE  UNCHANGED Channel!vars
<1>1. Copied' = Copied
  BY DEF Copied
<1> QED
  BY <1>1 DEF Channel!vars, Buffered, Occupied, DeliveredSeq

(* Nobody is copying a slot that another thread has locked.                *)
LEMMA LockedNotCopied ==
  ASSUME IndInv, NEW t \in Threads, HoldsLock(t), pc[t] # "recycle"
  PROVE  slot[t] \notin Copied
BY DEF IndInv, LockPart, MutualExclusion, HoldsLock, Copied, Threads

(* A free slot is room in the channel.                                     *)
LEMMA RoomForOneMore ==
  ASSUME TypeOK, NEW i \in Slots, ~has_data[i]
  PROVE  Cardinality(Buffered) < Capacity
<1> DEFINE A == Occupied \ Copied
           f == [j \in A |-> owner[j]]
<1>1. IsFiniteSet(Slots) /\ Cardinality(Slots) = Capacity
  BY FS_Interval, CapacityPositive DEF Slots
<1>2. IsFiniteSet(Slots \ {i}) /\ Cardinality(Slots \ {i}) = Capacity - 1
  BY <1>1, FS_RemoveElement
<1>3. A \in SUBSET (Slots \ {i})
  BY DEF Occupied
<1>4. IsFiniteSet(A) /\ Cardinality(A) <= Capacity - 1 /\ Cardinality(A) \in Nat
  BY <1>2, <1>3, FS_Subset, FS_CardinalityType
<1>5. f \in Surjection(A, Buffered)
  BY DEF Surjection, Buffered
<1>6. IsFiniteSet(Buffered) /\ Cardinality(Buffered) <= Cardinality(A)
  BY <1>4, <1>5, FS_Surjection
<1>7. Cardinality(Buffered) \in Nat
  BY <1>6, FS_CardinalityType
<1> QED
  BY <1>4, <1>6, <1>7, CapacityPositive

(* The ticket of a push that has not reached test_and_set is new to the    *)
(* channel.                                                                *)
LEMMA UnplacedIsFresh ==
  ASSUME IndInv, NEW p \in Producers, Unplaced(p)
  PROVE  ticket[p] \in 0..(MaxPushes - 1) /\ Channel!Fresh(ticket[p])
<1>1. ticket[p] \in 0..(MaxPushes - 1)
  <2>1. pushes \in Nat /\ pushes <= MaxPushes /\ ticket[p] \in Nat
    BY BoundsAssumption DEF IndInv, LockPart, TypeOK
  <2>2. ticket[p] < pushes
    BY DEF IndInv, TicketInv, Active, Unplaced
  <2> QED
    BY <2>1, <2>2, BoundsAssumption
<1>2. ticket[p] \notin Buffered \cup lost
  BY DEF IndInv, OwnerInv, Buffered
<1>3. \A k \in DOMAIN DeliveredSeq : DeliveredSeq[k] # ticket[p]
  BY DEF IndInv, OwnerInv, DeliveredSeq
<1> QED
  BY <1>1, <1>2, <1>3 DEF Channel!Fresh

(* test_and_set on an empty slot is the acceptance of the message.         *)
LEMMA TakeAccepts ==
  ASSUME IndInv, NEW p \in Producers, ReserveTake(p)
  PROVE  Channel!Accept(ticket[p])
<1>1. /\ p \in Threads /\ HoldsLock(p) /\ pc[p] # "recycle" /\ Unplaced(p)
      /\ slot[p] \in Slots /\ ~has_data[slot[p]]
  BY DEF ReserveTake, HoldsLock, Unplaced, Threads, IndInv, LockPart, TypeOK
<1>2. Channel!Fresh(ticket[p])
  BY <1>1, UnplacedIsFresh
<1>3. Channel!Cardinality(Buffered) < Capacity
  BY <1>1, RoomForOneMore DEF IndInv, LockPart, Cardinality, IsFiniteSet,
    Channel!Cardinality, Channel!IsFiniteSet
<1>4. Copied' = Copied /\ slot[p] \notin Copied
  BY <1>1, LockedNotCopied, ThreadsAssumption
    DEF ReserveTake, Goto, Copied, IndInv, LockPart, TypeOK, Threads
<1>5. Occupied' = Occupied \cup {slot[p]} /\ slot[p] \notin Occupied
  BY <1>1 DEF ReserveTake, Occupied, IndInv, LockPart, TypeOK
<1>6. owner' = [owner EXCEPT ![slot[p]] = ticket[p]] /\ owner \in [Slots -> Nat]
  BY DEF ReserveTake, IndInv, LockPart, TypeOK
<1>7. Occupied \subseteq Slots
  BY DEF Occupied
<1>8. Buffered' = Buffered \cup {ticket[p]}
  BY <1>1, <1>4, <1>5, <1>6, <1>7 DEF Buffered
<1>9. UNCHANGED <<lost, DeliveredSeq>>
  BY DEF ReserveTake, DeliveredSeq
<1> QED
  BY <1>2, <1>3, <1>8, <1>9 DEF Channel!Accept

(* test_and_set on an occupied slot is the loss of the message; the        *)
(* message in the slot is still buffered because the slot is locked.       *)
LEMMA OverrunOverruns ==
  ASSUME IndInv, NEW p \in Producers, ReserveOverrun(p)
  PROVE  Channel!Overrun(ticket[p])
<1>1. /\ p \in Threads /\ HoldsLock(p) /\ pc[p] # "recycle" /\ Unplaced(p)
      /\ slot[p] \in Occupied
  BY DEF ReserveOverrun, HoldsLock, Unplaced, Threads, Occupied, IndInv, LockPart, TypeOK
<1>2. Channel!Fresh(ticket[p])
  BY <1>1, UnplacedIsFresh
<1>3. Buffered # {}
  BY <1>1, LockedNotCopied DEF Buffered
<1>4. Copied' = Copied
  BY ThreadsAssumption DEF ReserveOverrun, Goto, Copied, IndInv, LockPart, TypeOK, Threads
<1>5. UNCHANGED <<Buffered, DeliveredSeq>> /\ lost' = lost \cup {ticket[p]}
  BY <1>4 DEF ReserveOverrun, Buffered, Occupied, DeliveredSeq, ring
<1> QED
  BY <1>2, <1>3, <1>5 DEF Channel!Overrun

(* The copy in pop delivers the message that occupied the slot, and only   *)
(* that.                                                                   *)
LEMMA CopyDelivers ==
  ASSUME IndInv, NEW c \in Consumers, PopCopy(c), has_data[slot[c]]
  PROVE  owner[slot[c]] \in 0..(MaxPushes - 1) /\ Channel!Deliver(owner[slot[c]])
<1> DEFINE m == owner[slot[c]]
<1>1. /\ c \in Threads /\ HoldsLock(c) /\ pc[c] # "recycle" /\ pc[c] # "prefix"
      /\ slot[c] \in Occupied /\ slot[c] \in Slots
  BY DEF PopCopy, TailAdvanced, HoldsLock, Threads, Occupied, IndInv, LockPart, TypeOK
<1>2. slot[c] \notin Copied
  BY <1>1, LockedNotCopied
<1>3. Copied' = Copied \cup {slot[c]}
  BY <1>1 DEF PopCopy, TailAdvanced, Goto, Copied, IndInv, LockPart, TypeOK, Threads
<1>4. Occupied' = Occupied /\ owner' = owner /\ lost' = lost
  BY DEF PopCopy, TailAdvanced, Occupied
<1>5. m \in Buffered /\ m \in 0..(MaxPushes - 1)
  BY <1>1, <1>2, BoundsAssumption DEF Buffered, IndInv, LockPart, TypeOK, OwnerInv
<1>6. \A i \in Occupied : owner[i] = m => i = slot[c]
  BY <1>1 DEF IndInv, OwnerInv
<1>7. Buffered' = Buffered \ {m}
  BY <1>1, <1>3, <1>4, <1>6 DEF Buffered
<1>8. DeliveredSeq' = Append(DeliveredSeq, m)
  <2> DEFINE text == elements[slot[c]]
  <2>1. text \in Texts /\ text # <<>> /\ text[1] = m
    BY <1>1, WrittenWhenLocked DEF IndInv, LockPart, TypeOK
  <2>2. popped \in Seq(Texts) /\ popped' = Append(popped, text)
    BY DEF PopCopy, TailAdvanced, IndInv, LockPart, TypeOK
  <2> HIDE DEF m, text
  <2>3. /\ DOMAIN popped = 1..Len(popped) /\ DOMAIN popped' = 1..(Len(popped) + 1)
        /\ Len(popped) \in Nat
        /\ \A k \in 1..Len(popped) : popped'[k] = popped[k]
        /\ popped'[Len(popped) + 1] = text
    BY <2>1, <2>2
  <2>4. \A k \in 1..Len(popped) : popped[k][1] \in Nat
    BY <2>2, <2>3 DEF IndInv, OwnerInv, Texts
  <2>5. DeliveredSeq \in Seq(Nat) /\ Len(DeliveredSeq) = Len(popped)
    BY <2>3, <2>4 DEF DeliveredSeq
  <2> QED
    BY <2>1, <2>3, <2>5 DEF DeliveredSeq
<1> QED
  BY <1>4, <1>5, <1>7, <1>8 DEF Channel!Deliver

(* Recycling a copied slot is invisible: the message is already delivered. *)
LEMMA RecycleInvisible ==
  ASSUME IndInv, NEW c \in Consumers, PopRecycle(c)
  PROVE  UNCHANGED Channel!vars
<1>1. c \in Threads /\ HoldsLock(c) /\ slot[c] \in Slots /\ slot[c] \in Copied
  BY DEF PopRecycle, Recycle, ClearHasData, HoldsLock, Copied, Threads, IndInv, LockPart, TypeOK
<1>2. \A d \in Consumers : d # c /\ pc[d] = "recycle" => slot[d] # slot[c]
  BY <1>1 DEF IndInv, LockPart, MutualExclusion, HoldsLock, Threads
<1>3. Copied' = Copied \ {slot[c]}
  BY <1>1, <1>2 DEF PopRecycle, Recycle, ClearHasData, Goto, Copied, IndInv, LockPart,
    TypeOK, Threads
<1>4. Occupied' = Occupied \ {slot[c]}
  BY <1>1 DEF PopRecycle, Recycle, ClearHasData, Occupied, IndInv, LockPart, TypeOK
<1>5. Occupied' \ Copied' = Occupied \ Copied /\ slot[c] \notin Occupied \ Copied
  BY <1>1, <1>3, <1>4
<1>6. \A i \in Occupied \ Copied : owner'[i] = owner[i]
  BY <1>1 DEF PopRecycle, Recycle, ClearHasData, IndInv, LockPart, TypeOK, Occupied
<1>7. Buffered' = Buffered
  BY <1>5, <1>6 DEF Buffered
<1> QED
  BY <1>7 DEF PopRecycle, Recycle, ClearHasData, Channel!vars, DeliveredSeq

(* Every step of the ring buffer is a step of the channel or invisible     *)
(* there.                                                                  *)
LEMMA ChannelStep ==
  ASSUME IndInv, [Next]_vars
  PROVE  [Channel!Next]_(Channel!vars)
<1> USE DEF IndInv, LockPart
<1>1. ASSUME NEW p \in Producers, ReserveIncHead(p) PROVE [Channel!Next]_(Channel!vars)
  BY <1>1, InvisibleStep, ThreadsAssumption DEF ReserveIncHead, Goto, TypeOK, Threads
<1>2. ASSUME NEW p \in Producers, ReserveMaskHead(p) PROVE [Channel!Next]_(Channel!vars)
  BY <1>2, InvisibleStep, ThreadsAssumption DEF ReserveMaskHead, HeadWrapped, Goto, TypeOK,
    Threads, history
<1>3. ASSUME NEW p \in Producers, ReserveTake(p) PROVE [Channel!Next]_(Channel!vars)
  BY <1>3, TakeAccepts, UnplacedIsFresh DEF ReserveTake, Unplaced, Channel!Next
<1>4. ASSUME NEW p \in Producers, ReserveOverrun(p) PROVE [Channel!Next]_(Channel!vars)
  BY <1>4, OverrunOverruns, UnplacedIsFresh DEF ReserveOverrun, Unplaced, Channel!Next
<1>5. ASSUME NEW p \in Producers, ReserveCountOverflow(p) PROVE [Channel!Next]_(Channel!vars)
  BY <1>5, InvisibleStep, ThreadsAssumption DEF ReserveCountOverflow, Goto, TypeOK, Threads,
    ring, history
<1>6. ASSUME NEW p \in Producers, ReserveCountResettable(p) PROVE [Channel!Next]_(Channel!vars)
  BY <1>6, InvisibleStep, ThreadsAssumption DEF ReserveCountResettable, Goto, TypeOK,
    Threads, ring, history
<1>7. ASSUME NEW p \in Producers, WritePrefix(p) PROVE [Channel!Next]_(Channel!vars)
  BY <1>7, InvisibleStep, ThreadsAssumption DEF WritePrefix, Goto, TypeOK, Threads, history
<1>8. ASSUME NEW p \in Producers, WriteArgs(p) PROVE [Channel!Next]_(Channel!vars)
  BY <1>8, InvisibleStep, ThreadsAssumption DEF WriteArgs, Goto, TypeOK, Threads, history
<1>9. ASSUME NEW p \in Producers, CommitPush(p) PROVE [Channel!Next]_(Channel!vars)
  BY <1>9, InvisibleStep, ThreadsAssumption DEF CommitPush, UnlockElement, Goto, TypeOK, Threads
<1>10. ASSUME NEW t \in Threads, LockElement(t) PROVE [Channel!Next]_(Channel!vars)
  BY <1>10, InvisibleStep, ThreadsAssumption DEF LockElement, LockFree, Goto, TypeOK, Threads,
    history, AfterLock
<1>11. ASSUME NEW t \in Threads, SpinElement(t) PROVE [Channel!Next]_(Channel!vars)
  BY <1>11, InvisibleStep, ThreadsAssumption DEF SpinElement, Goto, TypeOK, Threads, ring,
    history
<1>12. ASSUME NEW t \in Threads, CountWait(t) PROVE [Channel!Next]_(Channel!vars)
  BY <1>12, InvisibleStep, ThreadsAssumption DEF CountWait, Goto, TypeOK, Threads, ring,
    history, AfterLock
<1>13. ASSUME NEW c \in Consumers, LoadOverflow(c) PROVE [Channel!Next]_(Channel!vars)
  BY <1>13, InvisibleStep, ThreadsAssumption DEF LoadOverflow, Goto, TypeOK, Threads, ring,
    history
<1>14. ASSUME NEW c \in Consumers, ResetOverflow(c) PROVE [Channel!Next]_(Channel!vars)
  BY <1>14, InvisibleStep, ThreadsAssumption DEF ResetOverflow, CounterReset, Goto, TypeOK,
    Threads, ring
<1>15. ASSUME NEW c \in Consumers, PopTest(c) PROVE [Channel!Next]_(Channel!vars)
  BY <1>15, InvisibleStep, ThreadsAssumption DEF PopTest, TailHasData, Goto, TypeOK,
    Threads, ring, history
<1>16. ASSUME NEW c \in Consumers, PopCopy(c) PROVE [Channel!Next]_(Channel!vars)
  <2>1. CASE has_data[slot[c]]
    BY <1>16, <2>1, CopyDelivers DEF Channel!Next
  <2>2. CASE ~has_data[slot[c]]
    BY <1>16, <2>2, InvisibleStep DEF PopCopy, TailAdvanced, Goto, TypeOK, Threads
  <2> QED
    BY <2>1, <2>2
<1>17. ASSUME NEW c \in Consumers, PopRecycle(c) PROVE [Channel!Next]_(Channel!vars)
  BY <1>17, RecycleInvisible
<1>18. ASSUME NEW c \in Consumers, PopUnlock(c) PROVE [Channel!Next]_(Channel!vars)
  BY <1>18, InvisibleStep, ThreadsAssumption DEF PopUnlock, UnlockElement, Goto, TypeOK,
    Threads, history
<1>19. CASE UNCHANGED vars
  BY <1>19, InvisibleStep DEF vars, ring, history
<1>20. ASSUME NEW c \in Consumers, WriteBackOverflow(c) PROVE [Channel!Next]_(Channel!vars)
  BY <1>20, InvisibleStep, ThreadsAssumption DEF WriteBackOverflow, TypeOK, Threads, ring,
    history
<1> QED
  BY <1>1, <1>2, <1>3, <1>4, <1>5, <1>6, <1>7, <1>8, <1>9, <1>10, <1>11, <1>12, <1>13,
    <1>14, <1>15, <1>16, <1>17, <1>18, <1>19, <1>20
    DEF Next, FinishPush, PopAndProcess, Threads

(* The ring buffer, with any number of threads and slots, is a bounded     *)
(* lossy channel: it never delivers a message twice, delivers only what    *)
(* was accepted, and loses a message only while something is buffered.     *)
THEOREM RingImplementsChannel == Spec => ImplementsChannel
<1>1. Init => Channel!Init
  <2> SUFFICES ASSUME Init PROVE Channel!Init
    OBVIOUS
  <2>1. Occupied = {} /\ lost = {} /\ popped = <<>>
    BY DEF Init, Occupied
  <2>2. Buffered = {}
    BY <2>1 DEF Buffered
  <2>3. DeliveredSeq = <<>>
    BY <2>1 DEF DeliveredSeq
  <2> QED
    BY <2>1, <2>2, <2>3 DEF Channel!Init
<1>2. IndInv /\ [Next]_vars => [Channel!Next]_(Channel!vars)
  BY ChannelStep
<1> QED
  BY <1>1, <1>2, Inductive, PTL DEF Spec, ImplementsChannel, Channel!Spec
=============================================================================
