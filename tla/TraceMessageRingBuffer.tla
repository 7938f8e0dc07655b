----------------------- MODULE TraceMessageRingBuffer -----------------------
(***************************************************************************)
(* The multi-producer, single-consumer ring buffer of                      *)
(* trace_message_ring_buffer.h, one action per access to shared memory     *)
(* outside the slot lock.                                                  *)
(*                                                                         *)
(* A producer runs log_call / log_return: reserve_push, the formatting of  *)
(* the message in the slot itself, commit_push.  A consumer runs the ring  *)
(* buffer part of TraceDump::pop_and_process over and over:                *)
(* get_and_reset_overflow_counter, then pop.                               *)
(*                                                                         *)
(* The text of a TraceMessage is abstracted to a sequence of tickets: the  *)
(* prefix of the message of ticket n adds one n, its arguments another.    *)
(* Tickets number the reserve_push calls in the order in which they        *)
(* incremented head; they and the other history variables are not in the   *)
(* code and no code step reads them, except for two inputs: the number of  *)
(* pushes and the trace level of each.                                     *)
(***************************************************************************)
EXTENDS Integers, Sequences, FiniteSets

CONSTANTS
  Producers,             \* threads that push trace messages
  Consumers,             \* threads that pop; the code runs one at a time
  Capacity,              \* capacity: number of slots
  TraceMessageCapacity,  \* trace_message_capacity, in message parts
  NameOnly,              \* the pushes with trace_level TRACE_FUNC_NAME
  MaxPushes              \* bound on the reserve_push calls of a behaviour

(* The constructor expects a power of two (its check is commented out):    *)
(* only then is "& (capacity - 1)" the remainder that Mask computes.       *)
ASSUME CapacityAssumption ==
  /\ Capacity \in Nat \ {0}
  /\ \E k \in 0..Capacity : Capacity = 2^k

ASSUME ThreadsAssumption == Producers \cap Consumers = {}

(* A message buffer holds at least the prefix of one message.              *)
ASSUME BoundsAssumption ==
  /\ TraceMessageCapacity \in Nat \ {0}
  /\ MaxPushes \in Nat

VARIABLES
  head,                            \* atomic_uint head
  tail,                            \* int tail
  elements,                        \* text of each slot
  busy,                            \* the spin lock of each slot
  has_data,                        \* the occupied flag of each slot
  overflow_counter,                \* overruns since creation
  resettable_overflow_counter,     \* overruns since the last report
  spinlock_consumer_wait_counter,  \* locks the consumers had to wait for
  spinlock_producer_wait_counter,  \* locks the producers had to wait for
  pc,                              \* where each thread is
  slot,                            \* reserved_space of a producer, i of a consumer
  loaded,                          \* r in get_and_reset_overflow_counter
  ticket,                          \* history: number of the push a producer is in
  pushes,                          \* history: reserve_push calls so far
  owner,                           \* history: push that set has_data of a slot
  lost,                            \* history: pushes that found has_data set
  popped,                          \* history: the texts pop copied, in order
  reported,                        \* history: sum of the overflows reported
  lapped                           \* history: a push was a full round behind

ring == <<head, tail, elements, busy, has_data>>
overflows == <<overflow_counter, resettable_overflow_counter>>
waits == <<spinlock_consumer_wait_counter, spinlock_producer_wait_counter>>
history == <<ticket, pushes, owner, lost, popped, reported, lapped>>
vars == <<ring, overflows, waits, pc, slot, loaded, history>>

Threads == Producers \cup Consumers
Slots == 0..(Capacity - 1)

(* x & (capacity - 1); fault: & capacity                                   *)
MaskOffByOne(x) == x % (Capacity + 1)
Mask(x) == x % Capacity

(* The flag found clear by busy[i].test_and_set(); fault: not looked at    *)
LockFreeAlways(i) == TRUE
LockFree(i) == ~busy[i]

(* unlock_element; fault: the slot stays locked                            *)
UnlockNothing(i) == UNCHANGED busy
UnlockElement(i) == busy' = [busy EXCEPT ![i] = FALSE]

(* head &= capacity - 1; fault: head = 0                                   *)
HeadRestarted == 0
HeadWrapped == Mask(head)

(* The early test of pop; fault: pop always goes on to lock the slot       *)
TailHasDataAlways == TRUE
TailHasData == has_data[tail]

(* tail = (tail + 1) & (capacity - 1); fault: the tail is not advanced     *)
TailKept == tail
TailAdvanced == Mask(tail + 1)

(* elements[i].recycle(); fault: the text stays                            *)
RecycleNothing(i) == UNCHANGED elements
Recycle(i) == elements' = [elements EXCEPT ![i] = <<>>]

(* has_data[i].clear(); fault: the flag stays set                          *)
ClearNothing(i) == UNCHANGED has_data
ClearHasData(i) == has_data' = [has_data EXCEPT ![i] = FALSE]

(* resettable_overflow_counter.store(0); fault: it keeps its value         *)
CounterKept == resettable_overflow_counter
CounterReset == 0

Goto(t, label) == pc' = [pc EXCEPT ![t] = label]

-----------------------------------------------------------------------------

Init ==
  /\ head = 0
  /\ tail = 0
  /\ elements = [i \in Slots |-> <<>>]
  /\ busy = [i \in Slots |-> FALSE]
  /\ has_data = [i \in Slots |-> FALSE]
  /\ overflow_counter = 0
  /\ resettable_overflow_counter = 0
  /\ spinlock_consumer_wait_counter = 0
  /\ spinlock_producer_wait_counter = 0
  /\ pc = [t \in Threads |-> IF t \in Producers THEN "idle" ELSE "load"]
  /\ slot = [t \in Threads |-> 0]
  /\ loaded = [c \in Consumers |-> 0]
  /\ ticket = [p \in Producers |-> 0]
  /\ pushes = 0
  /\ owner = [i \in Slots |-> 0]
  /\ lost = {}
  /\ popped = <<>>
  /\ reported = 0
  /\ lapped = FALSE

-----------------------------------------------------------------------------
(* The spin lock of a slot, taken by producers and consumers alike.        *)

AfterLock(t) == IF t \in Producers THEN "test_and_set" ELSE "recheck"

(* lock_element: test_and_set succeeds; a thread that has spun goes on to  *)
(* count the collision.                                                    *)
LockElement(t) ==
  /\ pc[t] \in {"lock", "spin"}
  /\ LockFree(slot[t])
  /\ busy' = [busy EXCEPT ![slot[t]] = TRUE]
  /\ Goto(t, IF pc[t] = "spin" THEN "count_wait" ELSE AfterLock(t))
  /\ UNCHANGED <<head, tail, elements, has_data, overflows, waits, slot, loaded, history>>

(* lock_element: test_and_set fails, collision = true; failing again       *)
(* changes nothing.                                                        *)
SpinElement(t) ==
  /\ pc[t] = "lock"
  /\ busy[slot[t]]
  /\ Goto(t, "spin")
  /\ UNCHANGED <<ring, overflows, waits, slot, loaded, history>>

(* lock_element: counter.inc() after a collision, the lock already held    *)
CountWait(t) ==
  /\ pc[t] = "count_wait"
  /\ Goto(t, AfterLock(t))
  /\ \/ /\ t \in Producers
        /\ spinlock_producer_wait_counter' = spinlock_producer_wait_counter + 1
        /\ UNCHANGED spinlock_consumer_wait_counter
     \/ /\ t \in Consumers
        /\ spinlock_consumer_wait_counter' = spinlock_consumer_wait_counter + 1
        /\ UNCHANGED spinlock_producer_wait_counter
  /\ UNCHANGED <<ring, overflows, slot, loaded, history>>

-----------------------------------------------------------------------------
(* Producers.                                                              *)

(* Some push still waits for its slot although the head has since gone     *)
(* round the whole ring and now hands out the same slot again.             *)
LapsSomeone ==
  \E q \in Producers : /\ pc[q] \in {"mask", "lock", "spin"}
                       /\ ticket[q] + Capacity <= pushes

(* head.inc()                                                              *)
ReserveIncHead(p) ==
  /\ pc[p] = "idle"
  /\ pushes < MaxPushes
  /\ head' = head + 1
  /\ slot' = [slot EXCEPT ![p] = head]
  /\ Goto(p, IF head >= Capacity THEN "mask" ELSE "lock")
  /\ ticket' = [ticket EXCEPT ![p] = pushes]
  /\ pushes' = pushes + 1
  /\ lapped' = (lapped \/ LapsSomeone)
  /\ UNCHANGED <<tail, elements, busy, has_data, overflows, waits, loaded,
                 owner, lost, popped, reported>>

(* head &= capacity - 1; reserved_space &= capacity - 1                    *)
ReserveMaskHead(p) ==
  /\ pc[p] = "mask"
  /\ head' = HeadWrapped
  /\ slot' = [slot EXCEPT ![p] = Mask(@)]
  /\ Goto(p, "lock")
  /\ UNCHANGED <<tail, elements, busy, has_data, overflows, waits, loaded, history>>

(* has_data[reserved_space].test_and_set() takes the empty slot            *)
ReserveTake(p) ==
  /\ pc[p] = "test_and_set"
  /\ ~has_data[slot[p]]
  /\ has_data' = [has_data EXCEPT ![slot[p]] = TRUE]
  /\ owner' = [owner EXCEPT ![slot[p]] = ticket[p]]
  /\ Goto(p, "prefix")
  /\ UNCHANGED <<head, tail, elements, busy, overflows, waits, slot, loaded,
                 ticket, pushes, lost, popped, reported, lapped>>

(* has_data[reserved_space].test_and_set() fails: an overrun               *)
ReserveOverrun(p) ==
  /\ pc[p] = "test_and_set"
  /\ has_data[slot[p]]
  /\ lost' = lost \cup {ticket[p]}
  /\ Goto(p, "count")
  /\ UNCHANGED <<ring, overflows, waits, slot, loaded,
                 ticket, pushes, owner, popped, reported, lapped>>

(* overflow_counter.inc()                                                  *)
ReserveCountOverflow(p) ==
  /\ pc[p] = "count"
  /\ overflow_counter' = overflow_counter + 1
  /\ Goto(p, "count_resettable")
  /\ UNCHANGED <<ring, resettable_overflow_counter, waits, slot, loaded, history>>

(* resettable_overflow_counter.inc()                                       *)
ReserveCountResettable(p) ==
  /\ pc[p] = "count_resettable"
  /\ resettable_overflow_counter' = resettable_overflow_counter + 1
  /\ Goto(p, "prefix")
  /\ UNCHANGED <<ring, overflow_counter, waits, slot, loaded, history>>

(* A part of a message fits the slot.                                      *)
HasRoom(p) == Len(elements[slot[p]]) < TraceMessageCapacity

WritePart(p) ==
  elements' = [elements EXCEPT ![slot[p]] = IF HasRoom(p) THEN Append(@, ticket[p]) ELSE @]

(* serialize_prefix; without room for it log_call returns early, and with  *)
(* trace_level TRACE_FUNC_NAME there is nothing more to write              *)
WritePrefix(p) ==
  /\ pc[p] = "prefix"
  /\ WritePart(p)
  /\ Goto(p, IF HasRoom(p) /\ ticket[p] \notin NameOnly THEN "args" ELSE "commit")
  /\ UNCHANGED <<head, tail, busy, has_data, overflows, waits, slot, loaded, history>>

(* the arguments or the return value                                       *)
WriteArgs(p) ==
  /\ pc[p] = "args"
  /\ WritePart(p)
  /\ Goto(p, "commit")
  /\ UNCHANGED <<head, tail, busy, has_data, overflows, waits, slot, loaded, history>>

(* commit_push: unlock_element                                             *)
CommitPush(p) ==
  /\ pc[p] = "commit"
  /\ UnlockElement(slot[p])
  /\ Goto(p, "idle")
  /\ slot' = [slot EXCEPT ![p] = 0]
  /\ ticket' = [ticket EXCEPT ![p] = 0]
  /\ UNCHANGED <<head, tail, elements, has_data, overflows, waits, loaded,
                 pushes, owner, lost, popped, reported, lapped>>

-----------------------------------------------------------------------------
(* Consumer.                                                               *)

(* get_and_reset_overflow_counter: r = resettable_overflow_counter.load()  *)
LoadOverflow(c) ==
  /\ pc[c] = "load"
  /\ loaded' = [loaded EXCEPT ![c] = resettable_overflow_counter]
  /\ Goto(c, "reset")
  /\ UNCHANGED <<ring, overflows, waits, slot, history>>

(* resettable_overflow_counter.store(0), and the caller reports r          *)
ResetOverflow(c) ==
  /\ pc[c] = "reset"
  /\ resettable_overflow_counter' = CounterReset
  /\ reported' = reported + loaded[c]
  /\ loaded' = [loaded EXCEPT ![c] = 0]
  /\ Goto(c, "test")
  /\ UNCHANGED <<ring, overflow_counter, waits, slot,
                 ticket, pushes, owner, lost, popped, lapped>>

(* The same store on a 32-bit x86, where the counter is 64 bits wide all   *)
(* the same: an unlocked cmpxchg8b that finds another value than it        *)
(* expected writes that value back, over increments made since, and is     *)
(* tried again (Mintomic!WriteBack).  It read after the load of r, and     *)
(* what it found had changed.                                              *)
WriteBackOverflow(c) ==
  /\ pc[c] = "reset"
  /\ \E v \in (loaded[c] + 1)..(resettable_overflow_counter - 1) :
       resettable_overflow_counter' = v
  /\ UNCHANGED <<ring, overflow_counter, waits, pc, slot, loaded, history>>

(* pop: i = tail, and return false when that slot has no data              *)
PopTest(c) ==
  /\ pc[c] = "test"
  /\ slot' = [slot EXCEPT ![c] = tail]
  /\ Goto(c, IF TailHasData THEN "lock" ELSE "load")
  /\ UNCHANGED <<ring, overflows, waits, loaded, history>>

(* pop, the slot locked: look again; with data advance tail and copy the   *)
(* message                                                                 *)
PopCopy(c) ==
  /\ pc[c] = "recheck"
  /\ IF has_data[slot[c]]
     THEN /\ tail' = TailAdvanced
          /\ popped' = Append(popped, elements[slot[c]])
          /\ Goto(c, "recycle")
     ELSE /\ Goto(c, "unlock")
          /\ UNCHANGED <<tail, popped>>
  /\ UNCHANGED <<head, elements, busy, has_data, overflows, waits, slot, loaded,
                 ticket, pushes, owner, lost, reported, lapped>>

(* pop: elements[i].recycle(); has_data[i].clear()                         *)
PopRecycle(c) ==
  /\ pc[c] = "recycle"
  /\ Recycle(slot[c])
  /\ ClearHasData(slot[c])
  /\ owner' = [owner EXCEPT ![slot[c]] = 0]
  /\ Goto(c, "unlock")
  /\ UNCHANGED <<head, tail, busy, overflows, waits, slot, loaded,
                 ticket, pushes, lost, popped, reported, lapped>>

(* pop: unlock_element                                                     *)
PopUnlock(c) ==
  /\ pc[c] = "unlock"
  /\ UnlockElement(slot[c])
  /\ slot' = [slot EXCEPT ![c] = 0]
  /\ Goto(c, "load")
  /\ UNCHANGED <<head, tail, elements, has_data, overflows, waits, loaded, history>>

-----------------------------------------------------------------------------

FinishPush(p) ==
  \/ ReserveMaskHead(p)
  \/ LockElement(p)
  \/ SpinElement(p)
  \/ CountWait(p)
  \/ ReserveTake(p)
  \/ ReserveOverrun(p)
  \/ ReserveCountOverflow(p)
  \/ ReserveCountResettable(p)
  \/ WritePrefix(p)
  \/ WriteArgs(p)
  \/ CommitPush(p)

PopAndProcess(c) ==
  \/ LoadOverflow(c)
  \/ ResetOverflow(c)
  \/ WriteBackOverflow(c)
  \/ PopTest(c)
  \/ LockElement(c)
  \/ SpinElement(c)
  \/ CountWait(c)
  \/ PopCopy(c)
  \/ PopRecycle(c)
  \/ PopUnlock(c)

Next ==
  \/ \E p \in Producers : ReserveIncHead(p) \/ FinishPush(p)
  \/ \E c \in Consumers : PopAndProcess(c)

Spec == Init /\ [][Next]_vars

(* Threads are scheduled: one that is past head.inc() or in the consumer   *)
(* loop keeps running.  Nothing makes the program start another push.      *)
Fairness ==
  /\ \A p \in Producers : WF_vars(FinishPush(p))
  /\ \A c \in Consumers : WF_vars(PopAndProcess(c))

FairSpec == Spec /\ Fairness

-----------------------------------------------------------------------------
(* Type correctness.                                                       *)

ProducerLabels ==
  {"idle", "mask", "lock", "spin", "count_wait", "test_and_set", "count",
   "count_resettable", "prefix", "args", "commit"}

ConsumerLabels ==
  {"load", "reset", "test", "lock", "spin", "count_wait", "recheck", "recycle", "unlock"}

Texts == Seq(Nat)

(* The variables keep their types: in particular no thread ever works on a *)
(* slot outside the array, whatever head has grown to between its steps.   *)
TypeOK ==
  /\ head \in Nat
  /\ tail \in Slots
  /\ elements \in [Slots -> Texts]
  /\ busy \in [Slots -> BOOLEAN]
  /\ has_data \in [Slots -> BOOLEAN]
  /\ overflow_counter \in Nat
  /\ resettable_overflow_counter \in Nat
  /\ spinlock_consumer_wait_counter \in Nat
  /\ spinlock_producer_wait_counter \in Nat
  /\ pc \in [Threads -> ProducerLabels \cup ConsumerLabels]
  /\ \A p \in Producers : pc[p] \in ProducerLabels
  /\ \A c \in Consumers : pc[c] \in ConsumerLabels
  /\ slot \in [Threads -> Nat]
  /\ \A t \in Threads : pc[t] # "mask" => slot[t] \in Slots
  /\ loaded \in [Consumers -> Nat]
  /\ ticket \in [Producers -> Nat]
  /\ pushes \in 0..MaxPushes
  /\ owner \in [Slots -> Nat]
  /\ lost \subseteq Nat
  /\ popped \in Seq(Texts)
  /\ reported \in Nat
  /\ lapped \in BOOLEAN

-----------------------------------------------------------------------------
(* Safety.                                                                 *)

(* Labels at which a thread has the lock of its slot.                      *)
HoldsLock(t) ==
  pc[t] \in {"count_wait", "test_and_set", "count", "count_resettable", "prefix",
             "args", "commit", "recheck", "recycle", "unlock"}

(* Two threads, producers or consumers, never work on the same slot at the *)
(* same time: the busy flag that lock_element takes and unlock_element     *)
(* clears is a lock, whatever the rounds the head has gone.                *)
MutualExclusion ==
  \A t, u \in Threads : HoldsLock(t) /\ HoldsLock(u) /\ slot[t] = slot[u] => t = u

(* Pushes whose commit_push is done.                                       *)
Committed(n) ==
  /\ n < pushes
  /\ \A p \in Producers : pc[p] # "idle" => ticket[p] # n

(* The consumer never copies a half-written message: whatever part of a    *)
(* message pop returns, the push it belongs to was committed before.       *)
NoTornMessage ==
  \A k \in DOMAIN popped : \A j \in DOMAIN popped[k] : Committed(popped[k][j])

Occupied == {i \in Slots : has_data[i]}

(* Slots whose message was copied out but that are not recycled yet.       *)
Copied == {slot[c] : c \in {d \in Consumers : pc[d] = "recycle"}}

(* The pushes whose message is in the buffer, and those delivered, in      *)
(* order, a popped text standing for the push it begins with.              *)
Buffered == {owner[i] : i \in Occupied \ Copied}
DeliveredSeq == [k \in DOMAIN popped |-> popped[k][1]]

(* Pushes that have not yet reached has_data.test_and_set().               *)
Waiting ==
  {ticket[p] : p \in {q \in Producers :
                        pc[q] \in {"mask", "lock", "spin", "count_wait", "test_and_set"}}}

(* Every push is in exactly one place: waiting for its slot, in the        *)
(* buffer, counted as lost to an overrun, or delivered, once, as the       *)
(* beginning of a popped message.                                          *)
Conservation ==
  LET delivered == {popped[k][1] : k \in DOMAIN popped}
      places == <<Waiting, Buffered, lost, delivered>>
  IN /\ UNION {places[i] : i \in 1..4} = 0..(pushes - 1)
     /\ \A i, j \in 1..4 : i # j => places[i] \cap places[j] = {}
     /\ Cardinality(Buffered) = Cardinality(Occupied \ Copied)
     /\ Cardinality(delivered) = Len(popped)

(* The ring buffer is a bounded lossy channel: has_data.test_and_set() of  *)
(* reserve_push is the instant a message is accepted or lost, the copy in  *)
(* pop the instant it is delivered, and every other step is invisible.     *)
Channel == INSTANCE TraceChannel WITH
  Messages <- 0..(MaxPushes - 1),
  buffered <- Buffered,
  lost <- lost,
  delivered <- DeliveredSeq

ImplementsChannel == Channel!Spec

(* overflow_counter counts the overruns, each once; the message that       *)
(* "N messages lost" reports to the dumper never add up to more than the   *)
(* overruns counted, although the counter is read and reset in two steps   *)
(* and producers increment it in between, also where the reset is not      *)
(* atomic.                                                                 *)
OverflowsNotOverreported ==
  /\ overflow_counter + Cardinality({p \in Producers : pc[p] = "count"}) = Cardinality(lost)
  /\ reported + resettable_overflow_counter <= overflow_counter

(* The non-atomic inc / &= pair on head hands the slots out round robin:   *)
(* head stays congruent to the number of pushes, above capacity by no more *)
(* than the producers that still have to mask it, and a push that is past  *)
(* the masking has the slot of its ticket.                                 *)
RoundRobin ==
  /\ Mask(head) = Mask(pushes)
  /\ head <= Capacity + Cardinality({p \in Producers : pc[p] = "mask"})
  /\ \A p \in Producers : pc[p] # "idle" => Mask(slot[p]) = Mask(ticket[p])

(* As long as no push is lost and none falls a whole round behind, the     *)
(* messages come out complete, unmixed and in the order in which the       *)
(* producers reserved their slots.                                         *)
FifoUnlessLapped ==
  lost = {} /\ ~lapped =>
    \A k \in DOMAIN popped : \A j \in DOMAIN popped[k] : popped[k][j] = k - 1

(* Producers do not wait for each other or for the consumer before the     *)
(* head wraps: the claim of the header's "How it works" that waiting needs *)
(* a consumer a whole round behind.                                        *)
ProducersWaitOnlyAfterWrap ==
  pushes <= Capacity => \A p \in Producers : pc[p] \notin {"spin", "count_wait"}

AllIdle == \A p \in Producers : pc[p] = "idle"

(* pop() finds nothing at the tail and returns false: then, unless a push  *)
(* was lost to an overrun, all pushes being committed, no slot has data.   *)
EmptyWhenPopFails ==
  [][\A c \in Consumers :
       pc[c] = "test" /\ pc'[c] = "load" /\ lost = {} /\ AllIdle => Occupied = {}]_vars

-----------------------------------------------------------------------------
(* Liveness.                                                               *)

(* A producer that has entered reserve_push leaves commit_push: no spin    *)
(* lock is left taken and no two threads wait for each other.              *)
PushTerminates == \A p \in Producers : pc[p] # "idle" ~> pc[p] = "idle"

(* Without overruns every push is eventually delivered by the consumer,    *)
(* lapped or not.                                                          *)
PushDelivered ==
  \A n \in 0..(MaxPushes - 1) :
    n < pushes ~> (lost # {} \/ \E k \in DOMAIN popped : DeliveredSeq[k] = n)

-----------------------------------------------------------------------------
(* What the comments in the source claim and the code does not do.         *)

(* "Returns true if a message was copied and false there was no message to *)
(* copy": pop returns false, all pushes being committed, only when no slot *)
(* has data.                                                               *)
PopFailsOnlyWhenEmpty ==
  [][\A c \in Consumers :
       pc[c] = "test" /\ pc'[c] = "load" /\ AllIdle => Occupied = {}]_vars

(* "Returns an empty slot that the producer can write to": the text of the *)
(* slot reserve_push returns is empty.                                     *)
ReservedSlotEmpty ==
  \A p \in Producers : pc[p] = "prefix" => elements[slot[p]] = <<>>
=============================================================================
