# infi.tracing in TLA+

`infi.tracing` traces the function calls of a (Python 2, greenlet based)
program. A profile function installed in the interpreter formats one message
per call and per return into a slot of a shared ring buffer; a native thread
pops the messages and writes them to a file, to stdout/stderr or to syslog.
This directory holds the specifications of its parts, the TLC models that check
them and the TLAPS proofs about them.

## 1. The system

| part | source (under `src/src/`) | state | operations |
| --- | --- | --- | --- |
| ring buffer | `infi/tracing/trace_message_ring_buffer.h` | `head`, `tail`, per slot text, `busy` lock and `has_data` flag, overflow and spin counters | `reserve_push`, `commit_push`, `pop`, `get_and_reset_overflow_counter` |
| message formatting | `infi/tracing/ctracing_log.pyx` | none of its own: it writes the reserved slot | `log_call`, `log_return`, `serialize_prefix` |
| value serialisation | `infi/tracing/ctracing_log_serialize.pyx` | none | `fast_repr` and its helpers |
| message | `infi/tracing/trace_message.h` | buffer, `write_index`, `limit_index`, timestamp, severity | `write`, `printf`, `limit`, `unlimit`, `rewind`, `recycle`, `operator=` |
| trace dump | `infi/tracing/trace_dump.cpp/.h`, `ctracing_trace_dump*.pyx`, `__init__.py` | `shutdown`, `thread_running`, the output handle | `start`, `stop`, `thread_func`, `pop_and_process`, `process_remaining` |
| syslog output | `infi/tracing/trace_dump.cpp` (UNIX and TCP sockets) | `fd`, message buffer | `try_connect`, `send`, `close`, `format_message`, `process` |
| profile function | `infi/tracing/ctracing.pyx`, `thread_storage.h/.cpp` | per thread: `enabled`, last frame / greenlet / storage; per greenlet: `depth`, `no_trace_from_depth` | `greenlet_trace_func`, `suspend`, `resume`, `ctracing_set_profile`, `unset_tracing` |
| trace level cache | `lru.hpp`, `trace_level_func_cache.pyx` | array of entries, linked by a hash table in order of use | `insert`, `find`, `~LRU` |
| hash table | `uthash.h` | buckets and their chains, the list of all elements, counters | find, add, delete, iterate, expand |
| process exit guard | `infi/tracing/wait_and_ensure_exit.cpp` | none | sleep, then `_exit` |
| atomic operations | `mintomic/` | one variable of 32 or 64 bits | load, store, compare and exchange, fetch and add / and / or, for each platform |
| thread wrappers | `mintsystem/` | none | create, join, sleep |

How the parts interact:

* **Interpreter threads** run the profile function on every call and return,
  holding the GIL. It finds the storage of the running greenlet, decides with
  the filter (through the trace level cache) whether to log, and if so calls
  `reserve_push`, formats the message in the slot itself and calls
  `commit_push`. They are the producers. `PyWriter.write` pushes the same way.
* **The dump thread** is a native thread that never takes the GIL: it reports
  the overflow counter, pops one message, formats and writes it, and sleeps
  when there was none. It is the consumer.
* **The API thread** (`set_tracing`, `unset_tracing`, `tracing_output_to_*`)
  creates, starts and stops dumps. `stop()` joins the dump thread *with the GIL
  held* and then drains the ring buffer itself, so that the consumer changes.
* **Producers and consumer share only the ring buffer.** Each slot has a spin
  lock (`busy`) and an occupied flag (`has_data`); `head` belongs to the
  producers, `tail` to the consumer.
* **The syslog output** is a socket that the consumer connects, writes and, on
  any failure, closes; a message is tried twice.
* **Greenlet storage** belongs to a thread and is touched only by its profile
  function. Its cache is keyed by frame address, which CPython reuses at once.

What is hard here: the lock-free handing out of slots (`head` is incremented
and masked in two steps), a full ring whose producers come round to slots the
consumer works on, text formatted in place while the slot is already marked
occupied, a counter read and reset in two steps, a join under the GIL, the
hand-over from dump thread to draining caller, a stream cut in the middle of a
frame and the retry after it, caches keyed by addresses that are reused, a hash
table whose elements are removed and added again on every hit, and 64-bit
atomics put together from 32-bit accesses and retry loops.
`PROJECT.json` lists these hazards with their lines and the properties aimed at
each.

What makes each part correct:

| part | must hold |
| --- | --- |
| ring buffer | a slot has one user at a time; every push is delivered once, buffered or counted as lost; no half-written message is copied; order is kept unless a push is lost or lapped; pushes terminate and are delivered |
| message | writing never leaves the buffer or the limit in force; the C string always ends |
| profile function | the storage used is that of the running greenlet's word (the 32 bits of its gid that are compared) and alive; in a greenlet that shares its storage with no other a call and its return have the same depth, and exactly the inside of a NO_TRACE_NESTED function is silent |
| trace level cache | the most recently used decisions are kept and found, with the level the filter gave |
| hash table | links, counts and memory stay consistent through deletions, re-insertions and doublings |
| atomic operations | each function takes effect at one instant, whatever instructions of others run between its own; loops are lock-free |
| trace dump | one consumer at a time, none on a closed output; nothing is left behind at close; `stop()` returns |
| syslog output | frames stay intact, no message twice or out of order, a reset costs no message, what is sent is inside the buffer (exactly when the line fits it), the time in it is the message's, no descriptor leaks |

## 2. Modules

| module | models | used by |
| --- | --- | --- |
| `TraceMessageRingBuffer` | the ring buffer, its producers and its consumers | `TraceDump` extends it |
| `TraceChannel` | abstract: what the ring buffer promises, a bounded lossy channel | refinement target of the ring buffer |
| `TraceDump` | dump threads, `stop()`, the API calls and the GIL, on the ring buffer | |
| `SyslogSender` | `SyslogTraceDump::process` and its sockets, with the server | |
| `GreenletTrace` | the profile function and the greenlet storage, with the interpreter | |
| `UtHash` | the hash table, pointer by pointer, as functions on tables | `TraceLevelCache` instantiates it |
| `TraceLevelCache` | the LRU of filter decisions | |
| `TraceMessage` | the buffer of one message | |
| `AtomicOperations` | what each atomic operation does to a value | `Mintomic` and `AtomicWord` extend it |
| `AtomicWord` | abstract: an atomic variable | refinement target of `Mintomic` |
| `Mintomic` | the operations of each platform, instruction by instruction | |
| `MC...` | instances for TLC: symmetry sets and constant values | |
| `TraceMessageRingBufferProofs` | theorems: locks and refinement of the ring buffer | `RingDeliveryProofs` extends it |
| `RingDeliveryProofs` | theorems: what the ring buffer delivers | `TraceDumpProofs` extends it |
| `TraceDumpProofs` | theorems: dump threads, and what follows for the whole program | |
| `TraceLevelCacheProofs` | theorems: the hash table and the cache on it | |
| `GreenletTraceProofs`, `SyslogSenderProofs`, `TraceMessageProofs`, `MintomicProofs` | theorems about these modules | |

In several modules a definition is preceded by a *fault* of it: the form it
would have with a plausible bug (a dropped guard, an off-by-one, a missing
reset). No specification uses them. They are there to show that the properties
can fail: with the fault in place of the definition TLC finds the property
named in `PROJECT.json` ("mutants") violated.

### 2.1 TraceMessageRingBuffer

One action per access to shared memory made without the slot lock; the code
between taking and releasing a lock is cut where another thread can see it.

| code | actions |
| --- | --- |
| `lock_element` | `LockElement`, `SpinElement`, `CountWait` |
| `reserve_push` | `ReserveIncHead`, `ReserveMaskHead`, (lock), `ReserveTake` or `ReserveOverrun`, `ReserveCountOverflow`, `ReserveCountResettable` |
| `log_call` / `log_return` | `WritePrefix` (with its early return, and the end for `TRACE_FUNC_NAME`), `WriteArgs` |
| `commit_push` | `CommitPush` |
| `get_and_reset_overflow_counter` | `LoadOverflow`, `ResetOverflow`, `WriteBackOverflow` |
| `pop` | `PopTest`, (lock), `PopCopy`, `PopRecycle`, `PopUnlock` |

The text of a message is a sequence of *tickets*, one per part written: ticket
n is the n-th `reserve_push`. Which message, whole or torn or appended to which
other, is all the properties need to know of a text. Tickets, `owner`, `lost`,
`popped`, `reported` and `lapped` are history: no action of the code reads them,
apart from the two inputs: the bound `MaxPushes` on the number of pushes, and
`NameOnly`, the pushes whose trace level is `TRACE_FUNC_NAME`, which write no
arguments.

Atomics are single steps, which is what `Mintomic` shows of them, and
sequentially consistent. The one exception is the store that clears the overflow
counter: on a 32-bit x86 it is an unlocked `cmpxchg8b`, and `WriteBackOverflow` is
its write back of an older count, as often as it happens before the store succeeds.
The code uses the relaxed operations of mintomic and plain stores for the text; on
the x86 builds these are not
reordered in a way that matters here. On a weakly ordered processor they could
be, which is listed as a hazard and not modelled.

`TraceChannel` is the abstract specification: `Accept`, `Overrun` (only while
something is buffered) and `Deliver`. The refinement maps `buffered` to the
owners of the occupied slots not yet copied out, `lost` to the pushes that found
`has_data` set, and `delivered` to the first ticket of every popped text. So
`test_and_set` on `has_data` is where a push takes effect, and the copy in `pop`
where it is delivered.

### 2.2 TraceDump

Extends the ring buffer with the consumers of the real system: the thread of
each dump, and the API thread, which drains in `stop()`.

| code | actions |
| --- | --- |
| profile function, `PyWriter.write` | `BeginPush`, `Reserving`, `Formatting`, `EndPush`: the ring buffer's steps with the GIL |
| `thread_func` | `ThreadStep`, `ThreadExit` |
| `tracing_output_to_*` | `TracingOutputTo` (replacing a dump runs its `stop()`) |
| `set_tracing` / `start` | `SetTracing` |
| `unset_tracing` | `UnsetTracing`, then `DropDump`: the destructor calls `stop()` again |
| `stop` | `Stop`, then `ShutdownThread`, `JoinThread`, `ProcessRemaining`, `CloseOutput`, `StopReturns` |

The GIL is held from `reserve_push` to `commit_push`, and from the beginning of
`stop()` to its return. The first is what the code does today: `fast_repr` runs
no Python code, and the `py_repr` variant that would is not called. (A garbage
collection that runs a Python finalizer while a message is being formatted is
outside the model.) `StopTerminates` depends on it: with the fault `GilNotHeld`
TLC finds the deadlock in which the caller of `stop()` holds the GIL and waits
for the dump thread, that one spins on a slot, and the producer of that slot
waits for the GIL.

### 2.3 GreenletTrace

One thread at a time. The interpreter is the environment: `Call`, `Return`,
`Switch`, and `SetProfile`, `UnsetProfile`, `Suspend`, `Resume` called from Python
code. `Event` is what `greenlet_trace_func` computes for a call or a return: the
storage found through the cached frame (`CacheHit`, `GStore`) or made by
`NewGStore` with the depth counted from the frames below, the depth arithmetic,
whether the filter is asked, and `no_trace_from_depth`. `TraceFunc`, part of `Call`
and `Return` while the profile function is installed, is what it leaves behind,
`del_gstorage` on the outermost return included. The properties are about the next
event there would be, in every reachable state, so that no history of events is
kept. Frame addresses are reused freely; storage addresses too. `ThreadExit` is
the destructor of the thread's storage, with whatever unfinished greenlets left
in it, and the start of another thread.

`gid_map` is searched by `Word`, the `sizeof(int)` bytes of the gid that
`HASH_FIND_INT` and `HASH_ADD_INT` compare (`Found`): greenlets with the same word
have one storage, with the gid of the one it was made for, and count their depths
together. `Unshared(g)` says that no other greenlet of the thread has the word of
`g`. `DepthPaired`, `NestedSilent` and `OnlyNestedSilent` are about such greenlets, with
or without others in the thread that do share; they are false of greenlets that
share a storage. `RightGreenlet`, `NoLeftOverStorage` and `NoDanglingStorage` are
about all. The filter is a fixed function of the
code object, so that the cache of its decisions, modelled in `TraceLevelCache`,
makes no difference here.

### 2.4 SyslogSender

`Process` begins a message with `FormatMessage`; `Connected`, `Connect`,
`ConnectFails`, `SendOk`, `SendFails` are the socket calls of `try_connect` and
`send` for both classes (a UNIX socket is tried as datagram, then as stream; TCP
sends a length prefix and then the body), with `NextTry` the loop of two
attempts; `StopSender` is `stop()`. `Crash`, `Restart` and `ResetArrives` are the
server and the network: a TCP peer that is gone swallows what is sent until the
reset arrives. Messages are numbers; what a connection carried is a sequence of
pieces, whole or cut.

Of the line that `format_message` puts together the model keeps its length, which
is what `snprintf` returns (also when it had to cut), the buffer size, and the time
(`IsoTime`, `Fraction`), which `FileTraceDump::process` prints with the same code.
Which of the two headers is used is `rfc5424`; only that of RFC 5424 has a time. The
constructor adds a margin of 8192 characters to the capacity of a message. The names
in the header come from the caller and are not checked, so `HeaderSize` is any
length. `SentFromBuffer` says which lines are sent from within the buffer: those that
fit it, which a header within the margin makes of every line, and no other. Of a
send beyond the buffer, which C leaves undefined, the model keeps the outcomes of
other sends.

### 2.5 UtHash and TraceLevelCache

`UtHash` is the hash table as its macros build it: a record of the head pointer,
the `UT_hash_table` and the handle of every element, with the list of all elements
(`prev`, `next`), the chains of the buckets (`hh_prev`, `hh_next`), the counters and
`expand_mult`. Each macro is an operator from tables to tables, put together from
one operator per thing it updates (`LinkedLast`, `AddedToBkt`, `Unlinked`,
`BktWithout`, `MoveItem`); `HASH_FSCK` is the debug macro of the same name. The loop of
`HASH_EXPAND_BUCKETS` over the old buckets and that of the destructor over `HASH_ITER`
are recursive functions on the list of what they visit (`MoveItems`, `DeleteItems`).

`TraceLevelCache` has the array of entries on such a table. `Hit` is `find` of a
key that is there: the element is deleted and added again. `Miss` is a `find` that
fails, the call of the filter (any level) and `insert`, which takes the next entry of
the array or evicts the first of `HASH_ITER`. `Renew` is the destructor, which
deletes every element, and the new cache of the next greenlet. Keys are compared
by `Word`, the `sizeof(int)` bytes that `HASH_FIND_INT` and `HASH_ADD_INT` look at; two
of the keys of the instance agree in them. The hash function is a constant.

### 2.6 TraceMessage

`Write`, `Printf`, `Limit`, `Unlimit`, `Rewind`, `RecycleMessage` and `Assign`
(`operator=`, which copies the other message's text and both its indexes) in any
order, which includes every order the serialisers use.
Strings are lengths; a byte is part of the current message, left over from an
older one, or NUL.

### 2.7 AtomicOperations, AtomicWord, Mintomic

`Code` has, for each of nine platforms and for each function, the instructions that
touch the shared variable. The actions are those instructions:

| platforms | source | functions |
| --- | --- | --- |
| `gcc_32`, `gcc_x64` | `mintomic_gcc_x86-64.h`, 32-bit part and `MINT_CPU_X64` part | one instruction, or `mov` and a locked `cmpxchg` with `jne` back to the `mov` |
| `gcc_x86` | the same file, 64-bit functions on a 32-bit processor | `_nonatomic` read in halves, then `cmpxchg8b`; locked except in the store |
| `arm_32`, `thumb_32`, `arm_64` | `mintomic_gcc_arm.h`, `mintomic_gcc.c` | `ldrex` / `strex` loops |
| `msvc_32`, `msvc_x64`, `msvc_x86` | `mintomic_msvc.h` | intrinsics; on 32 bits loops that carry the value of a failed exchange over, and an unlocked `cmpxchg8b` in the store |

A value is a pair of halves of `Base` values each, so that reading by halves can
tear it and addition carries from one half to the other (`Sum`). `latch` is what an
unlocked `cmpxchg8b` has read and not yet written back: the instruction writes
whether or not its comparison succeeds, and another processor may write in
between. `monitor` are the exclusive reservations of ARM; `LoseMonitor` is the
processor dropping one. The processors are outside the repository and modelled
from how the code uses them.

`AtomicWord` is the abstract specification: `Invoke`, `TakeEffect`, `Return`. The
refinement maps `answer` to the register of a thread whose function has taken
effect and not yet returned. `ImplementsAtomicWord` allows one kind of step that
is not of the abstract variable, `WriteBack`: the unlocked store whose comparison
failed writes the old value back over what another thread may have written. The
program meets it on 32-bit x86 builds: there `head` is the 32-bit class
(`atomic_uint`), but the overflow and spin counters are `atomic_uint64` on every
build, and `get_and_reset_overflow_counter` stores to one of them while producers
increment it. `WriteBackOverflow` of `TraceMessageRingBuffer` is that step. It forgets
increments and adds none, so that `OverflowsNotOverreported` holds with it.

## 3. Runs

Passing runs (states are distinct states):

| run | instance | properties |
| --- | --- | --- |
| `ring` | 2 producers, 1 consumer, `Capacity` 2, `TraceMessageCapacity` 3, `NameOnly` {1}, `MaxPushes` 4; 105 k states | `TypeOK`, `MutualExclusion`, `NoTornMessage`, `Conservation`, `OverflowsNotOverreported`, `RoundRobin`, `FifoUnlessLapped`, `ProducersWaitOnlyAfterWrap`, `EmptyWhenPopFails`, `ImplementsChannel`, `PushTerminates`, `PushDelivered` |
| `greenlets` | 3 greenlets, 2 of which share a word, 2 functions (traced and NO_TRACE_NESTED), 3 `Addresses` (symmetric), `MaxDepth` 2, `MaxSuspends` 1, `MaxUnsets` 1, `OneAtATime`; 2.5 M states | `RightGreenlet`, `DepthPaired`, `NestedSilent`, `OnlyNestedSilent`, `NoLeftOverStorage`, `NoDanglingStorage` |
| `dump_threads` | 1 producer, a file dump and a stdout dump, `Capacity` 2, `TraceMessageCapacity` 2, `NameOnly` {1}, `MaxPushes` 4; 192 k states | `DumpTypeOK`, `SingleConsumer`, `HandleOpenWhileDumping`, `DrainedAtClose`, `StopTerminates`, `RunningDumpDelivers` |
| `syslog` | every protocol and header, `MaxMessages` 3, `MaxCrashes` 2, `MaxFailures` 2; 1.0 M states | `TypeOK`, `Framing`, `OnceInOrder`, `DeliveredAfterReset`, `SentFromBuffer`, `NoDescriptorLeak` |
| `level_cache` | 6 `Keys` with 5 words, `CacheSize` 3, 2 levels, 1 bucket at first, chains split at 2; 226 k states | `EntriesCompact`, `KeepsMostRecent`, `ReturnsItsDecision`, `TableIntegrity`, `HitKeepsBuckets` |
| `message_buffer` | `MessageCapacity` 4, `MaxLen` 6, `MaxNesting` 2; 27 k states | `InBounds`, `Terminated` |
| `mintomic` | 2 threads, halves of one bit, every operation, all nine platforms; 153 k states | `TypeOK`, `ImplementsAtomicWord`, `LockFree` |

Each property is stated in words above its definition. What the bounds are for:

* **Ring.** With capacity 2 and four pushes the head goes round twice,
  producers meet each other and the consumer at one slot, overruns happen with
  room for the appended text and without (a slot holds one and a half messages),
  and a push can be lapped. One push is of a name only, so that a short text is
  followed by longer ones in its slot. Two producers are enough for every pair of
  roles;
  for any number of them the safety properties are proved.
* **Dump threads.** One producer, since the GIL lets only one be in a push; four
  pushes overrun the ring and leave some to every phase of `stop()`. Two dumps
  are an old one and the one that replaces it, one that closes its output and
  one that does not.
* **Greenlets.** Two frames, and the call that the running greenlet would make next,
  put a traced function around a silent one around a further call. Three addresses
  are one less than two greenlets with two frames each need, so that those of dead
  frames are reused at once and by another greenlet. The main greenlet and `g2` share a
  word and so a storage, and find in it what the other left; either may be the first to
  end and free it. `g1` has a word of its own and interleaves with the main one, which
  is what `DepthPaired`, `NestedSilent` and `OnlyNestedSilent` look at. The constraint
  `OneAtATime` keeps the run small: of `g1` and `g2` one at a time is running or has
  frames, in any order and with anything left behind. Three unfinished greenlets at once
  are covered by the proofs only. A function that is not traced but whose callees are
  differs from a traced one in not being logged, so that two functions are enough.
  `unset_tracing` lets the depths drift, so the properties but `NoDanglingStorage` are
  about behaviours in which it has not happened yet.
* **Syslog.** Three messages are one before, one during and one after a failure;
  two crashes hit both attempts of one message. With a message of full length the
  header of RFC 5424 is longer than its margin and overflows the buffer, and the other
  fills it exactly; the lines of the other messages fit.
  Two of the times are in one second.
* **Cache.** Two words more than the cache holds, so that an entry evicted is
  asked for again while others come and go. The table begins with one bucket and
  splits chains of two (32 and 10 in the code), so that it doubles, evicts and
  doubles again. Two doublings in vain, after which the table stops doubling
  (`noexpand`), take more elements than three; that branch is modelled and not
  reached.
* **Mintomic.** Two threads are enough for one to come between any two
  instructions of the other; for any number the refinement is proved. With one bit
  per half, addition still carries within the word and out of it.
* **Message.** Strings longer than the buffer and limits inside limits.

`CHECK_DEADLOCK FALSE` is set where the program may stop for good: after the
last `stop()` with all pushes made (`dump_threads`), and when the sender is
stopped (`syslog`). Frame addresses are used symmetrically: no action or property
tells them apart, and the run with symmetry checks no liveness.

### Fairness

`FairSpec` and `DumpFairSpec` assume weak fairness of threads that are running:
a producer past `head.inc()`, a thread in `pop_and_process` or `thread_func`, an
API thread inside `stop()`. They are preemptively scheduled and wait for nothing
but the spin locks, the GIL and the join the model has. Nothing makes the
program push again or call the API. The spin lock is unfair in the code and in
the model: weak fairness of `FinishPush` does not promise that a spinning thread
gets the lock at a particular release. `PushTerminates` holds because the number
of pushes is bounded, so that the contention ends; it says that no lock is left
taken and nobody waits in a circle, not that a spinning thread is served within
any bound.

`FairSpec` of `Mintomic` assumes that a thread inside a function is scheduled, and
that from some time on no reservation is lost for reasons other than a write: the
architecture promises no more than that a loop of `ldrex` and `strex` makes progress
when nothing interferes. It does not assume that a particular thread ever
succeeds, and `LockFree` does not say so: some thread finishes.

### Where the code and its documentation disagree

Each of these runs checks one statement of the documentation and is expected to
be violated.

* `ring_pop_doc`: `pop` "returns ... false [if] there was no message to copy".
  After an overrun the tail may stand at an empty slot with committed messages
  in others, and `pop` returns false until the head comes round to that slot; the
  drain in `stop()` leaves these messages behind too. `EmptyWhenPopFails` is what
  does hold: without overruns the statement is true.
* `ring_reserve_doc`: `reserve_push` "returns an empty slot". On an overrun the
  slot keeps its text, and the new message is appended to the old one, or is
  dropped when there is no room, rather than replacing it.
* `greenlets_default_filter`: "by default, traces all functions". The default
  filter returns `True`, which is 1, that is `NO_TRACE_NESTED`.
* `message_printf_doc`: "failed to write everything, so we write nothing". A text
  of exactly `avail_size()` characters loses its last one to the NUL and is taken
  for complete.
* `syslog_timestamp_doc`: "TIMESTAMP is ISO date". Milliseconds are printed as six
  digits of fraction: with the header of RFC 5424 a message of 1.005 s carries the
  time 1.000005 s. The file dump has the same lines.

Further observations, some recorded with the hazards: the LRU and the greenlet
table compare 32 bits of 64-bit keys (`ReturnsItsDecision`, `RightGreenlet` and
`NoLeftOverStorage` state what remains true, and for greenlets with a word of their
own `DepthPaired`, `NestedSilent` and `OnlyNestedSilent`); `format_message` takes a
syslog line for truncated only when `snprintf` returned exactly the size of the buffer,
so that of a longer one, which takes names beyond the margin, more is sent than the
buffer holds (`SentFromBuffer` states for which lines this does not happen); `stop()`
before the first `start()` closes the handle without setting `shutdown`; `stop()` of a
stdout or stderr dump does not drain; a filter that returns -1 stores the value that
means "not found", so that its key is inserted on every call (`LevelsAssumption` excludes it); the constructor of the ring takes a
capacity that is no power of two (`CapacityAssumption` excludes it); `suspend()`
counts per thread, so a greenlet switch inside a suspended context silences the
other greenlets; on Windows `set_timestamp` stores microseconds where the dumps
expect milliseconds.

## 4. Theorems

Checked by TLAPS, for every value of the constants that satisfies the named
assumptions: any sets of producers and consumers, any power of two of slots, any
bound on the pushes, any message capacity and nesting, any number of dumps,
greenlets, frames, messages and failures, any number of cache entries, any hash
function and threshold, any word size, bitwise operations and operands.

| module | theorem | statement |
| --- | --- | --- |
| `TraceMessageRingBufferProofs` | `TypeCorrect` | `Spec => []TypeOK`; no thread leaves the slot arrays |
| | `LocksExclude` | `Spec => []MutualExclusion` |
| | `Inductive` | `Spec => []IndInv` |
| | `RingImplementsChannel` | `Spec => ImplementsChannel`: the ring buffer refines `TraceChannel` |
| `RingDeliveryProofs` | `NeverTorn` | `Spec => []NoTornMessage` |
| | `NothingLostUncounted` | `Spec => []Conservation` |
| | `SlotsRoundRobin` | `Spec => []RoundRobin` |
| | `NoWaitBeforeWrap` | `Spec => []ProducersWaitOnlyAfterWrap` |
| | `NeverOverreported` | `Spec /\ []OnePops => []OverflowsNotOverreported` |
| | `DeliveredFifo` | `Spec /\ []OnePops => []FifoUnlessLapped` |
| | `FailedPopMeansEmpty` | `Spec /\ []OnePops => EmptyWhenPopFails` |
| `TraceDumpProofs` | `DumpTypeCorrect` | `DumpSpec => []DumpTypeOK` |
| | `OneConsumerAtATime` | `DumpSpec => []SingleConsumer` |
| | `NeverDumpsToClosed` | `DumpSpec => []HandleOpenWhileDumping` |
| | `StopDrains` | `DumpSpec => DrainedAtClose` |
| | `DumpsImplementChannel` | `DumpSpec => ImplementsChannel` |
| | `DumpsNeverOverreport`, `DumpsFifo`, `DumpsPopFailsWhenEmpty` | the one-consumer theorems of the ring buffer, for `DumpSpec` and without their hypothesis |
| `GreenletTraceProofs` | `NeverDangling` | `Spec => []NoDanglingStorage` |
| | `CachedGreenletRuns` | `Spec => []RightGreenlet` |
| | `EndedGreenletsForgotten` | `Spec => []NoLeftOverStorage` |
| | `DepthsPair` | `Spec => []DepthPaired` |
| | `NestedNeverLogged`, `OnlyNestedUnasked` | `Spec => []NestedSilent`, `Spec => []OnlyNestedSilent` |
| `TraceLevelCacheProofs` | `CacheInvariant` | `Spec => []CacheInv` |
| | `TableIsIntact` | `Spec => []TableIntegrity` |
| | `EntriesStayCompact` | `Spec => []EntriesCompact` |
| | `ReturnsDecision` | `Spec => []ReturnsItsDecision` |
| | `KeepsRecent` | `Spec => []KeepsMostRecent` |
| `SyslogSenderProofs` | `TypeCorrect` | `Spec => []TypeOK` |
| | `NoLeak` | `Spec => []NoDescriptorLeak` |
| | `SentFits` | `Spec => []SentFromBuffer` |
| | `StreamFramed` | `Spec => []Framing` |
| | `SentOnceInOrder` | `Spec => []OnceInOrder` |
| | `ResetSurvived` | `Spec => []DeliveredAfterReset` |
| `TraceMessageProofs` | `MessageInBounds`, `MessageTerminated` | `Spec => []InBounds`, `Spec => []Terminated` |
| `MintomicProofs` | `TypeCorrect` | `Spec => []TypeOK` |
| | `MintomicImplementsAtomicWord` | `Spec => ImplementsAtomicWord`: every platform refines `AtomicWord`, but for `WriteBack` |
| | `AtomicWithoutUnlockedStores` | without `gcc_x86` and `msvc_x86`, `Spec => Atomic!Spec` |

Every inductive invariant below but that of the cache was checked by TLC, as an
invariant of the run of its module, before it was proved. `CacheInv` quantifies over
lists and is not something TLC can evaluate; what follows from it is what
`level_cache` checks.

**Ring buffer.** Assumptions: `CapacityAssumption` (a positive power of two, which
the constructor's check, now commented out, demanded), `ThreadsAssumption`
(producers and consumers are different threads), `BoundsAssumption`.

`MutualExclusion` is not inductive: it says nothing of `busy`. `LockPart` adds
`LockInv`, that a thread inside its critical section has the flag of its slot set,
and that suffices: a lock is taken only when the flag is clear, and cleared by its
holder.

For the refinement a step that delivers a text must deliver a message that is
buffered, and one that accepts must accept one that is new. `IndInv` adds what
this needs: tickets of pushes in progress are distinct (`TicketInv`); a slot is
occupied from `test_and_set` to `commit_push` and until it is recycled
(`FlagInv`); a push that has not reached `test_and_set` is neither buffered, lost
nor delivered, and no two slots have one owner (`OwnerInv`); an occupied slot
begins with its owner's prefix, unless the owner holds the lock and is about to
write it, and an empty slot has no text (`TextInv`). With it `ReserveTake`
maps to `Accept`, `ReserveOverrun` to `Overrun` and a successful `PopCopy` to
`Deliver`; `InvisibleStep` and `RecycleInvisible` deal with the rest. That fewer
than `Capacity` messages are buffered when one is accepted follows from the slot
that is not occupied.

**What the ring buffer delivers.** The same assumptions. `RingInv` adds to
`IndInv`, for any number of consumers: the parts of a text belong to committed
pushes or to the holder of the slot's lock (`TornInv`); every push is in one of the
four places of `Conservation` and in no other (`PlaceInv`, from which `PlacesUnion` and
`Conserved` conclude that the places are pairwise disjoint), and `overflow_counter`
agrees with the lost ones, but for producers about to count (`CountInv`); a slot is
occupied by a push whose turn it is (`RoundInv`); a set `busy` flag has a holder
(`HeldInv`), so that nobody spins while each push of the first round still has the
slot of its number to itself (`WrapInv`, `WriterInv`). The masking of `head` is
reasoned about by quotient and remainder (`UniqueRemainder`, `MaskOfRounds`,
`RoundApart`).

Three properties are false of two consumers that pop at once, as TLC finds with a
second one in the instance of `ring`: `tail` and the resettable counter are read and
written back in separate steps. They are proved of behaviours with one at a time,
`OnePops`. `OneConsumerInv` says that what was
reported, can still be reported and is about to be counted is no more than was
counted (`ReportInv`), which a write back of the counter only makes less
(`WrittenBack`); that the tail is the number of messages delivered, modulo
the capacity, and that each message came from the slot where the tail was
(`TailInv`); and that, without overruns and laps, those delivered are
the pushes before the tail, in order (`FifoInv`). That all slots are empty when the
one at the tail is (`EmptyAtTail`) is by counting, and holds of lapped pushes too:
the pushes whose turn the tail's slot is are all delivered, each at a position whose
turn it is, and there are not enough such positions unless the pushes have ended.

**Dump threads.** Assumptions: those of the ring buffer and `DumpsAssumption`.
`DumpsUseRing` shows that every step of the program is one of the ring buffer or
leaves it alone, so all that was proved of `Spec` with any number of consumers
holds. `DumpInv` says who may run when: a Python thread has the GIL exactly while
it pushes (`GilInv`), a thread runs only for a dump that was started and not joined
(`ThreadInv`), only the current dump or, until it is joined, the one being stopped
has one (`RunInv`), and the API thread pops only in the drain of a `stop()` whose
output is open (`ApiInv`, `StartedInv`). From it follows `SingleConsumer`, which is
`OnePops`; so the three theorems above lose their hypothesis. `DrainInv`, that
everything not lost is out when the drain is over, then rests on
`FailedPopMeansEmpty`'s argument: nobody pushes while `stop()` has the GIL.

**Profile function.** Assumptions: `GreenletsAssumption`, `FilterAssumption`,
`AddressesAssumption`, `DepthAssumption` (stacks are less deep than the value that
disables `no_trace_from_depth`). `GreenletInv` has a part that always holds and one
for as long as `unset_tracing` was not called. Always: frames have different
addresses (`AddressInv`); there is one storage per word at most, so that there is
memory for another (`RoomForStorage`), and the cached one is alive while a frame is
remembered (`StorageInv`): freeing it is what clears the frame. Until
`unset_tracing` (`SeenInv`): the frame remembered is the innermost of a greenlet with
the word whose storage is cached (`TopInv`), so that a cache hit, with no two frames
at one address, is a hit for the running greenlet's word (`OwnStore`); a storage was
made for a greenlet that has frames (`LiveInv`), since either it or one that shares
frees the storage on its outermost return. The rest is about greenlets that share
with nobody, which no assumption demands: the storage counts no more frames than
there are (`LiveInv`); the depth of
each frame that was seen differs from the depth in the storage as their positions on
the stack do, and `no_trace_from_depth` is the depth of the nested frame (`FrameInv`);
outside a nested frame it is above the current depth (`OpenInv`). The last two need
each other: a call below a nested frame is deeper, hence not asked about, hence
leaves `no_trace_from_depth` alone; the return of the nested frame itself is asked
about. `StoreOfCurrent` puts this together for the storage the next event uses.

**Hash table and cache.** Assumptions: `CacheSizeAssumption` (a cache of no entries would
write through a null pointer), `KeysAssumption`, `NullAssumption`, `HashAssumption` (any
function to the naturals), `BucketsAssumption` (thresholds are positive).
No proof cites `LevelsAssumption`; it is what makes `Hit` faithful, since the code
takes a level of -1 that it finds for a key it has not found.

The four properties speak of walks along pointers, so the invariant names the list
that such a walk yields. `Table(H, L, n)` says that the table links the `n` different
elements of `L` in this order, forwards and backwards, with head, tail and count,
and that `Chains` holds: every bucket has a list of exactly the elements whose hash
value belongs there, as many as its count. `CacheInv` says that there are `L` and `n`
with

* `Table(table, L, n)`;
* `Contents`: `L` has the first `n` entries of the array, the others are vacant; an
  entry's handle has the hash of the word of its key, its value is the decision last
  made for that word, and no two entries have one word;
* `History`: the words of `L` are the last ones looked up, and either all that ever
  were or as many as the cache holds;
* `Answer`: what the last lookup returned.

Each needs the others. A search looks into one bucket only (`FindSpec`), so that
"not found" means "in no entry" because handles carry the hash of their key and
chains are complete; without it `Miss` could store a word a second time, and the older
decision would be found after the newer. That the entry `insert` takes is vacant needs
the first `n` entries to be in use, and that the evicted one is the least recently
used needs the order of `L` to be that of `History`.

The proof goes up in layers. Lists as functions on `1..n`: removing an element
(`Unlink`), adding one in front and at the end (`PushFront`, `PushBack`), and what
`Chain` walks (`ChainIs`). Chains: what one such change in one bucket does to all of
them (`ChainsAdded`, `ChainsDeleted`). Macros: each of them field by field
(`UnlinkedFields`, `DelInBktFields`, `LinkedLastFields`, `AddedToBktFields`). Expansion:
`MoveItem` takes an element out of the old chains and puts it into a new one, and
though it overwrites the links that are still to be walked, the list of items was
fixed before (`BucketOrderIs`, `MoveItemsExpands`, `ExpandFields`); the code saves the
next element before it moves one, which is why that list is faithful. Then
`TableAdded`, `TableDeleted` and `DeletedAll` for the table, and one lemma per action of
the cache: `HitKeeps`, `MissKeepsVacant`, `MissKeepsFull`, `RenewKeeps`.

The library's induction rules take a predicate, which the backends cannot
instantiate. Here inductions are over sets: the counterexamples up to `n`
are a set of naturals and have a least element (`Least`, `UpTo`). A recursive function is
unfolded after showing that a function with its equations exists
(`FlattenDefined`, `MoveItemsDefined`, `DeleteItemsDefined`; `ChainIs` does it for walks).

**Syslog output.** Assumptions: `SenderAssumption`, `FormatAssumption` (a header
has at least one character and may be longer than its margin). `SentFits` needs no
invariant but the types (`LineFits`). The invariant says
that only the newest connection is in use (`NewestInv`); that, while its peer is
there, nothing on it was cut and on TCP it ends in a length prefix exactly when the
body is to be sent (`FramingInv`); that a whole body belongs to a message `process()`
has returned from (`CompleteInv`), which makes the retry harmless; and that in a
fair attempt the second try finds a good connection or none (`FairInv`).

**Message buffer.** Assumption: `MessageAssumption`. The invariant `MessageInv` is
`TypeOK /\ InBounds /\ Terminated`; each part needs the others: the sentinel
survives because every write stops below `limit_index`, and that it does needs
the stacked limits to be ordered.

**Atomic operations.** Assumptions: `BaseAssumption`, `BitsAssumption`,
`OperationsAssumption`, `PlatformsAssumption`. The refinement is not inductive by
itself: when `strex` stores what it computed from the register, the register must
still be the value of the variable, and when a lone `cmpxchg` fails or succeeds it
must have compared with the expected value of the call. The invariant `IInv` of
the module adds `InBody` (the counter is inside the function called), `Reserved`
(a thread at `strex` whose reservation stands has the variable's value in its
register: every write ends the reservations) and `ExpectedHeld` (the register of a
compare and exchange holds the expected value until it is executed). `CodeShape`
says once what the tables of all platforms have in common, so that the proof goes
by instruction and not by platform: `GoesOn` is for an instruction after which the
function goes on, `Ends` for the one that takes effect.

**Only model-checked.** All liveness: `PushTerminates`, `PushDelivered`,
`StopTerminates`, `RunningDumpDelivers`, `LockFree` (temporal reasoning under fairness
and `ENABLED` is outside what the prover does). And `HitKeepsBuckets`, which is a
matter of the threshold: with chains split at a length of 1 the re-insertion of every
hit would double the table, so it is no theorem for every value of the constants. For
larger thresholds it rests on no chain being at its limit, not even right after an
expansion, and that ties `expand_mult` and the counts of all buckets together over the
whole life of the table, which `CacheInv` does not do.

## 5. Not modelled

* **Value serialisation** (`fast_repr` and its helpers): only the operations it is
  made of, in `TraceMessage`. What is left is how texts are cut, which is layout.
* **Windows thread-local storage** and the statistics counters of the thread
  storage.
* **`wait_and_ensure_exit`**: one detached thread that sleeps and calls `_exit`.
* **mintsystem**: wrappers of the system's thread calls; creation and join are part
  of `TraceDump`.
* **Memory order** weaker than sequential consistency, and with it the fences of
  mintomic, which the program never calls.
* **The parts of uthash nothing here uses**: sorting, selecting, clearing,
  replacing, string and pointer keys, the Bloom filter, the hash functions.
* **Another filter** set while decisions of the old one are cached.

## 6. Plan

1. Done: ring buffer and abstract channel, dump threads, profile function with the
   life of thread storage, hash table and cache, message buffer, syslog output with
   its format, atomic operations and abstract variable; theorems for every safety
   invariant of the runs and for every action property but `HitKeepsBuckets`.
2. Later: the level cache composed with the profile function, with a filter that
   changes between `unset_tracing` and `set_tracing`.
