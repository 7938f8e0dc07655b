------------------------------ MODULE Mintomic ------------------------------
(***************************************************************************)
(* The atomic operations of mintomic on every platform it has code for.    *)
(* Each function is the sequence of its instructions that touch the shared *)
(* variable, executed one at a time and interleaved with those of the      *)
(* other threads:                                                          *)
(*   mov, mov_low, mov_high  read the variable, or half of it, to the      *)
(*                           register                                      *)
(*   mov_to                  write the operand                             *)
(*   xadd                    one locked instruction, or one intrinsic      *)
(*   cmpxchg                 locked: when the register has the value of    *)
(*                           the variable it stores the result of the      *)
(*                           operation, else it loads the register; with   *)
(*                           jne a failure continues there                 *)
(*   cmpxchg8b               the same in two steps, without the lock       *)
(*   ldrex, strex            load the register and set the monitor; store  *)
(*                           if it is still set, else start over           *)
(* What the processors do is modelled from their use here.                 *)
(***************************************************************************)
EXTENDS AtomicOperations, Sequences

CONSTANTS
  Threads,    \* the threads that share the variable
  Platforms   \* the implementations to consider

-----------------------------------------------------------------------------
(* The functions of each platform.  A 32-bit variable, or a 64-bit one on  *)
(* a 64-bit processor, is read and written by one instruction.             *)

Reload == <<"mov", "cmpxchg_jne_1">>
Exclusive == <<"ldrex", "strex">>

gcc_32 ==
  [load |-> <<"mov">>, store |-> <<"mov_to">>, cas |-> <<"cmpxchg">>,
   add |-> <<"xadd">>, and |-> Reload, or |-> Reload]

gcc_x64 ==
  [load |-> <<"mov">>, store |-> <<"mov_to">>, cas |-> <<"cmpxchg">>,
   add |-> <<"xadd">>, and |-> Reload, or |-> Reload]

(* A 32-bit processor reads _nonatomic in halves; fault: the exchange has  *)
(* no lock prefix.                                                         *)
TornReloadUnlocked == <<"mov_low", "mov_high", "cmpxchg8b_read", "cmpxchg8b_jne_3">>
TornReload == <<"mov_low", "mov_high", "cmpxchg_jne_1">>
gcc_x86 ==
  [load |-> <<"cmpxchg">>,
   store |-> <<"mov_low", "mov_high", "cmpxchg8b_read", "cmpxchg8b_jne_3">>,
   cas |-> <<"cmpxchg">>, add |-> TornReload, and |-> TornReload, or |-> TornReload]

arm_32 ==
  [load |-> <<"mov">>, store |-> <<"mov_to">>, cas |-> Exclusive,
   add |-> Exclusive, and |-> Exclusive, or |-> Exclusive]

(* ARMv6 Thumb mode                                                        *)
thumb_32 ==
  [load |-> <<"mov">>, store |-> <<"mov_to">>, cas |-> Exclusive,
   add |-> Exclusive, and |-> Exclusive, or |-> Exclusive]

arm_64 ==
  [load |-> Exclusive, store |-> Exclusive, cas |-> Exclusive,
   add |-> Exclusive, and |-> Exclusive, or |-> Exclusive]

msvc_32 ==
  [load |-> <<"mov">>, store |-> <<"mov_to">>, cas |-> <<"cmpxchg">>,
   add |-> <<"xadd">>, and |-> <<"xadd">>, or |-> <<"xadd">>]

msvc_x64 ==
  [load |-> <<"mov">>, store |-> <<"mov_to">>, cas |-> <<"cmpxchg">>,
   add |-> <<"xadd">>, and |-> <<"xadd">>, or |-> <<"xadd">>]

(* The value a failed exchange returns is what the next one expects.       *)
Carry == <<"mov_low", "mov_high", "cmpxchg_jne_3">>
msvc_x86 ==
  [load |-> <<"cmpxchg">>, store |-> <<"cmpxchg8b_read", "cmpxchg8b_jne_1">>,
   cas |-> <<"cmpxchg">>, add |-> Carry, and |-> Carry, or |-> Carry]

(* The header that is included; operations on pointers are those of the    *)
(* integer of their size.                                                  *)
Code ==
  [gcc_32 |-> gcc_32, gcc_x64 |-> gcc_x64, gcc_x86 |-> gcc_x86,
   arm_32 |-> arm_32, thumb_32 |-> thumb_32, arm_64 |-> arm_64,
   msvc_32 |-> msvc_32, msvc_x64 |-> msvc_x64, msvc_x86 |-> msvc_x86]

ASSUME PlatformsAssumption == Platforms \subseteq DOMAIN Code

VARIABLES
  platform,  \* the implementation that was compiled
  word,      \* _nonatomic of the variable
  call,      \* the operation each thread is in, or None
  pc,        \* its next instruction, 0 when it has taken effect
  reg,       \* the register with the expected, and then the original, value
  latch,     \* what an unlocked instruction of the thread has read
  monitor    \* the threads whose exclusive monitor is set

vars == <<platform, word, call, pc, reg, latch, monitor>>

(* A register the function does not use, so that its value is of no matter *)
Free == <<0, 0>>

Init ==
  /\ platform \in Platforms
  /\ word \in Words
  /\ call = [t \in Threads |-> None]
  /\ pc = [t \in Threads |-> 0]
  /\ reg = [t \in Threads |-> Free]
  /\ latch = [t \in Threads |-> Free]
  /\ monitor = {}

-----------------------------------------------------------------------------

Body(t) == Code[platform][call[t].name]

At(t, instruction) ==
  /\ call[t] # None /\ pc[t] # 0
  /\ Body(t)[pc[t]] = instruction

GoTo(t, i) == pc' = [pc EXCEPT ![t] = i]
Load(t, w) == reg' = [reg EXCEPT ![t] = w]

(* A write to the variable clears every exclusive monitor.                 *)
Write(w) == word' = w /\ monitor' = {}

(* A call: the expected value of a compare and exchange is in the register *)
(* from the start; else the register has what was left in it.              *)
Invoke(t) ==
  /\ call[t] = None
  /\ \E op \in Operations :
       /\ call' = [call EXCEPT ![t] = op]
       /\ \E w \in IF op.name = "cas" THEN {op.expected} ELSE Words : Load(t, w)
  /\ GoTo(t, 1)
  /\ UNCHANGED <<platform, word, latch, monitor>>

(* movl %1, %0; the whole function where this is a load                    *)
Mov(t) ==
  /\ At(t, "mov")
  /\ Load(t, word)
  /\ GoTo(t, IF call[t].name = "load" THEN 0 ELSE pc[t] + 1)
  /\ UNCHANGED <<platform, word, call, latch, monitor>>

MovHalf(t) ==
  /\ \/ At(t, "mov_low") /\ Load(t, <<reg[t][1], word[2]>>)
     \/ At(t, "mov_high") /\ Load(t, <<word[1], reg[t][2]>>)
  /\ GoTo(t, pc[t] + 1)
  /\ UNCHANGED <<platform, word, call, latch, monitor>>

MovTo(t) ==
  /\ At(t, "mov_to")
  /\ Write(call[t].operand)
  /\ GoTo(t, 0)
  /\ UNCHANGED <<platform, call, reg, latch>>

(* lock; xadd and the intrinsics that return the original value            *)
Xadd(t) ==
  /\ At(t, "xadd")
  /\ Load(t, word)
  /\ Write(Effect(call[t], word))
  /\ GoTo(t, 0)
  /\ UNCHANGED <<platform, call, latch>>

(* Where the instruction continues when the comparison fails               *)
Jne == [cmpxchg |-> 0, cmpxchg_jne_1 |-> 1, cmpxchg_jne_3 |-> 3]

(* lock; cmpxchg, and jne where one follows                                *)
Cmpxchg(t) ==
  /\ \E i \in DOMAIN Jne :
       /\ At(t, i)
       /\ IF reg[t] = word
            THEN Write(Effect(call[t], reg[t])) /\ GoTo(t, 0)
            ELSE Write(word) /\ GoTo(t, Jne[i])
  /\ Load(t, word)
  /\ UNCHANGED <<platform, call, latch>>

(* cmpxchg8b without lock: another processor may write between its read    *)
(* and its write, and it writes whether or not the comparison succeeds.    *)
UnlockedRead(t) ==
  /\ At(t, "cmpxchg8b_read")
  /\ latch' = [latch EXCEPT ![t] = word]
  /\ GoTo(t, pc[t] + 1)
  /\ UNCHANGED <<platform, word, call, reg, monitor>>

UnlockedJne == [cmpxchg8b_jne_1 |-> 1, cmpxchg8b_jne_3 |-> 3]

UnlockedWrite(t) ==
  /\ \E i \in DOMAIN UnlockedJne :
       /\ At(t, i)
       /\ IF latch[t] = reg[t]
            THEN Write(Effect(call[t], latch[t])) /\ GoTo(t, 0)
            ELSE Write(latch[t]) /\ GoTo(t, UnlockedJne[i])
  /\ Load(t, latch[t])
  /\ latch' = [latch EXCEPT ![t] = Free]
  /\ UNCHANGED <<platform, call>>

(* ldrex; a compare and exchange leaves, its monitor set, when the value   *)
(* is not the expected one                                                 *)
Ldrex(t) ==
  /\ At(t, "ldrex")
  /\ Load(t, word)
  /\ monitor' = monitor \cup {t}
  /\ GoTo(t, IF call[t].name = "cas" /\ word # call[t].expected THEN 0 ELSE pc[t] + 1)
  /\ UNCHANGED <<platform, word, call, latch>>

(* bne 1b; fault: it branches to the strex                                 *)
RetryStrex == 2
Retry == 1

Strex(t) ==
  /\ At(t, "strex")
  /\ IF t \in monitor
       THEN Write(Effect(call[t], reg[t])) /\ GoTo(t, 0)
       ELSE GoTo(t, Retry) /\ UNCHANGED <<word, monitor>>
  /\ UNCHANGED <<platform, call, reg, latch>>

(* The processor may lose a reservation, in a context switch for one.      *)
LoseMonitor(t) ==
  /\ t \in monitor
  /\ monitor' = monitor \ {t}
  /\ UNCHANGED <<platform, word, call, pc, reg, latch>>

Return(t) ==
  /\ call[t] # None /\ pc[t] = 0
  /\ call' = [call EXCEPT ![t] = None]
  /\ Load(t, Free)
  /\ UNCHANGED <<platform, word, pc, latch, monitor>>

Step(t) ==
  \/ Mov(t) \/ MovHalf(t) \/ MovTo(t) \/ Xadd(t) \/ Cmpxchg(t)
  \/ UnlockedRead(t) \/ UnlockedWrite(t) \/ Ldrex(t) \/ Strex(t)

Next == \E t \in Threads : Invoke(t) \/ Step(t) \/ Return(t) \/ LoseMonitor(t)

Spec == Init /\ [][Next]_vars

(* Every thread inside a function is scheduled, and a processor does not   *)
(* lose reservations for ever.                                             *)
FairSpec ==
  /\ Spec
  /\ \A t \in Threads : WF_vars(Step(t))
  /\ <>[][\A t \in Threads : ~LoseMonitor(t)]_vars

-----------------------------------------------------------------------------
(* Properties.                                                             *)

(* The variables keep their types: in particular the variable and every    *)
(* register stay words, and no thread leaves the code of its function.     *)
TypeOK ==
  /\ platform \in Platforms
  /\ word \in Words
  /\ call \in [Threads -> Operations \cup {None}]
  /\ pc \in [Threads -> 0..4]
  /\ reg \in [Threads -> Words]
  /\ latch \in [Threads -> Words]
  /\ monitor \subseteq Threads

(* The register is the answer once the function has taken effect.          *)
Answered == [t \in Threads |-> IF call[t] # None /\ pc[t] = 0 THEN reg[t] ELSE None]

Atomic == INSTANCE AtomicWord WITH answer <- Answered

(* An unlocked instruction whose comparison fails writes what it has read  *)
(* back, over what another thread may have written since.                  *)
WriteBack == \E t \in Threads : UnlockedWrite(t) /\ pc'[t] # 0

(* Every function of every platform is atomic: it takes effect once, at    *)
(* one instant, with the value it returns, whatever instructions of other  *)
(* threads run between its own, torn first reads and lost reservations     *)
(* included.  The one step that is not of the atomic variable is the write *)
(* back in the two stores of 64 bits on a 32-bit x86.                      *)
ImplementsAtomicWord ==
  Atomic!Init /\ [][Atomic!Next \/ WriteBack]_(Atomic!vars)

(* The retry loops are lock-free: while some thread is in a function, some *)
(* thread finishes one.  Only interference makes an exchange fail, and a   *)
(* failure loads the value the next exchange must expect.                  *)
LockFree ==
  \A t \in Threads :
    (call[t] # None) ~> (\E s \in Threads : call[s] # None /\ pc[s] = 0)
=============================================================================
