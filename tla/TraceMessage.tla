---------------------------- MODULE TraceMessage ----------------------------
(***************************************************************************)
(* The message buffer of trace_message.h: the operations that the          *)
(* serialisers of ctracing_log_serialize.pyx compose, in any order, on one *)
(* TraceMessage that is recycled and used again.                           *)
(*                                                                         *)
(* A character is only what it belongs to: the message being written, a    *)
(* message written before the last recycle(), or the terminating NUL.      *)
(* Strings are their lengths.                                              *)
(***************************************************************************)
EXTENDS Integers, Sequences

CONSTANTS
  MessageCapacity,  \* capacity; the buffer has one more byte
  MaxLen,           \* bound on the length of a string that is written
  MaxNesting        \* bound on the depth of nested limit() calls

ASSUME MessageAssumption ==
  /\ MessageCapacity \in Nat \ {0}
  /\ MaxLen \in Nat
  /\ MaxNesting \in Nat

VARIABLES
  buffer,       \* the bytes of the buffer
  write_index,  \* where the next character goes
  limit_index,  \* where writing has to stop
  limits,       \* what limit() returned to the callers that still have to unlimit()
  printed       \* history: where the last vnprintf began, its length and result

vars == <<buffer, write_index, limit_index, limits, printed>>

Indexes == 0..MessageCapacity
Chars == {"new", "old", "NUL"}
NotPrinted == [start |-> 0, length |-> 0, ok |-> FALSE]

avail_size == limit_index - write_index

Smaller(a, b) == IF a < b THEN a ELSE b
Larger(a, b) == IF a > b THEN a ELSE b
clip(n, lower, upper) == Larger(lower, Smaller(n, upper))

(* The constructor: realloc(), and recycle() of a buffer not yet written   *)
Init ==
  /\ buffer \in {b \in [Indexes -> {"old", "NUL"}] : b[0] = "NUL" /\ b[MessageCapacity] = "NUL"}
  /\ write_index = 0
  /\ limit_index = MessageCapacity
  /\ limits = <<>>
  /\ printed = NotPrinted

-----------------------------------------------------------------------------
(* Faults, each before the definition it is a fault of.                    *)

(* The characters write() has room for; fault: the loop runs to "<="       *)
RoomOffByOne == avail_size + 1
Room == avail_size

(* The return value of vsnprintf says that the text fits.                  *)
Fits(n) == n <= avail_size

(* Where rewind() goes; fault: not clipped to the limit                    *)
RewindUnclipped(offset) == offset
RewindIndex(offset) == clip(offset, 0, limit_index)

-----------------------------------------------------------------------------

(* buffer with the n characters of a string at write_index, and a NUL      *)
(* behind them if terminated                                               *)
Put(n, terminated) ==
  [j \in Indexes |->
     IF j >= write_index /\ j < write_index + n THEN "new"
     ELSE IF terminated /\ j = write_index + n THEN "NUL"
     ELSE buffer[j]]

(* write() of a string of n characters: as much as there is room for, the  *)
(* NUL only if there is room for it too                                    *)
Write(n) ==
  /\ buffer' = Put(Smaller(n, Room), n < Room)
  /\ write_index' = write_index + Smaller(n, Room)
  /\ UNCHANGED <<limit_index, limits, printed>>

(* vsnprintf into size bytes of a text of n characters                     *)
Printed(n, size) ==
  IF size = 0 THEN buffer ELSE Put(Smaller(n, size - 1), TRUE)

(* printf and nprintf: vnprintf of a text of n characters                  *)
VnPrintf(max_size, n) ==
  LET bytes == Printed(n, Smaller(avail_size, max_size))
  IN /\ IF Fits(n)
        THEN buffer' = bytes /\ write_index' = write_index + n
        ELSE buffer' = [bytes EXCEPT ![write_index] = "NUL"] /\ UNCHANGED write_index
     /\ printed' = [start |-> write_index, length |-> n, ok |-> Fits(n)]
     /\ UNCHANGED <<limit_index, limits>>

(* printf(...)                                                             *)
Printf(n) == VnPrintf(avail_size, n)

(* limit(size); the caller keeps the result for unlimit                    *)
Limit(size) ==
  /\ Len(limits) < MaxNesting
  /\ limits' = Append(limits, limit_index)
  /\ limit_index' = write_index + clip(size, 0, avail_size)
  /\ UNCHANGED <<buffer, write_index, printed>>

(* unlimit(last_limit), in the finally clause that belongs to the limit()  *)
Unlimit ==
  /\ limits # <<>>
  /\ limit_index' = clip(limits[Len(limits)], 0, MessageCapacity)
  /\ limits' = SubSeq(limits, 1, Len(limits) - 1)
  /\ UNCHANGED <<buffer, write_index, printed>>

(* rewind(offset)                                                          *)
Rewind(offset) ==
  /\ write_index' = RewindIndex(offset)
  /\ buffer' = [buffer EXCEPT ![RewindIndex(offset)] = "NUL"]
  /\ printed' = NotPrinted
  /\ UNCHANGED <<limit_index, limits>>

(* recycle(), by the consumer once the message is out, or by               *)
(* process_overflow on its own buffer                                      *)
RecycleMessage ==
  /\ limits = <<>>
  /\ write_index' = 0
  /\ limit_index' = MessageCapacity
  /\ buffer' = [j \in Indexes |-> IF j \in {0, MessageCapacity} THEN "NUL"
                                  ELSE IF buffer[j] = "new" THEN "old" ELSE buffer[j]]
  /\ printed' = NotPrinted
  /\ UNCHANGED limits

(* operator= from a message whose text, up to its first NUL, has n         *)
(* characters and whose indexes are w and limit: strncpy pads with NULs    *)
Assign(n, w, limit) ==
  /\ limits = <<>>
  /\ write_index' = w
  /\ limit_index' = limit
  /\ buffer' = [j \in Indexes |-> IF j < n THEN "new"
                                  ELSE IF j < MessageCapacity THEN "NUL" ELSE buffer[j]]
  /\ printed' = NotPrinted
  /\ UNCHANGED limits

Next ==
  \/ \E n \in 0..MaxLen : Write(n)
  \/ \E n \in 0..MaxLen : Printf(n)
  \/ \E size \in 0..MessageCapacity : Limit(size)
  \/ Unlimit
  \/ \E offset \in Indexes : Rewind(offset)
  \/ RecycleMessage
  \/ \E n, limit \in Indexes : \E w \in 0..limit : Assign(n, w, limit)

Spec == Init /\ [][Next]_vars

-----------------------------------------------------------------------------
(* Properties.                                                             *)

(* The variables keep their types: in particular the indexes stay indexes  *)
(* of the buffer.                                                          *)
TypeOK ==
  /\ buffer \in [Indexes -> Chars]
  /\ write_index \in Indexes
  /\ limit_index \in Indexes
  /\ limits \in Seq(Indexes)
  /\ printed \in [start : Int, length : Int, ok : BOOLEAN]

(* avail_size() is never negative, which vsnprintf would take for a huge   *)
(* size, and unlimit() never takes a limit below what is already written:  *)
(* the nested limits of lists in lists widen outwards.                     *)
InBounds ==
  /\ write_index <= limit_index
  /\ \A k \in DOMAIN limits : limit_index <= limits[k]
  /\ \A j, k \in DOMAIN limits : j < k => limits[k] <= limits[j]

(* The byte behind the buffer stays NUL, so that whatever was cut off, an  *)
(* unterminated write() included, a reader of the C string stops inside.   *)
Terminated == buffer[MessageCapacity] = "NUL"

-----------------------------------------------------------------------------
(* What a comment in the source claims and the code does not do.           *)

(* "failed to write everything, so we write nothing": when vnprintf        *)
(* returns true it wrote all the characters.                               *)
PrintfWritesAll ==
  [][printed' # printed /\ printed'.ok =>
       \A j \in printed'.start..(printed'.start + printed'.length - 1) : buffer'[j] = "new"]_vars
=============================================================================
