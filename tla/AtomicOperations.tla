-------------------------- MODULE AtomicOperations --------------------------
(***************************************************************************)
(* The operations mintomic has on one atomic variable, as functions of the *)
(* value it holds.  A value is its two halves, since the 32-bit platforms  *)
(* read and compute a 64-bit value by halves.                              *)
(***************************************************************************)
EXTENDS Integers

CONSTANTS
  Base,        \* number of values of half a word: 2^16 or 2^32
  BitAnd,      \* bitwise and of two halves, a function on pairs
  BitOr,       \* bitwise or of two halves
  Operations,  \* calls, records of a name, an operand and an expected value
  None         \* no call, no answer

Half == 0..(Base - 1)
Words == Half \X Half  \* <<high, low>>
Names == {"load", "store", "cas", "add", "and", "or"}

ASSUME BaseAssumption == Base \in Nat \ {0}
ASSUME BitsAssumption == /\ BitAnd \in [Half \X Half -> Half]
                         /\ BitOr \in [Half \X Half -> Half]
ASSUME OperationsAssumption ==
  /\ Operations \subseteq [name : Names, operand : Words, expected : Words]
  /\ None \notin Operations
  /\ None \notin Words

(* Addition carries from the low half to the high one and wraps around;    *)
(* fault: the carry leaves the word.                                       *)
SumOverflows(a, b) ==
  LET low == a[2] + b[2]
  IN  <<a[1] + b[1] + low \div Base, low % Base>>
Sum(a, b) ==
  LET low == a[2] + b[2]
  IN  <<(a[1] + b[1] + low \div Base) % Base, low % Base>>

BothHalves(f, a, b) == <<f[<<a[1], b[1]>>], f[<<a[2], b[2]>>]>>

(* The value an operation leaves in a variable that had the value w        *)
Effect(op, w) ==
  CASE op.name = "load"  -> w
    [] op.name = "store" -> op.operand
    [] op.name = "cas"   -> IF w = op.expected THEN op.operand ELSE w
    [] op.name = "add"   -> Sum(w, op.operand)
    [] op.name = "and"   -> BothHalves(BitAnd, w, op.operand)
    [] op.name = "or"    -> BothHalves(BitOr, w, op.operand)

(* A store returns nothing: whatever its register holds is ignored.        *)
Answers(op, w) == IF op.name = "store" THEN Words ELSE {w}
=============================================================================
