----------------------------- MODULE MCMintomic -----------------------------
(* A small instance of the atomic operations: words of two bits.           *)
EXTENDS Mintomic, TLC

CONSTANTS t1, t2

BitAndTable == [p \in Half \X Half |-> p[1] * p[2]]
BitOrTable == [p \in Half \X Half |-> p[1] + p[2] - p[1] * p[2]]

(* Each operation once, with operands that carry from the low half and     *)
(* that change one half only.                                              *)
Call(name, operand, expected) == [name |-> name, operand |-> operand, expected |-> expected]
EachOperation ==
  {Call("load", <<0, 0>>, <<0, 0>>), Call("store", <<1, 0>>, <<0, 0>>),
   Call("cas", <<1, 1>>, <<0, 0>>), Call("add", <<0, 1>>, <<0, 0>>),
   Call("and", <<0, 1>>, <<0, 0>>), Call("or", <<1, 0>>, <<0, 0>>)}

AllPlatforms == DOMAIN Code
=============================================================================
