-------------------------- MODULE MCGreenletTrace ---------------------------
(* Small instances of the profile function.                                *)
EXTENDS GreenletTrace, TLC

CONSTANTS g1, traced, nested

(* Of the functions one is traced and one is not, with all that it calls. *)
Filter == [f \in Funcs |-> IF f = nested THEN NO_TRACE_NESTED ELSE TRACE_FUNC_NAME]

(* The gid of g1 differs from the others in the bytes that gid_map         *)
(* compares; the others agree in them.                                     *)
Words == [g \in Greenlets |-> g = g1]

(* Of the other greenlets one at a time is running or has frames.          *)
OneAtATime == \E g \in Greenlets \ {Main} : g # current /\ stack[g] = <<>>

AddressSymmetry == Permutations(Addresses)
=============================================================================
