---------------------------- MODULE TraceChannel ----------------------------
(***************************************************************************)
(* What the trace ring buffer promises its users: a bounded, lossy bag of  *)
(* messages.  A message is taken in while there is room, or lost while     *)
(* something is buffered; what is taken in is delivered at most once.      *)
(* There is no promise of order: it is stated, with its condition, as a    *)
(* property of the ring buffer.                                            *)
(***************************************************************************)
EXTENDS Integers, Sequences, FiniteSets

CONSTANTS
  Messages,  \* what is pushed; no message is pushed twice
  Capacity   \* how many messages can be buffered

VARIABLES
  buffered,  \* set of messages taken in and not yet delivered
  lost,      \* set of messages lost to an overrun
  delivered  \* sequence of messages delivered

vars == <<buffered, lost, delivered>>

Fresh(m) ==
  /\ m \notin buffered \cup lost
  /\ \A k \in DOMAIN delivered : delivered[k] # m

Init ==
  /\ buffered = {}
  /\ lost = {}
  /\ delivered = <<>>

Accept(m) ==
  /\ Fresh(m)
  /\ Cardinality(buffered) < Capacity
  /\ buffered' = buffered \cup {m}
  /\ UNCHANGED <<lost, delivered>>

Overrun(m) ==
  /\ Fresh(m)
  /\ buffered # {}
  /\ lost' = lost \cup {m}
  /\ UNCHANGED <<buffered, delivered>>

Deliver(m) ==
  /\ m \in buffered
  /\ buffered' = buffered \ {m}
  /\ delivered' = Append(delivered, m)
  /\ UNCHANGED lost

Next == \E m \in Messages : Accept(m) \/ Overrun(m) \/ Deliver(m)

Spec == Init /\ [][Next]_vars
=============================================================================
