----------------------------- MODULE AtomicWord -----------------------------
(***************************************************************************)
(* What mintomic.h promises of one atomic variable: each call takes        *)
(* effect once, at one instant between its invocation and its return, and  *)
(* answers the value the variable had at that instant.  Each platform of   *)
(* Mintomic implements this specification.                                 *)
(***************************************************************************)
EXTENDS AtomicOperations

CONSTANT Threads  \* the threads that share the variable

VARIABLES
  word,    \* the variable
  call,    \* what each thread has called, or None
  answer   \* what the call returns once it has taken effect, or None

vars == <<word, call, answer>>

Init ==
  /\ word \in Words
  /\ call = [t \in Threads |-> None]
  /\ answer = [t \in Threads |-> None]

Invoke(t) ==
  /\ call[t] = None
  /\ \E op \in Operations : call' = [call EXCEPT ![t] = op]
  /\ UNCHANGED <<word, answer>>

TakeEffect(t) ==
  /\ call[t] # None /\ answer[t] = None
  /\ word' = Effect(call[t], word)
  /\ \E w \in Answers(call[t], word) : answer' = [answer EXCEPT ![t] = w]
  /\ UNCHANGED call

Return(t) ==
  /\ answer[t] # None
  /\ call' = [call EXCEPT ![t] = None]
  /\ answer' = [answer EXCEPT ![t] = None]
  /\ UNCHANGED word

Next == \E t \in Threads : Invoke(t) \/ TakeEffect(t) \/ Return(t)

Spec == Init /\ [][Next]_vars
=============================================================================
