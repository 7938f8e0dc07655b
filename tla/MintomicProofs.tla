--------------------------- MODULE MintomicProofs ---------------------------
(***************************************************************************)
(* Proofs about the atomic operations, for any number of threads, any word *)
(* size, any bitwise operations and any operands.                          *)
(***************************************************************************)
EXTENDS Mintomic, TLAPS

-----------------------------------------------------------------------------
(* The shape of the code of a function: what the provers need to know of   *)
(* the tables, each of which is one of ten sequences.                      *)

Shape(b, n) ==
  /\ Len(b) \in 1..4
  /\ \A i \in 1..Len(b) :
       /\ b[i] = "mov" => n = "load" \/ (n # "load" /\ i = 1 /\ Len(b) = 2 /\ b[2] # "strex")
       /\ b[i] \in {"mov_low", "mov_high", "cmpxchg8b_read", "ldrex"} => i < Len(b)
       /\ b[i] = "mov_to" => n = "store"
       /\ b[i] = "cmpxchg" => n \in {"load", "cas"} /\ Len(b) = 1
       /\ b[i] = "cmpxchg_jne_3" => Len(b) = 3
       /\ b[i] = "cmpxchg8b_jne_1" => n = "store" /\ Len(b) = 2
       /\ b[i] = "cmpxchg8b_jne_3" => n = "store" /\ Len(b) = 4
       /\ b[i] = "strex" => i = 2 /\ b[1] = "ldrex"

(* The sequences the tables are made of                                    *)
LEMMA BodyShapes ==
  /\ Shape(<<"mov">>, "load")
  /\ Shape(<<"mov_to">>, "store")
  /\ \A n \in {"load", "cas"} : Shape(<<"cmpxchg">>, n)
  /\ \A n \in Names \ {"load"} :
       Shape(<<"xadd">>, n) /\ Shape(Reload, n) /\ Shape(TornReload, n) /\ Shape(Carry, n)
  /\ \A n \in Names : Shape(Exclusive, n)
  /\ Shape(<<"mov_low", "mov_high", "cmpxchg8b_read", "cmpxchg8b_jne_3">>, "store")
  /\ Shape(<<"cmpxchg8b_read", "cmpxchg8b_jne_1">>, "store")
<1>1. Shape(<<"mov">>, "load")
  BY DEF Shape
<1>2. Shape(<<"mov_to">>, "store")
  BY DEF Shape
<1>3. ASSUME NEW n \in {"load", "cas"} PROVE Shape(<<"cmpxchg">>, n)
  BY DEF Shape
<1>4. ASSUME NEW n \in Names \ {"load"}
      PROVE  Shape(<<"xadd">>, n) /\ Shape(Reload, n) /\ Shape(TornReload, n) /\ Shape(Carry, n)
  <2>1. Shape(<<"xadd">>, n)
    BY DEF Shape, Names
  <2>2. Shape(Reload, n)
    BY DEF Shape, Names, Reload
  <2>3. Shape(TornReload, n)
    BY DEF Shape, Names, TornReload
  <2>4. Shape(Carry, n)
    BY DEF Shape, Names, Carry
  <2> QED BY <2>1, <2>2, <2>3, <2>4
<1>5. ASSUME NEW n \in Names PROVE Shape(Exclusive, n)
  BY DEF Shape, Names, Exclusive
<1>6. Shape(<<"mov_low", "mov_high", "cmpxchg8b_read", "cmpxchg8b_jne_3">>, "store")
  BY DEF Shape
<1>7. Shape(<<"cmpxchg8b_read", "cmpxchg8b_jne_1">>, "store")
  BY DEF Shape
<1> QED BY <1>1, <1>2, <1>3, <1>4, <1>5, <1>6, <1>7

(* Every function of every platform has one of those shapes.               *)
LEMMA CodeShape == \A p \in DOMAIN Code, n \in Names : Shape(Code[p][n], n)
<1> SUFFICES ASSUME NEW p \in DOMAIN Code, NEW n \in Names PROVE Shape(Code[p][n], n)
  OBVIOUS
<1> USE BodyShapes
<1> HIDE DEF Shape, Reload, TornReload, Carry, Exclusive
<1>1. CASE p = "gcc_32"
  BY <1>1 DEF Code, gcc_32, Names
<1>2. CASE p = "gcc_x64"
  BY <1>2 DEF Code, gcc_x64, Names
<1>3. CASE p = "gcc_x86"
  BY <1>3 DEF Code, gcc_x86, Names
<1>4. CASE p = "arm_32"
  BY <1>4 DEF Code, arm_32, Names
<1>5. CASE p = "thumb_32"
  BY <1>5 DEF Code, thumb_32, Names
<1>6. CASE p = "arm_64"
  BY <1>6 DEF Code, arm_64, Names
<1>7. CASE p = "msvc_32"
  BY <1>7 DEF Code, msvc_32, Names
<1>8. CASE p = "msvc_x64"
  BY <1>8 DEF Code, msvc_x64, Names
<1>9. CASE p = "msvc_x86"
  BY <1>9 DEF Code, msvc_x86, Names
<1> QED BY <1>1, <1>2, <1>3, <1>4, <1>5, <1>6, <1>7, <1>8, <1>9 DEF Code

-----------------------------------------------------------------------------
(* The results of the operations are words.                                *)
LEMMA EffectType == \A op \in Operations, w \in Words : Effect(op, w) \in Words
<1> SUFFICES ASSUME NEW op \in Operations, NEW w \in Words PROVE Effect(op, w) \in Words
  OBVIOUS
<1>1. op.name \in Names /\ op.operand \in Words /\ op.expected \in Words
  BY OperationsAssumption
<1>2. PICK a \in Half, b \in Half : w = <<a, b>>
  BY DEF Words
<1>3. PICK c \in Half, d \in Half : op.operand = <<c, d>>
  BY <1>1 DEF Words
<1>4. Sum(w, op.operand) \in Words
  <2>1. /\ a \in Nat /\ b \in Nat /\ c \in Nat /\ d \in Nat
        /\ Base \in Nat /\ Base > 0
    BY BaseAssumption DEF Half
  <2>2. (b + d) \div Base \in Int /\ (b + d) % Base \in Half
    BY <2>1 DEF Half
  <2>3. (a + c + (b + d) \div Base) % Base \in Half
    BY <2>1, <2>2 DEF Half
  <2> QED BY <1>2, <1>3, <2>2, <2>3 DEF Sum, Words
<1>5. BothHalves(BitAnd, w, op.operand) \in Words /\ BothHalves(BitOr, w, op.operand) \in Words
  BY <1>2, <1>3, BitsAssumption DEF BothHalves, Words
<1> QED BY <1>1, <1>4, <1>5 DEF Effect, Names

(* The inductive invariant: a thread is inside the code of the function it *)
(* called; a thread about to store exclusively that still has its monitor  *)
(* has the value of the variable in its register; and a compare and        *)
(* exchange of one instruction has the value it expects.                   *)
InBody == \A t \in Threads : call[t] # None => pc[t] \in 0..Len(Body(t))

Reserved == \A t \in Threads : t \in monitor /\ At(t, "strex") => reg[t] = word

ExpectedHeld ==
  \A t \in Threads :
    At(t, "cmpxchg") /\ call[t].name = "cas" => reg[t] = call[t].expected

IInv == TypeOK /\ InBody /\ Reserved /\ ExpectedHeld

(* What is known of a thread that is inside a function                     *)
LEMMA Inside ==
  ASSUME TypeOK, InBody, NEW t \in Threads, call[t] # None
  PROVE  /\ call[t] \in Operations
         /\ call[t].name \in Names
         /\ call[t].operand \in Words
         /\ call[t].expected \in Words
         /\ Shape(Body(t), call[t].name)
         /\ pc[t] \in 0..Len(Body(t))
         /\ Effect(call[t], word) \in Words
         /\ Effect(call[t], reg[t]) \in Words
         /\ Effect(call[t], latch[t]) \in Words
<1>1. call[t] \in Operations
  BY DEF TypeOK
<1>2. call[t].name \in Names /\ call[t].operand \in Words /\ call[t].expected \in Words
  BY <1>1, OperationsAssumption
<1>3. platform \in DOMAIN Code
  BY PlatformsAssumption DEF TypeOK
<1>4. Shape(Body(t), call[t].name)
  BY <1>2, <1>3, CodeShape DEF Body
<1>5. pc[t] \in 0..Len(Body(t))
  BY DEF InBody
<1>6. word \in Words /\ reg[t] \in Words /\ latch[t] \in Words
  BY DEF TypeOK
<1> QED BY <1>1, <1>2, <1>4, <1>5, <1>6, EffectType

(* The value of an unused register is a word.                               *)
LEMMA FreeType == Free \in Words
BY BaseAssumption DEF Free, Words, Half

(* Initially nobody is inside a function.                                  *)
LEMMA InitIInv == Init => IInv
<1> SUFFICES ASSUME Init PROVE IInv
  OBVIOUS
<1>2. TypeOK
  BY FreeType DEF Init, TypeOK
<1>3. InBody /\ Reserved /\ ExpectedHeld
  BY DEF Init, InBody, Reserved, ExpectedHeld, At
<1> QED BY <1>2, <1>3 DEF IInv

(* The longest function has four instructions.                             *)
LEMMA Within == \A m \in 1..4 : \A i \in 0..m : i \in 0..4
OBVIOUS

(* Where a jump goes is inside the function.                               *)
LEMMA Targets == \A m \in 1..4 : 0 \in 0..m /\ 1 \in 0..m /\ (m = 3 => 3 \in 0..m)
OBVIOUS

(* Only the thread t moves.                                                *)
Moves(t) ==
  /\ UNCHANGED platform
  /\ call' = [call EXCEPT ![t] = call'[t]]
  /\ pc' = [pc EXCEPT ![t] = pc'[t]]
  /\ reg' = [reg EXCEPT ![t] = reg'[t]]

(* A step of one thread leaves the code of the others alone.               *)
LEMMA OthersStay ==
  ASSUME TypeOK, NEW t \in Threads, Moves(t)
  PROVE  \A s \in Threads \ {t} :
           /\ call'[s] = call[s] /\ pc'[s] = pc[s] /\ reg'[s] = reg[s]
           /\ Body(s)' = Body(s)
           /\ At(s, "strex")' <=> At(s, "strex")
           /\ At(s, "cmpxchg")' <=> At(s, "cmpxchg")
<1> SUFFICES ASSUME NEW s \in Threads \ {t}
             PROVE  /\ call'[s] = call[s] /\ pc'[s] = pc[s] /\ reg'[s] = reg[s]
                    /\ Body(s)' = Body(s)
                    /\ At(s, "strex")' <=> At(s, "strex")
                    /\ At(s, "cmpxchg")' <=> At(s, "cmpxchg")
  OBVIOUS
<1>1. call'[s] = call[s] /\ pc'[s] = pc[s] /\ reg'[s] = reg[s]
  BY DEF TypeOK, Moves
<1>2. Body(s)' = Body(s)
  BY <1>1 DEF Body, Moves
<1> QED BY <1>1, <1>2 DEF At

(* Every step preserves the invariant: for each action, the types, the     *)
(* place of the thread that moves, its register, and the registers of the  *)
(* threads whose reservation a write would have ended.                     *)
LEMMA StepIInv == IInv /\ [Next]_vars => IInv'
<1> SUFFICES ASSUME IInv, [Next]_vars PROVE IInv'
  OBVIOUS
<1> USE DEF IInv
<1> HIDE DEF Shape, Effect, Names, Words, Code
<1>0. CASE UNCHANGED vars
  BY <1>0 DEF vars, TypeOK, InBody, Reserved, ExpectedHeld, At, Body
<1>1. ASSUME NEW t \in Threads, Invoke(t) PROVE IInv'
  <2>1. PICK op \in Operations, w \in Words :
          /\ call' = [call EXCEPT ![t] = op] /\ pc' = [pc EXCEPT ![t] = 1]
          /\ reg' = [reg EXCEPT ![t] = w]
          /\ op.name = "cas" => w = op.expected
          /\ UNCHANGED <<platform, word, latch, monitor>>
    BY <1>1, OperationsAssumption DEF Invoke, Load, GoTo
  <2>2. TypeOK'
    BY <2>1 DEF TypeOK
  <2>3. call'[t] = op /\ pc'[t] = 1 /\ reg'[t] = w
    BY <2>1 DEF TypeOK
  <2>m. \A s \in Threads \ {t} :
          /\ call'[s] = call[s] /\ pc'[s] = pc[s] /\ reg'[s] = reg[s]
          /\ Body(s)' = Body(s)
          /\ At(s, "strex")' <=> At(s, "strex")
          /\ At(s, "cmpxchg")' <=> At(s, "cmpxchg")
    BY <2>1, OthersStay DEF Moves, TypeOK
  <2>4. Shape(Body(t)', op.name)
    BY <2>1, <2>3, CodeShape, OperationsAssumption, PlatformsAssumption DEF Body, TypeOK
  <2>5. InBody'
    BY <2>1, <2>3, <2>4, <2>m DEF InBody, Shape
  <2>6. ~ At(t, "strex")'
    BY <2>3, <2>4 DEF At, Shape
  <2>7. Reserved'
    BY <2>1, <2>6, <2>m DEF Reserved
  <2>8. ExpectedHeld'
    BY <2>1, <2>3, <2>m DEF ExpectedHeld, At
  <2> QED BY <2>2, <2>5, <2>7, <2>8
<1>2. ASSUME NEW t \in Threads, Mov(t) PROVE IInv'
  <2>1. call[t] # None /\ pc[t] # 0 /\ call' = call /\ Moves(t)
    BY <1>2 DEF Mov, At, Load, GoTo, TypeOK, Moves
  <2>a. Shape(Body(t), call[t].name) /\ pc[t] \in 0..Len(Body(t))
    BY <2>1, Inside
  <2>b. Body(t)' = Body(t)
    BY <2>1 DEF Body, Moves
  <2>c. Len(Body(t)) \in 1..4
    BY <2>a DEF Shape
  <2>2. /\ Shape(Body(t), call[t].name) /\ pc[t] \in 1..Len(Body(t))
        /\ Body(t)' = Body(t) /\ Len(Body(t)) \in 1..4
    BY <2>1, <2>a, <2>b, <2>c
  <2>3. word' \in Words /\ reg'[t] \in Words /\ latch' \in [Threads -> Words] /\ monitor' \subseteq Threads
    BY <1>2, <2>1, Inside DEF Mov, TypeOK, Write, Load
  <2>4. pc'[t] \in 0..Len(Body(t))
    BY <1>2, <2>2 DEF Mov, TypeOK, At, GoTo, Shape
  <2>e. pc' \in [Threads -> 0..4] /\ reg' \in [Threads -> Words]
    <3>1. pc'[t] \in 0..4
      BY <2>c, <2>4, Within, Zenon
    <3> QED BY <2>1, <2>3, <3>1 DEF TypeOK, Moves
  <2>5. TypeOK'
    BY <2>1, <2>3, <2>e DEF TypeOK, Moves
  <2>6. InBody'
    BY <2>1, <2>2, <2>4, OthersStay DEF InBody
  <2>7. ~ At(t, "strex")'
    BY <1>2, <2>1, <2>2 DEF Mov, At, GoTo, Shape, TypeOK
  <2>8. Reserved'
    BY <1>2, <2>1, <2>7, OthersStay DEF Mov, Reserved
  <2>9. ~ At(t, "cmpxchg")'
    BY <1>2, <2>1, <2>2, <2>4 DEF Mov, At, GoTo, Shape, TypeOK
  <2>10. ExpectedHeld'
    BY <2>1, <2>9, OthersStay DEF ExpectedHeld
  <2> QED BY <2>5, <2>6, <2>8, <2>10
<1>3. ASSUME NEW t \in Threads, MovHalf(t) PROVE IInv'
  <2>1. call[t] # None /\ pc[t] # 0 /\ call' = call /\ Moves(t)
    BY <1>3 DEF MovHalf, At, Load, GoTo, TypeOK, Moves
  <2>a. Shape(Body(t), call[t].name) /\ pc[t] \in 0..Len(Body(t))
    BY <2>1, Inside
  <2>b. Body(t)' = Body(t)
    BY <2>1 DEF Body, Moves
  <2>c. Len(Body(t)) \in 1..4
    BY <2>a DEF Shape
  <2>2. /\ Shape(Body(t), call[t].name) /\ pc[t] \in 1..Len(Body(t))
        /\ Body(t)' = Body(t) /\ Len(Body(t)) \in 1..4
    BY <2>1, <2>a, <2>b, <2>c
  <2>3. word' \in Words /\ reg'[t] \in Words /\ latch' \in [Threads -> Words] /\ monitor' \subseteq Threads
    BY <1>3, <2>1, Inside DEF MovHalf, TypeOK, Write, Load, Words
  <2>4. pc'[t] \in 0..Len(Body(t))
    BY <1>3, <2>2 DEF MovHalf, TypeOK, At, GoTo, Shape
  <2>e. pc' \in [Threads -> 0..4] /\ reg' \in [Threads -> Words]
    <3>1. pc'[t] \in 0..4
      BY <2>c, <2>4, Within, Zenon
    <3> QED BY <2>1, <2>3, <3>1 DEF TypeOK, Moves
  <2>5. TypeOK'
    BY <2>1, <2>3, <2>e DEF TypeOK, Moves
  <2>6. InBody'
    BY <2>1, <2>2, <2>4, OthersStay DEF InBody
  <2>7. ~ At(t, "strex")'
    BY <1>3, <2>1, <2>2 DEF MovHalf, At, GoTo, Shape, TypeOK
  <2>8. Reserved'
    BY <1>3, <2>1, <2>7, OthersStay DEF MovHalf, Reserved
  <2>9. ~ At(t, "cmpxchg")'
    BY <1>3, <2>1, <2>2, <2>4 DEF MovHalf, At, GoTo, Shape, TypeOK
  <2>10. ExpectedHeld'
    BY <2>1, <2>9, OthersStay DEF ExpectedHeld
  <2> QED BY <2>5, <2>6, <2>8, <2>10
<1>4. ASSUME NEW t \in Threads, MovTo(t) PROVE IInv'
  <2>1. call[t] # None /\ pc[t] # 0 /\ call' = call /\ Moves(t)
    BY <1>4 DEF MovTo, At, Load, GoTo, TypeOK, Moves
  <2>a. Shape(Body(t), call[t].name) /\ pc[t] \in 0..Len(Body(t))
    BY <2>1, Inside
  <2>b. Body(t)' = Body(t)
    BY <2>1 DEF Body, Moves
  <2>c. Len(Body(t)) \in 1..4
    BY <2>a DEF Shape
  <2>2. /\ Shape(Body(t), call[t].name) /\ pc[t] \in 1..Len(Body(t))
        /\ Body(t)' = Body(t) /\ Len(Body(t)) \in 1..4
    BY <2>1, <2>a, <2>b, <2>c
  <2>3. word' \in Words /\ reg'[t] \in Words /\ latch' \in [Threads -> Words] /\ monitor' \subseteq Threads
    BY <1>4, <2>1, Inside DEF MovTo, TypeOK, Write, Load
  <2>4. pc'[t] \in 0..Len(Body(t))
    BY <1>4, <2>2 DEF MovTo, TypeOK, At, GoTo, Shape
  <2>e. pc' \in [Threads -> 0..4] /\ reg' \in [Threads -> Words]
    <3>1. pc'[t] \in 0..4
      BY <2>c, <2>4, Within, Zenon
    <3> QED BY <2>1, <2>3, <3>1 DEF TypeOK, Moves
  <2>5. TypeOK'
    BY <2>1, <2>3, <2>e DEF TypeOK, Moves
  <2>6. InBody'
    BY <2>1, <2>2, <2>4, OthersStay DEF InBody
  <2>8. Reserved'
    BY <1>4 DEF MovTo, Write, Reserved
  <2>9. ~ At(t, "cmpxchg")'
    BY <1>4, <2>1, <2>2, <2>4 DEF MovTo, At, GoTo, Shape, TypeOK
  <2>10. ExpectedHeld'
    BY <2>1, <2>9, OthersStay DEF ExpectedHeld
  <2> QED BY <2>5, <2>6, <2>8, <2>10
<1>5. ASSUME NEW t \in Threads, Xadd(t) PROVE IInv'
  <2>1. call[t] # None /\ pc[t] # 0 /\ call' = call /\ Moves(t)
    BY <1>5 DEF Xadd, At, Load, GoTo, TypeOK, Moves
  <2>a. Shape(Body(t), call[t].name) /\ pc[t] \in 0..Len(Body(t))
    BY <2>1, Inside
  <2>b. Body(t)' = Body(t)
    BY <2>1 DEF Body, Moves
  <2>c. Len(Body(t)) \in 1..4
    BY <2>a DEF Shape
  <2>2. /\ Shape(Body(t), call[t].name) /\ pc[t] \in 1..Len(Body(t))
        /\ Body(t)' = Body(t) /\ Len(Body(t)) \in 1..4
    BY <2>1, <2>a, <2>b, <2>c
  <2>3. word' \in Words /\ reg'[t] \in Words /\ latch' \in [Threads -> Words] /\ monitor' \subseteq Threads
    BY <1>5, <2>1, Inside DEF Xadd, TypeOK, Write, Load
  <2>4. pc'[t] \in 0..Len(Body(t))
    BY <1>5, <2>2 DEF Xadd, TypeOK, At, GoTo, Shape
  <2>e. pc' \in [Threads -> 0..4] /\ reg' \in [Threads -> Words]
    <3>1. pc'[t] \in 0..4
      BY <2>c, <2>4, Within, Zenon
    <3> QED BY <2>1, <2>3, <3>1 DEF TypeOK, Moves
  <2>5. TypeOK'
    BY <2>1, <2>3, <2>e DEF TypeOK, Moves
  <2>6. InBody'
    BY <2>1, <2>2, <2>4, OthersStay DEF InBody
  <2>8. Reserved'
    BY <1>5 DEF Xadd, Write, Reserved
  <2>9. ~ At(t, "cmpxchg")'
    BY <1>5, <2>1, <2>2, <2>4 DEF Xadd, At, GoTo, Shape, TypeOK
  <2>10. ExpectedHeld'
    BY <2>1, <2>9, OthersStay DEF ExpectedHeld
  <2> QED BY <2>5, <2>6, <2>8, <2>10
<1>6. ASSUME NEW t \in Threads, Cmpxchg(t) PROVE IInv'
  <2>1. call[t] # None /\ pc[t] # 0 /\ call' = call /\ Moves(t)
    BY <1>6 DEF Cmpxchg, At, Load, GoTo, TypeOK, Moves
  <2>a. Shape(Body(t), call[t].name) /\ pc[t] \in 0..Len(Body(t))
    BY <2>1, Inside
  <2>b. Body(t)' = Body(t)
    BY <2>1 DEF Body, Moves
  <2>c. Len(Body(t)) \in 1..4
    BY <2>a DEF Shape
  <2>2. /\ Shape(Body(t), call[t].name) /\ pc[t] \in 1..Len(Body(t))
        /\ Body(t)' = Body(t) /\ Len(Body(t)) \in 1..4
    BY <2>1, <2>a, <2>b, <2>c
  <2>3. word' \in Words /\ reg'[t] \in Words /\ latch' \in [Threads -> Words] /\ monitor' \subseteq Threads
    BY <1>6, <2>1, Inside DEF Cmpxchg, TypeOK, Write, Load, Jne
  <2>d. \/ pc'[t] = 0
        \/ pc'[t] = 1
        \/ pc'[t] = 3 /\ Body(t)[pc[t]] = "cmpxchg_jne_3"
    BY <1>6 DEF Cmpxchg, TypeOK, At, GoTo, Jne
  <2>f. Body(t)[pc[t]] = "cmpxchg_jne_3" => Len(Body(t)) = 3
    BY <2>2 DEF Shape
  <2>4. pc'[t] \in 0..Len(Body(t))
    BY <2>c, <2>d, <2>f, Targets, Zenon
  <2>e. pc' \in [Threads -> 0..4] /\ reg' \in [Threads -> Words]
    <3>1. pc'[t] \in 0..4
      BY <2>c, <2>4, Within, Zenon
    <3> QED BY <2>1, <2>3, <3>1 DEF TypeOK, Moves
  <2>5. TypeOK'
    BY <2>1, <2>3, <2>e DEF TypeOK, Moves
  <2>6. InBody'
    BY <2>1, <2>2, <2>4, OthersStay DEF InBody
  <2>8. Reserved'
    BY <1>6 DEF Cmpxchg, Write, Reserved, Jne
  <2>9. ~ At(t, "cmpxchg")'
    BY <1>6, <2>1, <2>2, <2>4 DEF Cmpxchg, At, GoTo, Shape, TypeOK, Jne
  <2>10. ExpectedHeld'
    BY <2>1, <2>9, OthersStay DEF ExpectedHeld
  <2> QED BY <2>5, <2>6, <2>8, <2>10
<1>7. ASSUME NEW t \in Threads, UnlockedRead(t) PROVE IInv'
  <2>1. call[t] # None /\ pc[t] # 0 /\ call' = call /\ Moves(t)
    BY <1>7 DEF UnlockedRead, At, Load, GoTo, TypeOK, Moves
  <2>a. Shape(Body(t), call[t].name) /\ pc[t] \in 0..Len(Body(t))
    BY <2>1, Inside
  <2>b. Body(t)' = Body(t)
    BY <2>1 DEF Body, Moves
  <2>c. Len(Body(t)) \in 1..4
    BY <2>a DEF Shape
  <2>2. /\ Shape(Body(t), call[t].name) /\ pc[t] \in 1..Len(Body(t))
        /\ Body(t)' = Body(t) /\ Len(Body(t)) \in 1..4
    BY <2>1, <2>a, <2>b, <2>c
  <2>3. word' \in Words /\ reg'[t] \in Words /\ latch' \in [Threads -> Words] /\ monitor' \subseteq Threads
    BY <1>7, <2>1, Inside DEF UnlockedRead, TypeOK, Write, Load
  <2>4. pc'[t] \in 0..Len(Body(t))
    BY <1>7, <2>2 DEF UnlockedRead, TypeOK, At, GoTo, Shape
  <2>e. pc' \in [Threads -> 0..4] /\ reg' \in [Threads -> Words]
    <3>1. pc'[t] \in 0..4
      BY <2>c, <2>4, Within, Zenon
    <3> QED BY <2>1, <2>3, <3>1 DEF TypeOK, Moves
  <2>5. TypeOK'
    BY <2>1, <2>3, <2>e DEF TypeOK, Moves
  <2>6. InBody'
    BY <2>1, <2>2, <2>4, OthersStay DEF InBody
  <2>7. ~ At(t, "strex")'
    BY <1>7, <2>1, <2>2 DEF UnlockedRead, At, GoTo, Shape, TypeOK
  <2>8. Reserved'
    BY <1>7, <2>1, <2>7, OthersStay DEF UnlockedRead, Reserved
  <2>9. ~ At(t, "cmpxchg")'
    BY <1>7, <2>1, <2>2, <2>4 DEF UnlockedRead, At, GoTo, Shape, TypeOK
  <2>10. ExpectedHeld'
    BY <2>1, <2>9, OthersStay DEF ExpectedHeld
  <2> QED BY <2>5, <2>6, <2>8, <2>10
<1>8. ASSUME NEW t \in Threads, UnlockedWrite(t) PROVE IInv'
  <2>1. call[t] # None /\ pc[t] # 0 /\ call' = call /\ Moves(t)
    BY <1>8 DEF UnlockedWrite, At, Load, GoTo, TypeOK, Moves
  <2>a. Shape(Body(t), call[t].name) /\ pc[t] \in 0..Len(Body(t))
    BY <2>1, Inside
  <2>b. Body(t)' = Body(t)
    BY <2>1 DEF Body, Moves
  <2>c. Len(Body(t)) \in 1..4
    BY <2>a DEF Shape
  <2>2. /\ Shape(Body(t), call[t].name) /\ pc[t] \in 1..Len(Body(t))
        /\ Body(t)' = Body(t) /\ Len(Body(t)) \in 1..4
    BY <2>1, <2>a, <2>b, <2>c
  <2>3. word' \in Words /\ reg'[t] \in Words /\ latch' \in [Threads -> Words] /\ monitor' \subseteq Threads
    BY <1>8, <2>1, Inside, FreeType DEF UnlockedWrite, TypeOK, Write, Load
  <2>4. pc'[t] \in 0..Len(Body(t))
    BY <1>8, <2>2 DEF UnlockedWrite, TypeOK, At, GoTo, Shape, UnlockedJne, Free
  <2>e. pc' \in [Threads -> 0..4] /\ reg' \in [Threads -> Words]
    <3>1. pc'[t] \in 0..4
      BY <2>c, <2>4, Within, Zenon
    <3> QED BY <2>1, <2>3, <3>1 DEF TypeOK, Moves
  <2>5. TypeOK'
    BY <2>1, <2>3, <2>e DEF TypeOK, Moves
  <2>6. InBody'
    BY <2>1, <2>2, <2>4, OthersStay DEF InBody
  <2>8. Reserved'
    BY <1>8 DEF UnlockedWrite, Write, Reserved, UnlockedJne, Free
  <2>9. ~ At(t, "cmpxchg")'
    BY <1>8, <2>1, <2>2, <2>4 DEF UnlockedWrite, At, GoTo, Shape, TypeOK, UnlockedJne, Free
  <2>10. ExpectedHeld'
    BY <2>1, <2>9, OthersStay DEF ExpectedHeld
  <2> QED BY <2>5, <2>6, <2>8, <2>10
<1>9. ASSUME NEW t \in Threads, Ldrex(t) PROVE IInv'
  <2>1. call[t] # None /\ pc[t] # 0 /\ call' = call /\ Moves(t)
    BY <1>9 DEF Ldrex, At, Load, GoTo, TypeOK, Moves
  <2>a. Shape(Body(t), call[t].name) /\ pc[t] \in 0..Len(Body(t))
    BY <2>1, Inside
  <2>b. Body(t)' = Body(t)
    BY <2>1 DEF Body, Moves
  <2>c. Len(Body(t)) \in 1..4
    BY <2>a DEF Shape
  <2>2. /\ Shape(Body(t), call[t].name) /\ pc[t] \in 1..Len(Body(t))
        /\ Body(t)' = Body(t) /\ Len(Body(t)) \in 1..4
    BY <2>1, <2>a, <2>b, <2>c
  <2>3. word' \in Words /\ reg'[t] \in Words /\ latch' \in [Threads -> Words] /\ monitor' \subseteq Threads
    BY <1>9, <2>1, Inside DEF Ldrex, TypeOK, Write, Load
  <2>4. pc'[t] \in 0..Len(Body(t))
    BY <1>9, <2>2 DEF Ldrex, TypeOK, At, GoTo, Shape
  <2>e. pc' \in [Threads -> 0..4] /\ reg' \in [Threads -> Words]
    <3>1. pc'[t] \in 0..4
      BY <2>c, <2>4, Within, Zenon
    <3> QED BY <2>1, <2>3, <3>1 DEF TypeOK, Moves
  <2>5. TypeOK'
    BY <2>1, <2>3, <2>e DEF TypeOK, Moves
  <2>6. InBody'
    BY <2>1, <2>2, <2>4, OthersStay DEF InBody
  <2>7. ASSUME NEW s \in Threads, s \in monitor', At(s, "strex")' PROVE reg'[s] = word'
    <3>1. CASE s = t
      BY <1>9, <3>1 DEF Ldrex, Load, TypeOK
    <3>2. CASE s # t
      BY <1>9, <2>1, <2>7, <3>2, OthersStay DEF Ldrex, Reserved
    <3> QED BY <3>1, <3>2
  <2>8. Reserved'
    BY <2>7 DEF Reserved
  <2>9. ~ At(t, "cmpxchg")'
    BY <1>9, <2>1, <2>2, <2>4 DEF Ldrex, At, GoTo, Shape, TypeOK
  <2>10. ExpectedHeld'
    BY <2>1, <2>9, OthersStay DEF ExpectedHeld
  <2> QED BY <2>5, <2>6, <2>8, <2>10
<1>10. ASSUME NEW t \in Threads, Strex(t) PROVE IInv'
  <2>1. call[t] # None /\ pc[t] # 0 /\ call' = call /\ Moves(t)
    BY <1>10 DEF Strex, At, Load, GoTo, TypeOK, Moves
  <2>a. Shape(Body(t), call[t].name) /\ pc[t] \in 0..Len(Body(t))
    BY <2>1, Inside
  <2>b. Body(t)' = Body(t)
    BY <2>1 DEF Body, Moves
  <2>c. Len(Body(t)) \in 1..4
    BY <2>a DEF Shape
  <2>2. /\ Shape(Body(t), call[t].name) /\ pc[t] \in 1..Len(Body(t))
        /\ Body(t)' = Body(t) /\ Len(Body(t)) \in 1..4
    BY <2>1, <2>a, <2>b, <2>c
  <2>3. word' \in Words /\ reg'[t] \in Words /\ latch' \in [Threads -> Words] /\ monitor' \subseteq Threads
    BY <1>10, <2>1, Inside DEF Strex, TypeOK, Write, Load, Retry
  <2>4. pc'[t] \in 0..Len(Body(t))
    BY <1>10, <2>2 DEF Strex, TypeOK, At, GoTo, Shape, Retry
  <2>e. pc' \in [Threads -> 0..4] /\ reg' \in [Threads -> Words]
    <3>1. pc'[t] \in 0..4
      BY <2>c, <2>4, Within, Zenon
    <3> QED BY <2>1, <2>3, <3>1 DEF TypeOK, Moves
  <2>5. TypeOK'
    BY <2>1, <2>3, <2>e DEF TypeOK, Moves
  <2>6. InBody'
    BY <2>1, <2>2, <2>4, OthersStay DEF InBody
  <2>7. ASSUME t \notin monitor PROVE Reserved'
    BY <1>10, <2>1, <2>7, OthersStay DEF Strex, Reserved
  <2>8. Reserved'
    BY <1>10, <2>7 DEF Strex, Write, Reserved
  <2>9. ~ At(t, "cmpxchg")'
    BY <1>10, <2>1, <2>2, <2>4 DEF Strex, At, GoTo, Shape, TypeOK, Retry
  <2>10. ExpectedHeld'
    BY <2>1, <2>9, OthersStay DEF ExpectedHeld
  <2> QED BY <2>5, <2>6, <2>8, <2>10
<1>11. ASSUME NEW t \in Threads, Return(t) PROVE IInv'
  <2>2. TypeOK'
    BY <1>11, FreeType DEF Return, TypeOK, Load
  <2>3. call'[t] = None
    BY <1>11 DEF Return, TypeOK
  <2>4. \A s \in Threads \ {t} :
          /\ call'[s] = call[s] /\ pc'[s] = pc[s] /\ reg'[s] = reg[s]
          /\ Body(s)' = Body(s)
          /\ At(s, "strex")' <=> At(s, "strex")
          /\ At(s, "cmpxchg")' <=> At(s, "cmpxchg")
    BY <1>11, OthersStay DEF Return, Load, Moves, TypeOK
  <2>5. InBody'
    BY <1>11, <2>3, <2>4 DEF Return, InBody
  <2>6. Reserved' /\ ExpectedHeld'
    BY <1>11, <2>3, <2>4 DEF Return, Reserved, ExpectedHeld, At
  <2> QED BY <2>2, <2>5, <2>6
<1>12. ASSUME NEW t \in Threads, LoseMonitor(t) PROVE IInv'
  <2>1. TypeOK' /\ InBody' /\ ExpectedHeld'
    BY <1>12 DEF LoseMonitor, TypeOK, InBody, ExpectedHeld, At, Body
  <2>2. Reserved'
    BY <1>12 DEF LoseMonitor, Reserved, At, Body
  <2> QED BY <2>1, <2>2
<1> QED
  BY <1>0, <1>1, <1>2, <1>3, <1>4, <1>5, <1>6, <1>7, <1>8, <1>9, <1>10, <1>11, <1>12
  DEF Next, Step

(* The inductive invariant holds in every reachable state.                 *)
LEMMA Inductive == Spec => []IInv
<1>1. Init => IInv
  BY InitIInv
<1>2. IInv /\ [Next]_vars => IInv'
  BY StepIInv
<1> QED BY <1>1, <1>2, PTL DEF Spec

-----------------------------------------------------------------------------
(* The types, proved for every value of the constants: the instruction     *)
(* counter of a thread never leaves its function.                          *)
THEOREM TypeCorrect == Spec => []TypeOK
<1>1. IInv => TypeOK
  BY DEF IInv
<1> QED BY <1>1, Inductive, PTL

-----------------------------------------------------------------------------
(* The operations of the abstract variable are those of this module.       *)
LEMMA SameEffect == \A op, w : Atomic!Effect(op, w) = Effect(op, w)
BY DEF Effect, Atomic!Effect, Sum, Atomic!Sum, BothHalves, Atomic!BothHalves

(* The abstract variable has the same words as the concrete one.           *)
LEMMA SameWords == Atomic!Words = Words
BY DEF Words, Atomic!Words, Half, Atomic!Half

(* An instruction after which the function goes on is no step of the       *)
(* abstract variable unless it writes.                                     *)
LEMMA GoesOn ==
  ASSUME TypeOK, NEW t \in Threads, Moves(t), call' = call, word' = word,
         call[t] # None, pc[t] # 0, pc'[t] # 0
  PROVE  UNCHANGED Atomic!vars
<1>1. \A s \in Threads \ {t} : call'[s] = call[s] /\ pc'[s] = pc[s] /\ reg'[s] = reg[s]
  BY OthersStay
<1>2. Answered' = Answered
  BY <1>1 DEF Answered
<1> QED BY <1>2 DEF Atomic!vars

(* An instruction that ends the function is the instant it takes effect.   *)
LEMMA Ends ==
  ASSUME TypeOK, NEW t \in Threads, Moves(t), call' = call, call[t] # None,
         pc[t] # 0, pc'[t] = 0, word' = Effect(call[t], word), reg'[t] \in Words,
         call[t].name # "store" => reg'[t] = word
  PROVE  Atomic!Next
<1>1. \A s \in Threads \ {t} : call'[s] = call[s] /\ pc'[s] = pc[s] /\ reg'[s] = reg[s]
  BY OthersStay
<1>2. Answered[t] = None
  BY DEF Answered
<1>3. Answered' = [Answered EXCEPT ![t] = reg'[t]]
  BY <1>1 DEF Answered
<1>4. reg'[t] \in Atomic!Answers(call[t], word)
  BY SameWords DEF Atomic!Answers
<1>5. Atomic!TakeEffect(t)
  BY <1>2, <1>3, <1>4, SameEffect DEF Atomic!TakeEffect
<1> QED BY <1>5 DEF Atomic!Next

(* Every step is a step of the atomic variable, or the write back of an    *)
(* unlocked instruction.                                                   *)
LEMMA StepRefines ==
  IInv /\ IInv' /\ [Next]_vars => [Atomic!Next \/ WriteBack]_(Atomic!vars)
<1> SUFFICES ASSUME IInv, IInv', [Next]_vars
             PROVE  Atomic!Next \/ WriteBack \/ UNCHANGED Atomic!vars
  OBVIOUS
<1> USE DEF IInv
<1> HIDE DEF Shape, Effect, Names, Words, Code
<1>0. CASE UNCHANGED vars
  BY <1>0 DEF vars, Atomic!vars, Answered
<1>1. ASSUME NEW t \in Threads, Invoke(t) PROVE Atomic!Next
  <2>1. PICK op \in Operations : call' = [call EXCEPT ![t] = op]
    BY <1>1 DEF Invoke
  <2>2. pc'[t] = 1 /\ call'[t] = op /\ call[t] = None
    BY <1>1, <2>1 DEF Invoke, GoTo, TypeOK
  <2>3. \A s \in Threads \ {t} : call'[s] = call[s] /\ pc'[s] = pc[s] /\ reg'[s] = reg[s]
    BY <1>1, <2>1 DEF Invoke, GoTo, Load, TypeOK
  <2>4. Answered' = Answered
    BY <2>2, <2>3 DEF Answered
  <2>5. Atomic!Invoke(t)
    BY <1>1, <2>1, <2>4 DEF Invoke, Atomic!Invoke
  <2> QED BY <2>5 DEF Atomic!Next
<1>2. ASSUME NEW t \in Threads, Return(t) PROVE Atomic!Next
  <2>1. call[t] \in Operations /\ reg[t] \in Words /\ Answered[t] # None
    BY <1>2, OperationsAssumption DEF Return, Answered, TypeOK
  <2>2. Answered' = [Answered EXCEPT ![t] = None]
    BY <1>2 DEF Return, Answered, Load, TypeOK
  <2>3. Atomic!Return(t)
    BY <1>2, <2>1, <2>2 DEF Return, Atomic!Return
  <2> QED BY <2>3 DEF Atomic!Next
<1>3. ASSUME NEW t \in Threads, LoseMonitor(t) PROVE UNCHANGED Atomic!vars
  BY <1>3 DEF LoseMonitor, Atomic!vars, Answered
<1>4. ASSUME NEW t \in Threads, Step(t)
      PROVE  Atomic!Next \/ WriteBack \/ UNCHANGED Atomic!vars
  <2>1. call[t] # None /\ pc[t] # 0 /\ call' = call /\ Moves(t)
    BY <1>4 DEF Step, Mov, MovHalf, MovTo, Xadd, Cmpxchg, UnlockedRead, UnlockedWrite,
                Ldrex, Strex, At, Load, GoTo, TypeOK, Moves
  <2>2. /\ call[t].name \in Names /\ pc[t] \in 1..Len(Body(t))
        /\ Shape(Body(t), call[t].name)
    BY <2>1, Inside
  <2>3. reg'[t] \in Words
    BY DEF TypeOK
  <2>4. CASE Mov(t)
    <3>1. word' = word /\ reg'[t] = word
      BY <2>4 DEF Mov, Load, TypeOK
    <3>2. pc'[t] = 0 => Effect(call[t], word) = word
      BY <2>1, <2>2, <2>4 DEF Mov, GoTo, TypeOK, Effect
    <3> QED BY <2>1, <2>3, <3>1, <3>2, GoesOn, Ends
  <2>5. CASE MovHalf(t)
    <3>1. word' = word /\ pc'[t] # 0
      BY <2>2, <2>5 DEF MovHalf, GoTo, TypeOK
    <3> QED BY <2>1, <3>1, GoesOn
  <2>6. CASE MovTo(t)
    <3>1. call[t].name = "store"
      BY <2>2, <2>6 DEF MovTo, At, Shape
    <3>2. word' = Effect(call[t], word) /\ pc'[t] = 0
      BY <2>6, <3>1 DEF MovTo, Write, GoTo, TypeOK, Effect
    <3> QED BY <2>1, <2>3, <3>1, <3>2, Ends
  <2>7. CASE Xadd(t)
    <3>1. word' = Effect(call[t], word) /\ pc'[t] = 0 /\ reg'[t] = word
      BY <2>7 DEF Xadd, Write, GoTo, Load, TypeOK
    <3> QED BY <2>1, <2>3, <3>1, Ends
  <2>8. CASE Cmpxchg(t)
    <3>1. reg'[t] = word
      BY <2>8 DEF Cmpxchg, Load, TypeOK
    <3>2. ASSUME reg[t] = word PROVE word' = Effect(call[t], word) /\ pc'[t] = 0
      BY <2>8, <3>2 DEF Cmpxchg, Write, GoTo, TypeOK
    <3>3. ASSUME reg[t] # word PROVE word' = word
      BY <2>8, <3>3 DEF Cmpxchg, Write
    <3>4. ASSUME reg[t] # word, pc'[t] = 0 PROVE At(t, "cmpxchg")
      <4>1. PICK i \in DOMAIN Jne : At(t, i) /\ pc' = [pc EXCEPT ![t] = Jne[i]]
        BY <2>8, <3>4 DEF Cmpxchg, GoTo
      <4>2. Jne[i] = 0
        BY <3>4, <4>1 DEF TypeOK
      <4>3. i = "cmpxchg"
        BY <4>1, <4>2 DEF Jne
      <4> QED BY <4>1, <4>3
    <3>5. ASSUME reg[t] # word, pc'[t] = 0 PROVE Effect(call[t], word) = word
      <4>1. At(t, "cmpxchg")
        BY <3>4, <3>5
      <4>2. call[t].name \in {"load", "cas"}
        BY <2>2, <4>1 DEF At, Shape
      <4>3. call[t].name = "cas" => reg[t] = call[t].expected
        BY <4>1 DEF ExpectedHeld
      <4> QED BY <3>5, <4>2, <4>3 DEF Effect
    <3> QED BY <2>1, <2>3, <3>1, <3>2, <3>3, <3>5, GoesOn, Ends
  <2>9. CASE UnlockedRead(t)
    <3>1. word' = word /\ pc'[t] # 0
      BY <2>2, <2>9 DEF UnlockedRead, GoTo, TypeOK
    <3> QED BY <2>1, <3>1, GoesOn
  <2>10. CASE UnlockedWrite(t)
    <3>1. call[t].name = "store"
      BY <2>2, <2>10 DEF UnlockedWrite, UnlockedJne, At, Shape
    <3>2. ASSUME pc'[t] = 0 PROVE word' = Effect(call[t], latch[t])
      BY <2>10, <3>2 DEF UnlockedWrite, UnlockedJne, Write, GoTo, TypeOK
    <3>3. Effect(call[t], latch[t]) = Effect(call[t], word)
      BY <3>1 DEF Effect
    <3>4. CASE pc'[t] = 0
      BY <2>1, <2>3, <3>1, <3>2, <3>3, <3>4, Ends
    <3>5. CASE pc'[t] # 0
      BY <2>10, <3>5 DEF WriteBack
    <3> QED BY <3>4, <3>5
  <2>11. CASE Ldrex(t)
    <3>1. word' = word /\ reg'[t] = word
      BY <2>11 DEF Ldrex, Load, TypeOK
    <3>2. pc'[t] = 0 => call[t].name = "cas" /\ word # call[t].expected
      BY <2>2, <2>11 DEF Ldrex, GoTo, TypeOK
    <3>3. pc'[t] = 0 => Effect(call[t], word) = word
      BY <3>2 DEF Effect
    <3> QED BY <2>1, <2>3, <3>1, <3>3, GoesOn, Ends
  <2>12. CASE Strex(t)
    <3>1. CASE t \in monitor
      <4>1. reg[t] = word
        BY <2>12, <3>1 DEF Strex, Reserved
      <4>2. word' = Effect(call[t], word) /\ pc'[t] = 0 /\ reg'[t] = word
        BY <2>12, <3>1, <4>1 DEF Strex, Write, GoTo, TypeOK
      <4> QED BY <2>1, <2>3, <4>2, Ends
    <3>2. CASE t \notin monitor
      <4>1. word' = word /\ pc'[t] # 0
        BY <2>12, <3>2 DEF Strex, GoTo, Retry, TypeOK
      <4> QED BY <2>1, <4>1, GoesOn
    <3> QED BY <3>1, <3>2
  <2> QED
    BY <1>4, <2>4, <2>5, <2>6, <2>7, <2>8, <2>9, <2>10, <2>11, <2>12 DEF Step
<1> QED BY <1>0, <1>1, <1>2, <1>3, <1>4 DEF Next

(* Every function of every platform takes effect once, at one instant, and *)
(* answers the value the variable had then, but for the write back of the  *)
(* two unlocked stores: for any number of threads and any operands.        *)
THEOREM MintomicImplementsAtomicWord == Spec => ImplementsAtomicWord
<1>1. Init => Atomic!Init
  BY SameWords DEF Init, Atomic!Init, Answered
<1>2. IInv /\ IInv' /\ [Next]_vars => [Atomic!Next \/ WriteBack]_(Atomic!vars)
  BY StepRefines
<1> QED BY <1>1, <1>2, Inductive, PTL DEF Spec, ImplementsAtomicWord

(* On a platform without the two unlocked stores nothing is written back.  *)
LEMMA NothingUnlocked ==
  ASSUME Platforms \cap {"gcc_x86", "msvc_x86"} = {}, IInv
  PROVE  ~ WriteBack
<1> SUFFICES ASSUME NEW t \in Threads, UnlockedWrite(t) PROVE FALSE
  BY DEF WriteBack
<1> USE DEF IInv
<1>1. call[t] # None /\ pc[t] # 0 /\ Body(t)[pc[t]] \in {"cmpxchg8b_jne_1", "cmpxchg8b_jne_3"}
  BY DEF UnlockedWrite, UnlockedJne, At
<1>2. /\ call[t].name \in Names /\ pc[t] \in 1..Len(Body(t))
      /\ Shape(Body(t), call[t].name)
  BY <1>1, Inside
<1>3. call[t].name = "store"
  BY <1>1, <1>2 DEF Shape
<1>4. platform \in DOMAIN Code \ {"gcc_x86", "msvc_x86"}
  BY PlatformsAssumption DEF TypeOK
<1>5. Body(t) = <<"mov_to">> \/ Body(t) = <<"ldrex", "strex">>
  BY <1>3, <1>4 DEF Body, Code, gcc_32, gcc_x64, arm_32, thumb_32, arm_64, msvc_32, msvc_x64,
                    Exclusive
<1> QED BY <1>1, <1>2, <1>5

(* Where no store is by an unlocked cmpxchg8b, that is for every operation *)
(* of a pointer-sized word, which is what the ring buffer uses, mintomic   *)
(* is an atomic variable without exception.                                *)
THEOREM AtomicWithoutUnlockedStores ==
  ASSUME Platforms \cap {"gcc_x86", "msvc_x86"} = {}
  PROVE  Spec => Atomic!Spec
<1>1. Init => Atomic!Init
  BY SameWords DEF Init, Atomic!Init, Answered
<1>2. IInv /\ IInv' /\ [Next]_vars => [Atomic!Next]_(Atomic!vars)
  BY StepRefines, NothingUnlocked
<1> QED BY <1>1, <1>2, Inductive, PTL DEF Spec, Atomic!Spec
=============================================================================
