--------------------------- MODULE TraceDumpProofs ---------------------------
(***************************************************************************)
(* Proofs about the dump threads and the Python API, for every number of   *)
(* dumps, Python threads, slots and pushes.  The dump threads and the      *)
(* drain of stop() are consumers of the ring buffer that take turns, so    *)
(* what RingDeliveryProofs shows of one consumer at a time holds of the    *)
(* whole program.                                                          *)
(***************************************************************************)
EXTENDS TraceDump, RingDeliveryProofs

-----------------------------------------------------------------------------
(* The parts of the invariant.                                             *)

(* A Python thread has the GIL exactly while it pushes.                    *)
GilInv == \A p \in Producers : (pc[p] # "idle") <=> (gil = p)

(* A thread runs only for a dump that was started and not yet joined.      *)
ThreadInv ==
  \A d \in Dumps : /\ alive[d] => thread_running[d]
                   /\ pc[d] # "load" => alive[d]

(* The only dump that can run is the current one, or the one being         *)
(* stopped until it is joined.                                             *)
RunInv ==
  \A d \in Dumps : thread_running[d] =>
    \/ phase = "idle" /\ d = trace_dump
    \/ phase \in {"stop", "join"} /\ d = stopping

(* The API thread pops only in the drain of a stop() whose output is open. *)
ApiInv ==
  /\ pc[Api] # "load" => phase \in {"drain", "close"}
  /\ phase \in {"drain", "close"} => stopping \in CloseHandle /\ open[stopping]

(* A dump that was started runs or was told to shut down, and one whose    *)
(* output is closed was told and pops no more.                             *)
StartedInv ==
  /\ started \subseteq Dumps
  /\ phase = "join" => shutdown[stopping]
  /\ \A d \in started : /\ thread_running[d] \/ shutdown[d]
                        /\ ~open[d] => shutdown[d] /\ pc[d] = "load"

(* When the drain is over everything that was not lost is out.             *)
DrainInv ==
  phase = "close" => pc[Api] = "load" /\ (lost = {} => Len(popped) = pushes)

DumpInv == DumpTypeOK /\ GilInv /\ ThreadInv /\ RunInv /\ ApiInv /\ StartedInv

-----------------------------------------------------------------------------
(* The threads.                                                            *)

(* Python threads, dump threads, the API thread and nobody are different.  *)
LEMMA Roles ==
  /\ \A d \in Dumps : d \in Consumers /\ d \in Threads /\ d \notin Producers /\ d # Api /\ d # Nobody
  /\ Api \in Consumers /\ Api \in Threads /\ Api \notin Producers /\ Api # Nobody
  /\ \A p \in Producers : p \in Threads /\ p \notin Dumps /\ p # Api /\ p # Nobody
BY DumpsAssumption, ThreadsAssumption DEF Threads

(* DumpTypeOK in parts the provers can use.                                *)
LEMMA DumpTypes ==
  DumpTypeOK <=>
    /\ trace_dump \in created \cup {Nobody}
    /\ created \subseteq Dumps
    /\ thread_running \in [Dumps -> BOOLEAN]
    /\ shutdown \in [Dumps -> BOOLEAN]
    /\ open \in [Dumps -> BOOLEAN]
    /\ alive \in [Dumps -> BOOLEAN]
    /\ gil \in Producers \cup {Api, Nobody}
    /\ stopping \in created \cup {Nobody}
    /\ phase \in {"idle", "stop", "join", "drain", "close", "return"}
    /\ gil = Api <=> phase # "idle"
    /\ stopping = Nobody <=> phase = "idle"
BY DEF DumpTypeOK

(* A step of a producer moves no other thread; only head.inc() begins and  *)
(* only commit_push ends a push.                                           *)
LEMMA ProducerSteps ==
  ASSUME TypeOK, NEW p \in Producers, ReserveIncHead(p) \/ FinishPush(p)
  PROVE  /\ \A t \in Threads \ {p} : pc'[t] = pc[t]
         /\ ReserveIncHead(p) => pc[p] = "idle" /\ pc'[p] # "idle"
         /\ CommitPush(p) => pc[p] # "idle" /\ pc'[p] = "idle"
         /\ FinishPush(p) /\ ~CommitPush(p) => pc[p] # "idle" /\ pc'[p] # "idle"
<1>0. p \in Threads /\ pc \in [Threads -> ProducerLabels \cup ConsumerLabels]
  BY DEF TypeOK, Threads
<1>1. CASE ReserveIncHead(p)
  BY <1>0, <1>1 DEF ReserveIncHead, FinishPush, ReserveMaskHead, LockElement, SpinElement, CountWait,
    ReserveTake, ReserveOverrun, ReserveCountOverflow, ReserveCountResettable, WritePrefix,
    WriteArgs, CommitPush, Goto
<1>2. CASE CommitPush(p)
  BY <1>0, <1>2 DEF ReserveIncHead, CommitPush, Goto
<1>3. CASE FinishPush(p) /\ ~CommitPush(p)
  BY <1>0, <1>3 DEF ReserveIncHead, FinishPush, ReserveMaskHead, LockElement, SpinElement, CountWait,
    ReserveTake, ReserveOverrun, ReserveCountOverflow, ReserveCountResettable, WritePrefix,
    WriteArgs, AfterLock, Goto
<1> QED
  BY <1>1, <1>2, <1>3

(* A step of a consumer moves no other thread.                             *)
LEMMA ConsumerSteps ==
  ASSUME TypeOK, NEW c \in Consumers, PopAndProcess(c)
  PROVE  \A t \in Threads \ {c} : pc'[t] = pc[t]
BY DEF PopAndProcess, LoadOverflow, ResetOverflow, WriteBackOverflow, PopTest, LockElement, SpinElement,
  CountWait, PopCopy, PopRecycle, PopUnlock, Goto, TypeOK, Threads

-----------------------------------------------------------------------------
(* The dump threads and the API are users of the ring buffer.              *)

(* Every step of the program is a step of the ring buffer or leaves it     *)
(* alone.                                                                  *)
LEMMA RingStep == [DumpNext]_dumpVars => [Next]_vars
<1>1. ASSUME NEW p \in Producers, BeginPush(p) \/ FinishPushing(p) PROVE Next
  BY <1>1 DEF BeginPush, FinishPushing, Reserving, Formatting, EndPush, FinishPush, Next
<1>2. ASSUME NEW d \in Dumps, ThreadStep(d) PROVE Next
  BY <1>2, Roles DEF ThreadStep, Next
<1>3. ASSUME ProcessRemaining PROVE Next
  BY <1>3, Roles DEF ProcessRemaining, Next
<1>4. ASSUME NEW d \in Dumps, ThreadExit(d) \/ TracingOutputTo(d) PROVE UNCHANGED vars
  BY <1>4 DEF ThreadExit, TracingOutputTo
<1>5. ASSUME \/ SetTracing \/ UnsetTracing \/ Stop \/ ShutdownThread \/ JoinThread
             \/ CloseOutput \/ DropDump \/ StopReturns \/ UNCHANGED dumpVars
      PROVE  UNCHANGED vars
  BY <1>5 DEF SetTracing, UnsetTracing, Stop, ShutdownThread, JoinThread, CloseOutput, DropDump,
    StopReturns, dumpVars
<1> QED
  BY <1>1, <1>2, <1>3, <1>4, <1>5 DEF DumpNext, RunThread, FinishStop

(* The program implements the ring buffer specification.                   *)
LEMMA DumpsUseRing == DumpSpec => Spec
<1>1. DumpInit => Init
  BY DEF DumpInit
<1> QED
  BY <1>1, RingStep, PTL DEF DumpSpec, Spec

-----------------------------------------------------------------------------
(* The steps.                                                              *)

(* The program starts without dumps.                                       *)
LEMMA InitDumpInv == DumpInit => DumpInv /\ DrainInv
<1> SUFFICES ASSUME DumpInit PROVE DumpInv /\ DrainInv
  OBVIOUS
<1>1. /\ \A p \in Producers : pc[p] = "idle"
      /\ \A c \in Consumers : pc[c] = "load"
  BY ThreadsAssumption DEF DumpInit, Init, Threads
<1>2. DumpTypeOK
  BY Roles, DumpTypes DEF DumpInit
<1>3. GilInv /\ ThreadInv /\ RunInv /\ ApiInv /\ StartedInv /\ DrainInv
  BY <1>1, Roles DEF DumpInit, GilInv, ThreadInv, RunInv, ApiInv, StartedInv, DrainInv
<1> QED
  BY <1>2, <1>3 DEF DumpInv

(* A push leaves the dumps alone and has the GIL to itself.                *)
LEMMA PushKeepsDumps ==
  ASSUME TypeOK, DumpInv, NEW p \in Producers, BeginPush(p) \/ FinishPushing(p)
  PROVE  DumpInv'
<1>0. UNCHANGED <<dumps, call, started>>
  BY DEF BeginPush, FinishPushing, Reserving, Formatting, EndPush
<1>1. \A t \in Threads \ {p} : pc'[t] = pc[t]
  <2>1. ReserveIncHead(p) \/ FinishPush(p)
    BY DEF BeginPush, FinishPushing, Reserving, Formatting, EndPush, FinishPush
  <2> QED
    BY <2>1, ProducerSteps
<1>2. /\ gil' \in {p, Nobody} /\ gil \in {p, Nobody}
      /\ (pc'[p] # "idle") <=> (gil' = p)
  <2>1. CASE BeginPush(p)
    BY <2>1, ProducerSteps, Roles DEF BeginPush, GilInPush
  <2>2. CASE EndPush(p)
    <3>1. FinishPush(p) /\ CommitPush(p)
      BY <2>2 DEF EndPush, FinishPush
    <3> QED
      BY <2>2, <3>1, ProducerSteps, Roles DEF EndPush, DumpInv, GilInv
  <2>3. CASE Reserving(p) \/ Formatting(p)
    <3>1. FinishPush(p) /\ ~CommitPush(p)
      BY <2>3 DEF Reserving, Formatting, FinishPush, ReserveMaskHead, LockElement, SpinElement,
        CountWait, ReserveTake, ReserveOverrun, ReserveCountOverflow, ReserveCountResettable,
        WritePrefix, WriteArgs, CommitPush
    <3>2. pc[p] # "idle" /\ pc'[p] # "idle"
      BY <3>1, ProducerSteps
    <3>3. gil = p
      BY <3>2 DEF DumpInv, GilInv
    <3>4. gil' = p
      BY <2>3, <3>3 DEF Reserving, Formatting
    <3> QED
      BY <3>2, <3>3, <3>4
  <2> QED
    BY <2>1, <2>2, <2>3 DEF FinishPushing
<1>3. DumpTypeOK'
  <2>1. gil' \in Producers \cup {Api, Nobody} /\ (gil' = Api <=> phase' # "idle")
    BY <1>0, <1>2, Roles, DumpTypes DEF DumpInv, call
  <2> QED
    BY <1>0, <2>1 DEF DumpInv, DumpTypeOK, dumps, call
<1>4. GilInv'
  BY <1>1, <1>2, Roles DEF DumpInv, GilInv
<1>5. \A c \in Consumers : pc'[c] = pc[c]
  BY <1>1, ThreadsAssumption DEF Threads
<1>6. ThreadInv' /\ RunInv' /\ ApiInv' /\ StartedInv'
  BY <1>0, <1>5, Roles DEF DumpInv, ThreadInv, RunInv, ApiInv, StartedInv, dumps, call
<1> QED
  BY <1>3, <1>4, <1>6 DEF DumpInv

(* A dump thread pops only while its dump is the running one.              *)
LEMMA ThreadKeepsDumps ==
  ASSUME TypeOK, DumpInv, NEW d \in Dumps, RunThread(d)
  PROVE  DumpInv'
<1>1. CASE ThreadStep(d)
  <2>0. UNCHANGED <<dumps, gil, call, started>> /\ alive[d] /\ (pc[d] = "load" => ~shutdown[d])
    BY <1>1 DEF ThreadStep
  <2>1. \A t \in Threads \ {d} : pc'[t] = pc[t]
    BY <1>1, ConsumerSteps, Roles DEF ThreadStep
  <2>2. DumpTypeOK'
    BY <2>0 DEF DumpInv, DumpTypeOK, dumps, call
  <2>3. GilInv' /\ RunInv' /\ ApiInv'
    BY <2>0, <2>1, Roles DEF DumpInv, GilInv, RunInv, ApiInv, dumps, call
  <2>4. ThreadInv'
    BY <2>0, <2>1, Roles DEF DumpInv, ThreadInv, dumps
  <2>5. StartedInv'
    BY <2>0, <2>1, Roles DEF DumpInv, StartedInv, dumps, call
  <2> QED
    BY <2>2, <2>3, <2>4, <2>5 DEF DumpInv
<1>2. CASE ThreadExit(d)
  <2>0. /\ UNCHANGED <<pc, trace_dump, created, thread_running, shutdown, open, gil, call, started>>
        /\ alive' = [alive EXCEPT ![d] = FALSE] /\ pc[d] = "load"
    BY <1>2 DEF ThreadExit, vars
  <2>1. DumpTypeOK'
    BY <2>0, DumpTypes DEF DumpInv, DumpTypeOK, call
  <2>2. GilInv' /\ RunInv' /\ ApiInv' /\ StartedInv'
    BY <2>0 DEF DumpInv, GilInv, RunInv, ApiInv, StartedInv, call
  <2>3. ThreadInv'
    BY <2>0, DumpTypes DEF DumpInv, ThreadInv
  <2> QED
    BY <2>1, <2>2, <2>3 DEF DumpInv
<1> QED
  BY <1>1, <1>2 DEF RunThread

(* What the API thread may assume between two calls.                       *)
LEMMA CallsKeepDumps ==
  ASSUME TypeOK, DumpInv, SetTracing \/ UnsetTracing \/ Stop \/ \E d \in Dumps : TracingOutputTo(d)
  PROVE  DumpInv'
<1>0. pc' = pc /\ phase = "idle" /\ gil = Nobody /\ stopping = Nobody
  BY DumpTypes DEF DumpInv, SetTracing, UnsetTracing, Stop, TracingOutputTo, CallBegins, vars
<1>a. /\ trace_dump \in created \cup {Nobody} /\ created \subseteq Dumps
      /\ thread_running \in [Dumps -> BOOLEAN] /\ shutdown \in [Dumps -> BOOLEAN]
      /\ open \in [Dumps -> BOOLEAN] /\ alive \in [Dumps -> BOOLEAN]
      /\ \A p \in Producers : pc[p] = "idle"
  BY <1>0, DumpTypes, Roles DEF DumpInv, GilInv
<1>1. CASE UnsetTracing \/ Stop
  <2>1. /\ UNCHANGED <<trace_dump, created, thread_running, shutdown, open, alive, started>>
        /\ trace_dump # Nobody /\ gil' = Api /\ stopping' = trace_dump /\ phase' = "stop"
    BY <1>1 DEF UnsetTracing, Stop, BeginStop, dumps
  <2>2. DumpTypeOK'
    BY <1>a, <2>1, Roles DEF DumpTypeOK
  <2>3. GilInv' /\ ThreadInv' /\ RunInv' /\ ApiInv' /\ StartedInv'
    BY <1>0, <1>a, <2>1, Roles DEF DumpInv, GilInv, ThreadInv, RunInv, ApiInv, StartedInv
  <2> QED
    BY <2>2, <2>3 DEF DumpInv
<1>2. CASE SetTracing
  <2>1. /\ UNCHANGED <<trace_dump, created, shutdown, open, gil, stopping, phase>>
        /\ trace_dump \in Dumps
        /\ alive' = [alive EXCEPT ![trace_dump] = TRUE]
        /\ thread_running' = [thread_running EXCEPT ![trace_dump] = TRUE]
        /\ started' = IF open[trace_dump] THEN started \cup {trace_dump} ELSE started
    BY <1>2, <1>a DEF SetTracing, StartKeepsShutdown, call
  <2>2. DumpTypeOK'
    <3>1. alive' \in [Dumps -> BOOLEAN] /\ thread_running' \in [Dumps -> BOOLEAN]
      BY <1>a, <2>1
    <3> QED
      BY <2>1, <3>1, DumpTypes DEF DumpInv, DumpTypeOK
  <2>3. GilInv' /\ ApiInv'
    BY <1>0, <2>1 DEF DumpInv, GilInv, ApiInv
  <2>4. ThreadInv' /\ RunInv'
    BY <1>0, <1>a, <2>1 DEF DumpInv, ThreadInv, RunInv
  <2>5. StartedInv'
    BY <1>0, <1>a, <2>1 DEF DumpInv, StartedInv
  <2> QED
    BY <2>2, <2>3, <2>4, <2>5 DEF DumpInv
<1>3. ASSUME NEW d \in Dumps, TracingOutputTo(d) PROVE DumpInv'
  <2>1. /\ UNCHANGED <<thread_running, shutdown, open, alive, started>>
        /\ created' = created \cup {d} /\ trace_dump' = d
    BY <1>3 DEF TracingOutputTo
  <2>2. CASE trace_dump = Nobody
    <3>1. UNCHANGED <<gil, stopping, phase>>
      BY <1>3, <2>2 DEF TracingOutputTo, call
    <3>2. DumpTypeOK'
      BY <1>0, <1>a, <2>1, <3>1, Roles, DumpTypes DEF DumpInv, DumpTypeOK
    <3>3. GilInv' /\ ThreadInv' /\ RunInv' /\ ApiInv' /\ StartedInv'
      BY <1>0, <1>a, <2>1, <2>2, <3>1, Roles DEF DumpInv, GilInv, ThreadInv, RunInv, ApiInv, StartedInv
    <3> QED
      BY <3>2, <3>3 DEF DumpInv
  <2>3. CASE trace_dump # Nobody
    <3>1. gil' = Api /\ stopping' = trace_dump /\ phase' = "stop"
      BY <1>3, <2>3 DEF TracingOutputTo, BeginStop
    <3>2. DumpTypeOK'
      BY <1>0, <1>a, <2>1, <2>3, <3>1, Roles DEF DumpTypeOK
    <3>3. GilInv' /\ ThreadInv' /\ RunInv' /\ ApiInv' /\ StartedInv'
      BY <1>0, <1>a, <2>1, <2>3, <3>1, Roles DEF DumpInv, GilInv, ThreadInv, RunInv, ApiInv, StartedInv
    <3> QED
      BY <3>2, <3>3 DEF DumpInv
  <2> QED
    BY <2>2, <2>3
<1> QED
  BY <1>1, <1>2, <1>3

(* stop() tells the thread, waits for its end, drains and closes, in this  *)
(* order.                                                                  *)
LEMMA StopKeepsDumps ==
  ASSUME TypeOK, DumpInv, FinishStop
  PROVE  DumpInv'
<1>0. phase # "idle" /\ gil = Api /\ stopping \in Dumps /\ stopping # Nobody
  BY DumpTypes, Roles DEF DumpInv, FinishStop, ShutdownThread, JoinThread, ProcessRemaining,
    CloseOutput, DropDump, StopReturns
<1>a. /\ trace_dump \in created \cup {Nobody} /\ created \subseteq Dumps /\ stopping \in created
      /\ thread_running \in [Dumps -> BOOLEAN] /\ shutdown \in [Dumps -> BOOLEAN]
      /\ open \in [Dumps -> BOOLEAN] /\ alive \in [Dumps -> BOOLEAN]
      /\ \A p \in Producers : pc[p] = "idle"
  BY <1>0, DumpTypes, Roles DEF DumpInv, GilInv
<1>1. CASE ShutdownThread
  <2>1. /\ UNCHANGED <<pc, trace_dump, created, thread_running, open, alive, gil, stopping, started>>
        /\ phase = "stop"
    BY <1>1 DEF ShutdownThread, vars
  <2>2. CASE thread_running[stopping]
    <3>1. shutdown' = [shutdown EXCEPT ![stopping] = TRUE] /\ phase' = "join"
      BY <1>1, <2>2 DEF ShutdownThread
    <3>2. DumpTypeOK'
      BY <1>0, <1>a, <2>1, <3>1, DumpTypes DEF DumpInv, DumpTypeOK
    <3>3. GilInv' /\ ThreadInv' /\ RunInv' /\ ApiInv' /\ StartedInv'
      BY <1>0, <1>a, <2>1, <3>1 DEF DumpInv, GilInv, ThreadInv, RunInv, ApiInv, StartedInv
    <3> QED
      BY <3>2, <3>3 DEF DumpInv
  <2>3. CASE ~thread_running[stopping]
    <3>1. shutdown' = shutdown /\ phase' = AfterShutdown(stopping)
      BY <1>1, <2>3 DEF ShutdownThread
    <3>2. phase' \in {"drain", "return"} /\ (phase' = "drain" => stopping \in CloseHandle /\ open[stopping])
      BY <3>1 DEF AfterShutdown
    <3>3. DumpTypeOK'
      BY <1>0, <1>a, <2>1, <3>1, <3>2, DumpTypes DEF DumpInv, DumpTypeOK
    <3>4. \A d \in Dumps : ~thread_running[d]
      BY <2>1, <2>3 DEF DumpInv, RunInv
    <3>5. GilInv' /\ ThreadInv' /\ RunInv' /\ ApiInv' /\ StartedInv'
      BY <1>0, <1>a, <2>1, <3>1, <3>2, <3>4 DEF DumpInv, GilInv, ThreadInv, RunInv, ApiInv, StartedInv
    <3> QED
      BY <3>3, <3>5 DEF DumpInv
  <2> QED
    BY <2>2, <2>3
<1>2. CASE JoinThread
  <2>1. /\ UNCHANGED <<pc, trace_dump, created, shutdown, open, alive, gil, stopping, started>>
        /\ phase = "join" /\ ~alive[stopping]
        /\ thread_running' = [thread_running EXCEPT ![stopping] = FALSE]
        /\ phase' = AfterShutdown(stopping)
    BY <1>2 DEF JoinThread, Joined, vars
  <2>2. phase' \in {"drain", "return"} /\ (phase' = "drain" => stopping \in CloseHandle /\ open[stopping])
    BY <2>1 DEF AfterShutdown
  <2>3. DumpTypeOK'
    <3>1. thread_running' \in [Dumps -> BOOLEAN]
      BY <1>0, <1>a, <2>1
    <3> QED
      BY <1>0, <1>a, <2>1, <2>2, <3>1, DumpTypes DEF DumpInv, DumpTypeOK
  <2>4. \A d \in Dumps : ~thread_running'[d]
    BY <1>0, <1>a, <2>1 DEF DumpInv, RunInv
  <2>5. \A d \in Dumps : ~alive[d] /\ (d # stopping => thread_running'[d] = thread_running[d])
    BY <1>0, <1>a, <2>1 DEF DumpInv, RunInv, ThreadInv
  <2>6. shutdown[stopping]
    BY <2>1 DEF DumpInv, StartedInv
  <2>7. GilInv' /\ ThreadInv' /\ RunInv' /\ ApiInv'
    BY <1>0, <1>a, <2>1, <2>2, <2>4, <2>5 DEF DumpInv, GilInv, ThreadInv, RunInv, ApiInv
  <2>8. StartedInv'
    BY <1>0, <1>a, <2>1, <2>2, <2>5, <2>6 DEF DumpInv, StartedInv
  <2> QED
    BY <2>3, <2>7, <2>8 DEF DumpInv
<1>3. CASE ProcessRemaining
  <2>1. /\ UNCHANGED <<dumps, gil, stopping, started>>
        /\ phase \in {"drain", "close"} /\ phase' \in {"drain", "close"}
    BY <1>3 DEF ProcessRemaining
  <2>2. \A t \in Threads \ {Api} : pc'[t] = pc[t]
    BY <1>3, Roles, ConsumerSteps DEF ProcessRemaining
  <2>3. DumpTypeOK'
    BY <1>0, <2>1, DumpTypes DEF DumpInv, DumpTypeOK, dumps
  <2>4. GilInv' /\ ThreadInv' /\ RunInv' /\ ApiInv' /\ StartedInv'
    BY <1>0, <2>1, <2>2, Roles DEF DumpInv, GilInv, ThreadInv, RunInv, ApiInv, StartedInv, dumps
  <2> QED
    BY <2>3, <2>4 DEF DumpInv
<1>4. CASE CloseOutput
  <2>1. /\ UNCHANGED <<pc, trace_dump, created, thread_running, shutdown, alive, gil, stopping, started>>
        /\ phase = "close" /\ pc[Api] = "load" /\ phase' = "return"
        /\ open' = [open EXCEPT ![stopping] = FALSE]
    BY <1>4 DEF CloseOutput, vars
  <2>2. DumpTypeOK'
    <3>1. open' \in [Dumps -> BOOLEAN]
      BY <1>0, <1>a, <2>1
    <3> QED
      BY <1>0, <2>1, <3>1, DumpTypes DEF DumpInv, DumpTypeOK
  <2>3. \A d \in Dumps : ~thread_running[d] /\ pc[d] = "load"
    BY <2>1 DEF DumpInv, RunInv, ThreadInv
  <2>4. GilInv' /\ ThreadInv' /\ RunInv' /\ ApiInv'
    BY <1>0, <2>1, <2>3 DEF DumpInv, GilInv, ThreadInv, RunInv, ApiInv
  <2>5. StartedInv'
    BY <1>a, <2>1, <2>3 DEF DumpInv, StartedInv
  <2> QED
    BY <2>2, <2>4, <2>5 DEF DumpInv
<1>5. CASE DropDump \/ StopReturns
  <2>1. /\ UNCHANGED <<pc, created, thread_running, shutdown, open, alive, started>> /\ phase = "return"
        /\ \/ phase' = "stop" /\ UNCHANGED <<gil, stopping>> /\ trace_dump' = Nobody
           \/ phase' = "idle" /\ gil' = Nobody /\ stopping' = Nobody /\ trace_dump' = trace_dump
    BY <1>5 DEF DropDump, StopReturns, GilReleased, vars, dumps
  <2>2. \A d \in Dumps : ~thread_running[d]
    BY <2>1 DEF DumpInv, RunInv
  <2>3. DumpTypeOK'
    BY <1>0, <1>a, <2>1, Roles, DumpTypes DEF DumpInv, DumpTypeOK
  <2>4. GilInv' /\ ThreadInv' /\ RunInv' /\ ApiInv' /\ StartedInv'
    BY <1>0, <1>a, <2>1, <2>2, Roles DEF DumpInv, GilInv, ThreadInv, RunInv, ApiInv, StartedInv
  <2> QED
    BY <2>3, <2>4 DEF DumpInv
<1> QED
  BY <1>1, <1>2, <1>3, <1>4, <1>5 DEF FinishStop

(* Every step of the program keeps the invariant.                          *)
LEMMA NextDumpInv == TypeOK /\ DumpInv /\ [DumpNext]_dumpVars => DumpInv'
<1> SUFFICES ASSUME TypeOK, DumpInv, [DumpNext]_dumpVars PROVE DumpInv'
  OBVIOUS
<1>1. CASE UNCHANGED dumpVars
  BY <1>1 DEF dumpVars, vars, dumps, call, DumpInv, DumpTypeOK, GilInv, ThreadInv, RunInv, ApiInv,
    StartedInv
<1> QED
  BY <1>1, PushKeepsDumps, ThreadKeepsDumps, CallsKeepDumps, StopKeepsDumps DEF DumpNext

(* The invariant holds together with the type invariant of the ring.       *)
LEMMA DumpInductive == DumpSpec => []DumpInv
<1>1. DumpSpec => []TypeOK
  BY DumpsUseRing, TypeCorrect, PTL
<1> QED
  BY <1>1, InitDumpInv, NextDumpInv, PTL DEF DumpSpec

-----------------------------------------------------------------------------
(* One consumer at a time.                                                 *)

(* At most one of the dump threads and the API thread is in pop.           *)
LEMMA TakeTurns == DumpInv => SingleConsumer
<1> SUFFICES ASSUME DumpInv, NEW c \in Consumers, NEW e \in Consumers, pc[c] # "load", pc[e] # "load"
             PROVE  c = e
  BY DEF SingleConsumer
<1>1. \A d \in Dumps : pc[d] # "load" =>
        \/ phase = "idle" /\ d = trace_dump
        \/ phase \in {"stop", "join"} /\ d = stopping
  BY DEF DumpInv, ThreadInv, RunInv
<1>2. pc[Api] # "load" => phase \in {"drain", "close"}
  BY DEF DumpInv, ApiInv
<1> QED
  BY <1>1, <1>2, DumpsAssumption

(* The state of the dumps keeps its type, and the API thread has the GIL   *)
(* exactly while it is in stop().                                          *)
THEOREM DumpTypeCorrect == DumpSpec => []DumpTypeOK
<1>1. DumpInv => DumpTypeOK
  BY DEF DumpInv
<1> QED
  BY <1>1, DumpInductive, PTL

(* pop, written for one consumer, has one at a time, however dumps are     *)
(* created, started, replaced, stopped and dropped.                        *)
THEOREM OneConsumerAtATime == DumpSpec => []SingleConsumer
BY TakeTurns, DumpInductive, PTL

(* No thread writes to a handle or socket that stop() has closed: not the  *)
(* thread of a dump that was started before its stop(), and not the drain. *)
THEOREM NeverDumpsToClosed == DumpSpec => []HandleOpenWhileDumping
<1>1. DumpInv => HandleOpenWhileDumping
  BY DumpTypes DEF DumpInv, StartedInv, ApiInv, HandleOpenWhileDumping
<1> QED
  BY <1>1, DumpInductive, PTL

(* So the program is a ring buffer with one consumer at a time.            *)
LEMMA DumpsPopInTurn == DumpSpec => Spec /\ []OnePops
<1>1. DumpInv => OnePops
  BY TakeTurns DEF SingleConsumer, OnePops
<1> QED
  BY <1>1, DumpInductive, DumpsUseRing, PTL

(* The dump threads, the API calls and the profile function together       *)
(* implement the bounded lossy channel: across replaced dumps, and the     *)
(* drain of stop(), no message is written twice or made up.                *)
THEOREM DumpsImplementChannel == DumpSpec => ImplementsChannel
BY DumpsUseRing, RingImplementsChannel, PTL

(* A pop of theirs that fails found the ring empty, unless messages were   *)
(* lost: the hand-over from thread to draining caller leaves none behind.  *)
THEOREM DumpsPopFailsWhenEmpty == DumpSpec => EmptyWhenPopFails
BY DumpsPopInTurn, FailedPopMeansEmpty, PTL

(* The dumps never report more losses than there were overruns.            *)
THEOREM DumpsNeverOverreport == DumpSpec => []OverflowsNotOverreported
BY DumpsPopInTurn, NeverOverreported, PTL

(* Across dumps that replace each other the messages come out whole and in *)
(* push order, as long as nothing is lost and nobody is a round behind.    *)
THEOREM DumpsFifo == DumpSpec => []FifoUnlessLapped
BY DumpsPopInTurn, DeliveredFifo, PTL

-----------------------------------------------------------------------------
(* The drain of stop().                                                    *)

(* While the API thread has the GIL and finds the tail empty, everything   *)
(* that was not lost is out.                                               *)
LEMMA EmptyMeansDrained ==
  ASSUME RingInv, OneConsumerInv, lost = {}, AllIdle, Copied = {}, ~has_data[tail]
  PROVE  Len(popped) = pushes
<1> DEFINE delivered == {popped[k][1] : k \in DOMAIN popped}
<1>1. Occupied = {}
  BY EmptyAtTail DEF RingInv, OneConsumerInv
<1>2. Buffered = {} /\ Waiting = {}
  BY <1>1 DEF Buffered, Waiting, AllIdle
<1>3. Conservation /\ pushes \in Nat
  BY PlacesConserved, BoundsAssumption DEF RingInv, IndInv, LockPart, TypeOK
<1>4. /\ Waiting \cup Buffered \cup lost \cup delivered = 0..(pushes - 1)
      /\ Cardinality(delivered) = Len(popped)
  BY <1>3, Conserved
<1>5. delivered = 0..(pushes - 1)
  BY <1>2, <1>4
<1>6. Cardinality(0..(pushes - 1)) = pushes
  BY <1>3, FS_Interval
<1> QED
  BY <1>4, <1>5, <1>6

(* A step of stop() that is not the drain, or a step of somebody else,     *)
(* enters the close phase only from itself.                                *)
LEMMA DrainStep ==
  ASSUME RingInv, OneConsumerInv, DumpInv, DrainInv, [DumpNext]_dumpVars
  PROVE  DrainInv'
<1> SUFFICES ASSUME phase' = "close" PROVE pc'[Api] = "load" /\ (lost' = {} => Len(popped') = pushes')
  BY DEF DrainInv
<1>0. TypeOK
  BY DEF RingInv, IndInv, LockPart
<1>1. ASSUME UNCHANGED vars, phase = "close" PROVE pc'[Api] = "load" /\ (lost' = {} => Len(popped') = pushes')
  BY <1>1 DEF vars, history, DrainInv
<1>2. CASE ProcessRemaining
  <2>1. gil = Api /\ AllIdle
    BY <1>2, DumpTypes, Roles DEF ProcessRemaining, DumpInv, GilInv, AllIdle
  <2>2. phase = "drain"
    BY <1>2 DEF ProcessRemaining, DrainInv
  <2>3. ApiPopFails /\ PopAndProcess(Api)
    BY <1>2, <2>2 DEF ProcessRemaining
  <2>4. pc[Api] = "test" /\ ~has_data[tail]
    <3>1. pc[Api] = "recheck" => slot[Api] = tail /\ has_data[tail]
      BY Roles DEF OneConsumerInv, TailInv
    <3> QED
      BY <2>3, <3>1 DEF ApiPopFails, TailHasData
  <2>5. PopTest(Api)
    BY <2>3, <2>4 DEF PopAndProcess, LoadOverflow, ResetOverflow, WriteBackOverflow, LockElement, SpinElement, CountWait,
      PopCopy, PopRecycle, PopUnlock
  <2>6. pc'[Api] = "load" /\ UNCHANGED <<lost, popped, pushes>>
    BY <1>0, <2>4, <2>5, Roles DEF PopTest, TailHasData, Goto, TypeOK, history
  <2>7. Copied = {}
    BY <2>4, TakeTurns, Roles DEF SingleConsumer, Copied
  <2> QED
    BY <2>1, <2>4, <2>6, <2>7, EmptyMeansDrained
<1>3. ASSUME NEW p \in Producers, BeginPush(p) \/ FinishPushing(p) PROVE FALSE
  <2>1. phase = "close" /\ gil = Api
    BY <1>3, DumpTypes DEF BeginPush, FinishPushing, Reserving, Formatting, EndPush, call, DumpInv
  <2>2. gil \in {p, Nobody} \/ FinishPush(p)
    BY <1>3 DEF BeginPush, FinishPushing, Reserving, Formatting, EndPush, FinishPush
  <2>3. FinishPush(p) => pc[p] # "idle"
    BY DEF FinishPush, ReserveMaskHead, LockElement, SpinElement, CountWait, ReserveTake,
      ReserveOverrun, ReserveCountOverflow, ReserveCountResettable, WritePrefix, WriteArgs, CommitPush
  <2> QED
    BY <2>1, <2>2, <2>3, Roles DEF DumpInv, GilInv
<1>4. ASSUME NEW d \in Dumps, ThreadStep(d) PROVE FALSE
  <2>1. phase = "close" /\ alive[d]
    BY <1>4 DEF ThreadStep, call
  <2> QED
    BY <2>1 DEF DumpInv, ThreadInv, RunInv
<1>5. ASSUME NEW d \in Dumps, ThreadExit(d) PROVE UNCHANGED vars /\ phase = "close"
  BY <1>5 DEF ThreadExit, call
<1>6. ASSUME SetTracing \/ UnsetTracing \/ Stop \/ \E d \in Dumps : TracingOutputTo(d) PROVE FALSE
  BY <1>6 DEF SetTracing, UnsetTracing, Stop, TracingOutputTo, CallBegins, BeginStop, call
<1>7. ASSUME ShutdownThread \/ JoinThread \/ CloseOutput \/ DropDump \/ StopReturns PROVE FALSE
  BY <1>7 DEF ShutdownThread, JoinThread, CloseOutput, DropDump, StopReturns, AfterShutdown
<1>8. CASE UNCHANGED dumpVars
  BY <1>1, <1>8 DEF dumpVars, call
<1> QED
  BY <1>1, <1>2, <1>3, <1>4, <1>5, <1>6, <1>7, <1>8 DEF DumpNext, RunThread, FinishStop

(* The drain has emptied the ring whenever the output is about to close.   *)
LEMMA DrainInductive == DumpSpec => []DrainInv
<1>1. DumpSpec => []RingInv /\ []OneConsumerInv
  BY DumpsPopInTurn, RingInductive, OneConsumerInductive, PTL
<1>2. RingInv /\ OneConsumerInv /\ DumpInv /\ DrainInv /\ [DumpNext]_dumpVars => DrainInv'
  BY DrainStep
<1> QED
  BY <1>1, <1>2, InitDumpInv, DumpInductive, PTL DEF DumpSpec

(* When stop() closes the file or the socket, every push that was not lost *)
(* to an overrun has been copied out of the ring.                          *)
THEOREM StopDrains == DumpSpec => DrainedAtClose
<1>1. ASSUME DumpInv, DrainInv, [DumpNext]_dumpVars
      PROVE  [\A d \in Dumps : open[d] /\ ~open'[d] /\ lost = {} => Len(popped) = pushes]_dumpVars
  <2> SUFFICES ASSUME NEW d \in Dumps, open[d], ~open'[d], lost = {} PROVE Len(popped) = pushes
    OBVIOUS
  <2>1. CASE CloseOutput
    BY <1>1, <2>1 DEF CloseOutput, DrainInv
  <2>2. CASE open' = open
    BY <2>2
  <2>3. CloseOutput \/ open' = open
    BY <1>1 DEF DumpNext, BeginPush, FinishPushing, Reserving, Formatting, EndPush, RunThread,
      ThreadStep, ThreadExit, TracingOutputTo, SetTracing, UnsetTracing, Stop, FinishStop,
      ShutdownThread, JoinThread, ProcessRemaining, DropDump, StopReturns, dumps, dumpVars
  <2> QED
    BY <2>1, <2>2, <2>3
<1> QED
  BY <1>1, DumpInductive, DrainInductive, PTL DEF DumpSpec, DrainedAtClose
=============================================================================
