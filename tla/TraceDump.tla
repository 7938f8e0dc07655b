----------------------------- MODULE TraceDump ------------------------------
(***************************************************************************)
(* The dump threads of trace_dump.cpp on the ring buffer, and the Python   *)
(* calls that create, start and stop them (__init__.py,                    *)
(* ctracing_trace_dump.pyx).                                               *)
(*                                                                         *)
(* The consumers of the ring buffer are the thread of each dump and Api,   *)
(* the Python thread that calls the API: stop() drains the ring buffer in  *)
(* the calling thread.  Python threads, the producers among them, run with *)
(* the GIL; the dump threads never take it.                                *)
(***************************************************************************)
EXTENDS TraceMessageRingBuffer

CONSTANTS
  Dumps,        \* TraceDump objects the program may create
  Api,          \* the thread that calls the API
  CloseHandle,  \* the dumps that own their output: files and syslog sockets
  Nobody        \* no thread, no dump

ASSUME DumpsAssumption ==
  /\ Consumers = Dumps \cup {Api}
  /\ Api \notin Dumps
  /\ CloseHandle \subseteq Dumps
  /\ Nobody \notin Threads

VARIABLES
  trace_dump,      \* the module variable of __init__.py
  created,         \* TraceDump objects created
  thread_running,  \* thread_running of each dump
  shutdown,        \* shutdown of each dump
  open,            \* handle or socket of each dump is not NULL
  alive,           \* the thread of each dump exists
  gil,             \* the thread that has the GIL
  stopping,        \* the dump whose stop() the API thread is in
  phase,           \* how far that stop() is
  deallocates,     \* unset_tracing goes on to drop the dump it stopped
  started          \* history: dumps whose start() came before their stop()

dumps == <<trace_dump, created, thread_running, shutdown, open, alive>>
call == <<stopping, phase, deallocates>>
dumpVars == <<vars, dumps, gil, call, started>>

DumpInit ==
  /\ Init
  /\ trace_dump = Nobody
  /\ created = {}
  /\ thread_running = [d \in Dumps |-> FALSE]
  /\ shutdown = [d \in Dumps |-> FALSE]
  /\ open = [d \in Dumps |-> TRUE]
  /\ alive = [d \in Dumps |-> FALSE]
  /\ gil = Nobody
  /\ stopping = Nobody
  /\ phase = "idle"
  /\ deallocates = FALSE
  /\ started = {}

-----------------------------------------------------------------------------
(* Faults, each before the definition it is a fault of.                    *)

(* The profile function runs with the GIL from reserve_push on; fault:     *)
(* without, so that "with gil" has to acquire it in the middle of a push   *)
GilNotHeld(p) == Nobody
GilInPush(p) == p

(* start() sets thread_running; fault: and clears shutdown                 *)
StartCleared(d) == shutdown' = [shutdown EXCEPT ![d] = FALSE]
StartKeepsShutdown(d) == UNCHANGED shutdown

(* mint_thread_join returns when the thread has ended; fault: at once      *)
JoinNoWait(d) == TRUE
Joined(d) == ~alive[d]

(* What stop() does after shutdown_thread(); fault: it closes the handle   *)
(* without process_remaining()                                             *)
AfterShutdownCloses(d) == IF d \in CloseHandle /\ open[d] THEN "close" ELSE "return"
AfterShutdown(d) == IF d \in CloseHandle /\ open[d] THEN "drain" ELSE "return"

(* The API call returns to the interpreter; fault: it keeps the GIL        *)
GilKept == Api
GilReleased == Nobody

-----------------------------------------------------------------------------
(* Python threads that push.                                               *)

(* A profile event or PyWriter.write: the thread has the GIL               *)
BeginPush(p) ==
  /\ gil = Nobody
  /\ gil' = GilInPush(p)
  /\ ReserveIncHead(p)
  /\ UNCHANGED <<dumps, call, started>>

(* the steps of reserve_push                                               *)
Reserving(p) ==
  /\ \/ ReserveMaskHead(p)
     \/ LockElement(p)
     \/ SpinElement(p)
     \/ CountWait(p)
     \/ ReserveTake(p)
     \/ ReserveOverrun(p)
     \/ ReserveCountOverflow(p)
     \/ ReserveCountResettable(p)
  /\ UNCHANGED <<dumps, gil, call, started>>

(* "with gil": the GIL is acquired unless the thread has it                *)
Formatting(p) ==
  /\ gil \in {p, Nobody}
  /\ gil' = p
  /\ WritePrefix(p) \/ WriteArgs(p)
  /\ UNCHANGED <<dumps, call, started>>

EndPush(p) ==
  /\ CommitPush(p)
  /\ gil' = Nobody
  /\ UNCHANGED <<dumps, call, started>>

-----------------------------------------------------------------------------
(* Dump threads: thread_func.                                              *)

(* while (!shutdown) pop_and_process(); the sleep after a failed pop has   *)
(* no effect here                                                          *)
ThreadStep(d) ==
  /\ alive[d]
  /\ pc[d] = "load" => ~shutdown[d]
  /\ PopAndProcess(d)
  /\ UNCHANGED <<dumps, gil, call, started>>

ThreadExit(d) ==
  /\ alive[d]
  /\ pc[d] = "load"
  /\ shutdown[d]
  /\ alive' = [alive EXCEPT ![d] = FALSE]
  /\ UNCHANGED <<vars, trace_dump, created, thread_running, shutdown, open, gil, call,
                 started>>

-----------------------------------------------------------------------------
(* The Python API.                                                         *)

CallBegins == phase = "idle" /\ gil = Nobody

(* stop() of d begins, with the GIL held until the call returns            *)
BeginStop(d, drop) ==
  /\ gil' = Api
  /\ stopping' = d
  /\ phase' = "stop"
  /\ deallocates' = drop

(* tracing_output_to_file, _stdout, _stderr, _syslog: a new dump replaces  *)
(* the old one, whose destructor calls stop()                              *)
TracingOutputTo(d) ==
  /\ CallBegins
  /\ d \notin created
  /\ created' = created \cup {d}
  /\ trace_dump' = d
  /\ IF trace_dump = Nobody THEN UNCHANGED <<gil, call>> ELSE BeginStop(trace_dump, FALSE)
  /\ UNCHANGED <<vars, thread_running, shutdown, open, alive, started>>

(* set_tracing, PyWriter.start: start() creates the thread unless it runs  *)
SetTracing ==
  /\ CallBegins
  /\ trace_dump # Nobody
  /\ ~thread_running[trace_dump]
  /\ alive' = [alive EXCEPT ![trace_dump] = TRUE]
  /\ thread_running' = [thread_running EXCEPT ![trace_dump] = TRUE]
  /\ StartKeepsShutdown(trace_dump)
  /\ started' = IF open[trace_dump] THEN started \cup {trace_dump} ELSE started
  /\ UNCHANGED <<vars, trace_dump, created, open, gil, call>>

(* unset_tracing: trace_dump.stop(); trace_dump = None                     *)
UnsetTracing ==
  /\ CallBegins
  /\ trace_dump # Nobody
  /\ BeginStop(trace_dump, TRUE)
  /\ UNCHANGED <<vars, dumps, started>>

(* PyTraceDump.stop and PyWriter.stop: the object stays                    *)
Stop ==
  /\ CallBegins
  /\ trace_dump # Nobody
  /\ BeginStop(trace_dump, FALSE)
  /\ UNCHANGED <<vars, dumps, started>>

-----------------------------------------------------------------------------
(* FileTraceDump::stop and SyslogTraceDump::stop, step by step.            *)

(* shutdown_thread up to the join                                          *)
ShutdownThread ==
  /\ phase = "stop"
  /\ IF thread_running[stopping]
     THEN shutdown' = [shutdown EXCEPT ![stopping] = TRUE] /\ phase' = "join"
     ELSE phase' = AfterShutdown(stopping) /\ UNCHANGED shutdown
  /\ UNCHANGED <<vars, trace_dump, created, thread_running, open, alive, gil,
                 stopping, deallocates, started>>

(* mint_thread_join returns                                                *)
JoinThread ==
  /\ phase = "join"
  /\ Joined(stopping)
  /\ thread_running' = [thread_running EXCEPT ![stopping] = FALSE]
  /\ phase' = AfterShutdown(stopping)
  /\ UNCHANGED <<vars, trace_dump, created, shutdown, open, alive, gil,
                 stopping, deallocates, started>>

(* The step of pop by which the API thread learns that there is no message *)
ApiPopFails ==
  \/ pc[Api] = "test" /\ ~TailHasData
  \/ pc[Api] = "recheck" /\ ~has_data[slot[Api]]

(* process_remaining: pop_and_process in the calling thread until it fails *)
ProcessRemaining ==
  /\ phase = "drain" \/ (phase = "close" /\ pc[Api] # "load")
  /\ PopAndProcess(Api)
  /\ phase' = IF ApiPopFails THEN "close" ELSE phase
  /\ UNCHANGED <<dumps, gil, stopping, deallocates, started>>

(* fclose(handle), handle = NULL; for syslog the socket                    *)
CloseOutput ==
  /\ phase = "close"
  /\ pc[Api] = "load"
  /\ open' = [open EXCEPT ![stopping] = FALSE]
  /\ phase' = "return"
  /\ UNCHANGED <<vars, trace_dump, created, thread_running, shutdown, alive, gil,
                 stopping, deallocates, started>>

(* stop() returns: unset_tracing drops the last reference, and the         *)
(* destructor calls stop() again                                           *)
DropDump ==
  /\ phase = "return"
  /\ deallocates
  /\ trace_dump' = Nobody
  /\ phase' = "stop"
  /\ deallocates' = FALSE
  /\ UNCHANGED <<vars, created, thread_running, shutdown, open, alive, gil, stopping, started>>

(* the API call returns                                                    *)
StopReturns ==
  /\ phase = "return"
  /\ ~deallocates
  /\ phase' = "idle"
  /\ stopping' = Nobody
  /\ gil' = GilReleased
  /\ UNCHANGED <<vars, dumps, deallocates, started>>

FinishPushing(p) == Reserving(p) \/ Formatting(p) \/ EndPush(p)
RunThread(d) == ThreadStep(d) \/ ThreadExit(d)
FinishStop ==
  \/ ShutdownThread
  \/ JoinThread
  \/ ProcessRemaining
  \/ CloseOutput
  \/ DropDump
  \/ StopReturns

DumpNext ==
  \/ \E p \in Producers : BeginPush(p) \/ FinishPushing(p)
  \/ \E d \in Dumps : RunThread(d)
  \/ \E d \in Dumps : TracingOutputTo(d)
  \/ SetTracing
  \/ UnsetTracing
  \/ Stop
  \/ FinishStop

DumpSpec == DumpInit /\ [][DumpNext]_dumpVars

(* Threads in the middle of a push, of thread_func or of stop() keep       *)
(* running; nothing makes the program call the API or push.                *)
DumpFairness ==
  /\ \A p \in Producers : WF_dumpVars(FinishPushing(p))
  /\ \A d \in Dumps : WF_dumpVars(RunThread(d))
  /\ WF_dumpVars(FinishStop)

DumpFairSpec == DumpSpec /\ DumpFairness

-----------------------------------------------------------------------------
(* Properties.                                                             *)

(* The state of the dumps and of the API call; in particular the GIL is    *)
(* the API thread's exactly while it is in stop().                         *)
DumpTypeOK ==
  /\ trace_dump \in created \cup {Nobody}
  /\ created \subseteq Dumps
  /\ {thread_running, shutdown, open, alive} \subseteq [Dumps -> BOOLEAN]
  /\ gil \in Producers \cup {Api, Nobody}
  /\ stopping \in created \cup {Nobody}
  /\ phase \in {"idle", "stop", "join", "drain", "close", "return"}
  /\ gil = Api <=> phase # "idle"
  /\ stopping = Nobody <=> phase = "idle"

(* pop is written for a single consumer: at most one thread is in it,      *)
(* whatever dumps replace each other and whoever drains the ring buffer.   *)
SingleConsumer ==
  \A c, e \in Consumers : pc[c] # "load" /\ pc[e] # "load" => c = e

(* No thread processes messages for a dump whose handle or socket is NULL: *)
(* stop() closes the output only after the thread has ended, and a dump    *)
(* that was started, stopped and started again has shutdown still set, so  *)
(* that its new thread ends at once.  (A dump stopped before its first     *)
(* start is closed without shutdown being set; its thread would write.)    *)
HandleOpenWhileDumping ==
  /\ \A d \in started : pc[d] # "load" => open[d]
  /\ pc[Api] # "load" => open[stopping]

(* stop() of a file or syslog dump leaves no message behind: when the      *)
(* output is closed every committed push is out, unless an overrun came    *)
(* in between.                                                             *)
DrainedAtClose ==
  [][\A d \in Dumps : open[d] /\ ~open'[d] /\ lost = {} => Len(popped) = pushes]_dumpVars

(* stop() returns: the join, which keeps the GIL, does not wait for a dump *)
(* thread that spins on a slot whose producer waits for the GIL.           *)
StopTerminates == phase # "idle" ~> phase = "idle"

(* As long as a dump that was never stopped runs, every push is dumped or  *)
(* an overrun is counted.                                                  *)
RunningDumpDelivers ==
  \A n \in 0..(MaxPushes - 1) : \A d \in Dumps :
    (n < pushes /\ alive[d])
      ~> (shutdown[d] \/ lost # {} \/ \E k \in DOMAIN popped : DeliveredSeq[k] = n)
=============================================================================
