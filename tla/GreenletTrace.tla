--------------------------- MODULE GreenletTrace ----------------------------
(***************************************************************************)
(* greenlet_trace_func of ctracing.pyx, the profile function, in one       *)
(* thread with several greenlets, and the per-thread and per-greenlet      *)
(* storage of thread_storage.h it keeps.                                   *)
(*                                                                         *)
(* The interpreter is the environment: it calls and returns from           *)
(* functions, switches greenlets and reuses the addresses of dead frames.  *)
(* Call and Return are one action each, with the profile function run in   *)
(* them when it is installed: the interpreter holds the GIL throughout and *)
(* the storage belongs to the thread.                                      *)
(***************************************************************************)
EXTENDS Integers, Sequences, FiniteSets

CONSTANTS
  Greenlets,     \* greenlets of the thread
  Word,          \* the sizeof(int) bytes of a gid that gid_map compares
  Main,          \* the one the thread starts in, parent of the others
  Funcs,         \* code objects
  FilterResult,  \* what filter_func returns for a code object
  Addresses,     \* memory for frames; an address is reused when its frame dies
  MaxDepth,      \* bound on the frames of one greenlet
  MaxSuspends,   \* bound on suspend() calls not yet resumed
  MaxUnsets      \* bound on unset_tracing() calls

NO_TRACE == 0
NO_TRACE_NESTED == 1
TRACE_FUNC_NAME == 2
TRACE_FUNC_PRIMITIVES == 3
TRACE_FUNC_REPR == 4
NO_TRACE_FROM_DEPTH_DISABLED == 314159

NULL == 0
NoGid == -1

ASSUME GreenletsAssumption == Main \in Greenlets /\ IsFiniteSet(Greenlets)
ASSUME FilterAssumption == FilterResult \in [Funcs -> NO_TRACE..TRACE_FUNC_REPR]
ASSUME AddressesAssumption == NULL \notin Addresses
ASSUME DepthAssumption ==
  /\ MaxDepth \in 1..(NO_TRACE_FROM_DEPTH_DISABLED - 1)
  /\ MaxSuspends \in Nat
  /\ MaxUnsets \in Nat

VARIABLES
  profiling,      \* greenlet_trace_func is installed
  current,        \* the running greenlet
  stack,          \* frames of each greenlet: address, code; history: depth and
                  \* nested, what the profile function decided at its CALL
  enabled,        \* tstore.enabled
  last_frame,     \* tstore.last_frame
  last_gid,       \* tstore.last_gid
  last_gstorage,  \* tstore.last_gstorage
  gstorage,       \* the GreenletStorage objects allocated, gid_map's values
  suspended,      \* history: suspend() was called
  unsets          \* history: number of unset_tracing() calls

interpreter == <<current, stack>>
tstore == <<last_frame, last_gid, last_gstorage>>
vars == <<profiling, interpreter, enabled, tstore, gstorage, suspended, unsets>>

(* Addresses of GreenletStorage objects: gid_map has at most one for each  *)
(* greenlet.                                                               *)
Storages == 1..Cardinality(Greenlets)

NotSeen == -1

Init ==
  /\ profiling = FALSE
  /\ current = Main
  /\ stack = [g \in Greenlets |-> <<>>]
  /\ enabled = 1
  /\ last_frame = NULL
  /\ last_gid = NoGid
  /\ last_gstorage = NULL
  /\ gstorage = <<>>
  /\ suspended = FALSE
  /\ unsets = 0

-----------------------------------------------------------------------------
(* The lookups of ctracing.pyx and thread_storage.h.  A fault of a         *)
(* definition stands before it.                                            *)

(* The cached greenlet is used when the caller (on RETURN the returning    *)
(* frame) is the frame last seen; fault: when any frame was seen.          *)
CacheHitAlways(frame) == last_frame # NULL
CacheHit(frame) == last_frame # NULL /\ last_frame = frame

(* find_gstorage: HASH_FIND_INT compares an int of the gid, which is a     *)
(* long, so that greenlets with the same word have one storage             *)
Found(gid) == {s \in DOMAIN gstorage : Word[gstorage[s].gid] = Word[gid]}

(* new_gstorage: malloc hands out some free address                        *)
FreeStorage == CHOOSE s \in Storages : s \notin DOMAIN gstorage

(* calc_new_greenlet_depth: the number of frames below the frame           *)
NewGStore(gid, ancestors) ==
  [gid |-> gid, depth |-> ancestors, no_trace_from_depth |-> NO_TRACE_FROM_DEPTH_DISABLED]

(* get_gstore_on_call / get_gstore_on_return: the address of the storage   *)
GStore(frame) ==
  IF CacheHit(frame) THEN last_gstorage
  ELSE IF Found(current) # {} THEN CHOOSE s \in Found(current) : TRUE
  ELSE FreeStorage

(* inc before use on CALL, dec after use on RETURN; fault: dec before use  *)
EventDepthDecFirst(what, depth) == IF what = "CALL" THEN depth + 1 ELSE depth - 1
EventDepth(what, depth) == IF what = "CALL" THEN depth + 1 ELSE depth

(* tstore.last_frame after a RETURN; fault: it stays at the frame          *)
LastFrameStays(frame, f_back) == frame
LastFrameOnReturn(frame, f_back) == f_back

(* depth <= gstore.no_trace_from_depth; fault: off by one                  *)
PassesOffByOne(depth, from) == depth <= from + 1
Passes(depth, from) == depth <= from

(* no_trace_from_depth after a filter decision; fault: never reset         *)
NoTraceFromKept(level, depth, from) == IF level = NO_TRACE_NESTED THEN depth ELSE from
NoTraceFrom(level, depth, from) ==
  IF level = NO_TRACE_NESTED THEN depth ELSE NO_TRACE_FROM_DEPTH_DISABLED

(* the frame of a RETURN is the first of its greenlet; fault: never        *)
OutermostNever(what, f_back) == FALSE
Outermost(what, f_back) == what = "RETURN" /\ f_back = NULL

(* greenlet_trace_func for the frame of code func at address frame, called *)
(* from f_back with that many ancestors: what it decides.  A cached storage *)
(* that was freed is recorded as dangling and taken for a new one.         *)
Event(what, frame, func, f_back, ancestors) ==
  LET key == IF what = "CALL" THEN f_back ELSE frame
      gid == IF CacheHit(key) THEN last_gid ELSE current
      s == GStore(key)
      live == s \in DOMAIN gstorage
      before == IF live THEN gstorage[s] ELSE NewGStore(gid, ancestors)
      depth == EventDepth(what, before.depth)
      asked == enabled > 0 /\ Passes(depth, before.no_trace_from_depth)
      level == IF asked THEN FilterResult[func] ELSE NO_TRACE
  IN [gid |-> gid, storage |-> s, dangling |-> CacheHit(key) /\ ~live,
      owner |-> before.gid, depth |-> depth, asked |-> asked, level |-> level,
      logged |-> level \notin {NO_TRACE, NO_TRACE_NESTED},
      frame |-> IF what = "CALL" THEN frame ELSE LastFrameOnReturn(frame, f_back),
      after |-> [before EXCEPT
                   !.depth = IF what = "CALL" THEN depth ELSE before.depth - 1,
                   !.no_trace_from_depth = IF asked THEN NoTraceFrom(level, depth, @) ELSE @],
      ends |-> Outermost(what, f_back)]

(* What it leaves behind                                                   *)
TraceFunc(e) ==
  LET kept == IF e.ends THEN DOMAIN gstorage \ {e.storage} ELSE DOMAIN gstorage \cup {e.storage}
  IN /\ last_gid' = e.gid
     /\ last_frame' = e.frame
     /\ last_gstorage' = e.storage
     /\ gstorage' = [t \in kept |-> IF t = e.storage THEN e.after ELSE gstorage[t]]

-----------------------------------------------------------------------------
(* The interpreter.                                                        *)

Top == stack[current][Len(stack[current])]

CallerAddress == IF stack[current] = <<>> THEN NULL ELSE Top.addr

(* f_back of the running frame                                             *)
BackAddress ==
  IF Len(stack[current]) = 1 THEN NULL ELSE stack[current][Len(stack[current]) - 1].addr

InUse(a) == \E g \in Greenlets : \E i \in DOMAIN stack[g] : stack[g][i].addr = a

InPython == stack[current] # <<>>

CallEvent(func, a) == Event("CALL", a, func, CallerAddress, Len(stack[current]))
ReturnEvent == Event("RETURN", Top.addr, Top.func, BackAddress, Len(stack[current]) - 1)

(* The running greenlet calls func, whose frame is put at address a.       *)
Call(func, a) ==
  LET e == CallEvent(func, a)
  IN /\ Len(stack[current]) < MaxDepth
     /\ ~InUse(a)
     /\ IF profiling THEN TraceFunc(e) ELSE UNCHANGED <<tstore, gstorage>>
     /\ stack' = [stack EXCEPT ![current] =
                    Append(@, [addr |-> a, func |-> func,
                               depth |-> IF profiling THEN e.depth ELSE NotSeen,
                               nested |-> profiling /\ e.level = NO_TRACE_NESTED])]
     /\ UNCHANGED <<profiling, current, enabled, suspended, unsets>>

(* The running frame returns; a greenlet that ends passes control to its   *)
(* parent.                                                                 *)
Return ==
  /\ InPython
  /\ IF profiling THEN TraceFunc(ReturnEvent) ELSE UNCHANGED <<tstore, gstorage>>
  /\ stack' = [stack EXCEPT ![current] = SubSeq(@, 1, Len(@) - 1)]
  /\ current' = IF Len(stack[current]) = 1 THEN Main ELSE current
  /\ UNCHANGED <<profiling, enabled, suspended, unsets>>

(* The thread ends and the ThreadStorage is deleted with what is left in   *)
(* its gid_map, that of greenlets that never finished included.  Another   *)
(* thread starts without a profile function and gets a new one.            *)
ThreadExit ==
  /\ current = Main
  /\ ~InPython
  /\ profiling' = FALSE
  /\ stack' = [g \in Greenlets |-> <<>>]
  /\ enabled' = 1
  /\ last_frame' = NULL
  /\ last_gid' = NoGid
  /\ last_gstorage' = NULL
  /\ gstorage' = <<>>
  /\ suspended' = FALSE
  /\ unsets' = 0
  /\ UNCHANGED current

(* greenlet.switch(): a C call, which the profile function ignores         *)
Switch(g) ==
  /\ g # current
  /\ InPython
  /\ current' = g
  /\ UNCHANGED <<profiling, stack, enabled, tstore, gstorage, suspended, unsets>>

(* ctracing_set_profile, like the three below called from a Python frame   *)
SetProfile ==
  /\ InPython
  /\ ~profiling
  /\ profiling' = TRUE
  /\ UNCHANGED <<interpreter, enabled, tstore, gstorage, suspended, unsets>>

(* unset_tracing: sys.setprofile(None)                                     *)
UnsetProfile ==
  /\ InPython
  /\ profiling
  /\ unsets < MaxUnsets
  /\ profiling' = FALSE
  /\ unsets' = unsets + 1
  /\ UNCHANGED <<interpreter, enabled, tstore, gstorage, suspended>>

Suspend ==
  /\ InPython
  /\ enabled > 1 - MaxSuspends
  /\ enabled' = enabled - 1
  /\ suspended' = TRUE
  /\ UNCHANGED <<profiling, interpreter, tstore, gstorage, unsets>>

Resume ==
  /\ InPython
  /\ enabled <= 0
  /\ enabled' = enabled + 1
  /\ UNCHANGED <<profiling, interpreter, tstore, gstorage, suspended, unsets>>

Next ==
  \/ \E func \in Funcs, a \in Addresses : Call(func, a)
  \/ Return
  \/ ThreadExit
  \/ \E g \in Greenlets : Switch(g)
  \/ SetProfile
  \/ UnsetProfile
  \/ Suspend
  \/ Resume

Spec == Init /\ [][Next]_vars

-----------------------------------------------------------------------------
(* Properties.                                                             *)

(* What the profile function does if the running frame calls any of the    *)
(* functions, or returns: the next event.                                  *)
NextCall == IF profiling THEN {CallEvent(func, NULL) : func \in Funcs} ELSE {}
NextReturn == IF profiling /\ InPython THEN {ReturnEvent} ELSE {}

(* No other greenlet of the thread agrees with g in the word compared: g   *)
(* has its storage for itself.                                             *)
Unshared(g) == \A h \in Greenlets : Word[h] = Word[g] => h = g

(* The cached GreenletStorage is never one that del_gstorage freed, even   *)
(* when frames come and go unseen between unset_tracing and set_tracing    *)
(* and their addresses are reused.                                         *)
NoDanglingStorage == \A e \in NextCall \cup NextReturn : ~e.dangling

(* While the profile function stays installed, the storage cached with the *)
(* last frame is that of the running greenlet, across switches, ended      *)
(* greenlets and reused frame addresses: made for it or, as far as gid_map *)
(* can tell, for one with the same word.                                   *)
RightGreenlet ==
  unsets = 0 => \A e \in NextCall \cup NextReturn : Word[e.owner] = Word[current]

(* A call and the return from it are logged with the same depth, whatever  *)
(* greenlets ran in between, provided none shares the storage, and whether *)
(* or not tracing was suspended.                                           *)
DepthPaired ==
  unsets = 0 /\ Unshared(current) =>
    \A e \in NextReturn : Top.depth # NotSeen => e.depth = Top.depth

(* A function the filter said not to trace with all that it calls is among *)
(* the first n frames of the running greenlet.                             *)
InsideNested(n) == \E i \in 1..n : stack[current][i].nested

(* Nothing is logged from inside a function the filter said not to trace   *)
(* with all that it calls, in a greenlet that shares its storage with no   *)
(* other.                                                                  *)
NestedSilent ==
  unsets = 0 /\ Unshared(current) =>
    /\ InsideNested(Len(stack[current])) => \A e \in NextCall : ~e.logged
    /\ InsideNested(Len(stack[current]) - 1) => \A e \in NextReturn : ~e.logged

(* And nothing else is silenced there: unless tracing was suspended, the   *)
(* filter is asked about every event that is not inside such a function.   *)
OnlyNestedSilent ==
  unsets = 0 /\ ~suspended /\ Unshared(current) =>
    /\ ~InsideNested(Len(stack[current])) => \A e \in NextCall : e.asked
    /\ ~InsideNested(Len(stack[current]) - 1) => \A e \in NextReturn : e.asked

(* While the profile function stays installed the storage of a greenlet    *)
(* goes when its outermost frame returns, so greenlets that ended leave    *)
(* nothing behind that a new one at their address would find, also when    *)
(* others shared it.                                                       *)
NoLeftOverStorage ==
  unsets = 0 => \A s \in DOMAIN gstorage : stack[gstorage[s].gid] # <<>>

-----------------------------------------------------------------------------
(* What the documentation claims and the code does not do.                 *)

(* _filter_all, the default filter of set_tracing: True, which is 1        *)
FilterAll == [f \in Funcs |-> NO_TRACE_NESTED]

(* "by default, traces all functions": a call seen by the profile function *)
(* while tracing is not suspended is logged.                               *)
AllCallsLogged == ~suspended => \A e \in NextCall : e.logged
=============================================================================
