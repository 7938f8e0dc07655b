---------------------- MODULE MCTraceMessageRingBuffer ----------------------
(* Small instances of the ring buffer; the bounds are in their cfgs.       *)
EXTENDS TraceMessageRingBuffer
=============================================================================
