--------------------------- MODULE MCTraceMessage ---------------------------
(* A small message buffer; the bounds are in the cfg.                      *)
EXTENDS TraceMessage
=============================================================================
