---------------------------- MODULE MCTraceDump -----------------------------
(* Small instances of the dump threads and the Python API.                 *)
EXTENDS TraceDump

CONSTANTS p1, filedump, stdoutdump
=============================================================================
