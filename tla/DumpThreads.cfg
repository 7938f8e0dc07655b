CONSTANTS
  p1 = p1
  filedump = filedump
  stdoutdump = stdoutdump
  Api = Api
  Nobody = Nobody
  Producers = {p1}
  Dumps = {filedump, stdoutdump}
  CloseHandle = {filedump}
  Consumers = {filedump, stdoutdump, Api}
  Capacity = 2
  TraceMessageCapacity = 2
  NameOnly = {1}
  MaxPushes = 4
SPECIFICATION DumpFairSpec
CHECK_DEADLOCK FALSE
INVARIANTS
  DumpTypeOK
  SingleConsumer
  HandleOpenWhileDumping
PROPERTIES
  DrainedAtClose
  StopTerminates
  RunningDumpDelivers
