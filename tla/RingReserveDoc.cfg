CONSTANTS
  p1 = p1
  dumper = dumper
  Producers = {p1}
  Consumers = {dumper}
  Capacity = 2
  TraceMessageCapacity = 3
  NameOnly = {1}
  MaxPushes = 4
SPECIFICATION Spec
INVARIANT ReservedSlotEmpty
