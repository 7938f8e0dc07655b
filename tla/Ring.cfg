CONSTANTS
  p1 = p1
  p2 = p2
  dumper = dumper
  Producers = {p1, p2}
  Consumers = {dumper}
  Capacity = 2
  TraceMessageCapacity = 3
  NameOnly = {1}
  MaxPushes = 4
SPECIFICATION FairSpec
INVARIANTS
  TypeOK
  MutualExclusion
  NoTornMessage
  Conservation
  OverflowsNotOverreported
  RoundRobin
  FifoUnlessLapped
  ProducersWaitOnlyAfterWrap
PROPERTIES
  EmptyWhenPopFails
  ImplementsChannel
  PushTerminates
  PushDelivered
