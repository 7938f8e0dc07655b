CONSTANTS
  MaxMessages = 3
  MaxCrashes = 2
  MaxFailures = 2
  TraceMessageCapacity = 2
  Margin = 2
  HeaderSize <- Header
  TextSize <- Texts
  Timestamp <- Times
SPECIFICATION Spec
CHECK_DEADLOCK FALSE
INVARIANTS
  TypeOK
  Framing
  OnceInOrder
  DeliveredAfterReset
  SentFromBuffer
  NoDescriptorLeak
