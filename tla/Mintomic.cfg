CONSTANTS
  t1 = t1
  t2 = t2
  Threads = {t1, t2}
  Base = 2
  BitAnd <- BitAndTable
  BitOr <- BitOrTable
  Operations <- EachOperation
  None = None
  Platforms <- AllPlatforms
SPECIFICATION FairSpec
INVARIANT TypeOK
PROPERTIES
  ImplementsAtomicWord
  LockFree
