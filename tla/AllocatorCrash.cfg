CONSTANTS
  BLOCK_COUNT = 7
  INODE_BLOCK_COUNT = 1
  Thread = {t1}
  Content <- MCContent
  MaxCrashes = 2
  MaxFaults = 1
SPECIFICATION Spec
INVARIANTS
  TypeOK
  MemorySound
  RebootSafe
PROPERTIES
  ImplementsPool
