CONSTANTS
  BLOCK_COUNT = 10
  INODE_BLOCK_COUNT = 1
  NUM_OF_ADDRESSES_PER_BLOCK = 2
  NUM_DIRECT_BLOCKS = 1
  Inode = {i1}
  Writes <- MCWrites
  Reads <- MCReads
  Lengths <- MCLengths
  Truncations <- MCTruncations
  CrashTruncations <- NothingRemoved
  MaxWords = 8
  MaxRequests = 4
  MaxCrashes = 1
SPECIFICATION Spec
CHECK_DEADLOCK FALSE
INVARIANTS
  TypeOK
  SizeFitsBlocks
  RemovalsSucceed
PROPERTIES
  ImplementsWordFile
