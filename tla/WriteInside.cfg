CONSTANTS
  BLOCK_COUNT = 14
  INODE_BLOCK_COUNT = 1
  NUM_OF_ADDRESSES_PER_BLOCK = 2
  NUM_DIRECT_BLOCKS = 1
  Inode = {i1}
  Writes <- AnyWrites
  Reads <- MCReads
  Lengths <- MCLengths
  Truncations <- MCTruncations
  CrashTruncations <- NothingRemoved
  MaxWords = 8
  MaxRequests = 3
  MaxCrashes = 1
SPECIFICATION Spec
CHECK_DEADLOCK FALSE
INVARIANT
  SizeFitsBlocks
