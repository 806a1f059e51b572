CONSTANTS
  BLOCK_COUNT = 30
  INODE_BLOCK_COUNT = 1
  NUM_OF_ADDRESSES_PER_BLOCK = 2
  NUM_DIRECT_BLOCKS = 1
  Inode = {i1}
  Growths <- AllGrowths
  Truncations <- CompleteTruncations
  OpenTruncations = {0}
  MaxRequests = 4
SPECIFICATION Spec
CHECK_DEADLOCK FALSE
INVARIANTS
  TypeOK
  FreeListSound
  NoSharing
  NoLeak
PROPERTIES
  ImplementsFileMap
