CONSTANTS
  BLOCK_COUNT = 17
  INODE_BLOCK_COUNT = 1
  NUM_OF_ADDRESSES_PER_BLOCK = 2
  NUM_DIRECT_BLOCKS = 1
  Inode = {i1, i2}
  Growths = {1, 2, 5, 9}
  Truncations <- CompleteTruncations
  OpenTruncations = {0}
  MaxRequests = 5
SPECIFICATION Spec
CHECK_DEADLOCK FALSE
INVARIANTS
  FreeListSound
  NoSharing
PROPERTIES
  ImplementsFileMap
