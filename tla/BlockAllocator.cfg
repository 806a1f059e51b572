CONSTANTS
  BLOCK_COUNT = 10
  INODE_BLOCK_COUNT = 2
  NUM_OF_ADDRESSES_PER_BLOCK = 2
  Payload <- MCPayload
SPECIFICATION Spec
INVARIANTS
  TypeOK
  FreeListExact
  WalkAgrees
PROPERTIES
  AllocatedClean
  ImplementsPool
