CONSTANTS
  BLOCK_COUNT = 4
  INODE_BLOCK_COUNT = 3
  INODES_PER_BLOCK = 2
  Thread = {t1}
  Mode = {0, 1}
  MaxLinks = 1
  MaxCrashes = 1
  MaxFaults = 1
SPECIFICATION FairSpec
INVARIANTS
  TypeOK
PROPERTIES
  ImplementsStore
  CallsReturn
