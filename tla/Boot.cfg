CONSTANTS
  INODE_BLOCK_COUNT = 3
  INODES_PER_BLOCK = 2
  NUM_OF_DATA_BLOCKS = 7
  MaxStarts = 6
  MaxCrashes = 2
  MaxFaults = 1
SPECIFICATION FairSpec
INVARIANTS TypeOK MountedSound SameRoot
PROPERTY BootsUp
CHECK_DEADLOCK FALSE
