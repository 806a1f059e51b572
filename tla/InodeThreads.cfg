CONSTANTS
  BLOCK_COUNT = 4
  INODE_BLOCK_COUNT = 3
  INODES_PER_BLOCK = 2
  Thread = {t1, t2}
  Mode = {0, 1}
  MaxLinks = 1
  MaxCrashes = 0
  MaxFaults = 0
SPECIFICATION Spec
INVARIANTS
  CreatedApart
