CONSTANTS
  Dot = Dot
  DotDot = DotDot
  Name = {a, b}
  INODES = 4
  BLOCKS = 3
  ENTRIES = 3
  NUM_DIRECT_BLOCKS = 1
  NUM_OF_ADDRESSES_PER_BLOCK = 1
  MaxDepth = 2
  MaxRequests = 4
  MaxCrashes = 1
SPECIFICATION Spec
INVARIANT RootFound
CHECK_DEADLOCK FALSE
