CONSTANTS
  Dot = Dot
  DotDot = DotDot
  Name = {a, b, c}
  INODES = 4
  BLOCKS = 3
  ENTRIES = 4
  NUM_DIRECT_BLOCKS = 1
  NUM_OF_ADDRESSES_PER_BLOCK = 1
  MaxDepth = 2
  MaxRequests = 6
  MaxCrashes = 1
SPECIFICATION Spec
INVARIANTS TypeOK NoDangling CountsExact Tree Listable NeverNameless BlocksOwned
SYMMETRY Interchangeable
PROPERTY OnlyEmptyRemoved
CHECK_DEADLOCK FALSE
