SPECIFICATION ReadSpec
CONSTANTS
  Shards = {0, 1}
  Size = 3
  Word = 16
  Chunk = 2
  Listings <- MCListings
  Requests <- MCRequests
INVARIANTS
  ReadExact
CHECK_DEADLOCK FALSE
