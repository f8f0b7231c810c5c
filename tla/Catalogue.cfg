SPECIFICATION Spec
CONSTANTS
  a = a
  b = b
  c = c
  other = other
  s1 = s1
  s2 = s2
  mtp = mtp
  Mtp = mtp
  Unbound = Unbound
  Missing = Missing
  Pinned <- MCPinned
  PinnedShards <- MCPinnedShards
  PinnedTotal = 4
  MtpPayload = 1
  Names <- MCNames
  Shards <- MCShards
  SlotCounts = {2, 4, 8, 16}
  Hashes <- MCHashes
  Documents <- MCDocuments
  Headers <- MCHeaders
INVARIANTS
  FindsWhatIsIndexed
  ShardMatchesHeader
  ReadyIsWhole
  VerifiedLoads
CHECK_DEADLOCK FALSE
