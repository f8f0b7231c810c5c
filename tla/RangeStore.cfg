SPECIFICATION FairSpec
CONSTANTS
  l0 = l0
  l2 = l2
  a = a
  b = b
  c = c
  d = d
  zeros = zeros
  p = p
  q = q
  Layers = {l0, l2}
  Chunks = {a, b, c, d}
  LayerOf <- MCLayerOf
  Bytes <- MCBytes
  Digest <- MCDigest
  Scripts <- MCScripts
  Plans <- MCPlans
  Budget = 6
  Attempts = 3
INVARIANTS
  RecordsBacked
  WithinBudget
PROPERTIES
  Resumes
  RunEnds
