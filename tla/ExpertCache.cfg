SPECIFICATION HSpec
CONSTANTS
  k1 = k1
  k2 = k2
  k3 = k3
  k4 = k4
  big = big
  shared = shared
  bf16 = bf16
  Garbage = Garbage
  NoKey = NoKey
  Routed <- MCRouted
  Unrouted <- MCUnrouted
  Scaled <- MCScaled
  Charge <- MCCharge
  Tiles <- MCTiles
  Capacity = 5
  MaxCount = 2
INVARIANTS
  TypeOK
  Accounted
  WithinLimit
  EntriesIntact
  KernelGetsItsTile
PROPERTIES
  ImplementsLru
  CallsReturn
