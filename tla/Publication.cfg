SPECIFICATION Spec
CONSTANTS
  run1 = run1
  run2 = run2
  x = x
  y = y
  z = z
  NoPath = NoPath
  Runs = {run1, run2}
  Paths = {x, y, z}
  Options <- MCOptions
CHECK_DEADLOCK FALSE
INVARIANTS
  DestinationsWhole
  PublishedInOrder
  ExitHonest
  NoLitter
