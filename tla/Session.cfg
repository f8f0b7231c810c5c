SPECIFICATION SessionSpec
CONSTANTS
  Contexts = {"a"}
  BlobCount = 2
  Ways <- MCWays
  Options <- MCOptions
INVARIANTS
  HeapAccounted
  RowsTogether
  AccessesFit
