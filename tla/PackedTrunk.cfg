SPECIFICATION Spec
CONSTANTS
  p1 = p1
  p2 = p2
  wrong = wrong
  t1 = t1
  t2 = t2
  NoFile = NoFile
  Garbage = Garbage
  Packers = {p1, p2, wrong}
  Sources = {wrong}
  Names <- MCNames
  Revisions <- MCRevisions
  Ranges <- MCRanges
  Header <- MCHeader
INVARIANTS
  DestinationWhole
  SourceIntact
  NeverStale
  ReadsArePinned
