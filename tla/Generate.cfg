SPECIFICATION FairSpec
CONSTANTS
  Tokens = {0, 1}
  EOS = 1
  Ids = {0, 1, 2}
  Capacity = 4
  SizeMax = 7
  Seeds = {0, 1}
  Broken = Broken
  NoAnswer = NoAnswer
  Garbage = Garbage
  Untouched = Untouched
  Requests <- MCRequests
  Width = 2
  Logits <- MCLogits
  Word <- MCWord
  Mass <- MCMass
  Whole = 4
  Words = 8
INVARIANTS
  OutputIsReference
  BufferWithinBounds
  ContextFollows
PROPERTIES
  NoExtraForward
  CallsReturn
