SPECIFICATION Spec
CONSTANTS
  k = k
  l = l
  Names <- MCNames
  Number = Number
  Literal = Literal
  Torn = Torn
  Junk = Junk
  MaxDepth = 2
  FirstCapacity = 1
  MaxTokens = 9
INVARIANTS
  AcceptedIsRead
  DocumentIsAccepted
  NothingLeaks
CHECK_DEADLOCK FALSE
