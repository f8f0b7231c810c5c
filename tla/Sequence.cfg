SPECIFICATION Spec
CONSTANTS
  a = a
  b = b
  outside = outside
  Zero = Zero
  Garbage = Garbage
  Ids <- MCIds
  Tokens <- MCTokens
  Prompts <- MCPrompts
  Window <- MCWindow
  Capacity = 4
  NLayers = 2
INVARIANTS
  PositionHonest
  StateIsOfText
PROPERTIES
  ImplementsContinuation
