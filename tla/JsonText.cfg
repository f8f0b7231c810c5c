SPECIFICATION Spec
CONSTANTS
  Alphabets <- MCAlphabets
  Longest <- MCLongest
  UnsignedMax = 255
  SignedMax = 127
  IdMax = 25
INVARIANTS
  StringsDecode
  NumbersAreRead
CHECK_DEADLOCK FALSE
