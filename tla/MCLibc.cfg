CONSTANTS
  INT_BITS = 6
  BUFFER = 9
  BITS = 5
  ONE = 4
  EXP_MAX = 7
  Bases = {1, 2, 10, 16, 36, 37}
  Formats <- MCFormats
  Logs <- MCLogs
  Texts <- MCTexts
  Delims <- MCDelims
  MEM = 5
SPECIFICATION Spec
INVARIANT TextsAreRight
INVARIANT ArithmeticIsExact
