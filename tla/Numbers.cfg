CONSTANTS
  INT_BITS = 4
  LONG_BITS = 8
  Values <- MCValues
  Bases <- MCBases
  Formats <- MCFormats
  Literals <- MCLiterals
  MaxReads = 2
SPECIFICATION Spec
CHECK_DEADLOCK FALSE
INVARIANTS
  ReadsBack
  EndsAfterNumber
  FormatReadToEnd
