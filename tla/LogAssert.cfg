\* A small log; one append between the unlock and the assertion is enough.
SPECIFICATION Spec
CONSTANTS
  Characters <- MCCharacters
  SIZE = 6
  kMaxNumericSize = 5
  Width = 8
  Prefix <- MCPrefix
  Statements <- MCStatements
  Producers = {p1, p2}
  NumBufs = 6
  Capacity = 8
  Limit = 3
  FlushEveryN = 2
  MaxLines = 3
  MaxFaults = 0
INVARIANTS
  SwappedEmpty
CHECK_DEADLOCK FALSE
