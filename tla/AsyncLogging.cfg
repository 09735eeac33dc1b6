\* More than two buffers in one round are thrown away but for two; with one
\* or two lines a buffer the back-end can be that far behind.
SPECIFICATION Spec
CONSTANTS
  Characters <- MCCharacters
  SIZE = 6
  kMaxNumericSize = 5
  Width = 8
  Prefix <- MCPrefix
  Statements <- MCStatements
  Producers = {p1, p2}
  NumBufs = 6
  Capacity = 8
  Limit = 2
  FlushEveryN = 2
  MaxLines = 4
  MaxFaults = 1
INVARIANTS
  TypeOK
  BuffersReady
  LinesWhole
  LinesFormatted
PROPERTIES
  RefinesLog
  LinesAreWritten
  LogReturns
CHECK_DEADLOCK FALSE
