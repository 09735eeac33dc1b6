\* README.md:53 promises pipelining.
SPECIFICATION Spec
CONSTANTS
  MaxRequests = 3
  MaxAheadAndCut = 3
  MaxSplits = 1
  Room = 1
  Kinds = {"hello", "file"}
  Clients = {{"pipelines"}}
INVARIANTS
  NoneRefused
CHECK_DEADLOCK FALSE
