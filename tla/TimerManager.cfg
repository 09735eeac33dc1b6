\* The clock starts again twice; time-outs are shorter than its period.
SPECIFICATION Spec
CONSTANTS
  Conns = {c1, c2}
  Timeouts = {1, 2}
  Wrap = 3
  MaxNow = 6
  None = None
INVARIANTS
  TypeOK
  NodesMatch
  KeptHasNode
PROPERTIES
  NeverEarly
  SweepWithinPeriod
CHECK_DEADLOCK FALSE
