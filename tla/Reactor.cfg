\* Two connections on one loop, one of them at most in trouble.
SPECIFICATION Spec
CONSTANTS
  Conns = {c1, c2}
  Fds = {f1, f2}
  NumLoops = 1
  None = None
  Wrap = 2
  HeaderTime = 1
  IdleTime = 1
  KeepAliveTime = 2
SYMMETRY Symmetry
CONSTRAINT OneInTrouble
INVARIANTS
  TypeOK
  TablesMatchKernel
  DispatchedAreAlive
  OneTimer
  NoneForgotten
  InterestFits
PROPERTIES
  NoEarlyExpiry
CHECK_DEADLOCK FALSE
