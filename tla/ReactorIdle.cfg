\* One connection on a loop with nothing else to do.
SPECIFICATION Spec
CONSTANTS
  Conns = {c1}
  Fds = {f1}
  NumLoops = 1
  None = None
  Wrap = 3
  HeaderTime = 1
  IdleTime = 1
  KeepAliveTime = 2
PROPERTIES
  ExpiredNodesGo
CHECK_DEADLOCK FALSE
