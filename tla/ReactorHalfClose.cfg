\* One connection, on a loop that keeps being woken.
SPECIFICATION BusySpec
CONSTANTS
  Conns = {c1}
  Fds = {f1}
  NumLoops = 1
  None = None
  Wrap = 3
  HeaderTime = 1
  IdleTime = 1
  KeepAliveTime = 2
PROPERTIES
  OutputLeftIsSent
CHECK_DEADLOCK FALSE
