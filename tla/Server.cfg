\* The main thread may wait for ever: for a thread that was not created, or
\* for one that has missed its quit (finding of EventLoopQuit.cfg).  Four
\* connections fill the descriptors below MAXFDS and one is refused.
SPECIFICATION ServerSpec
CONSTANTS
  NumLoops = 3
  MAXFDS = 3
  MaxArrivals = 4
INVARIANTS
  ServerTypeOK
  ThreadsUsable
  LoopsEndInTurn
  AcceptorListens
  DescriptorsOwned
PROPERTIES
  StartReturns
  ConnectionsServed
CHECK_DEADLOCK FALSE
