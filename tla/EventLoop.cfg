\* Two threads post three functors; a functor or an I/O handler may post or
\* run one itself; quit may come at any time, before loop() is entered too.
SPECIFICATION Spec
CONSTANTS
  Posters = {p1, p2}
  Tasks = {t1, t2, t3}
INVARIANTS
  TypeOK
  NoLostWakeup
  ReadFindsCounter
PROPERTIES
  QuitStopsLoop
  RefinesTaskQueue
  QueueMovesOn
\* After quit the loop thread is gone and nothing has to happen any more.
CHECK_DEADLOCK FALSE
