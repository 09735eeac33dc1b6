\* quit() from another thread, at any moment of the loop's life.
SPECIFICATION Spec
CONSTANTS
  Posters = {p1}
  Tasks = {t1}
PROPERTIES
  EveryQuitStopsLoop
CHECK_DEADLOCK FALSE
