SPECIFICATION Spec
CONSTANTS
  Threads = {t1, t2}
  PerMs = 2
  MaxClock = 3
  MaxCalls = 4
  MaxBack = 0
INVARIANT UuidsUnique
CHECK_DEADLOCK FALSE
