SPECIFICATION AllSpec
CONSTANTS
  NoHost = NoHost
  w1 = w1
  w2 = w2
  r1 = r1
  Unused = Unused
  Waiters = {t1, t2}
  TimedWaiters = {t3}
  Callers = {c1, c2}
  HasLoop = {TRUE, FALSE}
  NoCallback = NoCallback
INVARIANTS CallbackAtMostOnce AliveWhileUsed LocalHostsListed SnapshotComplete
PROPERTIES FutureCompletes CatchesUp ControlRecovers SnapshotEnds
CHECK_DEADLOCK FALSE
