SPECIFICATION Spec
CONSTANTS
  c1 = c1
  c2 = c2
  c3 = c3
  r1 = r1
  r2 = r2
  r3 = r3
  Connections = {c1, c2, c3}
  Requests = {r1, r2}
  Core = 2
  MaxConnections = 3
  MaxCreation = 1
  Threshold = 1
  Streams = 1
  LowWaterMark = 1
  HighWaterMark = 1
  MaxFailures = 2
INVARIANTS PoolConsistent ReconnectScheduled RequestInOnePlace
PROPERTY PoolCompletes
