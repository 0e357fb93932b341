SPECIFICATION Spec
CONSTANTS
  r1 = r1
  r2 = r2
  w1 = w1
  w2 = w2
  h1 = h1
  h2 = h2
  Requests = {r1}
  Workers = {w1}
  Hosts = {h1}
  QueueSize = 2
  WorkerQueueSize = 1
  MaxPerFlush = 1
  MaxReconnects = 1
  NULL = NULL
PROPERTY EveryExecuteAnswered
