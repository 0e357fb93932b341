SPECIFICATION Spec
CONSTANTS
  r1 = r1
  r2 = r2
  hb = hb
  Requests = {r1}
  Heartbeats = {}
  Streams = {0, 1}
  HighWaterMark = 1
  LowWaterMark = 1
  MaxRetries = 1
  EventTypes = TRUE
  HasKeyspace = TRUE
  HasAuthProvider = TRUE
  None = None
INVARIANT ReadyAfterStartup
PROPERTY ConnectionCompletes
