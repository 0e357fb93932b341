SPECIFICATION Spec
CONSTANTS
  r1 = r1
  r2 = r2
  hb = hb
  Requests = {r1, r2}
  Heartbeats = {hb}
  Streams = {0, 1}
  HighWaterMark = 1
  LowWaterMark = 1
  MaxRetries = 1
  EventTypes = FALSE
  HasKeyspace = FALSE
  HasAuthProvider = FALSE
  None = None
SYMMETRY Symmetry
INVARIANTS ResponseReachesItsRequest RefCountExact StreamsAndTimers
