SPECIFICATION Spec
CONSTANTS
  alice = alice
  bob = bob
  cat = cat
  Threads = {t1, t2}
  Logins = {alice, bob}
  Images = {cat}
  TopArgs = {1, Garbage}
  DefaultTop = 2
  NoArg = NoArg
  Garbage = Garbage
  QueueSize = 2
  MaxRequests = 3
  MaxErrors = 1
  Workload <- Following
  Unreliable = {"GetFeed"}
SYMMETRY Symmetry
INVARIANTS AcknowledgedPostStored FeedExact
