SPECIFICATION Spec
CONSTANTS
  Keyspaces = {"k"}
  MaxChanges = 2
  MaxSnapshots = 1
  MaxConnections = 2
INVARIANT SnapshotNotUpdated
CHECK_DEADLOCK FALSE
