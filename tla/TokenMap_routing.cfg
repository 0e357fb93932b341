SPECIFICATION Spec
CONSTANTS
  Hosts = {1, 2, 3}
  Keyspaces = {k1}
  NoName = ""
  Width = 2
  DC <- DCs
  Rack <- Racks
  Ownerships <- TokensOfHosts
  Definitions <- KeyspaceDefinitions
  Reads = 2
  Changes = 1
INVARIANT RoutedToReplicas
CHECK_DEADLOCK FALSE
