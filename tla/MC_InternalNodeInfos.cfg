CONSTANTS
  a = a
  b = b
  x = x
  y = y
  NodeIDs <- MCNodeIDs
  Addresses <- MCAddresses
  Weights <- MCWeights
  MaxFiles <- MCMaxFiles
  MaxConfigs <- MCMaxConfigs
SPECIFICATION Spec
INVARIANTS
  TypeOK
  InternalNodesFromFiles
\* ReadInternalNodeInfos returns or exits the process.
CHECK_DEADLOCK FALSE
