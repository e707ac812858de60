CONSTANTS
  a = a
  b = b
  NodeIDs <- MCNodeIDs
  Weights <- MCWeights
  MaxFiles <- MCMaxFiles
SPECIFICATION Spec
INVARIANTS
  TypeOK
  PartnerNodesFromFiles
\* ReadFullPartnerNodeInfos returns or exits the process.
CHECK_DEADLOCK FALSE
