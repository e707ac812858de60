CONSTANTS
  a = a
  b = b
  NodeIDs <- MCNodeIDs
  Weights <- MCWeights
  MaxFiles <- MCMaxFiles
SPECIFICATION Spec
INVARIANTS
  WeightsErrorIsFatal
\* ReadFullPartnerNodeInfos returns or exits the process.
CHECK_DEADLOCK FALSE
