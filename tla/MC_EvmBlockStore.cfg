CONSTANTS
  BlockHashListCapacity <- MCCapacity
  MaxHeight <- MCMaxHeight
  MaxTxCount <- MCMaxTxCount
  ZeroHash = ZeroHash
  NoValue = NoValue
SPECIFICATION Spec
INVARIANTS
  HashListAcceptsCommit
PROPERTIES
  ChainRefinement
CHECK_DEADLOCK FALSE
