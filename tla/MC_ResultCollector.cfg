CONSTANTS
  CollectionOf <- MCCollectionOf
  Failures <- MCFailures
SPECIFICATION Spec
INVARIANTS
  TypeOK
  ReceiptCoversBlock
PROPERTIES
  CollectorTerminates
CHECK_DEADLOCK FALSE
