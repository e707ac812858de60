CONSTANTS
  a = a
  e1 = e1
  Tilde = Tilde
  Bytes <- MCBytes
  Owners <- MCOwners
  Keys <- MCKeys
  Values <- MCValues
  EventTypes <- MCEventTypes
  Intensities = {1, 3}
  UintBits = 3
  MaxCalls = 3
SPECIFICATION Spec
INVARIANTS StoreReadsLastWrite
CHECK_DEADLOCK FALSE
