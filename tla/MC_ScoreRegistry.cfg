CONSTANTS
  p1 = p1
  p2 = p2
  p3 = p3
  n1 = n1
  n2 = n2
  Peers <- MCPeers
  Notifiers <- MCNotifiers
  Role <- MCRole
  Violators <- MCViolators
  CacheSize = 1
  MaxNotifications = 2
  MisbehaviourPenalty <- MCMisbehaviourPenalty
  SkipDecayThreshold <- MCSkipDecayThreshold
  MaxAppSpecificPenalty <- MCMaxAppSpecificPenalty
  MinAppSpecificPenalty <- MCMinAppSpecificPenalty
  MaxAppSpecificReward = 100
  NoOwner = NoOwner
  NoRecord = NoRecord
  NotScored = NotScored
SPECIFICATION Spec
INVARIANTS
  TypeOK
  AdjustFindsRecord
PROPERTIES
  PenalisedNeverRewarded
  PenaltyEventuallyForgiven
