SPECIFICATION Spec
CONSTANTS
  Operations = {"i1", "i2", "i3", "r1", "t1", "t2"}
  BucketOf <- MCBucketOf
  Policies <- MCPolicies
  Limits <- MCLimits
  MaxAttempts = 2
  NoGrant = NoGrant
CHECK_DEADLOCK FALSE
INVARIANTS
  HardLimit
  LedgerBalances
  SoftLimitExact
PROPERTIES
  DecisionIsDurable
