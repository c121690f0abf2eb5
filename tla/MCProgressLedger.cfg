SPECIFICATION Spec
CONSTANTS
  Operations <- Mixed
  Policies <- MCPolicies
  Limits <- MCLimits
  NoGrant = NoGrant
  GuardLevel = 3
  Batched <- LastCall
  Outputs <- MCOutputs
  h1 = h1
  h2 = h2
  MaxAttempts = 2
  NoOp = NoOp
CHECK_DEADLOCK FALSE
INVARIANTS
  
  NeverRefused
  BlockedCallsRepeat
PROPERTIES
  ImplementsBudget
