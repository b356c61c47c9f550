CONSTANTS
  Update = {u1}
  Delivery = {d1, d2}
  Member = {m1}
  Traits <- MCPolicyTraits
  Modes <- MCEnforce
  Retries = 1
  MaxRestarts = 0
SPECIFICATION Spec
INVARIANT PolicyMatchesActedOn
CHECK_DEADLOCK FALSE
