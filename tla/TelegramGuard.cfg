CONSTANTS
  Update = {u1, u2}
  Delivery = {d1, d2}
  Member = {m1}
  Traits <- MCTraits
  Modes <- MCModes
  Retries = 1
  MaxRestarts = 1
SPECIFICATION Spec
INVARIANTS TypeOK ObserveHoldsBack PunishedInEnforceOnly SafetyIsReviewed FailedHadNoEffect
PROPERTIES DeliveriesEnd
CHECK_DEADLOCK FALSE
