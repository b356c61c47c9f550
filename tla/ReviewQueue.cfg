SPECIFICATION FairSpec
CONSTANTS
  v1 = v1
  v2 = v2
  c1 = c1
  c2 = c2
  Review = {v1, v2}
  Client = {c1, c2}
  Decision = {"allow", "ban"}
  Retries = 1
  OwnInstance = TRUE
  Outages = TRUE
  MaxRestarts = 1
INVARIANTS
  TypeOK
  ListAgreesWithDetail
  EffectsWereDecided
PROPERTIES
  RequestsEnd
