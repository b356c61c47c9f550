SPECIFICATION Spec
CONSTANTS
  v1 = v1
  v2 = v2
  c1 = c1
  c2 = c2
  Review = {v1, v2}
  Client = {c1, c2}
  Decision = {"allow", "ban"}
  Retries = 1
  OwnInstance = TRUE
  Outages = FALSE
  MaxRestarts = 1
SYMMETRY Symmetric
INVARIANTS
  StoredReviewsAreListed
