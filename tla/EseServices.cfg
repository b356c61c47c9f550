SPECIFICATION ServicesSpec
CONSTANTS
  j1 = j1
  j2 = j2
  Job <- MCJob
  MaxRestarts = 2
  c1 = c1
  c2 = c2
  Caller <- MCCaller
  MaxRetries = 2
  MaxDowns = 1
  d1 = d1
  Dir = {d1}
  Asked = {d1}
  a = a
  b = b
  Operator <- MCOperator
  MaxRun = 2
  MaxEntries = 2
  Common <- MCCommon
  Team <- MCTeam
  MaxEdits = 1
  MaxRuns = 2
INVARIANTS
  ServicesTypeOK
  EndedJobsAreKept
  EvidenceHolds
  InstalledIsHonoured
  ConfigsHold
PROPERTIES
  NeverBackwards
  JobsEnd
  CallsKeepPromise
CHECK_DEADLOCK FALSE
