SPECIFICATION Spec
CONSTANTS
  Job = {j1}
  MaxRestarts = 1
PROPERTIES
  StatusSurvivesRestarts
CHECK_DEADLOCK FALSE
