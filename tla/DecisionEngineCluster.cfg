SPECIFICATION Spec
CONSTANTS
  e1 = e1
  e2 = e2
  Eval = {e1, e2}
  s1 = s1
  Session = {s1}
  FactSets <- FewFactSets
  Signals <- FewSignals
  Given = {}
INVARIANTS
  ClusterRiskEscalates
