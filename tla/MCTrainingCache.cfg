SPECIFICATION Spec
CONSTANTS
  Views = {v1, v2, v3}
  Configs <- MCConfigs
  None = None
INVARIANTS ImagesAreCurrent WithinBudgets
PROPERTIES ServedIsAsked
