SPECIFICATION Spec
CONSTANTS
  Entities = {1, 2, 3}
  Unknown = {4}
  NRels = 2
  Graphs <- MCGraphs
  Fields = {"d", "e", "m"}
  Interfaces <- MCInterfaces
INVARIANT StepPlansItsEntity
CHECK_DEADLOCK FALSE
