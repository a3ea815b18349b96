SPECIFICATION Spec
CONSTANTS
  Entities = {1, 2, 3}
  Unknown = {4, 5}
  NRels = 5
  Graphs <- MCGraphs
  Fields = {"d", "e", "m"}
  Interfaces <- MCInterfaces
INVARIANTS
  PathsAreShortest
  AnswerSound
  RefusalsJustified
CHECK_DEADLOCK FALSE
