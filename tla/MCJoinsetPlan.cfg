SPECIFICATION Spec
CONSTANTS
  NBindings = 3
  NRels = 2
  DatasetNames = {"a", "b", "c"}
  Dims = {"d"}
  Measures = {"m"}
  Columns = {"d", "m", "q"}
  Sources <- MCSources
  Namings <- MCNamings
  Mappings <- MCMappings
  JoinTypes = {"left"}
INVARIANTS
  ConditionsInScope
  JoinsComponent
PROPERTY Terminates
CHECK_DEADLOCK FALSE
