SPECIFICATION Spec
CONSTANTS
  NBindings = 3
  NRels = 2
  DatasetNames = {"a", "b", "c"}
  Dims = {"d"}
  Measures = {"m"}
  Columns = {"d", "m", "q"}
  Sources <- MCSources
  Namings <- MCNamings
  Mappings <- MCMappings
  JoinTypes = {"left"}
INVARIANT ReversedJoinsMirrored
CHECK_DEADLOCK FALSE
