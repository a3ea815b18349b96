CONSTANTS
  BadNames <- MCBadNames
  MaxNest = 2
  Contents <- MCContents
  CatalogContents = {"unset_env", "undecodable", "ok"}
  FileStates = {"missing", "not_utf8", "readable"}
  MaxInputs = 2
  Items = {"x", "y"}
  Lists <- MCLists
  MaxCalls = 3
  Names = {1, 3, 4}
  Foreign = {2}
SPECIFICATION MCSpec
INVARIANTS
  ErrorsExplainFailure
  NothingLost
  EveryProblemReported
  BuilderAgreesWithValidator
  BuilderKeepsWrites
  VerdictExact
CHECK_DEADLOCK FALSE
