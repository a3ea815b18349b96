SPECIFICATION Spec
CONSTANTS
  Names = {"region", "country", "account", "market", "clicks", "views", "price", "ctr"}
  Column <- MCColumn
  Values = {"x", "y"}
  NoValue = ""
  Cases <- MCCases
INVARIANTS
  FieldsMergedByOwnFunction
CHECK_DEADLOCK FALSE
