SPECIFICATION MCSpec
CONSTANTS
  Names = {"region", "country", "account", "market", "clicks", "views", "price", "ctr"}
  Column <- MCColumn
  Values = {"x", "y"}
  NoValue = ""
  Cases <- MCCases
  NoGrain = "none"
  Null <- MCNull
  NoName = ""
  MaxI64 = 5
  Features = {"datafusion", "iceberg", "aws"}
  Tables = {"t1", "t2"}
  Columns = {"c1"}
  Qualified = {"t2"}
  Types = {"int", "text"}
  MaxAlters = 1
INVARIANT FilterColumnsProvided
CHECK_DEADLOCK FALSE
