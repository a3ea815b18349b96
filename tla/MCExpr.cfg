SPECIFICATION MCSpec
CONSTANTS
  Names <- MCNames
  Keywords <- MCKeywords
  MaxI64 = 20
  MaxU32 = 10
  MaxByte = 7
  MaxI8 = 3
  MaxNodes = 5
  Threads = {t1}
  Nodes = {1, 2, 3, 4, 5, 6}
  Plans <- MCPlans
  Dialects = {"ansi", "datafusion", "duckdb", "spark"}
INVARIANTS
  RoundTrip
  DependenciesSeen
  NegationIsLogical
  TreesKept
  MappingSurvivesDump
  AcceptedPlansAreTyped
  AliasesDeterministic
  EmitsPlan
  EmittersAgree
CHECK_DEADLOCK FALSE
