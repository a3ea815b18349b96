CONSTANTS
  None = None
  Globs <- MCGlobs
  Grains <- MCGrains
  Reserved = {"column", "lit"}
  KindOrder <- MCKindOrder
  NameOrder <- MCNameOrder
  Keywords <- MCKeywords
  Models <- MCModels
  Envs <- MCEnvs
  Listings <- MCListings
  Savers = {w1}
  Readers = {r1}
  Manifests = {m1, m2}
  Inodes = {1, 2, 3}
  NoInode = 0
  Blocks = 2
  Hole = hole
  NotFound = not_found
  IoError = io_error
  Serialization = serialization
  Clients = {c1, c2}
  Lifetimes = {1, 4}
  Buffer = 2
  MaxDelay = 2
  MaxTime = 5
  Never = never
  NoCache = no_cache
SPECIFICATION MCSpec
INVARIANTS
  SourcesAreOwn
  AuthorsMappingWins
  EveryFieldBound
  GrainsAgree
  MetricsWellFounded
  AdditivityOfLeaves
  IndexAgrees
  NestingBounded
  NeverCorrupt
  HandsOutLiveTokens
PROPERTY ImplementsStore
CHECK_DEADLOCK FALSE
