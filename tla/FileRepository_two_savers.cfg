SPECIFICATION RepoSpec
CONSTANTS
  Savers = {w1, w2}
  Readers = {r1}
  Manifests = {m1, m2}
  Inodes = {1, 2, 3, 4}
  NoInode = 0
  Blocks = 2
  Hole = hole
  NotFound = not_found
  IoError = io_error
  Serialization = serialization
INVARIANT NeverCorrupt
