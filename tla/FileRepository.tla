--------------------------- MODULE FileRepository ---------------------------
(***************************************************************************)
(* FileSystemRepository (crates/semstrait-manifest/src/repository.rs):     *)
(* the manifest as a JSON file, replaced by writing a temporary file and   *)
(* renaming it.                                                            *)
(*                                                                         *)
(* Savers and readers are threads or processes that share the path.  The   *)
(* file system is modelled by what the code relies on: names refer to      *)
(* inodes, an open handle keeps referring to its inode after a rename,     *)
(* opening for writing truncates an existing file, a large write or read   *)
(* takes several steps, and a rename is atomic.                            *)
(***************************************************************************)
EXTENDS Naturals

CONSTANTS
  Savers, Readers, Manifests,
  Inodes, NoInode,
  Blocks,                  (* a serialized manifest is written in Blocks steps *)
  Hole,                    (* a block that is missing or zero              *)
  NotFound, IoError, Serialization   (* RepositoryError                    *)

ASSUME RepositoryAssumption ==
  /\ Blocks \in Nat \ {0}
  /\ Hole \notin Manifests
  /\ NoInode \notin Inodes
  /\ {NotFound, IoError, Serialization} \cap Manifests = {}
  /\ NotFound # Serialization /\ IoError # Serialization

Content == [1..Blocks -> Manifests \cup {Hole}]

VARIABLES
  path, tmp_path,          (* directory entries: the inode of each name    *)
  data,                    (* the content of each inode                    *)
  saver,                   (* per saver: what it is doing, with its handle *)
  reader,                  (* per reader: likewise, with what it has read  *)
  loaded                   (* what each reader's last load returned        *)

fs == <<path, tmp_path, data>>
repoVars == <<path, tmp_path, data, saver, reader, loaded>>

SaverState == [at : {"idle", "open", "write", "rename"}, manifest : Manifests \cup {Hole},
               inode : Inodes \cup {NoInode}, next : 1..(Blocks + 1)]
ReaderState == [at : {"idle", "read"}, inode : Inodes \cup {NoInode}, next : 1..(Blocks + 1),
                buf : Content]

Empty == [b \in 1..Blocks |-> Hole]
SaverAt(at, m, i, n) == [at |-> at, manifest |-> m, inode |-> i, next |-> n]
ReaderAt(at, i, n, buf) == [at |-> at, inode |-> i, next |-> n, buf |-> buf]
IdleSaver == SaverAt("idle", Hole, NoInode, 1)
IdleReader == ReaderAt("idle", NoInode, 1, Empty)

(* The bytes of one whole manifest, the only content that parses.          *)
Json(m) == [b \in 1..Blocks |-> m]

Unused(i) ==
  /\ i # path /\ i # tmp_path
  /\ \A w \in Savers : saver[w].inode # i
  /\ \A r \in Readers : reader[r].inode # i

RepoInit ==
  /\ path = NoInode /\ tmp_path = NoInode
  /\ data = [i \in Inodes |-> Empty]
  /\ saver = [w \in Savers |-> IdleSaver]
  /\ reader = [r \in Readers |-> IdleReader]
  /\ loaded = [r \in Readers |-> NotFound]

-----------------------------------------------------------------------------
(* save: the parent directory is created and the manifest serialized       *)
(* before any file is touched.                                             *)
SaveBegin(w, m) ==
  /\ saver[w].at = "idle"
  /\ saver' = [saver EXCEPT ![w] = SaverAt("open", m, NoInode, 1)]
  /\ UNCHANGED <<fs, reader, loaded>>

(* A slip: the file that readers see is opened and truncated.              *)
PathInode(i) == IF path = NoInode THEN Unused(i) ELSE i = path

(* The inode that opening tmp_path for writing gives.                      *)
TmpInode(i) == IF tmp_path = NoInode THEN Unused(i) ELSE i = tmp_path

(* fs::write opens tmp_path: it creates the file or truncates the one that *)
(* is there, such as the rest of a save that crashed.                      *)
OpenTmp(w) ==
  /\ saver[w].at = "open"
  /\ \E i \in Inodes :
       /\ TmpInode(i)
       /\ tmp_path' = i
       /\ data' = [data EXCEPT ![i] = Empty]
       /\ saver' = [saver EXCEPT ![w] = SaverAt("write", saver[w].manifest, i, 1)]
  /\ UNCHANGED <<path, reader, loaded>>

(* A slip: the rename follows the first block.                             *)
AfterBlockEarly(n) == "rename"

(* What follows block n.                                                   *)
AfterBlock(n) == IF n = Blocks THEN "rename" ELSE "write"

(* ... and writes the bytes, block after block, through its own handle.    *)
WriteBlock(w) ==
  /\ saver[w].at = "write"
  /\ data' = [data EXCEPT ![saver[w].inode][saver[w].next] = saver[w].manifest]
  /\ saver' = [saver EXCEPT ![w] =
                 SaverAt(AfterBlock(saver[w].next),
                         saver[w].manifest, saver[w].inode, saver[w].next + 1)]
  /\ UNCHANGED <<path, tmp_path, reader, loaded>>

(* fs::rename(tmp_path, path): the directory entry moves, the inode stays. *)
Rename(w) ==
  /\ saver[w].at = "rename"
  /\ tmp_path # NoInode
  /\ path' = tmp_path
  /\ tmp_path' = NoInode
  /\ saver' = [saver EXCEPT ![w] = IdleSaver]
  /\ UNCHANGED <<data, reader, loaded>>

(* Err(Io) from any of the calls, a rename without a temporary file        *)
(* included, or a crash of the saving process: the call ends here and      *)
(* leaves the files as they are.                                           *)
SaveAbandoned(w) ==
  /\ saver[w].at # "idle"
  /\ saver' = [saver EXCEPT ![w] = IdleSaver]
  /\ UNCHANGED <<fs, reader, loaded>>

-----------------------------------------------------------------------------
(* load: fs::read opens the file and reads it to its end.                  *)
LoadOpen(r) ==
  /\ reader[r].at = "idle"
  /\ path # NoInode
  /\ reader' = [reader EXCEPT ![r] = ReaderAt("read", path, 1, Empty)]
  /\ UNCHANGED <<fs, saver, loaded>>

LoadNotFound(r) ==
  /\ reader[r].at = "idle"
  /\ path = NoInode
  /\ loaded' = [loaded EXCEPT ![r] = NotFound]
  /\ UNCHANGED <<fs, saver, reader>>

ReadBlock(r) ==
  /\ reader[r].at = "read" /\ reader[r].next <= Blocks
  /\ LET rd == reader[r] IN
     reader' = [reader EXCEPT ![r] =
                  ReaderAt("read", rd.inode, rd.next + 1,
                           [rd.buf EXCEPT ![rd.next] = data[rd.inode][rd.next]])]
  /\ UNCHANGED <<fs, saver, loaded>>

(* serde_json::from_slice on the bytes read.                               *)
Parse(r) ==
  /\ reader[r].at = "read" /\ reader[r].next = Blocks + 1
  /\ \/ \E m \in Manifests : reader[r].buf = Json(m) /\ loaded' = [loaded EXCEPT ![r] = m]
     \/ /\ \A m \in Manifests : reader[r].buf # Json(m)
        /\ loaded' = [loaded EXCEPT ![r] = Serialization]
  /\ reader' = [reader EXCEPT ![r] = IdleReader]
  /\ UNCHANGED <<fs, saver>>

LoadFails(r) ==
  /\ loaded' = [loaded EXCEPT ![r] = IoError]
  /\ reader' = [reader EXCEPT ![r] = IdleReader]
  /\ UNCHANGED <<fs, saver>>

RepoNext ==
  \/ \E w \in Savers :
       \/ \E m \in Manifests : SaveBegin(w, m)
       \/ OpenTmp(w) \/ WriteBlock(w) \/ Rename(w) \/ SaveAbandoned(w)
  \/ \E r \in Readers :
       LoadOpen(r) \/ LoadNotFound(r) \/ ReadBlock(r) \/ Parse(r) \/ LoadFails(r)

RepoSpec == RepoInit /\ [][RepoNext]_repoVars

-----------------------------------------------------------------------------
(* Type invariant.                                                         *)
TypeOK ==
  /\ path \in Inodes \cup {NoInode}
  /\ tmp_path \in Inodes \cup {NoInode}
  /\ data \in [Inodes -> Content]
  /\ saver \in [Savers -> SaverState]
  /\ reader \in [Readers -> ReaderState]
  /\ loaded \in [Readers -> Manifests \cup {NotFound, IoError, Serialization}]

(* The file that readers open is one whole manifest, at every moment and   *)
(* after every crash: no save in progress is visible under path.           *)
PathWhole == path # NoInode => \E m \in Manifests : data[path] = Json(m)

(* No saver holds a handle on a file that readers can see or have open:    *)
(* nothing a load reads can change under it.                               *)
PublishedFrozen ==
  \A w \in Savers : saver[w].at \in {"write", "rename"} =>
    /\ saver[w].inode # path
    /\ \A r \in Readers : reader[r].at = "read" => reader[r].inode # saver[w].inode

(* "Uses atomic write ... to prevent corruption on crash": load never sees *)
(* bytes that do not parse.                                                *)
NeverCorrupt == \A r \in Readers : loaded[r] # Serialization

(* The manifest that path holds, and what a load that has opened its file  *)
(* is bound to return.                                                     *)
HeldIn(i) == IF i = NoInode THEN NotFound ELSE data[i][1]

BoundToReturn ==
  [r \in Readers |-> IF reader[r].at = "read" THEN HeldIn(reader[r].inode) ELSE loaded[r]]

Store == INSTANCE ManifestStore WITH stored <- HeldIn(path), loaded <- BoundToReturn

(* The file repository implements the Repository trait's promise: saves    *)
(* replace the manifest in one step, and a load returns the manifest that  *)
(* was stored when it opened the file.                                     *)
ImplementsStore == Store!StoreSpec
=============================================================================
