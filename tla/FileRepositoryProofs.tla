------------------------ MODULE FileRepositoryProofs ------------------------
(* With a single saver at a time the file repository implements the        *)
(* Repository trait's promise, for any number of readers, any manifests    *)
(* and any number of blocks.                                               *)
EXTENDS FileRepository, TLAPS

OneSaver == \A v, w \in Savers : v = w

(* What a load in progress has opened is whole, and it has read a prefix.  *)
ReaderInv ==
  \A r \in Readers : reader[r].at = "read" =>
    /\ reader[r].inode \in Inodes
    /\ reader[r].inode # tmp_path
    /\ \E m \in Manifests : data[reader[r].inode] = Json(m)
    /\ \A b \in 1..Blocks : b < reader[r].next => reader[r].buf[b] = data[reader[r].inode][b]

(* The saver's temporary file holds a prefix of its manifest.              *)
SaverInv ==
  \A w \in Savers :
    /\ saver[w].at # "idle" => saver[w].manifest \in Manifests
    /\ saver[w].at \in {"write", "rename"} =>
         /\ saver[w].inode \in Inodes
         /\ saver[w].inode = tmp_path
         /\ \A b \in 1..Blocks : b < saver[w].next => data[tmp_path][b] = saver[w].manifest
    /\ saver[w].at = "write" => saver[w].next \in 1..Blocks
    /\ saver[w].at = "rename" => saver[w].next = Blocks + 1

IInv ==
  /\ TypeOK
  /\ PathWhole
  /\ tmp_path # NoInode => tmp_path # path
  /\ ReaderInv
  /\ SaverInv

LEMMA EmptyIsContent == Empty \in Content
  BY DEF Empty, Content

LEMMA InitIInv == RepoInit => IInv
<1> SUFFICES ASSUME RepoInit PROVE IInv
  OBVIOUS
<1>1. TypeOK
  BY EmptyIsContent, RepositoryAssumption
  DEF RepoInit, TypeOK, IdleSaver, IdleReader, SaverAt, ReaderAt, SaverState, ReaderState
<1> QED BY <1>1, RepositoryAssumption
        DEF RepoInit, IInv, PathWhole, ReaderInv, SaverInv, IdleSaver, IdleReader, SaverAt, ReaderAt

-----------------------------------------------------------------------------
(* The type invariant is preserved.                                        *)
LEMMA StepType == TypeOK /\ ReaderInv /\ SaverInv /\ [RepoNext]_repoVars => TypeOK'
<1> SUFFICES ASSUME TypeOK, ReaderInv, SaverInv, [RepoNext]_repoVars PROVE TypeOK'
  OBVIOUS
<1> USE RepositoryAssumption DEF fs
<1>0. IdleSaver \in SaverState /\ IdleReader \in ReaderState
  BY EmptyIsContent DEF IdleSaver, IdleReader, SaverAt, ReaderAt, SaverState, ReaderState
<1>1. ASSUME NEW w \in Savers, NEW m \in Manifests, SaveBegin(w, m) PROVE TypeOK'
  <2>1. SaverAt("open", m, NoInode, 1) \in SaverState
    BY DEF SaverAt, SaverState
  <2> QED BY <1>1, <2>1 DEF SaveBegin, TypeOK
<1>2. ASSUME NEW w \in Savers, OpenTmp(w) PROVE TypeOK'
  <2>1. PICK i \in Inodes :
          /\ tmp_path' = i
          /\ data' = [data EXCEPT ![i] = Empty]
          /\ saver' = [saver EXCEPT ![w] = SaverAt("write", saver[w].manifest, i, 1)]
    BY <1>2 DEF OpenTmp, TmpInode
  <2>2. saver[w].manifest \in Manifests
    BY <1>2 DEF OpenTmp, TmpInode, SaverInv
  <2>3. SaverAt("write", saver[w].manifest, i, 1) \in SaverState
    BY <2>2 DEF SaverAt, SaverState
  <2>4. data' \in [Inodes -> Content] /\ saver' \in [Savers -> SaverState]
    BY <2>1, <2>3, EmptyIsContent DEF TypeOK
  <2> QED BY <1>2, <2>1, <2>4 DEF OpenTmp, TmpInode, TypeOK
<1>3. ASSUME NEW w \in Savers, WriteBlock(w) PROVE TypeOK'
  <2> DEFINE n == saver[w].next
             i == saver[w].inode
             m == saver[w].manifest
             c == [data[i] EXCEPT ![n] = m]
  <2>1. n \in 1..Blocks /\ i \in Inodes /\ m \in Manifests
    BY <1>3 DEF WriteBlock, AfterBlock, SaverInv
  <2>2. /\ data' = [data EXCEPT ![i] = c]
        /\ saver' = [saver EXCEPT ![w] = SaverAt(IF n = Blocks THEN "rename" ELSE "write", m, i, n + 1)]
    BY <1>3 DEF WriteBlock, AfterBlock
  <2>3. data[i] \in Content /\ data \in [Inodes -> Content] /\ saver \in [Savers -> SaverState]
    BY <2>1 DEF TypeOK
  <2> HIDE DEF n, i, m
  <2>4. c \in Content
    BY <2>1, <2>3 DEF Content
  <2>5. SaverAt(IF n = Blocks THEN "rename" ELSE "write", m, i, n + 1) \in SaverState
    BY <2>1 DEF SaverAt, SaverState
  <2>6. data' \in [Inodes -> Content] /\ saver' \in [Savers -> SaverState]
    <3> HIDE DEF c
    <3> QED BY <2>2, <2>3, <2>4, <2>5
  <2> QED BY <1>3, <2>6 DEF WriteBlock, AfterBlock, TypeOK
<1>4. ASSUME NEW w \in Savers, Rename(w) PROVE TypeOK'
  BY <1>0, <1>4 DEF Rename, TypeOK
<1>5. ASSUME NEW w \in Savers, SaveAbandoned(w) PROVE TypeOK'
  BY <1>0, <1>5 DEF SaveAbandoned, TypeOK
<1>6. ASSUME NEW r \in Readers, LoadOpen(r) PROVE TypeOK'
  <2>1. ReaderAt("read", path, 1, Empty) \in ReaderState
    BY EmptyIsContent DEF TypeOK, ReaderState, ReaderAt
  <2> QED BY <1>6, <2>1 DEF LoadOpen, TypeOK
<1>7. ASSUME NEW r \in Readers, LoadNotFound(r) PROVE TypeOK'
  BY <1>7 DEF LoadNotFound, TypeOK
<1>8. ASSUME NEW r \in Readers, ReadBlock(r) PROVE TypeOK'
  <2> DEFINE i == reader[r].inode
             n == reader[r].next
             c == [reader[r].buf EXCEPT ![n] = data[i][n]]
  <2>1. n \in 1..Blocks /\ i \in Inodes /\ reader[r].buf \in Content /\ data[i] \in Content
    BY <1>8 DEF ReadBlock, TypeOK, ReaderState, ReaderInv
  <2>2. reader' = [reader EXCEPT ![r] = ReaderAt("read", i, n + 1, c)]
    BY <1>8 DEF ReadBlock
  <2> HIDE DEF n, i
  <2>3. c \in Content
    BY <2>1 DEF Content
  <2> HIDE DEF c
  <2>4. ReaderAt("read", i, n + 1, c) \in ReaderState
    BY <2>1, <2>3 DEF ReaderAt, ReaderState
  <2> QED BY <1>8, <2>2, <2>4 DEF ReadBlock, TypeOK
<1>9. ASSUME NEW r \in Readers, Parse(r) PROVE TypeOK'
  BY <1>0, <1>9 DEF Parse, TypeOK
<1>10. ASSUME NEW r \in Readers, LoadFails(r) PROVE TypeOK'
  BY <1>0, <1>10 DEF LoadFails, TypeOK
<1>11. CASE UNCHANGED repoVars
  BY <1>11 DEF repoVars, TypeOK
<1> QED BY <1>1, <1>2, <1>3, <1>4, <1>5, <1>6, <1>7, <1>8, <1>9, <1>10, <1>11 DEF RepoNext

-----------------------------------------------------------------------------
(* The inode a saver opens is neither published nor open for reading.      *)
LEMMA OpenedIsPrivate ==
  ASSUME IInv, NEW i \in Inodes, IF tmp_path = NoInode THEN Unused(i) ELSE i = tmp_path
  PROVE  /\ i # path
         /\ \A r \in Readers : reader[r].at = "read" => reader[r].inode # i
<1>1. CASE tmp_path = NoInode
  BY <1>1 DEF Unused
<1>2. CASE tmp_path # NoInode
  BY <1>2 DEF IInv, ReaderInv
<1> QED BY <1>1, <1>2

(* The invariant is preserved as long as there is one saver.               *)
LEMMA StepIInv ==
  ASSUME OneSaver, IInv, [RepoNext]_repoVars
  PROVE  IInv'
<1> USE RepositoryAssumption DEF fs
<1>0. TypeOK' BY StepType DEF IInv
<1>t. TypeOK /\ PathWhole /\ ReaderInv /\ SaverInv /\ (tmp_path # NoInode => tmp_path # path)
  BY DEF IInv
<1> DEFINE Rest == PathWhole /\ (tmp_path # NoInode => tmp_path # path) /\ ReaderInv /\ SaverInv
<1> SUFFICES Rest'
  BY <1>0 DEF IInv
<1>1. ASSUME NEW w \in Savers, NEW m \in Manifests, SaveBegin(w, m) PROVE Rest'
  <2>1. /\ saver' = [saver EXCEPT ![w] = SaverAt("open", m, NoInode, 1)]
        /\ UNCHANGED <<path, tmp_path, data, reader, loaded>>
    BY <1>1 DEF SaveBegin
  <2>2. saver'[w] = SaverAt("open", m, NoInode, 1) /\ \A v \in Savers \ {w} : saver'[v] = saver[v]
    BY <2>1 DEF TypeOK, IInv
  <2>3. SaverInv'
    BY <1>t, <2>1, <2>2 DEF SaverInv, SaverAt
  <2> QED BY <1>t, <2>1, <2>3 DEF PathWhole, ReaderInv
<1>2. ASSUME NEW w \in Savers, OpenTmp(w) PROVE Rest'
  <2>1. PICK i \in Inodes :
          /\ IF tmp_path = NoInode THEN Unused(i) ELSE i = tmp_path
          /\ tmp_path' = i
          /\ data' = [data EXCEPT ![i] = Empty]
          /\ saver' = [saver EXCEPT ![w] = SaverAt("write", saver[w].manifest, i, 1)]
    BY <1>2 DEF OpenTmp, TmpInode
  <2>2. UNCHANGED <<path, reader, loaded>> /\ saver[w].manifest \in Manifests
    BY <1>2, <1>t DEF OpenTmp, TmpInode, SaverInv
  <2>3. i # path /\ \A r \in Readers : reader[r].at = "read" => reader[r].inode # i
    BY <2>1, OpenedIsPrivate
  <2>4. \A j \in Inodes \ {i} : data'[j] = data[j]
    BY <2>1 DEF IInv, TypeOK
  <2>5. PathWhole' /\ tmp_path' # path'
    BY <1>t, <2>1, <2>2, <2>3, <2>4 DEF PathWhole, TypeOK
  <2>6. ReaderInv'
    BY <1>t, <2>1, <2>2, <2>3, <2>4 DEF ReaderInv
  <2>7. SaverInv'
    <3>1. saver'[w] = SaverAt("write", saver[w].manifest, i, 1)
      BY <2>1, <1>t DEF TypeOK
    <3>2. \A v \in Savers : v = w
      BY DEF OneSaver
    <3> QED BY <2>1, <2>2, <3>1, <3>2 DEF SaverInv, SaverAt
  <2> QED BY <2>5, <2>6, <2>7
<1>3. ASSUME NEW w \in Savers, WriteBlock(w) PROVE Rest'
  <2>1. PICK n, m : n = saver[w].next /\ m = saver[w].manifest
    OBVIOUS
  <2>2. /\ n \in 1..Blocks /\ m \in Manifests
        /\ saver[w].inode = tmp_path /\ tmp_path \in Inodes
        /\ \A b \in 1..Blocks : b < n => data[tmp_path][b] = m
    BY <1>3, <1>t, <2>1 DEF WriteBlock, AfterBlock, SaverInv
  <2>3. /\ data' = [data EXCEPT ![tmp_path] = [data[tmp_path] EXCEPT ![n] = m]]
        /\ saver' = [saver EXCEPT ![w] =
                       SaverAt(IF n = Blocks THEN "rename" ELSE "write", m, tmp_path, n + 1)]
        /\ UNCHANGED <<path, tmp_path, reader, loaded>>
    BY <1>3, <2>1, <2>2 DEF WriteBlock, AfterBlock
  <2>4. /\ \A j \in Inodes \ {tmp_path} : data'[j] = data[j]
        /\ data'[tmp_path] = [data[tmp_path] EXCEPT ![n] = m]
    BY <1>t, <2>2, <2>3 DEF TypeOK
  <2>5. PathWhole' /\ tmp_path' # path'
    BY <1>t, <2>2, <2>3, <2>4 DEF PathWhole, TypeOK
  <2>6. ReaderInv'
    BY <1>t, <2>3, <2>4 DEF ReaderInv
  <2>7. SaverInv'
    <3>1. saver'[w] = SaverAt(IF n = Blocks THEN "rename" ELSE "write", m, tmp_path, n + 1)
      BY <1>t, <2>3 DEF TypeOK
    <3>2. \A v \in Savers : v = w
      BY DEF OneSaver
    <3>3. \A b \in 1..Blocks : b < n + 1 => data'[tmp_path'][b] = m
      BY <1>t, <2>2, <2>3, <2>4 DEF TypeOK, Content
    <3> QED BY <2>2, <2>3, <3>1, <3>2, <3>3 DEF SaverInv, SaverAt
  <2> QED BY <2>5, <2>6, <2>7
<1>4. ASSUME NEW w \in Savers, Rename(w) PROVE Rest'
  <2>1. /\ path' = tmp_path /\ tmp_path' = NoInode /\ tmp_path # NoInode
        /\ saver' = [saver EXCEPT ![w] = IdleSaver]
        /\ UNCHANGED <<data, reader, loaded>>
    BY <1>4 DEF Rename
  <2>2. /\ saver[w].manifest \in Manifests
        /\ \A b \in 1..Blocks : b < Blocks + 1 => data[tmp_path][b] = saver[w].manifest
    BY <1>4, <1>t DEF Rename, SaverInv
  <2>3. data[tmp_path] = Json(saver[w].manifest)
    BY <1>t, <2>1, <2>2 DEF TypeOK, Content, Json
  <2>4. PathWhole' BY <2>1, <2>2, <2>3 DEF PathWhole
  <2>5. ReaderInv' BY <1>t, <2>1 DEF ReaderInv, TypeOK
  <2>6. SaverInv'
    <3>1. saver'[w] = IdleSaver BY <1>t, <2>1 DEF TypeOK
    <3>2. \A v \in Savers : v = w BY DEF OneSaver
    <3> QED BY <3>1, <3>2 DEF SaverInv, IdleSaver, SaverAt
  <2> QED BY <2>1, <2>4, <2>5, <2>6
<1>5. ASSUME NEW w \in Savers, SaveAbandoned(w) PROVE Rest'
  <2>1. saver' = [saver EXCEPT ![w] = IdleSaver] /\ UNCHANGED <<path, tmp_path, data, reader, loaded>>
    BY <1>5 DEF SaveAbandoned
  <2>2. saver'[w] = IdleSaver BY <1>t, <2>1 DEF TypeOK
  <2>3. \A v \in Savers : v = w BY DEF OneSaver
  <2>4. SaverInv' BY <2>2, <2>3 DEF SaverInv, IdleSaver, SaverAt
  <2> QED BY <1>t, <2>1, <2>4 DEF PathWhole, ReaderInv
<1>6. ASSUME NEW r \in Readers, LoadOpen(r) PROVE Rest'
  <2>1. /\ path # NoInode
        /\ reader' = [reader EXCEPT ![r] = ReaderAt("read", path, 1, Empty)]
        /\ UNCHANGED <<path, tmp_path, data, saver, loaded>>
    BY <1>6 DEF LoadOpen
  <2>2. /\ reader'[r] = ReaderAt("read", path, 1, Empty)
        /\ \A q \in Readers \ {r} : reader'[q] = reader[q]
    BY <1>t, <2>1 DEF TypeOK
  <2>3. path \in Inodes /\ path # tmp_path /\ \E m \in Manifests : data[path] = Json(m)
    BY <1>t, <2>1 DEF TypeOK, PathWhole
  <2>4. ReaderInv' BY <1>t, <2>1, <2>2, <2>3 DEF ReaderInv, ReaderAt
  <2> QED BY <1>t, <2>1, <2>4 DEF PathWhole, SaverInv
<1>7. ASSUME NEW r \in Readers, ReadBlock(r) PROVE Rest'
  <2>1. PICK i, n : i = reader[r].inode /\ n = reader[r].next
    OBVIOUS
  <2>2. PICK c : c = [reader[r].buf EXCEPT ![n] = data[i][n]]
    OBVIOUS
  <2>3. /\ reader' = [reader EXCEPT ![r] = ReaderAt("read", i, n + 1, c)]
        /\ UNCHANGED <<path, tmp_path, data, saver, loaded>>
    BY <1>7, <2>1, <2>2 DEF ReadBlock
  <2>4. /\ reader'[r] = ReaderAt("read", i, n + 1, c)
        /\ \A q \in Readers \ {r} : reader'[q] = reader[q]
    BY <1>t, <2>3 DEF TypeOK
  <2>5. /\ i \in Inodes /\ i # tmp_path /\ n \in 1..Blocks
        /\ \E m \in Manifests : data[i] = Json(m)
        /\ \A b \in 1..Blocks : b < n => reader[r].buf[b] = data[i][b]
        /\ reader[r].buf \in Content
    BY <1>7, <1>t, <2>1 DEF ReadBlock, ReaderInv, TypeOK, ReaderState
  <2>6. \A b \in 1..Blocks : b < n + 1 => c[b] = data[i][b]
    BY <2>2, <2>5 DEF Content
  <2>7. ReaderInv' BY <1>t, <2>3, <2>4, <2>5, <2>6 DEF ReaderInv, ReaderAt
  <2> QED BY <1>t, <2>3, <2>7 DEF PathWhole, SaverInv
<1>8. ASSUME NEW r \in Readers, Parse(r) \/ LoadFails(r) PROVE Rest'
  <2>1. reader' = [reader EXCEPT ![r] = IdleReader] /\ UNCHANGED <<path, tmp_path, data, saver>>
    BY <1>8 DEF Parse, LoadFails
  <2>2. reader'[r] = IdleReader /\ \A q \in Readers \ {r} : reader'[q] = reader[q]
    BY <1>t, <2>1 DEF TypeOK
  <2>3. ReaderInv' BY <1>t, <2>1, <2>2 DEF ReaderInv, IdleReader, ReaderAt
  <2> QED BY <1>t, <2>1, <2>3 DEF PathWhole, SaverInv
<1>9. ASSUME NEW r \in Readers, LoadNotFound(r) PROVE Rest'
  BY <1>t, <1>9 DEF LoadNotFound, PathWhole, ReaderInv, SaverInv
<1>10. CASE UNCHANGED repoVars
  BY <1>t, <1>10 DEF repoVars, PathWhole, ReaderInv, SaverInv
<1> QED BY <1>1, <1>2, <1>3, <1>4, <1>5, <1>6, <1>7, <1>8, <1>9, <1>10 DEF RepoNext

-----------------------------------------------------------------------------
(* For one saver, any number of readers and any crashes: the inductive     *)
(* invariant holds in every behaviour.                                     *)
THEOREM Invariance ==
  ASSUME OneSaver
  PROVE  RepoSpec => []IInv
<1>1. RepoInit => IInv BY InitIInv
<1>2. IInv /\ [RepoNext]_repoVars => IInv' BY StepIInv
<1> QED BY <1>1, <1>2, PTL DEF RepoSpec

(* The bytes under path are one whole manifest at every moment.            *)
THEOREM PathAlwaysWhole ==
  ASSUME OneSaver
  PROVE  RepoSpec => []PathWhole
<1>1. IInv => PathWhole BY DEF IInv
<1> QED BY <1>1, Invariance, PTL

(* No save in progress holds a file a reader can see or has open.          *)
THEOREM PublishedStaysFrozen ==
  ASSUME OneSaver
  PROVE  RepoSpec => []PublishedFrozen
<1>1. ASSUME IInv PROVE PublishedFrozen
  <2>1. TypeOK /\ ReaderInv /\ SaverInv /\ (tmp_path # NoInode => tmp_path # path)
    BY <1>1 DEF IInv
  <2>2. \A w \in Savers : saver[w].at \in {"write", "rename"} =>
          saver[w].inode = tmp_path /\ tmp_path # NoInode
    BY <2>1, RepositoryAssumption DEF SaverInv
  <2> QED BY <2>1, <2>2 DEF PublishedFrozen, ReaderInv
<1> QED BY <1>1, Invariance, PTL

(* A load that has read every block has the bytes of the manifest its file *)
(* holds.                                                                  *)
LEMMA ReadWhole ==
  ASSUME IInv, NEW r \in Readers, Parse(r)
  PROVE  \E m \in Manifests : /\ reader[r].buf = Json(m)
                              /\ HeldIn(reader[r].inode) = m
<1> USE RepositoryAssumption
<1>1. /\ reader[r].at = "read" /\ reader[r].next = Blocks + 1
      /\ reader[r].inode \in Inodes
      /\ reader[r].buf \in Content
    BY DEF Parse, IInv, ReaderInv, TypeOK, ReaderState
<1>2. PICK m \in Manifests : data[reader[r].inode] = Json(m)
    BY <1>1 DEF IInv, ReaderInv
<1>3. \A b \in 1..Blocks : b < Blocks + 1 => reader[r].buf[b] = data[reader[r].inode][b]
    BY <1>1 DEF IInv, ReaderInv
<1>4. \A b \in 1..Blocks : reader[r].buf[b] = m
    BY <1>2, <1>3 DEF Json
<1>5. reader[r].buf = Json(m)
    BY <1>1, <1>4 DEF Content, Json
<1>6. data[reader[r].inode][1] = m
    BY <1>2 DEF Json
<1>7. HeldIn(reader[r].inode) = m
    BY <1>1, <1>6 DEF HeldIn
<1> QED BY <1>5, <1>7

LEMMA JsonInjective ==
  ASSUME NEW m, NEW n, Json(m) = Json(n)
  PROVE  m = n
<1>1. Json(m)[1] = m /\ Json(n)[1] = n BY RepositoryAssumption DEF Json
<1> QED BY <1>1

(* What Parse returns is what the opened file holds.                       *)
LEMMA ParseReturnsHeld ==
  ASSUME IInv, NEW r \in Readers, Parse(r)
  PROVE  /\ loaded' = [loaded EXCEPT ![r] = HeldIn(reader[r].inode)]
         /\ HeldIn(reader[r].inode) \in Manifests
<1>1. PICK m \in Manifests : reader[r].buf = Json(m) /\ HeldIn(reader[r].inode) = m
    BY ReadWhole
<1>2. \E n \in Manifests : reader[r].buf = Json(n) /\ loaded' = [loaded EXCEPT ![r] = n]
    BY <1>1 DEF Parse
<1> QED BY <1>1, <1>2, JsonInjective

(* No load ever meets bytes that do not parse.                             *)
THEOREM LoadsParse ==
  ASSUME OneSaver
  PROVE  RepoSpec => []NeverCorrupt
<1> USE RepositoryAssumption DEF fs
<1>1. RepoInit => NeverCorrupt
  BY DEF RepoInit, NeverCorrupt
<1>2. ASSUME IInv, NeverCorrupt, [RepoNext]_repoVars PROVE NeverCorrupt'
  <2>1. loaded \in [Readers -> Manifests \cup {NotFound, IoError, Serialization}]
    BY <1>2 DEF IInv, TypeOK
  <2>2. ASSUME NEW r \in Readers, Parse(r) PROVE NeverCorrupt'
    BY <1>2, <2>1, <2>2, ParseReturnsHeld DEF NeverCorrupt
  <2>3. ASSUME NEW r \in Readers, LoadNotFound(r) PROVE NeverCorrupt'
    BY <1>2, <2>1, <2>3 DEF NeverCorrupt, LoadNotFound
  <2>4. ASSUME NEW r \in Readers, LoadFails(r) PROVE NeverCorrupt'
    BY <1>2, <2>1, <2>4 DEF NeverCorrupt, LoadFails
  <2>5. CASE UNCHANGED loaded
    BY <1>2, <2>5 DEF NeverCorrupt
  <2>6. UNCHANGED loaded \/ \E r \in Readers : Parse(r) \/ LoadNotFound(r) \/ LoadFails(r)
    BY <1>2 DEF RepoNext, repoVars, SaveBegin, OpenTmp, WriteBlock, Rename, SaveAbandoned,
                LoadOpen, ReadBlock
  <2> QED BY <2>2, <2>3, <2>4, <2>5, <2>6
<1> QED BY <1>1, <1>2, Invariance, PTL DEF RepoSpec

-----------------------------------------------------------------------------
(* Refinement.  A step of a saver other than Rename changes neither the    *)
(* manifest under path nor any file a reader has open.                     *)
LEMMA SaverStutters ==
  ASSUME IInv, NEW w \in Savers,
         \/ \E m \in Manifests : SaveBegin(w, m)
         \/ OpenTmp(w) \/ WriteBlock(w) \/ SaveAbandoned(w)
  PROVE  UNCHANGED <<HeldIn(path), BoundToReturn>>
<1> USE RepositoryAssumption DEF fs
<1>1. UNCHANGED <<path, reader, loaded>>
  BY DEF SaveBegin, OpenTmp, WriteBlock, SaveAbandoned
<1>2. \A j \in Inodes :
        j = path \/ (\E r \in Readers : reader[r].at = "read" /\ reader[r].inode = j)
          => data'[j] = data[j]
  <2>1. CASE UNCHANGED data
    BY <2>1
  <2>2. CASE OpenTmp(w)
    <3>1. PICK i \in Inodes : /\ IF tmp_path = NoInode THEN Unused(i) ELSE i = tmp_path
                              /\ data' = [data EXCEPT ![i] = Empty]
      BY <2>2 DEF OpenTmp, TmpInode
    <3>2. i # path /\ \A r \in Readers : reader[r].at = "read" => reader[r].inode # i
      BY <3>1, OpenedIsPrivate
    <3> QED BY <3>1, <3>2 DEF IInv, TypeOK
  <2>3. CASE WriteBlock(w)
    <3>1. saver[w].inode = tmp_path /\ saver[w].inode \in Inodes
      BY <2>3 DEF WriteBlock, AfterBlock, IInv, SaverInv
    <3>2. \A j \in Inodes \ {tmp_path} : data'[j] = data[j]
      BY <2>3, <3>1 DEF WriteBlock, AfterBlock, IInv, TypeOK
    <3>3. path # tmp_path /\ \A r \in Readers : reader[r].at = "read" => reader[r].inode # tmp_path
      BY <3>1 DEF IInv, ReaderInv
    <3> QED BY <3>2, <3>3
  <2> QED BY <2>1, <2>2, <2>3 DEF SaveBegin, SaveAbandoned
<1>3. HeldIn(path)' = HeldIn(path)
  BY <1>1, <1>2 DEF HeldIn, IInv, TypeOK
<1>4. \A r \in Readers : reader[r].at = "read" => HeldIn(reader[r].inode)' = HeldIn(reader[r].inode)
  BY <1>1, <1>2 DEF HeldIn, IInv, ReaderInv
<1>5. BoundToReturn' = BoundToReturn
  BY <1>1, <1>4 DEF BoundToReturn
<1> QED BY <1>3, <1>5

(* Rename publishes the saver's manifest, and no open load notices.        *)
LEMMA RenameSaves ==
  ASSUME IInv, NEW w \in Savers, Rename(w)
  PROVE  \E m \in Manifests : Store!Save(m)
<1> USE RepositoryAssumption
<1>1. /\ path' = tmp_path /\ tmp_path # NoInode
      /\ UNCHANGED <<data, reader, loaded>>
  BY DEF Rename
<1>2. /\ saver[w].manifest \in Manifests
      /\ \A b \in 1..Blocks : b < Blocks + 1 => data[tmp_path][b] = saver[w].manifest
  BY DEF Rename, IInv, SaverInv
<1>3. HeldIn(path)' = saver[w].manifest
  BY <1>1, <1>2 DEF HeldIn
<1>4. BoundToReturn' = BoundToReturn
  BY <1>1 DEF BoundToReturn, HeldIn
<1> QED BY <1>2, <1>3, <1>4 DEF Store!Save

(* When reader r's bound result becomes v and no other changes, the store  *)
(* sees a load that returns v.                                             *)
LEMMA BoundUpdate ==
  ASSUME NEW r \in Readers, NEW v,
         BoundToReturn'[r] = v,
         \A q \in Readers \ {r} : BoundToReturn'[q] = BoundToReturn[q]
  PROVE  BoundToReturn' = [BoundToReturn EXCEPT ![r] = v]
<1>1. BoundToReturn = [q \in Readers |-> BoundToReturn[q]]
  BY DEF BoundToReturn
<1>2. BoundToReturn' = [q \in Readers |-> BoundToReturn'[q]]
  BY DEF BoundToReturn
<1> HIDE DEF BoundToReturn
<1> QED BY <1>1, <1>2

(* The steps of a load: opening binds its result, a missing file or an I/O *)
(* error is a load that returns so, the rest stutters.                     *)
LEMMA LoadSteps ==
  ASSUME IInv, NEW r \in Readers,
         LoadOpen(r) \/ LoadNotFound(r) \/ ReadBlock(r) \/ Parse(r) \/ LoadFails(r)
  PROVE  Store!Load(r) \/ UNCHANGED <<HeldIn(path), BoundToReturn>>
<1> USE RepositoryAssumption DEF fs
<1>1. UNCHANGED <<path, data>>
  BY DEF LoadOpen, LoadNotFound, ReadBlock, Parse, LoadFails
<1>2. HeldIn(path)' = HeldIn(path) /\ \A i : HeldIn(i)' = HeldIn(i)
  BY <1>1 DEF HeldIn
<1>3. reader \in [Readers -> ReaderState] /\ loaded \in [Readers -> Manifests \cup {NotFound, IoError, Serialization}]
  BY DEF IInv, TypeOK
<1>4. \A q \in Readers \ {r} : reader'[q] = reader[q] /\ loaded'[q] = loaded[q]
  BY <1>3 DEF LoadOpen, LoadNotFound, ReadBlock, Parse, LoadFails
<1>5. \A q \in Readers \ {r} : BoundToReturn'[q] = BoundToReturn[q]
  BY <1>1, <1>4 DEF BoundToReturn, HeldIn
<1>6. ASSUME BoundToReturn'[r] \in {HeldIn(path), IoError} PROVE Store!Load(r)
  <2>1. BoundToReturn' = [BoundToReturn EXCEPT ![r] = BoundToReturn'[r]]
    BY <1>5, BoundUpdate
  <2> QED BY <1>2, <1>6, <2>1 DEF Store!Load
<1>7. ASSUME BoundToReturn'[r] = BoundToReturn[r] PROVE UNCHANGED <<HeldIn(path), BoundToReturn>>
  <2>1. \A q \in Readers : BoundToReturn'[q] = BoundToReturn[q]
    BY <1>5, <1>7
  <2>2. BoundToReturn' = BoundToReturn
    BY <2>1 DEF BoundToReturn
  <2> QED BY <1>2, <2>2
<1>8. CASE LoadOpen(r)
  <2>1. reader'[r].at = "read" /\ reader'[r].inode = path
    BY <1>3, <1>8 DEF LoadOpen, ReaderAt
  <2>2. BoundToReturn'[r] = HeldIn(path)
    BY <1>1, <2>1 DEF BoundToReturn, HeldIn
  <2> QED BY <1>6, <2>2
<1>9. CASE LoadNotFound(r)
  <2>1. reader'[r] = reader[r] /\ reader[r].at = "idle" /\ loaded'[r] = NotFound /\ path = NoInode
    BY <1>3, <1>9 DEF LoadNotFound
  <2>2. BoundToReturn'[r] = NotFound /\ HeldIn(path) = NotFound
    BY <2>1 DEF BoundToReturn, HeldIn
  <2> QED BY <1>6, <2>2
<1>10. CASE ReadBlock(r)
  <2>1. /\ reader[r].at = "read" /\ reader'[r].at = "read" /\ reader'[r].inode = reader[r].inode
    BY <1>3, <1>10 DEF ReadBlock, ReaderAt
  <2>2. BoundToReturn'[r] = BoundToReturn[r]
    BY <1>1, <2>1 DEF BoundToReturn, HeldIn
  <2> QED BY <1>7, <2>2
<1>11. CASE Parse(r)
  <2>1. reader[r].at = "read" /\ reader'[r].at = "idle"
    BY <1>3, <1>11 DEF Parse, IdleReader, ReaderAt
  <2>2. loaded'[r] = HeldIn(reader[r].inode)
    BY <1>3, <1>11, ParseReturnsHeld
  <2>3. BoundToReturn'[r] = BoundToReturn[r]
    BY <2>1, <2>2 DEF BoundToReturn
  <2> QED BY <1>7, <2>3
<1>12. CASE LoadFails(r)
  <2>1. reader'[r].at = "idle" /\ loaded'[r] = IoError
    BY <1>3, <1>12 DEF LoadFails, IdleReader, ReaderAt
  <2>2. BoundToReturn'[r] = IoError
    BY <2>1 DEF BoundToReturn
  <2> QED BY <1>6, <2>2
<1> QED BY <1>8, <1>9, <1>10, <1>11, <1>12

(* With one saver the temporary-file-and-rename protocol implements the    *)
(* Repository trait's promise: a save is one step, a load returns what was *)
(* stored at one moment, whatever crashes and however the steps interleave *)
THEOREM Implementation ==
  ASSUME OneSaver
  PROVE  RepoSpec => ImplementsStore
<1>1. RepoInit => Store!StoreInit
  <2> SUFFICES ASSUME RepoInit PROVE Store!StoreInit
    OBVIOUS
  <2>1. HeldIn(path) = NotFound
    BY DEF RepoInit, HeldIn
  <2>2. BoundToReturn = [r \in Readers |-> NotFound]
    BY DEF RepoInit, BoundToReturn, IdleReader, ReaderAt
  <2> QED BY <2>1, <2>2 DEF Store!StoreInit
<1>2. ASSUME IInv, [RepoNext]_repoVars PROVE [Store!StoreNext]_(Store!storeVars)
  <2>1. CASE UNCHANGED repoVars
    BY <2>1 DEF repoVars, Store!storeVars, HeldIn, BoundToReturn
  <2>2. ASSUME NEW w \in Savers, Rename(w) PROVE Store!StoreNext
    BY <1>2, <2>2, RenameSaves DEF Store!StoreNext
  <2>3. ASSUME NEW w \in Savers,
               \/ \E m \in Manifests : SaveBegin(w, m)
               \/ OpenTmp(w) \/ WriteBlock(w) \/ SaveAbandoned(w)
        PROVE  UNCHANGED Store!storeVars
    BY <1>2, <2>3, SaverStutters DEF Store!storeVars
  <2>4. ASSUME NEW r \in Readers,
               LoadOpen(r) \/ LoadNotFound(r) \/ ReadBlock(r) \/ Parse(r) \/ LoadFails(r)
        PROVE  Store!StoreNext \/ UNCHANGED Store!storeVars
    BY <1>2, <2>4, LoadSteps DEF Store!StoreNext, Store!storeVars
  <2> QED BY <1>2, <2>1, <2>2, <2>3, <2>4 DEF RepoNext
<1> QED BY <1>1, <1>2, Invariance, PTL DEF RepoSpec, ImplementsStore, Store!StoreSpec
=============================================================================
