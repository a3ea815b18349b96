--------------------------- MODULE ManifestStore ---------------------------
(* What the Repository trait (crates/semstrait-manifest/src/repository.rs) *)
(* promises: save replaces the stored manifest in one step, load returns   *)
(* the manifest that is stored.  InMemoryRepository does it with a lock.   *)
CONSTANTS
  Readers, Manifests,
  NotFound, IoError        (* RepositoryError                              *)

VARIABLES
  stored,                  (* the manifest, or NotFound before any save    *)
  loaded                   (* what each reader's last load returned        *)

storeVars == <<stored, loaded>>

StoreInit ==
  /\ stored = NotFound
  /\ loaded = [r \in Readers |-> NotFound]

(* InMemoryRepository::save: the write lock makes it one step.             *)
Save(m) ==
  /\ stored' = m
  /\ UNCHANGED loaded

(* InMemoryRepository::load, and the I/O error any other backend may give. *)
Load(r) ==
  /\ \E res \in {stored, IoError} : loaded' = [loaded EXCEPT ![r] = res]
  /\ UNCHANGED stored

StoreNext ==
  \/ \E m \in Manifests : Save(m)
  \/ \E r \in Readers : Load(r)

StoreSpec == StoreInit /\ [][StoreNext]_storeVars
=============================================================================
