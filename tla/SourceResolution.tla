--------------------------- MODULE SourceResolution ---------------------------
(***************************************************************************)
(* Step 3 of the manifest compiler: the storage configuration of a dataset *)
(* becomes a set of sources (crates/semstrait-manifest/src/steps.rs);      *)
(* nothing in the compiler depends on their order.                         *)
(* A pattern with glob characters is expanded by the storage provider or   *)
(* by a catalog; a table's metadata is asked of its catalog.               *)
(*                                                                         *)
(* A storage is [paths, tables : sequences of patterns, format : BOOLEAN,  *)
(* partitioned : BOOLEAN].  The environment is [storage : BOOLEAN, is there *)
(* a storage provider; registry : None or a function from aliases to       *)
(* catalogs; legacy : None or a catalog].  A listing gives the names that  *)
(* the provider finds for a pattern; outside its domain the provider fails. *)
(***************************************************************************)
EXTENDS Naturals, Sequences, FiniteSets, SequencesExt

CONSTANTS
  None,         \* an absent option
  Globs         \* the patterns that contains_glob_chars accepts

Failed == "failed"

(* A map's entries, those of f before those of g (the @@ of module TLC,    *)
(* which the provers cannot look into).                                    *)
Over(f, g) == [x \in DOMAIN f \union DOMAIN g |-> IF x \in DOMAIN f THEN f[x] ELSE g[x]]

(* A concrete source, the SourceType of a path or of a table.              *)
ResolvedSource(reference, type, target, alias, schema) ==
  [reference |-> reference, type |-> type, target |-> target, alias |-> alias, schema |-> schema]

(* What a catalog answers about a table: extended metadata, none of it but *)
(* a basic schema, neither, or an error.                                   *)
TableAnswers == {"metadata", "schema", "bare", Failed}

(* The catalog asked for tables: an alias is looked up in the registry and *)
(* nowhere else; without an alias or a registry it is the legacy catalog.  *)
Provider(alias, env) ==
  IF alias # None /\ env.registry # None
    THEN IF alias \in DOMAIN env.registry THEN env.registry[alias] ELSE None
    ELSE env.legacy

(* The names a pattern stands for.                                         *)
Expanded(p, listing) == IF p \in Globs THEN listing[p] ELSE {p}

(* A glob needs a provider, and the provider's answer.                     *)
CannotExpand(ps, provided, listing) ==
  \E p \in Range(ps) \intersect Globs : ~provided \/ p \notin DOMAIN listing

(* The loop over storage.paths: a failure to read a schema is no error.    *)
PathSources(st, env, listing, readable) ==
  UNION {{ResolvedSource(p, "path", t, None, env.storage /\ st.format /\ readable) :
            t \in Expanded(p, listing)} : p \in Range(st.paths)}

(* The loop over storage.tables: a catalog that cannot answer about a      *)
(* table leaves the source bare.                                           *)
TableSources(st, alias, env, listing, answer) ==
  LET known == Provider(alias, env) # None
  IN  UNION {{ResolvedSource(p, "table", t, alias, known /\ answer[t] \in {"metadata", "schema"}) :
                t \in Expanded(p, listing)} : p \in Range(st.tables)}

Tables(st, listing) == UNION {Expanded(p, listing) : p \in Range(st.tables)}

(* The table snapshots taken on the way, by the table's name: the catalog  *)
(* that described it.                                                      *)
Snapshots(st, alias, env, listing, answer) ==
  LET cat == Provider(alias, env)
  IN  [t \in {u \in Tables(st, listing) : cat # None /\ answer[u] \in {"metadata", "schema"}} |-> cat]

(* As ResolutionWarnings without the patterns that matched nothing.        *)
TableWarnings(name, st, alias, env, listing, answer) ==
  {<<"CAT_W002", name, t>> : t \in {u \in Tables(st, listing) : Provider(alias, env) # None /\ answer[u] = Failed}}

(* SRC_W001 and SRC_W002, by the dataset and the pattern, and CAT_W002, by *)
(* the table.                                                              *)
ResolutionWarnings(name, st, alias, env, listing, answer) ==
  {<<"SRC_W001", name, p>> : p \in {q \in Range(st.paths) : q \in Globs /\ listing[q] = {}}}
    \union {<<"SRC_W002", name, p>> : p \in {q \in Range(st.tables) : q \in Globs /\ listing[q] = {}}}
    \union {<<"CAT_W002", name, t>> :
              t \in {u \in Tables(st, listing) : Provider(alias, env) # None /\ answer[u] = Failed}}

(* resolve_dataset_storage fails.                                          *)
ResolutionFails(st, alias, env, listing) ==
  \/ CannotExpand(st.paths, env.storage, listing)
  \/ CannotExpand(st.tables, Provider(alias, env) # None, listing)

(* build_fallback_sources: the patterns themselves, with nothing resolved. *)
FallbackSources(st) ==
  {ResolvedSource(p, "path", None, None, FALSE) : p \in Range(st.paths)}
    \union {ResolvedSource(t, "table", None, None, FALSE) : t \in Range(st.tables)}

(* resolve_dataset_sources and resolve_child_dataset_sources: what step 3  *)
(* stored under the dataset's name, or the fallback.                       *)
SourcesOf(name, st, resolved) ==
  IF name \in DOMAIN resolved THEN resolved[name]
  ELSE IF st = None THEN {}
  ELSE FallbackSources(st)
===============================================================================
