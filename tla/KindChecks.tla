------------------------------ MODULE KindChecks ------------------------------
(***************************************************************************)
(* Steps 4 to 5.5 of the manifest compiler: the structural validators of a *)
(* model and the expansion of its column mappings                          *)
(* (crates/semstrait-manifest/src/steps.rs).                               *)
(*                                                                         *)
(* A model is a function from kind names to kinds.  A kind is              *)
(*   [variant, dims, measures, metrics, keys, temporal, catalog, mapping,  *)
(*    children, rels]                                                      *)
(* with dims, measures and metrics functions from names, and children a    *)
(* sequence of datasets [name, storage, catalog, temporal, mapping] and of *)
(* references [ref, variant].  The one child of a simple kind is the       *)
(* kind's own dataset.                                                     *)
(*                                                                         *)
(* A temporal configuration is [shape, dimension, grain, column]; grains   *)
(* are numbered by their coarseness, from the finest.  A mapping is [mode, *)
(* entries]; an entry is a Column, Graded, Lit or Anchored value.          *)
(***************************************************************************)
EXTENDS SourceResolution, TLC, FiniteSetsExt

CONSTANTS
  Grains,       \* 1 .. n, TemporalGrain::ALL by coarseness
  Reserved      \* the anchor names that are keywords of a mapping

Inline(k) == {i \in DOMAIN k.children : "ref" \notin DOMAIN k.children[i]}
Refs(k) == {k.children[i] : i \in DOMAIN k.children \ Inline(k)}
Datasets(k) == {k.children[i] : i \in Inline(k)}
Complex(m) == {n \in DOMAIN m : m[n].variant # "simple"}

(***************************************************************************)
(* Values of a column mapping.                                             *)
(***************************************************************************)
Column(c) == [t |-> "column", column |-> c, grain |-> None]
Graded(c, g) == [t |-> "graded", column |-> c, grain |-> g]
Anchored(f) == [t |-> "anchored", anchors |-> f]
Lit == [t |-> "literal"]
Explicit(f) == [mode |-> "explicit", entries |-> f]
AutoMapping == [mode |-> "auto"]
Inherited == [mode |-> "inherited"]

(***************************************************************************)
(* validate_structure                                                      *)
(***************************************************************************)

(* As NestingDepths with the levels of a reference to a kind not counted.  *)
NestingDepthsFlat(m) == [k \in DOMAIN m |-> IF Refs(m[k]) = {} THEN 0 ELSE 1]

(* measure_nesting_depth, followed for at most as many references as there *)
(* are kinds: one more and the references go round.                        *)
NestingDepths(m) ==
  LET n == Cardinality(DOMAIN m) + 1
      depth[i \in 0 .. n] ==
        [k \in DOMAIN m |->
           IF i = 0 \/ Refs(m[k]) = {} THEN 0
           ELSE Max({IF r.ref \in DOMAIN m THEN 1 + depth[i - 1][r.ref] ELSE 1 : r \in Refs(m[k])})]
  IN  depth[n]

(* The recursion of measure_nesting_depth has no guard against references  *)
(* that go round, and never comes back from them.                          *)
NestingEndless(m) == \E k \in Complex(m) : NestingDepths(m)[k] > Cardinality(DOMAIN m)

MaxNesting == 2

StructureErrors(m) ==
  {<<"no dataset", k>> : k \in {n \in Complex(m) : m[n].children = <<>>}}
    \union {<<"no relationship", k>> : k \in {n \in Complex(m) : m[n].variant = "joinset" /\ m[n].rels = <<>>}}
    \union {<<"nesting", k>> : k \in {n \in Complex(m) :
              \E r \in Refs(m[n]) : m[n].variant \in {"grainset", "joinset"} /\ r.variant = m[n].variant}}
    \union {<<"nesting depth", k>> : k \in {n \in Complex(m) : NestingDepths(m)[n] > MaxNesting}}

(***************************************************************************)
(* validate_temporal_equivalence and validate_temporal_dimension_consistency*)
(***************************************************************************)
TemporalErrors(m) ==
  {k \in Complex(m) : /\ m[k].temporal # None
                      /\ \E d \in Datasets(m[k]) : /\ d.temporal # None
                                                   /\ d.temporal.shape # m[k].temporal.shape}

NamedTemporalDims(k) ==
  {d.temporal.dimension : d \in {e \in Datasets(k) : e.temporal # None}} \ {None}

TemporalDimensionErrors(m) == {k \in Complex(m) : Cardinality(NamedTemporalDims(m[k])) > 1}

(***************************************************************************)
(* validate_storage                                                        *)
(***************************************************************************)
StorageConfigErrors(st) ==
  {e \in {"mixed", "no source", "paths need a format", "tables have no format", "empty source"} :
     CASE e = "mixed" -> st.paths # <<>> /\ st.tables # <<>>
       [] e = "no source" -> st.paths = <<>> /\ st.tables = <<>>
       [] e = "paths need a format" -> st.paths # <<>> /\ ~st.format
       [] e = "tables have no format" -> st.tables # <<>> /\ st.format
       [] e = "empty source" -> "" \in Range(st.paths) \union Range(st.tables)}

StorageErrors(m) ==
  {k \in DOMAIN m : \E d \in Datasets(m[k]) : d.storage # None /\ StorageConfigErrors(d.storage) # {}}

(***************************************************************************)
(* validate_metadata_dimensions: a path needs sources, a partition level   *)
(* needs the one partition definition a storage can have.                  *)
(***************************************************************************)
MetadataUnmet(dim, d) ==
  \/ dim.path /\ (d.storage = None \/ (d.storage.paths = <<>> /\ d.storage.tables = <<>>))
  \/ /\ dim.level # None
     /\ \/ dim.level = 0
        \/ d.storage = None
        \/ ~d.storage.partitioned
        \/ dim.level > 1
  \/ ~dim.path /\ dim.level = None

MetadataErrors(m) ==
  {k \in Complex(m) : \E n \in DOMAIN m[k].dims, d \in Datasets(m[k]) :
                        m[k].dims[n].type = "metadata" /\ MetadataUnmet(m[k].dims[n], d)}

(***************************************************************************)
(* Names: collect_mappable_names and collect_interface_names.              *)
(***************************************************************************)
MappableNames(k) ==
  {n \in DOMAIN k.dims : k.dims[n].type # "metadata" /\ ~k.dims[n].computed} \union DOMAIN k.measures

InterfaceNames(k) == DOMAIN k.dims \union DOMAIN k.measures \union DOMAIN k.metrics

(***************************************************************************)
(* expand_auto_mappings                                                    *)
(***************************************************************************)
IdentityMap(k) == [n \in MappableNames(k) |-> Column(n)]

KindDefault(k) ==
  IF k.mapping = None THEN None
  ELSE IF k.mapping.mode = "explicit" THEN k.mapping.entries
  ELSE IdentityMap(k)

EmptyMap == [n \in {} |-> None]

(* The entries in force for a dataset: a simple kind starts from the       *)
(* identity, a dataset of a complex kind from the kind's default.          *)
EffectiveEntries(k, d) ==
  CASE d.mapping.mode = "explicit" /\ k.variant = "simple" -> Over(d.mapping.entries, IdentityMap(k))
    [] d.mapping.mode = "explicit" /\ k.variant # "simple" ->
         Over(d.mapping.entries, IF KindDefault(k) = None THEN EmptyMap ELSE KindDefault(k))
    [] d.mapping.mode = "inherited" /\ k.variant # "simple" /\ KindDefault(k) # None -> KindDefault(k)
    [] OTHER -> IdentityMap(k)

AnchoredNames(f) == {n \in DOMAIN f : f[n].t = "anchored"}
SubNames(f) == UNION {DOMAIN f[n].anchors : n \in AnchoredNames(f)}

(* The anchors' names become entries unless the name has one.  Where two   *)
(* anchored entries give a name, the order of a hash map decides.          *)
Flattenings(f) ==
  LET new == SubNames(f) \ DOMAIN f
      from == {g \in [new -> AnchoredNames(f)] : \A s \in new : s \in DOMAIN f[g[s]].anchors}
  IN  {Over(f, [s \in new |-> Column(f[g[s]].anchors[s])]) : g \in from}

(* As WithTemporalGrain with an explicit grain overwritten.                *)
WithTemporalGrainAlways(f, tmp) ==
  IF tmp = None \/ tmp.grain = None \/ tmp.dimension \notin DOMAIN f THEN f
  ELSE [f EXCEPT ![tmp.dimension] = Graded(tmp.column, tmp.grain)]

(* Grain propagation: the temporal dimension that is mapped to the column  *)
(* of the temporal configuration takes its grain, unless it has one.       *)
WithTemporalGrain(f, tmp) ==
  IF \/ tmp = None
     \/ tmp.grain = None \/ tmp.dimension = None \/ tmp.column = None
     \/ tmp.dimension \notin DOMAIN f
     \/ f[tmp.dimension].t \in {"anchored", "literal"}
     \/ f[tmp.dimension].grain # None
     \/ f[tmp.dimension].column # tmp.column
    THEN f
    ELSE [f EXCEPT ![tmp.dimension] = Graded(tmp.column, tmp.grain)]

Default(own, kinds) == IF own = None THEN kinds ELSE own

ExpandedDatasets(k, d) ==
  IF k.variant = "simple" THEN {[d EXCEPT !.mapping = Explicit(EffectiveEntries(k, d))]}
  ELSE LET tmp == Default(d.temporal, k.temporal)
       IN  {[d EXCEPT !.mapping = Explicit(WithTemporalGrain(f, tmp)),
                      !.temporal = tmp,
                      !.catalog = Default(d.catalog, k.catalog)]
              : f \in Flattenings(EffectiveEntries(k, d))}

ExpandedKinds(k) ==
  LET choices == {f \in [Inline(k) -> UNION {ExpandedDatasets(k, d) : d \in Datasets(k)}] :
                    \A i \in Inline(k) : f[i] \in ExpandedDatasets(k, k.children[i])}
  IN  {[k EXCEPT !.children = [i \in DOMAIN k.children |-> IF i \in Inline(k) THEN f[i] ELSE k.children[i]]]
         : f \in choices}

(* The model after the step: one of these.                                 *)
Expansions(m) ==
  {x \in [DOMAIN m -> UNION {ExpandedKinds(m[n]) : n \in DOMAIN m}] : \A n \in DOMAIN m : x[n] \in ExpandedKinds(m[n])}

(***************************************************************************)
(* derive_dimension_grains: a temporal dimension without grains takes the  *)
(* ones that are not finer than the finest dataset of the dimension.       *)
(***************************************************************************)
DatasetGrains(k, n) ==
  {d.temporal.grain : d \in {e \in Datasets(k) : e.temporal # None /\ e.temporal.dimension = n}} \ {None}

Derivable(k, n) == k.dims[n].type = "temporal" /\ k.dims[n].grains = {} /\ DatasetGrains(k, n) # {}

(* As DerivedGrains from the coarsest dataset.                             *)
DerivedGrainsOfCoarsest(k, n) == {g \in Grains : g >= Max(DatasetGrains(k, n))}

DerivedGrains(k, n) == {g \in Grains : g >= Min(DatasetGrains(k, n))}

WithDerivedGrains(m) ==
  [n \in DOMAIN m |->
     IF m[n].variant = "simple" THEN m[n]
     ELSE [m[n] EXCEPT !.dims = [x \in DOMAIN m[n].dims |->
             IF Derivable(m[n], x) THEN [m[n].dims[x] EXCEPT !.grains = DerivedGrains(m[n], x)]
             ELSE m[n].dims[x]]]]

DerivationWarnings(m) ==
  UNION {{<<"COMP_I001", n, x>> : x \in {y \in DOMAIN m[n].dims : Derivable(m[n], y)}} : n \in Complex(m)}

(***************************************************************************)
(* validate_mappings: keys name fields or anchors, and the datasets of a   *)
(* kind between them map every field.                                      *)
(***************************************************************************)
MappedNames(k) == UNION {DOMAIN d.mapping.entries : d \in Datasets(k)}

(* As MappingErrors without the coverage by the datasets together.         *)
MappingErrorsPerDataset(m) ==
  {n \in Complex(m) : \E d \in Datasets(m[n]) :
     ~(DOMAIN d.mapping.entries \subseteq InterfaceNames(m[n]) \union SubNames(d.mapping.entries))}

MappingErrors(m) ==
  {n \in Complex(m) :
     \/ \E d \in Datasets(m[n]) :
          \/ SubNames(d.mapping.entries) \intersect Reserved # {}
          \/ ~(DOMAIN d.mapping.entries \subseteq InterfaceNames(m[n]) \union SubNames(d.mapping.entries))
     \/ ~(MappableNames(m[n]) \subseteq MappedNames(m[n]))}

(***************************************************************************)
(* validate_grain_compatibility                                            *)
(***************************************************************************)
GrainErrors(m) ==
  {n \in Complex(m) :
     \E d \in Datasets(m[n]), x \in DOMAIN m[n].dims :
        /\ m[n].dims[x].type = "temporal"
        /\ x \in DOMAIN d.mapping.entries
        /\ d.mapping.entries[x].t = "graded"
        /\ d.mapping.entries[x].grain # None
        /\ d.mapping.entries[x].grain \notin m[n].dims[x].grains}
===============================================================================
