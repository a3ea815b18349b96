---------------------------- MODULE CompilePipeline ----------------------------
(***************************************************************************)
(* ManifestCompiler::compile (crates/semstrait-manifest/src/compiler.rs):  *)
(* the steps of the manifest compiler in their order, each of which may    *)
(* end the compilation with an error.  Loading, parsing and the resolution *)
(* of references come before; the model is what they return.               *)
(***************************************************************************)
EXTENDS ManifestIndex

CONSTANTS
  Models,       \* the models to compile
  Envs,         \* the providers a compiler is built with
  Listings      \* what the providers find for a glob; outside its domain they fail

(***************************************************************************)
(* What the types of a parsed model guarantee.                             *)
(***************************************************************************)
IsTemporal(t) == t = None \/ t.grain \in Grains \union {None}

IsMapping(f) ==
  /\ f.mode \in {"explicit", "auto", "inherited"}
  /\ f.mode = "explicit" => f.entries # None /\ \A x \in DOMAIN f.entries :
       /\ f.entries[x].t \in {"column", "graded", "literal", "anchored"}
       /\ f.entries[x].t = "column" => f.entries[x].grain = None

Patterns(st) == Range(st.paths) \union Range(st.tables)

IsDataset(d) ==
  /\ DOMAIN d = {"name", "storage", "catalog", "temporal", "mapping"}
  /\ IsTemporal(d.temporal) /\ IsMapping(d.mapping)
  /\ d.storage # None => None \notin Patterns(d.storage)

IsKind(k) ==
  /\ DOMAIN k = {"variant", "dims", "measures", "metrics", "keys", "temporal", "catalog", "mapping",
                 "children", "rels"}
  /\ k.children \in Seq(Range(k.children))
  /\ \A i \in Inline(k) : IsDataset(k.children[i])
  /\ DOMAIN k.measures \union DOMAIN k.metrics \subseteq Range(NameOrder)
  /\ \A x \in DOMAIN k.dims : {"type", "grains", "computed"} \subseteq DOMAIN k.dims[x]
  /\ IsTemporal(k.temporal)
  /\ k.mapping # None => IsMapping(k.mapping)
  /\ k.variant = "simple" => k.mapping = None /\ Refs(k) = {}

ASSUME ModelsAssumption ==
  /\ Grains \in SUBSET Nat /\ None \notin Grains /\ IsFiniteSet(Grains)
  /\ None \notin {Full, Non}
  /\ KindOrder \in Seq(Range(KindOrder)) /\ IsInjective(KindOrder)
  /\ NameOrder \in Seq(Range(NameOrder)) /\ IsInjective(NameOrder)
  /\ \A l \in Listings : \A p \in DOMAIN l : None \notin l[p]
  /\ \A m \in Models : DOMAIN m \subseteq Range(KindOrder) /\ \A n \in DOMAIN m :
       /\ IsKind(m[n])
       /\ m[n].variant = "simple" => \A d \in Datasets(m[n]) : d.name = n

VARIABLES
  stage,        \* the step that is next, "done", "failed" or "overflow"
  model,        \* the model, rewritten by the steps
  source,       \* the model as it was given
  env,          \* the providers
  todo,         \* the places of the datasets whose sources are still to be resolved
  resolved,     \* sources by dataset name
  snapshot,     \* the catalog that described a table, by the table's name
  warnings,     \* the diagnostics of the manifest
  depths,       \* the depth of a metric
  manifest      \* None, or the compiled kinds with the field index and the semantic graph

vars == <<stage, model, source, env, todo, resolved, snapshot, warnings, depths, manifest>>

(* A place is a kind's and a child's; places are visited kind by kind.     *)
DatasetAt(m, p) == m[KindOrder[p[1]]].children[p[2]]

Earlier(p, q) == p[1] < q[1] \/ (p[1] = q[1] /\ p[2] < q[2])

(* The places of the datasets with storage.                                *)
StoragePlaces(m) ==
  {p \in UNION {{<<i, j>> : j \in Inline(m[KindOrder[i]])} : i \in Listed(m)} : DatasetAt(m, p).storage # None}

Init ==
  /\ model \in Models
  /\ source = model
  /\ env \in Envs
  /\ stage = "sources"
  /\ todo = StoragePlaces(model)
  /\ resolved = EmptyMap /\ snapshot = EmptyMap
  /\ warnings = {}
  /\ depths = EmptyMap
  /\ manifest = None

(***************************************************************************)
(* Step 3, one dataset at a time.  Sources are stored under the dataset's  *)
(* name, and only when there are some.                                     *)
(***************************************************************************)
Stored(name, sources) == [n \in (IF sources = {} THEN {} ELSE {name}) |-> sources]

ResolveDataset ==
  /\ stage = "sources"
  /\ \E p \in todo :
       /\ \A q \in todo \ {p} : Earlier(p, q)
       /\ LET d == DatasetAt(model, p) IN
          \E listing \in Listings, readable \in BOOLEAN :
            IF ResolutionFails(d.storage, d.catalog, env, listing)
              THEN /\ stage' = "failed"
                   /\ UNCHANGED <<todo, resolved, snapshot, warnings>>
              ELSE \E answer \in [Tables(d.storage, listing) -> TableAnswers] :
                     LET sources == PathSources(d.storage, env, listing, readable)
                                      \union TableSources(d.storage, d.catalog, env, listing, answer)
                     IN  /\ resolved' = Over(Stored(d.name, sources), resolved)
                         /\ snapshot' = Over(Snapshots(d.storage, d.catalog, env, listing, answer), snapshot)
                         /\ warnings' = warnings \union
                              ResolutionWarnings(d.name, d.storage, d.catalog, env, listing, answer)
                         /\ todo' = todo \ {p}
                         /\ UNCHANGED stage
  /\ UNCHANGED <<model, source, env, depths, manifest>>

SourcesResolved ==
  /\ stage = "sources"
  /\ todo = {}
  /\ stage' = "structure"
  /\ UNCHANGED <<model, source, env, todo, resolved, snapshot, warnings, depths, manifest>>

(***************************************************************************)
(* Steps 4 to 7.                                                           *)
(***************************************************************************)
Check(at, errors, next) ==
  /\ stage = at
  /\ stage' = IF errors = {} THEN next ELSE "failed"
  /\ UNCHANGED <<model, source, env, todo, resolved, snapshot, warnings, depths, manifest>>

ValidateStructure ==
  \/ ~NestingEndless(model) /\ Check("structure", StructureErrors(model), "temporal_equivalence")
  \/ /\ stage = "structure"
     /\ NestingEndless(model)
     /\ stage' = "overflow"
     /\ UNCHANGED <<model, source, env, todo, resolved, snapshot, warnings, depths, manifest>>

ValidateTemporalEquivalence == Check("temporal_equivalence", TemporalErrors(model), "storage")
ValidateStorage == Check("storage", StorageErrors(model), "metadata_dimensions")
ValidateMetadataDimensions == Check("metadata_dimensions", MetadataErrors(model), "expand")

ExpandAutoMappings ==
  /\ stage = "expand"
  /\ model' \in Expansions(model)
  /\ stage' = "temporal_dimension"
  /\ UNCHANGED <<source, env, todo, resolved, snapshot, warnings, depths, manifest>>

ValidateTemporalDimensionConsistency ==
  Check("temporal_dimension", TemporalDimensionErrors(model), "derive_grains")

DeriveDimensionGrains ==
  /\ stage = "derive_grains"
  /\ model' = WithDerivedGrains(model)
  /\ warnings' = warnings \union DerivationWarnings(model)
  /\ stage' = "mappings"
  /\ UNCHANGED <<source, env, todo, resolved, snapshot, depths, manifest>>

ValidateMappings == Check("mappings", MappingErrors(model), "grain_compatibility")
ValidateGrainCompatibility == Check("grain_compatibility", GrainErrors(model), "metric_graph")

BuildMetricGraph ==
  /\ stage = "metric_graph"
  /\ IF MetricCycle(model) \/ \E n \in DOMAIN MetricDepths(model) : MetricDepths(model)[n] > MaxMetricDepth
       THEN stage' = "failed" /\ UNCHANGED depths
       ELSE stage' = "emit" /\ depths' = MetricDepths(model)
  /\ UNCHANGED <<model, source, env, todo, resolved, snapshot, warnings, manifest>>

(***************************************************************************)
(* Steps 8 and 9.  The relationship graph of step 7 is not used.           *)
(***************************************************************************)
Emit ==
  /\ stage = "emit"
  /\ IF \E n \in DOMAIN model : KindFails(model[n], depths)
       THEN stage' = "failed" /\ UNCHANGED manifest
       ELSE /\ stage' = "done"
            /\ \E es \in CompiledEntities(model, depths, resolved) :
                 manifest' = [kinds |-> es, fields |-> FieldIndex(es), graph |-> SemanticGraph(es)]
  /\ UNCHANGED <<model, source, env, todo, resolved, snapshot, warnings, depths>>

Next ==
  \/ ResolveDataset
  \/ SourcesResolved
  \/ ValidateStructure
  \/ ValidateTemporalEquivalence
  \/ ValidateStorage
  \/ ValidateMetadataDimensions
  \/ ExpandAutoMappings
  \/ ValidateTemporalDimensionConsistency
  \/ DeriveDimensionGrains
  \/ ValidateMappings
  \/ ValidateGrainCompatibility
  \/ BuildMetricGraph
  \/ Emit

Spec == Init /\ [][Next]_vars /\ WF_vars(Next)

(***************************************************************************)
(* Properties.                                                             *)
(***************************************************************************)
Done == stage = "done"

(* A dataset of kind n of the model as given, with its binding.            *)
Bound(n) == {<<source[n].children[i], manifest.kinds[n].bindings[i]>> : i \in Inline(source[n])}

(* The datasets of a name: children, and simple kinds without a child.     *)
Namesakes(name) ==
  (UNION {{<<n, i>> : i \in {j \in Inline(source[n]) : source[n].children[j].name = name}} : n \in DOMAIN source})
    \union {<<n, 0>> : n \in {x \in DOMAIN source : x = name /\ IsBareKind(source[x])}}

OwnName(d) == \A p, q \in Namesakes(d.name) : p = q

(* SourcesAreOwn: a dataset that shares its name with no other is bound to *)
(* sources of its own storage, all of them, whatever the providers         *)
(* answered; and a pattern that was left unexpanded has had its warning.   *)
SourcesAreOwn ==
  Done => \A n \in DOMAIN source : \A b \in Bound(n) :
    LET d == b[1]
        ss == b[2].sources
    IN  OwnName(d) =>
          /\ d.storage = None => ss = {}
          /\ d.storage # None =>
               /\ \A s \in ss : s.reference \in Patterns(d.storage)
               /\ \A p \in Patterns(d.storage) :
                    \/ \E s \in ss : s.reference = p /\ s.target # None
                    \/ \E w \in {"SRC_W001", "SRC_W002"} : <<w, d.name, p>> \in warnings

(* AuthorsMappingWins: in the manifest a field has the column and the      *)
(* grain that the dataset's own mapping gives it, else the column of the   *)
(* kind's mapping, whatever was propagated to it later.  A name that an    *)
(* anchor also uses is left out: the order of a hash map decides it.       *)
Written(k, d) ==
  LET own == IF d.mapping.mode = "explicit" THEN d.mapping.entries ELSE EmptyMap
      kinds == IF k.mapping # None /\ d.mapping.mode # "auto" /\ k.mapping.mode = "explicit"
                 THEN k.mapping.entries ELSE EmptyMap
  IN  Over(own, kinds)

AuthorsMappingWins ==
  Done => \A n \in DOMAIN source : \A b \in Bound(n) :
    LET written == Written(source[n], b[1])
        bound == b[2].mapping
    IN  \A x \in {y \in DOMAIN written \ SubNames(written) : IsColumn(written[y])} :
          /\ bound.physical[x] = written[x].column
          /\ written[x].grain # None => bound.temporal[x] = written[x].grain

(* EveryFieldBound: every dimension and measure of a kind that needs a     *)
(* column is mapped by some binding, and the coverage index of a kind with *)
(* several bindings says so.                                               *)
EveryFieldBound ==
  Done => \A n \in DOMAIN source :
    LET e == manifest.kinds[n]
    IN  \A x \in MappableNames(source[n]) : \E i \in DOMAIN e.bindings :
          /\ ContainsKey(e.bindings[i].mapping, x)
          /\ e.variant # "simple" => i \in DOMAIN e.coverage /\ x \in e.coverage[i]

(* GrainsAgree: the grain a binding has for a temporal dimension is one of *)
(* the dimension's grains; derived grains are those from the finest        *)
(* dataset up; and all the datasets of a kind that name a temporal         *)
(* dimension name the kind's.                                              *)
GrainsAgree ==
  Done => \A n \in Complex(source) :
    LET e == manifest.kinds[n]
    IN  /\ \A i \in DOMAIN e.bindings : \A x \in DOMAIN e.bindings[i].mapping.temporal :
             LET g == e.bindings[i].mapping.temporal[x]
             IN  (g # None /\ x \in DOMAIN e.dims /\ e.dims[x].type = "temporal") => g \in e.dims[x].grains
        /\ \A x \in DOMAIN e.dims : source[n].dims[x].grains # e.dims[x].grains =>
             /\ source[n].dims[x].grains = {}
             /\ \A g \in e.dims[x].grains : \A h \in Grains : h > g => h \in e.dims[x].grains
             /\ DatasetGrains(model[n], x) \subseteq e.dims[x].grains
             /\ Min(e.dims[x].grains) \in DatasetGrains(model[n], x)
        /\ NamedTemporalDims(model[n]) \subseteq {e.temporal}

(* MetricsWellFounded: in a kind of several bindings whose metric names no *)
(* earlier kind uses, and whose metrics refer to no name that the scan of  *)
(* their texts drops, the metrics do not refer to each other in a circle,  *)
(* and the evaluation order has every metric once, after the metrics it    *)
(* refers to.                                                              *)
FirstOfNames(n) == \A x \in DOMAIN source[n].metrics : FirstKindWith(source, x) = n

NamesSeen(n) == \A x \in DOMAIN source[n].metrics : GraphNames(source[n].metrics[x]) = References(source[n].metrics[x])

InOrder(e) ==
  /\ Range(e.order) = DOMAIN e.metrics /\ Len(e.order) = Cardinality(DOMAIN e.metrics)
  /\ \A i, j \in DOMAIN e.order :
       e.order[j] \in References(e.metrics[e.order[i]]) \ {e.order[i]} => j < i

MetricsWellFounded ==
  Done => \A n \in DOMAIN source :
    FirstOfNames(n) /\ NamesSeen(n) /\ manifest.kinds[n].variant # "simple" => InOrder(manifest.kinds[n])

(* OrderIsTopological: as acceleration.rs says, the evaluation order is    *)
(* one from the leaves to the roots, whatever the metrics are named.       *)
(* (Refuted: the graph drops a name like "count" or "min" and the y of     *)
(* "m -y", and a metric that uses it may come before it.)                  *)
OrderIsTopological ==
  Done => \A n \in DOMAIN source :
    FirstOfNames(n) /\ manifest.kinds[n].variant # "simple" => InOrder(manifest.kinds[n])

(* AdditivityOfLeaves: a metric adds up like the worst of the measures     *)
(* below it, through metrics that refer to what comes before them in the   *)
(* order of names and have no additivity of their own.  Below a metric are *)
(* the references under binary operators and CASE: compile_metrics does    *)
(* not rate a metric by what is under a minus sign, a predicate, a cast, a *)
(* COALESCE or a call.  A name that is a measure's leads no further.       *)
Derivative(e) == DOMAIN e.metrics \ DOMAIN e.measures

Below(e, x) ==
  LET open[i \in 0 .. Cardinality(DOMAIN e.metrics)] ==
        IF i = 0 THEN RatedRefs(e.metrics[x])
        ELSE open[i - 1] \union UNION {RatedRefs(e.metrics[y]) : y \in open[i - 1] \intersect Derivative(e)}
  IN  open[Cardinality(DOMAIN e.metrics)]

Foreseen(n, e, x) ==
  \A y \in {x} \union (Below(e, x) \intersect Derivative(e)) :
    /\ source[n].metrics[y].additivity = None
    /\ \A z \in RatedRefs(e.metrics[y]) \intersect Derivative(e) : Position(z) < Position(y)

LeafAdditivities(e, x) == {e.measures[y].additivity : y \in Below(e, x) \intersect DOMAIN e.measures}

(* All add up fully, or all that do not are alike, or there is no adding.  *)
Worst(as) ==
  LET partial == as \ {Full}
  IN  IF partial = {} THEN Full
      ELSE IF \E a \in partial : partial = {a} THEN CHOOSE a \in partial : TRUE ELSE Non

AdditivityOfLeaves ==
  Done => \A n \in DOMAIN source : LET e == manifest.kinds[n] IN
    \A x \in DOMAIN e.metrics : Foreseen(n, e, x) =>
      e.metrics[x].additivity = IF LeafAdditivities(e, x) = {} THEN None ELSE Worst(LeafAdditivities(e, x))

(* AdditivityOfAllLeaves: as the README of the crate says, the additivity  *)
(* is the worst of all the leaf measures, those included that the metric   *)
(* names under a minus sign or in a call.  Only kinds whose metrics refer  *)
(* to what comes before them are looked at.                                *)
AllBelow(e, x) ==
  LET open[i \in 0 .. Cardinality(DOMAIN e.metrics)] ==
        IF i = 0 THEN References(e.metrics[x])
        ELSE open[i - 1] \union UNION {References(e.metrics[y]) : y \in open[i - 1] \intersect Derivative(e)}
  IN  open[Cardinality(DOMAIN e.metrics)]

AdditivityOfAllLeaves ==
  Done => \A n \in DOMAIN source : LET e == manifest.kinds[n] IN
    \A x \in DOMAIN e.metrics :
      LET leaves == {e.measures[y].additivity : y \in AllBelow(e, x) \intersect DOMAIN e.measures}
          plain == \A y \in DOMAIN e.metrics :
                     /\ source[n].metrics[y].additivity = None
                     /\ \A z \in References(e.metrics[y]) \intersect Derivative(e) : Position(z) < Position(y)
      IN  leaves # {} /\ plain => e.metrics[x].additivity = Worst(leaves)

(* IndexAgrees: the field index leads from a field to every kind that has  *)
(* it as a dimension or a measure and to none that has not got it, and the *)
(* semantic graph leads from a dataset whose name is its own to its kind   *)
(* and to that kind's fields.                                              *)
IndexAgrees ==
  Done =>
    /\ \A n \in DOMAIN source : \A f \in DOMAIN source[n].dims \union DOMAIN source[n].measures :
         f \in DOMAIN manifest.fields /\ n \in manifest.fields[f]
    /\ \A f \in DOMAIN manifest.fields : \A n \in manifest.fields[f] :
         f \in DOMAIN source[n].dims \union DOMAIN source[n].measures \union source[n].keys
    /\ \A n \in DOMAIN source : \A b \in Bound(n) : OwnName(b[1]) =>
         /\ manifest.graph.kindOf[b[1].name] = n
         /\ manifest.graph.provides[b[1].name]
              = DOMAIN source[n].dims \union DOMAIN source[n].measures \union source[n].keys

(* NestingBounded: after the structure is validated no kind leads to       *)
(* another through more than two references; the validator itself comes    *)
(* back, except where references go round.                                 *)
Leads(n) == {r.ref : r \in Refs(source[n])}
Leads2(n) == UNION {Leads(x) : x \in Leads(n) \intersect DOMAIN source}
Leads3(n) == UNION {Leads(x) : x \in Leads2(n) \intersect DOMAIN source}

NestingBounded ==
  /\ stage \notin {"sources", "structure", "failed", "overflow"} => \A n \in Complex(source) : Leads3(n) = {}
  /\ stage = "overflow" =>
       \E ns \in (SUBSET DOMAIN source) \ {{}} : \A n \in ns : Leads(n) \intersect ns # {}
===============================================================================
