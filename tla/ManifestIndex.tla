----------------------------- MODULE ManifestIndex -----------------------------
(***************************************************************************)
(* Steps 8 and 9 of the manifest compiler: a kind becomes a compiled kind  *)
(* with the indices the planner reads, and the manifest gets its field     *)
(* index and its semantic graph (crates/semstrait-manifest/src/steps.rs,   *)
(* acceleration.rs).  The relationship graph is RelationshipGraph's.       *)
(***************************************************************************)
EXTENDS MetricCompile

(***************************************************************************)
(* ResolvedColumnMapping::from_column_mapping                              *)
(***************************************************************************)
IsColumn(v) == v.t \in {"column", "graded"}
LiteralNames(f) == {n \in DOMAIN f : f[n].t = "literal"}
GradedNames(f) == {n \in DOMAIN f : f[n].t = "graded"}
PhysicalNames(f) == {n \in DOMAIN f : IsColumn(f[n])} \union SubNames(f)

(* The columns that entries of the hash map insert for a name; the one     *)
(* that comes last stays.                                                  *)
PhysicalCandidates(f, n) ==
  {f[n].column : x \in {y \in {n} \intersect DOMAIN f : IsColumn(f[y])}}
    \union {f[a].anchors[n] : a \in {b \in AnchoredNames(f) : n \in DOMAIN f[b].anchors}}

Physicals(f) ==
  LET all == UNION {PhysicalCandidates(f, n) : n \in PhysicalNames(f)}
  IN  {p \in [PhysicalNames(f) -> all] : \A n \in PhysicalNames(f) : p[n] \in PhysicalCandidates(f, n)}

ResolvedMappings(f) ==
  {[physical |-> p, literals |-> LiteralNames(f), anchored |-> AnchoredNames(f),
    temporal |-> [n \in GradedNames(f) |-> f[n].grain]] : p \in Physicals(f)}

(* contains_key and semantic_keys                                          *)
ContainsKey(r, n) == n \in DOMAIN r.physical \union r.literals \union r.anchored

(***************************************************************************)
(* DatasetBinding: compile_dataset_bindings; the dataset of a simple kind  *)
(* that has none is bound by the identity.  A kind's bindings are numbered *)
(* by the places of their datasets among the children.                     *)
(***************************************************************************)
BindingsOf(d, resolved) ==
  {[name |-> d.name, mapping |-> r, sources |-> SourcesOf(d.name, d.storage, resolved)]
     : r \in ResolvedMappings(d.mapping.entries)}

BareBinding(name, k, resolved) ==
  [name |-> name, sources |-> SourcesOf(name, None, resolved),
   mapping |-> [physical |-> [n \in DOMAIN k.dims \union DOMAIN k.measures |-> n],
                literals |-> {}, anchored |-> {}, temporal |-> EmptyMap]]

IsBareKind(k) == k.variant = "simple" /\ Inline(k) = {}

KindBindings(name, k, resolved) ==
  IF IsBareKind(k) THEN {<<BareBinding(name, k, resolved)>>}
  ELSE {bs \in [Inline(k) -> UNION {BindingsOf(k.children[i], resolved) : i \in Inline(k)}] :
          \A i \in Inline(k) : bs[i] \in BindingsOf(k.children[i], resolved)}

(***************************************************************************)
(* The indices.                                                            *)
(***************************************************************************)

(* CoverageIndex::build                                                    *)
Coverage(k, bs) == [i \in DOMAIN bs |-> {n \in MappableNames(k) : ContainsKey(bs[i].mapping, n)}]

(* GrainMap::build: bindings by grain, the coarsest first.                 *)
GrainMap(td, bs) ==
  LET grain == [i \in DOMAIN bs |-> IF td \in DOMAIN bs[i].mapping.temporal THEN bs[i].mapping.temporal[td] ELSE None]
      used == {grain[i] : i \in DOMAIN bs} \ {None}
      sorted == SortSeq(SetToSeq(used), LAMBDA a, b : a > b)
  IN  [j \in DOMAIN sorted |-> <<sorted[j], {i \in DOMAIN bs : grain[i] = sorted[j]}>>]

(* AdjacencyIndex::build: relationships whose ends both are bindings; of   *)
(* two bindings with a name the index has the last.                        *)
AdjacencyIndex(bs, rels) ==
  LET index(n) == LET at == {i \in DOMAIN bs : bs[i].name = n} IN IF at = {} THEN 0 ELSE Max(at)
  IN  {<<index(rels[j].from), index(rels[j].to), j>> :
         j \in {x \in DOMAIN rels : index(rels[x].from) > 0 /\ index(rels[x].to) > 0}}

(* MetricOrder::build: the measures below a metric, by entity references,  *)
(* and the metrics by depth, those of a depth in the order of the map.     *)
MetricMeasures(k, metrics) ==
  [n \in DOMAIN metrics |->
     LET open[i \in 0 .. Cardinality(DOMAIN metrics)] ==
           IF i = 0 THEN Entities(metrics[n])
           ELSE open[i - 1] \union
                UNION {Entities(metrics[x]) : x \in (open[i - 1] \intersect DOMAIN metrics) \ DOMAIN k.measures}
     IN  open[Cardinality(DOMAIN metrics)] \intersect DOMAIN k.measures]

Precedes(metrics, x, y) ==
  \/ metrics[x].depth < metrics[y].depth
  \/ metrics[x].depth = metrics[y].depth /\ Position(x) < Position(y)

EvaluationOrder(metrics) ==
  LET place(x) == 1 + Cardinality({y \in DOMAIN metrics : Precedes(metrics, y, x)})
  IN  [i \in 1 .. Cardinality(DOMAIN metrics) |-> CHOOSE x \in DOMAIN metrics : place(x) = i]

(* The temporal dimension: the one a child names, or the first temporal    *)
(* dimension of the interface; a simple kind has only the latter.          *)
TemporalDim(k) ==
  LET naming == {i \in Inline(k) : k.children[i].temporal # None /\ k.children[i].temporal.dimension # None}
      scanned == SelectSeq(NameOrder, LAMBDA n : n \in DOMAIN k.dims /\ k.dims[n].type = "temporal")
  IN  IF k.variant # "simple" /\ naming # {} THEN k.children[Min(naming)].temporal.dimension
      ELSE IF scanned # <<>> THEN scanned[1] ELSE None

(***************************************************************************)
(* compile_to_compiled_data_kind: a kind with one binding is compiled to a *)
(* simple kind, whatever it was, and a simple kind has no indices.         *)
(***************************************************************************)
IsSimple(k, bs) == k.variant = "simple" \/ Cardinality(DOMAIN bs) = 1

CompiledKinds(name, k, depths, resolved) ==
  {[variant |-> IF IsSimple(k, bs) THEN "simple" ELSE k.variant,
    dims |-> k.dims, keys |-> k.keys, bindings |-> bs, temporal |-> TemporalDim(k),
    measures |-> CompiledMeasures(k), metrics |-> CompiledMetrics(k, depths),
    order |-> IF IsSimple(k, bs) THEN <<>> ELSE EvaluationOrder(CompiledMetrics(k, depths)),
    measuresOf |-> IF IsSimple(k, bs) THEN EmptyMap ELSE MetricMeasures(k, CompiledMetrics(k, depths)),
    coverage |-> IF IsSimple(k, bs) THEN EmptyMap ELSE Coverage(k, bs),
    grains |-> IF k.variant = "grainset" /\ ~IsSimple(k, bs) /\ TemporalDim(k) # None
                 THEN GrainMap(TemporalDim(k), bs) ELSE <<>>,
    adjacency |-> IF k.variant = "joinset" /\ ~IsSimple(k, bs) THEN AdjacencyIndex(bs, k.rels) ELSE {}]
     : bs \in KindBindings(name, k, resolved)}

CompiledEntities(m, depths, resolved) ==
  {c \in [DOMAIN m -> UNION {CompiledKinds(n, m[n], depths, resolved) : n \in DOMAIN m}] :
     \A n \in DOMAIN m : c[n] \in CompiledKinds(n, m[n], depths, resolved)}

(***************************************************************************)
(* build_field_index: the kinds that provide a field, in their order.  A   *)
(* key is a field of its kind unless a kind up to this one has a dimension *)
(* of its name.                                                            *)
(***************************************************************************)
Listed(m) == {i \in DOMAIN KindOrder : KindOrder[i] \in DOMAIN m}

DimensionsUpTo(es, i) == UNION {DOMAIN es[KindOrder[j]].dims : j \in Listed(es) \intersect (1 .. i)}

KeyFields(es, i) == es[KindOrder[i]].keys \ DimensionsUpTo(es, i)

(* As FieldIndex with the dimensions alone.                                *)
FieldIndexDimsOnly(es) ==
  [f \in UNION {DOMAIN es[n].dims : n \in DOMAIN es} |-> {n \in DOMAIN es : f \in DOMAIN es[n].dims}]

FieldIndex(es) ==
  LET fields(i) == DOMAIN es[KindOrder[i]].dims \union DOMAIN es[KindOrder[i]].measures \union KeyFields(es, i)
  IN  [f \in UNION {fields(i) : i \in Listed(es)} |-> {KindOrder[i] : i \in {j \in Listed(es) : f \in fields(j)}}]

(***************************************************************************)
(* build_semantic_graph: a node for a dataset name, with the first kind    *)
(* that has it, and an edge to every field of its kinds.                   *)
(***************************************************************************)
BindingNames(e) == {e.bindings[i].name : i \in DOMAIN e.bindings}

SemanticGraph(es) ==
  LET names == UNION {BindingNames(es[n]) : n \in DOMAIN es}
      first(d) == KindOrder[Min({i \in Listed(es) : d \in BindingNames(es[KindOrder[i]])})]
  IN  [kindOf |-> [d \in names |-> first(d)],
       provides |-> [d \in names |->
         UNION {DOMAIN es[n].dims \union DOMAIN es[n].measures \union es[n].keys :
                  n \in {x \in DOMAIN es : d \in BindingNames(es[x])}}]]
===============================================================================
