---------------------------- MODULE LayeredPlan ----------------------------
(***************************************************************************)
(* The layered plan of a simple kind and of a unionset                     *)
(* (crates/semstrait-planner/src/data_kind/plan_layers.rs, simple.rs,      *)
(* unionset.rs; decomposer.rs, expr/mod.rs and simplify.rs as they are     *)
(* used there).                                                            *)
(*                                                                         *)
(* One behaviour is one call of resolve.  For each binding and each of its *)
(* sources a stack of layers is built: scan, entity filters, rename to     *)
(* semantic names, computed dimensions, aggregate; the results of the      *)
(* sources, and then of the bindings, are put together, re-aggregated if   *)
(* their rows can have a key in common, and projected.  Of each layer the  *)
(* model keeps the names it reads and the names it provides.               *)
(***************************************************************************)
EXTENDS Naturals, SequencesExt

CONSTANTS
  Names,       (* semantic names                                           *)
  Column,      (* the physical column a name is mapped to, where it is     *)
  Values,      (* the values of metadata and literal dimensions            *)
  NoValue,     (* what a binding without a source has for a metadata one   *)
  Cases        (* the kinds, bindings and requests to be planned           *)

Functions == {"sum", "count", "max"}

(* A bare column is an expression, named by that column; any other is      *)
(* known by its measure and the names it refers to.                        *)
IsBare(expr) == expr \in Names

(* A computed dimension is a CASE over the values of one name.             *)
Computed == [on : Names, arms : [Values \cup {NoValue} -> SUBSET Names]]

(* A physical column has another name than what it is mapped to.           *)
ASSUME ColumnAssumption ==
  \A n \in Names : Column[n] \notin Names /\ \A k \in Names \ {n} : Column[k] # Column[n]

ASSUME CasesAssumption ==
  /\ NoValue \notin Values
  /\ \A q \in Cases :
       /\ q.kind \in {"simple", "unionset"}
       /\ q.metadata \subseteq Names /\ q.filters \subseteq Names
       /\ \A d \in DOMAIN q.computed : d \notin q.metadata /\ q.computed[d] \in Computed
       /\ \A m \in DOMAIN q.measures :
            /\ m \in Names
            /\ q.measures[m].function \in Functions
            /\ q.measures[m].refs \subseteq Names /\ q.measures[m].filters \subseteq Names
            /\ IsBare(q.measures[m].expr) => q.measures[m].refs = {q.measures[m].expr}
       /\ \A m \in DOMAIN q.metrics :
            /\ m \notin DOMAIN q.measures /\ q.metrics[m].nesting \in Nat
            /\ q.metrics[m].parts \in Seq(DOMAIN q.measures)
            /\ IsInjective(q.metrics[m].parts)
       /\ q.kind = "simple" => Len(q.bindings) = 1
       /\ q.bindings \in Seq(ToSet(q.bindings))
       /\ \A b \in DOMAIN q.bindings :
            /\ q.bindings[b].physical \subseteq Names
            /\ DOMAIN q.bindings[b].literals \subseteq Names \ q.bindings[b].physical
            /\ \A n \in DOMAIN q.bindings[b].literals : q.bindings[b].literals[n] \in Values
            /\ q.bindings[b].sources \in Seq([q.metadata -> Values])
       /\ ToSet(q.dimensions) \subseteq Names \ (DOMAIN q.measures \cup DOMAIN q.metrics)
       /\ q.requested \in Seq(DOMAIN q.measures \cup DOMAIN q.metrics)

VARIABLES
  query,        (* the interface, the bindings and the request; Init fixes *)
                (* it                                                      *)
  skip_reagg,   (* the rows of the bindings have no key in common          *)
  asked,        (* the measures of the branch request                      *)
  branches,     (* the branches built, one per binding                     *)
  null_dims,    (* null_physical and null_computed of this branch          *)
  scan,         (* scan_columns of this branch                             *)
  all_aggs,     (* its aggregates in the order of the measures             *)
  aggregates,   (* the same without repetitions                            *)
  sourced,      (* how many of its sources are planned                     *)
  merge,        (* how its sources are put together                        *)
  unprovided,   (* names a layer reads and the one below does not provide  *)
  pc

branch == <<null_dims, scan, all_aggs, aggregates, sourced, merge>>
vars == <<query, skip_reagg, asked, branches, branch, unprovided, pc>>

-----------------------------------------------------------------------------
(* The binding that is being planned.                                      *)
Bd == query.bindings[Len(branches) + 1]
Partial == query.kind = "unionset"

(* ResolvedColumnMapping::contains_key; a column with a grain is physical, *)
(* anchored names are not modelled.                                        *)
Mapped(bd) == bd.physical \cup DOMAIN bd.literals

(* PhysicalResolver: names without a physical column pass through.         *)
Lower(bd, ns) == {Column[n] : n \in ns \cap bd.physical} \cup (ns \ bd.physical)

(* collect_known_values: literals override metadata; a binding stands for  *)
(* its first source.                                                       *)
KnownValues(bd, source) ==
  [n \in query.metadata \cup DOMAIN bd.literals |->
     IF n \in DOMAIN bd.literals THEN bd.literals[n] ELSE source[n]]

FirstSource(bd) ==
  IF bd.sources = <<>> THEN [n \in query.metadata |-> NoValue] ELSE bd.sources[1]

(* has_distinguishing_known_values.                                        *)
DistinctValuesIfKnown(known, d) ==
  \A i, j \in DOMAIN known :
    i # j /\ d \in DOMAIN known[i] \cap DOMAIN known[j] => known[i][d] # known[j][d]

DistinctValues(known, d) ==
  /\ \A i \in DOMAIN known : d \in DOMAIN known[i]
  /\ \A i, j \in DOMAIN known : i # j => known[i][d] # known[j][d]

Distinguishing(known, dims) ==
  Len(known) > 1 /\ \E d \in dims : DistinctValues(known, d)

(* resolve_guards, substitute and simplify on a computed dimension: a      *)
(* known condition leaves one arm, known names become literals.            *)
CaseRefs(c) == {c.on} \cup UNION {c.arms[v] : v \in DOMAIN c.arms}

SimplifiedRefs(c, known) ==
  (IF c.on \in DOMAIN known THEN c.arms[known[c.on]] ELSE CaseRefs(c)) \ DOMAIN known

(* extract_metric_constituents; a measure stands for itself.               *)
Constituents(m) == IF m \in DOMAIN query.metrics THEN query.metrics[m].parts ELSE <<m>>

(* decompose_metric refuses metrics in metrics beyond max_depth.           *)
TooDeep(ms, max_depth) ==
  \E m \in ms \cap DOMAIN query.metrics : query.metrics[m].nesting > max_depth

Distinct(s) ==
  LET firsts[n \in 0 .. Len(s)] ==
        IF n = 0 THEN <<>>
        ELSE IF s[n] \in ToSet(firsts[n - 1]) THEN firsts[n - 1]
        ELSE Append(firsts[n - 1], s[n]) IN
  firsts[Len(s)]

Expand(ms, Each(_)) == FlattenSeq([i \in DOMAIN ms |-> Each(ms[i])])

-----------------------------------------------------------------------------
Single == [how |-> "single", functions |-> <<>>]

Init ==
  /\ query \in Cases
  /\ skip_reagg = FALSE
  /\ asked = <<>>
  /\ branches = <<>>
  /\ null_dims = {} /\ scan = {} /\ all_aggs = <<>> /\ aggregates = <<>>
  /\ sourced = 0 /\ merge = Single
  /\ unprovided = {}
  /\ pc = "classify"

(* UnionsetPlanner::resolve up to the branches.  When a re-aggregation     *)
(* follows, the branches plan the constituents of the metrics instead.     *)
BranchMeasures(skip) ==
  IF skip THEN query.requested ELSE Distinct(Expand(query.requested, Constituents))

Classify ==
  /\ pc = "classify"
  /\ IF Partial
       THEN LET known == [b \in DOMAIN query.bindings |->
                            KnownValues(query.bindings[b], FirstSource(query.bindings[b]))]
                skip == Distinguishing(known, ToSet(query.dimensions)) IN
            /\ skip_reagg' = skip
            /\ asked' = BranchMeasures(skip)
       ELSE asked' = query.requested /\ UNCHANGED skip_reagg
  /\ pc' = IF query.bindings = <<>> THEN "error" ELSE "dims"
  /\ UNCHANGED <<query, branches, branch, unprovided>>

(* The measures this branch plans: all of them for a simple kind; in a     *)
(* union branch those whose parts the binding maps (build_union_branch).   *)
Covered ==
  {m \in ToSet(asked) : Partial => ToSet(Constituents(m)) \subseteq Mapped(Bd)}

(* Dimensions of the request by how their values are found.                *)
Dims == ToSet(query.dimensions)
ComputedDims == Dims \cap DOMAIN query.computed
PhysicalDims == Dims \ (query.metadata \cup DOMAIN query.computed)

Resolvable(d) ==
  Partial => SimplifiedRefs(query.computed[d], KnownValues(Bd, FirstSource(Bd)))
               \subseteq Mapped(Bd)

(* D1, D2: a union branch fills dimensions it does not have with NULL; for *)
(* a simple kind a missing column is an error.                             *)
ResolveDims ==
  /\ pc = "dims"
  /\ LET unmapped == PhysicalDims \ Mapped(Bd) IN
     IF ~Partial /\ unmapped # {}
       THEN pc' = "error" /\ UNCHANGED null_dims
       ELSE /\ null_dims' = unmapped \cup {d \in ComputedDims : ~Resolvable(d)}
            /\ pc' = "scan"
  /\ UNCHANGED <<query, skip_reagg, asked, branches, scan, all_aggs, aggregates, sourced,
                 merge, unprovided>>

(* D2, D4, D8: the columns of the scan.  Those of a computed dimension are *)
(* taken only if they are physical; a literal measure needs none.          *)
DimColumns == {Column[d] : d \in PhysicalDims \cap Bd.physical}

ComputedColumnsOfFirstSource ==
  {Column[n] : n \in Bd.physical \cap
     UNION {SimplifiedRefs(query.computed[d], KnownValues(Bd, FirstSource(Bd))) :
              d \in ComputedDims \ null_dims}}

ComputedColumns ==
  {Column[n] : n \in Bd.physical \cap
                       UNION {CaseRefs(query.computed[d]) : d \in ComputedDims \ null_dims}}

MeasureColumns ==
  UNION {Lower(Bd, query.measures[c].refs \cup query.measures[c].filters) :
           c \in (UNION {ToSet(Constituents(m)) : m \in Covered \ DOMAIN Bd.literals})
                 \ DOMAIN Bd.literals}

CollectScan ==
  /\ pc = "scan"
  /\ scan' = DimColumns \cup ComputedColumns \cup MeasureColumns \cup Lower(Bd, query.filters)
  /\ pc' = "decompose"
  /\ UNCHANGED <<query, skip_reagg, asked, branches, null_dims, all_aggs, aggregates, sourced,
                 merge, unprovided>>

(* D3-D5: decompose_measure and decompose_metric, then the aggregates      *)
(* without repetitions.                                                    *)
Aggregates(m) ==
  IF m \in Covered
    THEN [i \in DOMAIN Constituents(m) |-> query.measures[Constituents(m)[i]]]
    ELSE <<>>

MaxDepth == IF Partial THEN 4 ELSE 5

Decompose ==
  /\ pc = "decompose" /\ ~TooDeep(Covered, MaxDepth)
  /\ all_aggs' = Expand(asked, Aggregates)
  /\ aggregates' = Distinct(all_aggs')
  /\ pc' = "sources"
  /\ UNCHANGED <<query, skip_reagg, asked, branches, null_dims, scan, sourced, merge, unprovided>>

RefuseMetric ==
  /\ \/ pc = "decompose" /\ TooDeep(Covered, MaxDepth)
     \/ pc = "reaggregate" /\ TooDeep(ToSet(query.requested), 5)
  /\ pc' = "error"
  /\ UNCHANGED <<query, skip_reagg, asked, branches, branch, unprovided>>

(* The dimensions the branch groups by, and the fields of its aggregate: a *)
(* bare column gives its name to the first one that uses it, any other     *)
(* field gets a number, by which nothing refers to it.                     *)
GroupBy == Dims \ null_dims
Fields == {a.expr : a \in {a \in ToSet(aggregates) : IsBare(a.expr) /\ a.filters = {}}}

-----------------------------------------------------------------------------
Unprovided(layer, reads, below) == {[layer |-> layer, name |-> n] : n \in reads \ below}

(* build_rename_project.  Columns go to the dimensions, to what computed   *)
(* dimensions and measures refer to; literals and metadata are constants.  *)
(* Of a metric's parts the expressions are looked at, not the filters.     *)
RenamedColumns ==
  Bd.physical \cap
    (PhysicalDims
     \cup (UNION {CaseRefs(query.computed[d]) : d \in ComputedDims \ null_dims})
     \cup (UNION {query.measures[m].refs \cup query.measures[m].filters :
                   m \in (Covered \cap DOMAIN query.measures) \ DOMAIN Bd.literals})
     \cup (UNION {query.measures[c].refs :
                   c \in UNION {ToSet(Constituents(m)) :
                                  m \in (Covered \cap DOMAIN query.metrics) \ DOMAIN Bd.literals}}))

Constants ==
  (Dims \cap query.metadata)
  \cup (((Dims \ ComputedDims) \cup null_dims \cup Covered) \cap DOMAIN Bd.literals)
Renamed == RenamedColumns \cup Constants

(* The layers over one source: entity filters, rename, expressions,        *)
(* aggregate.                                                              *)
UnprovidedOver(source) ==
  LET known == KnownValues(Bd, source)
      resolved == ComputedDims \ null_dims IN
  Unprovided("filter", Lower(Bd, query.filters), scan)
  \cup Unprovided("rename", {Column[n] : n \in RenamedColumns}, scan)
  \cup Unprovided("expression",
         UNION {SimplifiedRefs(query.computed[d], known) : d \in resolved}, Renamed)
  \cup Unprovided("aggregate",
         GroupBy \cup UNION {a.refs \cup a.filters : a \in ToSet(aggregates)},
         Renamed \cup resolved)

SourcesToPlan(bd) == IF bd.sources = <<>> THEN <<FirstSource(bd)>> ELSE bd.sources

PlanSource ==
  /\ pc = "sources" /\ sourced < Len(SourcesToPlan(Bd))
  /\ unprovided' = unprovided \cup UnprovidedOver(SourcesToPlan(Bd)[sourced + 1])
  /\ sourced' = sourced + 1
  /\ UNCHANGED <<query, skip_reagg, asked, branches, null_dims, scan, all_aggs, aggregates, merge,
                 pc>>

(* Several sources: UNION ALL of the partial aggregates and, unless a      *)
(* metadata dimension tells the sources apart, a re-aggregation: the       *)
(* aggregates as decomposed, zipped with the fields of the aggregate.      *)
ReaggFunction(f) == IF f = "max" THEN "max" ELSE "sum"
MergeFunctions == [k \in DOMAIN aggregates |-> ReaggFunction(all_aggs[k].function)]

MergeSources ==
  /\ pc = "sources" /\ sourced = Len(SourcesToPlan(Bd))
  /\ LET known == [s \in DOMAIN Bd.sources |-> KnownValues(Bd, Bd.sources[s])] IN
     merge' = IF sourced = 1 THEN Single
              ELSE IF Distinguishing(known, GroupBy) THEN [Single EXCEPT !.how = "union"]
              ELSE [how |-> "reaggregate", functions |-> MergeFunctions]
  /\ pc' = "project"
  /\ UNCHANGED <<query, skip_reagg, asked, branches, null_dims, scan, all_aggs, aggregates, sourced,
                 unprovided>>

(* D7, D10: the final projection of the branch reads the dimensions and,   *)
(* for each measure planned, the parts it is computed from, by name.       *)
Project ==
  /\ pc = "project"
  /\ unprovided' = unprovided \cup
       Unprovided("project", GroupBy \cup UNION {ToSet(Constituents(m)) : m \in Covered},
                  GroupBy \cup Fields)
  /\ branches' = Append(branches,
       [nulls |-> null_dims, aggregates |-> aggregates, merge |-> merge])
  /\ null_dims' = {} /\ scan' = {} /\ all_aggs' = <<>> /\ aggregates' = <<>>
  /\ sourced' = 0 /\ merge' = Single
  /\ pc' = IF Len(branches') < Len(query.bindings) THEN "dims"
           ELSE IF Partial /\ ~skip_reagg THEN "reaggregate"
           ELSE "planned"
  /\ UNCHANGED <<query, skip_reagg, asked>>

(* Re-aggregate the union and compute the metrics from the result.  All    *)
(* branches have the unified schema, so validate_union_types is satisfied. *)
Reaggregate ==
  /\ pc = "reaggregate" /\ ~TooDeep(ToSet(query.requested), 5)
  /\ unprovided' = unprovided \cup
       Unprovided("metrics", UNION {ToSet(Constituents(m)) : m \in ToSet(query.requested)},
                  ToSet(asked))
  /\ pc' = "planned"
  /\ UNCHANGED <<query, skip_reagg, asked, branches, branch>>

Next ==
  \/ Classify \/ ResolveDims \/ CollectScan \/ Decompose \/ RefuseMetric
  \/ PlanSource \/ MergeSources \/ Project \/ Reaggregate

Spec == Init /\ [][Next]_vars

-----------------------------------------------------------------------------
TypeOK ==
  /\ skip_reagg \in BOOLEAN
  /\ asked \in Seq(DOMAIN query.measures \cup DOMAIN query.metrics)
  /\ Len(branches) <= Len(query.bindings)
  /\ null_dims \subseteq Names \ query.metadata
  /\ scan \subseteq Names \cup {Column[n] : n \in Names}
  /\ Len(aggregates) <= Len(all_aggs)
  /\ sourced \in Nat
  /\ merge.how \in {"single", "union", "reaggregate"}
  /\ pc \in {"classify", "dims", "scan", "decompose", "sources", "project", "reaggregate",
             "planned", "error"}

(* What the layers take for granted of the compiled model: a measure is    *)
(* the bare column of its own name without filters; a simple kind maps all *)
(* it is asked for; neither a metric nor a part of one is a literal; and a *)
(* computed dimension finds its columns whichever source decides its CASE. *)
WellMapped ==
  /\ \A m \in DOMAIN query.measures :
       query.measures[m].expr = m /\ query.measures[m].filters = {}
  /\ \A b \in DOMAIN query.bindings :
       LET bd == query.bindings[b] IN
       /\ \A m \in ToSet(query.requested) \cap DOMAIN query.metrics :
            ({m} \cup ToSet(query.metrics[m].parts)) \cap DOMAIN bd.literals = {}
       /\ ~Partial => UNION {ToSet(Constituents(m)) : m \in ToSet(query.requested)}
                        \subseteq Mapped(bd)
       /\ \A d \in ComputedDims, source \in ToSet(SourcesToPlan(bd)) :
            SimplifiedRefs(query.computed[d], KnownValues(bd, source)) \subseteq bd.physical

(* "After rename, ALL names are semantic.  Aggregate GROUP BY and measure  *)
(* expressions reference semantic column names from the rename project     *)
(* output": over every source of every binding each layer reads only what  *)
(* the layer below provides.                                               *)
LayersClosed == WellMapped => unprovided = {}

(* The value the rename layer gives a dimension in every row of a source,  *)
(* if it is a constant.                                                    *)
Fixed(bd, source, d) ==
  d \notin DOMAIN query.computed /\ d \in DOMAIN KnownValues(bd, source)

Apart(b, s, c, t) ==
  LET bd == query.bindings[b]
      cd == query.bindings[c] IN
  \E d \in Dims :
    /\ Fixed(bd, bd.sources[s], d) /\ Fixed(cd, cd.sources[t], d)
    /\ KnownValues(bd, bd.sources[s])[d] # KnownValues(cd, cd.sources[t])[d]

(* Where partial aggregates are put together without a re-aggregation, no  *)
(* two of them can hold rows with the same key.  Bindings are compared by  *)
(* their first source, so across bindings this is so only if none has two. *)
(* They are also compared by literals mapped to computed dimensions, which *)
(* validate_mappings accepts and no layer uses: there it is not so.        *)
ComputedHaveNoLiteral ==
  \A b \in DOMAIN query.bindings : DOMAIN query.bindings[b].literals \cap DOMAIN query.computed = {}

SkipMergesNothing ==
  /\ \A b \in DOMAIN branches : branches[b].merge.how = "union" =>
       \A s, t \in DOMAIN query.bindings[b].sources : s # t => Apart(b, s, b, t)
  /\ (/\ skip_reagg /\ ComputedHaveNoLiteral
      /\ \A b \in DOMAIN query.bindings : Len(query.bindings[b].sources) = 1) =>
       \A b, c \in DOMAIN query.bindings : b # c => Apart(b, 1, c, 1)

(* "Re-aggregate the union (merge partial aggregates)": each field of the  *)
(* partial aggregates is merged by the function of its own aggregate.      *)
FieldsMergedByOwnFunction ==
  \A b \in DOMAIN branches : branches[b].merge.how = "reaggregate" =>
    \A k \in DOMAIN branches[b].aggregates :
      branches[b].merge.functions[k] = ReaggFunction(branches[b].aggregates[k].function)
=============================================================================
