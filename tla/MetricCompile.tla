----------------------------- MODULE MetricCompile -----------------------------
(***************************************************************************)
(* Step 6 of the manifest compiler, the graph of the metrics, and the part *)
(* of step 8 that compiles the measures, metrics and computed dimensions   *)
(* of a kind (crates/semstrait-manifest/src/steps.rs, compiled.rs).        *)
(*                                                                         *)
(* A measure is [agg, inner, refs, additivity, dtype, calls]: the agg tag, *)
(* the aggregate its expression holds, the names it refers to, the         *)
(* declared additivity and type, each None when absent, and whether its    *)
(* function calls pass the registry.  A metric is [refs, inline,           *)
(* additivity, dtype, calls]: the references of its expression, and        *)
(* whether the expression is a text or a block.  A semi-additive value     *)
(* carries the dimensions it does not add up over.                         *)
(*                                                                         *)
(* A reference is [name, node, under, glued]: an "entity" or a "column"    *)
(* node, whether a minus sign touches its name in the text, and what is    *)
(* above it: "operand", binary operators and results of a CASE alone;      *)
(* "condition", the condition of a CASE besides; "unary", a minus sign, a  *)
(* NOT or a test for NULL besides; "inside", both, or anything else: a     *)
(* call, an aggregate, a cast, COALESCE, IN, BETWEEN or LIKE.              *)
(***************************************************************************)
EXTENDS KindChecks

CONSTANTS
  KindOrder,    \* the kinds in the order of the model's map
  NameOrder,    \* the field names in the order of an interface's map
  Keywords      \* the field names that are SQL keywords

(* The place of a name in that map.                                        *)
Position(x) == CHOOSE i \in DOMAIN NameOrder : NameOrder[i] = x

Full == <<"full">>
Non == <<"non">>
Semi(over) == <<"semi", over>>

(***************************************************************************)
(* build_metric_graph.  Kinds share one graph: a metric name is the first  *)
(* metric of that name (collect_all_metrics), and a name is one node,      *)
(* measure or metric.                                                      *)
(***************************************************************************)
MetricNames(m) == UNION {DOMAIN m[k].metrics : k \in DOMAIN m}
MeasureNames(m) == UNION {DOMAIN m[k].measures : k \in DOMAIN m}

FirstKindWith(m, name) ==
  LET i == Min({j \in DOMAIN KindOrder : KindOrder[j] \in DOMAIN m /\ name \in DOMAIN m[KindOrder[j]].metrics})
  IN  KindOrder[i]

CollectAllMetrics(m) == [n \in MetricNames(m) |-> m[FirstKindWith(m, n)].metrics[n]]

Names(rs) == {r.name : r \in rs}
References(x) == Names(x.refs)
Entities(x) == Names({r \in x.refs : r.node = "entity"})
Columns(x) == Names({r \in x.refs : r.node = "column"})

(* extract_identifiers_from_expr_source: a text is split into words, "-b"  *)
(* is one, and loses the keywords; a block is walked.                      *)
GraphNames(x) ==
  IF x.inline THEN Names({r \in x.refs : ~r.glued}) \ Keywords ELSE References(x)

(* The names a metric depends on, itself left out.                         *)
MetricDeps(m, n) == GraphNames(CollectAllMetrics(m)[n]) \ {n}

(* The nodes that a metric leads to in some number of steps.               *)
Onward(m, ns) ==
  LET step(s) == s \union UNION {MetricDeps(m, n) : n \in s \intersect MetricNames(m)}
      reach[i \in 0 .. Cardinality(MetricNames(m))] == IF i = 0 THEN ns ELSE step(reach[i - 1])
  IN  reach[Cardinality(MetricNames(m))]

(* is_cyclic_directed                                                      *)
MetricCycle(m) == \E n \in MetricNames(m) : n \in Onward(m, MetricDeps(m, n))

(* As MetricDepths with one round over the metrics.                        *)
MetricDepthsOneRound(m) ==
  [n \in MetricNames(m) \union MeasureNames(m) |->
     IF n \in MetricNames(m) /\ GraphNames(CollectAllMetrics(m)[n]) # {} THEN 1 ELSE 0]

(* The depths, as the iteration over the metrics leaves them: a round for  *)
(* every metric is enough when there is no cycle.                          *)
MetricDepths(m) ==
  LET known == MetricNames(m) \union MeasureNames(m)
      rounds == Cardinality(MetricNames(m))
      start == [n \in known |-> 0]
      deeper(d, n) == LET deps == MetricDeps(m, n) \intersect known
                      IN  IF GraphNames(CollectAllMetrics(m)[n]) = {} THEN 0
                          ELSE 1 + Max({0} \union {d[x] : x \in deps})
      round(d) == [n \in known |-> IF n \in MetricNames(m) THEN Max({d[n], deeper(d, n)}) ELSE d[n]]
      iterate[i \in 0 .. rounds] == IF i = 0 THEN start ELSE round(iterate[i - 1])
  IN  iterate[rounds]

MaxMetricDepth == 3

(***************************************************************************)
(* Additivity: derive_additivity, worst_case_additivity.                   *)
(***************************************************************************)
DeriveAdditivity(agg) == IF agg \in {"avg", "count_distinct"} THEN Non ELSE Full

WorstOf(a, b) ==
  IF Non \in {a, b} THEN Non
  ELSE IF a = Full THEN b
  ELSE IF b \in {Full, a} THEN a ELSE Non

(* As WorstCaseAdditivity with the best of the values.                     *)
BestCaseAdditivity(as) == IF Full \in as THEN Full ELSE FoldSet(WorstOf, Full, as)

WorstCaseAdditivity(as) == FoldSet(WorstOf, Full, as)

(***************************************************************************)
(* compile_measures                                                        *)
(***************************************************************************)
CompiledAgg(x) == IF x.agg # None THEN x.agg ELSE x.inner

MeasureDataType(x) ==
  IF x.dtype # None THEN x.dtype
  ELSE IF CompiledAgg(x) \in {"count", "count_distinct"} THEN "integer"
  ELSE IF CompiledAgg(x) = "avg" THEN "number"
  ELSE None

MeasureFails(x) ==
  \/ x.agg = None /\ x.inner = None
  \/ x.agg # None /\ x.inner # None
  \/ ~x.calls
  \/ MeasureDataType(x) = None

CompiledMeasures(k) ==
  [n \in DOMAIN k.measures |->
     LET x == k.measures[n]
     IN  [agg |-> CompiledAgg(x), refs |-> x.refs, dtype |-> MeasureDataType(x),
          additivity |-> IF x.additivity # None THEN x.additivity ELSE DeriveAdditivity(CompiledAgg(x))]]

(* validate_measure_references: an aggregate over another measure.         *)
MeasureReferenceErrors(k) ==
  {n \in DOMAIN k.measures : (k.measures[n].refs \ {n}) \intersect DOMAIN k.measures # {}}

(***************************************************************************)
(* compile_metrics, in the order of the names: a metric sees the measures  *)
(* and the metrics compiled before it.                                     *)
(***************************************************************************)

(* The references that collect_leaf_additivity_inner comes to, and those   *)
(* that collect_leaf_types does: neither walks every node.                 *)
RatedRefs(x) == Names({r \in x.refs : r.under \in {"operand", "condition"}})
TypedRefs(x) == Names({r \in x.refs : r.node = "entity" /\ r.under \in {"operand", "unary"}})

(* collect_leaf_measure_additivity: a metric compiled before has the       *)
(* worst case of its own leaves, or no additivity and then its expression  *)
(* is walked.                                                              *)
LeafAdditivity(k, metrics, refs) ==
  LET open[i \in 0 .. Cardinality(DOMAIN metrics)] ==
        IF i = 0 THEN refs
        ELSE open[i - 1] \union UNION {RatedRefs(metrics[n]) :
               n \in {x \in (open[i - 1] \intersect DOMAIN metrics) \ DOMAIN k.measures : metrics[x].additivity = None}}
      seen == open[Cardinality(DOMAIN metrics)]
  IN  {CompiledMeasures(k)[n].additivity : n \in seen \intersect DOMAIN k.measures}
        \union ({metrics[n].additivity : n \in (seen \intersect DOMAIN metrics) \ DOMAIN k.measures} \ {None})

(* collect_leaf_types and derive_metric_data_type                          *)
LeafTypes(k, metrics, refs) ==
  {CompiledMeasures(k)[n].dtype : n \in refs \intersect DOMAIN k.measures}
    \union {metrics[n].dtype : n \in (refs \intersect DOMAIN metrics) \ DOMAIN k.measures}

MetricDataType(k, metrics, x) ==
  IF x.dtype # None THEN x.dtype
  ELSE LET types == LeafTypes(k, metrics, TypedRefs(x))
       IN  IF Cardinality(types) = 1 THEN CHOOSE t \in types : TRUE ELSE None

CompiledMetric(k, metrics, x, depth) ==
  LET leaves == LeafAdditivity(k, metrics, RatedRefs(x))
  IN  [refs |-> x.refs, inline |-> x.inline, depth |-> depth,
       dtype |-> MetricDataType(k, metrics, x),
       additivity |-> IF x.additivity # None THEN x.additivity
                      ELSE IF leaves = {} THEN None ELSE WorstCaseAdditivity(leaves)]

(* The metrics after each name; one whose type cannot be derived is not    *)
(* inserted.                                                               *)
CompiledMetrics(k, depths) ==
  LET after[i \in 0 .. Len(NameOrder)] ==
        IF i = 0 THEN EmptyMap
        ELSE IF NameOrder[i] \notin DOMAIN k.metrics THEN after[i - 1]
        ELSE LET n == NameOrder[i]
                 c == CompiledMetric(k, after[i - 1], k.metrics[n],
                                     IF n \in DOMAIN depths THEN depths[n] ELSE 0)
             IN  IF c.dtype = None THEN after[i - 1] ELSE Over([x \in {n} |-> c], after[i - 1])
  IN  after[Len(NameOrder)]

MetricFails(k, depths) ==
  \/ DOMAIN CompiledMetrics(k, depths) # DOMAIN k.metrics
  \/ \E n \in DOMAIN k.metrics : ~k.metrics[n].calls

(***************************************************************************)
(* compile_dimensions and validate_expr_scope: no aggregate in a computed  *)
(* dimension, a type, and only names of the interface as columns.          *)
(***************************************************************************)
DimensionFails(k) == \E n \in DOMAIN k.dims : k.dims[n].computed /\ ~k.dims[n].valid

ScopeErrors(k) ==
  {n \in DOMAIN k.metrics : ~(Columns(k.metrics[n]) \subseteq InterfaceNames(k))}

(* A kind compiles: measures, metrics, dimensions, references, scope.      *)
KindFails(k, depths) ==
  \/ \E n \in DOMAIN k.measures : MeasureFails(k.measures[n])
  \/ MetricFails(k, depths)
  \/ DimensionFails(k)
  \/ MeasureReferenceErrors(k) # {}
  \/ ScopeErrors(k) # {}
===============================================================================
