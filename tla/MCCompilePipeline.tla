-------------------------- MODULE MCCompilePipeline --------------------------
(***************************************************************************)
(* The compiler on six families of models: storage and catalogs, temporal  *)
(* configurations and mappings, anchors, metrics, names of metrics, and    *)
(* nesting; and beside it the two components around it that tasks share,   *)
(* the file that manifests are kept in and the token cache of the catalog. *)
(* A behaviour is one compilation, or any use of the one or of the other.  *)
(***************************************************************************)
EXTENDS CompilePipeline, FileRepository, TokenCache

VARIABLE part

MCGlobs == {"p*", "t*"}
MCGrains == 1 .. 3
MCKindOrder == <<"K1", "K2", "K3", "a">>
MCNameOrder == <<"c", "count", "d", "id", "m", "u", "x", "y", "z">>
MCKeywords == {"count"}

(***************************************************************************)
(* Parts of a model.                                                       *)
(***************************************************************************)
Categorical == [type |-> "categorical", grains |-> {}, computed |-> FALSE, valid |-> TRUE]
ComputedDim(ok) == [Categorical EXCEPT !.computed = TRUE, !.valid = ok]
TemporalOf(gs) == [Categorical EXCEPT !.type = "temporal", !.grains = gs]
Metadata(written, level) == [path |-> written, level |-> level] @@ [Categorical EXCEPT !.type = "metadata"]

Measure(agg, add) ==
  [agg |-> agg, inner |-> None, refs |-> {}, additivity |-> add, dtype |-> "number", calls |-> TRUE]
SumMeasure == Measure("sum", None)
AvgMeasure == Measure("avg", None)
Ref(name, node, under) == [name |-> name, node |-> node, under |-> under, glued |-> FALSE]
Touched(name) == [Ref(name, "entity", "operand") EXCEPT !.glued = TRUE]
MetricOf(refs, inline) ==
  [refs |-> refs, inline |-> inline, additivity |-> None, dtype |-> None, calls |-> TRUE]
Sum(entities) == MetricOf({Ref(e, "entity", "operand") : e \in entities}, TRUE)

Storage(paths, tables, format) ==
  [paths |-> paths, tables |-> tables, format |-> format, partitioned |-> FALSE]
DatasetOf(name, st, cat, tmp, map) ==
  [name |-> name, storage |-> st, catalog |-> cat, temporal |-> tmp, mapping |-> map]
Plain(name) == DatasetOf(name, None, None, None, AutoMapping)
Child(kind, variant) == [ref |-> kind, variant |-> variant]

Kind(variant, children) ==
  [variant |-> variant, dims |-> "c" :> Categorical, measures |-> "m" :> SumMeasure, metrics |-> EmptyMap,
   keys |-> {}, temporal |-> None, catalog |-> None, mapping |-> None, children |-> children,
   rels |-> <<>>]

(***************************************************************************)
(* Storage: a unionset whose first dataset has storage, beside a simple    *)
(* kind whose name may be that dataset's.                                  *)
(***************************************************************************)
Storages ==
  {Storage(<<"p">>, <<>>, TRUE), Storage(<<"p*">>, <<>>, TRUE), Storage(<<>>, <<"t1">>, FALSE),
   Storage(<<>>, <<"t*">>, FALSE), Storage(<<>>, <<"t1">>, TRUE), Storage(<<>>, <<>>, FALSE)}

StorageModels ==
  {("K1" :> [Kind("unionset", <<DatasetOf("a", st, cat, None, AutoMapping), Plain("b")>>) EXCEPT !.catalog = def])
     @@ (n :> Kind("simple", <<DatasetOf(n, Storage(<<>>, <<"t1">>, FALSE), "c1", None, AutoMapping)>>))
     : st \in Storages, cat \in {None, "c1", "c9"}, def \in {None, "c1"}, n \in {"K2", "a"}}

MCEnvs ==
  {[storage |-> TRUE, registry |-> "c1" :> "cat1", legacy |-> "cat0"],
   [storage |-> FALSE, registry |-> "c1" :> "cat1", legacy |-> None],
   [storage |-> TRUE, registry |-> None, legacy |-> "cat0"]}

MCListings ==
  {EmptyMap, [g \in MCGlobs |-> {}],
   [g \in MCGlobs |-> IF g = "p*" THEN {"p1", "p2"} ELSE {"t1", "t2"}]}

(***************************************************************************)
(* Temporal configurations and mappings.                                   *)
(***************************************************************************)
Temporal(shape, dim, grain, col) == [shape |-> shape, dimension |-> dim, grain |-> grain, column |-> col]
Temporals ==
  {None, Temporal("events", "d", 1, "d"), Temporal("events", "d", 2, "at"), Temporal("events", "d", None, "d"),
   Temporal("events", "c", 2, "c"), Temporal("scd", "d", 1, None)}

Mappings ==
  {AutoMapping, Inherited, Explicit(("c" :> Column("cc")) @@ ("d" :> Graded("d", None))),
   Explicit(("d" :> Graded("d", 3)) @@ ("m" :> Lit)), Explicit("q" :> Column("q"))}

TemporalModels ==
  {"K1" :> [Kind("grainset", <<DatasetOf("a", None, None, t1, map1), DatasetOf("b", None, None, t2, map2)>>)
              EXCEPT !.dims = ("d" :> TemporalOf(gs)) @@ ("c" :> Categorical), !.temporal = def, !.mapping = kmap]
     : t1 \in Temporals, t2 \in {None, Temporal("events", "d", 2, "d"), Temporal("events", "c", 2, "c")},
       map1 \in Mappings, map2 \in {AutoMapping, Inherited},
       gs \in {{}, {2, 3}}, def \in {None, Temporal("events", "d", 3, "d")},
       kmap \in {None, Explicit("c" :> Column("kc"))}}

(* Anchored entries, metadata dimensions, and a simple kind without        *)
(* dataset.                                                                *)
AnchorModels ==
  {"K1" :> [Kind("unionset", <<DatasetOf("a", Storage(<<"p">>, <<>>, TRUE), None, None, Explicit(f)), Plain("b")>>)
              EXCEPT !.dims = ("c" :> Categorical) @@ ("d" :> dim)]
     : f \in {("c" :> Anchored("s" :> "c1")), ("c" :> Anchored("s" :> "c1")) @@ ("d" :> Anchored("s" :> "c2")),
              ("c" :> Anchored("m" :> "c1")) @@ ("m" :> Column("m1")), ("c" :> Anchored("lit" :> "c1"))},
       dim \in {Categorical, ComputedDim(TRUE), ComputedDim(FALSE), Metadata(TRUE, None), Metadata(FALSE, 1),
                Metadata(FALSE, None)}}
  \union {"K1" :> [Kind("simple", <<>>) EXCEPT !.dims = "d" :> TemporalOf({1})]}

(***************************************************************************)
(* Metrics, of one kind, beside a measure of the name, and of two kinds    *)
(* that share a name.                                                      *)
(***************************************************************************)
MetricChoices(n) ==
  {Sum(es) : es \in {{"m"}, {"u"}, {"m", "u"}, {n}, {"x", "m"}, {"y", "m"}, {"z"}}}
    \union {MetricOf({Ref("m", "column", "operand")}, FALSE), MetricOf({Ref("q", "column", "operand")}, FALSE),
            [Sum({"u"}) EXCEPT !.additivity = Full]}
    \union {MetricOf({Ref("m", "entity", "operand"), Ref("u", "entity", under)}, FALSE) :
              under \in {"condition", "unary", "inside"}}
    \union {[MetricOf({Ref("u", "entity", "unary")}, TRUE) EXCEPT !.dtype = dtype] : dtype \in {None, "number"}}

MetricKind(ms, us, children) ==
  [Kind("unionset", children) EXCEPT !.metrics = ms, !.measures = ("m" :> SumMeasure) @@ ("u" :> us)]

MetricModels ==
  {"K1" :> MetricKind(("x" :> x) @@ ("y" :> y) @@ ("z" :> z), us, <<Plain("a"), Plain("b")>>)
     : x \in MetricChoices("x"), y \in MetricChoices("y"),
       z \in {Sum({"x"}), Sum({"y", "m"})},
       us \in {AvgMeasure, Measure("sum", Semi({"d"}))}}
  \union
  {"K1" :> MetricKind(("u" :> u) @@ ("x" :> x) @@ ("y" :> Sum({"x"})), AvgMeasure, <<Plain("a"), Plain("b")>>)
     : u \in {Sum({"m"}), Sum({"x"})}, x \in MetricChoices("x")}
  \union
  {("K1" :> MetricKind("x" :> Sum({"m"}), AvgMeasure, <<Plain("a"), Plain("b")>>))
     @@ ("K2" :> MetricKind(("x" :> x) @@ ("y" :> y), us, <<Plain("e"), Plain("f")>>))
     : x \in MetricChoices("x"), y \in MetricChoices("y"),
       us \in {AvgMeasure, [AvgMeasure EXCEPT !.agg = None], [SumMeasure EXCEPT !.dtype = None],
               [SumMeasure EXCEPT !.refs = {"m"}], [AvgMeasure EXCEPT !.agg = None, !.inner = "count", !.dtype = None]}}

(* A metric named like a keyword, and one over it, as a text or a block;   *)
(* one over another whose name a minus sign touches, as in m -y.           *)
KeywordModels ==
  {"K1" :> MetricKind(("count" :> c) @@ ("x" :> x), AvgMeasure, <<Plain("a"), Plain("b")>>)
     : c \in {Sum({"m"}), Sum({"u"}), MetricOf({Ref("m", "entity", "unary")}, FALSE)},
       x \in {Sum({"count", "m"}), Sum({"count"}), MetricOf({Ref("count", "entity", "operand")}, FALSE),
              MetricOf({Ref("count", "entity", "operand"), Ref("u", "entity", "condition")}, FALSE)}}
  \union
  {"K1" :> MetricKind(("x" :> x) @@ ("y" :> Sum({"m"})), AvgMeasure, <<Plain("a"), Plain("b")>>)
     : x \in {MetricOf({Ref("m", "entity", "operand"), Touched("y")}, inline) : inline \in BOOLEAN}}

(***************************************************************************)
(* Nesting, relationships and keys.                                        *)
(***************************************************************************)
Variants == {"unionset", "grainset", "joinset"}

NestingModels ==
  {("K1" :> [Kind(v1, <<Plain("a"), Child("K2", v2)>>) EXCEPT !.rels = r, !.keys = {"id"}])
     @@ ("K2" :> [Kind(v2, <<Plain("b"), Child(to, "unionset")>>) EXCEPT !.keys = {"id", "c"}])
     @@ ("K3" :> [Kind("unionset", last) EXCEPT !.dims = dims])
     : v1 \in Variants, v2 \in Variants \ {"joinset"},
       r \in {<<>>, <<[from |-> "a", to |-> "a"]>>},
       to \in {"K3", "K9"},
       last \in {<<>>, <<Plain("e"), Plain("f")>>, <<Plain("e"), Child("K1", "unionset")>>, <<Child("K9", "unionset")>>},
       dims \in {"c" :> Categorical, "id" :> Categorical}}
  \union
  {("K1" :> [Kind("unionset", <<Plain("a"), Plain("b")>>) EXCEPT !.dims = d1, !.keys = k1])
     @@ ("K2" :> [Kind("joinset", <<Plain("e"), Plain("f")>>) EXCEPT !.dims = d2, !.keys = k2,
                    !.rels = <<[from |-> "e", to |-> "f"], [from |-> "f", to |-> "h"]>>])
     : d1 \in {"c" :> Categorical, "id" :> Categorical}, d2 \in {"c" :> Categorical, "id" :> Categorical},
       k1 \in {{}, {"id"}}, k2 \in {{}, {"id"}}}

MCModels == StorageModels \union TemporalModels \union AnchorModels \union MetricModels \union KeywordModels \union NestingModels

(***************************************************************************)
(* The parts.                                                              *)
(***************************************************************************)
NoCompilation ==
  /\ stage = "off" /\ model = EmptyMap /\ source = EmptyMap /\ env = None /\ todo = {}
  /\ resolved = EmptyMap /\ snapshot = EmptyMap /\ warnings = {} /\ depths = EmptyMap /\ manifest = None

MCInit ==
  /\ part \in {"compile", "repository", "cache"}
  /\ IF part = "compile" THEN Init ELSE NoCompilation
  /\ RepoInit
  /\ CacheInit

MCNext ==
  /\ UNCHANGED part
  /\ \/ part = "compile" /\ Next /\ UNCHANGED <<repoVars, cacheVars>>
     \/ part = "repository" /\ RepoNext /\ UNCHANGED <<vars, cacheVars>>
     \/ part = "cache" /\ CacheNext /\ UNCHANGED <<vars, repoVars>>

MCSpec == MCInit /\ [][MCNext]_<<part, vars, repoVars, cacheVars>>
===============================================================================
