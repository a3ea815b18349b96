# semstrait in TLA+

semstrait is a semantic layer written in Rust. A user describes datasets, joins
of datasets and measures in YAML; the program compiles that model into a
manifest, plans a query ("these dimensions, these measures, these filters")
against the manifest, and emits the plan as SQL or Substrait. This directory
holds TLA+ models of its parts, the TLC runs that check them on small instances,
and proofs that TLAPS checks for every instance.

`PROJECT.json` is the index: which definition models which lines (`map`), the
runs, a mutant for each property that some run checks, the disagreements found
between the code and its own documentation (`findings`), and the hazards the
properties are for (`hazards`).

## 1. The system

The crates under `src/crates/` form a pipeline. Data flows downwards; almost all
of it is single-threaded computation on immutable input, so most of what is hard
here is orders of work, names that serve as keys, two lists paired by position,
and two pieces of code that must agree on one input. The shared mutable state is
in four places: the manifest file, the token cache, the alias counter and the
live catalog that a manifest was compiled from.

```
YAML  --load, parse, build, validate--> Model            semstrait-model
Model --compile, catalogs-------------> CompiledManifest semstrait-manifest, semstrait-catalog
      --save / load-------------------> manifest file    semstrait-manifest (repository)
Request + manifest --plan------------>  PlanNode tree    semstrait-api, semstrait-planner, semstrait-ir
PlanNode --emit---------------------->  SQL, Substrait   semstrait-adapter
```

| component | state it keeps | operations | what is hard | correct when |
|---|---|---|---|---|
| Loader (`loader.rs`) | inputs, diagnostics so far | attach sources, read, parse each, parse catalogs, build | a stage goes through all its inputs before it stops; the builder is shared by the sources | every problem is reported under its source, and nothing of a loaded source is lost |
| Model and kind builders (`builder/`) | storage with places, a kind being written | accumulate, find duplicates, materialise, validate; chains of setters | setters that append, replace, or create the block they write into | what was written is what is built |
| Reference cycles (`validate/cycle_check.rs`) | three colours, explicit stack and path | one search per name of a carrier | abandoned searches, three copies of the path | it reports exactly when there is a cycle, only real cycles, and ends |
| Expression parsers (`parser/block.rs`, inline parser in `steps.rs`) | none | parse YAML values, parse texts, fold negations, dump | precedence without a grammar, limits of integer types | the tree is the one the author wrote |
| Manifest compiler (`compiler.rs`, `steps.rs`, `acceleration.rs`) | the model being rewritten, source table, depths, indices | thirteen steps in a fixed order | names as keys, hash-map orders, metrics compiled before what they use, providers that fail | the manifest says what the author wrote |
| Relationship graph (`steps.rs`, `manifest.rs`) | edges, shortest paths | one breadth-first search per entity | cycles, self-loops, reversed edges, unknown names | stored paths are shortest chains between connected pairs |
| Manifest repository (`repository.rs`) | a file, a temporary file | save, load | crash or error between write and rename, concurrent save and load | save and load are atomic |
| Catalogs (`semstrait-catalog`) | token cache (Iceberg REST) | get_token, list, load | overlapping fetches, clocks | tokens handed out are alive |
| Engine, façade, request parsing (`semstrait-api`, `semstrait`) | a manifest behind an `Arc`, an adapter | configure, validate, resolve, plan, check drift | a request is validated and then changed; tables change during the check | what is answered is what was asked |
| Planner: pipeline (`planner.rs`, `validator.rs`) | layers above the fragment | constraints, filters, order, limit | order of the layers, three-valued filters, casts | the first rows of the matching ones |
| Planner: joinset (`data_kind/joinset.rs`) | pruned view, walk, join tree | prune, find anchor, order, join, rename | pruned and unconnected datasets, reversed edges | the join tree spans the anchor's component, in scope |
| Planner: ad-hoc queries (`entity_resolver.rs`, `ad_hoc_join.rs`) | coverage, match, join order | score, select, order, join | greedy choices, positions in two lists | a cover with the best entity is found when there is one, and each fragment is joined with its own condition |
| Planner: simple, unionset, plan layers (`plan_layers.rs`) | scan columns, aggregates, branches | resolve dimensions, collect, decompose, plan sources, merge | lists paired by position, values known per source | each layer reads what the one below provides |
| Planner: grainset (`data_kind/grainset.rs`) | eligible datasets, groups by grain, assignment | prune, group, assign, branch | the same facts are stored at several grains | each fact is counted once |
| IR (`semstrait-ir`) | none | build, rewrite and validate expression and plan trees | constructors that trust their caller | an accepted plan returns what its schema says |
| SQL emitters (`semstrait-adapter/src/sql`) | alias counter | emit text, build the polyglot tree | the counter is shared, errors half way; precedence of four dialects; two emitters | both mean the plan, with reproducible aliases |
| Common (`semstrait-common`), function registries | none | diagnostics, object storage, tables of names | | |

## 2. Modules

The modules named `MC...` give the constants values and build the finite sets of
inputs; the ones named `...Proofs` hold theorems.

Loading and building (`semstrait-model`):

| module | code | state and actions |
|---|---|---|
| `ModelBuilder` | `builder/`, `validate/` | Storage with the place of every entry, the duplicate search over it, materialisation (the first entry of a name wins) and the validators, as operators. |
| `ModelLoader` | `loader.rs`; EXTENDS `ModelBuilder` | `FromYaml`, `FromCatalogsYaml`, `WithCatalogs`, `SkipValidate` in any order, then `Read`, `ParseModel` per source and `ParseDone`, `ParseCatalogs` and `CatalogsDone`, `Build`. `accumulated` has a set of diagnostics for each source or stage gone through; the order within one source is left out. |
| `KindBuilder` | `builder/data_kind.rs` and its siblings | `Chain(call)`: one fluent setter, on one of eight builders. |
| `CycleCheck` | `validate/cycle_check.rs` | `stack`, `path`, `grey`, `visited` as in `find_cycle_from`. `SkipStart` and `BeginSearch` are the outer loop, `ReportCycle`, `PassOver`, `Descend` the cases for the next child, `Blacken` the pop. `blackAt` and `tick` are history. The order of iteration over the hash set of references is free. |
| `BlockParser` | `parser/block.rs`, literals and mappings; EXTENDS `ExprParser`, `ExprTree` | `ParseYaml`, `RewriteWith` (a substitution over the tree), `Build` (a chain of writes into a mapping), `DumpMapping`. |

Compiling (`semstrait-manifest`); each of the five EXTENDS the one before, in the
order in which the compiler uses them:

| module | code | state and actions |
|---|---|---|
| `SourceResolution` | step 3 in `steps.rs` | Storage to sources, as a set (nothing depends on their order): globs, providers, catalogs and their failures. |
| `KindChecks` | steps 4 to 5.5 | The structural validators, expansion and propagation of mappings. |
| `MetricCompile` | step 6 and part of 8, `compiled.rs` | The metric graph; measures, metrics, computed dimensions, additivity. |
| `ManifestIndex` | steps 8 and 9, `acceleration.rs` | Bindings, numbered by the place of their dataset among the children, coverage, the field index, the semantic graph. |
| `CompilePipeline` | `compiler.rs` | One action per step, `ResolveDataset` once per dataset, in the order of their places (`todo` has those to come); each may end the compilation. |
| `ExprParser` | the inline expression language in `steps.rs` | `parse_expr` on the words of a text. |
| `RelationshipGraph` | `build_relationship_graph`, `RelationshipGraph` in `manifest.rs` | One breadth-first search per entity, one discovery per step; forward edges before reverse ones. |
| `ManifestStore` | `InMemoryRepository` in `repository.rs` | The abstract store: one manifest, `Save` replaces it, `Load` returns it or an error. |
| `FileRepository` | `FileSystemRepository` in the same file | Directory entries, inodes and their blocks, so that a handle survives a rename, as on POSIX. `OpenTmp` (create and truncate), `WriteBlock`, `Rename` for a saver, `LoadOpen`, `ReadBlock`, `Parse` for a reader. `SaveAbandoned` stands for an I/O error and for a crash, at any point. |

Planning and answering (`semstrait-planner`, `semstrait-api`, `semstrait`):

| module | code | state and actions |
|---|---|---|
| `JoinsetPlan` | `data_kind/joinset.rs`, `mod.rs` | `PruneByMetadata`, `PruneByLiterals` build the pruned view, `ResolveGuards` and `FindAnchor` start the plan, `PopFront` .. `BfsDone` are `bfs_join_order`, one edge per step, `JoinNext` one join node, `Rename` the projection over the tree. `PlanFails` is an error of a callee. |
| `AdHocJoin` | `entity_resolver.rs`, `ad_hoc_join.rs`, `planner.rs` | EXTENDS `RelationshipGraph`: the graph is compiled first, then a request is scored, covered greedily (`Score`, `Select`, `NoCover`), ordered (`OrderNext`, `Unreachable`) and joined (`JoinNext`, `FinalProjection`). |
| `LayeredPlan` | `plan_layers.rs`, `unionset.rs`, `simple.rs`, with `decomposer.rs`, `resolver.rs`, `simplify.rs` as used there | `Classify` is `UnionsetPlanner::resolve` up to the branches. Per binding `ResolveDims`, `CollectScan`, `Decompose`, `PlanSource` (scan to aggregate over one source), `MergeSources` and `Project` follow `build_layered_plan`; `Reaggregate` puts the branches together. `unprovided` collects what a layer reads and the one below does not provide. |
| `GrainsetPlan` | `data_kind/grainset.rs` | `GResolve`, `PruneDatasets`, `GroupByGrain`, `AssignToGroup` or `NoGroup` for each measure and then each metric, `BuildGrainset`. A turn is a position of the request, so a name asked for twice has two. |
| `QueryEngine` | `engine.rs`, `parse.rs`, `cli.rs`, `builder.rs` of the façade, `planner.rs`, `validator.rs`; EXTENDS `GrainsetPlan` | Configuration (`BuildFacade`, `BuildEngine`), a raw request (`Receive`, `ToResolved`) or a resolved one (`Submit`), the entity (`PlanAdHoc`), `CheckConstraints`, the kind, then `InjectUserFilters`, `ApplyOrderBy`, `ApplyLimit`, `Emit`. |
| `SchemaDrift` | `check_schema_drift` in `engine.rs` | `CheckTable` asks the live catalog for one table while `Alter` changes it. `seen` is history. |

Trees, SQL and catalogs (`semstrait-ir`, `semstrait-adapter`, `semstrait-catalog`):

| module | code | state and actions |
|---|---|---|
| `ExprTree` | `expr/tree.rs`, `expr_fn.rs` | Nodes as kind, fields and slots of children; `check_well_formed`, `with_new_children`, the traversals. |
| `PlanTree` | `plan/` | `Push` and `Replace` are the constructors, `RunPass` a rewrite from the leaves up, `ClosePlan` and `Validate` `SemanticPlan`. |
| `SqlEmitter` | `sql/emitter.rs` | Threads share one emitter. `Emit` resets the counter, `Descend` and `Return` are the recursion of `emit_node` with an explicit stack, `NextAlias` the fetch-and-add. |
| `SqlRender` | `sql/expr_renderer.rs`, `dialect.rs`, `polyglot/`; EXTENDS `SqlEmitter` | `RenderQuery` is the text of an expression or a row limit, token by token; `BuildQuery` the polyglot tree of the same. |
| `TokenCache` | `get_token`, `get` in `iceberg.rs` | Clients share `token_cache` behind a lock that is not held across the fetch. `Issue` is the server, `Answer` the moment the client has parsed the answer, `Tick` the clock. A token is the instant at which the server stops accepting it. |

Composition. `AdHocJoin` composes the compiler's graph and the planner;
`QueryEngine` the engine, the pipeline and the grainset planner;
`CompilePipeline` the steps of the compiler; `ModelLoader` the loader and the
builder; `FileRepository` instantiates `ManifestStore` with a refinement mapping.
Other components meet only through immutable values. Where several of them are
checked in one run, the MC module chooses a `part` at the start and the state of
the others stays put; the parts share the run and nothing else.

Abstractions used throughout: names, fields, columns and manifests are small
numbers, strings or model values; in the planner an expression is the set of
names it mentions, in `ExprTree` and `SqlRender` it is a tree; a serialized
manifest is a sequence of blocks that parses only if all of them belong to one
manifest. The text of messages, letter case and quoting are left out. Integer
limits are kept as named constants (`MaxI64`, `MaxU32`, `MaxByte`, `MaxI8`) with
small values on both sides of which inputs are tried.

## 3. Runs

| run | instance | shows |
|---|---|---|
| `model_load` | loads of up to 2 sources of each kind, made of fragments that are valid, repeated, badly named, incomplete, undecodable or missing, with and without validation; chains of 3 calls on the eight builders; the cycle check on every graph over 3 names and 1 foreign one | A load that fails says why (`ErrorsExplainFailure`), after it has looked at every source, each problem at its source's place (`EveryProblemReported`); one that succeeds has every entity (`NothingLost`) and only relationships that the relationship builder accepts (`BuilderAgreesWithValidator`); a setter's value survives the setters that do not replace it (`BuilderKeepsWrites`). The cycle check reports exactly if there is a cycle, and reports are cycles (`VerdictExact`, with `Acyclic` tied to the cycles of the community module `Graphs` by an ASSUME). |
| `compile` (1.34 M states) | six families of models: storage and catalogs with providers that fail, find nothing or find two; temporal configurations and mappings; anchors; metrics; metrics whose names the scan of a text drops; nesting. Beside them the file with 1 saver, 1 reader, 2 manifests of 2 blocks and 3 inodes, and the token cache with 2 clients, lifetimes 1 and 4, buffer 2, delay at most 2, time up to 5 | A dataset gets its own sources (`SourcesAreOwn`), a field the column its author gave it (`AuthorsMappingWins`), every field a binding (`EveryFieldBound`); grains agree (`GrainsAgree`); metrics whose references the metric graph has form no cycle and stand after what they use in the evaluation order (`MetricsWellFounded`); a metric that is compiled after what it uses is as additive as the leaves that the compiler's walk comes to (`AdditivityOfLeaves`); indices and kinds agree (`IndexAgrees`); a compiled model's nesting is bounded (`NestingBounded`). No load sees bytes that do not parse (`NeverCorrupt`), and the file is an implementation of `ManifestStore` (`ImplementsStore`). What the cache hands out is alive, tokens without an expiry and shorter than the buffer included (`HandsOutLiveTokens`). |
| `trees` (2.57 M states) | the texts of 29,000 expression trees; 2,500 YAML values; plan trees of up to 5 nodes over two tables and inline rows; SQL plans of up to 6 nodes, one thread; some 4,600 expressions and row limits in 4 dialects | Texts parse to the tree they were written for (`RoundTrip`), the names the compiler takes from a text have all those of the tree but keywords and what a minus sign touches (`DependenciesSeen`), a folded NOT is the negation in three-valued logic (`NegationIsLogical`), rewrites are substitutions and keep trees well formed (`TreesKept`), mappings survive a dump (`MappingSurvivesDump`), accepted plans return rows of their schema (`AcceptedPlansAreTyped`), aliases are reproducible after any earlier emit (`AliasesDeterministic`), each node is emitted once after its inputs (`EmitsPlan`), and the SQL text, read by the precedence of SQL, and the polyglot tree mean the expression (`EmittersAgree`). |
| `query` (1.03 M states) | 15,700 combinations of interface, bindings and request through the layers: columns, literals, metadata, a CASE on metadata, filters, a metric nested 0, 5 or 6 deep, up to 2 bindings of up to 2 sources; the engine and the façade in every configuration; grainsets of up to 3 datasets; the drift check of 2 tables with 1 change | If the model is mapped as the layers expect (`WellMapped`), each layer reads only what the one below provides (`LayersClosed`); a re-aggregation is skipped only where no two rows have a key in common (`SkipMergesNothing`); a grainset counts facts once (`FactsCountedOnce`) and refuses only what it cannot answer (`GrainsetRefusalJustified`); constraints hold on every way to an entity (`ConstraintsKept`); if the plan has the columns it filters and sorts by, the answer is the first rows of the matching ones (`FirstOfTheMatching`); drift is reported if it is there throughout the check, and only if it was there at some time (`DriftReported`). |
| `joinset` (276,490) | 3 bindings under 2 namings (two bindings may share a dataset name), every pair of relationships, 5 column mappings, every pruning | Conditions are in scope, the tree is exactly the anchor's component, and planning ends (`Terminates`). |
| `ad_hoc_join` | every list of 3 relationships over 3 entities and an unknown name, rings of 5 names, 10 kinds of request | Stored paths are the shortest chains, for exactly the connected pairs (`PathsAreShortest`); the join path holds the match together, each selection adds a field, each step attaches, the plan has every field (`AnswerSound`); a refusal means that no cover has the anchor that was chosen, or that the match has no join order over its join path (`RefusalsJustified`). |

Why the bounds are enough. Two sources of a model have every relation a later one
can have to an earlier one; three calls are a write, another write, and one that
may replace the first. Three names carry two cycles that share a search, a
self-loop off the path, and an edge into an abandoned search. The compiler's
steps look at one kind, at a kind and a name used by another, or at a chain of
references: three kinds in a row, the last of which may lead back or nowhere, give
each. Trees of two levels of operators have an operator of each precedence on
either side of each other one, with and without the parentheses it needs; plan trees of five nodes have each
node above a join and below one. Three bindings and two relationships have
every shape of a join tree that differs by what it attaches to (chain, star,
unconnected, parallel and reversed edges, two bindings under one name); a step
looks at one relationship and the tree below it. Rings of five give the graph
search two ways around of different length. Three datasets are two at one grain
and one at another, or three grains. Two manifests and two blocks tell a mixed
file from a whole one, three inodes let a reader keep an old file open across two
saves. Two bindings of two sources have every relation between a first and a
later source that the layers tell apart. Lifetimes 1 and 4 lie on both sides of
the buffer.

Runs that end in a violation show a disagreement between the code and what the
repository says of it. Each has an entry under `findings` with the quotation.

| run | the repository says | the code |
|---|---|---|
| `joinset_mirror` | a reversed walk mirrors LEFT and RIGHT | the type is kept |
| `file_repository_two_savers` | save is atomic | two savers share one temporary file |
| `ad_hoc_step_entity` | step i belongs to request i | not when the join order differs from the order of the match |
| `layered_plan_reagg` | partial aggregates are merged, one slot per name | a measure requested beside a metric that uses it shifts the functions: a MAX is merged by SUM |
| `compile_leaves` | a metric is as additive as the worst of all its leaves | leaves under a minus sign, a predicate, a cast, a COALESCE or a call are not looked at |
| `query_filter_columns` | a filter may name a dimension or a measure, and tests filter by one that is not selected | the filter reads a column that the plan below it does not have |

### What the models exhibit and no run asserts

The properties above are stated with the conditions under which the code keeps
them; what these conditions leave out is listed here.

Loading and building:

- With validation skipped, a build that fails drops its errors, and the load fails
  with the diagnostics so far, which may be none (`loader.rs:208`).
- Relationships of nested joinsets are not validated; names of relationships are
  not checked for duplicates.
- The builder's identifiers are looked at again after each source, so a bad name
  of the first is also reported under the labels of later ones. An unset
  environment variable and a YAML syntax error name no source.
- The plural setters of an interface replace what was there; `paths`, `tables` and
  those of the children extend it.
- `cycle_check.rs:10` says every strongly connected component surfaces; one that
  shares its search with another may stay unnamed (the verdict is still right).
  `cycle_check.rs:17` speaks of one report per carrier; the loop goes on after the
  first and may report one cycle again from another start.

Expressions:

- In `a / b * c` an operand becomes one entity reference of the whole text; `SUM(a) /
  SUM(b)` is one aggregate of the text between the outer parentheses; a quoted
  parenthesis takes part in the count of parentheses; a keyword of raw SQL is
  rejected within a string as well. `Supported` excludes these from `RoundTrip`.
- An integer above `i64::MAX` becomes a float, as do the words `inf` and `nan`; the
  number of the accessor `{first: 3}` is ignored; an expression in block form does
  not survive its own Serialize.

Compiling:

- Sources are stored by the display name of a dataset: children of the same name
  overwrite each other (`steps.rs:107`). A pattern that matches nothing stores no
  entry, and the fallback asserts that this cannot happen (`steps.rs:2404`, a debug
  assertion; the model is the release build).
- Metrics are compiled in the order of their names (`steps.rs:2125`), so the
  additivity and the type of one that uses a later one are not derived from it.
- Two walks look for the leaves of a metric, and neither looks everywhere: the one
  for the additivity goes into binary operators and all of a CASE
  (`steps.rs:2656`), the one for the type into binary operators, minus signs, NOT,
  tests for NULL and the results of a CASE, and follows no column
  (`steps.rs:1795`). A reference in `MetricCompile` carries what is above it, and
  `RatedRefs` and `TypedRefs` are what the walks come to. `AdditivityOfLeaves` is
  about those; `compile_leaves` shows what the others do.
- A metric named like a keyword of SQL, or written next to a minus sign (`m -b`), is
  a reference for the parser and no name for the metric graph (`steps.rs:3147`).
  `DependenciesSeen` and `MetricsWellFounded` leave these names out. With a
  metric `y` over `m`, and `x` written `m -y`, the graph does not see that `x` uses
  `y`; both have the same depth, and `x` comes before `y` by its name, although
  `acceleration.rs:718` speaks of a topological order. A metric `b` that uses one
  named `count` fares the same. The models of run `compile` refute
  `OrderIsTopological` in this way.
- A kind with one binding is compiled to a simple kind, which has no coverage, no
  evaluation order and no measures by metric; `EveryFieldBound` then speaks of the
  binding alone and `MetricsWellFounded` not at all.
- The nesting depth follows references without a guard (`steps.rs:500`): kinds
  that refer to themselves overflow the stack (stage `overflow`).

Planning:

- `19_expression_flow.md:772` says metrics may be nested to any depth; `decompose_metric`
  refuses more than 5 levels, and 4 in a union branch, so whether 5 levels are
  planned depends on whether the re-aggregation is skipped.
- `plan_layers.rs:232` says names are semantic after the rename; a measure with a
  filter, or with another expression than its own column, is read under a name no
  field has. `WellMapped` excludes these, literal parts of a metric, and computed
  dimensions that need a column only in a later source.
- `plan_layers.rs:980` says that no two items share a key; a binding is compared by
  its first source only. Pruning by metadata looks at the first source too. A
  literal for a computed dimension, which validation lets pass, also counts as a
  value that tells bindings apart (`plan_layers.rs:974`), although the rows have
  the computed value: the re-aggregation is then skipped wrongly.
  `SkipMergesNothing` excludes both.
- `joinset.rs:5` says the other datasets are joined; those not linked to the anchor
  are left out without an error.
- The entity that scores best becomes the anchor of an ad-hoc query
  (`entity_resolver.rs:204`), and what cannot be joined to it is out of the
  question. If A offers `m` and `e` and has no relationships, B offers `d` and `m`
  and is related to C, which offers `e`, then A is the anchor, and the request for
  `d`, `m` and `e` is refused (`entity_resolver.rs:261`, "No dataset can cover")
  although B and C cover it. `RefusalsJustified` therefore speaks of covers with
  the anchor; the interfaces of the run have this case and refute `CoverFound`,
  which speaks of all.
- `entity_resolver.rs:81` describes `join_path` as the paths of all pairs; it holds
  one path per selected entity. A path may run through an entity outside the match,
  and `compute_join_order` then refuses the match as unreachable.
- `entity_resolver.rs:106` says entities without aggregates are skipped; only those
  without any coverage are. `entity_resolver.rs:195` compares a count with the
  length of the request; a name that is a dimension and a measure counts twice, and
  the fast path can take an entity that lacks a field (the outcome
  `not_in_interface`).
- A metric of a grainset whose parts were given to another group is NULL in every
  branch (`grainset.rs:234`); a request for dimensions alone gives an empty union;
  a week is rolled up into months as if it lay within one (`types.rs:135`); a
  dataset without a grain ties with the finest one in the order of a hash map; a
  metric that uses its measures inside a function call has no parts
  (`extract_metric_constituents`), and is answered at whichever grain is left.

Answering:

- Parsing a request drops its named filters and its grain. Filters and orders are put
  above a plan that has the requested names only (`Fragment`), so one on another
  field has no result (`query_filter_columns`), and `limit as i64` (`planner.rs:416`)
  makes a negative number of a limit above `i64::MAX`; `FirstOfTheMatching` leaves
  both out. The constraints of the measures a metric is made of are not
  checked, and an ad-hoc request over several entities checks none. An explicit
  adapter is ignored when an engine is named.
- The drift check puts a namespace before the recorded name of a table; one that
  was recorded with its namespace gets a second, is not found and is skipped
  (`engine.rs:246`).

Plans and SQL:

- `meta.rs:64` says that `validate()` re-derives every schema and compares; it
  takes those of projections, aggregates, unions, scans and inline rows as given.
- `emitter.rs:24` says aliases are unique per `emit()`; with two threads on one
  emitter TLC refutes `AliasesUnique` (both sides of a join get `_j0`).
- The Spark function for a regular expression is read as a match of the whole value,
  as the comment at `dialect.rs:292` has it. `PlanTree` gives an aggregate node one
  aggregate; the code has a list.
- The text of a few expressions means something else, or nothing, by the
  precedence of SQL: IS NULL over NOT, comparisons or predicates, a predicate
  between the bounds of BETWEEN, and the sign of a negative literal, which
  starts a comment. `Misread` names them.
- The polyglot emitter splits a column name at its last dot, passes the group
  number of a regular expression as a string, and refuses unions of one input and
  negative limits, which the text has.

Catalogs:

- `iceberg.rs:190` counts a token's lifetime from the arrival of the answer: with
  `MaxDelay` above `Buffer` TLC refutes `HandsOutLiveTokens`.

### Fairness and deadlock

`JoinsetPlan` is a loop of one thread that nothing blocks, so weak fairness of its
next-state relation is what the scheduler guarantees; `Terminates` says that the
loop ends. The same fairness is stated for `CycleCheck`, `RelationshipGraph` with
`AdHocJoin`, and `CompilePipeline`, which are loops of the same kind; what is
checked of them is safety. The other modules have clients that may stop at will.
Deadlock checking is off: in every run some computation ends. The repository with
two savers runs by itself and has it on.

## 4. Theorems

TLAPS proves these for every value of the constants that satisfies the module's
ASSUME.

- `ModelProofs`, the cycle check. The invariant is `TypeOK`, `PathCoherent`,
  `BlackIsAcyclic` and `SearchProgress`. The crux is the history variable
  `blackAt`: whatever a black name refers to became black earlier. The stack makes
  this inductive (the references of a frame that are no longer to do are black, or
  the next frame), and it survives abandoned searches because these add nothing
  black. If nothing was reported when the loop ends, all names are black and
  `blackAt` orders them topologically (`CleanOrder`). A report is the part
  of the path from the grey name on, rotated, so that it is a cycle; a pool with a
  cycle is not `Acyclic`, because the name of the cycle that an order puts first
  would come before itself. The two together are `VerdictExact`.
- `ModelProofs`, the loader. `LoaderInv` counts: while parsing, `accumulated` has
  one set for each source behind `next`, at its place, which holds that source's
  diagnostics; without an error so far the storage is the union of the roots
  behind; from the first error on the load can only fail. It gives the four
  properties of a load, for any sources that have the shape of a YAML root
  (`ContentsAssumption`). `NothingLost` needs in addition that duplicates are
  errors, so that materialising loses nothing.
- `ModelProofs`, the kind builders. `ChainInv` is the property for every list and
  option, said of the block it is in, with the type of the kind: an optional block
  is empty or a singleton, so that `GetOrInsert` gives the block there is. What is
  heard after one more call is what was heard before, cut off where the call
  replaces and extended where it writes (`HeardAppend`); the setters do the same to
  the block (`SetterFacts`, `SetFacts`). It gives `BuilderKeepsWrites` for any
  items, lists and length of the chain.
- `JoinsetPlanProofs`. Besides the type, the invariant says that `visited` is the
  anchor and what the steps added (`VisitedIsTree`), that a visited binding is in
  the queue, current, or has all its neighbours visited (`Frontier`), that nothing
  outside the anchor's component is visited, and that a finished walk is closed.
  It gives `StepsAttach`, `ConditionsInScope` and, at the end, `JoinsComponent`.
  The component is defined without recursion, as the closed sets that contain the
  anchor, which keeps the proof first-order.
- `AdHocJoinProofs`. `GraphInv` is the breadth-first search: stored paths are
  chains (`PathsOfVisited`), what is behind the frontier is relaxed (`Frontier`),
  and the queue is sorted by distance and spans two levels (`Levels`). That a
  stored path is shortest follows by walking along any other chain. The query's
  invariant says that the candidates are what scored and is not selected, that
  joined and pending entities partition the match, and that the joins stand in the
  order of the match; with it `AnswerSound` and `RefusalsJustified`. The latter takes the
  anchor as given: a set of entities that covers the request, is connected and has
  the anchor lies in the component of the anchor, and of a reachable candidate
  that offers a missing field the loop takes one. That another anchor might do is
  a case that the theorem does not speak of, and TLC finds it (`CoverFound`).
- `RequestProofs`, the layers. `LInv` says what each layer rests on: the asked
  measures are the request, or its parts if a re-aggregation follows
  (`AskedKept`); dimensions that are not NULL are mapped, the scan has every column
  read from it, and the aggregates are the parts of what the binding covers
  (`BranchKept`). It gives `LayersClosed` and `SkipMergesNothing`, from what the
  compiled manifest guarantees of interface, bindings and sources
  (`CasesAssumption`, `ColumnAssumption`).
- `RequestProofs`, the grainset. `GInv`: the groups are the native grains of the
  eligible datasets, whatever was given to a grain is mapped by a dataset there,
  and what has had its turn has its parts given. From it, `FactsCountedOnce` and
  `GrainsetRefusalJustified`.
- `RequestProofs`, the drift check. `DriftInv`: the history holds the present
  state of each table, and a table that was asked for has a verdict that was true
  at some time. With the column comparison being exact (`DiffsExact`), this is
  `DriftReported`.
- `RequestProofs`, the constraints. `QInv`: the request that is planned is the one
  asked, or, if that named no entity, its names sorted by the entity that was found
  (`Kept`); and from `CheckConstraints` on, that request has `Passed`. It gives
  `ConstraintsKept` for every configuration, manifest and request. It rests on the
  contract of `ResolvedQueryRequest` (`request.rs:15`, "Semantic dimension names"):
  a caller of the façade that names an entity lists none of its measures as a
  dimension (`IsClassified`). For the engine's own requests this is shown
  (`ResolvedIsRequest`). What `Pick` selects is shown by an induction over
  prefixes, with the least prefix that fails (`PickMembers`).
- `RequestProofs`, the answer. `PredicatesMeanFilters` says that the predicate made
  of a filter holds of a row exactly if the row satisfies the filter, whatever is
  NULL. `RowsInv`: past the filters every filter has the values it needs, and the
  layers are those of the request so far. What a layer leaves is described by a
  bijection (`Arranged`) between its rows and the indices of the rows it kept; these
  compose (`ArrangedTwice`, `ArrangedAgain`), so that after the last filter the rows
  are those that match, after the sort the same in its order, and after the limit
  the first of them: `FirstOfTheMatching`, for any rows, filters and keys, of every
  order that the sort may leave equal rows in, as long as the request asks for what it
  filters and sorts by. `AnswersExist` (`HasResult`) shows that this condition is
  the right one: a plan has a result only under it, and then, if the keys of the
  rows are integers, it has one. `Before` is a weak order
  (`BeforeOrders`) and a finite set can be put in any total order (`OrderExists`).
- `FileRepositoryProofs`, with one saver (`OneSaver`; two savers refute it). The
  temporary file is never the published one, the saver's handle is the temporary
  file and its content a prefix of the manifest, a reader's handle is a whole
  file that is not the temporary one. From this: `PathWhole`, `PublishedFrozen`,
  `NeverCorrupt`, and the refinement: `Implementation` shows that `Rename` maps to
  the abstract `Save`, the reader's last step to `Load`, every other step to a
  stutter.
- `TokenCacheProofs`, if answers take no longer than the buffer
  (`AnswersInTime`; a slower one refutes it). The invariant says that a computed
  expiry never exceeds the instant at which the server drops the token, for the
  cached token and for one about to be stored, whichever client stores last.
- `CompileProofs`. `PipelineInv` ties the rewritten model to the given one: up to
  the expansion it is the model as written, then one of its `Expansions`, then
  that with derived grains; each validator that has been passed still holds of the
  model it was asked about, which matters because `validate_mappings` sees another
  model than the one the author wrote. `Resolution` says that a name with sources
  is that of a dataset already resolved, and that each pattern of a resolved
  dataset whose name is its own is in its sources or has had a warning: a later
  dataset cannot take them away. The lemmas follow one mapping through the steps
  (`EffectiveTyped`, `FlattenedFacts`, `GrainedFacts`, `EntriesFacts`), one kind
  (`KindKept`, `ModelKept`) and one binding (`CompiledFacts`, `BoundFacts`). From
  these: `SourcesAreOwn`, `AuthorsMappingWins`, `EveryFieldBound`, `GrainsAgree`
  and `IndexAgrees`. For `NestingBounded` the depths are shown to be what the
  recursion says (`DepthsNested`); three references in a row count as three
  (`ThreeCounted`), and if the depth passes the number of kinds, the sets of the
  kinds with at least 1, 2, .. references in a row shrink and two of them are
  equal, which is a set of kinds that lead back into it (`EndlessGoesRound`).
  `ModelsAssumption` is the type of a parsed model: finitely many kinds in one
  order, a simple kind without mapping and references whose dataset has its name,
  entries of the known forms, the names of a kind's fields in one order without
  repetition, providers that find names.
- `CompileProofs`, the metrics. `Ranked` says that the depths of a compilation are
  those of a graph of metrics that has no cycle, and that no kind of a finished one
  has failed. In such a graph the rounds of depth settle before the last
  (`DepthRounds`), because a metric leads to strictly fewer metrics than one that
  refers to it (`LeadsLess`): a reference is to a smaller depth (`DepthsRise`). An
  order by depth, those of a depth by their places, is then a permutation with
  references first (`EvaluationOrderFacts`): `MetricsWellFounded`. The cycle check
  and the depths go by name over all kinds, the order by kind, which is why the
  property is about kinds whose names no earlier kind uses. The graph must have the
  references of the metrics (`NamesSeen`); without that TLC refutes the order
  (`OrderIsTopological`).
- `CompileProofs`, additivity. `compile_metrics` takes a metric that already has an
  additivity for its worst and looks through one that has none; the property looks
  through all of them, along the references that the walk comes to (`RatedRefs`). The two agree because the worst of the worsts of sets is the
  worst of their union (`WorstOfUnion`, on `WorstStep`: the fold may go in any
  order). By induction over the order of names each metric is rated as soon as
  those before it are (`RatedStep`): `AdditivityOfLeaves`.
- `SqlEmitterProofs`. With one thread (`OneThread`; two refute it) the counter is
  the number of the running statement's aliases, which gives
  `AliasesDeterministic`. With any number of threads, `WInv` says that the frames
  of a thread are calls for an input of the frame below (`Chain`), that inputs a
  frame has passed are emitted and those to come are not, and that what is emitted
  awaits a reader on the stack; a plan owns its nodes (`TreeAssumption`). It gives
  `EmitsPlan`.

Only model-checked: liveness (`Terminates`), and the properties of the parsers,
trees and renderers (`RoundTrip`, `DependenciesSeen`, `NegationIsLogical`,
`TreesKept`, `MappingSurvivesDump`, `AcceptedPlansAreTyped`, `EmittersAgree`).
Liveness and the modules with RECURSIVE operators (`ExprParser`, `ExprTree`,
`BlockParser`, `PlanTree`, `SqlRender`) are out of reach of the prover.

## 5. Not modelled

- The order in which a disk persists data and names after a power loss (the code
  does not sync); the models see the file system as processes do.
- A pause between taking a token and sending it, which the code does not bound,
  and the answer of the server to the request, which changes no state.
- The aggregate and the final projection of a joinset plan after `Rename`, and the
  plan of each fragment of an ad-hoc query: they may only fail.
- In the layers: data types and casts, anchored mappings, UNION with or without
  duplicates. The optimizer's rewrites of a finished plan.
- The resolution of references to shared semantics before the compiler's first
  modelled step.
- Which of several parse errors of one value is reported.
- YAML syntax, Substrait encoding, REST and gRPC, HTTP requests and listings of
  the catalogs: conversions and I/O without state. Function registries, diagnostic
  containers and object storage wrappers: tables and thin wrappers.

The components with status `partly` or `not_modelled` in `PROJECT.json` say the
same, part by part.

## 6. Plan

Done: every component with state or decisions of its own has a module, in the
order of importance: what decides whether a model is accepted, what the manifest
says, which plan is made, what the SQL means, and what is shared.

Every checked safety property that TLAPS can reach is proved; what is left to TLC
is named at the end of section 4.

Abstract specifications worth stating: a compile that is a function of the model
(for the pipeline) and a one-step planner (for the layers).
