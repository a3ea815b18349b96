---------------------------- MODULE QueryEngine ----------------------------
(***************************************************************************)
(* From a request to an artifact: the engine behind the REST, gRPC and     *)
(* command-line transports and the facade (crates/semstrait-api/src/       *)
(* engine.rs, parse.rs, cli.rs; crates/semstrait/src/builder.rs) and the   *)
(* planner's pipeline around the kinds (crates/semstrait-planner/src/      *)
(* planner.rs, validator.rs).                                              *)
(*                                                                         *)
(* An instance is configured once and answers one request: a raw one,      *)
(* which the engine resolves against the manifest, or a resolved one       *)
(* through the facade.  A grainset is planned by GrainsetPlan; a simple    *)
(* dataset is planned if it maps what is asked.  What the kind's plan      *)
(* returns has the columns of the names the request asks for and no other. *)
(***************************************************************************)
EXTENDS GrainsetPlan, Integers

CONSTANTS
  Null,         (* the SQL NULL                                            *)
  NoName,       (* an entity or engine that is not given                   *)
  MaxI64,       (* the largest i64; limits are up to 2 * MaxI64 + 1        *)
  Features      (* the features the crates are built with                  *)

ASSUME EngineAssumption == MaxI64 \in Nat /\ Features \subseteq {"datafusion", "iceberg", "aws"}

VARIABLES
  manifest,     (* the compiled interfaces and bindings by entity          *)
  rows,         (* what the kind finds, with a value for every name        *)
  conf,         (* the instance: with a manifest or not, and its adapter   *)
  ask,          (* the request as it came, and the operation               *)
  req,          (* the ResolvedQueryRequest                                *)
  layers,       (* the nodes above the fragment, innermost first           *)
  out,          (* what the caller gets                                    *)
  qpc

qvars == <<manifest, rows, conf, ask, req, layers, out, qpc>>

NoAsk == [via |-> "none"]
NoReq ==
  [entity |-> NoName, dimensions |-> <<>>, measures |-> <<>>, filters |-> <<>>, grain |-> NoGrain,
   limit |-> -1, order_by |-> <<>>]

InitQuery ==
  /\ conf = [ready |-> FALSE, manifest |-> FALSE, adapter |-> NoName]
  /\ ask = NoAsk /\ req = NoReq /\ layers = <<>> /\ out = "none" /\ qpc = "configure"
  /\ Idle

Answer(o) == out' = o /\ qpc' = "done"

-----------------------------------------------------------------------------
(* Configuration.                                                          *)

Ansi == {NoName, "ansi", "canonical"}

(* resolve_adapter: an error is told apart from no adapter.                *)
EngineKnown(engine) == engine \in Ansi \/ (engine = "datafusion" /\ "datafusion" \in Features)
AdapterOf(engine) == IF engine \in Ansi THEN NoName ELSE engine

(* resolve_polaris_secret_with_credentials and parse_polaris_secret: a     *)
(* secret is the set of its text fields, empty if it is missing or binary. *)
SecretParses(secret) == {"client_id", "client_secret"} \subseteq secret

(* build_iceberg_provider and build_polaris_catalog.  URLs, scope, realm   *)
(* and credentials are only stored.                                        *)
BuildIcebergProvider(entry) ==
  /\ "iceberg" \in Features
  /\ entry.auth = "aws_secrets" => ("aws" \in Features /\ SecretParses(entry.secret))

BuildCatalogProvider(entry) ==
  entry.provider \in {"polaris", "iceberg_rest"} /\ BuildIcebergProvider(entry)

(* build_catalog_registry: the first entry that cannot be built ends it.   *)
BuildCatalogRegistry(catalogs) ==
  catalogs.loads /\ \A entry \in catalogs.entries : BuildCatalogProvider(entry)

(* SemstraitBuilder::build with the setters called before it: the text of  *)
(* the model wins over its location, a catalogs file over a registry, the  *)
(* name of an engine over an adapter.                                      *)
BuildFacade(b) ==
  /\ qpc = "configure"
  /\ LET built == /\ b.yaml \/ b.location = "readable"
                  /\ b.catalogs.file => BuildCatalogRegistry(b.catalogs)
                  /\ b.compiles
                  /\ EngineKnown(b.engine)
     IN  /\ conf' = [ready |-> built, manifest |-> built,
                     adapter |-> IF ~built THEN NoName
                                 ELSE IF b.engine = NoName THEN b.adapter ELSE AdapterOf(b.engine)]
         /\ qpc' = IF built THEN "facade" ELSE "done"
         /\ out' = IF built THEN out ELSE "error"
  /\ UNCHANGED <<manifest, rows, ask, req, layers, gvars>>

(* compile_from_file and build_engine of the command line; a server takes  *)
(* no catalogs.  SemstraitEngine::new has no manifest.                     *)
BuildEngine(b) ==
  /\ qpc = "configure"
  /\ LET built == /\ b.location = "readable"
                  /\ b.catalogs.file => BuildCatalogRegistry(b.catalogs)
                  /\ b.compiles
                  /\ EngineKnown(b.engine)
     IN  /\ conf' = [ready |-> built, manifest |-> built, adapter |-> IF built THEN AdapterOf(b.engine) ELSE NoName]
         /\ qpc' = IF built THEN "api" ELSE "done"
         /\ out' = IF built THEN out ELSE "error"
  /\ UNCHANGED <<manifest, rows, ask, req, layers, gvars>>

NewEngine ==
  /\ qpc = "configure"
  /\ conf' = [ready |-> TRUE, manifest |-> FALSE, adapter |-> NoName]
  /\ qpc' = "api"
  /\ UNCHANGED <<manifest, rows, ask, req, layers, out, gvars>>

-----------------------------------------------------------------------------
(* The raw request.                                                        *)

(* RequestParser::parse                                                    *)
Structural(raw) == raw.select # <<>> /\ ~raw.raw_filters

(* The elements of a sequence that are in S, in order.                     *)
Pick(s, S) ==
  LET f[i \in 0 .. Len(s)] ==
        IF i = 0 THEN <<>> ELSE IF s[i] \in S THEN Append(f[i - 1], s[i]) ELSE f[i - 1]
  IN  f[Len(s)]

(* expand_select: every name of the entity, keys that are no dimensions    *)
(* included.                                                               *)
Everything(e) ==
  e.dims \o Pick(e.keys, ToSet(e.keys) \ ToSet(e.dims)) \o e.measures \o SetToSeq(DOMAIN e.parts)

ExpandSelect(raw, e) == IF raw.select = <<"*">> THEN Everything(e) ELSE raw.select

DimsOf(e) == ToSet(e.dims) \cup ToSet(e.keys)
MeasuresOf(e) == (ToSet(e.measures) \cup DOMAIN e.parts) \ DimsOf(e)

(* classify_select, and the names of filters.                              *)
NamesKnown(raw, e) ==
  /\ ToSet(ExpandSelect(raw, e)) \subseteq DimsOf(e) \cup MeasuresOf(e)
  /\ ToSet(raw.filters) \subseteq e.filters

(* to_resolved.  The named filters are looked up and not passed on, and    *)
(* the grain of the request is not read.  Without an entity all names are  *)
(* dimensions until the planner has found one.                             *)
OrderBy(raw) ==
  [i \in DOMAIN raw.order_by |->
     [field |-> raw.order_by[i].field,
      direction |-> IF raw.order_by[i].direction = "desc" THEN "desc" ELSE "asc"]]

Resolves(raw) ==
  /\ Structural(raw)
  /\ raw.from = NoName \/ (raw.from \in DOMAIN manifest /\ NamesKnown(raw, manifest[raw.from]))

Resolved(raw) ==
  LET base == [NoReq EXCEPT !.limit = raw.limit, !.order_by = OrderBy(raw), !.entity = raw.from] IN
  IF raw.from = NoName THEN [base EXCEPT !.dimensions = raw.select]
  ELSE LET e == manifest[raw.from]
           names == ExpandSelect(raw, e) IN
       [base EXCEPT !.dimensions = Pick(names, DimsOf(e)), !.measures = Pick(names, MeasuresOf(e))]

(* SemstraitEngine::validate                                               *)
Validate(raw) ==
  /\ qpc = "api"
  /\ ask' = [via |-> "api", op |-> "validate", raw |-> raw]
  /\ Answer(IF IF conf.manifest THEN Resolves(raw) ELSE Structural(raw) THEN "valid" ELSE "invalid")
  /\ UNCHANGED <<manifest, rows, conf, req, layers, gvars>>

(* explain and plan                                                        *)
Receive(raw, op) ==
  /\ qpc = "api"
  /\ ask' = [via |-> "api", op |-> op, raw |-> raw]
  /\ IF conf.manifest THEN qpc' = "engine" /\ UNCHANGED out ELSE Answer("error")
  /\ UNCHANGED <<manifest, rows, conf, req, layers, gvars>>

(* validate_engine_field: ANSI is always fine; another engine must be the  *)
(* one of the adapter.                                                     *)
EngineMatches(engine) == engine \in Ansi \/ engine = conf.adapter

ValidateEngineField ==
  /\ qpc = "engine"
  /\ IF EngineMatches(ask.raw.engine) THEN qpc' = "parse" /\ UNCHANGED out ELSE Answer("error")
  /\ UNCHANGED <<manifest, rows, conf, ask, req, layers, gvars>>

ToResolved ==
  /\ qpc = "parse"
  /\ IF Resolves(ask.raw)
       THEN req' = Resolved(ask.raw) /\ qpc' = "plan" /\ UNCHANGED out
       ELSE Answer("error") /\ UNCHANGED req
  /\ UNCHANGED <<manifest, rows, conf, ask, layers, gvars>>

(* The facade takes a resolved request.                                    *)
Submit(r, op) ==
  /\ qpc = "facade"
  /\ ask' = [via |-> "facade", op |-> op, resolved |-> r]
  /\ req' = r
  /\ qpc' = "plan"
  /\ UNCHANGED <<manifest, rows, conf, layers, out, gvars>>

-----------------------------------------------------------------------------
(* SemanticPlanner::plan                                                   *)

AllFields == ToSet(req.dimensions) \cup ToSet(req.measures)
HasAll(e) == AllFields \subseteq DimsOf(e) \cup MeasuresOf(e)

(* Without an entity: one that has all the fields is planned as if it had  *)
(* been named (which one is AdHocJoin's matter), its keys after its        *)
(* dimensions and its metrics after its measures; otherwise AdHocJoin      *)
(* joins several or gives up, and the constraints are not looked at.       *)
Reclassified(name) ==
  LET e == manifest[name]
      all == req.dimensions \o req.measures IN
  [req EXCEPT !.entity = name,
     !.dimensions = Pick(all, ToSet(e.dims)) \o Pick(all, ToSet(e.keys) \ ToSet(e.dims)),
     !.measures = Pick(all, ToSet(e.measures) \ DimsOf(e)) \o Pick(all, DOMAIN e.parts \ (DimsOf(e) \cup ToSet(e.measures)))]

PlanAdHoc ==
  /\ qpc = "plan" /\ req.entity = NoName
  /\ \/ \E name \in DOMAIN manifest :
          /\ HasAll(manifest[name])
          /\ req' = Reclassified(name) /\ UNCHANGED <<out, qpc>>
     \/ /\ \A name \in DOMAIN manifest : ~HasAll(manifest[name])
        /\ Answer("joined or refused") /\ UNCHANGED req
  /\ UNCHANGED <<manifest, rows, conf, ask, layers, gvars>>

(* As Scope without the filters.                                           *)
ScopeOfGroups(e) == ToSet(req.dimensions)

(* ConstraintValidator::check.  The scope is what the query groups by or   *)
(* filters on.                                                             *)
Scope(e) ==
  ToSet(req.dimensions) \cup {f \in {req.filters[i].field : i \in DOMAIN req.filters} : f \in ToSet(e.dims)}

Among(e, names) == names \cap Scope(e)

DimensionsAllowed(e, c) ==
  /\ c.one_of # {} => Among(e, c.one_of) # {}
  /\ Among(e, c.none_of) = {}
  /\ Among(e, c.all) = c.all

AggregationAllowed(c, agg) ==
  /\ c.allowed # {} => agg \in c.allowed
  /\ agg \notin c.prohibited

ConstraintsMet(e) ==
  \A m \in ToSet(req.measures) \cap DOMAIN e.constraints :
    /\ DimensionsAllowed(e, e.constraints[m])
    /\ m \in ToSet(e.measures) => AggregationAllowed(e.constraints[m], e.aggs[m])

CheckConstraints ==
  /\ qpc = "plan" /\ req.entity # NoName
  /\ IF req.entity \in DOMAIN manifest /\ ConstraintsMet(manifest[req.entity])
       THEN qpc' = "resolve" /\ UNCHANGED out
       ELSE Answer("error")
  /\ UNCHANGED <<manifest, rows, conf, ask, req, layers, gvars>>

(* PrunedView: a binding goes if an equality filter contradicts a literal  *)
(* of its mapping or a metadata value, which is read off its first source. *)
Keeps(b) ==
  \A i \in DOMAIN req.filters :
    LET f == req.filters[i] IN
    (f.op = "=" /\ f.values # <<>> /\ f.field \in DOMAIN b.fixed) => b.fixed[f.field] = f.values[1]

Active(e) == SelectSeq(e.bindings, Keeps)

(* resolve_entity and dispatch_data_kind: the first planner that supports  *)
(* the kind.  That no binding is active is an error either way.            *)
ResolveGrainset ==
  /\ qpc = "resolve" /\ manifest[req.entity].kind = "grainset"
  /\ LET e == manifest[req.entity] IN
     GResolve([temporal |-> e.temporal, finest |-> e.finest, parts |-> e.parts, aggs |-> e.aggs, metadata |-> e.metadata,
               bindings |-> Active(e), dimensions |-> req.dimensions, measures |-> req.measures,
               grain |-> req.grain])
  /\ qpc' = "grainset"
  /\ UNCHANGED <<manifest, rows, conf, ask, req, layers, out>>

GrainsetStep ==
  /\ qpc = "grainset"
  /\ GNext
  /\ UNCHANGED qvars

GrainsetDone ==
  /\ qpc = "grainset" /\ gpc \in {"built", "refused"}
  /\ IF gpc = "built" THEN qpc' = "filters" /\ UNCHANGED out ELSE Answer("error")
  /\ UNCHANGED <<manifest, rows, conf, ask, req, layers, gvars>>

ResolveSimple ==
  /\ qpc = "resolve" /\ manifest[req.entity].kind = "dataset"
  /\ LET e == manifest[req.entity]
         needed == ToSet(req.dimensions) \cup
                   UNION {IF m \in DOMAIN e.parts THEN e.parts[m] ELSE {m} : m \in ToSet(req.measures)} IN
     IF Active(e) # <<>> /\ needed \subseteq e.bindings[1].maps THEN qpc' = "filters" /\ UNCHANGED out ELSE Answer("error")
  /\ UNCHANGED <<manifest, rows, conf, ask, req, layers, gvars>>

(* AdditivityResolver::resolve returns the fragment as it is.              *)

-----------------------------------------------------------------------------
(* The layers above the fragment.  A predicate is a conjunction or a       *)
(* disjunction of comparisons of one column with a literal.                *)
Compare(op, field, v) == [op |-> op, field |-> field, value |-> v]
Chain(how, op, f) == [how |-> how, terms |-> [i \in DOMAIN f.values |-> Compare(op, f.field, f.values[i])]]

(* As FilterExpr with NOT IN made of OR.                                   *)
FilterExprAnyOf(f) ==
  CASE f.op = "in" -> Chain("or", "=", f)
    [] f.op = "not in" -> Chain("or", "<>", f)
    [] OTHER -> [how |-> "and", terms |-> <<Compare(f.op, f.field, Null)>>]

(* query_filter_to_expr: a comparison takes the first value.               *)
FilterExpr(f) ==
  CASE f.op = "in" -> Chain("or", "=", f)
    [] f.op = "not in" -> Chain("and", "<>", f)
    [] f.op = "between" -> [how |-> "and", terms |-> <<Compare(">=", f.field, f.values[1]),
                                                     Compare("<=", f.field, f.values[2])>>]
    [] f.op \in {"is null", "is not null"} -> [how |-> "and", terms |-> <<Compare(f.op, f.field, Null)>>]
    [] OTHER -> [how |-> "and", terms |-> <<Compare(f.op, f.field, f.values[1])>>]

EnoughValues(f) ==
  CASE f.op = "between" -> Len(f.values) = 2
    [] f.op \in {"is null", "is not null"} -> TRUE
    [] OTHER -> f.values # <<>>

(* inject_user_filters                                                     *)
InjectUserFilters ==
  /\ qpc = "filters"
  /\ IF \A i \in DOMAIN req.filters : EnoughValues(req.filters[i])
       THEN /\ layers' = [i \in DOMAIN req.filters |-> [node |-> "filter", predicate |-> FilterExpr(req.filters[i])]]
            /\ qpc' = "order" /\ UNCHANGED out
       ELSE Answer("error") /\ UNCHANGED layers
  /\ UNCHANGED <<manifest, rows, conf, ask, req, gvars>>

ApplyOrderBy ==
  /\ qpc = "order"
  /\ layers' = IF req.order_by = <<>> THEN layers ELSE Append(layers, [node |-> "sort", keys |-> req.order_by])
  /\ qpc' = "limit"
  /\ UNCHANGED <<manifest, rows, conf, ask, req, out, gvars>>

(* apply_limit: limit as i64.  The optimizer that follows has no passes,   *)
(* since neither the engine nor the facade registers one.                  *)
AsI64(n) == IF n > MaxI64 THEN n - 2 * (MaxI64 + 1) ELSE n

ApplyLimit ==
  /\ qpc = "limit"
  /\ layers' = IF req.limit = -1 THEN layers ELSE Append(layers, [node |-> "fetch", limit |-> AsI64(req.limit)])
  /\ qpc' = "emit"
  /\ UNCHANGED <<manifest, rows, conf, ask, req, out, gvars>>

(* explain shows SQL; plan gives what the adapter makes of the plan, SQL   *)
(* without one.  Both may fail.                                            *)
Emit ==
  /\ qpc = "emit"
  /\ \/ Answer(IF ask.op = "plan" /\ conf.adapter # NoName THEN "substrait" ELSE "sql")
     \/ Answer("error")
  /\ UNCHANGED <<manifest, rows, conf, ask, req, layers, gvars>>

QueryStep ==
  \/ ValidateEngineField \/ ToResolved \/ PlanAdHoc \/ CheckConstraints
  \/ ResolveGrainset \/ GrainsetStep \/ GrainsetDone \/ ResolveSimple
  \/ InjectUserFilters \/ ApplyOrderBy \/ ApplyLimit \/ Emit

-----------------------------------------------------------------------------
Answered == qpc = "done" /\ out \in {"sql", "substrait"}

(* ConstraintsKept: whatever the way to its entity, an answered request    *)
(* meets the constraints of every measure and metric it asks for, with     *)
(* both its dimensions and the dimensions of its filters in scope.         *)
ConstraintsKept ==
  Answered =>
    LET e == manifest[req.entity]
        asked == IF ask.via = "facade" THEN ask.resolved ELSE Resolved(ask.raw)
        names == ToSet(asked.dimensions) \cup ToSet(asked.measures)
        grouped == IF asked.entity = NoName THEN names \cap DimsOf(e) ELSE ToSet(asked.dimensions)
        measured == (names \cap MeasuresOf(e)) \cup (IF asked.entity = NoName THEN {} ELSE ToSet(asked.measures))
        dims == grouped \cup ({asked.filters[i].field : i \in DOMAIN asked.filters} \cap ToSet(e.dims)) IN
    \A m \in measured \cap DOMAIN e.constraints :
      LET c == e.constraints[m] IN
      /\ c.none_of \cap dims = {} /\ c.all \subseteq dims
      /\ c.one_of = {} \/ c.one_of \cap dims # {}
      /\ m \in DOMAIN e.aggs => (e.aggs[m] \notin c.prohibited /\ (c.allowed = {} \/ e.aggs[m] \in c.allowed))

(* What the plan of the kind returns: a column for every dimension, measure*)
(* and metric of the request.  Names that are only filtered or sorted by   *)
(* are not among them.                                                     *)
Fragment == [i \in DOMAIN rows |-> [f \in AllFields |-> rows[i][f]]]

(* The columns a layer reads, each by the name of its field.               *)
Reads(layer) ==
  CASE layer.node = "filter" -> {layer.predicate.terms[i].field : i \in DOMAIN layer.predicate.terms}
    [] layer.node = "sort" -> {layer.keys[i].field : i \in DOMAIN layer.keys}
    [] OTHER -> {}

Readable == \A i \in DOMAIN layers : Reads(layers[i]) \subseteq AllFields

(* FilterColumnsProvided: the filters of a request that is answered read   *)
(* columns of the fragment below them.  (Refuted: a filter may name any    *)
(* field of the entity, and one that is not asked for as well is not there *)
(* to be read.  The keys of its order fail in the same way.)               *)
FilterColumnsProvided ==
  Answered => \A i \in DOMAIN layers : layers[i].node = "filter" => Reads(layers[i]) \subseteq AllFields

(* What the layers do to rows.  A comparison with NULL is not true.        *)
Ordered(op, v, w) ==
  CASE op = "=" -> v = w [] op = "<>" -> v # w
    [] op = "<" -> v < w [] op = "<=" -> v <= w
    [] op = ">" -> v > w [] OTHER -> v >= w

TermHolds(t, row) ==
  LET v == row[t.field] IN
  CASE t.op = "is null" -> v = Null
    [] t.op = "is not null" -> v # Null
    [] OTHER -> v # Null /\ t.value # Null /\ Ordered(t.op, v, t.value)

Holds(p, row) ==
  IF p.how = "and" THEN \A i \in DOMAIN p.terms : TermHolds(p.terms[i], row)
  ELSE \E i \in DOMAIN p.terms : TermHolds(p.terms[i], row)

Before(keys, r, s) ==
  \E k \in DOMAIN keys :
    /\ \A j \in 1 .. k - 1 : r[keys[j].field] = s[keys[j].field]
    /\ IF keys[k].direction = "asc" THEN r[keys[k].field] < s[keys[k].field]
       ELSE r[keys[k].field] > s[keys[k].field]

(* The orders a sort can leave rows in: rows that no key tells apart may   *)
(* come in either order.                                                   *)
Sorted(keys, rs) ==
  LET orders == {p \in [DOMAIN rs -> DOMAIN rs] :
                   IsInjective(p) /\ \A i, j \in DOMAIN rs : i < j => ~Before(keys, rs[p[j]], rs[p[i]])}
  IN  {[i \in DOMAIN rs |-> rs[p[i]]] : p \in orders}

(* What a layer may make of the rows below it, and what the last may give. *)
Run(layer, rs) ==
  CASE layer.node = "filter" -> {Pick(rs, {r \in ToSet(rs) : Holds(layer.predicate, r)})}
    [] layer.node = "sort" -> Sorted(layer.keys, rs)
    [] OTHER -> {SubSeq(rs, 1, IF layer.limit < Len(rs) THEN layer.limit ELSE Len(rs))}

AfterAll ==
  LET after[i \in 0 .. Len(layers)] ==
        IF i = 0 THEN {Fragment} ELSE UNION {Run(layers[i], rs) : rs \in after[i - 1]}
  IN  after[Len(layers)]

(* A plan that reads a column that is not there has no result.             *)
Results == IF Readable THEN AfterAll ELSE {}

(* What a filter says of a row.                                            *)
Satisfies(f, row) ==
  LET v == row[f.field]
      known == {f.values[i] : i \in DOMAIN f.values} \ {Null} IN
  CASE f.op = "is null" -> v = Null
    [] f.op = "is not null" -> v # Null
    [] f.op = "in" -> v # Null /\ v \in known
    [] f.op = "not in" -> v # Null /\ v \notin known /\ Null \notin ToSet(f.values)
    [] f.op = "between" -> v # Null /\ Null \notin ToSet(f.values) /\ v >= f.values[1] /\ v <= f.values[2]
    [] OTHER -> v # Null /\ f.values[1] # Null /\ Ordered(f.op, v, f.values[1])

(* FirstOfTheMatching: the answer to a resolved request that filters and   *)
(* sorts by nothing but what it asks for is the first limit of the rows    *)
(* that satisfy all of its filters, in the order it wants them:            *)
(* it has as many rows as there are, up to the limit; each is a row of its *)
(* own that satisfies the filters; and no row left out comes before one of *)
(* them.  Other filters and orders have no answer (FilterColumnsProvided), *)
(* and a limit above the largest i64 is a negative number in the plan.     *)
FirstOfTheMatching ==
  (Answered /\ ask.via = "facade" /\ Readable /\ req.limit <= MaxI64) =>
    LET match == {i \in DOMAIN Fragment : \A k \in DOMAIN req.filters : Satisfies(req.filters[k], Fragment[i])} IN
    \A answer \in Results :
      /\ Len(answer) = IF req.limit # -1 /\ req.limit < Cardinality(match) THEN req.limit ELSE Cardinality(match)
      /\ \A i, j \in DOMAIN answer : i < j => ~Before(req.order_by, answer[j], answer[i])
      /\ \E q \in [DOMAIN answer -> match] :
           /\ IsInjective(q) /\ \A i \in DOMAIN answer : answer[i] = Fragment[q[i]]
           /\ \A i \in DOMAIN answer, k \in match \ Range(q) : ~Before(req.order_by, Fragment[k], answer[i])
=============================================================================
