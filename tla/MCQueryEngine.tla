--------------------------- MODULE MCQueryEngine ---------------------------
(***************************************************************************)
(* The way of a request in one run: the layers of simple kinds and         *)
(* unionsets (MCLayeredPlan), the engine and the planner's pipeline with   *)
(* grainsets (QueryEngine), and the drift check (SchemaDrift).             *)
(***************************************************************************)
EXTENDS MCLayeredPlan, QueryEngine, SchemaDrift

VARIABLE part

MCNull == -1

mcvars == <<part, vars, qvars, gvars, dvars>>

(* The state of a part that is not looked at.                              *)
NoLayers ==
  /\ query = Query("simple", [clicks |-> Bare("sum", "clicks")], 0, {}, <<>>, <<>>, <<>>)
  /\ skip_reagg = FALSE /\ asked = <<>> /\ branches = <<>> /\ null_dims = {} /\ scan = {}
  /\ all_aggs = <<>> /\ aggregates = <<>> /\ sourced = 0 /\ merge = Single /\ unprovided = {}
  /\ pc = "off"

NoEngine ==
  /\ manifest = <<>> /\ rows = <<>> /\ conf = [ready |-> FALSE, manifest |-> FALSE, adapter |-> NoName]
  /\ ask = NoAsk /\ req = NoReq /\ layers = <<>> /\ out = "none" /\ qpc = "off"
  /\ Idle

NoDrift ==
  /\ snapshot = <<>> /\ live = <<>> /\ reachable = {} /\ unchecked = {"off"} /\ warnings = <<>> /\ alters = 0
  /\ seen = <<>>

-----------------------------------------------------------------------------
(* The entities: orders, a dataset with constraints on its measures, and   *)
(* sales, a grainset.                                                      *)
Free == [one_of |-> {}, none_of |-> {}, all |-> {}, allowed |-> {}, prohibited |-> {}]

Constraints ==
  {<<>>, [m \in {"amount"} |-> [Free EXCEPT !.none_of = {"city"}]],
   [m \in {"amount", "rate"} |-> [Free EXCEPT !.one_of = {"city", "id"}, !.prohibited = {"MIN"}]],
   [m \in {"rate"} |-> [Free EXCEPT !.all = {"city"}, !.allowed = {"MIN"}]],
   [m \in {"amount"} |-> [Free EXCEPT !.allowed = {"MIN"}]]}

(* Weekly data are of account x, daily data of account y.                  *)
Binding(g, ms) ==
  [grain |-> g, maps |-> ms,
   fixed |-> CASE g = "week" -> [n \in {"account"} |-> "x"] [] g = "day" -> [n \in {"account"} |-> "y"] [] OTHER -> <<>>]

Orders(c) ==
  [kind |-> "dataset", dims |-> <<"day", "city">>, keys |-> <<"id", "day">>, measures |-> <<"amount">>,
   parts |-> [rate |-> {"amount"}], aggs |-> [amount |-> "SUM"], filters |-> {"recent"}, constraints |-> c,
   metadata |-> {}, temporal |-> TRUE, finest |-> "day",
   bindings |-> <<Binding(NoGrain, {"day", "city", "amount"})>>]

Sales(temporal, finest, bs) ==
  [kind |-> "grainset", dims |-> <<"day", "account">>, keys |-> <<>>, measures |-> <<"clicks", "views">>,
   parts |-> [ctr |-> {"clicks", "views"}, safe |-> {}], aggs |-> [clicks |-> "SUM", views |-> "MAX"], filters |-> {},
   constraints |-> <<>>, metadata |-> {"account"}, temporal |-> temporal, finest |-> finest, bindings |-> bs]

GrainBindings ==
  {Binding(g, ms) : g \in {"minute", "day", "week", NoGrain},
     ms \in {{"day", "clicks", "views"}, {"day", "clicks"}, {"clicks", "views"}, {"day", "views"}, {"city"}}}

(* Up to three datasets, coarser ones first: the order within a grainset   *)
(* does not matter.                                                        *)
GrainsetShapes ==
  LET one == {<<b>> : b \in GrainBindings}
      two == {<<b, c>> : b, c \in GrainBindings}
      three == {<<b, c, d>> : b \in {x \in GrainBindings : x.grain = "week"}, c, d \in {x \in GrainBindings : x.grain \in {"day", NoGrain}}} IN
  {bs \in {<<>>} \cup one \cup two \cup three :
     \A i, j \in DOMAIN bs : i < j => Coarseness(bs[i].grain) >= Coarseness(bs[j].grain)}

Day(n) == [n2 \in {"day", "city", "amount", "rate", "clicks", "views", "ctr", "id", "account"} |->
             CASE n2 = "day" -> n [] n2 = "city" -> IF n = 3 THEN Null ELSE n % 2 [] OTHER -> 4 - n]
MCRows == <<Day(2), Day(1), Day(3), Day(4)>>

-----------------------------------------------------------------------------
Entry(p, a, s) == [provider |-> p, auth |-> a, secret |-> s]
NoFile == [file |-> FALSE, loads |-> FALSE, entries |-> {}]
CatalogFiles ==
  {NoFile} \cup
  {[file |-> TRUE, loads |-> l, entries |-> es] : l \in BOOLEAN,
     es \in SUBSET {Entry("polaris", "bearer", {}), Entry("glue", "oauth2", {}), Entry("iceberg_rest", "aws_secrets", {"client_id"}),
                    Entry("polaris", "aws_secrets", {"client_id", "client_secret", "note"})}}

Setups ==
  {[yaml |-> y, location |-> l, catalogs |-> c, engine |-> e, adapter |-> a, compiles |-> k] :
     y, k \in BOOLEAN, l \in {"none", "readable", "unreadable"}, c \in CatalogFiles,
     e \in {NoName, "ansi", "datafusion", "other"}, a \in {NoName, "datafusion"}}

Raws ==
  {[from |-> f, select |-> s, filters |-> fs, raw_filters |-> rf, grain |-> g, limit |-> l, order_by |-> o, engine |-> e] :
     f \in {NoName, "orders", "sales", "missing"},
     s \in {<<>>, <<"*">>, <<"amount", "city">>, <<"rate", "id">>, <<"clicks", "day", "ctr">>, <<"city", "clicks">>, <<"amount">>},
     fs \in {<<>>, <<"recent">>}, rf \in {FALSE}, g \in {"week"}, l \in {-1, 1},
     o \in {<<>>, <<[field |-> "day", direction |-> "down"]>>}, e \in {NoName, "ansi", "datafusion", "other"}}
  \cup {[from |-> "orders", select |-> <<"amount">>, filters |-> <<>>, raw_filters |-> TRUE, grain |-> NoGrain, limit |-> -1,
         order_by |-> <<>>, engine |-> NoName]}

Filter(f, o, vs) == [field |-> f, op |-> o, values |-> vs]

Filters ==
  {Filter(f, o, vs) : f \in {"day", "city"}, o \in {"=", "<>", "<", "<=", ">", ">=", "in", "not in", "between"},
     vs \in {<<>>, <<1, 2>>, <<2, Null>>}}
  \cup {Filter("city", o, <<>>) : o \in {"is null", "is not null"}}

Sorts == {<<>>, <<[field |-> "city", direction |-> "desc"], [field |-> "day", direction |-> "asc"]>>}

OrdersRequests ==
  {[entity |-> "orders", dimensions |-> ds, measures |-> ms, filters |-> fs, grain |-> NoGrain, limit |-> l, order_by |-> o] :
     ds \in {<<"day">>, <<"city", "day">>, <<"id">>}, ms \in {<<"amount">>, <<"amount", "rate">>},
     fs \in {<<>>} \cup {<<f>> : f \in Filters} \cup {<<Filter("day", "<", <<4>>), f>> : f \in {f \in Filters : f.field = "city" /\ f.values = <<1, 2>>}},
     l \in {-1, 2, MaxI64 + 1}, o \in Sorts}

SalesRequests ==
  {[NoReq EXCEPT !.entity = "sales", !.dimensions = ds, !.measures = ms, !.grain = g, !.filters = fs] :
     ds \in {<<>>, <<"day", "account">>}, ms \in {<<>>, <<"clicks">>, <<"views", "ctr">>, <<"ctr">>, <<"safe">>},
     g \in {NoGrain, "day", "month"}, fs \in {<<>>, <<Filter("account", "=", <<"x">>)>>}}

Manifests ==
  {[orders |-> Orders(c), sales |-> Sales(TRUE, "day", <<Binding("week", {"day", "clicks", "views"})>>)] :
     c \in Constraints}

GrainManifests ==
  {[sales |-> Sales(TRUE, "day", bs)] : bs \in GrainsetShapes}
    \cup {[sales |-> Sales(TRUE, NoGrain, bs)] : bs \in {bs \in GrainsetShapes : Len(bs) = 2}}
    \cup {[sales |-> Sales(FALSE, NoGrain, bs)] : bs \in {bs \in GrainsetShapes : Len(bs) < 2}}

-----------------------------------------------------------------------------
MCInit ==
  \/ part = "layers" /\ Init /\ NoEngine /\ NoDrift
  \/ part = "engine" /\ manifest \in Manifests /\ rows = MCRows /\ InitQuery /\ NoLayers /\ NoDrift
  \/ part = "grains" /\ manifest \in GrainManifests /\ rows = <<>> /\ InitQuery /\ NoLayers /\ NoDrift
  \/ part = "drift" /\ DriftInit /\ NoEngine /\ NoLayers

Plain ==
  [yaml |-> TRUE, location |-> "none", catalogs |-> NoFile, engine |-> NoName, adapter |-> NoName, compiles |-> TRUE]

Engine ==
  \/ part = "grains" /\ BuildFacade(Plain)
  \/ part = "grains" /\ \E r \in SalesRequests : Submit(r, "explain")
  \/ part = "engine" /\ NewEngine
  \/ part = "engine" /\ \E b \in Setups : BuildFacade(b)
  \/ part = "engine" /\ \E b \in Setups : BuildEngine(b)
  \/ part = "engine" /\ \E raw \in Raws : Validate(raw)
  \/ part = "engine" /\ \E raw \in Raws : Receive(raw, "plan")
  \/ part = "engine" /\ \E raw \in {raw \in Raws : raw.engine = NoName} : Receive(raw, "explain")
  \/ part = "engine" /\ \E r \in OrdersRequests : Submit(r, "plan")
  \/ QueryStep

MCNext ==
  \/ part = "layers" /\ Next /\ UNCHANGED <<part, qvars, gvars, dvars>>
  \/ part \in {"engine", "grains"} /\ Engine /\ UNCHANGED <<part, vars, dvars>>
  \/ part = "drift" /\ DriftNext /\ UNCHANGED <<part, vars, qvars, gvars>>

MCSpec == MCInit /\ [][MCNext]_mcvars
=============================================================================
