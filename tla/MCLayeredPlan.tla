---------------------------- MODULE MCLayeredPlan ----------------------------
(* LayeredPlan with a dimension that columns or literals hold (region), a  *)
(* metadata one (account), a computed one that is a CASE on account        *)
(* (market), three measures and a metric over two of them.                 *)
EXTENDS LayeredPlan

MCColumn ==
  [region |-> "c1", country |-> "c2", account |-> "c3", market |-> "c4", clicks |-> "c5",
   views |-> "c6", price |-> "c7", ctr |-> "c8"]

Arms == [v \in Values \cup {NoValue} |-> IF v = "x" THEN {"region"} ELSE {"country"}]

Measure(f, e, rs, fs) == [function |-> f, expr |-> e, refs |-> rs, filters |-> fs]
Bare(f, m) == Measure(f, m, {m}, {})

(* Plain measures; one with a filter; one computed from another column.    *)
Measures ==
  LET plain == [clicks |-> Bare("sum", "clicks"), views |-> Bare("count", "views"),
                price |-> Bare("max", "price")] IN
  {plain,
   [plain EXCEPT !.views = Measure("sum", "views", {"views"}, {"country"})],
   [plain EXCEPT !.price = Measure("max", "price_of_country", {"price", "country"}, {})]}

Physical ==
  {{"region", "country", "clicks", "views", "price"}, {"region", "clicks", "price"},
   {"country", "clicks", "views"}}
Literals ==
  {<<>>, [r \in {"region"} |-> "x"], [r \in {"region"} |-> "y"], [r \in {"views"} |-> "x"]}
Sources == {<<>>, <<"x">>, <<"y">>, <<"x", "y">>, <<"x", "x">>}

Bindings ==
  {[physical |-> p \ DOMAIN l, literals |-> l,
    sources |-> [i \in DOMAIN s |-> [account |-> s[i]]]] :
     p \in Physical, l \in Literals, s \in Sources}

Query(kind, ms, nesting, fs, bs, ds, rs) ==
  [kind |-> kind, computed |-> [market |-> [on |-> "account", arms |-> Arms]],
   metadata |-> {"account"}, measures |-> ms,
   metrics |-> [ctr |-> [parts |-> <<"clicks", "views">>, nesting |-> nesting]],
   filters |-> fs, bindings |-> bs, dimensions |-> ds, requested |-> rs]

Dimensions == {<<>>, <<"region", "account">>, <<"market", "region">>}

Simple ==
  {Query("simple", ms, n, fs, <<b>>, ds, rs) :
     ms \in Measures, n \in {0, 6}, fs \in {{}, {"country"}}, b \in Bindings, ds \in Dimensions,
     rs \in {<<>>, <<"clicks", "ctr", "price">>, <<"price", "views">>}}

(* Pairs of bindings that may share an account or a literal.               *)
Paired ==
  {b \in Bindings : /\ b.sources # <<>> /\ DOMAIN b.literals \subseteq {"region"}
                    /\ "country" \in b.physical
                    /\ Len(b.sources) = 2 => b.literals = <<>>}

Unionset ==
  {Query("unionset", ms, n, {}, bs, ds, rs) :
     ms \in {ms \in Measures : IsBare(ms.views.expr) /\ ms.views.filters = {}},
     n \in {0, 5, 6}, ds \in Dimensions,
     bs \in {<<>>} \cup {<<b, c>> : b, c \in Paired},
     rs \in {<<"clicks", "ctr", "price">>, <<"views">>}}

(* A literal mapped to the computed dimension.                             *)
Overridden ==
  {Query("unionset", ms, 0, {}, <<b, c>>, <<"market", "region">>, <<"views">>) :
     ms \in {ms \in Measures : IsBare(ms.views.expr)},
     b, c \in {[physical |-> {"region", "country", "views"}, literals |-> [m \in {"market"} |-> v],
                sources |-> <<[account |-> s]>>] : v, s \in Values}}

MCCases == Simple \cup Unionset \cup Overridden
=============================================================================
