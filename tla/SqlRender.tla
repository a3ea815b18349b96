------------------------------ MODULE SqlRender ------------------------------
(***************************************************************************)
(* SQL from expressions, row limits and plans, twice: as text by the       *)
(* emitter of semstrait-adapter/src/sql (expr_renderer.rs, dialect.rs),    *)
(* and as the tree that the polyglot emitter hands to its library          *)
(* (polyglot/expr_builder.rs, polyglot/plan_builder.rs).                   *)
(*                                                                         *)
(* An expression is a tuple: its variant, then its fields.  A text is a    *)
(* sequence of tokens; spelling, letter case and quoting are left out, the *)
(* parentheses and the places without a blank are not.  A name is the      *)
(* sequence of its parts between dots.                                     *)
(***************************************************************************)
EXTENDS SqlEmitter, Integers, SequencesExt

CONSTANT Dialects     \* a subset of {"ansi", "datafusion", "duckdb", "spark"}

VARIABLES
  query,        \* the expression or the row limit to be written
  dialect,
  sqlText,      \* the text, NotYet or Refusal
  sqlTree       \* the tree of the polyglot emitter, NotYet or Refusal

renderVars == <<query, dialect, sqlText, sqlTree>>

NotYet == <<<<"not yet">>>>
Refusal == <<<<"refused">>>>

Sym(s) == <<"sym", s>>
Keyword(w) == <<"word", w>>
FnName(name) == <<"fn", name>>
TextLit(s) == <<"lit", <<"string", s>>>>
ConcatText(l, p, r) == <<FnName("CONCAT"), Sym("("), TextLit(l), Sym(",")>> \o p \o <<Sym(","), TextLit(r), Sym(")")>>

(* Texts with commas between them.                                         *)
Commas(texts) ==
  FoldLeft(LAMBDA acc, t : IF acc = <<>> THEN t ELSE acc \o <<Sym(",")>> \o t, <<>>, texts)

Invoke(name, texts) == <<FnName(name), Sym("(")>> \o Commas(texts) \o <<Sym(")")>>
InvokeDistinct(name, texts) == <<FnName(name), Sym("("), Keyword("DISTINCT")>> \o Commas(texts) \o <<Sym(")")>>

-----------------------------------------------------------------------------
(* What the dialects do differently.                                       *)

(* SqlDialect::ilike and its overrides                                     *)
ILikeText(d, e, p) ==
  IF d \in {"datafusion", "duckdb"} THEN e \o <<Keyword("ILIKE")>> \o p
  ELSE Invoke("LOWER", <<e>>) \o <<Keyword("LIKE")>> \o Invoke("LOWER", <<p>>)

RegexpFn(d) == IF d = "duckdb" THEN "REGEXP_MATCHES" ELSE "REGEXP_LIKE"

(* SqlDialect::regexp_match: the functions look for the pattern anywhere,  *)
(* so a full match is anchored.                                            *)
RegexpCallText(d, e, p, full) ==
  Invoke(RegexpFn(d), <<e, IF full THEN ConcatText("^", p, "$") ELSE p>>)

(* SparkDialect::regexp_match                                              *)
RlikeText(e, p, full) ==
  e \o <<Keyword("RLIKE")>> \o (IF full THEN p ELSE ConcatText(".*", p, ".*"))

RegexpMatchText(d, e, p, full) ==
  IF d = "spark" THEN RlikeText(e, p, full) ELSE RegexpCallText(d, e, p, full)

(* limit_clause: the clauses in their order.  A count is a sequence of at  *)
(* most one number.                                                        *)
OffsetFetch(count, offset) ==
  CASE count # <<>> /\ offset = 0 -> <<<<"FETCH FIRST", count[1]>>>>
    [] count # <<>> /\ offset # 0 -> <<<<"OFFSET", offset>>, <<"FETCH FIRST", count[1]>>>>
    [] count = <<>> /\ offset > 0 -> <<<<"OFFSET", offset>>>>
    [] OTHER -> <<>>

LimitOffset(count, offset) ==
  CASE count # <<>> /\ offset = 0 -> <<<<"LIMIT", count[1]>>>>
    [] count # <<>> /\ offset # 0 -> <<<<"LIMIT", count[1]>>, <<"OFFSET", offset>>>>
    [] count = <<>> /\ offset > 0 -> <<<<"OFFSET", offset>>>>
    [] OTHER -> <<>>

LimitClause(d, count, offset) ==
  IF d = "ansi" THEN OffsetFetch(count, offset) ELSE LimitOffset(count, offset)

-----------------------------------------------------------------------------
(* ExprSqlRenderer                                                         *)

(* render_literal: a negative number starts with its sign.                 *)
LiteralText(v) ==
  IF v[1] = "int" /\ v[2] < 0 THEN <<Sym("-"), <<"lit", <<"int", -v[2]>>>>>> ELSE <<<<"lit", v>>>>

(* "(-" and the operand with no blank between: two signs in a row start a  *)
(* comment.                                                                *)
NegateText(t) ==
  IF t[1] = Sym("-") THEN <<Sym("("), Sym("--")>> \o Tail(t) \o <<Sym(")")>>
  ELSE <<Sym("("), Sym("-")>> \o t \o <<Sym(")")>>

(* Safe division: the divisor is written twice.                            *)
SafeDivideText(l, r) ==
  <<Sym("("), Keyword("CASE"), Keyword("WHEN")>> \o r \o <<Sym("="), <<"lit", <<"int", 0>>>>,
    Keyword("THEN"), <<"lit", <<"null">>>>, Keyword("ELSE")>> \o l \o <<Sym("/")>> \o r \o <<Keyword("END"), Sym(")")>>

(* A slip: no parentheses around the operands.                             *)
BareBinaryText(op, l, r) == l \o <<Sym(op)>> \o r

BinaryText(op, l, r) ==
  IF op = "safe_divide" THEN SafeDivideText(l, r)
  ELSE <<Sym("(")>> \o l \o <<Sym(op)>> \o r \o <<Sym(")")>>

(* Aggregation::sql_name, as render uses it.                               *)
SqlName(function) == IF function = "COUNT_DISTINCT" THEN "COUNT" ELSE function

(* render of an aggregate and render_aggregate                             *)
AggregateText(function, t, distinct) ==
  IF distinct \/ function = "COUNT_DISTINCT" THEN InvokeDistinct(SqlName(function), <<t>>)
  ELSE Invoke(SqlName(function), <<t>>)

Negated(negated, word) == IF negated THEN <<Keyword("NOT"), Keyword(word)>> ELSE <<Keyword(word)>>

RECURSIVE RenderExpr(_, _)
Texts(d, es) == <<>> \o [i \in DOMAIN es |-> RenderExpr(d, es[i])]

(* CASE: no parentheses, it ends with END.                                 *)
CaseText(d, whens, else) ==
  <<Keyword("CASE")>>
    \o FlattenSeq([i \in DOMAIN whens |->
         <<Keyword("WHEN")>> \o RenderExpr(d, whens[i][1]) \o <<Keyword("THEN")>> \o RenderExpr(d, whens[i][2])])
    \o (IF else = <<>> THEN <<>> ELSE <<Keyword("ELSE")>> \o RenderExpr(d, else[1])) \o <<Keyword("END")>>

(* The predicates: only NOT has parentheses.                               *)
PredicateText(d, e) ==
  CASE e[1] = "not" -> <<Keyword("NOT"), Sym("(")>> \o RenderExpr(d, e[2]) \o <<Sym(")")>>
    [] e[1] = "isnull" -> RenderExpr(d, e[2]) \o <<Keyword("IS NULL")>>
    [] e[1] = "isnotnull" -> RenderExpr(d, e[2]) \o <<Keyword("IS NOT NULL")>>
    [] e[1] = "in" -> RenderExpr(d, e[2]) \o Negated(e[4], "IN") \o <<Sym("(")>> \o Commas(Texts(d, e[3])) \o <<Sym(")")>>
    [] e[1] = "between" -> RenderExpr(d, e[2]) \o Negated(e[5], "BETWEEN") \o RenderExpr(d, e[3]) \o <<Keyword("AND")>> \o RenderExpr(d, e[4])
    [] e[1] = "like" -> RenderExpr(d, e[2]) \o <<Keyword("LIKE")>> \o RenderExpr(d, e[3])
    [] e[1] = "ilike" -> ILikeText(d, RenderExpr(d, e[2]), RenderExpr(d, e[3]))
    [] e[1] = "regexp" -> RegexpMatchText(d, RenderExpr(d, e[2]), RenderExpr(d, e[3]), e[4])

Predicates == {"not", "isnull", "isnotnull", "in", "between", "like", "ilike", "regexp"}

RenderExpr(d, e) ==
  CASE e[1] = "column" -> <<<<"id", e[2], e[3]>>>>
    [] e[1] = "literal" -> LiteralText(e[2])
    [] e[1] = "binary" -> BinaryText(e[2], RenderExpr(d, e[3]), RenderExpr(d, e[4]))
    [] e[1] = "call" -> IF e[4] THEN InvokeDistinct(e[2], Texts(d, e[3])) ELSE Invoke(e[2], Texts(d, e[3]))
    [] e[1] = "aggregate" -> AggregateText(e[2], RenderExpr(d, e[3]), e[4])
    [] e[1] = "negate" -> NegateText(RenderExpr(d, e[2]))
    [] e[1] = "case" -> CaseText(d, e[2], e[3])
    [] e[1] = "extract" -> Invoke("REGEXP_EXTRACT", Texts(d, <<e[2], e[3], <<"literal", <<"int", e[4]>>>>>>))
    [] e[1] = "coalesce" -> Invoke("COALESCE", Texts(d, e[2]))
    [] e[1] = "nullif" -> Invoke("NULLIF", Texts(d, <<e[2], e[3]>>))
    [] e[1] = "date_trunc" -> Invoke("DATE_TRUNC", <<<<TextLit(e[2])>>, RenderExpr(d, e[3])>>)
    [] e[1] = "cast" -> <<FnName("CAST"), Sym("(")>> \o RenderExpr(d, e[2]) \o <<Keyword("AS"), <<"type", e[3]>>, Sym(")")>>
    [] e[1] \in Predicates -> PredicateText(d, e)

-----------------------------------------------------------------------------
(* ExprBuilder                                                             *)
LitTree(kind, v) == <<"literal", <<kind, v>>>>
CallTree(name, args) == <<"call", name, args, FALSE>>

(* quoted_col: the name is split at its last dot.                          *)
QuotedCol(q, n) == LET parts == q \o n IN <<"column", Front(parts), <<Last(parts)>>>>

SafeDivideTree(l, r) ==
  <<"case", <<<<<<"binary", "=", r, LitTree("int", 0)>>, <<"literal", <<"null">>>>>>>>, <<<<"binary", "/", l, r>>>>>>

(* build of an aggregate and build_aggregate                               *)
AggregateTree(function, e, distinct) ==
  <<"call", SqlName(function), <<e>>, distinct \/ function = "COUNT_DISTINCT">>

RegexpTree(e, p, full) ==
  CallTree("REGEXP_LIKE", <<e, IF full THEN CallTree("CONCAT", <<LitTree("string", "^"), p, LitTree("string", "$")>>) ELSE p>>)

BetweenTree(e, low, high, negated) ==
  LET tree == <<"between", e, low, high, FALSE>> IN IF negated THEN <<"not", tree>> ELSE tree

RECURSIVE BuildExpr(_)
BuildAll(es) == <<>> \o [i \in DOMAIN es |-> BuildExpr(es[i])]

(* The group number of a regular expression becomes a string.              *)
BuildExpr(e) ==
  CASE e[1] = "column" -> QuotedCol(e[2], e[3])
    [] e[1] = "literal" -> e
    [] e[1] = "binary" -> IF e[2] = "safe_divide" THEN SafeDivideTree(BuildExpr(e[3]), BuildExpr(e[4]))
                          ELSE <<"binary", e[2], BuildExpr(e[3]), BuildExpr(e[4])>>
    [] e[1] = "call" -> <<"call", e[2], BuildAll(e[3]), e[4]>>
    [] e[1] = "aggregate" -> AggregateTree(e[2], BuildExpr(e[3]), e[4])
    [] e[1] \in {"negate", "not", "isnull", "isnotnull"} -> <<e[1], BuildExpr(e[2])>>
    [] e[1] = "case" -> <<"case", [i \in DOMAIN e[2] |-> BuildAll(e[2][i])], BuildAll(e[3])>>
    [] e[1] = "in" -> <<"in", BuildExpr(e[2]), BuildAll(e[3]), e[4]>>
    [] e[1] = "between" -> BetweenTree(BuildExpr(e[2]), BuildExpr(e[3]), BuildExpr(e[4]), e[5])
    [] e[1] \in {"like", "ilike"} -> <<e[1], BuildExpr(e[2]), BuildExpr(e[3])>>
    [] e[1] = "regexp" -> RegexpTree(BuildExpr(e[2]), BuildExpr(e[3]), e[4])
    [] e[1] = "extract" -> CallTree("REGEXP_EXTRACT", <<BuildExpr(e[2]), BuildExpr(e[3]), LitTree("string", e[4])>>)
    [] e[1] = "coalesce" -> CallTree("COALESCE", BuildAll(e[2]))
    [] e[1] = "nullif" -> CallTree("NULLIF", BuildAll(<<e[2], e[3]>>))
    [] e[1] = "date_trunc" -> CallTree("DATE_TRUNC", <<LitTree("string", e[2]), BuildExpr(e[3])>>)
    [] e[1] = "cast" -> <<"cast", BuildExpr(e[2]), e[3]>>

(* build_fetch: negative numbers are refused, an offset of 0 is left out.  *)
FetchTree(count, offset) ==
  IF offset < 0 \/ (count # <<>> /\ count[1] < 0) THEN Refusal
  ELSE (IF offset > 0 THEN <<<<"OFFSET", offset>>>> ELSE <<>>)
         \o (IF count # <<>> THEN <<<<"FETCH FIRST", count[1]>>>> ELSE <<>>)

RefusedAliases == <<[prefix |-> "refused", n |-> 0]>>

(* build_union refuses fewer than two inputs before it builds them.        *)
UnionRefused(node) == node.kind = "Union" /\ Len(node.inputs) < 2

(* PlanBuilder::build: the aliases that have been given out once a node is *)
(* built, its inputs first.  Its expressions are taken to be supported.    *)
RECURSIVE BuildNode(_, _, _)
BuildNode(p, node, given) ==
  LET kind == p[node].kind
      inputs == FoldLeft(LAMBDA acc, m : IF acc = RefusedAliases THEN RefusedAliases ELSE BuildNode(p, m, acc),
                         given, p[node].inputs)
  IN  IF UnionRefused(p[node]) THEN RefusedAliases
      ELSE IF inputs = RefusedAliases THEN RefusedAliases
      ELSE inputs \o [i \in 1 .. Views(kind) |-> [prefix |-> kind, n |-> Len(inputs) + i - 1]]

-----------------------------------------------------------------------------
(* The expressions that an expression is made of.                          *)
Operands(e) ==
  CASE e[1] \in {"column", "literal", "unresolved"} -> <<>>
    [] e[1] \in {"negate", "not", "isnull", "isnotnull", "cast"} -> <<e[2]>>
    [] e[1] = "coalesce" -> e[2]
    [] e[1] = "call" -> e[3]
    [] e[1] \in {"aggregate", "date_trunc"} -> <<e[3]>>
    [] e[1] = "binary" -> <<e[3], e[4]>>
    [] e[1] = "between" -> <<e[2], e[3], e[4]>>
    [] e[1] = "in" -> <<e[2]>> \o e[3]
    [] e[1] = "case" -> FlattenSeq(e[2]) \o e[3]
    [] OTHER -> <<e[2], e[3]>>

RECURSIVE Parts(_)
Parts(e) == {e} \union UNION {Parts(k) : k \in Range(Operands(e))}

(* EntityRef and Guard should have been resolved during planning.          *)
Unsupported(e) == \E n \in Parts(e) : n[1] = "unresolved"

IsFetch == query[1] = "fetch"

RenderInitWith(q) ==
  /\ query = q
  /\ dialect \in Dialects
  /\ sqlText = NotYet
  /\ sqlTree = NotYet

(* AnsiSqlEmitter with the dialect                                         *)
RenderQuery ==
  /\ sqlText = NotYet
  /\ sqlText' = IF IsFetch THEN LimitClause(dialect, query[2], query[3])
                ELSE IF Unsupported(query) THEN Refusal ELSE RenderExpr(dialect, query)
  /\ UNCHANGED <<query, dialect, sqlTree>>

(* PolyglotEmitter, up to the library                                      *)
BuildQuery ==
  /\ sqlTree = NotYet
  /\ sqlTree' = IF IsFetch THEN FetchTree(query[2], query[3])
                ELSE IF Unsupported(query) THEN Refusal ELSE BuildExpr(query)
  /\ UNCHANGED <<query, dialect, sqlText>>
==============================================================================
