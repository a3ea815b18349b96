---------------------------- MODULE MCExpr --------------------------------
(***************************************************************************)
(* The trees of the system.  Expressions as authors write them: the inline *)
(* parser on the texts of all small expression trees, written with the     *)
(* parentheses that the declared precedence needs; and the YAML parser on  *)
(* small values, with the rewrites of the trees and the dumps of the       *)
(* mappings.  Plan trees, validated, the SQL emitter's walk over them, and *)
(* the SQL of their expressions.                                           *)
(***************************************************************************)
EXTENDS BlockParser, MCPlanTree, MCSqlRender

MCNames == {"a", "b", "count"}
MCKeywords == {"count"}

(* The order of the parsers: OR, AND, comparison, IS NULL, NOT, arithmetic *)
(* (sums before products), atom.                                           *)
Level(e) ==
  CASE e[1] = "OR" -> 1
    [] e[1] = "AND" -> 2
    [] e[1] \in Comparisons -> 3
    [] e[1] = "isnull" -> 4
    [] e[1] = "not" -> 5
    [] e[1] \in {"+", "-"} -> 6
    [] e[1] \in {"*", "/"} -> 7
    [] OTHER -> 8

(* The text of an expression.                                              *)
RECURSIVE Render(_)
At(e, level) ==
  IF Level(e) < level THEN <<Open>> \o Render(e) \o <<Close>> ELSE Render(e)

Render(e) ==
  CASE e[1] \in {"ref", "column"} -> e[2]
    [] e[1] = "literal" -> IF e[2][1] \in Literals THEN e[2] ELSE <<Quote>> \o e[2] \o <<Quote>>
    [] e[1] = "agg" -> <<"SUM", Open>> \o Render(e[2]) \o <<Close>>
    [] e[1] = "isnull" -> At(e[2], 4) \o <<"IS NULL">>
    [] e[1] = "not" -> <<"NOT">> \o At(e[2], 5)
    [] OTHER -> At(e[2], Level(e)) \o <<e[1]>> \o At(e[3], Level(e) + 1)

(* The same text with its minus signs beside their left or right operand.  *)
Tightened(s, minus) == [i \in DOMAIN s |-> IF s[i] = "-" THEN minus ELSE s[i]]

Pairs(ops, es, fs) == {<<o, l, r>> : o \in ops, l \in es, r \in fs}

Num0 == {EntityRef(<<"a">>), EntityRef(<<"b">>), EntityRef(<<"count">>), Literal(<<"1">>), <<"agg", Column(<<"a">>)>>}
Num1 == Num0 \union Pairs({"+", "*"}, Num0, Num0)
Num2 == Num1 \union Pairs({"-", "/"}, Num1, Num1)

(* A string whose text holds operators, a parenthesis and a name.          *)
Strings == {Literal(<<"b", "OR", "=">>), Literal(<<Close>>)}

Bool0 == {EntityRef(<<"b">>)} \union Pairs({"="}, {EntityRef(<<"a">>)}, Strings)
           \union {<<"isnull", e>> : e \in {EntityRef(<<"a">>)} \union Strings}
           \union {<<"<", <<"agg", Column(<<"a">>)>>, Literal(<<"1">>)>>}
Bool1 == Bool0 \union Pairs({"AND", "OR"}, Bool0, Bool0) \union {<<"not", e>> : e \in Bool0}
Bool2 == Bool1 \union Pairs({"AND", "OR"}, Bool1, Bool1)
           \union {<<"not", e>> : e \in Bool1}
           \union Pairs({"="}, Num1, Num1)

Trees == Num2 \union Bool2

Unparsable == {<<>>, <<"SELECT">>, <<Quote, "FROM", Quote>>}

(***************************************************************************)
(* YAML values.                                                            *)
(***************************************************************************)
Str(shape, body) == <<"str", <<shape, body>>>>
Num(n) == <<"num", n>>
YMap(f) == <<"map", f>>
Tag(t, v) == YMap([k \in {t} |-> v])
YSeq(s) == <<"seq", s>>

A == Str("bare", "a")
B == Str("bare", "b")
Sum(v) == Tag("sum", v)
InTag(v, list) == Tag("in", YMap([value |-> v, list |-> YSeq(list)]))

Scalars ==
  {A, B, Num(0), Num(MaxI64 + 1), <<"float", 1>>, <<"bool", TRUE>>, <<"null">>, Str("null", "null"), Str("boolean", FALSE),
   Str("single quoted", "x"), Str("double quoted", "a"), Str("double quoted", ""), Str("integer", 1), Str("inf", 0),
   Str("dotted", "a.previous"), Str("empty", ""), YSeq(<<A>>), Tag("col", A), Tag("col", Num(1))}

Literal1 ==
  {Tag("lit", v) : v \in Scalars}
   \union {Tag("lit", Tag(t, v)) : t \in {"boolean", "integer", "float", "string", "null", "time", "decimal", "binary", "other"},
              v \in {<<"bool", TRUE>>, Num(1), Num(MaxI64 + 1), A, YSeq(<<Num(MaxByte)>>), YSeq(<<Num(MaxByte + 1)>>),
                     YMap([value |-> A]), YMap([value |-> A, precision |-> Num(MaxByte + 1)]),
                     YMap([value |-> A, precision |-> Num(3), scale |-> Num(-MaxI8 - 1)])}}

Leaf1 ==
  {Tag(t, v) : t \in SemanticTags,
     v \in {A, Num(1), YMap([name |-> A]), YMap([name |-> A, accessor |-> Str("bare", "first")]),
            YMap([name |-> A, accessor |-> Str("bare", "delta")]),
            YMap([name |-> A, accessor |-> Tag("lag", Num(2))]), YMap([name |-> A, accessor |-> Tag("lag", Num(MaxU32 + 1))]),
            YMap([name |-> A, accessor |-> Tag("last", Num(3))]), YMap([name |-> A, other |-> A])}}

Casts ==
  {Tag("cast", YMap([input |-> A, target |-> v])) :
     v \in {Str("bare", "date"), Str("bare", "other"), Tag("decimal", YMap([precision |-> Num(3), scale |-> Num(2)])),
            Tag("decimal", YMap([precision |-> Num(3)])), Tag("timestamp", YMap([precision |-> Num(MaxByte)]))}}
   \union {Tag("cast", YMap([input |-> Sum(A), target |-> Str("bare", "date"), on_failure |-> Str("bare", f)])) :
             f \in {"error", "null", "other"}}

(* Bodies of the structural tags over the values of a set.                 *)
Structural(vs) ==
  UNION {{Tag(t, YSeq(<<v, w>>)) : t \in {"eq", "and", "or", "concat", "coalesce", "other"}, v \in vs, w \in vs},
         {Tag("add", YMap([left |-> v, right |-> w])) : v \in vs, w \in vs},
         {Tag("null_if", YMap([left |-> v, right |-> w])) : v \in vs, w \in vs},
         {Tag(t, v) : t \in {"negate", "upper", "is_null", "sum", "count_distinct", "not", "window"}, v \in vs},
         {Tag("not", Tag("not", v)) : v \in vs},
         {InTag(v, <<w, A>>) : v \in vs, w \in vs},
         {Tag("between", YMap([value |-> A, low |-> v, high |-> w])) : v \in vs, w \in vs},
         {Tag(t, YMap([value |-> v, pattern |-> A])) : t \in {"like", "ilike"}, v \in vs},
         {Tag("if", YMap([cond |-> v, then |-> w])) : v \in vs, w \in vs},
         {Tag("if", YMap([cond |-> B, then |-> v, else |-> w])) : v \in vs, w \in vs},
         {Tag("case", YMap([whens |-> YSeq(<<YMap([when |-> v, then |-> B]), YMap([when |-> A, then |-> w])>>), else |-> v])) :
            v \in vs, w \in vs},
         {Tag("max", YMap([args |-> YSeq(<<v>>), filter |-> w])) : v \in vs, w \in vs},
         {Tag("count", YMap([args |-> YSeq(<<v, A>>), distinct |-> <<"bool", TRUE>>, filter |-> <<"null">>])) : v \in vs}}

Odd ==
  {YSeq(<<>>), YMap([k \in {} |-> A]), YMap([eq |-> A, lt |-> B]), Tag("coalesce", YSeq(<<>>)), InTag(A, <<>>),
   Tag("case", YMap([whens |-> YSeq(<<>>)])), Tag("eq", YSeq(<<A>>)), Tag("max", YMap([distinct |-> <<"bool", TRUE>>])),
   Tag("like", YMap([value |-> A])), Tag("between", A)}

Node1 == Structural({A, Num(1), Sum(B), Tag("not", B), Tag("field", A)})
Node2 == {v \in Structural({Sum(A), Tag("like", YMap([value |-> A, pattern |-> B])), InTag(A, <<B, <<"null">>>>),
                Tag("between", YMap([value |-> B, low |-> A, high |-> Num(1)])),
                Tag("not", InTag(B, <<Num(0)>>))}) : TRUE}

Bodies == Scalars \union Literal1 \union Leaf1 \union Casts \union Node1 \union Node2 \union Odd

MappingBodies ==
  LET values == Scalars \union {Tag("lit", v) : v \in Scalars}
                  \union {Tag("lit", Tag(t, v)) : t \in TextLiterals \union {"bool", "int", "float", "null"},
                             v \in {A, Num(1), Num(MaxI64 + 1), <<"bool", TRUE>>, Str("null", "null")}}
                  \union {Tag("expr", v) : v \in {A, Num(1), Sum(A), Tag("field", A), YMap([a |-> A, b |-> B])}}
                  \union {YMap([lit |-> A, expr |-> A])}
  IN  {Str("bare", "auto"), A, YMap([k \in {} |-> A])}
        \union {YMap([a |-> v]) : v \in values} \union {YMap([a |-> v, b |-> Tag("lit", A)]) : v \in values}

Writes ==
  {<<>>} \union {<<<<"a", <<"column", x>>>>, <<n, <<"literal", <<"int", 1>>>>>>>> : x \in {<<"bare", "a">>}, n \in {"a", "b"}}

(* Trees that a pass puts in the place of a field.                         *)
Substs ==
  {[l \in {<<"field", "a">>} |-> t] :
     t \in {Leaf(<<"field", "b">>), <<"aggregate", <<"sum", FALSE>>, <<<<Leaf(<<"column", "a">>)>>, <<>>>>>>,
            BinaryOp("add", Leaf(<<"field", "b">>), Leaf(<<"column", "b">>)),
            <<"window", "lag", <<<<Leaf(<<"column", "a">>)>>, <<>>, <<Leaf(<<"column", "b">>)>>>>>>}}

(***************************************************************************)
(* The system: a text or a YAML value that is parsed, a plan tree that is  *)
(* built and validated, a plan that is emitted as SQL, and an expression   *)
(* that both emitters write.                                               *)
(***************************************************************************)
VARIABLES
  part,         \* what the behaviour is about
  tree,         \* the expression that the text was written for
  before        \* the tree or the mapping before the last rewrite or dump

exprVars == <<inlineVars, tree, blockVars, before>>
sqlVars == <<vars, renderVars>>
mcvars == <<part, exprVars, planVars, sqlVars>>

NoInline == text = <<>> /\ result = Pending /\ tree = Pending
NoBlock == site = "none" /\ yaml = <<"null">> /\ block = Pending

(* Emit takes any plan: where an emitter was before it is of no matter.    *)
MCInit ==
  /\ plan = [t \in Threads |-> CHOOSE p \in Plans : TRUE]
  /\ before = Pending /\ PlanInit /\ Init
  /\ \/ part = "text" /\ tree \in Trees /\ InitWith(Render(tree)) /\ NoBlock
     \/ \E minus \in Minuses : part = "text" /\ tree \in Pairs({"-"}, Num1, Num1)
                             /\ InitWith(Tightened(Render(tree), minus)) /\ NoBlock
     \/ \E s \in Unparsable : part = "text" /\ tree = Pending /\ InitWith(s) /\ NoBlock
     \/ \E v \in Bodies, place \in {"semantic", "physical"} : part = "yaml" /\ BlockInitWith(place, v) /\ NoInline
     \/ \E v \in MappingBodies : part = "yaml" /\ BlockInitWith("mapping", v) /\ NoInline
     \/ part \in {"plan", "sql", "render"} /\ NoInline /\ NoBlock
  /\ \/ part = "render" /\ \E q \in Queries : RenderInitWith(q)
     \/ part # "render" /\ RenderInitWith(LitTree("int", 1)) /\ dialect = "ansi"

(* Once each: the rewrite of a rewritten tree is not looked at again.      *)
YamlNext ==
  \/ ParseYaml /\ UNCHANGED before
  \/ /\ before = Pending
     /\ before' = block
     /\ \/ \E subst \in Substs : RewriteWith(subst)
        \/ DumpMapping
  \/ \E ws \in Writes : before = Pending /\ Build(ws) /\ UNCHANGED before

MCNext ==
  /\ UNCHANGED part
  /\ \/ part = "text" /\ Parse /\ UNCHANGED <<tree, blockVars, before, planVars, sqlVars>>
     \/ part = "yaml" /\ YamlNext /\ UNCHANGED <<inlineVars, tree, planVars, sqlVars>>
     \/ part = "plan" /\ PlanNext /\ UNCHANGED <<exprVars, sqlVars>>
     \/ part = "sql" /\ Next /\ UNCHANGED <<exprVars, planVars, renderVars>>
     \/ part = "render" /\ (RenderQuery \/ BuildQuery) /\ UNCHANGED <<exprVars, planVars, vars>>

MCSpec == MCInit /\ [][MCNext]_mcvars

Kids(e) == IF e[1] \in {"ref", "column", "literal"} THEN {} ELSE {e[i] : i \in 2 .. Len(e)}
RECURSIVE SubExprs(_)
SubExprs(e) == {e} \union UNION {SubExprs(k) : k \in Kids(e)}

Arith == {"+", "-", "*", "/"}

(* The texts that the parser is built for: the text of an arithmetic       *)
(* operand is one word, an aggregate or in parentheses; no longer text     *)
(* starts with an aggregate's name and ends with a parenthesis; and no     *)
(* quoted parenthesis stands within parentheses.                           *)
OneOperator(e) ==
  \A n \in SubExprs(e) : n[1] \in Arith =>
     \A i \in {2, 3} : n[i][1] \in Arith => Level(n[i]) < Level(n) + (i - 2)

NotAggregateLike(e) ==
  \A n \in SubExprs(e) : n[1] # "agg" => ~IsAggregation(Render(n))

QuotedParenthesisFree(e) ==
  \A n \in SubExprs(e) : n = Literal(<<Close>>) => ~Contains(Render(e), Open)

Supported(e) == OneOperator(e) /\ NotAggregateLike(e) /\ QuotedParenthesisFree(e)

Parsed == result # Pending /\ tree # Pending

(* RoundTrip: on these texts the parser finds the tree that the text was   *)
(* written for: every operator splits at the last place where it stands    *)
(* outside parentheses and quotes, the ones that bind least first.         *)
RoundTrip == Parsed /\ Supported(tree) => result = tree

(* DependenciesSeen: the metric graph is built from the names in the text, *)
(* the plan from the references in the parsed expression.  Every name that *)
(* a reference holds, alone or in words that were not split, is one of the *)
(* names the graph was built from.  Two kinds of names are not: a name     *)
(* that is a keyword, and one that a minus sign touches (a -b); the parser *)
(* makes references of them and the extraction drops them.                 *)
(* OrderIsTopological of CompilePipeline is about what becomes of that.    *)
DependenciesSeen ==
  result # Pending =>
     \A ws \in CollectIdentifiers(result) :
        (Range(ws) \intersect Names) \ (Keywords \union {text[i] : i \in {j \in DOMAIN text : Glued(text, j)}})
          \subseteq ExtractIdentifiers(text)

(***************************************************************************)
(* The YAML form.                                                          *)
(***************************************************************************)
ParsedBlock == block # Pending /\ site \in {"semantic", "physical"} /\ Kind(block) \notin {"refused", "inline"}

(* No tree that the parser accepts, and none that a pass makes of it, has  *)
(* an aggregate right below an aggregate, in its filter too, or an empty   *)
(* CASE, IN or COALESCE, at any depth.                                     *)
EverywhereWellFormed ==
  ParsedBlock => \A n \in Range(Walk(block)) :
    /\ Kind(n) = "aggregate" => \A k \in Range(Children(n)) : Kind(k) # "aggregate"
    /\ Kind(n) = "window" => \A k \in Range(n[3][1]) : Kind(k) \notin {"aggregate", "window"}
    /\ Kind(n) \in {"coalesce", "in", "case"} => Len(Children(n)) > (IF Kind(n) = "in" THEN 1 ELSE 0)

(* The value of a predicate: 0 false, 1 true, 9 unknown, over the values   *)
(* of the two names.                                                       *)
Unknown == 9
Not3(x) == IF x = Unknown THEN Unknown ELSE 1 - x
And3(xs) == IF 0 \in xs THEN 0 ELSE IF Unknown \in xs THEN Unknown ELSE 1
Or3(xs) == Not3(And3({Not3(x) : x \in xs}))
Compare(holds, x, y) == IF Unknown \in {x, y} THEN Unknown ELSE IF holds THEN 1 ELSE 0

RECURSIVE Eval(_, _)
Eval(e, val) ==
  LET k == [i \in DOMAIN Children(e) |-> Eval(Children(e)[i], val)]
      list == {Compare(k[1] = k[i], k[1], k[i]) : i \in 2 .. Len(k)}
      within == And3({Compare(k[2] <= k[1], k[1], k[2]), Compare(k[1] <= k[3], k[1], k[3])})
  IN  CASE Kind(e) = "leaf" -> IF e[2][1] # "literal" THEN val[e[2][2]]
                               ELSE IF e[2][2][1] = "integer" THEN e[2][2][2] ELSE Unknown
        [] Kind(e) = "unary" -> Not3(k[1])
        [] Kind(e) = "in" -> IF e[2] = "in" THEN Or3(list) ELSE Not3(Or3(list))
        [] Kind(e) = "between" -> IF e[2] = "between" THEN within ELSE Not3(within)
        [] Kind(e) = "like" -> IF e[2] \in {"like", "ilike"} THEN Compare(k[1] = k[2], k[1], k[2])
                               ELSE Not3(Compare(k[1] = k[2], k[1], k[2]))
        [] Kind(e) = "binary" -> IF e[2] = "and" THEN And3(Range(k)) ELSE IF e[2] = "or" THEN Or3(Range(k))
                                 ELSE Compare(k[1] = k[2], k[1], k[2])
        [] OTHER -> Unknown

(* NegationIsLogical: not X is accepted when X is, and is the negation of  *)
(* X for all values of the fields, unknown ones too, however many times it *)
(* was folded into IN, BETWEEN and LIKE.                                   *)
NegationIsLogical ==
  (block # Pending /\ site \in {"semantic", "physical"} /\ before = Pending /\ IsMap(yaml) /\ DOMAIN yaml[2] = {"not"}) =>
    LET x == ParseValue(site, yaml[2]["not"])
    IN  /\ (Kind(block) = "refused") = (Kind(x) = "refused")
        /\ Kind(block) # "refused" =>
             \A val \in [{"a", "b"} -> {0, 1, Unknown}] : Eval(block, val) = Not3(Eval(x, val))

(* The rewrite of a tree puts the new tree in the place of every leaf it   *)
(* is for and leaves the rest where it was, or is refused because a node   *)
(* would be ill formed.                                                    *)
RECURSIVE InPlace(_, _)
InPlace(e, subst) ==
  IF Kind(e) = "leaf" THEN Rewrite(e, subst)
  ELSE <<e[1], e[2], [i \in DOMAIN e[3] |-> [j \in DOMAIN e[3][i] |-> InPlace(e[3][i][j], subst)]]>>

RewriteIsSubstitution ==
  (site \in {"semantic", "physical"} /\ before # Pending) =>
    \E subst \in Substs :
      LET t == InPlace(before, subst)
      IN  block = IF \A n \in Range(Walk(t)) : WellFormed(n) THEN t ELSE Refused

(* TreesKept: the parser and the rewrites make only well formed trees, and *)
(* a rewrite (with_new_children on the way up) loses, doubles or moves no  *)
(* part of the tree.                                                       *)
TreesKept == EverywhereWellFormed /\ RewriteIsSubstitution

(* MappingSurvivesDump: a mapping that was dumped and loaded again is the  *)
(* same, with every name, literal and inline expression; block expressions *)
(* are dumped for people to read.                                          *)
HasBlock(x) == x[1] = "explicit" /\ \E n \in DOMAIN x[2] : x[2][n][1] = "expr" /\ Kind(x[2][n][2]) # "inline"

MappingSurvivesDump ==
  (site = "mapping" /\ before # Pending /\ block # Pending) => (block = before \/ HasBlock(before))
===============================================================================
