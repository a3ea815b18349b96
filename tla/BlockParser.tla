------------------------------ MODULE BlockParser ------------------------------
(***************************************************************************)
(* The YAML form of expressions (crates/semstrait-model/src/parser).  A    *)
(* YAML value is <<"str", s>>, <<"num", n>>, <<"float", n>>, <<"bool", b>>,*)
(* <<"null">>, <<"seq", values>> or <<"map", function>>; a string is       *)
(* <<shape, body>>, the shape being what its characters make it.  Integers *)
(* are YAML's, up to 64 bits without a sign.  Every ParseError is the one  *)
(* refusal: which of several is reported is left out.                      *)
(***************************************************************************)
EXTENDS ExprParser, ExprTree

CONSTANTS
  MaxI64, MaxU32, MaxByte, MaxI8   \* the largest i64, u32, u8 and i8

VARIABLES
  yaml,         \* the value under an expression's key
  site,         \* "semantic" or "physical"
  block         \* the tree, Refused, or Pending

blockVars == <<yaml, site, block>>

IsStr(v) == v[1] = "str"
IsMap(v) == v[1] = "map"
IsSeq(v) == v[1] = "seq"
IsInt(v, lo, hi) == v[1] = "num" /\ v[2] \in lo .. hi

(* A mapping with the required keys and no unknown one.                    *)
HasFields(v, required, optional) ==
  IsMap(v) /\ required \subseteq DOMAIN v[2] /\ DOMAIN v[2] \subseteq required \union optional

Optional(m, key, default) == IF key \in DOMAIN m THEN m[key] ELSE default
SingleKey(m) == Cardinality(DOMAIN m) = 1
KeyOf(m) == CHOOSE k \in DOMAIN m : TRUE

(***************************************************************************)
(* Literals: number_to_literal and the body of a lit tag.                  *)
(***************************************************************************)
LiteralLeaf(lit) == Leaf(<<"literal", lit>>)
NullLeaf == LiteralLeaf(<<"null">>)

NumberToLiteral(v) ==
  IF v[1] = "num" /\ v[2] <= MaxI64 THEN <<"integer", v[2]>> ELSE <<"float", v[2]>>

IsU8(v) == IsInt(v, 0, MaxByte)
IsI8(v) == IsInt(v, -MaxI8 - 1, MaxI8)

(* value, and a precision and a scale of small integers, which default to  *)
(* 0; other keys are not looked at.                                        *)
ScaledBody(tag, m) ==
  LET precision == Optional(m, "precision", <<"num", 0>>)
      scale == IF tag = "decimal" THEN Optional(m, "scale", <<"num", 0>>) ELSE <<"num", 0>>
  IN  IF "value" \in DOMAIN m /\ IsStr(m["value"]) /\ IsU8(precision) /\ IsI8(scale)
        THEN LiteralLeaf(<<tag, m["value"][2], precision[2], scale[2]>>)
        ELSE Refused

TypedLiteral(tag, v) ==
  CASE tag = "boolean" /\ v[1] = "bool" -> LiteralLeaf(<<"boolean", v[2]>>)
    [] tag = "integer" /\ IsInt(v, -MaxI64 - 1, MaxI64) -> LiteralLeaf(<<"integer", v[2]>>)
    [] tag = "float" /\ v[1] \in {"num", "float"} -> LiteralLeaf(<<"float", v[2]>>)
    [] tag \in {"string", "date", "interval"} /\ IsStr(v) -> LiteralLeaf(<<tag, v[2]>>)
    [] tag = "null" -> NullLeaf
    [] tag \in {"time", "timestamp"} /\ IsStr(v) -> LiteralLeaf(<<tag, v[2], 0, 0>>)
    [] tag \in {"time", "timestamp", "decimal"} /\ IsMap(v) -> ScaledBody(tag, v[2])
    [] tag = "binary" /\ IsSeq(v) /\ \A i \in DOMAIN v[2] : IsU8(v[2][i]) -> LiteralLeaf(<<"binary", v[2]>>)
    [] OTHER -> Refused

(* The scalars that stand for themselves, in an expression and in lit.     *)
ScalarLiteral(v) ==
  CASE v[1] = "bool" -> LiteralLeaf(<<"boolean", v[2]>>)
    [] v[1] = "null" -> NullLeaf
    [] OTHER -> LiteralLeaf(NumberToLiteral(v))

IsScalar(v) == v[1] \in {"num", "float", "bool", "null"}

LiteralBody(v) ==
  CASE IsScalar(v) -> ScalarLiteral(v)
    [] IsStr(v) -> LiteralLeaf(<<"string", v[2]>>)
    [] IsMap(v) /\ SingleKey(v[2]) -> TypedLiteral(KeyOf(v[2]), v[2][KeyOf(v[2])])
    [] OTHER -> Refused

(* LeafResolver::resolve_bare_ident                                        *)
BareIdent(at, name) == Leaf(<<IF at = "semantic" THEN "field" ELSE "column", name>>)

TokenizeLeaf(at, s) ==
  CASE s[1] = "null" -> NullLeaf
    [] s[1] = "boolean" -> LiteralLeaf(<<"boolean", s[2]>>)
    [] s[1] = "single quoted" -> LiteralLeaf(<<"string", s[2]>>)
    [] s[1] = "integer" -> LiteralLeaf(<<"integer", s[2]>>)
    [] s[1] \in {"float", "inf"} -> LiteralLeaf(<<"float", s[2]>>)
    [] s[1] = "double quoted" /\ s[2] # "" -> BareIdent(at, s[2])
    [] s[1] = "bare" -> BareIdent(at, s[2])
    [] OTHER -> Refused

SemanticTags == {"field", "dim", "measure", "metric", "key"}

(* The accessors by tag: a word, or a mapping of one key to a number, which*)
(* only lag and lead use.                                                  *)
AccessorWords(tag) ==
  IF tag \in {"dim", "key"} THEN {"first", "last"} ELSE {"previous", "next", "delta", "percent_change"}

AccessorOk(tag, v) ==
  \/ IsStr(v) /\ v[2][2] \in AccessorWords(tag)
  \/ /\ IsMap(v) /\ SingleKey(v[2])
     /\ IsInt(v[2][KeyOf(v[2])], 0, MaxU32)
     /\ KeyOf(v[2]) \in AccessorWords(tag) \union {"lag", "lead"}

Accessor(v) ==
  IF IsStr(v) THEN <<v[2][2]>>
  ELSE IF KeyOf(v[2]) \in {"lag", "lead"} THEN <<KeyOf(v[2]), v[2][KeyOf(v[2])][2]>>
  ELSE <<KeyOf(v[2])>>

(* LeafResolver::from_semantic_tag: the whole string is the name.          *)
SemanticTag(at, tag, v) ==
  CASE at = "physical" -> Refused
    [] at = "semantic" /\ IsStr(v) -> Leaf(<<tag, v[2][2]>>)
    [] at = "semantic" /\ tag # "field" /\ HasFields(v, {"name"}, {"accessor"}) /\ IsStr(v[2]["name"]) ->
         IF "accessor" \notin DOMAIN v[2] THEN Leaf(<<tag, v[2]["name"][2][2]>>)
         ELSE IF AccessorOk(tag, v[2]["accessor"])
                THEN Leaf(<<tag, v[2]["name"][2][2], Accessor(v[2]["accessor"])>>)
                ELSE Refused
    [] OTHER -> Refused

(***************************************************************************)
(* The tags of operators and functions.                                    *)
(***************************************************************************)
BinaryTags == {"add", "subtract", "multiply", "divide", "safe_divide", "mod",
               "eq", "not_eq", "lt", "lt_eq", "gt", "gt_eq", "and", "or"}

FunctionTags ==
  {"upper", "lower", "length", "substring", "trim", "ltrim", "rtrim", "concat", "concat_ws",
   "replace", "lpad", "rpad", "reverse", "left", "right", "position", "split_part",
   "starts_with", "ends_with", "initcap", "repeat", "abs", "round", "ceil", "floor", "sqrt",
   "power", "sign", "exp", "ln", "log", "log10", "date_add", "date_sub", "date_diff",
   "date_trunc", "extract", "current_date", "current_timestamp", "to_date", "to_timestamp",
   "regexp_match", "regexp_extract", "regexp_replace", "greatest", "least"}

AggregateTags == {"sum", "avg", "count", "count_distinct", "min", "max"}

DataTypes == {"boolean", "integer", "number", "string", "date", "binary"}

(* parse_data_type: <<>> when it refuses.                                  *)
DataType(v) ==
  CASE IsStr(v) /\ v[2][2] \in DataTypes -> <<v[2][2]>>
    [] IsMap(v) /\ SingleKey(v[2]) ->
         LET tag == KeyOf(v[2])
             b == v[2][tag]
         IN  CASE tag = "decimal" /\ IsMap(b) /\ {"precision", "scale"} \subseteq DOMAIN b[2]
                    /\ IsU8(b[2]["precision"]) /\ IsI8(b[2]["scale"]) ->
                    <<tag, b[2]["precision"][2], b[2]["scale"][2]>>
               [] tag = "timestamp" /\ IsMap(b) /\ "precision" \in DOMAIN b[2] /\ IsU8(b[2]["precision"]) ->
                    <<tag, b[2]["precision"][2]>>
               [] OTHER -> <<>>
    [] OTHER -> <<>>

CastFailures == {"error", "null"}

(***************************************************************************)
(* The negation of not: IN, BETWEEN and LIKE carry their own.              *)
(***************************************************************************)
Flip(what) ==
  CASE what = "in" -> "not in" [] what = "not in" -> "in"
    [] what = "between" -> "not between" [] what = "not between" -> "between"
    [] what = "like" -> "not like" [] what = "not like" -> "like"
    [] what = "ilike" -> "not ilike" [] what = "not ilike" -> "ilike"

(* As NotFold with the negation set where it should be turned over.        *)
NotSet(e) ==
  LET Negated(what) == IF what \in {"in", "between", "like", "ilike"} THEN Flip(what) ELSE what
  IN  IF Kind(e) \in {"in", "between", "like"} THEN Checked(e[1], Negated(e[2]), e[3])
      ELSE Checked("unary", "not", <<<<e>>>>)

NotFold(e) ==
  IF Kind(e) \in {"in", "between", "like"} THEN Checked(e[1], Flip(e[2]), e[3])
  ELSE Checked("unary", "not", <<<<e>>>>)

(***************************************************************************)
(* parse_block_value and parse_tagged_mapping.                             *)
(***************************************************************************)
RECURSIVE ParseValue(_, _)

ParseSeq(at, v) == [i \in DOMAIN v[2] |-> ParseValue(at, v[2][i])]

(* The fields of a mapping, parsed, one slot each.                         *)
Slots(at, v, keys) == [i \in DOMAIN keys |-> <<ParseValue(at, v[2][keys[i]])>>]

OptionalSlot(at, v, key) ==
  IF key \in DOMAIN v[2] THEN <<ParseValue(at, v[2][key])>> ELSE <<>>

(* A node whose expressions are the fields of a mapping.                   *)
FieldNode(at, kind, what, v, keys) ==
  IF HasFields(v, Range(keys), {}) THEN Checked(kind, what, Slots(at, v, keys)) ELSE Refused

ParsePair(at, tag, v) ==
  IF IsSeq(v)
    THEN IF Len(v[2]) = 2
           THEN Checked("binary", tag, [i \in 1 .. 2 |-> <<ParseSeq(at, v)[i]>>])
           ELSE Refused
    ELSE FieldNode(at, "binary", tag, v, <<"left", "right">>)

ParseCase(at, v) ==
  IF /\ HasFields(v, {"whens"}, {"else"}) /\ IsSeq(v[2]["whens"])
     /\ \A i \in DOMAIN v[2]["whens"][2] : HasFields(v[2]["whens"][2][i], {"when", "then"}, {})
    THEN LET whens == v[2]["whens"][2]
             pair(w) == <<ParseValue(at, w[2]["when"]), ParseValue(at, w[2]["then"])>>
         IN  Checked("case", "", [i \in DOMAIN whens |-> pair(whens[i])] \o <<OptionalSlot(at, v, "else")>>)
    ELSE Refused

ParseIf(at, v) ==
  IF HasFields(v, {"cond", "then"}, {"else"})
    THEN Checked("case", "", <<<<ParseValue(at, v[2]["cond"]), ParseValue(at, v[2]["then"])>>,
                               OptionalSlot(at, v, "else")>>)
    ELSE Refused

ParseIn(at, v) ==
  IF HasFields(v, {"value", "list"}, {}) /\ IsSeq(v[2]["list"])
    THEN Checked("in", "in", <<<<ParseValue(at, v[2]["value"])>>, ParseSeq(at, v[2]["list"])>>)
    ELSE Refused

ParseCast(at, v) ==
  IF /\ HasFields(v, {"input", "target"}, {"on_failure"})
     /\ DataType(v[2]["target"]) # <<>>
     /\ "on_failure" \in DOMAIN v[2] => IsStr(v[2]["on_failure"]) /\ v[2]["on_failure"][2][2] \in CastFailures
    THEN Checked("cast",
                 <<DataType(v[2]["target"]),
                   IF "on_failure" \in DOMAIN v[2] THEN v[2]["on_failure"][2][2] ELSE "error">>,
                 <<<<ParseValue(at, v[2]["input"])>>>>)
    ELSE Refused

(* parse_aggregate_sugar: a mapping with one of its own keys is the long   *)
(* form; anything else is the argument.                                    *)
ParseAggregate(at, tag, v) ==
  IF IsMap(v) /\ DOMAIN v[2] \intersect {"args", "distinct", "filter"} # {}
    THEN IF /\ HasFields(v, {"args"}, {"distinct", "filter"}) /\ IsSeq(v[2]["args"])
            /\ "distinct" \in DOMAIN v[2] => v[2]["distinct"][1] = "bool"
           THEN Checked("aggregate",
                        <<tag, tag = "count_distinct" \/ Optional(v[2], "distinct", <<"bool", FALSE>>)[2]>>,
                        <<ParseSeq(at, v[2]["args"]),
                          IF Optional(v[2], "filter", <<"null">>)[1] = "null" THEN <<>>
                          ELSE OptionalSlot(at, v, "filter")>>)
           ELSE Refused
    ELSE Checked("aggregate", <<tag, tag = "count_distinct">>, <<<<ParseValue(at, v)>>, <<>>>>)

ParseTagged(at, m) ==
  LET tag == KeyOf(m)
      v == m[tag]
  IN  IF ~SingleKey(m) THEN Refused ELSE
      CASE tag \in BinaryTags -> ParsePair(at, tag, v)
        [] tag = "negate" -> Checked("unary", tag, <<<<ParseValue(at, v)>>>>)
        [] tag \in FunctionTags ->
             Checked("call", tag, <<IF IsSeq(v) THEN ParseSeq(at, v) ELSE <<ParseValue(at, v)>>>>)
        [] tag = "lit" -> LiteralBody(v)
        [] tag = "col" -> IF IsStr(v) THEN Leaf(<<"column", v[2][2]>>) ELSE Refused
        [] tag \in SemanticTags -> SemanticTag(at, tag, v)
        [] tag = "not" ->
             LET e == ParseValue(at, v) IN IF Kind(e) = "refused" THEN Refused ELSE NotFold(e)
        [] tag = "case" -> ParseCase(at, v)
        [] tag = "if" -> ParseIf(at, v)
        [] tag = "coalesce" ->
             IF IsSeq(v) THEN Checked("coalesce", "", <<ParseSeq(at, v)>>) ELSE Refused
        [] tag = "null_if" -> FieldNode(at, "null_if", "", v, <<"left", "right">>)
        [] tag = "in" -> ParseIn(at, v)
        [] tag = "between" -> FieldNode(at, "between", "between", v, <<"value", "low", "high">>)
        [] tag \in {"like", "ilike"} -> FieldNode(at, "like", tag, v, <<"value", "pattern">>)
        [] tag = "is_null" -> Checked("is_null", "", <<<<ParseValue(at, v)>>>>)
        [] tag = "cast" -> ParseCast(at, v)
        [] tag \in AggregateTags -> ParseAggregate(at, tag, v)
        [] OTHER -> Refused

ParseValue(at, v) ==
  CASE IsStr(v) -> TokenizeLeaf(at, v[2])
    [] IsScalar(v) -> ScalarLiteral(v)
    [] IsMap(v) -> ParseTagged(at, v[2])
    [] OTHER -> Refused

(***************************************************************************)
(* parse_block: a string is an inline expression, kept as it is and parsed *)
(* by ExprParser when the model is compiled.                               *)
(***************************************************************************)
ParseBlock(at, v) == IF IsStr(v) THEN <<"inline", v[2], <<>>>> ELSE ParseValue(at, v)

(***************************************************************************)
(* semantic_mapping: the value of one name is a column, a literal or an    *)
(* expression over columns.  The literals have tags of their own.          *)
(***************************************************************************)
TextLiterals == {"decimal", "string", "date", "timestamp"}

(* As DeserializeLiteral with the word null tagged or not.                 *)
DeserializeLiteralLoosely(v) ==
  CASE v[1] = "null" \/ (IsStr(v) /\ v[2][1] = "null") -> <<"null">>
    [] IsStr(v) -> <<"string", v[2]>>
    [] v[1] = "bool" -> <<"bool", v[2]>>
    [] v[1] \in {"num", "float"} -> IF NumberToLiteral(v)[1] = "integer" THEN <<"int", v[2]>> ELSE <<"float", v[2]>>
    [] IsMap(v) /\ SingleKey(v[2]) -> IF IsStr(v[2][KeyOf(v[2])]) /\ v[2][KeyOf(v[2])][2][1] = "null" THEN <<"null">>
                                      ELSE <<KeyOf(v[2]), v[2][KeyOf(v[2])][2]>>
    [] OTHER -> <<"refused">>

DeserializeLiteral(v) ==
  CASE v[1] = "null" \/ (IsStr(v) /\ v[2][1] = "null") -> <<"null">>
    [] IsStr(v) /\ v[2][1] # "null" -> <<"string", v[2]>>
    [] v[1] = "bool" -> <<"bool", v[2]>>
    [] v[1] \in {"num", "float"} -> IF NumberToLiteral(v)[1] = "integer" THEN <<"int", v[2]>> ELSE <<"float", v[2]>>
    [] IsMap(v) /\ SingleKey(v[2]) ->
         LET tag == KeyOf(v[2])
             b == v[2][tag]
         IN  IF \/ tag = "bool" /\ b[1] = "bool"
                \/ tag = "int" /\ IsInt(b, -MaxI64 - 1, MaxI64)
                \/ tag = "float" /\ b[1] \in {"num", "float"}
                \/ tag \in TextLiterals /\ IsStr(b)
               THEN <<tag, b[2]>> ELSE <<"refused">>
    [] OTHER -> <<"refused">>

SerializeLiteral(l) ==
  CASE l[1] = "null" -> <<"null">>
    [] l[1] = "bool" -> <<"map", [bool |-> <<"bool", l[2]>>]>>
    [] l[1] = "int" -> <<"map", [int |-> <<"num", l[2]>>]>>
    [] l[1] = "float" -> <<"map", [float |-> <<"float", l[2]>>]>>
    [] OTHER -> <<"map", [k \in {l[1]} |-> <<"str", l[2]>>]>>

(* deserialize_mapping_value                                               *)
MappingValue(v) ==
  CASE IsStr(v) -> <<"column", v[2]>>
    [] IsMap(v) /\ DOMAIN v[2] = {"lit"} ->
         LET l == DeserializeLiteral(v[2]["lit"]) IN IF l = <<"refused">> THEN l ELSE <<"literal", l>>
    [] IsMap(v) /\ DOMAIN v[2] = {"expr"} ->
         LET e == ParseBlock("physical", v[2]["expr"]) IN IF e = Refused THEN <<"refused">> ELSE <<"expr", e>>
    [] OTHER -> <<"refused">>

(* The block form of an expression is written as a text under block.       *)
SerializeMappingValue(x) ==
  CASE x[1] = "column" -> <<"str", x[2]>>
    [] x[1] = "literal" -> <<"map", [lit |-> SerializeLiteral(x[2])]>>
    [] x[1] = "expr" /\ Kind(x[2]) = "inline" -> <<"map", [expr |-> <<"str", x[2][2]>>]>>
    [] OTHER -> <<"map", [expr |-> <<"map", [block |-> <<"str", <<"bare", "debug">>>>]>>]>>

(* SemanticMapping: the word auto, or a value for each name.               *)
SemanticMapping(v) ==
  CASE IsStr(v) /\ v[2][2] = "auto" -> <<"auto">>
    [] IsMap(v) -> LET es == [n \in DOMAIN v[2] |-> MappingValue(v[2][n])]
                   IN  IF \E n \in DOMAIN es : es[n] = <<"refused">> THEN <<"refused">> ELSE <<"explicit", es>>
    [] OTHER -> <<"refused">>

SerializeMapping(x) ==
  IF x = <<"auto">> THEN <<"str", <<"bare", "auto">>>>
  ELSE <<"map", [n \in DOMAIN x[2] |-> SerializeMappingValue(x[2][n])]>>

(* SemanticMappingBuilder: entries written one by one, the last write of a *)
(* name wins; a builder without entries builds auto.                       *)
BuildMapping(writes) ==
  IF writes = <<>> THEN <<"auto">>
  ELSE <<"explicit", [n \in {writes[i][1] : i \in DOMAIN writes} |->
                       writes[Max({i \in DOMAIN writes : writes[i][1] = n})][2]]>>

(***************************************************************************)
(* One value is parsed; a tree may be rewritten by a later pass, and a     *)
(* mapping dumped and loaded again.                                        *)
(***************************************************************************)
BlockInitWith(at, v) == site = at /\ yaml = v /\ block = Pending

ParseYaml ==
  /\ block = Pending
  /\ block' = IF site = "mapping" THEN SemanticMapping(yaml) ELSE ParseBlock(site, yaml)
  /\ UNCHANGED <<yaml, site>>

RewriteWith(subst) ==
  /\ block # Pending /\ site # "mapping" /\ Kind(block) \notin {"refused", "inline"}
  /\ block' = Transform(block, subst)
  /\ UNCHANGED <<yaml, site>>

Build(writes) ==
  /\ block = Pending /\ site = "mapping"
  /\ block' = BuildMapping(writes)
  /\ UNCHANGED <<yaml, site>>

DumpMapping ==
  /\ block # Pending /\ site = "mapping" /\ Kind(block) # "refused"
  /\ yaml' = SerializeMapping(block)
  /\ block' = Pending
  /\ UNCHANGED site
===============================================================================
