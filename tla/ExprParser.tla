------------------------------ MODULE ExprParser ------------------------------
(***************************************************************************)
(* The inline expression language of the manifest compiler                 *)
(* (crates/semstrait-manifest/src/steps.rs).  An expression is a string;   *)
(* the compiler splits it at the last top-level occurrence of the operator *)
(* that binds least, and parses both sides.  The model works on the words  *)
(* of the string: names, literals, operators, parentheses and quotes.  A   *)
(* minus sign needs a space beside it: "-" has one on both sides, " -" and *)
(* "- " on one side alone; without any it belongs to a name and is no      *)
(* word.                                                                   *)
(*                                                                         *)
(* An expression is a tuple: <<"ref", words>> an entity reference,         *)
(* <<"column", words>>, <<"literal", words>>, <<"agg", e>>, <<"not", e>>,   *)
(* <<"isnull", e>> or <<operator, left, right>>.                           *)
(***************************************************************************)
EXTENDS Naturals, Integers, Sequences, FiniteSets, FiniteSetsExt, SequencesExt

CONSTANTS
  Names,        \* the words that are identifiers
  Keywords      \* the names that are SQL keywords too, like count, min or end

VARIABLES
  text,         \* the string given to parse_expr
  result        \* what it returned

inlineVars == <<text, result>>

(***************************************************************************)
(* Words.                                                                  *)
(***************************************************************************)
Open == "("
Close == ")"
Quote == "'"
Literals == {"1", "true", "null"}
Aggregates == {"SUM", "COUNT", "AVG", "MIN", "MAX", "COUNT_DISTINCT"}
Minuses == {"-", " -", "- "}
Comparisons == {"=", "!=", "<", ">", "<=", ">="}
SqlKeywords == {"SELECT", "FROM", "WHERE", "JOIN", "UNION", "GROUP BY"}

Pending == <<"pending">>
Rejected(why) == <<"error", <<why>>>>

EntityRef(s) == <<"ref", s>>
Column(s) == <<"column", s>>
Literal(s) == <<"literal", s>>

Inner(s) == SubSeq(s, 2, Len(s) - 1)
Before(s, i) == SubSeq(s, 1, i - 1)
After(s, i) == SubSeq(s, i + 1, Len(s))

(***************************************************************************)
(* ScanState: the depth of parentheses and the quoting before a word.      *)
(***************************************************************************)
InString(s, i) == Cardinality({j \in 1 .. (i - 1) : s[j] = Quote}) % 2 = 1

DepthBefore(s, i) ==
  LET Unquoted(w) == {j \in 1 .. (i - 1) : s[j] = w /\ ~InString(s, j)}
  IN  Cardinality(Unquoted(Open)) - Cardinality(Unquoted(Close))

TopLevel(s) ==
  {i \in DOMAIN s : /\ s[i] \notin {Open, Close, Quote}
                    /\ ~InString(s, i)
                    /\ DepthBefore(s, i) = 0}

(* As FindLast with the first occurrence.                                  *)
FindFirst(s, ws) ==
  LET at == {i \in TopLevel(s) : s[i] \in ws} IN IF at = {} THEN 0 ELSE Min(at)

(* find_last_keyword and the scan of try_parse_comparison: the position of *)
(* the last top-level word of the set, 0 when there is none.               *)
FindLast(s, ws) ==
  LET at == {i \in TopLevel(s) : s[i] \in ws} IN IF at = {} THEN 0 ELSE Max(at)

(* The operator splits the string into two parts that are not empty.       *)
Splits(s, i) == i > 1 /\ i < Len(s)

(* try_parse_arithmetic: the last + or -, or else the last * or /, none of *)
(* them at the start.                                                      *)
ArithmeticAt(s) ==
  LET LastOf(ws) == LET at == {i \in TopLevel(s) \ {1} : s[i] \in ws}
                    IN  IF at = {} THEN 0 ELSE Max(at)
      addSub == LastOf({"+"} \union Minuses)
  IN  IF addSub > 0 THEN addSub ELSE LastOf({"*", "/"})

(* try_parse_aggregation: FUNCTION( ... ), by the first and the last word. *)
IsAggregation(s) ==
  Len(s) > 2 /\ s[1] \in Aggregates /\ s[2] = Open /\ Last(s) = Close

IsIdentifier(s) == Len(s) = 1 /\ s[1] \in Names

Aggregation(s) ==
  LET inner == SubSeq(s, 3, Len(s) - 1)
  IN  <<"agg", IF IsIdentifier(inner) THEN Column(inner) ELSE EntityRef(inner)>>

Wrapped(s) == Len(s) > 1 /\ s[1] = Open /\ Last(s) = Close

(* The test of parse_predicate_operand that the first parenthesis closes   *)
(* with the last one; quotes are not looked at.                            *)
Balanced(s) ==
  LET Count(w, i) == Cardinality({j \in 1 .. i : s[j] = w})
  IN  /\ \A i \in DOMAIN s : Count(Close, i) <= Count(Open, i)
      /\ Count(Close, Len(s)) = Count(Open, Len(s))

(* The end of parse_expr and of parse_operand: a quoted string, a literal, *)
(* or a reference, whatever the words are.                                 *)
Atom(s) ==
  CASE Len(s) > 1 /\ s[1] = Quote /\ Last(s) = Quote -> Literal(Inner(s))
    [] Len(s) = 1 /\ s[1] \in Literals -> Literal(s)
    [] OTHER -> EntityRef(s)

(***************************************************************************)
(* parse_operand, with the arithmetic that it finds in parentheses.        *)
(***************************************************************************)
RECURSIVE Operand(_)
Arithmetic(s) ==
  LET i == ArithmeticAt(s)
  IN  <<IF s[i] \in Minuses THEN "-" ELSE s[i], Operand(Before(s, i)), Operand(After(s, i))>>

HasArithmetic(s) == Splits(s, ArithmeticAt(s))

Operand(s) ==
  IF Wrapped(s) /\ IsAggregation(Inner(s)) THEN Aggregation(Inner(s))
  ELSE IF Wrapped(s) /\ HasArithmetic(Inner(s)) THEN Arithmetic(Inner(s))
  ELSE IF IsAggregation(s) THEN Aggregation(s)
  ELSE Atom(s)

(***************************************************************************)
(* The chain of predicate parsers, from the operator that binds least.     *)
(***************************************************************************)
RECURSIVE PredicateOperand(_)

(* OR, AND and the comparisons: try_parse_logical_or, try_parse_logical_and*)
(* and try_parse_comparison.                                               *)
Binary(s, ws) ==
  LET i == FindLast(s, ws)
  IN  <<s[i], PredicateOperand(Before(s, i)), PredicateOperand(After(s, i))>>

HasBinary(s, ws) == Splits(s, FindLast(s, ws))

(* try_parse_is_null: a suffix, whatever comes before it.                  *)
IsNullSuffix(s) == Len(s) > 1 /\ Last(s) = "IS NULL"

(* try_parse_not_prefix                                                    *)
NotPrefix(s) == Len(s) > 1 /\ s[1] = "NOT"

Precedence(s, otherwise) ==
  IF HasBinary(s, {"OR"}) THEN Binary(s, {"OR"})
  ELSE IF HasBinary(s, {"AND"}) THEN Binary(s, {"AND"})
  ELSE IF HasBinary(s, Comparisons) THEN Binary(s, Comparisons)
  ELSE IF IsNullSuffix(s) THEN <<"isnull", PredicateOperand(Front(s))>>
  ELSE IF NotPrefix(s) THEN <<"not", PredicateOperand(Tail(s))>>
  ELSE IF HasArithmetic(s) THEN Arithmetic(s)
  ELSE otherwise

PredicateOperand(s) ==
  IF Wrapped(s) /\ Balanced(Inner(s)) THEN PredicateOperand(Inner(s))
  ELSE IF IsAggregation(s) THEN Aggregation(s)
  ELSE Precedence(s, Operand(s))

(* looks_like_raw_sql: a keyword anywhere, in a string too.                *)
LooksLikeRawSql(s) == \E i \in DOMAIN s : s[i] \in SqlKeywords

(* parse_expr: parentheses around the whole string are not taken off.      *)
ParseExpr(s) ==
  IF s = <<>> THEN Rejected("empty expression")
  ELSE IF LooksLikeRawSql(s) THEN Rejected("raw SQL")
  ELSE IF IsAggregation(s) THEN Aggregation(s)
  ELSE Precedence(s, Atom(s))

(* The name at i and the minus sign beside it have no space in between.    *)
Glued(s, i) == (i > 1 /\ s[i - 1] = " -") \/ (i < Len(s) /\ s[i + 1] = "- ")

(* As ExtractIdentifiers with the names of quoted text left out and the    *)
(* rest lost after a quote.                                                *)
ExtractUntilQuote(s) ==
  ({s[i] : i \in {j \in DOMAIN s : ~Glued(s, j) /\ \A k \in 1 .. j : s[k] # Quote}} \intersect Names) \ Keywords

(* extract_identifiers_from_expr: the names in the string, the ones in     *)
(* quotes too, without the keywords.  The string is split at every         *)
(* character but letters, digits, _ and -: "-b" is not the name b.         *)
ExtractIdentifiers(s) == ({s[i] : i \in {j \in DOMAIN s : ~Glued(s, j)}} \intersect Names) \ Keywords

(* collect_identifiers_from_expr: the references of a compiled expression. *)
RECURSIVE CollectIdentifiers(_)
CollectIdentifiers(e) ==
  CASE e[1] \in {"ref", "column"} -> {e[2]}
    [] e[1] \in {"literal", "error"} -> {}
    [] OTHER -> UNION {CollectIdentifiers(e[i]) : i \in 2 .. Len(e)}

(***************************************************************************)
(* One expression is parsed.                                               *)
(***************************************************************************)
InitWith(s) == text = s /\ result = Pending

Parse ==
  /\ result = Pending
  /\ result' = ParseExpr(text)
  /\ UNCHANGED text

===============================================================================
