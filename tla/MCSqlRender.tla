----------------------------- MODULE MCSqlRender -----------------------------
(***************************************************************************)
(* The text of small expressions, read by the precedence of SQL, and the   *)
(* tree of the polyglot emitter, compared with the expression.             *)
(***************************************************************************)
EXTENDS SqlRender, MCSqlEmitter

(***************************************************************************)
(* A reader of SQL.  From the loosest: OR, AND, NOT, IS, comparison, the   *)
(* other predicates, sums, products, sign.  It returns a tree and the      *)
(* tokens it leaves; Garbled is left where nothing can be read.            *)
(***************************************************************************)
SqlLevel(op) ==
  CASE op = "OR" -> 1
    [] op = "AND" -> 2
    [] op \in {"=", "<"} -> 5
    [] op \in {"+", "-"} -> 7
    [] op = "/" -> 8
    [] OTHER -> 0

NotLevel == 3
IsLevel == 4
PredicateLevel == 6
SignLevel == 9

Garbled == <<<<"garbled", "">>>>
Unreadable == <<<<"unreadable">>, Garbled>>
Starts(ts, token) == ts # <<>> /\ Head(ts) = token
Behind(ts, token) == IF Starts(ts, token) THEN Tail(ts) ELSE Garbled

RECURSIVE ReadAt(_, _), Extend(_, _, _), ReadList(_), ReadWhens(_)

ReadIn(e, ts, negated, level) ==
  LET list == ReadList(Behind(ts, Sym("(")))
  IN  Extend(<<"in", e, list[1], negated>>, Behind(list[2], Sym(")")), level)

ReadBetween(e, ts, negated, level) ==
  LET low == ReadAt(ts, PredicateLevel + 1)
      high == ReadAt(Behind(low[2], Keyword("AND")), PredicateLevel + 1)
  IN  Extend(<<"between", e, low[1], high[1], negated>>, high[2], level)

(* What follows an operand, as long as it binds as tightly as the level.   *)
Extend(e, ts, level) ==
  LET t == IF ts = <<>> THEN <<"end", "">> ELSE <<Head(ts)[1], IF Head(ts)[1] \in {"sym", "word"} THEN Head(ts)[2] ELSE "">>
      word == IF t[1] = "word" THEN t[2] ELSE ""
      rest == IF ts = <<>> THEN <<>> ELSE Tail(ts)
      op == IF t[1] = "sym" THEN t[2] ELSE IF word \in {"AND", "OR"} THEN word ELSE ""
  IN  CASE op # "" /\ SqlLevel(op) > 0 /\ SqlLevel(op) >= level ->
             LET right == ReadAt(rest, SqlLevel(op) + 1)
             IN  Extend(<<"binary", op, e, right[1]>>, right[2], level)
        [] word = "IS NULL" /\ IsLevel >= level -> Extend(<<"isnull", e>>, rest, level)
        [] word = "IS NOT NULL" /\ IsLevel >= level -> Extend(<<"isnotnull", e>>, rest, level)
        [] word \in {"LIKE", "ILIKE", "RLIKE"} /\ PredicateLevel >= level ->
             LET right == ReadAt(rest, PredicateLevel + 1)
             IN  Extend(IF word = "LIKE" THEN <<"like", e, right[1]>>
                        ELSE IF word = "ILIKE" THEN <<"ilike", e, right[1]>> ELSE <<"rlike", e, right[1]>>,
                        right[2], level)
        [] word = "IN" /\ PredicateLevel >= level -> ReadIn(e, rest, FALSE, level)
        [] word = "BETWEEN" /\ PredicateLevel >= level -> ReadBetween(e, rest, FALSE, level)
        [] word = "NOT" /\ PredicateLevel >= level /\ Starts(rest, Keyword("IN")) -> ReadIn(e, Tail(rest), TRUE, level)
        [] word = "NOT" /\ PredicateLevel >= level /\ Starts(rest, Keyword("BETWEEN")) -> ReadBetween(e, Tail(rest), TRUE, level)
        [] OTHER -> <<e, ts>>

(* Expressions with commas between them.                                   *)
ReadList(ts) ==
  LET first == ReadAt(ts, 1)
      others == ReadList(Tail(first[2]))
  IN  IF Starts(first[2], Sym(",")) THEN <<<<first[1]>> \o others[1], others[2]>>
      ELSE <<<<first[1]>>, first[2]>>

ReadWhens(ts) ==
  IF ~Starts(ts, Keyword("WHEN")) THEN <<<<>>, ts>>
  ELSE LET cond == ReadAt(Tail(ts), 1)
           value == ReadAt(Behind(cond[2], Keyword("THEN")), 1)
           others == ReadWhens(value[2])
       IN  <<<<<<cond[1], value[1]>>>> \o others[1], others[2]>>

ReadCase(ts, level) ==
  LET whens == ReadWhens(ts)
      else == IF Starts(whens[2], Keyword("ELSE")) THEN ReadAt(Tail(whens[2]), 1) ELSE Unreadable
  IN  IF Starts(whens[2], Keyword("ELSE"))
      THEN Extend(<<"case", whens[1], <<else[1]>>>>, Behind(else[2], Keyword("END")), level)
      ELSE Extend(<<"case", whens[1], <<>>>>, Behind(whens[2], Keyword("END")), level)

ReadCall(name, ts, level) ==
  LET open == Behind(ts, Sym("("))
      distinct == Starts(open, Keyword("DISTINCT"))
      args == ReadList(IF distinct THEN Tail(open) ELSE open)
      as == Behind(args[2], Keyword("AS"))
  IN  IF name = "CAST" /\ as # <<>>
      THEN Extend(<<"cast", args[1][1], Head(as)[2]>>, Behind(Tail(as), Sym(")")), level)
      ELSE Extend(<<"call", name, args[1], distinct>>, Behind(args[2], Sym(")")), level)

ReadAt(ts, level) ==
  IF ts = <<>> THEN Unreadable
  ELSE LET t == Head(ts)
           inner == ReadAt(Tail(ts), 1)
           signed == ReadAt(Tail(ts), SignLevel)
           denied == ReadAt(Tail(ts), NotLevel)
       IN  CASE t[1] = "id" -> Extend(<<"column", t[2], t[3]>>, Tail(ts), level)
             [] t[1] = "lit" -> Extend(<<"literal", t[2]>>, Tail(ts), level)
             [] t[1] = "fn" -> ReadCall(t[2], Tail(ts), level)
             [] t = Sym("(") -> Extend(inner[1], Behind(inner[2], Sym(")")), level)
             [] t = Sym("-") -> Extend(<<"negate", signed[1]>>, signed[2], level)
             [] t = Keyword("NOT") -> Extend(<<"not", denied[1]>>, denied[2], level)
             [] t = Keyword("CASE") -> ReadCase(Tail(ts), level)
             [] OTHER -> Unreadable

Read(ts) == LET r == ReadAt(ts, 1) IN IF r[2] = <<>> THEN r[1] ELSE <<"unreadable">>

(***************************************************************************)
(* What an expression, a tree that was read and a tree that was built mean *)
(* in one vocabulary.  The functions for regular expressions look anywhere *)
(* in a string unless they are anchored; RLIKE is as dialect.rs has it, it *)
(* looks at the whole string.                                              *)
(***************************************************************************)
Anchored(p) == p[1] = "call" /\ p[2] = "CONCAT" /\ p[3][1] = LitTree("string", "^") /\ p[3][3] = LitTree("string", "$")
Padded(p) == p[1] = "call" /\ p[2] = "CONCAT" /\ p[3][1] = LitTree("string", ".*") /\ p[3][3] = LitTree("string", ".*")
Match(e, p, full) == <<"match", e, p, full>>
Lower(e) == CallTree("LOWER", <<e>>)

RECURSIVE Meaning(_)
Meanings(es) == <<>> \o [i \in DOMAIN es |-> Meaning(es[i])]

Meaning(e) ==
  CASE e[1] = "literal" -> IF e[2][1] = "int" /\ e[2][2] < 0 THEN <<"negate", LitTree("int", -e[2][2])>> ELSE e
    [] e[1] \in {"column", "unreadable"} -> e
    [] e[1] = "binary" -> IF e[2] # "safe_divide" THEN <<"binary", e[2], Meaning(e[3]), Meaning(e[4])>>
                          ELSE Meaning(<<"case", <<<<<<"binary", "=", e[4], LitTree("int", 0)>>, <<"literal", <<"null">>>>>>>>,
                                         <<<<"binary", "/", e[3], e[4]>>>>>>)
    [] e[1] = "call" /\ e[2] \in {"REGEXP_LIKE", "REGEXP_MATCHES"} ->
         IF Anchored(e[3][2]) THEN Match(Meaning(e[3][1]), Meaning(e[3][2][3][2]), TRUE)
         ELSE Match(Meaning(e[3][1]), Meaning(e[3][2]), FALSE)
    [] e[1] = "call" -> <<"call", e[2], Meanings(e[3]), e[4]>>
    [] e[1] = "rlike" -> IF Padded(e[3]) THEN Match(Meaning(e[2]), Meaning(e[3][3][2]), FALSE)
                         ELSE Match(Meaning(e[2]), Meaning(e[3]), TRUE)
    [] e[1] = "regexp" -> Match(Meaning(e[2]), Meaning(e[3]), e[4])
    [] e[1] = "aggregate" -> <<"call", IF e[2] = "COUNT_DISTINCT" THEN "COUNT" ELSE e[2], <<Meaning(e[3])>>,
                               e[4] \/ e[2] = "COUNT_DISTINCT">>
    [] e[1] \in {"negate", "not", "isnull", "isnotnull"} -> <<e[1], Meaning(e[2])>>
    [] e[1] = "case" -> <<"case", [i \in DOMAIN e[2] |-> Meanings(e[2][i])], Meanings(e[3])>>
    [] e[1] = "in" -> LET in == <<"in", Meaning(e[2]), Meanings(e[3]), FALSE>> IN IF e[4] THEN <<"not", in>> ELSE in
    [] e[1] = "between" -> LET within == <<"between", Meaning(e[2]), Meaning(e[3]), Meaning(e[4]), FALSE>>
                           IN  IF e[5] THEN <<"not", within>> ELSE within
    [] e[1] = "like" -> <<"like", Meaning(e[2]), Meaning(e[3])>>
    [] e[1] = "ilike" -> <<"like", Lower(Meaning(e[2])), Lower(Meaning(e[3]))>>
    [] e[1] = "extract" -> CallTree("REGEXP_EXTRACT", <<Meaning(e[2]), Meaning(e[3]), LitTree("int", e[4])>>)
    [] e[1] = "coalesce" -> CallTree("COALESCE", Meanings(e[2]))
    [] e[1] = "nullif" -> CallTree("NULLIF", Meanings(<<e[2], e[3]>>))
    [] e[1] = "date_trunc" -> CallTree("DATE_TRUNC", <<LitTree("string", e[2]), Meaning(e[3])>>)
    [] e[1] = "cast" -> <<"cast", Meaning(e[2]), e[3]>>

(***************************************************************************)
(* Expressions: numbers, texts and predicates over one another.            *)
(***************************************************************************)
ColTree(name) == <<"column", <<>>, <<name>>>>
Bin(ops, ls, rs) == {<<"binary", op, l, r>> : op \in ops, l \in ls, r \in rs}

Nums0 == {ColTree("a"), <<"column", <<"t">>, <<"a">>>>, LitTree("int", 1), LitTree("int", -5), <<"aggregate", "COUNT_DISTINCT", ColTree("a"), FALSE>>}
Nums1 == Bin({"+", "/", "safe_divide"}, Nums0, Nums0)
           \union {<<"negate", e>> : e \in Nums0}
           \union {<<"nullif", ColTree("a"), LitTree("int", -5)>>, <<"cast", ColTree("a"), "number">>, <<"coalesce", <<ColTree("a"), LitTree("int", 1)>>>>}
Nums2 == Nums0 \union Nums1 \union {<<"negate", e>> : e \in Nums1} \union Bin({"-", "safe_divide"}, Nums1, Nums0) \union Bin({"-", "safe_divide"}, Nums0, Nums1)

Texts0 == {ColTree("s"), LitTree("string", "x"), <<"extract", ColTree("s"), LitTree("string", "x"), 1>>, <<"date_trunc", "day", ColTree("s")>>,
           <<"call", "UPPER", <<ColTree("s")>>, FALSE>>, <<"column", <<>>, <<"a", "b">>>>}

Bools0 == {ColTree("p"), LitTree("int", 1), <<"unresolved">>}
PredicatesOver(es) ==
  UNION {{<<"not", e>>, <<"isnull", e>>, <<"isnotnull", e>>, <<"in", e, <<LitTree("int", 1), LitTree("int", -5)>>, TRUE>>,
          <<"in", e, <<e>>, FALSE>>, <<"case", <<<<e, LitTree("int", 1)>>, <<ColTree("p"), e>>>>, <<>>>>,
          <<"case", <<<<e, e>>>>, <<e>>>>, <<"between", e, LitTree("int", -5), e, TRUE>>, <<"between", LitTree("int", 1), e, ColTree("a"), FALSE>>} : e \in es}
Matches(es) ==
  UNION {{<<"like", l, r>>, <<"ilike", l, r>>, <<"regexp", l, r, TRUE>>, <<"regexp", l, r, FALSE>>} : l \in es, r \in Texts0}

Bools1 == PredicatesOver({ColTree("p"), LitTree("int", -5), <<"binary", "+", ColTree("a"), ColTree("a")>>, <<"unresolved">>}) \union Matches({ColTree("s")})
            \union Bin({"=", "<", "AND", "OR"}, Bools0, Bools0)
Bools2 == PredicatesOver(Bools1) \union Bin({"OR", "="}, Bools1, PredicatesOver({ColTree("p")}))

Fetches == {<<"fetch", count, offset>> : count \in {<<>>, <<-1>>, <<0>>, <<3>>}, offset \in {-1, 0, 2}}
Queries == Nums2 \union Matches(Texts0) \union Bools1 \union Bools2 \union Fetches

(***************************************************************************)
(* The rows that a limit keeps, read from its clauses.                     *)
(***************************************************************************)
Clause(clauses, words, default) ==
  LET found == {i \in DOMAIN clauses : clauses[i][1] \in words}
  IN  IF found = {} THEN default ELSE <<clauses[CHOOSE i \in found : TRUE][2]>>
Kept(clauses) == <<Clause(clauses, {"OFFSET"}, <<0>>), Clause(clauses, {"LIMIT", "FETCH FIRST"}, <<>>)>>

(* What the renderer writes without parentheses where SQL needs them: NOT  *)
(* before a predicate on its result, IS NULL after a comparison, a         *)
(* predicate in a bound of BETWEEN, and a minus before a negative number.  *)
Loose == {"not", "isnull", "isnotnull"}
Misread(n) ==
  \/ n[1] \in Predicates \ {"not"} /\ n[2][1] = "not"
  \/ n[1] = "between" /\ (n[3][1] \in Predicates \/ n[4][1] \in Predicates)
  \/ n[1] = "binary" /\ n[2] \in {"=", "<"} /\ (n[4][1] \in Loose \/ n[3][1] = "not")
  \/ n[1] = "negate" /\ n[2][1] = "literal" /\ n[2][2][1] = "int" /\ n[2][2][2] < 0
Readable(e) == ~\E n \in Parts(e) : Misread(n)

(* What the polyglot emitter takes for something else: a dot in a column's *)
(* own name, and the number of a regular expression's group.               *)
Portable(e) == ~\E n \in Parts(e) : n[1] = "extract" \/ (n[1] = "column" /\ Len(n[3]) > 1)

(* EmittersAgree: the text of an expression, read by the precedence of     *)
(* SQL, and the tree of the polyglot emitter mean the expression, in every *)
(* dialect; they refuse the same expressions.  A row limit keeps the same  *)
(* rows in both, whichever clauses a dialect has, and a plan that the      *)
(* polyglot emitter takes has the aliases of the text.                     *)
EmittersAgree ==
  /\ sqlText # NotYet /\ sqlTree # NotYet =>
       IF IsFetch THEN sqlTree # Refusal => Kept(sqlText) = Kept(sqlTree)
       ELSE (sqlText = Refusal) = (sqlTree = Refusal)
  /\ sqlText \notin {NotYet, Refusal} /\ ~IsFetch /\ Readable(query) => Meaning(Read(sqlText)) = Meaning(query)
  /\ sqlTree \notin {NotYet, Refusal} /\ ~IsFetch /\ Portable(query) => Meaning(sqlTree) = Meaning(query)
  /\ \A t \in Threads : at[t] = "done" => BuildNode(plan[t], 1, <<>>) \in {aliases[t], RefusedAliases}
==============================================================================
