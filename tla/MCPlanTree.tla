------------------------------ MODULE MCPlanTree ------------------------------
(* PlanTree on trees of up to MaxNodes nodes over two tables and inline    *)
(* rows, with a reference evaluation of them.                              *)
EXTENDS PlanTree

CONSTANT MaxNodes

Col(name, type, nullable) == <<name, type, nullable>>
Whole(n) == <<"int", n>>
Text == <<"text", 1>>
Null == <<"null", 0>>

Tables == [orders |-> <<Col("a", "int", FALSE), Col("b", "int", TRUE)>>,
           users |-> <<Col("a", "int", FALSE), Col("t", "text", FALSE)>>]
Absent == "z"

RECURSIVE Size(_)
Size(n) == 1 + FoldLeft(LAMBDA sum, k : sum + Size(k), 0, n.kids)
Room == FoldLeft(LAMBDA sum, k : sum + Size(k), 0, pending) < MaxNodes

ColumnsNamed(names, schema) ==
  [i \in DOMAIN names |-> schema[Min({j \in DOMAIN schema : schema[j][1] = names[i]})]]

(* The schemas that the planner gives to the nodes that the validator does *)
(* not derive.                                                             *)
ProjectSchema(names, schema) == ColumnsNamed(names, schema)
AggSchema(groupBy, name, schema) ==
  ColumnsNamed(SelectSeq(groupBy, LAMBDA g : SchemaHas(schema, g)), schema) \o <<Col(name, "int", FALSE)>>
UnionSchema(schemas) ==
  [c \in DOMAIN schemas[1] |->
     Col(schemas[1][c][1], schemas[1][c][2], \E i \in DOMAIN schemas : Len(schemas[i]) >= c /\ schemas[i][c][3])]

AnyNames == {<<>>, <<"t">>, <<"b", "a">>, <<"a", "a">>, <<Absent>>}
Claims(schema) == {schema, Nullified(schema), Tail(schema)}

BuildLeaf ==
  \/ \E s \in DOMAIN Tables : Push(ScanNode(Tables[s], s))
  \/ \E rows \in {<<>>, <<<<Whole(1)>>>>, <<<<Whole(2)>>, <<Whole(1), Whole(1)>>>>} :
        LET schema == <<Col("a", "int", FALSE)>>
        IN  Push(ValuesNode(schema, rows, schema))

BuildUnary ==
  LET input == TopTree(0)
      schema == input.meta
  IN  \/ \E m \in Claims(schema) : Replace(1, FilterNode(m, input, schema[1][1]))
      \/ \E order \in {<<schema[1][1]>>, <<Absent>>} : Replace(1, SortNode(schema, input, order))
      \/ Replace(1, SortNode(Nullified(schema), input, <<>>))
      \/ \E names \in AnyNames :
            AllPresent(names, schema) /\ Replace(1, ProjectNode(ProjectSchema(names, schema), input, names))
      \/ \E names \in AnyNames, out \in {"a", "n"} : Replace(1, AggNode(AggSchema(names, out, schema), input, names, out))
      \/ Replace(1, UnionNode(schema, <<input>>, "all"))

BuildFetch == \E m \in Claims(TopTree(0).meta) : Replace(1, FetchNode(m, TopTree(0), "1"))

BuildBinary ==
  LET left == TopTree(1)
      right == TopTree(0)
  IN  \/ \E type \in {"inner", "left", "right", "full"}, l \in {left.meta, Nullified(left.meta)},
            r \in {right.meta, Nullified(right.meta)}, on \in {<<>>, <<<<"a", "a">>>>, <<<<"b", "a">>>>} :
              Replace(2, JoinNode(l \o r, left, right, type, on))
      \/ \E d \in {"all", "distinct"} : Replace(2, UnionNode(UnionSchema(<<left.meta, right.meta>>), <<left, right>>, d))

(* A pass that reads another table in the place of one, one that drops the *)
(* filters on a table, and one that adds a filter.                         *)
Passes ==
  LET orders == ScanNode(Tables["orders"], "orders")
      users == ScanNode(Tables["users"], "users")
      filtered(n) == FilterNode(n.meta, n, "a")
  IN  {[n \in {orders} |-> users], [n \in {filtered(orders)} |-> orders], [n \in {users} |-> filtered(users)]}

PlanInit == pending = <<>> /\ outputNames = <<>> /\ verdict = "none"

(* Over a tree that the validator refuses only one kind of node is built:  *)
(* the first violation decides.                                            *)
SoundSoFar == \A i \in DOMAIN pending : ValidateNode(pending[i]) = "ok"

PlanNext ==
  \/ Unclosed /\ Room /\ Len(pending) < 2 /\ SoundSoFar /\ BuildLeaf
  \/ Unclosed /\ Room /\ pending # <<>> /\ TopTree(0).meta # <<>> /\ SoundSoFar /\ BuildUnary
  \/ Unclosed /\ Room /\ pending # <<>> /\ TopTree(0).meta # <<>> /\ BuildFetch
  \/ Unclosed /\ Room /\ Len(pending) = 2 /\ SoundSoFar /\ BuildBinary
  \/ Unclosed /\ Len(pending) = 1 /\ Room /\ \E pass \in Passes : RunPass(pass)
  \/ Unclosed /\ \E names \in {<<"x">>, <<"x", "y">>, <<"x", "y", "z">>} : ClosePlan(names)
  \/ Validate

(***************************************************************************)
(* What a tree returns: the set of its rows.  A name is looked up in the   *)
(* declared schema of the input, at its first place.                       *)
(***************************************************************************)
Missing == <<"missing", 0>>
At1(row, i) == IF i \in DOMAIN row THEN row[i] ELSE Missing
Cell(row, schema, name) ==
  IF SchemaHas(schema, name) THEN At1(row, Min({i \in DOMAIN schema : schema[i][1] = name})) ELSE Missing
Cells(row, schema, names) == [i \in DOMAIN names |-> Cell(row, schema, names[i])]

TableRows ==
  [orders |-> {<<Whole(1), Whole(1)>>, <<Whole(2), Null>>}, users |-> {<<Whole(1), Text>>, <<Whole(3), Text>>}]

Nulls(schema) == [i \in DOMAIN schema |-> Null]

JoinRows(n, ls, rs) ==
  LET schemaL == n.kids[1].meta
      schemaR == n.kids[2].meta
      equal(l, r) == \A i \in DOMAIN n.on : Cell(l, schemaL, n.on[i][1]) = Cell(r, schemaR, n.on[i][2])
                                              /\ Cell(l, schemaL, n.on[i][1]) # Null
      loneL == {l \in ls : ~\E r \in rs : equal(l, r)}
      loneR == {r \in rs : ~\E l \in ls : equal(l, r)}
  IN  {l \o r : <<l, r>> \in {p \in ls \X rs : equal(p[1], p[2])}}
        \union (IF n.how \in {"left", "full"} THEN {l \o Nulls(schemaR) : l \in loneL} ELSE {})
        \union (IF n.how \in {"right", "full"} THEN {Nulls(schemaL) \o r : r \in loneR} ELSE {})

RECURSIVE Rows(_)
Rows(n) ==
  LET rows == [i \in DOMAIN n.kids |-> Rows(n.kids[i])]
      schema == n.kids[1].meta
  IN  CASE n.kind = "scan" -> TableRows[n.how]
        [] n.kind = "values" -> Range(n.rows)
        [] n.kind = "filter" -> {r \in rows[1] : Cell(r, schema, n.names[1]) = Whole(1)}
        [] n.kind \in {"sort", "fetch"} -> rows[1]
        [] n.kind = "project" -> {Cells(r, schema, n.names) : r \in rows[1]}
        [] n.kind = "agg" -> {Append(Cells(r, schema, n.names), Whole(1)) : r \in rows[1]}
        [] n.kind = "join" -> JoinRows(n, rows[1], rows[2])
        [] n.kind = "union" -> UNION Range(rows)

Conforms(row, schema) ==
  /\ Len(row) = Len(schema)
  /\ \A i \in DOMAIN row : row[i][1] = schema[i][2] \/ (row[i] = Null /\ schema[i][3])

(* The schema that the planner would give to a node over its children.     *)
TrustedSchemaHolds(n) ==
  LET schema == n.kids[1].meta
  IN  CASE n.kind = "project" -> AllPresent(n.names, schema) /\ n.meta = ProjectSchema(n.names, schema)
        [] n.kind = "values" -> n.meta = n.on
        [] n.kind = "agg" -> n.meta = AggSchema(n.names, n.how, schema)
        [] n.kind = "union" -> n.meta = UnionSchema([i \in DOMAIN n.kids |-> n.kids[i].meta])
        [] OTHER -> TRUE

RECURSIVE SubPlans(_)
SubPlans(n) == {n} \union UNION {SubPlans(n.kids[i]) : i \in DOMAIN n.kids}

(* AcceptedPlansAreTyped: in a plan that the validator accepts, every node *)
(* returns rows of its declared schema: the arity, the types, and a null   *)
(* only in a nullable column, whatever the constructors were given and     *)
(* whatever pass went over the plan.  The schemas of projections,          *)
(* aggregates and unions are the planner's, which nothing checks again.    *)
AcceptedPlansAreTyped ==
  (verdict = "ok" /\ \A n \in SubPlans(pending[1]) : TrustedSchemaHolds(n)) =>
    /\ \A n \in SubPlans(pending[1]) : \A row \in Rows(n) : Conforms(row, n.meta)
    /\ \A row \in Rows(pending[1]) : Len(row) = Len(outputNames)
===============================================================================
