------------------------------- MODULE PlanTree -------------------------------
(***************************************************************************)
(* The plan tree of the IR (crates/semstrait-ir/src/plan): the nodes and   *)
(* their constructors, the rewrite of a tree from its leaves up, and the   *)
(* validator.  A constructor trusts its caller: a node holds whatever      *)
(* schema, names and keys it is given, and only the validator looks at     *)
(* them.  Expressions are the columns that they name.  The annotations of  *)
(* a node, which nothing reads, and its identity are left out.             *)
(***************************************************************************)
EXTENDS Naturals, Sequences, FiniteSets, FiniteSetsExt, SequencesExt

(* The trees that are built and have no parent yet, the names of the       *)
(* closed plan's columns, and "none", "ok" or the first violation.         *)
VARIABLES pending, outputNames, verdict

planVars == <<pending, outputNames, verdict>>

(* A schema is a sequence of columns <<name, type, nullable>>.             *)
SchemaNames(schema) == [i \in DOMAIN schema |-> schema[i][1]]
SchemaHas(schema, name) == name \in Range(SchemaNames(schema))

(* One record for the nine variants; a field that a variant has not is     *)
(* empty.                                                                  *)
PlanNode(kind, meta, names, on, how, rows, kids) ==
  [kind |-> kind, meta |-> meta, names |-> names, on |-> on, how |-> how, rows |-> rows, kids |-> kids]

ScanNode(meta, source) == PlanNode("scan", meta, <<>>, <<>>, source, <<>>, <<>>)
(* The schema of inline rows stands in the place of the keys of a join.    *)
ValuesNode(meta, rows, schema) == PlanNode("values", meta, <<>>, schema, "", rows, <<>>)
FilterNode(meta, input, column) == PlanNode("filter", meta, <<column>>, <<>>, "", <<>>, <<input>>)
ProjectNode(meta, input, names) == PlanNode("project", meta, names, <<>>, "", <<>>, <<input>>)
AggNode(meta, input, groupBy, name) == PlanNode("agg", meta, groupBy, <<>>, name, <<>>, <<input>>)
JoinNode(meta, left, right, joinType, on) == PlanNode("join", meta, <<>>, on, joinType, <<>>, <<left, right>>)
UnionNode(meta, inputs, distinct) == PlanNode("union", meta, <<>>, <<>>, distinct, <<>>, inputs)
SortNode(meta, input, order) == PlanNode("sort", meta, order, <<>>, "", <<>>, <<input>>)
FetchNode(meta, input, limit) == PlanNode("fetch", meta, <<>>, <<>>, limit, <<>>, <<input>>)

RefusedPlan == PlanNode("refused", <<>>, <<>>, <<>>, "", <<>>, <<>>)

(* with_new_children: what is no child stays as it was, the schema too.    *)
WithNewChildren(n, kids) ==
  IF n.kind # "union" /\ Len(kids) # Len(n.kids) THEN RefusedPlan ELSE [n EXCEPT !.kids = kids]

RECURSIVE TransformPlan(_, _)
TransformPlan(n, pass) ==
  LET kids == [i \in DOMAIN n.kids |-> TransformPlan(n.kids[i], pass)]
  IN  IF \E i \in DOMAIN kids : kids[i].kind = "refused" THEN RefusedPlan
      ELSE LET rebuilt == WithNewChildren(n, kids)
           IN  IF rebuilt \in DOMAIN pass THEN pass[rebuilt] ELSE rebuilt

(***************************************************************************)
(* The validator.                                                          *)
(***************************************************************************)
(* The side of an outer join whose rows may be absent becomes nullable.    *)
Nullified(schema) == [i \in DOMAIN schema |-> <<schema[i][1], schema[i][2], TRUE>>]

(* As WidenForJoin with the two sides exchanged.                           *)
WidenOtherSide(isLeft, schema, joinType) ==
  IF joinType = "full" \/ (joinType = "left" /\ isLeft) \/ (joinType = "right" /\ ~isLeft)
  THEN Nullified(schema) ELSE schema

WidenForJoin(isLeft, schema, joinType) ==
  IF joinType = "full" \/ (joinType = "left" /\ ~isLeft) \/ (joinType = "right" /\ isLeft)
  THEN Nullified(schema) ELSE schema

StructurallyCompatible(s, t) == Len(s) = Len(t) /\ \A i \in DOMAIN s : s[i][2] = t[i][2]

CheckPassThrough(n) == IF n.kids[1].meta = n.meta THEN "ok" ELSE "pass_through_schema"

AllPresent(names, schema) == \A i \in DOMAIN names : SchemaHas(schema, names[i])

CheckValues(n) == IF \A i \in DOMAIN n.rows : Len(n.rows[i]) = Len(n.on) THEN "ok" ELSE "values_row_arity"

CheckAgg(n) ==
  IF ~AllPresent(n.names, n.kids[1].meta) THEN "dangling"
  ELSE IF ~IsInjective(Append(n.names, n.how)) THEN "agg_duplicate_name" ELSE "ok"

CheckJoin(n) ==
  LET left == n.kids[1].meta
      right == n.kids[2].meta
  IN  IF n.on = <<>> THEN "join_empty_keys"
      ELSE IF \E i \in DOMAIN n.on : ~(SchemaHas(left, n.on[i][1]) /\ SchemaHas(right, n.on[i][2])) THEN "dangling"
      ELSE IF n.meta # WidenForJoin(TRUE, left, n.how) \o WidenForJoin(FALSE, right, n.how) THEN "join_nullability"
      ELSE "ok"

CheckUnion(n) ==
  CASE Len(n.kids) < 2 -> "union_arity"
    [] \E i \in 2 .. Len(n.kids) : ~StructurallyCompatible(n.kids[1].meta, n.kids[i].meta) -> "union_schema_mismatch"
    [] OTHER -> "ok"

CheckSort(n) == IF AllPresent(n.names, n.kids[1].meta) THEN CheckPassThrough(n) ELSE "dangling"

(* The rule of a node, given that its children have passed.                *)
CheckNode(n) ==
  CASE n.kind = "scan" -> "ok"
    [] n.kind = "values" -> CheckValues(n)
    [] n.kind \in {"filter", "fetch"} -> CheckPassThrough(n)
    [] n.kind = "project" -> IF n.names = <<>> THEN "project_empty" ELSE "ok"
    [] n.kind = "agg" -> CheckAgg(n)
    [] n.kind = "join" -> CheckJoin(n)
    [] n.kind = "union" -> CheckUnion(n)
    [] n.kind = "sort" -> CheckSort(n)

(* validate_node: the children in order, then the node; first wins.        *)
RECURSIVE ValidateNode(_)
ValidateNode(n) ==
  LET bad == {i \in DOMAIN n.kids : ValidateNode(n.kids[i]) # "ok"}
  IN  IF bad = {} THEN CheckNode(n) ELSE ValidateNode(n.kids[Min(bad)])

ValidatePlan(root, names) ==
  IF Len(names) # Len(root.meta) THEN "output_names_arity" ELSE ValidateNode(root)

(***************************************************************************)
(* Actions: a leaf or a node over the last trees, a pass over the plan,    *)
(* and the validation of it.                                               *)
(***************************************************************************)
Unclosed == verdict = "none" /\ outputNames = <<>>
TopTree(i) == pending[Len(pending) - i]

Push(leaf) ==
  /\ pending' = Append(pending, leaf)
  /\ UNCHANGED <<outputNames, verdict>>

(* n stands in the place of the last k trees.                              *)
Replace(k, n) ==
  /\ pending' = Append(SubSeq(pending, 1, Len(pending) - k), n)
  /\ UNCHANGED <<outputNames, verdict>>

RunPass(pass) ==
  /\ pending # <<>>
  /\ Replace(1, TransformPlan(TopTree(0), pass))

(* SemanticPlan::new                                                       *)
ClosePlan(names) ==
  /\ Len(pending) = 1
  /\ outputNames' = names
  /\ UNCHANGED <<pending, verdict>>

Validate ==
  /\ verdict = "none" /\ outputNames # <<>>
  /\ verdict' = ValidatePlan(pending[1], outputNames)
  /\ UNCHANGED <<pending, outputNames>>
===============================================================================
