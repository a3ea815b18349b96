---------------------------- MODULE JoinsetPlan ----------------------------
(***************************************************************************)
(* Planning a query over a joinset                                         *)
(* (crates/semstrait-planner/src/data_kind/joinset.rs, with the pruning of *)
(* data_kind/mod.rs and the AdjacencyIndex of the manifest crate).         *)
(*                                                                         *)
(* One behaviour is one call of SemanticPlanner::resolve_entity on a       *)
(* joinset: prune the bindings by the request's equality filters, choose   *)
(* an anchor, walk the relationships breadth first from it, build the join *)
(* tree in that order and rename the joined columns.                       *)
(***************************************************************************)
EXTENDS Naturals, Sequences, FiniteSets

CONSTANTS
  NBindings, NRels,   (* sizes of the joinset                              *)
  DatasetNames,
  Dims,               (* the requested dimensions that columns hold        *)
  Measures,           (* the requested measures, metrics and computed      *)
                      (* dimensions                                        *)
  Columns,            (* the names column mappings may contain             *)
  Sources,            (* the columns each of Measures is computed from     *)
  Namings,            (* the dataset names the bindings may carry          *)
  Mappings,           (* the columns the bindings may map                  *)
  JoinTypes

Bindings == 1..NBindings
Rels == 1..NRels
Requested == Dims \cup Measures
Needed == Dims \cup UNION {Sources[m] : m \in Measures}

ASSUME SizeAssumption ==
  /\ NBindings \in Nat \ {0}
  /\ NRels \in Nat
  /\ IsFiniteSet(Requested)
  /\ Namings \subseteq [Bindings -> DatasetNames]
  /\ Dims \subseteq Columns /\ Sources \in [Measures -> SUBSET Columns]
  /\ Mappings \subseteq [Bindings -> SUBSET Columns]

Relationship == [from : DatasetNames, to : DatasetNames, join_type : JoinTypes]
JoinStep == [binding : Bindings, rel : Rels, reversed : BOOLEAN]
Join == [left : Bindings, right : Bindings, join_type : JoinTypes]

VARIABLES
  (* The compiled joinset and the request; Init fixes them.                *)
  dataset_name, relationships,
  mapped,      (* binding -> the names its column mapping contains         *)
  metaFits,    (* bindings no metadata equality filter excludes            *)
  litFits,     (* bindings no literal equality filter excludes             *)
  (* The planner's own state.                                              *)
  active,      (* PrunedView: the active bindings                          *)
  anchor,      (* 0: not chosen yet                                        *)
  visited, queue,
  current,     (* the binding just popped from queue, 0: none              *)
  edge,        (* 1..NRels: its forward edges, then its reverse edges      *)
  steps,       (* join_order                                               *)
  joined,      (* joined_indices                                           *)
  joins,       (* the join nodes built: the sides of each one's condition  *)
  renamed,     (* the columns the Rename projection provides               *)
  pc

model == <<dataset_name, relationships, mapped, metaFits, litFits>>
bfs == <<visited, queue, current, edge, steps>>
tree == <<joined, joins>>
vars == <<model, active, anchor, bfs, tree, renamed, pc>>

-----------------------------------------------------------------------------
(* AdjacencyIndex::build. dataset_index maps a name to the last binding    *)
(* that carries it; a relationship with an unknown end has no edge.        *)
DatasetIndex(n, b) ==
  /\ b \in Bindings
  /\ dataset_name[b] = n
  /\ \A c \in Bindings : dataset_name[c] = n => c <= b

Forward(a, r, b) ==
  DatasetIndex(relationships[r].from, a) /\ DatasetIndex(relationships[r].to, b)

Adjacent(a, b) == \E r \in Rels : Forward(a, r, b) \/ Forward(b, r, a)

Init ==
  /\ dataset_name \in Namings
  /\ relationships \in [Rels -> Relationship]
  /\ mapped \in Mappings
  /\ metaFits \in SUBSET Bindings
  /\ litFits \in SUBSET Bindings
  /\ active = Bindings
  /\ anchor = 0
  /\ visited = {} /\ queue = <<>> /\ current = 0 /\ edge = 1 /\ steps = <<>>
  /\ joined = <<>> /\ joins = <<>>
  /\ renamed = {}
  /\ pc = "prune_by_metadata"

(* prune_by_metadata and prune_by_literals: keep what fits; no binding     *)
(* left is an error.                                                       *)
Prune(here, fits, next) ==
  /\ pc = here
  /\ IF active \cap fits = {}
       THEN pc' = "error" /\ UNCHANGED active
       ELSE pc' = next /\ active' = active \cap fits
  /\ UNCHANGED <<model, anchor, bfs, tree, renamed>>

PruneByMetadata == Prune("prune_by_metadata", metaFits, "prune_by_literals")
PruneByLiterals == Prune("prune_by_literals", litFits, "resolve")

(* JoinsetPlanner::resolve: the guards before the join is planned.  One    *)
(* active binding needs no join and takes the single-dataset plan.         *)
ResolveGuards ==
  /\ pc = "resolve"
  /\ pc' = IF NRels = 0 /\ Cardinality(active) > 1 THEN "error"
           ELSE IF Cardinality(active) = 1 THEN "single"
           ELSE "find_anchor"
  /\ UNCHANGED <<model, active, anchor, bfs, tree, renamed>>

(* find_anchor_index: max_by_key keeps the last of the maxima.             *)
Coverage(b) == Cardinality(mapped[b] \cap Requested)

IsAnchor(a) ==
  /\ a \in active
  /\ \A b \in active : Coverage(b) <= Coverage(a) /\ (b > a => Coverage(b) < Coverage(a))

FindAnchor(a) ==
  /\ pc = "find_anchor"
  /\ IsAnchor(a)
  /\ anchor' = a
  /\ visited' = {a}
  /\ queue' = <<a>>
  /\ pc' = "bfs"
  /\ UNCHANGED <<model, active, current, edge, steps, tree, renamed>>

-----------------------------------------------------------------------------
(* bfs_join_order.                                                         *)

(* A slip: front() for pop_front().                                        *)
PeekFront ==
  /\ pc = "bfs" /\ current = 0 /\ queue # <<>>
  /\ current' = Head(queue)
  /\ queue' = queue
  /\ edge' = 1
  /\ UNCHANGED <<model, active, anchor, visited, steps, tree, renamed, pc>>

PopFront ==
  /\ pc = "bfs" /\ current = 0 /\ queue # <<>>
  /\ current' = Head(queue)
  /\ queue' = Tail(queue)
  /\ edge' = 1
  /\ UNCHANGED <<model, active, anchor, visited, steps, tree, renamed, pc>>

(* A slip: only the forward edges are walked.                              *)
EdgeToForward(b, r, rev) ==
  edge <= NRels /\ r = edge /\ rev = FALSE /\ Forward(current, r, b)

(* The neighbour that the edge at position `edge` leads to, if any.        *)
EdgeTo(b, r, rev) ==
  \/ /\ edge <= NRels
     /\ r = edge /\ rev = FALSE /\ Forward(current, r, b)
  \/ /\ edge > NRels
     /\ r = edge - NRels /\ rev = TRUE /\ Forward(b, r, current)

Enterable(b) == b \notin visited /\ b \in active

Visit(b, r, rev) ==
  /\ pc = "bfs" /\ current # 0 /\ edge <= 2 * NRels
  /\ EdgeTo(b, r, rev)
  /\ Enterable(b)
  /\ visited' = visited \cup {b}
  /\ steps' = Append(steps, [binding |-> b, rel |-> r, reversed |-> rev])
  /\ queue' = Append(queue, b)
  /\ edge' = edge + 1
  /\ UNCHANGED <<model, active, anchor, current, tree, renamed, pc>>

PassEdge ==
  /\ pc = "bfs" /\ current # 0 /\ edge <= 2 * NRels
  /\ ~ \E b \in Bindings, r \in Rels, rev \in BOOLEAN : EdgeTo(b, r, rev) /\ Enterable(b)
  /\ edge' = edge + 1
  /\ UNCHANGED <<model, active, anchor, visited, queue, current, steps, tree, renamed, pc>>

EdgesDone ==
  /\ pc = "bfs" /\ current # 0 /\ edge > 2 * NRels
  /\ current' = 0
  /\ UNCHANGED <<model, active, anchor, visited, queue, edge, steps, tree, renamed, pc>>

BfsDone ==
  /\ pc = "bfs" /\ current = 0 /\ queue = <<>>
  /\ joined' = <<anchor>>
  /\ pc' = "join"
  /\ UNCHANGED <<model, active, anchor, bfs, joins, renamed>>

-----------------------------------------------------------------------------
(* build_join_plan.                                                        *)

(* A slip: the reverse direction of a step is forgotten.                   *)
JoinNextForward ==
  /\ pc = "join" /\ Len(joins) < Len(steps)
  /\ LET step == steps[Len(joins) + 1]
         rel == relationships[step.rel] IN
     \E other \in Bindings :
       /\ DatasetIndex(rel.from, other)
       /\ joins' = Append(joins, [left |-> other, right |-> step.binding,
                                  join_type |-> rel.join_type])
       /\ joined' = Append(joined, step.binding)
  /\ UNCHANGED <<model, active, anchor, bfs, renamed, pc>>

(* One turn of `for step in join_order`: which bindings the condition      *)
(* relates, left and right in the relationship's own direction.            *)
JoinNext ==
  /\ pc = "join" /\ Len(joins) < Len(steps)
  /\ LET step == steps[Len(joins) + 1]
         rel == relationships[step.rel] IN
     \E other \in Bindings :
       /\ DatasetIndex(IF step.reversed THEN rel.to ELSE rel.from, other)
       /\ joins' = Append(joins,
            [left |-> IF step.reversed THEN step.binding ELSE other,
             right |-> IF step.reversed THEN other ELSE step.binding,
             join_type |-> rel.join_type])
       /\ joined' = Append(joined, step.binding)
  /\ UNCHANGED <<model, active, anchor, bfs, renamed, pc>>

(* mapping_for_field over the joined bindings: a dimension no joined       *)
(* binding maps is an error, a source column none maps is left out.        *)
Provided == UNION {mapped[joined[i]] : i \in 1..Len(joined)}

Rename ==
  /\ pc = "join" /\ Len(joins) = Len(steps)
  /\ IF Dims \subseteq Provided
       THEN renamed' = Needed \cap Provided /\ pc' = "planned"
       ELSE pc' = "error" /\ UNCHANGED renamed
  /\ UNCHANGED <<model, active, anchor, bfs, tree>>

(* A measure or metric does not decompose over a scan's columns, or is not *)
(* compiled: build_scan and the aggregate stage return an error.           *)
PlanFails ==
  /\ pc = "join"
  /\ pc' = "error"
  /\ UNCHANGED <<model, active, anchor, bfs, tree, renamed>>

Next ==
  \/ PruneByMetadata \/ PruneByLiterals \/ ResolveGuards
  \/ \E a \in Bindings : FindAnchor(a)
  \/ PopFront \/ PassEdge \/ EdgesDone \/ BfsDone
  \/ \E b \in Bindings, r \in Rels, rev \in BOOLEAN : Visit(b, r, rev)
  \/ JoinNext \/ Rename \/ PlanFails

(* Planning is a plain computation: it keeps taking steps until it ends.   *)
Spec == Init /\ [][Next]_vars /\ WF_vars(Next)

-----------------------------------------------------------------------------
(* Type invariant.                                                         *)
TypeOK ==
  /\ dataset_name \in [Bindings -> DatasetNames]
  /\ relationships \in [Rels -> Relationship]
  /\ mapped \in [Bindings -> SUBSET Columns]
  /\ metaFits \subseteq Bindings
  /\ litFits \subseteq Bindings
  /\ active \subseteq Bindings
  /\ anchor \in Bindings \cup {0}
  /\ visited \subseteq Bindings
  /\ queue \in Seq(Bindings)
  /\ current \in Bindings \cup {0}
  /\ edge \in 1..(2 * NRels + 1)
  /\ steps \in Seq(JoinStep)
  /\ joined \in Seq(Bindings)
  /\ joins \in Seq(Join)
  /\ renamed \subseteq Columns
  /\ pc \in {"prune_by_metadata", "prune_by_literals", "resolve", "find_anchor",
            "bfs", "join", "planned", "single", "error"}

(* The bindings in the join tree before the k-th step of join_order.       *)
Before(k) == {anchor} \cup {steps[i].binding : i \in 1..(k - 1)}

(* The relationship of step s leads from its binding to the other one.     *)
Links(s, other) == IF s.reversed THEN Forward(s.binding, s.rel, other)
                                 ELSE Forward(other, s.rel, s.binding)

(* The join tree can be built in the order the walk found: each step adds  *)
(* a new, active binding, over a relationship whose other end is in the    *)
(* tree already.  That other end is what build_join_plan looks up by name  *)
(* (dataset_index[&rel.to] or [&rel.from]) when it builds the condition.   *)
StepsAttach ==
  \A k \in 1..Len(steps) :
    /\ steps[k].binding \in active \ Before(k)
    /\ \E other \in Before(k) : Links(steps[k], other)

(* Every join condition compares columns of the step's own scan with       *)
(* columns of a dataset that is in the tree below it.                      *)
ConditionsInScope ==
  \A k \in 1..Len(joins) :
    LET ends == {joins[k].left, joins[k].right} IN
    /\ steps[k].binding \in ends
    /\ ends \ {steps[k].binding} \subseteq Before(k)
    /\ ends # {steps[k].binding}

(* S is closed under the relationships, among the active bindings.         *)
Closed(S) == \A a \in S, b \in active : Adjacent(a, b) => b \in S

(* a and b are in one connected component of the active bindings.          *)
Connected(a, b) == \A S \in SUBSET active : a \in S /\ Closed(S) => b \in S

(* bfs_join_order finds exactly the anchor's component: no active dataset  *)
(* that relationships link to the anchor, in either direction and over any *)
(* number of hops, is left out of the join, and no other gets in.          *)
JoinsComponent ==
  pc \in {"join", "planned"} =>
    Before(Len(steps) + 1) = {b \in active : Connected(anchor, b)}

(* Planning comes to an end.                                               *)
Terminates == <>(pc \in {"planned", "single", "error"})

-----------------------------------------------------------------------------
(* What the design says.                                                   *)

(* The anchor side is the plan's left; over a reversed relationship the    *)
(* planner "substitutes the mirror form (Left <-> Right) at plan           *)
(* emission".                                                              *)
Mirror(jt) == IF jt = "left" THEN "right" ELSE IF jt = "right" THEN "left" ELSE jt

ReversedJoinsMirrored ==
  \A k \in 1..Len(joins) :
    steps[k].reversed =>
      joins[k].join_type = Mirror(relationships[steps[k].rel].join_type)
=============================================================================
