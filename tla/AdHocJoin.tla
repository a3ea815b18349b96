----------------------------- MODULE AdHocJoin -----------------------------
(***************************************************************************)
(* A query without `from` (SemanticPlanner::plan_ad_hoc): the entities     *)
(* that cover the requested fields are chosen greedily over the manifest's *)
(* relationship graph (entity_resolver.rs), and their plans are joined     *)
(* (ad_hoc_join.rs).                                                       *)
(*                                                                         *)
(* The compiler builds the graph first; the query then finds it finished.  *)
(* Entities are naturals in the manifest's order, relationships their      *)
(* indices.                                                                *)
(***************************************************************************)
EXTENDS RelationshipGraph, FiniteSets

CONSTANTS
  Fields,      (* the requested fields                                     *)
  Interfaces   (* the interfaces the entities may have                     *)

ASSUME FieldsAssumption ==
  /\ IsFiniteSet(Fields) /\ Fields # {}
  /\ Interfaces \subseteq [group_by : [Entities -> SUBSET Fields],
                           measures : [Entities -> SUBSET Fields],
                           metrics : [Entities -> SUBSET Fields],
                           kind_rank : [Entities -> {0, 1}]]

VARIABLES
  iface,       (* the requested fields each entity offers, as dimension or *)
               (* key, as measure, as metric, and its kind rank.  <<>>: no *)
               (* request yet                                              *)
  candidates,  (* the scored entities not selected yet                     *)
  selected,    (* the matched entities, the anchor first                   *)
  join_path,   (* the relationships of the match                           *)
  pending,     (* positions in selected that compute_join_order has still  *)
               (* to connect                                               *)
  steps,       (* join_order                                               *)
  joins,       (* for each join built, the entity that was planned for it  *)
  pc

matchVars == <<candidates, selected, join_path>>
orderVars == <<pending, steps>>
vars == <<graphVars, iface, matchVars, orderVars, joins, pc>>

JoinStep == [entity : Entities, rel : Rels, reversed : BOOLEAN]

Init ==
  /\ GraphInit
  /\ iface = <<>>
  /\ candidates = {} /\ selected = <<>> /\ join_path = {}
  /\ pending = {} /\ steps = <<>> /\ joins = <<>>
  /\ pc = "compile"

-----------------------------------------------------------------------------
(* MatchedEntity.                                                          *)
agg_coverage(e) == Cardinality(iface.measures[e]) + Cardinality(iface.metrics[e])
group_by_coverage(e) == Cardinality(iface.group_by[e])
total_coverage(e) == agg_coverage(e) + group_by_coverage(e)
all_covered(e) == iface.group_by[e] \cup iface.measures[e] \cup iface.metrics[e]

(* The order of the candidates; the sort is stable.                        *)
Precedes(e, f) ==
  \/ agg_coverage(e) > agg_coverage(f)
  \/ /\ agg_coverage(e) = agg_coverage(f)
     /\ \/ group_by_coverage(e) > group_by_coverage(f)
        \/ /\ group_by_coverage(e) = group_by_coverage(f)
           /\ \/ iface.kind_rank[e] < iface.kind_rank[f]
              \/ iface.kind_rank[e] = iface.kind_rank[f] /\ e < f

Covered == UNION {all_covered(selected[i]) : i \in 1..Len(selected)}
Remaining == Fields \ Covered

(* The compiler's part; the manifest is complete before any query.         *)
Compile ==
  /\ pc = "compile"
  /\ GraphNext
  /\ UNCHANGED <<iface, matchVars, orderVars, joins, pc>>

(* A request arrives.                                                      *)
Request(offered) ==
  /\ pc = "compile" /\ GraphDone
  /\ iface' = offered
  /\ pc' = "score"
  /\ UNCHANGED <<graphVars, matchVars, orderVars, joins>>

(* find_covering_entities, steps 1 and 2: score the entities; the best one *)
(* is the anchor, and the whole match if its coverage is the request's     *)
(* length.                                                                 *)
Score ==
  /\ pc = "score"
  /\ LET scored == {e \in Entities : total_coverage(e) > 0} IN
     \/ /\ scored = {}
        /\ pc' = "no_cover"
        /\ UNCHANGED <<candidates, selected>>
     \/ \E best \in scored :
          /\ \A e \in scored \ {best} : Precedes(best, e)
          /\ selected' = <<best>>
          /\ candidates' = scored \ {best}
          /\ pc' = IF total_coverage(best) = Cardinality(Fields) THEN "matched" ELSE "cover"
  /\ UNCHANGED <<graphVars, iface, join_path, orderVars, joins>>

(* The selected entity, if any, whose path to c is taken: the first that   *)
(* has one, in either direction.                                           *)
PathTo(c, i) ==
  /\ i \in 1..Len(selected)
  /\ paths[selected[i]][c] # <<>> \/ paths[c][selected[i]] # <<>>
  /\ \A j \in 1..(i - 1) : paths[selected[j]][c] = <<>> /\ paths[c][selected[j]] = <<>>

NewFields(c) == Cardinality(all_covered(c) \cap Remaining)

Eligible(c) == NewFields(c) > 0 /\ \E i \in 1..Len(selected) : PathTo(c, i)

(* The relationships on the path between selected entity i and c.          *)
ShortestPath(i, c) == IF paths[selected[i]][c] # <<>> THEN paths[selected[i]][c]
                                                      ELSE paths[c][selected[i]]

(* A slip: only the last relationship of the path is kept.                 *)
LastHop(i, c) == {ShortestPath(i, c)[Len(ShortestPath(i, c))]}

PathRels(i, c) == {ShortestPath(i, c)[k] : k \in 1..Len(ShortestPath(i, c))}

(* Step 3: the first candidate, in their order, with the most new fields   *)
(* among those with a path to an entity that is selected.                  *)
Select(c) ==
  /\ pc = "cover" /\ Remaining # {}
  /\ c \in candidates /\ Eligible(c)
  /\ \A d \in candidates \ {c} : Eligible(d) =>
       \/ NewFields(d) < NewFields(c)
       \/ NewFields(d) = NewFields(c) /\ Precedes(c, d)
  /\ \E i \in 1..Len(selected) :
       /\ PathTo(c, i)
       /\ join_path' = join_path \cup PathRels(i, c)
  /\ selected' = Append(selected, c)
  /\ candidates' = candidates \ {c}
  /\ UNCHANGED <<graphVars, iface, orderVars, joins, pc>>

NoCover ==
  /\ pc = "cover" /\ Remaining # {}
  /\ \A c \in candidates : ~Eligible(c)
  /\ pc' = "no_cover"
  /\ UNCHANGED <<graphVars, iface, matchVars, orderVars, joins>>

CoverDone ==
  /\ pc = "cover" /\ Remaining = {}
  /\ pc' = "matched"
  /\ UNCHANGED <<graphVars, iface, matchVars, orderVars, joins>>

-----------------------------------------------------------------------------
(* plan_ad_hoc, one entity: reclassify_fields rejects a field its          *)
(* interface does not have; otherwise the query goes on with `from`.       *)
PlanSingle ==
  /\ pc = "matched" /\ Len(selected) = 1
  /\ pc' = IF Fields \subseteq all_covered(selected[1]) THEN "single" ELSE "not_in_interface"
  /\ UNCHANGED <<graphVars, iface, matchVars, orderVars, joins>>

Others == 2..Len(selected)

PlanJoin ==
  /\ pc = "matched" /\ Len(selected) > 1
  /\ pending' = Others
  /\ pc' = "order"
  /\ UNCHANGED <<graphVars, iface, matchVars, steps, joins>>

Joined == {selected[1]} \cup {steps[k].entity : k \in 1..Len(steps)}

(* A slip: relationships are followed in their own direction only.         *)
ConnectsForward(e, r, rev) ==
  r \in join_path /\ rev = FALSE /\ relationships[r].from \in Joined /\ relationships[r].to = e

Connects(e, r, rev) ==
  /\ r \in join_path
  /\ \/ rev = FALSE /\ relationships[r].from \in Joined /\ relationships[r].to = e
     \/ rev = TRUE /\ relationships[r].to \in Joined /\ relationships[r].from = e

Connecting(e) == {r \in join_path : \E rev \in BOOLEAN : Connects(e, r, rev)}

(* The first entity of the match that some relationship of the join path   *)
(* links to an entity joined already, over the first such relationship.    *)
OrderNext(i, r, rev) ==
  /\ pc = "order"
  /\ IsLeast(i, {j \in pending : Connecting(selected[j]) # {}})
  /\ IsLeast(r, Connecting(selected[i]))
  /\ Connects(selected[i], r, rev)
  /\ steps' = Append(steps, [entity |-> selected[i], rel |-> r, reversed |-> rev])
  /\ pending' = pending \ {i}
  /\ UNCHANGED <<graphVars, iface, matchVars, joins, pc>>

Unreachable ==
  /\ pc = "order" /\ pending # {}
  /\ \A j \in pending : Connecting(selected[j]) = {}
  /\ pc' = "unreachable"
  /\ UNCHANGED <<graphVars, iface, matchVars, orderVars, joins>>

OrderDone ==
  /\ pc = "order" /\ pending = {}
  /\ pc' = "join"
  /\ UNCHANGED <<graphVars, iface, matchVars, orderVars, joins>>

(* entity_requests[step_idx + 1]; the requests stand in the order of the   *)
(* match, steps are counted from 1 here.                                   *)
RequestOfStep(k) == selected[k + 1]

(* build_ad_hoc_join_plan, one turn of the loop: the request planned for a *)
(* step is checked, planned and joined.                                    *)
JoinNext ==
  /\ pc = "join" /\ Len(joins) < Len(steps)
  /\ joins' = Append(joins, RequestOfStep(Len(joins) + 1))
  /\ UNCHANGED <<graphVars, iface, matchVars, orderVars, pc>>

FinalProjection ==
  /\ pc = "join" /\ Len(joins) = Len(steps)
  /\ pc' = "planned"
  /\ UNCHANGED <<graphVars, iface, matchVars, orderVars, joins>>

(* Planning an entity, the anchor first, may be refused by the constraint  *)
(* validator, the kind planner or the additivity resolver, and the filters *)
(* or the optimizer may refuse the finished join.                          *)
PlanFails ==
  /\ pc = "join"
  /\ pc' = "error"
  /\ UNCHANGED <<graphVars, iface, matchVars, orderVars, joins>>

Next ==
  \/ Compile
  \/ \E offered \in Interfaces : Request(offered)
  \/ Score
  \/ \E c \in Entities : Select(c)
  \/ NoCover \/ CoverDone \/ PlanSingle \/ PlanJoin
  \/ \E i \in 1..Len(selected), r \in Rels, rev \in BOOLEAN : OrderNext(i, r, rev)
  \/ Unreachable \/ OrderDone \/ JoinNext \/ FinalProjection \/ PlanFails

(* Compiling and planning are plain computations: they keep taking steps.  *)
Spec == Init /\ [][Next]_vars /\ WF_vars(Next)

-----------------------------------------------------------------------------
(* Type invariant.                                                         *)
TypeOK ==
  /\ GraphTypeOK
  /\ pc = "compile" \/ iface \in Interfaces
  /\ candidates \subseteq Entities
  /\ selected \in Seq(Entities)
  /\ join_path \subseteq Rels
  /\ pending \subseteq 1..Len(selected)
  /\ steps \in Seq(JoinStep)
  /\ joins \in Seq(Entities)
  /\ pc \in {"compile", "score", "cover", "matched", "no_cover", "single", "not_in_interface",
             "order", "unreachable", "join", "planned", "error"}

(* The join path holds the match together: from the anchor its             *)
(* relationships lead to every entity selected, the ones that are not part *)
(* of the match in between included.                                       *)
MatchConnected ==
  \A i \in 1..Len(selected) : selected[i] \in ReachOver(join_path, selected[1])

(* No entity is joined for nothing: each one offers a field that none      *)
(* selected before it has, and none is selected twice.                     *)
SelectionEarns ==
  \A i \in 2..Len(selected) :
    all_covered(selected[i]) \ UNION {all_covered(selected[j]) : j \in 1..(i - 1)} # {}

(* A set of entities covers the request: they offer every field, and       *)
(* relationships, over any number of entities and in either direction,     *)
(* lead from each to each.                                                 *)
Cover(S) ==
  /\ Fields \subseteq UNION {all_covered(e) : e \in S}
  /\ \A e, f \in S : f \in ReachOver(Rels, e)

(* A query is refused for want of a cover only if no cover has the anchor, *)
(* the entity that scored best: once it is chosen, no later choice loses a *)
(* cover.  The choice of the anchor itself may (CoverFound).               *)
RefusalJustified ==
  pc = "no_cover" =>
    \A S \in SUBSET Entities : Cover(S) => selected # <<>> /\ selected[1] \notin S

(* Each join step links its entity to one that the tree holds already, by  *)
(* a relationship of the join path read in the right direction.            *)
StepsAttach ==
  \A k \in 1..Len(steps) :
    LET s == steps[k]
        before == {selected[1]} \cup {steps[j].entity : j \in 1..(k - 1)}
        rel == relationships[s.rel] IN
    /\ s.rel \in join_path
    /\ s.entity \notin before
    /\ IF s.reversed THEN rel.from = s.entity /\ rel.to \in before
                     ELSE rel.to = s.entity /\ rel.from \in before

(* The plan that is built reads every entity of the match exactly once and *)
(* between them they offer every requested field.                          *)
PlanComplete ==
  pc = "planned" =>
    /\ {joins[k] : k \in 1..Len(joins)} = {selected[i] : i \in 2..Len(selected)}
    /\ Len(joins) + 1 = Cardinality({selected[i] : i \in 1..Len(selected)})
    /\ Fields \subseteq UNION {all_covered(e) : e \in Joined}

(* compute_join_order gives up only if the selected entities alone do not  *)
(* hang together over the join path; its order of trying them loses none.  *)
GivesUpJustified ==
  pc = "unreachable" =>
    LET chosen == {selected[i] : i \in 1..Len(selected)}
        inside == {r \in join_path : {relationships[r].from, relationships[r].to} \subseteq chosen}
    IN  ~(chosen \subseteq ReachOver(inside, selected[1]))

(* AnswerSound: what the query gets is one connected join.  The join path  *)
(* holds the match together, no entity is joined for nothing, every step   *)
(* attaches an entity to one that is joined already, and the plan reads    *)
(* each entity once and has every field.                                   *)
AnswerSound == TypeOK /\ MatchConnected /\ SelectionEarns /\ StepsAttach /\ PlanComplete

(* RefusalsJustified: a query is refused only if no cover of its fields    *)
(* has the anchor, or if the match has no join order over the join path    *)
(* that was collected for it.                                              *)
RefusalsJustified == RefusalJustified /\ GivesUpJustified

-----------------------------------------------------------------------------
(* What comments say.                                                      *)

(* CoverFound: find_covering_entities is to "find the set of entities that *)
(* cover the requested fields": a request that is refused has no cover.    *)
(* (Refuted: the entity that scores best is the anchor, and a cover that   *)
(* cannot be joined to it is not tried.)                                   *)
CoverFound ==
  pc = "no_cover" => \A S \in SUBSET Entities : ~Cover(S)

(* "entity_requests[0] is anchor, steps are 1-indexed": the request a step *)
(* plans is its own entity's.                                              *)
StepPlansItsEntity == \A k \in 1..Len(joins) : joins[k] = steps[k].entity
=============================================================================
