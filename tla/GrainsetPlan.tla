--------------------------- MODULE GrainsetPlan ---------------------------
(***************************************************************************)
(* The plan of a grainset: datasets that hold the same facts at different  *)
(* temporal grains (crates/semstrait-planner/src/data_kind/grainset.rs).   *)
(* One behaviour is one call of GrainsetPlanner::resolve: datasets are     *)
(* pruned, grouped by native grain, every measure is given to one group,   *)
(* and each dataset with a measure becomes a branch of a UNION ALL, or the *)
(* only one becomes the whole plan.  The layers within a branch are those  *)
(* of LayeredPlan.                                                         *)
(***************************************************************************)
EXTENDS Naturals, FiniteSets, SequencesExt

CONSTANT NoGrain      (* no temporal dimension, or no grain for it         *)

Grains == {"minute", "hour", "day", "week", "month", "quarter", "year"}

(* TemporalGrain::coarseness; None sorts with the finest.                  *)
Coarseness(g) ==
  CASE g = "hour" -> 1 [] g = "day" -> 2 [] g = "week" -> 3 [] g = "month" -> 4
    [] g = "quarter" -> 5 [] g = "year" -> 6 [] OTHER -> 0

VARIABLES
  gq,           (* the interface, the bindings and the request             *)
  eligible,     (* the bindings that are left after pruning                *)
  groups,       (* sorted_groups: the native grains, coarsest first        *)
  mtg,          (* measure_to_group                                        *)
  todo,         (* the positions in the request still to be assigned       *)
  gplan,        (* the plan: how, and the branches                         *)
  gpc

gvars == <<gq, eligible, groups, mtg, todo, gplan, gpc>>

(* gq.temporal: there is a temporal dimension; gq.finest: the finest grain *)
(* its interface declares; gq.parts: the measures of each metric; gq.aggs: *)
(* the function of each measure; gq.metadata: metadata dimensions; a       *)
(* binding has a grain and the names its column mapping has.               *)
NoQuery ==
  [temporal |-> FALSE, finest |-> NoGrain, parts |-> <<>>, aggs |-> <<>>, metadata |-> {}, bindings |-> <<>>,
   dimensions |-> <<>>, measures |-> <<>>, grain |-> NoGrain]
NoPlan == [how |-> "none", branches |-> {}, merge |-> <<>>]

Idle ==
  /\ gq = NoQuery /\ eligible = {} /\ groups = <<>> /\ mtg = <<>> /\ todo = {}
  /\ gplan = NoPlan /\ gpc = "idle"

Maps(b) == gq.bindings[b].maps

(* resolve_native_grain_binding, and_then over the temporal dimension.     *)
Native(b) ==
  IF ~gq.temporal THEN NoGrain
  ELSE IF gq.bindings[b].grain # NoGrain THEN gq.bindings[b].grain ELSE gq.finest

(* extract_metric_constituents; a measure stands for itself.               *)
Parts(m) == IF m \in DOMAIN gq.parts THEN gq.parts[m] ELSE {m}

(* partition_dimensions_iface                                              *)
RegularDims == ToSet(gq.dimensions) \ gq.metadata

(* classify_requested_measures: measures before metrics, each in order.    *)
IsMetric(p) == gq.measures[p] \in DOMAIN gq.parts
ComesBefore(p, k) == IF IsMetric(p) = IsMetric(k) THEN p < k ELSE IsMetric(k)

-----------------------------------------------------------------------------
(* The call.                                                               *)
GResolve(q) ==
  /\ gpc = "idle"
  /\ gq' = q
  /\ gpc' = IF q.bindings = <<>> THEN "refused" ELSE "prune"
  /\ UNCHANGED <<eligible, groups, mtg, todo, gplan>>

(* As TooCoarse with the comparison the other way round.                   *)
TooFine(b) ==
  /\ gq.grain # NoGrain /\ gq.temporal /\ Native(b) # NoGrain
  /\ Coarseness(Native(b)) < Coarseness(gq.grain)

(* prune_datasets: a dataset coarser than the request cannot be split up;  *)
(* one that has nothing of the request is left out.                        *)
TooCoarse(b) ==
  /\ gq.grain # NoGrain /\ gq.temporal /\ Native(b) # NoGrain
  /\ Coarseness(Native(b)) > Coarseness(gq.grain)

CoversAny(b) ==
  Maps(b) \cap (RegularDims \cup UNION {Parts(m) : m \in ToSet(gq.measures)}) # {}

PruneDatasets ==
  /\ gpc = "prune"
  /\ eligible' = {b \in DOMAIN gq.bindings : ~TooCoarse(b) /\ CoversAny(b)}
  /\ gpc' = IF eligible' = {} THEN "refused" ELSE "group"
  /\ UNCHANGED <<gq, groups, mtg, todo, gplan>>

(* Groups by native grain, coarsest first; two of equal coarseness (None   *)
(* and Minute) come in the order of a hash map.                            *)
GroupByGrain ==
  /\ gpc = "group"
  /\ \E order \in SetToSeqs({Native(b) : b \in eligible}) :
       /\ \A i, j \in DOMAIN order : i < j => Coarseness(order[i]) >= Coarseness(order[j])
       /\ groups' = order
  /\ todo' = DOMAIN gq.measures
  /\ gpc' = "assign"
  /\ UNCHANGED <<gq, eligible, mtg, gplan>>

GroupOf(g) == {b \in eligible : Native(b) = g}
GroupMaps(g) == UNION {Maps(b) : b \in GroupOf(g)}

(* The groups in which each part has a dataset, not all parts the same.    *)
Candidates(m) == {i \in DOMAIN groups : Parts(m) \subseteq GroupMaps(groups[i])}

(* A measure that has a group keeps it when a metric needs it.             *)
Assigned(m, g) ==
  [n \in DOMAIN mtg \cup Parts(m) |->
     IF n \in Parts(m) /\ (n \in DOMAIN mtg => m \notin DOMAIN gq.parts) THEN g ELSE mtg[n]]

(* The turn of the measure or metric at position p.                        *)
Turn(p) == gpc = "assign" /\ p \in todo /\ \A k \in todo \ {p} : ComesBefore(p, k)

(* The first of its groups gets it.                                        *)
AssignToGroup(p) ==
  /\ Turn(p)
  /\ \E i \in Candidates(gq.measures[p]) :
       /\ \A j \in Candidates(gq.measures[p]) : i <= j
       /\ mtg' = Assigned(gq.measures[p], groups[i])
  /\ todo' = todo \ {p}
  /\ UNCHANGED <<gq, eligible, groups, gplan, gpc>>

NoGroup(p) ==
  /\ Turn(p) /\ Candidates(gq.measures[p]) = {}
  /\ gpc' = "refused"
  /\ UNCHANGED <<gq, eligible, groups, mtg, todo, gplan>>

(* As Given with the group not looked at.                                  *)
GivenAnywhere(b) == {n \in DOMAIN mtg : n \in Maps(b)}

(* Each measure goes to every dataset of its group that has it.            *)
Given(b) == {n \in DOMAIN mtg : n \in Maps(b) /\ mtg[n] = Native(b)}

WithMeasures == {b \in eligible : Given(b) # {}}

(* build_union_branch: a metric needs all its parts in this dataset.       *)
Covers(b) == {m \in ToSet(gq.measures) : Parts(m) \subseteq Given(b)}

(* DATE_TRUNC in the GROUP BY.                                             *)
NeedsRollup(b) ==
  /\ gq.grain # NoGrain /\ Native(b) # NoGrain
  /\ Coarseness(Native(b)) < Coarseness(gq.grain)

Branch(b, covered) == [dataset |-> b, covered |-> covered, rollup |-> NeedsRollup(b)]

CoversMeasures(b) == \A m \in ToSet(gq.measures) : m \in Maps(b) \/ m \in DOMAIN gq.parts
CoversDims(b) == RegularDims \subseteq Maps(b)

(* infer_aggregation_iface: what merges the rows of the branches; metrics  *)
(* and all functions but MIN and MAX are summed up.                        *)
InferAggregation(m) == IF m \in DOMAIN gq.aggs /\ gq.aggs[m] \in {"MIN", "MAX"} THEN gq.aggs[m] ELSE "SUM"

BuildSingleDatasetPlan ==
  [how |-> "single", branches |-> {Branch(b, ToSet(gq.measures)) : b \in WithMeasures}, merge |-> <<>>]

(* UNION ALL of the branches and a re-aggregation.  Without a measure the  *)
(* union has no branch.                                                    *)
BuildUnionPlan ==
  [how |-> "union", branches |-> {Branch(b, Covers(b)) : b \in WithMeasures},
   merge |-> [m \in ToSet(gq.measures) |-> InferAggregation(m)]]

(* The only dataset with a measure is planned alone if it also has the     *)
(* dimensions.                                                             *)
BuildGrainset ==
  /\ gpc = "assign" /\ todo = {}
  /\ gplan' = IF \E b \in WithMeasures : WithMeasures = {b} /\ CoversMeasures(b) /\ CoversDims(b)
                THEN BuildSingleDatasetPlan ELSE BuildUnionPlan
  /\ gpc' = "built"
  /\ UNCHANGED <<gq, eligible, groups, mtg, todo>>

GNext ==
  \/ PruneDatasets \/ GroupByGrain
  \/ \E p \in DOMAIN gq.measures : AssignToGroup(p) \/ NoGroup(p)
  \/ BuildGrainset

(* What resolve may be called with: the grains of TemporalGrain, finitely  *)
(* many datasets.                                                          *)
IsQuery(q) ==
  /\ q.temporal \in BOOLEAN /\ q.finest \in Grains \cup {NoGrain}
  /\ IsFiniteSet(DOMAIN q.bindings)
  /\ \A b \in DOMAIN q.bindings : q.bindings[b].grain \in Grains \cup {NoGrain}

GSpec == Idle /\ [][GNext \/ \E q : IsQuery(q) /\ GResolve(q)]_gvars

-----------------------------------------------------------------------------
Requested(m) == m \in ToSet(gq.measures) \ DOMAIN gq.parts
Usable(b) == ~(gq.grain # NoGrain /\ Native(b) # NoGrain /\ Coarseness(Native(b)) > Coarseness(gq.grain))
Answering(m) == {br.dataset : br \in {br \in gplan.branches : m \in br.covered}}

(* FactsCountedOnce: the datasets of one grain hold the facts between      *)
(* them, and every grain holds them again.  So a measure is read at one    *)
(* grain, no coarser than the one requested, from all the datasets of that *)
(* grain that have it; and a metric is computed by every dataset that has  *)
(* its parts, all of them given to its grain, and by no other.  Left out   *)
(* are metrics in which extract_metric_constituents sees no measure: what  *)
(* they need is not known, and they come with the branches of the others.  *)
FactsCountedOnce ==
  gpc = "built" =>
    \A m \in ToSet(gq.measures) :
      /\ Requested(m) =>
           \E g \in Grains \cup {NoGrain} :
             /\ Answering(m) # {}
             /\ Answering(m) = {b \in DOMAIN gq.bindings : Native(b) = g /\ Usable(b) /\ m \in Maps(b)}
      /\ \A b \in eligible :
           (Parts(m) # {} /\ Parts(m) \subseteq Maps(b) /\ \A n \in Parts(m) : mtg[n] = Native(b)) => b \in Answering(m)
      /\ \A b \in Answering(m) : Parts(m) \subseteq Maps(b)

(* GrainsetRefusalJustified: a request is refused only if, among the       *)
(* datasets at a usable grain, something it asks for is nowhere or its     *)
(* parts are never at the same grain.                                      *)
GrainsetRefusalJustified ==
  gpc = "refused" =>
    \/ ~\E b \in DOMAIN gq.bindings : Usable(b) /\ CoversAny(b)
    \/ \E m \in ToSet(gq.measures) : \A g \in Grains \cup {NoGrain} :
         ~(Parts(m) \subseteq UNION {Maps(b) : b \in {b \in DOMAIN gq.bindings : Usable(b) /\ Native(b) = g}})
=============================================================================
