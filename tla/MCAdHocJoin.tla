---------------------------- MODULE MCAdHocJoin ----------------------------
(* AdHocJoin on every list of three relationships over three entities and  *)
(* a name that is no entity, and on rings of five names, where a search    *)
(* has two ways round to a name.                                           *)
EXTENDS AdHocJoin, TLC

(* The relationships from three on link a name nobody asks for to itself.  *)
SmallGraphs ==
  {[r \in Rels |-> IF r <= 3 THEN g[r] ELSE [from |-> 5, to |-> 5]] :
     g \in [1..3 -> [from : 1..4, to : 1..4]]}

Labellings == {f \in [Rels -> 1..5] : \A i, j \in Rels : f[i] = f[j] => i = j}

(* The ring 1 - 2 - 3 - 4 - 5 - 1, its relationships listed in any order   *)
(* and those in `back` written the other way round.                        *)
RingGraph(f, back) ==
  [r \in Rels |->
     LET a == f[r]
         b == IF f[r] = 5 THEN 1 ELSE f[r] + 1
     IN  IF a \in back THEN [from |-> b, to |-> a] ELSE [from |-> a, to |-> b]]

Rings == {RingGraph(f, back) : f \in Labellings, back \in {{}, {2, 5}, {1, 2, 4}}}

MCGraphs == IF NRels = 5 THEN SmallGraphs \cup Rings ELSE [Rels -> [from : Ends, to : Ends]]

Offer(g1, g2, g3, a1, a2, a3, k1, k2, k3) ==
  [group_by |-> (1 :> g1 @@ 2 :> g2 @@ 3 :> g3),
   measures |-> (1 :> a1 @@ 2 :> a2 @@ 3 :> a3),
   metrics |-> (1 :> {} @@ 2 :> {} @@ 3 :> {}),
   kind_rank |-> (1 :> k1 @@ 2 :> k2 @@ 3 :> k3)]

(* One field each; an anchor that shares with one of the others; a field   *)
(* two entities offer, where the kind decides; a field nobody offers; an   *)
(* entity that covers all; one that is better than the anchor at the rest; *)
(* an anchor that the two others, who have everything, can do without.     *)
Disjoint == {
  Offer({"d"}, {"e"}, {}, {}, {}, {"m"}, 0, 0, 0),
  Offer({"d", "e"}, {"e"}, {"m"}, {}, {}, {}, 0, 0, 1),
  Offer({"d"}, {"d", "e"}, {"e"}, {"m"}, {}, {}, 1, 0, 0),
  Offer({"d"}, {"d"}, {"e"}, {}, {}, {}, 1, 0, 0),
  Offer({"d"}, {"d", "e"}, {"d"}, {}, {"m"}, {}, 0, 1, 0),
  Offer({}, {"d"}, {}, {"m", "e"}, {"m"}, {"e"}, 0, 0, 0),
  Offer({}, {}, {}, {}, {}, {}, 0, 0, 0)}

(* The same name as a dimension and a measure of one entity, and as a      *)
(* measure and a metric.                                                   *)
Overlapping == {
  Offer({"d"}, {"e"}, {"m"}, {"d"}, {}, {}, 0, 0, 0),
  Offer({"d", "m"}, {"e"}, {}, {"m"}, {}, {}, 0, 0, 0),
  [Offer({}, {"d"}, {"e"}, {"m"}, {}, {}, 0, 0, 0) EXCEPT !.metrics[1] = {"m"}]}

MCInterfaces == Disjoint \cup Overlapping
=============================================================================
