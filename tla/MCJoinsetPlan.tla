--------------------------- MODULE MCJoinsetPlan ---------------------------
(* JoinsetPlan on joinsets of three bindings, with every relationship      *)
(* graph over their names.                                                 *)
EXTENDS JoinsetPlan

(* Distinct names, and two bindings that carry the same dataset name.      *)
MCNamings == {<<"a", "b", "c">>, <<"a", "b", "a">>}

(* The measure m is computed from q.                                       *)
MCSources == [m \in {"m"} |-> {"q"}]

(* A column only one binding maps, one that is shared, one nobody maps; a  *)
(* mapping that holds the measure's name and not its source.               *)
MCMappings == {<<{"d"}, {"m", "q"}, {}>>, <<{"m", "q"}, {"d"}, {}>>,
               <<{}, {"d"}, {"d", "m", "q"}>>,
               <<{"d", "m"}, {"d"}, {"q"}>>, <<{"m"}, {"m", "q"}, {"m"}>>}
=============================================================================
