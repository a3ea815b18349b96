---------------------------- MODULE MCCycleCheck ----------------------------
(* CycleCheck on every reference graph over a small pool.                  *)
EXTENDS CycleCheck, Graphs

(* Acyclicity as CycleCheck states it is the absence of a path from a name *)
(* to itself.                                                              *)
ASSUME AcyclicMeansNoCycle ==
  \A g \in [Names -> SUBSET Names] :
    Acyclic(g) <=> ~HasCycle([node |-> Names, edge |-> {e \in Names \X Names : e[2] \in g[e[1]]}])
=============================================================================
