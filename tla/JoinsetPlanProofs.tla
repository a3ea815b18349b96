-------------------------- MODULE JoinsetPlanProofs --------------------------
(* Proofs about JoinsetPlan, for joinsets of any size.                     *)
EXTENDS JoinsetPlan, SequenceTheorems, TLAPS

Planning == {"bfs", "join", "planned"}

(* Before the walk starts nothing has been visited or joined.              *)
NotStarted ==
  pc \in {"prune_by_metadata", "prune_by_literals", "resolve", "find_anchor"} =>
    steps = <<>> /\ joins = <<>> /\ current = 0

(* The visited set is the anchor and the bindings of join_order.           *)
VisitedIsTree ==
  pc \in Planning =>
    /\ anchor \in active
    /\ visited = {anchor} \cup {steps[i].binding : i \in 1..Len(steps)}

(* The edges of the current binding that the walk has moved past.          *)
EdgesBehind ==
  \A b \in active, r \in Rels :
    /\ r < edge /\ Forward(current, r, b) => b \in visited
    /\ NRels + r < edge /\ Forward(b, r, current) => b \in visited

Expanded(a) == \A b \in active : Adjacent(a, b) => b \in visited

(* A visited binding waits in the queue, is the current one or has all its *)
(* active neighbours visited.                                              *)
Frontier ==
  pc = "bfs" =>
    /\ current # 0 => current \in visited /\ EdgesBehind
    /\ \A i \in 1..Len(queue) : queue[i] \in visited
    /\ \A a \in visited : a = current \/ (\E i \in 1..Len(queue) : queue[i] = a) \/ Expanded(a)

(* Nothing outside the anchor's component is visited, and after the walk   *)
(* nothing of it is missing.                                               *)
OnlyComponent ==
  pc \in Planning =>
    \A S \in SUBSET active : anchor \in S /\ Closed(S) => visited \subseteq S

WholeComponent == pc \in {"join", "planned"} => Closed(visited)

(* The two sides of the k-th join condition: the step's own binding and    *)
(* the one looked up by name.                                              *)
Near(k) == IF steps[k].reversed THEN joins[k].left ELSE joins[k].right
Far(k) == IF steps[k].reversed THEN joins[k].right ELSE joins[k].left
FarName(k) == IF steps[k].reversed THEN relationships[steps[k].rel].to
                                   ELSE relationships[steps[k].rel].from

JoinsFollowSteps ==
  /\ pc = "bfs" => joins = <<>>
  /\ Len(joins) <= Len(steps)
  /\ \A k \in 1..Len(joins) :
       Near(k) = steps[k].binding /\ DatasetIndex(FarName(k), Far(k))

IInv ==
  /\ TypeOK /\ NotStarted /\ VisitedIsTree
  /\ Frontier /\ OnlyComponent /\ WholeComponent
  /\ StepsAttach /\ JoinsFollowSteps

-----------------------------------------------------------------------------
(* The compiled joinset does not change, and with it the adjacency.        *)
LEMMA ModelFixed == [Next]_vars => UNCHANGED model
  BY DEF Next, vars, PruneByMetadata, PruneByLiterals, Prune, ResolveGuards, FindAnchor,
         PopFront, PassEdge, EdgesDone, BfsDone, Visit, JoinNext, Rename,
         PlanFails

LEMMA ForwardFixed ==
  ASSUME UNCHANGED model, NEW a, NEW r, NEW b
  PROVE  Forward(a, r, b)' <=> Forward(a, r, b)
  BY DEF model, Forward, DatasetIndex

LEMMA AdjacentFixed ==
  ASSUME UNCHANGED model, NEW a, NEW b
  PROVE  Adjacent(a, b)' <=> Adjacent(a, b)
  BY ForwardFixed DEF Adjacent

LEMMA ClosedFixed ==
  ASSUME UNCHANGED model, active' = active, NEW S
  PROVE  Closed(S)' <=> Closed(S)
  BY AdjacentFixed DEF Closed

LEMMA ForwardEnds ==
  ASSUME NEW a, NEW r, NEW b, Forward(a, r, b)
  PROVE  a \in Bindings /\ b \in Bindings
  BY DEF Forward, DatasetIndex

-----------------------------------------------------------------------------
LEMMA InitIInv == Init => IInv
<1> SUFFICES ASSUME Init PROVE IInv
  OBVIOUS
<1>1. TypeOK
  BY SizeAssumption DEF Init, TypeOK
<1>2. NotStarted /\ VisitedIsTree /\ Frontier /\ OnlyComponent /\ WholeComponent
  BY DEF Init, NotStarted, VisitedIsTree, Frontier, OnlyComponent, WholeComponent, Planning
<1>3. StepsAttach /\ JoinsFollowSteps
  BY DEF Init, StepsAttach, JoinsFollowSteps
<1> QED BY <1>1, <1>2, <1>3 DEF IInv

(* The type invariant is preserved.                                        *)
LEMMA StepType == TypeOK /\ VisitedIsTree /\ [Next]_vars => TypeOK'
<1> SUFFICES ASSUME TypeOK, VisitedIsTree, [Next]_vars PROVE TypeOK'
  OBVIOUS
<1> USE SizeAssumption DEF model, bfs, tree
<1>1. CASE PruneByMetadata
  BY <1>1 DEF PruneByMetadata, Prune, TypeOK
<1>2. CASE PruneByLiterals
  BY <1>2 DEF PruneByLiterals, Prune, TypeOK
<1>3. CASE ResolveGuards
  BY <1>3 DEF ResolveGuards, TypeOK
<1>4. ASSUME NEW a \in Bindings, FindAnchor(a) PROVE TypeOK'
  BY <1>4 DEF FindAnchor, TypeOK
<1>5. CASE PopFront
  <2>1. queue' \in Seq(Bindings) /\ current' \in Bindings
    BY <1>5, HeadTailProperties DEF PopFront, TypeOK
  <2> QED BY <1>5, <2>1 DEF PopFront, TypeOK
<1>6. CASE PassEdge
  BY <1>6 DEF PassEdge, TypeOK
<1>7. CASE EdgesDone
  BY <1>7 DEF EdgesDone, TypeOK
<1>8. CASE BfsDone
  <2>1. anchor \in Bindings BY <1>8 DEF BfsDone, TypeOK, VisitedIsTree, Planning
  <2> QED BY <1>8, <2>1 DEF BfsDone, TypeOK
<1>9. ASSUME NEW b \in Bindings, NEW r \in Rels, NEW rev \in BOOLEAN, Visit(b, r, rev)
      PROVE  TypeOK'
  <2>1. [binding |-> b, rel |-> r, reversed |-> rev] \in JoinStep
    BY DEF JoinStep
  <2>2. steps' \in Seq(JoinStep) /\ queue' \in Seq(Bindings)
    BY <1>9, <2>1 DEF Visit, TypeOK
  <2>3. edge' \in 1..(2 * NRels + 1)
    BY <1>9 DEF Visit, TypeOK
  <2> QED BY <1>9, <2>2, <2>3 DEF Visit, TypeOK
<1>10. CASE JoinNext
  <2> DEFINE step == steps[Len(joins) + 1]
             rel == relationships[step.rel]
  <2>1. step \in JoinStep
    BY <1>10, ElementOfSeq DEF JoinNext, TypeOK
  <2>2. step.binding \in Bindings /\ rel.join_type \in JoinTypes
    BY <2>1 DEF JoinStep, TypeOK, Relationship
  <2>3. PICK other \in Bindings :
          /\ joins' = Append(joins, [left |-> IF step.reversed THEN step.binding ELSE other,
                                     right |-> IF step.reversed THEN other ELSE step.binding,
                                     join_type |-> rel.join_type])
          /\ joined' = Append(joined, step.binding)
    BY <1>10 DEF JoinNext
  <2> HIDE DEF step, rel
  <2>4. [left |-> IF step.reversed THEN step.binding ELSE other,
         right |-> IF step.reversed THEN other ELSE step.binding,
         join_type |-> rel.join_type] \in Join
    BY <2>2 DEF Join
  <2>5. joins' \in Seq(Join) /\ joined' \in Seq(Bindings)
    BY <2>2, <2>3, <2>4 DEF TypeOK
  <2> QED BY <1>10, <2>5 DEF JoinNext, TypeOK
<1>11. CASE Rename \/ PlanFails
  BY <1>11 DEF Rename, PlanFails, TypeOK, Needed
<1>12. CASE UNCHANGED vars
  BY <1>12 DEF vars, TypeOK
<1> QED BY <1>1, <1>2, <1>3, <1>4, <1>5, <1>6, <1>7, <1>8, <1>9, <1>10, <1>11, <1>12 DEF Next

-----------------------------------------------------------------------------
(* The visited set stays the anchor and the bindings of join_order.        *)
LEMMA StepTree ==
  TypeOK /\ NotStarted /\ VisitedIsTree /\ [Next]_vars => NotStarted' /\ VisitedIsTree'
<1> SUFFICES ASSUME TypeOK, NotStarted, VisitedIsTree, [Next]_vars
             PROVE  NotStarted' /\ VisitedIsTree'
  OBVIOUS
<1> USE DEF model, bfs, tree, NotStarted, VisitedIsTree, Planning
<1>1. CASE PruneByMetadata \/ PruneByLiterals \/ ResolveGuards
  BY <1>1 DEF PruneByMetadata, PruneByLiterals, Prune, ResolveGuards
<1>2. ASSUME NEW a \in Bindings, FindAnchor(a) PROVE NotStarted' /\ VisitedIsTree'
  <2>1. steps' = <<>> /\ anchor' = a /\ visited' = {a} /\ a \in active' /\ pc' = "bfs"
    BY <1>2 DEF FindAnchor, IsAnchor
  <2> QED BY <2>1
<1>3. ASSUME NEW b \in Bindings, NEW r \in Rels, NEW rev \in BOOLEAN, Visit(b, r, rev)
      PROVE  NotStarted' /\ VisitedIsTree'
  <2> DEFINE n == Len(steps)
             st == [binding |-> b, rel |-> r, reversed |-> rev]
  <2>1. /\ steps \in Seq(JoinStep) /\ n \in Nat
        /\ steps' = Append(steps, st)
        /\ visited' = visited \cup {b}
        /\ pc = "bfs" /\ pc' = "bfs"
        /\ active' = active /\ anchor' = anchor
    BY <1>3 DEF Visit, TypeOK
  <2>2. Len(steps') = n + 1 /\ steps'[n + 1] = st /\ \A i \in 1..n : steps'[i] = steps[i]
    BY <2>1 DEF JoinStep
  <2>3. 1..(n + 1) = (1..n) \cup {n + 1}
    BY <2>1
  <2>4. {steps'[i].binding : i \in 1..(n + 1)} = {steps[i].binding : i \in 1..n} \cup {b}
    BY <2>2, <2>3
  <2> QED BY <2>1, <2>2, <2>4
<1>4. CASE PopFront \/ PassEdge \/ EdgesDone \/ BfsDone \/ JoinNext \/ Rename
          \/ PlanFails
  BY <1>4 DEF PopFront, PassEdge, EdgesDone, BfsDone, JoinNext, Rename, PlanFails
<1>5. CASE UNCHANGED vars
  BY <1>5 DEF vars
<1> QED BY <1>1, <1>2, <1>3, <1>4, <1>5 DEF Next

(* A step of the walk follows an edge from the current binding.            *)
LEMMA EdgeIsAdjacent ==
  ASSUME NEW b, NEW r \in Rels, NEW rev, EdgeTo(b, r, rev)
  PROVE  Adjacent(current, b)
  BY DEF EdgeTo, Adjacent

LEMMA StepOnly ==
  TypeOK /\ VisitedIsTree /\ Frontier /\ OnlyComponent /\ [Next]_vars => OnlyComponent'
<1> SUFFICES ASSUME TypeOK, VisitedIsTree, Frontier, OnlyComponent, [Next]_vars
             PROVE  OnlyComponent'
  OBVIOUS
<1>0. UNCHANGED model BY ModelFixed
<1> USE DEF bfs, tree, Planning
<1>1. CASE pc' \notin Planning
  BY <1>1 DEF OnlyComponent
<1>2. ASSUME NEW a \in Bindings, FindAnchor(a) PROVE OnlyComponent'
  BY <1>2 DEF FindAnchor, OnlyComponent
<1>3. ASSUME NEW b \in Bindings, NEW r \in Rels, NEW rev \in BOOLEAN, Visit(b, r, rev)
      PROVE  OnlyComponent'
  <2>1. /\ active' = active /\ anchor' = anchor /\ visited' = visited \cup {b}
        /\ pc = "bfs" /\ current # 0 /\ b \in active
    BY <1>3 DEF Visit, Enterable
  <2>2. Adjacent(current, b)
    BY <1>3, EdgeIsAdjacent DEF Visit
  <2>3. ASSUME NEW S \in SUBSET active, anchor \in S, Closed(S) PROVE visited' \subseteq S
    <3>1. visited \subseteq S BY <2>1, <2>3 DEF OnlyComponent
    <3>2. current \in S BY <2>1, <3>1 DEF Frontier
    <3>3. b \in S BY <2>1, <2>2, <2>3, <3>2 DEF Closed
    <3> QED BY <2>1, <3>1, <3>3
  <2> QED BY <1>0, <2>1, <2>3, ClosedFixed DEF OnlyComponent
<1>4. CASE UNCHANGED <<active, anchor, visited>> /\ pc \in Planning
  BY <1>0, <1>4, ClosedFixed DEF OnlyComponent
<1>5. CASE PruneByMetadata \/ PruneByLiterals \/ ResolveGuards
  BY <1>1, <1>5 DEF PruneByMetadata, PruneByLiterals, Prune, ResolveGuards
<1>6. CASE PopFront \/ PassEdge \/ EdgesDone \/ BfsDone \/ JoinNext
  BY <1>4, <1>6 DEF PopFront, PassEdge, EdgesDone, BfsDone, JoinNext
<1>7. CASE Rename \/ PlanFails
  BY <1>4, <1>7 DEF Rename, PlanFails
<1>8. CASE UNCHANGED vars
  BY <1>1, <1>4, <1>8 DEF vars
<1> QED BY <1>2, <1>3, <1>5, <1>6, <1>7, <1>8 DEF Next

(* The walk misses no active neighbour.                                    *)
LEMMA StepFrontier ==
  TypeOK /\ NotStarted /\ Frontier /\ [Next]_vars => Frontier'
<1> SUFFICES ASSUME TypeOK, NotStarted, Frontier, [Next]_vars, pc' = "bfs"
             PROVE  /\ current' # 0 => current' \in visited' /\ EdgesBehind'
                    /\ \A i \in 1..Len(queue') : queue'[i] \in visited'
                    /\ \A a \in visited' :
                         a = current' \/ (\E i \in 1..Len(queue') : queue'[i] = a) \/ Expanded(a)'
  BY DEF Frontier
<1>0. UNCHANGED model BY ModelFixed
<1> DEFINE Goal == /\ current' # 0 => current' \in visited' /\ EdgesBehind'
                   /\ \A i \in 1..Len(queue') : queue'[i] \in visited'
                   /\ \A a \in visited' :
                         a = current' \/ (\E i \in 1..Len(queue') : queue'[i] = a) \/ Expanded(a)'
<1> SUFFICES Goal
  OBVIOUS
<1>1. ASSUME NEW a \in Bindings, FindAnchor(a) PROVE Goal
  BY <1>1 DEF FindAnchor, NotStarted
<1>2. CASE PopFront
  <2>1. /\ pc = "bfs" /\ current = 0 /\ queue # <<>> /\ queue \in Seq(Bindings)
        /\ current' = Head(queue) /\ queue' = Tail(queue) /\ edge' = 1
        /\ UNCHANGED <<active, visited>>
    BY <1>2 DEF PopFront, TypeOK
  <2>2. /\ Len(queue) \in Nat \ {0}
        /\ Head(queue) = queue[1]
        /\ Len(queue') = Len(queue) - 1
        /\ \A i \in 1..Len(queue') : queue'[i] = queue[i + 1]
    BY <2>1, EmptySeq, HeadTailProperties
  <2>3. current' \in visited' /\ EdgesBehind'
    <3>1. queue[1] \in visited BY <2>1, <2>2 DEF Frontier
    <3>2. EdgesBehind' BY <2>1, SizeAssumption DEF EdgesBehind, Rels
    <3> QED BY <2>1, <2>2, <3>1, <3>2
  <2>4. \A i \in 1..Len(queue') : queue'[i] \in visited'
    BY <2>1, <2>2 DEF Frontier
  <2>5. ASSUME NEW a \in visited'
        PROVE  a = current' \/ (\E i \in 1..Len(queue') : queue'[i] = a) \/ Expanded(a)'
    <3>1. a # 0 BY <2>1 DEF TypeOK, Bindings
    <3>2. CASE Expanded(a)
      BY <1>0, <2>1, <3>2, AdjacentFixed DEF Expanded
    <3>3. ASSUME NEW i \in 1..Len(queue), queue[i] = a
          PROVE  a = current' \/ (\E j \in 1..Len(queue') : queue'[j] = a)
      <4>1. CASE i = 1 BY <2>1, <2>2, <3>3, <4>1
      <4>2. CASE i # 1
        <5>1. i - 1 \in 1..Len(queue') BY <2>2, <4>2
        <5>2. queue'[i - 1] = a BY <2>2, <3>3, <5>1
        <5> QED BY <5>1, <5>2
      <4> QED BY <4>1, <4>2
    <3>4. (\E i \in 1..Len(queue) : queue[i] = a) \/ Expanded(a)
      BY <2>1, <3>1 DEF Frontier
    <3> QED BY <3>2, <3>3, <3>4
  <2> QED BY <2>3, <2>4, <2>5
<1>3. ASSUME NEW b \in Bindings, NEW r \in Rels, NEW rev \in BOOLEAN, Visit(b, r, rev)
      PROVE  Goal
  <2>1. /\ pc = "bfs" /\ current # 0 /\ current' = current /\ edge' = edge + 1
        /\ queue \in Seq(Bindings) /\ queue' = Append(queue, b)
        /\ active' = active /\ visited' = visited \cup {b}
        /\ EdgeTo(b, r, rev) /\ edge \in Nat
    BY <1>3, SizeAssumption DEF Visit, TypeOK
  <2>2. /\ Len(queue) \in Nat
        /\ Len(queue') = Len(queue) + 1 /\ queue'[Len(queue) + 1] = b
        /\ \A i \in 1..Len(queue) : queue'[i] = queue[i]
    BY <2>1, AppendProperties, LenProperties
  <2>3. \A i \in 1..Len(queue') : queue'[i] \in visited'
    BY <2>1, <2>2 DEF Frontier
  <2>4. EdgesBehind'
    <3> SUFFICES ASSUME NEW c \in active, NEW q \in Rels
                 PROVE  /\ q < edge + 1 /\ Forward(current, q, c) => c \in visited'
                        /\ NRels + q < edge + 1 /\ Forward(c, q, current) => c \in visited'
      BY <1>0, <2>1, ForwardFixed DEF EdgesBehind
    <3>1. /\ q < edge /\ Forward(current, q, c) => c \in visited
          /\ NRels + q < edge /\ Forward(c, q, current) => c \in visited
      BY <2>1 DEF Frontier, EdgesBehind
    <3>2. ASSUME q = edge, Forward(current, q, c) PROVE c = b
      BY <2>1, <3>2, SizeAssumption DEF EdgeTo, Forward, DatasetIndex, Rels, Bindings
    <3>3. ASSUME NRels + q = edge, Forward(c, q, current) PROVE c = b
      BY <2>1, <3>3, SizeAssumption DEF EdgeTo, Forward, DatasetIndex, Rels, Bindings
    <3> QED BY <2>1, <3>1, <3>2, <3>3, SizeAssumption DEF Rels
  <2>5. ASSUME NEW a \in visited'
        PROVE  a = current' \/ (\E i \in 1..Len(queue') : queue'[i] = a) \/ Expanded(a)'
    <3>1. CASE a = b
      <4>1. Len(queue) + 1 \in 1..Len(queue') BY <2>2
      <4> QED BY <2>2, <3>1, <4>1
    <3>2. CASE a # b
      <4>1. a = current \/ (\E i \in 1..Len(queue) : queue[i] = a) \/ Expanded(a)
        BY <2>1, <3>2 DEF Frontier
      <4>2. CASE Expanded(a)
        BY <1>0, <2>1, <4>2, AdjacentFixed DEF Expanded
      <4>3. ASSUME NEW i \in 1..Len(queue), queue[i] = a
            PROVE  \E j \in 1..Len(queue') : queue'[j] = a
        BY <2>2, <4>3
      <4> QED BY <2>1, <4>1, <4>2, <4>3
    <3> QED BY <3>1, <3>2
  <2>6. current' \in visited' BY <2>1 DEF Frontier
  <2> QED BY <2>3, <2>4, <2>5, <2>6
<1>4. CASE PassEdge
  <2>1. /\ pc = "bfs" /\ current # 0 /\ edge' = edge + 1 /\ edge \in 1..(2 * NRels)
        /\ UNCHANGED <<active, visited, queue, current>>
    BY <1>4, SizeAssumption DEF PassEdge, TypeOK
  <2>2. ~ \E b \in Bindings, r \in Rels, rev \in BOOLEAN : EdgeTo(b, r, rev) /\ Enterable(b)
    BY <1>4 DEF PassEdge
  <2>3. EdgesBehind'
    <3> SUFFICES ASSUME NEW c \in active, NEW q \in Rels
                 PROVE  /\ q < edge + 1 /\ Forward(current, q, c) => c \in visited
                        /\ NRels + q < edge + 1 /\ Forward(c, q, current) => c \in visited
      BY <1>0, <2>1, ForwardFixed DEF EdgesBehind
    <3>1. /\ q < edge /\ Forward(current, q, c) => c \in visited
          /\ NRels + q < edge /\ Forward(c, q, current) => c \in visited
      BY <2>1 DEF Frontier, EdgesBehind
    <3>2. c \in Bindings BY DEF TypeOK
    <3>3. ASSUME q = edge, Forward(current, q, c) PROVE c \in visited
      <4>1. EdgeTo(c, q, FALSE) BY <3>3, SizeAssumption DEF EdgeTo, Rels
      <4> QED BY <2>2, <3>2, <4>1 DEF Enterable
    <3>4. ASSUME NRels + q = edge, Forward(c, q, current) PROVE c \in visited
      <4>1. EdgeTo(c, q, TRUE) BY <3>4, SizeAssumption DEF EdgeTo, Rels
      <4> QED BY <2>2, <3>2, <4>1 DEF Enterable
    <3> QED BY <2>1, <3>1, <3>3, <3>4, SizeAssumption DEF Rels
  <2> QED BY <1>0, <2>1, <2>3, AdjacentFixed DEF Frontier, Expanded
<1>5. CASE EdgesDone
  <2>1. /\ pc = "bfs" /\ current # 0 /\ current' = 0 /\ edge > 2 * NRels /\ edge \in Nat
        /\ UNCHANGED <<active, visited, queue>>
    BY <1>5, SizeAssumption DEF EdgesDone, TypeOK
  <2>2. \A r \in Rels : r < edge /\ NRels + r < edge
    BY <2>1, SizeAssumption DEF Rels
  <2>3. Expanded(current)
    BY <2>1, <2>2 DEF Expanded, Adjacent, Frontier, EdgesBehind
  <2> QED BY <1>0, <2>1, <2>3, AdjacentFixed DEF Frontier, Expanded
<1>6. CASE UNCHANGED vars
  BY <1>0, <1>6, ForwardFixed, AdjacentFixed DEF vars, bfs, Frontier, EdgesBehind, Expanded
<1> QED BY <1>1, <1>2, <1>3, <1>4, <1>5, <1>6
        DEF Next, PruneByMetadata, PruneByLiterals, Prune, ResolveGuards, BfsDone, JoinNext, Rename,
            PlanFails

(* When the queue runs empty the visited set is closed.                    *)
LEMMA StepWhole ==
  TypeOK /\ Frontier /\ WholeComponent /\ [Next]_vars => WholeComponent'
<1> SUFFICES ASSUME TypeOK, Frontier, WholeComponent, [Next]_vars PROVE WholeComponent'
  OBVIOUS
<1>0. UNCHANGED model BY ModelFixed
<1>1. CASE pc' \notin {"join", "planned"}
  BY <1>1 DEF WholeComponent
<1>2. CASE BfsDone
  <2>1. pc = "bfs" /\ current = 0 /\ queue = <<>> /\ UNCHANGED <<active, visited>>
    BY <1>2 DEF BfsDone, bfs
  <2>2. \A a \in visited : Expanded(a)
    BY <2>1 DEF Frontier, TypeOK, Bindings
  <2>3. Closed(visited)
    BY <2>2 DEF Closed, Expanded
  <2> QED BY <1>0, <2>1, <2>3, ClosedFixed DEF WholeComponent
<1>3. CASE UNCHANGED <<active, visited>> /\ pc \in {"join", "planned"}
  BY <1>0, <1>3, ClosedFixed DEF WholeComponent
<1>4. CASE JoinNext \/ Rename \/ PlanFails
  BY <1>1, <1>3, <1>4 DEF JoinNext, Rename, PlanFails, bfs
<1>5. CASE UNCHANGED vars
  BY <1>1, <1>3, <1>5 DEF vars, bfs
<1>6. ASSUME NEW b \in Bindings, NEW r \in Rels, NEW rev \in BOOLEAN, Visit(b, r, rev)
      PROVE  WholeComponent'
  BY <1>1, <1>6 DEF Visit
<1>7. ASSUME NEW a \in Bindings, FindAnchor(a) PROVE WholeComponent'
  BY <1>1, <1>7 DEF FindAnchor
<1>8. CASE PruneByMetadata \/ PruneByLiterals \/ ResolveGuards
  BY <1>1, <1>8 DEF PruneByMetadata, PruneByLiterals, Prune, ResolveGuards
<1>9. CASE PopFront \/ PassEdge \/ EdgesDone
  BY <1>1, <1>9 DEF PopFront, PassEdge, EdgesDone
<1> QED BY <1>2, <1>4, <1>5, <1>6, <1>7, <1>8, <1>9 DEF Next

-----------------------------------------------------------------------------
(* Each step of join_order attaches to the tree before it.                 *)
LEMMA StepAttach ==
  TypeOK /\ NotStarted /\ VisitedIsTree /\ Frontier /\ StepsAttach /\ [Next]_vars
    => StepsAttach'
<1> SUFFICES ASSUME TypeOK, NotStarted, VisitedIsTree, Frontier, StepsAttach, [Next]_vars
             PROVE  StepsAttach'
  OBVIOUS
<1>0. UNCHANGED model BY ModelFixed
<1>1. CASE steps' = <<>>
  BY <1>1 DEF StepsAttach
<1>2. CASE UNCHANGED <<active, anchor, steps>>
  BY <1>0, <1>2 DEF StepsAttach, Before, Links, Forward, DatasetIndex, model
<1>3. ASSUME NEW b \in Bindings, NEW r \in Rels, NEW rev \in BOOLEAN, Visit(b, r, rev)
      PROVE  StepsAttach'
  <2>0. PICK n \in Nat : n = Len(steps)
    BY DEF TypeOK
  <2> DEFINE st == [binding |-> b, rel |-> r, reversed |-> rev]
  <2>1. /\ steps \in Seq(JoinStep) /\ n \in Nat
        /\ steps' = Append(steps, st) /\ st \in JoinStep
        /\ pc = "bfs" /\ current # 0
        /\ active' = active /\ anchor' = anchor
        /\ b \in active /\ b \notin visited
        /\ EdgeTo(b, r, rev)
    BY <1>3, <2>0 DEF Visit, TypeOK, Enterable, JoinStep
  <2>2. Len(steps') = n + 1 /\ steps'[n + 1] = st /\ \A i \in 1..n : steps'[i] = steps[i]
    BY <2>0, <2>1, AppendProperties
  <2>3. visited = Before(n + 1) /\ current \in visited
    BY <2>0, <2>1 DEF VisitedIsTree, Planning, Before, Frontier
  <2>4. \A k \in 1..(n + 1) : Before(k)' = Before(k)
    <3> SUFFICES ASSUME NEW k \in 1..(n + 1)
                 PROVE  {steps'[i].binding : i \in 1..(k - 1)} = {steps[i].binding : i \in 1..(k - 1)}
      BY <2>1 DEF Before
    <3>1. \A i \in 1..(k - 1) : steps'[i] = steps[i]
      BY <2>1, <2>2
    <3> QED BY <3>1
  <2>5. ASSUME NEW k \in 1..n
        PROVE  /\ steps'[k].binding \in active' \ Before(k)'
               /\ \E other \in Before(k)' : Links(steps[k], other)'
    <3>1. k \in 1..(n + 1) /\ steps'[k] = steps[k] /\ Before(k)' = Before(k)
      BY <2>1, <2>2, <2>4
    <3>2. /\ steps[k].binding \in active \ Before(k)
          /\ \E other \in Before(k) : Links(steps[k], other)
      BY <2>0 DEF StepsAttach
    <3>3. ASSUME NEW other PROVE Links(steps[k], other)' <=> Links(steps[k], other)
      BY <1>0, <3>1 DEF Links, Forward, DatasetIndex, model
    <3> QED BY <2>1, <3>1, <3>2, <3>3
  <2>6. /\ steps'[n + 1].binding \in active' \ Before(n + 1)'
        /\ \E other \in Before(n + 1)' : Links(steps[n + 1], other)'
    <3>1. n + 1 \in 1..(n + 1) BY <2>1
    <3>2. /\ steps'[n + 1].binding = b /\ steps'[n + 1].rel = r /\ steps'[n + 1].reversed = rev
      BY <2>2
    <3>3. Before(n + 1)' = visited BY <2>3, <2>4, <3>1
    <3> DEFINE c == current
    <3>4. IF rev THEN Forward(b, r, c) ELSE Forward(c, r, b)
      BY <2>1 DEF EdgeTo
    <3>5. PICK d : d = c OBVIOUS
    <3>6. Links(steps[n + 1], d)'
      BY <1>0, <3>2, <3>4, <3>5 DEF Links, Forward, DatasetIndex, model
    <3> QED BY <2>1, <2>3, <3>2, <3>3, <3>5, <3>6
  <2>7. \A k \in 1..(n + 1) : k = n + 1 \/ k \in 1..n
    BY <2>1
  <2> QED BY <2>2, <2>5, <2>6, <2>7 DEF StepsAttach
<1>4. CASE PruneByMetadata \/ PruneByLiterals \/ ResolveGuards
  BY <1>1, <1>4 DEF PruneByMetadata, PruneByLiterals, Prune, ResolveGuards, bfs, NotStarted
<1>5. ASSUME NEW a \in Bindings, FindAnchor(a) PROVE StepsAttach'
  BY <1>1, <1>5 DEF FindAnchor, NotStarted
<1>6. CASE PopFront \/ PassEdge \/ EdgesDone \/ BfsDone \/ JoinNext \/ Rename
          \/ PlanFails
  BY <1>2, <1>6 DEF PopFront, PassEdge, EdgesDone, BfsDone, JoinNext, Rename, PlanFails, bfs
<1>7. CASE UNCHANGED vars
  BY <1>2, <1>7 DEF vars, bfs
<1> QED BY <1>3, <1>4, <1>5, <1>6, <1>7 DEF Next

(* The join nodes follow join_order.                                       *)
LEMMA StepJoins ==
  TypeOK /\ NotStarted /\ JoinsFollowSteps /\ [Next]_vars => JoinsFollowSteps'
<1> SUFFICES ASSUME TypeOK, NotStarted, JoinsFollowSteps, [Next]_vars
             PROVE  JoinsFollowSteps'
  OBVIOUS
<1>0. UNCHANGED model BY ModelFixed
<1>1. CASE joins' = <<>> /\ steps' \in Seq(JoinStep)
  BY <1>1 DEF JoinsFollowSteps
<1>2. CASE UNCHANGED <<joins, steps>> /\ (pc' = "bfs" => pc = "bfs")
  BY <1>0, <1>2 DEF JoinsFollowSteps, Near, Far, FarName, DatasetIndex, model
<1>3. CASE JoinNext
  <2>1. PICK n \in Nat : n = Len(joins)
    BY DEF TypeOK
  <2>2. PICK other \in Bindings :
          /\ DatasetIndex(IF steps[n + 1].reversed THEN relationships[steps[n + 1].rel].to
                                                   ELSE relationships[steps[n + 1].rel].from, other)
          /\ joins' = Append(joins,
               [left |-> IF steps[n + 1].reversed THEN steps[n + 1].binding ELSE other,
                right |-> IF steps[n + 1].reversed THEN other ELSE steps[n + 1].binding,
                join_type |-> relationships[steps[n + 1].rel].join_type])
    BY <1>3, <2>1 DEF JoinNext
  <2>3. steps' = steps /\ pc = "join" /\ pc' = "join" /\ n < Len(steps) /\ Len(steps) \in Nat
    BY <1>3, <2>1 DEF JoinNext, bfs, TypeOK
  <2>4. /\ Len(joins') = n + 1
        /\ \A k \in 1..n : joins'[k] = joins[k]
        /\ joins'[n + 1] =
             [left |-> IF steps[n + 1].reversed THEN steps[n + 1].binding ELSE other,
              right |-> IF steps[n + 1].reversed THEN other ELSE steps[n + 1].binding,
              join_type |-> relationships[steps[n + 1].rel].join_type]
    BY <2>1, <2>2, AppendProperties DEF TypeOK
  <2>5. ASSUME NEW k \in 1..n
        PROVE  Near(k)' = steps'[k].binding /\ DatasetIndex(FarName(k), Far(k))'
    <3>1. Near(k) = steps[k].binding /\ DatasetIndex(FarName(k), Far(k))
      BY <2>1 DEF JoinsFollowSteps
    <3>2. Near(k)' = Near(k) /\ FarName(k)' = FarName(k) /\ Far(k)' = Far(k)
      BY <1>0, <2>3, <2>4 DEF Near, Far, FarName, model
    <3> QED BY <1>0, <2>3, <3>1, <3>2 DEF DatasetIndex, model
  <2>6. /\ Near(n + 1)' = steps'[n + 1].binding
        /\ DatasetIndex(FarName(n + 1), Far(n + 1))'
    <3>1. Near(n + 1)' = steps'[n + 1].binding /\ Far(n + 1)' = other
      BY <2>3, <2>4 DEF Near, Far
    <3>2. FarName(n + 1)' = FarName(n + 1) BY <1>0, <2>3 DEF FarName, model
    <3>3. DatasetIndex(FarName(n + 1), other) BY <2>2 DEF FarName
    <3> QED BY <1>0, <3>1, <3>2, <3>3 DEF DatasetIndex, model
  <2>7. \A k \in 1..(n + 1) : k = n + 1 \/ k \in 1..n
    OBVIOUS
  <2> QED BY <2>3, <2>4, <2>5, <2>6, <2>7 DEF JoinsFollowSteps
<1>4. ASSUME NEW b \in Bindings, NEW r \in Rels, NEW rev \in BOOLEAN, Visit(b, r, rev)
      PROVE  JoinsFollowSteps'
  <2>1. [binding |-> b, rel |-> r, reversed |-> rev] \in JoinStep
    BY DEF JoinStep
  <2>2. joins' = <<>> /\ steps' \in Seq(JoinStep)
    BY <1>4, <2>1 DEF Visit, TypeOK, JoinsFollowSteps, tree
  <2> QED BY <1>1, <2>2
<1>5. CASE PruneByMetadata \/ PruneByLiterals \/ ResolveGuards
  BY <1>1, <1>5 DEF PruneByMetadata, PruneByLiterals, Prune, ResolveGuards, bfs, tree, NotStarted,
     TypeOK
<1>6. ASSUME NEW a \in Bindings, FindAnchor(a) PROVE JoinsFollowSteps'
  BY <1>1, <1>6 DEF FindAnchor, NotStarted, tree, TypeOK
<1>7. CASE PopFront \/ PassEdge \/ EdgesDone \/ BfsDone \/ Rename \/ PlanFails
  BY <1>2, <1>7 DEF PopFront, PassEdge, EdgesDone, BfsDone, Rename, PlanFails, bfs, tree
<1>8. CASE UNCHANGED vars
  BY <1>2, <1>8 DEF vars, bfs, tree
<1> QED BY <1>3, <1>4, <1>5, <1>6, <1>7, <1>8 DEF Next

-----------------------------------------------------------------------------
(* The inductive invariant holds in every reachable state; with it the     *)
(* type invariant and the frontier of the walk.                            *)
THEOREM Invariance == Spec => []IInv
<1>1. IInv /\ [Next]_vars => IInv'
  BY StepType, StepTree, StepOnly, StepFrontier, StepWhole, StepAttach, StepJoins DEF IInv
<1> QED BY <1>1, InitIInv, PTL DEF Spec

(* The join tree of build_join_plan can be built in the order the walk     *)
(* finds, for every joinset and every pruning of it.                       *)
THEOREM TreeAttaches == Spec => []StepsAttach
<1>1. IInv => StepsAttach
  BY DEF IInv
<1> QED BY <1>1, Invariance, PTL

(* No join condition mentions a dataset that is not in the tree below it.  *)
THEOREM ConditionsScoped == Spec => []ConditionsInScope
<1>1. IInv => ConditionsInScope
  <2> SUFFICES ASSUME IInv, NEW k \in 1..Len(joins)
               PROVE  LET ends == {joins[k].left, joins[k].right} IN
                      /\ steps[k].binding \in ends
                      /\ ends \ {steps[k].binding} \subseteq Before(k)
                      /\ ends # {steps[k].binding}
    BY DEF ConditionsInScope
  <2>1. Near(k) = steps[k].binding /\ DatasetIndex(FarName(k), Far(k))
    BY DEF IInv, JoinsFollowSteps
  <2>2. {joins[k].left, joins[k].right} = {Near(k), Far(k)}
    BY DEF Near, Far
  <2>3. k \in 1..Len(steps)
    <3>1. Len(joins) \in Nat /\ Len(steps) \in Nat /\ Len(joins) <= Len(steps)
      BY LenProperties DEF IInv, TypeOK, JoinsFollowSteps
    <3> QED BY <3>1
  <2>4. steps[k].binding \notin Before(k)
    BY <2>3 DEF IInv, StepsAttach
  <2>5. PICK other \in Before(k) : Links(steps[k], other)
    BY <2>3 DEF IInv, StepsAttach
  <2>6. DatasetIndex(FarName(k), other)
    BY <2>5 DEF Links, Forward, FarName
  <2>7. Far(k) = other
    BY <2>1, <2>6, SizeAssumption DEF DatasetIndex, Bindings
  <2> QED BY <2>1, <2>2, <2>4, <2>7
<1> QED BY <1>1, Invariance, PTL

(* The join covers exactly the anchor's connected component of the active  *)
(* datasets, whatever the relationships are and in whatever order they are *)
(* listed.                                                                 *)
THEOREM WalkIsExact == Spec => []JoinsComponent
<1>1. IInv => JoinsComponent
  <2> SUFFICES ASSUME IInv, pc \in {"join", "planned"}
               PROVE  Before(Len(steps) + 1) = {b \in active : Connected(anchor, b)}
    BY DEF JoinsComponent
  <2>1. anchor \in active /\ Before(Len(steps) + 1) = visited
    <3>1. Len(steps) \in Nat
      BY LenProperties DEF IInv, TypeOK
    <3>2. (Len(steps) + 1) - 1 = Len(steps)
      BY <3>1
    <3> QED BY <3>2 DEF IInv, VisitedIsTree, Planning, Before
  <2>2. visited \subseteq active
    <3>1. active \in SUBSET active /\ Closed(active) BY DEF Closed
    <3> QED BY <2>1, <3>1 DEF IInv, OnlyComponent, Planning
  <2>3. ASSUME NEW b \in visited PROVE Connected(anchor, b)
    BY <2>3 DEF IInv, OnlyComponent, Planning, Connected
  <2>4. ASSUME NEW b \in active, Connected(anchor, b) PROVE b \in visited
    <3>1. Closed(visited) /\ anchor \in visited
      BY DEF IInv, WholeComponent, VisitedIsTree, Planning
    <3> QED BY <2>2, <2>4, <3>1 DEF Connected
  <2> QED BY <2>1, <2>2, <2>3, <2>4
<1> QED BY <1>1, Invariance, PTL
=============================================================================
