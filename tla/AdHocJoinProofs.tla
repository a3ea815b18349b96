-------------------------- MODULE AdHocJoinProofs --------------------------
(* Proofs about RelationshipGraph and AdHocJoin, for manifests and         *)
(* requests of any size.                                                   *)
EXTENDS AdHocJoin, SequenceTheorems, FiniteSetTheorems, TLAPS

-----------------------------------------------------------------------------
(* The invariant of the search.                                            *)

Dist(t) == Len(paths[source][t])

(* The search has filled in no path of a source that is still to come, and *)
(* everything about the ones it is done with.                              *)
SourcesInTurn ==
  /\ source # 0 => source \notin sources
  /\ source = 0 => current = 0
  /\ \A s \in sources : paths[s] = [t \in Ends |-> <<>>]
  /\ \A s \in Entities \ sources : s # source => ShortestFrom(s)

(* The visited names are the source and the ones with a path; the path     *)
(* leads there.                                                            *)
PathsOfVisited ==
  source # 0 =>
    /\ source \in visited /\ paths[source][source] = <<>>
    /\ \A t \in visited : IsWalk(paths[source][t], source, t)
    /\ \A t \in Ends \ {source} : t \in visited <=> paths[source][t] # <<>>

(* b is known, and no further away than one relationship from a.           *)
Relaxed(a, b) == b \in visited /\ Dist(b) <= Dist(a) + 1

EdgesBehind == \A e \in 1..(edge - 1), t \in Ends : EdgeLeads(e, t) => t \in visited

Expanded(a) == \A r \in Rels, b \in Ends : Linked(r, a, b) => Relaxed(a, b)

(* A visited name waits, is the current one, or all its neighbours are     *)
(* known at their distance.                                                *)
Frontier ==
  source # 0 =>
    /\ current # 0 => current \in visited /\ EdgesBehind
    /\ \A i \in 1..Len(queue) : queue[i] \in visited
    /\ \A a \in visited : a = current \/ (\E i \in 1..Len(queue) : queue[i] = a) \/ Expanded(a)

(* The queue is sorted by distance and holds no more than two levels:      *)
(* nothing visited is further away than one from what waits.               *)
Levels ==
  source # 0 =>
    /\ \A i, j \in 1..Len(queue) : i < j => Dist(queue[i]) <= Dist(queue[j])
    /\ \A i \in 1..Len(queue), b \in visited : Dist(b) <= Dist(queue[i]) + 1
    /\ current # 0 =>
         /\ \A i \in 1..Len(queue) : Dist(current) <= Dist(queue[i])
         /\ \A b \in visited : Dist(b) <= Dist(current) + 1

GraphInv == GraphTypeOK /\ SourcesInTurn /\ PathsOfVisited /\ Frontier /\ Levels

-----------------------------------------------------------------------------
(* The invariant of the query.                                             *)

Chosen == {selected[i] : i \in 1..Len(selected)}
Scored == {e \in Entities : total_coverage(e) > 0}

(* The query finds the graph finished; before it has a match it has        *)
(* nothing.                                                                *)
InTurn ==
  /\ pc # "compile" => GraphDone
  /\ pc \in {"compile", "score"} => selected = <<>> /\ join_path = {}
  /\ pc \in {"cover", "matched", "order", "unreachable", "join", "planned"} => selected # <<>>
  /\ pc \in {"compile", "score", "cover", "matched"} => steps = <<>> /\ pending = {}
  /\ pc \in {"compile", "score", "cover", "matched", "order", "unreachable"} => joins = <<>>

(* Every entity that offers something is a candidate or selected.          *)
CandidatesKept == pc = "cover" => candidates = Scored \ Chosen

(* A match of several entities has every field.                            *)
MatchCovers ==
  /\ pc = "matched" /\ Len(selected) > 1 => Remaining = {}
  /\ pc \in {"order", "unreachable", "join", "planned"} => Remaining = {}

(* What is joined and what is pending are the match.                       *)
OrderPartition ==
  pc \in {"order", "unreachable", "join", "planned"} =>
    /\ pending \subseteq Others
    /\ Joined = {selected[i] : i \in (1..Len(selected)) \ pending}
    /\ Len(steps) + Cardinality(pending) = Len(selected) - 1
    /\ pc \in {"join", "planned"} => pending = {}

(* The requests are planned in the order of the match.                     *)
JoinsInOrder ==
  /\ Len(joins) <= Len(steps)
  /\ \A k \in 1..Len(joins) : joins[k] = selected[k + 1]
  /\ pc = "planned" => Len(joins) = Len(steps)

IInv ==
  /\ GraphInv /\ TypeOK /\ InTurn
  /\ CandidatesKept /\ MatchConnected /\ SelectionEarns /\ MatchCovers
  /\ OrderPartition /\ StepsAttach /\ JoinsInOrder
  /\ RefusalsJustified

-----------------------------------------------------------------------------
(* Every nonempty set of naturals has a least element.                     *)
LEMMA LeastNat ==
  ASSUME NEW T \in SUBSET Nat, T # {}
  PROVE  \E n \in T : \A m \in T : n <= m
<1> DEFINE below == {1..n : n \in T}
<1>1. below \subseteq FiniteSubsetsOf(Nat)
  <2>1. ASSUME NEW n \in T PROVE 1..n \in SUBSET Nat /\ IsFiniteSet(1..n)
    BY FS_Interval
  <2> QED BY <2>1 DEF FiniteSubsetsOf
<1>2. below # {}
  OBVIOUS
<1>3. IsWellFoundedOn(StrictSubsetOrdering(Nat), FiniteSubsetsOf(Nat))
  BY FS_StrictSubsetOrderingWellFounded
<1>4. PICK x \in below : \A y \in below : ~(<<y, x>> \in StrictSubsetOrdering(Nat))
  <2> HIDE DEF below
  <2> QED BY <1>1, <1>2, <1>3, WFMin
<1>5. PICK n \in T : x = 1..n
  OBVIOUS
<1>6. ASSUME NEW m \in T PROVE n <= m
  <2>1. SUFFICES ASSUME m < n PROVE FALSE
    OBVIOUS
  <2>2. 1..m \in below /\ 1..m \in SUBSET Nat /\ 1..n \in SUBSET Nat
    OBVIOUS
  <2>3. 1..m \subseteq 1..n BY <2>1
  <2>4. n \in 1..n /\ n \notin 1..m BY <2>1
  <2>5. 1..m # 1..n BY <2>4
  <2>6. <<1..m, 1..n>> \in StrictSubsetOrdering(Nat)
    BY <2>2, <2>3, <2>5 DEF StrictSubsetOrdering
  <2> QED BY <1>4, <1>5, <2>2, <2>6
<1> QED BY <1>6

(* A property of a sequence's first position that passes from each         *)
(* position to the next one, given as the set of positions that have it.   *)
LEMMA AlongSequence ==
  ASSUME NEW n \in Nat, NEW H, 1 \in H,
         \A i \in 1..n : i \in H => i + 1 \in H
  PROVE  \A i \in 1..(n + 1) : i \in H
<1> DEFINE T == {i \in 1..(n + 1) : i \notin H}
<1>1. SUFFICES ASSUME T # {} PROVE FALSE
  OBVIOUS
<1>2. PICK k \in T : \A m \in T : k <= m
  <2>1. T \in SUBSET Nat OBVIOUS
  <2> HIDE DEF T
  <2> QED BY <1>1, <2>1, LeastNat
<1>3. k \in 2..(n + 1)
  OBVIOUS
<1>4. k - 1 \in 1..n /\ k - 1 \notin T
  BY <1>2, <1>3
<1>5. k - 1 \in H
  BY <1>4
<1> QED BY <1>2, <1>3, <1>4, <1>5

-----------------------------------------------------------------------------
(* Chains of relationships.                                                *)

(* A chain over R does not leave a set that R does not lead out of.        *)
LEMMA WalkStaysIn ==
  ASSUME NEW R, NEW S, ClosedUnder(R, S),
         NEW p \in Seq(R), NEW s \in S, NEW t, IsWalk(p, s, t)
  PROVE  t \in S
<1>1. PICK v \in [1..(Len(p) + 1) -> Ends] :
        v[1] = s /\ v[Len(p) + 1] = t /\ \A i \in 1..Len(p) : Linked(p[i], v[i], v[i + 1])
  BY DEF IsWalk
<1> DEFINE H == {i \in 1..(Len(p) + 1) : v[i] \in S}
<1>2. Len(p) \in Nat
  OBVIOUS
<1>3. 1 \in H
  BY <1>1, <1>2
<1>4. ASSUME NEW i \in 1..Len(p), i \in H PROVE i + 1 \in H
  <2>1. p[i] \in R BY <1>2, ElementOfSeq
  <2>2. Linked(p[i], v[i], v[i + 1]) BY <1>1
  <2>3. v[i + 1] \in S BY <1>4, <2>1, <2>2 DEF ClosedUnder, Linked
  <2> QED BY <1>2, <2>3
<1>5. \A i \in 1..(Len(p) + 1) : i \in H
  <2> HIDE DEF H
  <2> QED BY <1>2, <1>3, <1>4, AlongSequence
<1> QED BY <1>1, <1>2, <1>5

LEMMA WalkReaches ==
  ASSUME NEW R, NEW p \in Seq(R), NEW s, NEW t \in Ends, IsWalk(p, s, t)
  PROVE  t \in ReachOver(R, s)
  BY WalkStaysIn DEF ReachOver

(* The empty chain, and a chain that goes on over one more relationship.   *)
LEMMA WalkNowhere ==
  ASSUME NEW s \in Ends
  PROVE  IsWalk(<<>>, s, s)
<1> DEFINE v == [i \in 1..1 |-> s]
<1>1. v \in [1..(Len(<<>>) + 1) -> Ends] /\ v[1] = s /\ v[Len(<<>>) + 1] = s
  OBVIOUS
<1>2. \A i \in 1..Len(<<>>) : FALSE
  OBVIOUS
<1> QED BY <1>1, <1>2 DEF IsWalk

LEMMA WalkOn ==
  ASSUME NEW p \in Seq(Rels), NEW s, NEW a, NEW t \in Ends, NEW r \in Rels,
         IsWalk(p, s, a), Linked(r, a, t)
  PROVE  IsWalk(Append(p, r), s, t)
<1>1. PICK v \in [1..(Len(p) + 1) -> Ends] :
        v[1] = s /\ v[Len(p) + 1] = a /\ \A i \in 1..Len(p) : Linked(p[i], v[i], v[i + 1])
  BY DEF IsWalk
<1> DEFINE q == Append(p, r)
           w == [i \in 1..(Len(p) + 2) |-> IF i = Len(p) + 2 THEN t ELSE v[i]]
<1>2. /\ Len(p) \in Nat /\ Len(q) = Len(p) + 1
      /\ q[Len(p) + 1] = r /\ \A i \in 1..Len(p) : q[i] = p[i]
  OBVIOUS
<1>3. w \in [1..(Len(q) + 1) -> Ends]
  BY <1>2
<1>4. w[1] = s /\ w[Len(q) + 1] = t /\ w[Len(p) + 1] = a
  BY <1>1, <1>2
<1>5. ASSUME NEW i \in 1..Len(q) PROVE Linked(q[i], w[i], w[i + 1])
  <2>1. CASE i = Len(p) + 1
    <3>1. q[i] = r /\ w[i] = a /\ w[i + 1] = t BY <1>2, <1>4, <2>1
    <3> QED BY <3>1
  <2>2. CASE i \in 1..Len(p)
    <3>1. q[i] = p[i] /\ w[i] = v[i] /\ w[i + 1] = v[i + 1] BY <1>2, <2>2
    <3> QED BY <1>1, <2>2, <3>1
  <2> QED BY <1>2, <2>1, <2>2
<1> HIDE DEF q, w
<1>6. IsWalk(q, s, t) BY <1>3, <1>4, <1>5 DEF IsWalk
<1> QED BY <1>6 DEF q

(* The relationships are fixed, so are chains, and what a search has left  *)
(* behind if its paths are.                                                *)
LEMMA LinkedFixed ==
  ASSUME relationships' = relationships, NEW r, NEW a, NEW b
  PROVE  Linked(r, a, b)' <=> Linked(r, a, b)
  BY DEF Linked

LEMMA WalkFixed ==
  ASSUME relationships' = relationships, NEW p, NEW s, NEW t
  PROVE  IsWalk(p, s, t)' <=> IsWalk(p, s, t)
  BY LinkedFixed DEF IsWalk

LEMMA ReachFixed ==
  ASSUME relationships' = relationships, NEW R, NEW s
  PROVE  ReachOver(R, s)' = ReachOver(R, s)
  BY DEF ReachOver, ClosedUnder

LEMMA WithinFixed ==
  ASSUME relationships' = relationships, NEW n, NEW s, NEW t
  PROVE  Within(n, s, t)' <=> Within(n, s, t)
  BY LinkedFixed DEF Within

LEMMA ShortestFixed ==
  ASSUME relationships' = relationships, NEW s, paths'[s] = paths[s]
  PROVE  ShortestFrom(s)' <=> ShortestFrom(s)
  BY WalkFixed, ReachFixed, WithinFixed DEF ShortestFrom

-----------------------------------------------------------------------------
(* The search.                                                             *)

LEMMA InitGraph == GraphInit => GraphInv
<1> SUFFICES ASSUME GraphInit PROVE GraphInv
  OBVIOUS
<1> USE GraphAssumption DEF GraphInit
<1>1. GraphTypeOK
  <2>1. <<>> \in Seq(Rels) /\ <<>> \in Seq(Ends) OBVIOUS
  <2>2. relationships \in [Rels -> [from : Ends, to : Ends]] OBVIOUS
  <2> QED BY <2>1, <2>2 DEF GraphTypeOK, Ends
<1>2. SourcesInTurn
  BY DEF SourcesInTurn
<1>3. PathsOfVisited /\ Frontier /\ Levels
  BY DEF PathsOfVisited, Frontier, Levels
<1> QED BY <1>1, <1>2, <1>3 DEF GraphInv

LEMMA BeginSourceInv ==
  ASSUME GraphInv, NEW s \in Entities, BeginSource(s)
  PROVE  GraphInv'
<1>1. /\ source = 0 /\ s \in sources
      /\ sources' = sources \ {s} /\ source' = s /\ visited' = {s} /\ queue' = <<s>>
      /\ UNCHANGED <<relationships, current, edge, paths>>
  BY DEF BeginSource, IsLeast
<1>2. s \in Ends /\ s # 0 /\ current = 0
  BY <1>1, GraphAssumption DEF GraphInv, SourcesInTurn, Ends
<1>3. paths[s] = [t \in Ends |-> <<>>]
  BY <1>1 DEF GraphInv, SourcesInTurn
<1>4. GraphTypeOK'
  <2>1. <<s>> \in Seq(Ends) BY <1>2
  <2> QED BY <1>1, <1>2, <2>1 DEF GraphInv, GraphTypeOK
<1>5. SourcesInTurn'
  <2>1. ASSUME NEW u \in Entities \ sources', u # source' PROVE ShortestFrom(u)'
    <3>1. ShortestFrom(u)
      BY <1>1, <2>1, GraphAssumption DEF GraphInv, SourcesInTurn, Ends
    <3> QED BY <1>1, <3>1, ShortestFixed
  <2> QED BY <1>1, <1>2, <2>1 DEF GraphInv, SourcesInTurn
<1>6. PathsOfVisited'
  <2>1. IsWalk(<<>>, s, s)'
    BY <1>1, <1>2, WalkNowhere, WalkFixed
  <2> QED BY <1>1, <1>2, <1>3, <2>1 DEF PathsOfVisited
<1>7. /\ Len(queue') = 1 /\ queue'[1] = s /\ \A i \in 1..Len(queue') : i = 1
  BY <1>1
<1>8. Frontier'
  BY <1>1, <1>2, <1>7 DEF Frontier
<1>9. Levels'
  <2>1. Dist(s)' = 0
    BY <1>1, <1>2, <1>3 DEF Dist
  <2> QED BY <1>1, <1>2, <1>7, <2>1 DEF Levels
<1> QED BY <1>4, <1>5, <1>6, <1>8, <1>9 DEF GraphInv

(* Steps that touch neither paths nor the search's place among the sources *)
(* keep what does not depend on the queue.                                 *)
LEMMA PathsKept ==
  ASSUME GraphInv, UNCHANGED <<relationships, sources, source, visited, paths>>, source # 0
  PROVE  /\ SourcesInTurn'
         /\ PathsOfVisited'
         /\ \A a \in visited : Dist(a)' = Dist(a)
         /\ \A a \in visited : Expanded(a) => Expanded(a)'
<1>1. ASSUME NEW u \in Entities \ sources, u # source PROVE ShortestFrom(u)'
  BY <1>1, ShortestFixed DEF GraphInv, SourcesInTurn
<1>2. SourcesInTurn'
  BY <1>1 DEF GraphInv, SourcesInTurn
<1>3. PathsOfVisited'
  BY WalkFixed DEF GraphInv, PathsOfVisited
<1>4. \A a : Dist(a)' = Dist(a)
  BY DEF Dist
<1>5. \A a \in visited : Expanded(a) => Expanded(a)'
  BY <1>4, LinkedFixed DEF Expanded, Relaxed
<1> QED BY <1>2, <1>3, <1>4, <1>5

LEMMA PopFrontInv ==
  ASSUME GraphInv, PopFront
  PROVE  GraphInv'
<1>1. /\ source # 0 /\ current = 0 /\ queue # <<>> /\ queue \in Seq(Ends)
      /\ current' = Head(queue) /\ queue' = Tail(queue) /\ edge' = 1
      /\ UNCHANGED <<relationships, sources, source, visited, paths>>
  BY DEF PopFront, GraphInv, GraphTypeOK
<1>2. /\ Len(queue) \in Nat \ {0}
      /\ Head(queue) = queue[1] /\ queue[1] \in Ends
      /\ Tail(queue) \in Seq(Ends) /\ Len(queue') = Len(queue) - 1
      /\ \A i \in 1..Len(queue') : queue'[i] = queue[i + 1]
  BY <1>1, EmptySeq, HeadTailProperties
<1>3. \A i \in 1..Len(queue') : i + 1 \in 1..Len(queue)
  BY <1>2
<1>4. /\ SourcesInTurn' /\ PathsOfVisited'
      /\ \A a \in visited : Dist(a)' = Dist(a)
      /\ \A a \in visited : Expanded(a) => Expanded(a)'
  BY <1>1, PathsKept
<1>5. \A i \in 1..Len(queue) : queue[i] \in visited
  BY <1>1 DEF GraphInv, Frontier
<1>6. GraphTypeOK'
  BY <1>1, <1>2, GraphAssumption DEF GraphInv, GraphTypeOK
<1>7. Frontier'
  <2>1. current' \in visited' /\ EdgesBehind'
    BY <1>1, <1>2, <1>5 DEF EdgesBehind
  <2>2. \A i \in 1..Len(queue') : queue'[i] \in visited'
    BY <1>1, <1>2, <1>3, <1>5
  <2>3. ASSUME NEW a \in visited'
        PROVE  a = current' \/ (\E i \in 1..Len(queue') : queue'[i] = a) \/ Expanded(a)'
    <3>1. a # 0
      BY <1>1, GraphAssumption DEF GraphInv, GraphTypeOK
    <3>2. (\E i \in 1..Len(queue) : queue[i] = a) \/ Expanded(a)
      BY <1>1, <3>1 DEF GraphInv, Frontier
    <3>3. ASSUME NEW i \in 1..Len(queue), queue[i] = a, i # 1
          PROVE  \E j \in 1..Len(queue') : queue'[j] = a
      <4>1. i - 1 \in 1..Len(queue') BY <1>2, <3>3
      <4>2. queue'[i - 1] = a BY <1>2, <3>3, <4>1
      <4> QED BY <4>1, <4>2
    <3> QED BY <1>1, <1>2, <1>4, <3>2, <3>3
  <2> QED BY <2>1, <2>2, <2>3 DEF Frontier
<1>8. Levels'
  <2>1. 1 \in 1..Len(queue) BY <1>2
  <2>2. \A i, j \in 1..Len(queue') : i < j => Dist(queue[i + 1]) <= Dist(queue[j + 1])
    BY <1>1, <1>2, <1>3 DEF GraphInv, Levels
  <2>3. \A i \in 1..Len(queue') : Dist(queue[1]) <= Dist(queue[i + 1])
    BY <1>1, <1>2, <1>3, <2>1 DEF GraphInv, Levels
  <2>4. \A i \in 1..Len(queue), b \in visited : Dist(b) <= Dist(queue[i]) + 1
    BY <1>1 DEF GraphInv, Levels
  <2>5. /\ \A i \in 1..Len(queue') : (Dist(queue[i]))' = Dist(queue[i + 1])
        /\ (Dist(current))' = Dist(queue[1])
        /\ \A b \in visited : (Dist(b))' = Dist(b)
    BY <1>1, <1>2, <1>3, <1>4 DEF Dist
  <2> QED BY <1>1, <1>3, <2>1, <2>2, <2>3, <2>4, <2>5 DEF Levels
<1> QED BY <1>4, <1>6, <1>7, <1>8 DEF GraphInv

(* An edge position stands for a relationship of the current name.         *)
LEMMA EdgeLinks ==
  ASSUME NEW e \in 1..(2 * NRels), NEW t, EdgeLeads(e, t)
  PROVE  RelOf(e) \in Rels /\ Linked(RelOf(e), current, t)
  BY GraphAssumption DEF EdgeLeads, RelOf, Linked, Rels

LEMMA DiscoverInv ==
  ASSUME GraphInv, NEW e \in 1..(2 * NRels), NEW t \in Ends, Discover(e, t)
  PROVE  GraphInv'
<1> DEFINE fresh == {x \in edge..(2 * NRels) : Fresh(x)}
           P == paths[source]
<1>1. /\ source # 0 /\ current # 0
      /\ IsLeast(e, fresh) /\ EdgeLeads(e, t) /\ t \notin visited
      /\ visited' = visited \cup {t}
      /\ paths' = [paths EXCEPT ![source][t] = Append(P[current], RelOf(e))]
      /\ queue' = Append(queue, t) /\ edge' = e + 1
      /\ UNCHANGED <<relationships, sources, source, current>>
  BY DEF Discover, PushBack
<1>2. /\ source \in Entities /\ current \in visited /\ current \in Ends
      /\ visited \subseteq Ends /\ queue \in Seq(Ends) /\ P \in [Ends -> Seq(Rels)]
      /\ edge \in Nat /\ NRels \in Nat /\ edge <= e /\ source \in visited
  BY <1>1, GraphAssumption DEF GraphInv, GraphTypeOK, Frontier, IsLeast, PathsOfVisited
<1>3. RelOf(e) \in Rels /\ Linked(RelOf(e), current, t)
  BY <1>1, EdgeLinks
<1>4. /\ paths'[source][t] = Append(P[current], RelOf(e))
      /\ \A u \in Ends \ {t} : paths'[source][u] = P[u]
      /\ \A s \in Entities \ {source} : paths'[s] = paths[s]
      /\ paths' \in [Entities -> [Ends -> Seq(Rels)]]
  <2>1. Append(P[current], RelOf(e)) \in Seq(Rels) BY <1>2, <1>3
  <2> QED BY <1>1, <1>2, <2>1 DEF GraphInv, GraphTypeOK
<1>5. /\ Len(queue) \in Nat
      /\ Len(queue') = Len(queue) + 1 /\ queue'[Len(queue) + 1] = t
      /\ \A i \in 1..Len(queue) : queue'[i] = queue[i] /\ queue[i] \in visited
      /\ queue' \in Seq(Ends)
  BY <1>1, <1>2, AppendProperties, LenProperties DEF GraphInv, Frontier
<1>6. /\ \A a \in visited : (Dist(a))' = Dist(a)
      /\ (Dist(t))' = Dist(current) + 1
      /\ \A a \in visited : Dist(a) \in Nat
  <2>1. Len(Append(P[current], RelOf(e))) = Len(P[current]) + 1
    BY <1>2, <1>3
  <2> QED BY <1>1, <1>2, <1>4, <2>1 DEF Dist
<1>7. GraphTypeOK'
  BY <1>1, <1>2, <1>4, <1>5 DEF GraphInv, GraphTypeOK
<1>8. SourcesInTurn'
  <2>1. \A s \in Entities \ sources : s # source => ShortestFrom(s)'
    BY <1>1, <1>4, ShortestFixed DEF GraphInv, SourcesInTurn
  <2>2. \A s \in sources : paths'[s] = paths[s]
    BY <1>1, <1>2, <1>4 DEF GraphInv, GraphTypeOK, SourcesInTurn
  <2> QED BY <1>1, <2>1, <2>2 DEF GraphInv, SourcesInTurn
<1>9. PathsOfVisited'
  <2>1. IsWalk(paths'[source][t], source, t)
    <3>1. IsWalk(P[current], source, current)
      BY <1>1, <1>2 DEF GraphInv, PathsOfVisited
    <3>2. P[current] \in Seq(Rels) BY <1>2
    <3> QED BY <1>3, <1>4, <3>1, <3>2, WalkOn
  <2>2. \A u \in visited : IsWalk(paths'[source][u], source, u)
    BY <1>1, <1>2, <1>4 DEF GraphInv, PathsOfVisited
  <2>3. \A u \in visited' : IsWalk(paths[source][u], source, u)'
    BY <1>1, <2>1, <2>2, WalkFixed
  <2>4. paths'[source][source] = <<>>
    BY <1>1, <1>2, <1>4 DEF GraphInv, PathsOfVisited, GraphTypeOK
  <2>5. paths'[source][t] # <<>>
    <3>1. P[current] \in Seq(Rels) BY <1>2
    <3>2. Append(P[current], RelOf(e)) # <<>> BY <1>3, <3>1, AppendProperties, EmptySeq
    <3> QED BY <1>4, <3>2
  <2>6. \A u \in Ends \ {source} : u \in visited' <=> paths'[source][u] # <<>>
    BY <1>1, <1>4, <2>5 DEF GraphInv, PathsOfVisited
  <2> QED BY <1>1, <1>2, <2>3, <2>4, <2>6 DEF PathsOfVisited
<1>10. Frontier'
  <2>1. EdgesBehind'
    <3> SUFFICES ASSUME NEW x \in 1..e, NEW u \in Ends, EdgeLeads(x, u)
                 PROVE  u \in visited'
      BY <1>1 DEF EdgesBehind, EdgeLeads
    <3>1. CASE x < edge
      <4>1. x \in 1..(edge - 1) BY <1>2, <3>1
      <4> QED BY <1>1, <4>1 DEF GraphInv, Frontier, EdgesBehind
    <3>2. CASE edge <= x /\ x < e
      <4>1. x \in edge..(2 * NRels) /\ x \notin fresh
        BY <1>1, <1>2, <3>2 DEF IsLeast
      <4> QED BY <1>1, <4>1 DEF Fresh
    <3>3. CASE x = e
      BY <1>1, <1>2, <3>3 DEF EdgeLeads
    <3> QED BY <1>2, <3>1, <3>2, <3>3
  <2>2. \A i \in 1..Len(queue') : queue'[i] \in visited'
    BY <1>1, <1>5
  <2>3. ASSUME NEW a \in visited'
        PROVE  a = current' \/ (\E i \in 1..Len(queue') : queue'[i] = a) \/ Expanded(a)'
    <3>1. CASE a = t
      <4>1. Len(queue) + 1 \in 1..Len(queue') BY <1>5
      <4> QED BY <1>5, <3>1, <4>1
    <3>2. CASE a # t
      <4>1. a \in visited BY <1>1, <3>2
      <4>2. a = current \/ (\E i \in 1..Len(queue) : queue[i] = a) \/ Expanded(a)
        BY <1>1, <4>1 DEF GraphInv, Frontier
      <4>3. ASSUME Expanded(a) PROVE Expanded(a)'
        BY <1>1, <1>6, <4>1, <4>3, LinkedFixed DEF Expanded, Relaxed
      <4>4. ASSUME NEW i \in 1..Len(queue), queue[i] = a
            PROVE  \E j \in 1..Len(queue') : queue'[j] = a
        BY <1>5, <4>4
      <4> QED BY <1>1, <4>2, <4>3, <4>4
    <3> QED BY <3>1, <3>2
  <2> QED BY <1>1, <1>2, <2>1, <2>2, <2>3 DEF Frontier
<1>11. Levels'
  <2>0. PICK n \in Nat : n = Len(queue)
    BY <1>5
  <2>1. /\ \A i, j \in 1..n : i < j => Dist(queue[i]) <= Dist(queue[j])
        /\ \A i \in 1..n, b \in visited : Dist(b) <= Dist(queue[i]) + 1
        /\ \A i \in 1..n : Dist(current) <= Dist(queue[i])
        /\ \A b \in visited : Dist(b) <= Dist(current) + 1
    BY <1>1, <2>0 DEF GraphInv, Levels
  <2>2. /\ \A i \in 1..n : (Dist(queue[i]))' = Dist(queue[i])
        /\ (Dist(queue[n + 1]))' = Dist(current) + 1
        /\ (Dist(current))' = Dist(current)
    BY <1>1, <1>2, <1>5, <1>6, <2>0 DEF Dist
  <2>3. \A i \in 1..Len(queue') : i \in 1..n \/ i = n + 1
    BY <1>5, <2>0
  <2>4. \A i \in 1..n : Dist(queue[i]) \in Nat
    BY <1>5, <1>6, <2>0
  <2>5. Dist(current) \in Nat
    BY <1>2, <1>6
  <2>6. ASSUME NEW i \in 1..Len(queue'), NEW j \in 1..Len(queue'), i < j
        PROVE  (Dist(queue[i]))' <= (Dist(queue[j]))'
    <3>1. i \in 1..n /\ (Dist(queue[i]))' = Dist(queue[i])
      BY <1>5, <2>0, <2>2, <2>6
    <3>2. CASE j \in 1..n
      BY <2>1, <2>2, <2>6, <3>1, <3>2
    <3>3. CASE j = n + 1
      BY <1>5, <2>0, <2>1, <2>2, <3>1, <3>3
    <3> QED BY <2>3, <3>2, <3>3
  <2>7. ASSUME NEW i \in 1..Len(queue'), NEW b \in visited'
        PROVE  (Dist(b))' <= (Dist(queue[i]))' + 1
    <3>1. (Dist(b))' \in Nat /\ (Dist(b))' <= Dist(current) + 1
      BY <1>1, <1>6, <2>1, <2>5
    <3>2. (Dist(queue[i]))' \in Nat /\ Dist(current) <= (Dist(queue[i]))'
      BY <2>1, <2>2, <2>3, <2>4, <2>5
    <3> QED BY <2>5, <3>1, <3>2
  <2>8. \A i \in 1..Len(queue') : (Dist(current))' <= (Dist(queue[i]))'
    BY <2>1, <2>2, <2>3, <2>5
  <2>9. \A b \in visited' : (Dist(b))' <= (Dist(current))' + 1
    BY <1>1, <1>6, <2>1, <2>2, <2>5
  <2> QED BY <2>6, <2>7, <2>8, <2>9 DEF Levels
<1> QED BY <1>7, <1>8, <1>9, <1>10, <1>11 DEF GraphInv

LEMMA EdgesDoneInv ==
  ASSUME GraphInv, EdgesDone
  PROVE  GraphInv'
<1>1. /\ source # 0 /\ current # 0 /\ current \in visited /\ current' = 0
      /\ \A e \in edge..(2 * NRels) : ~Fresh(e)
      /\ UNCHANGED <<relationships, sources, source, visited, queue, edge, paths>>
  BY DEF EdgesDone, GraphInv, Frontier
<1>2. /\ SourcesInTurn' /\ PathsOfVisited'
      /\ \A a \in visited : Dist(a)' = Dist(a)
      /\ \A a \in visited : Expanded(a) => Expanded(a)'
  BY <1>1, PathsKept
<1>3. GraphTypeOK'
  BY <1>1 DEF GraphInv, GraphTypeOK
<1>4. Expanded(current)
  <2> SUFFICES ASSUME NEW r \in Rels, NEW b \in Ends, Linked(r, current, b)
               PROVE  b \in visited
    BY <1>1 DEF GraphInv, Levels, Expanded, Relaxed
  <2>1. \E e \in 1..(2 * NRels) : EdgeLeads(e, b)
    <3>1. CASE relationships[r].from = current /\ relationships[r].to = b
      <4>1. r \in 1..(2 * NRels) /\ r <= NRels BY GraphAssumption DEF Rels
      <4> QED BY <3>1, <4>1 DEF EdgeLeads
    <3>2. CASE relationships[r].to = current /\ relationships[r].from = b
      <4>1. NRels + r \in 1..(2 * NRels) /\ NRels + r > NRels /\ NRels + r - NRels = r
        BY GraphAssumption DEF Rels
      <4>2. EdgeLeads(NRels + r, b) BY <3>2, <4>1, GraphAssumption DEF EdgeLeads, Rels
      <4> QED BY <4>1, <4>2
    <3> QED BY <3>1, <3>2 DEF Linked
  <2>2. PICK e \in 1..(2 * NRels) : EdgeLeads(e, b)
    BY <2>1
  <2>3. CASE e \in edge..(2 * NRels)
    BY <1>1, <2>2, <2>3 DEF Fresh
  <2>4. CASE e \in 1..(edge - 1)
    BY <1>1, <2>2, <2>4 DEF GraphInv, Frontier, EdgesBehind
  <2> QED BY <2>3, <2>4, GraphAssumption DEF GraphInv, GraphTypeOK
<1>5. Frontier'
  BY <1>1, <1>2, <1>4 DEF GraphInv, Frontier
<1>6. Levels'
  <2>1. \A a : (Dist(a))' = Dist(a) BY <1>1 DEF Dist
  <2>2. \A i : (Dist(queue[i]))' = Dist(queue[i]) BY <1>1 DEF Dist
  <2> QED BY <1>1, <2>1, <2>2 DEF GraphInv, Levels
<1> QED BY <1>2, <1>3, <1>5, <1>6 DEF GraphInv

(* In a set whose neighbours are all known at their distance, a chain of n *)
(* relationships leads no further than n.                                  *)
LEMMA ChainBound ==
  ASSUME GraphInv, source # 0, \A a \in visited : Expanded(a),
         NEW n \in Nat, NEW t, Within(n, source, t)
  PROVE  t \in visited /\ Dist(t) <= n
<1>1. PICK v \in [1..(n + 1) -> Ends] :
        /\ v[1] = source /\ v[n + 1] = t
        /\ \A i \in 1..n : \E r \in Rels : Linked(r, v[i], v[i + 1])
  BY DEF Within
<1> DEFINE H == {i \in 1..(n + 1) : v[i] \in visited /\ Dist(v[i]) <= i - 1}
<1>2. \A a \in visited : Dist(a) \in Nat
  BY DEF GraphInv, GraphTypeOK, Dist
<1>3. 1 \in H
  <2>1. source \in visited /\ Dist(source) = 0
    BY DEF GraphInv, PathsOfVisited, Dist
  <2> QED BY <1>1, <2>1
<1>4. ASSUME NEW i \in 1..n, i \in H PROVE i + 1 \in H
  <2>1. PICK r \in Rels : Linked(r, v[i], v[i + 1])
    BY <1>1
  <2>2. v[i] \in visited /\ Dist(v[i]) <= i - 1 /\ v[i + 1] \in Ends
    BY <1>4
  <2>3. v[i + 1] \in visited /\ Dist(v[i + 1]) <= Dist(v[i]) + 1
    BY <2>1, <2>2 DEF Expanded, Relaxed
  <2>4. Dist(v[i + 1]) <= (i + 1) - 1
    BY <1>2, <2>2, <2>3
  <2> QED BY <2>3, <2>4
<1>5. n + 1 \in H
  <2>1. \A i \in 1..(n + 1) : i \in H
    <3> HIDE DEF H
    <3> QED BY <1>3, <1>4, AlongSequence
  <2> QED BY <2>1
<1> QED BY <1>1, <1>5

(* A search that has nothing left to expand has found exactly the names    *)
(* connected with its source, each at its distance.                        *)
LEMMA SearchComplete ==
  ASSUME GraphInv, source # 0, current = 0, queue = <<>>
  PROVE  ShortestFrom(source)
<1>1. /\ source \in Ends /\ visited \subseteq Ends /\ source \in visited
      /\ relationships \in [Rels -> [from : Ends, to : Ends]]
      /\ paths[source] \in [Ends -> Seq(Rels)]
  BY DEF GraphInv, GraphTypeOK, PathsOfVisited, Ends
<1>2. \A a \in visited : Expanded(a)
  <2>1. \A i \in 1..Len(queue) : FALSE OBVIOUS
  <2>2. 0 \notin visited BY <1>1, GraphAssumption
  <2> QED BY <2>1, <2>2 DEF GraphInv, Frontier
<1>3. ClosedUnder(Rels, visited)
  BY <1>1, <1>2 DEF ClosedUnder, Expanded, Relaxed, Linked
<1>4. ASSUME NEW t \in Ends \ {source}
      PROVE  paths[source][t] # <<>> <=> t \in ReachOver(Rels, source)
  <2>1. paths[source][t] # <<>> <=> t \in visited
    BY DEF GraphInv, PathsOfVisited
  <2>2. ASSUME t \in visited PROVE t \in ReachOver(Rels, source)
    <3>1. IsWalk(paths[source][t], source, t) BY <2>2 DEF GraphInv, PathsOfVisited
    <3>2. paths[source][t] \in Seq(Rels) BY <1>1
    <3> QED BY <3>1, <3>2, WalkReaches
  <2>3. ASSUME t \in ReachOver(Rels, source) PROVE t \in visited
    BY <1>1, <1>3, <2>3 DEF ReachOver
  <2> QED BY <2>1, <2>2, <2>3
<1>5. ASSUME NEW t \in Ends \ {source}, paths[source][t] # <<>>
      PROVE  /\ IsWalk(paths[source][t], source, t)
             /\ \A n \in 0..(Len(paths[source][t]) - 1) : ~Within(n, source, t)
  <2>1. t \in visited /\ IsWalk(paths[source][t], source, t)
    BY <1>5 DEF GraphInv, PathsOfVisited
  <2>2. Len(paths[source][t]) \in Nat
    BY <1>1
  <2>3. ASSUME NEW n \in 0..(Len(paths[source][t]) - 1), Within(n, source, t) PROVE FALSE
    <3>1. n \in Nat /\ n < Len(paths[source][t]) BY <2>2
    <3>2. Dist(t) <= n BY <1>2, <2>3, <3>1, ChainBound
    <3> QED BY <2>2, <3>1, <3>2 DEF Dist
  <2> QED BY <2>1, <2>3
<1> QED BY <1>4, <1>5 DEF ShortestFrom

LEMMA EndSourceInv ==
  ASSUME GraphInv, EndSource
  PROVE  GraphInv'
<1>1. /\ source # 0 /\ current = 0 /\ queue = <<>> /\ source' = 0
      /\ UNCHANGED <<relationships, sources, visited, queue, current, edge, paths>>
  BY DEF EndSource
<1>2. ShortestFrom(source)
  BY <1>1, SearchComplete
<1>3. GraphTypeOK'
  BY <1>1 DEF GraphInv, GraphTypeOK
<1>4. SourcesInTurn'
  <2>1. ASSUME NEW s \in Entities \ sources PROVE ShortestFrom(s)'
    <3>1. ShortestFrom(s) BY <1>2 DEF GraphInv, SourcesInTurn
    <3> QED BY <1>1, <3>1, ShortestFixed
  <2> QED BY <1>1, <2>1 DEF GraphInv, SourcesInTurn
<1>5. PathsOfVisited' /\ Frontier' /\ Levels'
  BY <1>1 DEF PathsOfVisited, Frontier, Levels
<1> QED BY <1>3, <1>4, <1>5 DEF GraphInv

LEMMA GraphStays ==
  ASSUME GraphInv, UNCHANGED graphVars
  PROVE  GraphInv'
<1> USE DEF graphVars
<1>1. GraphTypeOK'
  BY DEF GraphInv, GraphTypeOK
<1>2. \A s \in Entities : ShortestFrom(s) => ShortestFrom(s)'
  BY ShortestFixed
<1>3. SourcesInTurn'
  BY <1>2 DEF GraphInv, SourcesInTurn
<1>4. CASE source = 0
  BY <1>1, <1>3, <1>4 DEF GraphInv, PathsOfVisited, Frontier, Levels
<1>5. CASE source # 0
  <2>1. PathsOfVisited' BY <1>5, PathsKept
  <2>2. \A a : Dist(a)' = Dist(a) BY DEF Dist
  <2>3. \A i : (Dist(queue[i]))' = Dist(queue[i]) BY DEF Dist
  <2>4. (Dist(current))' = Dist(current) BY DEF Dist
  <2>5. Levels' BY <2>2, <2>3, <2>4 DEF GraphInv, Levels
  <2>6. EdgesBehind' <=> EdgesBehind BY DEF EdgesBehind, EdgeLeads
  <2>7. \A a \in visited : Expanded(a) => Expanded(a)' BY <1>5, PathsKept
  <2>8. Frontier' BY <2>6, <2>7 DEF GraphInv, Frontier
  <2> QED BY <1>1, <1>3, <2>1, <2>5, <2>8 DEF GraphInv
<1> QED BY <1>4, <1>5

LEMMA StepGraph == GraphInv /\ [GraphNext]_graphVars => GraphInv'
  BY BeginSourceInv, PopFrontInv, DiscoverInv, EdgesDoneInv, EndSourceInv, GraphStays
     DEF GraphNext

(* What the finished graph promises.                                       *)
LEMMA GraphInvImplies == GraphInv => PathsAreShortest
  BY GraphAssumption DEF GraphInv, SourcesInTurn, PathsAreShortest, GraphDone, Ends

-----------------------------------------------------------------------------
(* The query: operators.                                                   *)

(* What an entity offers is finite, and it is scored iff it is something.  *)
LEMMA Coverage ==
  ASSUME iface \in Interfaces, NEW e \in Entities
  PROVE  /\ all_covered(e) \subseteq Fields /\ IsFiniteSet(all_covered(e))
         /\ total_coverage(e) > 0 <=> all_covered(e) # {}
<1>1. /\ iface.group_by[e] \subseteq Fields /\ iface.measures[e] \subseteq Fields
      /\ iface.metrics[e] \subseteq Fields /\ IsFiniteSet(Fields)
  BY FieldsAssumption
<1>2. /\ IsFiniteSet(iface.group_by[e]) /\ IsFiniteSet(iface.measures[e])
      /\ IsFiniteSet(iface.metrics[e])
  BY <1>1, FS_Subset
<1>3. \A S : IsFiniteSet(S) => Cardinality(S) \in Nat /\ (Cardinality(S) = 0 <=> S = {})
  BY FS_CardinalityType, FS_EmptySet
<1>4. all_covered(e) \subseteq Fields
  BY <1>1 DEF all_covered
<1>5. IsFiniteSet(all_covered(e))
  BY <1>1, <1>4, FS_Subset
<1>6. /\ Cardinality(iface.group_by[e]) \in Nat /\ Cardinality(iface.measures[e]) \in Nat
      /\ Cardinality(iface.metrics[e]) \in Nat
  BY <1>2, <1>3
<1>7. total_coverage(e) = 0 <=> all_covered(e) = {}
  <2>1. total_coverage(e) = 0 <=> /\ Cardinality(iface.group_by[e]) = 0
                                  /\ Cardinality(iface.measures[e]) = 0
                                  /\ Cardinality(iface.metrics[e]) = 0
    BY <1>6 DEF total_coverage, agg_coverage, group_by_coverage
  <2>2. all_covered(e) = {} <=> /\ iface.group_by[e] = {} /\ iface.measures[e] = {}
                                /\ iface.metrics[e] = {}
    BY DEF all_covered
  <2> QED BY <1>2, <1>3, <2>1, <2>2
<1>8. total_coverage(e) \in Nat
  BY <1>6 DEF total_coverage, agg_coverage, group_by_coverage
<1> QED BY <1>4, <1>5, <1>7, <1>8

LEMMA NewFieldsPositive ==
  ASSUME iface \in Interfaces, NEW c \in Entities
  PROVE  NewFields(c) > 0 <=> all_covered(c) \cap Remaining # {}
<1>1. IsFiniteSet(all_covered(c) \cap Remaining)
  BY Coverage, FS_Subset
<1> QED BY <1>1, FS_CardinalityType, FS_EmptySet DEF NewFields

(* No entity is selected twice.                                            *)
LEMMA SelectedOnce ==
  ASSUME SelectionEarns, selected \in Seq(Entities),
         NEW i \in 1..Len(selected), NEW j \in 1..Len(selected), selected[i] = selected[j]
  PROVE  i = j
<1>1. ASSUME NEW a \in 1..Len(selected), NEW b \in 1..Len(selected), b < a,
             selected[a] = selected[b]
      PROVE  FALSE
  <2>1. a \in 2..Len(selected) /\ b \in 1..(a - 1)
    BY <1>1
  <2>2. all_covered(selected[a]) \subseteq UNION {all_covered(selected[k]) : k \in 1..(a - 1)}
    BY <1>1, <2>1
  <2> QED BY <2>1, <2>2 DEF SelectionEarns
<1> QED BY <1>1

(* A query step leaves the graph alone.                                    *)
LEMMA GraphOfQuery ==
  ASSUME [Next]_vars, pc # "compile"
  PROVE  UNCHANGED graphVars
  BY DEF Next, vars, Compile, Request, Score, Select, NoCover, CoverDone, PlanSingle, PlanJoin,
         OrderNext, Unreachable, OrderDone, JoinNext, FinalProjection, PlanFails

LEMMA RelationshipsFixed == [Next]_vars => relationships' = relationships
<1>1. GraphNext => relationships' = relationships
  BY DEF GraphNext, BeginSource, PopFront, Discover, EdgesDone, EndSource
<1> QED BY <1>1 DEF Next, vars, graphVars, Compile, Request, Score, Select, NoCover, CoverDone,
         PlanSingle, PlanJoin, OrderNext, Unreachable, OrderDone, JoinNext, FinalProjection, PlanFails

LEMMA StepGraphOfQuery == GraphInv /\ [Next]_vars => GraphInv'
<1> SUFFICES ASSUME GraphInv, [Next]_vars PROVE GraphInv'
  OBVIOUS
<1>1. [GraphNext]_graphVars
  BY DEF Next, vars, Compile, Request, Score, Select, NoCover, CoverDone, PlanSingle, PlanJoin,
         OrderNext, Unreachable, OrderDone, JoinNext, FinalProjection, PlanFails
<1> QED BY <1>1, StepGraph

-----------------------------------------------------------------------------
(* The query: steps.                                                       *)

LEMMA InitQuery == Init => IInv
<1> SUFFICES ASSUME Init PROVE IInv
  OBVIOUS
<1> USE DEF Init
<1>1. GraphInv BY InitGraph
<1>2. TypeOK BY <1>1 DEF TypeOK, GraphInv
<1>3. InTurn /\ CandidatesKept /\ MatchCovers /\ OrderPartition /\ JoinsInOrder
  BY DEF InTurn, CandidatesKept, MatchCovers, OrderPartition, JoinsInOrder
<1>4. MatchConnected /\ SelectionEarns /\ StepsAttach
  BY DEF MatchConnected, SelectionEarns, StepsAttach
<1>5. RefusalsJustified
  BY DEF RefusalsJustified, RefusalJustified, GivesUpJustified
<1> QED BY <1>1, <1>2, <1>3, <1>4, <1>5 DEF IInv

LEMMA StepType == TypeOK /\ InTurn /\ OrderPartition /\ GraphInv' /\ [Next]_vars => TypeOK'
<1> SUFFICES ASSUME TypeOK, InTurn, OrderPartition, GraphInv', [Next]_vars PROVE TypeOK'
  OBVIOUS
<1>0. GraphTypeOK' BY DEF GraphInv
<1> USE <1>0 DEF TypeOK, matchVars, orderVars
<1>1. CASE Compile BY <1>1 DEF Compile
<1>2. ASSUME NEW offered \in Interfaces, Request(offered) PROVE TypeOK'
  BY <1>2 DEF Request
<1>3. CASE Score
  <2>1. selected' \in Seq(Entities) /\ candidates' \subseteq Entities
        /\ pc' \in {"no_cover", "matched", "cover"}
    <3>1. CASE UNCHANGED <<candidates, selected>> /\ pc' = "no_cover"
      BY <3>1
    <3>2. ASSUME NEW best \in Scored, selected' = <<best>>, candidates' = Scored \ {best},
                 pc' \in {"matched", "cover"}
          PROVE  selected' \in Seq(Entities) /\ candidates' \subseteq Entities
      BY <3>2 DEF Scored
    <3> QED BY <1>3, <3>1, <3>2 DEF Score, Scored
  <2>2. pending' \subseteq 1..Len(selected')
    BY <1>3 DEF Score, InTurn
  <2> QED BY <1>3, <2>1, <2>2 DEF Score
<1>4. ASSUME NEW c \in Entities, Select(c) PROVE TypeOK'
  <2>1. selected' = Append(selected, c) /\ candidates' \subseteq Entities /\ pc' = pc
        /\ pc = "cover" /\ UNCHANGED <<graphVars, iface, orderVars, joins>>
    BY <1>4 DEF Select
  <2>2. join_path' \subseteq Rels
    <3>1. PICK i \in 1..Len(selected) : PathTo(c, i) /\ join_path' = join_path \cup PathRels(i, c)
      BY <1>4 DEF Select
    <3>2. ShortestPath(i, c) \in Seq(Rels)
      <4>1. selected[i] \in Entities /\ selected[i] \in Ends /\ c \in Ends
        BY ElementOfSeq DEF Ends
      <4> QED BY <4>1, SMTT(30) DEF ShortestPath, GraphTypeOK
    <3>3. PathRels(i, c) \subseteq Rels BY <3>2, ElementOfSeq DEF PathRels
    <3> QED BY <3>1, <3>3
  <2>3. selected' \in Seq(Entities) BY <2>1
  <2>4. pending' \subseteq 1..Len(selected') BY <2>1 DEF InTurn
  <2> QED BY <2>1, <2>2, <2>3, <2>4
<1>5. CASE NoCover \/ CoverDone \/ PlanSingle
  BY <1>5 DEF NoCover, CoverDone, PlanSingle
<1>6. CASE PlanJoin
  BY <1>6 DEF PlanJoin, Others
<1>7. ASSUME NEW i \in 1..Len(selected), NEW r \in Rels, NEW rev \in BOOLEAN, OrderNext(i, r, rev)
      PROVE  TypeOK'
  <2>1. selected[i] \in Entities BY ElementOfSeq
  <2>2. [entity |-> selected[i], rel |-> r, reversed |-> rev] \in JoinStep
    BY <2>1 DEF JoinStep
  <2>3. steps' \in Seq(JoinStep) BY <1>7, <2>2 DEF OrderNext
  <2> QED BY <1>7, <2>3 DEF OrderNext
<1>8. CASE Unreachable \/ OrderDone \/ FinalProjection \/ PlanFails
  BY <1>8 DEF Unreachable, OrderDone, FinalProjection, PlanFails
<1>9. CASE JoinNext
  <2>1. /\ pc = "join" /\ pc' = pc /\ Len(joins) < Len(steps)
        /\ joins' = Append(joins, selected[Len(joins) + 2])
        /\ UNCHANGED <<iface, matchVars, orderVars>>
    BY <1>9 DEF JoinNext, RequestOfStep
  <2>2. Len(steps) = Len(selected) - 1
    <3>1. Cardinality({}) = 0 BY FS_EmptySet
    <3>2. pending = {} /\ Len(steps) + Cardinality(pending) = Len(selected) - 1
      BY <2>1 DEF OrderPartition
    <3> QED BY <3>1, <3>2
  <2>3. selected[Len(joins) + 2] \in Entities
    BY <2>1, <2>2, ElementOfSeq
  <2> QED BY <2>1, <2>3
<1>10. CASE UNCHANGED vars
  BY <1>10 DEF vars
<1> QED BY <1>1, <1>2, <1>3, <1>4, <1>5, <1>6, <1>7, <1>8, <1>9, <1>10 DEF Next

LEMMA StepInTurn == TypeOK /\ InTurn /\ [Next]_vars => InTurn'
<1> SUFFICES ASSUME TypeOK, InTurn, [Next]_vars PROVE InTurn'
  OBVIOUS
<1> USE DEF InTurn, matchVars, orderVars, graphVars, GraphDone
<1>1. CASE Compile BY <1>1 DEF Compile
<1>2. ASSUME NEW offered \in Interfaces, Request(offered) PROVE InTurn'
  BY <1>2 DEF Request
<1>3. CASE Score
  <2>1. pc' \in {"cover", "matched"} => selected' # <<>>
    BY <1>3 DEF Score
  <2> QED BY <1>3, <2>1 DEF Score
<1>4. ASSUME NEW c \in Entities, Select(c) PROVE InTurn'
  <2>1. Append(selected, c) # <<>> BY DEF TypeOK
  <2> QED BY <1>4, <2>1 DEF Select
<1>5. CASE NoCover \/ CoverDone \/ PlanSingle \/ PlanJoin
  BY <1>5 DEF NoCover, CoverDone, PlanSingle, PlanJoin
<1>6. ASSUME NEW i \in 1..Len(selected), NEW r \in Rels, NEW rev \in BOOLEAN, OrderNext(i, r, rev)
      PROVE  InTurn'
  BY <1>6 DEF OrderNext
<1>7. CASE Unreachable \/ OrderDone \/ FinalProjection \/ PlanFails \/ JoinNext
  BY <1>7 DEF Unreachable, OrderDone, FinalProjection, PlanFails, JoinNext
<1>8. CASE UNCHANGED vars
  BY <1>8 DEF vars
<1> QED BY <1>1, <1>2, <1>3, <1>4, <1>5, <1>6, <1>7, <1>8 DEF Next

(* Steps that leave the match alone keep what is said about it.            *)
LEMMA MatchKept ==
  ASSUME MatchConnected, SelectionEarns, UNCHANGED <<relationships, iface, selected, join_path>>
  PROVE  MatchConnected' /\ SelectionEarns' /\ Remaining' = Remaining /\ Chosen' = Chosen
         /\ Scored' = Scored
<1>1. \A e : all_covered(e)' = all_covered(e) BY DEF all_covered
<1>2. \A i : (all_covered(selected[i]))' = all_covered(selected[i]) BY DEF all_covered
<1>3. MatchConnected' BY ReachFixed DEF MatchConnected
<1>4. SelectionEarns' BY <1>2 DEF SelectionEarns
<1>5. Remaining' = Remaining BY <1>2 DEF Remaining, Covered
<1>6. Chosen' = Chosen BY DEF Chosen
<1>7. Scored' = Scored BY DEF Scored, total_coverage, agg_coverage, group_by_coverage
<1> QED BY <1>3, <1>4, <1>5, <1>6, <1>7

(* A relationship more does not lead to less.                              *)
LEMMA ReachGrows ==
  ASSUME NEW R, NEW Q, R \subseteq Q, NEW s
  PROVE  ReachOver(R, s) \subseteq ReachOver(Q, s)
  BY DEF ReachOver, ClosedUnder

(* A path in either direction, with its relationships among R, connects.   *)
LEMMA PathConnects ==
  ASSUME GraphInv, GraphDone, NEW R \in SUBSET Rels, NEW a \in Entities, NEW b \in Entities, NEW u,
         a # b, paths[a][b] # <<>>, {paths[a][b][k] : k \in 1..Len(paths[a][b])} \subseteq R
  PROVE  a \in ReachOver(R, u) <=> b \in ReachOver(R, u)
<1>1. a \in Ends /\ b \in Ends /\ paths[a][b] \in Seq(Rels)
  BY DEF GraphInv, GraphTypeOK, Ends
<1>2. IsWalk(paths[a][b], a, b)
  BY <1>1, GraphInvImplies DEF PathsAreShortest, ShortestFrom
<1>3. paths[a][b] \in Seq(R)
  <2>1. \A k \in 1..Len(paths[a][b]) : paths[a][b][k] \in R OBVIOUS
  <2>2. DOMAIN paths[a][b] = 1..Len(paths[a][b]) /\ Len(paths[a][b]) \in Nat BY <1>1
  <2>3. paths[a][b] = [k \in 1..Len(paths[a][b]) |-> paths[a][b][k]] BY <1>1
  <2> QED BY <2>1, <2>2, <2>3, IsASeq
<1>4. ASSUME NEW S \in SUBSET Ends, ClosedUnder(R, S) PROVE a \in S <=> b \in S
  <2>1. a \in S => b \in S BY <1>2, <1>3, <1>4, WalkStaysIn
  <2>2. ClosedUnder(R, Ends \ S)
    BY <1>4 DEF ClosedUnder, GraphInv, GraphTypeOK
  <2>3. a \in Ends \ S => b \in Ends \ S
    BY <1>2, <1>3, <2>2, WalkStaysIn
  <2> QED BY <1>1, <2>1, <2>3
<1> QED BY <1>1, <1>4 DEF ReachOver

LEMMA ScoreMatch ==
  ASSUME TypeOK, InTurn, Score
  PROVE  CandidatesKept' /\ MatchConnected' /\ SelectionEarns' /\ MatchCovers'
<1>1. /\ pc = "score" /\ selected = <<>> /\ UNCHANGED <<relationships, iface, join_path>>
  BY DEF Score, InTurn, graphVars
<1>2. CASE UNCHANGED selected /\ pc' = "no_cover"
  BY <1>1, <1>2 DEF CandidatesKept, MatchConnected, SelectionEarns, MatchCovers
<1>3. ASSUME NEW best \in Scored, selected' = <<best>>, candidates' = Scored \ {best},
             pc' \in {"matched", "cover"}
      PROVE  CandidatesKept' /\ MatchConnected' /\ SelectionEarns' /\ MatchCovers'
  <2>1. Len(selected') = 1 /\ selected'[1] = best
    BY <1>3
  <2>2. Chosen' = {best}
    BY <2>1 DEF Chosen
  <2>3. Scored' = Scored
    BY <1>1 DEF Scored, total_coverage, agg_coverage, group_by_coverage
  <2>4. best \in Ends
    BY DEF Scored, Ends
  <2>5. MatchConnected'
    <3>1. best \in ReachOver(join_path, best)' BY <2>4 DEF ReachOver
    <3>2. ASSUME NEW i \in 1..Len(selected') PROVE selected'[i] = best /\ selected'[1] = best
      BY <2>1
    <3> QED BY <3>1, <3>2 DEF MatchConnected
  <2>6. SelectionEarns' BY <2>1 DEF SelectionEarns
  <2>7. CandidatesKept' BY <1>3, <2>2, <2>3 DEF CandidatesKept
  <2>8. MatchCovers' BY <1>3, <2>1 DEF MatchCovers
  <2> QED BY <2>5, <2>6, <2>7, <2>8
<1> QED BY <1>2, <1>3 DEF Score, Scored

(* The entity that is selected hangs on the match, has something new and   *)
(* was not selected before.                                                *)
LEMMA SelectMatch ==
  ASSUME IInv, NEW c \in Entities, Select(c)
  PROVE  CandidatesKept' /\ MatchConnected' /\ SelectionEarns' /\ MatchCovers'
<1>1. /\ pc = "cover" /\ pc' = "cover" /\ GraphDone
      /\ c \in candidates /\ NewFields(c) > 0
      /\ selected' = Append(selected, c) /\ candidates' = candidates \ {c}
      /\ UNCHANGED <<graphVars, relationships, paths, iface>>
  BY DEF IInv, Select, Eligible, InTurn, graphVars
<1>2. PICK i \in 1..Len(selected) : PathTo(c, i) /\ join_path' = join_path \cup PathRels(i, c)
  BY DEF Select
<1>3. PICK n \in Nat : n = Len(selected)
  BY DEF IInv, TypeOK
<1>4. /\ n # 0 /\ Len(selected') = n + 1 /\ selected'[n + 1] = c
      /\ \A k \in 1..n : selected'[k] = selected[k] /\ selected[k] \in Entities
      /\ selected \in Seq(Entities) /\ iface \in Interfaces
  BY <1>1, <1>3, EmptySeq DEF IInv, TypeOK, InTurn
<1>5. /\ \A e : all_covered(e)' = all_covered(e)
      /\ Scored' = Scored
  BY <1>1 DEF all_covered, Scored, total_coverage, agg_coverage, group_by_coverage
<1>6. candidates = Scored \ Chosen /\ c \notin Chosen
  BY <1>1 DEF IInv, CandidatesKept
<1>7. CandidatesKept'
  <2>1. Chosen' = Chosen \cup {c}
    BY <1>3, <1>4 DEF Chosen
  <2> QED BY <1>1, <1>5, <1>6, <2>1 DEF CandidatesKept
<1>8. MatchConnected'
  <2> DEFINE R == join_path \cup PathRels(i, c)
             a == selected[i]
             first == selected[1]
  <2>1. a \in Entities /\ c # a /\ c \in Ends /\ a \in Ends
    BY <1>3, <1>4, <1>6 DEF Chosen, Ends
  <2>2. \A k \in 1..n : selected[k] \in ReachOver(R, first)
    <3>1. join_path \subseteq R OBVIOUS
    <3> HIDE DEF R
    <3> QED BY <1>3, <3>1, ReachGrows DEF IInv, MatchConnected
  <2>3. a \in ReachOver(R, first)
    BY <1>3, <2>2
  <2>4. R \in SUBSET Rels
    <3>1. ShortestPath(i, c) \in Seq(Rels) BY <2>1 DEF ShortestPath, IInv, TypeOK, GraphTypeOK
    <3>2. PathRels(i, c) \subseteq Rels BY <3>1, ElementOfSeq DEF PathRels
    <3> QED BY <3>2 DEF IInv, TypeOK
  <2>5. PathRels(i, c) \subseteq R OBVIOUS
  <2>6. ASSUME paths[a][c] # <<>> PROVE c \in ReachOver(R, first)
    <3>1. {paths[a][c][k] : k \in 1..Len(paths[a][c])} \subseteq R
      BY <2>5, <2>6 DEF PathRels, ShortestPath
    <3> HIDE DEF R, a, first
    <3> QED BY <1>1, <2>1, <2>3, <2>4, <2>6, <3>1, PathConnects DEF IInv
  <2>7. ASSUME paths[a][c] = <<>>, paths[c][a] # <<>> PROVE c \in ReachOver(R, first)
    <3>1. {paths[c][a][k] : k \in 1..Len(paths[c][a])} \subseteq R
      BY <2>5, <2>7 DEF PathRels, ShortestPath
    <3> HIDE DEF R, a, first
    <3> QED BY <1>1, <2>1, <2>3, <2>4, <2>7, <3>1, PathConnects DEF IInv
  <2>8. c \in ReachOver(R, first)
    BY <1>2, <2>6, <2>7 DEF PathTo
  <2>9. selected'[1] = first
    BY <1>4
  <2>10. \A k \in 1..Len(selected') : selected'[k] \in ReachOver(R, first)
    <3> HIDE DEF R, first
    <3>1. \A k \in 1..Len(selected') : k = n + 1 \/ k \in 1..n BY <1>4
    <3> QED BY <1>4, <2>2, <2>8, <3>1
  <2>11. ReachOver(join_path, selected[1])' = ReachOver(R, first)
    BY <1>1, <1>2, <2>9 DEF ReachOver, ClosedUnder
  <2> QED BY <2>10, <2>11 DEF MatchConnected
<1>9. SelectionEarns'
  <2>1. PICK f \in all_covered(c) : f \in Remaining
    BY <1>1, <1>4, NewFieldsPositive
  <2>2. \A k \in 1..n : f \notin all_covered(selected[k])
    BY <1>3, <2>1 DEF Remaining, Covered
  <2>3. ASSUME NEW k \in 2..(n + 1)
        PROVE  (all_covered(selected[k]))'
                 \ UNION {(all_covered(selected[j]))' : j \in 1..(k - 1)} # {}
    <3>1. \A j \in 1..n : (all_covered(selected[j]))' = all_covered(selected[j])
      BY <1>1, <1>4 DEF all_covered
    <3>2. (all_covered(selected[n + 1]))' = all_covered(c)
      BY <1>1, <1>4 DEF all_covered
    <3>3. CASE k = n + 1
      <4>1. \A j \in 1..(k - 1) : f \notin (all_covered(selected[j]))'
        BY <2>2, <3>1, <3>3
      <4> QED BY <2>1, <3>2, <3>3, <4>1
    <3>4. CASE k \in 2..n
      <4>1. all_covered(selected[k]) \ UNION {all_covered(selected[j]) : j \in 1..(k - 1)} # {}
        BY <1>3, <3>4 DEF IInv, SelectionEarns
      <4>2. k \in 1..n /\ \A j \in 1..(k - 1) : j \in 1..n
        BY <3>4
      <4> QED BY <3>1, <4>1, <4>2
    <3> QED BY <3>3, <3>4
  <2> QED BY <1>4, <2>3 DEF SelectionEarns
<1>10. MatchCovers'
  BY <1>1 DEF MatchCovers
<1> QED BY <1>7, <1>8, <1>9, <1>10

LEMMA StepMatch ==
  IInv /\ [Next]_vars => CandidatesKept' /\ MatchConnected' /\ SelectionEarns' /\ MatchCovers'
<1> SUFFICES ASSUME IInv, [Next]_vars
             PROVE  CandidatesKept' /\ MatchConnected' /\ SelectionEarns' /\ MatchCovers'
  OBVIOUS
<1>0. relationships' = relationships BY RelationshipsFixed
<1>1. CASE Compile \/ \E offered \in Interfaces : Request(offered)
  <2>1. pc' \in {"compile", "score"} /\ selected = <<>> /\ selected' = <<>>
    BY <1>1 DEF Compile, Request, IInv, InTurn, matchVars
  <2> QED BY <2>1 DEF CandidatesKept, MatchConnected, SelectionEarns, MatchCovers
<1>2. CASE Score BY <1>2, ScoreMatch DEF IInv
<1>3. ASSUME NEW c \in Entities, Select(c)
      PROVE  CandidatesKept' /\ MatchConnected' /\ SelectionEarns' /\ MatchCovers'
  BY <1>3, SelectMatch
<1>4. ASSUME UNCHANGED <<iface, selected, join_path>>,
             pc' = "cover" => pc = "cover" /\ candidates' = candidates,
             Remaining = {} \/ pc' = pc \/ pc' \in {"no_cover", "single", "not_in_interface", "error"}
      PROVE  CandidatesKept' /\ MatchConnected' /\ SelectionEarns' /\ MatchCovers'
  <2>1. /\ MatchConnected' /\ SelectionEarns' /\ Remaining' = Remaining /\ Chosen' = Chosen
        /\ Scored' = Scored
    BY <1>0, <1>4, MatchKept DEF IInv
  <2>2. CandidatesKept' BY <1>4, <2>1 DEF CandidatesKept, IInv
  <2>3. MatchCovers' BY <1>4, <2>1 DEF MatchCovers, IInv
  <2> QED BY <2>1, <2>2, <2>3
<1> USE DEF matchVars
<1>5. CASE NoCover \/ CoverDone \/ PlanSingle
  BY <1>4, <1>5 DEF NoCover, CoverDone, PlanSingle
<1>6. CASE PlanJoin
  BY <1>4, <1>6 DEF PlanJoin, IInv, MatchCovers
<1>7. CASE \E i \in 1..Len(selected), r \in Rels, rev \in BOOLEAN : OrderNext(i, r, rev)
  BY <1>4, <1>7 DEF OrderNext
<1>8. CASE Unreachable \/ OrderDone \/ FinalProjection \/ PlanFails \/ JoinNext
  BY <1>4, <1>8 DEF Unreachable, OrderDone, FinalProjection, PlanFails, JoinNext, IInv, MatchCovers
<1>9. CASE UNCHANGED vars
  BY <1>4, <1>9 DEF vars
<1> QED BY <1>1, <1>2, <1>3, <1>5, <1>6, <1>7, <1>8, <1>9 DEF Next

Ordering == {"order", "unreachable", "join", "planned"}

LEMMA PlanJoinOrder ==
  ASSUME IInv, PlanJoin
  PROVE  OrderPartition'
<1>1. /\ pc = "matched" /\ pc' = "order" /\ steps = <<>> /\ steps' = <<>>
      /\ pending' = Others /\ selected' = selected /\ selected \in Seq(Entities)
      /\ Len(selected) > 1
  BY DEF PlanJoin, IInv, InTurn, matchVars, TypeOK
<1>2. PICK n \in Nat : n = Len(selected) /\ n > 1
  BY <1>1
<1>3. Joined' = {selected[1]}
  BY <1>1 DEF Joined
<1>4. (1..n) \ (2..n) = {1}
  BY <1>2
<1>5. {selected[i] : i \in (1..n) \ (2..n)} = {selected[1]}
  BY <1>4
<1>6. Cardinality(2..n) = n - 1
  BY <1>2, FS_Interval
<1> QED BY <1>1, <1>2, <1>3, <1>5, <1>6 DEF OrderPartition, Others

(* The entity that is joined next is one of the match that is not joined,  *)
(* and some relationship of the join path attaches it.                     *)
LEMMA OrderNextOrder ==
  ASSUME IInv, NEW i \in 1..Len(selected), NEW r \in Rels, NEW rev \in BOOLEAN, OrderNext(i, r, rev)
  PROVE  OrderPartition' /\ StepsAttach'
<1> DEFINE st == [entity |-> selected[i], rel |-> r, reversed |-> rev]
<1>1. /\ pc = "order" /\ pc' = "order" /\ i \in pending /\ Connects(selected[i], r, rev)
      /\ steps' = Append(steps, st) /\ pending' = pending \ {i}
      /\ UNCHANGED <<relationships, iface, selected, join_path>>
  BY DEF OrderNext, IsLeast, matchVars, graphVars
<1>2. /\ steps \in Seq(JoinStep) /\ selected \in Seq(Entities)
      /\ pending \subseteq Others
      /\ Joined = {selected[j] : j \in (1..Len(selected)) \ pending}
      /\ Len(steps) + Cardinality(pending) = Len(selected) - 1
  BY <1>1 DEF IInv, TypeOK, OrderPartition
<1>3. PICK m \in Nat : m = Len(steps)
  BY <1>2
<1>4. /\ Len(steps') = m + 1 /\ steps'[m + 1] = st
      /\ \A k \in 1..m : steps'[k] = steps[k]
  BY <1>1, <1>2, <1>3
<1>5. Joined' = Joined \cup {selected[i]}
  <2>1. {steps'[k].entity : k \in 1..(m + 1)} = {steps[k].entity : k \in 1..m} \cup {selected[i]}
    BY <1>4
  <2> QED BY <1>1, <1>3, <1>4, <2>1 DEF Joined
<1>6. selected[i] \notin Joined
  <2>1. \A j \in (1..Len(selected)) \ pending : selected[j] # selected[i]
    BY <1>1, <1>2, SelectedOnce DEF IInv
  <2> QED BY <1>2, <2>1
<1>7. OrderPartition'
  <2>1. (1..Len(selected)) \ pending' = ((1..Len(selected)) \ pending) \cup {i}
    BY <1>1
  <2>2. Joined' = {selected[j] : j \in (1..Len(selected)) \ pending'}
    BY <1>2, <1>5, <2>1
  <2>3. Cardinality(pending') = Cardinality(pending) - 1 /\ Cardinality(pending) \in Nat
    <3>1. IsFiniteSet(pending)
      <4>1. IsFiniteSet(1..Len(selected)) BY <1>2, FS_Interval
      <4> QED BY <4>1, FS_Subset DEF IInv, TypeOK
    <3> QED BY <1>1, <3>1, FS_RemoveElement, FS_CardinalityType
  <2>4. Len(steps') + Cardinality(pending') = Len(selected) - 1
    <3>1. m + Cardinality(pending) = Len(selected) - 1 /\ Len(selected) \in Nat BY <1>2, <1>3
    <3> QED BY <1>3, <1>4, <2>3, <3>1
  <2> QED BY <1>1, <1>2, <2>2, <2>4 DEF OrderPartition, Others
<1>8. StepsAttach'
  <2> DEFINE before(k) == {selected[1]} \cup {steps[j].entity : j \in 1..(k - 1)}
  <2>1. before(m + 1) = Joined
    BY <1>3 DEF Joined
  <2>2. ASSUME NEW k \in 1..(m + 1)
        PROVE  {selected'[1]} \cup {steps'[j].entity : j \in 1..(k - 1)} = before(k)
    <3>1. \A j \in 1..(k - 1) : j \in 1..m OBVIOUS
    <3> QED BY <1>1, <1>4, <3>1
  <2> DEFINE Attached(s, tree) ==
               /\ s.rel \in join_path
               /\ s.entity \notin tree
               /\ IF s.reversed
                    THEN relationships[s.rel].from = s.entity /\ relationships[s.rel].to \in tree
                    ELSE relationships[s.rel].to = s.entity /\ relationships[s.rel].from \in tree
  <2>3. ASSUME NEW k \in 1..(m + 1)
        PROVE  Attached(steps'[k], before(k))
    <3>1. CASE k = m + 1
      <4>1. steps'[k] = st BY <1>4, <3>1
      <4>2. before(k) = Joined BY <2>1, <3>1
      <4>3. Attached(st, Joined) BY <1>1, <1>6 DEF Connects
      <4> HIDE DEF before, Attached, st
      <4> QED BY <4>1, <4>2, <4>3
    <3>2. CASE k \in 1..m
      <4>1. steps'[k] = steps[k] BY <1>4, <3>2
      <4> QED BY <1>3, <3>2, <4>1 DEF IInv, StepsAttach
    <3> HIDE DEF before, Attached
    <3> QED BY <1>3, <3>1, <3>2
  <2> HIDE DEF before
  <2> QED BY <1>1, <1>4, <2>2, <2>3, SMTT(30) DEF StepsAttach
<1> QED BY <1>7, <1>8

LEMMA StepOrder == IInv /\ [Next]_vars => OrderPartition' /\ StepsAttach' /\ JoinsInOrder'
<1> SUFFICES ASSUME IInv, [Next]_vars PROVE OrderPartition' /\ StepsAttach' /\ JoinsInOrder'
  OBVIOUS
<1>0. relationships' = relationships BY RelationshipsFixed
<1> USE DEF matchVars, orderVars
<1>1. ASSUME pc \in {"compile", "score", "cover"}, pc' \notin Ordering,
             UNCHANGED <<steps, joins, pending>>
      PROVE  OrderPartition' /\ StepsAttach' /\ JoinsInOrder'
  <2>1. steps' = <<>> /\ joins' = <<>> BY <1>1 DEF IInv, InTurn
  <2> QED BY <1>1, <2>1 DEF OrderPartition, StepsAttach, JoinsInOrder, Ordering
<1>2. CASE Compile \/ (\E offered \in Interfaces : Request(offered)) \/ NoCover \/ CoverDone
  BY <1>1, <1>2 DEF Compile, Request, NoCover, CoverDone, Ordering
<1>3. CASE Score
  <2>1. pc' \in {"no_cover", "matched", "cover"} BY <1>3 DEF Score
  <2> QED BY <1>1, <1>3, <2>1 DEF Score, Ordering
<1>4. ASSUME NEW c \in Entities, Select(c) PROVE OrderPartition' /\ StepsAttach' /\ JoinsInOrder'
  BY <1>1, <1>4 DEF Select, Ordering
<1>5. ASSUME UNCHANGED <<selected, join_path, steps>>
      PROVE  StepsAttach' /\ Joined' = Joined
  BY <1>0, <1>5 DEF IInv, StepsAttach, Joined
<1>6. ASSUME UNCHANGED <<selected, steps, joins>>, pc' = "planned" => Len(joins) = Len(steps)
      PROVE  JoinsInOrder'
  BY <1>6 DEF IInv, JoinsInOrder
<1>7. CASE PlanSingle
  BY <1>5, <1>6, <1>7 DEF PlanSingle, OrderPartition
<1>8. CASE PlanJoin
  BY <1>5, <1>6, <1>8, PlanJoinOrder DEF PlanJoin
<1>9. ASSUME NEW i \in 1..Len(selected), NEW r \in Rels, NEW rev \in BOOLEAN, OrderNext(i, r, rev)
      PROVE  OrderPartition' /\ StepsAttach' /\ JoinsInOrder'
  <2>1. joins = <<>> /\ joins' = <<>> /\ pc' = "order" BY <1>9 DEF OrderNext, IInv, InTurn
  <2>2. Len(steps') \in Nat BY <1>9 DEF OrderNext, IInv, TypeOK
  <2> QED BY <1>9, <2>1, <2>2, OrderNextOrder DEF JoinsInOrder
<1>10. CASE Unreachable \/ OrderDone \/ FinalProjection \/ PlanFails
  BY <1>5, <1>6, <1>10 DEF Unreachable, OrderDone, FinalProjection, PlanFails, IInv, OrderPartition, Others
<1>11. CASE JoinNext
  <2>1. /\ pc = "join" /\ pc' = pc /\ Len(joins) < Len(steps)
        /\ joins' = Append(joins, selected[Len(joins) + 1 + 1])
        /\ UNCHANGED <<selected, join_path, pending, steps>>
    BY <1>11 DEF JoinNext, RequestOfStep
  <2>2. PICK n \in Nat : n = Len(joins)
    BY DEF IInv, TypeOK
  <2>3. /\ Len(joins') = n + 1 /\ joins'[n + 1] = selected[n + 1 + 1]
        /\ \A k \in 1..n : joins'[k] = selected[k + 1]
    BY <2>1, <2>2 DEF IInv, TypeOK, JoinsInOrder
  <2>4. JoinsInOrder'
    BY <2>1, <2>2, <2>3 DEF JoinsInOrder, IInv, TypeOK
  <2>5. OrderPartition' BY <1>5, <2>1 DEF IInv, OrderPartition, Others
  <2> QED BY <1>5, <2>1, <2>4, <2>5
<1>12. CASE UNCHANGED vars
  BY <1>5, <1>6, <1>12 DEF vars, IInv, OrderPartition, Others, JoinsInOrder
<1> QED BY <1>2, <1>3, <1>4, <1>7, <1>8, <1>9, <1>10, <1>11, <1>12 DEF Next

(* The greedy choice gives up only when a field is out of the anchor's     *)
(* reach, and then no cover has the anchor.                                *)
LEMMA NoCoverRefusal ==
  ASSUME IInv, NoCover
  PROVE  \A S \in SUBSET Entities : Cover(S) => selected # <<>> /\ selected[1] \notin S
<1>1. /\ pc = "cover" /\ GraphDone /\ selected # <<>> /\ selected \in Seq(Entities)
      /\ \A c \in candidates : ~Eligible(c)
      /\ candidates = Scored \ Chosen /\ iface \in Interfaces
  BY DEF NoCover, IInv, InTurn, TypeOK, CandidatesKept
<1>2. PICK f \in Remaining : f \in Fields
  BY DEF NoCover, Remaining
<1>3. 1 \in 1..Len(selected) /\ selected[1] \in Entities
  BY <1>1, EmptySeq, ElementOfSeq
<1>4. ASSUME NEW e \in Entities, e \in ReachOver(Rels, selected[1]), f \in all_covered(e)
      PROVE  FALSE
  <2>1. e \notin Chosen
    BY <1>2, <1>4 DEF Chosen, Remaining, Covered
  <2>2. e \in candidates
    BY <1>1, <1>4, <2>1, Coverage DEF Scored
  <2>3. NewFields(e) > 0
    BY <1>1, <1>2, <1>4, NewFieldsPositive
  <2>4. paths[selected[1]][e] # <<>>
    <3>1. e \in Ends \ {selected[1]} BY <1>3, <2>1 DEF Chosen, Ends
    <3> QED BY <1>1, <1>3, <1>4, <3>1, GraphInvImplies DEF IInv, PathsAreShortest, ShortestFrom
  <2>5. PathTo(e, 1)
    BY <1>3, <2>4 DEF PathTo
  <2> QED BY <1>1, <1>3, <2>2, <2>3, <2>5 DEF Eligible
<1> QED BY <1>1, <1>2, <1>4 DEF Cover

(* What is joined when the order gets stuck is closed over the join path   *)
(* between selected entities, and something selected is not in it.         *)
LEMMA UnreachableRefusal ==
  ASSUME IInv, Unreachable
  PROVE  LET inside == {r \in join_path : {relationships[r].from, relationships[r].to} \subseteq Chosen}
         IN  ~(Chosen \subseteq ReachOver(inside, selected[1]))
<1> DEFINE inside == {r \in join_path : {relationships[r].from, relationships[r].to} \subseteq Chosen}
<1>1. /\ pc = "order" /\ pending # {} /\ selected \in Seq(Entities)
      /\ \A j \in pending : Connecting(selected[j]) = {}
      /\ pending \subseteq Others
      /\ Joined = {selected[i] : i \in (1..Len(selected)) \ pending}
  BY DEF Unreachable, IInv, TypeOK, OrderPartition
<1>2. \A k \in Chosen : k \in Joined \/ \E j \in pending : k = selected[j]
  BY <1>1 DEF Chosen
<1>3. ASSUME NEW r \in inside
      PROVE  relationships[r].from \in Joined <=> relationships[r].to \in Joined
  <2>1. \A j \in pending, rev \in BOOLEAN : ~Connects(selected[j], r, rev)
    BY <1>1, <1>3 DEF Connecting
  <2>2. r \in join_path /\ relationships[r].from \in Chosen /\ relationships[r].to \in Chosen
    BY <1>3
  <2> QED BY <1>2, <2>1, <2>2 DEF Connects
<1>4. Joined \subseteq Ends /\ selected[1] \in Joined
  <2>1. \A i \in 1..Len(selected) : selected[i] \in Ends BY <1>1, ElementOfSeq DEF Ends
  <2> QED BY <1>1, <2>1 DEF Joined
<1>5. ClosedUnder(inside, Joined)
  BY <1>3 DEF ClosedUnder
<1>6. PICK j \in pending : TRUE
  BY <1>1
<1>7. j \in 1..Len(selected) /\ selected[j] \in Chosen
  BY <1>1 DEF Chosen, IInv, TypeOK
<1>8. selected[j] \notin Joined
  <2>1. \A i \in (1..Len(selected)) \ pending : selected[i] # selected[j]
    BY <1>1, <1>7, SelectedOnce DEF IInv
  <2> QED BY <1>1, <2>1
<1>9. selected[j] \notin ReachOver(inside, selected[1])
  <2> HIDE DEF inside
  <2> QED BY <1>4, <1>5, <1>8 DEF ReachOver
<1> HIDE DEF inside
<1>10. ~(Chosen \subseteq ReachOver(inside, selected[1])) BY <1>7, <1>9
<1> QED BY <1>10 DEF inside

LEMMA StepRefusal == IInv /\ [Next]_vars => RefusalsJustified'
<1> SUFFICES ASSUME IInv, [Next]_vars PROVE RefusalsJustified'
  OBVIOUS
<1>0. relationships' = relationships BY RelationshipsFixed
<1>1. ASSUME pc' \notin {"no_cover", "unreachable"} PROVE RefusalsJustified'
  BY <1>1 DEF RefusalsJustified, RefusalJustified, GivesUpJustified
<1>2. CASE NoCover
  <2>1. pc' = "no_cover" /\ UNCHANGED <<iface, selected>>
    BY <1>2 DEF NoCover, matchVars
  <2>2. \A e : all_covered(e)' = all_covered(e) BY <2>1 DEF all_covered
  <2>3. \A e : ReachOver(Rels, e)' = ReachOver(Rels, e)
    BY <1>0, ReachFixed
  <2>4. \A S : Cover(S)' <=> Cover(S)
    BY <2>2, <2>3 DEF Cover
  <2>5. RefusalJustified'
    BY <1>2, <2>1, <2>4, NoCoverRefusal DEF RefusalJustified
  <2> QED BY <2>1, <2>5 DEF RefusalsJustified, GivesUpJustified
<1>3. CASE Score
  <2>1. CASE pc' = "no_cover" /\ selected' = selected /\ Scored = {}
    <3>1. selected' = <<>> /\ iface' = iface /\ iface \in Interfaces
      BY <1>3, <2>1 DEF Score, IInv, InTurn, TypeOK
    <3>2. \A e \in Entities : all_covered(e)' = {}
      BY <2>1, <3>1, Coverage DEF Scored, all_covered
    <3>3. \A S \in SUBSET Entities : ~Cover(S)'
      BY <3>2, FieldsAssumption DEF Cover
    <3>4. RefusalJustified' BY <3>3 DEF RefusalJustified
    <3> QED BY <2>1, <3>4 DEF RefusalsJustified, GivesUpJustified
  <2>2. CASE pc' \in {"matched", "cover"}
    BY <1>1, <2>2
  <2> QED BY <1>3, <2>1, <2>2 DEF Score, Scored
<1>4. CASE Unreachable
  <2>1. pc' = "unreachable" /\ UNCHANGED <<selected, join_path>>
    BY <1>4 DEF Unreachable, matchVars
  <2>2. GivesUpJustified'
    <3> DEFINE chosen == {selected[i] : i \in 1..Len(selected)}
               inside == {r \in join_path : {relationships[r].from, relationships[r].to} \subseteq chosen}
    <3>1. ~(chosen \subseteq ReachOver(inside, selected[1]))
      BY <1>4, UnreachableRefusal DEF Chosen
    <3>2. ReachOver(inside, selected[1])' = ReachOver(inside, selected[1]) /\ chosen' = chosen
      BY <1>0, <2>1 DEF ReachOver, ClosedUnder
    <3> QED BY <3>1, <3>2 DEF GivesUpJustified
  <2> QED BY <2>1, <2>2 DEF RefusalsJustified, RefusalJustified
<1>5. CASE UNCHANGED vars
  <2>1. UNCHANGED <<iface, selected, join_path, pc>> BY <1>5 DEF vars, matchVars
  <2>2. \A e : all_covered(e)' = all_covered(e) BY <2>1 DEF all_covered
  <2>3. \A e : ReachOver(Rels, e)' = ReachOver(Rels, e)
    BY <1>0, ReachFixed
  <2>6. \A S : Cover(S)' <=> Cover(S)
    BY <2>2, <2>3 DEF Cover
  <2>4. RefusalJustified'
    BY <2>1, <2>6 DEF IInv, RefusalsJustified, RefusalJustified
  <2>5. GivesUpJustified'
    BY <1>0, <2>1 DEF IInv, RefusalsJustified, GivesUpJustified, ReachOver, ClosedUnder
  <2> QED BY <2>4, <2>5 DEF RefusalsJustified
<1>6. CASE Compile \/ \E offered \in Interfaces : Request(offered)
  BY <1>1, <1>6 DEF Compile, Request
<1>7. CASE \E c \in Entities : Select(c)
  BY <1>1, <1>7 DEF Select
<1>8. CASE CoverDone \/ PlanSingle \/ PlanJoin
  BY <1>1, <1>8 DEF CoverDone, PlanSingle, PlanJoin
<1>9. CASE \E i \in 1..Len(selected), r \in Rels, rev \in BOOLEAN : OrderNext(i, r, rev)
  BY <1>1, <1>9 DEF OrderNext
<1>10. CASE OrderDone \/ JoinNext \/ FinalProjection \/ PlanFails
  BY <1>1, <1>10 DEF OrderDone, JoinNext, FinalProjection, PlanFails
<1> QED BY <1>2, <1>3, <1>4, <1>5, <1>6, <1>7, <1>8, <1>9, <1>10 DEF Next

LEMMA StepIInv == IInv /\ [Next]_vars => IInv'
<1> SUFFICES ASSUME IInv, [Next]_vars PROVE IInv'
  OBVIOUS
<1>1. GraphInv' BY StepGraphOfQuery DEF IInv
<1>2. TypeOK' BY <1>1, StepType DEF IInv
<1>3. InTurn' BY StepInTurn DEF IInv
<1>4. CandidatesKept' /\ MatchConnected' /\ SelectionEarns' /\ MatchCovers' BY StepMatch
<1>5. OrderPartition' /\ StepsAttach' /\ JoinsInOrder' BY StepOrder
<1>6. RefusalsJustified' BY StepRefusal
<1> QED BY <1>1, <1>2, <1>3, <1>4, <1>5, <1>6 DEF IInv

(* A finished plan reads the match, each entity once.                      *)
LEMMA PlannedIsComplete == IInv => PlanComplete
<1> SUFFICES ASSUME IInv, pc = "planned" PROVE PlanComplete
  BY DEF PlanComplete
<1>1. PICK n \in Nat : n = Len(selected) /\ n # 0
  BY EmptySeq DEF IInv, TypeOK, InTurn
<1>2. /\ pending = {} /\ Len(steps) = n - 1 /\ Len(joins) = n - 1
      /\ Joined = {selected[i] : i \in 1..n}
  <2>1. /\ pending = {} /\ Len(steps) + Cardinality(pending) = n - 1
        /\ Joined = {selected[i] : i \in (1..n) \ pending}
        /\ Len(joins) = Len(steps) /\ Len(steps) \in Nat
    BY <1>1 DEF IInv, OrderPartition, JoinsInOrder, TypeOK
  <2>2. Cardinality({}) = 0 BY FS_EmptySet
  <2>3. Len(steps) = n - 1 BY <1>1, <2>1, <2>2
  <2> QED BY <2>1, <2>3
<1>3. {joins[k] : k \in 1..Len(joins)} = {selected[i] : i \in 2..n}
  <2>1. \A k \in 1..(n - 1) : k + 1 \in 2..n /\ joins[k] = selected[k + 1]
    BY <1>1, <1>2 DEF IInv, JoinsInOrder
  <2>2. \A i \in 2..n : i - 1 \in 1..(n - 1) /\ joins[i - 1] = selected[i]
    BY <1>1, <2>1
  <2> QED BY <1>1, <1>2, <2>1, <2>2, SMTT(30)
<1>4. Cardinality(Chosen) = n
  <2> DEFINE f == [i \in 1..n |-> selected[i]]
  <2>1. \A i, j \in 1..n : f[i] = f[j] => i = j
    BY <1>1, SelectedOnce DEF IInv, TypeOK
  <2>2. f \in Bijection(1..n, Chosen)
    <3>1. f \in [1..n -> Chosen] BY <1>1 DEF Chosen
    <3>2. \A x \in Chosen : \E i \in 1..n : f[i] = x BY <1>1 DEF Chosen
    <3> HIDE DEF f
    <3> QED BY <2>1, <3>1, <3>2 DEF Bijection, Injection, Surjection, IsInjective
  <2>3. IsFiniteSet(1..n) /\ Cardinality(1..n) = n
    <3>1. 1 \in Int /\ n \in Int /\ ~(1 > n) /\ n - 1 + 1 = n BY <1>1
    <3> QED BY <3>1, FS_Interval
  <2>4. ExistsBijection(1..n, Chosen)
    BY <2>2 DEF ExistsBijection
  <2> QED BY <2>3, <2>4, FS_Bijection
<1>5. Fields \subseteq UNION {all_covered(e) : e \in Joined}
  <2>1. Fields \subseteq UNION {all_covered(selected[i]) : i \in 1..n}
    BY <1>1 DEF IInv, MatchCovers, Remaining, Covered
  <2> QED BY <1>2, <2>1
<1>6. Len(joins) + 1 = Cardinality(Chosen)
  BY <1>1, <1>2, <1>4
<1> QED BY <1>1, <1>3, <1>5, <1>6 DEF PlanComplete, Chosen

LEMMA Inductive == Spec => []IInv
  BY InitQuery, StepIInv, PTL DEF Spec

(* In a manifest of any size the compiled graph holds exactly one shortest *)
(* path for each pair that relationships connect                           *)
(* (build_relationship_graph).                                             *)
THEOREM ShortestPaths == Spec => []PathsAreShortest
<1>1. IInv => PathsAreShortest BY GraphInvImplies DEF IInv
<1> QED BY <1>1, Inductive, PTL

(* Whatever entities, fields and relationships there are, the answer to a  *)
(* query without `from` is one connected join that reads every entity of   *)
(* the match once and has every field (find_covering_entities,             *)
(* compute_join_order, build_ad_hoc_join_plan).                            *)
THEOREM AdHocAnswers == Spec => []AnswerSound
<1>1. IInv => AnswerSound BY PlannedIsComplete DEF IInv, AnswerSound
<1> QED BY <1>1, Inductive, PTL

(* And it is refused only if no connected set of entities with the anchor  *)
(* offers all the fields, or the match has no join order over the join     *)
(* path collected for it: given the anchor, the greedy choices lose no     *)
(* cover, and given the join path the order of the attempts loses no join  *)
(* order (entity_resolver.rs:204, 261).                                    *)
THEOREM AdHocRefusals == Spec => []RefusalsJustified
<1>1. IInv => RefusalsJustified BY DEF IInv
<1> QED BY <1>1, Inductive, PTL
=============================================================================
