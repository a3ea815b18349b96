------------------------- MODULE RelationshipGraph -------------------------
(***************************************************************************)
(* The manifest's relationship graph (build_relationship_graph in          *)
(* crates/semstrait-manifest/src/steps.rs, RelationshipGraph in            *)
(* acceleration.rs): a breadth-first search from every entity, over        *)
(* relationships in both directions, that stores one shortest path for     *)
(* each pair it reaches.                                                   *)
(*                                                                         *)
(* Entities are naturals in the manifest's order.  The ends of a           *)
(* relationship are names that nothing compares with the entities.         *)
(***************************************************************************)
EXTENDS Naturals, Sequences

CONSTANTS
  Entities,  (* the keys of data_kinds                                     *)
  Unknown,   (* names relationships may use that are no entity             *)
  NRels,
  Graphs     (* the relationship lists that are looked at                  *)

Ends == Entities \cup Unknown
Rels == 1..NRels

ASSUME GraphAssumption ==
  /\ Ends \subseteq Nat \ {0}
  /\ Entities \cap Unknown = {}
  /\ NRels \in Nat
  /\ Graphs \subseteq [Rels -> [from : Ends, to : Ends]]

VARIABLES
  relationships,   (* rel_idx -> its ends; Init fixes it                   *)
  sources,         (* ds_names the loop has still to search from           *)
  source,          (* the search that is running, 0: none                  *)
  visited, queue,
  current,         (* the name popped from queue, 0: none                  *)
  edge,            (* where its edges continue: forward ones at rel_idx,   *)
                   (* reverse ones at NRels + rel_idx                      *)
  paths            (* shortest_paths; <<>>: no entry                       *)

graphVars == <<relationships, sources, source, visited, queue, current, edge, paths>>

IsLeast(n, S) == n \in S /\ \A m \in S : n <= m

GraphInit ==
  /\ relationships \in Graphs
  /\ sources = Entities
  /\ source = 0
  /\ visited = {} /\ queue = <<>> /\ current = 0 /\ edge = 1
  /\ paths = [s \in Entities |-> [t \in Ends |-> <<>>]]

(* The next round of `for source_name in &ds_names`.                       *)
BeginSource(s) ==
  /\ source = 0
  /\ IsLeast(s, sources)
  /\ sources' = sources \ {s}
  /\ source' = s
  /\ visited' = {s}
  /\ queue' = <<s>>
  /\ UNCHANGED <<relationships, current, edge, paths>>

PopFront ==
  /\ source # 0 /\ current = 0 /\ queue # <<>>
  /\ current' = Head(queue)
  /\ queue' = Tail(queue)
  /\ edge' = 1
  /\ UNCHANGED <<relationships, sources, source, visited, paths>>

(* Edge position e leads from the current name to t: the forward map first *)
(* and then the reverse map, each in the order of the relationships.       *)
EdgeLeads(e, t) ==
  \/ /\ e <= NRels
     /\ relationships[e].from = current /\ relationships[e].to = t
  \/ /\ e > NRels
     /\ relationships[e - NRels].to = current /\ relationships[e - NRels].from = t

RelOf(e) == IF e <= NRels THEN e ELSE e - NRels

Fresh(e) == \E t \in Ends \ visited : EdgeLeads(e, t)

(* A slip: the search goes depth first.                                    *)
PushFront(t) == <<t>> \o queue

PushBack(t) == Append(queue, t)

(* The next neighbour that is not visited: its path is the current one's   *)
(* (empty for the source) and this relationship.                           *)
Discover(e, t) ==
  /\ source # 0 /\ current # 0
  /\ IsLeast(e, {x \in edge..(2 * NRels) : Fresh(x)})
  /\ EdgeLeads(e, t) /\ t \notin visited
  /\ visited' = visited \cup {t}
  /\ paths' = [paths EXCEPT ![source][t] = Append(paths[source][current], RelOf(e))]
  /\ queue' = PushBack(t)
  /\ edge' = e + 1
  /\ UNCHANGED <<relationships, sources, source, current>>

EdgesDone ==
  /\ source # 0 /\ current # 0
  /\ \A e \in edge..(2 * NRels) : ~Fresh(e)
  /\ current' = 0
  /\ UNCHANGED <<relationships, sources, source, visited, queue, edge, paths>>

EndSource ==
  /\ source # 0 /\ current = 0 /\ queue = <<>>
  /\ source' = 0
  /\ UNCHANGED <<relationships, sources, visited, queue, current, edge, paths>>

GraphNext ==
  \/ \E s \in Entities : BeginSource(s)
  \/ PopFront
  \/ \E e \in 1..(2 * NRels), t \in Ends : Discover(e, t)
  \/ EdgesDone \/ EndSource

GraphDone == source = 0 /\ sources = {}

-----------------------------------------------------------------------------
(* Type invariant.                                                         *)
GraphTypeOK ==
  /\ relationships \in [Rels -> [from : Ends, to : Ends]]
  /\ sources \subseteq Entities
  /\ source \in Entities \cup {0}
  /\ visited \subseteq Ends
  /\ queue \in Seq(Ends)
  /\ current \in Ends \cup {0}
  /\ edge \in 1..(2 * NRels + 1)
  /\ paths \in [Entities -> [Ends -> Seq(Rels)]]

(* Relationship r joins a and b, in either direction.                      *)
Linked(r, a, b) ==
  LET rel == relationships[r] IN
  (rel.from = a /\ rel.to = b) \/ (rel.from = b /\ rel.to = a)

IsWalk(p, s, t) ==
  \E v \in [1..(Len(p) + 1) -> Ends] :
    v[1] = s /\ v[Len(p) + 1] = t /\ \A i \in 1..Len(p) : Linked(p[i], v[i], v[i + 1])

(* Every name one can get to from s over the relationships in R: what all  *)
(* sets have that hold s and that no relationship of R leads out of.       *)
ClosedUnder(R, S) == \A r \in R : relationships[r].from \in S <=> relationships[r].to \in S

ReachOver(R, s) ==
  LET closed == {S \in SUBSET Ends : s \in S /\ ClosedUnder(R, S)} IN
  {t \in Ends : \A S \in closed : t \in S}

(* n relationships lead from s to t.                                       *)
Within(n, s, t) ==
  \E v \in [1..(n + 1) -> Ends] :
    v[1] = s /\ v[n + 1] = t /\ \A i \in 1..n : \E r \in Rels : Linked(r, v[i], v[i + 1])

(* What the search from s leaves behind: a path for exactly the names that *)
(* relationships connect with s; it is a chain from s to the name, and no  *)
(* shorter chain exists.                                                   *)
ShortestFrom(s) ==
  LET reached == ReachOver(Rels, s) IN
  \A t \in Ends \ {s} :
    /\ paths[s][t] # <<>> <=> t \in reached
    /\ paths[s][t] # <<>> =>
         /\ IsWalk(paths[s][t], s, t)
         /\ \A n \in 0..(Len(paths[s][t]) - 1) : ~Within(n, s, t)

(* PathsAreShortest: the finished graph holds, for every entity, one       *)
(* shortest path to each name that is connected with it and none to any    *)
(* other: what shortest_path() returns deserves its name.                  *)
PathsAreShortest == GraphDone => \A s \in Entities : ShortestFrom(s)
=============================================================================
