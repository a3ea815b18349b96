----------------------------- MODULE CycleCheck -----------------------------
(***************************************************************************)
(* Reference-cycle detection of the model validator                        *)
(* (crates/semstrait-model/src/validate/cycle_check.rs).                   *)
(*                                                                         *)
(* One behaviour is one call of check_carrier_cycles: an iterative         *)
(* depth-first search with three-colour marking, restarted from every name *)
(* of the carrier's pool that is not black yet.  Names are naturals whose  *)
(* order is the lexicographic order of the source's BTreeMap / BTreeSet.   *)
(***************************************************************************)
EXTENDS Naturals, Sequences

CONSTANTS
  Names,     (* the keys of the carrier's pool                             *)
  Foreign    (* names a reference may use that are not in the pool         *)

ASSUME NamesAssumption ==
  /\ Names \subseteq Nat
  /\ Foreign \subseteq Nat
  /\ Names \cap Foreign = {}

Refs == Names \cup Foreign

VARIABLES
  graph,     (* name -> names its expr block refers to; fixed by Init      *)
  starts,    (* keys of graph the outer loop has still to look at          *)
  visited,   (* black names                                                *)
  blackAt,   (* history: the tick at which a name became black             *)
  tick,      (* history: how many names became black so far                *)
  stack,     (* frames; todo is the part of graph[node] past the frame's   *)
             (* child index                                                *)
  grey, path,
  diags,     (* the cycles reported                                        *)
  pc

vars == <<graph, starts, visited, blackAt, tick, stack, grey, path, diags, pc>>

Frame == [node : Names, todo : SUBSET Refs]

IsLeast(n, S) == n \in S /\ \A m \in S : n <= m

Top == stack[Len(stack)]

Butlast(s) == SubSeq(s, 1, Len(s) - 1)

-----------------------------------------------------------------------------
(* find_cycle_from's locals when no search is running.                     *)
NoSearch == stack' = <<>> /\ grey' = {} /\ path' = <<>>

Init ==
  /\ graph \in [Names -> SUBSET Refs]
  /\ starts = Names
  /\ visited = {}
  /\ blackAt = [n \in Names |-> 0]
  /\ tick = 0
  /\ stack = <<>> /\ grey = {} /\ path = <<>>
  /\ diags = <<>>
  /\ pc = "outer"

(* `if visited.contains(start) { continue; }`                              *)
SkipStart(s) ==
  /\ pc = "outer"
  /\ IsLeast(s, starts)
  /\ s \in visited
  /\ starts' = starts \ {s}
  /\ UNCHANGED <<graph, visited, blackAt, tick, stack, grey, path, diags, pc>>

(* The call of find_cycle_from: its locals and the first frame.            *)
BeginSearch(s) ==
  /\ pc = "outer"
  /\ IsLeast(s, starts)
  /\ s \notin visited
  /\ starts' = starts \ {s}
  /\ stack' = <<[node |-> s, todo |-> graph[s]]>>
  /\ grey' = {s}
  /\ path' = <<s>>
  /\ pc' = "search"
  /\ UNCHANGED <<graph, visited, blackAt, tick, diags>>

Finish ==
  /\ pc = "outer"
  /\ starts = {}
  /\ pc' = "done"
  /\ UNCHANGED <<graph, starts, visited, blackAt, tick, stack, grey, path, diags>>

(* All neighbours done: the frame is popped and its name turns black.      *)
Blacken ==
  /\ pc = "search"
  /\ Top.todo = {}
  /\ grey' = grey \ {Top.node}
  /\ visited' = visited \cup {Top.node}
  /\ blackAt' = [blackAt EXCEPT ![Top.node] = tick + 1]
  /\ tick' = tick + 1
  /\ stack' = Butlast(stack)
  /\ path' = Butlast(path)
  /\ pc' = IF Len(stack) = 1 THEN "outer" ELSE "search"
  /\ UNCHANGED <<graph, starts, diags>>

(* The next neighbour of the top frame, and the frame's index moved past it *)
Neighbour(n) == pc = "search" /\ IsLeast(n, Top.todo)

Advanced(n) ==
  [stack EXCEPT ![Len(stack)] = [node |-> Top.node, todo |-> Top.todo \ {n}]]

LeastMember(c, m) == \A j \in 1..Len(c) : c[m] <= c[j]

RotatedAt(c, m) == SubSeq(c, m, Len(c)) \o SubSeq(c, 1, m - 1)

(* A grey neighbour, found at position i of the path, closes a cycle; the  *)
(* search returns it and its locals go out of scope.  The names that were  *)
(* grey do not become black.                                               *)
ReportCycle(n) ==
  /\ Neighbour(n)
  /\ n \in grey
  /\ \E i \in 1..Len(path) :
       /\ path[i] = n
       /\ LET cycle == SubSeq(path, i, Len(path)) IN
          \E m \in 1..Len(cycle) :
            /\ LeastMember(cycle, m)
            /\ diags' = Append(diags, RotatedAt(cycle, m))
  /\ NoSearch
  /\ pc' = "outer"
  /\ UNCHANGED <<graph, starts, visited, blackAt, tick>>

(* A slip: a grey neighbour is passed over.                                *)
PassOverGrey(n) ==
  /\ Neighbour(n)
  /\ n \in grey \/ n \in visited \/ n \notin Names
  /\ stack' = Advanced(n)
  /\ UNCHANGED <<graph, starts, visited, blackAt, tick, grey, path, diags, pc>>

(* A black neighbour, or one of another carrier, is passed over.           *)
PassOver(n) ==
  /\ Neighbour(n)
  /\ n \notin grey
  /\ n \in visited \/ n \notin Names
  /\ stack' = Advanced(n)
  /\ UNCHANGED <<graph, starts, visited, blackAt, tick, grey, path, diags, pc>>

(* A white neighbour is pushed and turns grey.                             *)
Descend(n) ==
  /\ Neighbour(n)
  /\ n \notin grey
  /\ n \notin visited
  /\ n \in Names
  /\ stack' = Append(Advanced(n), [node |-> n, todo |-> graph[n]])
  /\ grey' = grey \cup {n}
  /\ path' = Append(path, n)
  /\ UNCHANGED <<graph, starts, visited, blackAt, tick, diags, pc>>

Next ==
  \/ \E s \in Names : SkipStart(s) \/ BeginSearch(s)
  \/ \E n \in Refs : ReportCycle(n) \/ PassOver(n) \/ Descend(n)
  \/ Blacken
  \/ Finish

(* check_carrier_cycles is a plain loop: a thread that runs it keeps       *)
(* taking steps.                                                           *)
Spec == Init /\ [][Next]_vars /\ WF_vars(Next)

-----------------------------------------------------------------------------
(* Type invariant.                                                         *)
TypeOK ==
  /\ graph \in [Names -> SUBSET Refs]
  /\ starts \subseteq Names
  /\ visited \subseteq Names
  /\ blackAt \in [Names -> Nat]
  /\ tick \in Nat
  /\ stack \in Seq(Frame)
  /\ grey \subseteq Names
  /\ path \in Seq(Names)
  /\ diags \in Seq(Seq(Names))
  /\ pc \in {"outer", "search", "done"}

(* The three representations of the current DFS path that find_cycle_from  *)
(* keeps by hand (stack, path, grey) agree, the path follows references    *)
(* and repeats no name, and no name is grey and black at once: that is     *)
(* what makes `path.iter().position(..).unwrap()` safe.                    *)
PathCoherent ==
  /\ Len(path) = Len(stack)
  /\ \A i \in 1..Len(path) : path[i] = stack[i].node
  /\ grey = {path[i] : i \in 1..Len(path)}
  /\ \A i, j \in 1..Len(path) : path[i] = path[j] => i = j
  /\ \A i \in 1..(Len(path) - 1) : path[i + 1] \in graph[path[i]]
  /\ grey \cap visited = {}
  /\ pc = "search" <=> stack # <<>>

(* Black names carry a proof of their own: everything a black name refers  *)
(* to inside the pool turned black strictly before it, although searches   *)
(* that found a cycle are abandoned half way.  No cycle passes through a   *)
(* black name.                                                             *)
BlackIsAcyclic ==
  \A v \in visited :
    /\ blackAt[v] <= tick
    /\ \A w \in graph[v] \cap Names : w \in visited /\ blackAt[w] < blackAt[v]

(* A reported cycle is one: every member refers to the next and the last   *)
(* to the first, no member is repeated, and the least comes first.         *)
ReportedAreCycles ==
  \A d \in 1..Len(diags) :
    LET c == diags[d] IN
    /\ c # <<>>
    /\ \A i \in 1..Len(c) : c[IF i = Len(c) THEN 1 ELSE i + 1] \in graph[c[i]]
    /\ \A i, j \in 1..Len(c) : c[i] = c[j] => i = j
    /\ \A i \in 1..Len(c) : c[1] <= c[i]

(* A graph over Names has no cycle if every set of names has a member that  *)
(* refers to none of the set.                                              *)
Acyclic(g) == \A S \in SUBSET Names : S # {} => \E v \in S : g[v] \cap S = {}

(* The verdict of check_carrier_cycles (no diagnostic / some diagnostic)   *)
(* is exactly acyclicity of the pool's reference graph, whatever order the *)
(* names sort in and however many searches were abandoned; and what is     *)
(* reported are cycles.                                                    *)
VerdictExact ==
  /\ pc = "done" => (diags = <<>> <=> Acyclic(graph))
  /\ ReportedAreCycles

(* Where the searches stand: the neighbours a frame has moved past are     *)
(* black or are the next name of the path, and as long as nothing was      *)
(* reported every start taken is black or on the path.                     *)
SearchProgress ==
  /\ \A i \in 1..Len(stack) :
       /\ stack[i].todo \subseteq graph[stack[i].node]
       /\ \A w \in (graph[stack[i].node] \cap Names) \ stack[i].todo :
            w \in visited \/ (i < Len(stack) /\ w = stack[i + 1].node)
  /\ diags = <<>> => Names \ starts \subseteq visited \cup grey
  /\ pc = "done" => starts = {}
=============================================================================
