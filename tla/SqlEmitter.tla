----------------------------- MODULE SqlEmitter -----------------------------
(***************************************************************************)
(* AnsiSqlEmitter (crates/semstrait-adapter/src/sql/emitter.rs): emit      *)
(* resets the alias counter and walks the plan; every node asks for the    *)
(* aliases of its inline views after its inputs have been emitted.         *)
(*                                                                         *)
(* Threads share one emitter.  The counter is atomic, so each reset and    *)
(* each fetch_add is one step; the walk between them is not.  SQL text is  *)
(* left out: what a call has produced is the order in which nodes were     *)
(* emitted and the aliases they got.                                       *)
(***************************************************************************)
EXTENDS Naturals, Sequences

CONSTANTS
  Threads,
  Nodes,      (* the nodes of a plan; 1 is the root                        *)
  Plans       (* the plans: what each node is and which nodes it reads     *)

Kinds == {"Scan", "Filter", "Project", "Aggregate", "Join", "Union", "Sort", "Fetch"}

ASSUME PlanAssumption ==
  /\ 1 \in Nodes
  /\ Plans \subseteq [Nodes -> [kind : Kinds, inputs : Seq(Nodes)]]

(* A plan owns its nodes: no two inputs are the same node.                 *)
ASSUME TreeAssumption ==
  \A p \in Plans : \A m, n \in Nodes :
    \A i \in 1..Len(p[m].inputs), j \in 1..Len(p[n].inputs) :
      /\ p[m].inputs[i] # 1
      /\ p[m].inputs[i] = p[n].inputs[j] => m = n /\ i = j

VARIABLES
  alias_counter,
  plan,        (* thread -> the plan it emits                              *)
  stack,       (* thread -> the calls of emit_node that are running; the   *)
               (* node, how many of its inputs are done, and how many      *)
               (* aliases it has got                                       *)
  emitted,     (* thread -> the nodes whose SQL is complete, in order      *)
  aliases,     (* thread -> the aliases of this emit, in order             *)
  at           (* thread -> "idle", "emit", "done" or "error"              *)

vars == <<alias_counter, plan, stack, emitted, aliases, at>>

Frame == [node : Nodes, done : Nat, got : Nat]
Alias == [prefix : Kinds, n : Nat]

Call(node) == [node |-> node, done |-> 0, got |-> 0]

(* How many inline views the SQL of a node of this kind has.               *)
Views(kind) == IF kind \in {"Scan", "Union"} THEN 0 ELSE IF kind = "Join" THEN 2 ELSE 1

Init ==
  /\ alias_counter = 0
  /\ plan \in [Threads -> Plans]
  /\ stack = [t \in Threads |-> <<>>]
  /\ emitted = [t \in Threads |-> <<>>]
  /\ aliases = [t \in Threads |-> <<>>]
  /\ at = [t \in Threads |-> "idle"]

-----------------------------------------------------------------------------
(* A slip: the counter runs on.                                            *)
CounterKept == alias_counter

CounterReset == 0

(* emit: the counter is reset and the walk begins at the root.             *)
Emit(t, p) ==
  /\ at[t] # "emit"
  /\ alias_counter' = CounterReset
  /\ plan' = [plan EXCEPT ![t] = p]
  /\ stack' = [stack EXCEPT ![t] = <<Call(1)>>]
  /\ emitted' = [emitted EXCEPT ![t] = <<>>]
  /\ aliases' = [aliases EXCEPT ![t] = <<>>]
  /\ at' = [at EXCEPT ![t] = "emit"]

Depth(t) == Len(stack[t])
Top(t) == stack[t][Depth(t)]
TopNode(t) == plan[t][Top(t).node]

(* A slip: the left input for both sides.                                  *)
FirstInput(t) == TopNode(t).inputs[1]

NextInput(t) == TopNode(t).inputs[Top(t).done + 1]

(* emit_node calls itself for the next input.                              *)
Descend(t) ==
  /\ at[t] = "emit"
  /\ Top(t).done < Len(TopNode(t).inputs)
  /\ stack' = [stack EXCEPT ![t] = Append(@, Call(NextInput(t)))]
  /\ UNCHANGED <<alias_counter, plan, emitted, aliases, at>>

CounterNext == alias_counter + 1

InputsDone(t) == Top(t).done = Len(TopNode(t).inputs)

(* next_alias, once the inputs are there and the expressions rendered.     *)
NextAlias(t) ==
  /\ at[t] = "emit" /\ InputsDone(t)
  /\ Top(t).got < Views(TopNode(t).kind)
  /\ aliases' = [aliases EXCEPT ![t] =
                   Append(@, [prefix |-> TopNode(t).kind, n |-> alias_counter])]
  /\ alias_counter' = CounterNext
  /\ stack' = [stack EXCEPT ![t][Depth(t)].got = @ + 1]
  /\ UNCHANGED <<plan, emitted, at>>

(* The frames after the top call returned: its caller has one input more.  *)
Popped(t) ==
  LET below == SubSeq(stack[t], 1, Depth(t) - 1) IN
  IF below = <<>> THEN <<>> ELSE [below EXCEPT ![Len(below)].done = @ + 1]

(* emit_node returns the node's SQL.                                       *)
Return(t) ==
  /\ at[t] = "emit" /\ InputsDone(t)
  /\ Top(t).got = Views(TopNode(t).kind)
  /\ TopNode(t).kind = "Union" => TopNode(t).inputs # <<>>
  /\ emitted' = [emitted EXCEPT ![t] = Append(@, Top(t).node)]
  /\ stack' = [stack EXCEPT ![t] = Popped(t)]
  /\ at' = [at EXCEPT ![t] = IF Depth(t) = 1 THEN "done" ELSE "emit"]
  /\ UNCHANGED <<alias_counter, plan, aliases>>

(* A union without inputs, or an expression that does not render: the      *)
(* error leaves all the calls.                                             *)
Fails(t) ==
  /\ at[t] = "emit" /\ InputsDone(t) /\ Top(t).got = 0
  /\ TopNode(t).kind \notin {"Scan", "Fetch"}
  /\ TopNode(t).kind = "Union" => TopNode(t).inputs = <<>>
  /\ stack' = [stack EXCEPT ![t] = <<>>]
  /\ at' = [at EXCEPT ![t] = "error"]
  /\ UNCHANGED <<alias_counter, plan, emitted, aliases>>

Next ==
  \E t \in Threads :
    \/ \E p \in Plans : Emit(t, p)
    \/ Descend(t) \/ NextAlias(t) \/ Return(t) \/ Fails(t)

Spec == Init /\ [][Next]_vars

-----------------------------------------------------------------------------
(* Type invariant.                                                         *)
TypeOK ==
  /\ alias_counter \in Nat
  /\ plan \in [Threads -> Plans]
  /\ stack \in [Threads -> Seq(Frame)]
  /\ emitted \in [Threads -> Seq(Nodes)]
  /\ aliases \in [Threads -> Seq(Alias)]
  /\ at \in [Threads -> {"idle", "emit", "done", "error"}]

(* "Inline view aliases are unique per emit() call": no two views of one   *)
(* statement have the same alias.                                          *)
AliasesUnique ==
  \A t \in Threads : \A i, j \in 1..Len(aliases[t]) :
    aliases[t][i] = aliases[t][j] => i = j

(* "Reset counter for each top-level emit to produce deterministic         *)
(* aliases": whatever was emitted before, and also after an emit that      *)
(* failed half way, the i-th view of a statement has number i - 1.         *)
AliasesDeterministic ==
  \A t \in Threads : \A i \in 1..Len(aliases[t]) : aliases[t][i].n = i - 1

(* Node n of plan p reads node m.                                          *)
Reads(p, n, m) == \E k \in 1..Len(p[n].inputs) : p[n].inputs[k] = m

(* A finished statement ends with the root, contains every node that one   *)
(* of its nodes reads, before that node, and no node twice or for nothing. *)
EmitsPlan ==
  \A t \in Threads : at[t] = "done" =>
    LET e == emitted[t]
        pos == 1..Len(e) IN
    /\ e[Len(e)] = 1
    /\ \A i \in pos, m \in Nodes :
         Reads(plan[t], e[i], m) => \E j \in pos : j < i /\ e[j] = m
    /\ \A i \in pos : i < Len(e) => \E j \in pos : i < j /\ Reads(plan[t], e[j], e[i])
    /\ \A i, j \in pos : e[i] = e[j] => i = j
=============================================================================
