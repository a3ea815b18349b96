----------------------------- MODULE MCModelLoad -----------------------------
(***************************************************************************)
(* The loader, the kind builders and the cycle check side by side: a       *)
(* behaviour is either a load of up to MaxInputs sources, each a root made *)
(* of fragments below, or a chain of calls on one builder, or one call of  *)
(* check_carrier_cycles on a pool of its own.                              *)
(***************************************************************************)
EXTENDS ModelLoader, MCCycleCheck, KindBuilder

VARIABLE part
mcvars == <<part, lvars, kvars, vars>>

Inline(pool, name) == Entry("inline", pool, name, TRUE)
Ref(pool, name, expr) == Entry("ref", pool, name, expr)
Leaf(name, temporal) == Kind("dataset", name, temporal, <<>>, <<>>, <<>>)
Public(name, iface) == Kind("dataset", name, "none", <<>>, <<>>, iface)
Incomplete(name, card, cross) == Relationship(name, "a", "b", card, "unset", cross)
Directed(name) == Relationship(name, "a", "b", "many_to_many", "none", "left")
Plain(name, to) == Relationship(name, "a", to, "one_to_many", "unset", "unset")
Inner == Kind("joinset", "inner", "none", <<Leaf("x", "none"), Leaf("y", "none")>>,
              <<Incomplete("r", "one_to_one", "both")>>, <<>>)

K(k) == [kinds |-> <<k>>, pool |-> <<>>, relationships |-> <<>>]
P(p) == [kinds |-> <<>>, pool |-> <<p>>, relationships |-> <<>>]
R(r) == [kinds |-> <<>>, pool |-> <<>>, relationships |-> <<r>>]
First == {
  K(Public("a", <<>>)),
  K(Public("a", <<Ref("metrics", "m", FALSE), Ref("dimensions", "d", FALSE)>>)),
  K(Public("b", <<Inline("metrics", "m")>>)),
  K(Kind("joinset", "b", "none", <<Leaf("x", "none"), Leaf("y", "none")>>, <<Directed("r")>>, <<>>)) }
Fragments == First \cup {
  K(Public("1st", <<>>)),
  K(Leaf("b", "no_grain")),
  K(Kind("unionset", "a", "none", <<Leaf("x", "none"), Leaf("y", "grain")>>, <<>>, <<>>)),
  K(Kind("unionset", "b", "grain", <<Leaf("1st", "none"), Inner>>, <<>>, <<>>)),
  K(Kind("grainset", "b", "no_grain", <<Leaf("x", "grain"), Leaf("y", "none")>>, <<>>, <<>>)),
  K(Kind("unionset", "b", "none", <<Leaf("x", "none"), Inner>>, <<>>, <<>>)),
  P(PoolItem("metrics", "m", TRUE, {})),
  P(PoolItem("metrics", "m", FALSE, {"m"})),
  P(PoolItem("dimensions", "d", FALSE, {})),
  [kinds |-> <<Public("b", <<>>)>>, pool |-> <<>>, relationships |-> <<Plain("r", "b")>>],
  R(Plain("s", "c")), R(Incomplete("t", "many_to_many", "unset")) }

Root(f, g) == [name |-> "m", description |-> "none", labels |-> <<"l">>, kinds |-> f.kinds \o g.kinds,
               pool |-> f.pool \o g.pool, relationships |-> f.relationships \o g.relationships]
Nothing == [kinds |-> <<>>, pool |-> <<>>, relationships |-> <<>>]
Small == {Root(Nothing, g) : g \in Fragments}
Large == {Root(f, g) : f \in First, g \in Fragments} \cup Small
MCContents == {[state |-> "ok", root |-> r] : r \in Large}
              \cup {[state |-> s, root |-> Root(Nothing, Nothing)] : s \in {"unset_env", "undecodable"}}
MCLists == {<<>>, <<"x", "y">>}
MCBadNames == {"1st"}

-----------------------------------------------------------------------------
(* The second source is a small one, the file states and the catalogs are   *)
(* combined with few models: the stages they stop at do not look at models. *)

FromFile(inputs) == \E n \in DOMAIN inputs : inputs[n].file # "inline"
OneModelOf(roots) ==
  Len(model_inputs) = 0 \/ (Len(model_inputs) = 1 /\ model_inputs[1].content.root \in roots)
Bounded ==
  /\ Len(model_inputs) = 2 => model_inputs[2].content.root \in Small \cup {Root(Nothing, Nothing)}
  /\ FromFile(model_inputs) => OneModelOf(Small)
  /\ catalogs_inputs # <<>> \/ catalogs_inline => OneModelOf({Root(Nothing, f) : f \in First})

NoReferences == [n \in Names |-> {}]

MCInit ==
  /\ part \in {"load", "chain", "cycles"}
  /\ LInit
  /\ IF part = "chain" THEN KInit ELSE form = "Dataset" /\ KInit
  /\ IF part = "cycles" THEN Init ELSE graph = NoReferences /\ Init

MCNext ==
  /\ UNCHANGED part
  /\ \/ part = "load" /\ LNext /\ Bounded' /\ UNCHANGED <<kvars, vars>>
     \/ part = "chain" /\ KNext /\ UNCHANGED <<lvars, vars>>
     \/ part = "cycles" /\ Next /\ UNCHANGED <<lvars, kvars>>

MCSpec == MCInit /\ [][MCNext]_mcvars
=============================================================================
