------------------------------- MODULE ExprTree -------------------------------
(***************************************************************************)
(* The expression tree of the IR (crates/semstrait-ir/src/expr/tree.rs,    *)
(* expr_fn.rs and tree.rs).  A node is <<kind, what, slots>>: the variant  *)
(* of Expr, the fields of it that are no expressions, and the fields that  *)
(* are, one sequence of nodes each, in reading order (an optional field is *)
(* a sequence of at most one node).  A CASE has a slot of two nodes per    *)
(* WHEN and then the slot of its ELSE.                                     *)
(***************************************************************************)
EXTENDS Naturals, Integers, Sequences, FiniteSets, FiniteSetsExt, SequencesExt

(* What an operation returns in place of a tree that it refuses.           *)
Refused == <<"refused", "", <<>>>>

Kind(e) == e[1]
IsRefused(es) == \E i \in DOMAIN es : Kind(es[i]) = "refused"
Leaf(what) == <<"leaf", what, <<>>>>
BinaryOp(op, l, r) == <<"binary", op, <<<<l>>, <<r>>>>>>

Children(e) == FlattenSeq(e[3])

(* check_well_formed: the rules for a node, given its children.  Only the  *)
(* children themselves are looked at, and of a window only its arguments.  *)
NoneIs(kinds, es) == \A i \in DOMAIN es : Kind(es[i]) \notin kinds

WellFormed(e) ==
  CASE Kind(e) = "aggregate" -> NoneIs({"aggregate"}, Children(e))
    [] Kind(e) = "window" -> NoneIs({"aggregate", "window"}, e[3][1])
    [] Kind(e) = "coalesce" -> e[3][1] # <<>>
    [] Kind(e) = "in" -> e[3][2] # <<>>
    [] Kind(e) = "case" -> Len(e[3]) > 1
    [] OTHER -> TRUE

(* The children cut into slots of the lengths that the node's slots have.  *)
Offset(slots, i) == Len(FlattenSeq(SubSeq(slots, 1, i - 1)))

(* As Cut with the slots filled from the last child backwards.             *)
CutBackwards(slots, kids) ==
  LET back == Reverse(kids)
  IN  [i \in DOMAIN slots |-> SubSeq(back, Offset(slots, i) + 1, Offset(slots, i) + Len(slots[i]))]

Cut(slots, kids) ==
  [i \in DOMAIN slots |-> SubSeq(kids, Offset(slots, i) + 1, Offset(slots, i) + Len(slots[i]))]

(* with_new_children                                                       *)
Rebuild(e, kids) ==
  IF Len(kids) # Len(Children(e)) THEN Refused
  ELSE LET rebuilt == <<e[1], e[2], Cut(e[3], kids)>>
       IN  IF WellFormed(rebuilt) THEN rebuilt ELSE Refused

(* rebuild_with_check and identity_rebuild, with the results of parsing    *)
(* the children: the first one that was refused refuses the node.          *)
Checked(kind, what, slots) ==
  LET kids == FlattenSeq(slots)
  IN  IF IsRefused(kids) THEN Refused
      ELSE Rebuild(<<kind, what, slots>>, kids)

(* Tree::transform with a rewrite that puts a tree in the place of a leaf: *)
(* the children first, the node rebuilt, then the rewrite.                 *)
Rewrite(e, subst) ==
  IF Kind(e) = "leaf" /\ e[2] \in DOMAIN subst THEN subst[e[2]] ELSE e

RECURSIVE Transform(_, _)
Transform(e, subst) ==
  LET old == Children(e)
      kids == <<>> \o [i \in DOMAIN old |-> Transform(old[i], subst)]
      rebuilt == IF IsRefused(kids) THEN Refused ELSE Rebuild(e, kids)
  IN  IF rebuilt = Refused THEN Refused ELSE Rewrite(rebuilt, subst)

(* Tree::apply: the nodes in the order in which f_down meets them.         *)
RECURSIVE Walk(_)
Walk(e) == LET kids == Children(e) IN <<e>> \o FlattenSeq([i \in DOMAIN kids |-> Walk(kids[i])])
===============================================================================
