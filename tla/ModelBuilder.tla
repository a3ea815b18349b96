----------------------------- MODULE ModelBuilder -----------------------------
(***************************************************************************)
(* The builder of a semantic model.  Its storage keeps every entry with    *)
(* the place it comes from, in order; `build` looks for duplicate names,   *)
(* folds the storage into maps where the first entry of a name wins, and   *)
(* validates the model those maps make.                                    *)
(*                                                                         *)
(* A kind is a record of its variant, name, temporal shape ("none",        *)
(* "no_grain" or "grain"), nested children, relationships and, on a public *)
(* kind, the entries of its interface; an entry is inline or refers to a   *)
(* pool, and a metric says whether it has an expression.                   *)
(***************************************************************************)
EXTENDS Naturals, Sequences, FiniteSets, SequencesExt

CONSTANTS BadNames,   \* the names outside the identifier grammar
          MaxNest     \* bound on the nesting of the kinds the builder is given

Variants == {"dataset", "grainset", "unionset", "joinset"}
Pools == {"dimensions", "measures", "metrics"}

Kind(variant, name, temporal, children, rels, iface) ==
  [variant |-> variant, name |-> name, temporal |-> temporal, children |-> children,
   relationships |-> rels, interface |-> iface]
Entry(form, pool, name, expr) == [form |-> form, pool |-> pool, name |-> name, expr |-> expr]
PoolItem(pool, name, expr, uses) == [pool |-> pool, name |-> name, expr |-> expr, uses |-> uses]
Relationship(name, from, to, cardinality, optional, crossFilter) ==
  [name |-> name, from |-> from, to |-> to, cardinality |-> cardinality,
   optional |-> optional, cross_filter |-> crossFilter]

EmptyStorage == [name |-> "", description |-> "none", labels |-> <<>>,
                 kinds |-> <<>>, pool |-> <<>>, relationships |-> <<>>]

(* The name and the description of the first source that has one stand;     *)
(* everything else is appended, kinds and pool entries with their place.    *)
FirstName(storage, name) == IF storage.name = "" THEN name ELSE storage.name
LowerInto(root, source, storage) ==
  LET At(xs) == [i \in DOMAIN xs |-> [at |-> source, it |-> xs[i]]]
  IN [name |-> FirstName(storage, root.name),
      description |-> IF storage.description = "none" THEN root.description
                      ELSE storage.description,
      labels |-> storage.labels \o root.labels,
      kinds |-> storage.kinds \o At(root.kinds),
      pool |-> storage.pool \o At(root.pool),
      relationships |-> storage.relationships \o root.relationships]

-----------------------------------------------------------------------------
(* The walk over a kind and everything nested in it, each with its parent's *)
(* variant.                                                                 *)

WalkKind(kind) ==
  LET level[d \in 0..MaxNest] ==
        IF d = 0 THEN {[parent |-> "none", kind |-> kind]}
        ELSE UNION {{[parent |-> p.kind.variant, kind |-> c] : c \in Range(p.kind.children)} :
                    p \in level[d - 1]}
  IN UNION {level[d] : d \in 0..MaxNest}
Nested(kind) == {p.kind : p \in WalkKind(kind)}

(* The names check_identifiers reads: kinds, nested kinds, their            *)
(* relationships, the inline entries of the public interfaces, the pools    *)
(* and the root relationships, over the whole storage.                      *)
NamesOf(kind) ==
  (UNION {{k.name} \cup {r.name : r \in Range(k.relationships)} : k \in Nested(kind)})
  \cup {e.name : e \in {e \in Range(kind.interface) : e.form = "inline"}}
CheckIdentifiers(storage) ==
  LET names == (UNION {NamesOf(e.it) : e \in Range(storage.kinds)})
               \cup {e.it.name : e \in Range(storage.pool)}
               \cup {r.name : r \in Range(storage.relationships)}
  IN names \cap BadNames

-----------------------------------------------------------------------------
(* Duplicates: one name space for the four variants, one per pool.          *)

KindNames(entries) == [i \in DOMAIN entries |-> entries[i].it.name]
PoolKeys(entries) == [i \in DOMAIN entries |-> <<entries[i].it.pool, entries[i].it.name>>]
Repeated(keys) == {k \in Range(keys) : Cardinality({i \in DOMAIN keys : keys[i] = k}) > 1}
DuplicateDataKinds(storage) ==
  {<<"DuplicateDataKindName", n>> : n \in Repeated(KindNames(storage.kinds))}
NoDuplicates(storage) == {}
DuplicateSharedSemantics(storage) ==
  {<<"DuplicateSharedSemanticsName", n>> : n \in Repeated(PoolKeys(storage.pool))}

(* Materialisation: per variant and per pool, the first entry of a name.    *)
FirstOf(entries, keys) ==
  {entries[i].it : i \in {i \in DOMAIN entries : \A j \in 1..(i - 1) : keys[j] # keys[i]}}
VariantKeys(entries) == [i \in DOMAIN entries |-> <<entries[i].it.variant, entries[i].it.name>>]
Materialize(storage) ==
  [name |-> storage.name, description |-> storage.description, labels |-> storage.labels,
   kinds |-> FirstOf(storage.kinds, VariantKeys(storage.kinds)),
   pool |-> FirstOf(storage.pool, PoolKeys(storage.pool)),
   relationships |-> storage.relationships]

-----------------------------------------------------------------------------
(* The validators.  Each gives the set of its diagnostics.                  *)

Walk(model) == UNION {WalkKind(k) : k \in model.kinds}
CheckStructure(model) ==
  (IF model.kinds = {} THEN {<<"EmptyModel">>} ELSE {})
  \cup {<<"ComplexDataKindInsufficientChildren", p.kind.name>> :
          p \in {p \in Walk(model) : p.kind.variant # "dataset" /\ Len(p.kind.children) < 2}}

CheckTemporal(model) ==
  LET leaves == {p \in Walk(model) : p.kind.variant = "dataset"}
  IN {<<"TemporalLeafMissingGrain", p.kind.name>> : p \in {p \in leaves : p.kind.temporal = "no_grain"}}
     \cup {<<"GrainsetChildMissingGrain", p.kind.name>> :
             p \in {p \in leaves : p.parent = "grainset" /\ p.kind.temporal # "grain"}}
     \cup {<<"TemporalGrainOnComplex", p.kind.name>> :
             p \in {p \in Walk(model) \ leaves : p.kind.temporal = "grain"}}

Symmetric(r) == r.cardinality \in {"one_to_one", "many_to_many"}
CheckRelationships(rels) ==
  {<<"RelationshipSymmetricCardinalityIncomplete", r.name, "optional">> :
     r \in {r \in rels : Symmetric(r) /\ r.optional = "unset"}}
  \cup {<<"RelationshipSymmetricCardinalityIncomplete", r.name, "cross_filter">> :
     r \in {r \in rels : Symmetric(r) /\ r.cross_filter = "unset"}}
  \cup {<<"RelationshipManyToManyCrossFilterDirectional", r.name>> :
     r \in {r \in rels : r.cardinality = "many_to_many" /\ r.cross_filter \in {"left", "right"}}}
KnownNames(model) == {k.name : k \in model.kinds}
CheckEndpoints(model) ==
  UNION {{<<"RelationshipDanglingEndpoint", r.name, side>> :
            side \in {side \in {"from", "to"} : r[side] \notin KnownNames(model)}} :
         r \in Range(model.relationships)}
CheckRootRelationships(model) ==
  CheckRelationships(Range(model.relationships)) \cup CheckEndpoints(model)
CheckAllRelationships(model) ==
  (CheckRelationships(Range(model.relationships)) \cup CheckEndpoints(model))
  \cup (UNION {CheckRelationships(Range(j.relationships)) :
                 j \in {k \in model.kinds : k.variant = "joinset"}})

Entries(model) == UNION {Range(k.interface) : k \in model.kinds}
PoolRefs(model) == {e \in Entries(model) : e.form = "ref"}
CheckOrphans(model) ==
  {<<"OrphanSharedSemantics", p.pool, p.name>> :
     p \in {p \in model.pool : ~ \E e \in PoolRefs(model) : e.pool = p.pool /\ e.name = p.name}}
CheckRefExpressions(model) ==
  {<<"SemanticsRefMissingExpr", e.name>> :
     e \in {e \in PoolRefs(model) : /\ e.pool = "metrics" /\ ~e.expr
                                /\ ~ \E p \in model.pool : p.pool = "metrics" /\ p.name = e.name /\ p.expr}}
CheckShadow(model) ==
  {<<"SemanticsShadowRootPool", e.pool, e.name>> :
     e \in {e \in Entries(model) : /\ e.form = "inline"
                                   /\ \E p \in model.pool : p.pool = e.pool /\ p.name = e.name}}

(* The reference cycles among the block expressions of one pool; CycleCheck *)
(* models the walk that finds them.                                         *)
Uses(model, pool) ==
  UNION {{<<p.name, u>> : u \in p.uses} : p \in {p \in model.pool : p.pool = pool}}
Closure(edges) ==
  LET n == {e[1] : e \in edges} \cup {e[2] : e \in edges}
      reach[i \in 0..Cardinality(n)] ==
        IF i = 0 THEN edges
        ELSE LET r == reach[i - 1]
             IN r \cup UNION {{<<e[1], f[2]>> : f \in {f \in edges : f[1] = e[2]}} : e \in r}
  IN reach[Cardinality(n)]
CheckCycles(model) ==
  UNION {{<<"CyclicSemanticsReference", pool>> : e \in {e \in Closure(Uses(model, pool)) : e[1] = e[2]}} :
           pool \in Pools}

Validate(model) ==
  CheckStructure(model) \cup CheckTemporal(model) \cup CheckAllRelationships(model)
  \cup CheckOrphans(model) \cup CheckRefExpressions(model) \cup CheckShadow(model)
  \cup CheckCycles(model)

Severity(d) == IF d[1] = "SemanticsShadowRootPool" THEN "warning" ELSE "error"
HasError(diags) == \E d \in diags : Severity(d) = "error"

(* SemanticModelBuilder::build, all of it.                                  *)
BuildModel(storage) ==
  LET model == Materialize(storage)
      diags == DuplicateDataKinds(storage) \cup DuplicateSharedSemantics(storage) \cup Validate(model)
  IN [ok |-> ~HasError(diags), model |-> model, diags |-> diags]

(* RelationshipBuilder::build refuses what the validator reports, but stops *)
(* at the first fault.                                                      *)
BuilderAccepts(r) ==
  /\ Symmetric(r) => r.optional # "unset" /\ r.cross_filter # "unset"
  /\ r.cardinality = "many_to_many" => r.cross_filter \notin {"left", "right"}

FindPublic(model, name) == {k \in model.kinds : k.name = name}
=============================================================================
