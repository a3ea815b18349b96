--------------------------- MODULE CompileProofs ---------------------------
(***************************************************************************)
(* Theorems about the manifest compiler (CompilePipeline): what the steps  *)
(* from the parsed model to the manifest keep of what the author wrote.    *)
(***************************************************************************)
EXTENDS CompilePipeline, SequenceTheorems, FiniteSetTheorems, TLAPS

-----------------------------------------------------------------------------
(* The expansion of a dataset.                                             *)

(* Fields is the type of a dataset; the rewritten one keeps what it is     *)
(* called and where it is stored.                                          *)
LEMMA DatasetKept ==
  ASSUME NEW k, NEW d, IsDataset(d), NEW e \in ExpandedDatasets(k, d)
  PROVE  /\ DOMAIN e = DOMAIN d
         /\ e.name = d.name /\ e.storage = d.storage
         /\ e.mapping.mode = "explicit"
         /\ k.variant = "simple" => e.temporal = d.temporal /\ e.mapping.entries = EffectiveEntries(k, d)
         /\ k.variant # "simple" =>
              /\ e.temporal = Default(d.temporal, k.temporal)
              /\ \E f \in Flattenings(EffectiveEntries(k, d)) :
                   e.mapping.entries = WithTemporalGrain(f, e.temporal)
<1>1. CASE k.variant = "simple"
  <2>1. e = [d EXCEPT !.mapping = Explicit(EffectiveEntries(k, d))]
    BY <1>1 DEF ExpandedDatasets
  <2> QED BY <1>1, <2>1 DEF IsDataset, Explicit
<1>2. CASE k.variant # "simple"
  <2> DEFINE tmp == Default(d.temporal, k.temporal)
  <2>1. PICK f \in Flattenings(EffectiveEntries(k, d)) :
          e = [d EXCEPT !.mapping = Explicit(WithTemporalGrain(f, tmp)),
                        !.temporal = tmp, !.catalog = Default(d.catalog, k.catalog)]
    BY <1>2 DEF ExpandedDatasets
  <2> HIDE DEF tmp
  <2>2. DOMAIN e = DOMAIN d /\ e.name = d.name /\ e.storage = d.storage /\ e.temporal = tmp
        /\ e.mapping = Explicit(WithTemporalGrain(f, tmp))
    BY <2>1 DEF IsDataset
  <2> QED BY <1>2, <2>2 DEF Explicit, tmp
<1> QED BY <1>1, <1>2

(* What an entry of a mapping may be.                                      *)
Typed(f) ==
  \A x \in DOMAIN f : /\ f[x].t \in {"column", "graded", "literal", "anchored"}
                      /\ f[x].t = "column" => f[x].grain = None

LEMMA IdentityFacts ==
  ASSUME NEW k
  PROVE  /\ DOMAIN IdentityMap(k) = MappableNames(k)
         /\ Typed(IdentityMap(k)) /\ AnchoredNames(IdentityMap(k)) = {}
BY DEF IdentityMap, Typed, Column, AnchoredNames

LEMMA EffectiveTyped ==
  ASSUME NEW k, IsKind(k), NEW i \in Inline(k)
  PROVE  Typed(EffectiveEntries(k, k.children[i]))
<1> DEFINE d == k.children[i]
<1>1. IsMapping(d.mapping) BY DEF IsKind, IsDataset
<1>2. d.mapping.mode = "explicit" => Typed(d.mapping.entries)
  BY <1>1 DEF IsMapping, Typed
<1>3. KindDefault(k) # None => Typed(KindDefault(k))
  BY IdentityFacts DEF KindDefault, IsKind, IsMapping, Typed
<1>4. Typed(EmptyMap) BY DEF EmptyMap, Typed
<1>5. ASSUME NEW f, NEW g, Typed(f), Typed(g) PROVE Typed(Over(f, g))
  BY <1>5 DEF Over, Typed
<1>6. Typed(IdentityMap(k)) BY IdentityFacts
<1> HIDE DEF d
<1> QED BY <1>2, <1>3, <1>4, <1>5, <1>6 DEF EffectiveEntries, d

(* The anchors' names are added; what has an entry keeps it.               *)
LEMMA FlattenedFacts ==
  ASSUME NEW f, Typed(f), NEW g \in Flattenings(f)
  PROVE  /\ DOMAIN g = DOMAIN f \cup SubNames(f)
         /\ \A x \in DOMAIN f : g[x] = f[x]
         /\ Typed(g) /\ AnchoredNames(g) = AnchoredNames(f) /\ SubNames(g) = SubNames(f)
<1> DEFINE new == SubNames(f) \ DOMAIN f
<1>1. PICK h \in [new -> AnchoredNames(f)] : g = Over(f, [s \in new |-> Column(f[h[s]].anchors[s])])
  BY DEF Flattenings
<1>2. /\ DOMAIN g = DOMAIN f \cup SubNames(f)
      /\ \A x \in DOMAIN f : g[x] = f[x]
      /\ \A x \in new : g[x] = Column(f[h[x]].anchors[x])
  BY <1>1 DEF Over
<1>3. \A x \in new : g[x].t = "column" /\ g[x].grain = None BY <1>2 DEF Column
<1>4. Typed(g) BY <1>2, <1>3 DEF Typed
<1>5. AnchoredNames(g) = AnchoredNames(f) BY <1>2, <1>3 DEF AnchoredNames
<1>6. SubNames(g) = SubNames(f)
  <2>1. \A x \in AnchoredNames(f) : g[x] = f[x] BY <1>2 DEF AnchoredNames
  <2> QED BY <1>5, <2>1 DEF SubNames
<1> QED BY <1>2, <1>4, <1>5, <1>6

(* A grain is given to a column that has none, and the column stays.       *)
LEMMA GrainedFacts ==
  ASSUME NEW f, Typed(f), NEW tmp
  PROVE  LET g == WithTemporalGrain(f, tmp) IN
         /\ DOMAIN g = DOMAIN f
         /\ Typed(g) /\ SubNames(g) = SubNames(f)
         /\ \A x \in DOMAIN f : IsColumn(f[x]) =>
              IsColumn(g[x]) /\ g[x].column = f[x].column /\ (f[x].grain # None => g[x] = f[x])
<1> DEFINE g == WithTemporalGrain(f, tmp)
<1>1. CASE g = f BY <1>1
<1>2. CASE g # f
  <2> DEFINE x == tmp.dimension
  <2>1. /\ x \in DOMAIN f /\ f[x].t \notin {"anchored", "literal"}
        /\ f[x].grain = None /\ f[x].column = tmp.column
        /\ g = [f EXCEPT ![x] = Graded(tmp.column, tmp.grain)]
    BY <1>2 DEF WithTemporalGrain
  <2> HIDE DEF g
  <2>2. DOMAIN g = DOMAIN f /\ g[x] = Graded(tmp.column, tmp.grain)
        /\ \A y \in DOMAIN f : y # x => g[y] = f[y]
    BY <2>1
  <2>3. g[x].t = "graded" /\ g[x].column = f[x].column BY <2>1, <2>2 DEF Graded
  <2>4. Typed(g) BY <2>2, <2>3 DEF Typed
  <2>5. AnchoredNames(g) = AnchoredNames(f) BY <2>1, <2>2, <2>3 DEF AnchoredNames
  <2>6. SubNames(g) = SubNames(f)
    <3>1. \A y \in AnchoredNames(f) : g[y] = f[y] BY <2>1, <2>2 DEF AnchoredNames
    <3> QED BY <2>5, <3>1 DEF SubNames
  <2> QED BY <2>1, <2>2, <2>3, <2>4, <2>6 DEF IsColumn, g
<1> QED BY <1>1, <1>2

(* An expanded mapping has what its dataset and its kind say, and the      *)
(* identity besides if the kind is simple.                                 *)
LEMMA EntriesFacts ==
  ASSUME NEW k, IsKind(k), NEW i \in Inline(k), NEW e \in ExpandedDatasets(k, k.children[i])
  PROVE  LET m == e.mapping.entries
             w == Written(k, k.children[i])
         IN /\ Typed(m)
            /\ \A x \in DOMAIN w \ SubNames(w) : IsColumn(w[x]) =>
                 /\ x \in DOMAIN m \ SubNames(m)
                 /\ IsColumn(m[x]) /\ m[x].column = w[x].column
                 /\ w[x].grain # None => m[x] = w[x]
            /\ k.variant = "simple" => MappableNames(k) \subseteq DOMAIN m
<1> DEFINE d == k.children[i]
           m == e.mapping.entries
           w == Written(k, d)
           f == EffectiveEntries(k, d)
<1>1. IsDataset(d) /\ IsMapping(d.mapping) BY DEF IsKind, IsDataset
<1>2. Typed(f) BY EffectiveTyped
<1>3. /\ \A x \in DOMAIN w : x \in DOMAIN f /\ f[x] = w[x]
      /\ DOMAIN w # {} => SubNames(f) = SubNames(w)
      /\ k.variant = "simple" => MappableNames(k) \subseteq DOMAIN f
  <2>1. DOMAIN EmptyMap = {} BY DEF EmptyMap
  <2>2. CASE d.mapping.mode = "explicit" /\ k.variant = "simple"
    <3>1. k.mapping = None BY <2>2 DEF IsKind
    <3>2. f = Over(d.mapping.entries, IdentityMap(k)) BY <2>2 DEF EffectiveEntries
    <3>3. w = Over(d.mapping.entries, EmptyMap) BY <2>2, <3>1 DEF Written
    <3> DEFINE own == d.mapping.entries
               same == IdentityMap(k)
    <3>0. DOMAIN same = MappableNames(k) /\ \A x \in DOMAIN same : same[x].t = "column"
      BY DEF IdentityMap, Column
    <3> HIDE DEF own, same
    <3>4. /\ DOMAIN w = DOMAIN own
          /\ \A x \in DOMAIN w : w[x] = own[x]
          /\ DOMAIN f = DOMAIN w \cup MappableNames(k)
          /\ \A x \in DOMAIN w : f[x] = w[x]
          /\ \A x \in DOMAIN f \ DOMAIN w : f[x].t = "column"
      <4>1. f = Over(own, same) /\ w = Over(own, EmptyMap) BY <3>2, <3>3 DEF own, same
      <4> HIDE DEF f, w
      <4>2. DOMAIN w = DOMAIN own /\ \A x \in DOMAIN w : w[x] = own[x] BY <2>1, <4>1 DEF Over
      <4>3. /\ DOMAIN f = DOMAIN own \cup DOMAIN same
            /\ \A x \in DOMAIN own : f[x] = own[x]
            /\ \A x \in DOMAIN f \ DOMAIN own : f[x] = same[x]
        BY <4>1 DEF Over
      <4> QED BY <3>0, <4>2, <4>3
    <3>5. AnchoredNames(f) = AnchoredNames(w) BY <3>4 DEF AnchoredNames
    <3>6. \A x \in AnchoredNames(w) : f[x] = w[x] BY <3>4 DEF AnchoredNames
    <3>7. SubNames(f) = SubNames(w) BY <3>5, <3>6 DEF SubNames
    <3> QED BY <3>4, <3>7
  <2>3. CASE d.mapping.mode = "explicit" /\ k.variant # "simple"
    <3> DEFINE g == IF KindDefault(k) = None THEN EmptyMap ELSE KindDefault(k)
    <3>1. f = Over(d.mapping.entries, g) BY <2>3 DEF EffectiveEntries
    <3>2. CASE k.mapping # None /\ k.mapping.mode = "explicit"
      <4>1. KindDefault(k) = k.mapping.entries BY <3>2 DEF KindDefault
      <4>2. w = Over(d.mapping.entries, k.mapping.entries) BY <2>3, <3>2 DEF Written
      <4>3. KindDefault(k) # None BY <3>2, <4>1 DEF IsKind, IsMapping
      <4>4. f = w BY <3>1, <4>1, <4>2, <4>3
      <4> QED BY <2>3, <4>4
    <3>3. CASE ~(k.mapping # None /\ k.mapping.mode = "explicit")
      <4>1. w = Over(d.mapping.entries, EmptyMap) BY <2>3, <3>3 DEF Written
      <4>2. \A x \in DOMAIN g : g[x].t = "column"
        BY <2>1, <3>3 DEF KindDefault, IdentityMap, Column
      <4> HIDE DEF g
      <4>3. /\ DOMAIN w = DOMAIN d.mapping.entries
            /\ \A x \in DOMAIN w : w[x] = d.mapping.entries[x]
            /\ DOMAIN f = DOMAIN w \cup DOMAIN g
            /\ \A x \in DOMAIN w : f[x] = w[x]
            /\ \A x \in DOMAIN f \ DOMAIN w : f[x].t = "column"
        BY <2>1, <3>1, <4>1, <4>2 DEF Over
      <4>4. AnchoredNames(f) = AnchoredNames(w) BY <4>3 DEF AnchoredNames
      <4>5. \A x \in AnchoredNames(w) : f[x] = w[x] BY <4>3 DEF AnchoredNames
      <4>6. SubNames(f) = SubNames(w) BY <4>4, <4>5 DEF SubNames
      <4> QED BY <2>3, <4>3, <4>6
    <3> QED BY <3>2, <3>3
  <2>4. CASE d.mapping.mode # "explicit"
    <3>1. CASE k.mapping # None /\ d.mapping.mode # "auto" /\ k.mapping.mode = "explicit"
      <4>1. k.variant # "simple" BY <3>1 DEF IsKind
      <4>2. d.mapping.mode = "inherited" BY <1>1, <2>4, <3>1 DEF IsMapping
      <4>3. KindDefault(k) = k.mapping.entries BY <3>1 DEF KindDefault
      <4>4. w = Over(EmptyMap, k.mapping.entries) BY <2>4, <3>1 DEF Written
      <4>5. KindDefault(k) # None BY <3>1, <4>3 DEF IsKind, IsMapping
      <4>6. f = k.mapping.entries BY <4>1, <4>2, <4>3, <4>5 DEF EffectiveEntries
      <4>7. DOMAIN w = DOMAIN f /\ \A x \in DOMAIN w : w[x] = f[x]
        BY <2>1, <4>4, <4>6 DEF Over
      <4>8. AnchoredNames(f) = AnchoredNames(w) BY <4>7 DEF AnchoredNames
      <4>9. \A x \in AnchoredNames(w) : f[x] = w[x] BY <4>7 DEF AnchoredNames
      <4>10. SubNames(f) = SubNames(w) BY <4>8, <4>9 DEF SubNames
      <4> QED BY <4>1, <4>7, <4>10
    <3>2. CASE ~(k.mapping # None /\ d.mapping.mode # "auto" /\ k.mapping.mode = "explicit")
      <4>1. w = Over(EmptyMap, EmptyMap) BY <2>4, <3>2 DEF Written
      <4>2. DOMAIN w = {} BY <2>1, <4>1 DEF Over
      <4>3. k.variant = "simple" => f = IdentityMap(k) BY <2>4 DEF EffectiveEntries
      <4> QED BY <4>2, <4>3, IdentityFacts
    <3> QED BY <3>1, <3>2
  <2> QED BY <2>2, <2>3, <2>4
<1> HIDE DEF d, w, f
<1>4. CASE k.variant = "simple"
  <2>1. m = f BY <1>1, <1>4, DatasetKept DEF d, f
  <2> HIDE DEF m
  <2> QED BY <1>2, <1>3, <2>1 DEF d, w, m
<1>5. CASE k.variant # "simple"
  <2>1. PICK g \in Flattenings(f) : m = WithTemporalGrain(g, e.temporal)
    BY <1>1, <1>5, DatasetKept DEF d, f
  <2> HIDE DEF m
  <2>2. /\ DOMAIN g = DOMAIN f \cup SubNames(f) /\ \A x \in DOMAIN f : g[x] = f[x]
        /\ Typed(g) /\ SubNames(g) = SubNames(f)
    BY <1>2, FlattenedFacts
  <2>3. /\ DOMAIN m = DOMAIN g /\ Typed(m) /\ SubNames(m) = SubNames(g)
        /\ \A x \in DOMAIN g : IsColumn(g[x]) =>
             IsColumn(m[x]) /\ m[x].column = g[x].column /\ (g[x].grain # None => m[x] = g[x])
    BY <2>1, <2>2, GrainedFacts
  <2> QED BY <1>3, <1>5, <2>2, <2>3 DEF d, w, m
<1> QED BY <1>4, <1>5

-----------------------------------------------------------------------------
(* The rewriting of a model: expansion, then derived grains.               *)
LEMMA KindKept ==
  ASSUME NEW k, IsKind(k), NEW x \in ExpandedKinds(k)
  PROVE  /\ x.variant = k.variant /\ x.dims = k.dims /\ x.measures = k.measures /\ x.metrics = k.metrics
         /\ x.keys = k.keys /\ x.temporal = k.temporal /\ DOMAIN x = DOMAIN k
         /\ DOMAIN x.children = DOMAIN k.children
         /\ \A i \in Inline(k) : x.children[i] \in ExpandedDatasets(k, k.children[i])
         /\ \A i \in DOMAIN k.children \ Inline(k) : x.children[i] = k.children[i]
         /\ Inline(x) = Inline(k)
<1>1. PICK f : /\ \A i \in Inline(k) : f[i] \in ExpandedDatasets(k, k.children[i])
               /\ x = [k EXCEPT !.children =
                        [i \in DOMAIN k.children |-> IF i \in Inline(k) THEN f[i] ELSE k.children[i]]]
  BY DEF ExpandedKinds
<1>2. /\ x.variant = k.variant /\ x.dims = k.dims /\ x.measures = k.measures /\ x.metrics = k.metrics
      /\ x.keys = k.keys /\ x.temporal = k.temporal /\ DOMAIN x = DOMAIN k
      /\ x.children = [i \in DOMAIN k.children |-> IF i \in Inline(k) THEN f[i] ELSE k.children[i]]
  BY <1>1 DEF IsKind
<1>3. Inline(k) \subseteq DOMAIN k.children BY DEF Inline
<1>4. /\ DOMAIN x.children = DOMAIN k.children
      /\ \A i \in Inline(k) : x.children[i] = f[i]
      /\ \A i \in DOMAIN k.children \ Inline(k) : x.children[i] = k.children[i]
  BY <1>2, <1>3
<1>5. \A i \in Inline(k) : "ref" \notin DOMAIN x.children[i]
  <2> TAKE i \in Inline(k)
  <2>1. IsDataset(k.children[i]) BY DEF IsKind
  <2>2. DOMAIN x.children[i] = DOMAIN k.children[i] BY <1>1, <1>4, <2>1, DatasetKept
  <2> QED BY <2>1, <2>2 DEF IsDataset
<1>6. Inline(x) = Inline(k) BY <1>3, <1>4, <1>5 DEF Inline
<1> QED BY <1>1, <1>2, <1>4, <1>6

(* y is the model after both steps, x the one between them.                *)
LEMMA ModelKept ==
  ASSUME NEW m \in Models, NEW x \in Expansions(m), NEW y, y = WithDerivedGrains(x)
  PROVE  /\ DOMAIN y = DOMAIN m /\ DOMAIN x = DOMAIN m
         /\ \A n \in DOMAIN m :
              /\ IsKind(m[n]) /\ x[n] \in ExpandedKinds(m[n])
              /\ y[n].variant = m[n].variant /\ y[n].measures = m[n].measures /\ y[n].metrics = m[n].metrics
              /\ y[n].keys = m[n].keys /\ y[n].temporal = m[n].temporal
              /\ y[n].children = x[n].children /\ Inline(y[n]) = Inline(m[n])
              /\ MappableNames(y[n]) = MappableNames(m[n])
              /\ DOMAIN y[n].dims = DOMAIN m[n].dims
              /\ \A d \in DOMAIN m[n].dims :
                   /\ y[n].dims[d].type = m[n].dims[d].type
                   /\ y[n].dims[d].grains = IF m[n].variant # "simple" /\ Derivable(x[n], d)
                                              THEN DerivedGrains(x[n], d) ELSE m[n].dims[d].grains
<1>1. /\ DOMAIN x = DOMAIN m /\ \A n \in DOMAIN m : x[n] \in ExpandedKinds(m[n])
  BY DEF Expansions
<1>2. DOMAIN y = DOMAIN m BY <1>1 DEF WithDerivedGrains
<1>3. ASSUME NEW n \in DOMAIN m
      PROVE  /\ IsKind(m[n]) /\ x[n] \in ExpandedKinds(m[n])
             /\ y[n].variant = m[n].variant /\ y[n].measures = m[n].measures /\ y[n].metrics = m[n].metrics
             /\ y[n].keys = m[n].keys /\ y[n].temporal = m[n].temporal
             /\ y[n].children = x[n].children /\ Inline(y[n]) = Inline(m[n])
             /\ MappableNames(y[n]) = MappableNames(m[n])
             /\ DOMAIN y[n].dims = DOMAIN m[n].dims
             /\ \A d \in DOMAIN m[n].dims :
                  /\ y[n].dims[d].type = m[n].dims[d].type
                  /\ y[n].dims[d].grains = IF m[n].variant # "simple" /\ Derivable(x[n], d)
                                             THEN DerivedGrains(x[n], d) ELSE m[n].dims[d].grains
  <2>1. IsKind(m[n]) BY ModelsAssumption
  <2>2. x[n] \in ExpandedKinds(m[n]) BY <1>1
  <2>3. /\ x[n].variant = m[n].variant /\ x[n].dims = m[n].dims /\ x[n].measures = m[n].measures
        /\ x[n].metrics = m[n].metrics /\ x[n].keys = m[n].keys /\ x[n].temporal = m[n].temporal
        /\ DOMAIN x[n] = DOMAIN m[n] /\ Inline(x[n]) = Inline(m[n])
    BY <2>1, <2>2, KindKept
  <2>4. CASE m[n].variant = "simple"
    <3>1. y[n] = x[n] BY <1>1, <2>3, <2>4 DEF WithDerivedGrains
    <3> QED BY <2>1, <2>2, <2>3, <2>4, <3>1 DEF MappableNames
  <2>5. CASE m[n].variant # "simple"
    <3> DEFINE dims == [d \in DOMAIN x[n].dims |->
                 IF Derivable(x[n], d) THEN [x[n].dims[d] EXCEPT !.grains = DerivedGrains(x[n], d)]
                 ELSE x[n].dims[d]]
    <3>1. y[n] = [x[n] EXCEPT !.dims = dims] BY <1>1, <2>3, <2>5 DEF WithDerivedGrains
    <3>2. /\ DOMAIN dims = DOMAIN m[n].dims
          /\ \A d \in DOMAIN m[n].dims :
               dims[d] = IF Derivable(x[n], d) THEN [m[n].dims[d] EXCEPT !.grains = DerivedGrains(x[n], d)]
                         ELSE m[n].dims[d]
      BY <2>3
    <3> HIDE DEF dims
    <3>3. /\ y[n].variant = m[n].variant /\ y[n].measures = m[n].measures /\ y[n].metrics = m[n].metrics
          /\ y[n].keys = m[n].keys /\ y[n].temporal = m[n].temporal
          /\ y[n].children = x[n].children /\ y[n].dims = dims
      BY <2>1, <2>3, <3>1 DEF IsKind
    <3>4. ASSUME NEW d \in DOMAIN m[n].dims
          PROVE  /\ dims[d].type = m[n].dims[d].type
                 /\ dims[d].computed = m[n].dims[d].computed
                 /\ dims[d].grains = IF Derivable(x[n], d) THEN DerivedGrains(x[n], d) ELSE m[n].dims[d].grains
      <4>1. {"type", "grains", "computed"} \subseteq DOMAIN m[n].dims[d] BY <2>1 DEF IsKind
      <4>2. CASE Derivable(x[n], d)
        <5>1. dims[d] = [m[n].dims[d] EXCEPT !.grains = DerivedGrains(x[n], d)] BY <3>2, <4>2
        <5> QED BY <4>1, <4>2, <5>1
      <4>3. CASE ~Derivable(x[n], d)
        <5> QED BY <3>2, <4>3
      <4> QED BY <4>2, <4>3
    <3>5. Inline(y[n]) = Inline(m[n])
      <4>1. Inline(y[n]) = Inline(x[n]) BY <3>3 DEF Inline
      <4> QED BY <2>3, <4>1
    <3>6. MappableNames(y[n]) = MappableNames(m[n])
      BY <3>2, <3>3, <3>4 DEF MappableNames
    <3> QED BY <2>1, <2>2, <2>5, <3>2, <3>3, <3>4, <3>5, <3>6
  <2> QED BY <2>4, <2>5
<1> QED BY <1>1, <1>2, <1>3

-----------------------------------------------------------------------------
(* The invariant of the pipeline: what the model is at each stage, which   *)
(* validators it has passed, and what is resolved so far.                  *)
Given == {"sources", "structure", "temporal_equivalence", "storage", "metadata_dimensions", "expand"}
Derived == {"mappings", "grain_compatibility", "metric_graph", "emit", "done"}
Stages == Given \cup {"temporal_dimension", "derive_grains"} \cup Derived \cup {"failed", "overflow"}

Rewritten ==
  /\ stage \in Given => model = source
  /\ stage \in {"temporal_dimension", "derive_grains"} => model \in Expansions(source)
  /\ stage = "derive_grains" => TemporalDimensionErrors(model) = {}
  /\ stage \in Derived =>
       \E x \in Expansions(source) : model = WithDerivedGrains(x) /\ TemporalDimensionErrors(x) = {}

Validated ==
  /\ stage \notin {"sources", "structure", "failed", "overflow"} =>
       StructureErrors(source) = {} /\ ~NestingEndless(source)
  /\ stage = "overflow" => NestingEndless(source)
  /\ stage \in Derived \ {"mappings"} => MappingErrors(model) = {}
  /\ stage \in Derived \ {"mappings", "grain_compatibility"} => GrainErrors(model) = {}

Compiled ==
  stage = "done" =>
    \E es \in CompiledEntities(model, depths, resolved) :
      manifest = [kinds |-> es, fields |-> FieldIndex(es), graph |-> SemanticGraph(es)]

Places == StoragePlaces(source)

(* The sources stored for a dataset are its own, and each of its patterns  *)
(* is found in them or has had a warning.                                  *)
Warned(d, p) == \E w \in {"SRC_W001", "SRC_W002"} : <<w, d.name, p>> \in warnings

Accounted(d) ==
  /\ d.name \in DOMAIN resolved => \A s \in resolved[d.name] : s.reference \in Patterns(d.storage)
  /\ \A p \in Patterns(d.storage) :
       \/ d.name \in DOMAIN resolved /\ \E s \in resolved[d.name] : s.reference = p /\ s.target # None
       \/ Warned(d, p)

Resolution ==
  /\ todo \subseteq Places
  /\ stage \notin {"sources", "failed"} => todo = {}
  /\ \A name \in DOMAIN resolved : \E p \in Places \ todo : DatasetAt(source, p).name = name
  /\ \A p \in Places \ todo : OwnName(DatasetAt(source, p)) => Accounted(DatasetAt(source, p))

PipelineInv ==
  source \in Models /\ stage \in Stages /\ Rewritten /\ Validated /\ Compiled /\ Resolution

LEMMA InitHolds == Init => PipelineInv
<1> SUFFICES ASSUME Init PROVE PipelineInv
  OBVIOUS
<1>1. source \in Models /\ model = source /\ stage = "sources" /\ todo = Places /\ DOMAIN resolved = {}
  BY DEF Init, Places, EmptyMap
<1> QED BY <1>1 DEF PipelineInv, Stages, Given, Derived, Rewritten, Validated, Compiled, Resolution

(* Two places of a dataset whose name is its own are one.                  *)
LEMMA PlacesApart ==
  ASSUME source \in Models, NEW p \in Places, NEW q \in Places, OwnName(DatasetAt(source, p)),
         DatasetAt(source, p).name = DatasetAt(source, q).name
  PROVE  p = q
<1> DEFINE name == DatasetAt(source, p).name
<1>1. ASSUME NEW r \in Places, DatasetAt(source, r).name = name
      PROVE  /\ r = <<r[1], r[2]>> /\ r[1] \in DOMAIN KindOrder
             /\ <<KindOrder[r[1]], r[2]>> \in Namesakes(name)
  <2>1. PICK i \in Listed(source) : \E j \in Inline(source[KindOrder[i]]) : r = <<i, j>>
    BY DEF Places, StoragePlaces
  <2>2. PICK j \in Inline(source[KindOrder[i]]) : r = <<i, j>> BY <2>1
  <2>3. i \in DOMAIN KindOrder /\ KindOrder[i] \in DOMAIN source BY DEF Listed
  <2>4. source[KindOrder[i]].children[j].name = name BY <1>1, <2>2 DEF DatasetAt
  <2>5. <<KindOrder[i], j>> \in Namesakes(name)
    <3> DEFINE n == KindOrder[i]
               here(x) == {<<x, l>> : l \in {k \in Inline(source[x]) : source[x].children[k].name = name}}
    <3>1. n \in DOMAIN source /\ <<n, j>> \in here(n) BY <2>3, <2>4
    <3>2. <<n, j>> \in UNION {here(x) : x \in DOMAIN source} BY <3>1
    <3> QED BY <3>2 DEF Namesakes
  <2> QED BY <2>2, <2>3, <2>5
<1>2. <<KindOrder[p[1]], p[2]>> = <<KindOrder[q[1]], q[2]>> BY <1>1 DEF OwnName
<1>3. p[1] = q[1] BY <1>1, <1>2, ModelsAssumption DEF IsInjective
<1> QED BY <1>1, <1>2, <1>3

(* What one resolution stores accounts for every pattern of the dataset.   *)
LEMMA PatternsAnswered ==
  ASSUME NEW d, IsDataset(d), d.storage # None, NEW listing \in Listings, NEW readable, NEW answer,
         ~ResolutionFails(d.storage, d.catalog, env, listing),
         NEW sources, sources = PathSources(d.storage, env, listing, readable)
                                  \cup TableSources(d.storage, d.catalog, env, listing, answer)
  PROVE  /\ \A s \in sources : s.reference \in Patterns(d.storage)
         /\ \A p \in Patterns(d.storage) :
              \/ \E s \in sources : s.reference = p /\ s.target # None
              \/ \E w \in {"SRC_W001", "SRC_W002"} :
                   <<w, d.name, p>> \in ResolutionWarnings(d.name, d.storage, d.catalog, env, listing, answer)
<1> DEFINE st == d.storage
<1>1. \A s \in sources : s.reference \in Patterns(st)
  BY DEF PathSources, TableSources, ResolvedSource, Patterns
<1>2. ASSUME NEW p \in Patterns(st), ~(p \in Globs /\ listing[p] = {})
      PROVE  \E t \in Expanded(p, listing) : t # None
  <2>1. CASE p \in Globs
    <3>1. p \in DOMAIN listing BY <2>1 DEF ResolutionFails, CannotExpand, Patterns
    <3>2. None \notin listing[p] BY <3>1, ModelsAssumption
    <3>3. PICK t \in listing[p] : TRUE BY <1>2, <2>1
    <3> QED BY <2>1, <3>2, <3>3 DEF Expanded
  <2>2. CASE p \notin Globs
    <3>1. p # None BY DEF IsDataset
    <3> QED BY <2>2, <3>1 DEF Expanded
  <2> QED BY <2>1, <2>2
<1>3. ASSUME NEW p \in Patterns(st), ~(p \in Globs /\ listing[p] = {})
      PROVE  \E s \in sources : s.reference = p /\ s.target # None
  <2>1. PICK t \in Expanded(p, listing) : t # None BY <1>2, <1>3
  <2>2. CASE p \in Range(st.paths)
    <3> DEFINE s == ResolvedSource(p, "path", t, None, env.storage /\ st.format /\ readable)
    <3>1. s \in PathSources(st, env, listing, readable) BY <2>1, <2>2 DEF PathSources
    <3>2. s.reference = p /\ s.target = t BY DEF ResolvedSource
    <3> QED BY <2>1, <3>1, <3>2
  <2>3. CASE p \in Range(st.tables)
    <3> DEFINE s == ResolvedSource(p, "table", t, d.catalog,
                      Provider(d.catalog, env) # None /\ answer[t] \in {"metadata", "schema"})
    <3>1. s \in TableSources(st, d.catalog, env, listing, answer) BY <2>1, <2>3 DEF TableSources
    <3>2. s.reference = p /\ s.target = t BY DEF ResolvedSource
    <3> QED BY <2>1, <3>1, <3>2
  <2> QED BY <2>2, <2>3 DEF Patterns
<1>4. ASSUME NEW p \in Patterns(st), p \in Globs /\ listing[p] = {}
      PROVE  \E w \in {"SRC_W001", "SRC_W002"} :
               <<w, d.name, p>> \in ResolutionWarnings(d.name, st, d.catalog, env, listing, answer)
  BY <1>4 DEF ResolutionWarnings, Patterns
<1> QED BY <1>1, <1>3, <1>4

(* A dataset is resolved: the others keep what they have.                  *)
LEMMA ResolveStep ==
  ASSUME PipelineInv, ResolveDataset
  PROVE  Resolution'
<1>1. /\ source' = source /\ model = source /\ stage = "sources" /\ source \in Models
      /\ Resolution
  BY DEF PipelineInv, ResolveDataset, Rewritten, Given
<1> DEFINE Outcome(p, d, listing, readable) ==
        IF ResolutionFails(d.storage, d.catalog, env, listing)
          THEN stage' = "failed" /\ UNCHANGED <<todo, resolved, snapshot, warnings>>
          ELSE \E answer \in [Tables(d.storage, listing) -> TableAnswers] :
                 LET sources == PathSources(d.storage, env, listing, readable)
                                  \union TableSources(d.storage, d.catalog, env, listing, answer)
                 IN  /\ resolved' = Over(Stored(d.name, sources), resolved)
                     /\ snapshot' = Over(Snapshots(d.storage, d.catalog, env, listing, answer), snapshot)
                     /\ warnings' = warnings \union
                          ResolutionWarnings(d.name, d.storage, d.catalog, env, listing, answer)
                     /\ todo' = todo \ {p}
                     /\ UNCHANGED stage
<1>2. PICK p \in todo : \E listing \in Listings, readable \in BOOLEAN :
                        Outcome(p, DatasetAt(model, p), listing, readable)
  BY DEF ResolveDataset
<1>3. PICK d : d = DatasetAt(source, p) OBVIOUS
<1>4. PICK listing \in Listings, readable \in BOOLEAN : Outcome(p, d, listing, readable)
  <2> HIDE DEF Outcome
  <2> QED BY <1>1, <1>2, <1>3
<1>5. Places' = Places BY <1>1 DEF Places, StoragePlaces, Listed, DatasetAt, Inline
<1>6. \A x : DatasetAt(source, x)' = DatasetAt(source, x) BY <1>1 DEF DatasetAt
<1>7. \A x : OwnName(x)' <=> OwnName(x) BY <1>1 DEF OwnName, Namesakes, Inline, IsBareKind
<1>8. CASE ResolutionFails(d.storage, d.catalog, env, listing)
  <2>1. /\ stage' = "failed" /\ todo' = todo /\ resolved' = resolved /\ warnings' = warnings
    BY <1>4, <1>8
  <2>2. \A x : Accounted(x)' <=> Accounted(x) BY <2>1 DEF Accounted, Warned
  <2> QED BY <1>1, <1>5, <1>6, <1>7, <2>1, <2>2 DEF Resolution
<1>9. CASE ~ResolutionFails(d.storage, d.catalog, env, listing)
  <2>1. PICK answer \in [Tables(d.storage, listing) -> TableAnswers] :
          /\ resolved' = Over(Stored(d.name, PathSources(d.storage, env, listing, readable)
                                      \union TableSources(d.storage, d.catalog, env, listing, answer)), resolved)
          /\ warnings' = warnings \union
               ResolutionWarnings(d.name, d.storage, d.catalog, env, listing, answer)
          /\ todo' = todo \ {p} /\ stage' = stage
    BY <1>4, <1>9
  <2>2. PICK sources : sources = PathSources(d.storage, env, listing, readable)
                                  \cup TableSources(d.storage, d.catalog, env, listing, answer)
    OBVIOUS
  <2>3. p \in Places /\ todo \subseteq Places BY <1>1 DEF Resolution
  <2>4. IsDataset(d) /\ d.storage # None
    <3>1. PICK i \in Listed(source) : \E j \in Inline(source[KindOrder[i]]) : p = <<i, j>>
      BY <2>3 DEF Places, StoragePlaces
    <3>2. PICK j \in Inline(source[KindOrder[i]]) : p = <<i, j>> BY <3>1
    <3>3. IsKind(source[KindOrder[i]]) BY <1>1, ModelsAssumption DEF Listed
    <3>4. d = source[KindOrder[i]].children[j] BY <1>3, <3>2 DEF DatasetAt
    <3>5. d.storage # None BY <1>3, <2>3 DEF Places, StoragePlaces
    <3> QED BY <3>3, <3>4, <3>5 DEF IsKind
  <2>5. /\ \A s \in sources : s.reference \in Patterns(d.storage)
        /\ \A x \in Patterns(d.storage) :
             \/ \E s \in sources : s.reference = x /\ s.target # None
             \/ \E w \in {"SRC_W001", "SRC_W002"} :
                  <<w, d.name, x>> \in ResolutionWarnings(d.name, d.storage, d.catalog, env, listing, answer)
    BY <1>9, <2>2, <2>4, PatternsAnswered
  <2>6. /\ DOMAIN resolved \subseteq DOMAIN resolved' /\ DOMAIN resolved' \subseteq DOMAIN resolved \cup {d.name}
        /\ sources # {} => d.name \in DOMAIN resolved' /\ resolved'[d.name] = sources
        /\ sources = {} => DOMAIN resolved' = DOMAIN resolved
        /\ \A x \in DOMAIN resolved : x # d.name => resolved'[x] = resolved[x]
    BY <2>1, <2>2 DEF Over, Stored
  <2>7. warnings \subseteq warnings'
        /\ ResolutionWarnings(d.name, d.storage, d.catalog, env, listing, answer) \subseteq warnings'
    BY <2>1
  <2>8. \A name \in DOMAIN resolved' : \E q \in Places \ todo' : DatasetAt(source, q).name = name
    <3> TAKE name \in DOMAIN resolved'
    <3>1. CASE name = d.name
      <4>1. p \in Places \ todo' BY <2>1, <2>3
      <4> QED BY <1>3, <3>1, <4>1
    <3>2. CASE name # d.name
      <4>1. PICK q \in Places \ todo : DatasetAt(source, q).name = name BY <1>1, <2>6, <3>2 DEF Resolution
      <4> QED BY <2>1, <4>1
    <3> QED BY <3>1, <3>2
  <2>9. ASSUME NEW q \in Places \ todo', NEW c, c = DatasetAt(source, q), OwnName(c) PROVE Accounted(c)'
    <3>1. CASE q = p
      <4>1. c = d BY <1>3, <2>9, <3>1
      <4>2. d.name \notin DOMAIN resolved
        <5> SUFFICES ASSUME d.name \in DOMAIN resolved PROVE FALSE
          OBVIOUS
        <5>1. PICK r \in Places \ todo : DatasetAt(source, r).name = d.name BY <1>1 DEF Resolution
        <5>2. r = p BY <1>1, <1>3, <2>3, <2>9, <4>1, <5>1, PlacesApart
        <5> QED BY <5>1, <5>2
      <4>3. d.name \in DOMAIN resolved' => resolved'[d.name] = sources BY <2>6, <4>2
      <4>4. sources # {} => d.name \in DOMAIN resolved' BY <2>6
      <4>5. d.name \in DOMAIN resolved' => \A s \in resolved'[d.name] : s.reference \in Patterns(d.storage)
        BY <2>5, <4>3
      <4>6. ASSUME NEW x \in Patterns(d.storage)
            PROVE  \/ d.name \in DOMAIN resolved' /\ \E s \in resolved'[d.name] : s.reference = x /\ s.target # None
                   \/ \E w \in {"SRC_W001", "SRC_W002"} : <<w, d.name, x>> \in warnings'
        BY <2>5, <2>7, <4>3, <4>4
      <4>7. Accounted(d)' BY <4>5, <4>6 DEF Accounted, Warned
      <4> QED BY <4>1, <4>7
    <3>2. CASE q # p
      <4>1. q \in Places \ todo BY <2>1, <3>2
      <4>2. Accounted(c) BY <1>1, <2>9, <4>1 DEF Resolution
      <4>3. c.name # d.name
        BY <1>1, <1>3, <2>3, <2>9, <3>2, <4>1, PlacesApart
      <4>4. c.name \in DOMAIN resolved' <=> c.name \in DOMAIN resolved BY <2>6, <4>3
      <4>5. c.name \in DOMAIN resolved => resolved'[c.name] = resolved[c.name] BY <2>6, <4>3
      <4> QED BY <2>7, <4>2, <4>4, <4>5 DEF Accounted, Warned
    <3> QED BY <3>1, <3>2
  <2>10. todo' \subseteq Places BY <2>1, <2>3
  <2>11. stage' = "sources" BY <1>1, <2>1
  <2> QED BY <1>5, <1>6, <1>7, <2>8, <2>9, <2>10, <2>11 DEF Resolution
<1> QED BY <1>8, <1>9

(* The other steps add no source; they may add a warning.                  *)
LEMMA ResolutionKept ==
  ASSUME PipelineInv, source' = source, todo' = todo, resolved' = resolved, warnings \subseteq warnings',
         stage' \notin {"sources", "failed"} => todo = {}
  PROVE  Resolution'
<1>1. Resolution BY DEF PipelineInv
<1>2. Places' = Places BY DEF Places, StoragePlaces, Listed, DatasetAt, Inline
<1>3. \A x : DatasetAt(source, x)' = DatasetAt(source, x) BY DEF DatasetAt
<1>4. \A x : OwnName(x)' <=> OwnName(x) BY DEF OwnName, Namesakes, Inline, IsBareKind
<1>5. \A x : Accounted(x) => Accounted(x)' BY DEF Accounted, Warned
<1> QED BY <1>1, <1>2, <1>3, <1>4, <1>5 DEF Resolution

LEMMA StepHolds == PipelineInv /\ [Next]_vars => PipelineInv'
<1> SUFFICES ASSUME PipelineInv, [Next]_vars PROVE PipelineInv'
  OBVIOUS
<1> USE DEF Given, Derived, Stages
<1>0. source \in Models /\ stage \in Stages /\ Rewritten /\ Validated /\ Compiled /\ Resolution
  BY DEF PipelineInv
<1>1. CASE ResolveDataset
  <2>1. Resolution' BY <1>1, ResolveStep
  <2>2. stage = "sources" /\ stage' \in {"sources", "failed"} /\ UNCHANGED <<model, source, env, depths, manifest>>
    BY <1>1 DEF ResolveDataset
  <2>3. source' \in Models /\ stage' \in Stages BY <1>0, <2>2
  <2>4. Rewritten' /\ Validated' /\ Compiled' BY <1>0, <2>2 DEF Rewritten, Validated, Compiled
  <2> QED BY <2>1, <2>3, <2>4 DEF PipelineInv
<1>2. CASE SourcesResolved
  <2>1. /\ stage = "sources" /\ stage' = "structure" /\ todo = {}
        /\ UNCHANGED <<model, source, env, todo, resolved, snapshot, warnings, depths, manifest>>
    BY <1>2 DEF SourcesResolved
  <2>2. Resolution' BY <2>1, ResolutionKept
  <2>3. Rewritten' /\ Validated' /\ Compiled' BY <1>0, <2>1 DEF Rewritten, Validated, Compiled
  <2> QED BY <1>0, <2>1, <2>2, <2>3 DEF PipelineInv
<1>3. ASSUME stage \notin {"sources", "failed", "done", "overflow"}, stage' # "sources",
             source' = source, todo' = todo, resolved' = resolved, warnings \subseteq warnings'
      PROVE  Resolution'
  BY <1>0, <1>3, ResolutionKept DEF Resolution
<1>4. CASE ValidateStructure
  <2>1. /\ stage = "structure" /\ UNCHANGED <<model, source, env, todo, resolved, snapshot, warnings, depths, manifest>>
        /\ \/ /\ ~NestingEndless(model)
              /\ stage' = IF StructureErrors(model) = {} THEN "temporal_equivalence" ELSE "failed"
           \/ NestingEndless(model) /\ stage' = "overflow"
    BY <1>4 DEF ValidateStructure, Check
  <2>2. model = source BY <1>0, <2>1 DEF Rewritten
  <2>3. Rewritten' /\ Validated' /\ Compiled' BY <1>0, <2>1, <2>2 DEF Rewritten, Validated, Compiled
  <2>4. Resolution' BY <1>3, <2>1
  <2> QED BY <1>0, <2>1, <2>3, <2>4 DEF PipelineInv
<1>5. CASE ValidateTemporalEquivalence \/ ValidateStorage \/ ValidateMetadataDimensions
  <2>1. /\ stage \in {"temporal_equivalence", "storage", "metadata_dimensions"}
        /\ stage' \in {"storage", "metadata_dimensions", "expand", "failed"}
        /\ UNCHANGED <<model, source, env, todo, resolved, snapshot, warnings, depths, manifest>>
    BY <1>5 DEF ValidateTemporalEquivalence, ValidateStorage, ValidateMetadataDimensions, Check
  <2>2. Rewritten' /\ Validated' /\ Compiled' BY <1>0, <2>1 DEF Rewritten, Validated, Compiled
  <2>3. Resolution' BY <1>3, <2>1
  <2> QED BY <1>0, <2>1, <2>2, <2>3 DEF PipelineInv
<1>6. CASE ExpandAutoMappings
  <2>1. /\ stage = "expand" /\ stage' = "temporal_dimension" /\ model' \in Expansions(model)
        /\ UNCHANGED <<source, env, todo, resolved, snapshot, warnings, depths, manifest>>
    BY <1>6 DEF ExpandAutoMappings
  <2>2. Rewritten' /\ Validated' /\ Compiled' BY <1>0, <2>1 DEF Rewritten, Validated, Compiled
  <2>3. Resolution' BY <1>3, <2>1
  <2> QED BY <1>0, <2>1, <2>2, <2>3 DEF PipelineInv
<1>7. CASE ValidateTemporalDimensionConsistency
  <2>1. /\ stage = "temporal_dimension"
        /\ stage' = IF TemporalDimensionErrors(model) = {} THEN "derive_grains" ELSE "failed"
        /\ UNCHANGED <<model, source, env, todo, resolved, snapshot, warnings, depths, manifest>>
    BY <1>7 DEF ValidateTemporalDimensionConsistency, Check
  <2>2. Rewritten' /\ Validated' /\ Compiled' BY <1>0, <2>1 DEF Rewritten, Validated, Compiled
  <2>3. Resolution' BY <1>3, <2>1
  <2> QED BY <1>0, <2>1, <2>2, <2>3 DEF PipelineInv
<1>8. CASE DeriveDimensionGrains
  <2>1. /\ stage = "derive_grains" /\ stage' = "mappings" /\ model' = WithDerivedGrains(model)
        /\ warnings \subseteq warnings'
        /\ UNCHANGED <<source, env, todo, resolved, snapshot, depths, manifest>>
    BY <1>8 DEF DeriveDimensionGrains
  <2>2. Rewritten' /\ Validated' /\ Compiled' BY <1>0, <2>1 DEF Rewritten, Validated, Compiled
  <2>3. Resolution' BY <1>3, <2>1
  <2> QED BY <1>0, <2>1, <2>2, <2>3 DEF PipelineInv
<1>9. CASE ValidateMappings
  <2>1. /\ stage = "mappings"
        /\ stage' = IF MappingErrors(model) = {} THEN "grain_compatibility" ELSE "failed"
        /\ UNCHANGED <<model, source, env, todo, resolved, snapshot, warnings, depths, manifest>>
    BY <1>9 DEF ValidateMappings, Check
  <2>2. Rewritten' /\ Validated' /\ Compiled' BY <1>0, <2>1 DEF Rewritten, Validated, Compiled
  <2>3. Resolution' BY <1>3, <2>1
  <2> QED BY <1>0, <2>1, <2>2, <2>3 DEF PipelineInv
<1>10. CASE ValidateGrainCompatibility
  <2>1. /\ stage = "grain_compatibility"
        /\ stage' = IF GrainErrors(model) = {} THEN "metric_graph" ELSE "failed"
        /\ UNCHANGED <<model, source, env, todo, resolved, snapshot, warnings, depths, manifest>>
    BY <1>10 DEF ValidateGrainCompatibility, Check
  <2>2. Rewritten' /\ Validated' /\ Compiled' BY <1>0, <2>1 DEF Rewritten, Validated, Compiled
  <2>3. Resolution' BY <1>3, <2>1
  <2> QED BY <1>0, <2>1, <2>2, <2>3 DEF PipelineInv
<1>11. CASE BuildMetricGraph
  <2>1. /\ stage = "metric_graph" /\ stage' \in {"emit", "failed"}
        /\ UNCHANGED <<model, source, env, todo, resolved, snapshot, warnings, manifest>>
    BY <1>11 DEF BuildMetricGraph
  <2>2. Rewritten' /\ Validated' /\ Compiled' BY <1>0, <2>1 DEF Rewritten, Validated, Compiled
  <2>3. Resolution' BY <1>3, <2>1
  <2> QED BY <1>0, <2>1, <2>2, <2>3 DEF PipelineInv
<1>12. CASE Emit
  <2>1. /\ stage = "emit" /\ stage' \in {"done", "failed"}
        /\ UNCHANGED <<model, source, env, todo, resolved, snapshot, warnings, depths>>
        /\ stage' = "done" => \E es \in CompiledEntities(model, depths, resolved) :
                 manifest' = [kinds |-> es, fields |-> FieldIndex(es), graph |-> SemanticGraph(es)]
    BY <1>12 DEF Emit
  <2>2. Rewritten' /\ Validated' BY <1>0, <2>1 DEF Rewritten, Validated
  <2>3. Compiled' BY <2>1 DEF Compiled
  <2>4. Resolution' BY <1>3, <2>1
  <2> QED BY <1>0, <2>1, <2>2, <2>3, <2>4 DEF PipelineInv
<1>13. CASE UNCHANGED vars
  <2>1. UNCHANGED <<stage, model, source, env, todo, resolved, snapshot, warnings, depths, manifest>>
    BY <1>13 DEF vars
  <2>2. Rewritten' /\ Validated' /\ Compiled' BY <1>0, <2>1 DEF Rewritten, Validated, Compiled
  <2>3. Resolution' BY <1>0, <2>1, ResolutionKept DEF Resolution
  <2> QED BY <1>0, <2>1, <2>2, <2>3 DEF PipelineInv
<1> QED BY <1>1, <1>2, <1>4, <1>5, <1>6, <1>7, <1>8, <1>9, <1>10, <1>11, <1>12, <1>13 DEF Next

(* The invariant of the pipeline, for every model and every answer of the  *)
(* providers.                                                              *)
THEOREM PipelineInvariant == Spec => []PipelineInv
<1> QED BY InitHolds, StepHolds, PTL DEF Spec

-----------------------------------------------------------------------------
(* The manifest.                                                           *)

(* What a finished compilation has made of a kind.                         *)
LEMMA CompiledFacts ==
  ASSUME PipelineInv, stage = "done"
  PROVE  /\ source \in Models /\ DOMAIN manifest.kinds = DOMAIN source
         /\ manifest.fields = FieldIndex(manifest.kinds)
         /\ manifest.graph = SemanticGraph(manifest.kinds)
         /\ \A n \in DOMAIN source : LET e == manifest.kinds[n] IN
              /\ e.dims = model[n].dims /\ e.keys = model[n].keys
              /\ DOMAIN e.measures = DOMAIN model[n].measures
              /\ e.temporal = TemporalDim(model[n])
              /\ e.bindings \in KindBindings(n, model[n], resolved)
              /\ e.variant # "simple" => e.coverage = Coverage(model[n], e.bindings)
         /\ \E x \in Expansions(source) : model = WithDerivedGrains(x) /\ TemporalDimensionErrors(x) = {}
         /\ MappingErrors(model) = {} /\ GrainErrors(model) = {} /\ Resolution /\ todo = {}
<1>1. /\ source \in Models
      /\ \E x \in Expansions(source) : model = WithDerivedGrains(x) /\ TemporalDimensionErrors(x) = {}
      /\ MappingErrors(model) = {} /\ GrainErrors(model) = {} /\ Resolution /\ todo = {}
  BY DEF PipelineInv, Rewritten, Derived, Given, Validated, Resolution
<1>2. PICK es \in CompiledEntities(model, depths, resolved) :
        manifest = [kinds |-> es, fields |-> FieldIndex(es), graph |-> SemanticGraph(es)]
  BY DEF PipelineInv, Compiled
<1>3. PICK x \in Expansions(source) : model = WithDerivedGrains(x)
  BY <1>1
<1>4. DOMAIN model = DOMAIN source BY <1>1, <1>3, ModelKept
<1>5. /\ manifest.kinds = es /\ manifest.fields = FieldIndex(es) /\ manifest.graph = SemanticGraph(es)
      /\ DOMAIN es = DOMAIN source
      /\ \A n \in DOMAIN source : es[n] \in CompiledKinds(n, model[n], depths, resolved)
  BY <1>2, <1>4 DEF CompiledEntities
<1>6. ASSUME NEW n \in DOMAIN source, NEW e, e = es[n]
      PROVE  /\ e.dims = model[n].dims /\ e.keys = model[n].keys
             /\ DOMAIN e.measures = DOMAIN model[n].measures
             /\ e.temporal = TemporalDim(model[n])
             /\ e.bindings \in KindBindings(n, model[n], resolved)
             /\ e.variant # "simple" => e.coverage = Coverage(model[n], e.bindings)
  <2>1. e \in CompiledKinds(n, model[n], depths, resolved) BY <1>5, <1>6
  <2>2. PICK bs \in KindBindings(n, model[n], resolved) :
          /\ e.dims = model[n].dims /\ e.keys = model[n].keys /\ e.bindings = bs
          /\ e.temporal = TemporalDim(model[n]) /\ e.measures = CompiledMeasures(model[n])
          /\ e.variant # "simple" => e.coverage = Coverage(model[n], bs)
    BY <2>1 DEF CompiledKinds
  <2>3. DOMAIN e.measures = DOMAIN model[n].measures BY <2>2 DEF CompiledMeasures
  <2> QED BY <2>2, <2>3
<1> QED BY <1>1, <1>5, <1>6

(* The binding of a dataset has the dataset's name, its own mapping after  *)
(* the rewriting, resolved, and the sources of its name.                   *)
LEMMA BoundFacts ==
  ASSUME PipelineInv, stage = "done", NEW n \in DOMAIN source, NEW i \in Inline(source[n])
  PROVE  LET k == source[n]
             d == k.children[i]
             b == manifest.kinds[n].bindings[i]
         IN  /\ IsKind(k) /\ IsDataset(d) /\ b.name = d.name
             /\ b.sources = SourcesOf(d.name, d.storage, resolved)
             /\ DOMAIN manifest.kinds[n].bindings = Inline(k)
             /\ model[n].children[i] \in ExpandedDatasets(k, d)
             /\ b.mapping \in ResolvedMappings(model[n].children[i].mapping.entries)
<1> DEFINE k == source[n]
           d == k.children[i]
           e == manifest.kinds[n]
           c == model[n].children[i]
<1>1. PICK x \in Expansions(source) : model = WithDerivedGrains(x)
  BY CompiledFacts
<1>2. /\ IsKind(k) /\ x[n] \in ExpandedKinds(k) /\ model[n].children = x[n].children
      /\ model[n].variant = k.variant /\ Inline(model[n]) = Inline(k)
  BY <1>1, CompiledFacts, ModelKept
<1>3. IsDataset(d) BY <1>2 DEF IsKind
<1>4. c \in ExpandedDatasets(k, d) BY <1>2, KindKept
<1>5. c.name = d.name /\ c.storage = d.storage BY <1>3, <1>4, DatasetKept
<1>6. e.bindings \in KindBindings(n, model[n], resolved) BY CompiledFacts
<1>7. ~IsBareKind(model[n]) BY <1>2 DEF IsBareKind
<1>8. DOMAIN e.bindings = Inline(k) /\ e.bindings[i] \in BindingsOf(c, resolved)
  BY <1>2, <1>6, <1>7 DEF KindBindings
<1>9. /\ e.bindings[i].name = c.name /\ e.bindings[i].sources = SourcesOf(c.name, c.storage, resolved)
      /\ e.bindings[i].mapping \in ResolvedMappings(c.mapping.entries)
  BY <1>8 DEF BindingsOf
<1> QED BY <1>2, <1>3, <1>4, <1>5, <1>8, <1>9

(* Whatever the providers answered, a dataset with a name of its own is    *)
(* bound to its own sources, all of them, and no pattern that was left     *)
(* unexpanded goes without a warning.                                      *)
THEOREM SourcesBoundAreOwn == Spec => []SourcesAreOwn
<1>1. PipelineInv => SourcesAreOwn
  <2> SUFFICES ASSUME PipelineInv, Done, NEW n \in DOMAIN source, NEW i \in Inline(source[n]),
                      NEW d, d = source[n].children[i], NEW ss, ss = manifest.kinds[n].bindings[i].sources,
                      OwnName(d)
               PROVE  /\ d.storage = None => ss = {}
                      /\ d.storage # None =>
                           /\ \A s \in ss : s.reference \in Patterns(d.storage)
                           /\ \A p \in Patterns(d.storage) :
                                \/ \E s \in ss : s.reference = p /\ s.target # None
                                \/ \E w \in {"SRC_W001", "SRC_W002"} : <<w, d.name, p>> \in warnings
    BY DEF SourcesAreOwn, Bound
  <2>1. ss = SourcesOf(d.name, d.storage, resolved) /\ IsKind(source[n])
    BY BoundFacts DEF Done
  <2>2. source \in Models /\ Resolution /\ todo = {} BY CompiledFacts DEF Done
  <2>3. PICK j \in DOMAIN KindOrder : KindOrder[j] = n
    <3>1. n \in Range(KindOrder) BY <2>2, ModelsAssumption
    <3> QED BY <3>1 DEF Range
  <2>4. j \in Listed(source) /\ DatasetAt(source, <<j, i>>) = d BY <2>3 DEF Listed, DatasetAt
  <2>5. d.storage # None => <<j, i>> \in Places
    <3>1. <<j, i>> \in {<<j, l>> : l \in Inline(source[KindOrder[j]])} BY <2>3
    <3>2. <<j, i>> \in UNION {{<<x, l>> : l \in Inline(source[KindOrder[x]])} : x \in Listed(source)}
      BY <2>4, <3>1
    <3> QED BY <2>4, <3>2 DEF Places, StoragePlaces
  <2>6. CASE d.storage = None
    <3>1. d.name \notin DOMAIN resolved
      <4> SUFFICES ASSUME d.name \in DOMAIN resolved PROVE FALSE
        OBVIOUS
      <4>1. PICK p \in Places : DatasetAt(source, p).name = d.name BY <2>2 DEF Resolution
      <4>2. PICK x \in Listed(source) : \E l \in Inline(source[KindOrder[x]]) : p = <<x, l>>
        BY DEF Places, StoragePlaces
      <4>3. PICK l \in Inline(source[KindOrder[x]]) : p = <<x, l>> BY <4>2
      <4> DEFINE here(y) == {<<y, l1>> : l1 \in {k \in Inline(source[y]) : source[y].children[k].name = d.name}}
      <4>4. KindOrder[x] \in DOMAIN source /\ <<KindOrder[x], l>> \in here(KindOrder[x])
        BY <4>1, <4>3 DEF Listed, DatasetAt
      <4>5. <<n, i>> \in here(n) OBVIOUS
      <4>6. <<KindOrder[x], l>> \in Namesakes(d.name) /\ <<n, i>> \in Namesakes(d.name)
        <5>1. \A y \in DOMAIN source : here(y) \subseteq UNION {here(z) : z \in DOMAIN source} OBVIOUS
        <5>2. UNION {here(z) : z \in DOMAIN source} \subseteq Namesakes(d.name) BY DEF Namesakes
        <5> HIDE DEF here
        <5> QED BY <4>4, <4>5, <5>1, <5>2
      <4>7. <<KindOrder[x], l>> = <<n, i>> BY <4>6 DEF OwnName
      <4>8. DatasetAt(source, p) = d BY <4>3, <4>7 DEF DatasetAt
      <4>9. DatasetAt(source, p).storage # None BY DEF Places, StoragePlaces
      <4> QED BY <2>6, <4>8, <4>9
    <3> QED BY <2>1, <2>6, <3>1 DEF SourcesOf
  <2>7. CASE d.storage # None
    <3>1. Accounted(d) BY <2>2, <2>4, <2>5, <2>7 DEF Resolution
    <3>2. CASE d.name \in DOMAIN resolved
      <4>1. ss = resolved[d.name] BY <2>1, <3>2 DEF SourcesOf
      <4> QED BY <2>7, <3>1, <3>2, <4>1 DEF Accounted, Warned
    <3>3. CASE d.name \notin DOMAIN resolved
      <4>1. ss = FallbackSources(d.storage) BY <2>1, <2>7, <3>3 DEF SourcesOf
      <4>2. \A s \in ss : s.reference \in Patterns(d.storage)
        BY <4>1 DEF FallbackSources, ResolvedSource, Patterns
      <4> QED BY <2>7, <3>1, <3>3, <4>2 DEF Accounted, Warned
    <3> QED BY <3>2, <3>3
  <2> QED BY <2>6, <2>7
<1> QED BY <1>1, PipelineInvariant, PTL

(* A resolved mapping has every name of its entries, and one column for a  *)
(* name that no anchor uses.                                               *)
LEMMA ResolvedFacts ==
  ASSUME NEW f, Typed(f), NEW r \in ResolvedMappings(f), NEW x \in DOMAIN f
  PROVE  /\ ContainsKey(r, x)
         /\ IsColumn(f[x]) /\ x \notin SubNames(f) => r.physical[x] = f[x].column
         /\ f[x].t = "graded" => x \in DOMAIN r.temporal /\ r.temporal[x] = f[x].grain
<1>1. PICK p \in Physicals(f) :
        /\ r.physical = p /\ r.literals = LiteralNames(f) /\ r.anchored = AnchoredNames(f)
        /\ r.temporal = [n \in GradedNames(f) |-> f[n].grain]
  BY DEF ResolvedMappings
<1>2. DOMAIN p = PhysicalNames(f) /\ \A n \in PhysicalNames(f) : p[n] \in PhysicalCandidates(f, n)
  BY DEF Physicals
<1>3. f[x].t \in {"column", "graded", "literal", "anchored"} BY DEF Typed
<1>4. ContainsKey(r, x)
  BY <1>1, <1>2, <1>3 DEF ContainsKey, PhysicalNames, LiteralNames, AnchoredNames, IsColumn
<1>5. ASSUME IsColumn(f[x]), x \notin SubNames(f) PROVE r.physical[x] = f[x].column
  <2>1. x \in PhysicalNames(f) BY <1>5 DEF PhysicalNames
  <2>2. \A b \in AnchoredNames(f) : x \notin DOMAIN f[b].anchors BY <1>5 DEF SubNames
  <2>3. PhysicalCandidates(f, x) = {f[x].column} BY <1>5, <2>2 DEF PhysicalCandidates
  <2> QED BY <1>1, <1>2, <2>1, <2>3
<1>6. ASSUME f[x].t = "graded" PROVE x \in DOMAIN r.temporal /\ r.temporal[x] = f[x].grain
  BY <1>1, <1>6 DEF GradedNames
<1> QED BY <1>4, <1>5, <1>6

(* Only a graded value gives a name its grain.                             *)
LEMMA GradedOnly ==
  ASSUME NEW f, NEW r \in ResolvedMappings(f), NEW x \in DOMAIN r.temporal
  PROVE  x \in DOMAIN f /\ f[x].t = "graded" /\ r.temporal[x] = f[x].grain
<1>1. r.temporal = [n \in GradedNames(f) |-> f[n].grain] BY DEF ResolvedMappings
<1> QED BY <1>1 DEF GradedNames

(* In every manifest each dimension and measure that needs a column has a  *)
(* binding that covers it.                                                 *)
THEOREM FieldsBound == Spec => []EveryFieldBound
<1>1. PipelineInv => EveryFieldBound
  <2> SUFFICES ASSUME PipelineInv, Done, NEW n \in DOMAIN source, NEW x \in MappableNames(source[n])
               PROVE  \E i \in DOMAIN manifest.kinds[n].bindings :
                        /\ ContainsKey(manifest.kinds[n].bindings[i].mapping, x)
                        /\ manifest.kinds[n].variant # "simple" =>
                             i \in DOMAIN manifest.kinds[n].coverage /\ x \in manifest.kinds[n].coverage[i]
    BY DEF EveryFieldBound
  <2> DEFINE k == source[n]
             e == manifest.kinds[n]
             c(i) == model[n].children[i].mapping.entries
  <2>1. PICK z \in Expansions(source) : model = WithDerivedGrains(z)
    BY CompiledFacts DEF Done
  <2>2. /\ source \in Models /\ (e.variant # "simple" => e.coverage = Coverage(model[n], e.bindings))
        /\ e.bindings \in KindBindings(n, model[n], resolved) /\ MappingErrors(model) = {}
    BY CompiledFacts DEF Done
  <2>3. /\ IsKind(k) /\ DOMAIN model = DOMAIN source /\ Inline(model[n]) = Inline(k)
        /\ model[n].variant = k.variant /\ MappableNames(model[n]) = MappableNames(k)
        /\ DOMAIN model[n].dims = DOMAIN k.dims /\ model[n].measures = k.measures
    BY <2>1, <2>2, ModelKept
  <2>4. ASSUME NEW i \in DOMAIN e.bindings, ContainsKey(e.bindings[i].mapping, x)
        PROVE  e.variant # "simple" => i \in DOMAIN e.coverage /\ x \in e.coverage[i]
    BY <2>2, <2>3, <2>4 DEF Coverage
  <2>5. ASSUME NEW i \in Inline(k), x \in DOMAIN c(i)
        PROVE  i \in DOMAIN e.bindings /\ ContainsKey(e.bindings[i].mapping, x)
    <3>1. /\ DOMAIN e.bindings = Inline(k) /\ model[n].children[i] \in ExpandedDatasets(k, k.children[i])
          /\ e.bindings[i].mapping \in ResolvedMappings(c(i))
      BY BoundFacts DEF Done
    <3>2. Typed(c(i)) BY <2>3, <3>1, EntriesFacts
    <3> HIDE DEF c, e
    <3> QED BY <2>5, <3>1, <3>2, ResolvedFacts
  <2>6. CASE IsBareKind(model[n])
    <3>1. e.bindings = <<BareBinding(n, model[n], resolved)>> BY <2>2, <2>6 DEF KindBindings
    <3>2. DOMAIN e.bindings = {1} /\ e.bindings[1] = BareBinding(n, model[n], resolved) BY <3>1
    <3>3. x \in DOMAIN k.dims \cup DOMAIN k.measures BY DEF MappableNames
    <3>4. ContainsKey(e.bindings[1].mapping, x)
      BY <2>3, <3>2, <3>3 DEF BareBinding, ContainsKey
    <3> QED BY <2>4, <3>2, <3>4
  <2>7. CASE ~IsBareKind(model[n]) /\ k.variant = "simple"
    <3>1. PICK i \in Inline(k) : TRUE BY <2>3, <2>7 DEF IsBareKind
    <3>2. model[n].children[i] \in ExpandedDatasets(k, k.children[i]) BY BoundFacts DEF Done
    <3>3. x \in DOMAIN c(i) BY <2>3, <2>7, <3>2, EntriesFacts
    <3> QED BY <2>4, <2>5, <3>3
  <2>8. CASE k.variant # "simple"
    <3>1. n \in Complex(model) BY <2>3, <2>8 DEF Complex
    <3>2. x \in MappedNames(model[n]) BY <2>2, <2>3, <3>1 DEF MappingErrors
    <3>3. PICK i \in Inline(k) : x \in DOMAIN c(i) BY <2>3, <3>2 DEF MappedNames, Datasets
    <3> QED BY <2>4, <2>5, <3>3
  <2> QED BY <2>6, <2>7, <2>8
<1> QED BY <1>1, PipelineInvariant, PTL

(* What the author wrote for a field is what the manifest has, through     *)
(* the expansion, the anchors and the propagation of grains.               *)
THEOREM WrittenMappingWins == Spec => []AuthorsMappingWins
<1>1. PipelineInv => AuthorsMappingWins
  <2> SUFFICES ASSUME PipelineInv, Done, NEW n \in DOMAIN source, NEW i \in Inline(source[n]),
                      NEW d, d = source[n].children[i], NEW w, w = Written(source[n], d),
                      NEW x \in DOMAIN w \ SubNames(w), IsColumn(w[x]),
                      NEW r, r = manifest.kinds[n].bindings[i].mapping
               PROVE  /\ r.physical[x] = w[x].column
                      /\ w[x].grain # None => r.temporal[x] = w[x].grain
    BY SMTT(30) DEF AuthorsMappingWins, Bound
  <2> DEFINE k == source[n]
             f == model[n].children[i].mapping.entries
  <2>1. IsKind(k) /\ model[n].children[i] \in ExpandedDatasets(k, d) /\ r \in ResolvedMappings(f)
    BY BoundFacts DEF Done
  <2>2. /\ Typed(f) /\ x \in DOMAIN f \ SubNames(f) /\ IsColumn(f[x]) /\ f[x].column = w[x].column
        /\ w[x].grain # None => f[x] = w[x]
    BY <2>1, EntriesFacts
  <2> HIDE DEF f
  <2>3. r.physical[x] = f[x].column BY <2>1, <2>2, ResolvedFacts
  <2>4. ASSUME w[x].grain # None PROVE r.temporal[x] = w[x].grain
    <3>1. f[x].t = "graded" BY <2>2, <2>4 DEF Typed, IsColumn
    <3> QED BY <2>1, <2>2, <2>4, <3>1, ResolvedFacts
  <2> QED BY <2>2, <2>3, <2>4
<1> QED BY <1>1, PipelineInvariant, PTL

-----------------------------------------------------------------------------
(* Sets of naturals have a least element.                                  *)
LEMMA LeastNat ==
  ASSUME NEW T \in SUBSET Nat, T # {}
  PROVE  \E n \in T : \A m \in T : n <= m
<1> DEFINE below == {1..n : n \in T}
<1>1. below \subseteq FiniteSubsetsOf(Nat)
  <2>1. ASSUME NEW n \in T PROVE 1..n \in SUBSET Nat /\ IsFiniteSet(1..n)
    BY FS_Interval
  <2> QED BY <2>1 DEF FiniteSubsetsOf
<1>2. below # {}
  OBVIOUS
<1>3. IsWellFoundedOn(StrictSubsetOrdering(Nat), FiniteSubsetsOf(Nat))
  BY FS_StrictSubsetOrderingWellFounded
<1>4. PICK x \in below : \A y \in below : ~(<<y, x>> \in StrictSubsetOrdering(Nat))
  <2> HIDE DEF below
  <2> QED BY <1>1, <1>2, <1>3, WFMin
<1>5. PICK n \in T : x = 1..n
  OBVIOUS
<1>6. ASSUME NEW m \in T PROVE n <= m
  <2>1. SUFFICES ASSUME m < n PROVE FALSE
    OBVIOUS
  <2>2. 1..m \in below /\ 1..m \in SUBSET Nat /\ 1..n \in SUBSET Nat
    OBVIOUS
  <2>3. 1..m \subseteq 1..n BY <2>1
  <2>4. n \in 1..n /\ n \notin 1..m BY <2>1
  <2>5. 1..m # 1..n BY <2>4
  <2>6. <<1..m, 1..n>> \in StrictSubsetOrdering(Nat)
    BY <2>2, <2>3, <2>5 DEF StrictSubsetOrdering
  <2> QED BY <1>4, <1>5, <2>2, <2>6
<1> QED BY <1>6

LEMMA MinFacts ==
  ASSUME NEW S \in SUBSET Nat, S # {}
  PROVE  Min(S) \in S /\ \A m \in S : Min(S) <= m
<1>1. \E n \in S : \A m \in S : n <= m BY LeastNat
<1> QED BY <1>1 DEF Min

(* The grains of the datasets of a temporal dimension are grains.          *)
LEMMA DatasetGrainsAreGrains ==
  ASSUME source \in Models, NEW n \in DOMAIN source, NEW z \in ExpandedKinds(source[n]),
         source[n].variant # "simple", NEW x
  PROVE  DatasetGrains(z, x) \subseteq Grains
<1> SUFFICES ASSUME NEW g \in DatasetGrains(z, x) PROVE g \in Grains
  OBVIOUS
<1> DEFINE k == source[n]
<1>1. IsKind(k) BY ModelsAssumption
<1>2. PICK i \in Inline(z) : z.children[i].temporal # None /\ g = z.children[i].temporal.grain /\ g # None
  BY DEF DatasetGrains, Datasets
<1>3. i \in Inline(k) /\ z.children[i] \in ExpandedDatasets(k, k.children[i]) BY <1>1, <1>2, KindKept
<1>4. IsDataset(k.children[i]) BY <1>1, <1>3 DEF IsKind
<1>5. z.children[i].temporal = Default(k.children[i].temporal, k.temporal) BY <1>3, <1>4, DatasetKept
<1>6. IsTemporal(z.children[i].temporal) BY <1>1, <1>4, <1>5 DEF IsKind, IsDataset, Default
<1> QED BY <1>2, <1>6 DEF IsTemporal

(* The temporal dimensions named in a kind are finitely many.              *)
LEMMA NamedFinite ==
  ASSUME NEW k, IsFiniteSet(DOMAIN k.children)
  PROVE  IsFiniteSet(NamedTemporalDims(k))
<1> DEFINE f == [i \in Inline(k) |-> k.children[i].temporal.dimension]
           T == {f[i] : i \in Inline(k)}
<1>3. IsFiniteSet(Inline(k)) BY FS_Subset DEF Inline
<1>4. f \in Surjection(Inline(k), T) BY DEF Surjection
<1>5. IsFiniteSet(T)
  <2> HIDE DEF f, T
  <2> QED BY <1>3, <1>4, FS_Surjection
<1>6. NamedTemporalDims(k) \subseteq T BY DEF NamedTemporalDims, Datasets
<1> QED BY <1>5, <1>6, FS_Subset

LEMMA AtMostOne ==
  ASSUME NEW S, IsFiniteSet(S), ~(Cardinality(S) > 1), NEW a \in S, NEW b \in S
  PROVE  a = b
<1>1. Cardinality(S) \in Nat BY FS_CardinalityType
<1>2. Cardinality(S) # 0 BY FS_EmptySet
<1>3. Cardinality(S) = 1 BY <1>1, <1>2
<1> QED BY <1>3, FS_Singleton

(* Grains agree from the datasets to the dimensions of the manifest.       *)
THEOREM ManifestGrainsAgree == Spec => []GrainsAgree
<1>1. PipelineInv => GrainsAgree
  <2> SUFFICES ASSUME PipelineInv, Done, NEW n \in Complex(source), NEW e, e = manifest.kinds[n]
               PROVE  /\ \A i \in DOMAIN e.bindings : \A x \in DOMAIN e.bindings[i].mapping.temporal :
                           LET g == e.bindings[i].mapping.temporal[x]
                           IN  (g # None /\ x \in DOMAIN e.dims /\ e.dims[x].type = "temporal")
                                 => g \in e.dims[x].grains
                      /\ \A x \in DOMAIN e.dims : source[n].dims[x].grains # e.dims[x].grains =>
                           /\ source[n].dims[x].grains = {}
                           /\ \A g \in e.dims[x].grains : \A h \in Grains : h > g => h \in e.dims[x].grains
                           /\ DatasetGrains(model[n], x) \subseteq e.dims[x].grains
                           /\ Min(e.dims[x].grains) \in DatasetGrains(model[n], x)
                      /\ NamedTemporalDims(model[n]) \subseteq {e.temporal}
    BY SMTT(30) DEF GrainsAgree
  <2> DEFINE k == source[n]
  <2>0. n \in DOMAIN source /\ k.variant # "simple" BY DEF Complex
  <2>1. PICK z \in Expansions(source) : model = WithDerivedGrains(z) /\ TemporalDimensionErrors(z) = {}
    BY CompiledFacts DEF Done
  <2>2. /\ source \in Models /\ e.bindings \in KindBindings(n, model[n], resolved) /\ GrainErrors(model) = {}
        /\ e.dims = model[n].dims /\ e.temporal = TemporalDim(model[n])
    BY <2>0, CompiledFacts DEF Done
  <2>3. /\ IsKind(k) /\ DOMAIN model = DOMAIN source /\ DOMAIN z = DOMAIN source
        /\ Inline(model[n]) = Inline(k) /\ z[n] \in ExpandedKinds(k)
        /\ model[n].variant = k.variant /\ model[n].children = z[n].children
        /\ DOMAIN model[n].dims = DOMAIN k.dims
        /\ \A d \in DOMAIN k.dims :
                   /\ model[n].dims[d].type = k.dims[d].type
                   /\ model[n].dims[d].grains = IF k.variant # "simple" /\ Derivable(z[n], d)
                                              THEN DerivedGrains(z[n], d) ELSE k.dims[d].grains
    BY <2>0, <2>1, <2>2, ModelKept
  <2>4. n \in Complex(model) /\ n \in Complex(z)
    BY <2>0, <2>3, KindKept DEF Complex
  <2>5. ASSUME NEW i \in DOMAIN e.bindings, NEW x \in DOMAIN e.bindings[i].mapping.temporal,
               NEW g, g = e.bindings[i].mapping.temporal[x],
               g # None, x \in DOMAIN e.dims, e.dims[x].type = "temporal"
        PROVE  g \in e.dims[x].grains
    <3>1. i \in Inline(k) BY <2>0, <2>2, <2>3, <2>5 DEF KindBindings, IsBareKind
    <3> DEFINE c == model[n].children[i]
    <3>2. e.bindings[i].mapping \in ResolvedMappings(c.mapping.entries)
      BY <2>0, <3>1, BoundFacts DEF Done
    <3>5. /\ x \in DOMAIN c.mapping.entries /\ c.mapping.entries[x].t = "graded"
          /\ g = c.mapping.entries[x].grain
      <4> HIDE DEF c
      <4> QED BY <2>5, <3>2, GradedOnly
    <3>6. c \in Datasets(model[n]) BY <2>3, <3>1 DEF Datasets
    <3>7. n \notin GrainErrors(model) BY <2>2
    <3> QED BY <2>2, <2>4, <2>5, <3>5, <3>6, <3>7 DEF GrainErrors
  <2>6. \A x : DatasetGrains(model[n], x) = DatasetGrains(z[n], x)
        /\ NamedTemporalDims(model[n]) = NamedTemporalDims(z[n])
    BY <2>3 DEF DatasetGrains, NamedTemporalDims, Datasets, Inline
  <2>7. ASSUME NEW x \in DOMAIN e.dims, k.dims[x].grains # e.dims[x].grains
        PROVE  /\ k.dims[x].grains = {}
               /\ \A g \in e.dims[x].grains : \A h \in Grains : h > g => h \in e.dims[x].grains
               /\ DatasetGrains(model[n], x) \subseteq e.dims[x].grains
               /\ Min(e.dims[x].grains) \in DatasetGrains(model[n], x)
    <3> DEFINE G == DatasetGrains(z[n], x)
               D == e.dims[x].grains
    <3>1. x \in DOMAIN k.dims /\ Derivable(z[n], x) /\ D = DerivedGrains(z[n], x) BY <2>2, <2>3, <2>7
    <3>2. k.dims[x].grains = {} /\ G # {} BY <2>3, <3>1, KindKept DEF Derivable
    <3>3. G \subseteq Grains /\ Grains \in SUBSET Nat
      BY <2>0, <2>2, <2>3, DatasetGrainsAreGrains, ModelsAssumption
    <3>4. D = {g \in Grains : g >= Min(G)} BY <3>1 DEF DerivedGrains
    <3> HIDE DEF G, D
    <3>5. Min(G) \in G /\ \A g \in G : Min(G) <= g BY <3>2, <3>3, MinFacts
    <3> DEFINE least == Min(G)
    <3>0. least \in Nat /\ least \in Grains BY <3>3, <3>5
    <3> HIDE DEF least
    <3>6. ASSUME NEW g \in D, NEW h \in Grains, h > g PROVE h \in D
      <4>1. g \in Nat /\ h \in Nat /\ g >= least BY <3>3, <3>4 DEF least
      <4>2. h >= least BY <3>0, <3>6, <4>1
      <4> QED BY <3>4, <4>2 DEF least
    <3>7. G \subseteq D BY <3>3, <3>4, <3>5
    <3>8. D \in SUBSET Nat /\ D # {} BY <3>2, <3>3, <3>4, <3>7
    <3>9. Min(D) \in D /\ \A g \in D : Min(D) <= g BY <3>8, MinFacts
    <3>10. Min(D) = least
      <4>1. Min(D) \in Nat /\ Min(D) >= least BY <3>3, <3>4, <3>8, <3>9 DEF least
      <4>2. least \in D BY <3>5, <3>7 DEF least
      <4> QED BY <3>0, <3>9, <4>1, <4>2
    <3> QED BY <2>6, <3>2, <3>5, <3>6, <3>7, <3>10 DEF G, D, least
  <2>8. NamedTemporalDims(model[n]) \subseteq {e.temporal}
    <3> SUFFICES ASSUME NEW t \in NamedTemporalDims(model[n]) PROVE t = e.temporal
      OBVIOUS
    <3> DEFINE m == model[n]
               naming == {i \in Inline(m) : m.children[i].temporal # None
                                            /\ m.children[i].temporal.dimension # None}
    <3>1. PICK i \in naming : t = m.children[i].temporal.dimension
      BY DEF NamedTemporalDims, Datasets
    <3>2. DOMAIN m.children = DOMAIN k.children BY <2>3, KindKept
    <3>3. k.children \in Seq(Range(k.children)) BY <2>3 DEF IsKind
    <3>4. DOMAIN k.children \subseteq Nat BY <3>3
    <3>5. naming \in SUBSET Nat /\ naming # {} BY <3>1, <3>2, <3>4 DEF Inline
    <3>6. Min(naming) \in naming
      <4> HIDE DEF naming
      <4> QED BY <3>5, MinFacts
    <3>7. e.temporal = m.children[Min(naming)].temporal.dimension
      BY <2>0, <2>2, <2>3, <3>5 DEF TemporalDim
    <3>8. e.temporal \in NamedTemporalDims(m) BY <3>6, <3>7 DEF NamedTemporalDims, Datasets
    <3>9. ~(Cardinality(NamedTemporalDims(m)) > 1) BY <2>1, <2>4, <2>6 DEF TemporalDimensionErrors
    <3>10. IsFiniteSet(NamedTemporalDims(m))
      <4>1. IsFiniteSet(DOMAIN z[n].children)
        <5>1. DOMAIN m.children = 1..Len(k.children) /\ Len(k.children) \in Nat BY <3>2, <3>3
        <5> QED BY <2>3, <5>1, FS_Interval
      <4> QED BY <2>6, <4>1, NamedFinite
    <3> QED BY <3>8, <3>9, <3>10, AtMostOne
  <2> QED BY <2>5, <2>7, <2>8
<1> QED BY <1>1, PipelineInvariant, PTL

LEMMA BareNamesake ==
  ASSUME NEW c \in DOMAIN source, IsBareKind(source[c])
  PROVE  <<c, 0>> \in Namesakes(c)
<1> DEFINE bare == {<<y, 0>> : y \in {v \in DOMAIN source : v = c /\ IsBareKind(source[v])}}
           inline == UNION {{<<y, i>> : i \in {j \in Inline(source[y]) : source[y].children[j].name = c}} :
                              y \in DOMAIN source}
<1>1. <<c, 0>> \in bare OBVIOUS
<1>2. Namesakes(c) = inline \cup bare BY DEF Namesakes
<1> HIDE DEF bare, inline
<1> QED BY <1>1, <1>2

(* The kind of a binding's name, for a name that is one dataset's own.     *)
LEMMA OwnBindingName ==
  ASSUME PipelineInv, stage = "done", NEW n \in DOMAIN source, NEW i \in Inline(source[n]),
         NEW name, name = source[n].children[i].name, OwnName(source[n].children[i]),
         NEW x \in DOMAIN source
  PROVE  name \in BindingNames(manifest.kinds[x]) <=> x = n
<1> DEFINE here(y) == {<<y, l>> : l \in {k \in Inline(source[y]) : source[y].children[k].name = name}}
<1>1. here(n) \subseteq Namesakes(name) /\ here(x) \subseteq Namesakes(name)
  <2>1. UNION {here(z) : z \in DOMAIN source} \subseteq Namesakes(name) BY DEF Namesakes
  <2>2. \A y \in DOMAIN source : here(y) \subseteq UNION {here(z) : z \in DOMAIN source} OBVIOUS
  <2> HIDE DEF here
  <2> QED BY <2>1, <2>2
<1>2. <<n, i>> \in Namesakes(name) BY <1>1
<1>3. \A p \in Namesakes(name) : p = <<n, i>> BY <1>2 DEF OwnName
<1>4. ASSUME x = n PROVE name \in BindingNames(manifest.kinds[x])
  <2>1. manifest.kinds[n].bindings[i].name = name /\ i \in DOMAIN manifest.kinds[n].bindings
    BY BoundFacts
  <2> QED BY <1>4, <2>1 DEF BindingNames
<1>5. ASSUME name \in BindingNames(manifest.kinds[x]) PROVE x = n
  <2> DEFINE e == manifest.kinds[x]
  <2>1. PICK l \in DOMAIN e.bindings : e.bindings[l].name = name BY <1>5 DEF BindingNames
  <2>2. PICK z \in Expansions(source) : model = WithDerivedGrains(z)
    BY CompiledFacts
  <2>3. source \in Models /\ e.bindings \in KindBindings(x, model[x], resolved) BY CompiledFacts
  <2>4. Inline(model[x]) = Inline(source[x]) /\ model[x].variant = source[x].variant
    BY <2>2, <2>3, ModelKept
  <2>5. CASE IsBareKind(source[x])
    <3>1. IsBareKind(model[x]) BY <2>4, <2>5 DEF IsBareKind
    <3>2. e.bindings = <<BareBinding(x, model[x], resolved)>> BY <2>3, <3>1 DEF KindBindings
    <3>3. e.bindings[l] = BareBinding(x, model[x], resolved) BY <2>1, <3>2
    <3>4. x = name BY <2>1, <3>3 DEF BareBinding
    <3>5. <<x, 0>> \in Namesakes(name)
      <4> QED BY <2>5, <3>4, BareNamesake
    <3> QED BY <1>3, <3>5
  <2>6. CASE ~IsBareKind(source[x])
    <3>1. ~IsBareKind(model[x]) BY <2>4, <2>6 DEF IsBareKind
    <3>2. l \in Inline(source[x]) BY <2>1, <2>3, <2>4, <3>1 DEF KindBindings
    <3>3. source[x].children[l].name = name BY <2>1, <3>2, BoundFacts
    <3>4. <<x, l>> \in here(x) BY <3>2, <3>3
    <3> QED BY <1>1, <1>3, <3>4
  <2> QED BY <2>5, <2>6
<1> QED BY <1>4, <1>5

(* The indices of the manifest agree with the kinds they index.            *)
THEOREM IndicesAgree == Spec => []IndexAgrees
<1>1. PipelineInv => IndexAgrees
  <2> SUFFICES ASSUME PipelineInv, Done PROVE IndexAgrees
    BY DEF IndexAgrees
  <2> DEFINE es == manifest.kinds
  <2>1. PICK z \in Expansions(source) : model = WithDerivedGrains(z)
    BY CompiledFacts DEF Done
  <2>2. /\ source \in Models /\ DOMAIN es = DOMAIN source
        /\ manifest.fields = FieldIndex(es) /\ manifest.graph = SemanticGraph(es)
    BY CompiledFacts DEF Done
  <2>3. ASSUME NEW n \in DOMAIN source
        PROVE  /\ DOMAIN es[n].dims = DOMAIN source[n].dims
               /\ DOMAIN es[n].measures = DOMAIN source[n].measures
               /\ es[n].keys = source[n].keys
               /\ \E j \in Listed(es) : KindOrder[j] = n
    <3>1. es[n].dims = model[n].dims /\ es[n].keys = model[n].keys
          /\ DOMAIN es[n].measures = DOMAIN model[n].measures
      BY CompiledFacts DEF Done
    <3>2. /\ DOMAIN model[n].dims = DOMAIN source[n].dims /\ model[n].measures = source[n].measures
          /\ model[n].keys = source[n].keys
      BY <2>1, <2>2, ModelKept
    <3>3. n \in Range(KindOrder) BY <2>2, ModelsAssumption
    <3>4. PICK j \in DOMAIN KindOrder : KindOrder[j] = n BY <3>3 DEF Range
    <3>5. j \in Listed(es) BY <2>2, <3>4 DEF Listed
    <3> QED BY <3>1, <3>2, <3>4, <3>5
  <2>4. \A j \in Listed(es) : KindOrder[j] \in DOMAIN source BY <2>2 DEF Listed
  <2> HIDE DEF es
  <2> DEFINE fields(j) == DOMAIN es[KindOrder[j]].dims \cup DOMAIN es[KindOrder[j]].measures \cup KeyFields(es, j)
             all == UNION {fields(j) : j \in Listed(es)}
             of(f) == {KindOrder[j] : j \in {l \in Listed(es) : f \in fields(l)}}
  <2>5. manifest.fields = [f \in all |-> of(f)] BY <2>2 DEF FieldIndex
  <2>6. ASSUME NEW n \in DOMAIN source, NEW f \in DOMAIN source[n].dims \cup DOMAIN source[n].measures
        PROVE  f \in DOMAIN manifest.fields /\ n \in manifest.fields[f]
    <3>1. PICK j \in Listed(es) : KindOrder[j] = n BY <2>3
    <3>2. f \in fields(j) BY <2>3, <2>6, <3>1
    <3>3. f \in all /\ n \in of(f) BY <3>1, <3>2
    <3> HIDE DEF all, of
    <3> QED BY <2>5, <3>3
  <2>7. ASSUME NEW f \in DOMAIN manifest.fields, NEW n \in manifest.fields[f]
        PROVE  f \in DOMAIN source[n].dims \cup DOMAIN source[n].measures \cup source[n].keys
    <3>1. n \in of(f)
      <4> HIDE DEF all, of
      <4> QED BY <2>5, <2>7
    <3>2. PICK j \in Listed(es) : f \in fields(j) /\ KindOrder[j] = n BY <3>1
    <3>3. KeyFields(es, j) \subseteq es[n].keys BY <3>2 DEF KeyFields
    <3>4. n \in DOMAIN source BY <2>4, <3>2
    <3> QED BY <2>3, <3>2, <3>3, <3>4
  <2>8. ASSUME NEW n \in DOMAIN source, NEW i \in Inline(source[n]), NEW d, d = source[n].children[i], OwnName(d)
        PROVE  /\ manifest.graph.kindOf[d.name] = n
               /\ manifest.graph.provides[d.name]
                    = DOMAIN source[n].dims \cup DOMAIN source[n].measures \cup source[n].keys
    <3> DEFINE names == UNION {BindingNames(es[x]) : x \in DOMAIN es}
               at(name) == {j \in Listed(es) : name \in BindingNames(es[KindOrder[j]])}
               having(name) == {x \in DOMAIN es : name \in BindingNames(es[x])}
               provided(x) == DOMAIN es[x].dims \cup DOMAIN es[x].measures \cup es[x].keys
    <3>1. \A x \in DOMAIN source : d.name \in BindingNames(es[x]) <=> x = n
      BY <2>8, OwnBindingName DEF Done, es
    <3>2. /\ manifest.graph.kindOf = [name \in names |-> KindOrder[Min(at(name))]]
          /\ manifest.graph.provides = [name \in names |-> UNION {provided(x) : x \in having(name)}]
      BY <2>2 DEF SemanticGraph
    <3>3. d.name \in names BY <2>2, <3>1
    <3>4. PICK j \in Listed(es) : KindOrder[j] = n BY <2>3
    <3>5. at(d.name) = {j}
      <4>1. \A l \in Listed(es) : KindOrder[l] = n => l = j
        BY <3>4, ModelsAssumption DEF Listed, IsInjective
      <4> QED BY <2>4, <3>1, <3>4, <4>1
    <3>6. Min(at(d.name)) = j
      <4>1. j \in Nat BY ModelsAssumption DEF Listed
      <4>2. {j} \in SUBSET Nat /\ {j} # {} BY <4>1
      <4>3. Min({j}) \in {j} BY <4>2, MinFacts
      <4> HIDE DEF at
      <4> QED BY <3>5, <4>3
    <3>7. having(d.name) = {n} BY <2>2, <3>1
    <3>8. UNION {provided(x) : x \in having(d.name)} = provided(n)
      <4> HIDE DEF having, provided
      <4> QED BY <3>7
    <3>9. provided(n) = DOMAIN source[n].dims \cup DOMAIN source[n].measures \cup source[n].keys
      BY <2>3
    <3> HIDE DEF names, at, having, provided
    <3> QED BY <3>2, <3>3, <3>4, <3>6, <3>8, <3>9
  <2> HIDE DEF fields, all, of
  <2>9. \A n \in DOMAIN source : \A b \in Bound(n) : OwnName(b[1]) =>
         /\ manifest.graph.kindOf[b[1].name] = n
         /\ manifest.graph.provides[b[1].name]
              = DOMAIN source[n].dims \cup DOMAIN source[n].measures \cup source[n].keys
    <3> TAKE n \in DOMAIN source
    <3> TAKE b \in Bound(n)
    <3>1. PICK i \in Inline(source[n]) : b = <<source[n].children[i], manifest.kinds[n].bindings[i]>> BY DEF Bound
    <3>2. b[1] = source[n].children[i] BY <3>1
    <3> QED BY <2>8, <3>2
  <2> QED BY <2>6, <2>7, <2>9 DEF IndexAgrees
<1> QED BY <1>1, PipelineInvariant, PTL

-----------------------------------------------------------------------------
(* Induction up to a number, and the greatest of finitely many numbers.    *)
LEMMA UpTo ==
  ASSUME NEW N \in Nat, NEW T, 0 \in T, \A n \in 0 .. N - 1 : n \in T => n + 1 \in T
  PROVE  0 .. N \subseteq T
<1> SUFFICES ASSUME 0 .. N \ T # {} PROVE FALSE
  OBVIOUS
<1>1. PICK n \in 0 .. N \ T : \A m \in 0 .. N \ T : n <= m
  <2>1. 0 .. N \ T \in SUBSET Nat OBVIOUS
  <2> QED BY <2>1, LeastNat
<1>2. n # 0 /\ n - 1 \in 0 .. N - 1 /\ n - 1 \in 0 .. N BY <1>1
<1>3. n - 1 \in T BY <1>1, <1>2
<1> QED BY <1>1, <1>2, <1>3

LEMMA MaxFacts ==
  ASSUME NEW S \in SUBSET Nat, S # {}, IsFiniteSet(S)
  PROVE  Max(S) \in S /\ \A m \in S : m <= Max(S)
<1> DEFINE above(s) == {x \in S : x > s}
           T == {Cardinality(above(s)) : s \in S}
<1>1. \A s \in S : IsFiniteSet(above(s)) /\ Cardinality(above(s)) \in Nat
  <2> TAKE s \in S
  <2>1. IsFiniteSet(above(s)) BY FS_Subset
  <2> QED BY <2>1, FS_CardinalityType
<1>2. T \in SUBSET Nat /\ T # {} BY <1>1
<1>3. PICK c \in T : \A d \in T : c <= d
  <2> HIDE DEF T
  <2> QED BY <1>2, LeastNat
<1>4. PICK s \in S : c = Cardinality(above(s)) BY <1>3
<1>5. ASSUME NEW m \in S PROVE m <= s
  <2> SUFFICES ASSUME m > s PROVE FALSE
    OBVIOUS
  <2>0. m \in Nat /\ s \in Nat /\ \A x \in S : x \in Nat OBVIOUS
  <2>1. above(m) \in SUBSET above(s)
    <3> SUFFICES ASSUME NEW x \in S, x > m PROVE x > s
      OBVIOUS
    <3> QED BY <2>0
  <2>2. m \in above(s) /\ m \notin above(m) OBVIOUS
  <2>3. c <= Cardinality(above(m)) /\ Cardinality(above(m)) \in Nat /\ c \in Nat BY <1>1, <1>2, <1>3
  <2> HIDE DEF above
  <2>4. Cardinality(above(m)) <= c BY <1>1, <1>4, <2>1, FS_Subset
  <2>5. Cardinality(above(m)) = Cardinality(above(s)) BY <1>4, <2>3, <2>4
  <2> QED BY <1>1, <2>1, <2>2, <2>5, FS_Subset
<1>6. \E x \in S : \A m \in S : x >= m BY <1>5
<1> QED BY <1>6 DEF Max

(* What NestingDepths computes, reference by reference.                    *)
Behind(m, row, r) == IF r.ref \in DOMAIN m THEN 1 + row[r.ref] ELSE 1

Depths(m, f, N) ==
  f = [i \in 0 .. N |->
        [k \in DOMAIN m |->
           IF i = 0 \/ Refs(m[k]) = {} THEN 0
           ELSE Max({IF r.ref \in DOMAIN m THEN 1 + f[i - 1][r.ref] ELSE 1 : r \in Refs(m[k])})]]

LEMMA DepthsExist ==
  ASSUME NEW m, NEW N \in Nat
  PROVE  \E f : Depths(m, f, N)
<1> DEFINE row(g, i) == [k \in DOMAIN m |->
                           IF i = 0 \/ Refs(m[k]) = {} THEN 0
                           ELSE Max({IF r.ref \in DOMAIN m THEN 1 + g[r.ref] ELSE 1 : r \in Refs(m[k])})]
           T == {n \in Nat : \E f : Depths(m, f, n)}
<1>0. \A f, n : Depths(m, f, n) <=> f = [i \in 0 .. n |-> row(f[i - 1], i)] BY DEF Depths
<1> HIDE DEF row
<1>1. 0 \in T
  <2>1. row(<<>>, 0) = row([i \in 0 .. 0 |-> row(<<>>, 0)][0 - 1], 0) BY DEF row
  <2>2. Depths(m, [i \in 0 .. 0 |-> row(<<>>, 0)], 0)
    <3> DEFINE f == [i \in 0 .. 0 |-> row(<<>>, 0)]
    <3>1. \A i \in 0 .. 0 : i = 0 OBVIOUS
    <3>2. f = [i \in 0 .. 0 |-> row(f[i - 1], i)] BY <2>1, <3>1
    <3> QED BY <1>0, <3>2
  <2> QED BY <2>2
<1>2. ASSUME NEW n \in 0 .. N - 1, n \in T PROVE n + 1 \in T
  <2>1. PICK f : Depths(m, f, n) BY <1>2
  <2>2. \A i \in 0 .. n : f[i] = row(f[i - 1], i) BY <1>0, <2>1
  <2> DEFINE g == [i \in 0 .. n + 1 |-> IF i = n + 1 THEN row(f[n], n + 1) ELSE f[i]]
  <2>3. \A i \in 0 .. n : g[i] = f[i] OBVIOUS
  <2>4. ASSUME NEW i \in 0 .. n + 1 PROVE g[i] = row(g[i - 1], i)
    <3>1. CASE i = n + 1
      <4>1. g[i] = row(f[n], n + 1) /\ g[i - 1] = f[n] BY <3>1
      <4> HIDE DEF g
      <4> QED BY <3>1, <4>1
    <3>2. CASE i = 0
      <4>1. g[i] = f[0] BY <3>2
      <4>2. f[0] = row(f[0 - 1], 0) BY <2>2
      <4>3. row(f[0 - 1], 0) = row(g[i - 1], 0) BY DEF row
      <4> HIDE DEF g
      <4> QED BY <3>2, <4>1, <4>2, <4>3
    <3>3. CASE i \in 1 .. n
      <4>1. i \in 0 .. n /\ i - 1 \in 0 .. n BY <3>3
      <4>2. g[i] = f[i] /\ g[i - 1] = f[i - 1] BY <2>3, <4>1
      <4>3. f[i] = row(f[i - 1], i) BY <2>2, <4>1
      <4> HIDE DEF g
      <4> QED BY <4>2, <4>3
    <3> QED BY <2>4, <3>1, <3>2, <3>3
  <2>5. Depths(m, g, n + 1)
    <3>1. g = [i \in 0 .. n + 1 |-> g[i]] OBVIOUS
    <3> HIDE DEF g
    <3>2. g = [i \in 0 .. n + 1 |-> row(g[i - 1], i)] BY <2>4, <3>1
    <3> QED BY <1>0, <3>2
  <2> QED BY <2>5
<1>3. 0 .. N \subseteq T
  <2> HIDE DEF T
  <2> QED BY <1>1, <1>2, UpTo
<1> QED BY <1>3

(* A kind's nesting depth is one more than that of some kind it refers to, *)
(* and at least one more than that of every one.                           *)
Nested(m, D, N) ==
  /\ \A k \in DOMAIN m : D[0][k] = 0
  /\ \A i \in 0 .. N, k \in DOMAIN m : D[i][k] \in Nat
  /\ \A i \in 0 .. N - 1, k \in DOMAIN m :
       /\ \A r \in Refs(m[k]) : Behind(m, D[i], r) <= D[i + 1][k]
       /\ D[i + 1][k] # 0 => \E r \in Refs(m[k]) : D[i + 1][k] = Behind(m, D[i], r)

LEMMA RefsFinite ==
  ASSUME NEW k, IsKind(k)
  PROVE  IsFiniteSet(Refs(k))
<1> DEFINE I == DOMAIN k.children \ Inline(k)
           f == [i \in I |-> k.children[i]]
<1>1. DOMAIN k.children = 1 .. Len(k.children) /\ Len(k.children) \in Nat BY DEF IsKind
<1>2. IsFiniteSet(I)
  <2>1. IsFiniteSet(DOMAIN k.children) BY <1>1, FS_Interval
  <2> QED BY <2>1, FS_Subset
<1>3. f \in Surjection(I, Refs(k)) BY DEF Surjection, Refs
<1> HIDE DEF I, f
<1> QED BY <1>2, <1>3, FS_Surjection

LEMMA DepthsNested ==
  ASSUME NEW m \in Models, NEW N, N = Cardinality(DOMAIN m) + 1, N \in Nat
  PROVE  \E D : D[N] = NestingDepths(m) /\ Nested(m, D, N)
<1>1. NestingDepths(m) = (CHOOSE f : Depths(m, f, N))[N] BY DEF NestingDepths, Depths
<1>2. PICK D : Depths(m, D, N) /\ D[N] = NestingDepths(m) BY <1>1, DepthsExist
<1> DEFINE values(i, k) == {Behind(m, D[i - 1], r) : r \in Refs(m[k])}
<1>3. ASSUME NEW i \in 0 .. N, NEW k \in DOMAIN m
      PROVE  D[i][k] = IF i = 0 \/ Refs(m[k]) = {} THEN 0 ELSE Max(values(i, k))
  <2> DEFINE behind(j, k1) == {IF r.ref \in DOMAIN m THEN 1 + D[j - 1][r.ref] ELSE 1 : r \in Refs(m[k1])}
  <2>1. behind(i, k) = values(i, k) BY DEF Behind
  <2>2. D = [j \in 0 .. N |-> [k1 \in DOMAIN m |->
              IF j = 0 \/ Refs(m[k1]) = {} THEN 0 ELSE Max(behind(j, k1))]]
    BY <1>2 DEF Depths
  <2> HIDE DEF behind, values
  <2>3. D[i] = [k1 \in DOMAIN m |-> IF i = 0 \/ Refs(m[k1]) = {} THEN 0 ELSE Max(behind(i, k1))]
    BY <2>2
  <2>4. D[i][k] = IF i = 0 \/ Refs(m[k]) = {} THEN 0 ELSE Max(behind(i, k)) BY <2>3
  <2> QED BY <2>1, <2>4
<1>4. \A k \in DOMAIN m : D[0][k] = 0
  <2>1. 0 \in 0 .. N OBVIOUS
  <2> HIDE DEF values
  <2> QED BY <1>3, <2>1
<1>5. ASSUME NEW i \in 1 .. N, NEW k \in DOMAIN m, Refs(m[k]) # {},
             \A x \in DOMAIN m : D[i - 1][x] \in Nat
      PROVE  /\ D[i][k] \in Nat /\ \E r \in Refs(m[k]) : D[i][k] = Behind(m, D[i - 1], r)
             /\ \A r \in Refs(m[k]) : Behind(m, D[i - 1], r) <= D[i][k]
  <2> DEFINE R == Refs(m[k])
             f == [r \in R |-> Behind(m, D[i - 1], r)]
             V == {Behind(m, D[i - 1], r) : r \in R}
  <2>1. IsFiniteSet(R) BY RefsFinite, ModelsAssumption
  <2>2. f \in Surjection(R, V) BY DEF Surjection
  <2>3. V \in SUBSET Nat /\ V # {} BY <1>5 DEF Behind
  <2>4. D[i][k] = Max(V) BY <1>3, <1>5
  <2>5. IsFiniteSet(V)
    <3> HIDE DEF R, f, V
    <3> QED BY <2>1, <2>2, FS_Surjection
  <2>6. Max(V) \in V /\ \A v \in V : v <= Max(V)
    <3> HIDE DEF V
    <3> QED BY <2>3, <2>5, MaxFacts
  <2> QED BY <2>3, <2>4, <2>6
<1> DEFINE T == {i \in 0 .. N : \A k \in DOMAIN m : D[i][k] \in Nat}
<1>6. 0 \in T BY <1>4
<1>7. ASSUME NEW i \in 0 .. N - 1, i \in T PROVE i + 1 \in T
  <2>1. i + 1 \in 0 .. N /\ i + 1 \in 1 .. N /\ (i + 1) - 1 = i OBVIOUS
  <2>2. ASSUME NEW k \in DOMAIN m PROVE D[i + 1][k] \in Nat
    <3>1. CASE Refs(m[k]) = {}
      <4> HIDE DEF values
      <4> QED BY <1>3, <2>1, <3>1
    <3>2. CASE Refs(m[k]) # {} BY <1>5, <1>7, <2>1, <3>2
    <3> QED BY <3>1, <3>2
  <2> QED BY <2>1, <2>2
<1>8. 0 .. N \subseteq T
  <2> HIDE DEF T
  <2> QED BY <1>6, <1>7, UpTo
<1>9. ASSUME NEW i \in 0 .. N - 1, NEW k \in DOMAIN m
      PROVE  /\ \A r \in Refs(m[k]) : Behind(m, D[i], r) <= D[i + 1][k]
             /\ D[i + 1][k] # 0 => \E r \in Refs(m[k]) : D[i + 1][k] = Behind(m, D[i], r)
  <2>1. i + 1 \in 0 .. N /\ i + 1 \in 1 .. N /\ (i + 1) - 1 = i /\ i \in 0 .. N OBVIOUS
  <2>2. CASE Refs(m[k]) = {}
    <3> HIDE DEF values
    <3> QED BY <1>3, <2>1, <2>2
  <2>3. CASE Refs(m[k]) # {} BY <1>5, <1>8, <2>1, <2>3
  <2> QED BY <2>2, <2>3
<1>10. \A i \in 0 .. N, k \in DOMAIN m : D[i][k] \in Nat BY <1>8
<1> QED BY <1>2, <1>4, <1>9, <1>10 DEF Nested

(* A model has finitely many kinds.                                        *)
LEMMA KindsFinite ==
  ASSUME NEW m \in Models
  PROVE  IsFiniteSet(DOMAIN m) /\ Cardinality(DOMAIN m) \in Nat
<1>1. DOMAIN KindOrder = 1 .. Len(KindOrder) /\ Len(KindOrder) \in Nat BY ModelsAssumption
<1>2. IsFiniteSet(DOMAIN KindOrder) BY <1>1, FS_Interval
<1> DEFINE f == [i \in DOMAIN KindOrder |-> KindOrder[i]]
<1>3. f \in Surjection(DOMAIN KindOrder, Range(KindOrder)) BY DEF Surjection, Range
<1>4. IsFiniteSet(Range(KindOrder))
  <2> HIDE DEF f
  <2> QED BY <1>2, <1>3, FS_Surjection
<1>5. IsFiniteSet(DOMAIN m) BY <1>4, ModelsAssumption, FS_Subset
<1> QED BY <1>5, FS_CardinalityType

(* Three references in a row are counted, where references do not go round.*)
LEMMA ThreeCounted ==
  ASSUME NEW m \in Models, NEW N, N = Cardinality(DOMAIN m) + 1, N \in Nat, NEW D, Nested(m, D, N),
         NEW n \in DOMAIN m, ~(D[N][n] > Cardinality(DOMAIN m)),
         NEW r1 \in Refs(m[n]), r1.ref \in DOMAIN m,
         NEW r2 \in Refs(m[r1.ref]), r2.ref \in DOMAIN m,
         NEW r3 \in Refs(m[r2.ref])
  PROVE  D[N][n] > MaxNesting
<1> DEFINE C == Cardinality(DOMAIN m)
           a == r1.ref
           b == r2.ref
<1>1. C \in Nat /\ N = C + 1 BY KindsFinite
<1>2. C # 0 BY KindsFinite, FS_EmptySet
<1>3. \A i \in 0 .. N, k \in DOMAIN m : D[i][k] \in Nat BY DEF Nested
<1>4. \A i \in 0 .. N - 1, k \in DOMAIN m : \A r \in Refs(m[k]) :
        (IF r.ref \in DOMAIN m THEN 1 + D[i][r.ref] ELSE 1) <= D[i + 1][k]
  BY DEF Nested, Behind
<1> HIDE DEF C
<1>5. \A i \in 0 .. N - 1 : 1 + D[i][a] <= D[i + 1][n] BY <1>4
<1>6. \A i \in 0 .. N - 1 : 1 + D[i][b] <= D[i + 1][a] BY <1>4
<1>7. \A i \in 0 .. N - 1 : 1 <= D[i + 1][b] BY <1>3, <1>4
<1> HIDE DEF a, b
<1>8. ASSUME NEW i \in 0 .. N PROVE D[i][n] \in Nat /\ D[i][a] \in Nat /\ D[i][b] \in Nat
  BY <1>3, <1>8 DEF a, b
<1>9. N - 1 \in 0 .. N - 1 /\ (N - 1) + 1 = N /\ N - 2 \in 0 .. N - 1 /\ (N - 2) + 1 = N - 1 BY <1>1, <1>2
<1>10. 1 + D[N - 1][a] <= D[N][n] BY <1>5, <1>9
<1>11. 1 + D[N - 2][b] <= D[N - 1][a] BY <1>6, <1>9
<1>12. D[N][n] \in Nat /\ D[N - 1][a] \in Nat /\ D[N - 2][b] \in Nat BY <1>8, <1>9
<1>13. D[N][n] >= 2 BY <1>10, <1>11, <1>12
<1>14. C # 1 BY <1>12, <1>13 DEF C
<1>15. N - 3 \in 0 .. N - 1 /\ (N - 3) + 1 = N - 2 BY <1>1, <1>2, <1>14
<1>16. 1 <= D[N - 2][b] BY <1>7, <1>15
<1> QED BY <1>10, <1>11, <1>12, <1>16 DEF MaxNesting

(* More references in a row than there are kinds go round: the kinds with  *)
(* i references before them get fewer with i, and two of these sets are    *)
(* the same.                                                               *)
LEMMA EndlessGoesRound ==
  ASSUME NEW m \in Models, NEW N, N = Cardinality(DOMAIN m) + 1, N \in Nat, NEW D, Nested(m, D, N),
         NEW top \in DOMAIN m, D[N][top] > Cardinality(DOMAIN m)
  PROVE  \E ns \in (SUBSET DOMAIN m) \ {{}} : \A n \in ns : \E r \in Refs(m[n]) : r.ref \in ns
<1> DEFINE C == Cardinality(DOMAIN m)
           Deep(j) == {x \in DOMAIN m : D[j][x] >= j}
<1>1. C \in Nat /\ N = C + 1 /\ IsFiniteSet(DOMAIN m) BY KindsFinite
<1>2. \A i \in 0 .. N, k \in DOMAIN m : D[i][k] \in Nat BY DEF Nested
<1> HIDE DEF C
<1>3. ASSUME NEW j \in 1 .. C, NEW x \in Deep(j + 1)
      PROVE  \E r \in Refs(m[x]) : r.ref \in Deep(j)
  <2>1. j \in 0 .. N - 1 /\ j \in 0 .. N /\ j + 1 \in 0 .. N /\ j \in Nat /\ j >= 1 BY <1>1
  <2>2. x \in DOMAIN m /\ D[j + 1][x] >= j + 1 /\ D[j + 1][x] \in Nat BY <1>2, <2>1
  <2>3. PICK r \in Refs(m[x]) : D[j + 1][x] = Behind(m, D[j], r)
    <3>1. D[j + 1][x] # 0 BY <2>1, <2>2
    <3> QED BY <2>1, <2>2, <3>1 DEF Nested
  <2>4. r.ref \in DOMAIN m /\ D[j + 1][x] = 1 + D[j][r.ref]
    <3>1. Behind(m, D[j], r) # 1 BY <2>1, <2>2, <2>3
    <3> QED BY <2>3, <3>1 DEF Behind
  <2>5. D[j][r.ref] \in Nat BY <1>2, <2>1, <2>4
  <2>6. D[j][r.ref] >= j BY <2>1, <2>2, <2>4, <2>5
  <2> QED BY <2>4, <2>6
<1>4. ASSUME NEW j \in 1 .. C, NEW x \in DOMAIN m, NEW r \in Refs(m[x]), r.ref \in Deep(j - 1)
      PROVE  x \in Deep(j)
  <2>1. j - 1 \in 0 .. N - 1 /\ j - 1 \in 0 .. N /\ (j - 1) + 1 = j /\ j \in 0 .. N BY <1>1
  <2>2. r.ref \in DOMAIN m /\ D[j - 1][r.ref] >= j - 1 BY <1>4
  <2>3. Behind(m, D[j - 1], r) <= D[j][x] BY <2>1 DEF Nested
  <2>4. 1 + D[j - 1][r.ref] <= D[j][x] BY <2>2, <2>3 DEF Behind
  <2>5. D[j - 1][r.ref] \in Nat /\ D[j][x] \in Nat BY <1>2, <2>1, <2>2
  <2>6. D[j][x] >= j BY <2>1, <2>2, <2>4, <2>5
  <2> QED BY <2>6
<1>5. Deep(0) = DOMAIN m BY <1>1, <1>2
<1>6. ASSUME NEW j \in 0 .. N PROVE Deep(j) \subseteq DOMAIN m OBVIOUS
<1>7. top \in Deep(N) BY <1>1, <1>2 DEF C
<1> HIDE DEF Deep
<1> DEFINE Shrinks == {j \in 0 .. C : Deep(j + 1) \subseteq Deep(j)}
<1>8. 0 \in Shrinks
  <2>1. 0 \in 0 .. C /\ 0 + 1 \in 0 .. N BY <1>1
  <2> QED BY <1>5, <1>6, <2>1
<1>9. ASSUME NEW j \in 0 .. C - 1, j \in Shrinks PROVE j + 1 \in Shrinks
  <2>1. j + 1 \in 1 .. C /\ (j + 1) - 1 = j /\ (j + 1) + 1 \in 0 .. N BY <1>1
  <2>2. ASSUME NEW x \in Deep((j + 1) + 1) PROVE x \in Deep(j + 1)
    <3>1. PICK r \in Refs(m[x]) : r.ref \in Deep(j + 1) BY <1>3, <2>1, <2>2
    <3>2. r.ref \in Deep(j) BY <1>9, <3>1
    <3>3. x \in DOMAIN m BY <1>6, <2>1, <2>2
    <3> QED BY <1>4, <2>1, <3>2, <3>3
  <2> QED BY <2>1, <2>2
<1>10. 0 .. C \subseteq Shrinks
  <2> HIDE DEF Shrinks
  <2> QED BY <1>1, <1>8, <1>9, UpTo
<1>11. \A j \in 0 .. N : IsFiniteSet(Deep(j)) /\ Cardinality(Deep(j)) \in Nat
  <2> TAKE j \in 0 .. N
  <2>1. IsFiniteSet(Deep(j)) BY <1>1, <1>6, FS_Subset
  <2> QED BY <2>1, FS_CardinalityType
<1>12. \E j \in 1 .. C : Deep(j) = Deep(j + 1)
  <2> SUFFICES ASSUME \A j \in 1 .. C : Deep(j) # Deep(j + 1) PROVE FALSE
    OBVIOUS
  <2> DEFINE Small == {j \in 0 .. C : Cardinality(Deep(j + 1)) + j <= C}
  <2>1. 0 \in Small
    <3>1. 0 \in 0 .. C /\ 0 + 1 = 1 /\ 1 \in 0 .. N BY <1>1
    <3>2. Cardinality(Deep(1)) <= C BY <1>1, <1>6, <3>1, FS_Subset DEF C
    <3>3. Cardinality(Deep(1)) \in Nat BY <1>11, <3>1
    <3> QED BY <1>1, <3>1, <3>2, <3>3
  <2>2. ASSUME NEW j \in 0 .. C - 1, j \in Small PROVE j + 1 \in Small
    <3>1. /\ j + 1 \in 1 .. C /\ j + 1 \in 0 .. C /\ j + 1 \in 0 .. N /\ (j + 1) + 1 \in 0 .. N
          /\ j \in Nat
      BY <1>1
    <3>2. Deep((j + 1) + 1) \in SUBSET Deep(j + 1) BY <1>10, <3>1
    <3>3. Deep((j + 1) + 1) # Deep(j + 1) BY <3>1
    <3> DEFINE p == Cardinality(Deep(j + 1))
               q == Cardinality(Deep((j + 1) + 1))
    <3>4. p \in Nat /\ q \in Nat BY <1>11, <3>1
    <3>5. q <= p /\ q # p BY <1>11, <3>1, <3>2, <3>3, FS_Subset
    <3>6. p + j <= C BY <2>2
    <3>7. q + (j + 1) <= C
      <4> HIDE DEF p, q
      <4> QED BY <1>1, <3>1, <3>4, <3>5, <3>6
    <3> QED BY <3>1, <3>7
  <2>3. 0 .. C \subseteq Small
    <3> HIDE DEF Small
    <3> QED BY <1>1, <2>1, <2>2, UpTo
  <2>4. C \in Small BY <1>1, <2>3
  <2>5. Cardinality(Deep(N)) + C <= C BY <1>1, <2>4
  <2>6. N \in 0 .. N BY <1>1
  <2>7. Cardinality(Deep(N)) = 0 BY <1>1, <1>11, <2>5, <2>6
  <2>8. Deep(N) = {} BY <1>11, <2>6, <2>7, FS_EmptySet
  <2> QED BY <1>7, <2>8
<1>13. PICK j \in 1 .. C : Deep(j) = Deep(j + 1) BY <1>12
<1>14. \A n \in Deep(j) : \E r \in Refs(m[n]) : r.ref \in Deep(j) BY <1>3, <1>13
<1>15. top \in Deep(j)
  <2> DEFINE In == {i \in 0 .. C - j : top \in Deep(N - i)}
  <2>1. 0 \in In BY <1>1, <1>7
  <2>2. ASSUME NEW i \in 0 .. (C - j) - 1, i \in In PROVE i + 1 \in In
    <3>1. N - (i + 1) \in 0 .. C /\ (N - (i + 1)) + 1 = N - i /\ i + 1 \in 0 .. C - j BY <1>1
    <3>2. Deep(N - i) \subseteq Deep(N - (i + 1)) BY <1>10, <3>1
    <3> QED BY <2>2, <3>1, <3>2
  <2>3. C - j \in Nat BY <1>1
  <2>4. 0 .. C - j \subseteq In
    <3> HIDE DEF In
    <3> QED BY <2>1, <2>2, <2>3, UpTo
  <2>5. C - j \in In BY <2>3, <2>4
  <2>6. N - (C - j) = j + 1 BY <1>1
  <2> QED BY <1>13, <2>5, <2>6
<1>16. Deep(j) \subseteq DOMAIN m
  <2>1. j \in 0 .. N BY <1>1
  <2> QED BY <1>6, <2>1
<1> QED BY <1>14, <1>15, <1>16

(* After the structure is validated references lead on at most twice, and  *)
(* a validator that does not come back has met references that go round.   *)
THEOREM NestingIsBounded == Spec => []NestingBounded
<1>1. PipelineInv => NestingBounded
  <2> SUFFICES ASSUME PipelineInv PROVE NestingBounded
    OBVIOUS
  <2>1. source \in Models /\ Validated BY DEF PipelineInv
  <2> DEFINE N == Cardinality(DOMAIN source) + 1
  <2>2. N \in Nat BY <2>1, KindsFinite
  <2>3. PICK D : D[N] = NestingDepths(source) /\ Nested(source, D, N) BY <2>1, <2>2, DepthsNested
  <2>4. ASSUME stage \notin {"sources", "structure", "failed", "overflow"}, NEW n \in Complex(source)
        PROVE  Leads3(n) = {}
    <3> SUFFICES ASSUME Leads3(n) # {} PROVE FALSE
      OBVIOUS
    <3>1. StructureErrors(source) = {} /\ ~NestingEndless(source) BY <2>1, <2>4 DEF Validated
    <3>2. n \in DOMAIN source BY DEF Complex
    <3>3. ~(D[N][n] > Cardinality(DOMAIN source)) BY <2>3, <3>1 DEF NestingEndless
    <3>4. PICK b \in Leads2(n) \cap DOMAIN source : Leads(b) # {} BY DEF Leads3
    <3>5. PICK a \in Leads(n) \cap DOMAIN source : b \in Leads(a) BY DEF Leads2
    <3>6. PICK r1 \in Refs(source[n]) : r1.ref = a BY DEF Leads
    <3>7. PICK r2 \in Refs(source[a]) : r2.ref = b BY <3>5 DEF Leads
    <3>8. PICK r3 \in Refs(source[b]) : TRUE BY <3>4 DEF Leads
    <3>9. D[N][n] > MaxNesting
      BY <2>1, <2>2, <2>3, <3>2, <3>3, <3>4, <3>5, <3>6, <3>7, <3>8, ThreeCounted
    <3>10. <<"nesting depth", n>> \in StructureErrors(source) BY <2>3, <2>4, <3>9 DEF StructureErrors
    <3> QED BY <3>1, <3>10
  <2>5. ASSUME stage = "overflow"
        PROVE  \E ns \in (SUBSET DOMAIN source) \ {{}} : \A n \in ns : Leads(n) \cap ns # {}
    <3>1. PICK k \in Complex(source) : D[N][k] > Cardinality(DOMAIN source)
      BY <2>1, <2>3, <2>5 DEF Validated, NestingEndless
    <3>2. k \in DOMAIN source BY DEF Complex
    <3>3. PICK ns \in (SUBSET DOMAIN source) \ {{}} : \A n \in ns : \E r \in Refs(source[n]) : r.ref \in ns
      BY <2>1, <2>2, <2>3, <3>1, <3>2, EndlessGoesRound
    <3> QED BY <3>3 DEF Leads
  <2> QED BY <2>4, <2>5 DEF NestingBounded
<1> QED BY <1>1, PipelineInvariant, PTL

-----------------------------------------------------------------------------
(* The metrics of a kind: the order they are evaluated in and the          *)
(* additivity they are compiled to.                                        *)

(* The iterates of a function on a set.                                    *)
Iterates(f, a, g, n) == f[0] = a /\ \A i \in 1 .. n : f[i] = g[f[i - 1]]

LEMMA IterateExists ==
  ASSUME NEW S, NEW a \in S, NEW g \in [S -> S], NEW N \in Nat
  PROVE  \E f \in [0 .. N -> S] : Iterates(f, a, g, N)
<1> DEFINE T == {n \in Nat : \E f \in [0 .. n -> S] : Iterates(f, a, g, n)}
<1>1. 0 \in T
  <2> DEFINE f == [i \in 0 .. 0 |-> a]
  <2>1. f \in [0 .. 0 -> S] /\ Iterates(f, a, g, 0) BY DEF Iterates
  <2> QED BY <2>1
<1>2. ASSUME NEW n \in 0 .. N - 1, n \in T PROVE n + 1 \in T
  <2>1. PICK f \in [0 .. n -> S] : Iterates(f, a, g, n) BY <1>2
  <2> DEFINE h == [i \in 0 .. n + 1 |-> IF i = n + 1 THEN g[f[n]] ELSE f[i]]
  <2>2. h \in [0 .. n + 1 -> S]
    <3>1. g[f[n]] \in S OBVIOUS
    <3>2. \A i \in 0 .. n + 1 : i = n + 1 \/ i \in 0 .. n OBVIOUS
    <3> QED BY <3>1, <3>2
  <2>3. h[0] = a BY <2>1 DEF Iterates
  <2>4. ASSUME NEW i \in 1 .. n + 1 PROVE h[i] = g[h[i - 1]]
    <3>1. CASE i = n + 1
      <4>1. h[i] = g[f[n]] /\ h[i - 1] = f[n] BY <3>1
      <4> HIDE DEF h
      <4> QED BY <4>1
    <3>2. CASE i \in 1 .. n
      <4>1. h[i] = f[i] /\ h[i - 1] = f[i - 1] BY <3>2
      <4>2. f[i] = g[f[i - 1]] BY <2>1, <3>2 DEF Iterates
      <4> HIDE DEF h
      <4> QED BY <4>1, <4>2
    <3> QED BY <3>1, <3>2
  <2>5. n + 1 \in Nat OBVIOUS
  <2>6. Iterates(h, a, g, n + 1)
    <3> HIDE DEF h
    <3> QED BY <2>3, <2>4 DEF Iterates
  <2> HIDE DEF h
  <2> QED BY <2>2, <2>5, <2>6
<1>3. 0 .. N \subseteq T
  <2> HIDE DEF T
  <2> QED BY <1>1, <1>2, UpTo
<1> QED BY <1>3

(* What is reached from s by the steps of g out of X, N steps deep: f is   *)
(* the way there, and the last of it is the least set that has s and what  *)
(* its members in X lead to.                                               *)
Opens(f, s, X, g, N) ==
  f[0] = s /\ \A i \in 1 .. N : f[i] = f[i - 1] \union UNION {g[y] : y \in f[i - 1] \intersect X}

LEMMA OpensExists ==
  ASSUME NEW s, NEW X, NEW g, NEW N \in Nat
  PROVE  \E f : f = [i \in 0 .. N |-> f[i]] /\ Opens(f, s, X, g, N)
<1> DEFINE U == s \union UNION {g[y] : y \in X}
           S == SUBSET U
           step(t) == t \union UNION {g[y] : y \in t \intersect X}
           h == [t \in S |-> step(t)]
<1>1. h \in [S -> S] /\ s \in S OBVIOUS
<1>2. PICK f \in [0 .. N -> S] : Iterates(f, s, h, N)
  <2> HIDE DEF S, h
  <2> QED BY <1>1, IterateExists
<1>3. ASSUME NEW i \in 1 .. N PROVE h[f[i - 1]] = step(f[i - 1])
  <2>1. i - 1 \in 0 .. N OBVIOUS
  <2>2. f[i - 1] \in S
    <3> HIDE DEF S
    <3> QED BY <2>1
  <2> HIDE DEF S, step
  <2> QED BY <2>2
<1>4. f = [i \in 0 .. N |-> f[i]] OBVIOUS
<1> HIDE DEF S, h
<1>5. Opens(f, s, X, g, N) BY <1>2, <1>3 DEF Opens, Iterates
<1> QED BY <1>4, <1>5

LEMMA OpensClosed ==
  ASSUME NEW s, NEW X, IsFiniteSet(X), NEW g, NEW N \in Nat, Cardinality(X) <= N, NEW f, Opens(f, s, X, g, N)
  PROVE  s \subseteq f[N] /\ \A y \in f[N] \intersect X : g[y] \subseteq f[N]
<1> DEFINE after(t) == UNION {g[y] : y \in t \intersect X}
           Closed(i) == after(f[i]) \subseteq f[i]
           T == {i \in 0 .. N : s \subseteq f[i] /\ (Closed(i) \/ Cardinality(f[i] \intersect X) > i)}
<1>1. Cardinality(X) \in Nat BY FS_CardinalityType
<1>2. ASSUME NEW i \in 0 .. N - 1 PROVE f[i + 1] = f[i] \union after(f[i]) /\ i + 1 \in 0 .. N
  <2>1. i + 1 \in 1 .. N /\ (i + 1) - 1 = i OBVIOUS
  <2> QED BY <2>1 DEF Opens
<1>3. ASSUME NEW t PROVE IsFiniteSet(t \intersect X) /\ Cardinality(t \intersect X) \in Nat
  <2>1. IsFiniteSet(t \intersect X) BY FS_Subset
  <2> QED BY <2>1, FS_CardinalityType
<1>4. 0 \in T
  <2>1. f[0] = s BY DEF Opens
  <2>2. CASE f[0] \intersect X = {} BY <2>1, <2>2
  <2>3. CASE f[0] \intersect X # {}
    <3>1. Cardinality(f[0] \intersect X) # 0 BY <1>3, <2>3, FS_EmptySet
    <3>2. Cardinality(f[0] \intersect X) > 0 BY <1>3, <3>1
    <3> QED BY <2>1, <3>2
  <2> QED BY <2>2, <2>3
<1>5. ASSUME NEW i \in 0 .. N - 1, i \in T PROVE i + 1 \in T
  <2>1. f[i + 1] = f[i] \union after(f[i]) /\ i + 1 \in 0 .. N BY <1>2
  <2>2. s \subseteq f[i + 1] BY <1>5, <2>1
  <2>3. CASE Closed(i)
    <3>1. f[i + 1] = f[i] BY <2>1, <2>3
    <3> HIDE DEF after
    <3> QED BY <2>1, <2>2, <2>3, <3>1
  <2>4. CASE f[i + 1] \intersect X = f[i] \intersect X
    <3>1. after(f[i + 1]) = after(f[i]) BY <2>4
    <3>2. Closed(i + 1)
      <4> HIDE DEF after
      <4> QED BY <2>1, <3>1
    <3> QED BY <2>1, <2>2, <3>2
  <2>5. CASE ~Closed(i) /\ f[i + 1] \intersect X # f[i] \intersect X
    <3> DEFINE A == f[i] \intersect X
               B == f[i + 1] \intersect X
    <3>1. A \in SUBSET B /\ A # B BY <2>1, <2>5
    <3>2. Cardinality(A) > i BY <1>5, <2>5
    <3>3. IsFiniteSet(B) /\ Cardinality(A) \in Nat /\ Cardinality(B) \in Nat BY <1>3
    <3>4. Cardinality(A) <= Cardinality(B) /\ Cardinality(A) # Cardinality(B)
      <4> HIDE DEF A, B
      <4> QED BY <3>1, <3>3, FS_Subset
    <3>5. Cardinality(B) > i + 1
      <4> HIDE DEF A, B
      <4> QED BY <3>2, <3>3, <3>4
    <3> QED BY <2>1, <2>2, <3>5
  <2> QED BY <2>3, <2>4, <2>5
<1>6. 0 .. N \subseteq T
  <2> HIDE DEF T
  <2> QED BY <1>4, <1>5, UpTo
<1>7. N \in T
  <2> HIDE DEF T
  <2> QED BY <1>6
<1>8. ~(Cardinality(f[N] \intersect X) > N)
  <2>1. Cardinality(f[N] \intersect X) <= Cardinality(X) BY FS_Subset
  <2> QED BY <1>1, <1>3, <2>1
<1>9. s \subseteq f[N] /\ after(f[N]) \subseteq f[N]
  <2> HIDE DEF after
  <2> QED BY <1>7, <1>8
<1> QED BY <1>9

LEMMA OpensLeast ==
  ASSUME NEW s, NEW X, NEW g, NEW N \in Nat, NEW f, Opens(f, s, X, g, N),
         NEW S, s \subseteq S, \A y \in S \intersect X : g[y] \subseteq S
  PROVE  s \subseteq f[N] /\ f[N] \subseteq S
<1> DEFINE after(t) == UNION {g[y] : y \in t \intersect X}
           T == {i \in 0 .. N : s \subseteq f[i] /\ f[i] \subseteq S}
<1>1. 0 \in T BY DEF Opens
<1>2. ASSUME NEW i \in 0 .. N - 1, i \in T PROVE i + 1 \in T
  <2>1. i + 1 \in 0 .. N /\ i + 1 \in 1 .. N /\ (i + 1) - 1 = i OBVIOUS
  <2>2. f[i + 1] = f[i] \union after(f[i]) BY <2>1 DEF Opens
  <2>3. after(f[i]) \subseteq S BY <1>2
  <2> HIDE DEF after
  <2> QED BY <1>2, <2>1, <2>2, <2>3
<1>3. 0 .. N \subseteq T
  <2> HIDE DEF T
  <2> QED BY <1>1, <1>2, UpTo
<1>4. N \in T
  <2> HIDE DEF T
  <2> QED BY <1>3
<1> QED BY <1>4

LEMMA OpensStart ==
  ASSUME NEW s, NEW X, NEW g, NEW N \in Nat, NEW f, Opens(f, s, X, g, N)
  PROVE  s \subseteq f[N]
<1> DEFINE T == {i \in 0 .. N : s \subseteq f[i]}
<1>1. 0 \in T BY DEF Opens
<1>2. ASSUME NEW i \in 0 .. N - 1, i \in T PROVE i + 1 \in T
  <2>1. i + 1 \in 0 .. N /\ i + 1 \in 1 .. N /\ (i + 1) - 1 = i OBVIOUS
  <2>2. f[i] \subseteq f[i + 1] BY <2>1 DEF Opens
  <2> QED BY <1>2, <2>1, <2>2
<1>3. 0 .. N \subseteq T
  <2> HIDE DEF T
  <2> QED BY <1>1, <1>2, UpTo
<1>4. N \in T
  <2> HIDE DEF T
  <2> QED BY <1>3
<1> QED BY <1>4

(* The nodes that a metric leads to: what metrics depend on, followed.     *)
LEMMA OnwardOpens ==
  ASSUME NEW m, NEW ns, NEW C \in Nat, C = Cardinality(MetricNames(m))
  PROVE  \E f : /\ Onward(m, ns) = f[C]
                /\ Opens(f, ns, MetricNames(m), [n \in MetricNames(m) |-> MetricDeps(m, n)], C)
<1> DEFINE X == MetricNames(m)
           g == [n \in X |-> MetricDeps(m, n)]
           step(s) == s \union UNION {MetricDeps(m, n) : n \in s \intersect X}
           Reach(f) == f = [i \in 0 .. C |-> IF i = 0 THEN ns ELSE step(f[i - 1])]
<1>1. ASSUME NEW t PROVE step(t) = t \union UNION {g[y] : y \in t \intersect X} OBVIOUS
<1>2. Onward(m, ns) = (CHOOSE h : Reach(h))[C] BY DEF Onward
<1> HIDE DEF g, step, X
<1>3. PICK f : f = [i \in 0 .. C |-> f[i]] /\ Opens(f, ns, X, g, C) BY OpensExists
<1>4. ASSUME NEW i \in 0 .. C PROVE f[i] = IF i = 0 THEN ns ELSE step(f[i - 1])
  <2>1. CASE i = 0 BY <1>3, <2>1 DEF Opens
  <2>2. CASE i \in 1 .. C
    <3>1. f[i] = f[i - 1] \union UNION {g[y] : y \in f[i - 1] \intersect X} BY <1>3, <2>2 DEF Opens
    <3> QED BY <1>1, <2>2, <3>1
  <2> QED BY <2>1, <2>2
<1>5. Reach(f) BY <1>3, <1>4
<1>6. PICK h : Reach(h) /\ Onward(m, ns) = h[C]
  <2> HIDE DEF Reach
  <2> QED BY <1>2, <1>5
<1>7. \A i \in 0 .. C : h[i] = IF i = 0 THEN ns ELSE step(h[i - 1]) BY <1>6
<1>8. Opens(h, ns, X, g, C)
  <2>1. h[0] = ns BY <1>7
  <2>2. ASSUME NEW i \in 1 .. C PROVE h[i] = h[i - 1] \union UNION {g[y] : y \in h[i - 1] \intersect X}
    <3>1. i \in 0 .. C /\ i # 0 OBVIOUS
    <3>2. h[i] = step(h[i - 1]) BY <1>7, <3>1
    <3> QED BY <1>1, <3>2
  <2> QED BY <2>1, <2>2 DEF Opens
<1> QED BY <1>6, <1>8 DEF X, g

LEMMA OnwardClosed ==
  ASSUME NEW m, IsFiniteSet(MetricNames(m)), NEW ns
  PROVE  /\ ns \subseteq Onward(m, ns)
         /\ \A n \in Onward(m, ns) \intersect MetricNames(m) : MetricDeps(m, n) \subseteq Onward(m, ns)
<1> DEFINE C == Cardinality(MetricNames(m))
           g == [n \in MetricNames(m) |-> MetricDeps(m, n)]
<1>1. C \in Nat /\ Cardinality(MetricNames(m)) <= C BY FS_CardinalityType
<1>2. PICK f : Onward(m, ns) = f[C] /\ Opens(f, ns, MetricNames(m), g, C) BY <1>1, OnwardOpens
<1>3. ns \subseteq f[C] /\ \A n \in f[C] \intersect MetricNames(m) : g[n] \subseteq f[C]
  <2> DEFINE X == MetricNames(m)
  <2>1. IsFiniteSet(X) /\ C \in Nat /\ Cardinality(X) <= C /\ Opens(f, ns, X, g, C) BY <1>1, <1>2
  <2> HIDE DEF g, C, X
  <2>2. ns \subseteq f[C] /\ \A n \in f[C] \intersect X : g[n] \subseteq f[C] BY <2>1, OpensClosed
  <2> QED BY <2>2 DEF X
<1> QED BY <1>2, <1>3

LEMMA OnwardLeast ==
  ASSUME NEW m, IsFiniteSet(MetricNames(m)), NEW ns, NEW S, ns \subseteq S,
         \A n \in S \intersect MetricNames(m) : MetricDeps(m, n) \subseteq S
  PROVE  Onward(m, ns) \subseteq S
<1> DEFINE C == Cardinality(MetricNames(m))
           g == [n \in MetricNames(m) |-> MetricDeps(m, n)]
<1>1. C \in Nat BY FS_CardinalityType
<1>2. PICK f : Onward(m, ns) = f[C] /\ Opens(f, ns, MetricNames(m), g, C) BY <1>1, OnwardOpens
<1>3. \A n \in S \intersect MetricNames(m) : g[n] \subseteq S OBVIOUS
<1> HIDE DEF g, C
<1> QED BY <1>1, <1>2, <1>3, OpensLeast

(* The depths grow round by round, and without a cycle they have settled   *)
(* before the last round: a metric settles once all that it leads to have. *)
Graphed(m) == MetricNames(m) \union MeasureNames(m)

Deeper(m, d, n) ==
  IF GraphNames(CollectAllMetrics(m)[n]) = {} THEN 0
  ELSE 1 + Max({0} \union {d[x] : x \in MetricDeps(m, n) \intersect Graphed(m)})

Rounds(m, D, N) ==
  /\ \A i \in 0 .. N : D[i] \in [Graphed(m) -> Nat]
  /\ \A i \in 0 .. N - 1 : \A n \in Graphed(m) :
       D[i + 1][n] = IF n \in MetricNames(m) THEN Max({D[i][n], Deeper(m, D[i], n)}) ELSE D[i][n]

LEMMA DeeperFacts ==
  ASSUME NEW m, IsFiniteSet(Graphed(m)), NEW d \in [Graphed(m) -> Nat], NEW n
  PROVE  /\ Deeper(m, d, n) \in Nat
         /\ \A x \in MetricDeps(m, n) \intersect Graphed(m) : d[x] < Deeper(m, d, n)
<1> DEFINE X == MetricDeps(m, n) \intersect Graphed(m)
           V == {d[x] : x \in X}
           f == [x \in X |-> d[x]]
<1>1. IsFiniteSet(X) BY FS_Subset
<1>2. f \in Surjection(X, V) BY DEF Surjection
<1>3. V \in SUBSET Nat OBVIOUS
<1>4. IsFiniteSet(V)
  <2> HIDE DEF X, V, f
  <2> QED BY <1>1, <1>2, FS_Surjection
<1>5. IsFiniteSet({0} \union V)
  <2> HIDE DEF V
  <2>1. IsFiniteSet(V \union {0}) BY <1>4, FS_AddElement
  <2>2. V \union {0} = {0} \union V OBVIOUS
  <2> QED BY <2>1, <2>2
<1>6. Max({0} \union V) \in Nat /\ \A v \in V : v <= Max({0} \union V)
  <2> HIDE DEF V
  <2>1. {0} \union V \in SUBSET Nat /\ {0} \union V # {} BY <1>3
  <2>2. Max({0} \union V) \in {0} \union V /\ \A v \in {0} \union V : v <= Max({0} \union V)
    BY <1>5, <2>1, MaxFacts
  <2> QED BY <2>1, <2>2
<1>7. X # {} => GraphNames(CollectAllMetrics(m)[n]) # {} BY DEF MetricDeps
<1>8. Deeper(m, d, n) = IF GraphNames(CollectAllMetrics(m)[n]) = {} THEN 0 ELSE 1 + Max({0} \union V)
  BY DEF Deeper
<1>9. ASSUME NEW x \in X PROVE d[x] < Deeper(m, d, n)
  <2>1. d[x] \in V /\ d[x] \in Nat OBVIOUS
  <2>2. d[x] <= Max({0} \union V) BY <1>6, <2>1
  <2>3. Deeper(m, d, n) = 1 + Max({0} \union V) BY <1>7, <1>8
  <2> HIDE DEF V, X
  <2> QED BY <1>6, <2>1, <2>2, <2>3
<1>10. Deeper(m, d, n) \in Nat
  <2> HIDE DEF V
  <2> QED BY <1>6, <1>8
<1> QED BY <1>9, <1>10

(* The greater of two numbers.                                             *)
LEMMA MaxOfTwo ==
  ASSUME NEW a \in Nat, NEW b \in Nat
  PROVE  Max({a, b}) \in {a, b} /\ a <= Max({a, b}) /\ b <= Max({a, b})
<1>1. IsFiniteSet({a, b})
  <2>1. IsFiniteSet({a}) BY FS_Singleton
  <2>2. IsFiniteSet({a} \union {b}) BY <2>1, FS_AddElement
  <2>3. {a} \union {b} = {a, b} OBVIOUS
  <2> QED BY <2>2, <2>3
<1>2. {a, b} \in SUBSET Nat /\ {a, b} # {} OBVIOUS
<1> QED BY <1>1, <1>2, MaxFacts

LEMMA DepthRounds ==
  ASSUME NEW m, IsFiniteSet(Graphed(m)), NEW N \in Nat, N = Cardinality(MetricNames(m))
  PROVE  \E D : MetricDepths(m) = D[N] /\ Rounds(m, D, N)
<1> DEFINE S == [Graphed(m) -> Nat]
           start == [n \in Graphed(m) |-> 0]
           round(d) == [n \in Graphed(m) |-> IF n \in MetricNames(m) THEN Max({d[n], Deeper(m, d, n)}) ELSE d[n]]
           g == [d \in S |-> round(d)]
           Iterate(f) == f = [i \in 0 .. N |-> IF i = 0 THEN start ELSE round(f[i - 1])]
<1>1. ASSUME NEW d \in S PROVE round(d) \in S
  <2>1. ASSUME NEW n \in Graphed(m) PROVE Max({d[n], Deeper(m, d, n)}) \in Nat /\ d[n] \in Nat
    <3>1. d[n] \in Nat /\ Deeper(m, d, n) \in Nat BY DeeperFacts
    <3> QED BY <3>1, MaxOfTwo
  <2> QED BY <2>1
<1>2. start \in S OBVIOUS
<1>3. g \in [S -> S]
  <2> HIDE DEF S, round
  <2> QED BY <1>1
<1>4. PICK f \in [0 .. N -> S] : Iterates(f, start, g, N)
  <2> HIDE DEF S, g, start
  <2> QED BY <1>2, <1>3, IterateExists
<1>5. ASSUME NEW i \in 1 .. N PROVE g[f[i - 1]] = round(f[i - 1])
  <2>1. i - 1 \in 0 .. N OBVIOUS
  <2>2. f[i - 1] \in S
    <3> HIDE DEF S
    <3> QED BY <2>1
  <2> HIDE DEF S, round
  <2> QED BY <2>2
<1>6. Iterate(f)
  <2>1. f = [i \in 0 .. N |-> f[i]] OBVIOUS
  <2> HIDE DEF S, g, round, start
  <2>2. \A i \in 0 .. N : f[i] = IF i = 0 THEN start ELSE round(f[i - 1]) BY <1>4, <1>5 DEF Iterates
  <2> QED BY <2>1, <2>2
<1>7. MetricDepths(m) = (CHOOSE h : Iterate(h))[N] BY DEF MetricDepths, Deeper, Graphed
<1>8. PICK h : Iterate(h) /\ MetricDepths(m) = h[N]
  <2> HIDE DEF Iterate
  <2> QED BY <1>6, <1>7
<1>9. h[0] = start /\ \A i \in 0 .. N - 1 : h[i + 1] = round(h[i])
  <2>1. \A i \in 0 .. N : h[i] = IF i = 0 THEN start ELSE round(h[i - 1])
    <3> HIDE DEF round, start
    <3> QED BY <1>8
  <2> HIDE DEF Iterate, round, start
  <2>2. \A i \in 0 .. N - 1 : i + 1 \in 0 .. N /\ i + 1 # 0 /\ (i + 1) - 1 = i OBVIOUS
  <2>3. 0 \in 0 .. N OBVIOUS
  <2> QED BY <2>1, <2>2, <2>3
<1> DEFINE T == {i \in 0 .. N : h[i] \in S}
<1>10. 0 .. N \subseteq T
  <2> HIDE DEF S, round, start, Iterate
  <2>1. 0 \in T BY <1>2, <1>9
  <2>2. ASSUME NEW i \in 0 .. N - 1, i \in T PROVE i + 1 \in T
    <3>1. i + 1 \in 0 .. N OBVIOUS
    <3> QED BY <1>1, <1>9, <2>2, <3>1
  <2> HIDE DEF T
  <2> QED BY <2>1, <2>2, UpTo
<1>11. ASSUME NEW i \in 0 .. N - 1, NEW n \in Graphed(m)
       PROVE  h[i + 1][n] = IF n \in MetricNames(m) THEN Max({h[i][n], Deeper(m, h[i], n)}) ELSE h[i][n]
  <2>1. h[i + 1] = round(h[i]) BY <1>9
  <2> HIDE DEF Iterate
  <2> QED BY <2>1
<1>12. \A i \in 0 .. N : h[i] \in [Graphed(m) -> Nat] BY <1>10
<1> HIDE DEF Iterate
<1>13. Rounds(m, h, N) BY <1>11, <1>12 DEF Rounds
<1> QED BY <1>8, <1>13

(* The metrics that a metric leads to.                                     *)
LedTo(m, n) == Onward(m, MetricDeps(m, n)) \intersect MetricNames(m)

LEMMA LeadsLess ==
  ASSUME NEW m, IsFiniteSet(MetricNames(m)), ~MetricCycle(m), NEW n \in MetricNames(m),
         NEW x \in MetricDeps(m, n), x \in MetricNames(m)
  PROVE  Cardinality(LedTo(m, x)) < Cardinality(LedTo(m, n))
<1> DEFINE A == LedTo(m, x)
           B == LedTo(m, n)
<1>1. IsFiniteSet(B) /\ Cardinality(B) \in Nat
  <2>1. IsFiniteSet(B) BY FS_Subset DEF LedTo
  <2> QED BY <2>1, FS_CardinalityType
<1>2. /\ MetricDeps(m, n) \subseteq Onward(m, MetricDeps(m, n))
      /\ \A y \in Onward(m, MetricDeps(m, n)) \intersect MetricNames(m) :
           MetricDeps(m, y) \subseteq Onward(m, MetricDeps(m, n))
  BY OnwardClosed
<1>3. x \in B BY <1>2 DEF LedTo
<1>4. MetricDeps(m, x) \subseteq Onward(m, MetricDeps(m, n)) BY <1>2
<1>5. Onward(m, MetricDeps(m, x)) \subseteq Onward(m, MetricDeps(m, n)) BY <1>2, <1>4, OnwardLeast
<1>6. A \in SUBSET B BY <1>5 DEF LedTo
<1>7. x \notin A BY DEF LedTo, MetricCycle
<1>8. IsFiniteSet(A) /\ Cardinality(A) \in Nat
  <2>1. IsFiniteSet(A) BY FS_Subset DEF LedTo
  <2> QED BY <2>1, FS_CardinalityType
<1>9. Cardinality(A) <= Cardinality(B) /\ Cardinality(A) # Cardinality(B)
  <2> HIDE DEF A, B
  <2> QED BY <1>1, <1>3, <1>6, <1>7, FS_Subset
<1> HIDE DEF A, B
<1>10. Cardinality(A) < Cardinality(B) BY <1>1, <1>8, <1>9
<1> QED BY <1>10 DEF A, B

(* In the graph of the metrics every reference leads to a smaller depth.   *)
LEMMA DepthsRise ==
  ASSUME NEW m, IsFiniteSet(Graphed(m)), ~MetricCycle(m), NEW n \in MetricNames(m),
         NEW x \in MetricDeps(m, n), x \in Graphed(m)
  PROVE  /\ MetricDepths(m)[x] \in Nat /\ MetricDepths(m)[n] \in Nat
         /\ MetricDepths(m)[x] < MetricDepths(m)[n]
<1> DEFINE M == MetricNames(m)
           N == Cardinality(M)
           rank(y) == Cardinality(LedTo(m, y))
<1>1. IsFiniteSet(M) /\ N \in Nat /\ M \subseteq Graphed(m)
  <2>1. M \in SUBSET Graphed(m) BY DEF Graphed
  <2>2. IsFiniteSet(M) BY <2>1, FS_Subset
  <2> QED BY <2>1, <2>2, FS_CardinalityType
<1>2. PICK D : MetricDepths(m) = D[N] /\ Rounds(m, D, N)
  <2> HIDE DEF N
  <2>1. N = Cardinality(MetricNames(m)) BY DEF N
  <2> QED BY <1>1, <2>1, DepthRounds
<1>3. ASSUME NEW y \in M PROVE rank(y) \in Nat /\ rank(y) <= N - 1
  <2> DEFINE B == LedTo(m, y)
  <2>1. B \in SUBSET M /\ y \notin B BY DEF LedTo, MetricCycle
  <2>2. B # M BY <2>1
  <2>3. IsFiniteSet(B) /\ Cardinality(B) <= N /\ Cardinality(B) # N
    <3> HIDE DEF B
    <3> QED BY <1>1, <2>1, <2>2, FS_Subset
  <2>4. Cardinality(B) \in Nat BY <2>3, FS_CardinalityType
  <2> HIDE DEF N
  <2> QED BY <1>1, <2>3, <2>4
<1>4. N - 1 \in Nat
  <2>1. rank(n) \in Nat /\ rank(n) <= N - 1 BY <1>3
  <2> HIDE DEF rank, N
  <2> QED BY <1>1, <2>1
<1>5. ASSUME NEW i \in 0 .. N - 1 PROVE i \in 0 .. N /\ i + 1 \in 0 .. N /\ i \in Nat
  <2> HIDE DEF N
  <2> QED BY <1>1
<1>6. ASSUME NEW i \in 0 .. N, NEW y \in Graphed(m) PROVE D[i][y] \in Nat /\ D[i] \in [Graphed(m) -> Nat]
  <2>1. D[i] \in [Graphed(m) -> Nat] BY <1>2 DEF Rounds
  <2> QED BY <2>1
<1>7. ASSUME NEW i \in 0 .. N - 1, NEW y \in M
      PROVE  /\ D[i + 1][y] = Max({D[i][y], Deeper(m, D[i], y)})
             /\ D[i + 1][y] \in {D[i][y], Deeper(m, D[i], y)}
             /\ D[i][y] <= D[i + 1][y] /\ Deeper(m, D[i], y) <= D[i + 1][y]
             /\ D[i][y] \in Nat /\ Deeper(m, D[i], y) \in Nat /\ D[i + 1][y] \in Nat
  <2>1. y \in Graphed(m) BY <1>1
  <2>2. D[i][y] \in Nat /\ D[i] \in [Graphed(m) -> Nat] /\ D[i + 1][y] \in Nat BY <1>5, <1>6, <2>1
  <2>3. Deeper(m, D[i], y) \in Nat BY <2>2, DeeperFacts
  <2>4. D[i + 1][y] = Max({D[i][y], Deeper(m, D[i], y)}) BY <1>2, <2>1 DEF Rounds
  <2> QED BY <2>2, <2>3, <2>4, MaxOfTwo
<1>8. ASSUME NEW i \in 0 .. N - 1, NEW y \in Graphed(m), y \notin M PROVE D[i + 1][y] = D[i][y]
  BY <1>2, <1>8 DEF Rounds
<1> DEFINE T == {i \in 0 .. N - 1 : \A y \in M : rank(y) < i => D[i + 1][y] = D[i][y]}
<1>9. 0 \in T
  <2>1. 0 \in 0 .. N - 1 BY <1>4
  <2>2. \A y \in M : ~(rank(y) < 0) BY <1>3
  <2> QED BY <2>1, <2>2
<1>10. ASSUME NEW i \in 0 .. (N - 1) - 1, i \in T PROVE i + 1 \in T
  <2>1. i \in 0 .. N - 1 /\ i + 1 \in 0 .. N - 1 /\ i \in Nat /\ i + 1 \in 0 .. N /\ i \in 0 .. N
    <3> HIDE DEF N
    <3> QED BY <1>1
  <2>2. ASSUME NEW y \in M, rank(y) < i + 1 PROVE D[(i + 1) + 1][y] = D[i + 1][y]
    <3>1. ASSUME NEW z \in MetricDeps(m, y) \intersect Graphed(m) PROVE D[i + 1][z] = D[i][z]
      <4>1. CASE z \in M
        <5>1. rank(z) < rank(y) BY <1>1, <4>1, LeadsLess
        <5>2. rank(z) < i
          <6>1. rank(z) \in Nat /\ rank(y) \in Nat BY <1>3, <4>1
          <6> HIDE DEF rank
          <6> QED BY <2>1, <2>2, <5>1, <6>1
        <5> QED BY <1>10, <4>1, <5>2
      <4>2. CASE z \notin M BY <1>8, <2>1, <4>2
      <4> QED BY <4>1, <4>2
    <3>2. Deeper(m, D[i + 1], y) = Deeper(m, D[i], y)
      <4> DEFINE V(d) == {d[z] : z \in MetricDeps(m, y) \intersect Graphed(m)}
      <4>1. V(D[i + 1]) = V(D[i]) BY <3>1
      <4>2. \A d : Deeper(m, d, y) = IF GraphNames(CollectAllMetrics(m)[y]) = {} THEN 0 ELSE 1 + Max({0} \union V(d))
        BY DEF Deeper
      <4> HIDE DEF V
      <4> QED BY <4>1, <4>2
    <3>3. /\ D[(i + 1) + 1][y] \in {D[i + 1][y], Deeper(m, D[i + 1], y)}
          /\ D[i + 1][y] <= D[(i + 1) + 1][y] /\ D[(i + 1) + 1][y] \in Nat
      BY <1>7, <2>1
    <3>4. Deeper(m, D[i], y) <= D[i + 1][y] /\ D[i + 1][y] \in Nat /\ Deeper(m, D[i], y) \in Nat BY <1>7, <2>1
    <3> QED BY <3>2, <3>3, <3>4
  <2> QED BY <2>1, <2>2
<1>11. 0 .. N - 1 \subseteq T
  <2> HIDE DEF T, N
  <2> QED BY <1>4, <1>9, <1>10, UpTo
<1>12. N - 1 \in 0 .. N - 1 /\ (N - 1) + 1 = N
  <2> HIDE DEF N
  <2> QED BY <1>1, <1>4
<1>13. D[N][x] = D[N - 1][x]
  <2>1. CASE x \in M
    <3>1. rank(x) < rank(n) BY <1>1, <2>1, LeadsLess
    <3>2. rank(x) < N - 1
      <4>1. rank(x) \in Nat /\ rank(n) \in Nat /\ rank(n) <= N - 1 BY <1>3, <2>1
      <4> HIDE DEF rank, N
      <4> QED BY <1>1, <3>1, <4>1
    <3>3. N - 1 \in T BY <1>11, <1>12
    <3> HIDE DEF rank, N
    <3> QED BY <1>12, <2>1, <3>2, <3>3
  <2>2. CASE x \notin M BY <1>8, <1>12, <2>2
  <2> QED BY <2>1, <2>2
<1>14. /\ Deeper(m, D[N - 1], n) <= D[N][n] /\ Deeper(m, D[N - 1], n) \in Nat /\ D[N][n] \in Nat
       /\ D[N - 1] \in [Graphed(m) -> Nat] /\ D[N - 1][x] \in Nat
  BY <1>1, <1>5, <1>6, <1>7, <1>12
<1>15. D[N - 1][x] < Deeper(m, D[N - 1], n) BY <1>14, DeeperFacts
<1> QED BY <1>2, <1>13, <1>14, <1>15

(* A name of an interface has a place of its own.                          *)
LEMMA PositionFacts ==
  ASSUME NEW x \in Range(NameOrder)
  PROVE  Position(x) \in Nat /\ Position(x) \in DOMAIN NameOrder /\ NameOrder[Position(x)] = x
<1>1. \E i \in DOMAIN NameOrder : NameOrder[i] = x BY DEF Range
<1>2. Position(x) \in DOMAIN NameOrder /\ NameOrder[Position(x)] = x BY <1>1 DEF Position
<1>3. DOMAIN NameOrder = 1 .. Len(NameOrder) /\ Len(NameOrder) \in Nat BY ModelsAssumption
<1> QED BY <1>2, <1>3

(* The evaluation order has every metric once, in the order of Precedes.   *)
LEMMA EvaluationOrderFacts ==
  ASSUME NEW metrics, DOMAIN metrics \subseteq Range(NameOrder), IsFiniteSet(DOMAIN metrics),
         \A x \in DOMAIN metrics : metrics[x].depth \in Nat,
         NEW e, e = EvaluationOrder(metrics)
  PROVE  /\ DOMAIN e = 1 .. Cardinality(DOMAIN metrics) /\ Len(e) = Cardinality(DOMAIN metrics)
         /\ Range(e) = DOMAIN metrics
         /\ \A i, j \in DOMAIN e : Precedes(metrics, e[j], e[i]) => j < i
<1> DEFINE X == DOMAIN metrics
           C == Cardinality(X)
           before(x) == {y \in X : Precedes(metrics, y, x)}
           place(x) == 1 + Cardinality(before(x))
<1>1. C \in Nat BY FS_CardinalityType
<1>2. \A x \in X : metrics[x].depth \in Nat /\ Position(x) \in Nat BY PositionFacts
<1>3. \A x, y \in X : Position(x) = Position(y) => x = y BY PositionFacts
<1>4. \A x \in X : ~Precedes(metrics, x, x) BY <1>2 DEF Precedes
<1>5. \A x, y, z \in X : Precedes(metrics, x, y) /\ Precedes(metrics, y, z) => Precedes(metrics, x, z)
  BY <1>2 DEF Precedes
<1>6. \A x, y \in X : x = y \/ Precedes(metrics, x, y) \/ Precedes(metrics, y, x)
  BY <1>2, <1>3 DEF Precedes
<1>7. ASSUME NEW x \in X
      PROVE  IsFiniteSet(before(x)) /\ Cardinality(before(x)) \in Nat /\ place(x) \in 1 .. C
  <2>1. before(x) \in SUBSET X /\ x \notin before(x) BY <1>4
  <2>2. IsFiniteSet(before(x)) /\ Cardinality(before(x)) <= C /\ Cardinality(before(x)) # C
    <3>1. before(x) # X BY <2>1
    <3> HIDE DEF before
    <3> QED BY <2>1, <3>1, FS_Subset
  <2>3. Cardinality(before(x)) \in Nat BY <2>2, FS_CardinalityType
  <2> HIDE DEF C, before
  <2> QED BY <1>1, <2>2, <2>3
<1>8. ASSUME NEW x \in X, NEW y \in X, Precedes(metrics, x, y) PROVE place(x) < place(y)
  <2>1. before(x) \in SUBSET before(y) BY <1>5, <1>8
  <2>2. x \in before(y) /\ x \notin before(x) BY <1>4, <1>8
  <2> HIDE DEF before
  <2>3. IsFiniteSet(before(y)) /\ Cardinality(before(x)) \in Nat /\ Cardinality(before(y)) \in Nat BY <1>7
  <2>4. Cardinality(before(x)) <= Cardinality(before(y)) /\ Cardinality(before(x)) # Cardinality(before(y))
    BY <2>1, <2>2, <2>3, FS_Subset
  <2> QED BY <2>3, <2>4
<1>9. \A x, y \in X : place(x) = place(y) => x = y
  <2> SUFFICES ASSUME NEW x \in X, NEW y \in X, place(x) = place(y), x # y PROVE FALSE
    OBVIOUS
  <2> HIDE DEF place
  <2>1. place(x) \in 1 .. C /\ place(y) \in 1 .. C BY <1>7
  <2>2. place(x) < place(y) \/ place(y) < place(x) BY <1>6, <1>8
  <2> QED BY <1>1, <2>1, <2>2
<1>10. \A i \in 1 .. C : \E x \in X : place(x) = i
  <2> DEFINE p == [x \in X |-> place(x)]
  <2>1. p \in Injection(X, 1 .. C)
    <3> HIDE DEF place
    <3> QED BY <1>7, <1>9 DEF Injection, IsInjective
  <2>2. IsFiniteSet(1 .. C) /\ Cardinality(1 .. C) = C
    <3> HIDE DEF C
    <3> QED BY <1>1, FS_Interval
  <2>3. p \in Surjection(X, 1 .. C)
    <3> HIDE DEF p
    <3> QED BY <2>1, <2>2, FS_Injection
  <2> HIDE DEF place
  <2> QED BY <2>3 DEF Surjection
<1>11. e = [i \in 1 .. C |-> CHOOSE x \in X : place(x) = i] BY DEF EvaluationOrder
<1> HIDE DEF place
<1>12. ASSUME NEW i \in 1 .. C PROVE e[i] \in X /\ place(e[i]) = i
  <2>1. e[i] = CHOOSE x \in X : place(x) = i BY <1>11
  <2> QED BY <1>10, <2>1
<1>13. DOMAIN e = 1 .. C BY <1>11
<1>14. Len(e) = C
  <2> HIDE DEF C
  <2>1. e \in [1 .. C -> X] BY <1>11, <1>12
  <2>2. e \in Seq(X) BY <1>1, <2>1
  <2> QED BY <1>1, <1>13, <2>2
<1>15. Range(e) = X
  <2>1. ASSUME NEW x \in X PROVE \E i \in DOMAIN e : e[i] = x
    <3>1. place(x) \in 1 .. C BY <1>7
    <3>2. e[place(x)] \in X /\ place(e[place(x)]) = place(x) BY <1>12, <3>1
    <3>3. e[place(x)] = x BY <1>9, <3>2
    <3> QED BY <1>13, <3>1, <3>3
  <2>2. \A i \in DOMAIN e : e[i] \in X BY <1>12, <1>13
  <2> QED BY <2>1, <2>2 DEF Range
<1>16. ASSUME NEW i \in DOMAIN e, NEW j \in DOMAIN e, Precedes(metrics, e[j], e[i]) PROVE j < i
  <2>1. e[i] \in X /\ place(e[i]) = i /\ e[j] \in X /\ place(e[j]) = j BY <1>12, <1>13
  <2> QED BY <1>8, <1>16, <2>1
<1> QED BY <1>13, <1>14, <1>15, <1>16

(* CompiledMetrics, name by name.                                          *)
MetricOf(k, ds, metrics, n) ==
  CompiledMetric(k, metrics, k.metrics[n], IF n \in DOMAIN ds THEN ds[n] ELSE 0)

Grown(k, ds, metrics, n) ==
  IF n \notin DOMAIN k.metrics THEN metrics
  ELSE IF MetricOf(k, ds, metrics, n).dtype = None THEN metrics
  ELSE Over([x \in {n} |-> MetricOf(k, ds, metrics, n)], metrics)

Grows(k, ds, f, N) ==
  f[0] = EmptyMap /\ \A i \in 1 .. N : f[i] = Grown(k, ds, f[i - 1], NameOrder[i])

LEMMA GrowsExists ==
  ASSUME NEW k, NEW ds, NEW N \in Nat
  PROVE  \E f : f = [i \in 0 .. N |-> f[i]] /\ Grows(k, ds, f, N)
<1> DEFINE T == {n \in Nat : \E f : f = [i \in 0 .. n |-> f[i]] /\ Grows(k, ds, f, n)}
<1>1. 0 \in T
  <2> DEFINE f == [i \in 0 .. 0 |-> EmptyMap]
  <2>1. f = [i \in 0 .. 0 |-> f[i]] /\ Grows(k, ds, f, 0) BY DEF Grows
  <2> HIDE DEF f
  <2> QED BY <2>1
<1>2. ASSUME NEW n \in 0 .. N - 1, n \in T PROVE n + 1 \in T
  <2>1. PICK f : f = [i \in 0 .. n |-> f[i]] /\ Grows(k, ds, f, n) BY <1>2
  <2> DEFINE h == [i \in 0 .. n + 1 |-> IF i = n + 1 THEN Grown(k, ds, f[n], NameOrder[n + 1]) ELSE f[i]]
  <2>2. h = [i \in 0 .. n + 1 |-> h[i]] OBVIOUS
  <2>3. h[0] = EmptyMap BY <2>1 DEF Grows
  <2>4. ASSUME NEW i \in 1 .. n + 1 PROVE h[i] = Grown(k, ds, h[i - 1], NameOrder[i])
    <3>1. CASE i = n + 1
      <4>1. h[i] = Grown(k, ds, f[n], NameOrder[i]) /\ h[i - 1] = f[n] BY <3>1
      <4> HIDE DEF h
      <4> QED BY <4>1
    <3>2. CASE i \in 1 .. n
      <4>1. h[i] = f[i] /\ h[i - 1] = f[i - 1] BY <3>2
      <4>2. f[i] = Grown(k, ds, f[i - 1], NameOrder[i]) BY <2>1, <3>2 DEF Grows
      <4> HIDE DEF h
      <4> QED BY <4>1, <4>2
    <3> QED BY <3>1, <3>2
  <2>5. n + 1 \in Nat OBVIOUS
  <2> HIDE DEF h
  <2>6. Grows(k, ds, h, n + 1) BY <2>3, <2>4 DEF Grows
  <2> QED BY <2>2, <2>5, <2>6
<1>3. 0 .. N \subseteq T
  <2> HIDE DEF T
  <2> QED BY <1>1, <1>2, UpTo
<1> QED BY <1>3

LEMMA CompiledRounds ==
  ASSUME NEW k, NEW ds
  PROVE  \E f : CompiledMetrics(k, ds) = f[Len(NameOrder)] /\ Grows(k, ds, f, Len(NameOrder))
<1> DEFINE L == Len(NameOrder)
           row(g, i) == IF i = 0 THEN EmptyMap
                        ELSE IF NameOrder[i] \notin DOMAIN k.metrics THEN g[i - 1]
                        ELSE LET n == NameOrder[i]
                                 c == CompiledMetric(k, g[i - 1], k.metrics[n],
                                                     IF n \in DOMAIN ds THEN ds[n] ELSE 0)
                             IN  IF c.dtype = None THEN g[i - 1] ELSE Over([x \in {n} |-> c], g[i - 1])
           After(g) == g = [i \in 0 .. L |-> row(g, i)]
<1>1. L \in Nat BY ModelsAssumption
<1>2. \A g : \A i \in 0 .. L : row(g, i) = IF i = 0 THEN EmptyMap ELSE Grown(k, ds, g[i - 1], NameOrder[i])
  BY DEF Grown, MetricOf
<1>3. CompiledMetrics(k, ds) = (CHOOSE g : After(g))[L] BY DEF CompiledMetrics
<1> HIDE DEF row, L
<1>4. PICK f : f = [i \in 0 .. L |-> f[i]] /\ Grows(k, ds, f, L) BY <1>1, GrowsExists
<1>5. ASSUME NEW i \in 0 .. L PROVE f[i] = row(f, i)
  <2>1. row(f, i) = IF i = 0 THEN EmptyMap ELSE Grown(k, ds, f[i - 1], NameOrder[i]) BY <1>2
  <2>2. CASE i = 0 BY <1>4, <2>1, <2>2 DEF Grows
  <2>3. CASE i \in 1 .. L
    <3>1. Grows(k, ds, f, L) BY <1>4
    <3>2. \A j \in 1 .. L : f[j] = Grown(k, ds, f[j - 1], NameOrder[j]) BY <3>1 DEF Grows
    <3>3. f[i] = Grown(k, ds, f[i - 1], NameOrder[i]) BY <2>3, <3>2
    <3>4. i # 0 BY <2>3
    <3> QED BY <2>1, <3>3, <3>4
  <2> QED BY <1>1, <2>2, <2>3
<1>6. [i \in 0 .. L |-> f[i]] = [i \in 0 .. L |-> row(f, i)] BY <1>5
<1>7. After(f) BY <1>4, <1>6
<1>8. PICK g : After(g) /\ CompiledMetrics(k, ds) = g[L]
  <2> HIDE DEF After
  <2> QED BY <1>3, <1>7
<1>9. \A i \in 0 .. L : g[i] = row(g, i) BY <1>8
<1>10. Grows(k, ds, g, L) BY <1>1, <1>2, <1>9 DEF Grows
<1> QED BY <1>8, <1>10 DEF L

LEMMA PlaceOf ==
  ASSUME NEW i \in 1 .. Len(NameOrder)
  PROVE  NameOrder[i] \in Range(NameOrder) /\ Position(NameOrder[i]) = i
<1>1. i \in DOMAIN NameOrder BY ModelsAssumption
<1>2. NameOrder[i] \in Range(NameOrder) BY <1>1 DEF Range
<1> QED BY <1>1, <1>2, PositionFacts, ModelsAssumption DEF IsInjective

(* What is compiled of a metric, from the metrics of the names before.     *)
LEMMA CompiledMetricsFacts ==
  ASSUME NEW k, NEW ds, NEW f, NEW L, L = Len(NameOrder), Grows(k, ds, f, L), NEW i \in 0 .. L
  PROVE  /\ \A x \in DOMAIN f[i] :
              /\ x \in DOMAIN k.metrics /\ x \in Range(NameOrder) /\ Position(x) \in 1 .. i
              /\ f[i][x] = MetricOf(k, ds, f[Position(x) - 1], x)
         /\ \A j \in 0 .. i : \A x : /\ x \in DOMAIN f[j] <=> x \in DOMAIN f[i] /\ Position(x) <= j
                                     /\ x \in DOMAIN f[j] => f[j][x] = f[i][x]
<1> DEFINE Own(n) == \A x \in DOMAIN f[n] :
             /\ x \in DOMAIN k.metrics /\ x \in Range(NameOrder) /\ Position(x) \in 1 .. n
             /\ f[n][x] = MetricOf(k, ds, f[Position(x) - 1], x)
           Kept(n) == \A j \in 0 .. n : \A x : /\ x \in DOMAIN f[j] <=> x \in DOMAIN f[n] /\ Position(x) <= j
                                               /\ x \in DOMAIN f[j] => f[j][x] = f[n][x]
           T == {n \in 0 .. L : Own(n) /\ Kept(n)}
<1>1. L \in Nat BY ModelsAssumption
<1>2. 0 \in T
  <2>1. f[0] = EmptyMap BY DEF Grows
  <2>2. DOMAIN f[0] = {} BY <2>1 DEF EmptyMap
  <2>3. \A j \in 0 .. 0 : j = 0 OBVIOUS
  <2> QED BY <1>1, <2>2, <2>3
<1>3. ASSUME NEW n \in 0 .. L - 1, n \in T PROVE n + 1 \in T
  <2> DEFINE x0 == NameOrder[n + 1]
             c == MetricOf(k, ds, f[n], x0)
  <2>1. n + 1 \in 1 .. L /\ n + 1 \in 0 .. L /\ (n + 1) - 1 = n /\ n \in Nat BY <1>1
  <2>2. x0 \in Range(NameOrder) /\ Position(x0) = n + 1 BY <2>1, PlaceOf
  <2>3. f[n + 1] = Grown(k, ds, f[n], x0) BY <2>1 DEF Grows
  <2>4. Own(n) /\ Kept(n) BY <1>3
  <2>5. x0 \notin DOMAIN f[n] BY <2>1, <2>2, <2>4
  <2>6. CASE f[n + 1] = f[n]
    <3>1. Own(n + 1) BY <2>1, <2>4, <2>6
    <3>2. Kept(n + 1)
      <4> SUFFICES ASSUME NEW j \in 0 .. n + 1, NEW x
                   PROVE  /\ x \in DOMAIN f[j] <=> x \in DOMAIN f[n + 1] /\ Position(x) <= j
                          /\ x \in DOMAIN f[j] => f[j][x] = f[n + 1][x]
        OBVIOUS
      <4>1. CASE j = n + 1 BY <3>1, <4>1
      <4>2. CASE j \in 0 .. n BY <2>4, <2>6, <4>2
      <4> QED BY <2>1, <4>1, <4>2
    <3> HIDE DEF Own, Kept
    <3> QED BY <2>1, <3>1, <3>2
  <2>7. CASE f[n + 1] # f[n]
    <3>1. x0 \in DOMAIN k.metrics /\ f[n + 1] = Over([x \in {x0} |-> c], f[n]) BY <2>3, <2>7 DEF Grown
    <3> HIDE DEF x0, c
    <3>2. /\ DOMAIN f[n + 1] = DOMAIN f[n] \union {x0}
          /\ f[n + 1][x0] = c /\ \A x \in DOMAIN f[n] : f[n + 1][x] = f[n][x]
      BY <2>5, <3>1 DEF Over
    <3>3. Own(n + 1)
      <4> SUFFICES ASSUME NEW x \in DOMAIN f[n + 1]
                   PROVE  /\ x \in DOMAIN k.metrics /\ x \in Range(NameOrder) /\ Position(x) \in 1 .. n + 1
                          /\ f[n + 1][x] = MetricOf(k, ds, f[Position(x) - 1], x)
        OBVIOUS
      <4>1. CASE x = x0
        <5>1. Position(x) - 1 = n BY <2>1, <2>2, <4>1
        <5> QED BY <2>1, <2>2, <3>1, <3>2, <4>1, <5>1 DEF c
      <4>2. CASE x \in DOMAIN f[n] BY <2>1, <2>4, <3>2, <4>2
      <4> QED BY <3>2, <4>1, <4>2
    <3>4. Kept(n + 1)
      <4> SUFFICES ASSUME NEW j \in 0 .. n + 1, NEW x
                   PROVE  /\ x \in DOMAIN f[j] <=> x \in DOMAIN f[n + 1] /\ Position(x) <= j
                          /\ x \in DOMAIN f[j] => f[j][x] = f[n + 1][x]
        OBVIOUS
      <4>1. CASE j = n + 1 BY <3>3, <4>1
      <4>2. CASE j \in 0 .. n
        <5>1. Position(x0) > j BY <2>1, <2>2, <4>2
        <5>2. /\ x \in DOMAIN f[j] <=> x \in DOMAIN f[n] /\ Position(x) <= j
              /\ x \in DOMAIN f[j] => f[j][x] = f[n][x]
          BY <2>4, <4>2
        <5>3. Position(x0) <= j => FALSE BY <2>1, <2>2, <4>2
        <5> QED BY <3>2, <5>2, <5>3
      <4> QED BY <2>1, <4>1, <4>2
    <3> HIDE DEF Own, Kept
    <3> QED BY <2>1, <3>3, <3>4
  <2> QED BY <2>6, <2>7
<1>4. 0 .. L \subseteq T
  <2> HIDE DEF T
  <2> QED BY <1>1, <1>2, <1>3, UpTo
<1> QED BY <1>4

(* The graph of the metrics that has been checked is the one the depths    *)
(* are from, and no kind of a finished compilation has failed.             *)
Ranked ==
  /\ stage \in {"emit", "done"} => ~MetricCycle(model) /\ depths = MetricDepths(model)
  /\ stage = "done" => \A n \in DOMAIN model : ~KindFails(model[n], depths)

LEMMA RankedHolds == Spec => []Ranked
<1>1. Init => Ranked BY DEF Init, Ranked
<1>2. Ranked /\ [Next]_vars => Ranked'
  <2> SUFFICES ASSUME Ranked, [Next]_vars PROVE Ranked'
    OBVIOUS
  <2>1. CASE BuildMetricGraph
    <3>1. UNCHANGED model /\ stage' \in {"emit", "failed"}
          /\ (stage' = "emit" => ~MetricCycle(model) /\ depths' = MetricDepths(model))
      BY <2>1 DEF BuildMetricGraph
    <3> QED BY <3>1 DEF Ranked
  <2>2. CASE Emit
    <3>1. stage = "emit" /\ UNCHANGED <<model, depths>> /\ stage' \in {"done", "failed"}
          /\ (stage' = "done" => \A n \in DOMAIN model : ~KindFails(model[n], depths))
      BY <2>2 DEF Emit
    <3> QED BY <3>1 DEF Ranked
  <2>3. CASE UNCHANGED vars BY <2>3 DEF vars, Ranked
  <2>4. CASE ResolveDataset
    <3>1. stage' \in {"sources", "failed"} BY <2>4 DEF ResolveDataset
    <3> QED BY <3>1 DEF Ranked
  <2>5. CASE SourcesResolved BY <2>5 DEF SourcesResolved, Ranked
  <2>6. CASE \/ ValidateStructure \/ ValidateTemporalEquivalence \/ ValidateStorage
             \/ ValidateMetadataDimensions \/ ValidateTemporalDimensionConsistency
             \/ ValidateMappings \/ ValidateGrainCompatibility
    <3>1. stage' \notin {"emit", "done"}
      BY <2>6 DEF ValidateStructure, ValidateTemporalEquivalence, ValidateStorage, ValidateMetadataDimensions,
                  ValidateTemporalDimensionConsistency, ValidateMappings, ValidateGrainCompatibility, Check
    <3> QED BY <3>1 DEF Ranked
  <2>7. CASE ExpandAutoMappings \/ DeriveDimensionGrains
    <3>1. stage' \notin {"emit", "done"} BY <2>7 DEF ExpandAutoMappings, DeriveDimensionGrains
    <3> QED BY <3>1 DEF Ranked
  <2> QED BY <2>1, <2>2, <2>3, <2>4, <2>5, <2>6, <2>7 DEF Next
<1> QED BY <1>1, <1>2, PTL DEF Spec

(* The names of an interface are finitely many.                            *)
LEMMA NamesFinite == IsFiniteSet(Range(NameOrder))
<1>1. DOMAIN NameOrder = 1 .. Len(NameOrder) /\ Len(NameOrder) \in Nat BY ModelsAssumption
<1>2. IsFiniteSet(DOMAIN NameOrder) BY <1>1, FS_Interval
<1> DEFINE f == [i \in DOMAIN NameOrder |-> NameOrder[i]]
<1>3. f \in Surjection(DOMAIN NameOrder, Range(NameOrder)) BY DEF Surjection, Range
<1> HIDE DEF f
<1> QED BY <1>2, <1>3, FS_Surjection

(* The names of a model's metrics and measures are finitely many.          *)
LEMMA GraphedFinite ==
  ASSUME NEW s \in Models, NEW m, DOMAIN m = DOMAIN s,
         \A n \in DOMAIN s : m[n].measures = s[n].measures /\ m[n].metrics = s[n].metrics
  PROVE  IsFiniteSet(Graphed(m)) /\ IsFiniteSet(MetricNames(m)) /\ Graphed(m) \subseteq Range(NameOrder)
<1>5. \A n \in DOMAIN m : DOMAIN m[n].measures \union DOMAIN m[n].metrics \subseteq Range(NameOrder)
  BY ModelsAssumption DEF IsKind
<1>6. Graphed(m) \in SUBSET Range(NameOrder) /\ MetricNames(m) \in SUBSET Graphed(m)
  BY <1>5 DEF Graphed, MetricNames, MeasureNames
<1>7. IsFiniteSet(Graphed(m)) BY <1>6, NamesFinite, FS_Subset
<1> QED BY <1>6, <1>7, FS_Subset

(* What is compiled of the metrics and measures of a kind.                 *)
LEMMA CompiledFields ==
  ASSUME PipelineInv, Ranked, stage = "done", NEW n \in DOMAIN source, NEW e, e = manifest.kinds[n]
  PROVE  /\ DOMAIN model = DOMAIN source /\ source \in Models /\ IsKind(source[n])
         /\ \A k \in DOMAIN source : model[k].metrics = source[k].metrics /\ model[k].measures = source[k].measures
         /\ e.measures = CompiledMeasures(model[n])
         /\ e.metrics = CompiledMetrics(model[n], depths)
         /\ e.variant # "simple" => e.order = EvaluationOrder(e.metrics)
         /\ DOMAIN e.metrics = DOMAIN source[n].metrics
<1>1. PICK es \in CompiledEntities(model, depths, resolved) :
        manifest = [kinds |-> es, fields |-> FieldIndex(es), graph |-> SemanticGraph(es)]
  BY DEF PipelineInv, Compiled
<1>2. source \in Models /\ \E x \in Expansions(source) : model = WithDerivedGrains(x)
  BY CompiledFacts
<1>3. /\ DOMAIN model = DOMAIN source /\ IsKind(source[n])
      /\ \A k \in DOMAIN source : model[k].metrics = source[k].metrics /\ model[k].measures = source[k].measures
  BY <1>2, ModelKept
<1>4. manifest.kinds[n] = es[n] /\ es[n] \in CompiledKinds(n, model[n], depths, resolved)
  BY <1>1, <1>3 DEF CompiledEntities
<1>5. PICK bs \in KindBindings(n, model[n], resolved) :
        /\ e.measures = CompiledMeasures(model[n]) /\ e.metrics = CompiledMetrics(model[n], depths)
        /\ e.variant # "simple" => e.order = EvaluationOrder(CompiledMetrics(model[n], depths))
  BY <1>4 DEF CompiledKinds
<1>6. DOMAIN CompiledMetrics(model[n], depths) = DOMAIN model[n].metrics
  BY <1>3 DEF Ranked, KindFails, MetricFails
<1> QED BY <1>2, <1>3, <1>5, <1>6

(* In a kind of several bindings whose metric names no earlier kind uses   *)
(* and whose metrics refer to no name that the scan of a text drops, the   *)
(* metrics are evaluated each once and after the metrics they refer to.    *)
THEOREM MetricsAreWellFounded == Spec => []MetricsWellFounded
<1>1. PipelineInv /\ Ranked => MetricsWellFounded
  <2> SUFFICES ASSUME PipelineInv, Ranked, stage = "done", NEW n \in DOMAIN source, FirstOfNames(n),
                      NamesSeen(n), manifest.kinds[n].variant # "simple"
               PROVE  InOrder(manifest.kinds[n])
    BY DEF MetricsWellFounded, Done
  <2> DEFINE e == manifest.kinds[n]
             k == model[n]
             metrics == e.metrics
             L == Len(NameOrder)
  <2>1. /\ DOMAIN model = DOMAIN source /\ source \in Models /\ IsKind(source[n])
        /\ \A x \in DOMAIN source : model[x].metrics = source[x].metrics /\ model[x].measures = source[x].measures
        /\ metrics = CompiledMetrics(k, depths) /\ e.order = EvaluationOrder(metrics)
        /\ DOMAIN metrics = DOMAIN source[n].metrics
    BY CompiledFields
  <2>2. IsFiniteSet(Graphed(model)) /\ IsFiniteSet(MetricNames(model)) /\ Graphed(model) \subseteq Range(NameOrder)
    BY <2>1, GraphedFinite
  <2>3. ~MetricCycle(model) /\ depths = MetricDepths(model) BY DEF Ranked
  <2>4. DOMAIN metrics \subseteq MetricNames(model) /\ MetricNames(model) \subseteq Graphed(model)
    BY <2>1 DEF MetricNames, Graphed
  <2>5. IsFiniteSet(DOMAIN metrics) /\ DOMAIN metrics \subseteq Range(NameOrder)
    BY <2>2, <2>4, FS_Subset
  <2>6. DOMAIN depths = Graphed(model) /\ \A x \in Graphed(model) : depths[x] \in Nat
    <3>1. Cardinality(MetricNames(model)) \in Nat BY <2>2, FS_CardinalityType
    <3>2. PICK D : depths = D[Cardinality(MetricNames(model))] /\ Rounds(model, D, Cardinality(MetricNames(model)))
      BY <2>2, <2>3, <3>1, DepthRounds
    <3>3. depths \in [Graphed(model) -> Nat] BY <3>1, <3>2 DEF Rounds
    <3> QED BY <3>3
  <2>7. ASSUME NEW x \in DOMAIN metrics
        PROVE  /\ metrics[x].refs = source[n].metrics[x].refs
               /\ metrics[x].depth = depths[x] /\ depths[x] \in Nat
    <3>1. PICK f : metrics = f[L] /\ Grows(k, depths, f, L) BY <2>1, CompiledRounds
    <3>2. L \in 0 .. L BY ModelsAssumption
    <3>3. metrics[x] = MetricOf(k, depths, f[Position(x) - 1], x)
      <4> HIDE DEF metrics, k
      <4> QED BY <3>1, <3>2, CompiledMetricsFacts
    <3>4. x \in DOMAIN depths /\ depths[x] \in Nat BY <2>4, <2>6
    <3> QED BY <2>1, <3>3, <3>4 DEF MetricOf, CompiledMetric
  <2>8. ASSUME NEW x \in DOMAIN metrics PROVE CollectAllMetrics(model)[x] = source[n].metrics[x]
    <3>1. {j \in DOMAIN KindOrder : KindOrder[j] \in DOMAIN model /\ x \in DOMAIN model[KindOrder[j]].metrics}
            = {j \in DOMAIN KindOrder : KindOrder[j] \in DOMAIN source /\ x \in DOMAIN source[KindOrder[j]].metrics}
      BY <2>1
    <3>2. FirstKindWith(model, x) = FirstKindWith(source, x) BY <3>1 DEF FirstKindWith
    <3>3. FirstKindWith(source, x) = n BY <2>1 DEF FirstOfNames
    <3> QED BY <2>1, <2>4, <3>2, <3>3 DEF CollectAllMetrics
  <2>9. ASSUME NEW x \in DOMAIN metrics, NEW y \in DOMAIN metrics, y \in References(metrics[x]) \ {x}
        PROVE  Precedes(metrics, y, x)
    <3>1. y \in GraphNames(source[n].metrics[x])
      BY <2>1, <2>7, <2>9 DEF NamesSeen, References
    <3>5. y \in MetricDeps(model, x) BY <2>8, <2>9, <3>1 DEF MetricDeps
    <3>2. x \in MetricNames(model) /\ y \in Graphed(model) BY <2>4
    <3>3. depths[y] < depths[x] BY <2>2, <2>3, <3>5, <3>2, DepthsRise
    <3> QED BY <2>7, <3>3 DEF Precedes
  <2>10. /\ Len(e.order) = Cardinality(DOMAIN metrics)
         /\ Range(e.order) = DOMAIN metrics
         /\ \A i, j \in DOMAIN e.order : Precedes(metrics, e.order[j], e.order[i]) => j < i
    <3>1. \A x \in DOMAIN metrics : metrics[x].depth \in Nat BY <2>7
    <3> HIDE DEF metrics, e
    <3> QED BY <2>1, <2>5, <3>1, EvaluationOrderFacts
  <2>11. \A i \in DOMAIN e.order : e.order[i] \in DOMAIN metrics BY <2>10 DEF Range
  <2> HIDE DEF e
  <2> QED BY <2>9, <2>10, <2>11 DEF InOrder, e
<1> QED BY <1>1, PipelineInvariant, RankedHolds, PTL

(* Folding with WorstOf is Worst, in whatever order.                       *)
LEMMA NonIsNotFull == Non # Full /\ Non # None /\ Full # None
<1>1. Non[1] # Full[1] BY DEF Non, Full
<1> QED BY <1>1, ModelsAssumption

LEMMA WorstFacts ==
  ASSUME NEW as
  PROVE  /\ as \ {Full} = {} => Worst(as) = Full
         /\ \A a : as \ {Full} = {a} => Worst(as) = a
         /\ \A a, b \in as \ {Full} : a # b => Worst(as) = Non
<1> DEFINE partial == as \ {Full}
<1>1. Worst(as) = IF partial = {} THEN Full
                  ELSE IF \E a \in partial : partial = {a} THEN CHOOSE a \in partial : TRUE ELSE Non
  BY DEF Worst
<1> HIDE DEF partial
<1>2. ASSUME NEW a, partial = {a} PROVE Worst(as) = a
  <2>1. a \in partial /\ \A b \in partial : b = a BY <1>2
  <2>2. Worst(as) = CHOOSE b \in partial : TRUE BY <1>1, <1>2, <2>1
  <2>3. (CHOOSE b \in partial : TRUE) \in partial BY <2>1
  <2> QED BY <2>1, <2>2, <2>3
<1>3. ASSUME NEW a \in partial, NEW b \in partial, a # b PROVE Worst(as) = Non BY <1>1, <1>3
<1>4. partial = {} => Worst(as) = Full BY <1>1
<1> QED BY <1>2, <1>3, <1>4 DEF partial

LEMMA WorstStep ==
  ASSUME NEW as, NEW a \in as
  PROVE  Worst(as) = WorstOf(a, Worst(as \ {a}))
<1> DEFINE rest == as \ {a}
           P == rest \ {Full}
<1>1. CASE a = Full
  <2>1. P = as \ {Full} BY <1>1
  <2>2. Worst(rest) = Worst(as) BY <2>1 DEF Worst
  <2>3. WorstOf(a, Worst(as)) = Worst(as) BY <1>1, NonIsNotFull DEF WorstOf
  <2> QED BY <2>2, <2>3
<1>2. CASE a # Full /\ P = {}
  <2>1. Worst(rest) = Full BY <1>2, WorstFacts
  <2>2. as \ {Full} = {a} BY <1>2
  <2>3. Worst(as) = a BY <2>2, WorstFacts
  <2> QED BY <1>2, <2>1, <2>3, NonIsNotFull DEF WorstOf
<1>3. CASE a # Full /\ P # {}
  <2>1. PICK b \in P : TRUE BY <1>3
  <2>2. a \in as \ {Full} /\ b \in as \ {Full} /\ a # b BY <1>3, <2>1
  <2>3. Worst(as) = Non BY <2>2, WorstFacts
  <2>4. CASE \E c \in P : c # b
    <3>1. Worst(rest) = Non BY <2>1, <2>4, WorstFacts
    <3> QED BY <2>3, <3>1 DEF WorstOf
  <2>5. CASE ~\E c \in P : c # b
    <3>1. P = {b} BY <2>1, <2>5
    <3>2. Worst(rest) = b BY <3>1, WorstFacts
    <3> QED BY <1>3, <2>2, <2>3, <3>2 DEF WorstOf
  <2> QED BY <2>4, <2>5
<1> QED BY <1>1, <1>2, <1>3

LEMMA WorstFolds ==
  ASSUME NEW as, IsFiniteSet(as)
  PROVE  WorstCaseAdditivity(as) = Worst(as)
<1> DEFINE Folds(h) == h = [s \in SUBSET as |->
                         IF s = {} THEN Full
                         ELSE LET x == CHOOSE x \in s : TRUE IN WorstOf(x, h[s \ {x}])]
           w == [s \in SUBSET as |-> Worst(s)]
           some(s) == CHOOSE x \in s : TRUE
<1>1. WorstCaseAdditivity(as) = (CHOOSE h : Folds(h))[as]
  BY DEF WorstCaseAdditivity, FoldSet, MapThenFoldSet
<1>2. \A s : s # {} => some(s) \in s OBVIOUS
<1> HIDE DEF some
<1>3. ASSUME NEW h PROVE Folds(h) <=> h = [s \in SUBSET as |-> IF s = {} THEN Full ELSE WorstOf(some(s), h[s \ {some(s)}])]
  BY DEF some
<1> HIDE DEF Folds
<1>4. Folds(w)
  <2>1. ASSUME NEW s \in SUBSET as
        PROVE  w[s] = IF s = {} THEN Full ELSE WorstOf(some(s), w[s \ {some(s)}])
    <3>1. CASE s = {} BY <3>1, WorstFacts
    <3>2. CASE s # {}
      <4>1. s \ {some(s)} \in SUBSET as OBVIOUS
      <4>2. w[s] = Worst(s) /\ w[s \ {some(s)}] = Worst(s \ {some(s)}) BY <4>1
      <4> HIDE DEF w
      <4> QED BY <1>2, <3>2, <4>2, WorstStep
    <3> QED BY <3>1, <3>2
  <2>2. w = [s \in SUBSET as |-> w[s]] OBVIOUS
  <2> HIDE DEF w
  <2>3. w = [s \in SUBSET as |-> IF s = {} THEN Full ELSE WorstOf(some(s), w[s \ {some(s)}])] BY <2>1, <2>2
  <2> QED BY <1>3, <2>3
<1>5. PICK h : Folds(h) /\ WorstCaseAdditivity(as) = h[as] BY <1>1, <1>4
<1>6. \A s \in SUBSET as : h[s] = IF s = {} THEN Full ELSE WorstOf(some(s), h[s \ {some(s)}]) BY <1>3, <1>5
<1>7. \A s \in SUBSET as : IsFiniteSet(s) /\ Cardinality(s) \in Nat
  <2> TAKE s \in SUBSET as
  <2>1. IsFiniteSet(s) BY FS_Subset
  <2> QED BY <2>1, FS_CardinalityType
<1>8. \A s \in SUBSET as : h[s] = Worst(s)
  <2> SUFFICES ASSUME NEW s0 \in SUBSET as, h[s0] # Worst(s0) PROVE FALSE
    OBVIOUS
  <2> DEFINE Off == {Cardinality(s) : s \in {t \in SUBSET as : h[t] # Worst(t)}}
  <2>1. Off \in SUBSET Nat /\ Off # {} BY <1>7
  <2>2. PICK c \in Off : \A d \in Off : c <= d
    <3> HIDE DEF Off
    <3> QED BY <2>1, LeastNat
  <2>3. PICK s \in SUBSET as : h[s] # Worst(s) /\ c = Cardinality(s) BY <2>2
  <2>4. s # {} BY <1>6, <2>3, WorstFacts
  <2> DEFINE r == s \ {some(s)}
  <2>5. r \in SUBSET as /\ some(s) \in s BY <1>2, <2>4
  <2>6. Cardinality(r) = Cardinality(s) - 1 BY <1>7, <2>5, FS_RemoveElement
  <2>7. Cardinality(r) \notin Off
    <3>1. c \in Nat BY <1>7, <2>3
    <3> HIDE DEF Off, r
    <3> QED BY <2>2, <2>3, <2>6, <3>1
  <2>8. h[r] = Worst(r) BY <2>5, <2>7
  <2>9. h[s] = WorstOf(some(s), h[r]) BY <1>6, <2>4
  <2> QED BY <2>3, <2>5, <2>8, <2>9, WorstStep
<1> QED BY <1>5, <1>8

(* The worst of sets' worsts is the worst of all that is in them.          *)
Worsts(A, P, g) == A \union {Worst(g[y]) : y \in {z \in P : g[z] # {}}}
Joined(A, P, g) == A \union UNION {g[y] : y \in P}

LEMMA WorstOfUnion ==
  ASSUME NEW A, NEW P, NEW g
  PROVE  /\ Worsts(A, P, g) = {} <=> Joined(A, P, g) = {}
         /\ Worst(Worsts(A, P, g)) = Worst(Joined(A, P, g))
<1> DEFINE V == A \union {Worst(g[y]) : y \in {z \in P : g[z] # {}}}
           W == A \union UNION {g[y] : y \in P}
<1>1. V = {} <=> W = {} OBVIOUS
<1>2. ASSUME NEW y \in P, NEW a \in g[y] \ {Full} PROVE Worst(g[y]) \in V /\ Worst(g[y]) \in {a, Non}
  <2>1. Worst(g[y]) \in V BY <1>2
  <2>2. CASE g[y] \ {Full} = {a} BY <2>1, <2>2, WorstFacts
  <2>3. CASE g[y] \ {Full} # {a}
    <3>1. PICK b \in g[y] \ {Full} : b # a BY <1>2, <2>3
    <3> QED BY <1>2, <2>1, <3>1, WorstFacts
  <2> QED BY <2>2, <2>3
<1>3. ASSUME NEW y \in P, g[y] \ {Full} = {} PROVE Worst(g[y]) = Full BY <1>3, WorstFacts
<1>4. ASSUME W \ {Full} = {} PROVE Worst(V) = Worst(W)
  <2>1. \A y \in P : g[y] \ {Full} = {} BY <1>4
  <2>2. V \ {Full} = {} BY <1>3, <1>4, <2>1
  <2> QED BY <1>1, <1>4, <2>2, WorstFacts
<1>5. ASSUME NEW a, W \ {Full} = {a} PROVE Worst(V) = Worst(W)
  <2>1. \A y \in P : g[y] \ {Full} = {} \/ g[y] \ {Full} = {a} BY <1>5
  <2>2. \A y \in P : Worst(g[y]) \in {Full, a} BY <1>3, <2>1, WorstFacts
  <2>3. V \ {Full} \subseteq {a} BY <1>5, <2>2
  <2>4. a \in V
    <3>1. CASE a \in A BY <3>1
    <3>2. CASE a \notin A
      <4>1. PICK y \in P : a \in g[y] BY <1>5, <3>2
      <4>2. g[y] \ {Full} = {a} BY <1>5, <2>1, <4>1
      <4>3. Worst(g[y]) = a BY <4>2, WorstFacts
      <4> QED BY <4>1, <4>3
    <3> QED BY <3>1, <3>2
  <2>5. V \ {Full} = {a} BY <1>5, <2>3, <2>4
  <2> QED BY <1>5, <2>5, WorstFacts
<1>6. ASSUME NEW a \in W \ {Full}, NEW b \in W \ {Full}, a # b PROVE Worst(V) = Worst(W)
  <2>1. Worst(W) = Non BY <1>6, WorstFacts
  <2>2. ASSUME NEW c \in W \ {Full} PROVE c \in V \/ Non \in V
    <3>1. CASE c \in A BY <3>1
    <3>2. CASE c \notin A
      <4>1. PICK y \in P : c \in g[y] BY <2>2, <3>2
      <4> QED BY <1>2, <2>2, <4>1
    <3> QED BY <3>1, <3>2
  <2>3. CASE Non \in V
    <3>1. Non \in V \ {Full} BY <2>3, NonIsNotFull
    <3>2. CASE V \ {Full} = {Non}
      <4>1. \A d : V \ {Full} = {d} => Worst(V) = d BY WorstFacts
      <4> QED BY <2>1, <3>2, <4>1
    <3>3. CASE V \ {Full} # {Non}
      <4>1. PICK d \in V \ {Full} : d # Non BY <3>1, <3>3
      <4> QED BY <2>1, <3>1, <4>1, WorstFacts
    <3> QED BY <3>2, <3>3
  <2>4. CASE Non \notin V
    <3>1. a \in V \ {Full} /\ b \in V \ {Full} BY <1>6, <2>2, <2>4
    <3> QED BY <1>6, <2>1, <3>1, WorstFacts
  <2> QED BY <2>3, <2>4
<1>7. ASSUME W \ {Full} # {} PROVE Worst(V) = Worst(W)
  <2>1. PICK a \in W \ {Full} : TRUE BY <1>7
  <2>2. CASE W \ {Full} = {a} BY <1>5, <2>2
  <2>3. CASE W \ {Full} # {a}
    <3>1. PICK b \in W \ {Full} : b # a BY <2>1, <2>3
    <3> QED BY <1>6, <2>1, <3>1
  <2> QED BY <2>2, <2>3
<1>8. Worst(V) = Worst(W) BY <1>4, <1>7
<1> QED BY <1>1, <1>8 DEF Worsts, Joined

LEMMA WorstNotNone ==
  ASSUME NEW as, None \notin as
  PROVE  Worst(as) # None
<1>1. CASE as \ {Full} = {} BY <1>1, WorstFacts, NonIsNotFull
<1>2. CASE as \ {Full} # {}
  <2>1. PICK a \in as \ {Full} : TRUE BY <1>2
  <2>2. CASE as \ {Full} = {a} BY <2>1, <2>2, WorstFacts
  <2>3. CASE as \ {Full} # {a}
    <3>1. PICK b \in as \ {Full} : b # a BY <2>1, <2>3
    <3> QED BY <2>1, <3>1, WorstFacts, NonIsNotFull
  <2> QED BY <2>2, <2>3
<1> QED BY <1>1, <1>2

(* The names below a metric: the least set that has its references and     *)
(* those of the metrics in the set.                                        *)
LEMMA BelowOpens ==
  ASSUME NEW e, NEW x, NEW C \in Nat, C = Cardinality(DOMAIN e.metrics)
  PROVE  \E f : /\ Below(e, x) = f[C]
                /\ Opens(f, RatedRefs(e.metrics[x]), Derivative(e),
                         [y \in Derivative(e) |-> RatedRefs(e.metrics[y])], C)
<1> DEFINE X == Derivative(e)
           R == RatedRefs(e.metrics[x])
           g == [y \in X |-> RatedRefs(e.metrics[y])]
           step(s) == s \union UNION {RatedRefs(e.metrics[y]) : y \in s \intersect X}
           Reach(f) == f = [i \in 0 .. C |-> IF i = 0 THEN R ELSE step(f[i - 1])]
<1>1. ASSUME NEW t PROVE step(t) = t \union UNION {g[y] : y \in t \intersect X} OBVIOUS
<1>2. Below(e, x) = (CHOOSE h : Reach(h))[C] BY DEF Below
<1> HIDE DEF g, step, X, R
<1>3. PICK f : f = [i \in 0 .. C |-> f[i]] /\ Opens(f, R, X, g, C) BY OpensExists
<1>4. ASSUME NEW i \in 0 .. C PROVE f[i] = IF i = 0 THEN R ELSE step(f[i - 1])
  <2>1. CASE i = 0 BY <1>3, <2>1 DEF Opens
  <2>2. CASE i \in 1 .. C
    <3>1. f[i] = f[i - 1] \union UNION {g[y] : y \in f[i - 1] \intersect X} BY <1>3, <2>2 DEF Opens
    <3> QED BY <1>1, <2>2, <3>1
  <2> QED BY <2>1, <2>2
<1>5. Reach(f) BY <1>3, <1>4
<1>6. PICK h : Reach(h) /\ Below(e, x) = h[C]
  <2> HIDE DEF Reach
  <2> QED BY <1>2, <1>5
<1>7. \A i \in 0 .. C : h[i] = IF i = 0 THEN R ELSE step(h[i - 1]) BY <1>6
<1>8. Opens(h, R, X, g, C)
  <2>1. h[0] = R BY <1>7
  <2>2. ASSUME NEW i \in 1 .. C PROVE h[i] = h[i - 1] \union UNION {g[y] : y \in h[i - 1] \intersect X}
    <3>1. i \in 0 .. C /\ i # 0 OBVIOUS
    <3>2. h[i] = step(h[i - 1]) BY <1>7, <3>1
    <3> QED BY <1>1, <3>2
  <2> QED BY <2>1, <2>2 DEF Opens
<1> QED BY <1>6, <1>8 DEF X, g, R

LEMMA BelowFacts ==
  ASSUME NEW e, IsFiniteSet(DOMAIN e.metrics), NEW x
  PROVE  /\ RatedRefs(e.metrics[x]) \subseteq Below(e, x)
         /\ \A y \in Below(e, x) \intersect Derivative(e) : RatedRefs(e.metrics[y]) \subseteq Below(e, x)
         /\ \A S : RatedRefs(e.metrics[x]) \subseteq S
                     /\ (\A y \in S \intersect Derivative(e) : RatedRefs(e.metrics[y]) \subseteq S)
                   => Below(e, x) \subseteq S
<1> DEFINE C == Cardinality(DOMAIN e.metrics)
           X == Derivative(e)
           R == RatedRefs(e.metrics[x])
           g == [y \in X |-> RatedRefs(e.metrics[y])]
<1>1. C \in Nat BY FS_CardinalityType
<1>2. PICK f : Below(e, x) = f[C] /\ Opens(f, R, X, g, C)
  <2> HIDE DEF C
  <2>1. C = Cardinality(DOMAIN e.metrics) BY DEF C
  <2> QED BY <1>1, <2>1, BelowOpens
<1>3. X \in SUBSET DOMAIN e.metrics BY DEF Derivative
<1>4. IsFiniteSet(X) /\ Cardinality(X) <= C
  <2> HIDE DEF X
  <2> QED BY <1>3, FS_Subset
<1>5. \A y \in X : g[y] = RatedRefs(e.metrics[y]) OBVIOUS
<1> HIDE DEF C, g, X, R
<1>6. R \subseteq f[C] /\ \A y \in f[C] \intersect X : g[y] \subseteq f[C] BY <1>1, <1>2, <1>4, OpensClosed
<1>7. ASSUME NEW S, R \subseteq S, \A y \in S \intersect X : RatedRefs(e.metrics[y]) \subseteq S
      PROVE  f[C] \subseteq S
  <2>1. \A y \in S \intersect X : g[y] \subseteq S BY <1>5, <1>7
  <2> QED BY <1>1, <1>2, <1>7, <2>1, OpensLeast
<1>8. \A y \in f[C] \intersect X : RatedRefs(e.metrics[y]) \subseteq f[C] BY <1>5, <1>6
<1> QED BY <1>2, <1>6, <1>7, <1>8 DEF X, R

LEMMA BelowSplits ==
  ASSUME NEW e, IsFiniteSet(DOMAIN e.metrics), NEW x
  PROVE  /\ \A y \in Below(e, x) \intersect Derivative(e) : Below(e, y) \subseteq Below(e, x)
         /\ Below(e, x) = RatedRefs(e.metrics[x])
              \union UNION {Below(e, y) : y \in RatedRefs(e.metrics[x]) \intersect Derivative(e)}
<1> DEFINE R == RatedRefs(e.metrics[x])
           S == R \union UNION {Below(e, y) : y \in R \intersect Derivative(e)}
<1>1. ASSUME NEW y \in Below(e, x) \intersect Derivative(e) PROVE Below(e, y) \subseteq Below(e, x)
  <2>1. RatedRefs(e.metrics[y]) \subseteq Below(e, x) BY BelowFacts
  <2>2. \A z \in Below(e, x) \intersect Derivative(e) : RatedRefs(e.metrics[z]) \subseteq Below(e, x)
    BY BelowFacts
  <2> QED BY <2>1, <2>2, BelowFacts
<1>2. R \subseteq Below(e, x) BY BelowFacts
<1>3. S \subseteq Below(e, x) BY <1>1, <1>2
<1>4. ASSUME NEW z \in S \intersect Derivative(e) PROVE RatedRefs(e.metrics[z]) \subseteq S
  <2>1. CASE z \in R
    <3>1. RatedRefs(e.metrics[z]) \subseteq Below(e, z) BY BelowFacts
    <3> QED BY <1>4, <2>1, <3>1
  <2>2. CASE z \notin R
    <3>1. PICK y \in R \intersect Derivative(e) : z \in Below(e, y) BY <1>4, <2>2
    <3>2. RatedRefs(e.metrics[z]) \subseteq Below(e, y) BY <1>4, <3>1, BelowFacts
    <3> QED BY <3>1, <3>2
  <2> QED BY <2>1, <2>2
<1>5. R \subseteq S OBVIOUS
<1> HIDE DEF S
<1>6. Below(e, x) \subseteq S BY <1>4, <1>5, BelowFacts
<1>7. Below(e, x) = S BY <1>3, <1>6
<1> QED BY <1>1, <1>7 DEF S

(* What the additivity of a metric is computed from: the names seen from   *)
(* its references through the metrics that have none.                      *)
Unranked(k, metrics) == {y \in DOMAIN metrics \ DOMAIN k.measures : metrics[y].additivity = None}

Seen(k, metrics, refs, seen) ==
  /\ refs \subseteq seen
  /\ \A S : refs \subseteq S
              /\ (\A y \in S \intersect Unranked(k, metrics) : RatedRefs(metrics[y]) \subseteq S)
            => seen \subseteq S
  /\ LeafAdditivity(k, metrics, refs) =
       {CompiledMeasures(k)[y].additivity : y \in seen \intersect DOMAIN k.measures}
         \union ({metrics[y].additivity : y \in (seen \intersect DOMAIN metrics) \ DOMAIN k.measures} \ {None})

LEMMA LeafSeen ==
  ASSUME NEW k, NEW metrics, IsFiniteSet(DOMAIN metrics), NEW refs
  PROVE  \E seen : Seen(k, metrics, refs, seen)
<1> DEFINE C == Cardinality(DOMAIN metrics)
           X == Unranked(k, metrics)
           g == [y \in X |-> RatedRefs(metrics[y])]
           more(s) == {RatedRefs(metrics[y]) :
                         y \in {z \in (s \intersect DOMAIN metrics) \ DOMAIN k.measures : metrics[z].additivity = None}}
           step(s) == s \union UNION more(s)
           Reach(f) == f = [i \in 0 .. C |-> IF i = 0 THEN refs ELSE step(f[i - 1])]
           leaves(s) == {CompiledMeasures(k)[y].additivity : y \in s \intersect DOMAIN k.measures}
                          \union ({metrics[y].additivity : y \in (s \intersect DOMAIN metrics) \ DOMAIN k.measures} \ {None})
<1>0. C \in Nat BY FS_CardinalityType
<1>1. ASSUME NEW t PROVE step(t) = t \union UNION {g[y] : y \in t \intersect X}
  <2>1. {z \in (t \intersect DOMAIN metrics) \ DOMAIN k.measures : metrics[z].additivity = None} = t \intersect X
    BY DEF Unranked
  <2>2. more(t) = {RatedRefs(metrics[y]) : y \in t \intersect X} BY <2>1
  <2>3. \A y \in t \intersect X : g[y] = RatedRefs(metrics[y]) OBVIOUS
  <2>4. more(t) = {g[y] : y \in t \intersect X}
    <3> HIDE DEF more, g, X
    <3> QED BY <2>2, <2>3
  <2> HIDE DEF more, g, X
  <2> QED BY <2>4
<1>2. LeafAdditivity(k, metrics, refs) = leaves((CHOOSE h : Reach(h))[C]) BY DEF LeafAdditivity
<1>3. \A y \in X : g[y] \subseteq RatedRefs(metrics[y]) OBVIOUS
<1> HIDE DEF g, step, X, C, leaves
<1>4. PICK f : f = [i \in 0 .. C |-> f[i]] /\ Opens(f, refs, X, g, C) BY <1>0, OpensExists
<1>5. ASSUME NEW i \in 0 .. C PROVE f[i] = IF i = 0 THEN refs ELSE step(f[i - 1])
  <2>1. CASE i = 0 BY <1>4, <2>1 DEF Opens
  <2>2. CASE i \in 1 .. C
    <3>1. f[i] = f[i - 1] \union UNION {g[y] : y \in f[i - 1] \intersect X} BY <1>4, <2>2 DEF Opens
    <3> QED BY <1>1, <2>2, <3>1
  <2> QED BY <1>0, <2>1, <2>2
<1>6. Reach(f) BY <1>4, <1>5
<1>7. PICK h : Reach(h) /\ LeafAdditivity(k, metrics, refs) = leaves(h[C])
  <2> HIDE DEF Reach
  <2> QED BY <1>2, <1>6
<1>8. \A i \in 0 .. C : h[i] = IF i = 0 THEN refs ELSE step(h[i - 1]) BY <1>7
<1>9. Opens(h, refs, X, g, C)
  <2>1. h[0] = refs BY <1>0, <1>8
  <2>2. ASSUME NEW i \in 1 .. C PROVE h[i] = h[i - 1] \union UNION {g[y] : y \in h[i - 1] \intersect X}
    <3>1. i \in 0 .. C /\ i # 0 BY <1>0
    <3>2. h[i] = step(h[i - 1]) BY <1>8, <3>1
    <3> QED BY <1>1, <3>2
  <2> QED BY <2>1, <2>2 DEF Opens
<1>10. ASSUME NEW S, refs \subseteq S, \A y \in S \intersect X : RatedRefs(metrics[y]) \subseteq S
       PROVE  h[C] \subseteq S
  <2>1. \A y \in S \intersect X : g[y] \subseteq S BY <1>3, <1>10
  <2> QED BY <1>0, <1>9, <1>10, <2>1, OpensLeast
<1>11. refs \subseteq h[C] BY <1>0, <1>9, OpensStart
<1>12. Seen(k, metrics, refs, h[C]) BY <1>7, <1>10, <1>11 DEF Seen, X, leaves
<1> QED BY <1>12

(* So are the values of a function on a finite set.                        *)
LEMMA ValuesFinite ==
  ASSUME NEW S, IsFiniteSet(S), NEW h, NEW V, \A v \in V : \E y \in S : v = h[y]
  PROVE  IsFiniteSet(V)
<1> DEFINE W == {h[y] : y \in S}
           g == [y \in S |-> h[y]]
<1>1. g \in Surjection(S, W) BY DEF Surjection
<1>2. IsFiniteSet(W)
  <2> HIDE DEF g, W
  <2> QED BY <1>1, FS_Surjection
<1>3. V \in SUBSET W OBVIOUS
<1> HIDE DEF W
<1> QED BY <1>2, <1>3, FS_Subset

(* Foreseen, said of a kind instead of its name.                           *)
Plain(k, e, x) ==
  \A y \in {x} \union (Below(e, x) \intersect Derivative(e)) :
    /\ k.metrics[y].additivity = None
    /\ \A z \in RatedRefs(e.metrics[y]) \intersect Derivative(e) : Position(z) < Position(y)

Rated(e, x) ==
  e.metrics[x].additivity = IF LeafAdditivities(e, x) = {} THEN None ELSE Worst(LeafAdditivities(e, x))

LEMMA PlainBelow ==
  ASSUME NEW k, NEW e, IsFiniteSet(DOMAIN e.metrics), NEW x, Plain(k, e, x),
         NEW y \in Below(e, x) \intersect Derivative(e)
  PROVE  Plain(k, e, y)
<1>1. Below(e, y) \subseteq Below(e, x) BY BelowSplits
<1> QED BY <1>1 DEF Plain

(* What is below a metric: what it refers to, and what is below the        *)
(* metrics among these.                                                    *)
LEMMA LeavesSplit ==
  ASSUME NEW e, IsFiniteSet(DOMAIN e.metrics), NEW x, NEW R, R = RatedRefs(e.metrics[x]),
         NEW g, \A y \in R \intersect Derivative(e) : g[y] = LeafAdditivities(e, y)
  PROVE  LeafAdditivities(e, x) =
           {e.measures[y].additivity : y \in R \intersect DOMAIN e.measures}
             \union UNION {g[y] : y \in R \intersect Derivative(e)}
<1> DEFINE P == R \intersect Derivative(e)
<1>1. Below(e, x) = R \union UNION {Below(e, y) : y \in P} BY BelowSplits
<1> HIDE DEF P
<1>2. LeafAdditivities(e, x) =
        {e.measures[y].additivity : y \in R \intersect DOMAIN e.measures}
          \union UNION {LeafAdditivities(e, y) : y \in P}
  BY <1>1 DEF LeafAdditivities
<1>3. {LeafAdditivities(e, y) : y \in P} = {g[y] : y \in P} BY DEF P
<1> QED BY <1>2, <1>3 DEF P

(* A metric is rated when the plain metrics before it are.                 *)
LEMMA RatedStep ==
  ASSUME NEW k, NEW ds, NEW e, e.metrics = CompiledMetrics(k, ds), e.measures = CompiledMeasures(k),
         IsFiniteSet(DOMAIN k.measures), \A y \in DOMAIN e.measures : e.measures[y].additivity # None,
         NEW x \in DOMAIN e.metrics, Plain(k, e, x),
         \A y \in DOMAIN e.metrics : Plain(k, e, y) /\ Position(y) < Position(x) => Rated(e, y)
  PROVE  Rated(e, x)
<1> DEFINE L == Len(NameOrder)
           M == e.metrics
           D == Derivative(e)
           p == Position(x)
           R == RatedRefs(M[x])
           P == R \intersect D
           g == [y \in P |-> LeafAdditivities(e, y)]
<1>1. PICK f : M = f[L] /\ Grows(k, ds, f, L) BY CompiledRounds
<1>2. L \in Nat /\ L \in 0 .. L BY ModelsAssumption
<1>3. \A y \in DOMAIN M : /\ y \in DOMAIN k.metrics /\ y \in Range(NameOrder) /\ Position(y) \in 1 .. L
                          /\ M[y] = MetricOf(k, ds, f[Position(y) - 1], y)
  <2> HIDE DEF M
  <2> QED BY <1>1, <1>2, CompiledMetricsFacts
<1>4. IsFiniteSet(DOMAIN M)
  <2>1. DOMAIN M \in SUBSET Range(NameOrder) BY <1>3
  <2> QED BY <2>1, NamesFinite, FS_Subset
<1> DEFINE F == f[p - 1]
<1>5. p - 1 \in 0 .. L /\ p \in Nat BY <1>2, <1>3
<1>6. \A z : /\ z \in DOMAIN F <=> z \in DOMAIN M /\ Position(z) <= p - 1
             /\ z \in DOMAIN F => F[z] = M[z]
  <2> HIDE DEF M
  <2> QED BY <1>1, <1>2, <1>5, CompiledMetricsFacts
<1>7. D = DOMAIN M \ DOMAIN k.measures /\ DOMAIN e.measures = DOMAIN k.measures
  BY DEF Derivative, CompiledMeasures
<1>8. k.metrics[x].additivity = None /\ \A z \in P : Position(z) < p BY DEF Plain
<1>9. /\ R = RatedRefs(k.metrics[x])
      /\ M[x].additivity = LET leaves == LeafAdditivity(k, F, RatedRefs(k.metrics[x]))
                           IN  IF leaves = {} THEN None ELSE WorstCaseAdditivity(leaves)
  <2> DEFINE t == k.metrics[x]
             leaves == LeafAdditivity(k, F, RatedRefs(t))
             d == IF x \in DOMAIN ds THEN ds[x] ELSE 0
  <2>1. M[x] = CompiledMetric(k, F, t, d) BY <1>3 DEF MetricOf
  <2>2. CompiledMetric(k, F, t, d) =
          [refs |-> t.refs, inline |-> t.inline, depth |-> d,
           dtype |-> MetricDataType(k, F, t),
           additivity |-> IF t.additivity # None THEN t.additivity
                          ELSE IF leaves = {} THEN None ELSE WorstCaseAdditivity(leaves)]
    BY DEF CompiledMetric
  <2>3. t.additivity = None BY <1>8
  <2> HIDE DEF leaves, t, d, F
  <2>4. /\ M[x].refs = t.refs
        /\ M[x].additivity = IF leaves = {} THEN None ELSE WorstCaseAdditivity(leaves)
    BY <2>1, <2>2, <2>3
  <2>5. R = RatedRefs(t) BY <2>4 DEF RatedRefs
  <2> QED BY <2>4, <2>5 DEF leaves, t
<1> DEFINE V == LeafAdditivity(k, F, R)
<1>10. M[x].additivity = IF V = {} THEN None ELSE WorstCaseAdditivity(V) BY <1>9
<1>11. R \subseteq Below(e, x) BY <1>4, BelowFacts
<1>12. ASSUME NEW y \in DOMAIN F, y \in Below(e, x) \intersect D PROVE Rated(e, y) /\ F[y] = M[y]
  <2>1. Plain(k, e, y) BY <1>4, <1>12, PlainBelow
  <2>2. y \in DOMAIN M /\ Position(y) \in 1 .. L /\ Position(y) <= p - 1 BY <1>3, <1>6
  <2>3. Position(y) < p BY <1>5, <2>2
  <2> QED BY <1>6, <2>1, <2>2, <2>3
<1>13. ASSUME NEW y \in P PROVE y \in DOMAIN F
  <2>1. y \in DOMAIN M /\ Position(y) \in 1 .. L /\ Position(y) < p BY <1>3, <1>7, <1>8
  <2>2. Position(y) <= p - 1 BY <1>5, <2>1
  <2> QED BY <1>6, <2>1, <2>2
<1>14. \A y : None \notin LeafAdditivities(e, y) BY DEF LeafAdditivities
<1>15. ASSUME NEW y, Rated(e, y)
       PROVE  /\ M[y].additivity = None <=> LeafAdditivities(e, y) = {}
              /\ LeafAdditivities(e, y) # {} => M[y].additivity = Worst(LeafAdditivities(e, y))
  <2>1. Worst(LeafAdditivities(e, y)) # None BY <1>14, WorstNotNone
  <2> QED BY <1>15, <2>1 DEF Rated
<1> DEFINE Q == {y \in P : LeafAdditivities(e, y) = {}}
           S == R \union UNION {Below(e, y) : y \in Q}
<1>16. IsFiniteSet(DOMAIN F)
  <2>1. DOMAIN F \in SUBSET DOMAIN M BY <1>6
  <2> QED BY <1>4, <2>1, FS_Subset
<1>17. PICK seen :
         /\ R \subseteq seen
         /\ \A T : R \subseteq T
                     /\ (\A y \in T \intersect Unranked(k, F) : RatedRefs(F[y]) \subseteq T)
                   => seen \subseteq T
         /\ V = {CompiledMeasures(k)[y].additivity : y \in seen \intersect DOMAIN k.measures}
                  \union ({F[y].additivity : y \in (seen \intersect DOMAIN F) \ DOMAIN k.measures} \ {None})
  <2> HIDE DEF F, R
  <2>1. PICK seen : Seen(k, F, R, seen) BY <1>16, LeafSeen
  <2> QED BY <2>1 DEF Seen
<1> HIDE DEF V
<1>18. ASSUME NEW z \in S \intersect Unranked(k, F) PROVE RatedRefs(F[z]) \subseteq S
  <2>1. z \in DOMAIN F /\ z \in D /\ F[z].additivity = None /\ F[z] = M[z] BY <1>6, <1>7 DEF Unranked
  <2>2. CASE z \in R
    <3>1. Rated(e, z) BY <1>11, <1>12, <2>1, <2>2
    <3>2. z \in Q BY <1>15, <2>1, <2>2, <3>1
    <3>3. RatedRefs(M[z]) \subseteq Below(e, z) BY <1>4, BelowFacts
    <3> QED BY <2>1, <3>2, <3>3
  <2>3. CASE z \notin R
    <3>1. PICK y \in Q : z \in Below(e, y) BY <2>3
    <3>2. RatedRefs(M[z]) \subseteq Below(e, y) BY <1>4, <2>1, <3>1, BelowFacts
    <3> QED BY <2>1, <3>1, <3>2
  <2> QED BY <2>2, <2>3
<1>19. seen \subseteq S
  <2>1. R \subseteq S OBVIOUS
  <2> HIDE DEF S
  <2> QED BY <1>17, <1>18, <2>1
<1> DEFINE A == {e.measures[y].additivity : y \in R \intersect DOMAIN e.measures}
           B == {Worst(g[y]) : y \in {z \in P : g[z] # {}}}
           W == LeafAdditivities(e, x)
<1>20. \A y \in P : g[y] = LeafAdditivities(e, y) OBVIOUS
<1>21. ASSUME NEW y \in P
       PROVE  /\ g[y] = {} <=> F[y].additivity = None
              /\ g[y] # {} => F[y].additivity = Worst(g[y])
  <2>1. y \in DOMAIN F /\ y \in Below(e, x) \intersect D BY <1>11, <1>13
  <2>2. Rated(e, y) /\ F[y] = M[y] BY <1>12, <2>1
  <2> QED BY <1>15, <1>20, <2>2
<1> HIDE DEF g
<1>22. A \union B \subseteq V
  <2>1. A \subseteq V BY <1>7, <1>17
  <2>2. ASSUME NEW y \in P, g[y] # {} PROVE Worst(g[y]) \in V
    <3>1. y \in (seen \intersect DOMAIN F) \ DOMAIN k.measures BY <1>7, <1>13, <1>17
    <3>2. F[y].additivity = Worst(g[y]) /\ F[y].additivity # None BY <1>21, <2>2
    <3> QED BY <1>17, <3>1, <3>2
  <2> QED BY <2>1, <2>2
<1>23. ASSUME NEW y \in seen \intersect DOMAIN k.measures PROVE e.measures[y].additivity \in A
  <2>1. y \in R
    <3> SUFFICES ASSUME y \notin R PROVE FALSE
      OBVIOUS
    <3>1. PICK z \in Q : y \in Below(e, z) BY <1>19
    <3>2. e.measures[y].additivity \in LeafAdditivities(e, z) BY <1>7, <3>1 DEF LeafAdditivities
    <3> QED BY <3>1, <3>2
  <2> QED BY <1>7, <2>1
<1>24. ASSUME NEW y \in (seen \intersect DOMAIN F) \ DOMAIN k.measures, F[y].additivity # None
       PROVE  F[y].additivity \in B
  <2>1. y \in D BY <1>6, <1>7
  <2>2. y \in R
    <3> SUFFICES ASSUME y \notin R PROVE FALSE
      OBVIOUS
    <3>1. PICK z \in Q : y \in Below(e, z) BY <1>19
    <3>2. z \in Below(e, x) \intersect D BY <1>11
    <3>3. y \in Below(e, x) BY <1>4, <3>1, <3>2, BelowSplits
    <3>4. Rated(e, y) /\ F[y] = M[y] BY <1>12, <2>1, <3>3
    <3>5. Below(e, y) \subseteq Below(e, z) BY <1>4, <2>1, <3>1, BelowSplits
    <3>6. LeafAdditivities(e, y) \subseteq LeafAdditivities(e, z) BY <3>5 DEF LeafAdditivities
    <3>7. LeafAdditivities(e, y) = {} BY <3>1, <3>6
    <3> QED BY <1>15, <1>24, <3>4, <3>7
  <2>3. y \in P BY <2>1, <2>2
  <2> QED BY <1>21, <1>24, <2>3
<1>25. V \subseteq A \union B
  <2> HIDE DEF A, B
  <2> QED BY <1>17, <1>23, <1>24
<1>26. V = A \union B
  <2> HIDE DEF A, B
  <2> QED BY <1>22, <1>25
<1>27. W = A \union UNION {g[y] : y \in P}
  <2> HIDE DEF P
  <2>1. P = R \intersect Derivative(e) BY DEF P
  <2> QED BY <1>4, <1>20, <2>1, LeavesSplit
<1>28. (V = {} <=> W = {}) /\ Worst(V) = Worst(W)
  <2> HIDE DEF A, P, W
  <2>1. V = Worsts(A, P, g) BY <1>26 DEF Worsts
  <2>2. W = Joined(A, P, g) BY <1>27 DEF Joined
  <2> QED BY <2>1, <2>2, WorstOfUnion
<1>29. IsFiniteSet(V)
  <2> DEFINE hA == [y \in DOMAIN e.measures |-> e.measures[y].additivity]
             hB == [y \in DOMAIN M |-> Worst(g[y])]
  <2>1. \A v \in A : \E y \in DOMAIN e.measures : v = hA[y] OBVIOUS
  <2>2. \A v \in B : \E y \in DOMAIN M : v = hB[y] BY <1>7
  <2>3. IsFiniteSet(A)
    <3> HIDE DEF A, hA
    <3> QED BY <1>7, <2>1, ValuesFinite
  <2>4. IsFiniteSet(B)
    <3> HIDE DEF B, hB
    <3> QED BY <1>4, <2>2, ValuesFinite
  <2> HIDE DEF A, B
  <2> QED BY <1>26, <2>3, <2>4, FS_Union
<1>30. WorstCaseAdditivity(V) = Worst(V) BY <1>29, WorstFolds
<1>31. M[x].additivity = IF W = {} THEN None ELSE Worst(W) BY <1>10, <1>28, <1>30
<1> QED BY <1>31 DEF Rated

(* The additivity that a metric of a foreseen shape is compiled to is the  *)
(* worst of those of the measures that the walk comes to, under binary     *)
(* operators and CASE, whatever metrics lie between: compile_metrics takes *)
(* a metric with an additivity for its own leaves and walks the one that   *)
(* has none.                                                               *)
THEOREM AdditivityIsOfLeaves == Spec => []AdditivityOfLeaves
<1>1. PipelineInv /\ Ranked => AdditivityOfLeaves
  <2> SUFFICES ASSUME PipelineInv, Ranked, stage = "done", NEW n \in DOMAIN source
               PROVE  LET e == manifest.kinds[n] IN
                      \A x \in DOMAIN e.metrics : Foreseen(n, e, x) => Rated(e, x)
    BY DEF AdditivityOfLeaves, Done, Rated
  <2> DEFINE e == manifest.kinds[n]
             k == model[n]
             Wrong == {x \in DOMAIN e.metrics : Plain(k, e, x) /\ ~Rated(e, x)}
             places == {Position(x) : x \in Wrong}
  <2>1. /\ IsKind(source[n]) /\ k.metrics = source[n].metrics /\ k.measures = source[n].measures
        /\ e.measures = CompiledMeasures(k) /\ e.metrics = CompiledMetrics(k, depths)
        /\ DOMAIN e.metrics = DOMAIN source[n].metrics
    BY CompiledFields
  <2>2. DOMAIN e.metrics \subseteq Range(NameOrder) /\ DOMAIN k.measures \subseteq Range(NameOrder)
    BY <2>1 DEF IsKind
  <2>3. IsFiniteSet(DOMAIN k.measures)
    <3>1. DOMAIN k.measures \in SUBSET Range(NameOrder) BY <2>2
    <3> QED BY <3>1, NamesFinite, FS_Subset
  <2>4. \A y \in DOMAIN e.measures : e.measures[y].additivity # None
    BY <2>1, NonIsNotFull DEF CompiledMeasures, DeriveAdditivity
  <2>5. \A x \in DOMAIN e.metrics : Position(x) \in Nat BY <2>2, PositionFacts
  <2>6. \A x \in DOMAIN e.metrics : Foreseen(n, e, x) <=> Plain(k, e, x)
    BY <2>1 DEF Foreseen, Plain
  <2> HIDE DEF e, k
  <2>7. Wrong = {}
    <3> SUFFICES ASSUME Wrong # {} PROVE FALSE
      OBVIOUS
    <3>1. places \subseteq Nat /\ places # {} BY <2>5
    <3>2. PICK i \in places : \A j \in places : i <= j
      <4> HIDE DEF places
      <4> QED BY <3>1, LeastNat
    <3>3. PICK x \in Wrong : i = Position(x) BY <3>2
    <3>4. ASSUME NEW y \in DOMAIN e.metrics, Plain(k, e, y), Position(y) < Position(x) PROVE Rated(e, y)
      <4> SUFFICES ASSUME ~Rated(e, y) PROVE FALSE
        OBVIOUS
      <4>1. y \in Wrong BY <3>4
      <4>2. Position(x) <= Position(y) /\ Position(x) \in Nat /\ Position(y) \in Nat BY <2>5, <3>2, <3>3, <4>1
      <4> QED BY <3>4, <4>2
    <3>5. x \in DOMAIN e.metrics /\ Plain(k, e, x) /\ ~Rated(e, x) BY <3>3
    <3>6. Rated(e, x) BY <2>1, <2>3, <2>4, <3>4, <3>5, RatedStep
    <3> QED BY <3>5, <3>6
  <2> QED BY <2>6, <2>7 DEF e
<1> QED BY <1>1, PipelineInvariant, RankedHolds, PTL
=============================================================================
