--------------------------- MODULE RequestProofs ---------------------------
(***************************************************************************)
(* Theorems about the way of a request: the drift check (SchemaDrift), the *)
(* assignment of measures to grains (GrainsetPlan), the merging of partial *)
(* aggregates (LayeredPlan), and the constraints, the filters and the      *)
(* answer of a request (QueryEngine).                                      *)
(***************************************************************************)
EXTENDS LayeredPlan, QueryEngine, SchemaDrift, SequenceTheorems, FiniteSetTheorems, TLAPS

-----------------------------------------------------------------------------
(* The drift check.                                                        *)

States == {"same", "drifted", "unreachable"}

(* The inductive invariant: a table already asked for has a verdict that   *)
(* was true at some time, and the history holds the present state.         *)
DriftTypes ==
  /\ snapshot \in [Tables -> Schemas] /\ live \in [Tables -> Schemas]
  /\ reachable \in SUBSET Tables /\ seen \in [Tables -> SUBSET States]

Witnessed(t) ==
  IF t \in DOMAIN warnings THEN "drifted" \in seen[t]
  ELSE seen[t] \cap {"same", "unreachable"} # {}

DriftInv ==
  /\ DriftTypes
  /\ unchecked \cap DOMAIN warnings = {}
  /\ \A t \in Tables : Now(t) \subseteq seen[t]
  /\ \A t \in (Tables \ Qualified) \ unchecked : Witnessed(t)

(* The comparison column by column finds a difference exactly if there is  *)
(* one.                                                                    *)
LEMMA DiffsExact ==
  ASSUME NEW was \in Schemas, NEW is \in Schemas
  PROVE  Diffs(was, is) = {} <=> was = is
<1>1. PICK S \in SUBSET Columns : was \in [S -> ColumnInfo] BY DEF Schemas
<1>2. PICK T \in SUBSET Columns : is \in [T -> ColumnInfo] BY DEF Schemas
<1>3. ASSUME Diffs(was, is) = {} PROVE was = is
  <2>1. S = T
    <3>1. \A c \in S : c \in T
      <4> SUFFICES ASSUME NEW c \in S, c \notin T PROVE FALSE OBVIOUS
      <4>1. <<"removed", c>> \in Diffs(was, is) BY <1>1, <1>2 DEF Diffs
      <4> QED BY <1>3, <4>1
    <3>2. \A c \in T : c \in S
      <4> SUFFICES ASSUME NEW c \in T, c \notin S PROVE FALSE OBVIOUS
      <4>1. <<"added", c>> \in Diffs(was, is) BY <1>1, <1>2 DEF Diffs
      <4> QED BY <1>3, <4>1
    <3> QED BY <3>1, <3>2
  <2>2. \A c \in S : was[c] = is[c]
    <3> TAKE c \in S
    <3>1. was[c].type = is[c].type
      <4> SUFFICES ASSUME was[c].type # is[c].type PROVE FALSE OBVIOUS
      <4>1. <<"type", c>> \in Diffs(was, is) BY <1>1, <1>2, <2>1 DEF Diffs
      <4> QED BY <1>3, <4>1
    <3>2. was[c].nullable = is[c].nullable
      <4> SUFFICES ASSUME was[c].nullable # is[c].nullable PROVE FALSE OBVIOUS
      <4>1. <<"nullable", c>> \in Diffs(was, is) BY <1>1, <1>2, <2>1 DEF Diffs
      <4> QED BY <1>3, <4>1
    <3>3. was[c] \in ColumnInfo /\ is[c] \in ColumnInfo BY <1>1, <1>2, <2>1
    <3> QED BY <3>1, <3>2, <3>3 DEF ColumnInfo
  <2> QED BY <1>1, <1>2, <2>1, <2>2
<1>4. ASSUME was = is PROVE Diffs(was, is) = {}
  BY <1>4 DEF Diffs
<1> QED BY <1>3, <1>4

LEMMA NowInStates == \A t : Now(t) \subseteq States
  BY DEF Now, States

LEMMA DriftStart == DriftInit => DriftInv
<1> SUFFICES ASSUME DriftInit PROVE DriftInv OBVIOUS
<1>1. DriftTypes BY NowInStates DEF DriftInit, DriftTypes
<1>2. DOMAIN warnings = {} BY DEF DriftInit
<1>3. \A t \in Tables : Now(t) \subseteq seen[t] BY DEF DriftInit
<1>4. (Tables \ Qualified) \ unchecked = {} BY DEF DriftInit
<1> QED BY <1>1, <1>2, <1>3, <1>4 DEF DriftInv

LEMMA DriftStep == DriftInv /\ [DriftNext]_dvars => DriftInv'
<1> SUFFICES ASSUME DriftInv, [DriftNext]_dvars PROVE DriftInv' OBVIOUS
<1> USE DEF DriftInv
<1>1. ASSUME NEW t \in Tables, CheckTable(t) PROVE DriftInv'
  <2> DEFINE d == Diffs(snapshot[t], live[t])
  <2>1. /\ unchecked' = unchecked \ {t} /\ t \in unchecked
        /\ UNCHANGED <<snapshot, live, reachable, seen>>
    BY <1>1 DEF CheckTable
  <2>2. DriftTypes' /\ \A u \in Tables : Now(u)' \subseteq seen'[u]
    BY <2>1 DEF DriftTypes, Now
  <2>3. CASE Found(t) /\ d # {}
    <3>1. /\ DOMAIN warnings' = DOMAIN warnings \cup {t}
      BY <1>1, <2>3 DEF CheckTable
    <3>2. "drifted" \in seen[t]
      <4>1. snapshot[t] \in Schemas /\ live[t] \in Schemas BY DEF DriftTypes
      <4>2. live[t] # snapshot[t] BY <2>3, <4>1, DiffsExact
      <4> QED BY <4>2 DEF Now
    <3>3. \A u \in (Tables \ Qualified) \ unchecked' : Witnessed(u)'
      BY <2>1, <3>1, <3>2 DEF Witnessed
    <3> QED BY <2>1, <2>2, <3>1, <3>3
  <2>4. CASE ~(Found(t) /\ d # {})
    <3>1. warnings' = warnings BY <1>1, <2>4 DEF CheckTable
    <3>2. t \notin DOMAIN warnings BY <2>1
    <3>3. t \notin Qualified => seen[t] \cap {"same", "unreachable"} # {}
      <4>1. snapshot[t] \in Schemas /\ live[t] \in Schemas BY DEF DriftTypes
      <4>2. CASE d = {}
        <5>1. live[t] = snapshot[t] BY <4>1, <4>2, DiffsExact
        <5> QED BY <5>1 DEF Now
      <4>3. CASE ~Found(t)
        BY <4>3 DEF Found, Now
      <4> QED BY <2>4, <4>2, <4>3
    <3>4. \A u \in (Tables \ Qualified) \ unchecked' : Witnessed(u)'
      BY <2>1, <3>1, <3>2, <3>3 DEF Witnessed
    <3> QED BY <2>1, <2>2, <3>1, <3>4
  <2> QED BY <2>3, <2>4
<1>2. ASSUME NEW t \in Tables, NEW s \in Schemas, NEW reach \in SUBSET Tables, Alter(t, s, reach)
      PROVE  DriftInv'
  <2>1. UNCHANGED <<snapshot, unchecked, warnings>> BY <1>2 DEF Alter
  <2>2. seen' = [u \in Tables |-> seen[u] \cup Now(u)'] BY <1>2 DEF Alter
  <2>3. \A u \in Tables : Now(u)' \subseteq States BY DEF Now, States
  <2>4. seen' \in [Tables -> SUBSET States] BY <2>2, <2>3 DEF DriftTypes
  <2>5. live' \in [Tables -> Schemas] BY <1>2 DEF Alter, DriftTypes
  <2>6. DriftTypes' BY <1>2, <2>1, <2>4, <2>5 DEF Alter, DriftTypes
  <2>7. \A u \in Tables : Now(u)' \subseteq seen'[u] /\ seen[u] \subseteq seen'[u] BY <2>2
  <2>8. \A u \in (Tables \ Qualified) \ unchecked' : Witnessed(u)'
    BY <2>1, <2>7 DEF Witnessed
  <2> QED BY <2>1, <2>6, <2>7, <2>8
<1>3. CASE UNCHANGED dvars
  BY <1>3 DEF dvars, DriftTypes, Now, Witnessed
<1> QED BY <1>1, <1>2, <1>3 DEF DriftNext

(* Whatever tables there are and however often others alter them while     *)
(* check_schema_drift runs, its warnings, and its silence, are about a     *)
(* state the table was in during the check.                                *)
THEOREM DriftVerdicts == DriftSpec => []DriftReported
<1>1. DriftInv => DriftReported BY DEF DriftInv, DriftReported, Witnessed
<1> QED BY <1>1, DriftStart, DriftStep, PTL DEF DriftSpec

-----------------------------------------------------------------------------
(* The grainset.                                                           *)

EligibleSet == {b \in DOMAIN gq.bindings : ~TooCoarse(b) /\ CoversAny(b)}

(* The groups are the native grains of the datasets that are left.         *)
GroupsExact == {groups[i] : i \in DOMAIN groups} = {Native(b) : b \in eligible}

(* A measure was given to a grain at which some dataset has it, and what   *)
(* has had its turn has its parts given.                                   *)
GivenMapped ==
  \A n \in DOMAIN mtg : \E b \in eligible : Native(b) = mtg[n] /\ n \in Maps(b)

TurnsTaken ==
  /\ todo \subseteq DOMAIN gq.measures
  /\ \A p \in DOMAIN gq.measures \ todo : Parts(gq.measures[p]) \subseteq DOMAIN mtg

PlanBuilt ==
  /\ todo = {}
  /\ gplan = IF \E b \in WithMeasures : WithMeasures = {b} /\ CoversMeasures(b) /\ CoversDims(b)
               THEN BuildSingleDatasetPlan ELSE BuildUnionPlan

GInv ==
  /\ gpc \in {"idle", "prune", "group", "assign", "built", "refused"}
  /\ gpc # "idle" => IsQuery(gq)
  /\ gpc \in {"idle", "prune", "group"} => mtg = <<>>
  /\ gpc \in {"group", "assign", "built"} => eligible = EligibleSet /\ eligible # {}
  /\ gpc \in {"assign", "built"} => GroupsExact /\ GivenMapped /\ TurnsTaken
  /\ gpc = "built" => PlanBuilt
  /\ GrainsetRefusalJustified

(* Without repetitions, a sequence as long as a finite set of values is    *)
(* large holds all of them.                                                *)
LEMMA SetToSeqsAll ==
  ASSUME NEW S, IsFiniteSet(S), NEW order \in SetToSeqs(S)
  PROVE  {order[i] : i \in DOMAIN order} = S
<1> DEFINE D == 1..Cardinality(S)
<1>1. order \in [D -> S] /\ \A i, j \in D : i # j => order[i] # order[j]
  BY DEF SetToSeqs
<1>2. order \in Injection(D, S) BY <1>1 DEF Injection, IsInjective
<1>3. Cardinality(S) \in Nat BY FS_CardinalityType
<1>4. Cardinality(D) = Cardinality(S)
  <2>1. PICK n \in Nat : n = Cardinality(S) BY <1>3
  <2>2. Cardinality(1..n) = n
    <3>1. 1 \in Int /\ n \in Int /\ (1 > n => n = 0) /\ n - 1 + 1 = n BY <2>1
    <3> QED BY <2>1, <3>1, FS_Interval
  <2> QED BY <2>1, <2>2
<1>5. order \in Surjection(D, S) BY <1>2, <1>4, FS_Injection
<1> QED BY <1>1, <1>5 DEF Surjection

LEMMA NativeIsGrain ==
  ASSUME IsQuery(gq), NEW b \in DOMAIN gq.bindings
  PROVE  Native(b) \in Grains \cup {NoGrain}
  BY DEF IsQuery, Native

LEMMA NativesFinite ==
  ASSUME IsQuery(gq), eligible \subseteq DOMAIN gq.bindings
  PROVE  IsFiniteSet({Native(b) : b \in eligible})
<1> DEFINE f == [b \in eligible |-> Native(b)]
           T == {Native(b) : b \in eligible}
<1>1. IsFiniteSet(eligible) BY FS_Subset DEF IsQuery
<1>2. f \in Surjection(eligible, T) BY DEF Surjection
<1> QED BY <1>1, <1>2, FS_Surjection

(* A dataset is usable exactly if it is not too coarse.                    *)
LEMMA UsableExact == \A b : Usable(b) <=> ~TooCoarse(b)
  BY DEF Usable, TooCoarse, Native

(* What a group maps is what the usable datasets of its grain have of the  *)
(* request.                                                                *)
LEMMA GroupCovers ==
  ASSUME eligible = EligibleSet, NEW g,
         NEW m \in ToSet(gq.measures),
         Parts(m) \subseteq UNION {Maps(b) : b \in {b \in DOMAIN gq.bindings : Usable(b) /\ Native(b) = g}}
  PROVE  Parts(m) \subseteq GroupMaps(g)
<1> SUFFICES ASSUME NEW n \in Parts(m) PROVE n \in GroupMaps(g) OBVIOUS
<1>1. PICK b \in DOMAIN gq.bindings : Usable(b) /\ Native(b) = g /\ n \in Maps(b) OBVIOUS
<1>2. CoversAny(b) BY <1>1 DEF CoversAny
<1>3. b \in eligible BY <1>1, <1>2, UsableExact DEF EligibleSet
<1> QED BY <1>1, <1>3 DEF GroupMaps, GroupOf

LEMMA GStart == Idle => GInv
  BY DEF Idle, GInv, GrainsetRefusalJustified

(* Nothing else but gpc and the plan changes in these steps.               *)
LEMMA GFrame ==
  ASSUME UNCHANGED <<gq, eligible, groups, mtg, todo>>
  PROVE  /\ EligibleSet' = EligibleSet /\ GroupsExact' = GroupsExact
         /\ GivenMapped' = GivenMapped /\ TurnsTaken' = TurnsTaken
         /\ IsQuery(gq)' = IsQuery(gq)
  BY DEF EligibleSet, GroupsExact, GivenMapped, TurnsTaken, TooCoarse, CoversAny, Native, Maps, Parts,
         RegularDims, IsQuery

LEMMA StepAssign ==
  ASSUME GInv, NEW p \in DOMAIN gq.measures, AssignToGroup(p)
  PROVE  GInv'
<1> DEFINE m == gq.measures[p]
<1>1. PICK i \in Candidates(m) : mtg' = Assigned(m, groups[i]) BY DEF AssignToGroup
<1>2. /\ todo' = todo \ {p} /\ UNCHANGED <<gq, eligible, groups, gplan, gpc>>
      /\ gpc = "assign"
  BY DEF AssignToGroup, Turn
<1>3. IsQuery(gq) /\ eligible = EligibleSet /\ eligible # {} /\ GroupsExact /\ GivenMapped /\ TurnsTaken
  BY <1>2 DEF GInv
<1>4. \A b, n : /\ Native(b)' = Native(b) /\ Maps(b)' = Maps(b) /\ Parts(n)' = Parts(n)
                /\ TooCoarse(b)' = TooCoarse(b) /\ CoversAny(b)' = CoversAny(b)
  BY <1>2 DEF Native, Maps, Parts, TooCoarse, CoversAny, RegularDims
<1>5. EligibleSet' = EligibleSet BY <1>2, <1>4 DEF EligibleSet
<1>6. GroupsExact' BY <1>2, <1>3, <1>4 DEF GroupsExact
<1>7. DOMAIN mtg' = DOMAIN mtg \cup Parts(m) BY <1>1 DEF Assigned
<1>8. GivenMapped'
  <2> SUFFICES ASSUME NEW n \in DOMAIN mtg'
               PROVE  \E b \in eligible : Native(b) = mtg'[n] /\ n \in Maps(b)
    BY <1>2, <1>4 DEF GivenMapped
  <2>1. CASE n \in Parts(m) /\ mtg'[n] = groups[i]
    <3>1. n \in GroupMaps(groups[i]) BY <2>1 DEF Candidates
    <3> QED BY <2>1, <3>1 DEF GroupMaps, GroupOf
  <2>2. CASE n \in DOMAIN mtg /\ mtg'[n] = mtg[n]
    BY <1>3, <2>2 DEF GivenMapped
  <2> QED BY <1>1, <1>7, <2>1, <2>2 DEF Assigned
<1>9. TurnsTaken'
  <2>1. todo' \subseteq DOMAIN gq'.measures BY <1>2, <1>3 DEF TurnsTaken
  <2>2. ASSUME NEW k \in DOMAIN gq.measures \ todo' PROVE Parts(gq.measures[k]) \subseteq DOMAIN mtg'
    <3>1. CASE k = p BY <1>2, <1>4, <1>7, <3>1
    <3>2. CASE k # p
      <4>1. k \in DOMAIN gq.measures \ todo BY <1>2, <3>2
      <4> QED BY <1>2, <1>3, <1>4, <1>7, <4>1 DEF TurnsTaken
    <3> QED BY <3>1, <3>2
  <2> QED BY <1>2, <2>1, <2>2 DEF TurnsTaken, Parts
<1>10. gpc' = "assign" /\ IsQuery(gq)' BY <1>2, <1>3 DEF IsQuery
<1>11. GrainsetRefusalJustified' BY <1>10 DEF GrainsetRefusalJustified
<1> QED BY <1>2, <1>3, <1>5, <1>6, <1>8, <1>9, <1>10, <1>11 DEF GInv

LEMMA StepNoGroup ==
  ASSUME GInv, NEW p \in DOMAIN gq.measures, NoGroup(p)
  PROVE  GInv'
<1> DEFINE m == gq.measures[p]
<1>1. /\ Candidates(m) = {} /\ gpc = "assign" /\ gpc' = "refused"
      /\ UNCHANGED <<gq, eligible, groups, mtg, todo, gplan>>
  BY DEF NoGroup, Turn
<1>2. IsQuery(gq) /\ eligible = EligibleSet /\ eligible # {} /\ GroupsExact BY <1>1 DEF GInv
<1>3. m \in ToSet(gq.measures) BY DEF ToSet
<1>4. \A i \in DOMAIN groups : ~(Parts(m) \subseteq GroupMaps(groups[i])) BY <1>1 DEF Candidates
<1>5. Parts(m) # {}
  <2>1. PICK b \in eligible : TRUE BY <1>2
  <2>2. PICK i \in DOMAIN groups : groups[i] = Native(b) BY <1>2, <2>1 DEF GroupsExact
  <2> QED BY <1>4, <2>2
<1>6. ASSUME NEW g
      PROVE  ~(Parts(m) \subseteq UNION {Maps(b) : b \in {b \in DOMAIN gq.bindings : Usable(b) /\ Native(b) = g}})
  <2> SUFFICES ASSUME Parts(m) \subseteq UNION {Maps(b) : b \in {b \in DOMAIN gq.bindings : Usable(b) /\ Native(b) = g}}
               PROVE  FALSE
    OBVIOUS
  <2>1. Parts(m) \subseteq GroupMaps(g) BY <1>2, <1>3, GroupCovers
  <2>2. PICK b \in eligible : Native(b) = g BY <1>5, <2>1 DEF GroupMaps, GroupOf
  <2>3. PICK i \in DOMAIN groups : groups[i] = g BY <1>2, <2>2 DEF GroupsExact
  <2> QED BY <1>4, <2>1, <2>3
<1>7. GrainsetRefusalJustified
  BY <1>3, <1>6 DEF GrainsetRefusalJustified
<1>8. \E k \in ToSet(gq.measures) : \A g \in Grains \cup {NoGrain} :
         ~(Parts(k) \subseteq UNION {Maps(b) : b \in {b \in DOMAIN gq.bindings : Usable(b) /\ Native(b) = g}})
  BY <1>3, <1>6
<1>9. GrainsetRefusalJustified'
  BY <1>1, <1>8 DEF GrainsetRefusalJustified, Parts, Maps, Usable, Native
<1> QED BY <1>1, <1>2, <1>9 DEF GInv, IsQuery

LEMMA GStep == GInv /\ [GNext \/ \E q : IsQuery(q) /\ GResolve(q)]_gvars => GInv'
<1> SUFFICES ASSUME GInv, [GNext \/ \E q : IsQuery(q) /\ GResolve(q)]_gvars PROVE GInv'
  OBVIOUS
<1>1. ASSUME NEW q, IsQuery(q), GResolve(q) PROVE GInv'
  <2>1. gpc' = "refused" => DOMAIN gq'.bindings = {} BY <1>1 DEF GResolve
  <2>2. GrainsetRefusalJustified' BY <2>1 DEF GrainsetRefusalJustified
  <2> QED BY <1>1, <2>2 DEF GResolve, GInv
<1>2. CASE PruneDatasets
  <2>1. /\ UNCHANGED <<gq, groups, mtg, todo, gplan>> /\ IsQuery(gq) /\ mtg = <<>>
        /\ eligible' = EligibleSet /\ gpc' = IF eligible' = {} THEN "refused" ELSE "group"
    BY <1>2 DEF PruneDatasets, EligibleSet, GInv
  <2>2. EligibleSet' = EligibleSet /\ IsQuery(gq)' = IsQuery(gq)
    BY <2>1 DEF EligibleSet, TooCoarse, CoversAny, Native, Maps, Parts, RegularDims, IsQuery
  <2>3. EligibleSet = {} => ~\E b \in DOMAIN gq.bindings : Usable(b) /\ CoversAny(b)
    BY UsableExact DEF EligibleSet
  <2>4. (\E b \in DOMAIN gq.bindings : Usable(b) /\ CoversAny(b))'
          <=> \E b \in DOMAIN gq.bindings : Usable(b) /\ CoversAny(b)
    BY <2>1 DEF Usable, CoversAny, Native, Maps, Parts, RegularDims
  <2>5. GrainsetRefusalJustified' BY <2>1, <2>3, <2>4 DEF GrainsetRefusalJustified
  <2> QED BY <2>1, <2>2, <2>5 DEF GInv
<1>3. CASE GroupByGrain
  <2>1. /\ UNCHANGED <<gq, eligible, mtg, gplan>> /\ gpc = "group" /\ gpc' = "assign"
        /\ todo' = DOMAIN gq.measures
        /\ groups' \in SetToSeqs({Native(b) : b \in eligible})
    BY <1>3 DEF GroupByGrain
  <2>2. IsQuery(gq) /\ mtg = <<>> /\ eligible = EligibleSet /\ eligible # {} BY <2>1 DEF GInv
  <2>3. {groups'[i] : i \in DOMAIN groups'} = {Native(b) : b \in eligible}
    BY <2>1, <2>2, NativesFinite, SetToSeqsAll DEF EligibleSet
  <2>4. \A b : Native(b)' = Native(b) BY <2>1 DEF Native
  <2>5. GroupsExact' BY <2>1, <2>3, <2>4 DEF GroupsExact
  <2>6. GivenMapped' /\ TurnsTaken' BY <2>1, <2>2 DEF GivenMapped, TurnsTaken
  <2>7. EligibleSet' = EligibleSet /\ IsQuery(gq)' = IsQuery(gq)
    BY <2>1 DEF EligibleSet, TooCoarse, CoversAny, Native, Maps, Parts, RegularDims, IsQuery
  <2>8. GrainsetRefusalJustified' BY <2>1 DEF GrainsetRefusalJustified
  <2> QED BY <2>1, <2>2, <2>5, <2>6, <2>7, <2>8 DEF GInv
<1>4. ASSUME NEW p \in DOMAIN gq.measures, AssignToGroup(p) PROVE GInv'
  BY <1>4, StepAssign
<1>5. ASSUME NEW p \in DOMAIN gq.measures, NoGroup(p) PROVE GInv'
  BY <1>5, StepNoGroup
<1>6. CASE BuildGrainset
  <2>1. /\ UNCHANGED <<gq, eligible, groups, mtg, todo>> /\ gpc = "assign" /\ gpc' = "built" /\ PlanBuilt'
    BY <1>6 DEF BuildGrainset, PlanBuilt, WithMeasures, Given, CoversMeasures, CoversDims, RegularDims, Maps,
                Native, BuildSingleDatasetPlan, BuildUnionPlan, Branch, Covers, NeedsRollup, Parts, InferAggregation
  <2>2. GrainsetRefusalJustified' BY <2>1 DEF GrainsetRefusalJustified
  <2> QED BY <2>1, <2>2, GFrame DEF GInv
<1>7. CASE UNCHANGED gvars
  <2>1. UNCHANGED <<gq, eligible, groups, mtg, todo, gplan, gpc>> BY <1>7 DEF gvars
  <2>2. PlanBuilt' = PlanBuilt
    BY <2>1 DEF PlanBuilt, WithMeasures, Given, CoversMeasures, CoversDims, RegularDims, Maps,
                Native, BuildSingleDatasetPlan, BuildUnionPlan, Branch, Covers, NeedsRollup, Parts, InferAggregation
  <2>3. GrainsetRefusalJustified' = GrainsetRefusalJustified
    BY <2>1 DEF GrainsetRefusalJustified, Usable, CoversAny, Native, Maps, Parts, RegularDims
  <2> QED BY <2>1, <2>2, <2>3, GFrame DEF GInv
<1> QED BY <1>1, <1>2, <1>3, <1>4, <1>5, <1>6, <1>7 DEF GNext

(* The datasets that are given a measure of the request: those at its      *)
(* grain that have it.                                                     *)
LEMMA GivenExact ==
  ASSUME GInv, gpc = "built", NEW n \in DOMAIN mtg, NEW m \in ToSet(gq.measures), n \in Parts(m)
  PROVE  /\ \E b \in WithMeasures : n \in Given(b)
         /\ mtg[n] \in Grains \cup {NoGrain}
         /\ {b \in WithMeasures : n \in Given(b)}
              = {b \in DOMAIN gq.bindings : Native(b) = mtg[n] /\ Usable(b) /\ n \in Maps(b)}
<1>1. IsQuery(gq) /\ eligible = EligibleSet /\ GivenMapped BY DEF GInv
<1>2. PICK b \in eligible : Native(b) = mtg[n] /\ n \in Maps(b) BY <1>1 DEF GivenMapped
<1>3. b \in WithMeasures /\ n \in Given(b) BY <1>2 DEF WithMeasures, Given
<1>4. mtg[n] \in Grains \cup {NoGrain} BY <1>1, <1>2, NativeIsGrain DEF EligibleSet
<1>5. ASSUME NEW c \in DOMAIN gq.bindings, Native(c) = mtg[n], Usable(c), n \in Maps(c)
      PROVE  c \in WithMeasures /\ n \in Given(c)
  <2>1. CoversAny(c) BY <1>5 DEF CoversAny
  <2>2. c \in eligible BY <1>1, <1>5, <2>1, UsableExact DEF EligibleSet
  <2> QED BY <1>5, <2>2 DEF WithMeasures, Given
<1>6. ASSUME NEW c \in WithMeasures, n \in Given(c)
      PROVE  c \in DOMAIN gq.bindings /\ Native(c) = mtg[n] /\ Usable(c) /\ n \in Maps(c)
  BY <1>1, <1>6, UsableExact DEF WithMeasures, Given, EligibleSet
<1> QED BY <1>3, <1>4, <1>5, <1>6

(* The datasets that answer a measure or metric: those that are given all  *)
(* of its parts.                                                           *)
LEMMA AnsweringExact ==
  ASSUME GInv, gpc = "built", NEW m \in ToSet(gq.measures), Parts(m) # {}
  PROVE  Answering(m) = {b \in WithMeasures : Parts(m) \subseteq Given(b)}
<1>1. PlanBuilt /\ TurnsTaken /\ eligible = EligibleSet BY DEF GInv
<1>2. Parts(m) \subseteq DOMAIN mtg
  <2>1. PICK p \in DOMAIN gq.measures : m = gq.measures[p] BY DEF ToSet
  <2> QED BY <1>1, <2>1 DEF TurnsTaken, PlanBuilt
<1>3. CASE \E b \in WithMeasures : WithMeasures = {b} /\ CoversMeasures(b) /\ CoversDims(b)
  <2>1. PICK b \in WithMeasures : WithMeasures = {b} BY <1>3
  <2>2. gplan.branches = {Branch(c, ToSet(gq.measures)) : c \in WithMeasures}
    BY <1>1, <1>3 DEF PlanBuilt, BuildSingleDatasetPlan
  <2>3. Answering(m) = {b}
    <3> DEFINE br == Branch(b, ToSet(gq.measures))
    <3>1. gplan.branches = {br} BY <2>1, <2>2
    <3>2. br.dataset = b /\ m \in br.covered BY DEF Branch
    <3> HIDE DEF br
    <3> QED BY <3>1, <3>2 DEF Answering
  <2>4. ASSUME NEW n \in Parts(m) PROVE n \in Given(b)
    BY <1>2, <2>1, GivenExact
  <2> QED BY <2>1, <2>3, <2>4
<1>4. CASE ~\E b \in WithMeasures : WithMeasures = {b} /\ CoversMeasures(b) /\ CoversDims(b)
  <2>1. gplan.branches = {Branch(b, Covers(b)) : b \in WithMeasures}
    BY <1>1, <1>4 DEF PlanBuilt, BuildUnionPlan
  <2>2. \A b : m \in Covers(b) <=> Parts(m) \subseteq Given(b) BY DEF Covers
  <2>3. ASSUME NEW b \in WithMeasures, Parts(m) \subseteq Given(b) PROVE b \in Answering(m)
    <3>1. Branch(b, Covers(b)) \in gplan.branches BY <2>1
    <3>2. m \in Branch(b, Covers(b)).covered /\ Branch(b, Covers(b)).dataset = b
      BY <2>2, <2>3 DEF Branch
    <3> QED BY <3>1, <3>2 DEF Answering
  <2>4. ASSUME NEW b \in Answering(m) PROVE b \in WithMeasures /\ Parts(m) \subseteq Given(b)
    <3>1. PICK br \in gplan.branches : m \in br.covered /\ b = br.dataset BY <2>4 DEF Answering
    <3>2. PICK c \in WithMeasures : br = Branch(c, Covers(c)) BY <2>1, <3>1
    <3>3. b = c /\ m \in Covers(c) BY <3>1, <3>2 DEF Branch
    <3> QED BY <2>2, <3>3
  <2> QED BY <2>3, <2>4
<1> QED BY <1>3, <1>4

LEMMA BuiltCountsOnce == GInv => FactsCountedOnce
<1> SUFFICES ASSUME GInv, gpc = "built", NEW m \in ToSet(gq.measures)
             PROVE
      /\ Requested(m) =>
           \E g \in Grains \cup {NoGrain} :
             /\ Answering(m) # {}
             /\ Answering(m) = {b \in DOMAIN gq.bindings : Native(b) = g /\ Usable(b) /\ m \in Maps(b)}
      /\ \A b \in eligible :
           (Parts(m) # {} /\ Parts(m) \subseteq Maps(b) /\ \A n \in Parts(m) : mtg[n] = Native(b)) => b \in Answering(m)
      /\ \A b \in Answering(m) : Parts(m) \subseteq Maps(b)
  BY DEF FactsCountedOnce
<1>1. Parts(m) \subseteq DOMAIN mtg
  <2>1. PICK p \in DOMAIN gq.measures : m = gq.measures[p] BY DEF ToSet
  <2> QED BY <2>1 DEF GInv, TurnsTaken, PlanBuilt
<1>2. ASSUME Requested(m)
      PROVE  \E g \in Grains \cup {NoGrain} :
               /\ Answering(m) # {}
               /\ Answering(m) = {b \in DOMAIN gq.bindings : Native(b) = g /\ Usable(b) /\ m \in Maps(b)}
  <2>1. Parts(m) = {m} BY <1>2 DEF Requested, Parts
  <2>2. m \in DOMAIN mtg /\ m \in Parts(m) BY <1>1, <2>1
  <2>3. Answering(m) = {b \in WithMeasures : m \in Given(b)} BY <2>1, AnsweringExact
  <2> QED BY <2>2, <2>3, GivenExact
<1>3. ASSUME NEW b \in eligible, Parts(m) # {}, Parts(m) \subseteq Maps(b), \A n \in Parts(m) : mtg[n] = Native(b)
      PROVE  b \in Answering(m)
  <2>1. Parts(m) \subseteq Given(b) BY <1>1, <1>3 DEF Given
  <2>2. b \in WithMeasures BY <1>3, <2>1 DEF WithMeasures
  <2> QED BY <1>3, <2>1, <2>2, AnsweringExact
<1>4. ASSUME NEW b \in Answering(m) PROVE Parts(m) \subseteq Maps(b)
  <2>1. CASE Parts(m) = {} BY <2>1
  <2>2. CASE Parts(m) # {} BY <1>4, <2>2, AnsweringExact DEF Given
  <2> QED BY <2>1, <2>2
<1> QED BY <1>2, <1>3, <1>4

LEMMA GInductive == GSpec => []GInv
  BY GStart, GStep, PTL DEF GSpec

(* However many datasets a grainset has and at whatever grains, a plan     *)
(* that GrainsetPlanner::resolve builds counts each fact once: a measure   *)
(* is read at one grain, from all its datasets there; a metric where all   *)
(* of its parts were given.                                                *)
THEOREM GrainsetCountsOnce == GSpec => []FactsCountedOnce
  BY GInductive, BuiltCountsOnce, PTL

(* And what is refused has no answer at any usable grain.                  *)
THEOREM GrainsetRefusals == GSpec => []GrainsetRefusalJustified
<1>1. GInv => GrainsetRefusalJustified BY DEF GInv
<1> QED BY <1>1, GInductive, PTL

-----------------------------------------------------------------------------
(* Induction, and the sequences of the layered plan.                       *)

(* Every nonempty set of naturals has a least element: of the initial      *)
(* segments one is minimal.                                                *)
LEMMA LeastNat ==
  ASSUME NEW T \in SUBSET Nat, T # {}
  PROVE  \E n \in T : \A m \in T : n <= m
<1> DEFINE segments == {1..n : n \in T}
<1>1. segments # {} /\ segments \subseteq FiniteSubsetsOf(Nat)
  <2>1. \A n \in T : 1..n \in SUBSET Nat /\ IsFiniteSet(1..n) BY FS_Interval
  <2> QED BY <2>1 DEF FiniteSubsetsOf
<1>2. PICK x \in segments : \A y \in segments : ~(<<y, x>> \in StrictSubsetOrdering(Nat))
  <2>1. IsWellFoundedOn(StrictSubsetOrdering(Nat), FiniteSubsetsOf(Nat))
    BY FS_StrictSubsetOrderingWellFounded
  <2> HIDE DEF segments
  <2> QED BY <1>1, <2>1, WFMin
<1>3. PICK n \in T : x = 1..n
  OBVIOUS
<1>4. ASSUME NEW m \in T, m < n PROVE FALSE
  <2>1. 1..m \subseteq 1..n /\ n \in 1..n /\ n \notin 1..m /\ 1..m \in segments BY <1>4
  <2>2. 1..m # 1..n /\ 1..m \in SUBSET Nat /\ 1..n \in SUBSET Nat BY <2>1
  <2>3. <<1..m, 1..n>> \in StrictSubsetOrdering(Nat) BY <2>1, <2>2 DEF StrictSubsetOrdering
  <2> QED BY <1>2, <1>3, <2>1, <2>3
<1> QED BY <1>3, <1>4

LEMMA UpTo ==
  ASSUME NEW N \in Nat, NEW T, 0 \in T, \A n \in 0 .. N - 1 : n \in T => n + 1 \in T
  PROVE  0 .. N \subseteq T
<1> SUFFICES ASSUME 0 .. N \ T # {} PROVE FALSE
  OBVIOUS
<1>1. PICK n \in 0 .. N \ T : \A m \in 0 .. N \ T : n <= m
  <2>1. 0 .. N \ T \in SUBSET Nat OBVIOUS
  <2> QED BY <2>1, LeastNat
<1>2. n # 0 /\ n - 1 \in 0 .. N - 1 /\ n - 1 \in 0 .. N BY <1>1
<1>3. n - 1 \in T BY <1>1, <1>2
<1> QED BY <1>1, <1>2, <1>3

(* What Distinct computes, prefix by prefix.                               *)
Firsts(s, f, N) ==
  f = [n \in 0 .. N |->
         IF n = 0 THEN <<>>
         ELSE IF s[n] \in ToSet(f[n - 1]) THEN f[n - 1]
         ELSE Append(f[n - 1], s[n])]

LEMMA FirstsExists ==
  ASSUME NEW s, NEW N \in Nat
  PROVE  \E f : Firsts(s, f, N)
<1> DEFINE T == {n \in Nat : \E f : Firsts(s, f, n)}
<1>1. 0 \in T
  <2>1. Firsts(s, [n \in 0 .. 0 |-> <<>>], 0) BY DEF Firsts
  <2> QED BY <2>1
<1>2. ASSUME NEW n \in 0 .. N - 1, n \in T PROVE n + 1 \in T
  <2>1. PICK f : Firsts(s, f, n) BY <1>2
  <2> DEFINE next == IF s[n + 1] \in ToSet(f[n]) THEN f[n] ELSE Append(f[n], s[n + 1])
             g == [k \in 0 .. n + 1 |-> IF k = n + 1 THEN next ELSE f[k]]
  <2>2. \A k \in 0 .. n : g[k] = f[k] OBVIOUS
  <2>3. \A k \in 0 .. n + 1 :
          g[k] = IF k = 0 THEN <<>>
                 ELSE IF s[k] \in ToSet(g[k - 1]) THEN g[k - 1]
                 ELSE Append(g[k - 1], s[k])
    <3> TAKE k \in 0 .. n + 1
    <3>1. CASE k = n + 1
      <4>1. g[k] = next /\ k # 0 /\ g[k - 1] = f[n] /\ k - 1 = n BY <3>1
      <4> HIDE DEF g
      <4> QED BY <3>1, <4>1
    <3>2. CASE k = 0
      <4>1. g[k] = f[0] BY <3>2
      <4>2. f[0] = <<>> BY <2>1 DEF Firsts
      <4> HIDE DEF g
      <4> QED BY <3>2, <4>1, <4>2
    <3>3. CASE k \in 1 .. n
      <4>1. k \in 0 .. n /\ k - 1 \in 0 .. n /\ k # 0 BY <3>3
      <4>2. g[k] = f[k] /\ g[k - 1] = f[k - 1] BY <2>2, <4>1
      <4>3. f[k] = IF s[k] \in ToSet(f[k - 1]) THEN f[k - 1] ELSE Append(f[k - 1], s[k])
        BY <2>1, <4>1 DEF Firsts
      <4> HIDE DEF g
      <4> QED BY <4>1, <4>2, <4>3
    <3> QED BY <3>1, <3>2, <3>3
  <2>4. Firsts(s, g, n + 1)
    <3>1. g = [k \in 0 .. n + 1 |-> g[k]] OBVIOUS
    <3> HIDE DEF g
    <3> QED BY <2>3, <3>1 DEF Firsts
  <2> QED BY <2>4
<1>3. 0 .. N \subseteq T
  <2> HIDE DEF T
  <2> QED BY <1>1, <1>2, UpTo
<1> QED BY <1>3

(* Distinct keeps the members of a sequence.                               *)
LEMMA DistinctMembers ==
  ASSUME NEW S, NEW s \in Seq(S)
  PROVE  Distinct(s) \in Seq(S) /\ ToSet(Distinct(s)) = ToSet(s)
<1>1. PICK N \in Nat : N = Len(s) /\ DOMAIN s = 1 .. N BY LenProperties
<1>2. Distinct(s) = (CHOOSE f : Firsts(s, f, Len(s)))[Len(s)] BY DEF Distinct, Firsts
<1>3. PICK f : Firsts(s, f, N) /\ Distinct(s) = f[N] BY <1>1, <1>2, FirstsExists
<1> DEFINE T == {n \in 0 .. N : f[n] \in Seq(S) /\ ToSet(f[n]) = {s[i] : i \in 1 .. n}}
<1>4. 0 \in T
  <2>1. f[0] = <<>> BY <1>3 DEF Firsts
  <2>2. ToSet(f[0]) = {} BY <2>1 DEF ToSet
  <2>3. {s[i] : i \in 1 .. 0} = {} OBVIOUS
  <2>4. f[0] \in Seq(S) BY <2>1, EmptySeq
  <2> QED BY <2>2, <2>3, <2>4
<1>5. ASSUME NEW n \in 0 .. N - 1, n \in T PROVE n + 1 \in T
  <2>1. f[n] \in Seq(S) /\ ToSet(f[n]) = {s[i] : i \in 1 .. n} BY <1>5
  <2>2. f[n + 1] = IF s[n + 1] \in ToSet(f[n]) THEN f[n] ELSE Append(f[n], s[n + 1])
    <3>1. n + 1 \in 0 .. N /\ n + 1 # 0 /\ (n + 1) - 1 = n BY <1>1
    <3> QED BY <1>3, <3>1 DEF Firsts
  <2>3. {s[i] : i \in 1 .. n + 1} = {s[i] : i \in 1 .. n} \cup {s[n + 1]}
    <3>1. 1 .. n + 1 = (1 .. n) \cup {n + 1} OBVIOUS
    <3> QED BY <3>1
  <2>4. n + 1 \in 0 .. N BY <1>1
  <2>5. CASE s[n + 1] \in ToSet(f[n])
    BY <2>1, <2>2, <2>3, <2>4, <2>5
  <2>6. CASE s[n + 1] \notin ToSet(f[n])
    <3>1. s[n + 1] \in S
      <4>1. n + 1 \in 1 .. Len(s) BY <1>1
      <4> QED BY <4>1, ElementOfSeq
    <3>2. PICK k \in Nat : k = Len(f[n]) /\ DOMAIN f[n] = 1 .. k BY <2>1, LenProperties
    <3>3. /\ f[n + 1] \in Seq(S) /\ DOMAIN f[n + 1] = 1 .. k + 1
          /\ f[n + 1][k + 1] = s[n + 1] /\ \A i \in 1 .. k : f[n + 1][i] = f[n][i]
      BY <2>1, <2>2, <2>6, <3>1, <3>2
    <3>4. ToSet(f[n + 1]) = ToSet(f[n]) \cup {s[n + 1]}
      <4>1. 1 .. k + 1 = (1 .. k) \cup {k + 1} OBVIOUS
      <4>2. ToSet(f[n + 1]) = {f[n + 1][i] : i \in (1 .. k) \cup {k + 1}} BY <3>3, <4>1 DEF ToSet
      <4>3. ToSet(f[n]) = {f[n][i] : i \in 1 .. k} BY <3>2 DEF ToSet
      <4> QED BY <3>3, <4>2, <4>3
    <3> QED BY <2>1, <2>3, <2>4, <3>3, <3>4
  <2> QED BY <2>5, <2>6
<1>6. 0 .. N \subseteq T
  <2> HIDE DEF T
  <2> QED BY <1>4, <1>5, UpTo
<1>7. N \in T
  <2>1. N \in 0 .. N OBVIOUS
  <2> HIDE DEF T
  <2> QED BY <1>6, <2>1
<1> QED BY <1>1, <1>3, <1>7 DEF ToSet

(* What FlattenSeq computes.                                               *)
Flattens(ss, f, N) ==
  f = [i \in 1 .. N |-> IF i = 1 THEN ss[i] ELSE f[i - 1] \o ss[i]]

LEMMA FlattensExists ==
  ASSUME NEW ss, NEW N \in Nat
  PROVE  \E f : Flattens(ss, f, N)
<1> DEFINE T == {n \in Nat : \E f : Flattens(ss, f, n)}
<1>1. 0 \in T
  <2>1. Flattens(ss, [n \in 1 .. 0 |-> <<>>], 0)
    <3>1. \A f, g : [i \in 1 .. 0 |-> <<>>] = [i \in 1 .. 0 |-> IF i = 1 THEN ss[i] ELSE g[i - 1] \o ss[i]]
      OBVIOUS
    <3> QED BY <3>1 DEF Flattens
  <2> QED BY <2>1
<1>2. ASSUME NEW n \in 0 .. N - 1, n \in T PROVE n + 1 \in T
  <2>1. PICK f : Flattens(ss, f, n) BY <1>2
  <2> DEFINE next == IF n = 0 THEN ss[1] ELSE f[n] \o ss[n + 1]
             g == [k \in 1 .. n + 1 |-> IF k = n + 1 THEN next ELSE f[k]]
  <2>2. \A k \in 1 .. n : g[k] = f[k] OBVIOUS
  <2>3. \A k \in 1 .. n + 1 : g[k] = IF k = 1 THEN ss[k] ELSE g[k - 1] \o ss[k]
    <3> TAKE k \in 1 .. n + 1
    <3>1. CASE k = n + 1 /\ n = 0
      <4>1. g[k] = ss[1] /\ k = 1 BY <3>1
      <4> HIDE DEF g
      <4> QED BY <4>1
    <3>2. CASE k = n + 1 /\ n # 0
      <4>1. g[k] = next /\ k # 1 /\ k - 1 = n /\ g[k - 1] = f[n]
        <5>1. k # 1 /\ k - 1 = n /\ n \in 1 .. n BY <3>2
        <5>2. g[n] = f[n] BY <2>2, <5>1
        <5> HIDE DEF next
        <5>3. g[k] = next BY <3>2
        <5> QED BY <5>1, <5>2, <5>3
      <4>2. next = f[n] \o ss[n + 1] BY <3>2
      <4> HIDE DEF g, next
      <4> QED BY <3>2, <4>1, <4>2
    <3>3. CASE k \in 1 .. n /\ k # n + 1
      <4>1. g[k] = f[k] /\ (k # 1 => k - 1 \in 1 .. n /\ g[k - 1] = f[k - 1]) BY <2>2, <3>3
      <4>2. f[k] = IF k = 1 THEN ss[k] ELSE f[k - 1] \o ss[k] BY <2>1, <3>3 DEF Flattens
      <4> HIDE DEF g
      <4> QED BY <4>1, <4>2
    <3> QED BY <3>1, <3>2, <3>3
  <2>4. Flattens(ss, g, n + 1)
    <3>1. g = [k \in 1 .. n + 1 |-> g[k]] OBVIOUS
    <3> HIDE DEF g
    <3> QED BY <2>3, <3>1 DEF Flattens
  <2> QED BY <2>4
<1>3. 0 .. N \subseteq T
  <2> HIDE DEF T
  <2> QED BY <1>1, <1>2, UpTo
<1> QED BY <1>3

LEMMA ConcatMembers ==
  ASSUME NEW S, NEW s \in Seq(S), NEW t \in Seq(S)
  PROVE  ToSet(s \o t) = ToSet(s) \cup ToSet(t)
<1>1. PICK m \in Nat : m = Len(s) /\ DOMAIN s = 1 .. m BY LenProperties
<1>2. PICK n \in Nat : n = Len(t) /\ DOMAIN t = 1 .. n BY LenProperties
<1>3. /\ DOMAIN (s \o t) = 1 .. m + n
      /\ \A i \in 1 .. m + n : (s \o t)[i] = IF i <= m THEN s[i] ELSE t[i - m]
  <2>1. s \o t \in Seq(S) /\ Len(s \o t) = m + n BY <1>1, <1>2, ConcatProperties
  <2> QED BY <1>1, <1>2, <2>1, ConcatProperties, LenProperties
<1>4. ASSUME NEW x \in ToSet(s \o t) PROVE x \in ToSet(s) \cup ToSet(t)
  <2>1. PICK i \in 1 .. m + n : x = (s \o t)[i] BY <1>3, <1>4 DEF ToSet
  <2>2. CASE i <= m BY <1>1, <1>3, <2>1, <2>2 DEF ToSet
  <2>3. CASE ~(i <= m)
    <3>1. i - m \in 1 .. n /\ x = t[i - m] BY <1>3, <2>1, <2>3
    <3> QED BY <1>2, <3>1 DEF ToSet
  <2> QED BY <2>2, <2>3
<1>5. ASSUME NEW x \in ToSet(s) PROVE x \in ToSet(s \o t)
  <2>1. PICK i \in 1 .. m : x = s[i] BY <1>1, <1>5 DEF ToSet
  <2>2. i \in 1 .. m + n /\ x = (s \o t)[i] BY <1>3, <2>1
  <2> QED BY <1>3, <2>2 DEF ToSet
<1>6. ASSUME NEW x \in ToSet(t) PROVE x \in ToSet(s \o t)
  <2>1. PICK i \in 1 .. n : x = t[i] BY <1>2, <1>6 DEF ToSet
  <2>2. m + i \in 1 .. m + n /\ ~(m + i <= m) /\ (m + i) - m = i BY <2>1
  <2>3. x = (s \o t)[m + i] BY <1>3, <2>1, <2>2
  <2> QED BY <1>3, <2>2, <2>3 DEF ToSet
<1> QED BY <1>4, <1>5, <1>6

(* Flattening keeps the members of all the sequences.                      *)
LEMMA FlattenMembers ==
  ASSUME NEW S, NEW ss \in Seq(Seq(S))
  PROVE  /\ FlattenSeq(ss) \in Seq(S)
         /\ ToSet(FlattenSeq(ss)) = UNION {ToSet(ss[i]) : i \in DOMAIN ss}
<1>1. PICK N \in Nat : N = Len(ss) /\ DOMAIN ss = 1 .. N BY LenProperties
<1>2. CASE N = 0
  <2>1. ss = <<>> BY <1>1, <1>2, EmptySeq
  <2>2. FlattenSeq(ss) = <<>> BY <1>1, <1>2, <2>1 DEF FlattenSeq
  <2>3. ToSet(<<>>) = {} BY DEF ToSet
  <2>4. {ToSet(ss[i]) : i \in DOMAIN ss} = {} BY <1>1, <1>2
  <2> QED BY <2>2, <2>3, <2>4, EmptySeq
<1>3. CASE N # 0
  <2>1. FlattenSeq(ss) = (CHOOSE f : Flattens(ss, f, Len(ss)))[Len(ss)]
    BY <1>1, <1>3 DEF FlattenSeq, Flattens
  <2>2. PICK f : Flattens(ss, f, N) /\ FlattenSeq(ss) = f[N] BY <1>1, <2>1, FlattensExists
  <2>3. \A i \in 1 .. N : ss[i] \in Seq(S) BY <1>1, ElementOfSeq
  <2> DEFINE T == {n \in 0 .. N : n # 0 => /\ f[n] \in Seq(S)
                                           /\ ToSet(f[n]) = UNION {ToSet(ss[i]) : i \in 1 .. n}}
  <2>4. 0 \in T OBVIOUS
  <2>5. ASSUME NEW n \in 0 .. N - 1, n \in T PROVE n + 1 \in T
    <3>1. n + 1 \in 1 .. N /\ n + 1 \in 0 .. N BY <1>1
    <3>2. f[n + 1] = IF n + 1 = 1 THEN ss[n + 1] ELSE f[(n + 1) - 1] \o ss[n + 1]
      BY <2>2, <3>1 DEF Flattens
    <3>3. UNION {ToSet(ss[i]) : i \in 1 .. n + 1} = (UNION {ToSet(ss[i]) : i \in 1 .. n}) \cup ToSet(ss[n + 1])
      <4>1. 1 .. n + 1 = (1 .. n) \cup {n + 1} OBVIOUS
      <4> QED BY <4>1
    <3>4. CASE n = 0
      <4>1. f[n + 1] = ss[n + 1] BY <3>2, <3>4
      <4>2. UNION {ToSet(ss[i]) : i \in 1 .. n} = {} BY <3>4
      <4> QED BY <2>3, <3>1, <3>3, <4>1, <4>2
    <3>5. CASE n # 0
      <4>1. f[n + 1] = f[n] \o ss[n + 1]
        <5>1. n + 1 # 1 /\ (n + 1) - 1 = n BY <3>5
        <5> QED BY <3>2, <5>1
      <4>2. f[n] \in Seq(S) /\ ToSet(f[n]) = UNION {ToSet(ss[i]) : i \in 1 .. n} BY <2>5, <3>5
      <4>3. f[n + 1] \in Seq(S) /\ ToSet(f[n + 1]) = ToSet(f[n]) \cup ToSet(ss[n + 1])
        BY <2>3, <3>1, <4>1, <4>2, ConcatProperties, ConcatMembers
      <4> QED BY <3>1, <3>3, <4>2, <4>3
    <3> QED BY <3>4, <3>5
  <2>6. 0 .. N \subseteq T
    <3> HIDE DEF T
    <3> QED BY <2>4, <2>5, UpTo
  <2>7. N \in T
    <3>1. N \in 0 .. N OBVIOUS
    <3> HIDE DEF T
    <3> QED BY <2>6, <3>1
  <2> QED BY <1>1, <1>3, <2>2, <2>7
<1> QED BY <1>2, <1>3

-----------------------------------------------------------------------------
(* The layered plan.                                                       *)

InBranch == {"dims", "scan", "decompose", "sources", "project"}

PartsOf(ms) == UNION {ToSet(Constituents(m)) : m \in ms}

(* The branches are asked for what the request asks for, or for the        *)
(* measures it is made of if a re-aggregation follows.                     *)
AskedKept ==
  /\ asked \in Seq(DOMAIN query.measures \cup DOMAIN query.metrics)
  /\ pc # "classify" =>
       IF Partial /\ ~skip_reagg THEN ToSet(asked) = PartsOf(ToSet(query.requested))
       ELSE asked = query.requested
  /\ pc = "reaggregate" => Partial /\ ~skip_reagg

(* What the layers of this branch rest on: its dimensions are filled or    *)
(* mapped, the scan holds what is read from it, the aggregates are the     *)
(* parts of the measures it covers.                                        *)
BranchKept ==
  /\ branches \in Seq(ToSet(branches)) /\ sourced \in Nat
  /\ pc = "classify" => branches = <<>>
  /\ pc \in InBranch => Len(branches) + 1 \in DOMAIN query.bindings
  /\ pc \in InBranch \ {"dims"} => PhysicalDims \ null_dims \subseteq Mapped(Bd)
  /\ pc \in InBranch \ {"dims", "scan"} =>
       scan = DimColumns \cup ComputedColumns \cup MeasureColumns \cup Lower(Bd, query.filters)
  /\ pc \in {"sources", "project"} => ToSet(aggregates) = {query.measures[c] : c \in PartsOf(Covered)}

Closed == WellMapped => unprovided = {}

SkipJustified ==
  skip_reagg =>
    Distinguishing([b \in DOMAIN query.bindings |->
                      KnownValues(query.bindings[b], FirstSource(query.bindings[b]))], Dims)

(* The sources of a binding whose partial aggregates are only united.      *)
SourcesApart(b) ==
  \A s, t \in DOMAIN query.bindings[b].sources : s # t => Apart(b, s, b, t)

UnionsApart ==
  /\ merge.how = "union" => SourcesApart(Len(branches) + 1)
  /\ \A b \in DOMAIN branches : branches[b].merge.how = "union" => SourcesApart(b)

LInv ==
  /\ query \in Cases
  /\ AskedKept /\ BranchKept /\ Closed /\ SkipJustified /\ UnionsApart

LEMMA ConstituentsMeasures ==
  ASSUME query \in Cases, NEW m \in DOMAIN query.measures \cup DOMAIN query.metrics
  PROVE  /\ Constituents(m) \in Seq(DOMAIN query.measures)
         /\ m \in DOMAIN query.measures => Constituents(m) = <<m>> /\ ToSet(Constituents(m)) = {m}
<1>1. CASE m \in DOMAIN query.metrics
  BY <1>1, CasesAssumption DEF Constituents
<1>2. CASE m \notin DOMAIN query.metrics
  <2>1. Constituents(m) = <<m>> /\ m \in DOMAIN query.measures BY <1>2 DEF Constituents
  <2>2. <<m>> \in Seq(DOMAIN query.measures) BY <2>1
  <2>3. ToSet(<<m>>) = {m} BY DEF ToSet
  <2> QED BY <2>1, <2>2, <2>3
<1>3. m \in DOMAIN query.measures => m \notin DOMAIN query.metrics BY CasesAssumption
<1> QED BY <1>1, <1>2, <1>3 DEF Constituents

LEMMA PartsAreMeasures ==
  ASSUME query \in Cases, NEW ms \in SUBSET (DOMAIN query.measures \cup DOMAIN query.metrics)
  PROVE  PartsOf(ms) \subseteq DOMAIN query.measures
<1> SUFFICES ASSUME NEW m \in ms PROVE ToSet(Constituents(m)) \subseteq DOMAIN query.measures
  BY DEF PartsOf
<1>1. Constituents(m) \in Seq(DOMAIN query.measures) BY ConstituentsMeasures
<1> QED BY <1>1, LenProperties, ElementOfSeq DEF ToSet

(* The measures a request is made of.                                      *)
LEMMA ExpandedRequest ==
  ASSUME query \in Cases
  PROVE  /\ BranchMeasures(FALSE) \in Seq(DOMAIN query.measures)
         /\ ToSet(BranchMeasures(FALSE)) = PartsOf(ToSet(query.requested))
<1> DEFINE ms == query.requested
           ss == [i \in DOMAIN ms |-> Constituents(ms[i])]
<1>1. ms \in Seq(DOMAIN query.measures \cup DOMAIN query.metrics) BY CasesAssumption
<1>2. PICK N \in Nat : N = Len(ms) /\ DOMAIN ms = 1 .. N BY <1>1, LenProperties
<1>3. \A i \in 1 .. N : ss[i] \in Seq(DOMAIN query.measures)
  <2> TAKE i \in 1 .. N
  <2>1. ms[i] \in DOMAIN query.measures \cup DOMAIN query.metrics BY <1>1, <1>2, ElementOfSeq
  <2> QED BY <1>2, <2>1, ConstituentsMeasures
<1>4. ss \in Seq(Seq(DOMAIN query.measures))
  <2>1. ss \in [1 .. N -> Seq(DOMAIN query.measures)] BY <1>2, <1>3
  <2> HIDE DEF ss
  <2> QED BY <2>1
<1>5. UNION {ToSet(ss[i]) : i \in DOMAIN ss} = PartsOf(ToSet(ms))
  <2>1. {ToSet(ss[i]) : i \in DOMAIN ss} = {ToSet(Constituents(ms[i])) : i \in 1 .. N}
    BY <1>2
  <2>2. ToSet(ms) = {ms[i] : i \in 1 .. N} BY <1>2 DEF ToSet
  <2> HIDE DEF ss, ms
  <2>3. PartsOf(ToSet(ms)) = UNION {ToSet(Constituents(ms[i])) : i \in 1 .. N} BY <2>2 DEF PartsOf
  <2> QED BY <2>1, <2>3
<1>6. /\ FlattenSeq(ss) \in Seq(DOMAIN query.measures)
      /\ ToSet(FlattenSeq(ss)) = PartsOf(ToSet(ms))
  <2> HIDE DEF ss, ms
  <2> QED BY <1>4, <1>5, FlattenMembers
<1>7. BranchMeasures(FALSE) = Distinct(FlattenSeq(ss)) BY DEF BranchMeasures, Expand
<1> HIDE DEF ss, ms
<1> QED BY <1>6, <1>7, DistinctMembers DEF ms

(* The aggregates of a branch: one for each part of what it covers.        *)
LEMMA BranchAggregates ==
  ASSUME query \in Cases, asked \in Seq(DOMAIN query.measures \cup DOMAIN query.metrics)
  PROVE  ToSet(Distinct(Expand(asked, Aggregates))) = {query.measures[c] : c \in PartsOf(Covered)}
<1> DEFINE M == {query.measures[c] : c \in DOMAIN query.measures}
           ss == [i \in DOMAIN asked |-> Aggregates(asked[i])]
<1>1. PICK N \in Nat : N = Len(asked) /\ DOMAIN asked = 1 .. N BY LenProperties
<1>2. ASSUME NEW i \in 1 .. N
      PROVE  /\ ss[i] \in Seq(M)
             /\ ToSet(ss[i]) = IF asked[i] \in Covered
                                 THEN {query.measures[c] : c \in ToSet(Constituents(asked[i]))} ELSE {}
  <2>1. asked[i] \in DOMAIN query.measures \cup DOMAIN query.metrics BY <1>1, ElementOfSeq
  <2>2. Constituents(asked[i]) \in Seq(DOMAIN query.measures) BY <2>1, ConstituentsMeasures
  <2>3. PICK k \in Nat : k = Len(Constituents(asked[i])) /\ DOMAIN Constituents(asked[i]) = 1 .. k
    BY <2>2, LenProperties
  <2>4. ss[i] = Aggregates(asked[i]) BY <1>1
  <2>5. CASE asked[i] \in Covered
    <3>1. ss[i] = [j \in 1 .. k |-> query.measures[Constituents(asked[i])[j]]]
      BY <2>3, <2>4, <2>5 DEF Aggregates
    <3>2. \A j \in 1 .. k : Constituents(asked[i])[j] \in DOMAIN query.measures
      BY <2>2, <2>3, ElementOfSeq
    <3>3. ss[i] \in [1 .. k -> M] BY <3>1, <3>2, SMTT(30)
    <3>4. ToSet(ss[i]) = {query.measures[c] : c \in ToSet(Constituents(asked[i]))}
      <4>1. ToSet(Constituents(asked[i])) = {Constituents(asked[i])[j] : j \in 1 .. k} BY <2>3 DEF ToSet
      <4>2. ToSet(ss[i]) = {ss[i][j] : j \in 1 .. k}
        <5>1. DOMAIN ss[i] = 1 .. k BY <3>1
        <5> HIDE DEF ss
        <5> QED BY <5>1 DEF ToSet
      <4>3. \A j \in 1 .. k : ss[i][j] = query.measures[Constituents(asked[i])[j]] BY <3>1
      <4> HIDE DEF ss
      <4> QED BY <4>1, <4>2, <4>3
    <3> HIDE DEF ss, M
    <3> QED BY <2>5, <3>3, <3>4
  <2>6. CASE asked[i] \notin Covered
    <3>1. ss[i] = <<>> BY <2>4, <2>6 DEF Aggregates
    <3>2. ToSet(<<>>) = {} BY DEF ToSet
    <3> HIDE DEF ss, M
    <3> QED BY <2>6, <3>1, <3>2, EmptySeq
  <2> QED BY <2>5, <2>6
<1>3. ss \in Seq(Seq(M))
  <2>1. ss \in [1 .. N -> Seq(M)]
    <3>1. ss = [i \in 1 .. N |-> ss[i]] BY <1>1
    <3> HIDE DEF ss, M
    <3> QED BY <1>2, <3>1
  <2> HIDE DEF ss, M
  <2> QED BY <2>1
<1>4. DOMAIN ss = 1 .. N BY <1>1
<1>5. UNION {ToSet(ss[i]) : i \in DOMAIN ss} = {query.measures[c] : c \in PartsOf(Covered)}
  <2> HIDE DEF ss, M
  <2>1. ASSUME NEW i \in 1 .. N, NEW a \in ToSet(ss[i]) PROVE \E c \in PartsOf(Covered) : a = query.measures[c]
    BY <1>2, <2>1 DEF PartsOf
  <2>2. ASSUME NEW c \in PartsOf(Covered) PROVE \E i \in 1 .. N : query.measures[c] \in ToSet(ss[i])
    <3>1. PICK m \in Covered : c \in ToSet(Constituents(m)) BY DEF PartsOf
    <3>2. PICK i \in 1 .. N : asked[i] = m BY <1>1, <3>1 DEF Covered, ToSet
    <3> QED BY <1>2, <3>1, <3>2
  <2> QED BY <1>4, <2>1, <2>2
<1>6. FlattenSeq(ss) \in Seq(M) /\ ToSet(FlattenSeq(ss)) = {query.measures[c] : c \in PartsOf(Covered)}
  <2> HIDE DEF ss, M
  <2> QED BY <1>3, <1>5, FlattenMembers
<1>7. Expand(asked, Aggregates) = FlattenSeq(ss) BY DEF Expand
<1> HIDE DEF ss, M
<1> QED BY <1>6, <1>7, DistinctMembers

-----------------------------------------------------------------------------
(* Each layer reads what the one below provides.                           *)

LEMMA BareMeasure ==
  ASSUME query \in Cases, WellMapped, NEW c \in DOMAIN query.measures
  PROVE  /\ c \in Names /\ query.measures[c].expr = c
         /\ query.measures[c].refs = {c} /\ query.measures[c].filters = {}
<1>1. query.measures[c].expr = c /\ query.measures[c].filters = {} BY DEF WellMapped
<1>2. c \in Names /\ (IsBare(query.measures[c].expr) => query.measures[c].refs = {query.measures[c].expr})
  BY CasesAssumption
<1> QED BY <1>1, <1>2 DEF IsBare

LEMMA CoveredAsked ==
  ASSUME query \in Cases, AskedKept
  PROVE  Covered \subseteq DOMAIN query.measures \cup DOMAIN query.metrics
<1>1. PICK N \in Nat : N = Len(asked) /\ DOMAIN asked = 1 .. N BY LenProperties DEF AskedKept
<1>2. ToSet(asked) \subseteq DOMAIN query.measures \cup DOMAIN query.metrics
  BY <1>1, ElementOfSeq DEF AskedKept, ToSet
<1> QED BY <1>2 DEF Covered

(* A metric is planned as such only if the request asks for it.            *)
LEMMA CoveredMetrics ==
  ASSUME query \in Cases, AskedKept, pc # "classify", NEW m \in Covered, m \in DOMAIN query.metrics
  PROVE  m \in ToSet(query.requested)
<1>1. m \in ToSet(asked) BY DEF Covered
<1>2. CASE Partial /\ ~skip_reagg
  <2>1. ToSet(query.requested) \subseteq DOMAIN query.measures \cup DOMAIN query.metrics
    <3>1. query.requested \in Seq(DOMAIN query.measures \cup DOMAIN query.metrics) BY CasesAssumption
    <3> QED BY <3>1, LenProperties, ElementOfSeq DEF ToSet
  <2>2. m \in PartsOf(ToSet(query.requested)) BY <1>1, <1>2 DEF AskedKept
  <2>3. m \in DOMAIN query.measures BY <2>1, <2>2, PartsAreMeasures
  <2> QED BY <2>3, CasesAssumption
<1>3. CASE ~(Partial /\ ~skip_reagg)
  BY <1>1, <1>3 DEF AskedKept
<1> QED BY <1>2, <1>3

(* What a branch covers it maps, and of a literal only the measure itself. *)
LEMMA CoveredMapped ==
  ASSUME LInv, WellMapped, pc \in InBranch, NEW m \in Covered, NEW c \in ToSet(Constituents(m))
  PROVE  c \in Mapped(Bd) /\ (m \in DOMAIN query.metrics => m \notin DOMAIN Bd.literals /\ c \notin DOMAIN Bd.literals)
<1>1. Len(branches) + 1 \in DOMAIN query.bindings /\ pc # "classify" BY DEF LInv, BranchKept, InBranch
<1>2. ASSUME Partial PROVE c \in Mapped(Bd)
  BY <1>2 DEF Covered
<1>3. ASSUME ~Partial PROVE c \in Mapped(Bd)
  <2>1. m \in ToSet(query.requested) BY <1>1, <1>3 DEF LInv, AskedKept, Covered
  <2>2. c \in UNION {ToSet(Constituents(k)) : k \in ToSet(query.requested)} BY <2>1
  <2>3. UNION {ToSet(Constituents(k)) : k \in ToSet(query.requested)} \subseteq Mapped(Bd)
    BY <1>1, <1>3 DEF WellMapped, Bd
  <2> QED BY <2>2, <2>3
<1>4. ASSUME m \in DOMAIN query.metrics PROVE m \notin DOMAIN Bd.literals /\ c \notin DOMAIN Bd.literals
  <2>1. m \in ToSet(query.requested) BY <1>1, <1>4, CoveredMetrics DEF LInv
  <2>2. Constituents(m) = query.metrics[m].parts BY <1>4 DEF Constituents
  <2> QED BY <1>1, <1>4, <2>1, <2>2 DEF WellMapped, Bd
<1> QED BY <1>2, <1>3, <1>4

LEMMA RenamedColumnsAre ==
  \A n : n \in RenamedColumns <=>
    /\ n \in Bd.physical
    /\ \/ n \in PhysicalDims
       \/ \E d \in ComputedDims \ null_dims : n \in CaseRefs(query.computed[d])
       \/ \E m \in (Covered \cap DOMAIN query.measures) \ DOMAIN Bd.literals :
            n \in query.measures[m].refs \cup query.measures[m].filters
       \/ \E m \in (Covered \cap DOMAIN query.metrics) \ DOMAIN Bd.literals : \E c \in ToSet(Constituents(m)) :
            n \in query.measures[c].refs
<1> DEFINE A == UNION {CaseRefs(query.computed[d]) : d \in ComputedDims \ null_dims}
           B == UNION {query.measures[m].refs \cup query.measures[m].filters :
                         m \in (Covered \cap DOMAIN query.measures) \ DOMAIN Bd.literals}
           P == UNION {ToSet(Constituents(m)) : m \in (Covered \cap DOMAIN query.metrics) \ DOMAIN Bd.literals}
           C == UNION {query.measures[c].refs : c \in P}
<1>1. RenamedColumns = Bd.physical \cap (PhysicalDims \cup A \cup B \cup C) BY DEF RenamedColumns
<1>2. \A n : n \in A <=> \E d \in ComputedDims \ null_dims : n \in CaseRefs(query.computed[d])
  OBVIOUS
<1>3. \A n : n \in B <=> \E m \in (Covered \cap DOMAIN query.measures) \ DOMAIN Bd.literals :
                            n \in query.measures[m].refs \cup query.measures[m].filters
  OBVIOUS
<1>4. \A n : n \in C <=> \E m \in (Covered \cap DOMAIN query.metrics) \ DOMAIN Bd.literals : \E c \in ToSet(Constituents(m)) :
                            n \in query.measures[c].refs
  OBVIOUS
<1> HIDE DEF A, B, C
<1> QED BY <1>1, <1>2, <1>3, <1>4

(* The rename layer provides each part of what the branch covers.          *)
LEMMA PartsRenamed ==
  ASSUME LInv, WellMapped, pc \in InBranch, NEW m \in Covered, NEW c \in ToSet(Constituents(m))
  PROVE  c \in Renamed /\ c \in DOMAIN query.measures
<1>1. query \in Cases /\ Len(branches) + 1 \in DOMAIN query.bindings BY DEF LInv, BranchKept
<1>2. m \in DOMAIN query.measures \cup DOMAIN query.metrics BY <1>1, CoveredAsked DEF LInv
<1>3. c \in DOMAIN query.measures
  <2>1. c \in PartsOf({m}) BY DEF PartsOf
  <2> QED BY <1>1, <1>2, <2>1, PartsAreMeasures
<1>4. query.measures[c].refs = {c} /\ query.measures[c].filters = {} BY <1>1, <1>3, BareMeasure
<1>5. Bd.physical \cap DOMAIN Bd.literals = {} BY <1>1, CasesAssumption DEF Bd
<1>6. c \in Mapped(Bd) BY CoveredMapped
<1>7. CASE m \in DOMAIN query.metrics
  <2>1. m \notin DOMAIN Bd.literals /\ c \notin DOMAIN Bd.literals BY <1>7, CoveredMapped
  <2>2. c \in Bd.physical BY <1>6, <2>1 DEF Mapped
  <2>3. m \in (Covered \cap DOMAIN query.metrics) \ DOMAIN Bd.literals BY <1>7, <2>1
  <2>4. c \in RenamedColumns BY <1>4, <2>2, <2>3, RenamedColumnsAre
  <2> QED BY <1>3, <2>4 DEF Renamed
<1>8. CASE m \notin DOMAIN query.metrics
  <2>1. c = m BY <1>1, <1>2, <1>8, ConstituentsMeasures
  <2>2. CASE m \in DOMAIN Bd.literals
    <3>1. m \in Constants BY <2>2 DEF Constants
    <3> QED BY <1>3, <2>1, <3>1 DEF Renamed
  <2>3. CASE m \notin DOMAIN Bd.literals
    <3>1. m \in (Covered \cap DOMAIN query.measures) \ DOMAIN Bd.literals BY <1>3, <2>1, <2>3
    <3>2. c \in Bd.physical BY <1>6, <2>1, <2>3 DEF Mapped
    <3>3. c \in RenamedColumns BY <1>4, <2>1, <3>1, <3>2, RenamedColumnsAre
    <3> QED BY <1>3, <3>3 DEF Renamed
  <2> QED BY <2>2, <2>3
<1> QED BY <1>7, <1>8

(* The scan has the column of all that the rename layer takes from it.     *)
LEMMA RenamedScanned ==
  ASSUME LInv, WellMapped, pc \in {"sources", "project"}, NEW n \in RenamedColumns
  PROVE  Column[n] \in scan
<1>1. /\ query \in Cases /\ Len(branches) + 1 \in DOMAIN query.bindings
      /\ scan = DimColumns \cup ComputedColumns \cup MeasureColumns \cup Lower(Bd, query.filters)
  BY DEF LInv, BranchKept, InBranch
<1>2. n \in Bd.physical /\ n \notin DOMAIN Bd.literals BY <1>1, CasesAssumption DEF RenamedColumns, Bd
<1>3. CASE n \in PhysicalDims
  BY <1>1, <1>2, <1>3 DEF DimColumns
<1>4. CASE \E d \in ComputedDims \ null_dims : n \in CaseRefs(query.computed[d])
  BY <1>1, <1>2, <1>4 DEF ComputedColumns
<1>5. ASSUME NEW m \in Covered \ DOMAIN Bd.literals, NEW c \in ToSet(Constituents(m)), c \in DOMAIN query.measures,
             n \in query.measures[c].refs \cup query.measures[c].filters
      PROVE  Column[n] \in scan
  <2>1. n = c BY <1>1, <1>5, BareMeasure
  <2>2. c \in (UNION {ToSet(Constituents(k)) : k \in Covered \ DOMAIN Bd.literals}) \ DOMAIN Bd.literals
    BY <1>2, <1>5, <2>1
  <2>3. Column[n] \in Lower(Bd, query.measures[c].refs \cup query.measures[c].filters)
    BY <1>2, <1>5 DEF Lower
  <2>4. Column[n] \in MeasureColumns BY <2>2, <2>3 DEF MeasureColumns
  <2> QED BY <1>1, <2>4
<1>6. CASE \E m \in (Covered \cap DOMAIN query.measures) \ DOMAIN Bd.literals :
             n \in query.measures[m].refs \cup query.measures[m].filters
  <2>1. PICK m \in (Covered \cap DOMAIN query.measures) \ DOMAIN Bd.literals :
          n \in query.measures[m].refs \cup query.measures[m].filters
    BY <1>6
  <2>2. m \in ToSet(Constituents(m)) BY <1>1, <2>1, ConstituentsMeasures
  <2> QED BY <1>5, <2>1, <2>2
<1>7. CASE \E m \in (Covered \cap DOMAIN query.metrics) \ DOMAIN Bd.literals : \E c \in ToSet(Constituents(m)) :
             n \in query.measures[c].refs
  <2>1. PICK m \in (Covered \cap DOMAIN query.metrics) \ DOMAIN Bd.literals :
          \E c \in ToSet(Constituents(m)) : n \in query.measures[c].refs
    BY <1>7
  <2>2. PICK c \in ToSet(Constituents(m)) : n \in query.measures[c].refs BY <2>1
  <2>3. c \in DOMAIN query.measures BY <2>1, <2>2, PartsRenamed DEF InBranch
  <2> QED BY <1>5, <2>1, <2>2, <2>3
<1> QED BY <1>3, <1>4, <1>6, <1>7, RenamedColumnsAre

(* The values that decide a CASE.                                          *)
LEMMA KnownAreValues ==
  ASSUME query \in Cases, NEW b \in DOMAIN query.bindings,
         NEW source \in ToSet(SourcesToPlan(query.bindings[b])),
         NEW n \in DOMAIN KnownValues(query.bindings[b], source)
  PROVE  KnownValues(query.bindings[b], source)[n] \in Values \cup {NoValue}
<1> DEFINE bd == query.bindings[b]
<1>1. /\ bd.sources \in Seq([query.metadata -> Values])
      /\ \A k \in DOMAIN bd.literals : bd.literals[k] \in Values
  BY CasesAssumption
<1>2. source \in [query.metadata -> Values \cup {NoValue}]
  <2>1. CASE bd.sources = <<>>
    <3>1. SourcesToPlan(bd) = <<[k \in query.metadata |-> NoValue]>>
      BY <2>1 DEF SourcesToPlan, FirstSource
    <3>2. source = [k \in query.metadata |-> NoValue] BY <3>1 DEF ToSet
    <3> QED BY <3>2
  <2>2. CASE bd.sources # <<>>
    <3>1. source \in ToSet(bd.sources) BY <2>2 DEF SourcesToPlan
    <3>2. source \in [query.metadata -> Values] BY <1>1, <3>1, LenProperties, ElementOfSeq DEF ToSet
    <3> QED BY <3>2
  <2> QED BY <2>1, <2>2
<1> QED BY <1>1, <1>2 DEF KnownValues

LEMMA SourceClosed ==
  ASSUME LInv, WellMapped, pc = "sources", NEW source \in ToSet(SourcesToPlan(Bd))
  PROVE  UnprovidedOver(source) = {}
<1> DEFINE known == KnownValues(Bd, source)
           resolved == ComputedDims \ null_dims
<1>1. /\ query \in Cases /\ Len(branches) + 1 \in DOMAIN query.bindings
      /\ scan = DimColumns \cup ComputedColumns \cup MeasureColumns \cup Lower(Bd, query.filters)
      /\ PhysicalDims \ null_dims \subseteq Mapped(Bd)
      /\ ToSet(aggregates) = {query.measures[c] : c \in PartsOf(Covered)}
  BY DEF LInv, BranchKept, InBranch
<1>2. Lower(Bd, query.filters) \subseteq scan BY <1>1
<1>3. {Column[n] : n \in RenamedColumns} \subseteq scan BY RenamedScanned
<1>4. UNION {SimplifiedRefs(query.computed[d], known) : d \in resolved} \subseteq Renamed
  <2> SUFFICES ASSUME NEW d \in resolved, NEW n \in SimplifiedRefs(query.computed[d], known)
               PROVE  n \in RenamedColumns
    BY DEF Renamed
  <2>1. n \in Bd.physical BY <1>1 DEF WellMapped, Bd
  <2>2. n \in CaseRefs(query.computed[d])
    <3>1. query.computed[d] \in Computed /\ d \in DOMAIN query.computed BY <1>1, CasesAssumption DEF ComputedDims
    <3>2. CASE query.computed[d].on \in DOMAIN known
      <4>1. known[query.computed[d].on] \in Values \cup {NoValue}
        BY <1>1, <3>2, KnownAreValues DEF Bd
      <4> QED BY <3>1, <3>2, <4>1 DEF SimplifiedRefs, CaseRefs, Computed
    <3>3. CASE query.computed[d].on \notin DOMAIN known
      BY <3>3 DEF SimplifiedRefs
    <3> QED BY <3>2, <3>3
  <2> QED BY <2>1, <2>2 DEF RenamedColumns
<1>5. GroupBy \subseteq Renamed \cup resolved
  <2> SUFFICES ASSUME NEW d \in Dims, d \notin null_dims PROVE d \in Renamed \cup resolved
    BY DEF GroupBy
  <2>1. CASE d \in DOMAIN query.computed BY <2>1 DEF ComputedDims
  <2>2. CASE d \in query.metadata BY <2>2 DEF Renamed, Constants
  <2>3. CASE d \in PhysicalDims
    <3>1. d \in Mapped(Bd) /\ d \notin ComputedDims BY <1>1, <2>3 DEF PhysicalDims, ComputedDims
    <3>2. CASE d \in Bd.physical BY <2>3, <3>2 DEF Renamed, RenamedColumns
    <3>3. CASE d \in DOMAIN Bd.literals BY <3>1, <3>3 DEF Renamed, Constants
    <3> QED BY <3>1, <3>2, <3>3 DEF Mapped
  <2> QED BY <2>1, <2>2, <2>3 DEF PhysicalDims
<1>6. UNION {a.refs \cup a.filters : a \in ToSet(aggregates)} \subseteq Renamed
  <2> SUFFICES ASSUME NEW c \in PartsOf(Covered)
               PROVE  query.measures[c].refs \cup query.measures[c].filters \subseteq Renamed
    BY <1>1
  <2>1. PICK m \in Covered : c \in ToSet(Constituents(m)) BY DEF PartsOf
  <2>2. c \in Renamed /\ c \in DOMAIN query.measures BY <2>1, PartsRenamed DEF InBranch
  <2> QED BY <1>1, <2>2, BareMeasure
<1> QED BY <1>2, <1>3, <1>4, <1>5, <1>6 DEF UnprovidedOver, Unprovided

(* The projection of a branch finds each part among the fields.            *)
LEMMA ProjectClosed ==
  ASSUME LInv, WellMapped, pc = "project"
  PROVE  Unprovided("project", GroupBy \cup UNION {ToSet(Constituents(m)) : m \in Covered},
                    GroupBy \cup Fields) = {}
<1> SUFFICES ASSUME NEW m \in Covered, NEW c \in ToSet(Constituents(m)) PROVE c \in Fields
  BY DEF Unprovided
<1>1. query \in Cases /\ ToSet(aggregates) = {query.measures[k] : k \in PartsOf(Covered)}
  BY DEF LInv, BranchKept
<1>2. c \in DOMAIN query.measures BY PartsRenamed DEF InBranch
<1>3. c \in PartsOf(Covered) BY DEF PartsOf
<1>4. query.measures[c] \in ToSet(aggregates) BY <1>1, <1>3
<1> QED BY <1>1, <1>2, <1>4, BareMeasure DEF Fields, IsBare

(* Once the partial aggregates are merged, a metric finds its parts.       *)
LEMMA MetricsClosed ==
  ASSUME AskedKept, pc = "reaggregate"
  PROVE  Unprovided("metrics", UNION {ToSet(Constituents(m)) : m \in ToSet(query.requested)},
                    ToSet(asked)) = {}
  BY DEF AskedKept, PartsOf, Unprovided

-----------------------------------------------------------------------------
(* Partial aggregates that are not re-aggregated have no key in common.    *)

(* Two sources of a binding differ in no literal, so what tells them apart *)
(* is metadata.                                                            *)
LEMMA DistinguishedSources ==
  ASSUME query \in Cases, NEW b \in DOMAIN query.bindings, NEW dims \in SUBSET Dims,
         Distinguishing([s \in DOMAIN query.bindings[b].sources |->
                           KnownValues(query.bindings[b], query.bindings[b].sources[s])], dims)
  PROVE  SourcesApart(b)
<1> DEFINE bd == query.bindings[b]
           known == [s \in DOMAIN bd.sources |-> KnownValues(bd, bd.sources[s])]
<1> SUFFICES ASSUME NEW s \in DOMAIN bd.sources, NEW t \in DOMAIN bd.sources, s # t PROVE Apart(b, s, b, t)
  BY DEF SourcesApart
<1>1. PICK d \in dims : DistinctValues(known, d) BY DEF Distinguishing
<1>2. /\ d \in DOMAIN KnownValues(bd, bd.sources[s]) /\ d \in DOMAIN KnownValues(bd, bd.sources[t])
      /\ KnownValues(bd, bd.sources[s])[d] # KnownValues(bd, bd.sources[t])[d]
  BY <1>1 DEF DistinctValues
<1>3. d \in query.metadata BY <1>2 DEF KnownValues
<1>4. d \notin DOMAIN query.computed BY <1>3, CasesAssumption
<1> QED BY <1>2, <1>4 DEF Apart, Fixed

LEMMA DistinguishedBindings ==
  ASSUME query \in Cases, skip_reagg, SkipJustified, ComputedHaveNoLiteral,
         NEW b \in DOMAIN query.bindings, NEW c \in DOMAIN query.bindings, b # c,
         Len(query.bindings[b].sources) = 1, Len(query.bindings[c].sources) = 1
  PROVE  Apart(b, 1, c, 1)
<1> DEFINE First(k) == KnownValues(query.bindings[k], FirstSource(query.bindings[k]))
           known == [k \in DOMAIN query.bindings |-> First(k)]
<1>1. PICK d \in Dims : DistinctValues(known, d) BY DEF SkipJustified, Distinguishing
<1>2. d \in DOMAIN First(b) /\ d \in DOMAIN First(c) /\ First(b)[d] # First(c)[d]
  BY <1>1 DEF DistinctValues
<1>3. ASSUME NEW k \in DOMAIN query.bindings, Len(query.bindings[k].sources) = 1
      PROVE  FirstSource(query.bindings[k]) = query.bindings[k].sources[1]
  <2>1. query.bindings[k].sources # <<>>
    <3>1. Len(<<>>) = 0 OBVIOUS
    <3>2. 1 # 0 OBVIOUS
    <3> QED BY <1>3, <3>1, <3>2
  <2> QED BY <2>1 DEF FirstSource
<1>4. d \in query.metadata \cup DOMAIN query.bindings[b].literals BY <1>2 DEF KnownValues
<1>5. d \notin DOMAIN query.computed BY <1>4, CasesAssumption DEF ComputedHaveNoLiteral
<1> QED BY <1>2, <1>3, <1>5 DEF Apart, Fixed

LEMMA SkipFromInvariant == LInv => SkipMergesNothing
<1> SUFFICES ASSUME LInv PROVE SkipMergesNothing
  OBVIOUS
<1>1. \A b \in DOMAIN branches : branches[b].merge.how = "union" =>
        \A s, t \in DOMAIN query.bindings[b].sources : s # t => Apart(b, s, b, t)
  BY DEF LInv, UnionsApart, SourcesApart
<1>2. (/\ skip_reagg /\ ComputedHaveNoLiteral
       /\ \A b \in DOMAIN query.bindings : Len(query.bindings[b].sources) = 1) =>
        \A b, c \in DOMAIN query.bindings : b # c => Apart(b, 1, c, 1)
  BY DistinguishedBindings DEF LInv
<1> QED BY <1>1, <1>2 DEF SkipMergesNothing

-----------------------------------------------------------------------------
(* The steps.                                                              *)

LEMMA LayersStart == Init => LInv
<1> SUFFICES ASSUME Init PROVE LInv OBVIOUS
<1>1. query \in Cases /\ asked = <<>> /\ branches = <<>> /\ pc = "classify" /\ skip_reagg = FALSE
      /\ sourced = 0 /\ merge = Single /\ unprovided = {}
  BY DEF Init
<1>2. AskedKept BY <1>1, EmptySeq DEF AskedKept
<1>3. BranchKept BY <1>1, EmptySeq DEF BranchKept, InBranch
<1>4. UnionsApart BY <1>1 DEF UnionsApart, Single
<1> QED BY <1>1, <1>2, <1>3, <1>4 DEF LInv, Closed, SkipJustified

(* What only depends on the query, and on the branches built.              *)
LEMMA SameQuery ==
  ASSUME query' = query
  PROVE  /\ Dims' = Dims /\ ComputedDims' = ComputedDims /\ PhysicalDims' = PhysicalDims
         /\ Partial' = Partial /\ WellMapped' = WellMapped
         /\ \A m : Constituents(m)' = Constituents(m)
         /\ \A ms : PartsOf(ms)' = PartsOf(ms)
         /\ \A bd, source : KnownValues(bd, source)' = KnownValues(bd, source)
         /\ \A bd : FirstSource(bd)' = FirstSource(bd)
         /\ \A b, s, c, t : Apart(b, s, c, t)' = Apart(b, s, c, t)
         /\ \A b : SourcesApart(b)' = SourcesApart(b)
<1>1. /\ Dims' = Dims /\ ComputedDims' = ComputedDims /\ PhysicalDims' = PhysicalDims /\ Partial' = Partial
  BY DEF Dims, ComputedDims, PhysicalDims, Partial
<1>2. /\ \A m : Constituents(m)' = Constituents(m)
      /\ \A bd, source : KnownValues(bd, source)' = KnownValues(bd, source)
      /\ \A bd : FirstSource(bd)' = FirstSource(bd)
  BY DEF Constituents, KnownValues, FirstSource
<1>3. \A ms : PartsOf(ms)' = PartsOf(ms) BY <1>2 DEF PartsOf
<1>4. \A b, s, c, t : Apart(b, s, c, t)' = Apart(b, s, c, t)
  BY <1>1, <1>2 DEF Apart, Fixed
<1>5. \A b : SourcesApart(b)' = SourcesApart(b) BY <1>4 DEF SourcesApart
<1>6. WellMapped' = WellMapped
  <2>1. \A bd : SourcesToPlan(bd)' = SourcesToPlan(bd) BY <1>2 DEF SourcesToPlan
  <2>2. WellMapped => WellMapped' BY <1>1, <1>2, <2>1 DEF WellMapped
  <2>3. WellMapped' => WellMapped BY <1>1, <1>2, <2>1 DEF WellMapped
  <2> QED BY <2>2, <2>3 DEF WellMapped
<1> QED BY <1>1, <1>2, <1>3, <1>4, <1>5, <1>6

LEMMA SameBranch ==
  ASSUME UNCHANGED <<query, branches, asked>>
  PROVE  Bd' = Bd /\ Covered' = Covered /\ PartsOf(Covered)' = PartsOf(Covered)
<1>1. Bd' = Bd BY DEF Bd
<1>2. Covered' = Covered BY <1>1, SameQuery DEF Covered, Mapped
<1> QED BY <1>1, <1>2, SameQuery DEF PartsOf

(* The parts of the invariant that no step within a branch disturbs.       *)
LEMMA Undisturbed ==
  ASSUME LInv, UNCHANGED <<query, skip_reagg, asked, branches>>
  PROVE  /\ query' \in Cases /\ SkipJustified'
         /\ (pc # "classify" /\ (pc' = "reaggregate" => Partial /\ ~skip_reagg)) => AskedKept'
         /\ merge' = merge => UnionsApart'
         /\ unprovided' = unprovided => Closed'
<1>1. query' \in Cases BY DEF LInv
<1>2. SkipJustified'
  <2>1. [b \in DOMAIN query.bindings |-> KnownValues(query.bindings[b], FirstSource(query.bindings[b]))]' =
          [b \in DOMAIN query.bindings |-> KnownValues(query.bindings[b], FirstSource(query.bindings[b]))]
    BY SameQuery
  <2>2. Dims' = Dims /\ skip_reagg' = skip_reagg BY SameQuery
  <2> QED BY <2>1, <2>2 DEF LInv, SkipJustified
<1>3. (pc # "classify" /\ (pc' = "reaggregate" => Partial /\ ~skip_reagg)) => AskedKept'
  BY SameQuery DEF LInv, AskedKept
<1>4. merge' = merge => UnionsApart' BY SameQuery DEF LInv, UnionsApart
<1>5. unprovided' = unprovided => Closed' BY SameQuery DEF LInv, Closed
<1> QED BY <1>1, <1>2, <1>3, <1>4, <1>5

LEMMA SameLayers ==
  ASSUME UNCHANGED <<query, branches, asked, null_dims>>
  PROVE  /\ DimColumns' = DimColumns /\ ComputedColumns' = ComputedColumns
         /\ MeasureColumns' = MeasureColumns
         /\ Lower(Bd, query.filters)' = Lower(Bd, query.filters)
<1>1. Bd' = Bd /\ Covered' = Covered BY SameBranch
<1>2. ComputedDims' = ComputedDims /\ PhysicalDims' = PhysicalDims /\ \A m : Constituents(m)' = Constituents(m)
  BY SameQuery
<1>3. DimColumns' = DimColumns BY <1>1, <1>2 DEF DimColumns
<1>4. ComputedColumns' = ComputedColumns BY <1>1, <1>2 DEF ComputedColumns
<1>5. MeasureColumns' = MeasureColumns
  <2>1. {ToSet(Constituents(m)) : m \in Covered \ DOMAIN Bd.literals}' =
          {ToSet(Constituents(m)) : m \in Covered \ DOMAIN Bd.literals}
    BY <1>1, <1>2
  <2> QED BY <1>1, <2>1 DEF MeasureColumns
<1>6. Lower(Bd, query.filters)' = Lower(Bd, query.filters) BY <1>1
<1> QED BY <1>3, <1>4, <1>5, <1>6

LEMMA OverItself ==
  ASSUME NEW S, NEW s \in Seq(S)
  PROVE  s \in Seq(ToSet(s))
<1>1. PICK n \in Nat : n = Len(s) /\ DOMAIN s = 1 .. n /\ s = [i \in 1 .. n |-> s[i]]
  BY LenProperties
<1>2. \A i \in 1 .. n : s[i] \in ToSet(s) BY <1>1 DEF ToSet
<1>3. s \in [1 .. n -> ToSet(s)] BY <1>1, <1>2
<1> QED BY <1>3

LEMMA BindingsCounted ==
  ASSUME query \in Cases
  PROVE  Len(query.bindings) \in Nat /\ DOMAIN query.bindings = 1 .. Len(query.bindings)
<1>1. query.bindings \in Seq(ToSet(query.bindings)) BY CasesAssumption
<1> QED BY <1>1, LenProperties

LEMMA StepClassify == LInv /\ Classify => LInv'
<1> SUFFICES ASSUME LInv, Classify PROVE LInv' OBVIOUS
<1>1. /\ pc = "classify" /\ pc' \in {"error", "dims"} /\ (query.bindings = <<>> => pc' = "error")
      /\ UNCHANGED <<query, branches, branch, unprovided>>
  BY DEF Classify
<1>2. query \in Cases /\ query' \in Cases BY <1>1 DEF LInv
<1>3. ASSUME Partial PROVE AskedKept' /\ SkipJustified'
  <2> DEFINE known == [b \in DOMAIN query.bindings |-> KnownValues(query.bindings[b], FirstSource(query.bindings[b]))]
  <2>1. skip_reagg' = Distinguishing(known, Dims) /\ asked' = BranchMeasures(skip_reagg')
    BY <1>3 DEF Classify, Dims
  <2>2. skip_reagg' \in BOOLEAN BY <2>1 DEF Distinguishing
  <2>3. SkipJustified'
    <3>1. known' = known BY <1>1, SameQuery
    <3>2. Dims' = Dims BY <1>1, SameQuery
    <3> QED BY <2>1, <3>1, <3>2 DEF SkipJustified
  <2>4. AskedKept'
    <3>1. query.requested \in Seq(DOMAIN query.measures \cup DOMAIN query.metrics) BY <1>2, CasesAssumption
    <3>2. CASE skip_reagg'
      <4>1. asked' = query.requested BY <2>1, <3>2 DEF BranchMeasures
      <4> QED BY <1>1, <3>1, <3>2, <4>1 DEF AskedKept
    <3>3. CASE ~skip_reagg'
      <4>1. skip_reagg' = FALSE BY <2>2, <3>3
      <4>2. asked' = BranchMeasures(FALSE) BY <2>1, <4>1
      <4>3. asked' \in Seq(DOMAIN query.measures) /\ ToSet(asked') = PartsOf(ToSet(query.requested))
        BY <1>2, <4>2, ExpandedRequest
      <4>4. asked' \in Seq(DOMAIN query.measures \cup DOMAIN query.metrics) BY <4>3
      <4>5. Partial' /\ PartsOf(ToSet(query.requested))' = PartsOf(ToSet(query.requested))
        BY <1>1, <1>3, SameQuery
      <4> QED BY <1>1, <3>3, <4>3, <4>4, <4>5 DEF AskedKept
    <3> QED BY <3>2, <3>3
  <2> QED BY <2>3, <2>4
<1>4. ASSUME ~Partial PROVE AskedKept' /\ SkipJustified'
  <2>1. asked' = query.requested /\ skip_reagg' = skip_reagg BY <1>4 DEF Classify
  <2>2. query.requested \in Seq(DOMAIN query.measures \cup DOMAIN query.metrics) BY <1>2, CasesAssumption
  <2>3. ~Partial' BY <1>1, <1>4, SameQuery
  <2>4. AskedKept' BY <1>1, <2>1, <2>2, <2>3 DEF AskedKept
  <2>5. SkipJustified'
    <3>1. [b \in DOMAIN query.bindings |-> KnownValues(query.bindings[b], FirstSource(query.bindings[b]))]' =
            [b \in DOMAIN query.bindings |-> KnownValues(query.bindings[b], FirstSource(query.bindings[b]))]
      BY <1>1, SameQuery
    <3>2. Dims' = Dims BY <1>1, SameQuery
    <3> QED BY <2>1, <3>1, <3>2 DEF LInv, SkipJustified
  <2> QED BY <2>4, <2>5
<1>5. AskedKept' /\ SkipJustified'
  BY <1>3, <1>4
<1>6. BranchKept'
  <2>1. branches' = <<>> /\ sourced' \in Nat BY <1>1 DEF LInv, BranchKept, branch
  <2>2. branches' \in Seq(ToSet(branches')) BY <2>1, EmptySeq
  <2>3. query.bindings # <<>> => Len(branches') + 1 \in DOMAIN query'.bindings
    <3> DEFINE bds == query.bindings
    <3>1. Len(bds) \in Nat /\ DOMAIN bds = 1 .. Len(bds) BY <1>2, BindingsCounted
    <3>2. bds \in Seq(ToSet(bds)) BY <1>2, CasesAssumption
    <3>3. bds # <<>> => Len(bds) # 0 BY <3>2, EmptySeq
    <3>4. Len(branches') = 0 BY <2>1
    <3> HIDE DEF bds
    <3>5. bds # <<>> => 0 + 1 \in DOMAIN bds BY <3>1, <3>3
    <3> QED BY <1>1, <3>4, <3>5 DEF bds
  <2> QED BY <1>1, <2>1, <2>2, <2>3 DEF BranchKept, InBranch
<1>7. UnionsApart' /\ Closed' BY <1>1, SameQuery DEF LInv, UnionsApart, Closed, branch
<1> QED BY <1>2, <1>5, <1>6, <1>7 DEF LInv

LEMMA StepResolveDims == LInv /\ ResolveDims => LInv'
<1> SUFFICES ASSUME LInv, ResolveDims PROVE LInv' OBVIOUS
<1>1. /\ pc = "dims" /\ pc' \in {"error", "scan"}
      /\ UNCHANGED <<query, skip_reagg, asked, branches, scan, all_aggs, aggregates, sourced, merge, unprovided>>
      /\ pc' = "scan" => PhysicalDims \ Mapped(Bd) \subseteq null_dims'
  BY DEF ResolveDims
<1>2. Bd' = Bd BY <1>1, SameBranch
<1>3. PhysicalDims' = PhysicalDims BY <1>1, SameQuery
<1>4. pc' = "scan" => (PhysicalDims \ null_dims \subseteq Mapped(Bd))'
  <2>1. Mapped(Bd)' = Mapped(Bd) BY <1>2 DEF Mapped
  <2>2. pc' = "scan" => PhysicalDims \ null_dims' \subseteq Mapped(Bd) BY <1>1
  <2> QED BY <1>3, <2>1, <2>2
<1>5. BranchKept' BY <1>1, <1>4 DEF LInv, BranchKept, InBranch
<1> QED BY <1>1, <1>5, Undisturbed DEF LInv

LEMMA StepCollectScan == LInv /\ CollectScan => LInv'
<1> SUFFICES ASSUME LInv, CollectScan PROVE LInv' OBVIOUS
<1>1. /\ pc = "scan" /\ pc' = "decompose"
      /\ scan' = DimColumns \cup ComputedColumns \cup MeasureColumns \cup Lower(Bd, query.filters)
      /\ UNCHANGED <<query, skip_reagg, asked, branches, null_dims, all_aggs, aggregates, sourced, merge, unprovided>>
  BY DEF CollectScan
<1>2. scan' = (DimColumns \cup ComputedColumns \cup MeasureColumns \cup Lower(Bd, query.filters))'
  BY <1>1, SameLayers
<1>3. (PhysicalDims \ null_dims \subseteq Mapped(Bd))'
  <2>1. Bd' = Bd /\ PhysicalDims' = PhysicalDims BY <1>1, SameBranch, SameQuery
  <2>2. PhysicalDims \ null_dims \subseteq Mapped(Bd) BY <1>1 DEF LInv, BranchKept, InBranch
  <2> QED BY <1>1, <2>1, <2>2 DEF Mapped
<1>4. BranchKept' BY <1>1, <1>2, <1>3 DEF LInv, BranchKept, InBranch
<1> QED BY <1>1, <1>4, Undisturbed DEF LInv

(* A step that leaves the layers of the branch as they are.                *)
LEMMA SameBranchKept ==
  ASSUME LInv, UNCHANGED <<query, asked, branches, null_dims, scan>>, sourced' \in Nat,
         pc \in InBranch \ {"dims", "scan"}, pc' \in {"sources", "project"},
         ToSet(aggregates') = {query.measures[c] : c \in PartsOf(Covered)}
  PROVE  BranchKept'
<1>1. Bd' = Bd /\ PhysicalDims' = PhysicalDims /\ PartsOf(Covered)' = PartsOf(Covered)
  BY SameBranch, SameQuery
<1>2. scan' = (DimColumns \cup ComputedColumns \cup MeasureColumns \cup Lower(Bd, query.filters))'
  BY SameLayers DEF LInv, BranchKept, InBranch
<1>3. (PhysicalDims \ null_dims \subseteq Mapped(Bd))'
  BY <1>1 DEF LInv, BranchKept, InBranch, Mapped
<1>4. ToSet(aggregates') = {query.measures[c] : c \in PartsOf(Covered)}' BY <1>1
<1> QED BY <1>2, <1>3, <1>4 DEF LInv, BranchKept, InBranch

LEMMA StepDecompose == LInv /\ Decompose => LInv'
<1> SUFFICES ASSUME LInv, Decompose PROVE LInv' OBVIOUS
<1>1. /\ pc = "decompose" /\ pc' = "sources"
      /\ aggregates' = Distinct(Expand(asked, Aggregates))
      /\ UNCHANGED <<query, skip_reagg, asked, branches, null_dims, scan, sourced, merge, unprovided>>
  <2>1. all_aggs' = Expand(asked, Aggregates) /\ aggregates' = Distinct(all_aggs') BY DEF Decompose
  <2> QED BY <2>1 DEF Decompose
<1>2. ToSet(aggregates') = {query.measures[c] : c \in PartsOf(Covered)}
  BY <1>1, BranchAggregates DEF LInv, AskedKept
<1>3. BranchKept' BY <1>1, <1>2, SameBranchKept DEF LInv, BranchKept, InBranch
<1> QED BY <1>1, <1>3, Undisturbed DEF LInv

LEMMA StepRefuseMetric == LInv /\ RefuseMetric => LInv'
<1> SUFFICES ASSUME LInv, RefuseMetric PROVE LInv' OBVIOUS
<1>1. /\ pc # "classify" /\ pc' = "error"
      /\ UNCHANGED <<query, skip_reagg, asked, branches, sourced, merge, unprovided>>
  BY DEF RefuseMetric, branch
<1>2. BranchKept' BY <1>1 DEF LInv, BranchKept, InBranch
<1> QED BY <1>1, <1>2, Undisturbed DEF LInv

LEMMA StepPlanSource == LInv /\ PlanSource => LInv'
<1> SUFFICES ASSUME LInv, PlanSource PROVE LInv' OBVIOUS
<1> DEFINE sources == SourcesToPlan(Bd)
<1>1. /\ pc = "sources" /\ pc' = "sources" /\ sourced < Len(sources) /\ sourced' = sourced + 1
      /\ unprovided' = unprovided \cup UnprovidedOver(sources[sourced + 1])
      /\ UNCHANGED <<query, skip_reagg, asked, branches, null_dims, scan, all_aggs, aggregates, merge>>
  BY DEF PlanSource
<1>2. query \in Cases /\ Len(branches) + 1 \in DOMAIN query.bindings /\ sourced \in Nat
  BY <1>1 DEF LInv, BranchKept, InBranch
<1>3. BranchKept'
  <2>1. ToSet(aggregates') = {query.measures[c] : c \in PartsOf(Covered)}
    BY <1>1 DEF LInv, BranchKept
  <2> QED BY <1>1, <1>2, <2>1, SameBranchKept DEF InBranch
<1>4. Closed'
  <2> SUFFICES ASSUME WellMapped' PROVE unprovided' = {} BY DEF Closed
  <2>1. WellMapped BY <1>1, SameQuery
  <2>2. sources[sourced + 1] \in ToSet(sources)
    <3>1. \E S : sources \in Seq(S)
      <4>1. Bd.sources \in Seq([query.metadata -> Values]) BY <1>2, CasesAssumption DEF Bd
      <4>2. <<FirstSource(Bd)>> \in Seq({FirstSource(Bd)}) OBVIOUS
      <4> QED BY <4>1, <4>2 DEF SourcesToPlan
    <3>2. PICK n \in Nat : n = Len(sources) /\ DOMAIN sources = 1 .. n BY <3>1, LenProperties
    <3> HIDE DEF sources
    <3>3. sourced + 1 \in DOMAIN sources BY <1>1, <1>2, <3>2
    <3> QED BY <3>3 DEF ToSet
  <2>3. UnprovidedOver(sources[sourced + 1]) = {} BY <1>1, <2>1, <2>2, SourceClosed
  <2> QED BY <1>1, <2>1, <2>3 DEF LInv, Closed
<1> QED BY <1>1, <1>3, <1>4, Undisturbed DEF LInv

LEMMA StepMergeSources == LInv /\ MergeSources => LInv'
<1> SUFFICES ASSUME LInv, MergeSources PROVE LInv' OBVIOUS
<1> DEFINE b == Len(branches) + 1
           known == [s \in DOMAIN Bd.sources |-> KnownValues(Bd, Bd.sources[s])]
<1>1. /\ pc = "sources" /\ pc' = "project"
      /\ merge' = IF sourced = 1 THEN Single
                  ELSE IF Distinguishing(known, GroupBy) THEN [Single EXCEPT !.how = "union"]
                  ELSE [how |-> "reaggregate", functions |-> MergeFunctions]
      /\ UNCHANGED <<query, skip_reagg, asked, branches, null_dims, scan, all_aggs, aggregates, sourced, unprovided>>
  BY DEF MergeSources
<1>2. query \in Cases /\ b \in DOMAIN query.bindings /\ sourced' \in Nat
  BY <1>1 DEF LInv, BranchKept, InBranch
<1>3. BranchKept'
  <2>1. ToSet(aggregates') = {query.measures[c] : c \in PartsOf(Covered)}
    BY <1>1 DEF LInv, BranchKept
  <2> QED BY <1>1, <1>2, <2>1, SameBranchKept DEF InBranch
<1>4. merge'.how = "union" => Distinguishing(known, GroupBy)
  <2> HIDE DEF known
  <2>1. Single.how = "single" BY DEF Single
  <2>2. [how |-> "reaggregate", functions |-> MergeFunctions].how = "reaggregate" OBVIOUS
  <2>3. sourced = 1 => merge'.how = "single" BY <1>1, <2>1
  <2>4. sourced # 1 /\ ~Distinguishing(known, GroupBy) => merge'.how = "reaggregate" BY <1>1, <2>2
  <2> QED BY <2>3, <2>4
<1>5. merge'.how = "union" => SourcesApart(b)
  <2>1. GroupBy \subseteq Dims BY DEF GroupBy
  <2>2. Bd = query.bindings[b] BY DEF Bd
  <2> QED BY <1>2, <1>4, <2>1, <2>2, DistinguishedSources
<1>6. UnionsApart'
  <2>1. \A k : SourcesApart(k)' = SourcesApart(k) BY <1>1, SameQuery
  <2>2. (Len(branches) + 1)' = b BY <1>1
  <2>3. merge'.how = "union" => SourcesApart(Len(branches) + 1)' BY <1>5, <2>1, <2>2
  <2>4. \A k \in DOMAIN branches' : branches'[k].merge.how = "union" => SourcesApart(k)'
    BY <1>1, <2>1 DEF LInv, UnionsApart
  <2> QED BY <2>3, <2>4 DEF UnionsApart
<1> QED BY <1>1, <1>3, <1>6, Undisturbed DEF LInv

LEMMA StepProject == LInv /\ Project => LInv'
<1> SUFFICES ASSUME LInv, Project PROVE LInv' OBVIOUS
<1> DEFINE built == [nulls |-> null_dims, aggregates |-> aggregates, merge |-> merge]
           b == Len(branches) + 1
<1>1. /\ pc = "project" /\ branches' = Append(branches, built) /\ sourced' = 0 /\ merge' = Single
      /\ pc' = IF Len(branches') < Len(query.bindings) THEN "dims"
               ELSE IF Partial /\ ~skip_reagg THEN "reaggregate" ELSE "planned"
      /\ UNCHANGED <<query, skip_reagg, asked>>
  BY DEF Project
<1>2. query \in Cases /\ query' \in Cases /\ branches \in Seq(ToSet(branches))
      /\ b \in DOMAIN query.bindings
  BY <1>1 DEF LInv, BranchKept, InBranch
<1>3. PICK n \in Nat : n = Len(branches) /\ DOMAIN branches = 1 .. n BY <1>2, LenProperties
<1>4. /\ branches' \in Seq(ToSet(branches) \cup {built}) /\ Len(branches') = n + 1
      /\ DOMAIN branches' = 1 .. n + 1
      /\ branches'[n + 1] = built /\ \A k \in 1 .. n : branches'[k] = branches[k]
  <2> DEFINE S == ToSet(branches) \cup {built}
  <2>1. branches \in Seq(S) /\ built \in S BY <1>2
  <2> HIDE DEF S, built
  <2>2. branches' \in Seq(S) /\ Len(branches') = n + 1 BY <1>1, <1>3, <2>1
  <2>3. branches'[n + 1] = built /\ \A k \in 1 .. n : branches'[k] = branches[k]
    BY <1>1, <1>3, <2>1
  <2>4. DOMAIN branches' = 1 .. n + 1 BY <2>2, LenProperties
  <2> QED BY <2>2, <2>3, <2>4 DEF S
<1>5. AskedKept'
  <2>1. pc' # "classify" /\ (pc' = "reaggregate" => Partial /\ ~skip_reagg) BY <1>1
  <2>2. Partial' = Partial /\ PartsOf(ToSet(query.requested))' = PartsOf(ToSet(query.requested))
    BY <1>1, SameQuery
  <2> QED BY <1>1, <2>1, <2>2 DEF LInv, AskedKept
<1>6. BranchKept'
  <2>1. branches' \in Seq(ToSet(branches')) BY <1>4, OverItself
  <2>2. pc' \in InBranch => Len(branches') + 1 \in DOMAIN query'.bindings
    <3>1. Len(query.bindings) \in Nat /\ DOMAIN query.bindings = 1 .. Len(query.bindings)
      BY <1>2, BindingsCounted
    <3>2. pc' \in InBranch => Len(branches') < Len(query.bindings) BY <1>1 DEF InBranch
    <3> QED BY <1>1, <1>4, <3>1, <3>2
  <2>3. pc' \in {"dims", "reaggregate", "planned"} BY <1>1
  <2> QED BY <1>1, <2>1, <2>2, <2>3 DEF BranchKept, InBranch
<1>7. Closed'
  <2> SUFFICES ASSUME WellMapped' PROVE unprovided' = {} BY DEF Closed
  <2>1. WellMapped BY <1>1, SameQuery
  <2>2. unprovided' = unprovided \cup
          Unprovided("project", GroupBy \cup UNION {ToSet(Constituents(m)) : m \in Covered}, GroupBy \cup Fields)
    BY DEF Project
  <2>3. Unprovided("project", GroupBy \cup UNION {ToSet(Constituents(m)) : m \in Covered}, GroupBy \cup Fields) = {}
    BY <1>1, <2>1, ProjectClosed
  <2>4. unprovided = {} BY <2>1 DEF LInv, Closed
  <2> QED BY <2>2, <2>3, <2>4
<1>8. SkipJustified'
  <2>1. [k \in DOMAIN query.bindings |-> KnownValues(query.bindings[k], FirstSource(query.bindings[k]))]' =
          [k \in DOMAIN query.bindings |-> KnownValues(query.bindings[k], FirstSource(query.bindings[k]))]
    BY <1>1, SameQuery
  <2>2. Dims' = Dims BY <1>1, SameQuery
  <2> QED BY <1>1, <2>1, <2>2 DEF LInv, SkipJustified
<1>9. UnionsApart'
  <2>1. \A k : SourcesApart(k)' = SourcesApart(k) BY <1>1, SameQuery
  <2>2. Single.how # "union" BY DEF Single
  <2>3. ASSUME NEW k \in 1 .. n + 1, branches'[k].merge.how = "union" PROVE SourcesApart(k)
    <3>1. CASE k \in 1 .. n BY <1>3, <1>4, <2>3, <3>1 DEF LInv, UnionsApart
    <3>2. CASE k = n + 1
      <4>1. branches'[k].merge = merge BY <1>4, <3>2
      <4> QED BY <1>3, <2>3, <3>2, <4>1 DEF LInv, UnionsApart
    <3> QED BY <3>1, <3>2
  <2>4. merge'.how # "union" BY <1>1, <2>2
  <2> QED BY <1>4, <2>1, <2>3, <2>4 DEF UnionsApart
<1> QED BY <1>2, <1>5, <1>6, <1>7, <1>8, <1>9 DEF LInv

LEMMA StepReaggregate == LInv /\ Reaggregate => LInv'
<1> SUFFICES ASSUME LInv, Reaggregate PROVE LInv' OBVIOUS
<1>1. /\ pc = "reaggregate" /\ pc' = "planned"
      /\ unprovided' = unprovided \cup
           Unprovided("metrics", UNION {ToSet(Constituents(m)) : m \in ToSet(query.requested)}, ToSet(asked))
      /\ UNCHANGED <<query, skip_reagg, asked, branches, sourced, merge>>
  BY DEF Reaggregate, branch
<1>2. unprovided' = unprovided BY <1>1, MetricsClosed DEF LInv
<1>3. BranchKept' BY <1>1 DEF LInv, BranchKept, InBranch
<1> QED BY <1>1, <1>2, <1>3, Undisturbed DEF LInv

LEMMA StepStutter == LInv /\ UNCHANGED vars => LInv'
<1> SUFFICES ASSUME LInv, UNCHANGED vars PROVE LInv' OBVIOUS
<1>1. UNCHANGED <<query, skip_reagg, asked, branches, unprovided, pc>>
      /\ UNCHANGED <<null_dims, scan, aggregates, sourced, merge>>
  BY DEF vars, branch
<1>2. AskedKept' BY <1>1, SameQuery DEF LInv, AskedKept
<1>3. BranchKept'
  <2>1. Bd' = Bd /\ PhysicalDims' = PhysicalDims /\ PartsOf(Covered)' = PartsOf(Covered)
    BY <1>1, SameBranch, SameQuery
  <2>2. (PhysicalDims \ null_dims \subseteq Mapped(Bd)) = (PhysicalDims \ null_dims \subseteq Mapped(Bd))'
    BY <1>1, <2>1 DEF Mapped
  <2>3. (DimColumns \cup ComputedColumns \cup MeasureColumns \cup Lower(Bd, query.filters))' =
          DimColumns \cup ComputedColumns \cup MeasureColumns \cup Lower(Bd, query.filters)
    BY <1>1, SameLayers
  <2>4. {query.measures[c] : c \in PartsOf(Covered)}' = {query.measures[c] : c \in PartsOf(Covered)}
    BY <1>1, <2>1
  <2> QED BY <1>1, <2>2, <2>3, <2>4 DEF LInv, BranchKept
<1> QED BY <1>1, <1>2, <1>3, Undisturbed DEF LInv

LEMMA LayersInductive == Spec => []LInv
<1>1. LInv /\ [Next]_vars => LInv'
  BY StepClassify, StepResolveDims, StepCollectScan, StepDecompose, StepRefuseMetric, StepPlanSource,
     StepMergeSources, StepProject, StepReaggregate, StepStutter
  DEF Next
<1> QED BY LayersStart, <1>1, PTL DEF Spec

(* Every layer reads only names that the layer below it provides, for any  *)
(* model that is mapped as the compiler leaves it: whatever the bindings,  *)
(* their sources, the NULL columns of a union and the metrics asked for    *)
(* (build_rename_project, decompose, the projection of a branch and the    *)
(* computation of metrics from the merged aggregates).                     *)
THEOREM LayersProvide == Spec => []LayersClosed
<1>1. LInv => LayersClosed BY DEF LInv, Closed, LayersClosed
<1> QED BY LayersInductive, <1>1, PTL

(* Where has_distinguishing_known_values lets the planner put partial      *)
(* aggregates together without aggregating again, no two of them can hold  *)
(* a row of the same key, for any number of bindings and sources.          *)
THEOREM SkipsMergeNothing == Spec => []SkipMergesNothing
  BY LayersInductive, SkipFromInvariant, PTL
-----------------------------------------------------------------------------
(* The constraints of a request.                                           *)

(* What Pick computes, prefix by prefix.                                   *)
Picks(s, S, f, N) ==
  f = [n \in 0 .. N |->
         IF n = 0 THEN <<>> ELSE IF s[n] \in S THEN Append(f[n - 1], s[n]) ELSE f[n - 1]]

LEMMA PicksExists ==
  ASSUME NEW s, NEW S, NEW N \in Nat
  PROVE  \E f : Picks(s, S, f, N)
<1> DEFINE T == {n \in Nat : \E f : Picks(s, S, f, n)}
<1>1. 0 \in T
  <2>1. Picks(s, S, [n \in 0 .. 0 |-> <<>>], 0) BY DEF Picks
  <2> QED BY <2>1
<1>2. ASSUME NEW n \in 0 .. N - 1, n \in T PROVE n + 1 \in T
  <2>1. PICK f : Picks(s, S, f, n) BY <1>2
  <2> DEFINE next == IF s[n + 1] \in S THEN Append(f[n], s[n + 1]) ELSE f[n]
             g == [k \in 0 .. n + 1 |-> IF k = n + 1 THEN next ELSE f[k]]
  <2>2. \A k \in 0 .. n : g[k] = f[k] OBVIOUS
  <2>3. \A k \in 0 .. n + 1 :
          g[k] = IF k = 0 THEN <<>> ELSE IF s[k] \in S THEN Append(g[k - 1], s[k]) ELSE g[k - 1]
    <3> TAKE k \in 0 .. n + 1
    <3>1. CASE k = n + 1
      <4>1. g[k] = next /\ k # 0 /\ g[k - 1] = f[n] /\ k - 1 = n BY <3>1
      <4> HIDE DEF g
      <4> QED BY <3>1, <4>1
    <3>2. CASE k = 0
      <4>1. g[k] = f[0] BY <3>2
      <4>2. f[0] = <<>> BY <2>1 DEF Picks
      <4> HIDE DEF g
      <4> QED BY <3>2, <4>1, <4>2
    <3>3. CASE k \in 1 .. n
      <4>1. k \in 0 .. n /\ k - 1 \in 0 .. n /\ k # 0 BY <3>3
      <4>2. g[k] = f[k] /\ g[k - 1] = f[k - 1] BY <2>2, <4>1
      <4>3. f[k] = IF s[k] \in S THEN Append(f[k - 1], s[k]) ELSE f[k - 1]
        BY <2>1, <4>1 DEF Picks
      <4> HIDE DEF g
      <4> QED BY <4>1, <4>2, <4>3
    <3> QED BY <3>1, <3>2, <3>3
  <2>4. Picks(s, S, g, n + 1)
    <3>1. g = [k \in 0 .. n + 1 |-> g[k]] OBVIOUS
    <3> HIDE DEF g
    <3> QED BY <2>3, <3>1 DEF Picks
  <2> QED BY <2>4
<1>3. 0 .. N \subseteq T
  <2> HIDE DEF T
  <2> QED BY <1>1, <1>2, UpTo
<1> QED BY <1>3

(* Pick keeps the members that are in S.                                   *)
LEMMA PickMembers ==
  ASSUME NEW X, NEW s \in Seq(X), NEW S
  PROVE  Pick(s, S) \in Seq(X) /\ ToSet(Pick(s, S)) = ToSet(s) \cap S
<1>1. PICK N \in Nat : N = Len(s) /\ DOMAIN s = 1 .. N BY LenProperties
<1>2. Pick(s, S) = (CHOOSE f : Picks(s, S, f, Len(s)))[Len(s)] BY DEF Pick, Picks
<1>3. PICK f : Picks(s, S, f, N) /\ Pick(s, S) = f[N] BY <1>1, <1>2, PicksExists
<1> DEFINE T == {n \in 0 .. N : f[n] \in Seq(X) /\ ToSet(f[n]) = {s[i] : i \in 1 .. n} \cap S}
<1>4. 0 \in T
  <2>1. f[0] = <<>> BY <1>3 DEF Picks
  <2>2. ToSet(f[0]) = {} BY <2>1 DEF ToSet
  <2>3. {s[i] : i \in 1 .. 0} = {} OBVIOUS
  <2>4. f[0] \in Seq(X) BY <2>1, EmptySeq
  <2> QED BY <2>2, <2>3, <2>4
<1>5. ASSUME NEW n \in 0 .. N - 1, n \in T PROVE n + 1 \in T
  <2>1. f[n] \in Seq(X) /\ ToSet(f[n]) = {s[i] : i \in 1 .. n} \cap S BY <1>5
  <2>2. f[n + 1] = IF s[n + 1] \in S THEN Append(f[n], s[n + 1]) ELSE f[n]
    <3>1. n + 1 \in 0 .. N /\ n + 1 # 0 /\ (n + 1) - 1 = n BY <1>1
    <3> QED BY <1>3, <3>1 DEF Picks
  <2>3. {s[i] : i \in 1 .. n + 1} = {s[i] : i \in 1 .. n} \cup {s[n + 1]}
    <3>1. 1 .. n + 1 = (1 .. n) \cup {n + 1} OBVIOUS
    <3> QED BY <3>1
  <2>4. n + 1 \in 0 .. N BY <1>1
  <2>5. CASE s[n + 1] \notin S
    BY <2>1, <2>2, <2>3, <2>4, <2>5
  <2>6. CASE s[n + 1] \in S
    <3>1. s[n + 1] \in X
      <4>1. n + 1 \in 1 .. Len(s) BY <1>1
      <4> QED BY <4>1, ElementOfSeq
    <3>2. PICK k \in Nat : k = Len(f[n]) /\ DOMAIN f[n] = 1 .. k BY <2>1, LenProperties
    <3>3. /\ f[n + 1] \in Seq(X) /\ DOMAIN f[n + 1] = 1 .. k + 1
          /\ f[n + 1][k + 1] = s[n + 1] /\ \A i \in 1 .. k : f[n + 1][i] = f[n][i]
      BY <2>1, <2>2, <2>6, <3>1, <3>2
    <3>4. ToSet(f[n + 1]) = ToSet(f[n]) \cup {s[n + 1]}
      <4>1. 1 .. k + 1 = (1 .. k) \cup {k + 1} OBVIOUS
      <4>2. ToSet(f[n + 1]) = {f[n + 1][i] : i \in (1 .. k) \cup {k + 1}} BY <3>3, <4>1 DEF ToSet
      <4>3. ToSet(f[n]) = {f[n][i] : i \in 1 .. k} BY <3>2 DEF ToSet
      <4> QED BY <3>3, <4>2, <4>3
    <3> QED BY <2>1, <2>3, <2>4, <2>6, <3>3, <3>4
  <2> QED BY <2>5, <2>6
<1>6. 0 .. N \subseteq T
  <2> HIDE DEF T
  <2> QED BY <1>4, <1>5, UpTo
<1>7. N \in T
  <2>1. N \in 0 .. N OBVIOUS
  <2> HIDE DEF T
  <2> QED BY <1>6, <2>1
<1>8. ToSet(s) = {s[i] : i \in 1 .. N} BY <1>1 DEF ToSet
<1>9. f[N] \in Seq(X) /\ ToSet(f[N]) = {s[i] : i \in 1 .. N} \cap S BY <1>7
<1> QED BY <1>3, <1>8, <1>9

(* The members of a set in some order.                                     *)
LEMMA SetToSeqMembers ==
  ASSUME NEW S, IsFiniteSet(S)
  PROVE  SetToSeq(S) \in Seq(S) /\ ToSet(SetToSeq(S)) = S
<1> DEFINE n == Cardinality(S)
           Orders(f) == f \in [1 .. n -> S] /\ IsInjective(f)
<1>1. n \in Nat /\ \E f : Orders(f)
  <2>1. n \in Nat BY FS_CardinalityType
  <2>2. PICK f \in Bijection(1 .. n, S) : TRUE
    <3>1. ExistsBijection(1 .. n, S) BY FS_CardinalityType
    <3> QED BY <3>1 DEF ExistsBijection
  <2>3. f \in [1 .. n -> S] /\ \A i, j \in 1 .. n : f[i] = f[j] => i = j
    BY <2>2 DEF Bijection, Injection, IsInjective
  <2> QED BY <2>1, <2>3 DEF IsInjective
<1> DEFINE q == SetToSeq(S)
<1>2. q \in [1 .. n -> S] /\ IsInjective(q)
  <2>1. q = CHOOSE f \in [1 .. n -> S] : IsInjective(f) BY DEF SetToSeq
  <2> HIDE DEF q
  <2> QED BY <1>1, <2>1
<1> HIDE DEF q
<1>3. ToSet(q) = S
  <2>1. q \in Injection(1 .. n, S) BY <1>2 DEF Injection, IsInjective
  <2>2. Cardinality(1 .. n) = n
    <3>1. 1 \in Int /\ n \in Int /\ (1 > n => n = 0) /\ n - 1 + 1 = n BY <1>1
    <3> HIDE DEF n
    <3> QED BY <3>1, FS_Interval
  <2>3. q \in Surjection(1 .. n, S) BY <2>1, <2>2, FS_Injection
  <2> QED BY <2>3 DEF Surjection, ToSet
<1>4. q \in Seq(S) BY <1>1, <1>2
<1> QED BY <1>3, <1>4 DEF q

(* An entity of a compiled manifest, a raw request and a resolved one.     *)
IsEntity(e) ==
  /\ e.dims \in Seq(STRING) /\ e.keys \in Seq(STRING) /\ e.measures \in Seq(STRING)
  /\ DOMAIN e.parts \subseteq STRING /\ IsFiniteSet(DOMAIN e.parts)
  /\ DOMAIN e.aggs = ToSet(e.measures)

IsManifest(mf) == \A name \in DOMAIN mf : IsEntity(mf[name])

IsRaw(raw) == raw.select \in Seq(STRING)

IsRequest(r) ==
  /\ DOMAIN r = DOMAIN NoReq
  /\ r.dimensions \in Seq(STRING) /\ r.measures \in Seq(STRING)

NamesOf(r) == ToSet(r.dimensions) \cup ToSet(r.measures)

(* The operators of a filter.                                              *)
Comparisons == {"=", "<>", "<", "<=", ">", ">="}
FilterOperators == Comparisons \cup {"in", "not in", "between", "is null", "is not null"}

(* A filter, and the parts of a request that a caller's type gives.        *)
IsFilter(f) == f.op \in FilterOperators /\ f.values \in Seq(ToSet(f.values))

IsShaped(r) ==
  /\ r.filters \in Seq(ToSet(r.filters)) /\ \A i \in DOMAIN r.filters : IsFilter(r.filters[i])
  /\ r.order_by \in Seq(ToSet(r.order_by))
  /\ r.limit \in Nat \cup {-1}

(* A request for an entity lists no measure of it as a dimension.          *)
IsClassified(r) ==
  r.entity \in DOMAIN manifest \ {NoName} => ToSet(r.dimensions) \cap MeasuresOf(manifest[r.entity]) = {}

QueryInit == IsManifest(manifest) /\ rows \in Seq(ToSet(rows)) /\ InitQuery

(* Any caller, with any configuration and any request.                     *)
QueryNext ==
  \/ NewEngine \/ \E b : BuildFacade(b) \/ BuildEngine(b)
  \/ \E raw, op : IsRaw(raw) /\ (Validate(raw) \/ Receive(raw, op))
  \/ \E r, op : IsRequest(r) /\ IsShaped(r) /\ IsClassified(r) /\ Submit(r, op)
  \/ QueryStep

QuerySpec == QueryInit /\ [][QueryNext]_<<qvars, gvars>>

Asked == IF ask.via = "facade" THEN ask.resolved ELSE Resolved(ask.raw)

(* The request that is planned is the one asked, sorted by the entity that *)
(* was found if it named none.                                             *)
Kept ==
  /\ IsRequest(Asked) /\ IsRequest(req) /\ req.filters = Asked.filters
  /\ Asked.entity # NoName => req = Asked /\ IsClassified(Asked)
  /\ Asked.entity = NoName => NamesOf(req) = NamesOf(Asked)
  /\ Asked.entity = NoName /\ req.entity # NoName =>
       LET e == manifest[req.entity] IN
       ToSet(req.dimensions) = NamesOf(Asked) \cap DimsOf(e) /\ ToSet(req.measures) = NamesOf(Asked) \cap MeasuresOf(e)

Passed == req.entity \in DOMAIN manifest /\ req.entity # NoName /\ ConstraintsMet(manifest[req.entity])

Late == {"resolve", "grainset", "filters", "order", "limit", "emit"}

QInv ==
  /\ IsManifest(manifest)
  /\ qpc \in {"engine", "parse"} => ask.via = "api" /\ IsRaw(ask.raw)
  /\ (qpc = "plan" \/ qpc \in Late \/ Answered) => Kept
  /\ (qpc \in Late \/ Answered) => Passed

LEMMA EverythingNames ==
  ASSUME NEW e, IsEntity(e) PROVE Everything(e) \in Seq(STRING)
<1> DEFINE k == Pick(e.keys, ToSet(e.keys) \ ToSet(e.dims))
           q == SetToSeq(DOMAIN e.parts)
<1>1. k \in Seq(STRING) BY PickMembers DEF IsEntity
<1>2. q \in Seq(STRING)
  <2>1. q \in Seq(DOMAIN e.parts) BY SetToSeqMembers DEF IsEntity
  <2>2. DOMAIN e.parts \subseteq STRING BY DEF IsEntity
  <2> HIDE DEF q
  <2> QED BY <2>1, <2>2
<1> HIDE DEF k, q
<1>3. ((e.dims \o k) \o e.measures) \o q \in Seq(STRING)
  <2>1. e.dims \o k \in Seq(STRING) BY <1>1, ConcatProperties DEF IsEntity
  <2>2. (e.dims \o k) \o e.measures \in Seq(STRING) BY <2>1, ConcatProperties DEF IsEntity
  <2> QED BY <1>2, <2>2, ConcatProperties
<1> QED BY <1>3 DEF Everything, k, q

(* to_resolved: a request for an entity is well classified.                *)
LEMMA ResolvedIsRequest ==
  ASSUME IsManifest(manifest), NEW raw, IsRaw(raw), Resolves(raw)
  PROVE  IsRequest(Resolved(raw)) /\ IsClassified(Resolved(raw)) /\ Resolved(raw).entity = raw.from
<1> DEFINE base == [NoReq EXCEPT !.limit = raw.limit, !.order_by = OrderBy(raw), !.entity = raw.from]
<1>1. DOMAIN base = DOMAIN NoReq /\ base.entity = raw.from /\ base.measures = <<>> BY DEF NoReq
<1> HIDE DEF base
<1>2. CASE raw.from = NoName
  <2>1. Resolved(raw) = [base EXCEPT !.dimensions = raw.select] BY <1>2 DEF Resolved, base
  <2>2. "dimensions" \in DOMAIN NoReq BY DEF NoReq
  <2> DEFINE r == [base EXCEPT !.dimensions = raw.select]
  <2>3. DOMAIN r = DOMAIN NoReq /\ r.dimensions = raw.select /\ r.measures = <<>> /\ r.entity = NoName
    BY <1>1, <1>2, <2>2 DEF NoReq
  <2> HIDE DEF r
  <2>4. IsRequest(r) BY <2>3, EmptySeq DEF IsRequest, IsRaw
  <2>5. IsClassified(r) BY <2>3 DEF IsClassified
  <2> QED BY <1>2, <2>1, <2>3, <2>4, <2>5 DEF r
<1>3. CASE raw.from # NoName
  <2> DEFINE e == manifest[raw.from]
             names == ExpandSelect(raw, e)
             ds == Pick(names, DimsOf(e))
             ms == Pick(names, MeasuresOf(e))
             r == [base EXCEPT !.dimensions = ds, !.measures = ms]
  <2>1. Resolved(raw) = r BY <1>3 DEF Resolved, base
  <2>2. raw.from \in DOMAIN manifest /\ IsEntity(e) BY <1>3 DEF Resolves, IsManifest
  <2>3. names \in Seq(STRING) BY <2>2, EverythingNames DEF ExpandSelect, IsRaw
  <2>4. ds \in Seq(STRING) /\ ToSet(ds) \subseteq DimsOf(e) /\ ms \in Seq(STRING)
    <3> HIDE DEF names
    <3> QED BY <2>3, PickMembers
  <2>5. DOMAIN r = DOMAIN NoReq /\ r.dimensions = ds /\ r.measures = ms /\ r.entity = raw.from
    <3> HIDE DEF ds, ms
    <3> QED BY <1>1 DEF NoReq
  <2> HIDE DEF r, ds, ms
  <2>6. IsRequest(r) BY <2>4, <2>5 DEF IsRequest
  <2>7. IsClassified(r) BY <2>4, <2>5 DEF IsClassified, MeasuresOf
  <2> QED BY <2>1, <2>5, <2>6, <2>7
<1> QED BY <1>2, <1>3

(* reclassify_fields: the names are sorted into dimensions and measures.   *)
LEMMA ReclassifiedNames ==
  ASSUME IsManifest(manifest), IsRequest(req), NEW name \in DOMAIN manifest, HasAll(manifest[name])
  PROVE  LET e == manifest[name]
             r == Reclassified(name) IN
         /\ IsRequest(r) /\ r.entity = name /\ r.filters = req.filters /\ NamesOf(r) = NamesOf(req)
         /\ ToSet(r.dimensions) = NamesOf(req) \cap DimsOf(e)
         /\ ToSet(r.measures) = NamesOf(req) \cap MeasuresOf(e)
<1> DEFINE e == manifest[name]
           all == req.dimensions \o req.measures
           d1 == Pick(all, ToSet(e.dims))
           d2 == Pick(all, ToSet(e.keys) \ ToSet(e.dims))
           m1 == Pick(all, ToSet(e.measures) \ DimsOf(e))
           m2 == Pick(all, DOMAIN e.parts \ (DimsOf(e) \cup ToSet(e.measures)))
           r == [req EXCEPT !.entity = name, !.dimensions = d1 \o d2, !.measures = m1 \o m2]
<1>1. all \in Seq(STRING) /\ ToSet(all) = NamesOf(req)
  <2>1. req.dimensions \in Seq(STRING) /\ req.measures \in Seq(STRING) BY DEF IsRequest
  <2> QED BY <2>1, ConcatProperties, ConcatMembers DEF NamesOf
<1>2. Reclassified(name) = r BY DEF Reclassified
<1> HIDE DEF all
<1>3. /\ d1 \in Seq(STRING) /\ ToSet(d1) = ToSet(all) \cap ToSet(e.dims)
      /\ d2 \in Seq(STRING) /\ ToSet(d2) = ToSet(all) \cap (ToSet(e.keys) \ ToSet(e.dims))
      /\ m1 \in Seq(STRING) /\ ToSet(m1) = ToSet(all) \cap (ToSet(e.measures) \ DimsOf(e))
      /\ m2 \in Seq(STRING) /\ ToSet(m2) = ToSet(all) \cap (DOMAIN e.parts \ (DimsOf(e) \cup ToSet(e.measures)))
  BY <1>1, PickMembers
<1> HIDE DEF e, d1, d2, m1, m2
<1>4. /\ d1 \o d2 \in Seq(STRING) /\ ToSet(d1 \o d2) = NamesOf(req) \cap DimsOf(e)
      /\ m1 \o m2 \in Seq(STRING) /\ ToSet(m1 \o m2) = NamesOf(req) \cap MeasuresOf(e)
  <2>1. /\ d1 \o d2 \in Seq(STRING) /\ ToSet(d1 \o d2) = ToSet(d1) \cup ToSet(d2)
        /\ m1 \o m2 \in Seq(STRING) /\ ToSet(m1 \o m2) = ToSet(m1) \cup ToSet(m2)
    BY <1>3, ConcatProperties, ConcatMembers
  <2> QED BY <1>1, <1>3, <2>1 DEF DimsOf, MeasuresOf
<1>5. /\ DOMAIN r = DOMAIN NoReq /\ r.entity = name /\ r.filters = req.filters
      /\ r.dimensions = d1 \o d2 /\ r.measures = m1 \o m2
  <2>1. {"entity", "dimensions", "measures", "filters"} \subseteq DOMAIN req BY DEF IsRequest, NoReq
  <2> QED BY <2>1 DEF IsRequest
<1>6. NamesOf(req) \subseteq DimsOf(e) \cup MeasuresOf(e) BY DEF HasAll, AllFields, NamesOf, e
<1> HIDE DEF r
<1>7. IsRequest(r) BY <1>4, <1>5 DEF IsRequest
<1>8. NamesOf(r) = NamesOf(req) BY <1>4, <1>5, <1>6 DEF NamesOf
<1> QED BY <1>2, <1>4, <1>5, <1>7, <1>8 DEF e

(* What is asked as a measure is what was checked, in the scope it was     *)
(* checked in.                                                             *)
LEMMA PassedMeansKept == Kept /\ Passed /\ IsManifest(manifest) => ConstraintsKept
<1> SUFFICES ASSUME Kept, Passed, IsManifest(manifest) PROVE ConstraintsKept OBVIOUS
<1> DEFINE e == manifest[req.entity]
           names == ToSet(Asked.dimensions) \cup ToSet(Asked.measures)
           grouped == IF Asked.entity = NoName THEN names \cap DimsOf(e) ELSE ToSet(Asked.dimensions)
           measured == (names \cap MeasuresOf(e)) \cup (IF Asked.entity = NoName THEN {} ELSE ToSet(Asked.measures))
           dims == grouped \cup ({Asked.filters[i].field : i \in DOMAIN Asked.filters} \cap ToSet(e.dims))
<1>1. grouped = ToSet(req.dimensions) /\ measured = ToSet(req.measures)
  <2>1. CASE Asked.entity = NoName BY <2>1 DEF Kept, Passed, NamesOf
  <2>2. CASE Asked.entity # NoName
    <3>1. req = Asked /\ ToSet(Asked.dimensions) \cap MeasuresOf(e) = {}
      BY <2>2 DEF Kept, Passed, IsClassified
    <3> QED BY <2>2, <3>1
  <2> QED BY <2>1, <2>2
<1>2. dims = Scope(e)
  <2>1. {f \in {req.filters[i].field : i \in DOMAIN req.filters} : f \in ToSet(e.dims)}
          = {req.filters[i].field : i \in DOMAIN req.filters} \cap ToSet(e.dims)
    OBVIOUS
  <2>2. req.filters = Asked.filters BY DEF Kept
  <2> HIDE DEF e, grouped
  <2> QED BY <1>1, <2>1, <2>2 DEF Scope
<1>3. DOMAIN e.aggs = ToSet(e.measures) /\ ConstraintsMet(e) BY DEF Passed, IsManifest, IsEntity
<1> HIDE DEF e, grouped, measured, dims
<1>4. ASSUME NEW m \in measured \cap DOMAIN e.constraints
      PROVE  LET c == e.constraints[m] IN
             /\ c.none_of \cap dims = {} /\ c.all \subseteq dims
             /\ c.one_of = {} \/ c.one_of \cap dims # {}
             /\ m \in DOMAIN e.aggs => (e.aggs[m] \notin c.prohibited /\ (c.allowed = {} \/ e.aggs[m] \in c.allowed))
  <2>1. DimensionsAllowed(e, e.constraints[m]) /\ (m \in ToSet(e.measures) => AggregationAllowed(e.constraints[m], e.aggs[m]))
    BY <1>1, <1>3, <1>4 DEF ConstraintsMet
  <2> QED BY <1>2, <1>3, <2>1 DEF DimensionsAllowed, AggregationAllowed, Among
<1> QED BY <1>4 DEF ConstraintsKept, Asked, e, names, grouped, measured, dims

(* Kept and Passed are about the manifest and the request only.            *)
LEMMA SameRequest ==
  ASSUME UNCHANGED <<manifest, ask, req>>
  PROVE  (Kept' <=> Kept) /\ (Passed' <=> Passed) /\ (IsManifest(manifest)' <=> IsManifest(manifest))
<1>1. Asked' = Asked BY DEF Asked, Resolved
<1>2. Kept' <=> Kept BY <1>1 DEF Kept, IsClassified
<1>3. Passed' <=> Passed BY DEF Passed, ConstraintsMet, DimensionsAllowed, Among, Scope
<1> QED BY <1>2, <1>3

LEMMA QueryStart == QueryInit => QInv
  BY DEF QueryInit, InitQuery, QInv, Late, Answered

LEMMA QueryKeeps == QInv /\ [QueryNext]_<<qvars, gvars>> => QInv'
<1> SUFFICES ASSUME QInv, [QueryNext]_<<qvars, gvars>> PROVE QInv' OBVIOUS
<1> USE DEF QInv
(* The request is what it was and stands where it stood.                   *)
<1>1. ASSUME UNCHANGED <<manifest, ask, req>>,
             \/ qpc' \in {"facade", "api"} \/ (qpc' = "done" /\ out' \notin {"sql", "substrait"})
             \/ qpc' = qpc /\ out' = out
             \/ qpc = "engine" /\ qpc' = "parse"
             \/ qpc \in Late /\ qpc' \in Late \cup {"done"}
      PROVE QInv'
  <2>1. (Kept' <=> Kept) /\ (Passed' <=> Passed) /\ IsManifest(manifest)' BY <1>1, SameRequest
  <2> HIDE DEF QInv
  <2>2. (qpc \in Late => Kept /\ Passed) /\ (qpc = "plan" \/ Answered => Kept) /\ (Answered => Passed) BY DEF QInv
  <2>3. qpc \in {"engine", "parse"} => ask.via = "api" /\ IsRaw(ask.raw) BY DEF QInv
  <2>4. qpc' \in {"engine", "parse"} => (ask.via = "api" /\ IsRaw(ask.raw))' BY <1>1, <2>3 DEF Late
  <2>5. (qpc' = "plan" \/ qpc' \in Late \/ Answered') => Kept' BY <1>1, <2>1, <2>2 DEF Late, Answered
  <2>6. (qpc' \in Late \/ Answered') => Passed' BY <1>1, <2>1, <2>2 DEF Late, Answered
  <2> QED BY <2>1, <2>4, <2>5, <2>6 DEF QInv
<1>2. CASE NewEngine BY <1>1, <1>2 DEF NewEngine
<1>3. ASSUME NEW b, BuildFacade(b) \/ BuildEngine(b) PROVE QInv'
  <2>1. UNCHANGED <<manifest, ask, req>> BY <1>3 DEF BuildFacade, BuildEngine
  <2>2. qpc' \in {"facade", "api"} \/ (qpc' = "done" /\ out' = "error") BY <1>3 DEF BuildFacade, BuildEngine
  <2> QED BY <1>1, <2>1, <2>2
<1>4. ASSUME NEW raw, NEW op, IsRaw(raw), Validate(raw) \/ Receive(raw, op) PROVE QInv'
  <2>1. UNCHANGED manifest /\ ask'.via = "api" /\ ask'.raw = raw BY <1>4 DEF Validate, Receive
  <2>2. qpc' = "engine" \/ (qpc' = "done" /\ out' \in {"valid", "invalid", "error"})
    BY <1>4 DEF Validate, Receive, Answer
  <2>3. ~Answered' /\ qpc' # "plan" /\ qpc' \notin Late BY <2>2 DEF Answered, Late
  <2> QED BY <1>4, <2>1, <2>3 DEF IsManifest
<1>5. ASSUME NEW r, NEW op, IsRequest(r), IsClassified(r), Submit(r, op) PROVE QInv'
  <2>1. UNCHANGED manifest /\ ask'.via = "facade" /\ ask'.resolved = r /\ req' = r /\ qpc' = "plan"
    BY <1>5 DEF Submit
  <2>2. Asked' = r BY <2>1 DEF Asked
  <2>3. IsClassified(Asked)' BY <1>5, <2>1, <2>2 DEF IsClassified
  <2>4. Kept' BY <1>5, <2>1, <2>2, <2>3 DEF Kept
  <2>5. ~Answered' /\ qpc' \notin Late BY <2>1 DEF Answered, Late
  <2> QED BY <2>1, <2>4, <2>5 DEF IsManifest
<1>6. CASE ValidateEngineField
  <2>1. qpc = "engine" /\ UNCHANGED <<manifest, ask, req>> BY <1>6 DEF ValidateEngineField
  <2>2. qpc' = "parse" \/ (qpc' = "done" /\ out' = "error") BY <1>6 DEF ValidateEngineField, Answer
  <2> QED BY <1>1, <2>1, <2>2
<1>7. CASE ToResolved
  <2>1. qpc = "parse" /\ UNCHANGED <<manifest, ask>> BY <1>7 DEF ToResolved
  <2>2. CASE Resolves(ask.raw)
    <3>1. req' = Resolved(ask.raw) /\ qpc' = "plan" BY <1>7, <2>2 DEF ToResolved
    <3>2. IsRequest(Resolved(ask.raw)) /\ IsClassified(Resolved(ask.raw)) BY <2>1, <2>2, ResolvedIsRequest
    <3>3. Asked' = req' BY <2>1, <3>1 DEF Asked, Resolved
    <3>4. IsRequest(req') /\ IsClassified(Asked)' BY <2>1, <3>1, <3>2, <3>3 DEF IsClassified
    <3>5. Asked'.entity = NoName /\ req'.entity # NoName => FALSE BY <3>3
    <3>6. Kept' BY <3>3, <3>4, <3>5 DEF Kept
    <3>7. ~Answered' /\ qpc' \notin Late BY <3>1 DEF Answered, Late
    <3> QED BY <2>1, <3>1, <3>6, <3>7 DEF IsManifest
  <2>3. CASE ~Resolves(ask.raw)
    <3>1. UNCHANGED req /\ qpc' = "done" /\ out' = "error" BY <1>7, <2>3 DEF ToResolved, Answer
    <3> QED BY <1>1, <2>1, <3>1
  <2> QED BY <2>2, <2>3
<1>8. CASE PlanAdHoc
  <2>1. qpc = "plan" /\ req.entity = NoName /\ UNCHANGED <<manifest, ask>> BY <1>8 DEF PlanAdHoc
  <2>2. Kept BY <2>1
  <2>3. ASSUME NEW name \in DOMAIN manifest, HasAll(manifest[name]), req' = Reclassified(name), UNCHANGED <<out, qpc>>
        PROVE QInv'
    <3> DEFINE r == Reclassified(name)
               e == manifest[name]
    <3>1. /\ IsRequest(r) /\ r.entity = name /\ r.filters = req.filters /\ NamesOf(r) = NamesOf(req)
          /\ ToSet(r.dimensions) = NamesOf(req) \cap DimsOf(e)
          /\ ToSet(r.measures) = NamesOf(req) \cap MeasuresOf(e)
      BY <2>2, <2>3, ReclassifiedNames DEF Kept
    <3>2. Asked' = Asked BY <2>1 DEF Asked, Resolved
    <3>3. IsRequest(Asked) /\ Asked.entity = NoName /\ NamesOf(req) = NamesOf(Asked) /\ req.filters = Asked.filters
      BY <2>1, <2>2 DEF Kept
    <3> HIDE DEF r
    <3>4. req' = r BY <2>3 DEF r
    <3>5. Kept' BY <2>1, <3>1, <3>2, <3>3, <3>4 DEF Kept
    <3>6. ~Answered' /\ qpc' = "plan" BY <2>1, <2>3 DEF Answered
    <3> QED BY <2>1, <3>5, <3>6 DEF IsManifest, Late
  <2>4. CASE Answer("joined or refused") /\ UNCHANGED req BY <1>1, <2>1, <2>4 DEF Answer
  <2> QED BY <1>8, <2>3, <2>4 DEF PlanAdHoc
<1>9. CASE CheckConstraints
  <2>1. qpc = "plan" /\ UNCHANGED <<manifest, ask, req>> BY <1>9 DEF CheckConstraints
  <2>2. CASE req.entity \in DOMAIN manifest /\ ConstraintsMet(manifest[req.entity])
    <3>1. qpc' = "resolve" /\ Passed BY <1>9, <2>2 DEF CheckConstraints, Passed
    <3>2. Kept' /\ Passed' /\ IsManifest(manifest)' BY <2>1, <3>1, SameRequest
    <3> QED BY <3>1, <3>2
  <2>3. CASE ~(req.entity \in DOMAIN manifest /\ ConstraintsMet(manifest[req.entity]))
    <3>1. qpc' = "done" /\ out' = "error" BY <1>9, <2>3 DEF CheckConstraints, Answer
    <3> QED BY <1>1, <2>1, <3>1
  <2> QED BY <2>2, <2>3
<1>10. CASE ResolveGrainset
  BY <1>1, <1>10 DEF ResolveGrainset, Late
<1>11. CASE GrainsetStep
  BY <1>1, <1>11 DEF GrainsetStep, qvars
<1>12. CASE GrainsetDone
  BY <1>1, <1>12 DEF GrainsetDone, Late, Answer
<1>13. CASE ResolveSimple
  <2>1. qpc = "resolve" /\ UNCHANGED <<manifest, ask, req>> BY <1>13 DEF ResolveSimple
  <2>2. qpc' = "filters" \/ qpc' = "done" BY <1>13 DEF ResolveSimple, Answer
  <2> QED BY <1>1, <2>1, <2>2 DEF Late
<1>14. CASE InjectUserFilters
  <2>1. qpc = "filters" /\ UNCHANGED <<manifest, ask, req>> BY <1>14 DEF InjectUserFilters
  <2>2. qpc' = "order" \/ qpc' = "done" BY <1>14 DEF InjectUserFilters, Answer
  <2> QED BY <1>1, <2>1, <2>2 DEF Late
<1>15. CASE ApplyOrderBy
  <2>1. qpc = "order" /\ qpc' = "limit" /\ UNCHANGED <<manifest, ask, req>> BY <1>15 DEF ApplyOrderBy
  <2> QED BY <1>1, <2>1 DEF Late
<1>16. CASE ApplyLimit
  <2>1. qpc = "limit" /\ qpc' = "emit" /\ UNCHANGED <<manifest, ask, req>> BY <1>16 DEF ApplyLimit
  <2> QED BY <1>1, <2>1 DEF Late
<1>17. CASE Emit
  <2>1. qpc = "emit" /\ qpc' = "done" /\ UNCHANGED <<manifest, ask, req>> BY <1>17 DEF Emit, Answer
  <2> QED BY <1>1, <2>1 DEF Late
<1>18. CASE UNCHANGED <<qvars, gvars>>
  BY <1>1, <1>18 DEF qvars
<1> QED BY <1>2, <1>3, <1>4, <1>5, <1>6, <1>7, <1>8, <1>9, <1>10, <1>11, <1>12, <1>13, <1>14, <1>15, <1>16, <1>17, <1>18
        DEF QueryNext, QueryStep

(* Through the engine or the facade, with an entity named or found: what   *)
(* ConstraintValidator let pass is what was asked, whatever manifest and   *)
(* requests there are.                                                     *)
THEOREM ConstraintsAlwaysKept == QuerySpec => []ConstraintsKept
<1>1. QInv => ConstraintsKept
  <2>1. CASE ~Answered BY <2>1 DEF ConstraintsKept
  <2>2. CASE Answered BY <2>2, PassedMeansKept DEF QInv
  <2> QED BY <2>1, <2>2
<1> QED BY <1>1, QueryStart, QueryKeeps, PTL DEF QuerySpec

-----------------------------------------------------------------------------
(* The filters of a request.                                               *)

(* When a comparison of a row's value holds.                               *)
LEMMA ComparisonHolds ==
  ASSUME NEW row, NEW field, NEW w, NEW op \in Comparisons
  PROVE  TermHolds(Compare(op, field, w), row) <=> (row[field] # Null /\ w # Null /\ Ordered(op, row[field], w))
<1> DEFINE t == Compare(op, field, w)
<1>1. t.op = op /\ t.field = field /\ t.value = w BY DEF Compare
<1> HIDE DEF t
<1>2. TermHolds(t, row) = (row[field] # Null /\ w # Null /\ Ordered(op, row[field], w))
  <2>1. op # "is null" /\ op # "is not null" BY DEF Comparisons
  <2> QED BY <1>1, <2>1 DEF TermHolds
<1> QED BY <1>2 DEF t

LEMMA NullTestHolds ==
  ASSUME NEW row, NEW field
  PROVE  /\ TermHolds(Compare("is null", field, Null), row) <=> row[field] = Null
         /\ TermHolds(Compare("is not null", field, Null), row) <=> row[field] # Null
  BY DEF TermHolds, Compare

(* query_filter_to_expr: what a filter is turned into holds of a row       *)
(* exactly if the row satisfies the filter, with NULL in the row or among  *)
(* the values.                                                             *)
THEOREM PredicatesMeanFilters ==
  ASSUME NEW V, NEW row, NEW f, f.op \in FilterOperators, f.values \in Seq(V), EnoughValues(f)
  PROVE  Holds(FilterExpr(f), row) <=> Satisfies(f, row)
<1> DEFINE v == row[f.field]
           vs == f.values
           known == {vs[i] : i \in DOMAIN vs} \ {Null}
<1>1. PICK n \in Nat : n = Len(vs) /\ DOMAIN vs = 1 .. n BY LenProperties
<1>2. \A x : x \in ToSet(vs) <=> \E i \in DOMAIN vs : vs[i] = x BY DEF ToSet
<1>3. ASSUME NEW op \in Comparisons, NEW w
      PROVE  LET P == [how |-> "and", terms |-> <<Compare(op, f.field, w)>>] IN
             Holds(P, row) <=> (v # Null /\ w # Null /\ Ordered(op, v, w))
  <2>1. TermHolds(Compare(op, f.field, w), row) <=> (v # Null /\ w # Null /\ Ordered(op, v, w))
    BY ComparisonHolds
  <2> QED BY <2>1 DEF Holds
<1>4. CASE f.op = "in"
  <2>1. Holds(FilterExpr(f), row) <=> \E i \in DOMAIN vs : TermHolds(Compare("=", f.field, vs[i]), row)
    <3>1. FilterExpr(f) = Chain("or", "=", f) BY <1>4 DEF FilterExpr
    <3> QED BY <3>1 DEF Holds, Chain
  <2>2. \A i \in DOMAIN vs : TermHolds(Compare("=", f.field, vs[i]), row) <=> (v # Null /\ vs[i] # Null /\ v = vs[i])
    <3>1. "=" \in Comparisons BY DEF Comparisons
    <3> QED BY <3>1, ComparisonHolds DEF Ordered
  <2>3. Satisfies(f, row) <=> (v # Null /\ v \in known) BY <1>4 DEF Satisfies
  <2> QED BY <2>1, <2>2, <2>3
<1>5. CASE f.op = "not in"
  <2>1. Holds(FilterExpr(f), row) <=> \A i \in DOMAIN vs : TermHolds(Compare("<>", f.field, vs[i]), row)
    <3> DEFINE P == FilterExpr(f)
    <3>1. P = Chain("and", "<>", f) BY <1>5 DEF FilterExpr
    <3>2. /\ P.how = "and" /\ DOMAIN P.terms = DOMAIN vs
          /\ \A i \in DOMAIN vs : P.terms[i] = Compare("<>", f.field, vs[i])
      BY <3>1 DEF Chain
    <3> HIDE DEF P
    <3>3. Holds(P, row) <=> \A i \in DOMAIN vs : TermHolds(P.terms[i], row) BY <3>2 DEF Holds
    <3> QED BY <3>2, <3>3 DEF P
  <2>2. \A i \in DOMAIN vs : TermHolds(Compare("<>", f.field, vs[i]), row) <=> (v # Null /\ vs[i] # Null /\ v # vs[i])
    <3>1. "<>" \in Comparisons BY DEF Comparisons
    <3> QED BY <3>1, ComparisonHolds DEF Ordered
  <2>3. Satisfies(f, row) <=> (v # Null /\ v \notin known /\ Null \notin ToSet(vs)) BY <1>5 DEF Satisfies
  <2>4. 1 \in DOMAIN vs
    <3>1. vs # <<>> BY <1>5 DEF EnoughValues
    <3>2. n # 0 BY <1>1, <3>1, EmptySeq
    <3> QED BY <1>1, <3>2
  <2> QED BY <1>2, <2>1, <2>2, <2>3, <2>4
<1>6. CASE f.op = "between"
  <2>1. DOMAIN vs = 1 .. 2 BY <1>1, <1>6 DEF EnoughValues
  <2>2. Holds(FilterExpr(f), row) <=> /\ TermHolds(Compare(">=", f.field, vs[1]), row)
                                      /\ TermHolds(Compare("<=", f.field, vs[2]), row)
    <3>1. FilterExpr(f) = [how |-> "and", terms |-> <<Compare(">=", f.field, vs[1]), Compare("<=", f.field, vs[2])>>]
      BY <1>6 DEF FilterExpr
    <3> QED BY <3>1 DEF Holds
  <2>3. /\ TermHolds(Compare(">=", f.field, vs[1]), row) <=> (v # Null /\ vs[1] # Null /\ Ordered(">=", v, vs[1]))
        /\ TermHolds(Compare("<=", f.field, vs[2]), row) <=> (v # Null /\ vs[2] # Null /\ Ordered("<=", v, vs[2]))
    <3>1. ">=" \in Comparisons /\ "<=" \in Comparisons BY DEF Comparisons
    <3> QED BY <3>1, ComparisonHolds
  <2>4. Ordered(">=", v, vs[1]) = (v >= vs[1]) /\ Ordered("<=", v, vs[2]) = (v <= vs[2]) BY DEF Ordered
  <2>5. Satisfies(f, row) <=> (v # Null /\ Null \notin ToSet(vs) /\ v >= vs[1] /\ v <= vs[2]) BY <1>6 DEF Satisfies
  <2>6. Null \notin ToSet(vs) <=> (vs[1] # Null /\ vs[2] # Null) BY <1>2, <2>1
  <2> QED BY <2>2, <2>3, <2>4, <2>5, <2>6
<1>7. CASE f.op \in {"is null", "is not null"}
  <2>1. Holds(FilterExpr(f), row) <=> TermHolds(Compare(f.op, f.field, Null), row)
    <3>1. FilterExpr(f) = [how |-> "and", terms |-> <<Compare(f.op, f.field, Null)>>] BY <1>7 DEF FilterExpr
    <3> QED BY <3>1 DEF Holds
  <2>2. CASE f.op = "is null" BY <2>1, <2>2, NullTestHolds DEF Satisfies
  <2>3. CASE f.op = "is not null" BY <2>1, <2>3, NullTestHolds DEF Satisfies
  <2> QED BY <1>7, <2>2, <2>3
<1>8. CASE f.op \in Comparisons
  <2>1. FilterExpr(f) = [how |-> "and", terms |-> <<Compare(f.op, f.field, vs[1])>>]
    BY <1>8 DEF FilterExpr, Comparisons
  <2>2. Satisfies(f, row) = (v # Null /\ vs[1] # Null /\ Ordered(f.op, v, vs[1]))
    BY <1>8 DEF Satisfies, Comparisons
  <2> QED BY <1>3, <1>8, <2>1, <2>2
<1> QED BY <1>4, <1>5, <1>6, <1>7, <1>8 DEF FilterOperators
-----------------------------------------------------------------------------
(* The answer to a request.                                                *)

(* The rows s are the rows of t with the indices in M, in some order.      *)
Arranges(q, s, t, M) ==
  /\ q \in [DOMAIN s -> M]
  /\ \A i, j \in DOMAIN s : q[i] = q[j] => i = j
  /\ \A m \in M : \E i \in DOMAIN s : q[i] = m
  /\ \A i \in DOMAIN s : s[i] = t[q[i]]

Arranged(s, t, M) == \E q : Arranges(q, s, t, M)

LEMMA ArrangedLength ==
  ASSUME NEW X, NEW s \in Seq(X), NEW t, NEW M, Arranged(s, t, M)
  PROVE  IsFiniteSet(M) /\ Cardinality(M) = Len(s)
<1>1. PICK q : Arranges(q, s, t, M) BY DEF Arranged
<1>2. PICK n \in Nat : n = Len(s) /\ DOMAIN s = 1 .. n BY LenProperties
<1>3. q \in Bijection(1 .. n, M)
  BY <1>1, <1>2 DEF Arranges, Bijection, Injection, Surjection, IsInjective
<1>4. ExistsBijection(1 .. n, M) BY <1>3 DEF ExistsBijection
<1> QED BY <1>2, <1>4, FS_NatBijection, FS_CountingElements

LEMMA ArrangedSelf ==
  ASSUME NEW s
  PROVE  Arranged(s, s, DOMAIN s)
<1> DEFINE q == [i \in DOMAIN s |-> i]
<1>1. Arranges(q, s, s, DOMAIN s) BY DEF Arranges
<1> QED BY <1>1 DEF Arranged

(* The indices in M of members of S.                                       *)
Within(M, t, S) == {i \in M : t[i] \in S}

(* What is left of the rows that are left.                                 *)
LEMMA ArrangedTwice ==
  ASSUME NEW s, NEW t, NEW u, NEW M, NEW S, Arranged(s, t, M), Arranged(u, s, Within(DOMAIN s, s, S))
  PROVE  Arranged(u, t, Within(M, t, S))
<1> DEFINE N == {j \in DOMAIN s : s[j] \in S}
           K == {i \in M : t[i] \in S}
<1>1. PICK q : Arranges(q, s, t, M) BY DEF Arranged
<1>2. PICK r : Arranges(r, u, s, N) BY DEF Arranged, Within
<1> DEFINE h == [i \in DOMAIN u |-> q[r[i]]]
<1>3. ASSUME NEW i \in DOMAIN u PROVE h[i] \in K /\ u[i] = t[h[i]]
  <2>1. r[i] \in N /\ u[i] = s[r[i]] BY <1>2 DEF Arranges
  <2>2. q[r[i]] \in M /\ s[r[i]] = t[q[r[i]]] /\ s[r[i]] \in S BY <1>1, <2>1 DEF Arranges
  <2> QED BY <2>1, <2>2
<1>4. ASSUME NEW i \in DOMAIN u, NEW j \in DOMAIN u, h[i] = h[j] PROVE i = j
  <2>1. r[i] \in DOMAIN s /\ r[j] \in DOMAIN s BY <1>2 DEF Arranges
  <2>2. r[i] = r[j] BY <1>1, <1>4, <2>1 DEF Arranges
  <2> QED BY <1>2, <2>2 DEF Arranges
<1>5. ASSUME NEW m \in K PROVE \E i \in DOMAIN u : h[i] = m
  <2>1. PICK j \in DOMAIN s : q[j] = m BY <1>1 DEF Arranges
  <2>2. s[j] = t[m] BY <1>1, <2>1 DEF Arranges
  <2>3. j \in N BY <2>2
  <2>4. PICK i \in DOMAIN u : r[i] = j BY <1>2, <2>3 DEF Arranges
  <2> QED BY <2>1, <2>4
<1>6. h \in [DOMAIN u -> K] BY <1>3
<1> HIDE DEF h
<1>7. Arranges(h, u, t, K) BY <1>3, <1>4, <1>5, <1>6 DEF Arranges
<1> QED BY <1>7 DEF Arranged, Within

(* Another order of the same rows.                                         *)
LEMMA ArrangedAgain ==
  ASSUME NEW s, NEW t, NEW u, NEW M, Arranged(s, t, M), Arranged(u, s, DOMAIN s)
  PROVE  Arranged(u, t, M)
<1> DEFINE S == {s[j] : j \in DOMAIN s}
<1>1. {j \in DOMAIN s : s[j] \in S} = DOMAIN s OBVIOUS
<1>2. {i \in M : t[i] \in S} = M
  <2>1. PICK q : Arranges(q, s, t, M) BY DEF Arranged
  <2>2. ASSUME NEW i \in M PROVE t[i] \in S
    <3>1. PICK j \in DOMAIN s : q[j] = i BY <2>1 DEF Arranges
    <3>2. t[i] = s[j] BY <2>1, <3>1 DEF Arranges
    <3> QED BY <3>2
  <2> QED BY <2>2
<1> HIDE DEF S
<1>3. Arranged(u, s, Within(DOMAIN s, s, S)) BY <1>1 DEF Within
<1>4. Arranged(u, t, Within(M, t, S)) BY <1>3, ArrangedTwice
<1> QED BY <1>2, <1>4 DEF Within

(* Pick leaves the members that are in S.                                  *)
LEMMA PickArranged ==
  ASSUME NEW X, NEW s \in Seq(X), NEW S
  PROVE  Arranged(Pick(s, S), s, Within(DOMAIN s, s, S))
<1>1. PICK N \in Nat : N = Len(s) /\ DOMAIN s = 1 .. N BY LenProperties
<1>2. Pick(s, S) = (CHOOSE f : Picks(s, S, f, Len(s)))[Len(s)] BY DEF Pick, Picks
<1>3. PICK f : Picks(s, S, f, N) /\ Pick(s, S) = f[N] BY <1>1, <1>2, PicksExists
<1> DEFINE In(n) == {i \in 1 .. n : s[i] \in S}
           T == {n \in 0 .. N : f[n] \in Seq(X) /\ Arranged(f[n], s, In(n))}
<1>4. 0 \in T
  <2>1. f[0] = <<>> BY <1>3 DEF Picks
  <2>2. In(0) = {} OBVIOUS
  <2>3. f[0] \in Seq(X) BY <2>1, EmptySeq
  <2>4. DOMAIN f[0] = {} BY <2>1
  <2>5. Arranges(f[0], f[0], s, {}) BY <2>1, <2>4 DEF Arranges
  <2> QED BY <2>2, <2>3, <2>5 DEF Arranged
<1>5. ASSUME NEW n \in 0 .. N - 1, n \in T PROVE n + 1 \in T
  <2>1. f[n] \in Seq(X) /\ Arranged(f[n], s, In(n)) BY <1>5
  <2>2. f[n + 1] = IF s[n + 1] \in S THEN Append(f[n], s[n + 1]) ELSE f[n]
    <3>1. n + 1 \in 0 .. N /\ n + 1 # 0 /\ (n + 1) - 1 = n BY <1>1
    <3> QED BY <1>3, <3>1 DEF Picks
  <2>3. 1 .. n + 1 = (1 .. n) \cup {n + 1} OBVIOUS
  <2>4. n + 1 \in 0 .. N BY <1>1
  <2>5. CASE s[n + 1] \notin S
    <3>1. In(n + 1) = In(n) BY <2>3, <2>5
    <3> QED BY <2>1, <2>2, <2>4, <2>5, <3>1
  <2>6. CASE s[n + 1] \in S
    <3>1. s[n + 1] \in X
      <4>1. n + 1 \in 1 .. Len(s) BY <1>1
      <4> QED BY <4>1, ElementOfSeq
    <3>2. PICK k \in Nat : k = Len(f[n]) /\ DOMAIN f[n] = 1 .. k BY <2>1, LenProperties
    <3>3. /\ f[n + 1] \in Seq(X) /\ DOMAIN f[n + 1] = 1 .. k + 1
          /\ f[n + 1][k + 1] = s[n + 1] /\ \A i \in 1 .. k : f[n + 1][i] = f[n][i]
      BY <2>1, <2>2, <2>6, <3>1, <3>2
    <3>4. PICK q : Arranges(q, f[n], s, In(n)) BY <2>1 DEF Arranged
    <3> DEFINE h == [i \in 1 .. k + 1 |-> IF i = k + 1 THEN n + 1 ELSE q[i]]
    <3>5. In(n + 1) = In(n) \cup {n + 1} /\ n + 1 \notin In(n) BY <2>3, <2>6
    <3>6. h[k + 1] = n + 1 /\ \A i \in 1 .. k : h[i] = q[i] /\ q[i] \in In(n) /\ f[n][i] = s[q[i]]
      <4>1. h[k + 1] = n + 1 BY <3>2
      <4>2. \A i \in 1 .. k : h[i] = q[i] BY <3>2
      <4>3. \A i \in 1 .. k : q[i] \in In(n) /\ f[n][i] = s[q[i]] BY <3>2, <3>4 DEF Arranges
      <4> HIDE DEF h, In
      <4> QED BY <4>1, <4>2, <4>3
    <3>7. \A i \in 1 .. k + 1 : i = k + 1 \/ i \in 1 .. k OBVIOUS
    <3> DEFINE I == In(n)
               J == In(n + 1)
               g == f[n + 1]
    <3> HIDE DEF h, I, J
    <3>8. h \in [1 .. k + 1 -> J]
      <4>1. h = [i \in 1 .. k + 1 |-> h[i]] BY DEF h
      <4>2. \A i \in 1 .. k + 1 : h[i] \in J BY <3>5, <3>6, <3>7 DEF I, J
      <4> QED BY <4>1, <4>2
    <3>9. \A i, j \in 1 .. k + 1 : h[i] = h[j] => i = j
      <4>1. \A i, j \in 1 .. k : q[i] = q[j] => i = j BY <3>2, <3>4 DEF Arranges
      <4>2. \A i \in 1 .. k : h[i] # n + 1 BY <3>5, <3>6
      <4> QED BY <3>6, <3>7, <4>1, <4>2
    <3>10. \A m \in J : \E i \in 1 .. k + 1 : h[i] = m
      <4> TAKE m \in J
      <4>1. CASE m = n + 1
        <5>1. k + 1 \in 1 .. k + 1 OBVIOUS
        <5> QED BY <3>6, <4>1, <5>1
      <4>2. CASE m \in I
        <5>1. PICK i \in 1 .. k : q[i] = m BY <3>2, <3>4, <4>2 DEF Arranges, I
        <5>2. i \in 1 .. k + 1 OBVIOUS
        <5> QED BY <3>6, <5>1, <5>2
      <4> QED BY <3>5, <4>1, <4>2 DEF I, J
    <3>11. \A i \in 1 .. k + 1 : g[i] = s[h[i]] BY <3>3, <3>6, <3>7
    <3>12. Arranges(h, g, s, J) BY <3>3, <3>8, <3>9, <3>10, <3>11 DEF Arranges
    <3> QED BY <2>4, <3>3, <3>12 DEF Arranged, J
  <2> QED BY <2>5, <2>6
<1>6. 0 .. N \subseteq T
  <2> HIDE DEF T
  <2> QED BY <1>4, <1>5, UpTo
<1>7. N \in T
  <2>1. N \in 0 .. N OBVIOUS
  <2> HIDE DEF T
  <2> QED BY <1>6, <2>1
<1> QED BY <1>1, <1>3, <1>7 DEF Within

(* A sort gives the same rows in the order of its keys.                    *)
KeepsOrder(keys, s) == \A i, j \in DOMAIN s : i < j => ~Before(keys, s[j], s[i])

LEMMA SortedArranged ==
  ASSUME NEW X, NEW s \in Seq(X), NEW keys, NEW u \in Sorted(keys, s)
  PROVE  u \in Seq(X) /\ Arranged(u, s, DOMAIN s) /\ KeepsOrder(keys, u)
<1>1. PICK n \in Nat : n = Len(s) /\ DOMAIN s = 1 .. n BY LenProperties
<1>2. PICK p \in [1 .. n -> 1 .. n] :
        /\ IsInjective(p) /\ u = [i \in 1 .. n |-> s[p[i]]]
        /\ \A i, j \in 1 .. n : i < j => ~Before(keys, s[p[j]], s[p[i]])
  BY <1>1 DEF Sorted
<1>3. \A m \in 1 .. n : \E i \in 1 .. n : p[i] = m
  <2>1. p \in Injection(1 .. n, 1 .. n) BY <1>2 DEF Injection, IsInjective
  <2>2. IsFiniteSet(1 .. n) BY FS_Interval
  <2>3. p \in Surjection(1 .. n, 1 .. n) BY <2>1, <2>2, FS_Injection
  <2> QED BY <2>3 DEF Surjection
<1>4. \A i \in 1 .. n : s[i] \in X BY <1>1, ElementOfSeq
<1>5. \A i \in 1 .. n : u[i] = s[p[i]] /\ u[i] \in X BY <1>2, <1>4
<1>6. DOMAIN u = 1 .. n BY <1>2
<1>7. u \in Seq(X)
  <2>1. u \in [1 .. n -> X] BY <1>2, <1>5, <1>6
  <2> QED BY <2>1, SeqDef
<1>8. Arranges(p, u, s, 1 .. n) BY <1>2, <1>3, <1>5, <1>6 DEF Arranges, IsInjective
<1>9. KeepsOrder(keys, u) BY <1>2, <1>5, <1>6 DEF KeepsOrder
<1> QED BY <1>1, <1>7, <1>8, <1>9 DEF Arranged

(* The layers that a request asks for.                                     *)
FilterLayers(r) == [i \in DOMAIN r.filters |-> [node |-> "filter", predicate |-> FilterExpr(r.filters[i])]]
SortLayers(r) ==
  IF r.order_by = <<>> THEN FilterLayers(r)
  ELSE Append(FilterLayers(r), [node |-> "sort", keys |-> r.order_by])
AllLayers(r) ==
  IF r.limit = -1 THEN SortLayers(r) ELSE Append(SortLayers(r), [node |-> "fetch", limit |-> AsI64(r.limit)])
FiltersComplete(r) == \A i \in DOMAIN r.filters : EnoughValues(r.filters[i])

(* On the way of a resolved request to its answer its filters are checked  *)
(* and the layers grow as the request says.                                *)
RowsInv ==
  /\ rows \in Seq(ToSet(rows))
  /\ (qpc = "plan" \/ qpc \in Late \/ Answered) /\ ask.via = "facade" => IsShaped(req)
  /\ (qpc \in {"order", "limit", "emit"} \/ Answered) => FiltersComplete(req)
  /\ qpc = "order" => layers = FilterLayers(req)
  /\ qpc = "limit" => layers = SortLayers(req)
  /\ (qpc = "emit" \/ Answered) => layers = AllLayers(req)

LEMMA RowsStart == QueryInit => RowsInv
<1> SUFFICES ASSUME QueryInit PROVE RowsInv OBVIOUS
<1>1. qpc = "configure" /\ out = "none" /\ rows \in Seq(ToSet(rows)) BY DEF QueryInit, InitQuery
<1>2. ~Answered BY <1>1 DEF Answered
<1>3. qpc \notin Late BY <1>1 DEF Late
<1>4. ~(qpc = "plan" \/ qpc \in Late \/ Answered) BY <1>1, <1>2, <1>3
<1>5. ~(qpc \in {"order", "limit", "emit"} \/ Answered) /\ qpc # "order" /\ qpc # "limit" BY <1>1, <1>2
<1>6. ~(qpc = "emit" \/ Answered) BY <1>1, <1>2
<1> QED BY <1>1, <1>4, <1>5, <1>6 DEF RowsInv

LEMMA RowsKeep == QInv /\ RowsInv /\ [QueryNext]_<<qvars, gvars>> => RowsInv'
<1> SUFFICES ASSUME QInv, RowsInv, [QueryNext]_<<qvars, gvars>> PROVE RowsInv' OBVIOUS
<1> USE DEF RowsInv
<1>1. ASSUME UNCHANGED <<rows, ask, req, layers>>,
             \/ qpc' \in {"facade", "api", "engine", "parse"} \/ (qpc' = "done" /\ out' \notin {"sql", "substrait"})
             \/ qpc' = qpc /\ out' = out
             \/ qpc = "plan" /\ qpc' = "resolve"
             \/ qpc = "resolve" /\ qpc' \in {"grainset", "filters"}
             \/ qpc = "grainset" /\ qpc' = "filters"
             \/ qpc = "emit" /\ qpc' = "done"
      PROVE RowsInv'
  <2>1. qpc' \in {"order", "limit"} => qpc' = qpc BY <1>1
  <2>2. qpc' = "emit" \/ Answered' => qpc = "emit" \/ Answered BY <1>1 DEF Answered
  <2>3. qpc' = "plan" \/ qpc' \in Late \/ Answered' => qpc = "plan" \/ qpc \in Late \/ Answered
    BY <1>1 DEF Answered, Late
  <2>4. (IsShaped(req)' <=> IsShaped(req)) /\ (FiltersComplete(req)' <=> FiltersComplete(req))
    BY <1>1
  <2>5. FilterLayers(req)' = FilterLayers(req) /\ SortLayers(req)' = SortLayers(req) /\ AllLayers(req)' = AllLayers(req)
    BY <1>1
  <2> QED BY <1>1, <2>1, <2>2, <2>3, <2>4, <2>5
<1>2. CASE NewEngine BY <1>1, <1>2 DEF NewEngine
<1>3. ASSUME NEW b, BuildFacade(b) \/ BuildEngine(b) PROVE RowsInv'
  <2>1. UNCHANGED <<rows, ask, req, layers>> BY <1>3 DEF BuildFacade, BuildEngine
  <2>2. qpc' \in {"facade", "api"} \/ (qpc' = "done" /\ out' = "error") BY <1>3 DEF BuildFacade, BuildEngine
  <2> QED BY <1>1, <2>1, <2>2
<1>4. ASSUME NEW raw, NEW op, Validate(raw) \/ Receive(raw, op) PROVE RowsInv'
  <2>1. UNCHANGED rows BY <1>4 DEF Validate, Receive
  <2>2. qpc' = "engine" \/ (qpc' = "done" /\ out' \in {"valid", "invalid", "error"})
    BY <1>4 DEF Validate, Receive, Answer
  <2>3. ~Answered' /\ qpc' # "plan" /\ qpc' \notin Late BY <2>2 DEF Answered, Late
  <2> QED BY <2>1, <2>3 DEF Late
<1>5. ASSUME NEW r, NEW op, IsShaped(r), Submit(r, op) PROVE RowsInv'
  <2>1. UNCHANGED rows /\ req' = r /\ qpc' = "plan" BY <1>5 DEF Submit
  <2>2. ~Answered' BY <2>1 DEF Answered
  <2> QED BY <1>5, <2>1, <2>2
<1>6. CASE ValidateEngineField
  <2>1. UNCHANGED <<rows, ask, req, layers>> BY <1>6 DEF ValidateEngineField
  <2>2. qpc' = "parse" \/ (qpc' = "done" /\ out' = "error") BY <1>6 DEF ValidateEngineField, Answer
  <2> QED BY <1>1, <2>1, <2>2
<1>7. CASE ToResolved
  <2>1. qpc = "parse" /\ UNCHANGED <<rows, ask>> BY <1>7 DEF ToResolved
  <2>2. ask'.via = "api" BY <2>1 DEF QInv
  <2>3. qpc' = "plan" \/ (qpc' = "done" /\ out' = "error") BY <1>7 DEF ToResolved, Answer
  <2>4. ~Answered' /\ qpc' \notin Late BY <2>3 DEF Answered, Late
  <2> QED BY <2>1, <2>2, <2>3, <2>4 DEF Late
<1>8. CASE PlanAdHoc
  <2>1. qpc = "plan" /\ UNCHANGED <<rows, ask, layers>> BY <1>8 DEF PlanAdHoc
  <2>2. ASSUME NEW name \in DOMAIN manifest, req' = Reclassified(name), UNCHANGED <<out, qpc>> PROVE RowsInv'
    <3>1. {"filters", "order_by", "limit"} \subseteq DOMAIN req BY <2>1 DEF QInv, Kept, IsRequest, NoReq
    <3>2. req'.filters = req.filters /\ req'.order_by = req.order_by /\ req'.limit = req.limit
      BY <2>2, <3>1 DEF Reclassified
    <3>3. IsShaped(req)' <=> IsShaped(req) BY <3>2 DEF IsShaped
    <3>4. qpc' = "plan" /\ ~Answered' BY <2>1, <2>2 DEF Answered
    <3> QED BY <2>1, <3>3, <3>4
  <2>3. CASE Answer("joined or refused") /\ UNCHANGED req BY <1>1, <2>1, <2>3 DEF Answer
  <2> QED BY <1>8, <2>2, <2>3 DEF PlanAdHoc
<1>9. CASE CheckConstraints
  <2>1. qpc = "plan" /\ UNCHANGED <<rows, ask, req, layers>> BY <1>9 DEF CheckConstraints
  <2>2. qpc' = "resolve" \/ (qpc' = "done" /\ out' = "error") BY <1>9 DEF CheckConstraints, Answer
  <2> QED BY <1>1, <2>1, <2>2
<1>10. CASE ResolveGrainset BY <1>1, <1>10 DEF ResolveGrainset
<1>11. CASE GrainsetStep BY <1>1, <1>11 DEF GrainsetStep, qvars
<1>12. CASE GrainsetDone
  <2>1. qpc = "grainset" /\ UNCHANGED <<rows, ask, req, layers>> BY <1>12 DEF GrainsetDone
  <2>2. qpc' = "filters" \/ (qpc' = "done" /\ out' = "error") BY <1>12 DEF GrainsetDone, Answer
  <2> QED BY <1>1, <2>1, <2>2
<1>13. CASE ResolveSimple
  <2>1. qpc = "resolve" /\ UNCHANGED <<rows, ask, req, layers>> BY <1>13 DEF ResolveSimple
  <2>2. qpc' = "filters" \/ (qpc' = "done" /\ out' = "error") BY <1>13 DEF ResolveSimple, Answer
  <2> QED BY <1>1, <2>1, <2>2
<1>14. CASE InjectUserFilters
  <2>1. qpc = "filters" /\ UNCHANGED <<rows, ask, req>> BY <1>14 DEF InjectUserFilters
  <2>2. CASE FiltersComplete(req)
    <3>1. layers' = FilterLayers(req) /\ qpc' = "order"
      BY <1>14, <2>2 DEF InjectUserFilters, FiltersComplete, FilterLayers
    <3>2. ~Answered' BY <3>1 DEF Answered
    <3>3. IsShaped(req)' <=> IsShaped(req) BY <2>1
    <3>4. FiltersComplete(req)' /\ FilterLayers(req)' = FilterLayers(req) BY <2>1, <2>2
    <3> QED BY <2>1, <3>1, <3>2, <3>3, <3>4 DEF Late
  <2>3. CASE ~FiltersComplete(req)
    <3>1. qpc' = "done" /\ out' = "error" /\ UNCHANGED layers
      BY <1>14, <2>3 DEF InjectUserFilters, FiltersComplete, Answer
    <3> QED BY <1>1, <2>1, <3>1
  <2> QED BY <2>2, <2>3
<1>15. CASE ApplyOrderBy
  <2>1. qpc = "order" /\ qpc' = "limit" /\ UNCHANGED <<rows, ask, req>> BY <1>15 DEF ApplyOrderBy
  <2>2. layers' = SortLayers(req) BY <1>15, <2>1 DEF ApplyOrderBy, SortLayers
  <2>3. ~Answered' BY <2>1 DEF Answered
  <2>4. (IsShaped(req)' <=> IsShaped(req)) /\ FiltersComplete(req)' /\ SortLayers(req)' = SortLayers(req) BY <2>1
  <2> QED BY <2>1, <2>2, <2>3, <2>4 DEF Late
<1>16. CASE ApplyLimit
  <2>1. qpc = "limit" /\ qpc' = "emit" /\ UNCHANGED <<rows, ask, req>> BY <1>16 DEF ApplyLimit
  <2>2. layers' = AllLayers(req) BY <1>16, <2>1 DEF ApplyLimit, AllLayers
  <2>3. ~Answered' BY <2>1 DEF Answered
  <2>4. (IsShaped(req)' <=> IsShaped(req)) /\ FiltersComplete(req)' /\ AllLayers(req)' = AllLayers(req) BY <2>1
  <2> QED BY <2>1, <2>2, <2>3, <2>4 DEF Late
<1>17. CASE Emit
  <2>1. qpc = "emit" /\ qpc' = "done" /\ UNCHANGED <<rows, ask, req, layers>> BY <1>17 DEF Emit, Answer
  <2> QED BY <1>1, <2>1
<1>18. CASE UNCHANGED <<qvars, gvars>>
  BY <1>1, <1>18 DEF qvars
<1> QED BY <1>2, <1>3, <1>4, <1>5, <1>6, <1>7, <1>8, <1>9, <1>10, <1>11, <1>12, <1>13, <1>14, <1>15, <1>16, <1>17, <1>18
        DEF QueryNext, QueryStep

LEMMA RowsInductive == QuerySpec => []RowsInv
  BY QueryStart, QueryKeeps, RowsStart, RowsKeep, PTL DEF QuerySpec

(* What the layers make of rows, one after the other.                      *)
After(layer, S) == UNION {Run(layer, rs) : rs \in S}
Runs(ls, rs, f, N) == f = [i \in 0 .. N |-> IF i = 0 THEN {rs} ELSE After(ls[i], f[i - 1])]

LEMMA RunsExist ==
  ASSUME NEW ls, NEW rs, NEW N \in Nat
  PROVE  \E f : Runs(ls, rs, f, N)
<1> DEFINE T == {n \in Nat : \E f : Runs(ls, rs, f, n)}
<1>1. 0 \in T
  <2>1. Runs(ls, rs, [i \in 0 .. 0 |-> {rs}], 0) BY DEF Runs
  <2> QED BY <2>1
<1>2. ASSUME NEW n \in 0 .. N - 1, n \in T PROVE n + 1 \in T
  <2>1. PICK f : Runs(ls, rs, f, n) BY <1>2
  <2> DEFINE next == After(ls[n + 1], f[n])
             g == [k \in 0 .. n + 1 |-> IF k = n + 1 THEN next ELSE f[k]]
  <2>2. \A k \in 0 .. n : g[k] = f[k] OBVIOUS
  <2>3. \A k \in 0 .. n + 1 : g[k] = IF k = 0 THEN {rs} ELSE After(ls[k], g[k - 1])
    <3> TAKE k \in 0 .. n + 1
    <3>1. CASE k = n + 1
      <4>1. g[k] = next /\ k # 0 /\ g[k - 1] = f[n] BY <3>1
      <4> HIDE DEF g
      <4> QED BY <3>1, <4>1
    <3>2. CASE k = 0
      <4>1. g[k] = f[0] BY <3>2
      <4>2. f[0] = {rs} BY <2>1 DEF Runs
      <4> HIDE DEF g
      <4> QED BY <3>2, <4>1, <4>2
    <3>3. CASE k \in 1 .. n
      <4>1. k \in 0 .. n /\ k - 1 \in 0 .. n /\ k # 0 BY <3>3
      <4>2. g[k] = f[k] /\ g[k - 1] = f[k - 1] BY <2>2, <4>1
      <4>3. f[k] = After(ls[k], f[k - 1]) BY <2>1, <4>1 DEF Runs
      <4> HIDE DEF g
      <4> QED BY <4>1, <4>2, <4>3
    <3> QED BY <3>1, <3>2, <3>3
  <2>4. Runs(ls, rs, g, n + 1)
    <3>1. g = [k \in 0 .. n + 1 |-> g[k]] OBVIOUS
    <3> HIDE DEF g
    <3> QED BY <2>3, <3>1 DEF Runs
  <2> QED BY <2>4
<1>3. 0 .. N \subseteq T
  <2> HIDE DEF T
  <2> QED BY <1>1, <1>2, UpTo
<1> QED BY <1>3

LEMMA FragmentTyped == RowsInv => Fragment \in Seq(ToSet(Fragment))
<1> SUFFICES ASSUME RowsInv PROVE Fragment \in Seq(ToSet(Fragment)) OBVIOUS
<1>1. PICK n \in Nat : DOMAIN rows = 1 .. n
  <2>1. rows \in Seq(ToSet(rows)) BY DEF RowsInv
  <2> QED BY <2>1, LenProperties
<1>2. DOMAIN Fragment = 1 .. n /\ Fragment = [i \in 1 .. n |-> Fragment[i]] BY <1>1 DEF Fragment
<1>3. \A i \in 1 .. n : Fragment[i] \in ToSet(Fragment) BY <1>2 DEF ToSet
<1>4. Fragment \in [1 .. n -> ToSet(Fragment)] BY <1>2, <1>3
<1> QED BY <1>4, SeqDef

LEMMA ResultsOfRuns ==
  ASSUME NEW N \in Nat, Len(layers) = N, Readable
  PROVE  \E f : /\ f[0] = {Fragment} /\ \A i \in 1 .. N : f[i] = After(layers[i], f[i - 1])
                /\ Results = f[N]
<1>1. Results = (CHOOSE f : Runs(layers, Fragment, f, Len(layers)))[Len(layers)] BY DEF Results, AfterAll, Runs, After
<1>2. PICK f : Runs(layers, Fragment, f, N) /\ Results = f[N] BY <1>1, RunsExist
<1>3. f[0] = {Fragment} BY <1>2 DEF Runs
<1>4. ASSUME NEW i \in 1 .. N PROVE f[i] = After(layers[i], f[i - 1])
  <2>1. i \in 0 .. N /\ i # 0 OBVIOUS
  <2> QED BY <1>2, <2>1 DEF Runs
<1> QED BY <1>2, <1>3, <1>4

(* The rows that satisfy the first k filters.                              *)
Matching(fs, k) == {i \in DOMAIN Fragment : \A j \in 1 .. k : Satisfies(fs[j], Fragment[i])}

(* One more filter leaves the rows that satisfy it, too.                   *)
LEMMA FilterLeaves ==
  ASSUME NEW X, NEW s \in Seq(X), NEW fs, NEW k \in Nat, Arranged(s, Fragment, Matching(fs, k)),
         IsFilter(fs[k + 1]), EnoughValues(fs[k + 1]),
         NEW u \in Run([node |-> "filter", predicate |-> FilterExpr(fs[k + 1])], s)
  PROVE  u \in Seq(X) /\ Arranged(u, Fragment, Matching(fs, k + 1))
<1> DEFINE f == fs[k + 1]
           S == {r \in ToSet(s) : Holds(FilterExpr(f), r)}
           M == Matching(fs, k)
<1>1. u = Pick(s, S)
  <2> DEFINE l == [node |-> "filter", predicate |-> FilterExpr(f)]
  <2>1. l.node = "filter" /\ l.predicate = FilterExpr(f) OBVIOUS
  <2> HIDE DEF l
  <2>2. Run(l, s) = {Pick(s, {r \in ToSet(s) : Holds(l.predicate, r)})} BY <2>1 DEF Run
  <2> QED BY <2>1, <2>2 DEF l
<1> HIDE DEF S
<1>2. u \in Seq(X) BY <1>1, PickMembers
<1>3. Arranged(u, s, Within(DOMAIN s, s, S)) BY <1>1, PickArranged
<1>4. Arranged(u, Fragment, Within(M, Fragment, S))
  <2>1. Arranged(s, Fragment, M) OBVIOUS
  <2> HIDE DEF M
  <2> QED BY <1>3, <2>1, ArrangedTwice
<1>5. \A i \in M : Fragment[i] \in ToSet(s)
  <2>1. PICK q : Arranges(q, s, Fragment, M) BY DEF Arranged
  <2> TAKE i \in M
  <2>2. PICK j \in DOMAIN s : q[j] = i BY <2>1 DEF Arranges
  <2>3. Fragment[i] = s[j] BY <2>1, <2>2 DEF Arranges
  <2> QED BY <2>3 DEF ToSet
<1>6. \A r : Holds(FilterExpr(f), r) <=> Satisfies(f, r) BY PredicatesMeanFilters DEF IsFilter
<1>7. Within(M, Fragment, S) = {i \in M : Satisfies(f, Fragment[i])}
  <2> HIDE DEF M, f
  <2> QED BY <1>5, <1>6 DEF S, Within
<1>8. Matching(fs, k + 1) = {i \in M : Satisfies(f, Fragment[i])}
  <2>1. 1 .. k + 1 = (1 .. k) \cup {k + 1} OBVIOUS
  <2> QED BY <2>1 DEF Matching
<1> QED BY <1>2, <1>4, <1>7, <1>8

(* What answers, if a request asks for the first m rows in some order.     *)
IsFirst(a, keys, M, m) ==
  /\ Len(a) = m
  /\ \A i, j \in DOMAIN a : i < j => ~Before(keys, a[j], a[i])
  /\ \E q \in [DOMAIN a -> M] :
       /\ IsInjective(q) /\ \A i \in DOMAIN a : a[i] = Fragment[q[i]]
       /\ \A i \in DOMAIN a, k \in M \ Range(q) : ~Before(keys, Fragment[k], a[i])

LEMMA FirstOfOrdered ==
  ASSUME NEW X, NEW u \in Seq(X), NEW M, Arranged(u, Fragment, M), NEW keys, KeepsOrder(keys, u),
         NEW m \in 0 .. Len(u), NEW a, DOMAIN a = 1 .. m, Len(a) = m, \A i \in 1 .. m : a[i] = u[i]
  PROVE  IsFirst(a, keys, M, m)
<1>1. PICK n \in Nat : n = Len(u) /\ DOMAIN u = 1 .. n BY LenProperties
<1>2. m \in Nat /\ m <= n /\ \A i \in 1 .. m : i \in 1 .. n BY <1>1
<1>3. \A i, j \in 1 .. m : i < j => ~Before(keys, a[j], a[i]) BY <1>1, <1>2 DEF KeepsOrder
<1>4. PICK p : Arranges(p, u, Fragment, M) BY DEF Arranged
<1> DEFINE q == [i \in 1 .. m |-> p[i]]
<1>5. q \in [1 .. m -> M] BY <1>1, <1>2, <1>4 DEF Arranges
<1>6. \A i \in 1 .. m : q[i] = p[i] OBVIOUS
<1> HIDE DEF q
<1>7. IsInjective(q) BY <1>1, <1>2, <1>4, <1>5, <1>6 DEF Arranges, IsInjective
<1>8. \A i \in 1 .. m : a[i] = Fragment[q[i]] BY <1>1, <1>2, <1>4, <1>6 DEF Arranges
<1>9. ASSUME NEW i \in 1 .. m, NEW k \in M \ Range(q) PROVE ~Before(keys, Fragment[k], a[i])
  <2>1. PICK j \in 1 .. n : p[j] = k BY <1>1, <1>4 DEF Arranges
  <2>2. j \notin 1 .. m BY <1>5, <1>6, <1>9, <2>1 DEF Range
  <2>3. i < j /\ i \in 1 .. n BY <1>2, <2>2
  <2>4. Fragment[k] = u[j] BY <1>1, <1>4, <2>1 DEF Arranges
  <2> QED BY <1>1, <2>3, <2>4 DEF KeepsOrder
<1> QED BY <1>3, <1>5, <1>7, <1>8, <1>9 DEF IsFirst

(* What the filters leave, one after the other.                            *)
LEMMA FiltersLeave ==
  ASSUME Fragment \in Seq(ToSet(Fragment)), NEW fs, NEW n \in Nat, NEW ls, NEW h, h[0] = {Fragment},
         \A i \in 1 .. n : /\ IsFilter(fs[i]) /\ EnoughValues(fs[i])
                           /\ ls[i] = [node |-> "filter", predicate |-> FilterExpr(fs[i])]
                           /\ h[i] = After(ls[i], h[i - 1])
  PROVE  \A s \in h[n] : s \in Seq(ToSet(Fragment)) /\ Arranged(s, Fragment, Matching(fs, n))
<1> DEFINE X == ToSet(Fragment)
           Good(s, k) == s \in Seq(X) /\ Arranged(s, Fragment, Matching(fs, k))
           T == {k \in 0 .. n : \A s \in h[k] : Good(s, k)}
<1>1. 0 \in T
  <2>1. Matching(fs, 0) = DOMAIN Fragment
    <3>1. 1 .. 0 = {} OBVIOUS
    <3> QED BY <3>1 DEF Matching
  <2>2. Good(Fragment, 0) BY <2>1, ArrangedSelf
  <2> HIDE DEF Good
  <2> QED BY <2>2
<1>2. ASSUME NEW k \in 0 .. n - 1, k \in T PROVE k + 1 \in T
  <2>1. k \in Nat /\ k + 1 \in 1 .. n /\ k + 1 \in 0 .. n /\ (k + 1) - 1 = k OBVIOUS
  <2> DEFINE l == [node |-> "filter", predicate |-> FilterExpr(fs[k + 1])]
  <2>2. ls[k + 1] = l /\ h[k + 1] = After(ls[k + 1], h[k]) /\ IsFilter(fs[k + 1]) /\ EnoughValues(fs[k + 1])
    BY <2>1
  <2>3. ASSUME NEW u \in h[k + 1] PROVE Good(u, k + 1)
    <3>1. PICK s \in h[k] : u \in Run(l, s)
      <4> HIDE DEF l
      <4> QED BY <2>2, <2>3 DEF After
    <3>2. Good(s, k) BY <1>2
    <3> HIDE DEF X
    <3> QED BY <2>1, <2>2, <3>1, <3>2, FilterLeaves
  <2> HIDE DEF Good
  <2> QED BY <2>1, <2>3
<1>3. 0 .. n \subseteq T
  <2> HIDE DEF T
  <2> QED BY <1>1, <1>2, UpTo
<1>4. n \in T
  <2>1. n \in 0 .. n OBVIOUS
  <2> HIDE DEF T
  <2> QED BY <1>3, <2>1
<1> QED BY <1>4

(* What the filters and the sort leave.                                    *)
LEMMA SortLeaves ==
  ASSUME Fragment \in Seq(ToSet(Fragment)), NEW r, IsShaped(r), FiltersComplete(r), NEW m \in Nat, NEW ls, NEW h,
         m = Len(SortLayers(r)), h[0] = {Fragment},
         \A i \in 1 .. m : ls[i] = SortLayers(r)[i] /\ h[i] = After(ls[i], h[i - 1]),
         NEW u \in h[m]
  PROVE  /\ u \in Seq(ToSet(Fragment)) /\ Arranged(u, Fragment, Matching(r.filters, Len(r.filters)))
         /\ KeepsOrder(r.order_by, u)
<1> DEFINE X == ToSet(Fragment)
           fs == r.filters
<1>1. PICK n \in Nat : n = Len(fs) /\ DOMAIN fs = 1 .. n
  <2>1. fs \in Seq(ToSet(fs)) BY DEF IsShaped
  <2> HIDE DEF fs
  <2> QED BY <2>1, LenProperties
<1>2. FilterLayers(r) \in Seq({FilterLayers(r)[i] : i \in 1 .. n}) /\ Len(FilterLayers(r)) = n
  BY <1>1 DEF FilterLayers
<1>3. \A i \in 1 .. n : IsFilter(fs[i]) /\ EnoughValues(fs[i])
  BY <1>1 DEF IsShaped, FiltersComplete
<1>4. \A i \in 1 .. n : FilterLayers(r)[i] = [node |-> "filter", predicate |-> FilterExpr(fs[i])]
  BY <1>1 DEF FilterLayers
<1> DEFINE Left(s) == s \in Seq(X) /\ Arranged(s, Fragment, Matching(fs, n))
<1>5. ASSUME n <= m, \A i \in 1 .. n : ls[i] = FilterLayers(r)[i] PROVE \A s \in h[n] : Left(s)
  <2>1. \A i \in 1 .. n : h[i] = After(ls[i], h[i - 1]) BY <1>5
  <2>2. \A i \in 1 .. n : /\ IsFilter(fs[i]) /\ EnoughValues(fs[i])
                          /\ ls[i] = [node |-> "filter", predicate |-> FilterExpr(fs[i])]
                          /\ h[i] = After(ls[i], h[i - 1])
    BY <1>3, <1>4, <1>5, <2>1
  <2>3. \A s \in h[n] : s \in Seq(ToSet(Fragment)) /\ Arranged(s, Fragment, Matching(fs, n))
    <3> HIDE DEF fs
    <3> QED BY <2>2, FiltersLeave
  <2> QED BY <2>3
<1> HIDE DEF X
<1>6. CASE r.order_by = <<>>
  <2>1. SortLayers(r) = FilterLayers(r) BY <1>6 DEF SortLayers
  <2>2. m = n /\ \A i \in 1 .. n : ls[i] = FilterLayers(r)[i] BY <1>2, <2>1
  <2>3. Left(u) BY <1>5, <2>2
  <2>4. KeepsOrder(r.order_by, u)
    <3>1. DOMAIN r.order_by = {} BY <1>6
    <3> QED BY <3>1 DEF KeepsOrder, Before
  <2> QED BY <1>1, <2>3, <2>4 DEF X
<1>7. CASE r.order_by # <<>>
  <2> DEFINE l == [node |-> "sort", keys |-> r.order_by]
  <2>1. SortLayers(r) = Append(FilterLayers(r), l) BY <1>7 DEF SortLayers
  <2>2. /\ Len(SortLayers(r)) = n + 1 /\ SortLayers(r)[n + 1] = l
        /\ \A i \in 1 .. n : SortLayers(r)[i] = FilterLayers(r)[i]
    <3> DEFINE fl == FilterLayers(r)
    <3>1. fl \in Seq({fl[i] : i \in 1 .. n}) /\ Len(fl) = n BY <1>2
    <3> HIDE DEF fl, l
    <3>2. Len(Append(fl, l)) = n + 1 /\ Append(fl, l)[n + 1] = l /\ \A i \in 1 .. n : Append(fl, l)[i] = fl[i]
      BY <3>1
    <3> QED BY <2>1, <3>2 DEF fl
  <2>3. m = n + 1 /\ n + 1 \in 1 .. m /\ (n + 1) - 1 = n /\ n <= m BY <2>2
  <2>4. \A i \in 1 .. n : i \in 1 .. m BY <2>3
  <2>5. \A i \in 1 .. n : ls[i] = FilterLayers(r)[i] BY <2>2, <2>4
  <2>6. ls[m] = l /\ h[m] = After(l, h[n]) BY <2>2, <2>3
  <2>7. PICK s \in h[n] : u \in Run(l, s)
    <3> HIDE DEF l
    <3> QED BY <2>6 DEF After
  <2>8. Left(s) BY <1>5, <2>3, <2>5
  <2>9. u \in Sorted(r.order_by, s)
    <3>1. l.node = "sort" /\ l.keys = r.order_by OBVIOUS
    <3> HIDE DEF l
    <3>2. l.node # "filter" BY <3>1
    <3>3. Run(l, s) = Sorted(l.keys, s) BY <3>1, <3>2 DEF Run
    <3> QED BY <2>7, <3>1, <3>3
  <2>10. u \in Seq(X) /\ Arranged(u, s, DOMAIN s) /\ KeepsOrder(r.order_by, u) BY <2>8, <2>9, SortedArranged
  <2>11. Arranged(u, Fragment, Matching(fs, n)) BY <2>8, <2>10, ArrangedAgain
  <2> QED BY <1>1, <2>10, <2>11 DEF X
<1> QED BY <1>6, <1>7

(* The limit takes the first of them.                                      *)
LEMMA AnswerIsFirst ==
  ASSUME RowsInv, Answered, ask.via = "facade", Readable, req.limit <= MaxI64, NEW answer \in Results
  PROVE  LET match == Matching(req.filters, Len(req.filters)) IN
         IsFirst(answer, req.order_by, match,
                 IF req.limit # -1 /\ req.limit < Cardinality(match) THEN req.limit ELSE Cardinality(match))
<1> DEFINE match == Matching(req.filters, Len(req.filters))
           X == ToSet(Fragment)
           sl == SortLayers(req)
<1>1. Fragment \in Seq(X) /\ IsShaped(req) /\ FiltersComplete(req) /\ layers = AllLayers(req)
  BY FragmentTyped DEF RowsInv
<1>2. PICK m \in Nat : m = Len(sl) /\ sl \in Seq({sl[i] : i \in DOMAIN sl})
  <2> DEFINE fl == FilterLayers(req)
             Y == {fl[i] : i \in DOMAIN fl} \cup {[node |-> "sort", keys |-> req.order_by]}
  <2>1. fl \in Seq(Y)
    <3>1. PICK n \in Nat : DOMAIN req.filters = 1 .. n
      <4>1. req.filters \in Seq(ToSet(req.filters)) BY <1>1 DEF IsShaped
      <4> QED BY <4>1, LenProperties
    <3>2. DOMAIN fl = 1 .. n /\ fl = [i \in 1 .. n |-> fl[i]] BY <3>1 DEF FilterLayers
    <3> HIDE DEF fl
    <3> QED BY <3>2
  <2>2. sl \in Seq(Y)
    <3> HIDE DEF fl
    <3>1. sl = fl \/ sl = Append(fl, [node |-> "sort", keys |-> req.order_by]) BY DEF SortLayers, fl
    <3> QED BY <2>1, <3>1
  <2> HIDE DEF sl, Y
  <2>3. PICK m \in Nat : m = Len(sl) /\ DOMAIN sl = 1 .. m /\ sl = [i \in 1 .. m |-> sl[i]] BY <2>2, LenProperties
  <2>4. sl \in [1 .. m -> {sl[i] : i \in DOMAIN sl}] BY <2>3
  <2> QED BY <2>3, <2>4, SeqDef
<1> HIDE DEF sl
<1>3. ASSUME NEW h, h[0] = {Fragment}, \A i \in 1 .. m : h[i] = After(layers[i], h[i - 1]) /\ layers[i] = sl[i], NEW u \in h[m]
      PROVE  u \in Seq(X) /\ Arranged(u, Fragment, match) /\ KeepsOrder(req.order_by, u) /\ Len(u) = Cardinality(match)
  <2>1. m = Len(SortLayers(req)) /\ \A i \in 1 .. m : layers[i] = SortLayers(req)[i] BY <1>2, <1>3 DEF sl
  <2>2. u \in Seq(X) /\ Arranged(u, Fragment, match) /\ KeepsOrder(req.order_by, u)
    <3>1. \A i \in 1 .. m : layers[i] = SortLayers(req)[i] /\ h[i] = After(layers[i], h[i - 1]) BY <1>3, <2>1
    <3>2. h[0] = {Fragment} /\ u \in h[m] /\ m = Len(SortLayers(req)) BY <1>3, <2>1
    <3>3. /\ u \in Seq(ToSet(Fragment)) /\ Arranged(u, Fragment, Matching(req.filters, Len(req.filters)))
          /\ KeepsOrder(req.order_by, u)
      <4> HIDE DEF match, X
      <4>1. Fragment \in Seq(ToSet(Fragment)) /\ IsShaped(req) /\ FiltersComplete(req) BY <1>1 DEF X
      <4> QED BY <3>1, <3>2, <4>1, SortLeaves
    <3> QED BY <3>3
  <2> HIDE DEF match, X
  <2>3. Len(u) = Cardinality(match) BY <2>2, ArrangedLength
  <2> QED BY <2>2, <2>3
<1> HIDE DEF match, X
<1>4. CASE req.limit = -1
  <2>1. layers = sl BY <1>1, <1>4 DEF AllLayers, sl
  <2>2. PICK h : h[0] = {Fragment} /\ (\A i \in 1 .. m : h[i] = After(layers[i], h[i - 1])) /\ Results = h[m]
    BY <1>2, <2>1, ResultsOfRuns
  <2>3. answer \in Seq(X) /\ Arranged(answer, Fragment, match) /\ KeepsOrder(req.order_by, answer) /\ Len(answer) = Cardinality(match)
    BY <1>3, <2>1, <2>2
  <2>4. PICK k \in Nat : k = Len(answer) /\ DOMAIN answer = 1 .. k BY <2>3, LenProperties
  <2>5. k \in 0 .. Len(answer) /\ \A i \in 1 .. k : answer[i] = answer[i] BY <2>4
  <2>6. IsFirst(answer, req.order_by, match, k) BY <2>3, <2>4, <2>5, FirstOfOrdered
  <2> QED BY <1>4, <2>3, <2>4, <2>6 DEF match
<1>5. CASE req.limit # -1
  <2> DEFINE l == [node |-> "fetch", limit |-> AsI64(req.limit)]
  <2>1. req.limit \in Nat /\ AsI64(req.limit) = req.limit
    <3>1. req.limit \in Nat BY <1>1, <1>5 DEF IsShaped
    <3> QED BY <3>1, EngineAssumption DEF AsI64
  <2>2. layers = Append(sl, l) BY <1>1, <1>5 DEF AllLayers, sl
  <2>3. Len(layers) = m + 1 /\ layers[m + 1] = l /\ \A i \in 1 .. m : layers[i] = sl[i]
    <3> HIDE DEF l
    <3> QED BY <1>2, <2>2
  <2>4. m + 1 \in Nat /\ m + 1 \in 1 .. m + 1 /\ (m + 1) - 1 = m /\ \A i \in 1 .. m : i \in 1 .. m + 1 OBVIOUS
  <2>5. PICK h : h[0] = {Fragment} /\ (\A i \in 1 .. m + 1 : h[i] = After(layers[i], h[i - 1])) /\ Results = h[m + 1]
    BY <2>3, <2>4, ResultsOfRuns
  <2>6. PICK u \in h[m] : answer \in Run(l, u)
    <3>1. answer \in After(l, h[m]) BY <2>3, <2>4, <2>5
    <3> HIDE DEF l
    <3> QED BY <3>1 DEF After
  <2>7. u \in Seq(X) /\ Arranged(u, Fragment, match) /\ KeepsOrder(req.order_by, u) /\ Len(u) = Cardinality(match)
    BY <1>3, <2>3, <2>4, <2>5
  <2>8. PICK n \in Nat : n = Len(u) /\ DOMAIN u = 1 .. n BY <2>7, LenProperties
  <2> DEFINE k == IF req.limit < n THEN req.limit ELSE n
  <2>9. answer = SubSeq(u, 1, k)
    <3>1. l.node = "fetch" /\ l.limit = req.limit BY <2>1
    <3> HIDE DEF l
    <3>2. l.node # "filter" /\ l.node # "sort" BY <3>1
    <3>3. Run(l, u) = {SubSeq(u, 1, IF l.limit < Len(u) THEN l.limit ELSE Len(u))} BY <3>2 DEF Run
    <3> QED BY <2>6, <2>8, <3>1, <3>3
  <2>10. k \in 0 .. n /\ k \in Nat BY <2>1
  <2> HIDE DEF k
  <2>11. DOMAIN answer = 1 .. k /\ Len(answer) = k /\ \A i \in 1 .. k : answer[i] = u[i]
    BY <2>7, <2>8, <2>9, <2>10, SubSeqProperties
  <2>12. IsFirst(answer, req.order_by, match, k) BY <2>7, <2>8, <2>10, <2>11, FirstOfOrdered
  <2> QED BY <1>5, <2>7, <2>8, <2>12 DEF match, k
<1> QED BY <1>4, <1>5

(* The filters, the sort and the limit that the planner puts above the     *)
(* plan of a kind give the first of the rows that match, for any rows, and *)
(* any filters and order on what the request asks for, and whatever order  *)
(* a sort leaves equal rows in.  (AnswersExist: of other filters and       *)
(* orders nothing is said here, they have no result.)                      *)
THEOREM AnswersAreFirst == QuerySpec => []FirstOfTheMatching
<1>1. RowsInv => FirstOfTheMatching
  <2> SUFFICES ASSUME RowsInv, Answered, ask.via = "facade", Readable, req.limit <= MaxI64
               PROVE  LET match == {i \in DOMAIN Fragment : \A k \in DOMAIN req.filters : Satisfies(req.filters[k], Fragment[i])} IN
                      \A answer \in Results :
                        IsFirst(answer, req.order_by, match,
                                IF req.limit # -1 /\ req.limit < Cardinality(match) THEN req.limit ELSE Cardinality(match))
    BY DEF FirstOfTheMatching, IsFirst
  <2>1. DOMAIN req.filters = 1 .. Len(req.filters)
    <3>1. req.filters \in Seq(ToSet(req.filters)) BY DEF RowsInv, IsShaped
    <3> QED BY <3>1, LenProperties
  <2>2. {i \in DOMAIN Fragment : \A k \in DOMAIN req.filters : Satisfies(req.filters[k], Fragment[i])}
          = Matching(req.filters, Len(req.filters))
    BY <2>1 DEF Matching
  <2> QED BY <2>2, AnswerIsFirst
<1> QED BY <1>1, RowsInductive, PTL

(* A finite set can be put in any strict total order on it.                *)
IsOrder(R, S) ==
  /\ \A x \in S : <<x, x>> \notin R
  /\ \A x, y, z \in S : <<x, y>> \in R /\ <<y, z>> \in R => <<x, z>> \in R
  /\ \A x, y \in S : x = y \/ <<x, y>> \in R \/ <<y, x>> \in R

LEMMA OrderExists ==
  ASSUME NEW C \in Nat, NEW R, IsOrder(R, 1 .. C)
  PROVE  \E p \in [1 .. C -> 1 .. C] : IsInjective(p) /\ \A i, j \in 1 .. C : i < j => <<p[j], p[i]>> \notin R
<1> DEFINE X == 1 .. C
           before(x) == {y \in X : <<y, x>> \in R}
           place(x) == 1 + Cardinality(before(x))
<1>1. IsFiniteSet(X) /\ Cardinality(X) = C BY FS_Interval
<1>2. /\ \A x \in X : <<x, x>> \notin R
      /\ \A x, y, z \in X : <<x, y>> \in R /\ <<y, z>> \in R => <<x, z>> \in R
      /\ \A x, y \in X : x = y \/ <<x, y>> \in R \/ <<y, x>> \in R
  BY DEF IsOrder
<1> HIDE DEF X
<1>3. ASSUME NEW x \in X
      PROVE  IsFiniteSet(before(x)) /\ Cardinality(before(x)) \in Nat /\ place(x) \in 1 .. C
  <2>1. before(x) \in SUBSET X /\ x \notin before(x) BY <1>2
  <2>2. IsFiniteSet(before(x)) /\ Cardinality(before(x)) <= C /\ Cardinality(before(x)) # C
    <3>1. before(x) # X BY <2>1
    <3> HIDE DEF before
    <3> QED BY <1>1, <2>1, <3>1, FS_Subset
  <2>3. Cardinality(before(x)) \in Nat BY <2>2, FS_CardinalityType
  <2> HIDE DEF before
  <2> QED BY <2>2, <2>3
<1>4. ASSUME NEW x \in X, NEW y \in X, <<x, y>> \in R PROVE place(x) < place(y)
  <2>1. before(x) \in SUBSET before(y) BY <1>2, <1>4
  <2>2. x \in before(y) /\ x \notin before(x) BY <1>2, <1>4
  <2> HIDE DEF before
  <2>3. IsFiniteSet(before(y)) /\ Cardinality(before(x)) \in Nat /\ Cardinality(before(y)) \in Nat BY <1>3
  <2>4. Cardinality(before(x)) <= Cardinality(before(y)) /\ Cardinality(before(x)) # Cardinality(before(y))
    BY <2>1, <2>2, <2>3, FS_Subset
  <2> QED BY <2>3, <2>4
<1> HIDE DEF place
<1>5. \A x, y \in X : place(x) = place(y) => x = y
  <2> SUFFICES ASSUME NEW x \in X, NEW y \in X, place(x) = place(y), x # y PROVE FALSE
    OBVIOUS
  <2>1. place(x) \in 1 .. C /\ place(y) \in 1 .. C BY <1>3
  <2>2. place(x) < place(y) \/ place(y) < place(x) BY <1>2, <1>4
  <2> QED BY <2>1, <2>2
<1>6. \A i \in 1 .. C : \E x \in X : place(x) = i
  <2> DEFINE f == [x \in X |-> place(x)]
  <2>1. f \in Injection(X, 1 .. C) BY <1>3, <1>5 DEF Injection, IsInjective
  <2>2. IsFiniteSet(1 .. C) /\ Cardinality(1 .. C) = C BY <1>1 DEF X
  <2>3. f \in Surjection(X, 1 .. C)
    <3> HIDE DEF f
    <3> QED BY <1>1, <2>1, <2>2, FS_Injection
  <2> QED BY <2>3 DEF Surjection
<1> DEFINE p == [i \in 1 .. C |-> CHOOSE x \in X : place(x) = i]
<1>7. ASSUME NEW i \in 1 .. C PROVE p[i] \in X /\ place(p[i]) = i
  <2>1. p[i] = CHOOSE x \in X : place(x) = i OBVIOUS
  <2> QED BY <1>6, <2>1
<1>8. p \in [1 .. C -> 1 .. C] BY <1>7 DEF X
<1> HIDE DEF p
<1>9. IsInjective(p) BY <1>7, <1>8 DEF IsInjective
<1>10. ASSUME NEW i \in 1 .. C, NEW j \in 1 .. C, i < j PROVE <<p[j], p[i]>> \notin R
  <2> SUFFICES ASSUME <<p[j], p[i]>> \in R PROVE FALSE OBVIOUS
  <2>1. place(p[j]) < place(p[i]) BY <1>4, <1>7
  <2> QED BY <1>7, <1>10, <2>1
<1> QED BY <1>8, <1>9, <1>10

(* The values a row is sorted by, and the rows that no key tells apart.    *)
Comparable(keys, r) == \A k \in DOMAIN keys : r[keys[k].field] \in Int
Tied(keys, r, s) == \A k \in DOMAIN keys : r[keys[k].field] = s[keys[k].field]

(* Before is a weak order: what it does not order is tied.                 *)
LEMMA BeforeOrders ==
  ASSUME NEW K, NEW keys \in Seq(K), NEW r, NEW s, Comparable(keys, r), Comparable(keys, s)
  PROVE  /\ Before(keys, r, s) => ~Before(keys, s, r)
         /\ Before(keys, r, s) \/ Before(keys, s, r) \/ Tied(keys, r, s)
         /\ \A t : Comparable(keys, t) /\ Before(keys, r, s) /\ (Before(keys, s, t) \/ Tied(keys, s, t)) => Before(keys, r, t)
         /\ \A t : Comparable(keys, t) /\ Tied(keys, r, s) /\ Before(keys, s, t) => Before(keys, r, t)
<1>1. PICK n \in Nat : n = Len(keys) /\ DOMAIN keys = 1 .. n BY LenProperties
<1> DEFINE v(x, k) == x[keys[k].field]
           less(x, y, k) == IF keys[k].direction = "asc" THEN v(x, k) < v(y, k) ELSE v(x, k) > v(y, k)
<1>2. \A x, y : Before(keys, x, y) <=> \E k \in 1 .. n : (\A j \in 1 .. k - 1 : v(x, j) = v(y, j)) /\ less(x, y, k)
  BY <1>1 DEF Before
<1>3. \A x, y : Tied(keys, x, y) <=> \A k \in 1 .. n : v(x, k) = v(y, k) BY <1>1 DEF Tied
<1>4. \A x : Comparable(keys, x) <=> \A k \in 1 .. n : v(x, k) \in Int BY <1>1 DEF Comparable
<1>5. \A x, y, z, k : v(x, k) \in Int /\ v(y, k) \in Int /\ v(z, k) \in Int =>
        /\ less(x, y, k) => v(x, k) # v(y, k) /\ ~less(y, x, k)
        /\ v(x, k) # v(y, k) => less(x, y, k) \/ less(y, x, k)
        /\ less(x, y, k) /\ less(y, z, k) => less(x, z, k)
        /\ less(x, y, k) /\ v(y, k) = v(z, k) => less(x, z, k)
        /\ v(x, k) = v(y, k) /\ less(y, z, k) => less(x, z, k)
  OBVIOUS
<1> HIDE DEF v, less
<1>6. \A i, j \in 1 .. n : i = j \/ i \in 1 .. j - 1 \/ j \in 1 .. i - 1 OBVIOUS
<1>7. \A i \in 1 .. n : \A j \in 1 .. i - 1 : j \in 1 .. n /\ 1 .. j - 1 \subseteq 1 .. i - 1 OBVIOUS
<1>8. Before(keys, r, s) => ~Before(keys, s, r)
  <2> SUFFICES ASSUME NEW i \in 1 .. n, \A k \in 1 .. i - 1 : v(r, k) = v(s, k), less(r, s, i),
                      NEW j \in 1 .. n, \A k \in 1 .. j - 1 : v(s, k) = v(r, k), less(s, r, j)
               PROVE  FALSE
    BY <1>2
  <2>1. v(r, i) # v(s, i) /\ v(r, j) # v(s, j) BY <1>4, <1>5
  <2>2. i = j BY <1>6, <2>1
  <2> QED BY <1>4, <1>5, <2>2
<1>9. Before(keys, r, s) \/ Before(keys, s, r) \/ Tied(keys, r, s)
  <2> SUFFICES ASSUME ~Tied(keys, r, s) PROVE Before(keys, r, s) \/ Before(keys, s, r) OBVIOUS
  <2> DEFINE D == {k \in 1 .. n : v(r, k) # v(s, k)}
  <2>1. D # {} BY <1>3
  <2>2. PICK k \in D : \A j \in D : k <= j
    <3>1. D \in SUBSET Nat OBVIOUS
    <3> HIDE DEF D
    <3> QED BY <2>1, <3>1, LeastNat
  <2>3. \A j \in 1 .. k - 1 : v(r, j) = v(s, j)
    <3> TAKE j \in 1 .. k - 1
    <3>1. j \in 1 .. n /\ ~(k <= j) OBVIOUS
    <3> QED BY <2>2, <3>1
  <2>4. \A j \in 1 .. k - 1 : v(s, j) = v(r, j) BY <2>3
  <2>5. less(r, s, k) \/ less(s, r, k) BY <1>4, <1>5
  <2>6. k \in 1 .. n OBVIOUS
  <2> HIDE DEF D
  <2> QED BY <1>2, <2>3, <2>4, <2>5, <2>6
<1>10. ASSUME NEW t, Comparable(keys, t), Before(keys, r, s), Before(keys, s, t) PROVE Before(keys, r, t)
  <2>1. PICK i \in 1 .. n : (\A k \in 1 .. i - 1 : v(r, k) = v(s, k)) /\ less(r, s, i) BY <1>2, <1>10
  <2>2. PICK j \in 1 .. n : (\A k \in 1 .. j - 1 : v(s, k) = v(t, k)) /\ less(s, t, j) BY <1>2, <1>10
  <2>3. CASE i = j
    <3>1. less(r, t, i) BY <1>4, <1>5, <1>10, <2>1, <2>2, <2>3
    <3>2. \A k \in 1 .. i - 1 : v(r, k) = v(t, k) BY <2>1, <2>2, <2>3
    <3> QED BY <1>2, <3>1, <3>2
  <2>4. CASE i \in 1 .. j - 1
    <3>1. less(r, t, i) BY <1>4, <1>5, <1>10, <2>1, <2>2, <2>4
    <3>2. \A k \in 1 .. i - 1 : v(r, k) = v(t, k) BY <1>7, <2>1, <2>2, <2>4
    <3> QED BY <1>2, <3>1, <3>2
  <2>5. CASE j \in 1 .. i - 1
    <3>1. less(r, t, j) BY <1>4, <1>5, <1>10, <2>1, <2>2, <2>5
    <3>2. \A k \in 1 .. j - 1 : v(r, k) = v(t, k) BY <1>7, <2>1, <2>2, <2>5
    <3> QED BY <1>2, <3>1, <3>2
  <2> QED BY <1>6, <2>3, <2>4, <2>5
<1>11. ASSUME NEW t, Comparable(keys, t), Before(keys, r, s), Tied(keys, s, t) PROVE Before(keys, r, t)
  <2>1. PICK i \in 1 .. n : (\A k \in 1 .. i - 1 : v(r, k) = v(s, k)) /\ less(r, s, i) BY <1>2, <1>11
  <2>2. \A k \in 1 .. n : v(s, k) = v(t, k) BY <1>3, <1>11
  <2>3. less(r, t, i) BY <1>4, <1>5, <1>11, <2>1, <2>2
  <2>4. \A k \in 1 .. i - 1 : v(r, k) = v(t, k) BY <1>7, <2>1, <2>2
  <2> QED BY <1>2, <2>3, <2>4
<1>12. ASSUME NEW t, Comparable(keys, t), Tied(keys, r, s), Before(keys, s, t) PROVE Before(keys, r, t)
  <2>1. PICK i \in 1 .. n : (\A k \in 1 .. i - 1 : v(s, k) = v(t, k)) /\ less(s, t, i) BY <1>2, <1>12
  <2>2. \A k \in 1 .. n : v(r, k) = v(s, k) BY <1>3, <1>12
  <2>3. less(r, t, i) BY <1>4, <1>5, <1>12, <2>1, <2>2
  <2>4. \A k \in 1 .. i - 1 : v(r, k) = v(t, k) BY <1>7, <2>1, <2>2
  <2> QED BY <1>2, <2>3, <2>4
<1> QED BY <1>8, <1>9, <1>10, <1>11, <1>12

(* Rows whose keys are comparable can be sorted.                           *)
LEMMA SortedExists ==
  ASSUME NEW X, NEW s \in Seq(X), NEW K, NEW keys \in Seq(K), \A i \in DOMAIN s : Comparable(keys, s[i])
  PROVE  Sorted(keys, s) # {}
<1>1. PICK n \in Nat : n = Len(s) /\ DOMAIN s = 1 .. n BY LenProperties
<1> DEFINE B(i, j) == Before(keys, s[i], s[j])
           R == {w \in (1 .. n) \X (1 .. n) : B(w[1], w[2]) \/ (~B(w[2], w[1]) /\ w[1] < w[2])}
<1>2. \A i, j \in 1 .. n : <<i, j>> \in R <=> B(i, j) \/ (~B(j, i) /\ i < j) OBVIOUS
<1>3. \A i, j \in 1 .. n : /\ B(i, j) => ~B(j, i)
                           /\ B(i, j) \/ B(j, i) \/ Tied(keys, s[i], s[j])
  BY <1>1, BeforeOrders
<1>4. \A i, j, k \in 1 .. n : /\ B(i, j) /\ (B(j, k) \/ Tied(keys, s[j], s[k])) => B(i, k)
                              /\ Tied(keys, s[i], s[j]) /\ B(j, k) => B(i, k)
  BY <1>1, BeforeOrders
<1>5. \A i, j, k \in 1 .. n : /\ Tied(keys, s[i], s[j]) => Tied(keys, s[j], s[i])
                              /\ Tied(keys, s[i], s[j]) /\ Tied(keys, s[j], s[k]) => Tied(keys, s[i], s[k])
  BY DEF Tied
<1>6. \A i, j \in 1 .. n : Tied(keys, s[i], s[j]) => ~B(i, j)
  <2> SUFFICES ASSUME NEW i \in 1 .. n, NEW j \in 1 .. n, Tied(keys, s[i], s[j]), B(i, j) PROVE FALSE
    OBVIOUS
  <2>1. B(i, i) BY <1>4, <1>5
  <2> HIDE DEF B
  <2> QED BY <1>3, <2>1
<1> HIDE DEF B, R
<1>7. \A i, j \in 1 .. n : <<i, j>> \in R <=> B(i, j) \/ (Tied(keys, s[i], s[j]) /\ i < j)
  BY <1>2, <1>3, <1>5, <1>6
<1>8. IsOrder(R, 1 .. n)
  <2>1. \A i \in 1 .. n : <<i, i>> \notin R BY <1>3, <1>7
  <2>2. ASSUME NEW i \in 1 .. n, NEW j \in 1 .. n, NEW k \in 1 .. n, <<i, j>> \in R, <<j, k>> \in R
        PROVE <<i, k>> \in R
    <3>1. CASE B(i, j) BY <1>4, <1>7, <2>2, <3>1
    <3>2. CASE Tied(keys, s[i], s[j]) /\ i < j
      <4>1. CASE B(j, k) BY <1>4, <1>7, <3>2, <4>1
      <4>2. CASE Tied(keys, s[j], s[k]) /\ j < k
        <5>1. i < k BY <3>2, <4>2
        <5>2. Tied(keys, s[i], s[k]) BY <1>5, <3>2, <4>2
        <5> QED BY <1>7, <5>1, <5>2
      <4> QED BY <1>7, <2>2, <4>1, <4>2
    <3> QED BY <1>7, <2>2, <3>1, <3>2
  <2>3. \A i, j \in 1 .. n : i = j \/ <<i, j>> \in R \/ <<j, i>> \in R
    <3> TAKE i, j \in 1 .. n
    <3>1. i = j \/ i < j \/ j < i OBVIOUS
    <3> QED BY <1>3, <1>5, <1>7, <3>1
  <2> QED BY <2>1, <2>2, <2>3 DEF IsOrder
<1>9. PICK p \in [1 .. n -> 1 .. n] : IsInjective(p) /\ \A i, j \in 1 .. n : i < j => <<p[j], p[i]>> \notin R
  BY <1>8, OrderExists
<1>10. \A i, j \in 1 .. n : i < j => ~Before(keys, s[p[j]], s[p[i]])
  <2>1. \A i, j \in 1 .. n : i < j => ~B(p[j], p[i]) BY <1>7, <1>9
  <2> QED BY <2>1 DEF B
<1> QED BY <1>1, <1>9, <1>10 DEF Sorted

(* The layers that stand in a plan for a request.                          *)
LayersOf(r) ==
  {FilterLayers(r)[i] : i \in DOMAIN r.filters}
    \cup {[node |-> "sort", keys |-> r.order_by], [node |-> "fetch", limit |-> AsI64(r.limit)]}

LEMMA LayersTyped ==
  ASSUME NEW r, IsShaped(r)
  PROVE  AllLayers(r) \in Seq(LayersOf(r))
<1> DEFINE Y == LayersOf(r)
           sort == [node |-> "sort", keys |-> r.order_by]
           fetch == [node |-> "fetch", limit |-> AsI64(r.limit)]
<1>1. sort \in Y /\ fetch \in Y BY DEF LayersOf
<1>2. PICK n \in Nat : DOMAIN r.filters = 1 .. n
  <2>1. r.filters \in Seq(ToSet(r.filters)) BY DEF IsShaped
  <2> QED BY <2>1, LenProperties
<1>3. FilterLayers(r) \in Seq(Y)
  <2> DEFINE fl == FilterLayers(r)
  <2>1. \A i \in 1 .. n : fl[i] \in Y BY <1>2 DEF LayersOf
  <2>2. DOMAIN fl = 1 .. n /\ fl = [i \in 1 .. n |-> fl[i]] BY <1>2 DEF FilterLayers
  <2>3. fl \in [1 .. n -> Y]
    <3> HIDE DEF fl, Y
    <3> QED BY <2>1, <2>2
  <2>4. fl \in Seq(Y)
    <3> HIDE DEF fl, Y
    <3> QED BY <2>3, SeqDef
  <2> QED BY <2>4
<1>4. SortLayers(r) = FilterLayers(r) \/ SortLayers(r) = Append(FilterLayers(r), sort) BY DEF SortLayers
<1>5. AllLayers(r) = SortLayers(r) \/ AllLayers(r) = Append(SortLayers(r), fetch) BY DEF AllLayers
<1> HIDE DEF Y, sort, fetch
<1>6. SortLayers(r) \in Seq(Y) BY <1>1, <1>3, <1>4
<1>7. AllLayers(r) \in Seq(Y) BY <1>1, <1>5, <1>6
<1> QED BY <1>7 DEF Y

LEMMA RunGives ==
  ASSUME NEW r, IsShaped(r), NEW layer \in LayersOf(r),
         NEW X, \A x \in X : Comparable(r.order_by, x), NEW s \in Seq(X)
  PROVE  Run(layer, s) # {} /\ Run(layer, s) \subseteq Seq(X)
<1>1. CASE layer.node = "filter"
  <2> DEFINE u == Pick(s, {x \in ToSet(s) : Holds(layer.predicate, x)})
  <2>1. Run(layer, s) = {u} BY <1>1 DEF Run
  <2>2. u \in Seq(X) BY PickMembers
  <2> QED BY <2>1, <2>2
<1>2. CASE layer = [node |-> "sort", keys |-> r.order_by]
  <2>1. layer.node = "sort" /\ layer.keys = r.order_by BY <1>2
  <2>2. Run(layer, s) = Sorted(r.order_by, s)
    <3>1. layer.node # "filter" BY <2>1
    <3> QED BY <2>1, <3>1 DEF Run
  <2>3. r.order_by \in Seq(ToSet(r.order_by)) BY DEF IsShaped
  <2>4. \A i \in DOMAIN s : Comparable(r.order_by, s[i]) BY ElementOfSeq, LenProperties
  <2> QED BY <2>2, <2>3, <2>4, SortedExists, SortedArranged
<1>3. CASE layer = [node |-> "fetch", limit |-> AsI64(r.limit)]
  <2>1. layer.node = "fetch" /\ layer.limit = AsI64(r.limit) BY <1>3
  <2>2. PICK n \in Nat : n = Len(s) /\ DOMAIN s = 1 .. n BY LenProperties
  <2> DEFINE k == IF layer.limit < n THEN layer.limit ELSE n
  <2>3. Run(layer, s) = {SubSeq(s, 1, k)}
    <3>1. layer.node # "filter" /\ layer.node # "sort" BY <2>1
    <3> QED BY <2>2, <3>1 DEF Run
  <2>4. layer.limit \in Int
    <3>1. r.limit \in Int /\ MaxI64 \in Int BY EngineAssumption DEF IsShaped
    <3> QED BY <2>1, <3>1 DEF AsI64
  <2>5. k \in Int /\ k <= n BY <2>4
  <2> HIDE DEF k
  <2>6. \A i \in 1 .. k : s[i] \in X
    <3>1. \A i \in 1 .. k : i \in 1 .. n BY <2>5
    <3> QED BY <2>2, <3>1, ElementOfSeq
  <2>7. SubSeq(s, 1, k) \in Seq(X) BY <2>5, <2>6, SubSeqProperties
  <2> QED BY <2>3, <2>7
<1>4. \A i \in DOMAIN r.filters : FilterLayers(r)[i].node = "filter" BY DEF FilterLayers
<1> QED BY <1>1, <1>2, <1>3, <1>4 DEF LayersOf

(* What a filter of a request reads.                                       *)
LEMMA ReadsOfFilter ==
  ASSUME NEW f, IsFilter(f), EnoughValues(f)
  PROVE  Reads([node |-> "filter", predicate |-> FilterExpr(f)]) = {f.field}
<1> DEFINE P == FilterExpr(f)
           l == [node |-> "filter", predicate |-> P]
<1>1. Reads(l) = {P.terms[i].field : i \in DOMAIN P.terms}
  <2>1. l.node = "filter" /\ l.predicate = P OBVIOUS
  <2> HIDE DEF l, P
  <2> QED BY <2>1 DEF Reads
<1>2. \A op, v : Compare(op, f.field, v).field = f.field BY DEF Compare
<1>3. CASE f.op \in {"in", "not in"}
  <2>1. P.terms = [i \in DOMAIN f.values |-> Compare(IF f.op = "in" THEN "=" ELSE "<>", f.field, f.values[i])]
    <3>1. CASE f.op = "in" BY <3>1 DEF FilterExpr, Chain
    <3>2. CASE f.op = "not in" BY <3>2 DEF FilterExpr, Chain
    <3> QED BY <1>3, <3>1, <3>2
  <2>2. DOMAIN f.values # {}
    <3>1. f.values # <<>> BY <1>3 DEF EnoughValues
    <3>2. f.values \in Seq(ToSet(f.values)) BY DEF IsFilter
    <3>3. PICK n \in Nat : n = Len(f.values) /\ DOMAIN f.values = 1 .. n BY <3>2, LenProperties
    <3>4. n # 0 BY <3>1, <3>2, <3>3, EmptySeq
    <3>5. 1 \in 1 .. n BY <3>3, <3>4
    <3> QED BY <3>3, <3>5
  <2> HIDE DEF l, P
  <2>3. Reads(l) = {f.field} BY <1>1, <1>2, <2>1, <2>2
  <2> QED BY <2>3 DEF l, P
<1>4. CASE f.op = "between"
  <2>1. P.terms = <<Compare(">=", f.field, f.values[1]), Compare("<=", f.field, f.values[2])>>
    BY <1>4 DEF FilterExpr
  <2>2. DOMAIN P.terms = {1, 2} /\ P.terms[1].field = f.field /\ P.terms[2].field = f.field BY <1>2, <2>1
  <2> HIDE DEF l, P
  <2>3. Reads(l) = {f.field} BY <1>1, <2>2
  <2> QED BY <2>3 DEF l, P
<1>5. CASE f.op \notin {"in", "not in", "between"}
  <2>1. \E v : P.terms = <<Compare(f.op, f.field, v)>>
    <3>1. CASE f.op \in {"is null", "is not null"} BY <1>5, <3>1 DEF FilterExpr
    <3>2. CASE f.op \notin {"is null", "is not null"} BY <1>5, <3>2 DEF FilterExpr
    <3> QED BY <3>1, <3>2
  <2>2. DOMAIN P.terms = {1} /\ P.terms[1].field = f.field BY <1>2, <2>1
  <2> HIDE DEF l, P
  <2>3. Reads(l) = {f.field} BY <1>1, <2>2
  <2> QED BY <2>3 DEF l, P
<1> QED BY <1>3, <1>4, <1>5

(* The request asks for every field that it filters or sorts by.           *)
AsksForWhatItReads ==
  /\ \A i \in DOMAIN req.filters : req.filters[i].field \in AllFields
  /\ \A k \in DOMAIN req.order_by : req.order_by[k].field \in AllFields

LEMMA ReadableIfAsked ==
  ASSUME IsShaped(req), FiltersComplete(req), layers = AllLayers(req)
  PROVE  Readable <=> AsksForWhatItReads
<1> DEFINE All(ls) == \A i \in DOMAIN ls : Reads(ls[i]) \subseteq AllFields
           fl == FilterLayers(req)
           sl == SortLayers(req)
           sort == [node |-> "sort", keys |-> req.order_by]
           fetch == [node |-> "fetch", limit |-> AsI64(req.limit)]
           F == \A i \in DOMAIN req.filters : req.filters[i].field \in AllFields
           K == \A k \in DOMAIN req.order_by : req.order_by[k].field \in AllFields
           Y == {fl[i] : i \in DOMAIN fl} \cup {sort}
<1>1. ASSUME NEW Z, NEW ls \in Seq(Z), NEW l \in Z PROVE All(Append(ls, l)) <=> All(ls) /\ Reads(l) \subseteq AllFields
  <2>1. PICK n \in Nat : n = Len(ls) /\ DOMAIN ls = 1 .. n BY LenProperties
  <2> DEFINE u == Append(ls, l)
  <2>2. DOMAIN u = 1 .. n + 1 /\ u[n + 1] = l /\ \A i \in 1 .. n : u[i] = ls[i] BY <2>1, AppendProperties
  <2>3. 1 .. n + 1 = (1 .. n) \cup {n + 1} OBVIOUS
  <2> HIDE DEF u
  <2>4. All(u) <=> All(ls) /\ Reads(l) \subseteq AllFields BY <2>1, <2>2, <2>3
  <2> QED BY <2>4 DEF u
<1>2. All(fl) <=> F
  <2>1. DOMAIN fl = DOMAIN req.filters BY DEF FilterLayers
  <2>2. \A i \in DOMAIN req.filters : Reads(fl[i]) = {req.filters[i].field}
    BY ReadsOfFilter DEF FilterLayers, IsShaped, FiltersComplete
  <2> HIDE DEF fl
  <2> QED BY <2>1, <2>2
<1>3. fl \in Seq(Y)
  <2>1. PICK n \in Nat : DOMAIN req.filters = 1 .. n
    <3>1. req.filters \in Seq(ToSet(req.filters)) BY DEF IsShaped
    <3> QED BY <3>1, LenProperties
  <2>2. DOMAIN fl = 1 .. n /\ fl = [i \in 1 .. n |-> fl[i]] BY <2>1 DEF FilterLayers
  <2> HIDE DEF fl, sort
  <2> QED BY <2>2
<1>4. Reads(sort) \subseteq AllFields <=> K
  <2>1. sort.node = "sort" /\ sort.keys = req.order_by OBVIOUS
  <2>2. sort.node # "filter" BY <2>1
  <2> HIDE DEF sort
  <2>3. Reads(sort) = {sort.keys[i].field : i \in DOMAIN sort.keys} BY <2>1, <2>2 DEF Reads
  <2> QED BY <2>1, <2>3
<1>5. Reads(fetch) = {}
  <2>1. fetch.node = "fetch" OBVIOUS
  <2> HIDE DEF fetch
  <2>2. fetch.node # "filter" /\ fetch.node # "sort" BY <2>1
  <2> QED BY <2>2 DEF Reads
<1>6. (All(sl) <=> F /\ K) /\ sl \in Seq(Y)
  <2>1. CASE req.order_by = <<>>
    <3>1. sl = fl BY <2>1 DEF SortLayers
    <3>2. K BY <2>1
    <3> HIDE DEF fl, sl, All, F, K, Y
    <3> QED BY <1>2, <1>3, <3>1, <3>2
  <2>2. CASE req.order_by # <<>>
    <3>1. sl = Append(fl, sort) BY <2>2 DEF SortLayers
    <3>2. sort \in Y OBVIOUS
    <3> HIDE DEF fl, sl, sort, All, F, K, Y
    <3> QED BY <1>1, <1>2, <1>3, <1>4, <3>1, <3>2
  <2> QED BY <2>1, <2>2
<1>7. All(layers) <=> F /\ K
  <2>1. CASE req.limit = -1
    <3>1. layers = sl BY <2>1 DEF AllLayers
    <3> HIDE DEF sl, All, F, K
    <3> QED BY <1>6, <3>1
  <2>2. CASE req.limit # -1
    <3>1. layers = Append(sl, fetch) BY <2>2 DEF AllLayers
    <3> DEFINE Z == Y \cup {fetch}
    <3>2. fetch \in Z /\ Y \subseteq Z OBVIOUS
    <3> HIDE DEF sl, fetch, All, F, K, Y, Z
    <3>3. sl \in Seq(Z) BY <1>6, <3>2
    <3>4. All(layers) <=> All(sl) /\ Reads(fetch) \subseteq AllFields BY <1>1, <3>1, <3>2, <3>3
    <3> QED BY <1>5, <1>6, <3>4
  <2> QED BY <2>1, <2>2
<1> QED BY <1>7 DEF Readable, AsksForWhatItReads

(* A plan can be run exactly if its request asks for every field it        *)
(* filters or sorts by, and if the rows can be compared: so what           *)
(* FirstOfTheMatching says of all answers is said of some, and of no other *)
(* request.                                                                *)
Sortable == \A i \in DOMAIN Fragment : Comparable(req.order_by, Fragment[i])
HasResult ==
  (Answered /\ ask.via = "facade") =>
    /\ Results # {} => AsksForWhatItReads
    /\ AsksForWhatItReads /\ Sortable => Results # {}

THEOREM AnswersExist == QuerySpec => []HasResult
<1>1. RowsInv => HasResult
  <2> SUFFICES ASSUME RowsInv, Answered, ask.via = "facade"
               PROVE  (Results # {} => Readable) /\ (Readable /\ Sortable => Results # {})
    <3>1. RowsInv /\ Answered /\ ask.via = "facade" => IsShaped(req) /\ FiltersComplete(req) /\ layers = AllLayers(req)
      BY DEF RowsInv
    <3> QED BY <3>1, ReadableIfAsked DEF HasResult
  <2>a. Results # {} => Readable BY DEF Results
  <2> SUFFICES ASSUME Readable, Sortable PROVE Results # {} BY <2>a
  <2> DEFINE X == ToSet(Fragment)
  <2>1. Fragment \in Seq(X) /\ IsShaped(req) /\ layers = AllLayers(req) BY FragmentTyped DEF RowsInv
  <2>2. \A x \in X : Comparable(req.order_by, x) BY DEF Sortable, ToSet
  <2> HIDE DEF X
  <2>3. layers \in Seq(LayersOf(req)) BY <2>1, LayersTyped
  <2>4. PICK N \in Nat : N = Len(layers) /\ \A i \in 1 .. N : layers[i] \in LayersOf(req)
    BY <2>3, LenProperties, ElementOfSeq
  <2>5. PICK h : h[0] = {Fragment} /\ (\A i \in 1 .. N : h[i] = After(layers[i], h[i - 1])) /\ Results = h[N]
    BY <2>4, ResultsOfRuns
  <2> DEFINE T == {i \in 0 .. N : h[i] # {} /\ h[i] \subseteq Seq(X)}
  <2>6. 0 \in T BY <2>1, <2>5
  <2>7. ASSUME NEW i \in 0 .. N - 1, i \in T PROVE i + 1 \in T
    <3>1. i + 1 \in 1 .. N /\ i + 1 \in 0 .. N /\ (i + 1) - 1 = i BY <2>4
    <3>2. h[i + 1] = After(layers[i + 1], h[i]) /\ layers[i + 1] \in LayersOf(req) BY <2>4, <2>5, <3>1
    <3>3. h[i] # {} /\ h[i] \subseteq Seq(X) BY <2>7
    <3>4. \A s \in h[i] : Run(layers[i + 1], s) # {} /\ Run(layers[i + 1], s) \subseteq Seq(X)
      BY <2>1, <2>2, <3>2, <3>3, RunGives
    <3>5. h[i + 1] # {}
      <4>1. PICK s \in h[i] : TRUE BY <3>3
      <4>2. PICK u : u \in Run(layers[i + 1], s) BY <3>4
      <4>3. u \in h[i + 1] BY <3>2, <4>2 DEF After
      <4> QED BY <4>3
    <3>6. ASSUME NEW u \in h[i + 1] PROVE u \in Seq(X)
      <4>1. PICK s \in h[i] : u \in Run(layers[i + 1], s) BY <3>2, <3>6 DEF After
      <4> QED BY <3>4, <4>1
    <3> QED BY <3>1, <3>5, <3>6
  <2>8. 0 .. N \subseteq T
    <3> HIDE DEF T
    <3> QED BY <2>4, <2>6, <2>7, UpTo
  <2>9. N \in T
    <3>1. N \in 0 .. N BY <2>4
    <3> HIDE DEF T
    <3> QED BY <2>8, <3>1
  <2> QED BY <2>5, <2>9
<1> QED BY <1>1, RowsInductive, PTL
=============================================================================
