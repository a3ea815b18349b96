----------------------------- MODULE ModelLoader -----------------------------
(***************************************************************************)
(* SemanticModelLoader: sources are attached in any order, then one call of *)
(* build reads them all, parses the models one after the other into one    *)
(* builder, parses the catalogs, and builds.  A stage that found an error  *)
(* ends the load, but only after it has gone through all of its inputs.    *)
(***************************************************************************)
EXTENDS ModelBuilder

CONSTANTS Contents,         \* what a model source may hold: a state, "unset_env", "undecodable"
                            \* or "ok", and the root it decodes to
          CatalogContents,  \* what a catalogs source may hold: "unset_env", "undecodable" or "ok"
          FileStates,       \* what reading a path gives: "missing", "not_utf8" or "readable"
          MaxInputs         \* bound on the sources of each kind

IsSeq(s) == s \in Seq(Range(s))

(* A root has lists, and only a joinset has relationships of its own.       *)
ASSUME ContentsAssumption ==
  \A c \in Contents :
    /\ c.state \in {"unset_env", "undecodable", "ok"}
    /\ IsSeq(c.root.kinds) /\ IsSeq(c.root.pool) /\ IsSeq(c.root.relationships)
    /\ \A k \in Range(c.root.kinds) : k.variant # "joinset" => k.relationships = <<>>

VARIABLES model_inputs, catalogs_inputs, catalogs_inline, validate_pass,  \* the configuration
          stage,        \* "configure", "parse", "catalogs", "build", "loaded" or "failed"
          next,         \* the input the stage is at
          storage,      \* the builder's
          accumulated,  \* the diagnostics, a set for each input or stage that was gone through
          had_error, loaded
lvars == <<model_inputs, catalogs_inputs, catalogs_inline, validate_pass, stage, next, storage,
           accumulated, had_error, loaded>>
config == <<model_inputs, catalogs_inputs, catalogs_inline, validate_pass>>

NoModel == Materialize(EmptyStorage)
Input(label, file, content) == [label |-> label, file |-> file, content |-> content]

LInit ==
  /\ model_inputs = <<>> /\ catalogs_inputs = <<>> /\ catalogs_inline = FALSE
  /\ validate_pass = TRUE
  /\ stage = "configure" /\ next = 1
  /\ storage = EmptyStorage /\ accumulated = <<>> /\ had_error = FALSE /\ loaded = NoModel

-----------------------------------------------------------------------------
(* Configuration.  A source is labelled by its position; file is "inline"   *)
(* for a text given directly.                                               *)

Unconfigured == <<stage, next, storage, accumulated, had_error, loaded>>
FromYaml(file, content) ==
  /\ stage = "configure" /\ Len(model_inputs) < MaxInputs
  /\ model_inputs' = Append(model_inputs, Input(Len(model_inputs) + 1, file, content))
  /\ UNCHANGED <<catalogs_inputs, catalogs_inline, validate_pass, Unconfigured>>
FromCatalogsYaml(file, content) ==
  /\ stage = "configure" /\ Len(catalogs_inputs) < MaxInputs
  /\ catalogs_inputs' = Append(catalogs_inputs, Input(Len(catalogs_inputs) + 1, file, content))
  /\ UNCHANGED <<model_inputs, catalogs_inline, validate_pass, Unconfigured>>
WithCatalogs ==
  /\ stage = "configure"
  /\ catalogs_inline' = TRUE /\ catalogs_inputs' = <<>>
  /\ UNCHANGED <<model_inputs, validate_pass, Unconfigured>>
SkipValidate ==
  /\ stage = "configure"
  /\ validate_pass' = FALSE
  /\ UNCHANGED <<model_inputs, catalogs_inputs, catalogs_inline, Unconfigured>>

-----------------------------------------------------------------------------
(* build.  Read stops before the catalogs when a model source failed.       *)

ReadErrors(inputs) == {<<"SourceIo", i.label>> : i \in {i \in Range(inputs) : i.file \in {"missing", "not_utf8"}}}
Fail(diags) == stage' = "failed" /\ accumulated' = <<diags>>
Read ==
  /\ stage = "configure"
  /\ IF model_inputs = <<>> THEN Fail({<<"NoSource">>})
     ELSE IF ReadErrors(model_inputs) # {} THEN Fail(ReadErrors(model_inputs))
     ELSE IF ReadErrors(catalogs_inputs) # {} THEN Fail(ReadErrors(catalogs_inputs))
     ELSE stage' = "parse" /\ UNCHANGED accumulated
  /\ UNCHANGED <<config, next, storage, had_error, loaded>>

(* accumulate_model: substitution, decoding, lowering, and the identifier   *)
(* check over everything the builder holds, reported under this source. The *)
(* first two leave the builder as it was, and their diagnostics name no     *)
(* source.                                                                  *)
InvalidIdentifiers(held, label) == {<<"InvalidIdentifier", label, n>> : n \in CheckIdentifiers(held)}
AccumulateModel(input) ==
  IF input.content.state = "unset_env" THEN [storage |-> storage, diags |-> {<<"UnsetEnvVar">>}]
  ELSE IF input.content.state = "undecodable" THEN [storage |-> storage, diags |-> {<<"YamlSyntax">>}]
  ELSE LET lowered == LowerInto(input.content.root, input.label, storage)
       IN [storage |-> lowered, diags |-> InvalidIdentifiers(lowered, input.label)]
ParseModel ==
  /\ stage = "parse" /\ next <= Len(model_inputs)
  /\ LET r == AccumulateModel(model_inputs[next])
     IN /\ storage' = r.storage
        /\ accumulated' = Append(accumulated, r.diags)
        /\ had_error' = (had_error \/ r.diags # {})
  /\ next' = next + 1
  /\ UNCHANGED <<config, stage, loaded>>
FirstErrorEnds == had_error \/ next > Len(model_inputs)
AllParsed == next > Len(model_inputs)
ParseDone ==
  /\ stage = "parse" /\ AllParsed
  /\ stage' = IF had_error THEN "failed" ELSE "catalogs"
  /\ next' = 1
  /\ UNCHANGED <<config, storage, accumulated, had_error, loaded>>

(* A catalogs source only has to parse: its contents are used nowhere.      *)
ParseCatalogs ==
  /\ stage = "catalogs" /\ next <= Len(catalogs_inputs)
  /\ LET c == catalogs_inputs[next].content
         diags == IF c = "unset_env" THEN {<<"CatalogsUnsetEnvVar">>}
                  ELSE IF c = "undecodable" THEN {<<"CatalogsYamlSyntax">>}
                  ELSE {}
     IN /\ accumulated' = Append(accumulated, diags)
        /\ had_error' = (had_error \/ diags # {})
  /\ next' = next + 1
  /\ UNCHANGED <<config, stage, storage, loaded>>
CatalogsDone ==
  /\ stage = "catalogs" /\ next > Len(catalogs_inputs)
  /\ stage' = IF had_error THEN "failed" ELSE "build"
  /\ UNCHANGED <<config, next, storage, accumulated, had_error, loaded>>

(* When validation is skipped the same build runs, but the diagnostics of a *)
(* failing one are dropped.                                                 *)
NothingReported(diags) == {}
ReportedOnFailure(diags) == IF validate_pass THEN diags ELSE {}
Build ==
  /\ stage = "build"
  /\ LET b == BuildModel(storage)
     IN IF b.ok THEN /\ stage' = "loaded" /\ loaded' = b.model
                     /\ accumulated' = Append(accumulated, b.diags)
        ELSE /\ stage' = "failed" /\ UNCHANGED loaded
             /\ accumulated' = Append(accumulated, ReportedOnFailure(b.diags))
  /\ UNCHANGED <<config, next, storage, had_error>>

LNext ==
  \/ \E f \in FileStates \cup {"inline"}, c \in Contents : FromYaml(f, c)
  \/ \E f \in FileStates \cup {"inline"}, c \in CatalogContents : FromCatalogsYaml(f, c)
  \/ WithCatalogs \/ SkipValidate \/ Read \/ ParseModel \/ ParseDone
  \/ ParseCatalogs \/ CatalogsDone \/ Build

LSpec == LInit /\ [][LNext]_lvars

-----------------------------------------------------------------------------
(* Properties.                                                              *)

Failed == stage = "failed"
Loaded == stage = "loaded"
Reported == UNION Range(accumulated)
Decoded(input) == input.content.state = "ok"
SourceRoots == {i.content.root : i \in Range(model_inputs)}

(* A load that fails says why, unless the caller skipped validation, and a  *)
(* load that succeeds has reported nothing but warnings.                    *)
ErrorsExplainFailure ==
  /\ Failed /\ validate_pass => HasError(Reported)
  /\ Loaded => ~HasError(Reported)

(* Every entity of every source is in the loaded model as it was written:   *)
(* no source's entry gave way to another's of the same name, a name leads   *)
(* to one kind, and a model missing a source never loads.                   *)
NothingLost ==
  Loaded =>
    /\ \A i \in Range(model_inputs) : Decoded(i) /\ i.file \notin {"missing", "not_utf8"}
    /\ loaded.kinds = UNION {Range(r.kinds) : r \in SourceRoots}
    /\ \A k \in loaded.kinds : FindPublic(loaded, k.name) = {k}
    /\ loaded.pool = UNION {Range(r.pool) : r \in SourceRoots}
    /\ Range(loaded.relationships) = UNION {Range(r.relationships) : r \in SourceRoots}

(* A load that fails while parsing has gone through every source: each one  *)
(* that does not decode has a diagnostic of its own, and each bad name is   *)
(* reported under the source that holds it.                                 *)
EveryProblemReported ==
  Failed /\ had_error /\ next = 1 =>
    /\ Len(accumulated) = Len(model_inputs)
    /\ \A n \in DOMAIN model_inputs :
         LET i == model_inputs[n]
         IN IF Decoded(i)
              THEN InvalidIdentifiers(LowerInto(i.content.root, i.label, EmptyStorage), i.label)
                     \subseteq accumulated[n]
              ELSE accumulated[n] # {}

(* The validator and the relationship builder agree: a relationship at the  *)
(* root or in a public joinset of a loaded model is one the builder would   *)
(* have accepted.                                                           *)
BuilderAgreesWithValidator ==
  Loaded => \A r \in Range(loaded.relationships)
                     \cup UNION {Range(k.relationships) : k \in loaded.kinds} : BuilderAccepts(r)
=============================================================================
