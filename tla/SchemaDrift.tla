---------------------------- MODULE SchemaDrift ----------------------------
(***************************************************************************)
(* SemstraitEngine::check_schema_drift (crates/semstrait-api/src/          *)
(* engine.rs): the tables of the manifest's catalog snapshot are compared  *)
(* with the live catalog, one request per table, while others may alter    *)
(* tables or make them unreachable.  The snapshot is keyed by the table's  *)
(* name as resolution knew it (crates/semstrait-manifest/src/steps.rs).    *)
(***************************************************************************)
EXTENDS Naturals, FiniteSets

CONSTANTS
  Tables, Columns,
  Qualified,    (* the tables recorded as namespace.name                   *)
  Types,        (* data types, as their debug form tells them apart        *)
  MaxAlters     (* bound: changes of the catalog during one check          *)

ASSUME DriftAssumption == MaxAlters \in Nat /\ Qualified \subseteq Tables

ColumnInfo == [type : Types, nullable : BOOLEAN]
Schemas == UNION {[S -> ColumnInfo] : S \in SUBSET Columns}

VARIABLES
  snapshot,     (* the columns of each table when the manifest was made    *)
  live,         (* the catalog                                             *)
  reachable,    (* the tables whose get_schema succeeds                    *)
  unchecked,    (* the tables the check has still to ask for               *)
  warnings,     (* the differences reported, by table                      *)
  alters,
  seen          (* history: per table, whether it was at any time of the   *)
                (* check like its snapshot, unlike it, unreachable         *)

dvars == <<snapshot, live, reachable, unchecked, warnings, alters, seen>>

Now(t) == {IF live[t] = snapshot[t] THEN "same" ELSE "drifted"}
            \cup (IF t \in reachable THEN {} ELSE {"unreachable"})

DriftInit ==
  /\ snapshot \in [Tables -> Schemas]
  /\ live \in [Tables -> Schemas]
  /\ reachable \in SUBSET Tables /\ unchecked = Tables
  /\ warnings = <<>> /\ alters = 0
  /\ seen = [t \in Tables |-> Now(t)]

(* Someone else's DDL, or a failure of the catalog.  External.             *)
Alter(t, s, reach) ==
  /\ unchecked # {} /\ alters < MaxAlters
  /\ UNCHANGED <<snapshot, unchecked, warnings>>
  /\ live' = [live EXCEPT ![t] = s]
  /\ reachable' = reach
  /\ alters' = alters + 1
  /\ seen' = [u \in Tables |-> seen[u] \cup Now(u)']

(* As Diffs with the new columns of the live table not looked at.          *)
DiffsOfCompiled(was, is) ==
  {<<"removed", c>> : c \in DOMAIN was \ DOMAIN is}
    \cup {<<"type", c>> : c \in {c \in DOMAIN was \cap DOMAIN is : was[c].type # is[c].type}}
    \cup {<<"nullable", c>> : c \in {c \in DOMAIN was \cap DOMAIN is : was[c].nullable # is[c].nullable}}

Diffs(was, is) ==
  {<<"removed", c>> : c \in DOMAIN was \ DOMAIN is}
    \cup {<<"type", c>> : c \in {c \in DOMAIN was \cap DOMAIN is : was[c].type # is[c].type}}
    \cup {<<"nullable", c>> : c \in {c \in DOMAIN was \cap DOMAIN is : was[c].nullable # is[c].nullable}}
    \cup {<<"added", c>> : c \in DOMAIN is \ DOMAIN was}

(* TableRef::new(namespace, key): a key that has a namespace gets another, *)
(* and no table has that name.                                             *)
Found(t) == t \in reachable /\ t \notin Qualified

(* One turn of the loop; a table whose schema cannot be read is skipped.   *)
CheckTable(t) ==
  /\ t \in unchecked
  /\ unchecked' = unchecked \ {t}
  /\ LET diffs == Diffs(snapshot[t], live[t]) IN
     warnings' = IF Found(t) /\ diffs # {}
                   THEN [u \in DOMAIN warnings \cup {t} |-> IF u = t THEN diffs ELSE warnings[u]]
                   ELSE warnings
  /\ UNCHANGED <<snapshot, live, reachable, alters, seen>>

DriftNext ==
  \/ \E t \in Tables : CheckTable(t)
  \/ \E t \in Tables, s \in Schemas, reach \in SUBSET Tables : Alter(t, s, reach)

DriftSpec == DriftInit /\ [][DriftNext]_dvars

(* DriftReported: when the check is over, a table it warns of differed     *)
(* from the snapshot at some time of the check, and one it does not warn   *)
(* of was at some time like its snapshot or out of reach.  Left out are    *)
(* the tables recorded with their namespace, which are never found.        *)
DriftReported ==
  unchecked = {} =>
    \A t \in Tables \ Qualified :
      IF t \in DOMAIN warnings THEN "drifted" \in seen[t]
      ELSE seen[t] \cap {"same", "unreachable"} # {}
=============================================================================
