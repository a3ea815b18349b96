----------------------------- MODULE KindBuilder -----------------------------
(***************************************************************************)
(* The fluent builders of the four data kinds and of their nested forms.   *)
(* A builder is a value that every setter takes and gives back, so a build *)
(* is the sequence of the calls made on it.  Some setters append, some     *)
(* replace, and some create the block they write into: what a caller gets  *)
(* depends on the order of the calls.                                      *)
(***************************************************************************)
EXTENDS Naturals, Sequences

CONSTANTS Items,      \* the values a setter can be given
          Lists,      \* the lists of them a plural setter can be given
          MaxCalls    \* bound on the length of a chain of calls

ASSUME ListsAssumption == Lists \subseteq Seq(Items)

VARIABLES form, built, calls
kvars == <<form, built, calls>>

None == "none"

-----------------------------------------------------------------------------
(* The parts of a kind.  A nested form has no description and no interface, *)
(* a complex kind has no storage: its record keeps them at their default.   *)

StorageDefault == [format |-> None, paths |-> <<>>, tables |-> <<>>, partition_def |-> None]
LeafExtras == [catalog |-> None, storage |-> {}, semantic_mapping |-> "auto", temporal |-> None]
KeysDefault == [primary |-> None, unique |-> <<>>, foreign |-> <<>>]
SemanticInterface == [dimensions |-> <<>>, measures |-> <<>>, metrics |-> <<>>,
                      filters |-> <<>>, keys |-> {}]
NoChildren == [datasets |-> <<>>, grainsets |-> <<>>, unionsets |-> <<>>, joinsets |-> <<>>,
               relationships |-> <<>>]
New == [extras |-> LeafExtras, interface |-> SemanticInterface, body |-> NoChildren, mode |-> "all"]

(* An optional block is the set of the blocks there are: empty or a         *)
(* singleton.                                                               *)
FreshBlock(block, default) == default
GetOrInsert(block, default) == IF block = {} THEN default ELSE CHOOSE b \in block : TRUE

(* Setters that write a field of the extras, of the storage in them, of the *)
(* interface or of the keys in it; the storage and the keys are created by  *)
(* the first setter that needs them.                                        *)
WithExtra(k, f, v) == [k EXCEPT !.extras[f] = v]
WithStorage(k, s) == [k EXCEPT !.extras.storage = {s}]
InStorage(k, f, v) ==
  WithStorage(k, [GetOrInsert(k.extras.storage, StorageDefault) EXCEPT ![f] = v])
ExtendStorage(k, f, xs) ==
  LET s == GetOrInsert(k.extras.storage, StorageDefault) IN WithStorage(k, [s EXCEPT ![f] = @ \o xs])
PushEntry(k, f, x) == [k EXCEPT !.interface[f] = Append(@, x)]
ReplaceEntries(k, f, xs) == [k EXCEPT !.interface[f] = xs]
WithKeys(k, ks) == [k EXCEPT !.interface.keys = {ks}]
PrimaryKey(k, x) ==
  WithKeys(k, [GetOrInsert(k.interface.keys, KeysDefault) EXCEPT !.primary = x])
PushKey(k, f, x) ==
  LET ks == GetOrInsert(k.interface.keys, KeysDefault) IN WithKeys(k, [ks EXCEPT ![f] = Append(@, x)])
ExtendBody(k, f, xs) == [k EXCEPT !.body[f] = @ \o xs]

-----------------------------------------------------------------------------
(* The setters each form offers.  The public forms of the unionset and of   *)
(* the joinset take their children one at a time.  A setter that replaces a *)
(* whole block is given an empty one, but the storage, given one path.      *)

Call(op, field, arg) == [op |-> op, field |-> field, arg |-> arg]

LeafOps ==
  {Call("extra", f, <<x>>) : f \in {"catalog", "semantic_mapping", "temporal"}, x \in Items}
  \cup {Call("storage", "storage", <<x>>) : x \in Items}
  \cup {Call("in_storage", f, <<x>>) : f \in {"format", "partition_def"}, x \in Items}
  \cup {Call("extend_storage", f, xs) : f \in {"paths", "tables"}, xs \in Lists}
  \cup {Call("extras", "extras", <<>>)}
InterfaceOps ==
  {Call("push", f, <<x>>) : f \in {"dimensions", "measures", "metrics", "filters"}, x \in Items}
  \cup {Call("replace", f, xs) : f \in {"dimensions", "measures", "metrics", "filters"}, xs \in Lists}
  \cup {Call("primary", "primary", <<x>>) : x \in Items}
  \cup {Call("push_key", f, <<x>>) : f \in {"unique", "foreign"}, x \in Items}
  \cup {Call("keys", "keys", <<>>), Call("semantic_interface", "interface", <<>>)}
ComplexOps == {Call("extra", "temporal", <<x>>) : x \in Items} \cup {Call("extras", "extras", <<>>)}
One(fields) == {Call("extend", f, <<x>>) : f \in fields, x \in Items}
Many(fields) == {Call("extend", f, xs) : f \in fields, xs \in Lists}
Modes == {Call("mode", "mode", <<m>>) : m \in {"all", "unique"}}

DatasetOps == LeafOps \cup InterfaceOps
NestedDatasetOps == LeafOps
GrainsetOps == ComplexOps \cup InterfaceOps \cup Many({"datasets", "unionsets", "joinsets"})
NestedGrainsetOps == ComplexOps \cup Many({"datasets", "unionsets", "joinsets"})
UnionsetOps == ComplexOps \cup InterfaceOps \cup Modes \cup One({"datasets", "grainsets", "joinsets"})
NestedUnionsetOps == ComplexOps \cup Modes \cup Many({"datasets", "grainsets", "joinsets"})
JoinsetOps == ComplexOps \cup InterfaceOps \cup Many({"relationships"})
              \cup One({"datasets", "grainsets", "unionsets"})
NestedJoinsetOps == ComplexOps \cup Many({"relationships", "datasets", "grainsets", "unionsets"})

Ops == [Dataset |-> DatasetOps, NestedDataset |-> NestedDatasetOps,
        Grainset |-> GrainsetOps, NestedGrainset |-> NestedGrainsetOps,
        Unionset |-> UnionsetOps, NestedUnionset |-> NestedUnionsetOps,
        Joinset |-> JoinsetOps, NestedJoinset |-> NestedJoinsetOps]

Set(k, c) ==
  CASE c.op = "extra" -> WithExtra(k, c.field, c.arg[1])
    [] c.op = "storage" -> WithStorage(k, [StorageDefault EXCEPT !.paths = c.arg])
    [] c.op = "in_storage" -> InStorage(k, c.field, c.arg[1])
    [] c.op = "extend_storage" -> ExtendStorage(k, c.field, c.arg)
    [] c.op = "push" -> PushEntry(k, c.field, c.arg[1])
    [] c.op = "replace" -> ReplaceEntries(k, c.field, c.arg)
    [] c.op = "primary" -> PrimaryKey(k, c.arg[1])
    [] c.op = "push_key" -> PushKey(k, c.field, c.arg[1])
    [] c.op = "keys" -> WithKeys(k, KeysDefault)
    [] c.op = "extend" -> ExtendBody(k, c.field, c.arg)
    [] c.op = "mode" -> [k EXCEPT !.mode = c.arg[1]]
    [] c.op = "extras" -> [k EXCEPT !.extras = LeafExtras]
    [] c.op = "semantic_interface" -> [k EXCEPT !.interface = SemanticInterface]

(* The mode is set at most once: a second call does not type-check.         *)
MaySet(c) == c.op # "mode" \/ \A i \in DOMAIN calls : calls[i].op # "mode"

KInit == form \in DOMAIN Ops /\ built = New /\ calls = <<>>
Chain(c) ==
  /\ Len(calls) < MaxCalls
  /\ c \in Ops[form]
  /\ MaySet(c)
  /\ built' = Set(built, c)
  /\ calls' = Append(calls, c)
  /\ UNCHANGED form
KNext == \E c \in Ops[form] : Chain(c)
KSpec == KInit /\ [][KNext]_kvars

-----------------------------------------------------------------------------
(* What a chain of calls promises: a call is heard unless a later one       *)
(* replaces what it wrote.                                                  *)

Replaces(c, f) ==
  \/ c.field = f /\ c.op \in {"extra", "in_storage", "replace", "primary", "mode"}
  \/ c.op = "storage" /\ f \in DOMAIN StorageDefault
  \/ c.op = "keys" /\ f \in DOMAIN KeysDefault
  \/ c.op = "extras" /\ f \in DOMAIN LeafExtras \cup DOMAIN StorageDefault
  \/ c.op = "semantic_interface" /\ f \in DOMAIN SemanticInterface \cup DOMAIN KeysDefault
Writes(c, f) == c.field = f \/ (c.op = "storage" /\ f = "paths")
HeardOf(cs, f) ==
  LET from == {i \in DOMAIN cs : Replaces(cs[i], f)}
      passed(i) == IF Writes(cs[i], f) /\ \A j \in from : j <= i THEN cs[i].arg ELSE <<>>
      heard[i \in 0 .. Len(cs)] == IF i = 0 THEN <<>> ELSE heard[i - 1] \o passed(i)
  IN  heard[Len(cs)]
Heard(f) == HeardOf(calls, f)

Block(blocks, default) == IF blocks = {} THEN default ELSE CHOOSE b \in blocks : TRUE
Storage == Block(built.extras.storage, StorageDefault)
Keys == Block(built.interface.keys, KeysDefault)
ListFields == [paths |-> Storage.paths, tables |-> Storage.tables,
               unique |-> Keys.unique, foreign |-> Keys.foreign]
OptionFields == [format |-> Storage.format, partition_def |-> Storage.partition_def,
                 primary |-> Keys.primary]

(* Every list of a kind holds what the calls since its last replacement     *)
(* passed, in call order and nothing else; every optional field holds what  *)
(* the last call that wrote it passed, whichever other field of the same    *)
(* block was written in between, and whether or not the block existed.      *)
BuilderKeepsWrites ==
  /\ \A f \in DOMAIN ListFields : ListFields[f] = Heard(f)
  /\ \A f \in {"dimensions", "measures", "metrics", "filters"} : built.interface[f] = Heard(f)
  /\ \A f \in DOMAIN NoChildren : built.body[f] = Heard(f)
  /\ \A f \in DOMAIN OptionFields :
       OptionFields[f] = IF Heard(f) = <<>> THEN None ELSE Head(Heard(f))
=============================================================================
