----------------------------- MODULE Reflection -----------------------------
(***************************************************************************)
(* Two builds of a game hash the same tracked value reflectively, each     *)
(* into a recording of its own, and `foldback schema-diff` compares the    *)
(* recordings: foldback-rs bevy.rs, foldback-godot reflection.rs, the      *)
(* Unity and Unreal walkers, foldback-derive, and lint and schema-diff of  *)
(* foldback-cli, over the session's record_schema and hash_field.          *)
(*                                                                         *)
(* An input says which walker runs (engine), the values the tracked type   *)
(* reaches (heap; node Root is the tracked value itself), the declaration  *)
(* of the type in each build (source, and struct as it is compiled), and   *)
(* how many calls and faults there may be.  The second build holds the     *)
(* same value, and its unordered containers iterate the other way round.   *)
(***************************************************************************)
EXTENDS ReflectiveWalk, SchemaDrift

CONSTANTS Inputs, Builds

ASSUME BuildsAssumption == Builds = 1..2

Root == 1
None == 9

(* The kinds of values each walker tells apart. *)
Kinds == [bevy   |-> {"leaf", "struct", "list", "map", "set", "enum"},
          godot  |-> {"leaf", "null", "object", "list", "map"},
          unity  |-> {"leaf", "null", "struct", "object", "list", "map", "set"},
          unreal |-> Atoms \cup {"struct", "list", "map", "set"},
          manual |-> {"leaf", "list", "map", "set"}]
Engines == DOMAIN Kinds

(* The inputs a program can give: what is held by a value is in the heap,  *)
(* the fields of a struct have names of their own, and where there is no   *)
(* derive macro a field is tagged or it is not.  A USTRUCT holds no object *)
(* but by pointer, and a pointer is an atom; in a TMap each key has a      *)
(* value.                                                                  *)
ASSUME InputsAssumption ==
  \A inp \in Inputs :
    LET Field == [label : Nat, to : DOMAIN inp.heap, marks : Seq(STRING)]
        Where == Seq([item : STRING, name : Nat])
        Attrs == Seq([cfg : Cfg, mark : STRING])
        SourceField == [label : Nat, to : DOMAIN inp.heap, cfg : Cfg, attrs : Attrs]
        Type == [name : Nat, derives : SUBSET STRING, where : Where, fields : Seq(Field)]
        Source == [name : Nat, derives : SUBSET STRING, where : Where, fields : Seq(SourceField)]
    IN  /\ inp.engine \in Engines /\ inp.calls \in Nat /\ inp.faults \in Nat
        /\ inp.heap \in Seq([kind : STRING, value : Nat, kids : Seq(Field)])
        /\ Root \in DOMAIN inp.heap /\ inp.heap[Root].kind = "object"
        /\ \A n \in DOMAIN inp.heap \ {Root} :
             /\ inp.heap[n].kind \in Kinds[inp.engine]
             /\ inp.heap[n].kind \in Atoms => inp.heap[n].kids = <<>>
             /\ inp.engine = "unreal" =>
                  /\ \A i \in DOMAIN inp.heap[n].kids : inp.heap[n].kids[i].to # Root
                  /\ inp.heap[n].kind = "map" => Len(inp.heap[n].kids) % 2 = 0
        /\ inp.source \in [Builds -> Source]
        /\ \A b \in Builds : inp.struct[b] = Expanded(inp.source[b])
        /\ inp.struct \in [Builds -> Type]
        /\ \A b \in Builds : \A i \in DOMAIN inp.struct[b].fields :
             LET f == inp.struct[b].fields[i]
             IN  /\ \A j \in DOMAIN inp.struct[b].fields :
                      inp.struct[b].fields[j].label = f.label => j = i
                 /\ inp.engine \notin {"bevy", "manual"} => f.marks \in {<<>>, <<"hash">>}
                 /\ inp.engine = "unreal" => f.to # Root

VARIABLES
  input,    \* what is hashed, by which walker: fixed
  file,     \* file[b]: the recording on disk, [header, frames]
  marked,   \* marked[b]: the session has the type in written_schemas
  calls,    \* calls[b]: calls of hash_reflected made
  faults,   \* write errors and crashes left
  last,     \* last[b]: what the last call returned, [ok, out]
  refused,  \* refused[b]: a write of build b failed (history)
  down,     \* down[b]: the process has crashed
  verdict   \* the exit code of schema-diff, None before it ran

vars == <<input, file, marked, calls, faults, last, refused, down, verdict>>

Source(b) == input.source[b]
Struct(b) == input.struct[b]

-----------------------------------------------------------------------------
(* The value as build b iterates it.  A Godot dictionary iterates in       *)
(* insertion order, which is part of the state.                            *)
Unordered(v) == v.kind \in {"map", "set"} /\ input.engine # "godot"

\* The other way round, in Unreal's maps a key before its value.
ReversePairs(kids) ==
  [k \in DOMAIN kids |-> kids[IF k % 2 = 1 THEN Len(kids) - k ELSE Len(kids) + 2 - k]]
Mirrored(v) == IF input.engine = "unreal" /\ v.kind = "map"
               THEN ReversePairs(v.kids) ELSE Reverse(v.kids)

Heap(b) ==
  [n \in DOMAIN input.heap |->
     IF n = Root THEN [input.heap[n] EXCEPT !.kids = Struct(b).fields]
     ELSE IF b = 2 /\ Unordered(input.heap[n])
          THEN [input.heap[n] EXCEPT !.kids = Mirrored(input.heap[n])]
     ELSE input.heap[n]]

(* The tracked fields of the root: the derive macro's list in Rust, the    *)
(* prefix in Godot, the attribute or the meta tag in Unity and Unreal.     *)
Marked(field) == field.marks # <<>>

Tracked(b) ==
  LET fields == Struct(b).fields
  IN  IF input.engine = "bevy"
      THEN Kept(fields, {f \in ToSet(fields) : f.label \in TrackedFields(Struct(b))})
      ELSE Kept(fields, {f \in ToSet(fields) : Marked(f)})

(* HashTaggedFields: a field that cannot be serialized is left out, the    *)
(* others are hashed all the same.                                         *)
UnrealWalk(h, fields) ==
  LET outcomes == [i \in DOMAIN fields |->
                     Serialize(h)[0][Site(fields[i].to, <<fields[i].label>>, {})]]
  IN  {[ok |-> \A i \in DOMAIN c : c[i].ok,
        out |-> FlattenSeq([i \in DOMAIN c |->
                  IF c[i].ok THEN << << <<fields[i].label>>, c[i].out>> >> ELSE <<>>])] :
         c \in OneOfEach(outcomes)}

\* The fields of the root, one after the other.
FieldWalks(walk, fields) ==
  InOrder(Recorded(<<>>), [i \in DOMAIN fields |->
            walk[1][Place(fields[i].to, <<fields[i].label>>, {})]])

\* What one call may come to if no write fails.
Walks(b) ==
  LET h == Heap(b)
      e == input.engine
      hashed == HashedFields(Struct(b))
  IN  CASE e = "bevy"   -> {FieldWalks(BevyWalk(h), Tracked(b))}
        [] e = "unity"  -> {FieldWalks(UnityWalk(h), Tracked(b))}
        [] e = "godot"  -> {GodotWalk(h)[0][Place(Root, <<>>, {})]}
        [] e = "unreal" -> UnrealWalk(h, Tracked(b))
        [] e = "manual" -> {Recorded([i \in DOMAIN hashed |->
                              << <<hashed[i].label>>, FieldBytes(h)[hashed[i].to]>>])}

-----------------------------------------------------------------------------
(* The manual API and the Unreal walker never record a schema.             *)
RecordsSchema == input.engine \in {"bevy", "godot", "unity"}

(* Session::record_schema writes the first time only; Unity keeps a set of *)
(* its own in front of it, marked before the call like the session's.      *)
SchemaIsNew(b) == RecordsSchema /\ ~marked[b]

SchemaFrames(b) == IF SchemaIsNew(b)
                   THEN <<SchemaFrame(TypeName(Struct(b)), Fingerprint(Labels(Tracked(b))))>>
                   ELSE <<>>

FieldFrames(out) == [i \in DOMAIN out |-> FieldFrame(out[i])]

(* What is left of a call's records when the write of record k fails: the  *)
(* walk returns at once, but Unreal goes on with the next field.           *)
AfterRefusal(out, k) == IF input.engine = "unreal" THEN RemoveAt(out, k)
                        ELSE SubSeq(out, 1, k - 1)

MayCall(b) == ~down[b] /\ verdict = None /\ calls[b] < input.calls

Called(b, ok, out, frames) ==
  /\ calls' = [calls EXCEPT ![b] = @ + 1]
  /\ marked' = [marked EXCEPT ![b] = @ \/ RecordsSchema]
  /\ last' = [last EXCEPT ![b] = [ok |-> ok, out |-> out]]
  /\ file' = [file EXCEPT ![b].frames = @ \o frames]
  /\ UNCHANGED <<input, down, verdict>>

HashReflected(b) ==
  /\ MayCall(b)
  /\ \E r \in Walks(b) :
       Called(b, r.ok, r.out, SchemaFrames(b) \o FieldFrames(r.out))
  /\ UNCHANGED <<faults, refused>>

(* A call in which the write of one frame is an error.  What that leaves   *)
(* of the frame in the file is Recording's subject: no property below is   *)
(* about what a reader makes of such a file.                               *)
HashRefused(b) ==
  /\ MayCall(b) /\ faults > 0
  /\ \/ /\ SchemaIsNew(b)
        /\ Called(b, FALSE, <<>>, <<>>)
     \/ \E r \in Walks(b) : \E k \in DOMAIN r.out :
          LET out == AfterRefusal(r.out, k)
          IN  Called(b, FALSE, out, SchemaFrames(b) \o FieldFrames(out))
  /\ faults' = faults - 1
  /\ refused' = [refused EXCEPT ![b] = TRUE]

(* The process dies with the end of its recording, or all of it, still in  *)
(* the BufWriter.                                                          *)
Crash(b) ==
  /\ ~down[b] /\ verdict = None /\ faults > 0
  /\ faults' = faults - 1
  /\ down' = [down EXCEPT ![b] = TRUE]
  /\ \/ file' = [file EXCEPT ![b] = [header |-> FALSE, frames |-> <<>>]]
     \/ \E n \in 0..Len(file[b].frames) :
          file' = [file EXCEPT ![b].frames = SubSeq(@, 1, n)]
  /\ UNCHANGED <<input, marked, calls, last, refused, verdict>>

SchemaDiff ==
  /\ verdict = None
  /\ verdict' = RunSchemaDiff(file[1], file[2])
  /\ UNCHANGED <<input, file, marked, calls, faults, last, refused, down>>

Init ==
  /\ input \in Inputs
  /\ input.engine \in {"bevy", "manual"} => \A b \in Builds : Compiles(Struct(b))
  /\ file = [b \in Builds |-> [header |-> TRUE, frames |-> <<>>]]
  /\ marked = [b \in Builds |-> FALSE]
  /\ calls = [b \in Builds |-> 0]
  /\ faults = input.faults
  /\ last = [b \in Builds |-> Recorded(<<>>)]
  /\ refused = [b \in Builds |-> FALSE]
  /\ down = [b \in Builds |-> FALSE]
  /\ verdict = None

Next == \/ \E b \in Builds : HashReflected(b) \/ HashRefused(b) \/ Crash(b)
        \/ SchemaDiff

Spec == Init /\ [][Next]_vars
-----------------------------------------------------------------------------
(* Types: bounded calls and faults, two kinds of frames, the exit codes    *)
(* main.rs documents.                                                      *)
TypeOK ==
  /\ input.engine \in Engines
  /\ \A b \in Builds :
       /\ file[b].header \in BOOLEAN
       /\ \A i \in DOMAIN file[b].frames : file[b].frames[i].kind \in {"schema", "field"}
       /\ last[b].ok \in BOOLEAN
  /\ {marked, refused, down} \subseteq [Builds -> BOOLEAN]
  /\ calls \in [Builds -> 0..input.calls]
  /\ faults \in 0..input.faults
  /\ verdict \in {0, 1, 2, None}

-----------------------------------------------------------------------------
(* A second account of what there is to record, level by level instead of  *)
(* depth first: an occurrence is a node together with the way to it.       *)
Occurrence(way, path, node, above) ==
  [way |-> way, path |-> path, node |-> node, above |-> above]

Beneath(h, o) ==
  LET v == h[o.node]
      counts == {i \in DOMAIN v.kids :
                   (input.engine = "godot" /\ v.kind = "object") => Prefixed(v.kids[i])}
      label(i) == IF v.kind = "list" THEN <<i>> ELSE <<v.kids[i].label>>
      name == IF v.kind = "enum" THEN <<v.value>> ELSE <<>>
  IN  {Occurrence(Append(o.way, i), o.path \o name \o label(i), v.kids[i].to,
                  o.above \cup {o.node}) : i \in counts}

\* Unreal counts from the field on, the others from the tracked value.
Limit == IF input.engine = "unreal" THEN MaxDepth + 1 ELSE MaxDepth

Levels(b) ==
  LET h == Heap(b)
      fields == Tracked(b)
      above == IF input.engine = "godot" THEN {Root} ELSE {}
      f[d \in 1..(Limit + 1)] ==
        IF d = 1 THEN {Occurrence(<<i>>, <<fields[i].label>>, fields[i].to, above) :
                         i \in DOMAIN fields}
                 ELSE UNION {Beneath(h, o) : o \in f[d - 1]}
  IN  f

(* A cycle: a value with an identity beneath itself.  Rust values and      *)
(* USTRUCTs have none.                                                     *)
Cycles(h, o) ==
  CASE input.engine = "godot" -> h[o.node].kind = "object" /\ o.node \in o.above
    [] input.engine = "unity" -> h[o.node].kind # "struct" /\ o.node \in o.above
    [] OTHER -> FALSE

\* What each occurrence puts on record by itself: its path and the bytes.
OwnRecords(h, o) ==
  LET v == h[o.node]
  IN  CASE v.kind \in {"leaf", "null"} -> {<<o.way, o.path, Leaf(v)>>}
        [] v.kind = "enum" -> {<<o.way, o.path \o <<v.value, VariantTag>>, v.value>>}
        [] OTHER -> {}

(* A struct's first member lies at the struct's own address, which is what *)
(* Unreal's guard goes by.                                                 *)
FirstMembersPlain ==
  \A n \in DOMAIN input.heap :
    LET v == input.heap[n]
    IN  v.kind = "struct" /\ v.kids # <<>> => input.heap[v.kids[1].to].kind # "struct"

(* Without a write error, a walk fails exactly if a tracked path is longer *)
(* than the limit or a cycle, and records every leaf it should once, and   *)
(* nothing it should not, however the value is nested or shared (walk in   *)
(* bevy.rs and reflection.rs, Walk in FoldbackReflection.cs).  In Unreal,  *)
(* where the keys of a TMap are walked too, a failed field costs that      *)
(* field and no other (HashTaggedFields).  It takes, there, structs that   *)
(* are no struct's first member: its guard takes those for a cycle.        *)
WalkIsExact ==
  \A b \in Builds :
    (/\ input.engine # "manual" /\ calls[b] > 0 /\ ~refused[b]
     /\ input.engine = "unreal" => FirstMembersPlain) =>
      LET h == Heap(b)
          fields == Tracked(b)
          levels == Levels(b)
          all == UNION {levels[d] : d \in 1..Limit}
          bad == levels[Limit + 1] \cup {o \in all : Cycles(h, o)}
          due == UNION {OwnRecords(h, o) : o \in all}
          records == {<<r[2], r[3]>> : r \in due}
          whole == {i \in DOMAIN fields : \A o \in bad : o.way[1] # i}
      IN  /\ last[b].ok <=> bad = {}
          /\ input.engine = "unreal" =>
               {r[1] : r \in ToSet(last[b].out)} = {<<fields[i].label>> : i \in whole}
          /\ input.engine # "unreal" =>
               /\ ToSet(last[b].out) \subseteq records
               /\ last[b].ok => /\ ToSet(last[b].out) = records
                                /\ Len(last[b].out) = Cardinality(due)

-----------------------------------------------------------------------------
\* The kids a container is sorted by: in a TMap, where they are pairs, the keys.
SortKeys(v) == {i \in DOMAIN v.kids : input.engine = "unreal" /\ v.kind = "map" => i % 2 = 1}

(* In Unreal a key without containers in it: a scalar, or a struct of      *)
(* scalars such as FIntPoint.  What bytes it makes.                        *)
IsPlain(v) ==
  /\ v.kind \in Atoms \cup {"struct"}
  /\ v.kind = "struct" => \A i \in DOMAIN v.kids : input.heap[v.kids[i].to].kind \in Atoms
PlainBytes(v) ==
  IF v.kind = "struct"
  THEN FlattenSeq([i \in DOMAIN v.kids |-> AtomBytes(input.heap[v.kids[i].to])])
  ELSE AtomBytes(v)

(* Whether the keys of every container tell its entries apart: no two      *)
(* render alike, and Unreal's comparison puts each two in one order.       *)
KeysAreOrdered ==
  \A n \in DOMAIN input.heap :
    LET v == input.heap[n]
        key(i) == input.heap[v.kids[i].to]
        bytes(i) == PlainBytes(key(i))
        ordered(i, j) == IF input.engine # "unreal" THEN v.kids[i].label # v.kids[j].label
                         ELSE /\ IsPlain(key(i)) /\ IsPlain(key(j))
                              /\ \/ Less(bytes(i), bytes(j)) # Less(bytes(j), bytes(i))
                                 \/ v.kind = "set" /\ bytes(i) = bytes(j)
    IN  v.kind \in {"map", "set"} =>
          \A i, j \in SortKeys(v) : i # j => ordered(i, j)

(* Two peers of the same build that hold the same value record the same    *)
(* fields in the same order, and fail alike, though their hash containers  *)
(* iterate differently: "`TMap`/`TSet` sorted by key bytes (the            *)
(* reflective-hashing doc's shared unordered-container rule)"              *)
(* (bindings/unreal/README.md), "the Unity walker sorts                    *)
(* `IDictionary`/`ISet` entries the same way" (reflective-hashing.md).     *)
IterationNeverShows ==
  (/\ Struct(1).fields = Struct(2).fields
   /\ \A b \in Builds : calls[b] > 0 /\ ~refused[b]) => last[1] = last[2]

(* The sorted-container rule of every walker and of hashable.rs, as far as *)
(* the code keeps it: it takes keys that can be told apart.                *)
SameStateSameRecords == KeysAreOrdered => IterationNeverShows

-----------------------------------------------------------------------------
(* Of recordings without a write error, schema-diff reports drift only     *)
(* where the tracked fields of one type differ, and misses none if both    *)
(* show a field of it, whatever order the fields are declared in and       *)
(* wherever a crash cut the files (schema.rs detect_drift, main.rs         *)
(* run_schema_diff; for the walkers that record a schema).                 *)
TaggedLabels(b) ==
  {f.label : f \in {g \in ToSet(Struct(b).fields) : g.marks # <<>> /\ g.marks[1] # "skip"}}

DriftIsExact ==
  LET drifted == TypeName(Struct(1)) = TypeName(Struct(2)) /\ TaggedLabels(1) # TaggedLabels(2)
      Shows(b) == \E i \in DOMAIN file[b].frames : ~IsSchema(file[b].frames[i])
  IN  (\A b \in Builds : ~refused[b]) =>
        /\ verdict = 1 => drifted
        /\ (verdict \in {0, 1} /\ RecordsSchema /\ \A b \in Builds : Shows(b))
             => (verdict = 1 <=> drifted)

(* A declaration in which cfg changes nothing that lint reads.             *)
Unconditional(source) ==
  \A i \in DOMAIN source.fields :
    LET f == source.fields[i]
    IN  f.cfg # "off" /\ \A k \in DOMAIN f.attrs : f.attrs[k].cfg # "on"

(* Whether lint lists the struct a schema frame is of, by the last part of *)
(* its type's name, with the fields in the frame, and every other field    *)
(* that is not marked skip as untracked.                                   *)
ListsWhatIsRecorded(b, schema) ==
  \E listed \in CollectTrackedStructs({Source(b)}) :
    /\ listed.name = schema.type[Len(schema.type)]
    /\ listed.tracked = ToSet(schema.fields)
    /\ listed.untracked = {f.label : f \in {g \in ToSet(Struct(b).fields) : g.marks = <<>>}}

InLintsReach(b, frame) ==
  /\ IsSchema(frame) /\ input.engine = "bevy" /\ Unconditional(Source(b))
  /\ Visible(Source(b)) /\ "FoldbackHash" \in Source(b).derives

(* lint's account of a type is the program's own: its field_marking        *)
(* "mirrors foldback-derive's own" (lint.rs), though they are two          *)
(* functions that read and refuse attributes differently.  It takes a      *)
(* declaration that cfg leaves as it is written.                           *)
LintAgreesWithSchema ==
  \A b \in Builds : \A i \in DOMAIN file[b].frames :
    InLintsReach(b, file[b].frames[i]) => ListsWhatIsRecorded(b, file[b].frames[i])
=============================================================================
