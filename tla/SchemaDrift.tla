---------------------------- MODULE SchemaDrift ----------------------------
(***************************************************************************)
(* Which fields of a type are tracked, told three times: by the derive     *)
(* macro to the program (foldback-derive), by `foldback lint` to a human   *)
(* reading the source (foldback-cli), and by the schema frame to whoever   *)
(* compares two recordings (foldback-core schema.rs and `schema-diff`).    *)
(*                                                                         *)
(* A struct is [name, derives, fields, where], where being the sequence of *)
(* the items [item, name] around it, outermost first: a "crate", "mod"s, a *)
(* "fn".  As it stands in the source, a field is [label, to, cfg, attrs],  *)
(* attrs being its foldback attributes [cfg, mark] in order; a mark is an  *)
(* identifier, or Malformed for arguments that are not one identifier, and *)
(* cfg tells whether a #[cfg] (or #[cfg_attr] around an attribute) holds   *)
(* in this build.  To the derive macro a field is [label, to, marks].      *)
(* Names are numbers so that they can be sorted.                           *)
(***************************************************************************)
EXTENDS FieldOrder

Malformed == "malformed"
Cfg == {"none", "on", "off"}

(* std::any::type_name: the path of a type that is not generic.  What      *)
(* Unity (FullName) and Godot (schema_type_name) name a type by is a path  *)
(* here too.                                                               *)
TypeName(struct) == Append([i \in DOMAIN struct.where |-> struct.where[i].name], struct.name)

(* What rustc hands to the derive macro: without what is cfg'd out, and    *)
(* with the attribute a cfg_attr that holds contains.                      *)
Present(s) == Kept(s, {x \in ToSet(s) : x.cfg # "off"})
Marks(attrs) == [i \in DOMAIN attrs |-> attrs[i].mark]
Expanded(source) ==
  LET fields == Present(source.fields)
  IN  [name |-> source.name, derives |-> source.derives, where |-> source.where,
       fields |-> [i \in DOMAIN fields |->
                     [label |-> fields[i].label, to |-> fields[i].to,
                      marks |-> Marks(Present(fields[i].attrs))]]]

(* The derive macro takes the first foldback attribute, and an attribute   *)
(* it does not understand is a compile error.                              *)
DeriveMarking(marks) == IF marks = <<>> THEN "unmarked"
                        ELSE IF marks[1] \in {"hash", "reflect", "skip"} THEN marks[1]
                        ELSE "error"

Compiles(struct) == \A i \in DOMAIN struct.fields :
                      DeriveMarking(struct.fields[i].marks) # "error"

TrackedFields(struct) ==
  {f.label : f \in {g \in ToSet(struct.fields) : DeriveMarking(g.marks) \in {"hash", "reflect"}}}

\* The fields write_hashed_fields hashes.
HashedFields(struct) ==
  Kept(struct.fields, {f \in ToSet(struct.fields) : DeriveMarking(f.marks) = "hash"})

-----------------------------------------------------------------------------
(* lint reads the source: every field, and the attributes that are written *)
(* #[foldback(..)].  It skips those it cannot parse and takes unknown      *)
(* markings for none.                                                      *)
Written(attrs) == Kept(attrs, {a \in ToSet(attrs) : a.cfg = "none"})
Parsed(marks) == {i \in DOMAIN marks : marks[i] # Malformed}
Marking(marks, tracking) ==
  LET first == marks[CHOOSE i \in Parsed(marks) : \A j \in Parsed(marks) : i <= j]
  IN  CASE Parsed(marks) = {} -> "unmarked"
        [] Parsed(marks) # {} /\ first \in tracking -> "tracked"
        [] Parsed(marks) # {} /\ first = "skip" -> "skip"
        [] OTHER -> "unmarked"

LintMarkingHashOnly(attrs) == Marking(Marks(Written(attrs)), {"hash"})
LintMarking(attrs) == Marking(Marks(Written(attrs)), {"hash", "reflect"})

\* Only the bare name is recognised, not foldback_core::FoldbackHash.
DerivesFoldbackHash(struct) == "FoldbackHash" \in struct.derives

(* What the scan lists of the structs of a file: those in inline modules   *)
(* too, however deep, but none in a function's body.                       *)
Visible(struct) == \A i \in DOMAIN struct.where : struct.where[i].item # "fn"

LintLabels(struct, marking) ==
  {f.label : f \in {g \in ToSet(struct.fields) : LintMarking(g.attrs) = marking}}

CollectTrackedStructs(structs) ==
  {[name |-> struct.name,
    tracked |-> LintLabels(struct, "tracked"),
    untracked |-> LintLabels(struct, "unmarked")] :
      struct \in {s \in structs : Visible(s) /\ DerivesFoldbackHash(s)}}

-----------------------------------------------------------------------------
(* A recording, as far as schemas go, is its sequence of frames: Metadata  *)
(* frames of a type's schema and FieldHash frames.                         *)
SchemaFrame(type, fields) == [kind |-> "schema", type |-> type, fields |-> fields]
FieldFrame(record) == [kind |-> "field", record |-> record]
IsSchema(frame) == frame.kind = "schema"

FingerprintUnsorted(labels) == labels
Fingerprint(labels) == Sorted(labels, labels)

ExtractSchemas(frames) ==
  LET schemas == {i \in DOMAIN frames : IsSchema(frames[i])}
      Latest(type) == CHOOSE i \in schemas :
                      /\ frames[i].type = type
                      /\ \A j \in schemas : frames[j].type = type => j <= i
  IN  [type \in {frames[i].type : i \in schemas} |-> frames[Latest(type)].fields]

DetectDrift(before, after) ==
  {type \in DOMAIN before \cap DOMAIN after : before[type] # after[type]}

(* The exit code of `schema-diff` for two files [header, frames]: a file   *)
(* that ends before its header is an error.                                *)
RunSchemaDiffUnwrapping(before, after) ==
  IF ~before.header \/ ~after.header THEN 101
  ELSE IF DetectDrift(ExtractSchemas(before.frames), ExtractSchemas(after.frames)) = {}
       THEN 0 ELSE 1
RunSchemaDiff(before, after) ==
  IF ~before.header \/ ~after.header THEN 2
  ELSE IF DetectDrift(ExtractSchemas(before.frames), ExtractSchemas(after.frames)) = {}
       THEN 0 ELSE 1
=============================================================================
