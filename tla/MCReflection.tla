---------------------------- MODULE MCReflection ----------------------------
(***************************************************************************)
(* The inputs TLC runs Reflection on.                                      *)
(*   Shapes  every walker over many small values, one call a build         *)
(*   Keys    Unreal's sorted containers                                    *)
(*   Schemas one value, the declarations of the two builds varied, several *)
(*           calls, write errors and crashes                               *)
(* and, for the run that is violated, the few keys it is about.            *)
(***************************************************************************)
EXTENDS Reflection

TwoBuilds == 1..2

Kid(label, to) == [label |-> label, to |-> to, marks |-> <<"hash">>]
Bare(label, to) == [label |-> label, to |-> to, marks |-> <<>>]
Node(kind, value, kids) == [kind |-> kind, value |-> value, kids |-> kids]
Object == Node("object", 0, <<>>)
Scalar(value) == Node("leaf", value, <<>>)
Null == Node("null", 0, <<>>)

(* Declarations as they stand in the source.                               *)
In(item, name) == [item |-> item, name |-> name]
Crate == <<In("crate", 7)>>
Attr(cfg, mark) == [cfg |-> cfg, mark |-> mark]
Plain(marks) == [i \in DOMAIN marks |-> Attr("none", marks[i])]
Field(label, to, cfg, attrs) == [label |-> label, to |-> to, cfg |-> cfg, attrs |-> attrs]
Tagged(label, to) == Field(label, to, "none", Plain(<<"hash">>))
Declared(fields) == [name |-> 1, derives |-> {"FoldbackHash"}, where |-> Crate,
                     fields |-> fields]

Input(engine, times, errors, first, second, heap) ==
  [engine |-> engine, calls |-> times, faults |-> errors, heap |-> heap,
   source |-> <<first, second>>, struct |-> <<Expanded(first), Expanded(second)>>]

\* One call a build, of a type whose fields lead to these nodes.
Hashing(engine, nodes, heap) ==
  LET type == Declared([i \in DOMAIN nodes |-> Tagged(i, nodes[i])])
  IN  Input(engine, 1, 0, type, type, heap)

-----------------------------------------------------------------------------
(* Two kids in two orders, two that render alike, one, none, and one the   *)
(* Godot walker passes over.                                               *)
KidsOf(x, y) == { <<>>, <<Kid(1, x)>>, <<Kid(1, x), Kid(2, y)>>, <<Kid(2, x), Kid(1, y)>>,
                  <<Kid(1, x), Kid(1, y)>>, <<Bare(1, x), Kid(2, y)>> }

(* The values a program can hold: fields have names of their own, and so   *)
(* have the keys of a map that is sorted by the keys themselves; a set     *)
(* holds an element once; statically typed containers hold one type; a     *)
(* TMap holds pairs, and it and a TSet hash scalars or structs.            *)
CanBe(engine, heap) ==
  \A n \in DOMAIN heap :
    LET v == heap[n]
        Type(i) == heap[v.kids[i].to].kind
    IN  /\ \A i, j \in DOMAIN v.kids : i # j =>
             /\ (\/ v.kind \in {"struct", "object", "enum"}
                 \/ v.kind \in {"map", "set"} /\ engine = "manual")
                  => v.kids[i].label # v.kids[j].label
             /\ v.kind = "set" => v.kids[i].to # v.kids[j].to
             /\ (\/ engine \in {"bevy", "unreal", "manual"} /\ v.kind \in {"list", "set"}
                 \/ engine \in {"bevy", "manual"} /\ v.kind = "map") => Type(i) = Type(j)
        /\ (engine = "unreal" /\ v.kind = "map") => Len(v.kids) % 2 = 0
        /\ (engine = "unreal" /\ v.kind \in {"map", "set"} /\ v.kids # <<>>)
             => Type(1) \in {"leaf", "struct"}

(* The tracked value has two fields, leading to nodes 2 and 4 or both to 2.*)
(* 2 leads to 3 and 4, 3 to 4; where there are references, to 2, 3 or the  *)
(* root itself as well.                                                    *)
Shapes(engine, kinds, atom, back) ==
  { shape \in
      {Hashing(engine, nodes, <<Object, node2, node3, atom>>) :
         nodes \in {<<2, 4>>, <<2, 2>>},
         node2 \in [kind : kinds, value : {0, 3},
                    kids : KidsOf(3, 4) \cup KidsOf(3, 3) \cup {<<Kid(1, r)>> : r \in back}],
         node3 \in [kind : kinds, value : {1},
                    kids : {<<>>, <<Kid(1, 4)>>} \cup {<<Kid(1, r)>> : r \in back}]
                   \cup {Scalar(2)}} :
    CanBe(engine, shape.heap) }

BevyShapes == Shapes("bevy", {"struct", "list", "map", "enum"}, Scalar(1), {})
GodotShapes == Shapes("godot", {"object", "list", "map"}, Scalar(1), {1, 2, 3})
UnityShapes == Shapes("unity", {"struct", "object", "set"}, Null, {1, 2, 3})
ManualShapes == Shapes("manual", {"list", "map", "set"}, Scalar(1), {})

-----------------------------------------------------------------------------
(* Unreal: the one field leads to node 2.                                  *)
Unreal(nodes) == Hashing("unreal", <<2>>, <<Object>> \o nodes)

(* A pointer to an object: null, to one with a stable id, to one without.  *)
Pointer(id) == IF id = 0 THEN Null
               ELSE IF id = 1 THEN Node("untracked", 0, <<>>)
               ELSE Node("identifiable", id, <<>>)
Name == Node("unsupported", 0, <<>>)

PairOf(x, y, values) == Node("map", 0, <<Kid(1, x), Kid(2, values[1]), Kid(3, y), Kid(4, values[2])>>)
SetOf(x, y) == Node("set", 0, <<Kid(1, x), Kid(2, y)>>)

(* Two entries: with the keys 3 and 4 of a type, and the values 5 and 6.   *)
Entries(key1, key2) ==
  {Unreal(<<v, key1, key2, Scalar(1), Scalar(2)>>) :
     v \in {SetOf(3, 4), PairOf(3, 4, <<5, 6>>), PairOf(3, 4, <<5, 5>>)}}

Held(kind, key, to) == IF kind = "map" THEN <<Kid(1, key), Kid(2, to)>> ELSE <<Kid(2, to)>>

(* Values nested past the limit, beneath a value or beneath a key.         *)
Nested ==
  {Unreal(<<Node(k2, 3, Held(k2, 5, 3)), Node(k3, 3, Held(k3, 5, 4)),
            Node("list", 0, kids), Scalar(1)>>) :
     k2, k3 \in {"struct", "list", "map"}, kids \in {<<>>, <<Kid(1, 5)>>}}
  \cup
  {Unreal(<<Node(k2, 3, Held(k2, 5, 3)), Node("map", 3, <<Kid(1, 4), Kid(2, 5)>>),
            Node("struct", 0, kids), Scalar(1)>>) :
     k2 \in {"struct", "list", "map"}, kids \in {<<>>, <<Kid(1, 5)>>}}
  \cup
  {Unreal(<<Node("struct", 0, <<Kid(1, 3), Kid(2, 6)>>), Node("struct", 0, kids),
            Scalar(2), Scalar(1), Scalar(3)>>) :
     kids \in {<<>>, <<Kid(1, 4), Kid(2, 5)>>}}

Keys ==
  UNION {Entries(Scalar(k1), Scalar(k2)) : k1, k2 \in {1, 3}}
  \cup UNION {Entries(Pointer(id1), Pointer(id2)) : <<id1, id2>> \in {<<0, 1>>, <<0, 2>>, <<1, 2>>, <<3, 2>>}}
  \cup {Unreal(<<SetOf(3, 4), Name, Name>>)}
  \cup {Unreal(<<v, Node("struct", 0, <<Kid(1, 5), Kid(2, 5)>>), Node("struct", 0, <<Kid(1, 5), Kid(2, 6)>>),
                 Scalar(1), Scalar(2)>>) : v \in {SetOf(3, 4), PairOf(3, 4, <<5, 6>>)}}

UnrealShapes ==
  Shapes("unreal", {"struct", "list", "map", "set"}, Scalar(1), {}) \cup Keys \cup Nested

-----------------------------------------------------------------------------
Markings == { <<>>, <<"hash">>, <<"reflect">>, <<"skip">>, <<"hash", Malformed>>, <<Malformed, "hash">> }

Two(attrs1, attrs2) == Declared(<<Field(1, 2, "none", attrs1), Field(2, 3, "none", attrs2)>>)
Both == Two(Plain(<<"hash">>), Plain(<<"hash">>))

Flat == <<Object, Scalar(1), Scalar(2)>>

(* The first build tracks both fields.  The second marks them otherwise,   *)
(* declares them the other way round, renames the type, or declares it     *)
(* where lint does not look.                                               *)
Seconds(marks) ==
  {Two(Plain(m1), Plain(m2)) : m1, m2 \in marks}
  \cup {[Both EXCEPT !.fields = Reverse(@)],
        [Both EXCEPT !.name = 2, !.where = Crate \o <<In("mod", 8), In("mod", 9)>>],
        [Both EXCEPT !.where = Crate \o <<In("mod", 8), In("fn", 9)>>],
        [Both EXCEPT !.derives = {"foldback_core::FoldbackHash"}]}

(* Or cfg leaves a field out, or out of an attribute, or not.              *)
Conditional ==
  {[Both EXCEPT !.fields[2].cfg = cfg] : cfg \in {"on", "off"}}
  \cup {Two(Plain(<<"hash">>), <<Attr(cfg, mark)>> \o Plain(rest)) :
          cfg \in {"on", "off"}, mark \in {"hash", "skip"}, rest \in {<<>>, <<"hash">>}}

Schemas(engine, seconds) ==
  {Input(engine, 2, 2, Both, second, Flat) : second \in seconds}

AllInputs ==
  BevyShapes \cup GodotShapes \cup UnityShapes \cup UnrealShapes \cup ManualShapes
  \cup Schemas("bevy", Seconds(Markings) \cup Conditional)
  \cup UNION {Schemas(e, Seconds({<<>>, <<"hash">>})) : e \in {"godot", "unity", "unreal", "manual"}}

-----------------------------------------------------------------------------
(* The inputs of the run that is violated.                                 *)

\* Keys that point to objects with a stable id or null, and to one without.
MixedKeyInputs == Entries(Pointer(2), Pointer(0)) \cup Entries(Pointer(2), Pointer(1))

\* Keys of which the walker leaves no bytes.
NameKeyInputs == Entries(Name, Name)

\* Unity: a dictionary with two keys that ToString renders alike or not.
TextKeyInputs ==
  {Hashing("unity", <<2>>, <<Object, Node("map", 0, <<Kid(1, 3), Kid(label, 4)>>), Scalar(1), Scalar(2)>>) :
     label \in {1, 2}}

KeyInputs == MixedKeyInputs \cup NameKeyInputs \cup TextKeyInputs
=============================================================================
