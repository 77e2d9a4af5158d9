--------------------------- MODULE ReflectiveWalk ---------------------------
(***************************************************************************)
(* What one call of a reflective walker hands to Session::hash_field, for  *)
(* the four walkers of the repository and for the bytes of the manual API: *)
(*   BevyWalk     crates/foldback-rs/src/bevy.rs                           *)
(*   GodotWalk    crates/foldback-godot/src/reflection.rs                  *)
(*   UnityWalk    bindings/unity/Runtime/FoldbackReflection.cs             *)
(*   Serialize    bindings/unreal/.../FoldbackReflection.cpp               *)
(*   FieldBytes   crates/foldback-core/src/hashable.rs                     *)
(*                                                                         *)
(* A value is a node of a heap h: h[n] = [kind, value, kids], kids being a *)
(* sequence of [label, to, marks] in the order the container is iterated.  *)
(* A label stands for a field's name or for the text a key is rendered as, *)
(* and marks for the foldback attributes on the field.  Unreal walks the   *)
(* keys too: there a TMap's kids are, in turn, a key and its value.  Rust  *)
(* values and USTRUCTs are owned: their heaps have no cycle, and a node met*)
(* on two paths is two equal values.  A path is the sequence of its labels,*)
(* a leaf's bytes are one number.                                          *)
(***************************************************************************)
EXTENDS FieldOrder

CONSTANT MaxDepth          \* DEFAULT_MAX_DEPTH: 8 in every walker

ASSUME MaxDepthAssumption == MaxDepth \in Nat

NullByte == 255            \* what stands for a null reference
VariantTag == 0            \* the "#variant" at the end of an enum's path

Leaf(v) == IF v.kind = "null" THEN NullByte ELSE v.value

(* A walk either fails or not, and what it recorded until then stays       *)
(* recorded: it goes straight to the session.                              *)
Recorded(out) == [ok |-> TRUE, out |-> out]
Failed == [ok |-> FALSE, out |-> <<>>]

TooDeepEarly(depth) == depth >= MaxDepth
TooDeep(depth) == depth > MaxDepth

\* r, and then w unless r failed.
Then(r, w) == IF r.ok THEN [ok |-> w.ok, out |-> r.out \o w.out] ELSE r

\* The walks one after the other, up to the first that fails.
InOrder(before, walks) ==
  LET upTo[k \in 0..Len(walks)] ==
        IF k = 0 THEN before ELSE Then(upTo[k - 1], walks[k])
  IN  upTo[Len(walks)]

Indexed(kids) == [i \in DOMAIN kids |-> [kids[i] EXCEPT !.label = i]]

(* Entries sorted by rendered key.  sort_by and OrderBy are stable: keys   *)
(* that render alike stay in iteration order.                              *)
AsIterated(kids) == kids
ByLabel(kids) == Sorted(kids, Labels(kids))

-----------------------------------------------------------------------------
(* Three walkers go through a value in one way.  They differ in what they  *)
(* see of a node: the kids, in the order they are walked, and whether the  *)
(* node is tracked by identity while it is being walked.                   *)
Seen(v, kids, tracked) == [kind |-> v.kind, value |-> v.value, kids |-> kids, tracked |-> tracked]

(* Where a walk is: at a node, on a path, beneath the tracked nodes        *)
(* visited.                                                                *)
Place(node, path, visited) == [node |-> node, path |-> path, visited |-> visited]
Places(view) == [node : DOMAIN view, path : Seq(Nat), visited : SUBSET DOMAIN view]

\* An enum records its variant's name before the payload, which lies beneath it.
Named(v, path) == IF v.kind = "enum" THEN Append(path, v.value) ELSE path
Variant(v, path) == IF v.kind = "enum"
                    THEN << <<Append(Named(v, path), VariantTag), v.value>> >>
                    ELSE <<>>

Under(view, at, kid) ==
  LET v == view[at.node]
  IN  Place(kid.to, Append(Named(v, at.path), kid.label),
            IF v.tracked THEN at.visited \cup {at.node} ELSE at.visited)

(* What a walk records at each place of this depth, deeper being what it   *)
(* records one further down.                                               *)
Visit(view, depth, deeper) ==
  [at \in Places(view) |->
     LET v == view[at.node]
     IN  IF TooDeep(depth) \/ (v.tracked /\ at.node \in at.visited) THEN Failed
         ELSE IF v.kind \in {"leaf", "null"} THEN Recorded(<< <<at.path, Leaf(v)>> >>)
         ELSE InOrder(Recorded(Variant(v, at.path)),
                      [i \in DOMAIN v.kids |-> deeper[Under(view, at, v.kids[i])]])]

Walk(view) ==
  LET from[depth \in 0..(MaxDepth + 1)] == Visit(view, depth, from[depth + 1])
  IN  from

(* Bevy: bounded by depth alone.                                           *)
BevyKids(v) == CASE v.kind = "list" -> Indexed(v.kids)
                 [] v.kind \in {"map", "set"} -> ByLabel(v.kids)
                 [] OTHER -> v.kids
BevyWalk(h) == Walk([n \in DOMAIN h |-> Seen(h[n], BevyKids(h[n]), FALSE)])

(* Godot: objects are tracked, and at each of them only the properties     *)
(* with the foldback_ prefix count.  Arrays and dictionaries have no       *)
(* identity here; a dictionary iterates in insertion order and is not      *)
(* sorted.                                                                 *)
Prefixed(kid) == kid.marks # <<>>

GodotKids(v) == CASE v.kind = "object" -> Kept(v.kids, {kid \in ToSet(v.kids) : Prefixed(kid)})
                  [] v.kind = "list" -> Indexed(v.kids)
                  [] OTHER -> v.kids
GodotWalk(h) == Walk([n \in DOMAIN h |-> Seen(h[n], GodotKids(h[n]), h[n].kind = "object")])

(* Unity: every value of a reference type, a container too, is tracked;    *)
(* the root is not.  Beneath a tagged member all public members are        *)
(* walked, so kids are those.                                              *)
UnityKids(v) == CASE v.kind = "list" -> Indexed(v.kids)
                  [] v.kind \in {"map", "set"} -> ByLabel(v.kids)
                  [] OTHER -> v.kids
UnityWalk(h) == Walk([n \in DOMAIN h |-> Seen(h[n], UnityKids(h[n]), h[n].kind # "struct")])

-----------------------------------------------------------------------------
(* Unreal and the manual API make one string of bytes of a whole field.    *)
U32(x) == <<x, 0, 0, 0>>
I64(x) == <<x, 0, 0, 0, 0, 0, 0, 0>>

(* What has nothing beneath it.  Of a type the walker does not know, such  *)
(* as FString or FName, no bytes are left.                                 *)
Atoms == {"leaf", "null", "identifiable", "untracked", "unsupported"}
AtomBytes(v) == CASE v.kind = "leaf" -> <<v.value>>
                  [] v.kind = "null" -> U32(0)
                  [] v.kind = "identifiable" -> <<1>> \o I64(v.value)
                  [] v.kind = "untracked" -> <<2>>
                  [] OTHER -> <<>>

(* The comparison the entries of a TMap or TSet are sorted with.  Of two   *)
(* keys of different length each may be less than the other.               *)
Less(a, b) ==
  LET shared == 1..(IF Len(a) < Len(b) THEN Len(a) ELSE Len(b))
  IN  \/ \E i \in shared : a[i] < b[i] /\ \A j \in 1..(i - 1) : a[j] = b[j]
      \/ Len(a) < Len(b)

(* TArray::Sort is not stable, and what it makes of a comparison that is   *)
(* no order is up to its algorithm: any order in which no entry is less    *)
(* than an earlier one, and any order at all if there is none.             *)
Sorts(entries) ==
  LET orders == {[i \in DOMAIN entries |-> entries[p[i]]] :
                   p \in {q \in [DOMAIN entries -> DOMAIN entries] :
                            \A i, j \in DOMAIN q : i # j => q[i] # q[j]}}
      sorted == {s \in orders :
                   \A i, j \in DOMAIN s : i < j => ~Less(s[j].key, s[i].key)}
  IN  IF sorted = {} THEN orders ELSE sorted

(* An entry of a TMap is sorted by its key's bytes, of a TSet by its own.  *)
MapEntries(parts) ==
  [i \in 1..(Len(parts) \div 2) |->
     [key |-> parts[2 * i - 1], bytes |-> parts[2 * i - 1] \o parts[2 * i]]]
SetEntries(parts) == [i \in DOMAIN parts |-> [key |-> parts[i], bytes |-> parts[i]]]
EntriesOf(v, parts) == IF v.kind = "map" THEN MapEntries(parts) ELSE SetEntries(parts)

(* What a value's bytes may be, made of those of its kids: a struct's are  *)
(* its members', a container's begin with its size.                        *)
Joined(v, parts) ==
  CASE v.kind = "struct" -> {FlattenSeq(parts)}
    [] v.kind = "list" -> {U32(Len(parts)) \o FlattenSeq(parts)}
    [] OTHER ->
         {U32(Len(es)) \o FlattenSeq([i \in DOMAIN es |-> es[i].bytes]) :
            es \in Sorts(EntriesOf(v, parts))}

\* One outcome of each.
OneOfEach(outcomes) ==
  {c \in [DOMAIN outcomes -> UNION {outcomes[i] : i \in DOMAIN outcomes}] :
     \A i \in DOMAIN outcomes : c[i] \in outcomes[i]}

(* SerializeValue.  visited holds the addresses of the structs being       *)
(* walked.  A struct's first member lies at the struct's own address, and  *)
(* what a container holds lies elsewhere.                                  *)
Site(node, address, visited) == [node |-> node, address |-> address, visited |-> visited]
Sites(h) == [node : DOMAIN h, address : Seq(Nat), visited : SUBSET Seq(Nat)]

Inside(v, at, i) ==
  Site(v.kids[i].to,
       IF v.kind = "struct" /\ i = 1 THEN at.address ELSE Append(at.address, i),
       IF v.kind = "struct" THEN at.visited \cup {at.address} ELSE at.visited)

SerializeValue(h, depth, deeper) ==
  [at \in Sites(h) |->
     LET v == h[at.node]
     IN  IF TooDeep(depth) \/ (v.kind = "struct" /\ at.address \in at.visited) THEN {Failed}
         ELSE IF v.kind \in Atoms THEN {Recorded(AtomBytes(v))}
         ELSE UNION {IF \A i \in DOMAIN c : c[i].ok
                     THEN {Recorded(bytes) : bytes \in Joined(v, [i \in DOMAIN c |-> c[i].out])}
                     ELSE {Failed} :
                       c \in OneOfEach([i \in DOMAIN v.kids |-> deeper[Inside(v, at, i)]])}]

Serialize(h) ==
  LET from[depth \in 0..(MaxDepth + 1)] == SerializeValue(h, depth, from[depth + 1])
  IN  from

(* FieldBytes: fixed arrays in place, maps and sets by key, no lengths.  A *)
(* value owns what it holds, so no way through the heap is longer than the *)
(* heap.                                                                   *)
Write(h, deeper) ==
  [n \in DOMAIN h |->
     LET v == h[n]
         kids == IF v.kind = "list" THEN v.kids ELSE ByLabel(v.kids)
     IN  IF v.kind = "leaf" THEN <<v.value>>
         ELSE FlattenSeq([i \in DOMAIN kids |->
                (IF v.kind = "map" THEN <<kids[i].label>> ELSE <<>>) \o deeper[kids[i].to]])]

FieldBytes(h) ==
  LET within[length \in 0..Len(h)] ==
        IF length = 0 THEN [n \in DOMAIN h |-> <<>>] ELSE Write(h, within[length - 1])
  IN  within[Len(h)]
=============================================================================
