----------------------------- MODULE FieldOrder -----------------------------
(***************************************************************************)
(* Sequences of fields and of container entries: which of them are kept,   *)
(* and in what order they are put.  The walkers and the schema share it.   *)
(***************************************************************************)
EXTENDS Naturals, Sequences, FiniteSets, SequencesExt

Labels(fields) == [i \in DOMAIN fields |-> fields[i].label]

\* The elements of s that are in S, in their order.
Kept(s, S) == FlattenSeq([i \in DOMAIN s |-> IF s[i] \in S THEN <<s[i]>> ELSE <<>>])

(* s sorted by keys, one for each index: the sort is stable, equal keys    *)
(* stay in the order they had.                                             *)
Before(keys, i, j) == \/ keys[i] < keys[j]
                      \/ keys[i] = keys[j] /\ i < j
Rank(keys, j) == Cardinality({i \in DOMAIN keys : Before(keys, i, j)})
Sorted(s, keys) ==
  [k \in DOMAIN s |-> s[CHOOSE j \in DOMAIN s : Rank(keys, j) = k - 1]]
=============================================================================
