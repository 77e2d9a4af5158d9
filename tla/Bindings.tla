------------------------------ MODULE Bindings ------------------------------
(***************************************************************************)
(* A game that drives its sessions through the C API, or through the Godot *)
(* class, in any order of calls.                                           *)
(***************************************************************************)
EXTENDS CApi, GodotSession

VARIABLE api      \* which of the two the game uses

Init == BindingInit /\ api \in {"c", "godot"}

Next ==
  /\ UNCHANGED api
  /\ \/ api = "c" /\ CNext
     \/ api = "godot" /\ GodotNext

Spec == Init /\ [][Next]_<<vars, api>>

----------------------------------------------------------------------------
(* Properties *)

\* Every variable keeps its type.
TypeOK ==
  /\ sessions \in [Slots -> SessionType \cup {NoSession}]
  /\ \A h \in Slots :
       out[h] \in 0 .. (IF Live(h) THEN Len(sessions[h].file) ELSE 0)
  /\ disk \in [Slots -> Seq(FileEntry \cup {Hole})]
  /\ error \in [Owners -> BOOLEAN]

\* Across the boundary nothing the session gives away once is lost or doubled:
\* the hashes in the game's hands and those still pending are what was hashed,
\* and every tick the session will not name again has been named, whatever
\* calls were refused or failed between.
NothingLost ==
  \A h \in Slots : Live(h) =>
    /\ taken[h] \o sessions[h].pending = sessions[h].cumulative
    /\ told[h] = sessions[h].checked_ticks

\* The file of a live session holds what left its BufWriter and nothing
\* else, unless the session it replaced wrote into it (configure on a
\* running session, lib.rs:104): nothing of an earlier session stays behind.
FileIsOwn ==
  \A h \in Slots \ clobbered :
    Live(h) /\ sessions[h].recording =>
      disk[h] = SubSeq(sessions[h].file, 1, out[h])

\* Peers that a binding's cut to 16 bits merges still disagree: a tick is
\* comparable and contradicted for the session exactly when the game gave it
\* two different hashes.
CutIdsHideNothing ==
  \A h \in Slots : Live(h) =>
    \A t \in Ticks :
      Disagree(sessions[h].hashes_by_tick[t])
        <=> \E a, b \in given[h] : a.tick = t /\ b.tick = t /\ a.hash # b.hash
=============================================================================
