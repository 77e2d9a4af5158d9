---------------------------- MODULE GodotSession ----------------------------
(***************************************************************************)
(* The Godot class FoldbackSession (foldback-godot): one object, slot 1    *)
(* and owner 1. Every configuration that records names the same path.      *)
(***************************************************************************)
EXTENDS BindingState

\* with_session: the status of a method, and last_error.
with_session(ok) == error' = [error EXCEPT ![1] = ~ok]

\* `inner` is None: NotConfigured.
NotConfigured ==
  /\ ~ Live(1)
  /\ with_session(FALSE)
  /\ UNCHANGED <<sessions, out, disk, histories, calls>>

Unreported == UNCHANGED error

\* configure: the new session is built, and its file created, before the
\* assignment to `inner` drops the old one, which flushes what it buffered.
\* A failure (a missing key, an unwritable path) leaves the old session.
configure ==
  \/ /\ with_session(FALSE)
     /\ UNCHANGED <<sessions, out, disk, histories, calls>>
  \/ /\ with_session(TRUE)
     /\ \E retention \in {0, 1}, recording \in BOOLEAN,
           left \in {<< >>} \cup (IF Live(1) THEN {Buffered(1)} ELSE {}) :
          Builds(1, IF retention > 0 THEN retention ELSE DefaultRetention,
                 recording, left)
     /\ UNCHANGED calls

hash_tick ==
  \/ NotConfigured
  \/ Live(1) /\ \E r \in HashTicks(1) : Does(1, r) /\ with_session(r.ok)

\* The peer id is an int of 64 bits, cut to 16.
record_peer_hash ==
  \/ NotConfigured
  \/ Live(1) /\ \E r \in PeerHashes(1, GamePeers) : Does(1, r) /\ with_session(r.ok)

\* hash_entity, record_peer_entity_hash
entity ==
  \/ NotConfigured
  \/ Live(1) /\ \E r \in Details(1, "EntityHash") : Does(1, r) /\ with_session(r.ok)

\* hash_field, record_peer_field_hash
field ==
  \/ NotConfigured
  \/ Live(1) /\ \E r \in Details(1, "FieldHash") : Does(1, r) /\ with_session(r.ok)

\* hash_reflected: the type's schema, then the leaves, until a write or the
\* walk fails (Reflection says which leaves).
hash_reflected ==
  \/ NotConfigured
  \/ /\ Live(1)
     /\ \E schema \in Schemas(1), leaves \in 0 .. 1,
           wrote \in WriteOutcomes(sessions[1]), walked \in BOOLEAN :
          LET after == IF schema.ok /\ leaves = 1
                       THEN RecordPeerDetail(schema.session, "FieldHash", wrote)
                       ELSE schema.session
              ok == schema.ok /\ walked /\ (leaves = 1 => wrote)
          IN  /\ Does(1, Quiet(after, ok))
              /\ with_session(ok)

\* take_pending_hashes: a negative `max` takes nothing.
take_pending_hashes ==
  /\ Live(1)
  /\ \E max \in 0 .. Len(sessions[1].pending) : Takes(1, max)
  /\ Unreported

check_divergence == Live(1) /\ Checks(1) /\ Unreported

finish_recording ==
  \/ NotConfigured
  \/ Live(1) /\ \E ok, flushed \in WriteOutcomes(sessions[1]) :
                  Finishes(1, ok, flushed) /\ with_session(ok /\ flushed)

GodotNext ==
  \/ configure
  \/ hash_tick \/ record_peer_hash \/ entity \/ field \/ hash_reflected
  \/ take_pending_hashes \/ check_divergence \/ finish_recording
=============================================================================
