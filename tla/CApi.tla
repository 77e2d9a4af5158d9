-------------------------------- MODULE CApi --------------------------------
(***************************************************************************)
(* The C API (foldback-sys). Any thread may pass any handle, one call at a *)
(* time; a caller's mistake that the API detects (a null handle or         *)
(* pointer, a string that is not UTF-8) is refused before the session is   *)
(* touched.                                                                *)
(***************************************************************************)
EXTENDS BindingState

\* run_catching: an error sets the thread's message, a success clears it. (A
\* panic does as an error; none is modelled.)
run_catching(thread, ok) == error' = [error EXCEPT ![thread] = ~ok]

\* as_session_mut, str_from_raw and bytes_from_raw, and the null checks of
\* the out parameters.
Refused(thread) ==
  /\ run_catching(thread, FALSE)
  /\ UNCHANGED <<sessions, out, disk, histories, calls>>

\* foldback_session_create. A retention of 0 asks for the default.
foldback_session_create(thread, h) ==
  /\ ~ Live(h)
  /\ \/ Refused(thread)      \* or the file cannot be created
     \/ /\ \E retention \in {0, 1}, recording \in BOOLEAN :
             Builds(h, IF retention = 0 THEN DefaultRetention ELSE retention,
                    recording, << >>)
        /\ run_catching(thread, TRUE)
        /\ UNCHANGED calls

\* foldback_session_destroy: the drop of the BufWriter flushes it and ignores
\* an error. It runs outside run_catching.
foldback_session_destroy(h) ==
  /\ Live(h)
  /\ sessions' = [sessions EXCEPT ![h] = NoSession]
  /\ \/ disk' = [disk EXCEPT ![h] = Overlay(@, out[h], Buffered(h))]
     \/ sessions[h].recording /\ UNCHANGED disk
  /\ out' = [out EXCEPT ![h] = 0]
  /\ UNCHANGED <<error, histories, calls>>

foldback_hash_tick(thread, h) ==
  \/ Refused(thread)
  \/ Live(h) /\ \E r \in HashTicks(h) : Does(h, r) /\ run_catching(thread, r.ok)

\* A C caller's peer id is a uint16_t.
foldback_record_peer_hash(thread, h) ==
  \/ Refused(thread)
  \/ Live(h) /\ \E r \in PeerHashes(h, GamePeers \cap Peers) :
                  Does(h, r) /\ run_catching(thread, r.ok)

\* foldback_hash_entity, foldback_record_peer_entity_hash
foldback_entity(thread, h) ==
  \/ Refused(thread)
  \/ Live(h) /\ \E r \in Details(h, "EntityHash") :
                  Does(h, r) /\ run_catching(thread, r.ok)

\* foldback_hash_field, foldback_record_peer_field_hash
foldback_field(thread, h) ==
  \/ Refused(thread)
  \/ Live(h) /\ \E r \in Details(h, "FieldHash") :
                  Does(h, r) /\ run_catching(thread, r.ok)

foldback_record_schema(thread, h) ==
  \/ Refused(thread)
  \/ Live(h) /\ \E r \in Schemas(h) : Does(h, r) /\ run_catching(thread, r.ok)

\* Mutant: the hashes are drained before `out` is checked.
take_pending_hashes_unchecked(thread, h) ==
  \/ Live(h) /\ \E max \in 0 .. Len(sessions[h].pending) :
       Takes(h, max) /\ run_catching(thread, TRUE)
  \/ /\ Live(h)
     /\ sessions' = [sessions EXCEPT ![h] = TakePendingHashesUpTo(@, 1)]
     /\ run_catching(thread, FALSE)
     /\ UNCHANGED <<out, disk, histories, calls>>

foldback_take_pending_hashes(thread, h) ==
  \/ Refused(thread)
  \/ Live(h) /\ \E max \in 0 .. Len(sessions[h].pending) :
                  Takes(h, max) /\ run_catching(thread, TRUE)

foldback_check_divergence(thread, h) ==
  \/ Refused(thread)
  \/ Live(h) /\ Checks(h) /\ run_catching(thread, TRUE)

foldback_finish_recording(thread, h) ==
  \/ Refused(thread)
  \/ Live(h) /\ \E ok, flushed \in WriteOutcomes(sessions[h]) :
                  Finishes(h, ok, flushed) /\ run_catching(thread, ok /\ flushed)

\* A call that only reads: the message is set or cleared all the same.
Getter(thread, h) ==
  \/ Refused(thread)
  \/ /\ Live(h)
     /\ run_catching(thread, TRUE)
     /\ UNCHANGED <<sessions, out, disk, histories, calls>>

foldback_pending_hash_count(thread, h) == Getter(thread, h)
foldback_finish(thread, h) == Getter(thread, h)
foldback_tick_rate_hz(thread, h) == Getter(thread, h)    \* and foldback_peer_count

CNext ==
  \E h \in Slots :
    \/ foldback_session_destroy(h)
    \/ \E thread \in Owners :
         \/ foldback_session_create(thread, h)
         \/ foldback_hash_tick(thread, h)
         \/ foldback_record_peer_hash(thread, h)
         \/ foldback_entity(thread, h)
         \/ foldback_field(thread, h)
         \/ foldback_record_schema(thread, h)
         \/ foldback_take_pending_hashes(thread, h)
         \/ foldback_check_divergence(thread, h)
         \/ foldback_finish_recording(thread, h)
         \/ foldback_pending_hash_count(thread, h)
         \/ foldback_finish(thread, h)
         \/ foldback_tick_rate_hz(thread, h)
=============================================================================
