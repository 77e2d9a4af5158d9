---------------------------- MODULE BindingState ----------------------------
(***************************************************************************)
(* What the C API and the Godot class have in common: sessions behind      *)
(* handles, each recording to the file of its slot's path, and an error    *)
(* message that outlives the call.                                         *)
(*                                                                         *)
(* A session's BufWriter writes at its own offset of the file it created.  *)
(* The file is a sequence of frames and remnants, the header left out and  *)
(* all taken to be equally long; what no write covers is a Hole.           *)
(***************************************************************************)
EXTENDS SessionState

CONSTANTS
  Slots,              \* handles a C caller keeps; the Godot object is slot 1
  Owners,             \* C threads; the Godot object is owner 1
  LocalPeer,
  DefaultRetention,   \* SessionBuilder::default's
  PeerIdRange,        \* 2^16: a peer id is a u16
  GamePeers,          \* the ids the game gives its peers
  NoSession,          \* a null handle; `inner: None`
  MaxCalls            \* bound: calls that reach a session

ASSUME BindingAssumption ==
  /\ 1 \in Slots /\ 1 \in Owners
  /\ PeerIdRange \in Nat \ {0}
  /\ Peers = 0 .. PeerIdRange - 1
  /\ LocalPeer \in Peers
  /\ GamePeers \subseteq Nat
  /\ NoSession \notin SessionType
  /\ DefaultRetention \in Nat \ {0}
  /\ MaxCalls \in Nat

VARIABLES
  sessions,   \* the session behind each slot
  out,        \* how many of its frames have left its BufWriter
  disk,       \* the file at each slot's path
  error,      \* owner has a message: LAST_ERROR of a thread, last_error
  taken,      \* history: hashes handed to the game, of each slot's session
  told,       \* history: divergences told to the game
  given,      \* history: [tick, peer, hash] the game gave, with its own ids
  clobbered,  \* history: slots whose file a replaced session wrote into
  calls       \* counter for the bound

histories == <<taken, told, given, clobbered>>
vars == <<sessions, out, disk, error, histories, calls>>

Hole == [type |-> "hole"]
Live(h) == sessions[h] # NoSession
Buffered(h) == SubSeq(sessions[h].file, out[h] + 1, Len(sessions[h].file))

\* Mutant: the id is kept whole.
AsPeerIdWhole(p) == p

\* `peer_id as u16`
AsPeerId(p) == p % PeerIdRange

\* The file after `frames` were written at offset `at`.
Overlay(file, at, frames) ==
  LET end == at + Len(frames)
      len == IF Len(file) > end THEN Len(file) ELSE end
  IN  IF frames = << >> THEN file
      ELSE [i \in 1 .. len |->
              IF i > at /\ i <= end THEN frames[i - at]
              ELSE IF i <= Len(file) THEN file[i] ELSE Hole]

\* Mutant: an existing file is opened as it is.
OpenedUntruncated(file, recording) == file

\* `File::create(path)` when the session records.
Opened(file, recording) == IF recording THEN << >> ELSE file

BindingInit ==
  /\ sessions = [h \in Slots |-> NoSession]
  /\ out = [h \in Slots |-> 0] /\ disk = [h \in Slots |-> << >>]
  /\ error = [o \in Owners |-> FALSE]
  /\ taken = [h \in Slots |-> << >>] /\ told = [h \in Slots |-> {}]
  /\ given = [h \in Slots |-> {}] /\ clobbered = {}
  /\ calls = 0

----------------------------------------------------------------------------
(* What a call to a session method can come to: the session after it,      *)
(* whether it returned Ok, and what the game reported by it.               *)

Result(s, ok, reports) == [session |-> s, ok |-> ok, reports |-> reports]
Quiet(s, ok) == Result(s, ok, {})

HashTicks(h) ==
  {Result(HashTick(sessions[h], t, x, ok), ok,
          {[tick |-> t, peer |-> LocalPeer, hash |-> x]}) :
     t \in Ticks, x \in Hashes, ok \in WriteOutcomes(sessions[h])}

PeerHashes(h, ids) ==
  {Result(RecordPeerHash(sessions[h], t, AsPeerId(p), x, ok), ok,
          {[tick |-> t, peer |-> p, hash |-> x]}) :
     t \in Ticks, p \in ids, x \in Hashes, ok \in WriteOutcomes(sessions[h])}

Details(h, level) ==
  {Quiet(RecordPeerDetail(sessions[h], level, ok), ok) :
     ok \in WriteOutcomes(sessions[h])}

Schemas(h) ==
  {Quiet(RecordSchema(sessions[h], name, ok), ok) :
     name \in TypeNames, ok \in WriteOutcomes(sessions[h])}

\* The call is made. A frame it wrote may have pushed the frames before it
\* out of a full BufWriter.
Does(h, r) ==
  /\ calls < MaxCalls /\ calls' = calls + 1
  /\ sessions' = [sessions EXCEPT ![h] = r.session]
  /\ given' = [given EXCEPT ![h] = @ \cup r.reports]
  /\ \/ UNCHANGED <<out, disk>>
     \/ /\ r.session.file # sessions[h].file
        /\ disk' = [disk EXCEPT ![h] = Overlay(@, out[h], Buffered(h))]
        /\ out' = [out EXCEPT ![h] = Len(sessions[h].file)]
  /\ UNCHANGED <<taken, told, clobbered>>

\* finish_recording: the closing frame, then the flush.
Finishes(h, ok, flushed) ==
  /\ calls < MaxCalls /\ calls' = calls + 1
  /\ LET s == FinishRecording(sessions[h], ok)
     IN  /\ sessions' = [sessions EXCEPT ![h] = s]
         /\ IF ok /\ flushed
            THEN /\ disk' = [disk EXCEPT ![h] = Overlay(@, out[h],
                               SubSeq(s.file, out[h] + 1, Len(s.file)))]
                 /\ out' = [out EXCEPT ![h] = Len(s.file)]
            ELSE UNCHANGED <<out, disk>>
  /\ UNCHANGED histories

\* take_pending_hashes_up_to(max), its result in the game's hands.
Takes(h, max) ==
  /\ taken' = [taken EXCEPT ![h] = @ \o Drained(sessions[h], max)]
  /\ sessions' = [sessions EXCEPT ![h] = TakePendingHashesUpTo(@, max)]
  /\ UNCHANGED <<out, disk, told, given, clobbered, calls>>

\* check_divergence, its result in the game's hands.
Checks(h) ==
  LET found == Earliest(Divergent(sessions[h]))
  IN  /\ sessions' = [sessions EXCEPT ![h] =
                        IF found = {} THEN @ ELSE Flag(@, CHOOSE t \in found : TRUE)]
      /\ told' = [told EXCEPT ![h] = @ \cup found]
      /\ UNCHANGED <<out, disk, taken, given, clobbered, calls>>

\* A session is built for slot h; `left` is what the dropping of the slot's
\* former session then writes, at that session's offset.
Builds(h, retention, recording, left) ==
  /\ sessions' = [sessions EXCEPT ![h] = Build(LocalPeer, retention, recording)]
  /\ disk' = [disk EXCEPT ![h] = Overlay(Opened(@, recording), out[h], left)]
  /\ out' = [out EXCEPT ![h] = 0]
  /\ taken' = [taken EXCEPT ![h] = << >>] /\ told' = [told EXCEPT ![h] = {}]
  /\ given' = [given EXCEPT ![h] = {}]
  /\ clobbered' = IF recording /\ left # << >> THEN clobbered \cup {h}
                  ELSE clobbered \ {h}
=============================================================================
