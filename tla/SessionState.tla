--------------------------- MODULE SessionState ---------------------------
(***************************************************************************)
(* The struct `Session` of foldback-core and its methods, as functions     *)
(* from a session to the session after the call.                           *)
(*                                                                         *)
(* A method that returns a Result writes one frame when the session has a  *)
(* writer, and that write may fail: its parameter `ok` says whether it     *)
(* succeeded, and the caller draws it from WriteOutcomes(s).  What a       *)
(* failed write left of its frame stays in the file, as a Remnant.         *)
(*                                                                         *)
(* Hashes are abstract values (xxh3 is taken as injective on the states a  *)
(* model tells apart); the running `cumulative` hash is the sequence of    *)
(* (tick, hash) pairs it was folded over, for the same reason.             *)
(***************************************************************************)
EXTENDS Naturals, Sequences

CONSTANTS
  Ticks,      \* the tick numbers a game hashes (u64 in the code)
  Peers,      \* peer ids
  Hashes,     \* hash values
  TypeNames   \* type names a reflective walker passes to record_schema

ASSUME TicksAssumption == Ticks \subseteq Nat

TickHash == [tick : Ticks, hash : Hashes]
PeerHash == [peer : Peers, hash : Hashes]

TickHashFrame(t, p, h) ==
  [type |-> "TickHash", tick |-> t, peer |-> p, hash |-> h]
DetailFrame(level) == [type |-> level]
MetadataFrame(name) == [type |-> "Metadata", name |-> name]
EndOfStream == [type |-> "EndOfStream"]

DetailLevels == {"EntityHash", "FieldHash"}

\* The frames a session writes (Snapshot frames have no writer in Session).
\* What an EntityHash or FieldHash says is read by no method: only its level
\* is kept, and of a Metadata frame its type name.
Frame ==
  [type : {"TickHash"}, tick : Ticks, peer : Peers, hash : Hashes]
    \cup [type : DetailLevels]
    \cup [type : {"Metadata"}, name : TypeNames]
    \cup {EndOfStream}

\* What Frame::write_to leaves when one of its three write_all calls fails:
\* the first bytes of the frame, or nothing.  The session goes on after it.
Remnant == [type |-> "Remnant"]
FileEntry == Frame \cup {Remnant}

SessionType ==
  [local_peer_id   : Peers,
   retention       : Nat,
   recording       : BOOLEAN,                \* writer.is_some()
   ring            : Seq(TickHash),
   pending         : Seq(TickHash),
   hashes_by_tick  : [Ticks -> Seq(PeerHash)],   \* <<>> for an absent key
   checked_ticks   : SUBSET Ticks,
   cumulative      : Seq(TickHash),
   written_schemas : SUBSET TypeNames,
   file            : Seq(FileEntry)]         \* what the writer was given

\* SessionBuilder::build.
Build(local, retention, recording) ==
  [local_peer_id   |-> local,
   retention       |-> retention,
   recording       |-> recording,
   ring            |-> << >>,
   pending         |-> << >>,
   hashes_by_tick  |-> [t \in Ticks |-> << >>],
   checked_ticks   |-> {},
   cumulative      |-> << >>,
   written_schemas |-> {},
   file            |-> << >>]

----------------------------------------------------------------------------
(* Helpers *)

\* Mutant: a full ring refuses the new item instead of dropping its oldest.
PushKeepsOldest(ring, capacity, item) ==
  IF Len(ring) < capacity THEN Append(ring, item) ELSE ring

\* RingBuffer::push: capacity 0 keeps nothing, a full ring drops its oldest.
Push(ring, capacity, item) ==
  IF capacity = 0 THEN ring
  ELSE Append(IF Len(ring) = capacity THEN Tail(ring) ELSE ring, item)

\* Mutants: the pair is built the wrong way round; a peer's second report of
\* a tick is dropped; only the first report of a tick is kept (or_insert).
AddReportSwapped(table, t, p, h) ==
  [table EXCEPT ![t] = Append(@, [peer |-> h, hash |-> p])]
AddReportOncePerPeer(table, t, p, h) ==
  IF \E i \in DOMAIN table[t] : table[t][i].peer = p THEN table
  ELSE [table EXCEPT ![t] = Append(@, [peer |-> p, hash |-> h])]
AddReportFirstOnly(table, t, p, h) ==
  IF table[t] # << >> THEN table
  ELSE [table EXCEPT ![t] = Append(@, [peer |-> p, hash |-> h])]

\* `hashes_by_tick.entry(tick).or_default().push((peer_id, hash))`
AddReport(table, t, p, h) ==
  [table EXCEPT ![t] = Append(@, [peer |-> p, hash |-> h])]

WriteOutcomes(s) == IF s.recording THEN BOOLEAN ELSE {TRUE}

\* `if let Some(w) = &mut self.writer { frame.write_to(w)?; }`
Written(s, frame, ok) ==
  IF s.recording THEN Append(s.file, IF ok THEN frame ELSE Remnant) ELSE s.file

----------------------------------------------------------------------------
(* Methods *)

\* record_peer_hash: the ring and the table take the report before the
\* fallible write, and keep it when that write fails.
RecordPeerHash(s, t, p, h, ok) ==
  [s EXCEPT !.ring = Push(@, s.retention, [tick |-> t, hash |-> h]),
            !.hashes_by_tick = AddReport(@, t, p, h),
            !.file = Written(s, TickHashFrame(t, p, h), ok)]

\* Mutants: the local report is sent and folded but not entered for
\* comparison; the fold leaves the hash out.
HashTickUncompared(s, t, h, ok) ==
  IF ok THEN [s EXCEPT !.pending = Append(@, [tick |-> t, hash |-> h]),
                       !.cumulative = Append(@, [tick |-> t, hash |-> h])]
  ELSE s
HashTickFoldsTick(s, t, h, ok) ==
  LET r == RecordPeerHash(s, t, s.local_peer_id, h, ok)
  IN  IF ok
      THEN [r EXCEPT !.pending = Append(@, [tick |-> t, hash |-> h]),
                     !.cumulative = Append(@, [tick |-> t])]
      ELSE r

\* hash_tick: `?` returns before pending and cumulative when the write fails.
HashTick(s, t, h, ok) ==
  LET r == RecordPeerHash(s, t, s.local_peer_id, h, ok)
  IN  IF ok
      THEN [r EXCEPT !.pending = Append(@, [tick |-> t, hash |-> h]),
                     !.cumulative = Append(@, [tick |-> t, hash |-> h])]
      ELSE r

\* record_peer_entity_hash, record_peer_field_hash (and hash_entity,
\* hash_field, which call them for the local peer): recording only.
RecordPeerDetail(s, level, ok) ==
  [s EXCEPT !.file = Written(s, DetailFrame(level), ok)]

\* Mutant: every call writes.
RecordSchemaAgain(s, name, ok) ==
  [s EXCEPT !.written_schemas = @ \cup {name},
            !.file = Written(s, MetadataFrame(name), ok)]

\* record_schema: the name is marked before the fallible write.
RecordSchema(s, name, ok) ==
  IF name \in s.written_schemas THEN s
  ELSE [s EXCEPT !.written_schemas = @ \cup {name},
                 !.file = Written(s, MetadataFrame(name), ok)]

\* What take_pending_hashes_up_to(max) returns, and the session after it;
\* take_pending_hashes is the case max = pending.len().
DrainCount(s, max) == IF Len(s.pending) <= max THEN Len(s.pending) ELSE max
Drained(s, max) == SubSeq(s.pending, 1, DrainCount(s, max))

\* Mutant: what does not fit the caller's buffer is dropped.
TakePendingHashesAll(s, max) == [s EXCEPT !.pending = << >>]

TakePendingHashesUpTo(s, max) ==
  [s EXCEPT !.pending = SubSeq(@, DrainCount(s, max) + 1, Len(@))]

\* Mutants: only the first two reports are compared; the hashes are not.
DisagreeFirstTwo(entries) ==
  Len(entries) >= 2 /\ entries[1].hash # entries[2].hash
DisagreeByCount(entries) == Len(entries) >= 2

\* One tick's reports disagree: the comparison of check_divergence and of
\* bisect::find_first_divergence, each entry against the first.
Disagree(entries) ==
  /\ Len(entries) >= 2
  /\ \E i \in DOMAIN entries : entries[i].hash # entries[1].hash

\* Mutant: the scan resumes after the last tick it flagged.
DivergentAfterLast(s) ==
  {t \in Ticks : /\ \A u \in s.checked_ticks : u < t
                 /\ Disagree(s.hashes_by_tick[t])}

\* The ticks check_divergence stops at, and the scan's answer: the least.
Divergent(s) == {t \in Ticks : t \notin s.checked_ticks
                                 /\ Disagree(s.hashes_by_tick[t])}
Earliest(ticks) == {t \in ticks : \A u \in ticks : t <= u}

Flag(s, t) == [s EXCEPT !.checked_ticks = @ \cup {t}]

\* finish_recording: the closing frame (what its flush does is in Recording).
FinishRecording(s, ok) == [s EXCEPT !.file = Written(s, EndOfStream, ok)]

\* foldback_rs::ggrs::record_desync: the second report is skipped when the
\* first one's write fails.
RecordDesync(s, t, local, remote, lh, rh, ok1, ok2) ==
  LET r == RecordPeerHash(s, t, local, lh, ok1)
  IN  IF ok1 THEN RecordPeerHash(r, t, remote, rh, ok2) ELSE r

----------------------------------------------------------------------------
(* bisect::find_first_divergence over the TickHash frames of a recording *)

FramesAt(file, t) ==
  {i \in DOMAIN file : file[i].type = "TickHash" /\ file[i].tick = t}

\* Mutant: only reports of different peers are compared.
FileDisagreesAcrossPeers(file, t) ==
  \E i, j \in FramesAt(file, t) :
    file[i].peer # file[j].peer /\ file[i].hash # file[j].hash

FileDisagrees(file, t) ==
  \E first, i \in FramesAt(file, t) :
    /\ \A j \in FramesAt(file, t) : first <= j
    /\ file[i].hash # file[first].hash

\* How far a reader finds the frames that were written: through the whole
\* file when its remnants are empty, and up to the first one that is not.  What
\* it finds from there on is Recording's subject (DamageIsErrOrPrefix).
Legible(file) ==
  {file} \cup {SubSeq(file, 1, i - 1) :
                  i \in {j \in DOMAIN file : file[j] = Remnant}}

FindFirstDivergence(file) == Earliest({t \in Ticks : FileDisagrees(file, t)})
============================================================================
