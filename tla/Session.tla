------------------------------ MODULE Session ------------------------------
(***************************************************************************)
(* One session and a game that calls it in any order: every method that    *)
(* changes its state is an action.  The game is free to hash a tick again  *)
(* (a rollback), to report for any peer, to call on after an error and to  *)
(* go on recording after finish_recording, as nothing in the code forbids  *)
(* it.                                                                     *)
(***************************************************************************)
EXTENDS SessionState, FiniteSets

CONSTANTS
  LocalPeer,    \* SessionBuilder::local_peer_id
  Retentions,   \* values given to SessionBuilder::retention
  None,         \* check_divergence's None
  Unasked,      \* no check since the last report
  MaxReports,   \* bound: reports made to the session
  MaxFrames     \* bound: frames in the recording

ASSUME SessionAssumption ==
  /\ LocalPeer \in Peers
  /\ Retentions \subseteq Nat
  /\ None \notin Ticks /\ Unasked \notin Ticks /\ None # Unasked
  /\ MaxReports \in Nat
  /\ MaxFrames \in Nat

VARIABLES
  session,      \* the Session
  answer,       \* what check_divergence returned last, since the last report
  taken,        \* history: everything take_pending_hashes* returned
  reports,      \* history: every report made, in order
  failed        \* history: some call returned an I/O error

vars == <<session, answer, taken, reports, failed>>

Report == [tick : Ticks, peer : Peers, hash : Hashes]

Init ==
  /\ \E retention \in Retentions, recording \in BOOLEAN :
       session = Build(LocalPeer, retention, recording)
  /\ answer = Unasked
  /\ taken = << >>
  /\ reports = << >>
  /\ failed = FALSE

RoomFor(frames) == Len(session.file) + frames <= MaxFrames

Reporting(new) ==
  /\ Len(reports) + Len(new) <= MaxReports
  /\ reports' = reports \o new
  /\ answer' = Unasked
  /\ UNCHANGED taken

DoHashTick ==
  \E t \in Ticks, h \in Hashes, ok \in WriteOutcomes(session) :
    /\ RoomFor(1)
    /\ session' = HashTick(session, t, h, ok)
    /\ Reporting(<<[tick |-> t, peer |-> LocalPeer, hash |-> h]>>)
    /\ failed' = (failed \/ ~ok)

DoRecordPeerHash ==
  \E t \in Ticks, p \in Peers, h \in Hashes, ok \in WriteOutcomes(session) :
    /\ RoomFor(1)
    /\ session' = RecordPeerHash(session, t, p, h, ok)
    /\ Reporting(<<[tick |-> t, peer |-> p, hash |-> h]>>)
    /\ failed' = (failed \/ ~ok)

\* What RecordDesync reports: nothing of the remote peer once its first
\* write has failed.
DesyncReports(t, remote, lh, rh, ok1) ==
  LET mine   == [tick |-> t, peer |-> LocalPeer, hash |-> lh]
      theirs == [tick |-> t, peer |-> remote, hash |-> rh]
  IN  IF ok1 THEN <<mine, theirs>> ELSE <<mine>>

\* A GGRS DesyncDetected event always carries two different checksums.
DoRecordDesync ==
  \E t \in Ticks, remote \in Peers \ {LocalPeer}, lh, rh \in Hashes,
     ok1, ok2 \in WriteOutcomes(session) :
    /\ lh # rh
    /\ RoomFor(2)
    /\ session' = RecordDesync(session, t, LocalPeer, remote, lh, rh, ok1, ok2)
    /\ Reporting(DesyncReports(t, remote, lh, rh, ok1))
    /\ failed' = (failed \/ ~ok1 \/ ~ok2)

DoRecordPeerDetail ==
  \E level \in DetailLevels, ok \in WriteOutcomes(session) :
    /\ RoomFor(1)
    /\ session' = RecordPeerDetail(session, level, ok)
    /\ failed' = (failed \/ ~ok)
    /\ UNCHANGED <<answer, taken, reports>>

DoRecordSchema ==
  \E name \in TypeNames, ok \in WriteOutcomes(session) :
    /\ RoomFor(1)
    /\ name \in session.written_schemas => ok     \* nothing is written
    /\ session' = RecordSchema(session, name, ok)
    /\ failed' = (failed \/ ~ok)
    /\ UNCHANGED <<answer, taken, reports>>

DoTakePendingHashesUpTo ==
  \E max \in 0 .. Len(session.pending) :
    /\ taken' = taken \o Drained(session, max)
    /\ session' = TakePendingHashesUpTo(session, max)
    /\ UNCHANGED <<answer, reports, failed>>

DoCheckDivergence ==
  /\ \/ \E t \in Earliest(Divergent(session)) :
          session' = Flag(session, t) /\ answer' = t
     \/ Divergent(session) = {} /\ answer' = None /\ UNCHANGED session
  /\ UNCHANGED <<taken, reports, failed>>

DoFinishRecording ==
  \E ok, flushed \in WriteOutcomes(session) :
    /\ RoomFor(1)
    /\ session' = FinishRecording(session, ok)
    /\ failed' = (failed \/ ~ok \/ ~flushed)
    /\ UNCHANGED <<answer, taken, reports>>

Next ==
  \/ DoHashTick
  \/ DoRecordPeerHash
  \/ DoRecordDesync
  \/ DoRecordPeerDetail
  \/ DoRecordSchema
  \/ DoTakePendingHashesUpTo
  \/ DoCheckDivergence
  \/ DoFinishRecording

Spec == Init /\ [][Next]_vars

----------------------------------------------------------------------------
(* Properties *)

\* Every variable keeps its type.
TypeOK ==
  /\ session \in SessionType
  /\ answer \in Ticks \cup {None, Unasked}
  /\ taken \in Seq(TickHash)
  /\ reports \in Seq(Report)
  /\ failed \in BOOLEAN

\* Every hash folded into finish() is handed to the netcode exactly once and
\* in the same order, however the game slices its bounded drains and whichever
\* calls failed: what was taken, then what still waits, is the folded sequence.
HandedOutOnce == taken \o session.pending = session.cumulative

\* A hash is never given to the peers that the session does not itself hold
\* as its own report: otherwise the peers could see a desync it cannot.
SentIsCompared ==
  \A i \in DOMAIN session.cumulative :
    LET sent == session.cumulative[i]
    IN  \E j \in DOMAIN session.hashes_by_tick[sent.tick] :
          session.hashes_by_tick[sent.tick][j]
            = [peer |-> LocalPeer, hash |-> sent.hash]

\* A divergence the command line finds in what is legible of the recording is
\* one the session has flagged or would flag, even when writes failed and even
\* when the game went on recording after finish_recording.  A recording with
\* half a frame in it is vouched for up to there and no further.
OfflineIsSound ==
  \A part \in Legible(session.file) :
    \A t \in FindFirstDivergence(part) : Disagree(session.hashes_by_tick[t])

\* Without an I/O error the recording and the live session name the same
\* first divergence, whatever order the reports came in.
OfflineMatchesLive ==
  session.recording /\ ~failed =>
    FindFirstDivergence(session.file)
      = Earliest({t \in Ticks : Disagree(session.hashes_by_tick[t])})

\* Where no tick is reported twice, the ring holds the newest ticks, exactly as
\* many as fit, at a capacity of none too: the window in ticks the builder
\* documents.  (It counts reports: where each of P peers reports a tick, it is
\* P times shorter.)
RetainsNewest ==
  LET kept == IF Len(reports) <= session.retention
              THEN Len(reports) ELSE session.retention
      skip == Len(reports) - kept
  IN  (\A i, j \in DOMAIN reports : reports[i].tick = reports[j].tick => i = j) =>
        session.ring =
          [i \in 1 .. kept |-> [tick |-> reports[skip + i].tick,
                                hash |-> reports[skip + i].hash]]

\* extract_schemas relies on it ("a session only ever writes one per type"):
\* of a type at most one Metadata frame was written, and it was unless a write
\* failed.
SchemaWrittenOnce ==
  \A name \in TypeNames :
    LET at == {i \in DOMAIN session.file :
                 session.file[i] = MetadataFrame(name)}
    IN  /\ \A i, j \in at : i = j
        /\ session.recording /\ ~failed =>
             (name \in session.written_schemas <=> at # {})

\* check_divergence's documentation: a tick is flagged where two or more
\* reporting peers disagree, and a tick with fewer than two peers reported is
\* not comparable.  The code counts reports, not peers.
FlagsOnlyPeerDisagreement ==
  \A t \in session.checked_ticks :
    \E i, j \in DOMAIN session.hashes_by_tick[t] :
      LET a == session.hashes_by_tick[t][i]
          b == session.hashes_by_tick[t][j]
      IN  a.peer # b.peer /\ a.hash # b.hash

\* The session is a DivergenceDetector: the order in which reports arrived,
\* repeated reports, drains and failing writes do not show in its answers.
ReportedSet ==
  {r \in Ticks \X Peers \X Hashes :
     \E i \in DOMAIN session.hashes_by_tick[r[1]] :
       session.hashes_by_tick[r[1]][i] = [peer |-> r[2], hash |-> r[3]]}

Detector == INSTANCE DivergenceDetector
              WITH reported <- ReportedSet,
                   announced <- session.checked_ticks

ImplementsDetector == Detector!Spec
============================================================================
