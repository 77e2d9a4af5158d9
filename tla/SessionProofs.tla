--------------------------- MODULE SessionProofs ---------------------------
(***************************************************************************)
(* Theorems about one session: they hold for every set of ticks, peers,    *)
(* hashes and type names, every retention, with or without a recording,    *)
(* whichever writes fail, and for every bound on the calls.                *)
(***************************************************************************)
EXTENDS Session, SessionLemmas

----------------------------------------------------------------------------
(* Types *)

LEMMA OutcomesAreBoolean ==
  ASSUME NEW s
  PROVE  WriteOutcomes(s) \subseteq BOOLEAN
BY DEF WriteOutcomes

LEMMA RecordDesyncType ==
  ASSUME NEW s \in SessionType, NEW t \in Ticks, NEW local \in Peers,
         NEW remote \in Peers, NEW lh \in Hashes, NEW rh \in Hashes,
         NEW ok1 \in BOOLEAN, NEW ok2 \in BOOLEAN
  PROVE  RecordDesync(s, t, local, remote, lh, rh, ok1, ok2) \in SessionType
<1> DEFINE r == RecordPeerHash(s, t, local, lh, ok1)
<1>1. r \in SessionType
  BY RecordPeerHashEffect
<1> HIDE DEF r
<1>2. RecordPeerHash(r, t, remote, rh, ok2) \in SessionType
  BY <1>1, RecordPeerHashEffect
<1>3. QED
  BY <1>1, <1>2 DEF RecordDesync, r

\* What a step does to the history of reports.
LEMMA ReportingType ==
  ASSUME reports \in Seq(Report), NEW new \in Seq(Report), Reporting(new)
  PROVE  reports' \in Seq(Report) /\ answer' = Unasked /\ taken' = taken
BY DEF Reporting

LEMMA DesyncReportsType ==
  ASSUME NEW t \in Ticks, NEW remote \in Peers, NEW lh \in Hashes,
         NEW rh \in Hashes, NEW ok1 \in BOOLEAN
  PROVE  DesyncReports(t, remote, lh, rh, ok1) \in Seq(Report)
<1> DEFINE mine   == [tick |-> t, peer |-> LocalPeer, hash |-> lh]
           theirs == [tick |-> t, peer |-> remote, hash |-> rh]
<1>1. mine \in Report /\ theirs \in Report
  BY SessionAssumption DEF Report
<1>2. DesyncReports(t, remote, lh, rh, ok1)
        = IF ok1 THEN <<mine, theirs>> ELSE <<mine>>
  BY DEF DesyncReports
<1> HIDE DEF mine, theirs
<1>3. <<mine, theirs>> \in Seq(Report) /\ <<mine>> \in Seq(Report)
  BY <1>1
<1>4. QED
  BY <1>2, <1>3

LEMMA InitType == Init => TypeOK
<1> SUFFICES ASSUME Init PROVE TypeOK
  OBVIOUS
<1>1. session \in SessionType
  BY BuildType, SessionAssumption DEF Init
<1>2. /\ answer = Unasked /\ taken = << >> /\ reports = << >> /\ failed = FALSE
  BY DEF Init
<1>3. << >> \in Seq(TickHash) /\ << >> \in Seq(Report)
  OBVIOUS
<1>4. QED
  BY <1>1, <1>2, <1>3 DEF TypeOK

LEMMA StepType == TypeOK /\ [Next]_vars => TypeOK'
<1> SUFFICES ASSUME TypeOK, [Next]_vars PROVE TypeOK'
  OBVIOUS
<1> USE DEF TypeOK
<1>1. CASE DoHashTick
  <2>1. PICK t \in Ticks, h \in Hashes, ok \in WriteOutcomes(session) :
          /\ session' = HashTick(session, t, h, ok)
          /\ Reporting(<<[tick |-> t, peer |-> LocalPeer, hash |-> h]>>)
          /\ failed' = (failed \/ ~ok)
    BY <1>1 DEF DoHashTick
  <2>2. ok \in BOOLEAN
    BY OutcomesAreBoolean
  <2>3. session' \in SessionType
    BY <2>1, <2>2, HashTickEffect
  <2>4. <<[tick |-> t, peer |-> LocalPeer, hash |-> h]>> \in Seq(Report)
    BY SessionAssumption DEF Report
  <2>5. reports' \in Seq(Report) /\ answer' = Unasked /\ taken' = taken
    BY <2>1, <2>4, ReportingType
  <2>6. QED
    BY <2>1, <2>2, <2>3, <2>5
<1>2. CASE DoRecordPeerHash
  <2>1. PICK t \in Ticks, p \in Peers, h \in Hashes,
             ok \in WriteOutcomes(session) :
          /\ session' = RecordPeerHash(session, t, p, h, ok)
          /\ Reporting(<<[tick |-> t, peer |-> p, hash |-> h]>>)
          /\ failed' = (failed \/ ~ok)
    BY <1>2 DEF DoRecordPeerHash
  <2>2. ok \in BOOLEAN
    BY OutcomesAreBoolean
  <2>3. session' \in SessionType
    BY <2>1, <2>2, RecordPeerHashEffect
  <2>4. <<[tick |-> t, peer |-> p, hash |-> h]>> \in Seq(Report)
    BY SessionAssumption DEF Report
  <2>5. reports' \in Seq(Report) /\ answer' = Unasked /\ taken' = taken
    BY <2>1, <2>4, ReportingType
  <2>6. QED
    BY <2>1, <2>2, <2>3, <2>5
<1>3. CASE DoRecordDesync
  <2>1. PICK t \in Ticks, remote \in Peers \ {LocalPeer}, lh \in Hashes,
             rh \in Hashes, ok1 \in WriteOutcomes(session),
             ok2 \in WriteOutcomes(session) :
          /\ session' = RecordDesync(session, t, LocalPeer, remote,
                                     lh, rh, ok1, ok2)
          /\ Reporting(DesyncReports(t, remote, lh, rh, ok1))
          /\ failed' = (failed \/ ~ok1 \/ ~ok2)
    BY <1>3 DEF DoRecordDesync
  <2>2. ok1 \in BOOLEAN /\ ok2 \in BOOLEAN
    BY OutcomesAreBoolean
  <2>3. session' \in SessionType
    BY <2>1, <2>2, RecordDesyncType, SessionAssumption
  <2>4. DesyncReports(t, remote, lh, rh, ok1) \in Seq(Report)
    BY <2>2, DesyncReportsType
  <2>5. reports' \in Seq(Report) /\ answer' = Unasked /\ taken' = taken
    BY <2>1, <2>4, ReportingType
  <2>6. QED
    BY <2>1, <2>2, <2>3, <2>5
<1>4. CASE DoRecordPeerDetail
  <2>1. PICK level \in DetailLevels, ok \in WriteOutcomes(session) :
          /\ session' = RecordPeerDetail(session, level, ok)
          /\ failed' = (failed \/ ~ok)
          /\ UNCHANGED <<answer, taken, reports>>
    BY <1>4 DEF DoRecordPeerDetail
  <2>2. ok \in BOOLEAN
    BY OutcomesAreBoolean
  <2>3. session' \in SessionType
    BY <2>1, <2>2, RecordPeerDetailEffect
  <2>4. QED
    BY <2>1, <2>2, <2>3
<1>5. CASE DoRecordSchema
  <2>1. PICK name \in TypeNames, ok \in WriteOutcomes(session) :
          /\ session' = RecordSchema(session, name, ok)
          /\ failed' = (failed \/ ~ok)
          /\ UNCHANGED <<answer, taken, reports>>
    BY <1>5 DEF DoRecordSchema
  <2>2. ok \in BOOLEAN
    BY OutcomesAreBoolean
  <2>3. session' \in SessionType
    BY <2>1, <2>2, RecordSchemaEffect
  <2>4. QED
    BY <2>1, <2>2, <2>3
<1>6. CASE DoTakePendingHashesUpTo
  <2>1. PICK max \in 0 .. Len(session.pending) :
          /\ taken' = taken \o Drained(session, max)
          /\ session' = TakePendingHashesUpTo(session, max)
          /\ UNCHANGED <<answer, reports, failed>>
    BY <1>6 DEF DoTakePendingHashesUpTo
  <2>2. max \in Nat
    BY DEF SessionType
  <2>3. session' \in SessionType /\ Drained(session, max) \in Seq(TickHash)
    BY <2>1, <2>2, TakePendingEffect
  <2>4. QED
    BY <2>1, <2>3
<1>7. CASE DoCheckDivergence
  <2>1. CASE \E t \in Earliest(Divergent(session)) :
               session' = Flag(session, t) /\ answer' = t
    <3>1. PICK t \in Ticks : session' = Flag(session, t) /\ answer' = t
      BY <2>1 DEF Earliest, Divergent
    <3>2. session' \in SessionType
      BY <3>1, FlagEffect
    <3>3. QED
      BY <1>7, <3>1, <3>2 DEF DoCheckDivergence
  <2>2. CASE answer' = None /\ UNCHANGED session
    BY <1>7, <2>2 DEF DoCheckDivergence
  <2>3. QED
    BY <1>7, <2>1, <2>2 DEF DoCheckDivergence
<1>8. CASE DoFinishRecording
  <2>1. PICK ok, flushed \in WriteOutcomes(session) :
          /\ session' = FinishRecording(session, ok)
          /\ failed' = (failed \/ ~ok \/ ~flushed)
          /\ UNCHANGED <<answer, taken, reports>>
    BY <1>8 DEF DoFinishRecording
  <2>2. ok \in BOOLEAN
    BY OutcomesAreBoolean
  <2>3. session' \in SessionType
    BY <2>1, <2>2, FinishRecordingEffect
  <2>4. QED
    BY <2>1, <2>2, <2>3
<1>9. CASE UNCHANGED vars
  BY <1>9 DEF vars
<1>10. QED
  BY <1>1, <1>2, <1>3, <1>4, <1>5, <1>6, <1>7, <1>8, <1>9 DEF Next

\* Every variable keeps its type.
THEOREM TypeCorrect == Spec => []TypeOK
BY InitType, StepType, PTL DEF Spec

----------------------------------------------------------------------------
(* The inductive invariant *)

IInv ==
  /\ TypeOK
  /\ session.local_peer_id = LocalPeer
  /\ HandedOutOnce
  /\ FoldedInTable(session)
  /\ FileInTable(session)
  /\ session.recording /\ ~failed => TableInFile(session)

\* A step keeps IInv if what it does to the session keeps every part.
LEMMA KeepsIInv ==
  ASSUME IInv, TypeOK',
         Same(session', session, Options),
         HandedOutOnce',
         FoldedInTable(session) => FoldedInTable(session'),
         FileInTable(session) => FileInTable(session'),
         session.recording /\ ~failed' => ~failed,
         TableInFile(session) /\ session.recording /\ ~failed'
           => TableInFile(session')
  PROVE  IInv'
<1>1. session'.local_peer_id = session.local_peer_id
      /\ session'.recording = session.recording
  BY DEF Same, Options
<1>2. QED
  BY <1>1 DEF IInv

\* Methods that add no report and fold nothing.
LEMMA QuietStep ==
  ASSUME IInv, TypeOK', Same(session', session, Options),
         SameTable(session', session), SameFile(session', session),
         session'.cumulative = session.cumulative,
         HandedOutOnce', session.recording /\ ~failed' => ~failed
  PROVE  IInv'
<1>1. session \in SessionType /\ session'.local_peer_id = session.local_peer_id
  BY DEF IInv, TypeOK, Same, Options
<1>2. QED
  BY <1>1, OtherKeeps, KeepsIInv

LEMMA InitIInv == Init => IInv
<1> SUFFICES ASSUME Init PROVE IInv
  OBVIOUS
<1>1. PICK retention \in Retentions, recording \in BOOLEAN :
        session = Build(LocalPeer, retention, recording)
  BY DEF Init
<1>2. /\ session.local_peer_id = LocalPeer /\ session.file = << >>
      /\ session.pending = << >> /\ session.cumulative = << >>
      /\ session.hashes_by_tick = [t \in Ticks |-> << >>]
  BY <1>1 DEF Build
<1>3. \A x : ~ Occurs(x, << >>)
  BY DEF Occurs
<1>4. HandedOutOnce
  BY <1>2 DEF Init, HandedOutOnce
<1>5. FoldedInTable(session) /\ FileInTable(session) /\ TableInFile(session)
  BY <1>2, <1>3 DEF FoldedInTable, FileInTable, TableInFile, InTable, InFile
<1>6. QED
  BY <1>2, <1>4, <1>5, InitType DEF IInv

LEMMA StepIInv == IInv /\ [Next]_vars => IInv'
<1> SUFFICES ASSUME IInv, [Next]_vars PROVE IInv'
  OBVIOUS
<1>1. /\ TypeOK' /\ session \in SessionType /\ session' \in SessionType
      /\ taken \in Seq(TickHash) /\ failed \in BOOLEAN
  BY StepType DEF IInv, TypeOK
<1>2. CASE DoHashTick
  <2>1. PICK t \in Ticks, h \in Hashes, ok \in WriteOutcomes(session) :
          /\ session' = HashTick(session, t, h, ok)
          /\ taken' = taken
          /\ failed' = (failed \/ ~ok)
    BY <1>2 DEF DoHashTick, Reporting
  <2>2. ok \in BOOLEAN
    BY OutcomesAreBoolean
  <2> DEFINE item == [tick |-> t, hash |-> h]
  <2>3. /\ Same(session', session, Options \cup {"checked_ticks", "written_schemas"})
        /\ session'.pending = IF ok THEN Append(session.pending, item)
                              ELSE session.pending
        /\ session'.cumulative = IF ok THEN Append(session.cumulative, item)
                                 ELSE session.cumulative
    BY <1>1, <2>1, <2>2, HashTickEffect
  <2>4. Same(session', session, Options)
    BY <2>3 DEF Same, Options
  <2>5. HandedOutOnce'
    <3>1. /\ item \in TickHash /\ session.pending \in Seq(TickHash)
          /\ taken \o session.pending = session.cumulative
      BY <1>1 DEF TickHash, SessionType, IInv, HandedOutOnce
    <3> DEFINE waiting == session.pending
    <3>2. waiting \in Seq(TickHash)
      BY <3>1
    <3> HIDE DEF item, waiting
    <3>3. taken \o Append(waiting, item) = Append(taken \o waiting, item)
      BY <1>1, <3>1, <3>2, ConcatAppend
    <3>4. QED
      BY <2>1, <2>3, <3>1, <3>3 DEF HandedOutOnce, waiting
  <2>6. /\ FileInTable(session) => FileInTable(session')
        /\ TableInFile(session) /\ session.recording /\ ok => TableInFile(session')
        /\ FoldedInTable(session) => FoldedInTable(session')
    BY <1>1, <2>1, <2>2, HashTickKeeps
  <2>7. QED
    BY <1>1, <2>1, <2>2, <2>4, <2>5, <2>6, KeepsIInv
<1>3. CASE DoRecordPeerHash
  <2>1. PICK t \in Ticks, p \in Peers, h \in Hashes,
             ok \in WriteOutcomes(session) :
          /\ session' = RecordPeerHash(session, t, p, h, ok)
          /\ taken' = taken
          /\ failed' = (failed \/ ~ok)
    BY <1>3 DEF DoRecordPeerHash, Reporting
  <2>2. ok \in BOOLEAN
    BY OutcomesAreBoolean
  <2>3. Same(session', session, Options \cup {"pending", "checked_ticks",
                                              "cumulative", "written_schemas"})
    BY <1>1, <2>1, <2>2, RecordPeerHashEffect
  <2>4. Same(session', session, Options) /\ HandedOutOnce'
    BY <2>1, <2>3 DEF Same, Options, HandedOutOnce, IInv
  <2>5. /\ FileInTable(session) => FileInTable(session')
        /\ TableInFile(session) /\ session.recording /\ ok => TableInFile(session')
        /\ FoldedInTable(session) => FoldedInTable(session')
    BY <1>1, <2>1, <2>2, RecordPeerHashKeeps
  <2>6. QED
    BY <1>1, <2>1, <2>2, <2>4, <2>5, KeepsIInv
<1>4. CASE DoRecordDesync
  <2>1. PICK t \in Ticks, remote \in Peers \ {LocalPeer}, lh \in Hashes,
             rh \in Hashes, ok1 \in WriteOutcomes(session),
             ok2 \in WriteOutcomes(session) :
          /\ session' = RecordDesync(session, t, LocalPeer, remote,
                                     lh, rh, ok1, ok2)
          /\ taken' = taken
          /\ failed' = (failed \/ ~ok1 \/ ~ok2)
    BY <1>4 DEF DoRecordDesync, Reporting
  <2>2. ok1 \in BOOLEAN /\ ok2 \in BOOLEAN /\ LocalPeer \in Peers
    BY OutcomesAreBoolean, SessionAssumption
  <2> DEFINE kept == {"pending", "checked_ticks", "cumulative", "written_schemas"}
             r == RecordPeerHash(session, t, LocalPeer, lh, ok1)
             k == RecordPeerHash(r, t, remote, rh, ok2)
  <2>3. r \in SessionType /\ Same(r, session, Options \cup kept)
    BY <1>1, <2>2, RecordPeerHashEffect
  <2>4. /\ FileInTable(session) => FileInTable(r)
        /\ TableInFile(session) /\ session.recording /\ ok1 => TableInFile(r)
        /\ FoldedInTable(session) => FoldedInTable(r)
    BY <1>1, <2>2, RecordPeerHashKeeps
  <2>5. session' = IF ok1 THEN k ELSE r
    BY <2>1 DEF RecordDesync
  <2> HIDE DEF r
  <2>6. Same(k, r, Options \cup kept)
    BY <2>2, <2>3, RecordPeerHashEffect
  <2>7. /\ FileInTable(r) => FileInTable(k)
        /\ TableInFile(r) /\ r.recording /\ ok2 => TableInFile(k)
        /\ FoldedInTable(r) => FoldedInTable(k)
    BY <2>2, <2>3, RecordPeerHashKeeps
  <2>8. r.recording = session.recording
    BY <2>3 DEF Same, Options
  <2> HIDE DEF k
  <2>9. Same(session', session, Options \cup kept)
    BY <2>3, <2>5, <2>6 DEF Same, Options
  <2>10. Same(session', session, Options) /\ HandedOutOnce'
    BY <2>1, <2>9 DEF Same, Options, HandedOutOnce, IInv
  <2>11. /\ FileInTable(session) => FileInTable(session')
         /\ FoldedInTable(session) => FoldedInTable(session')
         /\ TableInFile(session) /\ session.recording /\ ~failed'
              => TableInFile(session')
         /\ ~failed' => ~failed
    BY <2>1, <2>2, <2>4, <2>5, <2>7, <2>8
  <2>12. QED
    BY <1>1, <2>10, <2>11, KeepsIInv
<1>5. CASE DoRecordPeerDetail
  <2>1. PICK level \in DetailLevels, ok \in WriteOutcomes(session) :
          /\ session' = RecordPeerDetail(session, level, ok)
          /\ failed' = (failed \/ ~ok) /\ taken' = taken
    BY <1>5 DEF DoRecordPeerDetail
  <2>2. ok \in BOOLEAN
    BY OutcomesAreBoolean
  <2>3. /\ session'.file = Written(session, DetailFrame(level), ok)
        /\ Same(session', session, Options \cup {"ring", "pending",
                 "hashes_by_tick", "checked_ticks", "cumulative", "written_schemas"})
    BY <1>1, <2>1, <2>2, RecordPeerDetailEffect
  <2>4. SameFile(session', session)
    <3>1. DetailFrame(level) \in Frame /\ DetailFrame(level).type # "TickHash"
      BY FrameTypes DEF DetailFrame, DetailLevels
    <3>2. QED
      BY <1>1, <2>2, <2>3, <3>1, InFileAfterOther
  <2>5. /\ Same(session', session, Options) /\ SameTable(session', session)
        /\ session'.cumulative = session.cumulative /\ HandedOutOnce'
    BY <2>1, <2>3 DEF Same, Options, SameTable, InTable, HandedOutOnce, IInv
  <2>6. QED
    BY <1>1, <2>1, <2>2, <2>4, <2>5, QuietStep
<1>6. CASE DoRecordSchema
  <2>1. PICK name \in TypeNames, ok \in WriteOutcomes(session) :
          /\ session' = RecordSchema(session, name, ok)
          /\ failed' = (failed \/ ~ok) /\ taken' = taken
    BY <1>6 DEF DoRecordSchema
  <2>2. ok \in BOOLEAN
    BY OutcomesAreBoolean
  <2>3. /\ session'.file = IF name \in session.written_schemas THEN session.file
                           ELSE Written(session, MetadataFrame(name), ok)
        /\ Same(session', session, Options \cup {"ring", "pending",
                                  "hashes_by_tick", "checked_ticks", "cumulative"})
    <3> DEFINE r == RecordSchema(session, name, ok)
    <3>1. /\ r.file = IF name \in session.written_schemas THEN session.file
                      ELSE Written(session, MetadataFrame(name), ok)
          /\ Same(r, session, Options \cup {"ring", "pending",
                             "hashes_by_tick", "checked_ticks", "cumulative"})
      BY <1>1, <2>2, RecordSchemaEffect
    <3> HIDE DEF r
    <3>2. session' = r
      BY <2>1 DEF r
    <3>3. QED
      BY <3>1, <3>2
  <2>4. SameFile(session', session)
    <3>1. MetadataFrame(name) \in Frame /\ MetadataFrame(name).type # "TickHash"
      BY FrameTypes DEF MetadataFrame
    <3>2. CASE name \in session.written_schemas
      BY <2>3, <3>2 DEF SameFile, InFile
    <3>3. CASE name \notin session.written_schemas
      <4>1. session'.file = Written(session, MetadataFrame(name), ok)
        BY <2>3, <3>3
      <4>2. QED
        BY <1>1, <2>2, <3>1, <4>1, InFileAfterOther
    <3>4. QED
      BY <3>2, <3>3
  <2>5. /\ Same(session', session, Options) /\ SameTable(session', session)
        /\ session'.cumulative = session.cumulative /\ HandedOutOnce'
    BY <2>1, <2>3 DEF Same, Options, SameTable, InTable, HandedOutOnce, IInv
  <2>6. QED
    BY <1>1, <2>1, <2>2, <2>4, <2>5, QuietStep
<1>7. CASE DoTakePendingHashesUpTo
  <2>1. PICK max \in 0 .. Len(session.pending) :
          /\ taken' = taken \o Drained(session, max)
          /\ session' = TakePendingHashesUpTo(session, max)
          /\ failed' = failed
    BY <1>7 DEF DoTakePendingHashesUpTo
  <2>2. max \in Nat
    BY <1>1 DEF SessionType
  <2>3. /\ Drained(session, max) \in Seq(TickHash)
        /\ Drained(session, max) \o session'.pending = session.pending
        /\ Same(session', session, Options \cup {"ring", "hashes_by_tick",
                 "file", "checked_ticks", "cumulative", "written_schemas"})
    BY <1>1, <2>1, <2>2, TakePendingEffect
  <2>4. /\ Same(session', session, Options) /\ SameTable(session', session)
        /\ SameFile(session', session)
        /\ session'.cumulative = session.cumulative
    BY <2>3 DEF Same, Options, SameTable, SameFile, InTable, InFile
  <2>5. HandedOutOnce'
    <3>1. session'.pending \in Seq(TickHash)
      BY <1>1 DEF SessionType
    <3> DEFINE d == Drained(session, max)
               rest == session'.pending
    <3>2. (taken \o d) \o rest = taken \o (d \o rest)
      <4>1. d \in Seq(TickHash) /\ rest \in Seq(TickHash)
        BY <2>3, <3>1
      <4> HIDE DEF d, rest
      <4>2. QED
        BY SMTT(20), <1>1, <4>1, ConcatAssociative
    <3>3. QED
      BY <2>1, <2>3, <2>4, <3>2 DEF HandedOutOnce, IInv
  <2>6. QED
    BY <1>1, <2>1, <2>4, <2>5, QuietStep
<1>8. CASE DoCheckDivergence
  <2>1. CASE \E t \in Ticks : session' = Flag(session, t)
    <3>1. PICK t \in Ticks : session' = Flag(session, t)
      BY <2>1
    <3>2. Same(session', session, Options \cup {"ring", "pending",
                  "hashes_by_tick", "file", "cumulative", "written_schemas"})
      BY <1>1, <3>1, FlagEffect
    <3>3. /\ Same(session', session, Options) /\ SameTable(session', session)
          /\ SameFile(session', session)
          /\ session'.cumulative = session.cumulative
          /\ HandedOutOnce' /\ failed' = failed
      BY <1>8, <3>2 DEF Same, Options, SameTable, SameFile, InTable, InFile,
                       HandedOutOnce, IInv, DoCheckDivergence
    <3>4. QED
      BY <1>1, <3>3, QuietStep
  <2>2. CASE UNCHANGED <<session, taken, failed>>
    BY <1>1, <2>2 DEF IInv, HandedOutOnce
  <2>3. QED
    BY <1>8, <2>1, <2>2 DEF DoCheckDivergence, Earliest, Divergent
<1>9. CASE DoFinishRecording
  <2>1. PICK ok, flushed \in WriteOutcomes(session) :
          /\ session' = FinishRecording(session, ok)
          /\ failed' = (failed \/ ~ok \/ ~flushed) /\ taken' = taken
    BY <1>9 DEF DoFinishRecording
  <2>2. ok \in BOOLEAN
    BY OutcomesAreBoolean
  <2>3. /\ session'.file = Written(session, EndOfStream, ok)
        /\ Same(session', session, Options \cup {"ring", "pending",
                 "hashes_by_tick", "checked_ticks", "cumulative", "written_schemas"})
    BY <1>1, <2>1, <2>2, FinishRecordingEffect
  <2>4. SameFile(session', session)
    <3>1. EndOfStream \in Frame /\ EndOfStream.type # "TickHash"
      BY FrameTypes DEF EndOfStream
    <3>2. QED
      BY <1>1, <2>2, <2>3, <3>1, InFileAfterOther
  <2>5. /\ Same(session', session, Options) /\ SameTable(session', session)
        /\ session'.cumulative = session.cumulative /\ HandedOutOnce'
    BY <2>1, <2>3 DEF Same, Options, SameTable, InTable, HandedOutOnce, IInv
  <2>6. QED
    BY <1>1, <2>1, <2>2, <2>4, <2>5, QuietStep
<1>10. CASE UNCHANGED vars
  BY <1>1, <1>10 DEF vars, IInv, HandedOutOnce
<1>11. QED
  BY <1>2, <1>3, <1>4, <1>5, <1>6, <1>7, <1>8, <1>9, <1>10 DEF Next

LEMMA IInvCorrect == Spec => []IInv
BY InitIInv, StepIInv, PTL DEF Spec

----------------------------------------------------------------------------
(* Safety *)

\* Nothing a game hashes is lost or doubled between finish() and the netcode.
THEOREM HandedOutOnceCorrect == Spec => []HandedOutOnce
<1>1. IInv => HandedOutOnce
  BY DEF IInv
<1>2. QED
  BY <1>1, IInvCorrect, PTL

\* No peer is ever sent a hash the session will not compare.
THEOREM SentIsComparedCorrect == Spec => []SentIsCompared
<1>1. IInv => SentIsCompared
  <2> SUFFICES ASSUME IInv PROVE SentIsCompared
    OBVIOUS
  <2>1. session.cumulative \in Seq(TickHash)
    BY DEF IInv, TypeOK, SessionType
  <2>2. ASSUME NEW i \in DOMAIN session.cumulative
        PROVE  LET sent == session.cumulative[i]
               IN  InTable(session, sent.tick, LocalPeer, sent.hash)
    <3> DEFINE sent == session.cumulative[i]
    <3>1. sent \in TickHash
      BY <2>1
    <3>2. sent = [tick |-> sent.tick, hash |-> sent.hash]
          /\ sent.tick \in Ticks /\ sent.hash \in Hashes
      BY <3>1 DEF TickHash
    <3>3. Occurs([tick |-> sent.tick, hash |-> sent.hash], session.cumulative)
      BY <3>2 DEF Occurs
    <3>4. QED
      BY <3>2, <3>3 DEF IInv, FoldedInTable
  <2>3. QED
    BY <2>2 DEF SentIsCompared, InTable, Occurs
<1>2. QED
  BY <1>1, IInvCorrect, PTL

\* What is legible of a recording, whatever writes failed, accuses no tick that
\* the session holds to agree.
THEOREM OfflineIsSoundCorrect == Spec => []OfflineIsSound
<1>1. IInv => OfflineIsSound
  <2> SUFFICES ASSUME IInv, NEW part \in Legible(session.file),
                      NEW t \in FindFirstDivergence(part)
               PROVE  Disagree(session.hashes_by_tick[t])
    BY DEF OfflineIsSound
  <2>1. /\ session \in SessionType /\ FileInTable(session)
        /\ session.file \in Seq(FileEntry)
    BY DEF IInv, TypeOK, SessionType
  <2>2. t \in Ticks /\ FileDisagrees(session.file, t)
    <3>1. t \in Ticks /\ FileDisagrees(part, t)
      BY DEF FindFirstDivergence, Earliest
    <3>2. QED
      BY <2>1, <3>1, LegibleDisagrees
  <2>3. QED
    BY <2>1, <2>2, DisagreeInFile, DisagreeInTable DEF FileInTable
<1>2. QED
  BY <1>1, IInvCorrect, PTL

\* The command line and the running game blame the same tick.
THEOREM OfflineMatchesLiveCorrect == Spec => []OfflineMatchesLive
<1>1. IInv => OfflineMatchesLive
  <2> SUFFICES ASSUME IInv, session.recording, ~failed
               PROVE  FindFirstDivergence(session.file)
                        = Earliest({t \in Ticks : Disagree(session.hashes_by_tick[t])})
    BY DEF OfflineMatchesLive
  <2>1. session \in SessionType /\ FileInTable(session) /\ TableInFile(session)
    BY DEF IInv, TypeOK
  <2>2. \A t \in Ticks : FileDisagrees(session.file, t)
                           <=> Disagree(session.hashes_by_tick[t])
    BY <2>1, DisagreeInFile, DisagreeInTable DEF FileInTable, TableInFile
  <2>3. QED
    BY <2>2 DEF FindFirstDivergence
<1>2. QED
  BY <1>1, IInvCorrect, PTL

----------------------------------------------------------------------------
(* The session is a DivergenceDetector *)

LEMMA ReportedIsTable ==
  /\ ReportedSet \subseteq Ticks \X Peers \X Hashes
  /\ \A t \in Ticks, p \in Peers, h \in Hashes :
       <<t, p, h>> \in ReportedSet <=> InTable(session, t, p, h)
BY DEF ReportedSet, InTable, Occurs

LEMMA ContradictedIsDisagree ==
  ASSUME session \in SessionType, NEW t \in Ticks
  PROVE  Detector!Contradicted(t) <=> Disagree(session.hashes_by_tick[t])
<1>1. /\ ReportedSet \subseteq Ticks \X Peers \X Hashes
      /\ \A p \in Peers, h \in Hashes :
           <<t, p, h>> \in ReportedSet <=> InTable(session, t, p, h)
  BY ReportedIsTable
<1>2. Disagree(session.hashes_by_tick[t]) <=>
        \E p, q \in Peers, g, h \in Hashes :
          InTable(session, t, p, g) /\ InTable(session, t, q, h) /\ g # h
  BY DisagreeInTable
<1>3. ASSUME NEW r1 \in ReportedSet, NEW r2 \in ReportedSet,
             r1[1] = t, r2[1] = t, r1[3] # r2[3]
      PROVE  Disagree(session.hashes_by_tick[t])
  <2>1. PICK p \in Peers, g \in Hashes : r1 = <<t, p, g>>
    BY <1>1, <1>3
  <2>2. PICK q \in Peers, h \in Hashes : r2 = <<t, q, h>>
    BY <1>1, <1>3
  <2>3. QED
    BY <1>1, <1>2, <1>3, <2>1, <2>2
<1>4. ASSUME NEW p \in Peers, NEW q \in Peers, NEW g \in Hashes,
             NEW h \in Hashes,
             InTable(session, t, p, g), InTable(session, t, q, h), g # h
      PROVE  Detector!Contradicted(t)
  <2>1. <<t, p, g>> \in ReportedSet /\ <<t, q, h>> \in ReportedSet
    BY <1>1, <1>4
  <2>2. <<t, p, g>>[1] = t /\ <<t, q, h>>[1] = t
        /\ <<t, p, g>>[3] # <<t, q, h>>[3]
    BY <1>4
  <2>3. QED
    BY <2>1, <2>2 DEF Detector!Contradicted
<1>5. QED
  BY <1>2, <1>3, <1>4 DEF Detector!Contradicted

LEMMA DetectorInit == Init => Detector!Init
<1> SUFFICES ASSUME Init PROVE Detector!Init
  OBVIOUS
<1>1. session.hashes_by_tick = [t \in Ticks |-> << >>]
      /\ session.checked_ticks = {} /\ answer = Unasked
  BY DEF Init, Build
<1>2. ReportedSet = {}
  BY <1>1 DEF ReportedSet
<1>3. QED
  BY <1>1, <1>2 DEF Detector!Init

\* A step after which the table holds at least what it held, and that no
\* check made, is a Report of the detector.
LEMMA ReportStep ==
  ASSUME \A t \in Ticks, p \in Peers, h \in Hashes :
           InTable(session, t, p, h) => InTable(session', t, p, h),
         session'.checked_ticks = session.checked_ticks,
         answer' = Unasked
  PROVE  Detector!Report
<1>1. /\ ReportedSet \subseteq Ticks \X Peers \X Hashes
      /\ \A t \in Ticks, p \in Peers, h \in Hashes :
           <<t, p, h>> \in ReportedSet <=> InTable(session, t, p, h)
  BY ReportedIsTable
<1>2. /\ ReportedSet' \subseteq Ticks \X Peers \X Hashes
      /\ \A t \in Ticks, p \in Peers, h \in Hashes :
           <<t, p, h>> \in ReportedSet' <=> InTable(session', t, p, h)
  BY DEF ReportedSet, InTable, Occurs
<1>3. ReportedSet \subseteq ReportedSet'
  BY <1>1, <1>2
<1>4. QED
  BY <1>2, <1>3 DEF Detector!Report

LEMMA CheckStep ==
  ASSUME IInv, DoCheckDivergence
  PROVE  Detector!Next
<1>1. session \in SessionType /\ Ticks \subseteq Nat
  BY TicksAssumption DEF IInv, TypeOK
<1>2. \A t \in Ticks : Detector!Contradicted(t)
                         <=> Disagree(session.hashes_by_tick[t])
  BY <1>1, ContradictedIsDisagree
<1>3. CASE \E t \in Earliest(Divergent(session)) :
             session' = Flag(session, t) /\ answer' = t
  <2>1. PICK t \in Earliest(Divergent(session)) :
          session' = Flag(session, t) /\ answer' = t
    BY <1>3
  <2>2. /\ t \in Ticks /\ t \notin session.checked_ticks
        /\ Disagree(session.hashes_by_tick[t])
        /\ \A u \in Divergent(session) : t <= u
    BY DEF Earliest, Divergent
  <2>3. \A u \in Ticks \ session.checked_ticks :
          Detector!Contradicted(u) => t <= u
    BY <1>2, <2>2 DEF Divergent
  <2>4. /\ session'.checked_ticks = session.checked_ticks \cup {t}
        /\ session'.hashes_by_tick = session.hashes_by_tick
    <3>1. /\ session'.checked_ticks = session.checked_ticks \cup {t}
          /\ Same(session', session, Options \cup {"ring", "pending",
                   "hashes_by_tick", "file", "cumulative", "written_schemas"})
      BY <1>1, <2>1, <2>2, FlagEffect
    <3>2. QED
      BY <3>1 DEF Same
  <2>5. UNCHANGED ReportedSet
    BY <2>4 DEF ReportedSet
  <2>6. Detector!Announce(t)
    BY <1>2, <2>1, <2>2, <2>3, <2>4, <2>5 DEF Detector!Announce
  <2>7. QED
    BY <2>2, <2>6 DEF Detector!Next
<1>4. CASE Divergent(session) = {} /\ answer' = None /\ UNCHANGED session
  <2>1. \A u \in Ticks \ session.checked_ticks : ~ Detector!Contradicted(u)
    BY <1>2, <1>4 DEF Divergent
  <2>2. UNCHANGED <<ReportedSet, session.checked_ticks>>
    BY <1>4 DEF ReportedSet
  <2>3. Detector!FindNothing
    BY <1>4, <2>1, <2>2 DEF Detector!FindNothing
  <2>4. QED
    BY <2>3 DEF Detector!Next
<1>5. QED
  BY <1>3, <1>4 DEF DoCheckDivergence

LEMMA DetectorStep ==
  IInv /\ [Next]_vars => [Detector!Next]_(Detector!vars)
<1> SUFFICES ASSUME IInv, [Next]_vars
             PROVE  Detector!Next \/ UNCHANGED Detector!vars
  OBVIOUS
<1>1. session \in SessionType /\ LocalPeer \in Peers
      /\ session.local_peer_id = LocalPeer
  BY SessionAssumption DEF IInv, TypeOK
<1>2. WriteOutcomes(session) \subseteq BOOLEAN
  BY OutcomesAreBoolean
<1>3. ASSUME \A t \in Ticks, p \in Peers, h \in Hashes :
               InTable(session, t, p, h) => InTable(session', t, p, h),
             session'.checked_ticks = session.checked_ticks,
             answer' = Unasked
      PROVE  Detector!Next
  BY <1>3, ReportStep DEF Detector!Next
<1>4. ASSUME Same(session', session, {"hashes_by_tick", "checked_ticks"}),
             answer' = answer
      PROVE  UNCHANGED Detector!vars
  <2>1. session'.hashes_by_tick = session.hashes_by_tick
        /\ session'.checked_ticks = session.checked_ticks
    BY <1>4 DEF Same
  <2>2. QED
    BY <1>4, <2>1 DEF Detector!vars, ReportedSet
<1>5. CASE DoHashTick
  <2>1. PICK t \in Ticks, h \in Hashes, ok \in WriteOutcomes(session) :
          session' = HashTick(session, t, h, ok) /\ answer' = Unasked
    BY <1>5 DEF DoHashTick, Reporting
  <2> DEFINE m == RecordPeerHash(session, t, session.local_peer_id, h, ok)
  <2>2. ok \in BOOLEAN /\ session.local_peer_id \in Peers
    BY <1>1, <1>2
  <2>3. SameTable(session', m)
    BY <1>1, <2>1, <2>2, HashTickReports
  <2>4. \A u \in Ticks, q \in Peers, g \in Hashes :
          InTable(session, u, q, g) => InTable(m, u, q, g)
    BY <1>1, <2>2, RecordPeerHashReports
  <2>5. Same(session', session, Options \cup {"checked_ticks", "written_schemas"})
    BY <1>1, <2>1, <2>2, HashTickEffect
  <2> HIDE DEF m
  <2>6. session'.checked_ticks = session.checked_ticks
    BY <2>5 DEF Same
  <2>7. QED
    BY <1>3, <2>1, <2>3, <2>4, <2>6 DEF SameTable
<1>6. CASE DoRecordPeerHash
  <2>1. PICK t \in Ticks, p \in Peers, h \in Hashes,
             ok \in WriteOutcomes(session) :
          session' = RecordPeerHash(session, t, p, h, ok) /\ answer' = Unasked
    BY <1>6 DEF DoRecordPeerHash, Reporting
  <2>2. ok \in BOOLEAN
    BY <1>2
  <2>3. \A u \in Ticks, q \in Peers, g \in Hashes :
          InTable(session, u, q, g) => InTable(session', u, q, g)
    BY <1>1, <2>1, <2>2, RecordPeerHashReports
  <2>4. Same(session', session, Options \cup {"pending", "checked_ticks",
                                              "cumulative", "written_schemas"})
    BY <1>1, <2>1, <2>2, RecordPeerHashEffect
  <2>5. session'.checked_ticks = session.checked_ticks
    BY <2>4 DEF Same
  <2>6. QED
    BY <1>3, <2>1, <2>3, <2>5
<1>7. CASE DoRecordDesync
  <2>1. PICK t \in Ticks, remote \in Peers \ {LocalPeer}, lh \in Hashes,
             rh \in Hashes, ok1 \in WriteOutcomes(session),
             ok2 \in WriteOutcomes(session) :
          /\ session' = RecordDesync(session, t, LocalPeer, remote,
                                     lh, rh, ok1, ok2)
          /\ answer' = Unasked
    BY <1>7 DEF DoRecordDesync, Reporting
  <2>2. ok1 \in BOOLEAN /\ ok2 \in BOOLEAN
    BY <1>2
  <2> DEFINE kept == {"pending", "checked_ticks", "cumulative", "written_schemas"}
             r == RecordPeerHash(session, t, LocalPeer, lh, ok1)
             k == RecordPeerHash(r, t, remote, rh, ok2)
  <2>3. r \in SessionType /\ Same(r, session, Options \cup kept)
    BY <1>1, <2>2, RecordPeerHashEffect
  <2>4. \A u \in Ticks, q \in Peers, g \in Hashes :
          InTable(session, u, q, g) => InTable(r, u, q, g)
    BY <1>1, <2>2, RecordPeerHashReports
  <2>5. session' = IF ok1 THEN k ELSE r
    BY <2>1 DEF RecordDesync
  <2> HIDE DEF r
  <2>6. Same(k, r, Options \cup kept)
    BY <2>2, <2>3, RecordPeerHashEffect
  <2>7. \A u \in Ticks, q \in Peers, g \in Hashes :
          InTable(r, u, q, g) => InTable(k, u, q, g)
    BY <2>2, <2>3, RecordPeerHashReports
  <2> HIDE DEF k
  <2>8. session'.checked_ticks = session.checked_ticks
    BY <2>3, <2>5, <2>6 DEF Same
  <2>9. \A u \in Ticks, q \in Peers, g \in Hashes :
          InTable(session, u, q, g) => InTable(session', u, q, g)
    BY <2>4, <2>5, <2>7
  <2>10. QED
    BY <1>3, <2>1, <2>8, <2>9
<1>8. CASE DoRecordPeerDetail
  <2>1. PICK level \in DetailLevels, ok \in WriteOutcomes(session) :
          session' = RecordPeerDetail(session, level, ok) /\ answer' = answer
    BY <1>8 DEF DoRecordPeerDetail
  <2>2. ok \in BOOLEAN
    BY <1>2
  <2>3. Same(session', session, Options \cup {"ring", "pending", "hashes_by_tick",
                         "checked_ticks", "cumulative", "written_schemas"})
    BY <1>1, <2>1, <2>2, RecordPeerDetailEffect
  <2>4. Same(session', session, {"hashes_by_tick", "checked_ticks"})
    BY <2>3 DEF Same
  <2>5. QED
    BY <1>4, <2>1, <2>4
<1>9. CASE DoRecordSchema
  <2>1. PICK name \in TypeNames, ok \in WriteOutcomes(session) :
          session' = RecordSchema(session, name, ok) /\ answer' = answer
    BY <1>9 DEF DoRecordSchema
  <2>2. ok \in BOOLEAN
    BY <1>2
  <2>3. Same(session', session, Options \cup {"ring", "pending",
                         "hashes_by_tick", "checked_ticks", "cumulative"})
    BY <1>1, <2>1, <2>2, RecordSchemaEffect
  <2>4. Same(session', session, {"hashes_by_tick", "checked_ticks"})
    BY <2>3 DEF Same
  <2>5. QED
    BY <1>4, <2>1, <2>4
<1>10. CASE DoTakePendingHashesUpTo
  <2>1. PICK max \in 0 .. Len(session.pending) :
          session' = TakePendingHashesUpTo(session, max) /\ answer' = answer
    BY <1>10 DEF DoTakePendingHashesUpTo
  <2>2. max \in Nat
    BY <1>1 DEF SessionType
  <2>3. Same(session', session, Options \cup {"ring", "hashes_by_tick", "file",
                         "checked_ticks", "cumulative", "written_schemas"})
    BY <1>1, <2>1, <2>2, TakePendingEffect
  <2>4. Same(session', session, {"hashes_by_tick", "checked_ticks"})
    BY <2>3 DEF Same
  <2>5. QED
    BY <1>4, <2>1, <2>4
<1>11. CASE DoCheckDivergence
  BY <1>11, CheckStep
<1>12. CASE DoFinishRecording
  <2>1. PICK ok, flushed \in WriteOutcomes(session) :
          session' = FinishRecording(session, ok) /\ answer' = answer
    BY <1>12 DEF DoFinishRecording
  <2>2. ok \in BOOLEAN
    BY <1>2
  <2>3. Same(session', session, Options \cup {"ring", "pending", "hashes_by_tick",
                         "checked_ticks", "cumulative", "written_schemas"})
    BY <1>1, <2>1, <2>2, FinishRecordingEffect
  <2>4. Same(session', session, {"hashes_by_tick", "checked_ticks"})
    BY <2>3 DEF Same
  <2>5. QED
    BY <1>4, <2>1, <2>4
<1>13. CASE UNCHANGED vars
  BY <1>13 DEF vars, Detector!vars, ReportedSet
<1>14. QED
  BY <1>5, <1>6, <1>7, <1>8, <1>9, <1>10, <1>11, <1>12, <1>13 DEF Next

\* What a session answers depends on the set of reports it was given and on
\* its earlier answers alone: not on their order, not on repetitions, not on
\* drains, recordings or I/O errors.
THEOREM ImplementsDetectorCorrect == Spec => ImplementsDetector
BY DetectorInit, DetectorStep, IInvCorrect, PTL
   DEF Spec, ImplementsDetector, Detector!Spec

----------------------------------------------------------------------------
(* Schema frames *)

MetaAt(file, name) == {i \in DOMAIN file : file[i] = MetadataFrame(name)}

\* At most one frame per type, and only for types that are marked.
Once(s) ==
  \A name \in TypeNames :
    /\ \A i, j \in MetaAt(s.file, name) : i = j
    /\ MetaAt(s.file, name) # {} => name \in s.written_schemas

\* A frame for every type that is marked.
Complete(s) == \A name \in s.written_schemas : MetaAt(s.file, name) # {}

\* SchemaWrittenOnce is not inductive: that no type has a frame without being
\* marked is what keeps record_schema from writing a second one.
SchemaInv == /\ TypeOK
             /\ Once(session)
             /\ session.recording /\ ~failed => Complete(session)

LEMMA OtherFrames ==
  ASSUME NEW name
  PROVE  /\ \A t, p, h : TickHashFrame(t, p, h) # MetadataFrame(name)
         /\ \A level \in DetailLevels : DetailFrame(level) # MetadataFrame(name)
         /\ EndOfStream # MetadataFrame(name)
         /\ Remnant # MetadataFrame(name)
<1>1. MetadataFrame(name).type = "Metadata"
  BY DEF MetadataFrame
<1>2. \A t, p, h : TickHashFrame(t, p, h).type = "TickHash"
  BY DEF TickHashFrame
<1>3. \A level \in DetailLevels : DetailFrame(level).type # "Metadata"
  BY DEF DetailFrame, DetailLevels
<1>4. EndOfStream.type = "EndOfStream" /\ Remnant.type = "Remnant"
  BY DEF EndOfStream, Remnant
<1>5. QED
  BY <1>1, <1>2, <1>3, <1>4

LEMMA MetaAtAfterAppend ==
  ASSUME NEW file \in Seq(FileEntry), NEW frame \in FileEntry, NEW name
  PROVE  /\ MetaAt(file, name) \subseteq 1 .. Len(file)
         /\ frame # MetadataFrame(name) =>
              MetaAt(Append(file, frame), name) = MetaAt(file, name)
         /\ frame = MetadataFrame(name) =>
              MetaAt(Append(file, frame), name) = MetaAt(file, name) \cup {Len(file) + 1}
<1> DEFINE new == Append(file, frame)
<1>1. /\ DOMAIN new = 1 .. Len(file) + 1 /\ DOMAIN file = 1 .. Len(file)
      /\ new[Len(file) + 1] = frame
      /\ \A i \in DOMAIN file : new[i] = file[i]
      /\ Len(file) \in Nat
  BY AppendEntries
<1> HIDE DEF new
<1>2. \A i : i \in DOMAIN new <=> i \in DOMAIN file \/ i = Len(file) + 1
  BY <1>1
<1>3. QED
  BY <1>1, <1>2 DEF MetaAt, new

\* A frame of another kind, written or refused, changes nothing.
LEMMA OtherFrameKeepsSchemas ==
  ASSUME NEW s \in SessionType, NEW r, NEW frame \in Frame,
         \A name \in TypeNames : frame # MetadataFrame(name),
         r.file \in {s.file, Append(s.file, frame), Append(s.file, Remnant)},
         r.written_schemas = s.written_schemas
  PROVE  (Once(s) => Once(r)) /\ (Complete(s) => Complete(r))
<1>1. /\ s.file \in Seq(FileEntry) /\ s.written_schemas \subseteq TypeNames
      /\ frame \in FileEntry /\ Remnant \in FileEntry
  BY FrameTypes DEF SessionType
<1>2. ASSUME NEW name \in TypeNames
      PROVE  MetaAt(r.file, name) = MetaAt(s.file, name)
  <2>1. frame # MetadataFrame(name) /\ Remnant # MetadataFrame(name)
    BY OtherFrames
  <2>2. /\ MetaAt(Append(s.file, frame), name) = MetaAt(s.file, name)
        /\ MetaAt(Append(s.file, Remnant), name) = MetaAt(s.file, name)
    BY <1>1, <2>1, MetaAtAfterAppend
  <2>3. QED
    BY <2>2
<1>3. QED
  BY <1>1, <1>2 DEF Once, Complete

LEMMA RecordSchemaKeepsSchemas ==
  ASSUME NEW s \in SessionType, NEW name \in TypeNames, NEW ok \in BOOLEAN
  PROVE  LET r == RecordSchema(s, name, ok)
         IN  /\ Once(s) => Once(r)
             /\ s.recording /\ (name \in s.written_schemas \/ ok) /\ Complete(s)
                  => Complete(r)
<1> DEFINE r == RecordSchema(s, name, ok)
           frame == MetadataFrame(name)
<1>1. /\ r.written_schemas = s.written_schemas \cup {name}
      /\ r.file = IF name \in s.written_schemas THEN s.file ELSE Written(s, frame, ok)
  BY RecordSchemaEffect
<1>2. /\ s.file \in Seq(FileEntry) /\ s.written_schemas \subseteq TypeNames
      /\ frame \in Frame /\ Len(s.file) \in Nat
      /\ frame \in FileEntry /\ Remnant \in FileEntry
  BY FrameTypes DEF SessionType
<1>3. CASE name \in s.written_schemas
  <2>1. r.written_schemas = s.written_schemas /\ r.file = s.file
    BY <1>1, <1>3
  <2>2. QED
    BY <2>1 DEF Once, Complete
<1>4. CASE name \notin s.written_schemas
  <2>1. \A other \in TypeNames : other # name => frame # MetadataFrame(other)
    <3>1. \A other : MetadataFrame(other).name = other
      BY DEF MetadataFrame
    <3>2. QED
      BY <3>1
  <2>2. /\ r.file \in {s.file, Append(s.file, frame), Append(s.file, Remnant)}
        /\ s.recording /\ ok => r.file = Append(s.file, frame)
    BY <1>1, <1>2, <1>4, WrittenType
  <2> HIDE DEF r, frame
  <2>3. \A other \in TypeNames :
          other # name => MetaAt(r.file, other) = MetaAt(s.file, other)
    <3> SUFFICES ASSUME NEW other \in TypeNames, other # name
                 PROVE  MetaAt(r.file, other) = MetaAt(s.file, other)
      OBVIOUS
    <3>1. frame # MetadataFrame(other)
      BY <2>1
    <3>2. /\ MetaAt(Append(s.file, frame), other) = MetaAt(s.file, other)
          /\ MetaAt(Append(s.file, Remnant), other) = MetaAt(s.file, other)
      BY <1>2, <3>1, MetaAtAfterAppend, OtherFrames
    <3>3. QED
      BY <2>2, <3>2
  <2>4. /\ r.file = Append(s.file, frame) =>
             MetaAt(r.file, name) = MetaAt(s.file, name) \cup {Len(s.file) + 1}
        /\ r.file = Append(s.file, Remnant) =>
             MetaAt(r.file, name) = MetaAt(s.file, name)
    <3>1. Remnant # MetadataFrame(name)
      BY OtherFrames
    <3>2. MetaAt(Append(s.file, Remnant), name) = MetaAt(s.file, name)
      BY <1>2, <3>1, MetaAtAfterAppend
    <3>3. MetaAt(Append(s.file, frame), name) = MetaAt(s.file, name) \cup {Len(s.file) + 1}
      BY <1>2, MetaAtAfterAppend DEF frame
    <3>4. QED
      BY <3>2, <3>3
  <2>5. Once(s) => Once(r)
    <3> SUFFICES ASSUME Once(s) PROVE Once(r)
      OBVIOUS
    <3>1. MetaAt(s.file, name) = {}
      BY <1>4 DEF Once
    <3>2. \A i, j \in MetaAt(r.file, name) : i = j
      BY <2>2, <2>4, <3>1
    <3>3. QED
      BY <1>1, <2>3, <3>2 DEF Once
  <2>6. s.recording /\ ok /\ Complete(s) => Complete(r)
    BY <1>1, <1>2, <2>2, <2>3, <2>4 DEF Complete
  <2>7. QED
    BY <1>4, <2>5, <2>6 DEF r
<1>5. QED
  BY <1>3, <1>4

\* What a step has to show.
LEMMA KeepsSchemaInv ==
  ASSUME SchemaInv, TypeOK',
         session'.recording = session.recording,
         ~failed' => ~failed,
         Once(session) => Once(session'),
         session.recording /\ ~failed' /\ Complete(session) => Complete(session')
  PROVE  SchemaInv'
<1>1. Once(session)' /\ (session'.recording /\ ~failed' => Complete(session)')
  BY DEF SchemaInv, Once, Complete
<1>2. QED
  BY <1>1 DEF SchemaInv

LEMMA InitSchemaInv == Init => SchemaInv
<1> SUFFICES ASSUME Init PROVE SchemaInv
  OBVIOUS
<1>1. session.file = << >> /\ session.written_schemas = {}
  BY DEF Init, Build
<1>2. QED
  BY <1>1, InitType DEF SchemaInv, Once, Complete, MetaAt

LEMMA StepSchemaInv == SchemaInv /\ [Next]_vars => SchemaInv'
<1> SUFFICES ASSUME SchemaInv, [Next]_vars PROVE SchemaInv'
  OBVIOUS
<1>1. /\ TypeOK' /\ session \in SessionType
      /\ LocalPeer \in Peers /\ session.local_peer_id \in Peers
  BY StepType, SessionAssumption DEF SchemaInv, TypeOK, SessionType
<1>2. ASSUME NEW s \in SessionType, NEW t \in Ticks, NEW p \in Peers,
             NEW h \in Hashes, NEW ok \in BOOLEAN
      PROVE  LET r == RecordPeerHash(s, t, p, h, ok)
             IN  /\ r \in SessionType /\ r.recording = s.recording
                 /\ Once(s) => Once(r)
                 /\ Complete(s) => Complete(r)
  <2> DEFINE r == RecordPeerHash(s, t, p, h, ok)
  <2>1. /\ r \in SessionType
        /\ r.file = Written(s, TickHashFrame(t, p, h), ok)
        /\ Same(r, s, Options \cup {"pending", "checked_ticks",
                                    "cumulative", "written_schemas"})
    BY RecordPeerHashEffect
  <2> HIDE DEF r
  <2>2. r.written_schemas = s.written_schemas /\ r.recording = s.recording
    BY <2>1 DEF Same, Options
  <2>3. /\ TickHashFrame(t, p, h) \in Frame
        /\ r.file \in {s.file, Append(s.file, TickHashFrame(t, p, h)),
                       Append(s.file, Remnant)}
    BY <2>1, FrameTypes, WrittenType
  <2>4. \A name \in TypeNames : TickHashFrame(t, p, h) # MetadataFrame(name)
    BY OtherFrames
  <2>5. (Once(s) => Once(r)) /\ (Complete(s) => Complete(r))
    BY <2>2, <2>3, <2>4, OtherFrameKeepsSchemas
  <2>6. QED
    BY <2>1, <2>2, <2>5 DEF r
<1>3. CASE DoHashTick
  <2>1. PICK t \in Ticks, h \in Hashes, ok \in WriteOutcomes(session) :
          session' = HashTick(session, t, h, ok) /\ failed' = (failed \/ ~ok)
    BY <1>3 DEF DoHashTick
  <2>2. ok \in BOOLEAN
    BY OutcomesAreBoolean
  <2> DEFINE frame == TickHashFrame(t, session.local_peer_id, h)
  <2>3. /\ session'.file = Written(session, frame, ok)
        /\ Same(session', session, Options \cup {"checked_ticks", "written_schemas"})
    BY <1>1, <2>1, <2>2, HashTickEffect
  <2>4. session'.written_schemas = session.written_schemas
        /\ session'.recording = session.recording
    BY <2>3 DEF Same, Options
  <2>5. frame \in Frame /\ \A name \in TypeNames : frame # MetadataFrame(name)
    BY <1>1, FrameTypes, OtherFrames
  <2>6. session'.file \in {session.file, Append(session.file, frame),
                            Append(session.file, Remnant)}
    BY <1>1, <2>2, <2>3, <2>5, WrittenType
  <2>7. (Once(session) => Once(session')) /\ (Complete(session) => Complete(session'))
    BY <1>1, <2>4, <2>5, <2>6, OtherFrameKeepsSchemas
  <2>8. QED
    BY <1>1, <2>1, <2>4, <2>7, KeepsSchemaInv
<1>4. CASE DoRecordPeerHash
  <2>1. PICK t \in Ticks, p \in Peers, h \in Hashes, ok \in WriteOutcomes(session) :
          session' = RecordPeerHash(session, t, p, h, ok) /\ failed' = (failed \/ ~ok)
    BY <1>4 DEF DoRecordPeerHash
  <2>2. ok \in BOOLEAN
    BY OutcomesAreBoolean
  <2>3. /\ session'.recording = session.recording
        /\ Once(session) => Once(session')
        /\ Complete(session) => Complete(session')
    BY <1>1, <1>2, <2>1, <2>2
  <2>4. QED
    BY <1>1, <2>1, <2>3, KeepsSchemaInv
<1>5. CASE DoRecordDesync
  <2>1. PICK t \in Ticks, remote \in Peers \ {LocalPeer}, lh \in Hashes,
             rh \in Hashes, ok1 \in WriteOutcomes(session),
             ok2 \in WriteOutcomes(session) :
          /\ session' = RecordDesync(session, t, LocalPeer, remote,
                                     lh, rh, ok1, ok2)
          /\ failed' = (failed \/ ~ok1 \/ ~ok2)
    BY <1>5 DEF DoRecordDesync
  <2>2. ok1 \in BOOLEAN /\ ok2 \in BOOLEAN
    BY OutcomesAreBoolean
  <2> DEFINE r == RecordPeerHash(session, t, LocalPeer, lh, ok1)
             k == RecordPeerHash(r, t, remote, rh, ok2)
  <2>3. session' = IF ok1 THEN k ELSE r
    BY <2>1 DEF RecordDesync
  <2>4. /\ r \in SessionType /\ r.recording = session.recording
        /\ Once(session) => Once(r)
        /\ Complete(session) => Complete(r)
    BY <1>1, <1>2, <2>2
  <2> HIDE DEF r
  <2>5. /\ k.recording = r.recording
        /\ Once(r) => Once(k)
        /\ Complete(r) => Complete(k)
    BY <1>2, <2>2, <2>4
  <2> HIDE DEF k
  <2>6. /\ session'.recording = session.recording
        /\ Once(session) => Once(session')
        /\ Complete(session) => Complete(session')
    BY <2>3, <2>4, <2>5
  <2>7. QED
    BY <1>1, <2>1, <2>6, KeepsSchemaInv
<1>6. CASE DoRecordPeerDetail
  <2>1. PICK level \in DetailLevels, ok \in WriteOutcomes(session) :
          session' = RecordPeerDetail(session, level, ok) /\ failed' = (failed \/ ~ok)
    BY <1>6 DEF DoRecordPeerDetail
  <2>2. ok \in BOOLEAN
    BY OutcomesAreBoolean
  <2>3. /\ session'.file = Written(session, DetailFrame(level), ok)
        /\ Same(session', session, Options \cup {"ring", "pending", "hashes_by_tick",
                       "checked_ticks", "cumulative", "written_schemas"})
    BY <1>1, <2>1, <2>2, RecordPeerDetailEffect
  <2>4. session'.written_schemas = session.written_schemas
        /\ session'.recording = session.recording
    BY <2>3 DEF Same, Options
  <2>5. DetailFrame(level) \in Frame
        /\ \A name \in TypeNames : DetailFrame(level) # MetadataFrame(name)
    BY FrameTypes, OtherFrames
  <2>6. session'.file \in {session.file, Append(session.file, DetailFrame(level)),
                            Append(session.file, Remnant)}
    BY <1>1, <2>2, <2>3, <2>5, WrittenType
  <2>7. (Once(session) => Once(session')) /\ (Complete(session) => Complete(session'))
    BY <1>1, <2>4, <2>5, <2>6, OtherFrameKeepsSchemas
  <2>8. QED
    BY <1>1, <2>1, <2>4, <2>7, KeepsSchemaInv
<1>7. CASE DoRecordSchema
  <2>1. PICK name \in TypeNames, ok \in WriteOutcomes(session) :
          /\ session' = RecordSchema(session, name, ok)
          /\ name \in session.written_schemas => ok
          /\ failed' = (failed \/ ~ok)
    BY <1>7 DEF DoRecordSchema
  <2>2. ok \in BOOLEAN
    BY OutcomesAreBoolean
  <2>3. Same(session', session, Options \cup {"ring", "pending",
                     "hashes_by_tick", "checked_ticks", "cumulative"})
    BY <1>1, <2>1, <2>2, RecordSchemaEffect
  <2>4. session'.recording = session.recording
    BY <2>3 DEF Same, Options
  <2>5. /\ Once(session) => Once(session')
        /\ session.recording /\ ok /\ Complete(session) => Complete(session')
    BY <1>1, <2>1, <2>2, RecordSchemaKeepsSchemas
  <2>6. QED
    BY <1>1, <2>1, <2>4, <2>5, KeepsSchemaInv
<1>8. CASE DoTakePendingHashesUpTo
  <2>1. PICK max \in 0 .. Len(session.pending) :
          session' = TakePendingHashesUpTo(session, max) /\ failed' = failed
    BY <1>8 DEF DoTakePendingHashesUpTo
  <2>2. max \in Nat
    BY <1>1 DEF SessionType
  <2>3. Same(session', session, Options \cup {"ring", "hashes_by_tick", "file",
                         "checked_ticks", "cumulative", "written_schemas"})
    BY <1>1, <2>1, <2>2, TakePendingEffect
  <2>4. /\ session'.written_schemas = session.written_schemas
        /\ session'.recording = session.recording /\ session'.file = session.file
    BY <2>3 DEF Same, Options
  <2>5. (Once(session) => Once(session')) /\ (Complete(session) => Complete(session'))
    BY <2>4 DEF Once, Complete
  <2>6. QED
    BY <1>1, <2>1, <2>4, <2>5, KeepsSchemaInv
<1>9. CASE DoCheckDivergence
  <2>1. failed' = failed /\ (session' = session \/
          \E t \in Ticks : session' = Flag(session, t))
    BY <1>9 DEF DoCheckDivergence, Earliest, Divergent
  <2>2. /\ session'.written_schemas = session.written_schemas
        /\ session'.recording = session.recording /\ session'.file = session.file
    <3>1. ASSUME NEW t \in Ticks, session' = Flag(session, t)
          PROVE  Same(session', session, Options \cup {"ring", "pending",
                   "hashes_by_tick", "file", "cumulative", "written_schemas"})
      BY <1>1, <3>1, FlagEffect
    <3>2. QED
      BY <2>1, <3>1 DEF Same, Options
  <2>3. (Once(session) => Once(session')) /\ (Complete(session) => Complete(session'))
    BY <2>2 DEF Once, Complete
  <2>4. QED
    BY <1>1, <2>1, <2>2, <2>3, KeepsSchemaInv
<1>10. CASE DoFinishRecording
  <2>1. PICK ok \in WriteOutcomes(session), flushed \in WriteOutcomes(session) :
          session' = FinishRecording(session, ok)
          /\ failed' = (failed \/ ~ok \/ ~flushed)
    BY <1>10 DEF DoFinishRecording
  <2>2. ok \in BOOLEAN
    BY OutcomesAreBoolean
  <2>3. /\ session'.file = Written(session, EndOfStream, ok)
        /\ Same(session', session, Options \cup {"ring", "pending", "hashes_by_tick",
                       "checked_ticks", "cumulative", "written_schemas"})
    BY <1>1, <2>1, <2>2, FinishRecordingEffect
  <2>4. session'.written_schemas = session.written_schemas
        /\ session'.recording = session.recording
    BY <2>3 DEF Same, Options
  <2>5. EndOfStream \in Frame
        /\ \A name \in TypeNames : EndOfStream # MetadataFrame(name)
    BY FrameTypes, OtherFrames
  <2>6. session'.file \in {session.file, Append(session.file, EndOfStream),
                            Append(session.file, Remnant)}
    BY <1>1, <2>2, <2>3, <2>5, WrittenType
  <2>7. (Once(session) => Once(session')) /\ (Complete(session) => Complete(session'))
    BY <1>1, <2>4, <2>5, <2>6, OtherFrameKeepsSchemas
  <2>8. QED
    BY <1>1, <2>1, <2>4, <2>7, KeepsSchemaInv
<1>11. CASE UNCHANGED vars
  <2>1. session' = session /\ failed' = failed
    BY <1>11 DEF vars
  <2>2. QED
    BY <1>1, <2>1, KeepsSchemaInv
<1>12. QED
  BY <1>3, <1>4, <1>5, <1>6, <1>7, <1>8, <1>9, <1>10, <1>11 DEF Next

\* extract_schemas can take any Metadata frame of a type for the only one,
\* and a recording without errors lacks none.
THEOREM SchemaWrittenOnceCorrect == Spec => []SchemaWrittenOnce
<1>1. SchemaInv => SchemaWrittenOnce
  BY DEF SchemaInv, SchemaWrittenOnce, Once, Complete, MetaAt
<1>2. QED
  BY <1>1, InitSchemaInv, StepSchemaInv, PTL DEF Spec
----------------------------------------------------------------------------
(* The retention ring *)

\* What the ring keeps of a report, and the newest n of a history.
Item(report) == [tick |-> report.tick, hash |-> report.hash]

Newest(history, n) ==
  LET kept == IF Len(history) <= n THEN Len(history) ELSE n
      skip == Len(history) - kept
  IN  [i \in 1 .. kept |-> Item(history[skip + i])]

RingInv == TypeOK /\ session.ring = Newest(reports, session.retention)

LEMMA ItemType ==
  ASSUME NEW report \in Report
  PROVE  Item(report) \in TickHash
BY DEF Item, Report, TickHash

\* Newest, entry by entry, for a history that fits and one that does not.
LEMMA NewestEntries ==
  ASSUME NEW history \in Seq(Report), NEW n \in Nat
  PROVE  LET ring == Newest(history, n)
             m == Len(history)
         IN  /\ ring \in Seq(TickHash)
             /\ m <= n => /\ Len(ring) = m
                          /\ \A i \in 1 .. m : ring[i] = Item(history[i])
             /\ m >= n => /\ Len(ring) = n
                          /\ \A i \in 1 .. n : ring[i] = Item(history[(m - n) + i])
<1> DEFINE m == Len(history)
           kept == IF m <= n THEN m ELSE n
           skip == m - kept
           ring == Newest(history, n)
<1>1. m \in Nat /\ kept \in Nat /\ skip \in Nat /\ skip + kept = m
  OBVIOUS
<1>2. ring = [i \in 1 .. kept |-> Item(history[skip + i])]
  BY DEF Newest
<1> HIDE DEF ring
<1>3. ASSUME NEW i \in 1 .. kept
      PROVE  Item(history[skip + i]) \in TickHash
  <2> DEFINE at == skip + i
  <2>1. at \in 1 .. Len(history)
    BY <1>1
  <2> HIDE DEF at
  <2>2. history[at] \in Report
    BY <2>1
  <2>3. QED
    BY <2>2, ItemType DEF at
<1>4. ring \in [1 .. kept -> TickHash] /\ DOMAIN ring = 1 .. kept
  BY <1>2, <1>3
<1>5. ring \in Seq(TickHash) /\ Len(ring) = kept
  BY <1>1, <1>4
<1>6. m <= n => kept = m /\ skip = 0
  BY <1>1
<1>7. m >= n => kept = n /\ skip = m - n
  <2>1. m >= n => kept = n
    <3> HIDE DEF m
    <3>1. QED
      BY <1>1
  <2>2. QED
    BY <2>1
<1> HIDE DEF kept, skip
<1>8. m <= n => \A i \in 1 .. m : ring[i] = Item(history[i])
  <2> SUFFICES ASSUME m <= n, NEW i \in 1 .. m
               PROVE  ring[i] = Item(history[i])
    OBVIOUS
  <2>1. ring[i] = Item(history[skip + i]) /\ skip + i = i
    BY <1>2, <1>6
  <2>2. QED
    BY <2>1 DEF Item
<1>9. m >= n => \A i \in 1 .. n : ring[i] = Item(history[(m - n) + i])
  <2> SUFFICES ASSUME m >= n, NEW i \in 1 .. n
               PROVE  ring[i] = Item(history[(m - n) + i])
    OBVIOUS
  <2>1. QED
    BY <1>2, <1>7
<1>10. (m <= n => Len(ring) = m) /\ (m >= n => Len(ring) = n)
  BY <1>5, <1>6, <1>7
<1> HIDE DEF m
<1>11. QED
  BY <1>5, <1>8, <1>9, <1>10 DEF ring, m

\* Pushing a report onto the newest n of a history leaves the newest n.
LEMMA PushKeepsNewest ==
  ASSUME NEW history \in Seq(Report), NEW report \in Report, NEW n \in Nat
  PROVE  Push(Newest(history, n), n, Item(report))
           = Newest(Append(history, report), n)
<1> DEFINE m == Len(history)
           item == Item(report)
           longer == Append(history, report)
           ring == Newest(history, n)
           next == Newest(longer, n)
           pushed == Push(ring, n, item)
<1>1. /\ longer \in Seq(Report) /\ Len(longer) = m + 1 /\ m \in Nat
      /\ longer[m + 1] = report
      /\ \A i \in 1 .. m : longer[i] = history[i]
  BY AppendEntries
<1>2. /\ ring \in Seq(TickHash)
      /\ m <= n => Len(ring) = m /\ \A i \in 1 .. m : ring[i] = Item(history[i])
      /\ m >= n => /\ Len(ring) = n
                   /\ \A i \in 1 .. n : ring[i] = Item(history[(m - n) + i])
  BY NewestEntries
<1> HIDE DEF longer
<1>3. /\ next \in Seq(TickHash)
      /\ m + 1 <= n => /\ Len(next) = m + 1
                       /\ \A i \in 1 .. m + 1 : next[i] = Item(longer[i])
      /\ m + 1 >= n => /\ Len(next) = n
                       /\ \A i \in 1 .. n : next[i] = Item(longer[(m + 1 - n) + i])
  <2> DEFINE k == Len(longer)
  <2>1. /\ next \in Seq(TickHash)
        /\ k <= n => /\ Len(next) = k
                     /\ \A i \in 1 .. k : next[i] = Item(longer[i])
        /\ k >= n => /\ Len(next) = n
                     /\ \A i \in 1 .. n : next[i] = Item(longer[(k - n) + i])
    BY <1>1, NewestEntries
  <2>2. k = m + 1
    BY <1>1
  <2> HIDE DEF k
  <2>3. QED
    BY <2>1, <2>2
<1>4. item \in TickHash
  BY ItemType
<1>5. pushed \in Seq(TickHash)
  BY <1>2, <1>4, PushType
<1>6. pushed = IF n = 0 THEN ring
               ELSE Append(IF Len(ring) = n THEN Tail(ring) ELSE ring, item)
  BY DEF Push
<1> HIDE DEF item, ring, next, pushed, m
<1>7. CASE n = 0
  <2>1. pushed = ring /\ Len(ring) = 0 /\ Len(next) = 0
    BY <1>1, <1>2, <1>3, <1>6, <1>7
  <2>2. QED
    BY <2>1, <1>2, <1>3, SeqEqual DEF ring, next, pushed, item, longer
<1>8. CASE n # 0 /\ m < n
  <2>1. m <= n /\ m + 1 <= n /\ Len(ring) = m /\ Len(ring) # n /\ Len(next) = m + 1
    BY <1>1, <1>2, <1>3, <1>8
  <2>2. pushed = Append(ring, item)
    BY <2>1, <1>6, <1>8
  <2>3. /\ Len(pushed) = m + 1 /\ pushed[m + 1] = item
        /\ \A i \in 1 .. m : pushed[i] = ring[i]
    BY <2>1, <2>2, <1>2, <1>4, AppendEntries
  <2>4. ASSUME NEW i \in 1 .. m + 1 PROVE pushed[i] = next[i]
    <3>1. next[i] = Item(longer[i])
      BY <2>1, <1>3
    <3>2. CASE i = m + 1
      BY <3>1, <3>2, <2>3, <1>1 DEF item
    <3>3. CASE i \in 1 .. m
      BY <3>1, <3>3, <2>1, <2>3, <1>1, <1>2
    <3>4. QED
      BY <3>2, <3>3, <1>1
  <2>5. pushed = next
    BY <2>1, <2>3, <2>4, <1>3, <1>5, SeqEqual
  <2>6. QED
    BY <2>5 DEF ring, next, pushed, item, longer
<1>9. CASE n # 0 /\ m >= n
  <2>1. m + 1 >= n /\ Len(ring) = n /\ Len(next) = n /\ n - 1 \in Nat
    BY <1>1, <1>2, <1>3, <1>9
  <2>2. pushed = Append(Tail(ring), item)
    BY <2>1, <1>6, <1>9
  <2>3. /\ Tail(ring) \in Seq(TickHash) /\ Len(Tail(ring)) = n - 1
        /\ \A i \in 1 .. n - 1 : Tail(ring)[i] = ring[i + 1]
    BY <2>1, <1>2, <1>9
  <2>4. /\ Len(pushed) = n /\ pushed[n] = item
        /\ \A i \in 1 .. n - 1 : pushed[i] = ring[i + 1]
    <3> DEFINE tail == Tail(ring)
    <3>1. tail \in Seq(TickHash) /\ Len(tail) = n - 1
          /\ \A i \in 1 .. n - 1 : tail[i] = ring[i + 1]
      BY <2>3
    <3> HIDE DEF tail
    <3>2. pushed = Append(tail, item)
      BY <2>2 DEF tail
    <3>3. /\ Len(pushed) = (n - 1) + 1 /\ pushed[(n - 1) + 1] = item
          /\ \A i \in 1 .. n - 1 : pushed[i] = tail[i]
      BY <3>1, <3>2, <1>4, AppendEntries
    <3>4. QED
      BY <3>1, <3>3
  <2>5. ASSUME NEW i \in 1 .. n PROVE pushed[i] = next[i]
    <3>1. next[i] = Item(longer[(m + 1 - n) + i])
      BY <2>1, <1>3
    <3>2. CASE i = n
      <4>1. (m + 1 - n) + i = m + 1
        BY <3>2, <1>1
      <4>2. QED
        BY <4>1, <3>1, <3>2, <2>4, <1>1 DEF item
    <3>3. CASE i \in 1 .. n - 1
      <4>1. /\ i + 1 \in 1 .. n
            /\ (m - n) + (i + 1) = (m + 1 - n) + i
            /\ (m + 1 - n) + i \in 1 .. m
        BY <3>3, <1>1, <1>9
      <4>2. pushed[i] = Item(history[(m - n) + (i + 1)])
        BY <4>1, <3>3, <2>4, <1>2, <1>9
      <4>3. QED
        BY <4>1, <4>2, <3>1, <1>1
    <3>4. QED
      BY <3>2, <3>3, <2>1
  <2>6. pushed = next
    BY <2>1, <2>4, <2>5, <1>3, <1>5, SeqEqual
  <2>7. QED
    BY <2>6 DEF ring, next, pushed, item, longer
<1>10. QED
  BY <1>1, <1>7, <1>8, <1>9

\* A report the session takes in enters its ring.
LEMMA ReportEntersRing ==
  ASSUME NEW s \in SessionType, NEW history \in Seq(Report),
         s.ring = Newest(history, s.retention),
         NEW t \in Ticks, NEW p \in Peers, NEW h \in Hashes, NEW r,
         r.ring = Push(s.ring, s.retention, [tick |-> t, hash |-> h]),
         r.retention = s.retention
  PROVE  r.ring = Newest(Append(history, [tick |-> t, peer |-> p, hash |-> h]),
                         r.retention)
<1> DEFINE report == [tick |-> t, peer |-> p, hash |-> h]
<1>1. report \in Report /\ Item(report) = [tick |-> t, hash |-> h]
      /\ s.retention \in Nat
  BY DEF Report, Item, SessionType
<1> HIDE DEF report
<1>2. Push(Newest(history, s.retention), s.retention, Item(report))
        = Newest(Append(history, report), s.retention)
  BY <1>1, PushKeepsNewest
<1>3. QED
  BY <1>1, <1>2 DEF report

LEMMA InitRingInv == Init => RingInv
<1> SUFFICES ASSUME Init PROVE RingInv
  OBVIOUS
<1>1. session.ring = << >> /\ reports = << >>
  BY DEF Init, Build
<1>2. TypeOK
  BY InitType
<1>3. session.retention \in Nat /\ reports \in Seq(Report) /\ Len(reports) = 0
  BY <1>1, <1>2 DEF TypeOK, SessionType
<1> DEFINE ring == Newest(reports, session.retention)
<1>4. ring \in Seq(TickHash) /\ (Len(reports) <= session.retention => Len(ring) = Len(reports))
  BY <1>3, NewestEntries
<1> HIDE DEF ring
<1>5. ring = << >>
  BY <1>3, <1>4
<1>6. QED
  BY <1>1, <1>2, <1>5 DEF RingInv, ring

\* A call that makes no report leaves the ring alone.
LEMMA QuietRing ==
  ASSUME RingInv, TypeOK', reports' = reports,
         session'.ring = session.ring, session'.retention = session.retention
  PROVE  RingInv'
BY DEF RingInv, Newest

LEMMA StepRingInv == RingInv /\ [Next]_vars => RingInv'
<1> SUFFICES ASSUME RingInv, [Next]_vars PROVE RingInv'
  OBVIOUS
<1>1. /\ TypeOK' /\ session \in SessionType /\ reports \in Seq(Report)
      /\ session.ring = Newest(reports, session.retention)
      /\ LocalPeer \in Peers /\ session.local_peer_id \in Peers
  BY StepType, SessionAssumption DEF RingInv, TypeOK, SessionType
<1>2. ASSUME NEW report \in Report, Reporting(<<report>>),
             session'.ring = Newest(Append(reports, report), session'.retention)
      PROVE  RingInv'
  <2>1. reports' = Append(reports, report)
    BY <1>1, <1>2 DEF Reporting
  <2>2. QED
    BY <1>1, <1>2, <2>1 DEF RingInv, Newest
<1>3. ASSUME NEW s \in SessionType, NEW t \in Ticks, NEW p \in Peers,
             NEW h \in Hashes, NEW ok \in BOOLEAN
      PROVE  LET r == RecordPeerHash(s, t, p, h, ok)
             IN  /\ r \in SessionType /\ r.retention = s.retention
                 /\ r.ring = Push(s.ring, s.retention, [tick |-> t, hash |-> h])
  <2> DEFINE r == RecordPeerHash(s, t, p, h, ok)
  <2>1. /\ r \in SessionType
        /\ r.ring = Push(s.ring, s.retention, [tick |-> t, hash |-> h])
        /\ Same(r, s, Options \cup {"pending", "checked_ticks",
                                    "cumulative", "written_schemas"})
    BY RecordPeerHashEffect
  <2> HIDE DEF r
  <2>2. QED
    BY <2>1 DEF Same, Options, r
<1>4. CASE DoHashTick
  <2>1. PICK t \in Ticks, h \in Hashes, ok \in WriteOutcomes(session) :
          /\ session' = HashTick(session, t, h, ok)
          /\ Reporting(<<[tick |-> t, peer |-> LocalPeer, hash |-> h]>>)
    BY <1>4 DEF DoHashTick
  <2>2. ok \in BOOLEAN
    BY OutcomesAreBoolean
  <2>3. /\ session'.ring = Push(session.ring, session.retention,
                                [tick |-> t, hash |-> h])
        /\ Same(session', session, Options \cup {"checked_ticks", "written_schemas"})
    BY <1>1, <2>1, <2>2, HashTickEffect
  <2>4. session'.retention = session.retention
    BY <2>3 DEF Same, Options
  <2> DEFINE report == [tick |-> t, peer |-> LocalPeer, hash |-> h]
  <2>5. report \in Report
    BY <1>1 DEF Report
  <2>6. session'.ring = Newest(Append(reports, report), session'.retention)
    BY <1>1, <2>3, <2>4, ReportEntersRing
  <2>7. QED
    BY <1>2, <2>1, <2>5, <2>6
<1>5. CASE DoRecordPeerHash
  <2>1. PICK t \in Ticks, p \in Peers, h \in Hashes, ok \in WriteOutcomes(session) :
          /\ session' = RecordPeerHash(session, t, p, h, ok)
          /\ Reporting(<<[tick |-> t, peer |-> p, hash |-> h]>>)
    BY <1>5 DEF DoRecordPeerHash
  <2>2. ok \in BOOLEAN
    BY OutcomesAreBoolean
  <2>3. /\ session'.retention = session.retention
        /\ session'.ring = Push(session.ring, session.retention,
                                [tick |-> t, hash |-> h])
    BY <1>1, <1>3, <2>1, <2>2
  <2> DEFINE report == [tick |-> t, peer |-> p, hash |-> h]
  <2>4. report \in Report
    BY DEF Report
  <2>5. session'.ring = Newest(Append(reports, report), session'.retention)
    BY <1>1, <2>3, ReportEntersRing
  <2>6. QED
    BY <1>2, <2>1, <2>4, <2>5
<1>6. CASE DoRecordDesync
  <2>1. PICK t \in Ticks, remote \in Peers \ {LocalPeer}, lh \in Hashes,
             rh \in Hashes, ok1 \in WriteOutcomes(session),
             ok2 \in WriteOutcomes(session) :
          /\ session' = RecordDesync(session, t, LocalPeer, remote,
                                     lh, rh, ok1, ok2)
          /\ Reporting(DesyncReports(t, remote, lh, rh, ok1))
    BY <1>6 DEF DoRecordDesync
  <2>2. ok1 \in BOOLEAN /\ ok2 \in BOOLEAN
    BY OutcomesAreBoolean
  <2> DEFINE r == RecordPeerHash(session, t, LocalPeer, lh, ok1)
             k == RecordPeerHash(r, t, remote, rh, ok2)
             mine == [tick |-> t, peer |-> LocalPeer, hash |-> lh]
             theirs == [tick |-> t, peer |-> remote, hash |-> rh]
  <2>3. session' = IF ok1 THEN k ELSE r
    BY <2>1 DEF RecordDesync
  <2>4. Reporting(IF ok1 THEN <<mine, theirs>> ELSE <<mine>>)
    BY <2>1 DEF DesyncReports
  <2>5. /\ r \in SessionType /\ r.retention = session.retention
        /\ r.ring = Push(session.ring, session.retention, [tick |-> t, hash |-> lh])
    BY <1>1, <1>3, <2>2
  <2> HIDE DEF r
  <2>6. /\ k.retention = r.retention
        /\ k.ring = Push(r.ring, r.retention, [tick |-> t, hash |-> rh])
    BY <1>3, <2>2, <2>5
  <2> HIDE DEF k
  <2>7. mine \in Report /\ theirs \in Report
    BY <1>1 DEF Report
  <2>8. r.ring = Newest(Append(reports, mine), r.retention)
    BY <1>1, <2>5, ReportEntersRing
  <2>9. Append(reports, mine) \in Seq(Report)
    BY <1>1, <2>7, AppendEntries
  <2> DEFINE first == Append(reports, mine)
  <2>10. k.ring = Newest(Append(first, theirs), k.retention)
    <3>1. first \in Seq(Report) /\ r.ring = Newest(first, r.retention)
      BY <2>8, <2>9
    <3> HIDE DEF first
    <3>2. QED
      BY <3>1, <2>5, <2>6, ReportEntersRing
  <2>11. CASE ok1
    <3>1. reports' = reports \o <<mine, theirs>>
      BY <2>4, <2>11 DEF Reporting
    <3> HIDE DEF mine, theirs
    <3>2. reports \o <<mine, theirs>> = Append(first, theirs)
      BY <1>1, <2>7 DEF first
    <3>3. QED
      BY <1>1, <2>3, <2>10, <2>11, <3>1, <3>2 DEF RingInv, Newest, first
  <2>12. CASE ~ ok1
    <3>1. Reporting(<<mine>>) /\ session' = r
      BY <2>3, <2>4, <2>12
    <3> HIDE DEF mine
    <3>2. QED
      BY <1>2, <2>7, <2>8, <3>1
  <2>13. QED
    BY <2>11, <2>12
<1>7. CASE DoRecordPeerDetail
  <2>1. PICK level \in DetailLevels, ok \in WriteOutcomes(session) :
          session' = RecordPeerDetail(session, level, ok) /\ reports' = reports
    BY <1>7 DEF DoRecordPeerDetail
  <2>2. ok \in BOOLEAN
    BY OutcomesAreBoolean
  <2>3. Same(session', session, Options \cup {"ring", "pending", "hashes_by_tick",
                   "checked_ticks", "cumulative", "written_schemas"})
    BY <1>1, <2>1, <2>2, RecordPeerDetailEffect
  <2>4. session'.ring = session.ring /\ session'.retention = session.retention
    BY <2>3 DEF Same, Options
  <2>5. QED
    BY <1>1, <2>1, <2>4, QuietRing
<1>8. CASE DoRecordSchema
  <2>1. PICK name \in TypeNames, ok \in WriteOutcomes(session) :
          session' = RecordSchema(session, name, ok) /\ reports' = reports
    BY <1>8 DEF DoRecordSchema
  <2>2. ok \in BOOLEAN
    BY OutcomesAreBoolean
  <2>3. Same(session', session, Options \cup {"ring", "pending",
                     "hashes_by_tick", "checked_ticks", "cumulative"})
    BY <1>1, <2>1, <2>2, RecordSchemaEffect
  <2>4. session'.ring = session.ring /\ session'.retention = session.retention
    BY <2>3 DEF Same, Options
  <2>5. QED
    BY <1>1, <2>1, <2>4, QuietRing
<1>9. CASE DoTakePendingHashesUpTo
  <2>1. PICK max \in 0 .. Len(session.pending) :
          session' = TakePendingHashesUpTo(session, max) /\ reports' = reports
    BY <1>9 DEF DoTakePendingHashesUpTo
  <2>2. max \in Nat
    BY <1>1 DEF SessionType
  <2>3. Same(session', session, Options \cup {"ring", "hashes_by_tick", "file",
                         "checked_ticks", "cumulative", "written_schemas"})
    BY <1>1, <2>1, <2>2, TakePendingEffect
  <2>4. session'.ring = session.ring /\ session'.retention = session.retention
    BY <2>3 DEF Same, Options
  <2>5. QED
    BY <1>1, <2>1, <2>4, QuietRing
<1>10. CASE DoCheckDivergence
  <2>1. reports' = reports /\ (session' = session \/
          \E t \in Ticks : session' = Flag(session, t))
    BY <1>10 DEF DoCheckDivergence, Earliest, Divergent
  <2>2. session'.ring = session.ring /\ session'.retention = session.retention
    <3>1. ASSUME NEW t \in Ticks, session' = Flag(session, t)
          PROVE  Same(session', session, Options \cup {"ring", "pending",
                   "hashes_by_tick", "file", "cumulative", "written_schemas"})
      BY <1>1, <3>1, FlagEffect
    <3>2. QED
      BY <2>1, <3>1 DEF Same, Options
  <2>3. QED
    BY <1>1, <2>1, <2>2, QuietRing
<1>11. CASE DoFinishRecording
  <2>1. PICK ok \in WriteOutcomes(session) :
          session' = FinishRecording(session, ok) /\ reports' = reports
    BY <1>11 DEF DoFinishRecording
  <2>2. ok \in BOOLEAN
    BY OutcomesAreBoolean
  <2>3. Same(session', session, Options \cup {"ring", "pending", "hashes_by_tick",
                       "checked_ticks", "cumulative", "written_schemas"})
    BY <1>1, <2>1, <2>2, FinishRecordingEffect
  <2>4. session'.ring = session.ring /\ session'.retention = session.retention
    BY <2>3 DEF Same, Options
  <2>5. QED
    BY <1>1, <2>1, <2>4, QuietRing
<1>12. CASE UNCHANGED vars
  BY <1>1, <1>12, QuietRing DEF vars
<1>13. QED
  BY <1>4, <1>5, <1>6, <1>7, <1>8, <1>9, <1>10, <1>11, <1>12 DEF Next

\* While no tick is reported twice the ring holds the newest ticks, as many as
\* fit, for every capacity: RingBuffer::push drops the oldest and nothing else.
THEOREM RetainsNewestCorrect == Spec => []RetainsNewest
<1>1. RingInv => RetainsNewest
  BY DEF RingInv, RetainsNewest, Newest, Item
<1>2. QED
  BY <1>1, InitRingInv, StepRingInv, PTL DEF Spec
============================================================================
