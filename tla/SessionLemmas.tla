--------------------------- MODULE SessionLemmas ---------------------------
(***************************************************************************)
(* Lemmas about the methods of SessionState: what each one does to every   *)
(* field of a session, and what the scan for a divergence tells apart.     *)
(* SessionProofs and PeerExchangeProofs rest on them.                      *)
(***************************************************************************)
EXTENDS SessionState, TLAPS, SequenceTheorems, WellFoundedInduction

\* r and s have the same value in each of these fields.
Same(r, s, fields) == \A f \in fields : r[f] = s[f]

Options == {"local_peer_id", "retention", "recording"}

----------------------------------------------------------------------------
(* Arithmetic and sequences *)

LEMMA LeastExists ==
  ASSUME NEW T \in SUBSET Nat, T # {}
  PROVE  \E x \in T : \A y \in T : x <= y
<1>1. PICK x \in T : \A y \in T : ~ (<<y, x>> \in OpToRel(<, Nat))
  BY NatLessThanWellFounded, WFMin
<1>2. \A y \in T : ~ (y < x)
  BY <1>1 DEF OpToRel
<1>3. \A y \in T : x \in Nat /\ y \in Nat
  OBVIOUS
<1>4. QED
  BY <1>2, <1>3

LEMMA AppendEntries ==
  ASSUME NEW S, NEW seq \in Seq(S), NEW e \in S
  PROVE  /\ Append(seq, e) \in Seq(S)
         /\ DOMAIN Append(seq, e) = 1 .. Len(seq) + 1
         /\ DOMAIN seq = 1 .. Len(seq)
         /\ Len(Append(seq, e)) = Len(seq) + 1
         /\ Append(seq, e)[Len(seq) + 1] = e
         /\ \A i \in DOMAIN seq : Append(seq, e)[i] = seq[i]
OBVIOUS

LEMMA ConcatAppend ==
  ASSUME NEW S, NEW front \in Seq(S), NEW back \in Seq(S), NEW e \in S
  PROVE  front \o Append(back, e) = Append(front \o back, e)
<1> DEFINE left == front \o Append(back, e)
           right == Append(front \o back, e)
<1>1. left \in Seq(S) /\ right \in Seq(S) /\ Len(left) = Len(right)
  OBVIOUS
<1>2. \A i \in 1 .. Len(left) : left[i] = right[i]
  OBVIOUS
<1> HIDE DEF left, right
<1>3. left = right
  BY <1>1, <1>2, SeqEqual
<1>4. QED
  BY <1>3 DEF left, right

LEMMA PushType ==
  ASSUME NEW S, NEW ring \in Seq(S), NEW capacity \in Nat, NEW item \in S
  PROVE  Push(ring, capacity, item) \in Seq(S)
<1>1. CASE capacity = 0
  BY <1>1 DEF Push
<1>2. CASE capacity # 0 /\ Len(ring) = capacity
  <2>1. Tail(ring) \in Seq(S)
    BY <1>2
  <2>2. QED
    BY <1>2, <2>1 DEF Push
<1>3. CASE capacity # 0 /\ Len(ring) # capacity
  BY <1>3 DEF Push
<1>4. QED
  BY <1>1, <1>2, <1>3

----------------------------------------------------------------------------
(* Setting fields of a session *)

LEMMA SetReport ==
  ASSUME NEW s \in SessionType, NEW ring \in Seq(TickHash),
         NEW table \in [Ticks -> Seq(PeerHash)], NEW file \in Seq(FileEntry)
  PROVE  LET r == [s EXCEPT !.ring = ring, !.hashes_by_tick = table,
                            !.file = file]
         IN  /\ r \in SessionType
             /\ r.ring = ring /\ r.hashes_by_tick = table /\ r.file = file
             /\ Same(r, s, Options \cup {"pending", "checked_ticks",
                                         "cumulative", "written_schemas"})
BY DEF SessionType, Same, Options

LEMMA SetPendingAndCumulative ==
  ASSUME NEW s \in SessionType, NEW pending \in Seq(TickHash),
         NEW cumulative \in Seq(TickHash)
  PROVE  LET r == [s EXCEPT !.pending = pending, !.cumulative = cumulative]
         IN  /\ r \in SessionType
             /\ r.pending = pending /\ r.cumulative = cumulative
             /\ Same(r, s, Options \cup {"ring", "hashes_by_tick", "file",
                                         "checked_ticks", "written_schemas"})
BY DEF SessionType, Same, Options

LEMMA SetFile ==
  ASSUME NEW s \in SessionType, NEW file \in Seq(FileEntry)
  PROVE  LET r == [s EXCEPT !.file = file]
         IN  /\ r \in SessionType
             /\ r.file = file
             /\ Same(r, s, Options \cup {"ring", "pending", "hashes_by_tick",
                            "checked_ticks", "cumulative", "written_schemas"})
BY DEF SessionType, Same, Options

LEMMA SetSchemas ==
  ASSUME NEW s \in SessionType, NEW schemas \in SUBSET TypeNames,
         NEW file \in Seq(FileEntry)
  PROVE  LET r == [s EXCEPT !.written_schemas = schemas, !.file = file]
         IN  /\ r \in SessionType
             /\ r.written_schemas = schemas /\ r.file = file
             /\ Same(r, s, Options \cup {"ring", "pending", "hashes_by_tick",
                                         "checked_ticks", "cumulative"})
BY DEF SessionType, Same, Options

LEMMA SetPending ==
  ASSUME NEW s \in SessionType, NEW pending \in Seq(TickHash)
  PROVE  LET r == [s EXCEPT !.pending = pending]
         IN  /\ r \in SessionType
             /\ r.pending = pending
             /\ Same(r, s, Options \cup {"ring", "hashes_by_tick", "file",
                            "checked_ticks", "cumulative", "written_schemas"})
BY DEF SessionType, Same, Options

LEMMA SetChecked ==
  ASSUME NEW s \in SessionType, NEW checked \in SUBSET Ticks
  PROVE  LET r == [s EXCEPT !.checked_ticks = checked]
         IN  /\ r \in SessionType
             /\ r.checked_ticks = checked
             /\ Same(r, s, Options \cup {"ring", "pending", "hashes_by_tick",
                            "file", "cumulative", "written_schemas"})
BY DEF SessionType, Same, Options

----------------------------------------------------------------------------
(* What each method does *)

LEMMA WrittenType ==
  ASSUME NEW s \in SessionType, NEW frame \in Frame, NEW ok \in BOOLEAN
  PROVE  /\ Written(s, frame, ok) \in Seq(FileEntry)
         /\ Written(s, frame, ok)
              \in {s.file, Append(s.file, frame), Append(s.file, Remnant)}
         /\ s.recording /\ ok => Written(s, frame, ok) = Append(s.file, frame)
<1>1. /\ s.file \in Seq(FileEntry)
      /\ Append(s.file, frame) \in Seq(FileEntry)
      /\ Append(s.file, Remnant) \in Seq(FileEntry)
  BY DEF SessionType, FileEntry
<1>2. QED
  BY <1>1 DEF Written

LEMMA FrameTypes ==
  /\ \A t \in Ticks, p \in Peers, h \in Hashes : TickHashFrame(t, p, h) \in Frame
  /\ \A level \in DetailLevels : DetailFrame(level) \in Frame
  /\ \A name \in TypeNames : MetadataFrame(name) \in Frame
  /\ EndOfStream \in Frame
  /\ Frame \subseteq FileEntry /\ Remnant \in FileEntry
BY DEF Frame, TickHashFrame, DetailFrame, MetadataFrame, EndOfStream, FileEntry

LEMMA BuildType ==
  ASSUME NEW local \in Peers, NEW retention \in Nat, NEW recording \in BOOLEAN
  PROVE  Build(local, retention, recording) \in SessionType
<1>1. << >> \in Seq(PeerHash) /\ << >> \in Seq(TickHash) /\ << >> \in Seq(FileEntry)
  OBVIOUS
<1>2. QED
  BY <1>1 DEF Build, SessionType

LEMMA AddReportEffect ==
  ASSUME NEW table \in [Ticks -> Seq(PeerHash)],
         NEW t \in Ticks, NEW p \in Peers, NEW h \in Hashes
  PROVE  LET new == AddReport(table, t, p, h)
         IN  /\ new \in [Ticks -> Seq(PeerHash)]
             /\ new[t] = Append(table[t], [peer |-> p, hash |-> h])
             /\ \A u \in Ticks : u # t => new[u] = table[u]
<1>1. [peer |-> p, hash |-> h] \in PeerHash
  BY DEF PeerHash
<1>2. Append(table[t], [peer |-> p, hash |-> h]) \in Seq(PeerHash)
  BY <1>1
<1>3. QED
  BY <1>2 DEF AddReport

LEMMA RecordPeerHashEffect ==
  ASSUME NEW s \in SessionType, NEW t \in Ticks, NEW p \in Peers,
         NEW h \in Hashes, NEW ok \in BOOLEAN
  PROVE  LET r == RecordPeerHash(s, t, p, h, ok)
         IN  /\ r \in SessionType
             /\ r.ring = Push(s.ring, s.retention, [tick |-> t, hash |-> h])
             /\ r.hashes_by_tick = AddReport(s.hashes_by_tick, t, p, h)
             /\ r.file = Written(s, TickHashFrame(t, p, h), ok)
             /\ Same(r, s, Options \cup {"pending", "checked_ticks",
                                         "cumulative", "written_schemas"})
<1> DEFINE ring == Push(s.ring, s.retention, [tick |-> t, hash |-> h])
           table == AddReport(s.hashes_by_tick, t, p, h)
           file == Written(s, TickHashFrame(t, p, h), ok)
<1>1. ring \in Seq(TickHash)
  BY PushType DEF SessionType, TickHash
<1>2. table \in [Ticks -> Seq(PeerHash)]
  BY AddReportEffect DEF SessionType
<1>3. file \in Seq(FileEntry)
  BY WrittenType, FrameTypes
<1>4. RecordPeerHash(s, t, p, h, ok) =
        [s EXCEPT !.ring = ring, !.hashes_by_tick = table, !.file = file]
  BY DEF RecordPeerHash
<1> HIDE DEF ring, table, file
<1>5. LET r == [s EXCEPT !.ring = ring, !.hashes_by_tick = table, !.file = file]
      IN  /\ r \in SessionType
          /\ r.ring = ring /\ r.hashes_by_tick = table /\ r.file = file
          /\ Same(r, s, Options \cup {"pending", "checked_ticks",
                                      "cumulative", "written_schemas"})
  BY <1>1, <1>2, <1>3, SetReport
<1>6. QED
  BY <1>4, <1>5 DEF ring, table, file

LEMMA HashTickEffect ==
  ASSUME NEW s \in SessionType, NEW t \in Ticks, NEW h \in Hashes,
         NEW ok \in BOOLEAN
  PROVE  LET r == HashTick(s, t, h, ok)
             item == [tick |-> t, hash |-> h]
         IN  /\ r \in SessionType
             /\ r.ring = Push(s.ring, s.retention, item)
             /\ r.hashes_by_tick =
                  AddReport(s.hashes_by_tick, t, s.local_peer_id, h)
             /\ r.file = Written(s, TickHashFrame(t, s.local_peer_id, h), ok)
             /\ r.pending = IF ok THEN Append(s.pending, item) ELSE s.pending
             /\ r.cumulative =
                  IF ok THEN Append(s.cumulative, item) ELSE s.cumulative
             /\ Same(r, s, Options \cup {"checked_ticks", "written_schemas"})
<1> DEFINE item == [tick |-> t, hash |-> h]
<1>1. s.local_peer_id \in Peers
  BY DEF SessionType
<1> DEFINE local == s.local_peer_id
           r1 == RecordPeerHash(s, t, local, h, ok)
           table == AddReport(s.hashes_by_tick, t, local, h)
           file == Written(s, TickHashFrame(t, local, h), ok)
<1> HIDE DEF local
<1>2. /\ r1 \in SessionType
      /\ r1.ring = Push(s.ring, s.retention, item)
      /\ r1.hashes_by_tick = table
      /\ r1.file = file
      /\ Same(r1, s, Options \cup {"pending", "checked_ticks",
                                   "cumulative", "written_schemas"})
  <2>1. local \in Peers
    BY <1>1 DEF local
  <2>2. QED
    BY <2>1, RecordPeerHashEffect
<1>3. r1.pending = s.pending /\ r1.cumulative = s.cumulative
  BY <1>2 DEF Same
<1>4. Append(s.pending, item) \in Seq(TickHash)
      /\ Append(s.cumulative, item) \in Seq(TickHash)
  BY DEF SessionType, TickHash
<1>5. HashTick(s, t, h, ok) =
        IF ok THEN [r1 EXCEPT !.pending = Append(r1.pending, item),
                              !.cumulative = Append(r1.cumulative, item)]
        ELSE r1
  BY DEF HashTick, local
<1> HIDE DEF r1, item, table, file
<1> DEFINE pending == Append(s.pending, item)
           cumulative == Append(s.cumulative, item)
           r2 == [r1 EXCEPT !.pending = pending, !.cumulative = cumulative]
<1> HIDE DEF pending, cumulative
<1>6. /\ r2 \in SessionType
      /\ r2.pending = pending /\ r2.cumulative = cumulative
      /\ Same(r2, r1, Options \cup {"ring", "hashes_by_tick", "file",
                                    "checked_ticks", "written_schemas"})
  <2>1. r1 \in SessionType
    BY <1>2
  <2>2. pending \in Seq(TickHash) /\ cumulative \in Seq(TickHash)
    BY <1>4 DEF pending, cumulative
  <2>3. QED
    BY <2>1, <2>2, SetPendingAndCumulative
<1>7. HashTick(s, t, h, ok) = IF ok THEN r2 ELSE r1
  BY <1>3, <1>5 DEF pending, cumulative
<1> HIDE DEF r2
<1>8. CASE ok
  <2>1. HashTick(s, t, h, ok) = r2
    BY <1>7, <1>8
  <2>2. Same(r2, s, Options \cup {"checked_ticks", "written_schemas"})
    BY <1>2, <1>6 DEF Same, Options
  <2>3. r2.ring = r1.ring /\ r2.hashes_by_tick = r1.hashes_by_tick
        /\ r2.file = r1.file
    BY <1>6 DEF Same
  <2>4. QED
    BY <2>1, <2>2, <2>3, <1>2, <1>6, <1>8
       DEF item, table, file, pending, cumulative, local
<1>9. CASE ~ok
  <2>1. HashTick(s, t, h, ok) = r1
    BY <1>7, <1>9
  <2>2. Same(r1, s, Options \cup {"checked_ticks", "written_schemas"})
    BY <1>2 DEF Same, Options
  <2>3. QED
    BY <2>1, <2>2, <1>2, <1>3, <1>9 DEF item, table, file, local
<1>10. QED
  BY <1>8, <1>9

LEMMA RecordPeerDetailEffect ==
  ASSUME NEW s \in SessionType, NEW level \in DetailLevels, NEW ok \in BOOLEAN
  PROVE  LET r == RecordPeerDetail(s, level, ok)
         IN  /\ r \in SessionType
             /\ r.file = Written(s, DetailFrame(level), ok)
             /\ Same(r, s, Options \cup {"ring", "pending", "hashes_by_tick",
                            "checked_ticks", "cumulative", "written_schemas"})
<1>1. Written(s, DetailFrame(level), ok) \in Seq(FileEntry)
  BY WrittenType, FrameTypes
<1>2. QED
  BY <1>1, SetFile DEF RecordPeerDetail

LEMMA FinishRecordingEffect ==
  ASSUME NEW s \in SessionType, NEW ok \in BOOLEAN
  PROVE  LET r == FinishRecording(s, ok)
         IN  /\ r \in SessionType
             /\ r.file = Written(s, EndOfStream, ok)
             /\ Same(r, s, Options \cup {"ring", "pending", "hashes_by_tick",
                            "checked_ticks", "cumulative", "written_schemas"})
<1>1. Written(s, EndOfStream, ok) \in Seq(FileEntry)
  BY WrittenType, FrameTypes
<1>2. QED
  BY <1>1, SetFile DEF FinishRecording

LEMMA RecordSchemaEffect ==
  ASSUME NEW s \in SessionType, NEW name \in TypeNames, NEW ok \in BOOLEAN
  PROVE  LET r == RecordSchema(s, name, ok)
         IN  /\ r \in SessionType
             /\ r.written_schemas = s.written_schemas \cup {name}
             /\ r.file = IF name \in s.written_schemas THEN s.file
                         ELSE Written(s, MetadataFrame(name), ok)
             /\ Same(r, s, Options \cup {"ring", "pending", "hashes_by_tick",
                                         "checked_ticks", "cumulative"})
<1>1. Written(s, MetadataFrame(name), ok) \in Seq(FileEntry)
  BY WrittenType, FrameTypes
<1>2. s.written_schemas \cup {name} \in SUBSET TypeNames
  BY DEF SessionType
<1>3. CASE name \in s.written_schemas
  BY <1>3 DEF RecordSchema, Same
<1>4. CASE name \notin s.written_schemas
  <2> DEFINE schemas == s.written_schemas \cup {name}
             file == Written(s, MetadataFrame(name), ok)
             r == [s EXCEPT !.written_schemas = schemas, !.file = file]
  <2>1. RecordSchema(s, name, ok) = r
    BY <1>4 DEF RecordSchema
  <2> HIDE DEF schemas, file
  <2>2. /\ r \in SessionType
        /\ r.written_schemas = schemas /\ r.file = file
        /\ Same(r, s, Options \cup {"ring", "pending", "hashes_by_tick",
                                    "checked_ticks", "cumulative"})
    BY <1>1, <1>2, SetSchemas DEF schemas, file
  <2>3. QED
    BY <2>1, <2>2, <1>4 DEF schemas, file
<1>5. QED
  BY <1>3, <1>4

LEMMA FlagEffect ==
  ASSUME NEW s \in SessionType, NEW t \in Ticks
  PROVE  LET r == Flag(s, t)
         IN  /\ r \in SessionType
             /\ r.checked_ticks = s.checked_ticks \cup {t}
             /\ Same(r, s, Options \cup {"ring", "pending", "hashes_by_tick",
                            "file", "cumulative", "written_schemas"})
<1> DEFINE checked == s.checked_ticks \cup {t}
<1>1. checked \in SUBSET Ticks
  BY DEF SessionType
<1>2. Flag(s, t) = [s EXCEPT !.checked_ticks = checked]
  BY DEF Flag
<1> HIDE DEF checked
<1>3. LET r == [s EXCEPT !.checked_ticks = checked]
      IN  /\ r \in SessionType
          /\ r.checked_ticks = checked
          /\ Same(r, s, Options \cup {"ring", "pending", "hashes_by_tick",
                         "file", "cumulative", "written_schemas"})
  BY <1>1, SetChecked
<1>4. QED
  BY <1>2, <1>3 DEF checked

\* A drain splits pending in two: what it returns, then what it leaves.
LEMMA TakePendingEffect ==
  ASSUME NEW s \in SessionType, NEW max \in Nat
  PROVE  LET r == TakePendingHashesUpTo(s, max)
         IN  /\ r \in SessionType
             /\ Drained(s, max) \in Seq(TickHash)
             /\ Drained(s, max) \o r.pending = s.pending
             /\ Same(r, s, Options \cup {"ring", "hashes_by_tick", "file",
                            "checked_ticks", "cumulative", "written_schemas"})
<1> DEFINE n == DrainCount(s, max)
           rest == SubSeq(s.pending, n + 1, Len(s.pending))
<1>1. s.pending \in Seq(TickHash)
  BY DEF SessionType
<1>2. n \in 0 .. Len(s.pending)
  BY <1>1 DEF DrainCount
<1>3. SubSeq(s.pending, 1, n) \in Seq(TickHash) /\ rest \in Seq(TickHash)
  <2>1. \A i \in 1 .. Len(s.pending) : s.pending[i] \in TickHash
    BY <1>1
  <2>2. \A i \in 1 .. n : s.pending[i] \in TickHash
    BY <1>2, <2>1
  <2>3. \A i \in n + 1 .. Len(s.pending) : s.pending[i] \in TickHash
    BY <1>2, <2>1
  <2>4. QED
    BY <1>1, <1>2, <2>2, <2>3, SubSeqProperties
<1>4. SubSeq(s.pending, 1, n) \o rest = s.pending
  <2> DEFINE len == Len(s.pending)
  <2>1. SubSeq(s.pending, 1, n) \o rest = SubSeq(s.pending, 1, len)
    <3>1. /\ len \in Nat /\ 1 \in 1 .. len + 1
          /\ n \in 1 - 1 .. len /\ len \in n .. len
      BY <1>1, <1>2
    <3> HIDE DEF n, len
    <3>2. SubSeq(s.pending, 1, n) \o SubSeq(s.pending, n + 1, len)
            = SubSeq(s.pending, 1, len)
      BY <1>1, <3>1, ConcatAdjacentSubSeq DEF len
    <3>3. QED
      BY <3>2 DEF len
  <2>2. QED
    BY <1>1, <2>1, SubSeqFull
<1>5. TakePendingHashesUpTo(s, max) = [s EXCEPT !.pending = rest]
  BY DEF TakePendingHashesUpTo
<1>6. Drained(s, max) = SubSeq(s.pending, 1, n)
  BY DEF Drained
<1> HIDE DEF rest, n
<1>7. LET r == [s EXCEPT !.pending = rest]
      IN  /\ r \in SessionType
          /\ r.pending = rest
          /\ Same(r, s, Options \cup {"ring", "hashes_by_tick", "file",
                         "checked_ticks", "cumulative", "written_schemas"})
  BY <1>3, SetPending
<1>8. QED
  BY <1>3, <1>4, <1>5, <1>6, <1>7

----------------------------------------------------------------------------
(* What the scans tell apart *)

\* Comparing with the first entry finds any two entries that differ.
LEMMA DisagreeIffTwoDiffer ==
  ASSUME NEW entries \in Seq(PeerHash)
  PROVE  Disagree(entries) <=>
           \E i, j \in DOMAIN entries : entries[i].hash # entries[j].hash
<1>1. DOMAIN entries = 1 .. Len(entries) /\ Len(entries) \in Nat
  OBVIOUS
<1>2. ASSUME NEW i \in DOMAIN entries, NEW j \in DOMAIN entries,
             entries[i].hash # entries[j].hash
      PROVE  Disagree(entries)
  <2>1. i # j
    BY <1>2
  <2>2. Len(entries) >= 2
    BY <1>1, <2>1
  <2>3. entries[i].hash # entries[1].hash \/ entries[j].hash # entries[1].hash
    BY <1>2
  <2>4. QED
    BY <2>2, <2>3 DEF Disagree
<1>3. ASSUME Disagree(entries)
      PROVE  \E i, j \in DOMAIN entries : entries[i].hash # entries[j].hash
  BY <1>1, <1>3 DEF Disagree
<1>4. QED
  BY <1>2, <1>3

\* The same of the command line's scan over a recording.
LEMMA FileDisagreesIffTwoDiffer ==
  ASSUME NEW file \in Seq(FileEntry), NEW t \in Ticks
  PROVE  FileDisagrees(file, t) <=>
           \E i, j \in FramesAt(file, t) : file[i].hash # file[j].hash
<1> DEFINE at == FramesAt(file, t)
<1>1. at \in SUBSET Nat
  BY DEF FramesAt
<1>2. ASSUME NEW i \in at, NEW j \in at, file[i].hash # file[j].hash
      PROVE  FileDisagrees(file, t)
  <2>1. PICK first \in at : \A k \in at : first <= k
    BY <1>1, LeastExists
  <2>2. file[i].hash # file[first].hash \/ file[j].hash # file[first].hash
    BY <1>2
  <2>3. QED
    BY <2>1, <2>2 DEF FileDisagrees
<1>3. FileDisagrees(file, t) =>
        \E i, j \in at : file[i].hash # file[j].hash
  BY DEF FileDisagrees
<1>4. QED
  BY <1>2, <1>3

\* What a reader finds in a legible part of a file, it would find in the whole.
LEMMA LegibleDisagrees ==
  ASSUME NEW file \in Seq(FileEntry), NEW part \in Legible(file),
         NEW t \in Ticks, FileDisagrees(part, t)
  PROVE  FileDisagrees(file, t)
<1>1. CASE part = file
  BY <1>1
<1>2. ASSUME NEW n \in DOMAIN file, part = SubSeq(file, 1, n - 1)
      PROVE  FileDisagrees(file, t)
  <2>1. /\ part \in Seq(FileEntry)
        /\ \A i \in DOMAIN part : i \in DOMAIN file /\ part[i] = file[i]
    BY <1>2
  <2>2. PICK i, j \in FramesAt(part, t) : part[i].hash # part[j].hash
    BY <2>1, FileDisagreesIffTwoDiffer
  <2>3. /\ i \in FramesAt(file, t) /\ j \in FramesAt(file, t)
        /\ file[i].hash # file[j].hash
    BY <2>1, <2>2 DEF FramesAt
  <2>4. QED
    BY <2>3, FileDisagreesIffTwoDiffer
<1>3. QED
  BY <1>1, <1>2 DEF Legible

----------------------------------------------------------------------------
(* Which reports a session holds, and which its recording holds *)

Occurs(x, seq) == \E i \in DOMAIN seq : seq[i] = x

InTable(s, t, p, h) == Occurs([peer |-> p, hash |-> h], s.hashes_by_tick[t])
InFile(s, t, p, h) == Occurs(TickHashFrame(t, p, h), s.file)

\* The same reports are in the table, or in the file, of r and of s.
SameTable(r, s) ==
  \A t \in Ticks, p \in Peers, h \in Hashes :
    InTable(r, t, p, h) <=> InTable(s, t, p, h)
SameFile(r, s) ==
  \A t \in Ticks, p \in Peers, h \in Hashes :
    InFile(r, t, p, h) <=> InFile(s, t, p, h)

LEMMA AppendMember ==
  ASSUME NEW S, NEW seq \in Seq(S), NEW e \in S, NEW x
  PROVE  Occurs(x, Append(seq, e)) <=> x = e \/ Occurs(x, seq)
<1> DEFINE n == Len(seq)
           app == Append(seq, e)
<1>1. /\ DOMAIN app = 1 .. n + 1 /\ DOMAIN seq = 1 .. n /\ n \in Nat
      /\ app[n + 1] = e
      /\ \A i \in DOMAIN seq : app[i] = seq[i]
  BY AppendEntries
<1> HIDE DEF n, app
<1>2. QED
  BY <1>1 DEF app, Occurs

LEMMA InTableAfterAdd ==
  ASSUME NEW s \in SessionType, NEW r \in SessionType,
         NEW t \in Ticks, NEW p \in Peers, NEW h \in Hashes,
         r.hashes_by_tick = AddReport(s.hashes_by_tick, t, p, h),
         NEW u \in Ticks, NEW q \in Peers, NEW g \in Hashes
  PROVE  InTable(r, u, q, g) <=>
           InTable(s, u, q, g) \/ (u = t /\ q = p /\ g = h)
<1> DEFINE table == s.hashes_by_tick
           added == r.hashes_by_tick
           new == [peer |-> p, hash |-> h]
           asked == [peer |-> q, hash |-> g]
<1>1. table \in [Ticks -> Seq(PeerHash)]
  BY DEF SessionType
<1>2. added[t] = Append(table[t], new) /\ (u # t => added[u] = table[u])
  BY SMTT(20), <1>1, AddReportEffect
<1>3. new \in PeerHash /\ table[t] \in Seq(PeerHash)
  BY <1>1 DEF PeerHash
<1>4. asked = new <=> q = p /\ g = h
  OBVIOUS
<1>5. CASE u = t
  <2> HIDE DEF new, asked
  <2>1. Occurs(asked, Append(table[t], new))
          <=> asked = new \/ Occurs(asked, table[t])
    BY <1>3, AppendMember
  <2>2. QED
    BY <2>1, <1>2, <1>4, <1>5 DEF InTable, asked
<1>6. CASE u # t
  BY <1>2, <1>6 DEF InTable
<1>7. QED
  BY <1>5, <1>6

LEMMA InFileAfterTickHash ==
  ASSUME NEW s \in SessionType, NEW r,
         NEW t \in Ticks, NEW p \in Peers, NEW h \in Hashes,
         NEW ok \in BOOLEAN,
         r.file = Written(s, TickHashFrame(t, p, h), ok),
         NEW u \in Ticks, NEW q \in Peers, NEW g \in Hashes
  PROVE  /\ InFile(r, u, q, g) =>
              InFile(s, u, q, g) \/ (u = t /\ q = p /\ g = h)
         /\ InFile(s, u, q, g) => InFile(r, u, q, g)
         /\ s.recording /\ ok => InFile(r, t, p, h)
<1> DEFINE new == TickHashFrame(t, p, h)
<1>1. /\ s.file \in Seq(FileEntry) /\ new \in Frame
      /\ new \in FileEntry /\ Remnant \in FileEntry
  BY FrameTypes DEF SessionType
<1>2. /\ TickHashFrame(u, q, g) = new <=> u = t /\ q = p /\ g = h
      /\ TickHashFrame(u, q, g) # Remnant
  BY DEF TickHashFrame, Remnant
<1> HIDE DEF new
<1>3. \A x : /\ Occurs(x, Append(s.file, new)) <=> x = new \/ Occurs(x, s.file)
             /\ Occurs(x, Append(s.file, Remnant))
                  <=> x = Remnant \/ Occurs(x, s.file)
  BY <1>1, AppendMember
<1>4. \/ r.file = s.file \/ r.file = Append(s.file, new)
      \/ r.file = Append(s.file, Remnant)
  BY <1>1, WrittenType DEF new
<1>5. s.recording /\ ok => r.file = Append(s.file, new)
  BY <1>1, WrittenType DEF new
<1>6. QED
  BY <1>2, <1>3, <1>4, <1>5 DEF InFile, new

\* A frame that is not a TickHash adds no report to the file.
LEMMA InFileAfterOther ==
  ASSUME NEW s \in SessionType, NEW r, NEW frame \in Frame,
         frame.type # "TickHash", NEW ok \in BOOLEAN,
         r.file = Written(s, frame, ok)
  PROVE  SameFile(r, s)
<1>1. \A t, p, h : /\ TickHashFrame(t, p, h) # frame
                   /\ TickHashFrame(t, p, h) # Remnant
  BY DEF TickHashFrame, Remnant
<1>2. /\ s.file \in Seq(FileEntry)
      /\ frame \in FileEntry /\ Remnant \in FileEntry
  BY FrameTypes DEF SessionType
<1>3. \A x : /\ Occurs(x, Append(s.file, frame)) <=> x = frame \/ Occurs(x, s.file)
             /\ Occurs(x, Append(s.file, Remnant))
                  <=> x = Remnant \/ Occurs(x, s.file)
  BY <1>2, AppendMember
<1>4. \/ r.file = s.file \/ r.file = Append(s.file, frame)
      \/ r.file = Append(s.file, Remnant)
  BY WrittenType
<1>5. QED
  BY <1>1, <1>3, <1>4 DEF InFile, SameFile

\* Two reports in the table that differ are what Disagree looks for.
LEMMA DisagreeInTable ==
  ASSUME NEW s \in SessionType, NEW t \in Ticks
  PROVE  Disagree(s.hashes_by_tick[t]) <=>
           \E p, q \in Peers, g, h \in Hashes :
             InTable(s, t, p, g) /\ InTable(s, t, q, h) /\ g # h
<1> DEFINE entries == s.hashes_by_tick[t]
<1>1. entries \in Seq(PeerHash)
  BY DEF SessionType
<1>2. \A i \in DOMAIN entries :
        /\ entries[i].peer \in Peers /\ entries[i].hash \in Hashes
        /\ entries[i] = [peer |-> entries[i].peer, hash |-> entries[i].hash]
  <2>1. \A i \in DOMAIN entries : entries[i] \in PeerHash
    BY <1>1
  <2>2. QED
    BY <2>1 DEF PeerHash
<1>3. Disagree(entries) <=>
        \E i, j \in DOMAIN entries : entries[i].hash # entries[j].hash
  BY <1>1, DisagreeIffTwoDiffer
<1> HIDE DEF entries
<1>4. \A p, h : InTable(s, t, p, h) <=>
        \E i \in DOMAIN entries : entries[i] = [peer |-> p, hash |-> h]
  BY DEF InTable, Occurs, entries
<1>5. ASSUME NEW i \in DOMAIN entries, NEW j \in DOMAIN entries,
             entries[i].hash # entries[j].hash
      PROVE  \E p, q \in Peers, g, h \in Hashes :
               InTable(s, t, p, g) /\ InTable(s, t, q, h) /\ g # h
  <2>1. /\ InTable(s, t, entries[i].peer, entries[i].hash)
        /\ InTable(s, t, entries[j].peer, entries[j].hash)
    BY <1>2, <1>4
  <2>2. QED
    BY <2>1, <1>2, <1>5
<1>6. ASSUME NEW p \in Peers, NEW q \in Peers,
             NEW g \in Hashes, NEW h \in Hashes,
             InTable(s, t, p, g), InTable(s, t, q, h), g # h
      PROVE  \E i, j \in DOMAIN entries : entries[i].hash # entries[j].hash
  <2>1. PICK i \in DOMAIN entries : entries[i] = [peer |-> p, hash |-> g]
    BY <1>4, <1>6
  <2>2. PICK j \in DOMAIN entries : entries[j] = [peer |-> q, hash |-> h]
    BY <1>4, <1>6
  <2>3. entries[i].hash = g /\ entries[j].hash = h
    BY <2>1, <2>2
  <2>4. QED
    BY <2>3, <1>6
<1>7. QED
  BY <1>3, <1>5, <1>6 DEF entries

\* The same of a recording.
LEMMA DisagreeInFile ==
  ASSUME NEW s \in SessionType, NEW t \in Ticks
  PROVE  FileDisagrees(s.file, t) <=>
           \E p, q \in Peers, g, h \in Hashes :
             InFile(s, t, p, g) /\ InFile(s, t, q, h) /\ g # h
<1> DEFINE file == s.file
           at == FramesAt(file, t)
<1>1. file \in Seq(FileEntry)
  BY DEF SessionType
<1>2. \A i \in at :
        /\ i \in DOMAIN file /\ file[i].peer \in Peers /\ file[i].hash \in Hashes
        /\ file[i] = TickHashFrame(t, file[i].peer, file[i].hash)
  <2>1. \A i \in DOMAIN file : file[i] \in FileEntry
    BY <1>1
  <2>2. ASSUME NEW i \in at
        PROVE  file[i] \in [type : {"TickHash"}, tick : Ticks, peer : Peers,
                            hash : Hashes]
    BY <2>1 DEF FramesAt, FileEntry, Remnant, Frame, EndOfStream, DetailLevels
  <2>3. QED
    BY <2>2 DEF FramesAt, TickHashFrame
<1>3. FileDisagrees(file, t) <=>
        \E i, j \in at : file[i].hash # file[j].hash
  BY <1>1, FileDisagreesIffTwoDiffer
<1>4. \A p, h : InFile(s, t, p, h) <=>
        \E i \in DOMAIN file : file[i] = TickHashFrame(t, p, h)
  BY DEF InFile, Occurs
<1>5. ASSUME NEW i \in DOMAIN file, NEW p, NEW h,
             file[i] = TickHashFrame(t, p, h)
      PROVE  i \in at /\ file[i].hash = h
  BY <1>5 DEF FramesAt, TickHashFrame
<1> HIDE DEF file, at
<1>6. ASSUME NEW i \in at, NEW j \in at, file[i].hash # file[j].hash
      PROVE  \E p, q \in Peers, g, h \in Hashes :
               InFile(s, t, p, g) /\ InFile(s, t, q, h) /\ g # h
  <2>1. /\ InFile(s, t, file[i].peer, file[i].hash)
        /\ InFile(s, t, file[j].peer, file[j].hash)
    BY <1>2, <1>4
  <2>2. QED
    BY <2>1, <1>2, <1>6
<1>7. ASSUME NEW p \in Peers, NEW q \in Peers,
             NEW g \in Hashes, NEW h \in Hashes,
             InFile(s, t, p, g), InFile(s, t, q, h), g # h
      PROVE  \E i, j \in at : file[i].hash # file[j].hash
  <2>1. PICK i \in DOMAIN file : file[i] = TickHashFrame(t, p, g)
    BY <1>4, <1>7
  <2>2. PICK j \in DOMAIN file : file[j] = TickHashFrame(t, q, h)
    BY <1>4, <1>7
  <2>3. i \in at /\ j \in at /\ file[i].hash = g /\ file[j].hash = h
    BY <2>1, <2>2, <1>5
  <2>4. QED
    BY <2>3, <1>7
<1>8. QED
  BY <1>3, <1>6, <1>7 DEF file

----------------------------------------------------------------------------
(* What the methods do to the reports held *)

LEMMA RecordPeerHashReports ==
  ASSUME NEW s \in SessionType, NEW t \in Ticks, NEW p \in Peers,
         NEW h \in Hashes, NEW ok \in BOOLEAN
  PROVE  LET r == RecordPeerHash(s, t, p, h, ok)
         IN  /\ \A u \in Ticks, q \in Peers, g \in Hashes :
                  /\ InTable(r, u, q, g) <=>
                       InTable(s, u, q, g) \/ (u = t /\ q = p /\ g = h)
                  /\ InFile(r, u, q, g) =>
                       InFile(s, u, q, g) \/ (u = t /\ q = p /\ g = h)
                  /\ InFile(s, u, q, g) => InFile(r, u, q, g)
             /\ s.recording /\ ok => InFile(r, t, p, h)
<1> DEFINE r == RecordPeerHash(s, t, p, h, ok)
<1>1. /\ r \in SessionType
      /\ r.hashes_by_tick = AddReport(s.hashes_by_tick, t, p, h)
      /\ r.file = Written(s, TickHashFrame(t, p, h), ok)
  BY RecordPeerHashEffect
<1> HIDE DEF r
<1>2. \A u \in Ticks, q \in Peers, g \in Hashes :
        InTable(r, u, q, g) <=>
          InTable(s, u, q, g) \/ (u = t /\ q = p /\ g = h)
  BY <1>1, InTableAfterAdd
<1>3. \A u \in Ticks, q \in Peers, g \in Hashes :
        /\ InFile(r, u, q, g) =>
             InFile(s, u, q, g) \/ (u = t /\ q = p /\ g = h)
        /\ InFile(s, u, q, g) => InFile(r, u, q, g)
        /\ s.recording /\ ok => InFile(r, t, p, h)
  BY <1>1, InFileAfterTickHash
<1>4. s.recording /\ ok => InFile(r, t, p, h)
  BY <1>3
<1>5. QED
  BY <1>2, <1>3, <1>4 DEF r

\* hash_tick holds its own report exactly as record_peer_hash would.
LEMMA HashTickReports ==
  ASSUME NEW s \in SessionType, NEW t \in Ticks, NEW h \in Hashes,
         NEW ok \in BOOLEAN
  PROVE  SameTable(HashTick(s, t, h, ok),
                   RecordPeerHash(s, t, s.local_peer_id, h, ok))
         /\ SameFile(HashTick(s, t, h, ok),
                     RecordPeerHash(s, t, s.local_peer_id, h, ok))
<1> DEFINE local == s.local_peer_id
           r == RecordPeerHash(s, t, local, h, ok)
           k == HashTick(s, t, h, ok)
<1>1. local \in Peers
  BY DEF SessionType
<1>2. k.hashes_by_tick = AddReport(s.hashes_by_tick, t, local, h)
      /\ k.file = Written(s, TickHashFrame(t, local, h), ok)
  BY HashTickEffect
<1> HIDE DEF local, k
<1>3. r.hashes_by_tick = AddReport(s.hashes_by_tick, t, local, h)
      /\ r.file = Written(s, TickHashFrame(t, local, h), ok)
  BY <1>1, RecordPeerHashEffect
<1>4. SameTable(k, r) /\ SameFile(k, r)
  BY <1>2, <1>3 DEF SameTable, SameFile, InTable, InFile
<1>5. QED
  BY <1>4 DEF k, local

----------------------------------------------------------------------------
(* Invariants of one session *)

\* What the recording says, the session has.
FileInTable(s) ==
  \A t \in Ticks, p \in Peers, h \in Hashes :
    InFile(s, t, p, h) => InTable(s, t, p, h)

\* What the session has, the recording says.
TableInFile(s) ==
  \A t \in Ticks, p \in Peers, h \in Hashes :
    InTable(s, t, p, h) => InFile(s, t, p, h)

\* What finish() folds, the session has as a report of its own.
FoldedInTable(s) ==
  \A t \in Ticks, h \in Hashes :
    Occurs([tick |-> t, hash |-> h], s.cumulative)
      => InTable(s, t, s.local_peer_id, h)

LEMMA RecordPeerHashKeeps ==
  ASSUME NEW s \in SessionType, NEW t \in Ticks, NEW p \in Peers,
         NEW h \in Hashes, NEW ok \in BOOLEAN
  PROVE  LET r == RecordPeerHash(s, t, p, h, ok)
         IN  /\ FileInTable(s) => FileInTable(r)
             /\ TableInFile(s) /\ s.recording /\ ok => TableInFile(r)
             /\ FoldedInTable(s) => FoldedInTable(r)
<1> DEFINE r == RecordPeerHash(s, t, p, h, ok)
<1>1. r.local_peer_id = s.local_peer_id /\ r.cumulative = s.cumulative
  <2>1. Same(r, s, Options \cup {"pending", "checked_ticks",
                                 "cumulative", "written_schemas"})
    BY RecordPeerHashEffect
  <2>2. QED
    BY <2>1 DEF Same, Options
<1>2. s.local_peer_id \in Peers
  BY DEF SessionType
<1>3. /\ \A u \in Ticks, q \in Peers, g \in Hashes :
           /\ InTable(r, u, q, g) <=>
                InTable(s, u, q, g) \/ (u = t /\ q = p /\ g = h)
           /\ InFile(r, u, q, g) =>
                InFile(s, u, q, g) \/ (u = t /\ q = p /\ g = h)
           /\ InFile(s, u, q, g) => InFile(r, u, q, g)
      /\ s.recording /\ ok => InFile(r, t, p, h)
  BY RecordPeerHashReports
<1> HIDE DEF r
<1>4. FileInTable(s) => FileInTable(r)
  BY <1>3 DEF FileInTable
<1>5. TableInFile(s) /\ s.recording /\ ok => TableInFile(r)
  BY <1>3 DEF TableInFile
<1>6. FoldedInTable(s) => FoldedInTable(r)
  BY <1>1, <1>2, <1>3 DEF FoldedInTable
<1>7. QED
  BY <1>4, <1>5, <1>6 DEF r

LEMMA HashTickKeeps ==
  ASSUME NEW s \in SessionType, NEW t \in Ticks, NEW h \in Hashes,
         NEW ok \in BOOLEAN
  PROVE  LET r == HashTick(s, t, h, ok)
         IN  /\ FileInTable(s) => FileInTable(r)
             /\ TableInFile(s) /\ s.recording /\ ok => TableInFile(r)
             /\ FoldedInTable(s) => FoldedInTable(r)
<1> DEFINE local == s.local_peer_id
           m == RecordPeerHash(s, t, local, h, ok)
           r == HashTick(s, t, h, ok)
           item == [tick |-> t, hash |-> h]
<1>1. local \in Peers
  BY DEF SessionType
<1>2. SameTable(r, m) /\ SameFile(r, m)
  BY HashTickReports
<1>3. /\ r.local_peer_id = local
      /\ r.cumulative = IF ok THEN Append(s.cumulative, item) ELSE s.cumulative
  BY HashTickEffect DEF Same, Options
<1>4. s.cumulative \in Seq(TickHash) /\ item \in TickHash
  BY DEF SessionType, TickHash
<1>5. Occurs(item, Append(s.cumulative, item))
      /\ \A x : Occurs(x, Append(s.cumulative, item))
                <=> x = item \/ Occurs(x, s.cumulative)
  <2> HIDE DEF item
  <2>1. QED
    BY <1>4, AppendMember
<1> HIDE DEF r, local
<1>6. /\ FileInTable(s) => FileInTable(m)
      /\ TableInFile(s) /\ s.recording /\ ok => TableInFile(m)
      /\ m.local_peer_id = local
      /\ \A u \in Ticks, q \in Peers, g \in Hashes :
           InTable(m, u, q, g) <=>
             InTable(s, u, q, g) \/ (u = t /\ q = local /\ g = h)
  <2>1. m.local_peer_id = s.local_peer_id
    <3>1. Same(m, s, Options \cup {"pending", "checked_ticks",
                                   "cumulative", "written_schemas"})
      BY <1>1, RecordPeerHashEffect DEF m
    <3>2. QED
      BY <3>1 DEF Same, Options
  <2>2. QED
    BY <2>1, <1>1, RecordPeerHashKeeps, RecordPeerHashReports DEF local
<1> HIDE DEF m
<1>7. FileInTable(s) => FileInTable(r)
  BY <1>2, <1>6 DEF FileInTable, SameTable, SameFile
<1>8. TableInFile(s) /\ s.recording /\ ok => TableInFile(r)
  BY <1>2, <1>6 DEF TableInFile, SameTable, SameFile
<1>9. FoldedInTable(s) => FoldedInTable(r)
  <2>1. SUFFICES ASSUME FoldedInTable(s), NEW u \in Ticks, NEW g \in Hashes,
                        Occurs([tick |-> u, hash |-> g], r.cumulative)
                 PROVE  InTable(r, u, local, g)
    BY <1>3 DEF FoldedInTable
  <2>2. [tick |-> u, hash |-> g] = item => u = t /\ g = h
    OBVIOUS
  <2>3. Occurs([tick |-> u, hash |-> g], s.cumulative) \/ (u = t /\ g = h)
    BY <1>3, <1>5, <2>1, <2>2
  <2>4. InTable(m, u, local, g)
    BY <1>1, <1>6, <2>1, <2>3 DEF FoldedInTable, local
  <2>5. QED
    BY <1>1, <1>2, <2>4 DEF SameTable
<1>10. QED
  BY <1>7, <1>8, <1>9 DEF r

\* A method that leaves the reports and the fold alone leaves these alone.
LEMMA OtherKeeps ==
  ASSUME NEW s \in SessionType, NEW r,
         SameTable(r, s), SameFile(r, s),
         r.local_peer_id = s.local_peer_id, r.cumulative = s.cumulative
  PROVE  /\ FileInTable(s) => FileInTable(r)
         /\ TableInFile(s) => TableInFile(r)
         /\ FoldedInTable(s) => FoldedInTable(r)
<1>1. s.local_peer_id \in Peers
  BY DEF SessionType
<1>2. QED
  BY <1>1 DEF SameTable, SameFile, FileInTable, TableInFile, FoldedInTable
============================================================================
