---------------------------- MODULE BindingsProofs ----------------------------
(***************************************************************************)
(* What the bindings promise, for every set of handles, threads, ticks and *)
(* hashes and every width of a peer id: BInv is the inductive invariant of *)
(* all calls, HandedInv its part about what the game is handed, FileInv    *)
(* its part about the files and what the game reported.                    *)
(***************************************************************************)
EXTENDS Bindings, SessionLemmas

\* NothingLost with the types it needs. It is inductive: a call adds the same
\* entry to what waits and to what was hashed, or moves entries from what
\* waits to the game's hands.
HandedInv ==
  /\ sessions \in [Slots -> SessionType \cup {NoSession}]
  /\ taken \in [Slots -> Seq(TickHash)]
  /\ told \in [Slots -> SUBSET Ticks]
  /\ NothingLost

\* What a call that reports or writes may do to a session.
Adds(s, r) ==
  /\ r \in SessionType
  /\ r.checked_ticks = s.checked_ticks
  /\ \/ r.pending = s.pending /\ r.cumulative = s.cumulative
     \/ \E item \in TickHash : /\ r.pending = Append(s.pending, item)
                               /\ r.cumulative = Append(s.cumulative, item)

----------------------------------------------------------------------------
(* One slot changes *)

LEMMA SlotStep ==
  ASSUME HandedInv, NEW h \in Slots, NEW s \in SessionType \cup {NoSession},
         NEW hands \in Seq(TickHash), NEW named \in SUBSET Ticks,
         sessions' = [sessions EXCEPT ![h] = s],
         taken' = [taken EXCEPT ![h] = hands],
         told' = [told EXCEPT ![h] = named],
         s # NoSession => hands \o s.pending = s.cumulative
                          /\ named = s.checked_ticks
  PROVE  HandedInv'
<1>1. /\ sessions' \in [Slots -> SessionType \cup {NoSession}]
      /\ taken' \in [Slots -> Seq(TickHash)]
      /\ told' \in [Slots -> SUBSET Ticks]
  BY DEF HandedInv
<1>2. ASSUME NEW k \in Slots, sessions'[k] # NoSession
      PROVE  /\ taken'[k] \o sessions'[k].pending = sessions'[k].cumulative
             /\ told'[k] = sessions'[k].checked_ticks
  <2>1. CASE k = h
    BY <2>1, <1>2 DEF HandedInv
  <2>2. CASE k # h
    <3>1. sessions'[k] = sessions[k] /\ taken'[k] = taken[k] /\ told'[k] = told[k]
      BY <2>2 DEF HandedInv
    <3>2. QED
      BY <3>1, <1>2 DEF HandedInv, NothingLost, Live
  <2>3. QED
    BY <2>1, <2>2
<1>3. NothingLost'
  BY <1>2 DEF NothingLost, Live
<1>4. QED
  BY <1>1, <1>3 DEF HandedInv

LEMMA LiveSession ==
  ASSUME HandedInv, NEW h \in Slots, Live(h)
  PROVE  /\ sessions[h] \in SessionType
         /\ taken[h] \in Seq(TickHash) /\ told[h] \in SUBSET Ticks
         /\ taken[h] \o sessions[h].pending = sessions[h].cumulative
         /\ told[h] = sessions[h].checked_ticks
BY DEF HandedInv, NothingLost, Live

LEMMA AddsStep ==
  ASSUME HandedInv, NEW h \in Slots, Live(h), NEW r, Adds(sessions[h], r),
         sessions' = [sessions EXCEPT ![h] = r], UNCHANGED <<taken, told>>
  PROVE  HandedInv'
<1> DEFINE s == sessions[h]
           hands == taken[h]
           named == told[h]
<1>1. /\ s \in SessionType /\ r \in SessionType
      /\ hands \in Seq(TickHash) /\ named \in SUBSET Ticks
      /\ hands \o s.pending = s.cumulative /\ named = s.checked_ticks
  BY LiveSession DEF Adds
<1>2. taken' = [taken EXCEPT ![h] = hands] /\ told' = [told EXCEPT ![h] = named]
  BY DEF HandedInv
<1> HIDE DEF s, hands, named
<1>3. hands \o r.pending = r.cumulative
  <2>1. CASE r.pending = s.pending /\ r.cumulative = s.cumulative
    BY <1>1, <2>1
  <2>2. ASSUME NEW item \in TickHash, r.pending = Append(s.pending, item),
               r.cumulative = Append(s.cumulative, item)
        PROVE  hands \o r.pending = r.cumulative
    <3> DEFINE back == s.pending
    <3>1. back \in Seq(TickHash) /\ hands \in Seq(TickHash) /\ item \in TickHash
      BY <1>1, <2>2 DEF SessionType
    <3> HIDE DEF back
    <3>2. hands \o Append(back, item) = Append(hands \o back, item)
      BY <3>1, ConcatAppend
    <3>3. QED
      BY <2>2, <3>2, <1>1 DEF back
  <2>3. QED
    BY <2>1, <2>2 DEF Adds, s
<1>4. named = r.checked_ticks
  BY <1>1 DEF Adds, s
<1>5. QED
  BY <1>1, <1>2, <1>3, <1>4, SlotStep

LEMMA QuietStep ==
  ASSUME HandedInv, UNCHANGED <<sessions, taken, told>>
  PROVE  HandedInv'
BY DEF HandedInv, NothingLost, Live

----------------------------------------------------------------------------
(* The files, and what the game reported *)

\* g begins with what f holds.
Extends(f, g) == Len(f) <= Len(g) /\ \A i \in 1 .. Len(f) : g[i] = f[i]

\* Some peer reported x for tick t to session s; the game did, by `reports`.
Heard(s, t, x) == \E p \in Peers : InTable(s, t, p, x)
Named(reports, t, x) == \E a \in reports : a.tick = t /\ a.hash = x

\* What a call that reports `new`, or writes, may do to a session besides.
Writes(s, r, new) ==
  /\ r.recording = s.recording
  /\ Extends(s.file, r.file)
  /\ ~ s.recording => r.file = s.file
  /\ \A t \in Ticks, x \in Hashes : Heard(r, t, x) <=> Heard(s, t, x) \/ Named(new, t, x)

\* The file of a live session is the first o frames the session wrote.
OwnFile(s, o, file) ==
  s.recording => Len(file) = o /\ \A i \in 1 .. o : file[i] = s.file[i]

Given == [tick : Ticks, peer : Nat, hash : Hashes]

\* FileIsOwn and CutIdsHideNothing with the types they need. It is inductive:
\* a flush moves to the file exactly what it lacks, and the session hears of
\* a tick what the game gave, by whatever peer id.
SlotInv(h) ==
  IF Live(h)
  THEN /\ out[h] <= Len(sessions[h].file)
       /\ h \notin clobbered => OwnFile(sessions[h], out[h], disk[h])
       /\ \A t \in Ticks, x \in Hashes :
            Heard(sessions[h], t, x) <=> Named(given[h], t, x)
  ELSE out[h] = 0

FileInv ==
  /\ out \in [Slots -> Nat]
  /\ disk \in [Slots -> Seq(FileEntry \cup {Hole})]
  /\ given \in [Slots -> SUBSET Given]
  /\ \A h \in Slots : SlotInv(h)

BInv == HandedInv /\ FileInv

LEMMA SlotFileStep ==
  ASSUME HandedInv, FileInv, NEW h \in Slots, NEW s \in SessionType \cup {NoSession},
         NEW o \in Nat, NEW d \in Seq(FileEntry \cup {Hole}), NEW g \in SUBSET Given,
         sessions' = [sessions EXCEPT ![h] = s], out' = [out EXCEPT ![h] = o],
         disk' = [disk EXCEPT ![h] = d], given' = [given EXCEPT ![h] = g],
         \A k \in Slots : k # h => (k \in clobbered' <=> k \in clobbered),
         s = NoSession => o = 0,
         s # NoSession =>
           /\ o <= Len(s.file)
           /\ h \notin clobbered' => OwnFile(s, o, d)
           /\ \A t \in Ticks, x \in Hashes : Heard(s, t, x) <=> Named(g, t, x)
  PROVE  FileInv'
<1>1. /\ out' \in [Slots -> Nat] /\ disk' \in [Slots -> Seq(FileEntry \cup {Hole})]
      /\ given' \in [Slots -> SUBSET Given]
  BY DEF FileInv
<1>2. ASSUME NEW k \in Slots PROVE SlotInv(k)'
  <2>1. CASE k = h
    <3>1. sessions'[k] = s /\ out'[k] = o /\ disk'[k] = d /\ given'[k] = g
      BY <2>1 DEF HandedInv, FileInv
    <3>2. CASE s = NoSession
      BY <3>1, <3>2 DEF SlotInv, Live
    <3>3. CASE s # NoSession
      BY <2>1, <3>1, <3>3 DEF SlotInv, Live
    <3>4. QED
      BY <3>2, <3>3
  <2>2. CASE k # h
    <3>1. /\ sessions'[k] = sessions[k] /\ out'[k] = out[k]
          /\ disk'[k] = disk[k] /\ given'[k] = given[k]
          /\ k \in clobbered' <=> k \in clobbered
      BY <2>2 DEF HandedInv, FileInv
    <3>2. SlotInv(k)
      BY DEF FileInv
    <3>3. QED
      BY <3>1, <3>2 DEF SlotInv, Live
  <2>3. QED
    BY <2>1, <2>2
<1>3. QED
  BY <1>1, <1>2 DEF FileInv

LEMMA QuietFileStep ==
  ASSUME FileInv, UNCHANGED <<sessions, out, disk, given, clobbered>>
  PROVE  FileInv'
BY DEF FileInv, SlotInv, Live

LEMMA LiveFile ==
  ASSUME BInv, NEW h \in Slots, Live(h)
  PROVE  /\ sessions[h] \in SessionType
         /\ out[h] \in Nat /\ out[h] <= Len(sessions[h].file)
         /\ disk[h] \in Seq(FileEntry \cup {Hole}) /\ given[h] \in SUBSET Given
         /\ h \notin clobbered => OwnFile(sessions[h], out[h], disk[h])
         /\ \A t \in Ticks, x \in Hashes :
              Heard(sessions[h], t, x) <=> Named(given[h], t, x)
<1>1. SlotInv(h) /\ sessions[h] \in SessionType
  BY LiveSession DEF BInv, FileInv
<1>2. QED
  BY <1>1 DEF BInv, FileInv, SlotInv

LEMMA OverlayType ==
  ASSUME NEW S, NEW file \in Seq(S), NEW at \in Nat, NEW frames \in Seq(S)
  PROVE  Overlay(file, at, frames) \in Seq(S \cup {Hole})
<1> DEFINE end == at + Len(frames)
           len == IF Len(file) > end THEN Len(file) ELSE end
           d == [i \in 1 .. len |->
                   IF i > at /\ i <= end THEN frames[i - at]
                   ELSE IF i <= Len(file) THEN file[i] ELSE Hole]
<1>1. Overlay(file, at, frames) = IF frames = << >> THEN file ELSE d
  BY DEF Overlay
<1>2. file \in Seq(S \cup {Hole})
  OBVIOUS
<1>3. d \in Seq(S \cup {Hole})
  <2>1. /\ Len(file) \in Nat /\ Len(frames) \in Nat /\ len \in Nat
        /\ \A i \in 1 .. Len(file) : file[i] \in S
        /\ \A i \in 1 .. Len(frames) : frames[i] \in S
    OBVIOUS
  <2>2. ASSUME NEW i \in 1 .. len PROVE d[i] \in S \cup {Hole}
    <3>1. CASE i > at /\ i <= end
      <4>1. i - at \in 1 .. Len(frames)
        BY <2>1, <3>1
      <4>2. QED
        BY <2>1, <3>1, <4>1
    <3>2. CASE ~ (i > at /\ i <= end)
      BY <2>1, <3>2
    <3>3. QED
      BY <3>1, <3>2
  <2>3. DOMAIN d = 1 .. len
    OBVIOUS
  <2>4. d = [i \in 1 .. len |-> d[i]]
    OBVIOUS
  <2> HIDE DEF d, len
  <2>5. d \in [1 .. len -> S \cup {Hole}]
    BY <2>2, <2>4
  <2>6. QED
    BY <2>1, <2>5
<1>4. QED
  BY <1>1, <1>2, <1>3

\* What a BufWriter still holds.
LEMMA TailType ==
  ASSUME NEW whole \in Seq(FileEntry), NEW o \in Nat
  PROVE  /\ SubSeq(whole, o + 1, Len(whole)) \in Seq(FileEntry)
         /\ SubSeq(whole, o + 1, Len(whole)) \in Seq(FileEntry \cup {Hole})
<1> DEFINE n == Len(whole)
<1>1. n \in Int /\ \A i \in o + 1 .. n : whole[i] \in FileEntry
  OBVIOUS
<1>2. \A i \in o + 1 .. n : whole[i] \in FileEntry \cup {Hole}
  BY <1>1
<1> HIDE DEF n
<1>3. SubSeq(whole, o + 1, n) \in Seq(FileEntry)
  BY <1>1, SubSeqProperties
<1>4. SubSeq(whole, o + 1, n) \in Seq(FileEntry \cup {Hole})
  BY <1>1, <1>2, SubSeqProperties
<1>5. QED
  BY <1>3, <1>4 DEF n

\* A BufWriter that empties itself at its own offset continues its file.
LEMMA OverlayContinues ==
  ASSUME NEW file \in Seq(FileEntry \cup {Hole}), NEW whole \in Seq(FileEntry),
         NEW o \in Nat, Len(file) = o, o <= Len(whole),
         \A i \in 1 .. o : file[i] = whole[i]
  PROVE  LET d == Overlay(file, o, SubSeq(whole, o + 1, Len(whole)))
         IN  /\ Len(d) = Len(whole)
             /\ \A i \in 1 .. Len(whole) : d[i] = whole[i]
<1> DEFINE n == Len(whole)
           frames == SubSeq(whole, o + 1, n)
           d == Overlay(file, o, frames)
<1>1. n \in Nat /\ \A i \in 1 .. n : whole[i] \in FileEntry
  OBVIOUS
<1>2. /\ frames \in Seq(FileEntry) /\ Len(frames) = n - o
      /\ \A i \in 1 .. n - o : frames[i] = whole[o + i]
  <2>1. \A i \in o + 1 .. n : whole[i] \in FileEntry
    BY <1>1
  <2>2. o + 1 \in Int /\ n \in Int
    BY <1>1
  <2> HIDE DEF n
  <2>3. /\ SubSeq(whole, o + 1, n) \in Seq(FileEntry)
        /\ Len(SubSeq(whole, o + 1, n)) = IF o + 1 <= n THEN n - (o + 1) + 1 ELSE 0
        /\ \A i \in 1 .. n - (o + 1) + 1 :
             SubSeq(whole, o + 1, n)[i] = whole[o + 1 + i - 1]
    BY <2>1, <2>2, SubSeqProperties
  <2>4. o <= n
    BY DEF n
  <2>5. Len(frames) = n - o
    BY <1>1, <2>3, <2>4
  <2>6. ASSUME NEW i \in 1 .. n - o PROVE frames[i] = whole[o + i]
    <3>1. i \in 1 .. n - (o + 1) + 1 /\ o + 1 + i - 1 = o + i
      BY <1>1
    <3>2. frames[i] = whole[o + 1 + i - 1]
      BY <2>3, <3>1
    <3>3. QED
      BY <3>1, <3>2
  <2>7. QED
    BY <2>3, <2>5, <2>6
<1> HIDE DEF frames
<1>3. CASE frames = << >>
  <2>1. d = file
    BY <1>3 DEF Overlay
  <2>2. o = n
    BY <1>1, <1>2, <1>3
  <2>3. QED
    BY <2>1, <2>2 DEF frames
<1>4. CASE frames # << >>
  <2>1. o + Len(frames) = n /\ ~ (Len(file) > n)
    BY <1>1, <1>2
  <2>2. d = [i \in 1 .. n |-> IF i > o /\ i <= n THEN frames[i - o]
                              ELSE IF i <= Len(file) THEN file[i] ELSE Hole]
    BY <1>4, <2>1 DEF Overlay
  <2>3. ASSUME NEW i \in 1 .. n PROVE d[i] = whole[i]
    <3>1. CASE i > o
      <4>1. i - o \in 1 .. n - o /\ o + (i - o) = i /\ i <= n
        BY <1>1, <3>1
      <4>2. frames[i - o] = whole[i]
        BY <1>2, <4>1
      <4>3. QED
        BY <2>2, <3>1, <4>1, <4>2
    <3>2. CASE ~ (i > o)
      <4>1. i \in 1 .. o /\ i <= Len(file)
        BY <1>1, <3>2
      <4>2. QED
        BY <2>2, <3>2, <4>1
    <3>3. QED
      BY <3>1, <3>2
  <2>4. Len(d) = n
    <3> HIDE DEF d, n
    <3>1. DOMAIN d = 1 .. n
      BY <2>2
    <3>2. d \in Seq({d[i] : i \in 1 .. n})
      <4>1. d = [i \in 1 .. n |-> d[i]]
        BY <2>2
      <4>2. d \in [1 .. n -> {d[i] : i \in 1 .. n}]
        BY <4>1
      <4>3. QED
        BY <1>1, <4>2
    <3>3. QED
      BY <1>1, <3>1, <3>2
  <2>5. QED
    BY <2>3, <2>4 DEF frames
<1>5. QED
  BY <1>3, <1>4

----------------------------------------------------------------------------
(* What the session's methods do *)

LEMMA OutcomesAreBoolean == \A s : WriteOutcomes(s) \subseteq BOOLEAN
BY DEF WriteOutcomes

LEMMA HashTickAdds ==
  ASSUME NEW s \in SessionType, NEW t \in Ticks, NEW x \in Hashes, NEW ok \in BOOLEAN
  PROVE  Adds(s, HashTick(s, t, x, ok))
<1> DEFINE r == HashTick(s, t, x, ok)
           item == [tick |-> t, hash |-> x]
<1>1. /\ r \in SessionType
      /\ r.pending = IF ok THEN Append(s.pending, item) ELSE s.pending
      /\ r.cumulative = IF ok THEN Append(s.cumulative, item) ELSE s.cumulative
      /\ Same(r, s, Options \cup {"checked_ticks", "written_schemas"})
  BY HashTickEffect
<1>2. r.checked_ticks = s.checked_ticks
  BY <1>1 DEF Same
<1>3. item \in TickHash
  BY DEF TickHash
<1> HIDE DEF r, item
<1>4. QED
  BY <1>1, <1>2, <1>3 DEF Adds, r

LEMMA PeerHashAdds ==
  ASSUME NEW s \in SessionType, NEW t \in Ticks, NEW p \in Peers,
         NEW x \in Hashes, NEW ok \in BOOLEAN
  PROVE  Adds(s, RecordPeerHash(s, t, p, x, ok))
<1> DEFINE r == RecordPeerHash(s, t, p, x, ok)
<1>1. /\ r \in SessionType
      /\ Same(r, s, Options \cup {"pending", "checked_ticks",
                                  "cumulative", "written_schemas"})
  BY RecordPeerHashEffect
<1> HIDE DEF r
<1>2. QED
  BY <1>1 DEF Same, Adds, r

LEMMA DetailAdds ==
  ASSUME NEW s \in SessionType, NEW level \in DetailLevels, NEW ok \in BOOLEAN
  PROVE  Adds(s, RecordPeerDetail(s, level, ok))
<1> DEFINE r == RecordPeerDetail(s, level, ok)
<1>1. /\ r \in SessionType
      /\ Same(r, s, Options \cup {"ring", "pending", "hashes_by_tick",
                     "checked_ticks", "cumulative", "written_schemas"})
  BY RecordPeerDetailEffect
<1> HIDE DEF r
<1>2. QED
  BY <1>1 DEF Same, Adds, r

LEMMA SchemaAdds ==
  ASSUME NEW s \in SessionType, NEW name \in TypeNames, NEW ok \in BOOLEAN
  PROVE  Adds(s, RecordSchema(s, name, ok))
<1> DEFINE r == RecordSchema(s, name, ok)
<1>1. /\ r \in SessionType
      /\ Same(r, s, Options \cup {"ring", "pending", "hashes_by_tick",
                                  "checked_ticks", "cumulative"})
  BY RecordSchemaEffect
<1> HIDE DEF r
<1>2. QED
  BY <1>1 DEF Same, Adds, r

LEMMA FinishAdds ==
  ASSUME NEW s \in SessionType, NEW ok \in BOOLEAN
  PROVE  Adds(s, FinishRecording(s, ok))
<1> DEFINE r == FinishRecording(s, ok)
<1>1. /\ r \in SessionType
      /\ Same(r, s, Options \cup {"ring", "pending", "hashes_by_tick",
                     "checked_ticks", "cumulative", "written_schemas"})
  BY FinishRecordingEffect
<1> HIDE DEF r
<1>2. QED
  BY <1>1 DEF Same, Adds, r

\* The schema and then the leaves of one reflected object.
LEMMA AddsTwice ==
  ASSUME NEW s \in SessionType, NEW name \in TypeNames, NEW ok \in BOOLEAN,
         NEW wrote \in BOOLEAN
  PROVE  Adds(s, RecordPeerDetail(RecordSchema(s, name, ok), "FieldHash", wrote))
<1> DEFINE m == RecordSchema(s, name, ok)
           r == RecordPeerDetail(m, "FieldHash", wrote)
<1>1. /\ m \in SessionType
      /\ Same(m, s, Options \cup {"ring", "pending", "hashes_by_tick",
                                  "checked_ticks", "cumulative"})
  BY RecordSchemaEffect
<1> HIDE DEF m
<1>2. "FieldHash" \in DetailLevels
  BY DEF DetailLevels
<1>3. /\ r \in SessionType
      /\ Same(r, m, Options \cup {"ring", "pending", "hashes_by_tick",
                     "checked_ticks", "cumulative", "written_schemas"})
  BY <1>1, <1>2, RecordPeerDetailEffect
<1> HIDE DEF r
<1>4. QED
  BY <1>1, <1>3 DEF Same, Adds, m, r

----------------------------------------------------------------------------
(* What they write and what the session hears by them *)

LEMMA ExtendsAppend ==
  ASSUME NEW S, NEW f \in Seq(S), NEW e \in S
  PROVE  Extends(f, f) /\ Extends(f, Append(f, e))
<1> DEFINE g == Append(f, e)
<1>1. /\ DOMAIN g = 1 .. Len(f) + 1 /\ Len(g) = Len(f) + 1
      /\ DOMAIN f = 1 .. Len(f) /\ \A i \in DOMAIN f : g[i] = f[i]
  BY AppendEntries
<1>2. Len(f) \in Nat
  OBVIOUS
<1> HIDE DEF g
<1>3. QED
  BY <1>1, <1>2 DEF Extends, g

LEMMA WrittenExtends ==
  ASSUME NEW s \in SessionType, NEW frame \in Frame, NEW ok \in BOOLEAN
  PROVE  /\ Extends(s.file, Written(s, frame, ok))
         /\ ~ s.recording => Written(s, frame, ok) = s.file
<1>1. s.file \in Seq(FileEntry) /\ frame \in FileEntry /\ Remnant \in FileEntry
  BY FrameTypes DEF SessionType
<1>2. /\ Extends(s.file, s.file) /\ Extends(s.file, Append(s.file, frame))
      /\ Extends(s.file, Append(s.file, Remnant))
  BY <1>1, ExtendsAppend
<1>3. QED
  BY <1>2 DEF Written

\* A report is heard; a method that reports nothing lets nothing be heard.
LEMMA ReportWrites ==
  ASSUME NEW s \in SessionType, NEW r, NEW t \in Ticks, NEW p \in Peers,
         NEW x \in Hashes, NEW ok \in BOOLEAN, NEW a, a.tick = t, a.hash = x,
         SameTable(r, RecordPeerHash(s, t, p, x, ok)),
         r.recording = s.recording,
         r.file = Written(s, TickHashFrame(t, p, x), ok)
  PROVE  Writes(s, r, {a})
<1> DEFINE m == RecordPeerHash(s, t, p, x, ok)
<1>1. TickHashFrame(t, p, x) \in Frame
  BY FrameTypes
<1>2. Extends(s.file, r.file) /\ (~ s.recording => r.file = s.file)
  BY <1>1, WrittenExtends
<1>3. \A u \in Ticks, q \in Peers, g \in Hashes :
        InTable(m, u, q, g) <=> InTable(s, u, q, g) \/ (u = t /\ q = p /\ g = x)
  BY RecordPeerHashReports
<1> HIDE DEF m
<1>4. \A u \in Ticks, q \in Peers, g \in Hashes :
        InTable(r, u, q, g) <=> InTable(s, u, q, g) \/ (u = t /\ q = p /\ g = x)
  BY <1>3 DEF SameTable, m
<1>5. \A u, g : Named({a}, u, g) <=> u = t /\ g = x
  BY DEF Named
<1>6. ASSUME NEW u \in Ticks, NEW g \in Hashes
      PROVE  Heard(r, u, g) <=> Heard(s, u, g) \/ Named({a}, u, g)
  BY <1>4, <1>5 DEF Heard
<1>7. QED
  BY <1>2, <1>6 DEF Writes

LEMMA SilentWrites ==
  ASSUME NEW s \in SessionType, NEW r, NEW frame \in Frame, NEW ok \in BOOLEAN,
         r.hashes_by_tick = s.hashes_by_tick, r.recording = s.recording,
         r.file = s.file \/ r.file = Written(s, frame, ok)
  PROVE  Writes(s, r, {})
<1>1. Extends(s.file, s.file)
  <2>1. s.file \in Seq(FileEntry) /\ Remnant \in FileEntry
    BY FrameTypes DEF SessionType
  <2>2. QED
    BY <2>1, ExtendsAppend
<1>2. Extends(s.file, r.file) /\ (~ s.recording => r.file = s.file)
  BY <1>1, WrittenExtends
<1>3. \A t, x : Heard(r, t, x) <=> Heard(s, t, x)
  BY DEF Heard, InTable
<1>4. \A t, x : ~ Named({}, t, x)
  BY DEF Named
<1>5. QED
  BY <1>2, <1>3, <1>4 DEF Writes

LEMMA HashTickWrites ==
  ASSUME NEW s \in SessionType, NEW t \in Ticks, NEW x \in Hashes,
         NEW ok \in BOOLEAN, NEW p
  PROVE  Writes(s, HashTick(s, t, x, ok), {[tick |-> t, peer |-> p, hash |-> x]})
<1> DEFINE r == HashTick(s, t, x, ok)
           local == s.local_peer_id
           a == [tick |-> t, peer |-> p, hash |-> x]
<1>1. local \in Peers
  BY DEF SessionType
<1>2. /\ r.file = Written(s, TickHashFrame(t, local, x), ok)
      /\ Same(r, s, Options \cup {"checked_ticks", "written_schemas"})
  BY HashTickEffect
<1>3. SameTable(r, RecordPeerHash(s, t, local, x, ok))
  BY HashTickReports
<1>4. a.tick = t /\ a.hash = x
  OBVIOUS
<1> HIDE DEF r, local, a
<1>5. r.recording = s.recording
  BY <1>2 DEF Same, Options
<1>6. Writes(s, r, {a})
  BY <1>1, <1>2, <1>3, <1>4, <1>5, ReportWrites
<1>7. QED
  BY <1>6 DEF r, a

LEMMA PeerHashWrites ==
  ASSUME NEW s \in SessionType, NEW t \in Ticks, NEW p \in Peers,
         NEW x \in Hashes, NEW ok \in BOOLEAN, NEW id
  PROVE  Writes(s, RecordPeerHash(s, t, p, x, ok),
                {[tick |-> t, peer |-> id, hash |-> x]})
<1> DEFINE r == RecordPeerHash(s, t, p, x, ok)
           a == [tick |-> t, peer |-> id, hash |-> x]
<1>1. /\ r.file = Written(s, TickHashFrame(t, p, x), ok)
      /\ Same(r, s, Options \cup {"pending", "checked_ticks",
                                  "cumulative", "written_schemas"})
  BY RecordPeerHashEffect
<1>2. a.tick = t /\ a.hash = x
  OBVIOUS
<1>3. SameTable(r, RecordPeerHash(s, t, p, x, ok))
  BY DEF SameTable
<1> HIDE DEF r, a
<1>4. r.recording = s.recording
  BY <1>1 DEF Same, Options
<1>5. Writes(s, r, {a})
  BY <1>1, <1>2, <1>3, <1>4, ReportWrites
<1>6. QED
  BY <1>5 DEF r, a

LEMMA DetailWrites ==
  ASSUME NEW s \in SessionType, NEW level \in DetailLevels, NEW ok \in BOOLEAN
  PROVE  Writes(s, RecordPeerDetail(s, level, ok), {})
<1> DEFINE r == RecordPeerDetail(s, level, ok)
<1>1. /\ r.file = Written(s, DetailFrame(level), ok)
      /\ Same(r, s, Options \cup {"ring", "pending", "hashes_by_tick",
                     "checked_ticks", "cumulative", "written_schemas"})
  BY RecordPeerDetailEffect
<1>2. DetailFrame(level) \in Frame
  BY FrameTypes
<1> HIDE DEF r
<1>3. r.hashes_by_tick = s.hashes_by_tick /\ r.recording = s.recording
  BY <1>1 DEF Same, Options
<1>4. Writes(s, r, {})
  BY <1>1, <1>2, <1>3, SilentWrites
<1>5. QED
  BY <1>4 DEF r

LEMMA SchemaWrites ==
  ASSUME NEW s \in SessionType, NEW name \in TypeNames, NEW ok \in BOOLEAN
  PROVE  Writes(s, RecordSchema(s, name, ok), {})
<1> DEFINE r == RecordSchema(s, name, ok)
<1>1. /\ r.file = IF name \in s.written_schemas THEN s.file
                  ELSE Written(s, MetadataFrame(name), ok)
      /\ Same(r, s, Options \cup {"ring", "pending", "hashes_by_tick",
                                  "checked_ticks", "cumulative"})
  BY RecordSchemaEffect
<1>2. MetadataFrame(name) \in Frame
  BY FrameTypes
<1> HIDE DEF r
<1>3. r.hashes_by_tick = s.hashes_by_tick /\ r.recording = s.recording
  BY <1>1 DEF Same, Options
<1>4. Writes(s, r, {})
  BY <1>1, <1>2, <1>3, SilentWrites
<1>5. QED
  BY <1>4 DEF r

LEMMA FinishWrites ==
  ASSUME NEW s \in SessionType, NEW ok \in BOOLEAN
  PROVE  Writes(s, FinishRecording(s, ok), {})
<1> DEFINE r == FinishRecording(s, ok)
<1>1. /\ r.file = Written(s, EndOfStream, ok)
      /\ Same(r, s, Options \cup {"ring", "pending", "hashes_by_tick",
                     "checked_ticks", "cumulative", "written_schemas"})
  BY FinishRecordingEffect
<1>2. EndOfStream \in Frame
  BY FrameTypes
<1> HIDE DEF r
<1>3. r.hashes_by_tick = s.hashes_by_tick /\ r.recording = s.recording
  BY <1>1 DEF Same, Options
<1>4. Writes(s, r, {})
  BY <1>1, <1>2, <1>3, SilentWrites
<1>5. QED
  BY <1>4 DEF r

LEMMA WritesTwice ==
  ASSUME NEW s \in SessionType, NEW name \in TypeNames, NEW ok \in BOOLEAN,
         NEW wrote \in BOOLEAN
  PROVE  Writes(s, RecordPeerDetail(RecordSchema(s, name, ok), "FieldHash", wrote), {})
<1> DEFINE m == RecordSchema(s, name, ok)
           r == RecordPeerDetail(m, "FieldHash", wrote)
<1>1. m \in SessionType /\ Writes(s, m, {})
  BY SchemaWrites, RecordSchemaEffect
<1>2. "FieldHash" \in DetailLevels
  BY DEF DetailLevels
<1> HIDE DEF m
<1>3. r \in SessionType /\ Writes(m, r, {})
  BY <1>1, <1>2, DetailWrites, RecordPeerDetailEffect
<1> HIDE DEF r
<1>4. /\ s.file \in Seq(FileEntry) /\ m.file \in Seq(FileEntry) /\ r.file \in Seq(FileEntry)
      /\ Len(s.file) \in Nat /\ Len(m.file) \in Nat /\ Len(r.file) \in Nat
  BY <1>1, <1>3 DEF SessionType
<1>5. Extends(s.file, r.file)
  BY <1>1, <1>3, <1>4 DEF Writes, Extends
<1>6. \A t \in Ticks, x \in Hashes :
        Heard(r, t, x) <=> Heard(s, t, x) \/ Named({}, t, x)
  BY <1>1, <1>3 DEF Writes
<1>7. Writes(s, r, {})
  BY <1>1, <1>3, <1>5, <1>6 DEF Writes
<1>8. QED
  BY <1>7 DEF m, r

\* A cut id is a peer id.
LEMMA CutIdIsPeer ==
  ASSUME NEW p \in GamePeers
  PROVE  AsPeerId(p) \in Peers
<1>1. p \in Nat /\ PeerIdRange \in Nat \ {0} /\ Peers = 0 .. PeerIdRange - 1
  BY BindingAssumption
<1>2. p % PeerIdRange \in 0 .. PeerIdRange - 1
  BY <1>1
<1>3. QED
  BY <1>1, <1>2 DEF AsPeerId

----------------------------------------------------------------------------
(* The calls that C and Godot share *)

LEMMA DoesStep ==
  ASSUME BInv, NEW h \in Slots, Live(h), NEW r, Does(h, r),
         Adds(sessions[h], r.session),
         Writes(sessions[h], r.session, r.reports), r.reports \subseteq Given
  PROVE  BInv'
<1> DEFINE s == sessions[h]
           m == r.session
           o == out[h]
           d == disk[h]
           g == given[h] \cup r.reports
<1>1. HandedInv /\ FileInv
  BY DEF BInv
<1>2. HandedInv'
  BY <1>1, AddsStep DEF Does
<1>3. /\ s \in SessionType /\ m \in SessionType /\ Writes(s, m, r.reports)
      /\ o \in Nat /\ o <= Len(s.file)
      /\ d \in Seq(FileEntry \cup {Hole}) /\ g \in SUBSET Given
      /\ h \notin clobbered => OwnFile(s, o, d)
      /\ \A t \in Ticks, x \in Hashes : Heard(s, t, x) <=> Named(given[h], t, x)
  BY LiveFile DEF Adds
<1>4. /\ sessions' = [sessions EXCEPT ![h] = m]
      /\ given' = [given EXCEPT ![h] = g] /\ clobbered' = clobbered
      /\ \/ UNCHANGED <<out, disk>>
         \/ /\ m.file # s.file
            /\ disk' = [disk EXCEPT ![h] = Overlay(d, o, Buffered(h))]
            /\ out' = [out EXCEPT ![h] = Len(s.file)]
  BY <1>1 DEF Does, HandedInv, FileInv
<1>5. /\ s.file \in Seq(FileEntry) /\ m.file \in Seq(FileEntry)
      /\ Len(s.file) \in Nat /\ Len(m.file) \in Nat
      /\ Len(s.file) <= Len(m.file)
      /\ \A i \in 1 .. Len(s.file) : m.file[i] = s.file[i]
      /\ m.recording = s.recording /\ (~ s.recording => m.file = s.file)
      /\ s.recording \in BOOLEAN
  BY <1>3 DEF SessionType, Writes, Extends
<1>6. Buffered(h) = SubSeq(s.file, o + 1, Len(s.file))
  BY DEF Buffered
<1>7. m # NoSession
  BY <1>3, BindingAssumption
<1>8. \A t \in Ticks, x \in Hashes : Heard(m, t, x) <=> Named(g, t, x)
  <2>1. \A t, x : Named(g, t, x) <=> Named(given[h], t, x) \/ Named(r.reports, t, x)
    BY DEF Named
  <2> HIDE DEF g, s, m
  <2>2. QED
    BY <1>3, <2>1 DEF Writes
<1>9. ASSUME NEW k \in 0 .. Len(s.file), OwnFile(s, k, disk'[h])
      PROVE  OwnFile(m, k, disk'[h])
  BY <1>5, <1>9 DEF OwnFile
<1> HIDE DEF s, m, g
<1>10. CASE UNCHANGED <<out, disk>>
  <2>1. /\ out' = [out EXCEPT ![h] = o] /\ disk' = [disk EXCEPT ![h] = d]
        /\ disk'[h] = d
    BY <1>1, <1>10 DEF FileInv
  <2>2. o <= Len(m.file) /\ o \in 0 .. Len(s.file)
    BY <1>3, <1>5
  <2>3. h \notin clobbered' => OwnFile(m, o, d)
    BY <1>3, <1>4, <1>9, <2>1, <2>2
  <2> HIDE DEF o, d
  <2>4. FileInv'
    BY <1>1, <1>3, <1>4, <1>7, <1>8, <2>1, <2>2, <2>3, SlotFileStep
  <2>5. QED
    BY <1>2, <2>4 DEF BInv
<1>11. CASE /\ m.file # s.file
            /\ disk' = [disk EXCEPT ![h] = Overlay(d, o, Buffered(h))]
            /\ out' = [out EXCEPT ![h] = Len(s.file)]
  <2> DEFINE whole == s.file
             new == Overlay(d, o, SubSeq(whole, o + 1, Len(whole)))
  <2>1. whole \in Seq(FileEntry) /\ s.recording = TRUE
    BY <1>5, <1>11
  <2>2. disk' = [disk EXCEPT ![h] = new] /\ disk'[h] = new
    BY <1>1, <1>6, <1>11 DEF FileInv
  <2>3. Len(whole) \in Nat /\ o \in Nat /\ o <= Len(whole)
        /\ d \in Seq(FileEntry \cup {Hole})
    BY <1>3, <1>5
  <2>4. h \notin clobbered' => Len(d) = o /\ \A i \in 1 .. o : d[i] = whole[i]
    BY <1>3, <1>4, <2>1 DEF OwnFile
  <2> HIDE DEF o, d, whole
  <2>5. h \notin clobbered' => /\ Len(new) = Len(whole)
                               /\ \A i \in 1 .. Len(whole) : new[i] = whole[i]
    BY <2>1, <2>3, <2>4, OverlayContinues
  <2>6. SubSeq(whole, o + 1, Len(whole)) \in Seq(FileEntry \cup {Hole})
    BY <2>1, <2>3, TailType
  <2>7. new \in Seq(FileEntry \cup {Hole})
    <3> DEFINE frames == SubSeq(whole, o + 1, Len(whole))
               S == FileEntry \cup {Hole}
    <3>1. d \in Seq(S) /\ frames \in Seq(S)
      BY <2>3, <2>6
    <3> HIDE DEF frames, S
    <3>2. Overlay(d, o, frames) \in Seq(S \cup {Hole})
      BY <2>3, <3>1, OverlayType
    <3>3. S \cup {Hole} = S
      BY DEF S
    <3>4. QED
      BY <3>2, <3>3 DEF frames, S
  <2> HIDE DEF new
  <2>8. h \notin clobbered' => OwnFile(s, Len(whole), disk'[h])
    BY <2>2, <2>5 DEF OwnFile, whole
  <2>9. Len(whole) \in 0 .. Len(s.file)
    BY <2>3 DEF whole
  <2>10. h \notin clobbered' => OwnFile(m, Len(whole), new)
    BY <1>9, <2>2, <2>8, <2>9
  <2>11. Len(whole) <= Len(m.file) /\ out' = [out EXCEPT ![h] = Len(whole)]
    BY <1>5, <1>11 DEF whole
  <2>12. FileInv'
    BY <1>1, <1>3, <1>4, <1>7, <1>8, <2>2, <2>3, <2>7, <2>10, <2>11, SlotFileStep
  <2>13. QED
    BY <1>2, <2>12 DEF BInv
<1>12. QED
  BY <1>4, <1>10, <1>11

LEMMA HashTicksStep ==
  ASSUME BInv, NEW h \in Slots, Live(h), NEW r \in HashTicks(h), Does(h, r)
  PROVE  BInv'
<1>1. PICK t \in Ticks, x \in Hashes, ok \in WriteOutcomes(sessions[h]) :
        /\ r.session = HashTick(sessions[h], t, x, ok)
        /\ r.reports = {[tick |-> t, peer |-> LocalPeer, hash |-> x]}
  BY DEF HashTicks, Result
<1>2. ok \in BOOLEAN /\ sessions[h] \in SessionType
  BY OutcomesAreBoolean, LiveSession DEF BInv
<1>3. LocalPeer \in Nat
  BY BindingAssumption
<1>4. r.reports \subseteq Given
  BY <1>1, <1>3 DEF Given
<1>5. Adds(sessions[h], r.session) /\ Writes(sessions[h], r.session, r.reports)
  <2> DEFINE s == sessions[h]
             m == HashTick(sessions[h], t, x, ok)
             new == {[tick |-> t, peer |-> LocalPeer, hash |-> x]}
  <2>1. Adds(s, m)
    BY <1>2, HashTickAdds
  <2>2. Writes(s, m, new)
    BY <1>2, HashTickWrites
  <2>3. r.session = m /\ r.reports = new
    BY <1>1
  <2> HIDE DEF m, new
  <2>4. QED
    BY <2>1, <2>2, <2>3
<1>6. QED
  BY <1>4, <1>5, DoesStep

LEMMA PeerHashesStep ==
  ASSUME BInv, NEW h \in Slots, Live(h), NEW ids, ids \subseteq GamePeers,
         NEW r \in PeerHashes(h, ids), Does(h, r)
  PROVE  BInv'
<1>1. PICK t \in Ticks, p \in ids, x \in Hashes, ok \in WriteOutcomes(sessions[h]) :
        /\ r.session = RecordPeerHash(sessions[h], t, AsPeerId(p), x, ok)
        /\ r.reports = {[tick |-> t, peer |-> p, hash |-> x]}
  BY DEF PeerHashes, Result
<1>2. ok \in BOOLEAN /\ sessions[h] \in SessionType /\ AsPeerId(p) \in Peers
  BY OutcomesAreBoolean, LiveSession, CutIdIsPeer DEF BInv
<1>3. p \in Nat
  BY BindingAssumption
<1>4. r.reports \subseteq Given
  BY <1>1, <1>3 DEF Given
<1>5. Adds(sessions[h], r.session) /\ Writes(sessions[h], r.session, r.reports)
  <2> DEFINE s == sessions[h]
             m == RecordPeerHash(sessions[h], t, AsPeerId(p), x, ok)
             new == {[tick |-> t, peer |-> p, hash |-> x]}
  <2>1. Adds(s, m)
    BY <1>2, PeerHashAdds
  <2>2. Writes(s, m, new)
    BY <1>2, PeerHashWrites
  <2>3. r.session = m /\ r.reports = new
    BY <1>1
  <2> HIDE DEF m, new
  <2>4. QED
    BY <2>1, <2>2, <2>3
<1>6. QED
  BY <1>4, <1>5, DoesStep

LEMMA DetailsStep ==
  ASSUME BInv, NEW h \in Slots, Live(h), NEW level \in DetailLevels,
         NEW r \in Details(h, level), Does(h, r)
  PROVE  BInv'
<1>1. PICK ok \in WriteOutcomes(sessions[h]) :
        r.session = RecordPeerDetail(sessions[h], level, ok) /\ r.reports = {}
  BY DEF Details, Quiet, Result
<1>2. ok \in BOOLEAN /\ sessions[h] \in SessionType
  BY OutcomesAreBoolean, LiveSession DEF BInv
<1>3. Adds(sessions[h], r.session) /\ Writes(sessions[h], r.session, r.reports)
  BY <1>1, <1>2, DetailAdds, DetailWrites
<1>4. QED
  BY <1>1, <1>3, DoesStep

LEMMA SchemasStep ==
  ASSUME BInv, NEW h \in Slots, Live(h), NEW r \in Schemas(h), Does(h, r)
  PROVE  BInv'
<1>1. PICK name \in TypeNames, ok \in WriteOutcomes(sessions[h]) :
        r.session = RecordSchema(sessions[h], name, ok) /\ r.reports = {}
  BY DEF Schemas, Quiet, Result
<1>2. ok \in BOOLEAN /\ sessions[h] \in SessionType
  BY OutcomesAreBoolean, LiveSession DEF BInv
<1>3. Adds(sessions[h], r.session) /\ Writes(sessions[h], r.session, r.reports)
  BY <1>1, <1>2, SchemaAdds, SchemaWrites
<1>4. QED
  BY <1>1, <1>3, DoesStep

\* A call that leaves the files and the game's reports alone.
LEMMA KeptStep ==
  ASSUME BInv, NEW h \in Slots, Live(h), NEW r \in SessionType,
         Writes(sessions[h], r, {}), sessions' = [sessions EXCEPT ![h] = r],
         UNCHANGED <<out, disk, given, clobbered>>
  PROVE  FileInv'
<1> DEFINE s == sessions[h]
           o == out[h]
           d == disk[h]
           g == given[h]
<1>1. HandedInv /\ FileInv
  BY DEF BInv
<1>2. /\ s \in SessionType /\ Writes(s, r, {})
      /\ o \in Nat /\ o <= Len(s.file)
      /\ d \in Seq(FileEntry \cup {Hole}) /\ g \in SUBSET Given
      /\ h \notin clobbered => OwnFile(s, o, d)
      /\ \A t \in Ticks, x \in Hashes : Heard(s, t, x) <=> Named(g, t, x)
  BY LiveFile
<1>3. /\ out' = [out EXCEPT ![h] = o] /\ disk' = [disk EXCEPT ![h] = d]
      /\ given' = [given EXCEPT ![h] = g] /\ clobbered' = clobbered
  BY <1>1 DEF FileInv
<1> HIDE DEF s, o, d, g
<1>4. Len(s.file) \in Nat /\ Len(r.file) \in Nat
  BY <1>2 DEF SessionType
<1>5. o <= Len(r.file) /\ (h \notin clobbered' => OwnFile(r, o, d))
  BY <1>2, <1>3, <1>4 DEF Writes, Extends, OwnFile
<1>6. \A t \in Ticks, x \in Hashes : Heard(r, t, x) <=> Named(g, t, x)
  BY <1>2 DEF Writes, Named
<1>7. r # NoSession
  BY BindingAssumption
<1>8. QED
  BY <1>1, <1>2, <1>3, <1>5, <1>6, <1>7, SlotFileStep

LEMMA TakesHanded ==
  ASSUME HandedInv, NEW h \in Slots, Live(h),
         NEW max \in 0 .. Len(sessions[h].pending), Takes(h, max)
  PROVE  HandedInv'
<1> DEFINE s == sessions[h]
           drained == Drained(s, max)
           r == TakePendingHashesUpTo(s, max)
           hands == taken[h]
           named == told[h]
<1>1. /\ s \in SessionType /\ hands \in Seq(TickHash) /\ named \in SUBSET Ticks
      /\ hands \o s.pending = s.cumulative /\ named = s.checked_ticks
  BY LiveSession
<1>2. sessions' = [sessions EXCEPT ![h] = r]
      /\ taken' = [taken EXCEPT ![h] = hands \o drained]
      /\ told' = [told EXCEPT ![h] = named]
  BY DEF Takes, HandedInv
<1> HIDE DEF s
<1>3. max \in Nat
  OBVIOUS
<1>4. /\ r \in SessionType /\ drained \in Seq(TickHash)
      /\ drained \o r.pending = s.pending
      /\ Same(r, s, Options \cup {"ring", "hashes_by_tick", "file",
                         "checked_ticks", "cumulative", "written_schemas"})
  BY <1>1, <1>3, TakePendingEffect
<1> HIDE DEF r, drained, hands, named
<1>5. r.pending \in Seq(TickHash)
  BY <1>4 DEF SessionType
<1>6. (hands \o drained) \o r.pending = hands \o (drained \o r.pending)
      /\ hands \o drained \in Seq(TickHash)
  <2> DEFINE rest == r.pending
  <2>1. hands \in Seq(TickHash) /\ drained \in Seq(TickHash) /\ rest \in Seq(TickHash)
    BY <1>1, <1>4, <1>5
  <2> HIDE DEF rest
  <2>2. (hands \o drained) \o rest = hands \o (drained \o rest)
        /\ hands \o drained \in Seq(TickHash)
    BY <2>1, ConcatAssociative
  <2>3. QED
    BY <2>2 DEF rest
<1>7. r.cumulative = s.cumulative /\ r.checked_ticks = s.checked_ticks
  BY <1>4 DEF Same
<1>8. QED
  BY <1>1, <1>2, <1>4, <1>6, <1>7, SlotStep

LEMMA EarliestIsOne ==
  ASSUME NEW T \in SUBSET Ticks, NEW t \in Earliest(T)
  PROVE  Earliest(T) = {t} /\ t \in Ticks
<1>1. t \in T /\ t \in Ticks /\ t \in Nat /\ \A u \in T : t <= u
  BY TicksAssumption DEF Earliest
<1>2. ASSUME NEW u \in Earliest(T) PROVE u = t
  <2>1. u \in T /\ u \in Nat /\ u <= t
    BY <1>1, TicksAssumption DEF Earliest
  <2>2. QED
    BY <1>1, <2>1
<1>3. QED
  BY <1>1, <1>2

LEMMA ChecksHanded ==
  ASSUME HandedInv, NEW h \in Slots, Live(h), Checks(h)
  PROVE  HandedInv'
<1> DEFINE s == sessions[h]
           found == Earliest(Divergent(s))
           hands == taken[h]
<1>1. /\ s \in SessionType /\ hands \in Seq(TickHash) /\ told[h] \in SUBSET Ticks
      /\ hands \o s.pending = s.cumulative /\ told[h] = s.checked_ticks
  BY LiveSession
<1>2. /\ sessions' = [sessions EXCEPT ![h] =
                        IF found = {} THEN s ELSE Flag(s, CHOOSE t \in found : TRUE)]
      /\ told' = [told EXCEPT ![h] = told[h] \cup found]
      /\ taken' = [taken EXCEPT ![h] = hands]
  BY DEF Checks, HandedInv
<1>3. Divergent(s) \in SUBSET Ticks
  BY DEF Divergent
<1> HIDE DEF s, hands
<1>4. CASE found = {}
  <2>1. told' = [told EXCEPT ![h] = told[h]] /\ sessions' = [sessions EXCEPT ![h] = s]
    BY <1>2, <1>4
  <2>2. QED
    BY <1>1, <1>2, <2>1, SlotStep
<1>5. CASE found # {}
  <2> DEFINE t == CHOOSE u \in found : TRUE
             r == Flag(s, t)
             named == told[h] \cup found
  <2>1. t \in found
    BY <1>5
  <2>2. found = {t} /\ t \in Ticks
    BY <1>3, <2>1, EarliestIsOne
  <2> HIDE DEF t
  <2>3. /\ r \in SessionType /\ r.checked_ticks = s.checked_ticks \cup {t}
        /\ Same(r, s, Options \cup {"ring", "pending", "hashes_by_tick",
                         "file", "cumulative", "written_schemas"})
    BY <1>1, <2>2, FlagEffect
  <2>4. sessions' = [sessions EXCEPT ![h] = r] /\ told' = [told EXCEPT ![h] = named]
    BY <1>2, <1>5 DEF t
  <2>5. named \in SUBSET Ticks /\ named = r.checked_ticks
    BY <1>1, <2>2, <2>3
  <2> HIDE DEF r, named
  <2>6. r.pending = s.pending /\ r.cumulative = s.cumulative
    BY <2>3 DEF Same
  <2>7. taken' = [taken EXCEPT ![h] = hands]
    BY <1>2
  <2>8. hands \o r.pending = r.cumulative /\ hands \in Seq(TickHash)
    BY <1>1, <2>6
  <2>9. r \in SessionType
    BY <2>3
  <2>10. QED
    BY <2>4, <2>5, <2>7, <2>8, <2>9, SlotStep
<1>6. QED
  BY <1>4, <1>5

LEMMA FinishesHanded ==
  ASSUME HandedInv, NEW h \in Slots, Live(h),
         NEW ok \in WriteOutcomes(sessions[h]), NEW flushed, Finishes(h, ok, flushed)
  PROVE  HandedInv'
<1>1. ok \in BOOLEAN /\ sessions[h] \in SessionType
  BY OutcomesAreBoolean, LiveSession
<1>2. sessions' = [sessions EXCEPT ![h] = FinishRecording(sessions[h], ok)]
      /\ UNCHANGED <<taken, told>>
  BY DEF Finishes, histories
<1>3. QED
  BY <1>1, <1>2, FinishAdds, AddsStep

LEMMA BuildsHanded ==
  ASSUME HandedInv, NEW h \in Slots, NEW retention \in Nat,
         NEW recording \in BOOLEAN, NEW left, Builds(h, retention, recording, left)
  PROVE  HandedInv'
<1> DEFINE s == Build(LocalPeer, retention, recording)
<1>1. s \in SessionType
  BY BuildType, BindingAssumption
<1>2. s.pending = << >> /\ s.cumulative = << >> /\ s.checked_ticks = {}
  BY DEF Build
<1>3. /\ sessions' = [sessions EXCEPT ![h] = s]
      /\ taken' = [taken EXCEPT ![h] = << >>] /\ told' = [told EXCEPT ![h] = {}]
  BY DEF Builds
<1> HIDE DEF s
<1>4. << >> \in Seq(TickHash) /\ {} \in SUBSET Ticks /\ << >> \o s.pending = s.cumulative
  BY <1>2
<1>5. QED
  BY <1>1, <1>2, <1>3, <1>4, SlotStep

LEMMA TakesStep ==
  ASSUME BInv, NEW h \in Slots, Live(h),
         NEW max \in 0 .. Len(sessions[h].pending), Takes(h, max)
  PROVE  BInv'
<1> DEFINE s == sessions[h]
           r == TakePendingHashesUpTo(s, max)
<1>1. s \in SessionType /\ max \in Nat
  BY LiveFile
<1>2. sessions' = [sessions EXCEPT ![h] = r]
      /\ UNCHANGED <<out, disk, given, clobbered>>
  BY DEF Takes, BInv, HandedInv
<1> HIDE DEF s
<1>3. /\ r \in SessionType
      /\ Same(r, s, Options \cup {"ring", "hashes_by_tick", "file",
                         "checked_ticks", "cumulative", "written_schemas"})
  BY <1>1, TakePendingEffect
<1> HIDE DEF r
<1>4. r.hashes_by_tick = s.hashes_by_tick /\ r.recording = s.recording
      /\ r.file = s.file /\ EndOfStream \in Frame
  BY <1>3, FrameTypes DEF Same, Options
<1>5. Writes(s, r, {})
  BY <1>1, <1>4, SilentWrites
<1>6. FileInv'
  BY <1>2, <1>3, <1>5, KeptStep DEF s
<1>7. QED
  BY <1>6, TakesHanded DEF BInv

LEMMA ChecksStep ==
  ASSUME BInv, NEW h \in Slots, Live(h), Checks(h)
  PROVE  BInv'
<1> DEFINE s == sessions[h]
           found == Earliest(Divergent(s))
           r == IF found = {} THEN s ELSE Flag(s, CHOOSE t \in found : TRUE)
<1>1. s \in SessionType
  BY LiveFile
<1>2. sessions' = [sessions EXCEPT ![h] = r]
      /\ UNCHANGED <<out, disk, given, clobbered>>
  BY DEF Checks, BInv, HandedInv
<1>3. found \subseteq Ticks
  BY DEF Earliest, Divergent
<1> HIDE DEF s, found
<1>4. /\ r \in SessionType
      /\ r.hashes_by_tick = s.hashes_by_tick /\ r.recording = s.recording
      /\ r.file = s.file
  <2>1. CASE found = {}
    BY <1>1, <2>1
  <2>2. CASE found # {}
    <3> DEFINE t == CHOOSE u \in found : TRUE
               f == Flag(s, t)
    <3>1. t \in Ticks /\ r = f
      BY <1>3, <2>2
    <3> HIDE DEF t, r
    <3>2. /\ f \in SessionType
          /\ Same(f, s, Options \cup {"ring", "pending", "hashes_by_tick",
                         "file", "cumulative", "written_schemas"})
      BY <1>1, <3>1, FlagEffect
    <3> HIDE DEF f
    <3>3. QED
      BY <3>1, <3>2 DEF Same, Options
  <2>3. QED
    BY <2>1, <2>2
<1> HIDE DEF r
<1>5. EndOfStream \in Frame
  BY FrameTypes
<1>6. Writes(s, r, {})
  BY <1>1, <1>4, <1>5, SilentWrites
<1>7. FileInv'
  BY <1>2, <1>4, <1>6, KeptStep DEF s
<1>8. QED
  BY <1>7, ChecksHanded DEF BInv

LEMMA FinishesStep ==
  ASSUME BInv, NEW h \in Slots, Live(h),
         NEW ok \in WriteOutcomes(sessions[h]), NEW flushed, Finishes(h, ok, flushed)
  PROVE  BInv'
<1> DEFINE s == sessions[h]
           r == FinishRecording(s, ok)
           whole == r.file
           o == out[h]
           d == disk[h]
           g == given[h]
           new == Overlay(d, o, SubSeq(whole, o + 1, Len(whole)))
<1>1. HandedInv /\ FileInv /\ HandedInv'
  BY FinishesHanded DEF BInv
<1>2. /\ s \in SessionType
      /\ o \in Nat /\ o <= Len(s.file)
      /\ d \in Seq(FileEntry \cup {Hole}) /\ g \in SUBSET Given
      /\ h \notin clobbered => OwnFile(s, o, d)
      /\ \A t \in Ticks, x \in Hashes : Heard(s, t, x) <=> Named(g, t, x)
  BY LiveFile
<1>3. /\ sessions' = [sessions EXCEPT ![h] = r] /\ UNCHANGED <<given, clobbered>>
      /\ \/ UNCHANGED <<out, disk>>
         \/ /\ disk' = [disk EXCEPT ![h] = new]
            /\ out' = [out EXCEPT ![h] = Len(whole)]
  BY <1>1 DEF Finishes, histories, HandedInv, FileInv
<1>4. ok \in BOOLEAN
  BY OutcomesAreBoolean
<1> HIDE DEF s
<1>5. r \in SessionType /\ Writes(s, r, {})
  BY <1>2, <1>4, FinishWrites, FinishRecordingEffect
<1> HIDE DEF r
<1>6. CASE UNCHANGED <<out, disk>>
  BY <1>1, <1>3, <1>5, <1>6, KeptStep DEF BInv, s
<1>7. CASE /\ disk' = [disk EXCEPT ![h] = new]
           /\ out' = [out EXCEPT ![h] = Len(whole)]
  <2>1. /\ whole \in Seq(FileEntry) /\ Len(whole) \in Nat /\ Len(s.file) \in Nat
        /\ Len(s.file) <= Len(whole) /\ r.recording = s.recording
        /\ \A i \in 1 .. Len(s.file) : whole[i] = s.file[i]
    BY <1>2, <1>5 DEF SessionType, Writes, Extends
  <2>2. o <= Len(whole)
    BY <1>2, <2>1
  <2>3. h \notin clobbered /\ r.recording =>
          Len(d) = o /\ \A i \in 1 .. o : d[i] = whole[i]
    BY <1>2, <2>1 DEF OwnFile
  <2> HIDE DEF o, d, g
  <2>4. SubSeq(whole, o + 1, Len(whole)) \in Seq(FileEntry \cup {Hole})
    <3> HIDE DEF whole
    <3>1. QED
      BY <1>2, <2>1, TailType
  <2>5. new \in Seq(FileEntry \cup {Hole})
    <3> DEFINE frames == SubSeq(whole, o + 1, Len(whole))
               S == FileEntry \cup {Hole}
    <3>1. d \in Seq(S) /\ frames \in Seq(S)
      BY <1>2, <2>4
    <3> HIDE DEF frames, S
    <3>2. Overlay(d, o, frames) \in Seq(S \cup {Hole})
      BY <1>2, <3>1, OverlayType
    <3>3. S \cup {Hole} = S
      BY DEF S
    <3>4. QED
      BY <3>2, <3>3 DEF frames, S
  <2>6. h \notin clobbered /\ r.recording =>
          /\ Len(new) = Len(whole)
          /\ \A i \in 1 .. Len(whole) : new[i] = whole[i]
    <3> HIDE DEF whole
    <3>1. QED
      BY <1>2, <2>1, <2>2, <2>3, OverlayContinues
  <2>7. h \notin clobbered' => OwnFile(r, Len(whole), new)
    BY <1>3, <2>6 DEF OwnFile
  <2>8. \A t \in Ticks, x \in Hashes : Heard(r, t, x) <=> Named(g, t, x)
    BY <1>2, <1>5 DEF Writes, Named
  <2>9. r # NoSession /\ Len(whole) <= Len(r.file)
    BY <1>5, <2>1, BindingAssumption
  <2>10. given' = [given EXCEPT ![h] = g] /\ clobbered' = clobbered
    BY <1>1, <1>3 DEF FileInv, g
  <2> HIDE DEF new
  <2> DEFINE n == Len(whole)
  <2>11. n \in Nat /\ n <= Len(r.file) /\ out' = [out EXCEPT ![h] = n]
         /\ (h \notin clobbered' => OwnFile(r, n, new))
    BY <1>7, <2>1, <2>7, <2>9
  <2> HIDE DEF n, whole
  <2>12. FileInv'
    BY <1>1, <1>2, <1>3, <1>5, <1>7, <2>5, <2>8, <2>9, <2>10, <2>11, SlotFileStep
  <2>13. QED
    BY <1>1, <2>12 DEF BInv
<1>8. QED
  BY <1>3, <1>6, <1>7

LEMMA BuildsStep ==
  ASSUME BInv, NEW h \in Slots, NEW retention \in Nat, NEW recording \in BOOLEAN,
         NEW left \in Seq(FileEntry), Builds(h, retention, recording, left)
  PROVE  BInv'
<1> DEFINE s == Build(LocalPeer, retention, recording)
           opened == Opened(disk[h], recording)
           d == Overlay(opened, out[h], left)
<1>1. HandedInv /\ FileInv /\ HandedInv'
  BY BuildsHanded DEF BInv
<1>2. s \in SessionType /\ s # NoSession
  BY BuildType, BindingAssumption
<1>3. /\ sessions' = [sessions EXCEPT ![h] = s]
      /\ disk' = [disk EXCEPT ![h] = d] /\ out' = [out EXCEPT ![h] = 0]
      /\ given' = [given EXCEPT ![h] = {}]
      /\ clobbered' = IF recording /\ left # << >> THEN clobbered \cup {h}
                      ELSE clobbered \ {h}
  BY <1>1 DEF Builds, FileInv
<1>4. /\ s.file = << >> /\ s.recording = recording
      /\ s.hashes_by_tick = [t \in Ticks |-> << >>]
  BY DEF Build
<1>5. out[h] \in Nat /\ disk[h] \in Seq(FileEntry \cup {Hole})
      /\ opened \in Seq(FileEntry \cup {Hole})
  BY <1>1 DEF FileInv, Opened
<1>6. recording => opened = << >>
  BY DEF Opened
<1> HIDE DEF s, opened
<1>7. d \in Seq(FileEntry \cup {Hole})
  <2> DEFINE S == FileEntry \cup {Hole}
  <2>1. opened \in Seq(S) /\ left \in Seq(S)
    BY <1>5
  <2> HIDE DEF S
  <2>2. d \in Seq(S \cup {Hole})
    BY <1>5, <2>1, OverlayType
  <2>3. S \cup {Hole} = S
    BY DEF S
  <2>4. QED
    BY <2>2, <2>3 DEF S
<1>8. h \notin clobbered' => OwnFile(s, 0, d)
  <2>1. CASE recording /\ left = << >>
    <3>1. d = << >>
      BY <1>6, <2>1 DEF Overlay
    <3>2. QED
      BY <3>1 DEF OwnFile
  <2>2. CASE ~ recording
    BY <1>4, <2>2 DEF OwnFile
  <2>3. CASE recording /\ left # << >>
    BY <1>3, <2>3
  <2>4. QED
    BY <2>1, <2>2, <2>3
<1>9. \A t \in Ticks, x \in Hashes : Heard(s, t, x) <=> Named({}, t, x)
  BY <1>4 DEF Heard, InTable, Occurs, Named
<1>10. /\ 0 \in Nat /\ {} \in SUBSET Given /\ 0 <= Len(s.file)
       /\ \A k \in Slots : k # h => (k \in clobbered' <=> k \in clobbered)
  BY <1>3, <1>4
<1> HIDE DEF d
<1>11. FileInv'
  BY <1>1, <1>2, <1>3, <1>7, <1>8, <1>9, <1>10, SlotFileStep
<1>12. QED
  BY <1>1, <1>11 DEF BInv

LEMMA DestroyStep ==
  ASSUME BInv, NEW h \in Slots, foldback_session_destroy(h)
  PROVE  BInv'
<1>1. HandedInv /\ FileInv /\ Live(h)
  BY DEF BInv, foldback_session_destroy
<1>2. HandedInv'
  <2>1. sessions' = [sessions EXCEPT ![h] = NoSession] /\ UNCHANGED <<taken, told>>
    BY DEF foldback_session_destroy, histories
  <2>2. taken' = [taken EXCEPT ![h] = taken[h]] /\ told' = [told EXCEPT ![h] = told[h]]
        /\ taken[h] \in Seq(TickHash) /\ told[h] \in SUBSET Ticks
    BY <1>1, <2>1 DEF HandedInv
  <2>3. NoSession \in SessionType \cup {NoSession}
    OBVIOUS
  <2>4. QED
    BY <1>1, <2>1, <2>2, <2>3, SlotStep
<1> DEFINE d == disk[h]
           new == Overlay(d, out[h], Buffered(h))
           g == given[h]
<1>3. /\ sessions[h] \in SessionType /\ out[h] \in Nat
      /\ d \in Seq(FileEntry \cup {Hole}) /\ g \in SUBSET Given
  BY <1>1, LiveFile
<1>4. Buffered(h) \in Seq(FileEntry \cup {Hole})
  <2> DEFINE whole == sessions[h].file
  <2>1. whole \in Seq(FileEntry)
    BY <1>3 DEF SessionType
  <2> HIDE DEF whole
  <2>2. SubSeq(whole, out[h] + 1, Len(whole)) \in Seq(FileEntry \cup {Hole})
    BY <1>3, <2>1, TailType
  <2>3. QED
    BY <2>2 DEF Buffered, whole
<1>5. new \in Seq(FileEntry \cup {Hole})
  <2> DEFINE S == FileEntry \cup {Hole}
             frames == Buffered(h)
  <2>1. d \in Seq(S) /\ frames \in Seq(S)
    BY <1>3, <1>4
  <2> HIDE DEF S, frames
  <2>2. Overlay(d, out[h], frames) \in Seq(S \cup {Hole})
    BY <1>3, <2>1, OverlayType
  <2>3. S \cup {Hole} = S
    BY DEF S
  <2>4. QED
    BY <2>2, <2>3 DEF S, frames
<1>6. /\ sessions' = [sessions EXCEPT ![h] = NoSession]
      /\ out' = [out EXCEPT ![h] = 0] /\ given' = [given EXCEPT ![h] = g]
      /\ clobbered' = clobbered
      /\ \/ disk' = [disk EXCEPT ![h] = new]
         \/ disk' = [disk EXCEPT ![h] = d]
  BY <1>1 DEF foldback_session_destroy, histories, FileInv
<1>7. NoSession \in SessionType \cup {NoSession} /\ 0 \in Nat
  OBVIOUS
<1> HIDE DEF d, new, g
<1>8. FileInv'
  BY <1>1, <1>3, <1>5, <1>6, <1>7, SlotFileStep
<1>9. QED
  BY <1>2, <1>8 DEF BInv

----------------------------------------------------------------------------
(* The two bindings *)

LEMMA QuietBoth ==
  ASSUME BInv, UNCHANGED <<sessions, out, disk, taken, told, given, clobbered>>
  PROVE  BInv'
BY QuietStep, QuietFileStep DEF BInv

LEMMA RefusedStep ==
  ASSUME BInv, NEW thread, Refused(thread)
  PROVE  BInv'
BY QuietBoth DEF Refused, histories

LEMMA CStep == BInv /\ CNext => BInv'
<1> SUFFICES ASSUME BInv, CNext PROVE BInv'
  OBVIOUS
<1> PICK h \in Slots :
      \/ foldback_session_destroy(h)
      \/ \E thread \in Owners :
           \/ foldback_session_create(thread, h)
           \/ foldback_hash_tick(thread, h)
           \/ foldback_record_peer_hash(thread, h)
           \/ foldback_entity(thread, h)
           \/ foldback_field(thread, h)
           \/ foldback_record_schema(thread, h)
           \/ foldback_take_pending_hashes(thread, h)
           \/ foldback_check_divergence(thread, h)
           \/ foldback_finish_recording(thread, h)
           \/ foldback_pending_hash_count(thread, h)
           \/ foldback_finish(thread, h)
           \/ foldback_tick_rate_hz(thread, h)
  BY DEF CNext
<1>1. CASE foldback_session_destroy(h)
  BY <1>1, DestroyStep
<1>2. ASSUME NEW thread \in Owners, foldback_session_create(thread, h)
      PROVE  BInv'
  <2>1. CASE Refused(thread)
    BY <2>1, RefusedStep
  <2>2. ASSUME NEW retention \in {0, 1}, NEW recording \in BOOLEAN,
               Builds(h, IF retention = 0 THEN DefaultRetention ELSE retention,
                      recording, << >>)
        PROVE  BInv'
    <3>1. (IF retention = 0 THEN DefaultRetention ELSE retention) \in Nat
      BY BindingAssumption
    <3>2. << >> \in Seq(FileEntry)
      OBVIOUS
    <3>3. QED
      BY <2>2, <3>1, <3>2, BuildsStep
  <2>3. QED
    BY <1>2, <2>1, <2>2 DEF foldback_session_create
<1>3. ASSUME NEW thread \in Owners, foldback_hash_tick(thread, h)
      PROVE  BInv'
  BY <1>3, RefusedStep, HashTicksStep DEF foldback_hash_tick
<1>4. ASSUME NEW thread \in Owners, foldback_record_peer_hash(thread, h)
      PROVE  BInv'
  <2>1. GamePeers \cap Peers \subseteq GamePeers
    OBVIOUS
  <2>2. QED
    BY <1>4, <2>1, RefusedStep, PeerHashesStep DEF foldback_record_peer_hash
<1>5. ASSUME NEW thread \in Owners, foldback_entity(thread, h)
      PROVE  BInv'
  <2>1. "EntityHash" \in DetailLevels
    BY DEF DetailLevels
  <2>2. QED
    BY <1>5, <2>1, RefusedStep, DetailsStep DEF foldback_entity
<1>6. ASSUME NEW thread \in Owners, foldback_field(thread, h)
      PROVE  BInv'
  <2>1. "FieldHash" \in DetailLevels
    BY DEF DetailLevels
  <2>2. QED
    BY <1>6, <2>1, RefusedStep, DetailsStep DEF foldback_field
<1>7. ASSUME NEW thread \in Owners, foldback_record_schema(thread, h)
      PROVE  BInv'
  BY <1>7, RefusedStep, SchemasStep DEF foldback_record_schema
<1>8. ASSUME NEW thread \in Owners, foldback_take_pending_hashes(thread, h)
      PROVE  BInv'
  BY <1>8, RefusedStep, TakesStep DEF foldback_take_pending_hashes
<1>9. ASSUME NEW thread \in Owners, foldback_check_divergence(thread, h)
      PROVE  BInv'
  BY <1>9, RefusedStep, ChecksStep DEF foldback_check_divergence
<1>10. ASSUME NEW thread \in Owners, foldback_finish_recording(thread, h)
       PROVE  BInv'
  BY <1>10, RefusedStep, FinishesStep DEF foldback_finish_recording
<1>11. ASSUME NEW thread \in Owners, Getter(thread, h)
       PROVE  BInv'
  BY <1>11, RefusedStep, QuietBoth DEF Getter, histories
<1>12. QED
  BY <1>1, <1>2, <1>3, <1>4, <1>5, <1>6, <1>7, <1>8, <1>9, <1>10, <1>11
     DEF foldback_pending_hash_count, foldback_finish, foldback_tick_rate_hz

LEMMA GodotStep == BInv /\ GodotNext => BInv'
<1> SUFFICES ASSUME BInv, GodotNext PROVE BInv'
  OBVIOUS
<1>1. 1 \in Slots
  BY BindingAssumption
<1>2. CASE NotConfigured
  BY <1>2, QuietBoth DEF NotConfigured, histories
<1>3. CASE configure
  <2>1. CASE UNCHANGED <<sessions, out, disk, histories>>
    BY <2>1, QuietBoth DEF histories
  <2>2. ASSUME NEW retention \in {0, 1}, NEW recording \in BOOLEAN,
               NEW left \in {<< >>} \cup (IF Live(1) THEN {Buffered(1)} ELSE {}),
               Builds(1, IF retention > 0 THEN retention ELSE DefaultRetention,
                      recording, left)
        PROVE  BInv'
    <3>1. (IF retention > 0 THEN retention ELSE DefaultRetention) \in Nat
      BY BindingAssumption
    <3>2. left \in Seq(FileEntry)
      <4>1. CASE left = << >>
        BY <4>1
      <4>2. CASE Live(1) /\ left = Buffered(1)
        <5> DEFINE whole == sessions[1].file
        <5>1. whole \in Seq(FileEntry) /\ out[1] \in Nat
          BY <1>1, <4>2, LiveFile DEF SessionType
        <5> HIDE DEF whole
        <5>2. SubSeq(whole, out[1] + 1, Len(whole)) \in Seq(FileEntry)
          BY <5>1, TailType
        <5>3. QED
          BY <4>2, <5>2 DEF Buffered, whole
      <4>3. QED
        BY <2>2, <4>1, <4>2
    <3>3. QED
      BY <1>1, <2>2, <3>1, <3>2, BuildsStep
  <2>3. QED
    BY <1>3, <2>1, <2>2 DEF configure
<1>4. CASE hash_tick
  BY <1>1, <1>2, <1>4, HashTicksStep DEF hash_tick
<1>5. CASE record_peer_hash
  <2>1. GamePeers \subseteq GamePeers
    OBVIOUS
  <2>2. QED
    BY <1>1, <1>2, <1>5, <2>1, PeerHashesStep DEF record_peer_hash
<1>6. CASE entity
  <2>1. "EntityHash" \in DetailLevels
    BY DEF DetailLevels
  <2>2. QED
    BY <1>1, <1>2, <1>6, <2>1, DetailsStep DEF entity
<1>7. CASE field
  <2>1. "FieldHash" \in DetailLevels
    BY DEF DetailLevels
  <2>2. QED
    BY <1>1, <1>2, <1>7, <2>1, DetailsStep DEF field
<1>8. CASE hash_reflected
  <2>1. ASSUME Live(1), NEW name \in TypeNames, NEW named \in WriteOutcomes(sessions[1]),
               NEW leaves \in 0 .. 1, NEW wrote \in WriteOutcomes(sessions[1]), NEW ok,
               Does(1, Quiet(IF named /\ leaves = 1
                             THEN RecordPeerDetail(RecordSchema(sessions[1], name, named),
                                                   "FieldHash", wrote)
                             ELSE RecordSchema(sessions[1], name, named), ok))
        PROVE  BInv'
    <3> DEFINE after == IF named /\ leaves = 1
                        THEN RecordPeerDetail(RecordSchema(sessions[1], name, named),
                                              "FieldHash", wrote)
                        ELSE RecordSchema(sessions[1], name, named)
    <3>1. named \in BOOLEAN /\ wrote \in BOOLEAN /\ sessions[1] \in SessionType
      BY <1>1, <2>1, OutcomesAreBoolean, LiveFile
    <3>2. Adds(sessions[1], after) /\ Writes(sessions[1], after, {})
      BY <3>1, SchemaAdds, AddsTwice, SchemaWrites, WritesTwice
    <3> HIDE DEF after
    <3> DEFINE r == Quiet(after, ok)
    <3>3. Does(1, r) /\ r.session = after /\ r.reports = {}
      BY <2>1 DEF after, Quiet, Result
    <3> HIDE DEF r
    <3>4. r.reports \subseteq Given
      BY <3>3
    <3>5. Adds(sessions[1], r.session) /\ Writes(sessions[1], r.session, r.reports)
      BY <3>2, <3>3
    <3>6. QED
      BY <1>1, <2>1, <3>3, <3>4, <3>5, DoesStep
  <2>2. ASSUME Live(1), NEW schema \in Schemas(1), NEW leaves \in 0 .. 1,
               NEW wrote \in WriteOutcomes(sessions[1]), NEW walked \in BOOLEAN,
               Does(1, Quiet(IF schema.ok /\ leaves = 1
                             THEN RecordPeerDetail(schema.session, "FieldHash", wrote)
                             ELSE schema.session,
                             schema.ok /\ walked /\ (leaves = 1 => wrote)))
        PROVE  BInv'
    <3>1. PICK name \in TypeNames, named \in WriteOutcomes(sessions[1]) :
            schema.session = RecordSchema(sessions[1], name, named) /\ schema.ok = named
      BY DEF Schemas, Quiet, Result
    <3>2. QED
      BY <2>1, <2>2, <3>1
  <2>3. QED
    BY <1>2, <1>8, <2>2 DEF hash_reflected
<1>9. CASE take_pending_hashes
  BY <1>1, <1>9, TakesStep DEF take_pending_hashes
<1>10. CASE check_divergence
  BY <1>1, <1>10, ChecksStep DEF check_divergence
<1>11. CASE finish_recording
  BY <1>1, <1>2, <1>11, FinishesStep DEF finish_recording
<1>12. QED
  BY <1>3, <1>4, <1>5, <1>6, <1>7, <1>8, <1>9, <1>10, <1>11 DEF GodotNext

LEMMA InitBInv == Init => BInv
<1> SUFFICES ASSUME Init PROVE BInv
  OBVIOUS
<1>1. << >> \in Seq(TickHash) /\ {} \in SUBSET Ticks /\ {} \in SUBSET Given
      /\ << >> \in Seq(FileEntry \cup {Hole}) /\ 0 \in Nat
  OBVIOUS
<1>2. HandedInv
  BY <1>1 DEF Init, BindingInit, HandedInv, NothingLost, Live
<1>3. FileInv
  BY <1>1 DEF Init, BindingInit, FileInv, SlotInv, Live
<1>4. QED
  BY <1>2, <1>3 DEF BInv

LEMMA BInvCorrect == Spec => []BInv
<1>1. BInv /\ [Next]_<<vars, api>> => BInv'
  <2> SUFFICES ASSUME BInv, [Next]_<<vars, api>> PROVE BInv'
    OBVIOUS
  <2>1. CASE CNext
    BY <2>1, CStep
  <2>2. CASE GodotNext
    BY <2>2, GodotStep
  <2>3. CASE UNCHANGED <<vars, api>>
    BY <2>3, QuietBoth DEF vars, histories
  <2>4. QED
    BY <2>1, <2>2, <2>3 DEF Next
<1>2. QED
  BY <1>1, InitBInv, PTL DEF Spec

\* Across the boundary no hash is lost or given twice and no divergence is
\* swallowed, whichever calls are refused or fail, in whatever order.
THEOREM NothingLostCorrect == Spec => []NothingLost
<1>1. BInv => NothingLost
  BY DEF BInv, HandedInv
<1>2. QED
  BY <1>1, BInvCorrect, PTL

\* The file at a slot's path is what its session has flushed and nothing else,
\* however its sessions were created, replaced and destroyed.
THEOREM FileIsOwnCorrect == Spec => []FileIsOwn
<1>1. BInv => FileIsOwn
  <2> SUFFICES ASSUME BInv, NEW h \in Slots, h \notin clobbered, Live(h),
                      sessions[h].recording
               PROVE  disk[h] = SubSeq(sessions[h].file, 1, out[h])
    BY DEF FileIsOwn
  <2> DEFINE whole == sessions[h].file
             o == out[h]
             d == disk[h]
             S == FileEntry \cup {Hole}
  <2>1. /\ whole \in Seq(FileEntry) /\ o \in Nat /\ o <= Len(whole)
        /\ d \in Seq(S) /\ Len(d) = o /\ \A i \in 1 .. o : d[i] = whole[i]
    BY LiveFile DEF SessionType, OwnFile
  <2> HIDE DEF whole, o, d
  <2>2. Len(whole) \in Nat /\ \A i \in 1 .. Len(whole) : whole[i] \in S
    BY <2>1
  <2>3. 1 \in Int /\ o \in Int /\ \A i \in 1 .. o : whole[i] \in S
    BY <2>1, <2>2
  <2> HIDE DEF S
  <2>4. /\ SubSeq(whole, 1, o) \in Seq(S)
        /\ Len(SubSeq(whole, 1, o)) = IF 1 <= o THEN o - 1 + 1 ELSE 0
        /\ \A i \in 1 .. o - 1 + 1 : SubSeq(whole, 1, o)[i] = whole[1 + i - 1]
    BY <2>3, SubSeqProperties
  <2>5. Len(SubSeq(whole, 1, o)) = o
    BY <2>1, <2>4
  <2>6. \A i \in 1 .. o : d[i] = SubSeq(whole, 1, o)[i]
    <3>1. \A i \in 1 .. o : i \in 1 .. o - 1 + 1 /\ 1 + i - 1 = i
      BY <2>1
    <3>2. QED
      BY <2>1, <2>4, <3>1
  <2>7. d = SubSeq(whole, 1, o)
    BY <2>1, <2>4, <2>5, <2>6, SeqEqual
  <2>8. QED
    BY <2>7 DEF d, whole, o
<1>2. QED
  BY <1>1, BInvCorrect, PTL

\* The 16-bit cut of a peer's id hides no disagreement and makes none up.
THEOREM CutIdsHideNothingCorrect == Spec => []CutIdsHideNothing
<1>1. BInv => CutIdsHideNothing
  <2> SUFFICES ASSUME BInv, NEW h \in Slots, Live(h), NEW t \in Ticks
               PROVE  Disagree(sessions[h].hashes_by_tick[t])
                        <=> \E a, b \in given[h] :
                              a.tick = t /\ b.tick = t /\ a.hash # b.hash
    BY DEF CutIdsHideNothing
  <2> DEFINE s == sessions[h]
             g == given[h]
  <2>1. /\ s \in SessionType /\ g \subseteq Given
        /\ \A x \in Hashes : Heard(s, t, x) <=> Named(g, t, x)
    BY LiveFile
  <2> HIDE DEF s, g
  <2>2. Disagree(s.hashes_by_tick[t]) <=>
          \E p, q \in Peers, x, y \in Hashes :
            InTable(s, t, p, x) /\ InTable(s, t, q, y) /\ x # y
    BY <2>1, DisagreeInTable
  <2>3. Disagree(s.hashes_by_tick[t]) <=>
          \E x, y \in Hashes : Heard(s, t, x) /\ Heard(s, t, y) /\ x # y
    BY <2>2 DEF Heard
  <2>4. \A a \in g : a.hash \in Hashes
    BY <2>1 DEF Given
  <2>5. (\E x, y \in Hashes : Named(g, t, x) /\ Named(g, t, y) /\ x # y)
          <=> \E a, b \in g : a.tick = t /\ b.tick = t /\ a.hash # b.hash
    BY <2>4 DEF Named
  <2>6. QED
    BY <2>1, <2>3, <2>5 DEF s, g
<1>2. QED
  BY <1>1, BInvCorrect, PTL

----------------------------------------------------------------------------
(* Types *)

ErrorType == error \in [Owners -> BOOLEAN]

LEMMA SetsError ==
  ASSUME ErrorType, NEW owner, NEW ok, error' = [error EXCEPT ![owner] = ~ ok]
  PROVE  ErrorType'
<1>1. (~ ok) \in BOOLEAN
  OBVIOUS
<1>2. QED
  BY <1>1 DEF ErrorType

LEMMA ErrorStep ==
  ASSUME ErrorType, [Next]_<<vars, api>>
  PROVE  ErrorType'
<1>1. ASSUME NEW thread, Refused(thread) PROVE ErrorType'
  BY <1>1, SetsError DEF Refused, run_catching
<1>2. ASSUME NEW thread, NEW ok, run_catching(thread, ok) PROVE ErrorType'
  BY <1>2, SetsError DEF run_catching
<1>3. ASSUME NEW ok, with_session(ok) PROVE ErrorType'
  BY <1>3, SetsError DEF with_session
<1>4. CASE UNCHANGED error
  BY <1>4 DEF ErrorType
<1>5. ASSUME NEW h \in Slots, foldback_session_destroy(h) PROVE ErrorType'
  BY <1>4, <1>5 DEF foldback_session_destroy
<1>6. ASSUME NEW h \in Slots, NEW thread \in Owners,
             \/ foldback_session_create(thread, h)
             \/ foldback_take_pending_hashes(thread, h)
             \/ foldback_check_divergence(thread, h)
             \/ foldback_finish_recording(thread, h)
             \/ Getter(thread, h)
      PROVE  ErrorType'
  BY <1>1, <1>2, <1>6
     DEF foldback_session_create, foldback_take_pending_hashes,
         foldback_check_divergence, foldback_finish_recording, Getter
<1>7. ASSUME NEW h \in Slots, NEW thread \in Owners,
             \/ foldback_hash_tick(thread, h)
             \/ foldback_record_peer_hash(thread, h)
             \/ foldback_entity(thread, h)
             \/ foldback_field(thread, h)
             \/ foldback_record_schema(thread, h)
      PROVE  ErrorType'
  BY <1>1, <1>2, <1>7
     DEF foldback_hash_tick, foldback_record_peer_hash, foldback_entity,
         foldback_field, foldback_record_schema
<1>8. CASE CNext
  BY <1>5, <1>6, <1>7, <1>8
     DEF CNext, foldback_pending_hash_count, foldback_finish, foldback_tick_rate_hz
<1>9. CASE NotConfigured
  BY <1>3, <1>9 DEF NotConfigured
<1>10. CASE configure
  BY <1>3, <1>10 DEF configure
<1>11. CASE hash_tick \/ record_peer_hash \/ entity \/ field
  BY <1>3, <1>9, <1>11 DEF hash_tick, record_peer_hash, entity, field
<1>12. CASE hash_reflected
  BY <1>3, <1>9, <1>12 DEF hash_reflected
<1>13. CASE take_pending_hashes \/ check_divergence
  BY <1>4, <1>13 DEF take_pending_hashes, check_divergence, Unreported
<1>14. CASE finish_recording
  BY <1>3, <1>9, <1>14 DEF finish_recording
<1>15. CASE GodotNext
  BY <1>10, <1>11, <1>12, <1>13, <1>14, <1>15 DEF GodotNext
<1>16. CASE UNCHANGED <<vars, api>>
  BY <1>4, <1>16 DEF vars
<1>17. QED
  BY <1>8, <1>15, <1>16 DEF Next

\* Every variable keeps its type, and no session has flushed frames it did not
\* write.
THEOREM TypeCorrect == Spec => []TypeOK
<1>1. Init => ErrorType
  BY DEF Init, BindingInit, ErrorType
<1>2. ErrorType /\ [Next]_<<vars, api>> => ErrorType'
  BY ErrorStep
<1>3. BInv /\ ErrorType => TypeOK
  <2> SUFFICES ASSUME BInv, ErrorType PROVE TypeOK
    OBVIOUS
  <2>1. ASSUME NEW h \in Slots
        PROVE  out[h] \in 0 .. (IF Live(h) THEN Len(sessions[h].file) ELSE 0)
    <3>1. CASE Live(h)
      <4>1. sessions[h].file \in Seq(FileEntry)
        BY <3>1, LiveFile DEF SessionType
      <4>2. Len(sessions[h].file) \in Nat
        BY <4>1
      <4>3. QED
        BY <3>1, <4>2, LiveFile
    <3>2. CASE ~ Live(h)
      BY <3>2 DEF BInv, FileInv, SlotInv
    <3>3. QED
      BY <3>1, <3>2
  <2>2. QED
    BY <2>1 DEF BInv, HandedInv, FileInv, ErrorType, TypeOK
<1>4. QED
  BY <1>1, <1>2, <1>3, BInvCorrect, PTL DEF Spec
=============================================================================
