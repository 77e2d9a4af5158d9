-------------------------- MODULE UiTimelineProofs --------------------------
(***************************************************************************)
(* What the viewer shows and what its disconnect reaches, for any number   *)
(* of connections, clicks, events and frames.                              *)
(***************************************************************************)
EXTENDS UiTimeline, FiniteSetTheorems, WellFoundedInduction, TLAPS

\* A set of natural numbers that is not empty has a least element.
LEMMA Least ==
  ASSUME NEW U \in SUBSET Nat, U # {}
  PROVE  \E n \in U : \A m \in U : n <= m
<1>1. PICK n \in U : \A m \in U : ~ (<<m, n>> \in OpToRel(<, Nat))
  BY NatLessThanWellFounded, WFMin
<1>2. \A m \in U : ~ (m < n) /\ m \in Nat /\ n \in Nat
  BY <1>1 DEF OpToRel
<1>3. QED
  BY <1>2

\* Induction up to n.
LEMMA UpTo ==
  ASSUME NEW n \in Nat, NEW T,
         0 \in T, \A k \in 0 .. n - 1 : k \in T => k + 1 \in T
  PROVE  0 .. n \subseteq T
<1> DEFINE U == (0 .. n) \ T
<1>1. SUFFICES ASSUME U # {} PROVE FALSE
  OBVIOUS
<1>2. PICK x \in U : \A y \in U : x <= y
  <2>1. U \in SUBSET Nat
    OBVIOUS
  <2> HIDE DEF U
  <2>2. QED
    BY <1>1, <2>1, Least
<1>3. x - 1 \in 0 .. n - 1 /\ (x - 1) + 1 = x
  OBVIOUS
<1>4. x - 1 \in U
  BY <1>3
<1>5. QED
  BY <1>2, <1>3, <1>4

-----------------------------------------------------------------------------
(* The types the proofs of the connections need; what the page shows is     *)
(* typed with the timeline, below.                                         *)
Told == [type : {"Hello", "Disconnected", "EntityHash", "FieldHash", "Metadata",
                 "EndOfStream"}, conn : Conns]
Reported == [type : {"TickHash"}, conn : Conns, tick : Ticks, peer : Peers, hash : Hashes]
Events == Told \cup Reported

Calls == [kind : {"load", "disconnect"}, conn : {NoConn}, id : Nat]
           \cup [kind : {"connect"}, conn : Conns, id : Nat]

PageType(p) ==
  /\ p = [shown |-> p.shown, origin |-> p.origin, live |-> p.live,
          reports |-> p.reports, divergence |-> p.divergence, asked |-> p.asked]
  /\ p.live \in BOOLEAN /\ p.asked \in 0 .. MaxConns

UiTypes ==
  /\ PageType(page)
  /\ calls \in Seq(Calls)
  /\ busy = Idle \/ (busy \in Calls /\ busy.kind = "connect")
  /\ reading \subseteq Conns
  /\ coming \in [Conns -> Seq(Format!Frame)]
  /\ events \in Seq(Events)
  /\ clicks \in Nat /\ overlap \in BOOLEAN /\ doubled \in BOOLEAN

\* While no connection was asked for over another, one connection at most is
\* asked for, waited for or in use.
Alone ==
  ~ doubled =>
    /\ open \subseteq {stored}
    /\ busy # Idle => open = {}
    /\ \A i \in DOMAIN calls : calls[i].kind = "connect" =>
         /\ open = {} /\ busy = Idle
         /\ \A j \in DOMAIN calls : calls[j].kind = "connect" => j = i

\* While a session that was opened with nothing else under way is live, all
\* that is under way is its own connection's, and no file is.
Own ==
  ~ overlap /\ page.live =>
    /\ page.reports \in Seq(Events)
    /\ \A i \in DOMAIN events : events[i].conn = page.origin
    /\ reading \subseteq {page.origin}
    /\ busy # Idle => busy.conn = page.origin
    /\ \A i \in DOMAIN calls :
         /\ calls[i].kind # "load"
         /\ calls[i].kind = "connect" => calls[i].conn = page.origin
    /\ \A r \in replies : r.kind # "load"

\* What comes back from a load came over no connection.
Answers ==
  \A r \in replies : r.kind = "load" =>
    \A i \in DOMAIN r.session.reports : r.session.reports[i].conn = NoConn

UiInv == UiTypes /\ Alone /\ Answers /\ StrayOnlyOnOverlap /\ Own

----------------------------------------------------------------------------
(* Sequences and records *)

LEMMA AtTheEnd ==
  ASSUME NEW S, NEW s \in Seq(S), NEW x \in S
  PROVE  /\ Append(s, x) \in Seq(S)
         /\ Len(s) \in Nat /\ DOMAIN s = 1 .. Len(s)
         /\ DOMAIN Append(s, x) = 1 .. Len(s) + 1
         /\ \A i \in DOMAIN s : Append(s, x)[i] = s[i]
         /\ Append(s, x)[Len(s) + 1] = x
OBVIOUS

LEMMA AtTheHead ==
  ASSUME NEW S, NEW s \in Seq(S), s # << >>
  PROVE  /\ Head(s) \in S /\ Head(s) = s[1] /\ 1 \in DOMAIN s
         /\ Tail(s) \in Seq(S)
         /\ Len(s) \in Nat /\ DOMAIN s = 1 .. Len(s)
         /\ DOMAIN Tail(s) = 1 .. Len(s) - 1
         /\ \A i \in DOMAIN Tail(s) : Tail(s)[i] = s[i + 1] /\ i + 1 \in DOMAIN s
OBVIOUS

LEMMA EventType ==
  ASSUME NEW c \in Conns, NEW frame \in Format!Frame
  PROVE  /\ frame_to_live_event(c, frame) \in Events
         /\ frame_to_live_event(c, frame).conn = c
<1>1. CASE frame.type = "TickHash"
  BY <1>1 DEF frame_to_live_event, Report, Events, Reported, Told, Format!Frame,
              Format!DetailLevels, Format!EndOfStream
<1>2. CASE frame.type # "TickHash"
  BY <1>2 DEF frame_to_live_event, Events, Told, Format!Frame,
              Format!DetailLevels, Format!EndOfStream
<1>3. QED
  BY <1>1, <1>2

\* What a tick hash changes of the page: its reports and its divergence.
LEMMA AppliedPage ==
  ASSUME NEW p, PageType(p), NEW e
  PROVE  LET q == TickHashApplied(p, e)
         IN  /\ PageType(q)
             /\ q.live = p.live /\ q.origin = p.origin /\ q.shown = p.shown
             /\ q.reports = Append(p.reports, e)
             /\ q.divergence = IF p.divergence = NoTick /\ tickDisagrees(q.reports, e.tick)
                              THEN e.tick ELSE p.divergence
<1> DEFINE reports == Append(p.reports, e)
           tick == IF p.divergence = NoTick /\ tickDisagrees(reports, e.tick)
                   THEN e.tick ELSE p.divergence
<1>1. TickHashApplied(p, e) = [[p EXCEPT !.reports = reports] EXCEPT !.divergence = tick]
  BY DEF TickHashApplied, PageType
<1> HIDE DEF reports, tick
<1>2. TickHashApplied(p, e) =
        [shown |-> p.shown, origin |-> p.origin, live |-> p.live,
         reports |-> reports, divergence |-> tick, asked |-> p.asked]
  BY <1>1 DEF PageType
<1>3. /\ PageType(TickHashApplied(p, e))
      /\ TickHashApplied(p, e).reports = reports /\ TickHashApplied(p, e).divergence = tick
  BY <1>2 DEF PageType
<1>4. QED
  BY <1>2, <1>3 DEF reports, tick

LEMMA EndedPage ==
  ASSUME NEW p, PageType(p)
  PROVE  LET q == [p EXCEPT !.live = FALSE]
         IN  /\ PageType(q)
             /\ q.live = FALSE /\ q.origin = p.origin /\ q.shown = p.shown
             /\ q.reports = p.reports /\ q.divergence = p.divergence
<1> DEFINE q == [p EXCEPT !.live = FALSE]
<1>1. q = [p EXCEPT !.live = FALSE]
  OBVIOUS
<1> HIDE DEF q
<1>2. q = [shown |-> p.shown, origin |-> p.origin, live |-> FALSE,
           reports |-> p.reports, divergence |-> p.divergence, asked |-> p.asked]
  BY <1>1 DEF PageType
<1>3. /\ PageType(q) /\ q.live = FALSE /\ q.origin = p.origin /\ q.shown = p.shown
      /\ q.reports = p.reports /\ q.divergence = p.divergence
  BY <1>2 DEF PageType
<1>4. QED
  BY <1>3 DEF q

----------------------------------------------------------------------------
(* What load returns *)

Pushed(file, g, n) ==
  IF n = 0 THEN << >>
  ELSE IF file[n].type = "TickHash"
       THEN Append(g[n - 1], frame_to_live_event(NoConn, file[n]))
       ELSE g[n - 1]

\* g says of the first k frames what the loop has pushed after them.
FixedUpTo(file, g, k) ==
  /\ g = [n \in 0 .. Len(file) |-> g[n]]
  /\ \A n \in 0 .. k : g[n] = Pushed(file, g, n)

\* The loop's reports are what its recursive definition says.
LEMMA PushedEquation ==
  ASSUME NEW file \in Seq(Format!Frame)
  PROVE  \E g : /\ tick_hashes(file) = g[Len(file)]
                /\ \A n \in 0 .. Len(file) : g[n] = Pushed(file, g, n)
<1> DEFINE N == Len(file)
           T == {k \in 0 .. N : \E g : FixedUpTo(file, g, k)}
<1>1. N \in Nat /\ N = Len(file)
  OBVIOUS
<1>2. 0 \in T
  <2> DEFINE g == [n \in 0 .. N |-> << >>]
  <2>1. g = [n \in 0 .. N |-> g[n]] /\ g[0] = << >>
    BY <1>1
  <2> HIDE DEF g
  <2>2. FixedUpTo(file, g, 0)
    <3>1. Pushed(file, g, 0) = << >>
      BY DEF Pushed
    <3>2. \A n \in 0 .. 0 : n = 0
      OBVIOUS
    <3>3. QED
      BY <2>1, <3>1, <3>2 DEF FixedUpTo
  <2>3. QED
    BY <1>1, <2>2
<1>3. ASSUME NEW k \in 0 .. N - 1, k \in T PROVE k + 1 \in T
  <2>1. PICK g : FixedUpTo(file, g, k)
    BY <1>3
  <2> DEFINE h == [n \in 0 .. N |-> IF n = k + 1 THEN Pushed(file, g, n) ELSE g[n]]
  <2>2. /\ h = [n \in 0 .. N |-> h[n]] /\ h[k + 1] = Pushed(file, g, k + 1)
        /\ \A n \in 0 .. N : n # k + 1 => h[n] = g[n]
    BY <1>1
  <2> HIDE DEF h
  <2>3. ASSUME NEW n \in 0 .. k + 1 PROVE Pushed(file, h, n) = Pushed(file, g, n)
    <3>1. CASE n = 0
      BY <3>1 DEF Pushed
    <3>2. CASE n # 0
      <4>1. n - 1 \in 0 .. N /\ n - 1 # k + 1
        BY <1>1, <3>2
      <4>2. h[n - 1] = g[n - 1]
        BY <2>2, <4>1
      <4>3. QED
        BY <3>2, <4>2 DEF Pushed
    <3>3. QED
      BY <3>1, <3>2
  <2>4. ASSUME NEW n \in 0 .. k + 1 PROVE h[n] = Pushed(file, h, n)
    <3>1. CASE n = k + 1
      BY <2>2, <2>3, <3>1
    <3>2. CASE n # k + 1
      <4>1. n \in 0 .. k /\ n \in 0 .. N
        BY <1>1, <3>2
      <4>2. g[n] = Pushed(file, g, n)
        BY <2>1, <4>1 DEF FixedUpTo
      <4>3. QED
        BY <2>2, <2>3, <3>2, <4>1, <4>2
    <3>3. QED
      BY <3>1, <3>2
  <2>5. FixedUpTo(file, h, k + 1)
    BY <2>2, <2>4 DEF FixedUpTo
  <2>6. QED
    BY <1>1, <2>5
<1>4. N \in T
  <2> HIDE DEF T, N
  <2>1. 0 .. N \subseteq T
    BY <1>1, <1>2, <1>3, UpTo
  <2>2. QED
    BY <1>1, <2>1
<1>5. \E g : g = [n \in 0 .. N |-> Pushed(file, g, n)]
  <2>1. PICK g : FixedUpTo(file, g, N)
    BY <1>4
  <2>2. g = [n \in 0 .. N |-> g[n]] /\ \A n \in 0 .. N : g[n] = Pushed(file, g, n)
    BY <2>1 DEF FixedUpTo
  <2>3. g = [n \in 0 .. N |-> Pushed(file, g, n)]
    BY <2>2
  <2>4. QED
    BY <2>3
<1> DEFINE f == CHOOSE g : g = [n \in 0 .. N |-> Pushed(file, g, n)]
<1>6. tick_hashes(file) = f[N]
  BY DEF tick_hashes, Pushed
<1>7. f = [n \in 0 .. N |-> Pushed(file, f, n)]
  BY <1>5
<1> HIDE DEF f
<1>8. QED
  BY <1>1, <1>6, <1>7

LEMMA FileReport ==
  ASSUME NEW frame \in Format!Frame, frame.type = "TickHash"
  PROVE  /\ frame_to_live_event(NoConn, frame) \in Reports
         /\ frame_to_live_event(NoConn, frame).conn = NoConn
<1>1. frame.tick \in Ticks /\ frame.peer \in Peers /\ frame.hash \in Hashes
  BY DEF Format!Frame, Format!DetailLevels, Format!EndOfStream
<1>2. frame_to_live_event(NoConn, frame) = Report(NoConn, frame.tick, frame.peer, frame.hash)
  BY DEF frame_to_live_event
<1>3. Report(NoConn, frame.tick, frame.peer, frame.hash) \in Reports
  BY <1>1 DEF Reports
<1>4. QED
  BY <1>2, <1>3 DEF Report

\* The reports of a file are reports, and came over no connection.
LEMMA LoadedReports ==
  ASSUME NEW file \in Seq(Format!Frame)
  PROVE  /\ tick_hashes(file) \in Seq(Reports)
         /\ \A i \in DOMAIN tick_hashes(file) : tick_hashes(file)[i].conn = NoConn
<1> DEFINE FromFile == {r \in Reports : r.conn = NoConn}
<1>1. PICK g : /\ tick_hashes(file) = g[Len(file)]
               /\ \A n \in 0 .. Len(file) : g[n] = Pushed(file, g, n)
  BY PushedEquation
<1> DEFINE N == Len(file)
           T == {n \in 0 .. N : g[n] \in Seq(FromFile)}
<1>2. N \in Nat /\ N = Len(file)
  OBVIOUS
<1>3. 0 \in T
  <2>1. g[0] = << >>
    BY <1>1, <1>2 DEF Pushed
  <2>2. << >> \in Seq(FromFile)
    OBVIOUS
  <2>3. 0 \in 0 .. N
    BY <1>2
  <2>4. QED
    BY <2>1, <2>2, <2>3
<1>4. ASSUME NEW k \in 0 .. N - 1, k \in T PROVE k + 1 \in T
  <2>1. k + 1 \in 0 .. N /\ k + 1 # 0 /\ (k + 1) - 1 = k /\ k + 1 \in 1 .. N
    BY <1>2
  <2>2. g[k + 1] = IF file[k + 1].type = "TickHash"
                   THEN Append(g[k], frame_to_live_event(NoConn, file[k + 1]))
                   ELSE g[k]
    BY <1>1, <2>1 DEF Pushed
  <2>3. file[k + 1] \in Format!Frame
    BY <1>2, <2>1
  <2>4. g[k] \in Seq(FromFile)
    BY <1>4
  <2>5. CASE file[k + 1].type = "TickHash"
    <3> DEFINE r == frame_to_live_event(NoConn, file[k + 1])
    <3>1. r \in FromFile
      BY <2>3, <2>5, FileReport
    <3>2. g[k + 1] = Append(g[k], r)
      BY <2>2, <2>5
    <3> HIDE DEF r, FromFile
    <3>3. g[k + 1] \in Seq(FromFile)
      BY <2>4, <3>1, <3>2, AtTheEnd
    <3>4. QED
      BY <2>1, <3>3
  <2>6. CASE file[k + 1].type # "TickHash"
    BY <2>1, <2>2, <2>4, <2>6
  <2>7. QED
    BY <2>5, <2>6
<1>5. N \in T
  <2> HIDE DEF T, N
  <2>1. 0 .. N \subseteq T
    BY <1>2, <1>3, <1>4, UpTo
  <2>2. QED
    BY <1>2, <2>1
<1>6. tick_hashes(file) \in Seq(FromFile)
  BY <1>1, <1>5
<1>7. QED
  BY <1>6

----------------------------------------------------------------------------
(* Types *)

LEMMA CallType ==
  ASSUME clicks \in Nat, NEW c \in Conns
  PROVE  /\ Call("load", NoConn) \in Calls /\ Call("disconnect", NoConn) \in Calls
         /\ Call("connect", c) \in Calls
         /\ Call("load", NoConn).kind = "load"
         /\ Call("disconnect", NoConn).kind = "disconnect"
         /\ Call("connect", c).kind = "connect" /\ Call("connect", c).conn = c
BY DEF Call, Calls

LEMMA EmittedType ==
  ASSUME UiTypes, NEW c \in Conns, NEW type \in {"Hello", "Disconnected"},
         Emit([type |-> type, conn |-> c])
  PROVE  /\ [type |-> type, conn |-> c] \in Events
         /\ events' = Append(events, [type |-> type, conn |-> c])
         /\ events' \in Seq(Events)
<1>1. [type |-> type, conn |-> c] \in Events
  BY DEF Events, Told
<1>2. events' = Append(events, [type |-> type, conn |-> c])
  BY DEF Emit
<1>3. QED
  BY <1>1, <1>2, AtTheEnd DEF UiTypes

LEMMA HeadCall ==
  ASSUME UiTypes, NEW kind, Runs(kind)
  PROVE  /\ busy = Idle /\ calls # << >> /\ calls' = Tail(calls)
         /\ Head(calls) \in Calls /\ Head(calls).kind = kind
         /\ Head(calls) = calls[1] /\ 1 \in DOMAIN calls
         /\ Tail(calls) \in Seq(Calls)
BY AtTheHead DEF Runs, UiTypes

LEMMA ReadFrame ==
  ASSUME UiTypes, NEW c \in Conns, stream_frames(c)
  PROVE  LET e == frame_to_live_event(c, Head(coming[c]))
         IN  /\ e \in Events /\ e.conn = c
             /\ events' = Append(events, e) /\ events' \in Seq(Events)
             /\ coming' \in [Conns -> Seq(Format!Frame)]
<1>1. coming[c] \in Seq(Format!Frame) /\ coming[c] # << >>
  BY DEF UiTypes, stream_frames
<1>2. Head(coming[c]) \in Format!Frame /\ Tail(coming[c]) \in Seq(Format!Frame)
  BY <1>1, AtTheHead
<1> DEFINE e == frame_to_live_event(c, Head(coming[c]))
<1>3. e \in Events /\ e.conn = c
  BY <1>2, EventType
<1>4. events' = Append(events, e)
  BY DEF stream_frames, Emit
<1>5. coming' = [coming EXCEPT ![c] = Tail(@)]
  BY DEF stream_frames
<1> HIDE DEF e
<1>6. events' \in Seq(Events)
  BY <1>3, <1>4, AtTheEnd DEF UiTypes
<1>7. coming' \in [Conns -> Seq(Format!Frame)]
  BY <1>2, <1>5 DEF UiTypes
<1>8. QED
  BY <1>3, <1>4, <1>6, <1>7 DEF e

LEMMA InitTypes == Init => UiTypes
<1> SUFFICES ASSUME Init PROVE UiTypes
  OBVIOUS
<1>1. PageType(page)
  BY UiAssumption DEF Init, PageType, Conns, NoConn
<1>2. calls \in Seq(Calls) /\ events \in Seq(Events) /\ clicks \in Nat
  BY DEF Init
<1>3. coming \in [Conns -> Seq(Format!Frame)]
  <2>1. << >> \in Seq(Format!Frame)
    OBVIOUS
  <2>2. QED
    BY <2>1 DEF Init
<1>4. QED
  BY <1>1, <1>2, <1>3 DEF Init, UiTypes

LEMMA StepTypes == UiTypes /\ [Next]_vars => UiTypes'
<1> SUFFICES ASSUME UiTypes, [Next]_vars PROVE UiTypes'
  OBVIOUS
<1> USE DEF UiTypes, backendVars, historyVars
<1>1. CASE Loaded
  <2>1. PageType(page')
    BY <1>1 DEF Loaded, PageType
  <2>2. QED
    BY <1>1, <2>1 DEF Loaded, PageType
<1>2. CASE Connected
  <2>1. PageType(page')
    BY <1>2 DEF Connected, PageType
  <2>2. QED
    BY <1>2, <2>1 DEF Connected
<1>3. CASE applyLiveEvent
  <2>1. PageType(page')
    <3>1. PageType([page EXCEPT !.live = FALSE])
      BY EndedPage
    <3>2. PageType(TickHashApplied(page, Head(events)))
      BY AppliedPage
    <3>3. \/ page' = page \/ page' = [page EXCEPT !.live = FALSE]
          \/ page' = TickHashApplied(page, Head(events))
      BY <1>3 DEF applyLiveEvent
    <3>4. QED
      BY <3>1, <3>2, <3>3
  <2>2. events' \in Seq(Events)
    BY <1>3, AtTheHead DEF applyLiveEvent
  <2>3. QED
    BY <1>3, <2>1, <2>2 DEF applyLiveEvent
<1>4. CASE load_session
  BY <1>4, HeadCall DEF load_session
<1>5. CASE connect_live
  <2>1. Runs("connect")
    BY <1>5 DEF connect_live
  <2>2. QED
    BY <1>5, <2>1, HeadCall DEF connect_live
<1>6. CASE disconnect_live
  BY <1>6, HeadCall DEF disconnect_live
<1>7. CASE Greeted
  <2>1. busy.conn \in Conns
    BY <1>7 DEF Greeted, Calls
  <2>2. events' \in Seq(Events)
    BY <1>7, <2>1, EmittedType DEF Greeted
  <2>3. coming' \in [Conns -> Seq(Format!Frame)]
    BY <1>7, <2>1, FramesAssumption DEF Greeted
  <2>4. QED
    BY <1>7, <2>1, <2>2, <2>3 DEF Greeted
<1>8. CASE loadPath
  <2>1. PageType(page')
    BY <1>8 DEF loadPath, PageType
  <2>2. Call("load", NoConn) \in Calls
    BY DEF Call, Calls
  <2>3. calls' \in Seq(Calls)
    BY <1>8, <2>2, AtTheEnd DEF loadPath
  <2>4. QED
    BY <1>8, <2>1, <2>3 DEF loadPath, Click
<1>9. CASE connectLive
  <2> DEFINE c == page.asked + 1
  <2>1. c \in Conns /\ c \in 0 .. MaxConns
    BY <1>9, UiAssumption DEF connectLive, PageType, Conns
  <2>2. PageType(page')
    BY <1>9, <2>1 DEF connectLive, PageType
  <2>3. Call("connect", c) \in Calls
    BY <2>1 DEF Call, Calls
  <2>4. calls' = Append(calls, Call("connect", c))
    BY <1>9 DEF connectLive
  <2>5. calls' \in Seq(Calls)
    BY <2>3, <2>4, AtTheEnd
  <2>6. overlap' \in BOOLEAN /\ doubled' \in BOOLEAN
    BY <1>9 DEF connectLive
  <2>7. QED
    BY <1>9, <2>2, <2>5, <2>6 DEF connectLive, Click
<1>10. CASE disconnectLive
  <2>1. Call("disconnect", NoConn) \in Calls
    BY DEF Call, Calls
  <2>2. calls' \in Seq(Calls)
    BY <1>10, <2>1, AtTheEnd DEF disconnectLive
  <2>3. QED
    BY <1>10, <2>2 DEF disconnectLive, Click
<1>11. CASE NotGreeted
  BY <1>11 DEF NotGreeted
<1>12. ASSUME NEW c \in Conns, stream_frames(c) PROVE UiTypes'
  BY <1>12, ReadFrame DEF stream_frames
<1>13. ASSUME NEW c \in Conns, StreamEnds(c) PROVE UiTypes'
  <2>1. events' \in Seq(Events)
    BY <1>13, EmittedType DEF StreamEnds
  <2>2. coming' \in [Conns -> Seq(Format!Frame)]
    <3>1. << >> \in Seq(Format!Frame)
      OBVIOUS
    <3>2. coming' = [coming EXCEPT ![c] = << >>]
      BY <1>13 DEF StreamEnds
    <3>3. QED
      BY <3>1, <3>2
  <2>3. QED
    BY <1>13, <2>1, <2>2 DEF StreamEnds
<1>14. ASSUME NEW c \in Conns, StreamGivesUp(c) PROVE UiTypes'
  <2>1. events' \in Seq(Events)
    BY <1>14, EmittedType DEF StreamGivesUp
  <2>2. coming' \in [Conns -> Seq(Format!Frame)]
    <3>1. << >> \in Seq(Format!Frame)
      OBVIOUS
    <3>2. coming' = [coming EXCEPT ![c] = << >>]
      BY <1>14 DEF StreamGivesUp
    <3>3. QED
      BY <3>1, <3>2
  <2>3. QED
    BY <1>14, <2>1, <2>2 DEF StreamGivesUp
<1>15. ASSUME NEW c \in Conns, GameCloses(c) PROVE UiTypes'
  BY <1>15 DEF GameCloses
<1>16. CASE UNCHANGED vars
  BY <1>16 DEF vars
<1>17. QED
  BY <1>1, <1>2, <1>3, <1>4, <1>5, <1>6, <1>7, <1>8, <1>9, <1>10, <1>11, <1>12,
     <1>13, <1>14, <1>15, <1>16 DEF Next, MainThread, User

----------------------------------------------------------------------------
(* Disconnecting *)

LEMMA TailCalls ==
  ASSUME UiTypes, NEW kind, Runs(kind)
  PROVE  \A i \in DOMAIN calls' : /\ i + 1 \in DOMAIN calls /\ calls'[i] = calls[i + 1]
                                  /\ i \in Nat /\ i + 1 # 1
<1>1. calls \in Seq(Calls) /\ calls # << >> /\ calls' = Tail(calls)
  BY HeadCall DEF UiTypes
<1>2. QED
  BY <1>1, AtTheHead

LEMMA MoreCalls ==
  ASSUME UiTypes, NEW call \in Calls, calls' = Append(calls, call)
  PROVE  \A i \in DOMAIN calls' : \/ i \in DOMAIN calls /\ calls'[i] = calls[i]
                                  \/ i = Len(calls) + 1 /\ calls'[i] = call
BY AtTheEnd DEF UiTypes

LEMMA StepAlone == UiTypes /\ Alone /\ [Next]_vars => Alone'
<1> SUFFICES ASSUME UiTypes, Alone, [Next]_vars PROVE Alone'
  OBVIOUS
<1>q. ASSUME UNCHANGED <<calls, busy, stored, open, doubled>> PROVE Alone'
  BY <1>q DEF Alone
<1>c. ASSUME NEW call \in Calls, call.kind # "connect", calls' = Append(calls, call),
             UNCHANGED <<busy, stored, open, doubled>>
      PROVE  Alone'
  <2>1. \A i \in DOMAIN calls' : calls'[i].kind = "connect" =>
          i \in DOMAIN calls /\ calls'[i] = calls[i]
    BY <1>c, MoreCalls
  <2>2. QED
    BY <1>c, <2>1 DEF Alone
<1>1. CASE Loaded \/ Connected \/ applyLiveEvent
  BY <1>1, <1>q DEF Loaded, Connected, applyLiveEvent, backendVars, historyVars
<1>2. CASE load_session
  <2>1. \A i \in DOMAIN calls' : /\ i + 1 \in DOMAIN calls /\ calls'[i] = calls[i + 1]
                                 /\ i \in Nat
    BY <1>2, TailCalls DEF load_session
  <2>2. UNCHANGED <<busy, stored, open, doubled>>
    BY <1>2 DEF load_session, backendVars, historyVars
  <2>3. QED
    BY <2>1, <2>2 DEF Alone
<1>3. CASE connect_live
  <2>1. Runs("connect") /\ UNCHANGED <<stored, open, doubled>>
    BY <1>3 DEF connect_live, historyVars
  <2>2. \A i \in DOMAIN calls' : /\ i + 1 \in DOMAIN calls /\ calls'[i] = calls[i + 1]
                                 /\ i \in Nat /\ i + 1 # 1
    BY <2>1, TailCalls
  <2>3. calls[1].kind = "connect" /\ 1 \in DOMAIN calls
    BY <2>1, HeadCall
  <2>4. ~ doubled => open = {}
    BY <2>3 DEF Alone
  <2>5. ~ doubled => \A i \in DOMAIN calls' : calls'[i].kind # "connect"
    BY <2>2, <2>3 DEF Alone
  <2>6. QED
    BY <2>1, <2>4, <2>5 DEF Alone
<1>4. CASE disconnect_live
  <2>1. Runs("disconnect") /\ UNCHANGED <<busy, doubled>> /\ open' = open \ {stored}
    BY <1>4 DEF disconnect_live, historyVars
  <2>2. \A i \in DOMAIN calls' : /\ i + 1 \in DOMAIN calls /\ calls'[i] = calls[i + 1]
                                 /\ i \in Nat
    BY <2>1, TailCalls
  <2>3. QED
    BY <2>1, <2>2 DEF Alone
<1>5. CASE Greeted
  <2>1. /\ busy # Idle /\ busy' = Idle /\ stored' = busy.conn
        /\ open' = open \cup {busy.conn} /\ UNCHANGED <<calls, doubled>>
    BY <1>5 DEF Greeted, historyVars
  <2>2. ~ doubled => open = {} /\ \A i \in DOMAIN calls : calls[i].kind # "connect"
    BY <2>1 DEF Alone
  <2>3. QED
    BY <2>1, <2>2 DEF Alone
<1>6. CASE loadPath
  <2>1. Call("load", NoConn) \in Calls /\ Call("load", NoConn).kind # "connect"
    BY DEF Call, Calls, UiTypes
  <2>2. /\ calls' = Append(calls, Call("load", NoConn))
        /\ UNCHANGED <<busy, stored, open, doubled>>
    BY <1>6 DEF loadPath, backendVars
  <2>3. QED
    BY <2>1, <2>2, <1>c
<1>7. CASE connectLive
  <2> DEFINE c == page.asked + 1
  <2>1. Call("connect", c) \in Calls
    BY <1>7, UiAssumption DEF connectLive, UiTypes, PageType, Call, Calls, Conns
  <2>2. /\ calls' = Append(calls, Call("connect", c))
        /\ UNCHANGED <<busy, stored, open>>
        /\ ~ doubled' => /\ ~ doubled /\ open = {} /\ busy = Idle
                         /\ \A i \in DOMAIN calls : calls[i].kind # "connect"
    BY <1>7 DEF connectLive, backendVars, Asked
  <2> HIDE DEF c
  <2>3. ~ doubled' => \A i \in DOMAIN calls' : calls'[i].kind = "connect" =>
                        i = Len(calls) + 1
    BY <2>1, <2>2, MoreCalls
  <2>4. QED
    BY <2>2, <2>3 DEF Alone
<1>8. CASE disconnectLive
  <2>1. Call("disconnect", NoConn) \in Calls /\ Call("disconnect", NoConn).kind # "connect"
    BY DEF Call, Calls, UiTypes
  <2>2. /\ calls' = Append(calls, Call("disconnect", NoConn))
        /\ UNCHANGED <<busy, stored, open, doubled>>
    BY <1>8 DEF disconnectLive, backendVars
  <2>3. QED
    BY <2>1, <2>2, <1>c
<1>9. CASE NotGreeted
  BY <1>9 DEF NotGreeted, Alone, historyVars
<1>10. ASSUME NEW c \in Conns, stream_frames(c) \/ StreamEnds(c) PROVE Alone'
  BY <1>10, <1>q DEF stream_frames, StreamEnds, historyVars
<1>11. ASSUME NEW c \in Conns, StreamGivesUp(c) \/ GameCloses(c) PROVE Alone'
  <2>1. open' \subseteq open /\ UNCHANGED <<calls, busy, stored, doubled>>
    BY <1>11 DEF StreamGivesUp, GameCloses, historyVars
  <2>2. QED
    BY <2>1 DEF Alone
<1>12. CASE UNCHANGED vars
  BY <1>12, <1>q DEF vars, backendVars, historyVars
<1>13. QED
  BY <1>1, <1>2, <1>3, <1>4, <1>5, <1>6, <1>7, <1>8, <1>9, <1>10, <1>11, <1>12
     DEF Next, MainThread, User

----------------------------------------------------------------------------
(* What the page shows *)

LEMMA StepAnswers == UiTypes /\ Answers /\ [Next]_vars => Answers'
<1> SUFFICES ASSUME UiTypes, Answers, [Next]_vars PROVE Answers'
  OBVIOUS
<1>q. ASSUME replies' \subseteq replies PROVE Answers'
  BY <1>q DEF Answers
<1>r. ASSUME NEW call \in Calls, NEW result, Reply(call, result),
             call.kind # "load"
               \/ \A i \in DOMAIN result.reports : result.reports[i].conn = NoConn
      PROVE  Answers'
  <2> DEFINE new == [kind |-> call.kind, id |-> call.id, session |-> result]
  <2>1. replies' = replies \cup {new}
    BY <1>r DEF Reply
  <2>2. new.kind = call.kind /\ new.session = result
    OBVIOUS
  <2> HIDE DEF new
  <2>3. QED
    BY <1>r, <2>1, <2>2 DEF Answers
<1>1. CASE Loaded \/ Connected
  BY <1>1, <1>q DEF Loaded, Connected
<1>2. CASE load_session
  <2>1. Head(calls) \in Calls
    BY <1>2, HeadCall DEF load_session
  <2>2. ASSUME NEW file \in Recordings, Reply(Head(calls), load(file)) PROVE Answers'
    <3>1. load(file).reports = tick_hashes(file) /\ file \in Seq(Format!Frame)
      BY FramesAssumption DEF load
    <3>2. QED
      BY <1>r, <2>1, <2>2, <3>1, LoadedReports
  <2>3. QED
    BY <1>2, <1>q, <2>2 DEF load_session, Loads
<1>3. CASE connect_live
  <2>1. Head(calls) \in Calls /\ Head(calls).kind = "connect"
    BY <1>3, HeadCall DEF connect_live
  <2>2. Reply(Head(calls), NoSession) \/ UNCHANGED replies
    BY <1>3 DEF connect_live
  <2>3. QED
    BY <1>q, <1>r, <2>1, <2>2
<1>4. CASE NotGreeted
  <2>1. busy \in Calls /\ busy.kind # "load" /\ Reply(busy, NoSession)
    BY <1>4 DEF NotGreeted, UiTypes
  <2>2. QED
    BY <1>r, <2>1
<1>5. CASE UNCHANGED replies
  BY <1>5, <1>q
<1>6. QED
  BY <1>1, <1>2, <1>3, <1>4, <1>5
     DEF Next, MainThread, User, vars, applyLiveEvent, disconnect_live, Greeted,
         loadPath, connectLive, disconnectLive, stream_frames, StreamEnds,
         StreamGivesUp, GameCloses

LEMMA StepOwn == UiTypes /\ Answers /\ StrayOnlyOnOverlap /\ Own
                   /\ [Next]_vars => StrayOnlyOnOverlap' /\ Own'
<1> SUFFICES ASSUME UiTypes, Answers, StrayOnlyOnOverlap, Own, [Next]_vars
             PROVE  StrayOnlyOnOverlap' /\ Own'
  OBVIOUS
<1> DEFINE own == ~ overlap /\ page.live
<1>q. ASSUME UNCHANGED <<page, calls, busy, events, overlap>>,
             reading' \subseteq reading, replies' \subseteq replies
      PROVE  StrayOnlyOnOverlap' /\ Own'
  BY <1>q DEF Own, StrayOnlyOnOverlap
<1>e. ASSUME NEW e \in Events, own => e.conn = page.origin,
             events' = Append(events, e), UNCHANGED overlap
      PROVE  own => \A i \in DOMAIN events' : events'[i].conn = page.origin
  <2>1. \A i \in DOMAIN events' : \/ i \in DOMAIN events /\ events'[i] = events[i]
                                  \/ events'[i] = e
    BY <1>e, AtTheEnd DEF UiTypes
  <2>2. QED
    BY <1>e, <2>1 DEF Own
<1>t. ASSUME NEW kind, Runs(kind)
      PROVE  own => \A i \in DOMAIN calls' :
               /\ calls'[i].kind # "load"
               /\ calls'[i].kind = "connect" => calls'[i].conn = page.origin
  <2>1. \A i \in DOMAIN calls' : i + 1 \in DOMAIN calls /\ calls'[i] = calls[i + 1]
    BY <1>t, TailCalls
  <2>2. QED
    BY <2>1 DEF Own
<1>1. CASE Loaded
  <2>1. PICK r \in replies : /\ r.kind = "load"
          /\ page' = [page EXCEPT !.shown = TRUE, !.origin = NoConn,
                                  !.reports = r.session.reports,
                                  !.divergence = r.session.divergence]
          /\ overlap' = (overlap /\ page.live)
    BY <1>1 DEF Loaded
  <2>2. page'.live = page.live /\ page'.origin = NoConn
        /\ page'.reports = r.session.reports
    BY <2>1 DEF UiTypes, PageType
  <2>3. ~ (~ overlap /\ page.live)
    BY <2>1 DEF Own
  <2>4. QED
    BY <2>1, <2>2, <2>3 DEF Own, StrayOnlyOnOverlap, Answers
<1>2. CASE Connected
  <2>1. /\ page'.live = FALSE /\ page'.origin = page.origin
        /\ page'.reports = page.reports /\ overlap' = overlap
    BY <1>2 DEF Connected, UiTypes, PageType, historyVars
  <2>2. QED
    BY <2>1 DEF Own, StrayOnlyOnOverlap
<1>3. CASE applyLiveEvent
  <2> DEFINE e == Head(events)
  <2>1. /\ events # << >> /\ events' = Tail(events) /\ overlap' = overlap
        /\ UNCHANGED <<calls, replies, busy, reading>>
    BY <1>3 DEF applyLiveEvent, historyVars, backendVars
  <2>2. /\ e \in Events /\ 1 \in DOMAIN events /\ e = events[1]
        /\ \A i \in DOMAIN events' : i + 1 \in DOMAIN events /\ events'[i] = events[i + 1]
    BY <2>1, AtTheHead DEF UiTypes
  <2>3. own => e.conn = page.origin
             /\ \A i \in DOMAIN events' : events'[i].conn = page.origin
    BY <2>2 DEF Own
  <2>4. \/ page' = page \/ page' = [page EXCEPT !.live = FALSE]
        \/ page.live /\ page' = TickHashApplied(page, e)
    BY <1>3 DEF applyLiveEvent
  <2> HIDE DEF e
  <2>5. CASE page' = page
    BY <2>1, <2>3, <2>5 DEF Own, StrayOnlyOnOverlap
  <2>6. CASE page' = [page EXCEPT !.live = FALSE]
    <3>1. /\ page'.live = FALSE /\ page'.origin = page.origin
          /\ page'.reports = page.reports
      BY <2>6, EndedPage DEF UiTypes
    <3>2. QED
      BY <2>1, <3>1 DEF Own, StrayOnlyOnOverlap
  <2>7. CASE page.live /\ page' = TickHashApplied(page, e)
    <3>1. /\ page'.live = page.live /\ page'.origin = page.origin
          /\ page'.reports = Append(page.reports, e)
      BY <2>7, AppliedPage DEF UiTypes
    <3>2. CASE overlap
      BY <3>2, <2>1 DEF Own, StrayOnlyOnOverlap
    <3>3. CASE ~ overlap
      <4>1. own /\ page.reports \in Seq(Events)
        BY <3>3, <2>7 DEF Own
      <4>2. /\ page'.reports \in Seq(Events)
            /\ \A i \in DOMAIN page'.reports :
                 \/ i \in DOMAIN page.reports /\ page'.reports[i] = page.reports[i]
                 \/ page'.reports[i] = e
        BY <3>1, <4>1, <2>2, AtTheEnd
      <4>3. \A i \in DOMAIN page'.reports : page'.reports[i].conn = page'.origin
        BY <3>1, <3>3, <4>1, <4>2, <2>3 DEF StrayOnlyOnOverlap
      <4>4. QED
        BY <2>1, <2>3, <3>1, <4>1, <4>2, <4>3 DEF Own, StrayOnlyOnOverlap
    <3>4. QED
      BY <3>2, <3>3
  <2>8. QED
    BY <2>4, <2>5, <2>6, <2>7
<1>4. CASE load_session
  <2>1. Head(calls).kind = "load" /\ Head(calls) = calls[1] /\ 1 \in DOMAIN calls
    BY <1>4, HeadCall DEF load_session
  <2>2. ~ own
    BY <2>1 DEF Own
  <2>3. UNCHANGED <<page, overlap>>
    BY <1>4 DEF load_session, historyVars
  <2>4. QED
    BY <2>2, <2>3 DEF Own, StrayOnlyOnOverlap
<1>5. CASE connect_live
  <2>1. Runs("connect") /\ UNCHANGED <<page, reading, events, overlap>>
    BY <1>5 DEF connect_live, historyVars
  <2>2. /\ Head(calls) = calls[1] /\ 1 \in DOMAIN calls
        /\ Head(calls).kind = "connect" /\ busy = Idle
    BY <2>1, HeadCall
  <2>3. own => Head(calls).conn = page.origin
    BY <2>2 DEF Own
  <2>4. \/ busy' = Head(calls) /\ replies' = replies
        \/ /\ busy' = busy
           /\ \E x : replies' = replies \cup {[kind |-> "connect", id |-> x,
                                              session |-> NoSession]}
    BY <1>5, <2>2 DEF connect_live, Reply
  <2>5. own => \A r \in replies' : r.kind # "load"
    BY <2>4 DEF Own
  <2>6. own /\ busy' # Idle => busy'.conn = page.origin
    BY <2>2, <2>3, <2>4
  <2>7. QED
    BY <2>1, <2>5, <2>6, <1>t DEF Own, StrayOnlyOnOverlap
<1>6. CASE disconnect_live
  BY <1>6, <1>t DEF disconnect_live, historyVars, Own, StrayOnlyOnOverlap
<1>7. CASE Greeted
  <2> DEFINE e == [type |-> "Hello", conn |-> busy.conn]
  <2>1. /\ busy # Idle /\ busy' = Idle /\ reading' = reading \cup {busy.conn}
        /\ UNCHANGED <<page, calls, replies, overlap>>
    BY <1>7 DEF Greeted, historyVars
  <2>2. busy.conn \in Conns /\ (own => busy.conn = page.origin)
    BY <2>1 DEF Own, UiTypes, Calls
  <2>3. e \in Events /\ events' = Append(events, e) /\ e.conn = busy.conn
    BY <1>7, <2>2, EmittedType DEF Greeted
  <2> HIDE DEF e
  <2>4. own => \A i \in DOMAIN events' : events'[i].conn = page.origin
    BY <2>1, <2>2, <2>3, <1>e
  <2>5. QED
    BY <2>1, <2>2, <2>4 DEF Own, StrayOnlyOnOverlap
<1>8. CASE loadPath
  <2>1. /\ page'.live = FALSE /\ page'.origin = page.origin
        /\ page'.reports = page.reports /\ overlap' = overlap
    BY <1>8, EndedPage DEF loadPath, UiTypes
  <2>2. QED
    BY <2>1 DEF Own, StrayOnlyOnOverlap
<1>9. CASE connectLive
  <2> DEFINE c == page.asked + 1
  <2>1. /\ page'.reports = << >> /\ page'.origin = c
        /\ calls' = Append(calls, Call("connect", c))
        /\ UNCHANGED <<busy, reading, replies, events>>
        /\ ~ overlap' => /\ reading = {} /\ busy = Idle /\ events = << >>
                         /\ replies = {} /\ calls = << >>
    BY <1>9 DEF connectLive, backendVars
  <2>2. Call("connect", c).kind = "connect" /\ Call("connect", c).conn = c
    BY DEF Call
  <2> HIDE DEF c
  <2>3. calls = << >> => /\ DOMAIN calls' = {1} /\ calls'[1] = Call("connect", c)
    BY <2>1
  <2>4. << >> \in Seq(Events) /\ DOMAIN << >> = {}
    OBVIOUS
  <2>5. QED
    BY <2>1, <2>2, <2>3, <2>4 DEF Own, StrayOnlyOnOverlap
<1>10. CASE disconnectLive
  <2>1. /\ calls' = Append(calls, Call("disconnect", NoConn))
        /\ UNCHANGED <<page, busy, reading, replies, events, overlap>>
    BY <1>10 DEF disconnectLive, backendVars
  <2>2. Call("disconnect", NoConn) \in Calls /\ Call("disconnect", NoConn).kind = "disconnect"
    BY DEF Call, Calls, UiTypes
  <2>3. \A i \in DOMAIN calls' : \/ i \in DOMAIN calls /\ calls'[i] = calls[i]
                                 \/ calls'[i] = Call("disconnect", NoConn)
    BY <2>1, <2>2, MoreCalls
  <2>4. QED
    BY <2>1, <2>2, <2>3 DEF Own, StrayOnlyOnOverlap
<1>11. CASE NotGreeted
  <2>1. /\ busy.kind = "connect" /\ busy' = Idle
        /\ \E x : replies' = replies \cup {[kind |-> busy.kind, id |-> x,
                                           session |-> NoSession]}
        /\ UNCHANGED <<page, calls, reading, events, overlap>>
    BY <1>11 DEF NotGreeted, Reply, historyVars, UiTypes
  <2>2. own => \A r \in replies' : r.kind # "load"
    BY <2>1 DEF Own
  <2>3. QED
    BY <2>1, <2>2 DEF Own, StrayOnlyOnOverlap
<1>12. ASSUME NEW c \in Conns, stream_frames(c)
       PROVE  StrayOnlyOnOverlap' /\ Own'
  <2> DEFINE e == frame_to_live_event(c, Head(coming[c]))
  <2>1. e \in Events /\ e.conn = c /\ events' = Append(events, e)
    BY <1>12, ReadFrame
  <2>2. c \in reading /\ UNCHANGED <<page, calls, replies, busy, reading, overlap>>
    BY <1>12 DEF stream_frames, historyVars
  <2> HIDE DEF e
  <2>3. own => e.conn = page.origin
    BY <2>1, <2>2 DEF Own
  <2>4. own => \A i \in DOMAIN events' : events'[i].conn = page.origin
    BY <2>1, <2>2, <2>3, <1>e
  <2>5. QED
    BY <2>2, <2>4 DEF Own, StrayOnlyOnOverlap
<1>13. ASSUME NEW c \in Conns, StreamEnds(c) \/ StreamGivesUp(c)
       PROVE  StrayOnlyOnOverlap' /\ Own'
  <2> DEFINE e == [type |-> "Disconnected", conn |-> c]
  <2>1. Emit(e)
    BY <1>13 DEF StreamEnds, StreamGivesUp
  <2>2. e \in Events /\ e.conn = c /\ events' = Append(events, e)
    BY <2>1, EmittedType
  <2>3. /\ c \in reading /\ reading' \subseteq reading
        /\ UNCHANGED <<page, calls, replies, busy, overlap>>
    BY <1>13 DEF StreamEnds, StreamGivesUp, historyVars
  <2> HIDE DEF e
  <2>4. own => e.conn = page.origin
    BY <2>2, <2>3 DEF Own
  <2>5. own => \A i \in DOMAIN events' : events'[i].conn = page.origin
    BY <2>2, <2>3, <2>4, <1>e
  <2>6. QED
    BY <2>3, <2>5 DEF Own, StrayOnlyOnOverlap
<1>14. ASSUME NEW c \in Conns, GameCloses(c)
       PROVE  StrayOnlyOnOverlap' /\ Own'
  BY <1>14, <1>q DEF GameCloses, historyVars
<1>15. CASE UNCHANGED vars
  BY <1>15, <1>q DEF vars, backendVars, historyVars
<1>16. QED
  BY <1>1, <1>2, <1>3, <1>4, <1>5, <1>6, <1>7, <1>8, <1>9, <1>10, <1>11, <1>12,
     <1>13, <1>14, <1>15 DEF Next, MainThread, User

----------------------------------------------------------------------------
(* The timeline *)

\* Two reports of tick t differ.
Differ(rs, t) ==
  \E i, j \in DOMAIN rs :
    rs[i].tick = t /\ rs[j].tick = t /\ rs[i].hash # rs[j].hash

Once(rs) ==
  \A i, j \in DOMAIN rs :
    rs[i].tick = rs[j].tick /\ rs[i].peer = rs[j].peer => i = j
InOrder(rs) == \A i, j \in DOMAIN rs : i < j => rs[i].tick <= rs[j].tick

\* d is flagged over the reports rs.
Flags(rs, d) ==
  \/ d = NoTick /\ \A t \in Ticks : ~ Differ(rs, t)
  \/ /\ d \in Ticks /\ Differ(rs, d)
     /\ InOrder(rs) => \A t \in Ticks : Differ(rs, t) => d <= t

\* What holds of a page's reports and its divergence tick.
Shows(rs, d) ==
  /\ rs \in Seq(Reports) /\ d \in Ticks \cup {NoTick}
  /\ Once(rs) => Flags(rs, d)

LEMMA ReportFields ==
  ASSUME NEW rs \in Seq(Reports)
  PROVE  /\ DOMAIN rs \in SUBSET Nat
         /\ \A i \in DOMAIN rs : rs[i].tick \in Ticks /\ rs[i].type = "TickHash"
<1>1. \A r \in Reports : r.tick \in Ticks /\ r.type = "TickHash"
  BY DEF Reports, Report
<1>2. QED
  BY <1>1

\* The bisection's comparison with the first report of a tick finds a
\* difference when there is one.
LEMMA FileDisagreesIffDiffer ==
  ASSUME NEW rs \in Seq(Reports), NEW t
  PROVE  Format!FileDisagrees(rs, t) <=> Differ(rs, t)
<1> DEFINE at == Format!FramesAt(rs, t)
<1>1. at = {i \in DOMAIN rs : rs[i].tick = t} /\ at \in SUBSET Nat
  BY ReportFields DEF Format!FramesAt
<1>2. ASSUME NEW i \in at, NEW j \in at, rs[i].hash # rs[j].hash
      PROVE  Format!FileDisagrees(rs, t)
  <2>1. PICK first \in at : \A k \in at : first <= k
    <3> HIDE DEF at
    <3>1. QED
      BY <1>1, Least
  <2>2. rs[i].hash # rs[first].hash \/ rs[j].hash # rs[first].hash
    BY <1>2
  <2>3. QED
    BY <2>1, <2>2 DEF Format!FileDisagrees
<1>3. Format!FileDisagrees(rs, t) => \E i, j \in at : rs[i].hash # rs[j].hash
  BY DEF Format!FileDisagrees
<1> HIDE DEF at
<1>4. QED
  BY <1>1, <1>2, <1>3 DEF Differ

\* The bisection's answer is the least tick of which two reports differ.
LEMMA FirstIsLeast ==
  ASSUME NEW rs \in Seq(Reports)
  PROVE  \/ First(rs) = NoTick /\ \A t \in Ticks : ~ Differ(rs, t)
         \/ /\ First(rs) \in Ticks /\ Differ(rs, First(rs))
            /\ \A t \in Ticks : Differ(rs, t) => First(rs) <= t
<1> DEFINE D == {t \in Ticks : Differ(rs, t)}
           E == {t \in D : \A u \in D : t <= u}
<1>1. Format!FindFirstDivergence(rs) = E
  <2>1. {t \in Ticks : Format!FileDisagrees(rs, t)} = D
    BY FileDisagreesIffDiffer
  <2> HIDE DEF D
  <2>2. QED
    BY <2>1 DEF Format!FindFirstDivergence, Format!Earliest
<1>2. First(rs) = IF E = {} THEN NoTick ELSE CHOOSE t \in E : TRUE
  BY <1>1 DEF First
<1>3. CASE D = {}
  <2>1. E = {}
    BY <1>3
  <2>2. QED
    BY <1>2, <1>3, <2>1
<1>4. CASE D # {}
  <2>1. E # {}
    <3>1. D \in SUBSET Nat
      BY UiAssumption
    <3> HIDE DEF D
    <3>2. \E t \in D : \A u \in D : t <= u
      BY <1>4, <3>1, Least
    <3>3. QED
      BY <3>2
  <2>2. First(rs) \in E
    <3> HIDE DEF E
    <3>1. QED
      BY <1>2, <2>1
  <2>3. QED
    BY <2>2
<1>5. QED
  BY <1>3, <1>4

\* When no peer reports a tick twice, byTick holds every report of it.
LEMMA TimelineComparesAll ==
  ASSUME NEW rs \in Seq(Reports), NEW t, Once(rs)
  PROVE  tickDisagrees(rs, t) <=> Differ(rs, t)
<1>1. index(rs, t) = {i \in DOMAIN rs : rs[i].tick = t}
  <2>1. ASSUME NEW i \in DOMAIN rs, rs[i].tick = t PROVE i \in index(rs, t)
    <3>1. ASSUME NEW j \in DOMAIN rs, rs[j].tick = t, rs[j].peer = rs[i].peer
          PROVE  j <= i
      <4>1. i = j
        BY <2>1, <3>1 DEF Once
      <4>2. i \in Nat
        BY ReportFields
      <4>3. QED
        BY <4>1, <4>2
    <3>2. QED
      BY <2>1, <3>1 DEF index
  <2>2. QED
    BY <2>1 DEF index
<1>2. QED
  BY <1>1 DEF tickDisagrees, Differ

\* One report more.
LEMMA ShowsAppended ==
  ASSUME NEW rs, NEW d, Shows(rs, d), NEW e \in Reports
  PROVE  LET new == Append(rs, e)
         IN  Shows(new, IF d = NoTick /\ tickDisagrees(new, e.tick) THEN e.tick ELSE d)
<1> DEFINE new == Append(rs, e)
           f == IF d = NoTick /\ tickDisagrees(new, e.tick) THEN e.tick ELSE d
<1>1. /\ new \in Seq(Reports) /\ Len(rs) \in Nat
      /\ DOMAIN rs = 1 .. Len(rs) /\ DOMAIN new = 1 .. Len(rs) + 1
      /\ \A i \in DOMAIN rs : new[i] = rs[i]
      /\ new[Len(rs) + 1] = e
  BY AtTheEnd DEF Shows
<1>2. e.tick \in Ticks
  BY DEF Reports, Report
<1>3. f \in Ticks \cup {NoTick}
  BY <1>2 DEF Shows
<1> SUFFICES ASSUME Once(new) PROVE Flags(new, f)
  <2> HIDE DEF new, f
  <2>1. Shows(new, f)
    BY <1>1, <1>3 DEF Shows
  <2>2. QED
    BY <2>1 DEF new, f
<1>4. tickDisagrees(new, e.tick) <=> Differ(new, e.tick)
  <2> HIDE DEF new
  <2>1. QED
    BY <1>1, TimelineComparesAll
<1>5. f = IF d = NoTick /\ Differ(new, e.tick) THEN e.tick ELSE d
  BY <1>4
<1> HIDE DEF new, f
<1>6. DOMAIN rs \subseteq DOMAIN new
  BY <1>1
<1>7. Flags(rs, d)
  <2>1. Once(rs)
    BY <1>1, <1>6 DEF Once
  <2>2. QED
    BY <2>1 DEF Shows
<1>8. \A t : Differ(rs, t) => Differ(new, t)
  BY <1>1, <1>6 DEF Differ
<1>9. ASSUME NEW t, Differ(new, t), ~ Differ(rs, t)
      PROVE  t = e.tick
  <2>1. PICK i \in DOMAIN new, j \in DOMAIN new :
          new[i].tick = t /\ new[j].tick = t /\ new[i].hash # new[j].hash
    BY <1>9 DEF Differ
  <2>2. ~ (i \in DOMAIN rs /\ j \in DOMAIN rs)
    BY <1>1, <1>9, <2>1 DEF Differ
  <2>3. i = Len(rs) + 1 \/ j = Len(rs) + 1
    BY <1>1, <2>2
  <2>4. QED
    BY <1>1, <2>1, <2>3
<1>10. InOrder(new) => InOrder(rs)
  BY <1>1, <1>6 DEF InOrder
<1>11. CASE d = NoTick
  <2>1. \A t \in Ticks : ~ Differ(rs, t)
    BY <1>7, <1>11, UiAssumption DEF Flags, NoTick
  <2>2. \A t \in Ticks : Differ(new, t) => t = e.tick
    BY <1>9, <2>1
  <2>3. CASE Differ(new, e.tick)
    <3>1. f = e.tick
      BY <1>5, <1>11, <2>3
    <3>2. \A t \in Ticks : Differ(new, t) => f <= t
      BY <1>2, <2>2, <3>1, UiAssumption
    <3>3. QED
      BY <1>2, <2>3, <3>1, <3>2 DEF Flags
  <2>4. CASE ~ Differ(new, e.tick)
    <3>1. f = NoTick
      BY <1>5, <1>11, <2>4
    <3>2. QED
      BY <2>2, <2>4, <3>1 DEF Flags
  <2>5. QED
    BY <2>3, <2>4
<1>12. CASE d # NoTick
  <2>1. f = d /\ d \in Ticks /\ Differ(rs, d)
        /\ (InOrder(rs) => \A t \in Ticks : Differ(rs, t) => d <= t)
    BY <1>5, <1>7, <1>12 DEF Flags
  <2>2. ASSUME InOrder(new), NEW t \in Ticks, Differ(new, t) PROVE d <= t
    <3>1. CASE Differ(rs, t)
      BY <1>10, <2>1, <2>2, <3>1
    <3>2. CASE ~ Differ(rs, t)
      <4>1. t = e.tick
        BY <1>9, <2>2, <3>2
      <4>2. PICK i \in DOMAIN rs : rs[i].tick = d
        BY <2>1 DEF Differ
      <4>3. i < Len(rs) + 1 /\ i \in DOMAIN new /\ Len(rs) + 1 \in DOMAIN new
        BY <1>1
      <4>4. new[i].tick <= new[Len(rs) + 1].tick
        BY <2>2, <4>3 DEF InOrder
      <4>5. QED
        BY <1>1, <4>1, <4>2, <4>4
    <3>3. QED
      BY <3>1, <3>2
  <2>3. QED
    BY <1>8, <2>1, <2>2 DEF Flags
<1>13. QED
  BY <1>11, <1>12

LEMMA ShowsNothing == Shows(<< >>, NoTick)
<1>1. << >> \in Seq(Reports) /\ DOMAIN << >> = {}
  OBVIOUS
<1>2. QED
  BY <1>1 DEF Shows, Flags, Differ

LEMMA ShowsLoaded ==
  ASSUME NEW rs \in Seq(Reports)
  PROVE  Shows(rs, First(rs))
BY FirstIsLeast DEF Shows, Flags

\* What the page flags is what the bisection finds.
LEMMA ShowsAgrees ==
  ASSUME Shows(page.reports, page.divergence)
  PROVE  TimelineAgreesWithBisect
<1> DEFINE rs == page.reports
           d == page.divergence
<1>1. rs \in Seq(Reports) /\ (Once(rs) => Flags(rs, d))
  BY DEF Shows
<1>2. \/ First(rs) = NoTick /\ \A t \in Ticks : ~ Differ(rs, t)
      \/ /\ First(rs) \in Ticks /\ Differ(rs, First(rs))
         /\ \A t \in Ticks : Differ(rs, t) => First(rs) <= t
  BY <1>1, FirstIsLeast
<1>3. \A t \in Ticks : t \in Nat /\ t # NoTick
  BY UiAssumption DEF NoTick
<1>4. Once(rs) => /\ d = NoTick <=> First(rs) = NoTick
                  /\ d >= First(rs)
                  /\ InOrder(rs) => d = First(rs)
  <2> HIDE DEF rs, d
  <2> SUFFICES ASSUME Once(rs) PROVE /\ d = NoTick <=> First(rs) = NoTick
                                     /\ d >= First(rs)
                                     /\ InOrder(rs) => d = First(rs)
    OBVIOUS
  <2>1. CASE First(rs) = NoTick /\ \A t \in Ticks : ~ Differ(rs, t)
    <3>1. d = NoTick
      BY <1>1, <2>1 DEF Flags
    <3>2. QED
      BY <2>1, <3>1 DEF NoTick
  <2>2. CASE /\ First(rs) \in Ticks /\ Differ(rs, First(rs))
             /\ \A t \in Ticks : Differ(rs, t) => First(rs) <= t
    <3>1. d \in Ticks /\ Differ(rs, d) /\ First(rs) <= d
          /\ (InOrder(rs) => d <= First(rs))
      BY <1>1, <2>2 DEF Flags
    <3>2. QED
      BY <1>3, <2>2, <3>1
  <2>3. QED
    BY <1>2, <2>1, <2>2
<1>5. QED
  BY <1>4 DEF TimelineAgreesWithBisect, Once, InOrder

\* What comes back from a load is a session a page may show.
Answered ==
  \A r \in replies : r.kind = "load" => Shows(r.session.reports, r.session.divergence)

Page ==
  /\ page.shown \in BOOLEAN /\ page.origin \in Conns \cup {NoConn}
  /\ Shows(page.reports, page.divergence)

Sockets == stored \in Conns \cup {NoConn} /\ open \subseteq Conns

LEMMA StepAnswered == UiTypes /\ Answered /\ [Next]_vars => Answered'
<1> SUFFICES ASSUME UiTypes, Answered, [Next]_vars PROVE Answered'
  OBVIOUS
<1>q. ASSUME replies' \subseteq replies PROVE Answered'
  BY <1>q DEF Answered
<1>r. ASSUME NEW call \in Calls, NEW result, Reply(call, result),
             call.kind # "load" \/ Shows(result.reports, result.divergence)
      PROVE  Answered'
  <2> DEFINE new == [kind |-> call.kind, id |-> call.id, session |-> result]
  <2>1. replies' = replies \cup {new}
    BY <1>r DEF Reply
  <2>2. new.kind = call.kind /\ new.session = result
    OBVIOUS
  <2> HIDE DEF new
  <2>3. QED
    BY <1>r, <2>1, <2>2 DEF Answered
<1>1. CASE Loaded \/ Connected
  BY <1>1, <1>q DEF Loaded, Connected
<1>2. CASE load_session
  <2>1. Head(calls) \in Calls
    BY <1>2, HeadCall DEF load_session
  <2>2. ASSUME NEW file \in Recordings, Reply(Head(calls), load(file)) PROVE Answered'
    <3>1. load(file).reports \in Seq(Reports)
          /\ load(file).divergence = First(load(file).reports)
      BY FramesAssumption, LoadedReports DEF load
    <3>2. Shows(load(file).reports, load(file).divergence)
      BY <3>1, ShowsLoaded
    <3>3. QED
      BY <1>r, <2>1, <2>2, <3>2
  <2>3. QED
    BY <1>2, <1>q, <2>2 DEF load_session, Loads
<1>3. CASE connect_live
  <2>1. Head(calls) \in Calls /\ Head(calls).kind = "connect"
    BY <1>3, HeadCall DEF connect_live
  <2>2. Reply(Head(calls), NoSession) \/ UNCHANGED replies
    BY <1>3 DEF connect_live
  <2>3. QED
    BY <1>q, <1>r, <2>1, <2>2
<1>4. CASE NotGreeted
  <2>1. busy \in Calls /\ busy.kind # "load" /\ Reply(busy, NoSession)
    BY <1>4 DEF NotGreeted, UiTypes
  <2>2. QED
    BY <1>r, <2>1
<1>5. CASE UNCHANGED replies
  BY <1>5, <1>q
<1>6. QED
  BY <1>1, <1>2, <1>3, <1>4, <1>5
     DEF Next, MainThread, User, vars, applyLiveEvent, disconnect_live, Greeted,
         loadPath, connectLive, disconnectLive, stream_frames, StreamEnds,
         StreamGivesUp, GameCloses

LEMMA StepPage == UiTypes /\ Answered /\ Page /\ [Next]_vars => Page'
<1> SUFFICES ASSUME UiTypes, Answered, Page, [Next]_vars PROVE Page'
  OBVIOUS
<1>e. ASSUME page' = [page EXCEPT !.live = FALSE] PROVE Page'
  <2>1. /\ page'.shown = page.shown /\ page'.origin = page.origin
        /\ page'.reports = page.reports /\ page'.divergence = page.divergence
    BY <1>e, EndedPage DEF UiTypes
  <2>2. QED
    BY <2>1 DEF Page
<1>1. CASE Loaded
  <2>1. PICK r \in replies : /\ r.kind = "load"
          /\ page' = [page EXCEPT !.shown = TRUE, !.origin = NoConn,
                                  !.reports = r.session.reports,
                                  !.divergence = r.session.divergence]
    BY <1>1 DEF Loaded
  <2>2. /\ page'.shown = TRUE /\ page'.origin = NoConn
        /\ page'.reports = r.session.reports
        /\ page'.divergence = r.session.divergence
    BY <2>1 DEF UiTypes, PageType
  <2>3. QED
    BY <2>1, <2>2 DEF Answered, Page
<1>2. CASE Connected \/ loadPath
  BY <1>2, <1>e DEF Connected, loadPath
<1>3. CASE connectLive
  <2>1. page.asked + 1 \in Conns
    BY <1>3, UiAssumption DEF connectLive, UiTypes, PageType, Conns
  <2>2. /\ page'.shown = TRUE /\ page'.origin = page.asked + 1
        /\ page'.reports = << >> /\ page'.divergence = NoTick
    BY <1>3 DEF connectLive
  <2>3. QED
    BY <2>1, <2>2, ShowsNothing DEF Page
<1>4. CASE applyLiveEvent
  <2> DEFINE e == Head(events)
  <2>1. e \in Events
    BY <1>4, AtTheHead DEF applyLiveEvent, UiTypes
  <2>2. \/ page' = page \/ page' = [page EXCEPT !.live = FALSE]
        \/ e.type = "TickHash" /\ page' = TickHashApplied(page, e)
    BY <1>4 DEF applyLiveEvent
  <2> HIDE DEF e
  <2>3. CASE e.type = "TickHash" /\ page' = TickHashApplied(page, e)
    <3>1. e \in Reports
      <4>1. e \in Reported
        BY <2>1, <2>3 DEF Events, Told
      <4>2. /\ e = Report(e.conn, e.tick, e.peer, e.hash) /\ e.conn \in Conns
            /\ e.tick \in Ticks /\ e.peer \in Peers /\ e.hash \in Hashes
        BY <4>1 DEF Reported, Report
      <4>3. QED
        BY <4>2 DEF Reports
    <3>2. /\ page'.shown = page.shown /\ page'.origin = page.origin
          /\ page'.reports = Append(page.reports, e)
          /\ page'.divergence = IF page.divergence = NoTick
                                     /\ tickDisagrees(page'.reports, e.tick)
                                THEN e.tick ELSE page.divergence
      BY <2>3, AppliedPage DEF UiTypes
    <3>3. Shows(page'.reports, page'.divergence)
      <4>1. PICK rs, new, d, f : /\ rs = page.reports /\ new = page'.reports
                                 /\ d = page.divergence /\ f = page'.divergence
        OBVIOUS
      <4>2. Shows(rs, d)
        BY <4>1 DEF Page
      <4>3. /\ new = Append(rs, e)
            /\ f = IF d = NoTick /\ tickDisagrees(new, e.tick) THEN e.tick ELSE d
        BY <3>2, <4>1
      <4>4. Shows(new, f)
        BY <3>1, <4>2, <4>3, ShowsAppended
      <4>5. QED
        BY <4>1, <4>4
    <3>4. QED
      BY <3>2, <3>3 DEF Page
  <2>4. CASE page' = page
    BY <2>4 DEF Page
  <2>5. QED
    BY <1>e, <2>2, <2>3, <2>4
<1>5. CASE UNCHANGED page
  BY <1>5 DEF Page
<1>6. QED
  BY <1>1, <1>2, <1>3, <1>4, <1>5
     DEF Next, MainThread, User, vars, load_session, connect_live, disconnect_live,
         Greeted, NotGreeted, disconnectLive, stream_frames, StreamEnds,
         StreamGivesUp, GameCloses

LEMMA StepSockets == UiTypes /\ Sockets /\ [Next]_vars => Sockets'
<1> SUFFICES ASSUME UiTypes, Sockets, [Next]_vars PROVE Sockets'
  OBVIOUS
<1>1. CASE Greeted
  <2>1. busy.conn \in Conns /\ stored' = busy.conn /\ open' = open \cup {busy.conn}
    BY <1>1 DEF Greeted, UiTypes, Calls
  <2>2. QED
    BY <2>1 DEF Sockets
<1>2. CASE disconnect_live
  BY <1>2 DEF disconnect_live, Sockets
<1>3. ASSUME NEW c \in Conns, StreamGivesUp(c) \/ GameCloses(c) PROVE Sockets'
  <2>1. open' \subseteq open /\ stored' = stored
    BY <1>3 DEF StreamGivesUp, GameCloses
  <2>2. QED
    BY <2>1 DEF Sockets
<1>4. CASE UNCHANGED <<stored, open>>
  BY <1>4 DEF Sockets
<1>5. QED
  BY <1>1, <1>2, <1>3, <1>4
     DEF Next, MainThread, User, vars, backendVars, Loaded, Connected, applyLiveEvent,
         load_session, connect_live, NotGreeted, loadPath, connectLive, disconnectLive,
         stream_frames, StreamEnds

----------------------------------------------------------------------------
(* Theorems *)

LEMMA InitInv == Init => UiInv
<1> SUFFICES ASSUME Init PROVE UiInv
  OBVIOUS
<1>1. UiTypes
  BY InitTypes
<1>2. /\ page.live = FALSE /\ page.reports = << >> /\ replies = {}
      /\ calls = << >> /\ open = {} /\ busy = Idle
  BY DEF Init
<1>3. QED
  BY <1>1, <1>2 DEF UiInv, Alone, Answers, StrayOnlyOnOverlap, Own

LEMMA Invariant == Spec => []UiInv
<1>1. UiInv /\ [Next]_vars => UiInv'
  BY StepTypes, StepAlone, StepAnswers, StepOwn DEF UiInv
<1>2. QED
  BY InitInv, <1>1, PTL DEF Spec

\* Every connection in use is the one a disconnect would shut down, unless one
\* was asked for while another was in use (LiveConnection, live.rs:80).
THEOREM DisconnectReachesAllCorrect == Spec => []DisconnectReachesAll
<1>1. UiInv => DisconnectReachesAll
  BY DEF UiInv, Alone, DisconnectReachesAll
<1>2. QED
  BY Invariant, <1>1, PTL

\* The page shows the reports of what it says it shows, unless a connection was
\* asked for with something else under way (applyLiveEvent, index.html:328).
THEOREM StrayOnlyOnOverlapCorrect == Spec => []StrayOnlyOnOverlap
<1>1. UiInv => StrayOnlyOnOverlap
  BY DEF UiInv
<1>2. QED
  BY Invariant, <1>1, PTL

\* With the same exception, a live session shown is ended by no event but its
\* own connection's (applyLiveEvent, case Disconnected).
THEOREM EndsOnItsOwnCorrect == Spec => EndsOnItsOwn
<1>1. UiInv /\ [Next]_vars =>
        [applyLiveEvent /\ page.live /\ ~ page'.live /\ ~ overlap
           => Head(events).conn = page.origin]_vars
  <2> SUFFICES ASSUME UiInv, applyLiveEvent, page.live, ~ overlap
               PROVE  Head(events).conn = page.origin
    OBVIOUS
  <2>1. events # << >>
    BY DEF applyLiveEvent
  <2>2. 1 \in DOMAIN events /\ Head(events) = events[1]
    BY <2>1, AtTheHead DEF UiInv, UiTypes
  <2>3. QED
    BY <2>2 DEF UiInv, Own
<1>2. QED
  BY Invariant, <1>1, PTL DEF Spec, EndsOnItsOwn

ShowInv == UiTypes /\ Answered /\ Page /\ Sockets

LEMMA ShowInvariant == Spec => []ShowInv
<1>1. Init => ShowInv
  <2> SUFFICES ASSUME Init PROVE ShowInv
    OBVIOUS
  <2>1. /\ page.shown = FALSE /\ page.origin = NoConn
        /\ page.reports = << >> /\ page.divergence = NoTick
        /\ replies = {} /\ stored = NoConn /\ open = {}
    BY DEF Init
  <2>2. QED
    BY <2>1, InitTypes, ShowsNothing DEF ShowInv, Answered, Page, Sockets
<1>2. ShowInv /\ [Next]_vars => ShowInv'
  BY StepTypes, StepAnswered, StepPage, StepSockets DEF ShowInv
<1>3. QED
  BY <1>1, <1>2, PTL DEF Spec

\* Every variable keeps its type.
THEOREM TypeCorrect == Spec => []TypeOK
<1>1. ShowInv => TypeOK
  <2> SUFFICES ASSUME ShowInv PROVE TypeOK
    OBVIOUS
  <2>1. page \in [shown : BOOLEAN, origin : Conns \cup {NoConn}, live : BOOLEAN,
                  reports : Seq(Reports), divergence : Ticks \cup {NoTick},
                  asked : Conns \cup {NoConn}]
    <3>1. page.asked \in Conns \cup {NoConn}
      BY UiAssumption DEF ShowInv, UiTypes, PageType, Conns, NoConn
    <3>2. QED
      BY <3>1 DEF ShowInv, UiTypes, PageType, Page, Shows
  <2>2. \A i \in DOMAIN calls : calls[i].kind \in {"load", "connect", "disconnect"}
    <3>1. \A i \in DOMAIN calls : calls[i] \in Calls
      BY DEF ShowInv, UiTypes
    <3>2. QED
      BY <3>1 DEF Calls
  <2>3. busy = Idle \/ (busy.kind = "connect" /\ busy.conn \in Conns)
    BY DEF ShowInv, UiTypes, Calls
  <2>4. QED
    BY <2>1, <2>2, <2>3 DEF ShowInv, UiTypes, Sockets, TypeOK
<1>2. QED
  BY ShowInvariant, <1>1, PTL

\* A page that is not mixed flags a tick exactly when the bisection of the same
\* reports finds one, never an earlier one, and that one when the reports came
\* in the order of their ticks (applyLiveEvent, index.html:337; session::load).
THEOREM TimelineAgreesWithBisectCorrect == Spec => []TimelineAgreesWithBisect
<1>1. ShowInv => TimelineAgreesWithBisect
  BY ShowsAgrees DEF ShowInv, Page
<1>2. QED
  BY ShowInvariant, <1>1, PTL

=============================================================================
